----------------------------- MODULE Reconcile -----------------------------
(***************************************************************************)
(* Channel reconciliation (src/src/sync.rs, reconcile_unlocked): one pass  *)
(* mirrors the Herdr Spaces into Buzz channels.  A pass holds the lock of  *)
(* the state store, works on a copy of the state file and writes it back   *)
(* ("checkpoint") around each call that changes the relay, so that what    *)
(* buzzr created or added can be told from what people did even when the   *)
(* pass is killed, or a call takes effect and its answer is lost.          *)
(*                                                                         *)
(* Names and ids are opaque; a creation marker is a fresh number, 0 for no *)
(* marker.  Channels are private, so an identity lists those it belongs to.*)
(***************************************************************************)
EXTENDS Naturals, FiniteSets

CONSTANTS
  Spaces,          \* Herdr workspace ids
  Names,           \* channel names (slugs of the Space labels)
  NamesOf,         \* the names a Space may be given: [Spaces -> SUBSET Names]
  Channels,        \* channel ids the relay can hand out
  HumanChannels,   \* those it hands out to people
  Agents,          \* public keys of agent identities
  Owners,          \* the configured human public key, if any
  Bridge,          \* the bridge's public key
  Readers,         \* agents whose private key is available to the bridge
  Procs,           \* processes that reconcile: the daemon, `buzzr reconcile`
  AtStart,         \* what is open in Herdr when buzzr runs for the first time
  Modes,           \* the values `apply` may take, subset of BOOLEAN
  ArchiveClosed,   \* bridge.archive_closed_spaces
  RemoveDeparted,  \* bridge.remove_departed_agents
  None,
  MaxMarks,        \* bound: create_channel attempts
  MaxFaults,       \* bound: crashes, errors and lost answers
  MaxEnv           \* bound: changes made by people and by Herdr

Keys == Agents \cup Owners \cup {Bridge}
Roles == {"owner", "admin", "member", "bot"}
Origins == {"none", "creating", "created", "adopted", "unknown"}

\* state["channels"][workspace_id]; origin "none" when there is no entry.
Mappings == [origin : Origins, ch : Channels \cup {None}, name : Names \cup {None},
             mark : 0..MaxMarks, arch : BOOLEAN]
Unmapped == [origin |-> "none", ch |-> None, name |-> None, mark |-> 0, arch |-> FALSE]

\* managed_resources.channel_memberships[channel][pubkey].
Records == [origin : {"none", "adding", "added"}, role : Roles \cup {None}]
NoRecord == [origin |-> "none", role |-> None]

Topologies == [label : [Spaces -> Names \cup {None}], live : [Spaces -> SUBSET Agents]]

ASSUME BoundsAssumption == MaxMarks \in Nat /\ MaxFaults \in Nat /\ MaxEnv \in Nat
ASSUME KeysAssumption ==
  /\ None \notin Keys \cup Channels \cup Names \cup Spaces \cup Procs \cup Roles
  /\ None \notin Topologies \cup [space : Spaces, name : Names]
  /\ Bridge \notin Agents \cup Owners
  /\ Agents \cap Owners = {}
  /\ Readers \subseteq Agents
  /\ HumanChannels \subseteq Channels
ASSUME ConfigAssumption ==
  /\ NamesOf \in [Spaces -> SUBSET Names]
  /\ AtStart \in Topologies
  /\ Modes \subseteq BOOLEAN
  /\ ArchiveClosed \in BOOLEAN /\ RemoveDeparted \in BOOLEAN

VARIABLES
  \* Herdr
  herdr,       \* the open Spaces, their names and live agents
  \* Buzz relay
  chName,      \* channel -> name, None while the channel does not exist
  chMark,      \* channel -> creation marker in its description, 0 for none
  role,        \* channel -> key -> role, None for a non-member
  arch,        \* channel -> who archived it: "no", "buzzr" or "human"
  \* state.json
  diskChannels, diskMembers,
  \* the pass that holds state.lock
  pc, holder, apply,
  channels, members,  \* its working copy of the state
  todo,        \* Spaces still to reconcile
  space, ch,   \* the Space at hand and its channel
  listed,      \* channel -> name it was listed under, None when not listed
  roles,       \* current_roles of ch
  target,      \* the key being added
  missed,      \* history: <<channel, key>> this pass found gone from a Space and the channel
  \* the other reconcilers
  snap,        \* process -> topology it built before taking the lock
  \* history and bounds
  made,        \* channel -> [space, name] buzzr created it for, or None
  granted,     \* <<channel, key>>: memberships that exist by add_member of buzzr
  accepted,    \* <<channel, key>>: add_member of buzzr was accepted, and buzzr has neither
               \* removed the key nor, in a pass that came to its end, missed it since
  nextMark, faults, env

relay == <<chName, chMark, role, arch, made, granted, accepted>>
disk == <<diskChannels, diskMembers>>
work == <<channels, members>>
pass == <<pc, holder, apply, channels, members, todo, space, ch, listed, roles, target, snap,
          missed>>
vars == <<herdr, relay, disk, pass, nextMark, faults, env>>

Topo == snap[holder]
NoRoles == [k \in Keys |-> None]
NotListed == [c \in Channels |-> None]

----------------------------------------------------------------------------
(* Parts of a pass.                                                        *)

\* checkpoint_provenance and the final save: the working copy replaces the file.
Checkpoint == diskChannels' = channels' /\ diskMembers' = members'

\* A call fails, or its answer is lost, or the process is killed.
Fault == faults < MaxFaults /\ faults' = faults + 1

\* The pass is over: state.lock is released and the working copy is gone.
EndPass ==
  /\ pc' = "idle" /\ holder' = None /\ apply' = FALSE
  /\ channels' = [s \in Spaces |-> Unmapped]
  /\ members' = [c \in Channels |-> [k \in Keys |-> NoRecord]]
  /\ todo' = {} /\ space' = None /\ ch' = None /\ target' = None
  /\ listed' = NotListed /\ roles' = NoRoles
  /\ snap' = [snap EXCEPT ![holder] = None]
  /\ missed' = {}

\* `continue`: on to the next Space of the loop.
NextSpace ==
  /\ pc' = "spaces" /\ todo' = todo \ {space}
  /\ space' = None /\ ch' = None /\ target' = None /\ roles' = NoRoles

\* A call took effect and the pass does not know: it ends, nothing is checkpointed.
Lost == Fault /\ EndPass /\ UNCHANGED <<herdr, disk, nextMark, env>>

Goto(l) == pc' = l /\ UNCHANGED <<todo, space, ch, target, roles>>
SameChannel == UNCHANGED <<holder, apply, listed, snap, missed>>
Quiet == UNCHANGED <<herdr, relay, nextMark, faults, env>>

\* A step that only moves the pass on, and a call whose answer arrives.
Local == SameChannel /\ Quiet /\ UNCHANGED <<disk, work>>
Ack == SameChannel /\ UNCHANGED <<herdr, nextMark, faults, env>>

RecordWithoutRole(c, k, o, r) == [members EXCEPT ![c][k] = [origin |-> o]]  \* a mutant

Record(c, k, o, r) == [members EXCEPT ![c][k] = [origin |-> o, role |-> r]]

----------------------------------------------------------------------------
(* A pass, up to the choice of a Space's channel.                          *)

\* The caller builds the topology before it asks for the lock.
Observe(p) ==
  /\ snap[p] = None
  /\ snap' = [snap EXCEPT ![p] = herdr]
  /\ UNCHANGED <<disk, pc, holder, apply, channels, members, todo, space, ch,
                 listed, roles, target, missed>>
  /\ Quiet

\* with_lock, load_strict: one pass at a time, on what the file holds.
Start(p) ==
  /\ holder = None /\ snap[p] # None
  /\ holder' = p /\ pc' = "list"
  /\ apply' \in Modes
  /\ channels' = diskChannels /\ members' = diskMembers
  /\ todo' = {s \in Spaces : snap[p].label[s] # None}
  /\ UNCHANGED <<disk, space, ch, listed, roles, target, snap, missed>>
  /\ Quiet

\* list_channels for each available credential; one that fails is skipped with
\* a warning.  Whether the relay lists archived channels is left open.
List(rs, hidden) ==
  /\ pc = "list"
  /\ \A c \in hidden : arch[c] # "no"
  /\ listed' = [c \in Channels |->
                  IF c \notin hidden /\ \E r \in rs : role[c][r] # None
                  THEN chName[c] ELSE None]
  /\ Goto("spaces")
  /\ UNCHANGED <<disk, work, holder, apply, snap, missed>>
  /\ Quiet

Exact(s) == {c \in Channels : listed[c] # None /\ listed[c] = Topo.label[s]}

NeverPending(s) == FALSE  \* a mutant of CreationPending

CreationPending(s) ==
  channels[s].origin = "creating" /\ channels[s].name = Topo.label[s]

MarkerIgnored(s, c) == TRUE       \* mutants of MarkerMatches
MarkerNeverMatches(s, c) == FALSE

\* channel_has_creation_marker
MarkerMatches(s, c) == channels[s].mark # 0 /\ chMark[c] = channels[s].mark

KnownOrigin(s) ==
  IF channels[s].origin \in {"created", "adopted"} THEN channels[s].origin ELSE "unknown"

Bound(s, c, o) ==
  [channels EXCEPT ![s] = [origin |-> o, ch |-> c, name |-> Topo.label[s], mark |-> 0,
                           arch |-> FALSE]]

Working(s) == pc = "spaces" /\ s \in todo

\* An archived mapping buzzr created is unarchived first; any other is preserved.
BeginUnarchive(s) ==
  /\ Working(s) /\ channels[s].arch /\ apply
  /\ channels[s].origin = "created" /\ channels[s].ch # None
  /\ pc' = "unarchive" /\ space' = s /\ ch' = channels[s].ch
  /\ UNCHANGED <<todo, roles, target>> /\ Local

Unarchive ==
  /\ pc = "unarchive"
  /\ arch' = [arch EXCEPT ![ch] = "no"]
  /\ UNCHANGED <<chName, chMark, role, made, granted, accepted>>
  /\ \/ /\ diskChannels' = [channels EXCEPT ![space].arch = FALSE]
        /\ diskMembers' = members
        /\ channels' = Bound(space, ch, "created")
        /\ UNCHANGED members
        /\ Goto("read") /\ Ack
     \/ Lost

\* A mapped channel is kept, whatever it is called now.
BindMapped(s) ==
  /\ Working(s) /\ ~channels[s].arch /\ channels[s].ch # None
  /\ channels' = Bound(s, channels[s].ch, KnownOrigin(s))
  /\ pc' = "read" /\ space' = s /\ ch' = channels[s].ch
  /\ UNCHANGED <<disk, members, todo, roles, target>> /\ SameChannel /\ Quiet

\* No mapping, and one listed channel has exactly this name: an interrupted
\* creation is recovered when the marker matches, anything else is adopted.
Recover(s) ==
  /\ Working(s) /\ ~channels[s].arch /\ channels[s].ch = None
  /\ \E c \in Channels :
       /\ Exact(s) = {c} /\ CreationPending(s) /\ MarkerMatches(s, c)
       /\ channels' = Bound(s, c, "created")
       /\ ch' = c
  /\ UNCHANGED members /\ Checkpoint
  /\ pc' = "update" /\ space' = s
  /\ UNCHANGED <<todo, roles, target>> /\ SameChannel /\ Quiet

Adopt(s) ==
  /\ Working(s) /\ ~channels[s].arch /\ channels[s].ch = None
  /\ \E c \in Channels :
       /\ Exact(s) = {c} /\ ~CreationPending(s)
       /\ channels' = Bound(s, c, "adopted")
       /\ ch' = c
  /\ pc' = "read" /\ space' = s
  /\ UNCHANGED <<disk, members, todo, roles, target>> /\ SameChannel /\ Quiet

\* The Space is left alone: archived and not buzzr's, an ambiguous name, an
\* interrupted creation whose channel is not found, or a preview.
SkipSpace(s) ==
  /\ Working(s)
  /\ \/ /\ channels[s].arch
        /\ ~apply \/ channels[s].origin # "created" \/ channels[s].ch = None
     \/ /\ ~channels[s].arch /\ channels[s].ch = None
        /\ \/ Cardinality(Exact(s)) > 1
           \/ CreationPending(s) /\ \A c \in Exact(s) : ~MarkerMatches(s, c)
           \/ Exact(s) = {} /\ (~apply \/ nextMark = MaxMarks)
  /\ pc' = "spaces" /\ todo' = todo \ {s}
  /\ UNCHANGED <<space, ch, roles, target>> /\ Local

\* Write-ahead: the intent to create, with a fresh marker, is on disk before
\* the call.
IntendCreate(s) ==
  /\ Working(s) /\ ~channels[s].arch /\ channels[s].ch = None
  /\ Exact(s) = {} /\ ~CreationPending(s) /\ apply
  /\ nextMark < MaxMarks
  /\ nextMark' = nextMark + 1
  /\ channels' = [channels EXCEPT
       ![s] = [origin |-> "creating", ch |-> None, name |-> Topo.label[s],
               mark |-> nextMark', arch |-> FALSE]]
  /\ UNCHANGED members /\ Checkpoint
  /\ pc' = "create" /\ space' = s
  /\ UNCHANGED <<herdr, relay, todo, ch, roles, target, faults, env>>
  /\ SameChannel

\* create_channel; the bridge owns what it creates.  When the answer arrives the
\* mapping and the bridge's membership are checkpointed.
Create ==
  /\ pc = "create"
  /\ \E c \in Channels :
       /\ c \notin HumanChannels /\ chName[c] = None
       /\ chName' = [chName EXCEPT ![c] = channels[space].name]
       /\ chMark' = [chMark EXCEPT ![c] = channels[space].mark]
       /\ role' = [role EXCEPT ![c] = [NoRoles EXCEPT ![Bridge] = "owner"]]
       /\ made' = [made EXCEPT ![c] = [space |-> space, name |-> channels[space].name]]
       /\ UNCHANGED <<arch, granted, accepted>>
       /\ \/ /\ channels' = Bound(space, c, "created")
             /\ members' = Record(c, Bridge, "added", "owner")
             /\ Checkpoint
             /\ pc' = "update" /\ ch' = c
             /\ UNCHANGED <<todo, space, roles, target>>
             /\ Ack
          \/ Lost

\* update_channel rewrites the name and the description, which drops the marker.
Update ==
  /\ pc = "update"
  /\ chName' = [chName EXCEPT ![ch] = channels[space].name]
  /\ chMark' = [chMark EXCEPT ![ch] = 0]
  /\ UNCHANGED <<role, arch, made, granted, accepted>>
  /\ \/ /\ Goto("read")
        /\ UNCHANGED <<disk, work>> /\ Ack
     \/ Lost

----------------------------------------------------------------------------
(* A pass, the members of the Space's channel.                             *)

\* members; when the call fails the Space is left with a warning.
ReadMembers ==
  /\ pc = "read"
  /\ roles' = role[ch]
  /\ pc' = "bridge"
  /\ UNCHANGED <<todo, space, ch, target>> /\ Local

ReadFailed ==
  /\ pc = "read"
  /\ NextSpace /\ Local

\* Mutants of IntendAdd: the record claims the addition, or is not on disk yet.
IntendAddAsAdded(k, r) ==
  /\ members' = Record(ch, k, "added", r)
  /\ UNCHANGED channels /\ Checkpoint
  /\ pc' = "add" /\ target' = k
  /\ UNCHANGED <<todo, space, ch, roles>> /\ SameChannel /\ Quiet

IntendAddUnsaved(k, r) ==
  /\ members' = Record(ch, k, "adding", r)
  /\ UNCHANGED <<channels, disk>>
  /\ pc' = "add" /\ target' = k
  /\ UNCHANGED <<todo, space, ch, roles>> /\ SameChannel /\ Quiet

\* Write-ahead of a membership: "adding" is on disk before add_member is called.
IntendAdd(k, r) ==
  /\ members' = Record(ch, k, "adding", r)
  /\ UNCHANGED channels /\ Checkpoint
  /\ pc' = "add" /\ target' = k
  /\ UNCHANGED <<todo, space, ch, roles>> /\ SameChannel /\ Quiet

\* An existing member, or the bridge itself in a channel the listing lacked, can
\* invite the bridge.
Inviter == (\E r \in Readers : roles[r] # None) \/ listed[ch] = None

InviteBridge ==
  /\ pc = "bridge" /\ roles[Bridge] = None /\ apply /\ Inviter
  /\ IntendAdd(Bridge, "member")

BridgeSettled ==
  /\ pc = "bridge"
  /\ \/ (roles[Bridge] # None \/ ~apply) /\ Goto("owner")
     \/ roles[Bridge] = None /\ apply /\ ~Inviter /\ NextSpace
  /\ Local

MissingOwners == {h \in Owners : roles[h] = None}
Elevated == roles[Bridge] \in {"owner", "admin"}

\* Only an elevated bridge can give the human ownership.
GrantOwner ==
  /\ pc = "owner" /\ apply /\ Elevated
  /\ \E h \in MissingOwners : IntendAdd(h, "owner")

OwnerSettled ==
  /\ pc = "owner"
  /\ MissingOwners = {} \/ ~apply \/ ~Elevated
  /\ Goto("agents") /\ Local

MissingAgents == {a \in Topo.live[space] : roles[a] = None}

AddAgent ==
  /\ pc = "agents" /\ apply
  /\ \E a \in MissingAgents : IntendAdd(a, "bot")

AgentsSettled ==
  /\ pc = "agents"
  /\ MissingAgents = {} \/ ~apply
  /\ Goto("departed") /\ Local

\* Who calls add_member: the bridge, or the reader that invites it.
Callers ==
  IF target = Bridge /\ \E r \in Readers : roles[r] # None
  THEN {r \in Readers : roles[r] # None} ELSE {Bridge}

\* add_member: a key somebody added meanwhile keeps its role.  The answer turns
\* "adding" into "added".
AddMember ==
  /\ pc = "add" /\ \E k \in Callers : role[ch][k] # None
  /\ LET r == members[ch][target].role IN
     /\ IF role[ch][target] = None
        THEN /\ role' = [role EXCEPT ![ch][target] = r]
             /\ granted' = granted \cup {<<ch, target>>}
        ELSE UNCHANGED <<role, granted>>
     /\ accepted' = accepted \cup {<<ch, target>>}
     /\ UNCHANGED <<chName, chMark, arch, made>>
     /\ \/ /\ members' = Record(ch, target, "added", r)
           /\ UNCHANGED channels /\ Checkpoint
           /\ roles' = [roles EXCEPT ![target] = r]
           /\ pc' = IF target \in Agents THEN "agents" ELSE "owner"
           /\ target' = None
           /\ missed' = missed \ {<<ch, target>>}
           /\ UNCHANGED <<todo, space, ch, holder, apply, listed, snap>>
           /\ UNCHANGED <<herdr, nextMark, faults, env>>
        \/ Lost

\* The relay refuses a caller that is no member (any more): the pass fails.
AddRefused ==
  /\ pc = "add" /\ \E k \in Callers : role[ch][k] = None
  /\ EndPass /\ UNCHANGED disk /\ Quiet

\* Bots recorded as added here that do not run in the Space any more.
Departed ==
  IF ~RemoveDeparted THEN {}
  ELSE {k \in Keys \ Topo.live[space] :
          members[ch][k].origin = "added" /\ members[ch][k].role = "bot"}

\* Keys this pass finds neither in the Space nor in its channel.
Gone == IF ~RemoveDeparted THEN {} ELSE {k \in Keys \ Topo.live[space] : roles[k] = None}

\* A departed bot that left the channel already is forgotten, with no checkpoint.
ForgetDeparted ==
  /\ pc = "departed"
  /\ \E k \in Departed :
       /\ roles[k] = None
       /\ members' = [members EXCEPT ![ch][k] = NoRecord]
  /\ UNCHANGED <<channels, disk, pc, todo, space, ch, target, roles>>
  /\ SameChannel /\ Quiet

\* A bot is removed with its own credential and only while it is still a bot.
Removable == {k \in Departed \cap Readers : roles[k] = "bot"}

RemoveMember ==
  /\ pc = "departed" /\ apply
  /\ \E k \in Removable :
       /\ role[ch][k] # None
       /\ role' = [role EXCEPT ![ch][k] = None]
       /\ granted' = granted \ {<<ch, k>>}
       /\ UNCHANGED <<chName, chMark, arch, made>>
       /\ \/ /\ members' = [members EXCEPT ![ch][k] = NoRecord]
             /\ UNCHANGED channels /\ Checkpoint
             /\ roles' = [roles EXCEPT ![k] = None]
             /\ accepted' = accepted \ {<<ch, k>>}
             /\ UNCHANGED <<pc, todo, space, ch, target>>
             /\ Ack
          \/ UNCHANGED accepted /\ Lost

\* The relay refuses to remove a key that is no member any more: the pass fails.
RemoveRefused ==
  /\ pc = "departed" /\ apply
  /\ \E k \in Removable : role[ch][k] = None
  /\ EndPass /\ UNCHANGED disk /\ Quiet

DepartedSettled ==
  /\ pc = "departed"
  /\ \A k \in Departed : roles[k] # None
  /\ Removable = {} \/ ~apply
  /\ NextSpace
  /\ missed' = missed \cup {<<ch, k>> : k \in Gone}
  /\ UNCHANGED <<disk, work, holder, apply, listed, snap>> /\ Quiet

----------------------------------------------------------------------------
(* The end of a pass.                                                      *)

\* A mutant of Closed: the provenance of the channel is not looked at.
ClosedAnyOrigin ==
  IF ~ArchiveClosed \/ ~apply THEN {}
  ELSE {s \in Spaces : /\ Topo.label[s] = None
                       /\ channels[s].ch # None /\ ~channels[s].arch}

\* Closed Spaces whose channel buzzr created are archived, after the loop.
Closed ==
  IF ~ArchiveClosed \/ ~apply THEN {}
  ELSE {s \in Spaces : /\ Topo.label[s] = None
                       /\ channels[s].origin = "created"
                       /\ channels[s].ch # None /\ ~channels[s].arch}

\* archive_channel_idempotent: "already archived" is a success.
Archive ==
  /\ pc = "spaces" /\ todo = {}
  /\ \E s \in Closed :
       LET c == channels[s].ch IN
       /\ arch' = [arch EXCEPT ![c] = IF @ = "no" THEN "buzzr" ELSE @]
       /\ UNCHANGED <<chName, chMark, role, made, granted, accepted>>
       /\ \/ /\ channels' = [channels EXCEPT ![s].arch = TRUE]
             /\ UNCHANGED members /\ Checkpoint
             /\ Goto("spaces")
             /\ Ack
          \/ Lost

\* The final save; previews save too.
Finish ==
  /\ pc = "spaces" /\ todo = {} /\ Closed = {}
  /\ diskChannels' = channels /\ diskMembers' = members
  /\ accepted' = accepted \ missed
  /\ EndPass
  /\ UNCHANGED <<herdr, chName, chMark, role, arch, made, granted, nextMark, faults, env>>

\* A call fails without effect, or the process is killed between two steps:
\* what is on disk is what the next pass reads.
Abort ==
  /\ holder # None
  /\ Fault /\ EndPass
  /\ UNCHANGED <<herdr, relay, disk, nextMark, env>>

----------------------------------------------------------------------------
(* Herdr and the people who use the relay.                                 *)

Change == env < MaxEnv /\ env' = env + 1
Idle == UNCHANGED <<disk, pass, nextMark, faults>>

\* A Space is opened, renamed or (n = None) closed.
NameSpace(s, n) ==
  /\ herdr.label[s] # n
  /\ herdr' = [herdr EXCEPT !.label[s] = n,
                            !.live[s] = IF n = None THEN {} ELSE @]
  /\ UNCHANGED relay /\ Change /\ Idle

RunAgent(s, a) ==
  /\ herdr.label[s] # None /\ a \notin herdr.live[s]
  /\ herdr' = [herdr EXCEPT !.live[s] = @ \cup {a}]
  /\ UNCHANGED relay /\ Change /\ Idle

ExitAgent(s, a) ==
  /\ a \in herdr.live[s]
  /\ herdr' = [herdr EXCEPT !.live[s] = @ \ {a}]
  /\ UNCHANGED relay /\ Change /\ Idle

\* Somebody creates a channel, with some of the keys as members.
HumanCreates(c, n, ks) ==
  /\ chName[c] = None
  /\ chName' = [chName EXCEPT ![c] = n]
  /\ role' = [role EXCEPT ![c] = [k \in Keys |-> IF k \in ks THEN "member" ELSE None]]
  /\ UNCHANGED <<herdr, chMark, arch, made, granted, accepted>> /\ Change /\ Idle

\* Somebody adds or removes a member, or changes a role.
HumanSetsRole(c, k, r) ==
  /\ chName[c] # None /\ role[c][k] # r
  /\ role' = [role EXCEPT ![c][k] = r]
  /\ granted' = IF r = None THEN granted \ {<<c, k>>} ELSE granted
  /\ UNCHANGED <<herdr, chName, chMark, arch, made, accepted>> /\ Change /\ Idle

HumanArchives(c, a) ==
  /\ chName[c] # None /\ (arch[c] = "no") = (a = "human")
  /\ arch' = [arch EXCEPT ![c] = a]
  /\ UNCHANGED <<herdr, chName, chMark, role, made, granted, accepted>> /\ Change /\ Idle

----------------------------------------------------------------------------
Init ==
  /\ herdr = AtStart
  /\ chName = [c \in Channels |-> None]
  /\ chMark = [c \in Channels |-> 0]
  /\ role = [c \in Channels |-> NoRoles]
  /\ arch = [c \in Channels |-> "no"]
  /\ diskChannels = [s \in Spaces |-> Unmapped]
  /\ diskMembers = [c \in Channels |-> [k \in Keys |-> NoRecord]]
  /\ pc = "idle" /\ holder = None /\ apply = FALSE
  /\ channels = [s \in Spaces |-> Unmapped]
  /\ members = [c \in Channels |-> [k \in Keys |-> NoRecord]]
  /\ todo = {} /\ space = None /\ ch = None /\ target = None
  /\ listed = NotListed /\ roles = NoRoles
  /\ snap = [p \in Procs |-> None]
  /\ missed = {}
  /\ made = [c \in Channels |-> None]
  /\ granted = {} /\ accepted = {}
  /\ nextMark = 0 /\ faults = 0 /\ env = 0

PassStep ==
  \/ \E rs \in SUBSET (Readers \cup {Bridge}), hidden \in SUBSET Channels : List(rs, hidden)
  \/ \E s \in Spaces : \/ BeginUnarchive(s) \/ BindMapped(s) \/ Recover(s)
                      \/ Adopt(s) \/ SkipSpace(s) \/ IntendCreate(s)
  \/ Unarchive \/ Create \/ Update \/ ReadMembers \/ ReadFailed
  \/ InviteBridge \/ BridgeSettled \/ GrantOwner \/ OwnerSettled
  \/ AddAgent \/ AgentsSettled \/ AddMember \/ AddRefused
  \/ ForgetDeparted \/ RemoveMember \/ RemoveRefused \/ DepartedSettled
  \/ Archive \/ Finish

Environment ==
  \/ \E s \in Spaces : \E n \in NamesOf[s] \cup {None} : NameSpace(s, n)
  \/ \E s \in Spaces, a \in Agents : RunAgent(s, a) \/ ExitAgent(s, a)
  \/ \E c \in HumanChannels, n \in Names, ks \in SUBSET (Readers \cup {Bridge}) :
       HumanCreates(c, n, ks)
  \/ \E c \in Channels, k \in Keys, r \in Roles \cup {None} : HumanSetsRole(c, k, r)
  \/ \E c \in Channels, a \in {"no", "human"} : HumanArchives(c, a)

Next ==
  \/ \E p \in Procs : Observe(p) \/ Start(p)
  \/ PassStep
  \/ Abort
  \/ Environment

Spec == Init /\ [][Next]_vars

(* Every live process reconciles again and again, and the relay answers the  *)
(* listing and the member query infinitely often; nothing is assumed of the  *)
(* archived channels it lists, nor of faults, people or Herdr.               *)
Fairness ==
  /\ \A p \in Procs : WF_vars(Observe(p)) /\ WF_vars(Start(p))
  /\ WF_vars(PassStep)
  /\ SF_vars(\E hidden \in SUBSET Channels : List(Readers \cup {Bridge}, hidden))
  /\ SF_vars(ReadMembers)

FairSpec == Spec /\ Fairness

----------------------------------------------------------------------------
(* Properties.                                                             *)

TypeWorld ==
  /\ herdr \in Topologies
  /\ chName \in [Channels -> Names \cup {None}]
  /\ chMark \in [Channels -> 0..MaxMarks]
  /\ role \in [Channels -> [Keys -> Roles \cup {None}]]
  /\ arch \in [Channels -> {"no", "buzzr", "human"}]
  /\ made \in [Channels -> [space : Spaces, name : Names] \cup {None}]
  /\ granted \subseteq Channels \X Keys /\ accepted \subseteq Channels \X Keys
  /\ nextMark \in 0..MaxMarks /\ faults \in 0..MaxFaults /\ env \in 0..MaxEnv

TypeState ==
  /\ diskChannels \in [Spaces -> Mappings]
  /\ channels \in [Spaces -> Mappings]
  /\ diskMembers \in [Channels -> [Keys -> Records]]
  /\ members \in [Channels -> [Keys -> Records]]

TypePass ==
  /\ pc \in {"idle", "list", "spaces", "unarchive", "create", "update", "read",
             "bridge", "owner", "agents", "add", "departed"}
  /\ holder \in Procs \cup {None} /\ apply \in BOOLEAN
  /\ todo \subseteq Spaces /\ space \in Spaces \cup {None} /\ ch \in Channels \cup {None}
  /\ listed \in [Channels -> Names \cup {None}]
  /\ roles \in [Keys -> Roles \cup {None}]
  /\ target \in Keys \cup {None} /\ missed \subseteq Channels \X Keys
  /\ snap \in [Procs -> Topologies \cup {None}]

TypeOK == TypeWorld /\ TypeState /\ TypePass

\* What state.json calls created by buzzr was created by buzzr, for that Space:
\* neither recovery of an interrupted creation nor a lost answer makes a channel
\* of somebody else look like buzzr's (sync.rs 849-942).
CreatedProvenance ==
  \A s \in Spaces, m \in {diskChannels, channels} :
    m[s].origin = "created" => /\ m[s].ch # None
                               /\ made[m[s].ch] # None
                               /\ made[m[s].ch].space = s

\* state.json leads to a channel buzzr created, by its id or by the marker of a
\* pending creation.
Tracked(c) ==
  LET m == diskChannels[made[c].space] IN
  \/ m.origin = "created" /\ m.ch = c
  \/ m.origin = "creating" /\ m.mark = chMark[c]

\* The Space was renamed while its creation was pending: the intent is given up.
IntentRenamed(s) ==
  diskChannels[s].origin = "creating" /\ diskChannels'[s].name # diskChannels[s].name

\* Every channel buzzr created can be found from state.json, at every moment a
\* crash may come, and so no Space gets a second one; it is lost only when a pass
\* meets its pending intent under another name (sync.rs 794-801, 891-897).
CreationTracked ==
  [][\A c \in Channels :
       made'[c] # None /\ (made[c] # None => Tracked(c)) =>
         Tracked(c)' \/ IntentRenamed(made'[c].space)]_vars

\* Every membership that exists because buzzr added it is on record, so that
\* cleanup can find it (sync.rs 1045-1058, 1084-1101, 1130-1134).
MembershipTracked ==
  \A c \in Channels, k \in Keys :
    <<c, k>> \in granted => diskMembers[c][k].origin # "none"

BuzzrStep == env' = env

\* Reconciliation archives only channels buzzr created (sync.rs 1207-1261).
ArchivesOnlyCreated ==
  [][\A c \in Channels : arch[c] = "no" /\ arch'[c] = "buzzr" => made[c] # None]_vars

\* A channel some Space adopted is never archived by buzzr
\* (config.example.toml 26: "Adopted and legacy channels are always preserved").
AdoptedPreserved ==
  [][\A c \in Channels : arch[c] = "no" /\ arch'[c] = "buzzr" =>
       \A s \in Spaces : channels[s].ch = c => channels[s].origin # "adopted"]_vars

\* buzzr removes a member only if its own add_member was accepted for that key and buzzr has
\* neither removed it nor, in a pass it finished, found it gone since: neither a record written
\* ahead of a call that failed, nor one of a membership that ended, is taken for an addition
\* (README.md 287; sync.rs 1115-1134, 1139-1196).  It says nothing of a role people change
\* after the query, nor of a bot people add between the query and an accepted call, or after
\* they removed it with no pass finished in between: RoleChangesKept is false of the code.
RemovesOnlyAdded ==
  [][\A c \in Channels, k \in Keys :
       BuzzrStep /\ role[c][k] # None /\ role'[c][k] = None => <<c, k>> \in accepted]_vars

\* A member that is no bot is not removed (config.example.toml 31: "Manual role changes and
\* legacy/unknown memberships are kept"): false where people change the role after the query.
RoleChangesKept ==
  [][\A c \in Channels, k \in Keys :
       BuzzrStep /\ role[c][k] # None /\ role'[c][k] = None => role[c][k] = "bot"]_vars

Mirrored(s) ==
  LET m == diskChannels[s] IN
  m.ch # None /\ \A k \in herdr.live[s] \cup Owners : role[m.ch][k] # None

\* A Space buzzr gives up on until people act: an interrupted creation that never
\* reached the relay or whose channel it cannot list, for it is no member or the channel is
\* archived (sync.rs 891-897), several channels of its name (880-886), a channel people
\* removed the bridge from, or gave it no right to name an owner.
Blocked(s) ==
  LET m == diskChannels[s] IN
  \/ m.origin = "creating" /\ \A c \in Channels :
       chMark[c] = m.mark => arch[c] # "no" \/ \A k \in Readers \cup {Bridge} : role[c][k] = None
  \/ m.ch = None /\ Cardinality({c \in Channels : chName[c] = herdr.label[s]}) > 1
  \/ m.ch # None /\ role[m.ch][Bridge] = None
  \/ m.ch # None /\ role[m.ch][Bridge] \notin {"owner", "admin"}
       /\ \E h \in Owners : role[m.ch][h] = None

\* Once faults and changes stop, every open Space has its channel with everybody
\* in it, whatever was interrupted before, unless it is blocked.
MirroredOrBlocked ==
  <>[](\A s \in Spaces : herdr.label[s] # None => Mirrored(s) \/ Blocked(s))

----------------------------------------------------------------------------
(* The inductive invariants behind TypeOK, CreatedProvenance,              *)
(* CreationTracked and MembershipTracked.                                  *)

\* What a pass knows at each point about the Space and the channel at hand.
PassOK ==
  /\ pc = "idle" <=> holder = None
  /\ IF holder = None THEN todo = {} ELSE snap[holder] # None
  /\ holder # None => \A s \in todo : Topo.label[s] # None
  /\ pc \in {"idle", "list", "spaces"} \/ space \in todo
  /\ pc \in {"idle", "list", "spaces", "create"} \/ ch \in Channels
  /\ pc \in {"create", "update"} => channels[space].name = Topo.label[space]
  /\ pc = "create" => channels[space].origin = "creating"
  /\ pc = "unarchive" => channels[space].origin = "created" /\ channels[space].ch = ch
  /\ pc = "add" => target \in Keys /\ members[ch][target].role \in Roles

\* A marker names at most one Space, on disk and in memory, and the channel that
\* carries it was created for that Space.
MarkersOK ==
  /\ \A c \in Channels : made[c] # None => chName[c] # None
  /\ \A c \in Channels : chMark[c] <= nextMark
  /\ \A s \in Spaces, m \in {diskChannels, channels} : m[s].origin = "creating" =>
       /\ m[s].mark \in 1..nextMark
       /\ \A c \in Channels : chMark[c] = m[s].mark => made[c] # None /\ made[c].space = s
       /\ \A t \in Spaces, o \in {diskChannels, channels} :
            o[t].origin = "creating" /\ o[t].mark = m[s].mark => s = t

ProvenanceInv == CreatedProvenance /\ MarkersOK

\* What the working copy says of a Space the file leads to: the same, or that it has
\* another name now.
Follows(m, n, s) ==
  /\ m[s].origin = "created" => n[s].origin = "created" /\ n[s].ch = m[s].ch
  /\ m[s].origin = "creating" =>
       \/ n[s].origin = "creating" /\ n[s].mark = m[s].mark /\ n[s].name = m[s].name
       \/ n[s].name # m[s].name

\* The copy follows the file and is the file where the loop has yet to come, a pending
\* intent has no channel, and a marker is on one channel at most.
TrackInv ==
  /\ holder # None =>
       /\ \A s \in Spaces : Follows(diskChannels, channels, s)
       /\ \A s \in todo : pc \in {"list", "spaces"} \/ s # space => channels[s] = diskChannels[s]
  /\ pc \in {"create", "update"} => channels[space] = diskChannels[space]
  /\ pc = "create" => \A c \in Channels : chMark[c] # channels[space].mark
  /\ pc = "update" => channels[space].origin = "created" /\ channels[space].ch = ch
  /\ \A s \in Spaces, m \in {diskChannels, channels} :
       m[s].origin = "creating" => m[s].ch = None
  /\ \A c, d \in Channels : chMark[c] = chMark[d] /\ chMark[c] # 0 => c = d

\* Working copy and file agree on who was granted a membership, and a key missing
\* from current_roles holds no membership of buzzr's.
MembershipInv ==
  /\ \A c \in Channels, k \in Keys : <<c, k>> \in granted =>
       /\ role[c][k] # None /\ chName[c] # None
       /\ diskMembers[c][k].origin # "none"
       /\ pc # "idle" => members[c][k].origin # "none"
  /\ \A c \in Channels, k \in Keys : role[c][k] # None => chName[c] # None
  /\ pc \in {"bridge", "owner", "agents", "add", "departed"} =>
       \A k \in Keys : roles[k] = None => <<ch, k>> \notin granted
  /\ pc = "add" => /\ diskMembers[ch][target].origin # "none"
                   /\ members[ch][target].origin # "none"
============================================================================
