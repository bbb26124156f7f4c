----------------------------- MODULE Deprovision -----------------------------
(***************************************************************************)
(* Cleanup (apply_deprovision, src/src/lifecycle.rs): what state.json      *)
(* records as made by buzzr is undone on the relay, one resource at a      *)
(* time, each followed by a transaction that strikes it off the record;    *)
(* the local files come last, if they are to be deleted at all.            *)
(***************************************************************************)
EXTENDS Naturals, FiniteSets

CONSTANTS
  Keys, Bridge,      \* public keys of agents and of the bridge, which is one of them
  Spaces, Channels,  \* Herdr workspaces, channels of the relay
  Commands,          \* processes of `buzzr deprovision --apply`
  None,
  Nth,               \* the order in which the code sorts keys and workspaces
  MaxFaults, MaxChanges   \* bounds

ASSUME DeprovisionAssumption ==
  /\ Bridge \in Keys /\ None \notin Keys \cup Spaces \cup Channels
  /\ Nth \in [Keys \cup Spaces -> Nat]
  /\ MaxFaults \in Nat /\ MaxChanges \in Nat

Roles == {"bot", "member", "owner"}
Mappings == [ch : Channels, origin : {"created", "adopted"}, archived : BOOLEAN]
Records == [origin : {"adding", "added"}, role : Roles]
Files == {"secrets", "config", "state", "lock", "marker"}
Kinds == {"archiveChannel", "removeMember", "archiveIdentity", "clearOwner", "removeRelay"}
Steps == [do : Kinds, ws : Spaces \cup {None}, ch : Channels \cup {None},
          key : Keys \cup {None}, role : Roles \cup {None}]

ASSUME StepsAssumption == None \notin Steps

\* A resource: a channel, a key in a channel, or what an identity has on the relay.
Resource(what, ch, key) == [what |-> what, ch |-> ch, key |-> key]
Resources == [what : {"channel", "in", "identity", "ownership", "relay"},
              ch : Channels \cup {None}, key : Keys \cup {None}]

VARIABLES
  mapping,   \* state.json: the channel of each Space
  joined,    \* state.json: channel_memberships
  claimed, retired, intents,  \* state.json: generated identities, those marked archived,
                              \* identities that are only announced
  recMembers, recOwners,      \* state.json: relay_members, ownerships
  files,       \* local files that exist
  configured,  \* keys of which config.toml and secrets.env have both halves
  archived, role,        \* the relay: archived channels, roles in channels
  gone, owned, member,   \* the relay: archived identities, those the human owns, members
  \* a cleanup: its place, what it loaded of configured, the steps left and the current
  \* one, whether it deletes local data
  pc, cfg, plan, target, del,
  \* history: what buzzr made and is still in effect, all it ever made by the record, all
  \* it undid, members it removed from the relay, cleanups during which something happened
  granted, ours, undone, cut, disturbed,
  faults, changes

state == <<mapping, joined, claimed, retired, intents, recMembers, recOwners>>
relay == <<archived, role, gone, owned, member>>
command == <<pc, cfg, plan, target, del>>
history == <<granted, ours, undone, cut, disturbed>>
vars == <<state, files, configured, relay, command, history, faults, changes>>

Places == {"idle", "stop", "reload", "plan", "act", "look", "call", "note", "failed",
           "done"} \cup Files
Resting == {"idle", "failed", "done"}

Goto(c, l) == pc' = [pc EXCEPT ![c] = l]

----------------------------------------------------------------------------
(* The plan: build_deprovision_plan.                                       *)

\* channels_by_id: of several Spaces bound to a channel the last one tells its origin.
LastAdopts(ch) ==
  \E w \in Spaces :
    /\ mapping[w] # None /\ mapping[w].ch = ch /\ mapping[w].origin = "adopted"
    /\ \A v \in Spaces : mapping[v] # None /\ mapping[v].ch = ch => Nth[v] <= Nth[w]

\* Memberships in adopted channels that buzzr added, of generated identities.
Tracked(ch, k) ==
  /\ LastAdopts(ch)
  /\ joined[ch][k] # None /\ joined[ch][k].origin = "added"
  /\ joined[ch][k].role \in {"bot", "member"}

RemovableUnresolved(ch, k) ==  \* a mutant of Removable: any record will do
  k \in claimed /\ LastAdopts(ch) /\ joined[ch][k] # None

Removable(ch, k) == k \in claimed /\ Tracked(ch, k)

ToArchive == {w \in Spaces : /\ mapping[w] # None /\ mapping[w].origin = "created"
                             /\ ~mapping[w].archived}

IdentityStepOfOwner(kind, k) ==  \* a mutant of IdentityStep: names the owner as its role
  [do |-> kind, ws |-> None, ch |-> None, key |-> k, role |-> "human"]

IdentityStep(kind, k) == [do |-> kind, ws |-> None, ch |-> None, key |-> k, role |-> None]

DueUnretired(kind) ==  \* a mutant of Due: an identity that is archived is done with
  CASE kind = "archiveIdentity" -> claimed \ retired
    [] kind = "clearOwner" -> (claimed \ retired) \cap recOwners
    [] OTHER -> (claimed \ retired) \cap recMembers

\* The generated identities for which a step is planned.
Due(kind) ==
  CASE kind = "archiveIdentity" -> claimed \ retired
    [] kind = "clearOwner" -> claimed \cap recOwners
    [] OTHER -> claimed \cap recMembers

Plan ==
  {[do |-> "archiveChannel", ws |-> w, ch |-> mapping[w].ch, key |-> None, role |-> None] :
     w \in ToArchive}
  \cup {[do |-> "removeMember", ws |-> None, ch |-> m[1], key |-> m[2],
         role |-> joined[m[1]][m[2]].role] :
          m \in {n \in Channels \X Keys : Removable(n[1], n[2])}}
  \cup UNION {{IdentityStep(kind, k) : k \in Due(kind)} :
                kind \in {"archiveIdentity", "clearOwner", "removeRelay"}}

PhaseRelayFirst(s) ==  \* a mutant of Phase: the relay membership goes first
  CASE s.do = "archiveChannel" -> 0
    [] s.do = "removeMember" -> 1
    [] s.do = "archiveIdentity" -> 4
    [] s.do = "clearOwner" -> 3
    [] OTHER -> 2

Phase(s) == CASE s.do = "archiveChannel" -> 0
              [] s.do = "removeMember" -> 1
              [] s.do = "archiveIdentity" -> 2
              [] s.do = "clearOwner" -> 3
              [] OTHER -> 4

\* The order of the plan: channels, memberships, then identity by identity.  Within the
\* first two it is left open.
Earlier(s, t) ==
  \/ Phase(s) < 2 /\ Phase(s) < Phase(t)
  \/ /\ Phase(s) >= 2 /\ Phase(t) >= 2
     /\ Nth[s.key] < Nth[t.key] \/ (s.key = t.key /\ Phase(s) < Phase(t))

\* Whose key signs the step: archive_channel is the bridge's; the administrator of the
\* local relay clears owners and removes members.
Signer(s) == CASE s.do = "archiveChannel" -> Bridge
               [] s.do \in {"removeMember", "archiveIdentity"} -> s.key
               [] OTHER -> None

\* The resources a step undoes.  Nobody is in an archived channel.
Undoes(s) ==
  CASE s.do = "archiveChannel" ->
         {Resource("channel", s.ch, None)} \cup {Resource("in", s.ch, k) : k \in Keys}
    [] s.do = "removeMember" -> {Resource("in", s.ch, s.key)}
    [] s.do = "archiveIdentity" -> {Resource("identity", None, s.key)}
    [] s.do = "clearOwner" -> {Resource("ownership", None, s.key)}
    [] OTHER -> {Resource("relay", None, s.key)}

----------------------------------------------------------------------------
(* The start of a cleanup: load, deactivate, stop, reload, resolve, plan.  *)

\* load_config fails without the file of secrets it names; load_strict takes a missing
\* state file for an empty one, validate_local_data_deletion does not.
Loadable == {"config", "secrets"} \subseteq files
Deletable == {"state", "marker"} \subseteq files

Start(c, d) ==
  /\ pc[c] \in Resting
  /\ Loadable /\ (d => Deletable)
  /\ Goto(c, "stop")
  /\ del' = [del EXCEPT ![c] = d]
  /\ disturbed' = [e \in Commands |->
       IF e = c THEN \E b \in Commands \ {c} : pc[b] \notin Resting
       ELSE disturbed[e] \/ pc[e] \notin {"idle", "done"}]
  /\ UNCHANGED <<state, files, configured, relay, cfg, plan, target, granted, ours, undone,
                 cut, faults, changes>>

\* The last pass of the daemon, before stop_daemon has seen its end, may configure, record
\* and register an identity it had announced (see Provision).
Ending == /\ \E c \in Commands : pc[c] = "stop"
          /\ \A c \in Commands : pc[c] \in {"idle", "stop"}

PassConfigures(k) ==
  /\ Ending /\ k \in intents \ configured
  /\ configured' = configured \cup {k}
  /\ granted' = granted \cup {Resource("identity", None, k)}
  /\ UNCHANGED <<state, files, relay, command, ours, undone, cut, disturbed, faults, changes>>

PassRecords(k) ==
  /\ Ending /\ k \in intents \cap configured
  /\ claimed' = claimed \cup {k} /\ intents' = intents \ {k}
  /\ recMembers' = recMembers \cup {k} /\ recOwners' = recOwners \cup {k}
  /\ ours' = ours \cup {Resource("relay", None, k), Resource("ownership", None, k)}
  /\ UNCHANGED <<mapping, joined, retired, files, configured, relay, command, granted, undone,
                 cut, disturbed, faults, changes>>

PassRegisters(k) ==
  /\ Ending /\ k \in configured \cap claimed \cap recMembers \cap recOwners
  /\ k \notin member \cup owned
  /\ member' = member \cup {k} /\ owned' = owned \cup {k}
  /\ granted' = granted \cup {Resource("relay", None, k), Resource("ownership", None, k)}
  /\ UNCHANGED <<state, files, configured, archived, role, gone, command, ours, undone, cut,
                 disturbed, faults, changes>>

\* The daemon is stopped and the writers are off (see Daemon).
Stopped(c) ==
  /\ pc[c] = "stop"
  /\ Goto(c, "reload")
  /\ UNCHANGED <<state, files, configured, relay, cfg, plan, target, del, history, faults,
                 changes>>

\* resolve_identity_intents: announced keys of which both halves are configured.
Resolved(c) == intents \cap configured

Reload(c) ==
  /\ pc[c] = "reload"
  /\ IF Loadable
     THEN /\ cfg' = [cfg EXCEPT ![c] = configured]
          /\ claimed' = claimed \cup Resolved(c) /\ intents' = intents \ Resolved(c)
          /\ Goto(c, "plan")
     ELSE Goto(c, "failed") /\ UNCHANGED <<cfg, claimed, intents>>
  /\ UNCHANGED <<mapping, joined, retired, recMembers, recOwners, files, configured, relay,
                 plan, target, del, history, faults, changes>>

MakePlan(c) ==
  /\ pc[c] = "plan"
  /\ plan' = [plan EXCEPT ![c] = Plan]
  /\ Goto(c, "act")
  /\ UNCHANGED <<state, files, configured, relay, cfg, target, del, history, faults,
                 changes>>

----------------------------------------------------------------------------
(* The steps of the plan.                                                  *)

\* The next step; identity_client and bridge_client refuse when the configuration does not
\* have the key that has to sign it.
Act(c) ==
  /\ pc[c] = "act"
  /\ \E s \in plan[c] :
       /\ \A t \in plan[c] : ~Earlier(t, s)
       /\ target' = [target EXCEPT ![c] = s]
       /\ Goto(c, CASE Signer(s) \notin cfg[c] \cup {None} -> "failed"
                    [] Signer(s) \in cfg[c] \cup {None}
                       /\ s.do \in {"archiveChannel", "clearOwner"} -> "call"
                    [] OTHER -> "look")
  /\ UNCHANGED <<state, files, configured, relay, cfg, plan, del, history, faults, changes>>

\* The last step is taken, what is left are the local files.
Finish(c) ==
  /\ pc[c] = "act" /\ plan[c] = {}
  /\ Goto(c, CASE ~del[c] -> "done"
               [] del[c] /\ Deletable -> "secrets"
               [] OTHER -> "failed")
  /\ UNCHANGED <<state, files, configured, relay, cfg, plan, target, del, history, faults,
                 changes>>

AbsentOrOther(s) ==  \* a mutant of Absent: looks for the recorded role only
  CASE s.do = "removeMember" -> role[s.ch][s.key] # s.role
    [] s.do = "archiveIdentity" -> s.key \in gone
    [] OTHER -> s.key \notin member

\* The relay has it already as the step would leave it.
Absent(s) ==
  CASE s.do = "removeMember" -> role[s.ch][s.key] = None
    [] s.do = "archiveIdentity" -> s.key \in gone
    [] OTHER -> s.key \notin member

\* members, archived_identities, relay_member_pubkeys.  A member whose role people have
\* changed ends the cleanup.
Look(c) ==
  /\ pc[c] = "look"
  /\ LET s == target[c]
     IN Goto(c, CASE Absent(s) -> "note"
                  [] ~Absent(s) /\ s.do = "removeMember" /\ role[s.ch][s.key] # s.role
                       -> "failed"
                  [] OTHER -> "call")
  /\ UNCHANGED <<state, files, configured, relay, cfg, plan, target, del, history, faults,
                 changes>>

\* Each call leaves alone what is already as it should be: an archived channel is no error,
\* an owner is cleared only while it is the human.
Effect(s) ==
  /\ archived' = IF s.do = "archiveChannel" THEN archived \cup {s.ch} ELSE archived
  /\ role' = IF s.do = "removeMember" THEN [role EXCEPT ![s.ch][s.key] = None] ELSE role
  /\ gone' = IF s.do = "archiveIdentity" THEN gone \cup {s.key} ELSE gone
  /\ owned' = IF s.do = "clearOwner" THEN owned \ {s.key} ELSE owned
  /\ member' = IF s.do = "removeRelay" THEN member \ {s.key} ELSE member
  /\ cut' = IF s.do = "removeRelay" THEN cut \cup {s.key} ELSE cut
  /\ granted' = granted \ Undoes(s)
  /\ undone' = undone \cup
       IF s.do = "archiveChannel" THEN {Resource("channel", s.ch, None)} ELSE Undoes(s)
  /\ UNCHANGED <<state, files, configured, cfg, plan, target, del, ours, changes>>

Call(c) ==
  /\ pc[c] = "call" /\ Effect(target[c])
  /\ Goto(c, "note")
  /\ UNCHANGED <<disturbed, faults>>

\* The answer is lost, or the process is killed before it takes note of it.
CallLost(c) ==
  /\ pc[c] = "call" /\ faults < MaxFaults /\ Effect(target[c])
  /\ Goto(c, "failed")
  /\ faults' = faults + 1
  /\ disturbed' = [disturbed EXCEPT ![c] = TRUE]

\* Whether the relay listens to who is no member, or to a call on an archived channel, is
\* not for buzzr to say.
Refusable(s) ==
  \/ Signer(s) # None /\ Signer(s) \notin member
  \/ s.do = "removeMember" /\ s.ch \in archived

Refuse(c) ==
  /\ pc[c] \in {"look", "call"} /\ Refusable(target[c])
  /\ Goto(c, "failed")
  /\ UNCHANGED <<state, files, configured, relay, cfg, plan, target, del, history, faults,
                 changes>>

\* update_state: a transaction, which makes the state file anew where it is gone.
Note(c) ==
  /\ pc[c] = "note"
  /\ LET s == target[c]
     IN /\ mapping' = IF s.do = "archiveChannel" THEN [mapping EXCEPT ![s.ws] = None]
                      ELSE mapping
        /\ joined' = CASE s.do = "archiveChannel" ->
                            [joined EXCEPT ![s.ch] = [k \in Keys |-> None]]
                       [] s.do = "removeMember" -> [joined EXCEPT ![s.ch][s.key] = None]
                       [] OTHER -> joined
        /\ retired' = IF s.do = "archiveIdentity" THEN retired \cup {s.key} ELSE retired
        /\ recOwners' = IF s.do = "clearOwner" THEN recOwners \ {s.key} ELSE recOwners
        /\ recMembers' = IF s.do = "removeRelay" THEN recMembers \ {s.key} ELSE recMembers
        /\ plan' = [plan EXCEPT ![c] = @ \ {s}]
  /\ files' = files \cup {"state", "lock", "marker"}
  /\ Goto(c, "act")
  /\ UNCHANGED <<claimed, intents, configured, relay, cfg, target, del, history, faults,
                 changes>>

\* delete_local_data removes one file after the other, each if it is there.
AfterFile(f) == CASE f = "secrets" -> "config"
                  [] f = "config" -> "state"
                  [] f = "state" -> "lock"
                  [] f = "lock" -> "marker"
                  [] OTHER -> "done"

Delete(c) ==
  /\ pc[c] \in Files
  /\ files' = files \ {pc[c]}
  /\ Goto(c, AfterFile(pc[c]))
  /\ configured' = IF pc[c] \in {"secrets", "config"} THEN {} ELSE configured
  /\ IF pc[c] = "state"
     THEN /\ mapping' = [w \in Spaces |-> None]
          /\ joined' = [ch \in Channels |-> [k \in Keys |-> None]]
          /\ claimed' = {} /\ retired' = {} /\ intents' = {}
          /\ recMembers' = {} /\ recOwners' = {}
     ELSE UNCHANGED state
  /\ UNCHANGED <<relay, cfg, plan, target, del, history, faults, changes>>

\* Any other failure, or the death of the process, between any two steps.
Abort(c) ==
  /\ pc[c] \notin Resting /\ faults < MaxFaults
  /\ Goto(c, "failed")
  /\ faults' = faults + 1
  /\ disturbed' = [disturbed EXCEPT ![c] = TRUE]
  /\ UNCHANGED <<state, files, configured, relay, cfg, plan, target, del, granted, ours,
                 undone, cut, changes>>

----------------------------------------------------------------------------
(* People, who administer the relay and edit their files.                  *)

Meanwhile ==
  /\ changes < MaxChanges /\ changes' = changes + 1
  /\ disturbed' = [c \in Commands |-> disturbed[c] \/ pc[c] \notin {"idle", "done"}]
  /\ UNCHANGED <<state, files, command, ours, undone, cut, faults>>

SetRole(ch, k, r) ==
  /\ Meanwhile /\ role[ch][k] # r
  /\ role' = [role EXCEPT ![ch][k] = r]
  /\ granted' = granted \ IF r = None THEN {Resource("in", ch, k)} ELSE {}
  /\ UNCHANGED <<configured, archived, gone, owned, member>>

SetArchived(ch) ==
  /\ Meanwhile
  /\ archived' = IF ch \in archived THEN archived \ {ch} ELSE archived \cup {ch}
  /\ granted' = granted \ {Resource("channel", ch, None)}
  /\ UNCHANGED <<configured, role, gone, owned, member>>

SetMember(k) ==
  /\ Meanwhile
  /\ member' = IF k \in member THEN member \ {k} ELSE member \cup {k}
  /\ granted' = granted \ {Resource("relay", None, k)}
  /\ UNCHANGED <<configured, archived, role, gone, owned>>

SetOwner(k) ==
  /\ Meanwhile
  /\ owned' = IF k \in owned THEN owned \ {k} ELSE owned \cup {k}
  /\ granted' = granted \ {Resource("ownership", None, k)}
  /\ UNCHANGED <<configured, archived, role, gone, member>>

DropIdentity(k) ==
  /\ Meanwhile /\ k \in configured \cap claimed
  /\ configured' = configured \ {k}
  /\ UNCHANGED <<relay, granted>>

----------------------------------------------------------------------------
(* Specification.                                                          *)

\* What a resolved record names, and whether the relay has it.
Provenance ==
  {Resource("channel", mapping[w].ch, None) : w \in ToArchive}
  \cup {Resource("in", m[1], m[2]) : m \in {n \in Channels \X claimed : Tracked(n[1], n[2])}}
  \cup {Resource("identity", None, k) : k \in (claimed \ retired) \cup (intents \cap configured)}
  \cup {Resource("ownership", None, k) : k \in claimed \cap recOwners}
  \cup {Resource("relay", None, k) : k \in claimed \cap recMembers}

InEffect(r) ==
  CASE r.what = "channel" -> r.ch \notin archived
    [] r.what = "in" -> role[r.ch][r.key] # None
    [] r.what = "identity" -> r.key \notin gone
    [] r.what = "ownership" -> r.key \in owned
    [] OTHER -> r.key \in member

\* Nobody runs yet: what Reconcile and Provision may have left, whatever failed in them.
Quiet ==
  /\ files = Files
  /\ pc = [c \in Commands |-> "idle"] /\ cfg = [c \in Commands |-> {}]
  /\ plan = [c \in Commands |-> {}] /\ target = [c \in Commands |-> None]
  /\ del = [c \in Commands |-> FALSE]
  /\ ours = Provenance \cup {Resource("in", m[1], m[2]) :
                            m \in {n \in Channels \X intents : Tracked(n[1], n[2])}}
                      \cup {Resource("identity", None, k) : k \in intents}
  /\ undone = {} /\ cut = {}
  /\ disturbed = [c \in Commands |-> FALSE]
  /\ faults = 0 /\ changes = 0

Init ==
  /\ mapping \in [Spaces -> Mappings \cup {None}]
  /\ joined \in [Channels -> [Keys -> Records \cup {None}]]
  /\ claimed \in SUBSET Keys /\ retired \in SUBSET claimed
  /\ intents \in SUBSET (Keys \ claimed)
  /\ recMembers \in SUBSET claimed /\ recOwners \in SUBSET claimed
  /\ configured \in SUBSET Keys
  /\ archived \in SUBSET Channels /\ role \in [Channels -> [Keys -> Roles \cup {None}]]
  /\ gone \in SUBSET (Keys \ intents)
  /\ owned \in SUBSET Keys /\ member \in SUBSET Keys
  /\ granted \in SUBSET {r \in Provenance : InEffect(r)}
  /\ Quiet

Step(c) ==
  \/ Stopped(c) \/ Reload(c) \/ MakePlan(c) \/ Act(c) \/ Finish(c) \/ Look(c) \/ Call(c)
  \/ CallLost(c) \/ Refuse(c) \/ Note(c) \/ Delete(c) \/ Abort(c)

People ==
  \/ \E ch \in Channels, k \in Keys, r \in Roles \cup {None} : SetRole(ch, k, r)
  \/ \E ch \in Channels : SetArchived(ch)
  \/ \E k \in Keys : SetMember(k) \/ SetOwner(k) \/ DropIdentity(k)

Next ==
  \/ \E c \in Commands : Step(c) \/ \E d \in BOOLEAN : Start(c, d)
  \/ \E k \in Keys : PassConfigures(k) \/ PassRecords(k) \/ PassRegisters(k)
  \/ People

Spec == Init /\ [][Next]_vars

----------------------------------------------------------------------------
(* Properties.                                                             *)

\* Every variable has its type, what the code and the history sets may hold.
TypeOK ==
  /\ mapping \in [Spaces -> Mappings \cup {None}]
  /\ joined \in [Channels -> [Keys -> Records \cup {None}]]
  /\ claimed \subseteq Keys /\ retired \subseteq Keys /\ intents \subseteq Keys
  /\ recMembers \subseteq Keys /\ recOwners \subseteq Keys
  /\ files \subseteq Files /\ configured \subseteq Keys
  /\ archived \subseteq Channels /\ role \in [Channels -> [Keys -> Roles \cup {None}]]
  /\ gone \subseteq Keys /\ owned \subseteq Keys /\ member \subseteq Keys
  /\ pc \in [Commands -> Places] /\ cfg \in [Commands -> SUBSET Keys]
  /\ plan \in [Commands -> SUBSET Steps] /\ target \in [Commands -> Steps \cup {None}]
  /\ del \in [Commands -> BOOLEAN]
  /\ granted \subseteq Resources /\ ours \subseteq Resources /\ undone \subseteq Resources
  /\ cut \subseteq Keys /\ disturbed \in [Commands -> BOOLEAN]
  /\ faults \in 0..MaxFaults /\ changes \in 0..MaxChanges

\* The record as the ledger knows it: announced and generated identities, memberships
\* resolved or not, created channels.
Recorded ==
  {Resource("channel", mapping[w].ch, None) : w \in ToArchive}
  \cup {Resource("in", m[1], m[2]) : m \in {n \in Channels \X Keys : joined[n[1]][n[2]] # None}}
  \cup {Resource("identity", None, k) : k \in (claimed \ retired) \cup intents}
  \cup {Resource("ownership", None, k) : k \in recOwners}
  \cup {Resource("relay", None, k) : k \in recMembers}

L == INSTANCE Ledger WITH recorded <- Recorded, granted <- granted

\* Cleanup implements the ledger: at any failure and restart, with cleanups side by side,
\* a resource of buzzr's is struck off state.json only once it is undone (lifecycle.rs 752-852).
LedgerKept == L!Spec

\* Nothing is undone that state.json did not prove to be buzzr's: adopted channels, people's
\* identities, unresolved memberships are left alone ("preserved", README.md 197-203).
OnlyOurs == undone \subseteq ours

\* The local files, without which nothing can be signed or found again, go only when
\* nothing of buzzr's is left on the relay (DeleteLocalData ends the plan).
SecretsLast == "secrets" \notin files => granted = {}

\* Why a step may fail though nothing happened: its key is not configured, the relay does
\* not listen (but not because an earlier step cut the key off), people changed the role.
Blocked(c) ==
  LET s == target[c]
  IN \/ Signer(s) \notin cfg[c] \cup {None}
     \/ Refusable(s) /\ Signer(s) \notin cut
     \/ s.do = "removeMember" /\ role[s.ch][s.key] \notin {None, s.role}

\* A cleanup that runs undisturbed fails only where people stand in the way, never because
\* of what an earlier one has done or left half done ("can be retried safely", README.md 210).
FailsOnlyBlocked ==
  \A c \in Commands :
    pc[c] = "failed" => disturbed[c] \/ (target[c] # None /\ Blocked(c))

----------------------------------------------------------------------------
(* Invariants the proofs rest on.                                          *)

\* An announced identity is not claimed yet and has never signed its own end; only claimed
\* ones were registered.
KeysOK ==
  /\ intents \cap (claimed \cup retired \cup gone) = {}
  /\ recMembers \cup recOwners \subseteq claimed

\* What a step adds to the history.
Undoing(s) == IF s.do = "archiveChannel" THEN {Resource("channel", s.ch, None)} ELSE Undoes(s)

\* A step of a plan, also of an old one, is about a resource of buzzr's, and the record has
\* nothing else in its place since.
StepOK(s) ==
  /\ s.do = "archiveChannel" =>
       /\ s.ws \in Spaces /\ s.ch \in Channels
       /\ mapping[s.ws] # None => mapping[s.ws].ch = s.ch /\ mapping[s.ws].origin = "created"
  /\ s.do = "removeMember" => s.ch \in Channels /\ s.key \in Keys
  /\ s.do \notin {"archiveChannel", "removeMember"} => s.key \in Keys \ intents
  /\ Undoing(s) \subseteq ours

\* The place of a cleanup agrees with its plan.
PlanOK(c) ==
  /\ \A s \in plan[c] : StepOK(s)
  /\ pc[c] \in {"look", "call", "note"} => target[c] \in plan[c]
  /\ pc[c] = "look" => target[c].do \in {"removeMember", "archiveIdentity", "removeRelay"}

\* All that the record may turn out to prove, once it is resolved, is buzzr's.
OursOK ==
  /\ \A w \in ToArchive : Resource("channel", mapping[w].ch, None) \in ours
  /\ \A ch \in Channels, k \in claimed \cup intents :
       Tracked(ch, k) => Resource("in", ch, k) \in ours
  /\ \A k \in (claimed \ retired) \cup intents : Resource("identity", None, k) \in ours
  /\ \A k \in recOwners : Resource("ownership", None, k) \in ours
  /\ \A k \in recMembers : Resource("relay", None, k) \in ours
  /\ undone \subseteq ours

\* What is granted can be concluded from the record, and is there on the relay.
GrantsOK == granted \subseteq Provenance /\ \A r \in granted : InEffect(r)

\* A plan has a step for everything that is granted, and nothing is noted or deleted too early.
CoverOK(c) ==
  /\ pc[c] = "plan" => \A k \in intents : Resource("identity", None, k) \notin granted
  /\ pc[c] \in {"act", "look", "call", "note"} =>
       \A r \in granted : \E s \in plan[c] : r \in Undoes(s)
  /\ pc[c] = "note" => Undoes(target[c]) \cap granted = {}
  /\ pc[c] \in Files => granted = {}

\* Without its secrets buzzr grants nothing any more.
FilesOK ==
  "secrets" \notin files => granted = {} /\ \E c \in Commands : pc[c] \notin {"idle", "stop"}

CleanupInv ==
  /\ TypeOK /\ KeysOK /\ OursOK /\ GrantsOK /\ FilesOK
  /\ \A c \in Commands : PlanOK(c) /\ CoverOK(c)

\* While a cleanup works for itself nobody else does.
SoloOK(c) ==
  ~disturbed[c] /\ pc[c] \notin {"idle", "done"} => \A d \in Commands \ {c} : pc[d] \in Resting

Stepping == {"act", "look", "call", "note"}

\* Until it deletes them it has the files it was started with.
FilesKept(c) ==
  ~disturbed[c] =>
    /\ pc[c] \in {"stop", "reload"} => Loadable
    /\ pc[c] \in {"stop", "reload", "plan"} \cup Stepping /\ del[c] => Deletable

\* Announced identities are resolved before the plan is made, ...
ResolvedOK(c) == pc[c] \in {"plan"} \cup Stepping \cup Files => intents \cap configured = {}

\* ... which then has whatever the record still asks for, in order.
OrderOK(c) ==
  /\ pc[c] \in Stepping => Plan \subseteq plan[c]
  /\ pc[c] \in {"look", "call", "note"} => \A t \in plan[c] : ~Earlier(t, target[c])

\* Who was removed from the relay has nothing left to sign, in the record ...
CutOK == \A k \in cut : k \notin intents /\ \A t \in Plan : Signer(t) # k

\* ... and in the plan of a cleanup.
CutPlan(c) == ~disturbed[c] /\ pc[c] \in Stepping => \A t \in plan[c] : Signer(t) \notin cut

FailOK(c) == pc[c] = "failed" => disturbed[c] \/ (target[c] # None /\ Blocked(c))

RetryOK(c) == /\ SoloOK(c) /\ FilesKept(c) /\ ResolvedOK(c) /\ OrderOK(c) /\ CutPlan(c)
              /\ FailOK(c)

RetryInv == CutOK /\ \A c \in Commands : RetryOK(c)
=============================================================================
