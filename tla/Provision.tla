------------------------------ MODULE Provision ------------------------------
(***************************************************************************)
(* Provisioning of identities (src/src/provisioning.rs): keys for the      *)
(* bridge and for agents without identity are generated, announced in      *)
(* state.json, written to secrets.env and to config.toml, recorded as      *)
(* generated, made members of the relay and given to their human owner.    *)
(* Each of these is a step after which the process may be killed.          *)
(***************************************************************************)
EXTENDS Naturals, FiniteSets

CONSTANTS
  Ids,           \* names of agents, the keys of [identities] in config.toml
  Bridge,        \* the identity of the bridge itself
  Keys, Theirs,  \* key pairs, and those of them that people bring along
  Provisioners,  \* runs of `buzzr bootstrap` and of the daemon's pass
  None,
  EditsOverlap,  \* people edit the configuration while buzzr provisions
  MaxFaults, MaxChanges   \* bounds

Slots == Ids \cup {Bridge}

ASSUME ProvisionAssumption ==
  /\ Bridge \notin Ids /\ None \notin Keys /\ Theirs \subseteq Keys
  /\ EditsOverlap \in BOOLEAN /\ MaxFaults \in Nat /\ MaxChanges \in Nat

MaybeKey == Keys \cup {None}
Owners == {"nobody", "human", "other"}

VARIABLES
  panes,      \* agents that run in Herdr
  pub,        \* config.toml: public keys of the bridge and the identities
  secret,     \* secrets.env: private keys, by the variable of the identity
  intents,    \* state.json: identity_intents
  claimed,    \* state.json: identities with origin "generated"
  recMembers, recOwners,  \* state.json: relay_members, ownerships
  member, owner,          \* the relay: its members, who owns an identity
  \* a provisioning run: its place, whether it is at the start, the bridge or the agents,
  \* the agents of its snapshot, the public and private keys it loaded, those it
  \* generated, the slots it creates, the file it is about to replace, the keys it has yet
  \* to register, the key it registers
  pc, stage, snap, cpub, csec, gen, made, text, todo, target,
  \* history: generated keys, and what buzzr added to the relay
  minted, added, bound,
  faults, changes

files == <<pub, secret>>
state == <<intents, claimed, recMembers, recOwners>>
relay == <<member, owner>>
run == <<pc, stage, snap, cpub, csec, gen, made, text, todo, target>>
history == <<minted, added, bound>>
vars == <<panes, files, state, relay, run, history, faults, changes>>

Goto(p, l) == pc' = [pc EXCEPT ![p] = l]

Places == {"idle", "load", "recover", "intend", "secrets", "replaceSecrets", "config",
           "replaceConfig", "reload", "record", "list", "join", "add", "own", "assign",
           "failed"}

----------------------------------------------------------------------------
(* What a run concludes from the configuration it loaded.                  *)

\* identity_credentials, bridge_credentials: people keep the keys they bring along for
\* agents under variables of their own.
Credential(p, s) ==
  IF s # Bridge /\ cpub[p][s] \in Theirs THEN cpub[p][s] ELSE csec[p][s]

BridgeMissing(p) == csec[p][Bridge] = None /\ cpub[p][Bridge] = None

PlannedAll(p) ==  \* a mutant of Planned: the configuration is not looked at
  IF stage[p] = "bridge" THEN (IF BridgeMissing(p) THEN {Bridge} ELSE {}) ELSE snap[p]

\* Slots that have no identity yet: the bridge, then the agents of the snapshot.
Planned(p) ==
  IF stage[p] = "bridge" THEN (IF BridgeMissing(p) THEN {Bridge} ELSE {})
  ELSE {i \in snap[p] : cpub[p][i] = None}

EnsureWhole(p, S) ==  \* a mutant of Ensure: half a bridge key is an error
  CASE S # {} -> "secrets"
    [] S = {} /\ stage[p] = "agents" -> "recover"
    [] S = {} /\ stage[p] # "agents" /\ csec[p][Bridge] = cpub[p][Bridge] -> "reload"
    [] OTHER -> "failed"

\* Where ensure_bridge_identity and ensure_agent_identities go from here, with S to be
\* created: a bridge key whose public half is not configured is completed, one that does
\* not match it or is missing is an error.
Ensure(p, S) ==
  CASE S # {} -> "secrets"
    [] S = {} /\ stage[p] = "agents" -> "recover"
    [] S = {} /\ stage[p] # "agents" /\ cpub[p][Bridge] = None -> "config"
    [] S = {} /\ stage[p] # "agents" /\ cpub[p][Bridge] # None
         /\ csec[p][Bridge] = cpub[p][Bridge] -> "reload"
    [] OTHER -> "failed"

ResolvableUnchecked(p, s) ==  \* a mutant of Resolvable: whatever key is configured
  cpub[p][s] # None /\ Credential(p, s) = cpub[p][s] /\ intents[s] # None

\* resolve_identity_intents: the announced key is configured, and both halves of it.
Resolvable(p, s) ==
  intents[s] # None /\ cpub[p][s] = intents[s] /\ Credential(p, s) = cpub[p][s]

KeysAndNone(p) == {cpub[p][s] : s \in Slots}  \* a mutant of KeysOf

KeysOf(p) == {cpub[p][s] : s \in Slots} \ {None}

----------------------------------------------------------------------------
(* The start of a run.                                                     *)

Enter(p) ==
  /\ pc[p] = "idle"
  /\ snap' = [snap EXCEPT ![p] = panes]
  /\ Goto(p, "load")
  /\ UNCHANGED <<panes, files, state, relay, stage, cpub, csec, gen, made, text, todo,
                 target, history, faults>>

\* The daemon provisions when an agent of the snapshot has no identity ...
Pass(p) == (\E i \in panes : pub[i] = None) /\ Enter(p) /\ UNCHANGED changes

\* ... people whenever they like.
Bootstrap(p) == changes < MaxChanges /\ changes' = changes + 1 /\ Enter(p)

Load(p) ==
  /\ pc[p] = "load"
  /\ cpub' = [cpub EXCEPT ![p] = pub] /\ csec' = [csec EXCEPT ![p] = secret]
  /\ stage' = [stage EXCEPT ![p] = "begin"]
  /\ made' = [made EXCEPT ![p] = {}]
  /\ Goto(p, "recover")
  /\ UNCHANGED <<panes, files, state, relay, snap, gen, text, todo, target, history,
                 faults, changes>>

----------------------------------------------------------------------------
(* Transactions on state.json.                                             *)

\* recover_identity_intents, at the start and after each stage.
Recover(p) ==
  /\ pc[p] = "recover"
  /\ LET R == {s \in Slots : Resolvable(p, s)}
     IN /\ claimed' = claimed \cup {cpub[p][s] : s \in R}
        /\ intents' = [s \in Slots |-> IF s \in R THEN None ELSE intents[s]]
  /\ IF stage[p] = "begin"
     THEN stage' = [stage EXCEPT ![p] = "bridge"] /\ Goto(p, "intend")
     ELSE UNCHANGED stage /\ Goto(p, "record")
  /\ UNCHANGED <<panes, files, recMembers, recOwners, relay, snap, cpub, csec, gen, made,
                 text, todo, target, history, faults, changes>>

AnnouncedNot(S, g) == intents  \* a mutant of Announced: the write-ahead record is left out

\* record_identity_intents: an older announcement is replaced.
Announced(S, g) == [s \in Slots |-> IF s \in S THEN g[s] ELSE intents[s]]

\* Keys are generated and announced.  For a bridge key that people brought along,
\* update_bridge_settings will configure the public half.
Intend(p) ==
  /\ pc[p] = "intend"
  /\ LET S == Planned(p)
     IN \E g \in [S -> Keys \ (Theirs \cup minted)] :
          /\ \A s, t \in S : s # t => g[s] # g[t]
          /\ gen' = [gen EXCEPT ![p] = [s \in Slots |->
                       IF s \in S THEN g[s]
                       ELSE IF s = Bridge THEN csec[p][Bridge] ELSE None]]
          /\ intents' = Announced(S, g)
          /\ minted' = minted \cup {g[s] : s \in S}
          /\ made' = [made EXCEPT ![p] = S]
          /\ Goto(p, Ensure(p, S))
  /\ UNCHANGED <<panes, files, claimed, recMembers, recOwners, relay, stage, snap, cpub,
                 csec, text, todo, target, added, bound, faults, changes>>

\* record_generated_identities: what the configuration now has in the created slots.
Record(p) ==
  /\ pc[p] = "record"
  /\ claimed' = claimed \cup ({cpub[p][s] : s \in made[p]} \ {None})
  /\ IF stage[p] = "bridge"
     THEN stage' = [stage EXCEPT ![p] = "agents"] /\ Goto(p, "intend")
     ELSE /\ UNCHANGED stage
          /\ Goto(p, IF cpub[p][Bridge] # None /\ csec[p][Bridge] # None
                     THEN "list" ELSE "failed")
  /\ UNCHANGED <<panes, files, intents, recMembers, recOwners, relay, snap, cpub, csec, gen,
                 made, text, todo, target, history, faults, changes>>

----------------------------------------------------------------------------
(* The files, which nothing locks: each is read, edited and replaced.      *)

ReadSecrets(p) ==
  /\ pc[p] = "secrets"
  /\ text' = [text EXCEPT ![p] = secret]
  /\ Goto(p, "replaceSecrets")
  /\ UNCHANGED <<panes, files, state, relay, stage, snap, cpub, csec, gen, made, todo,
                 target, history, faults, changes>>

\* update_dotenv
ReplaceSecrets(p) ==
  /\ pc[p] = "replaceSecrets"
  /\ secret' = [s \in Slots |-> IF s \in made[p] THEN gen[p][s] ELSE text[p][s]]
  /\ Goto(p, "config")
  /\ UNCHANGED <<panes, pub, state, relay, stage, snap, cpub, csec, gen, made, text, todo,
                 target, history, faults, changes>>

ReadConfig(p) ==
  /\ pc[p] = "config"
  /\ text' = [text EXCEPT ![p] = pub]
  /\ Goto(p, "replaceConfig")
  /\ UNCHANGED <<panes, files, state, relay, stage, snap, cpub, csec, gen, made, todo,
                 target, history, faults, changes>>

\* update_bridge_settings replaces the key of the bridge, append_identities adds the
\* identities that are not in the file.
Written(p, s) ==
  IF \/ stage[p] = "bridge" /\ s = Bridge
     \/ stage[p] = "agents" /\ s \in made[p] /\ text[p][s] = None
  THEN gen[p][s] ELSE text[p][s]

ReplaceConfig(p) ==
  /\ pc[p] = "replaceConfig"
  /\ pub' = [s \in Slots |-> Written(p, s)]
  /\ Goto(p, "reload")
  /\ UNCHANGED <<panes, secret, state, relay, stage, snap, cpub, csec, gen, made, text,
                 todo, target, history, faults, changes>>

Reload(p) ==
  /\ pc[p] = "reload"
  /\ cpub' = [cpub EXCEPT ![p] = pub] /\ csec' = [csec EXCEPT ![p] = secret]
  /\ Goto(p, "recover")
  /\ UNCHANGED <<panes, files, state, relay, stage, snap, gen, made, text, todo, target,
                 history, faults, changes>>

----------------------------------------------------------------------------
(* The relay, by commands of its administrator.                            *)

List(p) ==
  /\ pc[p] = "list"
  /\ todo' = [todo EXCEPT ![p] = KeysOf(p) \ member]
  /\ Goto(p, "join")
  /\ UNCHANGED <<panes, files, state, relay, stage, snap, cpub, csec, gen, made, text,
                 target, history, faults, changes>>

\* record_generated_resource, ahead of the command, for generated keys only.
RecordMember(p) ==
  /\ pc[p] = "join"
  /\ \E k \in todo[p] :
       /\ target' = [target EXCEPT ![p] = k]
       /\ recMembers' = recMembers \cup ({k} \cap claimed)
  /\ Goto(p, "add")
  /\ UNCHANGED <<panes, files, intents, claimed, recOwners, relay, stage, snap, cpub, csec,
                 gen, made, text, todo, history, faults, changes>>

\* A command takes effect; its answer may be lost or the process be killed meanwhile.
Answered(p, l) ==
  \/ /\ todo' = [todo EXCEPT ![p] = @ \ {target[p]}]
     /\ Goto(p, l)
     /\ UNCHANGED faults
  \/ /\ faults < MaxFaults /\ faults' = faults + 1
     /\ Goto(p, "idle")
     /\ UNCHANGED todo

AddMember(p) ==
  /\ pc[p] = "add"
  /\ member' = member \cup {target[p]} /\ added' = added \cup {target[p]}
  /\ Answered(p, "join")
  /\ UNCHANGED <<panes, files, state, owner, stage, snap, cpub, csec, gen, made, text,
                 target, minted, bound, changes>>

Joined(p) ==
  /\ pc[p] = "join" /\ todo[p] = {}
  /\ todo' = [todo EXCEPT ![p] = KeysOf(p)]
  /\ Goto(p, "own")
  /\ UNCHANGED <<panes, files, state, relay, stage, snap, cpub, csec, gen, made, text,
                 target, history, faults, changes>>

RecordOwner(p) ==
  /\ pc[p] = "own"
  /\ \E k \in todo[p] :
       /\ target' = [target EXCEPT ![p] = k]
       /\ recOwners' = recOwners \cup ({k} \cap claimed)
  /\ Goto(p, "assign")
  /\ UNCHANGED <<panes, files, intents, claimed, recMembers, relay, stage, snap, cpub, csec,
                 gen, made, text, todo, history, faults, changes>>

\* assign_agent_owner takes an identity from nobody.
AssignOwner(p) ==
  /\ pc[p] = "assign" /\ owner[target[p]] # "other"
  /\ owner' = [owner EXCEPT ![target[p]] = "human"]
  /\ bound' = IF owner[target[p]] = "nobody" THEN bound \cup {target[p]} ELSE bound
  /\ Answered(p, "own")
  /\ UNCHANGED <<panes, files, state, member, stage, snap, cpub, csec, gen, made, text,
                 target, minted, added, changes>>

AssignRefused(p) ==
  /\ pc[p] = "assign" /\ owner[target[p]] = "other"
  /\ Goto(p, "failed")
  /\ UNCHANGED <<panes, files, state, relay, stage, snap, cpub, csec, gen, made, text, todo,
                 target, history, faults, changes>>

Done(p) ==
  /\ pc[p] = "own" /\ todo[p] = {}
  /\ Goto(p, "idle")
  /\ UNCHANGED <<panes, files, state, relay, stage, snap, cpub, csec, gen, made, text, todo,
                 target, history, faults, changes>>

----------------------------------------------------------------------------
(* Errors, crashes and people.                                             *)

Fail(p) ==
  /\ pc[p] = "failed"
  /\ Goto(p, "idle")
  /\ UNCHANGED <<panes, files, state, relay, stage, snap, cpub, csec, gen, made, text, todo,
                 target, history, faults, changes>>

\* A command fails without effect, or the process is killed between two steps.
Abort(p) ==
  /\ pc[p] \notin {"idle", "failed"} /\ faults < MaxFaults
  /\ faults' = faults + 1
  /\ Goto(p, "idle")
  /\ UNCHANGED <<panes, files, state, relay, stage, snap, cpub, csec, gen, made, text, todo,
                 target, history, changes>>

Change == changes < MaxChanges /\ changes' = changes + 1

TogglePane(i) ==
  /\ Change
  /\ panes' = IF i \in panes THEN panes \ {i} ELSE panes \cup {i}
  /\ UNCHANGED <<files, state, relay, run, history, faults>>

Edits == Change /\ (EditsOverlap \/ \A p \in Provisioners : pc[p] = "idle")

\* People write an identity of theirs into the configuration ...
Import(i, k) ==
  /\ Edits
  /\ pub[i] = None /\ \A s \in Slots : pub[s] # k
  /\ pub' = [pub EXCEPT ![i] = k]
  /\ UNCHANGED <<panes, secret, state, relay, run, history, faults>>

\* ... or a private key for the bridge into the dotenv file.
ImportBridge(k) ==
  /\ Edits
  /\ secret[Bridge] = None /\ pub[Bridge] = None /\ \A s \in Slots : pub[s] # k
  /\ secret' = [secret EXCEPT ![Bridge] = k]
  /\ UNCHANGED <<panes, pub, state, relay, run, history, faults>>

\* People add, remove and give away identities on the relay.
Administer(k) ==
  /\ Change
  /\ \/ /\ member' = IF k \in member THEN member \ {k} ELSE member \cup {k}
        /\ UNCHANGED owner
     \/ /\ k \in Theirs /\ owner' = [owner EXCEPT ![k] = "other"]
        /\ UNCHANGED member
  /\ UNCHANGED <<panes, files, state, run, history, faults>>

----------------------------------------------------------------------------
Init ==
  /\ panes \in SUBSET Ids
  /\ pub = [s \in Slots |-> None] /\ secret = [s \in Slots |-> None]
  /\ intents = [s \in Slots |-> None]
  /\ claimed = {} /\ recMembers = {} /\ recOwners = {}
  /\ member = {} /\ owner = [k \in Keys |-> "nobody"]
  /\ pc = [p \in Provisioners |-> "idle"]
  /\ stage = [p \in Provisioners |-> "begin"]
  /\ snap = [p \in Provisioners |-> {}] /\ made = [p \in Provisioners |-> {}]
  /\ cpub = [p \in Provisioners |-> pub] /\ csec = [p \in Provisioners |-> pub]
  /\ gen = [p \in Provisioners |-> pub] /\ text = [p \in Provisioners |-> pub]
  /\ todo = [p \in Provisioners |-> {}] /\ target = [p \in Provisioners |-> None]
  /\ minted = {} /\ added = {} /\ bound = {}
  /\ faults = 0 /\ changes = 0

Work(p) ==
  \/ Load(p) \/ Recover(p) \/ Intend(p) \/ Record(p)
  \/ ReadSecrets(p) \/ ReplaceSecrets(p) \/ ReadConfig(p) \/ ReplaceConfig(p) \/ Reload(p)
  \/ List(p) \/ RecordMember(p) \/ AddMember(p) \/ Joined(p)
  \/ RecordOwner(p) \/ AssignOwner(p) \/ AssignRefused(p) \/ Done(p) \/ Fail(p)

People ==
  \/ \E i \in Ids : TogglePane(i) \/ \E k \in Theirs : Import(i, k)
  \/ \E k \in Theirs : ImportBridge(k)
  \/ \E k \in Theirs \cup minted : Administer(k)

Next ==
  \/ \E p \in Provisioners : Pass(p) \/ Bootstrap(p) \/ Work(p) \/ Abort(p)
  \/ People

Spec == Init /\ [][Next]_vars

\* The daemon passes again and again, and a run goes on.
FairSpec == Spec /\ \A p \in Provisioners : WF_vars(Pass(p)) /\ WF_vars(Work(p))

----------------------------------------------------------------------------
(* Properties.                                                             *)

\* Every variable has its type.
TypeOK ==
  /\ panes \subseteq Ids
  /\ pub \in [Slots -> MaybeKey] /\ secret \in [Slots -> MaybeKey]
  /\ intents \in [Slots -> MaybeKey]
  /\ claimed \subseteq Keys /\ recMembers \subseteq Keys /\ recOwners \subseteq Keys
  /\ member \subseteq Keys /\ owner \in [Keys -> Owners]
  /\ pc \in [Provisioners -> Places]
  /\ stage \in [Provisioners -> {"begin", "bridge", "agents"}]
  /\ snap \in [Provisioners -> SUBSET Ids] /\ made \in [Provisioners -> SUBSET Slots]
  /\ cpub \in [Provisioners -> [Slots -> MaybeKey]]
  /\ csec \in [Provisioners -> [Slots -> MaybeKey]]
  /\ gen \in [Provisioners -> [Slots -> MaybeKey]]
  /\ text \in [Provisioners -> [Slots -> MaybeKey]]
  /\ todo \in [Provisioners -> SUBSET Keys]
  /\ target \in [Provisioners -> MaybeKey]
  /\ minted \subseteq Keys \ Theirs /\ added \subseteq Keys /\ bound \subseteq Keys
  /\ faults \in Nat /\ changes \in Nat

\* A command is given for a key.
TargetOK == \A p \in Provisioners : pc[p] \in {"add", "assign"} => target[p] # None

\* What deprovisioning will archive, remove and clear is of identities buzzr generated
\* (provisioning.rs 482: existing and imported ones remain unmanaged), although an
\* announcement of an earlier run may be open for the name under which people import.
ClaimsOnlyGenerated == claimed \cup recMembers \cup recOwners \subseteq minted

\* A generated identity that is configured can be signed for: its private key was
\* written before (provisioning.rs 288, 389) and no later run writes over it.
KeyAtHand == \A s \in Slots : pub[s] \in minted => secret[s] = pub[s]

\* A generated identity that is configured is recorded as generated, or the announcement
\* from which the next run records it is still there (provisioning.rs 143).
NothingForgotten ==
  \A s \in Slots : pub[s] \in minted => pub[s] \in claimed \/ intents[s] = pub[s]

\* What buzzr added to the relay for a generated identity is on record, also when the
\* command's answer was lost (provisioning.rs 661, 680).
GrantsRecorded ==
  /\ added \cap minted \subseteq recMembers
  /\ bound \cap minted \subseteq recOwners

\* The record and the grants as the ledger knows them: announced and generated identities,
\* relay memberships and ownerships, the last two of generated identities.
Recorded ==
  {<<"identity", k>> : k \in claimed \cup ({intents[s] : s \in Slots} \ {None})}
  \cup {<<"relay", k>> : k \in recMembers} \cup {<<"ownership", k>> : k \in recOwners}

Granted ==
  {<<"identity", k>> : k \in minted \cap {pub[s] : s \in Slots}}
  \cup {<<"relay", k>> : k \in added \cap minted}
  \cup {<<"ownership", k>> : k \in bound \cap minted}

L == INSTANCE Ledger WITH recorded <- Recorded, granted <- Granted

\* Provisioning implements the ledger that cleanup goes by (lifecycle.rs 258): whatever is
\* killed or lost, an identity, a membership or an ownership is on record before it exists.
LedgerKept == L!Spec

\* Runs that fail and die leave nothing that keeps the daemon from giving each new agent
\* its identity (README.md 105).
AgentsIdentified == \A i \in Ids : i \in panes ~> (i \notin panes \/ pub[i] # None)

\* An active daemon provisions the identities of new live agents (README.md 105): they
\* become members of the relay, as long as people keep their hands off it.  It does not
\* hold: a run that failed after it had configured the identity is not taken up again, as
\* the daemon then sees no agent without identity.
AgentsRegistered ==
  \A i \in Ids : i \in panes ~> (i \notin panes \/ pub[i] \in member \/ changes > 0)

----------------------------------------------------------------------------
(* What makes the safety properties inductive.                             *)

\* Keys come from buzzr or from people, and only buzzr's are announced.
Known == minted \cup Theirs \cup {None}

ValuesOK ==
  /\ intents \in [Slots -> minted \cup {None}]
  /\ pub \in [Slots -> Known] /\ secret \in [Slots -> Known]
  /\ cpub \in [Provisioners -> [Slots -> Known]]
  /\ csec \in [Provisioners -> [Slots -> Known]]
  /\ gen \in [Provisioners -> [Slots -> Known]]
  /\ text \in [Provisioners -> [Slots -> Known]]

\* Where people put a key of theirs, and where a run finds it.
Brought(s) == (IF s = Bridge THEN secret[s] ELSE pub[s]) \in Theirs
KnownBrought(p, s) == (IF s = Bridge THEN csec[p][s] ELSE cpub[p][s]) \in Theirs

\* A run that has loaded the configuration knows what people brought, and does not
\* create in these places; what it will write changes none of them.
BroughtRun(p) ==
  /\ \A s \in Slots : KnownBrought(p, s) <=> Brought(s)
  /\ \A s \in made[p] : ~Brought(s) /\ gen[p][s] \notin Theirs
  /\ pc[p] = "replaceSecrets" => (text[p][Bridge] \in Theirs <=> Brought(Bridge))
  /\ pc[p] = "replaceConfig" => \A i \in Ids : text[p][i] \in Theirs <=> Brought(i)
  /\ ~Brought(Bridge) =>
       /\ cpub[p][Bridge] \notin Theirs
       /\ pc[p] \in {"secrets", "replaceSecrets", "config", "replaceConfig"} =>
            gen[p][Bridge] \notin Theirs
       /\ pc[p] = "replaceConfig" => text[p][Bridge] \notin Theirs

BroughtOK ==
  /\ pub[Bridge] \in Theirs => Brought(Bridge)
  /\ \A p \in Provisioners : pc[p] \notin {"idle", "load"} => BroughtRun(p)

ClaimsInv == TypeOK /\ TargetOK /\ ValuesOK /\ BroughtOK /\ ClaimsOnlyGenerated

\* Runs one after the other: while the files are not being replaced they are as loaded ...
LoadedOK(p) ==
  /\ pc[p] \notin {"idle", "load", "reload"} => cpub[p] = pub
  /\ pc[p] \notin {"idle", "load", "reload", "config", "replaceConfig"} => csec[p] = secret
  /\ pc[p] = "replaceSecrets" => text[p] = secret
  /\ pc[p] = "replaceConfig" => text[p] = pub

\* ... what is created is announced, and its secret is written before it is configured ...
CreatingOK(p) ==
  /\ pc[p] \in {"secrets", "replaceSecrets", "config", "replaceConfig"} =>
       \A s \in made[p] : pub[s] = None /\ intents[s] = gen[p][s]
  /\ pc[p] \in {"secrets", "replaceSecrets"} /\ stage[p] = "bridge" => made[p] = {Bridge}
  /\ pc[p] \in {"config", "replaceConfig"} =>
       /\ \A s \in made[p] : secret[s] = gen[p][s]
       /\ stage[p] = "bridge" =>
            secret[Bridge] = gen[p][Bridge] /\ pub[Bridge] = None

\* ... and what is registered on the relay is claimed or of people.
RegisteringOK(p) ==
  /\ pc[p] \in {"list", "join", "add", "own", "assign"}
       \/ (pc[p] = "record" /\ stage[p] # "bridge") =>
       \A s \in Slots : pub[s] \in minted => pub[s] \in claimed
  /\ pc[p] \in {"join", "add", "own", "assign"} =>
       \A k \in todo[p] : \E s \in Slots : pub[s] = k
  /\ pc[p] = "add" => target[p] \in recMembers \cup Theirs
  /\ pc[p] = "assign" => target[p] \in recOwners \cup Theirs

\* Half a generated bridge key is announced, and the relay knows no keys of the future.
RestOK ==
  /\ pub[Bridge] = None /\ secret[Bridge] \in minted => intents[Bridge] = secret[Bridge]
  /\ added \cup bound \subseteq minted \cup Theirs

SoloInv ==
  /\ TypeOK /\ TargetOK /\ ValuesOK
  /\ KeyAtHand /\ NothingForgotten /\ GrantsRecorded /\ RestOK
  /\ \A p \in Provisioners : LoadedOK(p) /\ CreatingOK(p) /\ RegisteringOK(p)

============================================================================
