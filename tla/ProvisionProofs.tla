--------------------------- MODULE ProvisionProofs ---------------------------
(***************************************************************************)
(* Proofs about Provision: its types, that only generated identities are   *)
(* claimed, for any number of runs at a time, and, for runs one after the  *)
(* other, that generated identities keep their keys and their records.     *)
(***************************************************************************)
EXTENDS Provision, TLAPS

----------------------------------------------------------------------------
(* Types.                                                                  *)

\* What the arithmetic and the sets of keys need of the assumptions.
LEMMA Bounds == /\ MaxFaults \in Nat /\ MaxChanges \in Nat
                /\ Theirs \subseteq Keys /\ None \notin Keys /\ Bridge \notin Ids
BY ProvisionAssumption DEF ProvisionAssumption

\* The initial state is well typed.
LEMMA InitType == Init => TypeOK
BY Bounds DEF Init, TypeOK, Slots, MaybeKey, Places, Owners

\* The steps of a run up to its record of generated identities keep the types.
LEMMA WorkTypeFiles ==
  ASSUME TypeOK, NEW p \in Provisioners,
         Load(p) \/ Recover(p) \/ Record(p) \/ ReadSecrets(p) \/ ReplaceSecrets(p)
           \/ ReadConfig(p) \/ ReplaceConfig(p) \/ Reload(p)
  PROVE  TypeOK'
<1>1. CASE Load(p)
  BY <1>1, Bounds DEF TypeOK, Load, Goto, Places, files, state, relay, history
<1>2. CASE Recover(p)
  <2>1. claimed' \subseteq Keys
    BY <1>2, Bounds DEF TypeOK, Recover, Resolvable, MaybeKey
  <2>2. intents' \in [Slots -> MaybeKey]
    BY <1>2 DEF TypeOK, Recover, MaybeKey
  <2>3. pc' \in [Provisioners -> Places]
    <3>1. PICK l \in {"intend", "record"} : pc' = [pc EXCEPT ![p] = l]
      BY <1>2 DEF Recover, Goto
    <3> QED BY <3>1 DEF TypeOK, Places
  <2>4. stage' \in [Provisioners -> {"begin", "bridge", "agents"}]
    BY <1>2 DEF TypeOK, Recover
  <2> QED
    BY <1>2, <2>1, <2>2, <2>3, <2>4 DEF TypeOK, Recover, files, relay, history
<1>3. CASE Record(p)
  <2>1. claimed' \subseteq Keys
    BY <1>3 DEF TypeOK, Record, MaybeKey
  <2>2. pc' \in [Provisioners -> Places]
    <3>1. PICK l \in {"intend", "list", "failed"} : pc' = [pc EXCEPT ![p] = l]
      BY <1>3 DEF Record, Goto
    <3> QED BY <3>1 DEF TypeOK, Places
  <2>3. stage' \in [Provisioners -> {"begin", "bridge", "agents"}]
    BY <1>3 DEF TypeOK, Record
  <2> QED
    BY <1>3, <2>1, <2>2, <2>3 DEF TypeOK, Record, files, relay, history
<1>4. CASE ReadSecrets(p)
  BY <1>4, Bounds DEF TypeOK, ReadSecrets, Goto, Places, files, state, relay, history
<1>5. CASE ReplaceSecrets(p)
  BY <1>5, Bounds DEF TypeOK, ReplaceSecrets, Goto, Places, state, relay, history
<1>6. CASE ReadConfig(p)
  BY <1>6, Bounds DEF TypeOK, ReadConfig, Goto, Places, files, state, relay, history
<1>7. CASE ReplaceConfig(p)
  <2>1. \A s \in Slots : Written(p, s) \in MaybeKey
    BY <1>7, Bounds DEF TypeOK, Written
  <2> QED
    BY <1>7, <2>1, Bounds DEF TypeOK, ReplaceConfig, Goto, Places, state, relay, history
<1>8. CASE Reload(p)
  BY <1>8, Bounds DEF TypeOK, Reload, Goto, Places, files, state, relay, history
<1> QED BY <1>1, <1>2, <1>3, <1>4, <1>5, <1>6, <1>7, <1>8

\* The generation of keys keeps the types.
LEMMA IntendType ==
  ASSUME TypeOK, NEW p \in Provisioners, Intend(p)
  PROVE  TypeOK'
<1>1. Planned(p) \subseteq Slots
  BY Bounds DEF TypeOK, Planned, Slots
<1>2. Ensure(p, Planned(p)) \in Places
  BY DEF TypeOK, Ensure, Places, Planned, Slots
<1>3. PICK g \in [Planned(p) -> Keys \ (Theirs \cup minted)] :
        /\ gen' = [gen EXCEPT ![p] = [s \in Slots |->
                     IF s \in Planned(p) THEN g[s]
                     ELSE IF s = Bridge THEN csec[p][Bridge] ELSE None]]
        /\ intents' = Announced(Planned(p), g)
        /\ minted' = minted \cup {g[s] : s \in Planned(p)}
        /\ made' = [made EXCEPT ![p] = Planned(p)]
        /\ Goto(p, Ensure(p, Planned(p)))
  BY DEF Intend
<1>4. gen' \in [Provisioners -> [Slots -> MaybeKey]]
  <2>1. [s \in Slots |-> IF s \in Planned(p) THEN g[s]
                         ELSE IF s = Bridge THEN csec[p][Bridge] ELSE None]
          \in [Slots -> MaybeKey]
    BY DEF TypeOK, MaybeKey, Slots
  <2> QED BY <2>1, <1>3 DEF TypeOK
<1>5. intents' \in [Slots -> MaybeKey]
  BY <1>3 DEF TypeOK, Announced, MaybeKey
<1>6. minted' \subseteq Keys \ Theirs
  BY <1>3 DEF TypeOK
<1>7. made' \in [Provisioners -> SUBSET Slots]
  BY <1>1, <1>3 DEF TypeOK
<1>8. pc' \in [Provisioners -> Places]
  BY <1>2, <1>3 DEF TypeOK, Goto
<1> QED
  BY <1>4, <1>5, <1>6, <1>7, <1>8 DEF TypeOK, Intend, files, relay

\* A command of the administrator keeps the types of what its answer changes.
LEMMA AnsweredType ==
  ASSUME TypeOK, NEW p \in Provisioners, NEW l \in Places, Answered(p, l)
  PROVE  /\ pc' \in [Provisioners -> Places]
         /\ todo' \in [Provisioners -> SUBSET Keys]
         /\ faults' \in Nat
<1>1. CASE todo' = [todo EXCEPT ![p] = @ \ {target[p]}] /\ Goto(p, l) /\ UNCHANGED faults
  BY <1>1 DEF TypeOK, Goto
<1>2. CASE faults' = faults + 1 /\ Goto(p, "idle") /\ UNCHANGED todo
  BY <1>2 DEF TypeOK, Goto, Places
<1> QED BY <1>1, <1>2 DEF Answered

\* The steps of a run at the relay, and its end, keep the types.
LEMMA WorkTypeRelay ==
  ASSUME TypeOK, TargetOK, NEW p \in Provisioners,
         List(p) \/ RecordMember(p) \/ AddMember(p) \/ Joined(p) \/ RecordOwner(p)
           \/ AssignOwner(p) \/ AssignRefused(p) \/ Done(p) \/ Fail(p)
  PROVE  TypeOK'
<1>0. KeysOf(p) \subseteq Keys
  BY Bounds DEF TypeOK, KeysOf, MaybeKey
<1>1. CASE List(p)
  BY <1>0, <1>1, Bounds DEF TypeOK, List, Goto, Places, files, state, relay, history
<1>2. CASE RecordMember(p)
  BY <1>2, Bounds DEF TypeOK, RecordMember, Goto, Places, MaybeKey, files, relay, history
<1>3. CASE AddMember(p)
  <2>1. target[p] \in Keys
    BY <1>3 DEF TypeOK, TargetOK, AddMember, MaybeKey
  <2>2. Answered(p, "join") /\ "join" \in Places
    BY <1>3 DEF AddMember, Places
  <2> QED
    BY <1>3, <2>1, <2>2, AnsweredType DEF TypeOK, AddMember, files, state
<1>4. CASE Joined(p)
  BY <1>0, <1>4, Bounds DEF TypeOK, Joined, Goto, Places, files, state, relay, history
<1>5. CASE RecordOwner(p)
  BY <1>5, Bounds DEF TypeOK, RecordOwner, Goto, Places, MaybeKey, files, relay, history
<1>6. CASE AssignOwner(p)
  <2>1. target[p] \in Keys
    BY <1>6 DEF TypeOK, TargetOK, AssignOwner, MaybeKey
  <2>2. Answered(p, "own") /\ "own" \in Places
    BY <1>6 DEF AssignOwner, Places
  <2> QED
    BY <1>6, <2>1, <2>2, AnsweredType DEF TypeOK, AssignOwner, Owners, files, state
<1>7. CASE AssignRefused(p)
  BY <1>7, Bounds DEF TypeOK, AssignRefused, Goto, Places, files, state, relay, history
<1>8. CASE Done(p)
  BY <1>8, Bounds DEF TypeOK, Done, Goto, Places, files, state, relay, history
<1>9. CASE Fail(p)
  BY <1>9, Bounds DEF TypeOK, Fail, Goto, Places, files, state, relay, history
<1> QED BY <1>1, <1>2, <1>3, <1>4, <1>5, <1>6, <1>7, <1>8, <1>9

\* The start and the abortion of a run keep the types.
LEMMA RunType ==
  ASSUME TypeOK, NEW p \in Provisioners, Pass(p) \/ Bootstrap(p) \/ Abort(p)
  PROVE  TypeOK'
<1>1. CASE Pass(p)
  BY <1>1, Bounds DEF TypeOK, Pass, Enter, Goto, Places, files, state, relay, history
<1>2. CASE Bootstrap(p)
  BY <1>2, Bounds DEF TypeOK, Bootstrap, Enter, Goto, Places, files, state, relay, history
<1>3. CASE Abort(p)
  BY <1>3, Bounds DEF TypeOK, Abort, Goto, Places, files, state, relay, history
<1> QED BY <1>1, <1>2, <1>3

\* What people do keeps the types.
LEMMA PeopleType == TypeOK /\ People => TypeOK'
<1> SUFFICES ASSUME TypeOK, People PROVE TypeOK'
  OBVIOUS
<1>1. CASE \E i \in Ids : TogglePane(i)
  BY <1>1, Bounds DEF TypeOK, TogglePane, Change, files, state, relay, run, history
<1>2. CASE \E i \in Ids, k \in Theirs : Import(i, k)
  <2>1. PICK i \in Ids, k \in Theirs : Import(i, k) BY <1>2
  <2>2. pub' \in [Slots -> MaybeKey]
    <3>1. pub' = [pub EXCEPT ![i] = k] BY <2>1 DEF Import
    <3>2. k \in MaybeKey BY Bounds DEF MaybeKey
    <3> QED BY <3>1, <3>2 DEF TypeOK
  <2>3. changes' \in Nat
    BY <2>1 DEF TypeOK, Import, Edits, Change
  <2> QED BY <2>1, <2>2, <2>3 DEF TypeOK, Import, state, relay, run, history
<1>3. CASE \E k \in Theirs : ImportBridge(k)
  <2>1. PICK k \in Theirs : ImportBridge(k) BY <1>3
  <2>2. secret' \in [Slots -> MaybeKey]
    <3>1. secret' = [secret EXCEPT ![Bridge] = k] BY <2>1 DEF ImportBridge
    <3>2. k \in MaybeKey BY Bounds DEF MaybeKey
    <3> QED BY <3>1, <3>2 DEF TypeOK
  <2>3. changes' \in Nat
    BY <2>1 DEF TypeOK, ImportBridge, Edits, Change
  <2> QED BY <2>1, <2>2, <2>3 DEF TypeOK, ImportBridge, state, relay, run, history
<1>4. CASE \E k \in Theirs \cup minted : Administer(k)
  <2>1. PICK k \in Theirs \cup minted : Administer(k) BY <1>4
  <2>2. k \in Keys BY Bounds DEF TypeOK
  <2> QED
    BY <2>1, <2>2, Bounds DEF TypeOK, Administer, Change, Owners, files, state, run, history
<1> QED BY <1>1, <1>2, <1>3, <1>4 DEF People

\* Every step keeps the types.
LEMMA NextType == TypeOK /\ TargetOK /\ [Next]_vars => TypeOK'
<1> SUFFICES ASSUME TypeOK, TargetOK, [Next]_vars PROVE TypeOK'
  OBVIOUS
<1>1. CASE \E p \in Provisioners : Pass(p) \/ Bootstrap(p) \/ Abort(p)
  BY <1>1, RunType
<1>2. CASE \E p \in Provisioners : Work(p)
  <2>1. PICK p \in Provisioners : Work(p) BY <1>2
  <2> QED BY <2>1, WorkTypeFiles, WorkTypeRelay, IntendType DEF Work
<1>3. CASE People
  BY <1>3, PeopleType
<1>4. CASE UNCHANGED vars
  BY <1>4 DEF TypeOK, vars, files, state, relay, run, history
<1> QED BY <1>1, <1>2, <1>3, <1>4 DEF Next

\* Every step leaves a key where one is needed.
LEMMA NextTarget == TypeOK /\ TargetOK /\ [Next]_vars => TargetOK'
<1> SUFFICES ASSUME TypeOK, TargetOK, [Next]_vars,
                    NEW q \in Provisioners, pc'[q] \in {"add", "assign"}
             PROVE  target'[q] # None
  BY DEF TargetOK
<1>1. CASE \E p \in Provisioners : RecordMember(p) \/ RecordOwner(p)
  <2>1. PICK p \in Provisioners : RecordMember(p) \/ RecordOwner(p) BY <1>1
  <2>2. PICK k \in todo[p] : target' = [target EXCEPT ![p] = k]
    BY <2>1 DEF RecordMember, RecordOwner
  <2>3. k # None BY <2>2, Bounds DEF TypeOK
  <2>4. q # p => pc'[q] = pc[q]
    BY <2>1 DEF TypeOK, RecordMember, RecordOwner, Goto
  <2> QED BY <2>2, <2>3, <2>4 DEF TypeOK, TargetOK
<1>2. CASE \E p \in Provisioners : Pass(p) \/ Bootstrap(p) \/ Abort(p) \/ Load(p)
                                     \/ Recover(p) \/ Intend(p) \/ Record(p)
  <2>1. PICK p \in Provisioners : Pass(p) \/ Bootstrap(p) \/ Abort(p) \/ Load(p)
                                     \/ Recover(p) \/ Intend(p) \/ Record(p)
    BY <1>2
  <2>2. target' = target
    BY <2>1 DEF Pass, Bootstrap, Enter, Abort, Load, Recover, Intend, Record
  <2>3. PICK l \in Places \ {"add", "assign"} : pc' = [pc EXCEPT ![p] = l]
    <3>1. Ensure(p, Planned(p)) \in Places \ {"add", "assign"}
      BY DEF Ensure, Places
    <3>2. CASE Intend(p)
      BY <3>1, <3>2 DEF Intend, Goto
    <3>3. CASE Pass(p) \/ Bootstrap(p) \/ Abort(p) \/ Load(p)
      BY <3>3 DEF Pass, Bootstrap, Enter, Abort, Load, Goto, Places
    <3>4. CASE Recover(p)
      BY <3>4 DEF Recover, Goto, Places
    <3>5. CASE Record(p)
      BY <3>5 DEF Record, Goto, Places
    <3> QED BY <2>1, <3>2, <3>3, <3>4, <3>5
  <2>4. pc'[q] = pc[q]
    BY <2>3 DEF TypeOK
  <2> QED BY <2>2, <2>4 DEF TargetOK
<1>3. CASE \E p \in Provisioners : ReadSecrets(p) \/ ReplaceSecrets(p) \/ ReadConfig(p)
                                     \/ ReplaceConfig(p) \/ Reload(p)
  <2>1. PICK p \in Provisioners : ReadSecrets(p) \/ ReplaceSecrets(p) \/ ReadConfig(p)
                                     \/ ReplaceConfig(p) \/ Reload(p)
    BY <1>3
  <2>2. target' = target /\ pc'[q] = pc[q]
    BY <2>1 DEF TypeOK, ReadSecrets, ReplaceSecrets, ReadConfig, ReplaceConfig, Reload, Goto
  <2> QED BY <2>2 DEF TargetOK
<1>4. CASE \E p \in Provisioners : List(p) \/ Joined(p) \/ AddMember(p)
  <2>1. PICK p \in Provisioners : List(p) \/ Joined(p) \/ AddMember(p) BY <1>4
  <2>2. target' = target /\ pc'[q] = pc[q]
    BY <2>1 DEF TypeOK, List, Joined, AddMember, Answered, Goto
  <2> QED BY <2>2 DEF TargetOK
<1>5. CASE \E p \in Provisioners : AssignOwner(p) \/ AssignRefused(p) \/ Done(p) \/ Fail(p)
  <2>1. PICK p \in Provisioners : AssignOwner(p) \/ AssignRefused(p) \/ Done(p) \/ Fail(p)
    BY <1>5
  <2>2. target' = target /\ pc'[q] = pc[q]
    BY <2>1 DEF TypeOK, AssignOwner, Answered, AssignRefused, Done, Fail, Goto
  <2> QED BY <2>2 DEF TargetOK
<1>6. CASE People \/ UNCHANGED vars
  BY <1>6 DEF TargetOK, People, TogglePane, Import, ImportBridge, Administer, vars, run
<1> QED BY <1>1, <1>2, <1>3, <1>4, <1>5, <1>6 DEF Next, Work

\* Every reachable state of provisioning is well typed.
THEOREM ProvisionTypeCorrect == Spec => []TypeOK
<1>1. Init => TypeOK /\ TargetOK BY InitType DEF Init, TargetOK
<1>2. TypeOK /\ TargetOK /\ [Next]_vars => (TypeOK /\ TargetOK)'
  BY NextType, NextTarget
<1> QED BY <1>1, <1>2, PTL DEF Spec

----------------------------------------------------------------------------
(* Only generated identities are claimed.                                  *)

\* The steps that neither generate keys nor change a file or what a run knows of them
\* leave the keys what they are.
LEMMA ValuesKept ==
  ASSUME ValuesOK, UNCHANGED <<intents, pub, secret, cpub, csec, gen, text, minted>>
  PROVE  ValuesOK'
BY DEF ValuesOK, Known

\* The generation of keys adds generated keys.
LEMMA IntendValues ==
  ASSUME TypeOK, ValuesOK, NEW p \in Provisioners, Intend(p)
  PROVE  ValuesOK'
<1>1. Planned(p) \subseteq Slots
  BY Bounds DEF TypeOK, Planned, Slots
<1>2. PICK g \in [Planned(p) -> Keys \ (Theirs \cup minted)] :
        /\ gen' = [gen EXCEPT ![p] = [s \in Slots |->
                     IF s \in Planned(p) THEN g[s]
                     ELSE IF s = Bridge THEN csec[p][Bridge] ELSE None]]
        /\ intents' = Announced(Planned(p), g)
        /\ minted' = minted \cup {g[s] : s \in Planned(p)}
  BY DEF Intend
<1>3. \A s \in Planned(p) : g[s] \in minted' BY <1>2
<1>4. Known \subseteq Known' BY <1>2 DEF Known
<1>5. gen' \in [Provisioners -> [Slots -> Known']]
  <2>1. [s \in Slots |-> IF s \in Planned(p) THEN g[s]
                         ELSE IF s = Bridge THEN csec[p][Bridge] ELSE None]
          \in [Slots -> Known']
    <3>1. csec[p][Bridge] \in Known' BY <1>4 DEF ValuesOK, Slots
    <3>2. None \in Known' BY DEF Known
    <3>3. \A s \in Planned(p) : g[s] \in Known' BY <1>3 DEF Known
    <3> QED BY <3>1, <3>2, <3>3
  <2>2. gen \in [Provisioners -> [Slots -> Known']] BY <1>4 DEF ValuesOK
  <2> QED BY <2>1, <2>2, <1>2
<1>6. intents' \in [Slots -> minted' \cup {None}]
  BY <1>2, <1>3 DEF ValuesOK, Announced
<1>7. pub' = pub /\ secret' = secret /\ cpub' = cpub /\ csec' = csec /\ text' = text
  BY DEF Intend, files
<1> QED
  <2>1. /\ pub \in [Slots -> Known'] /\ secret \in [Slots -> Known']
        /\ cpub \in [Provisioners -> [Slots -> Known']]
        /\ csec \in [Provisioners -> [Slots -> Known']]
        /\ text \in [Provisioners -> [Slots -> Known']]
    BY <1>4 DEF ValuesOK
  <2> QED BY <2>1, <1>5, <1>6, <1>7 DEF ValuesOK

\* Every step leaves the keys what they are.
LEMMA NextValues == TypeOK /\ ValuesOK /\ [Next]_vars => ValuesOK'
<1> SUFFICES ASSUME TypeOK, ValuesOK, [Next]_vars PROVE ValuesOK'
  OBVIOUS
<1>1. CASE \E p \in Provisioners : Pass(p) \/ Bootstrap(p) \/ Abort(p) \/ Record(p)
                                     \/ List(p) \/ RecordMember(p) \/ AddMember(p) \/ Joined(p)
  <2>1. UNCHANGED <<intents, pub, secret, cpub, csec, gen, text, minted>>
    BY <1>1 DEF Pass, Bootstrap, Enter, Abort, Record, List, RecordMember, AddMember, Joined,
                files, state, history
  <2> QED BY <2>1, ValuesKept
<1>2. CASE \E p \in Provisioners : RecordOwner(p) \/ AssignOwner(p) \/ AssignRefused(p)
                                     \/ Done(p) \/ Fail(p)
  <2>1. UNCHANGED <<intents, pub, secret, cpub, csec, gen, text, minted>>
    BY <1>2 DEF RecordOwner, AssignOwner, AssignRefused, Done, Fail, files, state, history
  <2> QED BY <2>1, ValuesKept
<1>3. CASE \E p \in Provisioners : Load(p) \/ Reload(p)
  <2>1. PICK p \in Provisioners : Load(p) \/ Reload(p) BY <1>3
  <2>2. /\ cpub' = [cpub EXCEPT ![p] = pub] /\ csec' = [csec EXCEPT ![p] = secret]
        /\ UNCHANGED <<intents, pub, secret, gen, text, minted>>
    BY <2>1 DEF Load, Reload, files, state, history
  <2> QED BY <2>2 DEF ValuesOK, Known
<1>4. CASE \E p \in Provisioners : Recover(p)
  <2>1. PICK p \in Provisioners : Recover(p) BY <1>4
  <2>2. intents' \in [Slots -> minted \cup {None}]
    BY <2>1 DEF Recover, ValuesOK
  <2>3. UNCHANGED <<pub, secret, cpub, csec, gen, text, minted>>
    BY <2>1 DEF Recover, files, history
  <2> QED BY <2>2, <2>3 DEF ValuesOK, Known
<1>5. CASE \E p \in Provisioners : Intend(p)
  BY <1>5, IntendValues
<1>6. CASE \E p \in Provisioners : ReadSecrets(p) \/ ReadConfig(p)
  <2>1. PICK p \in Provisioners : ReadSecrets(p) \/ ReadConfig(p) BY <1>6
  <2>2. PICK f \in [Slots -> Known] : text' = [text EXCEPT ![p] = f]
    BY <2>1 DEF ReadSecrets, ReadConfig, ValuesOK
  <2>3. UNCHANGED <<intents, pub, secret, cpub, csec, gen, minted>>
    BY <2>1 DEF ReadSecrets, ReadConfig, files, state, history
  <2> QED BY <2>2, <2>3 DEF ValuesOK, Known
<1>7. CASE \E p \in Provisioners : ReplaceSecrets(p)
  <2>1. PICK p \in Provisioners : ReplaceSecrets(p) BY <1>7
  <2>2. secret' \in [Slots -> Known]
    BY <2>1 DEF ReplaceSecrets, ValuesOK
  <2>3. UNCHANGED <<intents, pub, cpub, csec, gen, text, minted>>
    BY <2>1 DEF ReplaceSecrets, state, history
  <2> QED BY <2>2, <2>3 DEF ValuesOK, Known
<1>8. CASE \E p \in Provisioners : ReplaceConfig(p)
  <2>1. PICK p \in Provisioners : ReplaceConfig(p) BY <1>8
  <2>2. pub' \in [Slots -> Known]
    BY <2>1 DEF ReplaceConfig, Written, ValuesOK
  <2>3. UNCHANGED <<intents, secret, cpub, csec, gen, text, minted>>
    BY <2>1 DEF ReplaceConfig, state, history
  <2> QED BY <2>2, <2>3 DEF ValuesOK, Known
<1>9. CASE People \/ UNCHANGED vars
  <2>1. pub' \in [Slots -> Known] /\ secret' \in [Slots -> Known]
    <3>1. CASE \E i \in Ids, k \in Theirs : Import(i, k)
      <4>1. PICK i \in Ids, k \in Theirs : Import(i, k) BY <3>1
      <4>2. pub' = [pub EXCEPT ![i] = k] /\ secret' = secret /\ k \in Known
        BY <4>1 DEF Import, Known
      <4> QED BY <4>2 DEF ValuesOK
    <3>2. CASE \E k \in Theirs : ImportBridge(k)
      <4>1. PICK k \in Theirs : ImportBridge(k) BY <3>2
      <4>2. secret' = [secret EXCEPT ![Bridge] = k] /\ pub' = pub /\ k \in Known
        BY <4>1 DEF ImportBridge, Known
      <4> QED BY <4>2 DEF ValuesOK
    <3>3. CASE (\E i \in Ids : TogglePane(i)) \/ (\E k \in Theirs \cup minted : Administer(k))
                 \/ UNCHANGED vars
      <4>1. pub' = pub /\ secret' = secret
        BY <3>3 DEF TogglePane, Administer, vars, files
      <4> QED BY <4>1 DEF ValuesOK
    <3> QED BY <1>9, <3>1, <3>2, <3>3 DEF People
  <2>2. UNCHANGED <<intents, cpub, csec, gen, text, minted>>
    BY <1>9 DEF People, TogglePane, Import, ImportBridge, Administer, vars, state, run, history
  <2> QED BY <2>1, <2>2 DEF ValuesOK, Known
<1> QED BY <1>1, <1>2, <1>3, <1>4, <1>5, <1>6, <1>7, <1>8, <1>9 DEF Next, Work

\* A run is not disturbed by a step of others that changes nothing people brought.
LEMMA RunKept ==
  ASSUME NEW q \in Provisioners, BroughtRun(q),
         \A s \in Slots : Brought(s)' <=> Brought(s),
         pc'[q] = pc[q], made'[q] = made[q], made[q] \subseteq Slots, gen'[q] = gen[q],
         cpub'[q] = cpub[q], csec'[q] = csec[q], text'[q] = text[q]
  PROVE  BroughtRun(q)'
<1>1. Bridge \in Slots /\ Ids \subseteq Slots BY DEF Slots
<1>2. \A s \in Slots : KnownBrought(q, s)' <=> KnownBrought(q, s)
  BY DEF KnownBrought
<1> QED
  BY <1>1, <1>2 DEF BroughtRun

\* Where a step that leaves the keys of all other runs alone must be looked at.
LEMMA BroughtStep ==
  ASSUME TypeOK, BroughtOK, NEW p \in Provisioners,
         \A q \in Provisioners \ {p} :
           /\ pc'[q] = pc[q] /\ made'[q] = made[q] /\ gen'[q] = gen[q]
           /\ cpub'[q] = cpub[q] /\ csec'[q] = csec[q] /\ text'[q] = text[q],
         \A s \in Slots : Brought(s)' <=> Brought(s),
         (pub[Bridge] \in Theirs => Brought(Bridge))',
         pc'[p] \notin {"idle", "load"} => BroughtRun(p)'
  PROVE  BroughtOK'
<1> SUFFICES ASSUME NEW q \in Provisioners, pc'[q] \notin {"idle", "load"}
             PROVE  BroughtRun(q)'
  BY DEF BroughtOK
<1>1. CASE q = p
  BY <1>1
<1>2. CASE q # p
  <2>1. BroughtRun(q) BY <1>2 DEF BroughtOK
  <2>2. made[q] \subseteq Slots BY DEF TypeOK
  <2> QED BY <1>2, <2>1, <2>2, RunKept
<1> QED BY <1>1, <1>2

\* The same for the steps that change no file.
LEMMA BroughtQuiet ==
  ASSUME TypeOK, BroughtOK, NEW p \in Provisioners, UNCHANGED <<pub, secret>>,
         \A q \in Provisioners \ {p} :
           /\ pc'[q] = pc[q] /\ made'[q] = made[q] /\ gen'[q] = gen[q]
           /\ cpub'[q] = cpub[q] /\ csec'[q] = csec[q] /\ text'[q] = text[q],
         pc'[p] \notin {"idle", "load"} => BroughtRun(p)'
  PROVE  BroughtOK'
<1>1. \A s \in Slots : Brought(s)' <=> Brought(s) BY DEF Brought
<1>2. (pub[Bridge] \in Theirs => Brought(Bridge))' BY <1>1 DEF BroughtOK, Slots
<1> QED BY <1>1, <1>2, BroughtStep

\* Steps that only move a run to a place where no file is about to be replaced.
LEMMA BroughtMove ==
  ASSUME TypeOK, BroughtOK, NEW p \in Provisioners,
         pc[p] \notin {"idle", "load"} \/ pc'[p] \in {"idle", "load"},
         \A q \in Provisioners \ {p} : pc'[q] = pc[q],
         pc'[p] \notin {"secrets", "replaceSecrets", "config", "replaceConfig"},
         UNCHANGED <<pub, secret, made, gen, cpub, csec, text>>
  PROVE  BroughtOK'
<1>1. ASSUME pc'[p] \notin {"idle", "load"} PROVE BroughtRun(p)'
  <2>1. BroughtRun(p) BY <1>1 DEF BroughtOK
  <2>2. \A s \in Slots : (Brought(s)' <=> Brought(s))
                           /\ (KnownBrought(p, s)' <=> KnownBrought(p, s))
    BY DEF Brought, KnownBrought
  <2>3. Bridge \in Slots /\ made[p] \subseteq Slots BY DEF Slots, TypeOK
  <2> QED BY <2>1, <2>2, <2>3 DEF BroughtRun
<1> QED BY <1>1, BroughtQuiet

\* Loading the configuration, at the start and after a stage.
LEMMA LoadBrought ==
  ASSUME TypeOK, BroughtOK, NEW p \in Provisioners, Load(p) \/ Reload(p)
  PROVE  BroughtOK'
<1>1. /\ cpub' = [cpub EXCEPT ![p] = pub] /\ csec' = [csec EXCEPT ![p] = secret]
      /\ UNCHANGED <<pub, secret, gen, text>>
      /\ pc' = [pc EXCEPT ![p] = "recover"]
  BY DEF Load, Reload, Goto, files
<1>2. \/ made' = [made EXCEPT ![p] = {}]
      \/ made' = made /\ pc[p] = "reload"
  BY DEF Load, Reload
<1>3. BroughtRun(p)'
  <2>1. cpub'[p] = pub /\ csec'[p] = secret /\ pc'[p] = "recover" /\ gen'[p] = gen[p]
    BY <1>1 DEF TypeOK
  <2>2. \A s \in Slots : Brought(s)' <=> Brought(s) BY <1>1 DEF Brought
  <2>3. \A s \in Slots : KnownBrought(p, s)' <=> Brought(s)'
    BY <1>1, <2>1 DEF KnownBrought, Brought
  <2>4. \A s \in made'[p] : ~Brought(s)' /\ gen'[p][s] \notin Theirs
    <3>1. CASE made' = [made EXCEPT ![p] = {}]
      BY <3>1 DEF TypeOK
    <3>2. CASE made' = made /\ pc[p] = "reload"
      BY <3>2, <2>1, <2>2 DEF BroughtOK, BroughtRun, TypeOK
    <3> QED BY <1>2, <3>1, <3>2
  <2>5. ~Brought(Bridge)' => cpub'[p][Bridge] \notin Theirs
    BY <2>1, <2>2 DEF BroughtOK, Slots
  <2> QED BY <2>1, <2>3, <2>4, <2>5 DEF BroughtRun
<1> QED
  <2>1. \A q \in Provisioners \ {p} :
           /\ pc'[q] = pc[q] /\ made'[q] = made[q] /\ gen'[q] = gen[q]
           /\ cpub'[q] = cpub[q] /\ csec'[q] = csec[q] /\ text'[q] = text[q]
    BY <1>1, <1>2 DEF TypeOK
  <2> QED BY <1>1, <1>3, <2>1, BroughtQuiet

\* Keys are generated for places where people brought none.
LEMMA IntendBrought ==
  ASSUME TypeOK, BroughtOK, NEW p \in Provisioners, Intend(p)
  PROVE  BroughtOK'
<1>1. pc[p] = "intend" /\ BroughtRun(p)
  BY DEF Intend, BroughtOK
<1>2. PICK g \in [Planned(p) -> Keys \ (Theirs \cup minted)] :
        /\ gen' = [gen EXCEPT ![p] = [s \in Slots |->
                     IF s \in Planned(p) THEN g[s]
                     ELSE IF s = Bridge THEN csec[p][Bridge] ELSE None]]
        /\ made' = [made EXCEPT ![p] = Planned(p)]
        /\ pc' = [pc EXCEPT ![p] = Ensure(p, Planned(p))]
  BY DEF Intend, Goto
<1>3. UNCHANGED <<pub, secret, cpub, csec, text>>
  BY DEF Intend, files
<1>4. Planned(p) \subseteq Slots
  BY DEF TypeOK, Planned, Slots
<1>5. \A s \in Planned(p) : ~Brought(s)
  <2>1. \A s \in Planned(p) : ~KnownBrought(p, s)
    BY Bounds DEF Planned, BridgeMissing, KnownBrought, Slots, TypeOK
  <2> QED BY <1>1, <1>4, <2>1 DEF BroughtRun
<1>6. \A s \in Slots : (Brought(s)' <=> Brought(s))
                         /\ (KnownBrought(p, s)' <=> KnownBrought(p, s))
  BY <1>3 DEF Brought, KnownBrought
<1>7. gen'[p] = [s \in Slots |-> IF s \in Planned(p) THEN g[s]
                     ELSE IF s = Bridge THEN csec[p][Bridge] ELSE None]
  BY <1>2 DEF TypeOK
<1>8. made'[p] = Planned(p) /\ pc'[p] = Ensure(p, Planned(p))
  BY <1>2 DEF TypeOK
<1>9. pc'[p] \notin {"replaceSecrets", "replaceConfig"}
  BY <1>8 DEF Ensure
<1>10. ~Brought(Bridge) => gen'[p][Bridge] \notin Theirs
  <2>1. ~Brought(Bridge) => csec[p][Bridge] \notin Theirs
    BY <1>1 DEF BroughtRun, KnownBrought, Slots
  <2>2. Bridge \in Slots BY DEF Slots
  <2> QED BY <1>2, <1>7, <2>1, <2>2
<1>11. \A s \in Planned(p) : gen'[p][s] \notin Theirs
  BY <1>2, <1>4, <1>7
<1>12. BroughtRun(p)'
  <2>1. Bridge \in Slots BY DEF Slots
  <2>2. cpub'[p] = cpub[p] BY <1>3
  <2> QED
    BY <1>1, <1>4, <1>5, <1>6, <1>8, <1>9, <1>10, <1>11, <2>1, <2>2 DEF BroughtRun
<1> QED
  <2>1. \A q \in Provisioners \ {p} :
           /\ pc'[q] = pc[q] /\ made'[q] = made[q] /\ gen'[q] = gen[q]
           /\ cpub'[q] = cpub[q] /\ csec'[q] = csec[q] /\ text'[q] = text[q]
    BY <1>2, <1>3 DEF TypeOK
  <2> QED BY <1>3, <1>12, <2>1, BroughtQuiet

\* The files are read as they are.
LEMMA ReadBrought ==
  ASSUME TypeOK, BroughtOK, NEW p \in Provisioners, ReadSecrets(p) \/ ReadConfig(p)
  PROVE  BroughtOK'
<1>1. BroughtRun(p) /\ UNCHANGED <<pub, secret, made, gen, cpub, csec>>
  BY DEF ReadSecrets, ReadConfig, BroughtOK, files
<1>2. \/ /\ pc[p] = "secrets" /\ text' = [text EXCEPT ![p] = secret]
         /\ pc' = [pc EXCEPT ![p] = "replaceSecrets"]
      \/ /\ pc[p] = "config" /\ text' = [text EXCEPT ![p] = pub]
         /\ pc' = [pc EXCEPT ![p] = "replaceConfig"]
  BY DEF ReadSecrets, ReadConfig, Goto
<1>3. \A s \in Slots : (Brought(s)' <=> Brought(s))
                         /\ (KnownBrought(p, s)' <=> KnownBrought(p, s))
  BY <1>1 DEF Brought, KnownBrought
<1>4. Bridge \in Slots /\ Ids \subseteq Slots /\ made[p] \subseteq Slots
  BY DEF Slots, TypeOK
<1>5. BroughtRun(p)'
  <2>1. CASE pc[p] = "secrets"
    <3>1. text'[p] = secret /\ pc'[p] = "replaceSecrets" BY <1>2, <2>1 DEF TypeOK
    <3>2. text'[p][Bridge] \in Theirs <=> Brought(Bridge)' BY <1>1, <3>1 DEF Brought
    <3> QED BY <1>1, <1>3, <1>4, <2>1, <3>1, <3>2 DEF BroughtRun
  <2>2. CASE pc[p] = "config"
    <3>1. text'[p] = pub /\ pc'[p] = "replaceConfig" BY <1>2, <2>2 DEF TypeOK
    <3>2. \A i \in Ids : text'[p][i] \in Theirs <=> Brought(i)'
      BY <1>1, <3>1, Bounds DEF Brought
    <3>3. ~Brought(Bridge)' => text'[p][Bridge] \notin Theirs
      BY <1>3, <1>4, <3>1 DEF BroughtOK
    <3> QED BY <1>1, <1>3, <1>4, <2>2, <3>1, <3>2, <3>3 DEF BroughtRun
  <2> QED BY <1>2, <2>1, <2>2
<1> QED
  <2>1. \A q \in Provisioners \ {p} : pc'[q] = pc[q] /\ text'[q] = text[q]
    BY <1>2 DEF TypeOK
  <2> QED BY <1>1, <1>5, <2>1, BroughtQuiet

\* The dotenv file is replaced: a bridge key that people brought stays, and none appears.
LEMMA ReplaceSecretsBrought ==
  ASSUME TypeOK, BroughtOK, NEW p \in Provisioners, ReplaceSecrets(p)
  PROVE  BroughtOK'
<1>1. /\ BroughtRun(p) /\ pc[p] = "replaceSecrets"
      /\ secret' = [s \in Slots |-> IF s \in made[p] THEN gen[p][s] ELSE text[p][s]]
      /\ pc' = [pc EXCEPT ![p] = "config"]
      /\ UNCHANGED <<pub, made, gen, cpub, csec, text>>
  BY DEF ReplaceSecrets, BroughtOK, Goto
<1>2. Bridge \in Slots /\ made[p] \subseteq Slots /\ pc'[p] = "config"
  BY <1>1 DEF Slots, TypeOK
<1>3. secret'[Bridge] \in Theirs <=> Brought(Bridge)
  BY <1>1, <1>2 DEF BroughtRun
<1>4. \A s \in Slots : Brought(s)' <=> Brought(s)
  BY <1>1, <1>3 DEF Brought
<1>5. BroughtRun(p)'
  <2>1. \A s \in Slots : KnownBrought(p, s)' <=> KnownBrought(p, s)
    BY <1>1 DEF KnownBrought
  <2> QED BY <1>1, <1>2, <1>4, <2>1 DEF BroughtRun
<1>6. (pub[Bridge] \in Theirs => Brought(Bridge))'
  BY <1>1, <1>2, <1>4 DEF BroughtOK
<1> QED
  <2>1. \A q \in Provisioners \ {p} : pc'[q] = pc[q]
    BY <1>1 DEF TypeOK
  <2> QED BY <1>1, <1>4, <1>5, <1>6, <2>1, BroughtStep

\* The configuration is replaced: what people imported stays, and nothing is added to it.
LEMMA ReplaceConfigBrought ==
  ASSUME TypeOK, BroughtOK, NEW p \in Provisioners, ReplaceConfig(p)
  PROVE  BroughtOK'
<1>1. /\ BroughtRun(p) /\ pc[p] = "replaceConfig"
      /\ pub' = [s \in Slots |-> Written(p, s)]
      /\ pc' = [pc EXCEPT ![p] = "reload"]
      /\ UNCHANGED <<secret, made, gen, cpub, csec, text>>
  BY DEF ReplaceConfig, BroughtOK, Goto
<1>2. Bridge \in Slots /\ Ids \subseteq Slots /\ made[p] \subseteq Slots /\ pc'[p] = "reload"
  BY <1>1 DEF Slots, TypeOK
<1>3. \A i \in Ids : pub'[i] \in Theirs <=> Brought(i)
  <2> SUFFICES ASSUME NEW i \in Ids PROVE pub'[i] \in Theirs <=> Brought(i)
    OBVIOUS
  <2>1. i # Bridge /\ pub'[i] = Written(p, i) BY <1>1, <1>2, Bounds
  <2>2. text[p][i] \in Theirs <=> Brought(i) BY <1>1 DEF BroughtRun
  <2>3. i \in made[p] => ~Brought(i) /\ gen[p][i] \notin Theirs BY <1>1 DEF BroughtRun
  <2> QED BY <2>1, <2>2, <2>3 DEF Written
<1>4. \A s \in Slots : Brought(s)' <=> Brought(s)
  BY <1>1, <1>3 DEF Brought, Slots
<1>5. ~Brought(Bridge) => pub'[Bridge] \notin Theirs
  BY <1>1, <1>2 DEF Written, BroughtRun
<1>6. BroughtRun(p)'
  <2>1. \A s \in Slots : KnownBrought(p, s)' <=> KnownBrought(p, s)
    BY <1>1 DEF KnownBrought
  <2> QED BY <1>1, <1>2, <1>4, <2>1 DEF BroughtRun
<1> QED
  <2>1. \A q \in Provisioners \ {p} : pc'[q] = pc[q]
    BY <1>1 DEF TypeOK
  <2>2. (pub[Bridge] \in Theirs => Brought(Bridge))'
    BY <1>2, <1>4, <1>5
  <2> QED BY <1>1, <1>4, <1>6, <2>1, <2>2, BroughtStep

\* People edit while nothing is provisioned, so that there is no run to disturb.
LEMMA PeopleBrought ==
  ASSUME TypeOK, BroughtOK, EditsOverlap = FALSE, People
  PROVE  BroughtOK'
<1>1. CASE (\E i \in Ids : TogglePane(i)) \/ (\E k \in Theirs \cup minted : Administer(k))
  <2>1. UNCHANGED <<pub, secret, pc, made, gen, cpub, csec, text>>
    BY <1>1 DEF TogglePane, Administer, files, run
  <2>2. \A s \in Slots : Brought(s)' <=> Brought(s) BY <2>1 DEF Brought
  <2>3. (pub[Bridge] \in Theirs => Brought(Bridge))'
    BY <2>1, <2>2 DEF BroughtOK, Slots
  <2>4. ASSUME NEW q \in Provisioners, pc'[q] \notin {"idle", "load"} PROVE BroughtRun(q)'
    <3>1. BroughtRun(q) /\ made[q] \subseteq Slots BY <2>1, <2>4 DEF BroughtOK, TypeOK
    <3> QED BY <2>1, <2>2, <3>1, RunKept
  <2> QED BY <2>3, <2>4 DEF BroughtOK
<1>2. CASE (\E i \in Ids, k \in Theirs : Import(i, k)) \/ (\E k \in Theirs : ImportBridge(k))
  <2>1. \A q \in Provisioners : pc'[q] = "idle"
    BY <1>2 DEF Import, ImportBridge, Edits, run
  <2>2. (pub[Bridge] \in Theirs => Brought(Bridge))'
    <3>1. CASE \E i \in Ids, k \in Theirs : Import(i, k)
      <4>1. PICK i \in Ids : pub'[Bridge] = pub[Bridge] /\ secret' = secret
        BY <3>1, Bounds DEF Import, TypeOK
      <4> QED BY <4>1 DEF BroughtOK, Brought
    <3>2. CASE \E k \in Theirs : ImportBridge(k)
      <4>1. PICK k \in Theirs : ImportBridge(k) BY <3>2
      <4>2. secret'[Bridge] = k BY <4>1 DEF ImportBridge, TypeOK, Slots
      <4> QED BY <4>2 DEF Brought
    <3> QED BY <1>2, <3>1, <3>2
  <2> QED BY <2>1, <2>2 DEF BroughtOK
<1> QED BY <1>1, <1>2 DEF People

\* Every step keeps what the runs know of the keys people brought.
LEMMA NextBrought ==
  ASSUME TypeOK, BroughtOK, EditsOverlap = FALSE, [Next]_vars
  PROVE  BroughtOK'
<1>1. CASE \E p \in Provisioners : Pass(p) \/ Bootstrap(p) \/ Abort(p) \/ Recover(p)
  <2>1. PICK p \in Provisioners : Pass(p) \/ Bootstrap(p) \/ Abort(p) \/ Recover(p)
    BY <1>1
  <2>2. /\ UNCHANGED <<pub, secret, made, gen, cpub, csec, text>>
        /\ \/ pc' = [pc EXCEPT ![p] = "load"] \/ pc' = [pc EXCEPT ![p] = "idle"]
           \/ /\ pc[p] = "recover"
              /\ \/ pc' = [pc EXCEPT ![p] = "intend"] \/ pc' = [pc EXCEPT ![p] = "record"]
    BY <2>1 DEF Pass, Bootstrap, Enter, Abort, Recover, Goto, files
  <2> QED BY <2>2, BroughtMove DEF TypeOK
<1>2. CASE \E p \in Provisioners : Record(p) \/ List(p) \/ RecordMember(p) \/ AddMember(p)
                                     \/ Joined(p)
  <2>1. PICK p \in Provisioners : Record(p) \/ List(p) \/ RecordMember(p) \/ AddMember(p)
                                     \/ Joined(p)
    BY <1>2
  <2>2. /\ UNCHANGED <<pub, secret, made, gen, cpub, csec, text>>
        /\ pc[p] \notin {"idle", "load"}
        /\ \E l \in {"intend", "list", "failed", "join", "add", "own", "idle"} :
             pc' = [pc EXCEPT ![p] = l]
    BY <2>1 DEF Record, List, RecordMember, AddMember, Joined, Answered, Goto, files
  <2> QED BY <2>2, BroughtMove DEF TypeOK
<1>3. CASE \E p \in Provisioners : RecordOwner(p) \/ AssignOwner(p) \/ AssignRefused(p)
                                     \/ Done(p) \/ Fail(p)
  <2>1. PICK p \in Provisioners : RecordOwner(p) \/ AssignOwner(p) \/ AssignRefused(p)
                                     \/ Done(p) \/ Fail(p)
    BY <1>3
  <2>2. /\ UNCHANGED <<pub, secret, made, gen, cpub, csec, text>>
        /\ pc[p] \notin {"idle", "load"}
        /\ \E l \in {"assign", "own", "failed", "idle"} : pc' = [pc EXCEPT ![p] = l]
    BY <2>1 DEF RecordOwner, AssignOwner, AssignRefused, Done, Fail, Answered, Goto, files
  <2> QED BY <2>2, BroughtMove DEF TypeOK
<1>4. CASE UNCHANGED vars
  <2>1. UNCHANGED <<pub, secret, pc, made, gen, cpub, csec, text>>
    BY <1>4 DEF vars, files, run
  <2>2. \A s \in Slots : Brought(s)' <=> Brought(s) BY <2>1 DEF Brought
  <2>3. (pub[Bridge] \in Theirs => Brought(Bridge))'
    BY <2>1, <2>2 DEF BroughtOK, Slots
  <2>4. ASSUME NEW q \in Provisioners, pc'[q] \notin {"idle", "load"} PROVE BroughtRun(q)'
    <3>1. BroughtRun(q) /\ made[q] \subseteq Slots BY <2>1, <2>4 DEF BroughtOK, TypeOK
    <3> QED BY <2>1, <2>2, <3>1, RunKept
  <2> QED BY <2>3, <2>4 DEF BroughtOK
<1>5. CASE \E p \in Provisioners : Load(p) \/ Reload(p)
  BY <1>5, LoadBrought
<1>6. CASE \E p \in Provisioners : Intend(p)
  BY <1>6, IntendBrought
<1>7. CASE \E p \in Provisioners : ReadSecrets(p) \/ ReadConfig(p)
  BY <1>7, ReadBrought
<1>8. CASE \E p \in Provisioners : ReplaceSecrets(p) \/ ReplaceConfig(p)
  BY <1>8, ReplaceSecretsBrought, ReplaceConfigBrought
<1>9. CASE People
  BY <1>9, PeopleBrought
<1> QED BY <1>1, <1>2, <1>3, <1>4, <1>5, <1>6, <1>7, <1>8, <1>9 DEF Next, Work

\* Every step claims keys only that buzzr generated.
LEMMA NextClaims ==
  ASSUME TypeOK, ValuesOK, BroughtOK, ClaimsOnlyGenerated, [Next]_vars
  PROVE  ClaimsOnlyGenerated'
<1>1. CASE \E p \in Provisioners : Recover(p)
  <2>1. PICK p \in Provisioners : Recover(p) BY <1>1
  <2>2. claimed' = claimed \cup {cpub[p][s] : s \in {t \in Slots : Resolvable(p, t)}}
    BY <2>1 DEF Recover
  <2>3. \A s \in Slots : Resolvable(p, s) => cpub[p][s] \in minted
    BY DEF Resolvable, ValuesOK
  <2>4. claimed' \subseteq minted
    BY <2>2, <2>3 DEF ClaimsOnlyGenerated
  <2>5. UNCHANGED <<recMembers, recOwners, minted>>
    BY <2>1 DEF Recover, history
  <2> QED BY <2>4, <2>5 DEF ClaimsOnlyGenerated
<1>2. CASE \E p \in Provisioners : Record(p)
  <2>1. PICK p \in Provisioners : Record(p) BY <1>2
  <2>2. claimed' = claimed \cup ({cpub[p][s] : s \in made[p]} \ {None})
    BY <2>1 DEF Record
  <2>3. BroughtRun(p) /\ made[p] \subseteq Slots BY <2>1 DEF Record, BroughtOK, TypeOK
  <2>4. \A s \in made[p] : cpub[p][s] \notin Theirs
    <3> SUFFICES ASSUME NEW s \in made[p] PROVE cpub[p][s] \notin Theirs
      OBVIOUS
    <3>1. ~Brought(s) /\ s \in Slots BY <2>3 DEF BroughtRun
    <3>2. CASE s = Bridge BY <2>3, <3>1, <3>2 DEF BroughtRun
    <3>3. CASE s # Bridge BY <2>3, <3>1, <3>3 DEF BroughtRun, KnownBrought
    <3> QED BY <3>2, <3>3
  <2>5. \A s \in made[p] : cpub[p][s] \in minted \cup {None}
    BY <2>3, <2>4 DEF ValuesOK, Known
  <2>6. UNCHANGED <<recMembers, recOwners, minted>>
    BY <2>1 DEF Record, history
  <2> QED BY <2>2, <2>5, <2>6 DEF ClaimsOnlyGenerated
<1>3. CASE \E p \in Provisioners : RecordMember(p) \/ RecordOwner(p)
  <2>1. PICK p \in Provisioners : RecordMember(p) \/ RecordOwner(p) BY <1>3
  <2>2. claimed' = claimed /\ minted' = minted
    BY <2>1 DEF RecordMember, RecordOwner, history
  <2>3. recMembers' \subseteq recMembers \cup claimed /\ recOwners' \subseteq recOwners \cup claimed
    BY <2>1 DEF RecordMember, RecordOwner
  <2> QED BY <2>2, <2>3 DEF ClaimsOnlyGenerated
<1>4. CASE \E p \in Provisioners : Intend(p)
  BY <1>4 DEF Intend, ClaimsOnlyGenerated
<1>5. CASE \E p \in Provisioners :
             Pass(p) \/ Bootstrap(p) \/ Abort(p) \/ Load(p) \/ ReadSecrets(p)
               \/ ReplaceSecrets(p) \/ ReadConfig(p) \/ ReplaceConfig(p) \/ Reload(p)
  <2>1. UNCHANGED <<claimed, recMembers, recOwners, minted>>
    BY <1>5 DEF Pass, Bootstrap, Enter, Abort, Load, ReadSecrets, ReplaceSecrets, ReadConfig,
                ReplaceConfig, Reload, state, history
  <2> QED BY <2>1 DEF ClaimsOnlyGenerated
<1>6. CASE \E p \in Provisioners : List(p) \/ AddMember(p) \/ Joined(p) \/ AssignOwner(p)
                                     \/ AssignRefused(p) \/ Done(p) \/ Fail(p)
  <2>1. UNCHANGED <<claimed, recMembers, recOwners, minted>>
    BY <1>6 DEF List, AddMember, Joined, AssignOwner, AssignRefused, Done, Fail, state, history
  <2> QED BY <2>1 DEF ClaimsOnlyGenerated
<1>7. CASE People \/ UNCHANGED vars
  <2>1. UNCHANGED <<claimed, recMembers, recOwners, minted>>
    BY <1>7 DEF People, TogglePane, Import, ImportBridge, Administer, vars, state, history
  <2> QED BY <2>1 DEF ClaimsOnlyGenerated
<1> QED BY <1>1, <1>2, <1>3, <1>4, <1>5, <1>6, <1>7 DEF Next, Work

\* The invariant of the claims holds at the start ...
LEMMA InitClaims == Init => ClaimsInv
<1> SUFFICES ASSUME Init PROVE ClaimsInv
  OBVIOUS
<1>1. TypeOK /\ TargetOK /\ ClaimsOnlyGenerated
  BY InitType DEF Init, TargetOK, ClaimsOnlyGenerated
<1>2. ValuesOK BY DEF Init, ValuesOK, Known
<1>3. BroughtOK BY Bounds DEF Init, BroughtOK, Slots
<1> QED BY <1>1, <1>2, <1>3 DEF ClaimsInv

\* ... and after every step.
LEMMA NextClaimsInv ==
  ASSUME EditsOverlap = FALSE
  PROVE  ClaimsInv /\ [Next]_vars => ClaimsInv'
BY NextType, NextTarget, NextValues, NextBrought, NextClaims DEF ClaimsInv

\* As long as people do not edit the configuration while buzzr provisions, no number of
\* runs at a time, of failures and of announcements left behind makes buzzr claim an
\* identity it did not generate.
THEOREM ClaimsOnlyGeneratedHolds ==
  ASSUME EditsOverlap = FALSE
  PROVE  Spec => []ClaimsOnlyGenerated
<1>1. ClaimsInv => ClaimsOnlyGenerated BY DEF ClaimsInv
<1> QED BY <1>1, InitClaims, NextClaimsInv, PTL DEF Spec

----------------------------------------------------------------------------
(* Runs one after the other keep keys and records.                         *)

\* What SoloInv says besides the types, for the run p.
KeepInv(p) ==
  /\ KeyAtHand /\ NothingForgotten /\ GrantsRecorded /\ RestOK
  /\ LoadedOK(p) /\ CreatingOK(p) /\ RegisteringOK(p)

\* Steps that change no file, no record and no key, and move the run to a place of which
\* nothing is required.
LEMMA KeepMove ==
  ASSUME NEW p \in Provisioners, KeepInv(p), pc'[p] \in {"idle", "load", "failed"},
         pc'[p] = "failed" => pc[p] = "assign" /\ cpub' = cpub /\ csec' = csec,
         UNCHANGED <<files, intents, claimed, recMembers, recOwners, minted, added, bound>>
  PROVE  KeepInv(p)'
BY DEF KeepInv, KeyAtHand, NothingForgotten, GrantsRecorded, RestOK, LoadedOK, CreatingOK,
       RegisteringOK, files

\* The configuration is loaded.
LEMMA KeepLoad ==
  ASSUME TypeOK, NEW p \in Provisioners, KeepInv(p), Load(p) \/ Reload(p)
  PROVE  KeepInv(p)'
<1>1. /\ cpub' = [cpub EXCEPT ![p] = pub] /\ csec' = [csec EXCEPT ![p] = secret]
      /\ pc' = [pc EXCEPT ![p] = "recover"]
      /\ UNCHANGED <<pub, secret, state, minted, added, bound>>
  BY DEF Load, Reload, Goto, files, history
<1>2. cpub'[p] = pub /\ csec'[p] = secret /\ pc'[p] = "recover"
  BY <1>1 DEF TypeOK
<1> QED
  BY <1>1, <1>2 DEF KeepInv, KeyAtHand, NothingForgotten, GrantsRecorded, RestOK, LoadedOK,
     CreatingOK, RegisteringOK, state

\* Recovery claims each generated key that is configured.
LEMMA KeepRecover ==
  ASSUME TypeOK, NEW p \in Provisioners, KeepInv(p), Recover(p)
  PROVE  KeepInv(p)'
<1>1. /\ pc[p] = "recover" /\ cpub[p] = pub /\ csec[p] = secret
      /\ UNCHANGED <<pub, secret, cpub, csec, minted, added, bound, recMembers, recOwners>>
  BY DEF Recover, KeepInv, LoadedOK, files, history
<1>2. pc'[p] \in {"intend", "record"}
  BY DEF Recover, Goto, TypeOK
<1>3. /\ claimed' = claimed \cup {pub[s] : s \in {t \in Slots : Resolvable(p, t)}}
      /\ intents' = [s \in Slots |-> IF Resolvable(p, s) THEN None ELSE intents[s]]
  BY <1>1 DEF Recover
<1>4. ASSUME NEW s \in Slots, pub[s] \in minted PROVE pub[s] \in claimed'
  <2>1. CASE intents[s] = pub[s]
    <3>1. pub[s] \notin Theirs /\ pub[s] # None /\ secret[s] = pub[s]
      BY <1>4, Bounds DEF TypeOK, KeepInv, KeyAtHand
    <3>2. Resolvable(p, s) BY <1>1, <2>1, <3>1 DEF Resolvable, Credential
    <3> QED BY <1>3, <3>2
  <2>2. CASE pub[s] \in claimed BY <1>3, <2>2
  <2> QED BY <1>4, <2>1, <2>2 DEF KeepInv, NothingForgotten
<1>5. KeyAtHand' /\ GrantsRecorded'
  BY <1>1 DEF KeepInv, KeyAtHand, GrantsRecorded
<1>6. NothingForgotten'
  BY <1>1, <1>4 DEF NothingForgotten
<1>7. RestOK'
  <2>1. pub[Bridge] = None => ~Resolvable(p, Bridge) BY <1>1 DEF Resolvable
  <2>2. Bridge \in Slots BY DEF Slots
  <2> QED BY <1>1, <1>3, <2>1, <2>2 DEF KeepInv, RestOK
<1>8. LoadedOK(p)' /\ CreatingOK(p)'
  BY <1>1, <1>2 DEF LoadedOK, CreatingOK
<1>9. RegisteringOK(p)'
  BY <1>1, <1>2, <1>4 DEF RegisteringOK
<1> QED BY <1>5, <1>6, <1>7, <1>8, <1>9 DEF KeepInv

\* A key of the future is in none of the files.
LEMMA FreshKeys ==
  ASSUME TypeOK, ValuesOK, NEW S, NEW g \in [S -> Keys \ (Theirs \cup minted)], NEW s \in Slots
  PROVE  \A t \in S : pub[s] # g[t] /\ secret[s] # g[t]
BY Bounds DEF ValuesOK, Known

\* Generated keys are announced, where neither half of a generated key is in the files.
LEMMA KeepIntend ==
  ASSUME TypeOK, ValuesOK, NEW p \in Provisioners, KeepInv(p), Intend(p)
  PROVE  KeepInv(p)'
<1>1. /\ pc[p] = "intend" /\ cpub[p] = pub /\ csec[p] = secret
      /\ UNCHANGED <<pub, secret, cpub, csec, stage, added, bound, claimed, recMembers,
                     recOwners>>
  BY DEF Intend, KeepInv, LoadedOK, files
<1>2. PICK g \in [Planned(p) -> Keys \ (Theirs \cup minted)] :
        /\ gen' = [gen EXCEPT ![p] = [s \in Slots |->
                     IF s \in Planned(p) THEN g[s]
                     ELSE IF s = Bridge THEN csec[p][Bridge] ELSE None]]
        /\ intents' = Announced(Planned(p), g)
        /\ minted' = minted \cup {g[s] : s \in Planned(p)}
        /\ made' = [made EXCEPT ![p] = Planned(p)]
        /\ pc' = [pc EXCEPT ![p] = Ensure(p, Planned(p))]
  BY DEF Intend, Goto
<1>3. Planned(p) \subseteq Slots /\ Bridge \in Slots
  BY DEF TypeOK, Planned, Slots
<1>4. /\ made'[p] = Planned(p) /\ pc'[p] = Ensure(p, Planned(p))
      /\ gen'[p] = [s \in Slots |-> IF s \in Planned(p) THEN g[s]
                     ELSE IF s = Bridge THEN csec[p][Bridge] ELSE None]
  BY <1>2 DEF TypeOK
<1>5. \A s \in Planned(p) : pub[s] = None
  BY <1>1, Bounds DEF Planned, BridgeMissing, TypeOK
<1>6. \A s \in Slots : /\ pub[s] \in minted' => pub[s] \in minted
                       /\ secret[s] \in minted' => secret[s] \in minted
  BY <1>2, FreshKeys
<1>7. /\ \A s \in Planned(p) : intents'[s] = g[s]
      /\ \A s \in Slots \ Planned(p) : intents'[s] = intents[s]
  BY <1>2, <1>3 DEF Announced
<1>8. KeyAtHand'
  BY <1>1, <1>6 DEF KeepInv, KeyAtHand
<1>9. NothingForgotten'
  <2> SUFFICES ASSUME NEW s \in Slots, pub[s] \in minted
               PROVE  pub[s] \in claimed \/ intents'[s] = pub[s]
    BY <1>1, <1>6 DEF NothingForgotten
  <2>1. s \notin Planned(p) BY <1>5, Bounds DEF TypeOK
  <2> QED BY <1>7, <2>1 DEF KeepInv, NothingForgotten
<1>10. GrantsRecorded'
  <2>1. (added \cup bound) \cap minted' \subseteq minted
    BY <1>2 DEF KeepInv, RestOK
  <2> QED BY <1>1, <2>1 DEF KeepInv, GrantsRecorded
<1>11. RestOK'
  <2>1. ASSUME pub[Bridge] = None, secret[Bridge] \in minted
        PROVE  intents'[Bridge] = secret[Bridge]
    <3>1. Bridge \notin Planned(p)
      BY <1>1, <2>1, Bounds DEF Planned, BridgeMissing, TypeOK
    <3> QED BY <1>3, <1>7, <2>1, <3>1 DEF KeepInv, RestOK
  <2>2. added \cup bound \subseteq minted' \cup Theirs
    BY <1>2 DEF KeepInv, RestOK
  <2> QED BY <1>1, <1>3, <1>6, <2>1, <2>2 DEF RestOK
<1>12. pc'[p] \in {"secrets", "recover", "config", "reload", "failed"}
  BY <1>4 DEF Ensure
<1>13. LoadedOK(p)'
  BY <1>1, <1>12 DEF LoadedOK
<1>14. CreatingOK(p)'
  <2>1. \A s \in Planned(p) : pub[s] = None /\ intents'[s] = gen'[p][s]
    BY <1>3, <1>4, <1>5, <1>7
  <2>2. pc'[p] = "secrets" /\ stage[p] = "bridge" => Planned(p) = {Bridge}
    BY <1>4 DEF Ensure, Planned
  <2>3. pc'[p] = "config" => Planned(p) = {} /\ pub[Bridge] = None
    BY <1>1, <1>4 DEF Ensure
  <2>4. pc'[p] = "config" => secret[Bridge] = gen'[p][Bridge]
    BY <1>1, <1>3, <1>4, <2>3
  <2> QED BY <1>1, <1>4, <1>12, <2>1, <2>2, <2>3, <2>4 DEF CreatingOK
<1>15. RegisteringOK(p)'
  BY <1>12 DEF RegisteringOK
<1> QED BY <1>8, <1>9, <1>10, <1>11, <1>13, <1>14, <1>15 DEF KeepInv

\* What was created is claimed; with the agents done, all that is configured is.
LEMMA KeepRecord ==
  ASSUME TypeOK, NEW p \in Provisioners, KeepInv(p), Record(p)
  PROVE  KeepInv(p)'
<1>1. /\ pc[p] = "record" /\ cpub[p] = pub /\ csec[p] = secret
      /\ UNCHANGED <<pub, secret, cpub, csec, minted, added, bound, intents, recMembers,
                     recOwners>>
      /\ claimed \subseteq claimed'
  BY DEF Record, KeepInv, LoadedOK, files, history
<1>2. pc'[p] \in {"intend", "list", "failed"}
  BY DEF Record, Goto, TypeOK
<1>3. pc'[p] = "list" => stage[p] # "bridge"
  <2>1. CASE stage[p] = "bridge"
    <3>1. pc' = [pc EXCEPT ![p] = "intend"] BY <2>1 DEF Record, Goto
    <3> QED BY <3>1 DEF TypeOK
  <2> QED BY <2>1
<1>4. KeyAtHand' /\ NothingForgotten' /\ GrantsRecorded' /\ RestOK'
  BY <1>1 DEF KeepInv, KeyAtHand, NothingForgotten, GrantsRecorded, RestOK
<1>5. LoadedOK(p)' /\ CreatingOK(p)'
  BY <1>1, <1>2 DEF LoadedOK, CreatingOK
<1>6. RegisteringOK(p)'
  BY <1>1, <1>2, <1>3 DEF KeepInv, RegisteringOK
<1> QED BY <1>4, <1>5, <1>6 DEF KeepInv

\* A file is read.
LEMMA KeepRead ==
  ASSUME TypeOK, NEW p \in Provisioners, KeepInv(p), ReadSecrets(p) \/ ReadConfig(p)
  PROVE  KeepInv(p)'
<1>1. UNCHANGED <<pub, secret, cpub, csec, gen, made, stage, minted, added, bound, intents,
                  claimed, recMembers, recOwners>>
  BY DEF ReadSecrets, ReadConfig, files, state, history
<1>2. \/ /\ pc[p] = "secrets" /\ pc'[p] = "replaceSecrets" /\ text'[p] = secret
      \/ /\ pc[p] = "config" /\ pc'[p] = "replaceConfig" /\ text'[p] = pub
  BY DEF ReadSecrets, ReadConfig, Goto, TypeOK
<1>3. KeyAtHand' /\ NothingForgotten' /\ GrantsRecorded' /\ RestOK'
  BY <1>1 DEF KeepInv, KeyAtHand, NothingForgotten, GrantsRecorded, RestOK
<1>4. LoadedOK(p)' BY <1>1, <1>2 DEF KeepInv, LoadedOK
<1>5. CreatingOK(p)' BY <1>1, <1>2 DEF KeepInv, CreatingOK
<1>6. RegisteringOK(p)' BY <1>1, <1>2 DEF RegisteringOK
<1> QED BY <1>3, <1>4, <1>5, <1>6 DEF KeepInv

\* The private keys of created identities, which are not configured yet, are written.
LEMMA KeepReplaceSecrets ==
  ASSUME TypeOK, NEW p \in Provisioners, KeepInv(p), ReplaceSecrets(p)
  PROVE  KeepInv(p)'
<1>1. /\ pc[p] = "replaceSecrets" /\ cpub[p] = pub /\ text[p] = secret
      /\ pc'[p] = "config"
      /\ UNCHANGED <<pub, cpub, gen, made, stage, minted, added, bound, intents, claimed,
                     recMembers, recOwners>>
  BY DEF ReplaceSecrets, KeepInv, LoadedOK, Goto, TypeOK, state, history
<1>2. secret' = [s \in Slots |-> IF s \in made[p] THEN gen[p][s] ELSE secret[s]]
  BY <1>1 DEF ReplaceSecrets
<1>3. /\ \A s \in made[p] : pub[s] = None /\ intents[s] = gen[p][s]
      /\ stage[p] = "bridge" => made[p] = {Bridge}
  BY <1>1 DEF KeepInv, CreatingOK
<1>4. Bridge \in Slots /\ made[p] \subseteq Slots BY DEF Slots, TypeOK
<1>5. KeyAtHand'
  <2> SUFFICES ASSUME NEW s \in Slots, pub[s] \in minted PROVE secret'[s] = pub[s]
    BY <1>1 DEF KeyAtHand
  <2>1. s \notin made[p] BY <1>3, Bounds DEF TypeOK
  <2> QED BY <1>2, <2>1 DEF KeepInv, KeyAtHand
<1>6. NothingForgotten' /\ GrantsRecorded'
  BY <1>1 DEF KeepInv, NothingForgotten, GrantsRecorded
<1>7. RestOK'
  BY <1>1, <1>2, <1>3, <1>4 DEF KeepInv, RestOK
<1>8. LoadedOK(p)' BY <1>1 DEF KeepInv, LoadedOK
<1>9. CreatingOK(p)'
  <2>1. \A s \in made[p] : secret'[s] = gen[p][s] BY <1>2, <1>4
  <2>2. stage[p] = "bridge" => secret'[Bridge] = gen[p][Bridge] /\ pub[Bridge] = None
    BY <1>3, <2>1
  <2> QED BY <1>1, <1>3, <2>1, <2>2 DEF CreatingOK
<1>10. RegisteringOK(p)' BY <1>1 DEF RegisteringOK
<1> QED BY <1>5, <1>6, <1>7, <1>8, <1>9, <1>10 DEF KeepInv

\* The public keys follow: of each the private key is written and the key announced.
LEMMA KeepReplaceConfig ==
  ASSUME TypeOK, NEW p \in Provisioners, KeepInv(p), ReplaceConfig(p)
  PROVE  KeepInv(p)'
<1>1. /\ pc[p] = "replaceConfig" /\ text[p] = pub
      /\ pc'[p] = "reload"
      /\ UNCHANGED <<secret, minted, added, bound, intents, claimed, recMembers, recOwners>>
  BY DEF ReplaceConfig, KeepInv, LoadedOK, Goto, TypeOK, state, history
<1>2. \A s \in Slots : pub'[s] = Written(p, s) BY DEF ReplaceConfig
<1>3. /\ \A s \in made[p] : intents[s] = gen[p][s] /\ secret[s] = gen[p][s]
      /\ stage[p] = "bridge" => secret[Bridge] = gen[p][Bridge] /\ pub[Bridge] = None
  BY <1>1 DEF KeepInv, CreatingOK
<1>4. Bridge \in Slots BY DEF Slots
<1>5. \A s \in Slots : pub'[s] = pub[s]
                       \/ /\ pub'[s] = secret[s]
                          /\ intents[s] = secret[s] \/ (s = Bridge /\ pub[Bridge] = None)
  <2> SUFFICES ASSUME NEW s \in Slots, pub'[s] # pub[s]
               PROVE  /\ pub'[s] = secret[s]
                      /\ intents[s] = secret[s] \/ (s = Bridge /\ pub[Bridge] = None)
    OBVIOUS
  <2>1. CASE stage[p] = "bridge" /\ s = Bridge
    BY <1>1, <1>2, <1>3, <2>1 DEF Written
  <2>2. CASE stage[p] = "agents" /\ s \in made[p] /\ text[p][s] = None
    BY <1>1, <1>2, <1>3, <2>2 DEF Written
  <2> QED BY <1>1, <1>2, <2>1, <2>2 DEF Written
<1>6. KeyAtHand'
  BY <1>1, <1>5 DEF KeepInv, KeyAtHand
<1>7. NothingForgotten'
  <2> SUFFICES ASSUME NEW s \in Slots, pub'[s] \in minted
               PROVE  pub'[s] \in claimed \/ intents[s] = pub'[s]
    BY <1>1 DEF NothingForgotten
  <2>1. CASE pub'[s] = pub[s] BY <2>1 DEF KeepInv, NothingForgotten
  <2>2. CASE pub'[s] = secret[s] /\ intents[s] = secret[s] BY <2>2
  <2>3. CASE pub'[s] = secret[s] /\ s = Bridge /\ pub[Bridge] = None
    BY <2>3 DEF KeepInv, RestOK
  <2> QED BY <1>5, <2>1, <2>2, <2>3
<1>8. GrantsRecorded'
  BY <1>1 DEF KeepInv, GrantsRecorded
<1>9. RestOK'
  <2>1. None \notin minted BY Bounds DEF TypeOK
  <2> QED BY <1>1, <1>4, <1>5, <2>1 DEF KeepInv, RestOK
<1>10. LoadedOK(p)' /\ CreatingOK(p)' /\ RegisteringOK(p)'
  BY <1>1 DEF LoadedOK, CreatingOK, RegisteringOK
<1> QED BY <1>6, <1>7, <1>8, <1>9, <1>10 DEF KeepInv

\* Listing the members and finishing a round ask for configured keys only.
LEMMA KeepAsk ==
  ASSUME TypeOK, NEW p \in Provisioners, KeepInv(p), List(p) \/ Joined(p)
  PROVE  KeepInv(p)'
<1>1. UNCHANGED <<pub, secret, cpub, csec, minted, added, bound, intents, claimed,
                  recMembers, recOwners>>
  BY DEF List, Joined, files, state, history
<1>2. pc[p] \in {"list", "join"} /\ pc'[p] \in {"join", "own"}
  BY DEF List, Joined, Goto, TypeOK
<1>3. cpub[p] = pub /\ csec[p] = secret BY <1>2 DEF KeepInv, LoadedOK
<1>4. todo'[p] \subseteq KeysOf(p) BY DEF List, Joined, TypeOK
<1>5. \A k \in todo'[p] : \E s \in Slots : pub[s] = k BY <1>3, <1>4 DEF KeysOf
<1>6. KeyAtHand' /\ NothingForgotten' /\ GrantsRecorded' /\ RestOK'
  BY <1>1 DEF KeepInv, KeyAtHand, NothingForgotten, GrantsRecorded, RestOK
<1>7. LoadedOK(p)' /\ CreatingOK(p)' BY <1>1, <1>2, <1>3 DEF LoadedOK, CreatingOK
<1>8. RegisteringOK(p)' BY <1>1, <1>2, <1>5 DEF KeepInv, RegisteringOK
<1> QED BY <1>6, <1>7, <1>8 DEF KeepInv

\* A command is recorded before it is given, unless it is for a key people brought.
LEMMA KeepNote ==
  ASSUME TypeOK, ValuesOK, NEW p \in Provisioners, KeepInv(p),
         RecordMember(p) \/ RecordOwner(p)
  PROVE  KeepInv(p)'
<1>1. /\ UNCHANGED <<pub, secret, cpub, csec, minted, added, bound, intents, claimed, todo>>
      /\ recMembers \subseteq recMembers' /\ recOwners \subseteq recOwners'
  BY DEF RecordMember, RecordOwner, files, history
<1>2. PICK k \in todo[p] :
        /\ target' = [target EXCEPT ![p] = k]
        /\ \/ /\ pc[p] = "join" /\ pc' = [pc EXCEPT ![p] = "add"]
              /\ recMembers' = recMembers \cup ({k} \cap claimed)
           \/ /\ pc[p] = "own" /\ pc' = [pc EXCEPT ![p] = "assign"]
              /\ recOwners' = recOwners \cup ({k} \cap claimed)
  BY DEF RecordMember, RecordOwner, Goto
<1>3. target'[p] = k BY <1>2 DEF TypeOK
<1>4. \/ pc[p] = "join" /\ pc'[p] = "add" /\ recMembers' = recMembers \cup ({k} \cap claimed)
      \/ pc[p] = "own" /\ pc'[p] = "assign" /\ recOwners' = recOwners \cup ({k} \cap claimed)
  BY <1>2 DEF TypeOK
<1>5. cpub[p] = pub /\ csec[p] = secret BY <1>4 DEF KeepInv, LoadedOK
<1>6. k \in claimed \cup Theirs
  <2>1. PICK s \in Slots : pub[s] = k BY <1>4 DEF KeepInv, RegisteringOK
  <2>2. k \in Keys BY DEF TypeOK
  <2>3. k \in minted \cup Theirs BY <2>1, <2>2, Bounds DEF ValuesOK, Known
  <2>4. pub[s] \in minted => pub[s] \in claimed BY <1>4 DEF KeepInv, RegisteringOK
  <2> QED BY <2>1, <2>3, <2>4
<1>7. KeyAtHand' /\ NothingForgotten' /\ GrantsRecorded' /\ RestOK'
  BY <1>1 DEF KeepInv, KeyAtHand, NothingForgotten, GrantsRecorded, RestOK
<1>8. LoadedOK(p)' /\ CreatingOK(p)' BY <1>1, <1>4, <1>5 DEF LoadedOK, CreatingOK
<1>9. RegisteringOK(p)'
  <2>1. \A s \in Slots : pub[s] \in minted => pub[s] \in claimed
    BY <1>4 DEF KeepInv, RegisteringOK
  <2>2. \A j \in todo[p] : \E s \in Slots : pub[s] = j
    BY <1>4 DEF KeepInv, RegisteringOK
  <2> QED BY <1>1, <1>3, <1>4, <1>6, <2>1, <2>2 DEF RegisteringOK
<1> QED BY <1>7, <1>8, <1>9 DEF KeepInv

\* A command takes effect for a key that is on record or that people brought.
LEMMA KeepCommand ==
  ASSUME TypeOK, ClaimsOnlyGenerated, NEW p \in Provisioners, KeepInv(p),
         AddMember(p) \/ AssignOwner(p)
  PROVE  KeepInv(p)'
<1>1. UNCHANGED <<pub, secret, cpub, csec, minted, intents, claimed, recMembers, recOwners>>
  BY DEF AddMember, AssignOwner, files, state
<1>2. \/ /\ pc[p] = "add" /\ added' = added \cup {target[p]} /\ bound' = bound
         /\ pc'[p] \in {"join", "idle"}
      \/ /\ pc[p] = "assign" /\ added' = added /\ bound' \subseteq bound \cup {target[p]}
         /\ pc'[p] \in {"own", "idle"}
  BY DEF AddMember, AssignOwner, Answered, Goto, TypeOK
<1>3. todo'[p] \subseteq todo[p]
  BY DEF AddMember, AssignOwner, Answered, TypeOK
<1>4. cpub[p] = pub /\ csec[p] = secret BY <1>2 DEF KeepInv, LoadedOK
<1>5. /\ pc[p] = "add" => target[p] \in recMembers \cup Theirs
      /\ pc[p] = "assign" => target[p] \in recOwners \cup Theirs
  BY DEF KeepInv, RegisteringOK
<1>6. minted \cap Theirs = {} BY DEF TypeOK
<1>7. GrantsRecorded'
  BY <1>1, <1>2, <1>5, <1>6 DEF KeepInv, GrantsRecorded
<1>8. RestOK'
  <2>1. target[p] \in minted \cup Theirs BY <1>2, <1>5 DEF ClaimsOnlyGenerated
  <2>2. added' \cup bound' \subseteq minted \cup Theirs
    BY <1>2, <2>1 DEF KeepInv, RestOK
  <2> QED BY <1>1, <2>2 DEF KeepInv, RestOK
<1>9. KeyAtHand' /\ NothingForgotten'
  BY <1>1 DEF KeepInv, KeyAtHand, NothingForgotten
<1>10. LoadedOK(p)' /\ CreatingOK(p)' BY <1>1, <1>2, <1>4 DEF LoadedOK, CreatingOK
<1>11. RegisteringOK(p)'
  <2>1. \A s \in Slots : pub[s] \in minted => pub[s] \in claimed
    BY <1>2 DEF KeepInv, RegisteringOK
  <2>2. \A j \in todo'[p] : \E s \in Slots : pub[s] = j
    BY <1>2, <1>3 DEF KeepInv, RegisteringOK
  <2> QED BY <1>1, <1>2, <2>1, <2>2 DEF RegisteringOK
<1> QED BY <1>7, <1>8, <1>9, <1>10, <1>11 DEF KeepInv

\* Starting, ending and giving up change nothing that is kept.
LEMMA KeepEnds ==
  ASSUME TypeOK, NEW p \in Provisioners, KeepInv(p),
         Enter(p) \/ Abort(p) \/ AssignRefused(p) \/ Done(p) \/ Fail(p)
  PROVE  KeepInv(p)'
<1>1. UNCHANGED <<files, cpub, csec, intents, claimed, recMembers, recOwners, minted, added,
                  bound>>
  BY DEF Enter, Abort, AssignRefused, Done, Fail, state, history
<1>2. pc'[p] \in {"idle", "load", "failed"} /\ (pc'[p] = "failed" => pc[p] = "assign")
  BY DEF Enter, Abort, AssignRefused, Done, Fail, Goto, TypeOK
<1> QED BY <1>1, <1>2, KeepMove

\* People write keys of theirs, while no run is under way.
LEMMA KeepPeople ==
  ASSUME EditsOverlap = FALSE, TypeOK, NEW p \in Provisioners, KeepInv(p), People
  PROVE  KeepInv(p)'
<1>1. UNCHANGED <<cpub, csec, gen, made, stage, text, todo, target, pc, minted, added, bound,
                  intents, claimed, recMembers, recOwners>>
  BY DEF People, TogglePane, Import, ImportBridge, Administer, state, run, history
<1>2. minted \cap Theirs = {} /\ Bridge \notin Ids BY Bounds DEF TypeOK
<1>3. CASE UNCHANGED files
  BY <1>1, <1>3 DEF KeepInv, KeyAtHand, NothingForgotten, GrantsRecorded, RestOK, LoadedOK,
     CreatingOK, RegisteringOK, files
<1>4. CASE ~ UNCHANGED files
  <2>1. PICK s \in Slots, k \in Theirs :
          /\ \A q \in Provisioners : pc[q] = "idle"
          /\ \/ s \in Ids /\ pub' = [pub EXCEPT ![s] = k] /\ secret' = secret
             \/ s = Bridge /\ secret' = [secret EXCEPT ![s] = k] /\ pub' = pub
                /\ pub[Bridge] = None
    BY <1>4 DEF People, TogglePane, Import, ImportBridge, Administer, Edits, Slots, files
  <2>2. \A t \in Slots : pub'[t] \in minted => /\ pub'[t] = pub[t] /\ secret'[t] = secret[t]
    BY <1>2, <2>1, Bounds DEF TypeOK
  <2>3. KeyAtHand' /\ NothingForgotten' /\ GrantsRecorded'
    BY <1>1, <2>2 DEF KeepInv, KeyAtHand, NothingForgotten, GrantsRecorded
  <2>4. RestOK'
    <3>1. pub'[Bridge] = pub[Bridge] /\ (secret'[Bridge] \in minted
                                          => secret'[Bridge] = secret[Bridge])
      BY <1>2, <2>1 DEF TypeOK, Slots
    <3> QED BY <1>1, <3>1 DEF KeepInv, RestOK
  <2>5. LoadedOK(p)' /\ CreatingOK(p)' /\ RegisteringOK(p)'
    BY <1>1, <2>1 DEF LoadedOK, CreatingOK, RegisteringOK
  <2> QED BY <2>3, <2>4, <2>5 DEF KeepInv
<1> QED BY <1>3, <1>4

\* Every step of a single run keeps what is to be kept.
LEMMA NextKeeps ==
  ASSUME EditsOverlap = FALSE, NEW p, Provisioners = {p}, ClaimsInv, SoloInv, [Next]_vars
  PROVE  SoloInv'
<1>1. TypeOK /\ TargetOK /\ ValuesOK /\ ClaimsOnlyGenerated BY DEF ClaimsInv
<1>2. TypeOK' /\ TargetOK' /\ ValuesOK' BY <1>1, NextType, NextTarget, NextValues
<1>3. KeepInv(p) /\ p \in Provisioners BY DEF SoloInv, KeepInv
<1>4. KeepInv(p)'
  <2>1. CASE Load(p) \/ Recover(p) \/ Intend(p) \/ Record(p) \/ ReadSecrets(p)
               \/ ReplaceSecrets(p) \/ ReadConfig(p) \/ ReplaceConfig(p) \/ Reload(p)
    BY <1>1, <1>3, <2>1, KeepLoad, KeepRecover, KeepIntend, KeepRecord, KeepRead,
       KeepReplaceSecrets, KeepReplaceConfig
  <2>2. CASE List(p) \/ RecordMember(p) \/ AddMember(p) \/ Joined(p) \/ RecordOwner(p)
               \/ AssignOwner(p)
    BY <1>1, <1>3, <2>2, KeepAsk, KeepNote, KeepCommand
  <2>3. CASE Pass(p) \/ Bootstrap(p) \/ AssignRefused(p) \/ Done(p) \/ Fail(p) \/ Abort(p)
    BY <1>1, <1>3, <2>3, KeepEnds DEF Pass, Bootstrap
  <2>4. CASE People BY <1>1, <1>3, <2>4, KeepPeople
  <2>5. CASE UNCHANGED vars
    BY <1>3, <2>5 DEF vars, files, state, run, history, KeepInv, KeyAtHand,
       NothingForgotten, GrantsRecorded, RestOK, LoadedOK, CreatingOK, RegisteringOK
  <2>6. (\E q \in Provisioners : Pass(q) \/ Bootstrap(q) \/ Work(q) \/ Abort(q))
          => Pass(p) \/ Bootstrap(p) \/ Work(p) \/ Abort(p)
    OBVIOUS
  <2> QED BY <2>1, <2>2, <2>3, <2>4, <2>5, <2>6 DEF Next, Work
<1>5. \A q \in Provisioners : q = p OBVIOUS
<1> QED BY <1>2, <1>4, <1>5 DEF SoloInv, KeepInv

\* The invariant of a single run, from the start.
LEMMA SoloInvHolds ==
  ASSUME EditsOverlap = FALSE, NEW p, Provisioners = {p}
  PROVE  Spec => []SoloInv
<1>1. Init => ClaimsInv BY InitClaims
<1>2. Init => SoloInv
  <2> SUFFICES ASSUME Init PROVE SoloInv
    OBVIOUS
  <2>1. TypeOK /\ TargetOK /\ ValuesOK BY <1>1 DEF ClaimsInv
  <2>2. Bridge \in Slots BY DEF Slots
  <2>3. KeyAtHand /\ NothingForgotten /\ GrantsRecorded /\ RestOK
    BY <2>2 DEF Init, KeyAtHand, NothingForgotten, GrantsRecorded, RestOK
  <2>4. \A q \in Provisioners : LoadedOK(q) /\ CreatingOK(q) /\ RegisteringOK(q)
    BY DEF Init, LoadedOK, CreatingOK, RegisteringOK
  <2> QED BY <2>1, <2>3, <2>4 DEF SoloInv
<1>3. ClaimsInv /\ [Next]_vars => ClaimsInv' BY NextClaimsInv
<1>4. ClaimsInv /\ SoloInv /\ [Next]_vars => SoloInv' BY NextKeeps
<1> QED BY <1>1, <1>2, <1>3, <1>4, PTL DEF Spec

\* One run at a time, whatever fails and whenever it is killed, never configures a
\* generated identity whose private key is not in the dotenv file, and no later run
\* writes over that key.
THEOREM KeyAtHandHolds ==
  ASSUME EditsOverlap = FALSE, NEW p, Provisioners = {p}
  PROVE  Spec => []KeyAtHand
<1>1. SoloInv => KeyAtHand BY DEF SoloInv
<1> QED BY <1>1, SoloInvHolds, PTL

\* One run at a time, whatever fails and whenever it is killed, forgets no identity it
\* generated: it is recorded, or its announcement is left for the next run.
THEOREM NothingForgottenHolds ==
  ASSUME EditsOverlap = FALSE, NEW p, Provisioners = {p}
  PROVE  Spec => []NothingForgotten
<1>1. SoloInv => NothingForgotten BY DEF SoloInv
<1> QED BY <1>1, SoloInvHolds, PTL

\* One run at a time, whatever answer is lost, gives a generated identity nothing on the
\* relay that it has not put on record before.
THEOREM GrantsRecordedHolds ==
  ASSUME EditsOverlap = FALSE, NEW p, Provisioners = {p}
  PROVE  Spec => []GrantsRecorded
<1>1. SoloInv => GrantsRecorded BY DEF SoloInv
<1> QED BY <1>1, SoloInvHolds, PTL

\* What is granted is on record.
LEMMA GrantedRecorded ==
  ASSUME TypeOK, ValuesOK, NothingForgotten, GrantsRecorded
  PROVE  Granted \subseteq Recorded
<1>1. \A s \in Slots : pub[s] \in minted => <<"identity", pub[s]>> \in Recorded
  <2> SUFFICES ASSUME NEW s \in Slots, pub[s] \in minted
               PROVE  pub[s] \in claimed \cup ({intents[t] : t \in Slots} \ {None})
    BY DEF Recorded
  <2> QED BY Bounds DEF NothingForgotten, TypeOK
<1>2. \A k \in added \cap minted : <<"relay", k>> \in Recorded
  BY DEF GrantsRecorded, Recorded
<1>3. \A k \in bound \cap minted : <<"ownership", k>> \in Recorded
  BY DEF GrantsRecorded, Recorded
<1> QED BY <1>1, <1>2, <1>3 DEF Granted

\* Keys of the future are granted nothing.
LEMMA IntendGrants ==
  ASSUME TypeOK, ValuesOK, RestOK, NEW p \in Provisioners, Intend(p)
  PROVE  Granted' = Granted
<1>1. UNCHANGED <<pub, added, bound>> BY DEF Intend, files
<1>2. PICK g \in [Planned(p) -> Keys \ (Theirs \cup minted)] :
        minted' = minted \cup {g[s] : s \in Planned(p)}
  BY DEF Intend
<1>3. minted' \cap {pub[s] : s \in Slots} = minted \cap {pub[s] : s \in Slots}
  BY <1>2, FreshKeys
<1>4. added \cap minted' = added \cap minted /\ bound \cap minted' = bound \cap minted
  BY <1>2 DEF RestOK
<1> QED BY <1>1, <1>3, <1>4 DEF Granted

\* The configuration a run writes has all that was in it.
LEMMA ReplaceGrants ==
  ASSUME TypeOK, NEW p \in Provisioners, LoadedOK(p), CreatingOK(p), ReplaceConfig(p)
  PROVE  Granted \subseteq Granted'
<1>1. /\ pc[p] = "replaceConfig" /\ text[p] = pub /\ UNCHANGED <<minted, added, bound>>
  BY DEF ReplaceConfig, LoadedOK, history
<1>2. \A s \in Slots : pub'[s] = Written(p, s) BY DEF ReplaceConfig
<1>3. \A s \in Slots : pub[s] \in minted => pub'[s] = pub[s]
  BY <1>1, <1>2, Bounds DEF Written, CreatingOK, TypeOK
<1>4. minted \cap {pub[s] : s \in Slots} \subseteq minted' \cap {pub'[s] : s \in Slots}
  BY <1>1, <1>3
<1> QED BY <1>1, <1>4 DEF Granted

\* People import keys of theirs only.
LEMMA PeopleGrants ==
  ASSUME TypeOK, People
  PROVE  Granted' = Granted
<1>1. UNCHANGED <<minted, added, bound>>
  BY DEF People, TogglePane, Import, ImportBridge, Administer, history
<1>2. minted \cap Theirs = {} /\ None \notin minted BY Bounds DEF TypeOK
<1>3. CASE pub' = pub BY <1>1, <1>3 DEF Granted
<1>4. CASE pub' # pub
  <2>1. PICK i \in Ids, k \in Theirs : pub[i] = None /\ pub' = [pub EXCEPT ![i] = k]
    BY <1>4 DEF People, TogglePane, Import, ImportBridge, Administer, files
  <2>2. \A s \in Slots : pub'[s] \in minted \/ pub[s] \in minted => pub'[s] = pub[s]
    BY <1>2, <2>1 DEF TypeOK
  <2>3. minted \cap {pub'[s] : s \in Slots} = minted \cap {pub[s] : s \in Slots}
    BY <2>2
  <2> QED BY <1>1, <2>3 DEF Granted
<1> QED BY <1>3, <1>4

\* Each step either writes the record or grants something.
LEMMA StepGrants ==
  ASSUME EditsOverlap = FALSE, NEW p, Provisioners = {p}, ClaimsInv, SoloInv, [Next]_vars
  PROVE  Granted' = Granted \/ (Recorded' = Recorded /\ Granted \subseteq Granted')
<1>1. TypeOK /\ ValuesOK /\ RestOK /\ LoadedOK(p) /\ CreatingOK(p) /\ p \in Provisioners
  BY DEF SoloInv
<1>2. CASE UNCHANGED <<pub, minted, added, bound>> BY <1>2 DEF Granted
<1>3. CASE Intend(p) BY <1>1, <1>3, IntendGrants
<1>4. CASE ReplaceConfig(p)
  <2>1. Recorded' = Recorded BY <1>4 DEF ReplaceConfig, Recorded, state
  <2> QED BY <1>1, <1>4, <2>1, ReplaceGrants
<1>5. CASE AddMember(p) \/ AssignOwner(p)
  <2>1. Recorded' = Recorded BY <1>5 DEF AddMember, AssignOwner, Recorded, state
  <2>2. /\ UNCHANGED <<pub, minted>>
        /\ added \subseteq added' /\ bound \subseteq bound'
    BY <1>5 DEF AddMember, AssignOwner, files
  <2> QED BY <2>1, <2>2 DEF Granted
<1>6. CASE People BY <1>1, <1>6, PeopleGrants
<1>7. CASE Load(p) \/ Recover(p) \/ Record(p) \/ ReadSecrets(p) \/ ReplaceSecrets(p)
             \/ ReadConfig(p) \/ Reload(p)
  BY <1>2, <1>7 DEF Load, Recover, Record, ReadSecrets, ReplaceSecrets, ReadConfig, Reload,
     files, history
<1>8. CASE List(p) \/ RecordMember(p) \/ Joined(p) \/ RecordOwner(p)
  BY <1>2, <1>8 DEF List, RecordMember, Joined, RecordOwner, files, history
<1>9. CASE Enter(p) \/ AssignRefused(p) \/ Done(p) \/ Fail(p) \/ Abort(p)
  BY <1>2, <1>9 DEF Enter, AssignRefused, Done, Fail, Abort, files, history
<1>10. CASE UNCHANGED vars BY <1>2, <1>10 DEF vars, files, history
<1>11. (\E q \in Provisioners : Pass(q) \/ Bootstrap(q) \/ Work(q) \/ Abort(q))
         => Enter(p) \/ Work(p) \/ Abort(p)
  BY DEF Pass, Bootstrap
<1> QED BY <1>3, <1>4, <1>5, <1>6, <1>7, <1>8, <1>9, <1>10, <1>11 DEF Next, Work

\* One run at a time implements the ledger: whenever it is killed and whatever answer is
\* lost, an identity, a membership or an ownership is on record before it exists, and as
\* long as it does.
THEOREM LedgerKeptHolds ==
  ASSUME EditsOverlap = FALSE, NEW p, Provisioners = {p}
  PROVE  Spec => LedgerKept
<1>1. ClaimsInv /\ SoloInv => Granted \subseteq Recorded
  BY GrantedRecorded DEF SoloInv
<1>2. Init => ClaimsInv BY InitClaims
<1>3. ClaimsInv /\ [Next]_vars => ClaimsInv' BY NextClaimsInv
<1>4. ClaimsInv /\ ClaimsInv' /\ SoloInv /\ SoloInv' /\ [Next]_vars
        => [L!Next]_<<Recorded, Granted>>
  <2> SUFFICES ASSUME ClaimsInv, SoloInv, [Next]_vars, ClaimsInv', SoloInv'
               PROVE  [L!Next]_<<Recorded, Granted>>
    OBVIOUS
  <2>1. Granted' = Granted \/ (Recorded' = Recorded /\ Granted \subseteq Granted')
    BY StepGrants
  <2>2. Granted \subseteq Recorded BY <1>1
  <2>3. Granted' \subseteq Recorded'
    <3>1. TypeOK' /\ ValuesOK' /\ NothingForgotten' /\ GrantsRecorded' BY DEF SoloInv
    <3>2. (TypeOK /\ ValuesOK /\ NothingForgotten /\ GrantsRecorded
             => Granted \subseteq Recorded)'
      BY <1>1, GrantedRecorded, PTL
    <3> QED BY <3>1, <3>2
  <2> QED BY <2>1, <2>2, <2>3 DEF L!Next, L!Write, L!Grant
<1>5. Granted \subseteq Recorded => L!Init BY DEF L!Init
<1> QED BY <1>1, <1>2, <1>3, <1>4, <1>5, SoloInvHolds, PTL DEF Spec, LedgerKept, L!Spec

============================================================================
