----------------------------- MODULE StoreProofs -----------------------------
(***************************************************************************)
(* Proofs about the state store, for any number of processes, lock files   *)
(* and updates.                                                            *)
(***************************************************************************)
EXTENDS StateStore, TLAPS

\* Places of a process that has loaded the document, and those after its next change of it.
Saving == {"save", "mark", "write", "rename"}
Loaded == {"inside"} \cup Saving

\* Until the local data are deleted state.lock stays the file it is, so who is within holds it.
LockInv ==
  ~over => \A p \in Processes :
             /\ pc[p] # "idle" => path # None /\ fd[p] = path
             /\ pc[p] \in Within => holder[path] = p

\* What a process has loaded is the document, less the update it is about to save.
CopyInv ==
  ~over => \A p \in Processes :
             /\ pc[p] = "inside" => copy[p] = doc.has
             /\ pc[p] \in Saving => \E u \in Updates : copy[p] = doc.has \cup {u}
             /\ pc[p] = "rename" => temp[p] = copy[p]

\* A damaged document is in nobody's hands.
DamageInv == doc.is = "damaged" => \A p \in Processes : pc[p] \notin Loaded

\* The lock file is only removed after the document.
DeletionInv == deleting # "no" => over

StoreInv == TypeOK /\ LockInv /\ CopyInv /\ DamageInv /\ DeletionInv

\* Until then the marker is only ever completed: who writes the document has seen it whole.
MarkerInv ==
  /\ ~over => \A p \in Processes :
                /\ pc[p] = "mark" => marker # "absent"
                /\ pc[p] \in {"write", "rename"} => marker = "valid"
  /\ MarkedWhenSaved

----------------------------------------------------------------------------
(* Types.                                                                  *)

\* What the assumption says of the bounds.
LEMMA Bounds == /\ MaxUpdates \in Nat /\ MaxCrashes \in Nat /\ MaxChanges \in Nat
                /\ None \notin Inodes /\ None \notin Processes
BY StoreAssumption

\* A process keeps the types.
LEMMA ProcessTypes ==
  ASSUME TypeOK, NEW p \in Processes,
         \/ Open(p) \/ Lock(p) \/ Load(p) \/ Change(p) \/ Return(p) \/ Unlock(p)
         \/ EnsureMarker(p) \/ WriteMarker(p) \/ Write(p) \/ Rename(p) \/ Crash(p)
  PROVE  TypeOK'
<1> USE DEF process
<1>0. MaxUpdates \in Nat /\ MaxCrashes \in Nat BY Bounds
<1>1. CASE Open(p)
  <2>1. path' \in Inodes \cup {None} /\ used' \subseteq Inodes /\ fd' = [fd EXCEPT ![p] = path']
    BY <1>1 DEF Open, TypeOK
  <2> QED BY <1>1, <2>1 DEF Open, Goto, TypeOK, Places
<1>2. CASE Lock(p) BY <1>2 DEF Lock, Goto, TypeOK, Places
<1>3. CASE Load(p)
  <2>1. doc.has \in SUBSET Updates BY DEF TypeOK, Docs
  <2>2. pc' \in [Processes -> Places] /\ copy' \in [Processes -> SUBSET Updates]
    BY <1>3, <2>1 DEF Load, Goto, TypeOK, Places
  <2> QED BY <1>3, <2>2 DEF Load, TypeOK
<1>4. CASE Change(p)
  <2>1. count[p] \in 0..MaxUpdates /\ count[p] < MaxUpdates BY <1>4 DEF Change, TypeOK
  <2>2. count[p] + 1 \in 1..MaxUpdates BY <1>0, <2>1
  <2>3. <<p, count[p] + 1>> \in Updates BY <2>2 DEF Updates
  <2>4. count' \in [Processes -> 0..MaxUpdates]
    <3>1. count' = [count EXCEPT ![p] = count[p] + 1] BY <1>4 DEF Change
    <3>2. count[p] + 1 \in 0..MaxUpdates BY <1>0, <2>2
    <3> QED BY <3>1, <3>2 DEF TypeOK
  <2>5. copy' \in [Processes -> SUBSET Updates]
    <3>1. copy' = [copy EXCEPT ![p] = copy[p] \cup {<<p, count[p] + 1>>}] BY <1>4 DEF Change
    <3> QED BY <2>3, <3>1 DEF TypeOK
  <2> QED BY <1>4, <2>4, <2>5 DEF Change, Goto, TypeOK, Places
<1>5. CASE Return(p) BY <1>5 DEF Return, Goto, TypeOK, Places
<1>6. CASE Unlock(p) BY <1>6 DEF Unlock, Goto, TypeOK, Places
<1>7. CASE EnsureMarker(p)
  <2>1. PICK l \in {"mark", "unlock", "write"} : pc' = [pc EXCEPT ![p] = l]
    BY <1>7 DEF EnsureMarker, Goto
  <2> QED BY <1>7, <2>1 DEF EnsureMarker, TypeOK, Places
<1>8. CASE WriteMarker(p) BY <1>8 DEF WriteMarker, Goto, TypeOK, Places
<1>9. CASE Write(p) BY <1>9 DEF Write, Goto, TypeOK, Places
<1>10. CASE Rename(p)
  <2>1. doc' \in Docs BY <1>10 DEF Rename, TypeOK, Docs
  <2> QED BY <1>10, <2>1 DEF Rename, Goto, TypeOK, Places
<1>11. CASE Crash(p) BY <1>0, <1>11 DEF Crash, Goto, TypeOK, Places
<1> QED BY <1>1, <1>2, <1>3, <1>4, <1>5, <1>6, <1>7, <1>8, <1>9, <1>10, <1>11

\* So do the deletion and people.
LEMMA OtherTypes ==
  ASSUME TypeOK, DeleteState \/ DeleteLock \/ DeleteMarker \/ Damage \/ Remove
  PROVE  TypeOK'
<1> USE DEF process
<1>0. MaxChanges \in Nat /\ Missing \in Docs BY Bounds DEF Missing, Docs
<1>1. CASE DeleteState BY <1>0, <1>1 DEF DeleteState, TypeOK
<1>2. CASE DeleteLock BY <1>2 DEF DeleteLock, TypeOK
<1>3. CASE DeleteMarker BY <1>3 DEF DeleteMarker, TypeOK
<1>4. CASE Damage
  <2>1. doc' \in Docs BY <1>4 DEF Damage, TypeOK, Docs
  <2> QED BY <1>0, <1>4, <2>1 DEF Damage, Edits, TypeOK
<1>5. CASE Remove BY <1>0, <1>5 DEF Remove, Edits, TypeOK
<1> QED BY <1>1, <1>2, <1>3, <1>4, <1>5

----------------------------------------------------------------------------
(* The lock.                                                               *)

\* Only one process at a time is between lock and unlock.
LEMMA OneWithin ==
  ASSUME LockInv, ~over, NEW p \in Processes, NEW q \in Processes,
         pc[p] \in Within, pc[q] \in Within
  PROVE  p = q
BY DEF LockInv

\* A step of a process keeps the lock.
LEMMA ProcessLock ==
  ASSUME TypeOK, LockInv, NEW p \in Processes,
         \/ Open(p) \/ Lock(p) \/ Load(p) \/ Change(p) \/ Return(p) \/ Unlock(p)
         \/ EnsureMarker(p) \/ WriteMarker(p) \/ Write(p) \/ Rename(p) \/ Crash(p)
  PROVE  LockInv'
<1> USE DEF process, Goto
<1>0. over' = over
  BY DEF Open, Lock, Load, Change, Return, Unlock, EnsureMarker, WriteMarker, Write, Rename, Crash
<1> SUFFICES ASSUME ~over, NEW q \in Processes
             PROVE  /\ pc'[q] # "idle" => path' # None /\ fd'[q] = path'
                    /\ pc'[q] \in Within => holder'[path'] = q
  BY <1>0 DEF LockInv
<1>1. /\ pc[q] # "idle" => path # None /\ fd[q] = path
      /\ pc[q] \in Within => holder[path] = q
      /\ pc[p] # "idle" => path # None /\ fd[p] = path
      /\ pc[p] \in Within => holder[path] = p
  BY DEF LockInv
<1>2. /\ pc \in [Processes -> Places] /\ fd \in [Processes -> Inodes \cup {None}]
      /\ holder \in [Inodes -> Processes \cup {None}] /\ path \in Inodes \cup {None}
      /\ None \notin Inodes /\ None \notin Processes
  BY Bounds DEF TypeOK
<1>3. CASE Open(p)
  <2>1. path' # None /\ (path # None => path' = path) BY <1>2, <1>3 DEF Open
  <2>2. fd' = [fd EXCEPT ![p] = path'] /\ pc' = [pc EXCEPT ![p] = "open"] /\ holder' = holder
    BY <1>3 DEF Open
  <2>3. CASE q = p BY <1>2, <2>1, <2>2, <2>3 DEF Within
  <2>4. CASE q # p
    <3>1. pc'[q] = pc[q] /\ fd'[q] = fd[q] BY <1>2, <2>2, <2>4
    <3> QED BY <1>1, <2>1, <2>2, <3>1 DEF Within
  <2> QED BY <2>3, <2>4
<1>4. CASE Lock(p)
  <2>1. pc[p] = "open" /\ holder[fd[p]] = None /\ holder' = [holder EXCEPT ![fd[p]] = p]
        /\ pc' = [pc EXCEPT ![p] = "locked"] /\ path' = path /\ fd' = fd
    BY <1>4 DEF Lock
  <2>2. fd[p] = path /\ path \in Inodes BY <1>1, <1>2, <2>1
  <2>3. CASE q = p BY <1>2, <2>1, <2>2, <2>3
  <2>4. CASE q # p
    <3>1. pc'[q] = pc[q] BY <1>2, <2>1, <2>4
    <3>2. pc[q] \notin Within BY <1>1, <1>2, <2>1, <2>2
    <3> QED BY <1>1, <2>1, <3>1, <3>2
  <2> QED BY <2>3, <2>4
<1>5. CASE Unlock(p)
  <2>1. pc[p] = "unlock" /\ pc' = [pc EXCEPT ![p] = "idle"] /\ path' = path /\ fd' = fd
        /\ holder' = [holder EXCEPT ![fd[p]] = IF holder[fd[p]] = p THEN None ELSE holder[fd[p]]]
    BY <1>5 DEF Unlock
  <2>2. pc[p] \in Within BY <2>1 DEF Within, Places
  <2>3. CASE q = p BY <1>2, <2>1, <2>3 DEF Within
  <2>4. CASE q # p
    <3>1. pc'[q] = pc[q] BY <1>2, <2>1, <2>4
    <3>2. pc[q] \notin Within BY <1>1, <2>2, <2>4
    <3> QED BY <1>1, <2>1, <3>1, <3>2
  <2> QED BY <2>3, <2>4
<1>6. CASE Crash(p)
  <2>1. pc' = [pc EXCEPT ![p] = "idle"] /\ path' = path /\ fd' = fd
        /\ holder' = [i \in Inodes |-> IF holder[i] = p THEN None ELSE holder[i]]
    BY <1>6 DEF Crash
  <2>2. CASE q = p BY <1>2, <2>1, <2>2 DEF Within
  <2>3. CASE q # p
    <3>1. pc'[q] = pc[q] BY <1>2, <2>1, <2>3
    <3>2. pc[q] \in Within => path \in Inodes BY <1>1, <1>2 DEF Within
    <3> QED BY <1>1, <2>1, <2>3, <3>1, <3>2
  <2> QED BY <2>2, <2>3
<1>7. CASE \/ Load(p) \/ Change(p) \/ Return(p) \/ EnsureMarker(p) \/ WriteMarker(p)
           \/ Write(p) \/ Rename(p)
  <2>1. pc[p] \in Within /\ UNCHANGED <<path, fd, holder>>
    BY <1>7 DEF Load, Change, Return, EnsureMarker, WriteMarker, Write, Rename, Within, Places
  <2>2. \E l : pc' = [pc EXCEPT ![p] = l]
    BY <1>7 DEF Load, Change, Return, EnsureMarker, WriteMarker, Write, Rename
  <2>3. q # p => pc'[q] = pc[q] BY <1>2, <2>2
  <2>4. pc[p] # "idle" BY <2>1 DEF Within
  <2>5. CASE q = p BY <1>1, <2>1, <2>4, <2>5
  <2>6. CASE q # p BY <1>1, <2>1, <2>3, <2>6
  <2> QED BY <2>5, <2>6
<1> QED BY <1>3, <1>4, <1>5, <1>6, <1>7

----------------------------------------------------------------------------
(* The document.                                                           *)

\* What a process has in its hands is the document, and never a damaged one.
LEMMA ProcessCopy ==
  ASSUME StoreInv, NEW p \in Processes,
         \/ Open(p) \/ Lock(p) \/ Load(p) \/ Change(p) \/ Return(p) \/ Unlock(p)
         \/ EnsureMarker(p) \/ WriteMarker(p) \/ Write(p) \/ Rename(p) \/ Crash(p)
  PROVE  CopyInv' /\ DamageInv'
<1> USE DEF process, Goto
<1>0. /\ pc \in [Processes -> Places] /\ copy \in [Processes -> SUBSET Updates]
      /\ temp \in [Processes -> SUBSET Updates]
      /\ LockInv /\ CopyInv /\ DamageInv /\ TypeOK
  BY DEF StoreInv, TypeOK
<1>1. over' = over
  BY DEF Open, Lock, Load, Change, Return, Unlock, EnsureMarker, WriteMarker, Write, Rename, Crash
<1>2. PICK l : pc' = [pc EXCEPT ![p] = l]
  BY DEF Open, Lock, Load, Change, Return, Unlock, EnsureMarker, WriteMarker, Write, Rename, Crash
<1>3. pc'[p] = l /\ \A q \in Processes \ {p} : pc'[q] = pc[q] BY <1>0, <1>2
<1>4. \A q \in Processes \ {p} : copy'[q] = copy[q]
  BY <1>0 DEF Open, Lock, Load, Change, Return, Unlock, EnsureMarker, WriteMarker, Write, Rename, Crash
<1>5. \A q \in Processes \ {p} : temp'[q] = temp[q]
  BY <1>0 DEF Open, Lock, Load, Change, Return, Unlock, EnsureMarker, WriteMarker, Write, Rename, Crash
<1>6. doc' = doc \/ Rename(p)
  BY DEF Open, Lock, Load, Change, Return, Unlock, EnsureMarker, WriteMarker, Write, Crash
<1>7. ASSUME Rename(p) PROVE l = "inside" /\ pc[p] = "rename" /\ doc' = [is |-> "intact", has |-> temp[p]]
                             /\ copy' = copy
  BY <1>0, <1>3, <1>7 DEF Rename
<1>8. Loaded \subseteq Within BY DEF Loaded, Saving, Within, Places
<1>9. DamageInv'
  <2> SUFFICES ASSUME doc'.is = "damaged", NEW q \in Processes PROVE pc'[q] \notin Loaded
    BY DEF DamageInv
  <2>1. doc' = doc BY <1>6, <1>7
  <2>2. \A r \in Processes : pc[r] \notin Loaded BY <1>0, <2>1 DEF DamageInv
  <2>3. l \notin Loaded
    <3>1. pc[p] \notin {"inside", "save", "mark", "write", "rename"}
      BY <2>2 DEF Loaded, Saving
    <3>2. Open(p) \/ Lock(p) \/ Load(p) \/ Unlock(p) \/ Crash(p)
      BY <3>1 DEF Change, Return, EnsureMarker, WriteMarker, Write, Rename
    <3>3. pc'[p] \in {"open", "locked", "unlock", "idle"}
      BY <1>0, <2>1, <3>2 DEF Open, Lock, Load, Unlock, Crash
    <3> QED BY <1>3, <3>3 DEF Loaded, Saving
  <2> QED BY <1>3, <2>2, <2>3
<1>10. CopyInv'
  <2> SUFFICES ASSUME ~over, NEW q \in Processes
               PROVE  /\ pc'[q] = "inside" => copy'[q] = doc'.has
                      /\ pc'[q] \in Saving => \E u \in Updates : copy'[q] = doc'.has \cup {u}
                      /\ pc'[q] = "rename" => temp'[q] = copy'[q]
    BY <1>1 DEF CopyInv
  <2>1. \A r \in Processes :
             /\ pc[r] = "inside" => copy[r] = doc.has
             /\ pc[r] \in Saving => \E u \in Updates : copy[r] = doc.has \cup {u}
             /\ pc[r] = "rename" => temp[r] = copy[r]
    BY <1>0 DEF CopyInv
  <2>2. CASE q # p
    <3>1. pc'[q] = pc[q] /\ copy'[q] = copy[q] /\ temp'[q] = temp[q] BY <1>3, <1>4, <1>5, <2>2
    <3>2. CASE doc' = doc BY <2>1, <3>1, <3>2
    <3>3. CASE Rename(p)
      <4>1. pc[p] \in Within BY <1>7, <3>3 DEF Within, Places
      <4>2. pc[q] \notin Within BY <1>0, <2>2, <4>1, OneWithin
      <4> QED BY <1>8, <3>1, <4>2 DEF Loaded, Saving
    <3> QED BY <1>6, <3>2, <3>3
  <2>3. CASE q = p
    <3>1. CASE Rename(p)
      <4>1. temp[p] = copy[p] BY <1>7, <2>1, <3>1
      <4> QED BY <1>3, <1>7, <2>3, <3>1, <4>1 DEF Saving
    <3>2. CASE Load(p)
      <4>1. doc' = doc /\ pc'[p] \in {"unlock", "inside"}
            /\ (pc'[p] = "inside" => copy'[p] = doc.has)
        BY <1>0, <3>2 DEF Load
      <4> QED BY <2>3, <4>1 DEF Saving
    <3>3. CASE Change(p)
      <4>1. /\ pc[p] = "inside" /\ pc'[p] = "save" /\ doc' = doc
            /\ copy'[p] = copy[p] \cup {<<p, count[p] + 1>>}
        BY <1>0, <3>3 DEF Change
      <4>2. <<p, count[p] + 1>> \in Updates
        <5>1. count[p] \in 0..MaxUpdates /\ count[p] < MaxUpdates /\ MaxUpdates \in Nat
          BY <1>0, <3>3, Bounds DEF Change, TypeOK
        <5>2. count[p] + 1 \in 1..MaxUpdates BY <5>1
        <5> QED BY <5>2 DEF Updates
      <4> QED BY <2>1, <2>3, <4>1, <4>2
    <3>4. CASE EnsureMarker(p) \/ WriteMarker(p)
      <4>1. /\ pc[p] \in Saving /\ pc'[p] \in {"mark", "write", "unlock"}
            /\ UNCHANGED <<doc, copy, temp>>
        BY <1>0, <3>4 DEF EnsureMarker, WriteMarker, Saving
      <4> QED BY <2>1, <2>3, <4>1
    <3>5. CASE Write(p)
      <4>1. /\ pc[p] = "write" /\ pc'[p] = "rename" /\ UNCHANGED <<doc, copy>>
            /\ temp'[p] = copy[p]
        BY <1>0, <3>5 DEF Write
      <4> QED BY <2>1, <2>3, <4>1 DEF Saving
    <3>6. CASE Open(p) \/ Lock(p) \/ Return(p) \/ Unlock(p) \/ Crash(p)
      <4>1. pc'[p] \in {"open", "locked", "unlock", "idle"}
        BY <1>0, <3>6 DEF Open, Lock, Return, Unlock, Crash
      <4> QED BY <2>3, <4>1 DEF Saving
    <3> QED BY <3>1, <3>2, <3>3, <3>4, <3>5, <3>6
  <2> QED BY <2>2, <2>3
<1> QED BY <1>9, <1>10

----------------------------------------------------------------------------
(* The invariant and what follows.                                         *)

\* Every step keeps it.
LEMMA StoreNext == StoreInv /\ [Next]_vars => StoreInv'
<1> SUFFICES ASSUME StoreInv, [Next]_vars PROVE StoreInv' OBVIOUS
<1> USE DEF process
<1>0. TypeOK /\ LockInv /\ CopyInv /\ DamageInv /\ DeletionInv BY DEF StoreInv
<1>1. CASE \E p \in Processes :
             \/ Open(p) \/ Lock(p) \/ Load(p) \/ Change(p) \/ Return(p) \/ Unlock(p)
             \/ EnsureMarker(p) \/ WriteMarker(p) \/ Write(p) \/ Rename(p) \/ Crash(p)
  <2>1. PICK p \in Processes :
             \/ Open(p) \/ Lock(p) \/ Load(p) \/ Change(p) \/ Return(p) \/ Unlock(p)
             \/ EnsureMarker(p) \/ WriteMarker(p) \/ Write(p) \/ Rename(p) \/ Crash(p)
    BY <1>1
  <2>2. UNCHANGED <<deleting, over>>
    BY <2>1 DEF Open, Lock, Load, Change, Return, Unlock, EnsureMarker, WriteMarker, Write, Rename,
                Crash
  <2>3. DeletionInv' BY <1>0, <2>2 DEF DeletionInv
  <2> QED BY <1>0, <2>1, <2>3, ProcessTypes, ProcessLock, ProcessCopy DEF StoreInv
<1>2. CASE DeleteState
  <2>1. TypeOK' BY <1>0, <1>2, OtherTypes
  <2>2. over' = TRUE /\ doc'.is # "damaged" BY <1>2 DEF DeleteState, Missing
  <2> QED BY <2>1, <2>2 DEF StoreInv, LockInv, CopyInv, DamageInv, DeletionInv
<1>3. CASE DeleteLock \/ DeleteMarker
  <2>1. TypeOK' BY <1>0, <1>3, OtherTypes
  <2>2. UNCHANGED <<doc, holder, pc, fd, copy, temp, over>> BY <1>3 DEF DeleteLock, DeleteMarker
  <2>3. CopyInv' /\ DamageInv' BY <1>0, <2>2 DEF CopyInv, DamageInv
  <2>4. CASE over BY <2>1, <2>2, <2>3, <2>4 DEF StoreInv, LockInv, DeletionInv
  <2>5. ASSUME ~over PROVE FALSE
    <3>1. deleting = "no" BY <1>0, <2>5 DEF DeletionInv
    <3> QED BY <1>3, <3>1 DEF DeleteLock, DeleteMarker
  <2> QED BY <2>4, <2>5
<1>4. CASE Damage \/ Remove
  <2>1. TypeOK' BY <1>0, <1>4, OtherTypes
  <2>2. /\ UNCHANGED <<path, holder, pc, fd, copy, temp, over>>
        /\ \A p \in Processes : pc[p] \notin Within
    BY <1>4 DEF Damage, Remove, Edits
  <2>3. Loaded \subseteq Within BY DEF Loaded, Saving, Within, Places
  <2>4. LockInv' BY <1>0, <2>2 DEF LockInv
  <2>5. CopyInv' /\ DamageInv' BY <2>2, <2>3 DEF CopyInv, DamageInv, Loaded, Saving
  <2>6. DeletionInv' BY <1>0, <1>4 DEF Damage, Remove, DeletionInv
  <2> QED BY <2>1, <2>4, <2>5, <2>6 DEF StoreInv
<1>5. CASE UNCHANGED vars
  <2>1. TypeOK' BY <1>0, <1>5 DEF TypeOK, vars
  <2>2. LockInv' BY <1>0, <1>5 DEF LockInv, vars
  <2>3. CopyInv' /\ DamageInv' BY <1>0, <1>5 DEF CopyInv, DamageInv, vars
  <2>4. DeletionInv' BY <1>0, <1>5 DEF DeletionInv, vars
  <2> QED BY <2>1, <2>2, <2>3, <2>4 DEF StoreInv
<1> QED BY <1>1, <1>2, <1>3, <1>4, <1>5 DEF Next

\* It holds at the start, hence always.
THEOREM StoreInvariant == Spec => []StoreInv
<1>1. Init => StoreInv
  <2> SUFFICES ASSUME Init PROVE StoreInv OBVIOUS
  <2>1. TypeOK
    <3>1. 0 \in 0..MaxUpdates /\ 0 \in 0..MaxCrashes /\ 0 \in 0..MaxChanges BY Bounds
    <3>2. Missing \in Docs BY DEF Missing, Docs
    <3> QED BY <3>1, <3>2 DEF Init, TypeOK, Places
  <2>2. /\ doc.is = "missing" /\ deleting = "no" /\ \A p \in Processes : pc[p] = "idle"
    BY DEF Init, Missing
  <2>3. LockInv BY <2>2 DEF LockInv, Within
  <2>4. CopyInv /\ DamageInv /\ DeletionInv
    BY <2>2 DEF CopyInv, DamageInv, DeletionInv, Saving
  <2> QED BY <2>1, <2>3, <2>4 DEF StoreInv
<1> QED BY <1>1, StoreNext, PTL DEF Spec

\* Every variable keeps its type, for any number of processes, lock files and updates.
THEOREM StoreTypeCorrect == Spec => []TypeOK
<1>1. StoreInv => TypeOK BY DEF StoreInv
<1> QED BY <1>1, StoreInvariant, PTL

\* A step of a process keeps the marker beside the document.
LEMMA ProcessMarker ==
  ASSUME TypeOK, MarkerInv, NEW p \in Processes,
         \/ Open(p) \/ Lock(p) \/ Load(p) \/ Change(p) \/ Return(p) \/ Unlock(p)
         \/ EnsureMarker(p) \/ WriteMarker(p) \/ Write(p) \/ Rename(p) \/ Crash(p)
  PROVE  MarkerInv'
<1> USE DEF process, Goto
<1>0. over' = over /\ pc \in [Processes -> Places]
  BY DEF TypeOK, Open, Lock, Load, Change, Return, Unlock, EnsureMarker, WriteMarker, Write, Rename,
         Crash
<1> SUFFICES ASSUME ~over
             PROVE  /\ \A q \in Processes :
                           /\ pc'[q] = "mark" => marker' # "absent"
                           /\ pc'[q] \in {"write", "rename"} => marker' = "valid"
                    /\ doc'.is = "intact" => marker' = "valid"
  BY <1>0 DEF MarkerInv, MarkedWhenSaved
<1>1. /\ \A q \in Processes :
            /\ pc[q] = "mark" => marker # "absent"
            /\ pc[q] \in {"write", "rename"} => marker = "valid"
      /\ doc.is = "intact" => marker = "valid"
  BY DEF MarkerInv, MarkedWhenSaved
<1>2. PICK l : pc' = [pc EXCEPT ![p] = l]
  BY DEF Open, Lock, Load, Change, Return, Unlock, EnsureMarker, WriteMarker, Write, Rename, Crash
<1>3. pc'[p] = l /\ \A q \in Processes \ {p} : pc'[q] = pc[q] BY <1>0, <1>2
<1>4. (marker # "absent" => marker' # "absent") /\ (marker = "valid" => marker' = "valid")
  BY DEF Open, Lock, Load, Change, Return, Unlock, EnsureMarker, WriteMarker, Write, Rename, Crash
<1>5. (l = "mark" => marker' # "absent") /\ (l \in {"write", "rename"} => marker' = "valid")
  <2>1. CASE EnsureMarker(p)
    <3>1. pc[p] = "save" /\ marker \in {"absent", "created", "valid"} BY <2>1 DEF EnsureMarker, TypeOK
    <3> QED BY <1>0, <1>2, <2>1, <3>1 DEF EnsureMarker
  <2>2. CASE WriteMarker(p)
    <3>1. marker' = "valid" BY <1>1, <2>2 DEF WriteMarker
    <3> QED BY <3>1
  <2>3. CASE Write(p)
    <3>1. marker' = "valid" BY <1>1, <2>3 DEF Write
    <3> QED BY <3>1
  <2>4. CASE Open(p) \/ Lock(p) \/ Load(p) \/ Change(p) \/ Return(p) \/ Unlock(p) \/ Rename(p)
             \/ Crash(p)
    <3>1. pc'[p] \in {"open", "locked", "inside", "save", "unlock", "idle"}
      BY <1>0, <2>4 DEF Open, Lock, Load, Change, Return, Unlock, Rename, Crash
    <3> QED BY <1>3, <3>1
  <2> QED BY <2>1, <2>2, <2>3, <2>4
<1>6. doc'.is = "intact" => marker' = "valid"
  <2>1. CASE Rename(p) BY <1>1, <1>4, <2>1 DEF Rename
  <2>2. CASE doc' = doc BY <1>1, <1>4, <2>2
  <2> QED BY <2>1, <2>2
          DEF Open, Lock, Load, Change, Return, Unlock, EnsureMarker, WriteMarker, Write, Crash
<1> QED BY <1>1, <1>3, <1>4, <1>5, <1>6

\* Every other step keeps it too.
LEMMA MarkerNext == StoreInv /\ MarkerInv /\ [Next]_vars => MarkerInv'
<1> SUFFICES ASSUME StoreInv, MarkerInv, [Next]_vars PROVE MarkerInv' OBVIOUS
<1> USE DEF process
<1>1. TypeOK /\ DeletionInv BY DEF StoreInv
<1>2. CASE \E p \in Processes :
             \/ Open(p) \/ Lock(p) \/ Load(p) \/ Change(p) \/ Return(p) \/ Unlock(p)
             \/ EnsureMarker(p) \/ WriteMarker(p) \/ Write(p) \/ Rename(p) \/ Crash(p)
  BY <1>1, <1>2, ProcessMarker
<1>3. CASE DeleteState BY <1>3 DEF DeleteState, MarkerInv, MarkedWhenSaved
<1>4. CASE DeleteLock \/ DeleteMarker
  <2>1. over /\ over' = over BY <1>1, <1>4 DEF DeletionInv, DeleteLock, DeleteMarker
  <2> QED BY <2>1 DEF MarkerInv, MarkedWhenSaved
<1>5. CASE Damage \/ Remove
  <2>1. UNCHANGED <<marker, pc, over>> BY <1>5 DEF Damage, Remove
  <2>2. doc'.is # "intact"
    <3>1. doc \in Docs BY <1>1 DEF TypeOK
    <3> QED BY <1>5, <3>1 DEF Damage, Remove, Missing, Docs
  <2> QED BY <2>1, <2>2 DEF MarkerInv, MarkedWhenSaved
<1>6. CASE UNCHANGED vars BY <1>6 DEF vars, MarkerInv, MarkedWhenSaved
<1> QED BY <1>2, <1>3, <1>4, <1>5, <1>6 DEF Next

\* Whatever is killed on the way, a saved document has a whole marker until it is deleted.
THEOREM MarkedWhenSavedHolds == Spec => []MarkedWhenSaved
<1>1. Init => MarkerInv BY DEF Init, Missing, MarkerInv, MarkedWhenSaved
<1>2. MarkerInv => MarkedWhenSaved BY DEF MarkerInv
<1> QED BY <1>1, <1>2, StoreInvariant, MarkerNext, PTL DEF Spec

\* What cannot be read is never replaced by a new document, by any of the processes.
THEOREM FailClosedHolds == Spec => FailClosed
<1>1. ASSUME StoreInv, [Next]_vars, doc.is = "damaged" PROVE doc'.is # "intact"
  <2> USE DEF process
  <2>1. \A p \in Processes : ~Rename(p)
    BY <1>1 DEF StoreInv, DamageInv, Loaded, Saving, Rename
  <2>2. CASE \E p \in Processes :
               \/ Open(p) \/ Lock(p) \/ Load(p) \/ Change(p) \/ Return(p) \/ Unlock(p)
               \/ EnsureMarker(p) \/ WriteMarker(p) \/ Write(p) \/ Rename(p) \/ Crash(p)
    <3>1. doc' = doc
      BY <2>1, <2>2 DEF Open, Lock, Load, Change, Return, Unlock, EnsureMarker, WriteMarker,
                        Write, Crash
    <3> QED BY <1>1, <3>1
  <2>3. CASE DeleteState \/ DeleteLock \/ DeleteMarker \/ Remove
    BY <1>1, <2>3 DEF DeleteState, DeleteLock, DeleteMarker, Remove, Missing
  <2>4. CASE Damage
    <3>1. doc \in Docs /\ doc' = [doc EXCEPT !.is = "damaged"]
      BY <1>1, <2>4 DEF Damage, StoreInv, TypeOK
    <3> QED BY <3>1 DEF Docs
  <2>5. CASE UNCHANGED vars BY <1>1, <2>5 DEF vars
  <2> QED BY <1>1, <2>2, <2>3, <2>4, <2>5 DEF Next
<1>2. StoreInv /\ [Next]_vars => [doc.is = "damaged" => doc'.is # "intact"]_vars BY <1>1
<1> QED BY <1>2, StoreInvariant, PTL DEF Spec, FailClosed

\* Every step of the store is a transaction or none.
LEMMA StoreRefines ==
  ASSUME StoreInv, [Next]_vars
  PROVE  [T!Next]_<<doc, over>>
<1> USE DEF process, T!Next
<1>0. TypeOK /\ LockInv /\ CopyInv /\ DamageInv /\ StoreInv' BY StoreNext DEF StoreInv
<1>1. CASE \E p \in Processes :
             \/ Open(p) \/ Lock(p) \/ Load(p) \/ Change(p) \/ Return(p) \/ Unlock(p)
             \/ EnsureMarker(p) \/ WriteMarker(p) \/ Write(p) \/ Crash(p)
  BY <1>1 DEF Open, Lock, Load, Change, Return, Unlock, EnsureMarker, WriteMarker, Write, Crash
<1>2. CASE over /\ over'
  <2>1. doc' \in Docs BY <1>0 DEF StoreInv, TypeOK
  <2>2. over' = over BY <1>0, <1>2 DEF StoreInv, TypeOK
  <2> QED BY <1>2, <2>1, <2>2 DEF T!Afterwards, T!Docs, Docs
<1>3. ASSUME ~over, NEW p \in Processes, Rename(p) PROVE \E u \in Updates : T!Update(u)
  <2>1. pc[p] = "rename" /\ doc' = [is |-> "intact", has |-> temp[p]] /\ over' = over
    BY <1>3 DEF Rename
  <2>2. PICK u \in Updates : copy[p] = doc.has \cup {u}
    BY <1>0, <1>3, <2>1 DEF CopyInv, Saving
  <2>3. temp[p] = copy[p] BY <1>0, <1>3, <2>1 DEF CopyInv
  <2>4. doc.is # "damaged" BY <1>0, <2>1 DEF DamageInv, Loaded, Saving
  <2> QED BY <1>3, <2>1, <2>2, <2>3, <2>4 DEF T!Update
<1>4. CASE ~over /\ DeleteState
  BY <1>4 DEF DeleteState, T!Delete, Missing, T!Missing
<1>5. CASE DeleteLock \/ DeleteMarker BY <1>5 DEF DeleteLock, DeleteMarker
<1>6. CASE ~over /\ Damage BY <1>6 DEF Damage, T!Damage
<1>7. CASE ~over /\ Remove BY <1>7 DEF Remove, T!Remove, Missing, T!Missing
<1>8. CASE UNCHANGED vars BY <1>8 DEF vars
<1>9. over => over'
  BY DEF Next, vars, Open, Lock, Load, Change, Return, Unlock, EnsureMarker, WriteMarker, Write,
         Rename, Crash, DeleteState, DeleteLock, DeleteMarker, Damage, Remove
<1> QED BY <1>1, <1>2, <1>3, <1>4, <1>5, <1>6, <1>7, <1>8, <1>9 DEF Next

\* The store implements transactions: with any number of processes, killed between any two
\* steps, each save adds one update to all that were saved before.
THEOREM SerializedHolds == Spec => Serialized
<1>1. Init => T!Init BY DEF Init, T!Init, Missing, T!Missing
<1>2. StoreInv /\ [Next]_vars => [T!Next]_<<doc, over>> BY StoreRefines
<1> QED BY <1>1, <1>2, StoreInvariant, PTL DEF Spec, Serialized, T!Spec
=============================================================================
