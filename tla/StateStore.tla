----------------------------- MODULE StateStore -----------------------------
(***************************************************************************)
(* state.json (src/src/state.rs): processes that change it lock            *)
(* state.lock, load the file, and replace it once or more before they      *)
(* unlock; a process killed on the way loses the lock and leaves the file  *)
(* as it is.  Deleting the local data takes no lock.                       *)
(***************************************************************************)
EXTENDS Naturals

CONSTANTS
  Processes,    \* the daemon and commands that run transactions
  Inodes,       \* files that state.lock may be
  None,
  MaxUpdates,   \* updates by each process
  MaxCrashes, MaxChanges   \* bounds

ASSUME StoreAssumption ==
  /\ None \notin Inodes \cup Processes
  /\ MaxUpdates \in Nat /\ MaxCrashes \in Nat /\ MaxChanges \in Nat

Updates == Processes \X (1..MaxUpdates)
Docs == [is : {"missing", "damaged", "intact"}, has : SUBSET Updates]
Missing == [is |-> "missing", has |-> {}]

VARIABLES
  doc,       \* state.json
  marker,    \* .buzzr-state: absent, created, or with its content
  path,      \* the inode state.lock names
  holder,    \* the flock on each inode
  pc, fd, copy, count, \* a process: its place, the lock file it has open, the document as it
                       \* has changed it, how many updates it made
  temp,      \* the temporary file it wrote
  used,      \* inodes that ever were state.lock
  deleting,  \* where the cleanup that deletes is
  over,      \* history: the deletion has begun
  crashes, changes

process == <<pc, fd, copy, count, temp>>
vars == <<doc, marker, path, holder, process, used, deleting, over, crashes,
          changes>>

Places == {"idle", "open", "locked", "inside", "save", "mark", "write", "rename", "unlock"}
Within == Places \ {"idle", "open"}

Goto(p, l) == pc' = [pc EXCEPT ![p] = l]

----------------------------------------------------------------------------
(* with_lock                                                               *)

\* state.lock is opened, and made if there is none ...
Open(p) ==
  /\ pc[p] = "idle" /\ count[p] < MaxUpdates
  /\ \/ path # None /\ UNCHANGED <<path, used>>
     \/ path = None /\ \E i \in Inodes \ used : path' = i /\ used' = used \cup {i}
  /\ fd' = [fd EXCEPT ![p] = path']
  /\ Goto(p, "open")
  /\ UNCHANGED <<doc, marker, holder, copy, count, temp, deleting, over, crashes,
                 changes>>

LockNot(p) ==  \* a mutant of Lock: goes on without the lock
  /\ pc[p] = "open"
  /\ Goto(p, "locked")
  /\ UNCHANGED <<doc, marker, path, holder, fd, copy, count, temp, used, deleting,
                 over, crashes, changes>>

\* ... and locked, whatever the name has become meanwhile.
Lock(p) ==
  /\ pc[p] = "open" /\ holder[fd[p]] = None
  /\ holder' = [holder EXCEPT ![fd[p]] = p]
  /\ Goto(p, "locked")
  /\ UNCHANGED <<doc, marker, path, fd, copy, count, temp, used, deleting, over,
                 crashes, changes>>

LoadLenient(p) ==  \* a mutant of Load: StateStore::load, for which damaged means empty
  /\ pc[p] = "locked"
  /\ copy' = [copy EXCEPT ![p] = IF doc.is = "damaged" THEN {} ELSE doc.has]
  /\ Goto(p, "inside")
  /\ UNCHANGED <<doc, marker, path, holder, fd, count, temp, used, deleting, over,
                 crashes, changes>>

\* load_strict: a missing file is an empty document, one that cannot be read is an error.
Load(p) ==
  /\ pc[p] = "locked"
  /\ IF doc.is = "damaged" THEN Goto(p, "unlock") /\ UNCHANGED copy
     ELSE Goto(p, "inside") /\ copy' = [copy EXCEPT ![p] = doc.has]
  /\ UNCHANGED <<doc, marker, path, holder, fd, count, temp, used, deleting, over,
                 crashes, changes>>

\* The closure changes its copy and saves, or checkpoints, it ...
Change(p) ==
  /\ pc[p] = "inside" /\ count[p] < MaxUpdates
  /\ count' = [count EXCEPT ![p] = @ + 1]
  /\ copy' = [copy EXCEPT ![p] = @ \cup {<<p, count[p] + 1>>}]
  /\ Goto(p, "save")
  /\ UNCHANGED <<doc, marker, path, holder, fd, temp, used, deleting, over, crashes,
                 changes>>

\* ... and at last, or after an error, returns.
Return(p) ==
  /\ pc[p] = "inside"
  /\ Goto(p, "unlock")
  /\ UNCHANGED <<doc, marker, path, holder, fd, copy, count, temp, used, deleting,
                 over, crashes, changes>>

Unlock(p) ==
  /\ pc[p] = "unlock"
  /\ holder' = [holder EXCEPT ![fd[p]] = IF @ = p THEN None ELSE @]
  /\ Goto(p, "idle")
  /\ UNCHANGED <<doc, marker, path, fd, copy, count, temp, used, deleting, over,
                 crashes, changes>>

----------------------------------------------------------------------------
(* save                                                                    *)

EnsureMarkerThere(p) ==  \* a mutant of EnsureMarker: any marker that is there will do
  /\ pc[p] = "save"
  /\ marker' = IF marker = "absent" THEN "created" ELSE marker
  /\ Goto(p, IF marker = "absent" THEN "mark" ELSE "write")
  /\ UNCHANGED <<doc, path, holder, fd, copy, count, temp, used, deleting, over,
                 crashes, changes>>

\* ensure_marker: a marker without its content is an error, for good.
EnsureMarker(p) ==
  /\ pc[p] = "save"
  /\ marker' = IF marker = "absent" THEN "created" ELSE marker
  /\ Goto(p, CASE marker = "absent" -> "mark"
               [] marker = "created" -> "unlock"
               [] OTHER -> "write")
  /\ UNCHANGED <<doc, path, holder, fd, copy, count, temp, used, deleting, over,
                 crashes, changes>>

WriteMarker(p) ==
  /\ pc[p] = "mark"
  /\ marker' = IF marker = "absent" THEN marker ELSE "valid"
  /\ Goto(p, "write")
  /\ UNCHANGED <<doc, path, holder, fd, copy, count, temp, used, deleting, over,
                 crashes, changes>>

\* The whole document goes to a temporary file ...
Write(p) ==
  /\ pc[p] = "write"
  /\ temp' = [temp EXCEPT ![p] = copy[p]]
  /\ Goto(p, "rename")
  /\ UNCHANGED <<doc, marker, path, holder, fd, copy, count, used, deleting, over,
                 crashes, changes>>

\* ... that takes the place of state.json.
Rename(p) ==
  /\ pc[p] = "rename"
  /\ doc' = [is |-> "intact", has |-> temp[p]]
  /\ Goto(p, "inside")
  /\ UNCHANGED <<marker, path, holder, fd, copy, count, temp, used, deleting, over, crashes,
                 changes>>

----------------------------------------------------------------------------
(* Crashes, deletion and people.                                           *)

\* The process is killed: the flock goes with it, its copy and temporary file are of no use.
Crash(p) ==
  /\ pc[p] # "idle" /\ crashes < MaxCrashes
  /\ crashes' = crashes + 1
  /\ holder' = [i \in Inodes |-> IF holder[i] = p THEN None ELSE holder[i]]
  /\ Goto(p, "idle")
  /\ UNCHANGED <<doc, marker, path, fd, copy, count, temp, used, deleting, over,
                 changes>>

\* delete_local_data removes state.json, state.lock and the marker, with the lock of nobody.
DeleteState ==
  /\ deleting = "no" /\ doc.is # "missing" /\ marker = "valid"
  /\ doc' = Missing /\ over' = TRUE /\ deleting' = "lock"
  /\ UNCHANGED <<marker, path, holder, process, used, crashes, changes>>

DeleteLock ==
  /\ deleting = "lock"
  /\ path' = None /\ deleting' = "marker"
  /\ UNCHANGED <<doc, marker, holder, process, used, over, crashes, changes>>

DeleteMarker ==
  /\ deleting = "marker"
  /\ marker' = "absent" /\ deleting' = "done"
  /\ UNCHANGED <<doc, path, holder, process, used, over, crashes, changes>>

\* People touch the file while no transaction runs.
Edits == changes < MaxChanges /\ changes' = changes + 1 /\ \A p \in Processes : pc[p] \notin Within

Damage ==
  /\ Edits
  /\ doc' = [doc EXCEPT !.is = "damaged"]
  /\ UNCHANGED <<marker, path, holder, process, used, deleting, over, crashes>>

Remove ==
  /\ Edits
  /\ doc' = Missing
  /\ UNCHANGED <<marker, path, holder, process, used, deleting, over, crashes>>

----------------------------------------------------------------------------
Init ==
  /\ doc = Missing /\ marker = "absent" /\ path = None
  /\ holder = [i \in Inodes |-> None]
  /\ pc = [p \in Processes |-> "idle"] /\ fd = [p \in Processes |-> None]
  /\ copy = [p \in Processes |-> {}] /\ count = [p \in Processes |-> 0]
  /\ temp = [p \in Processes |-> {}]
  /\ used = {} /\ deleting = "no" /\ over = FALSE
  /\ crashes = 0 /\ changes = 0

Next ==
  \/ \E p \in Processes :
       \/ Open(p) \/ Lock(p) \/ Load(p) \/ Change(p) \/ Return(p) \/ Unlock(p)
       \/ EnsureMarker(p) \/ WriteMarker(p) \/ Write(p) \/ Rename(p) \/ Crash(p)
  \/ DeleteState \/ DeleteLock \/ DeleteMarker \/ Damage \/ Remove

Spec == Init /\ [][Next]_vars

----------------------------------------------------------------------------
(* Properties.                                                             *)

\* Every variable has its type.
TypeOK ==
  /\ doc \in Docs /\ marker \in {"absent", "created", "valid"}
  /\ path \in Inodes \cup {None} /\ holder \in [Inodes -> Processes \cup {None}]
  /\ pc \in [Processes -> Places] /\ fd \in [Processes -> Inodes \cup {None}]
  /\ copy \in [Processes -> SUBSET Updates] /\ temp \in [Processes -> SUBSET Updates]
  /\ count \in [Processes -> 0..MaxUpdates]
  /\ used \subseteq Inodes /\ deleting \in {"no", "lock", "marker", "done"}
  /\ over \in BOOLEAN
  /\ crashes \in 0..MaxCrashes /\ changes \in 0..MaxChanges

T == INSTANCE Transactions

\* The store implements transactions: with any number of processes, crashes between any two
\* steps and several saves under one lock, each save adds one update to all earlier ones
\* (state.rs 86: "Serialize cross-process read/modify/write state transactions").
Serialized == T!Spec

\* Provenance that cannot be read is never replaced by a fresh document (state.rs 118:
\* "must fail closed"), also after the local data were deleted.
FailClosed == [][doc.is = "damaged" => doc'.is # "intact"]_vars

\* Until the local data are deleted, a document that was saved can be deleted again (lifecycle.rs
\* 636-650 refuse to without a valid marker): with several processes, killed also while
\* ensure_marker (state.rs 56-83) writes, a saved document has a marker with its content.
MarkedWhenSaved == ~over /\ doc.is = "intact" => marker = "valid"
=============================================================================
