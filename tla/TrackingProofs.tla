--------------------------- MODULE TrackingProofs ---------------------------
(***************************************************************************)
(* Proof that reconciliation loses no channel it created (CreationTracked) *)
(* for every number of Spaces, channels, processes, crashes and lost       *)
(* answers.  TrackInv is inductive relative to the invariants of           *)
(* ReconcileProofs: it relates the working copy to the file.  That it      *)
(* loses none at all where Spaces keep their names (OnlyRenamesOrphan).    *)
(* And that it removes nobody it never added (RemovesOnlyAdded), from      *)
(* BotsInv.                                                                *)
(***************************************************************************)
EXTENDS ReconcileProofs

----------------------------------------------------------------------------
(* TrackInv: what the frame of an action keeps.                            *)

\* A pass that ends leaves the file as it was, or as the working copy is.
LEMMA TrackEnd ==
  ASSUME TrackInv, EndPass, chMark' = chMark, diskChannels' \in {diskChannels, channels}
  PROVE  TrackInv'
<1>1. \A s \in Spaces, m \in {diskChannels', channels'} :
        m[s].origin = "creating" => m[s].ch = None
  BY DEF EndPass, Unmapped, TrackInv
<1>2. \A c, d \in Channels : chMark'[c] = chMark'[d] /\ chMark'[c] # 0 => c = d
  BY DEF TrackInv
<1>3. pc' = "idle" /\ holder' = None
  BY DEF EndPass
<1> QED BY <1>1, <1>2, <1>3 DEF TrackInv

\* A step that leaves the mappings and the loop alone, between two places after the
\* choice of the channel.
LEMMA TrackSame ==
  ASSUME TrackInv, UNCHANGED <<chMark, holder, todo, space, ch, channels, diskChannels>>,
         pc' = pc \/ pc' \notin {"create", "update"},
         pc' \in {"list", "spaces"} => pc \in {"list", "spaces"}
  PROVE  TrackInv'
BY DEF TrackInv, Follows

\* On to the next Space.
LEMMA TrackNext ==
  ASSUME TrackInv, UNCHANGED <<chMark, holder, channels, diskChannels>>, NextSpace
  PROVE  TrackInv'
<1>1. pc' = "spaces" /\ todo' = todo \ {space}
  BY DEF NextSpace
<1>2. \A s \in Spaces : Follows(diskChannels, channels, s) => Follows(diskChannels', channels', s)
  OBVIOUS
<1> QED BY <1>1, <1>2 DEF TrackInv

\* A checkpoint that leaves the mappings alone.
LEMMA TrackCheckpoint ==
  ASSUME TrackInv, UNCHANGED <<chMark, holder, channels>>,
         diskChannels' = channels, pc' \notin {"create", "update"}
  PROVE  TrackInv'
BY DEF TrackInv, Follows

----------------------------------------------------------------------------
(* TrackInv: the steps that choose, create or archive a channel.           *)

\* A Space is bound to a channel, without a checkpoint: it has the name of the file
\* only if the file says the same.
LEMMA TrackBound ==
  ASSUME TypeOK, PassOK, TrackInv, ProvenanceInv, NEW s \in Spaces, BindMapped(s) \/ Adopt(s)
  PROVE  TrackInv'
<1>1. /\ Working(s) /\ ~channels[s].arch
      /\ UNCHANGED <<chMark, holder, todo, diskChannels>>
      /\ pc' = "read" /\ space' = s
  BY DEF BindMapped, Adopt, SameChannel, Quiet, relay, disk
<1>2. channels[s] = diskChannels[s] /\ pc = "spaces" /\ holder # None
  BY <1>1 DEF Working, PassOK, TrackInv
<1>3. PICK c \in Channels, o \in {"created", "adopted", "unknown"} :
        /\ channels' = Bound(s, c, o)
        /\ channels[s].origin = "created" => o = "created" /\ c = channels[s].ch
        /\ channels[s].origin = "creating" => ~CreationPending(s)
  <2>1. CASE BindMapped(s)
    <3>1. channels[s].origin # "creating" /\ channels[s].ch \in Channels
      BY <2>1, <1>2, MappingType DEF BindMapped, TrackInv, TypeOK
    <3> QED BY <2>1, <3>1 DEF BindMapped, KnownOrigin
  <2>2. CASE Adopt(s)
    <3>1. channels[s].origin # "created"
      BY <2>2 DEF Adopt, ProvenanceInv, CreatedProvenance
    <3> QED BY <2>2, <3>1 DEF Adopt
  <2> QED BY <2>1, <2>2
<1>4. /\ channels'[s].origin = o /\ channels'[s].ch = c /\ channels'[s].name = Topo.label[s]
      /\ \A t \in Spaces \ {s} : channels'[t] = channels[t]
  BY <1>3 DEF Bound, TypeOK, TypeState
<1>5. Follows(diskChannels, channels', s)
  BY <1>2, <1>3, <1>4 DEF Follows, CreationPending
<1>6. \A t \in Spaces : Follows(diskChannels', channels', t)
  BY <1>1, <1>2, <1>4, <1>5 DEF TrackInv, Follows
<1>7. \A t \in todo' : t # space' => channels'[t] = diskChannels'[t]
  BY <1>1, <1>2, <1>4 DEF TrackInv, PassOK, TypeOK, TypePass
<1>8. \A t \in Spaces, m \in {diskChannels', channels'} :
        m[t].origin = "creating" => m[t].ch = None
  BY <1>1, <1>3, <1>4 DEF TrackInv
<1> QED BY <1>1, <1>6, <1>7, <1>8 DEF TrackInv

\* An interrupted creation is found again, and on record at once.
LEMMA TrackRecover ==
  ASSUME TypeOK, PassOK, TrackInv, NEW s \in Spaces, Recover(s)
  PROVE  TrackInv'
<1>1. PICK c \in Channels : channels' = Bound(s, c, "created") /\ ch' = c
  BY DEF Recover
<1>2. UNCHANGED <<chMark, holder>> /\ diskChannels' = channels' /\ pc' = "update" /\ space' = s
  BY DEF Recover, Checkpoint, SameChannel, Quiet, relay
<1>3. /\ channels'[s].origin = "created" /\ channels'[s].ch = c
      /\ \A t \in Spaces \ {s} : channels'[t] = channels[t]
  BY <1>1 DEF Bound, TypeOK, TypeState
<1>4. \A t \in Spaces : Follows(diskChannels', channels', t)
  BY <1>2 DEF Follows
<1> QED BY <1>1, <1>2, <1>3, <1>4 DEF TrackInv

\* The intent to create is on record, and its marker on no channel.
LEMMA TrackIntend ==
  ASSUME TypeOK, PassOK, TrackInv, ProvenanceInv, NEW s \in Spaces, IntendCreate(s)
  PROVE  TrackInv'
<1>1. /\ UNCHANGED <<chMark, holder>> /\ diskChannels' = channels' /\ pc' = "create"
      /\ space' = s /\ nextMark' = nextMark + 1 /\ nextMark \in Nat
  BY DEF IntendCreate, Checkpoint, SameChannel, relay, TypeOK, TypeWorld
<1>2. /\ channels'[s].mark = nextMark + 1 /\ channels'[s].ch = None
      /\ \A t \in Spaces \ {s} : channels'[t] = channels[t]
  BY <1>1 DEF IntendCreate, TypeOK, TypeState
<1>3. \A c \in Channels : chMark'[c] # channels'[s].mark
  BY <1>1, <1>2 DEF ProvenanceInv, MarkersOK, TypeOK, TypeWorld
<1>4. \A t \in Spaces : Follows(diskChannels', channels', t)
  BY <1>1 DEF Follows
<1> QED BY <1>1, <1>2, <1>3, <1>4 DEF TrackInv

\* The channel that is created gets the fresh marker.
LEMMA TrackCreate ==
  ASSUME TypeOK, PassOK, TrackInv, Create
  PROVE  TrackInv'
<1>1. space \in Spaces /\ holder # None
  BY DEF Create, PassOK, TypeOK, TypePass
<1>2. PICK c \in Channels :
       /\ chMark' = [chMark EXCEPT ![c] = channels[space].mark]
       /\ \/ /\ channels' = Bound(space, c, "created") /\ diskChannels' = channels'
             /\ pc' = "update" /\ ch' = c /\ UNCHANGED <<space, holder>>
          \/ Lost
  BY DEF Create, Checkpoint, Ack, SameChannel
<1>3. /\ chMark'[c] = channels[space].mark
      /\ \A d \in Channels \ {c} : chMark'[d] = chMark[d]
  BY <1>2 DEF TypeOK, TypeWorld
<1>4. \A d, e \in Channels : chMark'[d] = chMark'[e] /\ chMark'[d] # 0 => d = e
  BY <1>3 DEF TrackInv, Create
<1>5. CASE Lost
  <2>1. \A s \in Spaces, m \in {diskChannels', channels'} :
          m[s].origin = "creating" => m[s].ch = None
    BY <1>5 DEF Lost, EndPass, Unmapped, TrackInv, disk
  <2> QED BY <1>4, <1>5, <2>1 DEF TrackInv, Lost, EndPass
<1>6. CASE ~Lost
  <2>1. /\ channels'[space].origin = "created" /\ channels'[space].ch = c
        /\ \A t \in Spaces \ {space} : channels'[t] = channels[t]
    BY <1>1, <1>2, <1>6 DEF Bound, TypeOK, TypeState
  <2>2. \A t \in Spaces : Follows(diskChannels', channels', t)
    BY <1>2, <1>6 DEF Follows
  <2> QED BY <1>2, <1>4, <1>6, <2>1, <2>2 DEF TrackInv
<1> QED BY <1>5, <1>6

\* update_channel takes the marker off.
LEMMA TrackUpdate ==
  ASSUME TypeOK, PassOK, TrackInv, Update
  PROVE  TrackInv'
<1>1. chMark' = [chMark EXCEPT ![ch] = 0] /\ ch \in Channels
  BY DEF Update, PassOK
<1>2. \A d, e \in Channels : chMark'[d] = chMark'[e] /\ chMark'[d] # 0 => d = e
  BY <1>1 DEF TrackInv, TypeOK, TypeWorld
<1>3. CASE Lost
  <2>1. \A s \in Spaces, m \in {diskChannels', channels'} :
          m[s].origin = "creating" => m[s].ch = None
    BY <1>3 DEF Lost, EndPass, Unmapped, TrackInv, disk
  <2> QED BY <1>2, <1>3, <2>1 DEF TrackInv, Lost, EndPass
<1>4. CASE ~Lost
  <2>1. UNCHANGED <<channels, diskChannels, holder, todo, space>> /\ pc' = "read" /\ pc = "update"
    BY <1>4 DEF Update, Goto, Ack, SameChannel, disk, work
  <2> QED BY <1>2, <2>1 DEF TrackInv, Follows
<1> QED BY <1>3, <1>4

\* unarchive_channel: the file forgets the archive first.
LEMMA TrackUnarchive ==
  ASSUME TypeOK, PassOK, TrackInv, Unarchive
  PROVE  TrackInv'
<1>1. /\ space \in Spaces /\ holder # None /\ chMark' = chMark
      /\ channels[space].origin = "created" /\ channels[space].ch = ch
  BY DEF Unarchive, PassOK, TypeOK, TypePass
<1>2. CASE Lost
  BY <1>1, <1>2, TrackEnd DEF Lost, disk
<1>3. CASE ~Lost
  <2>1. /\ diskChannels' = [channels EXCEPT ![space].arch = FALSE]
        /\ channels' = Bound(space, ch, "created")
        /\ pc' = "read" /\ UNCHANGED <<holder, todo, space>>
    BY <1>3 DEF Unarchive, Goto, Ack, SameChannel
  <2>2. /\ diskChannels'[space].origin = "created" /\ diskChannels'[space].ch = ch
        /\ \A t \in Spaces \ {space} : diskChannels'[t] = channels[t]
    BY <1>1, <2>1 DEF TypeOK, TypeState, Mappings
  <2>3. /\ channels'[space].origin = "created" /\ channels'[space].ch = ch
        /\ \A t \in Spaces \ {space} : channels'[t] = channels[t]
    BY <1>1, <2>1 DEF Bound, TypeOK, TypeState
  <2>4. \A t \in Spaces : Follows(diskChannels', channels', t)
    BY <2>2, <2>3 DEF Follows
  <2>5. \A t \in todo' : t # space' => channels'[t] = diskChannels'[t]
    BY <2>1, <2>2, <2>3 DEF TypeOK, TypePass
  <2>6. \A t \in Spaces, m \in {diskChannels', channels'} :
          m[t].origin = "creating" => m[t].ch = None
    BY <1>1, <2>2, <2>3 DEF TrackInv
  <2> QED BY <1>1, <2>1, <2>4, <2>5, <2>6 DEF TrackInv
<1> QED BY <1>2, <1>3

\* archive_channel: file and copy say so together.
LEMMA TrackArchive ==
  ASSUME TypeOK, PassOK, TrackInv, Archive
  PROVE  TrackInv'
<1>1. PICK s \in Spaces : \/ /\ channels' = [channels EXCEPT ![s].arch = TRUE] /\ Checkpoint
                             /\ pc' = pc /\ UNCHANGED <<holder, chMark>>
                          \/ Lost /\ chMark' = chMark
  BY DEF Archive, Closed, Goto, Ack, SameChannel
<1>2. CASE Lost
  BY <1>1, <1>2, TrackEnd DEF Lost, disk, Archive
<1>3. CASE ~Lost
  <2>1. \A t \in Spaces : channels'[t].origin = channels[t].origin /\ channels'[t].ch = channels[t].ch
    BY <1>1, <1>3 DEF TypeOK, TypeState, Mappings
  <2>2. \A t \in Spaces : Follows(diskChannels', channels', t)
    BY <1>1, <1>3 DEF Checkpoint, Follows
  <2>3. diskChannels' = channels' /\ pc' = "spaces" /\ chMark' = chMark
    BY <1>1, <1>3 DEF Archive, Checkpoint
  <2>4. \A t \in Spaces, m \in {diskChannels', channels'} :
          m[t].origin = "creating" => m[t].ch = None
    BY <2>1, <2>3 DEF TrackInv
  <2> QED BY <2>2, <2>3, <2>4 DEF TrackInv
<1> QED BY <1>2, <1>3

----------------------------------------------------------------------------
(* TrackInv is inductive.                                                  *)

\* The steps of a pass that come before the choice of a channel, or skip a Space.
LEMMA TrackLoop ==
  ASSUME TypeOK, PassOK, TrackInv,
         \/ \E p \in Procs : Observe(p) \/ Start(p)
         \/ \E rs, hidden : List(rs, hidden)
         \/ \E s \in Spaces : BeginUnarchive(s) \/ SkipSpace(s)
  PROVE  TrackInv'
<1>1. CASE \E p \in Procs : Observe(p)
  BY <1>1, TrackSame DEF Observe, Quiet, relay, disk
<1>2. ASSUME NEW p \in Procs, Start(p) PROVE TrackInv'
  <2>1. channels' = diskChannels /\ diskChannels' = diskChannels /\ pc' = "list" /\ chMark' = chMark
    BY <1>2 DEF Start, disk, Quiet, relay
  <2>2. \A s \in Spaces : Follows(diskChannels', channels', s)
    BY <2>1 DEF Follows
  <2> QED BY <2>1, <2>2 DEF TrackInv
<1>3. CASE \E rs, hidden : List(rs, hidden)
  BY <1>3, TrackSame DEF List, Goto, Quiet, relay, disk, work
<1>4. ASSUME NEW s \in Spaces, BeginUnarchive(s) PROVE TrackInv'
  <2>1. /\ pc = "spaces" /\ pc' = "unarchive"
        /\ UNCHANGED <<holder, todo, channels, diskChannels, chMark>>
    BY <1>4 DEF BeginUnarchive, Working, Local, SameChannel, Quiet, relay, disk, work
  <2> QED BY <2>1 DEF TrackInv, Follows
<1>5. ASSUME NEW s \in Spaces, SkipSpace(s) PROVE TrackInv'
  <2>1. /\ pc = "spaces" /\ pc' = "spaces" /\ todo' \subseteq todo
        /\ UNCHANGED <<holder, channels, diskChannels, chMark>>
    BY <1>5 DEF SkipSpace, Working, Local, SameChannel, Quiet, relay, disk, work
  <2> QED BY <2>1 DEF TrackInv, Follows
<1> QED BY <1>1, <1>2, <1>3, <1>4, <1>5

\* The steps of a pass on the members of a channel.
LEMMA TrackMembers ==
  ASSUME TypeOK, PassOK, TrackInv,
         \/ ReadMembers \/ ReadFailed \/ BridgeSettled \/ OwnerSettled \/ AgentsSettled
         \/ DepartedSettled \/ InviteBridge \/ GrantOwner \/ AddAgent \/ ForgetDeparted
         \/ AddMember \/ RemoveMember
  PROVE  TrackInv'
<1>1. CASE ReadMembers \/ ReadFailed \/ BridgeSettled \/ OwnerSettled \/ AgentsSettled
           \/ DepartedSettled
  <2>1. /\ UNCHANGED <<chMark, holder, channels, diskChannels>>
        /\ \/ NextSpace
           \/ pc' \in {"bridge", "owner", "agents", "departed"} /\ UNCHANGED <<todo, space, ch>>
    BY <1>1 DEF ReadMembers, ReadFailed, BridgeSettled, OwnerSettled, AgentsSettled,
                DepartedSettled, Goto, Local, SameChannel, Quiet, relay, disk, work
  <2> QED BY <2>1, TrackNext, TrackSame
<1>2. CASE InviteBridge \/ GrantOwner \/ AddAgent
  <2>1. UNCHANGED <<chMark, holder, channels>> /\ diskChannels' = channels' /\ pc' = "add"
    BY <1>2 DEF InviteBridge, GrantOwner, AddAgent, IntendAdd, Checkpoint, SameChannel, Quiet,
                relay
  <2> QED BY <2>1, TrackCheckpoint
<1>3. CASE ForgetDeparted
  BY <1>3, TrackSame DEF ForgetDeparted, SameChannel, Quiet, relay, disk
<1>4. CASE AddMember \/ RemoveMember
  <2>1. chMark' = chMark
    BY <1>4 DEF AddMember, RemoveMember
  <2>2. CASE Lost
    BY <2>1, <2>2, TrackEnd DEF Lost, disk
  <2>3. CASE ~Lost
    <3>1. UNCHANGED <<holder, channels>> /\ diskChannels' = channels'
          /\ pc' \in {"agents", "owner", "departed"}
      BY <1>4, <2>3 DEF AddMember, RemoveMember, Checkpoint, Ack, SameChannel
    <3> QED BY <2>1, <3>1, TrackCheckpoint
  <2> QED BY <2>2, <2>3
<1> QED BY <1>1, <1>2, <1>3, <1>4

\* Every step.
LEMMA TrackStep ==
  ASSUME TypeOK, PassOK, ProvenanceInv, TrackInv, [Next]_vars
  PROVE  TrackInv'
<1>1. CASE AddRefused \/ RemoveRefused \/ Finish \/ Abort
  BY <1>1, TrackEnd DEF AddRefused, RemoveRefused, Finish, Abort, Quiet, relay, disk
<1>2. CASE Environment \/ UNCHANGED vars
  <2>1. UNCHANGED <<chMark, disk, pass>>
    BY <1>2 DEF Environment, NameSpace, RunAgent, ExitAgent, HumanCreates, HumanSetsRole,
                HumanArchives, Idle, vars, relay
  <2> QED BY <2>1, TrackSame DEF disk, pass
<1>3. CASE PassStep
  BY <1>1, <1>3, TrackLoop, TrackMembers, TrackBound, TrackRecover, TrackIntend, TrackCreate,
     TrackUpdate, TrackUnarchive, TrackArchive
  DEF PassStep
<1> QED BY <1>1, <1>2, <1>3, TrackLoop DEF Next

\* The initial state.
LEMMA TrackInit == Init => TrackInv
BY DEF Init, Unmapped, TrackInv

----------------------------------------------------------------------------
(* What a step does to the trace of a channel.                             *)

\* The file of the next state, seen from Space s, follows the file, or the intent was
\* met under another name.
LEMMA TrackedKept ==
  ASSUME NEW c \in Channels, made[c] # None, Tracked(c), UNCHANGED <<made, chMark>>,
         Follows(diskChannels, diskChannels', made[c].space)
  PROVE  Tracked(c)' \/ IntentRenamed(made'[c].space)
BY DEF Tracked, Follows, IntentRenamed

\* A recovery drops the marker for the id of the only channel that carries it.
LEMMA TrackedRecover ==
  ASSUME TypeOK, PassOK, TrackInv, NEW s \in Spaces, Recover(s),
         NEW c \in Channels, made[c] # None, Tracked(c)
  PROVE  Tracked(c)' \/ IntentRenamed(made'[c].space)
<1>1. PICK d \in Channels : /\ channels' = Bound(s, d, "created")
                            /\ channels[s].origin = "creating"
                            /\ channels[s].mark # 0 /\ chMark[d] = channels[s].mark
  BY DEF Recover, CreationPending, MarkerMatches
<1>2. channels[s] = diskChannels[s] /\ holder # None
  BY DEF Recover, Working, TrackInv, PassOK
<1>3. diskChannels' = channels' /\ UNCHANGED <<made, chMark>>
  BY DEF Recover, Checkpoint, Quiet, relay
<1>4. /\ channels'[s].origin = "created" /\ channels'[s].ch = d
      /\ \A t \in Spaces \ {s} : channels'[t] = channels[t]
  BY <1>1 DEF Bound, TypeOK, TypeState
<1>5. CASE made[c].space = s
  <2>1. c = d
    BY <1>1, <1>2, <1>5 DEF Tracked, TrackInv
  <2> QED BY <1>3, <1>4, <1>5, <2>1 DEF Tracked
<1>6. CASE made[c].space # s
  <2>1. made[c].space \in Spaces
    BY DEF TypeOK, TypeWorld
  <2>2. Follows(diskChannels, diskChannels', made[c].space)
    BY <1>2, <1>3, <1>4, <1>6, <2>1 DEF TrackInv, Follows
  <2> QED BY <1>3, <2>2, TrackedKept
<1> QED BY <1>5, <1>6

\* A new intent replaces one of another name, or none.
LEMMA TrackedIntend ==
  ASSUME TypeOK, PassOK, ProvenanceInv, TrackInv, NEW s \in Spaces, IntendCreate(s),
         NEW c \in Channels, made[c] # None, Tracked(c)
  PROVE  Tracked(c)' \/ IntentRenamed(made'[c].space)
<1>1. channels[s] = diskChannels[s] /\ holder # None
  BY DEF IntendCreate, Working, TrackInv, PassOK
<1>2. diskChannels' = channels' /\ UNCHANGED <<made, chMark>>
  BY DEF IntendCreate, Checkpoint, relay
<1>3. /\ channels'[s].name = Topo.label[s]
      /\ \A t \in Spaces \ {s} : channels'[t] = channels[t]
  BY DEF IntendCreate, TypeOK, TypeState
<1>4. CASE made[c].space = s
  <2>1. diskChannels[s].origin # "created"
    BY <1>1 DEF IntendCreate, ProvenanceInv, CreatedProvenance
  <2>2. diskChannels[s].origin = "creating"
    BY <1>4, <2>1 DEF Tracked
  <2>3. diskChannels[s].name # diskChannels'[s].name
    BY <1>1, <1>2, <1>3, <2>2 DEF IntendCreate, CreationPending
  <2> QED BY <1>2, <1>4, <2>2, <2>3 DEF IntentRenamed
<1>5. CASE made[c].space # s
  <2>1. made[c].space \in Spaces
    BY DEF TypeOK, TypeWorld
  <2>2. Follows(diskChannels, diskChannels', made[c].space)
    BY <1>1, <1>2, <1>3, <1>5, <2>1 DEF TrackInv, Follows
  <2> QED BY <1>2, <2>2, TrackedKept
<1> QED BY <1>4, <1>5

\* create_channel: the new channel carries the marker on record, or its id is on record;
\* no older channel was waiting for that marker.
LEMMA TrackedCreate ==
  ASSUME TypeOK, PassOK, ProvenanceInv, TrackInv, Create,
         NEW c \in Channels, made'[c] # None, made[c] # None => Tracked(c)
  PROVE  Tracked(c)' \/ IntentRenamed(made'[c].space)
<1>1. /\ space \in Spaces /\ holder # None /\ channels[space] = diskChannels[space]
      /\ channels[space].origin = "creating"
  BY DEF Create, PassOK, TypeOK, TypePass, TrackInv
<1>2. PICK d \in Channels :
       /\ chName[d] = None
       /\ chMark' = [chMark EXCEPT ![d] = channels[space].mark]
       /\ made' = [made EXCEPT ![d] = [space |-> space, name |-> channels[space].name]]
       /\ \/ channels' = Bound(space, d, "created") /\ diskChannels' = channels'
          \/ Lost
  BY DEF Create, Checkpoint
<1>3. /\ made'[d].space = space /\ chMark'[d] = channels[space].mark
      /\ \A e \in Channels \ {d} : made'[e] = made[e] /\ chMark'[e] = chMark[e]
  BY <1>2 DEF TypeOK, TypeWorld
<1>4. CASE Lost
  <2>1. diskChannels' = diskChannels
    BY <1>4 DEF Lost, disk
  <2>2. CASE c = d
    BY <1>1, <1>3, <2>1, <2>2 DEF Tracked
  <2>3. CASE c # d
    BY <1>3, <2>1, <2>3 DEF Tracked
  <2> QED BY <2>2, <2>3
<1>5. CASE ~Lost
  <2>1. /\ diskChannels'[space].origin = "created" /\ diskChannels'[space].ch = d
        /\ \A t \in Spaces \ {space} : diskChannels'[t] = channels[t]
    BY <1>1, <1>2, <1>5 DEF Bound, TypeOK, TypeState
  <2>2. CASE c = d
    BY <1>3, <2>1, <2>2 DEF Tracked
  <2>3. CASE c # d
    <3>1. made[c] # None /\ made'[c] = made[c] /\ chMark'[c] = chMark[c]
          /\ made[c].space \in Spaces
      BY <1>3, <2>3 DEF TypeOK, TypeWorld
    <3>2. made[c].space # space
      BY <1>1, <3>1 DEF Tracked, TrackInv, Create
    <3>3. Follows(diskChannels, diskChannels', made[c].space)
      BY <1>1, <2>1, <3>1, <3>2 DEF TrackInv, Follows
    <3> QED BY <3>1, <3>3 DEF Tracked, Follows, IntentRenamed
  <2> QED BY <2>2, <2>3
<1> QED BY <1>4, <1>5

\* update_channel takes the marker off a channel whose id is on record.
LEMMA TrackedUpdate ==
  ASSUME TypeOK, PassOK, ProvenanceInv, TrackInv, Update,
         NEW c \in Channels, made[c] # None, Tracked(c)
  PROVE  Tracked(c)' \/ IntentRenamed(made'[c].space)
<1>1. diskChannels' = diskChannels /\ made' = made
      /\ chMark' = [chMark EXCEPT ![ch] = 0]
  BY DEF Update, Ack, Lost, disk
<1>2. ch \in Channels /\ space \in Spaces
  BY DEF Update, PassOK, TypeOK, TypePass
<1>3. /\ diskChannels[space].origin = "created" /\ diskChannels[space].ch = ch
      /\ made[ch] # None /\ made[ch].space = space
  BY <1>2 DEF Update, TrackInv, ProvenanceInv, CreatedProvenance
<1>4. CASE c = ch
  BY <1>1, <1>3, <1>4 DEF Tracked
<1>5. CASE c # ch
  <2>1. chMark'[c] = chMark[c]
    BY <1>1, <1>2, <1>5 DEF TypeOK, TypeWorld
  <2> QED BY <1>1, <2>1 DEF Tracked
<1> QED BY <1>4, <1>5

\* Every step.
LEMMA TrackedStep ==
  ASSUME TypeOK, PassOK, ProvenanceInv, TrackInv, [Next]_vars,
         NEW c \in Channels, made'[c] # None, made[c] # None => Tracked(c)
  PROVE  Tracked(c)' \/ IntentRenamed(made'[c].space)
<1> DEFINE Frame == UNCHANGED <<made, chMark>>
<1>1. Frame => made[c] # None /\ made[c].space \in Spaces
  BY DEF TypeOK, TypeWorld
\* The file stays, or the working copy replaces it.
<1>2. ASSUME Frame, diskChannels' = diskChannels
      PROVE  Tracked(c)' \/ IntentRenamed(made'[c].space)
  BY <1>1, <1>2 DEF Tracked
<1>3. ASSUME Frame, holder # None, diskChannels' = channels
      PROVE  Tracked(c)' \/ IntentRenamed(made'[c].space)
  <2>1. Follows(diskChannels, diskChannels', made[c].space)
    BY <1>1, <1>3 DEF TrackInv
  <2> QED BY <1>1, <1>3, <2>1, TrackedKept
\* Or it does but for the mark of an archived channel.
<1>4. ASSUME Frame, holder # None,
             \A t \in Spaces : /\ diskChannels'[t].origin = channels[t].origin
                               /\ diskChannels'[t].ch = channels[t].ch
                               /\ diskChannels'[t].mark = channels[t].mark
                               /\ diskChannels'[t].name = channels[t].name
      PROVE  Tracked(c)' \/ IntentRenamed(made'[c].space)
  <2>1. Follows(diskChannels, diskChannels', made[c].space)
    BY <1>1, <1>4 DEF TrackInv, Follows
  <2> QED BY <1>1, <1>4, <2>1, TrackedKept
<1>5. CASE Unarchive
  <2>1. Frame /\ holder # None /\ space \in Spaces
    BY <1>5 DEF Unarchive, PassOK, TypeOK, TypePass
  <2>2. CASE Lost
    BY <1>2, <2>1, <2>2 DEF Lost, disk
  <2>3. CASE ~Lost
    <3>1. diskChannels' = [channels EXCEPT ![space].arch = FALSE]
      BY <1>5, <2>3 DEF Unarchive
    <3>2. \A t \in Spaces : /\ diskChannels'[t].origin = channels[t].origin
                            /\ diskChannels'[t].ch = channels[t].ch
                            /\ diskChannels'[t].mark = channels[t].mark
                            /\ diskChannels'[t].name = channels[t].name
      BY <2>1, <3>1 DEF TypeOK, TypeState, Mappings
    <3> QED BY <1>4, <2>1, <3>2
  <2> QED BY <2>2, <2>3
<1>6. CASE Archive
  <2>1. PICK s \in Spaces : \/ diskChannels' = [channels EXCEPT ![s].arch = TRUE]
                            \/ Lost
    BY <1>6 DEF Archive, Closed, Checkpoint
  <2>2. Frame /\ holder # None
    BY <1>6 DEF Archive, PassOK
  <2>3. CASE Lost
    BY <1>2, <2>2, <2>3 DEF Lost, disk
  <2>4. CASE ~Lost
    <3>1. \A t \in Spaces : /\ diskChannels'[t].origin = channels[t].origin
                            /\ diskChannels'[t].ch = channels[t].ch
                            /\ diskChannels'[t].mark = channels[t].mark
                            /\ diskChannels'[t].name = channels[t].name
      BY <2>1, <2>4 DEF TypeOK, TypeState, Mappings
    <3> QED BY <1>4, <2>2, <3>1
  <2> QED BY <2>3, <2>4
<1>7. CASE InviteBridge \/ GrantOwner \/ AddAgent
  BY <1>3, <1>7 DEF InviteBridge, GrantOwner, AddAgent, IntendAdd, Checkpoint, Quiet, relay,
                    PassOK
<1>8. CASE AddMember \/ RemoveMember
  <2>1. Frame /\ holder # None
    BY <1>8 DEF AddMember, RemoveMember, PassOK
  <2>2. CASE Lost
    BY <1>2, <2>1, <2>2 DEF Lost, disk
  <2>3. CASE ~Lost
    BY <1>3, <1>8, <2>1, <2>3 DEF AddMember, RemoveMember, Checkpoint
  <2> QED BY <2>2, <2>3
<1>9. CASE Finish
  BY <1>3, <1>9 DEF Finish, Quiet, relay, PassOK
<1>10. CASE AddRefused \/ RemoveRefused \/ Abort \/ ForgetDeparted
  BY <1>2, <1>10 DEF AddRefused, RemoveRefused, Abort, ForgetDeparted, Quiet, relay, disk
<1>11. CASE ReadMembers \/ ReadFailed \/ BridgeSettled \/ OwnerSettled \/ AgentsSettled
            \/ DepartedSettled
  BY <1>2, <1>11 DEF ReadMembers, ReadFailed, BridgeSettled, OwnerSettled, AgentsSettled,
                     DepartedSettled, Local, Quiet, relay, disk
<1>12. CASE \/ \E p \in Procs : Observe(p) \/ Start(p)
            \/ \E rs, hidden : List(rs, hidden)
            \/ \E s \in Spaces : BeginUnarchive(s) \/ SkipSpace(s) \/ BindMapped(s) \/ Adopt(s)
  BY <1>2, <1>12 DEF Observe, Start, List, BeginUnarchive, SkipSpace, BindMapped, Adopt, Local,
                     Quiet, relay, disk
<1>13. CASE Environment \/ UNCHANGED vars
  BY <1>2, <1>13 DEF Environment, NameSpace, RunAgent, ExitAgent, HumanCreates, HumanSetsRole,
                     HumanArchives, Idle, vars, relay, disk
<1>14. CASE Create
  BY <1>14, TrackedCreate
<1>15. CASE Update \/ \E s \in Spaces : Recover(s) \/ IntendCreate(s)
  <2>1. made[c] # None
    BY <1>15 DEF Update, Recover, IntendCreate, Quiet, relay
  <2> QED BY <1>15, <2>1, TrackedUpdate, TrackedRecover, TrackedIntend
<1> QED
  BY <1>5, <1>6, <1>7, <1>8, <1>9, <1>10, <1>11, <1>12, <1>13, <1>14, <1>15
  DEF Next, PassStep

\* A channel buzzr created is found from state.json for ever after, by its id or by the
\* marker of the pending intent, unless its Space is renamed while the intent is pending
\* (sync.rs 794-801, 891-942).
THEOREM CreationTrackedHolds == Spec => CreationTracked
<1>1. Init => TypeOK /\ PassOK /\ ProvenanceInv /\ TrackInv
  BY InitOK, ProvenanceInit, TrackInit
<1>2. TypeOK /\ PassOK /\ ProvenanceInv /\ TrackInv /\ [Next]_vars =>
        (TypeOK /\ PassOK /\ ProvenanceInv /\ TrackInv)'
  BY StepOK, ProvenanceStep, TrackStep
<1>3. TypeOK /\ PassOK /\ ProvenanceInv /\ TrackInv /\ [Next]_vars =>
        [\A c \in Channels :
           made'[c] # None /\ (made[c] # None => Tracked(c)) =>
             Tracked(c)' \/ IntentRenamed(made'[c].space)]_vars
  BY TrackedStep
<1> QED
  BY <1>1, <1>2, <1>3, PTL DEF Spec, CreationTracked

----------------------------------------------------------------------------
(* Spaces that keep their names.                                           *)

\* A Space is called by its names, in Herdr, in what a pass observed and in what is on
\* record of it; and a pass does not forget what was on record.
NamesKept ==
  /\ \A s \in Spaces : herdr.label[s] \in NamesOf[s] \cup {None}
  /\ \A p \in Procs, s \in Spaces :
       snap[p] # None => snap[p].label[s] \in NamesOf[s] \cup {None}
  /\ \A s \in Spaces, m \in {diskChannels, channels} :
       m[s].origin # "none" => m[s].name \in NamesOf[s]
  /\ holder # None =>
       \A s \in Spaces : diskChannels[s].origin # "none" => channels[s].origin # "none"

\* What is on record of a Space stays on record.
StaysOnRecord ==
  \A s \in Spaces : diskChannels[s].origin # "none" => diskChannels'[s].origin # "none"

LEMMA NamesSame ==
  ASSUME NamesKept, UNCHANGED <<herdr, snap, holder, diskChannels, channels>>
  PROVE  NamesKept' /\ StaysOnRecord
BY DEF NamesKept, StaysOnRecord

\* A save.
LEMMA NamesSaved ==
  ASSUME NamesKept, UNCHANGED <<herdr, snap, holder, channels>>, holder # None,
         diskChannels' = channels
  PROVE  NamesKept' /\ StaysOnRecord
BY DEF NamesKept, StaysOnRecord

\* A pass that ends: the file is what it was or the working copy.
LEMMA NamesEnd ==
  ASSUME TypeOK, NamesKept, EndPass, UNCHANGED herdr, holder # None,
         diskChannels' \in {diskChannels, channels}
  PROVE  NamesKept' /\ StaysOnRecord
<1>1. \A s \in Spaces : channels'[s].origin = "none" BY DEF EndPass, Unmapped
<1>2. holder' = None BY DEF EndPass
<1>3. \A p \in Procs : snap'[p] = None \/ snap'[p] = snap[p]
  BY DEF EndPass, TypeOK, TypePass
<1>4. \A s \in Spaces : diskChannels[s].origin # "none" => channels[s].origin # "none"
  BY DEF NamesKept
<1>5. StaysOnRecord BY <1>4 DEF StaysOnRecord
<1>6. \A s \in Spaces :
        diskChannels'[s].origin # "none" => diskChannels'[s].name \in NamesOf[s]
  BY DEF NamesKept
<1> QED BY <1>1, <1>2, <1>3, <1>5, <1>6 DEF NamesKept

\* A Space is mapped, under a name of it, in the working copy; the file follows or not.
LEMMA NamesMapped ==
  ASSUME NamesKept, UNCHANGED <<herdr, snap, holder>>, holder # None, NEW s \in Spaces,
         channels'[s].origin # "none", channels'[s].name \in NamesOf[s],
         \A t \in Spaces \ {s} : channels'[t] = channels[t],
         \A t \in Spaces : diskChannels'[t] \in {diskChannels[t], channels'[t]}
  PROVE  NamesKept' /\ StaysOnRecord
<1>1. \A t \in Spaces : channels[t].origin # "none" => channels'[t].origin # "none"
  OBVIOUS
<1>2. \A t \in Spaces : diskChannels[t].origin # "none" => channels[t].origin # "none"
  BY DEF NamesKept
<1>3. \A t \in Spaces, m \in {diskChannels', channels'} :
        m[t].origin # "none" => m[t].name \in NamesOf[t]
  BY DEF NamesKept
<1>4. \A t \in Spaces : diskChannels'[t].origin # "none" => channels'[t].origin # "none"
  BY <1>1, <1>2
<1>5. StaysOnRecord BY <1>1, <1>2 DEF StaysOnRecord
<1> QED BY <1>3, <1>4, <1>5 DEF NamesKept

\* What the pass calls a Space that is open.
LEMMA TopoNamed ==
  ASSUME TypeOK, PassOK, NamesKept, holder # None
  PROVE  \A s \in Spaces : Topo.label[s] # None => Topo.label[s] \in NamesOf[s]
<1>1. holder \in Procs /\ snap[holder] # None BY DEF TypeOK, TypePass, PassOK
<1> QED BY <1>1 DEF NamesKept, Topo

\* The Space loop maps a Space.
LEMMA NamesLoop ==
  ASSUME TypeOK, PassOK, NamesKept, NEW s \in Spaces,
         BindMapped(s) \/ Recover(s) \/ Adopt(s) \/ IntendCreate(s)
  PROVE  NamesKept' /\ StaysOnRecord
<1>1. holder # None /\ s \in todo
  BY DEF BindMapped, Recover, Adopt, IntendCreate, Working, PassOK
<1>2. Topo.label[s] \in NamesOf[s]
  BY <1>1, TopoNamed DEF PassOK
<1>3. PICK e : /\ channels' = [channels EXCEPT ![s] = e]
               /\ e.origin # "none" /\ e.name = Topo.label[s]
  <2>1. CASE IntendCreate(s)
    <3> DEFINE e == [origin |-> "creating", ch |-> None, name |-> Topo.label[s],
                     mark |-> nextMark', arch |-> FALSE]
    <3>1. channels' = [channels EXCEPT ![s] = e] BY <2>1 DEF IntendCreate
    <3>2. e.origin # "none" /\ e.name = Topo.label[s] OBVIOUS
    <3> HIDE DEF e
    <3> QED BY <3>1, <3>2
  <2>2. CASE BindMapped(s) \/ Recover(s) \/ Adopt(s)
    <3>1. PICK o \in {"created", "adopted", KnownOrigin(s)} : \E c : channels' = Bound(s, c, o)
      BY <2>2 DEF BindMapped, Recover, Adopt
    <3> PICK c : channels' = Bound(s, c, o) BY <3>1
    <3> DEFINE e == [origin |-> o, ch |-> c, name |-> Topo.label[s], mark |-> 0, arch |-> FALSE]
    <3>2. channels' = [channels EXCEPT ![s] = e] BY DEF Bound
    <3>3. o # "none" BY DEF KnownOrigin
    <3>4. e.origin # "none" /\ e.name = Topo.label[s] BY <3>3
    <3> HIDE DEF e
    <3> QED BY <3>2, <3>4
  <2> QED BY <2>1, <2>2
<1>4. channels'[s] = e /\ \A t \in Spaces \ {s} : channels'[t] = channels[t]
  BY <1>3 DEF TypeOK, TypeState
<1>5. diskChannels' = diskChannels \/ diskChannels' = channels'
  BY DEF BindMapped, Recover, Adopt, IntendCreate, Checkpoint, disk
<1>6. UNCHANGED <<herdr, snap, holder>>
  BY DEF BindMapped, Recover, Adopt, IntendCreate, SameChannel, Quiet
<1> QED BY <1>1, <1>2, <1>3, <1>4, <1>5, <1>6, NamesMapped

\* A channel is created or unarchived for a Space.
LEMMA NamesCreated ==
  ASSUME TypeOK, PassOK, NamesKept, Create \/ Unarchive
  PROVE  NamesKept' /\ StaysOnRecord
<1>1. holder # None /\ space \in Spaces /\ space \in todo /\ channels[space].origin # "none"
  BY DEF Create, Unarchive, PassOK, TypeOK, TypePass
<1>2. Topo.label[space] \in NamesOf[space]
  BY <1>1, TopoNamed DEF PassOK
<1>3. CASE Lost
  BY <1>1, <1>3, NamesEnd DEF Lost, disk
<1>4. CASE ~Lost
  <2>1. PICK c : channels' = Bound(space, c, "created")
    BY <1>4 DEF Create, Unarchive
  <2>2. /\ channels'[space].origin = "created" /\ channels'[space].name = Topo.label[space]
        /\ \A t \in Spaces \ {space} : channels'[t] = channels[t]
    BY <1>1, <2>1 DEF Bound, TypeOK, TypeState
  <2>3. UNCHANGED <<herdr, snap, holder>>
    BY <1>4 DEF Create, Unarchive, Ack, SameChannel
  <2>4. CASE diskChannels' = channels'
    BY <1>1, <1>2, <2>2, <2>3, <2>4, NamesMapped
  <2>5. CASE diskChannels' = [channels EXCEPT ![space].arch = FALSE]
    <3>1. \A t \in Spaces : /\ diskChannels'[t].origin = channels[t].origin
                            /\ diskChannels'[t].name = channels[t].name
      BY <1>1, <2>5 DEF TypeOK, TypeState, Mappings
    <3>2. \A t \in Spaces : diskChannels[t].origin # "none" => channels[t].origin # "none"
      BY <1>1 DEF NamesKept
    <3>3. StaysOnRecord BY <3>1, <3>2 DEF StaysOnRecord
    <3>4. \A t \in Spaces, m \in {diskChannels', channels'} :
            m[t].origin # "none" => m[t].name \in NamesOf[t]
      BY <1>1, <1>2, <2>2, <3>1 DEF NamesKept
    <3>5. \A t \in Spaces : diskChannels'[t].origin # "none" => channels'[t].origin # "none"
      BY <1>1, <2>2, <3>1
    <3> QED BY <2>3, <3>3, <3>4, <3>5 DEF NamesKept
  <2> QED BY <1>4, <2>4, <2>5 DEF Create, Unarchive, Checkpoint
<1> QED BY <1>3, <1>4

\* Herdr gives a Space its names only.
LEMMA NamesHerdr ==
  ASSUME TypeOK, NamesKept, Environment
  PROVE  NamesKept' /\ StaysOnRecord
<1>1. UNCHANGED <<snap, holder, diskChannels, channels>>
  BY DEF Environment, NameSpace, RunAgent, ExitAgent, HumanCreates, HumanSetsRole,
         HumanArchives, Idle, disk, pass
<1>2. herdr \in Topologies BY DEF TypeOK, TypeWorld
<1>3. ASSUME NEW s \in Spaces, NEW n \in NamesOf[s] \cup {None}, NameSpace(s, n)
      PROVE  \A t \in Spaces : herdr'.label[t] \in NamesOf[t] \cup {None}
  <2>1. herdr'.label = [herdr.label EXCEPT ![s] = n]
    BY <1>2, <1>3 DEF NameSpace, Topologies
  <2> QED BY <1>2, <2>1 DEF Topologies, NamesKept
<1>4. ASSUME NEW s \in Spaces, NEW a \in Agents, RunAgent(s, a) \/ ExitAgent(s, a)
      PROVE  herdr'.label = herdr.label
  BY <1>2, <1>4 DEF RunAgent, ExitAgent, Topologies
<1>5. \/ UNCHANGED herdr \/ herdr'.label = herdr.label
      \/ \A t \in Spaces : herdr'.label[t] \in NamesOf[t] \cup {None}
  BY <1>3, <1>4 DEF Environment, HumanCreates, HumanSetsRole, HumanArchives
<1> QED BY <1>1, <1>5 DEF NamesKept, StaysOnRecord

\* NamesKept is inductive relative to TypeOK /\ PassOK.
LEMMA NamesStep ==
  ASSUME TypeOK, PassOK, NamesKept, [Next]_vars
  PROVE  NamesKept' /\ StaysOnRecord
<1> DEFINE Frame == UNCHANGED <<herdr, snap, holder, diskChannels, channels>>
           Goal == NamesKept' /\ StaysOnRecord
<1>0. Frame => Goal BY NamesSame
<1>1. ASSUME NEW p \in Procs, Observe(p) \/ Start(p) PROVE Goal
  <2>1. CASE Observe(p)
    <3>1. UNCHANGED <<herdr, holder, diskChannels, channels>> BY <2>1 DEF Observe, Quiet, disk
    <3>2. \A q \in Procs : snap'[q] \in {snap[q], herdr}
      BY <2>1 DEF Observe, TypeOK, TypePass
    <3> QED BY <3>1, <3>2 DEF NamesKept, StaysOnRecord
  <2>2. CASE Start(p)
    <3>1. UNCHANGED <<herdr, snap, diskChannels>> /\ channels' = diskChannels
      BY <2>2 DEF Start, Quiet, disk
    <3> QED BY <3>1 DEF NamesKept, StaysOnRecord
  <2> QED BY <1>1, <2>1, <2>2
<1>2. ASSUME NEW rs, NEW hidden, List(rs, hidden) PROVE Goal
  BY <1>0, <1>2 DEF List, Quiet, disk, work
<1>3. ASSUME NEW s \in Spaces, BeginUnarchive(s) \/ SkipSpace(s) PROVE Goal
  BY <1>0, <1>3 DEF BeginUnarchive, SkipSpace, Local, SameChannel, Quiet, disk, work
<1>4. CASE Update
  <2>1. holder # None BY <1>4 DEF Update, PassOK
  <2>2. CASE Lost BY <2>1, <2>2, NamesEnd DEF Lost, disk
  <2>3. CASE ~Lost BY <1>0, <1>4, <2>3 DEF Update, Ack, SameChannel, disk, work
  <2> QED BY <2>2, <2>3
<1>5. CASE ReadMembers \/ ReadFailed \/ BridgeSettled \/ OwnerSettled \/ AgentsSettled
             \/ DepartedSettled \/ ForgetDeparted
  BY <1>0, <1>5 DEF ReadMembers, ReadFailed, BridgeSettled, OwnerSettled, AgentsSettled,
                    DepartedSettled, ForgetDeparted, Local, SameChannel, Quiet, disk, work
<1>6. CASE InviteBridge \/ GrantOwner \/ AddAgent
  <2>1. holder # None BY <1>6 DEF InviteBridge, GrantOwner, AddAgent, PassOK
  <2>2. UNCHANGED <<herdr, snap, holder, channels>> /\ diskChannels' = channels
    BY <1>6 DEF InviteBridge, GrantOwner, AddAgent, IntendAdd, Checkpoint, SameChannel, Quiet
  <2> QED BY <2>1, <2>2, NamesSaved
<1>7. CASE AddMember \/ RemoveMember
  <2>1. holder # None BY <1>7 DEF AddMember, RemoveMember, PassOK
  <2>2. CASE Lost BY <2>1, <2>2, NamesEnd DEF Lost, disk
  <2>3. CASE ~Lost
    <3>1. UNCHANGED <<herdr, snap, holder, channels>> /\ diskChannels' = channels
      BY <1>7, <2>3 DEF AddMember, RemoveMember, Checkpoint, Ack, SameChannel
    <3> QED BY <2>1, <3>1, NamesSaved
  <2> QED BY <2>2, <2>3
<1>8. CASE Archive
  <2>1. holder # None BY <1>8 DEF Archive, PassOK
  <2>2. CASE Lost BY <2>1, <2>2, NamesEnd DEF Lost, disk
  <2>3. CASE ~Lost
    <3>1. PICK s \in Closed : channels' = [channels EXCEPT ![s].arch = TRUE]
      BY <1>8, <2>3 DEF Archive
    <3>2. /\ s \in Spaces /\ channels[s].origin = "created" BY DEF Closed
    <3>3. /\ channels'[s].origin = "created" /\ channels'[s].name = channels[s].name
          /\ \A t \in Spaces \ {s} : channels'[t] = channels[t]
      BY <3>1, <3>2 DEF TypeOK, TypeState, Mappings
    <3>4. UNCHANGED <<herdr, snap, holder>> /\ diskChannels' = channels'
      BY <1>8, <2>3 DEF Archive, Checkpoint, Ack, SameChannel
    <3>5. channels[s].name \in NamesOf[s] BY <3>2 DEF NamesKept
    <3> QED BY <2>1, <3>2, <3>3, <3>4, <3>5, NamesMapped
  <2> QED BY <2>2, <2>3
<1>9. CASE AddRefused \/ RemoveRefused \/ Finish \/ Abort
  <2>1. EndPass /\ UNCHANGED herdr /\ holder # None /\ diskChannels' \in {diskChannels, channels}
    BY <1>9 DEF AddRefused, RemoveRefused, Finish, Abort, Quiet, disk, PassOK
  <2> QED BY <2>1, NamesEnd
<1>10. CASE UNCHANGED vars
  BY <1>0, <1>10 DEF vars, disk, pass
<1> QED
  BY <1>1, <1>2, <1>3, <1>4, <1>5, <1>6, <1>7, <1>8, <1>9, <1>10, NamesLoop, NamesCreated,
     NamesHerdr
  DEF Next, PassStep

\* Where no Space is ever renamed, every channel buzzr created can be found from
\* state.json, by its id or by the marker of its pending creation, whatever failed and
\* wherever passes were killed: a rename is the only way to lose one (sync.rs 794-801).
THEOREM OnlyRenamesOrphan ==
  ASSUME \A s \in Spaces : /\ \A m, n \in NamesOf[s] : m = n
                           /\ AtStart.label[s] \in NamesOf[s] \cup {None}
  PROVE  Spec => [](\A c \in Channels : made[c] # None => Tracked(c))
<1> DEFINE IInv == TypeOK /\ PassOK /\ ProvenanceInv /\ TrackInv /\ NamesKept
           Found == \A c \in Channels : made[c] # None => Tracked(c)
<1>1. Init => IInv /\ Found
  <2> SUFFICES ASSUME Init PROVE NamesKept /\ Found
    BY InitOK, ProvenanceInit, TrackInit
  <2>1. Found BY DEF Init
  <2>2. \A s \in Spaces, m \in {diskChannels, channels} : m[s].origin = "none"
    BY DEF Init, Unmapped
  <2>3. herdr = AtStart /\ holder = None /\ \A p \in Procs : snap[p] = None BY DEF Init
  <2> QED BY <2>1, <2>2, <2>3 DEF NamesKept
<1>2. IInv /\ [Next]_vars => IInv'
  BY StepOK, ProvenanceStep, TrackStep, NamesStep
<1>3. IInv /\ IInv' /\ [Next]_vars /\ Found => Found'
  <2> SUFFICES ASSUME IInv, IInv', [Next]_vars, Found, NEW c \in Channels, made'[c] # None
               PROVE  Tracked(c)'
    OBVIOUS
  <2>1. CASE UNCHANGED vars BY <2>1 DEF vars, relay, disk, Tracked
  <2>2. CASE ~UNCHANGED vars
    <3> DEFINE s == made'[c].space
    <3>1. s \in Spaces BY DEF TypeOK, TypeWorld
    <3>2. ~IntentRenamed(s)
      <4>1. StaysOnRecord BY NamesStep
      <4>2. ASSUME diskChannels[s].origin = "creating"
            PROVE  diskChannels'[s].name = diskChannels[s].name
        <5>1. diskChannels[s].name \in NamesOf[s] BY <3>1, <4>2 DEF NamesKept
        <5>2. diskChannels'[s].origin # "none" BY <3>1, <4>1, <4>2 DEF StaysOnRecord
        <5>3. diskChannels'[s].name \in NamesOf[s] BY <3>1, <5>2 DEF NamesKept
        <5> QED BY <3>1, <5>1, <5>3
      <4> QED BY <4>2 DEF IntentRenamed
    <3>3. Tracked(c)' \/ IntentRenamed(s) BY <2>2, TrackedStep
    <3> QED BY <3>2, <3>3
  <2> QED BY <2>1, <2>2
<1> HIDE DEF IInv, Found
<1>4. Spec => []Found BY <1>1, <1>2, <1>3, PTL DEF Spec
<1> QED BY <1>4 DEF Found

----------------------------------------------------------------------------
(* What a step removes.                                                    *)

\* A bot the file or the copy has as added is one the relay accepted, and the copy has none
\* this pass missed.
BotsInv ==
  /\ \A c \in Channels, k \in Keys, m \in {diskMembers, members} :
       m[c][k].origin = "added" /\ m[c][k].role = "bot" => <<c, k>> \in accepted
  /\ \A c \in Channels, k \in Keys :
       members[c][k].origin = "added" /\ members[c][k].role = "bot" => <<c, k>> \notin missed
  /\ holder = None => missed = {}

\* Records come from the file, from the working copy, or say that nothing was added.
LEMMA BotsKept ==
  ASSUME BotsInv, accepted \subseteq accepted', UNCHANGED <<missed, holder>>,
         \A c \in Channels, k \in Keys, m \in {diskMembers', members'} :
           m[c][k].origin = "added" /\ m[c][k].role = "bot" =>
             m[c][k] \in {diskMembers[c][k], members[c][k]},
         \A c \in Channels, k \in Keys :
           members'[c][k] = members[c][k] \/ ~(members'[c][k].origin = "added"
                                               /\ members'[c][k].role = "bot")
  PROVE  BotsInv'
BY DEF BotsInv

\* A pass that ends: the file is what it was, or the working copy, less what was missed.
LEMMA BotsEnd ==
  ASSUME BotsInv, EndPass,
         \/ UNCHANGED diskMembers /\ accepted \subseteq accepted'
         \/ diskMembers' = members /\ accepted' = accepted \ missed
  PROVE  BotsInv'
<1>1. missed' = {} /\ \A c \in Channels, k \in Keys : members'[c][k].origin = "none"
  BY DEF EndPass, NoRecord
<1>2. ASSUME NEW c \in Channels, NEW k \in Keys,
             diskMembers'[c][k].origin = "added", diskMembers'[c][k].role = "bot"
      PROVE  <<c, k>> \in accepted'
  BY <1>2 DEF BotsInv
<1> QED BY <1>1, <1>2 DEF BotsInv

\* add_member is answered: the copy and the file have one more bot, the relay accepted it.
LEMMA BotsAdded ==
  ASSUME TypeOK, PassOK, BotsInv, AddMember, ~Lost
  PROVE  BotsInv'
<1>1. /\ accepted' = accepted \cup {<<ch, target>>} /\ missed' = missed \ {<<ch, target>>}
      /\ holder' = holder /\ diskMembers' = members'
  BY DEF AddMember, Checkpoint
<1>2. \A d \in Channels, j \in Keys :
        members'[d][j] = members[d][j] \/ (d = ch /\ j = target)
  BY DEF AddMember, Record, TypeOK, TypeState
<1>3. ASSUME NEW d \in Channels, NEW j \in Keys,
             members'[d][j].origin = "added", members'[d][j].role = "bot"
      PROVE  <<d, j>> \in accepted' /\ <<d, j>> \notin missed'
  <2>1. CASE members'[d][j] = members[d][j] BY <1>1, <1>3, <2>1 DEF BotsInv
  <2>2. CASE d = ch /\ j = target BY <1>1, <2>2
  <2> QED BY <1>2, <2>1, <2>2
<1> QED BY <1>1, <1>3 DEF BotsInv

\* remove_member is answered: the copy and the file have one bot less.
LEMMA BotsRemoved ==
  ASSUME TypeOK, BotsInv, RemoveMember, ~Lost
  PROVE  BotsInv'
<1>1. PICK k \in Removable : /\ members' = [members EXCEPT ![ch][k] = NoRecord]
                             /\ accepted' = accepted \ {<<ch, k>>} /\ Checkpoint /\ Ack
  BY DEF RemoveMember
<1>2. diskMembers' = members' /\ UNCHANGED <<missed, holder>>
  BY <1>1 DEF Checkpoint, Ack, SameChannel
<1>3. ASSUME NEW d \in Channels, NEW j \in Keys,
             members'[d][j].origin = "added", members'[d][j].role = "bot"
      PROVE  <<d, j>> \in accepted' /\ <<d, j>> \notin missed'
  <2>1. CASE d = ch /\ j = k
    <3>1. members'[d][j] = NoRecord BY <1>1, <2>1 DEF TypeOK, TypeState, Removable, Departed
    <3> QED BY <1>3, <3>1 DEF NoRecord
  <2>2. CASE ~(d = ch /\ j = k)
    <3>1. members'[d][j] = members[d][j] BY <1>1, <2>2 DEF TypeOK, TypeState
    <3> QED BY <1>1, <1>2, <1>3, <2>2, <3>1 DEF BotsInv
  <2> QED BY <2>1, <2>2
<1> QED BY <1>2, <1>3 DEF BotsInv

\* A Space is done with: what it missed is on record no more.
LEMMA BotsSettled ==
  ASSUME BotsInv, PassOK, DepartedSettled
  PROVE  BotsInv'
<1>1. /\ UNCHANGED <<accepted, diskMembers, members, holder>>
      /\ missed' = missed \cup {<<ch, k>> : k \in Gone} /\ holder # None
      /\ \A k \in Departed : roles[k] # None
  BY DEF DepartedSettled, Quiet, relay, disk, work, PassOK
<1>2. \A k \in Gone : ~(members[ch][k].origin = "added" /\ members[ch][k].role = "bot")
  BY <1>1 DEF Gone, Departed
<1> QED BY <1>1, <1>2 DEF BotsInv

\* Every step keeps it: only the answer of add_member records a bot as added.
LEMMA BotsStep ==
  ASSUME TypeOK, PassOK, BotsInv, [Next]_vars
  PROVE  BotsInv'
<1> DEFINE Frame == UNCHANGED <<accepted, diskMembers, members, missed, holder>>
<1>0. Frame => BotsInv' BY DEF BotsInv
<1>1. ASSUME NEW p \in Procs, Observe(p) \/ Start(p) PROVE BotsInv'
  <2>1. UNCHANGED <<accepted, diskMembers, missed>> BY <1>1 DEF Observe, Start, Quiet, relay, disk
  <2>2. CASE Observe(p) BY <1>0, <2>1, <2>2 DEF Observe
  <2>3. CASE Start(p)
    <3>1. members' = diskMembers /\ missed' = {} BY <2>1, <2>3 DEF Start, BotsInv
    <3> QED BY <2>1, <3>1 DEF BotsInv
  <2> QED BY <1>1, <2>2, <2>3
<1>2. ASSUME NEW rs, NEW hidden, List(rs, hidden) PROVE BotsInv'
  BY <1>0, <1>2 DEF List, Quiet, relay, disk, work
<1>3. ASSUME NEW s \in Spaces, BindMapped(s) \/ Adopt(s) \/ BeginUnarchive(s) \/ SkipSpace(s)
      PROVE  BotsInv'
  BY <1>0, <1>3 DEF BindMapped, Adopt, BeginUnarchive, SkipSpace, Local, SameChannel, Quiet, relay,
                    disk, work
<1>4. ASSUME NEW s \in Spaces, Recover(s) \/ IntendCreate(s) PROVE BotsInv'
  <2>1. diskMembers' = members /\ UNCHANGED <<accepted, members, missed, holder>>
    BY <1>4 DEF Recover, IntendCreate, Checkpoint, SameChannel, Quiet, relay
  <2> QED BY <2>1 DEF BotsInv
<1>5. CASE Unarchive \/ Update \/ Archive
  <2>1. UNCHANGED accepted BY <1>5 DEF Unarchive, Update, Archive
  <2>2. CASE Lost BY <2>1, <2>2, BotsEnd DEF Lost, disk
  <2>3. CASE ~Lost
    <3>1. /\ diskMembers' \in {diskMembers, members} /\ UNCHANGED <<members, missed, holder>>
      BY <1>5, <2>3 DEF Unarchive, Update, Archive, Checkpoint, Ack, SameChannel, disk, work
    <3> QED BY <2>1, <3>1 DEF BotsInv
  <2> QED BY <2>2, <2>3
<1>6. CASE Create
  <2>1. PICK c \in Channels :
          /\ UNCHANGED accepted
          /\ \/ members' = Record(c, Bridge, "added", "owner") /\ diskMembers' = members' /\ Ack
             \/ Lost
    BY <1>6 DEF Create, Checkpoint
  <2>2. CASE Lost BY <2>1, <2>2, BotsEnd DEF Lost, disk
  <2>3. CASE ~Lost
    <3>1. \A d \in Channels, k \in Keys :
            members'[d][k] = members[d][k] \/ members'[d][k].role = "owner"
      BY <2>1, <2>3 DEF Record, TypeOK, TypeState
    <3>2. UNCHANGED <<missed, holder>> BY <2>1, <2>3 DEF Ack, SameChannel
    <3> QED BY <2>1, <2>3, <3>1, <3>2, BotsKept
  <2> QED BY <2>2, <2>3
<1>7. CASE ReadMembers \/ ReadFailed \/ BridgeSettled \/ OwnerSettled \/ AgentsSettled
  BY <1>0, <1>7 DEF ReadMembers, ReadFailed, BridgeSettled, OwnerSettled, AgentsSettled, Local,
                    SameChannel, Quiet, relay, disk, work
<1>8. CASE InviteBridge \/ GrantOwner \/ AddAgent
  <2>1. PICK k, r : IntendAdd(k, r) BY <1>8 DEF InviteBridge, GrantOwner, AddAgent
  <2>2. /\ UNCHANGED <<accepted, missed, holder>> /\ diskMembers' = members'
        /\ \A d \in Channels, j \in Keys :
             members'[d][j] = members[d][j] \/ members'[d][j].origin = "adding"
    BY <2>1 DEF IntendAdd, Record, Checkpoint, SameChannel, Quiet, relay, TypeOK, TypeState
  <2> QED BY <2>2, BotsKept
<1>9. CASE AddMember
  <2>1. CASE Lost
    <3>1. accepted \subseteq accepted' BY <1>9 DEF AddMember
    <3> QED BY <2>1, <3>1, BotsEnd DEF Lost, disk
  <2> QED BY <1>9, <2>1, BotsAdded
<1>10. CASE ForgetDeparted
  <2>1. UNCHANGED <<accepted, diskMembers, missed, holder>>
    BY <1>10 DEF ForgetDeparted, SameChannel, Quiet, relay, disk
  <2>2. \A d \in Channels, j \in Keys :
          members'[d][j] = members[d][j] \/ members'[d][j].origin = "none"
    BY <1>10 DEF ForgetDeparted, NoRecord, TypeOK, TypeState
  <2> QED BY <2>1, <2>2, BotsKept
<1>11. CASE RemoveMember
  <2>1. CASE Lost
    <3>1. ~Ack
      <4>1. faults \in 0..MaxFaults /\ faults' = faults + 1 BY <2>1 DEF Lost, Fault, TypeOK, TypeWorld
      <4> QED BY <4>1, BoundsAssumption DEF Ack, BoundsAssumption
    <3>2. UNCHANGED accepted BY <1>11, <3>1 DEF RemoveMember
    <3>3. EndPass /\ UNCHANGED diskMembers BY <2>1 DEF Lost, disk
    <3> QED BY <3>2, <3>3, BotsEnd
  <2> QED BY <1>11, <2>1, BotsRemoved
<1>12. CASE DepartedSettled BY <1>12, BotsSettled
<1>13. CASE AddRefused \/ RemoveRefused \/ Abort
  BY <1>13, BotsEnd DEF AddRefused, RemoveRefused, Abort, Quiet, relay, disk
<1>14. CASE Finish BY <1>14, BotsEnd DEF Finish
<1>15. CASE Environment
  BY <1>0, <1>15 DEF Environment, NameSpace, RunAgent, ExitAgent, HumanCreates, HumanSetsRole,
                     HumanArchives, relay, Idle, disk, pass
<1>16. CASE UNCHANGED vars
  BY <1>0, <1>16 DEF vars, relay, disk, pass
<1> QED
  BY <1>1, <1>2, <1>3, <1>4, <1>5, <1>6, <1>7, <1>8, <1>9, <1>10, <1>11, <1>12, <1>13, <1>14,
     <1>15, <1>16
  DEF Next, PassStep

\* A member that is gone after a step nobody but buzzr took was a bot on record.
LEMMA RemoveStep ==
  ASSUME TypeOK, PassOK, MembershipInv, BotsInv, [Next]_vars, BuzzrStep,
         NEW c \in Channels, NEW k \in Keys, role[c][k] # None, role'[c][k] = None
  PROVE  <<c, k>> \in accepted
<1>1. CASE RemoveMember
  <2>1. PICK j \in Removable : role' = [role EXCEPT ![ch][j] = None]
    BY <1>1 DEF RemoveMember
  <2>2. c = ch /\ k = j
    BY <2>1 DEF TypeOK, TypeWorld
  <2>3. members[c][k].origin = "added" /\ members[c][k].role = "bot"
    BY <2>1, <2>2 DEF Removable, Departed
  <2> QED BY <2>3 DEF BotsInv
<1>2. CASE Create
  <2>1. PICK d \in Channels :
          /\ chName[d] = None
          /\ role' = [role EXCEPT ![d] = [NoRoles EXCEPT ![Bridge] = "owner"]]
    BY <1>2 DEF Create
  <2>2. c = d
    BY <2>1 DEF TypeOK, TypeWorld
  <2> QED BY <2>1, <2>2 DEF MembershipInv
<1>3. CASE AddMember
  <2>1. \/ UNCHANGED role
        \/ role' = [role EXCEPT ![ch][target] = members[ch][target].role]
    BY <1>3 DEF AddMember
  <2>2. members[ch][target].role # None
    BY <1>3, KeysAssumption DEF AddMember, PassOK
  <2> QED BY <2>1, <2>2 DEF TypeOK, TypeWorld
<1>4. CASE Environment
  <2>1. env' = env + 1
    BY <1>4 DEF Environment, NameSpace, RunAgent, ExitAgent, HumanCreates, HumanSetsRole,
                HumanArchives, Change
  <2> QED BY <2>1 DEF BuzzrStep, TypeOK, TypeWorld
<1>5. CASE PassStep /\ ~RemoveMember /\ ~Create /\ ~AddMember
  <2>1. UNCHANGED role
    BY <1>5
    DEF PassStep, List, BeginUnarchive, BindMapped, Recover, Adopt, SkipSpace, IntendCreate,
        Unarchive, Update, ReadMembers, ReadFailed, InviteBridge, BridgeSettled, GrantOwner,
        OwnerSettled, AddAgent, AgentsSettled, AddRefused, ForgetDeparted, RemoveRefused,
        DepartedSettled, Archive, Finish, IntendAdd, Local, Quiet, relay
  <2> QED BY <2>1
<1>6. CASE \/ \E p \in Procs : Observe(p) \/ Start(p)
           \/ Abort
           \/ UNCHANGED vars
  BY <1>6 DEF Observe, Start, Abort, Quiet, relay, vars
<1> QED BY <1>1, <1>2, <1>3, <1>4, <1>5, <1>6 DEF Next

\* No step of buzzr removes a member for which its own add_member was not accepted since it last
\* removed or missed it, whoever changes roles and memberships while a pass runs
\* (sync.rs 1115-1134, 1139-1196).
THEOREM RemovesOnlyAddedHolds == Spec => RemovesOnlyAdded
<1>1. Init => TypeOK /\ PassOK /\ MembershipInv /\ BotsInv
  BY InitOK, MembershipInit DEF Init, BotsInv, NoRecord
<1>2. TypeOK /\ PassOK /\ MembershipInv /\ BotsInv /\ [Next]_vars =>
        (TypeOK /\ PassOK /\ MembershipInv /\ BotsInv)'
  BY StepOK, MembershipStep, BotsStep
<1>3. TypeOK /\ PassOK /\ MembershipInv /\ BotsInv /\ [Next]_vars =>
        [\A c \in Channels, k \in Keys :
           BuzzrStep /\ role[c][k] # None /\ role'[c][k] = None => <<c, k>> \in accepted]_vars
  BY RemoveStep
<1> QED
  BY <1>1, <1>2, <1>3, PTL DEF Spec, RemovesOnlyAdded
=============================================================================
