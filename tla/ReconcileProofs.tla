-------------------------- MODULE ReconcileProofs --------------------------
(***************************************************************************)
(* What holds of reconciliation for all Spaces, channels, keys and bounds. *)
(*                                                                         *)
(* TypeOK /\ PassOK is inductive; relative to it ProvenanceInv and         *)
(* MembershipInv are.  Each step is proved action by action.               *)
(***************************************************************************)
EXTENDS Reconcile, TLAPS

----------------------------------------------------------------------------
(* Types of what the actions build.                                        *)

\* The values of a missing entry.
LEMMA UnmappedType == Unmapped \in Mappings /\ NoRecord \in Records
BY BoundsAssumption DEF BoundsAssumption, Unmapped, Mappings, Origins, NoRecord, Records

\* What is known of an entry of the working copy.
LEMMA MappingType ==
  ASSUME TypeState, NEW s \in Spaces
  PROVE  /\ channels[s].origin \in Origins /\ channels[s].ch \in Channels \cup {None}
         /\ channels[s].name \in Names \cup {None} /\ channels[s].arch \in BOOLEAN
         /\ channels[s].mark \in 0..MaxMarks
         /\ KnownOrigin(s) \in Origins
BY DEF TypeState, Mappings, KnownOrigin, Origins

\* The topology of the pass that runs.
LEMMA TopoType ==
  ASSUME TypePass, PassOK, holder # None
  PROVE  /\ Topo \in Topologies
         /\ \A s \in Spaces : Topo.label[s] \in Names \cup {None}
         /\ \A s \in Spaces : Topo.live[s] \subseteq Agents
<1>1. snap[holder] \in Topologies
  BY DEF TypePass, PassOK
<1> QED
  BY <1>1 DEF Topo, Topologies

\* The working copy after a Space is bound to a channel.
LEMMA BoundType ==
  ASSUME TypeState, TypePass, PassOK, holder # None,
         NEW s \in Spaces, NEW c \in Channels, NEW o \in Origins
  PROVE  Bound(s, c, o) \in [Spaces -> Mappings]
<1>1. Topo.label[s] \in Names \cup {None}
  BY TopoType
<1>2. [origin |-> o, ch |-> c, name |-> Topo.label[s], mark |-> 0, arch |-> FALSE] \in Mappings
  BY <1>1, BoundsAssumption DEF BoundsAssumption, Mappings
<1> QED
  BY <1>2 DEF Bound, TypeState

\* The working copy after a membership is recorded ...
LEMMA RecordType ==
  ASSUME TypeState, NEW c \in Channels, NEW k \in Keys,
         NEW o \in {"none", "adding", "added"}, NEW r \in Roles \cup {None}
  PROVE  Record(c, k, o, r) \in [Channels -> [Keys -> Records]]
<1>1. [origin |-> o, role |-> r] \in Records
  BY DEF Records
<1> QED
  BY <1>1 DEF Record, TypeState

\* A role that is set or taken away.
LEMMA RoleType ==
  ASSUME TypeWorld, NEW c \in Channels, NEW k \in Keys, NEW r \in Roles \cup {None}
  PROVE  [role EXCEPT ![c][k] = r] \in [Channels -> [Keys -> Roles \cup {None}]]
BY DEF TypeWorld

\* ... or forgotten.
LEMMA ForgottenType ==
  ASSUME TypeState, NEW k
  PROVE  [members EXCEPT ![ch][k] = NoRecord] \in [Channels -> [Keys -> Records]]
BY UnmappedType DEF TypeState

----------------------------------------------------------------------------
(* TypeOK /\ PassOK: what the frame of an action keeps.                    *)

\* A pass that ends, after any outcome.
LEMMA EndPassType ==
  ASSUME TypeOK, PassOK, EndPass, holder # None
  PROVE  /\ channels' \in [Spaces -> Mappings]
         /\ members' \in [Channels -> [Keys -> Records]]
         /\ TypePass'
         /\ PassOK'
<1>1. channels' \in [Spaces -> Mappings]
  BY UnmappedType DEF EndPass
<1>2. members' \in [Channels -> [Keys -> Records]]
  BY UnmappedType DEF EndPass
<1>3. TypePass'
  BY DEF TypeOK, TypePass, EndPass, NoRoles, NotListed
<1>4. PassOK'
  BY DEF EndPass, PassOK
<1> QED
  BY <1>1, <1>2, <1>3, <1>4

\* A pass that ends because an answer was lost.
LEMMA LostType ==
  ASSUME TypeOK, PassOK, Lost, holder # None, TypeWorld'
  PROVE  TypeOK' /\ PassOK'
<1>1. TypeState'
  BY EndPassType DEF Lost, disk, TypeState, TypeOK
<1> QED
  BY <1>1, EndPassType DEF Lost, TypeOK

\* The initial state.
LEMMA InitOK == Init => TypeOK /\ PassOK
<1> SUFFICES ASSUME Init PROVE TypeOK /\ PassOK
  OBVIOUS
<1>1. TypeWorld
  BY BoundsAssumption, ConfigAssumption
  DEF BoundsAssumption, ConfigAssumption, Init, TypeWorld, NoRoles
<1>2. TypeState
  BY UnmappedType DEF Init, TypeState
<1>3. TypePass
  BY DEF Init, TypePass, NoRoles, NotListed
<1>4. PassOK
  BY DEF Init, PassOK
<1> QED
  BY <1>1, <1>2, <1>3, <1>4 DEF TypeOK

\* A step that changes neither Herdr nor the relay.
LEMMA QuietType ==
  ASSUME TypeOK, Quiet
  PROVE  TypeWorld'
BY DEF Quiet, relay, TypeOK, TypeWorld

\* A step that changes neither the file nor the working copy.
LEMMA KeptType ==
  ASSUME TypeOK, UNCHANGED <<disk, work>>
  PROVE  TypeState'
BY DEF disk, work, TypeOK, TypeState

\* A pass that ends with nothing but what it wrote before.
LEMMA DroppedOK ==
  ASSUME TypeOK, PassOK, holder # None, EndPass, UNCHANGED disk, TypeWorld'
  PROVE  TypeOK' /\ PassOK'
<1>1. TypeState'
  BY EndPassType DEF disk, TypeOK, TypeState
<1> QED
  BY <1>1, EndPassType DEF TypeOK

----------------------------------------------------------------------------
(* TypeOK /\ PassOK: the steps of a pass, in the order of the pass.        *)

\* A process looks at Herdr while another one holds the lock.
LEMMA ObserveOK ==
  ASSUME TypeOK, PassOK, NEW p \in Procs, Observe(p) PROVE PassOK'
<1>1. snap' = [snap EXCEPT ![p] = herdr] /\ herdr # None
  BY KeysAssumption DEF KeysAssumption, Observe, TypeOK, TypeWorld
<1>2. holder # None => snap'[holder] = snap[holder]
  BY <1>1 DEF Observe, PassOK, TypeOK, TypePass
<1>3. UNCHANGED <<pc, holder, channels, members, todo, space, ch, target>>
  BY DEF Observe
<1>4. (holder # None => Topo' = Topo) /\ (pc = "idle" <=> holder = None)
  BY <1>2, <1>3 DEF Topo, PassOK
<1>5. holder # None => \A s \in todo : Topo'.label[s] # None
  BY <1>4 DEF PassOK
<1> QED
  BY <1>2, <1>3, <1>4, <1>5 DEF PassOK

\* A pass starts on what the file holds.
LEMMA StartOK ==
  ASSUME TypeOK, PassOK, NEW p \in Procs, Start(p) PROVE TypePass' /\ PassOK'
<1>1. apply' \in BOOLEAN
  BY ConfigAssumption DEF ConfigAssumption, Start
<1>2. TypePass'
  BY <1>1 DEF Start, TypeOK, TypePass
<1>3. p # None
  BY KeysAssumption DEF KeysAssumption
<1>4. PassOK'
  BY <1>3 DEF Start, PassOK, Topo
<1> QED BY <1>2, <1>4

\* The channels are listed.
LEMMA ListOK ==
  ASSUME TypeOK, PassOK, NEW rs, NEW hidden, List(rs, hidden)
  PROVE  TypePass' /\ PassOK'
<1>1. listed' \in [Channels -> Names \cup {None}]
  BY DEF List, TypeOK, TypeWorld
<1>2. TypePass'
  BY <1>1 DEF List, Goto, TypeOK, TypePass
<1>3. PassOK'
  BY DEF List, Goto, work, PassOK, Topo
<1> QED BY <1>2, <1>3

\* The archived channel of a reopened Space ...
LEMMA BeginUnarchiveOK ==
  ASSUME TypeOK, PassOK, NEW s \in Spaces, BeginUnarchive(s)
  PROVE  TypePass' /\ PassOK'
<1>1. channels[s].ch \in Channels
  BY MappingType DEF BeginUnarchive, TypeOK
<1>2. TypePass'
  BY <1>1 DEF BeginUnarchive, Working, Local, SameChannel, TypeOK, TypePass
<1>3. PassOK'
  BY <1>1 DEF BeginUnarchive, Working, Local, SameChannel, work, PassOK, Topo
<1> QED BY <1>2, <1>3

\* ... is unarchived: its entries ...
LEMMA UnarchiveOK ==
  ASSUME TypeOK, PassOK, Unarchive PROVE TypeState'
<1>1. CASE Lost
  BY <1>1, LostType, EndPassType DEF TypeOK, Lost, disk, TypeState, PassOK, Unarchive
<1>2. CASE ~Lost
  <2>1. space \in Spaces /\ ch \in Channels /\ holder # None
    BY DEF Unarchive, PassOK, TypeOK, TypePass
  <2>2. channels' \in [Spaces -> Mappings]
    BY <1>2, <2>1, BoundType DEF Unarchive, TypeOK, Origins
  <2>3. [channels EXCEPT ![space].arch = FALSE] \in [Spaces -> Mappings]
    BY <2>1 DEF TypeOK, TypeState, Mappings
  <2> QED
    BY <1>2, <2>2, <2>3 DEF Unarchive, TypeOK, TypeState
<1> QED BY <1>1, <1>2

\* ... and the rest of the state.
LEMMA UnarchivedOK ==
  ASSUME TypeOK, PassOK, Unarchive PROVE TypeOK' /\ PassOK'
<1>1. TypeWorld'
  <2>1. arch' \in [Channels -> {"no", "buzzr", "human"}]
    BY DEF Unarchive, TypeOK, TypeWorld
  <2>2. UNCHANGED <<herdr, chName, chMark, role, made, granted, accepted, nextMark, env>>
        /\ faults' \in 0..MaxFaults
    BY BoundsAssumption
    DEF BoundsAssumption, Unarchive, Ack, Lost, Fault, TypeOK, TypeWorld
  <2> QED BY <2>1, <2>2 DEF TypeOK, TypeWorld
<1>2. CASE Lost
  BY <1>1, <1>2, LostType DEF Unarchive, PassOK
<1>3. CASE ~Lost
  <2>1. UNCHANGED <<holder, apply, listed, snap, todo, space, ch, roles, target, missed>>
        /\ pc' = "read"
    BY <1>3 DEF Unarchive, Goto, Ack, SameChannel
  <2>2. TypePass'
    BY <2>1 DEF TypeOK, TypePass
  <2>3. PassOK'
    BY <2>1 DEF Unarchive, PassOK, Topo
  <2> QED BY <1>1, <2>2, <2>3, UnarchiveOK DEF TypeOK
<1> QED BY <1>2, <1>3

\* A mapped channel is kept.
LEMMA BindMappedOK ==
  ASSUME TypeOK, PassOK, NEW s \in Spaces, BindMapped(s)
  PROVE  TypeState' /\ TypePass' /\ PassOK'
<1>1. channels[s].ch \in Channels /\ KnownOrigin(s) \in Origins
  BY MappingType DEF BindMapped, TypeOK
<1>2. channels' \in [Spaces -> Mappings]
  BY <1>1, BoundType DEF BindMapped, Working, TypeOK, PassOK
<1>3. TypeState'
  BY <1>2 DEF BindMapped, disk, TypeOK, TypeState
<1>4. TypePass'
  BY <1>1 DEF BindMapped, Working, SameChannel, TypeOK, TypePass
<1>5. PassOK'
  BY <1>1 DEF BindMapped, Working, SameChannel, work, PassOK, Topo
<1> QED BY <1>3, <1>4, <1>5

\* An interrupted creation is found again.
LEMMA RecoverOK ==
  ASSUME TypeOK, PassOK, NEW s \in Spaces, Recover(s)
  PROVE  TypeState' /\ TypePass' /\ PassOK'
<1>1. PICK c \in Channels : channels' = Bound(s, c, "created") /\ ch' = c
  BY DEF Recover
<1>2. channels' \in [Spaces -> Mappings]
  BY <1>1, BoundType DEF Recover, Working, TypeOK, PassOK, Origins
<1>3. TypeState'
  BY <1>2 DEF Recover, Checkpoint, TypeOK, TypeState
<1>4. TypePass'
  BY <1>1 DEF Recover, Working, SameChannel, TypeOK, TypePass
<1>5. channels'[s].name = Topo.label[s]
  BY <1>1 DEF Bound, TypeOK, TypeState
<1>6. PassOK'
  BY <1>1, <1>5 DEF Recover, Working, SameChannel, work, PassOK, Topo
<1> QED BY <1>3, <1>4, <1>6

\* A channel of the right name is adopted.
LEMMA AdoptOK ==
  ASSUME TypeOK, PassOK, NEW s \in Spaces, Adopt(s)
  PROVE  TypeState' /\ TypePass' /\ PassOK'
<1>1. PICK c \in Channels : channels' = Bound(s, c, "adopted") /\ ch' = c
  BY DEF Adopt
<1>2. channels' \in [Spaces -> Mappings]
  BY <1>1, BoundType DEF Adopt, Working, TypeOK, PassOK, Origins
<1>3. TypeState'
  BY <1>2 DEF Adopt, disk, TypeOK, TypeState
<1>4. TypePass'
  BY <1>1 DEF Adopt, Working, SameChannel, TypeOK, TypePass
<1>5. PassOK'
  BY <1>1 DEF Adopt, Working, SameChannel, PassOK, Topo
<1> QED BY <1>3, <1>4, <1>5

\* A Space is left alone.
LEMMA SkipSpaceOK ==
  ASSUME TypeOK, PassOK, NEW s \in Spaces, SkipSpace(s)
  PROVE  TypePass' /\ PassOK'
<1>1. Working(s) /\ pc' = "spaces" /\ todo' = todo \ {s}
      /\ UNCHANGED <<space, ch, roles, target>> /\ Local
  BY DEF SkipSpace
<1>2. TypePass'
  BY <1>1 DEF Local, SameChannel, TypeOK, TypePass
<1>3. PassOK'
  BY <1>1 DEF Working, Local, SameChannel, work, PassOK, Topo
<1> QED BY <1>2, <1>3

\* The intent to create: its marker stays below the bound.
LEMMA IntendCreateOK ==
  ASSUME TypeOK, PassOK, NEW s \in Spaces, IntendCreate(s)
  PROVE  TypeOK' /\ PassOK'
<1>1. holder # None /\ Topo.label[s] \in Names
  BY TopoType DEF IntendCreate, Working, TypeOK, PassOK
<1>2. nextMark + 1 \in 0..MaxMarks
  BY BoundsAssumption DEF BoundsAssumption, IntendCreate, TypeOK, TypeWorld
<1> DEFINE m == [origin |-> "creating", ch |-> None, name |-> Topo.label[s],
               mark |-> nextMark', arch |-> FALSE]
<1>3. m \in Mappings
  BY <1>1, <1>2 DEF IntendCreate, Mappings, Origins
<1>4. channels' \in [Spaces -> Mappings] /\ channels'[s] = m
  BY <1>3 DEF IntendCreate, TypeOK, TypeState
<1>5. TypeState'
  BY <1>4 DEF IntendCreate, Checkpoint, TypeOK, TypeState
<1>6. TypePass'
  BY DEF IntendCreate, Working, SameChannel, TypeOK, TypePass
<1>7. PassOK'
  BY <1>1, <1>4 DEF IntendCreate, Working, SameChannel, work, PassOK, Topo
<1>8. TypeWorld'
  BY <1>2 DEF IntendCreate, relay, TypeOK, TypeWorld
<1> QED BY <1>5, <1>6, <1>7, <1>8 DEF TypeOK

\* create_channel, with and without its answer.
LEMMA CreateOK ==
  ASSUME TypeOK, PassOK, Create PROVE TypeOK' /\ PassOK'
<1>1. space \in Spaces /\ holder # None /\ channels[space].name \in Names
  BY TopoType DEF Create, PassOK, TypeOK, TypePass
<1>0. channels[space].mark \in 0..MaxMarks
  BY <1>1, MappingType DEF TypeOK
<1>2. PICK c \in Channels :
       /\ c \notin HumanChannels /\ chName[c] = None
       /\ chName' = [chName EXCEPT ![c] = channels[space].name]
       /\ chMark' = [chMark EXCEPT ![c] = channels[space].mark]
       /\ role' = [role EXCEPT ![c] = [NoRoles EXCEPT ![Bridge] = "owner"]]
       /\ made' = [made EXCEPT ![c] = [space |-> space, name |-> channels[space].name]]
       /\ UNCHANGED <<arch, granted, accepted>>
       /\ \/ /\ channels' = Bound(space, c, "created")
             /\ members' = Record(c, Bridge, "added", "owner")
             /\ Checkpoint
             /\ pc' = "update" /\ ch' = c
             /\ UNCHANGED <<todo, space, roles, target>>
             /\ Ack
          \/ Lost
  BY DEF Create
<1>3. [NoRoles EXCEPT ![Bridge] = "owner"] \in [Keys -> Roles \cup {None}]
  BY DEF NoRoles, Roles
<1>4. herdr' = herdr /\ nextMark' = nextMark /\ env' = env /\ faults' \in 0..MaxFaults
  BY <1>2, BoundsAssumption DEF BoundsAssumption, Ack, Lost, Fault, TypeOK, TypeWorld
<1>5. TypeWorld'
  BY <1>0, <1>1, <1>2, <1>3, <1>4 DEF TypeOK, TypeWorld
<1>6. CASE Lost
  BY <1>1, <1>5, <1>6, LostType DEF TypeOK
<1>7. CASE ~Lost
  <2>1. channels' \in [Spaces -> Mappings]
    BY <1>1, <1>2, <1>7, BoundType DEF TypeOK, Origins
  <2>0. members' = Record(c, Bridge, "added", "owner") /\ Bridge \in Keys /\ "owner" \in Roles
    BY <1>2, <1>7 DEF Keys, Roles
  <2>2. members' \in [Channels -> [Keys -> Records]]
    BY <2>0, RecordType DEF TypeOK
  <2>3. TypeState'
    BY <1>2, <1>7, <2>1, <2>2 DEF Checkpoint, TypeState
  <2>4. channels'[space].name = Topo.label[space]
    BY <1>1, <1>2, <1>7 DEF Bound, TypeOK, TypeState
  <2>5. PassOK'
    BY <1>1, <1>2, <1>7, <2>4 DEF Create, Ack, SameChannel, PassOK, Topo
  <2>6. TypePass'
    BY <1>2, <1>7 DEF Ack, SameChannel, TypeOK, TypePass
  <2> QED BY <1>5, <2>3, <2>5, <2>6 DEF TypeOK
<1> QED BY <1>6, <1>7

\* update_channel, with and without its answer.
LEMMA UpdateOK ==
  ASSUME TypeOK, PassOK, Update PROVE TypeOK' /\ PassOK'
<1>1. holder # None /\ ch \in Channels /\ space \in Spaces /\ channels[space].name \in Names
  BY TopoType DEF Update, PassOK, TypeOK, TypePass
<1>2. TypeWorld'
  <2>1. chName' \in [Channels -> Names \cup {None}] /\ chMark' \in [Channels -> 0..MaxMarks]
    BY <1>1, BoundsAssumption DEF BoundsAssumption, Update, TypeOK, TypeWorld
  <2>2. UNCHANGED <<herdr, role, arch, made, granted, accepted, nextMark, env>>
        /\ faults' \in 0..MaxFaults
    BY BoundsAssumption
    DEF BoundsAssumption, Update, Ack, Lost, Fault, TypeOK, TypeWorld
  <2> QED BY <2>1, <2>2 DEF TypeOK, TypeWorld
<1>3. CASE Lost
  BY <1>1, <1>2, <1>3, LostType
<1>4. CASE ~Lost
  <2>1. Goto("read") /\ UNCHANGED <<disk, work>> /\ SameChannel
    BY <1>4 DEF Update, Ack
  <2>2. TypePass'
    BY <2>1 DEF Goto, SameChannel, TypeOK, TypePass
  <2>3. PassOK'
    BY <2>1 DEF Update, Goto, SameChannel, work, PassOK, Topo
  <2> QED BY <1>2, <2>1, <2>2, <2>3, KeptType DEF TypeOK
<1> QED BY <1>3, <1>4

\* The steps that only read, and those that find nothing left to do.
LEMMA ReadOK ==
  ASSUME TypeOK, PassOK, ReadMembers \/ ReadFailed \/ BridgeSettled \/ OwnerSettled
                          \/ AgentsSettled \/ DepartedSettled
  PROVE  TypePass' /\ PassOK'
<1>1. CASE ReadMembers
  <2>1. role[ch] \in [Keys -> Roles \cup {None}]
    BY <1>1 DEF ReadMembers, TypeOK, TypeWorld, PassOK
  <2>2. TypePass'
    BY <1>1, <2>1 DEF ReadMembers, Local, SameChannel, TypeOK, TypePass
  <2>3. PassOK'
    BY <1>1 DEF ReadMembers, Local, SameChannel, work, PassOK, Topo
  <2> QED BY <2>2, <2>3
<1>2. CASE ReadFailed \/ BridgeSettled \/ OwnerSettled \/ AgentsSettled
  <2>1. Local /\ (NextSpace \/ Goto("owner") \/ Goto("agents") \/ Goto("departed"))
    BY <1>2 DEF ReadFailed, BridgeSettled, OwnerSettled, AgentsSettled
  <2>2. pc \in {"read", "bridge", "owner", "agents"}
    BY <1>2 DEF ReadFailed, BridgeSettled, OwnerSettled, AgentsSettled
  <2>3. TypePass'
    BY <2>1 DEF NextSpace, Goto, Local, SameChannel, TypeOK, TypePass, NoRoles
  <2>4. PassOK'
    BY <2>1, <2>2 DEF NextSpace, Goto, Local, SameChannel, work, PassOK, Topo
  <2> QED BY <2>3, <2>4
<1>3. CASE DepartedSettled
  <2>1. pc = "departed" /\ NextSpace /\ UNCHANGED <<work, holder, apply, listed, snap>>
    BY <1>3 DEF DepartedSettled
  <2>2. ch \in Channels BY <2>1 DEF PassOK
  <2>3. missed' \subseteq Channels \X Keys
    BY <1>3, <2>2 DEF DepartedSettled, Gone, TypeOK, TypePass
  <2>4. TypePass'
    BY <2>1, <2>3 DEF NextSpace, TypeOK, TypePass, NoRoles
  <2>5. PassOK'
    BY <2>1 DEF NextSpace, work, PassOK, Topo
  <2> QED BY <2>4, <2>5
<1> QED BY <1>1, <1>2, <1>3

\* The intent to add, whoever is added.
LEMMA IntendAddOK ==
  ASSUME TypeOK, PassOK, holder # None, ch \in Channels, space \in todo,
         NEW k \in Keys, NEW r \in Roles, IntendAdd(k, r)
  PROVE  TypeOK' /\ PassOK'
<1>1. TypeWorld'
  BY DEF IntendAdd, Quiet, relay, TypeOK, TypeWorld
<1>2. members' \in [Channels -> [Keys -> Records]]
  BY RecordType DEF IntendAdd, TypeOK
<1>3. TypeState'
  BY <1>2 DEF IntendAdd, Checkpoint, TypeOK, TypeState
<1>4. TypePass'
  BY DEF IntendAdd, SameChannel, TypeOK, TypePass
<1>5. members'[ch][k].role = r
  BY DEF IntendAdd, Record, TypeOK, TypeState
<1>6. PassOK'
  BY <1>5 DEF IntendAdd, SameChannel, PassOK, Topo
<1> QED
  BY <1>1, <1>3, <1>4, <1>6 DEF TypeOK

\* The bridge is invited.
LEMMA InviteBridgeOK ==
  ASSUME TypeOK, PassOK, InviteBridge PROVE TypeOK' /\ PassOK'
BY IntendAddOK DEF InviteBridge, PassOK, Keys, Roles

\* The human is made an owner.
LEMMA GrantOwnerOK ==
  ASSUME TypeOK, PassOK, GrantOwner PROVE TypeOK' /\ PassOK'
BY IntendAddOK DEF GrantOwner, PassOK, Keys, Roles, MissingOwners

\* A live agent is added.
LEMMA AddAgentOK ==
  ASSUME TypeOK, PassOK, AddAgent PROVE TypeOK' /\ PassOK'
<1>1. PICK a \in MissingAgents : IntendAdd(a, "bot")
  BY DEF AddAgent
<1>2. holder # None /\ ch \in Channels /\ space \in todo
  BY DEF AddAgent, PassOK
<1>3. a \in Keys
  BY <1>2, TopoType DEF MissingAgents, TypeOK, TypePass, Keys
<1> QED
  BY <1>1, <1>2, <1>3, IntendAddOK DEF Roles

\* add_member, with and without its answer.
LEMMA AddMemberOK ==
  ASSUME TypeOK, PassOK, AddMember PROVE TypeOK' /\ PassOK'
<1>1. ch \in Channels /\ target \in Keys /\ members[ch][target].role \in Roles /\ holder # None
  BY DEF AddMember, PassOK
<1>2. role' \in [Channels -> [Keys -> Roles \cup {None}]]
  <2>1. role' = [role EXCEPT ![ch][target] = members[ch][target].role] \/ role' = role
    BY DEF AddMember
  <2>2. members[ch][target].role \in Roles \cup {None}
    BY <1>1
  <2>3. TypeWorld /\ role \in [Channels -> [Keys -> Roles \cup {None}]]
    BY DEF TypeOK, TypeWorld
  <2>4. [role EXCEPT ![ch][target] = members[ch][target].role]
          \in [Channels -> [Keys -> Roles \cup {None}]]
    BY <1>1, <2>2, <2>3, RoleType
  <2> QED BY <2>1, <2>3, <2>4
<1>3. granted' \subseteq Channels \X Keys /\ accepted' \subseteq Channels \X Keys
  BY <1>1 DEF AddMember, TypeOK, TypeWorld
<1>4. UNCHANGED <<herdr, chName, chMark, arch, made, nextMark, env>>
      /\ faults' \in 0..MaxFaults
  BY BoundsAssumption DEF BoundsAssumption, AddMember, Ack, Lost, Fault, TypeOK, TypeWorld
<1>5. TypeWorld'
  BY <1>2, <1>3, <1>4 DEF TypeOK, TypeWorld
<1>6. CASE Lost
  BY <1>1, <1>5, <1>6, LostType DEF TypeOK
<1>7. CASE ~Lost
  <2>1. /\ members' = Record(ch, target, "added", members[ch][target].role)
        /\ UNCHANGED channels /\ Checkpoint
    BY <1>7 DEF AddMember
  <2>2. members' \in [Channels -> [Keys -> Records]]
    BY <1>1, <2>1, RecordType DEF TypeOK
  <2>3. TypeState'
    BY <2>1, <2>2 DEF TypeOK, TypeState, Checkpoint
  <2>4. /\ roles' = [roles EXCEPT ![target] = members[ch][target].role]
        /\ pc' \in {"agents", "owner"} /\ target' = None
        /\ UNCHANGED <<todo, space, ch, channels, holder, apply, listed, snap>>
        /\ missed' = missed \ {<<ch, target>>}
    BY <1>7 DEF AddMember
  <2>5. TypePass'
    BY <1>1, <2>4 DEF TypeOK, TypePass
  <2>6. PassOK'
    BY <1>1, <2>4 DEF AddMember, PassOK, Topo
  <2> QED BY <1>5, <2>3, <2>5, <2>6 DEF TypeOK
<1> QED BY <1>6, <1>7

\* A departed bot that has left is forgotten.
LEMMA ForgetDepartedOK ==
  ASSUME TypeOK, PassOK, ForgetDeparted PROVE TypeOK' /\ PassOK'
<1>1. TypeState'
  BY ForgottenType DEF ForgetDeparted, TypeOK, TypeState, disk
<1>2. TypePass'
  BY DEF ForgetDeparted, SameChannel, TypeOK, TypePass
<1>3. PassOK'
  BY DEF ForgetDeparted, SameChannel, PassOK, Topo
<1> QED BY <1>1, <1>2, <1>3, QuietType DEF ForgetDeparted, TypeOK

\* remove_member, with and without its answer.
LEMMA RemoveMemberOK ==
  ASSUME TypeOK, PassOK, RemoveMember PROVE TypeOK' /\ PassOK'
<1>1. role' \in [Channels -> [Keys -> Roles \cup {None}]]
  <2>1. PICK k \in Removable : role' = [role EXCEPT ![ch][k] = None]
    BY DEF RemoveMember
  <2>2. ch \in Channels /\ k \in Keys
    BY DEF RemoveMember, PassOK, Removable, Departed
  <2> QED BY <2>1, <2>2, RoleType DEF TypeOK
<1>2. UNCHANGED <<herdr, chName, chMark, arch, made, nextMark, env>>
      /\ faults' \in 0..MaxFaults
      /\ granted' \subseteq granted /\ accepted' \subseteq accepted
  BY BoundsAssumption DEF BoundsAssumption, RemoveMember, Ack, Lost, Fault, TypeOK, TypeWorld
<1>3. TypeWorld'
  BY <1>1, <1>2 DEF TypeOK, TypeWorld
<1>4. CASE Lost
  BY <1>3, <1>4, LostType DEF TypeOK, PassOK, RemoveMember
<1>5. CASE ~Lost
  <2>1. PICK k \in Removable : members' = [members EXCEPT ![ch][k] = NoRecord]
    BY <1>5 DEF RemoveMember
  <2>2. UNCHANGED channels /\ Checkpoint
    BY <1>5 DEF RemoveMember
  <2>3. members' \in [Channels -> [Keys -> Records]]
    BY <2>1, ForgottenType DEF TypeOK
  <2>4. TypeState'
    BY <2>2, <2>3 DEF TypeOK, TypeState, Checkpoint
  <2>5. (\E b \in Removable : roles' = [roles EXCEPT ![b] = None]) /\ SameChannel
        /\ UNCHANGED <<pc, todo, space, ch, target>>
    BY <1>5 DEF RemoveMember, Ack
  <2>6. TypePass'
    BY <2>5 DEF SameChannel, TypeOK, TypePass
  <2>7. PassOK'
    BY <2>2, <2>5 DEF RemoveMember, SameChannel, PassOK, Topo
  <2> QED BY <1>3, <2>4, <2>6, <2>7 DEF TypeOK
<1> QED BY <1>4, <1>5

\* archive_channel, with and without its answer.
LEMMA ArchiveOK ==
  ASSUME TypeOK, PassOK, Archive PROVE TypeOK' /\ PassOK'
<1>1. PICK s \in Spaces : LET c == channels[s].ch IN
       /\ arch' = [arch EXCEPT ![c] = IF @ = "no" THEN "buzzr" ELSE @]
       /\ UNCHANGED <<chName, chMark, role, made, granted, accepted>>
       /\ \/ /\ channels' = [channels EXCEPT ![s].arch = TRUE]
             /\ UNCHANGED members /\ Checkpoint
             /\ Goto("spaces")
             /\ Ack
          \/ Lost
  BY DEF Archive, Closed
<1>2. UNCHANGED <<herdr, chName, chMark, role, made, granted, accepted, nextMark, env>>
      /\ faults' \in 0..MaxFaults
  BY <1>1, BoundsAssumption DEF BoundsAssumption, Ack, Lost, Fault, TypeOK, TypeWorld
<1>3. arch' \in [Channels -> {"no", "buzzr", "human"}]
  BY <1>1 DEF TypeOK, TypeWorld
<1>4. TypeWorld'
  BY <1>2, <1>3 DEF TypeOK, TypeWorld
<1>5. CASE Lost
  BY <1>4, <1>5, LostType DEF TypeOK, PassOK, Archive
<1>6. CASE ~Lost
  <2>0. channels' = [channels EXCEPT ![s].arch = TRUE] /\ UNCHANGED members /\ Checkpoint
    BY <1>1, <1>6
  <2>1. channels' \in [Spaces -> Mappings]
    BY <2>0 DEF TypeOK, TypeState, Mappings
  <2>2. TypeState'
    BY <2>0, <2>1 DEF TypeOK, TypeState, Checkpoint
  <2>3. Goto("spaces") /\ SameChannel
    BY <1>1, <1>6 DEF Ack
  <2>4. TypePass'
    BY <2>3 DEF Goto, SameChannel, TypeOK, TypePass
  <2>5. PassOK'
    BY <2>3 DEF Archive, Goto, SameChannel, PassOK, Topo
  <2> QED BY <1>4, <2>2, <2>4, <2>5 DEF TypeOK
<1> QED BY <1>5, <1>6

\* The final save.
LEMMA FinishOK ==
  ASSUME TypeOK, PassOK, Finish PROVE TypeOK' /\ PassOK'
<1>1. holder # None
  BY DEF Finish, PassOK
<1>2. TypeState'
  BY <1>1, EndPassType DEF Finish, TypeOK, TypeState
<1>3. TypeWorld'
  <2>1. UNCHANGED <<herdr, chName, chMark, role, arch, made, granted, nextMark, faults, env>>
        /\ accepted' = accepted \ missed
    BY DEF Finish
  <2> QED BY <2>1 DEF TypeOK, TypeWorld
<1> QED BY <1>1, <1>2, <1>3, EndPassType DEF Finish, TypeOK

\* A call is refused, fails, or the process is killed.
LEMMA GivenUpOK ==
  ASSUME TypeOK, PassOK, AddRefused \/ RemoveRefused \/ Abort PROVE TypeOK' /\ PassOK'
<1>1. holder # None /\ EndPass /\ UNCHANGED disk
  BY DEF AddRefused, RemoveRefused, Abort, PassOK
<1>2. TypeWorld'
  BY QuietType, BoundsAssumption
  DEF BoundsAssumption, AddRefused, RemoveRefused, Abort, Fault, relay, TypeOK, TypeWorld
<1> QED BY <1>1, <1>2, DroppedOK

\* Herdr and people.
LEMMA EnvOK ==
  ASSUME TypeOK, PassOK, Environment
  PROVE  TypeOK' /\ PassOK'
<1>1. Change /\ Idle
  BY DEF Environment, NameSpace, RunAgent, ExitAgent, HumanCreates, HumanSetsRole,
         HumanArchives
<1>2. TypeState' /\ TypePass' /\ PassOK'
  BY <1>1 DEF Idle, disk, pass, TypeOK, TypeState, TypePass, PassOK, Topo
<1>3. env' \in 0..MaxEnv
  BY <1>1, BoundsAssumption DEF BoundsAssumption, Change, TypeOK, TypeWorld
<1>4. TypeWorld'
  <2>1. CASE \E s \in Spaces : \E n \in NamesOf[s] \cup {None} : NameSpace(s, n)
    <3>1. PICK s \in Spaces : \E n \in NamesOf[s] \cup {None} : NameSpace(s, n)
      BY <2>1
    <3>2. PICK n \in NamesOf[s] \cup {None} : NameSpace(s, n)
      BY <3>1
    <3>3. n \in Names \cup {None}
      BY ConfigAssumption DEF ConfigAssumption
    <3>4. herdr' \in Topologies
      BY <3>2, <3>3 DEF NameSpace, TypeOK, TypeWorld, Topologies
    <3> QED BY <1>1, <1>3, <3>2, <3>4 DEF NameSpace, Idle, relay, TypeOK, TypeWorld
  <2>2. CASE \E s \in Spaces, a \in Agents : RunAgent(s, a) \/ ExitAgent(s, a)
    <3>1. herdr' \in Topologies
      BY <2>2 DEF RunAgent, ExitAgent, TypeOK, TypeWorld, Topologies
    <3> QED BY <1>1, <1>3, <2>2, <3>1 DEF RunAgent, ExitAgent, Idle, relay, TypeOK, TypeWorld
  <2>3. CASE \E c \in HumanChannels, n \in Names, ks \in SUBSET (Readers \cup {Bridge}) :
               HumanCreates(c, n, ks)
    <3>1. chName' \in [Channels -> Names \cup {None}]
      BY <2>3, KeysAssumption DEF KeysAssumption, HumanCreates, TypeOK, TypeWorld
    <3>2. role' \in [Channels -> [Keys -> Roles \cup {None}]]
      BY <2>3, KeysAssumption DEF KeysAssumption, HumanCreates, TypeOK, TypeWorld, Roles
    <3> QED BY <1>1, <1>3, <2>3, <3>1, <3>2 DEF HumanCreates, Idle, TypeOK, TypeWorld
  <2>4. CASE \E c \in Channels, k \in Keys, r \in Roles \cup {None} : HumanSetsRole(c, k, r)
    <3>1. PICK c \in Channels, k \in Keys, r \in Roles \cup {None} : HumanSetsRole(c, k, r)
      BY <2>4
    <3>2. role' \in [Channels -> [Keys -> Roles \cup {None}]]
      BY <3>1, RoleType DEF HumanSetsRole, TypeOK
    <3>3. granted' \subseteq granted
      BY <3>1 DEF HumanSetsRole
    <3> QED BY <1>1, <1>3, <3>1, <3>2, <3>3 DEF HumanSetsRole, Idle, TypeOK, TypeWorld
  <2>5. CASE \E c \in Channels, a \in {"no", "human"} : HumanArchives(c, a)
    <3>1. arch' \in [Channels -> {"no", "buzzr", "human"}]
      BY <2>5 DEF HumanArchives, TypeOK, TypeWorld
    <3> QED BY <1>1, <1>3, <2>5, <3>1 DEF HumanArchives, Idle, TypeOK, TypeWorld
  <2> QED BY <2>1, <2>2, <2>3, <2>4, <2>5 DEF Environment
<1> QED BY <1>2, <1>4 DEF TypeOK

----------------------------------------------------------------------------
(* The choice of the next step, once for the three invariants.             *)

\* TypeOK /\ PassOK is inductive.
LEMMA StepOK ==
  ASSUME TypeOK, PassOK, [Next]_vars
  PROVE  TypeOK' /\ PassOK'
<1>1. ASSUME NEW p \in Procs, Observe(p) PROVE TypeOK' /\ PassOK'
  <2>1. snap' \in [Procs -> Topologies \cup {None}]
    BY <1>1 DEF Observe, TypeOK, TypeWorld, TypePass
  <2>2. TypePass'
    BY <1>1, <2>1 DEF Observe, TypeOK, TypePass
  <2> QED
    BY <1>1, <2>2, ObserveOK, QuietType, KeptType DEF Observe, work, TypeOK
<1>2. ASSUME NEW p \in Procs, Start(p) PROVE TypeOK' /\ PassOK'
  <2>1. TypeState'
    BY <1>2 DEF Start, disk, TypeOK, TypeState
  <2> QED
    BY <1>2, <2>1, StartOK, QuietType DEF Start, TypeOK
<1>3. ASSUME NEW rs, NEW hidden, List(rs, hidden) PROVE TypeOK' /\ PassOK'
  BY <1>3, ListOK, QuietType, KeptType DEF List, TypeOK
<1>4. ASSUME NEW s \in Spaces,
             BeginUnarchive(s) \/ BindMapped(s) \/ Recover(s) \/ Adopt(s) \/ SkipSpace(s)
                \/ IntendCreate(s)
      PROVE  TypeOK' /\ PassOK'
  <2>1. CASE BeginUnarchive(s)
    BY <2>1, BeginUnarchiveOK, QuietType, KeptType DEF BeginUnarchive, Local, TypeOK
  <2>2. CASE BindMapped(s)
    BY <2>2, BindMappedOK, QuietType DEF BindMapped, TypeOK
  <2>3. CASE Recover(s)
    BY <2>3, RecoverOK, QuietType DEF Recover, TypeOK
  <2>4. CASE Adopt(s)
    BY <2>4, AdoptOK, QuietType DEF Adopt, TypeOK
  <2>5. CASE SkipSpace(s)
    BY <2>5, SkipSpaceOK, QuietType, KeptType DEF SkipSpace, Local, TypeOK
  <2>6. CASE IntendCreate(s)
    BY <2>6, IntendCreateOK
  <2> QED BY <1>4, <2>1, <2>2, <2>3, <2>4, <2>5, <2>6
<1>5. CASE ReadMembers \/ ReadFailed \/ BridgeSettled \/ OwnerSettled
              \/ AgentsSettled \/ DepartedSettled
  <2>1. Quiet /\ UNCHANGED <<disk, work>>
    BY <1>5 DEF ReadMembers, ReadFailed, BridgeSettled, OwnerSettled, AgentsSettled,
                DepartedSettled, Local
  <2> QED BY <1>5, <2>1, ReadOK, QuietType, KeptType DEF TypeOK
<1>6. CASE UNCHANGED vars
  <2>1. UNCHANGED <<herdr, relay, disk, pass, nextMark, faults, env>>
    BY <1>6 DEF vars
  <2>2. TypeWorld' /\ TypeState'
    BY <2>1 DEF relay, disk, pass, TypeOK, TypeWorld, TypeState
  <2>3. TypePass' /\ PassOK'
    BY <2>1 DEF pass, TypeOK, TypePass, PassOK, Topo
  <2> QED BY <2>2, <2>3 DEF TypeOK
<1> QED
  BY <1>1, <1>2, <1>3, <1>4, <1>5, <1>6, UnarchivedOK, CreateOK, UpdateOK, InviteBridgeOK,
     GrantOwnerOK, AddAgentOK, AddMemberOK, ForgetDepartedOK, RemoveMemberOK, ArchiveOK,
     FinishOK, GivenUpOK, EnvOK
  DEF Next, PassStep

\* Every variable of every reachable state has its type, and a pass knows what its
\* place in the code says it knows: whose lock it holds, that the Space at hand is
\* open, that "creating" is on disk when create_channel is called (sync.rs 673-1284).
THEOREM TypeCorrect == Spec => [](TypeOK /\ PassOK)
<1>1. Init => TypeOK /\ PassOK
  BY InitOK
<1>2. TypeOK /\ PassOK /\ [Next]_vars => TypeOK' /\ PassOK'
  BY StepOK
<1> QED
  BY <1>1, <1>2, PTL DEF Spec

----------------------------------------------------------------------------
(* ProvenanceInv: what state.json calls created was created by buzzr.      *)

\* What an entry of a later mapping m says of its channel or its marker, an entry of
\* the file or of the working copy says already.
Stands(m, s) ==
  \E o \in {diskChannels, channels} :
    /\ m[s].origin = "created" => o[s].origin = "created" /\ o[s].ch = m[s].ch
    /\ m[s].origin = "creating" => o[s].origin = "creating" /\ o[s].mark = m[s].mark

\* A step that adds no "created" and no "creating" keeps the invariant ...
LEMMA ProvenanceKept ==
  ASSUME ProvenanceInv, UNCHANGED <<chName, chMark, made, nextMark>>,
         \A s \in Spaces : Stands(diskChannels', s) /\ Stands(channels', s)
  PROVE  ProvenanceInv'
<1>1. CreatedProvenance'
  BY DEF ProvenanceInv, CreatedProvenance, Stands
<1>2. MarkersOK'
  BY DEF ProvenanceInv, MarkersOK, Stands
<1> QED
  BY <1>1, <1>2 DEF ProvenanceInv

\* ... and so does the end of a pass.
LEMMA ProvenanceEnd ==
  ASSUME ProvenanceInv, EndPass, UNCHANGED <<chName, chMark, made, nextMark>>,
         diskChannels' \in {diskChannels, channels}
  PROVE  ProvenanceInv'
<1>1. \A s \in Spaces : Stands(diskChannels', s)
  BY DEF Stands
<1>2. \A s \in Spaces : Stands(channels', s)
  BY DEF EndPass, Unmapped, Stands
<1> QED BY <1>1, <1>2, ProvenanceKept

\* Recovery: the marker on the channel names the Space it was created for.
LEMMA ProvenanceRecover ==
  ASSUME TypeOK, ProvenanceInv, NEW s \in Spaces, Recover(s)
  PROVE  ProvenanceInv'
<1>1. PICK c \in Channels : /\ CreationPending(s) /\ MarkerMatches(s, c)
                            /\ channels' = Bound(s, c, "created")
  BY DEF Recover
<1>2. made[c] # None /\ made[c].space = s
  BY <1>1 DEF CreationPending, MarkerMatches, ProvenanceInv, MarkersOK
<1>3. UNCHANGED <<chName, chMark, made, nextMark>> /\ diskChannels' = channels'
  BY DEF Recover, Checkpoint, Quiet, relay
<1>4. /\ channels'[s].origin = "created" /\ channels'[s].ch = c
      /\ \A t \in Spaces \ {s} : channels'[t] = channels[t]
  BY <1>1 DEF Bound, TypeOK, TypeState
<1>5. c # None
  BY KeysAssumption DEF KeysAssumption
<1>6. CreatedProvenance'
  BY <1>2, <1>3, <1>4, <1>5 DEF ProvenanceInv, CreatedProvenance
<1>7. MarkersOK'
  BY <1>3, <1>4 DEF ProvenanceInv, MarkersOK
<1> QED BY <1>6, <1>7 DEF ProvenanceInv

\* A fresh marker is on no channel and in no other entry.
LEMMA ProvenanceIntend ==
  ASSUME TypeOK, ProvenanceInv, NEW s \in Spaces, IntendCreate(s)
  PROVE  ProvenanceInv'
<1>1. UNCHANGED <<chName, chMark, made>> /\ diskChannels' = channels'
      /\ nextMark' = nextMark + 1 /\ nextMark \in Nat
  BY DEF IntendCreate, Checkpoint, relay, TypeOK, TypeWorld
<1>2. /\ channels'[s].origin = "creating" /\ channels'[s].mark = nextMark + 1
      /\ \A t \in Spaces \ {s} : channels'[t] = channels[t]
  BY DEF IntendCreate, TypeOK, TypeState
<1>3. \A c \in Channels : chMark[c] \in Nat
  BY DEF TypeOK, TypeWorld
<1>4. CreatedProvenance'
  BY <1>1, <1>2 DEF ProvenanceInv, CreatedProvenance
<1>5. MarkersOK'
  BY <1>1, <1>2, <1>3 DEF ProvenanceInv, MarkersOK
<1> QED BY <1>4, <1>5 DEF ProvenanceInv

\* The channel that is created was nobody's, and carries the marker of its Space.
LEMMA ProvenanceCreate ==
  ASSUME TypeOK, PassOK, ProvenanceInv, Create
  PROVE  ProvenanceInv'
<1>1. space \in Spaces /\ channels[space].origin = "creating" /\ channels[space].name \in Names
      /\ holder # None
  BY TopoType DEF Create, PassOK, TypeOK, TypePass
<1>2. PICK c \in Channels :
       /\ chName[c] = None
       /\ chName' = [chName EXCEPT ![c] = channels[space].name]
       /\ chMark' = [chMark EXCEPT ![c] = channels[space].mark]
       /\ made' = [made EXCEPT ![c] = [space |-> space, name |-> channels[space].name]]
       /\ \/ channels' = Bound(space, c, "created") /\ diskChannels' = channels' /\ Ack
          \/ Lost
  BY DEF Create, Checkpoint
<1>3. nextMark' = nextMark /\ made[c] = None
  BY <1>2 DEF Ack, Lost, ProvenanceInv, MarkersOK
<1>4. /\ made'[c] = [space |-> space, name |-> channels[space].name]
      /\ \A d \in Channels \ {c} : made'[d] = made[d]
      /\ \A d \in Channels : made[d] # None => d # c
  BY <1>2, <1>3 DEF TypeOK, TypeWorld
<1>5. /\ chMark'[c] = channels[space].mark /\ chName'[c] = channels[space].name
      /\ \A d \in Channels \ {c} : chMark'[d] = chMark[d] /\ chName'[d] = chName[d]
  BY <1>2 DEF TypeOK, TypeWorld
<1>6. \A s \in Spaces, m \in {diskChannels', channels'} :
        \/ m[s].origin = "created" /\ m[s].ch = c /\ s = space
        \/ m[s].origin = "none"
        \/ \E o \in {diskChannels, channels} : m[s] = o[s]
  <2>1. CASE Lost
    BY <2>1 DEF Lost, EndPass, disk, Unmapped
  <2>2. CASE ~Lost
    BY <1>1, <1>2, <2>2 DEF Bound, TypeOK, TypeState
  <2> QED BY <2>1, <2>2
<1>7. made'[c] # None /\ made'[c].space = space /\ c # None /\ channels[space].name # None
  BY <1>1, <1>4, KeysAssumption DEF KeysAssumption, TypeOK, TypeWorld
<1>8. CreatedProvenance'
  <2> SUFFICES ASSUME NEW s \in Spaces, NEW m \in {diskChannels', channels'},
                      m[s].origin = "created"
               PROVE  m[s].ch # None /\ made'[m[s].ch] # None /\ made'[m[s].ch].space = s
    BY DEF CreatedProvenance
  <2>1. CASE m[s].ch = c /\ s = space
    BY <1>7, <2>1
  <2>2. CASE \E o \in {diskChannels, channels} : m[s] = o[s]
    <3>1. PICK o \in {diskChannels, channels} : m[s] = o[s]
      BY <2>2
    <3>2. m[s].ch # None /\ made[m[s].ch] # None /\ made[m[s].ch].space = s
      BY <3>1 DEF ProvenanceInv, CreatedProvenance
    <3>3. m[s].ch \in Channels
      BY <3>1, <3>2 DEF TypeOK, TypeState, Mappings
    <3> QED BY <1>4, <3>2, <3>3
  <2> QED BY <1>6, <2>1, <2>2
<1>9. MarkersOK'
  BY <1>1, <1>3, <1>4, <1>5, <1>6, <1>7 DEF ProvenanceInv, MarkersOK
<1> QED BY <1>8, <1>9 DEF ProvenanceInv

\* update_channel drops the marker.
LEMMA ProvenanceUpdate ==
  ASSUME TypeOK, PassOK, ProvenanceInv, Update
  PROVE  ProvenanceInv'
<1>1. /\ ch \in Channels /\ channels[space].name # None
      /\ UNCHANGED <<made, nextMark, diskChannels>>
  BY TopoType DEF Update, PassOK, TypeOK, TypePass, Ack, Lost, disk
<1>2. \A s \in Spaces, m \in {diskChannels', channels'} :
        m[s].origin = "none" \/ \E o \in {diskChannels, channels} : m[s] = o[s]
  BY DEF Update, Lost, EndPass, disk, work, Unmapped
<1>3. /\ chMark'[ch] = 0 /\ chName'[ch] # None
      /\ \A d \in Channels \ {ch} : chMark'[d] = chMark[d] /\ chName'[d] = chName[d]
  BY <1>1 DEF Update, TypeOK, TypeWorld
<1>4. nextMark \in Nat
  BY DEF TypeOK, TypeWorld
<1>5. CreatedProvenance'
  BY <1>1, <1>2 DEF ProvenanceInv, CreatedProvenance
<1>6. MarkersOK'
  BY <1>1, <1>2, <1>3, <1>4 DEF ProvenanceInv, MarkersOK
<1> QED BY <1>5, <1>6 DEF ProvenanceInv

\* People create a channel that carries no marker.
LEMMA ProvenanceHuman ==
  ASSUME TypeOK, ProvenanceInv, NEW c \in HumanChannels, NEW n \in Names, NEW ks,
         HumanCreates(c, n, ks)
  PROVE  ProvenanceInv'
<1>1. n # None /\ c \in Channels
  BY KeysAssumption DEF KeysAssumption
<1>2. \A d \in Channels : chName[d] # None => chName'[d] # None
  BY <1>1 DEF HumanCreates, TypeOK, TypeWorld
<1>3. UNCHANGED <<chMark, made, nextMark, diskChannels, channels>>
  BY DEF HumanCreates, Idle, disk, pass
<1>4. CreatedProvenance'
  BY <1>3 DEF ProvenanceInv, CreatedProvenance
<1>5. MarkersOK'
  BY <1>2, <1>3 DEF ProvenanceInv, MarkersOK
<1> QED BY <1>4, <1>5 DEF ProvenanceInv

\* ProvenanceInv is inductive relative to TypeOK /\ PassOK.
LEMMA ProvenanceStep ==
  ASSUME TypeOK, PassOK, ProvenanceInv, [Next]_vars
  PROVE  ProvenanceInv'
<1> DEFINE Frame == UNCHANGED <<chName, chMark, made, nextMark>>
           Same == UNCHANGED <<diskChannels, channels>>
<1>1. Frame /\ Same => ProvenanceInv'
  <2>1. Same => \A s \in Spaces : Stands(diskChannels', s) /\ Stands(channels', s)
    BY DEF Stands
  <2> QED BY <2>1, ProvenanceKept
<1>2. Frame /\ EndPass /\ diskChannels' \in {diskChannels, channels} => ProvenanceInv'
  BY ProvenanceEnd
<1>3. ASSUME NEW p \in Procs, Observe(p) \/ Start(p) PROVE ProvenanceInv'
  <2>1. CASE Observe(p)
    BY <1>1, <2>1 DEF Observe, Quiet, relay, disk
  <2>2. CASE Start(p)
    <3>1. \A s \in Spaces : Stands(diskChannels', s) /\ Stands(channels', s)
      BY <2>2 DEF Start, disk, Stands
    <3> QED BY <2>2, <3>1, ProvenanceKept DEF Start, Quiet, relay
  <2> QED BY <1>3, <2>1, <2>2
<1>4. ASSUME NEW rs, NEW hidden, List(rs, hidden) PROVE ProvenanceInv'
  BY <1>1, <1>4 DEF List, Quiet, relay, disk, work
<1>5. ASSUME NEW s \in Spaces, BindMapped(s) \/ Adopt(s) PROVE ProvenanceInv'
  <2>1. \A t \in Spaces : Stands(diskChannels', t)
    BY <1>5 DEF BindMapped, Adopt, disk, Stands
  <2>2. channels'[s].origin = "created" =>
          channels[s].origin = "created" /\ channels'[s].ch = channels[s].ch
    BY <1>5 DEF BindMapped, Adopt, Bound, KnownOrigin, TypeOK, TypeState
  <2>3. channels'[s].origin # "creating" /\ \A t \in Spaces \ {s} : channels'[t] = channels[t]
    BY <1>5 DEF BindMapped, Adopt, Bound, KnownOrigin, TypeOK, TypeState
  <2>4. \A t \in Spaces : Stands(channels', t)
    BY <2>2, <2>3 DEF Stands
  <2> QED
    BY <1>5, <2>1, <2>4, ProvenanceKept DEF BindMapped, Adopt, Quiet, relay
<1>6. ASSUME NEW s \in Spaces, BeginUnarchive(s) \/ SkipSpace(s) PROVE ProvenanceInv'
  BY <1>1, <1>6 DEF BeginUnarchive, SkipSpace, Local, Quiet, relay, disk, work
<1>7. CASE Unarchive
  <2>1. Frame
    BY <1>7 DEF Unarchive, Ack, Lost
  <2>2. CASE Lost
    BY <1>2, <2>1, <2>2 DEF Lost, disk
  <2>3. CASE ~Lost
    <3>1. space \in Spaces /\ channels[space].origin = "created" /\ channels[space].ch = ch
      BY <1>7 DEF Unarchive, PassOK, TypeOK, TypePass
    <3>2. \A t \in Spaces : /\ diskChannels'[t].origin = channels[t].origin
                            /\ diskChannels'[t].ch = channels[t].ch
                            /\ diskChannels'[t].mark = channels[t].mark
      BY <1>7, <2>3, <3>1 DEF Unarchive, TypeOK, TypeState, Mappings
    <3>3. \A t \in Spaces : Stands(diskChannels', t)
      BY <3>2 DEF Stands
    <3>4. /\ channels'[space].origin = "created" /\ channels'[space].ch = ch
          /\ \A t \in Spaces \ {space} : channels'[t] = channels[t]
      BY <1>7, <2>3, <3>1 DEF Unarchive, Bound, TypeOK, TypeState
    <3>5. \A t \in Spaces : Stands(channels', t)
      BY <3>1, <3>4 DEF Stands
    <3> QED BY <2>1, <3>3, <3>5, ProvenanceKept
  <2> QED BY <2>2, <2>3
<1>8. CASE ReadMembers \/ ReadFailed \/ BridgeSettled \/ OwnerSettled
              \/ AgentsSettled \/ DepartedSettled
  BY <1>1, <1>8 DEF ReadMembers, ReadFailed, BridgeSettled, OwnerSettled, AgentsSettled,
                    DepartedSettled, Local, Quiet, relay, disk, work
<1>9. CASE InviteBridge \/ GrantOwner \/ AddAgent \/ ForgetDeparted
  <2>1. Frame /\ channels' = channels /\ diskChannels' \in {diskChannels, channels}
    BY <1>9 DEF InviteBridge, GrantOwner, AddAgent, ForgetDeparted, IntendAdd, Checkpoint,
                Quiet, relay, disk
  <2>2. \A s \in Spaces : Stands(diskChannels', s) /\ Stands(channels', s)
    BY <2>1 DEF Stands
  <2> QED BY <2>1, <2>2, ProvenanceKept
<1>10. CASE AddMember \/ RemoveMember
  <2>1. Frame
    BY <1>10 DEF AddMember, RemoveMember, Ack, Lost
  <2>2. CASE Lost
    BY <1>2, <2>1, <2>2 DEF Lost, disk
  <2>3. CASE ~Lost
    <3>1. channels' = channels /\ diskChannels' = channels
      BY <1>10, <2>3 DEF AddMember, RemoveMember, Checkpoint
    <3>2. \A s \in Spaces : Stands(diskChannels', s) /\ Stands(channels', s)
      BY <3>1 DEF Stands
    <3> QED BY <2>1, <3>2, ProvenanceKept
  <2> QED BY <2>2, <2>3
<1>11. CASE Archive
  <2>1. PICK s \in Spaces : \/ channels' = [channels EXCEPT ![s].arch = TRUE] /\ Checkpoint
                            \/ Lost
    BY <1>11 DEF Archive, Closed
  <2>2. Frame
    BY <1>11 DEF Archive, Ack, Lost
  <2>3. CASE Lost
    BY <1>2, <2>2, <2>3 DEF Lost, disk
  <2>4. CASE ~Lost
    <3>1. \A t \in Spaces : /\ channels'[t].origin = channels[t].origin
                            /\ channels'[t].ch = channels[t].ch
                            /\ channels'[t].mark = channels[t].mark
      BY <2>1, <2>4 DEF TypeOK, TypeState, Mappings
    <3>2. \A t \in Spaces : Stands(diskChannels', t) /\ Stands(channels', t)
      BY <2>1, <2>4, <3>1 DEF Checkpoint, Stands
    <3> QED BY <2>2, <3>2, ProvenanceKept
  <2> QED BY <2>3, <2>4
<1>12. CASE AddRefused \/ RemoveRefused \/ Finish \/ Abort
  BY <1>2, <1>12 DEF AddRefused, RemoveRefused, Finish, Abort, Quiet, relay, disk
<1>13. CASE Environment
  <2>1. CASE \E c \in HumanChannels, n \in Names, ks \in SUBSET (Readers \cup {Bridge}) :
               HumanCreates(c, n, ks)
    BY <2>1, ProvenanceHuman
  <2>2. Idle
    BY <1>13 DEF Environment, NameSpace, RunAgent, ExitAgent, HumanCreates, HumanSetsRole,
                 HumanArchives
  <2>3. CASE UNCHANGED <<chName, chMark, made>>
    BY <1>1, <2>2, <2>3 DEF Idle, disk, pass
  <2> QED
    BY <1>13, <2>1, <2>3 DEF Environment, NameSpace, RunAgent, ExitAgent, HumanSetsRole,
                             HumanArchives, relay
<1>14. CASE UNCHANGED vars
  BY <1>1, <1>14 DEF vars, relay, disk, pass
<1> QED
  BY <1>3, <1>4, <1>5, <1>6, <1>7, <1>8, <1>9, <1>10, <1>11, <1>12, <1>13, <1>14,
     ProvenanceRecover, ProvenanceIntend, ProvenanceCreate, ProvenanceUpdate
  DEF Next, PassStep

\* The initial state.
LEMMA ProvenanceInit == Init => ProvenanceInv
<1> SUFFICES ASSUME Init PROVE ProvenanceInv
  OBVIOUS
<1>1. \A s \in Spaces, m \in {diskChannels, channels} : m[s].origin = "none"
  BY DEF Init, Unmapped
<1>2. nextMark = 0 /\ \A c \in Channels : made[c] = None /\ chMark[c] = 0
  BY DEF Init
<1> QED
  BY <1>1, <1>2 DEF ProvenanceInv, CreatedProvenance, MarkersOK

\* A channel state.json or a running pass calls created was created by buzzr, for the
\* very Space it is mapped to, whatever calls failed or were answered too late and
\* wherever passes were killed (sync.rs 779-942).
THEOREM CreatedProvenanceHolds == Spec => []CreatedProvenance
<1>1. Init => TypeOK /\ PassOK /\ ProvenanceInv
  BY InitOK, ProvenanceInit
<1>2. TypeOK /\ PassOK /\ ProvenanceInv /\ [Next]_vars => (TypeOK /\ PassOK /\ ProvenanceInv)'
  BY StepOK, ProvenanceStep
<1>3. ProvenanceInv => CreatedProvenance
  BY DEF ProvenanceInv
<1> QED
  BY <1>1, <1>2, <1>3, PTL DEF Spec

----------------------------------------------------------------------------
(* MembershipInv: buzzr can find every membership it granted.              *)

\* Members of the channel at hand, and records, that a step does not touch.
LEMMA MembershipKept ==
  ASSUME MembershipInv, UNCHANGED <<chName, role, granted, diskMembers, members>>,
         pc = "idle" => pc' = "idle",
         pc' \in {"bridge", "owner", "agents", "departed"} =>
           UNCHANGED <<ch, roles>> /\ pc \in {"bridge", "owner", "agents", "add", "departed"},
         pc' # "add"
  PROVE  MembershipInv'
BY DEF MembershipInv

\* A pass that ends: what it wrote last is the file or its working copy.
LEMMA MembershipEnd ==
  ASSUME MembershipInv, EndPass, pc # "idle", diskMembers' \in {diskMembers, members},
         \A c \in Channels : chName[c] # None => chName'[c] # None,
         \A c \in Channels, k \in Keys :
           /\ role'[c][k] # None => role[c][k] # None \/ chName'[c] # None
           /\ <<c, k>> \in granted' =>
                /\ role'[c][k] # None /\ chName'[c] # None
                /\ <<c, k>> \in granted \/ diskMembers'[c][k].origin # "none"
  PROVE  MembershipInv'
<1>1. pc' = "idle"
  BY DEF EndPass
<1> QED
  BY <1>1 DEF MembershipInv

\* Once "adding" is on disk the record exists in both copies.
LEMMA MembershipIntend ==
  ASSUME TypeOK, MembershipInv, ch \in Channels, NEW k \in Keys, NEW r, IntendAdd(k, r),
         pc \in {"bridge", "owner", "agents"}
  PROVE  MembershipInv'
<1>1. /\ UNCHANGED <<chName, role, granted, ch, roles>> /\ pc' = "add" /\ target' = k
      /\ diskMembers' = members'
  BY DEF IntendAdd, Checkpoint, Quiet, relay
<1>2. \A c \in Channels, j \in Keys :
        members[c][j].origin # "none" \/ (c = ch /\ j = k) => members'[c][j].origin # "none"
  BY DEF IntendAdd, Record, TypeOK, TypeState
<1>3. \A c \in Channels, j \in Keys : <<c, j>> \in granted => members[c][j].origin # "none"
  BY DEF MembershipInv
<1> QED
  BY <1>1, <1>2, <1>3 DEF MembershipInv

\* A channel that is created had no members buzzr could have granted.
LEMMA MembershipCreate ==
  ASSUME TypeOK, PassOK, MembershipInv, Create
  PROVE  MembershipInv'
<1>1. channels[space].name # None /\ pc # "idle"
  BY TopoType DEF Create, PassOK, TypeOK, TypePass
<1>2. PICK c \in Channels :
       /\ chName[c] = None /\ chName' = [chName EXCEPT ![c] = channels[space].name]
       /\ role' = [role EXCEPT ![c] = [NoRoles EXCEPT ![Bridge] = "owner"]]
       /\ granted' = granted
       /\ \/ /\ members' = Record(c, Bridge, "added", "owner") /\ diskMembers' = members'
             /\ pc' = "update"
          \/ Lost
  BY DEF Create, Checkpoint
<1>3. \A j \in Keys : <<c, j>> \notin granted
  BY <1>2 DEF MembershipInv
<1>4. /\ chName'[c] # None
      /\ \A d \in Channels \ {c} : chName'[d] = chName[d] /\ role'[d] = role[d]
  BY <1>1, <1>2 DEF TypeOK, TypeWorld
<1>5. CASE Lost
  BY <1>1, <1>2, <1>3, <1>4, <1>5, MembershipEnd DEF Lost, disk, MembershipInv
<1>6. CASE ~Lost
  <2>1. \A d \in Channels \ {c}, j \in Keys : members'[d][j] = members[d][j]
    BY <1>2, <1>6 DEF Record, TypeOK, TypeState
  <2> QED
    BY <1>1, <1>2, <1>3, <1>4, <1>6, <2>1 DEF MembershipInv
<1> QED BY <1>5, <1>6

\* update_channel leaves the members alone.
LEMMA MembershipUpdate ==
  ASSUME TypeOK, PassOK, MembershipInv, Update
  PROVE  MembershipInv'
<1>1. channels[space].name # None /\ ch \in Channels /\ pc = "update"
  BY TopoType DEF Update, PassOK, TypeOK, TypePass
<1>2. \A d \in Channels : chName[d] # None => chName'[d] # None
  BY <1>1 DEF Update, TypeOK, TypeWorld
<1>3. UNCHANGED <<role, granted, diskMembers>>
  BY DEF Update, disk, Lost
<1>4. CASE Lost
  BY <1>1, <1>2, <1>3, <1>4, MembershipEnd DEF Lost, MembershipInv
<1>5. CASE ~Lost
  BY <1>1, <1>2, <1>3, <1>5 DEF Update, Goto, work, MembershipInv
<1> QED BY <1>4, <1>5

\* add_member grants what is recorded as "adding".
LEMMA MembershipAdd ==
  ASSUME TypeOK, PassOK, MembershipInv, AddMember
  PROVE  MembershipInv'
<1> DEFINE r == members[ch][target].role
<1>1. ch \in Channels /\ target \in Keys /\ r \in Roles /\ r # None /\ pc = "add"
  BY KeysAssumption DEF KeysAssumption, AddMember, PassOK
<1>2. chName[ch] # None /\ diskMembers[ch][target].origin # "none"
  <2>1. Bridge \in Keys /\ Readers \subseteq Keys
    BY KeysAssumption DEF KeysAssumption, Keys
  <2>2. \E k \in Keys : role[ch][k] # None
    BY <2>1 DEF AddMember, Callers
  <2> QED BY <1>1, <2>2 DEF MembershipInv
<1>3. /\ role'[ch][target] # None
      /\ \A c \in Channels, k \in Keys : c # ch \/ k # target => role'[c][k] = role[c][k]
  BY <1>1 DEF AddMember, TypeOK, TypeWorld
<1>4. granted' \subseteq granted \cup {<<ch, target>>} /\ chName' = chName
  BY DEF AddMember
<1>5. CASE Lost
  BY <1>1, <1>2, <1>3, <1>4, <1>5, MembershipEnd DEF Lost, disk, MembershipInv
<1>6. CASE ~Lost
  <2>1. /\ members' = Record(ch, target, "added", r) /\ diskMembers' = members'
        /\ roles' = [roles EXCEPT ![target] = r] /\ ch' = ch /\ pc' \in {"agents", "owner"}
    BY <1>6 DEF AddMember, Checkpoint
  <2>2. \A c \in Channels, k \in Keys :
          members[c][k].origin # "none" \/ (c = ch /\ k = target) =>
            members'[c][k].origin # "none"
    BY <1>1, <2>1 DEF Record, TypeOK, TypeState
  <2>3. \A k \in Keys : roles'[k] = None => roles[k] = None /\ k # target
    BY <1>1, <2>1 DEF TypeOK, TypePass
  <2> QED
    BY <1>1, <1>2, <1>3, <1>4, <2>1, <2>2, <2>3 DEF MembershipInv
<1> QED BY <1>5, <1>6

\* A bot missing from current_roles holds no membership of buzzr's.
LEMMA MembershipForget ==
  ASSUME TypeOK, PassOK, MembershipInv, ForgetDeparted
  PROVE  MembershipInv'
<1>1. PICK k \in Departed : /\ roles[k] = None
                            /\ members' = [members EXCEPT ![ch][k] = NoRecord]
  BY DEF ForgetDeparted
<1>2. ch \in Channels /\ k \in Keys /\ <<ch, k>> \notin granted
  BY <1>1 DEF ForgetDeparted, PassOK, Departed, MembershipInv
<1>3. \A c \in Channels, j \in Keys : c # ch \/ j # k => members'[c][j] = members[c][j]
  BY <1>1 DEF TypeOK, TypeState
<1>4. UNCHANGED <<chName, role, granted, diskMembers, pc, ch, roles>> /\ pc = "departed"
  BY DEF ForgetDeparted, Quiet, relay, disk
<1> QED BY <1>2, <1>3, <1>4 DEF MembershipInv

\* remove_member takes the membership before its record goes.
LEMMA MembershipRemove ==
  ASSUME TypeOK, PassOK, MembershipInv, RemoveMember
  PROVE  MembershipInv'
<1>1. PICK k \in Removable :
       /\ role' = [role EXCEPT ![ch][k] = None] /\ granted' = granted \ {<<ch, k>>}
       /\ \/ /\ members' = [members EXCEPT ![ch][k] = NoRecord] /\ diskMembers' = members'
             /\ roles' = [roles EXCEPT ![k] = None] /\ UNCHANGED <<pc, ch>>
          \/ Lost
  BY DEF RemoveMember, Checkpoint
<1>2. ch \in Channels /\ k \in Keys /\ pc = "departed" /\ chName' = chName
  BY DEF RemoveMember, PassOK, Removable, Departed
<1>3. /\ role'[ch][k] = None
      /\ \A c \in Channels, j \in Keys : c # ch \/ j # k => role'[c][j] = role[c][j]
  BY <1>1, <1>2 DEF TypeOK, TypeWorld
<1>4. CASE Lost
  BY <1>1, <1>2, <1>3, <1>4, MembershipEnd DEF Lost, disk, MembershipInv
<1>5. CASE ~Lost
  <2>1. \A c \in Channels, j \in Keys : c # ch \/ j # k => members'[c][j] = members[c][j]
    BY <1>1, <1>5 DEF TypeOK, TypeState
  <2>2. \A j \in Keys : roles'[j] = None => j = k \/ roles[j] = None
    BY <1>1, <1>5 DEF TypeOK, TypePass
  <2> QED BY <1>1, <1>2, <1>3, <1>5, <2>1, <2>2 DEF MembershipInv
<1> QED BY <1>4, <1>5

\* Herdr and people: who is removed holds nothing of buzzr's any more.
LEMMA MembershipHuman ==
  ASSUME TypeOK, MembershipInv, Environment
  PROVE  MembershipInv'
<1>1. UNCHANGED <<diskMembers, members, pc, ch, roles, target>>
  BY DEF Environment, NameSpace, RunAgent, ExitAgent, HumanCreates, HumanSetsRole,
         HumanArchives, Idle, disk, pass
<1>2. CASE UNCHANGED <<chName, role, granted>>
  BY <1>1, <1>2 DEF MembershipInv
<1>3. ASSUME NEW c \in HumanChannels, NEW n \in Names, NEW ks, HumanCreates(c, n, ks)
      PROVE  MembershipInv'
  <2>1. n # None /\ c \in Channels
    BY KeysAssumption DEF KeysAssumption
  <2>2. chName'[c] # None /\ granted' = granted /\ \A j \in Keys : <<c, j>> \notin granted
    BY <1>3, <2>1 DEF HumanCreates, TypeOK, TypeWorld, MembershipInv
  <2>3. \A d \in Channels \ {c} : chName'[d] = chName[d] /\ role'[d] = role[d]
    BY <1>3, <2>1 DEF HumanCreates, TypeOK, TypeWorld
  <2> QED BY <1>1, <2>2, <2>3 DEF MembershipInv
<1>4. ASSUME NEW c \in Channels, NEW k \in Keys, NEW r \in Roles \cup {None},
             HumanSetsRole(c, k, r)
      PROVE  MembershipInv'
  <2>1. chName[c] # None /\ chName' = chName
    BY <1>4 DEF HumanSetsRole
  <2>2. /\ role'[c][k] = r /\ (r = None => <<c, k>> \notin granted') /\ granted' \subseteq granted
        /\ \A d \in Channels, j \in Keys : d # c \/ j # k => role'[d][j] = role[d][j]
    BY <1>4 DEF HumanSetsRole, TypeOK, TypeWorld
  <2> QED BY <1>1, <2>1, <2>2 DEF MembershipInv
<1> QED
  BY <1>2, <1>3, <1>4 DEF Environment, NameSpace, RunAgent, ExitAgent, HumanArchives, relay

\* MembershipInv is inductive relative to TypeOK /\ PassOK.
LEMMA MembershipStep ==
  ASSUME TypeOK, PassOK, MembershipInv, [Next]_vars
  PROVE  MembershipInv'
<1> DEFINE Frame == UNCHANGED <<chName, role, granted, diskMembers, members>>
<1>1. ASSUME NEW p \in Procs, Observe(p) \/ Start(p) PROVE MembershipInv'
  <2>1. CASE Observe(p)
    BY <2>1 DEF Observe, Quiet, relay, disk, MembershipInv
  <2>2. CASE Start(p)
    BY <2>2 DEF Start, Quiet, relay, disk, MembershipInv
  <2> QED BY <1>1, <2>1, <2>2
<1>2. ASSUME NEW rs, NEW hidden, List(rs, hidden) PROVE MembershipInv'
  BY <1>2, MembershipKept DEF List, Goto, Quiet, relay, disk, work
<1>3. ASSUME NEW s \in Spaces, BindMapped(s) \/ Adopt(s) \/ BeginUnarchive(s) \/ SkipSpace(s)
      PROVE  MembershipInv'
  <2>1. Frame /\ pc = "spaces" /\ pc' \in {"read", "unarchive", "spaces"}
    BY <1>3 DEF BindMapped, Adopt, BeginUnarchive, SkipSpace, Working, Local, Quiet, relay,
                disk, work
  <2> QED BY <2>1, MembershipKept
<1>4. ASSUME NEW s \in Spaces, Recover(s) \/ IntendCreate(s) PROVE MembershipInv'
  BY <1>4 DEF Recover, IntendCreate, Working, Checkpoint, Quiet, relay, MembershipInv
<1>5. CASE Unarchive
  <2>1. UNCHANGED <<chName, role, granted>> /\ pc = "unarchive"
    BY <1>5 DEF Unarchive
  <2>2. CASE Lost
    BY <2>1, <2>2, MembershipEnd DEF Lost, disk, MembershipInv
  <2>3. CASE ~Lost
    BY <1>5, <2>1, <2>3 DEF Unarchive, Goto, MembershipInv
  <2> QED BY <2>2, <2>3
<1>6. CASE ReadMembers
  <2>1. Frame /\ pc' = "bridge" /\ ch' = ch /\ roles' = role[ch] /\ ch \in Channels
    BY <1>6 DEF ReadMembers, Local, Quiet, relay, disk, work, PassOK
  <2>2. pc = "read"
    BY <1>6 DEF ReadMembers
  <2> QED BY <2>1, <2>2 DEF MembershipInv
<1>7. CASE ReadFailed \/ BridgeSettled \/ OwnerSettled \/ AgentsSettled \/ DepartedSettled
  <2>1. Frame /\ pc \in {"read", "bridge", "owner", "agents", "departed"}
    BY <1>7 DEF ReadFailed, BridgeSettled, OwnerSettled, AgentsSettled, DepartedSettled,
                Local, Quiet, relay, disk, work
  <2>2. \/ pc' = "spaces"
        \/ pc # "read" /\ pc' \in {"owner", "agents", "departed"} /\ UNCHANGED <<ch, roles>>
    BY <1>7 DEF ReadFailed, BridgeSettled, OwnerSettled, AgentsSettled, DepartedSettled,
                NextSpace, Goto
  <2> QED BY <2>1, <2>2, MembershipKept
<1>8. CASE InviteBridge \/ GrantOwner \/ AddAgent
  <2>1. ch \in Channels /\ space \in Spaces /\ holder # None
    BY <1>8 DEF InviteBridge, GrantOwner, AddAgent, PassOK, TypeOK, TypePass
  <2>2. Topo.live[space] \subseteq Agents
    BY <2>1, TopoType DEF TypeOK
  <2>3. (\E k \in Keys : \E r \in Roles : IntendAdd(k, r)) /\ pc \in {"bridge", "owner", "agents"}
    BY <1>8, <2>2
    DEF InviteBridge, GrantOwner, AddAgent, MissingOwners, MissingAgents, Keys, Roles
  <2> QED BY <2>1, <2>3, MembershipIntend
<1>9. CASE Archive
  <2>1. UNCHANGED <<chName, role, granted>> /\ pc = "spaces"
    BY <1>9 DEF Archive
  <2>2. CASE Lost
    BY <2>1, <2>2, MembershipEnd DEF Lost, disk, MembershipInv
  <2>3. CASE ~Lost
    BY <1>9, <2>1, <2>3 DEF Archive, Goto, Checkpoint, MembershipInv
  <2> QED BY <2>2, <2>3
<1>10. CASE AddRefused \/ RemoveRefused \/ Finish \/ Abort
  <2>1. /\ UNCHANGED <<chName, role, granted>> /\ EndPass /\ pc # "idle"
        /\ diskMembers' \in {diskMembers, members}
    BY <1>10 DEF AddRefused, RemoveRefused, Finish, Abort, Quiet, relay, disk, PassOK
  <2> QED BY <2>1, MembershipEnd DEF MembershipInv
<1>11. CASE UNCHANGED vars
  BY <1>11 DEF vars, relay, disk, pass, MembershipInv
<1> QED
  BY <1>1, <1>2, <1>3, <1>4, <1>5, <1>6, <1>7, <1>8, <1>9, <1>10, <1>11, MembershipCreate,
     MembershipUpdate, MembershipAdd, MembershipForget, MembershipRemove, MembershipHuman
  DEF Next, PassStep

\* The initial state.
LEMMA MembershipInit == Init => MembershipInv
BY DEF Init, NoRoles, MembershipInv

\* Whenever a pass is killed, state.json names every membership that exists because
\* buzzr granted it, so that cleanup can find it (sync.rs 42-77, 1045-1134).
THEOREM MembershipTrackedHolds == Spec => []MembershipTracked
<1>1. Init => TypeOK /\ PassOK /\ MembershipInv
  BY InitOK, MembershipInit
<1>2. TypeOK /\ PassOK /\ MembershipInv /\ [Next]_vars => (TypeOK /\ PassOK /\ MembershipInv)'
  BY StepOK, MembershipStep
<1>3. MembershipInv => MembershipTracked
  BY DEF MembershipInv, MembershipTracked
<1> QED
  BY <1>1, <1>2, <1>3, PTL DEF Spec

----------------------------------------------------------------------------
(* Reconciliation as the ledger sees it: memberships resolved or not, and  *)
(* those that exist because buzzr granted them.                            *)

Recorded == {m \in Channels \X Keys : diskMembers[m[1]][m[2]].origin # "none"}

L == INSTANCE Ledger WITH recorded <- Recorded, granted <- granted

\* What is granted is on record.
LEMMA GrantedRecorded ==
  ASSUME granted \subseteq Channels \X Keys, MembershipInv
  PROVE  granted \subseteq Recorded
<1> SUFFICES ASSUME NEW m \in granted PROVE m \in Recorded OBVIOUS
<1>1. PICK c \in Channels, k \in Keys : m = <<c, k>> OBVIOUS
<1> QED BY <1>1 DEF Recorded, MembershipInv

\* While add_member is called the file is the working copy.
AddSaved == pc = "add" => diskMembers = members

LEMMA AddSavedStep ==
  ASSUME PassOK, AddSaved, [Next]_vars
  PROVE  AddSaved'
<1> SUFFICES ASSUME pc' = "add" PROVE diskMembers' = members'
  BY DEF AddSaved
<1>1. CASE InviteBridge \/ GrantOwner \/ AddAgent
  BY <1>1 DEF InviteBridge, GrantOwner, AddAgent, IntendAdd, Checkpoint
<1>2. CASE UNCHANGED <<pc, disk, members>>
  BY <1>2 DEF AddSaved, disk
<1>3. ASSUME NEW p \in Procs, Observe(p) \/ Start(p) PROVE UNCHANGED <<pc, disk, members>>
  BY <1>3 DEF Observe, Start
<1>4. CASE Environment \/ UNCHANGED vars
  BY <1>2, <1>4 DEF Environment, NameSpace, RunAgent, ExitAgent, HumanCreates, HumanSetsRole,
                    HumanArchives, Idle, pass, vars
<1>5. ASSUME NEW rs, NEW hidden, List(rs, hidden) PROVE FALSE
  BY <1>5 DEF List, Goto
<1>6. ASSUME NEW s \in Spaces, \/ BeginUnarchive(s) \/ BindMapped(s) \/ Recover(s)
                              \/ Adopt(s) \/ SkipSpace(s) \/ IntendCreate(s)
      PROVE  FALSE
  BY <1>6 DEF BeginUnarchive, BindMapped, Recover, Adopt, SkipSpace, IntendCreate
<1>7. ~EndPass /\ ~Lost
  BY DEF EndPass, Lost
<1>8. ~(Unarchive \/ Create \/ Update \/ ReadMembers \/ ReadFailed)
  BY <1>7 DEF Unarchive, Create, Update, ReadMembers, ReadFailed, Goto, NextSpace
<1>9. ~(BridgeSettled \/ OwnerSettled \/ AgentsSettled \/ DepartedSettled \/ AddMember)
  BY <1>7 DEF BridgeSettled, OwnerSettled, AgentsSettled, DepartedSettled, AddMember, Goto,
              NextSpace
<1>10. ~(AddRefused \/ ForgetDeparted \/ RemoveMember \/ RemoveRefused)
  BY <1>7 DEF AddRefused, ForgetDeparted, RemoveMember, RemoveRefused
<1>11. ~(Archive \/ Finish \/ Abort)
  BY <1>7 DEF Archive, Finish, Abort, Goto
<1> QED
  BY <1>1, <1>2, <1>3, <1>4, <1>5, <1>6, <1>8, <1>9, <1>10, <1>11 DEF Next, PassStep

\* A membership comes into being only where add_member is called for a key that is on
\* record, and its answer, which turns "adding" into "added", leaves who is.
LEMMA AddGrants ==
  ASSUME TypeOK, PassOK, MembershipInv, AddSaved, AddMember
  PROVE  L!Grant
<1> DEFINE r == members[ch][target].role
<1>1. ch \in Channels /\ target \in Keys /\ pc = "add" BY DEF AddMember, PassOK
<1>2. diskMembers = members /\ members[ch][target].origin # "none"
  BY <1>1 DEF AddSaved, MembershipInv
<1>3. granted' \subseteq granted \cup {<<ch, target>>} /\ granted \subseteq granted'
  BY DEF AddMember
<1>4. granted \subseteq Recorded BY GrantedRecorded DEF TypeOK, TypeWorld
<1>5. <<ch, target>> \in Recorded BY <1>1, <1>2 DEF Recorded
<1>6. \A c \in Channels, k \in Keys :
        diskMembers'[c][k].origin = "none" <=> diskMembers[c][k].origin = "none"
  <2>1. CASE Lost BY <2>1 DEF Lost, disk
  <2>2. CASE ~Lost
    <3>1. diskMembers' = Record(ch, target, "added", r)
      BY <2>2 DEF AddMember, Checkpoint
    <3>2. members \in [Channels -> [Keys -> Records]] BY DEF TypeOK, TypeState
    <3>3. /\ diskMembers'[ch][target].origin = "added"
          /\ \A c \in Channels, k \in Keys : c # ch \/ k # target =>
               diskMembers'[c][k] = members[c][k]
      BY <1>1, <3>1, <3>2 DEF Record
    <3> QED BY <1>2, <3>3
  <2> QED BY <2>1, <2>2
<1>7. Recorded' = Recorded BY <1>6 DEF Recorded
<1> QED BY <1>3, <1>4, <1>5, <1>7 DEF L!Grant

\* Nothing else brings a membership into being on buzzr's account.
LEMMA GrantsByAddOnly ==
  ASSUME [Next]_vars, ~AddMember
  PROVE  granted' \subseteq granted
<1>1. ASSUME NEW p \in Procs, Observe(p) \/ Start(p) PROVE granted' = granted
  BY <1>1 DEF Observe, Start, Quiet, relay
<1>2. ASSUME NEW rs, NEW hidden, List(rs, hidden) PROVE granted' = granted
  BY <1>2 DEF List, Quiet, relay
<1>3. ASSUME NEW s \in Spaces, \/ BeginUnarchive(s) \/ BindMapped(s) \/ Recover(s)
                              \/ Adopt(s) \/ SkipSpace(s) \/ IntendCreate(s)
      PROVE  granted' = granted
  BY <1>3 DEF BeginUnarchive, BindMapped, Recover, Adopt, SkipSpace, IntendCreate, Local, Quiet,
              relay
<1>4. CASE Unarchive \/ Create \/ Update \/ ReadMembers \/ ReadFailed
  BY <1>4 DEF Unarchive, Create, Update, ReadMembers, ReadFailed, Local, Quiet, relay
<1>5. CASE InviteBridge \/ GrantOwner \/ AddAgent
  BY <1>5 DEF InviteBridge, GrantOwner, AddAgent, IntendAdd, Quiet, relay
<1>6. CASE BridgeSettled \/ OwnerSettled \/ AgentsSettled \/ DepartedSettled
  BY <1>6 DEF BridgeSettled, OwnerSettled, AgentsSettled, DepartedSettled, Local, Quiet, relay
<1>7. CASE AddRefused \/ ForgetDeparted \/ RemoveMember \/ RemoveRefused
  BY <1>7 DEF AddRefused, ForgetDeparted, RemoveMember, RemoveRefused, Quiet, relay
<1>8. CASE Archive \/ Finish \/ Abort
  BY <1>8 DEF Archive, Finish, Abort, Quiet, relay
<1>9. CASE Environment \/ UNCHANGED vars
  BY <1>9 DEF Environment, NameSpace, RunAgent, ExitAgent, HumanCreates, HumanSetsRole,
              HumanArchives, relay, vars
<1> QED BY <1>1, <1>2, <1>3, <1>4, <1>5, <1>6, <1>7, <1>8, <1>9 DEF Next, PassStep

\* Reconciliation implements the ledger that cleanup goes by: whatever is killed or lost, a
\* membership is on record in state.json before add_member brings it into being, and until
\* buzzr or people have undone it (sync.rs 1045-1134, 1161-1204).
THEOREM MembershipsKeepLedger == Spec => L!Spec
<1> DEFINE IInv == TypeOK /\ PassOK /\ MembershipInv /\ AddSaved
<1>1. Init => IInv
  BY InitOK, MembershipInit DEF Init, AddSaved
<1>2. IInv /\ [Next]_vars => IInv'
  BY StepOK, MembershipStep, AddSavedStep
<1>3. IInv => granted \subseteq Recorded
  BY GrantedRecorded DEF TypeOK, TypeWorld
<1>4. (IInv => granted \subseteq Recorded)'
  BY <1>3, PTL
<1>5. IInv /\ IInv' /\ [Next]_vars => [L!Next]_<<Recorded, granted>>
  <2> SUFFICES ASSUME IInv, IInv', [Next]_vars PROVE L!Next OBVIOUS
  <2>1. CASE AddMember BY <2>1, AddGrants DEF L!Next
  <2>2. CASE ~AddMember
    <3>1. granted' \subseteq granted BY <2>2, GrantsByAddOnly
    <3>2. granted' \subseteq Recorded' BY <1>4
    <3> QED BY <3>1, <3>2 DEF L!Next, L!Write
  <2> QED BY <2>1, <2>2
<1>6. granted \subseteq Recorded => L!Init BY DEF L!Init
<1> HIDE DEF IInv
<1> QED BY <1>1, <1>2, <1>3, <1>5, <1>6, PTL DEF Spec, L!Spec

----------------------------------------------------------------------------
(* What a step archives.                                                   *)

\* Only archive_channel archives for buzzr, and what it archives is mapped as created.
LEMMA ArchiveStep ==
  ASSUME TypeOK, PassOK, ProvenanceInv, [Next]_vars, NEW c \in Channels,
         arch[c] = "no", arch'[c] = "buzzr"
  PROVE  made[c] # None
<1>1. CASE Archive
  <2>1. PICK s \in Closed :
          arch' = [arch EXCEPT ![channels[s].ch] = IF @ = "no" THEN "buzzr" ELSE @]
    BY <1>1 DEF Archive
  <2>2. channels[s].ch = c
    BY <2>1 DEF TypeOK, TypeWorld
  <2>3. s \in Spaces /\ channels[s].origin = "created"
    BY <2>1 DEF Closed
  <2> QED BY <2>2, <2>3 DEF ProvenanceInv, CreatedProvenance
<1>2. CASE Unarchive
  BY <1>2 DEF Unarchive, TypeOK, TypeWorld
<1>3. CASE \E d \in Channels, a \in {"no", "human"} : HumanArchives(d, a)
  BY <1>3 DEF HumanArchives, TypeOK, TypeWorld
<1>4. CASE UNCHANGED arch
  BY <1>4
<1>5. CASE PassStep /\ ~Archive /\ ~Unarchive
  BY <1>4, <1>5
  DEF PassStep, List, BeginUnarchive, BindMapped, Recover, Adopt, SkipSpace, IntendCreate,
      Create, Update, ReadMembers, ReadFailed, InviteBridge, BridgeSettled, GrantOwner,
      OwnerSettled, AddAgent, AgentsSettled, AddMember, AddRefused, ForgetDeparted,
      RemoveMember, RemoveRefused, DepartedSettled, Finish, IntendAdd, Local, Quiet, relay
<1>6. CASE \/ \E p \in Procs : Observe(p) \/ Start(p)
           \/ Abort
           \/ UNCHANGED vars
  BY <1>4, <1>6 DEF Observe, Start, Abort, Quiet, relay, vars
<1>7. CASE Environment /\ ~\E d \in Channels, a \in {"no", "human"} : HumanArchives(d, a)
  BY <1>4, <1>7 DEF Environment, NameSpace, RunAgent, ExitAgent, HumanCreates, HumanSetsRole,
                    relay
<1> QED BY <1>1, <1>2, <1>3, <1>5, <1>6, <1>7 DEF Next

\* No step of buzzr archives a channel people made, however the mapping of the closed
\* Space came about (sync.rs 1207-1261).
THEOREM ArchivesOnlyCreatedHolds == Spec => ArchivesOnlyCreated
<1>1. Init => TypeOK /\ PassOK /\ ProvenanceInv
  BY InitOK, ProvenanceInit
<1>2. TypeOK /\ PassOK /\ ProvenanceInv /\ [Next]_vars => (TypeOK /\ PassOK /\ ProvenanceInv)'
  BY StepOK, ProvenanceStep
<1>3. TypeOK /\ PassOK /\ ProvenanceInv /\ [Next]_vars =>
        [\A c \in Channels : arch[c] = "no" /\ arch'[c] = "buzzr" => made[c] # None]_vars
  BY ArchiveStep
<1> QED
  BY <1>1, <1>2, <1>3, PTL DEF Spec, ArchivesOnlyCreated
====
