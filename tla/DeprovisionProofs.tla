------------------------- MODULE DeprovisionProofs -------------------------
(***************************************************************************)
(* Proofs about cleanup, for any number of cleanups at a time, keys,       *)
(* Spaces, channels and earlier failures.  CleanupInv is inductive; the    *)
(* second part proves that a cleanup can be retried: one that runs         *)
(* undisturbed fails only where people stand in its way (FailsOnlyBlocked),*)
(* by RetryInv, which is inductive relative to CleanupInv.                 *)
(***************************************************************************)
EXTENDS Deprovision, TLAPS

----------------------------------------------------------------------------
(* Steps and resources, kind by kind.                                      *)

\* What the assumption says of keys, bounds and the order.
LEMMA Bounds == /\ Bridge \in Keys /\ None \notin Keys /\ None \notin Spaces
                /\ None \notin Channels /\ MaxFaults \in Nat /\ MaxChanges \in Nat
BY DeprovisionAssumption

\* The names of the kinds are different.
LEMMA UndoesKind ==
  ASSUME NEW s
  PROVE  /\ s.do = "archiveChannel" =>
              Undoes(s) = {Resource("channel", s.ch, None)}
                            \cup {Resource("in", s.ch, k) : k \in Keys}
         /\ s.do = "removeMember" => Undoes(s) = {Resource("in", s.ch, s.key)}
         /\ s.do = "archiveIdentity" => Undoes(s) = {Resource("identity", None, s.key)}
         /\ s.do = "clearOwner" => Undoes(s) = {Resource("ownership", None, s.key)}
         /\ s.do = "removeRelay" => Undoes(s) = {Resource("relay", None, s.key)}
BY DEF Undoes

\* What it means for a resource to be in effect.
LEMMA InEffectKind ==
  ASSUME NEW c, NEW k
  PROVE  /\ InEffect(Resource("channel", c, k)) <=> c \notin archived
         /\ InEffect(Resource("in", c, k)) <=> role[c][k] # None
         /\ InEffect(Resource("identity", c, k)) <=> k \notin gone
         /\ InEffect(Resource("ownership", c, k)) <=> k \in owned
         /\ InEffect(Resource("relay", c, k)) <=> k \in member
BY DEF InEffect, Resource

\* Resources are equal when all that tells them apart is.
LEMMA ResourceEq ==
  ASSUME NEW a, NEW b, NEW c, NEW d, NEW e, NEW f
  PROVE  Resource(a, b, c) = Resource(d, e, f) <=> a = d /\ b = e /\ c = f
BY DEF Resource

\* What the record proves, kind by kind.
LEMMA ProvenanceKind ==
  ASSUME NEW c, NEW k
  PROVE  /\ Resource("channel", c, k) \in Provenance <=>
              k = None /\ \E w \in ToArchive : mapping[w].ch = c
         /\ Resource("in", c, k) \in Provenance <=>
              c \in Channels /\ k \in claimed /\ Tracked(c, k)
         /\ Resource("identity", c, k) \in Provenance <=>
              c = None /\ k \in (claimed \ retired) \cup (intents \cap configured)
         /\ Resource("ownership", c, k) \in Provenance <=>
              c = None /\ k \in claimed \cap recOwners
         /\ Resource("relay", c, k) \in Provenance <=>
              c = None /\ k \in claimed \cap recMembers
<1> DEFINE C == {Resource("channel", mapping[w].ch, None) : w \in ToArchive}
           I == {Resource("in", m[1], m[2]) :
                   m \in {n \in Channels \X claimed : Tracked(n[1], n[2])}}
           D == {Resource("identity", None, i) :
                   i \in (claimed \ retired) \cup (intents \cap configured)}
           O == {Resource("ownership", None, i) : i \in claimed \cap recOwners}
           R == {Resource("relay", None, i) : i \in claimed \cap recMembers}
<1>1. Provenance = C \cup I \cup D \cup O \cup R BY DEF Provenance
<1>2. /\ \A r \in C : r.what = "channel"
      /\ \A r \in I : r.what = "in"
      /\ \A r \in D : r.what = "identity"
      /\ \A r \in O : r.what = "ownership"
      /\ \A r \in R : r.what = "relay"
  BY DEF Resource
<1>3. \A x \in {"channel", "in", "identity", "ownership", "relay"} :
        Resource(x, c, k).what = x
  BY DEF Resource
<1>4. /\ Resource("channel", c, k) \in Provenance <=> Resource("channel", c, k) \in C
      /\ Resource("in", c, k) \in Provenance <=> Resource("in", c, k) \in I
      /\ Resource("identity", c, k) \in Provenance <=> Resource("identity", c, k) \in D
      /\ Resource("ownership", c, k) \in Provenance <=> Resource("ownership", c, k) \in O
      /\ Resource("relay", c, k) \in Provenance <=> Resource("relay", c, k) \in R
  <2> HIDE DEF C, I, D, O, R
  <2> QED BY <1>1, <1>2, <1>3
<1>5. Resource("channel", c, k) \in C <=> k = None /\ \E w \in ToArchive : mapping[w].ch = c
  BY ResourceEq
<1>6. Resource("in", c, k) \in I <=> c \in Channels /\ k \in claimed /\ Tracked(c, k)
  <2>1. ASSUME c \in Channels, k \in claimed, Tracked(c, k) PROVE Resource("in", c, k) \in I
    <3>1. <<c, k>> \in {n \in Channels \X claimed : Tracked(n[1], n[2])} BY <2>1
    <3> QED BY <3>1
  <2>2. ASSUME Resource("in", c, k) \in I
        PROVE  c \in Channels /\ k \in claimed /\ Tracked(c, k)
    <3>1. PICK n \in Channels \X claimed :
            Tracked(n[1], n[2]) /\ Resource("in", c, k) = Resource("in", n[1], n[2])
      BY <2>2
    <3>2. c = n[1] /\ k = n[2] BY <3>1, ResourceEq
    <3> QED BY <3>1, <3>2
  <2> QED BY <2>1, <2>2
<1>7. Resource("identity", c, k) \in D <=>
        c = None /\ k \in (claimed \ retired) \cup (intents \cap configured)
  BY ResourceEq
<1>8. Resource("ownership", c, k) \in O <=> c = None /\ k \in claimed \cap recOwners
  BY ResourceEq
<1>9. Resource("relay", c, k) \in R <=> c = None /\ k \in claimed \cap recMembers
  BY ResourceEq
<1> HIDE DEF C, I, D, O, R
<1> QED BY <1>4, <1>5, <1>6, <1>7, <1>8, <1>9

----------------------------------------------------------------------------
(* Types.                                                                  *)

\* The current step is one of the plan.
LEMMA Current ==
  ASSUME CleanupInv, NEW c \in Commands, pc[c] \in {"look", "call", "note"}
  PROVE  /\ target[c] \in plan[c] /\ target[c] \in Steps /\ StepOK(target[c])
         /\ target[c].do \in Kinds
         /\ target[c].do = "archiveChannel" => target[c].ch \in Channels
         /\ target[c].do = "removeMember" => target[c].ch \in Channels /\ target[c].key \in Keys
         /\ target[c].do \notin {"archiveChannel", "removeMember"} => target[c].key \in Keys
<1>1. target[c] \in plan[c] BY DEF CleanupInv, PlanOK
<1>2. plan[c] \subseteq Steps BY DEF CleanupInv, TypeOK
<1>3. StepOK(target[c]) BY <1>1 DEF CleanupInv, PlanOK
<1>4. target[c].do \in Kinds BY <1>1, <1>2 DEF Steps
<1> QED BY <1>1, <1>2, <1>3, <1>4 DEF StepOK

\* Resources are what a step undoes.
LEMMA UndoesType ==
  ASSUME NEW s \in Steps, StepOK(s)
  PROVE  Undoes(s) \subseteq Resources /\ Undoing(s) \subseteq Resources
<1>1. s.do \in Kinds BY DEF Steps
<1>2. \A x \in {"channel", "in", "identity", "ownership", "relay"},
         ch \in Channels \cup {None}, k \in Keys \cup {None} :
        Resource(x, ch, k) \in Resources
  BY DEF Resource, Resources
<1>3. CASE s.do = "archiveChannel"
  <2>1. s.ch \in Channels BY <1>3 DEF StepOK
  <2> QED BY <1>2, <1>3, <2>1, UndoesKind DEF Undoing
<1>4. CASE s.do = "removeMember"
  <2>1. s.ch \in Channels /\ s.key \in Keys BY <1>4 DEF StepOK
  <2> QED BY <1>2, <1>4, <2>1, UndoesKind DEF Undoing
<1>5. CASE s.do \in {"archiveIdentity", "clearOwner", "removeRelay"}
  <2>1. s.key \in Keys BY <1>5 DEF StepOK
  <2> QED BY <1>2, <1>5, <2>1, UndoesKind DEF Undoing
<1> QED BY <1>1, <1>3, <1>4, <1>5 DEF Kinds

\* The plan has steps only.
LEMMA PlanType ==
  ASSUME TypeOK
  PROVE  Plan \subseteq Steps
<1> DEFINE A == {[do |-> "archiveChannel", ws |-> w, ch |-> mapping[w].ch, key |-> None,
                  role |-> None] : w \in ToArchive}
           R == {[do |-> "removeMember", ws |-> None, ch |-> m[1], key |-> m[2],
                  role |-> joined[m[1]][m[2]].role] :
                   m \in {n \in Channels \X Keys : Removable(n[1], n[2])}}
           I == UNION {{IdentityStep(kind, k) : k \in Due(kind)} :
                         kind \in {"archiveIdentity", "clearOwner", "removeRelay"}}
<1>1. A \subseteq Steps
  <2>1. \A w \in ToArchive : w \in Spaces /\ mapping[w].ch \in Channels
    BY DEF ToArchive, TypeOK, Mappings
  <2> QED BY <2>1 DEF Steps, Kinds
<1>2. R \subseteq Steps
  <2>1. \A ch \in Channels, k \in Keys : Removable(ch, k) => joined[ch][k].role \in Roles
    BY DEF Removable, Tracked, TypeOK, Records, Roles
  <2> QED BY <2>1 DEF Steps, Kinds
<1>3. I \subseteq Steps
  <2>1. \A kind : Due(kind) \subseteq Keys BY DEF Due, TypeOK
  <2> QED BY <2>1 DEF Steps, Kinds, IdentityStep
<1>4. Plan = A \cup R \cup I BY DEF Plan
<1> QED BY <1>1, <1>2, <1>3, <1>4

\* Steps of a cleanup that leave the record and the relay alone keep the types.
LEMMA WalkTypes ==
  ASSUME CleanupInv, NEW c \in Commands, NEW d \in BOOLEAN,
         Start(c, d) \/ Stopped(c) \/ MakePlan(c) \/ Act(c) \/ Finish(c) \/ Look(c)
           \/ Refuse(c) \/ Abort(c)
  PROVE  TypeOK'
<1> USE DEF state, relay, command, history
<1>0. TypeOK /\ MaxFaults \in Nat BY Bounds DEF CleanupInv
<1>1. CASE Start(c, d) \/ Stopped(c) \/ Refuse(c)
  BY <1>0, <1>1 DEF Start, Stopped, Refuse, Goto, TypeOK, Places
<1>2. CASE MakePlan(c)
  BY <1>0, <1>2, PlanType DEF MakePlan, Goto, TypeOK, Places
<1>3. CASE Act(c)
  <2>1. PICK s \in plan[c] : target' = [target EXCEPT ![c] = s] BY <1>3 DEF Act
  <2>2. s \in Steps BY <1>0, <2>1 DEF TypeOK
  <2>3. PICK l \in {"failed", "call", "look"} : pc' = [pc EXCEPT ![c] = l]
    BY <1>3 DEF Act, Goto
  <2> QED BY <1>0, <1>3, <2>1, <2>2, <2>3 DEF Act, TypeOK, Places
<1>4. CASE Finish(c)
  <2>1. PICK l \in {"done", "secrets", "failed"} : pc' = [pc EXCEPT ![c] = l]
    BY <1>4 DEF Finish, Goto
  <2> QED BY <1>0, <1>4, <2>1 DEF Finish, TypeOK, Places, Files
<1>5. CASE Look(c)
  <2>1. PICK l \in {"note", "failed", "call"} : pc' = [pc EXCEPT ![c] = l]
    BY <1>5 DEF Look, Goto
  <2> QED BY <1>0, <1>5, <2>1 DEF Look, TypeOK, Places
<1>6. CASE Abort(c)
  BY <1>0, <1>6 DEF Abort, Goto, TypeOK, Places
<1> QED BY <1>1, <1>2, <1>3, <1>4, <1>5, <1>6

\* A call and what is noted of it keep the types.
LEMMA CallTypes ==
  ASSUME CleanupInv, NEW c \in Commands, Call(c) \/ CallLost(c)
  PROVE  TypeOK'
<1> DEFINE s == target[c]
<1> USE DEF state, relay, command, history
<1>0. TypeOK /\ MaxFaults \in Nat BY Bounds DEF CleanupInv
<1>1. pc[c] = "call" /\ Effect(s) BY DEF Call, CallLost
<1>2. s \in Steps /\ StepOK(s) BY <1>1, Current
<1>3. Undoes(s) \subseteq Resources BY <1>2, UndoesType
<1>4. s.do \in Kinds /\ (s.do \notin {"archiveChannel", "removeMember"} => s.key \in Keys)
      /\ (s.do = "archiveChannel" => s.ch \in Channels)
  BY <1>1, Current
<1>5. Resource("channel", s.ch, None) \in Resources \/ s.do # "archiveChannel"
  BY <1>4 DEF Resource, Resources
<1> HIDE DEF s
<1>6. /\ archived' \subseteq Channels /\ role' \in [Channels -> [Keys -> Roles \cup {None}]]
      /\ gone' \subseteq Keys /\ owned' \subseteq Keys /\ member' \subseteq Keys
      /\ cut' \subseteq Keys
  BY <1>0, <1>1, <1>4 DEF Effect, TypeOK
<1>7. granted' \subseteq Resources /\ undone' \subseteq Resources
  BY <1>0, <1>1, <1>3, <1>5 DEF Effect, TypeOK
<1>8. PICK l \in {"note", "failed"} : pc' = [pc EXCEPT ![c] = l]
  BY DEF Call, CallLost, Goto
<1>9. disturbed' \in [Commands -> BOOLEAN] /\ faults' \in 0..MaxFaults
  <2>1. CASE Call(c) BY <1>0, <2>1 DEF Call, TypeOK
  <2>2. CASE CallLost(c)
    <3>1. disturbed' = [disturbed EXCEPT ![c] = TRUE] /\ faults < MaxFaults
          /\ faults' = faults + 1
      BY <2>2 DEF CallLost
    <3> QED BY <1>0, <3>1 DEF TypeOK
  <2> QED BY <2>1, <2>2
<1>10. pc' \in [Commands -> Places] BY <1>0, <1>8 DEF TypeOK, Places
<1>11. UNCHANGED <<mapping, joined, claimed, retired, intents, recMembers, recOwners, files,
                   configured, cfg, plan, target, del, ours, changes>>
  BY <1>1 DEF Effect
<1> QED BY <1>0, <1>6, <1>7, <1>9, <1>10, <1>11 DEF TypeOK

\* The record keeps its types when it is noted, deleted or resolved.
LEMMA RecordTypes ==
  ASSUME CleanupInv, NEW c \in Commands, Note(c) \/ Delete(c) \/ Reload(c)
  PROVE  TypeOK'
<1> USE DEF state, relay, command, history
<1>0. TypeOK BY DEF CleanupInv
<1>1. CASE Note(c)
  <2> DEFINE s == target[c]
  <2>1. pc[c] = "note" BY <1>1 DEF Note
  <2>2. s.do \in Kinds /\ (s.do \notin {"archiveChannel", "removeMember"} => s.key \in Keys)
    BY <2>1, Current
  <2>3. plan' = [plan EXCEPT ![c] = plan[c] \ {s}] BY <1>1 DEF Note
  <2>4. /\ mapping' = IF s.do = "archiveChannel" THEN [mapping EXCEPT ![s.ws] = None]
                      ELSE mapping
        /\ s.do = "archiveChannel" => joined' = [joined EXCEPT ![s.ch] = [k \in Keys |-> None]]
        /\ s.do = "removeMember" => joined' = [joined EXCEPT ![s.ch][s.key] = None]
        /\ s.do \notin {"archiveChannel", "removeMember"} => joined' = joined
        /\ retired' = IF s.do = "archiveIdentity" THEN retired \cup {s.key} ELSE retired
        /\ recOwners' = IF s.do = "clearOwner" THEN recOwners \ {s.key} ELSE recOwners
        /\ recMembers' = IF s.do = "removeRelay" THEN recMembers \ {s.key} ELSE recMembers
    BY <1>1 DEF Note
  <2> HIDE DEF s
  <2>5. /\ mapping' \in [Spaces -> Mappings \cup {None}]
        /\ retired' \subseteq Keys /\ recOwners' \subseteq Keys /\ recMembers' \subseteq Keys
    BY <1>0, <2>2, <2>4 DEF TypeOK
  <2>6. joined' \in [Channels -> [Keys -> Records \cup {None}]]
    <3>1. CASE s.do = "archiveChannel"
      <4> DEFINE none == [k \in Keys |-> None]
      <4>1. none \in [Keys -> Records \cup {None}] OBVIOUS
      <4>2. joined' = [joined EXCEPT ![s.ch] = none] BY <2>4, <3>1
      <4> HIDE DEF none
      <4> QED BY <1>0, <4>1, <4>2 DEF TypeOK
    <3>2. CASE s.do = "removeMember"
      <4>1. s.ch \in Channels /\ s.key \in Keys BY <2>1, <3>2, Current DEF s
      <4>2. joined' = [joined EXCEPT ![s.ch] = [joined[s.ch] EXCEPT ![s.key] = None]]
        BY <2>4, <3>2
      <4>3. [joined[s.ch] EXCEPT ![s.key] = None] \in [Keys -> Records \cup {None}]
        BY <1>0, <4>1 DEF TypeOK
      <4> QED BY <1>0, <4>1, <4>2, <4>3 DEF TypeOK
    <3>3. CASE s.do \notin {"archiveChannel", "removeMember"} BY <1>0, <2>4, <3>3 DEF TypeOK
    <3> QED BY <3>1, <3>2, <3>3
  <2>7. plan' \in [Commands -> SUBSET Steps] BY <1>0, <2>3 DEF TypeOK
  <2>8. pc' \in [Commands -> Places] BY <1>0, <1>1 DEF TypeOK, Note, Goto, Places
  <2> QED BY <1>0, <1>1, <2>5, <2>6, <2>7, <2>8 DEF TypeOK, Note, Files
<1>2. CASE Delete(c)
  <2>1. pc[c] \in Files BY <1>2 DEF Delete
  <2>2. AfterFile(pc[c]) \in Places BY <2>1 DEF AfterFile, Files, Places
  <2>3. pc' \in [Commands -> Places] BY <1>0, <1>2, <2>2 DEF TypeOK, Delete, Goto
  <2>4. /\ mapping' \in [Spaces -> Mappings \cup {None}]
        /\ joined' \in [Channels -> [Keys -> Records \cup {None}]]
        /\ claimed' \subseteq Keys /\ retired' \subseteq Keys /\ intents' \subseteq Keys
        /\ recMembers' \subseteq Keys /\ recOwners' \subseteq Keys
    BY <1>0, <1>2 DEF TypeOK, Delete
  <2>5. files' \subseteq Files /\ configured' \subseteq Keys BY <1>0, <1>2 DEF TypeOK, Delete
  <2> QED BY <1>0, <1>2, <2>3, <2>4, <2>5 DEF TypeOK, Delete
<1>3. CASE Reload(c)
  <2>1. PICK l \in {"plan", "failed"} : pc' = [pc EXCEPT ![c] = l] BY <1>3 DEF Reload, Goto
  <2>2. cfg' \in [Commands -> SUBSET Keys] /\ claimed' \subseteq Keys /\ intents' \subseteq Keys
    BY <1>0, <1>3 DEF Reload, TypeOK, Resolved
  <2> QED BY <1>0, <1>3, <2>1, <2>2 DEF Reload, TypeOK, Places
<1> QED BY <1>1, <1>2, <1>3

\* So do the last pass and people.
LEMMA OtherTypes ==
  ASSUME CleanupInv, NEW k \in Keys,
         PassConfigures(k) \/ PassRecords(k) \/ PassRegisters(k) \/ People
  PROVE  TypeOK'
<1> USE DEF state, relay, command, history
<1>0. TypeOK /\ MaxChanges \in Nat BY Bounds DEF CleanupInv
<1>1. \A x \in {"identity", "ownership", "relay"} : Resource(x, None, k) \in Resources
  BY DEF Resource, Resources
<1>2. CASE PassConfigures(k) \/ PassRecords(k) \/ PassRegisters(k)
  <2>1. CASE PassConfigures(k) BY <1>0, <1>1, <2>1 DEF PassConfigures, TypeOK
  <2>2. CASE PassRecords(k) BY <1>0, <1>1, <2>2 DEF PassRecords, TypeOK
  <2>3. CASE PassRegisters(k) BY <1>0, <1>1, <2>3 DEF PassRegisters, TypeOK
  <2> QED BY <1>2, <2>1, <2>2, <2>3
<1>3. CASE \E ch \in Channels, i \in Keys, r \in Roles \cup {None} : SetRole(ch, i, r)
  BY <1>0, <1>3 DEF SetRole, Meanwhile, TypeOK
<1>4. CASE \E ch \in Channels : SetArchived(ch)
  BY <1>0, <1>4 DEF SetArchived, Meanwhile, TypeOK
<1>5. CASE \E i \in Keys : SetMember(i) \/ SetOwner(i) \/ DropIdentity(i)
  <2> PICK i \in Keys : SetMember(i) \/ SetOwner(i) \/ DropIdentity(i) BY <1>5
  <2>1. CASE SetMember(i) BY <1>0, <2>1 DEF SetMember, Meanwhile, TypeOK
  <2>2. CASE SetOwner(i) BY <1>0, <2>2 DEF SetOwner, Meanwhile, TypeOK
  <2>3. CASE DropIdentity(i) BY <1>0, <2>3 DEF DropIdentity, Meanwhile, TypeOK
  <2> QED BY <2>1, <2>2, <2>3
<1> QED BY <1>2, <1>3, <1>4, <1>5 DEF People

----------------------------------------------------------------------------
(* Steps that leave the record and the relay alone.                        *)

\* They keep what is said of the record.
LEMMA Untouched ==
  ASSUME CleanupInv, UNCHANGED <<state, configured, relay, granted, ours, undone>>
  PROVE  /\ KeysOK' /\ OursOK' /\ GrantsOK' /\ Provenance' = Provenance /\ Recorded' = Recorded
         /\ \A s : StepOK(s)' <=> StepOK(s)
<1> USE DEF state, relay
<1>1. UNCHANGED <<mapping, joined, claimed, retired, intents, recMembers, recOwners,
                  configured, archived, role, gone, owned, member, granted, ours, undone>>
  OBVIOUS
<1>2. KeysOK' BY <1>1 DEF CleanupInv, KeysOK
<1>3. ToArchive' = ToArchive BY <1>1 DEF ToArchive
<1>4. \A ch, k : Tracked(ch, k)' <=> Tracked(ch, k) BY <1>1 DEF Tracked, LastAdopts
<1>5. OursOK' BY <1>1, <1>3, <1>4 DEF CleanupInv, OursOK
<1>6. \A r : InEffect(r)' <=> InEffect(r) BY <1>1 DEF InEffect
<1>7. Provenance' = Provenance /\ Recorded' = Recorded
  BY <1>1, <1>3, <1>4 DEF Provenance, Recorded
<1>8. GrantsOK' BY <1>1, <1>6, <1>7 DEF CleanupInv, GrantsOK
<1>9. ASSUME NEW s PROVE StepOK(s)' <=> StepOK(s)
  <2>1. Undoing(s)' = Undoing(s) BY DEF Undoing, Undoes
  <2> QED BY <1>1, <2>1 DEF StepOK
<1> QED BY <1>2, <1>5, <1>7, <1>8, <1>9

\* The other cleanups do not notice the step of one, as long as no identity is announced
\* again and nothing comes into being.
LEMMA Others ==
  ASSUME CleanupInv, NEW d \in Commands,
         pc'[d] = pc[d], plan'[d] = plan[d], target'[d] = target[d],
         intents' \subseteq intents, granted' \subseteq granted,
         \A s \in plan[d] : StepOK(s)'
  PROVE  PlanOK(d)' /\ CoverOK(d)'
<1>1. PlanOK(d) /\ CoverOK(d) BY DEF CleanupInv
<1>2. PlanOK(d)' BY <1>1 DEF PlanOK
<1>3. \A s : Undoes(s)' = Undoes(s) BY DEF Undoes
<1>4. \A k : Resource("identity", None, k)' = Resource("identity", None, k) OBVIOUS
<1>5. CoverOK(d)'
  <2>1. pc'[d] = "plan" => \A k \in intents' : Resource("identity", None, k) \notin granted'
    BY <1>1 DEF CoverOK
  <2>2. pc'[d] \in {"act", "look", "call", "note"} =>
          \A r \in granted' : \E s \in plan'[d] : r \in Undoes(s)
    BY <1>1 DEF CoverOK
  <2>3. pc'[d] = "note" => Undoes(target'[d]) \cap granted' = {}
    BY <1>1 DEF CoverOK
  <2>4. pc'[d] \in Files => granted' = {} BY <1>1 DEF CoverOK
  <2> QED BY <1>3, <2>1, <2>2, <2>3, <2>4 DEF CoverOK
<1> QED BY <1>2, <1>5

\* A step of c that only moves on.
LEMMA Walked ==
  ASSUME CleanupInv, NEW c \in Commands, TypeOK',
         UNCHANGED <<state, configured, relay, granted, ours, undone, files>>,
         \A d \in Commands \ {c} : pc'[d] = pc[d] /\ plan'[d] = plan[d] /\ target'[d] = target[d],
         pc'[c] \notin {"idle", "stop"} \/ "secrets" \in files,
         PlanOK(c)', CoverOK(c)'
  PROVE  CleanupInv'
<1>1. KeysOK' /\ OursOK' /\ GrantsOK' /\ \A s : StepOK(s)' <=> StepOK(s) BY Untouched
<1>2. intents' = intents /\ granted' = granted BY DEF state
<1>3. ASSUME NEW d \in Commands \ {c} PROVE PlanOK(d)' /\ CoverOK(d)'
  <2>1. \A s \in plan[d] : StepOK(s)' BY <1>1 DEF CleanupInv, PlanOK
  <2> QED BY <1>2, <1>3, <2>1, Others
<1>4. FilesOK'
  <2> SUFFICES ASSUME "secrets" \notin files
               PROVE  granted = {} /\ \E d \in Commands : pc'[d] \notin {"idle", "stop"}
    BY DEF FilesOK
  <2>1. granted = {} BY DEF CleanupInv, FilesOK
  <2> QED BY <2>1
<1> QED BY <1>1, <1>3, <1>4 DEF CleanupInv

\* Where no plan is in use, a cleanup that keeps its plan has little to show.
LEMMA Idle ==
  ASSUME CleanupInv, NEW c \in Commands, \A s : StepOK(s)' <=> StepOK(s),
         plan'[c] = plan[c],
         pc'[c] \notin {"plan", "act", "look", "call", "note"} \cup Files
  PROVE  PlanOK(c)' /\ CoverOK(c)'
<1>1. \A s \in plan'[c] : StepOK(s)' BY DEF CleanupInv, PlanOK
<1> QED BY <1>1 DEF PlanOK, CoverOK

\* What the plan has steps for.
LEMMA PlanCovers ==
  ASSUME CleanupInv, NEW c \in Commands, pc[c] = "plan"
  PROVE  /\ \A s \in Plan : StepOK(s)
         /\ \A r \in granted : \E s \in Plan : r \in Undoes(s)
<1> DEFINE A == {[do |-> "archiveChannel", ws |-> w, ch |-> mapping[w].ch, key |-> None,
                  role |-> None] : w \in ToArchive}
           R == {[do |-> "removeMember", ws |-> None, ch |-> m[1], key |-> m[2],
                  role |-> joined[m[1]][m[2]].role] :
                   m \in {n \in Channels \X Keys : Removable(n[1], n[2])}}
           I == UNION {{IdentityStep(kind, k) : k \in Due(kind)} :
                         kind \in {"archiveIdentity", "clearOwner", "removeRelay"}}
<1>0. Plan = A \cup R \cup I BY DEF Plan
<1>1. TypeOK /\ KeysOK /\ OursOK /\ GrantsOK /\ CoverOK(c) BY DEF CleanupInv
<1>2. /\ Due("archiveIdentity") = claimed \ retired
      /\ Due("clearOwner") = claimed \cap recOwners
      /\ Due("removeRelay") = claimed \cap recMembers
  BY DEF Due
<1>3. \A w \in ToArchive : /\ w \in Spaces /\ mapping[w] # None /\ mapping[w].ch \in Channels
                           /\ mapping[w].origin = "created"
  BY <1>1 DEF ToArchive, TypeOK, Mappings
<1>4. \A s \in A : StepOK(s)
  BY <1>1, <1>3 DEF StepOK, Undoing, OursOK
<1>5. \A s \in R : StepOK(s)
  <2> SUFFICES ASSUME NEW ch \in Channels, NEW k \in Keys, Removable(ch, k), NEW x
               PROVE  StepOK([do |-> "removeMember", ws |-> None, ch |-> ch, key |-> k,
                              role |-> x])
    OBVIOUS
  <2>1. Resource("in", ch, k) \in ours BY <1>1 DEF Removable, OursOK
  <2> QED BY <2>1 DEF StepOK, Undoing, Undoes
<1>6. \A s \in I : StepOK(s)
  <2> SUFFICES ASSUME NEW kind \in {"archiveIdentity", "clearOwner", "removeRelay"},
                      NEW k \in Due(kind)
               PROVE  StepOK(IdentityStep(kind, k))
    OBVIOUS
  <2>1. k \in claimed /\ k \in Keys /\ k \notin intents BY <1>1, <1>2 DEF TypeOK, KeysOK
  <2>2. Undoes(IdentityStep(kind, k)) \subseteq ours
    BY <1>1, <1>2 DEF OursOK, Undoes, IdentityStep
  <2>3. Undoing(IdentityStep(kind, k)) = Undoes(IdentityStep(kind, k))
    BY DEF Undoing, IdentityStep
  <2> QED BY <2>1, <2>2, <2>3 DEF StepOK, IdentityStep
<1>7. ASSUME NEW r \in granted PROVE \E s \in Plan : r \in Undoes(s)
  <2>1. r \in Provenance BY <1>1 DEF GrantsOK
  <2>2. CASE \E w \in ToArchive : r = Resource("channel", mapping[w].ch, None)
    <3> PICK w \in ToArchive : r = Resource("channel", mapping[w].ch, None) BY <2>2
    <3> DEFINE s == [do |-> "archiveChannel", ws |-> w, ch |-> mapping[w].ch, key |-> None,
                     role |-> None]
    <3>1. s \in A /\ r \in Undoes(s) BY UndoesKind
    <3> QED BY <1>0, <3>1
  <2>3. CASE \E ch \in Channels, k \in claimed : Tracked(ch, k) /\ r = Resource("in", ch, k)
    <3> PICK ch \in Channels, k \in claimed : Tracked(ch, k) /\ r = Resource("in", ch, k)
      BY <2>3
    <3> DEFINE s == [do |-> "removeMember", ws |-> None, ch |-> ch, key |-> k,
                     role |-> joined[ch][k].role]
    <3>1. k \in Keys /\ Removable(ch, k) BY <1>1 DEF Removable, TypeOK
    <3>2. <<ch, k>> \in {n \in Channels \X Keys : Removable(n[1], n[2])} BY <3>1
    <3>3. s \in R BY <3>2
    <3>4. r \in Undoes(s) BY UndoesKind
    <3> QED BY <1>0, <3>3, <3>4
  <2>4. ASSUME NEW kind \in {"archiveIdentity", "clearOwner", "removeRelay"},
               NEW k \in Due(kind), r \in Undoes(IdentityStep(kind, k))
        PROVE  \E s \in Plan : r \in Undoes(s)
    <3>1. IdentityStep(kind, k) \in I BY <2>4
    <3> QED BY <1>0, <2>4, <3>1
  <2>5. /\ \A k : Resource("identity", None, k) \in Undoes(IdentityStep("archiveIdentity", k))
        /\ \A k : Resource("ownership", None, k) \in Undoes(IdentityStep("clearOwner", k))
        /\ \A k : Resource("relay", None, k) \in Undoes(IdentityStep("removeRelay", k))
    BY DEF Undoes, IdentityStep
  <2>6. CASE \E k \in (claimed \ retired) \cup (intents \cap configured) :
               r = Resource("identity", None, k)
    <3> PICK k \in (claimed \ retired) \cup (intents \cap configured) :
               r = Resource("identity", None, k)
      BY <2>6
    <3>1. k \notin intents BY <1>1 DEF CoverOK
    <3> QED BY <1>2, <2>4, <2>5, <3>1
  <2>7. CASE \E k \in claimed \cap recOwners : r = Resource("ownership", None, k)
    BY <1>2, <2>4, <2>5, <2>7
  <2>8. CASE \E k \in claimed \cap recMembers : r = Resource("relay", None, k)
    BY <1>2, <2>4, <2>5, <2>8
  <2>9. CASE r \in {Resource("in", m[1], m[2]) :
                      m \in {n \in Channels \X claimed : Tracked(n[1], n[2])}}
    <3> PICK m \in {n \in Channels \X claimed : Tracked(n[1], n[2])} :
               r = Resource("in", m[1], m[2])
      BY <2>9
    <3>1. m[1] \in Channels /\ m[2] \in claimed /\ Tracked(m[1], m[2]) OBVIOUS
    <3> QED BY <2>3, <3>1
  <2> HIDE DEF A, R, I
  <2> QED BY <2>1, <2>2, <2>6, <2>7, <2>8, <2>9 DEF Provenance
<1> HIDE DEF A, R, I
<1> QED BY <1>0, <1>4, <1>5, <1>6, <1>7

\* Every step of a cleanup that leaves record and relay alone keeps the invariant.
LEMMA WalkStep ==
  ASSUME CleanupInv, NEW c \in Commands, NEW d \in BOOLEAN,
         Start(c, d) \/ Stopped(c) \/ MakePlan(c) \/ Act(c) \/ Finish(c) \/ Look(c)
           \/ Refuse(c) \/ Abort(c)
  PROVE  CleanupInv'
<1> USE DEF command, history
<1>0. TypeOK' BY WalkTypes
<1>1. TypeOK /\ PlanOK(c) /\ CoverOK(c) /\ GrantsOK BY DEF CleanupInv
<1>2. pc \in [Commands -> Places] /\ plan \in [Commands -> SUBSET Steps]
      /\ target \in [Commands -> Steps \cup {None}]
  BY <1>1 DEF TypeOK
<1>3. UNCHANGED <<state, configured, relay, granted, ours, undone, files>>
  BY DEF Start, Stopped, MakePlan, Act, Finish, Look, Refuse, Abort
<1>4. \A s : StepOK(s)' <=> StepOK(s) BY <1>3, Untouched
<1>5. /\ \A e \in Commands \ {c} : pc'[e] = pc[e]
      /\ \A e \in Commands \ {c} : plan'[e] = plan[e]
      /\ \A e \in Commands \ {c} : target'[e] = target[e]
  <2>1. CASE Start(c, d) \/ Stopped(c) \/ Refuse(c) \/ Abort(c)
    BY <1>2, <2>1 DEF Start, Stopped, Refuse, Abort, Goto
  <2>2. CASE MakePlan(c) BY <1>2, <2>2 DEF MakePlan, Goto
  <2>3. CASE Act(c)
    <3>1. PICK s \in plan[c] : target' = [target EXCEPT ![c] = s] BY <2>3 DEF Act
    <3>2. PICK l \in {"failed", "call", "look"} : pc' = [pc EXCEPT ![c] = l]
      BY <2>3 DEF Act, Goto
    <3> QED BY <1>2, <2>3, <3>1, <3>2 DEF Act
  <2>4. CASE Finish(c)
    <3>1. PICK l \in {"done", "secrets", "failed"} : pc' = [pc EXCEPT ![c] = l]
      BY <2>4 DEF Finish, Goto
    <3> QED BY <1>2, <2>4, <3>1 DEF Finish
  <2>5. CASE Look(c)
    <3>1. PICK l \in {"note", "failed", "call"} : pc' = [pc EXCEPT ![c] = l]
      BY <2>5 DEF Look, Goto
    <3> QED BY <1>2, <2>5, <3>1 DEF Look
  <2> QED BY <2>1, <2>2, <2>3, <2>4, <2>5
<1>6. CASE Start(c, d) \/ Stopped(c) \/ Refuse(c) \/ Abort(c)
  <2>1. pc'[c] \in {"stop", "reload", "failed"} /\ plan' = plan
    BY <1>2, <1>6 DEF Start, Stopped, Refuse, Abort, Goto
  <2>2. pc'[c] = "stop" => "secrets" \in files
    BY <1>2, <1>6 DEF Start, Stopped, Refuse, Abort, Goto, Loadable
  <2>3. PlanOK(c)' /\ CoverOK(c)' BY <1>4, <2>1, Idle DEF Files
  <2> QED BY <1>0, <1>3, <1>5, <2>1, <2>2, <2>3, Walked
<1>7. CASE MakePlan(c)
  <2>1. pc[c] = "plan" /\ pc'[c] = "act" /\ plan'[c] = Plan /\ granted' = granted
    BY <1>2, <1>3, <1>7 DEF MakePlan, Goto
  <2>2. (\A s \in Plan : StepOK(s)) /\ \A r \in granted : \E s \in Plan : r \in Undoes(s)
    BY <2>1, PlanCovers
  <2>3. \A s : Undoes(s)' = Undoes(s) BY DEF Undoes
  <2>4. PlanOK(c)' BY <1>4, <2>1, <2>2 DEF PlanOK
  <2>5. CoverOK(c)' BY <2>1, <2>2, <2>3 DEF CoverOK, Files
  <2> QED BY <1>0, <1>3, <1>5, <2>1, <2>4, <2>5, Walked
<1>8. CASE Act(c)
  <2>0. PICK s \in plan[c] :
          /\ target' = [target EXCEPT ![c] = s]
          /\ Goto(c, CASE Signer(s) \notin cfg[c] \cup {None} -> "failed"
                       [] Signer(s) \in cfg[c] \cup {None}
                          /\ s.do \in {"archiveChannel", "clearOwner"} -> "call"
                       [] OTHER -> "look")
    BY <1>8 DEF Act
  <2>1. pc[c] = "act" /\ target'[c] = s /\ plan' = plan /\ granted' = granted
    BY <1>2, <1>3, <1>8, <2>0 DEF Act
  <2>2. pc'[c] = CASE Signer(s) \notin cfg[c] \cup {None} -> "failed"
                   [] Signer(s) \in cfg[c] \cup {None}
                      /\ s.do \in {"archiveChannel", "clearOwner"} -> "call"
                   [] OTHER -> "look"
    BY <1>2, <2>0 DEF Goto
  <2>3. /\ pc'[c] \in {"failed", "call", "look"}
        /\ pc'[c] = "look" => s.do \notin {"archiveChannel", "clearOwner"}
    BY <2>2
  <2>4. s.do \in Kinds BY <1>2 DEF Steps
  <2>5. \A t \in plan[c] : StepOK(t)' BY <1>1, <1>4 DEF PlanOK
  <2>6. PlanOK(c)' BY <2>1, <2>3, <2>4, <2>5 DEF PlanOK, Kinds
  <2>7. \A t : Undoes(t)' = Undoes(t) BY DEF Undoes
  <2>8. CoverOK(c)' BY <1>1, <2>1, <2>3, <2>7 DEF CoverOK, Files
  <2> QED BY <1>0, <1>3, <1>5, <2>3, <2>6, <2>8, Walked
<1>9. CASE Finish(c)
  <2>1. pc[c] = "act" /\ plan[c] = {} /\ plan' = plan /\ granted' = granted
    BY <1>3, <1>9 DEF Finish
  <2>2. PICK l \in {"done", "secrets", "failed"} : pc' = [pc EXCEPT ![c] = l]
    BY <1>9 DEF Finish, Goto
  <2>3. pc'[c] \in {"done", "secrets", "failed"} BY <1>2, <2>2
  <2>4. granted = {} BY <1>1, <2>1 DEF CoverOK
  <2>5. PlanOK(c)' /\ CoverOK(c)' BY <2>1, <2>3, <2>4 DEF PlanOK, CoverOK
  <2> QED BY <1>0, <1>3, <1>5, <2>3, <2>5, Walked
<1>10. CASE Look(c)
  <2> DEFINE s == target[c]
  <2>1. pc[c] = "look" /\ plan' = plan /\ granted' = granted /\ target' = target
    BY <1>3, <1>10 DEF Look
  <2>2. PICK l \in {"note", "failed", "call"} :
          pc' = [pc EXCEPT ![c] = l] /\ (l = "note" => Absent(s))
    BY <1>10 DEF Look, Goto
  <2>3. pc'[c] \in {"note", "failed", "call"} /\ (pc'[c] = "note" => Absent(s))
    BY <1>2, <2>2
  <2>4. s \in plan[c] /\ s.do \in {"removeMember", "archiveIdentity", "removeRelay"}
    BY <1>1, <2>1 DEF PlanOK
  <2>5. ASSUME Absent(s) PROVE Undoes(s) \cap granted = {}
    <3>1. \A r \in Undoes(s) : ~InEffect(r)
      <4>1. CASE s.do = "removeMember"
        BY <2>5, <4>1, InEffectKind, UndoesKind DEF Absent
      <4>2. CASE s.do = "archiveIdentity"
        BY <2>5, <4>2, InEffectKind, UndoesKind DEF Absent
      <4>3. CASE s.do = "removeRelay"
        BY <2>5, <4>3, InEffectKind, UndoesKind DEF Absent
      <4> QED BY <2>4, <4>1, <4>2, <4>3
    <3> QED BY <1>1, <3>1 DEF GrantsOK
  <2> HIDE DEF s
  <2>6. \A t \in plan[c] : StepOK(t)' BY <1>1, <1>4 DEF PlanOK
  <2>7. PlanOK(c)' BY <2>1, <2>3, <2>4, <2>6 DEF PlanOK, s
  <2>8. \A t : Undoes(t)' = Undoes(t) BY DEF Undoes
  <2>9. CoverOK(c)' BY <1>1, <2>1, <2>3, <2>5, <2>8 DEF CoverOK, Files, s
  <2> QED BY <1>0, <1>3, <1>5, <2>3, <2>7, <2>9, Walked
<1> QED BY <1>6, <1>7, <1>8, <1>9, <1>10

----------------------------------------------------------------------------
(* Calls.                                                                  *)

\* What a call changes and keeps.
LEMMA EffectKeeps ==
  ASSUME CleanupInv, NEW c \in Commands, pc[c] = "call", Effect(target[c])
  PROVE  /\ KeysOK' /\ OursOK' /\ GrantsOK' /\ granted' = granted \ Undoes(target[c])
         /\ \A s : StepOK(s)' <=> StepOK(s)
<1> DEFINE s == target[c]
<1> USE DEF state
<1>0. TypeOK /\ KeysOK /\ OursOK /\ GrantsOK BY DEF CleanupInv
<1>1. s \in plan[c] /\ StepOK(s) /\ s.do \in Kinds BY Current
<1>2. UNCHANGED <<mapping, joined, claimed, retired, intents, recMembers, recOwners,
                  configured, ours>>
  BY DEF Effect
<1>3. ToArchive' = ToArchive /\ \A ch, k : Tracked(ch, k)' <=> Tracked(ch, k)
  BY <1>2 DEF ToArchive, Tracked, LastAdopts
<1>4. Provenance' = Provenance BY <1>2, <1>3 DEF Provenance
<1>5. KeysOK'
  <2>1. s.do = "archiveIdentity" => s.key \notin intents BY <1>1 DEF StepOK
  <2>2. gone' = IF s.do = "archiveIdentity" THEN gone \cup {s.key} ELSE gone BY DEF Effect
  <2> QED BY <1>0, <1>2, <2>1, <2>2 DEF KeysOK
<1>6. OursOK'
  <2>1. undone' = undone \cup Undoing(s) BY DEF Effect, Undoing
  <2>2. Undoing(s) \subseteq ours BY <1>1 DEF StepOK
  <2> HIDE DEF s
  <2> QED BY <1>0, <1>2, <1>3, <2>1, <2>2 DEF OursOK
<1>7. granted' = granted \ Undoes(s) BY DEF Effect
<1>8. ASSUME NEW r \in granted' PROVE InEffect(r)'
  <2>1. r \in granted /\ r \notin Undoes(s) /\ InEffect(r) /\ r \in Resources
    BY <1>0, <1>7 DEF GrantsOK, TypeOK
  <2>2. PICK x \in {"channel", "in", "identity", "ownership", "relay"},
             ch \in Channels \cup {None}, k \in Keys \cup {None} : r = Resource(x, ch, k)
    BY <2>1 DEF Resources, Resource
  <2>3. r \in Provenance BY <1>0, <2>1 DEF GrantsOK
  <2>4. CASE x = "channel"
    <3>1. k = None /\ ch \notin archived BY <2>1, <2>2, <2>3, <2>4, ProvenanceKind, InEffectKind
    <3>2. s.do = "archiveChannel" => ch # s.ch
      BY <2>1, <2>2, <2>4, <3>1, UndoesKind
    <3>3. ch \notin archived' BY <3>1, <3>2 DEF Effect
    <3> QED BY <2>2, <2>4, <3>3 DEF InEffect, Resource
  <2>5. CASE x = "in"
    <3>1. ch \in Channels /\ k \in claimed /\ role[ch][k] # None
      BY <2>1, <2>2, <2>3, <2>5, ProvenanceKind, InEffectKind
    <3>2. s.do = "removeMember" => ~(ch = s.ch /\ k = s.key)
      BY <2>1, <2>2, <2>5, UndoesKind
    <3>3. role' = IF s.do = "removeMember" THEN [role EXCEPT ![s.ch][s.key] = None] ELSE role
      BY DEF Effect
    <3>4. k \in Keys /\ role \in [Channels -> [Keys -> Roles \cup {None}]]
      BY <1>0, <3>1 DEF TypeOK
    <3>5. role'[ch][k] # None BY <3>1, <3>2, <3>3, <3>4
    <3> QED BY <2>2, <2>5, <3>5 DEF InEffect, Resource
  <2>6. CASE x = "identity"
    <3>1. ch = None /\ k \notin gone BY <2>1, <2>2, <2>3, <2>6, ProvenanceKind, InEffectKind
    <3>2. s.do = "archiveIdentity" => k # s.key BY <2>1, <2>2, <2>6, <3>1, UndoesKind
    <3>3. k \notin gone' BY <3>1, <3>2 DEF Effect
    <3> QED BY <2>2, <2>6, <3>3 DEF InEffect, Resource
  <2>7. CASE x = "ownership"
    <3>1. ch = None /\ k \in owned BY <2>1, <2>2, <2>3, <2>7, ProvenanceKind, InEffectKind
    <3>2. s.do = "clearOwner" => k # s.key BY <2>1, <2>2, <2>7, <3>1, UndoesKind
    <3>3. k \in owned' BY <3>1, <3>2 DEF Effect
    <3> QED BY <2>2, <2>7, <3>3 DEF InEffect, Resource
  <2>8. CASE x = "relay"
    <3>1. ch = None /\ k \in member BY <2>1, <2>2, <2>3, <2>8, ProvenanceKind, InEffectKind
    <3>2. s.do = "removeRelay" => k # s.key BY <2>1, <2>2, <2>8, <3>1, UndoesKind
    <3>3. k \in member' BY <3>1, <3>2 DEF Effect
    <3> QED BY <2>2, <2>8, <3>3 DEF InEffect, Resource
  <2> QED BY <2>2, <2>4, <2>5, <2>6, <2>7, <2>8
<1>9. GrantsOK' BY <1>0, <1>4, <1>7, <1>8 DEF GrantsOK
<1>10. ASSUME NEW t PROVE StepOK(t)' <=> StepOK(t)
  <2>1. Undoing(t)' = Undoing(t) BY DEF Undoing, Undoes
  <2> QED BY <1>2, <2>1 DEF StepOK
<1> QED BY <1>5, <1>6, <1>7, <1>9, <1>10

\* A call keeps the invariant, heard or not.
LEMMA CallStep ==
  ASSUME CleanupInv, NEW c \in Commands, Call(c) \/ CallLost(c)
  PROVE  CleanupInv'
<1>0. TypeOK' BY CallTypes
<1>1. pc[c] = "call" /\ Effect(target[c]) BY DEF Call, CallLost
<1>2. /\ KeysOK' /\ OursOK' /\ GrantsOK' /\ granted' = granted \ Undoes(target[c])
      /\ \A s : StepOK(s)' <=> StepOK(s)
  BY <1>1, EffectKeeps
<1>3. pc \in [Commands -> Places] /\ PlanOK(c) /\ CoverOK(c) BY DEF CleanupInv, TypeOK
<1>4. UNCHANGED <<plan, target, files, intents>> BY <1>1 DEF Effect, state
<1>5. PICK l \in {"note", "failed"} : pc' = [pc EXCEPT ![c] = l]
  BY DEF Call, CallLost, Goto
<1>6. pc'[c] \in {"note", "failed"} /\ \A d \in Commands \ {c} : pc'[d] = pc[d]
  BY <1>3, <1>5
<1>7. PlanOK(c)'
  <2>1. \A s \in plan[c] : StepOK(s)' BY <1>2, <1>3 DEF PlanOK
  <2> QED BY <1>1, <1>3, <1>4, <1>6, <2>1 DEF PlanOK
<1>8. CoverOK(c)'
  <2>1. \A t : Undoes(t)' = Undoes(t) BY DEF Undoes
  <2>2. \A r \in granted' : \E s \in plan[c] : r \in Undoes(s) BY <1>1, <1>2, <1>3 DEF CoverOK
  <2>3. Undoes(target[c]) \cap granted' = {} BY <1>2
  <2> HIDE <1>1
  <2> QED BY <1>4, <1>6, <2>1, <2>2, <2>3 DEF CoverOK, Files
<1>9. ASSUME NEW d \in Commands \ {c} PROVE PlanOK(d)' /\ CoverOK(d)'
  <2>1. \A s \in plan[d] : StepOK(s)' BY <1>2 DEF CleanupInv, PlanOK
  <2> QED BY <1>2, <1>4, <1>6, <1>9, <2>1, Others
<1>10. FilesOK'
  <2> SUFFICES ASSUME "secrets" \notin files
               PROVE  granted' = {} /\ \E d \in Commands : pc'[d] \notin {"idle", "stop"}
    BY <1>4 DEF FilesOK
  <2>1. granted = {} BY DEF CleanupInv, FilesOK
  <2> QED BY <1>2, <1>6, <2>1
<1> QED BY <1>0, <1>2, <1>7, <1>8, <1>9, <1>10 DEF CleanupInv

----------------------------------------------------------------------------
(* Transactions on the record.                                             *)

\* What is noted of a step takes only that off the record which the step undid.
LEMMA NoteKeeps ==
  ASSUME CleanupInv, NEW c \in Commands, Note(c)
  PROVE  /\ KeysOK' /\ OursOK' /\ GrantsOK'
         /\ \A s : StepOK(s) => StepOK(s)'
<1> DEFINE s == target[c]
<1> USE DEF state, relay, history
<1>0. TypeOK /\ KeysOK /\ OursOK /\ GrantsOK /\ CoverOK(c) BY DEF CleanupInv
<1>1. pc[c] = "note" BY DEF Note
<1>2. s \in plan[c] /\ StepOK(s) /\ s.do \in Kinds BY <1>1, Current
<1>3. Undoes(s) \cap granted = {} BY <1>0, <1>1 DEF CoverOK
<1>4. UNCHANGED <<claimed, intents, configured, archived, role, gone, owned, member, granted,
                  ours, undone>>
  BY DEF Note
<1>5. /\ mapping' = IF s.do = "archiveChannel" THEN [mapping EXCEPT ![s.ws] = None]
                    ELSE mapping
      /\ s.do = "archiveChannel" => joined' = [joined EXCEPT ![s.ch] = [k \in Keys |-> None]]
      /\ s.do = "removeMember" => joined' = [joined EXCEPT ![s.ch][s.key] = None]
      /\ s.do \notin {"archiveChannel", "removeMember"} => joined' = joined
      /\ retired' = IF s.do = "archiveIdentity" THEN retired \cup {s.key} ELSE retired
      /\ recOwners' = IF s.do = "clearOwner" THEN recOwners \ {s.key} ELSE recOwners
      /\ recMembers' = IF s.do = "removeRelay" THEN recMembers \ {s.key} ELSE recMembers
  BY DEF Note
<1>6. /\ s.do = "archiveChannel" =>
           /\ s.ws \in Spaces /\ s.ch \in Channels
           /\ mapping[s.ws] # None => mapping[s.ws].ch = s.ch /\ mapping[s.ws].origin = "created"
      /\ s.do = "removeMember" => s.ch \in Channels /\ s.key \in Keys
      /\ s.do \notin {"archiveChannel", "removeMember"} => s.key \in Keys \ intents
  BY <1>2 DEF StepOK
<1>7. /\ s.do = "archiveChannel" => /\ Resource("channel", s.ch, None) \notin granted
                                    /\ \A k \in Keys : Resource("in", s.ch, k) \notin granted
      /\ s.do = "removeMember" => Resource("in", s.ch, s.key) \notin granted
      /\ s.do = "archiveIdentity" => Resource("identity", None, s.key) \notin granted
      /\ s.do = "clearOwner" => Resource("ownership", None, s.key) \notin granted
      /\ s.do = "removeRelay" => Resource("relay", None, s.key) \notin granted
  BY <1>3, UndoesKind
<1> HIDE DEF s
<1>8. /\ mapping \in [Spaces -> Mappings \cup {None}]
      /\ joined \in [Channels -> [Keys -> Records \cup {None}]]
      /\ claimed \subseteq Keys
  BY <1>0 DEF TypeOK
<1>9. \A w \in Spaces : mapping'[w] = mapping[w]
                          \/ (s.do = "archiveChannel" /\ w = s.ws /\ mapping'[w] = None)
  BY <1>5, <1>8
<1>10. \A w \in ToArchive' : w \in ToArchive /\ mapping'[w] = mapping[w]
  BY <1>9 DEF ToArchive
<1>11. \A w \in ToArchive : w \in ToArchive' \/ (s.do = "archiveChannel" /\ w = s.ws)
  BY <1>9 DEF ToArchive
<1>12. \A ch \in Channels, k \in Keys :
         joined'[ch][k] = joined[ch][k]
           \/ (joined'[ch][k] = None
               /\ \/ s.do = "archiveChannel" /\ ch = s.ch
                  \/ s.do = "removeMember" /\ ch = s.ch /\ k = s.key)
  <2> TAKE ch \in Channels, k \in Keys
  <2>1. CASE s.do = "archiveChannel" BY <1>5, <1>8, <2>1
  <2>2. CASE s.do = "removeMember" BY <1>5, <1>6, <1>8, <2>2
  <2>3. CASE s.do \notin {"archiveChannel", "removeMember"} BY <1>5, <2>3
  <2> QED BY <2>1, <2>2, <2>3
<1>13. ASSUME NEW ch \in Channels, s.do = "archiveChannel" => ch # s.ch
       PROVE  LastAdopts(ch)' <=> LastAdopts(ch)
  <2>1. \A w \in Spaces :
          (mapping'[w] # None /\ mapping'[w].ch = ch) <=> (mapping[w] # None /\ mapping[w].ch = ch)
    BY <1>6, <1>9, <1>13
  <2>2. \A w \in Spaces : mapping[w] # None /\ mapping[w].ch = ch => mapping'[w] = mapping[w]
    BY <1>6, <1>9, <1>13
  <2> QED BY <2>1, <2>2 DEF LastAdopts
<1>14. ASSUME NEW ch \in Channels, NEW k \in Keys, Tracked(ch, k)'
       PROVE  Tracked(ch, k)
  <2>1. joined'[ch][k] # None BY <1>14 DEF Tracked
  <2>2. s.do = "archiveChannel" => ch # s.ch
    <3> SUFFICES ASSUME s.do = "archiveChannel", ch = s.ch PROVE FALSE OBVIOUS
    <3>1. joined'[ch] = [i \in Keys |-> None] BY <1>5, <1>8
    <3> QED BY <2>1, <3>1
  <2>3. LastAdopts(ch) BY <1>13, <1>14, <2>2 DEF Tracked
  <2>4. joined'[ch][k] = joined[ch][k] BY <1>12, <2>1
  <2> QED BY <1>14, <2>3, <2>4 DEF Tracked
<1>15. ASSUME NEW ch \in Channels, NEW k \in Keys, Tracked(ch, k),
              Resource("in", ch, k) \in granted
       PROVE  Tracked(ch, k)'
  <2>1. s.do = "archiveChannel" => ch # s.ch BY <1>7, <1>15
  <2>2. s.do = "removeMember" => ~(ch = s.ch /\ k = s.key) BY <1>7, <1>15
  <2>3. LastAdopts(ch)' BY <1>13, <1>15, <2>1 DEF Tracked
  <2>4. joined'[ch][k] = joined[ch][k] BY <1>12, <2>1, <2>2
  <2> QED BY <1>15, <2>3, <2>4 DEF Tracked
<1>16. KeysOK'
  <2>1. s.do = "archiveIdentity" => s.key \notin intents BY <1>6
  <2> QED BY <1>0, <1>4, <1>5, <2>1 DEF KeysOK
<1>17. OursOK'
  <2>1. \A w \in ToArchive' : Resource("channel", mapping'[w].ch, None) \in ours'
    BY <1>0, <1>4, <1>10 DEF OursOK
  <2>2. \A ch \in Channels, k \in claimed' \cup intents' :
          Tracked(ch, k)' => Resource("in", ch, k) \in ours'
    <3> claimed \cup intents \subseteq Keys BY <1>0 DEF TypeOK
    <3> QED BY <1>0, <1>4, <1>14 DEF OursOK
  <2>3. /\ \A k \in (claimed' \ retired') \cup intents' : Resource("identity", None, k) \in ours'
        /\ \A k \in recOwners' : Resource("ownership", None, k) \in ours'
        /\ \A k \in recMembers' : Resource("relay", None, k) \in ours'
        /\ undone' \subseteq ours'
    BY <1>0, <1>4, <1>5 DEF OursOK
  <2> QED BY <2>1, <2>2, <2>3 DEF OursOK
<1>18. ASSUME NEW r \in granted PROVE r \in Provenance'
  <2>1. r \in Provenance /\ r \in Resources BY <1>0 DEF GrantsOK, TypeOK
  <2>2. PICK x \in {"channel", "in", "identity", "ownership", "relay"},
             ch \in Channels \cup {None}, k \in Keys \cup {None} : r = Resource(x, ch, k)
    BY <2>1 DEF Resources, Resource
  <2>3. CASE x = "channel"
    <3>1. k = None /\ \E w \in ToArchive : mapping[w].ch = ch
      BY <2>1, <2>2, <2>3, ProvenanceKind
    <3>2. PICK w \in ToArchive : mapping[w].ch = ch BY <3>1
    <3>3. ~(s.do = "archiveChannel" /\ w = s.ws)
      <4>1. w \in Spaces /\ mapping[w] # None BY DEF ToArchive
      <4> QED BY <1>6, <1>7, <2>2, <2>3, <3>1, <3>2, <4>1
    <3>4. w \in ToArchive' /\ mapping'[w].ch = ch BY <1>10, <1>11, <3>2, <3>3
    <3> QED BY <2>2, <2>3, <3>1, <3>4 DEF Provenance
  <2>4. CASE x = "in"
    <3>1. ch \in Channels /\ k \in claimed /\ Tracked(ch, k)
      BY <2>1, <2>2, <2>4, ProvenanceKind
    <3>2. Tracked(ch, k)' BY <1>8, <1>15, <2>2, <2>4, <3>1
    <3>3. <<ch, k>> \in {n \in Channels \X claimed' : Tracked(n[1], n[2])'}
      BY <1>4, <3>1, <3>2
    <3>4. Resource("in", ch, k) \in {Resource("in", m[1], m[2]) :
                                       m \in {n \in Channels \X claimed' : Tracked(n[1], n[2])'}}
      BY <3>3
    <3> QED BY <2>2, <2>4, <3>4 DEF Provenance
  <2>5. CASE x = "identity"
    <3>1. ch = None /\ k \in (claimed \ retired) \cup (intents \cap configured)
      BY <2>1, <2>2, <2>5, ProvenanceKind
    <3>2. ~(s.do = "archiveIdentity" /\ k = s.key) BY <1>7, <2>2, <2>5, <3>1
    <3>3. k \in (claimed' \ retired') \cup (intents' \cap configured')
      BY <1>4, <1>5, <3>1, <3>2
    <3> QED BY <2>2, <2>5, <3>1, <3>3 DEF Provenance
  <2>6. CASE x = "ownership"
    <3>1. ch = None /\ k \in claimed \cap recOwners BY <2>1, <2>2, <2>6, ProvenanceKind
    <3>2. ~(s.do = "clearOwner" /\ k = s.key) BY <1>7, <2>2, <2>6, <3>1
    <3>3. k \in claimed' \cap recOwners' BY <1>4, <1>5, <3>1, <3>2
    <3> QED BY <2>2, <2>6, <3>1, <3>3 DEF Provenance
  <2>7. CASE x = "relay"
    <3>1. ch = None /\ k \in claimed \cap recMembers BY <2>1, <2>2, <2>7, ProvenanceKind
    <3>2. ~(s.do = "removeRelay" /\ k = s.key) BY <1>7, <2>2, <2>7, <3>1
    <3>3. k \in claimed' \cap recMembers' BY <1>4, <1>5, <3>1, <3>2
    <3> QED BY <2>2, <2>7, <3>1, <3>3 DEF Provenance
  <2> QED BY <2>2, <2>3, <2>4, <2>5, <2>6, <2>7
<1>19. GrantsOK'
  <2>1. \A r : InEffect(r)' <=> InEffect(r) BY <1>4 DEF InEffect
  <2> QED BY <1>0, <1>4, <1>18, <2>1 DEF GrantsOK
<1>20. ASSUME NEW t, StepOK(t) PROVE StepOK(t)'
  <2>1. Undoing(t)' = Undoing(t) BY DEF Undoing, Undoes
  <2> QED BY <1>4, <1>9, <1>20, <2>1 DEF StepOK
<1> QED BY <1>16, <1>17, <1>19, <1>20

\* Noting keeps the invariant.
LEMMA NoteStep ==
  ASSUME CleanupInv, NEW c \in Commands, Note(c)
  PROVE  CleanupInv'
<1> DEFINE s == target[c]
<1>0. TypeOK' BY RecordTypes
<1>1. /\ KeysOK' /\ OursOK' /\ GrantsOK'
      /\ \A t : StepOK(t) => StepOK(t)'
  BY NoteKeeps
<1>2. pc[c] = "note" /\ plan' = [plan EXCEPT ![c] = plan[c] \ {s}] /\ target' = target
      /\ intents' = intents /\ granted' = granted /\ files' = files \cup {"state", "lock", "marker"}
      /\ pc' = [pc EXCEPT ![c] = "act"]
  BY DEF Note, Goto, command, history
<1>3. pc \in [Commands -> Places] /\ plan \in [Commands -> SUBSET Steps] /\ PlanOK(c) /\ CoverOK(c)
  BY DEF CleanupInv, TypeOK
<1> HIDE DEF s
<1>4. pc'[c] = "act" /\ plan'[c] = plan[c] \ {s} BY <1>2, <1>3
<1>5. PlanOK(c)' BY <1>1, <1>3, <1>4 DEF PlanOK
<1>6. CoverOK(c)'
  <2>1. \A t : Undoes(t)' = Undoes(t) BY DEF Undoes
  <2>2. \A r \in granted : \E t \in plan[c] : r \in Undoes(t) BY <1>2, <1>3 DEF CoverOK
  <2>3. Undoes(s) \cap granted = {} BY <1>2, <1>3 DEF CoverOK, s
  <2>4. \A r \in granted : \E t \in plan'[c] : r \in Undoes(t) BY <1>4, <2>2, <2>3
  <2> QED BY <1>2, <1>4, <2>1, <2>4 DEF CoverOK, Files
<1>7. ASSUME NEW d \in Commands \ {c} PROVE PlanOK(d)' /\ CoverOK(d)'
  <2>1. \A t \in plan[d] : StepOK(t)' BY <1>1 DEF CleanupInv, PlanOK
  <2>2. pc'[d] = pc[d] /\ plan'[d] = plan[d] BY <1>2, <1>3, <1>7
  <2> QED BY <1>2, <1>7, <2>1, <2>2, Others
<1>8. FilesOK'
  <2> SUFFICES ASSUME "secrets" \notin files'
               PROVE  granted' = {} /\ \E d \in Commands : pc'[d] \notin {"idle", "stop"}
    BY DEF FilesOK
  <2>1. granted = {} BY <1>2 DEF CleanupInv, FilesOK
  <2> QED BY <1>2, <1>4, <2>1
<1> QED BY <1>0, <1>1, <1>5, <1>6, <1>7, <1>8 DEF CleanupInv

\* The deletion of a file keeps the invariant: nothing is granted any more.
LEMMA DeleteStep ==
  ASSUME CleanupInv, NEW c \in Commands, Delete(c)
  PROVE  CleanupInv'
<1> USE DEF state, relay, command, history
<1>0. TypeOK' BY RecordTypes
<1>1. pc[c] \in Files /\ CoverOK(c) /\ PlanOK(c) /\ TypeOK /\ KeysOK /\ OursOK /\ GrantsOK
  BY DEF CleanupInv, Delete
<1>2. granted = {} /\ UNCHANGED <<granted, ours, undone, plan, target, gone>>
  BY <1>1 DEF CoverOK, Delete
<1>3. pc' = [pc EXCEPT ![c] = AfterFile(pc[c])] BY DEF Delete, Goto
<1>4. AfterFile(pc[c]) \in Files \cup {"done"} BY DEF AfterFile, Files
<1>5. pc'[c] \in Files \cup {"done"} /\ \A d \in Commands \ {c} : pc'[d] = pc[d]
  BY <1>1, <1>3, <1>4 DEF TypeOK
<1>6. ASSUME pc[c] # "state"
      PROVE  KeysOK' /\ OursOK' /\ (\A s : StepOK(s) => StepOK(s)') /\ intents' \subseteq intents
  <2>1. UNCHANGED <<mapping, joined, claimed, retired, intents, recMembers, recOwners>>
    BY <1>6 DEF Delete
  <2>2. KeysOK' BY <1>1, <1>2, <2>1 DEF KeysOK
  <2>3. OursOK' BY <1>1, <1>2, <2>1 DEF OursOK, ToArchive, Tracked, LastAdopts
  <2>4. \A s : StepOK(s) => StepOK(s)'
    <3> TAKE s
    <3>1. Undoing(s)' = Undoing(s) BY DEF Undoing, Undoes
    <3> QED BY <1>2, <2>1, <3>1 DEF StepOK
  <2> QED BY <2>1, <2>2, <2>3, <2>4
<1>7. ASSUME pc[c] = "state"
      PROVE  KeysOK' /\ OursOK' /\ (\A s : StepOK(s) => StepOK(s)') /\ intents' \subseteq intents
  <2>1. /\ mapping' = [w \in Spaces |-> None]
        /\ joined' = [ch \in Channels |-> [k \in Keys |-> None]]
        /\ claimed' = {} /\ retired' = {} /\ intents' = {}
        /\ recMembers' = {} /\ recOwners' = {}
    BY <1>7 DEF Delete
  <2>2. KeysOK' BY <1>2, <2>1 DEF KeysOK
  <2>3. \A w \in Spaces : mapping'[w] = None BY <2>1
  <2>4. ToArchive' = {} BY <2>3 DEF ToArchive
  <2>5. OursOK' BY <1>1, <1>2, <2>1, <2>4 DEF OursOK
  <2>6. \A s : StepOK(s) => StepOK(s)'
    <3> TAKE s
    <3>1. Undoing(s)' = Undoing(s) BY DEF Undoing, Undoes
    <3> QED BY <1>2, <2>1, <2>3, <3>1 DEF StepOK
  <2> QED BY <2>1, <2>2, <2>5, <2>6
<1>8. KeysOK' /\ OursOK' /\ (\A s : StepOK(s) => StepOK(s)') /\ intents' \subseteq intents
  BY <1>6, <1>7
<1>9. GrantsOK' BY <1>2 DEF GrantsOK
<1>10. ASSUME NEW d \in Commands \ {c} PROVE PlanOK(d)' /\ CoverOK(d)'
  <2>1. \A t \in plan[d] : StepOK(t)' BY <1>8 DEF CleanupInv, PlanOK
  <2> QED BY <1>2, <1>5, <1>8, <1>10, <2>1, Others
<1>11. PlanOK(c)'
  <2>1. \A t \in plan[c] : StepOK(t)' BY <1>1, <1>8 DEF PlanOK
  <2> QED BY <1>2, <1>5, <2>1 DEF PlanOK, Files
<1>12. CoverOK(c)' BY <1>2, <1>5 DEF CoverOK, Files
<1>13. FilesOK' BY <1>2, <1>5 DEF FilesOK, Files
<1> QED BY <1>0, <1>8, <1>9, <1>10, <1>11, <1>12, <1>13 DEF CleanupInv

\* So does the resolution of announced identities.
LEMMA ReloadStep ==
  ASSUME CleanupInv, NEW c \in Commands, Reload(c)
  PROVE  CleanupInv'
<1> USE DEF state, relay, command, history
<1>0. TypeOK' BY RecordTypes
<1>1. TypeOK /\ KeysOK /\ OursOK /\ GrantsOK /\ PlanOK(c) /\ CoverOK(c) BY DEF CleanupInv
<1>2. PICK l \in {"plan", "failed"} : pc' = [pc EXCEPT ![c] = l] BY DEF Reload, Goto
<1>3. pc'[c] = l /\ \A d \in Commands \ {c} : pc'[d] = pc[d] BY <1>1, <1>2 DEF TypeOK
<1>4. UNCHANGED <<mapping, joined, retired, recMembers, recOwners, files, configured,
                  archived, role, gone, owned, member, plan, target, granted, ours, undone>>
  BY DEF Reload
<1>5. \/ UNCHANGED <<claimed, intents>> /\ l # "plan"
      \/ claimed' = claimed \cup (intents \cap configured)
         /\ intents' = intents \ (intents \cap configured)
  <2>1. CASE Loadable BY <2>1 DEF Reload, Resolved
  <2>2. CASE ~Loadable
    <3>1. Goto(c, "failed") /\ UNCHANGED <<claimed, intents>> BY <2>2 DEF Reload
    <3>2. pc'[c] = "failed" BY <1>1, <3>1 DEF Goto, TypeOK
    <3> QED BY <1>3, <3>1, <3>2
  <2> QED BY <2>1, <2>2
<1>6. claimed \subseteq claimed' /\ intents' \subseteq intents
      /\ claimed' \cup intents' = claimed \cup intents
      /\ claimed' \cap intents' = {}
      /\ (claimed \cup (intents \cap configured)) \subseteq claimed' \cup (intents' \cap configured)
  BY <1>1, <1>5 DEF KeysOK
<1>7. KeysOK' BY <1>1, <1>4, <1>6 DEF KeysOK
<1>8. ToArchive' = ToArchive /\ \A ch, k : Tracked(ch, k)' <=> Tracked(ch, k)
  BY <1>4 DEF ToArchive, Tracked, LastAdopts
<1>9. OursOK' BY <1>1, <1>4, <1>6, <1>8 DEF OursOK
<1>10. Provenance \subseteq Provenance'
  <2> DEFINE I == {Resource("in", m[1], m[2]) :
                     m \in {n \in Channels \X claimed : Tracked(n[1], n[2])}}
  <2>1. I \subseteq {Resource("in", m[1], m[2]) :
                       m \in {n \in Channels \X claimed' : Tracked(n[1], n[2])'}}
    BY <1>6, <1>8
  <2>2. (claimed \ retired) \cup (intents \cap configured)
          \subseteq (claimed' \ retired') \cup (intents' \cap configured')
    BY <1>1, <1>4, <1>6 DEF KeysOK
  <2> HIDE DEF I
  <2> QED BY <1>4, <1>6, <1>8, <2>1, <2>2 DEF Provenance, I
<1>11. GrantsOK'
  <2>1. \A r : InEffect(r)' <=> InEffect(r) BY <1>4 DEF InEffect
  <2> QED BY <1>1, <1>4, <1>10, <2>1 DEF GrantsOK
<1>12. \A s : StepOK(s) => StepOK(s)'
  <2> TAKE s
  <2>1. Undoing(s)' = Undoing(s) BY DEF Undoing, Undoes
  <2> QED BY <1>4, <1>6, <2>1 DEF StepOK
<1>13. ASSUME NEW d \in Commands \ {c} PROVE PlanOK(d)' /\ CoverOK(d)'
  <2>1. \A t \in plan[d] : StepOK(t)' BY <1>12 DEF CleanupInv, PlanOK
  <2> QED BY <1>3, <1>4, <1>6, <1>13, <2>1, Others
<1>14. PlanOK(c)'
  <2>1. \A t \in plan[c] : StepOK(t)' BY <1>1, <1>12 DEF PlanOK
  <2> QED BY <1>3, <1>4, <2>1 DEF PlanOK
<1>15. CoverOK(c)'
  <2>1. ASSUME l = "plan", NEW k \in intents' PROVE Resource("identity", None, k) \notin granted
    <3>1. k \in intents /\ k \notin configured BY <1>5, <2>1
    <3>2. k \notin claimed BY <1>1, <3>1 DEF KeysOK
    <3> QED BY <1>1, <3>1, <3>2, ProvenanceKind DEF GrantsOK
  <2> QED BY <1>3, <1>4, <2>1 DEF CoverOK, Files
<1>16. FilesOK'
  <2> SUFFICES ASSUME "secrets" \notin files
               PROVE  granted = {} /\ \E d \in Commands : pc'[d] \notin {"idle", "stop"}
    BY <1>4 DEF FilesOK
  <2>1. granted = {} BY DEF CleanupInv, FilesOK
  <2> QED BY <1>3, <2>1
<1> QED BY <1>0, <1>7, <1>9, <1>11, <1>13, <1>14, <1>15, <1>16 DEF CleanupInv

----------------------------------------------------------------------------
(* The last pass and people.                                               *)

\* While the last pass may still grant something, no cleanup is beyond its start.
LEMMA EndingIdle ==
  ASSUME CleanupInv, Ending, NEW c \in Commands, UNCHANGED <<pc, plan, target>>,
         \A s : StepOK(s) => StepOK(s)'
  PROVE  /\ PlanOK(c)' /\ CoverOK(c)' /\ "secrets" \in files
<1>1. pc[c] \in {"idle", "stop"} /\ "secrets" \in files
  BY DEF CleanupInv, FilesOK, Ending
<1>2. \A s \in plan'[c] : StepOK(s)' BY DEF CleanupInv, PlanOK
<1> QED BY <1>1, <1>2 DEF PlanOK, CoverOK, Files

\* What the last pass grants is on record.
LEMMA PassStep ==
  ASSUME CleanupInv, NEW k \in Keys, PassConfigures(k) \/ PassRecords(k) \/ PassRegisters(k)
  PROVE  CleanupInv'
<1> USE DEF state, relay, command, history
<1>0. TypeOK' BY OtherTypes
<1>1. TypeOK /\ KeysOK /\ OursOK /\ GrantsOK BY DEF CleanupInv
<1>2. Ending /\ UNCHANGED <<mapping, joined, retired, files, archived, role, gone, pc, plan,
                            target, undone>>
  BY DEF PassConfigures, PassRecords, PassRegisters
<1>3. /\ claimed \subseteq claimed' /\ claimed' \cup intents' = claimed \cup intents
      /\ intents' \subseteq intents /\ configured \subseteq configured'
      /\ recMembers \subseteq recMembers' /\ recOwners \subseteq recOwners'
      /\ owned \subseteq owned' /\ member \subseteq member' /\ ours \subseteq ours'
  BY DEF PassConfigures, PassRecords, PassRegisters
<1>4. KeysOK'
  BY <1>1, <1>2 DEF PassConfigures, PassRecords, PassRegisters, KeysOK
<1>5. ToArchive' = ToArchive /\ \A ch, i : Tracked(ch, i)' <=> Tracked(ch, i)
  BY <1>2 DEF ToArchive, Tracked, LastAdopts
<1>6. OursOK'
  <2>1. /\ \A w \in ToArchive' : Resource("channel", mapping'[w].ch, None) \in ours'
        /\ \A ch \in Channels, i \in claimed' \cup intents' :
             Tracked(ch, i)' => Resource("in", ch, i) \in ours'
        /\ \A i \in (claimed' \ retired') \cup intents' : Resource("identity", None, i) \in ours'
        /\ undone' \subseteq ours'
    BY <1>1, <1>2, <1>3, <1>5 DEF OursOK
  <2>2. /\ \A i \in recOwners' : Resource("ownership", None, i) \in ours'
        /\ \A i \in recMembers' : Resource("relay", None, i) \in ours'
    BY <1>1 DEF PassConfigures, PassRecords, PassRegisters, OursOK
  <2> QED BY <2>1, <2>2 DEF OursOK
<1>7. Provenance \subseteq Provenance'
  <2> DEFINE I == {Resource("in", m[1], m[2]) :
                     m \in {n \in Channels \X claimed : Tracked(n[1], n[2])}}
  <2>1. I \subseteq {Resource("in", m[1], m[2]) :
                       m \in {n \in Channels \X claimed' : Tracked(n[1], n[2])'}}
    BY <1>3, <1>5
  <2>2. (claimed \ retired) \cup (intents \cap configured)
          \subseteq (claimed' \ retired') \cup (intents' \cap configured')
    BY <1>1, <1>2, <1>3 DEF KeysOK
  <2>3. claimed \cap recOwners \subseteq claimed' \cap recOwners'
        /\ claimed \cap recMembers \subseteq claimed' \cap recMembers'
    BY <1>3
  <2> HIDE DEF I
  <2> QED BY <1>2, <1>5, <2>1, <2>2, <2>3 DEF Provenance, I
<1>8. \A r : InEffect(r) => InEffect(r)'
  BY <1>2, <1>3 DEF InEffect
<1>9. \A r \in granted' \ granted : r \in Provenance' /\ InEffect(r)'
  <2>1. CASE PassConfigures(k)
    <3>1. granted' = granted \cup {Resource("identity", None, k)} /\ k \in intents'
          /\ k \in configured' /\ k \notin gone'
      BY <1>1, <1>2, <2>1 DEF PassConfigures, KeysOK
    <3>2. Resource("identity", None, k) \in Provenance' BY <3>1 DEF Provenance
    <3>3. InEffect(Resource("identity", None, k))' BY <3>1 DEF InEffect, Resource
    <3> QED BY <3>1, <3>2, <3>3
  <2>2. CASE PassRecords(k) BY <2>2 DEF PassRecords
  <2>3. CASE PassRegisters(k)
    <3>1. /\ granted' = granted \cup {Resource("relay", None, k), Resource("ownership", None, k)}
          /\ k \in claimed' \cap recMembers' /\ k \in claimed' \cap recOwners'
          /\ k \in member' /\ k \in owned'
      BY <2>3 DEF PassRegisters
    <3>2. /\ Resource("relay", None, k) \in Provenance'
          /\ Resource("ownership", None, k) \in Provenance'
      BY <3>1 DEF Provenance
    <3>3. InEffect(Resource("relay", None, k))' /\ InEffect(Resource("ownership", None, k))'
      BY <3>1 DEF InEffect, Resource
    <3> QED BY <3>1, <3>2, <3>3
  <2> QED BY <2>1, <2>2, <2>3
<1>10. GrantsOK' BY <1>1, <1>7, <1>8, <1>9 DEF GrantsOK
<1>11. \A s : StepOK(s) => StepOK(s)'
  <2> TAKE s
  <2>1. Undoing(s)' = Undoing(s) BY DEF Undoing, Undoes
  <2> QED BY <1>2, <1>3, <2>1 DEF StepOK
<1>12. \A c \in Commands : PlanOK(c)' /\ CoverOK(c)' /\ "secrets" \in files
  BY <1>2, <1>11, EndingIdle
<1>13. FilesOK' BY <1>2, <1>12 DEF FilesOK, Ending
<1> QED BY <1>0, <1>4, <1>6, <1>10, <1>12, <1>13 DEF CleanupInv

\* People change the relay and drop identities; what they undo is no longer granted.
LEMMA PeopleStep ==
  ASSUME CleanupInv, People
  PROVE  CleanupInv'
<1> USE DEF state, relay, command
<1>0. TypeOK' BY Bounds, OtherTypes
<1>1. TypeOK /\ KeysOK /\ OursOK /\ GrantsOK BY DEF CleanupInv
<1>2. /\ UNCHANGED <<mapping, joined, claimed, retired, intents, recMembers, recOwners, files,
                     pc, plan, target, ours, undone, gone>>
      /\ granted' \subseteq granted /\ configured' \subseteq configured
      /\ configured \subseteq configured' \cup claimed
  BY DEF People, SetRole, SetArchived, SetMember, SetOwner, DropIdentity, Meanwhile
<1>3. KeysOK' BY <1>1, <1>2 DEF KeysOK
<1>4. ToArchive' = ToArchive /\ \A ch, i : Tracked(ch, i)' <=> Tracked(ch, i)
  BY <1>2 DEF ToArchive, Tracked, LastAdopts
<1>5. OursOK' BY <1>1, <1>2, <1>4 DEF OursOK
<1>6. Provenance' = Provenance
  <2>1. intents' \cap configured' = intents \cap configured BY <1>1, <1>2 DEF KeysOK
  <2> QED BY <1>2, <1>4, <2>1 DEF Provenance
<1>7. \A r \in granted' : InEffect(r)'
  <2> SUFFICES ASSUME NEW r \in granted' PROVE InEffect(r)' OBVIOUS
  <2>1. r \in granted /\ r \in Resources /\ r \in Provenance /\ InEffect(r)
    BY <1>1, <1>2 DEF TypeOK, GrantsOK
  <2>2. PICK x \in {"channel", "in", "identity", "ownership", "relay"},
             ch \in Channels \cup {None}, i \in Keys \cup {None} : r = Resource(x, ch, i)
    BY <2>1 DEF Resources, Resource
  <2>3. CASE \E h \in Channels, j \in Keys, o \in Roles \cup {None} : SetRole(h, j, o)
    <3> PICK h \in Channels, j \in Keys, o \in Roles \cup {None} : SetRole(h, j, o) BY <2>3
    <3>1. role' = [role EXCEPT ![h][j] = o] /\ UNCHANGED <<archived, owned, member>>
          /\ (o = None => granted' = granted \ {Resource("in", h, j)})
      BY DEF SetRole
    <3>2. CASE x = "in"
      <4>1. ch \in Channels /\ i \in Keys /\ role[ch][i] # None
        BY <1>1, <2>1, <2>2, <3>2, ProvenanceKind, InEffectKind DEF TypeOK
      <4>2. role'[ch][i] # None
        <5>1. CASE ch = h /\ i = j
          <6>1. o # None BY <2>2, <3>1, <3>2, <5>1
          <6> QED BY <1>1, <3>1, <4>1, <5>1, <6>1 DEF TypeOK
        <5>2. CASE ~(ch = h /\ i = j) BY <1>1, <3>1, <4>1, <5>2 DEF TypeOK
        <5> QED BY <5>1, <5>2
      <4> QED BY <2>2, <3>2, <4>2 DEF InEffect, Resource
    <3>3. CASE x # "in" BY <1>2, <2>1, <2>2, <3>1, <3>3 DEF InEffect, Resource
    <3> QED BY <3>2, <3>3
  <2>4. CASE \E h \in Channels : SetArchived(h)
    <3> PICK h \in Channels : SetArchived(h) BY <2>4
    <3>1. /\ archived' \subseteq archived \cup {h} /\ UNCHANGED <<role, owned, member>>
          /\ r # Resource("channel", h, None)
      BY DEF SetArchived
    <3>2. CASE x = "channel"
      <4>1. i = None /\ ch \notin archived
        BY <2>1, <2>2, <3>2, ProvenanceKind, InEffectKind
      <4>2. ch \notin archived' BY <2>2, <3>1, <3>2, <4>1
      <4> QED BY <2>2, <3>2, <4>2 DEF InEffect, Resource
    <3>3. CASE x # "channel" BY <1>2, <2>1, <2>2, <3>1, <3>3 DEF InEffect, Resource
    <3> QED BY <3>2, <3>3
  <2>5. CASE \E j \in Keys : SetMember(j)
    <3> PICK j \in Keys : SetMember(j) BY <2>5
    <3>1. /\ member \ {j} \subseteq member' /\ UNCHANGED <<role, owned, archived>>
          /\ r # Resource("relay", None, j)
      BY DEF SetMember
    <3>2. CASE x = "relay"
      <4>1. ch = None /\ i \in member BY <2>1, <2>2, <3>2, ProvenanceKind, InEffectKind
      <4>2. i \in member' BY <2>2, <3>1, <3>2, <4>1
      <4> QED BY <2>2, <3>2, <4>2 DEF InEffect, Resource
    <3>3. CASE x # "relay" BY <1>2, <2>1, <2>2, <3>1, <3>3 DEF InEffect, Resource
    <3> QED BY <3>2, <3>3
  <2>6. CASE \E j \in Keys : SetOwner(j)
    <3> PICK j \in Keys : SetOwner(j) BY <2>6
    <3>1. /\ owned \ {j} \subseteq owned' /\ UNCHANGED <<role, member, archived>>
          /\ r # Resource("ownership", None, j)
      BY DEF SetOwner
    <3>2. CASE x = "ownership"
      <4>1. ch = None /\ i \in owned BY <2>1, <2>2, <3>2, ProvenanceKind, InEffectKind
      <4>2. i \in owned' BY <2>2, <3>1, <3>2, <4>1
      <4> QED BY <2>2, <3>2, <4>2 DEF InEffect, Resource
    <3>3. CASE x # "ownership" BY <1>2, <2>1, <2>2, <3>1, <3>3 DEF InEffect, Resource
    <3> QED BY <3>2, <3>3
  <2>7. CASE \E j \in Keys : DropIdentity(j)
    <3>1. UNCHANGED <<role, member, archived, owned>> BY <2>7 DEF DropIdentity
    <3> QED BY <1>2, <2>1, <3>1 DEF InEffect
  <2> QED BY <2>3, <2>4, <2>5, <2>6, <2>7 DEF People
<1>8. GrantsOK' BY <1>1, <1>2, <1>6, <1>7 DEF GrantsOK
<1>9. \A s : StepOK(s) => StepOK(s)'
  <2> TAKE s
  <2>1. Undoing(s)' = Undoing(s) BY DEF Undoing, Undoes
  <2> QED BY <1>2, <2>1 DEF StepOK
<1>10. ASSUME NEW d \in Commands PROVE PlanOK(d)' /\ CoverOK(d)'
  <2>1. \A t \in plan[d] : StepOK(t)' BY <1>9 DEF CleanupInv, PlanOK
  <2> QED BY <1>2, <1>10, <2>1, Others
<1>11. FilesOK' BY <1>2 DEF CleanupInv, FilesOK
<1> QED BY <1>0, <1>3, <1>5, <1>8, <1>10, <1>11 DEF CleanupInv

----------------------------------------------------------------------------
(* The invariant and what follows.                                         *)

\* It holds at the start.
LEMMA CleanupInit == Init => CleanupInv
<1> SUFFICES ASSUME Init PROVE CleanupInv OBVIOUS
<1>0. MaxFaults \in Nat /\ MaxChanges \in Nat BY Bounds
<1>1. KeysOK BY DEF Init, KeysOK
<1>2. undone = {} /\ (\A c \in Commands : pc[c] = "idle" /\ plan[c] = {}) /\ files = Files
  BY DEF Init, Quiet
<1>3. /\ Provenance \subseteq ours
      /\ {Resource("in", m[1], m[2]) : m \in {n \in Channels \X intents : Tracked(n[1], n[2])}}
           \subseteq ours
      /\ {Resource("identity", None, k) : k \in intents} \subseteq ours
  BY DEF Init, Quiet
<1>4. OursOK
  <2>1. \A w \in ToArchive : Resource("channel", mapping[w].ch, None) \in ours
    BY <1>3, ProvenanceKind
  <2>2. \A ch \in Channels, k \in claimed : Tracked(ch, k) => Resource("in", ch, k) \in ours
    BY <1>3, ProvenanceKind
  <2>3. ASSUME NEW ch \in Channels, NEW k \in intents, Tracked(ch, k)
        PROVE  Resource("in", ch, k) \in ours
    <3>1. <<ch, k>> \in {n \in Channels \X intents : Tracked(n[1], n[2])} BY <2>3
    <3> QED BY <1>3, <3>1
  <2>4. \A k \in (claimed \ retired) \cup intents : Resource("identity", None, k) \in ours
    BY <1>3, ProvenanceKind
  <2>5. recMembers \subseteq claimed /\ recOwners \subseteq claimed BY DEF Init
  <2>6. /\ \A k \in recOwners : Resource("ownership", None, k) \in ours
        /\ \A k \in recMembers : Resource("relay", None, k) \in ours
    BY <1>3, <2>5, ProvenanceKind
  <2> QED BY <1>2, <2>1, <2>2, <2>3, <2>4, <2>6 DEF OursOK
<1>5. GrantsOK BY DEF Init, GrantsOK
<1>6. Provenance \subseteq Resources
  <2>1. \A x \in {"channel", "in", "identity", "ownership", "relay"},
           ch \in Channels \cup {None}, k \in Keys \cup {None} :
          Resource(x, ch, k) \in Resources
    BY DEF Resource, Resources
  <2>2. \A w \in ToArchive : mapping[w].ch \in Channels BY DEF Init, ToArchive, Mappings
  <2>3. claimed \subseteq Keys /\ intents \subseteq Keys BY DEF Init
  <2> QED BY <2>1, <2>2, <2>3 DEF Provenance
<1>7. ours \subseteq Resources
  <2>1. \A x \in {"in", "identity"}, ch \in Channels \cup {None}, k \in intents :
          Resource(x, ch, k) \in Resources
    BY DEF Init, Resource, Resources
  <2> DEFINE I == {Resource("in", m[1], m[2]) :
                     m \in {n \in Channels \X intents : Tracked(n[1], n[2])}}
             D == {Resource("identity", None, k) : k \in intents}
  <2>2. I \subseteq Resources /\ D \subseteq Resources BY <2>1
  <2>3. ours = Provenance \cup I \cup D BY DEF Init, Quiet
  <2> HIDE DEF I, D
  <2> QED BY <1>6, <2>2, <2>3
<1>8. TypeOK
  <2>1. granted \subseteq Resources BY <1>6 DEF Init
  <2>2. /\ mapping \in [Spaces -> Mappings \cup {None}]
        /\ joined \in [Channels -> [Keys -> Records \cup {None}]]
        /\ claimed \subseteq Keys /\ retired \subseteq Keys /\ intents \subseteq Keys
        /\ recMembers \subseteq Keys /\ recOwners \subseteq Keys
        /\ configured \subseteq Keys
        /\ archived \subseteq Channels /\ role \in [Channels -> [Keys -> Roles \cup {None}]]
        /\ gone \subseteq Keys /\ owned \subseteq Keys /\ member \subseteq Keys
    BY DEF Init
  <2>3. /\ files \subseteq Files /\ pc \in [Commands -> Places] /\ cfg \in [Commands -> SUBSET Keys]
        /\ plan \in [Commands -> SUBSET Steps] /\ target \in [Commands -> Steps \cup {None}]
        /\ del \in [Commands -> BOOLEAN]
        /\ undone \subseteq Resources /\ cut \subseteq Keys
        /\ disturbed \in [Commands -> BOOLEAN]
        /\ faults \in 0..MaxFaults /\ changes \in 0..MaxChanges
    BY <1>0 DEF Init, Quiet, Places
  <2> QED BY <1>7, <2>1, <2>2, <2>3 DEF TypeOK
<1>9. \A c \in Commands : PlanOK(c) /\ CoverOK(c) BY <1>2 DEF PlanOK, CoverOK, Files
<1>10. FilesOK BY <1>2 DEF FilesOK, Files
<1> QED BY <1>1, <1>4, <1>5, <1>8, <1>9, <1>10 DEF CleanupInv

\* Every step keeps it.
LEMMA CleanupNext == CleanupInv /\ [Next]_vars => CleanupInv'
<1> SUFFICES ASSUME CleanupInv, [Next]_vars PROVE CleanupInv' OBVIOUS
<1>1. CASE \E c \in Commands : Step(c) \/ \E d \in BOOLEAN : Start(c, d)
  <2> PICK c \in Commands : Step(c) \/ \E d \in BOOLEAN : Start(c, d) BY <1>1
  <2> QED BY WalkStep, CallStep, NoteStep, DeleteStep, ReloadStep DEF Step
<1>2. CASE \E k \in Keys : PassConfigures(k) \/ PassRecords(k) \/ PassRegisters(k)
  BY <1>2, PassStep
<1>3. CASE People BY <1>3, PeopleStep
<1>4. CASE UNCHANGED vars
  <2> USE DEF vars, command, history
  <2>1. TypeOK' BY <1>4 DEF CleanupInv, TypeOK, state, relay
  <2>2. KeysOK' /\ OursOK' /\ GrantsOK' /\ \A s : StepOK(s)' <=> StepOK(s)
    BY <1>4, Untouched
  <2>3. ASSUME NEW d \in Commands PROVE PlanOK(d)' /\ CoverOK(d)'
    <3>1. \A t \in plan[d] : StepOK(t)' BY <2>2 DEF CleanupInv, PlanOK
    <3>2. UNCHANGED <<pc, plan, target, intents, granted>> BY <1>4 DEF state
    <3> QED BY <2>3, <3>1, <3>2, Others
  <2>4. FilesOK' BY <1>4 DEF CleanupInv, FilesOK
  <2> QED BY <2>1, <2>2, <2>3, <2>4 DEF CleanupInv
<1> QED BY <1>1, <1>2, <1>3, <1>4 DEF Next

\* Hence it is an invariant of every cleanup.
THEOREM CleanupInvariant == Spec => []CleanupInv
BY CleanupInit, CleanupNext, PTL DEF Spec

\* Every variable keeps its type, for any number of cleanups at a time (apply_deprovision).
THEOREM DeprovisionTypeCorrect == Spec => []TypeOK
<1>1. CleanupInv => TypeOK BY DEF CleanupInv
<1> QED BY <1>1, CleanupInvariant, PTL

\* No cleanup undoes what state.json did not prove to be buzzr's.
THEOREM OnlyOursHolds == Spec => []OnlyOurs
<1>1. CleanupInv => OnlyOurs BY DEF CleanupInv, OursOK, OnlyOurs
<1> QED BY <1>1, CleanupInvariant, PTL

\* Nothing of buzzr's is left on the relay once its secrets are deleted.
THEOREM SecretsLastHolds == Spec => []SecretsLast
<1>1. CleanupInv => SecretsLast BY DEF CleanupInv, FilesOK, SecretsLast
<1> QED BY <1>1, CleanupInvariant, PTL

----------------------------------------------------------------------------
(* Cleanup implements the ledger.                                          *)

\* The record names what it proves.
LEMMA RecordCovers ==
  ASSUME TypeOK
  PROVE  Provenance \subseteq Recorded
<1> DEFINE I == {Resource("in", m[1], m[2]) :
                   m \in {n \in Channels \X claimed : Tracked(n[1], n[2])}}
           J == {Resource("in", m[1], m[2]) :
                   m \in {n \in Channels \X Keys : joined[n[1]][n[2]] # None}}
<1>1. I \subseteq J
  <2> SUFFICES ASSUME NEW m \in {n \in Channels \X claimed : Tracked(n[1], n[2])}
               PROVE  m \in {n \in Channels \X Keys : joined[n[1]][n[2]] # None}
    OBVIOUS
  <2> QED BY DEF TypeOK, Tracked
<1> HIDE DEF I, J
<1> QED BY <1>1 DEF Provenance, Recorded, I, J

\* Every step of a cleanup is one of the ledger's, or none.
LEMMA CleanupRefines ==
  ASSUME CleanupInv, [Next]_vars
  PROVE  [L!Next]_<<Recorded, granted>>
<1> USE DEF L!Next, L!Write, L!Grant, L!Revoke
<1>0. CleanupInv' BY CleanupNext
<1>1. granted' \subseteq Recorded'
  <2>1. (TypeOK => Provenance \subseteq Recorded)' BY RecordCovers, PTL
  <2> QED BY <1>0, <2>1 DEF CleanupInv, GrantsOK
<1>3. ASSUME UNCHANGED state PROVE Recorded' = Recorded
  <2>1. UNCHANGED <<mapping, joined, claimed, retired, intents, recMembers, recOwners>>
    BY <1>3 DEF state
  <2>2. ToArchive' = ToArchive BY <2>1 DEF ToArchive
  <2> QED BY <2>1, <2>2 DEF Recorded
<1>4. CASE \E c \in Commands : Step(c) \/ \E d \in BOOLEAN : Start(c, d)
  <2> PICK c \in Commands : Step(c) \/ \E d \in BOOLEAN : Start(c, d) BY <1>4
  <2>1. CASE Call(c) \/ CallLost(c)
    <3>1. UNCHANGED state /\ granted' \subseteq granted BY <2>1 DEF Call, CallLost, Effect
    <3> QED BY <1>3, <3>1
  <2>2. CASE Note(c) \/ Delete(c) \/ Reload(c)
    <3>1. UNCHANGED granted BY <2>2 DEF Note, Delete, Reload, history
    <3> QED BY <1>1, <3>1
  <2>3. CASE (\E d \in BOOLEAN : Start(c, d)) \/ Stopped(c) \/ MakePlan(c) \/ Act(c) \/ Finish(c)
               \/ Look(c) \/ Refuse(c) \/ Abort(c)
    <3>1. UNCHANGED state /\ UNCHANGED granted
      BY <2>3 DEF Start, Stopped, MakePlan, Act, Finish, Look, Refuse, Abort, history
    <3> QED BY <1>3, <3>1
  <2> QED BY <2>1, <2>2, <2>3 DEF Step
<1>5. CASE \E k \in Keys : PassConfigures(k) \/ PassRegisters(k)
  <2> PICK k \in Keys : PassConfigures(k) \/ PassRegisters(k) BY <1>5
  <2>1. UNCHANGED state /\ granted \subseteq granted' BY DEF PassConfigures, PassRegisters
  <2> QED BY <1>1, <1>3, <2>1
<1>6. CASE \E k \in Keys : PassRecords(k)
  <2>1. UNCHANGED granted BY <1>6 DEF PassRecords
  <2> QED BY <1>1, <2>1
<1>7. CASE People
  <2>1. UNCHANGED state /\ granted' \subseteq granted
    BY <1>7 DEF People, SetRole, SetArchived, SetMember, SetOwner, DropIdentity, Meanwhile
  <2> QED BY <1>3, <2>1
<1>8. CASE UNCHANGED vars
  <2>1. UNCHANGED state /\ UNCHANGED granted BY <1>8 DEF vars, history
  <2> QED BY <1>3, <2>1
<1> QED BY <1>4, <1>5, <1>6, <1>7, <1>8 DEF Next

\* Cleanup implements the ledger: at any failure and restart, with any number of cleanups
\* side by side, a resource of buzzr's is struck off state.json only once it is undone.
THEOREM CleanupKeepsLedger == Spec => LedgerKept
<1>1. Init => L!Init
  <2>1. CleanupInv => granted \subseteq Recorded
    BY RecordCovers DEF CleanupInv, GrantsOK
  <2> QED BY <2>1, CleanupInit DEF L!Init
<1>2. CleanupInv /\ [Next]_vars => [L!Next]_<<Recorded, granted>> BY CleanupRefines
<1> QED BY <1>1, <1>2, CleanupInvariant, PTL DEF Spec, LedgerKept, L!Spec

----------------------------------------------------------------------------
(* The plan as a function of the record.                                   *)

ArchiveStep(w) == [do |-> "archiveChannel", ws |-> w, ch |-> mapping[w].ch, key |-> None,
                   role |-> None]

RemoveStep(ch, k) == [do |-> "removeMember", ws |-> None, ch |-> ch, key |-> k,
                      role |-> joined[ch][k].role]

IdentityKinds == {"archiveIdentity", "clearOwner", "removeRelay"}

\* A step is in the plan for one of three reasons.
Planned(t) == \/ \E w \in ToArchive : t = ArchiveStep(w)
              \/ \E ch \in Channels, k \in Keys : Removable(ch, k) /\ t = RemoveStep(ch, k)
              \/ \E kind \in IdentityKinds : \E k \in Due(kind) : t = IdentityStep(kind, k)

\* The plan has the steps there is a reason for, ...
LEMMA InPlan == \A t : t \in Plan <=> Planned(t)
<1> TAKE t
<1> DEFINE A == {ArchiveStep(w) : w \in ToArchive}
           R == {RemoveStep(m[1], m[2]) :
                   m \in {n \in Channels \X Keys : Removable(n[1], n[2])}}
           I == UNION {{IdentityStep(kind, k) : k \in Due(kind)} : kind \in IdentityKinds}
<1>1. Plan = A \cup R \cup I BY DEF Plan, ArchiveStep, RemoveStep, IdentityKinds
<1>2. t \in A <=> \E w \in ToArchive : t = ArchiveStep(w) OBVIOUS
<1>3. t \in R <=> \E ch \in Channels, k \in Keys : Removable(ch, k) /\ t = RemoveStep(ch, k)
  <2>1. ASSUME NEW ch \in Channels, NEW k \in Keys, Removable(ch, k), t = RemoveStep(ch, k)
        PROVE  t \in R
    <3>1. <<ch, k>> \in {n \in Channels \X Keys : Removable(n[1], n[2])} BY <2>1
    <3> QED BY <2>1, <3>1
  <2>2. ASSUME t \in R
        PROVE  \E ch \in Channels, k \in Keys : Removable(ch, k) /\ t = RemoveStep(ch, k)
    <3>1. PICK n \in Channels \X Keys :
            Removable(n[1], n[2]) /\ t = RemoveStep(n[1], n[2])
      BY <2>2
    <3> QED BY <3>1
  <2> QED BY <2>1, <2>2
<1>4. t \in I <=> \E kind \in IdentityKinds : \E k \in Due(kind) : t = IdentityStep(kind, k)
  OBVIOUS
<1> HIDE DEF A, R, I
<1> QED BY <1>1, <1>2, <1>3, <1>4 DEF Planned

\* ... also after the next step.
LEMMA InNextPlan == (\A t : t \in Plan <=> Planned(t))'
BY InPlan, PTL

\* What a step of the plan says of the record, ...
PlanFact(t) ==
  /\ t.do \in Kinds
  /\ t.do = "archiveChannel" => t.ws \in ToArchive
  /\ t.do = "removeMember" => t.ch \in Channels /\ t.key \in Keys /\ Removable(t.ch, t.key)
  /\ t.do = "archiveIdentity" => t.key \in claimed \ retired
  /\ t.do = "clearOwner" => t.key \in recOwners
  /\ t.do = "removeRelay" => t.key \in recMembers

LEMMA PlanFields == \A t \in Plan : PlanFact(t)
<1> TAKE t \in Plan
<1>1. CASE \E w \in ToArchive : t = ArchiveStep(w) BY <1>1 DEF PlanFact, ArchiveStep, Kinds
<1>2. CASE \E ch \in Channels, k \in Keys : Removable(ch, k) /\ t = RemoveStep(ch, k)
  BY <1>2 DEF PlanFact, RemoveStep, Kinds
<1>3. CASE \E kind \in IdentityKinds : \E k \in Due(kind) : t = IdentityStep(kind, k)
  BY <1>3 DEF PlanFact, IdentityStep, Kinds, Due, IdentityKinds
<1> QED BY <1>1, <1>2, <1>3, InPlan DEF Planned

\* ... and of the next one.
LEMMA NextPlanFields == (\A t \in Plan : PlanFact(t))'
BY PlanFields, PTL

\* Striking off the record makes the plan smaller.
LEMMA PlanShrinks ==
  ASSUME ToArchive' \subseteq ToArchive,
         \A w \in ToArchive' : mapping'[w].ch = mapping[w].ch,
         \A ch \in Channels, k \in Keys : Removable(ch, k)' =>
           Removable(ch, k) /\ joined'[ch][k].role = joined[ch][k].role,
         \A kind \in IdentityKinds : Due(kind)' \subseteq Due(kind)
  PROVE  Plan' \subseteq Plan
<1> SUFFICES ASSUME NEW t \in Plan' PROVE t \in Plan OBVIOUS
<1>1. \/ \E w \in ToArchive' : t = ArchiveStep(w)'
      \/ \E ch \in Channels, k \in Keys : Removable(ch, k)' /\ t = RemoveStep(ch, k)'
      \/ \E kind \in IdentityKinds : \E k \in Due(kind)' : t = IdentityStep(kind, k)
  BY InNextPlan DEF Planned, IdentityStep, IdentityKinds
<1>2. CASE \E w \in ToArchive' : t = ArchiveStep(w)' BY <1>2, InPlan DEF Planned, ArchiveStep
<1>3. CASE \E ch \in Channels, k \in Keys : Removable(ch, k)' /\ t = RemoveStep(ch, k)'
  BY <1>3, InPlan DEF Planned, RemoveStep
<1>4. CASE \E kind \in IdentityKinds : \E k \in Due(kind)' : t = IdentityStep(kind, k)
  BY <1>4, InPlan DEF Planned
<1> QED BY <1>1, <1>2, <1>3, <1>4

\* New claims add steps that the claimed keys sign, or nobody.
LEMMA PlanGrows ==
  ASSUME NEW K, UNCHANGED <<mapping, joined, retired>>, claimed' = claimed \cup K,
         NEW t \in Plan', Signer(t) \notin K \cup {None}
  PROVE  t \in Plan
<1> USE InPlan DEF Planned
<1>1. Planned(t)' BY InNextPlan
<1>2. ToArchive' = ToArchive BY DEF ToArchive
<1>3. \A ch, k : Tracked(ch, k)' <=> Tracked(ch, k) BY DEF Tracked, LastAdopts
<1>4. CASE \E w \in ToArchive' : t = ArchiveStep(w)' BY <1>2, <1>4 DEF ArchiveStep
<1>5. CASE \E ch \in Channels, k \in Keys : Removable(ch, k)' /\ t = RemoveStep(ch, k)'
  <2> PICK ch \in Channels, k \in Keys : Removable(ch, k)' /\ t = RemoveStep(ch, k)' BY <1>5
  <2>1. t = RemoveStep(ch, k) /\ Signer(t) = k BY DEF RemoveStep, Signer
  <2>2. Removable(ch, k) BY <1>3, <2>1 DEF Removable
  <2> QED BY <2>1, <2>2
<1>6. CASE \E kind \in IdentityKinds : \E k \in Due(kind)' : t = IdentityStep(kind, k)
  <2> PICK kind \in IdentityKinds : \E k \in Due(kind)' : t = IdentityStep(kind, k) BY <1>6
  <2> PICK k \in Due(kind)' : t = IdentityStep(kind, k) OBVIOUS
  <2>1. kind = "archiveIdentity" /\ Signer(t) = k
    BY DEF IdentityStep, Signer, IdentityKinds
  <2>2. k \in Due(kind) BY <2>1 DEF Due
  <2> QED BY <2>2
<1> QED BY <1>1, <1>4, <1>5, <1>6

\* A plan depends on the record only.
LEMMA PlanKept ==
  ASSUME UNCHANGED <<mapping, joined, claimed, retired, recMembers, recOwners>>
  PROVE  Plan' = Plan
<1>1. ToArchive' = ToArchive BY DEF ToArchive
<1>2. \A ch, k : Removable(ch, k)' <=> Removable(ch, k) BY DEF Removable, Tracked, LastAdopts
<1>3. \A kind : Due(kind)' = Due(kind) BY DEF Due
<1> QED BY <1>1, <1>2, <1>3 DEF Plan

\* What is noted is in the plan no more.
LEMMA NotePlan ==
  ASSUME CleanupInv, NEW c \in Commands, Note(c)
  PROVE  Plan' \subseteq Plan \ {target[c]}
<1> DEFINE s == target[c]
<1>0. TypeOK BY DEF CleanupInv
<1>1. pc[c] = "note" BY DEF Note
<1>2. s \in Steps /\ StepOK(s) /\ s.do \in Kinds BY <1>1, Current
<1>3. /\ mapping' = IF s.do = "archiveChannel" THEN [mapping EXCEPT ![s.ws] = None]
                    ELSE mapping
      /\ s.do = "archiveChannel" => joined' = [joined EXCEPT ![s.ch] = [k \in Keys |-> None]]
      /\ s.do = "removeMember" => joined' = [joined EXCEPT ![s.ch][s.key] = None]
      /\ s.do \notin {"archiveChannel", "removeMember"} => joined' = joined
      /\ retired' = IF s.do = "archiveIdentity" THEN retired \cup {s.key} ELSE retired
      /\ recOwners' = IF s.do = "clearOwner" THEN recOwners \ {s.key} ELSE recOwners
      /\ recMembers' = IF s.do = "removeRelay" THEN recMembers \ {s.key} ELSE recMembers
      /\ claimed' = claimed
  BY DEF Note
<1>4. s.do = "archiveChannel" =>
        /\ s.ws \in Spaces /\ s.ch \in Channels
        /\ mapping[s.ws] # None => mapping[s.ws].ch = s.ch /\ mapping[s.ws].origin = "created"
  BY <1>2 DEF StepOK
<1>5. s.do = "removeMember" => s.ch \in Channels /\ s.key \in Keys BY <1>2 DEF StepOK
<1> HIDE DEF s
<1>13. mapping \in [Spaces -> Mappings \cup {None}] BY <1>0 DEF TypeOK
<1>14. joined \in [Channels -> [Keys -> Records \cup {None}]] BY <1>0 DEF TypeOK
<1>6. \A w \in Spaces :
        mapping'[w] = mapping[w] \/ (mapping'[w] = None /\ s.do = "archiveChannel" /\ w = s.ws)
  <2>1. CASE s.do = "archiveChannel" BY <1>3, <1>4, <1>13, <2>1
  <2>2. CASE s.do # "archiveChannel" BY <1>3, <2>2
  <2> QED BY <2>1, <2>2
<1>7. \A w \in ToArchive' : w \in ToArchive /\ mapping'[w] = mapping[w]
  BY <1>6 DEF ToArchive
<1>8. \A ch \in Channels, k \in Keys : joined'[ch][k] \in {joined[ch][k], None}
  <2>1. CASE s.do = "archiveChannel" BY <1>3, <1>4, <1>14, <2>1
  <2>2. CASE s.do = "removeMember" BY <1>3, <1>5, <1>14, <2>2
  <2>3. CASE s.do \notin {"archiveChannel", "removeMember"} BY <1>3, <2>3
  <2> QED BY <2>1, <2>2, <2>3
<1>9. ASSUME NEW ch \in Channels, NEW k \in Keys, Removable(ch, k)'
      PROVE  Removable(ch, k) /\ joined'[ch][k] = joined[ch][k]
  <2>1. joined'[ch][k] # None BY <1>9 DEF Removable, Tracked
  <2>2. joined'[ch][k] = joined[ch][k] BY <1>8, <2>1
  <2>3. LastAdopts(ch)' BY <1>9 DEF Removable, Tracked
  <2>4. ~(s.do = "archiveChannel" /\ s.ch = ch)
    BY <1>3, <1>4, <1>14, <2>1
  <2>5. \A w \in Spaces : mapping[w] # None /\ mapping[w].ch = ch => mapping'[w] = mapping[w]
    BY <1>4, <1>6, <2>4
  <2>6. \A w \in Spaces : mapping'[w] # None => mapping'[w] = mapping[w] BY <1>6
  <2>7. LastAdopts(ch) BY <2>3, <2>5, <2>6 DEF LastAdopts
  <2> QED BY <1>3, <1>9, <2>2, <2>7 DEF Removable, Tracked
<1>10. \A kind \in IdentityKinds : Due(kind)' \subseteq Due(kind) BY <1>3 DEF Due
<1>11. Plan' \subseteq Plan BY <1>7, <1>9, <1>10, PlanShrinks
<1>12. s \notin Plan'
  <2> SUFFICES ASSUME NEW t, t = s, t \in Plan' PROVE FALSE OBVIOUS
  <2>1. /\ t.do = "archiveChannel" => t.ws \in ToArchive'
        /\ t.do = "removeMember" => Removable(t.ch, t.key)'
        /\ t.do = "archiveIdentity" => t.key \in claimed' \ retired'
        /\ t.do = "clearOwner" => t.key \in recOwners'
        /\ t.do = "removeRelay" => t.key \in recMembers'
    BY NextPlanFields DEF PlanFact
  <2>2. CASE t.do = "archiveChannel"
    <3>1. mapping'[t.ws] = None BY <1>3, <1>4, <1>13, <2>2
    <3> QED BY <2>1, <2>2, <3>1 DEF ToArchive
  <2>3. CASE t.do = "removeMember"
    <3>1. joined'[t.ch][t.key] = None BY <1>3, <1>5, <1>14, <2>3
    <3>2. joined'[t.ch][t.key] # None BY <2>1, <2>3 DEF Removable, Tracked
    <3> QED BY <3>1, <3>2
  <2>4. CASE t.do \in {"archiveIdentity", "clearOwner", "removeRelay"} BY <1>3, <2>1, <2>4
  <2>5. t.do \in Kinds BY <1>2 DEF s
  <2> QED BY <2>2, <2>3, <2>4, <2>5 DEF Kinds
<1> QED BY <1>11, <1>12 DEF s

----------------------------------------------------------------------------
(* The order of the plan.                                                  *)

\* What a key has to sign comes before it is removed from the relay.
LEMMA SignedBefore ==
  ASSUME NEW s, NEW t, s.do = "removeRelay", t.do \in Kinds, Signer(t) = s.key, s.key # None
  PROVE  Earlier(t, s)
BY DEF Signer, Earlier, Phase, Kinds

----------------------------------------------------------------------------
(* Who does not act.                                                       *)

\* A cleanup that does nothing, disturbed or at rest, keeps what is said of it while the
\* record only shrinks.
LEMMA Bystander ==
  ASSUME NEW d \in Commands, RetryOK(d), pc'[d] = pc[d], plan'[d] = plan[d],
         target'[d] = target[d], disturbed'[d] \/ pc[d] \in {"idle", "done"},
         intents' \cap configured' \subseteq intents \cap configured,
         pc[d] \in Stepping => Plan' \subseteq Plan
  PROVE  RetryOK(d)'
<1>1. SoloOK(d)' BY DEF SoloOK
<1>2. FilesKept(d)' BY DEF FilesKept, Stepping
<1>3. ResolvedOK(d)' BY DEF RetryOK, ResolvedOK
<1>4. OrderOK(d)'
  <2>1. pc'[d] \in Stepping => Plan' \subseteq plan'[d] BY DEF RetryOK, OrderOK
  <2>2. pc[d] \in {"look", "call", "note"} => \A t \in plan[d] : ~Earlier(t, target[d])
    BY DEF RetryOK, OrderOK
  <2>3. pc'[d] \in {"look", "call", "note"} => \A t \in plan'[d] : ~Earlier(t, target'[d])
    BY <2>2
  <2>4. \A t : Earlier(t, target[d])' <=> Earlier(t, target'[d]) BY DEF Earlier, Phase
  <2> QED BY <2>1, <2>3, <2>4 DEF OrderOK
<1>5. CutPlan(d)' BY DEF CutPlan, Stepping
<1>6. FailOK(d)' BY DEF FailOK
<1> QED BY <1>1, <1>2, <1>3, <1>4, <1>5, <1>6 DEF RetryOK

\* A step of c: the others look on.
LEMMA Acted ==
  ASSUME RetryInv, NEW c \in Commands, pc[c] \notin Resting,
         \A d \in Commands \ {c} : /\ pc'[d] = pc[d] /\ plan'[d] = plan[d]
                                   /\ target'[d] = target[d] /\ disturbed'[d] = disturbed[d]
                                   /\ pc[d] \in Stepping => Plan' \subseteq Plan,
         intents' \cap configured' \subseteq intents \cap configured,
         disturbed[c] => disturbed'[c], CutOK',
         FilesKept(c)', ResolvedOK(c)', OrderOK(c)', CutPlan(c)', FailOK(c)'
  PROVE  RetryInv'
<1>1. RetryOK(c)'
  <2>1. SoloOK(c) BY DEF RetryInv, RetryOK
  <2>2. SoloOK(c)' BY <2>1 DEF SoloOK, Resting
  <2> QED BY <2>2 DEF RetryOK
<1>2. ASSUME NEW d \in Commands \ {c} PROVE RetryOK(d)'
  <2>1. RetryOK(d) BY DEF RetryInv
  <2>2. disturbed'[d] \/ pc[d] \in {"idle", "done"} BY <2>1 DEF RetryOK, SoloOK
  <2> QED BY <2>1, <2>2, Bystander
<1> QED BY <1>1, <1>2 DEF RetryInv

\* What is cut off stays without work while the record only shrinks.
LEMMA CutKept ==
  ASSUME CutOK, cut' = cut, intents' \subseteq intents, Plan' \subseteq Plan
  PROVE  CutOK'
<1> SUFFICES ASSUME NEW k \in cut', NEW t \in Plan' PROVE k \notin intents' /\ Signer(t) # k
  BY DEF CutOK, Signer
<1> QED BY DEF CutOK

----------------------------------------------------------------------------
(* The steps of a cleanup.                                                 *)

\* Steps that leave the record and the relay alone.
LEMMA WalkRetry ==
  ASSUME CleanupInv, RetryInv, NEW c \in Commands,
         Stopped(c) \/ MakePlan(c) \/ Finish(c) \/ Abort(c)
  PROVE  RetryInv'
<1> USE DEF state, relay, command, history
<1>0. TypeOK /\ RetryOK(c) /\ CutOK BY DEF CleanupInv, RetryInv
<1>1. /\ UNCHANGED <<mapping, joined, claimed, retired, recMembers, recOwners, intents,
                     configured, files, del, target, cut>>
      /\ pc[c] \notin Resting
  BY DEF Stopped, MakePlan, Finish, Abort, Resting
<1>2. Plan' = Plan BY <1>1, PlanKept
<1>3. CutOK' BY <1>0, <1>1, <1>2, CutKept
<1>4. FilesKept(c) /\ ResolvedOK(c) /\ (Loadable' <=> Loadable) /\ (Deletable' <=> Deletable)
  BY <1>0, <1>1 DEF RetryOK, Loadable, Deletable
<1>5. CASE Stopped(c)
  <2>1. /\ pc[c] = "stop" /\ pc'[c] = "reload" /\ UNCHANGED <<plan, disturbed>>
        /\ \A d \in Commands \ {c} : pc'[d] = pc[d]
    BY <1>0, <1>5 DEF Stopped, Goto, TypeOK
  <2>2. FilesKept(c)' BY <1>1, <1>4, <2>1 DEF FilesKept
  <2>3. ResolvedOK(c)' /\ OrderOK(c)' /\ CutPlan(c)' /\ FailOK(c)'
    BY <2>1 DEF ResolvedOK, OrderOK, CutPlan, FailOK, Stepping, Files
  <2> QED BY <1>1, <1>2, <1>3, <2>1, <2>2, <2>3, Acted
<1>6. CASE MakePlan(c)
  <2>1. /\ pc[c] = "plan" /\ pc'[c] = "act" /\ UNCHANGED disturbed /\ plan'[c] = Plan
        /\ \A d \in Commands \ {c} : pc'[d] = pc[d] /\ plan'[d] = plan[d]
    BY <1>0, <1>6 DEF MakePlan, Goto, TypeOK
  <2>2. FilesKept(c)' BY <1>1, <1>4, <2>1 DEF FilesKept, Stepping
  <2>3. ResolvedOK(c)' /\ OrderOK(c)' /\ FailOK(c)'
    BY <1>1, <1>2, <1>4, <2>1 DEF ResolvedOK, OrderOK, FailOK
  <2>4. CutPlan(c)' BY <1>0, <1>1, <2>1 DEF CutPlan, CutOK, Signer
  <2> QED BY <1>1, <1>2, <1>3, <2>1, <2>2, <2>3, <2>4, Acted
<1>7. CASE Finish(c)
  <2>1. /\ pc[c] = "act" /\ pc'[c] \in {"done", "secrets", "failed"}
        /\ pc'[c] = "failed" => del[c] /\ ~Deletable
        /\ UNCHANGED <<plan, disturbed>> /\ \A d \in Commands \ {c} : pc'[d] = pc[d]
    BY <1>0, <1>7 DEF Finish, Goto, TypeOK
  <2>2. FilesKept(c)' /\ OrderOK(c)' /\ CutPlan(c)'
    BY <2>1 DEF FilesKept, OrderOK, CutPlan, Stepping
  <2>3. ResolvedOK(c)' BY <1>1, <1>4, <2>1 DEF ResolvedOK, Stepping
  <2>4. FailOK(c)' BY <1>4, <2>1 DEF FailOK, FilesKept, Stepping
  <2> QED BY <1>1, <1>2, <1>3, <2>1, <2>2, <2>3, <2>4, Acted
<1>8. CASE Abort(c)
  <2>1. /\ pc'[c] = "failed" /\ disturbed'[c] /\ UNCHANGED plan
        /\ \A d \in Commands \ {c} : pc'[d] = pc[d] /\ disturbed'[d] = disturbed[d]
    BY <1>0, <1>8 DEF Abort, Goto, TypeOK
  <2>2. FilesKept(c)' /\ OrderOK(c)' /\ CutPlan(c)' /\ ResolvedOK(c)' /\ FailOK(c)'
    BY <2>1 DEF FilesKept, OrderOK, CutPlan, ResolvedOK, FailOK, Stepping, Files
  <2> QED BY <1>1, <1>2, <1>3, <2>1, <2>2, Acted
<1> QED BY <1>5, <1>6, <1>7, <1>8

\* The choice of a step, and what the relay says before it is taken.
LEMMA ChooseRetry ==
  ASSUME CleanupInv, RetryInv, NEW c \in Commands, Act(c) \/ Look(c) \/ Refuse(c)
  PROVE  RetryInv'
<1> USE DEF state, relay, command, history
<1>0. TypeOK /\ RetryOK(c) /\ CutOK BY DEF CleanupInv, RetryInv
<1>1. /\ UNCHANGED <<mapping, joined, claimed, retired, recMembers, recOwners, intents,
                     configured, files, del, plan, cfg, cut, disturbed, role, archived, member>>
      /\ pc[c] \notin Resting /\ pc[c] \in {"act", "look", "call"}
      /\ pc'[c] \in {"look", "call", "note", "failed"}
      /\ \A d \in Commands \ {c} : pc'[d] = pc[d] /\ target'[d] = target[d]
  BY <1>0 DEF Act, Look, Refuse, Resting, Goto, TypeOK
<1>2. Plan' = Plan BY <1>1, PlanKept
<1>3. CutOK' BY <1>0, <1>1, <1>2, CutKept
<1>4. FilesKept(c) /\ ResolvedOK(c) /\ OrderOK(c) /\ CutPlan(c) BY <1>0 DEF RetryOK
<1>5. FilesKept(c)' BY <1>1, <1>4 DEF FilesKept, Stepping, Deletable
<1>6. ResolvedOK(c)' BY <1>1, <1>4 DEF ResolvedOK, Stepping, Files
<1>7. CutPlan(c)'
  <2>1. \A t : Signer(t)' = Signer(t) BY DEF Signer
  <2> QED BY <1>1, <1>4, <2>1 DEF CutPlan, Stepping
<1>8. OrderOK(c)' /\ FailOK(c)'
  <2>1. CASE Act(c)
    <3>1. PICK s \in plan[c] :
            /\ \A t \in plan[c] : ~Earlier(t, s)
            /\ target' = [target EXCEPT ![c] = s]
            /\ Goto(c, CASE Signer(s) \notin cfg[c] \cup {None} -> "failed"
                         [] Signer(s) \in cfg[c] \cup {None}
                            /\ s.do \in {"archiveChannel", "clearOwner"} -> "call"
                         [] OTHER -> "look")
      BY <2>1 DEF Act
    <3>2. target'[c] = s /\ s # None BY <1>0, <3>1, StepsAssumption DEF TypeOK
    <3>3. pc'[c] = "failed" => Signer(s) \notin cfg[c] \cup {None}
      BY <1>0, <3>1 DEF Goto, TypeOK
    <3>4. pc'[c] = "failed" => Blocked(c)' BY <1>1, <3>2, <3>3 DEF Blocked, Signer
    <3>5. OrderOK(c)'
      <4>1. \A t : Earlier(t, target[c])' <=> Earlier(t, target'[c]) BY DEF Earlier, Phase
      <4>2. \A t \in plan'[c] : ~Earlier(t, target'[c]) BY <1>1, <3>1, <3>2
      <4>3. pc[c] = "act" BY <2>1 DEF Act
      <4>4. Plan' \subseteq plan'[c] BY <1>1, <1>2, <1>4, <4>3 DEF OrderOK, Stepping
      <4> QED BY <4>1, <4>2, <4>4 DEF OrderOK
    <3> QED BY <3>2, <3>4, <3>5 DEF FailOK
  <2>2. CASE Look(c) \/ Refuse(c)
    <3>1. target' = target /\ pc[c] \in {"look", "call"} BY <2>2 DEF Look, Refuse
    <3>2. target[c] \in plan[c] /\ target[c] \in Steps /\ target[c] # None
      BY <3>1, Current, StepsAssumption
    <3>3. OrderOK(c)'
      <4>1. \A t : Earlier(t, target[c])' <=> Earlier(t, target[c])
        BY <3>1 DEF Earlier, Phase
      <4> QED BY <1>1, <1>2, <1>4, <3>1, <4>1 DEF OrderOK, Stepping
    <3>4. ASSUME pc'[c] = "failed" PROVE disturbed[c] \/ Blocked(c)
      <4> DEFINE s == target[c]
      <4>1. CASE Look(c)
        <5>1. ~Absent(s) /\ s.do = "removeMember" /\ role[s.ch][s.key] # s.role
          BY <1>0, <3>4, <4>1 DEF Look, Goto, TypeOK
        <5> QED BY <5>1 DEF Blocked, Absent
      <4>2. CASE Refuse(c)
        <5>1. Refusable(s) BY <4>2 DEF Refuse
        <5>2. disturbed[c] \/ Signer(s) \notin cut
          BY <1>4, <3>1, <3>2 DEF CutPlan, Stepping
        <5> QED BY <5>1, <5>2 DEF Blocked
      <4> QED BY <2>2, <4>1, <4>2
    <3>5. Blocked(c)' <=> Blocked(c)
      BY <1>1, <3>1 DEF Blocked, Refusable, Signer
    <3> QED BY <1>1, <3>1, <3>2, <3>3, <3>4, <3>5 DEF FailOK
  <2> QED BY <2>1, <2>2
<1> QED BY <1>1, <1>2, <1>3, <1>5, <1>6, <1>7, <1>8, Acted

\* Identities are resolved once, before any plan is in use.
LEMMA ReloadRetry ==
  ASSUME CleanupInv, RetryInv, NEW c \in Commands, Reload(c)
  PROVE  RetryInv'
<1> USE DEF state, relay, command, history
<1>0. TypeOK /\ RetryOK(c) /\ CutOK BY DEF CleanupInv, RetryInv
<1>1. /\ UNCHANGED <<mapping, joined, retired, recMembers, recOwners, configured, files, del,
                     plan, target, cut, disturbed>>
      /\ pc[c] = "reload" /\ pc'[c] \in {"plan", "failed"}
      /\ pc'[c] = "failed" => ~Loadable
      /\ \A d \in Commands \ {c} : pc'[d] = pc[d]
  BY <1>0 DEF Reload, Goto, TypeOK
<1>2. PICK K \in {Resolved(c), {}} :
        /\ claimed' = claimed \cup K /\ intents' = intents \ K
        /\ pc'[c] = "plan" => K = Resolved(c)
  <2>1. CASE Loadable BY <2>1 DEF Reload
  <2>2. CASE ~Loadable
    <3>1. pc'[c] = "failed" BY <1>0, <2>2 DEF Reload, Goto, TypeOK
    <3> QED BY <2>2, <3>1 DEF Reload
  <2> QED BY <2>1, <2>2
<1>3. K \subseteq intents \cap configured BY DEF Resolved
<1>4. CutOK'
  <2> SUFFICES ASSUME NEW k \in cut' PROVE k \notin intents' /\ \A t \in Plan' : Signer(t) # k
    BY DEF CutOK, Signer
  <2>1. k \in cut /\ k \notin intents /\ k # None
    BY <1>0, <1>1, Bounds DEF CutOK, TypeOK
  <2>2. ASSUME NEW t \in Plan', Signer(t) = k PROVE FALSE
    <3>1. t \in Plan BY <1>1, <1>2, <1>3, <2>1, <2>2, PlanGrows
    <3> QED BY <1>0, <2>1, <2>2, <3>1 DEF CutOK
  <2> QED BY <1>2, <2>1, <2>2
<1>5. ASSUME NEW d \in Commands \ {c}, pc[d] \in Stepping PROVE Plan' \subseteq Plan
  <2>1. RetryOK(d) BY DEF RetryInv
  <2>2. K = {} BY <1>3, <1>5, <2>1 DEF RetryOK, ResolvedOK
  <2> QED BY <1>1, <1>2, <2>2, PlanKept
<1>6. FilesKept(c) BY <1>0 DEF RetryOK
<1>7. FilesKept(c)' BY <1>1, <1>6 DEF FilesKept, Stepping, Deletable
<1>8. ResolvedOK(c)' BY <1>1, <1>2 DEF ResolvedOK, Resolved, Stepping, Files
<1>9. OrderOK(c)' /\ CutPlan(c)' BY <1>1 DEF OrderOK, CutPlan, Stepping
<1>10. FailOK(c)' BY <1>1, <1>6 DEF FailOK, FilesKept
<1>11. intents' \cap configured' \subseteq intents \cap configured BY <1>1, <1>2
<1>12. pc[c] \notin Resting BY <1>1 DEF Resting
<1> QED BY <1>1, <1>4, <1>5, <1>7, <1>8, <1>9, <1>10, <1>11, <1>12, Acted

\* A call that removes a key from the relay comes when nothing is left for it to sign.
LEMMA CallRetry ==
  ASSUME CleanupInv, RetryInv, NEW c \in Commands, Call(c) \/ CallLost(c)
  PROVE  RetryInv'
<1> DEFINE s == target[c]
<1> USE DEF state, relay, command, history
<1>0. TypeOK /\ RetryOK(c) /\ CutOK BY DEF CleanupInv, RetryInv
<1>1. pc[c] = "call" /\ Effect(s) BY DEF Call, CallLost
<1>2. /\ UNCHANGED <<mapping, joined, claimed, retired, recMembers, recOwners, intents,
                     configured, files, del, plan, target>>
      /\ cut' = IF s.do = "removeRelay" THEN cut \cup {s.key} ELSE cut
  BY <1>1 DEF Effect
<1>3. Plan' = Plan BY <1>2, PlanKept
<1>4. s \in Steps /\ StepOK(s) /\ s.do \in Kinds BY <1>1, Current
<1>5. s.do = "removeRelay" => s.key \in Keys \ intents BY <1>4 DEF StepOK
<1>6. OrderOK(c) /\ FilesKept(c) /\ ResolvedOK(c) /\ CutPlan(c) BY <1>0 DEF RetryOK
<1>7. s.do = "removeRelay" => \A t \in plan[c] : Signer(t) # s.key
  <2> SUFFICES ASSUME s.do = "removeRelay", NEW t \in plan[c], Signer(t) = s.key PROVE FALSE
    OBVIOUS
  <2>1. t.do \in Kinds
    <3>1. t \in Steps BY <1>0 DEF TypeOK
    <3> QED BY <3>1 DEF Steps
  <2>2. Earlier(t, s) BY <1>5, <2>1, Bounds, SignedBefore
  <2> QED BY <1>1, <1>6, <2>2 DEF OrderOK
<1>8. Plan \subseteq plan[c] BY <1>1, <1>6 DEF OrderOK, Stepping
<1> HIDE DEF s
<1>9. CutOK'
  <2>1. \A k \in cut' : k \notin intents' /\ \A t \in Plan' : Signer(t) # k
    BY <1>0, <1>2, <1>3, <1>5, <1>7, <1>8 DEF CutOK
  <2> QED BY <2>1 DEF CutOK, Signer
<1>10. /\ pc'[c] \in {"note", "failed"}
       /\ pc'[c] = "failed" => disturbed'[c]
       /\ disturbed[c] => disturbed'[c]
       /\ \A d \in Commands \ {c} : pc'[d] = pc[d] /\ disturbed'[d] = disturbed[d]
  <2>1. CASE Call(c) BY <1>0, <2>1 DEF Call, Goto, TypeOK
  <2>2. CASE CallLost(c) BY <1>0, <2>2 DEF CallLost, Goto, TypeOK
  <2> QED BY <2>1, <2>2
<1>11. FilesKept(c)' BY <1>1, <1>2, <1>6, <1>10 DEF FilesKept, Stepping, Deletable
<1>12. ResolvedOK(c)' BY <1>1, <1>2, <1>6 DEF ResolvedOK, Stepping
<1>13. OrderOK(c)'
  <2>1. \A t : Earlier(t, target[c])' <=> Earlier(t, target[c]) BY <1>2 DEF Earlier, Phase
  <2> QED BY <1>1, <1>2, <1>3, <1>6, <1>8, <2>1 DEF OrderOK
<1>14. CutPlan(c)'
  <2>1. ~disturbed'[c] => \A t \in plan[c] : Signer(t) \notin cut'
    BY <1>1, <1>2, <1>6, <1>7, <1>10 DEF CutPlan, Stepping
  <2> QED BY <1>2, <2>1 DEF CutPlan, Signer
<1>15. FailOK(c)' BY <1>10 DEF FailOK
<1>16. pc[c] \notin Resting BY <1>1 DEF Resting
<1> QED BY <1>2, <1>3, <1>9, <1>10, <1>11, <1>12, <1>13, <1>14, <1>15, <1>16, Acted

\* What is noted leaves the record and the plan together.
LEMMA NoteRetry ==
  ASSUME CleanupInv, RetryInv, NEW c \in Commands, Note(c)
  PROVE  RetryInv'
<1> USE DEF state, relay, command, history
<1>0. TypeOK /\ RetryOK(c) /\ CutOK BY DEF CleanupInv, RetryInv
<1>1. /\ UNCHANGED <<intents, configured, del, target, cut, disturbed>>
      /\ pc[c] = "note" /\ pc'[c] = "act" /\ files \subseteq files'
      /\ plan'[c] = plan[c] \ {target[c]}
      /\ \A d \in Commands \ {c} : pc'[d] = pc[d] /\ plan'[d] = plan[d]
  BY <1>0 DEF Note, Goto, TypeOK
<1>2. Plan' \subseteq Plan \ {target[c]} BY NotePlan
<1>3. CutOK' BY <1>0, <1>1, <1>2, CutKept
<1>4. OrderOK(c) /\ FilesKept(c) /\ ResolvedOK(c) /\ CutPlan(c) BY <1>0 DEF RetryOK
<1>5. FilesKept(c)' BY <1>1, <1>4 DEF FilesKept, Stepping, Deletable
<1>6. ResolvedOK(c)' BY <1>1, <1>4 DEF ResolvedOK, Stepping
<1>7. OrderOK(c)' BY <1>1, <1>2, <1>4 DEF OrderOK, Stepping
<1>8. CutPlan(c)'
  <2>1. ~disturbed[c] => \A t \in plan'[c] : Signer(t) \notin cut
    BY <1>1, <1>4 DEF CutPlan, Stepping
  <2> QED BY <1>1, <2>1 DEF CutPlan, Signer
<1>9. FailOK(c)' BY <1>1 DEF FailOK
<1>10. pc[c] \notin Resting BY <1>1 DEF Resting
<1> QED BY <1>1, <1>2, <1>3, <1>5, <1>6, <1>7, <1>8, <1>9, <1>10, Acted

\* Without a record there is nothing to plan.
LEMMA DeleteRetry ==
  ASSUME CleanupInv, RetryInv, NEW c \in Commands, Delete(c)
  PROVE  RetryInv'
<1> USE DEF state, relay, command, history
<1>0. TypeOK /\ RetryOK(c) /\ CutOK BY DEF CleanupInv, RetryInv
<1>1. /\ UNCHANGED <<plan, target, cut, disturbed>> /\ pc[c] \in Files
      /\ pc'[c] \in Files \cup {"done"}
      /\ configured' \subseteq configured /\ intents' \subseteq intents
      /\ \A d \in Commands \ {c} : pc'[d] = pc[d]
  BY <1>0 DEF Delete, Goto, TypeOK, AfterFile, Files
<1>2. Plan' \subseteq Plan
  <2>1. CASE pc[c] = "state"
    <3>1. /\ \A w \in Spaces : mapping'[w] = None /\ claimed' = {}
      BY <2>1 DEF Delete
    <3>2. ToArchive' = {} BY <3>1 DEF ToArchive
    <3>3. \A ch, k : ~Removable(ch, k)' BY <2>1 DEF Delete, Removable
    <3>4. \A kind : Due(kind)' = {} BY <2>1 DEF Delete, Due
    <3> QED BY <3>2, <3>3, <3>4, PlanShrinks
  <2>2. CASE pc[c] # "state" BY <2>2, PlanKept DEF Delete
  <2> QED BY <2>1, <2>2
<1>3. CutOK' BY <1>0, <1>1, <1>2, CutKept
<1>4. ResolvedOK(c) BY <1>0 DEF RetryOK
<1>5. FilesKept(c)' /\ OrderOK(c)' /\ CutPlan(c)' /\ FailOK(c)'
  BY <1>1 DEF FilesKept, OrderOK, CutPlan, FailOK, Stepping, Files
<1>6. ResolvedOK(c)' BY <1>1, <1>4 DEF ResolvedOK
<1>7. pc[c] \notin Resting BY <1>1 DEF Resting, Files
<1> QED BY <1>1, <1>2, <1>3, <1>5, <1>6, <1>7, Acted

----------------------------------------------------------------------------
(* Starts, the last pass, people.                                          *)

\* A cleanup that starts disturbs all that are not done, and is disturbed by those.
LEMMA StartRetry ==
  ASSUME CleanupInv, RetryInv, NEW c \in Commands, NEW d \in BOOLEAN, Start(c, d)
  PROVE  RetryInv'
<1> USE DEF state, relay, command, history
<1>0. TypeOK /\ CutOK BY DEF CleanupInv, RetryInv
<1>1. /\ UNCHANGED <<mapping, joined, claimed, retired, recMembers, recOwners, intents,
                     configured, files, plan, target, cut>>
      /\ pc'[c] = "stop" /\ del'[c] = d /\ Loadable /\ (d => Deletable)
      /\ disturbed'[c] \/ \A b \in Commands \ {c} : pc[b] \in Resting
      /\ \A b \in Commands \ {c} :
           pc'[b] = pc[b] /\ (disturbed'[b] \/ pc[b] \in {"idle", "done"})
  BY <1>0 DEF Start, Goto, TypeOK
<1>2. Plan' = Plan BY <1>1, PlanKept
<1>3. CutOK' BY <1>0, <1>1, <1>2, CutKept
<1>4. ASSUME NEW b \in Commands \ {c} PROVE RetryOK(b)'
  <2>1. RetryOK(b) BY DEF RetryInv
  <2> QED BY <1>1, <1>2, <2>1, Bystander
<1>5. RetryOK(c)'
  <2>1. SoloOK(c)' BY <1>1 DEF SoloOK
  <2>2. FilesKept(c)' BY <1>1 DEF FilesKept, Loadable, Deletable
  <2>3. ResolvedOK(c)' /\ OrderOK(c)' /\ CutPlan(c)' /\ FailOK(c)'
    BY <1>1 DEF ResolvedOK, OrderOK, CutPlan, FailOK, Stepping, Files
  <2> QED BY <2>1, <2>2, <2>3 DEF RetryOK
<1> QED BY <1>3, <1>4, <1>5 DEF RetryInv

\* The last pass of the daemon is over before a plan is made.
LEMMA PassRetry ==
  ASSUME CleanupInv, RetryInv, NEW k \in Keys,
         PassConfigures(k) \/ PassRecords(k) \/ PassRegisters(k)
  PROVE  RetryInv'
<1> USE DEF state, relay, command, history
<1>0. TypeOK /\ CutOK BY DEF CleanupInv, RetryInv
<1>1. /\ UNCHANGED <<mapping, joined, retired, files, pc, plan, target, del, cut, disturbed>>
      /\ Ending
  BY DEF PassConfigures, PassRecords, PassRegisters
<1>2. PICK K \in {{k}, {}} :
        claimed' = claimed \cup K /\ intents' = intents \ K /\ K \subseteq intents
  BY DEF PassConfigures, PassRecords, PassRegisters
<1>3. CutOK'
  <2> SUFFICES ASSUME NEW i \in cut' PROVE i \notin intents' /\ \A t \in Plan' : Signer(t) # i
    BY DEF CutOK, Signer
  <2>1. i \in cut /\ i \notin intents /\ i # None
    BY <1>0, <1>1, Bounds DEF CutOK, TypeOK
  <2>2. ASSUME NEW t \in Plan', Signer(t) = i PROVE FALSE
    <3>1. t \in Plan BY <1>1, <1>2, <2>1, <2>2, PlanGrows
    <3> QED BY <1>0, <2>1, <2>2, <3>1 DEF CutOK
  <2> QED BY <1>2, <2>1, <2>2
<1>4. ASSUME NEW c \in Commands PROVE RetryOK(c)'
  <2>1. RetryOK(c) /\ pc'[c] \in {"idle", "stop"} /\ pc'[c] = pc[c]
    BY <1>1 DEF RetryInv, Ending
  <2>2. SoloOK(c)' BY <1>1, <2>1 DEF RetryOK, SoloOK
  <2>3. FilesKept(c)' BY <1>1, <2>1 DEF RetryOK, FilesKept, Stepping, Loadable, Deletable
  <2>4. ResolvedOK(c)' /\ OrderOK(c)' /\ CutPlan(c)' /\ FailOK(c)'
    BY <2>1 DEF ResolvedOK, OrderOK, CutPlan, FailOK, Stepping, Files
  <2> QED BY <2>2, <2>3, <2>4 DEF RetryOK
<1> QED BY <1>3, <1>4 DEF RetryInv

\* People disturb whoever is not done.
LEMMA PeopleRetry ==
  ASSUME CleanupInv, RetryInv, People
  PROVE  RetryInv'
<1> USE DEF state, relay, command, history
<1>0. TypeOK /\ CutOK BY DEF CleanupInv, RetryInv
<1>1. /\ UNCHANGED <<mapping, joined, claimed, retired, recMembers, recOwners, intents, pc,
                     plan, target, cut>>
      /\ configured' \subseteq configured
      /\ \A c \in Commands : disturbed'[c] \/ pc[c] \in {"idle", "done"}
  BY DEF People, SetRole, SetArchived, SetMember, SetOwner, DropIdentity, Meanwhile
<1>2. Plan' = Plan BY <1>1, PlanKept
<1>3. CutOK' BY <1>0, <1>1, <1>2, CutKept
<1>4. ASSUME NEW c \in Commands PROVE RetryOK(c)'
  <2>1. RetryOK(c) BY DEF RetryInv
  <2> QED BY <1>1, <1>2, <2>1, Bystander
<1> QED BY <1>3, <1>4 DEF RetryInv

----------------------------------------------------------------------------
(* The result.                                                             *)

LEMMA RetryInit == Init => RetryInv
<1> SUFFICES ASSUME Init PROVE RetryInv OBVIOUS
<1>1. cut = {} /\ \A c \in Commands : pc[c] = "idle" BY DEF Init, Quiet
<1>2. CutOK BY <1>1 DEF CutOK
<1>3. ASSUME NEW c \in Commands PROVE RetryOK(c)
  BY <1>1 DEF RetryOK, SoloOK, FilesKept, ResolvedOK, OrderOK, CutPlan, FailOK, Stepping, Files
<1> QED BY <1>2, <1>3 DEF RetryInv

LEMMA RetryNext == CleanupInv /\ RetryInv /\ [Next]_vars => RetryInv'
<1> SUFFICES ASSUME CleanupInv, RetryInv, [Next]_vars PROVE RetryInv' OBVIOUS
<1>1. CASE \E c \in Commands : Step(c) \/ \E d \in BOOLEAN : Start(c, d)
  <2> PICK c \in Commands : Step(c) \/ \E d \in BOOLEAN : Start(c, d) BY <1>1
  <2>1. CASE Step(c)
    BY <2>1, WalkRetry, ChooseRetry, ReloadRetry, CallRetry, NoteRetry, DeleteRetry DEF Step
  <2>2. CASE \E d \in BOOLEAN : Start(c, d) BY <2>2, StartRetry
  <2> QED BY <2>1, <2>2
<1>2. CASE \E k \in Keys : PassConfigures(k) \/ PassRecords(k) \/ PassRegisters(k)
  BY <1>2, PassRetry
<1>3. CASE People BY <1>3, PeopleRetry
<1>4. CASE UNCHANGED vars
  <2> USE DEF vars, state, relay, command, history
  <2>1. CutOK /\ Plan' = Plan BY <1>4, PlanKept DEF RetryInv
  <2>2. CutOK' BY <1>4, <2>1, CutKept
  <2>3. ASSUME NEW c \in Commands PROVE RetryOK(c)'
    <3>1. RetryOK(c) BY DEF RetryInv
    <3>2. SoloOK(c)' /\ ResolvedOK(c)' BY <1>4, <3>1 DEF RetryOK, SoloOK, ResolvedOK
    <3>3. FilesKept(c)' BY <1>4, <3>1 DEF RetryOK, FilesKept, Loadable, Deletable
    <3>4. OrderOK(c)' /\ CutPlan(c)'
      BY <1>4, <2>1, <3>1 DEF RetryOK, OrderOK, CutPlan, Earlier, Phase, Signer
    <3>5. FailOK(c)' BY <1>4, <3>1 DEF RetryOK, FailOK, Blocked, Refusable, Signer
    <3> QED BY <3>2, <3>3, <3>4, <3>5 DEF RetryOK
  <2> QED BY <2>2, <2>3 DEF RetryInv
<1> QED BY <1>1, <1>2, <1>3, <1>4 DEF Next

\* Cleanup can be retried: undisturbed, it fails only where people stand in its way, never
\* because of what an earlier one has done or left half done (lifecycle.rs 699-861).
THEOREM FailsOnlyBlockedHolds == Spec => []FailsOnlyBlocked
<1>1. RetryInv => FailsOnlyBlocked BY DEF RetryInv, RetryOK, FailOK, FailsOnlyBlocked
<1> QED BY <1>1, RetryInit, RetryNext, CleanupInvariant, PTL DEF Spec
=============================================================================
