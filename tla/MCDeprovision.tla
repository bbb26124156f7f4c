--------------------------- MODULE MCDeprovision ---------------------------
(***************************************************************************)
(* The bridge, an agent of buzzr's and one people brought along; a Space   *)
(* with a created channel and one that adopted a channel, maybe the same.  *)
(***************************************************************************)
EXTENDS Deprovision, TLC

CONSTANTS b, a, p, s1, s2, x, y

MCNth == [i \in {b, a, p, s1, s2} |->
            CASE i = a -> 1 [] i = b -> 2 [] i = p -> 3 [] i = s1 -> 1 [] OTHER -> 2]

Added(r) == [origin |-> "added", role |-> r]

MCInit ==
  \E adopts \in {x, y}, done \in BOOLEAN, origin \in {"adding", "added"} :
    /\ mapping = (s1 :> [ch |-> x, origin |-> "created", archived |-> done]
                  @@ s2 :> [ch |-> adopts, origin |-> "adopted", archived |-> FALSE])
    /\ joined = [ch \in {x, y} |->
         CASE ch = adopts -> (b :> Added("member") @@ p :> Added("bot")
                              @@ a :> [origin |-> origin, role |-> "bot"])
           [] ch # adopts /\ ch = x -> (b :> Added("owner") @@ p :> None @@ a :> Added("bot"))
           [] OTHER -> [k \in {b, a, p} |-> None]]
    /\ claimed \in {{b}, {b, a}} /\ retired = {} /\ intents = {a} \ claimed
    /\ recMembers = claimed /\ recOwners = claimed
    /\ configured \in {{b, a, p}, {b, p} \cup claimed}
    /\ archived = (IF done THEN {x} ELSE {})
    /\ role = [ch \in {x, y} |-> [k \in {b, a, p} |->
                 IF joined[ch][k] # None THEN joined[ch][k].role ELSE None]]
    /\ gone = {} /\ owned = claimed
    /\ \E m \in {{a}, {}} : member = ({p} \cup claimed) \ m
    /\ granted = {r \in Provenance : InEffect(r)}
    /\ Quiet

MCSpec == MCInit /\ [][Next]_vars
=============================================================================
