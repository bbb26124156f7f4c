--------------------------- MODULE ProfilesProofs ---------------------------
(***************************************************************************)
(* Proofs about profiles and declarations, for any identities, avatars and *)
(* Spaces: the types, what a relay that does its part leads to             *)
(* (HandshakeSucceeds), what the record is worth (RecordShown), and who    *)
(* keeps an avatar (OldAvatarsKept).  What the recursive functions compute *)
(* is proved by induction over a set of numbers, which needs no operator   *)
(* as a parameter.                                                         *)
(***************************************************************************)
EXTENDS Profiles, WellFoundedInduction, TLAPS

----------------------------------------------------------------------------
(* Induction and iteration.                                                *)

Smaller == {ss \in Nat \X Nat : ss[1] < ss[2]}

\* A set of natural numbers has a least one, ...
LEMMA Least ==
  ASSUME NEW T, T \subseteq Nat, T # {}
  PROVE  \E n \in T : \A m \in T : n <= m
<1>1. IsWellFoundedOn(Smaller, Nat)
  <2>1. OpToRel(<, Nat) = Smaller BY DEF OpToRel, Smaller
  <2> QED BY <2>1, NatLessThanWellFounded
<1>2. PICK n \in T : \A m \in T : ~(<<m, n>> \in Smaller) BY <1>1, WFMin
<1>3. \A m \in T : <<m, n>> \in Nat \X Nat /\ ~(m < n) BY <1>2 DEF Smaller
<1>4. n \in Nat /\ \A m \in T : m \in Nat /\ ~(m < n) BY <1>3
<1> QED BY <1>4

\* ... so a set that has 0, and what comes after each it has, has all.
LEMMA Induction ==
  ASSUME NEW N \in Nat, NEW S, 0 \in S, \A n \in 1..N : n - 1 \in S => n \in S
  PROVE  \A n \in 0..N : n \in S
<1> DEFINE T == (0..N) \ S
<1> SUFFICES ASSUME T # {} PROVE FALSE OBVIOUS
<1>1. T \subseteq Nat OBVIOUS
<1>2. PICK n \in T : \A m \in T : n <= m
  <2> HIDE DEF T
  <2> QED BY <1>1, Least
<1>3. n \in 1..N OBVIOUS
<1>4. n - 1 \in 0..N /\ n - 1 \notin T BY <1>2, <1>3
<1> QED BY <1>2, <1>3, <1>4

\* f[n] is what n steps make of `base`.
Iterates(f, N, base, step) ==
  f[0] = base /\ \A n \in 1..N : f[n] = step[<<n, f[n - 1]>>]

\* Steps that stay in a set can be iterated in it.
LEMMA Iteration ==
  ASSUME NEW N \in Nat, NEW V, NEW base \in V, NEW step \in [(1..N) \X V -> V]
  PROVE  \E f \in [0..N -> V] : Iterates(f, N, base, step)
<1> DEFINE S == {m \in 0..N : \E f \in [0..m -> V] : Iterates(f, m, base, step)}
<1>1. 0 \in S
  <2>1. [n \in 0..0 |-> base] \in [0..0 -> V] OBVIOUS
  <2>2. Iterates([n \in 0..0 |-> base], 0, base, step) BY DEF Iterates
  <2> QED BY <2>1, <2>2
<1>2. ASSUME NEW n \in 1..N, n - 1 \in S PROVE n \in S
  <2>1. PICK f \in [0..(n - 1) -> V] : Iterates(f, n - 1, base, step) BY <1>2
  <2> DEFINE g == [m \in 0..n |-> IF m = n THEN step[<<n, f[n - 1]>>] ELSE f[m]]
  <2>2. f[n - 1] \in V OBVIOUS
  <2>3. step[<<n, f[n - 1]>>] \in V BY <2>2
  <2>4. g \in [0..n -> V] BY <2>3
  <2>5. g[0] = base BY <2>1 DEF Iterates
  <2>6. ASSUME NEW m \in 1..n PROVE g[m] = step[<<m, g[m - 1]>>]
    <3>1. CASE m = n
      <4>1. g[n - 1] = f[n - 1] OBVIOUS
      <4>2. g[n] = step[<<n, f[n - 1]>>] OBVIOUS
      <4> QED BY <3>1, <4>1, <4>2
    <3>2. CASE m # n
      <4>1. m \in 1..(n - 1) BY <3>2
      <4>2. f[m] = step[<<m, f[m - 1]>>] BY <2>1, <4>1 DEF Iterates
      <4>3. g[m] = f[m] /\ g[m - 1] = f[m - 1] BY <4>1
      <4> QED BY <4>2, <4>3
    <3> QED BY <3>1, <3>2
  <2>7. Iterates(g, n, base, step) BY <2>5, <2>6 DEF Iterates
  <2> QED BY <2>4, <2>7
<1>3. \A n \in 0..N : n \in S
  <2> HIDE DEF S
  <2> QED BY <1>1, <1>2, Induction
<1> QED BY <1>3

----------------------------------------------------------------------------
(* Whom a pass deals with.                                                 *)

ChooseStep(seq, set, n, c) ==
  IF n = 0 THEN <<>> ELSE IF seq[n] \in set THEN Append(c, seq[n]) ELSE c

\* Choosing, whose definition only says that it satisfies its equation if something does,
\* satisfies it.
LEMMA ChoosingEquation ==
  ASSUME NEW U, NEW seq \in Seq(U), NEW set
  PROVE  /\ Choosing(seq, set) =
              [n \in 0..Len(seq) |-> ChooseStep(seq, set, n, Choosing(seq, set)[n - 1])]
         /\ Choosing(seq, set) \in [0..Len(seq) -> Seq(U)]
<1> DEFINE N == Len(seq)
           step == [p \in (1..N) \X Seq(U) |-> ChooseStep(seq, set, p[1], p[2])]
<1>1. N \in Nat OBVIOUS
<1>2. step \in [(1..N) \X Seq(U) -> Seq(U)]
  <2> SUFFICES ASSUME NEW n \in 1..N, NEW c \in Seq(U)
               PROVE  ChooseStep(seq, set, n, c) \in Seq(U)
    OBVIOUS
  <2> QED BY DEF ChooseStep
<1>3. PICK f \in [0..N -> Seq(U)] : Iterates(f, N, <<>>, step)
  <2> HIDE DEF step, N
  <2>1. <<>> \in Seq(U) OBVIOUS
  <2> QED BY <1>1, <1>2, <2>1, Iteration
<1>4. f = [n \in 0..N |-> ChooseStep(seq, set, n, f[n - 1])]
  <2>1. ASSUME NEW n \in 0..N PROVE f[n] = ChooseStep(seq, set, n, f[n - 1])
    <3>1. CASE n = 0 BY <3>1, <1>3 DEF Iterates, ChooseStep
    <3>2. CASE n # 0
      <4>1. n \in 1..N /\ n - 1 \in 0..N BY <3>2, <1>1
      <4>2. f[n] = step[<<n, f[n - 1]>>] BY <1>3, <4>1 DEF Iterates
      <4>3. <<n, f[n - 1]>> \in (1..N) \X Seq(U) BY <4>1
      <4> QED BY <4>2, <4>3
    <3> QED BY <3>1, <3>2
  <2> QED BY <2>1
<1>5. Choosing(seq, set) = CHOOSE g : g = [n \in 0..N |-> ChooseStep(seq, set, n, g[n - 1])]
  BY DEF Choosing, ChooseStep
<1>6. Choosing(seq, set) = [n \in 0..N |-> ChooseStep(seq, set, n, Choosing(seq, set)[n - 1])]
  <2> HIDE DEF N
  <2> QED BY <1>4, <1>5
<1> DEFINE c == Choosing(seq, set)
           S == {n \in 0..N : c[n] \in Seq(U)}
<1>7. \A n \in 0..N : c[n] = ChooseStep(seq, set, n, c[n - 1])
  <2> HIDE DEF N
  <2> QED BY <1>6
<1> HIDE DEF c
<1>8. 0 \in S
  <2>1. c[0] = ChooseStep(seq, set, 0, c[0 - 1]) BY <1>1, <1>7
  <2>2. c[0] = <<>> BY <2>1 DEF ChooseStep
  <2>3. <<>> \in Seq(U) OBVIOUS
  <2> QED BY <2>2, <2>3, <1>1
<1>9. ASSUME NEW n \in 1..N, n - 1 \in S PROVE n \in S
  <2>1. c[n] = ChooseStep(seq, set, n, c[n - 1]) /\ c[n - 1] \in Seq(U) BY <1>7, <1>9
  <2>2. seq[n] \in U OBVIOUS
  <2>3. c[n] \in Seq(U) BY <2>1, <2>2 DEF ChooseStep
  <2> QED BY <2>3
<1>10. \A n \in 0..N : n \in S
  <2> HIDE DEF S, N
  <2> QED BY <1>1, <1>8, <1>9, Induction
<1>11. \A n \in 0..N : c[n] \in Seq(U) BY <1>10
<1>12. c \in [0..N -> Seq(U)]
  <2> HIDE DEF N
  <2> QED BY <1>6, <1>11 DEF c
<1> QED BY <1>6, <1>12 DEF c

LEMMA ChosenType ==
  ASSUME NEW U, NEW seq \in Seq(U), NEW set
  PROVE  Chosen(seq, set) \in Seq(U)
<1>1. Len(seq) \in 0..Len(seq) OBVIOUS
<1> QED BY <1>1, ChoosingEquation DEF Chosen

----------------------------------------------------------------------------
(* Who keeps an avatar.                                                    *)

Pairs == SUBSET (Names \X Assets)

KeepStep(names, record, n, k) ==
  IF n = 0 THEN {}
  ELSE IF Keeps(names[n], record, {p[2] : p \in k})
       THEN k \cup {<<names[n], record[Profile(names[n])].content.avatar>>}
       ELSE k

LEMMA KeepStepType ==
  ASSUME NEW names \in Seq(Names), NEW record, NEW n \in 1..Len(names), NEW k \in Pairs
  PROVE  KeepStep(names, record, n, k) \in Pairs
<1>1. names[n] \in Names OBVIOUS
<1>2. CASE Keeps(names[n], record, {p[2] : p \in k})
  <2>1. <<names[n], record[Profile(names[n])].content.avatar>> \in Names \X Assets
    BY <1>1, <1>2 DEF Keeps
  <2>2. KeepStep(names, record, n, k) =
          k \cup {<<names[n], record[Profile(names[n])].content.avatar>>}
    BY <1>2 DEF KeepStep
  <2> QED BY <2>1, <2>2 DEF Pairs
<1>3. CASE ~Keeps(names[n], record, {p[2] : p \in k}) BY <1>3 DEF KeepStep
<1> QED BY <1>2, <1>3

\* Keeping satisfies its equation, too.
LEMMA KeepingEquation ==
  ASSUME NEW names \in Seq(Names), NEW record
  PROVE  \A n \in 0..Len(names) :
           /\ Keeping(names, record)[n] =
                KeepStep(names, record, n, Keeping(names, record)[n - 1])
           /\ Keeping(names, record)[n] \in Pairs
<1> DEFINE N == Len(names)
           step == [p \in (1..N) \X Pairs |-> KeepStep(names, record, p[1], p[2])]
<1>1. N \in Nat OBVIOUS
<1>2. step \in [(1..N) \X Pairs -> Pairs]
  <2> SUFFICES ASSUME NEW n \in 1..N, NEW k \in Pairs
               PROVE  KeepStep(names, record, n, k) \in Pairs
    OBVIOUS
  <2> QED BY KeepStepType
<1>3. PICK f \in [0..N -> Pairs] : Iterates(f, N, {}, step)
  <2> HIDE DEF step, N
  <2>1. {} \in Pairs BY DEF Pairs
  <2> QED BY <1>1, <1>2, <2>1, Iteration
<1>4. f = [n \in 0..N |-> KeepStep(names, record, n, f[n - 1])]
  <2>1. ASSUME NEW n \in 0..N PROVE f[n] = KeepStep(names, record, n, f[n - 1])
    <3>1. CASE n = 0 BY <3>1, <1>3 DEF Iterates, KeepStep
    <3>2. CASE n # 0
      <4>1. n \in 1..N /\ n - 1 \in 0..N BY <3>2, <1>1
      <4>2. f[n] = step[<<n, f[n - 1]>>] BY <1>3, <4>1 DEF Iterates
      <4>3. <<n, f[n - 1]>> \in (1..N) \X Pairs BY <4>1
      <4> QED BY <4>2, <4>3
    <3> QED BY <3>1, <3>2
  <2> QED BY <2>1
<1>5. Keeping(names, record) =
        CHOOSE g : g = [n \in 0..N |-> KeepStep(names, record, n, g[n - 1])]
  BY DEF Keeping, KeepStep
<1> DEFINE keep == Keeping(names, record)
           S == {n \in 0..N : keep[n] \in Pairs}
<1>6. keep = [n \in 0..N |-> KeepStep(names, record, n, keep[n - 1])]
  <2> HIDE DEF N
  <2> QED BY <1>4, <1>5
<1>7. \A n \in 0..N : keep[n] = KeepStep(names, record, n, keep[n - 1])
  <2> HIDE DEF N, keep
  <2> QED BY <1>6
<1> HIDE DEF keep
<1>8. 0 \in S
  <2>1. keep[0] = KeepStep(names, record, 0, keep[0 - 1]) BY <1>1, <1>7
  <2>2. keep[0] = {} BY <2>1 DEF KeepStep
  <2>3. {} \in Pairs BY DEF Pairs
  <2> QED BY <2>2, <2>3, <1>1
<1>9. ASSUME NEW n \in 1..N, n - 1 \in S PROVE n \in S
  <2>1. keep[n] = KeepStep(names, record, n, keep[n - 1]) /\ keep[n - 1] \in Pairs
    BY <1>7, <1>9
  <2>2. keep[n] \in Pairs BY <2>1, KeepStepType
  <2> QED BY <2>2
<1>10. \A n \in 0..N : n \in S
  <2> HIDE DEF S, N
  <2> QED BY <1>1, <1>8, <1>9, Induction
<1> QED BY <1>7, <1>10 DEF keep

\* An avatar is kept by who has it on record, ...
LEMMA KeptIsOnRecord ==
  ASSUME NEW names \in Seq(Names), NEW record
  PROVE  \A n \in 0..Len(names) : \A k \in Keeping(names, record)[n] :
           /\ record[Profile(k[1])] # None
           /\ record[Profile(k[1])].content.avatar = k[2]
<1> DEFINE keep == Keeping(names, record)
           Fine(k) == /\ record[Profile(k[1])] # None
                      /\ record[Profile(k[1])].content.avatar = k[2]
           S == {n \in 0..Len(names) : \A k \in keep[n] : Fine(k)}
<1>1. \A n \in 0..Len(names) : keep[n] = KeepStep(names, record, n, keep[n - 1])
  BY KeepingEquation
<1> HIDE DEF keep
<1>2. 0 \in S
  <2>1. keep[0] = KeepStep(names, record, 0, keep[0 - 1]) BY <1>1
  <2> QED BY <2>1 DEF KeepStep
<1>3. ASSUME NEW n \in 1..Len(names), n - 1 \in S PROVE n \in S
  <2>1. keep[n] = KeepStep(names, record, n, keep[n - 1]) BY <1>1
  <2>2. \A k \in keep[n - 1] : Fine(k) BY <1>3
  <2>3. ASSUME NEW k \in keep[n], k \notin keep[n - 1] PROVE Fine(k)
    <3>1. /\ Keeps(names[n], record, {p[2] : p \in keep[n - 1]})
          /\ k = <<names[n], record[Profile(names[n])].content.avatar>>
      BY <2>1, <2>3 DEF KeepStep
    <3> QED BY <3>1 DEF Keeps
  <2> QED BY <2>2, <2>3
<1>4. \A n \in 0..Len(names) : n \in S
  <2>1. Len(names) \in Nat OBVIOUS
  <2> HIDE DEF S
  <2> QED BY <2>1, <1>2, <1>3, Induction
<1> QED BY <1>4 DEF keep

\* ... and whoever alone has one on record keeps it, wherever the others come.
LEMMA SoleOwnerKeeps ==
  ASSUME NEW names \in Seq(Names), NEW record, NEW i \in Names, NEW x \in Assets,
         record[Profile(i)] # None, record[Profile(i)].content.avatar = x,
         \A j \in Names \ {i} :
           ~(record[Profile(j)] # None /\ record[Profile(j)].content.avatar = x),
         NEW m \in 1..Len(names), names[m] = i
  PROVE  <<i, x>> \in Keeping(names, record)[Len(names)]
<1> DEFINE keep == Keeping(names, record)
           S == {n \in 0..Len(names) : m <= n => <<i, x>> \in keep[n]}
<1>1. \A n \in 0..Len(names) :
        keep[n] = KeepStep(names, record, n, keep[n - 1]) /\ keep[n] \in Pairs
  BY KeepingEquation
<1>2. \A n \in 0..Len(names) : \A k \in keep[n] :
        record[Profile(k[1])] # None /\ record[Profile(k[1])].content.avatar = k[2]
  BY KeptIsOnRecord
<1> HIDE DEF keep
<1>3. 0 \in S OBVIOUS
<1>4. ASSUME NEW n \in 1..Len(names), n - 1 \in S PROVE n \in S
  <2>1. keep[n] = KeepStep(names, record, n, keep[n - 1]) BY <1>1
  <2>2. keep[n - 1] \subseteq keep[n] BY <2>1 DEF KeepStep
  <2>3. CASE m < n
    <3>1. <<i, x>> \in keep[n - 1] BY <1>4, <2>3
    <3> QED BY <3>1, <2>2
  <2>4. CASE m = n
    <3> DEFINE taken == {p[2] : p \in keep[n - 1]}
    <3>1. CASE x \in taken
      <4>1. PICK p \in keep[n - 1] : p[2] = x BY <3>1
      <4>2. p \in Names \X Assets BY <1>1 DEF Pairs
      <4>3. record[Profile(p[1])] # None /\ record[Profile(p[1])].content.avatar = x
        BY <1>2, <4>1
      <4>4. p[1] = i BY <4>2, <4>3
      <4>5. p = <<i, x>> BY <4>1, <4>2, <4>4
      <4> QED BY <4>5, <2>2
    <3>2. CASE x \notin taken
      <4>1. Keeps(names[n], record, taken) BY <3>2, <2>4 DEF Keeps
      <4>2. keep[n] = keep[n - 1] \cup {<<names[n], x>>} BY <4>1, <2>1, <2>4 DEF KeepStep
      <4> QED BY <4>2, <2>4
    <3> QED BY <3>1, <3>2
  <2>5. CASE m > n BY <2>5
  <2> QED BY <2>3, <2>4, <2>5
<1>5. \A n \in 0..Len(names) : n \in S
  <2>1. Len(names) \in Nat OBVIOUS
  <2> HIDE DEF S
  <2> QED BY <2>1, <1>3, <1>4, Induction
<1> QED BY <1>5 DEF keep

----------------------------------------------------------------------------
(* Which avatar a newcomer gets.                                           *)

LEMMA BestOfType ==
  ASSUME NEW i \in Names, NEW C, C \subseteq Assets, C # {}
  PROVE  BestOf(i, C) \in C
<1> DEFINE p == Prefers[i]
           T == {n \in 1..Len(p) : p[n] \in C}
<1>1. p \in Seq(Assets) /\ {p[n] : n \in 1..Len(p)} = Assets BY ProfilesAssumption
<1> HIDE DEF p
<1>2. T # {} BY <1>1
<1>3. T \subseteq Nat BY <1>1
<1>4. PICK n \in T : \A m \in T : n <= m
  <2> HIDE DEF T
  <2> QED BY <1>2, <1>3, Least
<1>5. n \in 1..Len(p) /\ p[n] \in C /\ \A k \in 1..(n - 1) : p[k] \notin C BY <1>1, <1>4
<1> DEFINE best == CHOOSE m \in 1..Len(p) : p[m] \in C /\ \A k \in 1..(m - 1) : p[k] \notin C
<1>6. p[best] \in C BY <1>5
<1>7. BestOf(i, C) = p[best] BY DEF BestOf, p
<1> QED BY <1>6, <1>7

LEMMA SelectAvatarType ==
  ASSUME NEW i \in Names, NEW taken
  PROVE  SelectAvatar(i, taken) \in Assets
<1> DEFINE C == IF Assets \subseteq taken THEN Assets ELSE Assets \ taken
<1>1. C \subseteq Assets /\ C # {} BY ProfilesAssumption
<1>2. BestOf(i, C) \in C
  <2> HIDE DEF C
  <2> QED BY <1>1, BestOfType
<1> QED BY <1>1, <1>2 DEF SelectAvatar

----------------------------------------------------------------------------
(* The connection.                                                         *)

\* What a step does to the connection.
ConnStep ==
  \/ Connect \/ Receive \/ Challenge \/ Authenticate \/ Misbehave \/ TimeOut
  \/ \E n \in 1..2 : DemandAuth(n) \/ \E new \in BOOLEAN : Accept(n, new)
  \/ conn' = NoConn

LEMMA AnswerTypes ==
  /\ \A n \in 1..2, is \in {"stored", "refused", "authRequired"} : Answer(n, is) \in Frames
  /\ \A is \in Others : Frame(is) \in Frames
BY DEF Answer, Frame, Frames, EventAnswers

LEMMA NoConnType == NoConn \in Connections
BY DEF NoConn, Connections

\* What the relay has handled, and answered.
LEMMA HandledType ==
  ASSUME NEW c \in Connections, NEW n \in 0..2
  PROVE  [c EXCEPT !.handled = @ \cup {n}] \in Connections
BY DEF Connections

LEMMA FlightType ==
  ASSUME NEW c \in Connections, NEW f \in Frames
  PROVE  [c EXCEPT !.flight = @ \cup {f}] \in Connections
BY DEF Connections

LEMMA ConnType ==
  ASSUME conn \in Connections, [ConnStep]_conn
  PROVE  conn' \in Connections
<1>1. CASE Connect
  <2>1. PICK d \in BOOLEAN :
          conn' = [NoConn EXCEPT !.outcome = "open", !.sent = 1, !.demands = d]
    BY <1>1 DEF Connect
  <2> DEFINE c1 == [NoConn EXCEPT !.outcome = "open"]
             c2 == [c1 EXCEPT !.sent = 1]
  <2>2. conn' = [c2 EXCEPT !.demands = d] BY <2>1
  <2>3. c1 \in Connections BY NoConnType DEF Connections
  <2> HIDE DEF c1
  <2>4. c2 \in Connections BY <2>3 DEF Connections
  <2> HIDE DEF c2
  <2> QED BY <2>2, <2>4 DEF Connections
<1>2. CASE Receive
  <2>1. PICK f \in conn.flight : conn' = Received(f, [conn EXCEPT !.flight = @ \ {f}])
    BY <1>2 DEF Receive
  <2> DEFINE c == [conn EXCEPT !.flight = @ \ {f}]
  <2>2. c \in Connections BY DEF Connections
  <2> HIDE DEF c
  <2>3. conn' = Received(f, c) BY <2>1 DEF c
  <2>4. [c EXCEPT !.auth = TRUE] \in Connections BY <2>2 DEF Connections
  <2>5. [c EXCEPT !.sent = 2] \in Connections BY <2>2 DEF Connections
  <2>6. [c EXCEPT !.rejected = TRUE] \in Connections BY <2>2 DEF Connections
  <2>7. [c EXCEPT !.outcome = "accepted"] \in Connections BY <2>2 DEF Connections
  <2>8. [c EXCEPT !.outcome = "failed"] \in Connections BY <2>2 DEF Connections
  <2>9. CASE f.is = "challenge" BY <2>3, <2>4, <2>9 DEF Received, Challenged
  <2>10. CASE f.is = "authOk" BY <2>3, <2>5, <2>10 DEF Received, Confirmed
  <2>11. CASE f.is = "authRequired" BY <2>3, <2>6, <2>8, <2>11 DEF Received, Rejected
  <2>12. CASE f.is = "stored" BY <2>3, <2>7, <2>12 DEF Received
  <2>13. CASE f.is \notin {"challenge", "authOk", "authRequired", "stored"}
    BY <2>3, <2>8, <2>13 DEF Received
  <2> QED BY <2>9, <2>10, <2>11, <2>12, <2>13
<1>3. CASE Challenge BY <1>3, AnswerTypes DEF Challenge, Others, Connections
<1>4. CASE Authenticate
  <2> DEFINE c1 == [conn EXCEPT !.handled = @ \cup {0}]
             c2 == [c1 EXCEPT !.authed = TRUE]
  <2>1. conn' = [c2 EXCEPT !.flight = @ \cup {Frame("authOk")}] BY <1>4 DEF Authenticate
  <2>2. c1 \in Connections BY 0 \in 0..2, HandledType
  <2> HIDE DEF c1
  <2>3. c2 \in Connections BY <2>2 DEF Connections
  <2> HIDE DEF c2
  <2>4. Frame("authOk") \in Frames BY AnswerTypes DEF Others
  <2> QED BY <2>1, <2>3, <2>4, FlightType
<1>5. CASE Misbehave
  <2>1. ASSUME NEW n \in 0..2, NEW f \in Frames,
               conn' = [conn EXCEPT !.handled = @ \cup {n}, !.faulty = TRUE,
                                    !.flight = @ \cup {f}]
        PROVE  conn' \in Connections
    <3> DEFINE c1 == [conn EXCEPT !.handled = @ \cup {n}]
               c2 == [c1 EXCEPT !.faulty = TRUE]
    <3>1. conn' = [c2 EXCEPT !.flight = @ \cup {f}] BY <2>1
    <3>2. c1 \in Connections BY HandledType
    <3> HIDE DEF c1
    <3>3. c2 \in Connections BY <3>2 DEF Connections
    <3> HIDE DEF c2
    <3> QED BY <3>1, <3>3, FlightType
  <2>2. ASSUME NEW f \in Frames, conn' = [conn EXCEPT !.faulty = TRUE, !.flight = @ \cup {f}]
        PROVE  conn' \in Connections
    BY <2>2 DEF Connections
  <2>3. ASSUME conn' = [conn EXCEPT !.faulty = TRUE, !.outcome = "failed"]
        PROVE  conn' \in Connections
    BY <2>3 DEF Connections
  <2>4. /\ \A n \in 1..2, is \in {"refused", "authRequired"} : Answer(n, is) \in Frames
        /\ Frame("authRefused") \in Frames /\ Frame("notice") \in Frames
    BY AnswerTypes DEF Others
  <2>5. CASE \E n \in 1..2, is \in {"refused", "authRequired"} :
               conn' = [conn EXCEPT !.handled = @ \cup {n}, !.faulty = TRUE,
                                    !.flight = @ \cup {Answer(n, is)}]
    <3>1. PICK n \in 1..2, is \in {"refused", "authRequired"} :
            conn' = [conn EXCEPT !.handled = @ \cup {n}, !.faulty = TRUE,
                                 !.flight = @ \cup {Answer(n, is)}]
      BY <2>5
    <3>2. n \in 0..2 /\ Answer(n, is) \in Frames BY <2>4
    <3> QED BY <3>1, <3>2, <2>1
  <2>6. CASE conn' = [conn EXCEPT !.handled = @ \cup {0}, !.faulty = TRUE,
                                  !.flight = @ \cup {Frame("authRefused")}]
    BY 0 \in 0..2, <2>1, <2>4, <2>6
  <2>7. CASE conn' = [conn EXCEPT !.faulty = TRUE, !.flight = @ \cup {Frame("notice")}]
    BY <2>2, <2>4, <2>7
  <2> QED BY <1>5, <2>3, <2>5, <2>6, <2>7 DEF Misbehave
<1>6. CASE TimeOut BY <1>6 DEF TimeOut, Connections
<1>7. ASSUME NEW n \in 1..2, DemandAuth(n) PROVE conn' \in Connections
  <2> DEFINE c == [conn EXCEPT !.handled = @ \cup {n}]
  <2>1. conn' = [c EXCEPT !.flight = @ \cup {Answer(n, "authRequired")}]
    BY <1>7 DEF DemandAuth, Respond
  <2>2. c \in Connections BY n \in 0..2, HandledType
  <2>3. Answer(n, "authRequired") \in Frames BY AnswerTypes
  <2> HIDE DEF c
  <2> QED BY <2>1, <2>2, <2>3, FlightType
<1>8. ASSUME NEW n \in 1..2, NEW new \in BOOLEAN, Accept(n, new) PROVE conn' \in Connections
  <2> DEFINE c1 == [conn EXCEPT !.handled = @ \cup {n}]
             c2 == [c1 EXCEPT !.stored = @ \/ new]
  <2>1. conn' = [c2 EXCEPT !.flight = @ \cup {Answer(n, "stored")}] BY <1>8 DEF Accept
  <2>2. c1 \in Connections BY n \in 0..2, HandledType
  <2> HIDE DEF c1
  <2>3. c2 \in Connections BY <2>2 DEF Connections
  <2> HIDE DEF c2
  <2>4. Answer(n, "stored") \in Frames BY AnswerTypes
  <2> QED BY <2>1, <2>3, <2>4, FlightType
<1>9. CASE conn' = NoConn BY <1>9, NoConnType
<1>10. CASE UNCHANGED conn BY <1>10
<1> QED BY <1>1, <1>2, <1>3, <1>4, <1>5, <1>6, <1>7, <1>8, <1>9, <1>10 DEF ConnStep

\* What a connection looks like on which neither the relay nor the network has failed: each
\* frame was answered once, and the answer is under way or has been dealt with.
Sound(c) ==
  /\ c.outcome # "failed"
  /\ \A f \in c.flight :
       f \in {Frame("challenge"), Frame("authOk"), Answer(1, "authRequired"),
              Answer(1, "stored"), Answer(2, "stored")}
  /\ c.sent = 2 \/ Frame("authOk") \in c.flight => c.authed
  /\ Answer(1, "authRequired") \in c.flight => 1 \in c.handled /\ ~c.rejected /\ c.demands
  /\ c.rejected => 1 \in c.handled /\ c.demands
  /\ c.outcome = "open" =>
       /\ c.sent > 0
       /\ 1 \in c.handled =>
            \/ c.rejected
            \/ Answer(1, "stored") \in c.flight \/ Answer(1, "authRequired") \in c.flight
       /\ 2 \in c.handled => Answer(2, "stored") \in c.flight
       /\ c.challenged => c.auth \/ Frame("challenge") \in c.flight
       /\ 0 \in c.handled => c.sent = 2 \/ Frame("authOk") \in c.flight

ConnInv == ~conn.faulty => Sound(conn)

\* Frames that differ.
LEMMA FramesDiffer ==
  /\ \A n, m, is, of : Answer(n, is) = Answer(m, of) <=> n = m /\ is = of
  /\ \A is : Frame(is) = Answer(0, is)
BY DEF Answer, Frame

LEMMA ConnInvStep ==
  ASSUME conn \in Connections, ConnInv, [ConnStep]_conn
  PROVE  ConnInv'
<1> SUFFICES ASSUME ~conn'.faulty PROVE Sound(conn') BY DEF ConnInv
<1>0. DOMAIN conn = {"outcome", "sent", "auth", "rejected", "demands", "challenged", "authed",
                     "handled", "stored", "flight", "faulty"}
  BY DEF Connections
<1>1. CASE Connect BY <1>1, FramesDiffer DEF Connect, NoConn, Sound
<1>2. CASE Receive
  <2>1. PICK f \in conn.flight : conn' = Received(f, [conn EXCEPT !.flight = @ \ {f}])
    BY <1>2 DEF Receive
  <2> DEFINE c == [conn EXCEPT !.flight = @ \ {f}]
  <2>2. c \in Connections /\ DOMAIN c = DOMAIN conn BY DEF Connections
  <2>3. /\ c.flight = conn.flight \ {f} /\ c.outcome = "open" /\ c.sent = conn.sent
        /\ c.auth = conn.auth /\ c.rejected = conn.rejected /\ c.demands = conn.demands
        /\ c.challenged = conn.challenged /\ c.authed = conn.authed
        /\ c.handled = conn.handled /\ c.faulty = conn.faulty
    BY <1>0, <1>2 DEF Receive, Open
  <2> HIDE DEF c
  <2>4. conn' = Received(f, c) BY <2>1 DEF c
  <2>5. c.faulty = conn'.faulty
    BY <2>2, <2>4 DEF Received, Challenged, Confirmed, Rejected, Connections
  <2>6. Sound(conn) BY <2>3, <2>5 DEF ConnInv
  <2>0. conn.outcome = "open" BY <1>2 DEF Receive, Open
  <2> DEFINE Same == /\ conn'.flight = conn.flight \ {f} /\ conn'.handled = conn.handled
                     /\ conn'.demands = conn.demands /\ conn'.challenged = conn.challenged
                     /\ conn'.authed = conn.authed
  <2>7. CASE f = Frame("challenge")
    <3>1. conn' = [c EXCEPT !.auth = TRUE] BY <2>4, <2>7 DEF Received, Challenged, Frame, Answer
    <3>2. Same /\ conn'.outcome = "open" /\ conn'.sent = conn.sent /\ conn'.auth
      BY <1>0, <2>2, <2>3, <3>1
    <3>3. conn'.rejected = conn.rejected BY <1>0, <2>2, <2>3, <3>1
    <3>4. Sound(conn') BY <2>0, <2>6, <2>7, <3>2, <3>3, FramesDiffer DEF Sound
    <3> QED BY <3>4
  <2>8. CASE f = Frame("authOk")
    <3>1. conn' = [c EXCEPT !.sent = 2] BY <2>4, <2>8 DEF Received, Confirmed, Frame, Answer
    <3>2. Same /\ conn'.outcome = "open" /\ conn'.sent = 2 /\ conn'.auth = conn.auth
      BY <1>0, <2>2, <2>3, <3>1
    <3>3. conn'.rejected = conn.rejected BY <1>0, <2>2, <2>3, <3>1
    <3>4. Sound(conn') BY <2>0, <2>6, <2>8, <3>2, <3>3, FramesDiffer DEF Sound
    <3> QED BY <3>4
  <2>9. CASE f = Answer(1, "authRequired")
    <3>1. conn' = [c EXCEPT !.rejected = TRUE]
      BY <2>3, <2>4, <2>6, <2>9 DEF Received, Rejected, Answer, Sound
    <3>2. Same /\ conn'.outcome = "open" /\ conn'.sent = conn.sent /\ conn'.auth = conn.auth
      BY <1>0, <2>2, <2>3, <3>1
    <3>3. conn'.rejected BY <1>0, <2>2, <2>3, <3>1
    <3>4. Sound(conn') BY <2>0, <2>6, <2>9, <3>2, <3>3, FramesDiffer DEF Sound
    <3> QED BY <3>4
  <2>10. CASE f \in {Answer(1, "stored"), Answer(2, "stored")}
    <3>1. conn' = [c EXCEPT !.outcome = "accepted"] BY <2>4, <2>10 DEF Received, Answer
    <3> QED BY <2>2, <2>3, <2>6, <2>10, <3>1, FramesDiffer DEF Sound, Connections
  <2> QED BY <2>6, <2>7, <2>8, <2>9, <2>10 DEF Sound
<1>3. CASE Challenge
  <2>1. Sound(conn) BY <1>0, <1>3 DEF ConnInv, Challenge
  <2>2. conn' = [conn EXCEPT !.challenged = TRUE,
                             !.flight = conn.flight \cup {Frame("challenge")}]
    BY <1>3 DEF Challenge
  <2> QED BY <1>0, <2>1, <2>2, FramesDiffer DEF Sound
<1>4. CASE Authenticate
  <2>1. Sound(conn) BY <1>0, <1>4 DEF ConnInv, Authenticate
  <2>2. conn' = [conn EXCEPT !.handled = conn.handled \cup {0}, !.authed = TRUE,
                             !.flight = conn.flight \cup {Frame("authOk")}]
    BY <1>4 DEF Authenticate
  <2> QED BY <1>0, <2>1, <2>2, FramesDiffer DEF Sound
<1>5. CASE Misbehave BY <1>0, <1>5 DEF Misbehave
<1>6. CASE TimeOut
  <2>1. Sound(conn) BY <1>0, <1>6 DEF ConnInv, TimeOut
  <2>2. conn.outcome = "open" /\ conn.flight = {} /\ (~conn.demands \/ conn.challenged)
        /\ ~Waiting(0) /\ ~Waiting(1) /\ ~Waiting(2)
    BY <1>6 DEF TimeOut, Quiet, Open
  <2>3. conn.sent \in 1..2 /\ 1 \in conn.handled
    BY <2>1, <2>2 DEF Waiting, Open, Sound, Connections
  <2>4. conn.rejected /\ conn.auth BY <2>1, <2>2, <2>3 DEF Sound
  <2>5. 0 \in conn.handled /\ conn.sent = 2
    BY <2>1, <2>2, <2>4 DEF Sound, Waiting, Open
  <2>6. 2 \in conn.handled BY <2>2, <2>5 DEF Waiting, Open
  <2> QED BY <2>1, <2>2, <2>6 DEF Sound
<1>7. ASSUME NEW n \in 1..2, DemandAuth(n) PROVE Sound(conn')
  <2>1. conn' = [conn EXCEPT !.handled = conn.handled \cup {n},
                             !.flight = conn.flight \cup {Answer(n, "authRequired")}]
    BY <1>7 DEF DemandAuth, Respond
  <2>2. Sound(conn) BY <1>0, <2>1 DEF ConnInv
  <2>3. /\ n \notin conn.handled /\ n <= conn.sent /\ conn.demands /\ ~conn.authed
        /\ conn.outcome = "open"
    BY <1>7 DEF DemandAuth, Waiting, Admits, Open
  <2>4. n = 1 BY <2>2, <2>3 DEF Sound, Connections
  <2> QED BY <1>0, <2>1, <2>2, <2>3, <2>4, FramesDiffer DEF Sound
<1>8. ASSUME NEW n \in 1..2, NEW new \in BOOLEAN, Accept(n, new) PROVE Sound(conn')
  <2>1. conn' = [conn EXCEPT !.handled = conn.handled \cup {n}, !.stored = @ \/ new,
                             !.flight = conn.flight \cup {Answer(n, "stored")}]
    BY <1>8 DEF Accept
  <2>2. Sound(conn) BY <1>0, <2>1 DEF ConnInv
  <2>3. n = 1 \/ n = 2 OBVIOUS
  <2> QED BY <1>0, <2>1, <2>2, <2>3, FramesDiffer DEF Sound
<1>9. CASE conn' = NoConn BY <1>9, FramesDiffer DEF NoConn, Sound
<1>10. CASE UNCHANGED conn BY <1>10 DEF ConnInv, Sound
<1> QED BY <1>1, <1>2, <1>3, <1>4, <1>5, <1>6, <1>7, <1>8, <1>9, <1>10 DEF ConnStep

----------------------------------------------------------------------------
(* Types.                                                                  *)

\* A pass has what it loaded; only a pass has subjects, and connects for one of them.
PassOK ==
  /\ Running <=> view # None
  /\ Running <=> copy # None
  /\ ~Running => queue = <<>>
  /\ event # None => queue # <<>>
  /\ event = None => conn = NoConn

LEMMA NoneDiffers ==
  /\ None \notin Contents /\ None \notin Entries /\ None \notin Records /\ None \notin Events
  /\ None \notin Modes /\ None \notin Settings /\ None \notin Ages
BY NoneAssumption

LEMMA NamesOrdered ==
  /\ \A v : ProfileOrder(v) \in Seq(Names)
  /\ \A v : Chosen(Order, v.configured) \in Seq(Identities)
<1>1. Order \in Seq(Identities) BY ProfilesAssumption
<1>2. <<Bridge>> \o Order \in Seq(Names) BY <1>1 DEF Names
<1> HIDE DEF Identities, Names
<1> QED BY <1>1, <1>2, ChosenType DEF ProfileOrder

LEMMA KeepType == \A v, record : Keep(v, record) \in SUBSET (Names \X Assets)
<1> TAKE v, record
<1> DEFINE names == ProfileOrder(v)
<1>1. names \in Seq(Names) BY NamesOrdered
<1>2. Keep(v, record) = IF v.avatars THEN Keeping(names, record)[Len(names)] ELSE {}
  BY DEF Keep
<1> HIDE DEF names
<1>3. Len(names) \in 0..Len(names) BY <1>1
<1> QED BY <1>1, <1>2, <1>3, KeepingEquation DEF Pairs

LEMMA AllSubjectsType ==
  ASSUME NEW v
  PROVE  /\ AllSubjects(v)[1] \in Seq(Subjects) /\ AllSubjects(v)[2] \in Seq(Subjects)
         /\ \A n \in 1..Len(AllSubjects(v)[1]) :
              \E m \in 1..Len(ProfileOrder(v)) :
                 AllSubjects(v)[1][n] = Profile(ProfileOrder(v)[m])
         /\ \A n \in 1..Len(AllSubjects(v)[2]) :
              \E i \in Identities : AllSubjects(v)[2][n] = Agent(i)
<1> DEFINE profiles == ProfileOrder(v)
           agents == Chosen(Order, v.configured)
           P == [n \in 1..Len(profiles) |-> Profile(profiles[n])]
           A == [n \in 1..Len(agents) |-> Agent(agents[n])]
<1>1. profiles \in Seq(Names) /\ agents \in Seq(Identities) BY NamesOrdered
<1>2. AllSubjects(v)[1] = P /\ AllSubjects(v)[2] = A BY DEF AllSubjects
<1> HIDE DEF profiles, agents
<1>3. Len(profiles) \in Nat /\ Len(agents) \in Nat BY <1>1
<1>4. \A n \in 1..Len(profiles) : profiles[n] \in Names BY <1>1
<1>5. \A n \in 1..Len(agents) : agents[n] \in Identities BY <1>1
<1>6. P \in Seq(Subjects) /\ Len(P) = Len(profiles)
  <2>1. \A n \in 1..Len(profiles) : Profile(profiles[n]) \in Subjects BY <1>4 DEF Subjects
  <2> HIDE DEF Subjects
  <2> QED BY <1>3, <2>1
<1>7. A \in Seq(Subjects) /\ Len(A) = Len(agents)
  <2>1. \A n \in 1..Len(agents) : Agent(agents[n]) \in Subjects BY <1>5 DEF Subjects
  <2> HIDE DEF Subjects
  <2> QED BY <1>3, <2>1
<1>8. \A n \in 1..Len(P) : P[n] = Profile(profiles[n]) BY <1>6
<1>9. \A n \in 1..Len(A) : A[n] = Agent(agents[n]) BY <1>7
<1> HIDE DEF P, A
<1> QED BY <1>2, <1>5, <1>6, <1>7, <1>8, <1>9 DEF profiles

\* Whose turn it is.
LEMMA TurnType ==
  ASSUME queue \in Seq(Subjects), queue # <<>>
  PROVE  /\ Turn \in Subjects /\ Who \in Names /\ Tail(queue) \in Seq(Subjects)
         /\ Turn[1] \in {"profile", "agent"}
         /\ Turn[1] = "profile" => Turn = Profile(Who)
         /\ Turn[1] = "agent" => Turn = Agent(Who) /\ Who \in Identities
<1>1. queue[1] \in Subjects /\ Tail(queue) \in Seq(Subjects)
  <2> HIDE DEF Subjects
  <2> QED OBVIOUS
<1>2. Turn \in Subjects BY <1>1 DEF Turn
<1>3. CASE \E i \in Names : Turn = Profile(i) BY <1>1, <1>2, <1>3 DEF Who, Profile
<1>4. CASE \E i \in Identities : Turn = Agent(i)
  BY <1>1, <1>2, <1>4 DEF Who, Agent, Names
<1> QED BY <1>2, <1>3, <1>4 DEF Subjects

LEMMA AvatarType ==
  ASSUME kept \subseteq Names \X Assets, Who \in Names
  PROVE  Avatar \in Assets \cup {None}
<1>1. CASE \E k \in kept : k[1] = Who
  <2> DEFINE k == CHOOSE k \in kept : k[1] = Who
  <2>1. k \in kept BY <1>1
  <2>2. k[2] \in Assets BY <2>1
  <2>3. view.avatars => Avatar = k[2] BY <1>1 DEF Avatar
  <2> QED BY <2>2, <2>3 DEF Avatar
<1>2. CASE ~\E k \in kept : k[1] = Who BY <1>2, SelectAvatarType DEF Avatar
<1> QED BY <1>1, <1>2

LEMMA ContentType ==
  ASSUME TypeOK, PassOK, queue # <<>>
  PROVE  /\ Content \in Contents
         /\ Turn[1] = "profile" => Content \in ProfileContents /\ Content.avatar = Avatar
<1>1. queue \in Seq(Subjects) /\ kept \subseteq Names \X Assets /\ view \in Settings
  BY DEF TypeOK, PassOK
<1>2. Who \in Names BY <1>1, TurnType
<1>3. CASE Turn[1] = "profile"
  <2>1. Avatar \in Assets \cup {None} BY <1>1, <1>2, AvatarType
  <2>2. view.text[Who] \in Texts BY <1>1, <1>2 DEF Settings
  <2>3. Content = [text |-> view.text[Who], avatar |-> Avatar] BY <1>3 DEF Content
  <2> QED BY <2>1, <2>2, <2>3 DEF ProfileContents, Contents
<1>4. CASE Turn[1] = "agent"
  <2>1. Who \in Identities BY <1>1, <1>4, TurnType
  <2>2. view.text[Who] \in Texts BY <1>1, <1>2 DEF Settings
  <2>3. view.lives[Who] \cap view.mapped \in SUBSET Spaces BY <1>1, <2>1 DEF Settings
  <2>4. Content = Declaration(view, Who) BY <1>4 DEF Content
  <2> QED BY <1>4, <2>2, <2>3, <2>4 DEF Declaration, AgentContents, Contents
<1> QED BY <1>1, <1>3, <1>4, TurnType

\* A record stays one when its dates change, and says the same.
SameContents(r, q) ==
  \A s \in Subjects : /\ r[s] = None <=> q[s] = None
                      /\ r[s] # None => r[s].content = q[s].content

LEMMA UndatedType ==
  ASSUME NEW r \in Records
  PROVE  Undated(r) \in Records /\ SameContents(Undated(r), r)
<1>1. ASSUME NEW s \in Subjects
      PROVE  /\ Undated(r)[s] \in Entries \cup {None}
             /\ Undated(r)[s] = None <=> r[s] = None
             /\ r[s] # None => Undated(r)[s].content = r[s].content
  <2>1. r[s] \in Entries \cup {None} BY DEF Records
  <2>2. Undated(r)[s] = IF s[1] = "profile" /\ r[s] # None
                        THEN [r[s] EXCEPT !.age = None] ELSE r[s]
    BY DEF Undated
  <2>3. ASSUME r[s] \in Entries
        PROVE  /\ [r[s] EXCEPT !.age = None] \in Entries
               /\ [r[s] EXCEPT !.age = None].content = r[s].content
    BY <2>3 DEF Entries
  <2> QED BY <2>1, <2>2, <2>3, NoneDiffers
<1>2. Undated(r) \in Records BY <1>1 DEF Undated, Records
<1> QED BY <1>1, <1>2, NoneDiffers DEF SameContents

LEMMA AgesType ==
  /\ \A a \in Ages \cup {None} : Older(a) \in Ages \cup {None} /\ Ahead(a) \in Ages \cup {None}
  /\ \A a \in Ages : Older(a) \in Ages
BY ProfilesAssumption, NoneDiffers DEF Older, Ahead, Ages

LEMMA DatedType ==
  ASSUME NEW r \in Records, NEW g \in [Ages \cup {None} -> Ages \cup {None}], NEW q,
         q = [s \in Subjects |-> IF r[s] = None THEN None ELSE [r[s] EXCEPT !.age = g[@]]]
  PROVE  q \in Records /\ SameContents(q, r)
<1>1. ASSUME NEW s \in Subjects
      PROVE  /\ q[s] \in Entries \cup {None}
             /\ q[s] = None <=> r[s] = None
             /\ r[s] # None => q[s].content = r[s].content
  <2>1. r[s] \in Entries \cup {None} BY DEF Records
  <2>2. q[s] = IF r[s] = None THEN None ELSE [r[s] EXCEPT !.age = g[r[s].age]] OBVIOUS
  <2>3. ASSUME r[s] \in Entries
        PROVE  /\ [r[s] EXCEPT !.age = g[r[s].age]] \in Entries
               /\ [r[s] EXCEPT !.age = g[r[s].age]].content = r[s].content
    BY <2>3 DEF Entries
  <2> QED BY <2>1, <2>2, <2>3, NoneDiffers
<1>2. q \in Records BY <1>1 DEF Records
<1> QED BY <1>1, <1>2, NoneDiffers DEF SameContents

LEMMA AgedType ==
  ASSUME NEW r \in Records
  PROVE  /\ Aged(r, Older) \in Records /\ SameContents(Aged(r, Older), r)
         /\ Aged(r, Ahead) \in Records /\ SameContents(Aged(r, Ahead), r)
<1> DEFINE A == Ages \cup {None}
           older == [a \in A |-> Older(a)]
           ahead == [a \in A |-> Ahead(a)]
<1>1. older \in [A -> A] /\ ahead \in [A -> A] BY AgesType
<1>2. r # None BY NoneDiffers
<1>3. \A s \in Subjects : r[s] # None => r[s].age \in A BY DEF Records, Entries
<1>4. Aged(r, Older) = [s \in Subjects |-> IF r[s] = None THEN None
                                           ELSE [r[s] EXCEPT !.age = older[@]]]
  <2>1. Aged(r, Older) = [s \in Subjects |-> IF r[s] = None THEN None
                                             ELSE [r[s] EXCEPT !.age = Older(@)]]
    BY <1>2 DEF Aged
  <2> QED BY <1>3, <2>1
<1>5. Aged(r, Ahead) = [s \in Subjects |-> IF r[s] = None THEN None
                                           ELSE [r[s] EXCEPT !.age = ahead[@]]]
  <2>1. Aged(r, Ahead) = [s \in Subjects |-> IF r[s] = None THEN None
                                             ELSE [r[s] EXCEPT !.age = Ahead(@)]]
    BY <1>2 DEF Aged
  <2> QED BY <1>3, <2>1
<1> HIDE DEF older, ahead
<1> QED BY <1>1, <1>4, <1>5, DatedType

\* What the relay keeps stays an event when its date changes.
LEMMA RedatedType ==
  ASSUME relay \in [Subjects -> Events \cup {None}], NEW b \in BOOLEAN,
         relay' = [s \in Subjects |-> IF relay[s] = None THEN None
                                      ELSE [relay[s] EXCEPT !.ahead = b]]
  PROVE  relay' \in [Subjects -> Events \cup {None}] /\ SameContents(relay', relay)
<1>1. ASSUME NEW s \in Subjects
      PROVE  /\ relay'[s] \in Events \cup {None}
             /\ relay'[s] = None <=> relay[s] = None
             /\ relay[s] # None => relay'[s].content = relay[s].content
  <2>1. relay[s] \in Events \cup {None} OBVIOUS
  <2>2. relay'[s] = IF relay[s] = None THEN None ELSE [relay[s] EXCEPT !.ahead = b] OBVIOUS
  <2>3. ASSUME relay[s] \in Events
        PROVE  /\ [relay[s] EXCEPT !.ahead = b] \in Events
               /\ [relay[s] EXCEPT !.ahead = b].content = relay[s].content
    BY <2>3 DEF Events
  <2> QED BY <2>1, <2>2, <2>3, NoneDiffers
<1> QED BY <1>1 DEF SameContents

LEMMA RelayWithType ==
  ASSUME TypeOK, PassOK, event # None, NEW b
  PROVE  /\ RelayWith(b) \in [Subjects -> Events \cup {None}]
         /\ \A s \in Subjects \ {Turn} : RelayWith(b)[s] = relay[s]
         /\ ~b => RelayWith(b) = relay
         /\ b => RelayWith(b)[Turn] # None /\ RelayWith(b)[Turn].content = event
<1>1. relay \in [Subjects -> Events \cup {None}] /\ event \in Contents /\ queue \in Seq(Subjects)
  BY DEF TypeOK
<1>2. Turn \in Subjects BY <1>1, TurnType DEF PassOK
<1>3. [content |-> event, ahead |-> FALSE] \in Events BY <1>1 DEF Events
<1> DEFINE e == [content |-> event, ahead |-> FALSE]
<1>4. ~b => RelayWith(b) = relay BY DEF RelayWith
<1>5. b => RelayWith(b) = [relay EXCEPT ![Turn] = e] BY DEF RelayWith
<1>6. e.content = event /\ e # None BY <1>3, NoneDiffers
<1> HIDE DEF Turn, Subjects, e
<1>7. CASE b BY <1>1, <1>2, <1>3, <1>5, <1>6, <1>7 DEF e
<1>8. CASE ~b BY <1>1, <1>4, <1>8
<1> QED BY <1>7, <1>8

LEMMA NotedType ==
  ASSUME TypeOK, PassOK, event # None, NEW ok
  PROVE  /\ Noted(ok) \in Records
         /\ \A s \in Subjects \ {Turn} : Noted(ok)[s] = copy[s]
         /\ ~ok => Noted(ok) = copy
         /\ ok => Noted(ok)[Turn] # None /\ Noted(ok)[Turn].content = event
<1>1. /\ copy \in Records /\ event \in Contents /\ queue \in Seq(Subjects) /\ elapsed \in Ages
  BY DEF TypeOK, PassOK
<1>2. Turn \in Subjects BY <1>1, TurnType DEF PassOK
<1>3. [content |-> event, age |-> elapsed] \in Entries BY <1>1 DEF Entries
<1>4. ~ok => Noted(ok) = copy BY DEF Noted
<1>5. ok => Noted(ok) = [copy EXCEPT ![Turn] = [content |-> event, age |-> elapsed]]
  BY DEF Noted
<1> HIDE DEF Turn, Subjects
<1> QED BY <1>1, <1>2, <1>3, <1>4, <1>5, NoneDiffers DEF Records

LEMMA ConnSteps ==
  ASSUME [Next]_vars
  PROVE  [ConnStep]_conn
<1>1. CASE Exchange
  <2>1. CASE RelayAccepts
    <3>1. PICK n \in 1..2 : Accept(n, Stores(Turn)) BY <2>1 DEF RelayAccepts
    <3>2. Stores(Turn) \in BOOLEAN BY DEF Stores
    <3> QED BY <3>1, <3>2 DEF ConnStep
  <2> QED BY <1>1, <2>1 DEF Exchange, ConnStep
<1>2. CASE Fails BY <1>2 DEF Fails, ConnStep
<1>3. CASE Begin BY <1>3 DEF Begin, ConnStep
<1>4. CASE \/ \E late \in BOOLEAN : Settle(late) \/ Crash(late)
  BY <1>4 DEF Settle, Crash, ConnStep
<1>5. CASE Skip \/ Upload \/ Save \/ Unreachable \/ Tick
  BY <1>5 DEF Skip, Upload, Save, Unreachable, Tick
<1>6. CASE Reconcile \/ Unpacked \/ Command
  BY <1>6 DEF Reconcile, Unpacked, Command, Start
<1>7. CASE People
  BY <1>7 DEF People, SetClockBack, Restore, Configure, Describe, LoseKey, SwitchAvatars,
       Move, Map, Set
<1>8. CASE UNCHANGED vars BY <1>8 DEF vars
<1> QED BY <1>1, <1>2, <1>3, <1>4, <1>5, <1>6, <1>7, <1>8 DEF Next, Pass

\* What a pass leaves as it is.
LEMMA StartType ==
  ASSUME TypeOK, PassOK, NEW m \in Modes, NEW packed \in BOOLEAN, Start(m, packed),
         faults' \in 0..MaxFaults, changes' \in 0..MaxChanges
  PROVE  TypeOK' /\ PassOK'
<1> USE DEF Start
<1>1. /\ settings \in Settings /\ cache \in Records /\ uploads \subseteq Assets
      /\ conn \in Connections
  BY DEF TypeOK
<1>2. copy' \in Records
  <2>1. Undated(cache) \in Records BY <1>1, UndatedType
  <2> QED BY <1>1, <2>1
<1>3. fresh' \subseteq Subjects BY DEF Fresh
<1>4. kept' \subseteq Names \X Assets BY KeepType
<1>5. reserved' \subseteq Assets BY <1>4
<1>6. queue' \in Seq(Subjects)
  <2> HIDE DEF Subjects
  <2> QED BY AllSubjectsType
<1>7. elapsed' \in Ages BY ProfilesAssumption DEF Ages
<1>8. event = None /\ conn = NoConn BY DEF PassOK, Running
<1>9. mode' # None /\ view' # None /\ copy' # None /\ event' = None /\ conn' = NoConn
  BY <1>1, <1>2, <1>8, NoneDiffers
<1>10. TypeOK' BY <1>1, <1>2, <1>3, <1>4, <1>5, <1>6, <1>7 DEF TypeOK
<1> QED BY <1>9, <1>10 DEF PassOK, Running

LEMMA LeaveType ==
  ASSUME TypeOK, PassOK, queue # <<>>, Leave
  PROVE  queue' \in Seq(Subjects) /\ reserved' \subseteq Assets
<1>1. queue \in Seq(Subjects) /\ kept \subseteq Names \X Assets /\ reserved \subseteq Assets
  BY DEF TypeOK
<1>2. Avatar \in Assets \cup {None} BY <1>1, TurnType, AvatarType
<1>3. queue' = Tail(queue) BY DEF Leave
<1>4. queue' \in Seq(Subjects) BY <1>1, <1>3, TurnType
<1> QED BY <1>1, <1>2, <1>4 DEF Leave

LEMMA ForgetType ==
  ASSUME Forget, conn' = NoConn
  PROVE  /\ mode' \in Modes \cup {None} /\ view' \in Settings \cup {None}
         /\ copy' \in Records \cup {None} /\ ups' \subseteq Assets /\ fresh' \subseteq Subjects
         /\ elapsed' \in Ages /\ queue' \in Seq(Subjects) /\ kept' \subseteq Names \X Assets
         /\ reserved' \subseteq Assets /\ event' \in Contents \cup {None}
         /\ PassOK'
<1>1. 0 \in Ages BY ProfilesAssumption DEF Ages
<1> QED BY <1>1 DEF Forget, PassOK, Running

\* Dates change, and nothing else does.
Redates ==
  /\ \/ cache' = Aged(cache, Older) /\ copy' = Aged(copy, Older)
     \/ cache' = Aged(cache, Ahead) /\ copy' = Aged(copy, Ahead)
  /\ \E b \in BOOLEAN : relay' = [s \in Subjects |-> IF relay[s] = None THEN None
                                                     ELSE [relay[s] EXCEPT !.ahead = b]]
  /\ UNCHANGED <<conn, settings, uploads, mode, view, ups, fresh, queue, kept, reserved, event,
                 uncertain>>

LEMMA RedatesType ==
  ASSUME TypeOK, PassOK, Redates
  PROVE  /\ cache' \in Records /\ SameContents(cache', cache)
         /\ copy' \in Records \cup {None}
         /\ Running => copy' \in Records /\ SameContents(copy', copy)
         /\ ~Running => copy' = None
         /\ relay' \in [Subjects -> Events \cup {None}] /\ SameContents(relay', relay)
<1>1. cache \in Records /\ copy \in Records \cup {None} /\ (Running <=> copy # None)
      /\ relay \in [Subjects -> Events \cup {None}]
  BY DEF TypeOK, PassOK
<1>2. cache' \in Records /\ SameContents(cache', cache) BY <1>1, AgedType DEF Redates
<1>3. ASSUME copy = None PROVE copy' = None BY <1>3 DEF Redates, Aged
<1>4. ASSUME copy \in Records PROVE copy' \in Records /\ SameContents(copy', copy)
  BY <1>4, AgedType DEF Redates
<1>5. relay' \in [Subjects -> Events \cup {None}] /\ SameContents(relay', relay)
  <2>1. PICK b \in BOOLEAN :
          relay' = [s \in Subjects |-> IF relay[s] = None THEN None
                                       ELSE [relay[s] EXCEPT !.ahead = b]]
    BY DEF Redates
  <2> QED BY <1>1, <2>1, RedatedType
<1>6. CASE Running BY <1>1, <1>2, <1>4, <1>5, <1>6
<1>7. CASE ~Running BY <1>1, <1>2, <1>3, <1>5, <1>7
<1> QED BY <1>6, <1>7

LEMMA DatesChange ==
  ASSUME Tick \/ SetClockBack
  PROVE  Redates
<1>1. CASE Tick BY <1>1 DEF Tick, Redates
<1>2. CASE SetClockBack BY <1>2 DEF SetClockBack, Redates
<1> QED BY <1>1, <1>2

\* People change the settings only.
PeopleSet ==
  Configure \/ Describe \/ LoseKey \/ SwitchAvatars \/ Move \/ Map

LEMMA PeopleSetType ==
  ASSUME TypeOK, PeopleSet
  PROVE  /\ settings' \in Settings /\ Change
         /\ UNCHANGED <<conn, relay, cache, uploads, pass, uncertain, faults>>
<1>0. settings \in Settings BY DEF TypeOK
<1>1. CASE Configure BY <1>0, <1>1 DEF Configure, Set, Flip, Settings
<1>2. CASE Describe BY <1>0, <1>2 DEF Describe, Set, Settings
<1>3. CASE LoseKey BY <1>0, <1>3 DEF LoseKey, Set, Flip, Settings
<1>4. CASE SwitchAvatars BY <1>0, <1>4 DEF SwitchAvatars, Set, Settings
<1>5. CASE Move BY <1>0, <1>5 DEF Move, Set, Flip, Settings
<1>6. CASE Map BY <1>0, <1>6 DEF Map, Set, Flip, Settings
<1> QED BY <1>1, <1>2, <1>3, <1>4, <1>5, <1>6 DEF PeopleSet

LEMMA TypeStep ==
  ASSUME TypeOK, PassOK, [Next]_vars
  PROVE  TypeOK' /\ PassOK'
<1>1. conn' \in Connections BY ConnSteps, ConnType DEF TypeOK
<1>2. /\ MaxFaults \in Nat /\ MaxChanges \in Nat /\ faults \in 0..MaxFaults
      /\ changes \in 0..MaxChanges
  BY ProfilesAssumption DEF TypeOK
<1>3. /\ Fault => faults' \in 0..MaxFaults
      /\ Change => changes' \in 0..MaxChanges
  BY <1>2 DEF Fault, Change
<1>4. CASE Skip
  <2>1. queue' \in Seq(Subjects) /\ reserved' \subseteq Assets BY <1>4, LeaveType DEF Skip
  <2>2. TypeOK' BY <1>1, <1>4, <2>1 DEF TypeOK, Skip, Leave
  <2>3. PassOK' BY <1>4 DEF PassOK, Running, Skip, Leave
  <2> QED BY <2>2, <2>3
<1>5. CASE Upload
  <2>1. Turn \in Subjects /\ Turn[1] \in {"profile", "agent"} /\ Who \in Names
    BY <1>5, TurnType DEF TypeOK, Upload, Publishing, Due
  <2>2. Avatar \in Assets \cup {None} BY <2>1, AvatarType DEF TypeOK
  <2>3. Avatar \in Assets BY <1>5, <2>2 DEF Upload, Uploaded
  <2>4. ups' \subseteq Assets BY <1>5, <2>3 DEF TypeOK, Upload
  <2>5. TypeOK' BY <1>1, <1>5, <2>4 DEF TypeOK, Upload
  <2>6. PassOK' BY <1>5 DEF PassOK, Running, Upload
  <2> QED BY <2>5, <2>6
<1>6. CASE Begin
  <2>1. queue # <<>> BY <1>6 DEF Begin, Publishing, Due
  <2>2. event' \in Contents BY <1>6, <2>1, ContentType DEF Begin
  <2>3. TypeOK' BY <1>1, <1>6, <2>2 DEF TypeOK, Begin
  <2>4. PassOK' BY <1>6, <2>1, <2>2, NoneDiffers DEF PassOK, Running, Begin
  <2> QED BY <2>3, <2>4
<1>7. ASSUME NEW late \in BOOLEAN, Settle(late) PROVE TypeOK' /\ PassOK'
  <2>1. event # None /\ queue # <<>> /\ Leave BY <1>7 DEF Settle, PassOK
  <2>2. queue' \in Seq(Subjects) /\ reserved' \subseteq Assets BY <2>1, LeaveType
  <2>3. relay' \in [Subjects -> Events \cup {None}] BY <1>7, <2>1, RelayWithType DEF Settle
  <2>4. copy' \in Records BY <1>7, <2>1, NotedType DEF Settle
  <2>5. uncertain' \subseteq Subjects
    <3>1. Turn \in Subjects BY <2>1, TurnType DEF TypeOK
    <3>2. uncertain' \in {uncertain \ {Turn}, uncertain \cup {Turn}, uncertain}
      BY <1>7 DEF Settle
    <3> QED BY <3>1, <3>2 DEF TypeOK
  <2>6. TypeOK' BY <1>1, <1>7, <2>2, <2>3, <2>4, <2>5 DEF TypeOK, Settle, Leave
  <2>7. PassOK' BY <1>7, <2>1, <2>4, NoneDiffers DEF PassOK, Running, Settle, Leave
  <2> QED BY <2>6, <2>7
<1>8. CASE Save
  <2>1. copy \in Records BY <1>8 DEF TypeOK, PassOK, Save
  <2>2. event = None BY <1>8 DEF PassOK, Save
  <2>3. conn' = NoConn /\ Forget BY <1>8, <2>2 DEF PassOK, Save
  <2> HIDE DEF Forget
  <2>4. PassOK' BY <2>3, ForgetType
  <2>5. TypeOK' BY <1>1, <1>8, <2>1, <2>3, ForgetType DEF TypeOK, Save
  <2> QED BY <2>4, <2>5
<1>9. CASE Exchange
  <2>1. relay' \in [Subjects -> Events \cup {None}]
    <3>1. CASE RelayAccepts BY <1>9, <3>1, RelayWithType DEF Exchange, RelayAccepts
    <3>2. CASE UNCHANGED relay BY <3>2 DEF TypeOK
    <3> QED BY <1>9, <3>1, <3>2 DEF Exchange
  <2>2. UNCHANGED <<settings, cache, uploads, pass, uncertain, faults, changes>>
    BY <1>9 DEF Exchange
  <2>3. TypeOK' BY <1>1, <2>1, <2>2 DEF TypeOK, pass
  <2>4. PassOK' BY <1>9, <2>2 DEF PassOK, Running, pass, Exchange
  <2> QED BY <2>3, <2>4
<1>10. CASE Fails
  <2>1. event # None /\ Fault /\ UNCHANGED <<settings, relay, cache, uploads, pass, uncertain, changes>>
    BY <1>10 DEF Fails
  <2>2. TypeOK' BY <1>1, <1>3, <2>1 DEF TypeOK, pass
  <2>3. PassOK' BY <2>1 DEF PassOK, Running, pass
  <2> QED BY <2>2, <2>3
<1>11. CASE Reconcile \/ Unpacked \/ Command
  <2>1. PICK m \in Modes, packed \in BOOLEAN : Start(m, packed)
    BY <1>11 DEF Reconcile, Unpacked, Command, Modes
  <2>2. faults' \in 0..MaxFaults /\ changes' \in 0..MaxChanges
    BY <1>2, <1>3, <1>11 DEF Reconcile, Unpacked, Command
  <2> QED BY <2>1, <2>2, StartType
<1>12. CASE Unreachable
  <2>1. queue # <<>> /\ Leave /\ event = None BY <1>12 DEF Unreachable, Publishing, Due
  <2>2. queue' \in Seq(Subjects) /\ reserved' \subseteq Assets BY <2>1, LeaveType
  <2>3. TypeOK' BY <1>1, <1>3, <1>12, <2>2 DEF TypeOK, Unreachable, Leave
  <2>4. PassOK' BY <1>12, <2>1 DEF PassOK, Running, Unreachable, Leave, Publishing, Due
  <2> QED BY <2>3, <2>4
<1>13. CASE Tick \/ SetClockBack
  <2>1. Redates BY <1>13, DatesChange
  <2>2. /\ cache' \in Records /\ copy' \in Records \cup {None}
        /\ Running => copy' \in Records
        /\ ~Running => copy' = None
        /\ relay' \in [Subjects -> Events \cup {None}]
    BY <2>1, RedatesType
  <2>3. elapsed' \in Ages
    <3>1. -1 \in Ages BY ProfilesAssumption DEF Ages
    <3> QED BY <1>13, <3>1, AgesType DEF TypeOK, Tick, SetClockBack
  <2>4. faults' \in 0..MaxFaults /\ changes' \in 0..MaxChanges
    BY <1>2, <1>3, <1>13 DEF Tick, SetClockBack
  <2>5. TypeOK' BY <1>1, <2>1, <2>2, <2>3, <2>4 DEF TypeOK, Redates
  <2>6. PassOK' BY <2>1, <2>2, NoneDiffers DEF PassOK, Running, Redates
  <2> QED BY <2>5, <2>6
<1>14. CASE Restore
  <2>1. relay' \in [Subjects -> Events \cup {None}] /\ uncertain' \subseteq Subjects
    BY <1>14 DEF Restore
  <2>2. TypeOK' BY <1>1, <1>3, <1>14, <2>1 DEF TypeOK, Restore, pass
  <2>3. PassOK' BY <1>14 DEF PassOK, Running, Restore, pass
  <2> QED BY <2>2, <2>3
<1>15. CASE PeopleSet
  <2>1. /\ settings' \in Settings /\ Change
        /\ UNCHANGED <<conn, relay, cache, uploads, pass, uncertain, faults>>
    BY <1>15, PeopleSetType
  <2>2. TypeOK' BY <1>1, <1>3, <2>1 DEF TypeOK, pass
  <2>3. PassOK' BY <2>1 DEF PassOK, Running, pass
  <2> QED BY <2>2, <2>3
<1>16. ASSUME NEW late \in BOOLEAN, Crash(late) PROVE TypeOK' /\ PassOK'
  <2>1. conn' = NoConn /\ Forget /\ Fault BY <1>16 DEF Crash
  <2>2. relay' \in [Subjects -> Events \cup {None}]
    <3>1. CASE event # None BY <1>16, <3>1, RelayWithType DEF Crash
    <3>2. CASE event = None BY <1>16, <3>2 DEF Crash, Belated, RelayWith, TypeOK
    <3> QED BY <3>1, <3>2
  <2>3. uncertain' \subseteq Subjects
    <3>1. conn.stored \/ late => event # None
      BY <1>16 DEF Crash, Belated, PassOK, NoConn
    <3>2. conn.stored \/ late => Turn \in Subjects BY <3>1, TurnType DEF TypeOK, PassOK
    <3>3. uncertain \subseteq Subjects BY DEF TypeOK
    <3> HIDE DEF Turn, Subjects
    <3> QED BY <1>16, <3>2, <3>3 DEF Crash
  <2>4. PassOK' BY <2>1, ForgetType
  <2>5. UNCHANGED <<settings, cache, uploads, changes>> BY <1>16 DEF Crash
  <2>6. TypeOK' BY <1>1, <1>3, <2>1, <2>2, <2>3, <2>5, ForgetType DEF TypeOK
  <2> QED BY <2>4, <2>6
<1>17. CASE UNCHANGED vars
  <2>1. TypeOK' BY <1>17 DEF TypeOK, vars, pass
  <2>2. PassOK' BY <1>17 DEF PassOK, Running, vars, pass
  <2> QED BY <2>1, <2>2
<1> QED
  BY <1>4, <1>5, <1>6, <1>7, <1>8, <1>9, <1>10, <1>11, <1>12, <1>13, <1>14, <1>15, <1>16, <1>17
  DEF Next, Pass, People, PeopleSet

LEMMA TypeInit == Init => TypeOK /\ PassOK
<1> SUFFICES ASSUME Init PROVE TypeOK /\ PassOK OBVIOUS
<1>1. settings \in Settings
  <2> DEFINE text == [i \in Names |-> CHOOSE t \in Texts : TRUE]
             lives == [i \in Identities |-> {}]
  <2>1. text \in [Names -> Texts]
    <3>1. (CHOOSE t \in Texts : TRUE) \in Texts BY ProfilesAssumption
    <3> QED BY <3>1
  <2>2. lives \in [Identities -> SUBSET Spaces] OBVIOUS
  <2>3. settings \in [configured : SUBSET Names, text : {text}, keyed : {Names},
                      avatars : {TRUE}, lives : {lives}, mapped : {{}}]
    BY DEF Init
  <2> HIDE DEF text, lives
  <2> QED BY <2>1, <2>2, <2>3 DEF Settings
<1>2. conn \in Connections BY NoConnType DEF Init
<1>3. cache \in Records /\ relay \in [Subjects -> Events \cup {None}] BY DEF Init, Records
<1>4. elapsed \in Ages /\ faults \in 0..MaxFaults /\ changes \in 0..MaxChanges
  BY ProfilesAssumption DEF Init, Ages
<1>5. TypeOK BY <1>1, <1>2, <1>3, <1>4 DEF TypeOK, Init
<1>6. PassOK BY DEF PassOK, Running, Init
<1> QED BY <1>5, <1>6

\* Every variable has its type, whatever fails and whoever changes what.
THEOREM ProfilesTypeCorrect == Spec => []TypeOK
<1>1. TypeOK /\ PassOK /\ [Next]_vars => (TypeOK /\ PassOK)' BY TypeStep
<1> QED BY <1>1, TypeInit, PTL DEF Spec

\* Neither the relay nor the network has to fail for a connection, but one of them does for
\* it to fail (nostr.rs 139-252).
THEOREM HandshakeSucceedsHolds == Spec => []HandshakeSucceeds
<1>1. Init => ConnInv
  <2>1. Sound(NoConn) BY FramesDiffer DEF Sound, NoConn
  <2> QED BY <2>1 DEF Init, ConnInv
<1>2. TypeOK /\ ConnInv /\ [Next]_vars => ConnInv' BY ConnSteps, ConnInvStep DEF TypeOK
<1>3. ConnInv => HandshakeSucceeds BY DEF ConnInv, Sound, HandshakeSucceeds
<1> QED BY <1>1, <1>2, <1>3, ProfilesTypeCorrect, PTL DEF Spec

----------------------------------------------------------------------------
(* What the record is worth.                                               *)

Shown(s) ==
  IF Latest(s) = None THEN relay[s] = None
  ELSE relay[s] # None /\ relay[s].content = Latest(s).content

\* The record shows the relay, but for what is stored just now; and a pass does not lose
\* what was on record.
RecordInv ==
  /\ \A s \in Subjects \ uncertain : ~(event # None /\ conn.stored /\ s = Turn) => Shown(s)
  /\ event # None /\ conn.stored => relay[Turn] # None /\ relay[Turn].content = event
  /\ Running => \A s \in Subjects : copy[s] = None => cache[s] = None


\* Where the relay, the record and the subject published now are as they were, the record
\* shows what it showed.
LEMMA RecordSame ==
  ASSUME RecordInv, UNCHANGED <<relay, cache, copy, mode, event, queue, uncertain>>,
         conn'.stored = conn.stored
  PROVE  RecordInv'
BY DEF RecordInv, Shown, Latest, Running, Turn

\* With nothing under way it does not matter whose turn it is.
LEMMA RecordIdle ==
  ASSUME RecordInv, event = None, event' = None,
         UNCHANGED <<relay, cache, copy, mode, uncertain>>
  PROVE  RecordInv'
BY DEF RecordInv, Shown, Latest, Running

\* Only acceptance stores.
LEMMA StoredKept ==
  ASSUME conn \in Connections,
         \/ Receive \/ Challenge \/ Authenticate \/ TimeOut \/ Misbehave
         \/ \E n \in 1..2 : DemandAuth(n)
  PROVE  conn'.stored = conn.stored
<1>0. DOMAIN conn = {"outcome", "sent", "auth", "rejected", "demands", "challenged", "authed",
                     "handled", "stored", "flight", "faulty"}
  BY DEF Connections
<1>1. CASE Receive
  <2>1. PICK f \in conn.flight : conn' = Received(f, [conn EXCEPT !.flight = @ \ {f}])
    BY <1>1 DEF Receive
  <2> DEFINE c == [conn EXCEPT !.flight = @ \ {f}]
  <2>2. c.stored = conn.stored /\ DOMAIN c = DOMAIN conn BY <1>0
  <2> HIDE DEF c
  <2>3. conn' = Received(f, c) BY <2>1 DEF c
  <2>4. conn' \in {[c EXCEPT !.auth = TRUE], [c EXCEPT !.sent = 2],
                   [c EXCEPT !.rejected = TRUE], [c EXCEPT !.outcome = "accepted"],
                   [c EXCEPT !.outcome = "failed"]}
    <3>1. CASE f.is = "challenge" BY <2>3, <3>1 DEF Received, Challenged
    <3>2. CASE f.is = "authOk" BY <2>3, <3>2 DEF Received, Confirmed
    <3>3. CASE f.is = "authRequired" BY <2>3, <3>3 DEF Received, Rejected
    <3>4. CASE f.is = "stored" BY <2>3, <3>4 DEF Received
    <3>5. CASE f.is \notin {"challenge", "authOk", "authRequired", "stored"}
      BY <2>3, <3>5 DEF Received
    <3> QED BY <3>1, <3>2, <3>3, <3>4, <3>5
  <2> QED BY <1>0, <2>2, <2>4
<1>2. CASE Challenge BY <1>0, <1>2 DEF Challenge
<1>3. CASE Authenticate BY <1>0, <1>3 DEF Authenticate
<1>4. CASE TimeOut BY <1>0, <1>4 DEF TimeOut
<1>5. CASE Misbehave BY <1>0, <1>5 DEF Misbehave
<1>6. CASE \E n \in 1..2 : DemandAuth(n) BY <1>0, <1>6 DEF DemandAuth, Respond
<1> QED BY <1>1, <1>2, <1>3, <1>4, <1>5, <1>6

LEMMA RecordStart ==
  ASSUME TypeOK, PassOK, RecordInv, NEW m \in Modes, NEW packed, Start(m, packed)
  PROVE  RecordInv'
<1>1. cache \in Records /\ ~Running /\ event = None /\ event' = None
  BY DEF TypeOK, PassOK, Start
<1>2. copy' = cache \/ copy' = Undated(cache) BY DEF Start
<1>3. SameContents(copy', cache) BY <1>1, <1>2, UndatedType DEF SameContents
<1>4. Running' BY NoneDiffers DEF Start, Running
<1>5. UNCHANGED <<relay, cache, uncertain>> BY DEF Start
<1>6. \A s \in Subjects \ uncertain : Shown(s)' 
  BY <1>1, <1>3, <1>4, <1>5 DEF RecordInv, Shown, Latest, SameContents
<1> QED BY <1>1, <1>3, <1>5, <1>6 DEF RecordInv, SameContents

LEMMA RecordRedated ==
  ASSUME TypeOK, PassOK, RecordInv, Redates
  PROVE  RecordInv'
<1>1. /\ SameContents(cache', cache) /\ SameContents(relay', relay)
      /\ Running => SameContents(copy', copy)
  BY RedatesType
<1>2. UNCHANGED <<conn, mode, queue, event, uncertain>> BY DEF Redates
<1>3. \A s \in Subjects : Shown(s) => Shown(s)'
  BY <1>1, <1>2 DEF Shown, Latest, Running, SameContents
<1>4. event # None => Turn \in Subjects BY TurnType DEF TypeOK, PassOK
<1>5. event # None /\ conn.stored =>
        relay[Turn]' # None /\ relay[Turn]'.content = event
  BY <1>1, <1>2, <1>4 DEF RecordInv, SameContents, Turn
<1>6. Running => \A s \in Subjects : copy'[s] = None => cache'[s] = None
  BY <1>1 DEF RecordInv, SameContents
<1> QED BY <1>2, <1>3, <1>5, <1>6 DEF RecordInv, Running, Turn

LEMMA RecordAccepted ==
  ASSUME TypeOK, PassOK, RecordInv, event # None, RelayAccepts,
         UNCHANGED <<cache, pass, uncertain>>
  PROVE  RecordInv'
<1>1. PICK n \in 1..2 : Accept(n, Stores(Turn)) /\ relay' = RelayWith(Stores(Turn))
  BY DEF RelayAccepts
<1>2. UNCHANGED <<cache, copy, mode, queue, event, uncertain>> /\ Turn' = Turn
  BY DEF pass, Turn
<1>3. conn'.stored = (conn.stored \/ Stores(Turn))
  <2>1. conn \in Connections BY DEF TypeOK
  <2> QED BY <1>1, <2>1 DEF Accept, Connections
<1>4. CASE Stores(Turn)
  <2>1. conn'.stored BY <1>3, <1>4
  <2>2. \A s \in Subjects \ {Turn} : relay'[s] = relay[s] BY <1>1, RelayWithType
  <2>3. relay'[Turn] # None /\ relay'[Turn].content = event BY <1>1, <1>4, RelayWithType
  <2>4. \A s \in Subjects \ {Turn} : Shown(s) => Shown(s)'
    BY <1>2, <2>2 DEF Shown, Latest, Running
  <2> QED BY <1>2, <2>1, <2>3, <2>4 DEF RecordInv, Running
<1>5. CASE ~Stores(Turn)
  <2>1. relay' = relay /\ conn'.stored = conn.stored
    <3>1. conn.stored \in BOOLEAN BY DEF TypeOK, Connections
    <3> QED BY <1>1, <1>3, <1>5, <3>1, RelayWithType
  <2> QED BY <1>2, <2>1, RecordSame
<1> QED BY <1>4, <1>5

LEMMA RecordSettled ==
  ASSUME TypeOK, PassOK, RecordInv, NEW late \in BOOLEAN, Settle(late)
  PROVE  RecordInv'
<1>1. /\ event # None /\ event' = None /\ Running /\ mode' = mode /\ cache' = cache
      /\ Turn \in Subjects
  BY TurnType DEF TypeOK, PassOK, Settle, Leave, Running
<1> DEFINE ok == conn.outcome = "accepted"
<1>2. /\ copy' = Noted(ok) /\ relay' = RelayWith(late)
      /\ late => ~ok /\ ~conn.stored
  BY DEF Settle, Belated
<1>3. /\ ok /\ conn.stored => uncertain' = uncertain \ {Turn}
      /\ (ok /\ ~conn.stored) \/ (~ok /\ (conn.stored \/ late)) =>
           uncertain' = uncertain \cup {Turn}
      /\ ~ok /\ ~conn.stored /\ ~late => uncertain' = uncertain
  BY DEF Settle
<1>4. \A s \in Subjects \ {Turn} : copy'[s] = copy[s] /\ relay'[s] = relay[s]
  BY <1>1, <1>2, NotedType, RelayWithType
<1>5. \A s \in Subjects \ {Turn} : Shown(s) => Shown(s)'
  BY <1>1, <1>4 DEF Shown, Latest, Running
<1>6. \A s \in Subjects \ {Turn} : s \notin uncertain' => Shown(s)'
  BY <1>3, <1>5 DEF RecordInv
<1>7. ASSUME NEW s \in Subjects, s = Turn, s \notin uncertain' PROVE Shown(s)'
  <2>1. CASE ok
    <3>1. conn.stored /\ relay' = relay BY <1>2, <1>3, <1>7, <2>1, <1>1, RelayWithType
    <3>2. relay'[s] # None /\ relay'[s].content = event
      BY <1>1, <1>7, <3>1 DEF RecordInv
    <3>3. copy'[s] # None /\ copy'[s].content = event BY <1>1, <1>2, <1>7, <2>1, NotedType
    <3> QED BY <1>1, <3>2, <3>3 DEF Shown, Latest, Running
  <2>2. CASE ~ok
    <3>1. ~conn.stored /\ ~late /\ s \notin uncertain BY <1>3, <1>7, <2>2
    <3>2. relay' = relay /\ copy' = copy BY <1>1, <1>2, <2>2, <3>1, NotedType, RelayWithType
    <3>3. Shown(s) BY <3>1 DEF RecordInv
    <3> QED BY <1>1, <3>2, <3>3 DEF Shown, Latest, Running
  <2> QED BY <2>1, <2>2
<1>8. \A s \in Subjects : copy'[s] = None => cache'[s] = None
  <2>1. \A s \in Subjects : copy'[s] = None => copy[s] = None
    BY <1>1, <1>2, NotedType
  <2> QED BY <1>1, <2>1 DEF RecordInv
<1> QED BY <1>1, <1>6, <1>7, <1>8 DEF RecordInv

LEMMA RecordCrashed ==
  ASSUME TypeOK, PassOK, RecordInv, NEW late \in BOOLEAN, Crash(late)
  PROVE  RecordInv'
<1>1. /\ Running /\ ~Running' /\ event' = None /\ cache' = cache
      /\ relay' = RelayWith(late)
  BY DEF Crash, Forget, Running
<1>2. late => event # None BY DEF Crash, Belated
<1>3. \A s \in Subjects \ uncertain' :
        s \notin uncertain /\ (copy[s] # None => cache[s] = copy[s])
  BY DEF Crash
<1>4. conn.stored \/ late => Turn \in uncertain' BY DEF Crash
<1>5. ASSUME NEW s \in Subjects \ uncertain' PROVE Shown(s)'
  <2>1. cache[s] = copy[s] BY <1>1, <1>3 DEF RecordInv
  <2>2. ~(conn.stored /\ s = Turn) /\ ~(late /\ s = Turn) BY <1>4
  <2>3. Shown(s) BY <1>3, <2>2 DEF RecordInv
  <2>4. relay'[s] = relay[s]
    <3>1. CASE event = None BY <1>1, <1>2, <3>1 DEF RelayWith
    <3>2. CASE event # None /\ s # Turn BY <1>1, <3>2, RelayWithType
    <3>3. CASE event # None /\ s = Turn BY <1>1, <2>2, <3>3, RelayWithType
    <3> QED BY <3>1, <3>2, <3>3
  <2> QED BY <1>1, <2>1, <2>3, <2>4 DEF Shown, Latest, Running
<1> QED BY <1>1, <1>5 DEF RecordInv

LEMMA RecordStep ==
  ASSUME TypeOK, PassOK, RecordInv, [Next]_vars
  PROVE  RecordInv'
<1>0. conn \in Connections BY DEF TypeOK
<1>1. CASE Skip \/ Unreachable
  BY <1>1, RecordIdle DEF Skip, Unreachable, Leave, Publishing, Due
<1>2. CASE Upload \/ PeopleSet
  <2>1. UNCHANGED <<conn, relay, cache, copy, mode, event, queue, uncertain>>
    BY <1>2, PeopleSetType DEF Upload, pass
  <2> QED BY <2>1, RecordSame
<1>3. CASE Begin
  <2>1. event = None /\ ~conn'.stored
    BY <1>3 DEF Begin, Publishing, Due, Connect, NoConn
  <2>2. UNCHANGED <<relay, cache, copy, mode, uncertain>> BY <1>3 DEF Begin
  <2> QED BY <2>1, <2>2 DEF RecordInv, Shown, Latest, Running
<1>4. ASSUME NEW late \in BOOLEAN, Settle(late) PROVE RecordInv' BY <1>4, RecordSettled
<1>5. CASE Save
  <2>1. Running /\ ~Running' /\ cache' = copy /\ event = None /\ event' = None
    BY <1>5 DEF Save, Forget, Running, PassOK
  <2>2. UNCHANGED <<relay, uncertain>> BY <1>5 DEF Save
  <2> QED BY <2>1, <2>2 DEF RecordInv, Shown, Latest
<1>6. CASE Exchange
  <2>1. CASE RelayAccepts BY <1>6, <2>1, RecordAccepted DEF Exchange
  <2>2. CASE UNCHANGED relay /\ conn'.stored = conn.stored
    BY <1>6, <2>2, RecordSame DEF Exchange, pass
  <2>3. CASE ~RelayAccepts BY <1>0, <1>6, <2>2, <2>3, StoredKept DEF Exchange
  <2> QED BY <2>1, <2>3
<1>7. CASE Fails
  <2>1. conn'.stored = conn.stored BY <1>0, <1>7, StoredKept DEF Fails
  <2> QED BY <1>7, <2>1, RecordSame DEF Fails, pass
<1>8. CASE Reconcile \/ Unpacked \/ Command
  BY <1>8, RecordStart DEF Reconcile, Unpacked, Command, Modes
<1>9. CASE Tick \/ SetClockBack BY <1>9, DatesChange, RecordRedated
<1>10. CASE Restore
  <2>1. uncertain' = Subjects /\ event' = None /\ UNCHANGED <<copy, cache, mode>>
    BY <1>10 DEF Restore, pass
  <2> QED BY <2>1 DEF RecordInv, Running
<1>11. ASSUME NEW late \in BOOLEAN, Crash(late) PROVE RecordInv' BY <1>11, RecordCrashed
<1>12. CASE UNCHANGED vars BY <1>12, RecordSame DEF vars, pass
<1> QED
  BY <1>1, <1>2, <1>3, <1>4, <1>5, <1>6, <1>7, <1>8, <1>9, <1>10, <1>11, <1>12
  DEF Next, Pass, People, PeopleSet

\* The record never promises what the relay does not show, but where an answer or a save was
\* lost or the relay lost its storage, and there until the next publication
\* (sync.rs 545-562, 651-667).
THEOREM RecordShownHolds == Spec => []RecordShown
<1>1. Init => RecordInv BY DEF Init, RecordInv, Shown, Latest, Running
<1>2. TypeOK /\ PassOK /\ RecordInv /\ [Next]_vars => RecordInv' BY RecordStep
<1>3. RecordInv => RecordShown BY DEF RecordInv, RecordShown, Shown
<1>4. TypeOK /\ PassOK /\ [Next]_vars => (TypeOK /\ PassOK)' BY TypeStep
<1> QED BY <1>1, <1>2, <1>3, <1>4, TypeInit, PTL DEF Spec

----------------------------------------------------------------------------
(* Old avatars.                                                            *)

\* i alone has x on record.
Owns(i, x) == HasAvatar(i, x) /\ \A j \in Names \ {i} : ~HasAvatar(j, x)

Awaits(i) == \E n \in 1..Len(queue) : queue[n] = Profile(i)

\* Who alone has an avatar on record when the pass begins has it reserved, publishes no
\* other, and so has no other on the pass's copy.
OwnerInv ==
  Running =>
    /\ \A k \in kept : HasAvatar(k[1], k[2])
    /\ \A i \in Names, x \in Assets : Owns(i, x) =>
         /\ copy[Profile(i)] # None /\ copy[Profile(i)].content.avatar \in {x, None}
         /\ view.avatars /\ Awaits(i) => <<i, x>> \in kept
         /\ event # None /\ Turn = Profile(i) => event.avatar \in {x, None}

\* What is on record stays so when only dates change.
LEMMA OwnersSame ==
  ASSUME SameContents(cache', cache)
  PROVE  \A i \in Names, x \in Assets : /\ HasAvatar(i, x)' <=> HasAvatar(i, x)
                                        /\ Owns(i, x)' <=> Owns(i, x)
<1>1. \A i \in Names : Profile(i) \in Subjects BY DEF Subjects
<1>2. \A i \in Names, x \in Assets : HasAvatar(i, x)' <=> HasAvatar(i, x)
  BY <1>1 DEF HasAvatar, SameContents
<1> QED BY <1>2 DEF Owns

\* Nothing new waits when a subject has been dealt with.
LEMMA AwaitsTail ==
  ASSUME queue \in Seq(Subjects), queue # <<>>, queue' = Tail(queue), NEW i \in Names, Awaits(i)'
  PROVE  Awaits(i)
<1>1. PICK n \in 1..Len(queue') : queue'[n] = Profile(i) BY DEF Awaits
<1>2. n + 1 \in 1..Len(queue) /\ queue[n + 1] = queue'[n]
  <2> HIDE DEF Subjects
  <2> QED BY <1>1
<1> QED BY <1>1, <1>2 DEF Awaits

LEMMA AwaitsTurn ==
  ASSUME queue \in Seq(Subjects), queue # <<>>, NEW i \in Names, Turn = Profile(i)
  PROVE  Awaits(i)
<1>1. 1 \in 1..Len(queue)
  <2> HIDE DEF Subjects
  <2> QED OBVIOUS
<1> QED BY <1>1 DEF Awaits, Turn

\* The owner of an avatar is published with it.
LEMMA OwnerContent ==
  ASSUME TypeOK, PassOK, OwnerInv, queue # <<>>, NEW i \in Names, NEW x \in Assets,
         Owns(i, x), Turn = Profile(i)
  PROVE  Content.avatar \in {x, None}
<1>1. queue \in Seq(Subjects) /\ Running BY DEF TypeOK, PassOK
<1>2. Turn[1] = "profile" /\ Who = i BY <1>1, TurnType DEF Profile, Who
<1>3. Content.avatar = Avatar BY <1>2, ContentType
<1>4. CASE ~view.avatars BY <1>3, <1>4 DEF Avatar
<1>5. CASE view.avatars
  <2>1. <<i, x>> \in kept BY <1>1, <1>5, AwaitsTurn DEF OwnerInv
  <2> DEFINE k == CHOOSE k \in kept : k[1] = Who
  <2>2. k \in kept /\ k[1] = i BY <1>2, <2>1
  <2>3. HasAvatar(i, k[2]) BY <1>1, <2>2 DEF OwnerInv
  <2>4. k[2] = x BY <2>3 DEF Owns, HasAvatar
  <2>5. Avatar = k[2] BY <1>2, <1>5, <2>1 DEF Avatar
  <2> QED BY <1>3, <2>4, <2>5
<1> QED BY <1>4, <1>5

LEMMA OwnerStart ==
  ASSUME TypeOK, PassOK, NEW m \in Modes, NEW packed \in BOOLEAN, Start(m, packed)
  PROVE  OwnerInv'
<1>1. cache \in Records /\ event' = None /\ cache' = cache /\ view' = settings
  BY DEF TypeOK, PassOK, Start, Running
<1>2. copy' = cache \/ copy' = Undated(cache) BY DEF Start
<1>3. SameContents(copy', cache) BY <1>1, <1>2, UndatedType DEF SameContents
<1>4. \A i \in Names : Profile(i) \in Subjects BY DEF Subjects
<1> DEFINE names == ProfileOrder(settings)
<1>5. names \in Seq(Names) BY NamesOrdered
<1>6. kept' = IF settings.avatars THEN Keeping(names, cache)[Len(names)] ELSE {}
  BY DEF Start, Keep
<1>7. ASSUME NEW k \in kept' PROVE HasAvatar(k[1], k[2])
  <2>1. Len(names) \in 0..Len(names) /\ k \in Keeping(names, cache)[Len(names)]
    BY <1>5, <1>6, <1>7
  <2> HIDE DEF names
  <2> QED BY <1>5, <2>1, KeptIsOnRecord DEF HasAvatar
<1>8. ASSUME NEW i \in Names, Awaits(i)'
      PROVE  \E n \in 1..Len(names) : names[n] = i
  <2> DEFINE P == AllSubjects(settings)[1]
             A == AllSubjects(settings)[2]
  <2>1. PICK n \in 1..Len(queue') : queue'[n] = Profile(i) BY <1>8 DEF Awaits
  <2>2. queue' = P \o A \/ queue' = A BY DEF Start
  <2>3. P \in Seq(Subjects) /\ A \in Seq(Subjects) BY AllSubjectsType
  <2> HIDE DEF P, A
  <2>4. (\E l \in 1..Len(P) : queue'[n] = P[l]) \/ (\E l \in 1..Len(A) : queue'[n] = A[l])
    <3> HIDE DEF Subjects
    <3>1. CASE queue' = A BY <2>1, <3>1
    <3>2. CASE queue' = P \o A
      <4>1. CASE n <= Len(P) BY <2>1, <2>3, <3>2, <4>1
      <4>2. CASE n > Len(P)
        <5>1. n - Len(P) \in 1..Len(A) /\ queue'[n] = A[n - Len(P)] BY <2>1, <2>3, <3>2, <4>2
        <5> QED BY <5>1
      <4> QED BY <2>1, <2>3, <3>2, <4>1, <4>2
    <3> QED BY <2>2, <3>1, <3>2
  <2>5. ASSUME NEW l \in 1..Len(A) PROVE A[l] # Profile(i)
    BY AllSubjectsType DEF A, Agent, Profile
  <2>6. PICK l \in 1..Len(P) : P[l] = Profile(i) BY <2>1, <2>4, <2>5
  <2>7. PICK j \in 1..Len(names) : P[l] = Profile(names[j]) BY AllSubjectsType DEF P
  <2> QED BY <2>6, <2>7 DEF Profile
<1>9. ASSUME NEW i \in Names, NEW x \in Assets, Owns(i, x)
      PROVE  /\ copy'[Profile(i)] # None /\ copy'[Profile(i)].content.avatar = x
             /\ settings.avatars /\ Awaits(i)' => <<i, x>> \in kept'
  <2>1. cache[Profile(i)] # None /\ cache[Profile(i)].content.avatar = x
    BY <1>9 DEF Owns, HasAvatar
  <2>2. copy'[Profile(i)] # None /\ copy'[Profile(i)].content.avatar = x
    BY <1>3, <1>4, <2>1 DEF SameContents
  <2>3. ASSUME settings.avatars, Awaits(i)' PROVE <<i, x>> \in kept'
    <3>1. PICK n \in 1..Len(names) : names[n] = i BY <1>8, <2>3
    <3>2. \A j \in Names \ {i} :
            ~(cache[Profile(j)] # None /\ cache[Profile(j)].content.avatar = x)
      BY <1>9 DEF Owns, HasAvatar
    <3> HIDE DEF names
    <3>3. <<i, x>> \in Keeping(names, cache)[Len(names)]
      BY <1>5, <2>1, <3>1, <3>2, SoleOwnerKeeps
    <3> QED BY <1>6, <2>3, <3>3
  <2> QED BY <2>2, <2>3
<1>10. \A i \in Names, x \in Assets : /\ HasAvatar(i, x)' <=> HasAvatar(i, x)
                                      /\ Owns(i, x)' <=> Owns(i, x)
  BY <1>1, OwnersSame DEF SameContents
<1>11. \A k \in kept' : HasAvatar(k[1], k[2])' BY <1>1, <1>7 DEF HasAvatar
<1> HIDE DEF names
<1> QED BY <1>1, <1>9, <1>10, <1>11 DEF OwnerInv

LEMMA OwnerStep ==
  ASSUME TypeOK, PassOK, OwnerInv, [Next]_vars
  PROVE  OwnerInv'
<1>0. /\ \A i \in Names : Profile(i) \in Subjects
      /\ queue \in Seq(Subjects) /\ kept \subseteq Names \X Assets
  BY DEF Subjects, TypeOK
<1> SUFFICES ASSUME Running' PROVE OwnerInv' BY DEF OwnerInv
<1>1. CASE Reconcile \/ Unpacked \/ Command
  BY <1>1, OwnerStart DEF Reconcile, Unpacked, Command, Modes
<1>2. CASE Tick \/ SetClockBack
  <2>1. Redates BY <1>2, DatesChange
  <2>2. Running /\ UNCHANGED <<view, kept, queue, event>> BY <2>1 DEF Redates, Running
  <2>3. SameContents(copy', copy) /\ SameContents(cache', cache) BY <2>1, <2>2, RedatesType
  <2>4. \A i \in Names, x \in Assets : /\ HasAvatar(i, x)' <=> HasAvatar(i, x)
                                       /\ Owns(i, x)' <=> Owns(i, x)
    BY <2>3, OwnersSame
  <2>5. \A k \in kept' : HasAvatar(k[1], k[2])' BY <1>0, <2>2, <2>4 DEF OwnerInv
  <2>6. ASSUME NEW i \in Names, NEW x \in Assets, Owns(i, x)
        PROVE  copy'[Profile(i)] # None /\ copy'[Profile(i)].content.avatar \in {x, None}
    BY <1>0, <2>2, <2>3, <2>6 DEF OwnerInv, SameContents
  <2> QED BY <2>2, <2>4, <2>5, <2>6 DEF OwnerInv, Awaits, Turn
<1>3. CASE Begin
  <2>1. queue # <<>> /\ Running BY <1>3 DEF Begin, Publishing, Due
  <2>2. UNCHANGED <<cache, copy, view, kept, queue>> /\ event' = Content BY <1>3 DEF Begin
  <2> QED BY <2>1, <2>2, OwnerContent DEF OwnerInv, Owns, HasAvatar, Awaits, Turn
<1>4. CASE Skip \/ Unreachable
  <2>1. /\ Running /\ queue # <<>> /\ event = None /\ Leave
        /\ UNCHANGED <<cache, copy, event>>
    BY <1>4 DEF Skip, Unreachable, Publishing, Due
  <2>2. UNCHANGED <<view, kept>> /\ queue' = Tail(queue) BY <2>1 DEF Leave
  <2>3. \A i \in Names : Awaits(i)' => Awaits(i) BY <1>0, <2>1, <2>2, AwaitsTail
  <2> QED BY <2>1, <2>2, <2>3 DEF OwnerInv, Owns, HasAvatar
<1>5. ASSUME NEW late \in BOOLEAN, Settle(late) PROVE OwnerInv'
  <2>1. /\ Running /\ queue # <<>> /\ event # None /\ event' = None /\ Leave
        /\ cache' = cache /\ copy' = Noted(conn.outcome = "accepted")
    BY <1>5 DEF Settle, PassOK
  <2>2. UNCHANGED <<view, kept>> /\ queue' = Tail(queue) BY <2>1 DEF Leave
  <2>3. \A i \in Names : Awaits(i)' => Awaits(i) BY <1>0, <2>1, <2>2, AwaitsTail
  <2>4. ASSUME NEW i \in Names, NEW x \in Assets, Owns(i, x)
        PROVE  copy'[Profile(i)] # None /\ copy'[Profile(i)].content.avatar \in {x, None}
    <3>1. copy'[Profile(i)] = copy[Profile(i)]
            \/ (Turn = Profile(i) /\ copy'[Profile(i)] # None
                  /\ copy'[Profile(i)].content = event)
      <4>1. CASE Turn # Profile(i) BY <1>0, <2>1, <4>1, NotedType
      <4>2. CASE Turn = Profile(i) /\ conn.outcome = "accepted" BY <2>1, <4>2, NotedType
      <4>3. CASE Turn = Profile(i) /\ conn.outcome # "accepted" BY <2>1, <4>3, NotedType
      <4> QED BY <4>1, <4>2, <4>3
    <3> QED BY <2>1, <2>4, <3>1 DEF OwnerInv
  <2> QED BY <2>1, <2>2, <2>3, <2>4 DEF OwnerInv, Owns, HasAvatar
<1>6. CASE Upload \/ Exchange \/ Fails \/ Restore \/ PeopleSet \/ UNCHANGED vars
  <2>1. UNCHANGED <<cache, copy, mode, view, kept, queue, event>>
    BY <1>6, PeopleSetType DEF Upload, Exchange, Fails, Restore, pass, vars
  <2> QED BY <2>1 DEF OwnerInv, Owns, HasAvatar, Awaits, Turn, Running
<1>7. CASE Save \/ \E late \in BOOLEAN : Crash(late)
  BY <1>7 DEF Save, Crash, Forget, Running
<1> QED
  BY <1>1, <1>2, <1>3, <1>4, <1>5, <1>6, <1>7 DEF Next, Pass, People, PeopleSet

\* The record changes only in its dates, or to the copy of a pass.
LEMMA CacheSteps ==
  ASSUME TypeOK, PassOK, [Next]_vars
  PROVE  SameContents(cache', cache) \/ (Running /\ cache' = copy)
<1>1. CASE Tick \/ SetClockBack BY <1>1, DatesChange, RedatesType
<1>2. CASE Save BY <1>2 DEF Save
<1>3. CASE cache' = cache BY <1>3 DEF SameContents
<1>4. CASE Skip \/ Upload \/ Begin \/ Exchange \/ \E late \in BOOLEAN : Settle(late)
  BY <1>3, <1>4 DEF Skip, Upload, Begin, Exchange, Settle
<1>5. CASE Reconcile \/ Unpacked \/ Command \/ Unreachable \/ Fails
  BY <1>3, <1>5 DEF Reconcile, Unpacked, Command, Start, Unreachable, Fails
<1>6. CASE Restore \/ PeopleSet \/ (\E late \in BOOLEAN : Crash(late)) \/ UNCHANGED vars
  BY <1>3, <1>6, PeopleSetType DEF Restore, Crash, vars
<1> QED BY <1>1, <1>2, <1>4, <1>5, <1>6 DEF Next, Pass, People, PeopleSet

\* Whoever alone has an avatar keeps it or, where avatars are disabled, has none: no newcomer
\* takes it, wherever his name sorts, and however passes, crashes and edits of the
\* configuration interleave (sync.rs 356-357).
THEOREM OldAvatarsKeptHolds == Spec => OldAvatarsKept
<1>1. Init => OwnerInv BY DEF Init, OwnerInv, Running
<1>2. TypeOK /\ PassOK /\ OwnerInv /\ [Next]_vars => OwnerInv' BY OwnerStep
<1>3. TypeOK /\ PassOK /\ [Next]_vars => (TypeOK /\ PassOK)' BY TypeStep
<1>4. ASSUME TypeOK, PassOK, OwnerInv, [Next]_vars, NEW i \in Names, NEW x \in Assets, Owns(i, x)
      PROVE  HasAvatar(i, x)' \/ cache'[Profile(i)].content.avatar = None
  <2>1. CASE SameContents(cache', cache) BY <1>4, <2>1, OwnersSame DEF Owns
  <2>2. CASE Running /\ cache' = copy
    <3>1. copy[Profile(i)] # None /\ copy[Profile(i)].content.avatar \in {x, None}
      BY <1>4, <2>2 DEF OwnerInv
    <3> QED BY <2>2, <3>1 DEF HasAvatar
  <2> QED BY <1>4, <2>1, <2>2, CacheSteps
<1>5. TypeOK /\ PassOK /\ OwnerInv /\ [Next]_vars =>
        [\A i \in Names, x \in Assets :
           HasAvatar(i, x) /\ (\A j \in Names \ {i} : ~HasAvatar(j, x)) =>
             HasAvatar(i, x)' \/ cache'[Profile(i)].content.avatar = None]_vars
  BY <1>4 DEF Owns
<1> QED BY <1>1, <1>2, <1>3, <1>5, TypeInit, PTL DEF Spec, OldAvatarsKept
=============================================================================
