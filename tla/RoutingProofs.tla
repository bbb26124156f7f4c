---------------------------- MODULE RoutingProofs ----------------------------
(***************************************************************************)
(* Proofs about routing and replies, for any number of panes, messages and *)
(* requests, whatever the clock, the messages' dates and the faults.       *)
(***************************************************************************)
EXTENDS Routing, FiniteSetTheorems, TLAPS

\* The pass works on its copy of the state.
Loaded == pc \notin {"idle", "topology"}

\* A poll has a time, and no query asks for a time before the first second.
PollInv ==
  /\ clock >= Lookback
  /\ pc \in {"poll", "events"} => now # None
  /\ now # None => now >= Lookback

\* Contexts are those of prompts, prompts are for mentions by an allowed author, and
\* their tokens the ones drawn; replies use tokens of prompts.
ReplyInv ==
  /\ contexts \subseteq prompted /\ diskContexts \subseteq prompted
  /\ \A p \in prompted : /\ p.token < nextToken
                         /\ Addressed(p.msg, Identity[p.bind]) /\ p.msg \notin Cancels
  /\ \A t \in Tokens : sent[t] > 0 => \E p \in prompted : p.token = t

\* A token in somebody's hands has been used no more often than there were faults.
SentInv ==
  /\ \A t \in Tokens : sent[t] <= 1 + faults
  /\ \A c \in contexts : sent[c.token] <= faults
  /\ ~Loaded => \A c \in diskContexts : sent[c.token] <= faults

\* With these processed ids and these contexts, persons can be answered.
Answerable(ids, cs) ==
  \A p \in prompted : p.msg \in ids /\ Author[p.msg] \notin Idents =>
    \E q \in prompted : q.msg = p.msg /\ (q \in cs \/ sent[q.token] > 0)

\* The file and the copy of a pass both can answer; a pass forgets no id.
AnswerInv ==
  /\ Loaded => diskProcessed \subseteq processed
  /\ Answerable(diskProcessed, diskContexts) /\ Answerable(processed, contexts)

PromptsFor(m) == {p \in prompted : p.msg = m}

\* What is not settled was prompted by faults only; a crash now would be a fault more.
RepeatInv ==
  /\ IsFiniteSet(prompted)
  /\ \A m \in Messages : Cardinality(PromptsFor(m)) <= 1 + faults
  /\ \A m \in Messages : Loaded /\ m \notin processed => Cardinality(PromptsFor(m)) <= faults
  /\ \A m \in Messages : ~Loaded /\ m \notin diskProcessed => Cardinality(PromptsFor(m)) <= faults

----------------------------------------------------------------------------
(* Types.                                                                  *)

\* What the assumption says of the bounds.
LEMMA Bounds ==
  /\ Lookback \in Nat /\ MaxClock \in Nat /\ MaxTokens \in Nat /\ MaxFaults \in Nat
  /\ MaxChanges \in Nat /\ Lookback <= MaxClock
  /\ Author \in [Messages -> Keys] /\ Mentions \in [Messages -> SUBSET Keys]
  /\ Identity \in [Bindings -> Idents]
  /\ None \notin Nat /\ None \notin Bindings /\ None \notin Requests
<1>1. Identity \in [Bindings -> Keys] BY RoutingAssumption
<1>2. Identity \in [Bindings -> Idents] BY <1>1 DEF Idents
<1> QED BY <1>2, RoutingAssumption

\* The end of a pass has the types of its beginning.
LEMMA EndTypes ==
  ASSUME EndPass
  PROVE  /\ pc' = "idle" /\ ready' \subseteq Bindings /\ contexts' \subseteq Contexts
         /\ processed' \subseteq Messages /\ seen' \in [Idents -> 0..MaxClock \cup {None}]
         /\ queue' = {} /\ req' = None /\ outcome' = None /\ now' = None
         /\ todo' \subseteq Bindings /\ bind' = None /\ events' \subseteq Messages /\ newest' = None
BY DEF EndPass

\* The pass keeps the types, from its beginning to its polls.
LEMMA ReplyTypes ==
  ASSUME TypeOK, PollInv,
         \/ BeginPass \/ LoadState \/ AnswerRequest \/ RemoveRequest \/ BeginPoll
         \/ \E r \in Requests : RefuseReply(r) \/ SendReply(r)
  PROVE  TypeOK' /\ PollInv'
<1> USE Bounds DEF world, disk, work, outbox, effects, answering, polling
<1>1. CASE BeginPass BY <1>1 DEF BeginPass, TypeOK, PollInv
<1>2. CASE LoadState BY <1>2 DEF LoadState, TypeOK, PollInv
<1>3. CASE AnswerRequest
  <2>1. result' \in [Requests -> {"ok", "error", None}] BY <1>3 DEF AnswerRequest, TypeOK
  <2> QED BY <1>3, <2>1 DEF AnswerRequest, TypeOK, PollInv
<1>4. CASE RemoveRequest
  <2>1. request' \in [Requests -> {"none", "queued", "taken"}] BY <1>4 DEF RemoveRequest, TypeOK
  <2>2. queue' \subseteq {r \in Requests : request'[r] = "queued"} BY <1>4 DEF RemoveRequest, TypeOK
  <2> QED BY <1>4, <2>1, <2>2 DEF RemoveRequest, TypeOK, PollInv
<1>5. CASE BeginPoll BY <1>5 DEF BeginPoll, TypeOK, PollInv
<1>6. ASSUME NEW r \in Requests, RefuseReply(r) PROVE TypeOK' /\ PollInv'
  BY <1>6 DEF RefuseReply, TypeOK, PollInv
<1>7. ASSUME NEW r \in Requests, SendReply(r) PROVE TypeOK' /\ PollInv'
  <2>1. asked[r] \in Tokens BY <1>7 DEF SendReply, TypeOK, Contexts
  <2>2. sent' \in [Tokens -> Nat] BY <1>7, <2>1 DEF SendReply, TypeOK
  <2>3. faults' \in 0..MaxFaults BY <1>7 DEF SendReply, Fault, TypeOK
  <2>4. contexts' \subseteq Contexts /\ outcome' \in {"ok", "error", None}
    BY <1>7 DEF SendReply, TypeOK
  <2> QED BY <1>7, <2>2, <2>3, <2>4 DEF SendReply, TypeOK, PollInv
<1> QED BY <1>1, <1>2, <1>3, <1>4, <1>5, <1>6, <1>7

\* So do its polls and its end.
LEMMA PollTypes ==
  ASSUME TypeOK, PollInv,
         \/ \E b \in Bindings : Fetch(b) \/ FetchFailed(b)
         \/ \E m \in Messages : SkipEvent(m) \/ SettleEvent(m) \/ Dispatch(m) \/ PromptFailed(m)
         \/ EndEvents \/ Save \/ Fail
  PROVE  TypeOK' /\ PollInv'
<1> USE Bounds DEF world, disk, work, outbox, effects, answering, polling
<1>1. ASSUME NEW b \in Bindings, Fetch(b) PROVE TypeOK' /\ PollInv'
  <2> DEFINE s == Since(Identity[b])
  <2>1. s \in 0..MaxClock
    <3>1. Identity[b] \in Idents OBVIOUS
    <3>2. now \in 0..MaxClock /\ now >= Lookback BY <1>1 DEF Fetch, TypeOK, PollInv
    <3> QED BY <3>1, <3>2 DEF Since, TypeOK
  <2>2. Query(s) \subseteq Messages BY DEF Query
  <2>3. \A m \in Query(s) : at[m] \in 0..MaxClock BY DEF Query, TypeOK
  <2>4. newest' \in 0..MaxClock BY <1>1, <2>1, <2>3 DEF Fetch, Latest
  <2>5. events' \subseteq Messages BY <1>1, <2>2 DEF Fetch
  <2> QED BY <1>1, <2>4, <2>5 DEF Fetch, TypeOK, PollInv
<1>2. ASSUME NEW b \in Bindings, FetchFailed(b) PROVE TypeOK' /\ PollInv'
  BY <1>2 DEF FetchFailed, Fault, TypeOK, PollInv
<1>3. ASSUME NEW m \in Messages, SkipEvent(m) PROVE TypeOK' /\ PollInv'
  BY <1>3 DEF SkipEvent, Taken, TypeOK, PollInv
<1>4. ASSUME NEW m \in Messages, SettleEvent(m) PROVE TypeOK' /\ PollInv'
  BY <1>4 DEF SettleEvent, Taken, TypeOK, PollInv
<1>5. ASSUME NEW m \in Messages, Routable(m)
      PROVE  Prompt(m) \in Contexts /\ nextToken + 1 \in 1..(MaxTokens + 1)
  <2>1. nextToken \in Tokens /\ bind \in Bindings
    BY <1>5 DEF Routable, Oldest, Tokens, TypeOK
  <2> QED BY <2>1 DEF Prompt, Contexts, Tokens
<1>6. ASSUME NEW m \in Messages, Dispatch(m) PROVE TypeOK' /\ PollInv'
  BY <1>5, <1>6 DEF Dispatch, Taken, TypeOK, PollInv
<1>7. ASSUME NEW m \in Messages, PromptFailed(m) PROVE TypeOK' /\ PollInv'
  BY <1>5, <1>7 DEF PromptFailed, Fault, Taken, TypeOK, PollInv
<1>8. CASE EndEvents
  <2>1. seen' \in [Idents -> 0..MaxClock \cup {None}] BY <1>8 DEF EndEvents, TypeOK
  <2> QED BY <1>8, <2>1 DEF EndEvents, TypeOK, PollInv
<1>9. CASE Save
  <2>1. diskProcessed' \subseteq Messages BY <1>9 DEF Save, Kept, TypeOK
  <2> QED BY <1>9, <2>1, EndTypes DEF Save, TypeOK, PollInv
<1>10. CASE Fail BY <1>10, EndTypes DEF Fail, Fault, TypeOK, PollInv
<1> QED BY <1>1, <1>2, <1>3, <1>4, <1>6, <1>7, <1>8, <1>9, <1>10

\* And people, agents and the clock.
LEMMA OutsideTypes ==
  ASSUME TypeOK, PollInv,
         \/ Tick \/ \E m \in Messages, skew \in 0..MaxSkew : Post(m, skew)
         \/ \E b \in Bindings : ChangeStatus(b)
         \/ \E r \in Requests : QueueReply(r) \/ ReadResult(r) \/ GiveUp(r)
  PROVE  TypeOK' /\ PollInv'
<1> USE Bounds DEF world, disk, work, outbox, effects, answering, polling, Outside
<1>0. MaxSkew \in Nat BY RoutingAssumption
<1>1. CASE Tick BY <1>1 DEF Tick, TypeOK, PollInv
<1>2. ASSUME NEW m \in Messages, NEW skew \in 0..MaxSkew, Post(m, skew) PROVE TypeOK' /\ PollInv'
  <2>1. clock - skew \in 0..MaxClock BY <1>0, <1>2 DEF Post, TypeOK
  <2>2. at' \in [Messages -> 0..MaxClock \cup {None}] BY <1>2, <2>1 DEF Post, TypeOK
  <2> QED BY <1>2, <2>2 DEF Post, TypeOK, PollInv
<1>3. ASSUME NEW b \in Bindings, ChangeStatus(b) PROVE TypeOK' /\ PollInv'
  BY <1>3 DEF ChangeStatus, TypeOK, PollInv
<1>4. ASSUME NEW r \in Requests, QueueReply(r) PROVE TypeOK' /\ PollInv'
  <2>1. asked' \in [Requests -> Tokens \cup {None}] BY <1>4 DEF QueueReply, TypeOK, Contexts
  <2>2. request' \in [Requests -> {"none", "queued", "taken"}]
    BY <1>4 DEF QueueReply, TypeOK
  <2>3. queue' \subseteq {q \in Requests : request'[q] = "queued"} BY <1>4 DEF QueueReply, TypeOK
  <2>4. client' \in [Requests -> {"none", "waiting", "answered", "gone"}]
    BY <1>4 DEF QueueReply, TypeOK
  <2> QED BY <1>4, <2>1, <2>2, <2>3, <2>4 DEF QueueReply, TypeOK, PollInv
<1>5. ASSUME NEW r \in Requests, ReadResult(r) PROVE TypeOK' /\ PollInv'
  <2>1. result' \in [Requests -> {"ok", "error", None}] BY <1>5 DEF ReadResult, TypeOK
  <2>2. client' \in [Requests -> {"none", "waiting", "answered", "gone"}]
    BY <1>5 DEF ReadResult, TypeOK
  <2> QED BY <1>5, <2>1, <2>2 DEF ReadResult, TypeOK, PollInv
<1>6. ASSUME NEW r \in Requests, GiveUp(r) PROVE TypeOK' /\ PollInv'
  BY <1>6 DEF GiveUp, TypeOK, PollInv
<1> QED BY <1>1, <1>2, <1>3, <1>4, <1>5, <1>6

\* One step: a pass', or one around it.
LEMMA TypeStep ==
  ASSUME TypeOK, PollInv, [Next]_vars
  PROVE  TypeOK' /\ PollInv'
<1>1. CASE UNCHANGED vars
  BY <1>1 DEF vars, world, disk, work, outbox, effects, answering, polling, TypeOK, PollInv
<1>2. CASE Next BY <1>2, ReplyTypes, PollTypes, OutsideTypes DEF Next, PassStep
<1> QED BY <1>1, <1>2

\* The daemon starts with nothing.
LEMMA TypeInit ==
  ASSUME Init
  PROVE  TypeOK /\ PollInv
BY Bounds DEF Init, TypeOK, PollInv, Tokens

\* The state has the types it should (service.rs 160-626), and no poll looks back past
\* the first second (438-443).
THEOREM RoutingTypeCorrect == Spec => [](TypeOK /\ PollInv)
<1>1. Init => TypeOK /\ PollInv BY TypeInit
<1>2. TypeOK /\ PollInv /\ [Next]_vars => (TypeOK /\ PollInv)' BY TypeStep
<1> QED BY <1>1, <1>2, PTL DEF Spec

----------------------------------------------------------------------------
(* What the steps do to prompts, replies and the two copies of the state.  *)

\* Steps that touch neither.
Idle == UNCHANGED <<diskContexts, diskProcessed, contexts, processed, sent, prompted, nextToken,
                    faults, Loaded>>

\* A fault that leaves all else.
Faulty == /\ faults' = faults + 1
          /\ UNCHANGED <<diskContexts, diskProcessed, contexts, processed, sent, prompted,
                         nextToken, Loaded>>

\* The remaining ones, in the terms of the invariants: a reply with the token of a context ...
Replied(t) ==
  /\ \E c \in contexts : c.token = t
  /\ sent' = [sent EXCEPT ![t] = sent[t] + 1]
  /\ \/ contexts' = {c \in contexts : c.token # t} /\ faults' = faults
     \/ contexts' = contexts /\ faults' = faults + 1
  /\ Loaded /\ UNCHANGED <<diskContexts, diskProcessed, processed, prompted, nextToken, Loaded>>

\* ... a message settled ...
Settled(m) ==
  /\ m \notin processed /\ processed' = processed \cup {m}
  /\ Author[m] \in Idents \/ ~AuthorAllowed(Author[m]) \/ m \in Cancels
  /\ Loaded /\ UNCHANGED <<diskContexts, diskProcessed, contexts, sent, prompted, nextToken,
                           faults, Loaded>>

\* ... or prompted, with success or with a fault ...
Prompted(p) ==
  /\ p.token = nextToken /\ nextToken' = nextToken + 1
  /\ p \in Contexts /\ p.msg \notin processed /\ p.msg \notin Cancels
  /\ Addressed(p.msg, Identity[p.bind])
  /\ \/ /\ contexts' = contexts \cup {p} /\ prompted' = prompted \cup {p}
        /\ processed' = processed \cup {p.msg} /\ faults' = faults
     \/ /\ prompted' \in {prompted, prompted \cup {p}} /\ faults' = faults + 1
        /\ UNCHANGED <<contexts, processed>>
  /\ Loaded /\ UNCHANGED <<diskContexts, diskProcessed, sent, Loaded>>

\* ... and the state loaded, saved, or lost.
Moved ==
  /\ \/ /\ ~Loaded /\ Loaded' /\ contexts' = diskContexts /\ processed' = diskProcessed
        /\ faults' = faults /\ UNCHANGED <<diskContexts, diskProcessed>>
     \/ /\ Loaded /\ ~Loaded' /\ contexts' = {} /\ processed' = {} /\ faults' = faults
        /\ diskContexts' = contexts /\ diskProcessed' \in Kept(processed) \cup {processed}
     \/ /\ ~Loaded' /\ contexts' = {} /\ processed' = {} /\ faults' = faults + 1
        /\ UNCHANGED <<diskContexts, diskProcessed>>
  /\ UNCHANGED <<sent, prompted, nextToken>>

Effect ==
  \/ Idle \/ Faulty \/ Moved
  \/ \E t \in Tokens : Replied(t)
  \/ \E m \in Messages : Settled(m)
  \/ \E p \in Contexts : Prompted(p)

\* Every step of the daemon and around it is one of these.
LEMMA EffectStep ==
  ASSUME TypeOK, [Next]_vars
  PROVE  Effect
<1> USE DEF world, disk, work, outbox, effects, answering, polling, Loaded
<1>1. CASE UNCHANGED vars BY <1>1 DEF vars, Idle, Effect
<1>2. CASE BeginPass \/ AnswerRequest \/ RemoveRequest \/ BeginPoll \/ EndEvents
  BY <1>2 DEF BeginPass, AnswerRequest, RemoveRequest, BeginPoll, EndEvents, Idle, Effect
<1>3. CASE LoadState BY <1>3 DEF LoadState, Moved, Effect
<1>4. CASE Save BY <1>4 DEF Save, EndPass, Moved, Effect
<1>5. CASE Fail BY <1>5 DEF Fail, Fault, EndPass, Moved, Effect
<1>6. ASSUME NEW r \in Requests, RefuseReply(r) PROVE Effect BY <1>6 DEF RefuseReply, Idle, Effect
<1>7. ASSUME NEW r \in Requests, SendReply(r) PROVE Effect
  <2>1. asked[r] \in Tokens BY <1>7 DEF SendReply, TypeOK, Contexts
  <2>2. Replied(asked[r]) BY <1>7 DEF SendReply, Fault, Replied
  <2> QED BY <2>1, <2>2 DEF Effect
<1>8. ASSUME NEW b \in Bindings, Fetch(b) PROVE Effect BY <1>8 DEF Fetch, Idle, Effect
<1>9. ASSUME NEW b \in Bindings, FetchFailed(b) PROVE Effect
  BY <1>9 DEF FetchFailed, Fault, Faulty, Effect
<1>10. ASSUME NEW m \in Messages, SkipEvent(m) PROVE Effect
  BY <1>10 DEF SkipEvent, Oldest, Taken, Idle, Effect
<1>11. ASSUME NEW m \in Messages, SettleEvent(m) PROVE Effect
  <2>1. Me \in Idents BY <1>11, Bounds DEF SettleEvent, Oldest, TypeOK, Me
  <2>2. Settled(m) BY <1>11, <2>1 DEF SettleEvent, Oldest, Taken, Settled
  <2> QED BY <2>2 DEF Effect
<1>12. ASSUME NEW m \in Messages, Routable(m)
       PROVE  /\ Prompt(m) \in Contexts /\ Prompt(m).token = nextToken /\ Prompt(m).msg = m
              /\ m \notin processed /\ m \notin Cancels /\ Addressed(m, Identity[Prompt(m).bind])
              /\ Loaded /\ pc = "events"
  <2>1. nextToken \in Tokens /\ bind \in Bindings
    BY <1>12, Bounds DEF Routable, Oldest, Tokens, TypeOK
  <2> QED BY <1>12, <2>1 DEF Routable, Oldest, Me, Prompt, Contexts
<1>13. ASSUME NEW m \in Messages, Dispatch(m) PROVE Effect
  <2>1. Routable(m) BY <1>13 DEF Dispatch
  <2>2. Prompted(Prompt(m)) BY <1>12, <1>13, <2>1 DEF Dispatch, Taken, Prompted
  <2> QED BY <1>12, <2>1, <2>2 DEF Effect
<1>14. ASSUME NEW m \in Messages, PromptFailed(m) PROVE Effect
  <2>1. Routable(m) BY <1>14 DEF PromptFailed
  <2>2. Prompted(Prompt(m)) BY <1>12, <1>14, <2>1 DEF PromptFailed, Fault, Taken, Prompted
  <2> QED BY <1>12, <2>1, <2>2 DEF Effect
<1>15. CASE Tick BY <1>15 DEF Tick, Outside, Idle, Effect
<1>16. ASSUME NEW m \in Messages, NEW skew \in 0..MaxSkew, Post(m, skew) PROVE Effect
  BY <1>16 DEF Post, Outside, Idle, Effect
<1>17. ASSUME NEW b \in Bindings, ChangeStatus(b) PROVE Effect
  BY <1>17 DEF ChangeStatus, Outside, Idle, Effect
<1>18. ASSUME NEW r \in Requests, QueueReply(r) \/ ReadResult(r) \/ GiveUp(r) PROVE Effect
  BY <1>18 DEF QueueReply, ReadResult, GiveUp, Outside, Idle, Effect
<1> QED BY <1>1, <1>2, <1>3, <1>4, <1>5, <1>6, <1>7, <1>8, <1>9, <1>10, <1>11, <1>13, <1>14, <1>15,
           <1>16, <1>17, <1>18 DEF Next, PassStep

----------------------------------------------------------------------------
(* Replies.                                                                *)

\* Every step keeps contexts, prompts and replies together.
LEMMA ReplyStep ==
  ASSUME TypeOK, ReplyInv, Effect
  PROVE  ReplyInv'
<1>1. nextToken \in Nat /\ faults \in Nat /\ sent \in [Tokens -> Nat] BY DEF TypeOK
<1>2. CASE Idle \/ Faulty \/ Moved
  BY <1>2 DEF Idle, Faulty, Moved, ReplyInv, Addressed, AuthorAllowed
<1>3. ASSUME NEW t \in Tokens, Replied(t) PROVE ReplyInv'
  <2>1. \E p \in prompted : p.token = t BY <1>3 DEF Replied, ReplyInv
  <2>2. \A u \in Tokens : sent'[u] > 0 => u = t \/ sent[u] > 0 BY <1>1, <1>3 DEF Replied
  <2>3. contexts' \subseteq contexts BY <1>3 DEF Replied
  <2> QED BY <1>3, <2>1, <2>2, <2>3 DEF Replied, ReplyInv, Addressed, AuthorAllowed
<1>4. ASSUME NEW m \in Messages, Settled(m) PROVE ReplyInv'
  BY <1>4 DEF Settled, ReplyInv, Addressed, AuthorAllowed
<1>5. ASSUME NEW p \in Contexts, Prompted(p) PROVE ReplyInv'
  <2>1. prompted \subseteq prompted' /\ prompted' \subseteq prompted \cup {p}
    BY <1>5 DEF Prompted
  <2>2. contexts' \subseteq prompted' BY <1>5, <2>1 DEF Prompted, ReplyInv
  <2>3. \A q \in prompted' : /\ q.token < nextToken'
                             /\ Addressed(q.msg, Identity[q.bind]) /\ q.msg \notin Cancels
    <3>1. prompted \subseteq Contexts BY DEF TypeOK
    <3>2. \A q \in Contexts : q.token \in Nat BY Bounds DEF Contexts, Tokens
    <3> QED BY <1>1, <1>5, <2>1, <3>1, <3>2 DEF Prompted, ReplyInv
  <2>4. UNCHANGED <<diskContexts, sent>> BY <1>5 DEF Prompted
  <2> QED BY <2>1, <2>2, <2>3, <2>4 DEF ReplyInv, Addressed, AuthorAllowed
<1> QED BY <1>2, <1>3, <1>4, <1>5 DEF Effect

\* A step with no fault publishes with a token in hand once; a crash that brings a used
\* token back is a fault.
LEMMA SentStep ==
  ASSUME TypeOK, ReplyInv, SentInv, Effect
  PROVE  SentInv'
<1>1. /\ faults \in Nat /\ sent \in [Tokens -> Nat] /\ nextToken \in Nat
      /\ contexts \subseteq Contexts /\ diskContexts \subseteq Contexts
      /\ \A c \in Contexts : c.token \in Tokens /\ c.token \in Nat
  BY Bounds DEF TypeOK, Contexts, Tokens
<1>2. CASE Idle BY <1>2 DEF Idle, SentInv
<1>3. CASE Faulty BY <1>1, <1>3 DEF Faulty, SentInv
<1>4. CASE Moved BY <1>1, <1>4 DEF Moved, SentInv
<1>5. ASSUME NEW t \in Tokens, Replied(t) PROVE SentInv'
  <2>1. sent[t] <= faults BY <1>5 DEF Replied, SentInv
  <2>2. \A u \in Tokens : sent'[u] = IF u = t THEN sent[t] + 1 ELSE sent[u]
    BY <1>1, <1>5 DEF Replied
  <2>3. \A u \in Tokens : sent'[u] <= 1 + faults' BY <1>1, <1>5, <2>1, <2>2 DEF Replied, SentInv
  <2>4. \A c \in contexts' : sent'[c.token] <= faults'
    BY <1>1, <1>5, <2>1, <2>2 DEF Replied, SentInv
  <2> QED BY <1>5, <2>3, <2>4 DEF Replied, SentInv
<1>6. ASSUME NEW m \in Messages, Settled(m) PROVE SentInv' BY <1>6 DEF Settled, SentInv
<1>7. ASSUME NEW p \in Contexts, Prompted(p) PROVE SentInv'
  <2>1. sent[p.token] = 0 BY <1>1, <1>7 DEF Prompted, ReplyInv
  <2> QED BY <1>1, <1>7, <2>1 DEF Prompted, SentInv
<1> QED BY <1>2, <1>3, <1>4, <1>5, <1>6, <1>7 DEF Effect

\* Both parts hold at the start.
LEMMA ReplyInit ==
  ASSUME Init
  PROVE  ReplyInv /\ SentInv
BY DEF Init, ReplyInv, SentInv

\* Only an allowed author who mentions the pane's identity makes it publish a reply
\* (service.rs 162-185, 457-483).
THEOREM RepliesAnswerMentionsHolds == Spec => []RepliesAnswerMentions
<1>1. Init => ReplyInv BY ReplyInit
<1>2. TypeOK /\ ReplyInv /\ [Next]_vars => ReplyInv' BY EffectStep, ReplyStep
<1>3. ReplyInv => RepliesAnswerMentions
  BY RoutingAssumption DEF ReplyInv, RepliesAnswerMentions, Addressed, AuthorAllowed
<1> QED BY <1>1, <1>2, <1>3, RoutingTypeCorrect, PTL DEF Spec

\* However many requests race for a token, more than one reply with it takes a fault
\* (service.rs 361-398).
THEOREM SentOncePerFaultHolds == Spec => []SentOncePerFault
<1>1. Init => ReplyInv /\ SentInv BY ReplyInit
<1>2. TypeOK /\ ReplyInv /\ SentInv /\ [Next]_vars => ReplyInv' /\ SentInv'
  BY EffectStep, ReplyStep, SentStep
<1>3. SentInv => SentOncePerFault BY DEF SentInv, SentOncePerFault
<1> QED BY <1>1, <1>2, <1>3, RoutingTypeCorrect, PTL DEF Spec

----------------------------------------------------------------------------
(* The state file can answer.                                              *)

\* More contexts for as many ids, with a reply for each context gone, are good too.
LEMMA AnswerableMonotone ==
  ASSUME NEW ids, NEW cs, NEW less \in SUBSET ids, Answerable(ids, cs)
  PROVE  Answerable(less, cs)
BY DEF Answerable

\* Every step keeps persons answerable.
LEMMA AnswerStep ==
  ASSUME TypeOK, ReplyInv, AnswerInv, Effect
  PROVE  AnswerInv'
<1>1. /\ sent \in [Tokens -> Nat] /\ prompted \subseteq Contexts
      /\ \A c \in Contexts : c.token \in Tokens
  BY DEF TypeOK, Contexts
<1>2. CASE Idle BY <1>2 DEF Idle, AnswerInv, Answerable
<1>3. CASE Faulty BY <1>3 DEF Faulty, AnswerInv, Answerable
<1>4. CASE Moved
  <2>1. Answerable(diskProcessed', contexts) \/ diskProcessed' = diskProcessed
    <3>1. \A ids \in Kept(processed) \cup {processed} : ids \subseteq processed BY DEF Kept
    <3> QED BY <1>4, <3>1, AnswerableMonotone DEF Moved, AnswerInv
  <2> QED BY <1>4, <2>1 DEF Moved, AnswerInv, Answerable
<1>5. ASSUME NEW t \in Tokens, Replied(t) PROVE AnswerInv'
  <2>1. \A u \in Tokens : sent[u] > 0 \/ u = t => sent'[u] > 0 BY <1>1, <1>5 DEF Replied
  <2>2. \A q \in prompted : q \in contexts => q \in contexts' \/ sent'[q.token] > 0
    BY <1>1, <1>5, <2>1 DEF Replied
  <2>3. UNCHANGED <<prompted, diskProcessed, diskContexts, processed, Loaded>>
    BY <1>5 DEF Replied
  <2> QED BY <1>1, <2>1, <2>2, <2>3 DEF AnswerInv, Answerable
<1>6. ASSUME NEW m \in Messages, Settled(m) PROVE AnswerInv'
  <2>1. \A p \in prompted : p.msg = m => Author[m] \in Idents
    BY <1>6 DEF Settled, ReplyInv, Addressed
  <2> QED BY <1>6, <2>1 DEF Settled, AnswerInv, Answerable
<1>7. ASSUME NEW p \in Contexts, Prompted(p) PROVE AnswerInv'
  <2>1. p.msg \notin diskProcessed BY <1>7 DEF Prompted, AnswerInv
  <2>2. UNCHANGED <<diskProcessed, diskContexts, sent, Loaded>> BY <1>7 DEF Prompted
  <2>3. prompted \subseteq prompted' /\ prompted' \subseteq prompted \cup {p}
    BY <1>7 DEF Prompted
  <2>4. Answerable(diskProcessed, diskContexts)' BY <2>1, <2>2, <2>3 DEF AnswerInv, Answerable
  <2>5. Answerable(processed, contexts)'
    <3>1. CASE contexts' = contexts /\ processed' = processed
      BY <1>7, <2>2, <2>3, <3>1 DEF Prompted, AnswerInv, Answerable
    <3>2. CASE /\ contexts' = contexts \cup {p} /\ prompted' = prompted \cup {p}
               /\ processed' = processed \cup {p.msg}
      BY <2>2, <3>2 DEF AnswerInv, Answerable
    <3> QED BY <1>7, <3>1, <3>2 DEF Prompted
  <2>6. Loaded' => diskProcessed' \subseteq processed' BY <1>7 DEF Prompted, AnswerInv
  <2> QED BY <2>4, <2>5, <2>6 DEF AnswerInv
<1> QED BY <1>2, <1>3, <1>4, <1>5, <1>6, <1>7 DEF Effect

\* What state.json calls processed can be answered, crashes and lost calls or not
\* (service.rs 270-303, 391-398, 484-488).
THEOREM ProcessedAnswerableHolds == Spec => []ProcessedAnswerable
<1>1. Init => ReplyInv /\ AnswerInv BY ReplyInit DEF Init, AnswerInv, Answerable, Loaded
<1>2. TypeOK /\ ReplyInv /\ AnswerInv /\ [Next]_vars => ReplyInv' /\ AnswerInv'
  BY EffectStep, ReplyStep, AnswerStep
<1>3. AnswerInv => ProcessedAnswerable BY DEF AnswerInv, Answerable, ProcessedAnswerable
<1> QED BY <1>1, <1>2, <1>3, RoutingTypeCorrect, PTL DEF Spec

----------------------------------------------------------------------------
(* Repeated prompts.                                                       *)

\* A prompt counts for its message only, and as one.
LEMMA OneMore ==
  ASSUME IsFiniteSet(prompted), NEW p, prompted' = prompted \cup {p}, NEW m \in Messages
  PROVE  /\ IsFiniteSet(prompted')
         /\ Cardinality(PromptsFor(m)) \in Nat
         /\ Cardinality(PromptsFor(m)') \in Nat
         /\ Cardinality(PromptsFor(m)') <= Cardinality(PromptsFor(m)) + 1
         /\ m # p.msg => Cardinality(PromptsFor(m)') = Cardinality(PromptsFor(m))
<1>1. IsFiniteSet(prompted') BY FS_AddElement
<1>2. IsFiniteSet(PromptsFor(m)) BY FS_Subset DEF PromptsFor
<1>3. Cardinality(PromptsFor(m)) \in Nat BY <1>2, FS_CardinalityType
<1>4. CASE m = p.msg
  <2>1. PromptsFor(m)' = PromptsFor(m) \cup {p} BY <1>4 DEF PromptsFor
  <2>2. /\ IsFiniteSet(PromptsFor(m) \cup {p})
        /\ Cardinality(PromptsFor(m) \cup {p})
           = IF p \in PromptsFor(m) THEN Cardinality(PromptsFor(m)) ELSE Cardinality(PromptsFor(m)) + 1
    BY <1>2, FS_AddElement
  <2>3. Cardinality(PromptsFor(m) \cup {p}) \in Nat BY <2>2, FS_CardinalityType
  <2> QED BY <1>1, <1>3, <1>4, <2>1, <2>2, <2>3
<1>5. CASE m # p.msg
  <2>1. PromptsFor(m)' = PromptsFor(m) BY <1>5 DEF PromptsFor
  <2> QED BY <1>1, <1>3, <1>5, <2>1
<1> QED BY <1>4, <1>5

\* When as many ids are kept as there are messages, the file keeps them all.
LEMMA AllKept ==
  ASSUME IsFiniteSet(Messages), Cardinality(Messages) <= Cap, NEW ids \in SUBSET Messages
  PROVE  Kept(ids) = {ids}
<1>1. Cardinality(ids) <= Cardinality(Messages) BY FS_Subset
<1>2. Cardinality(ids) \in Nat /\ Cardinality(Messages) \in Nat /\ Cap \in Nat
  BY FS_Subset, FS_CardinalityType, RoutingAssumption
<1>3. Cardinality(ids) <= Cap BY <1>1, <1>2
<1> QED BY <1>3 DEF Kept

\* A step repeats a prompt only with a fault, or after one.
LEMMA RepeatStep ==
  ASSUME IsFiniteSet(Messages), Cardinality(Messages) <= Cap, TypeOK, RepeatInv, Effect
  PROVE  RepeatInv'
<1>1. /\ faults \in Nat /\ IsFiniteSet(prompted) /\ prompted \subseteq Contexts
      /\ processed \subseteq Messages
  BY DEF TypeOK, RepeatInv
<1>2. \A m \in Messages : Cardinality(PromptsFor(m)) \in Nat
  BY <1>1, FS_Subset, FS_CardinalityType DEF PromptsFor
<1>3. prompted' = prompted => \A m : PromptsFor(m)' = PromptsFor(m) BY DEF PromptsFor
<1>4. CASE Idle BY <1>3, <1>4 DEF Idle, RepeatInv
<1>5. CASE Faulty BY <1>1, <1>2, <1>3, <1>5 DEF Faulty, RepeatInv
<1>6. CASE Moved
  <2>1. prompted' = prompted /\ (Loaded' => ~Loaded) BY <1>6 DEF Moved
  <2>2. CASE faults' = faults + 1
    BY <1>1, <1>2, <1>3, <1>6, <2>1, <2>2 DEF Moved, RepeatInv
  <2>3. CASE faults' = faults /\ Loaded
    <3>1. diskProcessed' = processed BY <1>1, <1>6, <2>3, AllKept DEF Moved
    <3> QED BY <1>3, <1>6, <2>1, <2>3, <3>1 DEF Moved, RepeatInv
  <2>4. CASE faults' = faults /\ ~Loaded
    BY <1>1, <1>3, <1>6, <2>1, <2>4 DEF Moved, RepeatInv
  <2> QED BY <1>6, <2>2, <2>3, <2>4 DEF Moved
<1>7. ASSUME NEW t \in Tokens, Replied(t) PROVE RepeatInv'
  BY <1>1, <1>2, <1>3, <1>7 DEF Replied, RepeatInv
<1>8. ASSUME NEW m \in Messages, Settled(m) PROVE RepeatInv' BY <1>3, <1>8 DEF Settled, RepeatInv
<1>9. ASSUME NEW p \in Contexts, Prompted(p) PROVE RepeatInv'
  <2>1. p.msg \in Messages BY DEF Contexts
  <2>2. CASE prompted' = prompted
    BY <1>1, <1>2, <1>3, <1>9, <2>2 DEF Prompted, RepeatInv
  <2>3. CASE prompted' = prompted \cup {p}
    <3>1. \A m \in Messages : /\ IsFiniteSet(prompted')
                              /\ Cardinality(PromptsFor(m)') \in Nat
                              /\ Cardinality(PromptsFor(m)') <= Cardinality(PromptsFor(m)) + 1
                              /\ m # p.msg => Cardinality(PromptsFor(m)') = Cardinality(PromptsFor(m))
      BY <1>1, <2>3, OneMore
    <3>2. Loaded /\ Loaded' /\ p.msg \notin processed BY <1>9 DEF Prompted
    <3>3. Cardinality(PromptsFor(p.msg)) <= faults BY <2>1, <3>2 DEF RepeatInv
    <3>4. CASE faults' = faults /\ processed' = processed \cup {p.msg}
      BY <1>1, <1>2, <2>1, <3>1, <3>2, <3>3, <3>4 DEF RepeatInv
    <3>5. CASE faults' = faults + 1 /\ processed' = processed
      BY <1>1, <1>2, <2>1, <3>1, <3>2, <3>3, <3>5 DEF RepeatInv
    <3> QED BY <1>9, <3>4, <3>5 DEF Prompted
  <2> QED BY <1>9, <2>2, <2>3 DEF Prompted
<1> QED BY <1>4, <1>5, <1>6, <1>7, <1>8, <1>9 DEF Effect

\* A message reaches a second prompt only after a fault, and each fault costs one, while
\* no more messages come than ids are kept (service.rs 403, 454, 478-486).
THEOREM RepeatsNeedFaultsHolds ==
  ASSUME IsFiniteSet(Messages), Cardinality(Messages) <= Cap
  PROVE  Spec => []RepeatsNeedFaults
<1>1. Init => RepeatInv
  <2> SUFFICES ASSUME Init PROVE RepeatInv
    OBVIOUS
  <2>1. faults = 0 /\ prompted = {} BY DEF Init
  <2>2. \A m : PromptsFor(m) = {} BY <2>1 DEF PromptsFor
  <2> QED BY <2>1, <2>2, FS_EmptySet DEF RepeatInv
<1>2. TypeOK /\ RepeatInv /\ [Next]_vars => RepeatInv' BY EffectStep, RepeatStep
<1>3. RepeatInv => RepeatsNeedFaults BY DEF RepeatInv, PromptsFor, RepeatsNeedFaults
<1> QED BY <1>1, <1>2, <1>3, RoutingTypeCorrect, PTL DEF Spec
=============================================================================
