------------------------------ MODULE Routing ------------------------------
(***************************************************************************)
(* Mention routing and replies (src/src/service.rs): in each pass the      *)
(* daemon answers the queued reply requests, polls the channel for every   *)
(* agent pane and prompts the agents that are mentioned; then it saves the *)
(* state file, once.  What the pass did to the panes and the relay before  *)
(* a crash is therefore unknown to the next pass.                          *)
(*                                                                         *)
(* One channel.  Messages are opaque, time is in seconds, tokens are       *)
(* numbered in the order the daemon draws them.                            *)
(***************************************************************************)
EXTENDS Naturals, FiniteSets

CONSTANTS
  Messages,
  Author,       \* [Messages -> Keys]
  Mentions,     \* [Messages -> SUBSET Keys], the p tags
  Cancels,      \* the messages that say !cancel
  Bindings,     \* agent panes
  Identity,     \* [Bindings -> Keys], the public key of the pane's identity
  Keys,
  RespondTo, Owner, Allowlist,  \* bridge.respond_to, human_pubkey, respond_to_allowlist
  Requests,     \* ids of reply requests, one per run of `buzzr reply`
  None,
  Cap,          \* how many processed ids are kept (5000)
  Limit,        \* how many messages one query returns (200)
  Lookback,     \* how far the first query of a cursor looks back (2 s)
  MaxClock, MaxSkew,           \* bounds: seconds, and how late a message may be dated
  MaxTokens, MaxFaults, MaxChanges

ASSUME RoutingAssumption ==
  /\ Author \in [Messages -> Keys] /\ Mentions \in [Messages -> SUBSET Keys]
  /\ Cancels \subseteq Messages
  /\ Identity \in [Bindings -> Keys]
  /\ RespondTo \in {"anyone", "nobody", "owner-only", "allowlist"}
  /\ Allowlist \subseteq Keys
  /\ {Cap, Limit, Lookback, MaxClock, MaxSkew, MaxTokens, MaxFaults, MaxChanges} \subseteq Nat
  /\ Lookback <= MaxClock
  /\ None \notin Nat \cup Messages \cup Bindings \cup Requests \cup Keys

Idents == {Identity[b] : b \in Bindings}
Tokens == 1..MaxTokens
Contexts == [token : Tokens, msg : Messages, bind : Bindings]

VARIABLES
  \* the relay, the panes and the clock
  clock,
  at,           \* message -> created_at, None before it is posted
  idle,         \* the panes that are idle or done
  sent,         \* token -> replies published with it
  prompted,     \* the prompts the panes received
  \* state.json: reply_contexts, processed, last_seen
  diskContexts, diskProcessed, diskSeen,
  \* the outbox, and the `buzzr reply` processes
  request,      \* request -> "none", "queued", "taken"
  result,       \* request -> the result file, None when there is none
  client,       \* request -> "none", "waiting", "answered", "gone"
  asked,        \* request -> the token in it
  \* a pass
  pc,
  ready,        \* the panes that were ready in its topology
  contexts, processed, seen,  \* its copy of the state
  queue, req, outcome,        \* requests to answer, the one at hand, its result
  now, todo, bind,            \* polling: its time, the panes left, the one at hand
  events, newest,             \* messages of that pane left, and the cursor to be
  \* bounds
  nextToken, faults, changes

world == <<clock, at, idle, changes>>
disk == <<diskContexts, diskProcessed, diskSeen>>
work == <<contexts, processed, seen>>
outbox == <<request, result, client, asked>>
effects == <<sent, prompted>>
answering == <<queue, req, outcome>>
polling == <<now, todo, bind, events, newest>>
vars == <<world, disk, work, outbox, effects, answering, polling,
          pc, ready, nextToken, faults>>

Fault == faults < MaxFaults /\ faults' = faults + 1

----------------------------------------------------------------------------
(* Who may trigger routing, and what a query returns.                      *)

AnyAuthorAllowed(a) == TRUE  \* a mutant of AuthorAllowed

\* author_allowed
AuthorAllowed(a) ==
  \/ RespondTo = "anyone"
  \/ RespondTo = "owner-only" /\ a = Owner
  \/ RespondTo = "allowlist" /\ a \in Allowlist \cup {Owner}

\* messages: the newest Limit messages since s; external.
Query(s) ==
  LET hits == {m \in Messages : at[m] # None /\ at[m] >= s}
  IN {m \in hits : Cardinality({n \in hits : at[n] > at[m]}) < Limit}

\* A mention of key k to act on.
Addressed(m, k) == k \in Mentions[m] /\ Author[m] # k /\ AuthorAllowed(Author[m])

\* The first query of a cursor looks back from now.
Since(k) == IF seen[k] = None THEN now - Lookback ELSE seen[k]

\* The greatest of a cursor and the dates of messages, as a set of one.
Latest(s, ms) == {t \in {s} \cup {at[m] : m \in ms} :
                    \A u \in {s} \cup {at[m] : m \in ms} : u <= t}

\* At most Cap ids survive, whichever the hash set yields.
Kept(ms) == IF Cardinality(ms) <= Cap THEN {ms}
            ELSE {k \in SUBSET ms : Cardinality(k) = Cap}

----------------------------------------------------------------------------
(* A pass: topology, state, replies.                                       *)

\* The topology is a snapshot; provisioning and reconciliation come after it.
BeginPass ==
  /\ pc = "idle"
  /\ pc' = "topology" /\ ready' = idle
  /\ UNCHANGED <<world, disk, work, outbox, effects, answering, polling, nextToken, faults>>

\* The lock is held from here on.
LoadState ==
  /\ pc = "topology"
  /\ pc' = "outbox"
  /\ contexts' = diskContexts /\ processed' = diskProcessed /\ seen' = diskSeen
  /\ queue' = {r \in Requests : request[r] = "queued"}
  /\ UNCHANGED <<world, disk, outbox, effects, req, outcome, polling, ready, nextToken, faults>>

\* A request that gets no reply published: an unknown token, empty content, no
\* private key, send_reply fails.  The context survives.
RefuseReply(r) ==
  /\ pc = "outbox" /\ r \in queue
  /\ pc' = "answer" /\ req' = r /\ outcome' = "error"
  /\ UNCHANGED <<world, disk, work, outbox, effects, queue, polling, ready, nextToken, faults>>

\* A mutant of SendReply: the token stays good.
SendReplyKeepsToken(r) ==
  /\ pc = "outbox" /\ r \in queue
  /\ \E c \in contexts : c.token = asked[r]
  /\ sent' = [sent EXCEPT ![asked[r]] = @ + 1]
  /\ \/ outcome' = "ok" /\ UNCHANGED faults
     \/ outcome' = "error" /\ Fault
  /\ pc' = "answer" /\ req' = r
  /\ UNCHANGED <<world, disk, work, outbox, prompted, queue, polling, ready, nextToken>>

\* send_reply, then the token is used up; when the answer is lost it is not.
SendReply(r) ==
  /\ pc = "outbox" /\ r \in queue
  /\ \E c \in contexts : c.token = asked[r]
  /\ sent' = [sent EXCEPT ![asked[r]] = @ + 1]
  /\ \/ /\ contexts' = {c \in contexts : c.token # asked[r]}
        /\ outcome' = "ok" /\ UNCHANGED faults
     \/ outcome' = "error" /\ Fault /\ UNCHANGED contexts
  /\ pc' = "answer" /\ req' = r
  /\ UNCHANGED <<world, disk, processed, seen, outbox, prompted, queue, polling, ready,
                 nextToken>>

\* A mutant of AnswerRequest: the request is removed before its result is written.
RemoveFirst ==
  /\ pc = "answer"
  /\ request' = [request EXCEPT ![req] = "taken"]
  /\ pc' = "remove"
  /\ UNCHANGED <<world, disk, work, result, client, asked, effects, answering, polling,
                 ready, nextToken, faults>>

\* The result file is written (renamed into place) ...
AnswerRequest ==
  /\ pc = "answer"
  /\ result' = [result EXCEPT ![req] = outcome]
  /\ pc' = "remove"
  /\ UNCHANGED <<world, disk, work, request, client, asked, effects, answering, polling,
                 ready, nextToken, faults>>

\* A mutant of RemoveRequest: the request stays on the pass' list.
RemoveRequestListed ==
  /\ pc = "remove"
  /\ request' = [request EXCEPT ![req] = "taken"]
  /\ req' = None /\ outcome' = None
  /\ pc' = "outbox"
  /\ UNCHANGED <<world, disk, work, result, client, asked, effects, queue, polling, ready,
                 nextToken, faults>>

\* ... and the request removed.
RemoveRequest ==
  /\ pc = "remove"
  /\ request' = [request EXCEPT ![req] = "taken"]
  /\ queue' = queue \ {req} /\ req' = None /\ outcome' = None
  /\ pc' = "outbox"
  /\ UNCHANGED <<world, disk, work, result, client, asked, effects, polling, ready,
                 nextToken, faults>>

----------------------------------------------------------------------------
(* A pass: polling, one pane after the other in the order of the snapshot. *)

\* A poll that is due; one that is not, or routing disabled, goes straight to Save.
BeginPoll ==
  /\ pc = "outbox" /\ queue = {}
  /\ pc' = "poll" /\ now' = clock /\ todo' = Bindings
  /\ UNCHANGED <<world, disk, work, outbox, effects, answering, bind, events, newest,
                 ready, nextToken, faults>>

Fetch(b) ==
  /\ pc = "poll" /\ b \in todo
  /\ LET s == Since(Identity[b]) IN
     /\ events' = Query(s)
     /\ newest' \in Latest(s, Query(s))
  /\ pc' = "events" /\ bind' = b /\ todo' = todo \ {b}
  /\ UNCHANGED <<world, disk, work, outbox, effects, answering, now, ready, nextToken, faults>>

\* messages fails: the pane is left, its cursor stays.
FetchFailed(b) ==
  /\ pc = "poll" /\ b \in todo
  /\ Fault /\ todo' = todo \ {b}
  /\ UNCHANGED <<world, disk, work, outbox, effects, answering, pc, now, bind, events,
                 newest, ready, nextToken>>

\* Messages are taken in the order of created_at.
Oldest(m) == pc = "events" /\ m \in events /\ \A n \in events : at[m] <= at[n]

Taken(m) ==
  /\ events' = events \ {m}
  /\ UNCHANGED <<world, disk, seen, outbox, sent, answering, pc, now, todo, bind, newest, ready>>

Me == Identity[bind]

\* Nothing for this pane: known already, mentions somebody else, or the pane is
\* busy; a busy pane's message is not marked.
SkipEvent(m) ==
  /\ Oldest(m)
  /\ \/ m \in processed
     \/ Author[m] # Me /\ Me \notin Mentions[m]
     \/ Addressed(m, Me) /\ m \notin Cancels /\ bind \notin ready
  /\ Taken(m) /\ UNCHANGED <<processed, contexts, prompted, nextToken, faults>>

\* Its own message, one of an author who may not, or !cancel: settled for good,
\* for every pane.
SettleEvent(m) ==
  /\ Oldest(m) /\ m \notin processed
  /\ \/ Author[m] = Me
     \/ Me \in Mentions[m] /\ ~AuthorAllowed(Author[m])
     \/ Addressed(m, Me) /\ m \in Cancels
  /\ processed' = processed \cup {m}
  /\ Taken(m) /\ UNCHANGED <<contexts, prompted, nextToken, faults>>

Routable(m) ==
  /\ Oldest(m) /\ m \notin processed
  /\ Addressed(m, Me) /\ m \notin Cancels /\ bind \in ready
  /\ nextToken <= MaxTokens

Prompt(m) == [token |-> nextToken, msg |-> m, bind |-> bind]

\* Mutants of Dispatch.
DispatchUnmarked(m) ==
  /\ Routable(m)
  /\ contexts' = contexts \cup {Prompt(m)} /\ prompted' = prompted \cup {Prompt(m)}
  /\ nextToken' = nextToken + 1
  /\ Taken(m) /\ UNCHANGED <<processed, faults>>

DispatchUnrecorded(m) ==
  /\ Routable(m)
  /\ processed' = processed \cup {m} /\ prompted' = prompted \cup {Prompt(m)}
  /\ nextToken' = nextToken + 1
  /\ Taken(m) /\ UNCHANGED <<contexts, faults>>

\* The context of a fresh token is kept and the pane prompted.
Dispatch(m) ==
  /\ Routable(m)
  /\ contexts' = contexts \cup {Prompt(m)} /\ prompted' = prompted \cup {Prompt(m)}
  /\ processed' = processed \cup {m}
  /\ nextToken' = nextToken + 1
  /\ Taken(m) /\ UNCHANGED faults

\* A mutant of PromptFailed: the message is settled although nobody got it.
PromptFailedSettles(m) ==
  /\ Routable(m) /\ Fault
  /\ prompted' \in {prompted, prompted \cup {Prompt(m)}}
  /\ processed' = processed \cup {m}
  /\ nextToken' = nextToken + 1
  /\ Taken(m) /\ UNCHANGED contexts

\* The prompt fails, or reaches the pane although Herdr's answer is lost: the
\* token is forgotten and the message stays to be routed.
PromptFailed(m) ==
  /\ Routable(m) /\ Fault
  /\ prompted' \in {prompted, prompted \cup {Prompt(m)}}
  /\ nextToken' = nextToken + 1
  /\ Taken(m) /\ UNCHANGED <<contexts, processed>>

\* The cursor moves to the newest message listed, whatever became of it.
EndEvents ==
  /\ pc = "events" /\ events = {}
  /\ seen' = [seen EXCEPT ![Me] = newest]
  /\ pc' = "poll" /\ bind' = None /\ newest' = None
  /\ UNCHANGED <<world, disk, contexts, processed, outbox, effects, answering, now, todo,
                 events, ready, nextToken, faults>>

\* The pass is over and its copy of the state is gone.
EndPass ==
  /\ pc' = "idle" /\ ready' = {}
  /\ contexts' = {} /\ processed' = {} /\ seen' = [k \in Idents |-> None]
  /\ queue' = {} /\ req' = None /\ outcome' = None
  /\ now' = None /\ todo' = {} /\ bind' = None /\ events' = {} /\ newest' = None

Save ==
  /\ \/ pc = "outbox" /\ queue = {} /\ diskProcessed' = processed
     \/ pc = "poll" /\ todo = {} /\ diskProcessed' \in Kept(processed)
  /\ diskContexts' = contexts /\ diskSeen' = seen
  /\ EndPass
  /\ UNCHANGED <<world, outbox, effects, nextToken, faults>>

\* An error ends the pass, or the daemon is killed and started again: nothing is saved.
Fail ==
  /\ pc # "idle"
  /\ Fault /\ EndPass
  /\ UNCHANGED <<world, disk, outbox, effects, nextToken>>

----------------------------------------------------------------------------
(* People, agents, and the `buzzr reply` processes agents run.             *)

Outside == UNCHANGED <<disk, work, effects, answering, polling, pc, ready, nextToken, faults>>

Tick ==
  /\ clock < MaxClock /\ clock' = clock + 1
  /\ UNCHANGED <<at, idle, changes, outbox>> /\ Outside

\* A message is dated by its author.
Post(m, skew) ==
  /\ at[m] = None /\ skew <= clock
  /\ at' = [at EXCEPT ![m] = clock - skew]
  /\ UNCHANGED <<clock, idle, changes, outbox>> /\ Outside

\* A pane starts to work, or is idle again.
ChangeStatus(b) ==
  /\ changes < MaxChanges /\ changes' = changes + 1
  /\ idle' = IF b \in idle THEN idle \ {b} ELSE idle \cup {b}
  /\ UNCHANGED <<clock, at, outbox>> /\ Outside

\* queue_reply: an agent runs the reply command of a prompt it received.
QueueReply(r) ==
  /\ client[r] = "none"
  /\ \E p \in prompted : asked' = [asked EXCEPT ![r] = p.token]
  /\ request' = [request EXCEPT ![r] = "queued"]
  /\ client' = [client EXCEPT ![r] = "waiting"]
  /\ UNCHANGED <<world, result>> /\ Outside

ReadResult(r) ==
  /\ client[r] = "waiting" /\ result[r] # None
  /\ client' = [client EXCEPT ![r] = "answered"]
  /\ result' = [result EXCEPT ![r] = None]
  /\ UNCHANGED <<world, request, asked>> /\ Outside

\* After 30 seconds; the request stays in the outbox.
GiveUp(r) ==
  /\ client[r] = "waiting" /\ result[r] = None
  /\ client' = [client EXCEPT ![r] = "gone"]
  /\ UNCHANGED <<world, request, result, asked>> /\ Outside

----------------------------------------------------------------------------
Init ==
  /\ clock = Lookback /\ at = [m \in Messages |-> None] /\ idle = Bindings /\ changes = 0
  /\ diskContexts = {} /\ diskProcessed = {} /\ diskSeen = [k \in Idents |-> None]
  /\ contexts = {} /\ processed = {} /\ seen = [k \in Idents |-> None]
  /\ request = [r \in Requests |-> "none"] /\ result = [r \in Requests |-> None]
  /\ client = [r \in Requests |-> "none"] /\ asked = [r \in Requests |-> None]
  /\ sent = [t \in Tokens |-> 0] /\ prompted = {}
  /\ queue = {} /\ req = None /\ outcome = None
  /\ now = None /\ todo = {} /\ bind = None /\ events = {} /\ newest = None
  /\ pc = "idle" /\ ready = {} /\ nextToken = 1 /\ faults = 0

PassStep ==
  \/ LoadState
  \/ \E r \in Requests : RefuseReply(r) \/ SendReply(r)
  \/ AnswerRequest \/ RemoveRequest \/ BeginPoll
  \/ \E b \in Bindings : Fetch(b) \/ FetchFailed(b)
  \/ \E m \in Messages : \/ SkipEvent(m) \/ SettleEvent(m)
                        \/ Dispatch(m) \/ PromptFailed(m)
  \/ EndEvents \/ Save

Next ==
  \/ BeginPass \/ PassStep \/ Fail
  \/ Tick
  \/ \E m \in Messages, skew \in 0..MaxSkew : Post(m, skew)
  \/ \E b \in Bindings : ChangeStatus(b)
  \/ \E r \in Requests : QueueReply(r) \/ ReadResult(r) \/ GiveUp(r)

Spec == Init /\ [][Next]_vars

(* The daemon passes again and again, polls when it is due, and is restarted *)
(* when it dies; nothing is assumed of people, agents or faults.             *)
Fairness == WF_vars(BeginPass) /\ WF_vars(PassStep) /\ SF_vars(BeginPoll)

FairSpec == Spec /\ Fairness

----------------------------------------------------------------------------
(* Properties.                                                             *)

TypeOK ==
  /\ clock \in 0..MaxClock /\ at \in [Messages -> 0..MaxClock \cup {None}]
  /\ idle \subseteq Bindings /\ ready \subseteq Bindings
  /\ sent \in [Tokens -> Nat] /\ prompted \subseteq Contexts
  /\ diskContexts \subseteq Contexts /\ contexts \subseteq Contexts
  /\ diskProcessed \subseteq Messages /\ processed \subseteq Messages
  /\ diskSeen \in [Idents -> 0..MaxClock \cup {None}]
  /\ seen \in [Idents -> 0..MaxClock \cup {None}]
  /\ request \in [Requests -> {"none", "queued", "taken"}]
  /\ result \in [Requests -> {"ok", "error", None}]
  /\ client \in [Requests -> {"none", "waiting", "answered", "gone"}]
  /\ asked \in [Requests -> Tokens \cup {None}]
  /\ pc \in {"idle", "topology", "outbox", "answer", "remove", "poll", "events"}
  /\ queue \subseteq {r \in Requests : request[r] = "queued"}
  /\ req \in queue \cup {None} /\ (req = None <=> pc \notin {"answer", "remove"})
  /\ outcome \in {"ok", "error", None}
  /\ now \in 0..MaxClock \cup {None} /\ todo \subseteq Bindings
  /\ bind \in Bindings \cup {None} /\ events \subseteq Messages
  /\ (bind = None <=> pc # "events")
  /\ newest \in 0..MaxClock \cup {None}
  /\ nextToken \in 1..(MaxTokens + 1) /\ faults \in 0..MaxFaults /\ changes \in 0..MaxChanges

\* A message reaches a second prompt only after a fault, each fault costs at most one
\* pass' worth of prompts, and the overlap of two queries costs none
\* (service.rs 403, 454, 478-482).
RepeatsNeedFaults ==
  \A m \in Messages : Cardinality({p \in prompted : p.msg = m}) <= 1 + faults

\* A person's message state.json calls processed that was routed can be answered: the
\* context of one of its prompts is saved with it, or a reply was published with that
\* token.  (An agent's message is settled by its own poll too, 457-460, whatever became
\* of the prompts.)  (service.rs 270-303, 391-398, 484-488).
ProcessedAnswerable ==
  \A p \in prompted : p.msg \in diskProcessed /\ Author[p.msg] \notin Idents =>
    \E q \in prompted : q.msg = p.msg /\ (q \in diskContexts \/ sent[q.token] > 0)

\* Only an allowed author who mentions the pane's identity makes it publish a reply
\* (service.rs 162-185, 457-483).
RepliesAnswerMentions ==
  \A t \in Tokens : sent[t] > 0 =>
    \E p \in prompted : /\ p.token = t
                        /\ Identity[p.bind] \in Mentions[p.msg]
                        /\ RespondTo # "nobody"
                        /\ RespondTo = "owner-only" => Author[p.msg] = Owner
                        /\ RespondTo = "allowlist" => Author[p.msg] \in Allowlist \cup {Owner}

\* A token is good for one reply but for faults: two requests that race for it never
\* both publish (service.rs 361-398).
SentOncePerFault == \A t \in Tokens : sent[t] <= 1 + faults

\* A request is answered, even when its client gave up and when the daemon is killed
\* while it works on it (service.rs 336-345).
RequestsAnswered ==
  \A r \in Requests :
    request[r] = "queued" ~> (result[r] # None \/ client[r] = "answered")

Routed(m, b) == \E p \in prompted : p.msg = m /\ p.bind = b

\* What a failed call or a crash leaves behind is routed later, unless the cursor has
\* gone past it: nothing at the cursor is stuck (service.rs 292-304, 450-488).
RoutedOrPassed ==
  <>[](\A m \in Messages, b \in Bindings :
         at[m] # None /\ Addressed(m, Identity[b]) /\ m \notin Cancels /\ b \in idle =>
           \/ \E n \in Bindings : Identity[n] = Identity[b] /\ Routed(m, n)
           \/ diskSeen[Identity[b]] # None /\ at[m] < diskSeen[Identity[b]])
============================================================================
