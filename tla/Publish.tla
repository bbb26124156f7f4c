------------------------------ MODULE Publish ------------------------------
(***************************************************************************)
(* One connection that publishes an event (src/src/clients/nostr.rs):      *)
(* EVENT, the relay's challenge, AUTH, and EVENT once more.  The relay     *)
(* works on what it gets in any order, and its answers overtake each       *)
(* other.                                                                  *)
(***************************************************************************)
EXTENDS Naturals

VARIABLE conn  \* the connection, on both sides

\* Answers: to the n-th EVENT that it is stored, refused, or that it wants an AUTH first;
\* to the AUTH; a challenge; a NOTICE.
EventAnswers == [to : 1..2, is : {"stored", "refused", "authRequired"}]
Others == {"challenge", "authOk", "authRefused", "notice"}
Frames == EventAnswers \cup [to : {0}, is : Others]
Answer(n, is) == [to |-> n, is |-> is]
Frame(is) == Answer(0, is)

\* sent: how often EVENT was sent; auth: AUTH was; rejected: initial_rejection_seen.  The
\* relay: whether it demands authentication, has challenged and authenticated; what it has
\* handled (AUTH is 0) and stored; and whether it, or the network, failed.
Connections ==
  [outcome : {"none", "open", "accepted", "failed"},
   sent : 0..2, auth : BOOLEAN, rejected : BOOLEAN,
   demands : BOOLEAN, challenged : BOOLEAN, authed : BOOLEAN,
   handled : SUBSET (0..2), stored : BOOLEAN, flight : SUBSET Frames, faulty : BOOLEAN]

NoConn ==
  [outcome |-> "none", sent |-> 0, auth |-> FALSE, rejected |-> FALSE,
   demands |-> FALSE, challenged |-> FALSE, authed |-> FALSE,
   handled |-> {}, stored |-> FALSE, flight |-> {}, faulty |-> FALSE]

----------------------------------------------------------------------------
(* The client.                                                             *)

\* It connects and sends EVENT at once.
Connect ==
  \E d \in BOOLEAN : conn' = [NoConn EXCEPT !.outcome = "open", !.sent = 1, !.demands = d]

Open == conn.outcome = "open"

\* The challenge is answered when it arrives, and only once; so the rejection of an EVENT
\* never finds a challenge that has no answer.
Challenged(c) == [c EXCEPT !.auth = TRUE]

\* The AUTH is confirmed, and EVENT sent again, once.
Confirmed(c) == [c EXCEPT !.sent = 2]

RejectedFails(c) ==  \* a mutant of Rejected: the late answer to the first EVENT is an error
  IF c.sent = 2 THEN [c EXCEPT !.outcome = "failed"] ELSE [c EXCEPT !.rejected = TRUE]

\* EVENT wants an AUTH first: news once; a second time, after EVENT was sent again, it is an
\* error, as the answers to both EVENTs look the same.
Rejected(c) ==
  IF c.sent = 2 /\ c.rejected
  THEN [c EXCEPT !.outcome = "failed"]
  ELSE [c EXCEPT !.rejected = TRUE]

Received(f, c) ==
  CASE f.is = "challenge"    -> Challenged(c)
    [] f.is = "authOk"       -> Confirmed(c)
    [] f.is = "authRequired" -> Rejected(c)
    [] f.is = "stored"       -> [c EXCEPT !.outcome = "accepted"]
    [] OTHER                 -> [c EXCEPT !.outcome = "failed"]

Receive ==
  /\ Open
  /\ \E f \in conn.flight : conn' = Received(f, [conn EXCEPT !.flight = @ \ {f}])

----------------------------------------------------------------------------
(* The relay; external.                                                    *)

Waiting(n) ==
  /\ Open /\ n \notin conn.handled
  /\ IF n = 0 THEN conn.auth ELSE n <= conn.sent

Respond(n, is) == conn' = [conn EXCEPT !.handled = @ \cup {n}, !.flight = @ \cup {Answer(n, is)}]

\* It may challenge at any time.
Challenge ==
  /\ Open /\ ~conn.challenged
  /\ conn' = [conn EXCEPT !.challenged = TRUE, !.flight = @ \cup {Frame("challenge")}]

Authenticate ==
  /\ Waiting(0)
  /\ conn' = [conn EXCEPT !.handled = @ \cup {0}, !.authed = TRUE,
                          !.flight = @ \cup {Frame("authOk")}]

Admits == ~conn.demands \/ conn.authed

DemandAuth(n) == Waiting(n) /\ ~Admits /\ Respond(n, "authRequired")

\* The event is stored, as far as `new` says, and acknowledged.
Accept(n, new) ==
  /\ Waiting(n) /\ Admits
  /\ conn' = [conn EXCEPT !.handled = @ \cup {n}, !.stored = @ \/ new,
                          !.flight = @ \cup {Answer(n, "stored")}]

\* Nothing is under way any more, and the relay has nothing left to say.
Quiet ==
  /\ Open /\ conn.flight = {} /\ ~\E n \in 0..2 : Waiting(n)
  /\ ~conn.demands \/ conn.challenged

----------------------------------------------------------------------------
(* Failures: of the relay to each frame, of the network, and a time-out.   *)

Misbehave ==
  /\ Open
  /\ \/ \E n \in 1..2, is \in {"refused", "authRequired"} :
          /\ Waiting(n)
          /\ conn' = [conn EXCEPT !.handled = @ \cup {n}, !.faulty = TRUE,
                                  !.flight = @ \cup {Answer(n, is)}]
     \/ /\ Waiting(0)
        /\ conn' = [conn EXCEPT !.handled = @ \cup {0}, !.faulty = TRUE,
                                !.flight = @ \cup {Frame("authRefused")}]
     \/ conn' = [conn EXCEPT !.faulty = TRUE, !.flight = @ \cup {Frame("notice")}]
     \/ conn' = [conn EXCEPT !.faulty = TRUE, !.outcome = "failed"]

\* With nothing to come the 45 seconds run out.
TimeOut == Quiet /\ conn' = [conn EXCEPT !.outcome = "failed"]

----------------------------------------------------------------------------
(* Properties.                                                             *)

\* A relay that does its part, in whatever order, never makes a publication fail or wait in
\* vain (nostr.rs 180: "A delayed OK(event_id, false, ...) never aborts a pending auth flow").
HandshakeSucceeds == conn.outcome = "failed" => conn.faulty
=============================================================================
