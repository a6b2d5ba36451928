----------------------------- MODULE LynxBridge -----------------------------
(***************************************************************************)
(* What a page of lynx-app/ meets of the host: the calls of KesshHost are  *)
(* asynchronous, and the page goes on changing until the answer is there.  *)
(*                                                                         *)
(* The host answers the short calls in the order they were made: each runs *)
(* to its end on its one thread.  An open is awaited there and may take    *)
(* any time.                                                               *)
(***************************************************************************)
EXTENDS Integers, Sequences, SessionTable

CONSTANTS
  MaxOpens,      \* bound on the opens of a page
  MaxTaps,       \* bound on the taps on a host
  MaxAsked       \* bound on the short calls under way together

ASSUME BridgeAssumption ==
  /\ MaxOpens \in Nat /\ MaxTaps \in 0..(MaxOpens - 1) /\ MaxAsked \in Nat \ {0}
  /\ None \notin Ids /\ Ids \cap {"none", "running", "failed"} = {}

VARIABLES
  page,       \* the state and the refs of the page on the screen, with its name
  taps,       \* the taps on a host so far
  asked,      \* the short calls under way, the oldest first
  opening     \* by open: what it has come to, until the page goes on with it

vars == <<page, taps, asked, opening, status, user>>

Opens == 1..MaxOpens

BridgeInit ==
  /\ TableInit
  /\ taps = 0
  /\ asked = <<>>
  /\ opening = [n \in Opens |-> "none"]

(* The calls on a session name one the page was given. *)
BridgeTypeOK ==
  /\ taps \in 0..MaxTaps
  /\ status \in [Ids -> {"fresh", "open", "closed"}] /\ user = None
  /\ opening \in [Opens -> Ids \cup {"none", "running", "failed"}]
  /\ \A k \in DOMAIN asked :
       asked[k].method \notin {"hasPassword", "openSession"} => asked[k].session \in Ids

Live(i) == i \in Ids /\ status[i] = "open"

(* closeSession of the host; an id that is not in the table is only logged. *)
HostCloses(i) == IF Live(i) THEN Close(i) ELSE UNCHANGED tvars

Ask(call) == asked' = Append(asked, call)

(* A page asks to close a session if it has one (> 0), and waits for nothing. *)
AskClose_always(i) == Ask([method |-> "closeSession", session |-> i, then |-> "return"])

AskClose(i) ==
  IF i = None THEN UNCHANGED asked
  ELSE Ask([method |-> "closeSession", session |-> i, then |-> "return"])

(* The page goes on after its oldest call, and perhaps asks something more. *)
Answered(method) == asked # <<>> /\ Head(asked).method = method

Done == asked' = Tail(asked)

DoneAsking(call) == asked' = Append(Tail(asked), call)

OpenCall(n) == [method |-> "openSession", open |-> n]

HostStartsOpen ==
  /\ Answered("openSession") /\ Done
  /\ opening' = [opening EXCEPT ![Head(asked).open] = "running"]
  /\ UNCHANGED <<page, taps, status, user>>

(* openSession ends on the host with an id, with -1 or with an exception. *)
OpenEnds(n) ==
  /\ opening[n] = "running"
  /\ \/ \E i \in Ids : Open(i) /\ opening' = [opening EXCEPT ![n] = i]
     \/ opening' = [opening EXCEPT ![n] = "failed"] /\ UNCHANGED tvars
  /\ UNCHANGED <<page, taps, asked>>

(* The page goes on after its open; None: no session. *)
OpenAnswered(n) ==
  /\ opening[n] \in Ids \cup {"failed"}
  /\ opening' = [opening EXCEPT ![n] = "none"]

Result(n) == IF opening[n] = "failed" THEN None ELSE opening[n]

(* A session that a page will still be given, or has asked to close *)
OnItsWay(i) ==
  \/ \E n \in Opens : opening[n] = i
  \/ \E k \in DOMAIN asked : asked[k].method = "closeSession" /\ asked[k].session = i
=============================================================================
