---- MODULE TerminalPage ----
(***************************************************************************)
(* The terminal pages, Application/entry/src/main/ets/pages/Terminal.ets,  *)
(* over the session table.                                                 *)
(*                                                                         *)
(* A handler, a timer callback and the part of openDraft after its await   *)
(* each run to their end on the one JavaScript thread: an action is one of *)
(* them.  A page is a record of the fields of the struct and of what the   *)
(* runtime holds for it: the open it awaits and its timers.  Its methods   *)
(* are operators on that record.                                           *)
(***************************************************************************)
EXTENDS Integers, FiniteSets, SshService

CONSTANTS
  Pages,         \* instances of the page the router creates
  MaxAttempts    \* bound on the keepalive attempts of the settings (10)

ASSUME TerminalAssumption == MaxAttempts \in Nat \ {0} /\ None \notin Ids

VARIABLES
  page,       \* the pages
  attempts    \* SettingsStore.sessionKeepaliveAttempts

service == <<status, user, gone, refused>>
vars == <<page, attempts, status, user, gone, refused>>

Page == [stage: {"new", "shown", "gone"},     \* "gone": disposed
         openToken: Nat,
         awaits: {"nothing", "open", "result"},  \* openDraft at its await: the open runs, has ended
         token: Nat,                          \* const token of openDraft
         sid: Ids \cup {None},                \* the result of the open
         sessionId: Ids \cup {None},          \* None: -1
         polling: BOOLEAN,
         pollToken: Nat,
         timerId: Nat,                        \* a poll timer is named by its token; 0: -1
         polls: SUBSET Nat,                   \* the poll timers that are set
         keepalive: BOOLEAN,                  \* the keepalive timer is set
         failures: Nat]                       \* keepaliveFailures

NewPage == [stage |-> "new", openToken |-> 0, awaits |-> "nothing", token |-> 0, sid |-> None,
            sessionId |-> None, polling |-> FALSE, pollToken |-> 0, timerId |-> 0, polls |-> {},
            keepalive |-> FALSE, failures |-> 0]

TypeOK ==
  /\ page \in [Pages -> Page]
  /\ attempts \in 1..MaxAttempts
  /\ status \in [Ids -> {"fresh", "open", "closed"}] /\ user = None
  /\ gone \subseteq Ids /\ refused \subseteq Ids

Init ==
  /\ page = [p \in Pages |-> NewPage]
  /\ attempts \in 1..MaxAttempts
  /\ ServiceInit

Disposed(r) == r.stage = "gone"

----------------------------------------------------------------------------
(* The methods of the page *)

(* Called when no timer of this token is set: from startPolling with a new *)
(* token, and from the callback of the timer itself.                       *)
SchedulePoll(r, token) ==
  IF ~r.polling \/ token # r.pollToken \/ Disposed(r) THEN r
  ELSE [r EXCEPT !.polls = (@ \ {r.timerId}) \cup {token}, !.timerId = token]

StartPolling(r) ==
  IF r.polling \/ r.sessionId = None \/ Disposed(r) THEN r
  ELSE SchedulePoll([r EXCEPT !.polling = TRUE, !.pollToken = @ + 1], r.pollToken + 1)

StopPolling_keepsTimer(r) == [r EXCEPT !.polling = FALSE, !.pollToken = @ + 1]

StopPolling(r) ==
  [r EXCEPT !.polling = FALSE, !.pollToken = @ + 1, !.polls = @ \ {r.timerId}, !.timerId = 0]

StopKeepalive(r) == [r EXCEPT !.keepalive = FALSE, !.failures = 0]

StartKeepalive(r) ==
  IF r.sessionId = None THEN StopKeepalive(r)
  ELSE [StopKeepalive(r) EXCEPT !.keepalive = TRUE]

(* closeCurrentSession; the call of termClose is CloseSession(r.sessionId) *)
CloseCurrent(r) == [StopKeepalive(StopPolling(r)) EXCEPT !.sessionId = None]

Becomes(p, r) == page' = [page EXCEPT ![p] = r] /\ UNCHANGED attempts

----------------------------------------------------------------------------

(* aboutToAppear and openDraft up to its await, or to one of its returns    *)
(* when the draft is missing, not valid, asks for a key or has no password. *)
AboutToAppear(p) ==
  /\ page[p].stage = "new"
  /\ LET r == CloseCurrent([page[p] EXCEPT !.stage = "shown", !.openToken = @ + 1]) IN
       \/ Becomes(p, r)
       \/ Becomes(p, [r EXCEPT !.awaits = "open", !.token = r.openToken])
  /\ CloseSession(page[p].sessionId)
  /\ UNCHANGED <<gone, refused>>

(* The native open ends, with a session or with -1; the promise is settled *)
(* when the JavaScript thread gets to it.                                  *)
OpenEnds(p) ==
  /\ page[p].awaits = "open"
  /\ \/ \E i \in Ids : Open(i) /\ Becomes(p, [page[p] EXCEPT !.awaits = "result", !.sid = i])
     \/ Becomes(p, [page[p] EXCEPT !.awaits = "result"]) /\ UNCHANGED <<status, user>>
  /\ UNCHANGED <<gone, refused>>

(* openDraft after its await *)
Outdated(r) == Disposed(r) \/ r.token # r.openToken

Connected(r, i) ==
  IF i = None THEN r ELSE StartKeepalive(StartPolling([r EXCEPT !.sessionId = i]))

Resume(p, closed) ==
  /\ page[p].awaits = "result"
  /\ LET r == [page[p] EXCEPT !.awaits = "nothing", !.sid = None] IN
       IF Outdated(r) THEN Becomes(p, r) /\ CloseSession(closed)
       ELSE Becomes(p, Connected(r, page[p].sid)) /\ UNCHANGED <<status, user>>
  /\ UNCHANGED <<gone, refused>>

OpenDraftResumes_forgetsSession(p) == Resume(p, None)

OpenDraftResumes(p) == Resume(p, page[p].sid)

(* The callback of a poll timer; termRead changes nothing a page sees, and *)
(* an exception of it still schedules the next poll.                       *)
PollFires(p, token) ==
  /\ token \in page[p].polls
  /\ LET r == [page[p] EXCEPT !.polls = @ \ {token}] IN
       Becomes(p, IF r.sessionId = None THEN r ELSE SchedulePoll(r, token))
  /\ UNCHANGED service

(* The callback of the keepalive timer *)
NothingToKeep(r) == Disposed(r) \/ r.sessionId = None

TimerStopsItself(p) == Becomes(p, StopKeepalive(page[p])) /\ UNCHANGED service

SendsKeepalive(p) == page[p].keepalive /\ ~NothingToKeep(page[p])

CountFailure_asOne(r) == [r EXCEPT !.failures = 1]

CountFailure(r) == [r EXCEPT !.failures = @ + 1]

AfterFailure(p, r) ==
  IF r.failures >= attempts
  THEN Becomes(p, CloseCurrent(r)) /\ CloseSession(r.sessionId)
  ELSE Becomes(p, r) /\ UNCHANGED <<status, user>>

KeepaliveSucceeds_fallsThrough(p) ==
  /\ SendsKeepalive(p) /\ KeepaliveSent(page[p].sessionId)
  /\ AfterFailure(p, CountFailure([page[p] EXCEPT !.failures = 0]))
  /\ UNCHANGED gone

KeepaliveSucceeds(p) ==
  /\ SendsKeepalive(p) /\ KeepaliveSent(page[p].sessionId)
  /\ Becomes(p, [page[p] EXCEPT !.failures = 0])
  /\ UNCHANGED <<status, user, gone>>

KeepaliveFails(p) ==
  /\ SendsKeepalive(p) /\ KeepaliveRefused(page[p].sessionId)
  /\ AfterFailure(p, CountFailure(page[p]))
  /\ UNCHANGED gone

AboutToDisappear(p) ==
  /\ page[p].stage = "shown"
  /\ Becomes(p, CloseCurrent([page[p] EXCEPT !.stage = "gone", !.openToken = @ + 1]))
  /\ CloseSession(page[p].sessionId)
  /\ UNCHANGED <<gone, refused>>

(* saveSettings clamps what the user typed.  The way to the settings leads *)
(* out of the terminal.                                                    *)
Clamp_noMinimum(n) == IF n > MaxAttempts THEN MaxAttempts ELSE n

Clamp(n) == IF n < 1 THEN 1 ELSE IF n > MaxAttempts THEN MaxAttempts ELSE n

SaveSettings(typed) ==
  /\ \A p \in Pages : page[p].stage # "shown"
  /\ attempts' = Clamp(typed)
  /\ UNCHANGED <<page, status, user, gone, refused>>

Server(i) == ServerGone(i) /\ UNCHANGED <<page, attempts>>

KeepaliveTick(p) ==
  /\ page[p].keepalive
  /\ IF NothingToKeep(page[p]) THEN TimerStopsItself(p)
     ELSE KeepaliveSucceeds(p) \/ KeepaliveFails(p)

Next ==
  \/ \E p \in Pages :
       \/ AboutToAppear(p) \/ OpenEnds(p) \/ OpenDraftResumes(p)
       \/ \E token \in page[p].polls : PollFires(p, token)
       \/ KeepaliveTick(p) \/ AboutToDisappear(p)
  \/ \E typed \in 0..(MaxAttempts + 1) : SaveSettings(typed)
  \/ \E i \in Ids : Server(i)

Spec == Init /\ [][Next]_vars

(* The keepalive timer keeps firing.  Its period is the keepalive interval *)
(* of the session, so a packet comes due and meets the server that refuses *)
(* it.                                                                     *)
FairSpec == Spec /\ \A p \in Pages : WF_vars(KeepaliveFails(p))

----------------------------------------------------------------------------
(* Properties *)

Holds(p, i) == i \in {page[p].sessionId, page[p].sid}

(* Every open session is held by exactly one page: it is the session the    *)
(* page shows, or the result its openDraft has still to look at.  Leaving   *)
(* during the open, a late result and a keepalive that closes the session   *)
(* leave none behind, and no page holds the id of a closed one.             *)
SessionHasOnePage ==
  \A i \in Ids :
    /\ Live(i) <=> \E p \in Pages : Holds(p, i)
    /\ \A p, q \in Pages : Holds(p, i) /\ Holds(q, i) => p = q
    /\ \A p \in Pages : page[p].sessionId = i => page[p].stage = "shown"

(* The poll timer and the keepalive timer of a page are set exactly while it *)
(* has a session: no callback is left after a close, and the chain of polls  *)
(* neither breaks nor doubles while the session lives.                       *)
TimersFollowSession ==
  \A p \in Pages :
    /\ page[p].polls = IF page[p].sessionId = None THEN {} ELSE {page[p].pollToken}
    /\ page[p].keepalive <=> page[p].sessionId # None

(* A session is closed because its page is left or its server has gone: a   *)
(* keepalive that reached the server, or the failures of another session,   *)
(* never cost a connection.                                                 *)
OnlyDeadOrLeftIsClosed ==
  [][\A i \in Ids : Live(i) /\ ~Live(i)' =>
       i \in gone \/ \E p \in Pages : Holds(p, i) /\ Disposed(page[p])']_vars

(* A session whose server has gone is closed by the keepalive of its page,   *)
(* after the attempts of the settings, or by leaving the page.               *)
DeadSessionIsClosed ==
  \A p \in Pages, i \in Ids : (page[p].sessionId = i /\ i \in gone) ~> ~Live(i)
====
