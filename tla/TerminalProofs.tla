--------------------------- MODULE TerminalProofs ---------------------------
(***************************************************************************)
(* Terminal pages, sessions and timers, for any number of pages and        *)
(* sessions.  What a page does to its own record is proved first, method   *)
(* by method; who holds which session follows from what a step adds to or  *)
(* takes from the sessions one page holds.                                 *)
(***************************************************************************)
EXTENDS TerminalPage, TLAPS

----------------------------------------------------------------------------
(* The invariant *)

(* Polls, poll token and keepalive of a page go with its session. *)
TimersOK(r) ==
  /\ r.sessionId = None => ~r.polling /\ r.polls = {} /\ ~r.keepalive
  /\ r.sessionId # None =>
       r.polling /\ r.polls = {r.pollToken} /\ r.timerId = r.pollToken /\ r.keepalive

(* A page opens one session, before it has any; only a page on the screen    *)
(* has one, and while it is on the screen its open is not outdated.          *)
StageOK(r) ==
  /\ r.sessionId # None => r.stage = "shown" /\ r.awaits = "nothing"
  /\ r.awaits # "result" => r.sid = None
  /\ r.stage = "new" => r.awaits = "nothing"
  /\ r.stage = "shown" /\ r.awaits # "nothing" => r.token = r.openToken

PageOK(r) == r \in Page /\ TimersOK(r) /\ StageOK(r)

PagesOK == page \in [Pages -> Page] /\ \A p \in Pages : PageOK(page[p])

Held(r) == {r.sessionId, r.sid} \cap Ids

(* Open sessions and pages that hold one, one to one *)
HeldOnce ==
  /\ \A i \in Ids : Live(i) <=> \E p \in Pages : i \in Held(page[p])
  /\ \A i \in Ids : \A p, q \in Pages : i \in Held(page[p]) /\ i \in Held(page[q]) => p = q

TermInv == TypeOK /\ PagesOK /\ HeldOnce

----------------------------------------------------------------------------
(* The methods of a page *)

LEMMA NoneIsNoId == None \notin Ids /\ MaxAttempts \in Nat \ {0}
BY TerminalAssumption

LEMMA StopKeepaliveFields ==
  ASSUME NEW r \in Page
  PROVE  /\ StopKeepalive(r) \in Page
         /\ StopKeepalive(r).keepalive = FALSE
         /\ StopKeepalive(r).stage = r.stage /\ StopKeepalive(r).awaits = r.awaits
         /\ StopKeepalive(r).token = r.token /\ StopKeepalive(r).openToken = r.openToken
         /\ StopKeepalive(r).sid = r.sid /\ StopKeepalive(r).sessionId = r.sessionId
         /\ StopKeepalive(r).polling = r.polling /\ StopKeepalive(r).polls = r.polls
         /\ StopKeepalive(r).pollToken = r.pollToken /\ StopKeepalive(r).timerId = r.timerId
BY DEF Page, StopKeepalive

LEMMA PollFieldsIn ==
  ASSUME NEW r \in Page, NEW b \in BOOLEAN, NEW n \in Nat, NEW polls \in SUBSET Nat, NEW t \in Nat
  PROVE  [r EXCEPT !.polling = b, !.pollToken = n, !.polls = polls, !.timerId = t] \in Page
BY DEF Page

LEMMA StopPollingFields ==
  ASSUME NEW r \in Page
  PROVE  /\ StopPolling(r) \in Page
         /\ StopPolling(r).polling = FALSE /\ StopPolling(r).polls = r.polls \ {r.timerId}
         /\ StopPolling(r).stage = r.stage /\ StopPolling(r).awaits = r.awaits
         /\ StopPolling(r).token = r.token /\ StopPolling(r).openToken = r.openToken
         /\ StopPolling(r).sid = r.sid /\ StopPolling(r).sessionId = r.sessionId
         /\ StopPolling(r).keepalive = r.keepalive
<1>1. PICK n \in Nat : n = r.pollToken + 1
  BY DEF Page
<1>2. PICK polls \in SUBSET Nat : polls = r.polls \ {r.timerId}
  BY DEF Page
<1>3. StopPolling(r) = [r EXCEPT !.polling = FALSE, !.pollToken = n, !.polls = polls, !.timerId = 0]
  BY <1>1, <1>2 DEF StopPolling
<1>4. [r EXCEPT !.polling = FALSE, !.pollToken = n, !.polls = polls, !.timerId = 0] \in Page
  BY PollFieldsIn
<1>5. /\ StopPolling(r).polling = FALSE /\ StopPolling(r).polls = polls
      /\ StopPolling(r).stage = r.stage /\ StopPolling(r).awaits = r.awaits
      /\ StopPolling(r).token = r.token /\ StopPolling(r).openToken = r.openToken
      /\ StopPolling(r).sid = r.sid /\ StopPolling(r).sessionId = r.sessionId
      /\ StopPolling(r).keepalive = r.keepalive
  BY <1>3 DEF Page
<1> QED BY <1>2, <1>3, <1>4, <1>5

(* closeCurrentSession leaves a page without session and without timers. *)
LEMMA CloseCurrentFields ==
  ASSUME NEW r \in Page, TimersOK(r)
  PROVE  /\ CloseCurrent(r) \in Page /\ TimersOK(CloseCurrent(r))
         /\ CloseCurrent(r).sessionId = None
         /\ CloseCurrent(r).stage = r.stage /\ CloseCurrent(r).awaits = r.awaits
         /\ CloseCurrent(r).token = r.token /\ CloseCurrent(r).openToken = r.openToken
         /\ CloseCurrent(r).sid = r.sid
<1> DEFINE s == StopPolling(r)
           t == StopKeepalive(s)
<1>1. /\ s \in Page /\ s.polling = FALSE /\ s.polls = {}
      /\ s.stage = r.stage /\ s.awaits = r.awaits /\ s.token = r.token
      /\ s.openToken = r.openToken /\ s.sid = r.sid
  BY StopPollingFields DEF TimersOK
<1> HIDE DEF s
<1>2. /\ t \in Page /\ t.polling = FALSE /\ t.polls = {} /\ t.keepalive = FALSE
      /\ t.stage = r.stage /\ t.awaits = r.awaits /\ t.token = r.token
      /\ t.openToken = r.openToken /\ t.sid = r.sid
  BY <1>1, StopKeepaliveFields
<1>3. CloseCurrent(r) = [t EXCEPT !.sessionId = None]
  BY DEF CloseCurrent, s, t
<1> HIDE DEF t
<1>4. /\ CloseCurrent(r) \in Page /\ CloseCurrent(r).sessionId = None
      /\ CloseCurrent(r).polling = FALSE /\ CloseCurrent(r).polls = {}
      /\ CloseCurrent(r).keepalive = FALSE
      /\ CloseCurrent(r).stage = r.stage /\ CloseCurrent(r).awaits = r.awaits
      /\ CloseCurrent(r).token = r.token /\ CloseCurrent(r).openToken = r.openToken
      /\ CloseCurrent(r).sid = r.sid
  BY <1>2, <1>3 DEF Page
<1> QED BY <1>4 DEF TimersOK

(* A page that is given a session starts polling it and keeping it alive. *)
LEMMA ConnectedFields ==
  ASSUME NEW r \in Page, TimersOK(r), r.sessionId = None, ~Disposed(r), NEW i \in Ids
  PROVE  /\ Connected(r, i) \in Page /\ TimersOK(Connected(r, i))
         /\ Connected(r, i).sessionId = i
         /\ Connected(r, i).stage = r.stage /\ Connected(r, i).awaits = r.awaits
         /\ Connected(r, i).sid = r.sid
<1>1. PICK n \in Nat : n = r.pollToken + 1
  BY DEF Page
<1>2. i # None /\ r.polls = {} /\ ~r.polling
  BY NoneIsNoId DEF TimersOK
<1> DEFINE a == [r EXCEPT !.sessionId = i]
           b == [a EXCEPT !.polling = TRUE, !.pollToken = n]
           c == [r EXCEPT !.sessionId = i, !.polling = TRUE, !.pollToken = n,
                          !.polls = {n}, !.timerId = n]
           d == [c EXCEPT !.keepalive = FALSE, !.failures = 0]
           e == [d EXCEPT !.keepalive = TRUE]
<1>3. StartPolling(a) = c
  <2>1. a \in Page /\ a.sessionId = i /\ ~a.polling /\ a.pollToken = r.pollToken /\ ~Disposed(a)
    BY <1>2 DEF Page, Disposed
  <2>2. StartPolling(a) = SchedulePoll(b, n)
    BY <1>1, <1>2, <2>1 DEF StartPolling
  <2>3. b.polling /\ b.pollToken = n /\ ~Disposed(b) /\ b.polls = {}
    BY <1>2 DEF Page, Disposed
  <2>4. SchedulePoll(b, n) = [b EXCEPT !.polls = {n}, !.timerId = n]
    BY <2>3 DEF SchedulePoll
  <2>5. [b EXCEPT !.polls = {n}, !.timerId = n] = c
    BY DEF Page
  <2> QED BY <2>2, <2>4, <2>5
<1>4. StartKeepalive(c) = e
  <2>1. c.sessionId = i
    BY DEF Page
  <2> QED BY <1>2, <2>1 DEF StartKeepalive, StopKeepalive
<1>5. Connected(r, i) = e
  BY <1>2, <1>3, <1>4 DEF Connected
<1>6. c \in Page
  <2>1. a \in Page /\ {n} \in SUBSET Nat
    BY DEF Page
  <2>2. c = [a EXCEPT !.polling = TRUE, !.pollToken = n, !.polls = {n}, !.timerId = n]
    BY DEF Page
  <2> HIDE DEF a, c
  <2> QED BY <2>1, <2>2, PollFieldsIn
<1>7. /\ e.sessionId = i /\ e.polling /\ e.polls = {n} /\ e.pollToken = n /\ e.timerId = n /\ e.keepalive
      /\ e.stage = r.stage /\ e.awaits = r.awaits /\ e.sid = r.sid
  BY DEF Page
<1>8. e \in Page
  <2> HIDE DEF c
  <2> QED BY <1>6 DEF Page
<1> HIDE DEF a, b, c, d, e
<1> QED BY <1>2, <1>5, <1>7, <1>8 DEF TimersOK

----------------------------------------------------------------------------
(* Who holds which session after a step of one page *)

StatusOK == status \in [Ids -> {"fresh", "open", "closed"}] /\ user = None

LEMMA Replaced ==
  ASSUME PagesOK, NEW p \in Pages, NEW r, PageOK(r), page' = [page EXCEPT ![p] = r]
  PROVE  /\ PagesOK'
         /\ page'[p] = r /\ \A q \in Pages \ {p} : page'[q] = page[q]
<1>1. page'[p] = r /\ (\A q \in Pages \ {p} : page'[q] = page[q]) /\ r \in Page
      /\ page' \in [Pages -> Page]
  BY DEF PagesOK, PageOK
<1>2. \A q \in Pages : PageOK(page'[q])
  BY <1>1 DEF PagesOK
<1> QED BY <1>1, <1>2 DEF PagesOK

LEMMA HeldSame ==
  ASSUME PagesOK, HeldOnce, NEW p \in Pages, NEW r, PageOK(r), page' = [page EXCEPT ![p] = r],
         Held(r) = Held(page[p]), UNCHANGED status
  PROVE  HeldOnce'
<1>1. \A q \in Pages : Held(page'[q]) = Held(page[q])
  BY Replaced
<1> QED BY <1>1 DEF HeldOnce, Live

LEMMA HeldMore ==
  ASSUME PagesOK, HeldOnce, StatusOK, NEW p \in Pages, NEW r, PageOK(r),
         page' = [page EXCEPT ![p] = r],
         NEW i \in Ids, Open(i), Held(r) = Held(page[p]) \cup {i}
  PROVE  HeldOnce' /\ StatusOK'
<1>1. Held(page'[p]) = Held(page[p]) \cup {i} /\ \A q \in Pages \ {p} : Held(page'[q]) = Held(page[q])
  BY Replaced
<1>2. StatusOK' /\ \A j \in Ids : Live(j)' <=> Live(j) \/ j = i
  BY DEF Open, Live, StatusOK
<1>3. \A q \in Pages : i \notin Held(page[q])
  BY DEF HeldOnce, Live, Open
<1> QED BY <1>1, <1>2, <1>3 DEF HeldOnce

LEMMA HeldLess ==
  ASSUME PagesOK, HeldOnce, StatusOK, NEW p \in Pages, NEW r, PageOK(r),
         page' = [page EXCEPT ![p] = r],
         NEW i \in Held(page[p]) \cup {None}, CloseSession(i), Held(r) = Held(page[p]) \ {i}
  PROVE  HeldOnce' /\ StatusOK'
<1>1. Held(page'[p]) = Held(page[p]) \ {i} /\ \A q \in Pages \ {p} : Held(page'[q]) = Held(page[q])
  BY Replaced
<1>2. StatusOK' /\ \A j \in Ids : Live(j)' <=> Live(j) /\ j # i
  <2>1. CASE i = None
    BY <2>1, NoneIsNoId DEF CloseSession, Live, StatusOK
  <2>2. CASE i \in Held(page[p])
    <3>1. i \in Ids /\ Live(i)
      BY <2>2 DEF Held, HeldOnce
    <3> QED BY <3>1 DEF CloseSession, Close, Live, StatusOK
  <2> QED BY <2>1, <2>2
<1>3. \A q \in Pages \ {p} : i \notin Held(page[q]) \/ i = None
  BY DEF HeldOnce, Held
<1>4. \A q \in Pages : Held(page[q]) \subseteq Ids
  BY DEF Held
<1> QED BY <1>1, <1>2, <1>3, <1>4, NoneIsNoId DEF HeldOnce

----------------------------------------------------------------------------
(* One lemma per action of a page *)

LEMMA InvFacts ==
  ASSUME TermInv
  PROVE  /\ PagesOK /\ HeldOnce /\ StatusOK
         /\ attempts \in 1..MaxAttempts /\ gone \subseteq Ids /\ refused \subseteq Ids
BY DEF TermInv, TypeOK, StatusOK

LEMMA PageFacts ==
  ASSUME TermInv, NEW p \in Pages
  PROVE  /\ PageOK(page[p]) /\ page[p] \in Page /\ TimersOK(page[p]) /\ StageOK(page[p])
         /\ PagesOK /\ HeldOnce /\ StatusOK
         /\ attempts \in 1..MaxAttempts /\ gone \subseteq Ids /\ refused \subseteq Ids
BY InvFacts DEF PagesOK, PageOK

(* What the actions owe besides their sessions *)
LEMMA InvAfter ==
  ASSUME PagesOK', HeldOnce', StatusOK', attempts' \in 1..MaxAttempts,
         gone' \subseteq Ids, refused' \subseteq Ids
  PROVE  TermInv'
BY DEF TermInv, TypeOK, PagesOK, StatusOK

LEMMA AboutToAppearKeeps ==
  ASSUME TermInv, NEW p \in Pages, AboutToAppear(p) PROVE TermInv'
<1>1. page[p].stage = "new" /\ UNCHANGED <<gone, refused>> /\ CloseSession(page[p].sessionId)
  BY DEF AboutToAppear
<1>2. /\ page[p] \in Page /\ page[p].sessionId = None /\ page[p].sid = None
      /\ page[p].awaits = "nothing" /\ TimersOK(page[p])
  BY <1>1, PageFacts DEF StageOK
<1>3. PICK n \in Nat : n = page[p].openToken + 1
  BY <1>2 DEF Page
<1> DEFINE q == [page[p] EXCEPT !.stage = "shown", !.openToken = n]
           r == CloseCurrent(q)
           s == [r EXCEPT !.awaits = "open", !.token = r.openToken]
<1>4. q \in Page /\ TimersOK(q) /\ q.stage = "shown" /\ q.awaits = "nothing" /\ q.sid = None
  BY <1>2 DEF Page, TimersOK
<1>5. Becomes(p, r) \/ Becomes(p, s)
  BY <1>3 DEF AboutToAppear
<1> HIDE DEF q
<1>6. /\ r \in Page /\ TimersOK(r) /\ r.sessionId = None /\ r.sid = None
      /\ r.stage = "shown" /\ r.awaits = "nothing"
  BY <1>4, CloseCurrentFields
<1> HIDE DEF r
<1>7. /\ s \in Page /\ TimersOK(s) /\ s.sessionId = None /\ s.sid = None
      /\ s.stage = "shown" /\ s.awaits = "open" /\ s.token = s.openToken
  BY <1>6 DEF Page, TimersOK
<1> HIDE DEF s
<1>8. PageOK(r) /\ PageOK(s) /\ Held(r) = {} /\ Held(s) = {} /\ Held(page[p]) = {}
  BY <1>2, <1>6, <1>7, NoneIsNoId DEF PageOK, StageOK, Held
<1>9. PICK t \in {r, s} : page' = [page EXCEPT ![p] = t] /\ UNCHANGED attempts
  BY <1>5 DEF Becomes
<1>10. UNCHANGED <<status, user>>
  BY <1>1, <1>2, NoneIsNoId DEF CloseSession, Live
<1>11. PagesOK' /\ HeldOnce' /\ StatusOK'
  BY <1>8, <1>9, <1>10, PageFacts, Replaced, HeldSame DEF StatusOK
<1> QED BY <1>1, <1>9, <1>11, PageFacts, InvAfter

LEMMA OpenEndsKeeps ==
  ASSUME TermInv, NEW p \in Pages, OpenEnds(p) PROVE TermInv'
<1>1. page[p].awaits = "open" /\ UNCHANGED <<gone, refused>>
  BY DEF OpenEnds
<1>2. page[p] \in Page /\ TimersOK(page[p]) /\ StageOK(page[p])
      /\ page[p].sessionId = None /\ page[p].sid = None
  BY <1>1, PageFacts DEF StageOK
<1>3. CASE \E i \in Ids : Open(i) /\ Becomes(p, [page[p] EXCEPT !.awaits = "result", !.sid = i])
  <2>1. PICK i \in Ids : Open(i) /\ Becomes(p, [page[p] EXCEPT !.awaits = "result", !.sid = i])
    BY <1>3
  <2> DEFINE r == [page[p] EXCEPT !.awaits = "result", !.sid = i]
  <2>2. /\ r \in Page /\ TimersOK(r) /\ StageOK(r) /\ r.sid = i /\ r.sessionId = None
    BY <1>1, <1>2 DEF Page, TimersOK, StageOK
  <2>3. page' = [page EXCEPT ![p] = r] /\ UNCHANGED attempts
    BY <2>1 DEF Becomes
  <2> HIDE DEF r
  <2>4. PageOK(r) /\ Held(r) = Held(page[p]) \cup {i}
    BY <1>2, <2>2, NoneIsNoId DEF PageOK, Held
  <2>5. PagesOK' /\ HeldOnce' /\ StatusOK'
    BY <2>1, <2>3, <2>4, PageFacts, Replaced, HeldMore
  <2> QED BY <1>1, <2>3, <2>5, PageFacts, InvAfter
<1>4. CASE Becomes(p, [page[p] EXCEPT !.awaits = "result"]) /\ UNCHANGED <<status, user>>
  <2> DEFINE r == [page[p] EXCEPT !.awaits = "result"]
  <2>1. r \in Page /\ TimersOK(r) /\ StageOK(r) /\ r.sid = None /\ r.sessionId = None
    BY <1>1, <1>2 DEF Page, TimersOK, StageOK
  <2>2. page' = [page EXCEPT ![p] = r] /\ UNCHANGED attempts
    BY <1>4 DEF Becomes
  <2> HIDE DEF r
  <2>3. PageOK(r) /\ Held(r) = Held(page[p])
    BY <1>2, <2>1 DEF PageOK, Held
  <2>4. PagesOK' /\ HeldOnce' /\ StatusOK'
    BY <1>4, <2>2, <2>3, PageFacts, Replaced, HeldSame DEF StatusOK
  <2> QED BY <1>1, <2>2, <2>4, PageFacts, InvAfter
<1> QED BY <1>3, <1>4 DEF OpenEnds

LEMMA OpenDraftResumesKeeps ==
  ASSUME TermInv, NEW p \in Pages, OpenDraftResumes(p) PROVE TermInv'
<1> DEFINE r == [page[p] EXCEPT !.awaits = "nothing", !.sid = None]
           i == page[p].sid
<1>1. page[p].awaits = "result" /\ UNCHANGED <<gone, refused>>
  BY DEF OpenDraftResumes, Resume
<1>2. /\ page[p] \in Page /\ TimersOK(page[p]) /\ StageOK(page[p])
      /\ page[p].sessionId = None /\ i \in Ids \cup {None}
  BY <1>1, PageFacts DEF StageOK, Page
<1>3. Held(page[p]) = {i} \cap Ids
  BY <1>2, NoneIsNoId DEF Held
<1>4. /\ r \in Page /\ TimersOK(r) /\ r.sessionId = None /\ r.sid = None
      /\ r.awaits = "nothing" /\ r.stage = page[p].stage
      /\ r.token = page[p].token /\ r.openToken = page[p].openToken
  BY <1>2 DEF Page, TimersOK
<1>5. IF Outdated(r) THEN Becomes(p, r) /\ CloseSession(i)
      ELSE Becomes(p, Connected(r, i)) /\ UNCHANGED <<status, user>>
  BY DEF OpenDraftResumes, Resume
<1> HIDE DEF r, i
<1>6. PageOK(r) /\ Held(r) = {}
  BY <1>4, NoneIsNoId DEF PageOK, StageOK, Held
<1>7. CASE Outdated(r)
  <2>1. page' = [page EXCEPT ![p] = r] /\ UNCHANGED attempts /\ CloseSession(i)
    BY <1>5, <1>7 DEF Becomes
  <2>2. i \in Held(page[p]) \cup {None} /\ Held(r) = Held(page[p]) \ {i}
    BY <1>2, <1>3, <1>6
  <2>3. PagesOK' /\ HeldOnce' /\ StatusOK'
    BY <1>6, <2>1, <2>2, PageFacts, Replaced, HeldLess
  <2> QED BY <1>1, <2>1, <2>3, PageFacts, InvAfter
<1>8. CASE ~Outdated(r)
  <2>1. page' = [page EXCEPT ![p] = Connected(r, i)] /\ UNCHANGED <<attempts, status, user>>
    BY <1>5, <1>8 DEF Becomes
  <2>2. CASE i = None
    <3>1. Connected(r, i) = r
      BY <2>2 DEF Connected
    <3>2. Held(r) = Held(page[p])
      BY <2>2, <1>3, <1>6, NoneIsNoId
    <3>3. PagesOK' /\ HeldOnce' /\ StatusOK'
      BY <1>6, <2>1, <3>1, <3>2, PageFacts, Replaced, HeldSame DEF StatusOK
    <3> QED BY <1>1, <2>1, <3>3, PageFacts, InvAfter
  <2>3. CASE i \in Ids
    <3>1. r.stage = "shown"
      BY <1>1, <1>2, <1>4, <1>8 DEF Outdated, Disposed, StageOK, Page
    <3> DEFINE s == Connected(r, i)
    <3>2. /\ s \in Page /\ TimersOK(s) /\ s.sessionId = i /\ s.sid = None
          /\ s.stage = "shown" /\ s.awaits = "nothing"
      BY <1>4, <1>8, <2>3, <3>1, ConnectedFields DEF Outdated
    <3>3. page' = [page EXCEPT ![p] = s]
      BY <2>1
    <3> HIDE DEF s
    <3>4. PageOK(s) /\ Held(s) = Held(page[p])
      BY <1>3, <3>2, <2>3, NoneIsNoId DEF PageOK, StageOK, Held
    <3>5. PagesOK' /\ HeldOnce' /\ StatusOK'
      BY <2>1, <3>3, <3>4, PageFacts, Replaced, HeldSame DEF StatusOK
    <3> QED BY <1>1, <2>1, <3>5, PageFacts, InvAfter
  <2> QED BY <1>2, <2>2, <2>3
<1> QED BY <1>7, <1>8

(* The poll that fired is set again under its own token. *)
LEMMA PollFiresKeeps ==
  ASSUME TermInv, NEW p \in Pages, NEW token \in page[p].polls, PollFires(p, token)
  PROVE  TermInv'
<1> DEFINE r == [page[p] EXCEPT !.polls = @ \ {token}]
<1>1. /\ page[p] \in Page /\ TimersOK(page[p]) /\ StageOK(page[p])
      /\ page[p].sessionId # None /\ token = page[p].pollToken /\ token \in Nat
      /\ page[p].polls = {token} /\ page[p].polling /\ page[p].stage = "shown"
      /\ page[p].timerId = token
  BY PageFacts DEF TimersOK, StageOK, Page
<1>2. r.sessionId # None /\ r.polling /\ r.pollToken = token /\ ~Disposed(r) /\ r.polls = {}
  BY <1>1 DEF Page, Disposed
<1>3. Becomes(p, SchedulePoll(r, token)) /\ UNCHANGED service
  BY <1>2 DEF PollFires
<1>4. SchedulePoll(r, token) = [r EXCEPT !.polls = {token}, !.timerId = token]
  BY <1>2 DEF SchedulePoll
<1> DEFINE s == [r EXCEPT !.polls = {token}, !.timerId = token]
<1>5. s = page[p]
  <2>1. page[p] = [page[p] EXCEPT !.polls = {token}, !.timerId = token]
    BY <1>1 DEF Page
  <2>2. s = [page[p] EXCEPT !.polls = {token}, !.timerId = token]
    BY DEF Page
  <2> QED BY <2>1, <2>2
<1>6. page' = [page EXCEPT ![p] = page[p]] /\ UNCHANGED attempts
  BY <1>3, <1>4, <1>5 DEF Becomes
<1>7. PagesOK' /\ HeldOnce' /\ StatusOK'
  BY <1>3, <1>6, PageFacts, Replaced, HeldSame DEF StatusOK, service
<1> QED BY <1>3, <1>6, <1>7, PageFacts, InvAfter DEF service

(* A page is given up with what it showed; a result it awaits stays. *)
LEMMA SessionClosed ==
  ASSUME TermInv, NEW p \in Pages, NEW r \in Page, TimersOK(r), StageOK(r), r.sid = page[p].sid,
         r.sessionId = None, page' = [page EXCEPT ![p] = r], CloseSession(page[p].sessionId)
  PROVE  PagesOK' /\ HeldOnce' /\ StatusOK'
<1>1. /\ page[p] \in Page /\ StageOK(page[p]) /\ page[p].sessionId \in Ids \cup {None}
      /\ page[p].sessionId # None => page[p].sid = None
  BY PageFacts DEF StageOK, Page
<1>2. /\ PageOK(r) /\ Held(r) = Held(page[p]) \ {page[p].sessionId}
      /\ page[p].sessionId \in Held(page[p]) \cup {None}
  BY <1>1, NoneIsNoId DEF PageOK, Held
<1> QED BY <1>2, PageFacts, Replaced, HeldLess

LEMMA AboutToDisappearKeeps ==
  ASSUME TermInv, NEW p \in Pages, AboutToDisappear(p) PROVE TermInv'
<1>1. /\ page[p].stage = "shown" /\ UNCHANGED <<gone, refused>>
      /\ CloseSession(page[p].sessionId)
  BY DEF AboutToDisappear
<1>2. page[p] \in Page /\ TimersOK(page[p]) /\ StageOK(page[p])
  BY PageFacts
<1>3. PICK n \in Nat : n = page[p].openToken + 1
  BY <1>2 DEF Page
<1> DEFINE q == [page[p] EXCEPT !.stage = "gone", !.openToken = n]
           r == CloseCurrent(q)
<1>4. /\ q \in Page /\ TimersOK(q) /\ q.stage = "gone"
      /\ q.awaits = page[p].awaits /\ q.sid = page[p].sid
  BY <1>2 DEF Page, TimersOK
<1>5. page' = [page EXCEPT ![p] = r] /\ UNCHANGED attempts
  BY <1>3 DEF AboutToDisappear, Becomes
<1> HIDE DEF q
<1>6. /\ r \in Page /\ TimersOK(r) /\ r.sessionId = None /\ r.sid = page[p].sid
      /\ r.stage = "gone" /\ r.awaits = page[p].awaits
  BY <1>4, CloseCurrentFields
<1> HIDE DEF r
<1>7. StageOK(r)
  BY <1>2, <1>6 DEF StageOK
<1>8. PagesOK' /\ HeldOnce' /\ StatusOK'
  BY <1>1, <1>5, <1>6, <1>7, SessionClosed
<1> QED BY <1>1, <1>5, <1>8, PageFacts, InvAfter

(* The timer is set: the page has a session. *)
LEMMA KeepaliveFacts ==
  ASSUME TermInv, NEW p \in Pages, page[p].keepalive
  PROVE  /\ page[p].sessionId \in Ids /\ page[p].sessionId # None
         /\ page[p].stage = "shown" /\ ~NothingToKeep(page[p])
<1>1. page[p] \in Page /\ TimersOK(page[p]) /\ StageOK(page[p])
  BY PageFacts
<1>2. page[p].sessionId # None /\ page[p].sessionId \in Ids \cup {None}
  BY <1>1 DEF TimersOK, Page
<1> QED BY <1>1, <1>2 DEF StageOK, NothingToKeep, Disposed

(* Only the count of failures changes. *)
LEMMA FailuresOnly ==
  ASSUME TermInv, NEW p \in Pages, NEW n \in Nat
  PROVE  LET r == [page[p] EXCEPT !.failures = n]
         IN  /\ PageOK(r) /\ Held(r) = Held(page[p]) /\ r.failures = n
             /\ r.sessionId = page[p].sessionId /\ r.sid = page[p].sid
             /\ r.stage = page[p].stage /\ r.awaits = page[p].awaits
<1> DEFINE r == [page[p] EXCEPT !.failures = n]
<1>1. page[p] \in Page /\ TimersOK(page[p]) /\ StageOK(page[p])
  BY PageFacts
<1>2. /\ r \in Page /\ r.failures = n
      /\ r.sessionId = page[p].sessionId /\ r.sid = page[p].sid
      /\ r.stage = page[p].stage /\ r.awaits = page[p].awaits
      /\ r.token = page[p].token /\ r.openToken = page[p].openToken
      /\ r.polling = page[p].polling /\ r.polls = page[p].polls /\ r.timerId = page[p].timerId
      /\ r.pollToken = page[p].pollToken /\ r.keepalive = page[p].keepalive
  BY <1>1 DEF Page
<1> HIDE DEF r
<1>3. TimersOK(r) /\ StageOK(r) /\ Held(r) = Held(page[p])
  BY <1>1, <1>2 DEF TimersOK, StageOK, Held
<1> QED BY <1>2, <1>3 DEF PageOK, r

LEMMA KeepaliveSucceedsKeeps ==
  ASSUME TermInv, NEW p \in Pages, KeepaliveSucceeds(p) PROVE TermInv'
<1> DEFINE r == [page[p] EXCEPT !.failures = 0]
<1>1. page' = [page EXCEPT ![p] = r] /\ UNCHANGED <<attempts, status, user, gone, refused>>
  BY DEF KeepaliveSucceeds, KeepaliveSent, Becomes
<1>2. PageOK(r) /\ Held(r) = Held(page[p])
  BY FailuresOnly
<1> HIDE DEF r
<1>3. PagesOK' /\ HeldOnce' /\ StatusOK'
  BY <1>1, <1>2, PageFacts, Replaced, HeldSame DEF StatusOK
<1> QED BY <1>1, <1>3, PageFacts, InvAfter

(* Below the attempts a failure is counted, at the attempts the session is *)
(* closed.                                                                 *)
LEMMA KeepaliveFailsKeeps ==
  ASSUME TermInv, NEW p \in Pages, KeepaliveFails(p) PROVE TermInv'
<1>1. page[p].keepalive /\ KeepaliveRefused(page[p].sessionId) /\ UNCHANGED gone
  BY DEF KeepaliveFails, SendsKeepalive
<1>2. page[p].sessionId \in Ids /\ refused' \subseteq Ids
  BY <1>1, KeepaliveFacts, PageFacts DEF KeepaliveRefused
<1>3. PICK n \in Nat : n = page[p].failures + 1
  BY PageFacts DEF Page
<1> DEFINE r == [page[p] EXCEPT !.failures = n]
           s == CloseCurrent(r)
<1>4. /\ PageOK(r) /\ Held(r) = Held(page[p]) /\ r.sessionId = page[p].sessionId
      /\ r.sid = page[p].sid /\ r.stage = page[p].stage /\ r.awaits = page[p].awaits
  BY FailuresOnly
<1>5. AfterFailure(p, r)
  BY <1>3 DEF KeepaliveFails, CountFailure
<1> HIDE DEF r
<1>6. /\ s \in Page /\ TimersOK(s) /\ s.sessionId = None /\ s.sid = page[p].sid
      /\ s.stage = page[p].stage /\ s.awaits = page[p].awaits
      /\ s.token = r.token /\ s.openToken = r.openToken
  BY <1>4, CloseCurrentFields DEF PageOK
<1>7. \/ page' = [page EXCEPT ![p] = s] /\ CloseSession(page[p].sessionId) /\ UNCHANGED attempts
      \/ page' = [page EXCEPT ![p] = r] /\ UNCHANGED <<attempts, status, user>>
  BY <1>4, <1>5 DEF AfterFailure, Becomes
<1> HIDE DEF s
<1>8. StageOK(s)
  BY <1>4, <1>6 DEF StageOK, PageOK
<1>9. PagesOK' /\ HeldOnce' /\ StatusOK'
  <2>1. CASE page' = [page EXCEPT ![p] = s] /\ CloseSession(page[p].sessionId)
    BY <2>1, <1>6, <1>8, SessionClosed
  <2>2. CASE page' = [page EXCEPT ![p] = r] /\ UNCHANGED <<status, user>>
    BY <2>2, <1>4, PageFacts, Replaced, HeldSame DEF StatusOK
  <2> QED BY <2>1, <2>2, <1>7
<1> QED BY <1>1, <1>2, <1>7, <1>9, PageFacts, InvAfter

LEMMA SaveSettingsKeeps ==
  ASSUME TermInv, NEW typed \in 0..(MaxAttempts + 1), SaveSettings(typed) PROVE TermInv'
<1>1. UNCHANGED <<page, status, user, gone, refused>> /\ attempts' = Clamp(typed)
  BY DEF SaveSettings
<1>2. Clamp(typed) \in 1..MaxAttempts
  BY NoneIsNoId DEF Clamp
<1>3. PagesOK' /\ HeldOnce' /\ StatusOK'
  BY <1>1, InvFacts DEF PagesOK, HeldOnce, Live, StatusOK
<1> QED BY <1>1, <1>2, <1>3, InvFacts, InvAfter

LEMMA ServerKeeps ==
  ASSUME TermInv, NEW i \in Ids, Server(i) PROVE TermInv'
<1>1. UNCHANGED <<page, attempts, status, user, refused>> /\ gone' \subseteq Ids
  BY InvFacts DEF Server, ServerGone
<1>2. PagesOK' /\ HeldOnce' /\ StatusOK'
  BY <1>1, InvFacts DEF PagesOK, HeldOnce, Live, StatusOK
<1> QED BY <1>1, <1>2, InvFacts, InvAfter

LEMMA StutterKeeps ==
  ASSUME TermInv, UNCHANGED vars PROVE TermInv'
<1>1. UNCHANGED <<page, attempts, status, user, gone, refused>>
  BY DEF vars
<1>2. PagesOK' /\ HeldOnce' /\ StatusOK'
  BY <1>1, InvFacts DEF PagesOK, HeldOnce, Live, StatusOK
<1> QED BY <1>1, <1>2, InvFacts, InvAfter

LEMMA InitEstablishes ==
  ASSUME Init PROVE TermInv
<1>1. page = [p \in Pages |-> NewPage] /\ attempts \in 1..MaxAttempts /\ ServiceInit
  BY DEF Init
<1>2. NewPage \in Page /\ TimersOK(NewPage) /\ StageOK(NewPage)
  BY DEF NewPage, Page, TimersOK, StageOK
<1>3. Held(NewPage) = {}
  BY NoneIsNoId DEF NewPage, Held
<1>4. PagesOK /\ \A p \in Pages : Held(page[p]) = {}
  BY <1>1, <1>2, <1>3 DEF PagesOK, PageOK
<1>5. /\ StatusOK /\ gone = {} /\ refused = {} /\ \A i \in Ids : ~Live(i)
  BY <1>1 DEF ServiceInit, TableInit, StatusOK, Live
<1>6. HeldOnce
  BY <1>4, <1>5 DEF HeldOnce
<1>7. TypeOK
  BY <1>1, <1>4, <1>5 DEF TypeOK, PagesOK, StatusOK
<1> QED BY <1>4, <1>6, <1>7 DEF TermInv

LEMMA KeepaliveTickKeeps ==
  ASSUME TermInv, NEW p \in Pages, KeepaliveTick(p)
  PROVE  TermInv' /\ (KeepaliveSucceeds(p) \/ KeepaliveFails(p))
<1>1. KeepaliveSucceeds(p) \/ KeepaliveFails(p)
  BY KeepaliveFacts DEF KeepaliveTick
<1> QED BY <1>1, KeepaliveSucceedsKeeps, KeepaliveFailsKeeps

LEMMA NextKeeps ==
  ASSUME TermInv, Next PROVE TermInv'
<1>1. CASE \E p \in Pages : AboutToAppear(p)
  BY <1>1, AboutToAppearKeeps
<1>2. CASE \E p \in Pages : OpenEnds(p)
  BY <1>2, OpenEndsKeeps
<1>3. CASE \E p \in Pages : OpenDraftResumes(p)
  BY <1>3, OpenDraftResumesKeeps
<1>4. CASE \E p \in Pages : \E token \in page[p].polls : PollFires(p, token)
  BY <1>4, PollFiresKeeps
<1>5. CASE \E p \in Pages : KeepaliveTick(p)
  BY <1>5, KeepaliveTickKeeps
<1>6. CASE \E p \in Pages : AboutToDisappear(p)
  BY <1>6, AboutToDisappearKeeps
<1>7. CASE \E typed \in 0..(MaxAttempts + 1) : SaveSettings(typed)
  BY <1>7, SaveSettingsKeeps
<1>8. CASE \E i \in Ids : Server(i)
  BY <1>8, ServerKeeps
<1> QED BY <1>1, <1>2, <1>3, <1>4, <1>5, <1>6, <1>7, <1>8 DEF Next

----------------------------------------------------------------------------
(* The results *)

(* The invariant of the terminal pages: it relates the timers and the stage *)
(* of a page to its session, and the sessions of the pages to the table.    *)
THEOREM TermInvCorrect == Spec => []TermInv
<1>1. TermInv /\ [Next]_vars => TermInv'
  BY NextKeeps, StutterKeeps
<1> QED BY InitEstablishes, <1>1, PTL DEF Spec

(* Every field of a page and of the table keeps its type. *)
THEOREM TypeCorrect == Spec => []TypeOK
<1>1. TermInv => TypeOK
  BY DEF TermInv
<1> QED BY TermInvCorrect, <1>1, PTL

(* An open session is held by exactly one page and a closed one by none,    *)
(* however the user leaves, the open ends late and the keepalive closes.    *)
THEOREM SessionHasOnePageCorrect == Spec => []SessionHasOnePage
<1>1. ASSUME TermInv PROVE SessionHasOnePage
  <2>1. \A p \in Pages, i \in Ids : Holds(p, i) <=> i \in Held(page[p])
    BY DEF Holds, Held
  <2>2. \A p \in Pages, i \in Ids : page[p].sessionId = i => page[p].stage = "shown"
    BY <1>1, PageFacts, NoneIsNoId DEF StageOK
  <2> QED BY <1>1, <2>1, <2>2, InvFacts DEF SessionHasOnePage, HeldOnce
<1> QED BY TermInvCorrect, <1>1, PTL

(* The timers of a page are set exactly while it has a session. *)
THEOREM TimersFollowSessionCorrect == Spec => []TimersFollowSession
<1>1. ASSUME TermInv PROVE TimersFollowSession
  <2>1. ASSUME NEW p \in Pages
        PROVE  /\ page[p].polls = IF page[p].sessionId = None THEN {} ELSE {page[p].pollToken}
               /\ page[p].keepalive <=> page[p].sessionId # None
    BY <1>1, PageFacts DEF TimersOK
  <2> QED BY <2>1 DEF TimersFollowSession
<1> QED BY TermInvCorrect, <1>1, PTL

(* One session ended by one step *)
Ends(i) == Live(i) /\ ~Live(i)'

MayEnd(i) == i \in gone \/ \E p \in Pages : Holds(p, i) /\ Disposed(page[p])'

LEMMA ClosedIsClosed ==
  ASSUME NEW i \in Ids, NEW j, CloseSession(j), StatusOK, Ends(i)
  PROVE  i = j
BY DEF CloseSession, Close, Live, Ends, StatusOK

LEMMA AppearEndsNone ==
  ASSUME TermInv, NEW p \in Pages, AboutToAppear(p), NEW i \in Ids, Ends(i) PROVE FALSE
<1>1. page[p].sessionId = None
  BY PageFacts DEF AboutToAppear, StageOK
<1>2. CloseSession(None)
  BY <1>1 DEF AboutToAppear
<1> QED BY <1>2, InvFacts, ClosedIsClosed, NoneIsNoId

LEMMA OpenEndsEndsNone ==
  ASSUME TermInv, NEW p \in Pages, OpenEnds(p), NEW i \in Ids, Ends(i) PROVE FALSE
<1>1. (\E j \in Ids : Open(j)) \/ UNCHANGED status
  BY DEF OpenEnds
<1> QED BY <1>1, InvFacts DEF Open, Ends, Live, StatusOK

LEMMA ResumeEndsLeft ==
  ASSUME TermInv, NEW p \in Pages, OpenDraftResumes(p), NEW i \in Ids, Ends(i) PROVE MayEnd(i)
<1> DEFINE r == [page[p] EXCEPT !.awaits = "nothing", !.sid = None]
<1>1. page[p].awaits = "result" /\ page[p] \in Page /\ StageOK(page[p])
  BY PageFacts DEF OpenDraftResumes, Resume
<1>2. /\ r.token = page[p].token /\ r.openToken = page[p].openToken
      /\ r.stage = page[p].stage /\ r \in Page
  BY <1>1 DEF Page
<1>3. IF Outdated(r) THEN Becomes(p, r) /\ CloseSession(page[p].sid)
      ELSE UNCHANGED status
  BY DEF OpenDraftResumes, Resume
<1> HIDE DEF r
<1>4. Outdated(r) /\ CloseSession(page[p].sid) /\ Becomes(p, r)
  BY <1>3 DEF Ends, Live
<1>5. i = page[p].sid
  BY <1>4, InvFacts, ClosedIsClosed
<1>6. r.stage = "gone"
  BY <1>1, <1>2, <1>4 DEF Outdated, Disposed, StageOK, Page
<1>7. page'[p] = r
  BY <1>4, InvFacts DEF Becomes, PagesOK
<1> QED BY <1>5, <1>6, <1>7 DEF MayEnd, Holds, Disposed

LEMMA DisappearEndsLeft ==
  ASSUME TermInv, NEW p \in Pages, AboutToDisappear(p), NEW i \in Ids, Ends(i) PROVE MayEnd(i)
<1>1. i = page[p].sessionId
  BY InvFacts, ClosedIsClosed DEF AboutToDisappear
<1>2. page[p] \in Page /\ TimersOK(page[p])
  BY PageFacts
<1>3. PICK n \in Nat : n = page[p].openToken + 1
  BY <1>2 DEF Page
<1> DEFINE q == [page[p] EXCEPT !.stage = "gone", !.openToken = n]
           r == CloseCurrent(q)
<1>4. q \in Page /\ TimersOK(q) /\ q.stage = "gone"
  BY <1>2 DEF Page, TimersOK
<1>5. page' = [page EXCEPT ![p] = r]
  BY <1>3 DEF AboutToDisappear, Becomes
<1> HIDE DEF q
<1>6. r.stage = "gone"
  BY <1>4, CloseCurrentFields
<1> HIDE DEF r
<1>7. page'[p].stage = "gone"
  BY <1>5, <1>6, InvFacts DEF PagesOK
<1> QED BY <1>1, <1>7 DEF MayEnd, Holds, Disposed

LEMMA FailureEndsDead ==
  ASSUME TermInv, NEW p \in Pages, KeepaliveFails(p), NEW i \in Ids, Ends(i) PROVE MayEnd(i)
<1>1. page[p].keepalive /\ KeepaliveRefused(page[p].sessionId)
  BY DEF KeepaliveFails, SendsKeepalive
<1>2. PICK n \in Nat : n = page[p].failures + 1
  BY PageFacts DEF Page
<1> DEFINE r == [page[p] EXCEPT !.failures = n]
<1>3. r.sessionId = page[p].sessionId
  BY FailuresOnly
<1>4. AfterFailure(p, r)
  BY <1>2 DEF KeepaliveFails, CountFailure
<1> HIDE DEF r
<1>5. CloseSession(page[p].sessionId)
  BY <1>3, <1>4 DEF AfterFailure, Ends, Live
<1>6. i = page[p].sessionId
  BY <1>5, InvFacts, ClosedIsClosed
<1> QED BY <1>1, <1>6 DEF KeepaliveRefused, Ends, MayEnd

(* A session is closed only because its page is left or its server has gone. *)
THEOREM OnlyDeadOrLeftIsClosedCorrect == Spec => OnlyDeadOrLeftIsClosed
<1>1. ASSUME TermInv, Next, NEW i \in Ids, Ends(i) PROVE MayEnd(i)
  <2>1. CASE \E p \in Pages : AboutToAppear(p)
    BY <2>1, <1>1, AppearEndsNone
  <2>2. CASE \E p \in Pages : OpenEnds(p)
    BY <2>2, <1>1, OpenEndsEndsNone
  <2>3. CASE \E p \in Pages : OpenDraftResumes(p)
    BY <2>3, <1>1, ResumeEndsLeft
  <2>4. CASE \E p \in Pages : \E token \in page[p].polls : PollFires(p, token)
    BY <2>4, <1>1 DEF PollFires, service, Ends, Live
  <2>5. CASE \E p \in Pages : KeepaliveTick(p)
    <3>1. PICK p \in Pages : KeepaliveSucceeds(p) \/ KeepaliveFails(p)
      BY <2>5, <1>1, KeepaliveTickKeeps
    <3>2. CASE KeepaliveSucceeds(p)
      BY <3>2, <1>1 DEF KeepaliveSucceeds, Ends, Live
    <3> QED BY <3>1, <3>2, <1>1, FailureEndsDead
  <2>6. CASE \E p \in Pages : AboutToDisappear(p)
    BY <2>6, <1>1, DisappearEndsLeft
  <2>7. CASE \E typed \in 0..(MaxAttempts + 1) : SaveSettings(typed)
    BY <2>7, <1>1 DEF SaveSettings, Ends, Live
  <2>8. CASE \E j \in Ids : Server(j)
    BY <2>8, <1>1 DEF Server, ServerGone, Ends, Live
  <2> QED BY <2>1, <2>2, <2>3, <2>4, <2>5, <2>6, <2>7, <2>8, <1>1 DEF Next
<1>2. TermInv /\ [Next]_vars =>
        [\A i \in Ids : Live(i) /\ ~Live(i)' =>
           i \in gone \/ \E p \in Pages : Holds(p, i) /\ Disposed(page[p])']_vars
  BY <1>1 DEF Ends, MayEnd
<1> QED BY TermInvCorrect, <1>2, PTL DEF Spec, OnlyDeadOrLeftIsClosed
=============================================================================
