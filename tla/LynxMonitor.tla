---------------------------- MODULE LynxMonitor ----------------------------
(***************************************************************************)
(* The monitor of the Lynx UI, lynx-app/src/pages/MonitorPage.tsx, written *)
(* as LynxSftp is.  The hosts are shown until one has been picked.         *)
(***************************************************************************)
EXTENDS LynxBridge

Page == [name: {"MonitorPage"}, disposedRef: BOOLEAN, tokenRef: 0..MaxOpens,
         selected: BOOLEAN, loading: BOOLEAN,
         sessionRef: Ids \cup {None},
         timer: BOOLEAN]                  \* an interval runs

Init ==
  /\ page = [name |-> "MonitorPage", disposedRef |-> FALSE, tokenRef |-> 0,
             selected |-> FALSE, loading |-> FALSE,
             sessionRef |-> None, timer |-> FALSE]
  /\ BridgeInit

TypeOK == page \in Page /\ BridgeTypeOK

----------------------------------------------------------------------------

(* pickHost up to its first await *)
Tap ==
  /\ ~page.disposedRef /\ ~page.selected
  /\ taps < MaxTaps /\ Len(asked) < MaxAsked
  /\ taps' = taps + 1
  /\ Ask([method |-> "hasPassword"])
  /\ UNCHANGED <<page, opening, status, user>>

Select(r) == [r EXCEPT !.selected = TRUE, !.loading = TRUE, !.tokenRef = @ + 1]

(* pickHost with the password known: stop the timer, close the session and  *)
(* wait for that, open.  Without a password the page leads on to another.   *)
HasPassword ==
  /\ Answered("hasPassword")
  /\ \/ LET r == [page EXCEPT !.timer = FALSE] IN
          IF page.sessionRef # None
          THEN /\ page' = r
               /\ DoneAsking([method |-> "closeSession", session |-> page.sessionRef, then |-> "select"])
          ELSE page' = Select(r) /\ DoneAsking(OpenCall(page.tokenRef + 1))
     \/ Done /\ UNCHANGED page
  /\ UNCHANGED <<taps, opening, status, user>>

CloseAnswered ==
  /\ Answered("closeSession")
  /\ HostCloses(Head(asked).session)
  /\ LET then == Head(asked).then IN
       IF then = "select"
       THEN page' = Select(page) /\ DoneAsking(OpenCall(page.tokenRef + 1))
       ELSE Done /\ page' = IF then = "endLoading" THEN [page EXCEPT !.loading = FALSE] ELSE page
  /\ UNCHANGED <<taps, opening>>

Metrics(r, then) == Ask([method |-> "fetchMetrics", session |-> r.sessionRef, then |-> then])

(* pickHost after its open; 'finally' ends the loading, at once or after the *)
(* session has been closed, and the first tick comes before the interval.    *)
Resume_tokenOnly(token) ==
  /\ OpenAnswered(token)
  /\ LET i == Result(token)
         r == [page EXCEPT !.sessionRef = i] IN
       IF i = None THEN page' = [page EXCEPT !.loading = FALSE] /\ UNCHANGED asked
       ELSE IF token # page.tokenRef
       THEN page' = page /\ Ask([method |-> "closeSession", session |-> i, then |-> "endLoading"])
       ELSE page' = r /\ Metrics(r, "startInterval")
  /\ UNCHANGED <<taps, status, user>>

Resume_dropsOutdated(token) ==
  /\ OpenAnswered(token)
  /\ LET i == Result(token)
         r == [page EXCEPT !.sessionRef = i] IN
       IF i = None \/ page.disposedRef \/ token # page.tokenRef
       THEN page' = [page EXCEPT !.loading = FALSE] /\ UNCHANGED asked
       ELSE page' = r /\ Metrics(r, "startInterval")
  /\ UNCHANGED <<taps, status, user>>

Resume(token) ==
  /\ OpenAnswered(token)
  /\ LET i == Result(token)
         r == [page EXCEPT !.sessionRef = i] IN
       IF i = None THEN page' = [page EXCEPT !.loading = FALSE] /\ UNCHANGED asked
       ELSE IF page.disposedRef \/ token # page.tokenRef
       THEN page' = page /\ Ask([method |-> "closeSession", session |-> i, then |-> "endLoading"])
       ELSE page' = r /\ Metrics(r, "startInterval")
  /\ UNCHANGED <<taps, status, user>>

(* tick after its call; the first one goes on in pickHost. *)
MetricsAnswered ==
  /\ Answered("fetchMetrics") /\ Done
  /\ page' = IF Head(asked).then = "startInterval"
              THEN [page EXCEPT !.timer = TRUE, !.loading = FALSE] ELSE page
  /\ UNCHANGED <<taps, opening, status, user>>

(* A tick of the interval, or of the button, which waits while loading *)
Tick ==
  /\ page.timer \/ (page.selected /\ ~page.loading /\ ~page.disposedRef)
  /\ page.sessionRef # None /\ Len(asked) < MaxAsked
  /\ Metrics(page, "return")
  /\ UNCHANGED <<page, taps, opening, status, user>>

(* The cleanup of the page's effect *)
Unmount ==
  /\ ~page.disposedRef
  /\ page' = [page EXCEPT !.disposedRef = TRUE, !.tokenRef = @ + 1, !.timer = FALSE]
  /\ AskClose(page.sessionRef)
  /\ UNCHANGED <<taps, opening, status, user>>

Answer == HasPassword \/ MetricsAnswered \/ CloseAnswered

Next ==
  \/ Tap \/ Answer \/ Tick \/ Unmount
  \/ \E token \in Opens : Resume(token)
=============================================================================
