------------------------------ MODULE LynxSftp ------------------------------
(***************************************************************************)
(* The SFTP page of the Lynx UI, lynx-app/src/pages/SFTPPage.tsx: an action*)
(* runs from a tap or the answer of a call to the next await.  A change of *)
(* React state is taken to be on the screen before the next tap.           *)
(***************************************************************************)
EXTENDS LynxBridge

CONSTANTS Dirs, Root    \* paths the user can navigate to, and '/'

Page == [name: {"SFTPPage"}, disposedRef: BOOLEAN, tokenRef: 0..MaxOpens,
         connecting: BOOLEAN, connected: BOOLEAN,
         sessionRef: Ids \cup {None}, currentPath: Dirs,
         files: [session: Ids \cup {None}, path: Dirs]]

Init ==
  /\ page = [name |-> "SFTPPage", disposedRef |-> FALSE, tokenRef |-> 0,
             connecting |-> FALSE, connected |-> FALSE,
             sessionRef |-> None, currentPath |-> Root,
             files |-> [session |-> None, path |-> Root]]
  /\ BridgeInit

TypeOK == page \in Page /\ BridgeTypeOK

----------------------------------------------------------------------------

(* listFiles up to its await; then: what its caller does afterwards. *)
ListFiles_oneAtATime(r, path, then) ==
  /\ page' = IF asked = <<>> THEN [r EXCEPT !.currentPath = path] ELSE r
  /\ Ask([method |-> "listFiles", session |-> r.sessionRef, path |-> path, then |-> then])

ListFiles(r, path, then) ==
  /\ page' = [r EXCEPT !.currentPath = path]
  /\ Ask([method |-> "listFiles", session |-> r.sessionRef, path |-> path, then |-> then])

(* connect up to its first await: the hosts are shown while not connected. *)
Tap ==
  /\ ~page.disposedRef /\ ~page.connected /\ ~page.connecting
  /\ taps < MaxTaps /\ Len(asked) < MaxAsked
  /\ taps' = taps + 1
  /\ Ask([method |-> "hasPassword"])
  /\ UNCHANGED <<page, opening, status, user>>

(* Without a password the page leads on to another, which is to leave it. *)
HasPassword ==
  /\ Answered("hasPassword")
  /\ \/ /\ page' = [page EXCEPT !.tokenRef = @ + 1, !.connecting = TRUE]
        /\ DoneAsking(OpenCall(page.tokenRef + 1))
     \/ Done /\ UNCHANGED page
  /\ UNCHANGED <<taps, opening, status, user>>

EndConnect(r) == [r EXCEPT !.connecting = FALSE]

(* connect after its open: the refs decide, and every way ends in 'finally'. *)
Resume_forgetsFinally(token) ==
  /\ OpenAnswered(token)
  /\ LET i == Result(token) IN
       IF page.disposedRef \/ token # page.tokenRef
       THEN AskClose(i) /\ page' = page
       ELSE IF i = None THEN page' = page /\ UNCHANGED asked
       ELSE ListFiles([page EXCEPT !.sessionRef = i, !.connected = TRUE], Root, "endConnect")
  /\ UNCHANGED <<taps, status, user>>

Resume_keepsLate(token) ==
  /\ OpenAnswered(token)
  /\ LET i == Result(token) IN
       IF page.disposedRef \/ token # page.tokenRef \/ i = None
       THEN page' = EndConnect(page) /\ UNCHANGED asked
       ELSE ListFiles([page EXCEPT !.sessionRef = i, !.connected = TRUE], Root, "endConnect")
  /\ UNCHANGED <<taps, status, user>>

Resume(token) ==
  /\ OpenAnswered(token)
  /\ LET i == Result(token) IN
       IF i = None THEN page' = EndConnect(page) /\ UNCHANGED asked
       ELSE IF page.disposedRef \/ token # page.tokenRef
       THEN Ask([method |-> "closeSession", session |-> i, then |-> "endConnect"]) /\ UNCHANGED page
       ELSE ListFiles([page EXCEPT !.sessionRef = i, !.connected = TRUE], Root, "endConnect")
  /\ UNCHANGED <<taps, status, user>>

(* navigate of the page *)
Navigate(path) ==
  /\ page.connected /\ ~page.disposedRef /\ Len(asked) < MaxAsked
  /\ ListFiles(page, path, "return")
  /\ UNCHANGED <<taps, opening, status, user>>

Continue(r, then) == IF then = "endConnect" THEN EndConnect(r) ELSE r

(* listFiles after its await.  A command on a session that is gone fails in  *)
(* kessh.cpp; SSHEngine catches that, and the page gets an empty list.       *)
ListAnswered ==
  /\ Answered("listFiles") /\ Done
  /\ LET call == Head(asked)
         from == IF Live(call.session) THEN call.session ELSE None
     IN page' = Continue([page EXCEPT !.files = [session |-> from, path |-> call.path]], call.then)
  /\ UNCHANGED <<taps, opening, status, user>>

CloseAnswered ==
  /\ Answered("closeSession") /\ Done
  /\ HostCloses(Head(asked).session)
  /\ page' = Continue(page, Head(asked).then)
  /\ UNCHANGED <<taps, opening>>

(* The cleanup of the page's effect *)
Unmount ==
  /\ ~page.disposedRef
  /\ page' = [page EXCEPT !.disposedRef = TRUE, !.tokenRef = @ + 1]
  /\ AskClose(page.sessionRef)
  /\ UNCHANGED <<taps, opening, status, user>>

Answer == HasPassword \/ ListAnswered \/ CloseAnswered

Next ==
  \/ Tap \/ Answer \/ Unmount
  \/ \E token \in Opens : Resume(token)
  \/ \E path \in Dirs : Navigate(path)
=============================================================================
