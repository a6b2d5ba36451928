------------------------------ MODULE LynxScp ------------------------------
(***************************************************************************)
(* The SCP page of the Lynx UI, lynx-app/src/pages/SCPPage.tsx, up to the  *)
(* point where it is connected, written as LynxSftp is.  Its effect runs   *)
(* again when the hosts have been loaded, after its cleanup has run.       *)
(***************************************************************************)
EXTENDS LynxBridge

Page == [name: {"SCPPage"}, mounted: BOOLEAN, disposedRef: BOOLEAN,
         connected: BOOLEAN,
         hosts: BOOLEAN,                  \* the hosts have been loaded
         recordId: BOOLEAN,               \* the page was given a host
         sessionRef: Ids \cup {None}]

Init ==
  /\ \E given \in BOOLEAN :
       page = [name |-> "SCPPage", mounted |-> TRUE, disposedRef |-> FALSE,
               connected |-> FALSE, hosts |-> FALSE,
               recordId |-> given, sessionRef |-> None]
  /\ BridgeInit

TypeOK == page \in Page /\ BridgeTypeOK

----------------------------------------------------------------------------

(* connect up to its first await *)
Connect == taps' = taps + 1 /\ Ask([method |-> "hasPassword"])

Cleanup(r) == [r EXCEPT !.disposedRef = TRUE]

(* useConnections has its answer: cleanup, then the effect once more. *)
HostsLoaded ==
  /\ page.mounted /\ ~page.hosts /\ taps < MaxTaps
  /\ page' = [Cleanup(page) EXCEPT !.hosts = TRUE]
  /\ IF page.recordId THEN Connect ELSE UNCHANGED <<taps, asked>>
  /\ UNCHANGED <<opening, status, user>>

Tap ==
  /\ page.mounted /\ page.hosts /\ ~page.connected
  /\ taps < MaxTaps /\ Len(asked) < MaxAsked
  /\ Connect
  /\ UNCHANGED <<page, opening, status, user>>

(* Without a password the page leads on to another. *)
HasPassword ==
  /\ Answered("hasPassword")
  /\ \/ \E n \in Opens :
          /\ opening[n] = "none" /\ \A k \in DOMAIN asked : asked[k] # OpenCall(n)
          /\ DoneAsking(OpenCall(n))
     \/ Done
  /\ UNCHANGED <<page, taps, opening, status, user>>

(* connect after its open, and then after a listFiles *)
Resume_dropsLate(n) ==
  /\ OpenAnswered(n)
  /\ page' = IF page.disposedRef \/ Result(n) = None THEN page
             ELSE [page EXCEPT !.sessionRef = Result(n), !.connected = TRUE]
  /\ UNCHANGED <<taps, asked, status, user>>

Resume(n) ==
  /\ OpenAnswered(n)
  /\ IF page.disposedRef
     THEN AskClose(Result(n)) /\ UNCHANGED page
     ELSE /\ page' = IF Result(n) = None THEN page
                     ELSE [page EXCEPT !.sessionRef = Result(n), !.connected = TRUE]
          /\ UNCHANGED asked
  /\ UNCHANGED <<taps, status, user>>

CloseAnswered ==
  /\ Answered("closeSession") /\ Done
  /\ HostCloses(Head(asked).session)
  /\ UNCHANGED <<page, taps, opening>>

Unmount ==
  /\ page.mounted
  /\ page' = [Cleanup(page) EXCEPT !.mounted = FALSE]
  /\ AskClose(page.sessionRef)
  /\ UNCHANGED <<taps, opening, status, user>>

Answer == HasPassword \/ CloseAnswered

Next ==
  \/ HostsLoaded \/ Tap \/ Answer \/ Unmount
  \/ \E n \in Opens : Resume(n)
=============================================================================
