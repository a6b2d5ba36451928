----------------------------- MODULE LynxPages -----------------------------
(***************************************************************************)
(* The pages of the Lynx UI that hold a session: the user opens one of     *)
(* them, and it meets the host through the bridge they share.              *)
(***************************************************************************)
EXTENDS LynxBridge

CONSTANTS Dirs, Root    \* paths the user can navigate to, and '/'

ASSUME RootAssumption == Root \in Dirs

Sftp == INSTANCE LynxSftp
Monitor == INSTANCE LynxMonitor
Scp == INSTANCE LynxScp

(* The page the user has opened *)
Shows(name) == page.name = name

Init == Sftp!Init \/ Monitor!Init \/ Scp!Init

TypeOK ==
  \/ Shows("SFTPPage") /\ Sftp!TypeOK
  \/ Shows("MonitorPage") /\ Monitor!TypeOK
  \/ Shows("SCPPage") /\ Scp!TypeOK

(* The page goes on after the oldest of its short calls *)
Answer ==
  \/ Shows("SFTPPage") /\ Sftp!Answer
  \/ Shows("MonitorPage") /\ Monitor!Answer
  \/ Shows("SCPPage") /\ Scp!Answer

(* The page goes on after an open *)
Resume(n) ==
  \/ Shows("SFTPPage") /\ Sftp!Resume(n)
  \/ Shows("MonitorPage") /\ Monitor!Resume(n)
  \/ Shows("SCPPage") /\ Scp!Resume(n)

Next ==
  \/ HostStartsOpen \/ \E n \in Opens : OpenEnds(n)
  \/ Shows("SFTPPage") /\ Sftp!Next
  \/ Shows("MonitorPage") /\ Monitor!Next
  \/ Shows("SCPPage") /\ Scp!Next

(* The host answers what it is asked, and the page goes on; a user owes      *)
(* nothing.                                                                  *)
Spec ==
  /\ Init /\ [][Next]_vars
  /\ WF_vars(Answer) /\ WF_vars(HostStartsOpen)
  /\ \A n \in Opens : WF_vars(OpenEnds(n)) /\ WF_vars(Resume(n))

----------------------------------------------------------------------------
(* Properties *)

(* What the SFTP page shows is what the path above it says, as soon as no    *)
(* list is under way, however many the user asked for (SFTPPage.tsx:54).     *)
FilesFollowPath ==
  Shows("SFTPPage") /\ page.connected /\ (\A k \in DOMAIN asked : asked[k].method # "listFiles")
    => page.files = [session |-> page.sessionRef, path |-> page.currentPath]

(* Leaving a page closes its session and those still being opened for it:    *)
(* the cleanup of its effect and what follows an open share that work.       *)
UnmountCloses ==
  \A i \in Ids : page.disposedRef /\ (page.sessionRef = i \/ OnItsWay(i)) ~> ~Live(i)

(* The hosts of the SFTP page can be tapped again after a connect, outdated  *)
(* or not: every way out of connect passes its 'finally' (line 112).         *)
ConnectingEnds ==
  Shows("SFTPPage") /\ page.connecting ~> ~(Shows("SFTPPage") /\ page.connecting)

(* However often a host was tapped before the first answer came, one session *)
(* at most is the page's, and every other is on its way to be closed.  The   *)
(* SFTP page keeps this for two taps; a third one gets through when the      *)
(* 'finally' of an outdated connect ends the waiting of the newer one.       *)
NoSessionOutOfReach ==
  (Shows("SFTPPage") => taps <= 2)
    => \A i \in Ids : Live(i) => page.sessionRef = i \/ OnItsWay(i)
=============================================================================
