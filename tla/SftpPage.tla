------------------------------ MODULE SftpPage ------------------------------
(***************************************************************************)
(* The SFTP page, Application/entry/src/main/ets/pages/SFTPPage.ets, over  *)
(* the session table.                                                      *)
(*                                                                         *)
(* Handlers, the timer callback and the two halves of connect around its   *)
(* await each run to their end on the one JavaScript thread: an action is  *)
(* one of them.                                                            *)
(***************************************************************************)
EXTENDS SftpPaths, SshService

CONSTANTS
  Chars,         \* the characters of paths
  DirNames,      \* names of directories on the servers
  MaxDepth,      \* bound on how deep the user goes
  MaxConnects,   \* bound on the connects of the user
  MaxAttempts    \* bound on the keepalive attempts of the settings (10)

(* A name with blanks in a row, or at its beginning, is not the one that a   *)
(* line of 'ls -la' gives back: the page cannot go there.                    *)
ASSUME SftpAssumption ==
  /\ "/" \in Chars /\ DirNames \subseteq Seq(Chars)
  /\ \A name \in DirNames :
       /\ name # <<>>
       /\ \A k \in DOMAIN name : name[k] # "/" /\ (name[k] = " " => k > 1 /\ name[k - 1] # " ")
  /\ MaxDepth \in Nat /\ MaxConnects \in Nat
  /\ MaxAttempts \in Nat \ {0}
  /\ {None, "none", "running", "failed"} \cap Ids = {} /\ None \notin {"none", "running", "failed"}

VARIABLES
  page,       \* the fields of the page
  opening,    \* the connects at their await, by token: what their open has come to
  attempts,   \* SettingsStore.sessionKeepaliveAttempts
  chosen      \* the names of the directories the user has gone down through

service == <<status, user, gone, refused>>
vars == <<page, opening, attempts, chosen, status, user, gone, refused>>

(* Where the files on the screen come from *)
NoFiles == [session |-> None, path |-> RootPath]

Page == [disposed: BOOLEAN,
         connectToken: 0..(MaxConnects + 1),
         connecting: BOOLEAN,
         connected: BOOLEAN,
         sessionId: Ids \cup {None},       \* None: -1
         keepalive: BOOLEAN,               \* the keepalive timer is set
         failures: Nat,                    \* keepaliveFailures
         currentPath: Seq(Chars),
         files: [session: Ids \cup {None}, path: Seq(Chars)]]

TypeOK ==
  /\ page \in Page /\ page.failures < attempts
  /\ opening \in [1..MaxConnects -> Ids \cup {"none", "running", "failed"}]
  /\ attempts \in 1..MaxAttempts
  /\ chosen \in Seq(DirNames) /\ Len(chosen) <= MaxDepth
  /\ status \in [Ids -> {"fresh", "open", "closed"}] /\ user = None
  /\ gone \subseteq Ids /\ refused \subseteq Ids

Init ==
  /\ page = [disposed |-> FALSE, connectToken |-> 0, connecting |-> FALSE, connected |-> FALSE,
             sessionId |-> None, keepalive |-> FALSE, failures |-> 0,
             currentPath |-> RootPath, files |-> NoFiles]
  /\ opening = [t \in 1..MaxConnects |-> "none"]
  /\ attempts \in 1..MaxAttempts
  /\ chosen = <<>>
  /\ ServiceInit

----------------------------------------------------------------------------
(* The methods of the page *)

StopKeepalive(r) == [r EXCEPT !.keepalive = FALSE, !.failures = 0]

StartKeepalive(r) == [StopKeepalive(r) EXCEPT !.keepalive = TRUE]

(* closeCurrentSession; the call of closeSession is CloseSession(r.sessionId) *)
CloseCurrent_keepsConnecting(r) ==
  [StopKeepalive(r) EXCEPT !.sessionId = None, !.connected = FALSE]

CloseCurrent(r) ==
  [StopKeepalive(r) EXCEPT !.sessionId = None, !.connected = FALSE, !.connecting = FALSE]

(* listFiles: a command that fails yields an empty list. *)
ListFiles_afterwards(r, path) ==
  IF r.sessionId = None THEN r
  ELSE [r EXCEPT !.currentPath = path, !.files = [session |-> r.sessionId, path |-> r.currentPath]]

ListFiles(r, path) ==
  IF r.sessionId = None THEN r
  ELSE [r EXCEPT !.currentPath = path, !.files = [session |-> r.sessionId, path |-> path]]

----------------------------------------------------------------------------

(* connect up to its await; without a saved password the page only leads on *)
(* to another.  The hosts are on the screen while the page is not connected. *)
Connect(token) ==
  /\ ~page.disposed /\ ~page.connected /\ ~page.connecting
  /\ token = page.connectToken + 1 /\ token \in 1..MaxConnects
  /\ page' = [CloseCurrent(page) EXCEPT !.connectToken = token, !.connecting = TRUE,
                                        !.currentPath = RootPath, !.files = NoFiles]
  /\ chosen' = <<>>
  /\ CloseSession(page.sessionId)
  /\ opening' = [opening EXCEPT ![token] = "running"]
  /\ UNCHANGED <<attempts, gone, refused>>

(* The native open ends with a session or with -1. *)
OpenEnds(token) ==
  /\ opening[token] = "running"
  /\ \/ \E i \in Ids : Open(i) /\ opening' = [opening EXCEPT ![token] = i]
     \/ opening' = [opening EXCEPT ![token] = "failed"] /\ UNCHANGED <<status, user>>
  /\ UNCHANGED <<page, attempts, chosen, gone, refused>>

Outdated_never(token) == FALSE

Outdated(token) == page.disposed \/ token # page.connectToken

Connected(r, i) ==
  ListFiles(StartKeepalive([r EXCEPT !.connecting = FALSE, !.sessionId = i, !.connected = TRUE]), RootPath)

(* connect after its await *)
Resume(token) ==
  /\ opening[token] \in Ids \cup {"failed"}
  /\ LET i == IF opening[token] = "failed" THEN None ELSE opening[token] IN
       IF Outdated(token) THEN CloseSession(i) /\ UNCHANGED page
       ELSE /\ page' = IF i = None THEN [page EXCEPT !.connecting = FALSE] ELSE Connected(page, i)
            /\ UNCHANGED <<status, user>>
  /\ opening' = [opening EXCEPT ![token] = "none"]
  /\ UNCHANGED <<attempts, chosen, gone, refused>>

(* navigate: a directory of the list, or the '..' that it shows below '/' *)
Navigate(path) ==
  /\ page.connected
  /\ page' = ListFiles(page, path)
  /\ UNCHANGED <<opening, attempts, service>>

GoDown(name) ==
  /\ Len(chosen) < MaxDepth
  /\ chosen' = Append(chosen, name)
  /\ Navigate(Down(page.currentPath, ParsedName(name)))

GoUp ==
  /\ page.currentPath # RootPath
  /\ chosen' = Front(chosen)
  /\ Navigate(Up(page.currentPath))

----------------------------------------------------------------------------
(* The callback of the keepalive timer *)

KeepaliveSucceeds ==
  /\ KeepaliveSent(page.sessionId)
  /\ page' = [page EXCEPT !.failures = 0]
  /\ UNCHANGED <<opening, attempts, chosen, status, user, gone>>

CountFailure_never(r) == r

CountFailure(r) == [r EXCEPT !.failures = @ + 1]

KeepaliveFails_oneMore ==
  /\ page.keepalive /\ KeepaliveRefused(page.sessionId)
  /\ LET r == CountFailure(page) IN
       IF r.failures > attempts
       THEN page' = CloseCurrent(r) /\ CloseSession(page.sessionId)
       ELSE page' = r /\ UNCHANGED <<status, user>>
  /\ UNCHANGED <<opening, attempts, chosen, gone>>

KeepaliveFails ==
  /\ page.keepalive /\ KeepaliveRefused(page.sessionId)
  /\ LET r == CountFailure(page) IN
       IF r.failures >= attempts
       THEN page' = CloseCurrent(r) /\ CloseSession(page.sessionId)
       ELSE page' = r /\ UNCHANGED <<status, user>>
  /\ UNCHANGED <<opening, attempts, chosen, gone>>

KeepaliveTick == page.keepalive /\ (KeepaliveSucceeds \/ KeepaliveFails)

AboutToDisappear ==
  /\ ~page.disposed
  /\ page' = [CloseCurrent(page) EXCEPT !.disposed = TRUE, !.connectToken = @ + 1]
  /\ CloseSession(page.sessionId)
  /\ UNCHANGED <<opening, attempts, chosen, gone, refused>>

Server(i) == ServerGone(i) /\ UNCHANGED <<page, opening, attempts, chosen>>

Next ==
  \/ \E token \in 1..MaxConnects : Connect(token) \/ OpenEnds(token) \/ Resume(token)
  \/ \E name \in DirNames : GoDown(name)
  \/ GoUp \/ KeepaliveTick \/ AboutToDisappear
  \/ \E i \in Ids : Server(i)

Spec == Init /\ [][Next]_vars

(* A native open ends, its promise is settled, and the keepalive timer keeps *)
(* firing and meets the server that refuses its packet.                      *)
FairSpec ==
  /\ Spec
  /\ \A token \in 1..MaxConnects : WF_vars(OpenEnds(token)) /\ WF_vars(Resume(token))
  /\ WF_vars(KeepaliveFails)

----------------------------------------------------------------------------
(* Properties *)

(* Every open session is the one the page shows or the result of a connect   *)
(* that will still look at it, and only of one: leaving during an open, a    *)
(* connect after a lost session and a late result leave none behind, and     *)
(* neither holds a closed one.  A page that has been left has none.          *)
SessionIsHeldOnce ==
  /\ page.disposed => page.sessionId = None
  /\ \A i \in Ids :
    LET connects == {t \in 1..MaxConnects : opening[t] = i} IN
      /\ Live(i) <=> (page.sessionId = i \/ connects # {})
      /\ page.sessionId = i => connects = {}
      /\ \A s, t \in connects : s = t

(* The screen agrees with the session: the page shows a list exactly while   *)
(* it has a session, keeps it alive exactly that long, and the list is that  *)
(* of this session and of the path above it, never of an earlier host.       *)
ScreenShowsSession ==
  /\ page.connected <=> page.sessionId # None
  /\ page.keepalive <=> page.connected
  /\ page.connected => page.files = [session |-> page.sessionId, path |-> page.currentPath]
  /\ page.connecting => ~page.connected /\ page.files = NoFiles

(* Whatever way the user took, the path is that of the directory chosen, so  *)
(* that the next list is the one asked for: going up undoes going down, and  *)
(* the root is '/' however it is reached.                                    *)
PathNamesDirectory ==
  page.connected =>
    page.currentPath = IF chosen = <<>> THEN RootPath
                       ELSE FlattenSeq([k \in DOMAIN chosen |-> RootPath \o chosen[k]])

(* The hosts can be tapped again: an open that ends, in whatever way, ends   *)
(* the waiting of the page.                                                  *)
ConnectingEnds == page.connecting ~> ~page.connecting

(* A session whose server has gone is closed by its keepalive or by leaving. *)
DeadSessionIsClosed == \A i \in Ids : (page.sessionId = i /\ i \in gone) ~> ~Live(i)
=============================================================================
