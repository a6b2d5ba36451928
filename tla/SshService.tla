---- MODULE SshService ----
(***************************************************************************)
(* The session table as the pages meet it through SSHEngine.ets: the       *)
(* actions of SessionTable, which KesshNative implements, and what the     *)
(* server of a session can still do.                                       *)
(***************************************************************************)
EXTENDS SessionTable

VARIABLES
  gone,      \* the open sessions whose server refuses packets
  refused    \* the sessions a keepalive has failed on

ServiceInit ==
  /\ TableInit
  /\ gone = {}
  /\ refused = {}

Live(i) == i \in Ids /\ status[i] = "open"

(* termClose, closeSession: an id that is not in the table is only logged. *)
CloseSession(i) == IF Live(i) THEN Close(i) ELSE UNCHANGED <<status, user>>

(* KeepaliveFailureIsFinal of KesshNative: no success after a failure.  With *)
(* a server that has gone a keepalive fails once a packet is due.            *)
KeepaliveSent(i) == Live(i) /\ i \notin refused /\ UNCHANGED refused

KeepaliveRefused(i) == (~Live(i) \/ i \in gone) /\ refused' = refused \cup {i}

ServerGone(i) ==
  /\ Live(i)
  /\ gone' = gone \cup {i}
  /\ UNCHANGED <<status, user, refused>>
====
