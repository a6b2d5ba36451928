---- MODULE SessionTable ----
(***************************************************************************)
(* What kessh.cpp promises the JavaScript above it about the session table:*)
(* an id is opened once and closed once, only one caller at a time works   *)
(* on a session, and nobody closes a session while it is worked on.        *)
(***************************************************************************)

CONSTANTS
  Ids,       \* session ids
  Callers,   \* the threads that run transfers
  None       \* no id, no user

VARIABLES status,   \* whether an id was ever issued, and whether it is open
          user      \* the caller whose transfer runs on a session, and on which

tvars == <<status, user>>

TableInit ==
  /\ status = [i \in Ids |-> "fresh"]
  /\ user = None

Open(i) ==
  /\ status[i] = "fresh"
  /\ status' = [status EXCEPT ![i] = "open"]
  /\ UNCHANGED user

Close(i) ==
  /\ status[i] = "open"
  /\ user = None
  /\ status' = [status EXCEPT ![i] = "closed"]
  /\ UNCHANGED user

Acquire(c, i) ==
  /\ status[i] = "open"
  /\ user = None
  /\ user' = <<c, i>>
  /\ UNCHANGED status

Release ==
  /\ user # None
  /\ user' = None
  /\ UNCHANGED status

TableNext ==
  \/ \E i \in Ids : Open(i) \/ Close(i) \/ \E c \in Callers : Acquire(c, i)
  \/ Release

TableSpec == TableInit /\ [][TableNext]_tvars
====
