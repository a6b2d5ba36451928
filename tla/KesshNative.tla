---- MODULE KesshNative ----
(***************************************************************************)
(* The native session module, Application/entry/src/main/cpp/kessh.cpp.    *)
(*                                                                         *)
(* Its static variables (the session table, next_session_id, the mutexes,  *)
(* the keepalive configuration) are shared by the JavaScript (UI) thread,  *)
(* by the taskpool threads of the Monitor page and by the worker threads   *)
(* of openSessionAsync.  A call is an invocation, a wait for session_mutex *)
(* and the body the mutex protects; opening a session runs almost entirely *)
(* outside the mutex.                                                      *)
(*                                                                         *)
(* libssh2 is abstracted to what decides the control flow of kessh.cpp:    *)
(* whether its session is in blocking mode, whether it has channels, and   *)
(* whether the server answers, is silent or has gone.                      *)
(***************************************************************************)
EXTENDS Integers, Sequences, FiniteSets

CONSTANTS
  UI,       \* the JavaScript thread
  Tasks,    \* taskpool threads; they only run executeCommand
  Jobs,     \* napi async works: each runs open_session_internal on a worker
  Socks,    \* the file descriptors sockets may get
  Libs,     \* the LIBSSH2_SESSION objects the heap may hold
  MaxId,    \* bound on next_session_id
  Chunks,   \* chunks in a file or in the output of a command
  None      \* "no thread", "no socket", "no session": nullptr and -1

Ids == 1..MaxId
Callers == {UI} \cup Tasks
Openers == {UI} \cup Jobs
Threads == Callers \cup Jobs

KesshSession == [lib: Libs, sock: Socks, failed: BOOLEAN]

ASSUME ConstantsAssumption ==
  /\ MaxId \in Nat
  /\ Chunks \in Nat
  /\ UI \notin Tasks \cup Jobs
  /\ Tasks \cap Jobs = {}
  /\ None \notin Threads \cup Socks \cup Libs
  /\ None \notin KesshSession /\ None \notin (Callers \X Ids)

(***************************************************************************)
(* Phases of a thread.  A lock phase waits for session_mutex; a body phase *)
(* holds it.                                                               *)
(***************************************************************************)
OpenPhases == {"connect", "init", "create", "handshake", "auth", "channel",
               "pty", "shell", "register"}
LibPhases == {"handshake", "auth", "channel", "pty", "shell", "register"}
SockPhases == {"init", "create"} \cup LibPhases
Transfers == {"exec", "download", "upload"}
LockPhases == {"close", "keepalive", "write", "read"} \cup Transfers
BodyPhases == {"open", "start", "body", "finish", "report"}
Phases == {"idle", "queued", "executed"} \cup OpenPhases \cup LockPhases \cup BodyPhases

VARIABLES
  sessions,   \* std::map<int, KesshSession*>: None for an id not in the map
  nextId,     \* next_session_id
  mutex,      \* the thread holding session_mutex, or None
  inited,     \* libssh2_initialized
  interval,   \* keepalive_interval_seconds is positive
  sockets,    \* the open file descriptors
  lib,        \* the LIBSSH2_SESSION objects
  pc,         \* the phase of each thread
  sock,       \* open_session_internal: int sock
  own,        \* open_session_internal: LIBSSH2_SESSION *session
  sid,        \* int32_t session_id of the call; the result of an async open
  op,         \* which transfer a caller in a body phase runs
  done,       \* total_written, or the chunks read so far
  upload,     \* the content libssh2 took, and what 'cat >' made of it
  known       \* the ids JavaScript has been given

vars == <<sessions, nextId, mutex, inited, interval, sockets, lib, pc, sock,
          own, sid, op, done, upload, known>>

(* The chunks handed to the channel, and those in the remote file *)
Upload == [taken: Seq(1..Chunks), file: Seq(1..Chunks)]

NoUpload == [taken |-> <<>>, file |-> <<>>]

LibSession == [alloc: {"free", "live", "leaked"}, blocking: BOOLEAN,
               channel: BOOLEAN, keepalive: BOOLEAN,
               peer: {"up", "silent", "closed"}]

FreeLib == [alloc |-> "free", blocking |-> TRUE, channel |-> FALSE,
            keepalive |-> FALSE, peer |-> "up"]
NewLib == [FreeLib EXCEPT !.alloc = "live"]
LeakedLib == [FreeLib EXCEPT !.alloc = "leaked"]

TypeOK ==
  /\ sessions \in [Ids -> KesshSession \cup {None}]
  /\ nextId \in 1..(MaxId + 1)
  /\ mutex \in Callers \cup {None}
  /\ inited \in BOOLEAN
  /\ interval \in BOOLEAN
  /\ sockets \subseteq Socks
  /\ lib \in [Libs -> LibSession]
  /\ pc \in [Threads -> Phases]
  /\ sock \in [Threads -> Socks \cup {None}]
  /\ own \in [Threads -> Libs \cup {None}]
  /\ sid \in [Threads -> Ids \cup {0}]
  /\ op \in [Callers -> Transfers]
  /\ done \in [Callers -> 0..Chunks]
  /\ upload \in [Callers -> Upload]
  /\ known \subseteq Ids

Init ==
  /\ sessions = [i \in Ids |-> None]
  /\ nextId = 1
  /\ mutex = None
  /\ inited = FALSE
  /\ interval = TRUE
  /\ sockets = {}
  /\ lib = [l \in Libs |-> FreeLib]
  /\ pc = [t \in Threads |-> "idle"]
  /\ sock = [t \in Threads |-> None]
  /\ own = [t \in Threads |-> None]
  /\ sid = [t \in Threads |-> 0]
  /\ op = [c \in Callers |-> "exec"]
  /\ done = [c \in Callers |-> 0]
  /\ upload = [c \in Callers |-> NoUpload]
  /\ known = {}

Registered(i) == i \in Ids /\ sessions[i] # None

----------------------------------------------------------------------------
(* libssh2, as kessh.cpp meets it *)

(* What a call that needs an answer of the server can return.  In blocking *)
(* mode a silent server is reported after api_timeout (5 s); in            *)
(* non-blocking mode every wait is reported at once.                       *)
Answers(l) ==
  CASE lib[l].peer = "closed" -> {"error"}
    [] lib[l].peer = "silent" -> IF lib[l].blocking THEN {"timeout"} ELSE {"again"}
    [] OTHER -> {"ok", "error"} \cup (IF lib[l].blocking THEN {} ELSE {"again"})

(* Whether libssh2_session_free can free the object.  It first closes every *)
(* channel and waits for the server to close it too: without an answer it   *)
(* returns LIBSSH2_ERROR_EAGAIN (or the time-out) with the object intact.   *)
FreeOutcomes(l) ==
  IF \/ ~lib[l].channel
     \/ lib[l].peer = "closed"
     \/ lib[l].blocking /\ lib[l].peer = "up"
  THEN {TRUE} ELSE BOOLEAN

FreedLib(l, freed) == [lib EXCEPT ![l] = IF freed THEN FreeLib ELSE LeakedLib]

(* The server, and the network to it. *)
PeerChange(l, p) ==
  /\ lib[l].alloc = "live"
  /\ lib[l].peer # "closed"
  /\ lib' = [lib EXCEPT ![l].peer = p]
  /\ UNCHANGED <<sessions, nextId, mutex, inited, interval, sockets, pc, sock,
                 own, sid, op, done, upload, known>>

----------------------------------------------------------------------------
(* open_session_internal, run by the UI thread (openSession) or by the     *)
(* worker of an async work (openSessionAsync)                              *)

(* The function returns id (0 for -1): openSession throws or returns it to *)
(* JavaScript, the worker keeps it for CompleteOpenSessionAsync.           *)
ReturnFromOpen(t, id) ==
  /\ pc' = [pc EXCEPT ![t] = IF t = UI THEN "idle" ELSE "executed"]
  /\ sid' = [sid EXCEPT ![t] = IF t = UI THEN 0 ELSE id]
  /\ known' = IF t = UI /\ id # 0 THEN known \cup {id} ELSE known

Proceed(t, phase) ==
  /\ pc' = [pc EXCEPT ![t] = phase]
  /\ UNCHANGED <<sid, known>>

ConnectTcpSocket(t) ==
  /\ pc[t] = "connect"
  /\ \/ \E s \in Socks \ sockets :
          /\ sockets' = sockets \cup {s}
          /\ sock' = [sock EXCEPT ![t] = s]
          /\ Proceed(t, "init")
     \/ UNCHANGED <<sockets, sock>> /\ ReturnFromOpen(t, 0)
  /\ UNCHANGED <<sessions, nextId, mutex, inited, interval, lib, own, op, done, upload>>

CloseOwnSocket_forgotten(t) ==
  /\ sock' = [sock EXCEPT ![t] = None]
  /\ UNCHANGED sockets

CloseOwnSocket(t) ==
  /\ sockets' = sockets \ {sock[t]}
  /\ sock' = [sock EXCEPT ![t] = None]

EnsureLibssh2Initialized(t) ==
  /\ pc[t] = "init"
  /\ \/ inited' = TRUE /\ Proceed(t, "create") /\ UNCHANGED <<sockets, sock>>
     \/ ~inited /\ UNCHANGED inited /\ CloseOwnSocket(t) /\ ReturnFromOpen(t, 0)
  /\ UNCHANGED <<sessions, nextId, mutex, interval, lib, own, op, done, upload>>

SessionInit(t) ==
  /\ pc[t] = "create"
  /\ \/ \E l \in Libs :
          /\ lib[l].alloc = "free"
          /\ lib' = [lib EXCEPT ![l] = NewLib]
          /\ own' = [own EXCEPT ![t] = l]
          /\ Proceed(t, "handshake")
          /\ UNCHANGED <<sockets, sock>>
     \/ UNCHANGED <<lib, own>> /\ CloseOwnSocket(t) /\ ReturnFromOpen(t, 0)
  /\ UNCHANGED <<sessions, nextId, mutex, inited, interval, op, done, upload>>

(* channel, session and socket are released; the results are not looked at *)
CleanupOpenFailure(t) ==
  /\ \E freed \in FreeOutcomes(own[t]) : lib' = FreedLib(own[t], freed)
  /\ own' = [own EXCEPT ![t] = None]
  /\ CloseOwnSocket(t)
  /\ ReturnFromOpen(t, 0)

(* One negotiation step: the server accepts and the session object becomes *)
(* after, or the open fails and cleans up.                                 *)
Negotiate(t, phase, next, after) ==
  /\ pc[t] = phase
  /\ \E answer \in Answers(own[t]) :
       IF answer = "ok"
       THEN /\ lib' = [lib EXCEPT ![own[t]] = after]
            /\ Proceed(t, next)
            /\ UNCHANGED <<sockets, sock, own>>
       ELSE CleanupOpenFailure(t)
  /\ UNCHANGED <<sessions, nextId, mutex, inited, interval, op, done, upload>>

(* Once libssh2_channel_open_session has been called the session may have a *)
(* channel, half open if the call timed out, that freeing it has to close.  *)
Handshake(t) == Negotiate(t, "handshake", "auth", [lib[own[t]] EXCEPT !.keepalive = interval])
UserAuth(t) == Negotiate(t, "auth", "channel", [lib[own[t]] EXCEPT !.channel = TRUE])
OpenShellChannel(t) == Negotiate(t, "channel", "pty", lib[own[t]])
RequestPty(t) == Negotiate(t, "pty", "shell", lib[own[t]])
StartShell(t) == Negotiate(t, "shell", "register", lib[own[t]])

RegisterAs(t, id) ==
  /\ pc[t] = "register"
  /\ mutex = None
  /\ id \in Ids
  /\ sessions' = [sessions EXCEPT ![id] = [lib |-> own[t], sock |-> sock[t], failed |-> FALSE]]
  /\ nextId' = id + 1
  /\ own' = [own EXCEPT ![t] = None]
  /\ sock' = [sock EXCEPT ![t] = None]
  /\ ReturnFromOpen(t, id)
  /\ UNCHANGED <<mutex, inited, interval, sockets, lib, op, done, upload>>

RegisterSession_firstFree(t) ==
  \E id \in Ids : ~Registered(id) /\ (\A k \in 1..(id - 1) : Registered(k)) /\ RegisterAs(t, id)

RegisterSession(t) == RegisterAs(t, nextId)

----------------------------------------------------------------------------
(* The entry points JavaScript calls *)

OpenSession ==
  /\ pc[UI] = "idle"
  /\ pc' = [pc EXCEPT ![UI] = "connect"]
  /\ UNCHANGED <<sessions, nextId, mutex, inited, interval, sockets, lib, sock,
                 own, sid, op, done, upload, known>>

(* When the work cannot be created or queued the promise resolves to -1 at *)
(* once and nothing changes.                                               *)
OpenSessionAsync(j) ==
  /\ pc[UI] = "idle" /\ pc[j] = "idle"
  /\ pc' = [pc EXCEPT ![j] = "queued"]
  /\ UNCHANGED <<sessions, nextId, mutex, inited, interval, sockets, lib, sock,
                 own, sid, op, done, upload, known>>

ExecuteOpenSessionAsync(j) ==
  /\ pc[j] = "queued"
  /\ pc' = [pc EXCEPT ![j] = "connect"]
  /\ UNCHANGED <<sessions, nextId, mutex, inited, interval, sockets, lib, sock,
                 own, sid, op, done, upload, known>>

(* On the UI thread.  A work cancelled while it was queued completes with a *)
(* status that is not napi_ok and resolves to -1.                           *)
CompleteOpenSessionAsync_losesResult(j) ==
  /\ pc[UI] = "idle" /\ pc[j] \in {"executed", "queued"}
  /\ pc' = [pc EXCEPT ![j] = "idle"]
  /\ sid' = [sid EXCEPT ![j] = 0]
  /\ UNCHANGED <<sessions, nextId, mutex, inited, interval, sockets, lib, sock,
                 own, op, done, upload, known>>

CompleteOpenSessionAsync(j) ==
  /\ pc[UI] = "idle" /\ pc[j] \in {"executed", "queued"}
  /\ known' = IF pc[j] = "executed" /\ sid[j] # 0 THEN known \cup {sid[j]} ELSE known
  /\ pc' = [pc EXCEPT ![j] = "idle"]
  /\ sid' = [sid EXCEPT ![j] = 0]
  /\ UNCHANGED <<sessions, nextId, mutex, inited, interval, sockets, lib, sock,
                 own, op, done, upload>>

(* An id JavaScript holds may long have been closed. *)
Invoke(c, call, i) ==
  /\ pc[c] = "idle"
  /\ i \in known
  /\ call \in LockPhases /\ (c = UI \/ call = "exec")
  /\ pc' = [pc EXCEPT ![c] = call]
  /\ sid' = [sid EXCEPT ![c] = i]
  /\ UNCHANGED <<sessions, nextId, mutex, inited, interval, sockets, lib, sock,
                 own, op, done, upload, known>>

SetKeepaliveConfig(on) ==
  /\ pc[UI] = "idle"
  /\ interval' = on
  /\ UNCHANGED <<sessions, nextId, mutex, inited, sockets, lib, pc, sock, own,
                 sid, op, done, upload, known>>

(* The whole of a short call, or of any call whose id is not in the map,   *)
(* runs with session_mutex locked and unlocks it on return.                *)
Returns(c) ==
  /\ pc' = [pc EXCEPT ![c] = "idle"]
  /\ sid' = [sid EXCEPT ![c] = 0]
  /\ UNCHANGED <<inited, interval, sock, own, op, done, upload, known>>

ReleaseSession(c) ==
  /\ pc[c] = "close"
  /\ Registered(sid[c])
  /\ LET s == sessions[sid[c]] IN
       /\ \E freed \in FreeOutcomes(s.lib) : lib' = FreedLib(s.lib, freed)
       /\ sockets' = sockets \ {s.sock}
  /\ UNCHANGED <<nextId, mutex>>
  /\ Returns(c)

CloseSession_unlocked(c) ==
  ReleaseSession(c) /\ sessions' = [sessions EXCEPT ![sid[c]] = None]

CloseSession_keepsEntry(c) ==
  mutex = None /\ ReleaseSession(c) /\ UNCHANGED sessions

CloseSession(c) ==
  /\ mutex = None
  /\ ReleaseSession(c)
  /\ sessions' = [sessions EXCEPT ![sid[c]] = None]

SessionNotFound(c) ==
  /\ pc[c] \in LockPhases /\ mutex = None
  /\ ~Registered(sid[c])
  /\ Returns(c)
  /\ UNCHANGED <<sessions, nextId, mutex, sockets, lib>>

(* libssh2_keepalive_send fails only when a packet is due and the transport *)
(* refuses it.  It is not due between two intervals, and never without an   *)
(* interval; a failed one stays due, since keepalive_last_sent is not set.  *)
KeepaliveDue_everyInterval(s) == IF lib[s.lib].keepalive THEN BOOLEAN ELSE {FALSE}

KeepaliveDue(s) ==
  IF ~lib[s.lib].keepalive THEN {FALSE} ELSE IF s.failed THEN {TRUE} ELSE BOOLEAN

SendKeepalive(c) ==
  /\ pc[c] = "keepalive" /\ mutex = None
  /\ Registered(sid[c])
  /\ \E due \in KeepaliveDue(sessions[sid[c]]) :
       sessions' = [sessions EXCEPT ![sid[c]].failed = due /\ lib[sessions[sid[c]].lib].peer = "closed"]
  /\ UNCHANGED <<nextId, mutex, sockets, lib>>
  /\ Returns(c)

(* One libssh2_channel_write; what it did not take is dropped. *)
Write(c) ==
  /\ pc[c] = "write" /\ mutex = None
  /\ Registered(sid[c])
  /\ UNCHANGED <<sessions, nextId, mutex, sockets, lib>>
  /\ Returns(c)

(* Everything that can be read at once.  libssh2_channel_set_blocking acts *)
(* on the whole session, and nothing sets it back.                         *)
Read(c) ==
  /\ pc[c] = "read" /\ mutex = None
  /\ Registered(sid[c])
  /\ lib' = [lib EXCEPT ![sessions[sid[c]].lib].blocking = FALSE]
  /\ UNCHANGED <<sessions, nextId, mutex, sockets>>
  /\ Returns(c)

----------------------------------------------------------------------------
(* executeCommand, downloadFile and uploadFile: a second channel on the    *)
(* session, session_mutex held from the look-up to the return              *)

(* The function returns or throws: session_mutex is unlocked and its locals *)
(* are gone.                                                                *)
EndTransfer(c) ==
  /\ mutex' = None
  /\ pc' = [pc EXCEPT ![c] = "idle"]
  /\ sid' = [sid EXCEPT ![c] = 0]
  /\ op' = [op EXCEPT ![c] = "exec"]
  /\ done' = [done EXCEPT ![c] = 0]
  /\ upload' = [upload EXCEPT ![c] = NoUpload]

Continue(c, phase) ==
  /\ pc' = [pc EXCEPT ![c] = phase]
  /\ UNCHANGED <<mutex, sid, op, done, upload>>

Retry(c) == UNCHANGED <<pc, mutex, sid, op, done, upload>>

Advance(c, k) ==
  /\ done' = [done EXCEPT ![c] = @ + k]
  /\ UNCHANGED <<pc, mutex, sid, op>>

EnterTransfer(c, transfer) ==
  /\ pc[c] = transfer
  /\ Registered(sid[c])
  /\ mutex' = c
  /\ pc' = [pc EXCEPT ![c] = "open"]
  /\ op' = [op EXCEPT ![c] = transfer]
  /\ UNCHANGED <<sessions, nextId, inited, interval, sockets, lib, sock, own,
                 sid, done, upload, known>>

BeginTransfer_unlocked(c, transfer) == EnterTransfer(c, transfer)

BeginTransfer(c, transfer) == mutex = None /\ EnterTransfer(c, transfer)

ExecuteCommand(c) == BeginTransfer(c, "exec")
DownloadFile(c) == BeginTransfer(c, "download")
UploadFile(c) == BeginTransfer(c, "upload")

TransferOnly == UNCHANGED <<sessions, nextId, inited, interval, sockets, lib, sock, own, known>>

TransferLib(c) == sessions[sid[c]].lib

OpenTransferChannel(c) ==
  /\ pc[c] = "open"
  /\ \E answer \in Answers(TransferLib(c)) :
       IF answer = "ok" THEN Continue(c, "start") ELSE EndTransfer(c)
  /\ TransferOnly

StartRemoteCommand(c) ==
  /\ pc[c] = "start"
  /\ \E answer \in Answers(TransferLib(c)) :
       IF answer = "ok" THEN Continue(c, "body") ELSE EndTransfer(c)
  /\ TransferOnly

(* One turn of the read loop of executeCommand and downloadFile.  "again"  *)
(* sleeps 10 ms and retries; the end of the output, but also an error and  *)
(* a time-out, end the loop and let the function return what it has.       *)
ReadLoop(c, retried, last) ==
  /\ pc[c] = "body" /\ op[c] # "upload"
  /\ \E answer \in Answers(TransferLib(c)) :
       \/ answer = "ok" /\ done[c] < Chunks /\ Advance(c, 1) /\ UNCHANGED upload
       \/ answer = "ok" /\ done[c] = Chunks /\ Continue(c, "finish")
       \/ answer \in retried /\ Retry(c)
       \/ answer \in last /\ Continue(c, "finish")
  /\ TransferOnly

ReadOutput_retriesTimeout(c) == ReadLoop(c, {"again", "timeout"}, {"error"})

ReadOutput_emptyReadIsData(c) ==
  /\ pc[c] = "body" /\ op[c] # "upload"
  /\ "ok" \in Answers(TransferLib(c))
  /\ Advance(c, 1)
  /\ UNCHANGED upload
  /\ TransferOnly

ReadOutput(c) == ReadLoop(c, {"again"}, {"error", "timeout"})

(* One turn of the write loop of uploadFile: libssh2_channel_write takes   *)
(* the next k chunks of the content.                                       *)
Content == [i \in 1..Chunks |-> i]

NextChunks_fromStart(c, k) == SubSeq(Content, 1, k)

NextChunks(c, k) == SubSeq(Content, done[c] + 1, done[c] + k)

WriteContent(c) ==
  /\ pc[c] = "body" /\ op[c] = "upload"
  /\ IF done[c] = Chunks
     THEN Continue(c, "finish")
     ELSE \E answer \in Answers(TransferLib(c)) :
       \/ /\ answer = "ok"
          /\ \E k \in 1..(Chunks - done[c]) :
               upload' = [upload EXCEPT ![c].taken = @ \o NextChunks(c, k)] /\ Advance(c, k)
       \/ answer = "again" /\ Retry(c)
       \/ answer \in {"error", "timeout"} /\ EndTransfer(c)
  /\ TransferOnly

(* send_eof, close and free of the channel, whatever they return.  What    *)
(* 'cat >' has written of an upload, and its exit status, nobody asks for.  *)
CloseTransferChannel(c) ==
  /\ pc[c] = "finish"
  /\ pc' = [pc EXCEPT ![c] = "report"]
  /\ \E n \in 0..Len(upload[c].taken) :
       upload' = [upload EXCEPT ![c].file = SubSeq(upload[c].taken, 1, n)]
  /\ UNCHANGED <<mutex, sid, op, done>>
  /\ TransferOnly

(* The output, the content read or total_written is returned. *)
FinishTransfer(c) ==
  /\ pc[c] = "report"
  /\ EndTransfer(c)
  /\ TransferOnly

----------------------------------------------------------------------------

OpenStep(t) ==
  \/ ConnectTcpSocket(t) \/ EnsureLibssh2Initialized(t) \/ SessionInit(t)
  \/ Handshake(t) \/ UserAuth(t) \/ OpenShellChannel(t) \/ RequestPty(t)
  \/ StartShell(t) \/ RegisterSession(t)

ShortCall(c) ==
  \/ CloseSession(c) \/ SendKeepalive(c) \/ Write(c) \/ Read(c) \/ SessionNotFound(c)

TransferStep(c) ==
  \/ OpenTransferChannel(c) \/ StartRemoteCommand(c) \/ ReadOutput(c)
  \/ WriteContent(c) \/ CloseTransferChannel(c) \/ FinishTransfer(c)

JavaScript ==
  \/ OpenSession
  \/ \E j \in Jobs : OpenSessionAsync(j)
  \/ \E c \in Callers, call \in LockPhases, i \in known : Invoke(c, call, i)
  \/ \E on \in BOOLEAN : SetKeepaliveConfig(on)

Next ==
  \/ JavaScript
  \/ \E j \in Jobs : ExecuteOpenSessionAsync(j) \/ CompleteOpenSessionAsync(j)
  \/ \E t \in Openers : OpenStep(t)
  \/ \E c \in Callers : ShortCall(c) \/ TransferStep(c)
  \/ \E c \in Callers : ExecuteCommand(c) \/ DownloadFile(c) \/ UploadFile(c)
  \/ \E l \in Libs, p \in {"up", "silent", "closed"} : PeerChange(l, p)

Spec == Init /\ [][Next]_vars

(* The operating system runs every thread inside a transfer; nobody has to *)
(* make a call, and the server owes no answer.                             *)
FairSpec == Spec /\ \A c \in Callers : WF_vars(TransferStep(c))

----------------------------------------------------------------------------
(* Properties *)

(* A file descriptor or a libssh2 session belongs to one open that is under *)
(* way or to one entry of the table, and the owner's handle is still open:  *)
(* no failure path and no close releases a handle another owner has.        *)
HandlesOwnedOnce ==
  /\ \A t \in Openers : sock[t] # None =>
       /\ sock[t] \in sockets
       /\ \A u \in Openers : sock[u] = sock[t] => u = t
       /\ \A i \in Ids : Registered(i) => sessions[i].sock # sock[t]
  /\ \A t \in Openers : own[t] # None =>
       /\ lib[own[t]].alloc = "live"
       /\ \A u \in Openers : own[u] = own[t] => u = t
       /\ \A i \in Ids : Registered(i) => sessions[i].lib # own[t]
  /\ \A i \in Ids : Registered(i) =>
       /\ sessions[i].sock \in sockets
       /\ lib[sessions[i].lib].alloc = "live"
       /\ \A k \in Ids : Registered(k) /\ k # i =>
            sessions[k].sock # sessions[i].sock /\ sessions[k].lib # sessions[i].lib

(* Every failure of open_session_internal and every close gives the file    *)
(* descriptor back: an open one is the socket of a session in the table or  *)
(* of an open under way.                                                    *)
NoSocketLeak ==
  \A s \in sockets : \/ \E t \in Openers : sock[t] = s
                     \/ \E i \in Ids : Registered(i) /\ sessions[i].sock = s

(* A transfer keeps a pointer to its KesshSession over many steps; closing  *)
(* the same id from another thread never deletes it meanwhile.              *)
TransferHoldsSession ==
  \A c \in Callers : pc[c] \in BodyPhases => mutex = c /\ Registered(sid[c])

(* A session that is open was handed to JavaScript, or is the result of an  *)
(* async open whose promise is still to be resolved: none is out of reach   *)
(* of closeSession.                                                         *)
OpenSessionsAreReachable ==
  \A i \in Ids : Registered(i) =>
    i \in known \/ \E j \in Jobs : pc[j] = "executed" /\ sid[j] = i

(* An upload that ends without throwing has handed exactly the content to    *)
(* its channel, in order, however libssh2_channel_write split it: nothing is *)
(* skipped or sent twice.                                                    *)
UploadSendsContent ==
  \A c \in Callers : pc[c] = "report" /\ op[c] = "upload" => upload[c].taken = Content

(* An id JavaScript ever held is never given to a new session, so a late    *)
(* call with a stale id cannot reach somebody else's connection.            *)
IdsNeverReused ==
  [][\A i \in Ids : sessions[i] = None /\ sessions'[i] # None => i \notin known]_vars

(* Once a keepalive of a session has failed none reports success again: the *)
(* callers' count of consecutive failures reaches its limit.                *)
KeepaliveFailureIsFinal ==
  [][\A i \in Ids : Registered(i) /\ sessions[i].failed =>
       sessions'[i] = None \/ sessions'[i].failed]_vars

(* A transfer on a session in blocking mode ends and unlocks session_mutex  *)
(* whatever the server does: the 5 s time-out ends the wait for a silent    *)
(* server.                                                                  *)
BlockingTransferEnds ==
  \A c \in Callers :
    (pc[c] \in BodyPhases /\ lib[TransferLib(c)].blocking) ~> (pc[c] \notin BodyPhases)

(* The table as its users see it. *)
TableStatus(i) == IF sessions[i] # None THEN "open" ELSE IF i < nextId THEN "closed" ELSE "fresh"

Table == INSTANCE SessionTable WITH
  status <- [i \in Ids |-> TableStatus(i)],
  user <- IF mutex = None THEN None ELSE <<mutex, sid[mutex]>>

(* kessh.cpp implements the session table. *)
ImplementsTable == Table!TableSpec

(* downloadFile returns the content of the remote file, and an uploadFile    *)
(* that returns has written the remote file.                                 *)
TransferIsWhole ==
  \A c \in Callers : pc[c] = "report" =>
    /\ op[c] = "download" => done[c] = Chunks
    /\ op[c] = "upload" => upload[c].file = Content
====
