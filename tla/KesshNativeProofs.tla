--------------------------- MODULE KesshNativeProofs ---------------------------
(***************************************************************************)
(* Theorems about KesshNative, for any number of threads, sockets, libssh2 *)
(* sessions, ids and chunks, in four parts: what a thread holds in each    *)
(* phase; the session table and its refinement; file descriptors and libssh2*)
(* sessions; what an upload leaves behind.                                 *)
(***************************************************************************)
EXTENDS KesshNative, SequenceTheorems, TLAPS

----------------------------------------------------------------------------
(* 1. Types and phases *)

(* The threads, without the way they are built. *)
LEMMA ThreadFacts ==
  /\ \A c \in Callers : c \in Threads
  /\ \A t \in Openers : t \in Threads
  /\ \A j \in Jobs : j \in Openers /\ j \in Threads /\ j \notin Callers
  /\ UI \in Callers /\ UI \in Openers
BY ConstantsAssumption DEF Callers, Openers, Threads

LEMMA NoneFacts == None \notin Threads /\ None \notin Socks /\ None \notin Libs
BY ConstantsAssumption

LEMMA PhaseFacts ==
  /\ {"idle", "queued", "executed"} \subseteq Phases
  /\ OpenPhases \subseteq Phases /\ LockPhases \subseteq Phases /\ BodyPhases \subseteq Phases
  /\ {"connect", "init", "create", "handshake", "auth", "channel", "pty", "shell",
      "register"} \subseteq Phases
  /\ {"open", "start", "body", "finish", "report"} \subseteq Phases
BY DEF Phases, OpenPhases, LockPhases, BodyPhases

----------------------------------------------------------------------------
(* Lemmas about the operators of the model *)

(* Freeing a libssh2 session, successfully or not, touches no other one. *)
LEMMA FreedLibType ==
  ASSUME lib \in [Libs -> LibSession], NEW l \in Libs, NEW freed \in BOOLEAN
  PROVE  /\ FreedLib(l, freed) \in [Libs -> LibSession]
         /\ \A m \in Libs \ {l} : FreedLib(l, freed)[m] = lib[m]
BY DEF FreedLib, LibSession, FreeLib, LeakedLib

(* Every change kessh.cpp or the server makes to a libssh2 session. *)
LEMMA LibSessionUpdates ==
  ASSUME NEW r \in LibSession
  PROVE  /\ [r EXCEPT !.blocking = FALSE] \in LibSession
         /\ [r EXCEPT !.channel = TRUE] \in LibSession
         /\ \A on \in BOOLEAN : [r EXCEPT !.keepalive = on] \in LibSession
         /\ \A p \in {"up", "silent", "closed"} : [r EXCEPT !.peer = p] \in LibSession
BY DEF LibSession

LEMMA FreeOutcomesType == \A l : FreeOutcomes(l) \subseteq BOOLEAN
BY DEF FreeOutcomes

LEMMA NoUploadType == NoUpload \in Upload
BY DEF NoUpload, Upload

(* The chunks libssh2_channel_write took continue what it took before: a    *)
(* prefix of the content followed by its next k chunks is a longer prefix.  *)
LEMMA NextChunksExtend ==
  ASSUME NEW n \in 0..Chunks, NEW k \in 1..(Chunks - n), Chunks \in Nat
  PROVE  /\ SubSeq(Content, n + 1, n + k) \in Seq(1..Chunks)
         /\ [i \in 1..n |-> i] \o SubSeq(Content, n + 1, n + k) = [i \in 1..(n + k) |-> i]
<1> DEFINE A == [i \in 1..n |-> i]
           B == SubSeq(Content, n + 1, n + k)
<1>1. Content \in Seq(1..Chunks) /\ Len(Content) = Chunks
  BY DEF Content
<1>2. /\ B \in Seq(1..Chunks)
      /\ Len(B) = k
      /\ \A i \in 1..k : B[i] = Content[n + i]
  <2>1. n + 1 \in Int /\ n + k \in Int /\ k = (n + k) - (n + 1) + 1 /\ n + 1 <= n + k
    OBVIOUS
  <2>2. \A i \in (n + 1)..(n + k) : Content[i] \in 1..Chunks
    BY DEF Content
  <2>3. /\ B \in Seq(1..Chunks)
        /\ Len(B) = k
        /\ \A i \in 1..k : B[i] = Content[n + 1 + i - 1]
    BY <2>1, <2>2, SubSeqProperties
  <2> HIDE DEF B
  <2> QED BY <2>3
<1>3. \A i \in 1..k : B[i] = n + i
  BY <1>2 DEF Content
<1>4. A \in Seq(1..Chunks) /\ Len(A) = n
  OBVIOUS
<1>5. /\ A \o B \in Seq(1..Chunks)
      /\ Len(A \o B) = n + k
      /\ \A i \in 1..(n + k) : (A \o B)[i] = i
  <2> HIDE DEF A, B
  <2>1. \A i \in 1..n : A[i] = i
    BY DEF A
  <2>2. /\ A \o B \in Seq(1..Chunks)
        /\ Len(A \o B) = Len(A) + Len(B)
        /\ \A i \in 1..(Len(A) + Len(B)) :
             (A \o B)[i] = IF i <= Len(A) THEN A[i] ELSE B[i - Len(A)]
    BY <1>2, <1>4, ConcatProperties
  <2>3. \A i \in 1..(n + k) : (A \o B)[i] = IF i <= n THEN A[i] ELSE B[i - n]
    BY <1>2, <1>4, <2>2
  <2>4. ASSUME NEW i \in 1..(n + k) PROVE (A \o B)[i] = i
    <3>1. CASE i <= n
      <4>1. i \in 1..n
        BY <3>1
      <4>2. (A \o B)[i] = A[i]
        BY <2>3, <3>1
      <4> QED BY <2>1, <4>1, <4>2
    <3>2. CASE ~(i <= n)
      <4>1. (A \o B)[i] = B[i - n]
        BY <2>3, <3>2
      <4>2. i - n \in 1..k /\ n + (i - n) = i
        BY <3>2
      <4> QED BY <1>3, <4>1, <4>2
    <3> QED BY <3>1, <3>2, Zenon
  <2> QED BY <1>2, <1>4, <2>2, <2>4
<1>6. A \o B = [i \in 1..(n + k) |-> i]
  BY <1>5
<1> QED BY <1>2, <1>6

----------------------------------------------------------------------------
(* Type correctness *)

LEMMA InitTypeOK == Init => TypeOK
<1> SUFFICES ASSUME Init PROVE TypeOK
  OBVIOUS
<1> USE ConstantsAssumption DEF Init, Ids, Callers, Threads
<1>1. sessions \in [Ids -> KesshSession \cup {None}] /\ nextId \in 1..(MaxId + 1)
  OBVIOUS
<1>2. lib \in [Libs -> LibSession]
  BY DEF LibSession, FreeLib
<1>3. pc \in [Threads -> Phases]
  BY DEF Phases
<1>4. /\ sock \in [Threads -> Socks \cup {None}]
      /\ own \in [Threads -> Libs \cup {None}]
      /\ sid \in [Threads -> Ids \cup {0}]
  OBVIOUS
<1>5. op \in [Callers -> Transfers]
  BY DEF Transfers
<1>6. done \in [Callers -> 0..Chunks]
  OBVIOUS
<1>7. upload \in [Callers -> Upload]
  BY NoUploadType
<1> QED BY <1>1, <1>2, <1>3, <1>4, <1>5, <1>6, <1>7 DEF TypeOK

(* The variables the ways out of a phase write keep their types. *)
LEMMA OpenExitType ==
  ASSUME TypeOK, NEW t \in Openers
  PROVE  /\ \A id \in Ids \cup {0} : ReturnFromOpen(t, id) =>
              /\ pc' \in [Threads -> Phases]
              /\ sid' \in [Threads -> Ids \cup {0}]
              /\ known' \subseteq Ids
         /\ \A phase \in Phases : Proceed(t, phase) =>
              /\ pc' \in [Threads -> Phases]
              /\ sid' \in [Threads -> Ids \cup {0}]
              /\ known' \subseteq Ids
         /\ CloseOwnSocket(t) =>
              /\ sockets' \subseteq Socks
              /\ sock' \in [Threads -> Socks \cup {None}]
<1> t \in Threads /\ {"idle", "executed"} \subseteq Phases
  BY ThreadFacts, PhaseFacts
<1>1. \A id \in Ids \cup {0} : ReturnFromOpen(t, id) =>
        /\ pc' \in [Threads -> Phases]
        /\ sid' \in [Threads -> Ids \cup {0}]
        /\ known' \subseteq Ids
  <2> SUFFICES ASSUME NEW id \in Ids \cup {0}, ReturnFromOpen(t, id)
               PROVE  /\ pc' \in [Threads -> Phases]
                      /\ sid' \in [Threads -> Ids \cup {0}]
                      /\ known' \subseteq Ids
    OBVIOUS
  <2>1. pc' \in [Threads -> Phases]
    BY DEF TypeOK, ReturnFromOpen
  <2>2. sid' \in [Threads -> Ids \cup {0}]
    BY DEF TypeOK, ReturnFromOpen
  <2>3. known' \subseteq Ids
    BY DEF TypeOK, ReturnFromOpen
  <2> QED BY <2>1, <2>2, <2>3
<1>2. \A phase \in Phases : Proceed(t, phase) =>
        /\ pc' \in [Threads -> Phases]
        /\ sid' \in [Threads -> Ids \cup {0}]
        /\ known' \subseteq Ids
  BY DEF TypeOK, Proceed
<1>3. CloseOwnSocket(t) =>
        sockets' \subseteq Socks /\ sock' \in [Threads -> Socks \cup {None}]
  BY DEF TypeOK, CloseOwnSocket
<1> QED BY <1>1, <1>2, <1>3

LEMMA TransferExitType ==
  ASSUME TypeOK, NEW c \in Callers
  PROVE  /\ EndTransfer(c) =>
              /\ pc' \in [Threads -> Phases] /\ sid' \in [Threads -> Ids \cup {0}]
              /\ mutex' \in Callers \cup {None} /\ op' \in [Callers -> Transfers]
              /\ done' \in [Callers -> 0..Chunks] /\ upload' \in [Callers -> Upload]
         /\ \A phase \in Phases : Continue(c, phase) =>
              /\ pc' \in [Threads -> Phases] /\ sid' \in [Threads -> Ids \cup {0}]
              /\ mutex' \in Callers \cup {None} /\ op' \in [Callers -> Transfers]
              /\ done' \in [Callers -> 0..Chunks] /\ upload' \in [Callers -> Upload]
         /\ \A k \in 1..(Chunks - done[c]) : Advance(c, k) =>
              /\ pc' \in [Threads -> Phases] /\ sid' \in [Threads -> Ids \cup {0}]
              /\ mutex' \in Callers \cup {None} /\ op' \in [Callers -> Transfers]
              /\ done' \in [Callers -> 0..Chunks]
<1>1. "exec" \in Transfers
  BY DEF Transfers
<1>2. /\ pc \in [Threads -> Phases] /\ sid \in [Threads -> Ids \cup {0}]
      /\ mutex \in Callers \cup {None} /\ op \in [Callers -> Transfers]
      /\ done \in [Callers -> 0..Chunks] /\ upload \in [Callers -> Upload]
  BY DEF TypeOK
<1>3. 0 \in 0..Chunks /\ NoUpload \in Upload /\ Chunks \in Nat
  BY ConstantsAssumption, NoUploadType
<1>4. c \in Threads /\ "idle" \in Phases
  BY ThreadFacts, PhaseFacts
<1>5. EndTransfer(c) =>
        /\ pc' \in [Threads -> Phases] /\ sid' \in [Threads -> Ids \cup {0}]
        /\ mutex' \in Callers \cup {None} /\ op' \in [Callers -> Transfers]
        /\ done' \in [Callers -> 0..Chunks] /\ upload' \in [Callers -> Upload]
  BY <1>1, <1>2, <1>3, <1>4 DEF EndTransfer
<1>6. ASSUME NEW phase \in Phases, Continue(c, phase)
      PROVE  /\ pc' \in [Threads -> Phases] /\ sid' \in [Threads -> Ids \cup {0}]
             /\ mutex' \in Callers \cup {None} /\ op' \in [Callers -> Transfers]
             /\ done' \in [Callers -> 0..Chunks] /\ upload' \in [Callers -> Upload]
  BY <1>2, <1>4, <1>6 DEF Continue
<1>7. ASSUME NEW k \in 1..(Chunks - done[c]), Advance(c, k)
      PROVE  /\ pc' \in [Threads -> Phases] /\ sid' \in [Threads -> Ids \cup {0}]
             /\ mutex' \in Callers \cup {None} /\ op' \in [Callers -> Transfers]
             /\ done' \in [Callers -> 0..Chunks]
  <2>1. done[c] + k \in 0..Chunks
    BY <1>2, <1>3
  <2> QED BY <1>2, <1>7, <2>1 DEF Advance
<1> QED BY <1>5, <1>6, <1>7

LEMMA ConnectTcpSocketType ==
  ASSUME TypeOK, NEW t \in Openers, ConnectTcpSocket(t) PROVE TypeOK'
<1> t \in Threads
  BY ThreadFacts
<1>1. sockets' \subseteq Socks /\ sock' \in [Threads -> Socks \cup {None}]
  BY DEF TypeOK, ConnectTcpSocket
<1>2. /\ pc' \in [Threads -> Phases]
      /\ sid' \in [Threads -> Ids \cup {0}]
      /\ known' \subseteq Ids
  BY OpenExitType, PhaseFacts DEF ConnectTcpSocket
<1> QED BY <1>1, <1>2 DEF TypeOK, ConnectTcpSocket

LEMMA EnsureLibssh2InitializedType ==
  ASSUME TypeOK, NEW t \in Openers, EnsureLibssh2Initialized(t) PROVE TypeOK'
<1>1. /\ pc' \in [Threads -> Phases]
      /\ sid' \in [Threads -> Ids \cup {0}]
      /\ known' \subseteq Ids
      /\ sockets' \subseteq Socks
      /\ sock' \in [Threads -> Socks \cup {None}]
      /\ inited' \in BOOLEAN
  BY OpenExitType, PhaseFacts DEF EnsureLibssh2Initialized, TypeOK
<1> QED BY <1>1 DEF TypeOK, EnsureLibssh2Initialized

LEMMA SessionInitType ==
  ASSUME TypeOK, NEW t \in Openers, SessionInit(t) PROVE TypeOK'
<1>1. /\ pc' \in [Threads -> Phases]
      /\ sid' \in [Threads -> Ids \cup {0}]
      /\ known' \subseteq Ids
      /\ sockets' \subseteq Socks
      /\ sock' \in [Threads -> Socks \cup {None}]
  BY OpenExitType, PhaseFacts DEF SessionInit, TypeOK
<1>2. NewLib \in LibSession
  BY DEF NewLib, FreeLib, LibSession
<1> t \in Threads
  BY ThreadFacts
<1>3. lib' \in [Libs -> LibSession]
  BY <1>2 DEF SessionInit, TypeOK
<1>4. own' \in [Threads -> Libs \cup {None}]
  BY DEF SessionInit, TypeOK
<1> QED BY <1>1, <1>3, <1>4 DEF TypeOK, SessionInit

LEMMA NegotiateType ==
  ASSUME TypeOK, NEW t \in Openers, NEW next \in Phases, NEW phase \in LibPhases,
         own[t] \in Libs, NEW after \in LibSession, Negotiate(t, phase, next, after)
  PROVE  TypeOK'
<1>1. /\ pc' \in [Threads -> Phases]
      /\ sid' \in [Threads -> Ids \cup {0}]
      /\ known' \subseteq Ids
      /\ sockets' \subseteq Socks
      /\ sock' \in [Threads -> Socks \cup {None}]
  BY OpenExitType, PhaseFacts DEF Negotiate, CleanupOpenFailure, TypeOK
<1>2. lib' \in [Libs -> LibSession]
  <2>1. lib \in [Libs -> LibSession]
    BY DEF TypeOK
  <2>2. \/ lib' = [lib EXCEPT ![own[t]] = after]
        \/ \E freed \in BOOLEAN : lib' = FreedLib(own[t], freed)
    BY FreeOutcomesType DEF Negotiate, CleanupOpenFailure
  <2> QED BY <2>1, <2>2, FreedLibType
<1>3. own' \in [Threads -> Libs \cup {None}]
  BY ThreadFacts DEF Negotiate, CleanupOpenFailure, TypeOK
<1> QED BY <1>1, <1>2, <1>3 DEF TypeOK, Negotiate

LEMMA RegisterSessionType ==
  ASSUME TypeOK, NEW t \in Openers, RegisterSession(t), own[t] \in Libs, sock[t] \in Socks
  PROVE  TypeOK'
<1>1. nextId \in Ids /\ nextId' = nextId + 1 /\ nextId' \in 1..(MaxId + 1)
  BY ConstantsAssumption DEF RegisterSession, RegisterAs, Ids
<1>2. /\ pc' \in [Threads -> Phases]
      /\ sid' \in [Threads -> Ids \cup {0}]
      /\ known' \subseteq Ids
  BY <1>1, OpenExitType DEF RegisterSession, RegisterAs
<1>3. sessions' \in [Ids -> KesshSession \cup {None}]
  BY DEF RegisterSession, RegisterAs, TypeOK, KesshSession
<1>4. sock' \in [Threads -> Socks \cup {None}] /\ own' \in [Threads -> Libs \cup {None}]
  BY ThreadFacts DEF RegisterSession, RegisterAs, TypeOK
<1> QED BY <1>1, <1>2, <1>3, <1>4 DEF TypeOK, RegisterSession, RegisterAs

LEMMA OpenSessionType ==
  ASSUME TypeOK, OpenSession PROVE TypeOK'
BY ThreadFacts, PhaseFacts DEF TypeOK, OpenSession

LEMMA OpenSessionAsyncType ==
  ASSUME TypeOK, NEW j \in Jobs, OpenSessionAsync(j) PROVE TypeOK'
BY ThreadFacts, PhaseFacts DEF TypeOK, OpenSessionAsync

LEMMA ExecuteOpenSessionAsyncType ==
  ASSUME TypeOK, NEW j \in Jobs, ExecuteOpenSessionAsync(j) PROVE TypeOK'
BY ThreadFacts, PhaseFacts DEF TypeOK, ExecuteOpenSessionAsync

LEMMA CompleteOpenSessionAsyncType ==
  ASSUME TypeOK, NEW j \in Jobs, CompleteOpenSessionAsync(j) PROVE TypeOK'
BY ThreadFacts, PhaseFacts DEF TypeOK, CompleteOpenSessionAsync

LEMMA InvokeType ==
  ASSUME TypeOK, NEW c \in Callers, NEW call \in LockPhases, NEW i \in known, Invoke(c, call, i)
  PROVE  TypeOK'
BY ThreadFacts, PhaseFacts DEF TypeOK, Invoke

LEMMA CloseSessionType ==
  ASSUME TypeOK, NEW c \in Callers, CloseSession(c) PROVE TypeOK'
BY ThreadFacts, PhaseFacts, FreedLibType, FreeOutcomesType
   DEF TypeOK, CloseSession, ReleaseSession, Registered, Returns, KesshSession

LEMMA SessionNotFoundType ==
  ASSUME TypeOK, NEW c \in Callers, SessionNotFound(c) PROVE TypeOK'
BY ThreadFacts, PhaseFacts DEF TypeOK, SessionNotFound, Returns

(* A keepalive changes the failure flag of its session and nothing else. *)
LEMMA SendKeepaliveUpdate ==
  ASSUME TypeOK, NEW c \in Callers, SendKeepalive(c)
  PROVE  /\ sid[c] \in Ids /\ sessions[sid[c]] \in KesshSession
         /\ \E failed \in BOOLEAN : sessions' = [sessions EXCEPT ![sid[c]].failed = failed]
<1>1. sid[c] \in Ids /\ sessions[sid[c]] \in KesshSession
  BY DEF SendKeepalive, Registered, TypeOK
<1>2. PICK due : sessions' = [sessions EXCEPT ![sid[c]].failed =
                                due /\ lib[sessions[sid[c]].lib].peer = "closed"]
  BY Zenon DEF SendKeepalive
<1>3. (due /\ lib[sessions[sid[c]].lib].peer = "closed") \in BOOLEAN
  BY Zenon
<1>4. \E failed \in BOOLEAN : sessions' = [sessions EXCEPT ![sid[c]].failed = failed]
  BY <1>2, <1>3, Zenon
<1> QED BY <1>1, <1>4

LEMMA SendKeepaliveType ==
  ASSUME TypeOK, NEW c \in Callers, SendKeepalive(c) PROVE TypeOK'
<1>1. sessions' \in [Ids -> KesshSession \cup {None}]
  <2>1. PICK failed \in BOOLEAN : sessions' = [sessions EXCEPT ![sid[c]].failed = failed]
    BY SendKeepaliveUpdate
  <2>2. [sessions[sid[c]] EXCEPT !.failed = failed] \in KesshSession
    BY SendKeepaliveUpdate DEF KesshSession
  <2> QED BY <2>1, <2>2, SendKeepaliveUpdate DEF TypeOK
<1>2. pc' \in [Threads -> Phases] /\ sid' \in [Threads -> Ids \cup {0}]
  BY ThreadFacts, PhaseFacts DEF TypeOK, SendKeepalive, Returns
<1> QED BY <1>1, <1>2 DEF TypeOK, SendKeepalive, Returns

LEMMA WriteType ==
  ASSUME TypeOK, NEW c \in Callers, Write(c) PROVE TypeOK'
BY ThreadFacts, PhaseFacts DEF TypeOK, Write, Returns

LEMMA ReadType ==
  ASSUME TypeOK, NEW c \in Callers, Read(c) PROVE TypeOK'
<1>1. lib' \in [Libs -> LibSession]
  <2>1. sessions[sid[c]].lib \in Libs
    BY DEF Read, Registered, TypeOK, KesshSession
  <2>2. [lib[sessions[sid[c]].lib] EXCEPT !.blocking = FALSE] \in LibSession
    BY <2>1, LibSessionUpdates DEF TypeOK
  <2> QED BY <2>1, <2>2 DEF TypeOK, Read
<1>2. pc' \in [Threads -> Phases] /\ sid' \in [Threads -> Ids \cup {0}]
  BY ThreadFacts, PhaseFacts DEF TypeOK, Read, Returns
<1> QED BY <1>1, <1>2 DEF TypeOK, Read, Returns

LEMMA BeginTransferType ==
  ASSUME TypeOK, NEW c \in Callers, NEW transfer \in Transfers, BeginTransfer(c, transfer) PROVE TypeOK'
BY ThreadFacts, PhaseFacts DEF TypeOK, BeginTransfer, EnterTransfer

LEMMA OpenTransferChannelType ==
  ASSUME TypeOK, NEW c \in Callers, OpenTransferChannel(c) PROVE TypeOK'
BY TransferExitType, PhaseFacts DEF TypeOK, OpenTransferChannel, TransferOnly

LEMMA StartRemoteCommandType ==
  ASSUME TypeOK, NEW c \in Callers, StartRemoteCommand(c) PROVE TypeOK'
BY TransferExitType, PhaseFacts DEF TypeOK, StartRemoteCommand, TransferOnly

\* A prefix of a sequence is a sequence over the same set: what the remote file
\* keeps of what the channel took.
LEMMA PrefixType ==
  ASSUME NEW S, NEW s \in Seq(S), NEW n \in 0..Len(s)
  PROVE SubSeq(s, 1, n) \in Seq(S)
<1>1. Len(s) \in Nat /\ \A i \in 1..Len(s) : s[i] \in S
  OBVIOUS
<1>2. n \in Int /\ 1 \in Int /\ \A i \in 1..n : s[i] \in S
  BY <1>1
<1> QED BY <1>2, SubSeqProperties

LEMMA CloseTransferChannelType ==
  ASSUME TypeOK, NEW c \in Callers, CloseTransferChannel(c) PROVE TypeOK'
<1>1. PICK n \in 0..Len(upload[c].taken) :
        upload' = [upload EXCEPT ![c].file = SubSeq(upload[c].taken, 1, n)]
  BY DEF CloseTransferChannel
<1>2. upload \in [Callers -> Upload] /\ upload[c].taken \in Seq(1..Chunks)
  BY DEF TypeOK, Upload
<1>3. SubSeq(upload[c].taken, 1, n) \in Seq(1..Chunks)
  BY <1>2, PrefixType
<1>4. upload' \in [Callers -> Upload]
  BY <1>1, <1>2, <1>3 DEF Upload
<1>5. c \in Threads /\ "report" \in Phases
  BY ThreadFacts, PhaseFacts
<1>6. pc' \in [Threads -> Phases]
  BY <1>5 DEF TypeOK, CloseTransferChannel
<1> QED BY <1>4, <1>6 DEF TypeOK, CloseTransferChannel, TransferOnly

LEMMA FinishTransferType ==
  ASSUME TypeOK, NEW c \in Callers, FinishTransfer(c) PROVE TypeOK'
BY TransferExitType, PhaseFacts DEF TypeOK, FinishTransfer, TransferOnly

LEMMA ReadOutputType ==
  ASSUME TypeOK, NEW c \in Callers, ReadOutput(c) PROVE TypeOK'
<1>1. done[c] \in 0..Chunks /\ Chunks \in Nat
  BY ConstantsAssumption DEF TypeOK
<1>2. /\ pc' \in [Threads -> Phases] /\ sid' \in [Threads -> Ids \cup {0}]
      /\ mutex' \in Callers \cup {None} /\ op' \in [Callers -> Transfers]
      /\ done' \in [Callers -> 0..Chunks] /\ upload' \in [Callers -> Upload]
  <2>1. \/ done[c] < Chunks /\ Advance(c, 1) /\ UNCHANGED upload
        \/ Continue(c, "finish")
        \/ Retry(c)
    BY DEF ReadOutput, ReadLoop
  <2>2. CASE done[c] < Chunks /\ Advance(c, 1) /\ UNCHANGED upload
    <3>1. 1 \in 1..(Chunks - done[c]) /\ upload' \in [Callers -> Upload]
      BY <1>1, <2>2 DEF TypeOK
    <3> QED BY <2>2, <3>1, TransferExitType
  <2>3. CASE Continue(c, "finish")
    BY <2>3, TransferExitType, PhaseFacts
  <2>4. CASE Retry(c)
    BY <2>4 DEF Retry, TypeOK
  <2> QED BY <2>1, <2>2, <2>3, <2>4
<1> QED BY <1>2 DEF TypeOK, ReadOutput, ReadLoop, TransferOnly

LEMMA PeerChangeType ==
  ASSUME TypeOK, NEW l \in Libs, NEW p \in {"up", "silent", "closed"}, PeerChange(l, p)
  PROVE  TypeOK'
BY DEF TypeOK, PeerChange, LibSession

LEMMA SetKeepaliveConfigType ==
  ASSUME TypeOK, NEW on \in BOOLEAN, SetKeepaliveConfig(on) PROVE TypeOK'
BY DEF TypeOK, SetKeepaliveConfig

LEMMA WriteContentType ==
  ASSUME TypeOK, NEW c \in Callers, WriteContent(c) PROVE TypeOK'
<1> /\ done[c] \in 0..Chunks /\ Chunks \in Nat
    /\ {"idle", "finish"} \subseteq Phases
    /\ upload \in [Callers -> Upload]
  BY ConstantsAssumption, PhaseFacts DEF TypeOK
<1>1. CASE done[c] = Chunks \/ EndTransfer(c) \/ Retry(c)
  <2>1. \/ Continue(c, "finish") \/ EndTransfer(c) \/ Retry(c)
    BY <1>1 DEF WriteContent
  <2>2. /\ pc' \in [Threads -> Phases] /\ sid' \in [Threads -> Ids \cup {0}]
        /\ mutex' \in Callers \cup {None} /\ op' \in [Callers -> Transfers]
        /\ done' \in [Callers -> 0..Chunks] /\ upload' \in [Callers -> Upload]
    BY <2>1, TransferExitType DEF Retry, TypeOK
  <2> QED BY <2>2 DEF TypeOK, WriteContent, TransferOnly
<1>2. ASSUME NEW k \in 1..(Chunks - done[c]), Advance(c, k),
             upload' = [upload EXCEPT ![c].taken = @ \o NextChunks(c, k)]
      PROVE  TypeOK'
  <2>1. NextChunks(c, k) \in Seq(1..Chunks)
    BY NextChunksExtend DEF NextChunks
  <2>2. upload[c].taken \o NextChunks(c, k) \in Seq(1..Chunks)
    BY <2>1, ConcatProperties DEF Upload
  <2>3. upload' \in [Callers -> Upload]
    BY <1>2, <2>2 DEF Upload
  <2>4. /\ pc' \in [Threads -> Phases] /\ sid' \in [Threads -> Ids \cup {0}]
        /\ mutex' \in Callers \cup {None} /\ op' \in [Callers -> Transfers]
        /\ done' \in [Callers -> 0..Chunks]
    BY <1>2, TransferExitType
  <2> QED BY <2>3, <2>4 DEF TypeOK, WriteContent, TransferOnly
<1> QED BY <1>1, <1>2 DEF WriteContent

----------------------------------------------------------------------------
(* The phase of a thread decides what it holds: its own socket and libssh2  *)
(* session while it opens, session_mutex while it is inside a transfer.     *)

PhaseFits(t) ==
  /\ (sock[t] # None) <=> (pc[t] \in SockPhases)
  /\ (own[t] # None) <=> (pc[t] \in LibPhases)
  /\ (mutex = t) <=> (pc[t] \in BodyPhases)
  /\ pc[t] \in OpenPhases => t \in Openers
  /\ pc[t] \in {"queued", "executed"} => t \in Jobs
  /\ pc[t] \in LockPhases \cup BodyPhases => t \in Callers

PhaseInv == TypeOK /\ \A t \in Threads : PhaseFits(t)

(* Only the thread that takes a step has to be looked at. *)
LEMMA OthersFit ==
  ASSUME \A u \in Threads : PhaseFits(u), NEW t \in Threads, PhaseFits(t)',
         \A u \in Threads \ {t} : /\ pc'[u] = pc[u] /\ sock'[u] = sock[u] /\ own'[u] = own[u]
                                  /\ (mutex' = u) <=> (mutex = u)
  PROVE  \A u \in Threads : PhaseFits(u)'
BY DEF PhaseFits

(* A step of open_session_internal: on its way, or over and with nothing held. *)
LEMMA OpenerFits ==
  ASSUME PhaseInv, NEW t \in Openers, pc[t] \in OpenPhases, mutex' = mutex,
         \/ /\ pc'[t] = IF t = UI THEN "idle" ELSE "executed"
            /\ sock'[t] = None /\ own'[t] = None
         \/ pc'[t] \in {"init", "create"} /\ sock'[t] # None /\ own'[t] = None
         \/ pc'[t] \in LibPhases /\ sock'[t] # None /\ own'[t] # None,
         \A u \in Threads \ {t} : pc'[u] = pc[u] /\ sock'[u] = sock[u] /\ own'[u] = own[u]
  PROVE  \A u \in Threads : PhaseFits(u)'
<1> t \in Threads /\ (t = UI \/ t \in Jobs)
  BY ThreadFacts DEF Openers
<1>1. mutex # t
  BY DEF PhaseInv, PhaseFits, OpenPhases, BodyPhases
<1>2. CASE /\ pc'[t] = IF t = UI THEN "idle" ELSE "executed"
           /\ sock'[t] = None /\ own'[t] = None
  <2>1. pc'[t] \notin SockPhases \cup BodyPhases \cup OpenPhases \cup LockPhases
    BY <1>2 DEF SockPhases, LibPhases, BodyPhases, OpenPhases, LockPhases, Transfers
  <2>2. pc'[t] \notin LibPhases
    BY <2>1 DEF SockPhases
  <2>3. pc'[t] \in {"queued", "executed"} => t \in Jobs
    BY <1>2
  <2>4. PhaseFits(t)'
    BY <1>1, <1>2, <2>1, <2>2, <2>3 DEF PhaseFits
  <2> QED BY <2>4, OthersFit DEF PhaseInv
<1>3. CASE pc'[t] \in {"init", "create"} /\ sock'[t] # None /\ own'[t] = None
  <2>1. /\ pc'[t] \notin LibPhases \cup BodyPhases \cup LockPhases \cup {"queued", "executed"}
        /\ pc'[t] \in SockPhases
    BY <1>3 DEF SockPhases, LibPhases, BodyPhases, LockPhases, Transfers
  <2>2. PhaseFits(t)'
    BY <1>1, <1>3, <2>1 DEF PhaseFits
  <2> QED BY <2>2, OthersFit DEF PhaseInv
<1>4. CASE pc'[t] \in LibPhases /\ sock'[t] # None /\ own'[t] # None
  <2>1. /\ pc'[t] \notin BodyPhases \cup LockPhases \cup {"queued", "executed"}
        /\ pc'[t] \in SockPhases
    BY <1>4 DEF SockPhases, LibPhases, BodyPhases, LockPhases, Transfers
  <2>2. PhaseFits(t)'
    BY <1>1, <1>4, <2>1 DEF PhaseFits
  <2> QED BY <2>2, OthersFit DEF PhaseInv
<1> QED BY <1>2, <1>3, <1>4

(* A call of a JavaScript thread: it takes session_mutex when it is free and *)
(* enters a transfer, moves on inside it, or is out of it.                   *)
LEMMA CallerFits ==
  ASSUME PhaseInv, NEW c \in Callers, pc[c] \notin OpenPhases \cup {"queued", "executed"},
         \/ mutex' = mutex /\ mutex # c /\ pc'[c] \in LockPhases \cup {"idle"}
         \/ mutex' = c /\ (mutex = None \/ mutex = c) /\ pc'[c] \in BodyPhases
         \/ mutex' = None /\ mutex = c /\ pc'[c] = "idle",
         sock' = sock, own' = own,
         \A u \in Threads \ {c} : pc'[u] = pc[u]
  PROVE  \A u \in Threads : PhaseFits(u)'
<1> c \in Threads /\ c # None /\ None \notin Threads
  BY ThreadFacts, NoneFacts
<1>1. sock[c] = None /\ own[c] = None
  BY DEF PhaseInv, PhaseFits, SockPhases, LibPhases, OpenPhases
<1>2. pc'[c] \notin SockPhases \cup LibPhases \cup OpenPhases \cup {"queued", "executed"}
  BY DEF SockPhases, LibPhases, OpenPhases, LockPhases, Transfers, BodyPhases
<1>3. (mutex' = c) <=> (pc'[c] \in BodyPhases)
  BY DEF LockPhases, Transfers, BodyPhases
<1>4. PhaseFits(c)'
  BY <1>1, <1>2, <1>3 DEF PhaseFits
<1>5. \A u \in Threads \ {c} : (mutex' = u) <=> (mutex = u)
  OBVIOUS
<1> QED BY <1>4, <1>5, OthersFit DEF PhaseInv

LEMMA ConnectTcpSocketFits ==
  ASSUME PhaseInv, NEW t \in Openers, ConnectTcpSocket(t) PROVE \A u \in Threads : PhaseFits(u)'
<1> t \in Threads /\ None \notin Socks
  BY ThreadFacts, NoneFacts
<1>1. pc[t] \in OpenPhases /\ sock[t] = None /\ own[t] = None
  BY DEF ConnectTcpSocket, PhaseInv, PhaseFits, OpenPhases, SockPhases, LibPhases
<1>2. \/ sock'[t] # None /\ pc'[t] = "init"
      \/ sock'[t] = None /\ pc'[t] = IF t = UI THEN "idle" ELSE "executed"
  BY <1>1 DEF ConnectTcpSocket, Proceed, ReturnFromOpen, PhaseInv, TypeOK
<1>3. \A u \in Threads \ {t} : pc'[u] = pc[u] /\ sock'[u] = sock[u] /\ own'[u] = own[u]
  BY DEF ConnectTcpSocket, Proceed, ReturnFromOpen, PhaseInv, TypeOK
<1>4. own'[t] = None /\ mutex' = mutex
  BY <1>1 DEF ConnectTcpSocket
<1> QED BY <1>1, <1>2, <1>3, <1>4, OpenerFits

LEMMA EnsureLibssh2InitializedFits ==
  ASSUME PhaseInv, NEW t \in Openers, EnsureLibssh2Initialized(t)
  PROVE  \A u \in Threads : PhaseFits(u)'
<1> t \in Threads
  BY ThreadFacts
<1>1. pc[t] \in OpenPhases /\ sock[t] # None /\ own[t] = None
  BY DEF EnsureLibssh2Initialized, PhaseInv, PhaseFits, OpenPhases, SockPhases, LibPhases
<1>2. \/ sock'[t] # None /\ pc'[t] = "create"
      \/ sock'[t] = None /\ pc'[t] = IF t = UI THEN "idle" ELSE "executed"
  BY <1>1 DEF EnsureLibssh2Initialized, CloseOwnSocket, Proceed, ReturnFromOpen, PhaseInv, TypeOK
<1>3. \A u \in Threads \ {t} : pc'[u] = pc[u] /\ sock'[u] = sock[u] /\ own'[u] = own[u]
  BY DEF EnsureLibssh2Initialized, CloseOwnSocket, Proceed, ReturnFromOpen, PhaseInv, TypeOK
<1>4. own'[t] = None /\ mutex' = mutex
  BY <1>1 DEF EnsureLibssh2Initialized
<1> QED BY <1>1, <1>2, <1>3, <1>4, OpenerFits

LEMMA SessionInitFits ==
  ASSUME PhaseInv, NEW t \in Openers, SessionInit(t) PROVE \A u \in Threads : PhaseFits(u)'
<1> t \in Threads /\ None \notin Libs
  BY ThreadFacts, NoneFacts
<1>1. pc[t] \in OpenPhases /\ sock[t] # None /\ own[t] = None
  BY DEF SessionInit, PhaseInv, PhaseFits, OpenPhases, SockPhases, LibPhases
<1>2. \/ sock'[t] # None /\ own'[t] # None /\ pc'[t] = "handshake"
      \/ sock'[t] = None /\ own'[t] = None /\ pc'[t] = IF t = UI THEN "idle" ELSE "executed"
  BY <1>1 DEF SessionInit, CloseOwnSocket, Proceed, ReturnFromOpen, PhaseInv, TypeOK
<1>3. \A u \in Threads \ {t} : pc'[u] = pc[u] /\ sock'[u] = sock[u] /\ own'[u] = own[u]
  BY DEF SessionInit, CloseOwnSocket, Proceed, ReturnFromOpen, PhaseInv, TypeOK
<1>4. mutex' = mutex /\ "handshake" \in LibPhases
  BY DEF SessionInit, LibPhases
<1> QED BY <1>1, <1>2, <1>3, <1>4, OpenerFits

LEMMA NegotiateFits ==
  ASSUME PhaseInv, NEW t \in Openers, NEW phase \in LibPhases, NEW next \in LibPhases,
         NEW after, Negotiate(t, phase, next, after)
  PROVE  \A u \in Threads : PhaseFits(u)'
<1> t \in Threads
  BY ThreadFacts
<1>1. pc[t] \in OpenPhases /\ sock[t] # None /\ own[t] # None
  BY DEF Negotiate, PhaseInv, PhaseFits, OpenPhases, SockPhases, LibPhases
<1>2. \/ sock'[t] # None /\ own'[t] # None /\ pc'[t] = next
      \/ sock'[t] = None /\ own'[t] = None /\ pc'[t] = IF t = UI THEN "idle" ELSE "executed"
  BY <1>1 DEF Negotiate, CleanupOpenFailure, CloseOwnSocket, Proceed, ReturnFromOpen, PhaseInv, TypeOK
<1>3. \A u \in Threads \ {t} : pc'[u] = pc[u] /\ sock'[u] = sock[u] /\ own'[u] = own[u]
  BY DEF Negotiate, CleanupOpenFailure, CloseOwnSocket, Proceed, ReturnFromOpen, PhaseInv, TypeOK
<1>4. mutex' = mutex
  BY DEF Negotiate
<1> QED BY <1>1, <1>2, <1>3, <1>4, OpenerFits

LEMMA RegisterSessionFits ==
  ASSUME PhaseInv, NEW t \in Openers, RegisterSession(t) PROVE \A u \in Threads : PhaseFits(u)'
<1> t \in Threads
  BY ThreadFacts
<1>1. pc[t] \in OpenPhases
  BY DEF RegisterSession, RegisterAs, OpenPhases
<1>2. sock'[t] = None /\ own'[t] = None /\ pc'[t] = IF t = UI THEN "idle" ELSE "executed"
  BY DEF RegisterSession, RegisterAs, ReturnFromOpen, PhaseInv, TypeOK
<1>3. \A u \in Threads \ {t} : pc'[u] = pc[u] /\ sock'[u] = sock[u] /\ own'[u] = own[u]
  BY DEF RegisterSession, RegisterAs, ReturnFromOpen, PhaseInv, TypeOK
<1>4. mutex' = mutex
  BY DEF RegisterSession, RegisterAs
<1> QED BY <1>1, <1>2, <1>3, <1>4, OpenerFits

LEMMA OpenSessionFits ==
  ASSUME PhaseInv, OpenSession PROVE \A u \in Threads : PhaseFits(u)'
<1> UI \in Threads /\ UI \in Openers
  BY ThreadFacts
<1>1. PhaseFits(UI)'
  BY DEF OpenSession, PhaseInv, PhaseFits, TypeOK, SockPhases, LibPhases, OpenPhases,
         LockPhases, Transfers, BodyPhases
<1> QED BY <1>1, OthersFit DEF OpenSession, PhaseInv, TypeOK

(* queueing, starting and completing an async work *)
LEMMA AsyncWorkFits ==
  ASSUME PhaseInv, NEW j \in Jobs,
         OpenSessionAsync(j) \/ ExecuteOpenSessionAsync(j) \/ CompleteOpenSessionAsync(j)
  PROVE  \A u \in Threads : PhaseFits(u)'
<1> j \in Threads /\ j \in Openers
  BY ThreadFacts
<1>1. /\ pc[j] \in {"idle", "queued", "executed"} /\ pc'[j] \in {"idle", "queued", "connect"}
      /\ \A u \in Threads \ {j} : pc'[u] = pc[u]
      /\ UNCHANGED <<sock, own, mutex>>
  BY DEF OpenSessionAsync, ExecuteOpenSessionAsync, CompleteOpenSessionAsync, PhaseInv, TypeOK
<1>2. PhaseFits(j)'
  BY <1>1 DEF PhaseInv, PhaseFits, SockPhases, LibPhases, OpenPhases, LockPhases, Transfers, BodyPhases
<1> QED BY <1>1, <1>2, OthersFit DEF PhaseInv

LEMMA InvokeFits ==
  ASSUME PhaseInv, NEW c \in Callers, NEW call, NEW i, Invoke(c, call, i)
  PROVE  \A u \in Threads : PhaseFits(u)'
<1> c \in Threads
  BY ThreadFacts
<1>1. pc[c] = "idle" /\ pc'[c] \in LockPhases /\ UNCHANGED <<mutex, sock, own>>
      /\ \A u \in Threads \ {c} : pc'[u] = pc[u]
  BY DEF Invoke, PhaseInv, TypeOK
<1>2. mutex # c
  BY <1>1 DEF PhaseInv, PhaseFits, BodyPhases
<1> QED BY <1>1, <1>2, CallerFits DEF OpenPhases

(* every call that holds session_mutex for one step *)
LEMMA ShortCallFits ==
  ASSUME PhaseInv, NEW c \in Callers, ShortCall(c) PROVE \A u \in Threads : PhaseFits(u)'
<1> c \in Threads
  BY ThreadFacts
<1>1. pc[c] \in LockPhases /\ UNCHANGED mutex /\ Returns(c)
  BY DEF ShortCall, CloseSession, ReleaseSession, SendKeepalive, Write, Read, SessionNotFound, LockPhases
<1>2. /\ pc'[c] = "idle" /\ UNCHANGED <<sock, own>>
      /\ \A u \in Threads \ {c} : pc'[u] = pc[u]
  BY <1>1 DEF Returns, PhaseInv, TypeOK
<1>3. mutex # c /\ pc[c] \notin OpenPhases \cup {"queued", "executed"}
  BY <1>1 DEF PhaseInv, PhaseFits, LockPhases, Transfers, BodyPhases, OpenPhases
<1> QED BY <1>1, <1>2, <1>3, CallerFits

LEMMA BeginTransferFits ==
  ASSUME PhaseInv, NEW c \in Callers, NEW transfer \in Transfers, BeginTransfer(c, transfer)
  PROVE  \A u \in Threads : PhaseFits(u)'
<1> c \in Threads
  BY ThreadFacts
<1>1. /\ pc[c] = transfer /\ mutex = None /\ mutex' = c /\ pc'[c] \in BodyPhases
      /\ UNCHANGED <<sock, own>>
      /\ \A u \in Threads \ {c} : pc'[u] = pc[u]
  BY DEF BeginTransfer, EnterTransfer, PhaseInv, TypeOK, BodyPhases
<1>2. pc[c] \notin OpenPhases \cup {"queued", "executed"}
  BY <1>1 DEF Transfers, OpenPhases
<1> QED BY <1>1, <1>2, CallerFits

LEMMA TransferStepFits ==
  ASSUME PhaseInv, NEW c \in Callers, TransferStep(c) PROVE \A u \in Threads : PhaseFits(u)'
<1> c \in Threads
  BY ThreadFacts
<1>1. pc[c] \in BodyPhases /\ UNCHANGED <<sock, own>>
  BY DEF TransferStep, OpenTransferChannel, StartRemoteCommand, ReadOutput, ReadLoop,
         WriteContent, CloseTransferChannel, FinishTransfer, TransferOnly, BodyPhases
<1>2. mutex = c /\ pc[c] \notin OpenPhases \cup {"queued", "executed"}
  BY <1>1 DEF PhaseInv, PhaseFits, BodyPhases, OpenPhases
<1>3. \/ EndTransfer(c)
      \/ \E phase \in BodyPhases : pc' = [pc EXCEPT ![c] = phase] /\ UNCHANGED mutex
      \/ UNCHANGED <<pc, mutex>>
  BY DEF TransferStep, OpenTransferChannel, StartRemoteCommand, ReadOutput, ReadLoop,
         WriteContent, CloseTransferChannel, FinishTransfer, BodyPhases, Continue, Retry, Advance
<1>4. /\ \/ mutex' = None /\ pc'[c] = "idle"
         \/ mutex' = c /\ pc'[c] \in BodyPhases
      /\ \A u \in Threads \ {c} : pc'[u] = pc[u]
  BY <1>1, <1>2, <1>3 DEF EndTransfer, PhaseInv, TypeOK
<1> QED BY <1>1, <1>2, <1>4, CallerFits

(* A negotiation step keeps the types: its thread owns a libssh2 session. *)
LEMMA NegotiationStepType ==
  ASSUME PhaseInv, NEW t \in Openers,
         Handshake(t) \/ UserAuth(t) \/ OpenShellChannel(t) \/ RequestPty(t) \/ StartShell(t)
  PROVE  TypeOK' /\ \A u \in Threads : PhaseFits(u)'
<1> t \in Threads /\ LibPhases \subseteq Phases
  BY ThreadFacts, PhaseFacts DEF LibPhases
<1> DEFINE old == lib[own[t]]
<1>1. {"handshake", "auth", "channel", "pty", "shell", "register"} \subseteq LibPhases
  BY DEF LibPhases
<1>2. pc[t] \in LibPhases
  BY DEF Handshake, UserAuth, OpenShellChannel, RequestPty, StartShell, Negotiate, LibPhases
<1>3. own[t] \in Libs /\ old \in LibSession /\ interval \in BOOLEAN /\ TypeOK
  BY <1>2 DEF PhaseInv, PhaseFits, TypeOK
<1>4. /\ [old EXCEPT !.keepalive = interval] \in LibSession
      /\ [old EXCEPT !.channel = TRUE] \in LibSession
  BY <1>3, LibSessionUpdates
<1> HIDE DEF old
<1>5. PICK phase \in LibPhases, next \in LibPhases, after \in LibSession : Negotiate(t, phase, next, after)
  BY <1>1, <1>3, <1>4 DEF Handshake, UserAuth, OpenShellChannel, RequestPty, StartShell, old
<1> QED BY <1>3, <1>5, NegotiateType, NegotiateFits

LEMMA RegisterStepType ==
  ASSUME PhaseInv, NEW t \in Openers, RegisterSession(t) PROVE TypeOK'
<1>1. t \in Threads /\ pc[t] = "register"
  BY ThreadFacts DEF RegisterSession, RegisterAs
<1>2. own[t] \in Libs /\ sock[t] \in Socks /\ TypeOK
  BY <1>1 DEF PhaseInv, PhaseFits, TypeOK, SockPhases, LibPhases
<1> QED BY <1>2, RegisterSessionType

LEMMA PhaseInvInit == Init => PhaseInv
BY InitTypeOK, NoneFacts
   DEF Init, PhaseInv, PhaseFits, SockPhases, LibPhases, OpenPhases, LockPhases, Transfers, BodyPhases

(* The types and what each phase holds are inductive together. *)
LEMMA PhaseInvNext == PhaseInv /\ [Next]_vars => PhaseInv'
<1> SUFFICES ASSUME PhaseInv, [Next]_vars
             PROVE  TypeOK' /\ \A u \in Threads : PhaseFits(u)'
  BY DEF PhaseInv
<1> TypeOK
  BY DEF PhaseInv
<1>1. CASE OpenSession
  BY <1>1, OpenSessionType, OpenSessionFits
<1>2. ASSUME NEW j \in Jobs,
             OpenSessionAsync(j) \/ ExecuteOpenSessionAsync(j) \/ CompleteOpenSessionAsync(j)
      PROVE  TypeOK' /\ \A u \in Threads : PhaseFits(u)'
  BY <1>2, OpenSessionAsyncType, ExecuteOpenSessionAsyncType, CompleteOpenSessionAsyncType, AsyncWorkFits
<1>3. ASSUME NEW c \in Callers, NEW call \in LockPhases, NEW i \in known, Invoke(c, call, i)
      PROVE  TypeOK' /\ \A u \in Threads : PhaseFits(u)'
  BY <1>3, InvokeType, InvokeFits
<1>4. ASSUME NEW on \in BOOLEAN, SetKeepaliveConfig(on)
      PROVE  TypeOK' /\ \A u \in Threads : PhaseFits(u)'
  <2>1. UNCHANGED <<pc, sock, own, mutex>>
    BY <1>4 DEF SetKeepaliveConfig
  <2> QED BY <1>4, <2>1, SetKeepaliveConfigType DEF PhaseInv, PhaseFits
<1>5. ASSUME NEW t \in Openers, OpenStep(t)
      PROVE  TypeOK' /\ \A u \in Threads : PhaseFits(u)'
  BY <1>5, ConnectTcpSocketType, EnsureLibssh2InitializedType, SessionInitType,
     NegotiationStepType, RegisterStepType, ConnectTcpSocketFits,
     EnsureLibssh2InitializedFits, SessionInitFits, RegisterSessionFits DEF OpenStep
<1>6. ASSUME NEW c \in Callers, ShortCall(c)
      PROVE  TypeOK' /\ \A u \in Threads : PhaseFits(u)'
  <2>1. TypeOK'
    BY <1>6, CloseSessionType, SendKeepaliveType, WriteType, ReadType, SessionNotFoundType DEF ShortCall
  <2> QED BY <1>6, <2>1, ShortCallFits
<1>7. ASSUME NEW c \in Callers, TransferStep(c)
      PROVE  TypeOK' /\ \A u \in Threads : PhaseFits(u)'
  <2>1. TypeOK'
    BY <1>7, OpenTransferChannelType, StartRemoteCommandType, ReadOutputType, WriteContentType,
       CloseTransferChannelType, FinishTransferType DEF TransferStep
  <2> QED BY <1>7, <2>1, TransferStepFits
<1>8. ASSUME NEW c \in Callers, ExecuteCommand(c) \/ DownloadFile(c) \/ UploadFile(c)
      PROVE  TypeOK' /\ \A u \in Threads : PhaseFits(u)'
  <2>1. PICK transfer \in Transfers : BeginTransfer(c, transfer)
    BY <1>8 DEF ExecuteCommand, DownloadFile, UploadFile, Transfers
  <2> QED BY <2>1, BeginTransferType, BeginTransferFits
<1>9. ASSUME NEW l \in Libs, NEW p \in {"up", "silent", "closed"}, PeerChange(l, p)
      PROVE  TypeOK' /\ \A u \in Threads : PhaseFits(u)'
  <2>1. UNCHANGED <<pc, sock, own, mutex>>
    BY <1>9 DEF PeerChange
  <2> QED BY <1>9, <2>1, PeerChangeType DEF PhaseInv, PhaseFits
<1>10. CASE UNCHANGED vars
  BY <1>10 DEF vars, PhaseInv, PhaseFits, TypeOK
<1> QED
  BY <1>1, <1>2, <1>3, <1>4, <1>5, <1>6, <1>7, <1>8, <1>9, <1>10 DEF Next, JavaScript

(* Every variable keeps its type, and every thread holds exactly what its   *)
(* phase of open_session_internal or of a transfer holds.                   *)
THEOREM PhaseCorrect == Spec => []PhaseInv
BY PhaseInvInit, PhaseInvNext, PTL DEF Spec

(* Type correctness of the module's state, for all constants. *)
THEOREM TypeCorrect == Spec => []TypeOK
<1>1. PhaseInv => TypeOK
  BY DEF PhaseInv
<1> QED BY <1>1, PhaseCorrect, PTL

----------------------------------------------------------------------------
(***************************************************************************)
(* 2. The session table: an entry stays while a transfer runs, ids are never*)
(* reused, and kessh.cpp implements SessionTable.                          *)
(***************************************************************************)

(* Every id that is anywhere in use was issued before next_session_id. *)

IdsInv ==
  /\ \A i \in Ids : i >= nextId => sessions[i] = None
  /\ \A i \in known : i < nextId
  /\ \A t \in Threads : sid[t] < nextId

(* What a step may do to the table and to session_mutex. *)

(* nothing; a transfer that runs goes on with the same id *)
KeepsTable ==
  /\ UNCHANGED <<sessions, nextId, mutex>>
  /\ mutex # None => sid'[mutex] = sid[mutex]

AddsEntry ==
  /\ mutex = None /\ mutex' = None
  /\ nextId \in Ids /\ nextId' = nextId + 1
  /\ \E s \in KesshSession : sessions' = [sessions EXCEPT ![nextId] = s]

RemovesEntry ==
  /\ mutex = None /\ mutex' = None /\ UNCHANGED nextId
  /\ \E i \in Ids : sessions[i] # None /\ sessions' = [sessions EXCEPT ![i] = None]

UpdatesEntry ==
  /\ mutex = None /\ mutex' = None /\ UNCHANGED nextId
  /\ \E i \in Ids, failed \in BOOLEAN :
       sessions[i] # None /\ sessions' = [sessions EXCEPT ![i].failed = failed]

TakesMutex ==
  /\ mutex = None /\ mutex' \in Callers
  /\ Registered(sid[mutex']) /\ UNCHANGED <<sessions, nextId, sid>>

ReleasesMutex == mutex # None /\ mutex' = None /\ UNCHANGED <<sessions, nextId>>

TableStep ==
  KeepsTable \/ AddsEntry \/ RemovesEntry \/ UpdatesEntry \/ TakesMutex \/ ReleasesMutex

(* A step of an open leaves the table alone until it registers. *)
LEMMA OpenTableStep ==
  ASSUME PhaseInv, NEW t \in Openers, OpenStep(t) PROVE TableStep
<1> t \in Threads /\ None \notin Threads
  BY ThreadFacts, NoneFacts
<1>1. CASE RegisterSession(t)
  <2>1. own[t] \in Libs /\ sock[t] \in Socks
    BY <1>1 DEF RegisterSession, RegisterAs, PhaseInv, PhaseFits, TypeOK, SockPhases, LibPhases
  <2>2. [lib |-> own[t], sock |-> sock[t], failed |-> FALSE] \in KesshSession
    BY <2>1 DEF KesshSession
  <2> QED BY <1>1, <2>2 DEF RegisterSession, RegisterAs, TableStep, AddsEntry
<1>2. CASE ~RegisterSession(t)
  <2>1. pc[t] \in OpenPhases /\ UNCHANGED <<sessions, nextId, mutex>>
    BY <1>2 DEF OpenStep, ConnectTcpSocket, EnsureLibssh2Initialized, SessionInit, Handshake,
         UserAuth, OpenShellChannel, RequestPty, StartShell, Negotiate, OpenPhases
  <2>2. mutex # t
    BY <2>1 DEF PhaseInv, PhaseFits, OpenPhases, BodyPhases
  <2>3. \A u \in Threads \ {t} : sid'[u] = sid[u]
    BY <1>2 DEF OpenStep, ConnectTcpSocket, EnsureLibssh2Initialized, SessionInit, Handshake,
         UserAuth, OpenShellChannel, RequestPty, StartShell, Negotiate, CleanupOpenFailure,
         Proceed, ReturnFromOpen, PhaseInv, TypeOK
  <2>4. mutex # None => mutex \in Threads
    BY ThreadFacts DEF PhaseInv, TypeOK
  <2> QED BY <2>1, <2>2, <2>3, <2>4 DEF TableStep, KeepsTable
<1> QED BY <1>1, <1>2

LEMMA ShortCallTableStep ==
  ASSUME PhaseInv, NEW c \in Callers, ShortCall(c) PROVE TableStep
<1> c \in Threads
  BY ThreadFacts
<1>1. mutex = None /\ mutex' = None /\ UNCHANGED nextId
  BY DEF ShortCall, CloseSession, ReleaseSession, SendKeepalive, Write, Read, SessionNotFound
<1>2. CASE Write(c) \/ Read(c) \/ SessionNotFound(c)
  BY <1>1, <1>2 DEF Write, Read, SessionNotFound, TableStep, KeepsTable
<1>3. CASE CloseSession(c)
  BY <1>1, <1>3 DEF CloseSession, ReleaseSession, Registered, TableStep, RemovesEntry
<1>4. CASE SendKeepalive(c)
  <2>1. sid[c] \in Ids /\ sessions[sid[c]] # None
    BY <1>4 DEF SendKeepalive, Registered
  <2>2. PICK failed \in BOOLEAN : sessions' = [sessions EXCEPT ![sid[c]].failed = failed]
    BY <1>4, SendKeepaliveUpdate DEF PhaseInv
  <2> QED BY <1>1, <2>1, <2>2 DEF TableStep, UpdatesEntry
<1> QED BY <1>2, <1>3, <1>4 DEF ShortCall

LEMMA TransferTableStep ==
  ASSUME PhaseInv, NEW c \in Callers, TransferStep(c) PROVE TableStep
<1> c \in Threads /\ c # None
  BY ThreadFacts, NoneFacts
<1>1. pc[c] \in BodyPhases /\ UNCHANGED <<sessions, nextId>>
  BY DEF TransferStep, OpenTransferChannel, StartRemoteCommand, ReadOutput, ReadLoop,
         WriteContent, CloseTransferChannel, FinishTransfer, TransferOnly, BodyPhases
<1>2. mutex = c
  BY <1>1 DEF PhaseInv, PhaseFits
<1>3. mutex' = None \/ UNCHANGED <<mutex, sid>>
  BY DEF TransferStep, OpenTransferChannel, StartRemoteCommand, ReadOutput, ReadLoop,
         WriteContent, CloseTransferChannel, FinishTransfer, EndTransfer, Continue, Retry, Advance
<1> QED BY <1>1, <1>2, <1>3 DEF TableStep, KeepsTable, ReleasesMutex

LEMMA AsyncTableStep ==
  ASSUME PhaseInv, NEW j \in Jobs,
         OpenSessionAsync(j) \/ ExecuteOpenSessionAsync(j) \/ CompleteOpenSessionAsync(j)
  PROVE  TableStep
<1> j \in Threads /\ j \notin Callers
  BY ThreadFacts
<1>1. /\ UNCHANGED <<sessions, nextId, mutex>>
      /\ \A u \in Threads \ {j} : sid'[u] = sid[u]
  BY DEF OpenSessionAsync, ExecuteOpenSessionAsync, CompleteOpenSessionAsync, PhaseInv, TypeOK
<1>2. mutex # None => mutex \in Callers /\ mutex \in Threads
  BY ThreadFacts DEF PhaseInv, TypeOK
<1> QED BY <1>1, <1>2 DEF TableStep, KeepsTable

(* session_mutex covers every change of the table, and no change of the     *)
(* table or of its caller happens under a transfer that holds it.           *)
LEMMA EveryTableStep == PhaseInv /\ [Next]_vars => TableStep
<1> SUFFICES ASSUME PhaseInv, [Next]_vars PROVE TableStep
  OBVIOUS
<1>1. CASE OpenSession
  BY <1>1 DEF OpenSession, TableStep, KeepsTable
<1>2. ASSUME NEW c \in Callers, NEW call \in LockPhases, NEW i \in known, Invoke(c, call, i)
      PROVE  TableStep
  <2>1. mutex # c /\ c \in Threads
    BY <1>2, ThreadFacts DEF Invoke, PhaseInv, PhaseFits, BodyPhases
  <2>2. mutex # None => mutex \in Threads \ {c}
    BY <2>1, ThreadFacts DEF PhaseInv, TypeOK
  <2> QED BY <1>2, <2>2 DEF Invoke, TableStep, KeepsTable, PhaseInv, TypeOK
<1>3. ASSUME NEW on \in BOOLEAN, SetKeepaliveConfig(on) PROVE TableStep
  BY <1>3 DEF SetKeepaliveConfig, TableStep, KeepsTable
<1>4. ASSUME NEW c \in Callers, ExecuteCommand(c) \/ DownloadFile(c) \/ UploadFile(c) PROVE TableStep
  BY <1>4 DEF ExecuteCommand, DownloadFile, UploadFile, BeginTransfer, EnterTransfer, TableStep, TakesMutex
<1>5. ASSUME NEW l \in Libs, NEW p \in {"up", "silent", "closed"}, PeerChange(l, p) PROVE TableStep
  BY <1>5 DEF PeerChange, TableStep, KeepsTable
<1>6. CASE UNCHANGED vars
  BY <1>6 DEF vars, TableStep, KeepsTable
<1> QED
  BY <1>1, <1>2, <1>3, <1>4, <1>5, <1>6, OpenTableStep, ShortCallTableStep, TransferTableStep,
     AsyncTableStep DEF Next, JavaScript

----------------------------------------------------------------------------
(* The session a transfer works on *)

HeldInv == mutex # None => Registered(sid[mutex])

LEMMA HeldInvNext == PhaseInv /\ HeldInv /\ TableStep => HeldInv'
<1> SUFFICES ASSUME PhaseInv, HeldInv, TableStep PROVE HeldInv'
  OBVIOUS
<1>1. CASE KeepsTable
  BY <1>1 DEF KeepsTable, HeldInv, Registered
<1>2. CASE TakesMutex
  BY <1>2 DEF TakesMutex, HeldInv, Registered
<1>3. CASE mutex' = None
  BY <1>3 DEF HeldInv
<1> QED
  BY <1>1, <1>2, <1>3 DEF TableStep, AddsEntry, RemovesEntry, UpdatesEntry, ReleasesMutex

(* session_mutex is only held by a transfer whose session is in the table. *)
THEOREM HeldCorrect == Spec => []HeldInv
<1>1. Init => HeldInv
  BY DEF Init, HeldInv
<1>2. PhaseInv /\ HeldInv /\ [Next]_vars => HeldInv'
  BY EveryTableStep, HeldInvNext
<1> QED BY <1>1, <1>2, PhaseCorrect, PTL DEF Spec

(* While executeCommand, downloadFile or uploadFile runs it holds           *)
(* session_mutex and its KesshSession is in the table: closeSession never   *)
(* deletes it under the transfer.                                           *)
THEOREM TransferHoldsSessionCorrect == Spec => []TransferHoldsSession
<1>1. PhaseInv /\ HeldInv => TransferHoldsSession
  BY ThreadFacts, NoneFacts DEF PhaseInv, PhaseFits, HeldInv, TransferHoldsSession
<1> QED BY <1>1, PhaseCorrect, HeldCorrect, PTL

----------------------------------------------------------------------------
(* Session ids *)

IssuesId(id) == id = nextId /\ nextId' = nextId + 1

(* An id that appears anywhere was there before, or is issued by the step. *)
IdsStep ==
  /\ nextId' >= nextId
  /\ \A t \in Threads : sid'[t] \in {sid[t], 0} \cup known \/ IssuesId(sid'[t])
  /\ \A i \in known' : i \in known \/ (\E t \in Threads : i = sid[t]) \/ IssuesId(i)

LEMMA NextIdNat == TypeOK => nextId \in Nat /\ nextId >= 1 /\ MaxId \in Nat
BY ConstantsAssumption DEF TypeOK

LEMMA OpenIdsStep ==
  ASSUME PhaseInv, NEW t \in Openers, OpenStep(t) PROVE IdsStep
<1> t \in Threads /\ TypeOK /\ nextId \in Nat
  BY ThreadFacts, NextIdNat DEF PhaseInv
<1>1. CASE RegisterSession(t)
  BY <1>1 DEF RegisterSession, RegisterAs, ReturnFromOpen, IdsStep, IssuesId, TypeOK
<1>2. CASE ~RegisterSession(t)
  <2>1. UNCHANGED nextId
    BY <1>2 DEF OpenStep, ConnectTcpSocket, EnsureLibssh2Initialized, SessionInit, Handshake,
         UserAuth, OpenShellChannel, RequestPty, StartShell, Negotiate
  <2>2. (\E phase : Proceed(t, phase)) \/ ReturnFromOpen(t, 0)
    BY <1>2 DEF OpenStep, ConnectTcpSocket, EnsureLibssh2Initialized, SessionInit, Handshake,
         UserAuth, OpenShellChannel, RequestPty, StartShell, Negotiate, CleanupOpenFailure
  <2>3. known' = known /\ \A u \in Threads : sid'[u] \in {sid[u], 0}
    BY <2>2 DEF Proceed, ReturnFromOpen, TypeOK
  <2> QED BY <2>1, <2>3 DEF IdsStep
<1> QED BY <1>1, <1>2

LEMMA EveryIdsStep == PhaseInv /\ [Next]_vars => IdsStep
<1> SUFFICES ASSUME PhaseInv, [Next]_vars PROVE IdsStep
  OBVIOUS
<1> TypeOK /\ nextId \in Nat
  BY NextIdNat DEF PhaseInv
<1>1. ASSUME NEW c \in Callers, ShortCall(c) PROVE IdsStep
  <2>1. UNCHANGED <<nextId, known>> /\ sid' = [sid EXCEPT ![c] = 0]
    BY <1>1 DEF ShortCall, CloseSession, ReleaseSession, SendKeepalive, Write, Read,
         SessionNotFound, Returns
  <2> QED BY <2>1 DEF IdsStep, TypeOK
<1>2. ASSUME NEW c \in Callers, TransferStep(c) PROVE IdsStep
  <2>1. UNCHANGED <<nextId, known>> /\ (sid' = sid \/ sid' = [sid EXCEPT ![c] = 0])
    BY <1>2 DEF TransferStep, OpenTransferChannel, StartRemoteCommand, ReadOutput, ReadLoop,
         WriteContent, CloseTransferChannel, FinishTransfer, TransferOnly, EndTransfer, Continue, Retry, Advance
  <2> QED BY <2>1 DEF IdsStep, TypeOK
<1>3. ASSUME NEW c \in Callers, NEW call \in LockPhases, NEW i \in known, Invoke(c, call, i)
      PROVE  IdsStep
  BY <1>3 DEF Invoke, IdsStep, TypeOK
<1>4. ASSUME NEW j \in Jobs, CompleteOpenSessionAsync(j) PROVE IdsStep
  BY <1>4, ThreadFacts DEF CompleteOpenSessionAsync, IdsStep, TypeOK
<1>5. CASE UNCHANGED <<nextId, known, sid>>
  BY <1>5 DEF IdsStep
<1>6. ASSUME NEW j \in Jobs, OpenSessionAsync(j) \/ ExecuteOpenSessionAsync(j) PROVE IdsStep
  BY <1>5, <1>6 DEF OpenSessionAsync, ExecuteOpenSessionAsync
<1>7. ASSUME NEW c \in Callers, ExecuteCommand(c) \/ DownloadFile(c) \/ UploadFile(c) PROVE IdsStep
  BY <1>5, <1>7 DEF ExecuteCommand, DownloadFile, UploadFile, BeginTransfer, EnterTransfer
<1>8. ASSUME NEW l \in Libs, NEW p \in {"up", "silent", "closed"}, PeerChange(l, p) PROVE IdsStep
  BY <1>5, <1>8 DEF PeerChange
<1>9. CASE OpenSession \/ (\E on \in BOOLEAN : SetKeepaliveConfig(on)) \/ UNCHANGED vars
  BY <1>5, <1>9 DEF OpenSession, SetKeepaliveConfig, vars
<1> QED
  BY <1>1, <1>2, <1>3, <1>4, <1>6, <1>7, <1>8, <1>9, OpenIdsStep DEF Next, JavaScript

LEMMA IdsInvNext == PhaseInv /\ IdsInv /\ [Next]_vars => IdsInv'
<1> SUFFICES ASSUME PhaseInv, IdsInv, TableStep, IdsStep PROVE IdsInv'
  BY EveryTableStep, EveryIdsStep
<1> nextId \in Nat /\ nextId >= 1 /\ MaxId \in Nat
  BY NextIdNat DEF PhaseInv
<1> nextId' \in Nat /\ nextId' >= nextId
  BY DEF IdsStep, TableStep, KeepsTable, AddsEntry, RemovesEntry, UpdatesEntry, TakesMutex, ReleasesMutex
<1> \A i : i \in Ids \cup {0} => i \in Nat
  BY DEF Ids
<1>1. (\A i \in known : i \in Nat) /\ \A t \in Threads : sid[t] \in Nat
  <2>1. known \subseteq Ids /\ \A t \in Threads : sid[t] \in Ids \cup {0}
    BY DEF PhaseInv, TypeOK
  <2> QED BY <2>1
<1>2. \A i \in Ids : i >= nextId' => sessions'[i] = None
  <2> sessions \in [Ids -> KesshSession \cup {None}]
    BY DEF PhaseInv, TypeOK
  <2> QED BY DEF IdsInv, TableStep, KeepsTable, AddsEntry, RemovesEntry, UpdatesEntry, TakesMutex, ReleasesMutex
<1>3. ASSUME NEW i \in known' PROVE i < nextId'
  <2>1. i \in known \/ (\E t \in Threads : i = sid[t]) \/ IssuesId(i)
    BY DEF IdsStep
  <2>2. CASE i \in known
    BY <1>1, <2>2 DEF IdsInv
  <2>3. CASE \E t \in Threads : i = sid[t]
    BY <1>1, <2>3 DEF IdsInv
  <2>4. CASE IssuesId(i)
    BY <2>4 DEF IssuesId
  <2> QED BY <2>1, <2>2, <2>3, <2>4
<1>4. ASSUME NEW t \in Threads PROVE sid'[t] < nextId'
  <2>1. sid'[t] \in {sid[t], 0} \/ sid'[t] \in known \/ IssuesId(sid'[t])
    BY DEF IdsStep
  <2>2. CASE sid'[t] \in {sid[t], 0}
    <3>1. sid[t] < nextId /\ sid[t] \in Nat
      BY <1>1 DEF IdsInv
    <3> QED BY <2>2, <3>1
  <2>3. CASE sid'[t] \in known
    <3>1. sid'[t] < nextId /\ sid'[t] \in Nat
      BY <1>1, <2>3 DEF IdsInv
    <3> QED BY <3>1
  <2>4. CASE IssuesId(sid'[t])
    BY <2>4 DEF IssuesId
  <2> QED BY <2>1, <2>2, <2>3, <2>4
<1> QED BY <1>2, <1>3, <1>4 DEF IdsInv

(* Every id in use was issued; ids from next_session_id on are unused. *)
THEOREM IdsCorrect == Spec => []IdsInv
<1>1. Init => IdsInv
  BY DEF Init, IdsInv, Ids
<1> QED BY <1>1, IdsInvNext, PhaseCorrect, PTL DEF Spec

(* next_session_id only grows, so an id JavaScript ever held is never given *)
(* to another session.                                                      *)
THEOREM IdsNeverReusedCorrect == Spec => IdsNeverReused
<1>1. PhaseInv /\ IdsInv /\ [Next]_vars =>
        [\A i \in Ids : sessions[i] = None /\ sessions'[i] # None => i \notin known]_vars
  <2> SUFFICES ASSUME PhaseInv, IdsInv, TableStep, NEW i \in Ids,
                      sessions[i] = None, sessions'[i] # None
               PROVE  i \notin known
    BY EveryTableStep
  <2>1. AddsEntry
    BY DEF TableStep, KeepsTable, RemovesEntry, UpdatesEntry, TakesMutex, ReleasesMutex, PhaseInv, TypeOK
  <2>2. i = nextId
    BY <2>1 DEF AddsEntry, PhaseInv, TypeOK
  <2> QED BY <2>2, NextIdNat DEF IdsInv, PhaseInv
<1> QED BY <1>1, PhaseCorrect, IdsCorrect, PTL DEF Spec, IdsNeverReused

----------------------------------------------------------------------------
(* Refinement: the table the code keeps is a SessionTable *)

TableUser == IF mutex = None THEN None ELSE <<mutex, sid[mutex]>>

LEMMA TableInitMaps == Init => Table!TableInit
BY DEF Init, Table!TableInit, TableStatus, Ids

LEMMA TableStepMaps ==
  ASSUME PhaseInv, IdsInv, HeldInv, TableStep
  PROVE  [Table!TableNext]_Table!tvars
<1> DEFINE S == [i \in Ids |-> TableStatus(i)]
<1> nextId \in Nat /\ nextId >= 1 /\ None \notin KesshSession /\ None \notin Callers
  BY NextIdNat, ConstantsAssumption, ThreadFacts, NoneFacts DEF PhaseInv
<1> /\ sessions \in [Ids -> KesshSession \cup {None}]
    /\ \A i \in Ids : i \in Nat
    /\ mutex \in Callers \cup {None}
  BY DEF PhaseInv, TypeOK, Ids
<1>1. CASE KeepsTable
  <2>1. TableUser' = TableUser
    BY <1>1 DEF KeepsTable, TableUser
  <2>2. S' = S
    BY <1>1 DEF KeepsTable, TableStatus
  <2> QED BY <2>1, <2>2 DEF Table!tvars, TableUser
<1>2. CASE AddsEntry
  <2>1. nextId \in Ids /\ sessions[nextId] = None
    BY <1>2 DEF AddsEntry, IdsInv
  <2>2. PICK s \in KesshSession : sessions' = [sessions EXCEPT ![nextId] = s]
    BY <1>2 DEF AddsEntry
  <2>3. sessions'[nextId] # None /\ \A i \in Ids \ {nextId} : sessions'[i] = sessions[i]
    BY <2>1, <2>2
  <2>4. S[nextId] = "fresh"
    BY <2>1 DEF TableStatus
  <2>5. \A i \in Ids : S'[i] = IF i = nextId THEN "open" ELSE S[i]
    BY <1>2, <2>3 DEF AddsEntry, TableStatus
  <2>6. S' = [S EXCEPT ![nextId] = "open"]
    BY <2>5
  <2>7. TableUser' = TableUser
    BY <1>2 DEF AddsEntry, TableUser
  <2> QED BY <2>1, <2>6, <2>7, <2>4 DEF Table!TableNext, Table!Open, TableUser
<1>3. CASE RemovesEntry
  <2>1. PICK i \in Ids : sessions[i] # None /\ sessions' = [sessions EXCEPT ![i] = None]
    BY <1>3 DEF RemovesEntry
  <2>2. S[i] = "open" /\ i < nextId
    BY <2>1 DEF TableStatus, IdsInv
  <2>3. nextId' = nextId /\ mutex = None /\ mutex' = None
    BY <1>3 DEF RemovesEntry
  <2>4. TableStatus(i)' = "closed" /\ \A k \in Ids \ {i} : TableStatus(k)' = TableStatus(k)
    BY <2>1, <2>2, <2>3 DEF TableStatus
  <2>5. S' = [S EXCEPT ![i] = "closed"]
    BY <2>4
  <2> QED BY <2>2, <2>3, <2>5 DEF Table!TableNext, Table!Close
<1>4. CASE UpdatesEntry
  <2>1. PICK i \in Ids, failed \in BOOLEAN :
          sessions[i] # None /\ sessions' = [sessions EXCEPT ![i].failed = failed]
    BY <1>4 DEF UpdatesEntry
  <2>2. [sessions[i] EXCEPT !.failed = failed] \in KesshSession
    BY <2>1 DEF KesshSession
  <2>3. sessions'[i] # None
    BY <2>1, <2>2
  <2>4. \A k \in Ids : TableStatus(k)' = TableStatus(k)
    BY <1>4, <2>1, <2>3 DEF UpdatesEntry, TableStatus
  <2>5. S' = S
    BY <2>4
  <2> QED BY <1>4, <2>5 DEF UpdatesEntry, Table!tvars
<1>5. CASE TakesMutex
  <2>1. S[sid[mutex']] = "open" /\ sid[mutex'] \in Ids
    BY <1>5 DEF TakesMutex, Registered, TableStatus
  <2>2. S' = S
    BY <1>5 DEF TakesMutex, TableStatus
  <2>3. mutex' \in Callers /\ mutex' # None /\ mutex = None /\ sid' = sid
    BY <1>5 DEF TakesMutex
  <2>4. TableUser = None /\ TableUser' = <<mutex', sid[mutex']>>
    BY <2>3 DEF TableUser
  <2>5. Table!Acquire(mutex', sid[mutex'])
    BY <2>1, <2>2, <2>4 DEF Table!Acquire, TableUser
  <2> QED BY <2>1, <2>3, <2>5 DEF Table!TableNext
<1>6. CASE ReleasesMutex
  <2>1. S' = S
    BY <1>6 DEF ReleasesMutex, TableStatus
  <2>2. mutex \in Callers /\ sid[mutex] \in Ids /\ mutex' = None /\ mutex # None
    BY <1>6 DEF ReleasesMutex, HeldInv, Registered
  <2>3. <<mutex, sid[mutex]>> # None
    BY <2>2, ConstantsAssumption
  <2> QED BY <2>1, <2>2, <2>3 DEF Table!TableNext, Table!Release
<1> QED BY <1>1, <1>2, <1>3, <1>4, <1>5, <1>6 DEF TableStep

(* kessh.cpp implements the session table: an id is opened once and closed  *)
(* once, one transfer at a time works on a session, and none is closed under*)
(* it.                                                                      *)
THEOREM ImplementsTableCorrect == Spec => ImplementsTable
<1>1. PhaseInv /\ IdsInv /\ HeldInv /\ [Next]_vars => [Table!TableNext]_Table!tvars
  BY EveryTableStep, TableStepMaps
<1> QED BY <1>1, TableInitMaps, PhaseCorrect, IdsCorrect, HeldCorrect, PTL DEF Spec, ImplementsTable, Table!TableSpec

----------------------------------------------------------------------------
(* Reachability: who knows the id of an open session *)

Reachable(i) == i \in known \/ \E j \in Jobs : pc[j] = "executed" /\ sid[j] = i

(* JavaScript forgets no id, the result of an async open waits until it is  *)
(* told to JavaScript, and a new session is reachable at once.              *)
ReachStep ==
  /\ \A i \in Ids : Reachable(i) => Reachable(i)'
  /\ \A i \in Ids : Registered(i)' => Registered(i) \/ Reachable(i)'

(* A step of a thread that is no job waiting to deliver its result. *)
LEMMA ReachFrame ==
  ASSUME NEW t \in Threads, known \subseteq known', pc[t] # "executed",
         \A u \in Threads \ {t} : pc'[u] = pc[u] /\ sid'[u] = sid[u]
  PROVE  \A i \in Ids : Reachable(i) => Reachable(i)'
BY ThreadFacts DEF Reachable

LEMMA OpenReachStep ==
  ASSUME PhaseInv, NEW t \in Openers, OpenStep(t) PROVE ReachStep
<1> t \in Threads /\ TypeOK /\ (t = UI \/ t \in Jobs)
  BY ThreadFacts DEF PhaseInv, Openers
<1>1. CASE RegisterSession(t)
  <2> PICK id \in Ids : id = nextId
    BY <1>1 DEF RegisterSession, RegisterAs
  <2> DEFINE s == [lib |-> own[t], sock |-> sock[t], failed |-> FALSE]
  <2>0. RegisterAs(t, id)
    BY <1>1 DEF RegisterSession
  <2>a. pc[t] # "executed"
    BY <2>0 DEF RegisterAs
  <2>b. id \in Nat \ {0}
    BY ConstantsAssumption DEF Ids
  <2>c. ReturnFromOpen(t, id) /\ sessions' = [sessions EXCEPT ![id] = s]
    BY <2>0 DEF RegisterAs
  <2> HIDE DEF s
  <2>1. /\ pc[t] # "executed" /\ id \in Nat \ {0}
        /\ ReturnFromOpen(t, id)
        /\ sessions' = [sessions EXCEPT ![id] = s]
    BY <2>a, <2>b, <2>c
  <2>2. /\ known \subseteq known'
        /\ \A u \in Threads \ {t} : pc'[u] = pc[u] /\ sid'[u] = sid[u]
        /\ id \in known' \/ (t \in Jobs /\ pc'[t] = "executed" /\ sid'[t] = id)
    <3>1. CASE t = UI
      BY <2>1, <3>1 DEF ReturnFromOpen, TypeOK
    <3>2. CASE t # UI
      BY <2>1, <3>2 DEF ReturnFromOpen, TypeOK
    <3> QED BY <3>1, <3>2
  <2>3. Reachable(id)'
    BY <2>2 DEF Reachable
  <2>4. \A i \in Ids \ {id} : Registered(i)' => Registered(i)
    BY <2>1 DEF Registered, TypeOK
  <2> QED BY <2>1, <2>2, <2>3, <2>4, ReachFrame DEF ReachStep
<1>2. CASE ~RegisterSession(t)
  <2>1. /\ pc[t] # "executed" /\ sessions' = sessions
        /\ (\E phase : Proceed(t, phase)) \/ ReturnFromOpen(t, 0)
    BY <1>2 DEF OpenStep, ConnectTcpSocket, EnsureLibssh2Initialized, SessionInit, Handshake,
         UserAuth, OpenShellChannel, RequestPty, StartShell, Negotiate, CleanupOpenFailure
  <2>2. /\ known \subseteq known'
        /\ \A u \in Threads \ {t} : pc'[u] = pc[u] /\ sid'[u] = sid[u]
    BY <2>1 DEF Proceed, ReturnFromOpen, TypeOK
  <2> QED BY <2>1, <2>2, ReachFrame DEF ReachStep, Registered
<1> QED BY <1>1, <1>2

LEMMA EveryReachStep == PhaseInv /\ [Next]_vars => ReachStep
<1> SUFFICES ASSUME PhaseInv, [Next]_vars PROVE ReachStep
  OBVIOUS
<1> TypeOK
  BY DEF PhaseInv
<1>1. ASSUME NEW c \in Callers, ShortCall(c) PROVE ReachStep
  <2> c \in Threads
    BY ThreadFacts
  <2>0. Returns(c) /\ pc[c] \in LockPhases
    BY <1>1 DEF ShortCall, CloseSession, ReleaseSession, SendKeepalive, Write, Read,
         SessionNotFound, LockPhases
  <2>a. pc[c] # "executed"
    BY <2>0 DEF LockPhases, Transfers
  <2>1. known' = known /\ Returns(c) /\ pc[c] # "executed"
    BY <2>0, <2>a DEF Returns
  <2>2. \A u \in Threads \ {c} : pc'[u] = pc[u] /\ sid'[u] = sid[u]
    BY <2>1 DEF Returns, TypeOK
  <2>3. \A i \in Ids : Registered(i)' => Registered(i)
    <3>1. CASE UNCHANGED sessions
      BY <3>1 DEF Registered
    <3>2. CASE CloseSession(c)
      BY <3>2 DEF CloseSession, ReleaseSession, Registered, TypeOK
    <3>3. CASE SendKeepalive(c)
      <4>1. \A i \in Ids \ {sid[c]} : sessions'[i] = sessions[i]
        BY <3>3, SendKeepaliveUpdate DEF TypeOK
      <4>2. Registered(sid[c])
        BY <3>3 DEF SendKeepalive
      <4> QED BY <4>1, <4>2 DEF Registered
    <3> QED BY <1>1, <3>1, <3>2, <3>3 DEF ShortCall, Write, Read, SessionNotFound
  <2> QED BY <2>1, <2>2, <2>3, ReachFrame DEF ReachStep
<1>2. ASSUME NEW c \in Callers, TransferStep(c) PROVE ReachStep
  <2>1. /\ c \in Threads /\ pc[c] # "executed" /\ UNCHANGED <<sessions, known>>
        /\ pc' = pc \/ (\E phase : pc' = [pc EXCEPT ![c] = phase])
        /\ sid' = sid \/ sid' = [sid EXCEPT ![c] = 0]
    BY <1>2, ThreadFacts DEF TransferStep, OpenTransferChannel, StartRemoteCommand, ReadOutput,
         ReadLoop, WriteContent, CloseTransferChannel, FinishTransfer, TransferOnly, EndTransfer, Continue, Retry, Advance
  <2>2. \A u \in Threads \ {c} : pc'[u] = pc[u] /\ sid'[u] = sid[u]
    BY <2>1 DEF TypeOK
  <2> QED BY <2>1, <2>2, ReachFrame DEF ReachStep, Registered
<1>3. ASSUME NEW c \in Callers, NEW call \in LockPhases, NEW i \in known, Invoke(c, call, i)
      PROVE  ReachStep
  <2>1. /\ c \in Threads /\ pc[c] # "executed" /\ UNCHANGED <<sessions, known>>
        /\ \A u \in Threads \ {c} : pc'[u] = pc[u] /\ sid'[u] = sid[u]
    BY <1>3, ThreadFacts DEF Invoke, TypeOK
  <2> QED BY <2>1, ReachFrame DEF ReachStep, Registered
<1>4. ASSUME NEW j \in Jobs, CompleteOpenSessionAsync(j) PROVE ReachStep
  <2>1. /\ UNCHANGED sessions /\ known \subseteq known'
        /\ \A k \in Jobs \ {j} : pc'[k] = pc[k] /\ sid'[k] = sid[k]
        /\ pc[j] = "executed" /\ sid[j] # 0 => sid[j] \in known'
    BY <1>4, ThreadFacts DEF CompleteOpenSessionAsync, TypeOK
  <2>2. ASSUME NEW i \in Ids, Reachable(i) PROVE Reachable(i)'
    <3>1. i # 0
      BY DEF Ids
    <3>2. CASE i \in known
      BY <2>1, <3>2 DEF Reachable
    <3>3. CASE pc[j] = "executed" /\ sid[j] = i
      BY <2>1, <3>1, <3>3 DEF Reachable
    <3>4. CASE \E k \in Jobs \ {j} : pc[k] = "executed" /\ sid[k] = i
      BY <2>1, <3>4 DEF Reachable
    <3> QED BY <2>2, <3>2, <3>3, <3>4 DEF Reachable
  <2> QED BY <2>1, <2>2 DEF ReachStep, Registered
<1>5. ASSUME NEW j \in Jobs, OpenSessionAsync(j) \/ ExecuteOpenSessionAsync(j) PROVE ReachStep
  <2>1. /\ j \in Threads /\ pc[j] # "executed" /\ UNCHANGED <<sessions, known, sid>>
        /\ \A u \in Threads \ {j} : pc'[u] = pc[u]
    BY <1>5, ThreadFacts DEF OpenSessionAsync, ExecuteOpenSessionAsync, TypeOK
  <2> QED BY <2>1, ReachFrame DEF ReachStep, Registered
<1>6. CASE OpenSession
  <2>1. /\ UI \in Threads /\ pc[UI] # "executed" /\ UNCHANGED <<sessions, known, sid>>
        /\ \A u \in Threads \ {UI} : pc'[u] = pc[u]
    BY <1>6, ThreadFacts DEF OpenSession, TypeOK
  <2> QED BY <2>1, ReachFrame DEF ReachStep, Registered
<1>7. ASSUME NEW c \in Callers, ExecuteCommand(c) \/ DownloadFile(c) \/ UploadFile(c)
      PROVE  ReachStep
  <2>1. /\ c \in Threads /\ pc[c] # "executed" /\ UNCHANGED <<sessions, known, sid>>
        /\ \A u \in Threads \ {c} : pc'[u] = pc[u]
    BY <1>7, ThreadFacts DEF ExecuteCommand, DownloadFile, UploadFile, BeginTransfer, EnterTransfer, TypeOK
  <2> QED BY <2>1, ReachFrame DEF ReachStep, Registered
<1>8. CASE UNCHANGED <<sessions, known, pc, sid>>
  BY <1>8 DEF ReachStep, Reachable, Registered
<1>9. CASE \/ \E on \in BOOLEAN : SetKeepaliveConfig(on)
           \/ \E l \in Libs, p \in {"up", "silent", "closed"} : PeerChange(l, p)
           \/ UNCHANGED vars
  BY <1>8, <1>9 DEF SetKeepaliveConfig, PeerChange, vars
<1> QED
  BY <1>1, <1>2, <1>3, <1>4, <1>5, <1>6, <1>7, <1>9, OpenReachStep DEF Next, JavaScript

(* No open session is out of reach of closeSession: JavaScript has its id,  *)
(* or will get it from the promise of openSessionAsync.                     *)
THEOREM OpenSessionsAreReachableCorrect == Spec => []OpenSessionsAreReachable
<1>1. Init => OpenSessionsAreReachable
  BY DEF Init, OpenSessionsAreReachable, Registered
<1>2. PhaseInv /\ OpenSessionsAreReachable /\ [Next]_vars => OpenSessionsAreReachable'
  <2> SUFFICES ASSUME OpenSessionsAreReachable, ReachStep PROVE OpenSessionsAreReachable'
    BY EveryReachStep
  <2>1. \A i \in Ids : Registered(i) => Reachable(i)
    BY DEF OpenSessionsAreReachable, Reachable
  <2>2. \A i \in Ids : Registered(i)' => Reachable(i)'
    BY <2>1 DEF ReachStep
  <2> QED BY <2>2 DEF OpenSessionsAreReachable, Reachable
<1> QED BY <1>1, <1>2, PhaseCorrect, PTL DEF Spec

----------------------------------------------------------------------------
(***************************************************************************)
(* 3. File descriptors and libssh2 sessions: each is held by one open under*)
(* way or by one entry of the table, and given back by the step that forgets*)
(* it.  Both kinds of handle follow the same argument, made once for a     *)
(* function h of what the opens hold, a function e of what the entries hold,*)
(* and the set S of the handles that are in use.                           *)
(***************************************************************************)

HeldByOne(h, e, S) ==
  /\ \A t, u \in Openers : h[t] # None /\ h[u] = h[t] => u = t
  /\ \A t \in Openers, i \in Ids : h[t] # None => e[i] # h[t]
  /\ \A i, k \in Ids : e[i] # None /\ e[k] = e[i] => k = i
  /\ \A x : x \in S <=> x # None /\ ((\E t \in Openers : h[t] = x) \/ \E i \in Ids : e[i] = x)

LEMMA HeldSame ==
  ASSUME NEW h, NEW g, NEW e, NEW S, HeldByOne(h, e, S),
         \A u \in Openers : g[u] = h[u]
  PROVE  HeldByOne(g, e, S)
BY DEF HeldByOne

LEMMA OpenGains ==
  ASSUME NEW h, NEW g, NEW e, NEW S, HeldByOne(h, e, S),
         NEW t \in Openers, NEW x, x \notin S, x # None, h[t] = None,
         g[t] = x, \A u \in Openers \ {t} : g[u] = h[u]
  PROVE  HeldByOne(g, e, S \cup {x})
BY DEF HeldByOne

LEMMA OpenLoses ==
  ASSUME NEW h, NEW g, NEW e, NEW S, HeldByOne(h, e, S),
         NEW t \in Openers, h[t] # None,
         g[t] = None, \A u \in Openers \ {t} : g[u] = h[u]
  PROVE  HeldByOne(g, e, S \ {h[t]})
BY DEF HeldByOne

LEMMA OpenToEntry ==
  ASSUME NEW h, NEW g, NEW e, NEW f, NEW S, HeldByOne(h, e, S),
         NEW t \in Openers, NEW i \in Ids, h[t] # None, e[i] = None,
         g[t] = None, \A u \in Openers \ {t} : g[u] = h[u],
         f[i] = h[t], \A k \in Ids \ {i} : f[k] = e[k]
  PROVE  HeldByOne(g, f, S)
BY DEF HeldByOne

LEMMA EntryLoses ==
  ASSUME NEW h, NEW e, NEW f, NEW S, HeldByOne(h, e, S),
         NEW i \in Ids, e[i] # None,
         f[i] = None, \A k \in Ids \ {i} : f[k] = e[k]
  PROVE  HeldByOne(h, f, S \ {e[i]})
BY DEF HeldByOne

----------------------------------------------------------------------------
(* The handles of kessh.cpp *)

entrySock == [i \in Ids |-> IF sessions[i] = None THEN None ELSE sessions[i].sock]
entryLib == [i \in Ids |-> IF sessions[i] = None THEN None ELSE sessions[i].lib]
liveLibs == {l \in Libs : lib[l].alloc = "live"}

SocksHeld == HeldByOne(sock, entrySock, sockets)
LibsHeld == HeldByOne(own, entryLib, liveLibs)

HandleInv == SocksHeld /\ LibsHeld

LEMMA FreedIsNotLive ==
  ASSUME TypeOK, NEW l \in Libs, NEW freed \in BOOLEAN, lib' = FreedLib(l, freed)
  PROVE  liveLibs' = liveLibs \ {l}
<1>1. lib'[l].alloc # "live" /\ \A k \in Libs \ {l} : lib'[k] = lib[k]
  BY DEF FreedLib, FreeLib, LeakedLib, TypeOK
<1> QED BY <1>1 DEF liveLibs

LEMMA AllocKept ==
  ASSUME NEW l \in Libs, TypeOK, NEW r, lib' = [lib EXCEPT ![l] = r], r.alloc = lib[l].alloc
  PROVE  liveLibs' = liveLibs
<1>1. \A k \in Libs : lib'[k].alloc = lib[k].alloc
  BY DEF TypeOK
<1> QED BY <1>1 DEF liveLibs

LEMMA AllocOfUpdates ==
  ASSUME NEW r \in LibSession
  PROVE  /\ [r EXCEPT !.blocking = FALSE].alloc = r.alloc
         /\ [r EXCEPT !.channel = TRUE].alloc = r.alloc
         /\ \A on \in BOOLEAN : [r EXCEPT !.keepalive = on].alloc = r.alloc
         /\ \A p \in {"up", "silent", "closed"} : [r EXCEPT !.peer = p].alloc = r.alloc
BY DEF LibSession

LEMMA FailedOnly ==
  ASSUME NEW r \in KesshSession, NEW failed \in BOOLEAN
  PROVE  /\ [r EXCEPT !.failed = failed] \in KesshSession
         /\ [r EXCEPT !.failed = failed].lib = r.lib /\ [r EXCEPT !.failed = failed].sock = r.sock
BY DEF KesshSession

LEMMA OwnSocketCloses ==
  ASSUME PhaseInv, SocksHeld, NEW t \in Openers, pc[t] \in SockPhases,
         CloseOwnSocket(t), UNCHANGED sessions
  PROVE  SocksHeld'
<1>1. t \in Threads /\ sock[t] # None /\ entrySock' = entrySock
  BY ThreadFacts DEF PhaseInv, PhaseFits, entrySock
<1>2. sockets' = sockets \ {sock[t]} /\ sock'[t] = None /\ \A u \in Openers \ {t} : sock'[u] = sock[u]
  BY <1>1, ThreadFacts DEF CloseOwnSocket, PhaseInv, TypeOK
<1>3. HeldByOne(sock', entrySock, sockets \ {sock[t]})
  BY <1>1, <1>2, OpenLoses DEF SocksHeld
<1> QED BY <1>1, <1>2, <1>3 DEF SocksHeld

(* The step of an open that fails after libssh2_session_init *)
LEMMA CleanupGivesBack ==
  ASSUME PhaseInv, HandleInv, NEW t \in Openers, pc[t] \in LibPhases,
         CleanupOpenFailure(t), UNCHANGED sessions
  PROVE  HandleInv'
<1>1. t \in Threads /\ own[t] # None /\ own[t] \in Libs /\ entryLib' = entryLib /\ pc[t] \in SockPhases
  BY ThreadFacts DEF PhaseInv, PhaseFits, TypeOK, entryLib, SockPhases
<1>2. PICK freed \in BOOLEAN : lib' = FreedLib(own[t], freed)
  BY FreeOutcomesType DEF CleanupOpenFailure
<1>3. liveLibs' = liveLibs \ {own[t]}
  BY <1>1, <1>2, FreedIsNotLive DEF PhaseInv
<1>4. own'[t] = None /\ \A u \in Openers \ {t} : own'[u] = own[u]
  BY <1>1, ThreadFacts DEF CleanupOpenFailure, PhaseInv, TypeOK
<1>5. HeldByOne(own', entryLib, liveLibs \ {own[t]})
  BY <1>1, <1>4, OpenLoses DEF HandleInv, LibsHeld
<1>6. LibsHeld'
  BY <1>1, <1>3, <1>5 DEF LibsHeld
<1>7. SocksHeld'
  BY <1>1, OwnSocketCloses DEF CleanupOpenFailure, HandleInv
<1> QED BY <1>6, <1>7 DEF HandleInv

LEMMA ConnectHandles ==
  ASSUME PhaseInv, HandleInv, NEW t \in Openers, ConnectTcpSocket(t) PROVE HandleInv'
<1>1. UNCHANGED <<sessions, lib, own>> /\ pc[t] = "connect" /\ t \in Threads
  BY ThreadFacts DEF ConnectTcpSocket
<1>2. entrySock' = entrySock /\ LibsHeld'
  BY <1>1 DEF entrySock, entryLib, liveLibs, HandleInv, LibsHeld
<1>3. CASE UNCHANGED <<sockets, sock>>
  BY <1>2, <1>3 DEF HandleInv, SocksHeld
<1>4. CASE \E s \in Socks \ sockets : sockets' = sockets \cup {s} /\ sock' = [sock EXCEPT ![t] = s]
  <2>1. PICK s \in Socks \ sockets : sockets' = sockets \cup {s} /\ sock' = [sock EXCEPT ![t] = s]
    BY <1>4
  <2>2. s # None /\ sock[t] = None
    BY <1>1, NoneFacts DEF PhaseInv, PhaseFits, SockPhases, LibPhases
  <2>3. sock'[t] = s /\ \A u \in Openers \ {t} : sock'[u] = sock[u]
    BY <1>1, <2>1, ThreadFacts DEF PhaseInv, TypeOK
  <2>4. HeldByOne(sock', entrySock, sockets \cup {s})
    BY <2>1, <2>2, <2>3, OpenGains DEF HandleInv, SocksHeld
  <2> QED BY <1>2, <2>1, <2>4 DEF HandleInv, SocksHeld
<1> QED BY <1>3, <1>4 DEF ConnectTcpSocket

LEMMA EnsureHandles ==
  ASSUME PhaseInv, HandleInv, NEW t \in Openers, EnsureLibssh2Initialized(t) PROVE HandleInv'
<1>1. UNCHANGED <<sessions, lib, own>> /\ pc[t] \in SockPhases
  BY DEF EnsureLibssh2Initialized, SockPhases
<1>2. entrySock' = entrySock /\ LibsHeld'
  BY <1>1 DEF entrySock, entryLib, liveLibs, HandleInv, LibsHeld
<1>3. CASE UNCHANGED <<sockets, sock>>
  BY <1>2, <1>3 DEF HandleInv, SocksHeld
<1>4. CASE CloseOwnSocket(t)
  BY <1>1, <1>2, <1>4, OwnSocketCloses DEF HandleInv
<1> QED BY <1>3, <1>4 DEF EnsureLibssh2Initialized

LEMMA SessionInitHandles ==
  ASSUME PhaseInv, HandleInv, NEW t \in Openers, SessionInit(t) PROVE HandleInv'
<1>1. UNCHANGED sessions /\ pc[t] = "create" /\ pc[t] \in SockPhases /\ t \in Threads
  BY ThreadFacts DEF SessionInit, SockPhases
<1>2. entrySock' = entrySock /\ entryLib' = entryLib
  BY <1>1 DEF entrySock, entryLib
<1>3. CASE UNCHANGED <<lib, own>> /\ CloseOwnSocket(t)
  <2>1. LibsHeld'
    BY <1>2, <1>3 DEF HandleInv, LibsHeld, liveLibs
  <2> QED BY <1>1, <1>3, <2>1, OwnSocketCloses DEF HandleInv
<1>4. CASE \E l \in Libs : /\ lib[l].alloc = "free" /\ lib' = [lib EXCEPT ![l] = NewLib]
                           /\ own' = [own EXCEPT ![t] = l] /\ UNCHANGED <<sockets, sock>>
  <2>1. PICK l \in Libs : /\ lib[l].alloc = "free" /\ lib' = [lib EXCEPT ![l] = NewLib]
                          /\ own' = [own EXCEPT ![t] = l] /\ UNCHANGED <<sockets, sock>>
    BY <1>4
  <2>2. l # None /\ own[t] = None /\ l \notin liveLibs
    BY <1>1, <2>1, NoneFacts DEF PhaseInv, PhaseFits, LibPhases, liveLibs
  <2>3. own'[t] = l /\ \A u \in Openers \ {t} : own'[u] = own[u]
    BY <1>1, <2>1, ThreadFacts DEF PhaseInv, TypeOK
  <2>4. liveLibs' = liveLibs \cup {l}
    <3>1. lib'[l].alloc = "live" /\ \A k \in Libs \ {l} : lib'[k] = lib[k]
      BY <2>1 DEF NewLib, FreeLib, PhaseInv, TypeOK
    <3> QED BY <3>1 DEF liveLibs
  <2>5. HeldByOne(own', entryLib, liveLibs \cup {l})
    BY <2>2, <2>3, OpenGains DEF HandleInv, LibsHeld
  <2> QED BY <1>2, <2>1, <2>4, <2>5 DEF HandleInv, SocksHeld, LibsHeld
<1> QED BY <1>3, <1>4 DEF SessionInit

LEMMA NegotiateHandles ==
  ASSUME PhaseInv, HandleInv, NEW t \in Openers, NEW phase \in LibPhases, NEW next, NEW after,
         after.alloc = lib[own[t]].alloc, Negotiate(t, phase, next, after)
  PROVE  HandleInv'
<1>1. UNCHANGED sessions /\ pc[t] \in LibPhases /\ own[t] \in Libs
  BY ThreadFacts, NoneFacts DEF Negotiate, PhaseInv, PhaseFits, TypeOK
<1>2. CASE CleanupOpenFailure(t)
  BY <1>1, <1>2, CleanupGivesBack
<1>3. CASE lib' = [lib EXCEPT ![own[t]] = after] /\ UNCHANGED <<sockets, sock, own>>
  <2>1. liveLibs' = liveLibs
    BY <1>1, <1>3, AllocKept DEF PhaseInv
  <2> QED BY <1>1, <1>3, <2>1 DEF HandleInv, SocksHeld, LibsHeld, entrySock, entryLib
<1> QED BY <1>2, <1>3 DEF Negotiate

LEMMA OpenStepHandles ==
  ASSUME PhaseInv, IdsInv, HandleInv, NEW t \in Openers, OpenStep(t) PROVE HandleInv'
<1>1. CASE Handshake(t) \/ UserAuth(t) \/ OpenShellChannel(t) \/ RequestPty(t) \/ StartShell(t)
  <2>1. pc[t] \in LibPhases
    BY <1>1 DEF Handshake, UserAuth, OpenShellChannel, RequestPty, StartShell, Negotiate, LibPhases
  <2>2. lib[own[t]] \in LibSession
    BY <2>1, ThreadFacts, NoneFacts DEF PhaseInv, PhaseFits, TypeOK
  <2>3. /\ [lib[own[t]] EXCEPT !.keepalive = interval].alloc = lib[own[t]].alloc
        /\ [lib[own[t]] EXCEPT !.channel = TRUE].alloc = lib[own[t]].alloc
    BY <2>2, AllocOfUpdates DEF PhaseInv, TypeOK
  <2> QED BY <1>1, <2>3, NegotiateHandles DEF Handshake, UserAuth, OpenShellChannel, RequestPty,
             StartShell, LibPhases
<1>2. CASE RegisterSession(t)
  <2>1. /\ t \in Threads /\ own[t] \in Libs /\ sock[t] \in Socks /\ own[t] # None /\ sock[t] # None
    BY <1>2, ThreadFacts, NoneFacts
       DEF RegisterSession, RegisterAs, PhaseInv, PhaseFits, TypeOK, SockPhases, LibPhases
  <2>2. nextId \in Ids /\ sessions[nextId] = None
    BY <1>2 DEF RegisterSession, RegisterAs, IdsInv, Ids
  <2> DEFINE s == [lib |-> own[t], sock |-> sock[t], failed |-> FALSE]
  <2>3. sessions' = [sessions EXCEPT ![nextId] = s] /\ UNCHANGED <<lib, sockets>>
        /\ own' = [own EXCEPT ![t] = None] /\ sock' = [sock EXCEPT ![t] = None]
    BY <1>2 DEF RegisterSession, RegisterAs
  <2>4. s \in KesshSession /\ s.lib = own[t] /\ s.sock = sock[t]
    BY <2>1 DEF KesshSession
  <2> HIDE DEF s
  <2>5. s # None
    BY <2>4, ConstantsAssumption
  <2>6. sessions'[nextId] = s /\ \A k \in Ids \ {nextId} : sessions'[k] = sessions[k]
    BY <2>2, <2>3 DEF PhaseInv, TypeOK
  <2>7. /\ entrySock'[nextId] = sock[t] /\ entrySock[nextId] = None
        /\ \A k \in Ids \ {nextId} : entrySock'[k] = entrySock[k]
    BY <2>2, <2>4, <2>6, <2>5 DEF entrySock
  <2>8. /\ entryLib'[nextId] = own[t] /\ entryLib[nextId] = None
        /\ \A k \in Ids \ {nextId} : entryLib'[k] = entryLib[k]
    BY <2>2, <2>4, <2>6, <2>5 DEF entryLib
  <2>9. /\ sock'[t] = None /\ \A u \in Openers \ {t} : sock'[u] = sock[u]
        /\ own'[t] = None /\ \A u \in Openers \ {t} : own'[u] = own[u]
    BY <2>1, <2>3, ThreadFacts DEF PhaseInv, TypeOK
  <2>10. HeldByOne(sock', entrySock', sockets)
    BY <2>1, <2>2, <2>7, <2>9, OpenToEntry DEF HandleInv, SocksHeld
  <2>11. HeldByOne(own', entryLib', liveLibs)
    BY <2>1, <2>2, <2>8, <2>9, OpenToEntry DEF HandleInv, LibsHeld
  <2> QED BY <2>3, <2>10, <2>11 DEF HandleInv, SocksHeld, LibsHeld, liveLibs
<1> QED BY <1>1, <1>2, ConnectHandles, EnsureHandles, SessionInitHandles DEF OpenStep

----------------------------------------------------------------------------
(* The calls on a session *)

(* Nothing that matters here changes. *)
LEMMA HandlesUntouched ==
  ASSUME HandleInv, UNCHANGED <<sessions, sockets, lib, sock, own>> PROVE HandleInv'
BY DEF HandleInv, SocksHeld, LibsHeld, entrySock, entryLib, liveLibs

LEMMA CloseHandles ==
  ASSUME PhaseInv, HandleInv, NEW c \in Callers, CloseSession(c) PROVE HandleInv'
<1> DEFINE i == sid[c]
           s == sessions[i]
<1>1. /\ i \in Ids /\ s # None /\ UNCHANGED <<sock, own>> /\ sockets' = sockets \ {s.sock}
      /\ sessions' = [sessions EXCEPT ![i] = None]
  BY DEF CloseSession, ReleaseSession, Registered, Returns
<1>2. s \in KesshSession /\ s.lib \in Libs /\ s.sock \in Socks
  BY <1>1 DEF PhaseInv, TypeOK, KesshSession
<1>3. PICK freed \in BOOLEAN : lib' = FreedLib(s.lib, freed)
  BY FreeOutcomesType DEF CloseSession, ReleaseSession
<1> HIDE DEF i, s
<1>4. liveLibs' = liveLibs \ {s.lib}
  BY <1>2, <1>3, FreedIsNotLive DEF PhaseInv
<1>5. sessions'[i] = None /\ \A k \in Ids \ {i} : sessions'[k] = sessions[k]
  BY <1>1 DEF PhaseInv, TypeOK
<1>6. /\ entrySock[i] = s.sock /\ entrySock'[i] = None /\ entrySock[i] # None
      /\ \A k \in Ids \ {i} : entrySock'[k] = entrySock[k]
  BY <1>1, <1>2, <1>5, NoneFacts DEF entrySock, s
<1>7. /\ entryLib[i] = s.lib /\ entryLib'[i] = None /\ entryLib[i] # None
      /\ \A k \in Ids \ {i} : entryLib'[k] = entryLib[k]
  BY <1>1, <1>2, <1>5, NoneFacts DEF entryLib, s
<1>8. HeldByOne(sock, entrySock', sockets \ {s.sock})
  BY <1>1, <1>6, EntryLoses DEF HandleInv, SocksHeld
<1>9. HeldByOne(own, entryLib', liveLibs \ {s.lib})
  BY <1>1, <1>7, EntryLoses DEF HandleInv, LibsHeld
<1> QED BY <1>1, <1>4, <1>8, <1>9 DEF HandleInv, SocksHeld, LibsHeld

LEMMA ShortCallHandles ==
  ASSUME PhaseInv, HandleInv, NEW c \in Callers, ShortCall(c) PROVE HandleInv'
<1>1. CASE CloseSession(c)
  BY <1>1, CloseHandles
<1>2. CASE SendKeepalive(c)
  <2>1. UNCHANGED <<sockets, lib, sock, own>> /\ sessions[sid[c]] # None
    BY <1>2 DEF SendKeepalive, Returns, Registered
  <2>2. sid[c] \in Ids /\ sessions[sid[c]] \in KesshSession
    BY <1>2, SendKeepaliveUpdate DEF PhaseInv
  <2>3. PICK failed \in BOOLEAN : sessions' = [sessions EXCEPT ![sid[c]].failed = failed]
    BY <1>2, SendKeepaliveUpdate DEF PhaseInv
  <2> DEFINE s == [sessions[sid[c]] EXCEPT !.failed = failed]
  <2>4. s \in KesshSession /\ s.lib = sessions[sid[c]].lib /\ s.sock = sessions[sid[c]].sock
    BY <2>2, FailedOnly
  <2>5. sessions'[sid[c]] = s /\ s # None /\ \A k \in Ids \ {sid[c]} : sessions'[k] = sessions[k]
    BY <2>2, <2>3, <2>4, ConstantsAssumption DEF PhaseInv, TypeOK
  <2>6. entrySock' = entrySock /\ entryLib' = entryLib
    <3>1. s.lib = sessions[sid[c]].lib /\ s.sock = sessions[sid[c]].sock /\ s # None
      BY <2>4, <2>5
    <3> HIDE DEF s
    <3>2. ASSUME NEW k \in Ids
          PROVE  /\ sessions'[k] = None <=> sessions[k] = None
                 /\ sessions[k] # None =>
                      sessions'[k].lib = sessions[k].lib /\ sessions'[k].sock = sessions[k].sock
      <4>1. CASE k = sid[c]
        BY <4>1, <2>1, <2>5, <3>1
      <4>2. CASE k # sid[c]
        BY <4>2, <2>5
      <4> QED BY <4>1, <4>2
    <3> QED BY <3>2 DEF entrySock, entryLib
  <2> QED BY <2>1, <2>6 DEF HandleInv, SocksHeld, LibsHeld, liveLibs
<1>3. CASE Read(c)
  <2>1. UNCHANGED <<sessions, sockets, sock, own>> /\ sid[c] \in Ids /\ sessions[sid[c]] # None
    BY <1>3 DEF Read, Returns, Registered
  <2>2. sessions[sid[c]].lib \in Libs
    BY <2>1 DEF PhaseInv, TypeOK, KesshSession
  <2>3. PICK l \in Libs : l = sessions[sid[c]].lib
    BY <2>2
  <2>4. lib[l] \in LibSession
    BY DEF PhaseInv, TypeOK
  <2>5. lib' = [lib EXCEPT ![l].blocking = FALSE]
    BY <1>3, <2>3 DEF Read
  <2>6. liveLibs' = liveLibs
    BY <2>4, <2>5, AllocOfUpdates, AllocKept DEF PhaseInv
  <2> QED BY <2>1, <2>6 DEF HandleInv, SocksHeld, LibsHeld, entrySock, entryLib
<1>4. CASE Write(c) \/ SessionNotFound(c)
  BY <1>4, HandlesUntouched DEF Write, SessionNotFound, Returns
<1> QED BY <1>1, <1>2, <1>3, <1>4 DEF ShortCall

LEMMA HandleInvNext == PhaseInv /\ IdsInv /\ HandleInv /\ [Next]_vars => HandleInv'
<1> SUFFICES ASSUME PhaseInv, IdsInv, HandleInv, [Next]_vars PROVE HandleInv'
  OBVIOUS
<1>1. CASE JavaScript
  BY <1>1, HandlesUntouched DEF JavaScript, OpenSession, OpenSessionAsync, Invoke, SetKeepaliveConfig
<1>2. ASSUME NEW j \in Jobs, ExecuteOpenSessionAsync(j) \/ CompleteOpenSessionAsync(j)
      PROVE  HandleInv'
  BY <1>2, HandlesUntouched DEF ExecuteOpenSessionAsync, CompleteOpenSessionAsync
<1>3. ASSUME NEW c \in Callers, TransferStep(c) PROVE HandleInv'
  BY <1>3, HandlesUntouched DEF TransferStep, OpenTransferChannel, StartRemoteCommand, ReadOutput,
     ReadLoop, WriteContent, CloseTransferChannel, FinishTransfer, TransferOnly
<1>4. ASSUME NEW c \in Callers, ExecuteCommand(c) \/ DownloadFile(c) \/ UploadFile(c)
      PROVE  HandleInv'
  BY <1>4, HandlesUntouched DEF ExecuteCommand, DownloadFile, UploadFile, BeginTransfer, EnterTransfer
<1>5. ASSUME NEW l \in Libs, NEW p \in {"up", "silent", "closed"}, PeerChange(l, p)
      PROVE  HandleInv'
  <2>1. UNCHANGED <<sessions, sockets, sock, own>> /\ lib' = [lib EXCEPT ![l].peer = p]
    BY <1>5 DEF PeerChange
  <2>2. lib[l] \in LibSession
    BY DEF PhaseInv, TypeOK
  <2>3. liveLibs' = liveLibs
    BY <2>1, <2>2, AllocOfUpdates, AllocKept DEF PhaseInv
  <2> QED BY <2>1, <2>3 DEF HandleInv, SocksHeld, LibsHeld, entrySock, entryLib
<1>6. CASE UNCHANGED vars
  BY <1>6, HandlesUntouched DEF vars
<1> QED BY <1>1, <1>2, <1>3, <1>4, <1>5, <1>6, OpenStepHandles, ShortCallHandles DEF Next

LEMMA HandleInvInit == Init => HandleInv
<1> SUFFICES ASSUME Init PROVE HandleInv
  OBVIOUS
<1>1. \A t \in Openers : sock[t] = None /\ own[t] = None
  BY ThreadFacts DEF Init
<1>2. \A i \in Ids : entrySock[i] = None /\ entryLib[i] = None
  BY DEF Init, entrySock, entryLib
<1>3. sockets = {} /\ liveLibs = {}
  BY DEF Init, FreeLib, liveLibs
<1> QED BY <1>1, <1>2, <1>3 DEF HandleInv, SocksHeld, LibsHeld, HeldByOne

----------------------------------------------------------------------------
(* The results *)

(* The handles in use are those of the opens under way and of the entries. *)
THEOREM HandleInvCorrect == Spec => []HandleInv
BY HandleInvInit, HandleInvNext, PhaseCorrect, IdsCorrect, PTL DEF Spec

(* No failure path of open_session_internal and no close releases a handle  *)
(* another owner has, and nobody holds one that was released.               *)
THEOREM HandlesOwnedOnceCorrect == Spec => []HandlesOwnedOnce
<1>1. ASSUME PhaseInv, HandleInv PROVE HandlesOwnedOnce
  <2>1. \A i \in Ids : Registered(i) =>
          /\ sessions[i].sock \in Socks /\ sessions[i].lib \in Libs
          /\ entrySock[i] = sessions[i].sock /\ entrySock[i] # None
          /\ entryLib[i] = sessions[i].lib /\ entryLib[i] # None
    BY <1>1, NoneFacts DEF PhaseInv, TypeOK, KesshSession, Registered, entrySock, entryLib
  <2>2. \A l \in liveLibs : lib[l].alloc = "live"
    BY DEF liveLibs
  <2>3. ASSUME NEW t \in Openers, sock[t] # None
        PROVE  /\ sock[t] \in sockets
               /\ \A u \in Openers : sock[u] = sock[t] => u = t
               /\ \A i \in Ids : Registered(i) => sessions[i].sock # sock[t]
    BY <1>1, <2>1, <2>3 DEF HandleInv, SocksHeld, HeldByOne
  <2>4. ASSUME NEW t \in Openers, own[t] # None
        PROVE  /\ lib[own[t]].alloc = "live"
               /\ \A u \in Openers : own[u] = own[t] => u = t
               /\ \A i \in Ids : Registered(i) => sessions[i].lib # own[t]
    BY <1>1, <2>1, <2>2, <2>4 DEF HandleInv, LibsHeld, HeldByOne
  <2>5. ASSUME NEW i \in Ids, Registered(i)
        PROVE  /\ sessions[i].sock \in sockets
               /\ \A k \in Ids : Registered(k) /\ k # i => sessions[k].sock # sessions[i].sock
    BY <1>1, <2>1, <2>5 DEF HandleInv, SocksHeld, HeldByOne
  <2>6. ASSUME NEW i \in Ids, Registered(i)
        PROVE  /\ lib[sessions[i].lib].alloc = "live"
               /\ \A k \in Ids : Registered(k) /\ k # i => sessions[k].lib # sessions[i].lib
    BY <1>1, <2>1, <2>2, <2>6 DEF HandleInv, LibsHeld, HeldByOne
  <2> QED BY <2>3, <2>4, <2>5, <2>6 DEF HandlesOwnedOnce
<1> QED BY <1>1, HandleInvCorrect, PhaseCorrect, PTL

(* Every open file descriptor is still somebody's to close. *)
THEOREM NoSocketLeakCorrect == Spec => []NoSocketLeak
<1>1. ASSUME HandleInv PROVE NoSocketLeak
  <2>1. ASSUME NEW s \in sockets
        PROVE  (\E t \in Openers : sock[t] = s) \/ \E i \in Ids : Registered(i) /\ sessions[i].sock = s
    <3>1. s # None /\ ((\E t \in Openers : sock[t] = s) \/ \E i \in Ids : entrySock[i] = s)
      BY <1>1 DEF HandleInv, SocksHeld, HeldByOne
    <3> QED BY <3>1 DEF entrySock, Registered
  <2> QED BY <2>1 DEF NoSocketLeak
<1> QED BY <1>1, HandleInvCorrect, PTL

----------------------------------------------------------------------------
(* Keepalives: a failed one leaves a session whose server has closed and    *)
(* whose next packet is due, and no other step touches its libssh2 session. *)

FailedIsDead(i) ==
  sessions[i] # None /\ sessions[i].failed =>
    lib[sessions[i].lib].keepalive /\ lib[sessions[i].lib].peer = "closed"

DeadInv == \A i \in Ids : FailedIsDead(i)

StaysFailed(i) == sessions[i] # None /\ sessions[i].failed /\ sessions'[i] # None => sessions'[i].failed

DeadStep == \A i \in Ids : FailedIsDead(i)' /\ StaysFailed(i)

LEMMA EntryLibFacts ==
  ASSUME PhaseInv, HandleInv, NEW i \in Ids, sessions[i] # None
  PROVE  /\ sessions[i].lib \in Libs /\ lib[sessions[i].lib].alloc = "live"
         /\ \A t \in Openers : own[t] # sessions[i].lib
         /\ \A k \in Ids \ {i} : sessions[k] # None => sessions[k].lib # sessions[i].lib
<1>1. sessions[i].lib \in Libs /\ entryLib[i] = sessions[i].lib /\ entryLib[i] # None
  BY NoneFacts DEF PhaseInv, TypeOK, KesshSession, entryLib
<1>2. \A k \in Ids : sessions[k] # None => entryLib[k] = sessions[k].lib
  BY DEF entryLib
<1>3. sessions[i].lib \in liveLibs
  BY <1>1 DEF HandleInv, LibsHeld, HeldByOne
<1>4. \A t \in Openers : own[t] # sessions[i].lib
  BY <1>1 DEF HandleInv, LibsHeld, HeldByOne
<1>5. \A k \in Ids \ {i} : sessions[k] # None => sessions[k].lib # sessions[i].lib
  BY <1>1, <1>2 DEF HandleInv, LibsHeld, HeldByOne
<1> QED BY <1>1, <1>3, <1>4, <1>5 DEF liveLibs

(* A step that leaves the entries and what they need of libssh2 alone *)
LEMMA QuietStep ==
  ASSUME DeadInv,
         \A i \in Ids : sessions'[i] # None /\ sessions[i] # None =>
           /\ sessions'[i] = sessions[i]
           /\ lib'[sessions[i].lib].keepalive = lib[sessions[i].lib].keepalive
           /\ lib[sessions[i].lib].peer = "closed" => lib'[sessions[i].lib].peer = "closed",
         \A i \in Ids : sessions'[i] # None /\ sessions[i] = None => ~sessions'[i].failed
  PROVE  DeadStep
BY DEF DeadInv, FailedIsDead, DeadStep, StaysFailed

LEMMA LibAloneStep ==
  ASSUME DeadInv, UNCHANGED <<sessions, lib>> PROVE DeadStep
BY QuietStep

(* Another libssh2 session than those of the entries changes. *)
LEMMA OtherLibStep ==
  ASSUME DeadInv, UNCHANGED sessions, NEW l, \A k \in Libs \ {l} : lib'[k] = lib[k],
         \A i \in Ids : sessions[i] # None => sessions[i].lib \in Libs \ {l}
  PROVE  DeadStep
BY QuietStep

LEMMA OpenStepDead ==
  ASSUME PhaseInv, IdsInv, HandleInv, DeadInv, NEW t \in Openers, OpenStep(t) PROVE DeadStep
<1>1. CASE UNCHANGED <<sessions, lib>>
  BY <1>1, LibAloneStep
<1>2. CASE SessionInit(t) /\ lib' # lib
  <2>1. PICK l \in Libs : lib[l].alloc = "free" /\ lib' = [lib EXCEPT ![l] = NewLib]
    BY <1>2 DEF SessionInit
  <2>2. \A k \in Libs \ {l} : lib'[k] = lib[k]
    BY <2>1 DEF PhaseInv, TypeOK
  <2> QED BY <1>2, <2>1, <2>2, EntryLibFacts, OtherLibStep DEF SessionInit
<1>3. CASE Handshake(t) \/ UserAuth(t) \/ OpenShellChannel(t) \/ RequestPty(t) \/ StartShell(t)
  <2>0. PICK phase \in LibPhases : \E next, after : Negotiate(t, phase, next, after)
    BY <1>3 DEF Handshake, UserAuth, OpenShellChannel, RequestPty, StartShell, LibPhases
  <2>1. PICK next, after : Negotiate(t, phase, next, after)
    BY <2>0
  <2>2. UNCHANGED sessions /\ own[t] \in Libs
    BY <2>1, ThreadFacts, NoneFacts DEF Negotiate, PhaseInv, PhaseFits, TypeOK
  <2>3. (\E r : lib' = [lib EXCEPT ![own[t]] = r])
    BY <2>1 DEF Negotiate, CleanupOpenFailure, FreedLib
  <2>4. \A k \in Libs \ {own[t]} : lib'[k] = lib[k]
    BY <2>2, <2>3 DEF PhaseInv, TypeOK
  <2> QED BY <2>2, <2>4, EntryLibFacts, OtherLibStep
<1>4. CASE RegisterSession(t)
  <2>1. nextId \in Ids /\ sessions[nextId] = None /\ UNCHANGED lib
    BY <1>4 DEF RegisterSession, RegisterAs, IdsInv, Ids
  <2>2. sessions' = [sessions EXCEPT ![nextId] = [lib |-> own[t], sock |-> sock[t], failed |-> FALSE]]
    BY <1>4 DEF RegisterSession, RegisterAs
  <2>3. ~sessions'[nextId].failed /\ \A i \in Ids \ {nextId} : sessions'[i] = sessions[i]
    BY <2>1, <2>2 DEF PhaseInv, TypeOK
  <2> QED BY <2>1, <2>3, QuietStep
<1> QED BY <1>1, <1>2, <1>3, <1>4 DEF OpenStep, ConnectTcpSocket, EnsureLibssh2Initialized, SessionInit

(* The only step that sets 'failed': the packet was due, the server closed. *)
LEMMA KeepaliveDead ==
  ASSUME PhaseInv, HandleInv, DeadInv, NEW c \in Callers, SendKeepalive(c) PROVE DeadStep
<1>1. PICK i \in Ids : i = sid[c]
  BY SendKeepaliveUpdate DEF PhaseInv
<1>2. PICK l : l = sessions[i].lib
  OBVIOUS
<1>3. sessions[i] # None /\ sessions[i] \in KesshSession /\ UNCHANGED lib
  BY <1>1, SendKeepaliveUpdate DEF PhaseInv, SendKeepalive, Registered
<1>4. PICK due \in KeepaliveDue(sessions[i]) :
        sessions' = [sessions EXCEPT ![i].failed = due /\ lib[l].peer = "closed"]
  BY <1>1, <1>2 DEF SendKeepalive
<1>5. due \in BOOLEAN /\ (due => lib[l].keepalive) /\ (FailedIsDead(i) /\ sessions[i].failed => due)
  BY <1>3, <1>4, <1>2 DEF KeepaliveDue, FailedIsDead
<1>6. PICK failed \in BOOLEAN : failed <=> due /\ lib[l].peer = "closed"
  OBVIOUS
<1>7. failed = (due /\ lib[l].peer = "closed")
  BY <1>5, <1>6
<1>8. sessions' = [sessions EXCEPT ![i] = [sessions[i] EXCEPT !.failed = failed]]
  BY <1>4, <1>7
<1>9. [sessions[i] EXCEPT !.failed = failed].failed = failed /\ [sessions[i] EXCEPT !.failed = failed].lib = l
  BY <1>3, <1>2 DEF KesshSession
<1>10. /\ sessions'[i].failed = failed /\ sessions'[i].lib = l
      /\ \A k \in Ids \ {i} : sessions'[k] = sessions[k]
  BY <1>3, <1>8, <1>9 DEF PhaseInv, TypeOK
<1>11. FailedIsDead(i)' /\ StaysFailed(i)
  BY <1>3, <1>5, <1>6, <1>10, <1>2 DEF FailedIsDead, StaysFailed, DeadInv
<1>12. \A k \in Ids \ {i} : FailedIsDead(k)' /\ StaysFailed(k)
  BY <1>3, <1>10 DEF FailedIsDead, StaysFailed, DeadInv
<1> QED BY <1>11, <1>12 DEF DeadStep

LEMMA ShortCallDead ==
  ASSUME PhaseInv, HandleInv, DeadInv, NEW c \in Callers, ShortCall(c) PROVE DeadStep
<1>1. CASE CloseSession(c)
  <2>1. sid[c] \in Ids /\ sessions[sid[c]] # None /\ sessions' = [sessions EXCEPT ![sid[c]] = None]
    BY <1>1 DEF CloseSession, ReleaseSession, Registered
  <2>2. PICK r : lib' = [lib EXCEPT ![sessions[sid[c]].lib] = r]
    BY <1>1 DEF CloseSession, ReleaseSession, FreedLib
  <2>3. sessions'[sid[c]] = None /\ \A i \in Ids \ {sid[c]} : sessions'[i] = sessions[i]
    BY <2>1 DEF PhaseInv, TypeOK
  <2>4. \A k \in Libs \ {sessions[sid[c]].lib} : lib'[k] = lib[k]
    BY <2>2 DEF PhaseInv, TypeOK
  <2>5. \A i \in Ids \ {sid[c]} : sessions[i] # None => lib'[sessions[i].lib] = lib[sessions[i].lib]
    BY <2>1, <2>4, EntryLibFacts
  <2> QED BY <2>3, <2>5, QuietStep
<1>2. CASE Read(c)
  <2>1. UNCHANGED sessions /\ sid[c] \in Ids /\ sessions[sid[c]] # None
    BY <1>2 DEF Read, Registered
  <2>2. PICK l \in Libs : l = sessions[sid[c]].lib
    BY <2>1, EntryLibFacts
  <2>3. lib' = [lib EXCEPT ![l].blocking = FALSE] /\ lib[l] \in LibSession
    BY <1>2, <2>2 DEF Read, PhaseInv, TypeOK
  <2>4. /\ [lib[l] EXCEPT !.blocking = FALSE].keepalive = lib[l].keepalive
        /\ [lib[l] EXCEPT !.blocking = FALSE].peer = lib[l].peer
    BY <2>3 DEF LibSession
  <2>5. \A k \in Libs : lib'[k].keepalive = lib[k].keepalive /\ lib'[k].peer = lib[k].peer
    BY <2>3, <2>4 DEF PhaseInv, TypeOK
  <2> QED BY <2>1, <2>5, EntryLibFacts, QuietStep
<1>3. CASE Write(c) \/ SessionNotFound(c)
  BY <1>3, LibAloneStep DEF Write, SessionNotFound
<1> QED BY <1>1, <1>2, <1>3, KeepaliveDead DEF ShortCall

LEMMA EveryDeadStep == PhaseInv /\ IdsInv /\ HandleInv /\ DeadInv /\ [Next]_vars => DeadStep
<1> SUFFICES ASSUME PhaseInv, IdsInv, HandleInv, DeadInv, [Next]_vars PROVE DeadStep
  OBVIOUS
<1>1. CASE JavaScript
  BY <1>1, LibAloneStep DEF JavaScript, OpenSession, OpenSessionAsync, Invoke, SetKeepaliveConfig
<1>2. ASSUME NEW j \in Jobs, ExecuteOpenSessionAsync(j) \/ CompleteOpenSessionAsync(j)
      PROVE  DeadStep
  BY <1>2, LibAloneStep DEF ExecuteOpenSessionAsync, CompleteOpenSessionAsync
<1>3. ASSUME NEW c \in Callers, TransferStep(c) PROVE DeadStep
  BY <1>3, LibAloneStep DEF TransferStep, OpenTransferChannel, StartRemoteCommand, ReadOutput,
     ReadLoop, WriteContent, CloseTransferChannel, FinishTransfer, TransferOnly
<1>4. ASSUME NEW c \in Callers, ExecuteCommand(c) \/ DownloadFile(c) \/ UploadFile(c)
      PROVE  DeadStep
  BY <1>4, LibAloneStep DEF ExecuteCommand, DownloadFile, UploadFile, BeginTransfer, EnterTransfer
<1>5. ASSUME NEW l \in Libs, NEW p \in {"up", "silent", "closed"}, PeerChange(l, p)
      PROVE  DeadStep
  <2>1. /\ UNCHANGED sessions /\ lib' = [lib EXCEPT ![l].peer = p] /\ lib[l].peer # "closed"
        /\ lib[l] \in LibSession
    BY <1>5 DEF PeerChange, PhaseInv, TypeOK
  <2>2. [lib[l] EXCEPT !.peer = p].keepalive = lib[l].keepalive
    BY <2>1 DEF LibSession
  <2>3. \A k \in Libs : /\ lib'[k].keepalive = lib[k].keepalive
                        /\ lib[k].peer = "closed" => lib'[k].peer = "closed"
    BY <2>1, <2>2 DEF PhaseInv, TypeOK
  <2> QED BY <2>1, <2>3, EntryLibFacts, QuietStep
<1>6. CASE UNCHANGED vars
  BY <1>6, LibAloneStep DEF vars
<1> QED BY <1>1, <1>2, <1>3, <1>4, <1>5, <1>6, OpenStepDead, ShortCallDead DEF Next

(* A failed session has a server that closed and a packet that is due. *)
THEOREM DeadInvCorrect == Spec => []DeadInv
<1>1. Init => DeadInv
  BY DEF Init, DeadInv, FailedIsDead
<1>2. PhaseInv /\ IdsInv /\ HandleInv /\ DeadInv /\ [Next]_vars => DeadInv'
  BY EveryDeadStep DEF DeadStep, DeadInv
<1> QED BY <1>1, <1>2, PhaseCorrect, IdsCorrect, HandleInvCorrect, PTL DEF Spec

(* Once a keepalive of a session has failed none reports success again. *)
THEOREM KeepaliveFailureIsFinalCorrect == Spec => KeepaliveFailureIsFinal
<1>1. PhaseInv /\ IdsInv /\ HandleInv /\ DeadInv /\ [Next]_vars =>
        [\A i \in Ids : Registered(i) /\ sessions[i].failed =>
           sessions'[i] = None \/ sessions'[i].failed]_vars
  BY EveryDeadStep DEF DeadStep, StaysFailed, Registered
<1> QED BY <1>1, PhaseCorrect, IdsCorrect, HandleInvCorrect, DeadInvCorrect, PTL
        DEF Spec, KeepaliveFailureIsFinal

----------------------------------------------------------------------------
(* 4. What an upload hands to its channel *)

(* The part of the content given to the channel so far *)

Prefix(n) == [i \in 1..n |-> i]

Progress(c) ==
  /\ pc[c] \notin {"body", "finish", "report"} => done[c] = 0 /\ upload[c].taken = <<>>
  /\ op[c] = "upload" => upload[c].taken = Prefix(done[c])
  /\ op[c] = "upload" /\ pc[c] \in {"finish", "report"} => done[c] = Chunks

ProgressInv == \A c \in Callers : Progress(c)

LEMMA EmptyPrefix == Prefix(0) = <<>>
BY DEF Prefix

(* A step that leaves the transfer of a thread alone. *)
LEMMA ProgressFrame ==
  ASSUME NEW c \in Callers, Progress(c), op'[c] = op[c], done'[c] = done[c], upload'[c] = upload[c],
         pc'[c] = pc[c] \/ (pc[c] \notin {"body", "finish", "report"} /\ pc'[c] \notin {"body", "finish", "report"})
  PROVE  Progress(c)'
BY DEF Progress

LEMMA EndTransferProgress ==
  ASSUME TypeOK, ProgressInv, NEW c \in Callers, EndTransfer(c) PROVE ProgressInv'
<1> c \in Threads /\ Callers \subseteq Threads
  BY ThreadFacts
<1>1. Progress(c)'
  BY DEF EndTransfer, Progress, TypeOK, NoUpload
<1>2. ASSUME NEW d \in Callers \ {c} PROVE Progress(d)'
  <2>1. op'[d] = op[d] /\ done'[d] = done[d] /\ upload'[d] = upload[d] /\ pc'[d] = pc[d]
    BY DEF EndTransfer, TypeOK
  <2> QED BY <2>1, ProgressFrame DEF ProgressInv
<1> QED BY <1>1, <1>2 DEF ProgressInv

LEMMA ContinueProgress ==
  ASSUME TypeOK, ProgressInv, NEW c \in Callers, NEW phase, Continue(c, phase),
         (pc[c] = "open" /\ phase = "start") \/ phase \in {"body", "finish"},
         phase = "finish" => op[c] # "upload" \/ done[c] = Chunks
  PROVE  ProgressInv'
<1> c \in Threads /\ Callers \subseteq Threads
  BY ThreadFacts
<1>1. pc'[c] = phase /\ UNCHANGED <<op, done, upload>> /\ \A d \in Threads \ {c} : pc'[d] = pc[d]
  BY DEF Continue, TypeOK
<1>2. CASE phase \in {"body", "finish"}
  <2>1. Progress(c)'
    BY <1>1, <1>2 DEF ProgressInv, Progress
  <2> QED BY <1>1, <2>1, ProgressFrame DEF ProgressInv
<1>3. CASE pc[c] = "open" /\ phase = "start"
  BY <1>1, <1>3, ProgressFrame DEF ProgressInv
<1> QED BY <1>2, <1>3

(* One turn of the write loop. *)
LEMMA WriteContentProgress ==
  ASSUME PhaseInv, ProgressInv, NEW c \in Callers, WriteContent(c) PROVE ProgressInv'
<1> /\ TypeOK /\ c \in Threads /\ Callers \subseteq Threads
    /\ done[c] \in 0..Chunks /\ Chunks \in Nat
    /\ pc[c] = "body" /\ op[c] = "upload" /\ upload[c].taken = Prefix(done[c])
  BY ThreadFacts, ConstantsAssumption DEF PhaseInv, TypeOK, WriteContent, ProgressInv, Progress
<1>1. CASE done[c] = Chunks
  BY <1>1, ContinueProgress DEF WriteContent
<1>2. CASE EndTransfer(c)
  BY <1>2, EndTransferProgress
<1>3. CASE Retry(c)
  BY <1>3, ProgressFrame DEF Retry, ProgressInv
<1>4. ASSUME NEW k \in 1..(Chunks - done[c]), Advance(c, k),
             upload' = [upload EXCEPT ![c].taken = @ \o NextChunks(c, k)]
      PROVE  ProgressInv'
  <2>1. /\ pc' = pc /\ op' = op
        /\ done'[c] = done[c] + k /\ upload'[c].taken = upload[c].taken \o NextChunks(c, k)
        /\ \A d \in Callers \ {c} : done'[d] = done[d] /\ upload'[d] = upload[d]
    BY <1>4 DEF Advance, TypeOK, Upload
  <2>2. upload[c].taken \o NextChunks(c, k) = Prefix(done[c] + k)
    BY NextChunksExtend DEF NextChunks, Prefix
  <2>3. Progress(c)'
    BY <2>1, <2>2 DEF Progress
  <2> QED BY <2>1, <2>3, ProgressFrame DEF ProgressInv
<1> QED BY <1>1, <1>2, <1>3, <1>4 DEF WriteContent

LEMMA TransferStepProgress ==
  ASSUME PhaseInv, ProgressInv, NEW c \in Callers, TransferStep(c) PROVE ProgressInv'
<1> TypeOK /\ c \in Threads
  BY ThreadFacts DEF PhaseInv
<1>1. CASE OpenTransferChannel(c)
  BY <1>1, ContinueProgress, EndTransferProgress DEF OpenTransferChannel
<1>2. CASE StartRemoteCommand(c)
  BY <1>2, ContinueProgress, EndTransferProgress DEF StartRemoteCommand
<1>3. CASE ReadOutput(c)
  <2>1. pc[c] = "body" /\ op[c] # "upload"
    BY <1>3 DEF ReadOutput, ReadLoop
  <2>2. CASE Continue(c, "finish")
    BY <2>1, <2>2, ContinueProgress
  <2>3. CASE Retry(c)
    BY <2>3, ProgressFrame DEF Retry, ProgressInv
  <2>4. CASE Advance(c, 1) /\ UNCHANGED upload
    <3>1. /\ pc' = pc /\ op' = op /\ upload' = upload
          /\ \A d \in Callers \ {c} : done'[d] = done[d]
      BY <2>4 DEF Advance, TypeOK
    <3>2. Progress(c)'
      BY <2>1, <3>1 DEF Progress
    <3> QED BY <3>1, <3>2, ProgressFrame DEF ProgressInv
  <2> QED BY <1>3, <2>2, <2>3, <2>4 DEF ReadOutput, ReadLoop
<1>4. CASE WriteContent(c)
  BY <1>4, WriteContentProgress
<1>5. CASE FinishTransfer(c)
  BY <1>5, EndTransferProgress DEF FinishTransfer
<1>6. CASE CloseTransferChannel(c)
  <2>1. /\ pc[c] = "finish" /\ pc'[c] = "report" /\ UNCHANGED <<op, done>>
        /\ upload'[c].taken = upload[c].taken
        /\ \A d \in Callers \ {c} : pc'[d] = pc[d] /\ upload'[d] = upload[d]
    BY <1>6, ThreadFacts DEF CloseTransferChannel, TypeOK, Upload
  <2>2. Progress(c)'
    BY <2>1 DEF ProgressInv, Progress
  <2> QED BY <2>1, <2>2, ProgressFrame DEF ProgressInv
<1> QED BY <1>1, <1>2, <1>3, <1>4, <1>5, <1>6 DEF TransferStep

LEMMA BeginTransferProgress ==
  ASSUME PhaseInv, ProgressInv, NEW c \in Callers, NEW transfer \in Transfers, BeginTransfer(c, transfer)
  PROVE  ProgressInv'
<1> TypeOK /\ c \in Threads /\ Callers \subseteq Threads
  BY ThreadFacts DEF PhaseInv
<1>1. /\ pc[c] \notin {"body", "finish", "report"} /\ pc'[c] = "open"
      /\ UNCHANGED <<done, upload>>
      /\ \A d \in Callers \ {c} : pc'[d] = pc[d] /\ op'[d] = op[d]
  BY DEF BeginTransfer, EnterTransfer, Transfers, TypeOK
<1>2. done[c] = 0 /\ upload[c].taken = Prefix(0) /\ upload[c].taken = <<>>
  BY <1>1, EmptyPrefix DEF ProgressInv, Progress
<1>3. Progress(c)'
  BY <1>1, <1>2 DEF Progress
<1> QED BY <1>1, <1>3, ProgressFrame DEF ProgressInv

(* Every other step: no thread enters or leaves the loop of a transfer. *)
LEMMA OtherProgress ==
  ASSUME PhaseInv, ProgressInv, UNCHANGED <<op, done, upload>>, NEW t \in Threads,
         pc[t] \notin {"body", "finish", "report"}, pc'[t] \notin {"body", "finish", "report"},
         \A u \in Threads \ {t} : pc'[u] = pc[u]
  PROVE  ProgressInv'
BY ThreadFacts, ProgressFrame DEF ProgressInv

LEMMA ProgressInvNext == PhaseInv /\ ProgressInv /\ [Next]_vars => ProgressInv'
<1> SUFFICES ASSUME PhaseInv, ProgressInv, [Next]_vars PROVE ProgressInv'
  OBVIOUS
<1> TypeOK
  BY DEF PhaseInv
<1>1. ASSUME NEW t \in Openers, OpenStep(t) PROVE ProgressInv'
  <2>1. /\ UNCHANGED <<op, done, upload>> /\ pc[t] \in OpenPhases
        /\ (\E phase \in OpenPhases : Proceed(t, phase)) \/ (\E id : ReturnFromOpen(t, id))
    BY <1>1 DEF OpenStep, ConnectTcpSocket, EnsureLibssh2Initialized, SessionInit, Handshake,
         UserAuth, OpenShellChannel, RequestPty, StartShell, Negotiate, CleanupOpenFailure,
         RegisterSession, RegisterAs, OpenPhases
  <2>2. /\ t \in Threads /\ pc'[t] \in OpenPhases \cup {"idle", "executed"}
        /\ \A u \in Threads \ {t} : pc'[u] = pc[u]
    BY <2>1, ThreadFacts DEF Proceed, ReturnFromOpen, TypeOK
  <2> QED BY <2>1, <2>2, OtherProgress DEF OpenPhases
<1>2. ASSUME NEW c \in Callers, ShortCall(c) PROVE ProgressInv'
  <2>1. /\ UNCHANGED <<op, done, upload>> /\ pc[c] \in LockPhases
        /\ pc' = [pc EXCEPT ![c] = "idle"]
    BY <1>2 DEF ShortCall, CloseSession, ReleaseSession, SendKeepalive, Write, Read,
         SessionNotFound, Returns, LockPhases
  <2>2. c \in Threads /\ pc'[c] = "idle" /\ \A u \in Threads \ {c} : pc'[u] = pc[u]
    BY <2>1, ThreadFacts DEF TypeOK
  <2> QED BY <2>1, <2>2, OtherProgress DEF LockPhases, Transfers
<1>3. ASSUME NEW c \in Callers, NEW call \in LockPhases, NEW i \in known, Invoke(c, call, i)
      PROVE  ProgressInv'
  <2>1. /\ UNCHANGED <<op, done, upload>> /\ pc[c] = "idle" /\ c \in Threads
        /\ pc'[c] \in LockPhases /\ \A u \in Threads \ {c} : pc'[u] = pc[u]
    BY <1>3, ThreadFacts DEF Invoke, TypeOK
  <2> QED BY <2>1, OtherProgress DEF LockPhases, Transfers
<1>4. ASSUME NEW j \in Jobs,
             OpenSessionAsync(j) \/ ExecuteOpenSessionAsync(j) \/ CompleteOpenSessionAsync(j)
      PROVE  ProgressInv'
  <2>1. /\ UNCHANGED <<op, done, upload>> /\ j \in Threads
        /\ pc[j] \in {"idle", "queued", "executed"} /\ pc'[j] \in {"idle", "queued", "connect"}
        /\ \A u \in Threads \ {j} : pc'[u] = pc[u]
    BY <1>4, ThreadFacts DEF OpenSessionAsync, ExecuteOpenSessionAsync, CompleteOpenSessionAsync, TypeOK
  <2> QED BY <2>1, OtherProgress
<1>5. CASE OpenSession
  <2>1. /\ UNCHANGED <<op, done, upload>> /\ UI \in Threads /\ pc[UI] = "idle" /\ pc'[UI] = "connect"
        /\ \A u \in Threads \ {UI} : pc'[u] = pc[u]
    BY <1>5, ThreadFacts DEF OpenSession, TypeOK
  <2> QED BY <2>1, OtherProgress
<1>6. CASE UNCHANGED <<pc, op, done, upload>>
  BY <1>6, ProgressFrame DEF ProgressInv
<1>7. CASE \/ \E on \in BOOLEAN : SetKeepaliveConfig(on)
           \/ \E l \in Libs, p \in {"up", "silent", "closed"} : PeerChange(l, p)
           \/ UNCHANGED vars
  BY <1>6, <1>7 DEF SetKeepaliveConfig, PeerChange, vars
<1>8. ASSUME NEW c \in Callers, ExecuteCommand(c) \/ DownloadFile(c) \/ UploadFile(c)
      PROVE  ProgressInv'
  <2>1. PICK transfer \in Transfers : BeginTransfer(c, transfer)
    BY <1>8 DEF ExecuteCommand, DownloadFile, UploadFile, Transfers
  <2> QED BY <2>1, BeginTransferProgress
<1> QED
  BY <1>1, <1>2, <1>3, <1>4, <1>5, <1>7, <1>8, TransferStepProgress DEF Next, JavaScript

(* An upload that ends without throwing has handed exactly the content to    *)
(* its channel, for content of any length and however libssh2_channel_write  *)
(* split it (kessh.cpp:910).                                                 *)
THEOREM UploadSendsContentCorrect == Spec => []UploadSendsContent
<1>1. Init => ProgressInv
  BY DEF Init, ProgressInv, Progress, NoUpload
<1>2. ProgressInv => UploadSendsContent
  BY DEF ProgressInv, Progress, UploadSendsContent, Prefix, Content
<1> QED BY <1>1, <1>2, ProgressInvNext, PhaseCorrect, PTL DEF Spec
=============================================================================
