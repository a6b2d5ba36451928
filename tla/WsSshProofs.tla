----------------------------- MODULE WsSshProofs -----------------------------
(***************************************************************************)
(* The inputs of the WebSocket SSH client, for any number of WebSockets,   *)
(* of SSH clients on each, and of inputs, refusals and losses.             *)
(***************************************************************************)
EXTENDS WsSsh, FiniteSetTheorems, TLAPS

----------------------------------------------------------------------------
(* The invariants *)

IsInput(m) == m.type = "input"

(* A queue holds the inputs from f to top, in their order. *)
Queued(q, f, top) ==
  /\ \A k \in DOMAIN q : IsInput(q[k]) => q[k].n \in f..top
  /\ \A j, k \in DOMAIN q : j < k /\ IsInput(q[j]) /\ IsInput(q[k]) => q[j].n < q[k].n
  /\ \A n \in f..top : \E k \in DOMAIN q : IsInput(q[k]) /\ q[k].n = n

(* What the shell the proxy writes to was last given is the input before f. *)
EndsBefore(c, f) ==
  LET w == c.streams[c.sshStream].written IN
    c.sshStream # 0 /\ c.streams[c.sshStream].shell = "open" /\ w # <<>> => w[Len(w)] = f - 1

Consecutive(w) == \A j \in 1..(Len(w) - 1) : w[j + 1] = w[j] + 1

ShellsOK(c) ==
  \A n \in DOMAIN c.streams :
    /\ Consecutive(c.streams[n].written)
    /\ c.streams[n].shell = "asked" => c.streams[n].written = <<>>

TypeInv ==
  /\ TypeOK
  /\ \A s \in Sockets : sent[s] <= events
  /\ \A s \in Sockets : sock[s] # "unused" => client.ws # None
  /\ page.isConnected => client.ws # None

(* A WebSocket that is not lost has all its inputs from some f on under way. *)
Ordered(s) ==
  /\ ShellsOK(proxy[s])
  /\ sock[s] \notin {"open", "closing"} => up[s] = <<>> \/ ~proxy[s].open
  /\ sock[s] \notin {"failed", "closed"} =>
       \E f \in 1..(sent[s] + 1) : Queued(up[s], f, sent[s]) /\ EndsBefore(proxy[s], f)

OrderInv == \A s \in Sockets : Ordered(s)

----------------------------------------------------------------------------
(* Queues *)

LEMMA QueueTypes ==
  ASSUME NEW m \in UpMessage
  PROVE  /\ IsInput(m) => m.n \in 1..MaxEvents
         /\ m.type \in {"connect", "input", "disconnect"}
BY DEF UpMessage, IsInput

LEMMA AppendOther ==
  ASSUME NEW q \in Seq(UpMessage), NEW f \in Nat, NEW top \in Nat, Queued(q, f, top),
         NEW m \in UpMessage, ~IsInput(m)
  PROVE  Queued(Append(q, m), f, top)
<1> PICK r : r = Append(q, m)
  OBVIOUS
<1>1. /\ DOMAIN q = 1..Len(q) /\ DOMAIN r = 1..(Len(q) + 1) /\ r[Len(q) + 1] = m /\ Len(q) \in Nat
      /\ \A k \in 1..Len(q) : r[k] = q[k]
  OBVIOUS
<1>2. \A k \in DOMAIN r : IsInput(r[k]) => k \in DOMAIN q /\ r[k] = q[k]
  BY <1>1
<1>3. \A k \in DOMAIN q : k \in DOMAIN r
  BY <1>1
<1>4. Queued(r, f, top)
  BY <1>1, <1>2, <1>3 DEF Queued
<1> QED BY <1>4

LEMMA AppendInput ==
  ASSUME NEW q \in Seq(UpMessage), NEW f \in Nat, NEW top \in Nat, f <= top + 1, Queued(q, f, top),
         NEW m \in UpMessage, IsInput(m), m.n = top + 1
  PROVE  Queued(Append(q, m), f, top + 1)
<1> PICK r : r = Append(q, m)
  OBVIOUS
<1> PICK l \in Nat : l = Len(q)
  OBVIOUS
<1>1. /\ DOMAIN q = 1..l /\ DOMAIN r = 1..(l + 1) /\ r[l + 1] = m
      /\ \A k \in 1..l : r[k] = q[k]
  OBVIOUS
<1>2. ASSUME NEW k \in DOMAIN r, IsInput(r[k]) PROVE r[k].n \in f..(top + 1)
  <2>1. CASE k = l + 1
    BY <2>1, <1>1
  <2>2. CASE k # l + 1
    <3>1. k \in DOMAIN q /\ r[k] = q[k]
      BY <2>2, <1>1
    <3> QED BY <3>1, <1>2 DEF Queued
  <2> QED BY <2>1, <2>2
<1>3. ASSUME NEW j \in DOMAIN r, NEW k \in DOMAIN r, j < k, IsInput(r[j]), IsInput(r[k])
      PROVE  r[j].n < r[k].n
  <2>1. j \in DOMAIN q /\ r[j] = q[j]
    BY <1>1, <1>3
  <2>2. q[j].n \in f..top
    BY <2>1, <1>3 DEF Queued
  <2>3. CASE k = l + 1
    BY <2>1, <2>2, <2>3, <1>1
  <2>4. CASE k # l + 1
    <3>1. k \in DOMAIN q /\ r[k] = q[k]
      BY <2>4, <1>1
    <3> QED BY <2>1, <3>1, <1>3 DEF Queued
  <2> QED BY <2>3, <2>4
<1>4. ASSUME NEW n \in f..(top + 1) PROVE \E k \in DOMAIN r : IsInput(r[k]) /\ r[k].n = n
  <2>1. CASE n = top + 1
    BY <2>1, <1>1
  <2>2. CASE n # top + 1
    <3>1. n \in f..top
      BY <2>2
    <3>2. PICK k \in DOMAIN q : IsInput(q[k]) /\ q[k].n = n
      BY <3>1 DEF Queued
    <3> QED BY <3>2, <1>1
  <2> QED BY <2>1, <2>2
<1>5. Queued(r, f, top + 1)
  BY <1>2, <1>3, <1>4 DEF Queued
<1> QED BY <1>5

LEMMA TailOf ==
  ASSUME NEW q \in Seq(UpMessage), q # <<>>, NEW r, r = Tail(q)
  PROVE  /\ r \in Seq(UpMessage) /\ Head(q) = q[1] /\ Head(q) \in UpMessage /\ 1 \in DOMAIN q
         /\ \A k \in DOMAIN r : k \in Nat /\ k + 1 \in DOMAIN q /\ r[k] = q[k + 1]
         /\ \A k \in DOMAIN q : k = 1 \/ (k - 1 \in DOMAIN r /\ r[k - 1] = q[k])
         /\ \A k \in DOMAIN q : k \in Nat /\ k >= 1
OBVIOUS

(* What is read first is not an input, or it is the input f. *)
LEMMA TailQueue ==
  ASSUME NEW q \in Seq(UpMessage), q # <<>>, NEW f \in Nat, NEW top \in Nat, Queued(q, f, top)
  PROVE  /\ ~IsInput(Head(q)) => Queued(Tail(q), f, top)
         /\ IsInput(Head(q)) => /\ Head(q).n = f /\ f <= top
                                /\ Queued(Tail(q), f + 1, top)
<1> PICK r : r = Tail(q)
  OBVIOUS
<1>1. /\ Head(q) = q[1] /\ 1 \in DOMAIN q
      /\ \A k \in DOMAIN r : k \in Nat /\ k + 1 \in DOMAIN q /\ r[k] = q[k + 1]
      /\ \A k \in DOMAIN q : k = 1 \/ (k - 1 \in DOMAIN r /\ r[k - 1] = q[k])
      /\ \A k \in DOMAIN q : k \in Nat /\ k >= 1
  BY TailOf
<1>2. \A k \in DOMAIN r : IsInput(r[k]) => r[k].n \in f..top
  BY <1>1 DEF Queued
<1>3. ASSUME NEW j \in DOMAIN r, NEW k \in DOMAIN r, j < k, IsInput(r[j]), IsInput(r[k])
      PROVE  r[j].n < r[k].n
  <2>1. j + 1 < k + 1
    BY <1>1, <1>3
  <2> QED BY <2>1, <1>1, <1>3 DEF Queued
<1>4. CASE ~IsInput(Head(q))
  <2>1. ASSUME NEW n \in f..top PROVE \E k \in DOMAIN r : IsInput(r[k]) /\ r[k].n = n
    <3>1. PICK k \in DOMAIN q : IsInput(q[k]) /\ q[k].n = n
      BY DEF Queued
    <3> QED BY <3>1, <1>1, <1>4
  <2>2. Queued(r, f, top)
    BY <1>2, <1>3, <2>1 DEF Queued
  <2> QED BY <1>4, <2>2
<1>5. CASE IsInput(Head(q))
  <2>1. q[1].n \in f..top /\ f \in f..top
    BY <1>1, <1>5 DEF Queued
  <2>2. PICK a \in DOMAIN q : IsInput(q[a]) /\ q[a].n = f
    BY <2>1 DEF Queued
  <2>3. q[1].n = f
    <3>1. CASE a = 1
      BY <2>2, <3>1
    <3>2. CASE a # 1
      <4>1. 1 \in DOMAIN q /\ a \in DOMAIN q /\ 1 < a /\ IsInput(q[1]) /\ IsInput(q[a])
        BY <3>2, <2>2, <1>1, <1>5
      <4>2. q[1].n < q[a].n
        BY <4>1 DEF Queued
      <4> QED BY <4>2, <2>1, <2>2
    <3> QED BY <3>1, <3>2
  <2>4. ASSUME NEW k \in DOMAIN r, IsInput(r[k]) PROVE r[k].n \in (f + 1)..top
    <3>1. k + 1 \in DOMAIN q /\ 1 < k + 1 /\ r[k] = q[k + 1]
      <4>1. k - 0 \in Nat /\ k + 1 \in DOMAIN q /\ r[k] = q[k + 1]
        BY <1>1
      <4>2. k # 0
        OBVIOUS
      <4> QED BY <4>1, <4>2
    <3>2. q[1].n < r[k].n
      BY <3>1, <1>1, <1>5, <2>4 DEF Queued
    <3> QED BY <3>2, <1>2, <2>3, <2>4
  <2>5. ASSUME NEW n \in (f + 1)..top PROVE \E k \in DOMAIN r : IsInput(r[k]) /\ r[k].n = n
    <3>1. n \in f..top /\ n # f
      OBVIOUS
    <3>2. PICK k \in DOMAIN q : IsInput(q[k]) /\ q[k].n = n
      BY <3>1 DEF Queued
    <3>3. k # 1
      BY <3>1, <3>2, <2>3
    <3> QED BY <3>2, <3>3, <1>1
  <2>6. Queued(r, f + 1, top)
    BY <1>3, <2>4, <2>5 DEF Queued
  <2> QED BY <1>1, <1>5, <2>1, <2>3, <2>6
<1> QED BY <1>4, <1>5

----------------------------------------------------------------------------
(* What the proxy keeps for a WebSocket *)

ProxyOK(c) ==
  /\ c \in Proxy
  /\ c.sshClient \in DOMAIN c.ssh \cup {0} /\ c.sshStream \in DOMAIN c.streams \cup {0}
  /\ \A n \in DOMAIN c.streams : c.streams[n].of \in DOMAIN c.ssh

(* From c to e the shells keep what they were given, none opens anew, and    *)
(* the one that is written to is the same, or has been given nothing.        *)
Kept(c, e) ==
  /\ \A n \in DOMAIN e.streams :
       \/ e.streams[n].written = <<>>
       \/ /\ n \in DOMAIN c.streams /\ e.streams[n].written = c.streams[n].written
          /\ e.streams[n].shell = "asked" => c.streams[n].shell = "asked"
  /\ LET n == e.sshStream IN
       n # 0 /\ e.streams[n].shell = "open" /\ e.streams[n].written # <<>> =>
         /\ n = c.sshStream /\ c.streams[n].shell = "open"
         /\ e.streams[n].written = c.streams[n].written

LEMMA KeptShells ==
  ASSUME NEW c, NEW e, ProxyOK(c), ProxyOK(e), Kept(c, e), ShellsOK(c)
  PROVE  ShellsOK(e) /\ \A f : EndsBefore(c, f) => EndsBefore(e, f)
<1>1. Consecutive(<<>>)
  BY DEF Consecutive
<1>2. ShellsOK(e)
  BY <1>1 DEF ShellsOK, Kept
<1>3. ASSUME NEW f, EndsBefore(c, f) PROVE EndsBefore(e, f)
  BY <1>3 DEF EndsBefore, Kept
<1> QED BY <1>2, <1>3

LEMMA ProxyFields ==
  ASSUME NEW c, ProxyOK(c)
  PROVE  /\ c.ssh \in Seq(SshClient) /\ c.streams \in Seq(Stream) /\ c.open \in BOOLEAN
         /\ c.sshClient \in Nat /\ c.sshStream \in Nat
         /\ DOMAIN c.ssh = 1..Len(c.ssh) /\ Len(c.ssh) \in Nat
         /\ DOMAIN c.streams = 1..Len(c.streams) /\ Len(c.streams) \in Nat
         /\ \A k \in DOMAIN c.ssh : k # 0 /\ k \in Nat /\ c.ssh[k] \in SshClient
         /\ \A n \in DOMAIN c.streams : n # 0 /\ n \in Nat /\ c.streams[n] \in Stream
BY DEF ProxyOK, Proxy

(* The SSH clients change, and the streams do not. *)
LEMMA SshKeeps ==
  ASSUME NEW c, ProxyOK(c), NEW q \in Seq(SshClient), DOMAIN c.ssh \subseteq DOMAIN q,
         NEW e, e = [c EXCEPT !.ssh = q]
  PROVE  ProxyOK(e) /\ Kept(c, e) /\ e.open = c.open /\ e.ssh = q /\ e.streams = c.streams
<1>1. c \in Proxy
  BY DEF ProxyOK
<1>2. /\ e \in Proxy /\ e.open = c.open /\ e.ssh = q /\ e.sshClient = c.sshClient
      /\ e.streams = c.streams /\ e.sshStream = c.sshStream
  BY <1>1 DEF Proxy
<1>3. ProxyOK(e)
  BY <1>2 DEF ProxyOK
<1>4. Kept(c, e)
  BY <1>2 DEF Kept, ProxyOK
<1> QED BY <1>2, <1>3, <1>4

LEMMA ClientChangeKeeps ==
  ASSUME NEW c, ProxyOK(c), NEW k \in DOMAIN c.ssh, NEW d \in SshClient,
         NEW e, e = [c EXCEPT !.ssh[k] = d]
  PROVE  /\ ProxyOK(e) /\ Kept(c, e) /\ e.open = c.open /\ e.streams = c.streams
         /\ DOMAIN e.ssh = DOMAIN c.ssh
<1>1. PICK q : q = [c.ssh EXCEPT ![k] = d]
  OBVIOUS
<1>2. q \in Seq(SshClient) /\ DOMAIN q = DOMAIN c.ssh /\ DOMAIN c.ssh \subseteq DOMAIN q
  BY <1>1, ProxyFields
<1>3. PICK b : b = [c EXCEPT !.ssh = q]
  OBVIOUS
<1>4. ProxyOK(b) /\ Kept(c, b) /\ b.open = c.open /\ b.ssh = q /\ b.streams = c.streams
  BY <1>2, <1>3, SshKeeps
<1>5. e = b
  BY <1>1, <1>3
<1> QED BY <1>2, <1>4, <1>5

States == {"open", "failed", "ending", "closed"}

LEMMA StateKeeps ==
  ASSUME NEW c, ProxyOK(c), NEW k \in DOMAIN c.ssh, NEW state \in States,
         NEW e, e = [c EXCEPT !.ssh[k].state = state]
  PROVE  ProxyOK(e) /\ Kept(c, e) /\ e.open = c.open /\ DOMAIN e.ssh = DOMAIN c.ssh
<1>1. PICK d : d = [c.ssh[k] EXCEPT !.state = state]
  OBVIOUS
<1>2. c.ssh[k] \in SshClient
  BY ProxyFields
<1>3. d \in SshClient
  BY <1>1, <1>2 DEF SshClient, States
<1>4. PICK b : b = [c EXCEPT !.ssh[k] = d]
  OBVIOUS
<1>5. ProxyOK(b) /\ Kept(c, b) /\ b.open = c.open /\ DOMAIN b.ssh = DOMAIN c.ssh
  BY <1>3, <1>4, ClientChangeKeeps
<1>6. e = b
  BY <1>1, <1>4
<1> QED BY <1>5, <1>6

LEMMA ReadyKeeps ==
  ASSUME NEW c, ProxyOK(c), NEW k \in DOMAIN c.ssh,
         NEW e, e = [c EXCEPT !.ssh[k].ready = TRUE]
  PROVE  ProxyOK(e) /\ Kept(c, e) /\ e.open = c.open /\ e.streams = c.streams /\ DOMAIN e.ssh = DOMAIN c.ssh
<1>1. PICK d : d = [c.ssh[k] EXCEPT !.ready = TRUE]
  OBVIOUS
<1>2. c.ssh[k] \in SshClient
  BY ProxyFields
<1>3. d \in SshClient
  BY <1>1, <1>2 DEF SshClient
<1>4. PICK b : b = [c EXCEPT !.ssh[k] = d]
  OBVIOUS
<1>5. /\ ProxyOK(b) /\ Kept(c, b) /\ b.open = c.open /\ b.streams = c.streams
      /\ DOMAIN b.ssh = DOMAIN c.ssh
  BY <1>3, <1>4, ClientChangeKeeps
<1>6. e = b
  BY <1>1, <1>4
<1> QED BY <1>5, <1>6

(* One of the streams changes. *)
LEMMA StreamChanges ==
  ASSUME NEW c, ProxyOK(c), NEW n \in DOMAIN c.streams, NEW d \in Stream, d.of = c.streams[n].of,
         NEW e, e = [c EXCEPT !.streams[n] = d]
  PROVE  /\ ProxyOK(e) /\ e.open = c.open /\ e.sshClient = c.sshClient /\ e.sshStream = c.sshStream
         /\ e.ssh = c.ssh /\ DOMAIN e.streams = DOMAIN c.streams /\ e.streams[n] = d
         /\ \A j \in DOMAIN c.streams \ {n} : e.streams[j] = c.streams[j]
<1>1. PICK q : q = [c.streams EXCEPT ![n] = d]
  OBVIOUS
<1>2. /\ q \in Seq(Stream) /\ DOMAIN q = DOMAIN c.streams /\ q[n] = d
      /\ \A j \in DOMAIN c.streams \ {n} : q[j] = c.streams[j]
  BY <1>1, ProxyFields
<1>3. e = [c EXCEPT !.streams = q]
  BY <1>1
<1>4. /\ e.streams = q /\ e.open = c.open /\ e.sshClient = c.sshClient /\ e.sshStream = c.sshStream
      /\ e.ssh = c.ssh /\ e \in Proxy
  BY <1>2, <1>3 DEF ProxyOK, Proxy
<1>5. \A j \in DOMAIN q : q[j].of \in DOMAIN c.ssh
  BY <1>2 DEF ProxyOK
<1> QED BY <1>2, <1>4, <1>5 DEF ProxyOK

LEMMA StreamFields ==
  ASSUME NEW d, d \in Stream, NEW shell \in {"asked", "open", "exited"}
  PROVE  /\ [d EXCEPT !.shell = shell] \in Stream /\ [d EXCEPT !.shell = shell].of = d.of
         /\ [d EXCEPT !.shell = shell].shell = shell /\ [d EXCEPT !.shell = shell].written = d.written
BY DEF Stream

LEMMA ShellEndsKeeps ==
  ASSUME NEW c, ProxyOK(c), NEW n \in DOMAIN c.streams,
         NEW e, e = [c EXCEPT !.streams[n].shell = "exited"]
  PROVE  ProxyOK(e) /\ Kept(c, e) /\ e.open = c.open
<1>1. PICK d : d = [c.streams[n] EXCEPT !.shell = "exited"]
  OBVIOUS
<1>2. c.streams[n] \in Stream
  BY ProxyFields
<1>3. d \in Stream /\ d.of = c.streams[n].of /\ d.shell = "exited" /\ d.written = c.streams[n].written
  BY <1>1, <1>2, StreamFields
<1>4. PICK b : b = [c EXCEPT !.streams[n] = d]
  OBVIOUS
<1>5. /\ ProxyOK(b) /\ b.open = c.open /\ b.sshStream = c.sshStream
      /\ DOMAIN b.streams = DOMAIN c.streams /\ b.streams[n] = d
      /\ \A j \in DOMAIN c.streams \ {n} : b.streams[j] = c.streams[j]
  BY <1>3, <1>4, StreamChanges
<1>6. c.sshStream \in DOMAIN c.streams \cup {0}
  BY DEF ProxyOK
<1>7. Kept(c, b)
  BY <1>3, <1>5, <1>6 DEF Kept
<1>8. e = b
  BY <1>1, <1>4
<1> QED BY <1>5, <1>7, <1>8

LEMMA ShellOpened ==
  ASSUME NEW c, ProxyOK(c), ShellsOK(c), NEW n \in DOMAIN c.streams, c.streams[n].shell = "asked",
         NEW e, e = [c EXCEPT !.streams[n].shell = "open", !.sshStream = n]
  PROVE  ProxyOK(e) /\ Kept(c, e) /\ e.open = c.open
<1>1. PICK d : d = [c.streams[n] EXCEPT !.shell = "open"]
  OBVIOUS
<1>2. c.streams[n] \in Stream /\ c.streams[n].written = <<>>
  BY ProxyFields DEF ShellsOK
<1>3. d \in Stream /\ d.of = c.streams[n].of /\ d.written = <<>>
  BY <1>1, <1>2, StreamFields
<1>4. PICK b : b = [c EXCEPT !.streams[n] = d]
  OBVIOUS
<1>5. /\ ProxyOK(b) /\ b.open = c.open /\ DOMAIN b.streams = DOMAIN c.streams /\ b.streams[n] = d
      /\ \A j \in DOMAIN c.streams \ {n} : b.streams[j] = c.streams[j]
  BY <1>3, <1>4, StreamChanges
<1>6. e = [b EXCEPT !.sshStream = n]
  BY <1>1, <1>4
<1>7. n \in Nat
  BY ProxyFields
<1>8. ProxyOK(e) /\ e.open = c.open /\ e.streams = b.streams /\ e.sshStream = n
  <2>1. b \in Proxy
    BY <1>5 DEF ProxyOK
  <2>2. /\ e \in Proxy /\ e.open = b.open /\ e.ssh = b.ssh /\ e.streams = b.streams
        /\ e.sshStream = n /\ e.sshClient = b.sshClient
    BY <1>6, <1>7, <2>1 DEF Proxy
  <2> QED BY <1>5, <2>2 DEF ProxyOK
<1> QED BY <1>3, <1>5, <1>8 DEF Kept

(* A shell is asked for. *)
LEMMA ShellAsked ==
  ASSUME NEW c, ProxyOK(c), c.sshClient # 0,
         NEW e, e = [c EXCEPT !.streams = Append(c.streams, NewStream(c.sshClient))]
  PROVE  ProxyOK(e) /\ Kept(c, e) /\ e.open = c.open
<1> PICK new : new = NewStream(c.sshClient)
  OBVIOUS
<1>1. new \in Stream /\ new.written = <<>> /\ new.of = c.sshClient /\ new.of \in DOMAIN c.ssh
  BY ProxyFields DEF NewStream, Stream, ProxyOK
<1>2. PICK l \in Nat : l = Len(c.streams)
  BY ProxyFields
<1>3. PICK q : q = Append(c.streams, new)
  OBVIOUS
<1>4. /\ q \in Seq(Stream) /\ DOMAIN q = 1..(l + 1) /\ DOMAIN c.streams = 1..l /\ q[l + 1] = new
      /\ \A n \in 1..l : q[n] = c.streams[n]
  BY <1>1, <1>2, <1>3, ProxyFields
<1>5. /\ e \in Proxy /\ e.open = c.open /\ e.ssh = c.ssh /\ e.streams = q
      /\ e.sshStream = c.sshStream /\ e.sshClient = c.sshClient
  BY <1>3, <1>4 DEF ProxyOK, Proxy
<1>6. \A n \in DOMAIN q : q[n].of \in DOMAIN c.ssh
  BY <1>1, <1>4 DEF ProxyOK
<1>7. ProxyOK(e)
  BY <1>4, <1>5, <1>6 DEF ProxyOK
<1>8. \A n \in DOMAIN q : q[n].written = <<>> \/ (n \in DOMAIN c.streams /\ q[n] = c.streams[n])
  BY <1>1, <1>4
<1>9. c.sshStream # 0 => c.sshStream \in DOMAIN c.streams /\ q[c.sshStream] = c.streams[c.sshStream]
  BY <1>4 DEF ProxyOK
<1> QED BY <1>5, <1>7, <1>8, <1>9 DEF Kept

(* The process ends. *)
LEMMA EndedKeeps ==
  ASSUME NEW c, ProxyOK(c)
  PROVE  ProxyOK(Ended(c)) /\ Kept(c, Ended(c)) /\ ~Ended(c).open
<1>1. PICK ssh : ssh = [k \in DOMAIN c.ssh |-> [c.ssh[k] EXCEPT !.state = "closed"]]
  OBVIOUS
<1>2. PICK streams : streams = [n \in DOMAIN c.streams |-> [c.streams[n] EXCEPT !.shell = "exited"]]
  OBVIOUS
<1>3. ssh \in Seq(SshClient) /\ DOMAIN ssh = DOMAIN c.ssh
  <2>1. \A k \in DOMAIN c.ssh : [c.ssh[k] EXCEPT !.state = "closed"] \in SshClient
    BY ProxyFields DEF SshClient
  <2>2. DOMAIN c.ssh = 1..Len(c.ssh) /\ Len(c.ssh) \in Nat
    BY ProxyFields
  <2>3. DOMAIN ssh = 1..Len(c.ssh) /\ \A k \in 1..Len(c.ssh) : ssh[k] \in SshClient
    BY <1>1, <2>1, <2>2
  <2>4. ssh = [k \in 1..Len(c.ssh) |-> ssh[k]]
    BY <1>1, <2>2
  <2> QED BY <2>2, <2>3, <2>4
<1>4. \A n \in DOMAIN c.streams :
        /\ [c.streams[n] EXCEPT !.shell = "exited"] \in Stream
        /\ [c.streams[n] EXCEPT !.shell = "exited"].of = c.streams[n].of
        /\ [c.streams[n] EXCEPT !.shell = "exited"].shell = "exited"
        /\ [c.streams[n] EXCEPT !.shell = "exited"].written = c.streams[n].written
  BY ProxyFields, StreamFields
<1>5. streams \in Seq(Stream) /\ DOMAIN streams = DOMAIN c.streams
  <2>1. DOMAIN c.streams = 1..Len(c.streams) /\ Len(c.streams) \in Nat
    BY ProxyFields
  <2>2. DOMAIN streams = 1..Len(c.streams) /\ \A n \in 1..Len(c.streams) : streams[n] \in Stream
    BY <1>2, <1>4, <2>1
  <2>3. streams = [n \in 1..Len(c.streams) |-> streams[n]]
    BY <1>2, <2>1
  <2> QED BY <2>1, <2>2, <2>3
<1>6. \A n \in DOMAIN c.streams :
        /\ streams[n].of = c.streams[n].of /\ streams[n].shell = "exited"
        /\ streams[n].written = c.streams[n].written
  BY <1>2, <1>4
<1>7. PICK e : e = [c EXCEPT !.open = FALSE, !.ssh = ssh, !.streams = streams]
  OBVIOUS
<1>8. /\ e \in Proxy /\ ~e.open /\ e.ssh = ssh /\ e.streams = streams
      /\ e.sshStream = c.sshStream /\ e.sshClient = c.sshClient
  BY <1>3, <1>5, <1>7 DEF ProxyOK, Proxy
<1>9. ProxyOK(e)
  BY <1>3, <1>5, <1>6, <1>8 DEF ProxyOK
<1>10. Kept(c, e)
  BY <1>5, <1>6, <1>8, <1>9 DEF Kept, ProxyOK
<1>11. Ended(c) = e
  BY <1>1, <1>2, <1>7 DEF Ended
<1> QED BY <1>8, <1>9, <1>10, <1>11

LEMMA EndSshClientKeeps ==
  ASSUME NEW c, ProxyOK(c)
  PROVE  ProxyOK(EndSshClient(c)) /\ Kept(c, EndSshClient(c)) /\ EndSshClient(c).open = c.open
<1>1. Kept(c, c)
  BY DEF Kept, ProxyOK
<1>2. CASE c.sshClient = 0 \/ c.ssh[c.sshClient].state = "closed"
  BY <1>1, <1>2 DEF EndSshClient
<1>3. CASE ~(c.sshClient = 0 \/ c.ssh[c.sshClient].state = "closed")
  <2>1. c.sshClient \in DOMAIN c.ssh
    BY <1>3 DEF ProxyOK
  <2>2. EndSshClient(c) = [c EXCEPT !.ssh[c.sshClient].state = "ending"]
    BY <1>3 DEF EndSshClient
  <2> QED BY <2>1, <2>2, StateKeeps DEF States
<1> QED BY <1>2, <1>3

LEMMA OnDisconnectKeeps ==
  ASSUME NEW c, ProxyOK(c), NEW m
  PROVE  /\ ProxyOK(OnDisconnect(c, m)) /\ Kept(c, OnDisconnect(c, m))
         /\ OnDisconnect(c, m).open = c.open
<1>1. PICK b : b = EndSshClient(c)
  OBVIOUS
<1>2. ProxyOK(b) /\ Kept(c, b) /\ b.open = c.open
  BY <1>1, EndSshClientKeeps
<1>3. PICK e : e = [b EXCEPT !.sshClient = 0]
  OBVIOUS
<1>4. e \in Proxy /\ e.open = b.open /\ e.ssh = b.ssh /\ e.streams = b.streams /\ e.sshStream = b.sshStream /\ e.sshClient = 0
  BY <1>2, <1>3 DEF ProxyOK, Proxy
<1>5. ProxyOK(e) /\ Kept(c, e)
  BY <1>2, <1>4 DEF ProxyOK, Kept
<1> QED BY <1>1, <1>2, <1>3, <1>4, <1>5 DEF OnDisconnect

LEMMA OnCloseKeeps ==
  ASSUME NEW c, ProxyOK(c), NEW e, e = [EndSshClient(c) EXCEPT !.open = FALSE]
  PROVE  ProxyOK(e) /\ Kept(c, e) /\ ~e.open
<1>1. PICK b : b = EndSshClient(c)
  OBVIOUS
<1>2. ProxyOK(b) /\ Kept(c, b)
  BY <1>1, EndSshClientKeeps
<1>3. e \in Proxy /\ ~e.open /\ e.ssh = b.ssh /\ e.streams = b.streams /\ e.sshStream = b.sshStream /\ e.sshClient = b.sshClient
  BY <1>1, <1>2 DEF ProxyOK, Proxy
<1> QED BY <1>2, <1>3 DEF ProxyOK, Kept

LEMMA OnConnectKeeps ==
  ASSUME NEW c, ProxyOK(c), NEW m
  PROVE  ProxyOK(OnConnect(c, m)) /\ Kept(c, OnConnect(c, m)) /\ OnConnect(c, m).open = c.open
<1> PICK new : new = NewClient
  OBVIOUS
<1>1. new \in SshClient
  BY DEF NewClient, SshClient
<1>2. PICK n \in Nat : n = Len(c.ssh) + 1
  BY ProxyFields
<1>3. PICK q : q = Append(c.ssh, new)
  OBVIOUS
<1>4. q \in Seq(SshClient) /\ DOMAIN c.ssh \subseteq DOMAIN q /\ n \in DOMAIN q
  BY <1>1, <1>2, <1>3, ProxyFields
<1>5. PICK b : b = [c EXCEPT !.ssh = q]
  OBVIOUS
<1>6. ProxyOK(b) /\ Kept(c, b) /\ b.open = c.open /\ b.ssh = q /\ b.streams = c.streams
  BY <1>4, <1>5, SshKeeps
<1>7. PICK e : e = [b EXCEPT !.sshClient = n]
  OBVIOUS
<1>8. /\ e \in Proxy /\ e.open = b.open /\ e.ssh = b.ssh /\ e.streams = b.streams
      /\ e.sshStream = b.sshStream /\ e.sshClient = n
  BY <1>6, <1>7 DEF ProxyOK, Proxy
<1>9. ProxyOK(e) /\ Kept(c, e)
  BY <1>4, <1>6, <1>8 DEF ProxyOK, Kept
<1>10. OnConnect(c, m) = e
  BY <1>2, <1>3, <1>5, <1>7 DEF OnConnect
<1> QED BY <1>6, <1>8, <1>9, <1>10

(* An input is dropped, or it follows what the shell was given last. *)
LEMMA OnInputKeeps ==
  ASSUME NEW c, ProxyOK(c), ShellsOK(c), NEW m, m.n \in 1..MaxEvents, EndsBefore(c, m.n)
  PROVE  LET e == OnInput(c, m)
         IN  ProxyOK(e) /\ e.open = c.open /\ ShellsOK(e) /\ EndsBefore(e, m.n + 1)
<1>1. CASE c.sshStream = 0 \/ c.streams[c.sshStream].shell # "open"
  BY <1>1 DEF OnInput, EndsBefore
<1>2. CASE ~(c.sshStream = 0 \/ c.streams[c.sshStream].shell # "open")
  <2>1. PICK k : k = c.sshStream
    OBVIOUS
  <2>2. k \in DOMAIN c.streams /\ c.streams[k].shell = "open" /\ k # 0
    BY <1>2, <2>1 DEF ProxyOK
  <2>3. PICK w : w = c.streams[k].written
    OBVIOUS
  <2>4. c.streams[k] \in Stream /\ w \in Seq(1..MaxEvents)
    BY <2>2, <2>3, ProxyFields DEF Stream
  <2>5. PICK v : v = Append(w, m.n)
    OBVIOUS
  <2>6. /\ v \in Seq(1..MaxEvents) /\ Len(v) = Len(w) + 1 /\ v[Len(w) + 1] = m.n
        /\ Len(w) \in Nat /\ \A j \in 1..Len(w) : v[j] = w[j]
    BY <2>4, <2>5
  <2>7. PICK d : d = [c.streams[k] EXCEPT !.written = v]
    OBVIOUS
  <2>8. d \in Stream /\ d.of = c.streams[k].of /\ d.shell = "open" /\ d.written = v
    BY <2>2, <2>4, <2>6, <2>7 DEF Stream
  <2>9. PICK e : e = [c EXCEPT !.streams[k] = d]
    OBVIOUS
  <2>10. OnInput(c, m) = e
    BY <1>2, <2>1, <2>3, <2>5, <2>7, <2>9 DEF OnInput
  <2>11. /\ ProxyOK(e) /\ e.open = c.open /\ e.sshStream = k
         /\ DOMAIN e.streams = DOMAIN c.streams /\ e.streams[k] = d
         /\ \A j \in DOMAIN c.streams \ {k} : e.streams[j] = c.streams[j]
    BY <2>1, <2>2, <2>8, <2>9, StreamChanges
  <2>12. w # <<>> => w[Len(w)] = m.n - 1
    BY <2>1, <2>2, <2>3 DEF EndsBefore
  <2>13. Consecutive(w)
    BY <2>2, <2>3 DEF ShellsOK
  <2>14. Consecutive(v)
    <3>1. ASSUME NEW j \in 1..(Len(v) - 1) PROVE v[j + 1] = v[j] + 1
      <4>1. CASE j = Len(w)
        <5>1. w # <<>> /\ v[j] = w[Len(w)] /\ v[j + 1] = m.n
          BY <4>1, <2>4, <2>6
        <5> QED BY <5>1, <2>12
      <4>2. CASE j # Len(w)
        <5>1. j \in 1..(Len(w) - 1) /\ j \in 1..Len(w) /\ j + 1 \in 1..Len(w)
          BY <4>2, <2>6
        <5> QED BY <5>1, <2>6, <2>13 DEF Consecutive
      <4> QED BY <4>1, <4>2
    <3> QED BY <3>1 DEF Consecutive
  <2>15. ShellsOK(e)
    BY <2>8, <2>11, <2>14 DEF ShellsOK
  <2>16. EndsBefore(e, m.n + 1)
    BY <2>6, <2>8, <2>11 DEF EndsBefore
  <2> QED BY <2>10, <2>11, <2>15, <2>16
<1> QED BY <1>1, <1>2

----------------------------------------------------------------------------
(* Types *)

SockStates == {"unused", "connecting", "open", "closing", "failed", "closed"}
Promises == {"none", "pending", "resolved", "rejected"}

LEMMA Types ==
  ASSUME TypeInv
  PROVE  /\ up \in [Sockets -> Seq(UpMessage)] /\ down \in [Sockets -> Seq(DownMessage)]
         /\ proxy \in [Sockets -> Proxy] /\ running \in BOOLEAN /\ events \in 0..MaxEvents
         /\ sock \in [Sockets -> SockStates] /\ promise \in [Sockets -> Promises]
         /\ client \in Client /\ page \in [shown: BOOLEAN, isConnected: BOOLEAN]
         /\ sent \in [Sockets -> 0..MaxEvents]
         /\ \A s \in Sockets : ProxyOK(proxy[s]) /\ sent[s] <= events
         /\ \A s \in Sockets : sock[s] # "unused" => client.ws # None
         /\ page.isConnected => client.ws # None
         /\ client.ws \in Sockets \cup {None} /\ client.settles \in Sockets \cup {None}
BY DEF TypeInv, TypeOK, ProxyTypeOK, ProxyOK, SockStates, Promises, Clients, Streams, Client

(* The same for the next state, from what a step changes *)
LEMMA TypesTogether ==
  ASSUME up' \in [Sockets -> Seq(UpMessage)], down' \in [Sockets -> Seq(DownMessage)],
         proxy' \in [Sockets -> Proxy], running' \in BOOLEAN, events' \in 0..MaxEvents,
         sock' \in [Sockets -> SockStates], promise' \in [Sockets -> Promises],
         client' \in Client, page' \in [shown: BOOLEAN, isConnected: BOOLEAN],
         sent' \in [Sockets -> 0..MaxEvents],
         \A s \in Sockets : ProxyOK(proxy'[s]), \A s \in Sockets : sent'[s] <= events',
         \A s \in Sockets : sock'[s] # "unused" => client'.ws # None,
         page'.isConnected => client'.ws # None
  PROVE  TypeInv'
BY DEF TypeInv, TypeOK, ProxyTypeOK, ProxyOK, SockStates, Promises, Clients, Streams

LEMMA Constants ==
  /\ MaxEvents \in Nat /\ None \notin Sockets /\ IsFiniteSet(Sockets)
BY ProxyAssumption, ClientAssumption

LEMMA HappensType ==
  ASSUME TypeInv, Happens PROVE events' \in 0..MaxEvents /\ events' = events + 1
BY Types, Constants DEF Happens, HappensFor

LEMMA FaultType ==
  ASSUME TypeInv, Fault PROVE events' \in 0..MaxEvents /\ events' >= events
<1>1. UNCHANGED events \/ Happens
  BY DEF Fault
<1> QED BY <1>1, Types, HappensType

LEMMA TellAllType ==
  ASSUME TypeInv, NEW s \in Sockets, NEW ms \in Seq(DownMessage), TellAll(s, ms)
  PROVE  down' \in [Sockets -> Seq(DownMessage)]
<1>1. down[s] \o ms \in Seq(DownMessage)
  BY Types
<1>2. down' = down \/ down' = [down EXCEPT ![s] = down[s] \o ms]
  BY DEF TellAll
<1> QED BY <1>1, <1>2, Types

LEMMA TellType ==
  ASSUME TypeInv, NEW s \in Sockets, NEW m \in DownMessage, Tell(s, m)
  PROVE  down' \in [Sockets -> Seq(DownMessage)]
<1>1. <<m>> \in Seq(DownMessage)
  OBVIOUS
<1> QED BY <1>1, TellAllType DEF Tell

LEMMA SettleType ==
  ASSUME TypeInv, NEW s \in Sockets \cup {None}, NEW outcome \in {"resolved", "rejected"}
  PROVE  Settle(s, outcome) \in [Sockets -> Promises]
<1>1. outcome \in Promises
  BY DEF Promises
<1> QED BY <1>1, Types, Constants DEF Settle

LEMMA PushType ==
  ASSUME TypeInv, NEW s \in Sockets, NEW m \in UpMessage
  PROVE  /\ Push(s, m) \in [Sockets -> Seq(UpMessage)] /\ Push(s, m)[s] = Append(up[s], m)
         /\ \A t \in Sockets \ {s} : Push(s, m)[t] = up[t]
<1>1. Append(up[s], m) \in Seq(UpMessage)
  BY Types
<1> QED BY <1>1, Types DEF Push

LEMMA Requests ==
  /\ \A s \in Sockets : /\ [type |-> "connect", of |-> s] \in UpMessage
                        /\ ~IsInput([type |-> "connect", of |-> s])
  /\ [type |-> "disconnect"] \in UpMessage /\ ~IsInput([type |-> "disconnect"])
  /\ \A n \in 1..MaxEvents : /\ [type |-> "input", n |-> n] \in UpMessage
                             /\ IsInput([type |-> "input", n |-> n])
                             /\ [type |-> "input", n |-> n].n = n
BY DEF UpMessage, IsInput

LEMMA FlagsFields ==
  ASSUME TypeInv, NEW a \in BOOLEAN, NEW b \in BOOLEAN
  PROVE  Flags(a, b) \in Client /\ Flags(a, b).ws = client.ws
BY Types DEF Flags, Client

----------------------------------------------------------------------------
(* The order of inputs, one WebSocket at a time *)

LEMMA OrderedStep ==
  ASSUME TypeInv, NEW s \in Sockets, Ordered(s),
         ProxyOK(proxy'[s]), Kept(proxy[s], proxy'[s]), sent'[s] = sent[s],
         sock'[s] \notin {"failed", "closed"} =>
           /\ sock[s] \notin {"failed", "closed"}
           /\ \A f \in Nat : Queued(up[s], f, sent[s]) => Queued(up'[s], f, sent[s]),
         sock'[s] \notin {"open", "closing"} => up'[s] = <<>> \/ ~proxy'[s].open
  PROVE  Ordered(s)'
<1>1. ProxyOK(proxy[s])
  BY Types
<1>2. PICK c, e : c = proxy[s] /\ e = proxy'[s]
  OBVIOUS
<1>3. ShellsOK(e) /\ \A f : EndsBefore(c, f) => EndsBefore(e, f)
  BY <1>1, <1>2, KeptShells DEF Ordered
<1>4. ASSUME sock'[s] \notin {"failed", "closed"}
      PROVE  \E f \in 1..(sent[s] + 1) : Queued(up'[s], f, sent[s]) /\ EndsBefore(e, f)
  <2>1. PICK f \in 1..(sent[s] + 1) : Queued(up[s], f, sent[s]) /\ EndsBefore(c, f)
    BY <1>2, <1>4 DEF Ordered
  <2>2. f \in Nat
    OBVIOUS
  <2> QED BY <1>3, <1>4, <2>1, <2>2
<1> QED BY <1>2, <1>3, <1>4 DEF Ordered

LEMMA SameKept == ASSUME NEW c, ProxyOK(c) PROVE Kept(c, c)
BY DEF Kept, ProxyOK

(* Nothing changes that the order is about. *)
LEMMA SameOrdered ==
  ASSUME TypeInv, NEW s \in Sockets, Ordered(s),
         proxy'[s] = proxy[s], sent'[s] = sent[s], sock'[s] = sock[s], up'[s] = up[s]
  PROVE  Ordered(s)'
<1>1. ProxyOK(proxy'[s]) /\ Kept(proxy[s], proxy'[s])
  BY Types, SameKept
<1> QED BY <1>1, OrderedStep DEF Ordered

----------------------------------------------------------------------------
(* The steps of the page and of the client *)

Inv == TypeInv /\ OrderInv

LEMMA ConnectKeeps ==
  ASSUME Inv, NEW s \in Sockets, Connect(s) PROVE Inv'
<1>1. /\ sock[s] = "unused" /\ sock' = [sock EXCEPT ![s] = "connecting"]
      /\ promise' = [promise EXCEPT ![s] = "pending"] /\ client' = [client EXCEPT !.ws = s]
      /\ UNCHANGED <<up, down, proxy, running, page, sent>>
  BY DEF Connect
<1>2. events' \in 0..MaxEvents /\ events' >= events
  <2>1. IsFiniteSet({t \in Sockets : sock[t] # "unused"})
    BY Constants, FS_Subset
  <2>2. PICK n : n = Cardinality({t \in Sockets : sock[t] # "unused"})
    OBVIOUS
  <2>3. n \in Nat
    BY <2>1, <2>2, FS_CardinalityType
  <2>4. events + (n + 1) <= MaxEvents /\ events' = events + (n + 1)
    BY <2>2 DEF Connect, HappensFor
  <2> QED BY <2>3, <2>4, Types, Constants DEF Inv
<1>3. /\ sock' \in [Sockets -> SockStates] /\ promise' \in [Sockets -> Promises]
      /\ client' \in Client /\ client'.ws = s
  BY <1>1, Types DEF Inv, SockStates, Promises, Client
<1>4. \A t \in Sockets : sent'[t] <= events'
  BY <1>1, <1>2, Types DEF Inv
<1>5. TypeInv'
  BY <1>1, <1>2, <1>3, <1>4, Types, Constants, TypesTogether DEF Inv
<1>6. ASSUME NEW t \in Sockets PROVE Ordered(t)'
  <2>1. sock'[t] = sock[t] \/ (sock[t] = "unused" /\ sock'[t] = "connecting")
    BY <1>1, Types DEF Inv
  <2>2. Ordered(t) /\ ProxyOK(proxy'[t]) /\ Kept(proxy[t], proxy'[t])
    BY <1>1, Types, SameKept DEF Inv, OrderInv
  <2>3. sock'[t] \notin {"open", "closing"} => up'[t] = <<>> \/ ~proxy'[t].open
    BY <1>1, <2>1, <2>2 DEF Ordered
  <2> QED BY <1>1, <2>1, <2>2, <2>3, OrderedStep DEF Inv
<1> QED BY <1>5, <1>6 DEF Inv, OrderInv

(* disconnect, as the page calls it *)
LEMMA DisconnectKeeps ==
  ASSUME Inv, page.isConnected, Disconnect,
         page' \in [shown: BOOLEAN, isConnected: BOOLEAN],
         page'.isConnected => page.isConnected,
         UNCHANGED <<events, down, proxy, running, promise, sent>>
  PROVE  Inv'
<1>1. PICK s \in Sockets : s = client.ws
  BY Types DEF Inv
<1>2. CASE sock[s] # "open"
  <2>1. UNCHANGED <<up, sock, client>>
    BY <1>1, <1>2 DEF Disconnect
  <2>2. TypeInv'
    BY <2>1, Types, TypesTogether DEF Inv
  <2>3. \A t \in Sockets : Ordered(t)'
    BY <2>1, SameOrdered DEF Inv, OrderInv
  <2> QED BY <2>2, <2>3 DEF Inv, OrderInv
<1>3. CASE sock[s] = "open"
  <2>1. PICK m : m = [type |-> "disconnect"]
    OBVIOUS
  <2>2. m \in UpMessage /\ ~IsInput(m)
    BY <2>1, Requests
  <2>3. /\ up' = up \/ up' = Push(s, m)
        /\ sock' = [sock EXCEPT ![s] = "closing"] /\ client' = [client EXCEPT !.closing = s]
    BY <1>1, <1>3, <2>1 DEF Disconnect
  <2>4. /\ sock' \in [Sockets -> SockStates] /\ client' \in Client /\ client'.ws = client.ws
        /\ sock'[s] = "closing" /\ \A t \in Sockets \ {s} : sock'[t] = sock[t]
    BY <2>3, Types DEF Inv, SockStates, Client
  <2>5. /\ up' \in [Sockets -> Seq(UpMessage)] /\ \A t \in Sockets \ {s} : up'[t] = up[t]
        /\ up'[s] \in {up[s], Append(up[s], m)}
    <3>1. CASE up' = up
      BY <3>1, Types DEF Inv
    <3>2. CASE up' = Push(s, m)
      BY <3>2, <2>2, PushType DEF Inv
    <3> QED BY <2>3, <3>1, <3>2
  <2>6. \A t \in Sockets : sock'[t] # "unused" => client'.ws # None
    BY <1>1, <2>4, Constants
  <2>7. TypeInv'
    BY <2>4, <2>5, <2>6, Types, TypesTogether DEF Inv
  <2>8. Ordered(s)'
    <3>1. Ordered(s) /\ ProxyOK(proxy'[s]) /\ Kept(proxy[s], proxy'[s]) /\ sent[s] \in Nat /\ up[s] \in Seq(UpMessage)
      BY Types, SameKept DEF Inv, OrderInv
    <3>2. ASSUME NEW f \in Nat, Queued(up[s], f, sent[s]) PROVE Queued(up'[s], f, sent[s])
      <4>1. Queued(Append(up[s], m), f, sent[s])
        BY <3>1, <3>2, <2>2, AppendOther
      <4> QED BY <3>2, <4>1, <2>5
    <3> QED BY <1>3, <2>4, <3>1, <3>2, OrderedStep DEF Inv
  <2>9. \A t \in Sockets \ {s} : Ordered(t)'
    BY <2>4, <2>5, SameOrdered DEF Inv, OrderInv
  <2> QED BY <2>7, <2>8, <2>9 DEF Inv, OrderInv
<1> QED BY <1>2, <1>3

LEMMA LeavingKeeps ==
  ASSUME Inv, PageDisconnect \/ AboutToDisappear PROVE Inv'
<1>1. CASE PageDisconnect
  BY <1>1, Types, DisconnectKeeps DEF PageDisconnect, Inv
<1>2. CASE AboutToDisappear
  <2>1. /\ page' \in [shown: BOOLEAN, isConnected: BOOLEAN] /\ page'.isConnected = page.isConnected
        /\ UNCHANGED <<events, down, proxy, running, promise, sent>>
    BY <1>2, Types DEF AboutToDisappear, Inv
  <2>2. CASE page.isConnected
    BY <1>2, <2>1, <2>2, DisconnectKeeps DEF AboutToDisappear
  <2>3. CASE ~page.isConnected
    <3>1. UNCHANGED <<up, sock, client>>
      BY <1>2, <2>3 DEF AboutToDisappear
    <3>2. TypeInv'
      BY <2>1, <3>1, Types, TypesTogether DEF Inv
    <3>3. \A t \in Sockets : Ordered(t)'
      BY <2>1, <3>1, SameOrdered DEF Inv, OrderInv
    <3> QED BY <3>2, <3>3 DEF Inv, OrderInv
  <2> QED BY <2>2, <2>3
<1> QED BY <1>1, <1>2

LEMMA SendInputKeeps ==
  ASSUME Inv, SendInput PROVE Inv'
<1>1. PICK s \in Sockets : s = client.ws
  BY Types DEF Inv, SendInput
<1>2. PICK n : n = sent[s] + 1
  OBVIOUS
<1>3. PICK m : m = [type |-> "input", n |-> n]
  OBVIOUS
<1>4. /\ sock[s] = "open" /\ Happens /\ up' = Push(s, m)
      /\ sent' = [sent EXCEPT ![s] = n] /\ UNCHANGED <<down, proxy, running, sock, promise, client, page>>
  BY <1>1, <1>2, <1>3 DEF SendInput
<1>5. events' \in 0..MaxEvents /\ events' = events + 1
  BY <1>4, HappensType DEF Inv
<1>6. sent[s] \in Nat /\ n \in 1..MaxEvents /\ n <= events'
  BY <1>2, <1>5, Types, Constants DEF Inv
<1>7. m \in UpMessage /\ IsInput(m) /\ m.n = n
  BY <1>3, <1>6, Requests
<1>8. /\ up' \in [Sockets -> Seq(UpMessage)] /\ up'[s] = Append(up[s], m)
      /\ \A t \in Sockets \ {s} : up'[t] = up[t]
  BY <1>4, <1>7, PushType DEF Inv
<1>9. /\ sent' \in [Sockets -> 0..MaxEvents] /\ sent'[s] = n
      /\ \A t \in Sockets \ {s} : sent'[t] = sent[t]
  BY <1>4, <1>6, Types DEF Inv
<1>10. ASSUME NEW t \in Sockets PROVE sent'[t] <= events'
  <2>1. sent[t] \in Nat /\ sent[t] <= events /\ events \in Nat
    BY Types, Constants DEF Inv
  <2>2. CASE t = s
    BY <2>2, <1>6, <1>9
  <2>3. CASE t # s
    BY <2>1, <2>3, <1>5, <1>9
  <2> QED BY <2>2, <2>3
<1>11. TypeInv'
  BY <1>4, <1>5, <1>8, <1>9, <1>10, Types, TypesTogether DEF Inv
<1>12. Ordered(s)'
  <2>1. Ordered(s)
    BY DEF Inv, OrderInv
  <2>2. PICK f \in 1..(sent[s] + 1) : Queued(up[s], f, sent[s]) /\ EndsBefore(proxy[s], f)
    BY <1>4, <2>1 DEF Ordered
  <2>3. up[s] \in Seq(UpMessage) /\ f \in Nat /\ f <= sent[s] + 1
    BY <1>6, Types DEF Inv
  <2>4. Queued(up'[s], f, n)
    BY <1>2, <1>6, <1>7, <1>8, <2>2, <2>3, AppendInput
  <2>5. f \in 1..(n + 1)
    BY <1>2, <1>6
  <2> QED BY <1>4, <1>9, <2>1, <2>2, <2>4, <2>5 DEF Ordered
<1>13. \A t \in Sockets \ {s} : Ordered(t)'
  BY <1>4, <1>8, <1>9, SameOrdered DEF Inv, OrderInv
<1> QED BY <1>11, <1>12, <1>13 DEF Inv, OrderInv

----------------------------------------------------------------------------
(* The events of a WebSocket *)

LEMMA ConnectRefusedKeeps ==
  ASSUME Inv, NEW s \in Sockets, ConnectRefused(s) PROVE Inv'
<1>1. /\ sock[s] = "connecting" /\ Fault /\ sock' = [sock EXCEPT ![s] = "closed"]
      /\ promise' = Settle(s, "rejected") /\ UNCHANGED <<up, down, proxy, running, client, page, sent>>
  BY DEF ConnectRefused
<1>2. events' \in 0..MaxEvents /\ events' >= events
  BY <1>1, FaultType DEF Inv
<1>3. /\ sock' \in [Sockets -> SockStates] /\ promise' \in [Sockets -> Promises]
      /\ sock'[s] = "closed" /\ \A t \in Sockets \ {s} : sock'[t] = sock[t]
  BY <1>1, Types, SettleType DEF Inv, SockStates
<1>4. \A t \in Sockets : sent'[t] <= events' /\ (sock'[t] # "unused" => client'.ws # None)
  BY <1>1, <1>2, <1>3, Types DEF Inv
<1>5. TypeInv'
  BY <1>1, <1>2, <1>3, <1>4, Types, TypesTogether DEF Inv
<1>6. Ordered(s)'
  <2>1. Ordered(s) /\ ProxyOK(proxy'[s]) /\ Kept(proxy[s], proxy'[s])
    BY <1>1, Types, SameKept DEF Inv, OrderInv
  <2>2. up'[s] = <<>> \/ ~proxy'[s].open
    BY <1>1, <2>1 DEF Ordered
  <2> QED BY <1>1, <1>3, <2>1, <2>2, OrderedStep DEF Inv
<1>7. \A t \in Sockets \ {s} : Ordered(t)'
  BY <1>1, <1>3, SameOrdered DEF Inv, OrderInv
<1> QED BY <1>5, <1>6, <1>7 DEF Inv, OrderInv

(* The request for an SSH connection goes out on the WebSocket made last. *)
LEMMA OpenKeeps ==
  ASSUME Inv, NEW s \in Sockets, Open(s) PROVE Inv'
<1>1. PICK ws : ws = client.ws
  OBVIOUS
<1>2. /\ sock[s] = "connecting" /\ sock' = [sock EXCEPT ![s] = "open"]
      /\ proxy' = [proxy EXCEPT ![s].open = TRUE] /\ UNCHANGED <<running, events, down, page, sent>>
  BY DEF Open
<1>3. ws \in Sockets
  BY <1>1, <1>2, Types DEF Inv
<1>4. PICK m : m = [type |-> "connect", of |-> s]
  OBVIOUS
<1>5. m \in UpMessage /\ ~IsInput(m)
  BY <1>4, Requests
<1>6. \/ /\ sock'[ws] = "open" /\ up' = Push(ws, m)
         /\ client' = [client EXCEPT !.isConnected = TRUE, !.settles = s] /\ UNCHANGED promise
      \/ /\ client' = [client EXCEPT !.isConnected = TRUE, !.settles = None]
         /\ promise' = Settle(s, "rejected") /\ UNCHANGED up
  BY <1>1, <1>4 DEF Open
<1>7. /\ sock' \in [Sockets -> SockStates] /\ sock'[s] = "open"
      /\ \A t \in Sockets \ {s} : sock'[t] = sock[t]
  BY <1>2, Types DEF Inv, SockStates
<1>8. client' \in Client /\ client'.ws = ws
  BY <1>1, <1>6, Types DEF Inv, Client
<1>9. promise' \in [Sockets -> Promises]
  BY <1>6, Types, SettleType DEF Inv
<1>10. /\ up' \in [Sockets -> Seq(UpMessage)]
       /\ \A t \in Sockets : up'[t] = up[t] \/ (sock'[t] = "open" /\ up'[t] = Append(up[t], m))
  <2>1. CASE sock'[ws] = "open" /\ up' = Push(ws, m)
    <3>1. /\ Push(ws, m) \in [Sockets -> Seq(UpMessage)] /\ Push(ws, m)[ws] = Append(up[ws], m)
          /\ \A t \in Sockets \ {ws} : Push(ws, m)[t] = up[t]
      BY <1>3, <1>5, PushType DEF Inv
    <3> QED BY <2>1, <3>1
  <2>2. CASE UNCHANGED up
    BY <2>2, Types DEF Inv
  <2> QED BY <1>6, <2>1, <2>2
<1>11. \A t \in Sockets : up'[t] = up[t] \/ (sock'[t] = "open" /\ up'[t] = Append(up[t], m))
  BY <1>10
<1>12. PICK e : e = [proxy[s] EXCEPT !.open = TRUE]
  OBVIOUS
<1>13. ProxyOK(e) /\ Kept(proxy[s], e)
  <2>1. ProxyOK(proxy[s])
    BY Types DEF Inv
  <2>2. /\ e \in Proxy /\ e.ssh = proxy[s].ssh /\ e.streams = proxy[s].streams
        /\ e.sshClient = proxy[s].sshClient /\ e.sshStream = proxy[s].sshStream
    BY <1>12, <2>1 DEF ProxyOK, Proxy
  <2>3. Kept(proxy[s], proxy[s])
    BY <2>1, SameKept
  <2> QED BY <2>1, <2>2, <2>3 DEF ProxyOK, Kept
<1>14. proxy' = [proxy EXCEPT ![s] = e]
  BY <1>2, <1>12
<1>15. proxy'[s] = e /\ (\A t \in Sockets \ {s} : proxy'[t] = proxy[t]) /\ proxy' \in [Sockets -> Proxy]
  BY <1>13, <1>14, Types DEF Inv, ProxyOK
<1>16. \A t \in Sockets : ProxyOK(proxy'[t]) /\ Kept(proxy[t], proxy'[t])
  BY <1>13, <1>15, Types, SameKept DEF Inv
<1>17. TypeInv'
  BY <1>1, <1>2, <1>3, <1>7, <1>8, <1>9, <1>10, <1>15, <1>16, Types, Constants, TypesTogether DEF Inv
<1>18. ASSUME NEW t \in Sockets PROVE Ordered(t)'
  <2>1. Ordered(t) /\ sent[t] \in Nat /\ up[t] \in Seq(UpMessage)
    BY Types DEF Inv, OrderInv
  <2>2. ASSUME NEW f \in Nat, Queued(up[t], f, sent[t]) PROVE Queued(up'[t], f, sent[t])
    <3>1. Queued(Append(up[t], m), f, sent[t])
      BY <1>5, <2>1, <2>2, AppendOther
    <3> QED BY <1>11, <2>2, <3>1
  <2>3. sock'[t] \notin {"open", "closing"} => t # s /\ sock'[t] = sock[t] /\ up'[t] = up[t] /\ proxy'[t] = proxy[t]
    BY <1>7, <1>11, <1>15
  <2>4. sock'[t] \notin {"open", "closing"} => up'[t] = <<>> \/ ~proxy'[t].open
    BY <2>1, <2>3 DEF Ordered
  <2>5. sock'[t] \notin {"failed", "closed"} => sock[t] \notin {"failed", "closed"}
    BY <1>2, <1>7
  <2> QED BY <1>2, <1>16, <2>1, <2>2, <2>4, <2>5, OrderedStep DEF Inv
<1> QED BY <1>17, <1>18 DEF Inv, OrderInv

(* Only flags, promises and what is on the way to the client change. *)
LEMMA ClientKeeps ==
  ASSUME Inv, UNCHANGED <<up, proxy, running, sock, sent, events>>,
         down' \in [Sockets -> Seq(DownMessage)], promise' \in [Sockets -> Promises],
         client' \in Client, client'.ws = client.ws,
         page' \in [shown: BOOLEAN, isConnected: BOOLEAN], page'.isConnected => client.ws # None
  PROVE  Inv'
<1>1. TypeInv'
  BY Types, TypesTogether DEF Inv
<1>2. \A t \in Sockets : Ordered(t)'
  BY SameOrdered DEF Inv, OrderInv
<1> QED BY <1>1, <1>2 DEF Inv, OrderInv

LEMMA MessageKeeps ==
  ASSUME Inv, NEW s \in Sockets, Message(s) PROVE Inv'
<1>1. /\ UNCHANGED <<events, up, proxy, running, sock, sent>> /\ down' = [down EXCEPT ![s] = Tail(down[s])]
      /\ sock[s] # "unused" /\ down[s] # <<>>
      /\ HandleConnected \/ HandleError \/ HandleClosed
  BY DEF Message
<1>2. down' \in [Sockets -> Seq(DownMessage)]
  <2>1. Tail(down[s]) \in Seq(DownMessage)
    BY <1>1, Types DEF Inv
  <2> QED BY <1>1, <2>1, Types DEF Inv
<1>3. client.ws # None
  BY <1>1, Types DEF Inv
<1>4. CASE HandleConnected
  <2>1. /\ promise' = Settle(client.settles, "resolved")
        /\ client' = [client EXCEPT !.sshConnected = TRUE, !.settles = None]
        /\ page' = [page EXCEPT !.isConnected = TRUE]
    BY <1>4 DEF HandleConnected
  <2>2. /\ promise' \in [Sockets -> Promises] /\ page' \in [shown: BOOLEAN, isConnected: BOOLEAN]
        /\ client' \in Client /\ client'.ws = client.ws
    BY <2>1, Types, SettleType DEF Inv, Client
  <2> QED BY <1>1, <1>2, <1>3, <2>2, ClientKeeps
<1>5. CASE HandleError
  <2>1. /\ promise' = Settle(client.settles, "rejected")
        /\ client' = [client EXCEPT !.settles = None] /\ UNCHANGED page
    BY <1>5 DEF HandleError
  <2>2. promise' \in [Sockets -> Promises] /\ client' \in Client /\ client'.ws = client.ws
    BY <2>1, Types, SettleType DEF Inv, Client
  <2> QED BY <1>1, <1>2, <1>3, <2>1, <2>2, Types, ClientKeeps DEF Inv
<1>6. CASE HandleClosed
  <2>1. /\ client' = [client EXCEPT !.sshConnected = FALSE]
        /\ page' = [page EXCEPT !.isConnected = FALSE] /\ UNCHANGED promise
    BY <1>6 DEF HandleClosed
  <2>2. /\ client' \in Client /\ client'.ws = client.ws
        /\ page' \in [shown: BOOLEAN, isConnected: BOOLEAN]
    BY <2>1, Types DEF Inv, Client
  <2> QED BY <1>1, <1>2, <1>3, <2>1, <2>2, Types, ClientKeeps DEF Inv
<1> QED BY <1>1, <1>4, <1>5, <1>6

LEMMA CloseAcceptedKeeps ==
  ASSUME Inv, CloseAccepted PROVE Inv'
<1>1. /\ client' = [Flags(FALSE, FALSE) EXCEPT !.closing = None]
      /\ page' = [page EXCEPT !.isConnected = FALSE]
      /\ UNCHANGED <<events, up, down, proxy, running, sock, promise, sent>>
  BY DEF CloseAccepted
<1>2. client' \in Client /\ client'.ws = client.ws
  BY <1>1, FlagsFields DEF Inv, Client
<1>3. page' \in [shown: BOOLEAN, isConnected: BOOLEAN] /\ ~page'.isConnected
  BY <1>1, Types DEF Inv
<1> QED BY <1>1, <1>2, <1>3, Types, ClientKeeps DEF Inv

(* A WebSocket is lost or closed. *)
LEMMA LostKeeps ==
  ASSUME Inv, NEW s \in Sockets, NEW state \in {"failed", "closed"}, sock[s] # "unused",
         sock' = [sock EXCEPT ![s] = state], events' \in 0..MaxEvents, events' >= events,
         UNCHANGED <<proxy, running, promise, sent>>, client' = Flags(FALSE, FALSE),
         page' \in [shown: BOOLEAN, isConnected: BOOLEAN],
         page'.isConnected => page.isConnected,
         down' \in [Sockets -> Seq(DownMessage)], up' \in [Sockets -> Seq(UpMessage)],
         \A t \in Sockets \ {s} : up'[t] = up[t], up'[s] = <<>> \/ ~proxy[s].open
  PROVE  Inv'
<1>1. client' \in Client /\ client'.ws = client.ws
  BY FlagsFields DEF Inv
<1>2. /\ sock' \in [Sockets -> SockStates] /\ sock'[s] = state
      /\ \A t \in Sockets \ {s} : sock'[t] = sock[t]
  BY Types DEF Inv, SockStates
<1>3. \A t \in Sockets : sent'[t] <= events' /\ (sock'[t] # "unused" => client'.ws # None)
  <2>1. ASSUME NEW t \in Sockets PROVE sent'[t] <= events'
    BY Types DEF Inv
  <2>2. ASSUME NEW t \in Sockets, sock'[t] # "unused" PROVE sock[t] # "unused"
    BY <1>2, <2>2
  <2> QED BY <1>1, <2>1, <2>2, Types DEF Inv
<1>4. TypeInv'
  BY <1>1, <1>2, <1>3, Types, TypesTogether DEF Inv
<1>5. Ordered(s)'
  <2>1. Ordered(s) /\ ProxyOK(proxy'[s]) /\ Kept(proxy[s], proxy'[s])
    BY Types, SameKept DEF Inv, OrderInv
  <2> QED BY <1>2, <2>1, OrderedStep DEF Inv
<1>6. \A t \in Sockets \ {s} : Ordered(t)'
  BY <1>2, SameOrdered DEF Inv, OrderInv
<1> QED BY <1>4, <1>5, <1>6 DEF Inv, OrderInv

LEMMA ErrorKeeps ==
  ASSUME Inv, NEW s \in Sockets, Error(s) PROVE Inv'
<1>1. /\ Fault /\ sock[s] # "unused" /\ sock' = [sock EXCEPT ![s] = "failed"]
      /\ client' = Flags(FALSE, FALSE) /\ UNCHANGED <<proxy, running, promise, page, sent>>
      /\ up' = [up EXCEPT ![s] = <<>>] /\ down' = [down EXCEPT ![s] = <<>>]
  BY DEF Error
<1>2. events' \in 0..MaxEvents /\ events' >= events
  BY <1>1, FaultType DEF Inv
<1>3. /\ up' \in [Sockets -> Seq(UpMessage)] /\ down' \in [Sockets -> Seq(DownMessage)]
      /\ up'[s] = <<>> /\ \A t \in Sockets \ {s} : up'[t] = up[t]
  BY <1>1, Types DEF Inv
<1> QED BY <1>1, <1>2, <1>3, Types, LostKeeps DEF Inv

LEMMA CloseKeeps ==
  ASSUME Inv, NEW s \in Sockets, Close(s) PROVE Inv'
<1>1. /\ sock[s] = "failed" \/ (sock[s] = "closing" /\ ~proxy[s].open)
      /\ sock' = [sock EXCEPT ![s] = "closed"] /\ client' = Flags(FALSE, FALSE)
      /\ page' = [page EXCEPT !.isConnected = FALSE]
      /\ UNCHANGED <<events, up, down, proxy, running, promise, sent>>
  BY DEF Close
<1>2. page' \in [shown: BOOLEAN, isConnected: BOOLEAN] /\ ~page'.isConnected
  BY <1>1, Types DEF Inv
<1>3. up[s] = <<>> \/ ~proxy[s].open
  BY <1>1 DEF Inv, OrderInv, Ordered
<1>4. events' >= events
  BY <1>1, Types DEF Inv
<1> QED BY <1>1, <1>2, <1>3, <1>4, Types, LostKeeps DEF Inv

----------------------------------------------------------------------------
(* The events of the proxy *)

(* What the proxy keeps changes, and nothing of the inputs. *)
LEMMA ProxyStepKeeps ==
  ASSUME Inv, proxy' \in [Sockets -> Proxy], running' \in BOOLEAN,
         \A s \in Sockets : /\ ProxyOK(proxy'[s]) /\ Kept(proxy[s], proxy'[s])
                            /\ proxy'[s].open => proxy[s].open,
         down' \in [Sockets -> Seq(DownMessage)], events' \in 0..MaxEvents, events' >= events,
         UNCHANGED <<up, clientVars>>
  PROVE  Inv'
<1>1. UNCHANGED <<sock, promise, client, page, sent>>
  BY DEF clientVars
<1>2. \A s \in Sockets : sent'[s] <= events'
  BY <1>1, Types DEF Inv
<1>3. TypeInv'
  BY <1>1, <1>2, Types, TypesTogether DEF Inv
<1>4. ASSUME NEW s \in Sockets PROVE Ordered(s)'
  <2>1. Ordered(s)
    BY DEF Inv, OrderInv
  <2>2. sock'[s] \notin {"open", "closing"} => up'[s] = <<>> \/ ~proxy'[s].open
    BY <1>1, <2>1 DEF Ordered
  <2> QED BY <1>1, <2>1, <2>2, OrderedStep DEF Inv
<1> QED BY <1>3, <1>4 DEF Inv, OrderInv

(* What one WebSocket has there changes. *)
LEMMA ProxyChangeKeeps ==
  ASSUME Inv, NEW s \in Sockets, NEW e, proxy' = [proxy EXCEPT ![s] = e],
         ProxyOK(e), Kept(proxy[s], e), e.open => proxy[s].open,
         down' \in [Sockets -> Seq(DownMessage)], events' \in 0..MaxEvents, events' >= events,
         UNCHANGED <<running, up, clientVars>>
  PROVE  Inv'
<1>1. /\ proxy' \in [Sockets -> Proxy] /\ proxy'[s] = e
      /\ \A t \in Sockets \ {s} : proxy'[t] = proxy[t]
  BY Types DEF Inv, ProxyOK
<1>2. ASSUME NEW t \in Sockets
      PROVE  ProxyOK(proxy'[t]) /\ Kept(proxy[t], proxy'[t]) /\ (proxy'[t].open => proxy[t].open)
  BY <1>1, Types, SameKept DEF Inv
<1> QED BY <1>1, <1>2, Types, ProxyStepKeeps DEF Inv

LEMMA DueType ==
  ASSUME TypeInv, NEW s, NEW k, Due(s, k) PROVE events' \in 0..MaxEvents /\ events' >= events
<1>1. UNCHANGED events \/ Happens
  BY DEF Due
<1> QED BY <1>1, Types, HappensType

LEMMA DownMessages ==
  /\ "connected" \in DownMessage /\ "error" \in DownMessage
  /\ "closed" \in DownMessage /\ "disconnected" \in DownMessage
  /\ <<"connected", "error">> \in Seq(DownMessage)
BY DEF DownMessage

LEMMA KeptTwice ==
  ASSUME NEW c, NEW b, NEW e, ProxyOK(c), ProxyOK(b), b.streams = c.streams, Kept(c, b), Kept(b, e)
  PROVE  Kept(c, e)
BY DEF Kept

LEMMA SshReadyKeeps ==
  ASSUME Inv, NEW s \in Sockets, NEW k \in Clients(s), SshReady(s, k), UNCHANGED clientVars
  PROVE  Inv'
<1>1. ProxyOK(proxy[s]) /\ k \in DOMAIN proxy[s].ssh
  BY Types DEF Inv, Clients
<1>2. PICK c : c = [proxy[s] EXCEPT !.ssh[k].ready = TRUE]
  OBVIOUS
<1>3. /\ ProxyOK(c) /\ Kept(proxy[s], c) /\ c.open = proxy[s].open /\ c.streams = proxy[s].streams
      /\ DOMAIN c.ssh = DOMAIN proxy[s].ssh
  BY <1>1, <1>2, ReadyKeeps
<1>4. UNCHANGED <<up, events>> /\ (AskShell(s, c) \/ ShellThrows(s, k, c))
  BY <1>2 DEF SshReady
<1>5. events' \in 0..MaxEvents /\ events' >= events
  BY <1>4, Types DEF Inv
<1>6. CASE AskShell(s, c)
  <2>1. PICK e : e = [c EXCEPT !.streams = Append(c.streams, NewStream(c.sshClient))]
    OBVIOUS
  <2>2. c.sshClient # 0 /\ proxy' = [proxy EXCEPT ![s] = e] /\ Tell(s, "connected") /\ UNCHANGED running
    BY <1>6, <2>1 DEF AskShell
  <2>3. ProxyOK(e) /\ Kept(c, e) /\ e.open = c.open
    BY <1>3, <2>1, <2>2, ShellAsked
  <2>4. Kept(proxy[s], e)
    BY <1>1, <1>3, <2>3, KeptTwice
  <2>5. down' \in [Sockets -> Seq(DownMessage)]
    BY <2>2, DownMessages, TellType DEF Inv
  <2> QED BY <1>3, <1>4, <1>5, <2>2, <2>3, <2>4, <2>5, ProxyChangeKeeps
<1>7. CASE /\ proxy' = [proxy EXCEPT ![s] = [c EXCEPT !.ssh[k].state = "failed"]]
           /\ TellAll(s, <<"connected", "error">>) /\ UNCHANGED running
  <2>1. PICK e : e = [c EXCEPT !.ssh[k].state = "failed"]
    OBVIOUS
  <2>2. ProxyOK(e) /\ Kept(c, e) /\ e.open = c.open
    BY <1>1, <1>3, <2>1, StateKeeps DEF States
  <2>3. Kept(proxy[s], e)
    BY <1>1, <1>3, <2>2, KeptTwice
  <2>4. down' \in [Sockets -> Seq(DownMessage)]
    BY <1>7, DownMessages, TellAllType DEF Inv
  <2>5. proxy' = [proxy EXCEPT ![s] = e]
    BY <1>7, <2>1
  <2> QED BY <1>3, <1>4, <1>5, <1>7, <2>2, <2>3, <2>4, <2>5, ProxyChangeKeeps
<1>8. CASE /\ running' = FALSE /\ proxy' = [t \in Sockets |-> Ended(proxy[t])]
           /\ Tell(s, "connected")
  <2>1. \A t \in Sockets : /\ ProxyOK(Ended(proxy[t])) /\ Kept(proxy[t], Ended(proxy[t]))
                           /\ ~Ended(proxy[t]).open
    BY Types, EndedKeeps DEF Inv
  <2>2. \A t \in Sockets : proxy'[t] = Ended(proxy[t])
    BY <1>8
  <2>3. proxy' \in [Sockets -> Proxy]
    BY <1>8, <2>1 DEF ProxyOK
  <2>4. down' \in [Sockets -> Seq(DownMessage)]
    BY <1>8, DownMessages, TellType DEF Inv
  <2> QED BY <1>4, <1>5, <1>8, <2>1, <2>2, <2>3, <2>4, ProxyStepKeeps
<1> QED BY <1>4, <1>6, <1>7, <1>8 DEF ShellThrows

LEMMA SshEndsKeeps ==
  ASSUME Inv, NEW s \in Sockets, NEW k \in Clients(s), SshFails(s, k) \/ SshCloses(s, k),
         UNCHANGED clientVars
  PROVE  Inv'
<1>1. ProxyOK(proxy[s]) /\ k \in DOMAIN proxy[s].ssh
  BY Types DEF Inv, Clients
<1>2. PICK state \in States : SshBecomes(s, k, state)
  BY DEF SshFails, SshCloses, States
<1>3. UNCHANGED <<up, running>> /\ \E m \in DownMessage : Tell(s, m)
  BY DownMessages DEF SshFails, SshCloses
<1>4. events' \in 0..MaxEvents /\ events' >= events
  BY Types, HappensType, DueType DEF Inv, SshFails, SshCloses
<1>5. PICK e : e = [proxy[s] EXCEPT !.ssh[k].state = state]
  OBVIOUS
<1>6. ProxyOK(e) /\ Kept(proxy[s], e) /\ e.open = proxy[s].open
  BY <1>1, <1>5, StateKeeps
<1>7. proxy' = [proxy EXCEPT ![s] = e]
  BY <1>2, <1>5 DEF SshBecomes
<1>8. down' \in [Sockets -> Seq(DownMessage)]
  BY <1>3, TellType DEF Inv
<1> QED BY <1>3, <1>4, <1>6, <1>7, <1>8, ProxyChangeKeeps

LEMMA StreamEventKeeps ==
  ASSUME Inv, NEW s \in Sockets, NEW n \in Streams(s),
         ShellOpens(s, n) \/ ShellRefused(s, n) \/ StreamCloses(s, n) \/ StderrData(s, n),
         UNCHANGED clientVars
  PROVE  Inv'
<1>1. PICK c : c = proxy[s]
  OBVIOUS
<1>2. ProxyOK(c) /\ ShellsOK(c) /\ n \in DOMAIN c.streams
  BY <1>1, Types DEF Inv, OrderInv, Ordered, Streams
<1>3. CASE ShellOpens(s, n)
  <2>1. /\ c.streams[n].shell = "asked" /\ UNCHANGED <<up, down, running, events>>
        /\ proxy' = [proxy EXCEPT ![s].streams[n].shell = "open", ![s].sshStream = n]
    BY <1>1, <1>3 DEF ShellOpens
  <2>2. PICK e : e = [c EXCEPT !.streams[n].shell = "open", !.sshStream = n]
    OBVIOUS
  <2>3. ProxyOK(e) /\ Kept(c, e) /\ e.open = c.open
    BY <1>2, <2>1, <2>2, ShellOpened
  <2>4. proxy' = [proxy EXCEPT ![s] = e]
    BY <1>1, <2>1, <2>2
  <2>5. events' \in 0..MaxEvents /\ events' >= events /\ down' \in [Sockets -> Seq(DownMessage)]
    BY <2>1, Types DEF Inv
  <2> QED BY <1>1, <2>1, <2>3, <2>4, <2>5, ProxyChangeKeeps
<1>4. CASE ShellRefused(s, n) \/ StreamCloses(s, n)
  <2>1. PICK shell \in {"asked", "open"}, m \in DownMessage : ShellEnds(s, n, shell, m)
    <3>1. CASE ShellRefused(s, n)
      BY <3>1, DownMessages DEF ShellRefused
    <3>2. CASE StreamCloses(s, n)
      BY <3>2, DownMessages DEF StreamCloses
    <3> QED BY <1>4, <3>1, <3>2
  <2>2. /\ proxy' = [proxy EXCEPT ![s].streams[n].shell = "exited"]
        /\ UNCHANGED <<up, running>> /\ Tell(s, m)
    BY <2>1 DEF ShellEnds
  <2>3. events' \in 0..MaxEvents /\ events' >= events
    BY <2>1, DueType DEF Inv, ShellEnds
  <2>4. PICK e : e = [c EXCEPT !.streams[n].shell = "exited"]
    OBVIOUS
  <2>5. ProxyOK(e) /\ Kept(c, e) /\ e.open = c.open
    BY <1>2, <2>4, ShellEndsKeeps
  <2>6. proxy' = [proxy EXCEPT ![s] = e]
    BY <1>1, <2>2, <2>4
  <2>7. down' \in [Sockets -> Seq(DownMessage)]
    BY <2>2, TellType DEF Inv
  <2> QED BY <1>1, <2>2, <2>3, <2>5, <2>6, <2>7, ProxyChangeKeeps
<1>5. CASE StderrData(s, n)
  <2>1. UNCHANGED <<up, proxy, running>> /\ Happens /\ Tell(s, "error")
    BY <1>5 DEF StderrData
  <2>2. down' \in [Sockets -> Seq(DownMessage)] /\ events' \in 0..MaxEvents /\ events' >= events
    BY <2>1, DownMessages, TellType, HappensType, Types DEF Inv
  <2>3. proxy' = [proxy EXCEPT ![s] = c]
    BY <1>1, <2>1, Types DEF Inv
  <2>4. Kept(c, c)
    BY <1>2, SameKept
  <2> QED BY <1>1, <1>2, <2>1, <2>2, <2>3, <2>4, ProxyChangeKeeps
<1> QED BY <1>3, <1>4, <1>5

LEMMA SshEventKeeps ==
  ASSUME Inv, NEW s \in Sockets, SshEvent(s), UNCHANGED clientVars PROVE Inv'
BY SshReadyKeeps, SshEndsKeeps, StreamEventKeeps DEF SshEvent

LEMMA ProxyClosesKeeps ==
  ASSUME Inv, NEW s \in Sockets, ProxyCloses(s) PROVE Inv'
<1>1. PICK e : e = [EndSshClient(proxy[s]) EXCEPT !.open = FALSE]
  OBVIOUS
<1>2. /\ proxy' = [proxy EXCEPT ![s] = e] /\ down' = [down EXCEPT ![s] = <<>>]
      /\ UNCHANGED <<running, events, up, clientVars>>
  BY <1>1 DEF ProxyCloses, OnClose
<1>3. ProxyOK(e) /\ Kept(proxy[s], e) /\ ~e.open
  BY <1>1, Types, OnCloseKeeps DEF Inv
<1>4. down' \in [Sockets -> Seq(DownMessage)] /\ events' \in 0..MaxEvents /\ events' >= events
  BY <1>2, Types DEF Inv
<1> QED BY <1>2, <1>3, <1>4, ProxyChangeKeeps

(* A message is read: of an input, it is the next one. *)
LEMMA OnMessageKeeps ==
  ASSUME Inv, NEW s \in Sockets, OnMessage(s), UNCHANGED clientVars PROVE Inv'
<1>1. PICK c, q : c = proxy[s] /\ q = up[s]
  OBVIOUS
<1>2. PICK m : m = Head(q)
  OBVIOUS
<1>3. PICK e : e = CASE m.type = "connect"    -> OnConnect(c, m)
                     [] m.type = "input"      -> OnInput(c, m)
                     [] m.type = "disconnect" -> OnDisconnect(c, m)
  OBVIOUS
<1>4. /\ c.open /\ q # <<>> /\ proxy' = [proxy EXCEPT ![s] = e]
      /\ up' = [up EXCEPT ![s] = Tail(q)] /\ UNCHANGED <<down, running, events>>
      /\ UNCHANGED <<sock, promise, client, page, sent>>
  BY <1>1, <1>2, <1>3 DEF OnMessage, clientVars
<1>5. ProxyOK(c) /\ Ordered(s) /\ q \in Seq(UpMessage) /\ sent[s] \in Nat
  BY <1>1, Types DEF Inv, OrderInv
<1>6. m \in UpMessage /\ Tail(q) \in Seq(UpMessage)
  BY <1>2, <1>4, <1>5
<1>7. m.type \in {"connect", "input", "disconnect"} /\ (IsInput(m) => m.n \in 1..MaxEvents)
  BY <1>6, QueueTypes
<1>8. sock[s] \in {"open", "closing"}
  BY <1>1, <1>4, <1>5 DEF Ordered
<1>9. PICK f \in 1..(sent[s] + 1) : Queued(q, f, sent[s]) /\ EndsBefore(c, f)
  BY <1>1, <1>5, <1>8 DEF Ordered
<1>10. f \in Nat
  BY <1>5
<1>11. /\ up' \in [Sockets -> Seq(UpMessage)] /\ up'[s] = Tail(q)
       /\ \A t \in Sockets \ {s} : up'[t] = up[t]
  BY <1>4, <1>6, Types DEF Inv
<1>12. /\ ProxyOK(e) /\ ShellsOK(e)
       /\ \E g \in 1..(sent[s] + 1) : Queued(Tail(q), g, sent[s]) /\ EndsBefore(e, g)
  <2>1. CASE IsInput(m)
    <3>1. m.n = f /\ f <= sent[s] /\ Queued(Tail(q), f + 1, sent[s])
      BY <1>2, <1>4, <1>5, <1>9, <1>10, <2>1, TailQueue
    <3>2. e = OnInput(c, m)
      BY <1>3, <2>1 DEF IsInput
    <3>3. ProxyOK(e) /\ ShellsOK(e) /\ EndsBefore(e, m.n + 1)
      BY <1>1, <1>5, <1>7, <1>9, <2>1, <3>1, <3>2, OnInputKeeps DEF Ordered
    <3>4. f + 1 \in 1..(sent[s] + 1)
      BY <1>5, <1>10, <3>1
    <3> QED BY <3>1, <3>3, <3>4
  <2>2. CASE ~IsInput(m)
    <3>1. Queued(Tail(q), f, sent[s])
      BY <1>2, <1>4, <1>5, <1>9, <1>10, <2>2, TailQueue
    <3>2. ProxyOK(e) /\ Kept(c, e)
      <4>1. CASE m.type = "connect"
        BY <1>3, <1>5, <4>1, OnConnectKeeps
      <4>2. CASE m.type = "disconnect"
        BY <1>3, <1>5, <4>2, OnDisconnectKeeps
      <4> QED BY <1>7, <2>2, <4>1, <4>2 DEF IsInput
    <3>3. ShellsOK(e) /\ EndsBefore(e, f)
      BY <1>1, <1>5, <1>9, <3>2, KeptShells DEF Ordered
    <3> QED BY <1>9, <3>1, <3>2, <3>3
  <2> QED BY <2>1, <2>2
<1>13. /\ proxy' \in [Sockets -> Proxy] /\ proxy'[s] = e
       /\ \A t \in Sockets \ {s} : proxy'[t] = proxy[t]
  BY <1>4, <1>12, Types DEF Inv, ProxyOK
<1>14. \A t \in Sockets : ProxyOK(proxy'[t])
  BY <1>12, <1>13, Types DEF Inv
<1>15. TypeInv'
  BY <1>4, <1>11, <1>13, <1>14, Types, TypesTogether DEF Inv
<1>16. Ordered(s)'
  BY <1>4, <1>8, <1>11, <1>12, <1>13 DEF Ordered
<1>17. \A t \in Sockets \ {s} : Ordered(t)'
  BY <1>4, <1>11, <1>13, SameOrdered DEF Inv, OrderInv
<1> QED BY <1>15, <1>16, <1>17 DEF Inv, OrderInv

----------------------------------------------------------------------------
(* The results *)

LEMMA InitEstablishes ==
  ASSUME Init PROVE Inv
<1>1. /\ up = [s \in Sockets |-> <<>>] /\ down = [s \in Sockets |-> <<>>] /\ events = 0
      /\ proxy = [s \in Sockets |-> NewProxy] /\ running = TRUE
      /\ sock = [s \in Sockets |-> "unused"] /\ promise = [s \in Sockets |-> "none"]
      /\ client = [ws |-> None, isConnected |-> FALSE, sshConnected |-> FALSE,
                   settles |-> None, closing |-> None]
      /\ page = [shown |-> TRUE, isConnected |-> FALSE] /\ sent = [s \in Sockets |-> 0]
  BY DEF Init, ProxyInit
<1>2. PICK c : c = NewProxy
  OBVIOUS
<1>3. ProxyOK(c) /\ ShellsOK(c) /\ EndsBefore(c, 1)
  <2>1. <<>> \in Seq(SshClient) /\ <<>> \in Seq(Stream) /\ DOMAIN <<>> = {}
    OBVIOUS
  <2>2. c.ssh = <<>> /\ c.streams = <<>> /\ c.sshClient = 0 /\ c.sshStream = 0 /\ c \in Proxy
    BY <1>2, <2>1 DEF NewProxy, Proxy
  <2> QED BY <2>1, <2>2 DEF ProxyOK, ShellsOK, EndsBefore
<1>4. proxy = [s \in Sockets |-> c]
  BY <1>1, <1>2
<1>5. /\ up \in [Sockets -> Seq(UpMessage)] /\ down \in [Sockets -> Seq(DownMessage)]
      /\ proxy \in [Sockets -> Proxy] /\ \A s \in Sockets : proxy[s] = c
  <2>1. <<>> \in Seq(UpMessage) /\ <<>> \in Seq(DownMessage)
    OBVIOUS
  <2>2. up \in [Sockets -> Seq(UpMessage)]
    BY <1>1, <2>1
  <2>3. down \in [Sockets -> Seq(DownMessage)]
    BY <1>1, <2>1
  <2>4. c \in Proxy
    BY <1>3 DEF ProxyOK
  <2>5. proxy \in [Sockets -> Proxy] /\ \A s \in Sockets : proxy[s] = c
    BY <1>4, <2>4
  <2> QED BY <2>2, <2>3, <2>5
<1>6. events \in 0..MaxEvents /\ sent \in [Sockets -> 0..MaxEvents]
  BY <1>1, Constants
<1>7. /\ sock \in [Sockets -> SockStates] /\ promise \in [Sockets -> Promises]
      /\ client \in Client /\ page \in [shown: BOOLEAN, isConnected: BOOLEAN]
  BY <1>1 DEF SockStates, Promises, Client
<1>8. ProxyTypeOK
  BY <1>1, <1>3, <1>5, <1>6 DEF ProxyTypeOK, ProxyOK, Clients, Streams
<1>9. TypeInv
  BY <1>1, <1>6, <1>7, <1>8 DEF TypeInv, TypeOK, SockStates, Promises
<1>10. Queued(<<>>, 1, 0)
  <2>1. 1..0 = {} /\ DOMAIN <<>> = {}
    OBVIOUS
  <2> QED BY <2>1 DEF Queued
<1>11. ASSUME NEW s \in Sockets PROVE Ordered(s)
  <2>1. up[s] = <<>> /\ sent[s] = 0 /\ proxy[s] = c
    BY <1>1, <1>5
  <2>2. 1 \in 1..(sent[s] + 1) /\ Queued(up[s], 1, sent[s]) /\ EndsBefore(proxy[s], 1)
    BY <1>3, <1>10, <2>1
  <2> QED BY <1>3, <2>1, <2>2 DEF Ordered
<1> QED BY <1>9, <1>11 DEF Inv, OrderInv

LEMMA NextKeeps ==
  ASSUME Inv, [Next]_vars PROVE Inv'
<1>1. CASE PageDisconnect \/ AboutToDisappear \/ SendInput \/ CloseAccepted
  BY <1>1, LeavingKeeps, SendInputKeeps, CloseAcceptedKeeps
<1>2. ASSUME NEW s \in Sockets,
             \/ Connect(s) \/ ConnectRefused(s) \/ Open(s) \/ Message(s) \/ Error(s) \/ Close(s)
             \/ ProxyCloses(s)
      PROVE  Inv'
  BY <1>2, ConnectKeeps, ConnectRefusedKeeps, OpenKeeps, MessageKeeps, ErrorKeeps, CloseKeeps,
     ProxyClosesKeeps
<1>3. ASSUME NEW s \in Sockets, ProxyStep(s) PROVE Inv'
  BY <1>3, OnMessageKeeps, SshEventKeeps DEF ProxyStep
<1>4. CASE UNCHANGED vars
  <2>1. UNCHANGED <<up, down, proxy, running, events, sock, promise, client, page, sent>>
    BY <1>4 DEF vars
  <2> QED BY <2>1, Types, ClientKeeps DEF Inv
<1> QED BY <1>1, <1>2, <1>3, <1>4 DEF Next

(* Types, and the order of inputs from the client to the shells. *)
THEOREM InvCorrect == Spec => []Inv
BY InitEstablishes, NextKeeps, PTL DEF Spec

(* Every field of client and proxy keeps its type; the SSH client and stream *)
(* that a handler uses are among those of its WebSocket.                     *)
THEOREM TypeCorrect == Spec => []TypeOK
<1>1. Inv => TypeOK
  BY DEF Inv, TypeInv
<1> QED BY <1>1, InvCorrect, PTL

(* What a shell is given is an unbroken run of the inputs of its WebSocket,  *)
(* in their order, whatever is refused, lost or closed on the way.           *)
THEOREM InputsReachShellInOrderCorrect == Spec => []InputsReachShellInOrder
<1>1. Inv => InputsReachShellInOrder
  BY DEF Inv, OrderInv, Ordered, ShellsOK, Consecutive, InputsReachShellInOrder, Streams
<1> QED BY <1>1, InvCorrect, PTL
==============================================================================
