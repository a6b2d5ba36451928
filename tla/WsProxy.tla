------------------------------ MODULE WsProxy ------------------------------
(***************************************************************************)
(* The WebSocket SSH proxy, tests/websocket_ssh_server.js: for each        *)
(* WebSocket a closure with the SSH client and the shell stream it talks   *)
(* to.  Messages travel in order in each direction while the WebSocket     *)
(* lives.  An event handler of node.js runs to its end: an action is one.  *)
(***************************************************************************)
EXTENDS Integers, Sequences

CONSTANTS
  Sockets,    \* the WebSockets a client may create
  MaxEvents   \* bound on the connects, the inputs and what goes wrong by itself

ASSUME ProxyAssumption == MaxEvents \in Nat

VARIABLES
  up,      \* the messages on the way to the proxy
  down,    \* the messages on the way to the client
  proxy,   \* what the proxy keeps for each WebSocket
  running, \* the process of the proxy
  events   \* how many connects, inputs and events there have been

(* An ssh2 Client, and whether it has said 'ready' *)
SshClient == [state: {"open", "failed", "ending", "closed"}, ready: BOOLEAN]

NewClient == [state |-> "open", ready |-> FALSE]

(* A shell asked for: of which client, and the inputs written to its stream *)
Stream == [of: Nat, shell: {"asked", "open", "exited"}, written: Seq(1..MaxEvents)]

NewStream(k) == [of |-> k, shell |-> "asked", written |-> <<>>]

(* sshClient is a position in ssh and sshStream one in streams, 0 for null. *)
Proxy == [open: BOOLEAN, ssh: Seq(SshClient), sshClient: Nat, streams: Seq(Stream), sshStream: Nat]

NewProxy == [open |-> FALSE, ssh |-> <<>>, sshClient |-> 0, streams |-> <<>>, sshStream |-> 0]

UpMessage ==
  [type: {"connect"}, of: Sockets] \cup [type: {"input"}, n: 1..MaxEvents] \cup [type: {"disconnect"}]

DownMessage == {"connected", "error", "closed", "disconnected"}

ProxyInit ==
  /\ up = [s \in Sockets |-> <<>>]
  /\ down = [s \in Sockets |-> <<>>]
  /\ proxy = [s \in Sockets |-> NewProxy]
  /\ running = TRUE /\ events = 0

(* Connects, inputs, refusals, losses, errors and exits share one bound: a    *)
(* run has many inputs, or faults, or connects.  A later connect, which       *)
(* doubles what can be interleaved, counts for more.                          *)
HappensFor(n) == events + n <= MaxEvents /\ events' = events + n

Happens == HappensFor(1)

Clients(s) == DOMAIN proxy[s].ssh

Streams(s) == DOMAIN proxy[s].streams

StreamsOf(s, k) == {n \in Streams(s) : proxy[s].streams[n].of = k}

(* ws.send: a WebSocket that is no longer open drops the messages. *)
TellAll(s, ms) == down' = IF proxy[s].open THEN [down EXCEPT ![s] = @ \o ms] ELSE down

Tell(s, m) == TellAll(s, <<m>>)

(* sshClient.end() on the client the variable names, if any *)
EndSshClient(c) ==
  IF c.sshClient = 0 \/ c.ssh[c.sshClient].state = "closed" THEN c
  ELSE [c EXCEPT !.ssh[c.sshClient].state = "ending"]

----------------------------------------------------------------------------
(* ws.on('message') *)

OnConnect_noNewClient(c, m) == [c EXCEPT !.sshClient = Len(c.ssh) + 1]

OnConnect(c, m) ==
  [c EXCEPT !.ssh = Append(@, NewClient), !.sshClient = Len(c.ssh) + 1]

(* A stream that has closed takes no more. *)
OnInput_newestFirst(c, m) ==
  IF c.sshStream = 0 \/ c.streams[c.sshStream].shell # "open" THEN c
  ELSE [c EXCEPT !.streams[c.sshStream].written = <<m.n>> \o @]

OnInput(c, m) ==
  IF c.sshStream = 0 \/ c.streams[c.sshStream].shell # "open" THEN c
  ELSE [c EXCEPT !.streams[c.sshStream].written = Append(@, m.n)]

OnDisconnect(c, m) == [EndSshClient(c) EXCEPT !.sshClient = 0]

OnMessage(s) ==
  /\ proxy[s].open /\ up[s] # <<>>
  /\ LET m == Head(up[s])
         c == proxy[s] IN
       proxy' = [proxy EXCEPT ![s] = CASE m.type = "connect"    -> OnConnect(c, m)
                                       [] m.type = "input"      -> OnInput(c, m)
                                       [] m.type = "disconnect" -> OnDisconnect(c, m)]
  /\ up' = [up EXCEPT ![s] = Tail(@)]
  /\ UNCHANGED <<down, running, events>>

(* ws.on('close'); the caller says when the WebSocket has closed. *)
OnClose_keepsSsh(s) ==
  /\ proxy[s].open
  /\ proxy' = [proxy EXCEPT ![s].open = FALSE]
  /\ down' = [down EXCEPT ![s] = <<>>]
  /\ UNCHANGED <<running, events>>

OnClose(s) ==
  /\ proxy[s].open
  /\ proxy' = [proxy EXCEPT ![s] = [EndSshClient(@) EXCEPT !.open = FALSE]]
  /\ down' = [down EXCEPT ![s] = <<>>]
  /\ UNCHANGED <<running, events>>

----------------------------------------------------------------------------
(* The events of an SSH client *)

SshBecomes(s, k, state) == proxy' = [proxy EXCEPT ![s].ssh[k].state = state]

(* An exception that nothing catches ends the process, and with it all that *)
(* it held: for every WebSocket its connection, SSH clients and streams.    *)
Ended(c) ==
  [c EXCEPT !.open = FALSE,
            !.ssh = [k \in DOMAIN @ |-> [@[k] EXCEPT !.state = "closed"]],
            !.streams = [n \in DOMAIN @ |-> [@[n] EXCEPT !.shell = "exited"]]]

(* The shell is asked of the client sshClient names now. *)
AskShell(s, c) ==
  /\ c.sshClient # 0 /\ c.ssh[c.sshClient].state = "open"
  /\ proxy' = [proxy EXCEPT ![s] = [c EXCEPT !.streams = Append(@, NewStream(c.sshClient))]]
  /\ Tell(s, "connected") /\ UNCHANGED running

(* shell of null throws, and shell of a client that is not connected may:   *)
(* ssh2 reports it as an error of the client that got ready, or nothing     *)
(* catches it.                                                              *)
ShellThrows(s, k, c) ==
  /\ c.sshClient # 0 => c.ssh[c.sshClient] # [state |-> "open", ready |-> TRUE]
  /\ \/ /\ proxy' = [proxy EXCEPT ![s] = [c EXCEPT !.ssh[k].state = "failed"]]
        /\ TellAll(s, <<"connected", "error">>) /\ UNCHANGED running
     \/ /\ running' = FALSE
        /\ proxy' = [t \in Sockets |-> Ended(proxy[t])]
        /\ Tell(s, "connected")

(* 'ready': the web client is told, and only then the shell is asked for.   *)
(* It may still come after end().                                           *)
SshReady(s, k) ==
  /\ proxy[s].ssh[k].state \in {"open", "ending"} /\ ~proxy[s].ssh[k].ready
  /\ LET c == [proxy[s] EXCEPT !.ssh[k].ready = TRUE] IN AskShell(s, c) \/ ShellThrows(s, k, c)
  /\ UNCHANGED <<up, events>>

SshFails(s, k) ==
  /\ Happens
  /\ proxy[s].ssh[k].state = "open"
  /\ SshBecomes(s, k, "failed") /\ Tell(s, "error")
  /\ UNCHANGED <<up, running>>

(* What a client still has to end because it was ended or failed is due;     *)
(* otherwise it happens by itself.                                           *)
Due(s, k) ==
  IF proxy[s].ssh[k].state \in {"ending", "failed"} THEN UNCHANGED events ELSE Happens

(* A client that never got ready says 'error' before it closes, and a client *)
(* closes after its streams.                                                 *)
SshCloses(s, k) ==
  /\ Due(s, k)
  /\ proxy[s].ssh[k].state # "closed" /\ (proxy[s].ssh[k].state = "open" => proxy[s].ssh[k].ready)
  /\ \A n \in StreamsOf(s, k) : proxy[s].streams[n].shell = "exited"
  /\ SshBecomes(s, k, "closed") /\ Tell(s, "disconnected")
  /\ UNCHANGED <<up, running>>

----------------------------------------------------------------------------
(* The callback of shell, and the events of a stream *)

(* A shell asked for before its client was ready may open when it is. *)
ShellOpens(s, n) ==
  LET stream == proxy[s].streams[n] IN
  /\ stream.shell = "asked"
  /\ proxy[s].ssh[stream.of].ready /\ proxy[s].ssh[stream.of].state \in {"open", "ending"}
  /\ proxy' = [proxy EXCEPT ![s].streams[n].shell = "open", ![s].sshStream = n]
  /\ UNCHANGED <<up, down, running, events>>

ShellEnds(s, n, shell, m) ==
  /\ Due(s, proxy[s].streams[n].of)
  /\ proxy[s].streams[n].shell = shell
  /\ proxy' = [proxy EXCEPT ![s].streams[n].shell = "exited"] /\ Tell(s, m)
  /\ UNCHANGED <<up, running>>

ShellRefused(s, n) == ShellEnds(s, n, "asked", "error")

StreamCloses(s, n) == ShellEnds(s, n, "open", "closed")

(* Output on stderr is an 'error' too; one at a time. *)
StderrData(s, n) ==
  /\ Happens
  /\ proxy[s].streams[n].shell = "open" /\ down[s] = <<>>
  /\ Tell(s, "error")
  /\ UNCHANGED <<up, proxy, running>>

SshEvent(s) ==
  \/ \E k \in Clients(s) : SshReady(s, k) \/ SshFails(s, k) \/ SshCloses(s, k)
  \/ \E n \in Streams(s) :
       ShellOpens(s, n) \/ ShellRefused(s, n) \/ StreamCloses(s, n) \/ StderrData(s, n)

(* A server answers, and what was ended or has failed closes. *)
SshProgress(s, k) ==
  \/ SshReady(s, k)
  \/ /\ proxy[s].ssh[k].state \in {"ending", "failed"}
     /\ SshCloses(s, k) \/ \E n \in StreamsOf(s, k) : ShellRefused(s, n) \/ StreamCloses(s, n)

ProxyTypeOK ==
  /\ up \in [Sockets -> Seq(UpMessage)]
  /\ down \in [Sockets -> Seq(DownMessage)]
  /\ proxy \in [Sockets -> Proxy] /\ running \in BOOLEAN /\ events \in 0..MaxEvents
  /\ \A s \in Sockets :
       /\ proxy[s].sshClient \in Clients(s) \cup {0} /\ proxy[s].sshStream \in Streams(s) \cup {0}
       /\ \A n \in Streams(s) : proxy[s].streams[n].of \in Clients(s)
=============================================================================
