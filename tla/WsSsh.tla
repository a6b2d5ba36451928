------------------------------- MODULE WsSsh -------------------------------
(***************************************************************************)
(* The WebSocket SSH client, common/WebSocketSSHClient.ets, driven by its  *)
(* page, pages/WebSocketSSHTestPage.ets, over the proxy.                   *)
(*                                                                         *)
(* The client keeps one set of flags and one resolve function, and every   *)
(* WebSocket it ever created keeps calling the same handlers.              *)
(***************************************************************************)
EXTENDS WsProxy, FiniteSets

CONSTANT None

ASSUME ClientAssumption == None \notin Sockets /\ IsFiniteSet(Sockets)

VARIABLES
  sock,      \* the WebSockets as the client's runtime knows them
  promise,   \* the promise of connect(), by the WebSocket it created
  client,    \* the fields of WebSocketSSHClient
  page,      \* the page: shown, and its own isConnected
  sent       \* the number of inputs sent on each WebSocket

clientVars == <<sock, promise, client, page, sent>>
vars == <<up, down, proxy, running, events, sock, promise, client, page, sent>>

Client == [ws: Sockets \cup {None},
           isConnected: BOOLEAN, sshConnected: BOOLEAN,
           settles: Sockets \cup {None},     \* connectResolve, connectReject
           closing: Sockets \cup {None}]     \* the WebSocket whose close callback is due

TypeOK ==
  /\ ProxyTypeOK
  /\ sock \in [Sockets -> {"unused", "connecting", "open", "closing", "failed", "closed"}]
  /\ promise \in [Sockets -> {"none", "pending", "resolved", "rejected"}]
  /\ client \in Client
  /\ page \in [shown: BOOLEAN, isConnected: BOOLEAN]
  /\ sent \in [Sockets -> 0..MaxEvents]

Init ==
  /\ ProxyInit
  /\ sock = [s \in Sockets |-> "unused"]
  /\ promise = [s \in Sockets |-> "none"]
  /\ client = [ws |-> None, isConnected |-> FALSE, sshConnected |-> FALSE,
               settles |-> None, closing |-> None]
  /\ page = [shown |-> TRUE, isConnected |-> FALSE]
  /\ sent = [s \in Sockets |-> 0]

connected == client.isConnected /\ client.sshConnected

Flags(ws, ssh) == [client EXCEPT !.isConnected = ws, !.sshConnected = ssh]

(* resolve or reject: only the first call on a promise counts. *)
Settle(s, outcome) ==
  IF s = None \/ promise[s] # "pending" THEN promise ELSE [promise EXCEPT ![s] = outcome]

Push(s, m) == [up EXCEPT ![s] = Append(@, m)]

----------------------------------------------------------------------------
(* The page *)

(* connect of the page and of the client; only the page's own isConnected   *)
(* is looked at, and an earlier WebSocket is left as it is.                  *)
Connect(s) ==
  /\ page.shown /\ ~page.isConnected
  /\ sock[s] = "unused" /\ s = CHOOSE t \in Sockets : sock[t] = "unused"
  /\ HappensFor(Cardinality({t \in Sockets : sock[t] # "unused"}) + 1)
  /\ sock' = [sock EXCEPT ![s] = "connecting"]
  /\ promise' = [promise EXCEPT ![s] = "pending"]
  /\ client' = [client EXCEPT !.ws = s]
  /\ UNCHANGED <<up, down, proxy, running, page, sent>>

(* disconnect of the client: on a WebSocket that is not open both calls fail. *)
Disconnect ==
  IF sock[client.ws] # "open" THEN UNCHANGED <<up, sock, client>>
  ELSE
    /\ up' = IF client.sshConnected THEN Push(client.ws, [type |-> "disconnect"]) ELSE up
    /\ sock' = [sock EXCEPT ![client.ws] = "closing"]
    /\ client' = [client EXCEPT !.closing = client.ws]

PageDisconnect ==
  /\ page.shown /\ page.isConnected
  /\ Disconnect
  /\ UNCHANGED <<events, down, proxy, running, promise, page, sent>>

AboutToDisappear ==
  /\ page.shown
  /\ page' = [page EXCEPT !.shown = FALSE]
  /\ IF page.isConnected THEN Disconnect ELSE UNCHANGED <<up, sock, client>>
  /\ UNCHANGED <<events, down, proxy, running, promise, sent>>

SendInput ==
  /\ page.shown /\ page.isConnected /\ connected
  /\ sock[client.ws] = "open" /\ Happens
  /\ up' = Push(client.ws, [type |-> "input", n |-> sent[client.ws] + 1])
  /\ sent' = [sent EXCEPT ![client.ws] = @ + 1]
  /\ UNCHANGED <<down, proxy, running, sock, promise, client, page>>

----------------------------------------------------------------------------
(* The events of a WebSocket *)

(* A refusal and a loss may happen at any time; they are due when the proxy *)
(* no longer runs.                                                          *)
Fault == IF running THEN Happens ELSE UNCHANGED events

(* The callback of ws.connect with an error *)
ConnectRefused(s) ==
  /\ Fault
  /\ sock[s] = "connecting"
  /\ sock' = [sock EXCEPT ![s] = "closed"]
  /\ promise' = Settle(s, "rejected")
  /\ UNCHANGED <<up, down, proxy, running, client, page, sent>>

(* 'open' and sendSSHConnect: the request goes out on this.ws, whichever    *)
(* WebSocket has opened.                                                    *)
Open_forgetsReject(s) ==
  /\ running /\ sock[s] = "connecting"
  /\ sock' = [sock EXCEPT ![s] = "open"]
  /\ IF sock'[client.ws] = "open"
     THEN /\ up' = Push(client.ws, [type |-> "connect", of |-> s])
          /\ client' = [client EXCEPT !.isConnected = TRUE]
          /\ UNCHANGED promise
     ELSE /\ client' = [client EXCEPT !.isConnected = TRUE]
          /\ promise' = Settle(s, "rejected")
          /\ UNCHANGED up
  /\ proxy' = [proxy EXCEPT ![s].open = TRUE]
  /\ UNCHANGED <<running, events, down, page, sent>>

Open(s) ==
  /\ running /\ sock[s] = "connecting"
  /\ sock' = [sock EXCEPT ![s] = "open"]
  /\ IF sock'[client.ws] = "open"
     THEN /\ up' = Push(client.ws, [type |-> "connect", of |-> s])
          /\ client' = [client EXCEPT !.isConnected = TRUE, !.settles = s]
          /\ UNCHANGED promise
     ELSE /\ client' = [client EXCEPT !.isConnected = TRUE, !.settles = None]
          /\ promise' = Settle(s, "rejected")
          /\ UNCHANGED up
  /\ proxy' = [proxy EXCEPT ![s].open = TRUE]
  /\ UNCHANGED <<running, events, down, page, sent>>

(* handleMessage *)
HandleConnected ==
  /\ promise' = Settle(client.settles, "resolved")
  /\ client' = [client EXCEPT !.sshConnected = TRUE, !.settles = None]
  /\ page' = [page EXCEPT !.isConnected = TRUE]

HandleError ==
  /\ promise' = Settle(client.settles, "rejected")
  /\ client' = [client EXCEPT !.settles = None]
  /\ UNCHANGED page

HandleClosed ==
  /\ client' = [client EXCEPT !.sshConnected = FALSE]
  /\ page' = [page EXCEPT !.isConnected = FALSE]
  /\ UNCHANGED promise

Message(s) ==
  /\ sock[s] \in {"open", "closing"} /\ down[s] # <<>>
  /\ CASE Head(down[s]) = "connected" -> HandleConnected
       [] Head(down[s]) = "error"     -> HandleError
       [] OTHER                       -> HandleClosed
  /\ down' = [down EXCEPT ![s] = Tail(@)]
  /\ UNCHANGED <<events, up, proxy, running, sock, sent>>

(* 'error': the connection is lost, with what was on the way. *)
Error(s) ==
  /\ Fault
  /\ sock[s] \in {"connecting", "open", "closing"}
  /\ sock' = [sock EXCEPT ![s] = "failed"]
  /\ client' = Flags(FALSE, FALSE)
  /\ up' = [up EXCEPT ![s] = <<>>] /\ down' = [down EXCEPT ![s] = <<>>]
  /\ UNCHANGED <<proxy, running, promise, page, sent>>

(* 'close': after the proxy has closed its side, or after an error. *)
Close(s) ==
  /\ sock[s] = "failed" \/ (sock[s] = "closing" /\ ~proxy[s].open)
  /\ sock' = [sock EXCEPT ![s] = "closed"]
  /\ client' = Flags(FALSE, FALSE)
  /\ page' = [page EXCEPT !.isConnected = FALSE]
  /\ UNCHANGED <<events, up, down, proxy, running, promise, sent>>

(* The callback of ws.close, and the page's then *)
CloseAccepted ==
  /\ client.closing # None
  /\ client' = [Flags(FALSE, FALSE) EXCEPT !.closing = None]
  /\ page' = [page EXCEPT !.isConnected = FALSE]
  /\ UNCHANGED <<events, up, down, proxy, running, sock, promise, sent>>

(* The proxy has read all that was sent before a close, or lost the rest. *)
ProxyCloses(s) ==
  /\ sock[s] \in {"failed", "closed"} \/ (sock[s] = "closing" /\ up[s] = <<>>)
  /\ OnClose(s)
  /\ UNCHANGED <<up, clientVars>>

ProxyStep(s) ==
  /\ OnMessage(s) \/ SshEvent(s)
  /\ UNCHANGED clientVars

Next ==
  \/ PageDisconnect \/ AboutToDisappear \/ SendInput \/ CloseAccepted
  \/ \E s \in Sockets :
       \/ Connect(s) \/ ConnectRefused(s) \/ Open(s) \/ Message(s) \/ Error(s) \/ Close(s)
       \/ ProxyCloses(s) \/ ProxyStep(s)

Spec == Init /\ [][Next]_vars

(* The network delivers, the handlers run, and an SSH server answers when    *)
(* it does not refuse.  The user owes nothing.                              *)
FairSpec ==
  /\ Spec
  /\ \A s \in Sockets :
       /\ WF_vars(Open(s)) /\ WF_vars(Message(s))
       /\ WF_vars(ProxyCloses(s)) /\ WF_vars(OnMessage(s) /\ UNCHANGED clientVars)
       /\ \A k \in 1..Cardinality(Sockets) :
            WF_vars(k \in Clients(s) /\ SshProgress(s, k) /\ UNCHANGED clientVars)

----------------------------------------------------------------------------
(* Properties *)

Lost(s) == sock[s] \in {"closing", "failed", "closed"}

(* What a shell is given is an unbroken run of the inputs of its WebSocket, *)
(* in their order: the inputs that overtake the opening of the shell (the   *)
(* proxy says 'connected' before it) are dropped, but none in the middle.   *)
InputsReachShellInOrder ==
  \A s \in Sockets : \A n \in Streams(s) :
    LET written == proxy[s].streams[n].written IN
      \A j \in 1..(Len(written) - 1) : written[j + 1] = written[j] + 1

(* A connect that no other connect disturbs is settled by the answer of the *)
(* SSH server, unless its WebSocket is lost: then nothing settles it.       *)
ConnectIsSettled ==
  \A s \in Sockets :
    promise[s] = "pending"
      ~> (promise[s] # "pending" \/ Lost(s) \/ \E t \in Sockets \ {s} : sock[t] # "unused")

(* When a WebSocket is closed or lost, the SSH connection the proxy made     *)
(* last for it is ended, whether 'disconnect' reached the proxy or not.      *)
SocketTakesItsSshAlong ==
  \A s \in Sockets :
    Lost(s) ~> (proxy[s].ssh = <<>> \/ proxy[s].ssh[Len(proxy[s].ssh)].state = "closed")
=============================================================================
