# KESSH: models, checks and proofs

KESSH is an SSH client for HarmonyOS. This directory holds TLA+ models of its
own code, the TLC configurations that check them on small instances and the
theorems TLAPS proves about them for all instances. `PROJECT.json` lists the
runs, the mutants that show each property can fail, the source lines every
definition models, the hazards and the findings.

Paths below are relative to `src/`; `ets/` stands for
`Application/entry/src/main/ets/` and `kessh.cpp` for
`Application/entry/src/main/cpp/kessh.cpp`.

## 1. Inventory

| component | state it keeps | operations | talks to |
|---|---|---|---|
| native session module, `kessh.cpp` | `sessions`, `next_session_id`, `session_mutex`, `libssh2_initialized`, the keepalive configuration; per session a libssh2 session, its shell channel and a socket | openSession(Async), closeSession, sendKeepalive, setKeepaliveConfig, read, write, executeCommand, downloadFile, uploadFile, pingHost, testPort | libssh2, sockets; called by the UI thread, taskpool threads, async-work threads |
| `SSHEngine.ets` | none | wraps each native call, turns exceptions into -1, `''`, `false` or a rethrow | the native module |
| Terminal page | session id, open token, poll token and timer, keepalive timer and failures, disposed | open, poll, keepalive tick, run, leave | SSHEngine, ConnectionStore, SettingsStore |
| SFTP page | session id, connect token, connecting, path, files, keepalive timer and failures | connect, list, navigate, keepalive tick, leave | the same |
| Monitor page | session id, refresh timer, host, metrics and histories | choose host, refresh, leave | SSHEngine through taskpool |
| SCP page | session id, path, selection | connect, navigate, upload, download, leave | SSHEngine, files |
| WebSocket SSH client, `ets/common/WebSocketSSHClient.ets` | socket, isConnected, sshConnected, the pending promise | connect, sendInput, disconnect, handlers | the proxy `tests/websocket_ssh_server.js` |
| WebSocket client | socket, isConnected | connect, send, close | `tests/websocket_server.js` |
| Stores, `ets/common/Stores.ets` | connections, saved passwords, the draft, settings, snippets, keys | add, edit, remove, save password, parse and validate | Preferences |
| AccountManager, GuideManager | account, login state; guide step | login, silentLogin, logout; next, skip | account kit, Preferences |
| Lynx host bridge, `ets/kessh/KesshHost.ets` | none of its own | the same operations as async methods | SSHEngine, Stores |
| Lynx pages, `lynx-app/src/` | React state and refs: session, tokens, timers | as the ArkTS pages | KesshHost |
| tools, cloud pages, themes | almost none | probes, calculations, calls of a service | - |

Vendored code (libssh2, mbedTLS, wolfSSL) is not modelled for its own sake; what
`kessh.cpp` can tell apart of libssh2 is.

### What is hard

* **Native module.** Three kinds of thread meet in one table. A transfer keeps a
  pointer to its session over seconds while other threads close sessions. An
  open runs outside the mutex, fails in seven places with different handles to
  release, and hands its result over through a promise that is resolved later.
  `read` switches the *whole* libssh2 session to non-blocking mode for good,
  which changes what every later call on it does.
* **Pages.** Each page awaits an open and must notice, when it goes on, that it
  has been left or that the user chose something else. Poll, refresh and
  keepalive timers race closing.
* **WebSocket.** Client and proxy exchange messages over two queues; either side
  may close at any time; 'connected' is announced before the shell exists.
* **Lynx pages.** The same pages over an asynchronous bridge: every call of the
  native module is a gap in which the page can change.

### What correct means, per component

* native module: a handle has one owner and is given back on every path; an id
  is never reused; nobody deletes a session under a transfer; no session is out
  of reach of `closeSession`; a transfer ends; an upload hands over exactly its
  content; a failed keepalive is not followed by a success.
* pages: when a page has gone and its opens have ended, no session it opened is
  open and none of its timers runs; what it shows belongs to the chosen host; a
  dead connection is closed after the configured number of keepalives.
* WebSocket SSH: the promise of `connect` is settled; flags describe the current
  socket; every SSH connection the proxy opened is ended when its socket closes.
* stores: a password is only used for the host it was saved for.
* pure algorithms: what is decoded is what was encoded; subnets divide the
  addresses.

## 2. Plan

The order is that of importance: the native module first, because everything
else relies on its table, then the pages that hold sessions, then the rest.

| step | modules | state |
|---|---|---|
| 1 | `KesshNative` with the abstract `SessionTable` | done; types, the table, the refinement, the handles and keepalive are proved |
| 2 | `TerminalPage` over `SshService`, which adds keepalives and servers to the actions of `SessionTable` | done; its safety properties are proved |
| 3 | `MonitorPage` with its taskpool tasks, `SftpPage` with its paths | done; their safety properties are proved, what a path is included |
| 4 | the Lynx pages `LynxSftp`, `LynxMonitor`, `LynxScp` over `LynxBridge`, composed in `LynxPages` | done; their safety properties are proved |
| 5 | `WsSsh` over `WsProxy`: client, proxy and two queues | done; types and the order of inputs are proved |
| 6 | `ConnectionStore`: hosts, passwords and the pages that use them | done; its properties are proved |
| 7 | `Base64`, and `Subnet` with the pages `SubnetCalc` over it, run by `Calculations` | done, compared with a reference over bounded inputs, and proved for every input |

Every safety and action property the runs check is a theorem now; what only TLC
checks is liveness. What would come next are the smaller stores. The WebSocket
client, account and guide, and the SCP page of ArkTS were planned and given up;
section 7 says why.

## 3. Modules

**`KesshNative`** models `kessh.cpp`. Threads are the UI thread, `Tasks`
(taskpool threads, which only run `executeCommand`) and `Jobs` (one per async
open). `pc[t]` is the place of a thread:

* an open goes through `connect, init, create, handshake, auth, channel, pty,
  shell, register`, one action per step of `open_session_internal`, each with its
  failure exit; `sock[t]` and `own[t]` are its local `sock` and `session`.
* a call on a session waits in a phase named after it until `session_mutex` is
  free. Close, keepalive, read and write are then one action, because they hold
  the mutex from the look-up to the return; a transfer takes `mutex` and goes
  through `open, start, body, finish, report`, one action per libssh2 call or turn
  of its loop. What an upload hands to its channel is `taken`; the remote file is
  any prefix of that when the channel has been closed, since `kessh.cpp:929` looks
  at no result and nobody asks for the exit status of `cat >`.
* an async open is queued, run by its job, and completed on the UI thread, which
  has to be idle for that.

The UI thread is in one phase at a time, which is what makes JavaScript single
threaded in the model. `known` is the set of ids JavaScript has been given;
it never forgets one, so late calls with stale ids are always possible.

A libssh2 session is a record: whether it is allocated, in blocking mode, has
channels, has a keepalive interval, and whether its server answers, is silent or
has closed (`PeerChange` moves between these at any time). From these follow the
outcomes of a call (`Answers`): in blocking mode a silent server ends in
`LIBSSH2_ERROR_TIMEOUT` after the 5 s of `libssh2_session_set_timeout`, in
non-blocking mode in `LIBSSH2_ERROR_EAGAIN` at once. `libssh2_session_free` may
return EAGAIN with the object intact if a channel has to be closed with a
server that does not answer, or in non-blocking mode; `kessh.cpp` then forgets
the object (`"leaked"`).

Left out: the bytes of output and commands, logging, argument parsing, host
name resolution and the addresses tried in turn (one action that yields a
socket or fails), the second (`exec`) channel of a transfer as an object. The
shell quoting error of a path ends a transfer like a failed channel open.

**`SessionTable`** is what the rest of the app relies on: an id is opened once
and closed once, one transfer at a time runs on an open session, nothing is
closed meanwhile.

**`MCKesshNative`** adds the symmetry of `Jobs`, `Tasks`, `Socks` and `Libs`.
No action, property or fairness condition of the run that uses it names a
particular element of these sets, and the properties of that run are safety.

**`SshService`** extends `SessionTable` by what a page can notice of a server:
it goes away, and keepalives of its session fail. A failed keepalive is final,
which is what `KeepaliveFailureIsFinal` shows of the native module.

**`TerminalPage`** models `Terminal.ets`. A page is a record of the fields of
the struct, and its methods are operators on that record (`StopPolling` is
`stopPolling` and so on); an action is one run of the JavaScript thread: a
handler, a timer callback, or `openDraft` after its `await`. What the runtime
holds for a page is in the record too: the open it awaits (`awaits`, `sid`), the
poll timers that are set (`polls`, named by the token they were scheduled with)
and whether the keepalive interval runs. The settings bound the keepalive
attempts to 1..10 (`Clamp`); the interval is always positive. They cannot change
while a terminal is shown, since no way leads from it to the settings. The lines
shown, the command typed and the kind of an invalid draft are left out.

**`MonitorPage`** models `Monitor.ets` with the taskpool threads. The native
`openSession` blocks the JavaScript thread (`ui = "opening"`) while tasks go on; a
fetch is one call of `fetchMetrics` at its `await`, with the state of each task;
a task takes the session table's `user` while its command runs, and closing has
to wait for it, as `session_mutex` makes it. A metric is reduced to the host it
was measured on.

**`SftpPage`** models `SFTPPage.ets` the way `TerminalPage` models the
terminal: `connect` is one action up to its await and one after it, with its
token, so that several connects of one page can be under way. The list on the
screen is reduced to where it came from: a session and a path. The path is the
string the page keeps. `chosen` is a history variable, the names the user has
gone down through, which the path is compared with. **`SftpPaths`** has the three
string operations of the page: cutting a name out of a line of `ls -la`, going
down, going up. A string is a sequence over `Chars`; the assumption on `DirNames`
says which names a line of `ls -la` gives back: not empty, without a slash, and
without a leading blank or two blanks in a row. The page splits a line at any
white space (`/\s+/`); the names of the model have no other than blanks. **`MCSftpPage`** gives two names.

**`WsProxy`** models `tests/websocket_ssh_server.js`: per WebSocket the two
queues, and the closure with the SSH clients and the shell streams made so far, of
which `sshClient` and `sshStream` name one or none. A stream knows the client it
belongs to. `SshReady` is the 'ready' handler of one client, which asks for a shell
of the client that `sshClient` names by then (line 34, `AskShell`): after a second
connect that is another client, and it gets two shells. If it is null or not
connected the call throws (`ShellThrows`); ssh2 runs handlers inside its parser,
where some versions catch an exception and report it as an error of the client
that got ready, and in others nothing does. The model has both: an 'error', or the
end of the process (`running`), with all WebSockets, clients and shells it held.
**`WsSsh`** adds `WebSocketSSHClient.ets` and its
page: one set of flags and one pending `settles` for all the WebSockets the
client ever created, because their handlers stay registered. A WebSocket that
is lost loses what is on the way; one that is closed delivers it first. The
network and the SSH server may fail at every step.

**`LynxBridge`** is what a page of `lynx-app/` meets of `KesshHost.ets`: the
short calls in `asked`, answered in the order they were made, and the opens in
`opening`, which take any time. That order is an assumption. The host's
methods are written `async`, but of those modelled only `openSession` awaits
anything slow; the bridge that carries calls and answers is not in this
repository, and is taken to keep their order. **`LynxSftp`**, **`LynxMonitor`**
and **`LynxScp`** are pages over it, written alike: an action runs from a tap
or an answer to the next await. `then` in a call names what follows the await in
its caller. A command on a session that has gone fails in `kessh.cpp`, but
`SSHEngine` catches that, so that the page shows an empty list for its path.
**`LynxPages`** composes them: the page on the screen is chosen in
the beginning, and properties and fairness are stated once for the three.

**`ConnectionStore`** models the records and saved passwords of `Stores.ets`
with the pages on the router's stack that pass them on: `LynxHostPage`, which the
app starts with, `Index`, the host list, the form, the SFTP page and the terminal.
`Index` stands for its three tabs: `HistoryPage` with copies of the three newest
records, `SSHNewPage`, and `SettingsPage`, from which `LynxHostPage` and then
another `Index` can be put on top. A page keeps its copies of the records while it
is below others, because `aboutToAppear` does not run again on `back`. A target
stands for host, port and user, and a password for the target it was typed for.

**`Words`** has the 32-bit integers of JavaScript's bit operators: a word is the set
of the places of its ones, so that `&` and `|` are intersection and union, a shift
takes its count modulo 32, and -1 is the set of all places. **`Base64`** has `btoa`
and `atob` of the WebSocket client next to RFC 4648, bit by bit. A byte is the set of
its ones, and so is a character, whose value is its place in the alphabet; `=` is 64.
The loop of either becomes a comprehension over its groups, since a group depends on
nothing the ones before it leave but the index. **`Subnet`** has both subnet calculators,
**`SubnetCalc`** is a page with its fields, its button and its result.
**`Calculations`** runs all of it with inputs.

## 4. Runs

| run | cfg | distinct states | shows |
|---|---|---|---|
| `native_sessions` | `KesshNative.cfg` | 1,461,930 | types; handles owned once and given back; a transfer keeps its session; no session is unreachable; ids are not reused; a failed keepalive is final; the refinement to `SessionTable` |
| `native_transfers` | `KesshTransfer.cfg` | 5,678 | an upload that ends normally handed exactly its content to the channel; a transfer on a blocking session ends |
| `terminal_pages` | `TerminalPage.cfg` | 3,624 | an open session has exactly one page; timers are set exactly while a page has a session; keepalive closes dead sessions and no others |
| `monitor_page` | `MonitorPage.cfg` | 50,113 | the open session is the current one; a page that has gone starts no command; loading ends |
| `sftp_page` | `SftpPage.cfg` | 5,116 | an open session is the page's or a pending connect's, and of one of them; the screen shows that session; the path is the directory chosen; connecting ends; a dead session is closed |
| `ws_ssh` | `WsSsh.cfg` | 226,177 | a shell gets an unbroken run of the inputs, in order; an undisturbed connect is settled; a WebSocket that ends takes its last SSH connection along |
| `lynx_pages` | `LynxPages.cfg` | 56,491 | files follow the path; no session is out of reach (see section 6 for the third tap); leaving closes what was opened or is being opened; connecting ends |
| `connection_store` | `ConnectionStore.cfg` | 3,421,550 | a saved password is that of its record's target; a password goes to another target only from a stale copy of a record |
| `calculations` | `Calculations.cfg` | 12,121 | `atob` undoes the standard's encoding; `btoa` has the standard's characters for every bit of the data; subnets divide the addresses |
| `monitor_stale_metrics` | `MonitorStale.cfg` | violation | numbers of the host chosen before are shown under the new one |
| `partial_transfer` | `KesshPartial.cfg` | violation | an error or a time-out in the middle of a file is a successful, partial download, and an upload is reported as done although the remote file lacks a part (TLC stops at the first; either trace is short) |
| `btoa_padding` | `CalculationsBtoa.cfg` | violation | `btoa` of one byte ends in `AA`, not in `==` |

### Bounds

`native_sessions` has the UI thread, one taskpool thread and one async
open, two sockets, two libssh2 sessions and two ids: two opens at once, one
open during calls on another session, calls with a stale id while another
session is open, exhaustion of sockets, of memory and of ids (`MaxId` stops
`RegisterSession`; a real counter would overflow after 2^31 opens). A second
taskpool thread would only repeat what the first does, the mutex allowing one at
a time. Files have one chunk there; `native_transfers` has three, with one
session and no async open, so that every split of a write and every place of a
failure occurs. `terminal_pages` has two pages, three ids and one or two
keepalive attempts: two opens settle in either order, one page is left while the
other connects, and the count of failures needs more than one. Nothing else
bounds it: a page opens once, so its tokens stay small. `monitor_page` has two
sessions and two fetches of two tasks: a fetch of the old session meets one of
the new, and a fetch is joined from tasks that ended before and after a close;
`Fetches` bounds what the code leaves unbounded (a timer starts fetches whether
or not the last has ended). One host is enough there; `monitor_stale_metrics`
has two.

`sftp_page`: three connects (`MaxConnects`) and three ids, so that a session can
be lost and replaced twice; one or two keepalive attempts; three levels
(`MaxDepth`), which has all the cases of going up: to the root, to the first
level, and further. The names are one letter and one with a dot in front and a
blank inside.

`ws_ssh`: two WebSockets, which is what overlapping connects need, and one
bound, `MaxEvents` = 4, for what happens by itself or by the user: inputs, refusals,
losses, errors, exits of a shell, and connects. The n-th connect counts for n.
So there are runs with three inputs on one connection, with a connect and three
faults, and with two connects and one fault.

`lynx_pages`: three taps (`MaxTaps`), four opens (the monitor opens again after a
close) and three short calls at once (`MaxAsked`), so that two lists can be on the way
while the page is left. Three taps are where the code falls short, which is why
the third one is excluded for the SFTP page in `NoSessionOutOfReach`, and only
there.

`connection_store`: three records (`MaxRecords`) of three targets: a record
changed while another one stays, and a target changed to a third and back. Two
`Index` pages at most are on the stack (`MaxIndexes`): the copies of the lower one
grow old while a record is edited above the upper one, which is made anew with
copies of its own. Above the topmost `Index` the code stacks at most three pages.
With three records `HistoryPage`'s `slice(0, 3)` cuts nothing off; it could only
leave out copies.

`calculations`: up to four bytes from 0, 1, 77, 170, 255, written as the sets of
their ones (one, two, three in the last group, bits set at every place; with 1 and 255 every carry of a shift shows),
and addresses of the octets 0, 129 and 255 with every mask from 0 to 33 bits.

Deadlock is checked except where the system really stops: a page that has been
left (`monitor_page`, `monitor_stale_metrics`, `sftp_page`, `lynx_pages`), a
WebSocket client whose page is left and whose WebSockets are used up (`ws_ssh`),
and a result that is shown (`calculations`).

### Fairness

`native_transfers`: `FairSpec` asks only that a thread inside a transfer keeps
running (`WF_vars(TransferStep(c))`): the operating system schedules it, it holds
the only lock it needs, and every libssh2 call in blocking mode returns within its
time-out. Nothing is assumed of the server. `BlockingTransferEnds` is limited to
sessions in blocking mode because of the code: a non-blocking session with a
silent server makes the loop at `kessh.cpp:737` retry for ever, holding
`session_mutex`.

`terminal_pages` and `sftp_page`: `WF_vars(KeepaliveFails)`: the interval timer
keeps firing, its period is the keepalive interval given to libssh2, so a packet
comes due, and a server that has gone makes it fail. In `sftp_page` also: a native
open ends, by its time-outs, and its promise is settled. In `terminal_pages` the
open owes nothing. The user never does.

`monitor_page`: the native open returns, by its time-outs; a function whose
promises are settled is resumed (weak fairness each); and every task gets
`session_mutex` in the end and finishes its command (strong fairness, as tasks
compete for the mutex; a monitor session is never read from, so it stays in
blocking mode and the command ends by the 5 s time-out).

`ws_ssh`: a WebSocket opens or fails, messages are delivered and handled, the proxy
notices that a WebSocket has ended, an SSH server that is asked answers unless it
refuses, and an SSH connection that was ended closes. Nothing else: neither a
shell nor a connection has to end by itself.

`lynx_pages`: the host answers what it is asked and opens end (weak fairness).

## 5. Proofs

The theorems hold for any sets of threads, sockets, libssh2 sessions, ids, pages,
hosts, fetches, directories and WebSockets and any value of the numeric bounds,
under the assumption each module names:

| assumption | what it says |
|---|---|
| `ConstantsAssumption`, `TerminalAssumption`, `MonitorAssumption`, `StoreAssumption`, `ProxyAssumption`, `SubnetAssumption` | bounds are naturals, kinds of thread are disjoint, `None` and the other marks are not among the values they stand beside |
| `SftpAssumption` | the same, and directory names are those that a line of `ls -la` gives back (section 3) |
| `ClientAssumption` | the same, and there are finitely many WebSockets: a connect counts how many have been created |
| `BridgeAssumption`, `RootAssumption` | the same, one open more than taps (leaving a page takes a token too), and no session id is one of the strings that stand for an open without a result |
| `FieldsAssumption` | octets are 0..255 |
| `InputAssumption` | bytes are bytes; neither which ones nor how many are typed matters to the proofs |

* `KesshNativeProofs`: `TypeCorrect` and `PhaseCorrect`. Types alone are not
  inductive: a negotiation step needs that its thread owns a libssh2 session.
  `PhaseInv` adds, per thread, that the phase decides what it holds: a socket
  from `init` on, a libssh2 session from `handshake` on, `session_mutex` in the
  body of a transfer, and which kind of thread can be in the phase. `OthersFit`
  reduces every step to the thread that takes it; `OpenerFits` and `CallerFits`
  cover the exits of an open and of a call.
  The second part of the module is about the table. `EveryTableStep` classifies all
  steps by what they do to
  the table and the mutex (nothing, add, remove, update, lock, unlock), each
  change of the table being made with the mutex free of any transfer. From it
  follow `TransferHoldsSessionCorrect`, `IdsCorrect` (every id in use is below
  `next_session_id`), `IdsNeverReusedCorrect` and the refinement
  `ImplementsTableCorrect`, one abstract step or a stutter per kind of step.
  `OpenSessionsAreReachableCorrect` follows from `ReachStep`: whatever a step
  does, an id that could be reached can still be reached, and an id that enters
  the table can be reached in the new state.

  Third part: `HandlesOwnedOnceCorrect`, `NoSocketLeakCorrect` and
  `KeepaliveFailureIsFinalCorrect`. File descriptors and libssh2 sessions obey one
  law, `HeldByOne(h, e, S)`: the handles `h` of the opens and `e` of the table's
  entries are pairwise different, and together they are exactly the ones in use,
  `S`. It is shown once to survive each change (an open gains or loses a handle,
  hands it to an entry, an entry loses it), and every action is one of these for
  each of the two kinds. Finality of a failed keepalive rests on it: `DeadInv`
  says that an entry marked as failed has a packet due and a server that has
  closed, and this can only persist because no other entry or open touches its
  libssh2 session.

  Fourth part: `UploadSendsContentCorrect`, from the invariant that during
  an upload what the channel has taken is the prefix of the content whose length is
  the number of chunks written (`Progress`), and that the end is reached only with
  all of them.
* `TerminalProofs`: types, `SessionHasOnePageCorrect`,
  `TimersFollowSessionCorrect`, `OnlyDeadOrLeftIsClosedCorrect`. `TermInv` adds to
  the properties what links them: a page has one thing to hold a session by, its
  stage (`StageOK`: before it is shown it has none, after its open it waits for
  nothing), its timers go with its session (`TimersOK`), and sessions held and
  sessions open are the same, one to one (`HeldOnce`). Without `StageOK` a
  page with a session could receive a second one.
* `SftpProofs`: types, `SessionIsHeldOnceCorrect`, `ScreenShowsSessionCorrect`,
  `PathNamesDirectoryCorrect`. Needed beyond the first two: a token that the page
  has not reached has no connect, and while the connect of the current token is
  under way the page holds no session (`TokensOK`). That the path is
  `PathOf(chosen)` while connected is kept because of three facts about strings:
  a name comes out of `ParsedName` as it is (`ParsedNameIsName`), and going down
  and up are adding a name and dropping the last one (`DownNames`, `UpNames`; the
  last slash is found because no name has one). They rest on what `FlattenSeq`, a
  recursive definition, returns for a sequence that grows at its end. Instead of an induction
  theorem, whose operator parameter no prover here takes, those lemmas assume a
  length at which they fail and look at the least (`LeastNat`).
* `MonitorProofs`: types, `OpenSessionIsCurrentCorrect`,
  `GonePageStartsNothingCorrect`. `StagesFit` says that the native open starts
  with no session and that a page that has gone has neither; `HostsKnown` is what
  makes the outputs typed.
* `ConnectionStoreProofs`: types, `SavedPasswordFitsRecordCorrect`,
  `OnlyStaleCopyMisdirectsCorrect`. `StoreInv` has three parts besides: below an
  `Index` there are only such pages and `LynxHostPage`, so that no form is open below
  the settings (`StackShape`); nothing is saved under an id no record has
  (`UnusedIdsHaveNone`); and a form for a known record is open only while nothing
  is saved for it or the setting to save is on (`FormsMaySave`). The last is the
  heart of it: it is why a form cannot give a record a new target and leave the
  old password, and it holds because the setting is out of reach while a form
  is open.

* `WsSshProofs`: types, `InputsReachShellInOrderCorrect`. What a shell was given is
  an unbroken run only because of what is still in the queue. `Ordered(s)` says of
  every WebSocket: what each of its shells was given is an unbroken run, and while it
  is not lost there is an `f` such that the inputs from `f` to the last one sent are
  in the queue in their order, and the shell the proxy writes to was last given
  `f - 1`, if anything. Which client a shell belongs to does not matter to this;
  that `sshStream` only ever moves to a shell that has been given nothing does. Handling an input moves `f` by one, whether or not there is a
  shell to write it to; a shell that opens later starts after the inputs that were
  dropped. A WebSocket that is lost has an empty queue or a proxy that has noticed.
* `LynxProofs`: types, `FilesFollowPathCorrect`, `NoSessionOutOfReachCorrect`. Each page
  has its own invariant; `Inv` is their disjunction.
  - All three: the calls under way are calls the pages make (`BridgeInv`), an open is
    made once and its outcome takes no other's place (`OpensDistinct`), and a session
    that is open is with the page, in `opening`, or in a request to close it
    (`Reached`). A step answers at most the oldest call and adds at most one
    (`Moves`), so that each part is shown to survive such a step once, and every action
    is an instance.
  - Tokens: the token plus the password look-ups still in the queue is at most the number
    of taps, and one more once the page is left (`TokensFit`), by counting positions in
    the queue (`ShiftedCount`, the pigeonhole principle). Without it a token
    could pass `MaxOpens`, and opens could share a number.
  - SFTP page: the last list asked for is of the page's session and path
    (`FilesAreComing`), and a list of the page's session comes before any request to
    close it (`ListsAreAnswered`), since the session a page still uses is not asked to be
    closed (`SftpSessions`, `SessionsOpened`). For the second tap: until the first open is
    made only passwords are looked up (`FirstOpen`), and every look-up is
    answered before the newest open is made, so that its answer finds no session on the
    page (`NewestOpen`). With a third tap that fails, as section 6 says.
  - Monitor: hosts can be tapped only before the first open is made (`MonitorOpens`), which
    gives the same for any number of taps.
  - SCP page: the page takes no session at all, because `disposedRef` is set before
    anything can be asked (`ScpInv`). This proves of the model that the page never
    connects (section 6).
* `CalculationsProofs`: `AtobCorrect` and `BtoaCorrect`, for data of every length, and
  `SubnetsPartitionCorrect`, for every address of octets and every mask both pages can
  be given. No induction over data is needed.
  - Subnets: the least and the highest bit in a set are found from what is known of
    finite sets; adding one to a word then sets its lowest zero and clears the ones below.
  - Base64: bit `23 - k` of the number made of three bytes is bit `k` of the data
    (`BitOfGroup`), for `btoa`'s number by `BitmapBits`. So its four fields are the
    standard's four characters (`EncodedGroup`, `BtoaGroupIs`), and the number `atob`
    joins from those has the three bytes as its fields (`BitmapBack`). How long data,
    encoding and last group are is settled by writing the length as `3q + r`
    (`Lengths`, `UnpaddedIs`, `GroupReaches`). What `btoa` gives is the
    standard's encoding of the data with zeros behind it, and that has the same
    characters as far as the bits of the data reach (`PaddedAlike`).
  - `btoa` and `atob` put the pieces of the groups together with `FlattenSeq`, which is
    recursive. `PiecesFlatten`: the pieces a sequence is cut into flatten to that
    sequence, because there is no first piece after which it fails.

Only model-checked:

* liveness (`BlockingTransferEnds`, `DeadSessionIsClosed` of both pages,
  `LoadingEnds`, `ConnectingEnds` of both SFTP pages, `ConnectIsSettled`,
  `SocketTakesItsSshAlong`, `UnmountCloses`), which the prover does not cover.

## 6. Findings

Three statements of the program about itself are violated, each by a run of its
own:

* `downloadFile` returns a part of the file as the file when the read loop ends
  with an error or with the 5 s time-out. `uploadFile`, which is to write the remote
  file (`kessh.cpp:854`), looks neither at the results of `send_eof` and `close` nor
  at the exit status of `cat >`: an upload to a path that cannot be written, or cut
  off after the last accepted write, is reported as done (`TransferIsWhole`). What
  the code does keep is that the channel was handed exactly the content
  (`UploadSendsContent`).
* `btoa` of the WebSocket client, called 'Base64 encode' and 'Simple btoa
  implementation' (lines 318 and 369), never writes `=`, although it has branches for
  it: the tests on lines 386 and 387 compare `i`, which has not moved past the end.
  Characters `A` are written instead, and the proxy decodes zero bytes behind what
  was typed (`BtoaEncodes`). All characters that carry data are right
  (`BtoaCarriesData`).
* `Monitor.ets`: `fetchMetrics` does not look, after its `await`, whether the
  host is still the chosen one. The same place leaves a refresh timer behind when
  the page is left or another host is chosen during the first fetch;
  `GonePageStartsNothing` shows it does nothing after leaving, but after a change
  of host both timers fetch.

### Where the code falls short

Met while modelling. Here no run is stated to fail: most of it contradicts no line
of the repository. Two places do. The field for the mask of the subnet calculator
says "(0-32)" (`ets/pages/tools/SubnetCalc.ets:185`), but 0 is not calculated; and
`closeSession` logs 'closed successfully' (`kessh.cpp:491`) of a session it may not
have freed. The properties say how far the code keeps its word.

| place | what happens | where it shows |
|---|---|---|
| `kessh.cpp:483` | `closeSession` ignores EAGAIN of `libssh2_channel_free` and `libssh2_session_free`. After `read` (every terminal polls) the session is non-blocking, and its memory is lost on close. | `"leaked"` in `KesshNative`; `NoSocketLeak` holds of file descriptors, and no property asks it of libssh2 sessions |
| `ets/common/WebSocketSSHClient.ets:143` | Two connects overlap (the page looks only at its own `isConnected`, set by 'connected'): `this.ws` is the second socket by the time the first opens, and both requests go out on one socket. The proxy makes two SSH clients and forgets the first, which nothing ends. | `SocketTakesItsSshAlong` speaks of the last SSH client only |
| the same, line 101 | An 'error' or 'close' of the WebSocket before 'connected' leaves the promise of `connect` pending for ever. | the exception `Lost(s)` of `ConnectIsSettled` |
| the same, line 166 | `sshConnected` and `isConnected` are those of any socket: 'connected' of an old one makes the getter true for a new one that is still opening. | `connected` in `WsSsh`; `SendInput` checks the socket |
| `tests/websocket_ssh_server.js:31` | 'connected' is sent before the shell is open; inputs that arrive meanwhile are dropped. | `InputsReachShellInOrder` asks for an unbroken run, not for all |
| the same, line 34 | The shell is asked of the client `sshClient` names when a client gets ready. With two connects on one WebSocket one client can get two shells and the other none; after 'disconnect' `null.shell` throws, which may end the process for every client of the proxy. | `AskShell` and `ShellThrows` in `WsProxy` |
| `ets/pages/SFTPPage.ets:166` | Runs of blanks in a file name become one, so such a directory cannot be entered. | `ParsedName`; the names of the run have none |
| `lynx-app/src/pages/SFTPPage.tsx:113` | The `finally` of an outdated connect ends the waiting of the newer one. With a third tap two connects can both be accepted, and the first session is lost without being closed. | `NoSessionOutOfReach` is limited to two taps on this page |
| `lynx-app/src/pages/MonitorPage.tsx:109` | The interval is set after the first metrics without looking whether the page has been left: nothing clears it, and it asks for metrics of a closed session every five seconds. | `Tick` with `timer` in `LynxMonitor` |
| `lynx-app/src/pages/SCPPage.tsx:64` | The cleanup of the effect runs when the hosts arrive and sets `disposedRef`, which nothing resets: every connect after it closes its own session, and the page never connects. | `LynxScp`: only the branch that closes is ever taken |
| `lynx-app/src/pages/TerminalPage.tsx:43` | The terminal opens with host `''` and port 0; the host looks up only the password by `editingId` (`ets/kessh/KesshHost.ets:225`), so no open succeeds. | not modelled for that reason |
| `ets/pages/HostList.ets:40`, `ets/pages/HistoryPage.ets:52`, `ets/pages/SFTPPage.ets:33` | The copies of a page under a form are not refreshed on `back`: a record changed meanwhile is connected with its old host and its new password. The history tab takes its copies when an `Index` is made, which with records in the store is the second one, by way of the settings and `LynxHostPage`. | `OnlyStaleCopyMisdirects` |
| `ets/pages/WebSocketTestPage.ets:78` | Leaving while the socket is opening closes nothing, and the socket stays open. | not modelled (section 7) |
| `ets/common/WebSocketClient.ets:77` | The flag is set by whichever socket connects. | not modelled (section 7) |
| `ets/pages/tools/SubnetCalc.ets:52` | A mask of 0 bits is taken for 24. | `MaskBits` |
| `lynx-app/src/pages/SubnetCalcPage.tsx:26` | A mask of 0 bits shifts by 32, which JavaScript takes for 0: the subnet of one address is shown. | `SubnetsPartition` starts at one bit |
| `ets/pages/tools/SubnetCalc.ets:89` | For 31 and 32 bits the first host lies beyond the last. | the last conjunct of `SubnetsPartition` stops at 30 |

## 7. Not modelled

* `pingHost`, `testPort` and the tools that show their result: nothing is kept
  between calls.
* The SCP page of ArkTS (`ets/pages/SCPPage.ets`) is registered as a route, but no
  page goes there. `ets/pages/Monitor.ets` is reached by no page of the ArkTS user
  interface either; it is modelled because it is the page that keeps a session over calls made by
  taskpool threads. `AccountManager`, `GuideManager` and `SecurityUtils` have no
  caller.
* The WebSocket client is a smaller twin of the WebSocket SSH client, for an
  echo server of the tests; what it shares with it is checked in `ws_ssh`.
* The page that would host the Lynx UI (`ets/pages/LynxHostPage.ets`) shows a placeholder, so that
  the order of calls on the bridge is an assumption (section 3). Two branches of
  the Lynx pages are written for the code's sake but are not reached:
  `pickHost` closing an earlier session, which needs answers out of order, and
  what follows a successful connect in the SCP page, which is why its upload and
  download are not modelled.
* Snippets, keys and logs are lists that grow and shrink by one. Of the settings,
  what the modelled pages read is in them. Validation and parsing of what is typed
  into the form keep nothing.
* The parsing of the outputs in the monitor, the histories, sizes and order
  of files, and all texts.
* Cloud pages and cloud objects are template code around calls of a service.
  Themes, layout and legal pages have no behaviour of their own worth a model.
* libssh2, mbedTLS and wolfSSL are vendored. `KesshNative` models what `kessh.cpp`
  can tell apart of libssh2, translated from `channel.c`, `session.c` and
  `keepalive.c`; their cryptography and protocol code, well over nine tenths of the
  lines of the repository, is another project's and has its own tests. The
  program itself has about 13,000 lines, of which some 2,500 are modelled; most of the
  others describe layout.
