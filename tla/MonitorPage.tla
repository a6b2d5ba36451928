---- MODULE MonitorPage ----
(***************************************************************************)
(* The monitor page, Application/entry/src/main/ets/pages/Monitor.ets, and *)
(* the taskpool threads that run its commands, over the session table.     *)
(*                                                                         *)
(* openSession of the native module blocks the JavaScript thread ("ui"),   *)
(* the tasks of a fetch run meanwhile.  What a metric shows is reduced to  *)
(* the host it was measured on; the histories only repeat what was shown.  *)
(***************************************************************************)
EXTENDS Integers, SessionTable

CONSTANTS
  Hosts,      \* the hosts with a saved password
  Metrics,    \* the commands of a fetch: cpu, memory, disk
  Fetches     \* bound on the fetches under way

ASSUME MonitorAssumption ==
  /\ Callers = Fetches \X Metrics
  /\ None \notin Ids \cup Hosts
  /\ {"empty", "waiting", "running"} \cap Hosts = {}

VARIABLES
  stage,      \* "shown", or "gone" after aboutToDisappear
  ui,         \* "opening": the JavaScript thread is inside the native openSession
  selected,   \* selectedHost
  sessionId,  \* None: -1
  refreshTimer, \* None: -1; a timer is named by the session whose open set it
  timers,     \* the timers that run
  fetch,      \* the calls of fetchMetrics at their await
  shown,      \* of every metric the host it is shown of, "empty" for '--'
  isLoading,
  hostOf      \* the host of a session

vars == <<status, user, stage, ui, selected, sessionId, refreshTimer, timers, fetch,
          shown, isLoading, hostOf>>

Output == Hosts \cup {"empty"}

(* A task waits for a thread and for session_mutex, runs, has an output.   *)
Fetch == [sid: Ids, opens: BOOLEAN, out: [Metrics -> Output \cup {"waiting", "running"}]]

TypeOK ==
  /\ stage \in {"shown", "gone"} /\ ui \in {"idle", "opening"}
  /\ selected \in Hosts \cup {None} /\ sessionId \in Ids \cup {None}
  /\ refreshTimer \in Ids \cup {None} /\ timers \subseteq Ids
  /\ fetch \in [Fetches -> Fetch \cup {None}]
  /\ shown \in [Metrics -> Output]
  /\ isLoading \in BOOLEAN
  /\ hostOf \in [Ids -> Hosts \cup {None}]
  /\ status \in [Ids -> {"fresh", "open", "closed"}]
  /\ user \in (Callers \X Ids) \cup {None}

Init ==
  /\ TableInit
  /\ stage = "shown" /\ ui = "idle"
  /\ selected = None /\ sessionId = None
  /\ refreshTimer = None /\ timers = {}
  /\ fetch = [f \in Fetches |-> None]
  /\ shown = [m \in Metrics |-> "empty"]
  /\ isLoading = FALSE
  /\ hostOf = [i \in Ids |-> None]

----------------------------------------------------------------------------

ClearTimer == refreshTimer' = None /\ timers' = timers \ {refreshTimer}

CloseSession == IF sessionId # None THEN Close(sessionId) ELSE UNCHANGED <<status, user>>

CleanupSession_keepsSession == ClearTimer /\ sessionId' = None /\ UNCHANGED <<status, user>>

CleanupSession_keepsId == ClearTimer /\ CloseSession /\ UNCHANGED sessionId

CleanupSession == ClearTimer /\ CloseSession /\ sessionId' = None

(* refreshHosts when the page appears, or the host picker: handleHostSelect *)
(* and openSession up to the native call.                                   *)
SelectHost(h) ==
  /\ stage = "shown" /\ ui = "idle"
  /\ selected' = h
  /\ isLoading' = TRUE
  /\ CleanupSession
  /\ ui' = "opening"
  /\ UNCHANGED <<stage, fetch, shown, hostOf>>

(* fetchMetrics up to its await *)
StartFetch(i, opens) ==
  /\ isLoading' = TRUE
  /\ \E f \in Fetches :
       /\ fetch[f] = None
       /\ fetch' = [fetch EXCEPT ![f] =
            [sid |-> i, opens |-> opens, out |-> [m \in Metrics |-> "waiting"]]]

SessionOpened(i) ==
  /\ Open(i)
  /\ sessionId' = i
  /\ hostOf' = [hostOf EXCEPT ![i] = selected]
  /\ StartFetch(i, TRUE)

OpenFails_withoutFinally == UNCHANGED <<status, user, sessionId, hostOf, fetch, isLoading>>

OpenFails == isLoading' = FALSE /\ UNCHANGED <<status, user, sessionId, hostOf, fetch>>

(* The native openSession returns, needing session_mutex to register.      *)
OpenReturns ==
  /\ ui = "opening"
  /\ ui' = "idle"
  /\ (user = None /\ \E i \in Ids : SessionOpened(i)) \/ OpenFails
  /\ UNCHANGED <<stage, selected, refreshTimer, timers, shown>>

FetchMetrics ==
  /\ ui = "idle" /\ sessionId # None
  /\ StartFetch(sessionId, FALSE)
  /\ UNCHANGED <<status, user, stage, ui, selected, sessionId, refreshTimer, timers, shown, hostOf>>

TimerFires == timers # {} /\ FetchMetrics

(* The button is disabled while the page is loading.                       *)
Refresh == stage = "shown" /\ selected # None /\ ~isLoading /\ FetchMetrics

(* runMonitorCommand on a taskpool thread: executeCommand holds            *)
(* session_mutex while it runs; an error, or an id that is not in the      *)
(* table, gives ''.                                                        *)
SetOutput(f, m, value) ==
  /\ fetch' = [fetch EXCEPT ![f].out[m] = value]
  /\ UNCHANGED <<stage, ui, selected, sessionId, refreshTimer, timers, shown, isLoading, hostOf>>

TaskBegins(f, m) ==
  /\ fetch[f] # None /\ fetch[f].out[m] = "waiting"
  /\ user = None
  /\ IF status[fetch[f].sid] = "open"
     THEN Acquire(<<f, m>>, fetch[f].sid) /\ SetOutput(f, m, "running")
     ELSE SetOutput(f, m, "empty") /\ UNCHANGED <<status, user>>

TaskEnds(f, m) ==
  /\ fetch[f] # None /\ fetch[f].out[m] = "running"
  /\ Release
  /\ \E value \in {hostOf[fetch[f].sid], "empty"} : SetOutput(f, m, value)

(* fetchMetrics after its await; if openSession awaits it, that goes on to  *)
(* set the refresh timer.                                                   *)
Settled_first(r) == \E m \in Metrics : r.out[m] \in Output

Settled(r) == \A m \in Metrics : r.out[m] \in Output

FetchResumes(f) ==
  /\ ui = "idle"
  /\ fetch[f] # None /\ Settled(fetch[f])
  /\ shown' = fetch[f].out
  /\ isLoading' = FALSE
  /\ fetch' = [fetch EXCEPT ![f] = None]
  /\ IF fetch[f].opens
     THEN timers' = timers \cup {fetch[f].sid} /\ refreshTimer' = fetch[f].sid
     ELSE UNCHANGED <<timers, refreshTimer>>
  /\ UNCHANGED <<status, user, stage, ui, selected, sessionId, hostOf>>

AboutToDisappear ==
  /\ stage = "shown" /\ ui = "idle"
  /\ stage' = "gone"
  /\ CleanupSession
  /\ UNCHANGED <<ui, selected, fetch, shown, isLoading, hostOf>>

Task(f, m) == TaskBegins(f, m) \/ TaskEnds(f, m)

Next ==
  \/ \E h \in Hosts : SelectHost(h)
  \/ OpenReturns \/ TimerFires \/ Refresh \/ AboutToDisappear
  \/ \E f \in Fetches : FetchResumes(f)
  \/ \E f \in Fetches, m \in Metrics : TaskBegins(f, m) \/ TaskEnds(f, m)

Spec == Init /\ [][Next]_vars

(* The native open and a command on a session in blocking mode end by their *)
(* time-outs, and the runtime resumes a function whose promises are settled. *)
FairSpec ==
  /\ Spec
  /\ WF_vars(OpenReturns)
  /\ \A f \in Fetches : WF_vars(FetchResumes(f)) /\ \A m \in Metrics : SF_vars(Task(f, m))

----------------------------------------------------------------------------
(* Properties *)

(* The one open session of the page is the one it refers to: neither        *)
(* choosing hosts in a row nor leaving during a fetch leaves another open,  *)
(* and the page never works with a closed one.                              *)
OpenSessionIsCurrent ==
  \A i \in Ids : status[i] = "open" <=> sessionId = i

(* A refresh timer that a late openSession sets on a page that has gone is  *)
(* never cleared, but no fetch starts from it.                              *)
GonePageStartsNothing ==
  [][stage = "gone" => \A f \in Fetches : fetch[f] = None => fetch'[f] = None]_vars

(* The refresh button, disabled while loading, is enabled again.            *)
LoadingEnds == isLoading ~> ~isLoading

(* Monitor.ets:416: choose a host to see its processor, memory and disk.    *)
(* New numbers are those of the chosen host.                                *)
NewMetricsAreOfSelectedHost ==
  [][\A m \in Metrics : shown'[m] # shown[m] => shown'[m] \in {selected', "empty"}]_vars
====
