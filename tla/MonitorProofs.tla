------------------------------ MODULE MonitorProofs ------------------------------
(***************************************************************************)
(* The monitor page for any number of hosts, sessions, metrics and fetches *)
(* under way.                                                              *)
(***************************************************************************)
EXTENDS MonitorPage, TLAPS

(* The native open starts with no session, and a page that has gone has none *)
(* and is not inside one.                                                    *)
StagesFit ==
  /\ ui = "opening" => sessionId = None /\ selected \in Hosts
  /\ stage = "gone" => sessionId = None /\ ui = "idle"

(* Whatever a fetch or the page refers to was opened for a host. *)
HostsKnown ==
  /\ sessionId # None => hostOf[sessionId] \in Hosts
  /\ \A f \in Fetches : fetch[f] # None => hostOf[fetch[f].sid] \in Hosts

MonInv == TypeOK /\ OpenSessionIsCurrent /\ StagesFit /\ HostsKnown

LEMMA Facts == None \notin Ids /\ None \notin Hosts /\ Callers = Fetches \X Metrics
BY MonitorAssumption

LEMMA InitEstablishes == Init => MonInv
<1> SUFFICES ASSUME Init PROVE MonInv
  OBVIOUS
<1>1. TypeOK
  BY DEF Init, TableInit, TypeOK, Output
<1>2. OpenSessionIsCurrent /\ StagesFit /\ HostsKnown
  BY Facts DEF Init, TableInit, OpenSessionIsCurrent, StagesFit, HostsKnown
<1> QED BY <1>1, <1>2 DEF MonInv

(* The timer and the session of the page are given up together. *)
LEMMA CleanupLeavesNone ==
  ASSUME TypeOK, OpenSessionIsCurrent, CleanupSession
  PROVE  /\ sessionId' = None /\ refreshTimer' = None /\ timers' \subseteq Ids
         /\ status' \in [Ids -> {"fresh", "open", "closed"}]
         /\ user' \in (Callers \X Ids) \cup {None}
         /\ \A i \in Ids : status'[i] # "open"
<1>1. sessionId' = None /\ refreshTimer' = None /\ timers' \subseteq Ids
  BY DEF CleanupSession, ClearTimer, TypeOK
<1>2. CASE sessionId = None
  <2>1. \A i \in Ids : status[i] # "open"
    BY <1>2, Facts DEF OpenSessionIsCurrent
  <2> QED BY <1>1, <1>2, <2>1 DEF CleanupSession, CloseSession, TypeOK
<1>3. CASE sessionId # None
  <2>1. sessionId \in Ids /\ Close(sessionId)
    BY <1>3 DEF CleanupSession, CloseSession, TypeOK
  <2> QED BY <1>1, <2>1 DEF Close, OpenSessionIsCurrent, TypeOK
<1> QED BY <1>2, <1>3

LEMMA SelectHostKeeps ==
  ASSUME MonInv, NEW h \in Hosts, SelectHost(h) PROVE MonInv'
<1>1. /\ sessionId' = None /\ refreshTimer' = None /\ timers' \subseteq Ids
      /\ status' \in [Ids -> {"fresh", "open", "closed"}]
      /\ user' \in (Callers \X Ids) \cup {None}
      /\ \A i \in Ids : status'[i] # "open"
  BY CleanupLeavesNone DEF MonInv, SelectHost
<1>2. /\ selected' = h /\ isLoading' = TRUE /\ ui' = "opening" /\ stage = "shown"
      /\ UNCHANGED <<stage, fetch, shown, hostOf>>
  BY DEF SelectHost
<1>3. TypeOK'
  BY <1>1, <1>2 DEF MonInv, TypeOK
<1>4. OpenSessionIsCurrent' /\ StagesFit' /\ HostsKnown'
  BY <1>1, <1>2, Facts DEF MonInv, OpenSessionIsCurrent, StagesFit, HostsKnown
<1> QED BY <1>3, <1>4 DEF MonInv

LEMMA AboutToDisappearKeeps ==
  ASSUME MonInv, AboutToDisappear PROVE MonInv'
<1>1. /\ sessionId' = None /\ refreshTimer' = None /\ timers' \subseteq Ids
      /\ status' \in [Ids -> {"fresh", "open", "closed"}]
      /\ user' \in (Callers \X Ids) \cup {None}
      /\ \A i \in Ids : status'[i] # "open"
  BY CleanupLeavesNone DEF MonInv, AboutToDisappear
<1>2. /\ stage' = "gone" /\ ui = "idle"
      /\ UNCHANGED <<ui, selected, fetch, shown, isLoading, hostOf>>
  BY DEF AboutToDisappear
<1>3. TypeOK'
  BY <1>1, <1>2 DEF MonInv, TypeOK
<1>4. OpenSessionIsCurrent' /\ StagesFit' /\ HostsKnown'
  BY <1>1, <1>2, Facts DEF MonInv, OpenSessionIsCurrent, StagesFit, HostsKnown
<1> QED BY <1>3, <1>4 DEF MonInv

LEMMA StartFetchType ==
  ASSUME TypeOK, NEW i \in Ids, NEW opens \in BOOLEAN, StartFetch(i, opens)
  PROVE  /\ isLoading' = TRUE /\ fetch' \in [Fetches -> Fetch \cup {None}]
         /\ \A f \in Fetches : fetch'[f] = fetch[f] \/ fetch'[f].sid = i
<1>1. PICK f \in Fetches :
        fetch' = [fetch EXCEPT ![f] = [sid |-> i, opens |-> opens, out |-> [m \in Metrics |-> "waiting"]]]
  BY DEF StartFetch
<1>2. PICK r : r = [sid |-> i, opens |-> opens, out |-> [m \in Metrics |-> "waiting"]]
  OBVIOUS
<1>3. r \in Fetch /\ r.sid = i
  BY <1>2 DEF Fetch
<1>4. fetch' = [fetch EXCEPT ![f] = r]
  BY <1>1, <1>2
<1> QED BY <1>3, <1>4 DEF StartFetch, TypeOK

LEMMA OpenReturnsKeeps ==
  ASSUME MonInv, OpenReturns PROVE MonInv'
<1>1. /\ ui = "opening" /\ ui' = "idle" /\ sessionId = None /\ selected \in Hosts /\ stage = "shown"
      /\ UNCHANGED <<stage, selected, refreshTimer, timers, shown>>
  BY DEF OpenReturns, MonInv, StagesFit, TypeOK
<1>2. CASE OpenFails
  <2>1. isLoading' = FALSE /\ UNCHANGED <<status, user, sessionId, hostOf, fetch>>
    BY <1>2 DEF OpenFails
  <2>2. TypeOK'
    BY <1>1, <2>1 DEF MonInv, TypeOK
  <2> QED BY <1>1, <2>1, <2>2 DEF MonInv, OpenSessionIsCurrent, StagesFit, HostsKnown
<1>3. CASE \E i \in Ids : SessionOpened(i)
  <2>1. PICK i \in Ids : SessionOpened(i)
    BY <1>3
  <2>2. /\ isLoading' = TRUE /\ fetch' \in [Fetches -> Fetch \cup {None}]
        /\ \A f \in Fetches : fetch'[f] = fetch[f] \/ fetch'[f].sid = i
    BY <2>1, StartFetchType DEF MonInv, SessionOpened
  <2>3. /\ status' \in [Ids -> {"fresh", "open", "closed"}] /\ user' = user /\ sessionId' = i
        /\ status'[i] = "open" /\ \A k \in Ids \ {i} : status'[k] = status[k]
    BY <2>1 DEF SessionOpened, Open, MonInv, TypeOK
  <2>4. /\ hostOf' \in [Ids -> Hosts \cup {None}] /\ hostOf'[i] \in Hosts
        /\ \A k \in Ids : hostOf[k] \in Hosts => hostOf'[k] \in Hosts
    BY <1>1, <2>1 DEF SessionOpened, MonInv, TypeOK
  <2>5. TypeOK'
    BY <1>1, <2>2, <2>3, <2>4 DEF MonInv, TypeOK
  <2>6. OpenSessionIsCurrent'
    BY <1>1, <2>3, Facts DEF MonInv, OpenSessionIsCurrent
  <2>7. StagesFit'
    BY <1>1 DEF StagesFit
  <2>8. \A f \in Fetches : fetch[f] # None => fetch[f].sid \in Ids
    BY DEF MonInv, TypeOK, Fetch
  <2>9. HostsKnown'
    BY <2>2, <2>3, <2>4, <2>8 DEF MonInv, HostsKnown
  <2> QED BY <2>5, <2>6, <2>7, <2>9 DEF MonInv
<1> QED BY <1>2, <1>3 DEF OpenReturns

LEMMA FetchMetricsKeeps ==
  ASSUME MonInv, FetchMetrics PROVE MonInv'
<1>1. /\ sessionId \in Ids /\ StartFetch(sessionId, FALSE)
      /\ UNCHANGED <<status, user, stage, ui, selected, sessionId, refreshTimer, timers, shown, hostOf>>
  BY DEF FetchMetrics, MonInv, TypeOK
<1>2. /\ isLoading' = TRUE /\ fetch' \in [Fetches -> Fetch \cup {None}]
      /\ \A f \in Fetches : fetch'[f] = fetch[f] \/ fetch'[f].sid = sessionId
  BY <1>1, StartFetchType DEF MonInv
<1>3. TypeOK'
  BY <1>1, <1>2 DEF MonInv, TypeOK
<1>4. OpenSessionIsCurrent' /\ StagesFit'
  BY <1>1 DEF MonInv, OpenSessionIsCurrent, StagesFit
<1>5. HostsKnown'
  BY <1>1, <1>2, Facts DEF MonInv, HostsKnown
<1> QED BY <1>3, <1>4, <1>5 DEF MonInv

(* One output of one fetch *)
LEMMA SetOutputKeeps ==
  ASSUME MonInv, NEW f \in Fetches, NEW m \in Metrics, fetch[f] # None,
         NEW value \in Output \cup {"running"}, SetOutput(f, m, value),
         UNCHANGED status, user' \in (Callers \X Ids) \cup {None}
  PROVE  MonInv'
<1>1. fetch[f] \in Fetch
  BY DEF MonInv, TypeOK
<1>2. PICK out \in [Metrics -> Output \cup {"waiting", "running"}] : out = [fetch[f].out EXCEPT ![m] = value]
  BY <1>1 DEF Fetch
<1>3. PICK r : r = [fetch[f] EXCEPT !.out = out]
  OBVIOUS
<1>4. r \in Fetch /\ r.sid = fetch[f].sid
  BY <1>1, <1>3 DEF Fetch
<1>5. fetch' = [fetch EXCEPT ![f] = r]
  BY <1>2, <1>3 DEF SetOutput
<1>6. /\ fetch' \in [Fetches -> Fetch \cup {None}] /\ fetch'[f].sid = fetch[f].sid
      /\ \A k \in Fetches \ {f} : fetch'[k] = fetch[k]
  BY <1>4, <1>5 DEF MonInv, TypeOK
<1>7. UNCHANGED <<stage, ui, selected, sessionId, refreshTimer, timers, shown, isLoading, hostOf>>
  BY DEF SetOutput
<1>8. TypeOK'
  BY <1>6, <1>7 DEF MonInv, TypeOK
<1>9. OpenSessionIsCurrent' /\ StagesFit' /\ HostsKnown'
  BY <1>6, <1>7 DEF MonInv, OpenSessionIsCurrent, StagesFit, HostsKnown
<1> QED BY <1>8, <1>9 DEF MonInv

LEMMA TaskKeeps ==
  ASSUME MonInv, NEW f \in Fetches, NEW m \in Metrics, TaskBegins(f, m) \/ TaskEnds(f, m)
  PROVE  MonInv'
<1>1. fetch[f] # None /\ fetch[f].sid \in Ids
  BY DEF TaskBegins, TaskEnds, MonInv, TypeOK, Fetch
<1>2. CASE TaskBegins(f, m)
  <2>1. CASE status[fetch[f].sid] = "open"
    <3>1. UNCHANGED status /\ user' = <<<<f, m>>, fetch[f].sid>> /\ SetOutput(f, m, "running")
      BY <1>2, <2>1 DEF TaskBegins, Acquire
    <3>2. user' \in (Callers \X Ids) \cup {None}
      BY <1>1, <3>1, Facts
    <3> QED BY <1>1, <3>1, <3>2, SetOutputKeeps
  <2>2. CASE status[fetch[f].sid] # "open"
    <3>1. UNCHANGED <<status, user>> /\ SetOutput(f, m, "empty")
      BY <1>2, <2>2 DEF TaskBegins
    <3> QED BY <1>1, <3>1, SetOutputKeeps DEF Output, MonInv, TypeOK
  <2> QED BY <2>1, <2>2
<1>3. CASE TaskEnds(f, m)
  <2>1. UNCHANGED status /\ user' = None
    BY <1>3 DEF TaskEnds, Release
  <2>2. PICK value \in {hostOf[fetch[f].sid], "empty"} : SetOutput(f, m, value)
    BY <1>3 DEF TaskEnds
  <2>3. value \in Output
    BY <1>1 DEF MonInv, HostsKnown, Output
  <2> QED BY <1>1, <2>1, <2>2, <2>3, SetOutputKeeps
<1> QED BY <1>2, <1>3

LEMMA FetchResumesKeeps ==
  ASSUME MonInv, NEW f \in Fetches, FetchResumes(f) PROVE MonInv'
<1>1. fetch[f] \in Fetch /\ Settled(fetch[f]) /\ shown' = fetch[f].out /\ isLoading' = FALSE
  BY DEF FetchResumes, MonInv, TypeOK
<1>2. shown' \in [Metrics -> Output] /\ fetch[f].sid \in Ids
  BY <1>1 DEF Settled, Fetch
<1>3. /\ fetch' \in [Fetches -> Fetch \cup {None}] /\ fetch'[f] = None
      /\ \A k \in Fetches \ {f} : fetch'[k] = fetch[k]
  BY DEF FetchResumes, MonInv, TypeOK
<1>4. refreshTimer' \in Ids \cup {None} /\ timers' \subseteq Ids
  BY <1>2 DEF FetchResumes, MonInv, TypeOK
<1>5. UNCHANGED <<status, user, stage, ui, selected, sessionId, hostOf>>
  BY DEF FetchResumes
<1>6. TypeOK'
  BY <1>1, <1>2, <1>3, <1>4, <1>5 DEF MonInv, TypeOK
<1>7. OpenSessionIsCurrent' /\ StagesFit' /\ HostsKnown'
  BY <1>3, <1>5 DEF MonInv, OpenSessionIsCurrent, StagesFit, HostsKnown
<1> QED BY <1>6, <1>7 DEF MonInv

LEMMA NextKeeps == MonInv /\ [Next]_vars => MonInv'
<1> SUFFICES ASSUME MonInv, [Next]_vars PROVE MonInv'
  OBVIOUS
<1>1. CASE UNCHANGED vars
  BY <1>1 DEF vars, MonInv, TypeOK, OpenSessionIsCurrent, StagesFit, HostsKnown
<1> QED BY <1>1, SelectHostKeeps, OpenReturnsKeeps, FetchMetricsKeeps, AboutToDisappearKeeps,
           FetchResumesKeeps, TaskKeeps DEF Next, TimerFires, Refresh

----------------------------------------------------------------------------
(* The results *)

(* The invariant of the monitor page. *)
THEOREM MonInvCorrect == Spec => []MonInv
BY InitEstablishes, NextKeeps, PTL DEF Spec

(* Every variable of the page and of the table keeps its type. *)
THEOREM TypeCorrect == Spec => []TypeOK
<1>1. MonInv => TypeOK
  BY DEF MonInv
<1> QED BY <1>1, MonInvCorrect, PTL

(* The one open session is the one the page refers to. *)
THEOREM OpenSessionIsCurrentCorrect == Spec => []OpenSessionIsCurrent
<1>1. MonInv => OpenSessionIsCurrent
  BY DEF MonInv
<1> QED BY <1>1, MonInvCorrect, PTL

(* A page that has gone starts no fetch, whatever timer it left behind. *)
THEOREM GonePageStartsNothingCorrect == Spec => GonePageStartsNothing
<1>1. MonInv /\ [Next]_vars =>
        [stage = "gone" => \A f \in Fetches : fetch[f] = None => fetch'[f] = None]_vars
  <2> SUFFICES ASSUME MonInv, Next, stage = "gone", NEW f \in Fetches, fetch[f] = None
               PROVE  fetch'[f] = None
    OBVIOUS
  <2>1. sessionId = None /\ ui = "idle"
    BY DEF MonInv, StagesFit
  <2>2. CASE UNCHANGED fetch
    BY <2>2
  <2>3. ASSUME NEW k \in Fetches, FetchResumes(k) PROVE fetch'[f] = None
    BY <2>3 DEF FetchResumes, MonInv, TypeOK
  <2>4. ASSUME NEW k \in Fetches, NEW m \in Metrics, TaskBegins(k, m) \/ TaskEnds(k, m)
        PROVE  fetch'[f] = None
    <3>1. k # f /\ \E value : fetch' = [fetch EXCEPT ![k].out[m] = value]
      BY <2>4 DEF TaskBegins, TaskEnds, SetOutput
    <3> QED BY <3>1 DEF MonInv, TypeOK
  <2> QED BY <2>1, <2>2, <2>3, <2>4 DEF Next, SelectHost, OpenReturns, TimerFires, Refresh,
             FetchMetrics, AboutToDisappear
<1> QED BY <1>1, MonInvCorrect, PTL DEF Spec, GonePageStartsNothing
==================================================================================
