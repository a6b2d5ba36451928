----------------------------- MODULE LynxProofs -----------------------------
(***************************************************************************)
(* The pages of the Lynx UI, for any number of sessions, of opens, of taps *)
(* on a host and of calls under way.                                       *)
(***************************************************************************)
EXTENDS LynxPages, FiniteSetTheorems, TLAPS

----------------------------------------------------------------------------
(* The invariants *)

(* The calls of the three pages *)
Calls ==
  [method: {"hasPassword"}] \cup [method: {"openSession"}, open: Opens]
    \cup [method: {"closeSession"}, session: Ids, then: {"return", "endConnect", "endLoading"}]
    \cup [method: {"listFiles"}, session: Ids, path: Dirs, then: {"return", "endConnect"}]
    \cup [method: {"fetchMetrics"}, session: Ids, then: {"return", "startInterval"}]

Stages == {"none", "running", "failed"}

BridgeInv ==
  /\ asked \in Seq(Calls) /\ taps \in 0..MaxTaps /\ user = None
  /\ status \in [Ids -> {"fresh", "open", "closed"}]
  /\ opening \in [Opens -> Ids \cup Stages]

IsA(method, k) == k \in DOMAIN asked /\ asked[k].method = method

(* The open n is to be made, is being made, or has an answer. *)
UnderWay(n) == opening[n] # "none" \/ \E k \in DOMAIN asked : asked[k] = OpenCall(n)

(* An open is made once: what it comes to takes no other's place. *)
OpensDistinct ==
  /\ \A k \in DOMAIN asked : IsA("openSession", k) => opening[asked[k].open] = "none"
  /\ \A j, k \in DOMAIN asked :
       IsA("openSession", j) /\ IsA("openSession", k) /\ asked[j].open = asked[k].open => j = k

NoPassword == \A k \in DOMAIN asked : asked[k].method # "hasPassword"

(* The passwords still to be looked up, each of which may make a token *)
Lookups(q) == {k \in DOMAIN q : q[k].method = "hasPassword"}

Unmounted == IF page.disposedRef THEN 1 ELSE 0

(* The token is that of the newest open. *)
TokensFit ==
  /\ page.tokenRef + Cardinality(Lookups(asked)) <= taps + Unmounted
  /\ \A n \in Opens : UnderWay(n) => n <= page.tokenRef

Reached(i) == Live(i) => page.sessionRef = i \/ OnItsWay(i)

----------------------------------------------------------------------------
(* The SFTP page *)

(* A session the page has not been given is nobody else's. *)
SftpSessions ==
  /\ \A n \in Opens : opening[n] \in Ids =>
       /\ status[opening[n]] = "open" /\ opening[n] # page.sessionRef
       /\ \A m \in Opens : opening[m] = opening[n] => m = n
       /\ \A k \in DOMAIN asked : IsA("closeSession", k) => asked[k].session # opening[n]
  /\ page.sessionRef # None /\ ~page.disposedRef =>
       /\ status[page.sessionRef] = "open"
       /\ \A k \in DOMAIN asked : IsA("closeSession", k) => asked[k].session # page.sessionRef
  /\ page.connected <=> page.sessionRef # None

(* A session the page has, or asks to close, was opened for it. *)
SessionsOpened ==
  /\ page.sessionRef # None => status[page.sessionRef] # "fresh"
  /\ \A k \in DOMAIN asked : IsA("closeSession", k) => status[asked[k].session] # "fresh"

(* A list of the page's session is answered before the session is closed. *)
ListsAreAnswered ==
  \A k \in DOMAIN asked : IsA("listFiles", k) /\ asked[k].session = page.sessionRef =>
    /\ status[page.sessionRef] = "open"
    /\ \A j \in 1..(k - 1) : IsA("closeSession", j) => asked[j].session # page.sessionRef

(* The last list asked for is the one the page is to show. *)
IsLastList(k) == IsA("listFiles", k) /\ \A j \in DOMAIN asked : IsA("listFiles", j) => j <= k

FilesAreComing ==
  page.connected =>
    /\ \A k \in DOMAIN asked : IsLastList(k) =>
         asked[k].session = page.sessionRef /\ asked[k].path = page.currentPath
    /\ (\A k \in DOMAIN asked : ~IsA("listFiles", k)) =>
         page.files = [session |-> page.sessionRef, path |-> page.currentPath]

(* Until the first open has been made nothing else is asked; with one tap    *)
(* behind it nothing is asked beside it, and no host can be tapped.          *)
FirstOpen ==
  ~page.disposedRef =>
    /\ page.tokenRef = 0 => ~page.connected /\ \A k \in DOMAIN asked : IsA("hasPassword", k)
    /\ taps <= 1 /\ (\E n \in Opens : UnderWay(n)) =>
         /\ page.connecting /\ page.sessionRef = None
         /\ \A k \in DOMAIN asked : IsA("openSession", k)

(* After two taps every password is looked up before the newest open is      *)
(* made, and the answer to that one finds the page without a session.        *)
NewestOpen ==
  taps <= 2 /\ ~page.disposedRef =>
    /\ \A j, k \in DOMAIN asked : asked[j] = OpenCall(page.tokenRef) /\ IsA("hasPassword", k) => k < j
    /\ \A n \in Opens : n = page.tokenRef /\ opening[n] # "none" => NoPassword
    /\ page.sessionRef # None =>
         NoPassword /\ \A n \in Opens : n = page.tokenRef => ~UnderWay(n)

SftpInv ==
  /\ page \in Sftp!Page /\ BridgeInv /\ OpensDistinct /\ TokensFit
  /\ SftpSessions /\ SessionsOpened /\ ListsAreAnswered /\ FilesAreComing
  /\ FirstOpen /\ NewestOpen
  /\ taps <= 2 => \A i \in Ids : Reached(i)

----------------------------------------------------------------------------
(* The monitor *)

(* Hosts are tapped before the first open is made: every password is looked  *)
(* up by then, and the newest open finds the page without a session.         *)
MonitorOpens ==
  /\ ~page.selected =>
       /\ page.sessionRef = None /\ page.tokenRef = Unmounted
       /\ \A n \in Opens : ~UnderWay(n)
  /\ \A j, k \in DOMAIN asked : IsA("openSession", j) /\ IsA("hasPassword", k) => k < j
  /\ (\E n \in Opens : opening[n] # "none") => NoPassword
  /\ page.sessionRef # None =>
       NoPassword /\ (~page.disposedRef => \A n \in Opens : n = page.tokenRef => ~UnderWay(n))

MonitorInv ==
  /\ page \in Monitor!Page /\ BridgeInv /\ OpensDistinct /\ TokensFit
  /\ MonitorOpens /\ \A i \in Ids : Reached(i)

----------------------------------------------------------------------------
(* The SCP page *)

(* The page takes no session: the cleanup that comes with the hosts marks it *)
(* as gone before any of them can be tapped.                                 *)
ScpInv ==
  /\ page \in Scp!Page /\ BridgeInv /\ OpensDistinct
  /\ page.sessionRef = None /\ page.connected = FALSE
  /\ page.hosts => page.disposedRef
  /\ ~page.disposedRef => asked = <<>> /\ \A n \in Opens : opening[n] = "none"
  /\ \A i \in Ids : Reached(i)

Inv == SftpInv \/ MonitorInv \/ ScpInv

----------------------------------------------------------------------------
(* Calls and queues *)

LEMMA Constants ==
  /\ MaxOpens \in Nat /\ MaxTaps \in Nat /\ MaxTaps + 1 <= MaxOpens /\ None \notin Ids
  /\ "none" \notin Ids /\ "running" \notin Ids /\ "failed" \notin Ids /\ Root \in Dirs
BY BridgeAssumption, RootAssumption

LEMMA CallFields ==
  ASSUME NEW c \in Calls
  PROVE  /\ c.method \in {"hasPassword", "openSession", "closeSession", "listFiles", "fetchMetrics"}
         /\ c.method = "openSession" => c.open \in Opens /\ c = OpenCall(c.open)
         /\ c.method = "closeSession" => c.session \in Ids /\ c.then \in {"return", "endConnect", "endLoading"}
         /\ c.method = "listFiles" => /\ c.session \in Ids /\ c.path \in Dirs
                                      /\ c.then \in {"return", "endConnect"}
         /\ c.method = "fetchMetrics" => c.session \in Ids /\ c.then \in {"return", "startInterval"}
<1>1. CASE c \in [method: {"hasPassword"}]
  BY <1>1
<1>2. CASE c \in [method: {"openSession"}, open: Opens]
  BY <1>2 DEF OpenCall
<1>3. CASE c \in [method: {"closeSession"}, session: Ids, then: {"return", "endConnect", "endLoading"}]
  BY <1>3
<1>4. CASE c \in [method: {"listFiles"}, session: Ids, path: Dirs, then: {"return", "endConnect"}]
  BY <1>4
<1>5. CASE c \in [method: {"fetchMetrics"}, session: Ids, then: {"return", "startInterval"}]
  BY <1>5
<1> QED BY <1>1, <1>2, <1>3, <1>4, <1>5 DEF Calls

LEMMA OpenCalls ==
  /\ \A n \in Opens : OpenCall(n) \in Calls /\ OpenCall(n).method = "openSession" /\ OpenCall(n).open = n
  /\ \A n : OpenCall(n).method = "openSession" /\ OpenCall(n).open = n
BY DEF OpenCall, Calls

(* r is q without its first d calls, and with those of new, one at most, at  *)
(* its end.                                                                  *)
Moves(q, r, d, new) ==
  /\ q \in Seq(Calls) /\ r \in Seq(Calls) /\ d \in {0, 1} /\ (d = 1 => q # <<>>)
  /\ \A k \in DOMAIN r : \/ k + d \in DOMAIN q /\ r[k] = q[k + d]
                         \/ r[k] \in new /\ \A j \in DOMAIN q : j < k + d
  /\ \A k \in DOMAIN q : k \in Nat /\ k >= 1 /\ (k <= d \/ (k - d \in DOMAIN r /\ r[k - d] = q[k]))
  /\ \A j, k \in DOMAIN r : r[j] \in new /\ r[k] \in new =>
       j = k \/ j + d \in DOMAIN q \/ k + d \in DOMAIN q
  /\ \A k \in DOMAIN r : k \in Nat /\ k >= 1
  /\ \A c \in new : \E k \in DOMAIN r : r[k] = c /\ \A j \in DOMAIN r : j <= k

LEMMA AppendMoves ==
  ASSUME NEW q \in Seq(Calls), NEW c \in Calls
  PROVE  Moves(q, Append(q, c), 0, {c})
<1>1. PICK r : r = Append(q, c)
  OBVIOUS
<1>2. PICK l \in Nat : l = Len(q)
  OBVIOUS
<1>3. /\ r \in Seq(Calls) /\ DOMAIN q = 1..l /\ DOMAIN r = 1..(l + 1) /\ r[l + 1] = c
      /\ \A k \in 1..l : r[k] = q[k]
  BY <1>1, <1>2
<1>4. Moves(q, r, 0, {c})
  BY <1>2, <1>3 DEF Moves
<1> QED BY <1>1, <1>4

LEMMA TailMoves ==
  ASSUME NEW q \in Seq(Calls), q # <<>>
  PROVE  Moves(q, Tail(q), 1, {}) /\ Head(q) = q[1] /\ 1 \in DOMAIN q /\ Head(q) \in Calls
<1>1. PICK r : r = Tail(q)
  OBVIOUS
<1>2. PICK l \in Nat : l = Len(q) /\ l >= 1
  OBVIOUS
<1>3. /\ r \in Seq(Calls) /\ DOMAIN q = 1..l /\ DOMAIN r = 1..(l - 1)
      /\ \A k \in 1..(l - 1) : r[k] = q[k + 1]
  BY <1>1, <1>2
<1>4. Moves(q, r, 1, {})
  BY <1>2, <1>3 DEF Moves
<1> QED BY <1>1, <1>2, <1>3, <1>4

LEMMA TailAppendMoves ==
  ASSUME NEW q \in Seq(Calls), q # <<>>, NEW c \in Calls
  PROVE  Moves(q, Append(Tail(q), c), 1, {c})
<1>1. PICK r : r = Append(Tail(q), c)
  OBVIOUS
<1>2. PICK l \in Nat : l = Len(q) /\ l >= 1
  OBVIOUS
<1>3. /\ r \in Seq(Calls) /\ DOMAIN q = 1..l /\ DOMAIN r = 1..l /\ r[l] = c
      /\ \A k \in 1..(l - 1) : r[k] = q[k + 1]
  <2>1. PICK t : t = Tail(q)
    OBVIOUS
  <2>2. t \in Seq(Calls) /\ Len(t) = l - 1 /\ \A k \in 1..(l - 1) : t[k] = q[k + 1]
    BY <2>1, <1>2
  <2> QED BY <2>1, <2>2, <1>1, <1>2
<1>4. Moves(q, r, 1, {c})
  BY <1>2, <1>3 DEF Moves
<1> QED BY <1>1, <1>4

LEMMA StaysMoves ==
  ASSUME NEW q \in Seq(Calls) PROVE Moves(q, q, 0, {})
<1>1. \A k \in DOMAIN q : k \in Nat /\ k >= 1
  OBVIOUS
<1> QED BY <1>1 DEF Moves

(* An injection by counting down leaves no more behind than there were. *)
LEMMA ShiftedCount ==
  ASSUME NEW S, NEW T, IsFiniteSet(T), IsFiniteSet(S), NEW d \in Nat,
         \A k \in S : k \in Nat /\ k + d \in T
  PROVE  Cardinality(S) <= Cardinality(T)
<1>1. SUFFICES ASSUME Cardinality(T) < Cardinality(S) PROVE FALSE
  BY FS_CardinalityType
<1>2. PICK f : f = [k \in S |-> k + d]
  OBVIOUS
<1>3. f \in [S -> T]
  BY <1>2
<1>4. PICK x, y \in S : x # y /\ f[x] = f[y]
  BY <1>1, <1>3, FS_PigeonHole
<1> QED BY <1>2, <1>4

LEMMA LookupsFinite ==
  ASSUME NEW q \in Seq(Calls)
  PROVE  IsFiniteSet(Lookups(q)) /\ Cardinality(Lookups(q)) \in Nat
<1>1. PICK l \in Nat : l = Len(q)
  OBVIOUS
<1>2. IsFiniteSet(1..l)
  BY FS_Interval
<1>3. Lookups(q) \in SUBSET (1..l)
  BY <1>1 DEF Lookups
<1>4. IsFiniteSet(Lookups(q))
  BY <1>2, <1>3, FS_Subset
<1> QED BY <1>4, FS_CardinalityType

LEMMA LookupsKept ==
  ASSUME NEW q, NEW r, NEW d, NEW new, Moves(q, r, d, new), \A c \in new : c.method # "hasPassword"
  PROVE  /\ Cardinality(Lookups(r)) <= Cardinality(Lookups(q))
         /\ d = 1 /\ q[1].method = "hasPassword" =>
              Cardinality(Lookups(r)) + 1 <= Cardinality(Lookups(q))
<1>1. IsFiniteSet(Lookups(q)) /\ IsFiniteSet(Lookups(r)) /\ Cardinality(Lookups(q)) \in Nat
  BY LookupsFinite DEF Moves
<1>2. d \in Nat /\ \A k \in Lookups(r) : k \in Nat /\ k + d \in Lookups(q)
  BY DEF Moves, Lookups
<1>3. Cardinality(Lookups(r)) <= Cardinality(Lookups(q))
  BY <1>1, <1>2, ShiftedCount
<1>4. ASSUME d = 1, q[1].method = "hasPassword"
      PROVE  Cardinality(Lookups(r)) + 1 <= Cardinality(Lookups(q))
  <2>1. PICK S : S = Lookups(q) \ {1}
    OBVIOUS
  <2>2. 1 \in Lookups(q)
    BY <1>4 DEF Moves, Lookups
  <2>3. IsFiniteSet(S) /\ Cardinality(S) = Cardinality(Lookups(q)) - 1
    BY <1>1, <2>1, <2>2, FS_RemoveElement
  <2>4. \A k \in Lookups(r) : k \in Nat /\ k + d \in S
    <3>1. \A k \in Lookups(r) : k >= 1
      BY DEF Moves, Lookups
    <3> QED BY <1>2, <1>4, <2>1, <3>1
  <2>5. Cardinality(Lookups(r)) <= Cardinality(S)
    BY <1>1, <1>2, <2>3, <2>4, ShiftedCount
  <2> QED BY <1>1, <2>3, <2>5, LookupsFinite DEF Moves
<1> QED BY <1>3, <1>4

LEMMA LookupsAdded ==
  ASSUME NEW q \in Seq(Calls), NEW c \in Calls
  PROVE  Cardinality(Lookups(Append(q, c))) <= Cardinality(Lookups(q)) + 1
<1>1. PICK r : r = Append(q, c)
  OBVIOUS
<1>2. PICK T : T = Lookups(q) \cup {Len(q) + 1}
  OBVIOUS
<1>3. IsFiniteSet(Lookups(q)) /\ IsFiniteSet(Lookups(r)) /\ Cardinality(Lookups(q)) \in Nat
      /\ Cardinality(Lookups(r)) \in Nat
  <2>1. r \in Seq(Calls)
    BY <1>1
  <2> QED BY <2>1, LookupsFinite
<1>4. IsFiniteSet(T) /\ Cardinality(T) \in Nat /\ Cardinality(T) <= Cardinality(Lookups(q)) + 1
  <2>1. PICK n : n = Len(q) + 1
    OBVIOUS
  <2>2. PICK S : S = Lookups(q)
    OBVIOUS
  <2>3. IsFiniteSet(S) /\ Cardinality(S) \in Nat
    BY <1>3, <2>2
  <2>4. /\ IsFiniteSet(S \cup {n})
        /\ Cardinality(S \cup {n}) = IF n \in S THEN Cardinality(S) ELSE Cardinality(S) + 1
    BY <2>3, FS_AddElement
  <2>5. IsFiniteSet(T) /\ Cardinality(T) <= Cardinality(S) + 1
    BY <1>2, <2>1, <2>2, <2>3, <2>4
  <2> QED BY <2>2, <2>5, FS_CardinalityType
<1>5. Lookups(r) \in SUBSET T
  BY <1>1, <1>2 DEF Lookups
<1>6. Cardinality(Lookups(r)) <= Cardinality(T)
  BY <1>4, <1>5, FS_Subset
<1> QED BY <1>1, <1>3, <1>4, <1>6

LEMMA TwoLookups ==
  ASSUME NEW q \in Seq(Calls), NEW j \in Lookups(q), NEW k \in Lookups(q), j # k
  PROVE  Cardinality(Lookups(q)) >= 2
<1>1. IsFiniteSet(Lookups(q)) /\ Cardinality(Lookups(q)) \in Nat
  BY LookupsFinite
<1>2. IsFiniteSet({j}) /\ Cardinality({j}) = 1
  BY FS_Singleton
<1>3. IsFiniteSet({j} \cup {k}) /\ Cardinality({j} \cup {k}) = 2
  <2>1. k \notin {j}
    OBVIOUS
  <2>2. Cardinality({j} \cup {k}) = Cardinality({j}) + 1
    BY <1>2, <2>1, FS_AddElement
  <2> QED BY <1>2, <2>2, FS_AddElement
<1>4. Cardinality({j} \cup {k}) <= Cardinality(Lookups(q))
  <2>1. {j} \cup {k} \in SUBSET Lookups(q)
    OBVIOUS
  <2> QED BY <1>1, <2>1, FS_Subset
<1> QED BY <1>1, <1>3, <1>4

LEMMA OneLookup ==
  ASSUME NEW q \in Seq(Calls), NEW j \in Lookups(q) PROVE Cardinality(Lookups(q)) >= 1
<1>1. IsFiniteSet(Lookups(q)) /\ Cardinality(Lookups(q)) \in Nat
  BY LookupsFinite
<1>2. Cardinality(Lookups(q)) # 0
  BY <1>1, FS_EmptySet
<1> QED BY <1>1, <1>2

----------------------------------------------------------------------------
(* The calls under way, in a step that answers d of them and makes new ones *)

LEMMA CallAt ==
  ASSUME BridgeInv, NEW k \in DOMAIN asked
  PROVE  /\ asked[k] \in Calls /\ k \in Nat /\ k >= 1
         /\ asked[k].method = "openSession" => asked[k].open \in Opens /\ asked[k] = OpenCall(asked[k].open)
         /\ asked[k].method \in {"closeSession", "listFiles", "fetchMetrics"} => asked[k].session \in Ids
<1>1. asked[k] \in Calls /\ k \in Nat /\ k >= 1
  BY DEF BridgeInv
<1> QED BY <1>1, CallFields

LEMMA UnderWayKept ==
  ASSUME NEW d, NEW new, Moves(asked, asked', d, new), NEW n \in Opens, UnderWay(n)',
         opening'[n] # "none" => opening[n] # "none" \/ (d = 1 /\ asked[1] = OpenCall(n))
  PROVE  UnderWay(n) \/ OpenCall(n) \in new
<1>1. CASE opening'[n] # "none"
  <2>1. d = 1 => 1 \in DOMAIN asked
    BY DEF Moves
  <2> QED BY <1>1, <2>1 DEF UnderWay
<1>2. CASE \E k \in DOMAIN asked' : asked'[k] = OpenCall(n)
  <2>1. PICK k \in DOMAIN asked' : asked'[k] = OpenCall(n)
    BY <1>2
  <2> QED BY <2>1 DEF Moves, UnderWay
<1> QED BY <1>1, <1>2 DEF UnderWay

(* A new open has a number of its own. *)
LEMMA DistinctKept ==
  ASSUME BridgeInv, OpensDistinct, NEW d, NEW new, Moves(asked, asked', d, new), new \subseteq Calls,
         \A n \in Opens : OpenCall(n) \in new => ~UnderWay(n),
         \A n \in Opens : opening'[n] # "none" =>
           opening[n] # "none" \/ (d = 1 /\ asked[1] = OpenCall(n))
  PROVE  OpensDistinct'
<1>1. \A k \in DOMAIN asked' : k \in Nat /\ k >= 1 /\ asked'[k] \in Calls
  BY DEF Moves
<1>2. ASSUME NEW k \in DOMAIN asked', asked'[k].method = "openSession"
      PROVE  opening'[asked'[k].open] = "none"
  <2>1. PICK n : n = asked'[k].open
    OBVIOUS
  <2>2. n \in Opens /\ asked'[k] = OpenCall(n)
    BY <1>1, <1>2, <2>1, CallFields
  <2>3. CASE asked'[k] \in new
    <3>1. opening[n] = "none" /\ \A j \in DOMAIN asked : asked[j] # OpenCall(n)
      BY <2>2, <2>3 DEF UnderWay
    <3>2. d = 1 => 1 \in DOMAIN asked
      BY DEF Moves
    <3> QED BY <2>1, <2>2, <3>1, <3>2
  <2>4. CASE k + d \in DOMAIN asked /\ asked'[k] = asked[k + d]
    <3>1. asked[k + d].method = "openSession" /\ asked[k + d].open = n
      BY <2>1, <2>4, <1>2
    <3>2. opening[n] = "none"
      BY <2>4, <3>1 DEF OpensDistinct, IsA
    <3>3. ~(d = 1 /\ asked[1] = OpenCall(n))
      <4>1. SUFFICES ASSUME d = 1, asked[1] = OpenCall(n) PROVE FALSE
        OBVIOUS
      <4>2. 1 \in DOMAIN asked /\ asked[1].method = "openSession" /\ asked[1].open = n
        BY <4>1, OpenCalls DEF Moves
      <4>3. k + d = 1
        BY <2>4, <3>1, <4>2 DEF OpensDistinct, IsA
      <4> QED BY <4>1, <4>3, <1>1
    <3> QED BY <2>1, <2>2, <3>2, <3>3
  <2> QED BY <2>3, <2>4 DEF Moves
<1>3. ASSUME NEW j \in DOMAIN asked', NEW k \in DOMAIN asked',
             asked'[j].method = "openSession", asked'[k].method = "openSession",
             asked'[j].open = asked'[k].open
      PROVE  j = k
  <2>1. PICK n : n = asked'[k].open
    OBVIOUS
  <2>2. n \in Opens /\ asked'[k] = OpenCall(n) /\ asked'[j] = OpenCall(n)
    BY <1>1, <1>3, <2>1, CallFields
  <2>3. CASE OpenCall(n) \in new
    <3>1. \A i \in DOMAIN asked : asked[i] # OpenCall(n)
      BY <2>2, <2>3 DEF UnderWay
    <3>2. ~(k + d \in DOMAIN asked /\ asked'[k] = asked[k + d])
          /\ ~(j + d \in DOMAIN asked /\ asked'[j] = asked[j + d])
      BY <2>2, <3>1
    <3>3. (\A i \in DOMAIN asked : i < k + d) /\ (\A i \in DOMAIN asked : i < j + d)
      BY <3>2 DEF Moves
    <3>4. d \in {0, 1} /\ (k + d \in DOMAIN asked => k + d < k + d) /\ (j + d \in DOMAIN asked => j + d < j + d)
      BY <3>3 DEF Moves
    <3>5. k + d \notin DOMAIN asked /\ j + d \notin DOMAIN asked
      BY <3>4, <1>1
    <3> QED BY <2>2, <2>3, <3>5 DEF Moves
  <2>4. CASE OpenCall(n) \notin new
    <3>1. /\ k + d \in DOMAIN asked /\ asked[k + d] = OpenCall(n)
          /\ j + d \in DOMAIN asked /\ asked[j + d] = OpenCall(n)
      BY <2>2, <2>4 DEF Moves
    <3>2. j + d = k + d
      BY <3>1, OpenCalls DEF OpensDistinct, IsA
    <3>3. d \in {0, 1}
      BY DEF Moves
    <3> QED BY <3>2, <3>3, <1>1
  <2> QED BY <2>3, <2>4
<1> QED BY <1>2, <1>3 DEF OpensDistinct, IsA

LEMMA NoPasswordKept ==
  ASSUME NEW d, NEW new, Moves(asked, asked', d, new), NoPassword,
         \A c \in new : c.method # "hasPassword"
  PROVE  NoPassword'
BY DEF NoPassword, Moves

(* A session stays within reach of the page. *)
LEMMA ReachKept ==
  ASSUME BridgeInv, NEW d, NEW new, Moves(asked, asked', d, new), NEW i \in Ids, Reached(i),
         status'[i] = "open" => status[i] = "open" \/ \E n \in Opens : opening'[n] = i,
         \A n \in Opens : opening[n] = i =>
           \/ opening'[n] = i \/ page'.sessionRef = i
           \/ \E c \in new : c.method = "closeSession" /\ c.session = i,
         page.sessionRef = i =>
           \/ page'.sessionRef = i \/ status'[i] # "open",
         d = 1 /\ asked[1].method = "closeSession" /\ asked[1].session = i => status'[i] # "open"
  PROVE  Reached(i)'
<1>1. SUFFICES ASSUME status'[i] = "open"
               PROVE  \/ page'.sessionRef = i \/ \E n \in Opens : opening'[n] = i
                      \/ \E k \in DOMAIN asked' : asked'[k].method = "closeSession" /\ asked'[k].session = i
  BY DEF Reached, Live, OnItsWay
<1>2. CASE \E n \in Opens : opening'[n] = i
  BY <1>2
<1>3. CASE status[i] = "open"
  <2>1. \/ page.sessionRef = i \/ \E n \in Opens : opening[n] = i
        \/ \E k \in DOMAIN asked : asked[k].method = "closeSession" /\ asked[k].session = i
    BY <1>3 DEF Reached, Live, OnItsWay
  <2>2. CASE page.sessionRef = i
    BY <1>1, <2>2
  <2>3. CASE \E n \in Opens : opening[n] = i
    <3>1. \A c \in new : \E k \in DOMAIN asked' : asked'[k] = c
      BY DEF Moves
    <3> QED BY <2>3, <3>1
  <2>4. CASE \E k \in DOMAIN asked : asked[k].method = "closeSession" /\ asked[k].session = i
    <3>1. PICK k \in DOMAIN asked : asked[k].method = "closeSession" /\ asked[k].session = i
      BY <2>4
    <3>2. k \in Nat /\ k >= 1 /\ (k <= d \/ (k - d \in DOMAIN asked' /\ asked'[k - d] = asked[k]))
          /\ d \in {0, 1}
      BY DEF Moves
    <3>3. ~(k <= d)
      <4>1. SUFFICES ASSUME k <= d PROVE FALSE
        OBVIOUS
      <4>2. d = 1 /\ k = 1
        BY <3>2, <4>1
      <4> QED BY <1>1, <3>1, <4>2
    <3> QED BY <3>1, <3>2, <3>3
  <2> QED BY <2>1, <2>2, <2>3, <2>4
<1> QED BY <1>1, <1>2, <1>3

----------------------------------------------------------------------------
(* What the SFTP page shows: the session, its lists and the files *)

(* An entry of the new queue is an old one, later by d, or the new call. *)
LEMMA Entries ==
  ASSUME BridgeInv, NEW d, NEW new, Moves(asked, asked', d, new)
  PROVE  /\ d \in {0, 1}
         /\ \A k \in DOMAIN asked' :
              /\ k \in Nat /\ k >= 1 /\ asked'[k] \in Calls
              /\ \/ k + d \in DOMAIN asked /\ asked'[k] = asked[k + d]
                 \/ asked'[k] \in new /\ k + d \notin DOMAIN asked
         /\ \A j, k \in DOMAIN asked' :
              j < k /\ k + d \in DOMAIN asked => j + d \in DOMAIN asked /\ asked'[j] = asked[j + d]
<1>1. d \in {0, 1} /\ \A k \in DOMAIN asked' : k \in Nat /\ k >= 1 /\ asked'[k] \in Calls
  BY DEF Moves
<1>2. ASSUME NEW k \in DOMAIN asked'
      PROVE  \/ k + d \in DOMAIN asked /\ asked'[k] = asked[k + d]
             \/ asked'[k] \in new /\ \A j \in DOMAIN asked : j < k + d
  BY DEF Moves
<1>3. ASSUME NEW k \in DOMAIN asked', \A j \in DOMAIN asked : j < k + d
      PROVE  k + d \notin DOMAIN asked
  <2>1. ~(k + d < k + d)
    BY <1>1
  <2> QED BY <1>3, <2>1
<1>4. ASSUME NEW j \in DOMAIN asked', NEW k \in DOMAIN asked', j < k, k + d \in DOMAIN asked
      PROVE  j + d \in DOMAIN asked /\ asked'[j] = asked[j + d]
  <2>1. j + d < k + d
    BY <1>1, <1>4
  <2>2. ~(k + d < j + d)
    BY <1>1, <2>1
  <2> QED BY <1>2, <1>4, <2>2
<1> QED BY <1>1, <1>2, <1>3, <1>4

LEMMA SessionsKept ==
  ASSUME BridgeInv, SftpSessions, NEW d, NEW new, Moves(asked, asked', d, new),
         \A n \in Opens : opening'[n] \in Ids => opening'[n] = opening[n],
         \A c \in new : c.method = "closeSession" =>
           /\ \A n \in Opens : opening'[n] # c.session
           /\ c.session = page.sessionRef => page'.disposedRef,
         \A i \in Ids : status[i] = "open" =>
           \/ status'[i] = "open"
           \/ d = 1 /\ asked[1].method = "closeSession" /\ asked[1].session = i,
         page.disposedRef => page'.disposedRef, page'.sessionRef = page.sessionRef,
         page'.connected = page.connected, page.sessionRef \in Ids \cup {None}
  PROVE  SftpSessions'
<1>1. d = 1 => 1 \in DOMAIN asked
  BY DEF Moves
<1>2. ASSUME NEW k \in DOMAIN asked', asked'[k].method = "closeSession", asked'[k] \notin new
      PROVE  \E j \in DOMAIN asked : asked[j].method = "closeSession" /\ asked[j].session = asked'[k].session
  BY <1>2, Entries
<1>3. ASSUME NEW n \in Opens, opening'[n] \in Ids
      PROVE  /\ status'[opening'[n]] = "open" /\ opening'[n] # page'.sessionRef
             /\ \A m \in Opens : opening'[m] = opening'[n] => m = n
             /\ \A k \in DOMAIN asked' :
                  asked'[k].method = "closeSession" => asked'[k].session # opening'[n]
  <2>1. opening'[n] = opening[n] /\ opening[n] \in Ids
    BY <1>3
  <2>2. /\ status[opening[n]] = "open" /\ opening[n] # page.sessionRef
        /\ \A m \in Opens : opening[m] = opening[n] => m = n
        /\ \A k \in DOMAIN asked : asked[k].method = "closeSession" => asked[k].session # opening[n]
    BY <2>1 DEF SftpSessions, IsA
  <2>3. status'[opening'[n]] = "open"
    BY <1>1, <2>1, <2>2
  <2>4. \A m \in Opens : opening'[m] = opening'[n] => m = n
    BY <1>3, <2>1, <2>2
  <2>5. ASSUME NEW k \in DOMAIN asked', asked'[k].method = "closeSession"
        PROVE  asked'[k].session # opening'[n]
    BY <1>2, <2>1, <2>2, <2>5
  <2> QED BY <2>1, <2>2, <2>3, <2>4, <2>5
<1>4. ASSUME page'.sessionRef # None, ~page'.disposedRef
      PROVE  /\ status'[page'.sessionRef] = "open"
             /\ \A k \in DOMAIN asked' :
                  asked'[k].method = "closeSession" => asked'[k].session # page'.sessionRef
  <2>1. /\ status[page.sessionRef] = "open" /\ page.sessionRef \in Ids
        /\ \A k \in DOMAIN asked : asked[k].method = "closeSession" => asked[k].session # page.sessionRef
    BY <1>4 DEF SftpSessions, IsA
  <2>2. status'[page'.sessionRef] = "open"
    BY <1>1, <2>1
  <2>3. ASSUME NEW k \in DOMAIN asked', asked'[k].method = "closeSession"
        PROVE  asked'[k].session # page'.sessionRef
    BY <1>2, <1>4, <2>1, <2>3
  <2> QED BY <2>2, <2>3
<1>5. page'.connected <=> page'.sessionRef # None
  BY DEF SftpSessions
<1> QED BY <1>3, <1>4, <1>5 DEF SftpSessions, IsA

LEMMA OpenedKept ==
  ASSUME BridgeInv, SessionsOpened, NEW d, NEW new, Moves(asked, asked', d, new),
         \A c \in new : c.method = "closeSession" => c.session \in Ids /\ status[c.session] # "fresh",
         \A i \in Ids : status[i] # "fresh" => status'[i] # "fresh",
         page.sessionRef \in Ids \cup {None}, page'.sessionRef = page.sessionRef
  PROVE  SessionsOpened'
<1>1. page'.sessionRef # None => status'[page'.sessionRef] # "fresh"
  BY DEF SessionsOpened
<1>2. ASSUME NEW k \in DOMAIN asked', asked'[k].method = "closeSession"
      PROVE  status'[asked'[k].session] # "fresh"
  <2>1. asked'[k].session \in Ids
    BY <1>2, Entries, CallFields
  <2>2. status[asked'[k].session] # "fresh"
    BY <1>2, Entries DEF SessionsOpened, IsA
  <2> QED BY <2>1, <2>2
<1> QED BY <1>1, <1>2 DEF SessionsOpened, IsA

LEMMA ListsKept ==
  ASSUME BridgeInv, ListsAreAnswered, NEW d, NEW new, Moves(asked, asked', d, new),
         \A c \in new : c.method = "listFiles" /\ c.session = page.sessionRef =>
           /\ status'[page.sessionRef] = "open"
           /\ \A k \in DOMAIN asked : asked[k].method = "closeSession" => asked[k].session # page.sessionRef,
         \A c \in new : c.method = "listFiles" => new = {c},
         \A i \in Ids : status[i] = "open" =>
           \/ status'[i] = "open"
           \/ d = 1 /\ asked[1].method = "closeSession" /\ asked[1].session = i,
         page'.sessionRef = page.sessionRef
  PROVE  ListsAreAnswered'
<1>1. SUFFICES ASSUME NEW k \in DOMAIN asked', asked'[k].method = "listFiles",
                      asked'[k].session = page.sessionRef
               PROVE  /\ status'[page.sessionRef] = "open"
                      /\ \A j \in DOMAIN asked' : j < k /\ asked'[j].method = "closeSession" =>
                           asked'[j].session # page.sessionRef
  <2>1. \A k \in DOMAIN asked' : k \in Nat
    BY Entries
  <2> QED BY <1>1, <2>1 DEF ListsAreAnswered, IsA
<1>2. d \in {0, 1} /\ k \in Nat /\ k >= 1 /\ asked'[k] \in Calls
  BY <1>1, Entries
<1>3. page.sessionRef \in Ids
  BY <1>1, <1>2, CallFields
<1>4. CASE k + d \in DOMAIN asked /\ asked'[k] = asked[k + d]
  <2> PICK m : m = k + d
    OBVIOUS
  <2>0. m \in DOMAIN asked /\ asked[m].method = "listFiles" /\ asked[m].session = page.sessionRef
    BY <1>1, <1>4
  <2>1. /\ status[page.sessionRef] = "open"
        /\ \A j \in 1..(m - 1) : IsA("closeSession", j) => asked[j].session # page.sessionRef
    BY <2>0 DEF ListsAreAnswered, IsA
  <2>2. d = 1 => 1 \in 1..(m - 1) /\ 1 \in DOMAIN asked
    BY <1>2 DEF Moves
  <2>3. status'[page.sessionRef] = "open"
    BY <1>3, <2>1, <2>2 DEF IsA
  <2>4. ASSUME NEW j \in DOMAIN asked', j < k, asked'[j].method = "closeSession"
        PROVE  asked'[j].session # page.sessionRef
    <3>1. j + d \in DOMAIN asked /\ asked'[j] = asked[j + d] /\ j \in Nat /\ j >= 1
      BY <1>4, <2>4, Entries
    <3>2. j + d \in 1..(m - 1)
      BY <1>2, <2>4, <3>1
    <3> QED BY <2>1, <2>4, <3>1, <3>2 DEF IsA
  <2> QED BY <2>3, <2>4
<1>5. CASE asked'[k] \in new
  <2>1. /\ status'[page.sessionRef] = "open" /\ new = {asked'[k]}
        /\ \A j \in DOMAIN asked : asked[j].method = "closeSession" => asked[j].session # page.sessionRef
    BY <1>1, <1>5
  <2>2. ASSUME NEW j \in DOMAIN asked', asked'[j].method = "closeSession"
        PROVE  asked'[j].session # page.sessionRef
    <3>1. asked'[j] \notin new
      BY <1>1, <2>1, <2>2
    <3> QED BY <2>1, <2>2, <3>1, Entries
  <2> QED BY <2>1, <2>2
<1> QED BY <1>1, <1>4, <1>5, Entries

LEMMA FilesKept ==
  ASSUME BridgeInv, FilesAreComing, NEW d, NEW new, Moves(asked, asked', d, new),
         \A c \in new : c.method # "listFiles", d = 1 => asked[1].method # "listFiles",
         page'.sessionRef = page.sessionRef, page'.connected = page.connected,
         page'.currentPath = page.currentPath, page'.files = page.files
  PROVE  FilesAreComing'
<1>1. SUFFICES ASSUME page.connected
               PROVE  /\ \A k \in DOMAIN asked' : IsLastList(k)' =>
                           asked'[k].session = page.sessionRef /\ asked'[k].path = page.currentPath
                      /\ (\A k \in DOMAIN asked' : ~IsA("listFiles", k)') =>
                           page.files = [session |-> page.sessionRef, path |-> page.currentPath]
  BY DEF FilesAreComing
<1>2. \A k \in DOMAIN asked : asked[k].method = "listFiles" =>
        k \in Nat /\ k - d \in DOMAIN asked' /\ asked'[k - d] = asked[k]
  <2>1. ASSUME NEW k \in DOMAIN asked, asked[k].method = "listFiles" PROVE ~(k <= d) /\ k \in Nat
    <3>1. k \in Nat /\ k >= 1 /\ d \in {0, 1}
      BY DEF Moves
    <3>2. ~(d = 1 /\ k = 1)
      BY <2>1
    <3> QED BY <3>1, <3>2
  <2> QED BY <2>1 DEF Moves
<1>3. ASSUME NEW k \in DOMAIN asked', IsLastList(k)'
      PROVE  asked'[k].session = page.sessionRef /\ asked'[k].path = page.currentPath
  <2>1. /\ asked'[k].method = "listFiles" /\ k \in Nat /\ d \in {0, 1}
        /\ \A j \in DOMAIN asked' : asked'[j].method = "listFiles" => j <= k
    BY <1>3, Entries DEF IsLastList, IsA
  <2>2. k + d \in DOMAIN asked /\ asked'[k] = asked[k + d]
    BY <2>1, Entries
  <2>3. ASSUME NEW j \in DOMAIN asked, asked[j].method = "listFiles" PROVE j <= k + d
    <3>1. j \in Nat /\ j - d <= k
      BY <1>2, <2>1, <2>3
    <3> QED BY <2>1, <3>1
  <2>4. IsLastList(k + d)
    BY <2>1, <2>2, <2>3 DEF IsLastList, IsA
  <2> QED BY <1>1, <2>2, <2>4 DEF FilesAreComing
<1>4. ASSUME \A k \in DOMAIN asked' : ~IsA("listFiles", k)'
      PROVE  page.files = [session |-> page.sessionRef, path |-> page.currentPath]
  <2>1. \A k \in DOMAIN asked : ~IsA("listFiles", k)
    BY <1>2, <1>4 DEF IsA
  <2> QED BY <1>1, <2>1 DEF FilesAreComing
<1> QED BY <1>3, <1>4

(* A list has been asked for last. *)
LEMMA FilesAsked ==
  ASSUME BridgeInv, NEW c, Moves(asked, asked', 0, {c}), c.method = "listFiles",
         c.session = page'.sessionRef, c.path = page'.currentPath
  PROVE  FilesAreComing'
<1>1. PICK k \in DOMAIN asked' : asked'[k] = c /\ \A j \in DOMAIN asked' : j <= k
  BY DEF Moves
<1>2. \A j \in DOMAIN asked' : j \in Nat
  BY Entries
<1>3. ASSUME NEW j \in DOMAIN asked', IsLastList(j)' PROVE j = k
  BY <1>1, <1>2, <1>3 DEF IsLastList, IsA
<1> QED BY <1>1, <1>3 DEF FilesAreComing, IsA

LEMMA OpensKept ==
  ASSUME BridgeInv, TokensFit, NEW d, NEW new, Moves(asked, asked', d, new),
         page.tokenRef \in Nat, page'.tokenRef \in Nat, page.tokenRef <= page'.tokenRef,
         \A n \in Opens : OpenCall(n) \in new => n <= page'.tokenRef,
         \A n \in Opens : opening'[n] # "none" =>
           opening[n] # "none" \/ (d = 1 /\ asked[1] = OpenCall(n))
  PROVE  \A n \in Opens : UnderWay(n)' => n <= page'.tokenRef
<1> SUFFICES ASSUME NEW n \in Opens, UnderWay(n)' PROVE n <= page'.tokenRef
  OBVIOUS
<1>1. UnderWay(n) \/ OpenCall(n) \in new
  BY UnderWayKept
<1>2. n \in Nat
  BY Constants DEF Opens
<1> QED BY <1>1, <1>2 DEF TokensFit

(* An open that has its answer is not asked for any more. *)
LEMMA AnsweredOnce ==
  ASSUME BridgeInv, OpensDistinct, NEW n \in Opens, opening[n] # "none"
  PROVE  \A k \in DOMAIN asked : asked[k] # OpenCall(n)
BY OpenCalls DEF OpensDistinct, IsA

----------------------------------------------------------------------------
(* Which open of the SFTP page comes when *)

LEMMA FirstKept ==
  ASSUME BridgeInv, OpensDistinct, FirstOpen, NEW d, NEW new, Moves(asked, asked', d, new),
         page'.tokenRef = page.tokenRef, taps' = taps, page.disposedRef => page'.disposedRef,
         page'.sessionRef = page.sessionRef, page'.connected = page.connected,
         page'.connecting = page.connecting \/ (d = 1 /\ asked[1].method # "openSession"),
         \A c \in new : c.method # "openSession" /\ page.tokenRef # 0 /\ (page'.disposedRef \/ page.sessionRef # None),
         \A n \in Opens : opening'[n] # "none" =>
           opening[n] # "none" \/ (d = 1 /\ asked[1] = OpenCall(n))
  PROVE  FirstOpen'
<1> SUFFICES ASSUME ~page'.disposedRef
             PROVE  /\ page.tokenRef = 0 =>
                         ~page.connected /\ \A k \in DOMAIN asked' : asked'[k].method = "hasPassword"
                    /\ taps <= 1 /\ (\E n \in Opens : UnderWay(n)') =>
                         /\ page'.connecting /\ page.sessionRef = None
                         /\ \A k \in DOMAIN asked' : asked'[k].method = "openSession"
  BY DEF FirstOpen, IsA
<1>1. ASSUME page.tokenRef = 0
      PROVE  ~page.connected /\ \A k \in DOMAIN asked' : asked'[k].method = "hasPassword"
  <2>1. ~page.connected /\ \A k \in DOMAIN asked : asked[k].method = "hasPassword"
    BY <1>1 DEF FirstOpen, IsA
  <2> QED BY <1>1, <2>1, Entries
<1>2. ASSUME taps <= 1, NEW n \in Opens, UnderWay(n)'
      PROVE  /\ page'.connecting /\ page.sessionRef = None
             /\ \A k \in DOMAIN asked' : asked'[k].method = "openSession"
  <2>1. \A c \in new : c # OpenCall(n)
    BY OpenCalls
  <2>2. UnderWay(n)
    BY <1>2, <2>1, UnderWayKept
  <2>3. /\ page.connecting /\ page.sessionRef = None
        /\ \A k \in DOMAIN asked : asked[k].method = "openSession"
    BY <1>2, <2>2 DEF FirstOpen, IsA
  <2>4. d = 1 => 1 \in DOMAIN asked
    BY DEF Moves
  <2>5. \A k \in DOMAIN asked' : asked'[k].method = "openSession"
    BY <2>3, Entries
  <2> QED BY <2>3, <2>4, <2>5
<1> QED BY <1>1, <1>2

LEMMA NewestKept ==
  ASSUME BridgeInv, OpensDistinct, NewestOpen, NEW d, NEW new, Moves(asked, asked', d, new),
         page'.tokenRef = page.tokenRef, taps' = taps, page.disposedRef => page'.disposedRef,
         page'.sessionRef = page.sessionRef,
         \A c \in new : c.method # "openSession" /\ c.method # "hasPassword",
         \A n \in Opens : opening'[n] # "none" =>
           opening[n] # "none" \/ (d = 1 /\ asked[1] = OpenCall(n))
  PROVE  NewestOpen'
<1> SUFFICES ASSUME taps <= 2, ~page'.disposedRef
             PROVE  /\ \A j, k \in DOMAIN asked' :
                         asked'[j] = OpenCall(page.tokenRef) /\ asked'[k].method = "hasPassword" => k < j
                    /\ \A n \in Opens : n = page.tokenRef /\ opening'[n] # "none" => NoPassword'
                    /\ page.sessionRef # None =>
                         NoPassword' /\ \A n \in Opens : n = page.tokenRef => ~UnderWay(n)'
  BY DEF NewestOpen, IsA
<1>1. /\ \A j, k \in DOMAIN asked :
           asked[j] = OpenCall(page.tokenRef) /\ asked[k].method = "hasPassword" => k < j
      /\ \A n \in Opens : n = page.tokenRef /\ opening[n] # "none" => NoPassword
      /\ page.sessionRef # None =>
           NoPassword /\ \A n \in Opens : n = page.tokenRef => ~UnderWay(n)
  BY DEF NewestOpen, IsA
<1>2. ASSUME NEW j \in DOMAIN asked', NEW k \in DOMAIN asked',
             asked'[j] = OpenCall(page.tokenRef), asked'[k].method = "hasPassword"
      PROVE  k < j
  <2>1. asked'[j] \notin new /\ asked'[k] \notin new
    BY <1>2, OpenCalls
  <2>2. /\ j + d \in DOMAIN asked /\ asked[j + d] = OpenCall(page.tokenRef)
        /\ k + d \in DOMAIN asked /\ asked[k + d].method = "hasPassword"
    BY <1>2, <2>1, Entries
  <2>3. k + d < j + d
    BY <1>1, <2>2
  <2> QED BY <2>3, Entries
<1>3. ASSUME NEW n \in Opens, n = page.tokenRef, opening'[n] # "none" PROVE NoPassword'
  <2>1. CASE opening[n] # "none"
    <3>1. NoPassword
      BY <1>1, <1>3, <2>1
    <3> QED BY <3>1, NoPasswordKept
  <2>2. CASE d = 1 /\ asked[1] = OpenCall(n)
    <3>1. 1 \in DOMAIN asked /\ \A k \in DOMAIN asked : k \in Nat /\ k >= 1
      BY <2>2 DEF Moves
    <3>2. \A k \in DOMAIN asked : asked[k].method = "hasPassword" => k < 1
      BY <1>1, <1>3, <2>2, <3>1
    <3>3. NoPassword
      BY <3>1, <3>2 DEF NoPassword
    <3> QED BY <3>3, NoPasswordKept
  <2> QED BY <1>3, <2>1, <2>2
<1>4. ASSUME page.sessionRef # None
      PROVE  NoPassword' /\ \A n \in Opens : n = page.tokenRef => ~UnderWay(n)'
  <2>1. NoPassword'
    BY <1>1, <1>4, NoPasswordKept
  <2>2. ASSUME NEW n \in Opens, n = page.tokenRef, UnderWay(n)' PROVE FALSE
    <3>1. \A c \in new : c # OpenCall(n)
      BY OpenCalls
    <3>2. UnderWay(n)
      BY <2>2, <3>1, UnderWayKept
    <3> QED BY <1>1, <1>4, <2>2, <3>2
  <2> QED BY <2>1, <2>2
<1> QED BY <1>2, <1>3, <1>4

----------------------------------------------------------------------------
(* The steps of the SFTP page *)

LEMMA SftpFields ==
  ASSUME SftpInv
  PROVE  /\ page \in Sftp!Page /\ BridgeInv /\ page.name = "SFTPPage" /\ page.disposedRef \in BOOLEAN
         /\ page.tokenRef \in Nat /\ page.tokenRef <= MaxOpens
         /\ page.connecting \in BOOLEAN /\ page.connected \in BOOLEAN
         /\ page.sessionRef \in Ids \cup {None} /\ page.currentPath \in Dirs
         /\ taps \in Nat /\ taps <= MaxTaps /\ Unmounted \in {0, 1}
         /\ asked \in Seq(Calls) /\ opening \in [Opens -> Ids \cup Stages]
         /\ status \in [Ids -> {"fresh", "open", "closed"}] /\ user = None
         /\ \A k \in DOMAIN asked : asked[k] \in Calls
         /\ Cardinality(Lookups(asked)) \in Nat
<1>1. page.tokenRef \in 0..MaxOpens /\ taps \in 0..MaxTaps /\ asked \in Seq(Calls)
  BY DEF SftpInv, BridgeInv, Sftp!Page
<1> QED BY <1>1, Constants, LookupsFinite DEF SftpInv, BridgeInv, Sftp!Page, Unmounted

(* The facts of a step that neither opens nor closes a session, and asks for *)
(* no list and answers none *)
LEMMA SftpShownKept ==
  ASSUME SftpInv, NEW d, NEW new, Moves(asked, asked', d, new), UNCHANGED status,
         \A c \in new : c.method \in {"hasPassword", "openSession"},
         d = 1 => asked[1].method # "listFiles",
         \A n \in Opens : opening'[n] \in Ids => opening'[n] = opening[n],
         page'.disposedRef = page.disposedRef, page'.sessionRef = page.sessionRef,
         page'.connected = page.connected, page'.currentPath = page.currentPath,
         page'.files = page.files
  PROVE  SftpSessions' /\ SessionsOpened' /\ ListsAreAnswered' /\ FilesAreComing'
<1>1. BridgeInv /\ page.sessionRef \in Ids \cup {None}
  BY SftpFields
<1>2. SftpSessions'
  BY <1>1, SessionsKept DEF SftpInv
<1>3. ListsAreAnswered'
  BY <1>1, ListsKept DEF SftpInv
<1>4. FilesAreComing'
  BY <1>1, FilesKept DEF SftpInv
<1>5. SessionsOpened'
  BY <1>1, OpenedKept DEF SftpInv
<1> QED BY <1>2, <1>3, <1>4, <1>5

(* No session is touched. *)
LEMMA SameReach ==
  ASSUME BridgeInv, \A i \in Ids : Reached(i), NEW d, NEW new, Moves(asked, asked', d, new),
         UNCHANGED status, page'.sessionRef = page.sessionRef,
         \A n \in Opens : opening[n] \in Ids => opening'[n] = opening[n],
         d = 1 => asked[1].method # "closeSession"
  PROVE  \A i \in Ids : Reached(i)'
<1> SUFFICES ASSUME NEW i \in Ids PROVE Reached(i)'
  OBVIOUS
<1> QED BY ReachKept

LEMMA HeadMoves ==
  ASSUME BridgeInv, asked # <<>>
  PROVE  /\ Moves(asked, Tail(asked), 1, {}) /\ Head(asked) = asked[1] /\ 1 \in DOMAIN asked
         /\ Head(asked) \in Calls /\ asked[1] \in Calls
         /\ \A c \in Calls : Moves(asked, Append(Tail(asked), c), 1, {c})
BY TailMoves, TailAppendMoves DEF BridgeInv

LEMMA PasswordCall == [method |-> "hasPassword"] \in Calls
BY DEF Calls

LEMMA SftpTapKeeps ==
  ASSUME SftpInv, Sftp!Tap PROVE SftpInv'
<1> PICK c : c = [method |-> "hasPassword"]
  OBVIOUS
<1>1. /\ ~page.disposedRef /\ ~page.connected /\ ~page.connecting /\ taps < MaxTaps
      /\ taps' = taps + 1 /\ asked' = Append(asked, c) /\ UNCHANGED <<page, opening, status, user>>
  BY DEF Sftp!Tap, Sftp!Ask
<1>2. c \in Calls /\ c.method = "hasPassword" /\ \A n : c # OpenCall(n)
  BY PasswordCall, OpenCalls
<1>3. Moves(asked, asked', 0, {c})
  BY <1>1, <1>2, AppendMoves, SftpFields
<1>4. BridgeInv'
  <2>1. asked' \in Seq(Calls)
    BY <1>3 DEF Moves
  <2>2. taps' \in 0..MaxTaps
    BY <1>1, SftpFields, Constants
  <2> QED BY <1>1, <2>1, <2>2, SftpFields DEF BridgeInv
<1>5. OpensDistinct'
  BY <1>1, <1>2, <1>3, DistinctKept DEF SftpInv
<1>6. TokensFit'
  <2>1. Cardinality(Lookups(asked')) <= Cardinality(Lookups(asked)) + 1
        /\ Cardinality(Lookups(asked')) \in Nat
    BY <1>1, <1>2, <1>4, LookupsAdded, LookupsFinite, SftpFields DEF BridgeInv
  <2>2. page.tokenRef + Cardinality(Lookups(asked')) <= taps' + Unmounted
    BY <1>1, <2>1, SftpFields DEF SftpInv, TokensFit
  <2>3. \A n \in Opens : UnderWay(n)' => n <= page'.tokenRef
    BY <1>1, <1>2, <1>3, OpensKept, SftpFields DEF SftpInv
  <2> QED BY <1>1, <2>2, <2>3 DEF TokensFit, Unmounted
<1>7. SftpSessions' /\ SessionsOpened' /\ ListsAreAnswered' /\ FilesAreComing'
  BY <1>1, <1>2, <1>3, SftpShownKept
<1>8. \A n \in Opens : UnderWay(n)' => UnderWay(n)
  BY <1>1, <1>2, <1>3, UnderWayKept
<1>9. FirstOpen'
  <2>1. ASSUME page.tokenRef = 0
        PROVE  ~page.connected /\ \A k \in DOMAIN asked' : asked'[k].method = "hasPassword"
    <3>1. ~page.connected /\ \A k \in DOMAIN asked : asked[k].method = "hasPassword"
      BY <1>1, <2>1 DEF SftpInv, FirstOpen, IsA
    <3> QED BY <3>1, <1>2, <1>3, Entries, SftpFields
  <2>2. ASSUME taps' <= 1, NEW n \in Opens, UnderWay(n)' PROVE FALSE
    <3>1. n <= page.tokenRef /\ n \in Nat /\ n >= 1
      BY <2>2, <1>8, Constants DEF SftpInv, TokensFit, Opens
    <3>2. page.tokenRef <= 0
      BY <1>1, <2>2, SftpFields DEF SftpInv, TokensFit, Unmounted
    <3> QED BY <3>1, <3>2, SftpFields
  <2> QED BY <1>1, <2>1, <2>2 DEF FirstOpen, IsA
<1>10. NewestOpen'
  <2>1. ASSUME taps' <= 2, NEW n \in Opens, UnderWay(n) PROVE FALSE
    BY <1>1, <2>1, SftpFields DEF SftpInv, FirstOpen
  <2>2. ASSUME taps' <= 2, NEW j \in DOMAIN asked', asked'[j] = OpenCall(page.tokenRef) PROVE FALSE
    <3>1. asked'[j] \in Calls
      BY <2>2, <1>3 DEF Moves
    <3>2. PICK n \in Opens : n = page.tokenRef
      BY <2>2, <3>1, CallFields, OpenCalls
    <3>3. UnderWay(n)'
      BY <2>2, <3>2 DEF UnderWay
    <3> QED BY <1>8, <2>1, <2>2, <3>3
  <2>3. ASSUME taps' <= 2, NEW n \in Opens, opening'[n] # "none" PROVE FALSE
    BY <1>1, <2>1, <2>3 DEF UnderWay
  <2>4. page.sessionRef = None
    BY <1>1 DEF SftpInv, SftpSessions
  <2> QED BY <1>1, <2>2, <2>3, <2>4 DEF NewestOpen
<1>11. taps' <= 2 => \A i \in Ids : Reached(i)'
  BY <1>1, <1>2, <1>3, SameReach, SftpFields DEF SftpInv
<1> QED BY <1>1, <1>4, <1>5, <1>6, <1>7, <1>9, <1>10, <1>11 DEF SftpInv

(* A step that takes no new token keeps the numbers of the opens. *)
LEMMA QuietKept ==
  ASSUME BridgeInv, OpensDistinct, TokensFit, NEW d, NEW new, Moves(asked, asked', d, new),
         \A c \in new : c \in Calls /\ c.method # "hasPassword" /\ c.method # "openSession",
         page.tokenRef \in Nat, page'.tokenRef = page.tokenRef, page'.disposedRef = page.disposedRef,
         taps' = taps, user' = user, status' \in [Ids -> {"fresh", "open", "closed"}],
         opening' \in [Opens -> Ids \cup Stages],
         \A n \in Opens : opening'[n] # "none" =>
           opening[n] # "none" \/ (d = 1 /\ asked[1] = OpenCall(n))
  PROVE  BridgeInv' /\ OpensDistinct' /\ TokensFit'
<1>1. asked' \in Seq(Calls) /\ asked \in Seq(Calls) /\ taps \in Nat
  BY Constants DEF Moves, BridgeInv
<1>2. BridgeInv'
  BY <1>1 DEF BridgeInv
<1>3. \A n : OpenCall(n) \notin new
  BY OpenCalls
<1>4. OpensDistinct'
  BY <1>3, DistinctKept
<1>5. \A n \in Opens : UnderWay(n)' => n <= page'.tokenRef
  BY <1>3, OpensKept
<1>6. page.tokenRef + Cardinality(Lookups(asked')) <= taps + Unmounted
  <2>1. Cardinality(Lookups(asked')) <= Cardinality(Lookups(asked))
    BY LookupsKept
  <2>2. Cardinality(Lookups(asked')) \in Nat /\ Cardinality(Lookups(asked)) \in Nat
    BY <1>1, LookupsFinite
  <2>3. Unmounted \in {0, 1}
    BY DEF Unmounted
  <2> QED BY <1>1, <2>1, <2>2, <2>3 DEF TokensFit
<1>7. Unmounted' = Unmounted
  BY DEF Unmounted
<1> QED BY <1>2, <1>4, <1>5, <1>6, <1>7 DEF TokensFit

LEMMA SftpPasswordKnownKeeps ==
  ASSUME SftpInv, asked # <<>>, Head(asked).method = "hasPassword",
         page' = [page EXCEPT !.tokenRef = @ + 1, !.connecting = TRUE],
         asked' = Append(Tail(asked), OpenCall(page.tokenRef + 1)),
         UNCHANGED <<taps, opening, status, user>>
  PROVE  SftpInv'
<1>1. asked[1].method = "hasPassword" /\ 1 \in DOMAIN asked /\ 1 \in Lookups(asked) /\ asked \in Seq(Calls)
  BY HeadMoves, SftpFields DEF Lookups
<1>2. Cardinality(Lookups(asked)) >= 1 /\ Cardinality(Lookups(asked)) \in Nat
  BY <1>1, OneLookup, LookupsFinite
<1>3. PICK n : n = page.tokenRef + 1
  OBVIOUS
<1>4. n \in Opens /\ n \in Nat /\ n <= taps + Unmounted
  <2>1. n <= taps + Unmounted /\ n \in Nat /\ n >= 1
    BY <1>2, <1>3, SftpFields DEF SftpInv, TokensFit
  <2> QED BY <2>1, Constants, SftpFields DEF Opens
<1>5. /\ page' \in Sftp!Page /\ page'.tokenRef = n /\ page'.connecting /\ page'.disposedRef = page.disposedRef
      /\ page'.connected = page.connected /\ page'.sessionRef = page.sessionRef
      /\ page'.currentPath = page.currentPath /\ page'.files = page.files
  <2>1. n \in 0..MaxOpens
    BY <1>4 DEF Opens
  <2> QED BY <1>3, <2>1, SftpFields DEF Sftp!Page
<1>6. PICK c : c = OpenCall(n)
  OBVIOUS
<1>7. c \in Calls /\ c.method = "openSession" /\ c.open = n /\ \A m : c = OpenCall(m) => m = n
  BY <1>4, <1>6, OpenCalls
<1>8. Moves(asked, asked', 1, {c})
  BY <1>3, <1>6, <1>7, HeadMoves, SftpFields
<1>9. ~UnderWay(n)
  BY <1>3, <1>4, SftpFields DEF SftpInv, TokensFit
<1>10. BridgeInv'
  <2>1. asked' \in Seq(Calls)
    BY <1>8 DEF Moves
  <2> QED BY <2>1, SftpFields DEF BridgeInv
<1>11. OpensDistinct'
  BY <1>7, <1>8, <1>9, DistinctKept DEF SftpInv
<1>12. TokensFit'
  <2>1. PICK a : a = Append(Tail(asked), c)
    OBVIOUS
  <2>2. Cardinality(Lookups(asked')) + 1 <= Cardinality(Lookups(asked))
    BY <1>1, <1>7, <1>8, LookupsKept
  <2>3. Cardinality(Lookups(asked')) \in Nat
    BY <1>10, LookupsFinite DEF BridgeInv
  <2>4. page'.tokenRef + Cardinality(Lookups(asked')) <= taps + Unmounted
    BY <1>2, <1>3, <1>5, <2>2, <2>3, SftpFields DEF SftpInv, TokensFit
  <2>5. \A m \in Opens : UnderWay(m)' => m <= page'.tokenRef
    <3>1. \A m \in Opens : OpenCall(m) \in {c} => m <= page'.tokenRef
      BY <1>4, <1>5, <1>7
    <3>2. page'.tokenRef \in Nat /\ page.tokenRef <= page'.tokenRef
      BY <1>3, <1>4, <1>5, SftpFields
    <3> QED BY <1>8, <3>1, <3>2, OpensKept, SftpFields DEF SftpInv
  <2>6. Unmounted' = Unmounted
    BY <1>5 DEF Unmounted
  <2> QED BY <2>4, <2>5, <2>6 DEF TokensFit
<1>13. SftpSessions' /\ SessionsOpened' /\ ListsAreAnswered' /\ FilesAreComing'
  BY <1>1, <1>5, <1>7, <1>8, SftpShownKept
<1>14. FirstOpen'
  <2> SUFFICES ASSUME ~page'.disposedRef, taps <= 1
               PROVE  page.sessionRef = None /\ \A k \in DOMAIN asked' : asked'[k].method = "openSession"
    BY <1>3, <1>4, <1>5, SftpFields DEF FirstOpen, IsA
  <2>1. page.tokenRef = 0 /\ Cardinality(Lookups(asked)) <= 1
    BY <1>2, <1>5, SftpFields DEF SftpInv, TokensFit, Unmounted
  <2>2. page.sessionRef = None /\ \A k \in DOMAIN asked : asked[k].method = "hasPassword"
    BY <1>5, <2>1 DEF SftpInv, FirstOpen, SftpSessions, IsA
  <2>3. ASSUME NEW k \in DOMAIN asked', k + 1 \in DOMAIN asked PROVE FALSE
    <3>1. k + 1 \in Lookups(asked) /\ k + 1 # 1
      BY <1>8, <2>2, <2>3, Entries, SftpFields DEF Lookups
    <3> QED BY <1>1, <1>2, <2>1, <3>1, TwoLookups
  <2> QED BY <1>7, <1>8, <2>2, <2>3, Entries, SftpFields
<1>15. NewestOpen'
  <2>1. ASSUME NEW j \in DOMAIN asked', NEW k \in DOMAIN asked',
               asked'[j] = OpenCall(n), asked'[k].method = "hasPassword"
        PROVE  k < j
    <3>1. k + 1 \in DOMAIN asked /\ k \in Nat /\ j \in Nat
      BY <1>7, <1>8, <2>1, Entries, SftpFields
    <3>2. ~(j + 1 \in DOMAIN asked /\ asked'[j] = asked[j + 1])
      BY <1>9, <2>1 DEF UnderWay
    <3>3. k + 1 < j + 1
      BY <1>8, <3>1, <3>2 DEF Moves
    <3> QED BY <3>1, <3>3
  <2>2. opening'[n] = "none"
    BY <1>9 DEF UnderWay
  <2>3. taps <= 2 /\ ~page.disposedRef => page.sessionRef = None
    BY <1>1 DEF SftpInv, NewestOpen, NoPassword
  <2> QED BY <1>5, <2>1, <2>2, <2>3 DEF NewestOpen, IsA
<1>16. taps' <= 2 => \A i \in Ids : Reached(i)'
  BY <1>1, <1>5, <1>8, SameReach, SftpFields DEF SftpInv
<1> QED BY <1>5, <1>10, <1>11, <1>12, <1>13, <1>14, <1>15, <1>16 DEF SftpInv

LEMMA SftpPasswordMissingKeeps ==
  ASSUME SftpInv, asked # <<>>, Head(asked).method = "hasPassword", asked' = Tail(asked),
         UNCHANGED <<page, taps, opening, status, user>>
  PROVE  SftpInv'
<1>1. Moves(asked, asked', 1, {}) /\ asked[1].method = "hasPassword"
  BY HeadMoves, SftpFields
<1>2. BridgeInv' /\ OpensDistinct' /\ TokensFit'
  BY <1>1, QuietKept, SftpFields DEF SftpInv
<1>3. SftpSessions' /\ SessionsOpened' /\ ListsAreAnswered' /\ FilesAreComing'
  BY <1>1, SftpShownKept
<1>4. FirstOpen' /\ NewestOpen'
  BY <1>1, FirstKept, NewestKept, SftpFields DEF SftpInv
<1>5. taps' <= 2 => \A i \in Ids : Reached(i)'
  BY <1>1, SameReach, SftpFields DEF SftpInv
<1> QED BY <1>2, <1>3, <1>4, <1>5 DEF SftpInv

LEMMA SftpHasPasswordKeeps ==
  ASSUME SftpInv, Sftp!HasPassword PROVE SftpInv'
<1>1. asked # <<>> /\ Head(asked).method = "hasPassword" /\ UNCHANGED <<taps, opening, status, user>>
  BY DEF Sftp!HasPassword, Sftp!Answered
<1>2. \/ /\ page' = [page EXCEPT !.tokenRef = @ + 1, !.connecting = TRUE]
         /\ asked' = Append(Tail(asked), OpenCall(page.tokenRef + 1))
      \/ asked' = Tail(asked) /\ UNCHANGED page
  BY DEF Sftp!HasPassword, Sftp!DoneAsking, Sftp!Done, Sftp!OpenCall, OpenCall
<1> QED BY <1>1, <1>2, SftpPasswordKnownKeeps, SftpPasswordMissingKeeps

LEMMA CallShapes ==
  /\ \A i \in Ids, p \in Dirs, t \in {"return", "endConnect"} :
       LET c == [method |-> "listFiles", session |-> i, path |-> p, then |-> t] IN
         c \in Calls /\ c.method = "listFiles" /\ c.session = i /\ c.path = p
  /\ \A i \in Ids, t \in {"return", "endConnect", "endLoading"} :
       LET c == [method |-> "closeSession", session |-> i, then |-> t] IN
         c \in Calls /\ c.method = "closeSession" /\ c.session = i
  /\ \A i \in Ids, t \in {"return", "startInterval"} :
       LET c == [method |-> "fetchMetrics", session |-> i, then |-> t] IN
         c \in Calls /\ c.method = "fetchMetrics"
BY DEF Calls

LEMMA SftpNavigateKeeps ==
  ASSUME SftpInv, NEW path \in Dirs, Sftp!Navigate(path) PROVE SftpInv'
<1>1. PICK c : c = [method |-> "listFiles", session |-> page.sessionRef, path |-> path, then |-> "return"]
  OBVIOUS
<1>2. /\ page.connected /\ ~page.disposedRef /\ page' = [page EXCEPT !.currentPath = path]
      /\ asked' = Append(asked, c) /\ UNCHANGED <<taps, opening, status, user>>
  BY <1>1 DEF Sftp!Navigate, Sftp!ListFiles, Sftp!Ask
<1>3. /\ page.sessionRef \in Ids /\ page.sessionRef # None /\ status[page.sessionRef] = "open"
      /\ \A k \in DOMAIN asked : asked[k].method = "closeSession" => asked[k].session # page.sessionRef
  BY <1>2, SftpFields DEF SftpInv, SftpSessions, IsA
<1>4. c \in Calls /\ c.method = "listFiles" /\ c.session = page.sessionRef /\ c.path = path
  BY <1>1, <1>3, CallShapes
<1>5. Moves(asked, asked', 0, {c})
  BY <1>2, <1>4, AppendMoves, SftpFields
<1>6. /\ page' \in Sftp!Page /\ page'.tokenRef = page.tokenRef /\ page'.connecting = page.connecting
      /\ page'.disposedRef = page.disposedRef /\ page'.connected = page.connected
      /\ page'.sessionRef = page.sessionRef /\ page'.currentPath = path
  BY <1>2, SftpFields DEF Sftp!Page
<1>7. BridgeInv' /\ OpensDistinct' /\ TokensFit'
  BY <1>2, <1>4, <1>5, <1>6, QuietKept, SftpFields DEF SftpInv
<1>8. SftpSessions' /\ SessionsOpened'
  <2>1. SftpSessions'
    <3>1. /\ BridgeInv /\ SftpSessions /\ page.sessionRef \in Ids /\ status' = status /\ opening' = opening
          /\ \A m \in {c} : m.method # "closeSession"
      BY <1>2, <1>3, <1>4, SftpFields DEF SftpInv
    <3> QED BY <3>1, <1>5, <1>6, SessionsKept
  <2>2. SessionsOpened'
    BY <1>2, <1>4, <1>5, <1>6, OpenedKept, SftpFields DEF SftpInv
  <2> QED BY <2>1, <2>2
<1>9. ListsAreAnswered'
  BY <1>2, <1>3, <1>4, <1>5, <1>6, ListsKept, SftpFields DEF SftpInv
<1>10. FilesAreComing'
  BY <1>4, <1>5, <1>6, FilesAsked, SftpFields
<1>11. FirstOpen'
  <2>1. page.tokenRef # 0 /\ BridgeInv /\ OpensDistinct /\ FirstOpen
    BY <1>2, SftpFields DEF SftpInv, FirstOpen
  <2>2. /\ taps' = taps /\ opening' = opening
        /\ \A m \in {c} : m.method # "openSession" /\ m.method # "hasPassword"
    BY <1>2, <1>4
  <2> QED BY <1>3, <1>5, <1>6, <2>1, <2>2, FirstKept
<1>12. NewestOpen'
  BY <1>2, <1>4, <1>5, <1>6, NewestKept, SftpFields DEF SftpInv
<1>13. taps' <= 2 => \A i \in Ids : Reached(i)'
  BY <1>2, <1>5, <1>6, SameReach, SftpFields DEF SftpInv
<1> QED BY <1>6, <1>7, <1>8, <1>9, <1>10, <1>11, <1>12, <1>13 DEF SftpInv

LEMMA SftpListAnsweredKeeps ==
  ASSUME SftpInv, Sftp!ListAnswered PROVE SftpInv'
<1>1. PICK c : c = Head(asked)
  OBVIOUS
<1>2. /\ asked # <<>> /\ c.method = "listFiles" /\ asked' = Tail(asked)
      /\ UNCHANGED <<taps, opening, status, user>>
  BY <1>1 DEF Sftp!ListAnswered, Sftp!Answered, Sftp!Done
<1>3. /\ Moves(asked, asked', 1, {}) /\ asked[1] = c /\ 1 \in DOMAIN asked
      /\ c \in Calls /\ c.session \in Ids /\ c.path \in Dirs
  BY <1>1, <1>2, HeadMoves, CallFields, SftpFields
<1>4. PICK from : from = IF Sftp!Live(c.session) THEN c.session ELSE None
  OBVIOUS
<1>4a. PICK files : files = [session |-> from, path |-> c.path]
  OBVIOUS
<1>5. \/ page' = [page EXCEPT !.files = files]
      \/ page' = [page EXCEPT !.files = files, !.connecting = FALSE]
  <2>1. page' = Sftp!Continue([page EXCEPT !.files = files], c.then)
    BY <1>1, <1>4, <1>4a DEF Sftp!ListAnswered
  <2>2. \A r : Sftp!Continue(r, c.then) = r \/ Sftp!Continue(r, c.then) = [r EXCEPT !.connecting = FALSE]
    BY DEF Sftp!Continue, Sftp!EndConnect
  <2> QED BY <2>1, <2>2
<1>6. files \in [session: Ids \cup {None}, path: Dirs]
  BY <1>3, <1>4, <1>4a
<1>7. /\ page' \in Sftp!Page /\ page'.tokenRef = page.tokenRef /\ page'.disposedRef = page.disposedRef
      /\ page'.connected = page.connected /\ page'.sessionRef = page.sessionRef
      /\ page'.currentPath = page.currentPath /\ page'.files = files
  BY <1>5, <1>6, SftpFields DEF Sftp!Page
<1>8. BridgeInv' /\ OpensDistinct' /\ TokensFit'
  BY <1>2, <1>3, <1>7, QuietKept, SftpFields DEF SftpInv
<1>9. SftpSessions' /\ SessionsOpened'
  BY <1>2, <1>3, <1>7, SessionsKept, OpenedKept, SftpFields DEF SftpInv
<1>10. ListsAreAnswered'
  BY <1>2, <1>3, <1>7, ListsKept, SftpFields DEF SftpInv
<1>11. FilesAreComing'
  <2> SUFFICES ASSUME page.connected
               PROVE  /\ \A k \in DOMAIN asked' : IsLastList(k)' =>
                           asked'[k].session = page.sessionRef /\ asked'[k].path = page.currentPath
                      /\ (\A k \in DOMAIN asked' : ~IsA("listFiles", k)') =>
                           files = [session |-> page.sessionRef, path |-> page.currentPath]
    BY <1>7 DEF FilesAreComing
  <2>1. \A k \in DOMAIN asked : k \in Nat /\ k >= 1 /\ (k <= 1 \/ (k - 1 \in DOMAIN asked' /\ asked'[k - 1] = asked[k]))
    BY <1>3 DEF Moves
  <2>2. \A k \in DOMAIN asked' : k \in Nat /\ k >= 1 /\ k + 1 \in DOMAIN asked /\ asked'[k] = asked[k + 1]
    BY <1>3, Entries, SftpFields
  <2>3. ASSUME NEW k \in DOMAIN asked', IsLastList(k)'
        PROVE  asked'[k].session = page.sessionRef /\ asked'[k].path = page.currentPath
    <3>1. /\ asked[k + 1].method = "listFiles" /\ k + 1 \in DOMAIN asked
          /\ \A j \in DOMAIN asked' : asked'[j].method = "listFiles" => j <= k
      BY <2>2, <2>3 DEF IsLastList, IsA
    <3>2. ASSUME NEW j \in DOMAIN asked, asked[j].method = "listFiles" PROVE j <= k + 1
      <4>1. CASE j <= 1
        BY <2>1, <2>2, <4>1
      <4>2. CASE ~(j <= 1)
        <5>1. j - 1 <= k
          BY <2>1, <3>1, <3>2, <4>2
        <5> QED BY <2>1, <2>2, <5>1
      <4> QED BY <4>1, <4>2
    <3>3. IsLastList(k + 1)
      BY <3>1, <3>2 DEF IsLastList, IsA
    <3> QED BY <2>2, <3>1, <3>3 DEF SftpInv, FilesAreComing
  <2>4. ASSUME \A k \in DOMAIN asked' : ~IsA("listFiles", k)'
        PROVE  files = [session |-> page.sessionRef, path |-> page.currentPath]
    <3>1. \A k \in DOMAIN asked : asked[k].method = "listFiles" => k <= 1
      BY <2>1, <2>4 DEF IsA
    <3>2. IsLastList(1)
      BY <1>2, <1>3, <3>1 DEF IsLastList, IsA
    <3>3. c.session = page.sessionRef /\ c.path = page.currentPath
      BY <1>3, <3>2 DEF SftpInv, FilesAreComing
    <3>4. status[c.session] = "open"
      BY <1>2, <1>3, <3>3 DEF SftpInv, ListsAreAnswered, IsA
    <3> QED BY <1>3, <1>4, <1>4a, <3>3, <3>4 DEF Sftp!Live
  <2> QED BY <2>3, <2>4
<1>12. page'.connecting = page.connecting \/ asked[1].method # "openSession"
  BY <1>2, <1>3
<1>13. FirstOpen' /\ NewestOpen'
  BY <1>2, <1>3, <1>7, <1>12, FirstKept, NewestKept, SftpFields DEF SftpInv
<1>14. taps' <= 2 => \A i \in Ids : Reached(i)'
  BY <1>2, <1>3, <1>7, SameReach, SftpFields DEF SftpInv
<1> QED BY <1>7, <1>8, <1>9, <1>10, <1>11, <1>13, <1>14 DEF SftpInv

(* A session that is open is closed, an id that is not open stays as it is. *)
LEMMA HostClosesStatus ==
  ASSUME BridgeInv, NEW i \in Ids, HostCloses(i)
  PROVE  /\ status' \in [Ids -> {"fresh", "open", "closed"}] /\ user' = user
         /\ status'[i] # "open" /\ \A j \in Ids \ {i} : status'[j] = status[j]
         /\ \A j \in Ids : status'[j] = "open" => status[j] = "open"
         /\ \A j \in Ids : status[j] # "fresh" => status'[j] # "fresh"
BY DEF HostCloses, Live, Close, BridgeInv, tvars

LEMMA SftpCloseAnsweredKeeps ==
  ASSUME SftpInv, Sftp!CloseAnswered PROVE SftpInv'
<1>1. PICK c : c = Head(asked)
  OBVIOUS
<1>2. /\ asked # <<>> /\ c.method = "closeSession" /\ asked' = Tail(asked)
      /\ HostCloses(c.session) /\ UNCHANGED <<taps, opening>>
      /\ page' = page \/ page' = [page EXCEPT !.connecting = FALSE]
  BY <1>1 DEF Sftp!CloseAnswered, Sftp!Answered, Sftp!Done, Sftp!HostCloses, HostCloses,
              Sftp!Live, Live, Sftp!Close, Close, Sftp!tvars, tvars, Sftp!Continue, Sftp!EndConnect
<1>3. /\ Moves(asked, asked', 1, {}) /\ asked[1] = c /\ 1 \in DOMAIN asked
      /\ c \in Calls /\ c.session \in Ids
  BY <1>1, <1>2, HeadMoves, CallFields, SftpFields
<1>4. /\ status' \in [Ids -> {"fresh", "open", "closed"}] /\ user' = user
      /\ status'[c.session] # "open" /\ \A j \in Ids \ {c.session} : status'[j] = status[j]
      /\ \A j \in Ids : status'[j] = "open" => status[j] = "open"
      /\ \A j \in Ids : status[j] # "fresh" => status'[j] # "fresh"
  BY <1>2, <1>3, HostClosesStatus, SftpFields
<1>5. /\ page' \in Sftp!Page /\ page'.tokenRef = page.tokenRef /\ page'.disposedRef = page.disposedRef
      /\ page'.connected = page.connected /\ page'.sessionRef = page.sessionRef
      /\ page'.currentPath = page.currentPath /\ page'.files = page.files
  BY <1>2, SftpFields DEF Sftp!Page
<1>6. BridgeInv' /\ OpensDistinct' /\ TokensFit'
  BY <1>2, <1>3, <1>4, <1>5, QuietKept, SftpFields DEF SftpInv
<1>7. \A i \in Ids : status[i] = "open" =>
        \/ status'[i] = "open"
        \/ asked[1].method = "closeSession" /\ asked[1].session = i
  BY <1>2, <1>3, <1>4
<1>8. SftpSessions' /\ SessionsOpened'
  BY <1>2, <1>3, <1>4, <1>5, <1>7, SessionsKept, OpenedKept, SftpFields DEF SftpInv
<1>9. ListsAreAnswered'
  BY <1>2, <1>3, <1>5, <1>7, ListsKept, SftpFields DEF SftpInv
<1>10. FilesAreComing'
  BY <1>2, <1>3, <1>5, FilesKept, SftpFields DEF SftpInv
<1>11. FirstOpen' /\ NewestOpen'
  BY <1>2, <1>3, <1>5, FirstKept, NewestKept, SftpFields DEF SftpInv
<1>12. taps' <= 2 => \A i \in Ids : Reached(i)'
  <2> SUFFICES ASSUME taps <= 2, NEW i \in Ids PROVE Reached(i)'
    BY <1>2
  <2>1. Reached(i)
    BY DEF SftpInv
  <2>2. asked[1].session = i => status'[i] # "open"
    BY <1>3, <1>4
  <2> QED BY <1>2, <1>3, <1>4, <1>5, <2>1, <2>2, ReachKept, SftpFields
<1> QED BY <1>5, <1>6, <1>8, <1>9, <1>10, <1>11, <1>12 DEF SftpInv

LEMMA SftpUnmountKeeps ==
  ASSUME SftpInv, Sftp!Unmount PROVE SftpInv'
<1>1. PICK c : c = [method |-> "closeSession", session |-> page.sessionRef, then |-> "return"]
  OBVIOUS
<1>2. /\ ~page.disposedRef /\ page' = [page EXCEPT !.disposedRef = TRUE, !.tokenRef = @ + 1]
      /\ IF page.sessionRef = None THEN asked' = asked ELSE asked' = Append(asked, c)
      /\ UNCHANGED <<taps, opening, status, user>>
  BY <1>1 DEF Sftp!Unmount, Sftp!AskClose, Sftp!Ask
<1>3. page.sessionRef # None => page.sessionRef \in Ids /\ c \in Calls /\ c.method = "closeSession"
                                /\ c.session = page.sessionRef
  BY <1>1, CallShapes, SftpFields
<1>4. PICK new : /\ Moves(asked, asked', 0, new) /\ new \subseteq Calls
                 /\ \A m \in new : m.method = "closeSession" /\ m.session = page.sessionRef
                                   /\ page.sessionRef \in Ids
  <2>1. CASE page.sessionRef = None
    <3>1. Moves(asked, asked', 0, {})
      BY <1>2, <2>1, StaysMoves, SftpFields
    <3> QED BY <3>1
  <2>2. CASE page.sessionRef # None
    <3>1. Moves(asked, asked', 0, {c})
      BY <1>2, <1>3, <2>2, AppendMoves, SftpFields
    <3> QED BY <1>3, <2>2, <3>1
  <2> QED BY <2>1, <2>2
<1>5. page.tokenRef + Cardinality(Lookups(asked)) <= taps /\ page.tokenRef + 1 <= MaxOpens
  <2>1. page.tokenRef + Cardinality(Lookups(asked)) <= taps
    BY <1>2, SftpFields DEF SftpInv, TokensFit, Unmounted
  <2> QED BY <2>1, Constants, SftpFields
<1>6. /\ page' \in Sftp!Page /\ page'.tokenRef = page.tokenRef + 1 /\ page'.disposedRef
      /\ page'.connected = page.connected /\ page'.sessionRef = page.sessionRef
      /\ page'.currentPath = page.currentPath /\ page'.files = page.files
  <2>1. page.tokenRef + 1 \in 0..MaxOpens
    BY <1>5, Constants, SftpFields
  <2> QED BY <1>2, <2>1, SftpFields DEF Sftp!Page
<1>7. BridgeInv'
  <2>1. asked' \in Seq(Calls)
    BY <1>4 DEF Moves
  <2> QED BY <1>2, <2>1, SftpFields DEF BridgeInv
<1>8. \A n : OpenCall(n) \notin new
  BY <1>4, OpenCalls
<1>9. OpensDistinct'
  BY <1>2, <1>4, <1>8, DistinctKept DEF SftpInv
<1>10. TokensFit'
  <2>1. Cardinality(Lookups(asked')) <= Cardinality(Lookups(asked))
    <3>1. \A m \in new : m.method # "hasPassword"
      BY <1>4
    <3> QED BY <1>4, <3>1, LookupsKept
  <2>2. Cardinality(Lookups(asked')) \in Nat
    BY <1>7, LookupsFinite DEF BridgeInv
  <2>3. page'.tokenRef + Cardinality(Lookups(asked')) <= taps' + 1
    BY <1>2, <1>5, <1>6, <2>1, <2>2, SftpFields
  <2>4. \A n \in Opens : UnderWay(n)' => n <= page'.tokenRef
    <3>1. page'.tokenRef \in Nat /\ page.tokenRef <= page'.tokenRef
      BY <1>6, SftpFields
    <3> QED BY <1>2, <1>4, <1>8, <3>1, OpensKept, SftpFields DEF SftpInv
  <2>5. Unmounted' = 1
    BY <1>6 DEF Unmounted
  <2> QED BY <2>3, <2>4, <2>5 DEF TokensFit
<1>11. SftpSessions'
  <2>1. \A m \in new : \A n \in Opens : opening'[n] # m.session
    BY <1>2, <1>4 DEF SftpInv, SftpSessions
  <2> QED BY <1>2, <1>4, <1>6, <2>1, SessionsKept, SftpFields DEF SftpInv
<1>11a. SessionsOpened'
  <2>1. \A m \in new : m.session \in Ids /\ status[m.session] # "fresh"
    BY <1>4, Constants DEF SftpInv, SessionsOpened
  <2> QED BY <1>2, <1>4, <1>6, <2>1, OpenedKept, SftpFields DEF SftpInv
<1>12. ListsAreAnswered' /\ FilesAreComing'
  BY <1>2, <1>4, <1>6, ListsKept, FilesKept, SftpFields DEF SftpInv
<1>13. FirstOpen' /\ NewestOpen'
  BY <1>6 DEF FirstOpen, NewestOpen
<1>14. taps' <= 2 => \A i \in Ids : Reached(i)'
  BY <1>2, <1>4, <1>6, SameReach, SftpFields DEF SftpInv
<1> QED BY <1>6, <1>7, <1>9, <1>10, <1>11, <1>12, <1>13, <1>14, <1>11a DEF SftpInv

(* With its first open answered, the page has none under way. *)
LEMMA FirstOpenEnds ==
  ASSUME SftpInv, NEW n \in Opens, opening[n] # "none", opening'[n] = "none",
         \A m \in Opens : opening'[m] # "none" => opening[m] # "none",
         NEW new, Moves(asked, asked', 0, new), \A c \in new : c.method # "openSession",
         page'.tokenRef = page.tokenRef, taps' = taps, page'.disposedRef = page.disposedRef
  PROVE  FirstOpen'
<1>1. n <= page.tokenRef /\ n \in Nat /\ n >= 1 /\ page.tokenRef # 0
  BY Constants, SftpFields DEF SftpInv, TokensFit, UnderWay, Opens
<1>2. \A m : OpenCall(m) \notin new
  BY OpenCalls
<1>3. ASSUME taps' <= 1, ~page'.disposedRef, NEW m \in Opens, UnderWay(m)' PROVE FALSE
  <2>1. UnderWay(m)
    BY <1>2, <1>3, UnderWayKept
  <2>2. page.tokenRef <= 1
    BY <1>3, SftpFields DEF SftpInv, TokensFit, Unmounted
  <2>3. m = n
    BY <1>1, <2>1, <2>2, Constants, SftpFields DEF SftpInv, TokensFit, Opens
  <2>4. \A k \in DOMAIN asked : asked[k] # OpenCall(n)
    BY AnsweredOnce DEF SftpInv
  <2>5. \A k \in DOMAIN asked' : asked'[k] # OpenCall(n)
    BY <1>2, <2>4, Entries, SftpFields
  <2> QED BY <1>3, <2>3, <2>5 DEF UnderWay
<1> QED BY <1>1, <1>3 DEF FirstOpen

(* The open has failed, or its session has no place on the page and is asked *)
(* to be closed.                                                             *)
LEMMA SftpLateKeeps ==
  ASSUME SftpInv, NEW n \in Opens, NEW i, i = opening[n], opening' = [opening EXCEPT ![n] = "none"],
         page' = page \/ page' = [page EXCEPT !.connecting = FALSE],
         \/ i = "failed" /\ asked' = asked
         \/ /\ i \in Ids
            /\ asked' = Append(asked, [method |-> "closeSession", session |-> i, then |-> "endConnect"]),
         UNCHANGED <<taps, status, user>>
  PROVE  SftpInv'
<1>1. PICK c : c = [method |-> "closeSession", session |-> i, then |-> "endConnect"]
  OBVIOUS
<1>2. i \in Ids => c \in Calls /\ c.method = "closeSession" /\ c.session = i
  BY <1>1, CallShapes
<1>3. PICK new : /\ Moves(asked, asked', 0, new) /\ new \subseteq Calls
                 /\ \A m \in new : m.method = "closeSession" /\ m.session = i /\ i \in Ids
                 /\ i \in Ids => c \in new
  <2>1. CASE i = "failed" /\ asked' = asked
    <3>1. Moves(asked, asked', 0, {}) /\ i \notin Ids
      BY <2>1, StaysMoves, SftpFields, Constants
    <3> QED BY <3>1
  <2>2. CASE i \in Ids /\ asked' = Append(asked, c)
    <3>1. Moves(asked, asked', 0, {c})
      BY <1>2, <2>2, AppendMoves, SftpFields
    <3> QED BY <1>2, <2>2, <3>1
  <2> QED BY <1>1, <2>1, <2>2
<1>4. opening[n] # "none"
  BY Constants
<1>5. /\ opening' \in [Opens -> Ids \cup Stages] /\ opening'[n] = "none"
      /\ \A m \in Opens : m # n => opening'[m] = opening[m]
  BY SftpFields DEF Stages
<1>6. /\ \A m \in Opens : opening'[m] # "none" => opening[m] # "none"
      /\ \A m \in Opens : opening'[m] \in Ids => opening'[m] = opening[m] /\ m # n
  BY <1>5, Constants
<1>7. /\ page' \in Sftp!Page /\ page'.tokenRef = page.tokenRef /\ page'.disposedRef = page.disposedRef
      /\ page'.connected = page.connected /\ page'.sessionRef = page.sessionRef
      /\ page'.currentPath = page.currentPath /\ page'.files = page.files
  BY SftpFields DEF Sftp!Page
<1>8. BridgeInv' /\ OpensDistinct' /\ TokensFit'
  <2>1. \A m \in new : m \in Calls /\ m.method # "hasPassword" /\ m.method # "openSession"
    BY <1>3
  <2> QED BY <1>3, <1>5, <1>6, <1>7, <2>1, QuietKept, SftpFields DEF SftpInv
<1>9. SftpSessions'
  <2>1. i \in Ids => i # page.sessionRef /\ \A m \in Opens : opening[m] = i => m = n
    BY DEF SftpInv, SftpSessions
  <2>2. \A b \in new : (\A m \in Opens : opening'[m] # b.session) /\ b.session # page.sessionRef
    BY <1>3, <1>6, <2>1
  <2> QED BY <1>3, <1>6, <1>7, <2>2, SessionsKept, SftpFields DEF SftpInv
<1>9a. SessionsOpened'
  <2>1. i \in Ids => status[i] # "fresh"
    BY DEF SftpInv, SftpSessions
  <2> QED BY <1>3, <1>7, <2>1, OpenedKept, SftpFields DEF SftpInv
<1>10. ListsAreAnswered'
  BY <1>3, <1>7, ListsKept, SftpFields DEF SftpInv
<1>11. FilesAreComing'
  BY <1>3, <1>7, FilesKept, SftpFields DEF SftpInv
<1>12. FirstOpen'
  BY <1>3, <1>4, <1>5, <1>6, <1>7, FirstOpenEnds
<1>13. NewestOpen'
  BY <1>3, <1>6, <1>7, NewestKept, SftpFields DEF SftpInv
<1>14. taps' <= 2 => \A j \in Ids : Reached(j)'
  <2> SUFFICES ASSUME taps <= 2, NEW j \in Ids PROVE Reached(j)'
    OBVIOUS
  <2>1. Reached(j)
    BY DEF SftpInv
  <2>2. \A m \in Opens : opening[m] = j =>
          opening'[m] = j \/ \E b \in new : b.method = "closeSession" /\ b.session = j
    BY <1>2, <1>3, <1>5
  <2> QED BY <1>3, <1>7, <2>1, <2>2, ReachKept, SftpFields
<1> QED BY <1>7, <1>8, <1>9, <1>10, <1>11, <1>12, <1>13, <1>14, <1>9a DEF SftpInv

(* The page takes the session of its newest open. *)
LEMMA SftpConnectedKeeps ==
  ASSUME SftpInv, NEW n \in Opens, NEW i \in Ids, i = opening[n], opening' = [opening EXCEPT ![n] = "none"],
         ~page.disposedRef, n = page.tokenRef,
         page' = [page EXCEPT !.sessionRef = i, !.connected = TRUE, !.currentPath = Root],
         asked' = Append(asked, [method |-> "listFiles", session |-> i, path |-> Root,
                                 then |-> "endConnect"]),
         UNCHANGED <<taps, status, user>>
  PROVE  SftpInv'
<1>1. PICK c : c = [method |-> "listFiles", session |-> i, path |-> Root, then |-> "endConnect"]
  OBVIOUS
<1>2. c \in Calls /\ c.method = "listFiles" /\ c.session = i /\ c.path = Root
  BY <1>1, CallShapes, Constants
<1>3. Moves(asked, asked', 0, {c})
  BY <1>1, <1>2, AppendMoves, SftpFields
<1>4. opening[n] # "none"
  BY Constants
<1>5. /\ opening' \in [Opens -> Ids \cup Stages] /\ opening'[n] = "none"
      /\ \A m \in Opens : m # n => opening'[m] = opening[m]
  BY SftpFields DEF Stages
<1>6. /\ \A m \in Opens : opening'[m] # "none" => opening[m] # "none"
      /\ \A m \in Opens : opening'[m] \in Ids => opening'[m] = opening[m] /\ m # n
  BY <1>5, Constants
<1>7. /\ page' \in Sftp!Page /\ page'.tokenRef = page.tokenRef /\ page'.disposedRef = page.disposedRef
      /\ page'.connected /\ page'.sessionRef = i /\ page'.currentPath = Root
  BY SftpFields, Constants DEF Sftp!Page
<1>8. BridgeInv' /\ OpensDistinct' /\ TokensFit'
  <2>1. /\ BridgeInv /\ OpensDistinct /\ TokensFit /\ page.tokenRef \in Nat
        /\ status' \in [Ids -> {"fresh", "open", "closed"}]
    BY SftpFields DEF SftpInv
  <2>2. \A m \in {c} : m \in Calls /\ m.method # "hasPassword" /\ m.method # "openSession"
    BY <1>2
  <2> QED BY <1>3, <1>5, <1>6, <1>7, <2>1, <2>2, QuietKept
<1>9. /\ status[i] = "open" /\ \A m \in Opens : opening[m] = i => m = n
      /\ \A k \in DOMAIN asked : asked[k].method = "closeSession" => asked[k].session # i
  BY DEF SftpInv, SftpSessions, IsA
<1>10. \A k \in DOMAIN asked' : asked'[k].method = "closeSession" =>
         k \in DOMAIN asked /\ asked'[k] = asked[k]
  <2>1. \A k \in DOMAIN asked' : k \in Nat /\ ((k + 0 \in DOMAIN asked /\ asked'[k] = asked[k + 0]) \/ asked'[k] \in {c})
    BY <1>3, Entries, SftpFields
  <2> QED BY <1>2, <2>1
<1>11. SftpSessions'
  <2>1. ASSUME NEW m \in Opens, opening'[m] \in Ids
        PROVE  /\ status'[opening'[m]] = "open" /\ opening'[m] # i
               /\ \A l \in Opens : opening'[l] = opening'[m] => l = m
               /\ \A k \in DOMAIN asked' :
                    asked'[k].method = "closeSession" => asked'[k].session # opening'[m]
    <3>1. opening'[m] = opening[m] /\ m # n /\ opening[m] \in Ids
      BY <1>6, <2>1
    <3>2. /\ status[opening[m]] = "open" /\ \A l \in Opens : opening[l] = opening[m] => l = m
          /\ \A k \in DOMAIN asked : asked[k].method = "closeSession" => asked[k].session # opening[m]
      BY <3>1 DEF SftpInv, SftpSessions, IsA
    <3>3. \A l \in Opens : opening'[l] = opening'[m] => l = m
      BY <1>6, <2>1, <3>1, <3>2
    <3> QED BY <1>9, <1>10, <3>1, <3>2, <3>3
  <2>2. \A k \in DOMAIN asked' : asked'[k].method = "closeSession" => asked'[k].session # i
    BY <1>9, <1>10
  <2>3. i # None
    BY Constants
  <2> QED BY <1>7, <1>9, <2>1, <2>2, <2>3 DEF SftpSessions, IsA
<1>11a. SessionsOpened'
  BY <1>7, <1>9, <1>10 DEF SftpInv, SessionsOpened, IsA
<1>12. ListsAreAnswered'
  <2>1. \A k \in DOMAIN asked' : asked'[k].method = "closeSession" => asked'[k].session # i
    BY <1>9, <1>10
  <2> QED BY <1>7, <1>9, <2>1 DEF ListsAreAnswered, IsA
<1>13. FilesAreComing'
  BY <1>2, <1>3, <1>7, FilesAsked, SftpFields
<1>14. FirstOpen'
  BY <1>2, <1>3, <1>4, <1>5, <1>6, <1>7, FirstOpenEnds
<1>15. ASSUME taps <= 2
       PROVE  /\ page.sessionRef = None /\ NoPassword' /\ ~UnderWay(n)'
  <2>1. NoPassword
    BY <1>4, <1>15 DEF SftpInv, NewestOpen
  <2>2. page.sessionRef = None
    BY <1>4, <1>15 DEF SftpInv, NewestOpen, UnderWay
  <2>3. NoPassword'
    BY <1>2, <1>3, <2>1, NoPasswordKept
  <2>4. \A k \in DOMAIN asked' : asked'[k] # OpenCall(n)
    <3>1. \A k \in DOMAIN asked : asked[k] # OpenCall(n)
      BY <1>4, AnsweredOnce DEF SftpInv
    <3>2. c # OpenCall(n)
      BY <1>2, OpenCalls
    <3> QED BY <1>3, <3>1, <3>2, Entries, SftpFields
  <2> QED BY <1>5, <2>2, <2>3, <2>4 DEF UnderWay
<1>16. NewestOpen'
  BY <1>5, <1>7, <1>15 DEF NewestOpen, NoPassword, IsA
<1>17. taps' <= 2 => \A j \in Ids : Reached(j)'
  <2> SUFFICES ASSUME taps <= 2, NEW j \in Ids PROVE Reached(j)'
    OBVIOUS
  <2>1. Reached(j) /\ page.sessionRef # j
    BY <1>15, Constants DEF SftpInv
  <2>2. \A m \in Opens : opening[m] = j => opening'[m] = j \/ page'.sessionRef = j
    BY <1>5, <1>7
  <2> QED BY <1>3, <1>7, <2>1, <2>2, ReachKept, SftpFields
<1> QED BY <1>7, <1>8, <1>11, <1>12, <1>13, <1>14, <1>16, <1>17, <1>11a DEF SftpInv

LEMMA SftpResumeKeeps ==
  ASSUME SftpInv, NEW n \in Opens, Sftp!Resume(n) PROVE SftpInv'
<1>1. PICK i : i = opening[n]
  OBVIOUS
<1>2. /\ i \in Ids \cup {"failed"} /\ opening' = [opening EXCEPT ![n] = "none"]
      /\ UNCHANGED <<taps, status, user>>
  BY <1>1 DEF Sftp!Resume, Sftp!OpenAnswered
<1>3. \/ i = "failed" /\ page' = [page EXCEPT !.connecting = FALSE] /\ asked' = asked
      \/ /\ i \in Ids /\ page' = page
         /\ asked' = Append(asked, [method |-> "closeSession", session |-> i, then |-> "endConnect"])
      \/ /\ i \in Ids /\ ~page.disposedRef /\ n = page.tokenRef
         /\ page' = [[page EXCEPT !.sessionRef = i, !.connected = TRUE] EXCEPT !.currentPath = Root]
         /\ asked' = Append(asked, [method |-> "listFiles", session |-> i, path |-> Root,
                                    then |-> "endConnect"])
  <2>1. [page EXCEPT !.sessionRef = i, !.connected = TRUE].sessionRef = i
    BY SftpFields DEF Sftp!Page
  <2>2. CASE i = "failed"
    BY <1>1, <2>2 DEF Sftp!Resume, Sftp!Result, Sftp!EndConnect
  <2>3. CASE i # "failed"
    <3>1. i \in Ids /\ Sftp!Result(n) = i /\ i # None
      BY <1>1, <1>2, <2>3, Constants DEF Sftp!Result
    <3>2. CASE page.disposedRef \/ n # page.tokenRef
      BY <3>1, <3>2 DEF Sftp!Resume, Sftp!Ask
    <3>3. CASE ~(page.disposedRef \/ n # page.tokenRef)
      BY <2>1, <3>1, <3>3 DEF Sftp!Resume, Sftp!ListFiles, Sftp!Ask
    <3> QED BY <3>2, <3>3
  <2> QED BY <2>2, <2>3
<1>4. CASE /\ i \in Ids /\ ~page.disposedRef /\ n = page.tokenRef
           /\ page' = [[page EXCEPT !.sessionRef = i, !.connected = TRUE] EXCEPT !.currentPath = Root]
           /\ asked' = Append(asked, [method |-> "listFiles", session |-> i, path |-> Root,
                                      then |-> "endConnect"])
  <2>1. page' = [page EXCEPT !.sessionRef = i, !.connected = TRUE, !.currentPath = Root]
    BY <1>4
  <2> QED BY <1>1, <1>2, <1>4, <2>1, SftpConnectedKeeps
<1> QED BY <1>1, <1>2, <1>3, <1>4, SftpLateKeeps

----------------------------------------------------------------------------
(* The steps of the host, whatever the page *)

LEMMA HostStartsFacts ==
  ASSUME BridgeInv, HostStartsOpen
  PROVE  /\ Moves(asked, asked', 1, {}) /\ asked[1].method = "openSession" /\ 1 \in DOMAIN asked
         /\ UNCHANGED <<page, taps, status, user>> /\ opening' \in [Opens -> Ids \cup Stages]
         /\ \A n \in Opens : opening'[n] # "none" => opening[n] # "none" \/ asked[1] = OpenCall(n)
         /\ \A n \in Opens : opening'[n] \in Ids => opening'[n] = opening[n]
         /\ \E m \in Opens : /\ asked[1] = OpenCall(m) /\ opening'[m] = "running"
                             /\ \A n \in Opens \ {m} : opening'[n] = opening[n]
<1>1. PICK m : m = Head(asked).open
  OBVIOUS
<1>2. /\ asked # <<>> /\ Head(asked).method = "openSession" /\ asked' = Tail(asked)
      /\ opening' = [opening EXCEPT ![m] = "running"] /\ UNCHANGED <<page, taps, status, user>>
  BY <1>1 DEF HostStartsOpen, Answered, Done
<1>3. /\ Moves(asked, asked', 1, {}) /\ asked[1] = Head(asked) /\ 1 \in DOMAIN asked
      /\ asked[1] \in Calls
  BY <1>2, HeadMoves
<1>4. m \in Opens /\ asked[1] = OpenCall(m)
  BY <1>1, <1>2, <1>3, CallFields
<1>5. /\ opening' \in [Opens -> Ids \cup Stages] /\ opening'[m] = "running"
      /\ \A n \in Opens \ {m} : opening'[n] = opening[n]
  BY <1>2, <1>4 DEF BridgeInv, Stages
<1> QED BY <1>2, <1>3, <1>4, <1>5, Constants

LEMMA OpenEndsFacts ==
  ASSUME BridgeInv, NEW n \in Opens, OpenEnds(n)
  PROVE  /\ opening[n] = "running" /\ asked' = asked /\ UNCHANGED <<page, taps, user>>
         /\ opening' \in [Opens -> Ids \cup Stages] /\ opening'[n] # "none"
         /\ \A m \in Opens \ {n} : opening'[m] = opening[m]
         /\ status' \in [Ids -> {"fresh", "open", "closed"}]
         /\ \/ opening'[n] = "failed" /\ UNCHANGED status
            \/ /\ opening'[n] \in Ids /\ status[opening'[n]] = "fresh" /\ status'[opening'[n]] = "open"
               /\ \A i \in Ids : i # opening'[n] => status'[i] = status[i]
<1>1. /\ opening[n] = "running" /\ UNCHANGED <<page, taps, asked>>
      /\ \/ \E i \in Ids : Open(i) /\ opening' = [opening EXCEPT ![n] = i]
         \/ opening' = [opening EXCEPT ![n] = "failed"] /\ UNCHANGED tvars
  BY DEF OpenEnds
<1>2. CASE \E i \in Ids : Open(i) /\ opening' = [opening EXCEPT ![n] = i]
  <2>1. PICK i \in Ids : Open(i) /\ opening' = [opening EXCEPT ![n] = i]
    BY <1>2
  <2>2. opening' \in [Opens -> Ids \cup Stages] /\ opening'[n] = i
        /\ \A m \in Opens \ {n} : opening'[m] = opening[m]
    BY <2>1 DEF BridgeInv
  <2>3. /\ status[i] = "fresh" /\ status' = [status EXCEPT ![i] = "open"] /\ user' = user
    BY <2>1 DEF Open
  <2>4. /\ status' \in [Ids -> {"fresh", "open", "closed"}] /\ status'[i] = "open"
        /\ \A j \in Ids : j # i => status'[j] = status[j]
    BY <2>3 DEF BridgeInv
  <2> QED BY <1>1, <2>2, <2>3, <2>4, Constants
<1>3. CASE opening' = [opening EXCEPT ![n] = "failed"] /\ UNCHANGED tvars
  <2>1. opening' \in [Opens -> Ids \cup Stages] /\ opening'[n] = "failed"
        /\ \A m \in Opens \ {n} : opening'[m] = opening[m]
    BY <1>3 DEF BridgeInv, Stages
  <2> QED BY <1>1, <1>3, <2>1 DEF BridgeInv, tvars
<1> QED BY <1>1, <1>2, <1>3

(* A new session is on its way to the page. *)
LEMMA OpenEndsReach ==
  ASSUME BridgeInv, NEW n \in Opens, OpenEnds(n), NEW i \in Ids, Reached(i) PROVE Reached(i)'
<1>1. Moves(asked, asked', 0, {})
  BY OpenEndsFacts, StaysMoves DEF BridgeInv
<1>2. status'[i] = "open" => status[i] = "open" \/ \E m \in Opens : opening'[m] = i
  BY OpenEndsFacts
<1>3. \A m \in Opens : opening[m] = i => opening'[m] = i
  BY OpenEndsFacts, Constants
<1>4. page' = page
  BY OpenEndsFacts
<1> QED BY <1>1, <1>2, <1>3, <1>4, ReachKept

LEMMA SftpHostStartsKeeps ==
  ASSUME SftpInv, HostStartsOpen PROVE SftpInv'
<1>1. /\ Moves(asked, asked', 1, {}) /\ asked[1].method = "openSession" /\ 1 \in DOMAIN asked
      /\ UNCHANGED <<page, taps, status, user>> /\ opening' \in [Opens -> Ids \cup Stages]
      /\ \A n \in Opens : opening'[n] # "none" => opening[n] # "none" \/ asked[1] = OpenCall(n)
      /\ \A n \in Opens : opening'[n] \in Ids => opening'[n] = opening[n]
  BY HostStartsFacts, SftpFields
<1>2. PICK m \in Opens : /\ asked[1] = OpenCall(m) /\ opening'[m] = "running"
                         /\ \A n \in Opens \ {m} : opening'[n] = opening[n]
  BY HostStartsFacts, SftpFields
<1>3. opening[m] = "none" /\ \A n \in Opens : opening[n] \in Ids => opening'[n] = opening[n]
  BY <1>1, <1>2, OpenCalls, Constants DEF SftpInv, OpensDistinct, IsA
<1>4. BridgeInv' /\ OpensDistinct' /\ TokensFit'
  BY <1>1, QuietKept, SftpFields DEF SftpInv
<1>5. SftpSessions' /\ SessionsOpened' /\ ListsAreAnswered' /\ FilesAreComing'
  BY <1>1, SftpShownKept
<1>6. FirstOpen' /\ NewestOpen'
  BY <1>1, FirstKept, NewestKept, SftpFields DEF SftpInv
<1>7. taps' <= 2 => \A i \in Ids : Reached(i)'
  BY <1>1, <1>3, SameReach, SftpFields DEF SftpInv
<1> QED BY <1>1, <1>4, <1>5, <1>6, <1>7 DEF SftpInv

LEMMA SftpOpenEndsKeeps ==
  ASSUME SftpInv, NEW n \in Opens, OpenEnds(n) PROVE SftpInv'
<1>1. /\ opening[n] = "running" /\ asked' = asked /\ UNCHANGED <<page, taps, user>>
      /\ opening' \in [Opens -> Ids \cup Stages] /\ opening'[n] # "none"
      /\ \A m \in Opens \ {n} : opening'[m] = opening[m]
      /\ status' \in [Ids -> {"fresh", "open", "closed"}]
      /\ \/ opening'[n] = "failed" /\ UNCHANGED status
         \/ /\ opening'[n] \in Ids /\ status[opening'[n]] = "fresh" /\ status'[opening'[n]] = "open"
            /\ \A i \in Ids : i # opening'[n] => status'[i] = status[i]
  BY OpenEndsFacts, SftpFields
<1>2. Moves(asked, asked', 0, {})
  BY <1>1, StaysMoves, SftpFields
<1>3. \A m \in Opens : opening'[m] # "none" => opening[m] # "none"
  BY <1>1
<1>4. BridgeInv' /\ OpensDistinct' /\ TokensFit'
  BY <1>1, <1>2, <1>3, QuietKept, SftpFields DEF SftpInv
<1>5. \A i \in Ids : status[i] = "open" => status'[i] = "open" /\ i # opening'[n]
  BY <1>1, Constants
<1>6. ListsAreAnswered' /\ FilesAreComing' /\ SessionsOpened'
  <2>1. \A i \in Ids : status[i] # "fresh" => status'[i] # "fresh"
    BY <1>1
  <2> QED BY <1>1, <1>2, <1>5, <2>1, ListsKept, FilesKept, OpenedKept, SftpFields DEF SftpInv
<1>7. FirstOpen' /\ NewestOpen'
  BY <1>1, <1>2, <1>3, FirstKept, NewestKept, SftpFields DEF SftpInv
<1>8. SftpSessions'
  <2>1. CASE opening'[n] = "failed" /\ UNCHANGED status
    <3>1. \A m \in Opens : opening'[m] \in Ids => opening'[m] = opening[m]
      BY <1>1, <2>1, Constants
    <3> QED BY <1>1, <1>2, <1>5, <3>1, SessionsKept, SftpFields DEF SftpInv
  <2>2. CASE /\ opening'[n] \in Ids /\ status[opening'[n]] = "fresh" /\ status'[opening'[n]] = "open"
             /\ \A i \in Ids : i # opening'[n] => status'[i] = status[i]
    <3>1. PICK i \in Ids : i = opening'[n]
      BY <2>2
    <3>2. \A m \in Opens \ {n} : opening'[m] \in Ids => opening[m] = opening'[m] /\ opening'[m] # i
      <4>1. \A m \in Opens : opening[m] \in Ids => status[opening[m]] = "open"
        BY DEF SftpInv, SftpSessions
      <4> QED BY <1>1, <1>5, <3>1, <4>1
    <3>3. \A k \in DOMAIN asked : asked[k].method = "closeSession" => asked[k].session # i
      BY <2>2, <3>1 DEF SftpInv, SessionsOpened, IsA
    <3>4. page.sessionRef # i
      BY <2>2, <3>1, Constants DEF SftpInv, SessionsOpened
    <3>5. ASSUME NEW m \in Opens, opening'[m] \in Ids
          PROVE  /\ status'[opening'[m]] = "open" /\ opening'[m] # page.sessionRef
                 /\ \A l \in Opens : opening'[l] = opening'[m] => l = m
                 /\ \A k \in DOMAIN asked :
                      asked[k].method = "closeSession" => asked[k].session # opening'[m]
      <4>1. CASE m = n
        BY <2>2, <3>1, <3>2, <3>3, <3>4, <4>1
      <4>2. CASE m # n
        <5>1. opening'[m] = opening[m] /\ opening[m] \in Ids /\ opening'[m] # i
          BY <3>2, <3>5, <4>2
        <5>2. /\ status[opening[m]] = "open" /\ opening[m] # page.sessionRef
              /\ \A l \in Opens : opening[l] = opening[m] => l = m
              /\ \A k \in DOMAIN asked : asked[k].method = "closeSession" => asked[k].session # opening[m]
          BY <5>1 DEF SftpInv, SftpSessions, IsA
        <5> QED BY <1>1, <1>5, <3>1, <5>1, <5>2
      <4> QED BY <4>1, <4>2
    <3>6. page.sessionRef # None /\ ~page.disposedRef => status'[page.sessionRef] = "open"
      BY <1>5, SftpFields DEF SftpInv, SftpSessions
    <3> QED BY <1>1, <3>5, <3>6 DEF SftpInv, SftpSessions, IsA
  <2> QED BY <1>1, <2>1, <2>2
<1>9. taps' <= 2 => \A i \in Ids : Reached(i)'
  BY <1>1, OpenEndsReach, SftpFields DEF SftpInv
<1> QED BY <1>1, <1>4, <1>6, <1>7, <1>8, <1>9 DEF SftpInv

LEMMA BridgeStarts ==
  ASSUME asked = <<>>, taps = 0, user = None, status = [i \in Ids |-> "fresh"],
         opening = [n \in Opens |-> "none"]
  PROVE  /\ BridgeInv /\ OpensDistinct /\ \A n \in Opens : ~UnderWay(n)
         /\ Cardinality(Lookups(asked)) = 0 /\ \A i \in Ids : Reached(i)
<1>1. asked \in Seq(Calls) /\ DOMAIN asked = {} /\ taps \in 0..MaxTaps
  BY Constants
<1>2. BridgeInv
  BY <1>1 DEF BridgeInv, Stages
<1>3. OpensDistinct /\ \A n \in Opens : ~UnderWay(n)
  BY <1>1 DEF OpensDistinct, UnderWay
<1>4. Lookups(asked) = {}
  BY <1>1 DEF Lookups
<1>5. Cardinality(Lookups(asked)) = 0
  BY <1>4, FS_EmptySet
<1>6. \A i \in Ids : Reached(i)
  BY DEF Reached, Live
<1> QED BY <1>2, <1>3, <1>5, <1>6

LEMMA SftpInit ==
  ASSUME Sftp!Init PROVE SftpInv
<1>1. /\ page = [name |-> "SFTPPage", disposedRef |-> FALSE, tokenRef |-> 0,
                 connecting |-> FALSE, connected |-> FALSE,
                 sessionRef |-> None, currentPath |-> Root,
                 files |-> [session |-> None, path |-> Root]]
      /\ asked = <<>> /\ taps = 0 /\ user = None /\ status = [i \in Ids |-> "fresh"]
      /\ opening = [n \in Opens |-> "none"]
  BY DEF Sftp!Init, Sftp!BridgeInit, Sftp!TableInit, Sftp!Opens, Opens
<1>2. /\ BridgeInv /\ OpensDistinct /\ (\A n \in Opens : ~UnderWay(n))
      /\ Cardinality(Lookups(asked)) = 0 /\ \A i \in Ids : Reached(i)
  BY <1>1, BridgeStarts
<1>3. page \in Sftp!Page
  BY <1>1, Constants DEF Sftp!Page
<1>4. TokensFit
  BY <1>1, <1>2 DEF TokensFit, Unmounted
<1>5. DOMAIN asked = {} /\ \A n \in Opens : opening[n] = "none"
  BY <1>1
<1>6. SftpSessions /\ SessionsOpened /\ ListsAreAnswered /\ FilesAreComing
  BY <1>1, <1>5, Constants DEF SftpSessions, SessionsOpened, ListsAreAnswered, FilesAreComing, IsA
<1>7. FirstOpen /\ NewestOpen
  BY <1>1, <1>2, <1>5 DEF FirstOpen, NewestOpen
<1> QED BY <1>2, <1>3, <1>4, <1>6, <1>7 DEF SftpInv

(* What the host or the page does, on the page that is shown. *)
LEMMA SftpKeeps ==
  ASSUME SftpInv, [Next]_vars PROVE SftpInv'
<1>1. ~Shows("MonitorPage") /\ ~Shows("SCPPage")
  BY SftpFields DEF Shows
<1>2. CASE HostStartsOpen
  BY <1>2, SftpHostStartsKeeps
<1>3. ASSUME NEW n \in Opens, OpenEnds(n) PROVE SftpInv'
  BY <1>3, SftpOpenEndsKeeps
<1>4. CASE Sftp!Next
  <2>1. CASE Sftp!Tap
    BY <2>1, SftpTapKeeps
  <2>2. CASE Sftp!Answer
    BY <2>2, SftpHasPasswordKeeps, SftpListAnsweredKeeps, SftpCloseAnsweredKeeps DEF Sftp!Answer
  <2>3. CASE Sftp!Unmount
    BY <2>3, SftpUnmountKeeps
  <2>4. ASSUME NEW n \in Opens, Sftp!Resume(n) PROVE SftpInv'
    BY <2>4, SftpResumeKeeps
  <2>5. ASSUME NEW path \in Dirs, Sftp!Navigate(path) PROVE SftpInv'
    BY <2>5, SftpNavigateKeeps
  <2> QED BY <1>4, <2>1, <2>2, <2>3, <2>4, <2>5 DEF Sftp!Next, Sftp!Opens, Opens
<1>5. CASE UNCHANGED vars
  BY <1>5 DEF vars, SftpInv, BridgeInv, OpensDistinct, TokensFit, SftpSessions, SessionsOpened,
     ListsAreAnswered, FilesAreComing, FirstOpen, NewestOpen, Reached, IsA, UnderWay, Unmounted,
     Live, OnItsWay, IsLastList, NoPassword
<1> QED BY <1>1, <1>2, <1>3, <1>4, <1>5 DEF Next

----------------------------------------------------------------------------
(* The monitor *)

LEMMA MonitorFields ==
  ASSUME MonitorInv
  PROVE  /\ page \in Monitor!Page /\ BridgeInv /\ page.name = "MonitorPage" /\ page.disposedRef \in BOOLEAN
         /\ page.tokenRef \in Nat /\ page.tokenRef <= MaxOpens
         /\ page.selected \in BOOLEAN /\ page.loading \in BOOLEAN /\ page.timer \in BOOLEAN
         /\ page.sessionRef \in Ids \cup {None}
         /\ taps \in Nat /\ taps <= MaxTaps /\ Unmounted \in {0, 1}
         /\ asked \in Seq(Calls) /\ opening \in [Opens -> Ids \cup Stages]
         /\ status \in [Ids -> {"fresh", "open", "closed"}] /\ user = None
         /\ Cardinality(Lookups(asked)) \in Nat
<1>1. page.tokenRef \in 0..MaxOpens /\ taps \in 0..MaxTaps /\ asked \in Seq(Calls)
  BY DEF MonitorInv, BridgeInv, Monitor!Page
<1> QED BY <1>1, Constants, LookupsFinite DEF MonitorInv, BridgeInv, Monitor!Page, Unmounted

LEMMA MonitorOpensKept ==
  ASSUME MonitorInv, NEW d, NEW new, Moves(asked, asked', d, new),
         \A c \in new : c.method # "hasPassword" /\ c.method # "openSession",
         page'.selected = page.selected, page'.sessionRef = page.sessionRef,
         page.disposedRef => page'.disposedRef, ~page'.disposedRef => page'.tokenRef = page.tokenRef,
         ~page'.selected => page'.tokenRef = Unmounted',
         \A n \in Opens : opening'[n] # "none" =>
           opening[n] # "none" \/ (d = 1 /\ asked[1] = OpenCall(n))
  PROVE  MonitorOpens'
<1>1. \A n \in Opens : UnderWay(n)' => UnderWay(n)
  <2>1. \A n : OpenCall(n) \notin new
    BY OpenCalls
  <2> QED BY <2>1, UnderWayKept
<1>2. ~page'.selected => /\ page'.sessionRef = None /\ page'.tokenRef = Unmounted'
                         /\ \A n \in Opens : ~UnderWay(n)'
  BY <1>1 DEF MonitorInv, MonitorOpens
<1>3. ASSUME NEW j \in DOMAIN asked', NEW k \in DOMAIN asked',
             asked'[j].method = "openSession", asked'[k].method = "hasPassword"
      PROVE  k < j
  <2>1. /\ j + d \in DOMAIN asked /\ asked[j + d].method = "openSession"
        /\ k + d \in DOMAIN asked /\ asked[k + d].method = "hasPassword"
    BY <1>3, Entries, MonitorFields
  <2>2. k + d < j + d
    BY <2>1 DEF MonitorInv, MonitorOpens, IsA
  <2> QED BY <2>2, Entries, MonitorFields
<1>4. ASSUME NEW n \in Opens, opening'[n] # "none" PROVE NoPassword'
  <2>1. CASE opening[n] # "none"
    <3>1. NoPassword
      BY <2>1 DEF MonitorInv, MonitorOpens
    <3> QED BY <3>1, NoPasswordKept
  <2>2. CASE d = 1 /\ asked[1] = OpenCall(n)
    <3>1. /\ 1 \in DOMAIN asked /\ asked[1].method = "openSession"
          /\ \A k \in DOMAIN asked : k \in Nat /\ k >= 1
      BY <2>2, OpenCalls DEF Moves
    <3>2. \A k \in DOMAIN asked : asked[k].method = "hasPassword" => k < 1
      BY <3>1 DEF MonitorInv, MonitorOpens, IsA
    <3>3. NoPassword
      BY <3>1, <3>2 DEF NoPassword
    <3> QED BY <3>3, NoPasswordKept
  <2> QED BY <1>4, <2>1, <2>2
<1>5. ASSUME page.sessionRef # None
      PROVE  NoPassword' /\ (~page'.disposedRef => \A n \in Opens : n = page'.tokenRef => ~UnderWay(n)')
  <2>1. NoPassword
    BY <1>5 DEF MonitorInv, MonitorOpens
  <2>2. NoPassword'
    BY <2>1, NoPasswordKept
  <2>3. ~page.disposedRef => \A n \in Opens : n = page.tokenRef => ~UnderWay(n)
    BY <1>5 DEF MonitorInv, MonitorOpens
  <2> QED BY <1>1, <2>2, <2>3
<1> QED BY <1>2, <1>3, <1>4, <1>5 DEF MonitorOpens, IsA

LEMMA MonitorTapKeeps ==
  ASSUME MonitorInv, Monitor!Tap PROVE MonitorInv'
<1> PICK c : c = [method |-> "hasPassword"]
  OBVIOUS
<1>1. /\ ~page.disposedRef /\ ~page.selected /\ taps < MaxTaps
      /\ taps' = taps + 1 /\ asked' = Append(asked, c) /\ UNCHANGED <<page, opening, status, user>>
  BY DEF Monitor!Tap, Monitor!Ask
<1>2. c \in Calls /\ c.method = "hasPassword" /\ \A n : c # OpenCall(n)
  BY PasswordCall, OpenCalls
<1>3. Moves(asked, asked', 0, {c})
  BY <1>1, <1>2, AppendMoves, MonitorFields
<1>4. BridgeInv'
  <2>1. asked' \in Seq(Calls)
    BY <1>3 DEF Moves
  <2>2. taps' \in 0..MaxTaps
    BY <1>1, MonitorFields, Constants
  <2> QED BY <1>1, <2>1, <2>2, MonitorFields DEF BridgeInv
<1>5. OpensDistinct'
  BY <1>1, <1>2, <1>3, DistinctKept DEF MonitorInv
<1>6. TokensFit'
  <2>1. Cardinality(Lookups(asked')) <= Cardinality(Lookups(asked)) + 1
        /\ Cardinality(Lookups(asked')) \in Nat
    BY <1>1, <1>2, <1>4, LookupsAdded, LookupsFinite, MonitorFields DEF BridgeInv
  <2>2. page.tokenRef + Cardinality(Lookups(asked')) <= taps' + Unmounted
    BY <1>1, <2>1, MonitorFields DEF MonitorInv, TokensFit
  <2>3. \A n \in Opens : UnderWay(n)' => n <= page'.tokenRef
    BY <1>1, <1>2, <1>3, OpensKept, MonitorFields DEF MonitorInv
  <2> QED BY <1>1, <2>2, <2>3 DEF TokensFit, Unmounted
<1>7. \A n \in Opens : ~UnderWay(n)
  BY <1>1 DEF MonitorInv, MonitorOpens
<1>8. \A n \in Opens : ~UnderWay(n)'
  BY <1>1, <1>2, <1>3, <1>7, UnderWayKept
<1>9. MonitorOpens'
  <2>1. ASSUME NEW j \in DOMAIN asked', asked'[j].method = "openSession" PROVE FALSE
    <3>1. asked'[j] \in Calls
      BY <1>3 DEF Moves
    <3>2. PICK n \in Opens : asked'[j] = OpenCall(n)
      BY <2>1, <3>1, CallFields
    <3> QED BY <1>8, <3>2 DEF UnderWay
  <2>2. \A n \in Opens : opening'[n] = "none"
    BY <1>8 DEF UnderWay
  <2>3. page.sessionRef = None /\ page.tokenRef = Unmounted
    BY <1>1 DEF MonitorInv, MonitorOpens
  <2> QED BY <1>1, <1>8, <2>1, <2>2, <2>3 DEF MonitorOpens, IsA, Unmounted
<1>10. \A i \in Ids : Reached(i)'
  BY <1>1, <1>2, <1>3, SameReach, MonitorFields DEF MonitorInv
<1> QED BY <1>1, <1>4, <1>5, <1>6, <1>9, <1>10 DEF MonitorInv

(* The password is known: no session has come yet, and the newest open is    *)
(* asked for.                                                                *)
LEMMA MonitorPasswordKnownKeeps ==
  ASSUME MonitorInv, asked # <<>>, Head(asked).method = "hasPassword",
         page' = [page EXCEPT !.timer = FALSE, !.selected = TRUE, !.loading = TRUE, !.tokenRef = @ + 1],
         asked' = Append(Tail(asked), OpenCall(page.tokenRef + 1)),
         UNCHANGED <<taps, opening, status, user>>
  PROVE  MonitorInv'
<1>1. asked[1].method = "hasPassword" /\ 1 \in DOMAIN asked /\ 1 \in Lookups(asked) /\ asked \in Seq(Calls)
  BY HeadMoves, MonitorFields DEF Lookups
<1>2. Cardinality(Lookups(asked)) >= 1 /\ Cardinality(Lookups(asked)) \in Nat
  BY <1>1, OneLookup, LookupsFinite
<1>3. PICK n : n = page.tokenRef + 1
  OBVIOUS
<1>4. n \in Opens /\ n \in Nat /\ n <= taps + Unmounted
  <2>1. n <= taps + Unmounted /\ n \in Nat /\ n >= 1
    BY <1>2, <1>3, MonitorFields DEF MonitorInv, TokensFit
  <2> QED BY <2>1, Constants, MonitorFields DEF Opens
<1>5. /\ page' \in Monitor!Page /\ page'.tokenRef = n /\ page'.disposedRef = page.disposedRef
      /\ page'.selected /\ page'.sessionRef = page.sessionRef
  <2>1. n \in 0..MaxOpens
    BY <1>4 DEF Opens
  <2> QED BY <1>3, <2>1, MonitorFields DEF Monitor!Page
<1>6. PICK c : c = OpenCall(n)
  OBVIOUS
<1>7. c \in Calls /\ c.method = "openSession" /\ c.open = n /\ \A m : c = OpenCall(m) => m = n
  BY <1>4, <1>6, OpenCalls
<1>8. Moves(asked, asked', 1, {c})
  BY <1>3, <1>6, <1>7, HeadMoves, MonitorFields
<1>9. ~UnderWay(n)
  BY <1>3, <1>4, MonitorFields DEF MonitorInv, TokensFit
<1>10. BridgeInv'
  <2>1. asked' \in Seq(Calls)
    BY <1>8 DEF Moves
  <2> QED BY <2>1, MonitorFields DEF BridgeInv
<1>11. OpensDistinct'
  BY <1>7, <1>8, <1>9, DistinctKept DEF MonitorInv
<1>12. TokensFit'
  <2>1. Cardinality(Lookups(asked')) + 1 <= Cardinality(Lookups(asked))
    BY <1>1, <1>7, <1>8, LookupsKept
  <2>2. Cardinality(Lookups(asked')) \in Nat
    BY <1>10, LookupsFinite DEF BridgeInv
  <2>3. page'.tokenRef + Cardinality(Lookups(asked')) <= taps + Unmounted
    BY <1>2, <1>3, <1>5, <2>1, <2>2, MonitorFields DEF MonitorInv, TokensFit
  <2>4. \A m \in Opens : UnderWay(m)' => m <= page'.tokenRef
    <3>1. \A m \in Opens : OpenCall(m) \in {c} => m <= page'.tokenRef
      BY <1>4, <1>5, <1>7
    <3>2. page'.tokenRef \in Nat /\ page.tokenRef <= page'.tokenRef
      BY <1>3, <1>4, <1>5, MonitorFields
    <3> QED BY <1>8, <3>1, <3>2, OpensKept, MonitorFields DEF MonitorInv
  <2>5. Unmounted' = Unmounted
    BY <1>5 DEF Unmounted
  <2> QED BY <2>3, <2>4, <2>5 DEF TokensFit
<1>13. MonitorOpens'
  <2>1. ~NoPassword
    BY <1>1 DEF NoPassword
  <2>2. page.sessionRef = None /\ \A m \in Opens : opening[m] = "none"
    BY <2>1 DEF MonitorInv, MonitorOpens
  <2>3. ASSUME NEW j \in DOMAIN asked', NEW k \in DOMAIN asked',
               asked'[j].method = "openSession", asked'[k].method = "hasPassword"
        PROVE  k < j
    <3>1. k + 1 \in DOMAIN asked /\ asked[k + 1].method = "hasPassword" /\ k \in Nat /\ j \in Nat
      BY <1>7, <1>8, <2>3, Entries, MonitorFields
    <3>2. CASE j + 1 \in DOMAIN asked /\ asked'[j] = asked[j + 1]
      <4>1. k + 1 < j + 1
        BY <2>3, <3>1, <3>2 DEF MonitorInv, MonitorOpens, IsA
      <4> QED BY <3>1, <4>1
    <3>3. CASE ~(j + 1 \in DOMAIN asked /\ asked'[j] = asked[j + 1])
      <4>1. k + 1 < j + 1
        BY <1>8, <3>1, <3>3 DEF Moves
      <4> QED BY <3>1, <4>1
    <3> QED BY <3>2, <3>3
  <2> QED BY <1>5, <2>2, <2>3 DEF MonitorOpens, IsA
<1>14. \A i \in Ids : Reached(i)'
  BY <1>1, <1>5, <1>8, SameReach, MonitorFields DEF MonitorInv
<1> QED BY <1>5, <1>10, <1>11, <1>12, <1>13, <1>14 DEF MonitorInv

(* A step that neither takes a token nor gives the page a session. *)
LEMMA MonitorQuiet ==
  ASSUME MonitorInv, NEW d, NEW new, Moves(asked, asked', d, new),
         \A c \in new : c \in Calls /\ c.method # "hasPassword" /\ c.method # "openSession",
         page' \in Monitor!Page, page'.tokenRef = page.tokenRef, page'.disposedRef = page.disposedRef,
         page'.selected = page.selected, page'.sessionRef = page.sessionRef,
         taps' = taps, user' = user, status' \in [Ids -> {"fresh", "open", "closed"}],
         opening' \in [Opens -> Ids \cup Stages],
         \A n \in Opens : opening'[n] # "none" =>
           opening[n] # "none" \/ (d = 1 /\ asked[1] = OpenCall(n)),
         \A i \in Ids : Reached(i)'
  PROVE  MonitorInv'
<1>1. BridgeInv' /\ OpensDistinct' /\ TokensFit'
  BY QuietKept, MonitorFields DEF MonitorInv
<1>2. ~page'.selected => page'.tokenRef = Unmounted'
  BY DEF MonitorInv, MonitorOpens, Unmounted
<1>3. MonitorOpens'
  BY <1>2, MonitorOpensKept
<1> QED BY <1>1, <1>3 DEF MonitorInv

LEMMA MonitorHasPasswordKeeps ==
  ASSUME MonitorInv, Monitor!HasPassword PROVE MonitorInv'
<1>1. asked # <<>> /\ Head(asked).method = "hasPassword" /\ UNCHANGED <<taps, opening, status, user>>
  BY DEF Monitor!HasPassword, Monitor!Answered
<1>2. asked[1].method = "hasPassword" /\ 1 \in DOMAIN asked /\ Moves(asked, Tail(asked), 1, {})
  BY <1>1, HeadMoves, MonitorFields
<1>3. page.sessionRef = None
  BY <1>2 DEF MonitorInv, MonitorOpens, NoPassword
<1>4. \/ /\ page' = [[page EXCEPT !.timer = FALSE] EXCEPT !.selected = TRUE, !.loading = TRUE, !.tokenRef = @ + 1]
         /\ asked' = Append(Tail(asked), OpenCall(page.tokenRef + 1))
      \/ asked' = Tail(asked) /\ UNCHANGED page
  BY <1>3 DEF Monitor!HasPassword, Monitor!DoneAsking, Monitor!Done, Monitor!OpenCall, OpenCall, Monitor!Select
<1>5. CASE asked' = Tail(asked) /\ UNCHANGED page
  <2>1. \A i \in Ids : Reached(i)'
    BY <1>1, <1>2, <1>5, SameReach, MonitorFields DEF MonitorInv
  <2> QED BY <1>1, <1>2, <1>5, <2>1, MonitorQuiet, MonitorFields
<1>6. CASE /\ page' = [[page EXCEPT !.timer = FALSE] EXCEPT !.selected = TRUE, !.loading = TRUE, !.tokenRef = @ + 1]
           /\ asked' = Append(Tail(asked), OpenCall(page.tokenRef + 1))
  <2>1. page' = [page EXCEPT !.timer = FALSE, !.selected = TRUE, !.loading = TRUE, !.tokenRef = @ + 1]
    BY <1>6, MonitorFields DEF Monitor!Page
  <2> QED BY <1>1, <1>6, <2>1, MonitorPasswordKnownKeeps
<1> QED BY <1>4, <1>5, <1>6

LEMMA MonitorCloseAnsweredKeeps ==
  ASSUME MonitorInv, Monitor!CloseAnswered PROVE MonitorInv'
<1>1. PICK c : c = Head(asked)
  OBVIOUS
<1>2. asked # <<>> /\ c.method = "closeSession"
  BY <1>1 DEF Monitor!CloseAnswered, Monitor!Answered
<1>3. /\ Moves(asked, Tail(asked), 1, {}) /\ asked[1] = c /\ 1 \in DOMAIN asked
      /\ c \in Calls /\ c.session \in Ids /\ c.then # "select"
  BY <1>1, <1>2, HeadMoves, CallFields, MonitorFields
<1>4. /\ asked' = Tail(asked) /\ HostCloses(c.session) /\ UNCHANGED <<taps, opening>>
      /\ page' = page \/ page' = [page EXCEPT !.loading = FALSE]
  BY <1>1, <1>3 DEF Monitor!CloseAnswered, Monitor!Done, Monitor!HostCloses, HostCloses,
              Monitor!Live, Live, Monitor!Close, Close, Monitor!tvars, tvars
<1>5. /\ status' \in [Ids -> {"fresh", "open", "closed"}] /\ user' = user
      /\ status'[c.session] # "open"
      /\ \A j \in Ids : status'[j] = "open" => status[j] = "open"
  BY <1>3, <1>4, HostClosesStatus, MonitorFields
<1>6. /\ page' \in Monitor!Page /\ page'.tokenRef = page.tokenRef /\ page'.disposedRef = page.disposedRef
      /\ page'.selected = page.selected /\ page'.sessionRef = page.sessionRef
  BY <1>4, MonitorFields DEF Monitor!Page
<1>7. ASSUME NEW i \in Ids PROVE Reached(i)'
  <2>1. Reached(i)
    BY DEF MonitorInv
  <2>2. asked[1].session = i => status'[i] # "open"
    BY <1>3, <1>5
  <2> QED BY <1>3, <1>4, <1>5, <1>6, <2>1, <2>2, ReachKept, MonitorFields
<1> QED BY <1>3, <1>4, <1>5, <1>6, <1>7, MonitorQuiet, MonitorFields

LEMMA MonitorMetricsAnsweredKeeps ==
  ASSUME MonitorInv, Monitor!MetricsAnswered PROVE MonitorInv'
<1>1. /\ asked # <<>> /\ Head(asked).method = "fetchMetrics" /\ asked' = Tail(asked)
      /\ page' = page \/ page' = [page EXCEPT !.timer = TRUE, !.loading = FALSE]
      /\ UNCHANGED <<taps, opening, status, user>>
  BY DEF Monitor!MetricsAnswered, Monitor!Answered, Monitor!Done
<1>2. Moves(asked, asked', 1, {}) /\ asked[1].method = "fetchMetrics"
  BY <1>1, HeadMoves, MonitorFields
<1>3. /\ page' \in Monitor!Page /\ page'.tokenRef = page.tokenRef /\ page'.disposedRef = page.disposedRef
      /\ page'.selected = page.selected /\ page'.sessionRef = page.sessionRef
  BY <1>1, MonitorFields DEF Monitor!Page
<1>4. \A i \in Ids : Reached(i)'
  BY <1>1, <1>2, <1>3, SameReach, MonitorFields DEF MonitorInv
<1> QED BY <1>1, <1>2, <1>3, <1>4, MonitorQuiet, MonitorFields

LEMMA MonitorTickKeeps ==
  ASSUME MonitorInv, Monitor!Tick PROVE MonitorInv'
<1>1. PICK c : c = [method |-> "fetchMetrics", session |-> page.sessionRef, then |-> "return"]
  OBVIOUS
<1>2. /\ page.sessionRef # None /\ asked' = Append(asked, c)
      /\ UNCHANGED <<page, taps, opening, status, user>>
  BY <1>1 DEF Monitor!Tick, Monitor!Metrics, Monitor!Ask
<1>3. c \in Calls /\ c.method = "fetchMetrics"
  BY <1>1, <1>2, CallShapes, MonitorFields
<1>4. Moves(asked, asked', 0, {c})
  BY <1>2, <1>3, AppendMoves, MonitorFields
<1>5. \A i \in Ids : Reached(i)'
  BY <1>2, <1>4, SameReach, MonitorFields DEF MonitorInv
<1> QED BY <1>2, <1>3, <1>4, <1>5, MonitorQuiet, MonitorFields

LEMMA MonitorUnmountKeeps ==
  ASSUME MonitorInv, Monitor!Unmount PROVE MonitorInv'
<1>1. PICK c : c = [method |-> "closeSession", session |-> page.sessionRef, then |-> "return"]
  OBVIOUS
<1>2. /\ ~page.disposedRef /\ page' = [page EXCEPT !.disposedRef = TRUE, !.tokenRef = @ + 1, !.timer = FALSE]
      /\ IF page.sessionRef = None THEN asked' = asked ELSE asked' = Append(asked, c)
      /\ UNCHANGED <<taps, opening, status, user>>
  BY <1>1 DEF Monitor!Unmount, Monitor!AskClose, Monitor!Ask
<1>3. page.sessionRef # None => c \in Calls /\ c.method = "closeSession"
  BY <1>1, CallShapes, MonitorFields
<1>4. PICK new : /\ Moves(asked, asked', 0, new) /\ new \subseteq Calls
                 /\ \A m \in new : m.method = "closeSession"
  <2>1. CASE page.sessionRef = None
    <3>1. Moves(asked, asked', 0, {})
      BY <1>2, <2>1, StaysMoves, MonitorFields
    <3> QED BY <3>1
  <2>2. CASE page.sessionRef # None
    <3>1. Moves(asked, asked', 0, {c})
      BY <1>2, <1>3, <2>2, AppendMoves, MonitorFields
    <3> QED BY <1>3, <2>2, <3>1
  <2> QED BY <2>1, <2>2
<1>5. page.tokenRef + Cardinality(Lookups(asked)) <= taps /\ page.tokenRef + 1 <= MaxOpens
  <2>1. page.tokenRef + Cardinality(Lookups(asked)) <= taps
    BY <1>2, MonitorFields DEF MonitorInv, TokensFit, Unmounted
  <2> QED BY <2>1, Constants, MonitorFields
<1>6. /\ page' \in Monitor!Page /\ page'.tokenRef = page.tokenRef + 1 /\ page'.disposedRef
      /\ page'.selected = page.selected /\ page'.sessionRef = page.sessionRef
  <2>1. page.tokenRef + 1 \in 0..MaxOpens
    BY <1>5, Constants, MonitorFields
  <2> QED BY <1>2, <2>1, MonitorFields DEF Monitor!Page
<1>7. BridgeInv'
  <2>1. asked' \in Seq(Calls)
    BY <1>4 DEF Moves
  <2> QED BY <1>2, <2>1, MonitorFields DEF BridgeInv
<1>8. \A n : OpenCall(n) \notin new
  BY <1>4, OpenCalls
<1>9. OpensDistinct'
  BY <1>2, <1>4, <1>8, DistinctKept DEF MonitorInv
<1>10. Unmounted' = 1 /\ Unmounted = 0
  BY <1>2, <1>6 DEF Unmounted
<1>11. TokensFit'
  <2>1. Cardinality(Lookups(asked')) <= Cardinality(Lookups(asked))
    <3>1. \A m \in new : m.method # "hasPassword"
      BY <1>4
    <3> QED BY <1>4, <3>1, LookupsKept
  <2>2. Cardinality(Lookups(asked')) \in Nat
    BY <1>7, LookupsFinite DEF BridgeInv
  <2>3. page'.tokenRef + Cardinality(Lookups(asked')) <= taps' + 1
    BY <1>2, <1>5, <1>6, <2>1, <2>2, MonitorFields
  <2>4. \A n \in Opens : UnderWay(n)' => n <= page'.tokenRef
    <3>1. page'.tokenRef \in Nat /\ page.tokenRef <= page'.tokenRef
      BY <1>6, MonitorFields
    <3> QED BY <1>2, <1>4, <1>8, <3>1, OpensKept, MonitorFields DEF MonitorInv
  <2> QED BY <1>10, <2>3, <2>4 DEF TokensFit
<1>12. MonitorOpens'
  <2>1. ~page'.selected => page'.tokenRef = Unmounted'
    BY <1>6, <1>10 DEF MonitorInv, MonitorOpens
  <2>2. \A m \in new : m.method # "hasPassword" /\ m.method # "openSession"
    BY <1>4
  <2> QED BY <1>2, <1>4, <1>6, <2>1, <2>2, MonitorOpensKept
<1>13. \A i \in Ids : Reached(i)'
  BY <1>2, <1>4, <1>6, SameReach, MonitorFields DEF MonitorInv
<1> QED BY <1>6, <1>7, <1>9, <1>11, <1>12, <1>13 DEF MonitorInv

(* The open has failed, or its session is asked to be closed. *)
LEMMA MonitorLateKeeps ==
  ASSUME MonitorInv, NEW n \in Opens, NEW i, i = opening[n], opening' = [opening EXCEPT ![n] = "none"],
         page' = page \/ page' = [page EXCEPT !.loading = FALSE],
         \/ i = "failed" /\ asked' = asked
         \/ /\ i \in Ids
            /\ asked' = Append(asked, [method |-> "closeSession", session |-> i, then |-> "endLoading"]),
         UNCHANGED <<taps, status, user>>
  PROVE  MonitorInv'
<1>1. PICK c : c = [method |-> "closeSession", session |-> i, then |-> "endLoading"]
  OBVIOUS
<1>2. i \in Ids => c \in Calls /\ c.method = "closeSession" /\ c.session = i
  BY <1>1, CallShapes
<1>3. PICK new : /\ Moves(asked, asked', 0, new)
                 /\ \A m \in new : m \in Calls /\ m.method = "closeSession"
                 /\ i \in Ids => c \in new
  <2>1. CASE i = "failed" /\ asked' = asked
    <3>1. Moves(asked, asked', 0, {}) /\ i \notin Ids
      BY <2>1, StaysMoves, MonitorFields, Constants
    <3> QED BY <3>1
  <2>2. CASE i \in Ids /\ asked' = Append(asked, c)
    <3>1. Moves(asked, asked', 0, {c})
      BY <1>2, <2>2, AppendMoves, MonitorFields
    <3> QED BY <1>2, <2>2, <3>1
  <2> QED BY <1>1, <2>1, <2>2
<1>4. /\ opening' \in [Opens -> Ids \cup Stages] /\ opening'[n] = "none"
      /\ \A m \in Opens : m # n => opening'[m] = opening[m]
  BY MonitorFields DEF Stages
<1>5. \A m \in Opens : opening'[m] # "none" => opening[m] # "none"
  BY <1>4
<1>6. /\ page' \in Monitor!Page /\ page'.tokenRef = page.tokenRef /\ page'.disposedRef = page.disposedRef
      /\ page'.selected = page.selected /\ page'.sessionRef = page.sessionRef
  BY MonitorFields DEF Monitor!Page
<1>7. ASSUME NEW j \in Ids PROVE Reached(j)'
  <2>1. Reached(j)
    BY DEF MonitorInv
  <2>2. \A m \in Opens : opening[m] = j =>
          opening'[m] = j \/ \E b \in new : b.method = "closeSession" /\ b.session = j
    BY <1>2, <1>3, <1>4
  <2> QED BY <1>3, <1>6, <2>1, <2>2, ReachKept, MonitorFields
<1>8. \A m \in new : m \in Calls /\ m.method # "hasPassword" /\ m.method # "openSession"
  BY <1>3
<1> QED BY <1>3, <1>4, <1>5, <1>6, <1>7, <1>8, MonitorQuiet, MonitorFields

(* The page takes the session of its newest open, and has none so far. *)
LEMMA MonitorConnectedKeeps ==
  ASSUME MonitorInv, NEW n \in Opens, NEW i \in Ids, i = opening[n], opening' = [opening EXCEPT ![n] = "none"],
         ~page.disposedRef, n = page.tokenRef, page' = [page EXCEPT !.sessionRef = i],
         asked' = Append(asked, [method |-> "fetchMetrics", session |-> i, then |-> "startInterval"]),
         UNCHANGED <<taps, status, user>>
  PROVE  MonitorInv'
<1>1. PICK c : c = [method |-> "fetchMetrics", session |-> i, then |-> "startInterval"]
  OBVIOUS
<1>2. c \in Calls /\ c.method = "fetchMetrics"
  BY <1>1, CallShapes
<1>3. Moves(asked, asked', 0, {c})
  BY <1>1, <1>2, AppendMoves, MonitorFields
<1>4. opening[n] # "none" /\ UnderWay(n)
  BY Constants DEF UnderWay
<1>5. /\ opening' \in [Opens -> Ids \cup Stages] /\ opening'[n] = "none"
      /\ \A m \in Opens : m # n => opening'[m] = opening[m]
  BY MonitorFields DEF Stages
<1>6. \A m \in Opens : opening'[m] # "none" => opening[m] # "none"
  BY <1>5
<1>7. /\ page' \in Monitor!Page /\ page'.tokenRef = page.tokenRef /\ page'.disposedRef = page.disposedRef
      /\ page'.selected = page.selected /\ page'.sessionRef = i
  BY MonitorFields DEF Monitor!Page
<1>8. BridgeInv' /\ OpensDistinct' /\ TokensFit'
  <2>1. \A m \in {c} : m \in Calls /\ m.method # "hasPassword" /\ m.method # "openSession"
    BY <1>2
  <2>2. BridgeInv /\ OpensDistinct /\ TokensFit
    BY DEF MonitorInv
  <2> QED BY <1>3, <1>5, <1>6, <1>7, <2>1, <2>2, QuietKept, MonitorFields
<1>9. page.selected /\ NoPassword /\ page.sessionRef = None
  BY <1>4 DEF MonitorInv, MonitorOpens
<1>10. NoPassword'
  BY <1>2, <1>3, <1>9, NoPasswordKept
<1>11. ~UnderWay(n)'
  <2>1. \A k \in DOMAIN asked : asked[k] # OpenCall(n)
    BY <1>4, AnsweredOnce DEF MonitorInv
  <2>2. c # OpenCall(n)
    BY <1>2, OpenCalls
  <2>3. ASSUME NEW k \in DOMAIN asked' PROVE asked'[k] # OpenCall(n)
    <3>1. \E j \in DOMAIN asked \cup {0} :
            (j \in DOMAIN asked /\ asked'[k] = asked[j]) \/ asked'[k] = c
      BY <1>3, MonitorFields DEF Moves
    <3> QED BY <2>1, <2>2, <3>1
  <2> QED BY <1>5, <2>3 DEF UnderWay
<1>12. MonitorOpens'
  BY <1>7, <1>9, <1>10, <1>11 DEF MonitorOpens, NoPassword, IsA
<1>13. ASSUME NEW j \in Ids PROVE Reached(j)'
  <2>1. Reached(j) /\ page.sessionRef # j
    BY <1>9, Constants DEF MonitorInv
  <2>2. \A m \in Opens : opening[m] = j => opening'[m] = j \/ page'.sessionRef = j
    BY <1>5, <1>7
  <2> QED BY <1>3, <1>7, <2>1, <2>2, ReachKept, MonitorFields
<1> QED BY <1>7, <1>8, <1>12, <1>13 DEF MonitorInv

LEMMA MonitorResumeKeeps ==
  ASSUME MonitorInv, NEW n \in Opens, Monitor!Resume(n) PROVE MonitorInv'
<1>1. PICK i : i = opening[n]
  OBVIOUS
<1>2. /\ i \in Ids \cup {"failed"} /\ opening' = [opening EXCEPT ![n] = "none"]
      /\ UNCHANGED <<taps, status, user>>
  BY <1>1 DEF Monitor!Resume, Monitor!OpenAnswered
<1>3. CASE i = "failed"
  <2>1. page' = [page EXCEPT !.loading = FALSE] /\ asked' = asked
    BY <1>1, <1>3 DEF Monitor!Resume, Monitor!Result
  <2> QED BY <1>1, <1>2, <1>3, <2>1, MonitorLateKeeps
<1>4. CASE i # "failed"
  <2>1. i \in Ids /\ Monitor!Result(n) = i /\ i # None
    BY <1>1, <1>2, <1>4, Constants DEF Monitor!Result
  <2>2. CASE page.disposedRef \/ n # page.tokenRef
    <3>1. page' = page /\ asked' = Append(asked, [method |-> "closeSession", session |-> i, then |-> "endLoading"])
      BY <2>1, <2>2 DEF Monitor!Resume, Monitor!Ask
    <3> QED BY <1>1, <1>2, <2>1, <3>1, MonitorLateKeeps
  <2>3. CASE ~(page.disposedRef \/ n # page.tokenRef)
    <3>1. [page EXCEPT !.sessionRef = i].sessionRef = i
      BY MonitorFields DEF Monitor!Page
    <3>2. /\ page' = [page EXCEPT !.sessionRef = i]
          /\ asked' = Append(asked, [method |-> "fetchMetrics", session |-> i, then |-> "startInterval"])
      BY <2>1, <2>3, <3>1 DEF Monitor!Resume, Monitor!Metrics, Monitor!Ask
    <3> QED BY <1>1, <1>2, <2>1, <2>3, <3>2, MonitorConnectedKeeps
  <2> QED BY <2>2, <2>3
<1> QED BY <1>3, <1>4

LEMMA MonitorHostStartsKeeps ==
  ASSUME MonitorInv, HostStartsOpen PROVE MonitorInv'
<1>1. /\ Moves(asked, asked', 1, {}) /\ asked[1].method = "openSession" /\ 1 \in DOMAIN asked
      /\ UNCHANGED <<page, taps, status, user>> /\ opening' \in [Opens -> Ids \cup Stages]
      /\ \A n \in Opens : opening'[n] # "none" => opening[n] # "none" \/ asked[1] = OpenCall(n)
  BY HostStartsFacts, MonitorFields
<1>2. PICK m \in Opens : /\ asked[1] = OpenCall(m) /\ opening'[m] = "running"
                         /\ \A n \in Opens \ {m} : opening'[n] = opening[n]
  BY HostStartsFacts, MonitorFields
<1>3. opening[m] = "none" /\ \A n \in Opens : opening[n] \in Ids => opening'[n] = opening[n]
  BY <1>1, <1>2, OpenCalls, Constants DEF MonitorInv, OpensDistinct, IsA
<1>4. \A i \in Ids : Reached(i)'
  BY <1>1, <1>3, SameReach, MonitorFields DEF MonitorInv
<1> QED BY <1>1, <1>4, MonitorQuiet, MonitorFields

LEMMA MonitorOpenEndsKeeps ==
  ASSUME MonitorInv, NEW n \in Opens, OpenEnds(n) PROVE MonitorInv'
<1>1. /\ opening[n] = "running" /\ asked' = asked /\ UNCHANGED <<page, taps, user>>
      /\ opening' \in [Opens -> Ids \cup Stages]
      /\ \A m \in Opens \ {n} : opening'[m] = opening[m]
      /\ status' \in [Ids -> {"fresh", "open", "closed"}]
  BY OpenEndsFacts, MonitorFields
<1>2. Moves(asked, asked', 0, {})
  BY <1>1, StaysMoves, MonitorFields
<1>3. \A m \in Opens : opening'[m] # "none" => opening[m] # "none"
  BY <1>1
<1>4. \A i \in Ids : Reached(i)'
  BY OpenEndsReach, MonitorFields DEF MonitorInv
<1> QED BY <1>1, <1>2, <1>3, <1>4, MonitorQuiet, MonitorFields

LEMMA MonitorInit ==
  ASSUME Monitor!Init PROVE MonitorInv
<1>1. /\ page = [name |-> "MonitorPage", disposedRef |-> FALSE, tokenRef |-> 0,
                 selected |-> FALSE, loading |-> FALSE, sessionRef |-> None, timer |-> FALSE]
      /\ asked = <<>> /\ taps = 0 /\ user = None /\ status = [i \in Ids |-> "fresh"]
      /\ opening = [n \in Opens |-> "none"]
  BY DEF Monitor!Init, Monitor!BridgeInit, Monitor!TableInit, Monitor!Opens, Opens
<1>2. /\ BridgeInv /\ OpensDistinct /\ (\A n \in Opens : ~UnderWay(n))
      /\ Cardinality(Lookups(asked)) = 0 /\ \A i \in Ids : Reached(i)
  BY <1>1, BridgeStarts
<1>3. page \in Monitor!Page
  BY <1>1, Constants DEF Monitor!Page
<1>4. TokensFit
  BY <1>1, <1>2 DEF TokensFit, Unmounted
<1>5. DOMAIN asked = {} /\ \A n \in Opens : opening[n] = "none"
  BY <1>1
<1>6. MonitorOpens
  BY <1>1, <1>2, <1>5 DEF MonitorOpens, Unmounted
<1> QED BY <1>2, <1>3, <1>4, <1>6 DEF MonitorInv

LEMMA MonitorKeeps ==
  ASSUME MonitorInv, [Next]_vars PROVE MonitorInv'
<1>1. ~Shows("SFTPPage") /\ ~Shows("SCPPage")
  BY MonitorFields DEF Shows
<1>2. CASE HostStartsOpen
  BY <1>2, MonitorHostStartsKeeps
<1>3. ASSUME NEW n \in Opens, OpenEnds(n) PROVE MonitorInv'
  BY <1>3, MonitorOpenEndsKeeps
<1>4. CASE Monitor!Next
  <2>1. CASE Monitor!Tap
    BY <2>1, MonitorTapKeeps
  <2>2. CASE Monitor!Answer
    BY <2>2, MonitorHasPasswordKeeps, MonitorMetricsAnsweredKeeps, MonitorCloseAnsweredKeeps
       DEF Monitor!Answer
  <2>3. CASE Monitor!Tick
    BY <2>3, MonitorTickKeeps
  <2>4. CASE Monitor!Unmount
    BY <2>4, MonitorUnmountKeeps
  <2>5. ASSUME NEW n \in Opens, Monitor!Resume(n) PROVE MonitorInv'
    BY <2>5, MonitorResumeKeeps
  <2> QED BY <1>4, <2>1, <2>2, <2>3, <2>4, <2>5 DEF Monitor!Next, Monitor!Opens, Opens
<1>5. CASE UNCHANGED vars
  BY <1>5 DEF vars, MonitorInv, BridgeInv, OpensDistinct, TokensFit, MonitorOpens, Reached, IsA,
     UnderWay, Unmounted, Live, OnItsWay, NoPassword
<1> QED BY <1>1, <1>2, <1>3, <1>4, <1>5 DEF Next

----------------------------------------------------------------------------
(* The SCP page *)

LEMMA ScpFields ==
  ASSUME ScpInv
  PROVE  /\ page \in Scp!Page /\ BridgeInv /\ OpensDistinct /\ page.name = "SCPPage"
         /\ page.disposedRef \in BOOLEAN /\ page.mounted \in BOOLEAN /\ page.hosts \in BOOLEAN
         /\ page.sessionRef = None /\ page.connected = FALSE
         /\ taps \in Nat /\ taps <= MaxTaps
         /\ asked \in Seq(Calls) /\ opening \in [Opens -> Ids \cup Stages]
         /\ status \in [Ids -> {"fresh", "open", "closed"}] /\ user = None
<1>1. taps \in 0..MaxTaps
  BY DEF ScpInv, BridgeInv
<1> QED BY <1>1, Constants DEF ScpInv, BridgeInv, Scp!Page

(* The page is marked as gone, and every new open has a number of its own. *)
LEMMA ScpGoneKeeps ==
  ASSUME ScpInv, NEW d, NEW new, Moves(asked, asked', d, new),
         \A c \in new : c \in Calls, \A n \in Opens : OpenCall(n) \in new => ~UnderWay(n),
         \A n \in Opens : opening'[n] # "none" =>
           opening[n] # "none" \/ (d = 1 /\ asked[1] = OpenCall(n)),
         page' \in Scp!Page, page'.disposedRef, page'.sessionRef = None, page'.connected = FALSE,
         taps' \in 0..MaxTaps, user' = user, status' \in [Ids -> {"fresh", "open", "closed"}],
         opening' \in [Opens -> Ids \cup Stages], \A i \in Ids : Reached(i)'
  PROVE  ScpInv'
<1>1. asked' \in Seq(Calls)
  BY DEF Moves
<1>2. BridgeInv'
  BY <1>1, ScpFields DEF BridgeInv
<1>3. OpensDistinct'
  BY DistinctKept, ScpFields
<1> QED BY <1>2, <1>3 DEF ScpInv

(* connect asks for the password. *)
LEMMA ScpConnects ==
  ASSUME ScpInv, asked' = Append(asked, [method |-> "hasPassword"]),
         taps < MaxTaps, taps' = taps + 1, UNCHANGED <<opening, status, user>>,
         page' \in Scp!Page, page'.disposedRef, page'.sessionRef = None, page'.connected = FALSE
  PROVE  ScpInv'
<1>1. PICK c : c = [method |-> "hasPassword"]
  OBVIOUS
<1>2. c \in Calls /\ c.method = "hasPassword" /\ \A n : c # OpenCall(n)
  BY <1>1, PasswordCall, OpenCalls
<1>3. Moves(asked, asked', 0, {c})
  BY <1>1, <1>2, AppendMoves, ScpFields
<1>4. taps' \in 0..MaxTaps
  BY ScpFields, Constants
<1>5. \A i \in Ids : Reached(i)'
  BY <1>3, SameReach, ScpFields DEF ScpInv
<1> QED BY <1>2, <1>3, <1>4, <1>5, ScpGoneKeeps, ScpFields

LEMMA ScpHostsLoadedKeeps ==
  ASSUME ScpInv, Scp!HostsLoaded PROVE ScpInv'
<1>1. /\ taps < MaxTaps
      /\ page' = [[page EXCEPT !.disposedRef = TRUE] EXCEPT !.hosts = TRUE]
      /\ \/ taps' = taps + 1 /\ asked' = Append(asked, [method |-> "hasPassword"])
         \/ UNCHANGED <<taps, asked>>
      /\ UNCHANGED <<opening, status, user>>
  BY DEF Scp!HostsLoaded, Scp!Cleanup, Scp!Connect, Scp!Ask
<1>2. page' \in Scp!Page /\ page'.disposedRef /\ page'.sessionRef = None /\ page'.connected = FALSE
  BY <1>1, ScpFields DEF Scp!Page
<1>3. CASE taps' = taps + 1 /\ asked' = Append(asked, [method |-> "hasPassword"])
  BY <1>1, <1>2, <1>3, ScpConnects
<1>4. CASE UNCHANGED <<taps, asked>>
  <2>1. Moves(asked, asked', 0, {})
    BY <1>4, StaysMoves, ScpFields
  <2>2. \A i \in Ids : Reached(i)'
    BY <1>1, <1>2, <2>1, SameReach, ScpFields DEF ScpInv
  <2>3. taps' \in 0..MaxTaps
    BY <1>4 DEF ScpInv, BridgeInv
  <2>4. /\ \A n \in Opens : opening'[n] # "none" => opening[n] # "none"
        /\ user' = user /\ status' = status /\ opening' = opening
    BY <1>1
  <2>5. PICK new : Moves(asked, asked', 0, new) /\ \A c : c \notin new
    BY <2>1
  <2> QED BY <1>2, <2>1, <2>2, <2>3, <2>4, <2>5, ScpGoneKeeps, ScpFields
<1> QED BY <1>1, <1>3, <1>4

LEMMA ScpTapKeeps ==
  ASSUME ScpInv, Scp!Tap PROVE ScpInv'
<1>1. /\ page.hosts /\ taps < MaxTaps /\ taps' = taps + 1
      /\ asked' = Append(asked, [method |-> "hasPassword"])
      /\ UNCHANGED <<page, opening, status, user>>
  BY DEF Scp!Tap, Scp!Connect, Scp!Ask
<1>2. page.disposedRef
  BY <1>1 DEF ScpInv
<1> QED BY <1>1, <1>2, ScpConnects, ScpFields

LEMMA ScpHasPasswordKeeps ==
  ASSUME ScpInv, Scp!HasPassword PROVE ScpInv'
<1>1. /\ asked # <<>> /\ Head(asked).method = "hasPassword" /\ UNCHANGED <<page, taps, opening, status, user>>
      /\ \/ \E n \in Opens : /\ opening[n] = "none" /\ \A k \in DOMAIN asked : asked[k] # OpenCall(n)
                             /\ asked' = Append(Tail(asked), OpenCall(n))
         \/ asked' = Tail(asked)
  BY DEF Scp!HasPassword, Scp!Answered, Scp!DoneAsking, Scp!Done, Scp!OpenCall, OpenCall, Scp!Opens, Opens
<1>2. page.disposedRef
  BY <1>1 DEF ScpInv
<1>3. PICK new : /\ Moves(asked, asked', 1, new) /\ new \subseteq Calls
                 /\ \A n \in Opens : OpenCall(n) \in new => ~UnderWay(n)
  <2>1. CASE asked' = Tail(asked)
    <3>1. Moves(asked, asked', 1, {})
      BY <1>1, <2>1, HeadMoves, ScpFields
    <3> QED BY <3>1
  <2>2. ASSUME NEW n \in Opens, opening[n] = "none", \A k \in DOMAIN asked : asked[k] # OpenCall(n),
               asked' = Append(Tail(asked), OpenCall(n))
        PROVE  \E new : /\ Moves(asked, asked', 1, new) /\ new \subseteq Calls
                        /\ \A m \in Opens : OpenCall(m) \in new => ~UnderWay(m)
    <3>1. PICK c : c = OpenCall(n)
      OBVIOUS
    <3>2. c \in Calls /\ \A m \in Opens : OpenCall(m) = c => m = n
      BY <3>1, OpenCalls
    <3>3. Moves(asked, asked', 1, {c})
      BY <1>1, <2>2, <3>1, <3>2, HeadMoves, ScpFields
    <3>4. ~UnderWay(n)
      BY <2>2 DEF UnderWay
    <3> QED BY <3>2, <3>3, <3>4
  <2> QED BY <1>1, <2>1, <2>2
<1>4. asked[1].method = "hasPassword"
  BY <1>1, HeadMoves, ScpFields
<1>5. \A i \in Ids : Reached(i)'
  BY <1>1, <1>3, <1>4, SameReach, ScpFields DEF ScpInv
<1>6. taps' \in 0..MaxTaps
  BY <1>1 DEF ScpInv, BridgeInv
<1> QED BY <1>1, <1>2, <1>3, <1>5, <1>6, ScpGoneKeeps, ScpFields

LEMMA ScpResumeKeeps ==
  ASSUME ScpInv, NEW n \in Opens, Scp!Resume(n) PROVE ScpInv'
<1>1. PICK i : i = opening[n]
  OBVIOUS
<1>2. i \in Ids \cup {"failed"} /\ opening' = [opening EXCEPT ![n] = "none"]
      /\ UNCHANGED <<taps, status, user>>
  BY <1>1 DEF Scp!Resume, Scp!OpenAnswered
<1>3. page.disposedRef
  BY <1>1, <1>2, Constants DEF ScpInv
<1>4. page' = page /\ Scp!AskClose(Scp!Result(n))
  BY <1>3 DEF Scp!Resume
<1>5. PICK c : c = [method |-> "closeSession", session |-> i, then |-> "return"]
  OBVIOUS
<1>6. i \in Ids => c \in Calls /\ c.method = "closeSession" /\ c.session = i
  BY <1>5, CallShapes
<1>7. PICK new : /\ Moves(asked, asked', 0, new)
                 /\ i \in Ids => c \in new
                 /\ \A m \in new : m \in Calls /\ m.method = "closeSession"
  <2>1. CASE i = "failed"
    <3>1. asked' = asked
      BY <1>1, <1>4, <2>1 DEF Scp!AskClose, Scp!Result
    <3>2. Moves(asked, asked', 0, {}) /\ i \notin Ids
      BY <2>1, <3>1, StaysMoves, ScpFields, Constants
    <3> QED BY <3>2
  <2>2. CASE i # "failed"
    <3>1. i \in Ids /\ Scp!Result(n) = i /\ i # None
      BY <1>1, <1>2, <2>2, Constants DEF Scp!Result
    <3>2. asked' = Append(asked, c)
      BY <1>4, <1>5, <3>1 DEF Scp!AskClose, Scp!Ask
    <3>3. Moves(asked, asked', 0, {c})
      BY <1>6, <3>1, <3>2, AppendMoves, ScpFields
    <3> QED BY <1>6, <3>1, <3>3
  <2> QED BY <2>1, <2>2
<1>8. /\ opening' \in [Opens -> Ids \cup Stages] /\ opening'[n] = "none"
      /\ \A m \in Opens : m # n => opening'[m] = opening[m]
  BY <1>2, ScpFields DEF Stages
<1>9. \A m \in Opens : opening'[m] # "none" => opening[m] # "none"
  BY <1>8
<1>10. ASSUME NEW j \in Ids PROVE Reached(j)'
  <2>1. Reached(j)
    BY DEF ScpInv
  <2>2. \A m \in Opens : opening[m] = j =>
          opening'[m] = j \/ \E b \in new : b.method = "closeSession" /\ b.session = j
    BY <1>1, <1>6, <1>7, <1>8
  <2> QED BY <1>2, <1>4, <1>7, <2>1, <2>2, ReachKept, ScpFields
<1>11. \A m : OpenCall(m) \notin new
  BY <1>7, OpenCalls
<1>12. taps' \in 0..MaxTaps
  BY <1>2 DEF ScpInv, BridgeInv
<1> QED BY <1>2, <1>3, <1>4, <1>7, <1>8, <1>9, <1>10, <1>11, <1>12, ScpGoneKeeps, ScpFields

LEMMA ScpCloseAnsweredKeeps ==
  ASSUME ScpInv, Scp!CloseAnswered PROVE ScpInv'
<1>1. PICK c : c = Head(asked)
  OBVIOUS
<1>2. /\ asked # <<>> /\ c.method = "closeSession" /\ asked' = Tail(asked)
      /\ HostCloses(c.session) /\ UNCHANGED <<page, taps, opening>>
  BY <1>1 DEF Scp!CloseAnswered, Scp!Answered, Scp!Done, Scp!HostCloses, HostCloses,
              Scp!Live, Live, Scp!Close, Close, Scp!tvars, tvars
<1>3. /\ Moves(asked, asked', 1, {}) /\ asked[1] = c /\ c.session \in Ids
  BY <1>1, <1>2, HeadMoves, CallFields, ScpFields
<1>4. /\ status' \in [Ids -> {"fresh", "open", "closed"}] /\ user' = user
      /\ status'[c.session] # "open"
      /\ \A j \in Ids : status'[j] = "open" => status[j] = "open"
  BY <1>2, <1>3, HostClosesStatus, ScpFields
<1>5. page.disposedRef
  BY <1>2 DEF ScpInv
<1>6. ASSUME NEW i \in Ids PROVE Reached(i)'
  <2>1. Reached(i)
    BY DEF ScpInv
  <2>2. asked[1].session = i => status'[i] # "open"
    BY <1>3, <1>4
  <2> QED BY <1>2, <1>3, <1>4, <2>1, <2>2, ReachKept, ScpFields
<1>7. taps' \in 0..MaxTaps
  BY <1>2 DEF ScpInv, BridgeInv
<1>8. page' = page /\ opening' = opening
  BY <1>2
<1>9. PICK new : Moves(asked, asked', 1, new) /\ \A m : m \notin new
  BY <1>3
<1> QED BY <1>3, <1>4, <1>5, <1>6, <1>7, <1>8, <1>9, ScpGoneKeeps, ScpFields

LEMMA ScpUnmountKeeps ==
  ASSUME ScpInv, Scp!Unmount PROVE ScpInv'
<1>1. /\ page' = [[page EXCEPT !.disposedRef = TRUE] EXCEPT !.mounted = FALSE]
      /\ asked' = asked /\ UNCHANGED <<taps, opening, status, user>>
  BY ScpFields DEF Scp!Unmount, Scp!Cleanup, Scp!AskClose
<1>2. page' \in Scp!Page /\ page'.disposedRef /\ page'.sessionRef = None /\ page'.connected = FALSE
  BY <1>1, ScpFields DEF Scp!Page
<1>3. PICK new : Moves(asked, asked', 0, new) /\ \A m : m \notin new
  <2>1. Moves(asked, asked', 0, {})
    BY <1>1, StaysMoves, ScpFields
  <2> QED BY <2>1
<1>4. \A i \in Ids : Reached(i)'
  BY <1>1, <1>2, <1>3, SameReach, ScpFields DEF ScpInv
<1>5. taps' \in 0..MaxTaps /\ status' = status /\ user' = user /\ opening' = opening
  BY <1>1 DEF ScpInv, BridgeInv
<1> QED BY <1>2, <1>3, <1>4, <1>5, ScpGoneKeeps, ScpFields

LEMMA ScpHostStartsKeeps ==
  ASSUME ScpInv, HostStartsOpen PROVE ScpInv'
<1>1. /\ Moves(asked, asked', 1, {}) /\ asked[1].method = "openSession" /\ 1 \in DOMAIN asked
      /\ UNCHANGED <<page, taps, status, user>> /\ opening' \in [Opens -> Ids \cup Stages]
      /\ \A n \in Opens : opening'[n] # "none" => opening[n] # "none" \/ asked[1] = OpenCall(n)
  BY HostStartsFacts, ScpFields
<1>2. PICK m \in Opens : /\ asked[1] = OpenCall(m) /\ opening'[m] = "running"
                         /\ \A n \in Opens \ {m} : opening'[n] = opening[n]
  BY HostStartsFacts, ScpFields
<1>3. opening[m] = "none" /\ \A n \in Opens : opening[n] \in Ids => opening'[n] = opening[n]
  BY <1>1, <1>2, OpenCalls, Constants, ScpFields DEF OpensDistinct, IsA
<1>4. \A i \in Ids : Reached(i)'
  BY <1>1, <1>3, SameReach, ScpFields DEF ScpInv
<1>5. page.disposedRef
  BY <1>1 DEF ScpInv
<1>6. PICK new : Moves(asked, asked', 1, new) /\ \A c : c \notin new
  BY <1>1
<1>7. taps' \in 0..MaxTaps /\ status' = status /\ user' = user /\ page' = page
  BY <1>1 DEF ScpInv, BridgeInv
<1> QED BY <1>1, <1>4, <1>5, <1>6, <1>7, ScpGoneKeeps, ScpFields

LEMMA ScpOpenEndsKeeps ==
  ASSUME ScpInv, NEW n \in Opens, OpenEnds(n) PROVE ScpInv'
<1>1. /\ opening[n] = "running" /\ asked' = asked /\ UNCHANGED <<page, taps, user>>
      /\ opening' \in [Opens -> Ids \cup Stages]
      /\ \A m \in Opens \ {n} : opening'[m] = opening[m]
      /\ status' \in [Ids -> {"fresh", "open", "closed"}]
  BY OpenEndsFacts, ScpFields
<1>2. PICK new : Moves(asked, asked', 0, new) /\ \A c : c \notin new
  <2>1. Moves(asked, asked', 0, {})
    BY <1>1, StaysMoves, ScpFields
  <2> QED BY <2>1
<1>3. \A m \in Opens : opening'[m] # "none" => opening[m] # "none"
  BY <1>1
<1>4. \A i \in Ids : Reached(i)'
  BY OpenEndsReach, ScpFields DEF ScpInv
<1>5. page.disposedRef
  BY <1>1 DEF ScpInv
<1>6. taps' \in 0..MaxTaps /\ user' = user /\ page' = page
  BY <1>1 DEF ScpInv, BridgeInv
<1> QED BY <1>1, <1>2, <1>3, <1>4, <1>5, <1>6, ScpGoneKeeps, ScpFields

LEMMA ScpInit ==
  ASSUME Scp!Init PROVE ScpInv
<1>1. PICK given \in BOOLEAN :
        page = [name |-> "SCPPage", mounted |-> TRUE, disposedRef |-> FALSE,
                connected |-> FALSE, hosts |-> FALSE, recordId |-> given, sessionRef |-> None]
  BY DEF Scp!Init
<1>2. /\ asked = <<>> /\ taps = 0 /\ user = None /\ status = [i \in Ids |-> "fresh"]
      /\ opening = [n \in Opens |-> "none"]
  BY DEF Scp!Init, Scp!BridgeInit, Scp!TableInit, Scp!Opens, Opens
<1>3. BridgeInv /\ OpensDistinct /\ \A i \in Ids : Reached(i)
  BY <1>2, BridgeStarts
<1>4. page \in Scp!Page
  BY <1>1, Constants DEF Scp!Page
<1> QED BY <1>1, <1>2, <1>3, <1>4 DEF ScpInv

LEMMA ScpKeeps ==
  ASSUME ScpInv, [Next]_vars PROVE ScpInv'
<1>1. ~Shows("SFTPPage") /\ ~Shows("MonitorPage")
  BY ScpFields DEF Shows
<1>2. CASE HostStartsOpen
  BY <1>2, ScpHostStartsKeeps
<1>3. ASSUME NEW n \in Opens, OpenEnds(n) PROVE ScpInv'
  BY <1>3, ScpOpenEndsKeeps
<1>4. CASE Scp!Next
  <2>1. CASE Scp!HostsLoaded
    BY <2>1, ScpHostsLoadedKeeps
  <2>2. CASE Scp!Tap
    BY <2>2, ScpTapKeeps
  <2>3. CASE Scp!Answer
    BY <2>3, ScpHasPasswordKeeps, ScpCloseAnsweredKeeps DEF Scp!Answer
  <2>4. CASE Scp!Unmount
    BY <2>4, ScpUnmountKeeps
  <2>5. ASSUME NEW n \in Opens, Scp!Resume(n) PROVE ScpInv'
    BY <2>5, ScpResumeKeeps
  <2> QED BY <1>4, <2>1, <2>2, <2>3, <2>4, <2>5 DEF Scp!Next, Scp!Opens, Opens
<1>5. CASE UNCHANGED vars
  BY <1>5 DEF vars, ScpInv, BridgeInv, OpensDistinct, Reached, IsA, Live, OnItsWay
<1> QED BY <1>1, <1>2, <1>3, <1>4, <1>5 DEF Next

----------------------------------------------------------------------------
(* The results *)

LEMMA InvCorrect == Spec => []Inv
<1>1. Init => Inv
  BY SftpInit, MonitorInit, ScpInit DEF Init, Inv
<1>2. Inv /\ [Next]_vars => Inv'
  BY SftpKeeps, MonitorKeeps, ScpKeeps DEF Inv
<1> QED BY <1>1, <1>2, PTL DEF Spec

LEMMA BridgeTypes ==
  ASSUME BridgeInv
  PROVE  /\ Sftp!BridgeTypeOK /\ Monitor!BridgeTypeOK /\ Scp!BridgeTypeOK
<1>1. \A k \in DOMAIN asked :
        asked[k].method \notin {"hasPassword", "openSession"} => asked[k].session \in Ids
  <2> SUFFICES ASSUME NEW k \in DOMAIN asked PROVE
        asked[k].method \notin {"hasPassword", "openSession"} => asked[k].session \in Ids
    OBVIOUS
  <2>1. asked[k] \in Calls
    BY CallAt
  <2> QED BY <2>1, CallFields
<1> QED BY <1>1 DEF BridgeInv, Stages, Opens, Sftp!BridgeTypeOK, Sftp!Opens, Monitor!BridgeTypeOK,
           Monitor!Opens, Scp!BridgeTypeOK, Scp!Opens

(* The page on the screen has the fields its components give it, and every   *)
(* call on a session names one: the bridge's state stays in its type on each *)
(* of the pages of lynx-app/src/pages.                                       *)
THEOREM TypeCorrect == Spec => []TypeOK
<1>1. Inv => TypeOK
  <2>1. CASE SftpInv
    BY <2>1, BridgeTypes, SftpFields DEF TypeOK, Sftp!TypeOK, Shows
  <2>2. CASE MonitorInv
    BY <2>2, BridgeTypes, MonitorFields DEF TypeOK, Monitor!TypeOK, Shows
  <2>3. CASE ScpInv
    BY <2>3, BridgeTypes, ScpFields DEF TypeOK, Scp!TypeOK, Shows
  <2> QED BY <2>1, <2>2, <2>3 DEF Inv
<1> QED BY <1>1, InvCorrect, PTL

(* However many lists were asked for, of whichever session, the files shown  *)
(* are those of the path above them once no list is under way: listFiles of  *)
(* SFTPPage.tsx (line 54) compares nothing when its answer comes, and relies *)
(* on the host to answer in order.                                           *)
THEOREM FilesFollowPathCorrect == Spec => []FilesFollowPath
<1>1. Inv => FilesFollowPath
  <2> SUFFICES ASSUME Inv, Shows("SFTPPage"), page.connected,
                      \A k \in DOMAIN asked : asked[k].method # "listFiles"
               PROVE  page.files = [session |-> page.sessionRef, path |-> page.currentPath]
    BY DEF FilesFollowPath
  <2>1. SftpInv
    BY MonitorFields, ScpFields DEF Inv, Shows
  <2> QED BY <2>1 DEF SftpInv, FilesAreComing, IsA
<1> QED BY <1>1, InvCorrect, PTL

(* The session of every open that succeeds is the page's, is on its way to   *)
(* it, or is asked to be closed, whatever the user tapped meanwhile: the     *)
(* refs that connect and pickHost compare after their awaits let no session  *)
(* get lost (SFTPPage.tsx up to two taps, MonitorPage.tsx, SCPPage.tsx).     *)
THEOREM NoSessionOutOfReachCorrect == Spec => []NoSessionOutOfReach
<1>1. Inv => NoSessionOutOfReach
  <2> SUFFICES ASSUME Inv, Shows("SFTPPage") => taps <= 2, NEW i \in Ids
               PROVE  Reached(i)
    BY DEF NoSessionOutOfReach, Reached
  <2>1. CASE SftpInv
    BY <2>1, SftpFields DEF SftpInv, Shows
  <2>2. CASE MonitorInv
    BY <2>2 DEF MonitorInv
  <2>3. CASE ScpInv
    BY <2>3 DEF ScpInv
  <2> QED BY <2>1, <2>2, <2>3 DEF Inv
<1> QED BY <1>1, InvCorrect, PTL
==============================================================================
