-------------------------- MODULE CalculationsProofs -------------------------
(***************************************************************************)
(* The calculations for every input: the subnets of SubnetCalc for every   *)
(* address and every mask, btoa and atob for data of every length.  A word *)
(* and a byte are the sets of their ones.  What Increment and AtMost       *)
(* choose exists because a set of naturals has a least element, which the  *)
(* well-foundedness of the strict subsets of finite sets gives; so does    *)
(* the recursive function inside FlattenSeq.                               *)
(***************************************************************************)
EXTENDS Calculations, FiniteSetTheorems, SequenceTheorems, TLAPS

----------------------------------------------------------------------------
(* Least and greatest elements *)

LEMMA HasLeast ==
  ASSUME NEW T \in SUBSET Nat, T # {}
  PROVE  \E x \in T : \A y \in T : x <= y
<1> DEFINE below == {T \cap (0..x) : x \in T}
<1>1. below \subseteq FiniteSubsetsOf(Nat)
  <2>1. ASSUME NEW x \in T PROVE IsFiniteSet(T \cap (0..x))
    <3>1. x \in Nat /\ \A s \in T \cap (0..x) : s <= x
      OBVIOUS
    <3>2. T \cap (0..x) \in SUBSET Nat
      OBVIOUS
    <3> QED BY <3>1, <3>2, FS_BoundedSetOfNaturals
  <2> QED BY <2>1 DEF FiniteSubsetsOf
<1>2. below # {}
  OBVIOUS
<1>3. PICK U \in below : \A V \in below : ~(<<V, U>> \in StrictSubsetOrdering(Nat))
  BY <1>1, <1>2, FS_StrictSubsetOrderingWellFounded, WFMin
<1>4. PICK x \in T : U = T \cap (0..x)
  BY <1>3
<1>5. ASSUME NEW y \in T, y < x PROVE FALSE
  <2>1. T \cap (0..y) \in below
    OBVIOUS
  <2>2. T \cap (0..y) \subseteq U /\ x \in U /\ x \notin T \cap (0..y)
    BY <1>4, <1>5
  <2>3. T \cap (0..y) \in SUBSET Nat /\ U \in SUBSET Nat
    BY <1>4
  <2> QED BY <1>3, <2>1, <2>2, <2>3 DEF StrictSubsetOrdering
<1> QED BY <1>5

(* The highest bit of a word is the lowest of the word turned round. *)
LEMMA HasHighest ==
  ASSUME NEW w \in SUBSET Word, w # {}
  PROVE  \E k \in w : \A c \in w : c <= k
<1> DEFINE turned == {31 - b : b \in w}
<1>1. turned \in SUBSET Nat /\ turned # {}
  <2>1. ASSUME NEW b \in w PROVE 31 - b \in Nat
    <3>1. b \in 0..31
      BY DEF Word
    <3> QED BY <3>1
  <2>2. turned \subseteq Nat
    BY <2>1
  <2>3. turned # {}
    OBVIOUS
  <2> QED BY <2>2, <2>3
<1>2. PICK x \in turned : \A y \in turned : x <= y
  BY <1>1, HasLeast
<1>3. PICK k \in w : x = 31 - k
  BY <1>2
<1>4. ASSUME NEW c \in w PROVE c <= k
  <2>1. 31 - k <= 31 - c
    BY <1>2, <1>3
  <2>2. k \in 0..31 /\ c \in 0..31
    BY DEF Word
  <2> QED BY <2>1, <2>2
<1> QED BY <1>4

LEMMA LowestIsLeast ==
  ASSUME NEW w \in SUBSET Word, w # {}
  PROVE  Lowest(w) \in w /\ \A c \in w : Lowest(w) <= c
<1>1. \E b \in w : \A c \in w : b <= c
  BY HasLeast DEF Word
<1> QED BY <1>1 DEF Lowest

----------------------------------------------------------------------------
(* The order of words *)

LEMMA SmallerIsAtMost ==
  ASSUME NEW a \in SUBSET Word, NEW b \in SUBSET Word, a \subseteq b
  PROVE  AtMost(a, b)
<1>1. CASE a = b
  BY <1>1 DEF AtMost
<1>2. CASE a # b
  <2>1. PICK k \in b \ a : \A c \in b \ a : c <= k
    BY <1>2, HasHighest
  <2>2. \A c \in Word : c > k => (c \in a <=> c \in b)
    BY <2>1 DEF Word
  <2> QED BY <2>1, <2>2 DEF AtMost
<1> QED BY <1>1, <1>2

----------------------------------------------------------------------------
(* Masks and results *)

MaskOnes(m) == (32 - m)..31

HostBits(m) == 0..(31 - m)

LEMMA MaskOf ==
  ASSUME NEW m \in 1..32
  PROVE  ShiftLeft(Word, 32 - m) = MaskOnes(m) /\ Word \ MaskOnes(m) = HostBits(m)
<1>1. (32 - m) % 32 = 32 - m
  OBVIOUS
<1>2. ASSUME NEW b \in (32 - m)..31 PROVE b - (32 - m) \in Word /\ b = (b - (32 - m)) + (32 - m)
  BY DEF Word
<1>3. ShiftLeft(Word, 32 - m) = (32 - m)..31
  BY <1>1, <1>2 DEF ShiftLeft, Word
<1>4. Word \ ((32 - m)..31) = 0..(31 - m)
  BY DEF Word
<1> QED BY <1>3, <1>4 DEF MaskOnes, HostBits

LEMMA ResultOf ==
  ASSUME NEW number, NEW m \in 1..32
  PROVE  /\ Calculate(number, m).maskBits = m
         /\ Calculate(number, m).mask = MaskOnes(m)
         /\ Calculate(number, m).network = number \cap MaskOnes(m)
         /\ Calculate(number, m).broadcast = Calculate(number, m).network \cup HostBits(m)
         /\ Calculate(number, m).firstHost = Increment(Calculate(number, m).network)
         /\ Calculate(number, m).lastHost = Decrement(Calculate(number, m).broadcast)
BY MaskOf DEF Calculate

(* The result depends on the bits under the mask alone. *)
LEMMA SameNetwork ==
  ASSUME NEW a \in SUBSET Word, NEW b \in SUBSET Word, NEW m \in 1..32,
         a \cap MaskOnes(m) = b \cap MaskOnes(m)
  PROVE  Calculate(a, m) = Calculate(b, m)
BY MaskOf DEF Calculate

(* The address after a broadcast address begins a subnet. *)
LEMMA NextBegins ==
  ASSUME NEW w \in SUBSET Word, NEW m \in 1..32, HostBits(m) \subseteq w
  PROVE  /\ Increment(w) \in SUBSET Word
         /\ Increment(w) \cap MaskOnes(m) = Increment(w)
<1>1. CASE w = Word
  BY <1>1 DEF Increment
<1>2. CASE w # Word
  <2>1. PICK b : b = Lowest(Word \ w)
    OBVIOUS
  <2>2. b \in Word \ w
    BY <1>2, <2>1, LowestIsLeast
  <2>3. Increment(w) = (w \ (0..b)) \cup {b}
    BY <1>2, <2>1 DEF Increment
  <2>4. b >= 32 - m
    BY <2>2 DEF Word, HostBits
  <2>5. b \in 0..31 /\ w \subseteq 0..31
    BY <2>2 DEF Word
  <2>6. ASSUME NEW c \in Increment(w) PROVE c \in 0..31 /\ c >= 32 - m
    <3>1. c = b \/ (c \in w /\ c \notin 0..b)
      BY <2>3
    <3>2. CASE c = b
      BY <3>2, <2>4, <2>5
    <3>3. CASE c \in w /\ c \notin 0..b
      BY <3>3, <2>4, <2>5
    <3> QED BY <3>1, <3>2, <3>3
  <2>7. \A c \in Increment(w) : c \in MaskOnes(m)
    BY <2>6 DEF MaskOnes
  <2>8. Increment(w) \subseteq Word
    BY <2>6 DEF Word
  <2> QED BY <2>7, <2>8
<1> QED BY <1>1, <1>2

(* The hosts between network and broadcast address *)
LEMMA FirstHost ==
  ASSUME NEW w \in SUBSET Word, 0 \notin w
  PROVE  Increment(w) = w \cup {0}
<1>1. Lowest(Word \ w) \in Word \ w /\ Lowest(Word \ w) <= 0
  BY LowestIsLeast DEF Word
<1>2. Lowest(Word \ w) = 0
  BY <1>1 DEF Word
<1>3. w \ (0..0) = w /\ w # Word
  BY DEF Word
<1> QED BY <1>2, <1>3 DEF Increment

LEMMA LastHost ==
  ASSUME NEW w \in SUBSET Word, 0 \in w
  PROVE  Decrement(w) = w \ {0}
<1>1. Lowest(w) \in w /\ Lowest(w) <= 0
  BY LowestIsLeast
<1>2. Lowest(w) = 0
  <2>1. PICK b : b = Lowest(w)
    OBVIOUS
  <2>2. b \in 0..31 /\ b <= 0
    BY <2>1, <1>1 DEF Word
  <2> QED BY <2>1, <2>2
<1>3. 0..(0 - 1) = {} /\ w # {}
  OBVIOUS
<1> QED BY <1>2, <1>3 DEF Decrement

(* What SubnetsPartition says of one result *)
LEMMA Partition ==
  ASSUME NEW number \in SUBSET Word, NEW m \in 1..32
  PROVE  LET r == Calculate(number, m)
             next == Increment(r.broadcast)
         IN  /\ InSubnet(r, number)
             /\ r.broadcast \ r.network = HostBits(m)
             /\ Same(r, r.network) /\ Same(r, r.broadcast)
             /\ Calculate(next, m).network = next
             /\ m <= 30 =>
                  /\ AtMost(r.firstHost, r.lastHost)
                  /\ InSubnet(r, r.firstHost) /\ InSubnet(r, r.lastHost)
<1>n. \A w : Calculate(w, m).network = w \cap MaskOnes(m)
  BY ResultOf
<1> PICK r : r = Calculate(number, m)
  OBVIOUS
<1>0. /\ Calculate(number, m).maskBits = m
      /\ Calculate(number, m).network = number \cap MaskOnes(m)
      /\ Calculate(number, m).broadcast = Calculate(number, m).network \cup HostBits(m)
      /\ Calculate(number, m).firstHost = Increment(Calculate(number, m).network)
      /\ Calculate(number, m).lastHost = Decrement(Calculate(number, m).broadcast)
  BY ResultOf
<1> PICK low : low = HostBits(m)
  OBVIOUS
<1> PICK high : high = MaskOnes(m)
  OBVIOUS
<1>1. /\ r.maskBits = m /\ r.network = number \cap high /\ r.broadcast = r.network \cup low
      /\ r.firstHost = Increment(r.network) /\ r.lastHost = Decrement(r.broadcast)
  BY <1>0
<1>2. high \cap low = {} /\ high \cup low = Word /\ high \subseteq Word /\ low \subseteq Word
  <2>1. ASSUME NEW c \in low PROVE c \in Word /\ c \notin high
    BY <2>1 DEF Word, HostBits, MaskOnes
  <2>2. ASSUME NEW c \in high PROVE c \in Word
    BY <2>2 DEF Word, MaskOnes
  <2>3. ASSUME NEW c \in Word PROVE c \in high \/ c \in low
    BY DEF Word, HostBits, MaskOnes
  <2> QED BY <2>1, <2>2, <2>3
<1>3. r.network \in SUBSET Word /\ r.broadcast \in SUBSET Word
  BY <1>1, <1>2
<1>4. InSubnet(r, number)
  <2>1. r.network \subseteq number /\ number \subseteq r.broadcast
    BY <1>1, <1>2
  <2> QED BY <2>1, <1>3, SmallerIsAtMost DEF InSubnet
<1>5. r.broadcast \ r.network = low
  BY <1>1, <1>2
<1>6. Same(r, r.network) /\ Same(r, r.broadcast)
  <2>1. r.network \cap high = number \cap high /\ r.broadcast \cap high = number \cap high
    BY <1>1, <1>2
  <2>2. Calculate(r.network, m) = Calculate(number, m)
    <3>1. PICK a \in SUBSET Word : a = r.network
      BY <1>3
    <3>2. a \cap high = number \cap high
      BY <2>1, <3>1
    <3>3. Calculate(a, m) = Calculate(number, m)
      BY <3>2, SameNetwork
    <3> QED BY <3>1, <3>3
  <2>3. Calculate(r.broadcast, m) = Calculate(number, m)
    <3>1. PICK a \in SUBSET Word : a = r.broadcast
      BY <1>3
    <3>2. a \cap high = number \cap high
      BY <2>1, <3>1
    <3>3. Calculate(a, m) = Calculate(number, m)
      BY <3>2, SameNetwork
    <3> QED BY <3>1, <3>3
  <2> QED BY <2>2, <2>3, <1>1 DEF Same
<1>7. Calculate(Increment(r.broadcast), m).network = Increment(r.broadcast)
  <2> PICK next : next = Increment(r.broadcast)
    OBVIOUS
  <2>1. next \cap MaskOnes(m) = next
    BY <1>1, <1>3, NextBegins
  <2> QED BY <2>1, <1>n
<1>8. ASSUME m <= 30
      PROVE  /\ AtMost(r.firstHost, r.lastHost)
             /\ InSubnet(r, r.firstHost) /\ InSubnet(r, r.lastHost)
  <2>1. 0 \in low /\ 1 \in low
    BY <1>8 DEF HostBits
  <2>2. r.firstHost = r.network \cup {0} /\ r.lastHost = r.broadcast \ {0}
    BY <2>1, <1>1, <1>2, <1>3, FirstHost, LastHost
  <2>3. PICK k \in low \ {0} : \A c \in low \ {0} : c <= k
    <3>1. low \ {0} \in SUBSET Word /\ low \ {0} # {}
      BY <2>1, <1>2
    <3> QED BY <3>1, HasHighest
  <2>4. AtMost(r.firstHost, r.lastHost)
    <3>1. k \in r.lastHost \ r.firstHost
      BY <2>2, <2>3, <1>1, <1>2
    <3>2. ASSUME NEW c \in Word, c > k PROVE c \notin low /\ c # 0
      <4>1. k \in 0..31 /\ c \in 0..31
        BY <2>3, <1>2 DEF Word
      <4>2. c # 0 /\ ~(c <= k)
        BY <4>1, <3>2
      <4> QED BY <4>2, <2>3
    <3>3. \A c \in Word : c > k => (c \in r.firstHost <=> c \in r.lastHost)
      BY <3>2, <2>2, <1>1
    <3> QED BY <3>1, <3>3 DEF AtMost
  <2>5. /\ r.network \subseteq r.firstHost /\ r.firstHost \subseteq r.broadcast
        /\ r.network \subseteq r.lastHost /\ r.lastHost \subseteq r.broadcast
    BY <2>1, <2>2, <1>1, <1>2
  <2> QED BY <2>4, <2>5, <1>3, SmallerIsAtMost DEF InSubnet
<1> QED BY <1>4, <1>5, <1>6, <1>7, <1>8

----------------------------------------------------------------------------
(* The page *)

LEMMA InputsFit ==
  ASSUME NEW f \in Fields
  PROVE  /\ Number(f.subnetIp) \in SUBSET Word
         /\ MaskBits(f.page, f.subnetMask) \in 0..32
<1>1. \A w, octet : Next8(w, octet) \in SUBSET Word
  BY DEF Next8, ShiftLeft, OctetBits, Word
<1>2. f.subnetMask \in (0..33) \cup {Empty}
  BY DEF Fields
<1> QED BY <1>1, <1>2, SubnetAssumption DEF Number, MaskBits

(* What is shown was calculated from what is typed. *)
ResultInv ==
  /\ fields \in Fields \cup {NoPage}
  /\ subnetResult # NoResult =>
       /\ fields \in Fields
       /\ subnetResult = Calculate(Number(fields.subnetIp), MaskBits(fields.page, fields.subnetMask))

LEMMA ResultPartitions ==
  ASSUME ResultInv PROVE SubnetsPartition
<1> SUFFICES ASSUME subnetResult # NoResult, subnetResult.maskBits >= 1 PROVE SubnetsPartition
  BY DEF SubnetsPartition
<1>1. PICK number, m : number = Number(fields.subnetIp) /\ m = MaskBits(fields.page, fields.subnetMask)
  OBVIOUS
<1>2. number \in SUBSET Word /\ m \in 0..32 /\ subnetResult = Calculate(number, m)
  BY <1>1, InputsFit DEF ResultInv
<1>3. subnetResult.maskBits = m
  BY <1>2 DEF Calculate
<1>4. m \in 1..32
  BY <1>2, <1>3
<1>5. PICK r : r = subnetResult
  OBVIOUS
<1>6. r = Calculate(number, m) /\ r.maskBits = m
  BY <1>2, <1>3, <1>5
<1>7. /\ InSubnet(r, number)
      /\ r.broadcast \ r.network = HostBits(m)
      /\ Same(r, r.network) /\ Same(r, r.broadcast)
      /\ Calculate(Increment(r.broadcast), r.maskBits).network = Increment(r.broadcast)
      /\ r.maskBits <= 30 =>
           /\ AtMost(r.firstHost, r.lastHost)
           /\ InSubnet(r, r.firstHost) /\ InSubnet(r, r.lastHost)
  BY <1>2, <1>4, <1>6, Partition
<1> QED BY <1>1, <1>5, <1>6, <1>7 DEF SubnetsPartition, HostBits

----------------------------------------------------------------------------
(* Sequences put together *)

(* f is what FlattenSeq computes of the first n elements of s. *)
Flattens(s, n, f) == f = [i \in 1..n |-> IF i = 1 THEN s[i] ELSE f[i-1] \o s[i]]

LEMMA FlattensExists ==
  ASSUME NEW s, NEW n \in Nat PROVE \E f : Flattens(s, n, f)
<1> DEFINE T == {k \in Nat : ~ \E f : Flattens(s, k, f)}
<1>1. ASSUME T # {} PROVE FALSE
  <2>1. PICK k \in T : \A j \in T : k <= j
    BY <1>1, HasLeast
  <2>2. CASE k = 0
    <3> DEFINE f == [i \in 1..k |-> s[i]]
    <3>1. 1..k = {}
      BY <2>2
    <3>2. f = [i \in 1..k |-> IF i = 1 THEN s[i] ELSE f[i-1] \o s[i]]
      BY <3>1
    <3> QED BY <2>1, <3>2 DEF Flattens
  <2>3. CASE k # 0
    <3>1. k - 1 \in Nat /\ k - 1 \notin T
      BY <2>1, <2>3
    <3>2. PICK g : Flattens(s, k - 1, g)
      BY <3>1
    <3> DEFINE last == IF k = 1 THEN s[k] ELSE g[k-1] \o s[k]
               f == [i \in 1..k |-> IF i = k THEN last ELSE g[i]]
    <3>3. \A i \in 1..(k - 1) : g[i] = IF i = 1 THEN s[i] ELSE g[i-1] \o s[i]
      BY <3>2 DEF Flattens
    <3>4. ASSUME NEW i \in 1..k PROVE f[i] = IF i = 1 THEN s[i] ELSE f[i-1] \o s[i]
      <4>1. CASE i = k
        BY <4>1, <2>1
      <4>2. CASE i # k
        <5>1. i \in 1..(k - 1) /\ f[i] = g[i] /\ (i # 1 => f[i-1] = g[i-1])
          BY <4>2, <2>1
        <5> QED BY <5>1, <3>3
      <4> QED BY <4>1, <4>2
    <3>5. f = [i \in 1..k |-> IF i = 1 THEN s[i] ELSE f[i-1] \o s[i]]
      <4>1. f = [i \in 1..k |-> f[i]]
        OBVIOUS
      <4> HIDE DEF f
      <4> QED BY <4>1, <3>4
    <3> QED BY <2>1, <3>5 DEF Flattens
  <2> QED BY <2>2, <2>3
<1> QED BY <1>1

(* s is t in pieces, cut after cut[1], cut[2], ... *)
Pieces(s, t, cut) ==
  /\ Len(s) \in Nat \ {0}
  /\ cut \in [0..Len(s) -> 0..Len(t)] /\ cut[0] = 0 /\ cut[Len(s)] = Len(t)
  /\ \A g \in 1..Len(s) : cut[g - 1] <= cut[g] /\ s[g] = SubSeq(t, cut[g - 1] + 1, cut[g])

LEMMA PiecesFlatten ==
  ASSUME NEW S, NEW t \in Seq(S), NEW s, NEW cut, Pieces(s, t, cut)
  PROVE  FlattenSeq(s) = t
<1> PICK n \in Nat \ {0} : n = Len(s)
  BY DEF Pieces
<1>0. /\ cut \in [0..n -> 0..Len(t)] /\ cut[0] = 0 /\ cut[n] = Len(t)
      /\ \A g \in 1..n : cut[g - 1] <= cut[g] /\ s[g] = SubSeq(t, cut[g - 1] + 1, cut[g])
  BY DEF Pieces
<1> DEFINE F == CHOOSE f : Flattens(s, n, f)
<1>1. Flattens(s, n, F)
  BY FlattensExists
<1>2. FlattenSeq(s) = F[n]
  BY DEF FlattenSeq, Flattens
<1> HIDE DEF F
<1>3. \A i \in 1..n : F[i] = IF i = 1 THEN s[i] ELSE F[i-1] \o s[i]
  BY <1>1 DEF Flattens
<1> DEFINE T == {i \in 1..n : F[i] # SubSeq(t, 1, cut[i])}
<1>4. ASSUME T # {} PROVE FALSE
  <2>1. PICK k \in T : \A j \in T : k <= j
    <3>1. T \in SUBSET Nat
      OBVIOUS
    <3> HIDE DEF T
    <3> QED BY <1>4, <3>1, HasLeast
  <2>2. k \in 1..n /\ F[k] # SubSeq(t, 1, cut[k])
    BY <2>1
  <2>3. s[k] = SubSeq(t, cut[k - 1] + 1, cut[k]) /\ cut[k - 1] <= cut[k]
    BY <1>0, <2>2
  <2>4. CASE k = 1
    <3>1. F[k] = s[k]
      BY <1>3, <2>2, <2>4
    <3>2. cut[k - 1] + 1 = 1
      BY <1>0, <2>4
    <3> QED BY <2>2, <2>3, <3>1, <3>2
  <2>5. CASE k # 1
    <3>1. k - 1 \in 1..n /\ k \in Nat /\ ~(k <= k - 1)
      BY <2>2, <2>5
    <3>2. F[k - 1] = SubSeq(t, 1, cut[k - 1])
      <4>1. k - 1 \notin T
        <5> HIDE DEF T
        <5> QED BY <2>1, <3>1
      <4> QED BY <3>1, <4>1
    <3>3. F[k] = SubSeq(t, 1, cut[k - 1]) \o SubSeq(t, cut[k - 1] + 1, cut[k])
      BY <1>3, <2>2, <2>3, <2>5, <3>2
    <3>4. PICK a, b : a = cut[k - 1] /\ b = cut[k]
      OBVIOUS
    <3>5. a \in 0..Len(t) /\ b \in a..Len(t)
      <4>1. k \in 0..n /\ k - 1 \in 0..n
        BY <2>2, <3>1
      <4>2. a \in 0..Len(t) /\ b \in 0..Len(t)
        BY <1>0, <3>4, <4>1
      <4> QED BY <2>3, <3>4, <4>2
    <3>6. SubSeq(t, 1, a) \o SubSeq(t, a + 1, b) = SubSeq(t, 1, b)
      <4>1. 1 \in 1..(Len(t) + 1) /\ a \in (1 - 1)..Len(t)
        BY <3>5
      <4> HIDE DEF T
      <4> QED BY <3>5, <4>1, ConcatAdjacentSubSeq
    <3> QED BY <2>2, <3>3, <3>4, <3>6
  <2> QED BY <2>4, <2>5
<1>5. F[n] = SubSeq(t, 1, cut[n])
  <2>1. n \in 1..n
    OBVIOUS
  <2> QED BY <1>4, <2>1
<1> QED BY <1>0, <1>2, <1>5, SubSeqFull

LEMMA SeqOfFunction ==
  ASSUME NEW S, NEW n \in Nat, NEW f, f \in [1..n -> S]
  PROVE  f \in Seq(S) /\ Len(f) = n
<1>1. f \in Seq(S)
  BY SeqDef
<1>2. DOMAIN f = 1..n /\ DOMAIN f = 1..Len(f) /\ Len(f) \in Nat
  BY <1>1, LenProperties
<1> QED BY <1>1, <1>2

----------------------------------------------------------------------------
(* The bits of base64 *)

Char == SUBSET (0..6)

LEMMA ShiftLeftBits ==
  ASSUME NEW w \in SUBSET Word, NEW n \in 0..31, NEW b \in Word
  PROVE  b \in ShiftLeft(w, n) <=> b - n \in w
<1>1. n % 32 = n
  OBVIOUS
<1>2. ASSUME b \in ShiftLeft(w, n) PROVE b - n \in w
  <2>1. PICK c \in w : b = c + n
    BY <1>1, <1>2 DEF ShiftLeft
  <2>2. c \in Int /\ b - n = c
    BY <2>1 DEF Word
  <2> QED BY <2>1, <2>2
<1>3. ASSUME b - n \in w PROVE b \in ShiftLeft(w, n)
  <2>1. b = (b - n) + n
    BY DEF Word
  <2> QED BY <1>1, <1>3, <2>1 DEF ShiftLeft
<1> QED BY <1>2, <1>3

LEMMA AtIsByte ==
  ASSUME NEW s \in Seq(Byte), NEW k \in Nat \ {0} PROVE At(s, k) \in SUBSET (0..7)
<1>1. CASE k <= Len(s)
  <2>1. k \in 1..Len(s)
    BY <1>1
  <2>2. s[k] \in Byte
    BY <2>1, ElementOfSeq
  <2> QED BY <1>1, <2>2 DEF At, Byte
<1>2. CASE ~(k <= Len(s))
  BY <1>2 DEF At
<1> QED BY <1>1, <1>2

(* The 24 bits of a group are those of its three bytes. *)
LEMMA BitmapBits ==
  ASSUME NEW s \in Seq(Byte), NEW g \in Nat
  PROVE  /\ \A b \in 0..7 : /\ b \in Bitmap(s, g) <=> b \in At(s, 3 * g + 3)
                            /\ b + 8 \in Bitmap(s, g) <=> b \in At(s, 3 * g + 2)
                            /\ b + 16 \in Bitmap(s, g) <=> b \in At(s, 3 * g + 1)
         /\ Bitmap(s, g) \in SUBSET (0..23)
<1> PICK x, y, z : x = At(s, 3 * g + 1) /\ y = At(s, 3 * g + 2) /\ z = At(s, 3 * g + 3)
  OBVIOUS
<1>1. x \in SUBSET (0..7) /\ y \in SUBSET (0..7) /\ z \in SUBSET (0..7)
  <2>1. 3 * g + 1 \in Nat \ {0} /\ 3 * g + 2 \in Nat \ {0} /\ 3 * g + 3 \in Nat \ {0}
    OBVIOUS
  <2> QED BY <2>1, AtIsByte
<1>2. Bitmap(s, g) = ShiftLeft(x, 16) \cup ShiftLeft(y, 8) \cup z
  BY DEF Bitmap
<1>3. PICK u \in SUBSET Word, v \in SUBSET Word : u = x /\ v = y
  <2>1. 0..7 \subseteq Word
    BY DEF Word
  <2> QED BY <1>1, <2>1
<1>4. ASSUME NEW b \in Word
      PROVE  b \in Bitmap(s, g) <=> (b - 16 \in x \/ b - 8 \in y \/ b \in z)
  <2>1. b \in ShiftLeft(u, 16) <=> b - 16 \in u
    BY ShiftLeftBits
  <2>2. b \in ShiftLeft(v, 8) <=> b - 8 \in v
    BY ShiftLeftBits
  <2> QED BY <1>2, <1>3, <2>1, <2>2
<1>5. ASSUME NEW b \in 0..7 PROVE b \in Bitmap(s, g) <=> b \in z
  <2>1. b \in Word /\ b - 16 \notin 0..7 /\ b - 8 \notin 0..7
    BY DEF Word
  <2> QED BY <1>1, <1>4, <2>1
<1>6. ASSUME NEW b \in 0..7 PROVE b + 8 \in Bitmap(s, g) <=> b \in y
  <2>1. b + 8 \in Word /\ (b + 8) - 16 \notin 0..7 /\ (b + 8) - 8 = b /\ b + 8 \notin 0..7
    BY DEF Word
  <2> QED BY <1>1, <1>4, <2>1
<1>7. ASSUME NEW b \in 0..7 PROVE b + 16 \in Bitmap(s, g) <=> b \in x
  <2>1. b + 16 \in Word /\ (b + 16) - 16 = b /\ (b + 16) - 8 \notin 0..7 /\ b + 16 \notin 0..7
    BY DEF Word
  <2> QED BY <1>1, <1>4, <2>1
<1>8. ASSUME NEW b \in Bitmap(s, g) PROVE b \in 0..23
  <2>1. b \in Word
    BY <1>1, <1>2 DEF ShiftLeft, Word
  <2>2. b - 16 \in 0..7 \/ b - 8 \in 0..7 \/ b \in 0..7
    BY <1>1, <1>4, <2>1
  <2> QED BY <2>1, <2>2 DEF Word
<1> QED BY <1>5, <1>6, <1>7, <1>8

(* Bit p of a group of the data, the highest first *)
LEMMA BitOfGroup ==
  ASSUME NEW s \in Seq(Byte), NEW g \in Nat, NEW p \in 0..23
  PROVE  Bit(s, 24 * g + p) <=> 23 - p \in Bitmap(s, g)
<1>1. CASE p \in 0..7
  <2>1. (24 * g + p) % 8 = p /\ (24 * g + p) \div 8 + 1 = 3 * g + 1
    BY <1>1
  <2>2. Bit(s, 24 * g + p) <=> 7 - p \in At(s, 3 * g + 1)
    BY <2>1 DEF Bit
  <2>3. 7 - p \in 0..7 /\ (7 - p) + 16 = 23 - p
    BY <1>1
  <2> QED BY <2>2, <2>3, BitmapBits
<1>2. CASE p \in 8..15
  <2>1. (24 * g + p) % 8 = p - 8 /\ (24 * g + p) \div 8 + 1 = 3 * g + 2
    BY <1>2
  <2>2. Bit(s, 24 * g + p) <=> 7 - (p - 8) \in At(s, 3 * g + 2)
    BY <2>1 DEF Bit
  <2>3. 7 - (p - 8) \in 0..7 /\ (7 - (p - 8)) + 8 = 23 - p
    BY <1>2
  <2> QED BY <2>2, <2>3, BitmapBits
<1>3. CASE p \in 16..23
  <2>1. (24 * g + p) % 8 = p - 16 /\ (24 * g + p) \div 8 + 1 = 3 * g + 3
    BY <1>3
  <2>2. Bit(s, 24 * g + p) <=> 7 - (p - 16) \in At(s, 3 * g + 3)
    BY <2>1 DEF Bit
  <2>3. 7 - (p - 16) \in 0..7 /\ 7 - (p - 16) = 23 - p
    BY <1>3
  <2> QED BY <2>2, <2>3, BitmapBits
<1> QED BY <1>1, <1>2, <1>3

(* How many groups n bytes make, and how many characters that are not '=' *)
LEMMA Lengths ==
  ASSUME NEW n \in Nat
  PROVE  \E q \in Nat, r \in 0..2 :
           /\ n = 3 * q + r
           /\ Groups(n, 3) = IF r = 0 THEN q ELSE q + 1
           /\ Groups(8 * n, 6) = IF r = 0 THEN 4 * q ELSE 4 * q + r + 1
           /\ Groups(Groups(8 * n, 6), 4) = Groups(n, 3)
<1> PICK q, r : q = n \div 3 /\ r = n % 3
  OBVIOUS
<1>1. q \in Nat /\ r \in 0..2 /\ n = 3 * q + r
  OBVIOUS
<1>2. CASE r = 0
  <2>1. Groups(n, 3) = q
    BY <1>1, <1>2 DEF Groups
  <2>2. Groups(8 * n, 6) = 4 * q
    BY <1>1, <1>2 DEF Groups
  <2>3. Groups(4 * q, 4) = q
    BY <1>1 DEF Groups
  <2> QED BY <1>1, <1>2, <2>1, <2>2, <2>3
<1>3. CASE r = 1
  <2>1. Groups(n, 3) = q + 1
    BY <1>1, <1>3 DEF Groups
  <2>2. Groups(8 * n, 6) = 4 * q + 2
    BY <1>1, <1>3 DEF Groups
  <2>3. Groups(4 * q + 2, 4) = q + 1
    BY <1>1 DEF Groups
  <2> QED BY <1>1, <1>3, <2>1, <2>2, <2>3
<1>4. CASE r = 2
  <2>1. Groups(n, 3) = q + 1
    BY <1>1, <1>4 DEF Groups
  <2>2. Groups(8 * n, 6) = 4 * q + 3
    BY <1>1, <1>4 DEF Groups
  <2>3. Groups(4 * q + 3, 4) = q + 1
    BY <1>1 DEF Groups
  <2> QED BY <1>1, <1>4, <2>1, <2>2, <2>3
<1> QED BY <1>1, <1>2, <1>3, <1>4

LEMMA EncodedType ==
  ASSUME NEW s \in Seq(Byte)
  PROVE  /\ Encoded(s) \in Seq(Char) /\ Len(Encoded(s)) = 4 * Groups(Len(s), 3)
         /\ Groups(Len(s), 3) \in Nat /\ Groups(8 * Len(s), 6) \in 0..(4 * Groups(Len(s), 3))
         /\ \A c \in 1..(4 * Groups(Len(s), 3)) :
              Encoded(s)[c] = IF c > Groups(8 * Len(s), 6) THEN Pad
                              ELSE {b \in 0..5 : Bit(s, 6 * (c - 1) + 5 - b)}
<1> PICK n \in Nat : n = Len(s)
  OBVIOUS
<1>1. PICK q \in Nat, r \in 0..2 :
        /\ Groups(n, 3) = IF r = 0 THEN q ELSE q + 1
        /\ Groups(8 * n, 6) = IF r = 0 THEN 4 * q ELSE 4 * q + r + 1
  BY Lengths
<1>2. Groups(n, 3) \in Nat /\ Groups(8 * n, 6) \in 0..(4 * Groups(n, 3))
  BY <1>1
<1>3. \A c \in 1..(4 * Groups(n, 3)) :
        Encoded(s)[c] = IF c > Groups(8 * n, 6) THEN Pad ELSE {b \in 0..5 : Bit(s, 6 * (c - 1) + 5 - b)}
  BY DEF Encoded
<1>4. Encoded(s) \in [1..(4 * Groups(n, 3)) -> Char]
  <2>1. ASSUME NEW c \in 1..(4 * Groups(n, 3)) PROVE Encoded(s)[c] \in Char
    <3>1. Pad \in Char /\ \A char \in SUBSET (0..5) : char \in Char
      BY DEF Char, Pad
    <3>2. {b \in 0..5 : Bit(s, 6 * (c - 1) + 5 - b)} \in SUBSET (0..5)
      OBVIOUS
    <3> QED BY <1>3, <3>1, <3>2
  <2>2. Encoded(s) = [c \in 1..(4 * Groups(n, 3)) |-> Encoded(s)[c]]
    BY DEF Encoded
  <2> QED BY <2>1, <2>2
<1>5. 4 * Groups(n, 3) \in Nat
  BY <1>2
<1>6. Encoded(s) \in Seq(Char) /\ Len(Encoded(s)) = 4 * Groups(n, 3)
  BY <1>4, <1>5, SeqOfFunction
<1> QED BY <1>2, <1>3, <1>6

(* A character that is not '=' has six bits of its group. *)
LEMMA EncodedGroup ==
  ASSUME NEW s \in Seq(Byte), NEW g \in Nat, NEW j \in 1..4, g < Groups(Len(s), 3),
         4 * g + j <= Groups(8 * Len(s), 6)
  PROVE  Encoded(s)[4 * g + j] = Field(Bitmap(s, g), 24 - 6 * j, 6)
<1> PICK c : c = 4 * g + j
  OBVIOUS
<1>1. c \in 1..(4 * Groups(Len(s), 3)) /\ ~(c > Groups(8 * Len(s), 6))
  BY EncodedType
<1>2. Encoded(s)[c] = {b \in 0..5 : Bit(s, 6 * (c - 1) + 5 - b)}
  BY <1>1, EncodedType
<1>3. ASSUME NEW b \in 0..5
      PROVE  Bit(s, 6 * (c - 1) + 5 - b) <=> b + (24 - 6 * j) \in Bitmap(s, g)
  <2> PICK p : p = 6 * j - 1 - b
    OBVIOUS
  <2>1. p \in 0..23
    BY <1>3
  <2>2. 6 * (c - 1) + 5 - b = 24 * g + p /\ 23 - p = b + (24 - 6 * j)
    BY <1>3
  <2>3. Bit(s, 24 * g + p) <=> 23 - p \in Bitmap(s, g)
    BY <2>1, BitOfGroup
  <2> QED BY <2>2, <2>3
<1>4. Field(Bitmap(s, g), 24 - 6 * j, 6) = {b \in 0..5 : b + (24 - 6 * j) \in Bitmap(s, g)}
  BY DEF Field
<1> QED BY <1>2, <1>3, <1>4

----------------------------------------------------------------------------
(* btoa *)

LEMMA FieldIsChar ==
  ASSUME NEW w, NEW n PROVE Field(w, n, 6) \in Char /\ Field(w, n, 6) # Pad
<1>1. Field(w, n, 6) \in SUBSET (0..5)
  BY DEF Field
<1>2. 6 \notin Field(w, n, 6) /\ 6 \in Pad
  BY <1>1 DEF Pad
<1> QED BY <1>1, <1>2 DEF Char

(* i has not moved past the end: no '=' is written. *)
LEMMA BtoaGroupIs ==
  ASSUME NEW s \in Seq(Byte), NEW g \in Nat, g < Groups(Len(s), 3)
  PROVE  BtoaGroup(s, g) = <<Field(Bitmap(s, g), 18, 6), Field(Bitmap(s, g), 12, 6),
                             Field(Bitmap(s, g), 6, 6), Field(Bitmap(s, g), 0, 6)>>
<1> PICK i : i = IF 3 * g + 3 <= Len(s) THEN 3 * g + 3 ELSE Len(s)
  OBVIOUS
<1>1. i \in Int /\ i <= Len(s) /\ Len(s) \in Nat
  OBVIOUS
<1>2. i - 2 < Len(s) /\ i - 1 < Len(s)
  BY <1>1
<1> QED BY <1>2 DEF BtoaGroup

LEMMA Padding ==
  ASSUME NEW s \in Seq(Byte), NEW zeros,
         zeros = [k \in 1..(3 * Groups(Len(s), 3) - Len(s)) |-> {}]
  PROVE  /\ s \o zeros \in Seq(Byte) /\ Len(s \o zeros) = 3 * Groups(Len(s), 3)
         /\ \A k \in Nat \ {0} : At(s \o zeros, k) = At(s, k)
<1> PICK n \in Nat : n = Len(s)
  OBVIOUS
<1>1. 3 * Groups(n, 3) - n \in Nat
  <2>1. PICK q \in Nat, r \in 0..2 : n = 3 * q + r /\ Groups(n, 3) = IF r = 0 THEN q ELSE q + 1
    BY Lengths
  <2> QED BY <2>1
<1> PICK m \in Nat : m = 3 * Groups(n, 3) - n
  BY <1>1
<1>2. PICK f \in [1..m -> Byte] : f = zeros
  <2>1. {} \in Byte
    BY DEF Byte
  <2> QED BY <2>1
<1>3. zeros \in Seq(Byte) /\ Len(zeros) = m
  <2>1. f \in Seq(Byte) /\ Len(f) = m
    BY SeqOfFunction
  <2> QED BY <1>2, <2>1
<1>4. /\ s \o zeros \in Seq(Byte) /\ Len(s \o zeros) = n + m
      /\ \A k \in 1..(n + m) : (s \o zeros)[k] = IF k <= n THEN s[k] ELSE zeros[k - n]
  BY <1>3, ConcatProperties
<1>5. n + m = 3 * Groups(n, 3)
  <2>1. Groups(n, 3) \in Int
    BY DEF Groups
  <2> QED BY <2>1
<1>6. ASSUME NEW k \in Nat \ {0} PROVE At(s \o zeros, k) = At(s, k)
  <2>1. CASE k <= n
    <3>1. k \in 1..(n + m) /\ k <= n + m
      BY <2>1
    <3>2. (s \o zeros)[k] = s[k]
      BY <1>4, <2>1, <3>1
    <3> QED BY <1>4, <2>1, <3>1, <3>2 DEF At
  <2>2. CASE ~(k <= n) /\ k <= n + m
    <3>1. k \in 1..(n + m) /\ k - n \in 1..m
      BY <2>2
    <3>2. (s \o zeros)[k] = zeros[k - n]
      BY <1>4, <2>2, <3>1
    <3>3. zeros[k - n] = {}
      BY <3>1
    <3> QED BY <1>4, <2>2, <3>2, <3>3 DEF At
  <2>3. CASE ~(k <= n + m)
    <3>1. ~(k <= n)
      BY <2>3
    <3> QED BY <1>4, <2>3, <3>1 DEF At
  <2> QED BY <2>1, <2>2, <2>3
<1> QED BY <1>4, <1>5, <1>6

LEMMA Quadruple ==
  ASSUME NEW t \in Seq(Char), NEW g \in Nat, 4 * g + 4 <= Len(t)
  PROVE  SubSeq(t, 4 * g + 1, 4 * g + 4) = <<t[4 * g + 1], t[4 * g + 2], t[4 * g + 3], t[4 * g + 4]>>
<1> PICK u : u = SubSeq(t, 4 * g + 1, 4 * g + 4)
  OBVIOUS
<1>1. \A i \in (4 * g + 1)..(4 * g + 4) : t[i] \in Char
  BY ElementOfSeq
<1>2. /\ u \in Seq(Char) /\ Len(u) = 4
      /\ \A i \in 1..4 : u[i] = t[(4 * g + 1) + i - 1]
  <2>1. 4 * g + 1 \in Int /\ 4 * g + 4 \in Int /\ (4 * g + 4) - (4 * g + 1) + 1 = 4
        /\ 4 * g + 1 <= 4 * g + 4
    OBVIOUS
  <2> QED BY <1>1, <2>1, SubSeqProperties
<1>3. u[1] = t[4 * g + 1] /\ u[2] = t[4 * g + 2] /\ u[3] = t[4 * g + 3] /\ u[4] = t[4 * g + 4]
  <2>1. /\ (4 * g + 1) + 1 - 1 = 4 * g + 1 /\ (4 * g + 1) + 2 - 1 = 4 * g + 2
        /\ (4 * g + 1) + 3 - 1 = 4 * g + 3 /\ (4 * g + 1) + 4 - 1 = 4 * g + 4
    OBVIOUS
  <2> QED BY <1>2, <2>1
<1>4. u = <<u[1], u[2], u[3], u[4]>>
  <2>1. u[1] \in Char /\ u[2] \in Char /\ u[3] \in Char /\ u[4] \in Char
    BY <1>2, ElementOfSeq
  <2>2. PICK a \in Char, b \in Char, c \in Char, d \in Char :
          a = u[1] /\ b = u[2] /\ c = u[3] /\ d = u[4]
    BY <2>1
  <2>3. <<a, b, c, d>> \in Seq(Char) /\ Len(<<a, b, c, d>>) = 4
    OBVIOUS
  <2>4. \A i \in 1..4 : u[i] = <<a, b, c, d>>[i]
    BY <2>2
  <2>5. u = <<a, b, c, d>>
    BY <1>2, <2>3, <2>4, SeqEqual
  <2> QED BY <2>2, <2>5
<1> QED BY <1>3, <1>4

(* A group of btoa has the characters of the standard's encoding of the *)
(* padded data.                                                         *)
LEMMA BtoaPiece ==
  ASSUME NEW s \in Seq(Byte), NEW z \in Seq(Byte), Len(z) = 3 * Groups(Len(s), 3),
         \A k \in Nat \ {0} : At(z, k) = At(s, k),
         NEW g \in Nat, g < Groups(Len(s), 3)
  PROVE  BtoaGroup(s, g) = SubSeq(Encoded(z), 4 * g + 1, 4 * g + 4)
<1> PICK n \in Nat : n = Groups(Len(s), 3)
  BY EncodedType
<1> PICK t : t = Encoded(z)
  OBVIOUS
<1>1. Groups(Len(z), 3) = n /\ Groups(8 * Len(z), 6) = 4 * n
  <2>1. Groups(3 * n, 3) = n /\ Groups(8 * (3 * n), 6) = 4 * n
    BY DEF Groups
  <2> QED BY <2>1
<1>2. Bitmap(z, g) = Bitmap(s, g)
  <2>1. 3 * g + 1 \in Nat \ {0} /\ 3 * g + 2 \in Nat \ {0} /\ 3 * g + 3 \in Nat \ {0}
    OBVIOUS
  <2> QED BY <2>1 DEF Bitmap
<1>3. ASSUME NEW j \in 1..4 PROVE t[4 * g + j] = Field(Bitmap(s, g), 24 - 6 * j, 6)
  <2>1. g < Groups(Len(z), 3) /\ 4 * g + j <= Groups(8 * Len(z), 6)
    BY <1>1
  <2> QED BY <1>2, <2>1, EncodedGroup
<1>4. t \in Seq(Char) /\ Len(t) = 4 * n
  BY <1>1, EncodedType
<1>5. SubSeq(t, 4 * g + 1, 4 * g + 4) = <<t[4 * g + 1], t[4 * g + 2], t[4 * g + 3], t[4 * g + 4]>>
  <2>1. 4 * g + 4 <= Len(t)
    BY <1>4
  <2> QED BY <1>4, <2>1, Quadruple
<1>6. /\ t[4 * g + 1] = Field(Bitmap(s, g), 18, 6) /\ t[4 * g + 2] = Field(Bitmap(s, g), 12, 6)
      /\ t[4 * g + 3] = Field(Bitmap(s, g), 6, 6) /\ t[4 * g + 4] = Field(Bitmap(s, g), 0, 6)
  <2>1. 24 - 6 * 1 = 18 /\ 24 - 6 * 2 = 12 /\ 24 - 6 * 3 = 6 /\ 24 - 6 * 4 = 0
    OBVIOUS
  <2> QED BY <1>3, <2>1
<1> QED BY <1>5, <1>6, BtoaGroupIs

LEMMA BtoaIsPadded ==
  ASSUME NEW s \in Seq(Byte), NEW z \in Seq(Byte), Len(z) = 3 * Groups(Len(s), 3),
         \A k \in Nat \ {0} : At(z, k) = At(s, k)
  PROVE  Btoa(s) = Encoded(z)
<1> PICK n \in Nat : n = Groups(Len(s), 3)
  BY EncodedType
<1> PICK t : t = Encoded(z)
  OBVIOUS
<1>1. t \in Seq(Char) /\ Len(t) = 4 * n
  <2>1. Groups(3 * n, 3) = n
    BY DEF Groups
  <2> QED BY <2>1, EncodedType
<1> PICK groups : groups = [g \in 1..n |-> BtoaGroup(s, g - 1)]
  OBVIOUS
<1>2. Btoa(s) = FlattenSeq(groups)
  BY DEF Btoa
<1>3. DOMAIN groups = 1..n /\ Len(groups) = n
  OBVIOUS
<1>4. CASE n = 0
  <2>1. Len(groups) = 0 /\ Len(t) = 0
    BY <1>1, <1>3, <1>4
  <2>2. FlattenSeq(groups) = groups
    BY <2>1 DEF FlattenSeq
  <2>3. groups = <<>> /\ t = <<>>
    <3>1. t = <<>>
      BY <1>1, <2>1, EmptySeq
    <3>2. groups \in [1..n -> {BtoaGroup(s, g - 1) : g \in 1..n}]
      OBVIOUS
    <3>3. groups \in Seq({BtoaGroup(s, g - 1) : g \in 1..n})
      BY <3>2, SeqOfFunction
    <3>4. groups = <<>>
      BY <2>1, <3>3, EmptySeq
    <3> QED BY <3>1, <3>4
  <2> QED BY <1>2, <2>2, <2>3
<1>5. CASE n # 0
  <2> DEFINE cut == [g \in 0..n |-> 4 * g]
  <2>1. cut \in [0..n -> 0..Len(t)] /\ cut[0] = 0 /\ cut[n] = Len(t)
    BY <1>1
  <2>2. ASSUME NEW g \in 1..n
        PROVE  cut[g - 1] <= cut[g] /\ groups[g] = SubSeq(t, cut[g - 1] + 1, cut[g])
    <3>1. cut[g - 1] = 4 * (g - 1) /\ cut[g] = 4 * (g - 1) + 4
      OBVIOUS
    <3> HIDE DEF cut
    <3>2. g - 1 \in Nat /\ g - 1 < Groups(Len(s), 3)
      OBVIOUS
    <3>3. BtoaGroup(s, g - 1) = SubSeq(t, 4 * (g - 1) + 1, 4 * (g - 1) + 4)
      BY <3>2, BtoaPiece
    <3> QED BY <3>1, <3>2, <3>3
  <2> HIDE DEF cut
  <2>3. FlattenSeq(groups) = t
    <3>1. Pieces(groups, t, cut)
      BY <1>3, <1>5, <2>1, <2>2 DEF Pieces
    <3> QED BY <1>1, <3>1, PiecesFlatten
  <2> QED BY <1>2, <2>3
<1> QED BY <1>4, <1>5

----------------------------------------------------------------------------
(* atob *)

(* The sum of the four characters, with Pad for what the last group lacks *)
LEMMA AtobBits ==
  ASSUME NEW a \in Char, NEW b \in Char, NEW c \in Char, NEW d \in Char, NEW k \in Word
  PROVE  k \in Joined(a, b, c, d) <=> (k - 18 \in a \/ k - 12 \in b \/ k - 6 \in c \/ k \in d)
<1>1. PICK u \in SUBSET Word, v \in SUBSET Word, w \in SUBSET Word : u = a /\ v = b /\ w = c
  <2>1. \A x \in Char : x \in SUBSET Word
    <3>1. 0..6 \subseteq Word
      BY DEF Word
    <3> QED BY <3>1 DEF Char
  <2> QED BY <2>1
<1>2. k \in ShiftLeft(u, 18) <=> k - 18 \in u
  BY ShiftLeftBits
<1>3. k \in ShiftLeft(v, 12) <=> k - 12 \in v
  BY ShiftLeftBits
<1>4. k \in ShiftLeft(w, 6) <=> k - 6 \in w
  BY ShiftLeftBits
<1> QED BY <1>1, <1>2, <1>3, <1>4 DEF Joined

(* A bit of the group is found in the character that has it. *)
LEMMA BitmapBack ==
  ASSUME NEW w, NEW c \in Char, NEW d \in Char
  PROVE  LET word == Joined(Field(w, 18, 6), Field(w, 12, 6), c, d)
         IN  /\ Field(word, 16, 8) = Field(w, 16, 8)
             /\ c = Field(w, 6, 6) => Field(word, 8, 8) = Field(w, 8, 8)
             /\ c = Field(w, 6, 6) /\ d = Field(w, 0, 6) => Field(word, 0, 8) = Field(w, 0, 8)
<1> PICK a, b : a = Field(w, 18, 6) /\ b = Field(w, 12, 6)
  OBVIOUS
<1> PICK word : word = Joined(a, b, c, d)
  OBVIOUS
<1>1. a \in Char /\ b \in Char /\ \A k \in 0..5 : (k \in a <=> k + 18 \in w) /\ (k \in b <=> k + 12 \in w)
  <2>1. a \in Char /\ b \in Char
    BY FieldIsChar
  <2>2. \A k \in 0..5 : (k \in Field(w, 18, 6) <=> k + 18 \in w) /\ (k \in Field(w, 12, 6) <=> k + 12 \in w)
    BY DEF Field
  <2> QED BY <2>1, <2>2
<1>2. \A k \in a \cup b : k \in 0..5
  BY DEF Field
<1>3. \A k \in c \cup d : k \in 0..6
  BY DEF Char
<1>4. ASSUME NEW k \in Word
      PROVE  k \in word <=> (k - 18 \in a \/ k - 12 \in b \/ k - 6 \in c \/ k \in d)
  <2>1. PICK x \in Char, y \in Char : x = a /\ y = b
    BY <1>1
  <2>2. k \in Joined(x, y, c, d) <=> (k - 18 \in x \/ k - 12 \in y \/ k - 6 \in c \/ k \in d)
    BY AtobBits
  <2> QED BY <2>1, <2>2
<1>5. ASSUME NEW k \in 18..23 PROVE k \in word <=> k \in w
  <2>1. /\ k \in Word /\ k - 18 \in 0..5 /\ (k - 18) + 18 = k
        /\ k - 12 \notin 0..5 /\ k - 6 \notin 0..6 /\ k \notin 0..6
    BY DEF Word
  <2>2. k - 12 \notin b /\ k - 6 \notin c /\ k \notin d
    BY <1>2, <1>3, <2>1
  <2>3. k - 18 \in a <=> k \in w
    BY <1>1, <2>1
  <2> QED BY <1>4, <2>1, <2>2, <2>3
<1>6. ASSUME NEW k \in 13..17 PROVE k \in word <=> k \in w
  <2>1. /\ k \in Word /\ k - 12 \in 0..5 /\ (k - 12) + 12 = k
        /\ k - 18 \notin 0..5 /\ k - 6 \notin 0..6 /\ k \notin 0..6
    BY DEF Word
  <2>2. k - 18 \notin a /\ k - 6 \notin c /\ k \notin d
    BY <1>2, <1>3, <2>1
  <2>3. k - 12 \in b <=> k \in w
    BY <1>1, <2>1
  <2> QED BY <1>4, <2>1, <2>2, <2>3
<1>7. ASSUME c = Field(w, 6, 6), NEW k \in 7..12 PROVE k \in word <=> k \in w
  <2>1. \A j \in c : j \in 0..5
    BY <1>7 DEF Field
  <2>2. /\ k \in Word /\ k - 18 \notin 0..5 /\ k \notin 0..6
        /\ (k <= 11 => k - 6 \in 0..5 /\ (k - 6) + 6 = k /\ k - 12 \notin 0..5)
        /\ (k = 12 => k - 12 \in 0..5 /\ (k - 12) + 12 = k /\ k - 6 \notin 0..5)
    BY DEF Word
  <2>3. k - 18 \notin a /\ k \notin d
    BY <1>2, <1>3, <2>2
  <2>4. CASE k <= 11
    <3>1. k - 6 \in c <=> k \in w
      BY <1>7, <2>2, <2>4 DEF Field
    <3>2. k - 12 \notin b
      BY <1>2, <2>2, <2>4
    <3> QED BY <1>4, <2>2, <2>3, <3>1, <3>2
  <2>5. CASE k = 12
    <3>1. k - 12 \in b <=> k \in w
      BY <1>1, <2>2, <2>5
    <3>2. k - 6 \notin c
      BY <2>1, <2>2, <2>5
    <3> QED BY <1>4, <2>2, <2>3, <3>1, <3>2
  <2>6. k <= 11 \/ k = 12
    OBVIOUS
  <2> QED BY <2>4, <2>5, <2>6
<1>8. ASSUME c = Field(w, 6, 6), d = Field(w, 0, 6), NEW k \in 0..7 PROVE k \in word <=> k \in w
  <2>1. \A j \in c \cup d : j \in 0..5
    BY <1>8 DEF Field
  <2>2. /\ k \in Word /\ k - 18 \notin 0..5 /\ k - 12 \notin 0..5
        /\ (k <= 5 => k \in 0..5 /\ k + 0 = k /\ k - 6 \notin 0..5)
        /\ (k >= 6 => k \notin 0..5 /\ k - 6 \in 0..5 /\ (k - 6) + 6 = k)
    BY DEF Word
  <2>3. k - 18 \notin a /\ k - 12 \notin b
    BY <1>2, <2>2
  <2>4. CASE k <= 5
    <3>1. k \in d <=> k \in w
      BY <1>8, <2>2, <2>4 DEF Field
    <3>2. k - 6 \notin c
      BY <2>1, <2>2, <2>4
    <3> QED BY <1>4, <2>2, <2>3, <3>1, <3>2
  <2>5. CASE k >= 6
    <3>1. k - 6 \in c <=> k \in w
      BY <1>8, <2>2, <2>5 DEF Field
    <3>2. k \notin d
      BY <2>1, <2>2, <2>5
    <3> QED BY <1>4, <2>2, <2>3, <3>1, <3>2
  <2>6. k <= 5 \/ k >= 6
    OBVIOUS
  <2> QED BY <2>4, <2>5, <2>6
<1>9. Field(word, 16, 8) = Field(w, 16, 8)
  <2>1. ASSUME NEW k \in 0..7 PROVE k + 16 \in word <=> k + 16 \in w
    <3>1. k + 16 \in 18..23 \/ k + 16 \in 13..17
      OBVIOUS
    <3> QED BY <1>5, <1>6, <3>1
  <2> QED BY <2>1 DEF Field
<1>10. ASSUME c = Field(w, 6, 6) PROVE Field(word, 8, 8) = Field(w, 8, 8)
  <2>1. ASSUME NEW k \in 0..7 PROVE k + 8 \in word <=> k + 8 \in w
    <3>1. k + 8 \in 13..17 \/ k + 8 \in 7..12
      OBVIOUS
    <3> QED BY <1>6, <1>7, <1>10, <3>1
  <2> QED BY <2>1 DEF Field
<1>11. ASSUME c = Field(w, 6, 6), d = Field(w, 0, 6) PROVE Field(word, 0, 8) = Field(w, 0, 8)
  <2>1. ASSUME NEW k \in 0..7 PROVE k + 0 \in word <=> k + 0 \in w
    BY <1>8, <1>11
  <2> QED BY <2>1 DEF Field
<1> QED BY <1>9, <1>10, <1>11

(* The '=' of the standard's encoding are gone. *)
LEMMA UnpaddedIs ==
  ASSUME NEW s \in Seq(Byte), NEW n \in Nat, n = Groups(8 * Len(s), 6)
  PROVE  /\ Unpadded(Encoded(s)) \in Seq(Char) /\ Len(Unpadded(Encoded(s))) = n
         /\ \A k \in 1..n : Unpadded(Encoded(s))[k] = Encoded(s)[k] /\ Encoded(s)[k] # Pad
<1> PICK t : t = Encoded(s)
  OBVIOUS
<1>1. t \in Seq(Char) /\ Len(t) \in Nat /\ n <= Len(t)
  <2>1. t \in Seq(Char) /\ n \in 0..Len(t)
    BY EncodedType
  <2> QED BY <2>1
<1>2. \A k \in 1..Len(t) : t[k] = IF k > n THEN Pad ELSE {b \in 0..5 : Bit(s, 6 * (k - 1) + 5 - b)}
  BY EncodedType
<1>3. ASSUME NEW k \in 1..n PROVE t[k] # Pad
  <2>1. k \in 1..Len(t) /\ ~(k > n)
    BY <1>1
  <2>2. 6 \notin {b \in 0..5 : Bit(s, 6 * (k - 1) + 5 - b)} /\ 6 \in Pad
    BY DEF Pad
  <2> QED BY <1>2, <2>1, <2>2
<1> DEFINE kept == {k \in 1..Len(t) : t[k] # Pad} \cup {0}
<1>4. n \in kept
  <2>1. CASE n = 0
    BY <2>1
  <2>2. CASE n # 0
    <3>1. n \in 1..n /\ n \in 1..Len(t)
      BY <1>1, <2>2
    <3> QED BY <1>3, <3>1
  <2> QED BY <2>1, <2>2
<1>5. ASSUME NEW k \in kept PROVE k \in Nat /\ k <= n
  <2>1. CASE k = 0
    BY <2>1
  <2>2. CASE k \in 1..Len(t) /\ t[k] # Pad
    <3>1. k \in 1..Len(t) /\ k > n => t[k] = Pad
      BY <1>2
    <3> QED BY <1>1, <2>2, <3>1
  <2>3. k = 0 \/ (k \in 1..Len(t) /\ t[k] # Pad)
    BY <1>5
  <2> QED BY <2>1, <2>2, <2>3
<1>6. Max(kept) = n
  <2> HIDE DEF kept
  <2>1. \A k \in kept : n >= k
    BY <1>5
  <2>2. Max(kept) \in kept /\ \A k \in kept : Max(kept) >= k
    BY <1>4, <2>1 DEF Max
  <2>3. PICK m : m = Max(kept)
    OBVIOUS
  <2>4. m \in Nat /\ m <= n /\ m >= n
    BY <1>4, <1>5, <2>2, <2>3
  <2> QED BY <2>3, <2>4
<1>7. Unpadded(t) = SubSeq(t, 1, n)
  BY <1>6 DEF Unpadded
<1>8. /\ SubSeq(t, 1, n) \in Seq(Char) /\ Len(SubSeq(t, 1, n)) = n
      /\ \A k \in 1..n : SubSeq(t, 1, n)[k] = t[k]
  <2>1. \A k \in 1..n : t[k] \in Char
    BY <1>1, ElementOfSeq
  <2>2. /\ SubSeq(t, 1, n) \in Seq(Char)
        /\ Len(SubSeq(t, 1, n)) = IF 1 <= n THEN n - 1 + 1 ELSE 0
        /\ \A k \in 1..(n - 1 + 1) : SubSeq(t, 1, n)[k] = t[1 + k - 1]
    BY <2>1, SubSeqProperties
  <2>3. n - 1 + 1 = n /\ \A k \in 1..n : 1 + k - 1 = k
    OBVIOUS
  <2>4. (IF 1 <= n THEN n - 1 + 1 ELSE 0) = n
    OBVIOUS
  <2> QED BY <2>2, <2>3, <2>4
<1> QED BY <1>3, <1>7, <1>8

(* How far a group reaches into the code and into the data *)
LEMMA GroupReaches ==
  ASSUME NEW n \in Nat, NEW g \in Nat, g < Groups(n, 3)
  PROVE  /\ 3 * g + 1 <= n /\ 4 * g + 2 <= Groups(8 * n, 6) /\ Groups(8 * n, 6) \in Nat
         /\ 4 * g + 3 <= Groups(8 * n, 6) <=> 3 * g + 2 <= n
         /\ 4 * g + 4 <= Groups(8 * n, 6) <=> 3 * g + 3 <= n
         /\ 3 * g + 3 <= n \/ g + 1 = Groups(n, 3)
<1>1. PICK q \in Nat, r \in 0..2 :
        /\ n = 3 * q + r
        /\ Groups(n, 3) = IF r = 0 THEN q ELSE q + 1
        /\ Groups(8 * n, 6) = IF r = 0 THEN 4 * q ELSE 4 * q + r + 1
  BY Lengths
<1>2. CASE r = 0
  BY <1>1, <1>2
<1>3. CASE r = 1
  BY <1>1, <1>3
<1>4. CASE r = 2
  BY <1>1, <1>4
<1> QED BY <1>2, <1>3, <1>4

(* The characters of a group of the code, as atob looks them up *)
LEMMA LookedUp ==
  ASSUME NEW bytes \in Seq(Byte), NEW s, s = Unpadded(Encoded(bytes)),
         NEW g \in Nat, g < Groups(Len(bytes), 3)
  PROVE  /\ IndexOf(s, 4 * g + 1) = Field(Bitmap(bytes, g), 18, 6)
         /\ IndexOf(s, 4 * g + 2) = Field(Bitmap(bytes, g), 12, 6)
         /\ OrPad(s, 4 * g + 3) = IF 3 * g + 2 <= Len(bytes) THEN Field(Bitmap(bytes, g), 6, 6) ELSE Pad
         /\ OrPad(s, 4 * g + 4) = IF 3 * g + 3 <= Len(bytes) THEN Field(Bitmap(bytes, g), 0, 6) ELSE Pad
<1> PICK n : n = Groups(8 * Len(bytes), 6)
  OBVIOUS
<1>1. /\ 4 * g + 2 <= n /\ n \in Nat
      /\ 4 * g + 3 <= n <=> 3 * g + 2 <= Len(bytes)
      /\ 4 * g + 4 <= n <=> 3 * g + 3 <= Len(bytes)
  BY GroupReaches
<1>2. Len(s) = n /\ \A k \in 1..n : s[k] = Encoded(bytes)[k] /\ s[k] # Pad
  BY <1>1, UnpaddedIs
<1>3. ASSUME NEW j \in 1..4, 4 * g + j <= n
      PROVE  IndexOf(s, 4 * g + j) = Field(Bitmap(bytes, g), 24 - 6 * j, 6)
  <2>1. 4 * g + j \in 1..n
    BY <1>1, <1>3
  <2>2. Encoded(bytes)[4 * g + j] = Field(Bitmap(bytes, g), 24 - 6 * j, 6)
    BY <1>3, EncodedGroup
  <2> QED BY <1>2, <1>3, <2>1, <2>2 DEF IndexOf
<1>4. 24 - 6 * 1 = 18 /\ 24 - 6 * 2 = 12 /\ 24 - 6 * 3 = 6 /\ 24 - 6 * 4 = 0
  OBVIOUS
<1>5. IndexOf(s, 4 * g + 1) = Field(Bitmap(bytes, g), 18, 6)
  <2>1. 4 * g + 1 <= n
    BY <1>1
  <2> QED BY <1>3, <1>4, <2>1
<1>6. IndexOf(s, 4 * g + 2) = Field(Bitmap(bytes, g), 12, 6)
  BY <1>1, <1>3, <1>4
<1>7. OrPad(s, 4 * g + 3) = IF 3 * g + 2 <= Len(bytes) THEN Field(Bitmap(bytes, g), 6, 6) ELSE Pad
  <2>1. CASE 4 * g + 3 <= n
    <3>1. IndexOf(s, 4 * g + 3) = Field(Bitmap(bytes, g), 6, 6)
      BY <1>3, <1>4, <2>1
    <3> QED BY <1>1, <1>2, <2>1, <3>1 DEF OrPad
  <2>2. CASE ~(4 * g + 3 <= n)
    BY <1>1, <1>2, <2>2 DEF OrPad
  <2> QED BY <2>1, <2>2
<1>8. OrPad(s, 4 * g + 4) = IF 3 * g + 3 <= Len(bytes) THEN Field(Bitmap(bytes, g), 0, 6) ELSE Pad
  <2>1. CASE 4 * g + 4 <= n
    <3>1. IndexOf(s, 4 * g + 4) = Field(Bitmap(bytes, g), 0, 6)
      BY <1>3, <1>4, <2>1
    <3> QED BY <1>1, <1>2, <2>1, <3>1 DEF OrPad
  <2>2. CASE ~(4 * g + 4 <= n)
    BY <1>1, <1>2, <2>2 DEF OrPad
  <2> QED BY <2>1, <2>2
<1> QED BY <1>5, <1>6, <1>7, <1>8

(* A group gives its bytes of the data back, all it has. *)
LEMMA AtobGroupIs ==
  ASSUME NEW bytes \in Seq(Byte), NEW s, s = Unpadded(Encoded(bytes)),
         NEW g \in Nat, g < Groups(Len(bytes), 3)
  PROVE  AtobGroup(s, g) =
           <<At(bytes, 3 * g + 1)>>
             \o (IF 3 * g + 2 <= Len(bytes) THEN <<At(bytes, 3 * g + 2)>> ELSE <<>>)
             \o (IF 3 * g + 3 <= Len(bytes) THEN <<At(bytes, 3 * g + 3)>> ELSE <<>>)
<1> PICK w \in SUBSET (0..23) : w = Bitmap(bytes, g)
  BY BitmapBits
<1> PICK a, b, c, d : /\ a = IndexOf(s, 4 * g + 1) /\ b = IndexOf(s, 4 * g + 2)
                      /\ c = OrPad(s, 4 * g + 3) /\ d = OrPad(s, 4 * g + 4)
  OBVIOUS
<1>1. /\ a = Field(w, 18, 6) /\ b = Field(w, 12, 6)
      /\ c = IF 3 * g + 2 <= Len(bytes) THEN Field(w, 6, 6) ELSE Pad
      /\ d = IF 3 * g + 3 <= Len(bytes) THEN Field(w, 0, 6) ELSE Pad
  BY LookedUp
<1>2. c \in Char /\ d \in Char
  <2>1. Pad \in Char
    BY DEF Pad, Char
  <2> QED BY <1>1, <2>1, FieldIsChar
<1>3. (c # Pad <=> 3 * g + 2 <= Len(bytes)) /\ (d # Pad <=> 3 * g + 3 <= Len(bytes))
  BY <1>1, FieldIsChar
<1> PICK word : word = Joined(a, b, c, d)
  OBVIOUS
<1>4. /\ Field(word, 16, 8) = Field(w, 16, 8)
      /\ c = Field(w, 6, 6) => Field(word, 8, 8) = Field(w, 8, 8)
      /\ c = Field(w, 6, 6) /\ d = Field(w, 0, 6) => Field(word, 0, 8) = Field(w, 0, 8)
  <2>1. PICK x \in Char, y \in Char : x = c /\ y = d
    BY <1>2
  <2>2. LET sum == Joined(Field(w, 18, 6), Field(w, 12, 6), x, y)
        IN  /\ Field(sum, 16, 8) = Field(w, 16, 8)
            /\ x = Field(w, 6, 6) => Field(sum, 8, 8) = Field(w, 8, 8)
            /\ x = Field(w, 6, 6) /\ y = Field(w, 0, 6) => Field(sum, 0, 8) = Field(w, 0, 8)
    BY BitmapBack
  <2> QED BY <1>1, <2>1, <2>2
<1>5. /\ Field(w, 16, 8) = At(bytes, 3 * g + 1) /\ Field(w, 8, 8) = At(bytes, 3 * g + 2)
      /\ Field(w, 0, 8) = At(bytes, 3 * g + 3)
  <2>1. /\ At(bytes, 3 * g + 1) \in SUBSET (0..7) /\ At(bytes, 3 * g + 2) \in SUBSET (0..7)
        /\ At(bytes, 3 * g + 3) \in SUBSET (0..7)
    <3>1. 3 * g + 1 \in Nat \ {0} /\ 3 * g + 2 \in Nat \ {0} /\ 3 * g + 3 \in Nat \ {0}
      OBVIOUS
    <3> QED BY <3>1, AtIsByte
  <2>2. \A k \in 0..7 : /\ k + 0 \in w <=> k \in At(bytes, 3 * g + 3)
                        /\ k + 8 \in w <=> k \in At(bytes, 3 * g + 2)
                        /\ k + 16 \in w <=> k \in At(bytes, 3 * g + 1)
    <3>1. \A k \in 0..7 : k + 0 = k
      OBVIOUS
    <3> QED BY <3>1, BitmapBits
  <2>3. 8 - 1 = 7
    OBVIOUS
  <2> QED BY <2>1, <2>2, <2>3 DEF Field
<1>6. AtobGroup(s, g) = <<Field(word, 16, 8)>>
                          \o (IF c # Pad THEN <<Field(word, 8, 8)>> ELSE <<>>)
                          \o (IF d # Pad THEN <<Field(word, 0, 8)>> ELSE <<>>)
  BY DEF AtobGroup
<1>7. 3 * g + 3 <= Len(bytes) => 3 * g + 2 <= Len(bytes)
  OBVIOUS
<1>8. c # Pad => Field(word, 8, 8) = At(bytes, 3 * g + 2)
  BY <1>1, <1>3, <1>4, <1>5
<1>9. d # Pad => Field(word, 0, 8) = At(bytes, 3 * g + 3)
  BY <1>1, <1>3, <1>4, <1>5, <1>7
<1> QED BY <1>3, <1>4, <1>5, <1>6, <1>8, <1>9

(* The bytes from 3 * g + 1 on, three of them or as many as there are *)
LEMMA NextBytes ==
  ASSUME NEW bytes \in Seq(Byte), NEW g \in Nat, 3 * g + 1 <= Len(bytes),
         NEW end, end = IF 3 * g + 3 <= Len(bytes) THEN 3 * g + 3 ELSE Len(bytes)
  PROVE  SubSeq(bytes, 3 * g + 1, end) =
           <<At(bytes, 3 * g + 1)>>
             \o (IF 3 * g + 2 <= Len(bytes) THEN <<At(bytes, 3 * g + 2)>> ELSE <<>>)
             \o (IF 3 * g + 3 <= Len(bytes) THEN <<At(bytes, 3 * g + 3)>> ELSE <<>>)
<1> PICK n \in Nat, m \in Nat : n = Len(bytes) /\ m = 3 * g + 1
  OBVIOUS
<1>1. m \in 1..n /\ end \in m..n
  OBVIOUS
<1>2. \A k \in 1..n : bytes[k] = At(bytes, k) /\ At(bytes, k) \in Byte
  BY ElementOfSeq DEF At
<1>3. \A k \in Nat : m <= k /\ k <= n => SubSeq(bytes, m, k) = SubSeq(bytes, m, k - 1) \o <<bytes[k]>>
  <2> SUFFICES ASSUME NEW k \in Nat, m <= k, k <= n
               PROVE  SubSeq(bytes, m, k) = SubSeq(bytes, m, k - 1) \o <<bytes[k]>>
    OBVIOUS
  <2>1. m \in 1..Len(bytes) /\ k \in m..Len(bytes)
    BY <1>1
  <2> QED BY <2>1, SubSeqRecursiveSecond
<1>4. SubSeq(bytes, m, m) = <<At(bytes, m)>>
  <2>1. SubSeq(bytes, m, m - 1) = <<>>
    BY SubSeqEmpty
  <2>2. SubSeq(bytes, m, m) = <<>> \o <<At(bytes, m)>>
    <3>1. m <= m /\ m <= n /\ m \in 1..n
      BY <1>1
    <3>2. SubSeq(bytes, m, m) = SubSeq(bytes, m, m - 1) \o <<bytes[m]>>
      BY <1>3, <3>1
    <3> QED BY <1>2, <2>1, <3>1, <3>2
  <2>3. <<At(bytes, m)>> \in Seq(Byte)
    BY <1>1, <1>2
  <2> QED BY <2>2, <2>3, ConcatEmptySeq
<1>5. \A t \in Seq(Byte) : t \o <<>> = t
  BY ConcatEmptySeq
<1>6. <<At(bytes, m)>> \in Seq(Byte)
  BY <1>1, <1>2
<1>7. CASE ~(3 * g + 2 <= n)
  <2>1. end = m /\ ~(3 * g + 3 <= n)
    BY <1>1, <1>7
  <2> QED BY <1>4, <1>5, <1>6, <1>7, <2>1
<1>8. CASE 3 * g + 2 <= n
  <2>1. SubSeq(bytes, m, m + 1) = <<At(bytes, m)>> \o <<At(bytes, m + 1)>>
    <3>1. m + 1 \in Nat /\ m <= m + 1 /\ m + 1 <= n /\ (m + 1) - 1 = m /\ m + 1 \in 1..n
      BY <1>8
    <3>2. SubSeq(bytes, m, m + 1) = SubSeq(bytes, m, m) \o <<bytes[m + 1]>>
      BY <1>3, <3>1
    <3> QED BY <1>2, <1>4, <3>1, <3>2
  <2>2. <<At(bytes, m)>> \o <<At(bytes, m + 1)>> \in Seq(Byte)
    <3>1. <<At(bytes, m + 1)>> \in Seq(Byte)
      <4>1. m + 1 \in 1..n
        BY <1>8
      <4> QED BY <1>2, <4>1
    <3> QED BY <1>6, <3>1, ConcatProperties
  <2>3. CASE ~(3 * g + 3 <= n)
    <3>1. end = m + 1 /\ 3 * g + 2 = m + 1
      BY <1>8, <2>3
    <3> QED BY <1>5, <1>8, <2>1, <2>2, <2>3, <3>1
  <2>4. CASE 3 * g + 3 <= n
    <3>1. m + 2 \in Nat /\ m <= m + 2 /\ m + 2 <= n /\ (m + 2) - 1 = m + 1 /\ m + 2 \in 1..n
      BY <2>4
    <3>2. SubSeq(bytes, m, m + 2) = SubSeq(bytes, m, m + 1) \o <<bytes[m + 2]>>
      BY <1>3, <3>1
    <3>3. SubSeq(bytes, m, m + 2) = <<At(bytes, m)>> \o <<At(bytes, m + 1)>> \o <<At(bytes, m + 2)>>
      BY <1>2, <2>1, <3>1, <3>2
    <3>4. end = m + 2 /\ 3 * g + 2 = m + 1 /\ 3 * g + 3 = m + 2
      BY <2>4
    <3> QED BY <1>8, <2>4, <3>3, <3>4
  <2> QED BY <2>3, <2>4
<1> QED BY <1>7, <1>8

LEMMA AtobUndoes ==
  ASSUME NEW bytes \in Seq(Byte) PROVE Atob(Encoded(bytes)) = bytes
<1> PICK n \in Nat : n = Groups(Len(bytes), 3)
  BY EncodedType
<1> PICK s : s = Unpadded(Encoded(bytes))
  OBVIOUS
<1>1. Groups(Len(s), 4) = n /\ 3 * n >= Len(bytes) /\ (n = 0 => Len(bytes) = 0)
  <2>0. PICK m \in Nat : m = Len(bytes)
    OBVIOUS
  <2>1. PICK q \in Nat, r \in 0..2 :
          /\ m = 3 * q + r
          /\ Groups(m, 3) = IF r = 0 THEN q ELSE q + 1
          /\ Groups(Groups(8 * m, 6), 4) = Groups(m, 3)
    BY Lengths
  <2>2. Len(s) = Groups(8 * Len(bytes), 6)
    <3>1. Groups(8 * Len(bytes), 6) \in Nat
      BY EncodedType
    <3> QED BY <3>1, UnpaddedIs
  <2>3. 3 * n >= Len(bytes) /\ (n = 0 => Len(bytes) = 0)
    BY <2>0, <2>1
  <2> QED BY <2>0, <2>1, <2>2, <2>3
<1> PICK groups : groups = [g \in 1..n |-> AtobGroup(s, g - 1)]
  OBVIOUS
<1>2. Atob(Encoded(bytes)) = FlattenSeq(groups)
  BY <1>1 DEF Atob
<1>3. groups \in Seq({AtobGroup(s, g - 1) : g \in 1..n}) /\ Len(groups) = n
  <2>1. groups \in [1..n -> {AtobGroup(s, g - 1) : g \in 1..n}]
    OBVIOUS
  <2> QED BY <2>1, SeqOfFunction
<1>4. CASE n = 0
  <2>1. groups = <<>> /\ bytes = <<>>
    BY <1>1, <1>3, <1>4, EmptySeq
  <2>2. FlattenSeq(groups) = groups
    BY <1>3, <1>4 DEF FlattenSeq
  <2> QED BY <1>2, <2>1, <2>2
<1>5. CASE n # 0
  <2> DEFINE cut == [g \in 0..n |-> IF g = n THEN Len(bytes) ELSE 3 * g]
  <2>1. ASSUME NEW g \in 0..n PROVE cut[g] \in 0..Len(bytes)
    <3>1. CASE g = n
      BY <3>1
    <3>2. CASE g # n
      <4>1. g \in Nat /\ g < Groups(Len(bytes), 3)
        BY <3>2
      <4>2. 3 * g + 1 <= Len(bytes)
        BY <4>1, GroupReaches
      <4>3. cut[g] = 3 * g
        BY <3>2
      <4> HIDE DEF cut
      <4> QED BY <4>1, <4>2, <4>3
    <3> QED BY <3>1, <3>2
  <2>2. cut \in [0..n -> 0..Len(bytes)]
    BY <2>1
  <2>3. cut[0] = 0 /\ cut[n] = Len(bytes)
    BY <1>5
  <2>4. ASSUME NEW g \in 1..n
        PROVE  cut[g - 1] <= cut[g] /\ groups[g] = SubSeq(bytes, cut[g - 1] + 1, cut[g])
    <3> PICK h : h = g - 1
      OBVIOUS
    <3>1. h \in Nat /\ h < Groups(Len(bytes), 3)
      OBVIOUS
    <3>2. 3 * h + 1 <= Len(bytes) /\ (3 * h + 3 <= Len(bytes) \/ h + 1 = n)
      BY <3>1, GroupReaches
    <3> PICK end : end = IF 3 * h + 3 <= Len(bytes) THEN 3 * h + 3 ELSE Len(bytes)
      OBVIOUS
    <3>3. cut[g - 1] = 3 * h
      OBVIOUS
    <3>4. cut[g] = end
      <4>1. CASE g = n
        <5>1. cut[g] = Len(bytes)
          BY <4>1
        <5>2. h + 1 = n
          BY <4>1
        <5>3. 3 * h + 3 = 3 * n
          BY <3>1, <5>2
        <5> HIDE DEF cut
        <5>4. end = Len(bytes)
          BY <1>1, <5>3
        <5> QED BY <5>1, <5>4
      <4>2. CASE g # n
        <5>1. cut[g] = 3 * g
          BY <4>2
        <5> HIDE DEF cut
        <5> QED BY <3>2, <4>2, <5>1
      <4> QED BY <4>1, <4>2
    <3> HIDE DEF cut
    <3>5. groups[g] = AtobGroup(s, h)
      OBVIOUS
    <3>6. AtobGroup(s, h) = SubSeq(bytes, 3 * h + 1, end)
      <4>1. PICK bs : bs = <<At(bytes, 3 * h + 1)>>
                             \o (IF 3 * h + 2 <= Len(bytes) THEN <<At(bytes, 3 * h + 2)>> ELSE <<>>)
                             \o (IF 3 * h + 3 <= Len(bytes) THEN <<At(bytes, 3 * h + 3)>> ELSE <<>>)
        OBVIOUS
      <4>2. AtobGroup(s, h) = bs
        BY <3>1, <4>1, AtobGroupIs
      <4>3. SubSeq(bytes, 3 * h + 1, end) = bs
        BY <3>1, <3>2, <4>1, NextBytes
      <4> QED BY <4>2, <4>3
    <3>7. 3 * h <= end
      BY <3>1, <3>2
    <3> QED BY <3>3, <3>4, <3>5, <3>6, <3>7
  <2> HIDE DEF cut
  <2>5. Pieces(groups, bytes, cut)
    BY <1>3, <1>5, <2>2, <2>3, <2>4 DEF Pieces
  <2>6. FlattenSeq(groups) = bytes
    BY <2>5, PiecesFlatten
  <2> QED BY <1>2, <2>6
<1> QED BY <1>4, <1>5

----------------------------------------------------------------------------
(* The data *)

DataInv == data \in Seq(Byte)

LEMMA DataTyped == Spec => []DataInv
<1>1. Init => DataInv
  BY EmptySeq DEF Init, DataInv
<1>2. DataInv /\ [Next]_vars => DataInv'
  <2>1. ASSUME DataInv, NEW byte \in Bytes, Type(byte) PROVE DataInv'
    <3>1. byte \in Byte
      BY InputAssumption
    <3> QED BY <2>1, <3>1, AppendProperties DEF DataInv, Type
  <2>2. ASSUME DataInv, UNCHANGED data PROVE DataInv'
    BY <2>2 DEF DataInv
  <2> QED BY <2>1, <2>2 DEF Next, vars
<1> QED BY <1>1, <1>2, PTL DEF Spec

(* What the server writes arrives as it was: atob undoes the encoding of the *)
(* standard, for data of every length.                                       *)
THEOREM AtobCorrect == Spec => []AtobDecodes
<1>1. DataInv => AtobDecodes
  BY AtobUndoes DEF DataInv, AtobDecodes
<1> QED BY <1>1, DataTyped, PTL

(* The zeros that btoa puts behind the data carry no data. *)
LEMMA PaddedAlike ==
  ASSUME NEW s \in Seq(Byte), NEW z \in Seq(Byte), Len(z) = 3 * Groups(Len(s), 3),
         \A k \in Nat \ {0} : At(z, k) = At(s, k)
  PROVE  /\ Len(Encoded(z)) = Len(Encoded(s))
         /\ \A c \in 1..Groups(8 * Len(s), 6) : Encoded(z)[c] = Encoded(s)[c]
<1> PICK n \in Nat : n = Groups(Len(s), 3)
  BY EncodedType
<1>1. Groups(Len(z), 3) = n /\ Groups(8 * Len(z), 6) = 4 * n
  <2>1. Groups(3 * n, 3) = n /\ Groups(8 * (3 * n), 6) = 4 * n
    BY DEF Groups
  <2> QED BY <2>1
<1>2. /\ Len(Encoded(z)) = 4 * n /\ Len(Encoded(s)) = 4 * n
      /\ Groups(8 * Len(s), 6) \in 0..(4 * n)
  BY <1>1, EncodedType
<1>3. ASSUME NEW c \in 1..Groups(8 * Len(s), 6) PROVE Encoded(z)[c] = Encoded(s)[c]
  <2>1. c \in 1..(4 * n) /\ c - 1 \in Nat /\ ~(c > Groups(8 * Len(s), 6)) /\ ~(c > 4 * n)
    BY <1>2
  <2>2. Encoded(s)[c] = {b \in 0..5 : Bit(s, 6 * (c - 1) + 5 - b)}
    BY <2>1, EncodedType
  <2>3. Encoded(z)[c] = {b \in 0..5 : Bit(z, 6 * (c - 1) + 5 - b)}
    <3>1. c \in 1..(4 * Groups(Len(z), 3)) /\ ~(c > Groups(8 * Len(z), 6))
      BY <1>1, <2>1
    <3> QED BY <3>1, EncodedType
  <2>4. ASSUME NEW b \in 0..5
        PROVE  Bit(z, 6 * (c - 1) + 5 - b) <=> Bit(s, 6 * (c - 1) + 5 - b)
    <3> PICK i \in Nat : i = 6 * (c - 1) + 5 - b
      BY <2>1
    <3>1. i \div 8 + 1 \in Nat \ {0}
      OBVIOUS
    <3>2. At(z, i \div 8 + 1) = At(s, i \div 8 + 1)
      BY <3>1
    <3>3. Bit(z, i) <=> Bit(s, i)
      BY <3>2 DEF Bit
    <3> QED BY <3>3
  <2> QED BY <2>2, <2>3, <2>4
<1> QED BY <1>2, <1>3

(* The characters of btoa that carry data are the standard's, for data of    *)
(* every length: what comes in the place of '=' is all that can be wrong.    *)
THEOREM BtoaCorrect == Spec => []BtoaCarriesData
<1>1. ASSUME DataInv PROVE BtoaCarriesData
  <2> PICK zeros : zeros = [k \in 1..(3 * Groups(Len(data), 3) - Len(data)) |-> {}]
    OBVIOUS
  <2>1. PICK s \in Seq(Byte) : s = data
    BY <1>1 DEF DataInv
  <2>2. PICK z \in Seq(Byte) : /\ Len(z) = 3 * Groups(Len(s), 3)
                              /\ \A k \in Nat \ {0} : At(z, k) = At(s, k)
    BY <2>1, Padding
  <2>3. Btoa(s) = Encoded(z)
    BY <2>2, BtoaIsPadded
  <2>4. /\ Len(Encoded(z)) = Len(Encoded(s))
        /\ \A c \in 1..Groups(8 * Len(s), 6) : Encoded(z)[c] = Encoded(s)[c]
    BY <2>2, PaddedAlike
  <2> QED BY <2>1, <2>3, <2>4 DEF BtoaCarriesData
<1> QED BY <1>1, DataTyped, PTL

(* Every result a subnet page shows divides the addresses into subnets, for *)
(* every address and every mask the two pages can be given.                 *)
THEOREM SubnetsPartitionCorrect == Spec => []SubnetsPartition
<1>1. Init => ResultInv
  BY DEF Init, SubnetInit, ResultInv
<1>2. ResultInv /\ [Next]_vars => ResultInv'
  <2>1. ASSUME ResultInv, CalculateSubnet PROVE ResultInv'
    BY <2>1, FieldsAssumption DEF ResultInv, CalculateSubnet
  <2>2. ASSUME ResultInv, UNCHANGED <<fields, subnetResult>> PROVE ResultInv'
    BY <2>2 DEF ResultInv
  <2> QED BY <2>1, <2>2 DEF Next, Type, vars
<1>3. ResultInv => SubnetsPartition
  BY ResultPartitions
<1> QED BY <1>1, <1>2, <1>3, PTL DEF Spec
=============================================================================
