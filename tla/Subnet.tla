------------------------------- MODULE Subnet -------------------------------
(***************************************************************************)
(* The subnet calculators: ets/pages/tools/SubnetCalc.ets and, for the     *)
(* Lynx UI, lynx-app/src/pages/SubnetCalcPage.tsx.  They differ in how     *)
(* they read the length of the mask.                                       *)
(*                                                                         *)
(* An address is a 32-bit word, the set of its ones.                       *)
(***************************************************************************)
EXTENDS Words

CONSTANT Empty     \* a field with nothing typed: no number

ASSUME SubnetAssumption == Empty \notin Int

OctetBits(octet) == {b \in 0..7 : (octet \div 2^b) % 2 = 1}

Lowest(bits) == CHOOSE b \in bits : \A c \in bits : b <= c

Increment(w) ==
  IF w = Word THEN {} ELSE LET b == Lowest(Word \ w) IN (w \ (0..b)) \cup {b}

Decrement(w) ==
  IF w = {} THEN Word ELSE LET b == Lowest(w) IN (w \ {b}) \cup (0..(b - 1))

(* 0 is no number either in 'parseInt(...) || 24'. *)
MaskBits(p, typed) ==
  LET bits == IF typed = Empty \/ (p = "ets" /\ typed = 0) THEN 24 ELSE typed
  IN IF bits > 32 THEN 32 ELSE bits

Next8(word, octet) == ShiftLeft(word, 8) \cup OctetBits(octet)

(* reduce over the four parts of the address *)
Number(ip) == Next8(Next8(Next8(Next8({}, ip[1]), ip[2]), ip[3]), ip[4])

Calculate_oneBitMore(number, maskBits) ==
  LET mask == ShiftLeft(Word, 31 - maskBits)
      network == number \cap mask
      broadcast == network \cup (Word \ mask)
  IN [maskBits |-> maskBits, mask |-> mask, network |-> network, broadcast |-> broadcast,
      firstHost |-> Increment(network), lastHost |-> Decrement(broadcast)]

Calculate(number, maskBits) ==
  LET mask == ShiftLeft(Word, 32 - maskBits)
      network == number \cap mask
      broadcast == network \cup (Word \ mask)
  IN [maskBits |-> maskBits, mask |-> mask, network |-> network, broadcast |-> broadcast,
      firstHost |-> Increment(network), lastHost |-> Decrement(broadcast)]

----------------------------------------------------------------------------
(* The order of words, as numbers *)

AtMost(a, b) == a = b \/ \E k \in b \ a : \A c \in Word : c > k => (c \in a <=> c \in b)

InSubnet(r, number) == AtMost(r.network, number) /\ AtMost(number, r.broadcast)
=============================================================================
