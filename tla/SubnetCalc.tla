----------------------------- MODULE SubnetCalc -----------------------------
(***************************************************************************)
(* The two subnet pages: the user fills in the fields of one of them, and  *)
(* its button shows a result (ets/pages/tools/SubnetCalc.ets and           *)
(* lynx-app/src/pages/SubnetCalcPage.tsx).                                 *)
(***************************************************************************)
EXTENDS Subnet

CONSTANTS
  Octets,      \* the octets of addresses that are typed, of 0..255
  NoPage       \* no subnet page is shown

VARIABLES
  fields,         \* what is typed, and into which page
  subnetResult    \* what the page shows

Fields == [page: {"ets", "tsx"}, subnetIp: [1..4 -> Octets], subnetMask: (0..33) \cup {Empty}]

ASSUME FieldsAssumption == Octets \subseteq 0..255 /\ NoPage \notin Fields

NoResult == [maskBits |-> Empty]

SubnetInit ==
  /\ fields \in Fields \cup {NoPage}
  /\ subnetResult = NoResult

(* calculateSubnet, run, for an address that is well formed *)
CalculateSubnet ==
  /\ fields # NoPage /\ subnetResult = NoResult
  /\ subnetResult' = Calculate(Number(fields.subnetIp), MaskBits(fields.page, fields.subnetMask))
  /\ UNCHANGED fields

----------------------------------------------------------------------------
(* Properties *)

Same(r, number) == Calculate(number, r.maskBits) = r

(* With a mask of at least one bit the subnets divide the addresses: the     *)
(* address lies between network and broadcast address, which differ in all   *)
(* the bits the mask leaves, each of the two has the same subnet, and the    *)
(* one after the broadcast address begins another.  The range of hosts runs  *)
(* upwards inside the subnet as long as the mask leaves two bits.            *)
SubnetsPartition ==
  subnetResult # NoResult /\ subnetResult.maskBits >= 1 =>
    LET r == subnetResult
        next == Increment(r.broadcast) IN
      /\ InSubnet(r, Number(fields.subnetIp))
      /\ r.broadcast \ r.network = 0..(31 - r.maskBits)
      /\ Same(r, r.network) /\ Same(r, r.broadcast)
      /\ Calculate(next, r.maskBits).network = next
      /\ r.maskBits <= 30 =>
           /\ AtMost(r.firstHost, r.lastHost)
           /\ InSubnet(r, r.firstHost) /\ InSubnet(r, r.lastHost)
=============================================================================
