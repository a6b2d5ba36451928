---------------------------- MODULE Calculations ----------------------------
(***************************************************************************)
(* The calculations of Base64 and SubnetCalc over bounded inputs: the user *)
(* types into the terminal, whose data grows byte by byte, or into one of  *)
(* the two subnet pages.                                                   *)
(***************************************************************************)
EXTENDS Base64, SubnetCalc

CONSTANTS
  Bytes,       \* the bytes tried, sets of ones
  MaxLength    \* bound on the length of the data

ASSUME InputAssumption == Bytes \subseteq Byte /\ MaxLength \in Nat

VARIABLE data    \* what is encoded for the proxy, or written by the server

vars == <<data, fields, subnetResult>>

Init == data = <<>> /\ SubnetInit

(* More is typed into the terminal, or written by the shell. *)
Type(byte) ==
  /\ fields = NoPage /\ Len(data) < MaxLength
  /\ data' = Append(data, byte)
  /\ UNCHANGED <<fields, subnetResult>>

Next ==
  \/ CalculateSubnet /\ UNCHANGED data
  \/ \E byte \in Bytes : Type(byte)

Spec == Init /\ [][Next]_vars

----------------------------------------------------------------------------
(* Properties *)

(* What the server writes arrives as it was: atob (WebSocketSSHClient.ets)  *)
(* undoes the standard's encoding, with one, two or no '=' at the end.      *)
AtobDecodes == Atob(Encoded(data)) = data

(* What the user types leaves btoa in the standard's encoding.              *)
BtoaEncodes == Btoa(data) = Encoded(data)

(* At least the characters of btoa that carry data are the standard's, and   *)
(* those of its last group are four: a decoder that does not look at the '=' *)
(* finds all that was typed, and goes wrong at its end only.                 *)
BtoaCarriesData ==
  /\ Len(Btoa(data)) = Len(Encoded(data))
  /\ \A c \in 1..Groups(8 * Len(data), 6) : Btoa(data)[c] = Encoded(data)[c]
=============================================================================
