---- MODULE MCKesshNative ----
(* TLC instance of KesshNative: symmetric sets of model values. *)
EXTENDS KesshNative, TLC

Symmetry == Permutations(Jobs) \cup Permutations(Tasks) \cup Permutations(Socks) \cup Permutations(Libs)
====
