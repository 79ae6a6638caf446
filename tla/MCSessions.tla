----------------------------- MODULE MCSessions -----------------------------
(* Small instances of Sessions. *)
EXTENDS Sessions, TLC

\* Devices and refreshes are interchangeable.
Symmetry == Permutations(Devices) \union Permutations(Refreshes)
=============================================================================
