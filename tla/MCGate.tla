------------------------------- MODULE MCGate -------------------------------
(***************************************************************************)
(* Gate on a small instance, with the symmetry of everything but the       *)
(* limits.                                                                 *)
(***************************************************************************)
EXTENDS Gate, TLC

Symmetry == Permutations(Workers) \cup Permutations(Conns)
            \cup Permutations(Handles) \cup Permutations(IPs)
=============================================================================
