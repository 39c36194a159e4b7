----------------------------- MODULE MCIOSocket -----------------------------
(***************************************************************************)
(* IOSocket on a small instance: the symmetry of its threads, packets and  *)
(* buffers, for the runs that check safety only.                           *)
(***************************************************************************)
EXTENDS IOSocket, TLC

Symmetry == Permutations(Workers) \cup Permutations(Others)
            \cup Permutations(Packets) \cup Permutations(Buffers)
=============================================================================
