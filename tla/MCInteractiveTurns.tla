------------------------- MODULE MCInteractiveTurns -------------------------
(* Instances of InteractiveTurns for TLC. *)
EXTENDS InteractiveTurns, TLC

(* Clients and prompts are interchangeable. *)
Symmetry == Permutations(Clients) \cup Permutations(Prompts)
=============================================================================
