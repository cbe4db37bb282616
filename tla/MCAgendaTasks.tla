--------------------------- MODULE MCAgendaTasks ---------------------------
(* Instances of AgendaTasks for TLC. *)
EXTENDS AgendaTasks
=============================================================================
