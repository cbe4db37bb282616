--------------------------- MODULE MCHubRunQueue ---------------------------
(* Instances of HubRunQueue for TLC. *)
EXTENDS HubRunQueue

CONSTANTS s1, s2

(* The second run is for another session than the others. *)
TwoSessions == [r \in Run |-> IF r = 2 THEN s2 ELSE s1]
OneSession == [r \in Run |-> s1]
=============================================================================
