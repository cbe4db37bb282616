--------------------------- MODULE MCHubRequests ---------------------------
(* Instances of HubRequests for TLC. *)
EXTENDS HubRequests

(* One client created every session. *)
OneOwner == [s \in Session |-> CHOOSE c \in Client : TRUE]
=============================================================================
