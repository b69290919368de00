------------------------- MODULE MCConnectionTokens -------------------------
(* Instances of ConnectionTokens for TLC.                                  *)
EXTENDS ConnectionTokens

CONSTANTS api, c1, c2, k1, d1

(* Everything runs in the API's process. *)
MCProcessOf == [t \in Callers \cup Disconnects |-> api]

=============================================================================
