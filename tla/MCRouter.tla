------------------------------ MODULE MCRouter ------------------------------
(* An instance of Router for TLC. *)
EXTENDS Router, TLC

CONSTANTS h1, h2, h3, a1, a2, a3

(* Two routes that share an address, and a host without a route. *)
SharedRoutes == (h1 :> <<a2, a1>>) @@ (h2 :> <<a2>>)
=============================================================================
