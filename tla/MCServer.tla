------------------------------ MODULE MCServer ------------------------------
(* Instances of Server for TLC. *)
EXTENDS Server, TLC

CONSTANTS c1, c2, c3, h1, h2, a1, a2

ConnSymmetry == Permutations(Conns)

Fqdn(h) == [atyp |-> "fqdn", dest |-> h]
IPv4(a) == [atyp |-> "ipv4", dest |-> a]

(* h1 is served by a1 and a2; or by a2 only, after a1 was taken out. *)
Both   == [routes |-> h1 :> {a1, a2}, owner |-> (a1 :> h1) @@ (a2 :> h1)]
OnlyA2 == [routes |-> h1 :> {a2},     owner |-> (a2 :> h1)]

TwoTables == {Both, OnlyA2}
OneTable  == {OnlyA2}
AllRequests == {Fqdn(h1), Fqdn(h2), IPv4(a1)}
OneRequest == {Fqdn(h1)}
MissedRequest == {Fqdn(h1), Fqdn(h2)}
=============================================================================
