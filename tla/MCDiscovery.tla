---------------------------- MODULE MCDiscovery -----------------------------
(* Instances of Discovery for TLC. *)
EXTENDS Discovery, TLC

CONSTANTS s1, s2

(* The operator's own route, to a group with one address. *)
BaseConfig == [parses |-> TRUE, server |-> TRUE, whole |-> TRUE,
               groups |-> ("base" :> {<<"ip0", 80>>}),
               routes |-> (<<"home">> :> "base")]
OperatorKeys == {<<"a.b">>}
NoKeys == {}
OperatorAddresses == {<<"ip9", 80>>}

Names == ("a.b" :> {"ip1"}) @@ ("a-b" :> {"ip2"}) @@ ("a.b.3" :> {"ip4"})

(* "a.b" and "a-b" have the same group name; that of "a.b.3" looks like it *)
(* with a number.                                                          *)
FlatName(k) == CASE k \in {<<"a.b">>, <<"a-b">>} -> "auto-a-b"
                 [] k = <<"a.b.3">> -> "auto-a-b-3"
                 [] OTHER -> "auto-ip5-80"
NumberedName(g, n) == g \o "-" \o ToString(n)

(* The order in which the keys of a map are written. *)
WithNumbers(g) == <<g>> \o [n \in 1..5 |-> NumberedName(g, n)]
SortedKeys ==
  WithNumbers("auto-a-b") \o WithNumbers("auto-a-b-3") \o WithNumbers("auto-ip5-80")
    \o <<"base", "new">> \o <<<<"a-b">>, <<"a.b">>, <<"a.b.3">>, <<"home">>, <<"ip5", 80>>>>
Places == [t \in {ToString(SortedKeys[i]) : i \in DOMAIN SortedKeys} |->
             CHOOSE i \in DOMAIN SortedKeys : ToString(SortedKeys[i]) = t]
KeyPlace(key) == Places[ToString(key)]

F(h) == [atyp |-> "fqdn", host |-> h, port |-> 80]
V4(h) == [atyp |-> "ipv4", host |-> h, port |-> 80]

TwoPorts == {F("a.b"), [F("a.b") EXCEPT !.port = 443]}
TwoHosts == {F("a.b"), F("a-b")}
FourHosts == TwoHosts \cup {F("a.b.3"), V4("ip5")}
=============================================================================
