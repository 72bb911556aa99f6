------------------------------ MODULE MCSocks5 ------------------------------
(* Streams made of a greeting, a request and what follows, with up to one  *)
(* fault in each part; a prefix of a stream is one that is closed early.   *)
EXTENDS Socks5

Greetings == {<<5, 1, 0>>, <<5, 2, 2, 0>>, <<5, 1, 2>>, <<5, 0>>, <<4, 1, 0>>, <<5, 3, 0>>}
Headers == {<<5, 1, 0>>, <<4, 1, 0>>, <<5, 2, 0>>, <<5, 1, 1>>}
Hosts == {<<1, 10, 0, 0, 7>>, <<3, 1, 97>>, <<3, 2, 97, 46>>, <<3, 0>>, <<4, 0>>}
Ports == {<<0, 0>>, <<0, 80>>, <<1, 0>>}
Rests == {<<>>, <<5, 1>>}

MCInputs == {g \o h \o d \o p \o r : g \in Greetings, h \in Headers, d \in Hosts, p \in Ports, r \in Rests}
MCBinds == {[ip4 |-> <<10, 0, 0, 9>>, port |-> 258], [ip4 |-> <<>>, port |-> 65535]}
=============================================================================
