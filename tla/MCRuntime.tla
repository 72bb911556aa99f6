----------------------------- MODULE MCRuntime ------------------------------
(* Runtime with a group that two hosts share, checked by TCP or by HTTP.   *)
EXTENDS Runtime

Text(s) == CASE s = " web" -> "web" [] s = "A" -> "a" [] s = "status" -> "/status"
             [] OTHER -> s

(* The process may listen on 0.0.0.0, which no backend can be. *)
Listens(a) == a # "nowhere"

(* "name" has two addresses, so that two lookups may differ or fail. *)
Lookup(a) == CASE a = "name" -> {"x", "y", Unusable} [] a \in {"nowhere", "0.0.0.0"} -> {Unusable}
               [] OTHER -> {a}

(* A duration is in -64..63; a millisecond is 2. *)
Times == [d \in {"Interval", "Timeout", "DialTimeout", "ReadTimeout", "WriteTimeout",
                 "IdleTimeout", "TCPKeepAlive", "ShutdownGrace"} |-> IF d = "Timeout" THEN 4 ELSE 8]

Server(metrics, discovery, idle) ==
  [s \in Settings |->
     CASE s = "MetricsEnabled" -> metrics [] s = "AutoDiscoveryEnabled" -> discovery
       [] s = "IdleTimeout" -> idle [] s = "ListenAddr" -> "0.0.0.0"
       [] s = "MetricsListenAddr" -> "" [] OTHER -> 0]

Check(interval, timeout, path) == [interval |-> interval, timeout |-> timeout, path |-> path]
File(settings, check, addrs, routes) ==
  [parses |-> TRUE, settings |-> settings, healthcheck |-> Check(0, 0, ""),
   groups |-> [g \in {"web"} |-> [addresses |-> addrs, healthcheck |-> check]],
   routes |-> routes]

(* TCP checks; HTTP checks, with another idle timeout and a second host;   *)
(* a route to no group; an interval that wraps below zero.                 *)
TcpFile == File(Server("unset", "on", 0), Check(0, 0, ""), <<"x">>, [h \in {"a"} |-> "web"])
HttpFile == File(Server("off", "unset", 7), Check(3, 3, "status"), <<"x">>, [h \in {"A", "b"} |-> " web"])
BadFile == [HttpFile EXCEPT !.routes = [h \in {"a"} |-> "none"]]
NameFile == [TcpFile EXCEPT !.groups["web"].addresses = <<"name">>]
HugeFile == [HttpFile EXCEPT !.groups["web"].healthcheck = Check(40, 1, "status")]
MCFiles == {TcpFile, HttpFile, BadFile, HugeFile}
NameFiles == {NameFile}
=============================================================================
