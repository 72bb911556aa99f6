------------------------------- MODULE Config -------------------------------
(***************************************************************************)
(* normalizeAndValidate of internal/config: from a parsed YAML file to the *)
(* configuration that the router and the health checker are built from,    *)
(* and applyReloadPolicy of cmd/zerosock/reload.go.  Strings are opaque;   *)
(* what the string and network libraries do to them is given by CONSTANTS. *)
(***************************************************************************)
EXTENDS Integers, Sequences

CONSTANTS
  Trim(_),            \* strings.TrimSpace
  NormalizeHost(_),   \* lower case, trimmed, without a final dot
  Rooted(_),          \* a path with its leading slash
  Listenable(_),      \* may the process listen there: ResolveTCPAddr gives no error
  Resolves(_),        \* backend address -> what a lookup may yield: ip:port, or Unusable
  Unusable,           \* the lookup fails, or yields no concrete IP, or the string is empty
  HalfRange,          \* a time.Duration is in -HalfRange .. HalfRange - 1 (2^63)
  Millisecond,        \* nanoseconds in a millisecond (10^6)
  Defaults            \* the default durations, by name

ASSUME DurationAssumption ==
  /\ HalfRange \in Nat \ {0} /\ Millisecond \in Nat \ {0}
  /\ DOMAIN Defaults = {"Interval", "Timeout", "DialTimeout", "ReadTimeout", "WriteTimeout",
                        "IdleTimeout", "TCPKeepAlive", "ShutdownGrace"}
  /\ \A d \in DOMAIN Defaults : Defaults[d] \in 1..(HalfRange - 1)
  /\ Defaults["Timeout"] <= Defaults["Interval"]

(* The settings applyReloadPolicy holds back, and all settings. *)
HeldBack == {"ListenAddr", "MetricsListenAddr", "MetricsEnabled", "MaxConnections",
             "MaxInflightDials", "DialTimeout", "ReadTimeout", "WriteTimeout",
             "IdleTimeout", "TCPKeepAlive"}
Settings == HeldBack \cup {"AutoDiscoveryEnabled", "ShutdownGrace"}
-----------------------------------------------------------------------------
(* Multiplication of a Go int64: the result wraps. *)
Wrapped(x) == ((x + HalfRange) % (2 * HalfRange)) - HalfRange

durationFromMSOrZero(ms, fallback) ==   \* faulty: 0 is not "unset"
  IF ms < 0 THEN fallback ELSE Wrapped(ms * Millisecond)
durationFromMS(ms, fallback) ==
  IF ms <= 0 THEN fallback ELSE Wrapped(ms * Millisecond)

(* A blank path means an L4 check. *)
NormalizePath(p) == IF Trim(p) = "" THEN "" ELSE Rooted(Trim(p))

(* The global healthcheck section. *)
DefaultInterval(raw) == durationFromMS(raw.healthcheck.interval, Defaults["Interval"])
DefaultTimeout(raw) == durationFromMS(raw.healthcheck.timeout, Defaults["Timeout"])

(* The effective check of a group: its own values, or else the global ones. *)
Interval(raw, g) == durationFromMS(raw.groups[g].healthcheck.interval, DefaultInterval(raw))
Timeout(raw, g) == durationFromMS(raw.groups[g].healthcheck.timeout, DefaultTimeout(raw))
Path(raw, g) ==
  LET own == NormalizePath(raw.groups[g].healthcheck.path)
  IN IF own = "" THEN NormalizePath(raw.healthcheck.path) ELSE own

(* A setting of the server: durations from milliseconds, the switches and  *)
(* addresses with their defaults.                                          *)
Setting(raw, s) ==
  LET v == raw.settings[s]
  IN CASE s \in DOMAIN Defaults -> durationFromMS(v, Defaults[s])
       [] s = "MetricsEnabled" -> IF v = "unset" THEN "on" ELSE v
       [] s = "AutoDiscoveryEnabled" -> IF v = "unset" THEN "off" ELSE v
       [] s = "MetricsListenAddr" ->
            IF Trim(v) = "" /\ raw.settings["MetricsEnabled"] # "off" THEN "127.0.0.1:9090"
            ELSE Trim(v)
       [] OTHER -> v

(***************************************************************************)
(* Every backend address is resolved once for the checker, and again for   *)
(* each route.  A lookup of a group is one result per address.             *)
(***************************************************************************)
Lookups(raw, g) ==
  LET addrs == raw.groups[g].addresses
  IN {l \in [DOMAIN addrs -> UNION {Resolves(Trim(addrs[i])) : i \in DOMAIN addrs}] :
        \A i \in DOMAIN addrs : l[i] \in Resolves(Trim(addrs[i]))}
CheckerLookups(raw) ==
  LET results == UNION {Lookups(raw, g) : g \in DOMAIN raw.groups}
  IN {l \in [DOMAIN raw.groups -> results] : \A g \in DOMAIN raw.groups : l[g] \in Lookups(raw, g)}
Failed(lookup) == \E i \in DOMAIN lookup : lookup[i] = Unusable

RouteGroup(raw, h) == Trim(raw.routes[h])

(* What normalizeAndValidate insists on before it comes to the routes,     *)
(* given the lookups for the checker, and then of each route.              *)
Accepted(raw, lookup) ==
  /\ raw.parses
  /\ Trim(raw.settings["ListenAddr"]) # "" /\ Listenable(raw.settings["ListenAddr"])
  /\ Setting(raw, "MetricsEnabled") = "on" => Listenable(Setting(raw, "MetricsListenAddr"))
  /\ DefaultTimeout(raw) <= DefaultInterval(raw)
  /\ DOMAIN raw.groups # {} /\ DOMAIN raw.routes # {}
  /\ \A g \in DOMAIN raw.groups :
       /\ Trim(g) # "" /\ raw.groups[g].addresses # <<>> /\ ~Failed(lookup[g])
       /\ Timeout(raw, g) <= Interval(raw, g)
RouteAccepted(raw, h) == NormalizeHost(h) # "" /\ RouteGroup(raw, h) \in DOMAIN raw.groups

Hosts(raw) == {NormalizeHost(h) : h \in DOMAIN raw.routes}

(* Of the route keys that normalise to one host the last in the iteration  *)
(* order of the map wins.                                                  *)
Winners(raw) ==
  {w \in [Hosts(raw) -> DOMAIN raw.routes] : \A h \in Hosts(raw) : NormalizeHost(w[h]) = h}

RouteLookups(raw, winner) ==
  LET results == UNION {Lookups(raw, g) : g \in DOMAIN raw.groups}
  IN {l \in [Hosts(raw) -> results] :
        \A h \in Hosts(raw) : l[h] \in Lookups(raw, RouteGroup(raw, winner[h])) /\ ~Failed(l[h])}

(* The error of the second lookup is ignored and its nil result used. *)
MayPanic(raw) ==
  \E h \in DOMAIN raw.routes :
    RouteAccepted(raw, h) /\ \E l \in Lookups(raw, RouteGroup(raw, h)) : Failed(l)

(* The RuntimeConfig: the groups with their lookups for the checker, and   *)
(* the routes with theirs, one for each host.                              *)
Normalized(raw, winner, lookup, again) ==
  [settings |-> [s \in Settings |-> Setting(raw, s)],
   groups   |-> [g \in DOMAIN raw.groups |->
                   [name |-> Trim(g), addresses |-> lookup[g],
                    interval |-> Interval(raw, g), timeout |-> Timeout(raw, g),
                    path |-> Path(raw, g)]],
   routes   |-> again,
   group    |-> [h \in Hosts(raw) |-> RouteGroup(raw, winner[h])]]

(* applyReloadPolicy: the settings that remain those of the running process. *)
applyReloadPolicyShort(current, next) ==   \* faulty: a setting is forgotten
  [next EXCEPT !.settings =
     [s \in Settings |-> IF s \in HeldBack \ {"IdleTimeout"} THEN current.settings[s]
                         ELSE next.settings[s]]]
applyReloadPolicy(current, next) ==
  [next EXCEPT !.settings =
     [s \in Settings |-> IF s \in HeldBack THEN current.settings[s] ELSE next.settings[s]]]
=============================================================================
