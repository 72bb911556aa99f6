---------------------------- MODULE HealthProofs ----------------------------
(***************************************************************************)
(* Proofs about the health checkers of Runtime, for any files, backends    *)
(* and any number of reloads: the types, that whatever serves is probed,   *)
(* and that the flag Pick reads is the last verdict.                       *)
(***************************************************************************)
EXTENDS RuntimeProofs

-----------------------------------------------------------------------------
(* What the configs have in common. *)

(* Every route has a group that lists what the route lists. *)
Probed(c) ==
  \A h \in DOMAIN c.routes :
    /\ h \in DOMAIN c.group
    /\ \E g \in DOMAIN c.groups :
         c.groups[g].name = c.group[h] /\ c.groups[g].addresses = c.routes[h]

(* A hypothesis: no backend is a name with several addresses, so that the  *)
(* checker and the routes get the same from their two lookups.             *)
LookupsAgree ==
  \A f \in Files : \A g \in DOMAIN f.groups : \A i \in DOMAIN f.groups[g].addresses :
    \A a, b \in Resolves(Trim(f.groups[g].addresses[i])) : a = b

(* Two hypotheses: names of groups differ by more than blanks, and a group *)
(* lists an address once.                                                  *)
NamesDiffer ==
  \A f \in Files : \A g, k \in DOMAIN f.groups : Trim(g) = Trim(k) => g = k
AddressesDiffer ==
  \A f \in Files : \A g \in DOMAIN f.groups : \A i, j \in DOMAIN f.groups[g].addresses :
    Resolves(Trim(f.groups[g].addresses[i])) \cap Resolves(Trim(f.groups[g].addresses[j])) # {}
      => i = j

(* A config is empty or made from a file with lookups of its addresses. *)
FromFile(c, f, w, l, again) ==
  /\ w \in Winners(f) /\ l \in CheckerLookups(f) /\ again \in RouteLookups(f, w)
  /\ \A h \in DOMAIN f.routes : RouteAccepted(f, h)
  /\ c = Normalized(f, w, l, again)

LEMMA ConfigParts ==
  ASSUME NEW c \in Configs
  PROVE  c = NoConfig \/ \E f \in Files : \E w, l, again : FromFile(c, f, w, l, again)
<1>1. PICK f \in Files : \E b \in Build(f) : c = b.cfg
  BY DEF Configs
<1>2. PICK b \in Build(f) : c = b.cfg
  BY <1>1
<1>3. Refused.cfg = NoConfig /\ Panicked.cfg = NoConfig
  BY DEF Refused, Panicked
<1>4. CASE b = Refused \/ b = Panicked
  BY <1>2, <1>3, <1>4, Zenon
<1>5. CASE b # Refused /\ b # Panicked
  <2>1. PICK l \in CheckerLookups(f) : b \in BuildRoutes(f, l)
    BY <1>5 DEF Build
  <2>2. PICK w \in Winners(f) : \E again \in RouteLookups(f, w) :
          /\ \A h \in DOMAIN f.routes : RouteAccepted(f, h)
          /\ b = Built(Normalized(f, w, l, again))
    BY <1>5, <2>1 DEF BuildRoutes
  <2>3. PICK again \in RouteLookups(f, w) :
          /\ \A h \in DOMAIN f.routes : RouteAccepted(f, h)
          /\ b = Built(Normalized(f, w, l, again))
    BY <2>2
  <2>4. c = Normalized(f, w, l, again)
    BY <1>2, <2>3 DEF Built
  <2>5. FromFile(c, f, w, l, again)
    BY <2>3, <2>4, Zenon DEF FromFile
  <2> QED
    BY <2>5
<1> QED
  BY <1>4, <1>5

(* The fields of a config that the checkers use. *)
LEMMA NormalizedFields ==
  ASSUME NEW f, NEW w, NEW l, NEW again
  PROVE  LET c == Normalized(f, w, l, again)
         IN /\ c.routes = again
            /\ DOMAIN c.group = Hosts(f)
            /\ \A h \in Hosts(f) : c.group[h] = RouteGroup(f, w[h])
            /\ DOMAIN c.groups = DOMAIN f.groups
            /\ \A g \in DOMAIN f.groups :
                 c.groups[g].name = Trim(g) /\ c.groups[g].addresses = l[g]
  BY DEF Normalized

(* Two lookups of one group give the same. *)
LEMMA LookupsEqual ==
  ASSUME LookupsAgree, NEW f \in Files, NEW g \in DOMAIN f.groups,
         NEW l \in Lookups(f, g), NEW m \in Lookups(f, g)
  PROVE  l = m
<1> DEFINE addrs == f.groups[g].addresses
           R == UNION {Resolves(Trim(addrs[i])) : i \in DOMAIN addrs}
<1>1. /\ l \in [DOMAIN addrs -> R] /\ m \in [DOMAIN addrs -> R]
      /\ \A i \in DOMAIN addrs : l[i] \in Resolves(Trim(addrs[i])) /\ m[i] \in Resolves(Trim(addrs[i]))
  BY DEF Lookups
<1>2. \A i \in DOMAIN addrs : l[i] = m[i]
  <2> SUFFICES ASSUME NEW i \in DOMAIN addrs PROVE l[i] = m[i]
    OBVIOUS
  <2>1. l[i] \in Resolves(Trim(addrs[i])) /\ m[i] \in Resolves(Trim(addrs[i]))
    BY <1>1, Zenon
  <2> QED
    BY <2>1, Zenon DEF LookupsAgree
<1> HIDE DEF addrs, R
<1>3. l = [i \in DOMAIN addrs |-> l[i]] /\ m = [i \in DOMAIN addrs |-> m[i]]
  BY <1>1
<1> QED
  BY <1>2, <1>3, Zenon

(* What the lookups and the choice of winners range over. *)
LEMMA PartShapes ==
  ASSUME NEW c, NEW f, NEW w, NEW l, NEW again, FromFile(c, f, w, l, again)
  PROVE  /\ DOMAIN again = Hosts(f)
         /\ \A h \in Hosts(f) : /\ again[h] \in Lookups(f, RouteGroup(f, w[h]))
                                /\ w[h] \in DOMAIN f.routes
                                /\ RouteGroup(f, w[h]) \in DOMAIN f.groups
         /\ \A g \in DOMAIN f.groups : l[g] \in Lookups(f, g)
<1>1. DOMAIN again = Hosts(f) /\ \A h \in Hosts(f) : again[h] \in Lookups(f, RouteGroup(f, w[h]))
  BY DEF FromFile, RouteLookups
<1>2. \A h \in Hosts(f) : w[h] \in DOMAIN f.routes
  BY DEF FromFile, Winners
<1>3. \A h \in Hosts(f) : RouteGroup(f, w[h]) \in DOMAIN f.groups
  BY <1>2 DEF FromFile, RouteAccepted
<1>4. \A g \in DOMAIN f.groups : l[g] \in Lookups(f, g)
  BY DEF FromFile, CheckerLookups
<1> QED
  BY <1>1, <1>2, <1>3, <1>4

LEMMA ConfigsAreProbed ==
  ASSUME LookupsAgree, NEW c \in Configs
  PROVE  Probed(c)
<1>1. CASE c = NoConfig
  BY <1>1 DEF NoConfig, Probed
<1>2. CASE \E f \in Files : \E w, l, again : FromFile(c, f, w, l, again)
  <2>0. PICK f \in Files : \E w, l, again : FromFile(c, f, w, l, again)
    BY <1>2
  <2>1. PICK w, l, again : FromFile(c, f, w, l, again)
    BY <2>0
  <2>2. /\ c.routes = again /\ DOMAIN c.group = Hosts(f)
        /\ \A h \in Hosts(f) : c.group[h] = RouteGroup(f, w[h])
        /\ DOMAIN c.groups = DOMAIN f.groups
        /\ \A g \in DOMAIN f.groups : c.groups[g].name = Trim(g) /\ c.groups[g].addresses = l[g]
    BY <2>1, NormalizedFields DEF FromFile
  <2>3. /\ DOMAIN again = Hosts(f)
        /\ \A h \in Hosts(f) : /\ again[h] \in Lookups(f, RouteGroup(f, w[h]))
                               /\ w[h] \in DOMAIN f.routes
                               /\ RouteGroup(f, w[h]) \in DOMAIN f.groups
        /\ \A g \in DOMAIN f.groups : l[g] \in Lookups(f, g)
    BY <2>1, PartShapes
  <2>4. ASSUME NEW h \in Hosts(f)
        PROVE  \E g \in DOMAIN c.groups :
                 c.groups[g].name = c.group[h] /\ c.groups[g].addresses = c.routes[h]
    <3> DEFINE g == RouteGroup(f, w[h])
    <3>1. g \in DOMAIN f.groups
      BY <2>3
    <3>2. Trim(g) = g
      BY <2>3, TrimAssumption DEF RouteGroup
    <3>3. l[g] = again[h]
      BY <2>3, <3>1, LookupsEqual
    <3> HIDE DEF g
    <3>4. c.group[h] = g
      BY <2>2 DEF g
    <3>5. c.groups[g].name = c.group[h] /\ c.groups[g].addresses = c.routes[h]
      BY <2>2, <3>1, <3>2, <3>3, <3>4
    <3> QED
      BY <2>2, <3>1, <3>5
  <2> QED
    BY <2>2, <2>3, <2>4 DEF Probed
<1> QED
  BY <1>1, <1>2, ConfigParts

(* No two workers of a checker have a host and an address in common. *)
Separate(c) ==
  /\ DOMAIN c.group \subseteq DOMAIN c.routes
  /\ \A g, k \in DOMAIN c.groups : c.groups[g].name = c.groups[k].name => g = k
  /\ \A g \in DOMAIN c.groups : \A i, j \in DOMAIN c.groups[g].addresses :
       c.groups[g].addresses[i] = c.groups[g].addresses[j] => i = j

LEMMA ConfigsAreSeparate ==
  ASSUME NamesDiffer, AddressesDiffer, NEW c \in Configs
  PROVE  Separate(c)
<1>1. CASE c = NoConfig
  BY <1>1 DEF NoConfig, Separate
<1>2. CASE \E f \in Files : \E w, l, again : FromFile(c, f, w, l, again)
  <2>0. PICK f \in Files : \E w, l, again : FromFile(c, f, w, l, again)
    BY <1>2
  <2>1. PICK w, l, again : FromFile(c, f, w, l, again)
    BY <2>0
  <2>2. /\ c.routes = again /\ DOMAIN c.group = Hosts(f)
        /\ DOMAIN c.groups = DOMAIN f.groups
        /\ \A g \in DOMAIN f.groups : c.groups[g].name = Trim(g) /\ c.groups[g].addresses = l[g]
    BY <2>1, NormalizedFields DEF FromFile
  <2>3. /\ DOMAIN again = Hosts(f)
        /\ \A g \in DOMAIN f.groups : l[g] \in Lookups(f, g)
    BY <2>1, PartShapes
  <2>4. ASSUME NEW g \in DOMAIN f.groups, NEW i \in DOMAIN l[g], NEW j \in DOMAIN l[g],
               l[g][i] = l[g][j]
        PROVE  i = j
    <3> DEFINE addrs == f.groups[g].addresses
    <3>1. /\ DOMAIN l[g] = DOMAIN addrs
          /\ \A n \in DOMAIN addrs : l[g][n] \in Resolves(Trim(addrs[n]))
      BY <2>3 DEF Lookups
    <3>2. Resolves(Trim(addrs[i])) \cap Resolves(Trim(addrs[j])) # {}
      BY <2>4, <3>1
    <3> QED
      BY <2>4, <3>1, <3>2, Zenon DEF AddressesDiffer
  <2>5. \A g, k \in DOMAIN c.groups : c.groups[g].name = c.groups[k].name => g = k
    BY <2>2 DEF NamesDiffer
  <2>6. \A g \in DOMAIN c.groups : \A i, j \in DOMAIN c.groups[g].addresses :
          c.groups[g].addresses[i] = c.groups[g].addresses[j] => i = j
    BY <2>2, <2>4
  <2> QED
    BY <2>2, <2>3, <2>5, <2>6 DEF Separate
<1> QED
  BY <1>1, <1>2, ConfigParts

-----------------------------------------------------------------------------
(* The workers. *)

(* A worker's context is done when it ends; it waits with nothing to report. *)
StopInv == \A w \in DOMAIN work : work[w].pc = "done" => w[1] \in cancelled
IdleInv == \A w \in DOMAIN work : work[w].pc = "idle" => work[w].todo = {}

(* A worker's state has these three fields and no other. *)
IsState(s) == s = [pc |-> s.pc, alive |-> s.alive, todo |-> s.todo]
StateInv == \A w \in DOMAIN work : IsState(work[w])

WorkInv == WorkTypes /\ StopInv /\ IdleInv /\ StateInv

LEMMA WorkerShape ==
  ASSUME WorkTypes, NEW w \in DOMAIN work
  PROVE  /\ w[1] \in 1..Newest /\ w[2] \in DOMAIN cfgs[w[1]].groups
         /\ w[3] \in DOMAIN Group(w).addresses /\ w = <<w[1], w[2], w[3]>>
<1>1. PICK n \in 1..Newest : w \in WorkersOf(n, cfgs[n])
  BY DEF WorkTypes
<1>2. PICK g \in DOMAIN cfgs[n].groups : \E i \in DOMAIN cfgs[n].groups[g].addresses : w = <<n, g, i>>
  BY <1>1 DEF WorkersOf
<1>3. PICK i \in DOMAIN cfgs[n].groups[g].addresses : w = <<n, g, i>>
  BY <1>2
<1>4. w[1] = n /\ w[2] = g /\ w[3] = i
  BY <1>3
<1> QED
  BY <1>1, <1>2, <1>3, <1>4 DEF Group

(* What a worker reads of its config does not change. *)
LEMMA OlderSame ==
  ASSUME NEW w, cfgs'[w[1]] = cfgs[w[1]]
  PROVE  Group(w)' = Group(w) /\ Address(w)' = Address(w) /\ HostsOf(w)' = HostsOf(w)
  BY DEF Group, Address, HostsOf

LEMMA BackendSame ==
  ASSUME NEW f, cfgs'[f[1]] = cfgs[f[1]]
  PROVE  HasBackend(f)' = HasBackend(f)
  BY DEF HasBackend

(* The process ends. *)
LEMMA LeaveKeepsWork ==
  ASSUME NEW reason, Leave(reason)
  PROVE  WorkInv' /\ DOMAIN work' = {}
<1>1. DOMAIN work' = {} /\ dead' = {} /\ DOMAIN gauge' = {} /\ Newest' = 0
  BY DEF Leave, Newest
<1>2. WorkTypes'
  BY <1>1 DEF WorkTypes
<1> QED
  BY <1>1, <1>2 DEF WorkInv, StopInv, IdleInv, StateInv

(* A step of the main goroutine that builds nothing. *)
LEMMA SameWork ==
  ASSUME WorkInv, UNCHANGED <<cfgs, work, dead, gauge>>, cancelled \subseteq cancelled'
  PROVE  WorkInv'
<1>1. Newest' = Newest
  BY DEF Newest
<1>2. \A w : HostsOf(w)' = HostsOf(w)
  BY OlderSame
<1>3. \A f : HasBackend(f)' = HasBackend(f)
  BY BackendSame
<1>4. WorkTypes'
  BY <1>1, <1>2, <1>3, Zenon DEF WorkInv, WorkTypes
<1>5. StopInv' /\ IdleInv' /\ StateInv'
  BY Zenon DEF WorkInv, StopInv, IdleInv, StateInv
<1> QED
  BY <1>4, <1>5 DEF WorkInv

(* A build that succeeds: the old configs and workers stay, new workers    *)
(* begin with a probe.                                                     *)
Grown(c) ==
  /\ cfgs \in Seq(Configs) /\ c \in Configs
  /\ cfgs' = Append(cfgs, c) /\ StartChecker(Newest + 1, c)
  /\ UNCHANGED <<dead, gauge, cancelled>>

LEMMA GrownShape ==
  ASSUME WorkTypes, NEW c, Grown(c)
  PROVE  /\ Newest \in Nat /\ Newest' = Newest + 1 /\ cfgs'[Newest + 1] = c
         /\ \A n \in 1..Newest : cfgs'[n] = cfgs[n]
         /\ DOMAIN work' = DOMAIN work \cup WorkersOf(Newest + 1, c)
         /\ \A w \in DOMAIN work : work'[w] = work[w]
         /\ \A w \in DOMAIN work' : w \notin DOMAIN work => work'[w] = Fresh
<1>1. cfgs \in Seq(Configs) /\ c \in Configs /\ cfgs' = Append(cfgs, c)
  BY DEF Grown
<1>2. /\ Newest \in Nat /\ Newest' = Newest + 1 /\ cfgs'[Newest + 1] = c
      /\ \A n \in 1..Newest : cfgs'[n] = cfgs[n]
  BY <1>1 DEF Newest
<1>3. work' = [w \in DOMAIN work \cup WorkersOf(Newest + 1, c) |->
                 IF w \in DOMAIN work THEN work[w] ELSE Fresh]
  BY DEF Grown, StartChecker
<1> QED
  BY <1>2, <1>3

LEMMA GrownKeepsWork ==
  ASSUME WorkInv, NEW c, Grown(c)
  PROVE  WorkInv'
<1>1. /\ Newest \in Nat /\ Newest' = Newest + 1 /\ cfgs'[Newest + 1] = c
      /\ \A n \in 1..Newest : cfgs'[n] = cfgs[n]
      /\ DOMAIN work' = DOMAIN work \cup WorkersOf(Newest + 1, c)
      /\ \A w \in DOMAIN work : work'[w] = work[w]
      /\ \A w \in DOMAIN work' : w \notin DOMAIN work => work'[w] = Fresh
  BY GrownShape DEF WorkInv
<1>2. DOMAIN work' = UNION {WorkersOf(n, cfgs'[n]) : n \in 1..(Newest + 1)}
  <2>1. \A n \in 1..(Newest + 1) : n = Newest + 1 \/ n \in 1..Newest
    BY <1>1
  <2>2. \A n \in 1..Newest : n \in 1..(Newest + 1)
    BY <1>1
  <2>3. Newest + 1 \in 1..(Newest + 1)
    BY <1>1
  <2>4. DOMAIN work = UNION {WorkersOf(n, cfgs[n]) : n \in 1..Newest}
    BY DEF WorkInv, WorkTypes
  <2>5. ASSUME NEW w \in DOMAIN work'
        PROVE  \E n \in 1..(Newest + 1) : w \in WorkersOf(n, cfgs'[n])
    <3>1. CASE w \in WorkersOf(Newest + 1, c)
      BY <1>1, <2>3, <3>1, Zenon
    <3>2. CASE w \in DOMAIN work
      <4>1. PICK n \in 1..Newest : w \in WorkersOf(n, cfgs[n])
        BY <2>4, <3>2
      <4> QED
        BY <1>1, <2>2, <4>1, Zenon
    <3> QED
      BY <1>1, <2>5, <3>1, <3>2
  <2>6. ASSUME NEW n \in 1..(Newest + 1), NEW w \in WorkersOf(n, cfgs'[n])
        PROVE  w \in DOMAIN work'
    <3>1. CASE n = Newest + 1
      <4>1. w \in WorkersOf(Newest + 1, c)
        BY <1>1, <3>1, Zenon
      <4> QED
        BY <1>1, <4>1
    <3>2. CASE n \in 1..Newest
      <4>1. w \in WorkersOf(n, cfgs[n])
        BY <1>1, <3>2, Zenon
      <4>2. w \in DOMAIN work
        BY <2>4, <3>2, <4>1
      <4> QED
        BY <1>1, <4>2
    <3> QED
      BY <2>1, <3>1, <3>2
  <2> QED
    BY <2>5, <2>6
<1>3. ASSUME NEW w \in DOMAIN work'
      PROVE  /\ work'[w].pc \in {"probe", "report", "idle", "done"}
             /\ work'[w].alive \in BOOLEAN /\ work'[w].todo \subseteq HostsOf(w)'
             /\ work'[w].pc = "done" => w[1] \in cancelled'
             /\ work'[w].pc = "idle" => work'[w].todo = {}
             /\ IsState(work'[w])
  <2>1. CASE w \in DOMAIN work
    <3>1. w[1] \in 1..Newest
      BY <2>1, WorkerShape DEF WorkInv
    <3>2. HostsOf(w)' = HostsOf(w)
      BY <1>1, <3>1, OlderSame
    <3> QED
      BY <1>1, <2>1, <3>2, Zenon DEF WorkInv, WorkTypes, StopInv, IdleInv, StateInv, Grown
  <2>2. CASE w \notin DOMAIN work
    <3>1. Fresh.pc = "probe" /\ Fresh.todo = {} /\ Fresh.alive = TRUE
      BY DEF Fresh
    <3>2. work'[w] = Fresh
      BY <1>1, <2>2
    <3>3. work'[w].pc = "probe" /\ work'[w].todo = {} /\ work'[w].alive = TRUE
      BY <3>1, <3>2, Zenon
    <3>4. IsState(Fresh)
      BY DEF IsState, Fresh
    <3> QED
      BY <3>2, <3>3, <3>4, Zenon
  <2> QED
    BY <2>1, <2>2
<1>4. ASSUME NEW f \in dead'
      PROVE  f[1] \in 1..(Newest + 1) /\ HasBackend(f)'
  <2>1. f \in dead /\ f[1] \in 1..Newest /\ HasBackend(f)
    BY DEF Grown, WorkInv, WorkTypes
  <2>2. HasBackend(f)' = HasBackend(f)
    BY <1>1, <2>1, BackendSame
  <2> QED
    BY <1>1, <2>1, <2>2
<1>5. \A p \in DOMAIN gauge' : gauge'[p] \in BOOLEAN
  BY Zenon DEF Grown, WorkInv, WorkTypes
<1>6. WorkTypes'
  BY <1>1, <1>2, <1>3, <1>4, <1>5, Zenon DEF WorkTypes
<1>7. StopInv' /\ IdleInv' /\ StateInv'
  BY <1>3, Zenon DEF StopInv, IdleInv, StateInv
<1> QED
  BY <1>6, <1>7 DEF WorkInv

(* A step of a worker. *)
LEMMA GoOnKeepsWork ==
  ASSUME WorkInv, NEW w \in DOMAIN work, NEW s, GoOn(w, s), UNCHANGED <<cfgs, cancelled>>,
         IsState(s), s.pc \in {"probe", "report", "idle", "done"}, s.alive \in BOOLEAN,
         s.todo \subseteq HostsOf(w),
         s.pc = "done" => w[1] \in cancelled, s.pc = "idle" => s.todo = {},
         \A f \in dead' : f \in dead \/ (f[1] \in 1..Newest /\ HasBackend(f)),
         \A p \in DOMAIN gauge' : gauge'[p] \in BOOLEAN
  PROVE  WorkInv'
<1>1. /\ DOMAIN work' = DOMAIN work /\ work'[w] = s
      /\ \A v \in DOMAIN work : v # w => work'[v] = work[v]
  BY DEF GoOn
<1>2. Newest' = Newest
  BY DEF Newest
<1>3. \A v : HostsOf(v)' = HostsOf(v)
  BY OlderSame
<1>4. \A f : HasBackend(f)' = HasBackend(f)
  BY BackendSame
<1>5. ASSUME NEW v \in DOMAIN work'
      PROVE  /\ work'[v].pc \in {"probe", "report", "idle", "done"}
             /\ work'[v].alive \in BOOLEAN /\ work'[v].todo \subseteq HostsOf(v)'
             /\ work'[v].pc = "done" => v[1] \in cancelled'
             /\ work'[v].pc = "idle" => work'[v].todo = {}
             /\ IsState(work'[v])
  <2>1. CASE v = w
    BY <1>1, <1>3, <2>1, Zenon
  <2>2. CASE v # w
    <3>1. v \in DOMAIN work /\ work'[v] = work[v]
      BY <1>1, <2>2
    <3> QED
      BY <1>3, <3>1, Zenon DEF WorkInv, WorkTypes, StopInv, IdleInv, StateInv
  <2> QED
    BY <2>1, <2>2
<1>6. \A f \in dead' : f[1] \in 1..Newest' /\ HasBackend(f)'
  BY <1>2, <1>4, Zenon DEF WorkInv, WorkTypes
<1>7. DOMAIN work' = UNION {WorkersOf(n, cfgs'[n]) : n \in 1..Newest'}
  BY <1>1, <1>2 DEF WorkInv, WorkTypes
<1>8. WorkTypes'
  BY <1>5, <1>6, <1>7, Zenon DEF WorkTypes
<1>9. StopInv' /\ IdleInv' /\ StateInv'
  BY <1>5, Zenon DEF StopInv, IdleInv, StateInv
<1> QED
  BY <1>8, <1>9 DEF WorkInv

(* What a worker is after each of its steps. *)
LEMMA ProbeState ==
  ASSUME NEW w, Probe(w)
  PROVE  \E s : /\ GoOn(w, s) /\ IsState(s) /\ s.alive \in BOOLEAN /\ s.todo = HostsOf(w)
                /\ s.pc \in {"idle", "report"} /\ (s.pc = "idle" => s.todo = {})
<1>1. PICK a : a = Verdict(Group(w).path, up[Address(w)])
  OBVIOUS
<1>2. a \in BOOLEAN
  BY <1>1, Zenon DEF Verdict
<1>3. PICK p : p = IF HostsOf(w) = {} THEN "idle" ELSE "report"
  OBVIOUS
<1>4. p \in {"idle", "report"} /\ (p = "idle" => HostsOf(w) = {})
  BY <1>3
<1>5. PICK hs : hs = HostsOf(w)
  OBVIOUS
<1>6. PICK s : s = [pc |-> p, todo |-> hs, alive |-> a]
  OBVIOUS
<1>7. GoOn(w, s)
  BY <1>1, <1>3, <1>5, <1>6, Zenon DEF Probe
<1>8. s.pc = p /\ s.todo = hs /\ s.alive = a
  BY <1>6
<1>9. IsState(s)
  BY <1>6, <1>8 DEF IsState
<1> QED
  BY <1>2, <1>4, <1>5, <1>7, <1>8, <1>9, Zenon

LEMMA ReportState ==
  ASSUME NEW w, NEW h, Report(w, h), IsState(work[w])
  PROVE  \E s : /\ GoOn(w, s) /\ IsState(s) /\ s.alive = work[w].alive
                /\ s.todo = work[w].todo \ {h}
                /\ s.pc \in {"idle", "report"} /\ (s.pc = "idle" => s.todo = {})
<1>1. PICK rest : rest = work[w].todo \ {h}
  OBVIOUS
<1>2. PICK p : p = IF rest = {} THEN "idle" ELSE "report"
  OBVIOUS
<1>3. p \in {"idle", "report"} /\ (p = "idle" => rest = {})
  BY <1>2
<1>4. PICK s : s = [work[w] EXCEPT !.pc = p, !.todo = rest]
  OBVIOUS
<1>5. GoOn(w, s)
  BY <1>1, <1>2, <1>4, Zenon DEF Report
<1>6. s = [pc |-> p, alive |-> work[w].alive, todo |-> rest]
  BY <1>4 DEF IsState
<1>7. s.pc = p /\ s.todo = rest /\ s.alive = work[w].alive
  BY <1>6, Zenon
<1>8. IsState(s)
  BY <1>6, <1>7, Zenon DEF IsState
<1> QED
  BY <1>1, <1>3, <1>5, <1>7, <1>8, Zenon

LEMMA WorkerKeepsWork ==
  ASSUME WorkInv, NEW w \in DOMAIN work, WorkerLoop(w) \/ Tick(w) \/ Done(w)
  PROVE  WorkInv'
<1>1. UNCHANGED <<cfgs, cancelled>>
  BY DEF WorkerLoop, Probe, Report, Tick, Done, WorkerFrame, mainVars, reloadVars
<1>2. CASE Probe(w)
  <2>1. PICK s : /\ GoOn(w, s) /\ IsState(s) /\ s.alive \in BOOLEAN /\ s.todo = HostsOf(w)
                 /\ s.pc \in {"idle", "report"} /\ (s.pc = "idle" => s.todo = {})
    BY <1>2, ProbeState
  <2>2. dead' = dead /\ gauge' = gauge
    BY <1>2 DEF Probe
  <2> \A f \in dead' : f \in dead \/ (f[1] \in 1..Newest /\ HasBackend(f))
    BY <2>2
  <2>3. \A p \in DOMAIN gauge' : gauge'[p] \in BOOLEAN
    BY <2>2, Zenon DEF WorkInv, WorkTypes
  <2>4. s.pc \in {"probe", "report", "idle", "done"} /\ s.pc # "done" /\ s.todo \subseteq HostsOf(w)
    BY <2>1
  <2> QED
    BY <1>1, <2>1, <2>2, <2>3, <2>4, GoOnKeepsWork, Zenon
<1>3. ASSUME NEW h \in work[w].todo, Report(w, h) PROVE WorkInv'
  <2>1. IsState(work[w]) /\ work[w].alive \in BOOLEAN /\ work[w].todo \subseteq HostsOf(w)
    BY Zenon DEF WorkInv, StateInv, WorkTypes
  <2>2. PICK s : /\ GoOn(w, s) /\ IsState(s) /\ s.alive = work[w].alive
                 /\ s.todo = work[w].todo \ {h}
                 /\ s.pc \in {"idle", "report"} /\ (s.pc = "idle" => s.todo = {})
    BY <1>3, <2>1, ReportState
  <2>3. PICK a : a = work[w].alive
    OBVIOUS
  <2>4. PICK p : p = <<h, Address(w)>>
    OBVIOUS
  <2>5. gauge' = [z \in DOMAIN gauge \cup {p} |-> IF z = p THEN a ELSE gauge[z]]
    BY <1>3, <2>3, <2>4, Zenon DEF Report, With
  <2>6. \A z \in DOMAIN gauge' : gauge'[z] \in BOOLEAN
    <3>1. \A z \in DOMAIN gauge : gauge[z] \in BOOLEAN
      BY Zenon DEF WorkInv, WorkTypes
    <3>2. a \in BOOLEAN
      BY <2>1, <2>3, Zenon
    <3>3. DOMAIN gauge' = DOMAIN gauge \cup {p}
      BY <2>5, Zenon
    <3>4. \A z \in DOMAIN gauge' : gauge'[z] = IF z = p THEN a ELSE gauge[z]
      BY <2>5, Zenon
    <3>5. ASSUME NEW z \in DOMAIN gauge' PROVE gauge'[z] \in BOOLEAN
      <4>1. CASE z = p
        BY <3>2, <3>4, <4>1, Zenon
      <4>2. CASE z # p
        <5>1. z \in DOMAIN gauge /\ gauge'[z] = gauge[z]
          BY <3>3, <3>4, <4>2, Zenon
        <5> QED
          BY <3>1, <5>1, Zenon
      <4> QED
        BY <4>1, <4>2
    <3> QED
      BY <3>5
  <2>7. \A f \in dead' : f \in dead \/ (f[1] \in 1..Newest /\ HasBackend(f))
    <3>1. PICK fl : fl = FlagOf(w, h)
      OBVIOUS
    <3>2. fl[1] = w[1] /\ w[1] \in 1..Newest
      BY <3>1, WorkerShape DEF FlagOf, WorkInv
    <3>3. dead' = IF work[w].alive \/ ~HasBackend(fl) THEN dead \ {fl} ELSE dead \cup {fl}
      BY <1>3, <3>1, Zenon DEF Report
    <3>4. CASE work[w].alive \/ ~HasBackend(fl)
      <4>1. dead' = dead \ {fl}
        BY <3>3, <3>4, Zenon
      <4> QED
        BY <4>1
    <3>5. CASE ~(work[w].alive \/ ~HasBackend(fl))
      <4>1. dead' = dead \cup {fl} /\ HasBackend(fl)
        BY <3>3, <3>5, Zenon
      <4> QED
        BY <3>2, <4>1, Zenon
    <3> QED
      BY <3>4, <3>5
  <2>8. s.pc \in {"probe", "report", "idle", "done"} /\ s.pc # "done" /\ s.todo \subseteq HostsOf(w)
    BY <2>1, <2>2
  <2>9. s.alive \in BOOLEAN
    BY <2>1, <2>2, Zenon
  <2> QED
    BY <1>1, <2>2, <2>6, <2>7, <2>8, <2>9, GoOnKeepsWork, Zenon
<1>4. ASSUME Tick(w) \/ Done(w) PROVE WorkInv'
  <2>1. Fresh.pc = "probe" /\ Fresh.todo = {} /\ Fresh.alive = TRUE /\ IsState(Fresh)
    BY DEF Fresh, IsState
  <2>2. dead' = dead /\ gauge' = gauge
    BY <1>4 DEF Tick, Done
  <2> \A f \in dead' : f \in dead \/ (f[1] \in 1..Newest /\ HasBackend(f))
    BY <2>2
  <2>3. \A p \in DOMAIN gauge' : gauge'[p] \in BOOLEAN
    BY <2>2, Zenon DEF WorkInv, WorkTypes
  <2>4. CASE Tick(w)
    <3>1. GoOn(w, Fresh)
      BY <2>4 DEF Tick
    <3>2. Fresh.pc \in {"probe", "report", "idle", "done"} /\ Fresh.todo \subseteq HostsOf(w)
          /\ Fresh.pc # "done" /\ Fresh.pc # "idle" /\ Fresh.alive \in BOOLEAN
      BY <2>1
    <3> QED
      BY <1>1, <2>1, <2>2, <2>3, <3>1, <3>2, GoOnKeepsWork, Zenon
  <2>5. CASE Done(w)
    <3>1. PICK s : s = [Fresh EXCEPT !.pc = "done"]
      OBVIOUS
    <3>2. GoOn(w, s) /\ w[1] \in cancelled
      BY <2>5, <3>1, Zenon DEF Done
    <3>3. s = [pc |-> "done", alive |-> TRUE, todo |-> {}]
      BY <3>1 DEF Fresh
    <3>4. /\ s.pc \in {"probe", "report", "idle", "done"} /\ s.todo \subseteq HostsOf(w)
          /\ s.pc # "idle" /\ s.alive \in BOOLEAN /\ IsState(s)
      BY <3>3 DEF IsState
    <3> QED
      BY <1>1, <2>2, <2>3, <3>2, <3>4, GoOnKeepsWork, Zenon
  <2> QED
    BY <1>4, <2>4, <2>5
<1> QED
  BY <1>2, <1>3, <1>4 DEF WorkerLoop

(* What Boot and Load do: the process ends, or a checker is added, or      *)
(* nothing is built.                                                       *)
LEMMA BuildSteps ==
  ASSUME RuntimeInv, NEW f \in Files, Boot(f) \/ Load(f)
  PROVE  \/ \E reason \in {"config error", "panic"} : Leave(reason)
         \/ \E c : Grown(c) /\ UNCHANGED <<exit, sigCh>> /\ current' \in {current, 1} 
                   /\ checker' \in {checker, 1} /\ mainPc' \in {"select", "swap"}
         \/ UNCHANGED <<exit, reloadVars, sigCh, workVars>> /\ mainPc' = "select"
<1>1. CASE Boot(f)
  <2>1. PICK b \in Build(f) : IF b.err = "none" THEN Booted(b.cfg) ELSE Leave(b.err)
    BY <1>1 DEF Boot
  <2>2. b.err \in {"none", "config error", "panic"} /\ b.cfg \in Configs
    BY BuildGivesConfig
  <2>3. CASE b.err # "none"
    BY <2>1, <2>2, <2>3
  <2>4. CASE b.err = "none"
    <3> DEFINE c == b.cfg
    <3>1. Booted(c) /\ c \in Configs
      BY <2>1, <2>2, <2>4
    <3> HIDE DEF c
    <3>2. cfgs = <<>> /\ cfgs \in Seq(Configs)
      BY <1>1 DEF Boot, RuntimeInv, CheckerInv
    <3>3. Newest + 1 = 1 /\ Append(cfgs, c) = <<c>>
      BY <3>2 DEF Newest
    <3>4. Grown(c)
      BY <3>1, <3>2, <3>3 DEF Grown, Booted
    <3>5. /\ UNCHANGED <<exit, sigCh>> /\ current' \in {current, 1} /\ checker' \in {checker, 1}
          /\ mainPc' \in {"select", "swap"}
      BY <3>1 DEF Booted
    <3> QED
      BY <3>4, <3>5
  <2> QED
    BY <2>3, <2>4
<1>2. CASE Load(f)
  <2>1. PICK b \in Build(f) :
          CASE b.err = "none" -> Reloaded(b.cfg)
            [] b.err = "config error" ->
                 mainPc' = "select" /\ UNCHANGED <<exit, reloadVars, started, sigCh, workVars>>
            [] b.err = "panic" -> Leave("panic")
    BY <1>2 DEF Load
  <2>2. b.err \in {"none", "config error", "panic"} /\ b.cfg \in Configs
    BY BuildGivesConfig
  <2>3. CASE b.err = "panic"
    BY <2>1, <2>3
  <2>4. CASE b.err = "config error"
    BY <2>1, <2>4
  <2>5. CASE b.err = "none"
    <3> DEFINE c == b.cfg
    <3>1. Reloaded(c) /\ c \in Configs
      BY <2>1, <2>2, <2>5
    <3> HIDE DEF c
    <3>2. Grown(c)
      BY <3>1 DEF Grown, Reloaded, RuntimeInv, CheckerInv
    <3>3. /\ UNCHANGED <<exit, sigCh>> /\ current' \in {current, 1} /\ checker' \in {checker, 1}
          /\ mainPc' \in {"select", "swap"}
      BY <3>1 DEF Reloaded
    <3> QED
      BY <3>2, <3>3
  <2> QED
    BY <2>2, <2>3, <2>4, <2>5
<1> QED
  BY <1>1, <1>2

(* The other steps of the main goroutine, and of the outside. *)
LEMMA OtherSteps ==
  ASSUME RuntimeInv,
         \/ TakeSignal \/ TakeRequest \/ Swap \/ CancelOld \/ Stop
         \/ Notify("HUP") \/ Notify("TERM") \/ Gone \/ UNCHANGED vars
         \/ \E a \in Addresses : ChangeHealth(a)
  PROVE  UNCHANGED <<cfgs, work, dead, gauge>> /\ cancelled \subseteq cancelled'
<1>1. CASE TakeSignal \/ TakeRequest \/ Swap
  BY <1>1 DEF TakeSignal, TakeRequest, Swap, reloadVars, workVars
<1>2. CASE CancelOld
  BY <1>2 DEF CancelOld, CancelStep, workVars
<1>3. CASE Stop
  <2>1. mainPc = "stop" /\ cancelled' = 1..Newest /\ UNCHANGED <<cfgs, work, dead, gauge>>
    BY <1>3 DEF Stop, workVars
  <2>2. Newest \in Nat /\ cancelled = 1..(Newest - 1)
    BY <2>1 DEF RuntimeInv, CheckerInv, Newest
  <2> QED
    BY <2>1, <2>2
<1>4. CASE Notify("HUP") \/ Notify("TERM") \/ Gone \/ UNCHANGED vars
  BY <1>4 DEF Notify, Gone, vars, mainVars, reloadVars, workVars
<1>5. CASE \E a \in Addresses : ChangeHealth(a)
  BY <1>5 DEF ChangeHealth, mainVars, reloadVars, workVars
<1> QED
  BY <1>1, <1>2, <1>3, <1>4, <1>5

LEMMA NextKeepsWork == RuntimeInv /\ WorkInv /\ [Next]_vars => WorkInv'
<1> SUFFICES ASSUME RuntimeInv, WorkInv, [Next]_vars PROVE WorkInv'
  OBVIOUS
<1>1. ASSUME NEW f \in Files, Boot(f) \/ Load(f) PROVE WorkInv'
  <2>1. \/ \E reason : Leave(reason)
        \/ \E c : Grown(c)
        \/ UNCHANGED <<cfgs, work, dead, gauge, cancelled>>
    BY <1>1, BuildSteps DEF reloadVars, workVars
  <2>2. CASE UNCHANGED <<cfgs, work, dead, gauge, cancelled>>
    BY <2>2, SameWork
  <2> QED
    BY <2>1, <2>2, LeaveKeepsWork, GrownKeepsWork
<1>2. CASE Exit \/ ServeFailed \/ MetricsServeFailed
  <2>1. \E reason : Leave(reason)
    BY <1>2 DEF Exit, ServeFailed, MetricsServeFailed
  <2> QED
    BY <2>1, LeaveKeepsWork
<1>3. ASSUME NEW w \in DOMAIN work, WorkerLoop(w) \/ Tick(w) \/ Done(w) PROVE WorkInv'
  BY <1>3, WorkerKeepsWork
<1>4. ASSUME \/ TakeSignal \/ TakeRequest \/ Swap \/ CancelOld \/ Stop
             \/ Notify("HUP") \/ Notify("TERM") \/ Gone \/ UNCHANGED vars
             \/ \E a \in Addresses : ChangeHealth(a)
      PROVE  WorkInv'
  BY <1>4, OtherSteps, SameWork
<1> QED
  BY <1>1, <1>2, <1>3, <1>4 DEF Next

(* MainTypes in three parts. *)
PlaceTypes ==
  /\ mainPc \in {"boot", "select", "load", "swap", "cancel", "stop", "wait", "exited"}
  /\ exit \in {"none", "config error", "panic", "waited", "second signal", "serve failed",
               "metrics serve failed"}
  /\ up \in [Addresses -> {"down", "tcp", "ok"}]
QueueTypes == sigCh \in Seq({"HUP", "TERM"}) /\ Len(sigCh) <= SigCap
NumberTypes == current \in 0..Newest /\ checker \in 0..Newest /\ cancelled \subseteq 1..Newest

LEMMA MainParts ==
  /\ MainTypes => PlaceTypes /\ QueueTypes /\ NumberTypes
  /\ PlaceTypes' /\ QueueTypes' /\ NumberTypes' => MainTypes'
  BY Zenon DEF MainTypes, PlaceTypes, QueueTypes, NumberTypes

LEMMA BoundsFacts == 0 <= SigCap /\ 0 \in 0..0
<1>1. SigCap \in Nat
  BY RuntimeAssumption
<1> QED
  BY <1>1

LEMMA EmptyQueue == ASSUME NEW S PROVE <<>> \in Seq(S) /\ Len(<<>>) = 0
  OBVIOUS

(* The process ends. *)
LEMMA LeaveKeepsMain ==
  ASSUME NEW reason, Leave(reason), UNCHANGED up, MainTypes,
         reason \in {"config error", "panic", "waited", "second signal", "serve failed",
                     "metrics serve failed"}
  PROVE  MainTypes'
<1>1. /\ mainPc' = "exited" /\ exit' = reason /\ sigCh' = <<>> /\ cfgs' = <<>>
      /\ current' = 0 /\ checker' = 0 /\ cancelled' = {}
  BY DEF Leave
<1>2. Newest' = 0
  BY <1>1, EmptyQueue DEF Newest
<1>3. 0 <= SigCap
  BY BoundsFacts
<1>4. QueueTypes'
  BY <1>1, <1>3, EmptyQueue, Zenon DEF QueueTypes
<1>5. NumberTypes'
  BY <1>1, <1>2, BoundsFacts, Zenon DEF NumberTypes
<1>6. PlaceTypes'
  BY <1>1, MainParts DEF PlaceTypes
<1> QED
  BY <1>4, <1>5, <1>6, MainParts

(* The signal channel. *)
LEMMA QueueKeeps ==
  ASSUME QueueTypes,
         \/ sigCh' = sigCh
         \/ sigCh # <<>> /\ sigCh' = Tail(sigCh)
         \/ Len(sigCh) < SigCap /\ \E sig \in {"HUP", "TERM"} : sigCh' = Append(sigCh, sig)
  PROVE  QueueTypes'
<1>1. SigCap \in Nat
  BY RuntimeAssumption
<1> DEFINE S == {"HUP", "TERM"}
<1>2. sigCh \in Seq(S) /\ Len(sigCh) <= SigCap
  BY DEF QueueTypes
<1>3. \A sig \in {"HUP", "TERM"} : sig \in S
  OBVIOUS
<1> HIDE DEF S
<1>4. sigCh' \in Seq(S) /\ Len(sigCh') <= SigCap
  BY <1>1, <1>2, <1>3
<1> QED
  BY <1>4, Zenon DEF QueueTypes, S

LEMMA NextKeepsMain == RuntimeInv /\ MainTypes /\ [Next]_vars => MainTypes'
<1> SUFFICES ASSUME RuntimeInv, MainTypes, [Next]_vars PROVE MainTypes'
  OBVIOUS
<1>0. Newest \in Nat /\ PlaceTypes /\ QueueTypes /\ NumberTypes
  BY MainParts DEF RuntimeInv, CheckerInv, Newest
<1>1. ASSUME NEW f \in Files, Boot(f) \/ Load(f) PROVE MainTypes'
  <2>1. up' = up
    BY <1>1 DEF Boot, Load
  <2>2. ASSUME NEW c, Grown(c), UNCHANGED <<exit, sigCh>>, current' \in {current, 1},
               checker' \in {checker, 1}, mainPc' \in {"select", "swap"}
        PROVE  MainTypes'
    <3>1. cfgs \in Seq(Configs) /\ c \in Configs /\ cfgs' = Append(cfgs, c)
      BY <2>2 DEF Grown
    <3>2. Newest' = Newest + 1 /\ cancelled' = cancelled
      BY <2>2, <3>1 DEF Grown, Newest
    <3>3. NumberTypes'
      BY <1>0, <2>2, <3>2 DEF NumberTypes
    <3>4. PlaceTypes' /\ QueueTypes'
      BY <1>0, <2>1, <2>2, QueueKeeps DEF PlaceTypes
    <3> QED
      BY <3>3, <3>4, MainParts
  <2>3. ASSUME UNCHANGED <<exit, reloadVars, sigCh, workVars>>, mainPc' = "select"
        PROVE  MainTypes'
    BY <2>1, <2>3 DEF MainTypes, reloadVars, Newest
  <2>4. ASSUME NEW reason \in {"config error", "panic"}, Leave(reason) PROVE MainTypes'
    BY <2>1, <2>4, LeaveKeepsMain
  <2> QED
    BY <1>1, <2>2, <2>3, <2>4, BuildSteps
<1>2. CASE Exit \/ ServeFailed \/ MetricsServeFailed
  <2>1. UNCHANGED up /\ \E reason \in {"waited", "second signal", "serve failed",
                                      "metrics serve failed"} : Leave(reason)
    BY <1>2 DEF Exit, ServeFailed, MetricsServeFailed
  <2> QED
    BY <2>1, LeaveKeepsMain
<1>3. ASSUME NEW w \in DOMAIN work, WorkerLoop(w) \/ Tick(w) \/ Done(w) PROVE MainTypes'
  <2>1. UNCHANGED <<mainVars, sigCh, up>>
    BY <1>3 DEF WorkerLoop, Probe, Report, Tick, Done, WorkerFrame
  <2> QED
    BY <2>1 DEF MainTypes, mainVars, reloadVars, Newest
<1>4. CASE TakeSignal \/ TakeRequest
  <2>1. /\ mainPc' \in {"load", "stop"} /\ UNCHANGED <<exit, cfgs, current, checker, cancelled, up>>
        /\ sigCh' = sigCh \/ (sigCh # <<>> /\ sigCh' = Tail(sigCh))
    BY <1>4 DEF TakeSignal, TakeRequest, reloadVars
  <2>2. QueueTypes' /\ PlaceTypes' /\ NumberTypes'
    BY <1>0, <2>1, QueueKeeps DEF PlaceTypes, NumberTypes, Newest
  <2> QED
    BY <2>2, MainParts
<1>5. CASE Swap \/ Stop
  <2>1. /\ mainPc' \in {"cancel", "wait"} /\ UNCHANGED <<exit, cfgs, sigCh, up>>
        /\ Newest' = Newest
        /\ \/ current' = Newest /\ UNCHANGED <<checker, cancelled>>
           \/ current' = current /\ cancelled' = 1..Newest /\ checker' = 0
    BY <1>5 DEF Swap, Stop, Newest
  <2>2. QueueTypes' /\ PlaceTypes'
    BY <1>0, <2>1, QueueKeeps DEF PlaceTypes
  <2>3. Newest \in 0..Newest /\ 0 \in 0..Newest
    BY <1>0
  <2>4. NumberTypes'
    BY <1>0, <2>1, <2>3, Zenon DEF NumberTypes
  <2> QED
    BY <2>2, <2>4, MainParts
<1>6. CASE CancelOld
  <2>1. /\ mainPc = "cancel" /\ mainPc' = "select" /\ cancelled' = cancelled \cup {checker}
        /\ checker' = Newest /\ UNCHANGED <<exit, cfgs, current, sigCh, up>>
    BY <1>6 DEF CancelOld, CancelStep
  <2>2. Newest' = Newest /\ checker = Newest - 1 /\ Newest >= 2
    BY <2>1 DEF RuntimeInv, CheckerInv, Newest
  <2>3. QueueTypes' /\ PlaceTypes'
    BY <1>0, <2>1, QueueKeeps DEF PlaceTypes
  <2>4. NumberTypes'
    BY <1>0, <2>1, <2>2 DEF NumberTypes
  <2> QED
    BY <2>3, <2>4, MainParts
<1>7. ASSUME NEW sig \in {"HUP", "TERM"}, Notify(sig) PROVE MainTypes'
  <2>1. /\ sigCh' = IF Len(sigCh) < SigCap THEN Append(sigCh, sig) ELSE sigCh
        /\ UNCHANGED <<mainPc, exit, cfgs, current, checker, cancelled, up>>
    BY <1>7 DEF Notify, mainVars, reloadVars
  <2>2. QueueTypes'
    BY <1>0, <2>1, QueueKeeps
  <2>3. PlaceTypes' /\ NumberTypes'
    BY <1>0, <2>1 DEF PlaceTypes, NumberTypes, Newest
  <2> QED
    BY <2>2, <2>3, MainParts
<1>8. ASSUME NEW a \in Addresses, ChangeHealth(a) PROVE MainTypes'
  <2>1. /\ UNCHANGED <<mainPc, exit, sigCh, cfgs, current, checker, cancelled>>
        /\ \E u \in {"down", "tcp", "ok"} : up' = [up EXCEPT ![a] = u]
    BY <1>8 DEF ChangeHealth, mainVars, reloadVars
  <2>2. up' \in [Addresses -> {"down", "tcp", "ok"}]
    BY <2>1 DEF MainTypes
  <2> QED
    BY <2>1, <2>2 DEF MainTypes, Newest
<1>9. CASE Gone \/ UNCHANGED vars
  BY <1>9 DEF Gone, vars, mainVars, reloadVars, MainTypes, Newest
<1> QED
  BY <1>1, <1>2, <1>3, <1>4, <1>5, <1>6, <1>7, <1>8, <1>9 DEF Next

LEMMA InitWork == Init => WorkInv /\ MainTypes
<1> SUFFICES ASSUME Init PROVE WorkInv /\ MainTypes
  OBVIOUS
<1>1. /\ DOMAIN work = {} /\ dead = {} /\ DOMAIN gauge = {} /\ Newest = 0
      /\ sigCh \in Seq({"HUP", "TERM"}) /\ Len(sigCh) <= SigCap
  BY RuntimeAssumption DEF Init, Newest
<1>2. WorkTypes
  BY <1>1 DEF WorkTypes
<1>3. MainTypes
  BY <1>1 DEF Init, MainTypes
<1> QED
  BY <1>1, <1>2, <1>3 DEF WorkInv, StopInv, IdleInv, StateInv

(* The three invariants together. *)
LEMMA RuntimeInvariants == Spec => [](RuntimeInv /\ MainTypes /\ WorkInv)
  BY InitRuntimeInv, NextKeepsInv, InitWork, NextKeepsWork, NextKeepsMain, PTL DEF Spec

(* The state of run and of the health checkers is well typed: the workers  *)
(* are those of the configs built so far, they report to hosts of their    *)
(* group only, only flags that exist are stored (SetBackendAlive refuses   *)
(* the rest), and the signal channel never holds more than it can.         *)
THEOREM RuntimeTypeCorrect == Spec => []TypeOK
<1>1. RuntimeInv /\ MainTypes /\ WorkInv => TypeOK
  BY DEF TypeOK, WorkInv
<1> QED
  BY <1>1, RuntimeInvariants, PTL

-----------------------------------------------------------------------------
(* Whatever serves is probed. *)

LEMMA CurrentIsServed ==
  ASSUME RuntimeInv, Looping
  PROVE  current \in 1..Newest /\ current \notin cancelled /\ cfgs[current] \in Configs
<1>1. cfgs \in Seq(Configs) /\ Newest \in Nat
  BY DEF RuntimeInv, CheckerInv, Newest
<1>2. current \in 1..Newest /\ current \notin cancelled
  BY <1>1 DEF Looping, RuntimeInv, CheckerInv
<1> QED
  BY <1>1, <1>2 DEF Newest

LEMMA InvIsServedIsProbed ==
  ASSUME LookupsAgree
  PROVE  RuntimeInv /\ WorkInv => ServedIsProbed
<1> SUFFICES ASSUME RuntimeInv, WorkInv, Looping,
                    NEW h \in DOMAIN cfgs[current].routes, NEW i \in DOMAIN cfgs[current].routes[h]
             PROVE  \E w \in DOMAIN work :
                      /\ w[1] = current /\ work[w].pc # "done"
                      /\ Address(w) = cfgs[current].routes[h][i] /\ h \in HostsOf(w)
  BY CurrentIsServed DEF ServedIsProbed
<1>1. current \in 1..Newest /\ current \notin cancelled /\ cfgs[current] \in Configs
  BY CurrentIsServed
<1> DEFINE c == cfgs[current]
<1>2. Probed(c)
  BY <1>1, ConfigsAreProbed
<1>3. PICK g \in DOMAIN c.groups :
        c.groups[g].name = c.group[h] /\ c.groups[g].addresses = c.routes[h]
  BY <1>2 DEF Probed
<1>4. PICK w : w = <<current, g, i>>
  OBVIOUS
<1>5. w[1] = current /\ w[2] = g /\ w[3] = i
  BY <1>4
<1>6. w \in DOMAIN work
  <2>1. w \in WorkersOf(current, c)
    BY <1>3, <1>4 DEF WorkersOf
  <2>2. w \in UNION {WorkersOf(n, cfgs[n]) : n \in 1..Newest}
    BY <1>1, <2>1
  <2> QED
    BY <2>2 DEF WorkInv, WorkTypes
<1>7. work[w].pc # "done"
  BY <1>1, <1>5, <1>6 DEF WorkInv, StopInv
<1>8. Address(w) = c.routes[h][i]
  BY <1>3, <1>5 DEF Address, Group
<1>9. h \in HostsOf(w)
  BY <1>2, <1>3, <1>5 DEF HostsOf, Group, Probed
<1> QED
  BY <1>5, <1>6, <1>7, <1>8, <1>9

(* If no backend is a name with several addresses, then at every moment of *)
(* any number of reloads each backend that Pick may return has a worker of *)
(* the serving router's checker, which is not stopped and reports to the   *)
(* host it is picked for.                                                  *)
THEOREM ServedBackendsAreProbed ==
  ASSUME LookupsAgree
  PROVE  Spec => []ServedIsProbed
<1>1. RuntimeInv /\ MainTypes /\ WorkInv => ServedIsProbed
  BY InvIsServedIsProbed
<1> QED
  BY <1>1, RuntimeInvariants, PTL

-----------------------------------------------------------------------------
(* Flags. *)

(* What a worker has reported is in the flags of the hosts it has passed. *)
Told(w) ==
  work[w].pc \in {"report", "idle"} =>
    \A h \in HostsOf(w) \ work[w].todo : FlagOf(w, h) \in dead <=> ~work[w].alive
VerdictInv == \A w \in DOMAIN work : Told(w)

(* The config of a worker's checker. *)
LEMMA WorkerConfig ==
  ASSUME RuntimeInv, WorkInv, NEW w \in DOMAIN work
  PROVE  cfgs[w[1]] \in Configs
<1>1. w[1] \in 1..Newest
  BY WorkerShape DEF WorkInv
<1>2. cfgs \in Seq(Configs)
  BY DEF RuntimeInv, CheckerInv
<1> QED
  BY <1>1, <1>2 DEF Newest

(* No two workers store the same flag. *)
LEMMA FlagsDistinct ==
  ASSUME NamesDiffer, AddressesDiffer, RuntimeInv, WorkInv,
         NEW w \in DOMAIN work, NEW v \in DOMAIN work,
         NEW h \in HostsOf(w), NEW k \in HostsOf(v), FlagOf(w, h) = FlagOf(v, k)
  PROVE  w = v /\ h = k
<1>1. w[1] = v[1] /\ h = k /\ Address(w) = Address(v)
  BY DEF FlagOf
<1>2. PICK c : c = cfgs[w[1]]
  OBVIOUS
<1>3. Separate(c)
  BY <1>2, WorkerConfig, ConfigsAreSeparate
<1>4. /\ w[2] \in DOMAIN c.groups /\ w[3] \in DOMAIN Group(w).addresses /\ w = <<w[1], w[2], w[3]>>
      /\ v[2] \in DOMAIN c.groups /\ v[3] \in DOMAIN Group(v).addresses /\ v = <<v[1], v[2], v[3]>>
  BY <1>1, <1>2, WorkerShape DEF WorkInv
<1>5. Group(w) = c.groups[w[2]] /\ Group(v) = c.groups[v[2]]
  BY <1>1, <1>2 DEF Group
<1>6. c.group[h] = Group(w).name /\ c.group[h] = Group(v).name
  BY <1>1, <1>2 DEF HostsOf
<1>7. w[2] = v[2]
  <2>1. c.groups[w[2]].name = c.groups[v[2]].name
    BY <1>5, <1>6, Zenon
  <2> QED
    BY <1>3, <1>4, <2>1, Zenon DEF Separate
<1>8. w[3] = v[3]
  BY <1>1, <1>3, <1>4, <1>5, <1>7 DEF Separate, Address
<1> QED
  BY <1>1, <1>4, <1>7, <1>8, Zenon

(* SetBackendAlive finds every backend that a worker reports. *)
LEMMA FlagsExist ==
  ASSUME LookupsAgree, NamesDiffer, AddressesDiffer, RuntimeInv, WorkInv,
         NEW w \in DOMAIN work, NEW h \in HostsOf(w)
  PROVE  HasBackend(FlagOf(w, h))
<1>1. PICK c : c = cfgs[w[1]]
  OBVIOUS
<1>2. Separate(c) /\ Probed(c)
  BY <1>1, WorkerConfig, ConfigsAreSeparate, ConfigsAreProbed
<1>3. w[2] \in DOMAIN c.groups /\ w[3] \in DOMAIN Group(w).addresses /\ Group(w) = c.groups[w[2]]
  BY <1>1, WorkerShape DEF WorkInv, Group
<1>4. h \in DOMAIN c.group /\ c.group[h] = Group(w).name /\ h \in DOMAIN c.routes
  BY <1>1, <1>2 DEF HostsOf, Separate
<1>5. PICK g \in DOMAIN c.groups :
        c.groups[g].name = c.group[h] /\ c.groups[g].addresses = c.routes[h]
  BY <1>2, <1>4 DEF Probed
<1>6. g = w[2]
  BY <1>2, <1>3, <1>4, <1>5 DEF Separate
<1>7. w[3] \in DOMAIN c.routes[h] /\ c.routes[h][w[3]] = Address(w)
  BY <1>3, <1>5, <1>6 DEF Address
<1>8. PICK f : f = FlagOf(w, h)
  OBVIOUS
<1>9. f[1] = w[1] /\ f[2] = h /\ f[3] = Address(w)
  BY <1>8 DEF FlagOf
<1>10. HasBackend(f)
  BY <1>1, <1>4, <1>7, <1>9 DEF HasBackend
<1> QED
  BY <1>8, <1>10, Zenon

(* A worker whose state, config and flags are unchanged. *)
LEMMA ToldSame ==
  ASSUME NEW w, Told(w), cfgs'[w[1]] = cfgs[w[1]], work'[w] = work[w],
         \A h \in HostsOf(w) : FlagOf(w, h) \in dead' <=> FlagOf(w, h) \in dead
  PROVE  Told(w)'
<1>1. Address(w)' = Address(w) /\ HostsOf(w)' = HostsOf(w)
  BY OlderSame
<1>2. \A h : FlagOf(w, h)' = FlagOf(w, h)
  BY <1>1 DEF FlagOf
<1> QED
  BY <1>1, <1>2, Zenon DEF Told

(* A worker that has nothing to have told. *)
LEMMA ToldNothing ==
  ASSUME NEW w, work'[w].pc \notin {"report", "idle"} \/ HostsOf(w)' \subseteq work'[w].todo
  PROVE  Told(w)'
  BY DEF Told

LEMMA GrownKeepsVerdicts ==
  ASSUME WorkInv, VerdictInv, NEW c, Grown(c)
  PROVE  VerdictInv'
<1>1. /\ \A n \in 1..Newest : cfgs'[n] = cfgs[n]
      /\ \A w \in DOMAIN work : work'[w] = work[w]
      /\ \A w \in DOMAIN work' : w \notin DOMAIN work => work'[w] = Fresh
  BY GrownShape DEF WorkInv
<1>2. ASSUME NEW w \in DOMAIN work' PROVE Told(w)'
  <2>1. CASE w \in DOMAIN work
    <3>1. w[1] \in 1..Newest
      BY <2>1, WorkerShape DEF WorkInv
    <3>2. dead' = dead /\ Told(w)
      BY <2>1, Zenon DEF Grown, VerdictInv
    <3>3. cfgs'[w[1]] = cfgs[w[1]] /\ work'[w] = work[w]
      BY <1>1, <2>1, <3>1
    <3>4. \A h \in HostsOf(w) : FlagOf(w, h) \in dead' <=> FlagOf(w, h) \in dead
      BY <3>2, Zenon
    <3> QED
      BY <3>2, <3>3, <3>4, ToldSame
  <2>2. CASE w \notin DOMAIN work
    <3>1. work'[w].pc = "probe"
      BY <1>1, <2>2 DEF Fresh
    <3> QED
      BY <3>1, ToldNothing
  <2> QED
    BY <2>1, <2>2
<1> QED
  BY <1>2, Zenon DEF VerdictInv

LEMMA ReportKeepsVerdicts ==
  ASSUME LookupsAgree, NamesDiffer, AddressesDiffer, RuntimeInv, WorkInv, VerdictInv,
         NEW w \in DOMAIN work, NEW h \in work[w].todo, Report(w, h)
  PROVE  VerdictInv'
<1>1. IsState(work[w]) /\ work[w].todo \subseteq HostsOf(w)
  BY Zenon DEF WorkInv, StateInv, WorkTypes
<1>2. PICK s : /\ GoOn(w, s) /\ s.alive = work[w].alive /\ s.todo = work[w].todo \ {h}
  BY <1>1, ReportState
<1>3. /\ DOMAIN work' = DOMAIN work /\ work'[w] = s
      /\ \A v \in DOMAIN work : v # w => work'[v] = work[v]
  BY <1>2 DEF GoOn
<1>4. PICK f : f = FlagOf(w, h)
  OBVIOUS
<1>5. HasBackend(f) /\ h \in HostsOf(w)
  BY <1>1, <1>4, FlagsExist
<1>6. dead' = IF work[w].alive THEN dead \ {f} ELSE dead \cup {f}
  BY <1>4, <1>5, Zenon DEF Report
<1>7. \A x : x # f => (x \in dead' <=> x \in dead)
  <2>1. CASE work[w].alive
    <3>1. dead' = dead \ {f}
      BY <1>6, <2>1, Zenon
    <3> QED
      BY <3>1
  <2>2. CASE ~work[w].alive
    <3>1. dead' = dead \cup {f}
      BY <1>6, <2>2, Zenon
    <3> QED
      BY <3>1
  <2> QED
    BY <2>1, <2>2
<1>8. f \in dead' <=> ~work[w].alive
  <2>1. CASE work[w].alive
    BY <1>6, <2>1, Zenon
  <2>2. CASE ~work[w].alive
    BY <1>6, <2>2, Zenon
  <2> QED
    BY <2>1, <2>2
<1>9. cfgs' = cfgs
  BY DEF Report, WorkerFrame, mainVars, reloadVars
<1>10. ASSUME NEW v \in DOMAIN work' PROVE Told(v)'
  <2>1. v \in DOMAIN work /\ Told(v)
    BY <1>3, Zenon DEF VerdictInv
  <2>2. CASE v # w
    <3>1. \A k \in HostsOf(v) : FlagOf(v, k) # f
      BY <1>4, <1>5, <2>1, <2>2, FlagsDistinct
    <3>2. \A k \in HostsOf(v) : FlagOf(v, k) \in dead' <=> FlagOf(v, k) \in dead
      BY <1>7, <3>1, Zenon
    <3>3. work'[v] = work[v] /\ cfgs'[v[1]] = cfgs[v[1]]
      BY <1>3, <1>9, <2>1, <2>2
    <3> QED
      BY <2>1, <3>2, <3>3, ToldSame
  <2>3. CASE v = w
    <3>1. HostsOf(w)' = HostsOf(w) /\ Address(w)' = Address(w)
      BY <1>9, OlderSame
    <3>2. \A k : FlagOf(w, k)' = FlagOf(w, k)
      BY <3>1 DEF FlagOf
    <3>3. work[w].pc = "report"
      BY DEF Report
    <3>4. \A k \in HostsOf(w) \ work[w].todo : FlagOf(w, k) \in dead <=> ~work[w].alive
      BY <2>1, <2>3, <3>3 DEF Told
    <3>5. ASSUME NEW k \in HostsOf(w), k \notin s.todo
          PROVE  FlagOf(w, k) \in dead' <=> ~work[w].alive
      <4>1. CASE k = h
        BY <1>4, <1>8, <4>1, Zenon
      <4>2. CASE k # h
        <5>1. FlagOf(w, k) # f
          BY <1>4, <4>2 DEF FlagOf
        <5>2. k \in HostsOf(w) \ work[w].todo
          BY <1>2, <3>5, <4>2
        <5>3. FlagOf(w, k) \in dead <=> ~work[w].alive
          BY <3>4, <5>2, Zenon
        <5>4. FlagOf(w, k) \in dead' <=> FlagOf(w, k) \in dead
          BY <1>7, <5>1, Zenon
        <5> QED
          BY <5>3, <5>4, Zenon
      <4> QED
        BY <4>1, <4>2
    <3>6. work'[w].alive = work[w].alive /\ work'[w].todo = s.todo
      BY <1>2, <1>3, Zenon
    <3>7. ASSUME NEW k \in HostsOf(w)' \ work'[w].todo
          PROVE  FlagOf(w, k)' \in dead' <=> ~work'[w].alive
      <4>1. k \in HostsOf(w) /\ k \notin s.todo
        BY <3>1, <3>6
      <4>2. FlagOf(w, k) \in dead' <=> ~work[w].alive
        BY <3>5, <4>1
      <4> QED
        BY <3>2, <3>6, <4>2, Zenon
    <3>8. Told(w)'
      BY <3>7, Zenon DEF Told
    <3> QED
      BY <2>3, <3>8, Zenon
  <2> QED
    BY <2>2, <2>3
<1> QED
  BY <1>10, Zenon DEF VerdictInv

(* The steps of a worker that store no flag. *)
LEMMA QuietKeepsVerdicts ==
  ASSUME WorkInv, VerdictInv, NEW w \in DOMAIN work, Probe(w) \/ Tick(w) \/ Done(w)
  PROVE  VerdictInv'
<1>1. UNCHANGED <<cfgs, dead>>
  BY DEF Probe, Tick, Done, WorkerFrame, mainVars, reloadVars
<1>2. HostsOf(w)' = HostsOf(w)
  BY <1>1, OlderSame
<1>3. PICK s : GoOn(w, s) /\ (s.pc \notin {"report", "idle"} \/ s.todo = HostsOf(w))
  <2>1. CASE Probe(w)
    BY <2>1, ProbeState
  <2>2. CASE Tick(w)
    <3>1. GoOn(w, Fresh) /\ Fresh.pc = "probe"
      BY <2>2 DEF Tick, Fresh
    <3> QED
      BY <3>1
  <2>3. CASE Done(w)
    <3>1. PICK s : s = [Fresh EXCEPT !.pc = "done"]
      OBVIOUS
    <3>2. GoOn(w, s) /\ s.pc = "done"
      BY <2>3, <3>1 DEF Done, Fresh
    <3> QED
      BY <3>2
  <2> QED
    BY <2>1, <2>2, <2>3
<1>4. /\ DOMAIN work' = DOMAIN work /\ work'[w] = s
      /\ \A v \in DOMAIN work : v # w => work'[v] = work[v]
  BY <1>3 DEF GoOn
<1>5. ASSUME NEW v \in DOMAIN work' PROVE Told(v)'
  <2>1. CASE v = w
    <3>1. work'[w].pc \notin {"report", "idle"} \/ HostsOf(w)' \subseteq work'[w].todo
      BY <1>2, <1>3, <1>4
    <3> QED
      BY <2>1, <3>1, ToldNothing
  <2>2. CASE v # w
    <3>1. Told(v) /\ cfgs'[v[1]] = cfgs[v[1]] /\ work'[v] = work[v]
      BY <1>1, <1>4, <2>2, Zenon DEF VerdictInv
    <3>2. \A h \in HostsOf(v) : FlagOf(v, h) \in dead' <=> FlagOf(v, h) \in dead
      BY <1>1, Zenon
    <3> QED
      BY <3>1, <3>2, ToldSame
  <2> QED
    BY <2>1, <2>2
<1> QED
  BY <1>5, Zenon DEF VerdictInv

LEMMA NextKeepsVerdicts ==
  ASSUME LookupsAgree, NamesDiffer, AddressesDiffer
  PROVE  RuntimeInv /\ WorkInv /\ VerdictInv /\ [Next]_vars => VerdictInv'
<1> SUFFICES ASSUME RuntimeInv, WorkInv, VerdictInv, [Next]_vars PROVE VerdictInv'
  OBVIOUS
<1>1. ASSUME UNCHANGED <<cfgs, work, dead>> PROVE VerdictInv'
  <2>1. ASSUME NEW w \in DOMAIN work' PROVE Told(w)'
    <3>1. Told(w) /\ cfgs'[w[1]] = cfgs[w[1]] /\ work'[w] = work[w]
      BY <1>1, Zenon DEF VerdictInv
    <3>2. \A h \in HostsOf(w) : FlagOf(w, h) \in dead' <=> FlagOf(w, h) \in dead
      BY <1>1, Zenon
    <3> QED
      BY <3>1, <3>2, ToldSame
  <2> QED
    BY <2>1, Zenon DEF VerdictInv
<1>2. ASSUME NEW reason, Leave(reason) PROVE VerdictInv'
  BY <1>2, LeaveKeepsWork DEF VerdictInv
<1>3. ASSUME NEW f \in Files, Boot(f) \/ Load(f) PROVE VerdictInv'
  <2>1. \/ \E reason : Leave(reason)
        \/ \E c : Grown(c)
        \/ UNCHANGED <<cfgs, work, dead>>
    BY <1>3, BuildSteps DEF reloadVars, workVars
  <2> QED
    BY <1>1, <1>2, <2>1, GrownKeepsVerdicts
<1>4. CASE Exit \/ ServeFailed \/ MetricsServeFailed
  <2>1. \E reason : Leave(reason)
    BY <1>4 DEF Exit, ServeFailed, MetricsServeFailed
  <2> QED
    BY <1>2, <2>1
<1>5. ASSUME NEW w \in DOMAIN work, WorkerLoop(w) \/ Tick(w) \/ Done(w) PROVE VerdictInv'
  <2>1. ASSUME NEW h \in work[w].todo, Report(w, h) PROVE VerdictInv'
    BY <2>1, ReportKeepsVerdicts
  <2>2. CASE Probe(w) \/ Tick(w) \/ Done(w)
    BY <2>2, QuietKeepsVerdicts
  <2> QED
    BY <1>5, <2>1, <2>2 DEF WorkerLoop
<1>6. ASSUME \/ TakeSignal \/ TakeRequest \/ Swap \/ CancelOld \/ Stop
             \/ Notify("HUP") \/ Notify("TERM") \/ Gone \/ UNCHANGED vars
             \/ \E a \in Addresses : ChangeHealth(a)
      PROVE  VerdictInv'
  BY <1>1, <1>6, OtherSteps
<1> QED
  BY <1>3, <1>4, <1>5, <1>6 DEF Next

(* If no backend is a name with several addresses, names of groups differ  *)
(* by more than blanks and no group lists an address twice, then across    *)
(* any number of reloads the flag that Pick reads of a backend is the last *)
(* verdict of its own router's checker, however late the probes of others  *)
(* come in.                                                                *)
THEOREM FlagsAreLastVerdicts ==
  ASSUME LookupsAgree, NamesDiffer, AddressesDiffer
  PROVE  Spec => []FlagIsLastVerdict
<1>1. Init => VerdictInv
  BY InitWork DEF Init, VerdictInv
<1>2. RuntimeInv /\ WorkInv /\ VerdictInv /\ [Next]_vars => VerdictInv'
  BY NextKeepsVerdicts
<1>3. WorkInv /\ VerdictInv => FlagIsLastVerdict
  <2> SUFFICES ASSUME WorkInv, VerdictInv, NEW w \in DOMAIN work, work[w].pc = "idle",
                      NEW h \in HostsOf(w)
               PROVE  <<w[1], h, Address(w)>> \in dead <=> ~work[w].alive
    BY Zenon DEF FlagIsLastVerdict
  <2>1. work[w].todo = {} /\ Told(w)
    BY Zenon DEF WorkInv, IdleInv, VerdictInv
  <2>2. h \in HostsOf(w) \ work[w].todo /\ work[w].pc \in {"report", "idle"}
    BY <2>1
  <2>3. FlagOf(w, h) \in dead <=> ~work[w].alive
    BY <2>1, <2>2, Zenon DEF Told
  <2> QED
    BY <2>3, Zenon DEF FlagOf
<1> QED
  BY <1>1, <1>2, <1>3, RuntimeInvariants, PTL DEF Spec
=============================================================================
