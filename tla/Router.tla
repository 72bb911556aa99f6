------------------------------- MODULE Router -------------------------------
(***************************************************************************)
(* internal/router/pool.go: one Router value, shared without a lock by the *)
(* session goroutines (which call HostForBackendAddr and Pick) and by the  *)
(* health workers (which call SetBackendAlive).  The two maps of a Router  *)
(* never change after New; all that is shared and mutable is one ticket    *)
(* counter per pool and one alive flag per backend, each accessed with     *)
(* atomic instructions, so the unit of interleaving is one such access.    *)
(***************************************************************************)
EXTENDS Integers, Sequences, FiniteSets

CONSTANTS
  Addrs,    \* backend addresses "ip:port" a client may ask for
  Names,    \* normalised host names a client may ask for
  Routes,   \* the argument of New: host key -> sequence of addresses
  Pickers,  \* goroutines that look up and pick backends
  Wrap      \* modulus of the ticket counter (2^64 in the code)

Hosts == DOMAIN Routes
Size(h) == Len(Routes[h])

(***************************************************************************)
(* New refuses an empty map, an empty key and a route without backends, so *)
(* a Router only exists for routes like these.  Wrap is a multiple of      *)
(* every pool size: exact for pools of 2^k backends; for the other sizes   *)
(* it stands for the counter before it first overflows, where only its     *)
(* value modulo the pool size matters.                                     *)
(***************************************************************************)
ASSUME RoutesAssumption ==
  /\ Hosts # {} /\ Hosts \subseteq Names
  /\ \A h \in Hosts : Routes[h] \in Seq(Addrs) /\ Size(h) > 0

ASSUME WrapAssumption ==
  /\ Wrap \in Nat \ {0}
  /\ \A h \in Hosts : \E k \in 1..Wrap : Wrap = k * Size(h)

ASSUME ErrorsAreNotAddresses ==
  Addrs \cap {"none", "route not found", "no alive backends"} = {}

VARIABLES
  backendToHost,  \* address -> host key, fixed by New
  alive,          \* alive[h][i]: flag of backend i of h's pool
  rr,             \* rr[h]: ticket counter of h's pool
  pc,             \* "idle", or "scan" inside the loop of Pick
  host,           \* argument of the Pick in progress (or of the last one)
  start,          \* its ticket
  off,            \* its loop variable i
  res,            \* what the last call returned
  asked,          \* history: the address an IPv4 request named, or "none"
  seenDead,       \* history: backends this Pick has loaded as dead
  reported        \* history: last health result for each host and address

(***************************************************************************)
(* A definition whose comment says "faulty" is not part of the             *)
(* specification: it is a bug this code could have had in the definition   *)
(* that follows it, kept to show that a property notices it.               *)
(***************************************************************************)
pickVars == <<pc, host, start, off, res, asked, seenDead>>
vars == <<backendToHost, alive, rr, pickVars, reported>>

Idx(h) == 1..Size(h)
AddrsOf(h) == {Routes[h][i] : i \in Idx(h)}

(***************************************************************************)
(* New ranges over a Go map, in an unspecified order, and lets the first   *)
(* host that lists an address own it: the owners an order of the hosts     *)
(* leads to, for every order.                                              *)
(***************************************************************************)
Orders == {r \in [Hosts -> 1..Cardinality(Hosts)] :
             \A g, h \in Hosts : r[g] = r[h] => g = h}

OwnersOfFirstAddresses ==   \* faulty: only the first address of a group
  {f \in [{Routes[h][1] : h \in Hosts} -> Hosts] :
     \A a \in DOMAIN f : a = Routes[f[a]][1]}
Owners ==
  {f \in [UNION {AddrsOf(h) : h \in Hosts} -> Hosts] :
     \E rank \in Orders : \A a \in DOMAIN f :
       /\ a \in AddrsOf(f[a])
       /\ \A g \in Hosts : a \in AddrsOf(g) => rank[f[a]] <= rank[g]}

Init ==
  /\ backendToHost \in Owners
  /\ alive = [h \in Hosts |-> [i \in Idx(h) |-> TRUE]]
  /\ rr = [h \in Hosts |-> 0]
  /\ pc = [p \in Pickers |-> "idle"]
  /\ host = [p \in Pickers |-> CHOOSE h \in Hosts : TRUE]
  /\ start = [p \in Pickers |-> 0]
  /\ off = [p \in Pickers |-> 0]
  /\ res = [p \in Pickers |-> "none"]
  /\ asked = [p \in Pickers |-> "none"]
  /\ seenDead = [p \in Pickers |-> {}]
  /\ reported = [h \in Hosts |-> [a \in AddrsOf(h) |-> TRUE]]

-----------------------------------------------------------------------------
(* Pick returns at once when the host has no pool. *)
Refuse(p) ==
  /\ res' = [res EXCEPT ![p] = "route not found"]
  /\ seenDead' = [seenDead EXCEPT ![p] = {}]
  /\ UNCHANGED <<backendToHost, alive, rr, pc, host, start, off, reported>>

DrawTicketWithoutAdd(p, h) ==   \* faulty: the counter is read, not advanced
  /\ start' = [start EXCEPT ![p] = rr[h]]
  /\ host' = [host EXCEPT ![p] = h]
  /\ off' = [off EXCEPT ![p] = 0]
  /\ pc' = [pc EXCEPT ![p] = "scan"]
  /\ res' = [res EXCEPT ![p] = "none"]
  /\ seenDead' = [seenDead EXCEPT ![p] = {}]
  /\ UNCHANGED <<backendToHost, alive, rr, reported>>

(* atomic.AddUint64(&p.rr, 1) - 1: draw a ticket and enter the loop. *)
DrawTicket(p, h) ==
  /\ rr' = [rr EXCEPT ![h] = (@ + 1) % Wrap]
  /\ start' = [start EXCEPT ![p] = rr[h]]
  /\ host' = [host EXCEPT ![p] = h]
  /\ off' = [off EXCEPT ![p] = 0]
  /\ pc' = [pc EXCEPT ![p] = "scan"]
  /\ res' = [res EXCEPT ![p] = "none"]
  /\ seenDead' = [seenDead EXCEPT ![p] = {}]
  /\ UNCHANGED <<backendToHost, alive, reported>>

PickStart(p, name) ==
  /\ pc[p] = "idle"
  /\ asked' = [asked EXCEPT ![p] = "none"]
  /\ \/ name \in Hosts /\ DrawTicket(p, name)
     \/ name \notin Hosts /\ Refuse(p)

(* An IPv4 request: HostForBackendAddr, then Pick of the host it returns.  *)
PickByAddr(p, a) ==
  /\ pc[p] = "idle"
  /\ asked' = [asked EXCEPT ![p] = a]
  /\ \/ a \in DOMAIN backendToHost /\ DrawTicket(p, backendToHost[a])
     \/ a \notin DOMAIN backendToHost /\ Refuse(p)

(* The backend the loop of Pick looks at in iteration i. *)
ProbeIndexWithoutOffset(h, ticket, i) == ((ticket % Wrap) % Size(h)) + 1  \* faulty
ProbeIndex(h, ticket, i) == (((ticket + i) % Wrap) % Size(h)) + 1

PickLoadOneTooMany(p) ==   \* faulty: i <= n
  LET h   == host[p]
      idx == ProbeIndex(h, start[p], off[p])
  IN /\ pc[p] = "scan"
     /\ \/ /\ alive[h][idx]
           /\ res' = [res EXCEPT ![p] = Routes[h][idx]]
           /\ pc' = [pc EXCEPT ![p] = "idle"]
           /\ off' = [off EXCEPT ![p] = 0]
           /\ start' = [start EXCEPT ![p] = 0]
           /\ seenDead' = [seenDead EXCEPT ![p] = {}]
        \/ /\ ~alive[h][idx]
           /\ off[p] < Size(h)
           /\ off' = [off EXCEPT ![p] = @ + 1]
           /\ seenDead' = [seenDead EXCEPT ![p] = @ \cup {idx}]
           /\ UNCHANGED <<pc, start, res>>
        \/ /\ ~alive[h][idx]
           /\ off[p] >= Size(h)
           /\ res' = [res EXCEPT ![p] = "no alive backends"]
           /\ pc' = [pc EXCEPT ![p] = "idle"]
           /\ off' = [off EXCEPT ![p] = 0]
           /\ start' = [start EXCEPT ![p] = 0]
           /\ seenDead' = [seenDead EXCEPT ![p] = @ \cup {idx}]
     /\ UNCHANGED <<backendToHost, alive, rr, host, asked, reported>>

(* One iteration: atomic.LoadUint32(&b.alive).  A Pick that returns drops   *)
(* its locals; what it has seen is remembered when it failed.              *)
PickLoad(p) ==
  LET h   == host[p]
      idx == ProbeIndex(h, start[p], off[p])
  IN /\ pc[p] = "scan"
     /\ \/ /\ alive[h][idx]
           /\ res' = [res EXCEPT ![p] = Routes[h][idx]]
           /\ pc' = [pc EXCEPT ![p] = "idle"]
           /\ off' = [off EXCEPT ![p] = 0]
           /\ start' = [start EXCEPT ![p] = 0]
           /\ seenDead' = [seenDead EXCEPT ![p] = {}]
        \/ /\ ~alive[h][idx]
           /\ off[p] + 1 < Size(h)
           /\ off' = [off EXCEPT ![p] = @ + 1]
           /\ seenDead' = [seenDead EXCEPT ![p] = @ \cup {idx}]
           /\ UNCHANGED <<pc, start, res>>
        \/ /\ ~alive[h][idx]
           /\ off[p] + 1 >= Size(h)
           /\ res' = [res EXCEPT ![p] = "no alive backends"]
           /\ pc' = [pc EXCEPT ![p] = "idle"]
           /\ off' = [off EXCEPT ![p] = 0]
           /\ start' = [start EXCEPT ![p] = 0]
           /\ seenDead' = [seenDead EXCEPT ![p] = @ \cup {idx}]
     /\ UNCHANGED <<backendToHost, alive, rr, host, asked, reported>>

(* The loop of SetBackendAlive stops at the first backend with the address. *)
FirstWith(h, a) ==
  CHOOSE i \in Idx(h) : /\ Routes[h][i] = a
                        /\ \A j \in 1..(i - 1) : Routes[h][j] # a

SetBackendAliveOfOwner(h, a, v) ==   \* faulty: stores into the owner's pool
  /\ alive' = [alive EXCEPT ![backendToHost[a]][FirstWith(backendToHost[a], a)] = v]
  /\ reported' = [reported EXCEPT ![h][a] = v]
  /\ UNCHANGED <<backendToHost, rr, pickVars>>

(***************************************************************************)
(* A health worker reports v for address a of host h.  Calls that name an  *)
(* unknown host or address return an error and change nothing.             *)
(***************************************************************************)
SetBackendAlive(h, a, v) ==
  /\ alive' = [alive EXCEPT ![h][FirstWith(h, a)] = v]
  /\ reported' = [reported EXCEPT ![h][a] = v]
  /\ UNCHANGED <<backendToHost, rr, pickVars>>

Next ==
  \/ \E p \in Pickers, n \in Names : PickStart(p, n)
  \/ \E p \in Pickers, a \in Addrs : PickByAddr(p, a)
  \/ \E p \in Pickers : PickLoad(p)
  \/ \E h \in Hosts, v \in BOOLEAN :
       \E a \in AddrsOf(h) : SetBackendAlive(h, a, v)

(* Pick never blocks, so a goroutine inside its loop is always scheduled.  *)
Fairness == \A p \in Pickers : WF_vars(PickLoad(p))

Spec == Init /\ [][Next]_vars /\ Fairness
-----------------------------------------------------------------------------
(* What a call may have returned: nothing yet, an error, or an address. *)
Results == Addrs \cup {"none", "route not found", "no alive backends"}

TypeOK ==
  /\ backendToHost \in [UNION {AddrsOf(h) : h \in Hosts} -> Hosts]
  /\ \A h \in Hosts : alive[h] \in [Idx(h) -> BOOLEAN]
  /\ DOMAIN alive = Hosts
  /\ rr \in [Hosts -> 0..(Wrap - 1)]
  /\ pc \in [Pickers -> {"idle", "scan"}]
  /\ host \in [Pickers -> Hosts]
  /\ start \in [Pickers -> 0..(Wrap - 1)]
  /\ off \in [Pickers -> Nat] /\ \A p \in Pickers : off[p] < Size(host[p])
  /\ res \in [Pickers -> Results]
  /\ asked \in [Pickers -> Addrs \cup {"none"}]
  /\ \A p \in Pickers : seenDead[p] \subseteq Idx(host[p])
  /\ DOMAIN seenDead = Pickers
  /\ \A h \in Hosts : reported[h] \in [AddrsOf(h) -> BOOLEAN]
  /\ DOMAIN reported = Hosts

(***************************************************************************)
(* Pick says "no alive backends" only after it has itself loaded every     *)
(* backend of the pool as dead: wherever the ticket makes the loop begin,  *)
(* the loop skips no backend and stops after the last one.                 *)
(***************************************************************************)
NoAliveIsExhaustive ==
  \A p \in Pickers :
    res[p] = "no alive backends" => seenDead[p] = Idx(host[p])

(***************************************************************************)
(* A client that names a backend by its address (IPv4 request) is served   *)
(* from a route that contains that address, never refused as unknown while *)
(* a route lists it, and gets a backend of that same route; this for every *)
(* order in which New may range over the routes.                           *)
(***************************************************************************)
AddressStaysInItsRoute ==
  \A p \in Pickers :
    asked[p] # "none" =>
      /\ res[p] = "route not found" => \A h \in Hosts : asked[p] \notin AddrsOf(h)
      /\ res[p] \in Addrs => {asked[p], res[p]} \subseteq AddrsOf(host[p])

(* The pool of h lists an address in one place only. *)
ListedOnce(h, a) == \A i, j \in Idx(h) : Routes[h][i] = a /\ Routes[h][j] = a => i = j

(***************************************************************************)
(* Health results decide the rotation: once a health worker has reported   *)
(* an address of a route dead, that route cannot hand it out until it is   *)
(* reported alive again, whoever else lists the address.  Nothing in       *)
(* config.go or New rejects a group that lists an address twice; of such   *)
(* an address SetBackendAlive reaches the first entry only, and the other  *)
(* ones stay in the rotation.                                              *)
(***************************************************************************)
DeadLeavesRotation ==
  \A h \in Hosts : \A a \in AddrsOf(h) :
    ListedOnce(h, a) /\ ~reported[h][a] => \A i \in Idx(h) : Routes[h][i] = a => ~alive[h][i]

(* A Pick of host h begins, or returns backend i of h's pool. *)
PickBegins(h) ==
  \E p \in Pickers : pc[p] = "idle" /\ pc'[p] = "scan" /\ host'[p] = h
PickReturns(h, i) ==
  \E p \in Pickers :
    /\ pc[p] = "scan" /\ host[p] = h /\ i = ProbeIndex(h, start[p], off[p])
    /\ res'[p] = Routes[h][i]

(***************************************************************************)
(* Round robin starves nobody: a backend that stays alive is picked again  *)
(* and again as long as its host is requested again and again, whatever    *)
(* the health of the others and however the picking goroutines interleave. *)
(***************************************************************************)
NoStarvation ==
  \A h \in Hosts : \A i \in Idx(h) :
    (<>[](alive[h][i]) /\ []<><<PickBegins(h)>>_vars)
       => []<><<PickReturns(h, i)>>_vars
=============================================================================
