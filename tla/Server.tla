------------------------------- MODULE Server -------------------------------
(***************************************************************************)
(* internal/socks: the accept loop of Server.Serve, one goroutine per      *)
(* client (serveClient, handleConnection, relay), the semaphores that      *)
(* limit sessions and dials, the router pointer that a reload swaps, and   *)
(* the shutdown of cmd/zerosock/main.go that closes the listener and waits *)
(* for the sessions.  Goroutines interleave at every access to something   *)
(* they share.  A Router is seen through what module Router promises of    *)
(* New, HostForBackendAddr and Pick; the discoverer through its result.    *)
(***************************************************************************)
EXTENDS Integers, Sequences, FiniteSets

CONSTANTS
  Conns,        \* client connections
  Requests,     \* what clients ask for: [atyp, dest]
  Addrs,        \* backend addresses
  Configs,      \* tables a Router may be built from: [routes, owner]
  MaxConns,     \* server.max_connections
  MaxDials,     \* server.max_inflight_dials
  Discovers,    \* TRUE iff the server has a HostDiscoverer
  MaxReloads    \* bound: number of calls of UpdateRouter

NoAddr == "no address"
None == "none"
NoRequest == [atyp |-> "none", dest |-> None]

(* A table as New leaves it: every address has an owner that lists it. *)
ASSUME ConfigsAssumption ==
  /\ Configs # {} /\ NoAddr \notin Addrs
  /\ \A t \in Configs :
       /\ \A h \in DOMAIN t.routes : t.routes[h] # {} /\ t.routes[h] \subseteq Addrs
       /\ DOMAIN t.owner = UNION {t.routes[h] : h \in DOMAIN t.routes}
       /\ \A a \in DOMAIN t.owner :
            t.owner[a] \in DOMAIN t.routes /\ a \in t.routes[t.owner[a]]

(* A limit of 0 means no semaphore at all; a process sees finitely many    *)
(* clients.                                                                *)
ASSUME LimitsAssumption ==
  /\ IsFiniteSet(Conns)
  /\ MaxConns \in Nat /\ MaxDials \in Nat /\ MaxReloads \in Nat /\ Discovers \in BOOLEAN

ASSUME RequestsAssumption == \A r \in Requests : r.atyp \in {"ipv4", "fqdn"}

Half == {"client_to_backend", "backend_to_client"}
NotStarted == [d \in Half |-> "copy"]

(* How io.Copy of one direction may end: EOF, a reset or broken pipe, or   *)
(* the deadline that handleConnection set on both sockets.                 *)
CopyResults == {"eof", "reset", "timeout"}

(* Where a connection is; the stages of one list follow each other. *)
Arriving == {"new", "backlog", "accepted", "admitted"}
Session  == {"negotiate", "lookup", "acquire", "pick", "connect", "discover",
             "reply", "relay"}
Teardown == {"release", "dec", "wgdone"}
Stages   == Arriving \cup Session \cup Teardown \cup {"closed", "refused"}

HoldsSlot == {"admitted", "release"} \cup Session
HoldsDial == {"pick", "connect"}
InWaitGroup == Session \cup Teardown
InGauge == {"admitted", "release", "dec"} \cup Session

VARIABLES
  (* the process *)
  mainPc,     \* "run", "closing", "waiting" (for tunnels) or "exited"
  exit,       \* why it exited
  zeroSeen,   \* the goroutine of Wait saw the WaitGroup at zero
  listener,   \* "none", "bound" (not yet stored in s.listener), "open", "closed"
  servePc,    \* the accept loop: "listen", "accept", "busy", "done", "failed"
  tables,     \* the tables of the routers so far; the last is current
  (* shared counters *)
  slots, dials, wg, gauge, tcp, ended,
  (* one value per connection *)
  pc, req, attempt, route, target, halves,
  (* history *)
  accGen,     \* generation of the router when the session began
  pickGen,    \* generation its backend was picked from
  late        \* sessions that began after Shutdown had been called

procVars == <<mainPc, exit, zeroSeen>>
acceptVars == <<listener, servePc>>
counters == <<slots, dials, wg, gauge, tcp, ended>>
connVars == <<req, attempt, route, target, halves>>
history == <<accGen, pickGen, late>>
vars == <<procVars, acceptVars, tables, counters, pc, connVars, history>>

(***************************************************************************)
(* A definition whose comment says "faulty" is not part of the             *)
(* specification: it is a bug this code could have had in the definition   *)
(* that follows it, kept to show that a property notices it.               *)
(***************************************************************************)
Gen == Len(tables)
FirstRouter == tables[1]   \* faulty: a reload is not seen by the dialer
Current == tables[Gen]
Running == mainPc # "exited"
In(stages) == {c \in Conns : pc[c] \in stages}
GoTo(c, stage) == pc' = [pc EXCEPT ![c] = stage]
Count(state) == tcp' = [tcp EXCEPT ![state] = @ + 1]

Init ==
  /\ mainPc = "run" /\ exit = None /\ zeroSeen = FALSE
  /\ listener = "none" /\ servePc = "listen"
  /\ \E t \in Configs : tables = <<t>>
  /\ slots = 0 /\ dials = 0 /\ wg = 0 /\ gauge = 0 /\ ended = 0
  /\ tcp = [state \in {"syn", "established", "fin", "rst"} |-> 0]
  /\ pc = [c \in Conns |-> "new"]
  /\ req = [c \in Conns |-> NoRequest]
  /\ attempt = [c \in Conns |-> 0]
  /\ route = [c \in Conns |-> None]
  /\ target = [c \in Conns |-> NoAddr]
  /\ halves = [c \in Conns |-> NotStarted]
  /\ accGen = [c \in Conns |-> 0]
  /\ pickGen = [c \in Conns |-> 0]
  /\ late = {}
-----------------------------------------------------------------------------
(* The accept loop. *)

(* A client connects: the kernel queues the connection, or refuses it. *)
Connect(c) ==
  /\ pc[c] = "new"
  /\ GoTo(c, IF Running /\ listener \in {"bound", "open"} THEN "backlog" ELSE "refused")
  /\ UNCHANGED <<procVars, acceptVars, tables, counters, connVars, history>>

(* lc.Listen; an error ends Serve. *)
Listen ==
  /\ servePc = "listen" /\ listener = "none" /\ Running
  /\ \/ listener' = "bound" /\ UNCHANGED servePc
     \/ servePc' = "failed" /\ UNCHANGED listener
  /\ UNCHANGED <<procVars, tables, counters, pc, connVars, history>>

(* s.mu.Lock(); s.listener = ln *)
StoreListener ==
  /\ servePc = "listen" /\ listener = "bound" /\ Running
  /\ listener' = "open" /\ servePc' = "accept"
  /\ UNCHANGED <<procVars, tables, counters, pc, connVars, history>>

Accept(c) ==
  /\ servePc = "accept" /\ listener = "open" /\ pc[c] = "backlog" /\ Running
  /\ servePc' = "busy" /\ GoTo(c, "accepted")
  /\ UNCHANGED <<procVars, listener, tables, counters, connVars, history>>

(* Accept returns an error: net.ErrClosed after Shutdown, or any other,    *)
(* such as running out of file descriptors, at any time.                   *)
AcceptFails ==
  /\ servePc = "accept" /\ Running
  /\ servePc' = IF listener = "closed" THEN "done" ELSE "failed"
  /\ UNCHANGED <<procVars, listener, tables, counters, pc, connVars, history>>

SlotFreeOneTooMany == MaxConns = 0 \/ slots <= MaxConns     \* faulty
SlotFreeOneTooFew == MaxConns = 0 \/ slots + 1 < MaxConns    \* faulty
SlotFree == MaxConns = 0 \/ slots < MaxConns

(* Over the limit: close the client and go on accepting. *)
TurnAwayAndStop(c) == GoTo(c, "refused") /\ servePc' = "done"   \* faulty
TurnAway(c) == GoTo(c, "refused") /\ servePc' = "accept"

(* The select on connLimitSem, and the counters of an admitted client. *)
Admit(c) ==
  /\ servePc = "busy" /\ pc[c] = "accepted" /\ Running
  /\ \/ /\ SlotFree
        /\ slots' = slots + 1
        /\ gauge' = gauge + 1
        /\ Count("syn")
        /\ GoTo(c, "admitted")
        /\ UNCHANGED servePc
     \/ /\ ~SlotFree
        /\ TurnAway(c)
        /\ UNCHANGED <<slots, gauge, tcp>>
  /\ UNCHANGED <<procVars, listener, tables, dials, wg, ended, connVars, history>>

(* s.wg.Add(1); go s.serveClient(client) *)
StartSession(c) ==
  /\ servePc = "busy" /\ pc[c] = "admitted" /\ Running
  /\ wg' = wg + 1
  /\ GoTo(c, "negotiate")
  /\ servePc' = "accept"
  /\ accGen' = [accGen EXCEPT ![c] = Gen]
  /\ late' = IF mainPc = "waiting" THEN late \cup {c} ELSE late
  /\ UNCHANGED <<procVars, listener, tables, slots, dials, gauge, tcp, ended,
                 connVars, pickGen>>
-----------------------------------------------------------------------------
(* The session goroutine: handleConnection. *)

(* What the steps of a session leave alone. *)
SessionFrame == UNCHANGED <<procVars, acceptVars, tables, slots, wg, gauge, late>>

(* handleConnection returns: one error counter or the session histogram is *)
(* incremented, the backend connection (if any) is closed by its defer,    *)
(* the locals are gone, and the deferred calls of serveClient begin.       *)
Return(c) ==
  /\ GoTo(c, "release")
  /\ ended' = ended + 1
  /\ req' = [req EXCEPT ![c] = NoRequest]
  /\ attempt' = [attempt EXCEPT ![c] = 0]
  /\ route' = [route EXCEPT ![c] = None]
  /\ target' = [target EXCEPT ![c] = NoAddr]
  /\ halves' = [halves EXCEPT ![c] = NotStarted]
  /\ accGen' = [accGen EXCEPT ![c] = 0]
  /\ pickGen' = [pickGen EXCEPT ![c] = 0]

(* It goes on with the next stage. *)
Continue(c, stage) == GoTo(c, stage) /\ UNCHANGED <<ended, halves, accGen>>

(* handleHandshake and readRequest, both under the read deadline: either   *)
(* fails, or the request is known.                                         *)
Negotiate(c) ==
  /\ pc[c] = "negotiate" /\ Running
  /\ \/ Return(c)
     \/ /\ \E r \in Requests : req' = [req EXCEPT ![c] = r]
        /\ Continue(c, "lookup") /\ UNCHANGED <<attempt, route, target, pickGen>>
  /\ UNCHANGED <<dials, tcp>> /\ SessionFrame

(* An unknown destination is offered to the discoverer once. *)
NotFoundAgain(c) ==   \* faulty: without the test of attempt
  \/ /\ Discovers
     /\ Continue(c, "discover") /\ UNCHANGED <<req, attempt, route, target, pickGen>>
  \/ ~Discovers /\ Return(c)
NotFound(c) ==
  \/ /\ Discovers /\ attempt[c] = 0
     /\ Continue(c, "discover") /\ UNCHANGED <<req, attempt, route, target, pickGen>>
  \/ /\ ~Discovers \/ attempt[c] # 0
     /\ Return(c)

(* The head of the routing loop: an address is mapped to the route that    *)
(* owns it in the current router; a name is its own route key.             *)
Lookup(c) ==
  LET r == req[c]
  IN /\ pc[c] = "lookup" /\ Running
     /\ \/ /\ r.atyp = "fqdn"
           /\ route' = [route EXCEPT ![c] = r.dest]
           /\ Continue(c, "acquire") /\ UNCHANGED <<req, attempt, target, pickGen>>
        \/ /\ r.atyp = "ipv4" /\ r.dest \in DOMAIN Current.owner
           /\ route' = [route EXCEPT ![c] = Current.owner[r.dest]]
           /\ Continue(c, "acquire") /\ UNCHANGED <<req, attempt, target, pickGen>>
        \/ /\ r.atyp = "ipv4" /\ r.dest \notin DOMAIN Current.owner
           /\ NotFound(c)
     /\ UNCHANGED <<dials, tcp>> /\ SessionFrame

DialFreeOneTooMany == MaxDials = 0 \/ dials <= MaxDials   \* faulty
DialFree == MaxDials = 0 \/ dials < MaxDials

(* DialRoute takes an in-flight slot or gives up. *)
Acquire(c) ==
  /\ pc[c] = "acquire" /\ Running
  /\ \/ /\ DialFree
        /\ dials' = dials + 1
        /\ Continue(c, "pick") /\ UNCHANGED <<req, attempt, route, target, pickGen>>
     \/ /\ ~DialFree
        /\ Return(c) /\ UNCHANGED dials
  /\ UNCHANGED tcp /\ SessionFrame

(* The deferred receive from inflightSem when DialRoute returns. *)
NoRelease == dials' = dials   \* faulty
ReleaseDial == dials' = dials - 1

(* currentRouter, then Pick.  A route with backends yields one of them or  *)
(* "no alive backends", with which DialRoute returns.                      *)
Pick(c) ==
  LET routes == Current.routes
  IN /\ pc[c] = "pick" /\ Running
     /\ \/ /\ route[c] \in DOMAIN routes
           /\ \E a \in routes[route[c]] : target' = [target EXCEPT ![c] = a]
           /\ pickGen' = [pickGen EXCEPT ![c] = Gen]
           /\ Continue(c, "connect") /\ UNCHANGED <<dials, req, attempt, route>>
        \/ /\ route[c] \in DOMAIN routes
           /\ Return(c) /\ ReleaseDial
        \/ /\ route[c] \notin DOMAIN routes
           /\ NotFound(c) /\ ReleaseDial
     /\ UNCHANGED tcp /\ SessionFrame

(* dialer.Dial ends, at the latest with its timeout. *)
Dial(c) ==
  /\ pc[c] = "connect" /\ Running
  /\ ReleaseDial
  /\ \/ Continue(c, "reply") /\ UNCHANGED <<req, attempt, route, target, pickGen>>
     \/ Return(c)
  /\ UNCHANGED tcp /\ SessionFrame

(***************************************************************************)
(* Discover returns: a route was added and the main loop has reloaded (by  *)
(* UpdateRouter, while this session waited), or nothing was added.         *)
(***************************************************************************)
Discover(c) ==
  /\ pc[c] = "discover" /\ Running
  /\ \/ /\ attempt' = [attempt EXCEPT ![c] = @ + 1]
        /\ Continue(c, "lookup") /\ UNCHANGED <<req, route, target, pickGen>>
     \/ Return(c)
  /\ UNCHANGED <<dials, tcp>> /\ SessionFrame

ReplyCountedFirst(c) ==   \* faulty: "established" before the reply is written
  /\ pc[c] = "reply" /\ Running
  /\ Count("established")
  /\ \/ Continue(c, "relay") /\ UNCHANGED <<req, attempt, route, target, pickGen>>
     \/ Return(c)
  /\ UNCHANGED dials /\ SessionFrame

(* writeSuccessReply under the write deadline, then the relay starts. *)
Reply(c) ==
  /\ pc[c] = "reply" /\ Running
  /\ \/ /\ Continue(c, "relay") /\ Count("established")
        /\ UNCHANGED <<req, attempt, route, target, pickGen>>
     \/ Return(c) /\ UNCHANGED tcp
  /\ UNCHANGED dials /\ SessionFrame

(* copyHalf: one direction ends, is half-closed and sends its result. *)
CopyHalf(c, d, result) ==
  /\ pc[c] = "relay" /\ halves[c][d] = "copy" /\ Running
  /\ halves' = [halves EXCEPT ![c][d] = result]
  /\ UNCHANGED <<pc, dials, tcp, ended, req, attempt, route, target, accGen, pickGen>>
  /\ SessionFrame

(* classifyCloseType: only a reset counts as "rst". *)
CloseType(c) == IF \E d \in Half : halves[c][d] = "reset" THEN "rst" ELSE "fin"

(* relay has both results; handleConnection counts them and returns. *)
RelayEnds(c) ==
  /\ pc[c] = "relay" /\ (\A d \in Half : halves[c][d] # "copy") /\ Running
  /\ Count(CloseType(c))
  /\ Return(c)
  /\ UNCHANGED dials /\ SessionFrame
-----------------------------------------------------------------------------
(* The deferred calls of serveClient, last in first out. *)
TeardownFrame == UNCHANGED <<procVars, acceptVars, tables, dials, tcp, ended,
                             connVars, history>>

ReleaseSlot(c) ==
  /\ pc[c] = "release" /\ Running
  /\ slots' = slots - 1 /\ GoTo(c, "dec")
  /\ UNCHANGED <<wg, gauge>> /\ TeardownFrame

(* DecConnectionActive, then client.Close. *)
DecAndClose(c) ==
  /\ pc[c] = "dec" /\ Running
  /\ gauge' = gauge - 1 /\ GoTo(c, "wgdone")
  /\ UNCHANGED <<slots, wg>> /\ TeardownFrame

WgDone(c) ==
  /\ pc[c] = "wgdone" /\ Running
  /\ wg' = wg - 1 /\ GoTo(c, "closed")
  /\ UNCHANGED <<slots, gauge>> /\ TeardownFrame
-----------------------------------------------------------------------------
(* The main goroutine. *)
MainFrame == UNCHANGED <<tables, counters, connVars, history>>

(* A reload installs a router built from another table. *)
UpdateRouter(t) ==
  /\ mainPc = "run" /\ Gen <= MaxReloads
  /\ tables' = Append(tables, t)
  /\ UNCHANGED <<procVars, acceptVars, counters, pc, connVars, history>>

(* Serve returned an error: run closes the listener and returns. *)
ServeFailed ==
  /\ mainPc = "run" /\ servePc = "failed"
  /\ mainPc' = "exited" /\ exit' = "serve failed"
  /\ UNCHANGED <<zeroSeen, acceptVars, pc>> /\ MainFrame

(* SIGINT or SIGTERM leaves the loop. *)
Signal ==
  /\ mainPc = "run"
  /\ mainPc' = "closing"
  /\ UNCHANGED <<exit, zeroSeen, acceptVars, pc>> /\ MainFrame

(* Shutdown closes the listener, if Serve has already stored one, and the  *)
(* kernel resets what was queued; then Wait begins.                        *)
Shutdown ==
  /\ mainPc = "closing"
  /\ mainPc' = "waiting"
  /\ \/ /\ listener = "open"
        /\ listener' = "closed"
        /\ pc' = [c \in Conns |-> IF pc[c] = "backlog" THEN "refused" ELSE pc[c]]
     \/ listener # "open" /\ UNCHANGED <<listener, pc>>
  /\ UNCHANGED <<exit, zeroSeen, servePc>> /\ MainFrame

WaitReturnsAtOne ==   \* faulty: does not wait for the last session
  /\ mainPc = "waiting" /\ wg <= 1 /\ ~zeroSeen
  /\ zeroSeen' = TRUE
  /\ UNCHANGED <<mainPc, exit, acceptVars, pc>> /\ MainFrame

(* s.wg.Wait() returns and done is closed. *)
WaitReturns ==
  /\ mainPc = "waiting" /\ wg = 0 /\ ~zeroSeen
  /\ zeroSeen' = TRUE
  /\ UNCHANGED <<mainPc, exit, acceptVars, pc>> /\ MainFrame

(* main takes the result of Wait, its timeout, or a second signal. *)
Exit ==
  /\ mainPc = "waiting"
  /\ mainPc' = "exited"
  /\ \/ zeroSeen /\ exit' = "all active tunnels finished"
     \/ exit' \in {"grace period elapsed", "second signal"}
  /\ UNCHANGED <<zeroSeen, acceptVars, pc>> /\ MainFrame

(* The process is gone. *)
Gone == mainPc = "exited" /\ UNCHANGED vars

SessionStep(c) ==
  \/ Negotiate(c) \/ Lookup(c) \/ Acquire(c) \/ Pick(c) \/ Dial(c)
  \/ Reply(c) \/ RelayEnds(c)
  \/ \E d \in Half, result \in CopyResults : CopyHalf(c, d, result)
  \/ ReleaseSlot(c) \/ DecAndClose(c) \/ WgDone(c)

ServeStep ==
  \/ Listen \/ StoreListener \/ AcceptFails
  \/ \E c \in Conns : Accept(c) \/ Admit(c) \/ StartSession(c)

MainStep ==
  \/ \E t \in Configs : UpdateRouter(t)
  \/ ServeFailed \/ Signal \/ Shutdown \/ WaitReturns \/ Exit

Next ==
  \/ ServeStep \/ MainStep \/ Gone
  \/ \E c \in Conns : Connect(c) \/ SessionStep(c) \/ Discover(c)

(***************************************************************************)
(* A session never waits without a deadline: reads of the negotiation, the *)
(* dial, the reply and the relay all have one, semaphores are tried and    *)
(* not awaited.  The exception is Discover, which waits for the main loop  *)
(* to answer a reload request, so it is fair only while that loop runs.    *)
(* The accept loop, and the main goroutine once told to stop, never block  *)
(* for ever either; a signal may never come and a healthy Accept may never *)
(* fail.                                                                   *)
(***************************************************************************)
AcceptLoop ==
  \/ Listen \/ StoreListener \/ (listener = "closed" /\ AcceptFails)
  \/ \E c \in Conns : Accept(c) \/ Admit(c) \/ StartSession(c)

Fairness ==
  /\ \A c \in Conns : /\ WF_vars(SessionStep(c))
                      /\ WF_vars(mainPc = "run" /\ Discover(c))
  /\ WF_vars(AcceptLoop)
  /\ WF_vars(ServeFailed \/ Shutdown \/ WaitReturns \/ Exit)

Spec == Init /\ [][Next]_vars /\ Fairness
-----------------------------------------------------------------------------
ControlTypes ==
  /\ mainPc \in {"run", "closing", "waiting", "exited"}
  /\ exit \in {None, "serve failed", "all active tunnels finished",
               "grace period elapsed", "second signal"}
  /\ zeroSeen \in BOOLEAN
  /\ listener \in {"none", "bound", "open", "closed"}
  /\ servePc \in {"listen", "accept", "busy", "done", "failed"}
  /\ tables \in Seq(Configs) /\ Gen > 0
CounterTypes ==
  /\ slots \in Nat /\ dials \in Nat /\ wg \in Nat /\ gauge \in Nat /\ ended \in Nat
  /\ tcp \in [{"syn", "established", "fin", "rst"} -> Nat]
SessionTypes ==
  /\ pc \in [Conns -> Stages]
  /\ req \in [Conns -> Requests \cup {NoRequest}]
  /\ attempt \in [Conns -> {0, 1}]
  /\ DOMAIN route = Conns
  /\ target \in [Conns -> Addrs \cup {NoAddr}]
  /\ halves \in [Conns -> [Half -> CopyResults \cup {"copy"}]]
  /\ accGen \in [Conns -> Nat] /\ pickGen \in [Conns -> Nat]
  /\ late \subseteq Conns
TypeOK == ControlTypes /\ CounterTypes /\ SessionTypes

(***************************************************************************)
(* Every counter agrees with what the sessions really hold, at every step  *)
(* of every interleaving and on every error path: the connection           *)
(* semaphore, the in-flight semaphore, the WaitGroup and the gauge of      *)
(* active connections.  Nothing leaks, nothing is returned twice.          *)
(***************************************************************************)
Accounting ==
  /\ slots = Cardinality(In(HoldsSlot))
  /\ dials = Cardinality(In(HoldsDial))
  /\ wg = Cardinality(In(InWaitGroup))
  /\ gauge = Cardinality(In(InGauge))

(* What the two limits promise: no more sessions are handled at a time     *)
(* than max_connections, no more dials than max_inflight_dials.            *)
WithinLimits ==
  /\ MaxConns # 0 => Cardinality(In(Session)) <= MaxConns
  /\ MaxDials # 0 => Cardinality(In({"connect"})) <= MaxDials

(***************************************************************************)
(* Deny all, allow listed, across reloads: a session dials or relays to an *)
(* address only if the route it was given lists it, in a table that was    *)
(* installed no earlier than the one current when the session began.       *)
(***************************************************************************)
Whitelisted ==
  \A c \in Conns : target[c] # NoAddr =>
    /\ pickGen[c] \in accGen[c]..Gen
    /\ route[c] \in DOMAIN tables[pickGen[c]].routes
    /\ target[c] \in tables[pickGen[c]].routes[route[c]]

(***************************************************************************)
(* The counters of the TCP life cycle balance: every relay that started is *)
(* running or was counted once as closed, and every session that left      *)
(* handleConnection was counted once as an error or a success.             *)
(***************************************************************************)
MetricsBalance ==
  /\ tcp["established"] = tcp["fin"] + tcp["rst"] + Cardinality(In({"relay"}))
  /\ tcp["syn"] = ended + Cardinality(In({"admitted"} \cup Session))

(***************************************************************************)
(* The drain of a shutdown: when the process reports that all tunnels      *)
(* finished, every session that had begun before Shutdown is over; and if  *)
(* Shutdown found the listener, at most one session began after it, the    *)
(* one whose connection the accept loop had in hand.                       *)
(***************************************************************************)
DrainIsComplete ==
  /\ exit = "all active tunnels finished" => In(InWaitGroup) \subseteq late
  /\ listener = "closed" => Cardinality(late) <= 1

(***************************************************************************)
(* What main.go logs, "all active tunnels finished", taken at its word.    *)
(***************************************************************************)
DrainedMeansNoTunnels ==
  exit = "all active tunnels finished" => In(Session) = {}

(***************************************************************************)
(* Nobody is left hanging: a client that got into the accept queue is      *)
(* eventually turned away or served to the end, or the process exits; no   *)
(* reload, full semaphore, failed dial or half-closed relay stops that.    *)
(***************************************************************************)
ClientsAreServed ==
  \A c \in Conns :
    pc[c] = "backlog" ~> (pc[c] \in {"refused", "closed"} \/ mainPc = "exited")

-----------------------------------------------------------------------------
(* The refinement mapping to Gateway. *)
PhaseOf(stage) ==
  CASE stage = "new" -> "outside"
    [] stage \in {"backlog", "accepted"} -> "waiting"
    [] stage = "refused" -> "rejected"
    [] stage \in {"connect", "reply"} -> "granted"
    [] stage = "relay" -> "tunnel"
    [] stage = "release" -> "leaving"
    [] stage \in {"dec", "wgdone", "closed"} -> "gone"
    [] OTHER -> "serving"

PairsOf(t) == UNION {{h} \X t.routes[h] : h \in DOMAIN t.routes}

G == INSTANCE Gateway WITH
       Clients  <- Conns,
       Limit    <- MaxConns,
       Policies <- {PairsOf(t) : t \in Configs},
       phase    <- [c \in Conns |-> PhaseOf(pc[c])],
       grant    <- [c \in Conns |-> IF target[c] = NoAddr THEN <<>>
                                    ELSE <<route[c], target[c]>>],
       policy   <- PairsOf(Current),
       door     <- Running /\ listener \in {"bound", "open"}

(***************************************************************************)
(* The server implements the gateway: whatever its goroutines do, a client *)
(* is turned away only when max_connections sessions hold a slot or the    *)
(* listener is closed, and gets at most one backend, which the router      *)
(* current at that moment lists.                                           *)
(***************************************************************************)
ImplementsGateway == G!GSpec
=============================================================================
