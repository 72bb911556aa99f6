------------------------------- MODULE Runtime ------------------------------
(***************************************************************************)
(* The process around the server: run of cmd/zerosock/main.go with its     *)
(* signal channel, reload of reload.go, the metrics exporter, and the      *)
(* health checkers of internal/health, one per router, whose workers go on *)
(* for a while after a reload has replaced them.  A reload that a session  *)
(* of auto-discovery asks for does what SIGHUP does; how it is asked for   *)
(* and answered is in module Discovery.                                    *)
(***************************************************************************)
EXTENDS Config, FiniteSets

CONSTANTS
  Files,       \* what the operator may put in the config file
  Addresses,   \* ip:port of backends
  SigCap,      \* capacity of the signal channel (2 in the code)
  MaxRouters   \* bound: routers built

ASSUME RuntimeAssumption ==
  /\ SigCap \in Nat \ {0} /\ MaxRouters \in Nat \ {0}
  /\ Files # {} /\ Unusable \notin Addresses

(* strings.TrimSpace leaves nothing to trim in what the routes refer to. *)
ASSUME TrimAssumption ==
  \A f \in Files : \A h \in DOMAIN f.routes : Trim(Trim(f.routes[h])) = Trim(f.routes[h])

VARIABLES
  (* the main goroutine *)
  mainPc,     \* "boot", "select", "load", "swap", "cancel", "stop", "wait" or "exited"
  exit,       \* how run ended
  sigCh,      \* signals queued for run
  cfgs,       \* the configs that routers were built from, one per router
  cfg,        \* r.cfg
  current,    \* the number of the router the server uses
  checker,    \* the number of the checker that r.checkerCancel stops, or 0
  cancelled,  \* the checkers whose context is done
  (* the health workers and what they share *)
  work,       \* worker -> [pc, alive, todo]
  dead,       \* <<router, host, address>> whose alive flag is off
  gauge,      \* backendsAlive of the collector: <<host, address>> -> BOOLEAN
  (* the outside *)
  up,         \* address -> "down", "tcp" (accepts, but HTTP is not 200) or "ok"
  (* history *)
  started     \* the settings the server was made with

reloadVars == <<cfgs, cfg, current, checker, cancelled>>
mainVars == <<mainPc, exit, reloadVars, started>>
workVars == <<work, dead, gauge>>
vars == <<mainVars, sigCh, workVars, up>>

NoConfig == [settings |-> <<>>, groups |-> <<>>, routes |-> <<>>, group |-> <<>>]
Newest == Len(cfgs)
Running == mainPc # "exited"
Looping == mainPc \in {"select", "load", "swap", "cancel"}
With(f, x, y) == [z \in DOMAIN f \cup {x} |-> IF z = x THEN y ELSE f[z]]

(***************************************************************************)
(* A definition whose comment says "faulty" is not part of the             *)
(* specification: it is a bug this code could have had in the definition   *)
(* that follows it, kept to show that a property notices it.               *)
(***************************************************************************)
Init ==
  /\ mainPc = "boot" /\ exit = "none" /\ sigCh = <<>>
  /\ cfgs = <<>> /\ cfg = NoConfig /\ started = <<>>
  /\ current = 0 /\ checker = 0 /\ cancelled = {}
  /\ work = <<>> /\ dead = {} /\ gauge = <<>>
  /\ up \in [Addresses -> {"down", "tcp", "ok"}]
-----------------------------------------------------------------------------
(* Health checkers.  Worker <<n, g, i>> is the one that the checker of     *)
(* router n runs for the i-th address of group g.                          *)

WorkersOf(n, c) ==
  UNION {{<<n, g, i>> : i \in DOMAIN c.groups[g].addresses} : g \in DOMAIN c.groups}

Group(w) == cfgs[w[1]].groups[w[2]]
Address(w) == Group(w).addresses[w[3]]

HostsOfOne(w) ==   \* faulty: the map keeps one host per group
  LET hosts == {h \in DOMAIN cfgs[w[1]].group : cfgs[w[1]].group[h] = Group(w).name}
  IN {h \in hosts : h = CHOOSE x \in hosts : TRUE}
(* health.New: the hosts that use a group. *)
HostsOf(w) == {h \in DOMAIN cfgs[w[1]].group : cfgs[w[1]].group[h] = Group(w).name}

Fresh == [pc |-> "probe", alive |-> TRUE, todo |-> {}]

(* startChecker: every worker begins with a probe, whatever its context. *)
StartChecker(n, c) ==
  work' = [w \in DOMAIN work \cup WorkersOf(n, c) |->
             IF w \in DOMAIN work THEN work[w]
             ELSE Fresh]

GoOn(w, state) == work' = [work EXCEPT ![w] = state]
WorkerFrame == UNCHANGED <<mainVars, sigCh, up>>

(* probeL4 connects; probeL7 also wants status 200.  Either takes at most  *)
(* the timeout, and sees the backend as it is at one moment of that time.  *)
Verdict(path, health) == IF path = "" THEN health # "down" ELSE health = "ok"

Probe(w) ==
  LET hosts == HostsOf(w)
  IN /\ work[w].pc = "probe" /\ Running
     /\ GoOn(w, [pc |-> IF hosts = {} THEN "idle" ELSE "report", todo |-> hosts,
                 alive |-> Verdict(Group(w).path, up[Address(w)])])
     /\ UNCHANGED <<dead, gauge>> /\ WorkerFrame

(***************************************************************************)
(* The loop over the hosts after a probe, in the order of a Go map.  For   *)
(* each, the gauge of the collector and the flag in the checker's own      *)
(* router are stored; the two stores are one step, since nothing reads     *)
(* both and no other worker writes the flag.  An address that the route    *)
(* does not have is an error, which is logged.                             *)
(***************************************************************************)
FlagOfCurrent(w, h) == <<current, h, Address(w)>>   \* faulty: the server's router
FlagOf(w, h) == <<w[1], h, Address(w)>>
HasBackend(f) ==
  /\ f[2] \in DOMAIN cfgs[f[1]].routes
  /\ \E i \in DOMAIN cfgs[f[1]].routes[f[2]] : cfgs[f[1]].routes[f[2]][i] = f[3]

Report(w, h) ==
  LET f == FlagOf(w, h)
      rest == work[w].todo \ {h}
  IN /\ work[w].pc = "report" /\ h \in work[w].todo /\ Running
     /\ gauge' = With(gauge, <<h, Address(w)>>, work[w].alive)
     /\ dead' = IF work[w].alive \/ ~HasBackend(f) THEN dead \ {f} ELSE dead \cup {f}
     /\ GoOn(w, [work[w] EXCEPT !.pc = IF rest = {} THEN "idle" ELSE "report", !.todo = rest])
     /\ WorkerFrame

(* The select of a worker: when its context is done and the ticker has     *)
(* fired, either case may be taken.                                        *)
TickWhileAlive(w) ==   \* faulty: a dead backend is not probed again
  /\ work[w].pc = "idle" /\ work[w].alive /\ Running
  /\ GoOn(w, Fresh)
  /\ UNCHANGED <<dead, gauge>> /\ WorkerFrame
Tick(w) ==
  /\ work[w].pc = "idle" /\ Running
  /\ GoOn(w, Fresh)
  /\ UNCHANGED <<dead, gauge>> /\ WorkerFrame

Done(w) ==
  /\ work[w].pc = "idle" /\ w[1] \in cancelled /\ Running
  /\ GoOn(w, [Fresh EXCEPT !.pc = "done"])
  /\ UNCHANGED <<dead, gauge>> /\ WorkerFrame
-----------------------------------------------------------------------------
(* The main goroutine. *)

(* The process ends, and with it everything in its memory. *)
Leave(reason) ==
  /\ mainPc' = "exited" /\ exit' = reason /\ sigCh' = <<>>
  /\ cfgs' = <<>> /\ cfg' = NoConfig /\ started' = <<>>
  /\ current' = 0 /\ checker' = 0 /\ cancelled' = {}
  /\ work' = <<>> /\ dead' = {} /\ gauge' = <<>>

(***************************************************************************)
(* What buildReloadTarget may do with the file as it is now: Load resolves *)
(* every address once for the checker and, as it comes to the routes in    *)
(* the order of a Go map, again for each of them.  New refuses nothing     *)
(* that Load accepts.                                                      *)
(***************************************************************************)
Refused == [err |-> "config error", cfg |-> NoConfig]
Panicked == [err |-> "panic", cfg |-> NoConfig]
Built(c) == [err |-> "none", cfg |-> c]

BuildRoutes(file, lookup) ==
  (IF MayPanic(file) THEN {Panicked} ELSE {}) \cup
  IF \A h \in DOMAIN file.routes : RouteAccepted(file, h)
  THEN UNION {{Built(Normalized(file, w, lookup, l)) : l \in RouteLookups(file, w)} :
                w \in Winners(file)}
  ELSE {Refused}
Build(file) ==
  UNION {IF Accepted(file, l) THEN BuildRoutes(file, l) ELSE {Refused} : l \in CheckerLookups(file)}

(* run up to its loop. *)
Booted(c) ==
  /\ mainPc' = "select"
  /\ cfgs' = <<c>> /\ cfg' = c /\ started' = c.settings
  /\ current' = 1 /\ checker' = 1 /\ StartChecker(1, c)
  /\ UNCHANGED <<exit, sigCh, cancelled, dead, gauge>>

Boot(file) ==
  /\ mainPc = "boot"
  /\ \E b \in Build(file) : IF b.err = "none" THEN Booted(b.cfg) ELSE Leave(b.err)
  /\ UNCHANGED up

(* The case of sigCh; SIGINT is treated like SIGTERM. *)
TakeHangup ==   \* faulty: every signal reloads
  /\ mainPc = "select" /\ sigCh # <<>>
  /\ sigCh' = Tail(sigCh)
  /\ mainPc' = "load"
  /\ UNCHANGED <<exit, reloadVars, started, workVars, up>>
TakeSignal ==
  /\ mainPc = "select" /\ sigCh # <<>>
  /\ sigCh' = Tail(sigCh)
  /\ mainPc' = IF Head(sigCh) = "HUP" THEN "load" ELSE "stop"
  /\ UNCHANGED <<exit, reloadVars, started, workVars, up>>

(* The bound: reloads are asked for while routers may still be built. *)
MoreReloads ==
  Newest + Len(SelectSeq(sigCh, LAMBDA sig : sig = "HUP"))
    + (IF mainPc \in {"boot", "load"} THEN 1 ELSE 0) < MaxRouters

(* The case of reloadRequestCh; run made a discoverer at the start or not. *)
TakeRequest ==
  /\ mainPc = "select" /\ MoreReloads
  /\ started["AutoDiscoveryEnabled"] = "on"
  /\ mainPc' = "load"
  /\ UNCHANGED <<exit, reloadVars, started, sigCh, workVars, up>>

(* reload: build, start the new checker; a failure changes nothing. *)
Reloaded(c) ==
  /\ mainPc' = "swap" /\ cfgs' = Append(cfgs, c)
  /\ StartChecker(Newest + 1, c)
  /\ UNCHANGED <<exit, cfg, current, checker, cancelled, started, sigCh, dead, gauge>>

Load(file) ==
  /\ mainPc = "load"
  /\ \E b \in Build(file) :
       CASE b.err = "none" -> Reloaded(b.cfg)
         [] b.err = "config error" ->
              mainPc' = "select" /\ UNCHANGED <<exit, reloadVars, started, sigCh, workVars>>
         [] b.err = "panic" -> Leave("panic")
  /\ UNCHANGED up

(* UpdateRouter and the new r.cfg. *)
Swap ==
  /\ mainPc = "swap"
  /\ mainPc' = "cancel"
  /\ current' = Newest /\ cfg' = applyReloadPolicy(cfg, cfgs[Newest])
  /\ UNCHANGED <<exit, cfgs, checker, cancelled, started, sigCh, workVars, up>>

CancelStep == UNCHANGED <<exit, cfgs, cfg, current, started, sigCh, workVars, up>>
CancelNone ==   \* faulty: the replaced checker goes on
  /\ mainPc = "cancel" /\ mainPc' = "select"
  /\ cancelled' = cancelled /\ checker' = Newest /\ CancelStep
(* oldCancel().  That r.checkerCancel was replaced under the lock before   *)
(* cannot be seen: the main goroutine alone uses it.                       *)
CancelOld ==
  /\ mainPc = "cancel" /\ mainPc' = "select"
  /\ cancelled' = cancelled \cup {checker} /\ checker' = Newest /\ CancelStep

(* cancel, stopChecker, Shutdown; then Wait runs in a goroutine. *)
Stop ==
  /\ mainPc = "stop" /\ mainPc' = "wait"
  /\ cancelled' = 1..Newest /\ checker' = 0
  /\ UNCHANGED <<exit, cfgs, cfg, current, started, sigCh, workVars, up>>

(* The tunnels finish or the grace period ends (module Server), or another *)
(* signal, of any kind, is in the channel.                                 *)
Exit ==
  /\ mainPc = "wait" /\ UNCHANGED up
  /\ \/ Leave("waited")
     \/ sigCh # <<>> /\ Leave("second signal")

(* Serve (module Server) returned an error.  Without one it returns only   *)
(* after Stop, when run has left the loop; so does the exporter.           *)
ServeFailed ==
  mainPc = "select" /\ Leave("serve failed") /\ UNCHANGED up

(* StartHTTP: ListenAndServe returned an error.  Without an exporter its   *)
(* channel is nil.                                                         *)
MetricsServeFailed ==
  /\ mainPc = "select" /\ started["MetricsEnabled"] = "on"
  /\ Leave("metrics serve failed") /\ UNCHANGED up
-----------------------------------------------------------------------------
(* The outside. *)

(* signal.Notify never blocks: a signal that finds the channel full is lost. *)
NotifyUnbounded(sig) ==   \* faulty: the channel has no capacity
  /\ Running /\ (sig = "HUP" => MoreReloads)
  /\ sigCh' = Append(sigCh, sig)
  /\ UNCHANGED <<mainVars, workVars, up>>
Notify(sig) ==
  /\ Running /\ (sig = "HUP" => MoreReloads)
  /\ sigCh' = IF Len(sigCh) < SigCap THEN Append(sigCh, sig) ELSE sigCh
  /\ UNCHANGED <<mainVars, workVars, up>>

ChangeHealth(a) ==
  /\ Running /\ \E u \in {"down", "tcp", "ok"} : up' = [up EXCEPT ![a] = u]
  /\ UNCHANGED <<mainVars, sigCh, workVars>>

Gone == ~Running /\ UNCHANGED vars

WorkerLoop(w) ==
  Probe(w) \/ \E h \in work[w].todo : Report(w, h)

Next ==
  \/ \E file \in Files : Boot(file) \/ Load(file)
  \/ TakeSignal \/ TakeRequest \/ Swap \/ CancelOld \/ Stop \/ Exit \/ ServeFailed
  \/ MetricsServeFailed
  \/ \E w \in DOMAIN work : WorkerLoop(w) \/ Tick(w) \/ Done(w)
  \/ Notify("HUP") \/ Notify("TERM") \/ Gone
  \/ \E a \in Addresses : ChangeHealth(a)

(***************************************************************************)
(* The main goroutine never blocks outside its selects, and a select takes *)
(* a case that is ready again and again in the end (Go chooses among the   *)
(* ready cases at random): a queued signal is taken, a worker whose        *)
(* context is done stops although its ticker fires too.  Probes have a     *)
(* timeout and tickers fire.  Wait has a grace period.  Signals, edits,    *)
(* requests and failures may never come.                                   *)
(***************************************************************************)
AllWorkers == UNION {WorkersOf(n, f) : n \in 1..MaxRouters, f \in Files}

Fairness ==
  /\ WF_vars((\E file \in Files : Boot(file) \/ Load(file)) \/ Swap \/ CancelOld \/ Stop \/ Exit)
  /\ SF_vars(TakeSignal)
  /\ \A w \in AllWorkers :
       /\ WF_vars(w \in DOMAIN work /\ (WorkerLoop(w) \/ Tick(w)))
       /\ SF_vars(w \in DOMAIN work /\ Done(w))

Spec == Init /\ [][Next]_vars /\ Fairness
-----------------------------------------------------------------------------
MainTypes ==
  /\ mainPc \in {"boot", "select", "load", "swap", "cancel", "stop", "wait", "exited"}
  /\ exit \in {"none", "config error", "panic", "waited", "second signal", "serve failed",
               "metrics serve failed"}
  /\ sigCh \in Seq({"HUP", "TERM"}) /\ Len(sigCh) <= SigCap
  /\ current \in 0..Newest /\ checker \in 0..Newest /\ cancelled \subseteq 1..Newest
  /\ up \in [Addresses -> {"down", "tcp", "ok"}]

WorkTypes ==
  /\ DOMAIN work = UNION {WorkersOf(n, cfgs[n]) : n \in 1..Newest}
  /\ \A w \in DOMAIN work :
       /\ work[w].pc \in {"probe", "report", "idle", "done"}
       /\ work[w].alive \in BOOLEAN /\ work[w].todo \subseteq HostsOf(w)
  /\ \A f \in dead : f[1] \in 1..Newest /\ HasBackend(f)
  /\ \A p \in DOMAIN gauge : gauge[p] \in BOOLEAN

TypeOK == MainTypes /\ WorkTypes

(***************************************************************************)
(* While the process serves, the router it serves from is being checked:   *)
(* every backend of every route has a worker of that router's checker that *)
(* goes on probing it and reports for that host, and the checker has not   *)
(* been stopped; also in the middle of a reload.                           *)
(***************************************************************************)
ServedIsProbed ==
  Looping =>
    /\ current \notin cancelled
    /\ \A h \in DOMAIN cfgs[current].routes : \A i \in DOMAIN cfgs[current].routes[h] :
         \E w \in DOMAIN work :
           /\ w[1] = current /\ work[w].pc # "done"
           /\ Address(w) = cfgs[current].routes[h][i] /\ h \in HostsOf(w)

(***************************************************************************)
(* No reload, whether it succeeds, fails or follows another at once, leaks *)
(* a checker: whenever run waits for the next event, the checker of the    *)
(* current router is the only one not stopped, and r.checkerCancel is the  *)
(* one that stops it.                                                      *)
(***************************************************************************)
OneChecker ==
  mainPc = "select" => (1..Newest) \ cancelled = {current} /\ checker = current

(***************************************************************************)
(* The flag that Pick reads is the last verdict of the router's own        *)
(* checker: a worker that waits for its next tick has left exactly its     *)
(* verdict in the flag of every host of its group, and no probe of another *)
(* checker, such as one in flight when it was replaced, has touched it.    *)
(***************************************************************************)
FlagIsLastVerdict ==
  \A w \in DOMAIN work : work[w].pc = "idle" =>
    \A h \in HostsOf(w) : <<w[1], h, Address(w)>> \in dead <=> ~work[w].alive

(***************************************************************************)
(* What reload.go keeps back stays what the server was started with, after *)
(* any number of reloads; the rest of r.cfg is what the current router was *)
(* built from.                                                             *)
(***************************************************************************)
ConfigIsTrue ==
  Looping =>
    /\ \A s \in HeldBack : cfg.settings[s] = started[s]
    /\ cfg.routes = cfgs[current].routes /\ cfg.groups = cfgs[current].groups

(***************************************************************************)
(* No accepted file makes time.NewTicker panic or lets a probe outlast the *)
(* ticker, whichever values are unset: timeouts and intervals are positive *)
(* and a timeout is at most its interval.  An interval so large that it    *)
(* wraps below zero is refused with it.  (For files whose timeouts fit a   *)
(* duration: if both wrap, the file is accepted and NewTicker panics.)     *)
(***************************************************************************)
UsableDurations ==
  \A n \in 1..Newest : \A g \in DOMAIN cfgs[n].groups :
    0 < cfgs[n].groups[g].timeout /\ cfgs[n].groups[g].timeout <= cfgs[n].groups[g].interval

(***************************************************************************)
(* README.md on dead backends: once all backends of a host are dead, only  *)
(* a health check that finds one alive brings the host back.               *)
(***************************************************************************)
AllDead(h) == \A i \in DOMAIN cfgs[current].routes[h] :
                <<current, h, cfgs[current].routes[h][i]>> \in dead
FoundAlive(h) ==
  \E w \in DOMAIN work : w[1] = current /\ work[w].alive /\ Report(w, h)
DeadUntilProbed ==
  [][\A h \in DOMAIN cfg.routes :
       Looping /\ AllDead(h) /\ h \in DOMAIN cfg'.routes /\ ~AllDead(h)' => FoundAlive(h)]_vars

(***************************************************************************)
(* Health converges: if a backend's state stops changing while the process *)
(* serves, then both the flags of the current router and the shared gauge  *)
(* settle on what that router's kind of check says of it, whatever checks  *)
(* earlier configs made and however their last probes are delayed.         *)
(***************************************************************************)
Settled(a, u) ==
  \A w \in DOMAIN work : w[1] = current /\ Address(w) = a =>
    \A h \in HostsOf(w) :
      LET v == Verdict(Group(w).path, u)
      IN /\ <<current, h, a>> \notin dead <=> v
         /\ <<h, a>> \in DOMAIN gauge /\ gauge[<<h, a>>] = v
HealthSettles ==
  \A a \in Addresses, u \in {"down", "tcp", "ok"} :
    <>[](Looping /\ up[a] = u) => <>[]Settled(a, u)

(* A SIGINT or SIGTERM that found room in the channel ends the process,    *)
(* whatever reloads are queued before it or asked for by sessions.         *)
QueuedStopStops ==
  (\E i \in DOMAIN sigCh : sigCh[i] = "TERM") ~> ~Running
=============================================================================
