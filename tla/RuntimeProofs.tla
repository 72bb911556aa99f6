--------------------------- MODULE RuntimeProofs ----------------------------
(***************************************************************************)
(* Proofs about Runtime, for any files, backends and lookups, any capacity *)
(* of the signal channel and any number of reloads.                        *)
(***************************************************************************)
EXTENDS Runtime, TLAPS

-----------------------------------------------------------------------------
(* A config as Normalized and applyReloadPolicy return it. *)
IsConfig(c) ==
  /\ c = [settings |-> c.settings, groups |-> c.groups, routes |-> c.routes, group |-> c.group]
  /\ c.settings = [s \in Settings |-> c.settings[s]]

Configs == UNION {{b.cfg : b \in Build(f)} : f \in Files}

LEMMA NormalizedIsConfig ==
  ASSUME NEW raw, NEW w, NEW l, NEW again
  PROVE  IsConfig(Normalized(raw, w, l, again))
<1> DEFINE st == [s \in Settings |-> Setting(raw, s)]
           gs == [g \in DOMAIN raw.groups |->
                    [name |-> Trim(g), addresses |-> l[g],
                     interval |-> Interval(raw, g), timeout |-> Timeout(raw, g),
                     path |-> Path(raw, g)]]
           gr == [h \in Hosts(raw) |-> RouteGroup(raw, w[h])]
           c == Normalized(raw, w, l, again)
<1>1. c = [settings |-> st, groups |-> gs, routes |-> again, group |-> gr]
  BY DEF Normalized
<1>2. st = [s \in Settings |-> st[s]]
  OBVIOUS
<1> HIDE DEF st, gs, gr, c
<1>3. c.settings = st /\ c.groups = gs /\ c.routes = again /\ c.group = gr
  BY <1>1
<1>4. IsConfig(c)
  BY <1>1, <1>2, <1>3, Zenon DEF IsConfig
<1> QED
  BY <1>4 DEF c

(* A build that does not fail gives a config. *)
LEMMA BuildGivesConfig ==
  ASSUME NEW f \in Files, NEW b \in Build(f)
  PROVE  /\ b.cfg \in Configs
         /\ b.err \in {"none", "config error", "panic"}
         /\ b.err = "none" => IsConfig(b.cfg)
<1>1. b.cfg \in Configs
  BY DEF Configs
<1>2. Refused.err = "config error" /\ Panicked.err = "panic" /\ \A c : Built(c).err = "none"
  BY DEF Refused, Panicked, Built
<1>3. \/ b = Refused \/ b = Panicked
      \/ \E w, l, again : b = Built(Normalized(f, w, l, again))
  BY DEF Build, BuildRoutes
<1>4. ASSUME b.err = "none" PROVE IsConfig(b.cfg)
  <2>1. PICK w, l, again : b = Built(Normalized(f, w, l, again))
    BY <1>2, <1>3, <1>4
  <2>2. b.cfg = Normalized(f, w, l, again)
    BY <2>1 DEF Built
  <2> QED
    BY <2>2, NormalizedIsConfig
<1>5. b.err \in {"none", "config error", "panic"}
  BY <1>2, <1>3
<1> QED
  BY <1>1, <1>4, <1>5

(* applyReloadPolicy keeps the settings of the process and the rest of the *)
(* new config.                                                             *)
LEMMA PolicyKeeps ==
  ASSUME NEW cur, NEW next, IsConfig(next)
  PROVE  LET new == applyReloadPolicy(cur, next)
         IN /\ \A s \in HeldBack : new.settings[s] = cur.settings[s]
            /\ new.routes = next.routes /\ new.groups = next.groups
<1> DEFINE st == [s \in Settings |-> IF s \in HeldBack THEN cur.settings[s] ELSE next.settings[s]]
           new == applyReloadPolicy(cur, next)
<1>1. new = [next EXCEPT !.settings = st]
  BY DEF applyReloadPolicy
<1>2. HeldBack \subseteq Settings
  BY DEF Settings
<1>3. \A s \in HeldBack : st[s] = cur.settings[s]
  BY <1>2
<1> HIDE DEF st, new
<1>4. new = [settings |-> st, groups |-> next.groups, routes |-> next.routes, group |-> next.group]
  BY <1>1 DEF IsConfig
<1>5. new.settings = st /\ new.routes = next.routes /\ new.groups = next.groups
  BY <1>4
<1> QED
  BY <1>3, <1>5 DEF new

-----------------------------------------------------------------------------
(***************************************************************************)
(* Where the main goroutine is determines which checkers are stopped.      *)
(***************************************************************************)
CheckerInv ==
  /\ mainPc \in {"boot", "select", "load", "swap", "cancel", "stop", "wait", "exited"}
  /\ cfgs \in Seq(Configs)
  /\ mainPc \in {"boot", "exited"} => cfgs = <<>> /\ cancelled = {}
  /\ mainPc \in {"select", "load", "stop"} =>
       Newest >= 1 /\ current = Newest /\ checker = Newest /\ cancelled = 1..(Newest - 1)
  /\ mainPc \in {"swap", "cancel"} =>
       Newest >= 2 /\ checker = Newest - 1 /\ cancelled = 1..(Newest - 2)
  /\ mainPc = "swap" => current = Newest - 1
  /\ mainPc = "cancel" => current = Newest

ConfigInv == (\A n \in 1..Newest : IsConfig(cfgs[n])) /\ ConfigIsTrue

RuntimeInv == CheckerInv /\ ConfigInv

LEMMA InitRuntimeInv == Init => RuntimeInv
<1> SUFFICES ASSUME Init PROVE RuntimeInv
  OBVIOUS
<1>1. cfgs = <<>> /\ cfgs \in Seq(Configs) /\ Newest = 0 /\ mainPc = "boot" /\ cancelled = {}
  BY DEF Init, Newest
<1>2. CheckerInv
  BY <1>1 DEF CheckerInv
<1>3. ConfigInv
  BY <1>1 DEF ConfigInv, ConfigIsTrue, Looping
<1> QED
  BY <1>2, <1>3 DEF RuntimeInv

(* A step that does not touch the main goroutine's state. *)
LEMMA OthersKeepInv ==
  ASSUME RuntimeInv, UNCHANGED mainVars
  PROVE  RuntimeInv'
<1>1. UNCHANGED <<mainPc, cfgs, cfg, current, checker, cancelled, started>>
  BY DEF mainVars, reloadVars
<1>2. CheckerInv'
  BY <1>1 DEF RuntimeInv, CheckerInv, Newest
<1>3. ConfigInv'
  BY <1>1 DEF RuntimeInv, ConfigInv, ConfigIsTrue, Looping, Newest
<1> QED
  BY <1>2, <1>3 DEF RuntimeInv

(* The process ends. *)
LEMMA LeaveKeepsInv ==
  ASSUME NEW reason, Leave(reason)
  PROVE  RuntimeInv'
<1>1. cfgs' = <<>> /\ Newest' = 0 /\ mainPc' = "exited" /\ cancelled' = {}
  BY DEF Leave, Newest
<1>2. CheckerInv'
  BY <1>1 DEF CheckerInv
<1>3. ConfigInv'
  BY <1>1 DEF ConfigInv, ConfigIsTrue, Looping
<1> QED
  BY <1>2, <1>3 DEF RuntimeInv

LEMMA BootKeepsInv ==
  ASSUME RuntimeInv, NEW f \in Files, Boot(f)
  PROVE  RuntimeInv'
<1>1. PICK b \in Build(f) : IF b.err = "none" THEN Booted(b.cfg) ELSE Leave(b.err)
  BY DEF Boot
<1>2. CASE b.err # "none"
  BY <1>1, <1>2, LeaveKeepsInv
<1>3. CASE b.err = "none"
  <2> DEFINE c == b.cfg
  <2>1. c \in Configs /\ IsConfig(c)
    BY <1>3, BuildGivesConfig
  <2>2. /\ mainPc' = "select" /\ cfgs' = <<c>> /\ cfg' = c /\ started' = c.settings
        /\ current' = 1 /\ checker' = 1 /\ cancelled' = cancelled
    BY <1>1, <1>3 DEF Booted
  <2>3. cancelled = {}
    BY DEF RuntimeInv, CheckerInv, Boot
  <2> HIDE DEF c
  <2>4. cfgs' \in Seq(Configs) /\ Newest' = 1 /\ cfgs'[1] = c
    BY <2>1, <2>2 DEF Newest
  <2>5. CheckerInv'
    BY <2>2, <2>3, <2>4 DEF CheckerInv
  <2>6. ConfigInv'
    BY <2>1, <2>2, <2>4 DEF ConfigInv, ConfigIsTrue, Looping
  <2> QED
    BY <2>5, <2>6 DEF RuntimeInv
<1> QED
  BY <1>2, <1>3

LEMMA LoadKeepsInv ==
  ASSUME RuntimeInv, NEW f \in Files, Load(f)
  PROVE  RuntimeInv'
<1>1. PICK b \in Build(f) :
        CASE b.err = "none" -> Reloaded(b.cfg)
          [] b.err = "config error" ->
               mainPc' = "select" /\ UNCHANGED <<exit, reloadVars, started, sigCh, workVars>>
          [] b.err = "panic" -> Leave("panic")
  BY DEF Load
<1>2. b.err \in {"none", "config error", "panic"}
  BY BuildGivesConfig
<1> mainPc = "load"
  BY DEF Load
<1>3. CASE b.err = "panic"
  BY <1>1, <1>3, LeaveKeepsInv
<1>4. CASE b.err = "config error"
  <2>1. mainPc' = "select" /\ UNCHANGED <<cfgs, cfg, current, checker, cancelled, started>>
    BY <1>1, <1>4 DEF reloadVars
  <2>2. CheckerInv'
    BY <2>1 DEF RuntimeInv, CheckerInv, Newest
  <2>3. ConfigInv'
    BY <2>1 DEF RuntimeInv, ConfigInv, ConfigIsTrue, Looping, Newest
  <2> QED
    BY <2>2, <2>3 DEF RuntimeInv
<1>5. CASE b.err = "none"
  <2> DEFINE c == b.cfg
  <2>1. c \in Configs /\ IsConfig(c)
    BY <1>5, BuildGivesConfig
  <2>2. /\ mainPc' = "swap" /\ cfgs' = Append(cfgs, c)
        /\ UNCHANGED <<cfg, current, checker, cancelled, started>>
    BY <1>1, <1>5 DEF Reloaded
  <2>3. /\ cfgs \in Seq(Configs) /\ Newest \in Nat /\ Newest >= 1
        /\ current = Newest /\ checker = Newest /\ cancelled = 1..(Newest - 1)
    BY DEF RuntimeInv, CheckerInv, Newest
  <2> HIDE DEF c
  <2>4. /\ cfgs' \in Seq(Configs) /\ Newest' = Newest + 1 /\ cfgs'[Newest + 1] = c
        /\ \A n \in 1..Newest : cfgs'[n] = cfgs[n]
    BY <2>1, <2>2, <2>3 DEF Newest
  <2>5. CheckerInv'
    BY <2>2, <2>3, <2>4 DEF CheckerInv
  <2>6. \A n \in 1..Newest' : IsConfig(cfgs'[n])
    BY <2>1, <2>3, <2>4 DEF RuntimeInv, ConfigInv
  <2>7. ConfigIsTrue'
    <3>1. /\ \A s \in HeldBack : cfg.settings[s] = started[s]
          /\ cfg.routes = cfgs[current].routes /\ cfg.groups = cfgs[current].groups
      BY DEF RuntimeInv, ConfigInv, ConfigIsTrue, Looping
    <3>2. current' = current /\ cfgs'[current] = cfgs[current]
      <4>1. current \in 1..Newest
        BY <2>3
      <4> QED
        BY <2>2, <2>4, <4>1
    <3> QED
      BY <2>2, <3>1, <3>2 DEF ConfigIsTrue
  <2>8. ConfigInv'
    BY <2>6, <2>7 DEF ConfigInv
  <2> QED
    BY <2>5, <2>8 DEF RuntimeInv
<1> QED
  BY <1>2, <1>3, <1>4, <1>5

LEMMA SwapKeepsInv ==
  ASSUME RuntimeInv, Swap
  PROVE  RuntimeInv'
<1>1. /\ mainPc = "swap" /\ mainPc' = "cancel" /\ current' = Newest
      /\ cfg' = applyReloadPolicy(cfg, cfgs[Newest])
      /\ UNCHANGED <<cfgs, checker, cancelled, started>>
  BY DEF Swap
<1>2. Newest \in Nat /\ Newest >= 2 /\ Newest' = Newest
  BY <1>1 DEF RuntimeInv, CheckerInv, Newest
<1>3. CheckerInv'
  BY <1>1, <1>2 DEF RuntimeInv, CheckerInv
<1>4. IsConfig(cfgs[Newest])
  BY <1>2 DEF RuntimeInv, ConfigInv
<1>5. /\ \A s \in HeldBack : cfg'.settings[s] = cfg.settings[s]
      /\ cfg'.routes = cfgs[Newest].routes /\ cfg'.groups = cfgs[Newest].groups
  BY <1>1, <1>4, PolicyKeeps
<1>6. ConfigIsTrue'
  BY <1>1, <1>5 DEF RuntimeInv, ConfigInv, ConfigIsTrue, Looping
<1>7. ConfigInv'
  BY <1>1, <1>2, <1>6 DEF RuntimeInv, ConfigInv
<1> QED
  BY <1>3, <1>7 DEF RuntimeInv

LEMMA CancelKeepsInv ==
  ASSUME RuntimeInv, CancelOld
  PROVE  RuntimeInv'
<1>1. /\ mainPc = "cancel" /\ mainPc' = "select"
      /\ cancelled' = cancelled \cup {checker} /\ checker' = Newest
      /\ UNCHANGED <<cfgs, cfg, current, started>>
  BY DEF CancelOld, CancelStep
<1>2. /\ Newest \in Nat /\ Newest >= 2 /\ Newest' = Newest /\ current = Newest
      /\ checker = Newest - 1 /\ cancelled = 1..(Newest - 2)
  BY <1>1 DEF RuntimeInv, CheckerInv, Newest
<1>3. cancelled' = 1..(Newest - 1)
  BY <1>1, <1>2
<1>4. CheckerInv'
  BY <1>1, <1>2, <1>3 DEF RuntimeInv, CheckerInv
<1>5. ConfigInv'
  BY <1>1, <1>2 DEF RuntimeInv, ConfigInv, ConfigIsTrue, Looping
<1> QED
  BY <1>4, <1>5 DEF RuntimeInv

(* run takes a signal or a request, or begins to stop. *)
LEMMA RunKeepsInv ==
  ASSUME RuntimeInv, TakeSignal \/ TakeRequest \/ Stop
  PROVE  RuntimeInv'
<1>1. CASE TakeSignal \/ TakeRequest
  <2>1. /\ mainPc = "select" /\ mainPc' \in {"load", "stop"}
        /\ UNCHANGED <<cfgs, cfg, current, checker, cancelled, started>>
    BY <1>1 DEF TakeSignal, TakeRequest, reloadVars
  <2>2. CheckerInv'
    BY <2>1 DEF RuntimeInv, CheckerInv, Newest
  <2>3. ConfigInv'
    BY <2>1 DEF RuntimeInv, ConfigInv, ConfigIsTrue, Looping, Newest
  <2> QED
    BY <2>2, <2>3 DEF RuntimeInv
<1>2. CASE Stop
  <2>1. mainPc' = "wait" /\ UNCHANGED cfgs
    BY <1>2 DEF Stop
  <2>2. CheckerInv'
    BY <2>1 DEF RuntimeInv, CheckerInv
  <2>3. ConfigInv'
    BY <2>1 DEF RuntimeInv, ConfigInv, ConfigIsTrue, Looping, Newest
  <2> QED
    BY <2>2, <2>3 DEF RuntimeInv
<1> QED
  BY <1>1, <1>2

LEMMA NextKeepsInv == RuntimeInv /\ [Next]_vars => RuntimeInv'
<1> SUFFICES ASSUME RuntimeInv, [Next]_vars PROVE RuntimeInv'
  OBVIOUS
<1>1. ASSUME NEW f \in Files, Boot(f) \/ Load(f) PROVE RuntimeInv'
  BY <1>1, BootKeepsInv, LoadKeepsInv
<1>2. CASE TakeSignal \/ TakeRequest \/ Stop
  BY <1>2, RunKeepsInv
<1>3. CASE Swap
  BY <1>3, SwapKeepsInv
<1>4. CASE CancelOld
  BY <1>4, CancelKeepsInv
<1>5. CASE Exit \/ ServeFailed \/ MetricsServeFailed
  BY <1>5, LeaveKeepsInv DEF Exit, ServeFailed, MetricsServeFailed
<1>6. ASSUME NEW w \in DOMAIN work, WorkerLoop(w) \/ Tick(w) \/ Done(w) PROVE RuntimeInv'
  <2>1. UNCHANGED mainVars
    BY <1>6 DEF WorkerLoop, Probe, Report, Tick, Done, WorkerFrame
  <2> QED
    BY <2>1, OthersKeepInv
<1>7. CASE Notify("HUP") \/ Notify("TERM") \/ Gone \/ UNCHANGED vars
  <2>1. UNCHANGED mainVars
    BY <1>7 DEF Notify, Gone, vars
  <2> QED
    BY <2>1, OthersKeepInv
<1>8. ASSUME NEW a \in Addresses, ChangeHealth(a) PROVE RuntimeInv'
  <2>1. UNCHANGED mainVars
    BY <1>8 DEF ChangeHealth
  <2> QED
    BY <2>1, OthersKeepInv
<1> QED
  BY <1>1, <1>2, <1>3, <1>4, <1>5, <1>6, <1>7, <1>8 DEF Next

LEMMA InvIsOneChecker == RuntimeInv => OneChecker
<1> SUFFICES ASSUME RuntimeInv, mainPc = "select"
             PROVE  (1..Newest) \ cancelled = {current} /\ checker = current
  BY DEF OneChecker
<1>1. /\ Newest \in Nat /\ Newest >= 1 /\ current = Newest /\ checker = Newest
      /\ cancelled = 1..(Newest - 1)
  BY DEF RuntimeInv, CheckerInv, Newest
<1> QED
  BY <1>1

(* However many reloads succeed, fail or follow one another: whenever run  *)
(* waits, the checker of the current router is the only one not cancelled. *)
THEOREM ReloadsLeakNoChecker == Spec => []OneChecker
<1>1. Spec => []RuntimeInv
  BY InitRuntimeInv, NextKeepsInv, PTL DEF Spec
<1> QED
  BY <1>1, InvIsOneChecker, PTL

(* After any number of reloads, the settings that applyReloadPolicy holds  *)
(* back are those the server was made with, and the routes and groups in   *)
(* r.cfg are those of the router that serves.                              *)
THEOREM ReloadsKeepConfigTrue == Spec => []ConfigIsTrue
<1>1. Spec => []RuntimeInv
  BY InitRuntimeInv, NextKeepsInv, PTL DEF Spec
<1>2. RuntimeInv => ConfigIsTrue
  BY DEF RuntimeInv, ConfigInv
<1> QED
  BY <1>1, <1>2, PTL

-----------------------------------------------------------------------------
(* Durations. *)

(* The hypothesis of the theorem: no timeout in a file is too large. *)
Fits(ms) == ms \in Int /\ ms * Millisecond < HalfRange
TimeoutsFit ==
  \A f \in Files : /\ Fits(f.healthcheck.timeout)
                   /\ \A g \in DOMAIN f.groups : Fits(f.groups[g].healthcheck.timeout)

LEMMA SmallMod ==
  ASSUME NEW n \in Nat \ {0}, NEW y \in 0..(n - 1)
  PROVE  (y % n) = y
  OBVIOUS

(* A duration that fits is what it says, or the fallback. *)
LEMMA DurationPositive ==
  ASSUME NEW ms, Fits(ms), NEW d \in 1..(HalfRange - 1)
  PROVE  durationFromMS(ms, d) \in 1..(HalfRange - 1)
<1>1. CASE ms <= 0
  BY <1>1 DEF durationFromMS
<1>2. CASE ~(ms <= 0)
  <2> DEFINE x == ms * Millisecond
  <2>1. HalfRange \in Nat \ {0} /\ Millisecond \in Nat \ {0} /\ ms \in Int /\ ms > 0
    BY <1>2, DurationAssumption DEF Fits
  <2>2. x \in Int /\ x > 0
    BY <2>1
  <2>3. x < HalfRange
    BY DEF Fits
  <2>4. durationFromMS(ms, d) = Wrapped(x)
    BY <1>2 DEF durationFromMS
  <2> HIDE DEF x
  <2>5. ((x + HalfRange) % (2 * HalfRange)) = x + HalfRange
    <3> DEFINE y == x + HalfRange
               n == 2 * HalfRange
    <3>1. n \in Nat \ {0} /\ y \in 0..(n - 1)
      BY <2>1, <2>2, <2>3
    <3> HIDE DEF y, n
    <3>2. (y % n) = y
      BY <3>1, SmallMod
    <3> QED
      BY <3>2 DEF y, n
  <2>6. Wrapped(x) = x
    BY <2>1, <2>2, <2>5 DEF Wrapped
  <2> QED
    BY <2>1, <2>2, <2>3, <2>4, <2>6
<1> QED
  BY <1>1, <1>2

LEMMA TimeoutPositive ==
  ASSUME TimeoutsFit, NEW f \in Files, NEW g \in DOMAIN f.groups
  PROVE  Timeout(f, g) \in 1..(HalfRange - 1)
<1>1. Defaults["Timeout"] \in 1..(HalfRange - 1)
  BY DurationAssumption
<1>2. DefaultTimeout(f) \in 1..(HalfRange - 1)
  BY <1>1, DurationPositive DEF DefaultTimeout, TimeoutsFit
<1> QED
  BY <1>2, DurationPositive DEF Timeout, TimeoutsFit

Usable(c) ==
  \A g \in DOMAIN c.groups :
    0 < c.groups[g].timeout /\ c.groups[g].timeout <= c.groups[g].interval

(* normalizeAndValidate compares the two after the defaults have come in. *)
LEMMA BuildIsUsable ==
  ASSUME TimeoutsFit, NEW f \in Files, NEW b \in Build(f), b.err = "none"
  PROVE  Usable(b.cfg)
<1>1. Refused.err # "none" /\ Panicked.err # "none"
  BY DEF Refused, Panicked
<1>2. PICK l, w, again : Accepted(f, l) /\ b = Built(Normalized(f, w, l, again))
  BY <1>1 DEF Build, BuildRoutes
<1>3. b.cfg = Normalized(f, w, l, again)
  BY <1>2 DEF Built
<1> DEFINE gs == [g \in DOMAIN f.groups |->
                    [name |-> Trim(g), addresses |-> l[g],
                     interval |-> Interval(f, g), timeout |-> Timeout(f, g),
                     path |-> Path(f, g)]]
<1>4. b.cfg.groups = gs
  BY <1>3 DEF Normalized
<1>5. \A g \in DOMAIN f.groups : Timeout(f, g) <= Interval(f, g)
  BY <1>2 DEF Accepted
<1>6. \A g \in DOMAIN f.groups : 0 < Timeout(f, g)
  <2> SUFFICES ASSUME NEW g \in DOMAIN f.groups PROVE 0 < Timeout(f, g)
    OBVIOUS
  <2>1. Timeout(f, g) \in 1..(HalfRange - 1)
    BY TimeoutPositive
  <2> QED
    BY <2>1, DurationAssumption
<1> QED
  BY <1>4, <1>5, <1>6 DEF Usable

AllUsable == \A n \in 1..Newest : Usable(cfgs[n])

LEMMA NextKeepsUsable ==
  ASSUME TimeoutsFit
  PROVE  RuntimeInv /\ AllUsable /\ [Next]_vars => AllUsable'
<1> SUFFICES ASSUME RuntimeInv, AllUsable, [Next]_vars PROVE AllUsable'
  OBVIOUS
<1>1. ASSUME UNCHANGED cfgs PROVE AllUsable'
  BY <1>1 DEF AllUsable, Newest
<1>2. ASSUME NEW reason, Leave(reason) PROVE AllUsable'
  <2>1. cfgs' = <<>> /\ Newest' = 0
    BY <1>2 DEF Leave, Newest
  <2> QED
    BY <2>1 DEF AllUsable
<1>3. ASSUME NEW f \in Files, Boot(f) PROVE AllUsable'
  <2>1. PICK b \in Build(f) : IF b.err = "none" THEN Booted(b.cfg) ELSE Leave(b.err)
    BY <1>3 DEF Boot
  <2>2. CASE b.err # "none"
    BY <2>1, <2>2, <1>2
  <2>3. CASE b.err = "none"
    <3>1. cfgs' = <<b.cfg>> /\ Usable(b.cfg)
      BY <2>1, <2>3, BuildIsUsable DEF Booted
    <3>2. Newest' = 1 /\ cfgs'[1] = b.cfg
      BY <3>1 DEF Newest
    <3> QED
      BY <3>1, <3>2 DEF AllUsable
  <2> QED
    BY <2>2, <2>3
<1>4. ASSUME NEW f \in Files, Load(f) PROVE AllUsable'
  <2>1. PICK b \in Build(f) :
          \/ b.err = "none" /\ Reloaded(b.cfg)
          \/ b.err = "config error" /\ UNCHANGED <<exit, reloadVars, started, sigCh, workVars>>
          \/ b.err = "panic" /\ Leave("panic")
    <3>1. PICK b \in Build(f) :
            CASE b.err = "none" -> Reloaded(b.cfg)
              [] b.err = "config error" ->
                   mainPc' = "select" /\ UNCHANGED <<exit, reloadVars, started, sigCh, workVars>>
              [] b.err = "panic" -> Leave("panic")
      BY <1>4 DEF Load
    <3>2. b.err \in {"none", "config error", "panic"}
      BY BuildGivesConfig
    <3> QED
      BY <3>1, <3>2
  <2>2. CASE b.err = "none" /\ Reloaded(b.cfg)
    <3> DEFINE c == b.cfg
    <3>1. cfgs' = Append(cfgs, c) /\ Usable(c) /\ c \in Configs
      BY <2>2, BuildIsUsable, BuildGivesConfig DEF Reloaded
    <3>2. cfgs \in Seq(Configs)
      BY DEF RuntimeInv, CheckerInv
    <3> HIDE DEF c
    <3>3. /\ Newest \in Nat /\ Newest' = Newest + 1 /\ cfgs'[Newest + 1] = c
          /\ \A n \in 1..Newest : cfgs'[n] = cfgs[n]
      BY <3>1, <3>2 DEF Newest
    <3>4. ASSUME NEW n \in 1..(Newest + 1) PROVE Usable(cfgs'[n])
      <4>1. CASE n = Newest + 1
        BY <3>1, <3>3, <4>1, Zenon
      <4>2. CASE n # Newest + 1
        <5>1. n \in 1..Newest
          BY <3>3, <4>2
        <5>2. Usable(cfgs[n])
          BY <5>1 DEF AllUsable
        <5> QED
          BY <3>3, <5>1, <5>2, Zenon
      <4> QED
        BY <4>1, <4>2
    <3>5. \A n \in 1..Newest' : Usable(cfgs'[n])
      BY <3>3, <3>4, Zenon
    <3> QED
      BY <3>5, Zenon DEF AllUsable
  <2> QED
    BY <1>1, <1>2, <2>1, <2>2 DEF reloadVars
<1>5. CASE Exit \/ ServeFailed \/ MetricsServeFailed
  BY <1>2, <1>5 DEF Exit, ServeFailed, MetricsServeFailed
<1>6. CASE TakeSignal \/ TakeRequest \/ Swap \/ CancelOld \/ Stop
  BY <1>1, <1>6 DEF TakeSignal, TakeRequest, Swap, CancelOld, CancelStep, Stop, reloadVars
<1>7. ASSUME NEW w \in DOMAIN work, WorkerLoop(w) \/ Tick(w) \/ Done(w) PROVE AllUsable'
  <2>1. UNCHANGED mainVars
    BY <1>7 DEF WorkerLoop, Probe, Report, Tick, Done, WorkerFrame
  <2> QED
    BY <1>1, <2>1 DEF mainVars, reloadVars
<1>8. CASE Notify("HUP") \/ Notify("TERM") \/ Gone \/ UNCHANGED vars
  <2>1. UNCHANGED mainVars
    BY <1>8 DEF Notify, Gone, vars
  <2> QED
    BY <1>1, <2>1 DEF mainVars, reloadVars
<1>9. ASSUME NEW a \in Addresses, ChangeHealth(a) PROVE AllUsable'
  BY <1>1, <1>9 DEF ChangeHealth, mainVars, reloadVars
<1> QED
  BY <1>3, <1>4, <1>5, <1>6, <1>7, <1>8, <1>9 DEF Next

(* If no timeout in a file is too large for a time.Duration, then every    *)
(* group that a checker is started for has a positive timeout that is at   *)
(* most its interval, however large or small, set or unset, its interval   *)
(* is: time.NewTicker does not panic.                                      *)
THEOREM TickersAreUsable ==
  ASSUME TimeoutsFit
  PROVE  Spec => []UsableDurations
<1>1. Spec => []RuntimeInv
  BY InitRuntimeInv, NextKeepsInv, PTL DEF Spec
<1>2. Init => AllUsable
  <2> SUFFICES ASSUME Init PROVE AllUsable
    OBVIOUS
  <2>1. Newest = 0
    BY DEF Init, Newest
  <2> QED
    BY <2>1 DEF AllUsable
<1>3. RuntimeInv /\ AllUsable /\ [Next]_vars => AllUsable'
  BY NextKeepsUsable
<1>4. AllUsable => UsableDurations
  BY DEF AllUsable, Usable, UsableDurations
<1> QED
  BY <1>1, <1>2, <1>3, <1>4, PTL DEF Spec
=============================================================================
