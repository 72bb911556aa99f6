# A TLA+ model of ZeroSock

ZeroSock is a SOCKS5 gateway in Go: clients ask for a host name or an IPv4
address, ZeroSock picks a live backend of the route that the YAML config lists
for it, dials it and relays bytes. Everything that is not listed is denied.
This directory models the program, checks it with TLC and proves parts
of it with TLAPS. All paths below are relative to the repository (`src/`).

## 1. The system

| Component | State | Operations | Module |
|---|---|---|---|
| Router, `internal/router/pool.go` | immutable maps host → pool and address → host; per pool a ticket counter, per backend an alive flag (atomics) | `New`, `HostForBackendAddr`, `Pick`, `SetBackendAlive` | Router |
| SOCKS server and sessions, `internal/socks/server.go`, `handler.go` | listener, two semaphores (connections, dials in flight), WaitGroup, atomic router pointer, per session the locals of `handleConnection` | `Serve`, `serveClient`, `handleConnection`, `DialRoute`, `relay`, `UpdateRouter`, `Shutdown`, `Wait` | Server |
| SOCKS5 wire protocol, `internal/socks/protocol.go` | the bytes read so far, the request | `handleHandshake`, `readRequest`, replies | Socks5 (bytes), Server (outcome) |
| Process, `cmd/zerosock/main.go` | reload request channel (capacity 4), signal channel (capacity 2), server error channel | `run`: start, select loop, shutdown | Runtime; Server (drain), Discovery (requests) |
| Hot reload, `cmd/zerosock/reload.go` | running config, cancel function of the health checker | `reload`, `applyReloadPolicy` | Runtime, Config; Server (sessions across the swap) |
| Auto-discovery, `cmd/zerosock/discovery.go` | map of keys being discovered | `Discover`, `resolve` | Discovery |
| Configuration, `internal/config/config.go` | the YAML file | `Load`, `LoadRaw`, `Save`, `AddAutoDiscoveredRoute`, validation | Config (normalisation), Discovery (the file) |
| Health checker, `internal/health/checker.go` | one worker per group and address; flags in its own router, a gauge shared by all checkers | `New`, `Start`, probe, report, ticker | Runtime; Router (its effect on picks) |
| Metrics, `internal/metrics` | counters and gauges | increments, rendering | Server (the counters of a connection's life), Runtime (gauge of backends, failing exporter) |
| Load generators, `scripts/`, `loadtest/` | – | – | not modelled |

How they interact. The accept loop starts one goroutine per client. A session
reads the router through an atomic pointer, so a reload can come between any
two of its reads. Health workers store alive flags while sessions load them.
A session that asks for an unknown host runs `Discover` itself: it rewrites the
config file and sends a reload request to the main loop, then waits for the
answer and routes again. The main loop serves signals, reload requests and
the end of `Serve`. On SIGTERM it closes the listener and waits for sessions.
A reload builds a new router with a new health checker, swaps the router and
then cancels the old checker, whose workers may still be in a probe.

What is hard, and which property looks at it (the full list, line by line, is
`hazards` in PROJECT.json):

* lock-free reads: `Pick` against `SetBackendAlive` (NoAliveIsExhaustive,
  NoStarvation), two router reads of one request against a reload (Whitelisted);
* resources taken by one goroutine and returned by deferred calls of another,
  on every error path (Accounting, WithinLimits, MetricsBalance);
* shutdown racing with accept (DrainIsComplete);
* a file rewritten by several sessions and the operator without a lock, and
  emptied before it is written (RunningKeepsBase), with group names that may
  collide (RouteLeadsToItsHost);
* sessions waiting for the main loop (DiscoverEnds, ClientsAreServed);
* two generations of health workers around a reload, one shared gauge
  (ServedIsProbed, OneChecker, FlagIsLastVerdict, HealthSettles);
* a bounded signal channel behind slow reloads (QueuedStopStops);
* optional settings with two levels of defaults and wrapping arithmetic
  (UsableDurations), held back over many reloads (ConfigIsTrue);
* a parser on a stream that comes in pieces and goes on after the request
  (ReadsWhatWasWritten, CompleteIsRead, RepliesAreTrue).

## 2. Modules

**Router** (with MCRouter). One action per atomic access: `PickStart` /
`PickByAddr` draw a ticket, `PickLoad` is one iteration of the loop of `Pick`,
`SetBackendAlive` one store. `Init` lets `backendToHost` be the owner map of
any iteration order of the Go map. The ticket counter is taken modulo `Wrap`
(2^64 in the code); the assumption that `Wrap` is a multiple of every pool size
is exact for pools of 2^k backends, and for other sizes says that the counter
has not yet overflowed. `asked`, `seenDead` and `reported` are
history variables. Host names are normalised already.

**Server** (with MCServer). The process (`mainPc`, `exit`), the accept loop
(`listener`, `servePc`), and for each connection its place `pc` in
`handleConnection` and in the deferred calls of `serveClient`. The
semaphores, the WaitGroup, the gauge and the router pointer are each accessed in
a step of their own, with one exception: `Admit` takes the connection slot and
raises the gauge and the first counter in one step, as the accept loop does all
three before any other goroutine can see the client. Negotiation, dial, reply
and copy are one step each that may fail. Of the counters only those of
MetricsBalance are there: `IncRequest`, which counts a session that discovers
its host twice, is not, and neither are the failure counters by route. `tables` is the sequence of tables that routers were built from, the last
one current; a router is seen through what Router shows of it: the owner of an
address lists it, and a pick yields a backend of the route or "no alive
backends". A limit of 0 means no semaphore; the counters `slots` and `dials`
then count what would be held. `accGen`, `pickGen`, `late` are history. The
copy error "use of closed network connection" is left out of `CopyResults`: no
code closes either socket while both copies run.

**Gateway** is the abstract specification of Server: clients wait, are let in
or turned away, are granted at most one pair of route and address that the
policy of that moment allows, and leave; the number inside is limited. `Server`
implements it under the mapping at its end (`ImplementsGateway`).

**Discovery** (with MCDiscovery). Sessions inside `Discover`, the config file,
the request channel and the main loop. A config is whether it parses, whether
the operator's sections (with the required `server.listen_addr`) are in it, and
the maps of groups and routes. `Save` is two steps, since `os.WriteFile`
truncates and then writes. A reader sees the file before, empty or after. A
write that fails may have written nothing, a part, or (when only closing fails)
everything; and if another session has written since the file was emptied, the
end of its text can show behind a shorter one. Such a text need not be garbled:
YAML has `server` first and `backends` and `routes` last, with sorted keys, so a
text cut between two entries parses, and may be valid (`CutShort`, `Overlaid`;
`Place` is the place of a key in that order). `whole` is a history field of a
config, FALSE for these texts and for whatever is made from them. `Flat` and `Numbered` are the two name constructions of
`AddAutoDiscoveredRoute`; MCDiscovery gives them the values the code computes
for the hosts it uses. The operator (external) adds a route, or repairs a
file that is not valid by starting from the original.

**Config** has no state: `Accepted` and `Normalized` are
`normalizeAndValidate`, field by field, and `applyReloadPolicy` is the function
of that name. Strings are opaque; trimming, host normalisation, the leading
slash and DNS are CONSTANT operators. A listen address only has to resolve
(`Listenable`, 0.0.0.0 does); a backend must also have a concrete IP (`Unusable`). `NormalizeHost` stands for one or more
applications (config, router and session each apply it), so it must be
idempotent on the hosts used. Each address has a set of possible lookups, and
the code looks it up twice: `lookup` is what the checker gets, `again` what the
routes get. Durations wrap at `HalfRange` as int64 does. Which of several route
keys for one host wins depends on the order of a Go map (`Winners`).

**Runtime** (with MCRuntime) is `run` with its signal channel, `reload`, and the
health checkers. `Boot` and `Load` read what the file holds at that moment (any
member of `Files`). A reload is three steps: `Load` (build and start the new
checker), `Swap`, `CancelOld`, since sessions and workers run in between. Worker
`<<n, g, i>>` belongs to the checker of router n; it probes, reports host by
host, then waits for its ticker or its context. Report stores the shared gauge
and the flag in the worker's own router. `cfgs[n]` is what router n was built
from; `started` is history. When the process exits its memory is gone (`Leave`).
Backends (external) are down, accept TCP only, or answer 200.

**Socks5** (with MCSocks5). One action per `io.ReadFull` of `handleHandshake`
and `readRequest`, over a stream of which any prefix has arrived; the client may
close, and any read may time out. The replies are written as bytes. The
outcomes are those of Server.Negotiate; `Answer` is the reply that
`handleConnection` gives after routing.

**RouterProofs**, **ServerProofs**, **DiscoveryProofs**, **RuntimeProofs**,
**HealthProofs** (on top of RuntimeProofs) and **Socks5Proofs** hold the
theorems (section 4).

Definitions marked "faulty" are plausible bugs in the definition that follows
them. They are not used by the specification; each property of a passing run
has one that violates it (PROJECT.json, `mutants`).

## 3. What TLC checks

Passing runs:

| Run | Instance | Shows |
|---|---|---|
| router | 2 pickers, routes of 2 and 1 backends that share an address, a host and an address without a route, `Wrap` 4 | types (the index is inside the pool), NoAliveIsExhaustive, AddressStaysInItsRoute for every map order, DeadLeavesRotation (an address may be dead for one route and alive for the other), NoStarvation |
| server | 2 clients, 2 tables, one reload, discovery, 2 connections, 1 dial | Accounting, Whitelisted, MetricsBalance, WithinLimits (dials), DrainIsComplete, refinement of Gateway |
| server_live | 3 clients, 1 connection, discovery | WithinLimits (connections), ClientsAreServed |
| discovery | 2 sessions that ask for one name on two ports, operator who adds a route for the same name, failing and overlapping writes, channel of 1 | OneDiscoveryPerKey, RunningKeepsBase, DiscoverEnds |
| runtime | one backend address, hosts a and b sharing a group, four files (TCP check; HTTP check with other settings; a route to no group; an interval that wraps), 2 routers, signal channel of 2 | ServedIsProbed, OneChecker, FlagIsLastVerdict, ConfigIsTrue, UsableDurations, HealthSettles, QueuedStopStops |
| socks5 | 720 streams: 6 greetings, 4 headers, 5 hosts, 3 ports, with and without data after the request | ReadsWhatWasWritten, CompleteIsRead, RepliesAreTrue |

Runs that show a disagreement (each is a finding in PROJECT.json):

| Run | Disagreement |
|---|---|
| server_drain | "all active tunnels finished" while a session accepted at the last moment runs: `wg.Add` comes after `Accept`, and `Shutdown` before the listener is stored closes nothing |
| discovery_lost | two concurrent discoveries overwrite one another; the loser is told that its route was added, and is denied |
| discovery_wipe | a session that reads the file while another has emptied it saves a config without the operator's sections |
| discovery_names | a.b, a.b.3 and a-b discovered one after the other: the numbered group name of a-b is that of a.b.3, which then leads to the addresses of a-b |
| runtime_revive | a reload revives a host whose backends are all dead, before any probe: a new router starts with every backend alive |
| runtime_dns | a backend given by name is accepted and looked up twice: the address that is routed may not be the one that is probed; if the second lookup fails, the process panics |

More facts that no run states. An IPv4 request reads the router twice, so a
reload in between can give it a backend of a route that has just lost the
address (Server; Whitelisted still holds, as it does not tie the route to the
request). An IP literal sent as a name is stored under `ip:port` and looked up
as `ip` (Discovery; AddedIsServed fails with such a request). A group may list
an address twice; SetBackendAlive reaches the first entry only, and the second
one stays in rotation when the address is dead (Router; README.md line 13 says
that dead upstreams are removed). A text cut short inside `routes` may be valid
without some initial routes, and the next reload takes it over (Discovery;
RunningKeepsBase without `running.whole` fails).

**Bounds.** Two actors suffice for every race shown here. Three clients in
server_live let one be turned away while one is served and a third waits.
`MaxReloads` is 1: a session reads the router at most twice per attempt, and one
change between two reads is what can go wrong. `Wrap` is small so that the
counter wraps. The channel has capacity 1 with two senders, so that it is full.
`TearsAgain` is FALSE: no text is torn while
another torn one, or a config made from it, is still in the file, in a draft or
running; one torn text shows what it can do, and the theorems have no such
bound. Two ports of one name make two keys and one route, which keeps the torn
texts few; names that collide and IPv4 discoveries are in the runs
discovery_lost and discovery_names. Each client connects once. Clients are symmetric in the run server, whose
properties are all safety. In the runs discovery_lost, discovery_wipe and discovery_names the
operator stays away, so that the violation is the sessions' own doing; deadlock
is not checked there, because after `Stop` a session that waits for a reload
stays where it is, which is what the code does until the process exits.

Runtime: `MaxRouters` is 2, one reload that succeeds, with any number that
fail: what can go wrong is between two neighbouring generations, and
OneChecker and ConfigIsTrue are proved for any number (section 4). `SigCap` is 2, as
in the code, so that a third signal is lost. A duration is in -64..63 and a
millisecond is 2, so that a file can wrap. In the passing run addresses are
literals, groups list an address once, and no timeout wraps: runtime_dns shows
what names do, and a timeout and an interval that both wrap below zero are
accepted and make `time.NewTicker` panic. Socks5: names of one and two bytes,
lists of one to three methods, so that every part may be missing its last byte;
the bytes that matter to a branch all occur, with one other value each.

**Fairness.** Router: a goroutine in the loop of `Pick` never blocks, so it is
scheduled. Server: all waits of a session have deadlines and semaphores are
tried, not awaited; `Discover` waits for the main loop and is fair only while
that runs; a signal, a client or a failing Accept may never come. Discovery:
lookups and file operations end; a Go channel serves blocked senders in order
(strong fairness of `Send`); the main loop goes on taking requests as its
`select` chooses among ready cases at random. Runtime: the main goroutine
never blocks outside its selects; because a select chooses at random, a queued
signal is taken although requests are ready again and again (strong fairness of
`TakeSignal`), and a cancelled worker stops although its ticker fires too
(`Done`); probes have timeouts and tickers fire. Signals, requests, edits and
failures may never come. Socks5 has no liveness property: a silent client is
cut off by the read deadline, which is Server's `Negotiate`.

## 4. What TLAPS proves

Every invariant of the passing runs, RouteLeadsToItsHost under a hypothesis on
the names, and the refinement, for every value of the
constants that satisfies the named assumptions, which TLC evaluates on each run:
RoutesAssumption, WrapAssumption, ErrorsAreNotAddresses of Router;
ConfigsAssumption, LimitsAssumption (finitely many connections; a limit is a
natural number), RequestsAssumption of Server; BaseAssumption, QueueAssumption
of Discovery; DurationAssumption of Config; RuntimeAssumption and TrimAssumption
(trimming twice is trimming once) of Runtime; BytesAssumption of Socks5. Each
theorem is Init => Inv, Inv /\ [Next]_vars => Inv' and Inv => the property, for
an inductive invariant Inv; TLC checked the new ones on the run's instance
before they were proved.

Router:

* **RouterTypeCorrect, PickIsExhaustive, AddressRouting.** The inductive
  invariant `RouterInv` adds that while `Pick` scans, `seenDead` is the set of
  indices it has probed so far (`SeenSoFar`), that owners list their address,
  and that an IPv4 request scans a pool with its address. Without `SeenSoFar`
  exhaustiveness is not inductive: that n consecutive tickets modulo n visit
  every index is the arithmetic of ModUnique, WrapInvisible and ModCover.
* **DeadAddressesLeave**, for any routes. FirstWithIsThere shows that the loop of
  SetBackendAlive ends at an entry with the address (the least index exists by
  WFMin); what is stored there changes no other address and no other route.

Server, for any finite set of clients, any limits, tables and number of reloads:

* **ServerTypeCorrect, CountersAreExact, MetricsAreExact.** The lemma
  CountFollows says how the number of sessions in a set of stages changes when
  one session moves; with it each action is a comparison of the counters it
  touches with the sets of stages it crosses (`CountInv`). That counters are
  natural numbers is a consequence of Accounting, not of any guard in the code.
* **LimitsHold.** `LimitInv` bounds the semaphores; the limits on sessions and
  dials follow because every handled session holds a slot.
* **OnlyListedBackends.** `RouteInv` adds that only a session between Pick and
  its end has a backend, and that the table it began under is not newer than the
  current one; tables are only appended, so what was listed stays listed in its
  generation.
* **DrainsBeforeExit.** `DrainInv` says what may still be in the accept loop's
  hands after Shutdown (at most one connection, if the listener was closed) and
  that once Wait has seen zero only sessions counted later are in the WaitGroup.
* **ServerImplementsGateway**: InitMaps and StepMaps. Each action of Server is
  mapped to the Gateway action it implements or to a stutter; ServerInv supplies
  the limit, the emptiness of a grant before Pick and the table of the moment.

Discovery:

* **DiscoveryTypeCorrect, DiscoveriesAreExclusive.** `KeyInv` adds that a
  session that is not idle has a request, and states the map element by element.
* **RunningConfigKeepsBase**, under `BaseNamesReserved`: the operator's additions
  do not replace initial entries, and `NumbersFree` holds of the initial groups:
  where one of them is the group name of a host that is asked for with a number,
  the number is below the number of groups. The repository's config.yaml
  satisfies it (dns-8 and dns-1 are not group names of hosts, which begin with
  auto-), and so does every file that discovery extended before a restart.
  `BaseInv` says that every config anywhere (file, drafts, running) is torn, or
  cannot be accepted, or has all of the initial routes with their groups. The
  reasons it is inductive: an emptied file has no `listen_addr`, and nothing a
  session adds gives it one; a config with the initial groups has at least as
  many groups, so a number taken from their count is not an initial one.
  WriteOutcomes says what a write can leave: the file as it was, the draft, a
  text that does not parse, or a torn one.
* **DiscoveredRoutesLeadHome**, under `NamesApart`: NumbersFree of the initial
  groups, no requested host has the group name of another one with a number,
  the number can be read off such a name, and the operator's group is none of
  these. `LedInv` says of every config that is not torn that the numbers in its
  group names are smaller than the count of its groups, so that the name built
  from the count, which the code does not look up, is free. Names that end in a
  number are covered (auto-1-2-3-4-443 as long as nobody asks for a name whose
  group is auto-1-2-3-4). The run discovery_names shows that the hypothesis is
  needed.

Runtime:

* **RuntimeTypeCorrect.** Workers exist exactly for the groups and addresses
  that the checkers were started with, and whatever they report names a backend
  of their own router.
* **ReloadsLeakNoChecker, ReloadsKeepConfigTrue**, for any number of reloads.
  `CheckerInv` says for each place of the main goroutine
  which checkers are cancelled and which one `r.checkerCancel` stops; without
  the places in the middle of a reload OneChecker is not inductive. `ConfigInv`
  adds that all configs are records as `Normalized` returns them, so that
  `applyReloadPolicy` changes the settings only.
* **TickersAreUsable**, under `TimeoutsFit` (no timeout in a file overflows) and
  DurationAssumption. `durationFromMS` then yields a positive timeout from each
  of the three levels, and the comparison that follows refuses an interval that
  is smaller, overflowing ones included. If a timeout overflows too the
  conclusion fails: both may be negative.
* **ServedBackendsAreProbed**, under `LookupsAgree` (no backend is a name with
  several addresses; runtime_dns shows that it is needed). ConfigsAreProbed
  proves of `Normalized` that each route has the addresses of a group that
  lists its host; `WorkInv` adds that a worker stops only when its checker is
  cancelled, and RuntimeInv that the checker of the current router is not.
* **FlagsAreLastVerdicts**, under LookupsAgree, `NamesDiffer` and
  `AddressesDiffer` (group names differ by more than blanks, a group lists an
  address once). `VerdictInv` says of a worker that reports which of its hosts
  have been told; ConfigsAreSeparate proves that two workers never share a flag.

Socks5, for any streams of bytes and any segmentation:

* **SocksTypeCorrect, ReadingInvertsWriting, CompleteRequestsAreRead,
  AnswersAreTrue.** `ParseInv` says for each stage where the parser stands and
  what the bytes before it are, `ErrInv` why it failed, `OutInv` what it has
  written. `Complete(s, L)` is HasRequest byte by byte (HasRequestIsComplete);
  CompleteIsReady shows that at each stage a complete negotiation has the bytes
  the next read asks for. The encoding is put together again from adjacent
  slices of the stream (HeadIsEncoded, HostIsEncoded).

Only model-checked: liveness (NoStarvation, ClientsAreServed, DiscoverEnds,
HealthSettles, QueuedStopStops), since the prover does not do fairness. The
violations are TLC's too.

## 5. Not modelled

* Rendering of metrics to Prometheus text and the latency sums: formatting, and
  statistics that nothing in the program reads.
* The YAML library, DNS and TCP themselves: a file is its parsed fields, a
  lookup a choice from a set, a stream a sequence of bytes.
* Logging, command line flags, `validateConfig` (it loads and prints), `Snapshot`
  (used by tests only), and the load test scripts.

## 6. Plan

1. Proofs: action properties of the steps that carry these invariants (what a
   reload, a refusal or a report may never change), and lemmas on Config's
   `Normalized` that restate its validation.
2. Compositions: Server with Router in place of the tables; Runtime with
   Discovery in place of `TakeRequest`.
