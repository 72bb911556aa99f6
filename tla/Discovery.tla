----------------------------- MODULE Discovery ------------------------------
(***************************************************************************)
(* Auto-discovery: the sessions that call Discover (discovery.go), the     *)
(* config file they read and rewrite (LoadRaw, AddAutoDiscoveredRoute and  *)
(* Save of config.go), and the main loop that serves their reload requests *)
(* (main.go, reload.go).  The file is shared without a lock, by sessions   *)
(* that discover different hosts and by the operator.                      *)
(***************************************************************************)
EXTENDS Integers, Sequences, FiniteSets

CONSTANTS
  Sessions,        \* session goroutines
  Requests,        \* what clients ask for: [atyp, host, port]
  Literals,        \* hosts that are IP addresses in text form
  DNS,             \* host name -> set of IPv4 addresses
  Base,            \* the config file at the start
  OperatorHosts,   \* route keys the operator may add, none if he stays away, ...
  OperatorGroup,   \* ... all for this group, ...
  OperatorAddrs,   \* ... with these addresses
  Flat(_),         \* route key -> group name ("auto-", dots and colons to dashes)
  Numbered(_, _),  \* group name, number -> group name with that suffix
  Place(_),        \* place of a group or route key among the sorted keys of its map
  QueueCap,        \* capacity of reloadRequestCh (4 in the code)
  TearsAgain       \* bound: may a text be torn while another torn one is about?

(***************************************************************************)
(* A config as Discover sees it: whether the text is YAML at all, whether  *)
(* the operator's sections are there (server.listen_addr is required), the *)
(* groups and the routes.  An empty file parses, to an empty config.       *)
(* "whole" is history: FALSE for a text that a write has cut short or      *)
(* mixed with another, and for everything that was made from such a text.  *)
(***************************************************************************)
Nothing == [parses |-> TRUE, server |-> FALSE, whole |-> TRUE,
            groups |-> <<>>, routes |-> <<>>]
Garbled == [Nothing EXCEPT !.parses = FALSE]

IsConfig(cfg) ==
  /\ cfg = [parses |-> cfg.parses, server |-> cfg.server, whole |-> cfg.whole,
            groups |-> cfg.groups, routes |-> cfg.routes]
  /\ cfg.parses \in BOOLEAN /\ cfg.server \in BOOLEAN /\ cfg.whole \in BOOLEAN

(* What Load, normalizeAndValidate and router.New insist on. *)
Valid(cfg) ==
  /\ cfg.parses /\ cfg.server
  /\ DOMAIN cfg.groups # {} /\ DOMAIN cfg.routes # {}
  /\ \A g \in DOMAIN cfg.groups : cfg.groups[g] # {}
  /\ \A h \in DOMAIN cfg.routes : cfg.routes[h] \in DOMAIN cfg.groups

ASSUME BaseAssumption == IsConfig(Base) /\ Valid(Base) /\ Base.whole
ASSUME QueueAssumption == QueueCap \in Nat \ {0} /\ TearsAgain \in BOOLEAN

VARIABLES
  file,          \* the config file
  running,       \* the config the current router was built from
  mainPc,        \* the select loop of run: "run" or "stopped"
  queue,         \* reloadRequestCh: sessions whose request is queued
  answer,        \* answer[s]: the channel a session waits on
  discovering,   \* keys being discovered, under d.mu
  pc,            \* where each session is
  req,           \* its request
  draft,         \* the config it is about to save
  result         \* how its last request ended

sessVars == <<pc, req, draft, result>>
vars == <<file, running, mainPc, queue, answer, discovering, sessVars>>

Inside == {"resolve", "load", "truncate", "write", "send", "await"}
NoReq == [atyp |-> "none", host |-> "none", port |-> 0]

(***************************************************************************)
(* A definition whose comment says "faulty" is not part of the             *)
(* specification: it is a bug this code could have had in the definition   *)
(* that follows it, kept to show that a property notices it.               *)
(***************************************************************************)
Init ==
  /\ file = Base /\ running = Base
  /\ mainPc = "run" /\ queue = <<>>
  /\ answer = [s \in Sessions |-> "none"]
  /\ discovering = {}
  /\ pc = [s \in Sessions |-> "idle"]
  /\ req = [s \in Sessions |-> NoReq]
  /\ draft = [s \in Sessions |-> Nothing]
  /\ result = [s \in Sessions |-> "none"]
-----------------------------------------------------------------------------
(* The key of the map of discoveries in progress: "host:port". *)
Key(r) == <<r.host, r.port>>

(* The route key Discover stores: an IP literal gets its port, a name not. *)
RouteHost(r) == IF r.host \in Literals THEN <<r.host, r.port>> ELSE <<r.host>>

(* resolve: an IP literal as it is, a name through DNS. *)
Resolved(r) == IF r.host \in Literals THEN {<<r.host, r.port>>}
               ELSE {<<ip, r.port>> : ip \in DNS[r.host]}

(* How handleConnection looks for the route of a request. *)
Routable(r, cfg) ==
  \/ r.atyp = "fqdn" /\ <<r.host>> \in DOMAIN cfg.routes
  \/ /\ r.atyp = "ipv4"
     /\ \E h \in DOMAIN cfg.routes : <<r.host, r.port>> \in cfg.groups[cfg.routes[h]]

With(f, x, y) == [z \in DOMAIN f \cup {x} |-> IF z = x THEN y ELSE f[z]]

(* The group of a new route: a name of its own, or a numbered one. *)
GroupName(cfg, k) ==
  IF Flat(k) \in DOMAIN cfg.groups
  THEN Numbered(Flat(k), Cardinality(DOMAIN cfg.groups)) ELSE Flat(k)

AddAutoDiscoveredRoute(cfg, k, addrs) ==
  LET g == GroupName(cfg, k)
  IN [cfg EXCEPT !.groups = With(cfg.groups, g, addrs), !.routes = With(cfg.routes, k, g)]
-----------------------------------------------------------------------------
Go(s, stage) == pc' = [pc EXCEPT ![s] = stage]

(* A client asks for something the router does not know. *)
Ask(s, r) ==
  /\ pc[s] = "idle" /\ ~Routable(r, running)
  /\ req' = [req EXCEPT ![s] = r]
  /\ result' = [result EXCEPT ![s] = "none"]
  /\ Go(s, "enter")
  /\ UNCHANGED <<file, running, mainPc, queue, answer, discovering, draft>>

(* The client is denied; the locals of the session are gone. *)
Deny(s) ==
  /\ Go(s, "idle")
  /\ req' = [req EXCEPT ![s] = NoReq]
  /\ draft' = [draft EXCEPT ![s] = Nothing]
  /\ result' = [result EXCEPT ![s] = "denied"]

(* The defer of Discover. *)
KeepKey(s) == discovering' = discovering   \* faulty: no defer
RemoveKey(s) == discovering' = discovering \ {Key(req[s])}

(* Discover returns false. *)
LeaveWithoutRoute(s) == RemoveKey(s) /\ Deny(s)

(* The first critical section of Discover. *)
Enter(s) ==
  /\ pc[s] = "enter"
  /\ \/ /\ Key(req[s]) \in discovering
        /\ Deny(s) /\ UNCHANGED discovering
     \/ /\ Key(req[s]) \notin discovering
        /\ discovering' = discovering \cup {Key(req[s])}
        /\ Go(s, "resolve") /\ UNCHANGED <<req, draft, result>>
  /\ UNCHANGED <<file, running, mainPc, queue, answer>>

(* resolve: fails, finds no IPv4 address, or succeeds. *)
Resolve(s) ==
  /\ pc[s] = "resolve"
  /\ \/ Resolved(req[s]) # {} /\ Go(s, "load") /\ UNCHANGED <<discovering, req, draft, result>>
     \/ LeaveWithoutRoute(s)
  /\ UNCHANGED <<file, running, mainPc, queue, answer>>

(* LoadRaw reads the file as it is at this moment; what it read is checked *)
(* and extended in memory.  Reading may also fail.                         *)
LoadAndAdd(s) ==
  LET k == RouteHost(req[s])
  IN /\ pc[s] = "load"
     /\ \/ /\ file.parses /\ k \notin DOMAIN file.routes
           /\ draft' = [draft EXCEPT ![s] =
                          AddAutoDiscoveredRoute(file, k, Resolved(req[s]))]
           /\ Go(s, "truncate") /\ UNCHANGED <<discovering, req, result>>
        \/ LeaveWithoutRoute(s)
     /\ UNCHANGED <<file, running, mainPc, queue, answer>>

(* os.WriteFile opens the file, which empties it, or fails to. *)
Truncate(s) ==
  /\ pc[s] = "truncate"
  /\ \/ file' = Nothing /\ Go(s, "write") /\ UNCHANGED <<discovering, req, draft, result>>
     \/ LeaveWithoutRoute(s) /\ UNCHANGED file
  /\ UNCHANGED <<running, mainPc, queue, answer>>

(***************************************************************************)
(* The texts that parse although nobody saved them: the beginning of one   *)
(* text, and behind it the end of the one it was written over, if any.     *)
(* Marshal writes the fields of Config in their order, server first and    *)
(* backends and routes last, and the keys of a map sorted.  So the cut is  *)
(* in the routes, after all groups, or in the groups, before all routes.   *)
(* A text in which a key comes twice does not parse.                       *)
(***************************************************************************)
Starts(f) ==
  {[x \in {y \in DOMAIN f : Place(y) < Place(k)} |-> f[x]] : k \in DOMAIN f} \cup {f}
Ends(f) ==
  {[x \in {y \in DOMAIN f : Place(y) >= Place(k)} |-> f[x]] : k \in DOMAIN f} \cup {<<>>}
Joined(starts, ends) ==
  {[x \in DOMAIN p[1] \cup DOMAIN p[2] |-> IF x \in DOMAIN p[1] THEN p[1][x] ELSE p[2][x]] :
     p \in {q \in starts \X ends : DOMAIN q[1] \cap DOMAIN q[2] = {}}}

Overlaid(new, old) ==
  {[new EXCEPT !.routes = rs] : rs \in Joined({new.routes}, Ends(old.routes))}
CutShort(new, old) ==
  {[new EXCEPT !.routes = rs] : rs \in Joined(Starts(new.routes), Ends(old.routes))}
    \cup {[new EXCEPT !.groups = gs, !.routes = old.routes] :
            gs \in Joined(Starts(new.groups), Ends(old.groups))}

NothingTorn == file.whole /\ running.whole /\ \A s \in Sessions : draft[s].whole
Torn(texts, new) ==
  {[t EXCEPT !.whole = FALSE] : t \in {u \in texts : u # new /\ (TearsAgain \/ NothingTorn)}}

(***************************************************************************)
(* ... and writes from the beginning.  If somebody else has written since  *)
(* it was emptied, the end of the longer text shows behind the shorter     *)
(* one.  A write that fails may have written nothing, a part or, when only *)
(* closing the file fails, everything.                                     *)
(***************************************************************************)
Write(s) ==
  /\ pc[s] = "write"
  /\ \/ /\ \/ file' = draft[s]
           \/ file # Nothing /\ file' \in {Garbled} \cup Torn(Overlaid(draft[s], file), draft[s])
        /\ draft' = [draft EXCEPT ![s] = Nothing]
        /\ Go(s, "send") /\ UNCHANGED <<discovering, req, result>>
     \/ /\ LeaveWithoutRoute(s)
        /\ file' \in {file, draft[s], Garbled} \cup Torn(CutShort(draft[s], file), draft[s])
  /\ UNCHANGED <<running, mainPc, queue, answer>>

SendWithoutBlocking(s) ==   \* faulty: a queue without a limit
  /\ pc[s] = "send"
  /\ queue' = Append(queue, s)
  /\ Go(s, "await")
  /\ UNCHANGED <<file, running, mainPc, answer, discovering, req, draft, result>>

(* reloadFn: reloadRequestCh <- ch; it blocks while the channel is full. *)
Send(s) ==
  /\ pc[s] = "send" /\ Len(queue) < QueueCap
  /\ queue' = Append(queue, s)
  /\ Go(s, "await")
  /\ UNCHANGED <<file, running, mainPc, answer, discovering, req, draft, result>>

(* reloadFn: <-ch.  Only a successful reload makes Discover return true. *)
Await(s) ==
  /\ pc[s] = "await" /\ answer[s] # "none"
  /\ answer' = [answer EXCEPT ![s] = "none"]
  /\ \/ /\ answer[s] = "ok"
        /\ RemoveKey(s)
        /\ Go(s, "retry") /\ UNCHANGED <<req, draft, result>>
     \/ answer[s] = "error" /\ LeaveWithoutRoute(s)
  /\ UNCHANGED <<file, running, mainPc, queue>>

(* The second attempt of handleConnection, with the router of now. *)
Retry(s) ==
  /\ pc[s] = "retry"
  /\ result' = [result EXCEPT ![s] =
                  IF Routable(req[s], running) THEN "served" ELSE "denied after add"]
  /\ Go(s, "idle")
  /\ req' = [req EXCEPT ![s] = NoReq]
  /\ UNCHANGED <<file, running, mainPc, queue, answer, discovering, draft>>
-----------------------------------------------------------------------------
(* state.reload: Load, validate, swap; or leave everything as it was. *)
AcceptedIfYaml == file.parses   \* faulty: the config is not validated
Accepted == Valid(file)
Reload == running' = IF Accepted THEN file ELSE running

ServeRequestSilently ==   \* faulty: a failed reload is not answered
  /\ mainPc = "run" /\ queue # <<>>
  /\ Reload
  /\ answer' = [answer EXCEPT ![Head(queue)] = IF Accepted THEN "ok" ELSE @]
  /\ queue' = Tail(queue)
  /\ UNCHANGED <<file, mainPc, discovering, sessVars>>

(* The main loop takes a request, reloads and answers. *)
ServeRequest ==
  /\ mainPc = "run" /\ queue # <<>>
  /\ Reload
  /\ answer' = [answer EXCEPT ![Head(queue)] = IF Accepted THEN "ok" ELSE "error"]
  /\ queue' = Tail(queue)
  /\ UNCHANGED <<file, mainPc, discovering, sessVars>>

Hangup ==
  /\ mainPc = "run" /\ Reload
  /\ UNCHANGED <<file, mainPc, queue, answer, discovering, sessVars>>

(* SIGTERM ends the loop; nobody serves reload requests any more. *)
Stop ==
  /\ mainPc = "run" /\ mainPc' = "stopped"
  /\ UNCHANGED <<file, running, queue, answer, discovering, sessVars>>

(* The operator adds a route, or repairs a file that has become useless. *)
OperatorEdit(h) ==
  LET old == IF Valid(file) THEN file ELSE Base
  IN /\ file' = [old EXCEPT !.groups = With(old.groups, OperatorGroup, OperatorAddrs),
                            !.routes = With(old.routes, h, OperatorGroup)]
     /\ UNCHANGED <<running, mainPc, queue, answer, discovering, sessVars>>

SessionStep(s) ==
  \/ Enter(s) \/ Resolve(s) \/ LoadAndAdd(s) \/ Truncate(s) \/ Write(s)
  \/ Send(s) \/ Await(s) \/ Retry(s)

Next ==
  \/ \E s \in Sessions : SessionStep(s) \/ \E r \in Requests : Ask(s, r)
  \/ ServeRequest \/ Hangup \/ Stop
  \/ \E h \in OperatorHosts : OperatorEdit(h)

(***************************************************************************)
(* DNS lookups and file operations end.  A Go channel serves its blocked   *)
(* senders first come first served, hence SF for Send.  The main loop,     *)
(* while it runs, goes on taking requests although signals compete with    *)
(* them in its select, which chooses among the ready cases at random.      *)
(***************************************************************************)
Fairness ==
  /\ \A s \in Sessions : WF_vars(SessionStep(s)) /\ SF_vars(Send(s))
  /\ WF_vars(ServeRequest)

Spec == Init /\ [][Next]_vars /\ Fairness
-----------------------------------------------------------------------------
TypeOK ==
  /\ IsConfig(file) /\ IsConfig(running)
  /\ DOMAIN draft = Sessions /\ \A s \in Sessions : IsConfig(draft[s])
  /\ mainPc \in {"run", "stopped"}
  /\ queue \in Seq(Sessions) /\ Len(queue) <= QueueCap
  /\ answer \in [Sessions -> {"none", "ok", "error"}]
  /\ pc \in [Sessions -> {"idle", "enter", "retry"} \cup Inside]
  /\ req \in [Sessions -> Requests \cup {NoReq}]
  /\ result \in [Sessions -> {"none", "denied", "served", "denied after add"}]
  /\ discovering \subseteq {Key(r) : r \in Requests}

(***************************************************************************)
(* The map of discoveries in progress is exact: it holds the keys of the   *)
(* sessions inside Discover, one session each.  A key that stayed behind   *)
(* would deny its host for ever.                                           *)
(***************************************************************************)
OneDiscoveryPerKey ==
  /\ discovering = {Key(req[s]) : s \in {t \in Sessions : pc[t] \in Inside}}
  /\ \A s, t \in Sessions :
       pc[s] \in Inside /\ pc[t] \in Inside /\ Key(req[s]) = Key(req[t]) => s = t

(***************************************************************************)
(* Whatever happens to the file, empty for a moment, garbled by two        *)
(* writers or rewritten from a stale copy: the running configuration is    *)
(* valid and still has every route and group the process started with.     *)
(* The second part is about configs that were saved as a whole: Save does  *)
(* not write to a temporary file, so a text cut inside "routes" may be     *)
(* valid, and the next reload takes it over.                               *)
(***************************************************************************)
RunningKeepsBase ==
  /\ Valid(running)
  /\ running.whole =>
       \A h \in DOMAIN Base.routes :
         /\ h \in DOMAIN running.routes
         /\ running.groups[running.routes[h]] = Base.groups[Base.routes[h]]

(***************************************************************************)
(* README.md on auto-discovery: it appends a new backend group and route.  *)
(* A discovered route leads to the addresses of its own host.  The code    *)
(* does not ensure it: when the group name of a host is taken, the name    *)
(* with a number that AddAutoDiscoveredRoute chooses instead may be taken  *)
(* as well, and the group of another host is overwritten.  It holds when   *)
(* no group name looks like another one with a number.                     *)
(***************************************************************************)
RouteLeadsToItsHost ==
  running.whole =>
    \A k \in DOMAIN running.routes \ (DOMAIN Base.routes \cup OperatorHosts) :
      running.groups[running.routes[k]]
        \in {Resolved(r) : r \in {q \in Requests : RouteHost(q) = k}}

(***************************************************************************)
(* README.md on auto-discovery: the host is added, the config reloaded and *)
(* the new route used.  If Discover reports a route as added, the request  *)
(* that waited for it is routed.                                           *)
(***************************************************************************)
AddedIsServed == \A s \in Sessions : result[s] # "denied after add"

(***************************************************************************)
(* README.md on auto-discovery: it appends a group and a route to the      *)
(* config file.  A config that is written back still has the sections the  *)
(* operator wrote.                                                         *)
(***************************************************************************)
OperatorSectionsKept ==
  file.parses /\ DOMAIN file.routes # {} => file.server

(***************************************************************************)
(* A session does not hang in Discover as long as the main loop runs: its  *)
(* reload request is taken, whether the reload succeeds or not, and        *)
(* answered, also when the request channel is full.                        *)
(***************************************************************************)
DiscoverEnds ==
  \A s \in Sessions : pc[s] \in Inside ~> (pc[s] \notin Inside \/ mainPc = "stopped")
=============================================================================
