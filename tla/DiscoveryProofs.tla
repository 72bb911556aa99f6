-------------------------- MODULE DiscoveryProofs ---------------------------
(***************************************************************************)
(* Proofs about Discovery, for any number of sessions, any requests, names *)
(* and configs, and any capacity of the request channel.                   *)
(***************************************************************************)
EXTENDS Discovery, FiniteSetTheorems, TLAPS

-----------------------------------------------------------------------------
(* The steps keep the types. *)

(* AddAutoDiscoveredRoute returns a config, whatever it is given. *)
LEMMA AddIsConfig ==
  ASSUME NEW cfg, IsConfig(cfg), NEW k, NEW addrs
  PROVE  LET new == AddAutoDiscoveredRoute(cfg, k, addrs)
             g == GroupName(cfg, k)
         IN /\ IsConfig(new)
            /\ new.parses = cfg.parses /\ new.server = cfg.server /\ new.whole = cfg.whole
            /\ new.groups = With(cfg.groups, g, addrs)
            /\ new.routes = With(cfg.routes, k, g)
<1> DEFINE g == GroupName(cfg, k)
           gs == With(cfg.groups, g, addrs)
           rs == With(cfg.routes, k, g)
           new == AddAutoDiscoveredRoute(cfg, k, addrs)
<1>1. new = [cfg EXCEPT !.groups = gs, !.routes = rs]
  BY DEF AddAutoDiscoveredRoute
<1> HIDE DEF g, gs, rs, new
<1>2. new = [parses |-> cfg.parses, server |-> cfg.server, whole |-> cfg.whole,
             groups |-> gs, routes |-> rs]
  BY <1>1 DEF IsConfig
<1>3. IsConfig(new) /\ new.parses = cfg.parses /\ new.server = cfg.server
        /\ new.whole = cfg.whole /\ new.groups = gs /\ new.routes = rs
  BY <1>2 DEF IsConfig
<1> QED
  BY <1>3 DEF g, gs, rs, new

LEMMA RecordIsConfig ==
  ASSUME NEW p \in BOOLEAN, NEW v \in BOOLEAN, NEW w \in BOOLEAN, NEW g, NEW r
  PROVE  IsConfig([parses |-> p, server |-> v, whole |-> w, groups |-> g, routes |-> r])
  BY DEF IsConfig

LEMMA ConstantConfigs ==
  /\ IsConfig(Nothing) /\ ~Nothing.server
  /\ IsConfig(Garbled) /\ ~Garbled.parses
  /\ Nothing.groups = <<>> /\ Nothing.routes = <<>>
  /\ Garbled.groups = <<>> /\ Garbled.routes = <<>>
<1>1. IsConfig(Nothing) /\ ~Nothing.server /\ Nothing.groups = <<>> /\ Nothing.routes = <<>>
  BY RecordIsConfig, Zenon DEF Nothing
<1>2. Garbled = [parses |-> FALSE, server |-> FALSE, whole |-> TRUE,
                 groups |-> <<>>, routes |-> <<>>]
  <2>1. PICK e : e = <<>>
    OBVIOUS
  <2>2. Garbled = [[parses |-> TRUE, server |-> FALSE, whole |-> TRUE,
                    groups |-> e, routes |-> e] EXCEPT !.parses = FALSE]
    BY <2>1, Zenon DEF Garbled, Nothing
  <2>3. Garbled = [parses |-> FALSE, server |-> FALSE, whole |-> TRUE, groups |-> e, routes |-> e]
    BY <2>2
  <2> QED
    BY <2>1, <2>3, Zenon
<1>3. IsConfig(Garbled) /\ ~Garbled.parses /\ Garbled.groups = <<>> /\ Garbled.routes = <<>>
  BY <1>2, RecordIsConfig, Zenon
<1> QED
  BY <1>1, <1>3

LEMMA OperatorIsConfig ==
  ASSUME NEW h, IsConfig(file), OperatorEdit(h)
  PROVE  LET old == IF Valid(file) THEN file ELSE Base
         IN /\ IsConfig(file') /\ file'.whole = old.whole
            /\ file'.groups = With(old.groups, OperatorGroup, OperatorAddrs)
            /\ file'.routes = With(old.routes, h, OperatorGroup)
<1> DEFINE old == IF Valid(file) THEN file ELSE Base
           gs == With(old.groups, OperatorGroup, OperatorAddrs)
           rs == With(old.routes, h, OperatorGroup)
<1>1. file' = [old EXCEPT !.groups = gs, !.routes = rs]
  BY DEF OperatorEdit
<1>2. IsConfig(old)
  BY BaseAssumption
<1> HIDE DEF old, gs, rs
<1>3. file' = [parses |-> old.parses, server |-> old.server, whole |-> old.whole,
               groups |-> gs, routes |-> rs]
  BY <1>1, <1>2 DEF IsConfig
<1>4. IsConfig(file') /\ file'.whole = old.whole /\ file'.groups = gs /\ file'.routes = rs
  BY <1>2, <1>3 DEF IsConfig
<1> QED
  BY <1>4 DEF old, gs, rs

(* What a write can leave in the file, as far as the proofs care. *)
LEMMA TornIsConfig ==
  ASSUME NEW cfg, IsConfig(cfg), NEW gs, NEW rs, NEW t,
         t = [[cfg EXCEPT !.groups = gs, !.routes = rs] EXCEPT !.whole = FALSE]
  PROVE  IsConfig(t) /\ ~t.whole
<1>1. t = [parses |-> cfg.parses, server |-> cfg.server, whole |-> FALSE,
           groups |-> gs, routes |-> rs]
  BY DEF IsConfig
<1> QED
  BY <1>1 DEF IsConfig

LEMMA TornTexts ==
  ASSUME NEW new, IsConfig(new), NEW old,
         NEW t \in Torn(Overlaid(new, old), new) \cup Torn(CutShort(new, old), new)
  PROVE  IsConfig(t) /\ ~t.whole
<1>1. PICK u \in Overlaid(new, old) \cup CutShort(new, old) : t = [u EXCEPT !.whole = FALSE]
  BY DEF Torn
<1>2. \/ \E rs : u = [new EXCEPT !.routes = rs]
      \/ \E gs, rs : u = [new EXCEPT !.groups = gs, !.routes = rs]
  BY <1>1, Zenon DEF Overlaid, CutShort
<1>3. \A rs : [new EXCEPT !.routes = rs] = [new EXCEPT !.groups = new.groups, !.routes = rs]
  BY DEF IsConfig
<1>4. PICK gs, rs : u = [new EXCEPT !.groups = gs, !.routes = rs]
  BY <1>2, <1>3
<1> QED
  BY <1>1, <1>4, TornIsConfig

LEMMA WriteOutcomes ==
  ASSUME NEW s, IsConfig(draft[s]), Write(s)
  PROVE  \/ file' \in {file, draft[s], Garbled}
         \/ IsConfig(file') /\ ~file'.whole
<1>1. \/ file' \in {file, draft[s], Garbled}
      \/ file' \in Torn(Overlaid(draft[s], file), draft[s])
      \/ file' \in Torn(CutShort(draft[s], file), draft[s])
  BY DEF Write
<1> QED
  BY <1>1, TornTexts

-----------------------------------------------------------------------------
(* The map of discoveries in progress. *)

(* Sessions with a request have one that a client may make. *)
ReqKnown == \A s \in Sessions : pc[s] # "idle" => req[s] \in Requests

(* OneDiscoveryPerKey, element by element. *)
KeysExact ==
  /\ \A x : x \in discovering <=> \E s \in Sessions : pc[s] \in Inside /\ x = Key(req[s])
  /\ \A s, t \in Sessions :
       pc[s] \in Inside /\ pc[t] \in Inside /\ Key(req[s]) = Key(req[t]) => s = t

LEMMA ExactIsOnePerKey == KeysExact => OneDiscoveryPerKey
  BY DEF KeysExact, OneDiscoveryPerKey

(* What the other sessions do not notice of a step of session s. *)
OnlyTouches(s) ==
  /\ \A t \in Sessions \ {s} : pc'[t] = pc[t] /\ req'[t] = req[t]

(* A session that stays inside, or outside, of Discover. *)
LEMMA StaySide ==
  ASSUME KeysExact, NEW s \in Sessions, OnlyTouches(s), UNCHANGED discovering,
         \/ pc[s] \in Inside /\ pc'[s] \in Inside /\ req'[s] = req[s]
         \/ pc[s] \notin Inside /\ pc'[s] \notin Inside
  PROVE  KeysExact'
  BY DEF KeysExact, OnlyTouches

(* A session that enters adds its key, which was not there. *)
LEMMA ComeIn ==
  ASSUME KeysExact, NEW s \in Sessions, OnlyTouches(s),
         pc[s] \notin Inside, pc'[s] \in Inside, req'[s] = req[s],
         Key(req[s]) \notin discovering,
         discovering' = discovering \cup {Key(req[s])}
  PROVE  KeysExact'
  BY DEF KeysExact, OnlyTouches

(* A session that leaves takes its key away, which is nobody else's. *)
LEMMA GoOut ==
  ASSUME KeysExact, NEW s \in Sessions, OnlyTouches(s),
         pc[s] \in Inside, pc'[s] \notin Inside, RemoveKey(s)
  PROVE  KeysExact'
  BY DEF KeysExact, OnlyTouches, RemoveKey

(* Type correctness and the exact map, together. *)
KeyInv == TypeOK /\ ReqKnown /\ KeysExact

LEMMA InsideFacts ==
  /\ "idle" \notin Inside /\ "enter" \notin Inside /\ "retry" \notin Inside
  /\ {"resolve", "load", "truncate", "write", "send", "await"} = Inside
  BY DEF Inside

LEMMA KeyInvInit == Init => KeyInv
<1> SUFFICES ASSUME Init PROVE KeyInv
  OBVIOUS
<1>1. TypeOK
  BY BaseAssumption, QueueAssumption, ConstantConfigs DEF Init, TypeOK
<1>2. ReqKnown
  BY DEF Init, ReqKnown
<1>3. KeysExact
  BY InsideFacts DEF Init, KeysExact
<1> QED
  BY <1>1, <1>2, <1>3 DEF KeyInv

(* The session variables after a step of s that moves it to a stage, with  *)
(* the same request or, outside, with none.                                *)
LEMMA SessionTypes ==
  ASSUME KeyInv, NEW s \in Sessions,
         NEW stage \in {"idle", "enter", "retry"} \cup Inside, Go(s, stage),
         \/ UNCHANGED req /\ pc[s] # "idle"
         \/ stage = "idle" /\ req' = [req EXCEPT ![s] = NoReq]
         \/ \E r \in Requests : req' = [req EXCEPT ![s] = r]
  PROVE  /\ pc' \in [Sessions -> {"idle", "enter", "retry"} \cup Inside]
         /\ req' \in [Sessions -> Requests \cup {NoReq}]
         /\ ReqKnown' /\ OnlyTouches(s) /\ pc'[s] = stage
<1>1. /\ pc \in [Sessions -> {"idle", "enter", "retry"} \cup Inside]
      /\ req \in [Sessions -> Requests \cup {NoReq}]
  BY DEF KeyInv, TypeOK
<1>2. pc' \in [Sessions -> {"idle", "enter", "retry"} \cup Inside] /\ pc'[s] = stage
  BY <1>1 DEF Go
<1>3. req' \in [Sessions -> Requests \cup {NoReq}]
  BY <1>1
<1>4. OnlyTouches(s)
  BY <1>1 DEF OnlyTouches, Go
<1>5. ReqKnown'
  <2> SUFFICES ASSUME NEW t \in Sessions, pc'[t] # "idle" PROVE req'[t] \in Requests
    BY DEF ReqKnown
  <2>1. CASE t # s
    BY <2>1, <1>4 DEF KeyInv, ReqKnown, OnlyTouches
  <2>2. CASE t = s
    BY <2>2, <1>1, <1>2 DEF KeyInv, ReqKnown
  <2> QED
    BY <2>1, <2>2
<1> QED
  BY <1>2, <1>3, <1>4, <1>5

(* TypeOK after a step, from what the step may have disturbed. *)
LEMMA TypesAgain ==
  ASSUME KeyInv, ReqKnown', KeysExact',
         IsConfig(file'), IsConfig(running'),
         DOMAIN draft' = Sessions, \A s \in Sessions : IsConfig(draft'[s]),
         mainPc' \in {"run", "stopped"},
         queue' \in Seq(Sessions), Len(queue') <= QueueCap,
         answer' \in [Sessions -> {"none", "ok", "error"}],
         pc' \in [Sessions -> {"idle", "enter", "retry"} \cup Inside],
         req' \in [Sessions -> Requests \cup {NoReq}],
         result' \in [Sessions -> {"none", "denied", "served", "denied after add"}]
  PROVE  KeyInv'
<1>1. discovering' \subseteq {Key(r) : r \in Requests}
  <2> SUFFICES ASSUME NEW x \in discovering' PROVE \E r \in Requests : x = Key(r)
    OBVIOUS
  <2>1. PICK s \in Sessions : pc'[s] \in Inside /\ x = Key(req'[s])
    BY DEF KeysExact
  <2>2. req'[s] \in Requests
    BY <2>1, InsideFacts DEF ReqKnown
  <2> QED
    BY <2>1, <2>2
<1>2. TypeOK'
  BY <1>1 DEF TypeOK
<1> QED
  BY <1>2 DEF KeyInv

(* A session is denied: with its key removed if it was inside. *)
LEMMA DenyInv ==
  ASSUME KeyInv, NEW s \in Sessions, pc[s] # "idle", Deny(s),
         \/ pc[s] \in Inside /\ RemoveKey(s)
         \/ pc[s] \notin Inside /\ UNCHANGED discovering,
         IsConfig(file'), UNCHANGED <<running, mainPc, queue>>,
         answer' \in [Sessions -> {"none", "ok", "error"}]
  PROVE  KeyInv'
<1>1. Go(s, "idle") /\ req' = [req EXCEPT ![s] = NoReq]
  BY DEF Deny
<1>2. /\ pc' \in [Sessions -> {"idle", "enter", "retry"} \cup Inside]
      /\ req' \in [Sessions -> Requests \cup {NoReq}]
      /\ ReqKnown' /\ OnlyTouches(s) /\ pc'[s] = "idle"
  BY <1>1, SessionTypes
<1>3. KeysExact'
  BY <1>2, InsideFacts, StaySide, GoOut DEF KeyInv
<1>4. DOMAIN draft' = Sessions /\ \A t \in Sessions : IsConfig(draft'[t])
  <2>1. DOMAIN draft = Sessions /\ draft' = [draft EXCEPT ![s] = Nothing]
    BY DEF KeyInv, TypeOK, Deny
  <2>2. \A t \in Sessions : draft'[t] = draft[t] \/ draft'[t] = Nothing
    BY <2>1
  <2> QED
    BY <2>1, <2>2, ConstantConfigs DEF KeyInv, TypeOK
<1>5. result' \in [Sessions -> {"none", "denied", "served", "denied after add"}]
  BY DEF KeyInv, TypeOK, Deny
<1>6. IsConfig(running') /\ mainPc' \in {"run", "stopped"}
        /\ queue' \in Seq(Sessions) /\ Len(queue') <= QueueCap
  BY DEF KeyInv, TypeOK
<1> QED
  BY <1>2, <1>3, <1>4, <1>5, <1>6, TypesAgain

(* A session goes on to a stage inside, or out of Discover with its route. *)
LEMMA GoOnInv ==
  ASSUME KeyInv, NEW s \in Sessions, pc[s] \in Inside,
         NEW stage, Go(s, stage), UNCHANGED <<req, result, running, mainPc>>,
         \/ stage \in Inside /\ UNCHANGED discovering
         \/ stage = "retry" /\ RemoveKey(s),
         IsConfig(file'),
         queue' \in Seq(Sessions), Len(queue') <= QueueCap,
         answer' \in [Sessions -> {"none", "ok", "error"}],
         NEW cfg, IsConfig(cfg), draft' = [draft EXCEPT ![s] = cfg] \/ UNCHANGED draft
  PROVE  KeyInv'
<1>1. pc[s] # "idle" /\ stage \in {"idle", "enter", "retry"} \cup Inside
  BY InsideFacts
<1>2. /\ pc' \in [Sessions -> {"idle", "enter", "retry"} \cup Inside]
      /\ req' \in [Sessions -> Requests \cup {NoReq}]
      /\ ReqKnown' /\ OnlyTouches(s) /\ pc'[s] = stage
  BY <1>1, SessionTypes
<1>3. KeysExact'
  BY <1>2, InsideFacts, StaySide, GoOut DEF KeyInv
<1>4. DOMAIN draft' = Sessions /\ \A t \in Sessions : IsConfig(draft'[t])
  <2>1. DOMAIN draft = Sessions
    BY DEF KeyInv, TypeOK
  <2>2. DOMAIN draft' = Sessions /\ \A t \in Sessions : draft'[t] = draft[t] \/ draft'[t] = cfg
    BY <2>1
  <2> QED
    BY <2>2 DEF KeyInv, TypeOK
<1>5. /\ result' \in [Sessions -> {"none", "denied", "served", "denied after add"}]
      /\ IsConfig(running') /\ mainPc' \in {"run", "stopped"}
  BY DEF KeyInv, TypeOK
<1> QED
  BY <1>2, <1>3, <1>4, <1>5, TypesAgain

LEMMA KeyInvSession ==
  ASSUME KeyInv, NEW s \in Sessions, SessionStep(s)
  PROVE  KeyInv'
<1>0. /\ IsConfig(file) /\ IsConfig(draft[s]) /\ IsConfig(Nothing) /\ IsConfig(Garbled)
      /\ queue \in Seq(Sessions) /\ Len(queue) <= QueueCap
      /\ answer \in [Sessions -> {"none", "ok", "error"}]
  BY ConstantConfigs DEF KeyInv, TypeOK
<1>1. CASE Enter(s)
  <2>1. CASE Deny(s) /\ UNCHANGED discovering
    BY <1>0, <1>1, <2>1, DenyInv, InsideFacts DEF Enter
  <2>2. CASE /\ Key(req[s]) \notin discovering
             /\ discovering' = discovering \cup {Key(req[s])}
             /\ Go(s, "resolve") /\ UNCHANGED <<req, draft, result>>
    <3>1. pc[s] = "enter" /\ UNCHANGED <<file, running, mainPc, queue, answer>>
      BY <1>1 DEF Enter
    <3>2. /\ pc' \in [Sessions -> {"idle", "enter", "retry"} \cup Inside]
          /\ req' \in [Sessions -> Requests \cup {NoReq}]
          /\ ReqKnown' /\ OnlyTouches(s) /\ pc'[s] = "resolve"
      BY <2>2, <3>1, SessionTypes, InsideFacts
    <3>3. KeysExact'
      BY <2>2, <3>1, <3>2, ComeIn, InsideFacts DEF KeyInv
    <3> QED
      BY <2>2, <3>1, <3>2, <3>3, TypesAgain DEF KeyInv, TypeOK
  <2> QED
    BY <1>1, <2>1, <2>2 DEF Enter
<1>2. CASE Resolve(s)
  BY <1>0, <1>2, DenyInv, GoOnInv, InsideFacts DEF Resolve, LeaveWithoutRoute
<1>3. CASE LoadAndAdd(s)
  <2> DEFINE new == AddAutoDiscoveredRoute(file, RouteHost(req[s]), Resolved(req[s]))
  <2>1. IsConfig(new)
    BY <1>0, AddIsConfig
  <2>2. pc[s] = "load" /\ UNCHANGED <<file, running, mainPc, queue, answer>>
    BY <1>3 DEF LoadAndAdd
  <2>3. CASE LeaveWithoutRoute(s)
    BY <1>0, <2>2, <2>3, DenyInv, InsideFacts DEF LeaveWithoutRoute
  <2>4. CASE /\ draft' = [draft EXCEPT ![s] = new]
             /\ Go(s, "truncate") /\ UNCHANGED <<discovering, req, result>>
    <3> HIDE DEF new
    <3> QED
      BY <1>0, <2>1, <2>2, <2>4, GoOnInv, InsideFacts
  <2> QED
    BY <1>3, <2>3, <2>4 DEF LoadAndAdd
<1>4. CASE Truncate(s)
  BY <1>0, <1>4, DenyInv, GoOnInv, InsideFacts DEF Truncate, LeaveWithoutRoute
<1>5. CASE Write(s)
  <2>1. IsConfig(file')
    BY <1>0, <1>5, WriteOutcomes
  <2>2. pc[s] = "write" /\ UNCHANGED <<running, mainPc, queue, answer>>
    BY <1>5 DEF Write
  <2>3. CASE LeaveWithoutRoute(s)
    BY <1>0, <2>1, <2>2, <2>3, DenyInv, InsideFacts DEF LeaveWithoutRoute
  <2>4. CASE /\ draft' = [draft EXCEPT ![s] = Nothing]
             /\ Go(s, "send") /\ UNCHANGED <<discovering, req, result>>
    BY <1>0, <2>1, <2>2, <2>4, GoOnInv, InsideFacts
  <2> QED
    BY <1>5, <2>3, <2>4 DEF Write
<1>6. CASE Send(s)
  <2>1. Append(queue, s) \in Seq(Sessions) /\ Len(Append(queue, s)) <= QueueCap
    BY <1>0, <1>6, QueueAssumption DEF Send
  <2> QED
    BY <1>0, <1>6, <2>1, GoOnInv, InsideFacts DEF Send
<1>7. CASE Await(s)
  <2>1. /\ answer' \in [Sessions -> {"none", "ok", "error"}]
        /\ pc[s] = "await" /\ UNCHANGED <<file, running, mainPc, queue>>
    BY <1>0, <1>7 DEF Await
  <2>2. CASE LeaveWithoutRoute(s)
    BY <1>0, <2>1, <2>2, DenyInv, InsideFacts DEF LeaveWithoutRoute
  <2>3. CASE RemoveKey(s) /\ Go(s, "retry") /\ UNCHANGED <<req, draft, result>>
    BY <1>0, <2>1, <2>3, GoOnInv, InsideFacts
  <2> QED
    BY <1>7, <2>2, <2>3 DEF Await
<1>8. CASE Retry(s)
  <2>1. /\ pc' \in [Sessions -> {"idle", "enter", "retry"} \cup Inside]
        /\ req' \in [Sessions -> Requests \cup {NoReq}]
        /\ ReqKnown' /\ OnlyTouches(s) /\ pc'[s] = "idle"
    BY <1>8, SessionTypes DEF Retry
  <2>2. KeysExact'
    BY <1>8, <2>1, StaySide, InsideFacts DEF Retry, KeyInv
  <2>3. result' \in [Sessions -> {"none", "denied", "served", "denied after add"}]
    BY <1>8 DEF Retry, KeyInv, TypeOK
  <2> QED
    BY <1>8, <2>1, <2>2, <2>3, TypesAgain DEF Retry, KeyInv, TypeOK
<1> QED
  BY <1>1, <1>2, <1>3, <1>4, <1>5, <1>6, <1>7, <1>8 DEF SessionStep

LEMMA KeyInvNext == KeyInv /\ [Next]_vars => KeyInv'
<1> SUFFICES ASSUME KeyInv, [Next]_vars PROVE KeyInv'
  OBVIOUS
<1>1. ASSUME NEW s \in Sessions, NEW r \in Requests, Ask(s, r) PROVE KeyInv'
  <2>1. pc[s] = "idle" /\ Go(s, "enter") /\ req' = [req EXCEPT ![s] = r]
    BY <1>1 DEF Ask
  <2>2. /\ pc' \in [Sessions -> {"idle", "enter", "retry"} \cup Inside]
        /\ req' \in [Sessions -> Requests \cup {NoReq}]
        /\ ReqKnown' /\ OnlyTouches(s) /\ pc'[s] = "enter"
    BY <2>1, SessionTypes
  <2>3. KeysExact'
    BY <1>1, <2>1, <2>2, StaySide, InsideFacts DEF Ask, KeyInv
  <2>4. result' \in [Sessions -> {"none", "denied", "served", "denied after add"}]
    BY <1>1 DEF Ask, KeyInv, TypeOK
  <2> QED
    BY <1>1, <2>2, <2>3, <2>4, TypesAgain DEF Ask, KeyInv, TypeOK
<1>2. ASSUME UNCHANGED <<pc, req, discovering>>
      PROVE  ReqKnown' /\ KeysExact'
  BY <1>2 DEF KeyInv, ReqKnown, KeysExact
<1>3. CASE ServeRequest
  <2>1. UNCHANGED <<file, mainPc, discovering, pc, req, draft, result>>
    BY <1>3 DEF ServeRequest, sessVars
  <2>2. Head(queue) \in Sessions /\ queue' \in Seq(Sessions) /\ Len(queue') <= QueueCap
    <3>1. queue \in Seq(Sessions) /\ queue # <<>> /\ Len(queue) <= QueueCap
      BY <1>3 DEF ServeRequest, KeyInv, TypeOK
    <3>2. queue' = Tail(queue)
      BY <1>3 DEF ServeRequest
    <3>3. Len(queue) \in Nat /\ Len(queue) > 0 /\ QueueCap \in Nat
      BY <3>1, QueueAssumption
    <3>4. Head(queue) \in Sessions /\ Tail(queue) \in Seq(Sessions)
            /\ Len(Tail(queue)) = Len(queue) - 1
      BY <3>1, <3>3
    <3> QED
      BY <3>1, <3>2, <3>3, <3>4
  <2>3. answer' \in [Sessions -> {"none", "ok", "error"}]
    BY <1>3, <2>2 DEF ServeRequest, KeyInv, TypeOK
  <2>4. IsConfig(running')
    BY <1>3 DEF ServeRequest, Reload, KeyInv, TypeOK
  <2> QED
    BY <1>2, <2>1, <2>2, <2>3, <2>4, TypesAgain DEF KeyInv, TypeOK
<1>4. CASE Hangup
  <2>1. IsConfig(running')
    BY <1>4 DEF Hangup, Reload, KeyInv, TypeOK
  <2> QED
    BY <1>2, <1>4, <2>1, TypesAgain DEF Hangup, sessVars, KeyInv, TypeOK
<1>5. CASE Stop
  BY <1>2, <1>5, TypesAgain DEF Stop, sessVars, KeyInv, TypeOK
<1>6. ASSUME NEW h \in OperatorHosts, OperatorEdit(h) PROVE KeyInv'
  <2>1. IsConfig(file')
    BY <1>6, OperatorIsConfig DEF KeyInv, TypeOK
  <2> QED
    BY <1>2, <1>6, <2>1, TypesAgain DEF OperatorEdit, sessVars, KeyInv, TypeOK
<1>7. CASE UNCHANGED vars
  BY <1>2, <1>7, TypesAgain DEF vars, sessVars, KeyInv, TypeOK
<1> QED
  BY <1>1, <1>3, <1>4, <1>5, <1>6, <1>7, KeyInvSession DEF Next

(* Type correctness of the discoverer, the reload requests and the file:   *)
(* in particular, the request channel never holds more than its capacity.  *)
THEOREM DiscoveryTypeCorrect == Spec => []TypeOK
<1>1. KeyInv => TypeOK
  BY DEF KeyInv
<1> QED
  BY KeyInvInit, KeyInvNext, <1>1, PTL DEF Spec

(***************************************************************************)
(* The map that Discover keeps under d.mu is exact at every moment: a host *)
(* and port is marked if and only if a session is discovering it, and only *)
(* one session is.                                                         *)
(***************************************************************************)
THEOREM DiscoveriesAreExclusive == Spec => []OneDiscoveryPerKey
<1>1. KeyInv => OneDiscoveryPerKey
  BY ExactIsOnePerKey DEF KeyInv
<1> QED
  BY KeyInvInit, KeyInvNext, <1>1, PTL DEF Spec

-----------------------------------------------------------------------------
(* Group names. *)

(* The group names that the hosts clients ask for are turned into. *)
FlatNames == {Flat(RouteHost(r)) : r \in Requests}

(***************************************************************************)
(* A group name that is one of these with a number has a number below the  *)
(* number of groups.  AddAutoDiscoveredRoute numbers a name with the       *)
(* number of groups, so this is true of every file that it has written in  *)
(* an earlier life of the process.                                         *)
(***************************************************************************)
NumbersFree(gs) ==
  /\ IsFiniteSet(DOMAIN gs)
  /\ \A f \in FlatNames : \A n \in Nat :
       Numbered(f, n) \in DOMAIN gs => n < Cardinality(DOMAIN gs)

-----------------------------------------------------------------------------
(* The file, the drafts and the running config keep what Base has. *)

(* The initial groups are not given away again: not by numbers, and not by *)
(* the operator.                                                           *)
BaseNamesReserved ==
  /\ NumbersFree(Base.groups)
  /\ OperatorGroup \notin DOMAIN Base.groups
  /\ OperatorHosts \cap DOMAIN Base.routes = {}

HasBase(cfg) ==
  /\ IsFiniteSet(DOMAIN cfg.groups) /\ DOMAIN Base.groups \subseteq DOMAIN cfg.groups
  /\ \A h \in DOMAIN Base.routes :
       /\ h \in DOMAIN cfg.routes /\ cfg.routes[h] = Base.routes[h]
       /\ Base.routes[h] \in DOMAIN cfg.groups
       /\ cfg.groups[Base.routes[h]] = Base.groups[Base.routes[h]]

(* A config that was saved as a whole and can be accepted has everything   *)
(* of Base.                                                                *)
Intact(cfg) == IsConfig(cfg) /\ (cfg.parses /\ cfg.server /\ cfg.whole => HasBase(cfg))

BaseInv ==
  /\ Intact(file) /\ Intact(running) /\ Valid(running)
  /\ DOMAIN draft = Sessions /\ \A s \in Sessions : Intact(draft[s])

LEMMA BaseIntact ==
  ASSUME BaseNamesReserved
  PROVE  Intact(Base) /\ HasBase(Base) /\ Valid(Base) /\ Base.whole
  BY BaseAssumption DEF Intact, HasBase, Valid, BaseNamesReserved, NumbersFree

LEMMA ConstantsIntact == Intact(Nothing) /\ Intact(Garbled)
  BY ConstantConfigs DEF Intact

LEMMA WithHasBase ==
  ASSUME NEW cfg, HasBase(cfg), NEW new, NEW g, NEW k, NEW addrs,
         new.groups = With(cfg.groups, g, addrs),
         new.routes = With(cfg.routes, k, g),
         k \notin DOMAIN Base.routes,
         g \notin DOMAIN cfg.groups \/ g \notin DOMAIN Base.groups
  PROVE  HasBase(new)
<1>0. IsFiniteSet(DOMAIN new.groups) /\ DOMAIN Base.groups \subseteq DOMAIN new.groups
  <2>1. DOMAIN new.groups = DOMAIN cfg.groups \cup {g}
    BY DEF With
  <2> QED
    BY <2>1, FS_AddElement DEF HasBase
<1>1. SUFFICES ASSUME NEW h \in DOMAIN Base.routes
               PROVE  /\ h \in DOMAIN new.routes /\ new.routes[h] = Base.routes[h]
                      /\ Base.routes[h] \in DOMAIN new.groups
                      /\ new.groups[Base.routes[h]] = Base.groups[Base.routes[h]]
  BY <1>0 DEF HasBase
<1>2. /\ h \in DOMAIN cfg.routes /\ cfg.routes[h] = Base.routes[h]
      /\ Base.routes[h] \in DOMAIN cfg.groups
      /\ cfg.groups[Base.routes[h]] = Base.groups[Base.routes[h]]
  BY DEF HasBase
<1>3. Base.routes[h] \in DOMAIN Base.groups
  BY BaseAssumption DEF Valid
<1>4. h # k /\ Base.routes[h] # g
  BY <1>2, <1>3
<1>5. h \in DOMAIN new.routes /\ new.routes[h] = Base.routes[h]
  BY <1>2, <1>4 DEF With
<1>6. Base.routes[h] \in DOMAIN new.groups
        /\ new.groups[Base.routes[h]] = Base.groups[Base.routes[h]]
  BY <1>2, <1>4 DEF With
<1> QED
  BY <1>5, <1>6

(* Adding a route whose key is free does no harm, even when the file has   *)
(* lost its other parts: then the result cannot be accepted either.        *)
LEMMA AddIntact ==
  ASSUME BaseNamesReserved, NEW cfg, Intact(cfg), NEW r \in Requests, NEW k, k = RouteHost(r),
         k \notin DOMAIN cfg.routes, NEW addrs
  PROVE  Intact(AddAutoDiscoveredRoute(cfg, k, addrs))
<1> DEFINE new == AddAutoDiscoveredRoute(cfg, k, addrs)
           g == GroupName(cfg, k)
<1>1. /\ IsConfig(new) /\ new.parses = cfg.parses /\ new.server = cfg.server
      /\ new.whole = cfg.whole /\ new.groups = With(cfg.groups, g, addrs)
      /\ new.routes = With(cfg.routes, k, g)
  BY AddIsConfig DEF Intact
<1>2. ASSUME HasBase(cfg) PROVE g \notin DOMAIN cfg.groups \/ g \notin DOMAIN Base.groups
  <2>1. CASE Flat(k) \notin DOMAIN cfg.groups
    BY <2>1 DEF GroupName
  <2>2. CASE Flat(k) \in DOMAIN cfg.groups
    <3>1. g = Numbered(Flat(k), Cardinality(DOMAIN cfg.groups)) /\ Flat(k) \in FlatNames
      BY <2>2 DEF GroupName, FlatNames
    <3>2. PICK c, b : c = Cardinality(DOMAIN cfg.groups) /\ b = Cardinality(DOMAIN Base.groups)
      OBVIOUS
    <3>3. c \in Nat /\ b \in Nat /\ b <= c
      BY <1>2, <3>2, FS_Subset, FS_CardinalityType DEF HasBase
    <3>4. ~(c < b)
      BY <3>3
    <3> QED
      BY <3>1, <3>2, <3>3, <3>4, Zenon DEF BaseNamesReserved, NumbersFree
  <2> QED
    BY <2>1, <2>2
<1> HIDE DEF new, g
<1>3. ASSUME cfg.parses, cfg.server, cfg.whole PROVE HasBase(new)
  <2>1. HasBase(cfg)
    BY <1>3 DEF Intact
  <2>2. k \notin DOMAIN Base.routes
    BY <2>1 DEF HasBase
  <2> QED
    BY <1>1, <1>2, <2>1, <2>2, WithHasBase
<1>4. Intact(new)
  BY <1>1, <1>3 DEF Intact
<1> QED
  BY <1>4 DEF new

LEMMA OperatorIntact ==
  ASSUME BaseNamesReserved, Intact(file), NEW h \in OperatorHosts, OperatorEdit(h)
  PROVE  Intact(file')
<1> DEFINE old == IF Valid(file) THEN file ELSE Base
<1>1. /\ IsConfig(file') /\ file'.whole = old.whole
      /\ file'.groups = With(old.groups, OperatorGroup, OperatorAddrs)
      /\ file'.routes = With(old.routes, h, OperatorGroup)
  BY OperatorIsConfig DEF Intact
<1>2. old.whole => HasBase(old)
  BY BaseIntact DEF Valid, Intact
<1> HIDE DEF old
<1>3. file'.whole => HasBase(file')
  BY <1>1, <1>2, WithHasBase DEF BaseNamesReserved
<1> QED
  BY <1>1, <1>3 DEF Intact

(* A reload takes the file only if it is valid, and then it is intact. *)
LEMMA ReloadKeepsBase ==
  ASSUME BaseInv, Reload
  PROVE  Intact(running') /\ Valid(running')
  BY DEF BaseInv, Reload, Accepted

(* A session that has written, failed or gone on leaves its draft intact. *)
LEMMA DraftsIntact ==
  ASSUME BaseInv, NEW s \in Sessions, NEW cfg, Intact(cfg),
         draft' = [draft EXCEPT ![s] = cfg]
  PROVE  DOMAIN draft' = Sessions /\ \A t \in Sessions : Intact(draft'[t])
<1> SUFFICES ASSUME NEW t \in Sessions PROVE DOMAIN draft' = Sessions /\ Intact(draft'[t])
  OBVIOUS
<1>1. CASE t = s
  BY <1>1 DEF BaseInv
<1>2. CASE t # s
  BY <1>2 DEF BaseInv
<1> QED
  BY <1>1, <1>2

LEMMA LeaveKeepsDrafts ==
  ASSUME BaseInv, NEW s \in Sessions, LeaveWithoutRoute(s) \/ Deny(s)
  PROVE  DOMAIN draft' = Sessions /\ \A t \in Sessions : Intact(draft'[t])
  BY DraftsIntact, ConstantsIntact DEF LeaveWithoutRoute, Deny

LEMMA BaseInvSession ==
  ASSUME BaseNamesReserved, KeyInv, BaseInv, NEW s \in Sessions, SessionStep(s)
  PROVE  BaseInv'
<1>1. CASE Enter(s)
  BY <1>1, LeaveKeepsDrafts DEF Enter, BaseInv
<1>2. CASE Resolve(s)
  BY <1>2, LeaveKeepsDrafts DEF Resolve, BaseInv
<1>3. CASE LoadAndAdd(s)
  <2> DEFINE k == RouteHost(req[s])
             new == AddAutoDiscoveredRoute(file, k, Resolved(req[s]))
  <2>1. CASE LeaveWithoutRoute(s)
    BY <1>3, <2>1, LeaveKeepsDrafts DEF LoadAndAdd, BaseInv
  <2>2. CASE k \notin DOMAIN file.routes /\ draft' = [draft EXCEPT ![s] = new]
    <3>0. req[s] \in Requests
      BY <1>3 DEF LoadAndAdd, KeyInv, ReqKnown
    <3>1. Intact(new)
      BY <2>2, <3>0, AddIntact DEF BaseInv
    <3> HIDE DEF new
    <3>2. DOMAIN draft' = Sessions /\ \A t \in Sessions : Intact(draft'[t])
      BY <2>2, <3>1, DraftsIntact
    <3> QED
      BY <1>3, <3>2 DEF LoadAndAdd, BaseInv
  <2> QED
    BY <1>3, <2>1, <2>2 DEF LoadAndAdd
<1>4. CASE Truncate(s)
  BY <1>4, LeaveKeepsDrafts, ConstantsIntact DEF Truncate, BaseInv
<1>5. CASE Write(s)
  <2>1. DOMAIN draft' = Sessions /\ \A t \in Sessions : Intact(draft'[t])
    BY <1>5, LeaveKeepsDrafts, DraftsIntact, ConstantsIntact DEF Write
  <2>2. Intact(file')
    <3>1. Intact(draft[s]) /\ Intact(file) /\ IsConfig(draft[s])
      BY DEF BaseInv, Intact
    <3>2. \/ file' \in {file, draft[s], Garbled}
          \/ IsConfig(file') /\ ~file'.whole
      BY <1>5, <3>1, WriteOutcomes
    <3> QED
      BY <3>1, <3>2, ConstantsIntact DEF Intact
  <2> QED
    BY <1>5, <2>1, <2>2 DEF Write, BaseInv
<1>6. CASE Send(s)
  BY <1>6 DEF Send, BaseInv
<1>7. CASE Await(s)
  BY <1>7, LeaveKeepsDrafts DEF Await, BaseInv
<1>8. CASE Retry(s)
  BY <1>8 DEF Retry, BaseInv
<1> QED
  BY <1>1, <1>2, <1>3, <1>4, <1>5, <1>6, <1>7, <1>8 DEF SessionStep

LEMMA BaseInvNext ==
  ASSUME BaseNamesReserved PROVE KeyInv /\ BaseInv /\ [Next]_vars => BaseInv'
<1> SUFFICES ASSUME KeyInv, BaseInv, [Next]_vars PROVE BaseInv'
  OBVIOUS
<1>1. ASSUME NEW s \in Sessions, NEW r \in Requests, Ask(s, r) PROVE BaseInv'
  BY <1>1 DEF Ask, BaseInv
<1>2. CASE ServeRequest
  BY <1>2, ReloadKeepsBase DEF ServeRequest, BaseInv, sessVars
<1>3. CASE Hangup
  BY <1>3, ReloadKeepsBase DEF Hangup, BaseInv, sessVars
<1>4. CASE Stop
  BY <1>4 DEF Stop, BaseInv, sessVars
<1>5. ASSUME NEW h \in OperatorHosts, OperatorEdit(h) PROVE BaseInv'
  BY <1>5, OperatorIntact DEF OperatorEdit, BaseInv, sessVars
<1>6. CASE UNCHANGED vars
  BY <1>6 DEF vars, sessVars, BaseInv
<1> QED
  BY <1>1, <1>2, <1>3, <1>4, <1>5, <1>6, BaseInvSession DEF Next

(***************************************************************************)
(* Whatever sessions and the operator do to the file, and whatever a       *)
(* failed write leaves in it: what runs is valid, and unless it comes from *)
(* a torn text it has every route of the initial config, with its          *)
(* addresses.                                                              *)
(***************************************************************************)
THEOREM RunningConfigKeepsBase ==
  ASSUME BaseNamesReserved
  PROVE  Spec => []RunningKeepsBase
<1>1. Init => BaseInv
  BY BaseIntact, ConstantsIntact DEF Init, BaseInv
<1>2. BaseInv => RunningKeepsBase
  BY DEF BaseInv, Intact, HasBase, Valid, RunningKeepsBase
<1>3. KeyInv /\ BaseInv /\ [Next]_vars => BaseInv'
  BY BaseInvNext
<1> QED
  BY KeyInvInit, KeyInvNext, <1>1, <1>2, <1>3, PTL DEF Spec

-----------------------------------------------------------------------------
(* Discovered routes lead to their own hosts. *)

(***************************************************************************)
(* AddAutoDiscoveredRoute takes a numbered group name without looking      *)
(* whether it is free.  It is when no host that is asked for has the group *)
(* name of another with a number (a.b.3 beside a.b) and nobody but the     *)
(* discoverer uses these names.  Names that end in a number are no         *)
(* exception as such: auto-1-2-3-4-443 is in nobody's way unless clients   *)
(* also ask for a name whose group is auto-1-2-3-4.                        *)
(***************************************************************************)
NamesApart ==
  /\ NumbersFree(Base.groups)
  /\ \A f, g \in FlatNames : \A n \in Nat : Numbered(f, n) # g
  /\ \A f \in FlatNames : \A n \in Nat : Numbered(f, n) # OperatorGroup
  /\ \A f, g \in FlatNames : \A m, n \in Nat : Numbered(f, m) = Numbered(g, n) => m = n
  /\ OperatorGroup \notin FlatNames

(* The addresses that a request for route key k may have resolved to. *)
AddrsFor(k) == {Resolved(r) : r \in {q \in Requests : RouteHost(q) = k}}
Discovered(cfg) == DOMAIN cfg.routes \ (DOMAIN Base.routes \cup OperatorHosts)

LedWhole(cfg) ==
  /\ NumbersFree(cfg.groups)
  /\ \A k \in Discovered(cfg) :
       /\ cfg.routes[k] \in DOMAIN cfg.groups /\ cfg.routes[k] # OperatorGroup
       /\ cfg.groups[cfg.routes[k]] \in AddrsFor(k)
Led(cfg) == cfg.whole => LedWhole(cfg)

LedInv == Led(file) /\ Led(running) /\ \A s \in Sessions : Led(draft[s])

(* One more group, numbered with the number of groups or not numbered. *)
LEMMA WithNumbersFree ==
  ASSUME NEW gs, NumbersFree(gs), NEW g, NEW addrs,
         \A f \in FlatNames : \A n \in Nat :
           g = Numbered(f, n) => n = Cardinality(DOMAIN gs) \/ g \in DOMAIN gs
  PROVE  NumbersFree(With(gs, g, addrs))
<1>1. DOMAIN With(gs, g, addrs) = DOMAIN gs \cup {g}
  BY DEF With
<1>2. PICK D : D = DOMAIN gs
  OBVIOUS
<1>3. IsFiniteSet(D) /\ Cardinality(D) \in Nat
  BY <1>2, FS_CardinalityType DEF NumbersFree
<1>4. /\ IsFiniteSet(D \cup {g})
      /\ Cardinality(D \cup {g}) = IF g \in D THEN Cardinality(D) ELSE Cardinality(D) + 1
  BY <1>3, FS_AddElement
<1>5. ASSUME NEW f \in FlatNames, NEW n \in Nat, Numbered(f, n) \in D \cup {g}
      PROVE  n < Cardinality(D \cup {g})
  <2>1. CASE Numbered(f, n) \in D
    <3>1. n < Cardinality(D)
      BY <1>2, <2>1, Zenon DEF NumbersFree
    <3> QED
      BY <1>3, <1>4, <3>1
  <2>2. CASE Numbered(f, n) \notin D
    <3>1. g \notin D /\ n = Cardinality(D)
      BY <1>2, <1>5, <2>2, Zenon
    <3> QED
      BY <1>3, <1>4, <3>1
  <2> QED
    BY <2>1, <2>2
<1> QED
  BY <1>1, <1>2, <1>4, <1>5, Zenon DEF NumbersFree

(* A group of its own leaves every other route where it was. *)
LEMMA AddLedWhole ==
  ASSUME NamesApart, NEW cfg, IsConfig(cfg), LedWhole(cfg), NEW r \in Requests,
         RouteHost(r) \notin DOMAIN cfg.routes
  PROVE  LedWhole(AddAutoDiscoveredRoute(cfg, RouteHost(r), Resolved(r)))
<1>1. PICK k, g, addrs, new :
        /\ k = RouteHost(r) /\ g = GroupName(cfg, k) /\ addrs = Resolved(r)
        /\ new = AddAutoDiscoveredRoute(cfg, k, addrs)
  OBVIOUS
<1>2. new.groups = With(cfg.groups, g, addrs) /\ new.routes = With(cfg.routes, k, g)
  BY <1>1, AddIsConfig
<1>3. PICK c \in Nat : c = Cardinality(DOMAIN cfg.groups)
  BY FS_CardinalityType DEF LedWhole, NumbersFree
<1>4. /\ g \notin DOMAIN cfg.groups /\ g # OperatorGroup
      /\ \A f \in FlatNames : \A n \in Nat : g = Numbered(f, n) => n = c
  <2>1. Flat(k) \in FlatNames
    BY <1>1 DEF FlatNames
  <2>2. CASE Flat(k) \notin DOMAIN cfg.groups
    <3>1. g = Flat(k)
      BY <1>1, <2>2, Zenon DEF GroupName
    <3> QED
      BY <2>1, <2>2, <3>1, Zenon DEF NamesApart
  <2>3. CASE Flat(k) \in DOMAIN cfg.groups
    <3>1. g = Numbered(Flat(k), c)
      BY <1>1, <1>3, <2>3, Zenon DEF GroupName
    <3>2. ~(c < c)
      OBVIOUS
    <3>3. g \notin DOMAIN cfg.groups
      BY <1>3, <2>1, <3>1, <3>2, Zenon DEF LedWhole, NumbersFree
    <3> QED
      BY <2>1, <3>1, <3>3, Zenon DEF NamesApart
  <2> QED
    BY <2>2, <2>3
<1>5. NumbersFree(new.groups)
  BY <1>2, <1>3, <1>4, WithNumbersFree, Zenon DEF LedWhole
<1>6. ASSUME NEW h \in Discovered(new)
      PROVE  /\ new.routes[h] \in DOMAIN new.groups /\ new.routes[h] # OperatorGroup
             /\ new.groups[new.routes[h]] \in AddrsFor(h)
  <2>1. CASE h = k
    <3>1. new.routes[h] = g /\ g \in DOMAIN new.groups /\ new.groups[g] = addrs
      BY <1>2, <2>1 DEF With
    <3>2. addrs \in AddrsFor(h)
      BY <1>1, <2>1 DEF AddrsFor
    <3> QED
      BY <1>4, <3>1, <3>2
  <2>2. CASE h # k
    <3>1. h \in Discovered(cfg) /\ h \in DOMAIN cfg.routes
      BY <1>2, <1>6, <2>2 DEF Discovered, With
    <3>2. /\ cfg.routes[h] \in DOMAIN cfg.groups /\ cfg.routes[h] # OperatorGroup
          /\ cfg.groups[cfg.routes[h]] \in AddrsFor(h)
      BY <3>1, Zenon DEF LedWhole
    <3>3. new.routes[h] = cfg.routes[h]
      BY <1>2, <2>2, <3>1 DEF With
    <3>4. /\ cfg.routes[h] \in DOMAIN new.groups
          /\ new.groups[cfg.routes[h]] = cfg.groups[cfg.routes[h]]
      BY <1>2, <1>4, <3>2 DEF With
    <3> QED
      BY <3>2, <3>3, <3>4, Zenon
  <2> QED
    BY <2>1, <2>2
<1> QED
  BY <1>1, <1>5, <1>6, Zenon DEF LedWhole

LEMMA AddLed ==
  ASSUME NamesApart, NEW cfg, IsConfig(cfg), Led(cfg), NEW r \in Requests,
         RouteHost(r) \notin DOMAIN cfg.routes
  PROVE  Led(AddAutoDiscoveredRoute(cfg, RouteHost(r), Resolved(r)))
<1>1. PICK new : new = AddAutoDiscoveredRoute(cfg, RouteHost(r), Resolved(r))
  OBVIOUS
<1>2. new.whole = cfg.whole
  BY <1>1, AddIsConfig
<1>3. cfg.whole => LedWhole(new)
  BY <1>1, AddLedWhole, Zenon DEF Led
<1> QED
  BY <1>1, <1>2, <1>3, Zenon DEF Led

LEMMA ConstantsLed == ASSUME NamesApart PROVE Led(Base) /\ Led(Nothing) /\ Led(Garbled)
<1>1. NumbersFree(<<>>) /\ DOMAIN <<>> = {}
  <2>1. DOMAIN <<>> = {}
    OBVIOUS
  <2> QED
    BY <2>1, FS_EmptySet, Zenon DEF NumbersFree
<1>2. Led(Nothing) /\ Led(Garbled)
  <2>1. /\ Nothing.groups = <<>> /\ Nothing.routes = <<>>
        /\ Garbled.groups = <<>> /\ Garbled.routes = <<>>
    BY ConstantConfigs
  <2> QED
    BY <1>1, <2>1, Zenon DEF Led, LedWhole, Discovered
<1>3. Led(Base)
  <2>1. NumbersFree(Base.groups)
    BY Zenon DEF NamesApart
  <2>2. Discovered(Base) = {}
    BY DEF Discovered
  <2> QED
    BY <2>1, <2>2, Zenon DEF Led, LedWhole
<1> QED
  BY <1>2, <1>3

(* The operator's group is nobody else's, and his routes are his own. *)
LEMMA OperatorLed ==
  ASSUME NamesApart, IsConfig(file), Led(file), NEW k \in OperatorHosts, OperatorEdit(k)
  PROVE  Led(file')
<1>1. PICK old : old = IF Valid(file) THEN file ELSE Base
  OBVIOUS
<1>2. PICK new : new = file'
  OBVIOUS
<1>3. /\ new.groups = With(old.groups, OperatorGroup, OperatorAddrs)
      /\ new.routes = With(old.routes, k, OperatorGroup)
  BY <1>1, <1>2, OperatorIsConfig
<1>4. Led(old) /\ new.whole = old.whole
  BY <1>1, <1>2, ConstantsLed, OperatorIsConfig
<1> SUFFICES ASSUME old.whole PROVE LedWhole(new)
  BY <1>2, <1>4, Zenon DEF Led
<1>41. LedWhole(old)
  BY <1>4, Zenon DEF Led
<1>5. NumbersFree(new.groups)
  <2>1. \A f \in FlatNames : \A n \in Nat : OperatorGroup # Numbered(f, n)
    BY DEF NamesApart
  <2> QED
    BY <1>3, <1>41, <2>1, WithNumbersFree, Zenon DEF LedWhole
<1>6. ASSUME NEW h \in Discovered(new)
      PROVE  /\ new.routes[h] \in DOMAIN new.groups /\ new.routes[h] # OperatorGroup
             /\ new.groups[new.routes[h]] \in AddrsFor(h)
  <2>1. h # k /\ h \in Discovered(old) /\ h \in DOMAIN old.routes
    BY <1>3, <1>6 DEF Discovered, With
  <2>2. /\ old.routes[h] \in DOMAIN old.groups /\ old.routes[h] # OperatorGroup
        /\ old.groups[old.routes[h]] \in AddrsFor(h)
    BY <1>41, <2>1, Zenon DEF LedWhole
  <2>3. new.routes[h] = old.routes[h]
    BY <1>3, <2>1 DEF With
  <2>4. /\ old.routes[h] \in DOMAIN new.groups
        /\ new.groups[old.routes[h]] = old.groups[old.routes[h]]
    BY <1>3, <2>2 DEF With
  <2> QED
    BY <2>2, <2>3, <2>4, Zenon
<1> QED
  BY <1>5, <1>6, Zenon DEF LedWhole

LEMMA DraftsLed ==
  ASSUME KeyInv, LedInv, NEW s \in Sessions, NEW cfg, Led(cfg),
         draft' = [draft EXCEPT ![s] = cfg] \/ draft' = draft
  PROVE  \A t \in Sessions : Led(draft'[t])
<1>1. \A t \in Sessions : draft'[t] = draft[t] \/ draft'[t] = cfg
  BY DEF KeyInv, TypeOK
<1> QED
  BY <1>1, Zenon DEF LedInv

LEMMA LedSession ==
  ASSUME NamesApart, KeyInv, LedInv, NEW s \in Sessions, SessionStep(s)
  PROVE  LedInv'
<1>0. /\ Led(file) /\ Led(running) /\ Led(draft[s]) /\ Led(Nothing) /\ Led(Garbled)
      /\ IsConfig(file)
  BY ConstantsLed DEF LedInv, KeyInv, TypeOK
<1>1. ASSUME LeaveWithoutRoute(s) \/ Deny(s) \/ draft' = draft
             \/ draft' = [draft EXCEPT ![s] = Nothing]
      PROVE  \A t \in Sessions : Led(draft'[t])
  BY <1>0, <1>1, DraftsLed DEF LeaveWithoutRoute, Deny
<1>2. CASE Enter(s) \/ Resolve(s) \/ Send(s) \/ Await(s) \/ Retry(s)
  BY <1>0, <1>1, <1>2 DEF Enter, Resolve, Send, Await, Retry, LedInv
<1>3. CASE LoadAndAdd(s)
  <2>1. UNCHANGED <<file, running>> /\ pc[s] = "load"
    BY <1>3 DEF LoadAndAdd
  <2>2. CASE LeaveWithoutRoute(s)
    BY <1>0, <1>1, <2>1, <2>2 DEF LedInv
  <2>3. PICK new : new = AddAutoDiscoveredRoute(file, RouteHost(req[s]), Resolved(req[s]))
    OBVIOUS
  <2>4. CASE RouteHost(req[s]) \notin DOMAIN file.routes /\ draft' = [draft EXCEPT ![s] = new]
    <3>1. req[s] \in Requests
      BY <2>1 DEF KeyInv, ReqKnown
    <3>2. Led(new)
      BY <1>0, <2>3, <2>4, <3>1, AddLed
    <3> QED
      BY <1>0, <2>1, <2>4, <3>2, DraftsLed DEF LedInv
  <2> QED
    BY <1>3, <2>2, <2>3, <2>4 DEF LoadAndAdd
<1>4. CASE Truncate(s)
  BY <1>0, <1>1, <1>4 DEF Truncate, LedInv
<1>5. CASE Write(s)
  <2>1. \/ file' \in {file, draft[s], Garbled}
        \/ IsConfig(file') /\ ~file'.whole
    <3>1. IsConfig(draft[s])
      BY DEF KeyInv, TypeOK
    <3> QED
      BY <1>5, <3>1, WriteOutcomes
  <2>2. Led(file')
    BY <1>0, <2>1 DEF Led
  <2>3. \A t \in Sessions : Led(draft'[t])
    BY <1>1, <1>5 DEF Write
  <2> QED
    BY <1>0, <1>5, <2>2, <2>3 DEF Write, LedInv
<1> QED
  BY <1>2, <1>3, <1>4, <1>5 DEF SessionStep

LEMMA LedNext ==
  ASSUME NamesApart, KeyInv, LedInv, [Next]_vars
  PROVE  LedInv'
<1>1. ASSUME NEW s \in Sessions, NEW r \in Requests, Ask(s, r) PROVE LedInv'
  BY <1>1 DEF Ask, LedInv
<1>2. CASE ServeRequest \/ Hangup
  BY <1>2 DEF ServeRequest, Hangup, Reload, LedInv, sessVars
<1>3. CASE Stop
  BY <1>3 DEF Stop, LedInv, sessVars
<1>4. ASSUME NEW h \in OperatorHosts, OperatorEdit(h) PROVE LedInv'
  <2>1. Led(file')
    BY <1>4, OperatorLed DEF LedInv, KeyInv, TypeOK
  <2> QED
    BY <1>4, <2>1 DEF OperatorEdit, LedInv, sessVars
<1>5. CASE UNCHANGED vars
  BY <1>5 DEF vars, LedInv, sessVars
<1> QED
  BY <1>1, <1>2, <1>3, <1>4, <1>5, LedSession DEF Next

(***************************************************************************)
(* However many sessions and the operator rewrite the file, from fresh or  *)
(* stale copies: a discovered route of the running config leads to the     *)
(* addresses of the host it is named after, when no host asked for has the *)
(* group name of another with a number.  Without that the code does not    *)
(* ensure it: run discovery_names.                                         *)
(***************************************************************************)
THEOREM DiscoveredRoutesLeadHome ==
  ASSUME NamesApart
  PROVE  Spec => []RouteLeadsToItsHost
<1>1. Init => LedInv
  BY ConstantsLed DEF Init, LedInv
<1>2. LedInv => RouteLeadsToItsHost
  BY Zenon DEF LedInv, Led, LedWhole, Discovered, AddrsFor, RouteLeadsToItsHost
<1>3. KeyInv /\ LedInv /\ [Next]_vars => LedInv'
  BY LedNext
<1> QED
  BY KeyInvInit, KeyInvNext, <1>1, <1>2, <1>3, PTL DEF Spec
=============================================================================
