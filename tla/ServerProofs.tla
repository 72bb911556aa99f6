---------------------------- MODULE ServerProofs ----------------------------
(***************************************************************************)
(* Proofs about Server, for any finite set of clients, any requests,       *)
(* tables and limits and any number of reloads.                            *)
(***************************************************************************)
EXTENDS Server, FiniteSetTheorems, TLAPS

-----------------------------------------------------------------------------
(* Counting the sessions that are in certain stages. *)

Has(stages, stage) == IF stage \in stages THEN 1 ELSE 0

LEMMA InIsFinite ==
  ASSUME NEW stages
  PROVE  /\ IsFiniteSet(In(stages)) /\ Cardinality(In(stages)) \in Nat
<1>1. In(stages) \in SUBSET Conns
  BY DEF In
<1> QED
  BY <1>1, LimitsAssumption, FS_Subset, FS_CardinalityType

(* When one session moves, every count follows it. *)
LEMMA CountFollows ==
  ASSUME pc \in [Conns -> Stages], NEW c \in Conns, NEW stage \in Stages, GoTo(c, stage),
         NEW stages
  PROVE  Cardinality(In(stages)') = Cardinality(In(stages)) + Has(stages, stage) - Has(stages, pc[c])
<1> DEFINE before == In(stages)
           after == In(stages)'
<1>1. IsFiniteSet(before) /\ Cardinality(before) \in Nat
  BY InIsFinite
<1>2. /\ pc'[c] = stage
      /\ \A d \in Conns : d # c => pc'[d] = pc[d]
  BY DEF GoTo
<1>3. c \in before <=> pc[c] \in stages
  BY DEF In
<1>4. CASE stage \in stages
  <2>1. after = before \cup {c}
    BY <1>2, <1>4 DEF In
  <2> HIDE DEF before, after
  <2>2. Cardinality(after) = IF c \in before THEN Cardinality(before) ELSE Cardinality(before) + 1
    BY <1>1, <2>1, FS_AddElement
  <2> QED
    BY <1>1, <1>3, <1>4, <2>2 DEF Has, before, after
<1>5. CASE stage \notin stages
  <2>1. after = before \ {c}
    BY <1>2, <1>5 DEF In
  <2> HIDE DEF before, after
  <2>2. Cardinality(after) = IF c \in before THEN Cardinality(before) - 1 ELSE Cardinality(before)
    BY <1>1, <2>1, FS_RemoveElement
  <2> QED
    BY <1>1, <1>3, <1>5, <2>2 DEF Has, before, after
<1> QED
  BY <1>4, <1>5

-----------------------------------------------------------------------------
(***************************************************************************)
(* The inductive invariant.                                                *)
(***************************************************************************)

(* A session asks the discoverer on its first attempt only. *)
ShapeInv ==
  /\ ControlTypes /\ SessionTypes
  /\ \A c \in Conns : pc[c] = "discover" => attempt[c] = 0

CountInv ==
  /\ ended \in Nat /\ tcp \in [{"syn", "established", "fin", "rst"} -> Nat]
  /\ Accounting /\ MetricsBalance

(* The semaphores are the limits. *)
LimitInv ==
  /\ MaxConns # 0 => slots <= MaxConns
  /\ MaxDials # 0 => dials <= MaxDials

(* A session has a backend only from Pick to its end, and it began under a *)
(* router that is not newer than the current one.                          *)
Granted == {"connect", "reply", "relay"}
RouteOk(c) ==
  /\ pc[c] \notin Granted => target[c] = NoAddr
  /\ pc[c] \in Session => accGen[c] \in 1..Gen
  /\ target[c] # NoAddr =>
       /\ pickGen[c] \in accGen[c]..Gen
       /\ route[c] \in DOMAIN tables[pickGen[c]].routes
       /\ target[c] \in tables[pickGen[c]].routes[route[c]]
RouteInv == \A c \in Conns : RouteOk(c)

(* The accept loop has one connection in hand at most; none begins after   *)
(* Shutdown but that one, if the listener is closed; and what Wait saw     *)
(* stays true of the sessions that had begun before.                       *)
InHand == {"accepted", "admitted"}
DrainInv ==
  /\ servePc # "busy" => In(InHand) = {}
  /\ \A c, d \in In(InHand) : c = d
  /\ mainPc \in {"run", "closing"} => late = {} /\ listener # "closed" /\ ~zeroSeen
  /\ listener = "closed" => (servePc = "busy" => late = {}) /\ Cardinality(late) <= 1
  /\ zeroSeen => In(InWaitGroup) \subseteq late
  /\ exit = "all active tunnels finished" => zeroSeen

ServerInv == ShapeInv /\ CountInv /\ LimitInv /\ RouteInv /\ DrainInv

-----------------------------------------------------------------------------
(* Shape. *)
LEMMA InitShape == Init => ShapeInv
<1> SUFFICES ASSUME Init PROVE ShapeInv
  OBVIOUS
<1>1. ControlTypes
  <2>1. PICK t \in Configs : tables = <<t>>
    BY DEF Init
  <2>2. tables \in Seq(Configs) /\ Len(tables) > 0
    BY <2>1
  <2> QED
    BY <2>2, Zenon DEF Init, ControlTypes, Gen
<1>2. SessionTypes
  BY DEF Init, SessionTypes, Stages, Arriving, NotStarted
<1>3. \A c \in Conns : pc[c] # "discover"
  BY DEF Init
<1> QED
  BY <1>1, <1>2, <1>3 DEF ShapeInv

LEMMA CurrentIsConfig == ControlTypes => tables \in Seq(Configs) /\ Gen \in Nat \ {0} /\ Current \in Configs
<1> SUFFICES ASSUME ControlTypes PROVE tables \in Seq(Configs) /\ Gen \in Nat \ {0} /\ Current \in Configs
  OBVIOUS
<1>1. tables \in Seq(Configs) /\ Len(tables) > 0
  BY Zenon DEF ControlTypes, Gen
<1> QED
  BY <1>1 DEF Gen, Current

LEMMA ReturnKeepsShape ==
  ASSUME ShapeInv, NEW c \in Conns, Return(c), SessionFrame
  PROVE  ShapeInv'
<1>1. ControlTypes'
  BY DEF ShapeInv, ControlTypes, SessionFrame, procVars, acceptVars, Gen
<1>2. SessionTypes'
  BY DEF ShapeInv, SessionTypes, SessionFrame, Return, GoTo, Stages, Teardown, NotStarted
<1>3. \A d \in Conns : pc'[d] = "discover" => attempt'[d] = 0
  BY DEF ShapeInv, SessionTypes, Return, GoTo
<1> QED
  BY <1>1, <1>2, <1>3 DEF ShapeInv

LEMMA ContinueKeepsShape ==
  ASSUME ShapeInv, NEW c \in Conns, NEW stage \in Session, Continue(c, stage), SessionFrame,
         req' \in [Conns -> Requests \cup {NoRequest}],
         attempt' \in [Conns -> {0, 1}], \A d \in Conns \ {c} : attempt'[d] = attempt[d],
         stage = "discover" => attempt'[c] = 0,
         DOMAIN route' = Conns, target' \in [Conns -> Addrs \cup {NoAddr}],
         pickGen' \in [Conns -> Nat]
  PROVE  ShapeInv'
<1>1. ControlTypes'
  BY DEF ShapeInv, ControlTypes, SessionFrame, procVars, acceptVars, Gen
<1>2. SessionTypes'
  BY DEF ShapeInv, SessionTypes, SessionFrame, Continue, GoTo, Stages
<1>3. \A d \in Conns : pc'[d] = "discover" => attempt'[d] = 0
  BY DEF ShapeInv, SessionTypes, Continue, GoTo
<1> QED
  BY <1>1, <1>2, <1>3 DEF ShapeInv

LEMMA NotFoundKeepsShape ==
  ASSUME ShapeInv, NEW c \in Conns, NotFound(c), SessionFrame
  PROVE  ShapeInv'
<1>1. CASE Return(c)
  BY <1>1, ReturnKeepsShape
<1>2. CASE attempt[c] = 0 /\ Continue(c, "discover") /\ UNCHANGED <<req, attempt, route, target, pickGen>>
  BY <1>2, ContinueKeepsShape DEF ShapeInv, SessionTypes, Session
<1> QED
  BY <1>1, <1>2 DEF NotFound

LEMMA SessionKeepsShape ==
  ASSUME ShapeInv, NEW c \in Conns, SessionStep(c) \/ Discover(c)
  PROVE  ShapeInv'
<1> USE DEF Session
<1>1. CASE Negotiate(c)
  <2>1. CASE Return(c)
    BY <1>1, <2>1, ReturnKeepsShape DEF Negotiate
  <2>2. CASE \E r \in Requests : req' = [req EXCEPT ![c] = r] /\ Continue(c, "lookup")
                                /\ UNCHANGED <<attempt, route, target, pickGen>>
    BY <1>1, <2>2, ContinueKeepsShape DEF Negotiate, ShapeInv, SessionTypes
  <2> QED
    BY <1>1, <2>1, <2>2 DEF Negotiate
<1>2. CASE Lookup(c)
  BY <1>2, NotFoundKeepsShape, ContinueKeepsShape DEF Lookup, ShapeInv, SessionTypes
<1>3. CASE Acquire(c)
  BY <1>3, ReturnKeepsShape, ContinueKeepsShape DEF Acquire, ShapeInv, SessionTypes
<1>4. CASE Pick(c)
  <2>1. CASE \E a \in Addrs :
               /\ target' = [target EXCEPT ![c] = a] /\ pickGen' = [pickGen EXCEPT ![c] = Gen]
               /\ Continue(c, "connect") /\ UNCHANGED <<dials, req, attempt, route>> /\ SessionFrame
    <3>1. Gen \in Nat
      BY CurrentIsConfig DEF ShapeInv
    <3> QED
      BY <2>1, <3>1, ContinueKeepsShape DEF ShapeInv, SessionTypes
  <2>2. CASE SessionFrame /\ (Return(c) \/ NotFound(c))
    BY <2>2, ReturnKeepsShape, NotFoundKeepsShape
  <2>3. Current \in Configs
    BY CurrentIsConfig DEF ShapeInv
  <2> QED
    BY <1>4, <2>1, <2>2, <2>3, ConfigsAssumption DEF Pick
<1>5. CASE Dial(c)
  BY <1>5, ReturnKeepsShape, ContinueKeepsShape DEF Dial, ShapeInv, SessionTypes
<1>6. CASE Reply(c)
  BY <1>6, ReturnKeepsShape, ContinueKeepsShape DEF Reply, ShapeInv, SessionTypes
<1>7. CASE RelayEnds(c)
  BY <1>7, ReturnKeepsShape DEF RelayEnds
<1>8. CASE Discover(c)
  <2>1. CASE Return(c)
    BY <1>8, <2>1, ReturnKeepsShape DEF Discover
  <2>2. CASE /\ attempt' = [attempt EXCEPT ![c] = @ + 1]
             /\ Continue(c, "lookup") /\ UNCHANGED <<req, route, target, pickGen>>
    <3>1. attempt[c] = 0
      BY <1>8 DEF Discover, ShapeInv
    <3>2. attempt' = [attempt EXCEPT ![c] = 1]
      BY <2>2, <3>1
    <3> QED
      BY <1>8, <2>2, <3>2, ContinueKeepsShape DEF Discover, ShapeInv, SessionTypes
  <2> QED
    BY <1>8, <2>1, <2>2 DEF Discover
<1>9. ASSUME NEW d \in Half, NEW result \in CopyResults, CopyHalf(c, d, result)
      PROVE  ShapeInv'
  <2>1. ControlTypes'
    BY <1>9 DEF CopyHalf, ShapeInv, ControlTypes, SessionFrame, procVars, acceptVars, Gen
  <2>2. SessionTypes'
    BY <1>9 DEF CopyHalf, ShapeInv, SessionTypes, SessionFrame
  <2> QED
    BY <1>9, <2>1, <2>2 DEF CopyHalf, ShapeInv
<1>10. CASE ReleaseSlot(c) \/ DecAndClose(c) \/ WgDone(c)
  <2>1. ControlTypes'
    BY <1>10 DEF ReleaseSlot, DecAndClose, WgDone, TeardownFrame, ShapeInv, ControlTypes,
                 procVars, acceptVars, Gen
  <2>2. SessionTypes' /\ \A d \in Conns : pc'[d] = "discover" => attempt'[d] = 0
    BY <1>10 DEF ReleaseSlot, DecAndClose, WgDone, TeardownFrame, ShapeInv, SessionTypes,
                 GoTo, connVars, history, Stages, Teardown
  <2> QED
    BY <2>1, <2>2 DEF ShapeInv
<1> QED
  BY <1>1, <1>2, <1>3, <1>4, <1>5, <1>6, <1>7, <1>8, <1>9, <1>10 DEF SessionStep

LEMMA AcceptLoopKeepsShape ==
  ASSUME ShapeInv, ServeStep \/ \E c \in Conns : Connect(c)
  PROVE  ShapeInv'
<1> USE DEF ShapeInv
<1>1. ASSUME NEW c \in Conns, Connect(c) PROVE ShapeInv'
  <2>1. ControlTypes'
    BY <1>1 DEF Connect, ControlTypes, procVars, acceptVars, Gen
  <2>2. SessionTypes' /\ \A d \in Conns : pc'[d] = "discover" => attempt'[d] = 0
    BY <1>1 DEF Connect, SessionTypes, GoTo, connVars, history, Stages, Arriving
  <2> QED
    BY <2>1, <2>2
<1>2. CASE Listen \/ StoreListener \/ AcceptFails
  <2>1. ControlTypes'
    BY <1>2 DEF Listen, StoreListener, AcceptFails, ControlTypes, procVars, Gen
  <2>2. UNCHANGED <<pc, connVars, history>>
    BY <1>2 DEF Listen, StoreListener, AcceptFails
  <2> QED
    BY <2>1, <2>2 DEF SessionTypes, connVars, history
<1>3. ASSUME NEW c \in Conns, Accept(c) \/ Admit(c) \/ StartSession(c) PROVE ShapeInv'
  <2>1. /\ UNCHANGED <<procVars, listener, tables>> /\ servePc' \in {servePc, "busy", "accept"}
        /\ UNCHANGED <<connVars, pickGen>>
        /\ GoTo(c, "accepted") \/ GoTo(c, "admitted") \/ GoTo(c, "refused") \/ GoTo(c, "negotiate")
        /\ accGen' = accGen \/ accGen' = [accGen EXCEPT ![c] = Gen]
        /\ late' \in {late, late \cup {c}}
    BY <1>3 DEF Accept, Admit, TurnAway, StartSession, history
  <2>2. ControlTypes'
    BY <2>1 DEF ControlTypes, procVars, Gen
  <2>3. Gen \in Nat
    BY CurrentIsConfig
  <2>4. SessionTypes' /\ \A d \in Conns : pc'[d] = "discover" => attempt'[d] = 0
    BY <2>1, <2>3 DEF SessionTypes, GoTo, connVars, Stages, Arriving, Session
  <2> QED
    BY <2>2, <2>4
<1> QED
  BY <1>1, <1>2, <1>3 DEF ServeStep

LEMMA MainKeepsShape ==
  ASSUME ShapeInv, MainStep
  PROVE  ShapeInv'
<1> USE DEF ShapeInv
<1>1. ASSUME NEW t \in Configs, UpdateRouter(t) PROVE ShapeInv'
  <2>1. tables' \in Seq(Configs) /\ Len(tables') > 0
    BY <1>1, CurrentIsConfig DEF UpdateRouter
  <2>2. UNCHANGED <<mainPc, exit, zeroSeen, listener, servePc, pc, req, attempt, route, target,
                    halves, accGen, pickGen, late>>
    BY <1>1 DEF UpdateRouter, procVars, acceptVars, connVars, history
  <2>3. ControlTypes'
    BY <2>1, <2>2, Zenon DEF ControlTypes, Gen
  <2> QED
    BY <2>2, <2>3 DEF SessionTypes
<1>2. CASE ServeFailed \/ Signal \/ Shutdown \/ WaitReturns \/ Exit
  <2>1. ControlTypes'
    BY <1>2 DEF ServeFailed, Signal, Shutdown, WaitReturns, Exit, MainFrame, ControlTypes,
                acceptVars, Gen
  <2>2. \/ UNCHANGED pc
        \/ pc' = [c \in Conns |-> IF pc[c] = "backlog" THEN "refused" ELSE pc[c]]
    BY <1>2 DEF ServeFailed, Signal, Shutdown, WaitReturns, Exit
  <2>3. UNCHANGED <<req, attempt, route, target, halves, accGen, pickGen, late>>
    BY <1>2 DEF ServeFailed, Signal, Shutdown, WaitReturns, Exit, MainFrame, connVars, history
  <2>4. pc' \in [Conns -> Stages] /\ \A d \in Conns : pc'[d] = "discover" => pc[d] = "discover"
    BY <2>2 DEF SessionTypes, Stages
  <2> QED
    BY <2>1, <2>3, <2>4 DEF SessionTypes
<1> QED
  BY <1>1, <1>2 DEF MainStep

LEMMA ShapeNext == ShapeInv /\ [Next]_vars => ShapeInv'
<1> SUFFICES ASSUME ShapeInv, [Next]_vars PROVE ShapeInv'
  OBVIOUS
<1>1. CASE UNCHANGED vars
  <2>1. ControlTypes' /\ SessionTypes' /\ UNCHANGED <<pc, attempt>>
    BY <1>1 DEF vars, procVars, acceptVars, connVars, history, ShapeInv, ControlTypes, Gen, SessionTypes
  <2> QED
    BY <2>1 DEF ShapeInv
<1> QED
  BY <1>1, SessionKeepsShape, AcceptLoopKeepsShape, MainKeepsShape DEF Next, Gone

-----------------------------------------------------------------------------
(* Counters. *)

Begun == {"admitted"} \cup Session
Tcp == {"syn", "established", "fin", "rst"}
Opened == tcp["established"] - tcp["fin"] - tcp["rst"]

LEMMA InitCount == Init => CountInv
<1> SUFFICES ASSUME Init PROVE CountInv
  OBVIOUS
<1>1. \A stages : "new" \notin stages => In(stages) = {}
  BY DEF Init, In
<1>2. In(HoldsSlot) = {} /\ In(HoldsDial) = {} /\ In(InWaitGroup) = {} /\ In(InGauge) = {}
      /\ In({"relay"}) = {} /\ In({"admitted"} \cup Session) = {}
  BY <1>1 DEF HoldsSlot, HoldsDial, InWaitGroup, InGauge, Session, Teardown
<1>3. tcp \in [Tcp -> Nat] /\ \A s \in Tcp : tcp[s] = 0
  BY DEF Init, Tcp
<1>4. Cardinality({}) = 0
  BY FS_EmptySet
<1>5. slots = 0 /\ dials = 0 /\ wg = 0 /\ gauge = 0 /\ ended = 0
  BY DEF Init
<1>6. Accounting
  BY <1>2, <1>4, <1>5 DEF Accounting
<1>7. tcp["syn"] = 0 /\ tcp["established"] = 0 /\ tcp["fin"] = 0 /\ tcp["rst"] = 0
  BY <1>3 DEF Tcp
<1>8. MetricsBalance
  BY <1>2, <1>4, <1>5, <1>7 DEF MetricsBalance
<1> QED
  BY <1>3, <1>5, <1>6, <1>8 DEF CountInv, Tcp

(* If one session moves and the counters with it, they still agree. *)
LEMMA CountersFollow ==
  ASSUME CountInv, pc \in [Conns -> Stages], NEW c \in Conns, NEW stage \in Stages, GoTo(c, stage),
         slots' = slots + Has(HoldsSlot, stage) - Has(HoldsSlot, pc[c]),
         dials' = dials + Has(HoldsDial, stage) - Has(HoldsDial, pc[c]),
         wg' = wg + Has(InWaitGroup, stage) - Has(InWaitGroup, pc[c]),
         gauge' = gauge + Has(InGauge, stage) - Has(InGauge, pc[c]),
         ended' \in Nat, tcp' \in [Tcp -> Nat],
         Opened' = Opened + Has({"relay"}, stage) - Has({"relay"}, pc[c]),
         tcp'["syn"] - ended' = tcp["syn"] - ended + Has(Begun, stage) - Has(Begun, pc[c])
  PROVE  CountInv'
<1> DEFINE N(stages) == Cardinality(In(stages))
<1>1. ASSUME NEW stages
      PROVE  N(stages) \in Nat /\ N(stages)' = N(stages) + Has(stages, stage) - Has(stages, pc[c])
  <2>1. N(stages) \in Nat
    BY InIsFinite
  <2>2. Cardinality(In(stages)') = Cardinality(In(stages)) + Has(stages, stage) - Has(stages, pc[c])
    BY CountFollows
  <2> QED
    BY <2>1, <2>2
<1>2. \A stages, s : Has(stages, s) \in {0, 1}
  BY DEF Has
<1>3. Accounting'
  BY <1>1, <1>2 DEF CountInv, Accounting
<1>4. MetricsBalance'
  <2>1. /\ \A s \in Tcp : tcp[s] \in Nat /\ tcp'[s] \in Nat
        /\ "syn" \in Tcp /\ "established" \in Tcp /\ "fin" \in Tcp /\ "rst" \in Tcp
        /\ ended \in Nat
    BY DEF CountInv, Tcp
  <2>2. Opened = N({"relay"}) /\ tcp["syn"] - ended = N(Begun)
    BY <1>1, <2>1 DEF CountInv, MetricsBalance, Opened, Begun
  <2>3. Opened' = N({"relay"})' /\ tcp'["syn"] - ended' = N(Begun)'
    BY <1>1, <1>2, <2>2
  <2> HIDE DEF N
  <2>4. N({"relay"})' \in Int /\ N(Begun)' \in Int
    BY <1>1, <1>2
  <2>5. /\ tcp'["established"] = tcp'["fin"] + tcp'["rst"] + N({"relay"})'
        /\ tcp'["syn"] = ended' + N(Begun)'
    BY <2>1, <2>3, <2>4 DEF Opened
  <2> QED
    BY <2>5 DEF MetricsBalance, N, Begun
<1> QED
  BY <1>3, <1>4 DEF CountInv, Tcp

(* Counting one TCP event. *)
LEMMA CountAddsOne ==
  ASSUME tcp \in [Tcp -> Nat], NEW s \in Tcp, Count(s)
  PROVE  tcp' \in [Tcp -> Nat] /\ \A x \in Tcp : tcp'[x] = IF x = s THEN tcp[x] + 1 ELSE tcp[x]
  BY DEF Count

LEMMA ReturnKeepsCount ==
  ASSUME ShapeInv, CountInv, NEW c \in Conns, Return(c), SessionFrame, pc[c] \in Session,
         dials' = dials - Has(HoldsDial, pc[c]),
         \/ pc[c] # "relay" /\ UNCHANGED tcp
         \/ pc[c] = "relay" /\ \E s \in {"fin", "rst"} : Count(s)
  PROVE  CountInv'
<1> DEFINE from == pc[c]
<1>1. /\ Has(HoldsSlot, from) = 1 /\ Has(HoldsSlot, "release") = 1
      /\ Has(InWaitGroup, from) = 1 /\ Has(InWaitGroup, "release") = 1
      /\ Has(InGauge, from) = 1 /\ Has(InGauge, "release") = 1
      /\ Has(Begun, from) = 1 /\ Has(Begun, "release") = 0
      /\ Has(HoldsDial, "release") = 0 /\ Has({"relay"}, "release") = 0
      /\ "release" \in Stages
  BY DEF Has, HoldsSlot, InWaitGroup, InGauge, HoldsDial, Begun, Session, Teardown, Stages
<1>2. /\ slots \in Nat /\ dials \in Nat /\ wg \in Nat /\ gauge \in Nat /\ ended \in Nat
      /\ tcp \in [Tcp -> Nat] /\ Has(HoldsDial, from) \in {0, 1}
  BY InIsFinite DEF CountInv, Accounting, Tcp, Has
<1>3. /\ GoTo(c, "release") /\ ended' = ended + 1 /\ UNCHANGED <<slots, wg, gauge>>
  BY DEF Return, SessionFrame
<1>4. /\ pc \in [Conns -> Stages]
      /\ slots' = slots + Has(HoldsSlot, "release") - Has(HoldsSlot, pc[c])
      /\ dials' = dials + Has(HoldsDial, "release") - Has(HoldsDial, pc[c])
      /\ wg' = wg + Has(InWaitGroup, "release") - Has(InWaitGroup, pc[c])
      /\ gauge' = gauge + Has(InGauge, "release") - Has(InGauge, pc[c])
      /\ ended' \in Nat
  BY <1>1, <1>2, <1>3 DEF ShapeInv, SessionTypes
<1>5. CASE from # "relay" /\ UNCHANGED tcp
  <2>1. Has({"relay"}, from) = 0
    BY <1>5 DEF Has
  <2>2. Opened' = Opened /\ tcp'["syn"] \in Nat /\ tcp["syn"] \in Nat /\ Opened \in Int
    BY <1>2, <1>5 DEF Opened, Tcp
  <2>3. /\ Opened' = Opened + Has({"relay"}, "release") - Has({"relay"}, pc[c])
        /\ tcp'["syn"] - ended' = tcp["syn"] - ended + Has(Begun, "release") - Has(Begun, pc[c])
        /\ tcp' \in [Tcp -> Nat]
    BY <1>1, <1>2, <1>3, <1>5, <2>1, <2>2
  <2> QED
    BY <1>1, <1>3, <1>4, <2>3, CountersFollow
<1>6. CASE from = "relay" /\ \E s \in {"fin", "rst"} : Count(s)
  <2>1. Has({"relay"}, from) = 1
    BY <1>6 DEF Has
  <2>2. /\ tcp' \in [Tcp -> Nat] /\ tcp'["established"] = tcp["established"]
        /\ tcp'["syn"] = tcp["syn"]
        /\ tcp'["fin"] + tcp'["rst"] = tcp["fin"] + tcp["rst"] + 1
    BY <1>2, <1>6, CountAddsOne DEF Tcp
  <2>3. Opened' = Opened - 1 /\ tcp["syn"] \in Nat /\ Opened \in Int
    BY <1>2, <2>2 DEF Opened, Tcp
  <2>4. /\ Opened' = Opened + Has({"relay"}, "release") - Has({"relay"}, pc[c])
        /\ tcp'["syn"] - ended' = tcp["syn"] - ended + Has(Begun, "release") - Has(Begun, pc[c])
        /\ tcp' \in [Tcp -> Nat]
    BY <1>1, <1>2, <1>3, <1>6, <2>1, <2>2, <2>3
  <2> QED
    BY <1>1, <1>3, <1>4, <2>4, CountersFollow
<1> QED
  BY <1>5, <1>6

LEMMA ContinueKeepsCount ==
  ASSUME ShapeInv, CountInv, NEW c \in Conns, NEW stage \in Session, Continue(c, stage), SessionFrame,
         pc[c] \in Session, pc[c] # "relay",
         dials' = dials + Has(HoldsDial, stage) - Has(HoldsDial, pc[c]),
         \/ stage # "relay" /\ UNCHANGED tcp
         \/ stage = "relay" /\ Count("established")
  PROVE  CountInv'
<1> DEFINE from == pc[c]
<1>1. /\ Has(HoldsSlot, from) = 1 /\ Has(HoldsSlot, stage) = 1
      /\ Has(InWaitGroup, from) = 1 /\ Has(InWaitGroup, stage) = 1
      /\ Has(InGauge, from) = 1 /\ Has(InGauge, stage) = 1
      /\ Has(Begun, from) = 1 /\ Has(Begun, stage) = 1
      /\ Has({"relay"}, from) = 0
      /\ stage \in Stages
  BY DEF Has, HoldsSlot, InWaitGroup, InGauge, Begun, Stages
<1>2. /\ slots \in Nat /\ dials \in Nat /\ wg \in Nat /\ gauge \in Nat /\ ended \in Nat
      /\ tcp \in [Tcp -> Nat] /\ Has(HoldsDial, from) \in {0, 1} /\ Has(HoldsDial, stage) \in {0, 1}
  BY InIsFinite DEF CountInv, Accounting, Tcp, Has
<1>3. /\ GoTo(c, stage) /\ UNCHANGED <<slots, wg, gauge, ended>>
  BY DEF Continue, SessionFrame
<1>4. /\ pc \in [Conns -> Stages]
      /\ slots' = slots + Has(HoldsSlot, stage) - Has(HoldsSlot, pc[c])
      /\ dials' = dials + Has(HoldsDial, stage) - Has(HoldsDial, pc[c])
      /\ wg' = wg + Has(InWaitGroup, stage) - Has(InWaitGroup, pc[c])
      /\ gauge' = gauge + Has(InGauge, stage) - Has(InGauge, pc[c])
      /\ ended' \in Nat
  BY <1>1, <1>2, <1>3 DEF ShapeInv, SessionTypes
<1>5. CASE stage # "relay" /\ UNCHANGED tcp
  <2>1. Has({"relay"}, stage) = 0
    BY <1>5 DEF Has
  <2>2. Opened' = Opened /\ tcp'["syn"] \in Nat /\ tcp["syn"] \in Nat /\ Opened \in Int
    BY <1>2, <1>5 DEF Opened, Tcp
  <2>3. /\ Opened' = Opened + Has({"relay"}, stage) - Has({"relay"}, pc[c])
        /\ tcp'["syn"] - ended' = tcp["syn"] - ended + Has(Begun, stage) - Has(Begun, pc[c])
        /\ tcp' \in [Tcp -> Nat]
    BY <1>1, <1>2, <1>3, <1>5, <2>1, <2>2
  <2> QED
    BY <1>1, <1>3, <1>4, <2>3, CountersFollow
<1>6. CASE stage = "relay" /\ Count("established")
  <2>1. Has({"relay"}, stage) = 1
    BY <1>6 DEF Has
  <2>2. /\ tcp' \in [Tcp -> Nat] /\ tcp'["established"] = tcp["established"] + 1
        /\ tcp'["syn"] = tcp["syn"] /\ tcp'["fin"] = tcp["fin"] /\ tcp'["rst"] = tcp["rst"]
    BY <1>2, <1>6, CountAddsOne DEF Tcp
  <2>3. Opened' = Opened + 1 /\ tcp["syn"] \in Nat /\ Opened \in Int
    BY <1>2, <2>2 DEF Opened, Tcp
  <2>4. /\ Opened' = Opened + Has({"relay"}, stage) - Has({"relay"}, pc[c])
        /\ tcp'["syn"] - ended' = tcp["syn"] - ended + Has(Begun, stage) - Has(Begun, pc[c])
        /\ tcp' \in [Tcp -> Nat]
    BY <1>1, <1>2, <1>3, <1>6, <2>1, <2>2, <2>3
  <2> QED
    BY <1>1, <1>3, <1>4, <2>4, CountersFollow
<1> QED
  BY <1>5, <1>6

(* A move outside handleConnection. *)
LEMMA OutsideKeepsCount ==
  ASSUME ShapeInv, CountInv, NEW c \in Conns, NEW stage \in Stages, GoTo(c, stage),
         UNCHANGED <<dials, ended>>, pc[c] \notin HoldsDial, stage \notin HoldsDial,
         slots' = slots + Has(HoldsSlot, stage) - Has(HoldsSlot, pc[c]),
         wg' = wg + Has(InWaitGroup, stage) - Has(InWaitGroup, pc[c]),
         gauge' = gauge + Has(InGauge, stage) - Has(InGauge, pc[c]),
         pc[c] # "relay", stage # "relay",
         \/ UNCHANGED tcp /\ Has(Begun, stage) = Has(Begun, pc[c])
         \/ Count("syn") /\ stage \in Begun /\ pc[c] \notin Begun
  PROVE  CountInv'
<1>1. /\ dials \in Nat /\ ended \in Nat /\ tcp \in [Tcp -> Nat] /\ pc \in [Conns -> Stages]
  BY InIsFinite DEF CountInv, Accounting, Tcp, ShapeInv, SessionTypes
<1>2. /\ Has(HoldsDial, stage) = 0 /\ Has(HoldsDial, pc[c]) = 0
      /\ Has({"relay"}, stage) = 0 /\ Has({"relay"}, pc[c]) = 0
      /\ Has(Begun, stage) \in {0, 1} /\ Has(Begun, pc[c]) \in {0, 1}
  BY DEF Has
<1>3. /\ tcp' \in [Tcp -> Nat] /\ Opened' = Opened /\ Opened \in Int
      /\ tcp'["syn"] - ended' = tcp["syn"] - ended + Has(Begun, stage) - Has(Begun, pc[c])
  <2>1. CASE UNCHANGED tcp /\ Has(Begun, stage) = Has(Begun, pc[c])
    BY <1>1, <1>2, <2>1 DEF Opened, Tcp
  <2>2. CASE Count("syn") /\ stage \in Begun /\ pc[c] \notin Begun
    <3>1. Has(Begun, stage) = 1 /\ Has(Begun, pc[c]) = 0
      BY <2>2 DEF Has
    <3>2. /\ tcp' \in [Tcp -> Nat] /\ tcp'["syn"] = tcp["syn"] + 1 /\ tcp["syn"] \in Nat
          /\ tcp'["established"] = tcp["established"] /\ tcp'["fin"] = tcp["fin"]
          /\ tcp'["rst"] = tcp["rst"]
      BY <1>1, <2>2, CountAddsOne DEF Tcp
    <3> QED
      BY <1>1, <3>1, <3>2 DEF Opened, Tcp
  <2> QED
    BY <2>1, <2>2
<1>4. /\ ended' \in Nat /\ dials' = dials + Has(HoldsDial, stage) - Has(HoldsDial, pc[c])
      /\ Opened' = Opened + Has({"relay"}, stage) - Has({"relay"}, pc[c])
  BY <1>1, <1>2, <1>3
<1> QED
  BY <1>1, <1>3, <1>4, CountersFollow

(* The counters stay, and nobody changes between the stages that count. *)
LEMMA QuietKeepsCount ==
  ASSUME CountInv, UNCHANGED counters,
         \/ UNCHANGED pc
         \/ pc' = [c \in Conns |-> IF pc[c] = "backlog" THEN "refused" ELSE pc[c]]
  PROVE  CountInv'
<1>1. \A stages : "backlog" \notin stages /\ "refused" \notin stages => In(stages)' = In(stages)
  BY DEF In
<1>2. /\ In(HoldsSlot)' = In(HoldsSlot) /\ In(HoldsDial)' = In(HoldsDial)
      /\ In(InWaitGroup)' = In(InWaitGroup) /\ In(InGauge)' = In(InGauge)
      /\ In({"relay"})' = In({"relay"})
      /\ In({"admitted"} \cup Session)' = In({"admitted"} \cup Session)
  BY <1>1 DEF HoldsSlot, HoldsDial, InWaitGroup, InGauge, Session, Teardown
<1> QED
  BY <1>2 DEF CountInv, Accounting, MetricsBalance, counters

LEMMA NotFoundKeepsCount ==
  ASSUME ShapeInv, CountInv, NEW c \in Conns, NotFound(c), SessionFrame, UNCHANGED tcp,
         \/ pc[c] = "lookup" /\ UNCHANGED dials
         \/ pc[c] = "pick" /\ ReleaseDial
  PROVE  CountInv'
<1>1. pc[c] \in Session /\ pc[c] # "relay" /\ "discover" \in Session
  BY DEF Session
<1>2. dials \in Nat
  BY InIsFinite DEF CountInv, Accounting
<1>3. dials' = dials - Has(HoldsDial, pc[c]) /\ Has(HoldsDial, "discover") = 0
      /\ Has(HoldsDial, pc[c]) \in {0, 1}
  BY <1>2 DEF Has, HoldsDial, ReleaseDial
<1>4. dials' = dials + Has(HoldsDial, "discover") - Has(HoldsDial, pc[c])
  BY <1>2, <1>3
<1> QED
  BY <1>1, <1>3, <1>4, ReturnKeepsCount, ContinueKeepsCount DEF NotFound

LEMMA SessionKeepsCount ==
  ASSUME ShapeInv, CountInv, NEW c \in Conns, SessionStep(c) \/ Discover(c)
  PROVE  CountInv'
<1> DEFINE D(s) == Has(HoldsDial, s)
<1>0. /\ dials \in Nat /\ slots \in Nat /\ wg \in Nat /\ gauge \in Nat
      /\ D("pick") = 1 /\ D("connect") = 1 /\ D("negotiate") = 0 /\ D("lookup") = 0
      /\ D("acquire") = 0 /\ D("discover") = 0 /\ D("reply") = 0 /\ D("relay") = 0
      /\ \A s \in {"pick", "connect", "negotiate", "lookup", "acquire", "discover", "reply", "relay"} :
           s \in Session
  BY InIsFinite DEF CountInv, Accounting, Has, HoldsDial, Session
<1> HIDE DEF D
<1>1. CASE Negotiate(c)
  BY <1>0, <1>1, ReturnKeepsCount, ContinueKeepsCount DEF Negotiate, D
<1>2. CASE Lookup(c)
  BY <1>0, <1>2, NotFoundKeepsCount, ContinueKeepsCount DEF Lookup, D
<1>3. CASE Acquire(c)
  BY <1>0, <1>3, ReturnKeepsCount, ContinueKeepsCount DEF Acquire, D
<1>4. CASE Pick(c)
  <2>1. CASE SessionFrame /\ UNCHANGED <<tcp, dials>> /\ Continue(c, "connect")
    BY <1>0, <1>4, <2>1, ContinueKeepsCount DEF Pick, D
  <2>2. CASE SessionFrame /\ UNCHANGED tcp /\ ReleaseDial /\ Return(c)
    BY <1>0, <1>4, <2>2, ReturnKeepsCount DEF Pick, D, ReleaseDial
  <2>3. CASE SessionFrame /\ UNCHANGED tcp /\ ReleaseDial /\ NotFound(c)
    BY <1>4, <2>3, NotFoundKeepsCount DEF Pick
  <2> QED
    BY <1>4, <2>1, <2>2, <2>3 DEF Pick
<1>5. CASE Dial(c)
  BY <1>0, <1>5, ReturnKeepsCount, ContinueKeepsCount DEF Dial, D, ReleaseDial
<1>6. CASE Reply(c)
  BY <1>0, <1>6, ReturnKeepsCount, ContinueKeepsCount DEF Reply, D
<1>7. CASE RelayEnds(c)
  <2>1. \E s \in {"fin", "rst"} : Count(s)
    BY <1>7 DEF RelayEnds, CloseType
  <2> QED
    BY <1>0, <1>7, <2>1, ReturnKeepsCount DEF RelayEnds, D
<1>8. CASE Discover(c)
  BY <1>0, <1>8, ReturnKeepsCount, ContinueKeepsCount DEF Discover, D
<1>9. ASSUME NEW d \in Half, NEW result \in CopyResults, CopyHalf(c, d, result)
      PROVE  CountInv'
  BY <1>9, QuietKeepsCount DEF CopyHalf, SessionFrame, counters
<1>10. CASE ReleaseSlot(c)
  <2>1. /\ Has(HoldsSlot, "release") = 1 /\ Has(HoldsSlot, "dec") = 0
        /\ Has(InWaitGroup, "release") = 1 /\ Has(InWaitGroup, "dec") = 1
        /\ Has(InGauge, "release") = 1 /\ Has(InGauge, "dec") = 1
        /\ Has(Begun, "release") = 0 /\ Has(Begun, "dec") = 0
        /\ "dec" \in Stages /\ "release" \notin HoldsDial /\ "dec" \notin HoldsDial
    BY DEF Has, HoldsSlot, InWaitGroup, InGauge, HoldsDial, Begun, Session, Teardown, Stages
  <2> QED
    BY <1>0, <1>10, <2>1, OutsideKeepsCount DEF ReleaseSlot, TeardownFrame
<1>11. CASE DecAndClose(c)
  <2>1. /\ Has(HoldsSlot, "dec") = 0 /\ Has(HoldsSlot, "wgdone") = 0
        /\ Has(InWaitGroup, "dec") = 1 /\ Has(InWaitGroup, "wgdone") = 1
        /\ Has(InGauge, "dec") = 1 /\ Has(InGauge, "wgdone") = 0
        /\ Has(Begun, "dec") = 0 /\ Has(Begun, "wgdone") = 0
        /\ "wgdone" \in Stages /\ "dec" \notin HoldsDial /\ "wgdone" \notin HoldsDial
    BY DEF Has, HoldsSlot, InWaitGroup, InGauge, HoldsDial, Begun, Session, Teardown, Stages
  <2> QED
    BY <1>0, <1>11, <2>1, OutsideKeepsCount DEF DecAndClose, TeardownFrame
<1>12. CASE WgDone(c)
  <2>1. /\ Has(HoldsSlot, "wgdone") = 0 /\ Has(HoldsSlot, "closed") = 0
        /\ Has(InWaitGroup, "wgdone") = 1 /\ Has(InWaitGroup, "closed") = 0
        /\ Has(InGauge, "wgdone") = 0 /\ Has(InGauge, "closed") = 0
        /\ Has(Begun, "wgdone") = 0 /\ Has(Begun, "closed") = 0
        /\ "closed" \in Stages /\ "wgdone" \notin HoldsDial /\ "closed" \notin HoldsDial
    BY DEF Has, HoldsSlot, InWaitGroup, InGauge, HoldsDial, Begun, Session, Teardown, Stages
  <2> QED
    BY <1>0, <1>12, <2>1, OutsideKeepsCount DEF WgDone, TeardownFrame
<1> QED
  BY <1>1, <1>2, <1>3, <1>4, <1>5, <1>6, <1>7, <1>8, <1>9, <1>10, <1>11, <1>12 DEF SessionStep

LEMMA AcceptLoopKeepsCount ==
  ASSUME ShapeInv, CountInv, ServeStep \/ \E c \in Conns : Connect(c)
  PROVE  CountInv'
<1> DEFINE Uncounted == {"new", "backlog", "accepted", "refused"}
<1>0. /\ dials \in Nat /\ slots \in Nat /\ wg \in Nat /\ gauge \in Nat
      /\ Uncounted \subseteq Stages
      /\ \A s \in Uncounted : /\ s \notin HoldsDial /\ s # "relay" /\ s \notin Begun
                              /\ Has(HoldsSlot, s) = 0 /\ Has(InWaitGroup, s) = 0
                              /\ Has(InGauge, s) = 0 /\ Has(Begun, s) = 0
  BY InIsFinite DEF CountInv, Accounting, Has, HoldsSlot, InWaitGroup, InGauge, HoldsDial, Begun,
                    Session, Teardown, Stages, Arriving
<1>1. /\ "admitted" \in Stages /\ "admitted" \notin HoldsDial /\ "admitted" \in Begun
      /\ Has(HoldsSlot, "admitted") = 1 /\ Has(InWaitGroup, "admitted") = 0
      /\ Has(InGauge, "admitted") = 1 /\ Has(Begun, "admitted") = 1
  BY DEF Has, HoldsSlot, InWaitGroup, InGauge, HoldsDial, Begun, Session, Teardown, Stages, Arriving
<1>2. /\ "negotiate" \in Stages /\ "negotiate" \notin HoldsDial
      /\ Has(HoldsSlot, "negotiate") = 1 /\ Has(InWaitGroup, "negotiate") = 1
      /\ Has(InGauge, "negotiate") = 1 /\ Has(Begun, "negotiate") = 1
  BY DEF Has, HoldsSlot, InWaitGroup, InGauge, HoldsDial, Begun, Session, Stages
<1>3. ASSUME NEW c \in Conns, NEW s \in Uncounted, pc[c] \in Uncounted, GoTo(c, s), UNCHANGED counters
      PROVE  CountInv'
  BY <1>0, <1>3, OutsideKeepsCount DEF counters
<1>4. ASSUME NEW c \in Conns, Connect(c) PROVE CountInv'
  BY <1>3, <1>4 DEF Connect
<1>5. CASE Listen \/ StoreListener \/ AcceptFails
  BY <1>5, QuietKeepsCount DEF Listen, StoreListener, AcceptFails
<1>6. ASSUME NEW c \in Conns, Accept(c) PROVE CountInv'
  BY <1>3, <1>6 DEF Accept
<1>7. ASSUME NEW c \in Conns, Admit(c) PROVE CountInv'
  <2>1. CASE GoTo(c, "refused") /\ UNCHANGED counters
    BY <1>3, <1>7, <2>1 DEF Admit
  <2>2. CASE /\ slots' = slots + 1 /\ gauge' = gauge + 1 /\ Count("syn") /\ GoTo(c, "admitted")
             /\ UNCHANGED <<dials, wg, ended>>
    BY <1>0, <1>1, <1>7, <2>2, OutsideKeepsCount DEF Admit
  <2> QED
    BY <1>7, <2>1, <2>2 DEF Admit, TurnAway, counters
<1>8. ASSUME NEW c \in Conns, StartSession(c) PROVE CountInv'
  BY <1>0, <1>1, <1>2, <1>8, OutsideKeepsCount DEF StartSession
<1> QED
  BY <1>4, <1>5, <1>6, <1>7, <1>8 DEF ServeStep

LEMMA CountNext == ShapeInv /\ CountInv /\ [Next]_vars => CountInv'
<1> SUFFICES ASSUME ShapeInv, CountInv, [Next]_vars PROVE CountInv'
  OBVIOUS
<1>1. CASE UNCHANGED vars
  BY <1>1, QuietKeepsCount DEF vars
<1>2. CASE MainStep
  BY <1>2, QuietKeepsCount DEF MainStep, UpdateRouter, ServeFailed, Signal, Shutdown, WaitReturns,
                               Exit, MainFrame
<1> QED
  BY <1>1, <1>2, SessionKeepsCount, AcceptLoopKeepsCount DEF Next, Gone
-----------------------------------------------------------------------------
(* Limits. *)
LEMMA LimitNext == CountInv /\ LimitInv /\ [Next]_vars => LimitInv'
<1> SUFFICES ASSUME CountInv, LimitInv, [Next]_vars PROVE LimitInv'
  OBVIOUS
<1>1. slots \in Nat /\ dials \in Nat
  BY InIsFinite DEF CountInv, Accounting
<1>2. slots' \in {slots, slots - 1} \/ (SlotFree /\ slots' = slots + 1)
  <2>1. CASE ServeStep
    BY <2>1 DEF ServeStep, Listen, StoreListener, AcceptFails, Accept, Admit, StartSession, counters
  <2>2. CASE MainStep
    BY <2>2 DEF MainStep, UpdateRouter, ServeFailed, Signal, Shutdown, WaitReturns, Exit, MainFrame,
                counters
  <2>3. ASSUME NEW c \in Conns, Connect(c) \/ SessionStep(c) \/ Discover(c)
        PROVE  slots' \in {slots, slots - 1}
    BY <2>3 DEF Connect, SessionStep, Negotiate, Lookup, Acquire, Pick, Dial, Reply, RelayEnds,
                CopyHalf, ReleaseSlot, DecAndClose, WgDone, Discover, SessionFrame, counters
  <2> QED
    BY <2>1, <2>2, <2>3 DEF Next, Gone, vars, counters
<1>3. dials' \in {dials, dials - 1} \/ (DialFree /\ dials' = dials + 1)
  <2>1. CASE ServeStep
    BY <2>1 DEF ServeStep, Listen, StoreListener, AcceptFails, Accept, Admit, StartSession, counters
  <2>2. CASE MainStep
    BY <2>2 DEF MainStep, UpdateRouter, ServeFailed, Signal, Shutdown, WaitReturns, Exit, MainFrame,
                counters
  <2>3. ASSUME NEW c \in Conns, Connect(c) \/ SessionStep(c) \/ Discover(c)
        PROVE  dials' \in {dials, dials - 1} \/ (DialFree /\ dials' = dials + 1)
    BY <2>3 DEF Connect, SessionStep, Negotiate, Lookup, Acquire, Pick, Dial, Reply, RelayEnds,
                CopyHalf, ReleaseSlot, DecAndClose, WgDone, Discover, TeardownFrame, ReleaseDial,
                counters
  <2> QED
    BY <2>1, <2>2, <2>3 DEF Next, Gone, vars, counters
<1> QED
  BY <1>1, <1>2, <1>3, LimitsAssumption DEF LimitInv, SlotFree, DialFree

-----------------------------------------------------------------------------
(* Routes. *)
LEMMA OneKeepsRoute ==
  ASSUME RouteInv, NEW c \in Conns, RouteOk(c)', UNCHANGED tables,
         \A d \in Conns \ {c} :
           /\ pc'[d] = pc[d] /\ target'[d] = target[d] /\ accGen'[d] = accGen[d]
           /\ pickGen'[d] = pickGen[d] /\ route'[d] = route[d]
  PROVE  RouteInv'
<1>1. ASSUME NEW d \in Conns, d # c PROVE RouteOk(d)'
  BY <1>1 DEF RouteInv, RouteOk, Gen
<1> QED
  BY <1>1 DEF RouteInv

LEMMA ReturnKeepsRoute ==
  ASSUME ShapeInv, RouteInv, NEW c \in Conns, Return(c), SessionFrame
  PROVE  RouteInv'
<1>1. RouteOk(c)'
  BY DEF ShapeInv, SessionTypes, Return, GoTo, RouteOk, Granted, Session
<1> QED
  BY <1>1, OneKeepsRoute DEF ShapeInv, SessionTypes, Return, GoTo, SessionFrame

(* A session that goes on without a backend, or keeps the one it has. *)
LEMMA ContinueKeepsRoute ==
  ASSUME ShapeInv, RouteInv, NEW c \in Conns, NEW stage \in Session, Continue(c, stage), SessionFrame,
         pc[c] \in Session, UNCHANGED <<target, pickGen>>,
         pc[c] \in Granted => stage \in Granted /\ UNCHANGED route,
         \A d \in Conns \ {c} : route'[d] = route[d]
  PROVE  RouteInv'
<1>1. /\ pc'[c] = stage /\ target'[c] = target[c] /\ accGen'[c] = accGen[c] /\ pickGen'[c] = pickGen[c]
      /\ UNCHANGED tables /\ \A d \in Conns \ {c} : pc'[d] = pc[d] /\ accGen'[d] = accGen[d]
  BY DEF ShapeInv, SessionTypes, Continue, GoTo, SessionFrame
<1>2. RouteOk(c)
  BY DEF RouteInv
<1>3. RouteOk(c)'
  BY <1>1, <1>2 DEF RouteOk, Gen
<1> QED
  BY <1>1, <1>3, OneKeepsRoute

LEMMA NotFoundKeepsRoute ==
  ASSUME ShapeInv, RouteInv, NEW c \in Conns, NotFound(c), SessionFrame, pc[c] \in {"lookup", "pick"}
  PROVE  RouteInv'
  BY ReturnKeepsRoute, ContinueKeepsRoute DEF NotFound, Session, Granted

LEMMA SessionKeepsRoute ==
  ASSUME ShapeInv, RouteInv, NEW c \in Conns, SessionStep(c) \/ Discover(c)
  PROVE  RouteInv'
<1> USE DEF Session, Granted
<1>1. CASE Negotiate(c)
  BY <1>1, ReturnKeepsRoute, ContinueKeepsRoute DEF Negotiate
<1>2. CASE Lookup(c)
  <2>1. CASE NotFound(c)
    BY <1>2, <2>1, NotFoundKeepsRoute DEF Lookup
  <2>2. CASE \E key : route' = [route EXCEPT ![c] = key] /\ Continue(c, "acquire")
                      /\ UNCHANGED <<req, attempt, target, pickGen>>
    BY <1>2, <2>2, ContinueKeepsRoute DEF Lookup, ShapeInv, SessionTypes
  <2> QED
    BY <1>2, <2>1, <2>2 DEF Lookup
<1>3. CASE Acquire(c)
  BY <1>3, ReturnKeepsRoute, ContinueKeepsRoute DEF Acquire
<1>4. CASE Pick(c)
  <2>1. CASE Return(c) \/ NotFound(c)
    BY <1>4, <2>1, ReturnKeepsRoute, NotFoundKeepsRoute DEF Pick
  <2>2. ASSUME NEW a \in Current.routes[route[c]], route[c] \in DOMAIN Current.routes,
               target' = [target EXCEPT ![c] = a], pickGen' = [pickGen EXCEPT ![c] = Gen],
               Continue(c, "connect"), UNCHANGED route
        PROVE  RouteInv'
    <3>1. /\ pc'[c] = "connect" /\ target'[c] = a /\ accGen'[c] = accGen[c] /\ pickGen'[c] = Gen
          /\ UNCHANGED tables /\ route'[c] = route[c]
          /\ \A d \in Conns \ {c} : /\ pc'[d] = pc[d] /\ accGen'[d] = accGen[d] /\ target'[d] = target[d]
                                    /\ pickGen'[d] = pickGen[d] /\ route'[d] = route[d]
      BY <1>4, <2>2 DEF Pick, ShapeInv, SessionTypes, Continue, GoTo, SessionFrame
    <3>2. accGen[c] \in 1..Gen /\ Gen \in Nat
      BY <1>4, CurrentIsConfig DEF Pick, RouteInv, RouteOk, ShapeInv
    <3>3. RouteOk(c)'
      BY <2>2, <3>1, <3>2 DEF RouteOk, Gen, Current
    <3> QED
      BY <3>1, <3>3, OneKeepsRoute
  <2> QED
    BY <1>4, <2>1, <2>2 DEF Pick
<1>5. CASE Dial(c)
  BY <1>5, ReturnKeepsRoute, ContinueKeepsRoute DEF Dial
<1>6. CASE Reply(c)
  BY <1>6, ReturnKeepsRoute, ContinueKeepsRoute DEF Reply
<1>7. CASE RelayEnds(c)
  BY <1>7, ReturnKeepsRoute DEF RelayEnds
<1>8. CASE Discover(c)
  BY <1>8, ReturnKeepsRoute, ContinueKeepsRoute DEF Discover
<1>9. ASSUME NEW d \in Half, NEW result \in CopyResults, CopyHalf(c, d, result)
      PROVE  RouteInv'
  <2>1. UNCHANGED <<pc, target, accGen, pickGen, route, tables>>
    BY <1>9 DEF CopyHalf, SessionFrame
  <2> QED
    BY <2>1 DEF RouteInv, RouteOk, Gen
<1>10. CASE ReleaseSlot(c) \/ DecAndClose(c) \/ WgDone(c)
  <2>1. /\ UNCHANGED <<target, accGen, pickGen, route, tables>>
        /\ pc[c] \notin Granted /\ pc'[c] \notin Session
        /\ \A d \in Conns \ {c} : pc'[d] = pc[d]
    BY <1>10 DEF ReleaseSlot, DecAndClose, WgDone, TeardownFrame, connVars, history, GoTo, ShapeInv,
                 SessionTypes
  <2>2. RouteOk(c)'
    BY <2>1 DEF RouteInv, RouteOk
  <2> QED
    BY <2>1, <2>2, OneKeepsRoute
<1> QED
  BY <1>1, <1>2, <1>3, <1>4, <1>5, <1>6, <1>7, <1>8, <1>9, <1>10 DEF SessionStep

LEMMA RouteNext == ShapeInv /\ RouteInv /\ [Next]_vars => RouteInv'
<1> SUFFICES ASSUME ShapeInv, RouteInv, [Next]_vars PROVE RouteInv'
  OBVIOUS
<1>1. ASSUME UNCHANGED <<tables, target, accGen, pickGen, route>>,
             \A d \in Conns : pc'[d] = pc[d] \/ (pc[d] \notin Granted /\ pc'[d] \notin Session)
      PROVE  RouteInv'
  BY <1>1 DEF RouteInv, RouteOk, Gen, Session, Granted
<1>2. CASE UNCHANGED vars
  BY <1>1, <1>2 DEF vars, connVars, history
<1>3. ASSUME NEW c \in Conns, Connect(c) \/ Accept(c) \/ Admit(c) PROVE RouteInv'
  BY <1>1, <1>3 DEF Connect, Accept, Admit, TurnAway, GoTo, connVars, history, ShapeInv, SessionTypes,
                    Granted, Session
<1>4. CASE Listen \/ StoreListener \/ AcceptFails
  BY <1>1, <1>4 DEF Listen, StoreListener, AcceptFails, connVars, history
<1>5. ASSUME NEW c \in Conns, StartSession(c) PROVE RouteInv'
  <2>1. /\ UNCHANGED <<tables, target, pickGen, route>> /\ pc[c] \notin Granted
        /\ accGen'[c] = Gen
        /\ \A d \in Conns \ {c} : pc'[d] = pc[d] /\ accGen'[d] = accGen[d]
    BY <1>5 DEF StartSession, GoTo, connVars, ShapeInv, SessionTypes, Granted
  <2>2. RouteOk(c)'
    BY <2>1, CurrentIsConfig DEF RouteInv, RouteOk, Gen, ShapeInv
  <2> QED
    BY <2>1, <2>2, OneKeepsRoute
<1>6. ASSUME NEW t \in Configs, UpdateRouter(t) PROVE RouteInv'
  <2>1. UNCHANGED <<pc, target, accGen, pickGen, route>>
    BY <1>6 DEF UpdateRouter, connVars, history
  <2>2. /\ tables \in Seq(Configs) /\ Gen \in Nat /\ Gen' = Gen + 1
        /\ \A n \in 1..Gen : tables'[n] = tables[n]
    BY <1>6, CurrentIsConfig DEF UpdateRouter, Gen, ShapeInv
  <2>3. ASSUME NEW c \in Conns PROVE RouteOk(c)'
    <3>1. target[c] # NoAddr => accGen[c] \in 1..Gen
      BY DEF RouteInv, RouteOk, Granted, Session
    <3>2. accGen[c] \in Nat /\ pickGen[c] \in Nat
      BY DEF ShapeInv, SessionTypes
    <3> QED
      BY <2>1, <2>2, <3>1, <3>2 DEF RouteInv, RouteOk
  <2> QED
    BY <2>3 DEF RouteInv
<1>7. CASE ServeFailed \/ Signal \/ Shutdown \/ WaitReturns \/ Exit
  BY <1>1, <1>7 DEF ServeFailed, Signal, Shutdown, WaitReturns, Exit, MainFrame, connVars, history,
                    Granted, Session
<1> QED
  BY <1>2, <1>3, <1>4, <1>5, <1>6, <1>7, SessionKeepsRoute DEF Next, Gone, ServeStep, MainStep

-----------------------------------------------------------------------------
(* Draining. *)
LEMMA InitDrain == Init => DrainInv
<1> SUFFICES ASSUME Init PROVE DrainInv
  OBVIOUS
<1>1. In(InHand) = {} /\ ~zeroSeen /\ late = {} /\ listener = "none" /\ exit = "none"
  BY DEF Init, In, InHand, None
<1> QED
  BY <1>1 DEF DrainInv

(* A session goroutine is in the WaitGroup and touches nothing of this. *)
LEMMA SessionStaysInside ==
  ASSUME ShapeInv, NEW c \in Conns, SessionStep(c) \/ Discover(c)
  PROVE  /\ UNCHANGED <<mainPc, exit, zeroSeen, listener, servePc, late>>
         /\ pc[c] \in InWaitGroup /\ pc'[c] \notin InHand
         /\ \A d \in Conns \ {c} : pc'[d] = pc[d]
<1> USE DEF InWaitGroup, Session, Teardown, InHand, SessionFrame, TeardownFrame, procVars, acceptVars,
            history, GoTo, Return, Continue, ShapeInv, SessionTypes
<1>1. CASE Negotiate(c) \/ Acquire(c) \/ Dial(c) \/ Reply(c) \/ RelayEnds(c) \/ Discover(c)
  BY <1>1 DEF Negotiate, Acquire, Dial, Reply, RelayEnds, Discover
<1>2. CASE Lookup(c) \/ Pick(c)
  BY <1>2 DEF Lookup, Pick, NotFound
<1>3. CASE ReleaseSlot(c) \/ DecAndClose(c) \/ WgDone(c)
  BY <1>3 DEF ReleaseSlot, DecAndClose, WgDone
<1>4. ASSUME NEW d \in Half, NEW result \in CopyResults, CopyHalf(c, d, result)
      PROVE  /\ UNCHANGED <<mainPc, exit, zeroSeen, listener, servePc, late, pc>>
             /\ pc[c] = "relay"
  BY <1>4 DEF CopyHalf
<1> QED
  BY <1>1, <1>2, <1>3, <1>4 DEF SessionStep

LEMMA DrainNext == ShapeInv /\ CountInv /\ DrainInv /\ [Next]_vars => DrainInv'
<1> SUFFICES ASSUME ShapeInv, CountInv, DrainInv, [Next]_vars PROVE DrainInv'
  OBVIOUS
<1>0. late \subseteq Conns /\ pc \in [Conns -> Stages]
  BY DEF ShapeInv, SessionTypes
<1>1. CASE UNCHANGED vars
  BY <1>1 DEF vars, procVars, acceptVars, history, DrainInv, In
<1>2. ASSUME NEW c \in Conns, SessionStep(c) \/ Discover(c) PROVE DrainInv'
  <2>1. /\ UNCHANGED <<mainPc, exit, zeroSeen, listener, servePc, late>>
        /\ pc[c] \in InWaitGroup /\ pc'[c] \notin InHand
        /\ \A d \in Conns \ {c} : pc'[d] = pc[d]
    BY <1>2, SessionStaysInside
  <2>2. In(InHand)' \subseteq In(InHand) /\ In(InWaitGroup)' \subseteq In(InWaitGroup)
    BY <2>1 DEF In
  <2> QED
    BY <2>1, <2>2 DEF DrainInv
<1>3. ASSUME NEW c \in Conns, Connect(c) PROVE DrainInv'
  <2>1. /\ UNCHANGED <<mainPc, exit, zeroSeen, listener, servePc, late>>
        /\ In(InHand)' = In(InHand) /\ In(InWaitGroup)' = In(InWaitGroup)
    BY <1>0, <1>3 DEF Connect, procVars, acceptVars, history, GoTo, In, InHand, InWaitGroup, Session, Teardown
  <2> QED
    BY <2>1 DEF DrainInv
<1>4. CASE Listen \/ StoreListener \/ AcceptFails
  <2>1. /\ UNCHANGED <<mainPc, exit, zeroSeen, late, pc>>
        /\ servePc # "busy" /\ servePc' # "busy"
        /\ listener' = "closed" => listener = "closed"
    BY <1>4 DEF Listen, StoreListener, AcceptFails, procVars, history
  <2> QED
    BY <2>1 DEF DrainInv, In
<1>5. ASSUME NEW c \in Conns, Accept(c) PROVE DrainInv'
  <2>1. /\ UNCHANGED <<mainPc, exit, zeroSeen, listener, late>> /\ listener = "open"
        /\ servePc = "accept" /\ servePc' = "busy"
        /\ pc[c] = "backlog" /\ pc'[c] = "accepted" /\ \A d \in Conns \ {c} : pc'[d] = pc[d]
    BY <1>0, <1>5 DEF Accept, procVars, history, GoTo
  <2>2. In(InHand) = {} /\ In(InHand)' \subseteq {c}
    BY <2>1 DEF DrainInv, In
  <2>3. In(InWaitGroup)' \subseteq In(InWaitGroup)
    BY <2>1 DEF In, InWaitGroup, Session, Teardown
  <2> QED
    BY <2>1, <2>2, <2>3 DEF DrainInv
<1>6. ASSUME NEW c \in Conns, Admit(c) PROVE DrainInv'
  <2>1. /\ UNCHANGED <<mainPc, exit, zeroSeen, listener, late>>
        /\ servePc = "busy" /\ servePc' \in {"busy", "accept"}
        /\ pc[c] = "accepted" /\ pc'[c] \in {"admitted", "refused"}
        /\ servePc' # "busy" => pc'[c] = "refused"
        /\ \A d \in Conns \ {c} : pc'[d] = pc[d]
    BY <1>0, <1>6 DEF Admit, TurnAway, procVars, history, GoTo
  <2>2. In(InHand) = {c}
    BY <2>1 DEF DrainInv, In, InHand
  <2>3. In(InHand)' \subseteq {c} /\ (pc'[c] = "refused" => In(InHand)' = {})
    BY <2>1, <2>2 DEF In, InHand
  <2>4. In(InWaitGroup)' \subseteq In(InWaitGroup)
    BY <2>1 DEF In, InWaitGroup, Session, Teardown
  <2> QED
    BY <2>1, <2>3, <2>4 DEF DrainInv
<1>7. ASSUME NEW c \in Conns, StartSession(c) PROVE DrainInv'
  <2>1. /\ UNCHANGED <<mainPc, exit, zeroSeen, listener>> /\ mainPc # "exited"
        /\ servePc = "busy" /\ servePc' = "accept"
        /\ pc[c] = "admitted" /\ pc'[c] = "negotiate" /\ \A d \in Conns \ {c} : pc'[d] = pc[d]
        /\ late' = IF mainPc = "waiting" THEN late \cup {c} ELSE late
    BY <1>0, <1>7 DEF StartSession, procVars, GoTo, Running
  <2>2. In(InHand)' = {}
    <3>1. c \in In(InHand)
      BY <2>1 DEF In, InHand
    <3>2. \A d \in In(InHand) : d = c
      BY <3>1 DEF DrainInv
    <3> QED
      BY <2>1, <3>2 DEF In, InHand
  <2>3. In(InWaitGroup)' \subseteq In(InWaitGroup) \cup {c}
    BY <2>1 DEF In
  <2>4. mainPc \in {"run", "closing", "waiting"}
    BY <2>1, Zenon DEF ShapeInv, ControlTypes
  <2>5. listener = "closed" => Cardinality(late') <= 1
    <3>1. Cardinality({}) = 0 /\ Cardinality({c}) = 1
      BY FS_Singleton, FS_EmptySet
    <3>2. listener = "closed" => late' = {} \/ late' = {c}
      BY <2>1 DEF DrainInv
    <3> QED
      BY <3>1, <3>2
  <2> QED
    BY <2>1, <2>2, <2>3, <2>4, <2>5 DEF DrainInv
<1>8. ASSUME NEW t \in Configs, UpdateRouter(t) PROVE DrainInv'
  BY <1>8 DEF UpdateRouter, procVars, acceptVars, history, DrainInv, In
<1>9. CASE ServeFailed \/ Signal
  <2>1. /\ UNCHANGED <<zeroSeen, listener, servePc, late, pc>> /\ mainPc = "run"
        /\ exit' \in {exit, "serve failed"}
    BY <1>9 DEF ServeFailed, Signal, acceptVars, MainFrame, history
  <2> QED
    BY <2>1 DEF DrainInv, In
<1>10. CASE Shutdown
  <2>1. /\ UNCHANGED <<exit, zeroSeen, servePc, late>> /\ mainPc = "closing" /\ mainPc' = "waiting"
        /\ \A d \in Conns : pc'[d] = pc[d] \/ pc'[d] = "refused"
    BY <1>10 DEF Shutdown, MainFrame, history
  <2>2. In(InHand)' \subseteq In(InHand) /\ late' = {} /\ ~zeroSeen'
    BY <2>1 DEF DrainInv, In, InHand
  <2>3. Cardinality(late') <= 1
    BY <2>2, FS_EmptySet
  <2>4. exit' # "all active tunnels finished"
    BY <2>1 DEF DrainInv
  <2>5. (servePc' # "busy" => In(InHand)' = {}) /\ \A c, d \in In(InHand)' : c = d
    BY <2>1, <2>2 DEF DrainInv
  <2> QED
    BY <2>1, <2>2, <2>3, <2>4, <2>5, Zenon DEF DrainInv
<1>11. CASE WaitReturns
  <2>1. In(InWaitGroup) = {}
    BY <1>11, InIsFinite, FS_EmptySet DEF WaitReturns, CountInv, Accounting
  <2>2. UNCHANGED <<mainPc, exit, listener, servePc, pc, late>> /\ mainPc = "waiting"
    BY <1>11 DEF WaitReturns, acceptVars, MainFrame, history
  <2> QED
    BY <1>11, <2>1, <2>2 DEF WaitReturns, DrainInv, In
<1>12. CASE Exit
  BY <1>12 DEF Exit, acceptVars, MainFrame, history, DrainInv, In
<1> QED
  BY <1>1, <1>2, <1>3, <1>4, <1>5, <1>6, <1>7, <1>8, <1>9, <1>10, <1>11, <1>12
     DEF Next, Gone, ServeStep, MainStep

-----------------------------------------------------------------------------
(* The theorems. *)
LEMMA InitServerInv == Init => ServerInv
<1> SUFFICES ASSUME Init PROVE ServerInv
  OBVIOUS
<1>1. LimitInv
  BY LimitsAssumption DEF Init, LimitInv
<1>2. \A c \in Conns : target[c] = NoAddr /\ pc[c] \notin Session
  BY DEF Init, Session
<1>3. RouteInv
  BY <1>2 DEF RouteInv, RouteOk
<1> QED
  BY <1>1, <1>3, InitShape, InitCount, InitDrain DEF ServerInv

LEMMA ServerInvNext == ServerInv /\ [Next]_vars => ServerInv'
  BY ShapeNext, CountNext, LimitNext, RouteNext, DrainNext DEF ServerInv

LEMMA ServerInvariant == Spec => []ServerInv
  BY InitServerInv, ServerInvNext, PTL DEF Spec

(***************************************************************************)
(* The state of the server is well typed: no counter, semaphore or         *)
(* WaitGroup goes below zero and no session asks the discoverer twice.     *)
(***************************************************************************)
THEOREM ServerTypeCorrect == Spec => []TypeOK
<1>1. ServerInv => TypeOK
  <2> SUFFICES ASSUME ServerInv PROVE TypeOK
    OBVIOUS
  <2>1. slots \in Nat /\ dials \in Nat /\ wg \in Nat /\ gauge \in Nat
    BY InIsFinite DEF ServerInv, CountInv, Accounting
  <2>2. CounterTypes
    BY <2>1 DEF ServerInv, CountInv, CounterTypes
  <2> QED
    BY <2>2 DEF ServerInv, ShapeInv, TypeOK
<1> QED
  BY <1>1, ServerInvariant, PTL

(***************************************************************************)
(* For any number of clients, limits and reloads, on every path through    *)
(* serveClient and handleConnection: connLimitSem, inflightSem, the        *)
(* WaitGroup and the gauge of active connections are exactly what the      *)
(* sessions hold.                                                          *)
(***************************************************************************)
THEOREM CountersAreExact == Spec => []Accounting
<1>1. ServerInv => Accounting
  BY DEF ServerInv, CountInv
<1> QED
  BY <1>1, ServerInvariant, PTL

(* The TCP counters balance: every relay is open or was counted as closed, *)
(* every session that left handleConnection was counted once.              *)
THEOREM MetricsAreExact == Spec => []MetricsBalance
<1>1. ServerInv => MetricsBalance
  BY DEF ServerInv, CountInv
<1> QED
  BY <1>1, ServerInvariant, PTL

(* max_connections and max_inflight_dials are never exceeded. *)
THEOREM LimitsHold == Spec => []WithinLimits
<1>1. ServerInv => WithinLimits
  <2> SUFFICES ASSUME ServerInv PROVE WithinLimits
    OBVIOUS
  <2>1. In(Session) \in SUBSET In(HoldsSlot) /\ In({"connect"}) \in SUBSET In(HoldsDial)
    BY DEF In, HoldsSlot, HoldsDial
  <2>2. /\ Cardinality(In(Session)) <= Cardinality(In(HoldsSlot))
        /\ Cardinality(In({"connect"})) <= Cardinality(In(HoldsDial))
    BY <2>1, InIsFinite, FS_Subset
  <2>3. /\ Cardinality(In(Session)) \in Nat /\ Cardinality(In(HoldsSlot)) \in Nat
        /\ Cardinality(In({"connect"})) \in Nat /\ Cardinality(In(HoldsDial)) \in Nat
    BY InIsFinite
  <2> QED
    BY <2>2, <2>3, LimitsAssumption DEF ServerInv, CountInv, Accounting, LimitInv, WithinLimits
<1> QED
  BY <1>1, ServerInvariant, PTL

(***************************************************************************)
(* However reloads swap the router between the steps of a session, it is   *)
(* connected only to an address that its route lists in a table installed  *)
(* no earlier than the one it began under.                                 *)
(***************************************************************************)
THEOREM OnlyListedBackends == Spec => []Whitelisted
<1>1. ServerInv => Whitelisted
  BY DEF ServerInv, RouteInv, RouteOk, Whitelisted
<1> QED
  BY <1>1, ServerInvariant, PTL

(***************************************************************************)
(* "all active tunnels finished" is reported only if every session begun   *)
(* before Shutdown is over; after a Shutdown that closed the listener at   *)
(* most one session begins.                                                *)
(***************************************************************************)
THEOREM DrainsBeforeExit == Spec => []DrainIsComplete
<1>1. ServerInv => DrainIsComplete
  BY DEF ServerInv, DrainInv, DrainIsComplete
<1> QED
  BY <1>1, ServerInvariant, PTL

-----------------------------------------------------------------------------
(***************************************************************************)
(* The refinement: the steps of Server under the mapping to Gateway.       *)
(***************************************************************************)
Phase == [c \in Conns |-> PhaseOf(pc[c])]
Grants == [c \in Conns |-> IF target[c] = NoAddr THEN <<>> ELSE <<route[c], target[c]>>]
Policy == PairsOf(Current)
Door == Running /\ listener \in {"bound", "open"}

LEMMA PhaseTable ==
  /\ PhaseOf("new") = "outside" /\ PhaseOf("backlog") = "waiting" /\ PhaseOf("accepted") = "waiting"
  /\ PhaseOf("refused") = "rejected" /\ PhaseOf("admitted") = "serving"
  /\ \A s \in Session : PhaseOf(s) = CASE s \in {"connect", "reply"} -> "granted"
                                       [] s = "relay" -> "tunnel" [] OTHER -> "serving"
  /\ PhaseOf("release") = "leaving"
  /\ PhaseOf("dec") = "gone" /\ PhaseOf("wgdone") = "gone" /\ PhaseOf("closed") = "gone"
  BY DEF PhaseOf, Session

LEMMA PhaseMoves ==
  ASSUME pc \in [Conns -> Stages], NEW c \in Conns, NEW stage, GoTo(c, stage)
  PROVE  /\ Phase' = [Phase EXCEPT ![c] = PhaseOf(stage)]
         /\ PhaseOf(stage) = PhaseOf(pc[c]) => Phase' = Phase
  BY DEF Phase, GoTo

(* Those inside are those who hold a slot. *)
LEMMA InsideIsHoldsSlot == pc \in [Conns -> Stages] => G!Inside = In(HoldsSlot)
<1> SUFFICES ASSUME pc \in [Conns -> Stages] PROVE G!Inside = In(HoldsSlot)
  OBVIOUS
<1>1. ASSUME NEW s \in Stages
      PROVE  PhaseOf(s) \in {"serving", "granted", "tunnel", "leaving"} <=> s \in HoldsSlot
  BY DEF Stages, Arriving, Session, Teardown, HoldsSlot, PhaseOf
<1>2. G!Inside = {c \in Conns : PhaseOf(pc[c]) \in {"serving", "granted", "tunnel", "leaving"}}
  BY DEF G!Inside, G!InsidePhases
<1> QED
  BY <1>1, <1>2 DEF In

LEMMA InitMaps == Init => G!GInit
<1> SUFFICES ASSUME Init PROVE G!GInit
  OBVIOUS
<1>1. Phase = [c \in Conns |-> "outside"]
  BY PhaseTable DEF Init, Phase
<1>2. Grants = [c \in Conns |-> <<>>]
  BY DEF Init, Grants
<1>3. Policy \in {PairsOf(t) : t \in Configs}
  <2>1. PICK t \in Configs : tables = <<t>>
    BY DEF Init
  <2>2. Current = t
    BY <2>1 DEF Current, Gen
  <2> QED
    BY <2>2 DEF Policy
<1>4. Door = FALSE
  BY DEF Init, Door
<1> QED
  BY <1>1, <1>2, <1>3, <1>4, Zenon DEF G!GInit, G!NoGrant, Phase, Grants, Policy, Door

LEMMA StutterMaps ==
  ASSUME UNCHANGED <<Phase, Grants, Policy, Door>>
  PROVE  UNCHANGED G!gvars
  BY DEF G!gvars, Phase, Grants, Policy, Door

(* What a session step leaves alone is what the gateway's rules and door show. *)
LEMMA FrameMaps ==
  ASSUME UNCHANGED <<mainPc, listener, tables>>
  PROVE  UNCHANGED <<Policy, Door>>
<1>1. UNCHANGED Policy
  BY DEF Policy, Current, Gen
<1>2. UNCHANGED Door
  BY DEF Door, Running
<1> QED
  BY <1>1, <1>2

LEMMA ReturnMaps ==
  ASSUME ServerInv, NEW c \in Conns, Return(c), SessionFrame, pc[c] \in Session
  PROVE  G!End(c)
<1>0. pc \in [Conns -> Stages] /\ target \in [Conns -> Addrs \cup {NoAddr}] /\ DOMAIN route = Conns
  BY DEF ServerInv, ShapeInv, SessionTypes
<1>1. Phase[c] \in {"serving", "granted", "tunnel"}
  BY PhaseTable DEF Phase
<1>2. Phase' = [Phase EXCEPT ![c] = "leaving"]
  BY <1>0, PhaseMoves, PhaseTable DEF Return
<1>3. Grants' = [Grants EXCEPT ![c] = <<>>]
  BY <1>0 DEF Grants, Return
<1>4. UNCHANGED <<Policy, Door>>
  BY FrameMaps DEF SessionFrame, procVars, acceptVars
<1> QED
  BY <1>1, <1>2, <1>3, <1>4, Zenon DEF G!End, G!Move, G!NoGrant, Phase, Grants, Policy, Door

(* A session that goes on in the same phase. *)
LEMMA ContinueMaps ==
  ASSUME ServerInv, NEW c \in Conns, NEW stage, Continue(c, stage), SessionFrame,
         PhaseOf(pc[c]) = PhaseOf(stage), UNCHANGED target,
         UNCHANGED route \/ target[c] = NoAddr, \A d \in Conns \ {c} : route'[d] = route[d]
  PROVE  UNCHANGED G!gvars
<1>1. UNCHANGED Phase
  BY PhaseMoves DEF Continue, ServerInv, ShapeInv, SessionTypes
<1>2. UNCHANGED Grants
  BY DEF Grants
<1>3. UNCHANGED <<Policy, Door>>
  BY FrameMaps DEF SessionFrame, procVars, acceptVars
<1> QED
  BY <1>1, <1>2, <1>3, StutterMaps

LEMMA NotFoundMaps ==
  ASSUME ServerInv, NEW c \in Conns, NotFound(c), SessionFrame, pc[c] \in {"lookup", "pick"}
  PROVE  G!End(c) \/ UNCHANGED G!gvars
<1>1. "lookup" \in Session /\ "pick" \in Session /\ "discover" \in Session
  BY DEF Session
<1>2. PhaseOf("discover") = "serving" /\ PhaseOf(pc[c]) = "serving"
  BY <1>1, PhaseTable
<1> QED
  BY <1>1, <1>2, ReturnMaps, ContinueMaps DEF NotFound

(* Every step of a session is a step of its client, or nothing. *)
ClientStep(c) ==
  \/ G!Arrive(c) \/ G!LetIn(c) \/ G!TurnAway(c) \/ G!OpenTunnel(c) \/ G!End(c) \/ G!Leave(c)
  \/ \E p \in Policy : G!Grant(c, p)
  \/ UNCHANGED G!gvars

LEMMA PickMaps ==
  ASSUME ServerInv, NEW c \in Conns, Pick(c)
  PROVE  ClientStep(c)
<1>1. pc[c] = "pick" /\ SessionFrame
  BY DEF Pick
<1>2. CASE Return(c)
  BY <1>1, <1>2, ReturnMaps DEF ClientStep, Session
<1>3. CASE NotFound(c)
  BY <1>1, <1>3, NotFoundMaps DEF ClientStep
<1>4. ASSUME route[c] \in DOMAIN Current.routes, NEW a \in Current.routes[route[c]],
             target' = [target EXCEPT ![c] = a], Continue(c, "connect"), UNCHANGED route
      PROVE  ClientStep(c)
  <2>p. PICK p : p = <<route[c], a>>
    OBVIOUS
  <2>0. pc \in [Conns -> Stages] /\ target \in [Conns -> Addrs \cup {NoAddr}]
        /\ ControlTypes
    BY DEF ServerInv, ShapeInv, SessionTypes
  <2>1. a # NoAddr
    BY <1>4, <2>0, CurrentIsConfig, ConfigsAssumption
  <2>2. p \in Policy
    BY <1>4, <2>p DEF Policy, PairsOf
  <2>3. PhaseOf("pick") = "serving" /\ PhaseOf("connect") = "granted"
    BY PhaseTable DEF Session
  <2>4. Phase[c] = "serving" /\ Phase' = [Phase EXCEPT ![c] = "granted"]
    BY <1>1, <1>4, <2>0, <2>3, PhaseMoves DEF Phase, Continue
  <2>5. Grants' = [Grants EXCEPT ![c] = p]
    <3>1. target'[c] = a /\ \A d \in Conns \ {c} : target'[d] = target[d]
      BY <1>4, <2>0
    <3>2. Grants' = [d \in Conns |-> IF d = c THEN p ELSE Grants[d]]
      BY <1>4, <2>p, <2>1, <3>1 DEF Grants
    <3> QED
      BY <3>2 DEF Grants
  <2>6. UNCHANGED <<Policy, Door>>
    BY <1>1, FrameMaps DEF SessionFrame, procVars, acceptVars
  <2>7. G!Grant(c, p)
    BY <2>2, <2>4, <2>5, <2>6, Zenon DEF G!Grant, G!Move, Phase, Grants, Policy, Door
  <2>8. \E q \in Policy : G!Grant(c, q)
    BY <2>2, <2>7, Zenon
  <2> QED
    BY <2>8, Zenon DEF ClientStep
<1> QED
  BY <1>2, <1>3, <1>4 DEF Pick

LEMMA SessionMaps ==
  ASSUME ServerInv, NEW c \in Conns, SessionStep(c) \/ Discover(c)
  PROVE  ClientStep(c)
<1>0. /\ \A s \in {"negotiate", "lookup", "acquire", "pick", "discover"} :
           PhaseOf(s) = "serving" /\ s \in Session
      /\ \A s \in {"connect", "reply"} : PhaseOf(s) = "granted" /\ s \in Session
      /\ PhaseOf("relay") = "tunnel" /\ "relay" \in Session
  BY PhaseTable DEF Session
<1>a. pc \in [Conns -> Stages] /\ DOMAIN route = Conns
  BY DEF ServerInv, ShapeInv, SessionTypes
<1>1. CASE Negotiate(c)
  BY <1>0, <1>1, ReturnMaps, ContinueMaps DEF Negotiate, ClientStep
<1>2. CASE Lookup(c)
  <2>1. CASE NotFound(c)
    BY <1>2, <2>1, NotFoundMaps DEF Lookup, ClientStep
  <2>2. CASE \E key : route' = [route EXCEPT ![c] = key] /\ Continue(c, "acquire")
                      /\ UNCHANGED <<req, attempt, target, pickGen>>
    <3>1. target[c] = NoAddr /\ pc[c] = "lookup" /\ SessionFrame
      BY <1>2 DEF Lookup, ServerInv, RouteInv, RouteOk, Granted
    <3> QED
      BY <1>0, <1>a, <2>2, <3>1, ContinueMaps DEF ClientStep
  <2> QED
    BY <1>2, <2>1, <2>2 DEF Lookup
<1>3. CASE Acquire(c)
  BY <1>0, <1>3, ReturnMaps, ContinueMaps DEF Acquire, ClientStep
<1>4. CASE Pick(c)
  BY <1>4, PickMaps
<1>5. CASE Dial(c)
  BY <1>0, <1>5, ReturnMaps, ContinueMaps DEF Dial, ClientStep
<1>6. CASE Reply(c)
  <2>1. CASE Return(c)
    BY <1>0, <1>6, <2>1, ReturnMaps DEF Reply, ClientStep
  <2>2. CASE Continue(c, "relay") /\ UNCHANGED <<req, attempt, route, target, pickGen>>
    <3>1. Phase[c] = "granted" /\ Phase' = [Phase EXCEPT ![c] = "tunnel"]
      BY <1>0, <1>a, <1>6, <2>2, PhaseMoves DEF Reply, Continue, Phase
    <3>2. UNCHANGED Grants
      BY <2>2 DEF Grants
    <3>3. UNCHANGED <<Policy, Door>>
      BY <1>6, FrameMaps DEF Reply, SessionFrame, procVars, acceptVars
    <3>4. G!OpenTunnel(c)
      BY <3>1, <3>2, <3>3, Zenon DEF G!OpenTunnel, G!Move, Phase, Grants, Policy, Door
    <3> QED
      BY <3>4 DEF ClientStep
  <2> QED
    BY <1>6, <2>1, <2>2 DEF Reply
<1>7. CASE RelayEnds(c)
  BY <1>0, <1>7, ReturnMaps DEF RelayEnds, ClientStep
<1>8. CASE Discover(c)
  BY <1>0, <1>8, ReturnMaps, ContinueMaps DEF Discover, ClientStep
<1>9. ASSUME NEW d \in Half, NEW result \in CopyResults, CopyHalf(c, d, result)
      PROVE  ClientStep(c)
  <2>1. UNCHANGED <<Phase, Grants>>
    BY <1>9 DEF CopyHalf, Phase, Grants
  <2>2. UNCHANGED <<Policy, Door>>
    BY <1>9, FrameMaps DEF CopyHalf, SessionFrame, procVars, acceptVars
  <2> QED
    BY <2>1, <2>2, StutterMaps DEF ClientStep
<1>10. CASE ReleaseSlot(c) \/ DecAndClose(c) \/ WgDone(c)
  <2>1. UNCHANGED Grants
    BY <1>10 DEF ReleaseSlot, DecAndClose, WgDone, TeardownFrame, connVars, Grants
  <2>2. UNCHANGED <<Policy, Door>>
    BY <1>10, FrameMaps DEF ReleaseSlot, DecAndClose, WgDone, TeardownFrame, procVars, acceptVars
  <2>3. CASE ReleaseSlot(c)
    <3>1. Phase[c] = "leaving" /\ Phase' = [Phase EXCEPT ![c] = "gone"]
      BY <1>a, <2>3, PhaseMoves, PhaseTable DEF ReleaseSlot, Phase
    <3>2. G!Leave(c)
      BY <2>1, <2>2, <3>1, Zenon DEF G!Leave, G!Move, Phase, Grants, Policy, Door
    <3> QED
      BY <3>2 DEF ClientStep
  <2>4. CASE DecAndClose(c) \/ WgDone(c)
    <3>1. UNCHANGED Phase
      BY <1>a, <2>4, PhaseMoves, PhaseTable DEF DecAndClose, WgDone
    <3> QED
      BY <2>1, <2>2, <3>1, StutterMaps DEF ClientStep
  <2> QED
    BY <1>10, <2>3, <2>4
<1> QED
  BY <1>1, <1>2, <1>3, <1>4, <1>5, <1>6, <1>7, <1>8, <1>9, <1>10 DEF SessionStep

(* The instance counts as this module does. *)
LEMMA SameCardinality == G!Cardinality(G!Inside) = Cardinality(G!Inside)
  BY DEF G!Cardinality, Cardinality, G!IsFiniteSet, IsFiniteSet

LEMMA AcceptLoopMaps ==
  ASSUME ServerInv, NEW c \in Conns, Connect(c) \/ Accept(c) \/ Admit(c) \/ StartSession(c)
  PROVE  ClientStep(c)
<1>0. pc \in [Conns -> Stages]
  BY DEF ServerInv, ShapeInv, SessionTypes
<1>1. UNCHANGED Grants
  BY DEF Connect, Accept, Admit, StartSession, connVars, Grants
<1>2. UNCHANGED <<Policy, Door>>
  BY FrameMaps DEF Connect, Accept, Admit, StartSession, procVars, acceptVars
<1>3. CASE Connect(c)
  <2>1. Phase[c] = "outside" /\ Phase' = [Phase EXCEPT ![c] = IF Door THEN "waiting" ELSE "rejected"]
    BY <1>0, <1>3, PhaseMoves, PhaseTable DEF Connect, Phase, Door
  <2>2. G!Arrive(c)
    BY <1>1, <1>2, <2>1, Zenon DEF G!Arrive, G!Move, Phase, Grants, Policy, Door
  <2> QED
    BY <2>2 DEF ClientStep
<1>4. CASE Accept(c) \/ StartSession(c)
  <2>1. UNCHANGED Phase
    BY <1>0, <1>4, PhaseMoves, PhaseTable DEF Accept, StartSession, Session
  <2> QED
    BY <1>1, <1>2, <2>1, StutterMaps DEF ClientStep
<1>5. CASE Admit(c)
  <2>1. Phase[c] = "waiting"
    BY <1>5, PhaseTable DEF Admit, Phase
  <2>2. Cardinality(G!Inside) = slots /\ slots \in Nat
    BY <1>0, InsideIsHoldsSlot, InIsFinite DEF ServerInv, CountInv, Accounting
  <2>a. G!Cardinality(G!Inside) = slots
    BY <2>2, SameCardinality
  <2>3. CASE SlotFree /\ GoTo(c, "admitted")
    <3>1. Phase' = [Phase EXCEPT ![c] = "serving"]
      BY <1>0, <2>3, PhaseMoves, PhaseTable
    <3>2. MaxConns = 0 \/ G!Cardinality(G!Inside) < MaxConns
      BY <2>2, <2>a, <2>3 DEF SlotFree
    <3>3. G!LetIn(c)
      BY <1>1, <1>2, <2>1, <3>1, <3>2, Zenon DEF G!LetIn, G!Move, Phase, Grants, Policy, Door
    <3> QED
      BY <3>3 DEF ClientStep
  <2>4. CASE ~SlotFree /\ GoTo(c, "refused")
    <3>1. Phase' = [Phase EXCEPT ![c] = "rejected"]
      BY <1>0, <2>4, PhaseMoves, PhaseTable
    <3>2. MaxConns # 0 /\ G!Cardinality(G!Inside) >= MaxConns
      BY <2>2, <2>a, <2>4, LimitsAssumption DEF SlotFree
    <3>3. G!TurnAway(c)
      BY <1>1, <1>2, <2>1, <3>1, <3>2, Zenon DEF G!TurnAway, G!Move, Phase, Grants, Policy, Door
    <3> QED
      BY <3>3 DEF ClientStep
  <2> QED
    BY <1>5, <2>3, <2>4 DEF Admit, TurnAway
<1> QED
  BY <1>3, <1>4, <1>5

(* The listener and the main goroutine. *)
LEMMA DoorMaps ==
  ASSUME ServerInv, Listen \/ StoreListener \/ AcceptFails \/ MainStep
  PROVE  \/ G!OpenDoor \/ G!CloseDoor \/ UNCHANGED G!gvars
         \/ \E p \in {PairsOf(t) : t \in Configs} : G!ChangePolicy(p)
<1>0. pc \in [Conns -> Stages]
  BY DEF ServerInv, ShapeInv, SessionTypes
<1>1. ASSUME NEW t \in Configs, UpdateRouter(t)
      PROVE  \E p \in {PairsOf(u) : u \in Configs} : G!ChangePolicy(p)
  <2>1. PICK p : p = PairsOf(t)
    OBVIOUS
  <2>2. tables \in Seq(Configs) /\ Gen \in Nat
    BY CurrentIsConfig DEF ServerInv, ShapeInv
  <2>3. Current' = t
    BY <1>1, <2>2 DEF UpdateRouter, Current, Gen
  <2>4. Policy' = p
    BY <2>1, <2>3 DEF Policy
  <2>5. UNCHANGED <<Phase, Grants>>
    BY <1>1 DEF UpdateRouter, connVars, Phase, Grants
  <2>6. UNCHANGED Door
    BY <1>1 DEF UpdateRouter, procVars, acceptVars, Door, Running
  <2>7. G!ChangePolicy(p)
    BY <2>4, <2>5, <2>6, Zenon DEF G!ChangePolicy, Phase, Grants, Policy, Door
  <2>8. p \in {PairsOf(u) : u \in Configs}
    BY <2>1
  <2> QED
    BY <2>7, <2>8, Zenon
<1> SUFFICES ASSUME \/ Listen \/ StoreListener \/ AcceptFails \/ ServeFailed \/ Signal
                    \/ Shutdown \/ WaitReturns \/ Exit
             PROVE  G!OpenDoor \/ G!CloseDoor \/ UNCHANGED G!gvars
  BY <1>1 DEF MainStep
<1>2. UNCHANGED <<Grants, Policy>>
  BY DEF Listen, StoreListener, AcceptFails, ServeFailed, Signal, Shutdown, WaitReturns, Exit,
         MainFrame, connVars, Grants, Policy, Current, Gen
<1>3. CASE Shutdown /\ listener = "open"
  <2> DEFINE S == In({"backlog"})
  <2>1. Phase' = [c \in Conns |-> IF c \in S THEN "rejected" ELSE Phase[c]]
    BY <1>0, <1>3, PhaseTable DEF Shutdown, Phase, In
  <2>2. S \in SUBSET {c \in Conns : Phase[c] = "waiting"}
    BY PhaseTable DEF In, Phase
  <2>3. Door' = FALSE
    BY <1>3 DEF Shutdown, Door
  <2> HIDE DEF S
  <2>4. G!CloseDoor
    BY <1>2, <2>1, <2>2, <2>3, Zenon DEF G!CloseDoor, Phase, Grants, Policy, Door
  <2> QED
    BY <2>4
<1>4. CASE ~(Shutdown /\ listener = "open")
  <2>1. UNCHANGED Phase
    BY <1>4 DEF Listen, StoreListener, AcceptFails, ServeFailed, Signal, Shutdown, WaitReturns, Exit,
                Phase
  <2>2. CASE ServeFailed \/ Exit
    <3>1. Door' = FALSE
      BY <2>2 DEF ServeFailed, Exit, Door, Running
    <3>2. Phase' = [c \in Conns |-> IF c \in {} THEN "rejected" ELSE Phase[c]]
      BY <2>1 DEF Phase
    <3>3. {} \in SUBSET {c \in Conns : Phase[c] = "waiting"}
      OBVIOUS
    <3>4. G!CloseDoor
      BY <1>2, <3>1, <3>2, <3>3, Zenon DEF G!CloseDoor, Phase, Grants, Policy, Door
    <3> QED
      BY <3>4
  <2>3. CASE Listen /\ listener' = "bound"
    <3>1. Door' = TRUE
      BY <2>3 DEF Listen, Door, Running, procVars
    <3>2. G!OpenDoor
      BY <1>2, <2>1, <3>1, Zenon DEF G!OpenDoor, Phase, Grants, Policy, Door
    <3> QED
      BY <3>2
  <2>4. CASE ~(ServeFailed \/ Exit) /\ ~(Listen /\ listener' = "bound")
    <3>1. UNCHANGED Door
      BY <1>4, <2>4 DEF Listen, StoreListener, AcceptFails, Signal, Shutdown, WaitReturns, procVars,
                        acceptVars, Door, Running
    <3> QED
      BY <1>2, <2>1, <3>1, StutterMaps
  <2> QED
    BY <2>2, <2>3, <2>4
<1> QED
  BY <1>3, <1>4

LEMMA StepMaps == ServerInv /\ [Next]_vars => [G!GNext]_(G!gvars)
<1> SUFFICES ASSUME ServerInv, [Next]_vars PROVE G!GNext \/ UNCHANGED G!gvars
  OBVIOUS
<1>1. CASE UNCHANGED vars
  <2>1. UNCHANGED <<Phase, Grants, Policy, Door>>
    BY <1>1 DEF vars, procVars, acceptVars, connVars, Phase, Grants, Policy, Current, Gen, Door, Running
  <2> QED
    BY <2>1, StutterMaps
<1>2. ASSUME NEW c \in Conns, ClientStep(c) PROVE G!GNext \/ UNCHANGED G!gvars
  BY <1>2, Zenon DEF ClientStep, G!GNext, Policy
<1>3. CASE Listen \/ StoreListener \/ AcceptFails \/ MainStep
  BY <1>3, DoorMaps, Zenon DEF G!GNext
<1> QED
  BY <1>1, <1>2, <1>3, SessionMaps, AcceptLoopMaps DEF Next, Gone, ServeStep

(***************************************************************************)
(* Server implements Gateway for any clients, tables, limits and requests: *)
(* a client is turned away only when max_connections sessions hold a slot  *)
(* or the listener is closed, and is granted at most one backend, one that *)
(* the router current at that moment lists for its route.                  *)
(***************************************************************************)
THEOREM ServerImplementsGateway == Spec => ImplementsGateway
<1>1. Init => G!GInit
  BY InitMaps
<1>2. ServerInv /\ [Next]_vars => [G!GNext]_(G!gvars)
  BY StepMaps
<1> QED
  BY <1>1, <1>2, ServerInvariant, PTL DEF Spec, ImplementsGateway, G!GSpec
=============================================================================
