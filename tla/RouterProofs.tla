---------------------------- MODULE RouterProofs ----------------------------
(***************************************************************************)
(* Proofs about Router, for every set of routes, every number of picking   *)
(* goroutines and every ticket modulus the assumptions of Router allow.    *)
(***************************************************************************)
EXTENDS Router, WellFoundedInduction, TLAPS

(* A non-negative multiple that is smaller than its factor is zero. *)
LEMMA SmallMultiple ==
  ASSUME NEW n \in Nat, NEW d \in Int, NEW r \in 0..(n - 1), NEW t \in 0..(n - 1),
         n * d = t - r
  PROVE  d = 0
<1>1. CASE d >= 1
  <2>1. n * d >= n
    BY <1>1, SMT
  <2>2. t - r < n
    OBVIOUS
  <2> QED
    BY <2>1, <2>2
<1>2. CASE d <= -1
  <2>1. n * d <= -n
    BY <1>2, SMT
  <2>2. t - r > -n
    OBVIOUS
  <2> QED
    BY <2>1, <2>2
<1> QED
  BY <1>1, <1>2

(* The remainder is determined by any decomposition into multiple and rest. *)
LEMMA ModUnique ==
  ASSUME NEW n \in Nat \ {0}, NEW a \in Nat, NEW q \in Int, NEW r \in 0..(n - 1),
         a = n * q + r
  PROVE  a % n = r
<1>1. a % n \in 0..(n - 1) /\ a = n * (a \div n) + (a % n) /\ a \div n \in Int
  OBVIOUS
<1>2. n * (q - (a \div n)) = (a % n) - r
  BY <1>1
<1>3. q - (a \div n) = 0
  BY <1>1, <1>2, SmallMultiple
<1> QED
  BY <1>1, <1>3

(* The wrap of the counter does not disturb the index, because every pool  *)
(* size divides the modulus.                                               *)
LEMMA WrapInvisible ==
  ASSUME NEW n \in Nat \ {0}, NEW k \in Nat \ {0}, NEW x \in Nat
  PROVE  (x % (k * n)) % n = x % n
<1> DEFINE w == k * n
           y == x % w
           z == x \div w
<1>1. w \in Nat \ {0}
  BY SMT
<1>2. y \in Nat /\ z \in Int /\ x = w * z + y
  <2> HIDE DEF w
  <2> QED
    BY <1>1
<1> HIDE DEF y, z
<1> DEFINE p == y \div n
           r == y % n
<1>3. r \in 0..(n - 1) /\ p \in Int /\ y = n * p + r
  BY <1>2
<1> HIDE DEF p, r
<1>4. w * z = n * (k * z)
  BY <1>2
<1>5. k * z \in Int /\ n * (k * z) + n * p = n * (k * z + p)
  BY <1>2, <1>3
<1>6. x = n * (k * z + p) + r /\ k * z + p \in Int
  BY <1>2, <1>3, <1>4, <1>5
<1> DEFINE q == k * z + p
<1> HIDE DEF q
<1>7. x % n = r
  <2>1. x = n * q + r /\ q \in Int
    BY <1>6 DEF q
  <2> QED
    BY <1>3, <2>1, ModUnique
<1> QED
  BY <1>7 DEF r, y

(* n consecutive tickets, read modulo n, name every index of a pool of n. *)
LEMMA ModCover ==
  ASSUME NEW n \in Nat \ {0}, NEW s \in Nat, NEW i \in 0..(n - 1)
  PROVE  \E j \in 0..(n - 1) : (s + j) % n = i
<1>1. s % n \in 0..(n - 1) /\ s = n * (s \div n) + (s % n) /\ s \div n \in Int
  OBVIOUS
<1>2. CASE s % n <= i
  <2>1. i - (s % n) \in 0..(n - 1)
    BY <1>1, <1>2
  <2>2. s + (i - (s % n)) = n * (s \div n) + i
    BY <1>1
  <2>3. (s + (i - (s % n))) % n = i
    BY <1>1, <2>1, <2>2, ModUnique
  <2> QED
    BY <2>1, <2>3
<1>3. CASE s % n > i
  <2>1. i - (s % n) + n \in 0..(n - 1)
    BY <1>1, <1>3
  <2>2. s + (i - (s % n) + n) = n * ((s \div n) + 1) + i
    BY <1>1
  <2>3. s + (i - (s % n) + n) \in Nat /\ (s \div n) + 1 \in Int
    BY <1>1, <2>1
  <2>4. (s + (i - (s % n) + n)) % n = i
    BY <2>2, <2>3, ModUnique
  <2> QED
    BY <2>1, <2>4
<1> QED
  BY <1>1, <1>2, <1>3

(* Sizes of the pools, and what the modulus has to do with them. *)
LEMMA SizeType ==
  ASSUME NEW h \in Hosts
  PROVE  /\ Size(h) \in Nat \ {0}
         /\ Wrap \in Nat \ {0}
         /\ \E k \in Nat \ {0} : Wrap = k * Size(h)
         /\ \A i \in Idx(h) : Routes[h][i] \in AddrsOf(h) /\ Routes[h][i] \in Addrs
<1>1. Routes[h] \in Seq(Addrs) /\ Size(h) > 0
  BY RoutesAssumption
<1>2. Size(h) \in Nat \ {0}
  BY <1>1 DEF Size
<1>3. \A i \in Idx(h) : Routes[h][i] \in AddrsOf(h) /\ Routes[h][i] \in Addrs
  BY <1>1 DEF Idx, Size, AddrsOf
<1> QED
  BY <1>2, <1>3, WrapAssumption

(* The loop of Pick only ever looks at backends of the pool. *)
LEMMA ProbeInPool ==
  ASSUME NEW h \in Hosts, NEW s \in 0..(Wrap - 1), NEW i \in Nat
  PROVE  ProbeIndex(h, s, i) \in Idx(h)
<1>1. Size(h) \in Nat \ {0} /\ Wrap \in Nat \ {0}
  BY SizeType
<1>2. (s + i) % Wrap \in Nat
  BY <1>1
<1>3. ((s + i) % Wrap) % Size(h) \in 0..(Size(h) - 1)
  BY <1>1, <1>2
<1> QED
  BY <1>1, <1>3 DEF ProbeIndex, Idx

(* The backends the first k iterations of a loop with ticket s look at. *)
Probed(h, s, k) == {ProbeIndex(h, s, j) : j \in 0..(k - 1)}

LEMMA ProbedSteps ==
  ASSUME NEW h \in Hosts, NEW s, NEW k \in Nat
  PROVE  /\ Probed(h, s, 0) = {}
         /\ Probed(h, s, k + 1) = Probed(h, s, k) \cup {ProbeIndex(h, s, k)}
<1>1. 0..(0 - 1) = {} /\ 0..((k + 1) - 1) = 0..(k - 1) \cup {k}
  OBVIOUS
<1> QED
  BY <1>1, Zenon DEF Probed

(* Size(h) iterations look at every backend of the pool. *)
LEMMA ProbeCover ==
  ASSUME NEW h \in Hosts, NEW s \in 0..(Wrap - 1)
  PROVE  Probed(h, s, Size(h)) = Idx(h)
<1>1. Size(h) \in Nat \ {0} /\ Wrap \in Nat \ {0} /\ s \in Nat
  BY SizeType
<1>2. PICK k \in Nat \ {0} : Wrap = k * Size(h)
  BY SizeType
<1>3. ASSUME NEW j \in Nat
      PROVE  ((s + j) % Wrap) % Size(h) = (s + j) % Size(h)
  <2>1. s + j \in Nat
    BY <1>1
  <2>2. ((s + j) % (k * Size(h))) % Size(h) = (s + j) % Size(h)
    BY <1>1, <2>1, WrapInvisible, Zenon
  <2> QED
    BY <1>2, <2>2, Zenon
<1>4. ASSUME NEW i \in Idx(h)
      PROVE  \E j \in 0..(Size(h) - 1) : ProbeIndex(h, s, j) = i
  <2>1. i - 1 \in 0..(Size(h) - 1)
    BY <1>1 DEF Idx
  <2>2. PICK j \in 0..(Size(h) - 1) : (s + j) % Size(h) = i - 1
    BY <1>1, <2>1, ModCover
  <2>3. ((s + j) % Wrap) % Size(h) = i - 1
    BY <1>1, <1>3, <2>2
  <2>4. ProbeIndex(h, s, j) = (i - 1) + 1
    BY <2>3, Zenon DEF ProbeIndex
  <2>5. (i - 1) + 1 = i
    BY <1>1 DEF Idx
  <2> QED
    BY <2>4, <2>5
<1>5. \A j \in 0..(Size(h) - 1) : ProbeIndex(h, s, j) \in Idx(h)
  BY <1>1, ProbeInPool
<1> QED
  BY <1>4, <1>5 DEF Probed

-----------------------------------------------------------------------------
(***************************************************************************)
(* The inductive invariant.  NoAliveIsExhaustive is not inductive: it      *)
(* needs that a Pick inside its loop has seen exactly the backends its     *)
(* first off[p] iterations name.  AddressStaysInItsRoute needs that New    *)
(* gave every address an owner that lists it.                              *)
(***************************************************************************)
SeenSoFar ==
  \A p \in Pickers :
    pc[p] = "scan" =>
      /\ res[p] = "none"
      /\ seenDead[p] = Probed(host[p], start[p], off[p])

OwnerListsAddress == \A a \in DOMAIN backendToHost : a \in AddrsOf(backendToHost[a])

AskedInRoute ==
  \A p \in Pickers :
    asked[p] # "none" /\ pc[p] = "scan" => asked[p] \in AddrsOf(host[p])

RouterInv ==
  /\ TypeOK
  /\ SeenSoFar /\ NoAliveIsExhaustive
  /\ OwnerListsAddress /\ AskedInRoute /\ AddressStaysInItsRoute

LEMMA InitInv == Init => RouterInv
<1> SUFFICES ASSUME Init PROVE RouterInv
  OBVIOUS
<1>1. (CHOOSE h \in Hosts : TRUE) \in Hosts
  BY RoutesAssumption
<1>2. /\ \A h \in Hosts : Size(h) \in Nat \ {0}
      /\ Wrap \in Nat \ {0}
  BY SizeType, RoutesAssumption
<1>3. TypeOK
  BY <1>1, <1>2 DEF Init, TypeOK, Owners, Results
<1>4. SeenSoFar /\ NoAliveIsExhaustive /\ AskedInRoute /\ AddressStaysInItsRoute
  BY DEF Init, SeenSoFar, NoAliveIsExhaustive, AskedInRoute, AddressStaysInItsRoute
<1>5. OwnerListsAddress
  BY DEF Init, Owners, OwnerListsAddress
<1> QED
  BY <1>3, <1>4, <1>5 DEF RouterInv

(* Entering the loop of Pick. *)
LEMMA DrawTicketInv ==
  ASSUME RouterInv, NEW p \in Pickers, NEW h \in Hosts, DrawTicket(p, h),
         pc[p] = "idle",
         asked' = [asked EXCEPT ![p] = "none"]
           \/ \E a \in AddrsOf(h) : a \in Addrs /\ asked' = [asked EXCEPT ![p] = a]
  PROVE  RouterInv'
<1> USE DEF RouterInv
<1>1. Size(h) \in Nat \ {0} /\ Wrap \in Nat \ {0}
  BY SizeType
<1>2. rr[h] \in 0..(Wrap - 1)
  BY DEF TypeOK
<1>3. (rr[h] + 1) % Wrap \in 0..(Wrap - 1)
  BY <1>1, <1>2
<1>4. TypeOK'
  <2>1. rr' \in [Hosts -> 0..(Wrap - 1)] /\ start' \in [Pickers -> 0..(Wrap - 1)]
    BY <1>2, <1>3 DEF TypeOK, DrawTicket
  <2>2. pc' \in [Pickers -> {"idle", "scan"}] /\ host' \in [Pickers -> Hosts]
    BY DEF TypeOK, DrawTicket
  <2>6. res' \in [Pickers -> Results]
    BY DEF TypeOK, DrawTicket, Results
  <2>7. asked' \in [Pickers -> Addrs \cup {"none"}]
    BY DEF TypeOK
  <2>3. off' \in [Pickers -> Nat] /\ \A q \in Pickers : off'[q] < Size(host'[q])
    <3>1. off' \in [Pickers -> Nat]
      BY DEF TypeOK, DrawTicket
    <3>2. ASSUME NEW q \in Pickers PROVE off'[q] < Size(host'[q])
      <4>1. CASE q = p
        BY <1>1, <4>1 DEF TypeOK, DrawTicket
      <4>2. CASE q # p
        BY <4>2 DEF TypeOK, DrawTicket
      <4> QED
        BY <4>1, <4>2
    <3> QED
      BY <3>1, <3>2
  <2>4. DOMAIN seenDead' = Pickers /\ \A q \in Pickers : seenDead'[q] \subseteq Idx(host'[q])
    BY DEF TypeOK, DrawTicket
  <2> QED
    BY <2>1, <2>2, <2>3, <2>4, <2>6, <2>7 DEF TypeOK, DrawTicket
<1>5. SeenSoFar'
  <2> SUFFICES ASSUME NEW q \in Pickers, pc'[q] = "scan"
               PROVE  /\ res'[q] = "none"
                      /\ seenDead'[q] = Probed(host'[q], start'[q], off'[q])
    BY DEF SeenSoFar
  <2>1. CASE q = p
    <3>1. Probed(h, rr[h], 0) = {}
      BY ProbedSteps
    <3> QED
      BY <2>1, <3>1 DEF TypeOK, DrawTicket
  <2>2. CASE q # p
    BY <2>2 DEF TypeOK, DrawTicket, SeenSoFar
  <2> QED
    BY <2>1, <2>2
<1>6. NoAliveIsExhaustive'
  BY DEF TypeOK, NoAliveIsExhaustive, DrawTicket
<1>7. OwnerListsAddress' /\ AskedInRoute'
  BY DEF TypeOK, OwnerListsAddress, AskedInRoute, DrawTicket
<1>8. AddressStaysInItsRoute'
  <2>1. "none" \notin Addrs
    BY ErrorsAreNotAddresses
  <2> SUFFICES ASSUME NEW q \in Pickers, asked'[q] # "none"
               PROVE  /\ res'[q] = "route not found" => \A g \in Hosts : asked'[q] \notin AddrsOf(g)
                      /\ res'[q] \in Addrs => {asked'[q], res'[q]} \subseteq AddrsOf(host'[q])
    BY DEF AddressStaysInItsRoute
  <2>2. CASE q = p
    BY <2>1, <2>2 DEF TypeOK, DrawTicket
  <2>3. CASE q # p
    <3>1. asked'[q] = asked[q] /\ res'[q] = res[q] /\ host'[q] = host[q]
      BY <2>3 DEF TypeOK, DrawTicket
    <3> QED
      BY <3>1 DEF AddressStaysInItsRoute
  <2> QED
    BY <2>2, <2>3
<1> QED
  BY <1>4, <1>5, <1>6, <1>7, <1>8

(* A request whose name or address no route knows. *)
LEMMA RefuseInv ==
  ASSUME RouterInv, NEW p \in Pickers, Refuse(p), pc[p] = "idle",
         asked' = [asked EXCEPT ![p] = "none"]
           \/ \E a \in Addrs : /\ asked' = [asked EXCEPT ![p] = a]
                               /\ \A h \in Hosts : a \notin AddrsOf(h)
  PROVE  RouterInv'
<1> USE DEF RouterInv
<1>1. TypeOK'
  <2>1. res' \in [Pickers -> Results]
    BY DEF TypeOK, Refuse, Results
  <2>4. asked' \in [Pickers -> Addrs \cup {"none"}]
    BY DEF TypeOK
  <2>2. DOMAIN seenDead' = Pickers /\ \A q \in Pickers : seenDead'[q] \subseteq Idx(host'[q])
    BY DEF TypeOK, Refuse
  <2> QED
    BY <2>1, <2>2, <2>4 DEF TypeOK, Refuse
<1>2. SeenSoFar'
  <2> SUFFICES ASSUME NEW q \in Pickers, pc'[q] = "scan"
               PROVE  /\ res'[q] = "none"
                      /\ seenDead'[q] = Probed(host'[q], start'[q], off'[q])
    BY DEF SeenSoFar
  <2>1. q # p
    BY DEF Refuse
  <2> QED
    BY <2>1 DEF TypeOK, Refuse, SeenSoFar
<1>3. NoAliveIsExhaustive'
  BY DEF TypeOK, NoAliveIsExhaustive, Refuse
<1>4. OwnerListsAddress' /\ AskedInRoute'
  BY DEF TypeOK, OwnerListsAddress, AskedInRoute, Refuse
<1>5. AddressStaysInItsRoute'
  <2>1. "route not found" \notin Addrs
    BY ErrorsAreNotAddresses
  <2> SUFFICES ASSUME NEW q \in Pickers, asked'[q] # "none"
               PROVE  /\ res'[q] = "route not found" => \A g \in Hosts : asked'[q] \notin AddrsOf(g)
                      /\ res'[q] \in Addrs => {asked'[q], res'[q]} \subseteq AddrsOf(host'[q])
    BY DEF AddressStaysInItsRoute
  <2>2. CASE q = p
    BY <2>1, <2>2 DEF TypeOK, Refuse
  <2>3. CASE q # p
    <3>1. asked'[q] = asked[q] /\ res'[q] = res[q] /\ host'[q] = host[q]
      BY <2>3 DEF TypeOK, Refuse
    <3> QED
      BY <3>1 DEF AddressStaysInItsRoute
  <2> QED
    BY <2>2, <2>3
<1> QED
  BY <1>1, <1>2, <1>3, <1>4, <1>5

(* One iteration of the loop of Pick. *)
LEMMA PickLoadInv ==
  ASSUME RouterInv, NEW p \in Pickers, PickLoad(p)
  PROVE  RouterInv'
<1> USE DEF RouterInv
<1> DEFINE h == host[p]
           s == start[p]
           k == off[p]
           idx == ProbeIndex(h, s, k)
<1>1. /\ h \in Hosts /\ s \in 0..(Wrap - 1) /\ k \in Nat /\ k < Size(h)
      /\ Size(h) \in Nat \ {0} /\ Wrap \in Nat \ {0}
  BY SizeType DEF TypeOK
<1>2. idx \in Idx(h) /\ Routes[h][idx] \in AddrsOf(h) /\ Routes[h][idx] \in Addrs
  BY <1>1, ProbeInPool, SizeType
<1>3. /\ pc[p] = "scan" /\ res[p] = "none" /\ seenDead[p] = Probed(h, s, k)
      /\ seenDead[p] \subseteq Idx(h)
      /\ asked[p] # "none" => asked[p] \in AddrsOf(h)
  BY DEF PickLoad, SeenSoFar, AskedInRoute, TypeOK
<1>4. \A q \in Pickers \ {p} :
        /\ res'[q] = res[q] /\ pc'[q] = pc[q] /\ host'[q] = host[q] /\ off'[q] = off[q]
        /\ start'[q] = start[q] /\ seenDead'[q] = seenDead[q] /\ asked'[q] = asked[q]
  BY DEF PickLoad, TypeOK
<1>5. host'[p] = h /\ asked'[p] = asked[p]
  BY DEF PickLoad
<1>6. \/ /\ pc'[p] = "idle" /\ res'[p] = Routes[h][idx]
         /\ off'[p] = 0 /\ start'[p] = 0 /\ seenDead'[p] = {}
      \/ /\ pc'[p] = "scan" /\ res'[p] = res[p] /\ k + 1 < Size(h)
         /\ off'[p] = k + 1 /\ start'[p] = s
         /\ seenDead'[p] = seenDead[p] \cup {idx}
      \/ /\ pc'[p] = "idle" /\ res'[p] = "no alive backends" /\ k + 1 >= Size(h)
         /\ off'[p] = 0 /\ start'[p] = 0
         /\ seenDead'[p] = seenDead[p] \cup {idx}
  BY <1>3 DEF PickLoad, TypeOK
<1>7. Probed(h, s, k + 1) = Probed(h, s, k) \cup {idx}
  BY <1>1, ProbedSteps
<1> HIDE DEF idx
<1>8. TypeOK'
  <2>1. UNCHANGED <<backendToHost, alive, rr, host, asked, reported>>
    BY DEF PickLoad
  <2>2. pc' \in [Pickers -> {"idle", "scan"}] /\ DOMAIN seenDead' = Pickers
    BY DEF PickLoad, TypeOK
  <2>6. start' \in [Pickers -> 0..(Wrap - 1)]
    <3>1. start' = start \/ start' = [start EXCEPT ![p] = 0]
      BY DEF PickLoad
    <3>2. 0 \in 0..(Wrap - 1)
      BY <1>1
    <3> QED
      BY <3>1, <3>2 DEF TypeOK
  <2>7. off' \in [Pickers -> Nat]
    <3>1. off' = [off EXCEPT ![p] = k + 1] \/ off' = [off EXCEPT ![p] = 0]
      BY DEF PickLoad
    <3>2. k + 1 \in Nat /\ off \in [Pickers -> Nat]
      BY <1>1 DEF TypeOK
    <3> HIDE DEF k
    <3> DEFINE d == k + 1
    <3> HIDE DEF d
    <3>3. off' = [off EXCEPT ![p] = d] \/ off' = [off EXCEPT ![p] = 0]
      BY <3>1 DEF d
    <3>4. d \in Nat
      BY <3>2 DEF d
    <3> QED
      BY <3>2, <3>3, <3>4
  <2>3. res' \in [Pickers -> Results]
    <3>1. Routes[h][idx] \in Results /\ "no alive backends" \in Results
      BY <1>2 DEF Results
    <3>2. \/ res' = [res EXCEPT ![p] = Routes[h][idx]]
          \/ res' = res
          \/ res' = [res EXCEPT ![p] = "no alive backends"]
      BY DEF PickLoad, idx
    <3> QED
      BY <3>1, <3>2 DEF TypeOK
  <2>4. ASSUME NEW q \in Pickers PROVE off'[q] < Size(host'[q])
    <3>1. CASE q = p
      <4>1. off'[p] = 0 \/ (off'[p] = k + 1 /\ k + 1 < Size(h))
        BY <1>6
      <4> HIDE DEF h, k
      <4>2. off'[p] < Size(h)
        BY <1>1, <4>1
      <4> QED
        BY <1>5, <3>1, <4>2
    <3>2. CASE q # p
      BY <1>4, <3>2 DEF TypeOK
    <3> QED
      BY <3>1, <3>2
  <2>5. ASSUME NEW q \in Pickers PROVE seenDead'[q] \subseteq Idx(host'[q])
    <3>1. CASE q = p
      BY <1>2, <1>3, <1>5, <1>6, <3>1 DEF TypeOK
    <3>2. CASE q # p
      BY <1>4, <3>2 DEF TypeOK
    <3> QED
      BY <3>1, <3>2
  <2> QED
    BY <2>1, <2>2, <2>3, <2>4, <2>5, <2>6, <2>7 DEF TypeOK
<1>9. SeenSoFar'
  BY <1>3, <1>4, <1>5, <1>6, <1>7 DEF SeenSoFar
<1>10. NoAliveIsExhaustive'
  <2>1. Routes[h][idx] # "no alive backends"
    BY <1>2, ErrorsAreNotAddresses
  <2>2. k + 1 >= Size(h) => Probed(h, s, k) \cup {idx} = Idx(h)
    <3>1. k + 1 >= Size(h) => k + 1 = Size(h)
      BY <1>1
    <3> QED
      BY <1>1, <1>7, <3>1, ProbeCover
  <2>3. res'[p] = "no alive backends" => seenDead'[p] = Idx(host'[p])
    BY <1>3, <1>5, <1>6, <2>1, <2>2
  <2> QED
    BY <1>4, <2>3 DEF NoAliveIsExhaustive
<1>11. OwnerListsAddress' /\ AskedInRoute'
  BY <1>4, <1>5, <1>3 DEF OwnerListsAddress, AskedInRoute, PickLoad
<1>12. AddressStaysInItsRoute'
  <2>1. Routes[h][idx] # "route not found" /\ "none" \notin Addrs
        /\ "no alive backends" \notin Addrs
    BY <1>2, ErrorsAreNotAddresses
  <2>2. asked'[p] # "none" =>
          /\ res'[p] = "route not found" => \A g \in Hosts : asked'[p] \notin AddrsOf(g)
          /\ res'[p] \in Addrs => {asked'[p], res'[p]} \subseteq AddrsOf(host'[p])
    BY <1>2, <1>3, <1>5, <1>6, <2>1
  <2>3. ASSUME NEW q \in Pickers \ {p}, asked'[q] # "none"
        PROVE  /\ res'[q] = "route not found" => \A g \in Hosts : asked'[q] \notin AddrsOf(g)
               /\ res'[q] \in Addrs => {asked'[q], res'[q]} \subseteq AddrsOf(host'[q])
    <3>1. asked'[q] = asked[q] /\ res'[q] = res[q] /\ host'[q] = host[q]
      BY <1>4
    <3> QED
      BY <2>3, <3>1 DEF AddressStaysInItsRoute
  <2> QED
    BY <2>2, <2>3, Zenon DEF AddressStaysInItsRoute
<1> QED
  BY <1>8, <1>9, <1>10, <1>11, <1>12

(* A health result. *)
LEMMA SetBackendAliveInv ==
  ASSUME RouterInv, NEW h \in Hosts, NEW a \in AddrsOf(h), NEW v \in BOOLEAN,
         SetBackendAlive(h, a, v)
  PROVE  RouterInv'
<1> USE DEF RouterInv
<1>1. UNCHANGED <<backendToHost, rr, pc, host, start, off, res, asked, seenDead>>
  BY DEF SetBackendAlive, pickVars
<1>2. TypeOK'
  <2>1. DOMAIN alive' = Hosts /\ \A g \in Hosts : alive'[g] \in [Idx(g) -> BOOLEAN]
    BY DEF TypeOK, SetBackendAlive
  <2>2. DOMAIN reported' = Hosts /\ \A g \in Hosts : reported'[g] \in [AddrsOf(g) -> BOOLEAN]
    BY DEF TypeOK, SetBackendAlive
  <2> QED
    BY <1>1, <2>1, <2>2 DEF TypeOK
<1>3. SeenSoFar' /\ NoAliveIsExhaustive'
  BY <1>1 DEF SeenSoFar, NoAliveIsExhaustive
<1>4. OwnerListsAddress' /\ AskedInRoute' /\ AddressStaysInItsRoute'
  BY <1>1 DEF OwnerListsAddress, AskedInRoute, AddressStaysInItsRoute
<1> QED
  BY <1>2, <1>3, <1>4

LEMMA StutterInv ==
  ASSUME RouterInv, UNCHANGED vars
  PROVE  RouterInv'
<1>1. UNCHANGED <<backendToHost, alive, rr, pc, host, start, off, res, asked,
                  seenDead, reported>>
  BY DEF vars, pickVars
<1> QED
  BY <1>1 DEF RouterInv, TypeOK, SeenSoFar, NoAliveIsExhaustive, OwnerListsAddress,
              AskedInRoute, AddressStaysInItsRoute

LEMMA NextInv == RouterInv /\ [Next]_vars => RouterInv'
<1> SUFFICES ASSUME RouterInv, [Next]_vars PROVE RouterInv'
  OBVIOUS
<1>1. ASSUME NEW p \in Pickers, NEW n \in Names, PickStart(p, n) PROVE RouterInv'
  <2>1. CASE n \in Hosts /\ DrawTicket(p, n)
    BY <1>1, <2>1, DrawTicketInv DEF PickStart
  <2>2. CASE n \notin Hosts /\ Refuse(p)
    BY <1>1, <2>2, RefuseInv DEF PickStart
  <2> QED
    BY <1>1, <2>1, <2>2 DEF PickStart
<1>2. ASSUME NEW p \in Pickers, NEW a \in Addrs, PickByAddr(p, a) PROVE RouterInv'
  <2>1. CASE a \in DOMAIN backendToHost /\ DrawTicket(p, backendToHost[a])
    <3>1. backendToHost[a] \in Hosts /\ a \in AddrsOf(backendToHost[a])
      BY <2>1 DEF RouterInv, TypeOK, OwnerListsAddress
    <3> QED
      BY <1>2, <2>1, <3>1, DrawTicketInv DEF PickByAddr
  <2>2. CASE a \notin DOMAIN backendToHost /\ Refuse(p)
    <3>1. \A h \in Hosts : a \notin AddrsOf(h)
      BY <2>2 DEF RouterInv, TypeOK
    <3> QED
      BY <1>2, <2>2, <3>1, RefuseInv DEF PickByAddr
  <2> QED
    BY <1>2, <2>1, <2>2 DEF PickByAddr
<1>3. ASSUME NEW p \in Pickers, PickLoad(p) PROVE RouterInv'
  BY <1>3, PickLoadInv
<1>4. ASSUME NEW h \in Hosts, NEW v \in BOOLEAN, NEW a \in AddrsOf(h),
             SetBackendAlive(h, a, v)
      PROVE  RouterInv'
  BY <1>4, SetBackendAliveInv
<1>5. CASE UNCHANGED vars
  BY <1>5, StutterInv
<1> QED
  BY <1>1, <1>2, <1>3, <1>4, <1>5 DEF Next

(***************************************************************************)
(* The state of a Router is well typed at every step: in particular the    *)
(* index Pick computes is always inside the pool, whatever the ticket.     *)
(***************************************************************************)
THEOREM RouterTypeCorrect == Spec => []TypeOK
<1>1. RouterInv => TypeOK
  BY DEF RouterInv
<1> QED
  BY InitInv, NextInv, <1>1, PTL DEF Spec

(***************************************************************************)
(* Pick reports "no alive backends" only after loading every backend of    *)
(* the pool as dead, for every pool size, ticket and interleaving with     *)
(* health results and other picks.                                         *)
(***************************************************************************)
THEOREM PickIsExhaustive == Spec => []NoAliveIsExhaustive
<1>1. RouterInv => NoAliveIsExhaustive
  BY DEF RouterInv
<1> QED
  BY InitInv, NextInv, <1>1, PTL DEF Spec

(***************************************************************************)
(* An IPv4 request is served from a route that lists the address it named, *)
(* for every order in which New may have ranged over the routes.           *)
(***************************************************************************)
THEOREM AddressRouting == Spec => []AddressStaysInItsRoute
<1>1. RouterInv => AddressStaysInItsRoute
  BY DEF RouterInv
<1> QED
  BY InitInv, NextInv, <1>1, PTL DEF Spec

(* The loop of SetBackendAlive ends at an entry with the address. *)
LEMMA FirstWithIsThere ==
  ASSUME NEW h \in Hosts, NEW a \in AddrsOf(h)
  PROVE  FirstWith(h, a) \in Idx(h) /\ Routes[h][FirstWith(h, a)] = a
<1> DEFINE T == {i \in Idx(h) : Routes[h][i] = a}
<1>1. T # {} /\ T \subseteq Nat /\ Size(h) \in Nat
  BY SizeType DEF AddrsOf, Idx
<1>2. PICK R : R = OpToRel(<, Nat)
  OBVIOUS
<1>3. IsWellFoundedOn(R, Nat)
  BY <1>2, NatLessThanWellFounded
<1>4. \A x, y \in Nat : x < y => <<x, y>> \in R
  BY <1>2 DEF OpToRel
<1>5. PICK m \in T : \A y \in T : ~(<<y, m>> \in R)
  <2> HIDE DEF T
  <2> QED
    BY <1>1, <1>3, WFMin
<1>6. \A j \in 1..(m - 1) : j \in Idx(h) /\ j < m /\ j \in Nat /\ m \in Nat
  BY <1>1, <1>5 DEF Idx
<1>7. \A j \in 1..(m - 1) : Routes[h][j] # a
  BY <1>4, <1>5, <1>6
<1>8. m \in Idx(h) /\ Routes[h][m] = a
  BY <1>5
<1> QED
  BY <1>7, <1>8 DEF FirstWith

(***************************************************************************)
(* A route does not hand out an address last reported dead that it lists   *)
(* once, for any routes, pools and interleaving of health workers.         *)
(***************************************************************************)
THEOREM DeadAddressesLeave == Spec => []DeadLeavesRotation
<1>1. Init => DeadLeavesRotation
  BY DEF Init, DeadLeavesRotation
<1>2. RouterInv /\ DeadLeavesRotation /\ [Next]_vars => DeadLeavesRotation'
  <2> SUFFICES ASSUME RouterInv, DeadLeavesRotation, [Next]_vars
               PROVE  DeadLeavesRotation'
    OBVIOUS
  <2>1. CASE UNCHANGED <<alive, reported>>
    BY <2>1 DEF DeadLeavesRotation
  <2>2. ASSUME NEW h \in Hosts, NEW v \in BOOLEAN, NEW a \in AddrsOf(h),
               SetBackendAlive(h, a, v)
        PROVE  DeadLeavesRotation'
    <3>1. PICK m \in Idx(h) : Routes[h][m] = a /\ m = FirstWith(h, a)
      BY FirstWithIsThere
    <3>2. /\ alive' = [alive EXCEPT ![h][m] = v]
          /\ reported' = [reported EXCEPT ![h][a] = v]
      BY <2>2, <3>1 DEF SetBackendAlive
    <3> SUFFICES ASSUME NEW g \in Hosts, NEW b \in AddrsOf(g), ListedOnce(g, b), ~reported'[g][b],
                        NEW i \in Idx(g), Routes[g][i] = b
                 PROVE  ~alive'[g][i]
      BY DEF DeadLeavesRotation
    <3>3. CASE g = h /\ b = a
      <4>1. i = m /\ reported'[g][b] = v
        BY <3>1, <3>2, <3>3 DEF RouterInv, TypeOK, ListedOnce
      <4> QED
        BY <3>2, <3>3, <4>1 DEF RouterInv, TypeOK
    <3>4. CASE ~(g = h /\ b = a)
      <4>1. reported'[g][b] = reported[g][b]
        BY <3>2, <3>4 DEF RouterInv, TypeOK
      <4>2. ~alive[g][i]
        BY <4>1 DEF DeadLeavesRotation
      <4>3. alive'[g][i] = alive[g][i]
        BY <3>1, <3>2, <3>4 DEF RouterInv, TypeOK
      <4> QED
        BY <4>2, <4>3
    <3> QED
      BY <3>3, <3>4
  <2> QED
    BY <2>1, <2>2 DEF Next, vars, PickStart, PickByAddr, PickLoad, DrawTicket, Refuse
<1> QED
  BY InitInv, NextInv, <1>1, <1>2, PTL DEF Spec
=============================================================================
