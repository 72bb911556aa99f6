---------------------------- MODULE Socks5Proofs ----------------------------
(***************************************************************************)
(* Proofs about Socks5, for any streams of bytes, any segmentation and any *)
(* moment at which the client closes or a deadline passes.                 *)
(***************************************************************************)
EXTENDS Socks5, SequenceTheorems, TLAPS

-----------------------------------------------------------------------------
(* Bytes. *)

(* The k bytes after the first a. *)
LEMMA Slice ==
  ASSUME NEW s \in Seq(Byte), NEW a \in Nat, NEW k \in Nat, a + k <= Len(s)
  PROVE  /\ SubSeq(s, a + 1, a + k) \in Seq(Byte)
         /\ Len(SubSeq(s, a + 1, a + k)) = k
         /\ \A i \in 1..k : SubSeq(s, a + 1, a + k)[i] = s[a + i] /\ s[a + i] \in Byte
<1>1. \A i \in (a + 1)..(a + k) : s[i] \in Byte
  <2> SUFFICES ASSUME NEW i \in (a + 1)..(a + k) PROVE s[i] \in Byte
    OBVIOUS
  <2>1. i \in 1..Len(s)
    OBVIOUS
  <2> QED
    BY <2>1, ElementOfSeq
<1>2. a + 1 \in Int /\ a + k \in Int
  OBVIOUS
<1>3. /\ SubSeq(s, a + 1, a + k) \in Seq(Byte)
      /\ Len(SubSeq(s, a + 1, a + k)) = IF a + 1 <= a + k THEN (a + k) - (a + 1) + 1 ELSE 0
      /\ \A i \in 1 .. (a + k) - (a + 1) + 1 : SubSeq(s, a + 1, a + k)[i] = s[(a + 1) + i - 1]
  BY <1>1, <1>2, SubSeqProperties
<1>4. Len(SubSeq(s, a + 1, a + k)) = k
  BY <1>3
<1>5. \A i \in 1..k : SubSeq(s, a + 1, a + k)[i] = s[a + i] /\ s[a + i] \in Byte
  <2> SUFFICES ASSUME NEW i \in 1..k
               PROVE  SubSeq(s, a + 1, a + k)[i] = s[a + i] /\ s[a + i] \in Byte
    OBVIOUS
  <2>1. i \in 1 .. (a + k) - (a + 1) + 1 /\ (a + 1) + i - 1 = a + i /\ a + i \in (a + 1)..(a + k)
    OBVIOUS
  <2>2. SubSeq(s, a + 1, a + k)[i] = s[(a + 1) + i - 1]
    BY <1>3, <2>1, Zenon
  <2> QED
    BY <1>1, <2>1, <2>2, Zenon
<1> QED
  BY <1>3, <1>4, <1>5

(* Two bytes as a number. *)
Big(x, y) == 256 * x + y

(* Two and three bytes, spelled out. *)
LEMMA Pair ==
  ASSUME NEW s \in Seq(Byte), NEW a \in Nat, a + 2 <= Len(s)
  PROVE  SubSeq(s, a + 1, a + 2) = <<s[a + 1], s[a + 2]>>
<1>1. PICK b : b = SubSeq(s, a + 1, a + 2)
  OBVIOUS
<1>2. b \in Seq(Byte) /\ Len(b) = 2 /\ b[1] = s[a + 1] /\ b[2] = s[a + 2]
  BY <1>1, Slice
<1>3. b = <<b[1], b[2]>>
  BY <1>2
<1> QED
  BY <1>1, <1>2, <1>3, Zenon

LEMMA Triple ==
  ASSUME NEW s \in Seq(Byte), NEW a \in Nat, a + 3 <= Len(s)
  PROVE  SubSeq(s, a + 1, a + 3) = <<s[a + 1], s[a + 2], s[a + 3]>>
<1>1. PICK b : b = SubSeq(s, a + 1, a + 3)
  OBVIOUS
<1>2. b \in Seq(Byte) /\ Len(b) = 3 /\ b[1] = s[a + 1] /\ b[2] = s[a + 2] /\ b[3] = s[a + 3]
  <2>1. b \in Seq(Byte) /\ Len(b) = 3 /\ \A i \in 1..3 : b[i] = s[a + i]
    BY <1>1, Slice
  <2> QED
    BY <2>1
<1>3. b = <<b[1], b[2], b[3]>>
  BY <1>2
<1> QED
  BY <1>1, <1>2, <1>3, Zenon

(* What has been read or has arrived is a prefix of the stream. *)
LEMMA Prefix ==
  ASSUME NEW s \in Seq(Byte), NEW L \in 0..Len(s)
  PROVE  /\ SubSeq(s, 1, L) \in Seq(Byte) /\ Len(SubSeq(s, 1, L)) = L
         /\ \A i \in 1..L : SubSeq(s, 1, L)[i] = s[i]
<1>1. 0 \in Nat /\ L \in Nat /\ 0 + L <= Len(s) /\ 0 + 1 = 1 /\ 0 + L = L
  OBVIOUS
<1>2. /\ SubSeq(s, 0 + 1, 0 + L) \in Seq(Byte) /\ Len(SubSeq(s, 0 + 1, 0 + L)) = L
      /\ \A i \in 1..L : SubSeq(s, 0 + 1, 0 + L)[i] = s[0 + i]
  BY <1>1, Slice
<1>3. \A i \in 1..L : 0 + i = i
  OBVIOUS
<1> QED
  BY <1>1, <1>2, <1>3, Zenon

LEMMA SliceOfPrefix ==
  ASSUME NEW s \in Seq(Byte), NEW L \in 0..Len(s), NEW a \in Nat, NEW k \in Nat, a + k <= L
  PROVE  SubSeq(SubSeq(s, 1, L), a + 1, a + k) = SubSeq(s, a + 1, a + k)
<1>1. PICK t : t = SubSeq(s, 1, L)
  OBVIOUS
<1>2. t \in Seq(Byte) /\ Len(t) = L /\ \A i \in 1..L : t[i] = s[i]
  BY <1>1, Prefix
<1>3. PICK b, c : b = SubSeq(t, a + 1, a + k) /\ c = SubSeq(s, a + 1, a + k)
  OBVIOUS
<1>4. b \in Seq(Byte) /\ Len(b) = k /\ \A i \in 1..k : b[i] = t[a + i]
  BY <1>2, <1>3, Slice
<1>5. c \in Seq(Byte) /\ Len(c) = k /\ \A i \in 1..k : c[i] = s[a + i]
  <2>1. a + k <= Len(s)
    OBVIOUS
  <2> QED
    BY <1>3, <2>1, Slice
<1>6. \A i \in 1..k : a + i \in 1..L
  OBVIOUS
<1>7. \A i \in 1..Len(b) : b[i] = c[i]
  BY <1>2, <1>4, <1>5, <1>6
<1>8. b = c
  BY <1>4, <1>5, <1>7, SeqEqual
<1> QED
  BY <1>1, <1>3, <1>8

(***************************************************************************)
(* HasRequest byte by byte: the first L bytes of s hold a complete         *)
(* negotiation whose host takes k bytes, with its length.                  *)
(***************************************************************************)
HostTakes(s, k) ==
  LET n == s[2]
  IN (k = 4 /\ s[6 + n] = 1) \/ (k > 1 /\ k = s[7 + n] + 1 /\ s[6 + n] = 3)
Complete(s, L) ==
  LET n == s[2]
  IN /\ n \in 1..255 /\ L > 6 + n /\ s[1] = 5
     /\ 0 \in ToSet(SubSeq(s, 3, 2 + n)) /\ s[3 + n] = 5 /\ s[4 + n] = 1 /\ s[5 + n] = 0
     /\ \E k \in {4, s[7 + n] + 1} :
          HostTakes(s, k) /\ L >= 8 + n + k /\ Big(s[7 + n + k], s[8 + n + k]) # 0

(* The parts of a request in s and in a prefix t of it of length L. *)
SameParts(s, t, L, n) ==
  /\ Len(t) = L
  /\ SubSeq(t, 1, 2) = <<5, n>> <=> s[1] = 5
  /\ SubSeq(t, 3, 2 + n) = SubSeq(s, 3, 2 + n)
  /\ SubSeq(t, 3 + n, 5 + n) = <<5, 1, 0>> <=> s[3 + n] = 5 /\ s[4 + n] = 1 /\ s[5 + n] = 0
  /\ t[6 + n] = s[6 + n] /\ t[7 + n] = s[7 + n] /\ s[7 + n] \in Byte
  /\ \A k \in 1..256 : L >= 8 + n + k =>
       Uint16(SubSeq(t, 7 + n + k, 8 + n + k)) = Big(s[7 + n + k], s[8 + n + k])

LEMMA HasRequestParts ==
  ASSUME NEW s \in Seq(Byte), NEW L \in 0..Len(s), NEW n \in 1..255, L > 6 + n, s[2] = n,
         NEW t, t = SubSeq(s, 1, L)
  PROVE  SameParts(s, t, L, n)
<1>1. t = SubSeq(s, 1, L)
  OBVIOUS
<1>2. t \in Seq(Byte) /\ Len(t) = L /\ \A i \in 1..L : t[i] = s[i]
  BY <1>1, Prefix
<1>3. t[1] = s[1] /\ t[2] = s[2] /\ t[3 + n] = s[3 + n] /\ t[4 + n] = s[4 + n] /\ t[5 + n] = s[5 + n]
      /\ t[6 + n] = s[6 + n] /\ t[7 + n] = s[7 + n]
  BY <1>2
<1>4. SubSeq(t, 1, 2) = <<5, n>> <=> s[1] = 5
  <2>1. 0 \in Nat /\ 0 + 2 <= Len(t) /\ 0 + 1 = 1 /\ 0 + 2 = 2
    BY <1>2
  <2>2. SubSeq(t, 0 + 1, 0 + 2) = <<t[0 + 1], t[0 + 2]>>
    BY <1>2, <2>1, Pair, Zenon
  <2>3. SubSeq(t, 1, 2) = <<s[1], n>>
    BY <1>3, <2>1, <2>2, Zenon
  <2> QED
    BY <2>3
<1>5. SubSeq(t, 3, 2 + n) = SubSeq(s, 3, 2 + n)
  <2>1. SubSeq(SubSeq(s, 1, L), 2 + 1, 2 + n) = SubSeq(s, 2 + 1, 2 + n)
    BY SliceOfPrefix
  <2> QED
    BY <1>1, <2>1
<1>6. SubSeq(t, 3 + n, 5 + n) = <<5, 1, 0>> <=> s[3 + n] = 5 /\ s[4 + n] = 1 /\ s[5 + n] = 0
  <2>1. PICK a \in Nat : a = 2 + n
    OBVIOUS
  <2>2. a + 3 <= Len(t) /\ a + 1 = 3 + n /\ a + 2 = 4 + n /\ a + 3 = 5 + n
    BY <1>2, <2>1
  <2>3. SubSeq(t, a + 1, a + 3) = <<t[a + 1], t[a + 2], t[a + 3]>>
    BY <1>2, <2>1, <2>2, Triple, Zenon
  <2>4. SubSeq(t, 3 + n, 5 + n) = <<s[3 + n], s[4 + n], s[5 + n]>>
    BY <1>3, <2>2, <2>3, Zenon
  <2> QED
    BY <2>4
<1>7. ASSUME NEW k \in 1..256, L >= 8 + n + k
      PROVE  Uint16(SubSeq(t, 7 + n + k, 8 + n + k)) = Big(s[7 + n + k], s[8 + n + k])
  <2>1. PICK a \in Nat : a = 6 + n + k
    OBVIOUS
  <2>2. a + 1 = 7 + n + k /\ a + 2 = 8 + n + k
    BY <2>1
  <2>3. PICK b : b = SubSeq(t, a + 1, a + 2)
    OBVIOUS
  <2>4. b[1] = t[a + 1] /\ b[2] = t[a + 2]
    BY <1>2, <1>7, <2>1, <2>3, Slice
  <2>5. t[a + 1] = s[a + 1] /\ t[a + 2] = s[a + 2]
    BY <1>2, <1>7, <2>1
  <2>6. Uint16(b) = Big(b[1], b[2])
    BY DEF Uint16, Big
  <2> QED
    BY <2>2, <2>3, <2>4, <2>5, <2>6, Zenon
<1>8. s[7 + n] \in Byte
  <2>1. 7 + n \in 1..Len(s)
    OBVIOUS
  <2> QED
    BY <2>1, ElementOfSeq
<1> QED
  BY <1>2, <1>3, <1>4, <1>5, <1>6, <1>7, <1>8, Zenon DEF SameParts

LEMMA HostSize ==
  ASSUME NEW x \in 0..255, NEW k, k = 4 \/ k = x + 1
  PROVE  k \in 1..256
  OBVIOUS

LEMMA HasRequestIsComplete ==
  ASSUME NEW s \in Seq(Byte), NEW L \in 0..Len(s)
  PROVE  HasRequest(SubSeq(s, 1, L)) <=> Complete(s, L)
<1>1. PICK t : t = SubSeq(s, 1, L)
  OBVIOUS
<1>2. t \in Seq(Byte) /\ Len(t) = L /\ \A i \in 1..L : t[i] = s[i]
  BY <1>1, Prefix
<1>3. ASSUME HasRequest(t) PROVE Complete(s, L)
  <2>1. PICK n \in 1..255 :
          /\ Len(t) > 6 + n /\ SubSeq(t, 1, 2) = <<5, n>>
          /\ 0 \in ToSet(SubSeq(t, 3, 2 + n)) /\ SubSeq(t, 3 + n, 5 + n) = <<5, 1, 0>>
          /\ \E host \in {4, t[7 + n] + 1} :
               /\ (host = 4 /\ t[6 + n] = 1) \/ (host > 1 /\ host = t[7 + n] + 1 /\ t[6 + n] = 3)
               /\ Len(t) >= 8 + n + host /\ Uint16(SubSeq(t, 7 + n + host, 8 + n + host)) # 0
    BY <1>3, Zenon DEF HasRequest
  <2>3. L > 6 + n
    BY <1>2, <2>1, Zenon
  <2>2. s[2] = n
    <3>1. 0 \in Nat /\ 0 + 2 <= Len(t) /\ 0 + 1 = 1 /\ 0 + 2 = 2 /\ 2 \in 1..L
      BY <1>2, <2>3
    <3>2. SubSeq(t, 0 + 1, 0 + 2) = <<t[0 + 1], t[0 + 2]>>
      BY <1>2, <3>1, Pair, Zenon
    <3>3. <<5, n>> = <<t[1], s[2]>>
      BY <1>2, <2>1, <3>1, <3>2, Zenon
    <3> QED
      BY <3>3
  <2>4. SameParts(s, t, L, n)
    BY <1>1, <2>2, <2>3, HasRequestParts
  <2>5. PICK k \in {4, t[7 + n] + 1} :
          /\ (k = 4 /\ t[6 + n] = 1) \/ (k > 1 /\ k = t[7 + n] + 1 /\ t[6 + n] = 3)
          /\ Len(t) >= 8 + n + k /\ Uint16(SubSeq(t, 7 + n + k, 8 + n + k)) # 0
    BY <2>1
  <2>6. k \in 1..256
    <3>1. t[7 + n] \in 0..255
      BY <2>4, Zenon DEF Byte, SameParts
    <3>2. k = 4 \/ k = t[7 + n] + 1
      BY <2>5, Zenon
    <3> QED
      BY <3>1, <3>2, HostSize, Zenon
  <2>7. L >= 8 + n + k /\ Big(s[7 + n + k], s[8 + n + k]) # 0
    <3>1. L >= 8 + n + k
      BY <1>2, <2>5
    <3> QED
      BY <2>4, <2>5, <2>6, <3>1, Zenon DEF SameParts
  <2>8. HostTakes(s, k) /\ k \in {4, s[7 + n] + 1}
    BY <2>2, <2>4, <2>5, Zenon DEF HostTakes, SameParts
  <2>9. /\ s[1] = 5 /\ 0 \in ToSet(SubSeq(s, 3, 2 + n))
        /\ s[3 + n] = 5 /\ s[4 + n] = 1 /\ s[5 + n] = 0
    BY <2>1, <2>4, Zenon DEF SameParts
  <2> QED
    BY <2>2, <2>3, <2>7, <2>8, <2>9, Zenon DEF Complete
<1>4. ASSUME Complete(s, L) PROVE HasRequest(t)
  <2>1. PICK n : n = s[2]
    OBVIOUS
  <2>2. /\ n \in 1..255 /\ L > 6 + n /\ s[1] = 5
        /\ 0 \in ToSet(SubSeq(s, 3, 2 + n)) /\ s[3 + n] = 5 /\ s[4 + n] = 1 /\ s[5 + n] = 0
        /\ \E k \in {4, s[7 + n] + 1} :
             HostTakes(s, k) /\ L >= 8 + n + k /\ Big(s[7 + n + k], s[8 + n + k]) # 0
    BY <1>4, <2>1, Zenon DEF Complete
  <2>3. PICK k \in {4, s[7 + n] + 1} :
          HostTakes(s, k) /\ L >= 8 + n + k /\ Big(s[7 + n + k], s[8 + n + k]) # 0
    BY <2>2
  <2>4. SameParts(s, t, L, n)
    BY <1>1, <2>1, <2>2, HasRequestParts
  <2>5. k \in 1..256
    <3>1. s[7 + n] \in 0..255
      BY <2>4, Zenon DEF Byte, SameParts
    <3>2. k = 4 \/ k = s[7 + n] + 1
      BY <2>1, <2>3, Zenon DEF HostTakes
    <3> QED
      BY <3>1, <3>2, HostSize, Zenon
  <2>6. Uint16(SubSeq(t, 7 + n + k, 8 + n + k)) # 0 /\ Len(t) >= 8 + n + k /\ Len(t) > 6 + n
    BY <1>2, <2>2, <2>3, <2>4, <2>5, Zenon DEF SameParts
  <2>7. /\ (k = 4 /\ t[6 + n] = 1) \/ (k > 1 /\ k = t[7 + n] + 1 /\ t[6 + n] = 3)
        /\ k \in {4, t[7 + n] + 1}
    BY <2>1, <2>3, <2>4, Zenon DEF HostTakes, SameParts
  <2>8. /\ SubSeq(t, 1, 2) = <<5, n>> /\ 0 \in ToSet(SubSeq(t, 3, 2 + n))
        /\ SubSeq(t, 3 + n, 5 + n) = <<5, 1, 0>>
    BY <2>2, <2>4, Zenon DEF SameParts
  <2> QED
    BY <2>2, <2>6, <2>7, <2>8, Zenon DEF HasRequest
<1> QED
  BY <1>1, <1>3, <1>4

-----------------------------------------------------------------------------
(***************************************************************************)
(* The inductive invariant: what the bytes read so far are at each stage,  *)
(* why the parser failed if it did, and what it has written.               *)
(***************************************************************************)
N == input[2]   \* how many methods the client lists
Greeted == input[1] = 5 /\ N \in Byte \ {0}
Agreed == Greeted /\ 0 \in ToSet(SubSeq(input, 3, 2 + N))
Headed(atyp) ==
  /\ Agreed /\ input[3 + N] = 5 /\ input[4 + N] = 1 /\ input[5 + N] = 0 /\ input[6 + N] = atyp
Sized == Headed(3) /\ input[7 + N] \in Byte \ {0}

(* The host has been read. *)
HostRead(k) ==
  \/ Headed(1) /\ k = 4 /\ req.atyp = 1 /\ req.host = SubSeq(input, 7 + N, 10 + N)
  \/ Sized /\ k = input[7 + N] + 1 /\ req.atyp = 3
     /\ req.host = SubSeq(input, 8 + N, 7 + N + input[7 + N])
PortRead(k) ==
  LET p == Big(input[7 + N + k], input[8 + N + k])
  IN p # 0 /\ req.port = p

IsReq(r) == r = [atyp |-> r.atyp, host |-> r.host, port |-> r.port]

ParseInv ==
  /\ IsReq(req)
  /\ stage = "greeting" => pos = 0
  /\ stage = "methods" => pos = 2 /\ Greeted /\ size = N
  /\ stage = "header" => pos = 2 + N /\ Agreed
  /\ stage = "ipv4" => pos = 6 + N /\ Headed(1) /\ req.atyp = 1
  /\ stage = "size" => pos = 6 + N /\ Headed(3) /\ req.atyp = 3
  /\ stage = "name" => pos = 7 + N /\ Sized /\ size = input[7 + N] /\ req.atyp = 3
  /\ stage = "port" => \E k \in 2..256 : pos = 6 + N + k /\ HostRead(k)
  /\ stage \in {"routing", "replied"} =>
       \E k \in 2..256 : pos = 8 + N + k /\ HostRead(k) /\ PortRead(k)

ErrInv ==
  /\ err = "protocol" => ~Complete(input, Len(input))
  /\ err = "eof" => closed /\ ~Complete(input, arrived)

OutInv ==
  /\ stage \in {"greeting", "methods"} => out = <<>>
  /\ stage \in {"header", "ipv4", "size", "name", "port", "routing"} => out = <<<<5, 0>>>>
  /\ stage \in {"replied", "failed"} => RepliesAreTrue

SocksInv == TypeOK /\ ParseInv /\ ErrInv /\ OutInv

(* The stream and the two positions in it. *)
LEMMA Positions ==
  ASSUME TypeOK
  PROVE  /\ input \in Seq(Byte) /\ Len(input) \in Nat
         /\ arrived \in Nat /\ pos \in Nat /\ pos <= arrived /\ arrived <= Len(input)
<1>1. input \in Inputs /\ arrived \in 0..Len(input) /\ pos \in 0..arrived
  BY Zenon DEF TypeOK
<1>2. input \in Seq(Byte)
  BY <1>1, BytesAssumption, Zenon
<1> QED
  BY <1>1, <1>2

(* A read that is given all it asks for. *)
LEMMA FullRead ==
  ASSUME TypeOK, NEW st, ReadFull(st), NEW k \in Nat, Need = k
  PROVE  /\ stage = st /\ pos' = pos + k /\ UNCHANGED <<input, arrived, closed>>
         /\ pos + k <= arrived /\ pos + k <= Len(input) /\ pos' \in 0..arrived
         /\ Bytes = SubSeq(input, pos + 1, pos + k) /\ Bytes \in Seq(Byte) /\ Len(Bytes) = k
         /\ \A i \in 1..k : Bytes[i] = input[pos + i] /\ input[pos + i] \in Byte
<1>1. /\ input \in Seq(Byte) /\ Len(input) \in Nat
      /\ arrived \in Nat /\ pos \in Nat /\ pos <= arrived /\ arrived <= Len(input)
  BY Positions
<1>2. /\ stage = st /\ pos' = pos + k /\ UNCHANGED <<input, arrived, closed>>
      /\ arrived - pos >= k
  BY DEF ReadFull, Ready, stream
<1>3. pos + k <= arrived /\ pos + k <= Len(input) /\ pos' \in 0..arrived
  BY <1>1, <1>2
<1>4. Bytes = SubSeq(input, pos + 1, pos + k)
  BY DEF Bytes
<1>5. /\ SubSeq(input, pos + 1, pos + k) \in Seq(Byte)
      /\ Len(SubSeq(input, pos + 1, pos + k)) = k
      /\ \A i \in 1..k : SubSeq(input, pos + 1, pos + k)[i] = input[pos + i] /\ input[pos + i] \in Byte
  BY <1>1, <1>3, Slice, Zenon
<1> QED
  BY <1>2, <1>3, <1>4, <1>5, Zenon

LEMMA Needs ==
  /\ stage \in {"greeting", "port"} => Need = 2
  /\ stage \in {"header", "ipv4"} => Need = 4
  /\ stage = "size" => Need = 1
  /\ stage \in {"methods", "name"} => Need = size
  BY DEF Need

(* The parser gives up. *)
LEMMA FailKeeps ==
  ASSUME SocksInv, NEW why \in {"protocol", "eof", "timeout", "write", "unreachable"}, Fail(why),
         UNCHANGED <<input, arrived, closed>>, pos' \in 0..arrived,
         why = "protocol" => ~Complete(input, Len(input)),
         why = "eof" => closed /\ ~Complete(input, arrived),
         RepliesAreTrue'
  PROVE  SocksInv'
<1>1. stage' = "failed" /\ err' = why /\ size' = size /\ req' = req
  BY DEF Fail
<1>2. TypeOK'
  <2>1. TypeOK
    BY Zenon DEF SocksInv
  <2>2. \A x \in {"protocol", "eof", "timeout", "write", "unreachable"} :
          x \in {"none", "protocol", "eof", "timeout", "write", "unreachable"}
    OBVIOUS
  <2>3. "failed" \in Reading \cup {"routing", "replied", "failed"}
    OBVIOUS
  <2> QED
    BY <1>1, <2>1, <2>2, <2>3, Zenon DEF TypeOK
<1>3. ParseInv'
  BY <1>1 DEF SocksInv, ParseInv
<1>4. ErrInv'
  BY <1>1, Zenon DEF ErrInv
<1>5. OutInv'
  BY <1>1 DEF OutInv
<1> QED
  BY <1>2, <1>3, <1>4, <1>5, Zenon DEF SocksInv

(* What may have been written. *)
LEMMA QuietReplies ==
  ASSUME out' = <<>>
  PROVE  RepliesAreTrue'
<1>1. Len(out') = 0
  OBVIOUS
<1> QED
  BY <1>1 DEF RepliesAreTrue

LEMMA MethodReplies ==
  ASSUME NEW m, out' = <<<<5, m>>>>, m = 0 <=> 0 \in ToSet(SubSeq(input', 3, 2 + input'[2]))
  PROVE  RepliesAreTrue'
<1>1. Len(out') = 1 /\ out'[1] = <<5, m>>
  OBVIOUS
<1>2. Len(<<5, m>>) = 2 /\ <<5, m>>[2] = m
  OBVIOUS
<1>3. Len(out'[1]) = 2 /\ out'[1][2] = m
  BY <1>1, <1>2, Zenon
<1>4. Len(out') <= 2 /\ Len(out') # 2
  BY <1>1
<1> QED
  BY <1>3, <1>4, Zenon DEF RepliesAreTrue

(* The condition on the second reply. *)
TrueCode(code, s, p) ==
  LET n == s[2]
  IN /\ code = 7 => s[4 + n] # 1
     /\ code = 1 => s[5 + n] # 0 \/ Uint16(SubSeq(s, p - 1, p)) = 0
     /\ code = 8 => s[6 + n] \notin {1, 3} \/ (s[6 + n] = 3 /\ s[7 + n] = 0)
     /\ code \in {0, 4} => HasRequest(SubSeq(s, 1, p))

LEMMA TwoReplies ==
  ASSUME NEW r, out' = <<<<5, 0>>, r>>, 0 \in ToSet(SubSeq(input', 3, 2 + input'[2])),
         Len(r) = 10, TrueCode(r[2], input', pos'),
         r[2] = 0 => \E b \in Binds : b.port = Uint16(SubSeq(r, 9, 10))
  PROVE  RepliesAreTrue'
<1>1. Len(out') = 2 /\ out'[1] = <<5, 0>> /\ out'[2] = r
  OBVIOUS
<1>2. Len(<<5, 0>>) = 2 /\ <<5, 0>>[2] = 0 /\ 2 <= 2
  OBVIOUS
<1>3. Len(out'[1]) = 2 /\ out'[1][2] = 0
  BY <1>1, <1>2, Zenon
<1>4. Len(out') <= 2
  BY <1>1, <1>2, Zenon
<1> QED
  BY <1>1, <1>3, <1>4, Zenon DEF RepliesAreTrue, TrueCode

LEMMA AppendOne == ASSUME NEW a, NEW r PROVE Append(<<a>>, r) = <<a, r>>
<1>1. PICK S : S = {a, r}
  OBVIOUS
<1>2. <<a>> \in Seq(S) /\ Len(<<a>>) = 1 /\ <<a>>[1] = a /\ r \in S
  BY <1>1
<1>3. PICK t : t = Append(<<a>>, r)
  OBVIOUS
<1>4. t \in Seq(S) /\ Len(t) = 2 /\ t[1] = a /\ t[2] = r
  BY <1>2, <1>3, AppendProperties
<1>5. t = <<t[1], t[2]>>
  BY <1>4
<1> QED
  BY <1>3, <1>4, <1>5, Zenon

LEMMA FailureReplies ==
  ASSUME NEW code, code # 0, TrueCode(code, input', pos'),
         out' \in {<<<<5, 0>>>>, Append(<<<<5, 0>>>>, FailureReply(code))},
         0 \in ToSet(SubSeq(input', 3, 2 + input'[2]))
  PROVE  RepliesAreTrue'
<1>1. CASE out' = <<<<5, 0>>>>
  BY <1>1, MethodReplies
<1>2. CASE out' = Append(<<<<5, 0>>>>, FailureReply(code))
  <2>1. PICK r : r = FailureReply(code)
    OBVIOUS
  <2>2. Len(r) = 10 /\ r[2] = code
    BY <2>1 DEF FailureReply
  <2>3. out' = <<<<5, 0>>, r>>
    BY <1>2, <2>1, AppendOne, Zenon
  <2> QED
    BY <2>2, <2>3, TwoReplies, Zenon
<1> QED
  BY <1>1, <1>2

(* What is said of the stream alone stays true. *)
LEMMA InputSame ==
  ASSUME input' = input
  PROVE  /\ N' = N /\ (Greeted' <=> Greeted) /\ (Agreed' <=> Agreed) /\ (Sized' <=> Sized)
         /\ \A a : Headed(a)' <=> Headed(a)
<1>1. N' = N
  BY DEF N
<1>2. Greeted' <=> Greeted
  BY <1>1, Zenon DEF Greeted
<1>3. Agreed' <=> Agreed
  BY <1>1, <1>2, Zenon DEF Agreed
<1>4. \A a : Headed(a)' <=> Headed(a)
  BY <1>1, <1>3, Zenon DEF Headed
<1>5. Sized' <=> Sized
  BY <1>1, <1>4, Zenon DEF Sized
<1> QED
  BY <1>1, <1>2, <1>3, <1>4, <1>5

(* The parser goes on. *)
LEMMA ContinueKeeps ==
  ASSUME SocksInv, UNCHANGED <<input, arrived, closed, err>>, pos' \in 0..arrived,
         stage' \in Reading \cup {"routing", "replied", "failed"}, size' \in Byte,
         req'.atyp \in {0, 1, 3}, req'.host \in Seq(Byte), req'.port \in Word,
         ParseInv', OutInv'
  PROVE  SocksInv'
<1>1. TypeOK'
  BY Zenon DEF SocksInv, TypeOK
<1>2. ErrInv'
  BY Zenon DEF SocksInv, ErrInv
<1> QED
  BY <1>1, <1>2, Zenon DEF SocksInv

LEMMA GreetingKeeps ==
  ASSUME SocksInv, ReadGreeting
  PROVE  SocksInv'
<1>1. TypeOK /\ stage = "greeting" /\ IsReq(req) /\ ReadFull("greeting")
  BY Zenon DEF ReadGreeting, ReadFull, SocksInv, ParseInv
<1>2. pos = 0 /\ out = <<>> /\ Need = 2
  BY <1>1, Needs DEF SocksInv, ParseInv, OutInv
<1>3. /\ pos' = pos + 2 /\ UNCHANGED <<input, arrived, closed>> /\ pos' \in 0..arrived
      /\ \A i \in 1..2 : Bytes[i] = input[pos + i] /\ input[pos + i] \in Byte
  BY <1>1, <1>2, FullRead
<1>4. pos' = 2 /\ Bytes[1] = input[1] /\ Bytes[2] = N /\ N \in Byte
  <2>1. 1 \in 1..2 /\ 2 \in 1..2 /\ pos + 1 = 1 /\ pos + 2 = 2
    BY <1>2
  <2>2. /\ Bytes[1] = input[pos + 1] /\ Bytes[2] = input[pos + 2]
        /\ input[pos + 2] \in Byte
    BY <1>3, <2>1
  <2> QED
    BY <1>3, <2>1, <2>2 DEF N
<1>5. CASE (Bytes[1] # 5 \/ Bytes[2] = 0) /\ Silently
  <2>1. ~Complete(input, Len(input))
    <3>1. \A n \in 1..255 : n # 0
      OBVIOUS
    <3>2. input[1] # 5 \/ input[2] = 0
      BY <1>4, <1>5, Zenon DEF N
    <3> QED
      BY <3>1, <3>2, Zenon DEF Complete
  <2>2. Fail("protocol") /\ out' = <<>>
    BY <1>2, <1>5, Zenon DEF Silently
  <2>3. RepliesAreTrue'
    BY <2>2, QuietReplies, Zenon
  <2> QED
    BY <1>3, <2>1, <2>2, <2>3, FailKeeps
<1>6. CASE /\ Bytes[1] = 5 /\ Bytes[2] # 0
           /\ GoOn("methods") /\ size' = Bytes[2] /\ UNCHANGED req
  <2>1. stage' = "methods" /\ out' = out /\ err' = err /\ size' = N /\ req' = req
    BY <1>4, <1>6 DEF GoOn
  <2>2. Greeted /\ Greeted' /\ N' = N
    BY <1>3, <1>4, <1>6, InputSame DEF Greeted
  <2>3. ParseInv'
    BY <1>1, <1>4, <2>1, <2>2 DEF ParseInv
  <2>4. OutInv'
    BY <1>2, <2>1 DEF OutInv
  <2>5. /\ stage' \in Reading \cup {"routing", "replied", "failed"} /\ size' \in Byte
        /\ req'.atyp \in {0, 1, 3} /\ req'.host \in Seq(Byte) /\ req'.port \in Word
    BY <1>1, <1>4, <2>1, Zenon DEF TypeOK, Reading
  <2> QED
    BY <1>3, <2>1, <2>3, <2>4, <2>5, ContinueKeeps
<1> QED
  BY <1>5, <1>6 DEF ReadGreeting

LEMMA MethodsKeep ==
  ASSUME SocksInv, ReadMethods
  PROVE  SocksInv'
<1>1. TypeOK /\ stage = "methods" /\ IsReq(req) /\ ReadFull("methods")
  BY Zenon DEF ReadMethods, ReadFull, SocksInv, ParseInv
<1>2. pos = 2 /\ out = <<>> /\ Greeted /\ size = N /\ Need = N
  BY <1>1, Needs DEF SocksInv, ParseInv, OutInv
<1>3. N \in Nat /\ N \in Byte
  BY <1>2 DEF Greeted, Byte
<1>4. /\ pos' = pos + N /\ UNCHANGED <<input, arrived, closed>> /\ pos' \in 0..arrived
      /\ Bytes = SubSeq(input, pos + 1, pos + N)
  BY <1>1, <1>2, <1>3, FullRead
<1>5. pos' = 2 + N /\ Bytes = SubSeq(input, 3, 2 + N)
  BY <1>2, <1>4
<1>6. CASE Fail("write") /\ UNCHANGED out
  BY <1>2, <1>4, <1>6, QuietReplies, FailKeeps
<1>7. CASE out' = Append(out, <<5, Select(Bytes)>>)
  <2>1. PICK m : m = Select(Bytes)
    OBVIOUS
  <2>2. out' = <<<<5, m>>>>
    BY <1>2, <1>7, <2>1
  <2>3. m = 0 <=> 0 \in ToSet(SubSeq(input, 3, 2 + N))
    BY <1>5, <2>1 DEF Select
  <2>4. CASE Select(Bytes) # 0 /\ Fail("protocol")
    <3>1. ~Complete(input, Len(input))
      BY <2>1, <2>3, <2>4, Zenon DEF Complete, N
    <3>2. RepliesAreTrue'
      BY <1>4, <2>2, <2>3, MethodReplies, Zenon DEF N
    <3> QED
      BY <1>4, <2>4, <3>1, <3>2, FailKeeps
  <2>5. CASE Select(Bytes) = 0 /\ stage' = "header" /\ UNCHANGED <<size, req, err>>
    <3>1. Agreed
      BY <1>2, <2>1, <2>3, <2>5, Zenon DEF Agreed
    <3>2. Agreed' /\ N' = N
      BY <1>4, <3>1, InputSame
    <3>3. ParseInv'
      BY <1>1, <1>5, <2>5, <3>2 DEF ParseInv
    <3>4. OutInv'
      BY <2>1, <2>2, <2>5 DEF OutInv
    <3>5. /\ stage' \in Reading \cup {"routing", "replied", "failed"} /\ size' \in Byte
          /\ req'.atyp \in {0, 1, 3} /\ req'.host \in Seq(Byte) /\ req'.port \in Word
      BY <1>1, <2>5, Zenon DEF TypeOK, Reading
    <3> QED
      BY <1>4, <2>5, <3>3, <3>4, <3>5, ContinueKeeps
  <2> QED
    BY <1>6, <1>7, <2>4, <2>5 DEF ReadMethods
<1> QED
  BY <1>6, <1>7 DEF ReadMethods

(* What a complete negotiation has. *)
LEMMA CompleteHas ==
  ASSUME NEW L, Complete(input, L)
  PROVE  /\ input[3 + N] = 5 /\ input[4 + N] = 1 /\ input[5 + N] = 0
         /\ \E k : /\ HostTakes(input, k) /\ L >= 8 + N + k
                   /\ Big(input[7 + N + k], input[8 + N + k]) # 0
  BY Zenon DEF Complete, N

LEMMA Counted ==
  ASSUME Greeted
  PROVE  N \in Nat /\ N \in Byte /\ N \in 1..255
  BY DEF Greeted, Byte

(* A refusal, answered or not. *)
LEMMA RefuseKeeps ==
  ASSUME SocksInv, NEW code, code # 0, Refuse(code), UNCHANGED <<input, arrived, closed>>,
         pos' \in 0..arrived, out = <<<<5, 0>>>>, Agreed, TrueCode(code, input, pos'),
         ~Complete(input, Len(input))
  PROVE  SocksInv'
<1>1. Fail("protocol") /\ out' \in {<<<<5, 0>>>>, Append(<<<<5, 0>>>>, FailureReply(code))}
  BY Zenon DEF Refuse
<1>2. 0 \in ToSet(SubSeq(input', 3, 2 + input'[2])) /\ TrueCode(code, input', pos')
  BY Zenon DEF Agreed, N
<1>3. RepliesAreTrue'
  BY <1>1, <1>2, FailureReplies, Zenon
<1> QED
  BY <1>1, <1>3, FailKeeps

LEMMA HeaderKeeps ==
  ASSUME SocksInv, ReadHeader
  PROVE  SocksInv'
<1>1. TypeOK /\ stage = "header" /\ IsReq(req) /\ ReadFull("header")
  BY Zenon DEF ReadHeader, ReadFull, SocksInv, ParseInv
<1>2. pos = 2 + N /\ out = <<<<5, 0>>>> /\ Agreed /\ Need = 4
  BY <1>1, Needs DEF SocksInv, ParseInv, OutInv
<1>3. N \in Nat /\ N \in Byte /\ N \in 1..255
  BY <1>2, Counted DEF Agreed
<1>4. /\ pos' = pos + 4 /\ UNCHANGED <<input, arrived, closed>> /\ pos' \in 0..arrived
      /\ Bytes \in Seq(Byte) /\ Len(Bytes) = 4
      /\ \A i \in 1..4 : Bytes[i] = input[pos + i] /\ input[pos + i] \in Byte
  <2>1. 4 \in Nat
    OBVIOUS
  <2> QED
    BY <1>1, <1>2, <2>1, FullRead, Zenon
<1>5. /\ pos' = 6 + N /\ Bytes[1] = input[3 + N] /\ Bytes[2] = input[4 + N]
      /\ Bytes[3] = input[5 + N] /\ Bytes[4] = input[6 + N]
  <2>1. /\ pos + 1 = 3 + N /\ pos + 2 = 4 + N /\ pos + 3 = 5 + N /\ pos + 4 = 6 + N
        /\ 1 \in 1..4 /\ 2 \in 1..4 /\ 3 \in 1..4 /\ 4 \in 1..4
    BY <1>2, <1>3
  <2> QED
    BY <1>4, <2>1
<1>6. SubSeq(Bytes, 1, 3) = <<5, 1, 0>> <=> Bytes[1] = 5 /\ Bytes[2] = 1 /\ Bytes[3] = 0
  <2>1. PICK b : b = Bytes
    OBVIOUS
  <2>2. b \in Seq(Byte) /\ 0 + 3 <= Len(b)
    <3>1. b \in Seq(Byte) /\ Len(b) = 4
      BY <1>4, <2>1, Zenon
    <3> QED
      BY <3>1
  <2>3. SubSeq(b, 0 + 1, 0 + 3) = <<b[0 + 1], b[0 + 2], b[0 + 3]>>
    BY <2>2, Triple
  <2>4. SubSeq(b, 1, 3) = <<b[1], b[2], b[3]>>
    BY <2>3
  <2>5. <<b[1], b[2], b[3]>> = <<5, 1, 0>> <=> b[1] = 5 /\ b[2] = 1 /\ b[3] = 0
    OBVIOUS
  <2> QED
    BY <2>1, <2>4, <2>5, Zenon
<1>7. CASE Bytes[1] # 5 /\ Silently
  <2>1. ~Complete(input, Len(input))
    BY <1>5, <1>7, CompleteHas, Zenon
  <2>2. Fail("protocol") /\ out' = <<<<5, 0>>>>
    BY <1>2, <1>7, Zenon DEF Silently
  <2>3. RepliesAreTrue'
    <3>1. 0 \in ToSet(SubSeq(input', 3, 2 + input'[2]))
      BY <1>2, <1>4, Zenon DEF Agreed, N
    <3> QED
      BY <2>2, <3>1, MethodReplies, Zenon
  <2> QED
    BY <1>4, <2>1, <2>2, <2>3, FailKeeps
<1>8. CASE Bytes[1] = 5 /\ Bytes[2] # 1 /\ Refuse(7)
  <2>1. ~Complete(input, Len(input))
    BY <1>5, <1>8, CompleteHas, Zenon
  <2>2. TrueCode(7, input, pos')
    BY <1>5, <1>8 DEF TrueCode, N
  <2> QED
    BY <1>2, <1>4, <1>8, <2>1, <2>2, RefuseKeeps
<1>9. CASE Bytes[1] = 5 /\ Bytes[2] = 1 /\ Bytes[3] # 0 /\ Refuse(1)
  <2>1. ~Complete(input, Len(input))
    BY <1>5, <1>9, CompleteHas, Zenon
  <2>2. TrueCode(1, input, pos')
    BY <1>5, <1>9 DEF TrueCode, N
  <2> QED
    BY <1>2, <1>4, <1>9, <2>1, <2>2, RefuseKeeps
<1>10. CASE SubSeq(Bytes, 1, 3) = <<5, 1, 0>> /\ Bytes[4] \notin {1, 3} /\ Refuse(8)
  <2>1. ~Complete(input, Len(input))
    BY <1>5, <1>10, CompleteHas, Zenon DEF HostTakes, N
  <2>2. TrueCode(8, input, pos')
    BY <1>5, <1>10 DEF TrueCode, N
  <2> QED
    BY <1>2, <1>4, <1>10, <2>1, <2>2, RefuseKeeps
<1>11. CASE /\ SubSeq(Bytes, 1, 3) = <<5, 1, 0>> /\ Bytes[4] \in {1, 3}
            /\ GoOn(IF Bytes[4] = 1 THEN "ipv4" ELSE "size")
            /\ req' = [req EXCEPT !.atyp = Bytes[4]] /\ UNCHANGED size
  <2>1. PICK a \in {1, 3} : a = Bytes[4]
    BY <1>11
  <2>2. /\ stage' = (IF a = 1 THEN "ipv4" ELSE "size") /\ out' = out /\ err' = err /\ size' = size
    BY <1>11, <2>1 DEF GoOn
  <2>3. req' = [req EXCEPT !.atyp = a]
    BY <1>11, <2>1, Zenon
  <2>4. req'.atyp = a /\ req'.host = req.host /\ req'.port = req.port /\ IsReq(req')
    BY <1>1, <2>3 DEF IsReq
  <2>5. Headed(a)
    BY <1>2, <1>5, <1>6, <1>11, <2>1, Zenon DEF Headed
  <2>6. Headed(a)' /\ N' = N
    BY <1>4, <2>5, InputSame
  <2>7. ParseInv'
    BY <1>5, <2>2, <2>4, <2>6 DEF ParseInv
  <2>8. OutInv'
    BY <1>2, <2>2 DEF OutInv
  <2>9. stage' \in Reading \cup {"routing", "replied", "failed"} /\ req'.atyp \in {0, 1, 3}
    BY <2>2, <2>4 DEF Reading
  <2>10. size' \in Byte /\ req'.host \in Seq(Byte) /\ req'.port \in Word
    BY <1>1, <2>2, <2>4, Zenon DEF TypeOK
  <2> QED
    BY <1>4, <2>2, <2>7, <2>8, <2>9, <2>10, ContinueKeeps
<1> QED
  BY <1>7, <1>8, <1>9, <1>10, <1>11 DEF ReadHeader

LEMMA SizeKeeps ==
  ASSUME SocksInv, ReadSize
  PROVE  SocksInv'
<1>1. TypeOK /\ stage = "size" /\ IsReq(req) /\ ReadFull("size")
  BY Zenon DEF ReadSize, ReadFull, SocksInv, ParseInv
<1>2. pos = 6 + N /\ out = <<<<5, 0>>>> /\ Headed(3) /\ req.atyp = 3 /\ Need = 1
  BY <1>1, Needs DEF SocksInv, ParseInv, OutInv
<1>3. N \in Nat /\ N \in Byte /\ N \in 1..255
  BY <1>2, Counted DEF Headed, Agreed
<1>4. /\ pos' = pos + 1 /\ UNCHANGED <<input, arrived, closed>> /\ pos' \in 0..arrived
      /\ \A i \in 1..1 : Bytes[i] = input[pos + i] /\ input[pos + i] \in Byte
  <2>1. 1 \in Nat
    OBVIOUS
  <2> QED
    BY <1>1, <1>2, <2>1, FullRead, Zenon
<1>5. pos' = 7 + N /\ Bytes[1] = input[7 + N] /\ input[7 + N] \in Byte
  <2>1. pos + 1 = 7 + N /\ 1 \in 1..1
    BY <1>2, <1>3
  <2>2. Bytes[1] = input[pos + 1] /\ input[pos + 1] \in Byte
    BY <1>4, <2>1, Zenon
  <2> QED
    BY <1>4, <2>1, <2>2
<1>6. CASE Bytes[1] = 0 /\ Refuse(8)
  <2>1. ~Complete(input, Len(input))
    <3> SUFFICES ASSUME Complete(input, Len(input)) PROVE FALSE
      OBVIOUS
    <3>1. PICK k : HostTakes(input, k)
      BY CompleteHas, Zenon
    <3>2. input[6 + N] = 3 /\ input[7 + N] = 0
      BY <1>2, <1>5, <1>6, Zenon DEF Headed
    <3> QED
      BY <3>1, <3>2 DEF HostTakes, N
  <2>2. TrueCode(8, input, pos')
    <3>1. input[6 + N] = 3 /\ input[7 + N] = 0
      BY <1>2, <1>5, <1>6, Zenon DEF Headed
    <3> QED
      BY <3>1 DEF TrueCode, N
  <2>3. Agreed
    BY <1>2, Zenon DEF Headed
  <2> QED
    BY <1>2, <1>4, <1>6, <2>1, <2>2, <2>3, RefuseKeeps
<1>7. CASE Bytes[1] # 0 /\ GoOn("name") /\ size' = Bytes[1] /\ UNCHANGED req
  <2>1. /\ stage' = "name" /\ out' = out /\ err' = err /\ size' = input[7 + N] /\ req' = req
    BY <1>5, <1>7, Zenon DEF GoOn
  <2>2. Sized
    BY <1>2, <1>5, <1>7, Zenon DEF Sized
  <2>3. Sized' /\ N' = N
    BY <1>4, <2>2, InputSame
  <2>4. ParseInv'
    BY <1>1, <1>2, <1>4, <1>5, <2>1, <2>3 DEF ParseInv
  <2>5. OutInv'
    BY <1>2, <2>1 DEF OutInv
  <2>6. /\ stage' \in Reading \cup {"routing", "replied", "failed"} /\ size' \in Byte
        /\ req'.atyp \in {0, 1, 3} /\ req'.host \in Seq(Byte) /\ req'.port \in Word
    BY <1>1, <1>5, <2>1, Zenon DEF TypeOK, Reading
  <2> QED
    BY <1>4, <2>1, <2>4, <2>5, <2>6, ContinueKeeps
<1> QED
  BY <1>6, <1>7 DEF ReadSize

(* The host is stored. *)
LEMMA HostStored ==
  ASSUME SocksInv, NEW st, ReadHost(st), UNCHANGED <<input, arrived, closed>>, pos' \in 0..arrived,
         Bytes \in Seq(Byte), NEW k \in 2..256, pos' = 6 + N + k, out = <<<<5, 0>>>>,
         \/ Headed(1) /\ k = 4 /\ req.atyp = 1 /\ Bytes = SubSeq(input, 7 + N, 10 + N)
         \/ Sized /\ k = input[7 + N] + 1 /\ req.atyp = 3
            /\ Bytes = SubSeq(input, 8 + N, 7 + N + input[7 + N])
  PROVE  SocksInv'
<1>1. TypeOK /\ IsReq(req)
  BY Zenon DEF SocksInv, ParseInv
<1>2. /\ stage' = "port" /\ out' = out /\ err' = err /\ size' = size
      /\ req' = [req EXCEPT !.host = Bytes]
  BY Zenon DEF ReadHost, GoOn
<1>3. PICK b : b = Bytes
  OBVIOUS
<1>4. req'.atyp = req.atyp /\ req'.host = b /\ req'.port = req.port /\ IsReq(req')
  BY <1>1, <1>2, <1>3 DEF IsReq
<1>5. N' = N /\ (Sized' <=> Sized) /\ (Headed(1)' <=> Headed(1))
  BY InputSame, Zenon
<1>6. HostRead(k)'
  BY <1>3, <1>4, <1>5, Zenon DEF HostRead
<1>7. ParseInv'
  BY <1>2, <1>4, <1>5, <1>6 DEF ParseInv
<1>8. OutInv'
  BY <1>2 DEF OutInv
<1>9. /\ stage' \in Reading \cup {"routing", "replied", "failed"} /\ size' \in Byte
      /\ req'.atyp \in {0, 1, 3} /\ req'.host \in Seq(Byte) /\ req'.port \in Word
  BY <1>1, <1>2, <1>3, <1>4, Zenon DEF TypeOK, Reading
<1> QED
  BY <1>2, <1>7, <1>8, <1>9, ContinueKeeps

LEMMA AddressKeeps ==
  ASSUME SocksInv, ReadHost("ipv4")
  PROVE  SocksInv'
<1>1. TypeOK /\ stage = "ipv4" /\ ReadFull("ipv4")
  BY Zenon DEF ReadHost, ReadFull, SocksInv
<1>2. pos = 6 + N /\ out = <<<<5, 0>>>> /\ Headed(1) /\ req.atyp = 1 /\ Need = 4
  BY <1>1, Needs DEF SocksInv, ParseInv, OutInv
<1>3. N \in Nat
  BY <1>2, Counted DEF Headed, Agreed
<1>4. /\ pos' = pos + 4 /\ UNCHANGED <<input, arrived, closed>> /\ pos' \in 0..arrived
      /\ Bytes \in Seq(Byte) /\ Bytes = SubSeq(input, pos + 1, pos + 4)
  <2>1. 4 \in Nat
    OBVIOUS
  <2> QED
    BY <1>1, <1>2, <2>1, FullRead, Zenon
<1>5. pos' = 6 + N + 4 /\ pos + 1 = 7 + N /\ pos + 4 = 10 + N /\ 4 \in 2..256
  BY <1>2, <1>3, <1>4
<1>6. Bytes = SubSeq(input, 7 + N, 10 + N)
  BY <1>4, <1>5, Zenon
<1> QED
  BY <1>2, <1>4, <1>5, <1>6, HostStored

LEMMA NameKeeps ==
  ASSUME SocksInv, ReadHost("name")
  PROVE  SocksInv'
<1>1. TypeOK /\ stage = "name" /\ ReadFull("name")
  BY Zenon DEF ReadHost, ReadFull, SocksInv
<1>2. pos = 7 + N /\ out = <<<<5, 0>>>> /\ Sized /\ req.atyp = 3 /\ Need = input[7 + N]
  BY <1>1, Needs DEF SocksInv, ParseInv, OutInv
<1>3. N \in Nat
  BY <1>2, Counted DEF Sized, Headed, Agreed
<1>4. PICK z \in 1..255 : z = input[7 + N]
  <2>1. input[7 + N] \in Byte \ {0}
    BY <1>2, Zenon DEF Sized
  <2> QED
    BY <2>1 DEF Byte
<1>5. /\ pos' = pos + z /\ UNCHANGED <<input, arrived, closed>> /\ pos' \in 0..arrived
      /\ Bytes \in Seq(Byte) /\ Bytes = SubSeq(input, pos + 1, pos + z)
  <2>1. z \in Nat /\ Need = z
    BY <1>2, <1>4
  <2> QED
    BY <1>1, <2>1, FullRead, Zenon
<1>6. /\ pos' = 6 + N + (z + 1) /\ pos + 1 = 8 + N /\ pos + z = 7 + N + z
      /\ z + 1 \in 2..256
  BY <1>2, <1>3, <1>5
<1>7. Bytes = SubSeq(input, 8 + N, 7 + N + input[7 + N]) /\ z + 1 = input[7 + N] + 1
  BY <1>4, <1>5, <1>6, Zenon
<1> QED
  BY <1>2, <1>5, <1>6, <1>7, HostStored

(* The two bytes of a number. *)
LEMMA BigParts ==
  ASSUME NEW x \in Byte, NEW y \in Byte
  PROVE  (256 * x + y) \div 256 = x /\ (256 * x + y) % 256 = y
<1>1. x \in Int /\ y \in Int /\ 0 <= y /\ y < 256
  BY DEF Byte
<1> QED
  BY <1>1

LEMMA BigIsWord == ASSUME NEW x \in Byte, NEW y \in Byte PROVE Big(x, y) \in Word
  BY DEF Big, Word

(* What the bytes say of the host is what was read. *)
LEMMA OneHost ==
  ASSUME NEW k, NEW j, HostRead(k), HostTakes(input, j)
  PROVE  j = k
<1>1. \/ Headed(1) /\ k = 4
      \/ Sized /\ k = input[7 + N] + 1
  BY Zenon DEF HostRead
<1>2. \/ input[6 + N] = 1 /\ k = 4
      \/ input[6 + N] = 3 /\ k = input[7 + N] + 1
  BY <1>1, Zenon DEF Headed, Sized
<1>3. \/ j = 4 /\ input[6 + N] = 1
      \/ j = input[7 + N] + 1 /\ input[6 + N] = 3
  BY Zenon DEF HostTakes, N
<1>4. 1 # 3
  OBVIOUS
<1> QED
  BY <1>2, <1>3, <1>4, Zenon

LEMMA HostReadHas ==
  ASSUME NEW k, HostRead(k)
  PROVE  /\ Agreed /\ input[3 + N] = 5 /\ input[4 + N] = 1 /\ input[5 + N] = 0
         /\ req.atyp = input[6 + N] /\ N \in 1..255
         /\ HostTakes(input, k) /\ k \in {4, input[7 + N] + 1}
<1>1. /\ Agreed /\ input[3 + N] = 5 /\ input[4 + N] = 1 /\ input[5 + N] = 0
      /\ req.atyp = input[6 + N] /\ k \in {4, input[7 + N] + 1}
  BY Zenon DEF HostRead, Headed, Sized
<1>2. N \in 1..255
  BY <1>1, Counted DEF Agreed
<1>3. HostTakes(input, k)
  <2>1. CASE Headed(1) /\ k = 4
    BY <2>1, Zenon DEF Headed, HostTakes, N
  <2>2. CASE Sized /\ k = input[7 + N] + 1
    <3>1. input[6 + N] = 3 /\ input[7 + N] \in Byte \ {0}
      BY <2>2, Zenon DEF Headed, Sized
    <3>2. k > 1
      BY <2>2, <3>1 DEF Byte
    <3> QED
      BY <2>2, <3>1, <3>2, Zenon DEF HostTakes, N
  <2> QED
    BY <2>1, <2>2, Zenon DEF HostRead
<1> QED
  BY <1>1, <1>2, <1>3, Zenon

LEMMA HostReadSame ==
  ASSUME NEW k, input' = input, req'.atyp = req.atyp, req'.host = req.host, HostRead(k)
  PROVE  HostRead(k)'
<1>1. N' = N /\ (Sized' <=> Sized) /\ (Headed(1)' <=> Headed(1))
  BY InputSame, Zenon
<1> QED
  BY <1>1, Zenon DEF HostRead

LEMMA PortKeeps ==
  ASSUME SocksInv, ReadPort
  PROVE  SocksInv'
<1>1. TypeOK /\ stage = "port" /\ IsReq(req) /\ ReadFull("port")
  BY Zenon DEF ReadPort, ReadFull, SocksInv, ParseInv
<1>2. out = <<<<5, 0>>>> /\ Need = 2 /\ \E k \in 2..256 : pos = 6 + N + k /\ HostRead(k)
  BY <1>1, Needs DEF SocksInv, ParseInv, OutInv
<1>3. PICK k \in 2..256 : pos = 6 + N + k /\ HostRead(k)
  BY <1>2
<1>4. Agreed /\ N \in 1..255
  BY <1>3, HostReadHas, Zenon
<1>5. /\ pos' = pos + 2 /\ UNCHANGED <<input, arrived, closed>> /\ pos' \in 0..arrived
      /\ Bytes = SubSeq(input, pos + 1, pos + 2)
      /\ \A i \in 1..2 : Bytes[i] = input[pos + i] /\ input[pos + i] \in Byte
  <2>1. 2 \in Nat
    OBVIOUS
  <2> QED
    BY <1>1, <1>2, <2>1, FullRead, Zenon
<1>6. /\ pos' = 8 + N + k /\ pos + 1 = 7 + N + k /\ pos + 2 = 8 + N + k
      /\ pos' - 1 = pos + 1
  BY <1>3, <1>4, <1>5
<1>7. PICK x \in Byte, y \in Byte : x = input[7 + N + k] /\ y = input[8 + N + k]
  <2>1. 1 \in 1..2 /\ 2 \in 1..2
    OBVIOUS
  <2> QED
    BY <1>5, <1>6, <2>1, Zenon
<1>8. PortOf(Bytes) = Big(x, y)
  <2>1. Bytes[1] = x /\ Bytes[2] = y
    <3>1. 1 \in 1..2 /\ 2 \in 1..2
      OBVIOUS
    <3> QED
      BY <1>5, <1>6, <1>7, <3>1, Zenon
  <2> QED
    BY <2>1, Zenon DEF PortOf, Uint16, Big
<1>9. CASE PortOf(Bytes) = 0 /\ Refuse(1)
  <2>1. ~Complete(input, Len(input))
    <3> SUFFICES ASSUME Complete(input, Len(input)) PROVE FALSE
      OBVIOUS
    <3>1. PICK j : HostTakes(input, j) /\ Big(input[7 + N + j], input[8 + N + j]) # 0
      BY CompleteHas, Zenon
    <3>2. j = k
      BY <1>3, <3>1, OneHost
    <3> QED
      BY <1>7, <1>8, <1>9, <3>1, <3>2, Zenon
  <2>2. TrueCode(1, input, pos')
    <3>1. Uint16(SubSeq(input, pos' - 1, pos')) = 0
      BY <1>5, <1>6, <1>9, Zenon DEF PortOf
    <3>2. 1 # 7 /\ 1 # 8 /\ 1 \notin {0, 4}
      OBVIOUS
    <3> QED
      BY <3>1, <3>2, Zenon DEF TrueCode
  <2> QED
    BY <1>2, <1>4, <1>5, <1>9, <2>1, <2>2, RefuseKeeps
<1>10. CASE /\ PortOf(Bytes) # 0
            /\ GoOn("routing") /\ req' = [req EXCEPT !.port = PortOf(Bytes)] /\ UNCHANGED size
  <2>1. PICK p \in Word : p = PortOf(Bytes)
    BY <1>8, BigIsWord, Zenon
  <2>2. /\ stage' = "routing" /\ out' = out /\ err' = err /\ size' = size
        /\ req' = [req EXCEPT !.port = p]
    BY <1>10, <2>1, Zenon DEF GoOn
  <2>3. req'.atyp = req.atyp /\ req'.host = req.host /\ req'.port = p /\ IsReq(req')
    BY <1>1, <2>2 DEF IsReq
  <2>4. HostRead(k)' /\ N' = N
    BY <1>3, <1>5, <2>3, HostReadSame, InputSame
  <2>5. PortRead(k)'
    BY <1>5, <1>7, <1>8, <1>10, <2>1, <2>3, <2>4, Zenon DEF PortRead
  <2>6. ParseInv'
    BY <1>6, <2>2, <2>3, <2>4, <2>5 DEF ParseInv
  <2>7. OutInv'
    BY <1>2, <2>2 DEF OutInv
  <2>8. /\ stage' \in Reading \cup {"routing", "replied", "failed"} /\ size' \in Byte
        /\ req'.atyp \in {0, 1, 3} /\ req'.host \in Seq(Byte) /\ req'.port \in Word
    BY <1>1, <2>2, <2>3, Zenon DEF TypeOK, Reading
  <2> QED
    BY <1>5, <2>2, <2>6, <2>7, <2>8, ContinueKeeps
<1> QED
  BY <1>9, <1>10 DEF ReadPort

-----------------------------------------------------------------------------
(* Reads that fail. *)

(* A negotiation that has arrived is never waited for. *)
LEMMA CompleteIsReady ==
  ASSUME SocksInv, stage \in Reading, Complete(input, arrived)
  PROVE  Ready
<1>1. /\ TypeOK /\ input \in Seq(Byte) /\ Len(input) \in Nat
      /\ arrived \in Nat /\ arrived <= Len(input) /\ pos \in Nat
  BY Positions, Zenon DEF SocksInv
<1>2. N \in 1..255 /\ arrived > 6 + N
  BY Zenon DEF Complete, N
<1>3. PICK z \in 0..255 : z = input[7 + N]
  <2>1. 7 + N \in 1..Len(input)
    BY <1>1, <1>2
  <2> QED
    BY <1>1, <2>1, ElementOfSeq, Zenon DEF Byte
<1>4. PICK j : HostTakes(input, j) /\ arrived >= 8 + N + j
  BY CompleteHas, Zenon
<1>5. (j = 4 /\ input[6 + N] = 1) \/ (j > 1 /\ j = z + 1 /\ input[6 + N] = 3)
  BY <1>3, <1>4, Zenon DEF HostTakes, N
<1>6. j \in 2..256
  BY <1>3, <1>5
<1>7. PICK need : need = Need
  OBVIOUS
<1>8. need \in Nat /\ pos + need <= 8 + N + j
  <2>1. CASE stage \in {"greeting", "methods", "header", "size"}
    <3>1. /\ stage = "greeting" => pos = 0 /\ need = 2
          /\ stage = "methods" => pos = 2 /\ need = N
          /\ stage = "header" => pos = 2 + N /\ need = 4
          /\ stage = "size" => pos = 6 + N /\ need = 1
      BY <1>7, Needs DEF SocksInv, ParseInv
    <3> QED
      BY <1>2, <1>6, <2>1, <3>1
  <2>2. CASE stage = "ipv4"
    <3>1. pos = 6 + N /\ need = 4 /\ Headed(1)
      BY <1>7, <2>2, Needs DEF SocksInv, ParseInv
    <3> QED
      BY <1>2, <1>6, <3>1
  <2>3. CASE stage = "name"
    <3>1. pos = 7 + N /\ need = z /\ Sized
      BY <1>3, <1>7, <2>3, Needs DEF SocksInv, ParseInv
    <3>2. input[6 + N] = 3
      BY <3>1, Zenon DEF Sized, Headed
    <3>3. j = z + 1
      BY <1>5, <3>2
    <3> QED
      BY <1>2, <1>3, <3>1, <3>3
  <2>4. CASE stage = "port"
    <3>1. PICK k \in 2..256 : pos = 6 + N + k /\ HostRead(k) /\ need = 2
      BY <1>7, <2>4, Needs DEF SocksInv, ParseInv
    <3>2. j = k
      BY <1>4, <3>1, OneHost
    <3> QED
      BY <1>2, <3>1, <3>2
  <2> QED
    BY <2>1, <2>2, <2>3, <2>4 DEF Reading
<1>9. arrived - pos >= need
  BY <1>1, <1>2, <1>4, <1>6, <1>8
<1> QED
  BY <1>7, <1>9, Zenon DEF Ready

(* What has been written before the end. *)
LEMMA WrittenSoFar ==
  ASSUME SocksInv, stage \in Reading \cup {"routing"}
  PROVE  out = <<>> \/ (out = <<<<5, 0>>>> /\ Agreed)
<1>1. CASE stage \in {"greeting", "methods"}
  BY <1>1 DEF SocksInv, OutInv
<1>2. CASE stage \in {"header", "ipv4", "size", "name", "port", "routing"}
  <2>1. out = <<<<5, 0>>>>
    BY <1>2 DEF SocksInv, OutInv
  <2>2. /\ stage = "header" => Agreed
        /\ stage = "ipv4" => Headed(1)
        /\ stage = "size" => Headed(3)
        /\ stage = "name" => Sized
        /\ stage \in {"port", "routing"} => \E k : HostRead(k)
    BY <1>2 DEF SocksInv, ParseInv
  <2>3. \A k : HostRead(k) => Agreed
    BY HostReadHas, Zenon
  <2>4. (Headed(1) => Agreed) /\ (Headed(3) => Agreed) /\ (Sized => Agreed)
    BY Zenon DEF Headed, Sized
  <2> QED
    BY <1>2, <2>1, <2>2, <2>3, <2>4
<1> QED
  BY <1>1, <1>2 DEF Reading

(* Giving up without a word leaves what was written. *)
LEMMA SilenceIsTrue ==
  ASSUME SocksInv, stage \in Reading \cup {"routing"}, UNCHANGED <<input, out>>
  PROVE  RepliesAreTrue'
<1>1. out = <<>> \/ (out = <<<<5, 0>>>> /\ Agreed)
  BY WrittenSoFar, Zenon
<1>2. CASE out = <<>>
  BY <1>2, QuietReplies
<1>3. CASE out = <<<<5, 0>>>> /\ Agreed
  <2>1. 0 \in ToSet(SubSeq(input', 3, 2 + input'[2])) /\ out' = <<<<5, 0>>>>
    BY <1>3, Zenon DEF Agreed, N
  <2> QED
    BY <2>1, MethodReplies, Zenon
<1> QED
  BY <1>1, <1>2, <1>3

LEMMA ReadFailsKeeps ==
  ASSUME SocksInv, ReadFails
  PROVE  SocksInv'
<1>1. stage \in Reading /\ UNCHANGED <<input, arrived, closed, out>>
  BY DEF ReadFails, stream
<1>2. RepliesAreTrue'
  BY <1>1, SilenceIsTrue, Zenon
<1>3. arrived \in Nat /\ pos \in Nat
  BY Positions, Zenon DEF SocksInv
<1>4. CASE closed /\ ~Ready /\ Fail("eof") /\ pos' = arrived
  <2>1. ~Complete(input, arrived)
    BY <1>1, <1>4, CompleteIsReady, Zenon
  <2>2. pos' \in 0..arrived
    BY <1>3, <1>4
  <2> QED
    BY <1>1, <1>2, <1>4, <2>1, <2>2, FailKeeps
<1>5. CASE Fail("timeout") /\ pos' \in {n \in pos..arrived : n < pos + Need}
  <2>1. pos' \in 0..arrived
    BY <1>3, <1>5
  <2> QED
    BY <1>1, <1>2, <1>5, <2>1, FailKeeps
<1> QED
  BY <1>4, <1>5 DEF ReadFails

-----------------------------------------------------------------------------
(* The answer. *)

LEMMA PortBytes ==
  ASSUME NEW p \in Word
  PROVE  p \div 256 \in Byte /\ p % 256 \in Byte /\ Big(p \div 256, p % 256) = p
<1>1. PICK x \in Byte, y \in Byte : p = 256 * x + y
  BY DEF Word
<1>2. p \div 256 = x /\ p % 256 = y
  BY <1>1, BigParts
<1> QED
  BY <1>1, <1>2 DEF Big

(* A concatenation, byte by byte. *)
Joins(c, s, t, m, n) ==
  /\ c \in Seq(Byte) /\ Len(c) = m + n
  /\ \A i \in 1..m : c[i] = s[i]
  /\ \A i \in 1..n : c[m + i] = t[i]
LEMMA Joined ==
  ASSUME NEW s \in Seq(Byte), NEW t \in Seq(Byte), NEW m \in Nat, NEW n \in Nat,
         Len(s) = m, Len(t) = n
  PROVE  Joins(s \o t, s, t, m, n)
<1>1. PICK c : c = s \o t
  OBVIOUS
<1>2. /\ c \in Seq(Byte) /\ Len(c) = m + n
      /\ \A i \in 1..(m + n) : c[i] = IF i <= m THEN s[i] ELSE t[i - m]
  BY <1>1, ConcatProperties
<1>3. \A i \in 1..m : c[i] = s[i]
  BY <1>2
<1>4. ASSUME NEW i \in 1..n PROVE c[m + i] = t[i]
  <2>1. m + i \in 1..(m + n) /\ ~(m + i <= m) /\ (m + i) - m = i
    OBVIOUS
  <2> QED
    BY <1>2, <2>1
<1> QED
  BY <1>1, <1>2, <1>3, <1>4, Zenon DEF Joins

LEMMA SuccessHas ==
  ASSUME NEW b \in Binds, NEW r, r = SuccessReply(b)
  PROVE  Len(r) = 10 /\ r[2] = 0 /\ Uint16(SubSeq(r, 9, 10)) = b.port
<1>1. b.port \in Word /\ b.ip4 \in Seq(Byte) /\ Len(b.ip4) \in {0, 4}
  BY BytesAssumption, Zenon
<1>2. PICK h, a, q : /\ h = <<5, 0, 0, 1>>
                     /\ a = (IF b.ip4 = <<>> THEN <<0, 0, 0, 0>> ELSE b.ip4)
                     /\ q = <<b.port \div 256, b.port % 256>>
  OBVIOUS
<1>3. r = (h \o a) \o q
  BY <1>2 DEF SuccessReply, PutUint16
<1>4. h \in Seq(Byte) /\ Len(h) = 4 /\ h[2] = 0
  BY <1>2 DEF Byte
<1>5. a \in Seq(Byte) /\ Len(a) = 4
  <2>1. <<0, 0, 0, 0>> \in Seq(Byte) /\ Len(<<0, 0, 0, 0>>) = 4
    BY DEF Byte
  <2>2. b.ip4 # <<>> => Len(b.ip4) = 4
    <3>1. PICK s \in Seq(Byte) : s = b.ip4
      BY <1>1
    <3>2. s # <<>> => Len(s) # 0
      BY EmptySeq
    <3> QED
      BY <1>1, <3>1, <3>2
  <2> QED
    BY <1>1, <1>2, <2>1, <2>2, Zenon
<1>6. q \in Seq(Byte) /\ Len(q) = 2 /\ Big(q[1], q[2]) = b.port
  <2>1. PICK x \in Byte, y \in Byte :
          x = b.port \div 256 /\ y = b.port % 256 /\ Big(x, y) = b.port
    BY <1>1, PortBytes
  <2>2. q = <<x, y>>
    BY <1>2, <2>1, Zenon
  <2>3. q \in Seq(Byte) /\ Len(q) = 2 /\ q[1] = x /\ q[2] = y
    BY <2>2
  <2> QED
    BY <2>1, <2>3, Zenon
<1>7. PICK c : c = h \o a
  OBVIOUS
<1>8. c \in Seq(Byte) /\ Len(c) = 8 /\ c[2] = 0
  <2>1. PICK m \in Nat : m = 4 /\ Len(h) = m /\ Len(a) = m
    BY <1>4, <1>5
  <2>2. Joins(c, h, a, m, m)
    BY <1>4, <1>5, <1>7, <2>1, Joined, Zenon
  <2>3. c \in Seq(Byte) /\ Len(c) = m + m /\ \A i \in 1..m : c[i] = h[i]
    BY <2>2, Zenon DEF Joins
  <2> QED
    BY <1>4, <2>1, <2>3
<1>9. /\ r \in Seq(Byte) /\ Len(r) = 8 + 2
      /\ \A i \in 1..8 : r[i] = c[i]
      /\ \A i \in 1..2 : r[8 + i] = q[i]
  <2>1. PICK m \in Nat, n \in Nat : m = 8 /\ n = 2 /\ Len(c) = m /\ Len(q) = n
    BY <1>6, <1>8
  <2>2. Joins(r, c, q, m, n)
    BY <1>3, <1>6, <1>7, <1>8, <2>1, Joined, Zenon
  <2> QED
    BY <2>1, <2>2, Zenon DEF Joins
<1>10. Len(r) = 10 /\ r[2] = 0 /\ r[9] = q[1] /\ r[10] = q[2]
  BY <1>8, <1>9
<1>11. SubSeq(r, 9, 10) = <<q[1], q[2]>>
  <2>1. r \in Seq(Byte) /\ 8 \in Nat /\ 8 + 2 <= Len(r) /\ 8 + 1 = 9 /\ 8 + 2 = 10
    BY <1>9
  <2>2. SubSeq(r, 8 + 1, 8 + 2) = <<r[8 + 1], r[8 + 2]>>
    BY <2>1, Pair, Zenon
  <2> QED
    BY <1>10, <2>1, <2>2, Zenon
<1>12. Uint16(<<q[1], q[2]>>) = Big(q[1], q[2])
  BY DEF Uint16, Big
<1> QED
  BY <1>6, <1>10, <1>11, <1>12, Zenon

(* When the port has been read, so has a complete request. *)
LEMMA ReadIsComplete ==
  ASSUME SocksInv, stage \in {"routing", "replied"}
  PROVE  Agreed /\ HasRequest(SubSeq(input, 1, pos))
<1>1. PICK k \in 2..256 : pos = 8 + N + k /\ HostRead(k) /\ PortRead(k)
  BY DEF SocksInv, ParseInv
<1>2. /\ Agreed /\ input[3 + N] = 5 /\ input[4 + N] = 1 /\ input[5 + N] = 0
      /\ N \in 1..255 /\ HostTakes(input, k) /\ k \in {4, input[7 + N] + 1}
  BY <1>1, HostReadHas, Zenon
<1>3. input[1] = 5 /\ 0 \in ToSet(SubSeq(input, 3, 2 + N))
  BY <1>2, Zenon DEF Agreed, Greeted
<1>4. Big(input[7 + N + k], input[8 + N + k]) # 0
  BY <1>1, Zenon DEF PortRead
<1>5. pos > 6 + N /\ pos >= 8 + N + k
  BY <1>1, <1>2
<1>6. Complete(input, pos)
  BY <1>2, <1>3, <1>4, <1>5, Zenon DEF Complete, N
<1>7. input \in Seq(Byte) /\ pos \in 0..Len(input)
  <2>1. TypeOK
    BY Zenon DEF SocksInv
  <2>2. /\ input \in Seq(Byte) /\ Len(input) \in Nat
        /\ arrived \in Nat /\ pos \in Nat /\ pos <= arrived /\ arrived <= Len(input)
    BY <2>1, Positions, Zenon
  <2> QED
    BY <2>2
<1> QED
  BY <1>2, <1>6, <1>7, HasRequestIsComplete, Zenon

LEMMA AnswerKeeps ==
  ASSUME SocksInv, Answer
  PROVE  SocksInv'
<1>1. stage = "routing" /\ UNCHANGED <<input, arrived, closed, pos>>
  BY DEF Answer, stream
<1>2. TypeOK /\ out = <<<<5, 0>>>> /\ Agreed /\ HasRequest(SubSeq(input, 1, pos))
  BY <1>1, ReadIsComplete DEF SocksInv, OutInv
<1>3. 0 \in ToSet(SubSeq(input', 3, 2 + input'[2])) /\ HasRequest(SubSeq(input', 1, pos'))
  BY <1>1, <1>2, Zenon DEF Agreed, N
<1>4. TrueCode(0, input', pos') /\ TrueCode(4, input', pos')
  <2>1. 0 # 7 /\ 0 # 1 /\ 0 # 8 /\ 4 # 7 /\ 4 # 1 /\ 4 # 8
    OBVIOUS
  <2> QED
    BY <1>3, <2>1, Zenon DEF TrueCode
<1>5. pos' \in 0..arrived
  BY <1>1, <1>2, Zenon DEF TypeOK
<1>6. ASSUME NEW b \in Binds, out' = Append(out, SuccessReply(b)),
             stage' = "replied", UNCHANGED <<size, req, err>>
      PROVE  SocksInv'
  <2>1. PICK r : r = SuccessReply(b)
    OBVIOUS
  <2>2. Len(r) = 10 /\ r[2] = 0 /\ Uint16(SubSeq(r, 9, 10)) = b.port
    BY <2>1, SuccessHas, Zenon
  <2>3. out' = <<<<5, 0>>, r>>
    BY <1>2, <1>6, <2>1, AppendOne, Zenon
  <2>4. RepliesAreTrue'
    <3>1. r[2] = 0 => \E c \in Binds : c.port = Uint16(SubSeq(r, 9, 10))
      BY <2>2, Zenon
    <3>2. TrueCode(r[2], input', pos')
      BY <1>4, <2>2, Zenon
    <3> QED
      BY <1>3, <2>2, <2>3, <3>1, <3>2, TwoReplies, Zenon
  <2>5. OutInv'
    BY <1>6, <2>4 DEF OutInv
  <2>6. PICK k \in 2..256 : pos = 8 + N + k /\ HostRead(k) /\ PortRead(k)
    BY <1>1 DEF SocksInv, ParseInv
  <2>7. N' = N /\ HostRead(k)'
    <3>1. req' = req
      BY <1>6
    <3> QED
      BY <1>1, <2>6, <3>1, HostReadSame, InputSame, Zenon
  <2>8. PortRead(k)'
    BY <1>1, <1>6, <2>6, <2>7, Zenon DEF PortRead
  <2>9. IsReq(req')
    BY <1>6, Zenon DEF SocksInv, ParseInv
  <2>10. ParseInv'
    BY <1>1, <1>6, <2>6, <2>7, <2>8, <2>9 DEF ParseInv
  <2>11. /\ stage' \in Reading \cup {"routing", "replied", "failed"} /\ size' \in Byte
         /\ req'.atyp \in {0, 1, 3} /\ req'.host \in Seq(Byte) /\ req'.port \in Word
    BY <1>2, <1>6, Zenon DEF TypeOK
  <2> QED
    BY <1>1, <1>5, <1>6, <2>5, <2>10, <2>11, ContinueKeeps
<1>7. CASE Fail("unreachable") /\ out' \in {out, Append(out, FailureReply(4))}
  <2>1. RepliesAreTrue'
    <3>1. 4 # 0
      OBVIOUS
    <3>2. out' \in {<<<<5, 0>>>>, Append(<<<<5, 0>>>>, FailureReply(4))}
      BY <1>2, <1>7, Zenon
    <3> QED
      BY <1>3, <1>4, <3>1, <3>2, FailureReplies, Zenon
  <2> QED
    BY <1>1, <1>5, <1>7, <2>1, FailKeeps
<1>8. CASE Fail("write") /\ UNCHANGED out
  <2>1. RepliesAreTrue'
    <3>1. stage \in Reading \cup {"routing"} /\ UNCHANGED <<input, out>>
      BY <1>1, <1>8
    <3> QED
      BY <3>1, SilenceIsTrue, Zenon
  <2> QED
    BY <1>1, <1>5, <1>8, <2>1, FailKeeps
<1> QED
  BY <1>6, <1>7, <1>8 DEF Answer

-----------------------------------------------------------------------------
(* The client's steps. *)

LEMMA ClientKeeps ==
  ASSUME SocksInv, UNCHANGED <<input, pos, stage, size, req, out, err>>,
         arrived' \in 0..Len(input), pos <= arrived', closed' \in BOOLEAN,
         err = "eof" => closed' /\ arrived' = arrived
  PROVE  SocksInv'
<1>1. TypeOK'
  <2>1. TypeOK
    BY Zenon DEF SocksInv
  <2>2. pos \in 0..arrived'
    <3>1. pos \in Nat /\ Len(input) \in Nat
      BY <2>1, Positions, Zenon
    <3> QED
      BY <3>1
  <2> QED
    BY <2>1, <2>2, Zenon DEF TypeOK
<1>2. ParseInv'
  <2>1. ParseInv /\ req' = req
    BY DEF SocksInv
  <2>2. /\ N' = N /\ (Greeted' <=> Greeted) /\ (Agreed' <=> Agreed) /\ (Sized' <=> Sized)
        /\ (Headed(1)' <=> Headed(1)) /\ (Headed(3)' <=> Headed(3))
    BY InputSame, Zenon
  <2>3. \A k : HostRead(k) => HostRead(k)'
    BY <2>1, HostReadSame, Zenon
  <2>4. \A k : PortRead(k) => PortRead(k)'
    BY <2>1, <2>2, Zenon DEF PortRead
  <2> QED
    <3>1. (stage = "port" => \E k \in 2..256 : pos = 6 + N + k /\ HostRead(k))'
      <4>1. stage = "port" => \E k \in 2..256 : pos = 6 + N + k /\ HostRead(k)
        BY <2>1, Zenon DEF ParseInv
      <4> QED
        BY <2>2, <2>3, <4>1
    <3>2. (stage \in {"routing", "replied"} =>
             \E k \in 2..256 : pos = 8 + N + k /\ HostRead(k) /\ PortRead(k))'
      <4>1. stage \in {"routing", "replied"} =>
              \E k \in 2..256 : pos = 8 + N + k /\ HostRead(k) /\ PortRead(k)
        BY <2>1, Zenon DEF ParseInv
      <4> QED
        BY <2>2, <2>3, <2>4, <4>1
    <3>3. /\ stage = "greeting" => pos = 0
          /\ stage = "methods" => pos = 2 /\ Greeted /\ size = N
          /\ stage = "header" => pos = 2 + N /\ Agreed
          /\ stage = "ipv4" => pos = 6 + N /\ Headed(1) /\ req.atyp = 1
          /\ stage = "size" => pos = 6 + N /\ Headed(3) /\ req.atyp = 3
          /\ stage = "name" => pos = 7 + N /\ Sized /\ size = input[7 + N] /\ req.atyp = 3
          /\ IsReq(req)
      BY <2>1, Zenon DEF ParseInv
    <3>4. (/\ stage = "greeting" => pos = 0
           /\ stage = "methods" => pos = 2 /\ Greeted /\ size = N
           /\ stage = "header" => pos = 2 + N /\ Agreed
           /\ stage = "ipv4" => pos = 6 + N /\ Headed(1) /\ req.atyp = 1
           /\ stage = "size" => pos = 6 + N /\ Headed(3) /\ req.atyp = 3
           /\ stage = "name" => pos = 7 + N /\ Sized /\ size = input[7 + N] /\ req.atyp = 3
           /\ IsReq(req))'
      BY <2>1, <2>2, <3>3
    <3> QED
      BY <3>1, <3>2, <3>4, Zenon DEF ParseInv
<1>3. ErrInv'
  BY Zenon DEF SocksInv, ErrInv
<1>4. OutInv'
  <2>1. RepliesAreTrue => RepliesAreTrue'
    BY DEF RepliesAreTrue
  <2> QED
    BY <2>1, Zenon DEF SocksInv, OutInv
<1> QED
  BY <1>1, <1>2, <1>3, <1>4, Zenon DEF SocksInv

LEMMA SocksInit == ASSUME Init PROVE SocksInv
<1>1. /\ input \in Inputs /\ arrived = 0 /\ closed = FALSE /\ pos = 0 /\ stage = "greeting"
      /\ size = 0 /\ req = [atyp |-> 0, host |-> <<>>, port |-> 0] /\ out = <<>> /\ err = "none"
  BY Zenon DEF Init, NoReq
<1>2. req.atyp = 0 /\ req.host = <<>> /\ req.port = 0 /\ IsReq(req)
  BY <1>1 DEF IsReq
<1>3. input \in Seq(Byte)
  BY <1>1, BytesAssumption, Zenon
<1>4. 0 \in 0..Len(input) /\ 0 \in 0..0 /\ 0 \in Byte /\ 0 \in Word
  BY <1>3 DEF Byte, Word
<1>5. <<>> \in Seq(Byte) /\ 0 \in {0, 1, 3}
  OBVIOUS
<1>6. TypeOK
  BY <1>1, <1>2, <1>4, <1>5, Zenon DEF TypeOK, Reading
<1>7. ParseInv
  BY <1>1, <1>2 DEF ParseInv
<1>8. ErrInv /\ OutInv
  BY <1>1 DEF ErrInv, OutInv
<1> QED
  BY <1>6, <1>7, <1>8, Zenon DEF SocksInv

LEMMA SocksStep ==
  ASSUME SocksInv, [Next]_vars
  PROVE  SocksInv'
<1>0. /\ TypeOK /\ Len(input) \in Nat /\ arrived \in Nat /\ pos \in Nat
      /\ pos <= arrived /\ arrived <= Len(input) /\ closed \in BOOLEAN
  BY Positions, Zenon DEF SocksInv, TypeOK
<1>1. CASE Parse
  <2>1. \/ ReadGreeting \/ ReadMethods \/ ReadHeader \/ ReadSize
        \/ ReadHost("ipv4") \/ ReadHost("name") \/ ReadPort
    BY <1>1, Zenon DEF Parse
  <2> QED
    BY <2>1, GreetingKeeps, MethodsKeep, HeaderKeeps, SizeKeeps, AddressKeeps, NameKeeps,
       PortKeeps, Zenon
<1>2. CASE ReadFails
  BY <1>2, ReadFailsKeeps, Zenon
<1>3. CASE Answer
  BY <1>3, AnswerKeeps, Zenon
<1>4. CASE Arrive
  <2>1. /\ arrived < Len(input) /\ ~closed /\ arrived' = arrived + 1
        /\ UNCHANGED <<input, pos, stage, size, req, out, err>> /\ closed' = closed
    BY <1>4 DEF Arrive
  <2>2. arrived' \in 0..Len(input) /\ pos <= arrived' /\ closed' \in BOOLEAN
    BY <1>0, <2>1
  <2>3. err # "eof"
    BY <2>1, Zenon DEF SocksInv, ErrInv
  <2> QED
    BY <2>1, <2>2, <2>3, ClientKeeps, Zenon
<1>5. CASE Close
  <2>1. /\ closed' = TRUE /\ arrived' = arrived
        /\ UNCHANGED <<input, pos, stage, size, req, out, err>>
    BY <1>5 DEF Close
  <2>2. arrived' \in 0..Len(input) /\ pos <= arrived' /\ closed' \in BOOLEAN
    BY <1>0, <2>1
  <2> QED
    BY <2>1, <2>2, ClientKeeps, Zenon
<1>6. CASE UNCHANGED vars
  <2>1. /\ closed' = closed /\ arrived' = arrived
        /\ UNCHANGED <<input, pos, stage, size, req, out, err>>
    BY <1>6 DEF vars, stream
  <2>2. arrived' \in 0..Len(input) /\ pos <= arrived' /\ closed' \in BOOLEAN
    BY <1>0, <2>1
  <2>3. err = "eof" => closed' /\ arrived' = arrived
    BY <2>1, Zenon DEF SocksInv, ErrInv
  <2> QED
    BY <2>1, <2>2, <2>3, ClientKeeps, Zenon
<1> QED
  BY <1>1, <1>2, <1>3, <1>4, <1>5, <1>6, Zenon DEF Next, Over

LEMMA SocksInvariance == Spec => []SocksInv
  BY SocksInit, SocksStep, PTL DEF Spec

-----------------------------------------------------------------------------
(* Every variable keeps to its type; positions stay ordered. *)
THEOREM SocksTypeCorrect == Spec => []TypeOK
<1>1. SocksInv => TypeOK
  BY Zenon DEF SocksInv
<1> QED
  BY <1>1, SocksInvariance, PTL

(***************************************************************************)
(* The client hears at most the choice of a method and one reply, whose    *)
(* code is true of the bytes it sent; whatever the segmentation, and       *)
(* however the read that was under way ended.                              *)
(***************************************************************************)
THEOREM AnswersAreTrue == Spec => []RepliesAreTrue
<1>1. ASSUME SocksInv PROVE RepliesAreTrue
  <2>1. stage \in Reading \cup {"routing", "replied", "failed"}
    BY <1>1, Zenon DEF SocksInv, TypeOK
  <2>2. CASE stage \in {"replied", "failed"}
    BY <1>1, <2>2, Zenon DEF SocksInv, OutInv
  <2>3. CASE out = <<>>
    <3>1. Len(out) = 0
      BY <2>3
    <3> QED
      BY <2>3, <3>1 DEF RepliesAreTrue
  <2>4. CASE out = <<<<5, 0>>>> /\ Agreed
    <3>1. Len(out) = 1 /\ out[1] = <<5, 0>>
      BY <2>4
    <3>2. Len(<<5, 0>>) = 2 /\ <<5, 0>>[2] = 0
      OBVIOUS
    <3>3. Len(out) <= 2 /\ Len(out) # 2 /\ Len(out[1]) = 2 /\ out[1][2] = 0
      BY <3>1, <3>2
    <3>4. 0 \in ToSet(SubSeq(input, 3, 2 + input[2]))
      BY <2>4, Zenon DEF Agreed, N
    <3> QED
      BY <3>3, <3>4, Zenon DEF RepliesAreTrue
  <2> QED
    BY <1>1, <2>1, <2>2, <2>3, <2>4, WrittenSoFar
<1> QED
  BY <1>1, SocksInvariance, PTL

LEMMA WholeIsPrefix == ASSUME NEW s \in Seq(Byte) PROVE SubSeq(s, 1, Len(s)) = s
<1>1. Len(s) \in 0..Len(s)
  OBVIOUS
<1>2. PICK t : t = SubSeq(s, 1, Len(s))
  OBVIOUS
<1>3. t \in Seq(Byte) /\ Len(t) = Len(s) /\ \A i \in 1..Len(s) : t[i] = s[i]
  BY <1>1, <1>2, Prefix, Zenon
<1>4. t = s
  BY <1>3, SeqEqual
<1> QED
  BY <1>2, <1>4

(***************************************************************************)
(* A negotiation that has arrived whole is never waited for, never taken   *)
(* for a truncated one and never refused as a fault of protocol.           *)
(***************************************************************************)
THEOREM CompleteRequestsAreRead == Spec => []CompleteIsRead
<1>1. ASSUME SocksInv PROVE CompleteIsRead
  <2>1. /\ input \in Seq(Byte) /\ Len(input) \in Nat
        /\ arrived \in Nat /\ arrived <= Len(input)
    BY <1>1, Positions, Zenon DEF SocksInv
  <2>2. HasRequest(SubSeq(input, 1, arrived)) <=> Complete(input, arrived)
    <3>1. arrived \in 0..Len(input)
      BY <2>1
    <3> QED
      BY <2>1, <3>1, HasRequestIsComplete, Zenon
  <2>3. HasRequest(input) <=> Complete(input, Len(input))
    <3>1. Len(input) \in 0..Len(input)
      BY <2>1
    <3>2. HasRequest(SubSeq(input, 1, Len(input))) <=> Complete(input, Len(input))
      BY <2>1, <3>1, HasRequestIsComplete, Zenon
    <3> QED
      BY <2>1, <3>2, WholeIsPrefix
  <2>4. err = "eof" => ~Complete(input, arrived)
    BY <1>1, Zenon DEF SocksInv, ErrInv
  <2>5. err = "protocol" => ~Complete(input, Len(input))
    BY <1>1, Zenon DEF SocksInv, ErrInv
  <2> QED
    BY <1>1, <2>2, <2>3, <2>4, <2>5, CompleteIsReady, Zenon DEF CompleteIsRead
<1> QED
  BY <1>1, SocksInvariance, PTL

(* One more piece of the stream. *)
LEMMA Extend ==
  ASSUME NEW s \in Seq(Byte), NEW a \in Nat, NEW k \in Nat, a + k <= Len(s)
  PROVE  SubSeq(s, 1, a) \o SubSeq(s, a + 1, a + k) = SubSeq(s, 1, a + k)
<1>1. Len(s) \in Nat
  OBVIOUS
<1>2. 1 \in 1 .. Len(s) + 1 /\ a \in 1 - 1 .. Len(s) /\ a + k \in a .. Len(s)
  BY <1>1
<1> QED
  BY <1>2, ConcatAdjacentSubSeq

LEMMA Single ==
  ASSUME NEW s \in Seq(Byte), NEW a \in Nat, a + 1 <= Len(s)
  PROVE  SubSeq(s, a + 1, a + 1) = <<s[a + 1]>>
<1>1. PICK b : b = SubSeq(s, a + 1, a + 1)
  OBVIOUS
<1>2. b \in Seq(Byte) /\ Len(b) = 1 /\ b[1] = s[a + 1]
  BY <1>1, Slice
<1>3. b = <<b[1]>>
  BY <1>2
<1> QED
  BY <1>1, <1>2, <1>3, Zenon

LEMMA Quad ==
  ASSUME NEW s \in Seq(Byte), NEW a \in Nat, a + 4 <= Len(s)
  PROVE  SubSeq(s, a + 1, a + 4) = <<s[a + 1], s[a + 2], s[a + 3], s[a + 4]>>
<1>1. PICK b : b = SubSeq(s, a + 1, a + 4)
  OBVIOUS
<1>2. /\ b \in Seq(Byte) /\ Len(b) = 4
      /\ b[1] = s[a + 1] /\ b[2] = s[a + 2] /\ b[3] = s[a + 3] /\ b[4] = s[a + 4]
  <2>1. b \in Seq(Byte) /\ Len(b) = 4 /\ \A i \in 1..4 : b[i] = s[a + i]
    <3>1. 4 \in Nat
      OBVIOUS
    <3> QED
      BY <1>1, <3>1, Slice, Zenon
  <2> QED
    BY <2>1
<1>3. b = <<b[1], b[2], b[3], b[4]>>
  BY <1>2
<1> QED
  BY <1>1, <1>2, <1>3, Zenon

LEMMA PortIsBytes ==
  ASSUME NEW x \in Byte, NEW y \in Byte
  PROVE  PutUint16(Big(x, y)) = <<x, y>>
<1>1. (256 * x + y) \div 256 = x /\ (256 * x + y) % 256 = y
  BY BigParts
<1> QED
  BY <1>1 DEF PutUint16, Big

LEMMA AtLeastTwo ==
  ASSUME NEW L \in Nat, NEW n \in Nat, 6 + n <= L
  PROVE  0 \in Nat /\ 0 + 1 = 1 /\ 0 + 2 = 2 /\ 0 + 2 <= L
  OBVIOUS

(* The negotiation up to the address type, as the client writes it. *)
LEMMA HeadIsEncoded ==
  ASSUME NEW s \in Seq(Byte), NEW n \in 1..255, s[1] = 5, s[2] = n, 6 + n <= Len(s),
         s[3 + n] = 5, s[4 + n] = 1, s[5 + n] = 0, NEW ms, ms = SubSeq(s, 3, 2 + n)
  PROVE  (<<5, Len(ms)>> \o ms) \o <<5, 1, 0, s[6 + n]>> = SubSeq(s, 1, 6 + n)
<1>0. PICK L \in Nat : L = Len(s) /\ 6 + n <= L
  <2>1. Len(s) \in Nat /\ 6 + n <= Len(s)
    OBVIOUS
  <2> QED
    BY <2>1, Zenon
<1>1. Len(ms) = n
  <2>1. Len(SubSeq(s, 2 + 1, 2 + n)) = n
    BY Slice
  <2> QED
    BY <2>1
<1>2. SubSeq(s, 1, 2) = <<5, n>>
  <2>1. 0 \in Nat /\ 0 + 1 = 1 /\ 0 + 2 = 2 /\ 0 + 2 <= L
    <3>1. n \in Nat
      OBVIOUS
    <3> QED
      BY <1>0, <3>1, AtLeastTwo, Zenon
  <2>2. SubSeq(s, 0 + 1, 0 + 2) = <<s[0 + 1], s[0 + 2]>>
    BY <1>0, <2>1, Pair, Zenon
  <2> QED
    BY <2>1, <2>2, Zenon
<1>3. <<5, Len(ms)>> \o ms = SubSeq(s, 1, 2 + n)
  <2>1. 2 \in Nat /\ n \in Nat /\ 2 + n <= Len(s) /\ 2 + 1 = 3
    OBVIOUS
  <2>2. SubSeq(s, 1, 2) \o SubSeq(s, 2 + 1, 2 + n) = SubSeq(s, 1, 2 + n)
    BY <2>1, Extend, Zenon
  <2> QED
    BY <1>1, <1>2, <2>1, <2>2, Zenon
<1>4. PICK a \in Nat : a = 2 + n
  OBVIOUS
<1>5. a + 4 <= Len(s) /\ a + 1 = 3 + n /\ a + 2 = 4 + n /\ a + 3 = 5 + n /\ a + 4 = 6 + n /\ 4 \in Nat
  BY <1>4
<1>6. SubSeq(s, a + 1, a + 4) = <<5, 1, 0, s[6 + n]>>
  <2>1. SubSeq(s, a + 1, a + 4) = <<s[a + 1], s[a + 2], s[a + 3], s[a + 4]>>
    BY <1>5, Quad, Zenon
  <2> QED
    BY <1>5, <2>1, Zenon
<1>7. SubSeq(s, 1, a) \o SubSeq(s, a + 1, a + 4) = SubSeq(s, 1, a + 4)
  BY <1>5, Extend, Zenon
<1> QED
  BY <1>3, <1>4, <1>5, <1>6, <1>7, Zenon

(* Then the host. *)
LEMMA HostIsEncoded ==
  ASSUME input \in Seq(Byte), NEW k \in 2..256, HostRead(k), 8 + N + k <= Len(input)
  PROVE  /\ (SubSeq(input, 1, 6 + N) \o (IF req.atyp = 3 THEN <<Len(req.host)>> ELSE <<>>)) \o req.host
              = SubSeq(input, 1, 6 + N + k)
         /\ req.host # <<>>
<1>0. Len(input) \in Nat /\ 8 + N + k <= Len(input)
  OBVIOUS
<1>1. N \in Nat
  <2>1. N \in 1..255
    BY HostReadHas, Zenon
  <2> QED
    BY <2>1
<1>2. PICK a \in Nat : a = 6 + N
  BY <1>1
<1>3. PICK t : t = SubSeq(input, 1, a)
  OBVIOUS
<1>4. t \in Seq(Byte)
  <2>1. a \in 0..Len(input)
    BY <1>0, <1>1, <1>2
  <2> QED
    BY <1>3, <2>1, Prefix, Zenon
<1>5. CASE Headed(1) /\ k = 4 /\ req.atyp = 1 /\ req.host = SubSeq(input, 7 + N, 10 + N)
  <2>1. a + 1 = 7 + N /\ a + 4 = 10 + N /\ a + 4 <= Len(input) /\ 4 \in Nat /\ a + 4 = 6 + N + k
    BY <1>1, <1>2, <1>5
  <2>2. PICK h : h = SubSeq(input, a + 1, a + 4)
    OBVIOUS
  <2>3. h = req.host
    BY <1>5, <2>1, <2>2, Zenon
  <2>4. t \o h = SubSeq(input, 1, a + 4)
    BY <1>3, <2>1, <2>2, Extend, Zenon
  <2>5. Len(h) = 4
    BY <2>1, <2>2, Slice, Zenon
  <2>6. h # <<>>
    <3>1. Len(<<>>) = 0 /\ 4 # 0
      OBVIOUS
    <3> QED
      BY <2>5, <3>1, Zenon
  <2>7. (IF req.atyp = 3 THEN <<Len(req.host)>> ELSE <<>>) = <<>>
    BY <1>5
  <2>8. t \o <<>> = t
    BY <1>4, ConcatEmptySeq, Zenon
  <2> QED
    BY <1>2, <1>3, <2>1, <2>3, <2>4, <2>6, <2>7, <2>8, Zenon
<1>6. CASE /\ Sized /\ k = input[7 + N] + 1 /\ req.atyp = 3
           /\ req.host = SubSeq(input, 8 + N, 7 + N + input[7 + N])
  <2>1. PICK z \in 1..255 : z = input[7 + N]
    <3>1. input[7 + N] \in Byte \ {0}
      BY <1>6, Zenon DEF Sized
    <3> QED
      BY <3>1 DEF Byte
  <2>2. PICK b \in Nat : b = a + 1
    BY <1>2
  <2>3. /\ a + 1 = 7 + N /\ b + 1 = 8 + N /\ b + z = 7 + N + z /\ a + 1 <= Len(input)
        /\ b + z <= Len(input) /\ z \in Nat /\ 1 \in Nat /\ b + z = 6 + N + k
    <3>1. k = z + 1
      BY <1>6, <2>1, Zenon
    <3> QED
      BY <1>0, <1>1, <1>2, <2>2, <3>1
  <2>4. PICK h : h = SubSeq(input, b + 1, b + z)
    OBVIOUS
  <2>5. h = req.host
    BY <1>6, <2>1, <2>3, <2>4, Zenon
  <2>6. Len(h) = z
    BY <2>3, <2>4, Slice, ZenonT(40)
  <2>7. h # <<>>
    <3>1. z # 0
      OBVIOUS
    <3>2. Len(<<>>) = 0
      OBVIOUS
    <3> QED
      BY <2>6, <3>1, <3>2, Zenon
  <2>8. (IF req.atyp = 3 THEN <<Len(req.host)>> ELSE <<>>) = <<z>>
    BY <1>6, <2>5, <2>6
  <2>9. SubSeq(input, a + 1, a + 1) = <<z>>
    BY <2>1, <2>3, Single, Zenon
  <2>10. t \o <<z>> = SubSeq(input, 1, b)
    <3>1. SubSeq(input, 1, a) \o SubSeq(input, a + 1, a + 1) = SubSeq(input, 1, a + 1)
      BY <2>3, Extend, Zenon
    <3> QED
      BY <1>3, <2>2, <2>9, <3>1, Zenon
  <2>11. SubSeq(input, 1, b) \o h = SubSeq(input, 1, b + z)
    BY <2>3, <2>4, Extend, Zenon
  <2> QED
    BY <1>2, <1>3, <2>3, <2>5, <2>7, <2>8, <2>10, <2>11, Zenon
<1> QED
  BY <1>5, <1>6, Zenon DEF HostRead

(***************************************************************************)
(* Reading inverts writing: what the parser has consumed when it hands the *)
(* request on is exactly the encoding of that request, so not one byte     *)
(* that the client sent behind it is lost to the tunnel.                   *)
(***************************************************************************)
THEOREM ReadingInvertsWriting == Spec => []ReadsWhatWasWritten
<1>1. ASSUME SocksInv, stage \in {"routing", "replied"}
      PROVE  LET methods == SubSeq(input, 3, 2 + input[2])
             IN /\ SubSeq(input, 1, pos) = Encode(methods, req)
                /\ 0 \in ToSet(methods) /\ req.host # <<>> /\ req.port # 0
  <2>1. PICK k \in 2..256 : pos = 8 + N + k /\ HostRead(k) /\ PortRead(k)
    BY <1>1 DEF SocksInv, ParseInv
  <2>2. /\ Agreed /\ input[3 + N] = 5 /\ input[4 + N] = 1 /\ input[5 + N] = 0
        /\ req.atyp = input[6 + N] /\ N \in 1..255
    BY <2>1, HostReadHas, Zenon
  <2>3. input[1] = 5 /\ 0 \in ToSet(SubSeq(input, 3, 2 + N))
    BY <2>2, Zenon DEF Agreed, Greeted
  <2>4. /\ input \in Seq(Byte) /\ Len(input) \in Nat /\ pos \in Nat /\ pos <= Len(input)
    <3>1. TypeOK
      BY <1>1, Zenon DEF SocksInv
    <3>2. /\ input \in Seq(Byte) /\ Len(input) \in Nat
          /\ arrived \in Nat /\ pos \in Nat /\ pos <= arrived /\ arrived <= Len(input)
      BY <3>1, Positions, Zenon
    <3> QED
      BY <3>2
  <2>5. 8 + N + k <= Len(input) /\ 6 + N <= Len(input)
    <3>1. N \in 1..255 /\ pos = 8 + N + k
      BY <2>1, <2>2, Zenon
    <3> QED
      BY <2>4, <3>1
  <2>6. PICK ms : ms = SubSeq(input, 3, 2 + N)
    OBVIOUS
  <2>7. (<<5, Len(ms)>> \o ms) \o <<5, 1, 0, req.atyp>> = SubSeq(input, 1, 6 + N)
    <3>1. input[2] = N
      BY DEF N
    <3> QED
      BY <2>2, <2>3, <2>4, <2>5, <2>6, <3>1, HeadIsEncoded, Zenon
  <2>8. /\ (SubSeq(input, 1, 6 + N) \o (IF req.atyp = 3 THEN <<Len(req.host)>> ELSE <<>>)) \o req.host
             = SubSeq(input, 1, 6 + N + k)
        /\ req.host # <<>>
    BY <2>1, <2>4, <2>5, HostIsEncoded, Zenon
  <2>9. PICK a \in Nat : a = 6 + N + k
    BY <2>1, <2>2
  <2>10. a + 1 = 7 + N + k /\ a + 2 = 8 + N + k /\ a + 2 = pos /\ a + 2 <= Len(input) /\ 2 \in Nat
    BY <2>1, <2>2, <2>5, <2>9
  <2>11. PICK x \in Byte, y \in Byte : x = input[a + 1] /\ y = input[a + 2]
    <3>1. a + 1 \in 1..Len(input) /\ a + 2 \in 1..Len(input)
      BY <2>4, <2>9, <2>10
    <3> QED
      BY <2>4, <3>1, ElementOfSeq, Zenon
  <2>12. req.port = Big(x, y) /\ req.port # 0
    BY <2>1, <2>10, <2>11, Zenon DEF PortRead
  <2>13. SubSeq(input, a + 1, a + 2) = PutUint16(req.port)
    <3>1. SubSeq(input, a + 1, a + 2) = <<input[a + 1], input[a + 2]>>
      BY <2>4, <2>10, Pair, Zenon
    <3> QED
      BY <2>11, <2>12, <3>1, PortIsBytes, Zenon
  <2>14. SubSeq(input, 1, a) \o SubSeq(input, a + 1, a + 2) = SubSeq(input, 1, a + 2)
    BY <2>4, <2>10, Extend, Zenon
  <2>15. SubSeq(input, 1, pos) = SubSeq(input, 1, 6 + N + k) \o PutUint16(req.port)
    BY <2>9, <2>10, <2>13, <2>14, Zenon
  <2>16. Encode(ms, req) = SubSeq(input, 1, pos)
    BY <2>7, <2>8, <2>15, Zenon DEF Encode
  <2> QED
    BY <2>3, <2>6, <2>8, <2>12, <2>16, Zenon DEF N
<1>2. SocksInv => ReadsWhatWasWritten
  BY <1>1, Zenon DEF ReadsWhatWasWritten
<1> QED
  BY <1>2, SocksInvariance, PTL
=============================================================================
