------------------------------- MODULE Socks5 -------------------------------
(***************************************************************************)
(* internal/socks/protocol.go: handleHandshake and readRequest over a TCP  *)
(* stream whose bytes arrive in any segmentation, from a client that may   *)
(* send ahead, stop, or close; and the replies.  One action per            *)
(* io.ReadFull with what the code does with the bytes it returns.          *)
(***************************************************************************)
EXTENDS Integers, Sequences, SequencesExt

CONSTANTS
  Inputs,   \* byte sequences that clients send
  Binds     \* local ends of backend connections: [ip4, port], ip4 = <<>> for IPv6

Byte == 0..255
Word == {256 * hi + lo : hi \in Byte, lo \in Byte}   \* uint16

ASSUME BytesAssumption ==
  /\ \A s \in Inputs : s \in Seq(Byte)
  /\ \A b \in Binds : /\ b.port \in Word
                      /\ b.ip4 \in Seq(Byte) /\ Len(b.ip4) \in {0, 4}

VARIABLES
  input,     \* all that the client will send
  arrived,   \* how much of it is in the socket
  closed,    \* TRUE iff the client has closed its side, after what has arrived
  pos,       \* how much of it the server has read
  stage,     \* what it reads next, or "routing", "replied", "failed"
  size,      \* length of the list of methods or of the name
  req,       \* the request so far
  out,       \* what it has written
  err        \* why it failed

stream == <<input, arrived, closed>>
vars == <<stream, pos, stage, size, req, out, err>>

NoReq == [atyp |-> 0, host |-> <<>>, port |-> 0]

Init ==
  /\ input \in Inputs /\ arrived = 0 /\ closed = FALSE
  /\ pos = 0 /\ stage = "greeting" /\ size = 0 /\ req = NoReq
  /\ out = <<>> /\ err = "none"
-----------------------------------------------------------------------------
Uint16(b) == 256 * b[1] + b[2]   \* binary.BigEndian
PutUint16(n) == <<n \div 256, n % 256>>

FailureReply(code) == <<5, code, 0, 1, 0, 0, 0, 0, 0, 0>>
SuccessReply(bind) ==
  <<5, 0, 0, 1>> \o (IF bind.ip4 = <<>> THEN <<0, 0, 0, 0>> ELSE bind.ip4) \o PutUint16(bind.port)

(* The bytes that each io.ReadFull asks for. *)
NeedPortAhead ==   \* faulty: reads the port together with the next byte
  CASE stage = "greeting" -> 2 [] stage = "header" -> 4 [] stage = "ipv4" -> 4
    [] stage = "size" -> 1 [] stage = "port" -> 3 [] OTHER -> size
Need ==
  CASE stage = "greeting" -> 2 [] stage = "header" -> 4 [] stage = "ipv4" -> 4
    [] stage = "size" -> 1 [] stage = "port" -> 2 [] OTHER -> size

Reading == {"greeting", "methods", "header", "ipv4", "size", "name", "port"}
ReadyAny == arrived > pos   \* faulty: takes what a plain Read returns
Ready == arrived - pos >= Need
Bytes == SubSeq(input, pos + 1, pos + Need)

(* io.ReadFull returns all it was asked for. *)
ReadFull(s) == stage = s /\ Ready /\ pos' = pos + Need /\ UNCHANGED stream
Fail(why) == stage' = "failed" /\ err' = why /\ UNCHANGED <<size, req>>
Silently == Fail("protocol") /\ UNCHANGED out
GoOn(s) == stage' = s /\ UNCHANGED <<out, err>>

(* writeFailureReply, the result of which is ignored, and the end. *)
Refuse(code) == Fail("protocol") /\ out' \in {out, Append(out, FailureReply(code))}
-----------------------------------------------------------------------------
(* handleHandshake *)
ReadGreeting ==
  /\ ReadFull("greeting")
  /\ \/ (Bytes[1] # 5 \/ Bytes[2] = 0) /\ Silently
     \/ /\ Bytes[1] = 5 /\ Bytes[2] # 0
        /\ GoOn("methods") /\ size' = Bytes[2] /\ UNCHANGED req

SelectFirst(methods) == methods[1]   \* faulty: takes what the client likes best
Select(methods) == IF 0 \in ToSet(methods) THEN 0 ELSE 255

ReadMethods ==
  /\ ReadFull("methods")
  /\ \/ Fail("write") /\ UNCHANGED out
     \/ /\ out' = Append(out, <<5, Select(Bytes)>>)
        /\ \/ Select(Bytes) # 0 /\ Fail("protocol")
           \/ Select(Bytes) = 0 /\ stage' = "header" /\ UNCHANGED <<size, req, err>>

(* readRequest *)
ReadHeader ==
  /\ ReadFull("header")
  /\ \/ Bytes[1] # 5 /\ Silently
     \/ Bytes[1] = 5 /\ Bytes[2] # 1 /\ Refuse(7)
     \/ Bytes[1] = 5 /\ Bytes[2] = 1 /\ Bytes[3] # 0 /\ Refuse(1)
     \/ SubSeq(Bytes, 1, 3) = <<5, 1, 0>> /\ Bytes[4] \notin {1, 3} /\ Refuse(8)
     \/ /\ SubSeq(Bytes, 1, 3) = <<5, 1, 0>> /\ Bytes[4] \in {1, 3}
        /\ GoOn(IF Bytes[4] = 1 THEN "ipv4" ELSE "size")
        /\ req' = [req EXCEPT !.atyp = Bytes[4]] /\ UNCHANGED size

ReadSize ==
  /\ ReadFull("size")
  /\ \/ Bytes[1] = 0 /\ Refuse(8)
     \/ Bytes[1] # 0 /\ GoOn("name") /\ size' = Bytes[1] /\ UNCHANGED req

(* The address or the name. *)
ReadHost(s) ==
  /\ ReadFull(s)
  /\ GoOn("port") /\ req' = [req EXCEPT !.host = Bytes] /\ UNCHANGED size

PortLittleEndian(b) == 256 * b[2] + b[1]   \* faulty
PortOf(b) == Uint16(b)

ReadPort ==
  /\ ReadFull("port")
  /\ \/ PortOf(Bytes) = 0 /\ Refuse(1)
     \/ /\ PortOf(Bytes) # 0
        /\ GoOn("routing") /\ req' = [req EXCEPT !.port = PortOf(Bytes)] /\ UNCHANGED size

(* A read fails: the client closed before all bytes came, or the deadline  *)
(* (a reset looks the same) passed when some of them had been read.        *)
ReadFails ==
  /\ stage \in Reading
  /\ \/ closed /\ ~Ready /\ Fail("eof") /\ pos' = arrived
     \/ Fail("timeout") /\ pos' \in {n \in pos..arrived : n < pos + Need}
  /\ UNCHANGED <<stream, out>>

(* handleConnection answers: a tunnel to a backend, or host unreachable. *)
Answer ==
  /\ stage = "routing"
  /\ \/ \E b \in Binds :
          /\ out' = Append(out, SuccessReply(b))
          /\ stage' = "replied" /\ UNCHANGED <<size, req, err>>
     \/ Fail("unreachable") /\ out' \in {out, Append(out, FailureReply(4))}
     \/ Fail("write") /\ UNCHANGED out
  /\ UNCHANGED <<stream, pos>>
-----------------------------------------------------------------------------
(* The client's side of the stream. *)
Arrive ==
  /\ arrived < Len(input) /\ ~closed
  /\ arrived' = arrived + 1
  /\ UNCHANGED <<input, closed, pos, stage, size, req, out, err>>
Close ==
  /\ ~closed /\ closed' = TRUE
  /\ UNCHANGED <<input, arrived, pos, stage, size, req, out, err>>

Over == stage \in {"replied", "failed"} /\ UNCHANGED vars

Parse ==
  \/ ReadGreeting \/ ReadMethods \/ ReadHeader \/ ReadSize \/ ReadHost("ipv4") \/ ReadHost("name")
  \/ ReadPort
Next == Parse \/ ReadFails \/ Answer \/ Arrive \/ Close \/ Over

Spec == Init /\ [][Next]_vars
-----------------------------------------------------------------------------
TypeOK ==
  /\ input \in Inputs /\ arrived \in 0..Len(input) /\ closed \in BOOLEAN
  /\ pos \in 0..arrived
  /\ stage \in Reading \cup {"routing", "replied", "failed"}
  /\ size \in Byte
  /\ req.atyp \in {0, 1, 3} /\ req.host \in Seq(Byte) /\ req.port \in Word
  /\ err \in {"none", "protocol", "eof", "timeout", "write", "unreachable"}

(***************************************************************************)
(* The protocol, as a client writes it (RFC 1928 as far as the code        *)
(* supports it): a list of methods, then a request.                        *)
(***************************************************************************)
Encode(methods, r) ==
  <<5, Len(methods)>> \o methods \o <<5, 1, 0, r.atyp>>
    \o (IF r.atyp = 3 THEN <<Len(r.host)>> ELSE <<>>) \o r.host \o PutUint16(r.port)

(***************************************************************************)
(* Reading inverts writing: when the parser is done, the bytes it has read *)
(* are exactly the encoding of the request it reports, however they        *)
(* arrived.  So nothing sent after the request is swallowed: data that the *)
(* client pipelines is left for the relay.                                 *)
(***************************************************************************)
ReadsWhatWasWritten ==
  stage \in {"routing", "replied"} =>
    LET methods == SubSeq(input, 3, 2 + input[2])
    IN /\ SubSeq(input, 1, pos) = Encode(methods, req)
       /\ 0 \in ToSet(methods) /\ req.host # <<>> /\ req.port # 0

(* The stream begins with a complete, supported negotiation. *)
HasRequest(s) ==
  \E n \in 1..255 :
    /\ Len(s) > 6 + n /\ SubSeq(s, 1, 2) = <<5, n>>
    /\ 0 \in ToSet(SubSeq(s, 3, 2 + n)) /\ SubSeq(s, 3 + n, 5 + n) = <<5, 1, 0>>
    /\ \E host \in {4, s[7 + n] + 1} :
         /\ (host = 4 /\ s[6 + n] = 1) \/ (host > 1 /\ host = s[7 + n] + 1 /\ s[6 + n] = 3)
         /\ Len(s) >= 8 + n + host /\ Uint16(SubSeq(s, 7 + n + host, 8 + n + host)) # 0

(***************************************************************************)
(* A client that has sent a complete negotiation is never left waiting and *)
(* never refused: the parser does not wait for more bytes than it needs to *)
(* decide, does not take the end of the stream for a truncated request,    *)
(* and finds no fault in a supported request.                              *)
(***************************************************************************)
CompleteIsRead ==
  /\ HasRequest(SubSeq(input, 1, arrived)) => (stage \in Reading => Ready) /\ err # "eof"
  /\ err = "protocol" => ~HasRequest(input)

(***************************************************************************)
(* What the client hears: at most the choice of a method and one reply,    *)
(* the reply only after "no authentication" was chosen, and the code of a  *)
(* refusal names a fault that the bytes really have.                       *)
(***************************************************************************)
RepliesAreTrue ==
  /\ Len(out) <= 2
  /\ out # <<>> => /\ Len(out[1]) = 2
                   /\ out[1][2] = 0 <=> 0 \in ToSet(SubSeq(input, 3, 2 + input[2]))
  /\ Len(out) = 2 =>
       LET n == input[2]
           code == out[2][2]
       IN /\ out[1] = <<5, 0>> /\ Len(out[2]) = 10
          /\ code = 7 => input[4 + n] # 1
          /\ code = 1 => input[5 + n] # 0 \/ Uint16(SubSeq(input, pos - 1, pos)) = 0
          /\ code = 8 => input[6 + n] \notin {1, 3} \/ (input[6 + n] = 3 /\ input[7 + n] = 0)
          /\ code \in {0, 4} => HasRequest(SubSeq(input, 1, pos))
          /\ code = 0 => \E b \in Binds : b.port = Uint16(SubSeq(out[2], 9, 10))
=============================================================================
