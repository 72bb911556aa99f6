------------------------------ MODULE Gateway -------------------------------
(***************************************************************************)
(* What ZeroSock promises its clients and its operator, without goroutines,*)
(* semaphores or routers: a client waits at the door, is turned away or    *)
(* let in, may be granted one backend that the policy of that moment       *)
(* allows, and leaves.  The policy may change at any time; the number of   *)
(* clients inside is limited.  Module Server implements this.              *)
(***************************************************************************)
EXTENDS Integers, FiniteSets

CONSTANTS
  Clients,
  Policies,   \* sets of <<host, address>> pairs an operator may allow
  Limit       \* clients inside at a time; 0 for no limit

NoGrant == <<>>

VARIABLES
  phase,      \* where each client is
  grant,      \* the pair each client was granted, or NoGrant
  policy,     \* the pairs allowed now
  door        \* TRUE while clients can arrive

gvars == <<phase, grant, policy, door>>

InsidePhases == {"serving", "granted", "tunnel", "leaving"}
Inside == {c \in Clients : phase[c] \in InsidePhases}
Move(c, to) == phase' = [phase EXCEPT ![c] = to]

GInit ==
  /\ phase = [c \in Clients |-> "outside"]
  /\ grant = [c \in Clients |-> NoGrant]
  /\ policy \in Policies
  /\ door = FALSE

Arrive(c) ==
  /\ phase[c] = "outside"
  /\ Move(c, IF door THEN "waiting" ELSE "rejected")
  /\ UNCHANGED <<grant, policy, door>>

LetIn(c) ==
  /\ phase[c] = "waiting"
  /\ Limit = 0 \/ Cardinality(Inside) < Limit
  /\ Move(c, "serving")
  /\ UNCHANGED <<grant, policy, door>>

(* A client is turned away only because the house is full ... *)
TurnAway(c) ==
  /\ phase[c] = "waiting"
  /\ Limit # 0 /\ Cardinality(Inside) >= Limit
  /\ Move(c, "rejected")
  /\ UNCHANGED <<grant, policy, door>>

(* ... or because the door closes, which may leave some still to be let in. *)
CloseDoor ==
  /\ door' = FALSE
  /\ \E S \in SUBSET {c \in Clients : phase[c] = "waiting"} :
       phase' = [c \in Clients |-> IF c \in S THEN "rejected" ELSE phase[c]]
  /\ UNCHANGED <<grant, policy>>

OpenDoor == door' = TRUE /\ UNCHANGED <<phase, grant, policy>>

(* A backend is granted only if the policy allows it at that moment. *)
Grant(c, p) ==
  /\ phase[c] = "serving" /\ p \in policy
  /\ Move(c, "granted")
  /\ grant' = [grant EXCEPT ![c] = p]
  /\ UNCHANGED <<policy, door>>

OpenTunnel(c) ==
  /\ phase[c] = "granted" /\ Move(c, "tunnel")
  /\ UNCHANGED <<grant, policy, door>>

(* The client is refused, its backend fails, or its tunnel ends. *)
End(c) ==
  /\ phase[c] \in {"serving", "granted", "tunnel"}
  /\ Move(c, "leaving")
  /\ grant' = [grant EXCEPT ![c] = NoGrant]
  /\ UNCHANGED <<policy, door>>

Leave(c) ==
  /\ phase[c] = "leaving" /\ Move(c, "gone")
  /\ UNCHANGED <<grant, policy, door>>

ChangePolicy(p) == policy' = p /\ UNCHANGED <<phase, grant, door>>

GNext ==
  \/ OpenDoor \/ CloseDoor
  \/ \E p \in Policies : ChangePolicy(p)
  \/ \E c \in Clients :
       \/ Arrive(c) \/ LetIn(c) \/ TurnAway(c) \/ OpenTunnel(c) \/ End(c) \/ Leave(c)
       \/ \E p \in policy : Grant(c, p)

GSpec == GInit /\ [][GNext]_gvars
=============================================================================
