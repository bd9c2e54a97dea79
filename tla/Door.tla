------------------------------- MODULE Door -------------------------------
(***************************************************************************)
(* What the pool promises its callers, and nothing about how: a request    *)
(* that asks with a bearer is answered once, and it is served only as the  *)
(* principal the admission edge has admitted that bearer as.               *)
(***************************************************************************)

CONSTANTS
  Bearers, Principals, Requests,
  NoBearer, Nobody,
  PrincipalOf        \* whom the edge admits a bearer as, or Nobody

VARIABLES
  evidence,          \* the bearers the edge has admitted so far
  ask                \* per request: its state, its bearer, whom it serves

doorVars == <<evidence, ask>>

NoAsk == [state |-> "none", bearer |-> NoBearer, as |-> Nobody]

DoorInit ==
  /\ evidence = {}
  /\ ask = [r \in Requests |-> NoAsk]

Ask(r, b) ==
  /\ ask[r].state = "none"
  /\ ask' = [ask EXCEPT ![r] = [NoAsk EXCEPT !.state = "asked", !.bearer = b]]
  /\ UNCHANGED evidence

\* The edge admits a bearer on some connection: the only source of trust.
Witness(b) ==
  /\ PrincipalOf[b] # Nobody
  /\ evidence' = evidence \cup {b}
  /\ UNCHANGED ask

Serve(r) ==
  /\ ask[r].state = "asked"
  /\ ask[r].bearer \in evidence
  /\ ask' = [ask EXCEPT ![r].state = "served", ![r].as = PrincipalOf[ask[r].bearer]]
  /\ UNCHANGED evidence

Deny(r) ==
  /\ ask[r].state = "asked"
  /\ ask' = [ask EXCEPT ![r].state = "denied"]
  /\ UNCHANGED evidence

Done(r) ==
  /\ ask[r].state \in {"served", "denied"}
  /\ ask' = [ask EXCEPT ![r] = NoAsk]
  /\ UNCHANGED evidence

DoorNext ==
  \/ \E r \in Requests, b \in Bearers : Ask(r, b)
  \/ \E b \in Bearers : Witness(b)
  \/ \E r \in Requests : Serve(r) \/ Deny(r) \/ Done(r)

DoorSpec == DoorInit /\ [][DoorNext]_doorVars

\* Every request is answered.
DoorFairSpec ==
  DoorSpec /\ \A r \in Requests : WF_doorVars(Serve(r) \/ Deny(r))

============================================================================
