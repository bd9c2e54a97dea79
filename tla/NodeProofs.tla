---------------------------- MODULE NodeProofs ----------------------------
(***************************************************************************)
(* Proofs about the HTTP front: it uses the pool only as the pool allows,  *)
(* so the pool's theorems carry over; and what it adds to them.            *)
(***************************************************************************)
EXTENDS NodeInvariant, PoolProofs

---------------------------------------------------------------------------
(* What the pool's steps leave alone.                                      *)

\* What a pool step must leave alone for the front's invariant to survive.
LEMMA FrontSurvives ==
  ASSUME NEW r \in Requests, FrontOf(r), public' = public,
         front'[r] = front[r], evidence \subseteq evidence',
         front[r].at # "door" => req'[r] = req[r],
         front[r].at = "opened" =>
           ent'[front[r].server].principal = ent[front[r].server].principal
  PROVE  FrontOf(r)'
BY DEF FrontOf, Running, RunsAsSelf, Proven

---------------------------------------------------------------------------
(* The front over the pool.                                                *)

\* An answer is the pool's Reply, or no step of it; it ends the request.
LEMMA AnswerEnds ==
  ASSUME NInv, NEW r \in Requests, Answer(r), UNCHANGED <<public, sdk>>,
         life' \in [Sids -> {"unused", "opened", "bound", "loose"}]
  PROVE  [Next]_vars /\ FrontTyped' /\ \A q \in Requests : FrontOf(q)'
<1>1. /\ \A q \in Requests \ {r} : req'[q] = req[q]
      /\ UNCHANGED <<ent, evidence>>
      /\ [Next]_vars
  <2>1. CASE req[r].pc = "idle"
    BY <2>1 DEF Answer, vars
  <2>2. CASE req[r].pc # "idle"
    BY <2>2 DEF Answer, Reply, Next, Work, realm, NInv, IInv, TypeOK
  <2> QED BY <2>1, <2>2
<1>2. /\ FrontTyped'
      /\ front'[r] = AtDoor
      /\ \A q \in Requests \ {r} : front'[q] = front[q]
  BY DEF Answer, NInv, FrontTyped, AtDoor
<1>3. FrontOf(r)'
  BY <1>2 DEF FrontOf, AtDoor, Running
<1>4. ASSUME NEW q \in Requests, q # r PROVE FrontOf(q)'
  BY <1>1, <1>2, <1>4, FrontSurvives DEF NInv
<1> QED BY <1>1, <1>2, <1>3, <1>4

\* A step of the pool alone, under which the requests in the SDK's hands and
\* the entries they run on stay as they are.
LEMMA PoolStepKeepsFront ==
  ASSUME NInv, UNCHANGED <<public, sdk, front>>,
         life' = Loosened(life, sessions, sessions'),
         evidence \subseteq evidence',
         \A r \in Requests : front[r].at # "door" => req'[r] = req[r],
         \A r \in Requests : front[r].at = "opened" =>
           ent'[front[r].server].principal = ent[front[r].server].principal
  PROVE  FrontTyped' /\ \A r \in Requests : FrontOf(r)'
<1>1. FrontTyped'
  BY DEF NInv, FrontTyped, Loosened
<1>2. ASSUME NEW r \in Requests PROVE FrontOf(r)'
  BY FrontSurvives DEF NInv
<1> QED BY <1>1, <1>2

\* A session is opened on a visible server, for its own principal.
LEMMA ServersArePublished ==
  ASSUME NInv, NEW r \in Requests, front[r].at = "opened"
  PROVE  front[r].server \in Entries /\ Published(front[r].server)
BY DEF NInv, FrontOf, RunsAsSelf, Proven, Published, IInv, EdgeNamesPrincipals

\* A handler at work is not in the SDK's hands.
LEMMA HandleKeepsFront ==
  ASSUME NInv, NEW q \in Requests, PoolStep(Handle(q))
  PROVE  FrontTyped' /\ \A r \in Requests : FrontOf(r)'
<1>1. \A r \in Requests : front[r].at # "door" => req'[r] = req[r]
  BY HandlerMovesItself DEF NInv, FrontOf, PoolStep, Done
<1>2. evidence \subseteq evidence'
  BY HandlerKeepsPrincipals DEF NInv, PoolStep
<1>3. \A r \in Requests : front[r].at = "opened" =>
        ent'[front[r].server].principal = ent[front[r].server].principal
  BY HandlerKeepsPrincipals, ServersArePublished DEF NInv, PoolStep
<1> QED BY <1>1, <1>2, <1>3, PoolStepKeepsFront DEF PoolStep

\* An arrival is at the door, and a refusal in public mode still is.
LEMMA DoorKeepsFront ==
  ASSUME NInv, NEW r \in Requests,
         \/ \E b \in Bearers, sid \in Sids \cup {NoSid} : Enter(r, b, sid)
         \/ Unauthorized(r)
  PROVE  FrontTyped' /\ \A q \in Requests : FrontOf(q)'
<1>1. /\ front[r].at = "door"
      /\ \A q \in Requests \ {r} : req'[q] = req[q]
      /\ UNCHANGED <<ent, evidence, public, sdk, front>>
      /\ life' = Loosened(life, sessions, sessions')
  <2>1. CASE \E b \in Bearers, sid \in Sids \cup {NoSid} : Enter(r, b, sid)
    BY <2>1 DEF Enter, PoolStep, Arrive, realm, NInv, IInv, TypeOK
  <2>2. CASE Unauthorized(r)
    BY <2>2 DEF Unauthorized, PoolStep, Reply, realm, NInv, IInv, TypeOK, FrontOf
  <2> QED BY <2>1, <2>2
<1> QED BY <1>1, PoolStepKeepsFront

\* The realm, the links, Close and the collector leave requests alone; the
\* collector spares what the SDK still holds.
LEMMA WorldKeepsFront ==
  ASSUME NInv,
         \/ \E b \in Bearers : PoolStep(Revoke(b))
         \/ \E e \in Entries : PoolStep(Drop(e) \/ Reconnect(e))
         \/ \E e \in Entries : ~HeldBySDK(e) /\ PoolStep(Collect(e))
         \/ PoolStep(Close)
  PROVE  FrontTyped' /\ \A r \in Requests : FrontOf(r)'
<1>1. /\ UNCHANGED <<req, public, sdk, front>>
      /\ life' = Loosened(life, sessions, sessions')
      /\ evidence \subseteq evidence'
      /\ \/ UNCHANGED ent
         \/ \E e \in Entries : ~HeldBySDK(e) /\ ent' = [ent EXCEPT ![e] = BlankEntry]
  BY DEF PoolStep, Revoke, Drop, Reconnect, Collect, Close, realm
<1>2. \A r \in Requests : front[r].at = "opened" =>
        ent'[front[r].server].principal = ent[front[r].server].principal
  BY <1>1, ServersArePublished DEF HeldBySDK, NInv, IInv, TypeOK
<1> QED BY <1>1, <1>2, PoolStepKeepsFront

\* The SDK takes a request up: nothing of the pool moves.
LEMMA HandOverKeepsFront ==
  ASSUME NInv, NEW r \in Requests,
         \/ \E sid \in Sids \cup {NoSid} : EnterBare(r, sid)
         \/ HandOver(r)
         \/ RunSession(r)
  PROVE  UNCHANGED vars /\ FrontTyped' /\ \A q \in Requests : FrontOf(q)'
<1>1. req[r].sid \in Sids \cup {NoSid}
  BY DEF NInv, IInv, TypeOK, RequestType
<1>2. /\ UNCHANGED <<vars, public, sdk, life>>
      /\ \A q \in Requests \ {r} : front'[q] = front[q]
      /\ FrontTyped'
  BY <1>1 DEF EnterBare, HandOver, RunSession, NInv, FrontTyped
<1>3. /\ req[r].pc \in Done
      /\ public => req[r].pc = "served"
      /\ front'[r].at \in {"inner", "run"}
      /\ Running(r)' <=> front'[r].server # NoEntry
  BY DEF EnterBare, HandOver, MayHandOver, RunSession, NInv, FrontTyped, FrontOf, Running, Done
<1>4. FrontOf(r)'
  BY <1>2, <1>3 DEF FrontOf, vars
<1>5. ASSUME NEW q \in Requests, q # r PROVE FrontOf(q)'
  BY <1>2, <1>5, FrontSurvives DEF NInv, vars
<1> QED BY <1>2, <1>4, <1>5

\* serverFor reads byBearer: the entry it finds has admitted the bearer.
LEMMA OpenKeepsFront ==
  ASSUME NInv, NEW r \in Requests, NEW s \in Sids, OpenSession(r, s)
  PROVE  UNCHANGED vars /\ FrontTyped' /\ \A q \in Requests : FrontOf(q)'
<1>1. PICK e \in Entries :
        /\ req[r].bearer \in Bearers /\ byBearer[req[r].bearer] = e
        /\ front' = [front EXCEPT ![r] = [at |-> "opened", sid |-> s, server |-> e]]
  BY DEF OpenSession, serverFor, NInv, IInv, TypeOK, RequestType
<1>2. RunsAsSelf(r)'
  <2>1. Proven(req[r].bearer, e)
    BY <1>1, InUse, NullsAreNotValues DEF NInv, IInv, IndexConsistent
  <2>2. front'[r].server = e
    BY <1>1 DEF NInv, FrontTyped
  <2>3. UNCHANGED <<req, evidence, ent>>
    BY DEF OpenSession, vars
  <2> QED BY <1>1, <2>1, <2>2, <2>3, NullsAreNotValues DEF RunsAsSelf, Proven
<1>3. /\ UNCHANGED <<vars, public>>
      /\ \A q \in Requests \ {r} : front'[q] = front[q]
      /\ FrontTyped'
  BY <1>1 DEF OpenSession, NInv, FrontTyped
<1>4. FrontOf(r)'
  BY <1>1, <1>2, <1>3, NullsAreNotValues DEF OpenSession, NInv, FrontTyped, FrontOf, Running, vars
<1>5. ASSUME NEW q \in Requests, q # r PROVE FrontOf(q)'
  BY <1>3, <1>5, FrontSurvives DEF NInv, vars
<1> QED BY <1>3, <1>4, <1>5

\* sessionCapture records an id through bindSession.
LEMMA RecordKeepsFront ==
  ASSUME NInv, NEW r \in Requests, Record(r)
  PROVE  [Next]_vars /\ FrontTyped' /\ \A q \in Requests : FrontOf(q)'
<1>1. front[r].sid \in Sids
  BY DEF Record, NInv, FrontOf
<1>2. /\ \A q \in Requests \ {r} : req'[q] = req[q]
      /\ UNCHANGED <<ent, evidence, public>>
      /\ [Next]_vars
  BY <1>1 DEF Record, Capture, realm, Next, Work, NInv, IInv, TypeOK
<1>3. /\ FrontTyped'
      /\ front'[r] = AtDoor
      /\ \A q \in Requests \ {r} : front'[q] = front[q]
  BY <1>1 DEF Record, NInv, FrontTyped, AtDoor
<1>4. FrontOf(r)'
  BY <1>3 DEF FrontOf, AtDoor, Running
<1>5. ASSUME NEW q \in Requests, q # r PROVE FrontOf(q)'
  BY <1>2, <1>3, <1>5, FrontSurvives DEF NInv
<1> QED BY <1>2, <1>3, <1>4, <1>5

---------------------------------------------------------------------------
(* The whole front.                                                        *)

\* NodeNext, with the pool step that each disjunct takes.
LEMMA NodeStep ==
  NInv /\ [NodeNext]_nodeVars =>
    [Next]_vars /\ FrontTyped' /\ \A q \in Requests : FrontOf(q)'
<1> SUFFICES ASSUME NInv, [NodeNext]_nodeVars
             PROVE  [Next]_vars /\ FrontTyped' /\ \A q \in Requests : FrontOf(q)'
  OBVIOUS
<1> DEFINE Kept == [Next]_vars /\ FrontTyped' /\ \A q \in Requests : FrontOf(q)'
<1>1. ASSUME NEW r \in Requests, NEW b \in Bearers, NEW sid \in Sids \cup {NoSid},
             Enter(r, b, sid)
      PROVE  Kept
  BY <1>1, DoorKeepsFront, Zenon DEF Enter, PoolStep, Next, Work
<1>2. ASSUME NEW r \in Requests, PoolStep(Handle(r)) PROVE Kept
  BY <1>2, HandleKeepsFront, Zenon DEF PoolStep, Next, Work
<1>3. ASSUME NEW r \in Requests, FrontStep(r) PROVE Kept
  <2>1. CASE Unauthorized(r)
    BY <2>1, DoorKeepsFront, Zenon DEF Unauthorized, PoolStep, Next, Work
  <2>2. CASE (\E sid \in Sids \cup {NoSid} : EnterBare(r, sid)) \/ HandOver(r) \/ RunSession(r)
    BY <2>2, HandOverKeepsFront, Zenon
  <2>3. CASE \E s \in Sids : OpenSession(r, s)
    BY <2>3, OpenKeepsFront, Zenon
  <2>4. CASE Record(r)
    BY <2>4, RecordKeepsFront, Zenon
  <2>5. CASE TurnAway(r) \/ AnswerRun(r)
    BY <2>5, AnswerEnds DEF TurnAway, AnswerRun, NInv, FrontTyped
  <2>6. CASE AnswerUnrecorded(r)
    <3>1. life' \in [Sids -> {"unused", "opened", "bound", "loose"}]
      BY <2>6 DEF AnswerUnrecorded, NInv, FrontTyped
    <3> QED BY <2>6, <3>1, AnswerEnds DEF AnswerUnrecorded
  <2> QED BY <1>3, <2>1, <2>2, <2>3, <2>4, <2>5, <2>6, Zenon DEF FrontStep
<1>4. CASE \/ \E b \in Bearers : PoolStep(Revoke(b))
           \/ \E e \in Entries : PoolStep(Drop(e) \/ Reconnect(e))
           \/ \E e \in Entries : ~HeldBySDK(e) /\ PoolStep(Collect(e))
           \/ PoolStep(Close)
  <2>1. Next
    BY <1>4, Zenon DEF PoolStep, Next, Work
  <2> QED BY <1>4, <2>1, WorldKeepsFront, Zenon
<1>5. ASSUME NEW s \in Sids, EndSession(s) PROVE Kept
  <2>1. UNCHANGED <<vars, public, front>> /\ FrontTyped'
    BY <1>5, NullsAreNotValues DEF EndSession, NInv, FrontTyped
  <2> QED BY <2>1, FrontSurvives DEF NInv, vars
<1>6. CASE UNCHANGED nodeVars
  <2>1. UNCHANGED <<vars, public, front>> /\ FrontTyped'
    BY <1>6 DEF nodeVars, frontVars, NInv, FrontTyped
  <2> QED BY <2>1, FrontSurvives DEF NInv, vars
<1> QED
  BY <1>1, <1>2, <1>3, <1>4, <1>5, <1>6, Zenon DEF NodeNext

\* The front's invariant is inductive.
LEMMA NodePreserves == NInv /\ [NodeNext]_nodeVars => NInv'
BY NodeStep, NextPreserves DEF NInv

\* It holds at the start: no request has reached the SDK.
LEMMA NodeInitEstablishes == NodeInit => NInv
<1> SUFFICES ASSUME NodeInit PROVE NInv
  OBVIOUS
<1>1. IInv
  BY InitEstablishes DEF NodeInit
<1>2. FrontTyped
  BY ModesAreBoolean DEF NodeInit, FrontTyped, AtDoor
<1>3. ASSUME NEW r \in Requests PROVE FrontOf(r)
  BY DEF NodeInit, FrontOf, AtDoor, Running
<1> QED BY <1>1, <1>2, <1>3 DEF NInv

\* In every state that the front and the pool reach together.
LEMMA NodeInvariantHolds == NodeSpec => []NInv
<1> QED BY NodeInitEstablishes, NodePreserves, PTL DEF NodeSpec

---------------------------------------------------------------------------
(* Sessions.                                                               *)

\* What the pool has bound it keeps, or forgets for good.
LEMMA BindingsLoosen ==
  ASSUME FrontTyped, life' = Loosened(life, sessions, sessions'), NEW s \in Sids
  PROVE  /\ life'[s] = "bound" => life[s] = "bound" /\ sessions'[s] = sessions[s]
         /\ life[s] \in {"bound", "loose"} => life'[s] \in {"bound", "loose"}
         /\ life[s] = "opened" => life'[s] = "opened"
BY DEF FrontTyped, Loosened

\* An eviction of what a session id is bound to is seen in the index.
LEMMA EvictedIsLoose ==
  ASSUME NEW q \in Requests, NEW D, sessions \in [Sids -> Entries \cup {NoEntry}],
         req[q].sid \in Sids, Bound(q) # NoEntry, Bound(q) \in D
  PROVE  SessionsWithout(D)[req[q].sid] = NoEntry
BY NullsAreNotValues DEF Bound, SessionsWithout

\* A handler on a bound session reaches the session's entry, or a refusal.
LEMMA HandlerStaysOnSession ==
  ASSUME SInv, NEW q \in Requests, Handle(q), life' = Loosened(life, sessions, sessions')
  PROVE  OnItsSession(q)'
<1> DEFINE s == req[q].sid
<1>1. /\ req \in [Requests -> RequestType]
      /\ sessions \in [Sids -> Entries \cup {NoEntry}]
      /\ OnItsSession(q)
      /\ req'[q].sid = s
      /\ s = NoSid \/ s \in Sids
  BY HandlerKeepsSid DEF SInv, SessionsHold, NInv, IInv, TypeOK, RequestType
<1>2. SUFFICES ASSUME s \in Sids, life'[s] = "bound" PROVE OnItsSession(q)'
  BY <1>1 DEF OnItsSession
<1>3. /\ life[s] = "bound" /\ sessions'[s] = sessions[s]
      /\ sessions[s] # NoEntry /\ s # NoSid /\ Bound(q) = sessions[s]
  BY <1>2, BindingsLoosen, NullsAreNotValues DEF SInv, SessionsHold, NInv, SessionOf, Bound
<1>4. CASE ResolveBound(q) \/ RefuseForeign(q) \/ ResolveFresh(q)
  <2>1. \/ Goto(q, "adopt", Bound(q), "none", Nobody)
        \/ Goto(q, "mismatched", Bound(q), "none", Nobody)
        \/ Goto(q, "probe", Bound(q), "bound", Nobody)
    BY <1>4, Zenon DEF ResolveBound, RefuseForeign, ResolveFresh, Grant
  <2> QED BY <1>1, <1>3, <2>1, GotoMoves DEF OnItsSession
<1>5. CASE ResolveKnown(q)
  <2>1. ~Alive(Bound(q)) /\ Alive(byBearer[req[q].bearer])
    BY <1>3, <1>5 DEF ResolveKnown, OnLiveSession, Known
  <2>2. SessionsWithout(Corpses({Bound(q)}))[s] = NoEntry
    BY <1>1, <1>2, <1>3, <2>1, EvictedIsLoose DEF Corpses
  <2>3. sessions' = Bind(SessionsWithout(Corpses({Bound(q)})), s, byBearer[req[q].bearer])
    BY <1>5, Zenon DEF ResolveKnown
  <2>4. sessions'[s] = byBearer[req[q].bearer]
    BY <1>2, <1>3, <2>2, <2>3 DEF Bind, SessionsWithout
  <2> QED BY <1>3, <2>1, <2>4
<1>6. CASE RouteExisting(q) \/ \E e \in Entries : RouteNew(q, e)
  <2>1. ~OnLiveSession(q) /\ sessions' = SessionsWithout(Touched(q))
    BY <1>6, Zenon DEF RouteExisting, RouteNew, ByHint, evictLocked
  <2>2. Bound(q) \in Touched(q)
    BY <1>3, <2>1 DEF OnLiveSession, Touched, Corpses
  <2> QED BY <1>1, <1>2, <1>3, <2>1, <2>2, EvictedIsLoose
<1>7. CASE ProbeAdmitted(q) \/ ProbeRefused(q)
  <2>1. \/ Goto(q, "compare", req[q].entry, req[q].via, PrincipalOf[req[q].bearer])
        \/ Goto(q, "refused", NoEntry, "none", Nobody)
    BY <1>7, Zenon DEF ProbeAdmitted, ProbeRefused, Refuse
  <2>2. req[q].pc = "probe"
    BY <1>7 DEF ProbeAdmitted, ProbeRefused
  <2> QED BY <1>1, <1>3, <2>1, <2>2, GotoMoves DEF OnItsSession
<1>8. CASE AdmitCandidate(q) \/ RefuseCandidate(q)
  <2>1. \/ Goto(q, "adopt", req[q].entry, "none", Nobody)
        \/ Goto(q, "mismatched", req[q].entry, "none", Nobody)
    BY <1>8, Zenon DEF AdmitCandidate, RefuseCandidate, Grant
  <2>2. req[q].pc = "compare"
    BY <1>8 DEF AdmitCandidate, RefuseCandidate
  <2> QED BY <1>1, <1>3, <2>1, <2>2, GotoMoves DEF OnItsSession
<1>9. CASE Adopt(q)
  <2>1. Goto(q, "served", req[q].entry, "none", Nobody)
    BY <1>9, Zenon DEF Adopt, Grant
  <2>2. req[q].pc = "adopt"
    BY <1>9 DEF Adopt
  <2> QED BY <1>1, <1>3, <2>1, <2>2, GotoMoves DEF OnItsSession
<1>10. CASE DivertCandidate(q)
  <2>1. req[q].pc = "compare" /\ req[q].via = "hint"
    BY <1>10 DEF DivertCandidate
  <2> QED BY <1>1, <1>3, <2>1 DEF OnItsSession
<1>11. CASE EnsureExisting(q) \/ \E e \in Entries : EnsureNew(q, e)
  <2>1. req[q].pc = "ensure"
    BY <1>11 DEF EnsureExisting, EnsureNew
  <2> QED BY <1>1, <1>3, <2>1 DEF OnItsSession
<1>12. CASE Build(q)
  <2>1. req[q].pc \in {"build", "identify", "wire"}
    BY <1>12 DEF Build, Dial, DialRefused, Identify, SetupFailed, Wire, Built, AdmitBuilt, RefuseBuilt
  <2> QED BY <1>1, <1>3, <2>1 DEF OnItsSession
<1> QED
  BY <1>4, <1>5, <1>6, <1>7, <1>8, <1>9, <1>10, <1>11, <1>12, Zenon DEF Handle, Resolve, Candidate

\* What a pool step must leave alone for the sessions to stay with their
\* principals.
LEMMA PoolStepKeepsSessions ==
  ASSUME SInv, UNCHANGED <<sdk, front>>, life' = Loosened(life, sessions, sessions'),
         \A e \in Entries :
           Published(e) /\ (HeldBySDK(e) \/ \E s \in Sids : sessions[s] = e) =>
             ent'[e].principal = ent[e].principal,
         \A r \in Requests : front[r].at # "door" => req'[r] = req[r],
         \A r \in Requests : req'[r].pc # "idle" => Answered(req'[r].sid),
         \A r \in Requests : req'[r].sid \in Sids \cup {NoSid},
         \A r \in Requests : OnItsSession(r)'
  PROVE  SessionsHold'
<1>1. ASSUME NEW s \in Sids, life'[s] = "bound"
      PROVE  /\ life[s] = "bound" /\ sessions'[s] = sessions[s] /\ sessions[s] # NoEntry
             /\ ent'[sessions'[s]].principal = ent[sessions[s]].principal
  <2>1. /\ life[s] = "bound" /\ sessions'[s] = sessions[s]
        /\ sessions[s] \in Entries /\ Published(sessions[s])
    BY <1>1, BindingsLoosen
    DEF SInv, NInv, SessionsHold, SessionOf, IInv, TypeOK, SessionsPublished
  <2> QED BY <2>1, NullsAreNotValues
<1>2. ASSUME NEW e \in Entries, NEW s \in Sids, SamePrincipal(e, s), HeldBySDK(e)
      PROVE  SamePrincipal(e, s)'
  BY <1>1, <1>2 DEF SamePrincipal, Published
<1>3. ASSUME NEW s \in Sids PROVE SessionOf(s)'
  BY <1>1, <1>2, <1>3 DEF SInv, SessionsHold, SessionOf, HeldBySDK, SamePrincipal
<1>4. ASSUME NEW s \in Sids \cup {NoSid}, Answered(s) PROVE Answered(s)'
  BY <1>4, BindingsLoosen DEF Answered, SInv, NInv
<1>5. ASSUME NEW r \in Requests PROVE InHand(r)'
  <2>1. /\ InHand(r) /\ FrontOf(r)
        /\ front[r].sid \in Sids \cup {NoSid} /\ front[r].server \in Entries \cup {NoEntry}
    BY DEF SInv, NInv, SessionsHold, FrontTyped
  <2>2. req'[r].pc # "idle" => Answered(req[r].sid)'
    <3>1. PICK s \in Sids \cup {NoSid} : req'[r].sid = s
      OBVIOUS
    <3> QED BY <1>4, <3>1 DEF Answered
  <2>3. front[r].at \in {"inner", "run"} =>
          Answered(front[r].sid)' /\ (req'[r].pc # "idle" => front[r].sid = req'[r].sid)
    BY <1>4, <2>1 DEF InHand
  <2>4. front[r].at = "run" =>
          front[r].sid \in Sids /\ SamePrincipal(front[r].server, front[r].sid)'
    BY <1>2, <2>1 DEF InHand, HeldBySDK, SamePrincipal
  <2>5. front[r].at = "opened" => life'[front[r].sid] = "opened"
    BY <2>1, BindingsLoosen DEF InHand, FrontOf, SInv, NInv
  <2> QED BY <2>1, <2>2, <2>3, <2>4, <2>5 DEF InHand
<1> QED BY <1>3, <1>5 DEF SInv, SessionsHold, MintedOnce

\* A request that does not move keeps its session, unless the id is bound anew.
LEMMA OthersStayOnSession ==
  ASSUME SInv, NEW r \in Requests, req'[r] = req[r],
         life' = Loosened(life, sessions, sessions')
  PROVE  OnItsSession(r)'
<1>1. OnItsSession(r) /\ req[r].sid \in Sids \cup {NoSid}
  BY DEF SInv, SessionsHold, NInv, IInv, TypeOK, RequestType
<1> QED BY <1>1, BindingsLoosen DEF OnItsSession, SInv, NInv

\* A request that a step of the front does not move.
LEMMA BystanderKeepsSession ==
  ASSUME SInv, NEW q \in Requests, req'[q] = req[q], front'[q] = front[q], UNCHANGED ent,
         \A s \in Sids : life[s] \in {"bound", "loose"} =>
           /\ life'[s] \in {"bound", "loose"}
           /\ life'[s] = "bound" => life[s] = "bound" /\ sessions'[s] = sessions[s],
         front[q].at = "opened" =>
           /\ life'[front[q].sid] = "opened"
           /\ sdk'[front[q].sid] \in {NoEntry, sdk[front[q].sid]}
  PROVE  OnItsSession(q)' /\ InHand(q)'
<1>1. /\ InHand(q) /\ OnItsSession(q) /\ FrontOf(q)
      /\ front[q].sid \in Sids \cup {NoSid} /\ req[q].sid \in Sids \cup {NoSid}
  BY DEF SInv, NInv, SessionsHold, FrontTyped, IInv, TypeOK, RequestType
<1>2. \A s \in Sids \cup {NoSid} : Answered(s) => Answered(s)'
  BY DEF Answered
<1>3. OnItsSession(q)'
  BY <1>1 DEF OnItsSession, InHand, Answered
<1>4. InHand(q)'
  <2>1. req[q].pc # "idle" => Answered(req[q].sid)'
    BY <1>1, <1>2 DEF InHand
  <2>2. front[q].at \in {"inner", "run"} =>
          Answered(front[q].sid)' /\ (req[q].pc # "idle" => front[q].sid = req[q].sid)
    BY <1>1, <1>2 DEF InHand, Answered
  <2>3. front[q].at = "run" =>
          front[q].sid \in Sids /\ SamePrincipal(front[q].server, front[q].sid)'
    <3>1. ASSUME NEW e \in Entries, NEW s \in Sids, SamePrincipal(e, s),
                 life[s] \in {"bound", "loose"}
          PROVE  SamePrincipal(e, s)'
      BY <3>1 DEF SamePrincipal, Published
    <3>2. ASSUME front[q].at = "run"
          PROVE  /\ front[q].sid \in Sids /\ life[front[q].sid] \in {"bound", "loose"}
                 /\ front[q].server \in Entries
                 /\ SamePrincipal(front[q].server, front[q].sid)
      BY <1>1, <3>2, NullsAreNotValues DEF InHand, SamePrincipal, Answered
    <3> QED BY <3>1, <3>2
  <2>4. front[q].at = "opened" =>
          life'[front[q].sid] = "opened" /\ sdk'[front[q].sid] \in {NoEntry, front[q].server}
    BY <1>1 DEF InHand
  <2> QED BY <2>1, <2>2, <2>3, <2>4 DEF InHand, Answered, SamePrincipal, Published
<1> QED BY <1>3, <1>4

\* A session that a step of the front does not touch.
LEMMA UntouchedSession ==
  ASSUME SInv, NEW s \in Sids, UNCHANGED ent, sdk'[s] \in {NoEntry, sdk[s]},
         life'[s] = "bound" => life[s] = "bound" /\ sessions'[s] = sessions[s]
  PROVE  SessionOf(s)'
BY DEF SInv, SessionsHold, SessionOf, SamePrincipal, Published

\* The SDK takes a request up: it names a session it was told of.
LEMMA HandOverKeepsSessions ==
  ASSUME SInv, NEW r \in Requests,
         \/ \E sid \in Sids \cup {NoSid} : EnterBare(r, sid)
         \/ HandOver(r)
         \/ RunSession(r)
  PROVE  SessionsHold'
<1>1. /\ UNCHANGED <<req, ent, sessions, sdk, life>>
      /\ \A q \in Requests \ {r} : front'[q] = front[q]
      /\ front'[r].at \in {"inner", "run"}
  <2>1. front \in [Requests -> [at : {"door", "inner", "run", "opened"},
                               sid : Sids \cup {NoSid}, server : Entries \cup {NoEntry}]]
    BY DEF SInv, NInv, FrontTyped
  <2>2. CASE (\E sid \in Sids \cup {NoSid} : EnterBare(r, sid)) \/ HandOver(r)
    BY <2>1, <2>2 DEF EnterBare, HandOver, vars
  <2>3. CASE RunSession(r)
    BY <2>1, <2>3 DEF RunSession, vars
  <2> QED BY <2>2, <2>3
<1>2. InHand(r)'
  <2>1. /\ InHand(r) /\ req[r].sid \in Sids \cup {NoSid}
        /\ front \in [Requests -> [at : {"door", "inner", "run", "opened"},
                                   sid : Sids \cup {NoSid}, server : Entries \cup {NoEntry}]]
    BY DEF SInv, NInv, SessionsHold, FrontTyped, IInv, TypeOK, RequestType
  <2>2. CASE \E sid \in Sids \cup {NoSid} : EnterBare(r, sid)
    <3>1. PICK sid \in Sids \cup {NoSid} : EnterBare(r, sid)
      BY <2>2
    <3>2. /\ req'[r].pc = "idle" /\ Answered(sid)
          /\ front'[r].at = "inner" /\ front'[r].sid = sid
      BY <1>1, <2>1, <3>1 DEF EnterBare, Told, Answered
    <3> QED BY <1>1, <3>2 DEF InHand, Answered
  <2>3. CASE HandOver(r)
    BY <1>1, <2>1, <2>3 DEF HandOver, MayHandOver, InHand, Answered
  <2>4. CASE RunSession(r)
    <3>1. /\ front[r].sid \in Sids /\ SamePrincipal(sdk[front[r].sid], front[r].sid)
          /\ front'[r].sid = front[r].sid /\ front'[r].server = sdk[front[r].sid]
          /\ front'[r].at = "run" /\ front[r].at = "inner"
      BY <2>1, <2>4 DEF RunSession, SInv, SessionsHold, SessionOf
    <3> QED BY <1>1, <2>1, <3>1 DEF InHand, Answered, SamePrincipal, Published
  <2> QED BY <2>2, <2>3, <2>4
<1>3. OnItsSession(r)'
  BY <1>1 DEF SInv, SessionsHold, OnItsSession
<1>4. ASSUME NEW q \in Requests, q # r PROVE OnItsSession(q)' /\ InHand(q)'
  BY <1>1, <1>4, BystanderKeepsSession DEF SInv, SessionsHold, InHand
<1>5. \A s \in Sids : SessionOf(s)'
  BY <1>1, UntouchedSession
<1>6. MintedOnce'
  BY <1>1 DEF SInv, SessionsHold, MintedOnce
<1> QED BY <1>2, <1>3, <1>4, <1>5, <1>6 DEF SessionsHold

\* A new session is on a visible server, under an id that nobody has yet.
LEMMA OpenKeepsSessions ==
  ASSUME SInv, NEW r \in Requests, NEW s \in Sids, OpenSession(r, s)
  PROVE  SessionsHold'
<1>1. PICK e \in Entries :
        /\ front' = [front EXCEPT ![r] = [at |-> "opened", sid |-> s, server |-> e]]
        /\ sdk' = [sdk EXCEPT ![s] = e]
        /\ Published(e)
  <2>1. PICK e \in Entries :
          /\ req[r].bearer \in Bearers /\ byBearer[req[r].bearer] = e
          /\ front' = [front EXCEPT ![r] = [at |-> "opened", sid |-> s, server |-> e]]
          /\ sdk' = [sdk EXCEPT ![s] = e]
    BY DEF OpenSession, serverFor, SInv, NInv, IInv, TypeOK, RequestType
  <2>2. Published(e)
    BY <2>1, InUse, NullsAreNotValues DEF SInv, NInv, IInv, IndexConsistent
  <2> QED BY <2>1, <2>2
<1>2. /\ UNCHANGED <<req, ent, sessions>>
      /\ life[s] = "unused" /\ life' = [life EXCEPT ![s] = "opened"]
      /\ \A q \in Requests \ {r} : front'[q] = front[q]
      /\ front'[r] = [at |-> "opened", sid |-> s, server |-> e]
  BY <1>1 DEF OpenSession, vars, SInv, NInv, FrontTyped
<1>3. /\ life'[s] = "opened" /\ sdk'[s] = e
      /\ \A t \in Sids \ {s} : life'[t] = life[t] /\ sdk'[t] = sdk[t]
  BY <1>1, <1>2 DEF SInv, NInv, FrontTyped
<1>4. \A q \in Requests : front[q].at = "opened" =>
        front[q].sid \in Sids \ {s} /\ life[front[q].sid] = "opened"
  BY <1>2 DEF SInv, NInv, FrontOf, SessionsHold, InHand
<1>5. ASSUME NEW q \in Requests, q # r PROVE OnItsSession(q)' /\ InHand(q)'
  BY <1>2, <1>3, <1>4, <1>5, BystanderKeepsSession
<1>6. OnItsSession(r)' /\ InHand(r)'
  <2>1. /\ OnItsSession(r) /\ InHand(r) /\ req[r].sid \in Sids \cup {NoSid}
    BY DEF SInv, NInv, SessionsHold, IInv, TypeOK, RequestType
  <2> QED BY <1>2, <1>3, <2>1 DEF OnItsSession, InHand, Answered
<1>7. ASSUME NEW t \in Sids PROVE SessionOf(t)'
  BY <1>1, <1>2, <1>3, <1>7, UntouchedSession DEF SessionOf, SamePrincipal, Published
<1>8. MintedOnce'
  BY <1>2, <1>4 DEF SInv, SessionsHold, MintedOnce
<1> QED BY <1>5, <1>6, <1>7, <1>8 DEF SessionsHold

\* The end of a request, which leaves its session as it was, lost or, when
\* nobody recorded the id it was opened under, loose.
LEMMA AnswerKeepsSessions ==
  ASSUME SInv, NEW r \in Requests, TurnAway(r) \/ AnswerRun(r) \/ AnswerUnrecorded(r)
  PROVE  SessionsHold'
<1>1. /\ UNCHANGED <<ent, sessions, sdk>>
      /\ \A q \in Requests \ {r} : front'[q] = front[q] /\ req'[q] = req[q]
      /\ front'[r] = AtDoor
      /\ req'[r].pc = "idle"
  <2>1. /\ Answer(r)
        /\ UNCHANGED sdk
        /\ req \in [Requests -> RequestType]
        /\ front \in [Requests -> [at : {"door", "inner", "run", "opened"},
                                  sid : Sids \cup {NoSid}, server : Entries \cup {NoEntry}]]
    BY DEF TurnAway, AnswerRun, AnswerUnrecorded, SInv, NInv, FrontTyped, IInv, TypeOK
  <2>2. CASE req[r].pc = "idle"
    BY <2>1, <2>2 DEF Answer, vars
  <2>3. CASE req[r].pc # "idle"
    BY <2>1, <2>3 DEF Answer, Reply, IdleRequest, index
  <2> QED BY <2>2, <2>3
<1>2. \/ UNCHANGED life
      \/ /\ front[r].at = "opened"
         /\ life' = [life EXCEPT ![front[r].sid] = "loose"]
  BY DEF TurnAway, AnswerRun, AnswerUnrecorded
<1>3. ASSUME NEW s \in Sids
      PROVE  /\ life'[s] = "bound" => life[s] = "bound"
             /\ life[s] \in {"bound", "loose"} => life'[s] \in {"bound", "loose"}
             /\ life'[s] = life[s] \/ (front[r].at = "opened" /\ front[r].sid = s)
  <2>1. life \in [Sids -> {"unused", "opened", "bound", "loose"}]
    BY DEF SInv, NInv, FrontTyped
  <2>2. CASE UNCHANGED life
    BY <2>2
  <2>3. CASE front[r].at = "opened" /\ life' = [life EXCEPT ![front[r].sid] = "loose"]
    BY <1>3, <2>1, <2>3
  <2> QED BY <1>2, <2>2, <2>3
<1>4. ASSUME NEW q \in Requests, q # r PROVE OnItsSession(q)' /\ InHand(q)'
  <2>1. front[q].at = "opened" => life'[front[q].sid] = "opened"
    BY <1>3, <1>4 DEF SInv, NInv, FrontOf, SessionsHold, InHand, MintedOnce
  <2> QED BY <1>1, <1>3, <1>4, <2>1, BystanderKeepsSession
<1>5. OnItsSession(r)' /\ InHand(r)'
  BY <1>1 DEF OnItsSession, InHand, AtDoor
<1>6. \A s \in Sids : SessionOf(s)'
  BY <1>1, <1>3, UntouchedSession
<1>7. MintedOnce'
  BY <1>1 DEF SInv, SessionsHold, MintedOnce, AtDoor
<1> QED BY <1>4, <1>5, <1>6, <1>7 DEF SessionsHold

\* sessionCapture binds the id to the entry that resolve granted; the SDK runs
\* it on the one that serverFor found.  Both are the bearer's.
LEMMA RecordKeepsSessions ==
  ASSUME SInv, NEW r \in Requests, Record(r)
  PROVE  SessionsHold'
<1>1. PICK s \in Sids, g \in Entries :
        /\ front[r].sid = s /\ req[r].entry = g /\ front[r].at = "opened"
        /\ sessions' = [sessions EXCEPT ![s] = g]
        /\ life' = [life EXCEPT ![s] = "bound"]
        /\ Published(g) /\ Proven(req[r].bearer, g)
  <2>1. /\ front[r].sid \in Sids /\ req[r].entry \in Entries
        /\ Published(req[r].entry) /\ Proven(req[r].bearer, req[r].entry)
    BY DEF Record, SInv, NInv, FrontOf, IInv, RequestTrust, LocalsSet, Holding
  <2>2. /\ front[r].at = "opened"
        /\ sessions' = [sessions EXCEPT ![front[r].sid] = req[r].entry]
        /\ life' = [life EXCEPT ![front[r].sid] = "bound"]
    BY <2>1, NullsAreNotValues DEF Record, Capture, Bind
  <2> QED BY <2>1, <2>2
<1>2. /\ UNCHANGED <<ent, sdk>>
      /\ \A q \in Requests \ {r} : front'[q] = front[q] /\ req'[q] = req[q]
      /\ front'[r] = AtDoor
      /\ req'[r].pc = "idle"
  BY DEF Record, Capture, IdleRequest, SInv, NInv, FrontTyped, IInv, TypeOK
<1>3. /\ life'[s] = "bound" /\ sessions'[s] = g /\ life[s] = "opened"
      /\ \A t \in Sids \ {s} : life'[t] = life[t] /\ sessions'[t] = sessions[t]
  BY <1>1 DEF SInv, NInv, FrontTyped, IInv, TypeOK, SessionsHold, InHand
<1>4. ASSUME NEW q \in Requests, q # r PROVE OnItsSession(q)' /\ InHand(q)'
  <2>1. front[q].at = "opened" => front[q].sid \in Sids \ {s} /\ life[front[q].sid] = "opened"
    BY <1>1, <1>4 DEF SInv, NInv, FrontOf, SessionsHold, InHand, MintedOnce
  <2> QED BY <1>2, <1>3, <1>4, <2>1, BystanderKeepsSession
<1>5. OnItsSession(r)' /\ InHand(r)'
  BY <1>2 DEF OnItsSession, InHand, AtDoor
<1>6. ASSUME NEW t \in Sids PROVE SessionOf(t)'
  <2>1. CASE t # s
    BY <1>2, <1>3, <2>1, UntouchedSession
  <2>2. CASE t = s
    <3>1. sdk[s] # NoEntry =>
            sdk[s] \in Entries /\ Published(sdk[s]) /\ Proven(req[r].bearer, sdk[s])
      BY <1>1 DEF SInv, NInv, FrontOf, RunsAsSelf, SessionsHold, SessionOf, SamePrincipal, InHand
    <3> QED BY <1>1, <1>2, <1>3, <2>2, <3>1, NullsAreNotValues
          DEF SessionOf, SamePrincipal, Published, Proven
  <2> QED BY <2>1, <2>2
<1>7. MintedOnce'
  BY <1>2 DEF SInv, SessionsHold, MintedOnce, AtDoor
<1> QED BY <1>4, <1>5, <1>6, <1>7 DEF SessionsHold

\* An arrival names a session it was told of; a 401 ends a request; a handler
\* and the world move the pool only.
LEMMA PoolKeepsSessions ==
  ASSUME SInv,
         \/ \E r \in Requests, b \in Bearers, sid \in Sids \cup {NoSid} : Enter(r, b, sid)
         \/ \E r \in Requests : Unauthorized(r)
         \/ \E r \in Requests : PoolStep(Handle(r))
         \/ \E b \in Bearers : PoolStep(Revoke(b))
         \/ \E e \in Entries : PoolStep(Drop(e) \/ Reconnect(e))
         \/ \E e \in Entries : ~HeldBySDK(e) /\ PoolStep(Collect(e))
         \/ PoolStep(Close)
  PROVE  SessionsHold'
<1> DEFINE Named == \A r \in Requests : req'[r].pc # "idle" => Answered(req'[r].sid)
           Spared == \A e \in Entries :
                       Published(e) /\ (HeldBySDK(e) \/ \E s \in Sids : sessions[s] = e) =>
                         ent'[e].principal = ent[e].principal
           Kept == /\ Spared
                   /\ \A r \in Requests : front[r].at # "door" => req'[r] = req[r]
                   /\ Named
                   /\ \A r \in Requests : OnItsSession(r)'
<1>1. /\ UNCHANGED <<sdk, front>>
      /\ life' = Loosened(life, sessions, sessions')
  BY DEF Enter, Unauthorized, PoolStep
<1>2. /\ req \in [Requests -> RequestType] /\ ent \in [Entries -> EntryType]
      /\ \A r \in Requests : req[r].sid \in Sids \cup {NoSid}
      /\ \A r \in Requests : req[r].pc # "idle" => Answered(req[r].sid)
      /\ \A r \in Requests : FrontOf(r)
      /\ NInv
  BY DEF SInv, NInv, IInv, TypeOK, RequestType, SessionsHold, InHand
<1>3. ASSUME NEW r \in Requests, NEW b \in Bearers, NEW sid \in Sids \cup {NoSid},
             Enter(r, b, sid)
      PROVE  Kept
  <2>1. /\ front[r].at = "door" /\ Answered(sid) /\ UNCHANGED ent
        /\ \A q \in Requests \ {r} : req'[q] = req[q]
        /\ req'[r].pc = "resolve" /\ req'[r].sid = sid
    BY <1>2, <1>3 DEF Enter, Told, Answered, PoolStep, Arrive, IdleRequest
  <2>2. \A q \in Requests : OnItsSession(q)'
    BY <1>1, <2>1, OthersStayOnSession DEF OnItsSession
  <2>3. Spared
    BY <2>1
  <2>4. Named
    BY <1>2, <2>1 DEF Answered
  <2> QED BY <2>1, <2>2, <2>3, <2>4
<1>4. ASSUME NEW r \in Requests, Unauthorized(r) PROVE Kept
  <2>1. /\ front[r].at = "door" /\ UNCHANGED ent
        /\ \A q \in Requests \ {r} : req'[q] = req[q]
        /\ req'[r].pc = "idle"
    BY <1>2, <1>4 DEF Unauthorized, PoolStep, Reply, IdleRequest, FrontOf
  <2>2. \A q \in Requests : OnItsSession(q)'
    BY <1>1, <2>1, OthersStayOnSession DEF OnItsSession
  <2>3. Spared
    BY <2>1
  <2>4. Named
    BY <1>2, <2>1 DEF Answered
  <2> QED BY <2>1, <2>2, <2>3, <2>4
<1>5. ASSUME NEW r \in Requests, PoolStep(Handle(r)) PROVE Kept
  <2>1. /\ Handle(r) /\ req[r].pc \notin Done /\ req'[r].sid = req[r].sid
        /\ \A q \in Requests \ {r} : req'[q] = req[q]
    BY <1>2, <1>5, HandlerMovesItself, HandlerKeepsSid DEF PoolStep, NInv, Done
  <2>2. Spared
    BY <1>2, <2>1, HandlerKeepsPrincipals DEF NInv
  <2>3. \A q \in Requests : OnItsSession(q)'
    BY <1>1, <2>1, OthersStayOnSession, HandlerStaysOnSession
  <2>4. Named
    BY <1>2, <2>1 DEF Answered, Done
  <2>5. \A r1 \in Requests : front[r1].at # "door" => req'[r1] = req[r1]
    BY <1>2, <2>1 DEF FrontOf
  <2> QED BY <2>2, <2>3, <2>4, <2>5
<1>6. ASSUME \/ \E b \in Bearers : PoolStep(Revoke(b))
             \/ \E e \in Entries : PoolStep(Drop(e) \/ Reconnect(e))
             \/ \E e \in Entries : ~HeldBySDK(e) /\ PoolStep(Collect(e))
             \/ PoolStep(Close)
      PROVE  Kept
  <2>1. /\ UNCHANGED req
        /\ \/ UNCHANGED ent
           \/ \E e \in Entries : /\ ~HeldBySDK(e) /\ ~Referenced(e)
                                 /\ ent' = [ent EXCEPT ![e] = BlankEntry]
    BY <1>6 DEF PoolStep, Revoke, Drop, Reconnect, Collect, Close, Garbage, realm
  <2>2. Spared
    BY <1>2, <2>1 DEF Referenced
  <2>3. \A q \in Requests : OnItsSession(q)'
    BY <1>1, <2>1, OthersStayOnSession
  <2>4. Named
    BY <1>2, <2>1 DEF Answered
  <2>5. \A r \in Requests : front[r].at # "door" => req'[r] = req[r]
    BY <2>1
  <2> QED BY <2>2, <2>3, <2>4, <2>5
<1> HIDE DEF Kept
<1>7. Kept
  BY <1>3, <1>4, <1>5, <1>6
<1>8. \A r \in Requests : req'[r].sid \in Sids \cup {NoSid}
  <2>1. NodeNext
    BY Zenon DEF NodeNext, FrontStep
  <2> QED BY <1>2, <2>1, NodePreserves DEF NInv, IInv, TypeOK, RequestType
<1> QED BY <1>1, <1>7, <1>8, PoolStepKeepsSessions DEF Kept, Spared, Named

\* The session invariant is inductive.
LEMMA SessionsPreserve == SInv /\ [NodeNext]_nodeVars => SInv'
<1> SUFFICES ASSUME SInv, [NodeNext]_nodeVars PROVE SessionsHold'
  BY NodePreserves DEF SInv
<1>1. ASSUME NEW r \in Requests, FrontStep(r) PROVE SessionsHold'
  <2>1. CASE Unauthorized(r)
    BY <2>1, PoolKeepsSessions, Zenon
  <2>2. CASE (\E sid \in Sids \cup {NoSid} : EnterBare(r, sid)) \/ HandOver(r) \/ RunSession(r)
    BY <2>2, HandOverKeepsSessions, Zenon
  <2>3. CASE \E s \in Sids : OpenSession(r, s)
    BY <2>3, OpenKeepsSessions, Zenon
  <2>4. CASE Record(r)
    BY <2>4, RecordKeepsSessions, Zenon
  <2>5. CASE TurnAway(r) \/ AnswerRun(r) \/ AnswerUnrecorded(r)
    BY <2>5, AnswerKeepsSessions, Zenon
  <2> QED BY <1>1, <2>1, <2>2, <2>3, <2>4, <2>5, Zenon DEF FrontStep
<1>2. CASE UNCHANGED nodeVars \/ \E s \in Sids : EndSession(s)
  <2>1. /\ UNCHANGED <<req, ent, sessions, front, life>>
        /\ \A s \in Sids : sdk'[s] \in {NoEntry, sdk[s]}
    BY <1>2 DEF EndSession, nodeVars, frontVars, vars, SInv, NInv, FrontTyped
  <2>2. ASSUME NEW q \in Requests PROVE OnItsSession(q)' /\ InHand(q)'
    BY <2>1, BystanderKeepsSession DEF SInv, NInv, FrontOf, SessionsHold, InHand
  <2>3. ASSUME NEW s \in Sids PROVE SessionOf(s)'
    BY <2>1, UntouchedSession
  <2> QED BY <2>1, <2>2, <2>3 DEF SInv, SessionsHold, MintedOnce
<1>3. CASE NodeNext
  BY <1>1, <1>2, <1>3, PoolKeepsSessions, Zenon DEF NodeNext
<1> QED BY <1>2, <1>3

\* No session has been opened at the start.
LEMMA SessionsInit == NodeInit => SInv
<1> SUFFICES ASSUME NodeInit PROVE SessionsHold
  BY NodeInitEstablishes DEF SInv
<1> QED BY DEF NodeInit, Init, SessionsHold, SessionOf, OnItsSession, InHand, MintedOnce,
           AtDoor, IdleRequest

\* In every state that the front and the pool reach together.
LEMMA SessionInvariantHolds == NodeSpec => []SInv
<1> QED BY SessionsInit, SessionsPreserve, PTL DEF NodeSpec

\* ServeHTTP, the SDK's table and sessionCapture move the pool only by steps
\* of the pool's own: resolve, bindSession and the answer (node.go:63-98), in
\* either mode.  What holds of the pool under any caller holds behind the front.
THEOREM NodeImplementsPool == NodeSpec => Spec
<1>1. NodeInit => Init
  BY DEF NodeInit
<1>2. NInv /\ [NodeNext]_nodeVars => [Next]_vars
  BY NodeStep
<1> QED BY <1>1, <1>2, NodeInvariantHolds, PTL DEF NodeSpec, Spec

\* Every reachable state of the front is well typed, and a request has a
\* server exactly while the SDK runs it.
THEOREM NodeTypeCorrect == NodeSpec => []NodeTypeOK
<1>1. NInv => NodeTypeOK
  BY DEF NInv, IInv, FrontTyped, FrontOf, NodeTypeOK
<1> QED BY <1>1, NodeInvariantHolds, PTL

\* A session is opened on a server of the bearer that asks for one, whatever
\* became of the request's own resolve (node.go:69-79, pool.go:303-305).
THEOREM FreshSessionsAreOwnHolds == NodeSpec => []FreshSessionsAreOwn
<1>1. NInv => FreshSessionsAreOwn
  BY DEF NInv, FrontOf, FreshSessionsAreOwn
<1> QED BY <1>1, NodeInvariantHolds, PTL

\* In public mode the SDK runs only what resolve granted, to a bearer that
\* the realm has admitted (node.go:54-56, 73-77).
THEOREM PublicRunsAreAdmittedHolds == NodeSpec => []PublicRunsAreAdmitted
<1>1. NInv => PublicRunsAreAdmitted
  BY DEF NInv, FrontOf, Running, IInv, RequestTrust, Proven, PublicRunsAreAdmitted
<1> QED BY <1>1, NodeInvariantHolds, PTL

\* A request that runs on a session that the pool still knows is granted, and
\* came on the entry that the id is bound to.
LEMMA IsolationFollows == ASSUME SInv PROVE SessionIsolation
<1>1. ASSUME NEW r \in Requests, Running(r), req[r].pc = "served",
             life[front[r].sid] \in {"opened", "bound"}
      PROVE  RunsAsSelf(r)
  <2>1. CASE front[r].at = "opened"
    BY <1>1, <2>1 DEF SInv, NInv, FrontOf
  <2>2. CASE front[r].at = "run"
    <3>1. /\ front[r].sid \in Sids /\ front[r].sid = req[r].sid /\ front[r].sid # NoSid
          /\ life[front[r].sid] = "bound"
          /\ SamePrincipal(front[r].server, front[r].sid)
      BY <1>1, <2>2, NullsAreNotValues DEF SInv, SessionsHold, InHand, Answered
    <3>2. req[r].entry = sessions[front[r].sid]
      BY <1>1, <3>1 DEF SInv, SessionsHold, OnItsSession
    <3>3. /\ Proven(req[r].bearer, req[r].entry)
          /\ req[r].bearer \in Bearers
      BY <1>1 DEF SInv, NInv, IInv, RequestTrust, LocalsSet
    <3> QED BY <3>1, <3>2, <3>3, NullsAreNotValues DEF RunsAsSelf, SamePrincipal, Proven
  <2> QED BY <1>1, <2>1, <2>2 DEF Running
<1> QED BY <1>1 DEF SessionIsolation

\* From its opening until the pool drops its binding, a session runs what
\* resolve granted for its own principal only, for any clients and whatever
\* is evicted, rebuilt or bound between the SDK's lookup and the pool's
\* (pool.go:25-28, node.go:81-86).
THEOREM SessionIsolationHolds == NodeSpec => []SessionIsolation
<1> QED BY IsolationFollows, SessionInvariantHolds, PTL

\* The entry that the pool has for a session id and the one whose server the
\* SDK runs it on belong to one principal (node.go:39, 84).
THEOREM LookupsAgreeHolds == NodeSpec => []LookupsAgree
<1>1. SInv => LookupsAgree
  BY DEF SInv, SessionsHold, SessionOf, SamePrincipal, LookupsAgree
<1> QED BY <1>1, SessionInvariantHolds, PTL

============================================================================
