---------------------------- MODULE HostedProofs ----------------------------
(***************************************************************************)
(* Proofs about the whole road of a hosted client.  The pool, the front    *)
(* and the authorization server keep what was proved of each alone, now    *)
(* that processes are killed, keys are rotated and tokens run out under    *)
(* them; and the clients' view of the road agrees with theirs.             *)
(***************************************************************************)
EXTENDS Hosted, NodeProofs, PoolLife

\* What was proved of the authorization server, for the one of this road.
ASP == INSTANCE SignInProofs WITH
  Codes <- Bearers, NoCode <- NoBearer, Clients <- Requests, NoClient <- "",
  Logins <- Principals, NoLogin <- Nobody,
  Verifiers <- Principals, NoVerifier <- Nobody,
  Redirects <- {"callback"}, Parseable <- {"callback"}, NoRedirect <- "",
  req <- asReq

---------------------------------------------------------------------------
(* The inductive invariant.                                                *)

RoadTyped ==
  /\ cl \in [Requests -> [at : Places, code : Bearers \cup {NoBearer},
                          sid : Sids \cup {NoSid}]]
  /\ status \in {"serving", "refused"}
  /\ mishaps \in 0..MaxMishaps /\ spoiled \in BOOLEAN

\* The node has a request of r's in hand.
Busy(r) == req[r].pc # "idle" \/ front[r].at # "door"

\* The SDK has a bare request in hand, and has not looked at it.
AtGuard == [at |-> "inner", sid |-> NoSid, server |-> NoEntry]

\* In local mode nobody gets past the front's 403.
AtTheGate(r) ==
  /\ cl[r].at \in {"cold", "asking", "lost"} /\ cl[r].code = NoBearer
  /\ req[r] = IdleRequest
  /\ front[r] \in {AtDoor, AtGuard}

\* Where a client stands is where the node and the server have its request;
\* past the registration it has a client id, past the sign-in a code.
ClientOf(r) ==
  /\ cl[r].at = "asking" <=> Busy(r)
  /\ cl[r].at = "signing" <=> asReq[r].pc \in {"lookup", "store"}
  /\ cl[r].at = "redeeming" <=> asReq[r].pc \in {"check", "mint"}
  /\ cl[r].at = "signing" => asReq[r].ac.clientID = r
  /\ cl[r].at \in {"registered", "signing", "coded", "redeeming", "ready"} => r \in clients
  /\ cl[r].at \in {"coded", "redeeming", "ready"} => cl[r].code \in Bearers
  /\ IF public THEN cl[r].at = "asking" => r \in clients /\ cl[r].code \in Bearers
     ELSE AtTheGate(r)

HInv ==
  /\ SInv
  /\ LifeInv
  /\ ASP!IInv
  /\ RoadTyped
  /\ \A r \in Requests : ClientOf(r)

---------------------------------------------------------------------------
(* The authorization server.                                               *)

\* The codes, people and client ids of the road are what SignIn takes them
\* for.
LEMMA ServerConstants == ASP!SignInConstants
BY NullsAreNotValues, HostedConstants DEF ASP!SignInConstants

\* The server that Hosted steps is the one that was proved about.
LEMMA SameServer ==
  /\ AS!register => ASP!register
  /\ AS!Rotate => ASP!Rotate
  /\ AS!NoAuth = ASP!NoAuth
  /\ AS!TypeOK <=> ASP!TypeOK
  /\ \A t : AS!Refetch(t) => ASP!Refetch(t)
  /\ \A c : AS!Expire(c) => ASP!Expire(c)
  /\ \A r, ac : AS!authorize(r, ac) => ASP!authorize(r, ac)
  /\ \A r, c, v, u : AS!token(r, c, v, u) => ASP!token(r, c, v, u)
  /\ \A r : /\ AS!Lookup(r) => ASP!Lookup(r)
            /\ AS!Store(r) => ASP!Store(r)
            /\ AS!Check(r) => ASP!Check(r)
            /\ AS!Token(r) => ASP!Token(r)
<1> USE DEF AS!NoAuth, ASP!NoAuth, AS!Idle, ASP!Idle, AS!S256, ASP!S256
<1>1. /\ AS!register => ASP!register
      /\ AS!Rotate => ASP!Rotate
  BY Zenon DEF AS!register, ASP!register, AS!Rotate, ASP!Rotate
<1>2. AS!NoAuth = ASP!NoAuth
  BY Zenon
<1>3. AS!TypeOK <=> ASP!TypeOK
  BY Zenon DEF AS!TypeOK, ASP!TypeOK, AS!AuthCode, ASP!AuthCode
<1>4. /\ \A t : AS!Refetch(t) => ASP!Refetch(t)
      /\ \A c : AS!Expire(c) => ASP!Expire(c)
  BY Zenon DEF AS!Refetch, ASP!Refetch, AS!Published, ASP!Published, AS!Expire, ASP!Expire
<1>5. /\ \A r, ac : AS!authorize(r, ac) => ASP!authorize(r, ac)
      /\ \A r, c, v, u : AS!token(r, c, v, u) => ASP!token(r, c, v, u)
  <2>1. \A r, ac : AS!authorize(r, ac) => ASP!authorize(r, ac)
    BY Zenon DEF AS!authorize, ASP!authorize, AS!Told, ASP!Told
  <2>2. ASSUME NEW r, NEW c, NEW v, NEW u, AS!token(r, c, v, u) PROVE ASP!token(r, c, v, u)
    <3>1. AS!Take(r, c, v, u) => ASP!Take(r, c, v, u)
      BY Zenon DEF AS!Take, ASP!Take
    <3>2. AS!Told(c) => ASP!Told(c)
      BY Zenon DEF AS!Told, ASP!Told
    <3> QED BY <2>2, <3>1, <3>2, Zenon DEF AS!token, ASP!token
  <2> QED BY <2>1, <2>2, Zenon
<1>6. ASSUME NEW r
      PROVE  /\ AS!Lookup(r) => ASP!Lookup(r)
             /\ AS!Store(r) => ASP!Store(r)
             /\ AS!Check(r) => ASP!Check(r)
             /\ AS!Token(r) => ASP!Token(r)
  <2>1. AS!Lookup(r) => ASP!Lookup(r)
    BY Zenon DEF AS!Lookup, ASP!Lookup
  <2>2. AS!Store(r) => ASP!Store(r)
    BY Zenon DEF AS!Store, ASP!Store
  <2>3. AS!Check(r) => ASP!Check(r)
    BY Zenon DEF AS!Check, ASP!Check, AS!Passes, ASP!Passes
  <2>4. AS!Token(r) => ASP!Token(r)
    BY Zenon DEF AS!Token, ASP!Token
  <2> QED BY <2>1, <2>2, <2>3, <2>4, Zenon
<1> QED BY <1>1, <1>2, <1>3, <1>4, <1>5, <1>6, Zenon

\* A client goes through the sign-in as the server's handlers allow.
LEMMA SignUpKeepsServer ==
  ASSUME HInv, NEW r \in Requests, NEW lost \in BOOLEAN,
         SignUp(r) \/ Store(r, lost) \/ Mint(r, lost)
  PROVE  ASP!IInv'
<1> USE DEF HInv
<1>1. CASE \/ Challenge(r) \/ AskBare(r) \/ Forbidden(r) \/ serveMetadata(r) \/ discovery(r)
  <2>1. UNCHANGED asVars
    BY <1>1, Zenon DEF Challenge, AskBare, Forbidden, serveMetadata, discovery, ASIdle
  <2>2. UNCHANGED ASP!vars
    BY <2>1, Zenon DEF asVars, ASP!vars
  <2> QED BY <2>2, ServerConstants, ASP!StutterKeeps
<1>2. CASE Register(r)
  <2>1. ASP!register
    BY <1>2, SameServer, Zenon DEF Register
  <2> QED BY <2>1, ServerConstants, ASP!registerKeeps
<1>3. CASE Authorize(r)
  <2>1. PICK ac \in ASP!AuthCode : ASP!authorize(r, ac)
    <3>1. SignInOf(r) \in ASP!AuthCode
      BY HostedConstants DEF SignInOf, ASP!AuthCode, AS!S256, ASP!S256
    <3>2. ASP!authorize(r, SignInOf(r))
      BY <1>3, SameServer, Zenon DEF Authorize
    <3> QED BY <3>1, <3>2
  <2> QED BY <2>1, ServerConstants, ASP!authorizeKeeps
<1>4. CASE Lookup(r)
  <2>1. ASP!Lookup(r)
    BY <1>4, SameServer, Zenon DEF Lookup
  <2> QED BY <2>1, ServerConstants, ASP!LookupKeeps
<1>5. CASE Store(r, lost) \/ Store(r, FALSE)
  <2>1. ASP!Store(r)
    BY <1>5, SameServer, Zenon DEF Store
  <2> QED BY <2>1, ServerConstants, ASP!StoreKeeps
<1>6. CASE Redeem(r)
  <2>1. /\ ASP!token(r, cl[r].code, Person[r], "callback")
        /\ At(r, "coded")
    BY <1>6, SameServer, Zenon DEF Redeem
  <2>2. /\ cl[r].code \in Bearers \cup {NoBearer} /\ Person[r] \in Principals
        /\ "callback" \in {"callback"} \cup {""}
    BY HostedConstants DEF RoadTyped
  <2> QED BY <2>1, <2>2, ServerConstants, ASP!tokenKeeps
<1>7. CASE Check(r)
  <2>1. ASP!Check(r)
    BY <1>7, SameServer, Zenon DEF Check
  <2> QED BY <2>1, ServerConstants, ASP!CheckKeeps
<1>8. CASE Mint(r, lost) \/ Mint(r, FALSE)
  <2>1. ASP!Token(r)
    BY <1>8, SameServer, Zenon DEF Mint
  <2> QED BY <2>1, ServerConstants, ASP!TokenKeeps
<1> QED BY <1>1, <1>2, <1>3, <1>4, <1>5, <1>6, <1>7, <1>8 DEF SignUp

\* A rotation, an expired code and the validator's fetch are the server's
\* own; whatever else happens leaves it alone.
LEMMA StepKeepsServer == ASSUME HInv, [HostedNext]_hostedVars PROVE ASP!IInv'
<1> USE DEF HInv
<1>1. ASSUME NEW r \in Requests, NEW lost \in BOOLEAN,
             SignUp(r) \/ Store(r, lost) \/ Mint(r, lost)
      PROVE  ASP!IInv'
  BY <1>1, SignUpKeepsServer
<1>2. CASE RotateKey
  <2>1. ASP!Rotate
    BY <1>2, SameServer, Zenon DEF RotateKey
  <2> QED BY <2>1, ServerConstants, ASP!RotateKeeps
<1>3. ASSUME NEW b \in Bearers, ExpireCode(b) PROVE ASP!IInv'
  <2>1. ASP!Expire(b)
    BY <1>3, SameServer, Zenon DEF ExpireCode
  <2> QED BY <2>1, ServerConstants, ASP!ExpireKeeps
<1>4. CASE EdgeRefetch
  <2>1. \E t : ASP!Refetch(t)
    BY <1>4, SameServer, Zenon DEF EdgeRefetch
  <2> QED BY <2>1, ServerConstants, ASP!RefetchKeeps
<1>5. CASE UNCHANGED asVars
  <2>1. UNCHANGED ASP!vars
    BY <1>5, Zenon DEF asVars, ASP!vars
  <2> QED BY <2>1, ServerConstants, ASP!StutterKeeps
<1>6. ASSUME NEW r \in Requests, Ask(r) \/ Serve(r) PROVE UNCHANGED asVars
  BY <1>6, Zenon DEF Ask, Serve, Inner, Call, Behind, Answers, ASIdle
<1>7. ASSUME \/ Crash
             \/ \E s \in Sids : LoseSession(s)
             \/ \E e \in Entries : LoseLink(e) \/ Link(e) \/ Sweep(e)
             \/ \E b \in Bearers : Void(b)
      PROVE  UNCHANGED asVars
  BY <1>7, Zenon DEF Crash, LoseSession, LoseLink, Link, Sweep, Void, ASIdle
<1>8. CASE UNCHANGED hostedVars
  BY <1>5, <1>8, Zenon DEF hostedVars
<1>9. ASSUME NEW r \in Requests, Advance(r) PROVE ASP!IInv'
  BY <1>1, <1>5, <1>6, <1>9 DEF Advance
<1>10. CASE GoWrong
  BY <1>1, <1>2, <1>3, <1>5, <1>7, <1>10 DEF GoWrong
<1> QED
  BY <1>4, <1>5, <1>7, <1>8, <1>9, <1>10 DEF HostedNext, Proceed

---------------------------------------------------------------------------
(* The front and the pool.                                                 *)

\* In local mode a bare request names no session, and the front's 403 is one
\* more way to turn it away.
LEMMA ForbiddenTurnsAway == ASSUME HInv, NEW r \in Requests, Forbidden(r) PROVE TurnAway(r)
<1>1. ~public /\ front[r].at = "inner" /\ Answer(r) /\ UNCHANGED <<public, sdk, life>>
  BY DEF Forbidden, DisableLocalhostProtection
<1>2. AtTheGate(r)
  BY <1>1 DEF HInv, ClientOf
<1>3. front[r].sid = NoSid /\ req[r].bearer = NoBearer
  BY <1>2 DEF AtTheGate, AtDoor, AtGuard, IdleRequest
<1> QED BY <1>1, <1>3 DEF TurnAway, serverFor

\* Whatever a client does before it has a token, the node takes at most a
\* bare request from it.
LEMMA SignUpStepsNode ==
  ASSUME HInv, NEW r \in Requests, NEW lost \in BOOLEAN,
         SignUp(r) \/ Store(r, lost) \/ Mint(r, lost)
  PROVE  [NodeNext]_nodeVars
<1>1. CASE AskBare(r)
  <2>1. \E sid \in Sids \cup {NoSid} : EnterBare(r, sid)
    BY <1>1 DEF AskBare
  <2> QED BY <2>1, Zenon DEF NodeNext, FrontStep
<1>2. CASE Forbidden(r)
  BY <1>2, ForbiddenTurnsAway, Zenon DEF NodeNext, FrontStep
<1>3. CASE \/ Challenge(r) \/ serveMetadata(r) \/ discovery(r) \/ Register(r)
           \/ Authorize(r) \/ Lookup(r) \/ Redeem(r) \/ Check(r)
  BY <1>3, Zenon DEF Challenge, serveMetadata, discovery, Register, Authorize, Lookup,
     Redeem, Check, NodeIdle
<1>4. CASE Store(r, FALSE) \/ Mint(r, FALSE) \/ Store(r, lost) \/ Mint(r, lost)
  BY <1>4, Zenon DEF Store, Mint, NodeIdle
<1> QED BY <1>1, <1>2, <1>3, <1>4, Zenon DEF SignUp

\* What is done with a token is done by the node's own handlers.
LEMMA ServeStepsNode ==
  ASSUME HInv, NEW r \in Requests, Ask(r) \/ Serve(r)
  PROVE  NodeNext
<1>1. CASE Ask(r)
  <2>1. cl[r].code \in Bearers /\ cl[r].sid \in Sids \cup {NoSid}
    BY <1>1 DEF Ask, At, HInv, RoadTyped, ClientOf
  <2>2. Enter(r, cl[r].code, cl[r].sid)
    BY <1>1, Zenon DEF Ask
  <2> QED BY <2>1, <2>2, Zenon DEF NodeNext
<1>2. CASE Serve(r)
  <2>1. \/ PoolStep(Handle(r)) \/ HandOver(r) \/ Unauthorized(r) \/ RunSession(r)
        \/ (\E s \in Sids : OpenSession(r, s)) \/ TurnAway(r) \/ Record(r) \/ AnswerRun(r)
    BY <1>2, Zenon DEF Serve, Inner, Call, Behind, Answers
  <2> QED BY <2>1, Zenon DEF NodeNext, FrontStep
<1> QED BY <1>1, <1>2

\* The world moves the node as it always may; but for a crash, which empties
\* it, and the validator's fetch, which voids tokens.
LEMMA WorldStepsNode ==
  ASSUME \/ \E e \in Entries : Link(e) \/ Sweep(e) \/ LoseLink(e)
         \/ \E s \in Sids : LoseSession(s)
         \/ \E b \in Bearers : Void(b) \/ ExpireCode(b)
         \/ RotateKey
         \/ UNCHANGED hostedVars
  PROVE  [NodeNext]_nodeVars /\ UNCHANGED <<cl, public, status>>
<1>1. CASE \E e \in Entries : Link(e) \/ LoseLink(e)
  <2>1. PICK e \in Entries : PoolStep(Drop(e)) \/ PoolStep(Reconnect(e))
    BY <1>1, Zenon DEF Link, LoseLink
  <2>2. PoolStep(Drop(e) \/ Reconnect(e))
    BY <2>1, Zenon DEF PoolStep
  <2>3. UNCHANGED <<cl, public, status>>
    BY <1>1, Zenon DEF Link, LoseLink, PoolStep
  <2> QED BY <2>2, <2>3, Zenon DEF NodeNext
<1>2. ASSUME NEW e \in Entries, Sweep(e) PROVE NodeNext /\ UNCHANGED <<cl, public, status>>
  <2>1. ~HeldBySDK(e) /\ PoolStep(Collect(e)) /\ UNCHANGED <<cl, public, status>>
    BY <1>2 DEF Sweep, Unreachable, PoolStep
  <2> QED BY <2>1, Zenon DEF NodeNext
<1>3. CASE (\E s \in Sids : LoseSession(s)) \/ (\E b \in Bearers : Void(b))
  <2>1. (\E s \in Sids : EndSession(s)) \/ (\E b \in Bearers : PoolStep(Revoke(b)))
    BY <1>3, Zenon DEF LoseSession, Void
  <2>2. UNCHANGED <<cl, public, status>>
    BY <1>3, Zenon DEF LoseSession, EndSession, Void, PoolStep
  <2> QED BY <2>1, <2>2, Zenon DEF NodeNext
<1>4. CASE RotateKey \/ (\E b \in Bearers : ExpireCode(b)) \/ UNCHANGED hostedVars
  <2>1. UNCHANGED <<nodeVars, cl, status>>
    BY <1>4, Zenon DEF RotateKey, ExpireCode, NodeIdle, hostedVars
  <2> QED BY <2>1, Zenon DEF nodeVars, frontVars
<1> QED BY <1>1, <1>2, <1>3, <1>4, Zenon

\* Every step of the road is a step of the node, one that it does not see, a
\* crash or a fetch.
LEMMA RoadStepsNode ==
  ASSUME HInv, [HostedNext]_hostedVars
  PROVE  [NodeNext]_nodeVars \/ Crash \/ EdgeRefetch
<1>1. ASSUME NEW r \in Requests, NEW lost \in BOOLEAN,
             SignUp(r) \/ Store(r, lost) \/ Mint(r, lost)
      PROVE  [NodeNext]_nodeVars
  BY <1>1, SignUpStepsNode, Zenon
<1>2. ASSUME NEW r \in Requests, Ask(r) \/ Serve(r) PROVE NodeNext
  BY <1>2, ServeStepsNode, Zenon
<1>3. FALSE \in BOOLEAN /\ TRUE \in BOOLEAN
  OBVIOUS
<1> QED BY <1>1, <1>2, <1>3, WorldStepsNode, Zenon DEF HostedNext, Proceed, GoWrong, Advance

\* A fetch takes admissions back and no evidence, as a revocation does.
LEMMA RefetchKeepsNode == ASSUME SInv, EdgeRefetch PROVE SInv'
<1>1. /\ valid' \subseteq valid
      /\ UNCHANGED <<entries, byBearer, sessions, ent, conn, req, evidence, closed>>
      /\ UNCHANGED <<public, sdk, front, life>>
  BY DEF EdgeRefetch, frontVars
<1>2. IInv'
  <2>1. TypeOK'
    BY <1>1 DEF SInv, NInv, IInv, TypeOK
  <2>2. EdgeNamesPrincipals' /\ evidence \subseteq evidence'
    BY <1>1 DEF SInv, NInv, IInv, EdgeNamesPrincipals
  <2>3. \A e \in Entries : Quiet(e)
    BY <1>1 DEF Quiet
  <2>4. IndexConsistent' /\ SessionsPublished'
    BY <1>1, SameIndexes DEF SInv, NInv, index
  <2> QED BY <1>1, <2>1, <2>2, <2>3, <2>4, QuietWorldKeeps DEF SInv, NInv
<1>3. FrontTyped' /\ \A r \in Requests : FrontOf(r)'
  BY <1>1, FrontSurvives DEF SInv, NInv, FrontTyped
<1>4. SessionsHold'
  <2>1. ASSUME NEW s \in Sids PROVE SessionOf(s)'
    BY <1>1, UntouchedSession
  <2>2. ASSUME NEW q \in Requests PROVE OnItsSession(q)' /\ InHand(q)'
    BY <1>1, BystanderKeepsSession DEF SInv, SessionsHold, InHand
  <2> QED BY <1>1, <2>1, <2>2 DEF SInv, SessionsHold, MintedOnce
<1> QED BY <1>2, <1>3, <1>4 DEF SInv, NInv

\* A node that has just started holds nothing that it could be wrong about,
\* whatever the realm has admitted before.
LEMMA CrashKeepsNode == ASSUME SInv, Crash PROVE SInv'
<1>1. /\ valid' = valid /\ evidence' = evidence /\ closed' = closed /\ public' = public
      /\ entries'  = [k \in Keys |-> NoEntry]
      /\ byBearer' = [b \in Bearers |-> NoEntry]
      /\ sessions' = [s \in Sids |-> NoEntry]
      /\ ent'   = [e \in Entries |-> BlankEntry]
      /\ conn'  = [e \in Entries |-> Offline("none")]
      /\ req'   = [r \in Requests |-> IdleRequest]
      /\ sdk'   = [s \in Sids |-> NoEntry]
      /\ front' = [r \in Requests |-> AtDoor]
      /\ life'  = [s \in Sids |-> IF life[s] = "unused" THEN "unused" ELSE "loose"]
  BY DEF Crash, realm
<1>2. /\ BlankEntry \in EntryType /\ BlankEntry.admitted = <<>>
      /\ BlankEntry.principal = Nobody /\ BlankEntry.build = "free"
      /\ BlankEntry.failed = FALSE /\ BlankEntry.key = NoKey
  BY DEF BlankEntry, EntryType
<1>3. /\ Offline("none") \in ConnType /\ Offline("none").state # "up"
  BY DEF Offline, ConnType
<1>4. Len(BlankEntry.admitted) <= Keep
  BY <1>2 DEF Keep
<1>5. TypeOK'
  BY <1>1, <1>2, <1>3, <1>4, IdleType DEF SInv, NInv, IInv, TypeOK
<1>6. LocalsSet'
  BY <1>1, <1>3, IdleType DEF LocalsSet, Holding, Building
<1>7. EdgeNamesPrincipals'
  BY <1>1 DEF SInv, NInv, IInv, EdgeNamesPrincipals
<1>8. ASSUME NEW e \in Entries PROVE EntryTrust(e)'
  <2>1. ent'[e] = BlankEntry /\ conn'[e] = Offline("none")
    BY <1>1
  <2>2. AdmittedTo(e)' = {} /\ ~Published(e)'
    BY <1>2, <2>1 DEF Published, AdmittedTo
  <2>3. \A p \in Principals : NoKey # principalKey(p)
    BY KeyFacts
  <2> QED BY <1>2, <1>3, <2>1, <2>2, <2>3 DEF EntryTrust
<1>9. IndexConsistent' /\ SessionsPublished'
  BY <1>1 DEF IndexConsistent, SessionsPublished
<1>10. \A r \in Requests : RequestTrust(r)'
  BY <1>1, IdleType DEF RequestTrust, Holding, Building
<1>11. FrontTyped'
  BY <1>1 DEF SInv, NInv, FrontTyped, AtDoor
<1>12. \A r \in Requests : FrontOf(r)'
  BY <1>1 DEF FrontOf, AtDoor, Running
<1>13. SessionsHold'
  BY <1>1 DEF SessionsHold, SessionOf, OnItsSession, InHand, MintedOnce, AtDoor, IdleRequest
<1> QED
  BY <1>5, <1>6, <1>7, <1>8, <1>9, <1>10, <1>11, <1>12, <1>13 DEF SInv, NInv, IInv

\* The invariants of the pool and of the front outlive every step.
LEMMA StepKeepsNode == ASSUME HInv, [HostedNext]_hostedVars PROVE SInv'
<1>1. CASE [NodeNext]_nodeVars
  BY <1>1, SessionsPreserve DEF HInv
<1> QED BY <1>1, RoadStepsNode, RefetchKeepsNode, CrashKeepsNode DEF HInv

\* So does the one about an entry's life.
LEMMA StepKeepsLife == ASSUME HInv, [HostedNext]_hostedVars PROVE LifeInv'
<1>1. CASE [NodeNext]_nodeVars
  BY <1>1, NodeStep, LifePreserves DEF HInv, SInv, NInv
<1>2. CASE EdgeRefetch
  <2>1. UNCHANGED <<index, ent, conn, req, closed>>
    BY <1>2 DEF EdgeRefetch, index
  <2> QED BY <2>1, LinkLivesOn DEF HInv, SInv, NInv
<1>3. CASE Crash
  <2>1. \A e \in Entries : ent'[e] = BlankEntry /\ conn'[e].state = "none"
    BY <1>3 DEF Crash, Offline
  <2>2. \A r \in Requests : req'[r].pc = "idle"
    BY <1>3 DEF Crash, IdleRequest
  <2>3. \A e \in Entries : EntryLife(e)' /\ Reachable(e)' /\ OnItsWayOut(e)'
    BY <2>1 DEF EntryLife, Reachable, OnItsWayOut, BlankEntry, Published, Open
  <2>4. (\A r \in Requests : BuilderKnows(r)') /\ OneBuilder'
    BY <2>2 DEF BuilderKnows, OneBuilder, AtWork
  <2> QED BY <2>3, <2>4 DEF LifeInv
<1> QED BY <1>1, <1>2, <1>3, RoadStepsNode

---------------------------------------------------------------------------
(* The clients.                                                            *)

ClientType == [at : Places, code : Bearers \cup {NoBearer}, sid : Sids \cup {NoSid}]

\* A client that nobody moves, and nobody moves the request of.
LEMMA BystanderStands ==
  ASSUME NEW q \in Requests, ClientOf(q), cl'[q] = cl[q], req'[q] = req[q],
         front'[q] = front[q], asReq'[q] = asReq[q], clients \subseteq clients',
         public' = public
  PROVE  ClientOf(q)'
BY DEF ClientOf, Busy, AtTheGate

\* A step of one client.
LEMMA OneClientMoves ==
  ASSUME HInv, NEW r \in Requests, NEW c \in ClientType, cl' = [cl EXCEPT ![r] = c],
         \A q \in Requests \ {r} :
           req'[q] = req[q] /\ front'[q] = front[q] /\ asReq'[q] = asReq[q],
         clients \subseteq clients', public' = public,
         cl'[r] = c => ClientOf(r)'
  PROVE  cl' \in [Requests -> ClientType] /\ \A q \in Requests : ClientOf(q)'
<1>1. cl \in [Requests -> ClientType]
  BY DEF HInv, RoadTyped, ClientType
<1>2. cl' \in [Requests -> ClientType] /\ cl'[r] = c /\ \A q \in Requests \ {r} : cl'[q] = cl[q]
  BY <1>1
<1>3. ASSUME NEW q \in Requests, q # r PROVE ClientOf(q)'
  BY <1>2, <1>3, BystanderStands DEF HInv
<1> QED BY <1>2, <1>3

\* A client's new place, code and session id.
Moved(place, code, sid) == [at |-> place, code |-> code, sid |-> sid]

\* A client's record is its three fields.
LEMMA MovedIs ==
  ASSUME NEW d \in ClientType
  PROVE  d = Moved(d.at, d.code, d.sid)
BY DEF Moved, ClientType

\* Becomes changes where a client is, and nothing that it knows.
LEMMA BecomesMoves ==
  ASSUME HInv, NEW r \in Requests, NEW place \in Places, Becomes(r, place)
  PROVE  /\ Moved(place, cl[r].code, cl[r].sid) \in ClientType
         /\ cl' = [cl EXCEPT ![r] = Moved(place, cl[r].code, cl[r].sid)]
<1>1. cl[r] \in ClientType
  BY DEF HInv, RoadTyped, ClientType
<1>2. Moved(place, cl[r].code, cl[r].sid) = [cl[r] EXCEPT !.at = place]
  BY <1>1 DEF Moved, ClientType
<1>3. Moved(place, cl[r].code, cl[r].sid) \in ClientType
  BY <1>1 DEF Moved, ClientType
<1> HIDE DEF Moved
<1> QED BY <1>2, <1>3 DEF Becomes

\* Only the authorization server works for a client that signs in.
LEMMA NodeIdles == ASSUME NodeIdle PROVE UNCHANGED <<req, front, public, status>>
BY DEF NodeIdle, nodeVars, frontVars, vars

\* The way to a client id.
LEMMA AdviceMoves ==
  ASSUME HInv, NEW r \in Requests,
         Challenge(r) \/ serveMetadata(r) \/ discovery(r) \/ Register(r)
  PROVE  cl' \in [Requests -> ClientType] /\ \A q \in Requests : ClientOf(q)'
<1>1. /\ cl[r].at \in {"cold", "challenged", "advised", "discovered"}
      /\ cl[r].at = "cold" => public
      /\ UNCHANGED <<req, front, public, asReq>>
      /\ clients \subseteq clients'
      /\ \E place \in {"challenged", "advised", "lost", "discovered", "registered"} :
           Becomes(r, place) /\ (place = "registered" => r \in clients')
  <2>1. CASE Challenge(r) \/ serveMetadata(r) \/ discovery(r)
    <3>1. NodeIdle /\ ASIdle
      BY <2>1, Zenon DEF Challenge, serveMetadata, discovery
    <3>2. UNCHANGED <<req, front, public, asReq, clients>>
      BY <3>1, NodeIdles DEF ASIdle, asVars
    <3>3. CASE Challenge(r)
      BY <3>2, <3>3 DEF Challenge, At
    <3>4. CASE serveMetadata(r)
      <4>1. \/ Becomes(r, "lost") \/ Becomes(r, "advised")
        BY <3>4, Zenon DEF serveMetadata
      <4> QED BY <3>2, <3>4, <4>1 DEF serveMetadata, At
    <3>5. CASE discovery(r)
      <4>1. \/ Becomes(r, "lost") \/ Becomes(r, "discovered")
        BY <3>5, Zenon DEF discovery
      <4> QED BY <3>2, <3>5, <4>1 DEF discovery, At
    <3> QED BY <2>1, <3>3, <3>4, <3>5
  <2>2. CASE Register(r)
    <3>1. /\ clients' = clients \cup {r} /\ Becomes(r, "registered") /\ NodeIdle
          /\ UNCHANGED asReq /\ cl[r].at = "discovered"
      BY <2>2 DEF Register, At, AS!register
    <3> QED BY <3>1, NodeIdles
  <2> QED BY <2>1, <2>2
<1>2. PICK place \in {"challenged", "advised", "lost", "discovered", "registered"} :
        Becomes(r, place) /\ (place = "registered" => r \in clients')
  BY <1>1
<1>3. place \in Places
  BY DEF Places
<1> DEFINE c == Moved(place, cl[r].code, cl[r].sid)
<1>4. c \in ClientType /\ cl' = [cl EXCEPT ![r] = c]
  BY <1>2, <1>3, BecomesMoves
<1>5. c.at = place
  BY DEF Moved
<1> HIDE DEF c
<1>6. public
  BY <1>1 DEF HInv, ClientOf, AtTheGate
<1>7. ASSUME cl'[r] = c PROVE ClientOf(r)'
  BY <1>1, <1>2, <1>5, <1>6, <1>7 DEF HInv, ClientOf, Busy
<1> QED BY <1>1, <1>4, <1>7, OneClientMoves

\* The server's handler leaves q of its client's request, and other clients'
\* requests alone.
Leaves(r, q) ==
  /\ asReq'[r] = q /\ \A s \in Requests \ {r} : asReq'[s] = asReq[s]
  /\ UNCHANGED clients

\* What a handler of the server does to its client's request.
LEMMA ServerMoves ==
  ASSUME HInv, NEW r \in Requests, NEW code, NEW ac
  PROVE  /\ AS!authorize(r, ac) => \E q : Leaves(r, q) /\ q.pc = "lookup" /\ q.ac = ac
         /\ AS!Lookup(r) /\ asReq[r].ac.clientID \in clients =>
              \E q : Leaves(r, q) /\ q.pc = "store" /\ q.ac = asReq[r].ac
         /\ AS!token(r, code, Person[r], "callback") => \E q : Leaves(r, q) /\ q.pc = "check"
         /\ AS!Check(r) => \E q : Leaves(r, q) /\ q.pc \in {"idle", "mint"}
         /\ AS!Store(r) \/ AS!Token(r) => Leaves(r, AS!Idle)
<1> DEFINE R == [pc : {"idle", "lookup", "store", "check", "mint"},
                 ac : ASP!AuthCode \cup {ASP!NoAuth}, code : Bearers \cup {NoBearer},
                 verifier : Principals \cup {Nobody}, redirect : {"callback"} \cup {""}]
<1>1. asReq \in [Requests -> R]
  BY DEF HInv, ASP!IInv, ASP!TypeOK
<1>2. asReq[r] \in R
  <2> HIDE DEF R
  <2> QED BY <1>1
<1>3. ASSUME NEW q, asReq' = [asReq EXCEPT ![r] = q], UNCHANGED clients PROVE Leaves(r, q)
  <2> HIDE DEF R
  <2> QED BY <1>1, <1>3 DEF Leaves
<1>4. ASSUME AS!authorize(r, ac) PROVE \E q : Leaves(r, q) /\ q.pc = "lookup" /\ q.ac = ac
  <2> DEFINE q == [AS!Idle EXCEPT !.pc = "lookup", !.ac = ac]
  <2>1. q.pc = "lookup" /\ q.ac = ac
    BY DEF AS!Idle
  <2>2. asReq' = [asReq EXCEPT ![r] = q] /\ UNCHANGED clients
    BY <1>4, Zenon DEF AS!authorize
  <2> HIDE DEF q
  <2> QED BY <1>3, <2>1, <2>2
<1>5. ASSUME AS!Lookup(r), asReq[r].ac.clientID \in clients
      PROVE  \E q : Leaves(r, q) /\ q.pc = "store" /\ q.ac = asReq[r].ac
  <2> DEFINE q == [asReq[r] EXCEPT !.pc = "store"]
  <2>1. q.pc = "store" /\ q.ac = asReq[r].ac
    BY <1>2
  <2>2. asReq' = [asReq EXCEPT ![r] = q] /\ UNCHANGED clients
    BY <1>5 DEF AS!Lookup
  <2> HIDE DEF q
  <2> QED BY <1>3, <2>1, <2>2
<1>6. ASSUME AS!token(r, code, Person[r], "callback")
      PROVE  \E q : Leaves(r, q) /\ q.pc = "check"
  <2> DEFINE q == [pc |-> "check", ac |-> IF code = NoBearer THEN AS!NoAuth ELSE codes[code],
                   code |-> code, verifier |-> Person[r], redirect |-> "callback"]
  <2>1. asReq' = [asReq EXCEPT ![r] = q] /\ UNCHANGED clients
    BY <1>6, Zenon DEF AS!token, AS!Take
  <2>2. q.pc = "check"
    OBVIOUS
  <2> HIDE DEF q
  <2> QED BY <1>3, <2>1, <2>2
<1>7. AS!Idle.pc = "idle"
  BY DEF AS!Idle
<1>8. ASSUME AS!Check(r) PROVE \E q : Leaves(r, q) /\ q.pc \in {"idle", "mint"}
  <2> DEFINE q == [asReq[r] EXCEPT !.pc = "mint"]
  <2>1. q.pc = "mint"
    BY <1>2
  <2>2. asReq' = [asReq EXCEPT ![r] = q] \/ asReq' = [asReq EXCEPT ![r] = AS!Idle]
    BY <1>8 DEF AS!Check
  <2>3. UNCHANGED clients
    BY <1>8 DEF AS!Check
  <2> HIDE DEF q
  <2> QED BY <1>3, <1>7, <2>1, <2>2, <2>3
<1>9. ASSUME AS!Store(r) \/ AS!Token(r) PROVE Leaves(r, AS!Idle)
  <2>1. asReq' = [asReq EXCEPT ![r] = AS!Idle] /\ UNCHANGED clients
    BY <1>9, Zenon DEF AS!Store, AS!Token
  <2> QED BY <1>3, <2>1
<1> QED BY <1>4, <1>5, <1>6, <1>8, <1>9

\* A step of the sign-in: the node stands still, and where the client is
\* agrees with what the server does for it.
LEMMA SignInStep ==
  ASSUME HInv, NEW r \in Requests, NEW q, Leaves(r, q), NodeIdle,
         NEW c \in ClientType, cl' = [cl EXCEPT ![r] = c],
         cl[r].at \in {"registered", "signing", "coded", "redeeming"},
         c.at \in {"registered", "signing", "coded", "redeeming", "ready"},
         c.at = "signing" <=> q.pc \in {"lookup", "store"},
         c.at = "redeeming" <=> q.pc \in {"check", "mint"},
         c.at = "signing" => q.ac.clientID = r,
         c.at \in {"coded", "redeeming", "ready"} => c.code \in Bearers
  PROVE  cl' \in [Requests -> ClientType] /\ \A s \in Requests : ClientOf(s)'
<1>1. UNCHANGED <<req, front, public, clients>>
  BY NodeIdles DEF Leaves
<1>2. ~Busy(r) /\ r \in clients /\ public
  BY DEF HInv, ClientOf, AtTheGate
<1>3. asReq'[r] = q
  BY DEF Leaves
<1>4. cl'[r] = c => ClientOf(r)'
  BY <1>1, <1>2, <1>3 DEF ClientOf, Busy
<1>5. \A s \in Requests \ {r} :
        req'[s] = req[s] /\ front'[s] = front[s] /\ asReq'[s] = asReq[s]
  BY <1>1 DEF Leaves
<1> QED BY <1>1, <1>4, <1>5, OneClientMoves

\* The code that a client gets is one that the server had to give.
LEMMA NextCodeIsNew == ASSUME NEW r \in Requests, NEW lost, Store(r, lost)
                       PROVE  NextCode(r) \in NewCodes(r)
<1>1. NewCodes(r) # {}
  BY Zenon DEF Store
<1> HIDE DEF NewCodes
<1> QED BY <1>1, Zenon DEF NextCode

\* The sign-in: whoever has a client id gets to a token, or back to the start.
LEMMA SignInMoves ==
  ASSUME HInv, NEW r \in Requests, NEW lost \in BOOLEAN,
         \/ Authorize(r) \/ Lookup(r) \/ Store(r, lost) \/ Redeem(r) \/ Check(r)
         \/ Mint(r, lost)
  PROVE  cl' \in [Requests -> ClientType] /\ \A q \in Requests : ClientOf(q)'
<1> DEFINE Kept == cl' \in [Requests -> ClientType] /\ \A q \in Requests : ClientOf(q)'
           here(place) == Moved(place, cl[r].code, cl[r].sid)
<1>1. /\ cl \in [Requests -> ClientType] /\ cl[r] \in ClientType
      /\ {"registered", "signing", "coded", "redeeming", "ready"} \subseteq Places
      /\ AS!Idle.pc = "idle"
      /\ \A place, code, sid : /\ Moved(place, code, sid).at = place
                               /\ Moved(place, code, sid).code = code
  BY DEF HInv, RoadTyped, ClientType, Places, AS!Idle, Moved
<1>2. NodeIdle
  BY Zenon DEF Authorize, Lookup, Store, Redeem, Check, Mint
<1>3. ASSUME NEW place \in {"registered", "signing", "coded", "redeeming", "ready"}, NEW q,
             Leaves(r, q), Becomes(r, place),
             cl[r].at \in {"registered", "signing", "coded", "redeeming"},
             place = "signing" <=> q.pc \in {"lookup", "store"},
             place = "redeeming" <=> q.pc \in {"check", "mint"},
             place = "signing" => q.ac.clientID = r,
             place \in {"coded", "redeeming", "ready"} => cl[r].code \in Bearers
      PROVE  Kept
  <2>1. here(place) \in ClientType /\ cl' = [cl EXCEPT ![r] = here(place)]
    BY <1>1, <1>3, BecomesMoves
  <2>2. here(place).at = place /\ here(place).code = cl[r].code
    BY <1>1
  <2> HIDE DEF here
  <2> QED BY <1>2, <1>3, <2>1, <2>2, SignInStep
<1>4. ASSUME Authorize(r) PROVE Kept
  <2>1. At(r, "registered") /\ AS!authorize(r, SignInOf(r)) /\ Becomes(r, "signing")
    BY <1>4, Zenon DEF Authorize
  <2>2. SignInOf(r).clientID = r
    BY DEF SignInOf
  <2>3. PICK q : Leaves(r, q) /\ q.pc = "lookup" /\ q.ac = SignInOf(r)
    BY <2>1, ServerMoves
  <2> QED BY <1>3, <2>1, <2>2, <2>3 DEF At
<1>5. ASSUME Lookup(r) PROVE Kept
  <2>1. At(r, "signing") /\ AS!Lookup(r) /\ cl' = cl
    BY <1>5, Zenon DEF Lookup
  <2>2. asReq[r].ac.clientID = r /\ r \in clients /\ cl[r].at = "signing"
    BY <2>1 DEF At, HInv, ClientOf
  <2>3. PICK q : Leaves(r, q) /\ q.pc = "store" /\ q.ac = asReq[r].ac
    BY <2>1, <2>2, ServerMoves
  <2>4. PICK c \in ClientType : c.at = "signing" /\ cl' = [cl EXCEPT ![r] = c]
    BY <1>1, <2>1, <2>2
  <2>5. q.pc \in {"lookup", "store"} /\ q.pc \notin {"check", "mint"} /\ q.ac.clientID = r
    BY <2>2, <2>3
  <2> HIDE DEF Kept
  <2>6. Leaves(r, q) /\ cl[r].at \in {"registered", "signing", "coded", "redeeming"}
    BY <2>2, <2>3
  <2>7. cl' \in [Requests -> ClientType] /\ \A s \in Requests : ClientOf(s)'
    BY <1>2, <2>4, <2>5, <2>6, SignInStep
  <2> QED BY <2>7 DEF Kept
<1>6. ASSUME Store(r, lost) PROVE Kept
  <2> DEFINE place == IF lost THEN "registered" ELSE "coded"
             code == IF lost THEN NoBearer ELSE NextCode(r)
             c == Moved(place, code, cl[r].sid)
  <2>1. At(r, "signing") /\ AS!Store(r)
    BY <1>6, Zenon DEF Store
  <2>2. cl' = [cl EXCEPT ![r].at = place, ![r].code = code]
    BY <1>6, Zenon DEF Store
  <2>3. code \in Bearers \cup {NoBearer} /\ (place = "coded" => code \in Bearers)
        /\ place \in {"registered", "coded"} /\ place \in Places
    BY <1>1, <1>6, NextCodeIsNew DEF NewCodes
  <2> HIDE DEF place, code
  <2> DEFINE d == [cl[r] EXCEPT !.at = place, !.code = code]
  <2>4. d \in ClientType /\ d.at = place /\ d.code = code /\ d.sid = cl[r].sid
    BY <1>1, <2>3 DEF ClientType
  <2>5. cl' = [cl EXCEPT ![r] = d]
    BY <1>1, <2>2
  <2> HIDE DEF d
  <2>6. c \in ClientType /\ cl' = [cl EXCEPT ![r] = c]
    BY <2>4, <2>5, MovedIs
  <2>7. c.at = place /\ c.code = code
    BY <1>1
  <2> HIDE DEF c
  <2>8. Leaves(r, AS!Idle)
    BY <2>1, ServerMoves
  <2> QED BY <1>1, <1>2, <2>1, <2>3, <2>6, <2>7, <2>8, SignInStep DEF At
<1>7. ASSUME Redeem(r) PROVE Kept
  <2>1. /\ At(r, "coded") /\ AS!token(r, cl[r].code, Person[r], "callback")
        /\ Becomes(r, "redeeming")
    BY <1>7, Zenon DEF Redeem
  <2>2. cl[r].code \in Bearers
    BY <2>1 DEF At, HInv, ClientOf
  <2>3. PICK q : Leaves(r, q) /\ q.pc = "check"
    BY <2>1, ServerMoves
  <2> QED BY <1>3, <2>1, <2>2, <2>3 DEF At
<1>8. ASSUME Check(r) PROVE Kept
  <2>1. /\ At(r, "redeeming") /\ AS!Check(r)
        /\ Becomes(r, IF asReq'[r].pc = "mint" THEN "redeeming" ELSE "registered")
    BY <1>8, Zenon DEF Check
  <2>2. cl[r].code \in Bearers
    BY <2>1 DEF At, HInv, ClientOf
  <2>3. PICK q : Leaves(r, q) /\ q.pc \in {"idle", "mint"}
    BY <2>1, ServerMoves
  <2>4. asReq'[r].pc = q.pc
    BY <2>3 DEF Leaves
  <2> QED BY <1>3, <2>1, <2>2, <2>3, <2>4 DEF At
<1>9. ASSUME Mint(r, lost) PROVE Kept
  <2>1. /\ At(r, "redeeming") /\ AS!Token(r)
        /\ Becomes(r, IF lost THEN "registered" ELSE "ready")
    BY <1>9, Zenon DEF Mint
  <2>2. cl[r].code \in Bearers
    BY <2>1 DEF At, HInv, ClientOf
  <2>3. Leaves(r, AS!Idle)
    BY <2>1, ServerMoves
  <2> QED BY <1>1, <1>3, <2>1, <2>2, <2>3 DEF At
<1> QED BY <1>4, <1>5, <1>6, <1>7, <1>8, <1>9

---------------------------------------------------------------------------
(* The clients at the node.                                                *)

\* An answer ends the request, and no other.
LEMMA AnswerFrees ==
  ASSUME HInv, NEW r \in Requests, Answer(r)
  PROVE  /\ ~Busy(r)'
         /\ \A q \in Requests \ {r} : req'[q] = req[q] /\ front'[q] = front[q]
         /\ req[r] = IdleRequest => req'[r] = IdleRequest
         /\ front'[r] = AtDoor
<1>1. /\ req \in [Requests -> RequestType]
      /\ front \in [Requests -> [at : {"door", "inner", "run", "opened"},
                                 sid : Sids \cup {NoSid}, server : Entries \cup {NoEntry}]]
  BY DEF HInv, SInv, NInv, FrontTyped, IInv, TypeOK
<1>2. front'[r] = AtDoor /\ \A q \in Requests \ {r} : front'[q] = front[q]
  BY <1>1 DEF Answer
<1>3. req'[r].pc = "idle" /\ \A q \in Requests \ {r} : req'[q] = req[q]
  BY <1>1, IdleType DEF Answer, Reply, vars
<1>4. req[r] = IdleRequest => req'[r] = IdleRequest
  BY IdleType DEF Answer, vars
<1> QED BY <1>2, <1>3, <1>4 DEF Busy, AtDoor

\* A client that gets an answer, in public mode: it has a place to go, with
\* the client id and the token that it has.
LEMMA AnsweredMoves ==
  ASSUME HInv, NEW r \in Requests, public, UNCHANGED <<public, asReq, clients>>,
         cl[r].at = "asking",
         ~Busy(r)',
         \A q \in Requests \ {r} : req'[q] = req[q] /\ front'[q] = front[q],
         NEW place \in {"registered", "ready"}, NEW sid \in Sids \cup {NoSid},
         cl' = [cl EXCEPT ![r].at = place, ![r].sid = sid]
  PROVE  cl' \in [Requests -> ClientType] /\ \A q \in Requests : ClientOf(q)'
<1> DEFINE c == Moved(place, cl[r].code, sid)
<1>1. cl \in [Requests -> ClientType] /\ cl[r] \in ClientType /\ place \in Places
  BY DEF HInv, RoadTyped, ClientType, Places
<1> DEFINE d == [cl[r] EXCEPT !.at = place, !.sid = sid]
<1>2. c.at = place /\ c.code = cl[r].code
  BY DEF Moved
<1>3. d \in ClientType /\ d.at = place /\ d.code = cl[r].code /\ d.sid = sid
  BY <1>1 DEF ClientType
<1>4. cl' = [cl EXCEPT ![r] = d]
  BY <1>1
<1> HIDE DEF d
<1>5. c \in ClientType /\ cl' = [cl EXCEPT ![r] = c]
  <2>1. d = Moved(d.at, d.code, d.sid)
    BY <1>3, MovedIs
  <2> QED BY <1>3, <1>4, <2>1
<1> HIDE DEF c
<1>6. ASSUME cl'[r] = c PROVE ClientOf(r)'
  <2>1. ClientOf(r)
    BY DEF HInv
  <2> QED BY <1>2, <1>6, <2>1 DEF ClientOf
<1>7. \A q \in Requests \ {r} :
        req'[q] = req[q] /\ front'[q] = front[q] /\ asReq'[q] = asReq[q]
  OBVIOUS
<1> QED BY <1>5, <1>6, <1>7, OneClientMoves

\* A handler of the pool does not forget its request.
LEMMA HandlerStaysBusy ==
  ASSUME HInv, NEW r \in Requests, Handle(r) PROVE req'[r].pc # "idle"
<1>1. req \in [Requests -> RequestType]
  BY DEF HInv, SInv, NInv, IInv, TypeOK
<1>2. req[r].pc # "idle"
  BY HandlerMovesItself DEF HInv, SInv, NInv
<1>3. \/ UNCHANGED req
      \/ \E pc, e, via, who : pc # "idle" /\ Goto(r, pc, e, via, who)
  <2>1. CASE Resolve(r)
    BY <2>1, Zenon DEF Resolve, ResolveBound, RefuseForeign, ResolveFresh, ResolveKnown,
       RouteExisting, RouteNew, Grant
  <2>2. CASE Candidate(r)
    BY <2>2, Zenon DEF Candidate, ProbeAdmitted, ProbeRefused, AdmitCandidate,
       RefuseCandidate, DivertCandidate, EnsureExisting, EnsureNew, Grant, Refuse
  <2>3. CASE Build(r)
    BY <2>3, Zenon DEF Build, Dial, DialRefused, Identify, SetupFailed, Wire, Built,
       AdmitBuilt, RefuseBuilt, Grant, Refuse
  <2>4. CASE Adopt(r)
    BY <2>4, Zenon DEF Adopt, Grant
  <2> QED BY <2>1, <2>2, <2>3, <2>4 DEF Handle
<1> QED BY <1>1, <1>2, <1>3, GotoMoves

\* In local mode: a bare request, and the 403 that answers it.
LEMMA GateMoves ==
  ASSUME HInv, NEW r \in Requests, AskBare(r) \/ Forbidden(r)
  PROVE  cl' \in [Requests -> ClientType] /\ \A q \in Requests : ClientOf(q)'
<1>1. ~public /\ UNCHANGED <<public, asReq, clients>>
  BY DEF AskBare, Forbidden, EnterBare, DisableLocalhostProtection, ASIdle, asVars
<1>2. AtTheGate(r) /\ ClientOf(r)
  BY <1>1 DEF HInv, ClientOf
<1>3. /\ \A q \in Requests \ {r} : req'[q] = req[q] /\ front'[q] = front[q]
      /\ req'[r] = IdleRequest
      /\ \/ Becomes(r, "asking") /\ front'[r] = AtGuard
         \/ Becomes(r, "lost") /\ front'[r] = AtDoor
  <2>1. CASE AskBare(r)
    <3>1. /\ EnterBare(r, NoSid) /\ Becomes(r, "asking")
          /\ front \in [Requests -> [at : {"door", "inner", "run", "opened"},
                                     sid : Sids \cup {NoSid}, server : Entries \cup {NoEntry}]]
      BY <2>1 DEF AskBare, HInv, SInv, NInv, FrontTyped
    <3>2. front[r] = AtDoor
      BY <1>2, <3>1 DEF AtTheGate, EnterBare, AtDoor, AtGuard
    <3>3. UNCHANGED req
      BY <3>1 DEF EnterBare, vars
    <3>4. front' = [front EXCEPT ![r] = AtGuard]
      <4> DEFINE d == [front[r] EXCEPT !.at = "inner", !.sid = NoSid]
      <4>1. d = AtGuard
        <5> DEFINE T == [at : {"door", "inner", "run", "opened"},
                         sid : Sids \cup {NoSid}, server : Entries \cup {NoEntry}]
        <5>1. front[r] \in T /\ front[r].server = NoEntry
          BY <3>1, <3>2 DEF AtDoor
        <5>2. d \in T /\ d.at = "inner" /\ d.sid = NoSid /\ d.server = NoEntry
          BY <5>1
        <5> HIDE DEF d
        <5> QED BY <5>2 DEF AtGuard
      <4>2. front' = [front EXCEPT ![r] = d]
        BY <3>1 DEF EnterBare
      <4> QED BY <4>1, <4>2, Zenon
    <3> QED BY <1>2, <3>1, <3>3, <3>4 DEF AtTheGate
  <2>2. CASE Forbidden(r)
    <3>1. Answer(r) /\ Becomes(r, "lost")
      BY <2>2, Zenon DEF Forbidden
    <3> QED BY <1>2, <3>1, AnswerFrees DEF AtTheGate
  <2> QED BY <2>1, <2>2
<1>4. PICK place \in {"asking", "lost"} :
        /\ Becomes(r, place)
        /\ place = "asking" => front'[r] = AtGuard
        /\ place = "lost" => front'[r] = AtDoor
  BY <1>3
<1>5. place \in Places
  BY DEF Places
<1> DEFINE c == Moved(place, cl[r].code, cl[r].sid)
<1>6. c \in ClientType /\ cl' = [cl EXCEPT ![r] = c]
  BY <1>4, <1>5, BecomesMoves
<1>7. c.at = place /\ c.code = NoBearer
  BY <1>2 DEF Moved, AtTheGate
<1> HIDE DEF c
<1>8. AtDoor.at = "door" /\ AtGuard.at = "inner"
  BY DEF AtDoor, AtGuard
<1>9. ASSUME cl'[r] = c PROVE ClientOf(r)'
  <2>1. Busy(r)' <=> place = "asking"
    BY <1>3, <1>4, <1>8, IdleType DEF Busy
  <2>2. AtTheGate(r)'
    BY <1>3, <1>4, <1>7, <1>9 DEF AtTheGate
  <2>3. asReq[r].pc \notin {"lookup", "store", "check", "mint"}
    BY <1>2 DEF ClientOf, AtTheGate
  <2> QED BY <1>1, <1>4, <1>7, <1>9, <2>1, <2>2, <2>3 DEF ClientOf
<1>10. \A q \in Requests \ {r} :
         req'[q] = req[q] /\ front'[q] = front[q] /\ asReq'[q] = asReq[q]
  BY <1>1, <1>3
<1>11. clients \subseteq clients' /\ public' = public
  BY <1>1
<1> QED BY <1>6, <1>9, <1>10, <1>11, OneClientMoves

\* A request with a token reaches the node.
LEMMA AskMoves ==
  ASSUME HInv, NEW r \in Requests, Ask(r)
  PROVE  cl' \in [Requests -> ClientType] /\ \A q \in Requests : ClientOf(q)'
<1>1. /\ cl[r].at = "ready" /\ Enter(r, cl[r].code, cl[r].sid) /\ Becomes(r, "asking")
      /\ UNCHANGED <<public, front, asReq, clients>>
  BY DEF Ask, At, Enter, PoolStep, ASIdle, asVars
<1>2. ClientOf(r) /\ public
  BY <1>1 DEF HInv, ClientOf, AtTheGate
<1>3. Busy(r)' /\ \A q \in Requests \ {r} : req'[q] = req[q]
  <2>1. req \in [Requests -> RequestType]
    BY DEF HInv, SInv, NInv, IInv, TypeOK
  <2>2. /\ req' = [req EXCEPT ![r] = [IdleRequest EXCEPT !.pc = "resolve",
                                        !.bearer = cl[r].code, !.sid = cl[r].sid]]
    BY <1>1, Zenon DEF Enter, PoolStep, Arrive
  <2>3. [IdleRequest EXCEPT !.pc = "resolve", !.bearer = cl[r].code, !.sid = cl[r].sid].pc
          = "resolve"
    BY DEF IdleRequest
  <2> QED BY <2>1, <2>2, <2>3 DEF Busy
<1> DEFINE c == Moved("asking", cl[r].code, cl[r].sid)
<1>4. c \in ClientType /\ cl' = [cl EXCEPT ![r] = c]
  BY <1>1, BecomesMoves DEF Places
<1>5. c.at = "asking" /\ c.code = cl[r].code
  BY DEF Moved
<1> HIDE DEF c
<1>6. ASSUME cl'[r] = c PROVE ClientOf(r)'
  BY <1>1, <1>2, <1>3, <1>5, <1>6 DEF ClientOf
<1>7. \A q \in Requests \ {r} :
        req'[q] = req[q] /\ front'[q] = front[q] /\ asReq'[q] = asReq[q]
  BY <1>1, <1>3
<1>8. clients \subseteq clients' /\ public' = public
  BY <1>1
<1> QED BY <1>4, <1>6, <1>7, <1>8, OneClientMoves

\* A client that waits, in public mode, while the node works for it.
LEMMA WaitingStands ==
  ASSUME HInv, NEW r \in Requests, public, UNCHANGED <<public, asReq, clients, cl>>,
         cl[r].at = "asking", Busy(r)',
         \A q \in Requests \ {r} : req'[q] = req[q] /\ front'[q] = front[q]
  PROVE  cl' \in [Requests -> ClientType] /\ \A q \in Requests : ClientOf(q)'
<1>1. cl' \in [Requests -> ClientType]
  BY DEF HInv, RoadTyped, ClientType
<1>2. ClientOf(r)'
  <2>1. ClientOf(r)
    BY DEF HInv
  <2> QED BY <2>1 DEF ClientOf
<1>3. ASSUME NEW q \in Requests, q # r PROVE ClientOf(q)'
  BY <1>3, BystanderStands DEF HInv
<1> QED BY <1>1, <1>2, <1>3

\* Nothing that is done for a client that waits is done in local mode: there
\* the node has but a bare request in hand.
LEMMA ServedInPublic == ASSUME HInv, NEW r \in Requests, Serve(r) PROVE public
<1> SUFFICES ASSUME ~public PROVE FALSE
  OBVIOUS
<1>1. req[r].pc = "idle" /\ front[r].at \in {"door", "inner"}
  <2>1. req[r] = IdleRequest /\ front[r] \in {AtDoor, AtGuard}
    BY DEF HInv, ClientOf, AtTheGate
  <2>2. AtDoor.at = "door" /\ AtGuard.at = "inner"
    BY DEF AtDoor, AtGuard
  <2> QED BY <2>1, <2>2, IdleType
<1>2. ~Handle(r)
  BY <1>1, HandlerMovesItself DEF HInv, SInv, NInv
<1>3. /\ ~HandOver(r) /\ ~Unauthorized(r) /\ ~Inner(r) /\ ~Record(r) /\ ~AnswerRun(r)
  BY <1>1 DEF HandOver, MayHandOver, Unauthorized, Inner, DisableLocalhostProtection,
     Record, AnswerRun
<1> QED BY <1>2, <1>3, Zenon DEF Serve, Behind, Answers, Call, PoolStep

\* A request with a token is worked on, and answered.
LEMMA ServeMoves ==
  ASSUME HInv, NEW r \in Requests, Serve(r)
  PROVE  cl' \in [Requests -> ClientType] /\ \A q \in Requests : ClientOf(q)'
<1> DEFINE Kept == cl' \in [Requests -> ClientType] /\ \A q \in Requests : ClientOf(q)'
<1>1. /\ public /\ FrontOf(r)
      /\ req \in [Requests -> RequestType]
      /\ front \in [Requests -> [at : {"door", "inner", "run", "opened"},
                                 sid : Sids \cup {NoSid}, server : Entries \cup {NoEntry}]]
  BY ServedInPublic DEF HInv, SInv, NInv, FrontTyped, IInv, TypeOK
<1>2. /\ cl[r].at = "asking" /\ UNCHANGED <<asReq, clients>>
  BY DEF Serve, Inner, Call, Behind, Answers, At, ASIdle, asVars
<1>3. ASSUME UNCHANGED <<public, cl>>, Busy(r)',
             \A q \in Requests \ {r} : req'[q] = req[q] /\ front'[q] = front[q]
      PROVE  Kept
  BY <1>1, <1>2, <1>3, WaitingStands
<1>4. CASE Behind(r, PoolStep(Handle(r)))
  <2>1. PoolStep(Handle(r)) /\ UNCHANGED cl
    BY <1>4, Zenon DEF Behind
  <2>2. Handle(r) /\ UNCHANGED <<public, front>>
    BY <2>1 DEF PoolStep
  <2>3. Busy(r)' /\ \A q \in Requests \ {r} : req'[q] = req[q]
    BY <2>2, HandlerStaysBusy, HandlerMovesItself DEF Busy, HInv, SInv, NInv
  <2> QED BY <1>3, <2>1, <2>2, <2>3
<1>5. CASE \/ Behind(r, HandOver(r)) \/ Behind(r, RunSession(r))
           \/ Behind(r, \E s \in Sids : OpenSession(r, s) /\ s = NextSid)
  <2>1. UNCHANGED cl /\ (HandOver(r) \/ RunSession(r) \/ \E s \in Sids : OpenSession(r, s))
    BY <1>5, Zenon DEF Behind
  <2>2. /\ UNCHANGED <<public, req>>
        /\ front'[r].at # "door" /\ \A q \in Requests \ {r} : front'[q] = front[q]
    <3>1. CASE HandOver(r)
      BY <1>1, <3>1 DEF HandOver, vars
    <3>2. CASE RunSession(r)
      BY <1>1, <3>2 DEF RunSession, vars
    <3>3. ASSUME NEW s \in Sids, OpenSession(r, s)
          PROVE  /\ UNCHANGED <<public, req>>
                 /\ front'[r].at # "door" /\ \A q \in Requests \ {r} : front'[q] = front[q]
      BY <1>1, <3>3 DEF OpenSession, vars
    <3> QED BY <2>1, <3>1, <3>2, <3>3
  <2> QED BY <1>3, <2>1, <2>2 DEF Busy
<1>6. ASSUME UNCHANGED public, ~Busy(r)',
             \A q \in Requests \ {r} : req'[q] = req[q] /\ front'[q] = front[q],
             NEW place \in {"registered", "ready"}, NEW sid \in Sids \cup {NoSid},
             cl' = [cl EXCEPT ![r].at = place, ![r].sid = sid]
      PROVE  Kept
  BY <1>1, <1>2, <1>6, AnsweredMoves
<1>7. cl[r].sid \in Sids \cup {NoSid} /\ front[r].sid \in Sids \cup {NoSid}
  BY <1>1 DEF HInv, RoadTyped
<1>8. CASE Answers(r, Unauthorized(r), "registered", cl[r].sid)
  <2>1. Unauthorized(r) /\ cl' = [cl EXCEPT ![r].at = "registered", ![r].sid = cl[r].sid]
    BY <1>8, Zenon DEF Answers
  <2>2. /\ UNCHANGED <<public, front>> /\ front[r].at = "door"
        /\ req' = [req EXCEPT ![r] = IdleRequest]
    BY <1>1, <2>1 DEF Unauthorized, PoolStep, Reply, FrontOf
  <2>3. ~Busy(r)' /\ \A q \in Requests \ {r} : req'[q] = req[q] /\ front'[q] = front[q]
    BY <1>1, <2>2, IdleType DEF Busy
  <2> QED BY <1>6, <1>7, <2>1, <2>2, <2>3
<1>9. CASE Answers(r, TurnAway(r), "ready", NoSid) \/ Call(r)
  <2>1. PICK sid \in Sids \cup {NoSid} :
          /\ TurnAway(r) \/ AnswerRun(r)
          /\ cl' = [cl EXCEPT ![r].at = "ready", ![r].sid = sid]
    BY <1>7, <1>9, Zenon DEF Answers, Call
  <2>2. Answer(r) /\ UNCHANGED public
    BY <2>1 DEF TurnAway, AnswerRun
  <2> QED BY <1>6, <2>1, <2>2, AnswerFrees
<1>10. CASE Answers(r, Record(r), "ready", front[r].sid)
  <2>1. Record(r) /\ cl' = [cl EXCEPT ![r].at = "ready", ![r].sid = front[r].sid]
    BY <1>10, Zenon DEF Answers
  <2>2. /\ UNCHANGED public /\ front' = [front EXCEPT ![r] = AtDoor]
        /\ req' = [req EXCEPT ![r] = IdleRequest]
    BY <2>1 DEF Record, Capture
  <2>3. ~Busy(r)' /\ \A q \in Requests \ {r} : req'[q] = req[q] /\ front'[q] = front[q]
    BY <1>1, <2>2, IdleType DEF Busy, AtDoor
  <2> QED BY <1>6, <1>7, <2>1, <2>2, <2>3
<1> QED BY <1>4, <1>5, <1>8, <1>9, <1>10, Zenon DEF Serve, Inner

\* What goes wrong, or on, without the clients.
LEMMA WorldMoves ==
  ASSUME HInv,
         \/ \E e \in Entries : Link(e) \/ Sweep(e) \/ LoseLink(e)
         \/ \E s \in Sids : LoseSession(s)
         \/ \E b \in Bearers : Void(b) \/ ExpireCode(b)
         \/ RotateKey \/ EdgeRefetch
         \/ UNCHANGED hostedVars
  PROVE  cl' \in [Requests -> ClientType] /\ \A q \in Requests : ClientOf(q)'
<1>1. UNCHANGED <<cl, req, front, public, asReq, clients>>
  <2>1. CASE \/ \E e \in Entries : Link(e) \/ Sweep(e) \/ LoseLink(e)
             \/ \E b \in Bearers : Void(b)
    <3>1. /\ UNCHANGED cl /\ ASIdle
          /\ \/ \E e \in Entries :
                  PoolStep(Drop(e)) \/ PoolStep(Reconnect(e)) \/ PoolStep(Collect(e))
             \/ \E b \in Bearers : PoolStep(Revoke(b))
      BY <2>1, Zenon DEF Link, Sweep, LoseLink, Void
    <3>2. UNCHANGED <<req, front, public>>
      BY <3>1 DEF PoolStep, Drop, Reconnect, Collect, Revoke
    <3> QED BY <3>1, <3>2 DEF ASIdle, asVars
  <2>2. CASE \E s \in Sids : LoseSession(s)
    BY <2>2 DEF LoseSession, EndSession, ASIdle, asVars, vars
  <2>3. CASE RotateKey \/ \E b \in Bearers : ExpireCode(b)
    <3>1. /\ UNCHANGED cl /\ NodeIdle
          /\ AS!Rotate \/ \E b \in Bearers : AS!Expire(b)
      BY <2>3, Zenon DEF RotateKey, ExpireCode
    <3>2. UNCHANGED <<asReq, clients>>
      BY <3>1 DEF AS!Rotate, AS!Expire
    <3> QED BY <3>1, <3>2, NodeIdles
  <2>4. CASE EdgeRefetch
    BY <2>4 DEF EdgeRefetch, AS!Refetch, frontVars
  <2>5. CASE UNCHANGED hostedVars
    BY <2>5 DEF hostedVars, nodeVars, frontVars, vars, asVars
  <2> QED BY <2>1, <2>2, <2>3, <2>4, <2>5
<1>2. cl' \in [Requests -> ClientType]
  BY <1>1 DEF HInv, RoadTyped, ClientType
<1>3. ASSUME NEW q \in Requests PROVE ClientOf(q)'
  BY <1>1, BystanderStands DEF HInv
<1> QED BY <1>2, <1>3

\* Who waits for an answer when the process dies asks again, with the token
\* that it has; nobody else notices.
LEMMA CrashMoves ==
  ASSUME HInv, Crash
  PROVE  cl' \in [Requests -> ClientType] /\ \A q \in Requests : ClientOf(q)'
<1> DEFINE again(r) == [cl[r] EXCEPT !.at = IF cl[r].code = NoBearer THEN "cold" ELSE "ready"]
<1>1. /\ req' = [r \in Requests |-> IdleRequest]
      /\ front' = [r \in Requests |-> AtDoor]
      /\ cl' = [r \in Requests |-> IF cl[r].at # "asking" THEN cl[r] ELSE again(r)]
      /\ UNCHANGED <<public, asReq, clients>>
  BY DEF Crash, ASIdle, asVars
<1>2. ASSUME NEW r \in Requests
      PROVE  /\ cl[r] \in ClientType /\ again(r) \in ClientType
             /\ again(r).at = IF cl[r].code = NoBearer THEN "cold" ELSE "ready"
             /\ again(r).code = cl[r].code
  BY DEF HInv, RoadTyped, ClientType, Places
<1> HIDE DEF again
<1>3. cl' \in [Requests -> ClientType]
  BY <1>1, <1>2
<1>4. ASSUME NEW r \in Requests PROVE ClientOf(r)'
  <2>1. /\ ClientOf(r) /\ ~Busy(r)'
        /\ req'[r] = IdleRequest /\ front'[r] = AtDoor
        /\ cl'[r] = IF cl[r].at # "asking" THEN cl[r] ELSE again(r)
    BY <1>1, IdleType DEF HInv, Busy, AtDoor
  <2>2. CASE cl[r].at # "asking"
    BY <1>1, <2>1, <2>2 DEF ClientOf, AtTheGate
  <2>3. CASE cl[r].at = "asking" /\ public
    <3>1. cl'[r].at = "ready" /\ cl'[r].code \in Bearers /\ r \in clients
      BY <1>2, <2>1, <2>3, NullsAreNotValues DEF ClientOf
    <3> QED BY <1>1, <2>1, <2>3, <3>1 DEF ClientOf
  <2>4. CASE cl[r].at = "asking" /\ ~public
    <3>1. cl'[r].at = "cold" /\ cl'[r].code = NoBearer
      BY <1>2, <2>1, <2>4 DEF ClientOf, AtTheGate
    <3> QED BY <1>1, <2>1, <2>4, <3>1 DEF ClientOf, AtTheGate
  <2> QED BY <2>2, <2>3, <2>4
<1> QED BY <1>3, <1>4

\* Every client is where the node and the server have it, after every step.
LEMMA StepKeepsClients ==
  ASSUME HInv, [HostedNext]_hostedVars
  PROVE  cl' \in [Requests -> ClientType] /\ \A q \in Requests : ClientOf(q)'
<1> DEFINE Kept == cl' \in [Requests -> ClientType] /\ \A q \in Requests : ClientOf(q)'
<1>1. ASSUME NEW r \in Requests, NEW lost \in BOOLEAN,
             SignUp(r) \/ Store(r, lost) \/ Mint(r, lost)
      PROVE  Kept
  <2>1. CASE Challenge(r) \/ serveMetadata(r) \/ discovery(r) \/ Register(r)
    BY <2>1, AdviceMoves
  <2>2. CASE AskBare(r) \/ Forbidden(r)
    BY <2>2, GateMoves
  <2>3. CASE Store(r, FALSE) \/ Mint(r, FALSE)
    BY <2>3, SignInMoves
  <2>4. CASE \/ Authorize(r) \/ Lookup(r) \/ Store(r, lost) \/ Redeem(r) \/ Check(r)
             \/ Mint(r, lost)
    BY <2>4, SignInMoves
  <2> QED BY <1>1, <2>1, <2>2, <2>3, <2>4 DEF SignUp
<1>2. ASSUME NEW r \in Requests, Advance(r) PROVE Kept
  BY <1>1, <1>2, AskMoves, ServeMoves DEF Advance
<1>3. CASE GoWrong
  BY <1>1, <1>3, CrashMoves, WorldMoves DEF GoWrong
<1>4. CASE UNCHANGED hostedVars \/ EdgeRefetch \/ \E e \in Entries : Link(e) \/ Sweep(e)
  BY <1>4, WorldMoves, Zenon
<1> QED BY <1>2, <1>3, <1>4, Zenon DEF HostedNext, Proceed

---------------------------------------------------------------------------
(* The whole road.                                                         *)

\* main has left or it has not, and what goes wrong is counted.
LEMMA StepCountsMishaps ==
  ASSUME [HostedNext]_hostedVars
  PROVE  status' = status /\ (UNCHANGED mishapVars \/ Mishap(TRUE) \/ Mishap(FALSE))
<1>1. ASSUME NEW r \in Requests, NEW lost \in BOOLEAN,
             SignUp(r) \/ Store(r, lost) \/ Mint(r, lost)
      PROVE  status' = status /\ (UNCHANGED mishapVars \/ Mishap(TRUE))
  <2>1. CASE Store(r, lost) \/ Mint(r, lost) \/ Store(r, FALSE) \/ Mint(r, FALSE)
    BY <2>1 DEF Store, Mint, NodeIdle
  <2>2. CASE AskBare(r) \/ Forbidden(r)
    BY <2>2 DEF AskBare, Forbidden
  <2>3. CASE \/ Challenge(r) \/ serveMetadata(r) \/ discovery(r) \/ Register(r)
             \/ Authorize(r) \/ Lookup(r) \/ Redeem(r) \/ Check(r)
    BY <2>3 DEF Challenge, serveMetadata, discovery, Register, Authorize, Lookup, Redeem,
       Check, NodeIdle
  <2> QED BY <1>1, <2>1, <2>2, <2>3 DEF SignUp
<1>2. ASSUME NEW r \in Requests, Ask(r) \/ Serve(r) PROVE UNCHANGED <<status, mishapVars>>
  BY <1>2 DEF Ask, Serve, Inner, Call, Behind, Answers
<1>3. ASSUME \/ Crash \/ RotateKey
             \/ \E s \in Sids : LoseSession(s)
             \/ \E e \in Entries : LoseLink(e)
             \/ \E b \in Bearers : Void(b) \/ ExpireCode(b)
      PROVE  status' = status /\ (Mishap(TRUE) \/ Mishap(FALSE))
  BY <1>3 DEF Crash, RotateKey, LoseSession, LoseLink, Void, ExpireCode, NodeIdle
<1>4. ASSUME UNCHANGED hostedVars \/ EdgeRefetch \/ \E e \in Entries : Link(e) \/ Sweep(e)
      PROVE  UNCHANGED <<status, mishapVars>>
  BY <1>4 DEF hostedVars, EdgeRefetch, mishapVars, Link, Sweep
<1>5. ASSUME NEW r \in Requests, Advance(r)
      PROVE  status' = status /\ (UNCHANGED mishapVars \/ Mishap(TRUE))
  BY <1>1, <1>2, <1>5, Zenon DEF Advance
<1>6. \/ \E r \in Requests : Advance(r)
      \/ \E r \in Requests : Store(r, TRUE) \/ Mint(r, TRUE)
      \/ Crash \/ RotateKey
      \/ \E s \in Sids : LoseSession(s)
      \/ \E e \in Entries : LoseLink(e)
      \/ \E b \in Bearers : Void(b) \/ ExpireCode(b)
      \/ UNCHANGED hostedVars \/ EdgeRefetch
      \/ \E e \in Entries : Link(e) \/ Sweep(e)
  BY Zenon DEF HostedNext, Proceed, GoWrong
<1> QED
  <2>1. TRUE \in BOOLEAN
    OBVIOUS
  <2>2. CASE \E r \in Requests : Advance(r)
    BY <1>5, <2>2, Zenon
  <2>3. CASE \E r \in Requests : Store(r, TRUE) \/ Mint(r, TRUE)
    BY <1>1, <2>1, <2>3, Zenon
  <2>4. CASE UNCHANGED hostedVars \/ EdgeRefetch \/ \E e \in Entries : Link(e) \/ Sweep(e)
    BY <1>4, <2>4
  <2> QED BY <1>3, <1>6, <2>2, <2>3, <2>4, Zenon

\* It stays within its bound.
LEMMA StepCounts ==
  ASSUME HInv, [HostedNext]_hostedVars
  PROVE  status' = status /\ mishaps' \in 0..MaxMishaps /\ spoiled' \in BOOLEAN
<1>1. /\ mishaps \in 0..MaxMishaps /\ spoiled \in BOOLEAN /\ MaxMishaps \in Nat
  BY HostedConstants DEF HInv, RoadTyped
<1>2. ASSUME NEW spoils \in BOOLEAN, Mishap(spoils)
      PROVE  mishaps' \in 0..MaxMishaps /\ spoiled' \in BOOLEAN
  BY <1>1, <1>2 DEF Mishap
<1>3. UNCHANGED mishapVars => mishaps' \in 0..MaxMishaps /\ spoiled' \in BOOLEAN
  BY <1>1 DEF mishapVars
<1> QED BY <1>2, <1>3, StepCountsMishaps

\* The road's invariant is inductive.
LEMMA HostedPreserves == HInv /\ [HostedNext]_hostedVars => HInv'
<1> SUFFICES ASSUME HInv, [HostedNext]_hostedVars PROVE HInv'
  OBVIOUS
<1>1. cl' \in [Requests -> ClientType] /\ \A q \in Requests : ClientOf(q)'
  BY StepKeepsClients
<1>2. status' \in {"serving", "refused"} /\ mishaps' \in 0..MaxMishaps /\ spoiled' \in BOOLEAN
  BY StepCounts DEF HInv, RoadTyped
<1>3. RoadTyped'
  BY <1>1, <1>2 DEF RoadTyped, ClientType
<1> QED BY <1>1, <1>3, StepKeepsNode, StepKeepsLife, StepKeepsServer DEF HInv

\* It holds when the process has booted, on any command line.
LEMMA HostedInitEstablishes == HostedInit => HInv
<1> SUFFICES ASSUME HostedInit PROVE HInv
  OBVIOUS
<1>1. SInv /\ LifeInv
  BY SessionsInit, LifeBegins DEF HostedInit, NodeInit
<1>2. ASP!IInv
  <2>1. ASP!Init
    <3>1. AS!Init
      BY DEF HostedInit
    <3> QED BY <3>1, Zenon DEF AS!Init, ASP!Init, AS!NoAuth, ASP!NoAuth, AS!Idle, ASP!Idle,
        AS!Published, ASP!Published
  <2> QED BY <2>1, ServerConstants, ASP!InitKnows
<1>3. /\ cl = [r \in Requests |-> Newcomer] /\ req = [r \in Requests |-> IdleRequest]
      /\ front = [r \in Requests |-> AtDoor]
      /\ asReq = [r \in Requests |-> ASP!Idle]
      /\ mishaps = 0 /\ spoiled = FALSE
      /\ status \in {"serving", "refused"}
  BY DEF HostedInit, NodeInit, Init, AS!Init, AS!Idle, ASP!Idle, AS!NoAuth, ASP!NoAuth, Boot
<1>4. RoadTyped
  <2>1. Newcomer \in ClientType
    BY DEF Newcomer, ClientType, Places
  <2>2. cl \in [Requests -> ClientType]
    BY <1>3, <2>1
  <2>3. mishaps \in 0..MaxMishaps
    <3>1. MaxMishaps \in Nat
      BY HostedConstants
    <3> QED BY <1>3, <3>1
  <2> QED BY <1>3, <2>2, <2>3 DEF RoadTyped, ClientType
<1>5. ASSUME NEW r \in Requests PROVE ClientOf(r)
  <2>1. cl[r].at = "cold" /\ cl[r].code = NoBearer
    BY <1>3 DEF Newcomer
  <2>2. req[r] = IdleRequest /\ front[r] = AtDoor /\ ~Busy(r)
    BY <1>3, IdleType DEF Busy, AtDoor
  <2>3. asReq[r].pc = "idle"
    BY <1>3 DEF ASP!Idle
  <2> QED BY <2>1, <2>2, <2>3 DEF ClientOf, AtTheGate
<1> QED BY <1>1, <1>2, <1>4, <1>5 DEF HInv

\* In every state of the road.
LEMMA HostedInvariantHolds == HostedSpec => []HInv
<1> QED BY HostedInitEstablishes, HostedPreserves, PTL DEF HostedSpec

---------------------------------------------------------------------------
(* Nothing but the process has failed.                                     *)

\* The realm admits every person's tokens, the validator has the one key, and
\* no code has run out.
RealmIsKind ==
  /\ valid = {b \in Bearers : PrincipalOf[b] # Nobody}
  /\ jwks.kid = kid
  /\ expired = {}

\* Builds succeed, and a link that breaks is mended: it presents what the
\* realm admits.
Sound(e) ==
  /\ ~ent[e].failed
  /\ conn[e].state \in {"none", "up", "down"}
  /\ ent[e].build = "building" => conn[e].state = "up"
  /\ ent[e].build # "free" => ent[e].latest \in valid

\* A client has signed in once, or not yet, and its sign-in goes through.
OneCode(r) ==
  /\ \A c \in Bearers : issued[c].clientID = r =>
       cl[r].code = c /\ cl[r].at \in {"coded", "redeeming", "ready", "asking"}
  /\ cl[r].code \in Bearers =>
       issued[cl[r].code].clientID = r /\ PrincipalOf[cl[r].code] = Person[r]
  /\ cl[r].at = "signing" => asReq[r].ac = SignInOf(r)
  /\ cl[r].at = "coded" => codes[cl[r].code] = SignInOf(r)
  /\ asReq[r].pc = "check" =>
       /\ asReq[r].ac = SignInOf(r)
       /\ asReq[r].verifier = Person[r] /\ asReq[r].redirect = "callback"

\* Where the pool has the session of client r, and its token.
OwnSession(r) == IF cl[r].sid = NoSid THEN NoEntry ELSE sessions[cl[r].sid]
OwnEntry(r)   == IF cl[r].code = NoBearer THEN NoEntry ELSE byBearer[cl[r].code]

\* A client's session is of its person's, on the entry that its token is
\* indexed under.
AtHome(r) ==
  /\ cl[r].sid # NoSid => life[cl[r].sid] \in {"bound", "loose"} /\ cl[r].code \in Bearers
  /\ OwnSession(r) # NoEntry =>
       /\ ent[OwnSession(r)].principal = Person[r]
       /\ OwnEntry(r) \in {NoEntry, OwnSession(r)}

\* On the way to its session's entry, to any other, and there.
OnSession(q) == q.pc \in {"probe", "compare"} /\ q.via = "bound"
Placing(q)   == (q.pc \in {"probe", "compare"} /\ q.via # "bound")
                  \/ q.pc \in {"ensure", "build", "identify", "wire"}
Placed(q)    == q.pc \in {"adopt", "served"}

\* The node works on what the client has asked, and has nothing against it.
Welcome(r) ==
  /\ req[r].pc \notin {"refused", "mismatched"}
  /\ req[r].pc # "idle" => req[r].bearer = cl[r].code /\ req[r].sid = cl[r].sid
  /\ OnSession(req[r]) => OwnSession(r) = req[r].entry
  /\ Placing(req[r]) => OwnSession(r) = NoEntry /\ OwnEntry(r) = NoEntry
  /\ Placed(req[r]) =>
       /\ OwnEntry(r) \in {NoEntry, req[r].entry}
       /\ cl[r].sid # NoSid => OwnSession(r) = req[r].entry

\* No two clients have one session id.
OwnIds == \A q, r \in Requests : cl[q].sid = cl[r].sid /\ cl[q].sid # NoSid => q = r

\* All is well with the realm, the pool and the clients.
Fine ==
  /\ RealmIsKind
  /\ \A e \in Entries : Sound(e)
  /\ \A r \in Requests : OneCode(r) /\ AtHome(r) /\ Welcome(r)
  /\ OwnIds

\* It is, as long as nothing but the process has failed.
FInv == ~spoiled => Fine

---------------------------------------------------------------------------
(* Nobody is refused while all is well.                                    *)

\* A request in flight presents the token of the person who sits there, and
\* the realm admits it.
LEMMA PresentsOwnToken ==
  ASSUME HInv, Fine, NEW r \in Requests, req[r].pc # "idle"
  PROVE  /\ req[r].bearer = cl[r].code /\ req[r].sid = cl[r].sid
         /\ cl[r].code \in Bearers /\ cl[r].sid \in Sids \cup {NoSid}
         /\ PrincipalOf[cl[r].code] = Person[r] /\ cl[r].code \in valid
         /\ OwnEntry(r) = byBearer[req[r].bearer]
         /\ Bound(r) = OwnSession(r)
<1>1. req[r].bearer = cl[r].code /\ req[r].sid = cl[r].sid
  BY DEF Fine, Welcome
<1>2. req[r].bearer \in Bearers /\ cl[r].sid \in Sids \cup {NoSid}
  BY DEF HInv, SInv, NInv, IInv, LocalsSet, RoadTyped
<1>3. PrincipalOf[cl[r].code] = Person[r]
  BY <1>1, <1>2 DEF Fine, OneCode
<1>4. Person[r] \in Principals
  BY HostedConstants
<1>5. cl[r].code \in valid
  BY <1>1, <1>2, <1>3, <1>4, NullsAreNotValues DEF Fine, RealmIsKind
<1>6. OwnEntry(r) = byBearer[req[r].bearer] /\ Bound(r) = OwnSession(r)
  BY <1>1, <1>2, NullsAreNotValues DEF OwnEntry, Bound, OwnSession
<1> QED BY <1>1, <1>2, <1>3, <1>5, <1>6

\* Every entry is alive, so that nothing is evicted.
LEMMA NoCorpses ==
  ASSUME Fine
  PROVE  /\ \A e \in Entries : Alive(e)
         /\ \A E : E \subseteq Entries \cup {NoEntry} => Corpses(E) = {}
<1>1. ASSUME NEW e \in Entries PROVE Alive(e)
  BY DEF Fine, Sound, Alive
<1>2. ASSUME NEW E, E \subseteq Entries \cup {NoEntry} PROVE Corpses(E) = {}
  BY <1>1, <1>2 DEF Corpses
<1> QED BY <1>1, <1>2

\* To evict nothing is to do nothing.
LEMMA WithoutNothing ==
  ASSUME TypeOK
  PROVE  /\ EntriesWithout({}) = entries
         /\ BearersWithout({}) = byBearer
         /\ SessionsWithout({}) = sessions
         /\ Shutdown({}) => conn' = conn
BY DEF TypeOK, EntriesWithout, BearersWithout, SessionsWithout, Shutdown

\* What resolve finds at a client's keys is alive, or not there.
LEMMA KeysAreAlive ==
  ASSUME HInv, Fine, NEW r \in Requests, req[r].pc # "idle"
  PROVE  /\ OnLiveSession(r) <=> OwnSession(r) # NoEntry
         /\ Known(r) <=> OwnEntry(r) # NoEntry
         /\ Corpses({Bound(r)}) = {} /\ Touched(r) = {}
         /\ \A k \in Keys : Corpses({entries[k]}) = {}
         /\ \A k \in Keys : entries[k] # NoEntry => Alive(entries[k])
<1>1. TypeOK
  BY DEF HInv, SInv, NInv, IInv
<1>2. /\ Bound(r) = OwnSession(r) /\ byBearer[req[r].bearer] = OwnEntry(r)
      /\ req[r].bearer \in Bearers /\ cl[r].sid \in Sids \cup {NoSid}
  BY PresentsOwnToken
<1>3. /\ OwnSession(r) \in Entries \cup {NoEntry} /\ OwnEntry(r) \in Entries \cup {NoEntry}
  BY <1>1, <1>2 DEF TypeOK, OwnSession
<1>4. routeHint(req[r].bearer) \in Keys
  BY <1>2, KeyFacts
<1>5. \A k \in Keys : entries[k] \in Entries \cup {NoEntry}
  BY <1>1 DEF TypeOK
<1>6. OnLiveSession(r) <=> OwnSession(r) # NoEntry
  BY <1>2, <1>3, NoCorpses DEF OnLiveSession
<1>7. Known(r) <=> OwnEntry(r) # NoEntry
  BY <1>2, <1>3, NoCorpses DEF Known
<1>8. {Bound(r)} \subseteq Entries \cup {NoEntry}
  BY <1>2, <1>3
<1>9. {Bound(r), byBearer[req[r].bearer], entries[routeHint(req[r].bearer)]}
        \subseteq Entries \cup {NoEntry}
  BY <1>2, <1>3, <1>4, <1>5
<1>10. Corpses({Bound(r)}) = {} /\ Touched(r) = {}
  BY <1>8, <1>9, NoCorpses DEF Touched
<1>11. ASSUME NEW k \in Keys
       PROVE  Corpses({entries[k]}) = {} /\ (entries[k] # NoEntry => Alive(entries[k]))
  <2>1. {entries[k]} \subseteq Entries \cup {NoEntry}
    BY <1>5
  <2> QED BY <1>5, <2>1, NoCorpses
<1> QED BY <1>6, <1>7, <1>10, <1>11

\* A handler's steps that do not refuse, fail or give up.
Welcoming(r) ==
  \/ ResolveBound(r) \/ ResolveFresh(r) \/ ResolveKnown(r)
  \/ RouteExisting(r) \/ \E e \in Entries : RouteNew(r, e)
  \/ ProbeAdmitted(r) \/ AdmitCandidate(r) \/ DivertCandidate(r)
  \/ EnsureExisting(r) \/ \E e \in Entries : EnsureNew(r, e)
  \/ Dial(r) \/ Identify(r) \/ Wire(r) \/ Built(r) \/ AdmitBuilt(r)
  \/ Adopt(r)

\* The pool takes no other step.
LEMMA NobodyIsRefused ==
  ASSUME ~Flaky, HInv, Fine, NEW r \in Requests, Handle(r) PROVE Welcoming(r)
<1>1. req[r].pc # "idle" /\ IInv
  BY HandlerMovesItself DEF HInv, SInv, NInv
<1>2. /\ Bound(r) = OwnSession(r) /\ byBearer[req[r].bearer] = OwnEntry(r)
      /\ PrincipalOf[req[r].bearer] = Person[r] /\ req[r].bearer \in valid
  BY <1>1, PresentsOwnToken
<1>3. AtHome(r) /\ Welcome(r)
  BY DEF Fine
<1>4. ~RefuseForeign(r)
  <2>1. OnLiveSession(r) => Bound(r) # NoEntry
    BY DEF OnLiveSession
  <2> QED BY <1>2, <1>3, <2>1 DEF RefuseForeign, AtHome
<1>5. ~ProbeRefused(r)
  BY <1>2 DEF ProbeRefused
<1>6. ~RefuseCandidate(r)
  <2> SUFFICES ASSUME RefuseCandidate(r) PROVE FALSE
    OBVIOUS
  <2>1. req[r].pc = "compare" /\ req[r].via = "bound" /\ req[r].who # ent[req[r].entry].principal
    BY DEF RefuseCandidate, Matches
  <2>2. OwnSession(r) = req[r].entry /\ req[r].who = Person[r]
    BY <1>1, <1>2, <1>3, <2>1 DEF Welcome, OnSession, IInv, RequestTrust
  <2>3. req[r].entry \in Entries
    BY <1>1, <2>1 DEF IInv, LocalsSet, Holding
  <2> QED BY <1>3, <2>1, <2>2, <2>3, NullsAreNotValues DEF AtHome
<1>7. ASSUME req[r].pc \in {"build", "identify"}
      PROVE  /\ req[r].entry \in Entries /\ Sound(req[r].entry)
             /\ ent[req[r].entry].build # "free"
  BY <1>1, <1>7 DEF Fine, IInv, LocalsSet, RequestTrust, Holding
<1>8. ~DialRefused(r)
  BY <1>7 DEF DialRefused, Sound
<1>9. ~RefuseBuilt(r)
  BY <1>7 DEF RefuseBuilt, Sound
<1>10. ~SetupFailed(r)
  <2>1. req[r].pc = "identify" => ent[req[r].entry].build = "building"
    BY DEF HInv, LifeInv, BuilderKnows, AtWork
  <2> QED BY <1>7, <2>1 DEF SetupFailed, Sound
<1> QED
  BY <1>4, <1>5, <1>6, <1>8, <1>9, <1>10, Zenon
     DEF Handle, Resolve, Candidate, Build, Welcoming

---------------------------------------------------------------------------
(* What a step leaves alone.                                               *)

\* A client stays at home while nobody takes its session or another entry
\* takes its token.
LEMMA StaysAtHome ==
  ASSUME HInv, NEW q \in Requests, AtHome(q), cl'[q].sid = cl[q].sid, cl'[q].code = cl[q].code,
         OwnSession(q)' = OwnSession(q), OwnEntry(q)' \in {OwnEntry(q), NoEntry},
         \A s \in Sids : life[s] \in {"bound", "loose"} => life'[s] \in {"bound", "loose"},
         \A s \in Sids : sessions[s] # NoEntry =>
           ent'[sessions[s]].principal = ent[sessions[s]].principal
  PROVE  AtHome(q)'
<1>1. cl[q].sid \in Sids \cup {NoSid}
  BY DEF HInv, RoadTyped
<1>2. cl[q].sid # NoSid => life'[cl[q].sid] \in {"bound", "loose"} /\ cl[q].code \in Bearers
  BY <1>1 DEF AtHome
<1>3. OwnSession(q) # NoEntry => ent'[OwnSession(q)].principal = ent[OwnSession(q)].principal
  BY <1>1 DEF OwnSession
<1> QED BY <1>2, <1>3 DEF AtHome

\* It stays welcome, too.
LEMMA StaysWelcome ==
  ASSUME NEW q \in Requests, Welcome(q), req'[q] = req[q],
         cl'[q].sid = cl[q].sid, cl'[q].code = cl[q].code,
         OwnSession(q)' = OwnSession(q), OwnEntry(q)' \in {OwnEntry(q), NoEntry}
  PROVE  Welcome(q)'
BY DEF Welcome, OnSession, Placing, Placed

\* Waiting for an answer and getting it do not touch the sign-in.
LEMMA StaysSignedIn ==
  ASSUME NEW q \in Requests, OneCode(q), UNCHANGED <<issued, codes>>, asReq'[q] = asReq[q],
         cl'[q].code = cl[q].code,
         \/ cl'[q].at = cl[q].at
         \/ cl[q].at \notin {"signing", "coded"} /\ cl'[q].at \in {"ready", "asking"}
  PROVE  OneCode(q)'
<1>1. SignInOf(q)' = SignInOf(q)
  BY DEF SignInOf, AS!S256
<1> QED BY <1>1 DEF OneCode

\* An entry stays sound while its build, its link and its bearer stay.
LEMMA StaysSound ==
  ASSUME NEW e, Sound(e), ent'[e].failed = ent[e].failed, ent'[e].build = ent[e].build,
         ent'[e].latest = ent[e].latest, conn'[e] = conn[e], UNCHANGED valid
  PROVE  Sound(e)'
BY DEF Sound

\* Token and session id are the client's own.
LEMMA OwnsAreOwn ==
  ASSUME HInv, Fine, NEW q \in Requests, NEW r \in Requests \ {q}
  PROVE  /\ cl[q].code \in Bearers => cl[q].code # cl[r].code
         /\ cl[q].sid \in Sids => cl[q].sid # cl[r].sid
<1>1. OneCode(q) /\ OneCode(r) /\ OwnIds
  BY DEF Fine
<1>2. cl[q].code \in Bearers => cl[q].code # cl[r].code
  BY <1>1 DEF OneCode
<1>3. cl[q].sid \in Sids => cl[q].sid # cl[r].sid
  BY <1>1, NullsAreNotValues DEF OwnIds
<1> QED BY <1>2, <1>3

\* What a handler does for client r the other clients do not notice, if it
\* touches no session and no token but r's.
LEMMA OthersStay ==
  ASSUME HInv, Fine, NEW r \in Requests,
         UNCHANGED <<cl, issued, codes, asReq>>,
         \A q \in Requests \ {r} : req'[q] = req[q],
         \A s \in Sids : s # cl[r].sid => sessions'[s] = sessions[s],
         \A c \in Bearers : c # cl[r].code => byBearer'[c] \in {byBearer[c], NoEntry},
         \A s \in Sids : life[s] \in {"bound", "loose"} => life'[s] \in {"bound", "loose"},
         \A s \in Sids : sessions[s] # NoEntry =>
           ent'[sessions[s]].principal = ent[sessions[s]].principal,
         NEW q \in Requests \ {r}
  PROVE  OneCode(q)' /\ AtHome(q)' /\ Welcome(q)'
<1>1. OneCode(q) /\ AtHome(q) /\ Welcome(q)
  BY DEF Fine
<1>2. /\ cl[q].sid \in Sids \cup {NoSid} /\ cl[q].code \in Bearers \cup {NoBearer}
      /\ cl[q].sid \in Sids => cl[q].sid # cl[r].sid
      /\ cl[q].code \in Bearers => cl[q].code # cl[r].code
  BY OwnsAreOwn DEF HInv, RoadTyped
<1>3. OwnSession(q)' = OwnSession(q)
  BY <1>2 DEF OwnSession
<1>4. OwnEntry(q)' \in {OwnEntry(q), NoEntry}
  BY <1>2 DEF OwnEntry
<1>5. req'[q] = req[q] /\ asReq'[q] = asReq[q] /\ cl'[q] = cl[q]
  OBVIOUS
<1> QED BY <1>1, <1>3, <1>4, <1>5, StaysAtHome, StaysWelcome, StaysSignedIn

---------------------------------------------------------------------------
(* The pool's handlers, while all is well.                                 *)

\* Handlers that only move on, with nothing to evict.
Strolling(r) ==
  \/ ResolveBound(r) \/ ResolveFresh(r) \/ RouteExisting(r)
  \/ ProbeAdmitted(r) \/ DivertCandidate(r) \/ EnsureExisting(r) \/ Identify(r)

\* They change neither the indexes nor the entries.
LEMMA StrollersTouchNothing ==
  ASSUME HInv, Fine, NEW r \in Requests, Strolling(r)
  PROVE  UNCHANGED <<byBearer, sessions, ent, conn, valid>>
<1>1. TypeOK
  BY DEF HInv, SInv, NInv, IInv
<1>2. CASE RouteExisting(r)
  <2>1. req[r].pc # "idle" /\ evictLocked(Touched(r)) /\ UNCHANGED <<ent, realm, closed>>
    BY <1>2 DEF RouteExisting, ByHint
  <2>2. Touched(r) = {}
    BY <2>1, KeysAreAlive
  <2> QED BY <1>1, <2>1, <2>2, WithoutNothing DEF evictLocked, realm
<1> QED
  BY <1>2 DEF Strolling, ResolveBound, ResolveFresh, ProbeAdmitted, DivertCandidate,
     EnsureExisting, Identify, index, realm

\* A new entry is built with the token of the client that asked for it.
LEMMA NewEntryIsSound ==
  ASSUME HInv, Fine, NEW r \in Requests, NEW e \in Entries, RouteNew(r, e) \/ EnsureNew(r, e)
  PROVE  /\ UNCHANGED <<byBearer, sessions, valid>>
         /\ \A f \in Entries : Sound(f)'
<1>1. IInv /\ TypeOK
  BY DEF HInv, SInv, NInv, IInv
<1>2. req[r].pc # "idle"
  BY DEF RouteNew, ByHint, EnsureNew
<1>3. PICK k \in Keys :
        /\ byBearer' = BearersWithout({}) /\ sessions' = SessionsWithout({})
        /\ Shutdown({}) /\ ent' = [ent EXCEPT ![e] = newEntry(k, req[r].bearer)]
        /\ e \in Free /\ UNCHANGED valid
  <2>1. CASE RouteNew(r, e)
    <3>1. routeHint(req[r].bearer) \in Keys
      BY <1>1, <1>2, HandlerTypes, KeyFacts
    <3>2. Touched(r) = {}
      BY <1>2, KeysAreAlive
    <3> QED BY <2>1, <3>1, <3>2 DEF RouteNew, realm
  <2>2. CASE EnsureNew(r, e)
    <3>1. req[r].who \in Principals
      <4>1. req[r].pc = "ensure" /\ req[r].bearer \in valid /\ req[r].bearer \in Bearers
        BY <1>1, <1>2, <2>2, PresentsOwnToken, HandlerTypes DEF EnsureNew
      <4> QED BY <1>1, <4>1, ConstantsAreTyped DEF IInv, RequestTrust, EdgeNamesPrincipals
    <3>2. principalKey(req[r].who) \in Keys
      BY <3>1, KeyFacts
    <3>3. Corpses({entries[principalKey(req[r].who)]}) = {}
      BY <1>2, <3>2, KeysAreAlive
    <3> QED BY <2>2, <3>2, <3>3 DEF EnsureNew, realm
  <2> QED BY <2>1, <2>2
<1>4. UNCHANGED <<byBearer, sessions, valid, conn>>
  BY <1>1, <1>3, WithoutNothing
<1>5. req[r].bearer \in Bearers /\ req[r].bearer \in valid
  BY <1>1, <1>2, PresentsOwnToken, HandlerTypes
<1>6. Sound(e)'
  <2>1. ent'[e] = newEntry(k, req[r].bearer)
    BY <1>1, <1>3 DEF TypeOK
  <2>2. conn[e] = Offline("none")
    BY <1>1, <1>3 DEF IInv, EntryTrust, Free
  <2>3. /\ ent'[e].build = "new" /\ ent'[e].failed = FALSE
        /\ ent'[e].latest = req[r].bearer
    <3>1. PICK b \in Bearers : b = req[r].bearer
      BY <1>5
    <3>2. newEntry(k, b).build = "new" /\ newEntry(k, b).failed = FALSE /\ newEntry(k, b).latest = b
      BY NewEntryType
    <3> QED BY <2>1, <3>1, <3>2
  <2>4. conn'[e].state = "none"
    BY <1>4, <2>2 DEF Offline
  <2> QED BY <1>4, <1>5, <2>3, <2>4 DEF Sound
<1>7. ASSUME NEW f \in Entries \ {e} PROVE Sound(f)'
  <2>1. ent'[f] = ent[f] /\ Sound(f)
    BY <1>1, <1>3 DEF TypeOK, Fine
  <2> QED BY <1>4, <2>1, StaysSound
<1> QED BY <1>4, <1>6, <1>7

\* An admission leaves build, link and bearer alone; only the token admitted
\* can enter byBearer, for the entry that admits it.
LEMMA AdmissionIsSound ==
  ASSUME HInv, Fine, NEW b \in Bearers, NEW e \in Entries, admitLocked(b, e),
         UNCHANGED <<conn, valid>>
  PROVE  /\ \A f \in Entries : Sound(f)'
         /\ \A c \in Bearers : c # b => byBearer'[c] \in {byBearer[c], NoEntry}
         /\ byBearer'[b] \in {byBearer[b], e}
<1>1. TypeOK
  BY DEF HInv, SInv, NInv, IInv
<1>2. /\ \A f \in Entries \ {e} : ent'[f] = ent[f]
      /\ ent'[e] = [ent[e] EXCEPT !.admitted = AdmitTail(ent[e].admitted, b)]
      /\ b \in AdmittedTo(e)'
      /\ byBearer' = [c \in Bearers |->
              IF c = b /\ b \notin AdmittedTo(e) THEN e
              ELSE IF c \in AdmittedTo(e) \ AdmittedTo(e)' /\ byBearer[c] = e
                   THEN NoEntry ELSE byBearer[c]]
  BY <1>1, AdmitEffect
<1>3. ASSUME NEW f \in Entries PROVE Sound(f)'
  <2>1. /\ ent'[f].failed = ent[f].failed /\ ent'[f].build = ent[f].build
        /\ ent'[f].latest = ent[f].latest
    <3>1. ent[e] \in EntryType
      BY <1>1 DEF TypeOK
    <3>2. /\ ent'[e].failed = ent[e].failed /\ ent'[e].build = ent[e].build
          /\ ent'[e].latest = ent[e].latest
      BY <1>2, <3>1 DEF EntryType
    <3> QED BY <1>2, <3>2
  <2>2. Sound(f) /\ conn'[f] = conn[f]
    BY DEF Fine
  <2> QED BY <2>1, <2>2, StaysSound
<1>4. \A c \in Bearers : c # b => byBearer'[c] \in {byBearer[c], NoEntry}
  BY <1>2
<1>5. byBearer'[b] \in {byBearer[b], e}
  BY <1>2
<1> QED BY <1>3, <1>4, <1>5

\* The builder's own steps, and adopt.
LEMMA BuilderIsSound ==
  ASSUME HInv, Fine, NEW r \in Requests, Dial(r) \/ Wire(r) \/ Built(r) \/ Adopt(r)
  PROVE  UNCHANGED <<byBearer, sessions, valid>> /\ \A f \in Entries : Sound(f)'
<1>1. IInv /\ TypeOK /\ req[r].pc \in Holding
  BY DEF HInv, SInv, NInv, IInv, Dial, Wire, Built, Adopt, Holding
<1>e. PICK e \in Entries : e = req[r].entry
  BY <1>1 DEF IInv, LocalsSet
<1>2. Sound(e) /\ ent[e] \in EntryType
  BY DEF Fine, HInv, SInv, NInv, IInv, TypeOK
<1>0. ent[e].build # "free"
  BY <1>1, <1>e DEF IInv, RequestTrust
<1>3. UNCHANGED <<byBearer, sessions, valid>>
  BY DEF Dial, Wire, Built, Adopt, index, realm
<1>4. \A f \in Entries \ {e} : ent'[f] = ent[f] /\ conn'[f] = conn[f]
  BY <1>e, <1>1 DEF TypeOK, Dial, Wire, Built, Adopt
<1>5. ASSUME NEW f \in Entries \ {e} PROVE Sound(f)'
  BY <1>3, <1>4, StaysSound DEF Fine
<1>6. Sound(e)'
  <2>1. CASE Dial(r)
    <3>1. /\ ent'[e].build = "building" /\ ent'[e].failed = ent[e].failed
          /\ ent'[e].latest = ent[e].latest /\ conn'[e].state = "up"
      BY <1>e, <1>1, <1>2, <2>1 DEF Dial, TypeOK, EntryType, UpAs
    <3> QED BY <1>0, <1>2, <1>3, <3>1 DEF Sound
  <2>2. CASE Wire(r)
    <3>1. /\ ent'[e].build = ent[e].build /\ ent'[e].failed = ent[e].failed
          /\ ent'[e].latest = ent[e].latest /\ conn'[e] = conn[e]
      <4>1. \/ \E f : ent' = [ent EXCEPT ![e].wired = @ \cup {f}]
            \/ ent' = [ent EXCEPT ![e].principal = req[r].who]
        BY <1>e, <2>2 DEF Wire
      <4>2. conn' = conn
        BY <2>2 DEF Wire
      <4> QED BY <1>1, <1>2, <4>1, <4>2 DEF TypeOK, EntryType
    <3> QED BY <1>2, <1>3, <3>1, StaysSound
  <2>3. CASE Built(r)
    <3>1. /\ ent'[e].build = "done" /\ ent'[e].failed = ent[e].failed
          /\ ent'[e].latest = ent[e].latest /\ conn'[e] = conn[e]
      BY <1>e, <1>1, <1>2, <2>3 DEF Built, TypeOK, EntryType
    <3> QED BY <1>0, <1>2, <1>3, <3>1 DEF Sound
  <2>4. CASE Adopt(r)
    <3>1. req[r].bearer \in valid
      BY <2>4, PresentsOwnToken DEF Adopt
    <3>2. /\ ent'[e].build = ent[e].build /\ ent'[e].failed = ent[e].failed
          /\ ent'[e].latest = req[r].bearer /\ conn'[e] = conn[e]
      BY <1>e, <1>1, <1>2, <2>4 DEF Adopt, TypeOK, EntryType
    <3> QED BY <1>0, <1>2, <1>3, <3>1, <3>2 DEF Sound
  <2> QED BY <2>1, <2>2, <2>3, <2>4
<1> QED BY <1>3, <1>5, <1>6

\* A client is placed: on its session's entry, where its token is indexed, or
\* nowhere yet.
LEMMA PlacedAtHome ==
  ASSUME HInv, Fine, IInv', NEW r \in Requests, NEW e \in Entries, UNCHANGED cl,
         req[r].pc # "idle", req'[r].pc \in {"adopt", "served"}, req'[r].entry = e,
         req'[r].bearer = req[r].bearer, req'[r].sid = req[r].sid,
         OwnEntry(r)' \in {NoEntry, e}, cl[r].sid # NoSid => OwnSession(r)' = e,
         \A s \in Sids : life[s] \in {"bound", "loose"} => life'[s] \in {"bound", "loose"}
  PROVE  AtHome(r)' /\ Welcome(r)'
<1>1. /\ req[r].bearer = cl[r].code /\ req[r].sid = cl[r].sid
      /\ cl[r].code \in Bearers /\ cl[r].sid \in Sids \cup {NoSid}
      /\ PrincipalOf[cl[r].code] = Person[r]
  BY PresentsOwnToken
<1>2. ent'[e].principal = Person[r]
  <2>1. RequestTrust(r)'
    BY DEF IInv
  <2> QED BY <1>1, <2>1 DEF RequestTrust, Proven
<1>3. cl[r].sid # NoSid => life'[cl[r].sid] \in {"bound", "loose"}
  BY <1>1 DEF Fine, AtHome
<1>4. cl[r].sid = NoSid => OwnSession(r)' = NoEntry
  BY DEF OwnSession
<1>5. AtHome(r)'
  BY <1>1, <1>2, <1>3, <1>4 DEF AtHome
<1>6. Welcome(r)'
  BY <1>1 DEF Welcome, OnSession, Placing, Placed
<1> QED BY <1>5, <1>6

\* Under way, with the indexes as they were.
LEMMA MovesOnWelcome ==
  ASSUME NEW r \in Requests, Welcome(r), UNCHANGED <<cl, byBearer, sessions>>,
         req[r].pc # "idle",
         req'[r].bearer = req[r].bearer, req'[r].sid = req[r].sid,
         \/ OnSession(req'[r]) /\ OwnSession(r) = req'[r].entry
         \/ Placing(req'[r]) /\ OwnSession(r) = NoEntry /\ OwnEntry(r) = NoEntry
         \/ /\ Placed(req'[r])
            /\ OwnEntry(r) \in {NoEntry, req'[r].entry}
            /\ cl[r].sid # NoSid => OwnSession(r) = req'[r].entry
  PROVE  Welcome(r)'
<1>1. OwnSession(r)' = OwnSession(r) /\ OwnEntry(r)' = OwnEntry(r)
  BY DEF OwnSession, OwnEntry
<1> QED BY <1>1 DEF Welcome, OnSession, Placing, Placed

\* A handler that leaves the indexes alone leads on, towards the entry of the
\* session if there is one.
LEMMA HandlerLeadsOn ==
  ASSUME HInv, Fine, NEW r \in Requests, UNCHANGED <<cl, byBearer, sessions>>,
         \/ ResolveBound(r) \/ ResolveFresh(r)
         \/ RouteExisting(r) \/ (\E e \in Entries : RouteNew(r, e))
         \/ ProbeAdmitted(r) \/ DivertCandidate(r)
         \/ EnsureExisting(r) \/ (\E e \in Entries : EnsureNew(r, e))
         \/ Dial(r) \/ Identify(r) \/ Wire(r) \/ Built(r) \/ Adopt(r)
  PROVE  Welcome(r)'
<1>1. req \in [Requests -> RequestType] /\ AtHome(r) /\ Welcome(r)
  BY DEF HInv, SInv, NInv, IInv, TypeOK, Fine
<1>2. req[r].pc # "idle"
  BY DEF ResolveBound, ResolveFresh, RouteExisting, RouteNew, ByHint, ProbeAdmitted,
     DivertCandidate, EnsureExisting, EnsureNew, Dial, Identify, Wire, Built, Adopt
<1>3. /\ Bound(r) = OwnSession(r)
      /\ OnLiveSession(r) <=> OwnSession(r) # NoEntry
      /\ Known(r) <=> OwnEntry(r) # NoEntry
  BY <1>2, PresentsOwnToken, KeysAreAlive
<1>4. CASE ResolveBound(r) \/ ResolveFresh(r)
  <2>1. /\ req'[r].bearer = req[r].bearer /\ req'[r].sid = req[r].sid
        /\ req'[r].entry = OwnSession(r) /\ OwnSession(r) # NoEntry
        /\ req'[r].pc = "adopt" \/ (req'[r].pc = "probe" /\ req'[r].via = "bound")
    BY <1>1, <1>3, <1>4, GotoMoves DEF ResolveBound, ResolveFresh, Grant
  <2> QED BY <1>1, <1>2, <2>1, MovesOnWelcome DEF AtHome, OnSession, Placed
<1>5. CASE RouteExisting(r) \/ \E e \in Entries : RouteNew(r, e)
  <2>1. /\ req'[r].bearer = req[r].bearer /\ req'[r].sid = req[r].sid
        /\ req'[r].pc \in {"probe", "build"} /\ req'[r].via = "hint"
        /\ ByHint(r)
    BY <1>1, <1>5, GotoMoves DEF RouteExisting, RouteNew
  <2>2. OwnSession(r) = NoEntry /\ OwnEntry(r) = NoEntry
    BY <1>3, <2>1 DEF ByHint
  <2> QED BY <1>1, <1>2, <2>1, <2>2, MovesOnWelcome DEF Placing
<1>6. CASE ProbeAdmitted(r)
  <2>1. /\ req'[r].bearer = req[r].bearer /\ req'[r].sid = req[r].sid
        /\ req'[r].pc = "compare" /\ req[r].pc = "probe"
        /\ req'[r].via = req[r].via /\ req'[r].entry = req[r].entry
    BY <1>1, <1>6, GotoMoves DEF ProbeAdmitted
  <2> QED BY <1>1, <1>2, <2>1, MovesOnWelcome DEF Welcome, OnSession, Placing
<1>7. CASE \/ DivertCandidate(r) \/ EnsureExisting(r)
           \/ (\E e \in Entries : EnsureNew(r, e))
           \/ Dial(r) \/ Identify(r) \/ Built(r)
  <2>1. /\ req'[r].bearer = req[r].bearer /\ req'[r].sid = req[r].sid
        /\ req'[r].pc \in {"ensure", "build", "identify", "wire"}
        /\ Placing(req[r])
    <3>1. CASE DivertCandidate(r)
      BY <1>1, <3>1, GotoMoves DEF DivertCandidate, Placing
    <3>2. CASE EnsureExisting(r) \/ \E e \in Entries : EnsureNew(r, e)
      BY <1>1, <3>2, GotoMoves DEF EnsureExisting, EnsureNew, Placing
    <3>3. CASE Dial(r) \/ Identify(r) \/ Built(r)
      BY <1>1, <3>3, GotoMoves DEF Dial, Identify, Built, Placing
    <3> QED BY <1>7, <3>1, <3>2, <3>3
  <2> QED BY <1>1, <1>2, <2>1, MovesOnWelcome DEF Welcome, Placing
<1>8. CASE Wire(r)
  <2>1. req' = req /\ Placing(req[r])
    BY <1>8 DEF Wire, Placing
  <2> QED BY <1>1, <1>2, <2>1, MovesOnWelcome DEF Welcome, Placing
<1>9. CASE Adopt(r)
  <2>1. /\ req'[r].bearer = req[r].bearer /\ req'[r].sid = req[r].sid
        /\ req'[r].pc = "served" /\ req'[r].entry = req[r].entry /\ Placed(req[r])
    BY <1>1, <1>9, GotoMoves DEF Adopt, Grant, Placed
  <2> QED BY <1>1, <1>2, <2>1, MovesOnWelcome DEF Welcome, Placed
<1> QED BY <1>4, <1>5, <1>6, <1>7, <1>8, <1>9

\* bindLocked on the client's own session id.
LEMMA BindsOwn ==
  ASSUME HInv, NEW r \in Requests, NEW e \in Entries, UNCHANGED cl,
         OwnSession(r) = NoEntry, sessions' = Bind(sessions, cl[r].sid, e)
  PROVE  /\ cl[r].sid # NoSid => OwnSession(r)' = e
         /\ \A s \in Sids : s # cl[r].sid => sessions'[s] = sessions[s]
<1>1. sessions \in [Sids -> Entries \cup {NoEntry}] /\ cl[r].sid \in Sids \cup {NoSid}
  BY DEF HInv, SInv, NInv, IInv, TypeOK, RoadTyped
<1> QED BY <1>1 DEF Bind, OwnSession

\* Resolve knows the client's token, or it is compared or built for and then
\* admitted: the client is placed.
LEMMA HandlerPlaces ==
  ASSUME HInv, Fine, IInv', NEW r \in Requests, UNCHANGED cl,
         ResolveKnown(r) \/ AdmitCandidate(r) \/ AdmitBuilt(r),
         \A s \in Sids : life[s] \in {"bound", "loose"} => life'[s] \in {"bound", "loose"}
  PROVE  /\ AtHome(r)' /\ Welcome(r)' /\ UNCHANGED valid
         /\ \A f \in Entries : Sound(f)'
         /\ \A s \in Sids : s # cl[r].sid => sessions'[s] = sessions[s]
         /\ \A c \in Bearers : c # cl[r].code => byBearer'[c] \in {byBearer[c], NoEntry}
<1>1. /\ IInv /\ TypeOK /\ req \in [Requests -> RequestType] /\ AtHome(r) /\ Welcome(r)
      /\ req[r].pc # "idle"
  BY DEF HInv, SInv, NInv, IInv, TypeOK, Fine, ResolveKnown, AdmitCandidate, AdmitBuilt
<1>2. /\ req[r].bearer = cl[r].code /\ req[r].sid = cl[r].sid
      /\ cl[r].code \in Bearers
      /\ Bound(r) = OwnSession(r) /\ OwnEntry(r) = byBearer[cl[r].code]
      /\ OnLiveSession(r) <=> OwnSession(r) # NoEntry
      /\ Known(r) <=> OwnEntry(r) # NoEntry
      /\ Corpses({Bound(r)}) = {}
  BY <1>1, PresentsOwnToken, KeysAreAlive
<1>3. OwnEntry(r)' = byBearer'[cl[r].code]
  BY <1>2, NullsAreNotValues DEF OwnEntry
<1>4. CASE ResolveKnown(r)
  <2>1. /\ OwnSession(r) = NoEntry /\ OwnEntry(r) # NoEntry
        /\ byBearer' = BearersWithout({})
        /\ sessions' = Bind(SessionsWithout({}), cl[r].sid, OwnEntry(r))
        /\ Shutdown({}) /\ UNCHANGED <<ent, valid>>
        /\ Grant(r, OwnEntry(r), "adopt")
    BY <1>2, <1>4 DEF ResolveKnown, realm
  <2>2. PICK e \in Entries : e = OwnEntry(r)
    BY <1>1, <1>2, <2>1 DEF TypeOK
  <2>3. UNCHANGED <<byBearer, ent, conn, valid>> /\ sessions' = Bind(sessions, cl[r].sid, e)
    BY <1>1, <2>1, <2>2, WithoutNothing
  <2>4. /\ req'[r].pc = "adopt" /\ req'[r].entry = e
        /\ req'[r].bearer = req[r].bearer /\ req'[r].sid = req[r].sid
    BY <1>1, <2>1, <2>2, GotoMoves DEF Grant
  <2>5. /\ cl[r].sid # NoSid => OwnSession(r)' = e
        /\ \A s \in Sids : s # cl[r].sid => sessions'[s] = sessions[s]
    BY <2>1, <2>3, BindsOwn
  <2>6. AtHome(r)' /\ Welcome(r)'
    BY <1>1, <1>2, <1>3, <2>2, <2>3, <2>4, <2>5, PlacedAtHome
  <2>7. \A f \in Entries : Sound(f)'
    BY <2>3, StaysSound DEF Fine
  <2> QED BY <2>3, <2>5, <2>6, <2>7
<1>5. CASE AdmitCandidate(r) \/ AdmitBuilt(r)
  <2>1. PICK e \in Entries : e = req[r].entry
    BY <1>1, <1>5 DEF IInv, LocalsSet, Holding, AdmitCandidate, AdmitBuilt
  <2>2. /\ admitLocked(cl[r].code, e) /\ UNCHANGED <<conn, valid>>
        /\ Grant(r, e, "adopt") \/ Grant(r, e, "served")
    <3>1. CASE AdmitCandidate(r)
      BY <1>2, <2>1, <3>1 DEF AdmitCandidate, realm
    <3>2. CASE AdmitBuilt(r)
      BY <1>2, <2>1, <3>2 DEF AdmitBuilt, realm
    <3> QED BY <1>5, <3>1, <3>2
  <2>3. /\ \A f \in Entries : Sound(f)'
        /\ \A c \in Bearers : c # cl[r].code => byBearer'[c] \in {byBearer[c], NoEntry}
        /\ byBearer'[cl[r].code] \in {byBearer[cl[r].code], e}
    BY <1>2, <2>2, AdmissionIsSound
  <2>4. /\ req'[r].pc \in {"adopt", "served"} /\ req'[r].entry = e
        /\ req'[r].bearer = req[r].bearer /\ req'[r].sid = req[r].sid
    BY <1>1, <2>2, GotoMoves DEF Grant
  <2>5. /\ OwnEntry(r) \in {NoEntry, e}
        /\ cl[r].sid # NoSid => OwnSession(r)' = e
        /\ \A s \in Sids : s # cl[r].sid => sessions'[s] = sessions[s]
    <3>1. CASE OnSession(req[r])
      <4>1. sessions' = sessions /\ OwnSession(r) = e
        BY <1>1, <1>5, <2>1, <3>1 DEF OnSession, AdmitCandidate, AdmitBuilt, Welcome
      <4>2. OwnSession(r)' = OwnSession(r)
        BY <4>1 DEF OwnSession
      <4> QED BY <1>1, <4>1, <4>2, NullsAreNotValues DEF AtHome
    <3>2. CASE ~OnSession(req[r])
      <4>1. sessions' = Bind(sessions, cl[r].sid, e) /\ Placing(req[r])
        BY <1>2, <1>5, <2>1, <3>2 DEF OnSession, AdmitCandidate, AdmitBuilt, Placing
      <4>2. OwnSession(r) = NoEntry /\ OwnEntry(r) = NoEntry
        BY <1>1, <4>1 DEF Welcome
      <4> QED BY <4>1, <4>2, BindsOwn
    <3> QED BY <3>1, <3>2
  <2>6. OwnEntry(r)' \in {NoEntry, e}
    BY <1>2, <1>3, <2>3, <2>5
  <2>7. AtHome(r)' /\ Welcome(r)'
    BY <1>1, <2>4, <2>5, <2>6, PlacedAtHome
  <2> QED BY <2>2, <2>3, <2>5, <2>7
<1> QED BY <1>4, <1>5

\* What a handler's step does for its client, and what it leaves to the rest.
LEMMA HandlerServesItsClient ==
  ASSUME ~Flaky, HInv, Fine, IInv', NEW r \in Requests, UNCHANGED cl, Handle(r),
         \A s \in Sids : life[s] \in {"bound", "loose"} => life'[s] \in {"bound", "loose"}
  PROVE  /\ AtHome(r)' /\ Welcome(r)' /\ UNCHANGED valid
         /\ \A f \in Entries : Sound(f)'
         /\ \A s \in Sids : s # cl[r].sid => sessions'[s] = sessions[s]
         /\ \A c \in Bearers : c # cl[r].code => byBearer'[c] \in {byBearer[c], NoEntry}
<1>1. Welcoming(r)
  BY NobodyIsRefused
<1>2. CASE ResolveKnown(r) \/ AdmitCandidate(r) \/ AdmitBuilt(r)
  BY <1>2, HandlerPlaces
<1>3. CASE ~(ResolveKnown(r) \/ AdmitCandidate(r) \/ AdmitBuilt(r))
  <2>1. UNCHANGED <<byBearer, sessions, valid>> /\ \A f \in Entries : Sound(f)'
    <3>1. CASE Strolling(r)
      BY <3>1, StrollersTouchNothing, StaysSound DEF Fine
    <3>2. CASE \E e \in Entries : RouteNew(r, e) \/ EnsureNew(r, e)
      BY <3>2, NewEntryIsSound
    <3>3. CASE Dial(r) \/ Wire(r) \/ Built(r) \/ Adopt(r)
      BY <3>3, BuilderIsSound
    <3> QED BY <1>1, <1>3, <3>1, <3>2, <3>3, Zenon DEF Welcoming, Strolling
  <2>2. Welcome(r)'
    BY <1>1, <1>3, <2>1, HandlerLeadsOn DEF Welcoming
  <2>3. AtHome(r)'
    <3>1. IInv /\ \A e \in Entries : Published(e) => ent'[e].principal = ent[e].principal
      BY HandlerKeepsPrincipals DEF HInv, SInv, NInv
    <3>2. \A s \in Sids : sessions[s] # NoEntry =>
            ent'[sessions[s]].principal = ent[sessions[s]].principal
      BY <3>1 DEF IInv, SessionsPublished, TypeOK
    <3>3. OwnSession(r)' = OwnSession(r) /\ OwnEntry(r)' = OwnEntry(r)
      BY <2>1 DEF OwnSession, OwnEntry
    <3>4. AtHome(r)
      BY DEF Fine
    <3> QED BY <3>2, <3>3, <3>4, StaysAtHome
  <2> QED BY <2>1, <2>2, <2>3
<1> QED BY <1>2, <1>3

\* So the pool's own steps keep all well.
LEMMA HandlerStaysFine ==
  ASSUME ~Flaky, HInv, Fine, IInv', NEW r \in Requests, PoolStep(Handle(r)),
         UNCHANGED cl, ASIdle
  PROVE  Fine'
<1>1. /\ IInv /\ FrontTyped /\ Handle(r) /\ life' = Loosened(life, sessions, sessions')
      /\ UNCHANGED <<issued, codes, asReq, kid, jwks, expired>>
  BY DEF HInv, SInv, NInv, PoolStep, ASIdle, asVars
<1>2. \A s \in Sids : life[s] \in {"bound", "loose"} => life'[s] \in {"bound", "loose"}
  BY <1>1, BindingsLoosen
<1>3. /\ AtHome(r)' /\ Welcome(r)' /\ UNCHANGED valid
      /\ \A f \in Entries : Sound(f)'
      /\ \A s \in Sids : s # cl[r].sid => sessions'[s] = sessions[s]
      /\ \A c \in Bearers : c # cl[r].code => byBearer'[c] \in {byBearer[c], NoEntry}
  BY <1>1, <1>2, HandlerServesItsClient
<1>4. \A s \in Sids : sessions[s] # NoEntry =>
        ent'[sessions[s]].principal = ent[sessions[s]].principal
  <2>1. \A e \in Entries : Published(e) => ent'[e].principal = ent[e].principal
    BY <1>1, HandlerKeepsPrincipals
  <2> QED BY <1>1, <2>1 DEF IInv, SessionsPublished, TypeOK
<1>5. \A q \in Requests \ {r} : req'[q] = req[q]
  BY <1>1, HandlerMovesItself
<1>6. ASSUME NEW q \in Requests \ {r} PROVE OneCode(q)' /\ AtHome(q)' /\ Welcome(q)'
  BY <1>1, <1>2, <1>3, <1>4, <1>5, OthersStay
<1>7. OneCode(r)'
  BY <1>1, StaysSignedIn DEF Fine
<1>8. RealmIsKind' /\ OwnIds'
  BY <1>1, <1>3 DEF Fine, RealmIsKind, OwnIds
<1> QED BY <1>3, <1>6, <1>7, <1>8 DEF Fine

---------------------------------------------------------------------------
(* The rest of the road, while all is well.                                *)

\* One client's move, field by field.
LEMMA ClientFields ==
  ASSUME HInv, NEW r \in Requests, NEW place, NEW x
  PROVE  /\ Becomes(r, place) =>
              /\ cl'[r].at = place /\ cl'[r].code = cl[r].code /\ cl'[r].sid = cl[r].sid
              /\ \A q \in Requests \ {r} : cl'[q] = cl[q]
         /\ cl' = [cl EXCEPT ![r].at = place, ![r].sid = x] =>
              /\ cl'[r].at = place /\ cl'[r].code = cl[r].code /\ cl'[r].sid = x
              /\ \A q \in Requests \ {r} : cl'[q] = cl[q]
         /\ cl' = [cl EXCEPT ![r].at = place, ![r].code = x] =>
              /\ cl'[r].at = place /\ cl'[r].code = x /\ cl'[r].sid = cl[r].sid
              /\ \A q \in Requests \ {r} : cl'[q] = cl[q]
<1>1. cl \in [Requests -> ClientType] /\ cl[r] \in ClientType
  BY DEF HInv, RoadTyped, ClientType
<1>2. Becomes(r, place) =>
              /\ cl'[r].at = place /\ cl'[r].code = cl[r].code /\ cl'[r].sid = cl[r].sid
              /\ \A q \in Requests \ {r} : cl'[q] = cl[q]
  BY <1>1 DEF Becomes, ClientType
<1>3. cl' = [cl EXCEPT ![r].at = place, ![r].sid = x] =>
              /\ cl'[r].at = place /\ cl'[r].code = cl[r].code /\ cl'[r].sid = x
              /\ \A q \in Requests \ {r} : cl'[q] = cl[q]
  BY <1>1 DEF ClientType
<1>4. cl' = [cl EXCEPT ![r].at = place, ![r].code = x] =>
              /\ cl'[r].at = place /\ cl'[r].code = x /\ cl'[r].sid = cl[r].sid
              /\ \A q \in Requests \ {r} : cl'[q] = cl[q]
  BY <1>1 DEF ClientType
<1> QED BY <1>2, <1>3, <1>4

\* While no client moves and no index changes, all stays well.
LEMMA WorldStaysFine ==
  ASSUME HInv, Fine,
         UNCHANGED <<sessions, byBearer, valid, req, cl, kid, jwks, expired, issued, codes, asReq>>,
         \A f \in Entries : Sound(f)',
         \A s \in Sids : life[s] \in {"bound", "loose"} => life'[s] \in {"bound", "loose"},
         \A s \in Sids : sessions[s] # NoEntry =>
           ent'[sessions[s]].principal = ent[sessions[s]].principal
  PROVE  Fine'
<1>1. ASSUME NEW q \in Requests PROVE OneCode(q)' /\ AtHome(q)' /\ Welcome(q)'
  <2>1. OneCode(q) /\ AtHome(q) /\ Welcome(q)
    BY DEF Fine
  <2>2. OwnSession(q)' = OwnSession(q) /\ OwnEntry(q)' = OwnEntry(q)
    BY DEF OwnSession, OwnEntry
  <2> QED BY <2>1, <2>2, StaysAtHome, StaysWelcome, StaysSignedIn
<1>2. RealmIsKind' /\ OwnIds'
  BY DEF Fine, RealmIsKind, OwnIds
<1> QED BY <1>1, <1>2 DEF Fine

\* While one client moves, and no entry changes, all stays well if it does
\* with that client.
LEMMA ClientStaysFine ==
  ASSUME HInv, Fine, NEW r \in Requests,
         UNCHANGED <<byBearer, ent, conn, valid, kid, jwks, expired>>,
         \A q \in Requests \ {r} : cl'[q] = cl[q] /\ req'[q] = req[q] /\ OneCode(q)',
         OneCode(r)', AtHome(r)', Welcome(r)',
         \A s \in Sids : life[s] \in {"bound", "loose"} =>
           life'[s] \in {"bound", "loose"} /\ sessions'[s] = sessions[s],
         \/ cl'[r].sid \in {cl[r].sid, NoSid}
         \/ cl'[r].sid \in Sids /\ life[cl'[r].sid] \notin {"bound", "loose"}
  PROVE  Fine'
<1>1. ASSUME NEW q \in Requests \ {r} PROVE AtHome(q)' /\ Welcome(q)'
  <2>1. AtHome(q) /\ Welcome(q) /\ cl'[q] = cl[q] /\ req'[q] = req[q]
    BY DEF Fine
  <2>2. cl[q].sid \in Sids \cup {NoSid}
    BY DEF HInv, RoadTyped
  <2>3. OwnSession(q)' = OwnSession(q)
    BY <2>1, <2>2 DEF AtHome, OwnSession
  <2>4. OwnEntry(q)' = OwnEntry(q)
    BY <2>1 DEF OwnEntry
  <2> QED BY <2>1, <2>3, <2>4, StaysAtHome, StaysWelcome
<1>2. OwnIds'
  <2>1. ASSUME NEW q \in Requests \ {r}, cl[q].sid # NoSid PROVE cl'[q].sid # cl'[r].sid
    <3>1. cl'[q] = cl[q] /\ cl[q].sid # cl[r].sid
      BY <2>1, OwnsAreOwn DEF HInv, RoadTyped
    <3>2. life[cl[q].sid] \in {"bound", "loose"}
      BY <2>1 DEF Fine, AtHome
    <3> QED BY <2>1, <3>1, <3>2
  <2>2. ASSUME NEW q \in Requests, NEW t \in Requests, cl'[q].sid = cl'[t].sid, cl'[q].sid # NoSid
        PROVE  q = t
    BY <2>1, <2>2 DEF Fine, OwnIds
  <2> QED BY <2>2 DEF OwnIds
<1>3. RealmIsKind' /\ \A f \in Entries : Sound(f)'
  BY DEF Fine, RealmIsKind, Sound
<1> QED BY <1>1, <1>2, <1>3 DEF Fine

\* The node's own steps in the SDK, a lost session, a broken or mended link,
\* and the collector.
LEMMA BystandersStayFine ==
  ASSUME HInv, Fine,
         \/ \E r \in Requests : \/ Behind(r, HandOver(r)) \/ Behind(r, RunSession(r))
                                \/ Behind(r, \E s \in Sids : OpenSession(r, s) /\ s = NextSid)
         \/ \E s \in Sids : LoseSession(s)
         \/ \E e \in Entries : Link(e) \/ Sweep(e)
         \/ UNCHANGED hostedVars
  PROVE  Fine'
<1>1. IInv /\ FrontTyped
  BY DEF HInv, SInv, NInv
<1>2. ASSUME UNCHANGED <<vars, cl>>, ASIdle,
             \A s \in Sids : life[s] \in {"bound", "loose"} => life'[s] \in {"bound", "loose"}
      PROVE  Fine'
  <2>1. \A f \in Entries : Sound(f)'
    BY <1>2, StaysSound DEF vars, Fine
  <2> QED BY <1>2, <2>1, WorldStaysFine DEF vars, ASIdle, asVars
<1>3. CASE \E r \in Requests : \/ Behind(r, HandOver(r)) \/ Behind(r, RunSession(r))
                               \/ Behind(r, \E s \in Sids : OpenSession(r, s) /\ s = NextSid)
  <2>1. PICK r \in Requests : \/ Behind(r, HandOver(r)) \/ Behind(r, RunSession(r))
                              \/ Behind(r, \E s \in Sids : OpenSession(r, s) /\ s = NextSid)
    BY <1>3
  <2>2. /\ UNCHANGED <<vars, cl>> /\ ASIdle
        /\ HandOver(r) \/ RunSession(r) \/ \E s \in Sids : OpenSession(r, s)
    BY <2>1, Zenon DEF Behind, HandOver, RunSession, OpenSession
  <2>3. \A s \in Sids : life[s] \in {"bound", "loose"} => life'[s] \in {"bound", "loose"}
    BY <1>1, <2>2 DEF HandOver, RunSession, OpenSession, FrontTyped
  <2> QED BY <1>2, <2>2, <2>3
<1>4. CASE (\E s \in Sids : LoseSession(s)) \/ UNCHANGED hostedVars
  <2>1. UNCHANGED <<vars, cl, life>> /\ ASIdle
    BY <1>4, Zenon DEF LoseSession, EndSession, hostedVars, nodeVars, frontVars, ASIdle
  <2> QED BY <1>2, <2>1
<1>5. ASSUME NEW e \in Entries, PoolStep(Drop(e)) \/ PoolStep(Reconnect(e)) \/ PoolStep(Collect(e)),
             UNCHANGED cl, ASIdle, PoolStep(Drop(e)) => ent[e].build = "done"
      PROVE  Fine'
  <2>1. /\ UNCHANGED <<sessions, byBearer, valid, req>>
        /\ life' = Loosened(life, sessions, sessions')
        /\ Drop(e) \/ Reconnect(e) \/ Collect(e)
    BY <1>5 DEF PoolStep, Drop, Reconnect, Collect, index, realm
  <2>2. \A s \in Sids : life[s] \in {"bound", "loose"} => life'[s] \in {"bound", "loose"}
    BY <1>1, <2>1, BindingsLoosen
  <2>3. Sound(e) /\ ent \in [Entries -> EntryType] /\ conn \in [Entries -> ConnType]
    BY <1>1 DEF Fine, IInv, TypeOK
  <2>4. CASE PoolStep(Drop(e)) \/ PoolStep(Reconnect(e))
    <3>1. ent' = ent /\ \A f \in Entries \ {e} : conn'[f] = conn[f]
      BY <2>3, <2>4 DEF PoolStep, Drop, Reconnect
    <3>2. conn'[e].state \in {"up", "down"} /\ (ent[e].build = "building" => conn'[e].state = "up")
      <4>1. CASE PoolStep(Drop(e))
        BY <1>5, <2>3, <4>1 DEF PoolStep, Drop, Offline
      <4>2. CASE PoolStep(Reconnect(e))
        <5>1. conn[e].state \in {"down", "denied"}
          BY <4>2 DEF PoolStep, Reconnect
        <5>2. ent[e].build # "free"
          BY <1>1, <5>1 DEF IInv, EntryTrust, Offline
        <5>3. ent[e].latest \in valid
          BY <2>3, <5>2 DEF Sound
        <5>4. conn'[e] = UpAs(ent[e].latest)
          BY <2>3, <4>2, <5>3 DEF PoolStep, Reconnect
        <5> QED BY <5>4 DEF UpAs
      <4> QED BY <2>4, <4>1, <4>2
    <3>3. Sound(e)'
      BY <2>1, <2>3, <3>1, <3>2 DEF Sound
    <3>4. \A f \in Entries : Sound(f)'
      BY <2>1, <3>1, <3>3, StaysSound DEF Fine
    <3> QED BY <1>5, <2>1, <2>2, <3>1, <3>4, WorldStaysFine DEF ASIdle, asVars
  <2>5. CASE PoolStep(Collect(e))
    <3>1. /\ ent' = [ent EXCEPT ![e] = BlankEntry] /\ conn' = [conn EXCEPT ![e] = Offline("none")]
          /\ ~Referenced(e)
      BY <2>5 DEF PoolStep, Collect, Garbage
    <3>2. ent'[e] = BlankEntry /\ conn'[e] = Offline("none")
      BY <2>3, <3>1
    <3>3. \A f \in Entries \ {e} : ent'[f] = ent[f] /\ conn'[f] = conn[f]
      BY <2>3, <3>1
    <3>4. Sound(e)'
      BY <3>2 DEF Sound, BlankEntry, Offline
    <3>5. \A f \in Entries : Sound(f)'
      BY <2>1, <3>3, <3>4, StaysSound DEF Fine
    <3>6. \A s \in Sids : sessions[s] # NoEntry =>
            ent'[sessions[s]].principal = ent[sessions[s]].principal
      BY <1>1, <3>1, <3>3 DEF Referenced, IInv, TypeOK
    <3> QED BY <1>5, <2>1, <2>2, <3>5, <3>6, WorldStaysFine DEF ASIdle, asVars
  <2> QED BY <1>5, <2>4, <2>5
<1>6. ASSUME NEW e \in Entries, Link(e) \/ Sweep(e) PROVE Fine'
  <2>1. /\ PoolStep(Drop(e)) \/ PoolStep(Reconnect(e)) \/ PoolStep(Collect(e))
        /\ UNCHANGED cl /\ ASIdle
        /\ \/ ent[e].build = "done"
           \/ PoolStep(Reconnect(e)) \/ PoolStep(Collect(e))
    BY <1>6, Zenon DEF Link, Sweep
  <2>2. PoolStep(Drop(e)) => ~PoolStep(Reconnect(e)) /\ ~PoolStep(Collect(e))
    BY DEF PoolStep, Drop, Reconnect, Collect, Garbage
  <2> QED BY <1>5, <2>1, <2>2
<1> QED BY <1>3, <1>4, <1>6

\* Who has no session and no request in the node's hands is at home.
LEMMA IdleIsFine ==
  ASSUME NEW r \in Requests, req'[r].pc = "idle"
  PROVE  Welcome(r)' /\ (cl'[r].sid = NoSid => AtHome(r)')
BY DEF Welcome, OnSession, Placing, Placed, AtHome, OwnSession

\* A request sets out with the client's own token and session.
LEMMA AskStaysFine ==
  ASSUME HInv, Fine, NEW r \in Requests, Ask(r) PROVE Fine'
<1>1. /\ IInv /\ FrontTyped /\ cl[r].at = "ready"
      /\ Arrive(r, cl[r].code, cl[r].sid) /\ life' = Loosened(life, sessions, sessions')
      /\ Becomes(r, "asking") /\ ASIdle
  BY DEF Ask, Enter, PoolStep, At, HInv, SInv, NInv
<1>2. /\ UNCHANGED <<sessions, byBearer, ent, conn, valid>>
      /\ UNCHANGED <<kid, jwks, expired, issued, codes, asReq>>
  BY <1>1 DEF Arrive, index, realm, ASIdle, asVars
<1>3. /\ cl'[r].at = "asking" /\ cl'[r].code = cl[r].code /\ cl'[r].sid = cl[r].sid
      /\ \A q \in Requests \ {r} : cl'[q] = cl[q]
  BY <1>1, ClientFields
<1>4. /\ req'[r].pc = "resolve" /\ req'[r].bearer = cl[r].code /\ req'[r].sid = cl[r].sid
      /\ \A q \in Requests \ {r} : req'[q] = req[q]
  BY <1>1 DEF Arrive, IInv, TypeOK, IdleRequest
<1>5. \A s \in Sids : life[s] \in {"bound", "loose"} => life'[s] \in {"bound", "loose"}
  BY <1>1, BindingsLoosen
<1>6. AtHome(r)'
  <2>1. OwnSession(r)' = OwnSession(r) /\ OwnEntry(r)' = OwnEntry(r) /\ AtHome(r)
    BY <1>2, <1>3 DEF OwnSession, OwnEntry, Fine
  <2> QED BY <1>2, <1>3, <1>5, <2>1, StaysAtHome
<1>7. Welcome(r)'
  BY <1>3, <1>4 DEF Welcome, OnSession, Placing, Placed
<1>8. ASSUME NEW q \in Requests PROVE OneCode(q)'
  BY <1>1, <1>2, <1>3, StaysSignedIn DEF Fine
<1> QED BY <1>2, <1>3, <1>4, <1>5, <1>6, <1>7, <1>8, ClientStaysFine

\* An answer sets the client free, with its session or without one.
LEMMA AnswerStaysFine ==
  ASSUME HInv, Fine, NEW r \in Requests, Answer(r), UNCHANGED life, ASIdle,
         At(r, "asking"), NEW sid \in {cl[r].sid, NoSid},
         cl' = [cl EXCEPT ![r].at = "ready", ![r].sid = sid]
  PROVE  Fine'
<1>1. /\ cl'[r].at = "ready" /\ cl'[r].code = cl[r].code /\ cl'[r].sid = sid
      /\ \A q \in Requests \ {r} : cl'[q] = cl[q]
  BY ClientFields
<1>2. /\ UNCHANGED <<sessions, byBearer, ent, conn, valid>>
      /\ UNCHANGED <<kid, jwks, expired, issued, codes, asReq>>
  BY DEF Answer, Reply, vars, index, realm, ASIdle, asVars
<1>3. req'[r].pc = "idle" /\ \A q \in Requests \ {r} : req'[q] = req[q]
  BY AnswerFrees DEF Busy
<1>4. Welcome(r)' /\ (cl'[r].sid = NoSid => AtHome(r)')
  BY <1>3, IdleIsFine
<1>5. cl'[r].sid = cl[r].sid => AtHome(r)'
  <2> SUFFICES ASSUME cl'[r].sid = cl[r].sid PROVE AtHome(r)'
    OBVIOUS
  <2>1. OwnSession(r)' = OwnSession(r) /\ OwnEntry(r)' = OwnEntry(r) /\ AtHome(r)
    BY <1>1, <1>2 DEF OwnSession, OwnEntry, Fine
  <2> QED BY <1>1, <1>2, <2>1, StaysAtHome
<1>6. ASSUME NEW q \in Requests PROVE OneCode(q)'
  BY <1>1, <1>2, StaysSignedIn DEF Fine, At
<1> QED BY <1>1, <1>2, <1>3, <1>4, <1>5, <1>6, ClientStaysFine

\* A session that is recorded leads to the entry that resolve found for the
\* client's token.
LEMMA RecordStaysFine ==
  ASSUME HInv, Fine, NEW r \in Requests, Record(r), At(r, "asking"), ASIdle,
         cl' = [cl EXCEPT ![r].at = "ready", ![r].sid = front[r].sid]
  PROVE  Fine'
<1>1. /\ IInv /\ FrontTyped /\ FrontOf(r) /\ InHand(r)
      /\ req \in [Requests -> RequestType] /\ sessions \in [Sids -> Entries \cup {NoEntry}]
  BY DEF HInv, SInv, NInv, SessionsHold, IInv, TypeOK
<1>2. PICK s \in Sids : s = front[r].sid
  BY <1>1 DEF Record, FrontOf
<1>3. /\ req[r].pc = "served" /\ req[r].sid = NoSid /\ sessions[s] = NoEntry
      /\ sessions' = Bind(sessions, s, req[r].entry)
      /\ req' = [req EXCEPT ![r] = IdleRequest]
      /\ life' = [life EXCEPT ![s] = "bound"] /\ life[s] = "opened"
      /\ UNCHANGED <<byBearer, ent, conn, valid>>
      /\ UNCHANGED <<kid, jwks, expired, issued, codes, asReq>>
  BY <1>1, <1>2 DEF Record, Capture, InHand, realm, ASIdle, asVars
<1>4. /\ cl'[r].at = "ready" /\ cl'[r].code = cl[r].code /\ cl'[r].sid = s
      /\ \A q \in Requests \ {r} : cl'[q] = cl[q]
  <2>1. /\ cl'[r].at = "ready" /\ cl'[r].code = cl[r].code /\ cl'[r].sid = front[r].sid
        /\ \A q \in Requests \ {r} : cl'[q] = cl[q]
    BY ClientFields
  <2> QED BY <1>2, <2>1
<1>5. req'[r].pc = "idle" /\ \A q \in Requests \ {r} : req'[q] = req[q]
  BY <1>1, <1>3 DEF IdleRequest
<1>6. Welcome(r)'
  BY <1>5, IdleIsFine
<1>7. AtHome(r)'
  <2>1. /\ req[r].bearer = cl[r].code /\ cl[r].code \in Bearers
        /\ PrincipalOf[cl[r].code] = Person[r]
    BY <1>3, PresentsOwnToken
  <2>2. req[r].entry \in Entries /\ ent[req[r].entry].principal = Person[r]
    BY <1>1, <1>3, <2>1 DEF IInv, LocalsSet, Holding, RequestTrust, Proven
  <2>3. OwnSession(r)' = req[r].entry
    BY <1>1, <1>3, <1>4, <2>2, NullsAreNotValues DEF OwnSession, Bind
  <2>4. OwnEntry(r) \in {NoEntry, req[r].entry}
    BY <1>3 DEF Fine, Welcome, Placed
  <2>5. OwnEntry(r)' = OwnEntry(r)
    BY <1>3, <1>4 DEF OwnEntry
  <2>6. life'[s] = "bound"
    BY <1>1, <1>3 DEF FrontTyped
  <2> QED BY <1>3, <1>4, <2>1, <2>2, <2>3, <2>4, <2>5, <2>6 DEF AtHome
<1>8. ASSUME NEW q \in Requests PROVE OneCode(q)'
  BY <1>3, <1>4, StaysSignedIn DEF Fine, At
<1>9. ASSUME NEW t \in Sids, life[t] \in {"bound", "loose"}
      PROVE  life'[t] \in {"bound", "loose"} /\ sessions'[t] = sessions[t]
  BY <1>1, <1>3, <1>9 DEF FrontTyped, Bind
<1> QED BY <1>3, <1>4, <1>5, <1>6, <1>7, <1>8, <1>9, ClientStaysFine

\* The node serves whom it has admitted before, and nobody is sent away to
\* sign in.
LEMMA ServeStaysFine ==
  ASSUME ~Flaky, HInv, Fine, IInv', NEW r \in Requests, Serve(r) PROVE Fine'
<1>1. CASE Behind(r, PoolStep(Handle(r)))
  BY <1>1, HandlerStaysFine DEF Behind
<1>2. CASE \/ Behind(r, HandOver(r)) \/ Behind(r, RunSession(r))
           \/ Behind(r, \E s \in Sids : OpenSession(r, s) /\ s = NextSid)
  BY <1>2, BystandersStayFine
<1>3. ~Answers(r, Unauthorized(r), "registered", cl[r].sid)
  BY DEF Answers, Unauthorized, Fine, Welcome
<1>4. CASE Answers(r, TurnAway(r), "ready", NoSid)
  BY <1>4, AnswerStaysFine DEF Answers, TurnAway
<1>5. CASE Answers(r, Record(r), "ready", front[r].sid)
  BY <1>5, RecordStaysFine DEF Answers
<1>6. CASE Call(r)
  BY <1>6, AnswerStaysFine DEF Call, Answers, AnswerRun
<1> QED BY <1>1, <1>2, <1>3, <1>4, <1>5, <1>6, Zenon DEF Serve, Inner

\* A process that starts anew knows nobody, and the clients come back with
\* the tokens that they have.
LEMMA CrashStaysFine == ASSUME HInv, Fine, Crash PROVE Fine'
<1>1. /\ byBearer' = [b \in Bearers |-> NoEntry] /\ sessions' = [s \in Sids |-> NoEntry]
      /\ ent' = [e \in Entries |-> BlankEntry] /\ conn' = [e \in Entries |-> Offline("none")]
      /\ req' = [r \in Requests |-> IdleRequest]
      /\ life' = [s \in Sids |-> IF life[s] = "unused" THEN "unused" ELSE "loose"]
      /\ UNCHANGED <<valid, kid, jwks, expired, issued, codes, asReq>>
  BY DEF Crash, realm, ASIdle, asVars
<1>2. \A e \in Entries : Sound(e)'
  BY <1>1 DEF Sound, BlankEntry, Offline
<1>3. ASSUME NEW r \in Requests
      PROVE  /\ cl'[r].code = cl[r].code /\ cl'[r].sid = cl[r].sid
             /\ \/ cl'[r].at = cl[r].at
                \/ cl[r].at = "asking" /\ cl'[r].at = "ready"
                \/ cl[r].at = "asking" /\ cl'[r].at = "cold" /\ cl[r].code = NoBearer
  <2>1. cl[r] \in ClientType
    BY DEF HInv, RoadTyped, ClientType
  <2>2. cl'[r] = IF cl[r].at # "asking" THEN cl[r]
                 ELSE [cl[r] EXCEPT !.at = IF cl[r].code = NoBearer THEN "cold" ELSE "ready"]
    BY DEF Crash
  <2> QED BY <2>1, <2>2 DEF ClientType
<1>4. ASSUME NEW r \in Requests PROVE Welcome(r)' /\ AtHome(r)'
  <2>1. req'[r].pc = "idle"
    BY <1>1 DEF IdleRequest
  <2>2. cl[r].sid \in Sids \cup {NoSid} /\ AtHome(r)
    BY DEF HInv, RoadTyped, Fine
  <2>3. OwnSession(r)' = NoEntry
    BY <1>1, <1>3, <2>2 DEF OwnSession
  <2>4. cl[r].sid # NoSid => life'[cl[r].sid] \in {"bound", "loose"}
    BY <1>1, <2>2 DEF AtHome
  <2> QED BY <1>3, <2>1, <2>2, <2>3, <2>4, IdleIsFine DEF AtHome
<1>5. ASSUME NEW r \in Requests PROVE OneCode(r)'
  <2>1. OneCode(r)
    BY DEF Fine
  <2>2. CASE cl'[r].at = cl[r].at \/ (cl[r].at = "asking" /\ cl'[r].at = "ready")
    BY <1>1, <1>3, <2>1, <2>2, StaysSignedIn
  <2>3. CASE cl[r].at = "asking" /\ cl'[r].at = "cold" /\ cl[r].code = NoBearer
    <3>1. \A c \in Bearers : issued[c].clientID # r
      BY <2>1, <2>3, NullsAreNotValues DEF OneCode
    <3>2. asReq[r].pc # "check"
      BY <2>3 DEF HInv, ClientOf
    <3> QED BY <1>1, <1>3, <2>3, <3>1, <3>2, NullsAreNotValues DEF OneCode
  <2> QED BY <1>3, <2>2, <2>3
<1>6. RealmIsKind' /\ OwnIds'
  BY <1>1, <1>3 DEF Fine, RealmIsKind, OwnIds
<1> QED BY <1>2, <1>4, <1>5, <1>6 DEF Fine

\* Before the sign-in no code is minted for the client, and it has none.
LEMMA NoCodeYet ==
  ASSUME HInv, Fine, NEW r \in Requests,
         \/ cl[r].at \in {"cold", "challenged", "advised", "discovered", "registered", "signing"}
         \/ cl[r].code = NoBearer
  PROVE  /\ \A c \in Bearers : issued[c].clientID # r
         /\ cl[r].code \notin Bearers /\ cl[r].sid = NoSid
<1>1. OneCode(r) /\ AtHome(r)
  BY DEF Fine
<1>2. \A c \in Bearers : issued[c].clientID # r
  BY <1>1, NullsAreNotValues DEF OneCode
<1>3. cl[r].code \notin Bearers
  BY <1>1, <1>2 DEF OneCode
<1>4. cl[r].sid = NoSid
  BY <1>1, <1>3 DEF AtHome
<1> QED BY <1>2, <1>3, <1>4

\* What a client does before it asks leaves the node alone; all stays well if
\* its sign-in does.
LEMMA SignUpStaysFine ==
  ASSUME HInv, Fine, NEW r \in Requests,
         UNCHANGED <<vars, life, kid, jwks, expired>>,
         \A q \in Requests \ {r} : cl'[q] = cl[q] /\ asReq'[q] = asReq[q],
         cl'[r].sid = cl[r].sid,
         cl'[r].code = cl[r].code \/ (cl[r].sid = NoSid /\ req[r].pc = "idle"),
         \A c \in Bearers : \/ issued'[c] = issued[c]
                            \/ issued[c] = AS!NoAuth /\ issued'[c].clientID = r,
         \A c \in Bearers : \/ codes'[c] = codes[c]
                            \/ issued[c] = AS!NoAuth \/ issued[c].clientID = r,
         OneCode(r)'
  PROVE  Fine'
<1>1. UNCHANGED <<sessions, byBearer, ent, conn, valid, req>>
  BY DEF vars
<1>2. AtHome(r)' /\ Welcome(r)'
  <2>1. AtHome(r) /\ Welcome(r)
    BY DEF Fine
  <2>2. CASE cl'[r].code = cl[r].code
    <3>1. OwnSession(r)' = OwnSession(r) /\ OwnEntry(r)' = OwnEntry(r)
      BY <1>1, <2>2 DEF OwnSession, OwnEntry
    <3> QED BY <1>1, <2>1, <2>2, <3>1, StaysAtHome, StaysWelcome
  <2>3. CASE cl[r].sid = NoSid /\ req[r].pc = "idle"
    BY <1>1, <2>3, IdleIsFine
  <2> QED BY <2>2, <2>3
<1>3. ASSUME NEW q \in Requests \ {r} PROVE OneCode(q)'
  <2>1. OneCode(q) /\ cl'[q] = cl[q] /\ asReq'[q] = asReq[q]
    BY DEF Fine
  <2>2. AS!NoAuth.clientID = "" /\ "" # q
    BY HostedConstants DEF AS!NoAuth
  <2>3. \A c \in Bearers : issued'[c].clientID = q => issued[c].clientID = q
    OBVIOUS
  <2>4. cl[q].code \in Bearers => /\ issued'[cl[q].code] = issued[cl[q].code]
                                  /\ codes'[cl[q].code] = codes[cl[q].code]
    BY <2>1, <2>2 DEF OneCode
  <2>5. cl[q].at = "coded" => cl[q].code \in Bearers
    BY DEF HInv, ClientOf
  <2>6. SignInOf(q)' = SignInOf(q)
    BY DEF SignInOf, AS!S256
  <2> QED BY <2>1, <2>3, <2>4, <2>5, <2>6 DEF OneCode
<1> QED BY <1>1, <1>2, <1>3, ClientStaysFine

\* The way to the sign-in, and out of a node in local mode.
LEMMA AdviceStaysFine ==
  ASSUME HInv, Fine, NEW r \in Requests,
         \/ Challenge(r) \/ AskBare(r) \/ Forbidden(r)
         \/ serveMetadata(r) \/ discovery(r) \/ Register(r)
  PROVE  Fine'
<1>1. PICK place \in {"challenged", "asking", "lost", "advised", "discovered", "registered"} :
        Becomes(r, place)
  BY Zenon DEF Challenge, AskBare, Forbidden, serveMetadata, discovery, Register
<1>2. /\ \/ cl[r].at \in {"cold", "challenged", "advised", "discovered"}
         \/ Forbidden(r)
      /\ UNCHANGED <<life, kid, jwks, expired, issued, codes, asReq>>
  <2>1. CASE Challenge(r) \/ serveMetadata(r) \/ discovery(r)
    BY <2>1 DEF Challenge, serveMetadata, discovery, At, NodeIdle, nodeVars, frontVars, ASIdle, asVars
  <2>2. CASE AskBare(r) \/ Forbidden(r)
    BY <2>2 DEF AskBare, EnterBare, Forbidden, At, ASIdle, asVars
  <2>3. CASE Register(r)
    BY <2>3 DEF Register, AS!register, At, NodeIdle, nodeVars, frontVars
  <2> QED BY <2>1, <2>2, <2>3
<1>3. UNCHANGED vars /\ (Forbidden(r) => cl[r].code = NoBearer)
  <2>1. CASE \/ Challenge(r) \/ AskBare(r) \/ serveMetadata(r) \/ discovery(r) \/ Register(r)
    <3>1. ~Forbidden(r)
      <4>1. cl[r].at # "asking"
        BY <2>1 DEF Challenge, AskBare, serveMetadata, discovery, Register, At
      <4> QED BY <4>1 DEF Forbidden, At
    <3>2. UNCHANGED vars
      BY <2>1 DEF Challenge, AskBare, EnterBare, serveMetadata, discovery, Register, NodeIdle,
         nodeVars
    <3> QED BY <3>1, <3>2
  <2>2. CASE Forbidden(r)
    <3>1. Answer(r) /\ ~public
      BY <2>2 DEF Forbidden, DisableLocalhostProtection
    <3>2. AtTheGate(r)
      BY <3>1 DEF HInv, ClientOf
    <3> QED BY <3>1, <3>2, IdleType DEF Answer, AtTheGate
  <2> QED BY <2>1, <2>2
<1>4. /\ \A c \in Bearers : issued[c].clientID # r
      /\ cl[r].code \notin Bearers /\ cl[r].sid = NoSid
  BY <1>2, <1>3, NoCodeYet
<1>5. /\ cl'[r].at = place /\ cl'[r].code = cl[r].code /\ cl'[r].sid = cl[r].sid
      /\ \A q \in Requests \ {r} : cl'[q] = cl[q]
  BY <1>1, ClientFields
<1>6. asReq[r].pc # "check"
  BY <1>2 DEF HInv, ClientOf, Forbidden, At
<1>7. OneCode(r)'
  BY <1>2, <1>4, <1>5, <1>6 DEF OneCode
<1> QED BY <1>2, <1>3, <1>5, <1>7, SignUpStaysFine

\* The sign-in itself: the code that is minted is the client's only one, and
\* buys its token.
LEMMA SignInStaysFine ==
  ASSUME HInv, Fine, NEW r \in Requests,
         \/ Authorize(r) \/ Lookup(r) \/ Store(r, FALSE) \/ Redeem(r) \/ Check(r)
         \/ Mint(r, FALSE)
  PROVE  Fine'
<1>1. /\ OneCode(r) /\ ASP!IInv
      /\ asReq \in [Requests -> [pc : {"idle", "lookup", "store", "check", "mint"},
            ac : ASP!AuthCode \cup {ASP!NoAuth}, code : Bearers \cup {NoBearer},
            verifier : Principals \cup {Nobody}, redirect : {"callback"} \cup {""}]]
      /\ codes \in [Bearers -> ASP!AuthCode \cup {ASP!NoAuth}]
      /\ issued \in [Bearers -> ASP!AuthCode \cup {ASP!NoAuth}]
      /\ ClientOf(r)
  BY DEF Fine, HInv, ASP!IInv, ASP!TypeOK
<1>2. SignInOf(r)' = SignInOf(r)
  BY DEF SignInOf, AS!S256
<1>3. UNCHANGED <<vars, life, kid, jwks, expired>>
  <2>1. NodeIdle
    BY Zenon DEF Authorize, Lookup, Store, Redeem, Check, Mint
  <2>2. \/ AS!authorize(r, SignInOf(r)) \/ AS!Lookup(r) \/ AS!Store(r)
        \/ AS!token(r, cl[r].code, Person[r], "callback") \/ AS!Check(r) \/ AS!Token(r)
    BY Zenon DEF Authorize, Lookup, Store, Redeem, Check, Mint
  <2>3. UNCHANGED <<kid, jwks, expired>>
    BY <2>2 DEF AS!authorize, AS!Lookup, AS!Store, AS!token, AS!Check, AS!Token
  <2> QED BY <2>1, <2>3 DEF NodeIdle, nodeVars, frontVars
<1>4. CASE Authorize(r)
  <2>1. /\ cl[r].at = "registered" /\ Becomes(r, "signing") /\ UNCHANGED <<issued, codes>>
        /\ asReq' = [asReq EXCEPT ![r] = [AS!Idle EXCEPT !.pc = "lookup", !.ac = SignInOf(r)]]
    BY <1>4 DEF Authorize, At, AS!authorize
  <2>2. /\ cl'[r].at = "signing" /\ cl'[r].code = cl[r].code /\ cl'[r].sid = cl[r].sid
        /\ \A q \in Requests \ {r} : cl'[q] = cl[q]
    BY <2>1, ClientFields
  <2>3. /\ asReq'[r].pc = "lookup" /\ asReq'[r].ac = SignInOf(r)
        /\ \A q \in Requests \ {r} : asReq'[q] = asReq[q]
    BY <1>1, <2>1 DEF AS!Idle
  <2>4. /\ \A c \in Bearers : issued[c].clientID # r
        /\ cl[r].code \notin Bearers
    BY <2>1, NoCodeYet
  <2>5. OneCode(r)'
    BY <1>2, <2>1, <2>2, <2>3, <2>4 DEF OneCode
  <2> QED BY <1>3, <2>1, <2>2, <2>3, <2>5, SignUpStaysFine
<1>5. CASE Lookup(r)
  <2>1. /\ cl[r].at = "signing" /\ cl' = cl /\ UNCHANGED <<issued, codes>>
        /\ asReq[r].ac.clientID = r /\ r \in clients
    BY <1>1, <1>5 DEF Lookup, At, AS!Lookup, ClientOf
  <2>2. asReq' = [asReq EXCEPT ![r].pc = "store"]
    BY <1>5, <2>1 DEF Lookup, AS!Lookup
  <2>3. /\ asReq'[r].pc = "store" /\ asReq'[r].ac = asReq[r].ac
        /\ \A q \in Requests \ {r} : asReq'[q] = asReq[q]
    BY <1>1, <2>2
  <2>4. OneCode(r)'
    BY <1>1, <1>2, <2>1, <2>3 DEF OneCode
  <2> QED BY <1>3, <2>1, <2>3, <2>4, SignUpStaysFine
<1>6. CASE Store(r, FALSE)
  <2> DEFINE n == NextCode(r)
  <2>1. /\ cl[r].at = "signing" /\ AS!Store(r)
        /\ codes' = [codes EXCEPT ![n] = asReq[r].ac]
        /\ cl' = [cl EXCEPT ![r].at = "coded", ![r].code = n]
    BY <1>6 DEF Store, At
  <2>2. n \in Bearers /\ PrincipalOf[n] = Person[r] /\ issued[n] = AS!NoAuth
    BY <1>6, NextCodeIsNew DEF NewCodes
  <2> HIDE DEF n
  <2>3. /\ asReq[r].ac = SignInOf(r)
        /\ \A c \in Bearers : issued[c].clientID # r
        /\ cl[r].sid = NoSid
    BY <1>1, <2>1, NoCodeYet DEF OneCode
  <2>4. SignInOf(r).clientID = r /\ AS!NoAuth.clientID = "" /\ "" # r
    BY HostedConstants DEF SignInOf, AS!NoAuth
  <2>5. PICK c \in Bearers : /\ issued[c] = AS!NoAuth
                             /\ codes' = [codes EXCEPT ![c] = SignInOf(r)]
                             /\ issued' = [issued EXCEPT ![c] = SignInOf(r)]
    BY <2>1, <2>3 DEF AS!Store
  <2>6. c = n
    <3>1. codes[n] = AS!NoAuth
      BY <1>1, <2>2, SameServer DEF ASP!IInv, ASP!CodesAreIssued
    <3>2. codes'[n] = SignInOf(r)
      BY <1>1, <2>1, <2>2, <2>3
    <3> QED BY <1>1, <2>2, <2>4, <2>5, <3>1, <3>2
  <2>7. /\ cl'[r].at = "coded" /\ cl'[r].code = n /\ cl'[r].sid = cl[r].sid
        /\ \A q \in Requests \ {r} : cl'[q] = cl[q]
    BY <2>1, ClientFields
  <2>8. /\ asReq'[r].pc = "idle"
        /\ \A q \in Requests \ {r} : asReq'[q] = asReq[q]
    BY <1>1, <2>1 DEF AS!Store, AS!Idle
  <2>9. /\ issued'[n] = SignInOf(r) /\ codes'[n] = SignInOf(r)
        /\ \A d \in Bearers \ {n} : issued'[d] = issued[d] /\ codes'[d] = codes[d]
    BY <1>1, <2>5, <2>6
  <2>10. OneCode(r)'
    BY <1>2, <2>2, <2>3, <2>4, <2>7, <2>8, <2>9 DEF OneCode
  <2>11. req[r].pc = "idle"
    BY <1>1, <2>1 DEF ClientOf, Busy
  <2>12. /\ \A d \in Bearers : \/ issued'[d] = issued[d]
                               \/ issued[d] = AS!NoAuth /\ issued'[d].clientID = r
         /\ \A d \in Bearers : codes'[d] = codes[d] \/ issued[d] = AS!NoAuth
    BY <2>2, <2>4, <2>9
  <2> QED BY <1>3, <2>3, <2>7, <2>8, <2>10, <2>11, <2>12, SignUpStaysFine
<1>7. CASE Redeem(r)
  <2>1. /\ cl[r].at = "coded" /\ Becomes(r, "redeeming") /\ UNCHANGED issued
        /\ AS!Take(r, cl[r].code, Person[r], "callback")
    BY <1>7 DEF Redeem, At, AS!token
  <2>2. /\ cl'[r].at = "redeeming" /\ cl'[r].code = cl[r].code /\ cl'[r].sid = cl[r].sid
        /\ \A q \in Requests \ {r} : cl'[q] = cl[q]
    BY <2>1, ClientFields
  <2>3. /\ cl[r].code \in Bearers /\ codes[cl[r].code] = SignInOf(r)
        /\ issued[cl[r].code].clientID = r
    BY <1>1, <2>1 DEF OneCode, ClientOf
  <2>4. /\ asReq'[r].pc = "check" /\ asReq'[r].ac = SignInOf(r)
        /\ asReq'[r].verifier = Person[r] /\ asReq'[r].redirect = "callback"
        /\ \A q \in Requests \ {r} : asReq'[q] = asReq[q]
    BY <1>1, <2>1, <2>3, NullsAreNotValues DEF AS!Take
  <2>5. \A c \in Bearers : codes'[c] = codes[c] \/ issued[c].clientID = r
    BY <2>1, <2>3 DEF AS!Take
  <2>6. OneCode(r)'
    BY <1>1, <1>2, <2>1, <2>2, <2>4 DEF OneCode
  <2> QED BY <1>3, <2>1, <2>2, <2>4, <2>5, <2>6, SignUpStaysFine
<1>8. CASE Check(r)
  <2>1. /\ cl[r].at = "redeeming" /\ AS!Check(r) /\ UNCHANGED <<issued, codes>>
        /\ Becomes(r, IF asReq'[r].pc = "mint" THEN "redeeming" ELSE "registered")
    BY <1>8 DEF Check, At, AS!Check
  <2>2. /\ asReq[r].pc = "check" /\ asReq[r].ac = SignInOf(r)
        /\ asReq[r].verifier = Person[r] /\ asReq[r].redirect = "callback"
    BY <1>1, <2>1 DEF AS!Check, OneCode
  <2>3. AS!Passes(asReq[r])
    <3>1. SignInOf(r).clientID # AS!NoAuth.clientID
      BY HostedConstants DEF SignInOf, AS!NoAuth
    <3>2. expired = {}
      BY DEF Fine, RealmIsKind
    <3> QED BY <2>2, <3>1, <3>2 DEF AS!Passes, SignInOf
  <2>4. asReq' = [asReq EXCEPT ![r] = [@ EXCEPT !.pc = "mint"]]
    BY <2>1, <2>3 DEF AS!Check
  <2>5. asReq'[r].pc = "mint" /\ \A q \in Requests \ {r} : asReq'[q] = asReq[q]
    BY <1>1, <2>4
  <2>6. Becomes(r, "redeeming")
    BY <2>1, <2>5
  <2>7. /\ cl'[r].at = "redeeming" /\ cl'[r].code = cl[r].code /\ cl'[r].sid = cl[r].sid
        /\ \A q \in Requests \ {r} : cl'[q] = cl[q]
    BY <2>6, ClientFields
  <2>8. OneCode(r)'
    BY <1>1, <2>1, <2>5, <2>7 DEF OneCode
  <2> QED BY <1>3, <2>1, <2>5, <2>7, <2>8, SignUpStaysFine
<1>9. CASE Mint(r, FALSE)
  <2>1. /\ cl[r].at = "redeeming" /\ UNCHANGED <<issued, codes>> /\ Becomes(r, "ready")
        /\ asReq' = [asReq EXCEPT ![r] = AS!Idle]
    BY <1>9 DEF Mint, At, AS!Token
  <2>2. asReq'[r].pc = "idle" /\ \A q \in Requests \ {r} : asReq'[q] = asReq[q]
    BY <1>1, <2>1 DEF AS!Idle
  <2>3. /\ cl'[r].at = "ready" /\ cl'[r].code = cl[r].code /\ cl'[r].sid = cl[r].sid
        /\ \A q \in Requests \ {r} : cl'[q] = cl[q]
    BY <2>1, ClientFields
  <2>4. OneCode(r)'
    BY <1>1, <2>1, <2>2, <2>3 DEF OneCode
  <2> QED BY <1>3, <2>1, <2>2, <2>3, <2>4, SignUpStaysFine
<1> QED BY <1>4, <1>5, <1>6, <1>7, <1>8, <1>9

\* Every step that spoils nothing leaves all well.
LEMMA StepStaysFine ==
  ASSUME ~Flaky, HInv, FInv, [HostedNext]_hostedVars PROVE FInv'
<1> SUFFICES ASSUME ~spoiled' PROVE Fine'
  BY DEF FInv
<1>1. IInv' /\ spoiled \in BOOLEAN
  <2>1. HInv'
    BY HostedPreserves
  <2>2. IInv'
    BY <2>1 DEF HInv, SInv, NInv
  <2> QED BY <2>2 DEF HInv, RoadTyped
<1>2. ~Mishap(TRUE)
  BY DEF Mishap
<1>3. ASSUME NEW r \in Requests PROVE ~Store(r, TRUE) /\ ~Mint(r, TRUE)
  BY <1>2 DEF Store, Mint
<1>4. /\ ~RotateKey /\ \A e \in Entries : ~LoseLink(e)
      /\ \A b \in Bearers : ~Void(b) /\ ~ExpireCode(b)
  BY <1>2, Zenon DEF RotateKey, LoseLink, Void, ExpireCode
<1>5. ~spoiled
  <2> SUFFICES ASSUME spoiled PROVE FALSE
    OBVIOUS
  <2>1. UNCHANGED mishapVars \/ Mishap(TRUE) \/ Mishap(FALSE)
    BY StepCountsMishaps
  <2> QED BY <1>1, <2>1 DEF mishapVars, Mishap
<1>6. Fine
  BY <1>5 DEF FInv
<1>7. ~EdgeRefetch
  BY <1>6 DEF EdgeRefetch, AS!Refetch, AS!Published, Fine, RealmIsKind
<1>8. \/ \E r \in Requests : SignUp(r) \/ Ask(r) \/ Serve(r)
      \/ Crash \/ \E s \in Sids : LoseSession(s)
      \/ \E e \in Entries : Link(e) \/ Sweep(e)
      \/ UNCHANGED hostedVars
  BY <1>3, <1>4, <1>7, Zenon DEF HostedNext, Proceed, GoWrong, Advance
<1>9. ASSUME NEW r \in Requests, SignUp(r) PROVE Fine'
  <2>1. \/ \/ Challenge(r) \/ AskBare(r) \/ Forbidden(r)
           \/ serveMetadata(r) \/ discovery(r) \/ Register(r)
        \/ \/ Authorize(r) \/ Lookup(r) \/ Store(r, FALSE) \/ Redeem(r) \/ Check(r)
           \/ Mint(r, FALSE)
    BY <1>9, Zenon DEF SignUp
  <2> QED BY <1>6, <2>1, AdviceStaysFine, SignInStaysFine
<1>10. ASSUME NEW r \in Requests, Ask(r) \/ Serve(r) PROVE Fine'
  BY <1>1, <1>6, <1>10, AskStaysFine, ServeStaysFine
<1>11. Crash => Fine'
  BY <1>6, CrashStaysFine
<1> QED BY <1>6, <1>8, <1>9, <1>10, <1>11, BystandersStayFine

\* All is well when the process has booted for the first time.
LEMMA RoadBeginsFine == HostedInit => FInv
<1> SUFFICES ASSUME HostedInit PROVE Fine
  BY DEF FInv
<1>1. /\ byBearer = [b \in Bearers |-> NoEntry] /\ sessions = [s \in Sids |-> NoEntry]
      /\ ent = [e \in Entries |-> BlankEntry] /\ conn = [e \in Entries |-> Offline("none")]
      /\ req = [r \in Requests |-> IdleRequest]
      /\ valid = {b \in Bearers : PrincipalOf[b] # Nobody}
  BY DEF HostedInit, NodeInit, Init
<1>2. /\ jwks.kid = kid /\ expired = {}
      /\ issued = [c \in Bearers |-> AS!NoAuth] /\ asReq = [r \in Requests |-> AS!Idle]
  BY DEF HostedInit, AS!Init, AS!Published
<1>3. cl = [r \in Requests |-> Newcomer]
  BY DEF HostedInit
<1>4. RealmIsKind /\ \A e \in Entries : Sound(e)
  BY <1>1, <1>2 DEF RealmIsKind, Sound, BlankEntry, Offline
<1>5. ASSUME NEW r \in Requests PROVE OneCode(r) /\ AtHome(r) /\ Welcome(r)
  <2>1. cl[r].at = "cold" /\ cl[r].code = NoBearer /\ cl[r].sid = NoSid
    BY <1>3 DEF Newcomer
  <2>2. \A c \in Bearers : issued[c].clientID # r
    BY <1>2, HostedConstants DEF AS!NoAuth
  <2>3. asReq[r].pc = "idle" /\ req[r].pc = "idle"
    BY <1>1, <1>2 DEF AS!Idle, IdleRequest
  <2>4. OneCode(r)
    BY <2>1, <2>2, <2>3, NullsAreNotValues DEF OneCode
  <2> QED BY <2>1, <2>3, <2>4 DEF AtHome, OwnSession, Welcome, OnSession, Placing, Placed
<1>6. OwnIds
  BY <1>3 DEF OwnIds, Newcomer
<1> QED BY <1>4, <1>5, <1>6 DEF Fine

---------------------------------------------------------------------------
(* Theorems.                                                               *)

\* For any clients, people, deployments, tokens and mishaps, every reachable
\* state of the road is well typed; a client waits for an answer exactly
\* while the node has its request in hand, and signs in exactly while the
\* authorization server does (oidc_flow_test.go drives the two together).
THEOREM HostedTypeCorrect == HostedSpec => []HostedTypeOK
<1>1. ASSUME HInv PROVE HostedTypeOK
  <2>1. NodeTypeOK
    BY <1>1 DEF HInv, SInv, NInv, IInv, FrontTyped, FrontOf, NodeTypeOK
  <2>2. AS!TypeOK
    BY <1>1, SameServer DEF HInv, ASP!IInv
  <2>3. ASSUME NEW r \in Requests
        PROVE  /\ cl[r].at = "asking" <=> req[r].pc # "idle" \/ front[r].at # "door"
               /\ cl[r].at \in {"signing", "redeeming"} <=> asReq[r].pc # "idle"
    <3>1. asReq[r].pc \in {"idle", "lookup", "store", "check", "mint"}
      BY <1>1 DEF HInv, ASP!IInv, ASP!TypeOK
    <3> QED BY <1>1, <3>1 DEF HInv, ClientOf, Busy
  <2> QED BY <1>1, <2>1, <2>2, <2>3 DEF HInv, RoadTyped, HostedTypeOK
<1> QED BY <1>1, HostedInvariantHolds, PTL

\* The trust rule survives what happens to a hosted node: whatever dies,
\* rotates, expires or is forgotten, and whatever the restarted process is
\* asked with old session ids, no entry holds and nobody is served on what the
\* realm has not admitted for that principal (node.go:49-56, pool.go:25-34).
THEOREM TrustSurvivesRestarts ==
  HostedSpec => [](TrustRule /\ ServedAsSelf /\ PublicRunsAreAdmitted)
<1>1. HInv => TrustRule /\ ServedAsSelf /\ PublicRunsAreAdmitted
  <2> SUFFICES ASSUME HInv PROVE TrustRule /\ ServedAsSelf /\ PublicRunsAreAdmitted
    OBVIOUS
  <2>1. IInv /\ NInv
    BY DEF HInv, SInv, NInv
  <2>2. TrustRule
    BY <2>1, TrustRuleFollows
  <2>3. ServedAsSelf
    BY <2>1 DEF IInv, RequestTrust, ServedAsSelf
  <2>4. PublicRunsAreAdmitted
    BY <2>1 DEF NInv, FrontOf, Running, IInv, RequestTrust, Proven, PublicRunsAreAdmitted
  <2> QED BY <2>2, <2>3, <2>4
<1> QED BY <1>1, HostedInvariantHolds, PTL

\* Session ids outlive the process that gave them out, and its sessions; no
\* id of the time before a restart leads to another principal's session
\* afterwards, and what is opened anew is the opener's own (node.go:39, 69-84).
THEOREM SessionsSurviveRestarts ==
  HostedSpec => [](SessionIsolation /\ LookupsAgree /\ FreshSessionsAreOwn)
<1>1. HInv => SessionIsolation /\ LookupsAgree /\ FreshSessionsAreOwn
  <2> SUFFICES ASSUME HInv PROVE SessionIsolation /\ LookupsAgree /\ FreshSessionsAreOwn
    OBVIOUS
  <2>1. SInv
    BY DEF HInv
  <2>2. SessionIsolation
    BY <2>1, IsolationFollows
  <2>3. LookupsAgree
    BY <2>1 DEF SInv, SessionsHold, SessionOf, SamePrincipal, LookupsAgree
  <2>4. FreshSessionsAreOwn
    BY <2>1 DEF SInv, NInv, FrontOf, FreshSessionsAreOwn
  <2> QED BY <2>2, <2>3, <2>4
<1> QED BY <1>1, HostedInvariantHolds, PTL

\* The clients of the road use the authorization server as its own model
\* assumes: a code buys one token, for the person who signed in, before the
\* code runs out, however often an answer is lost and the road started again
\* (asstub.go; oidc_flow_test.go:130-170).
THEOREM RoadKeepsSignIn ==
  HostedSpec => [](ASP!CodeBuysOneToken /\ ASP!TokenFollowsSignIn
                     /\ ASP!ExpiredCodeIsWorthless /\ ASP!FreshTokenVerifies)
<1>1. ASP!IInv => /\ ASP!CodeBuysOneToken /\ ASP!TokenFollowsSignIn
                  /\ ASP!ExpiredCodeIsWorthless /\ ASP!FreshTokenVerifies
  <2> SUFFICES ASSUME ASP!IInv
               PROVE  /\ ASP!CodeBuysOneToken /\ ASP!TokenFollowsSignIn
                      /\ ASP!ExpiredCodeIsWorthless /\ ASP!FreshTokenVerifies
    OBVIOUS
  <2>1. ASP!CodeBuysOneToken
    BY DEF ASP!IInv, ASP!TakenOnce, ASP!CodeBuysOneToken
  <2>2. ASP!TokenFollowsSignIn
    BY ServerConstants, ASP!TokensHaveCodes
       DEF ASP!IInv, ASP!TokenKnows, ASP!CodesAreIssued, ASP!TokenFollowsSignIn
  <2>3. ASP!ExpiredCodeIsWorthless
    BY DEF ASP!IInv, ASP!TokenKnows, ASP!ExpiredCodeIsWorthless
  <2>4. ASP!FreshTokenVerifies
    BY DEF ASP!IInv, ASP!KidNamesKey, ASP!FreshTokenVerifies, ASP!Verifies, ASP!Published
  <2> QED BY <2>1, <2>2, <2>3, <2>4
<1>2. HInv => ASP!IInv
  BY DEF HInv
<1> QED BY <1>1, <1>2, HostedInvariantHolds, PTL

\* A client that a node in local mode has sent away gets no further by any
\* way: it is never admitted, and never has a token to be admitted with
\* (http.go's guard answers 403 to the front's public Host).
THEOREM LocalModeLetsNobodyIn ==
  HostedSpec => [](~public => \A r \in Requests : ~Running(r) /\ cl[r].code = NoBearer)
<1>1. ASSUME HInv, ~public, NEW r \in Requests PROVE ~Running(r) /\ cl[r].code = NoBearer
  <2>1. cl[r].code = NoBearer /\ front[r] \in {AtDoor, AtGuard}
    BY <1>1 DEF HInv, ClientOf, AtTheGate
  <2>2. AtDoor.at = "door" /\ AtGuard.at = "inner"
    BY DEF AtDoor, AtGuard
  <2> QED BY <2>1, <2>2 DEF Running
<1>2. HInv => (~public => \A r \in Requests : ~Running(r) /\ cl[r].code = NoBearer)
  BY <1>1
<1> QED BY <1>2, HostedInvariantHolds, PTL

\* Nor does a restart lose an open connection, or leave behind a failed build
\* that a later request could meet: the new process begins with neither, and
\* keeps it so whatever it is asked with old session ids (pool.go:168, 328).
THEOREM RestartsLeaveNoScar == HostedSpec => [](EveryConnectionReachable /\ FailureLeavesNoScar)
<1>1. HInv => EveryConnectionReachable /\ FailureLeavesNoScar
  <2> SUFFICES ASSUME HInv PROVE EveryConnectionReachable /\ FailureLeavesNoScar
    OBVIOUS
  <2>1. LifeInv
    BY DEF HInv
  <2>2. EveryConnectionReachable
    BY <2>1 DEF LifeInv, Reachable, EveryConnectionReachable, Keyed, Open
  <2>3. FailureLeavesNoScar
    BY <2>1 DEF LifeInv, OnItsWayOut, FailureLeavesNoScar, InFlight, Indexed, Keyed
  <2> QED BY <2>2, <2>3
<1> QED BY <1>1, HostedInvariantHolds, PTL

\* "Restart is free" (node.go:49-51, doc.go:7-9): at a realm that answers
\* (~Flaky), however often the process is killed, wherever each request is,
\* and whatever sessions the SDK forgets, no client is ever made to sign in a
\* second time, unless an answer was lost, a token voided, a key rotated, a
\* code left to expire or a link broken under a build.
THEOREM RestartIsFreeHolds == ASSUME ~Flaky PROVE HostedSpec => []RestartIsFree
<1>1. HInv /\ FInv => RestartIsFree
  <2> SUFFICES ASSUME HInv, Fine,
                      NEW b \in Bearers, NEW c \in Bearers,
                      issued[b] # AS!NoAuth, issued[c] # AS!NoAuth,
                      issued[b].clientID = issued[c].clientID
               PROVE  b = c
    BY DEF FInv, RestartIsFree
  <2>1. issued[b] \in ASP!AuthCode
    BY SameServer DEF HInv, ASP!IInv, ASP!TypeOK
  <2>2. PICK r \in Requests : issued[b].clientID = r
    BY <2>1 DEF ASP!AuthCode
  <2>3. OneCode(r)
    BY DEF Fine
  <2> QED BY <2>2, <2>3 DEF OneCode
<1>2. FInv /\ HInv /\ [HostedNext]_hostedVars => FInv'
  BY StepStaysFine
<1> QED BY <1>1, <1>2, RoadBeginsFine, HostedInvariantHolds, PTL DEF HostedSpec

============================================================================
