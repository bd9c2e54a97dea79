------------------------------- MODULE Hosted -------------------------------
(***************************************************************************)
(* The whole road of a hosted client that knows only the node's URL        *)
(* (oidc_flow_test.go): challenge, resource metadata, discovery, dynamic   *)
(* registration, sign-in, admission, session; and again after whatever     *)
(* goes wrong.  It composes the front and the pool (EXTENDS Node) with the *)
(* authorization server (INSTANCE SignIn), and adds what lies between      *)
(* them: the binary's configuration, the OAuth edge, and the realm's token *)
(* validator, whose verdicts are Pool's valid.                             *)
(*                                                                         *)
(* A client uses one connection at a time: client r is request r.  The     *)
(* token that code c buys is bearer c.  The process may be killed at any   *)
(* moment; main leaves through os.Exit or a signal, so Close never runs.   *)
(***************************************************************************)
EXTENDS Node

CONSTANTS
  Person,        \* the principal whose person sits at client r
  Deployments,   \* command lines and environments the operator may use
  Unset,         \* a flag or variable that is not there
  Slashed,       \* the URLs that end in a slash
  EdgeIssuer,    \* the issuer that the admission edge validates
  MaxKid,        \* bound on key rotations
  MaxMishaps     \* bound: how many things may go wrong

Fields == {"listen", "publicURL", "authIssuer", "realm", "natsURL"}

ASSUME HostedConstants ==
  /\ Person \in [Requests -> Principals]
  /\ \A d \in Deployments : DOMAIN d.flags = Fields /\ DOMAIN d.env = Fields
  /\ MaxKid \in Nat /\ MaxMishaps \in Nat
  /\ "" \notin Requests

VARIABLES
  cfg,       \* what node.New was called with
  status,    \* "serving", or "refused": main has left with exit code 2
  cl,        \* the clients: what each of them knows and does
  key, kid, clients, codes, expired, asReq, issued, tokens, overdue,
  jwks,      \* SignIn's variables; jwks is the validator's
  mishaps,   \* how many things went wrong
  spoiled    \* history: something other than the process was to blame

asVars     == <<key, kid, clients, codes, expired, asReq, issued, tokens, overdue, jwks>>
mishapVars == <<mishaps, spoiled>>
hostedVars == <<nodeVars, cfg, status, cl, asVars, mishapVars>>

AS == INSTANCE SignIn WITH
  Codes <- Bearers, NoCode <- NoBearer, Clients <- Requests, NoClient <- "",
  Logins <- Principals, NoLogin <- Nobody,
  Verifiers <- Principals, NoVerifier <- Nobody,
  Redirects <- {"callback"}, Parseable <- {"callback"}, NoRedirect <- "",
  req <- asReq

---------------------------------------------------------------------------
(* The binary: flags, environment, validation.                             *)

\* A flag wins over the environment, a variable that is set to nothing over
\* the default.
setting(d, f) ==
  IF d.flags[f] # Unset THEN d.flags[f]
  ELSE IF d.env[f] # Unset THEN d.env[f]
  ELSE IF f = "listen" THEN "127.0.0.1:8080" ELSE ""


validate(c) ==
  /\ "" \notin {c.listen, c.realm, c.natsURL}
  /\ c.publicURL # "" => c.authIssuer # "" /\ c.publicURL \notin Slashed
  /\ c.authIssuer # "" => c.publicURL # ""

Boot(d) ==
  /\ cfg = [f \in Fields |-> setting(d, f)]
  /\ status = IF validate(cfg) THEN "serving" ELSE "refused"
  /\ public = (cfg.publicURL # "")

---------------------------------------------------------------------------
(* The OAuth edge and the client before it has a token.                    *)

\* code: the authorization code, and then the token it bought.
Newcomer == [at |-> "cold", code |-> NoBearer, sid |-> NoSid]

At(r, place) == status = "serving" /\ cl[r].at = place

Becomes(r, place) == cl' = [cl EXCEPT ![r].at = place]

NodeIdle == UNCHANGED <<nodeVars, cfg, status>>
ASIdle   == UNCHANGED asVars

\* unauthorized without a bearer: the 401 names the metadata.
Challenge(r) ==
  /\ At(r, "cold") /\ public
  /\ Becomes(r, "challenged")
  /\ NodeIdle /\ ASIdle /\ UNCHANGED mishapVars

\* In local mode a bare request reaches the SDK ...
AskBare(r) ==
  /\ At(r, "cold")
  /\ EnterBare(r, NoSid)
  /\ Becomes(r, "asking")
  /\ UNCHANGED <<cfg, status>> /\ ASIdle /\ UNCHANGED mishapVars

DisableLocalhostProtection == public

\* ... whose DNS-rebinding guard answers 403 to the front's public Host.
Forbidden(r) ==
  /\ At(r, "asking")
  /\ front[r].at = "inner"
  /\ ~DisableLocalhostProtection
  /\ Answer(r)
  /\ Becomes(r, "lost")
  /\ UNCHANGED <<public, sdk, life, cfg, status>> /\ ASIdle /\ UNCHANGED mishapVars

\* The challenge's URL is PublicURL + wellKnownPath.  ServeHTTP compares the
\* whole path, so a doubled slash would find the challenge again.
serveMetadata(r) ==
  /\ At(r, "challenged")
  /\ Becomes(r, IF cfg.publicURL \in Slashed THEN "lost" ELSE "advised")
  /\ NodeIdle /\ ASIdle /\ UNCHANGED mishapVars

\* Discovery at the advertised issuer; a wrong one leads elsewhere.
discovery(r) ==
  /\ At(r, "advised")
  /\ Becomes(r, IF cfg.authIssuer = EdgeIssuer THEN "discovered" ELSE "lost")
  /\ NodeIdle /\ ASIdle /\ UNCHANGED mishapVars

Register(r) ==
  /\ At(r, "discovered")
  /\ AS!register
  /\ clients' = clients \cup {r}
  /\ Becomes(r, "registered")
  /\ NodeIdle /\ UNCHANGED mishapVars

---------------------------------------------------------------------------
(* Sign-in.  A lost answer is a mishap; the person then starts again.      *)

Mishap(spoils) ==
  /\ mishaps < MaxMishaps
  /\ mishaps' = mishaps + 1
  /\ spoiled' = (spoiled \/ spoils)

\* What the person at client r signs in for.
SignInOf(r) == [login |-> Person[r], clientID |-> r, redirect |-> "callback",
                challenge |-> AS!S256(Person[r])]

Authorize(r) ==
  /\ At(r, "registered")
  /\ AS!authorize(r, SignInOf(r))
  /\ Becomes(r, "signing")
  /\ NodeIdle /\ UNCHANGED mishapVars

Lookup(r) ==
  /\ At(r, "signing")
  /\ AS!Lookup(r)
  /\ NodeIdle /\ UNCHANGED <<cl, mishapVars>>

\* The names of the codes are chosen so that PrincipalOf knows the person.
NewCodes(r) == {c \in Bearers : PrincipalOf[c] = Person[r] /\ issued[c] = AS!NoAuth}

NextCode(r) == CHOOSE c \in NewCodes(r) : TRUE

Store(r, lost) ==
  /\ At(r, "signing")
  /\ NewCodes(r) # {}
  /\ AS!Store(r)
  /\ codes' = [codes EXCEPT ![NextCode(r)] = asReq[r].ac]
  /\ cl' = [cl EXCEPT ![r].at   = IF lost THEN "registered" ELSE "coded",
                      ![r].code = IF lost THEN NoBearer ELSE NextCode(r)]
  /\ IF lost THEN Mishap(TRUE) ELSE UNCHANGED mishapVars
  /\ NodeIdle

Redeem(r) ==
  /\ At(r, "coded")
  /\ AS!token(r, cl[r].code, Person[r], "callback")
  /\ Becomes(r, "redeeming")
  /\ NodeIdle /\ UNCHANGED mishapVars

Check(r) ==
  /\ At(r, "redeeming")
  /\ AS!Check(r)
  /\ Becomes(r, IF asReq'[r].pc = "mint" THEN "redeeming" ELSE "registered")
  /\ NodeIdle /\ UNCHANGED mishapVars

Mint(r, lost) ==
  /\ At(r, "redeeming")
  /\ AS!Token(r)
  /\ Becomes(r, IF lost THEN "registered" ELSE "ready")
  /\ IF lost THEN Mishap(TRUE) ELSE UNCHANGED mishapVars
  /\ NodeIdle

---------------------------------------------------------------------------
(* The realm's validator.                                                  *)

Kid(b) == {tokens[i].kid : i \in {j \in DOMAIN tokens : tokens[j].code = b}}

\* Somebody in the realm presents a token with a kid that is not cached: the
\* one published key replaces the cached one, and older tokens are void.
EdgeRefetch ==
  /\ AS!Refetch(AS!Published)
  /\ valid' = {b \in valid : Kid(b) \subseteq {kid}}
  /\ UNCHANGED <<entries, byBearer, sessions, ent, conn, req, evidence, closed>>
  /\ UNCHANGED <<frontVars, cfg, status, cl, mishapVars>>

\* The validator knows the token's key, or has just asked for it.
Settled(b) == Kid(b) \subseteq {jwks.kid} \/ jwks = AS!Published

\* The bearers on their way to the edge, in probes, builds and reconnects.
ProbedBy(r) ==
  IF req[r].pc = "probe" THEN {req[r].bearer}
  ELSE IF req[r].pc = "build" /\ ent[req[r].entry].build = "new"
       THEN {ent[req[r].entry].latest} ELSE {}

Redialled(e) == IF conn[e].state \in {"down", "denied"} THEN {ent[e].latest} ELSE {}

Presented == UNION {ProbedBy(r) : r \in Requests} \cup UNION {Redialled(e) : e \in Entries}

---------------------------------------------------------------------------
(* Requests with a token, and what the client makes of the answers.        *)

\* A step of the node on r's behalf that the client does not see.
Behind(r, step) ==
  /\ At(r, "asking")
  /\ step
  /\ UNCHANGED <<cfg, status, cl, mishapVars>> /\ ASIdle

\* A step that ends in an answer.
Answers(r, step, place, sid) ==
  /\ At(r, "asking")
  /\ step
  /\ cl' = [cl EXCEPT ![r].at = place, ![r].sid = sid]
  /\ UNCHANGED <<cfg, status, mishapVars>> /\ ASIdle

Ask(r) ==
  /\ At(r, "ready")
  /\ Enter(r, cl[r].code, cl[r].sid)
  /\ Becomes(r, "asking")
  /\ UNCHANGED <<cfg, status, mishapVars>> /\ ASIdle

NextSid == CHOOSE s \in Sids : life[s] = "unused"

\* The SDK, past its guard.
Inner(r) ==
  /\ DisableLocalhostProtection
  /\ \/ Behind(r, RunSession(r))
     \/ Behind(r, \E s \in Sids : OpenSession(r, s) /\ s = NextSid)
     \/ Answers(r, TurnAway(r), "ready", NoSid)

\* A call that fails on a dead server makes its person connect again: the
\* SDK holds on to a server that the pool has shut down.
Call(r) ==
  Answers(r, AnswerRun(r), "ready",
          IF Alive(front[r].server) THEN cl[r].sid ELSE NoSid)

\* On a 401 the client signs in again under the client id that it has.
Serve(r) ==
  \/ /\ \A b \in ProbedBy(r) : Settled(b)
     /\ Behind(r, PoolStep(Handle(r)))
  \/ Behind(r, HandOver(r))
  \/ Answers(r, Unauthorized(r), "registered", cl[r].sid)
  \/ Inner(r)
  \/ Answers(r, Record(r), "ready", front[r].sid)
  \/ Call(r)

---------------------------------------------------------------------------
(* What goes wrong.                                                        *)

\* The process is killed and started again with the same configuration:
\* everything in memory is gone, and who waits for an answer gets an error.
Crash ==
  /\ status = "serving"
  /\ Mishap(FALSE)
  /\ entries'  = [k \in Keys |-> NoEntry]
  /\ byBearer' = [b \in Bearers |-> NoEntry]
  /\ sessions' = [s \in Sids |-> NoEntry]
  /\ ent'   = [e \in Entries |-> BlankEntry]
  /\ conn'  = [e \in Entries |-> Offline("none")]
  /\ req'   = [r \in Requests |-> IdleRequest]
  /\ sdk'   = [s \in Sids |-> NoEntry]
  /\ front' = [r \in Requests |-> AtDoor]
  /\ life'  = [s \in Sids |-> IF life[s] = "unused" THEN "unused" ELSE "loose"]
  /\ cl'    = [r \in Requests |->
                IF cl[r].at # "asking" THEN cl[r]
                ELSE [cl[r] EXCEPT !.at = IF cl[r].code = NoBearer THEN "cold" ELSE "ready"]]
  /\ UNCHANGED <<realm, closed, public, cfg, status>> /\ ASIdle

\* The SDK gives a session up on its own (it may, at any moment).
LoseSession(s) ==
  /\ Mishap(FALSE)
  /\ EndSession(s)
  /\ UNCHANGED <<cfg, status, cl>> /\ ASIdle

\* The link to the realm breaks while connect is still at work on it: the
\* build fails, and the request is refused although its token is good.
LoseLink(e) ==
  /\ Mishap(TRUE)
  /\ ent[e].build = "building" /\ PoolStep(Drop(e))
  /\ UNCHANGED <<cfg, status, cl>> /\ ASIdle

\* The token expires, or the identity plane revokes it.
Void(b) ==
  /\ Mishap(TRUE)
  /\ Kid(b) # {} /\ PoolStep(Revoke(b))
  /\ UNCHANGED <<cfg, status, cl>> /\ ASIdle

RotateKey ==
  /\ Mishap(TRUE)
  /\ AS!Rotate
  /\ NodeIdle /\ UNCHANGED cl

\* Nobody redeems the code within two minutes.
ExpireCode(b) ==
  /\ Mishap(TRUE)
  /\ codes[b] # AS!NoAuth /\ AS!Expire(b)
  /\ NodeIdle /\ UNCHANGED cl

GoWrong ==
  \/ Crash \/ RotateKey
  \/ \E s \in Sids : LoseSession(s)
  \/ \E e \in Entries : LoseLink(e)
  \/ \E b \in Bearers : Void(b) \/ ExpireCode(b)
  \/ \E r \in Requests : Store(r, TRUE) \/ Mint(r, TRUE)

---------------------------------------------------------------------------

HostedInit ==
  /\ NodeInit
  /\ \E d \in Deployments : Boot(d)
  /\ AS!Init
  /\ cl = [r \in Requests |-> Newcomer]
  /\ mishaps = 0 /\ spoiled = FALSE

SignUp(r) ==
  \/ Challenge(r) \/ AskBare(r) \/ Forbidden(r)
  \/ serveMetadata(r) \/ discovery(r) \/ Register(r)
  \/ Authorize(r) \/ Lookup(r) \/ Store(r, FALSE)
  \/ Redeem(r) \/ Check(r) \/ Mint(r, FALSE)

Advance(r) == SignUp(r) \/ Ask(r) \/ Serve(r)

\* The TTL of the connection's own JWT, and nats.go's reconnects.
Link(e) ==
  /\ \/ ent[e].build = "done" /\ PoolStep(Drop(e))
     \/ (\A b \in Redialled(e) : Settled(b)) /\ PoolStep(Reconnect(e))
  /\ UNCHANGED <<cfg, status, cl, mishapVars>> /\ ASIdle

Unreachable == {e \in Garbage : ~HeldBySDK(e)}

Sweep(e) ==
  /\ e \in Unreachable
  /\ PoolStep(Collect(e))
  /\ UNCHANGED <<cfg, status, cl, mishapVars>> /\ ASIdle

Proceed ==
  \/ \E r \in Requests : Advance(r)
  \/ \E e \in Entries : Link(e)
  \/ EdgeRefetch
  \/ GoWrong

HostedNext ==
  \/ \E e \in Entries : Sweep(e)
  \/ Unreachable = {} /\ Proceed /\ InOrder

\* A client and whoever works for it take their next step; the validator
\* fetches the key it is asked about; garbage is collected.  Nothing is
\* assumed of tokens, keys, links or TTLs.
HostedFairness ==
  /\ \A r \in Requests : WF_hostedVars(Advance(r))
  /\ WF_hostedVars((\E b \in Presented : ~Settled(b)) /\ EdgeRefetch)
  /\ \A e \in Entries : WF_hostedVars(Sweep(e))

HostedSpec == HostedInit /\ [][HostedNext]_hostedVars /\ HostedFairness

---------------------------------------------------------------------------
(* Properties.                                                             *)

Places == {"cold", "challenged", "advised", "discovered", "registered", "signing",
           "coded", "redeeming", "ready", "asking", "lost"}

\* Type correctness of the composition; a client that waits for an answer is
\* a request in flight, and one that signs in is at the server or has a code.
HostedTypeOK ==
  /\ NodeTypeOK
  /\ AS!TypeOK
  /\ cl \in [Requests -> [at : Places, code : Bearers \cup {NoBearer},
                          sid : Sids \cup {NoSid}]]
  /\ status \in {"serving", "refused"}
  /\ mishaps \in 0..MaxMishaps /\ spoiled \in BOOLEAN
  /\ \A r \in Requests :
       /\ cl[r].at = "asking" <=> req[r].pc # "idle" \/ front[r].at # "door"
       /\ cl[r].at \in {"signing", "redeeming"} <=> asReq[r].pc # "idle"

\* "Restart is free" (node.go:49-51, doc.go:7-9): whenever the process is
\* killed, and whatever sessions the SDK forgets, nobody has to sign in a
\* second time for it.  Only a lost answer, a void token, a rotated key, an
\* expired code or a broken link makes a client do that.
RestartIsFree ==
  ~spoiled => \A b, c \in Bearers :
    issued[b] # AS!NoAuth /\ issued[c] # AS!NoAuth
      /\ issued[b].clientID = issued[c].clientID => b = c

\* The client's call runs, on a server that is not shut down, as its person.
Participates(r) ==
  /\ front[r].at = "run"
  /\ Alive(front[r].server)
  /\ ent[front[r].server].principal = Person[r]


============================================================================
