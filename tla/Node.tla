------------------------------- MODULE Node -------------------------------
(***************************************************************************)
(* The HTTP front of node.go around the pool: ServeHTTP, the hand-over to  *)
(* the SDK's streamable handler, and sessionCapture.                       *)
(*                                                                         *)
(* The SDK is external.  As node.go uses it, it looks a session id up in a *)
(* table of its own and runs the request on the mcp.Server that session    *)
(* was opened with; without a session id it asks serverFor for a server,   *)
(* opens a session under an id it mints, and writes the id on the          *)
(* response.  Minted ids are unique, and a client knows only ids it got.   *)
(***************************************************************************)
EXTENDS Pool

CONSTANT PublicModes    \* the values that cfg.PublicURL # "" may have

ASSUME ModesAreBoolean == PublicModes \subseteq BOOLEAN

VARIABLES
  public,  \* ServeHTTP's public: cfg.PublicURL # ""
  sdk,     \* the SDK's table: session id -> the entry whose server it runs on
  front,   \* per request: where in ServeHTTP's hand-over it is
  life     \* history: what became of a session id

frontVars == <<public, sdk, front, life>>
nodeVars  == <<vars, frontVars>>

\* "inner": in the SDK without a resolve; "run": executing on a server.
AtDoor == [at |-> "door", sid |-> NoSid, server |-> NoEntry]

\* A session binding that the pool drops or changes is never restored.
Loosened(l, before, after) ==
  [s \in Sids |-> IF l[s] = "bound" /\ before[s] # after[s] THEN "loose" ELSE l[s]]

PoolStep(step) ==
  /\ step
  /\ life' = Loosened(life, sessions, sessions')
  /\ UNCHANGED <<public, sdk, front>>

---------------------------------------------------------------------------
(* ServeHTTP.                                                              *)

Told(sid) == sid # NoSid => life[sid] \in {"bound", "loose"}

\* A request with a bearer goes to resolve.
Enter(r, b, sid) ==
  /\ front[r].at = "door"
  /\ Told(sid)
  /\ PoolStep(Arrive(r, b, sid))

\* Without a bearer, local mode hands it to the SDK as it is; public mode
\* answers 401 and changes nothing.
EnterBare(r, sid) ==
  /\ ~public
  /\ req[r].pc = "idle" /\ front[r].at = "door"
  /\ Told(sid)
  /\ front' = [front EXCEPT ![r].at = "inner", ![r].sid = sid]
  /\ UNCHANGED <<vars, public, sdk, life>>

\* Faulty: a refusal falls through in public mode too.
MayHandOverAnyway(r) ==
  /\ front[r].at = "door"
  /\ req[r].pc \in {"served", "refused", "mismatched"}

\* Refusals answer 401 in public mode, and fall through in local mode.
MayHandOver(r) ==
  /\ front[r].at = "door"
  /\ \/ req[r].pc = "served"
     \/ ~public /\ req[r].pc \in {"refused", "mismatched"}

\* Faulty: a session that the SDK has lost is answered like a bad token.
UnauthorizedOnLostSession(r) ==
  /\ public
  /\ \/ req[r].pc \in {"refused", "mismatched"}
     \/ req[r].pc = "served" /\ front[r].at = "door"
        /\ req[r].sid # NoSid /\ sdk[req[r].sid] = NoEntry
  /\ PoolStep(Reply(r))

Unauthorized(r) ==
  /\ public
  /\ req[r].pc \in {"refused", "mismatched"}
  /\ PoolStep(Reply(r))

HandOver(r) ==
  /\ MayHandOver(r)
  /\ front' = [front EXCEPT ![r].at = "inner", ![r].sid = req[r].sid]
  /\ UNCHANGED <<vars, public, sdk, life>>

---------------------------------------------------------------------------
(* The SDK's handler, and the pool hooks it calls.                         *)

\* Faulty: looks the server up by the unverified hint.
serverForHint(b) ==
  IF b = NoBearer \/ entries[routeHint(b)] = NoEntry THEN NoEntry
  ELSE IF Alive(entries[routeHint(b)]) /\ "server" \in ent[entries[routeHint(b)]].wired
       THEN entries[routeHint(b)] ELSE NoEntry

\* serverFor: read-only; nil unless the bearer's entry is live and wired.
serverFor(b) ==
  IF b = NoBearer \/ byBearer[b] = NoEntry THEN NoEntry
  ELSE IF Alive(byBearer[b]) /\ "server" \in ent[byBearer[b]].wired
       THEN byBearer[b] ELSE NoEntry

\* Faulty: an id the SDK does not know is run as well.
RunSessionUnchecked(r) ==
  LET s == front[r].sid
  IN  /\ front[r].at = "inner"
      /\ s # NoSid
      /\ front' = [front EXCEPT ![r].at = "run", ![r].server = sdk[s]]
      /\ UNCHANGED <<vars, public, sdk, life>>

\* A known session id: the session's own server runs the request.
RunSession(r) ==
  LET s == front[r].sid
  IN  /\ front[r].at = "inner"
      /\ s # NoSid /\ sdk[s] # NoEntry
      /\ front' = [front EXCEPT ![r].at = "run", ![r].server = sdk[s]]
      /\ UNCHANGED <<vars, public, sdk, life>>

\* The response of a request that resolved, or of one that did not.
Answer(r) ==
  /\ IF req[r].pc = "idle" THEN UNCHANGED vars ELSE Reply(r)
  /\ front' = [front EXCEPT ![r] = AtDoor]

\* 404 on an unknown session id, 400 when serverFor has no server.
TurnAway(r) ==
  /\ front[r].at = "inner"
  /\ IF front[r].sid # NoSid THEN sdk[front[r].sid] = NoEntry
     ELSE serverFor(req[r].bearer) = NoEntry
  /\ Answer(r)
  /\ UNCHANGED <<public, sdk, life>>

\* No session id: a session is opened on serverFor's server.
OpenSession(r, s) ==
  LET e == serverFor(req[r].bearer)
  IN  /\ front[r].at = "inner"
      /\ front[r].sid = NoSid
      /\ e # NoEntry
      /\ life[s] = "unused"
      /\ sdk' = [sdk EXCEPT ![s] = e]
      /\ life' = [life EXCEPT ![s] = "opened"]
      /\ front' = [front EXCEPT ![r] = [at |-> "opened", sid |-> s, server |-> e]]
      /\ UNCHANGED <<vars, public>>

\* sessionCapture on the first header write: bindSession, for the entry that
\* resolve returned.
Record(r) ==
  /\ front[r].at = "opened"
  /\ req[r].pc = "served"
  /\ Capture(r, front[r].sid)
  /\ life' = [life EXCEPT ![front[r].sid] = "bound"]
  /\ front' = [front EXCEPT ![r] = AtDoor]
  /\ UNCHANGED <<public, sdk>>

\* A fall-through response is not wrapped: nobody records its session.
AnswerUnrecorded(r) ==
  /\ front[r].at = "opened"
  /\ req[r].pc # "served"
  /\ Answer(r)
  /\ life' = [life EXCEPT ![front[r].sid] = "loose"]
  /\ UNCHANGED <<public, sdk>>

AnswerRun(r) ==
  /\ front[r].at = "run"
  /\ Answer(r)
  /\ UNCHANGED <<public, sdk, life>>

\* The client deletes the session, or the SDK gives it up.
EndSession(s) ==
  /\ sdk[s] # NoEntry
  /\ sdk' = [sdk EXCEPT ![s] = NoEntry]
  /\ UNCHANGED <<vars, public, front, life>>

\* A server the SDK still holds keeps its entry: keyringFor is bound to it.
HeldBySDK(e) ==
  \/ \E s \in Sids : sdk[s] = e
  \/ \E r \in Requests : front[r].server = e

---------------------------------------------------------------------------

NodeInit ==
  /\ Init
  /\ public \in PublicModes
  /\ sdk   = [s \in Sids |-> NoEntry]
  /\ front = [r \in Requests |-> AtDoor]
  /\ life  = [s \in Sids |-> "unused"]

FrontStep(r) ==
  \/ \E sid \in Sids \cup {NoSid} : EnterBare(r, sid)
  \/ HandOver(r) \/ Unauthorized(r) \/ RunSession(r) \/ TurnAway(r)
  \/ \E s \in Sids : OpenSession(r, s)
  \/ Record(r) \/ AnswerUnrecorded(r) \/ AnswerRun(r)

NodeNext ==
  \/ \E r \in Requests, b \in Bearers, sid \in Sids \cup {NoSid} : Enter(r, b, sid)
  \/ \E r \in Requests : PoolStep(Handle(r))
  \/ \E r \in Requests : FrontStep(r)
  \/ \E b \in Bearers : PoolStep(Revoke(b))
  \/ \E e \in Entries : PoolStep(Drop(e) \/ Reconnect(e))
  \/ \E e \in Entries : ~HeldBySDK(e) /\ PoolStep(Collect(e))
  \/ PoolStep(Close)
  \/ \E s \in Sids : EndSession(s)

NodeSpec == NodeInit /\ [][NodeNext]_nodeVars

---------------------------------------------------------------------------

Running(r) == front[r].at \in {"run", "opened"}

\* Type correctness of the front's own state, on top of the pool's; exactly
\* the requests that run have a server to run on.
NodeTypeOK ==
  /\ TypeOK
  /\ public \in BOOLEAN
  /\ sdk \in [Sids -> Entries \cup {NoEntry}]
  /\ front \in [Requests -> [at : {"door", "inner", "run", "opened"},
                             sid : Sids \cup {NoSid}, server : Entries \cup {NoEntry}]]
  /\ life \in [Sids -> {"unused", "opened", "bound", "loose"}]
  /\ \A r \in Requests : Running(r) <=> front[r].server # NoEntry

RunsAsSelf(r) ==
  /\ req[r].bearer # NoBearer
  /\ Proven(req[r].bearer, front[r].server)

\* From the moment the SDK opens a session until the pool drops its binding,
\* what resolve granted runs on it for the session's own principal only
\* (pool.go:25-28, node.go:81-86), although the SDK picks the server by
\* session id and the pool by bearer, each at a moment of its own.  Public
\* mode runs nothing else; local mode also runs what was not granted.
SessionIsolation ==
  \A r \in Requests :
    /\ Running(r) /\ req[r].pc = "served"
    /\ life[front[r].sid] \in {"opened", "bound"}
    => RunsAsSelf(r)

\* Two lookups make a session: resolve picks the entry that is bound to the
\* id, serverFor the one whose server runs it (node.go:39, 84).  Whatever is
\* evicted or rebuilt between them, both belong to the same principal.
LookupsAgree ==
  \A s \in Sids :
    life[s] = "bound" /\ sdk[s] # NoEntry =>
      ent[sdk[s]].principal = ent[sessions[s]].principal

\* A session is opened only on a server of the bearer that asks for one, even
\* when the request was refused, or was read as no session's, and fell
\* through to the SDK (node.go:69-79, pool.go:303-305).
FreshSessionsAreOwn ==
  \A r \in Requests : front[r].at = "opened" => RunsAsSelf(r)

\* In public mode the SDK runs nothing that resolve has not granted, on an
\* admission by the realm (node.go:54-56, 73-77).
PublicRunsAreAdmitted ==
  public => \A r \in Requests :
    Running(r) => req[r].pc = "served" /\ req[r].bearer \in evidence

---------------------------------------------------------------------------
(* What a comment of the repository says, and the code does not quite do. *)

\* pool.go:25-28: a session's principal is never served another's request;
\* pool.go:136: "the session is bound to its entry for life".
AlwaysAsSelf == \A r \in Requests : Running(r) => RunsAsSelf(r)

============================================================================
