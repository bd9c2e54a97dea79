------------------------------- MODULE Pool -------------------------------
(***************************************************************************)
(* The admission pool of pool.go: one handler goroutine per HTTP request   *)
(* resolves a bearer (and an optional MCP session id) to the pooled entry  *)
(* that may serve it.                                                      *)
(*                                                                         *)
(* One step is one critical section under p.mu, one network round trip, or *)
(* one unsynchronised access to an entry's fields.  connect() publishes    *)
(* nc, persona/account and server without holding p.mu and the candidate   *)
(* comparison reads them without any lock, so each publication is a step   *)
(* and the order of the three is left open.                                *)
(*                                                                         *)
(* The realm's admission edge (NATS auth callout), nats.go's reconnect     *)
(* loop and Go's garbage collector are external: they appear as the        *)
(* pool uses them.                                                         *)
(***************************************************************************)
EXTENDS Naturals, Sequences, FiniteSets

CONSTANTS
  Bearers,      \* bearer tokens a client may present
  Principals,   \* <account, persona> pairs the realm may admit
  Requests,     \* concurrent HTTP handler goroutines
  Entries,      \* identities of *entry objects (bound: how many at a time)
  Sids,         \* MCP session ids
  NoBearer, NoEntry, NoSid, Nobody,
  PrincipalOf,  \* whom the admission edge admits a bearer as, or Nobody
  Shape,        \* what routeHint can see of a bearer, without verifying it
  Revocable,    \* bound: the bearers that may be revoked
  Flaky,        \* may realm calls fail for reasons other than the bearer?
  Closable      \* bound: may Node.Close be called, at any moment?

ASSUME NullsAreNotValues ==
  /\ NoBearer \notin Bearers
  /\ NoEntry \notin Entries
  /\ NoSid \notin Sids
  /\ Nobody \notin Principals

ASSUME ConstantsAreTyped ==
  /\ PrincipalOf \in [Bearers -> Principals \cup {Nobody}]
  /\ Revocable \subseteq Bearers
  /\ Flaky \in BOOLEAN
  /\ Closable \in BOOLEAN

VARIABLES
  entries,   \* pool.entries:  routing key -> entry
  byBearer,  \* pool.byBearer: admitted bearer -> entry
  sessions,  \* pool.sessions: MCP session id -> entry
  ent,       \* the entry objects' fields
  conn,      \* the NATS connection connect() opened for an entry
  req,       \* the handlers' program counters and locals
  valid,     \* bearers the admission edge would admit now
  evidence,  \* history: bearers the admission edge has ever admitted
  closed     \* Node.Close has run

index == <<entries, byBearer, sessions>>
realm == <<valid, evidence>>
vars  == <<entries, byBearer, sessions, ent, conn, req, valid, evidence, closed>>

---------------------------------------------------------------------------
(* Routing keys.                                                           *)

\* A bearer that parses as a JWT routes by its unverified issuer and oid
\* (sub when oid is empty); everything else routes by the token itself.
routeHint(b) ==
  LET t == Shape[b]
  IN  IF t.eyJ /\ t.parts = 3 /\ t.decodes
      THEN <<"oidc", t.iss, IF t.oid = "" THEN t.sub ELSE t.oid>>
      ELSE <<"tok", b>>

principalKey(p) == <<"pri", p>>

Keys  == {routeHint(b) : b \in Bearers} \cup {principalKey(p) : p \in Principals}
NoKey == <<>>

---------------------------------------------------------------------------
(* Entries, connections and requests.                                      *)

Keep == 2     \* const keep in admitLocked

BlankEntry ==
  [key |-> NoKey, latest |-> NoBearer, build |-> "free", failed |-> FALSE,
   wired |-> {}, principal |-> Nobody, admitted |-> <<>>]

newEntry(k, b) == [BlankEntry EXCEPT !.key = k, !.latest = b, !.build = "new"]

\* A connection's badge is the bearer the edge admitted it on, while it is up.
UpAs(b)     == [state |-> "up", badge |-> b]
Offline(st) == [state |-> st, badge |-> NoBearer]

\* A handler's locals are cleared where the code no longer reads them.
IdleRequest ==
  [pc |-> "idle", bearer |-> NoBearer, sid |-> NoSid, entry |-> NoEntry,
   via |-> "none", who |-> Nobody]

\* A visible persona/account is never empty: principalFromAllows refuses
\* an empty part, so Nobody is exactly "not published yet".
Published(e) == ent[e].principal # Nobody

\* Two faulty readings of aliveLocked: one never asks IsClosed, the other
\* takes an entry that is still being built for a corpse.
AliveUnlessFailed(e) == ~ent[e].failed
AliveOnceWired(e) == ~ent[e].failed /\ "nc" \in ent[e].wired /\ conn[e].state # "closed"

\* aliveLocked: no build error, and no visible connection that is closed.
Alive(e) == ~ent[e].failed /\ ("nc" \in ent[e].wired => conn[e].state # "closed")

Corpses(E) == {e \in E \ {NoEntry} : ~Alive(e)}

AdmittedTo(e) == {ent[e].admitted[i] : i \in 1..Len(ent[e].admitted)}

\* Handler r moves on; the request's own bearer and session id never change.
Goto(r, pc, e, via, who) ==
  req' = [req EXCEPT ![r] =
            [@ EXCEPT !.pc = pc, !.entry = e, !.via = via, !.who = who]]

\* The verdicts: entry e, or no entry.
Grant(r, e, pc) == Goto(r, pc, e, "none", Nobody)
Refuse(r)       == Goto(r, "refused", NoEntry, "none", Nobody)

\* A faulty one that trusts the unverified hint once the entry is built.
sameLatestOrBuilt(e, b) == ent[e].latest = b \/ ent[e].build = "done"

sameLatest(e, b) == ent[e].latest = b

---------------------------------------------------------------------------
(* Locked helpers: what the three indexes hold after evicting the set D,   *)
(* binding a session, or admitting a bearer.                               *)

EntriesWithout(D) ==
  [k \in Keys |-> IF entries[k] \in D /\ ent[entries[k]].key = k
                  THEN NoEntry ELSE entries[k]]

BearersWithout(D) ==
  [b \in Bearers |-> IF byBearer[b] \in D /\ b \in AdmittedTo(byBearer[b])
                     THEN NoEntry ELSE byBearer[b]]

SessionsWithout(D) ==
  [s \in Sids |-> IF sessions[s] \in D THEN NoEntry ELSE sessions[s]]

\* shutdown closes a connection only through the published fields.
Shutdown(D) ==
  conn' = [e \in Entries |-> IF e \in D /\ "nc" \in ent[e].wired
                             THEN Offline("closed") ELSE conn[e]]

evictLocked(D) ==
  /\ entries'  = EntriesWithout(D)
  /\ byBearer' = BearersWithout(D)
  /\ sessions' = SessionsWithout(D)
  /\ Shutdown(D)

\* Faulty: the last binding wins.
BindLast(ss, sid, e) == IF sid # NoSid THEN [ss EXCEPT ![sid] = e] ELSE ss

\* bindLocked: the first binding of a session id wins.
Bind(ss, sid, e) ==
  IF sid # NoSid /\ ss[sid] = NoEntry THEN [ss EXCEPT ![sid] = e] ELSE ss

\* Faulty: the tail may grow to Keep + 1.
AdmitTailTooLong(s, b) ==
  IF \E i \in 1..Len(s) : s[i] = b THEN s
  ELSE IF Len(s) <= Keep THEN Append(s, b) ELSE Append(Tail(s), b)

\* admitLocked appends, then drops from the front until Keep remain.
AdmitTail(s, b) ==
  IF \E i \in 1..Len(s) : s[i] = b THEN s
  ELSE IF Len(s) < Keep THEN Append(s, b) ELSE Append(Tail(s), b)

\* Faulty: the bearer that ages out stays in byBearer.
admitLockedKeepsIndex(b, e) ==
  /\ ent' = [ent EXCEPT ![e].admitted = AdmitTail(@, b)]
  /\ byBearer' = [byBearer EXCEPT ![b] = IF b \in AdmittedTo(e) THEN @ ELSE e]

\* The bearer that ages out leaves byBearer too, unless another entry has it.
admitLocked(b, e) ==
  LET tail == AdmitTail(ent[e].admitted, b)
      kept == {tail[i] : i \in 1..Len(tail)}
  IN  /\ ent' = [ent EXCEPT ![e].admitted = tail]
      /\ byBearer' = [c \in Bearers |->
           IF c = b /\ b \notin AdmittedTo(e) THEN e
           ELSE IF c \in AdmittedTo(e) \ kept /\ byBearer[c] = e THEN NoEntry
           ELSE byBearer[c]]

---------------------------------------------------------------------------
(* resolve: the first critical section of a request.                       *)

Free == {e \in Entries : ent[e].build = "free"}

\* Faulty: the session id is not consulted.
BoundIgnored(r) == NoEntry

\* The entry the request's session id is bound to.
Bound(r) == IF req[r].sid = NoSid THEN NoEntry ELSE sessions[req[r].sid]

OnLiveSession(r) == Bound(r) # NoEntry /\ Alive(Bound(r))

Known(r) == LET e == byBearer[req[r].bearer] IN e # NoEntry /\ Alive(e)

\* Live bound session, bearer already admitted there: the refresh path.
ResolveBound(r) ==
  /\ req[r].pc = "resolve"
  /\ OnLiveSession(r)
  /\ req[r].bearer \in AdmittedTo(Bound(r))
  /\ Grant(r, Bound(r), "adopt")
  /\ UNCHANGED <<index, ent, conn, realm, closed>>

\* Live bound session, bearer indexed under another entry: refused.
RefuseForeign(r) ==
  /\ req[r].pc = "resolve"
  /\ OnLiveSession(r)
  /\ req[r].bearer \notin AdmittedTo(Bound(r))
  /\ byBearer[req[r].bearer] \notin {NoEntry, Bound(r)}
  /\ Grant(r, Bound(r), "mismatched")
  /\ UNCHANGED <<index, ent, conn, realm, closed>>

\* Live bound session, bearer never seen: candidateForBound probes it.
ResolveFresh(r) ==
  /\ req[r].pc = "resolve"
  /\ OnLiveSession(r)
  /\ req[r].bearer \notin AdmittedTo(Bound(r))
  /\ byBearer[req[r].bearer] \in {NoEntry, Bound(r)}
  /\ Goto(r, "probe", Bound(r), "bound", Nobody)
  /\ UNCHANGED <<index, ent, conn, realm, closed>>

\* No live session: an already-admitted bearer goes straight to its entry.
ResolveKnown(r) ==
  LET e == byBearer[req[r].bearer]
      D == Corpses({Bound(r)})
  IN  /\ req[r].pc = "resolve"
      /\ ~OnLiveSession(r)
      /\ Known(r)
      /\ entries'  = EntriesWithout(D)
      /\ byBearer' = BearersWithout(D)
      /\ sessions' = Bind(SessionsWithout(D), req[r].sid, e)
      /\ Shutdown(D)
      /\ Grant(r, e, "adopt")
      /\ UNCHANGED <<ent, realm, closed>>

\* The corpses the hint route meets and evicts on its way.
Touched(r) ==
  Corpses({Bound(r), byBearer[req[r].bearer], entries[routeHint(req[r].bearer)]})

ByHint(r) == req[r].pc = "resolve" /\ ~OnLiveSession(r) /\ ~Known(r)

\* A live entry on the hint: build it (same bearer) or probe the bearer.
RouteExisting(r) ==
  LET b == req[r].bearer
      e == entries[routeHint(b)]
  IN  /\ ByHint(r)
      /\ e # NoEntry /\ Alive(e)
      /\ evictLocked(Touched(r))
      /\ Goto(r, IF sameLatest(e, b) THEN "build" ELSE "probe", e, "hint", Nobody)
      /\ UNCHANGED <<ent, realm, closed>>

\* First sight of the hint, or a corpse on it: a new entry, built by b.
RouteNew(r, e) ==
  LET b == req[r].bearer
      h == routeHint(b)
      D == Touched(r)
  IN  /\ ByHint(r)
      /\ entries[h] # NoEntry => ~Alive(entries[h])
      /\ e \in Free
      /\ entries'  = [EntriesWithout(D) EXCEPT ![h] = e]
      /\ byBearer' = BearersWithout(D)
      /\ sessions' = SessionsWithout(D)
      /\ Shutdown(D)
      /\ ent' = [ent EXCEPT ![e] = newEntry(h, b)]
      /\ Goto(r, "build", e, "hint", Nobody)
      /\ UNCHANGED <<realm, closed>>

---------------------------------------------------------------------------
(* probe, candidate, candidateForBound and ensurePrincipal.                *)

\* The short-lived connection is admitted: the server names the principal.
ProbeAdmitted(r) ==
  /\ req[r].pc = "probe"
  /\ req[r].bearer \in valid
  /\ Goto(r, "compare", req[r].entry, req[r].via, PrincipalOf[req[r].bearer])
  /\ evidence' = evidence \cup {req[r].bearer}
  /\ UNCHANGED <<index, ent, conn, valid, closed>>

ProbeRefused(r) ==
  /\ req[r].pc = "probe"
  /\ req[r].bearer \in valid => Flaky
  /\ Refuse(r)
  /\ UNCHANGED <<index, ent, conn, realm, closed>>

\* Faulty: an entry without a principal yet matches anybody.
MatchesOrUnpublished(r) ==
  ent[req[r].entry].principal \in {Nobody, req[r].who}

\* Faulty: a session's own request is not compared.
MatchesOrBound(r) ==
  req[r].via = "bound" \/ req[r].who = ent[req[r].entry].principal

\* persona == e.persona && account == e.account, read without a lock.
Matches(r) == req[r].who = ent[req[r].entry].principal

\* Proven the same principal: admit under the lock; candidate also binds.
AdmitCandidate(r) ==
  LET e == req[r].entry
  IN  /\ req[r].pc = "compare"
      /\ Matches(r)
      /\ admitLocked(req[r].bearer, e)
      /\ sessions' = IF req[r].via = "bound" THEN sessions
                     ELSE Bind(sessions, req[r].sid, e)
      /\ Grant(r, e, "adopt")
      /\ UNCHANGED <<entries, conn, realm, closed>>

\* candidateForBound: another principal on an established session.
RefuseCandidate(r) ==
  /\ req[r].pc = "compare"
  /\ req[r].via = "bound"
  /\ ~Matches(r)
  /\ Grant(r, req[r].entry, "mismatched")
  /\ UNCHANGED <<index, ent, conn, realm, closed>>

\* candidate: a colliding or forged hint, or an entry not published yet.
DivertCandidate(r) ==
  /\ req[r].pc = "compare"
  /\ req[r].via = "hint"
  /\ ~Matches(r)
  /\ Goto(r, "ensure", NoEntry, "none", req[r].who)
  /\ UNCHANGED <<index, ent, conn, realm, closed>>

EnsureExisting(r) ==
  LET own == entries[principalKey(req[r].who)]
  IN  /\ req[r].pc = "ensure"
      /\ own # NoEntry /\ Alive(own)
      /\ Goto(r, "build", own, "pri", Nobody)
      /\ UNCHANGED <<index, ent, conn, realm, closed>>

EnsureNew(r, e) ==
  LET k   == principalKey(req[r].who)
      D   == Corpses({entries[k]})
  IN  /\ req[r].pc = "ensure"
      /\ entries[k] # NoEntry => ~Alive(entries[k])
      /\ e \in Free
      /\ entries'  = [EntriesWithout(D) EXCEPT ![k] = e]
      /\ byBearer' = BearersWithout(D)
      /\ sessions' = SessionsWithout(D)
      /\ Shutdown(D)
      /\ ent' = [ent EXCEPT ![e] = newEntry(k, req[r].bearer)]
      /\ Goto(r, "build", e, "pri", Nobody)
      /\ UNCHANGED <<realm, closed>>

---------------------------------------------------------------------------
(* build.Do(connect): the first caller runs connect, the others wait.      *)

\* nats.Connect presents latest and is admitted.
Dial(r) ==
  LET e == req[r].entry
  IN  /\ req[r].pc = "build"
      /\ ent[e].build = "new"
      /\ ent[e].latest \in valid
      /\ ent' = [ent EXCEPT ![e].build = "building"]
      /\ conn' = [conn EXCEPT ![e] = UpAs(ent[e].latest)]
      /\ evidence' = evidence \cup {ent[e].latest}
      /\ Goto(r, "identify", e, req[r].via, Nobody)
      /\ UNCHANGED <<index, valid, closed>>

DialRefused(r) ==
  LET e == req[r].entry
  IN  /\ req[r].pc = "build"
      /\ ent[e].build = "new"
      /\ ent[e].latest \in valid => Flaky
      /\ ent' = [ent EXCEPT ![e] = [@ EXCEPT !.build = "done", !.failed = TRUE]]
      /\ UNCHANGED <<index, conn, req, realm, closed>>

\* principalOf, the signer, the realm client and the stream check succeed.
Identify(r) ==
  LET e == req[r].entry
  IN  /\ req[r].pc = "identify"
      /\ conn[e].state = "up"
      /\ Goto(r, "wire", e, req[r].via, PrincipalOf[conn[e].badge])
      /\ UNCHANGED <<index, ent, conn, realm, closed>>

\* Faulty: connect waits for a lost connection instead of timing out.
SetupFailedWithoutTimeout(r) ==
  LET e == req[r].entry
  IN  /\ req[r].pc = "identify"
      /\ conn[e].state = "up" /\ Flaky
      /\ conn' = [conn EXCEPT ![e] = Offline("closed")]
      /\ ent' = [ent EXCEPT ![e] = [@ EXCEPT !.build = "done", !.failed = TRUE]]
      /\ Goto(r, "build", e, req[r].via, Nobody)
      /\ UNCHANGED <<index, realm, closed>>

\* One of them fails: the local connection is closed, nothing is published.
SetupFailed(r) ==
  LET e == req[r].entry
  IN  /\ req[r].pc = "identify"
      /\ conn[e].state = "up" => Flaky
      /\ conn' = [conn EXCEPT ![e] = Offline("closed")]
      /\ ent' = [ent EXCEPT ![e] = [@ EXCEPT !.build = "done", !.failed = TRUE]]
      /\ Goto(r, "build", e, req[r].via, Nobody)
      /\ UNCHANGED <<index, realm, closed>>

\* e.nc, e.rc, e.persona, e.account = ... and e.server = ...: unsynchronised
\* writes, which another goroutine may see in any order.
Wire(r) ==
  LET e == req[r].entry
  IN  /\ req[r].pc = "wire"
      /\ \/ \E f \in {"nc", "server"} \ ent[e].wired :
              ent' = [ent EXCEPT ![e].wired = @ \cup {f}]
         \/ /\ ~Published(e)
            /\ ent' = [ent EXCEPT ![e].principal = req[r].who]
      /\ UNCHANGED <<index, conn, req, realm, closed>>

Built(r) ==
  LET e == req[r].entry
  IN  /\ req[r].pc = "wire"
      /\ ent[e].wired = {"nc", "server"}
      /\ Published(e)
      /\ ent' = [ent EXCEPT ![e].build = "done"]
      /\ Goto(r, "build", e, req[r].via, Nobody)
      /\ UNCHANGED <<index, conn, realm, closed>>

\* build.Do returned without error: admit and bind; only the entry found
\* through ensurePrincipal also adopts the bearer.
AdmitBuilt(r) ==
  LET e == req[r].entry
  IN  /\ req[r].pc = "build"
      /\ ent[e].build = "done" /\ ~ent[e].failed
      /\ admitLocked(req[r].bearer, e)
      /\ sessions' = Bind(sessions, req[r].sid, e)
      /\ Grant(r, e, IF req[r].via = "pri" THEN "adopt" ELSE "served")
      /\ UNCHANGED <<entries, conn, realm, closed>>

\* Faulty: the corpse is left for the next touch.
RefuseBuiltKeepsCorpse(r) ==
  LET e == req[r].entry
  IN  /\ req[r].pc = "build"
      /\ ent[e].build = "done" /\ ent[e].failed
      /\ Refuse(r)
      /\ UNCHANGED <<index, conn, ent, realm, closed>>

\* build.Do returned an error: evict the corpse, refuse the request.
RefuseBuilt(r) ==
  LET e == req[r].entry
  IN  /\ req[r].pc = "build"
      /\ ent[e].build = "done" /\ ent[e].failed
      /\ evictLocked({e})
      /\ Refuse(r)
      /\ UNCHANGED <<ent, realm, closed>>

\* adopt: outside the lock, after the admission.
Adopt(r) ==
  /\ req[r].pc = "adopt"
  /\ ent' = [ent EXCEPT ![req[r].entry].latest = req[r].bearer]
  /\ Grant(r, req[r].entry, "served")
  /\ UNCHANGED <<index, conn, realm, closed>>

---------------------------------------------------------------------------
(* The rest of the world: clients, the front's reply, the realm, nats.go.  *)

Arrive(r, b, sid) ==
  /\ req[r].pc = "idle"
  /\ ~closed
  /\ req' = [req EXCEPT ![r] =
               [IdleRequest EXCEPT !.pc = "resolve", !.bearer = b, !.sid = sid]]
  /\ UNCHANGED <<index, ent, conn, realm, closed>>

\* The initialize response of a served request carries a fresh session id,
\* which bindSession records before the client can read it.
Capture(r, sid) ==
  /\ req[r].pc = "served"
  /\ req[r].sid = NoSid
  /\ sessions[sid] = NoEntry
  /\ sessions' = Bind(sessions, sid, req[r].entry)
  /\ req' = [req EXCEPT ![r] = IdleRequest]
  /\ UNCHANGED <<entries, byBearer, ent, conn, realm, closed>>

Reply(r) ==
  /\ req[r].pc \in {"served", "refused", "mismatched"}
  /\ req' = [req EXCEPT ![r] = IdleRequest]
  /\ UNCHANGED <<index, ent, conn, realm, closed>>

Revoke(b) ==
  /\ b \in valid \cap Revocable
  /\ valid' = valid \ {b}
  /\ UNCHANGED <<index, ent, conn, req, evidence, closed>>

\* The minted JWT's TTL elapses, or the network drops the connection.
Drop(e) ==
  /\ conn[e].state = "up"
  /\ conn' = [conn EXCEPT ![e] = Offline("down")]
  /\ UNCHANGED <<index, ent, req, realm, closed>>

\* nats.go reconnects: the TokenHandler presents latest; a second
\* authorization violation in a row closes the connection for good.
Reconnect(e) ==
  LET b == ent[e].latest
  IN  /\ conn[e].state \in {"down", "denied"}
      /\ conn' = [conn EXCEPT ![e] =
           IF b \in valid THEN UpAs(b)
           ELSE IF @.state = "down" THEN Offline("denied")
           ELSE Offline("closed")]
      /\ evidence' = IF b \in valid THEN evidence \cup {b} ELSE evidence
      /\ UNCHANGED <<index, ent, req, valid, closed>>

InFlight == {r \in Requests : req[r].pc # "idle"}

\* Faulty: forgets the entries that live under principal aliases.
PooledUnderHints == {entries[routeHint(b)] : b \in Bearers} \ {NoEntry}

Pooled == {entries[k] : k \in Keys} \ {NoEntry}

\* pool.close: shut down what the key index reaches, then forget everything.
Close ==
  /\ Closable /\ ~closed
  /\ Shutdown(Pooled)
  /\ entries'  = [k \in Keys |-> NoEntry]
  /\ byBearer' = [b \in Bearers |-> NoEntry]
  /\ sessions' = [s \in Sids |-> NoEntry]
  /\ closed' = TRUE
  /\ UNCHANGED <<ent, req, realm>>

Referenced(e) ==
  \/ \E k \in Keys : entries[k] = e
  \/ \E b \in Bearers : byBearer[b] = e
  \/ \E s \in Sids : sessions[s] = e
  \/ \E r \in Requests : req[r].entry = e

\* Go's collector: an entry nothing points at, without a running
\* connection, is gone, and its identity may name a later entry.
Garbage ==
  {e \in Entries \ Free : conn[e].state \in {"none", "closed"} /\ ~Referenced(e)}

Collect(e) ==
  /\ e \in Garbage
  /\ ent' = [ent EXCEPT ![e] = BlankEntry]
  /\ conn' = [conn EXCEPT ![e] = Offline("none")]
  /\ UNCHANGED <<index, req, realm, closed>>

---------------------------------------------------------------------------

Init ==
  /\ entries  = [k \in Keys |-> NoEntry]
  /\ byBearer = [b \in Bearers |-> NoEntry]
  /\ sessions = [s \in Sids |-> NoEntry]
  /\ ent   = [e \in Entries |-> BlankEntry]
  /\ conn  = [e \in Entries |-> Offline("none")]
  /\ req   = [r \in Requests |-> IdleRequest]
  /\ valid = {b \in Bearers : PrincipalOf[b] # Nobody}
  /\ evidence = {}
  /\ closed = FALSE

Resolve(r) ==
  \/ ResolveBound(r) \/ RefuseForeign(r) \/ ResolveFresh(r) \/ ResolveKnown(r)
  \/ RouteExisting(r) \/ \E e \in Entries : RouteNew(r, e)

Candidate(r) ==
  \/ ProbeAdmitted(r) \/ ProbeRefused(r)
  \/ AdmitCandidate(r) \/ RefuseCandidate(r) \/ DivertCandidate(r)
  \/ EnsureExisting(r) \/ \E e \in Entries : EnsureNew(r, e)

Build(r) ==
  \/ Dial(r) \/ DialRefused(r) \/ Identify(r) \/ SetupFailed(r)
  \/ Wire(r) \/ Built(r) \/ AdmitBuilt(r) \/ RefuseBuilt(r)

\* Everything a handler does between the request's arrival and its verdict.
Handle(r) == Resolve(r) \/ Candidate(r) \/ Build(r) \/ Adopt(r)

Work ==
  \/ \E r \in Requests, b \in Bearers, sid \in Sids \cup {NoSid} : Arrive(r, b, sid)
  \/ \E r \in Requests : Handle(r)
  \/ \E r \in Requests, sid \in Sids : Capture(r, sid)
  \/ \E r \in Requests : Reply(r)
  \/ \E b \in Bearers : Revoke(b)
  \/ \E e \in Entries : Drop(e) \/ Reconnect(e)
  \/ Close

Next == Work \/ \E e \in Entries : Collect(e)

Spec == Init /\ [][Next]_vars

\* Free identities are all alike: a new entry takes the one that CHOOSE picks.
InOrder == \A e \in Free : e \in Free' \/ e = CHOOSE f \in Free : TRUE

\* For liveness garbage is collected before anything else happens: Collect
\* commutes with every other step, and the bound on Entries never starves a
\* handler that needs a fresh entry.
PromptNext ==
  \/ \E e \in Entries : Collect(e)
  \/ Garbage = {} /\ Work /\ InOrder

\* A goroutine that can run does run, and the client reads its answer; TTLs
\* elapse; nats.go keeps reconnecting (MaxReconnects(-1)).
Fairness ==
  /\ \A r \in Requests : WF_vars(Handle(r)) /\ WF_vars(Reply(r))
  /\ \A e \in Entries : WF_vars(Collect(e)) /\ WF_vars(Drop(e) \/ Reconnect(e))

FairSpec == Init /\ [][PromptNext]_vars /\ Fairness

---------------------------------------------------------------------------
(* Properties.                                                             *)

PCs == {"idle", "resolve", "probe", "compare", "ensure", "build", "identify",
        "wire", "adopt", "served", "refused", "mismatched"}

EntryType ==
  [key : Keys \cup {NoKey}, latest : Bearers \cup {NoBearer},
   build : {"free", "new", "building", "done"}, failed : BOOLEAN,
   wired : SUBSET {"nc", "server"}, principal : Principals \cup {Nobody},
   admitted : Seq(Bearers)]

ConnType ==
  [state : {"none", "up", "down", "denied", "closed"}, badge : Bearers \cup {NoBearer}]

RequestType ==
  [pc : PCs, bearer : Bearers \cup {NoBearer}, sid : Sids \cup {NoSid},
   entry : Entries \cup {NoEntry}, via : {"none", "bound", "hint", "pri"},
   who : Principals \cup {Nobody}]

\* Type correctness, with the bound of admitLocked: an entry remembers at
\* most keep = 2 admitted bearers (pool.go:400-407).
TypeOK ==
  /\ entries  \in [Keys -> Entries \cup {NoEntry}]
  /\ byBearer \in [Bearers -> Entries \cup {NoEntry}]
  /\ sessions \in [Sids -> Entries \cup {NoEntry}]
  /\ ent  \in [Entries -> EntryType]
  /\ \A e \in Entries : Len(ent[e].admitted) <= Keep
  /\ conn \in [Entries -> ConnType]
  /\ req  \in [Requests -> RequestType]
  /\ valid \subseteq Bearers
  /\ evidence \subseteq Bearers
  /\ closed \in BOOLEAN

\* A bearer proven for entry e: the edge has admitted it, as e's principal.
Proven(b, e) ==
  /\ b \in evidence
  /\ PrincipalOf[b] = ent[e].principal

\* The trust rule (FR-005, pool.go:31-34): whatever an entry holds that is
\* shaped like trust - the bearer its connection presents next, its admitted
\* tail, the badge it is connected on, its place in byBearer - was admitted
\* for that entry's own principal, however probes, builds and adoptions of
\* different handlers interleave.
TrustRule ==
  /\ \A e \in Entries : Published(e) =>
       /\ Proven(ent[e].latest, e)
       /\ conn[e].state = "up" => Proven(conn[e].badge, e)
  /\ \A e \in Entries : \A b \in AdmittedTo(e) : Published(e) /\ Proven(b, e)
  /\ \A b \in Bearers : byBearer[b] # NoEntry => Proven(b, byBearer[b])

\* The indexes agree with the entry's own record of itself, so that
\* evictLocked, which walks e.keys and e.admitted only (pool.go:361-371),
\* removes every pointer to a corpse.
IndexConsistent ==
  /\ \A k \in Keys : entries[k] # NoEntry => ent[entries[k]].key = k
  /\ \A b \in Bearers : byBearer[b] # NoEntry => b \in AdmittedTo(byBearer[b])

\* Every open connection of the pool is reachable through the key index, the
\* only place pool.close looks (pool.go:328): no eviction or second build
\* loses a connection that still reconnects for ever in the background.
EveryConnectionReachable ==
  ~closed => \A e \in Entries :
    conn[e].state \in {"up", "down", "denied"} => \E k \in Keys : entries[k] = e

\* A handler that got an entry got one of its own bearer's principal, and the
\* edge has admitted that bearer (resolve's contract, pool.go:129-131).
ServedAsSelf ==
  \A r \in Requests : req[r].pc = "served" => Proven(req[r].bearer, req[r].entry)

\* Refusals are not sticky (pool.go:168): once no request is in flight, no
\* index leads to an entry whose build failed.
FailureLeavesNoScar ==
  InFlight = {} =>
    \A e \in Entries : ent[e].failed =>
      /\ \A k \in Keys : entries[k] # e
      /\ \A b \in Bearers : byBearer[b] # e
      /\ \A s \in Sids : sessions[s] # e

\* A session stays with the entry that admitted it for as long as that entry
\* lives (pool.go:135-136): no other bearer's request rebinds it.
SessionSticks ==
  [][\A s \in Sids :
       sessions[s] # NoEntry /\ Alive(sessions[s]) /\ ~closed'
         => sessions'[s] = sessions[s]]_vars

\* Node.Close "drains the pool: every pooled connection" (node.go:50).  Close
\* looks at what the key index reaches only (pool.go:328); whatever requests
\* are in flight, no connection that has become visible to another goroutine
\* stays open.  A build that is not yet visible is all that escapes it.
CloseDrains ==
  [][~closed /\ closed' =>
       \A e \in Entries : "nc" \in ent[e].wired => conn'[e].state = "closed"]_vars

\* Hints route and nothing else (FR-004, FR-005, pool.go:31-34, 88-90): a
\* request whose bearer nobody admits, on whatever hint and session id it
\* comes, takes nothing from a live entry, be it its fields, its connection or
\* its places in the indexes (the forged hint of pool_test.go:113-150).
HintsOnlyRoute ==
  [][\A r \in Requests :
       /\ req[r].pc # "idle" /\ PrincipalOf[req[r].bearer] = Nobody
       /\ Handle(r)
       => \A e \in Entries : Published(e) /\ Alive(e) =>
            /\ ent'[e] = ent[e] /\ conn'[e] = conn[e]
            /\ \A k \in Keys : entries[k] = e => entries'[k] = e
            /\ \A b \in Bearers : byBearer[b] = e => byBearer'[b] = e
            /\ \A s \in Sids : sessions[s] = e <=> sessions'[s] = e]_vars

\* Every request is answered, granted or refused, whatever the realm, the
\* other handlers and the connections do meanwhile: nobody waits for ever on
\* another handler's build.Do.
EveryRequestAnswered ==
  \A r \in Requests :
    req[r].pc = "resolve" ~> req[r].pc \in {"served", "refused", "mismatched"}

\* Once every bearer of a principal is revoked, the pool eventually stops
\* serving that principal: the connection dies at its TTL, the reconnects are
\* refused, and the corpse is replaced by a build that is refused too.
RevocationLands ==
  \A p \in Principals :
    (\A b \in valid : PrincipalOf[b] # p) ~>
      [](\A r \in Requests : req[r].pc = "served" => PrincipalOf[req[r].bearer] # p)

---------------------------------------------------------------------------
(* What the repository says, and the code does not quite do.               *)

\* pool.go:25-26: a request is refused as a mismatch when its bearer "admits
\* as a DIFFERENT principal" than the session's.
MismatchIsReal ==
  \A r \in Requests : req[r].pc = "mismatched" =>
    PrincipalOf[req[r].bearer] # ent[req[r].entry].principal

\* refresh_test.go:58-60: a revoked token "refuses once the admission window
\* elapses".
RevokedTokenRefused ==
  \A b \in Bearers :
    b \notin valid ~> [](\A r \in Requests : req[r].pc = "served" => req[r].bearer # b)

============================================================================
