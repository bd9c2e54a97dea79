----------------------------- MODULE PoolLife -----------------------------
(***************************************************************************)
(* The life of an entry and of its connection, and what a step of the pool *)
(* may never do, proved for any realm and any number of handlers.          *)
(*                                                                         *)
(* LifeInv joins the invariant behind the trust rule: an entry is built by *)
(* one handler; until it is closed its connection is reachable through the *)
(* key index; a failed entry stays indexed only while some handler is on   *)
(* its way to evict it.                                                    *)
(***************************************************************************)
EXTENDS PoolProofs, PoolDoor

---------------------------------------------------------------------------
(* The inductive invariant.                                                *)

\* Inside connect.
AtWork == {"identify", "wire"}

Open == {"up", "down", "denied"}

Keyed(e) == \E k \in Keys : entries[k] = e

Indexed(e) ==
  Keyed(e) \/ (\E b \in Bearers : byBearer[b] = e) \/ (\E s \in Sids : sessions[s] = e)

\* A connection comes with the build, a failed build leaves none open and
\* publishes no principal, and nc is published only once it is set.
EntryLife(e) ==
  /\ ent[e].build \in {"free", "new"} =>
       ~ent[e].failed /\ ent[e].wired = {} /\ ~Published(e) /\ conn[e].state = "none"
  /\ ent[e].failed =>
       ent[e].build = "done" /\ ~Published(e) /\ conn[e].state \in {"none", "closed"}
  /\ "nc" \in ent[e].wired => conn[e].state # "none"

\* What pool.close would shut down, or what will become that.
Reachable(e) ==
  ~closed /\ (ent[e].build = "new" \/ conn[e].state \in Open) => Keyed(e)

\* Some handler is about to evict a failed entry.
OnItsWayOut(e) ==
  ent[e].failed /\ Indexed(e) => \E r \in Requests : req[r].pc = "build" /\ req[r].entry = e

\* The handler inside build.Do.
BuilderKnows(r) ==
  LET e == req[r].entry
  IN  req[r].pc \in AtWork =>
        /\ ent[e].build = "building" /\ conn[e].state # "none"
        /\ req[r].pc = "identify" => ~Published(e)

OneBuilder ==
  \A r, s \in Requests :
    req[r].pc \in AtWork /\ req[s].pc \in AtWork /\ req[r].entry = req[s].entry => r = s

LifeInv ==
  /\ \A e \in Entries : EntryLife(e) /\ Reachable(e) /\ OnItsWayOut(e)
  /\ \A r \in Requests : BuilderKnows(r)
  /\ OneBuilder

---------------------------------------------------------------------------
(* Sessions stay.                                                          *)

\* An eviction unbinds only what it evicts.
LEMMA EvictionSpares ==
  ASSUME NEW X, NEW s \in Sids, sessions[s] \notin X
  PROVE  SessionsWithout(X)[s] = sessions[s]
BY DEF SessionsWithout

\* bindLocked never replaces a binding (pool.go:356-359).
LEMMA BindSpares ==
  ASSUME NEW ss, NEW sid, NEW e, NEW s \in Sids, ss[s] # NoEntry,
         ss = [t \in Sids |-> ss[t]]
  PROVE  Bind(ss, sid, e)[s] = ss[s]
BY DEF Bind

\* Only corpses are evicted by resolve and ensurePrincipal.
LEMMA CorpsesAreDead == ASSUME NEW E, NEW e \in Corpses(E) PROVE ~Alive(e)
BY DEF Corpses

\* A handler leaves a session on its entry while the entry lives.
LEMMA HandlerKeepsSession ==
  ASSUME IInv, NEW r \in Requests, Handle(r), NEW s \in Sids,
         sessions[s] # NoEntry, Alive(sessions[s])
  PROVE  sessions'[s] = sessions[s]
<1>0. sessions = [t \in Sids |-> sessions[t]]
  BY DEF IInv, TypeOK
<1>1. ASSUME NEW E PROVE SessionsWithout(Corpses(E))[s] = sessions[s]
  BY CorpsesAreDead, EvictionSpares
<1>2. CASE Resolve(r)
  <2>1. CASE ResolveBound(r) \/ RefuseForeign(r) \/ ResolveFresh(r)
    BY <2>1 DEF ResolveBound, RefuseForeign, ResolveFresh, index
  <2>2. CASE ResolveKnown(r)
    <3> DEFINE ss == SessionsWithout(Corpses({Bound(r)}))
    <3>1. sessions' = Bind(ss, req[r].sid, byBearer[req[r].bearer])
      BY <2>2 DEF ResolveKnown
    <3>2. ss[s] = sessions[s] /\ ss = [t \in Sids |-> ss[t]]
      BY <1>1 DEF SessionsWithout
    <3> HIDE DEF ss
    <3> QED BY <3>1, <3>2, BindSpares
  <2>3. CASE RouteExisting(r) \/ \E e \in Entries : RouteNew(r, e)
    <3>1. sessions' = SessionsWithout(Touched(r))
      BY <2>3 DEF RouteExisting, RouteNew, evictLocked
    <3> QED BY <1>1, <3>1 DEF Touched
  <2> QED BY <1>2, <2>1, <2>2, <2>3 DEF Resolve
<1>3. CASE Candidate(r)
  <2>1. CASE \/ ProbeAdmitted(r) \/ ProbeRefused(r) \/ RefuseCandidate(r)
             \/ DivertCandidate(r) \/ EnsureExisting(r)
    BY <2>1 DEF ProbeAdmitted, ProbeRefused, RefuseCandidate, DivertCandidate,
       EnsureExisting, index
  <2>2. CASE AdmitCandidate(r)
    <3>1. sessions' = sessions \/ sessions' = Bind(sessions, req[r].sid, req[r].entry)
      BY <2>2 DEF AdmitCandidate
    <3> QED BY <1>0, <3>1, BindSpares
  <2>3. ASSUME NEW e \in Entries, EnsureNew(r, e) PROVE sessions'[s] = sessions[s]
    BY <1>1, <2>3 DEF EnsureNew
  <2> QED BY <1>3, <2>1, <2>2, <2>3 DEF Candidate
<1>4. CASE Build(r)
  <2>1. CASE \/ Dial(r) \/ DialRefused(r) \/ Identify(r) \/ SetupFailed(r)
             \/ Wire(r) \/ Built(r)
    BY <2>1 DEF Dial, DialRefused, Identify, SetupFailed, Wire, Built, index
  <2>2. CASE AdmitBuilt(r)
    <3>1. sessions' = Bind(sessions, req[r].sid, req[r].entry)
      BY <2>2 DEF AdmitBuilt
    <3> QED BY <1>0, <3>1, BindSpares
  <2>3. CASE RefuseBuilt(r)
    <3>1. sessions' = SessionsWithout({req[r].entry}) /\ ~Alive(req[r].entry)
      BY <2>3 DEF RefuseBuilt, evictLocked, Alive
    <3>2. sessions[s] \notin {req[r].entry}
      BY <3>1
    <3> QED BY <3>1, <3>2, EvictionSpares
  <2> QED BY <1>4, <2>1, <2>2, <2>3 DEF Build
<1>5. CASE Adopt(r)
  BY <1>5 DEF Adopt, index
<1> QED BY <1>2, <1>3, <1>4, <1>5 DEF Handle

\* So does every other step, unless the pool is closed.
LEMMA StepKeepsSession ==
  ASSUME IInv, Next, NEW s \in Sids, sessions[s] # NoEntry, Alive(sessions[s]), ~closed'
  PROVE  sessions'[s] = sessions[s]
<1>0. sessions = [t \in Sids |-> sessions[t]]
  BY DEF IInv, TypeOK
<1>1. ASSUME NEW r \in Requests, Handle(r) PROVE sessions'[s] = sessions[s]
  BY <1>1, HandlerKeepsSession
<1>2. ASSUME NEW r \in Requests, NEW sid \in Sids, Capture(r, sid)
      PROVE  sessions'[s] = sessions[s]
  BY <1>0, <1>2, BindSpares DEF Capture
<1>3. CASE Close
  BY <1>3 DEF Close
<1>4. ASSUME \/ \E r \in Requests, b \in Bearers, sid \in Sids \cup {NoSid} : Arrive(r, b, sid)
             \/ \E r \in Requests : Reply(r)
             \/ \E b \in Bearers : Revoke(b)
             \/ \E e \in Entries : Drop(e) \/ Reconnect(e) \/ Collect(e)
      PROVE  UNCHANGED sessions
  BY <1>4, Zenon DEF Arrive, Reply, Revoke, Drop, Reconnect, Collect, index
<1> QED BY <1>1, <1>2, <1>3, <1>4, Zenon DEF Next, Work

\* For any clients and any realm, a session stays with the entry that admitted
\* it for as long as that entry lives (pool.go:135-136): no refusal, rebinding
\* request, eviction or collection moves it.
THEOREM SessionSticksHolds == Spec => SessionSticks
<1>1. IInv /\ [Next]_vars =>
        [\A s \in Sids :
           sessions[s] # NoEntry /\ Alive(sessions[s]) /\ ~closed'
             => sessions'[s] = sessions[s]]_vars
  BY StepKeepsSession DEF vars
<1> QED BY <1>1, InvariantHolds, PTL DEF Spec, SessionSticks

---------------------------------------------------------------------------
(* Hints only route.                                                       *)

\* Nothing is taken from entry e, nor given to it.
LeftAlone(e) ==
  /\ ent'[e] = ent[e] /\ conn'[e] = conn[e]
  /\ \A k \in Keys : entries[k] = e => entries'[k] = e
  /\ \A b \in Bearers : byBearer[b] = e => byBearer'[b] = e
  /\ \A s \in Sids : sessions[s] = e <=> sessions'[s] = e

\* A step that changes neither the indexes nor the entries.
LEMMA StillnessLeavesAlone ==
  ASSUME UNCHANGED <<index, ent, conn>>, NEW e PROVE LeftAlone(e)
BY DEF LeftAlone, index

\* Evicting others.
LEMMA EvictionLeavesAlone ==
  ASSUME NEW X, NEW e \in Entries, e \notin X, UNCHANGED ent,
         entries' = EntriesWithout(X), byBearer' = BearersWithout(X),
         sessions' = SessionsWithout(X), Shutdown(X)
  PROVE  LeftAlone(e)
BY NullsAreNotValues
   DEF LeftAlone, EntriesWithout, BearersWithout, SessionsWithout, Shutdown

\* What is known of a handler whose bearer the edge admits as nobody: it has
\* proven nothing, so it is routing, probing, or building what nobody else
\* has built.
LEMMA ForgerKnowsNothing ==
  ASSUME IInv, NEW r \in Requests, req[r].pc # "idle", PrincipalOf[req[r].bearer] = Nobody
  PROVE  /\ req[r].bearer \in Bearers /\ req[r].bearer \notin valid \cup evidence
         /\ byBearer[req[r].bearer] = NoEntry
         /\ \A e \in Entries : req[r].bearer \notin AdmittedTo(e)
         /\ req[r].pc \notin {"compare", "ensure", "identify", "wire", "adopt", "served"}
         /\ req[r].pc = "build" => req[r].entry \in Entries /\ ~Published(req[r].entry)
<1> DEFINE b == req[r].bearer
<1>1. b \in Bearers /\ b \notin valid \cup evidence
  BY DEF IInv, LocalsSet, EdgeNamesPrincipals
<1>2. \A e \in Entries : b \notin AdmittedTo(e)
  BY <1>1 DEF IInv, EntryTrust, Proven
<1>3. byBearer[b] = NoEntry
  BY <1>1, <1>2 DEF IInv, TypeOK, IndexConsistent
<1>4. req[r].pc \notin {"compare", "ensure", "adopt", "served"}
  BY <1>1 DEF IInv, RequestTrust, Proven
<1>5. req[r].pc \in Building =>
        /\ req[r].entry \in Entries /\ ~Published(req[r].entry)
        /\ ent[req[r].entry].latest = b
  BY <1>1 DEF IInv, LocalsSet, RequestTrust, Proven, Building, Holding
<1>6. req[r].pc \notin {"identify", "wire"}
  BY <1>1, <1>5 DEF IInv, RequestTrust, Building
<1> QED BY <1>1, <1>2, <1>3, <1>4, <1>5, <1>6 DEF Building

\* Such a handler leaves every entry alone that somebody lives on.
LEMMA ForgerLeavesAlone ==
  ASSUME IInv, NEW r \in Requests, req[r].pc # "idle", PrincipalOf[req[r].bearer] = Nobody,
         Handle(r), NEW e \in Entries, Published(e), Alive(e)
  PROVE  LeftAlone(e)
<1> DEFINE b == req[r].bearer
<1>1. /\ b \in Bearers /\ b \notin valid \cup evidence
      /\ byBearer[b] = NoEntry
      /\ \A f \in Entries : b \notin AdmittedTo(f)
      /\ req[r].pc \notin {"compare", "ensure", "identify", "wire", "adopt", "served"}
      /\ req[r].pc = "build" => req[r].entry \in Entries /\ ~Published(req[r].entry)
  BY ForgerKnowsNothing
<1>2. ent[e].build # "free"
  BY InUse
<1>3. CASE Resolve(r)
  <2>1. CASE ResolveBound(r)
    BY <1>1, <2>1, HandlerTypes DEF ResolveBound, OnLiveSession
  <2>2. CASE RefuseForeign(r) \/ ResolveFresh(r)
    BY <2>2, StillnessLeavesAlone DEF RefuseForeign, ResolveFresh
  <2>3. CASE ResolveKnown(r)
    BY <1>1, <2>3 DEF ResolveKnown, Known
  <2>4. e \notin Touched(r)
    BY CorpsesAreDead DEF Touched
  <2>5. CASE RouteExisting(r)
    BY <2>4, <2>5, EvictionLeavesAlone DEF RouteExisting, evictLocked
  <2>6. ASSUME NEW f \in Entries, RouteNew(r, f) PROVE LeftAlone(e)
    <3> DEFINE h == routeHint(b)
               X == Touched(r)
    <3>1. /\ entries[h] # NoEntry => ~Alive(entries[h])
          /\ ent[f].build = "free"
          /\ entries' = [EntriesWithout(X) EXCEPT ![h] = f]
          /\ byBearer' = BearersWithout(X) /\ sessions' = SessionsWithout(X) /\ Shutdown(X)
          /\ ent' = [ent EXCEPT ![f] = newEntry(h, b)]
      BY <2>6 DEF RouteNew, Free
    <3>2. f # e /\ ent'[e] = ent[e]
      BY <1>2, <3>1 DEF IInv, TypeOK
    <3>3. entries[h] # e
      BY <3>1, NullsAreNotValues
    <3> HIDE DEF X, h
    <3>4. \A k \in Keys : entries[k] = e => entries'[k] = e
      BY <2>4, <3>1, <3>3 DEF EntriesWithout, X
    <3>5. /\ \A c \in Bearers : byBearer[c] = e => byBearer'[c] = e
          /\ \A s \in Sids : sessions[s] = e <=> sessions'[s] = e
      BY <2>4, <3>1, NullsAreNotValues DEF BearersWithout, SessionsWithout, X
    <3>6. conn'[e] = conn[e]
      BY <2>4, <3>1 DEF Shutdown, X
    <3> QED BY <3>2, <3>4, <3>5, <3>6 DEF LeftAlone
  <2> QED BY <1>3, <2>1, <2>2, <2>3, <2>5, <2>6 DEF Resolve
<1>4. CASE Candidate(r)
  <2>1. ProbeAdmitted(r) \/ ProbeRefused(r)
    BY <1>1, <1>4 DEF Candidate, AdmitCandidate, RefuseCandidate, DivertCandidate,
       EnsureExisting, EnsureNew
  <2> QED BY <2>1, StillnessLeavesAlone DEF ProbeAdmitted, ProbeRefused, index, realm
<1>5. CASE Build(r)
  <2> DEFINE f == req[r].entry
  <2>1. Dial(r) \/ DialRefused(r) \/ AdmitBuilt(r) \/ RefuseBuilt(r)
    BY <1>1, <1>5 DEF Build, Identify, SetupFailed, Wire, Built
  <2>2. req[r].pc = "build" /\ f \in Entries /\ ~Published(f) /\ f # e
    BY <1>1, <2>1 DEF Dial, DialRefused, AdmitBuilt, RefuseBuilt
  <2>3. CASE Dial(r) \/ DialRefused(r)
    <3>1. UNCHANGED index /\ ent'[e] = ent[e] /\ conn'[e] = conn[e]
      BY <2>2, <2>3 DEF Dial, DialRefused, IInv, TypeOK
    <3> QED BY <3>1 DEF LeftAlone, index
  <2>4. CASE AdmitBuilt(r)
    BY <2>2, <2>4 DEF AdmitBuilt, IInv, EntryTrust
  <2>5. CASE RefuseBuilt(r)
    <3>1. e \notin {f}
      BY <2>2
    <3> QED BY <2>5, <3>1, EvictionLeavesAlone DEF RefuseBuilt, evictLocked
  <2> QED BY <2>1, <2>3, <2>4, <2>5
<1>6. CASE Adopt(r)
  BY <1>1, <1>6 DEF Adopt
<1> QED BY <1>3, <1>4, <1>5, <1>6 DEF Handle

\* Hints route and nothing else (FR-004, FR-005, pool.go:31-34, 88-90): in any
\* realm, on any hint and session id, a bearer that nobody admits takes
\* nothing from an entry that somebody lives on.
THEOREM HintsOnlyRouteHolds == Spec => HintsOnlyRoute
<1>1. ASSUME IInv, NEW r \in Requests, req[r].pc # "idle",
             PrincipalOf[req[r].bearer] = Nobody, Handle(r)
      PROVE  \A e \in Entries : Published(e) /\ Alive(e) =>
               /\ ent'[e] = ent[e] /\ conn'[e] = conn[e]
               /\ \A k \in Keys : entries[k] = e => entries'[k] = e
               /\ \A b \in Bearers : byBearer[b] = e => byBearer'[b] = e
               /\ \A s \in Sids : sessions[s] = e <=> sessions'[s] = e
  BY <1>1, ForgerLeavesAlone DEF LeftAlone
<1>2. IInv /\ [Next]_vars =>
        [\A r \in Requests :
           /\ req[r].pc # "idle" /\ PrincipalOf[req[r].bearer] = Nobody
           /\ Handle(r)
           => \A e \in Entries : Published(e) /\ Alive(e) =>
                /\ ent'[e] = ent[e] /\ conn'[e] = conn[e]
                /\ \A k \in Keys : entries[k] = e => entries'[k] = e
                /\ \A b \in Bearers : byBearer[b] = e => byBearer'[b] = e
                /\ \A s \in Sids : sessions[s] = e <=> sessions'[s] = e]_vars
  BY <1>1, Zenon
<1> QED BY <1>2, InvariantHolds, PTL DEF Spec, HintsOnlyRoute

---------------------------------------------------------------------------
(* The pool implements the door.                                           *)

\* A handler between its arrival and its verdict.
Asking == PCs \ {"idle", "served", "refused", "mismatched"}

\* The door as the pool shows it.
Shown == [r \in Requests |-> AskOf(r)]

\* What the door tells apart.
Stages == {"none", "asked", "served", "denied"}

Asks == [state : Stages, bearer : Bearers \cup {NoBearer}, as : Principals \cup {Nobody}]

\* What is shown of a request.
LEMMA AskType == ASSUME IInv PROVE Shown \in [Requests -> Asks]
<1> SUFFICES ASSUME NEW r \in Requests PROVE AskOf(r) \in Asks
  BY DEF Shown
<1> DEFINE st == CASE req[r].pc = "idle" -> "none"
                   [] req[r].pc = "served" -> "served"
                   [] req[r].pc \in {"refused", "mismatched"} -> "denied"
                   [] OTHER -> "asked"
           p == IF req[r].pc = "served" THEN ent[req[r].entry].principal ELSE Nobody
<1>1. AskOf(r) = [state |-> st, bearer |-> req[r].bearer, as |-> p]
  BY DEF AskOf
<1>2. st \in Stages
  BY DEF Stages
<1>3. req[r].bearer \in Bearers \cup {NoBearer}
  BY DEF IInv, TypeOK, RequestType
<1>4. p \in Principals \cup {Nobody}
  BY DEF IInv, TypeOK, EntryType, LocalsSet, Holding
<1> HIDE DEF st, p
<1> QED BY <1>1, <1>2, <1>3, <1>4 DEF Asks

\* An answer changes an ask field by field.
LEMMA AskUpdates ==
  ASSUME IInv, NEW r \in Requests, NEW p \in Principals \cup {Nobody}
  PROVE  /\ [Shown EXCEPT ![r].state = "denied"] =
              [Shown EXCEPT ![r] = [state |-> "denied", bearer |-> Shown[r].bearer,
                                    as |-> Shown[r].as]]
         /\ [Shown EXCEPT ![r].state = "served", ![r].as = p] =
              [Shown EXCEPT ![r] = [state |-> "served", bearer |-> Shown[r].bearer, as |-> p]]
<1> DEFINE one == [Shown[r] EXCEPT !.state = "served"]
           two == [one EXCEPT !.as = p]
           g == [Shown EXCEPT ![r] = one]
<1>1. Shown \in [Requests -> Asks] /\ Shown[r] \in Asks
  BY AskType
<1>2. one = [state |-> "served", bearer |-> Shown[r].bearer, as |-> Shown[r].as]
  BY <1>1 DEF Asks
<1>3. [Shown[r] EXCEPT !.state = "denied"] =
        [state |-> "denied", bearer |-> Shown[r].bearer, as |-> Shown[r].as]
  BY <1>1 DEF Asks
<1>4. [Shown EXCEPT ![r].state = "served"] = g
  OBVIOUS
<1>5. [Shown EXCEPT ![r].state = "served", ![r].as = p] = [g EXCEPT ![r] = [g[r] EXCEPT !.as = p]]
  OBVIOUS
<1> HIDE DEF one
<1>6. two = [state |-> "served", bearer |-> Shown[r].bearer, as |-> p]
  BY <1>2
<1>7. g[r] = one
  BY <1>1
<1>8. [g EXCEPT ![r] = two] = [Shown EXCEPT ![r] = two]
  BY <1>1
<1> QED BY <1>3, <1>5, <1>6, <1>7, <1>8

\* One request shows something else.
LEMMA ShownUpdate ==
  ASSUME NEW r \in Requests, NEW x, AskOf(r)' = x,
         \A q \in Requests \ {r} : AskOf(q)' = AskOf(q)
  PROVE  Shown' = [Shown EXCEPT ![r] = x]
<1>1. Shown' = [q \in Requests |-> IF q = r THEN x ELSE AskOf(q)]
  BY DEF Shown
<1>2. [Shown EXCEPT ![r] = x] = [q \in Requests |-> IF q = r THEN x ELSE AskOf(q)]
  BY DEF Shown
<1> QED BY <1>1, <1>2

\* A request that stands still, served by an entry that keeps its principal,
\* shows what it showed.
LEMMA AskStays ==
  ASSUME NEW r \in Requests, req'[r] = req[r],
         req[r].pc = "served" => ent'[req[r].entry].principal = ent[req[r].entry].principal
  PROVE  AskOf(r)' = AskOf(r)
BY DEF AskOf

\* Served requests are served by somebody.
LEMMA ServersAreVisible ==
  ASSUME IInv, NEW r \in Requests, req[r].pc = "served"
  PROVE  req[r].entry \in Entries /\ Published(req[r].entry)
BY DEF IInv, LocalsSet, RequestTrust, Holding

\* What the edge tells a handler is all that adds to the evidence, and is no
\* verdict; no step of a handler ends its request.
LEMMA HandlerEvidence ==
  ASSUME IInv, NEW r \in Requests, Handle(r)
  PROVE  /\ req'[r].pc # "idle"
         /\ \/ UNCHANGED evidence
            \/ /\ \E b \in valid : evidence' = evidence \cup {b}
               /\ req'[r].pc \in {"compare", "identify"}
<1>0. req \in [Requests -> RequestType]
  BY DEF IInv, TypeOK
<1>1. CASE Resolve(r)
  <2>1. \E pc \in {"adopt", "mismatched", "probe", "build"} : \E e, via, who :
          Goto(r, pc, e, via, who)
    BY <1>1, Zenon DEF Resolve, ResolveBound, RefuseForeign, ResolveFresh, ResolveKnown,
       RouteExisting, RouteNew, Grant
  <2>2. UNCHANGED evidence
    BY <1>1 DEF Resolve, ResolveBound, RefuseForeign, ResolveFresh, ResolveKnown,
       RouteExisting, RouteNew, realm
  <2> QED BY <1>0, <2>1, <2>2, GotoMoves
<1>2. CASE Candidate(r)
  <2>1. CASE ProbeAdmitted(r)
    BY <1>0, <2>1, GotoMoves DEF ProbeAdmitted
  <2>2. CASE ~ProbeAdmitted(r)
    <3>1. \E pc \in {"adopt", "mismatched", "ensure", "refused", "build"} : \E e, via, who :
            Goto(r, pc, e, via, who)
      BY <1>2, <2>2, Zenon DEF Candidate, ProbeRefused, AdmitCandidate, RefuseCandidate,
         DivertCandidate, EnsureExisting, EnsureNew, Grant, Refuse
    <3>2. UNCHANGED evidence
      BY <1>2, <2>2 DEF Candidate, ProbeRefused, AdmitCandidate, RefuseCandidate,
         DivertCandidate, EnsureExisting, EnsureNew, realm
    <3> QED BY <1>0, <3>1, <3>2, GotoMoves
  <2> QED BY <2>1, <2>2
<1>3. CASE Build(r)
  <2>1. CASE Dial(r)
    BY <1>0, <2>1, GotoMoves DEF Dial
  <2>2. CASE DialRefused(r) \/ Wire(r)
    BY <2>2 DEF DialRefused, Wire, realm
  <2>3. CASE Identify(r) \/ SetupFailed(r) \/ Built(r) \/ AdmitBuilt(r) \/ RefuseBuilt(r)
    <3>1. \E pc \in {"adopt", "served", "wire", "refused", "build"} : \E e, via, who :
            Goto(r, pc, e, via, who)
      BY <2>3, Zenon DEF Identify, SetupFailed, Built, AdmitBuilt, RefuseBuilt, Grant, Refuse
    <3>2. UNCHANGED evidence
      BY <2>3 DEF Identify, SetupFailed, Built, AdmitBuilt, RefuseBuilt, realm
    <3> QED BY <1>0, <3>1, <3>2, GotoMoves
  <2> QED BY <1>3, <2>1, <2>2, <2>3 DEF Build
<1>4. CASE Adopt(r)
  BY <1>0, <1>4, GotoMoves DEF Adopt, Grant, realm
<1> QED BY <1>1, <1>2, <1>3, <1>4 DEF Handle

\* The edge admits somebody, and no verdict falls.
LEMMA WitnessOnDoor ==
  ASSUME IInv, NEW b \in valid, evidence' = evidence \cup {b}, Shown' = Shown
  PROVE  D!DoorNext
<1>1. b \in Bearers /\ PrincipalOf[b] # Nobody
  BY DEF IInv, EdgeNamesPrincipals
<1>2. D!Witness(b)
  BY <1>1 DEF D!Witness, Shown
<1> QED BY <1>1, <1>2 DEF D!DoorNext

\* A handler's step is a verdict, an admission, or nothing the door shows.
LEMMA HandlerOnDoor ==
  ASSUME IInv, IInv', NEW r \in Requests, Handle(r)
  PROVE  D!DoorNext \/ UNCHANGED <<evidence, Shown>>
<1>1. /\ req[r].pc \in Asking
      /\ \A q \in Requests \ {r} : req'[q] = req[q]
      /\ req'[r].bearer = req[r].bearer
      /\ req'[r].pc \in PCs \ {"idle"}
  BY HandlerMovesItself, HandlerKeepsSid, HandlerEvidence DEF Asking, IInv, TypeOK, RequestType
<1>2. \A q \in Requests \ {r} : AskOf(q)' = AskOf(q)
  BY <1>1, AskStays, ServersAreVisible, HandlerKeepsPrincipals
<1>3. AskOf(r) = [state |-> "asked", bearer |-> req[r].bearer, as |-> Nobody]
  BY <1>1 DEF AskOf, Asking
<1>4. CASE req'[r].pc \in Asking
  <2>1. AskOf(r)' = AskOf(r)
    BY <1>1, <1>3, <1>4 DEF AskOf, Asking
  <2>2. Shown' = Shown
    BY <1>2, <2>1 DEF Shown
  <2> QED BY <2>2, HandlerEvidence, WitnessOnDoor
<1>5. Shown[r] = [state |-> "asked", bearer |-> req[r].bearer, as |-> Nobody]
  BY <1>3 DEF Shown
<1>6. CASE req'[r].pc \in {"refused", "mismatched"}
  <2>1. UNCHANGED evidence
    BY <1>6, HandlerEvidence
  <2>2. AskOf(r)' = [state |-> "denied", bearer |-> Shown[r].bearer, as |-> Shown[r].as]
    BY <1>1, <1>5, <1>6 DEF AskOf
  <2>3. Shown' = [Shown EXCEPT ![r].state = "denied"]
    <3>1. Shown' = [Shown EXCEPT ![r] = [state |-> "denied", bearer |-> Shown[r].bearer,
                                         as |-> Shown[r].as]]
      BY <1>2, <2>2, ShownUpdate
    <3>2. Nobody \in Principals \cup {Nobody}
      OBVIOUS
    <3>3. [Shown EXCEPT ![r].state = "denied"] =
            [Shown EXCEPT ![r] = [state |-> "denied", bearer |-> Shown[r].bearer,
                                  as |-> Shown[r].as]]
      BY <3>2, AskUpdates, Zenon
    <3> QED BY <3>1, <3>3
  <2>4. Shown[r].state = "asked"
    BY <1>5
  <2>5. D!Deny(r)
    BY <2>1, <2>3, <2>4, Zenon DEF D!Deny, Shown
  <2> QED BY <2>5 DEF D!DoorNext
<1>7. CASE req'[r].pc = "served"
  <2> DEFINE p == PrincipalOf[Shown[r].bearer]
  <2>0. Shown[r].state = "asked" /\ Shown[r].bearer = req[r].bearer
    BY <1>5
  <2>1. UNCHANGED evidence
    BY <1>7, HandlerEvidence
  <2>2. Shown[r].bearer \in evidence /\ ent'[req'[r].entry].principal = p
    BY <1>1, <1>7, <2>0, <2>1 DEF IInv, RequestTrust, Proven
  <2>3. p \in Principals \cup {Nobody}
    BY <2>2, ConstantsAreTyped DEF IInv, TypeOK
  <2>4. AskOf(r)' = [state |-> "served", bearer |-> Shown[r].bearer, as |-> p]
    BY <1>1, <1>7, <2>0, <2>2 DEF AskOf
  <2>5. Shown' = [Shown EXCEPT ![r].state = "served", ![r].as = p]
    <3> HIDE DEF p
    <3>1. Shown' = [Shown EXCEPT ![r] = [state |-> "served", bearer |-> Shown[r].bearer,
                                         as |-> p]]
      BY <1>2, <2>4, ShownUpdate
    <3>3. [Shown EXCEPT ![r].state = "served", ![r].as = p] =
            [Shown EXCEPT ![r] = [state |-> "served", bearer |-> Shown[r].bearer, as |-> p]]
      BY <2>3, AskUpdates, Zenon
    <3> QED BY <3>1, <3>3
  <2>6. D!Serve(r)
    BY <2>0, <2>1, <2>2, <2>5, Zenon DEF D!Serve, Shown
  <2> QED BY <2>6 DEF D!DoorNext
<1> QED BY <1>1, <1>4, <1>6, <1>7 DEF Asking


\* An arrival asks, an answer read or captured is done with.
LEMMA ClientOnDoor ==
  ASSUME IInv, NEW r \in Requests,
         \/ \E b \in Bearers, sid \in Sids \cup {NoSid} : Arrive(r, b, sid)
         \/ \E sid \in Sids : Capture(r, sid)
         \/ Reply(r)
  PROVE  D!DoorNext
<1>1. UNCHANGED <<ent, evidence>>
  BY DEF Arrive, Capture, Reply, realm
<1>2. \A q \in Requests \ {r} : req'[q] = req[q]
  BY DEF Arrive, Capture, Reply, IInv, TypeOK
<1>3. \A q \in Requests \ {r} : AskOf(q)' = AskOf(q)
  BY <1>1, <1>2, AskStays
<1>4. ASSUME NEW b \in Bearers, NEW sid \in Sids \cup {NoSid}, Arrive(r, b, sid)
      PROVE  D!DoorNext
  <2>1. req[r].pc = "idle" /\ req'[r].pc = "resolve" /\ req'[r].bearer = b
    BY <1>4 DEF Arrive, IdleRequest, IInv, TypeOK
  <2>2. Shown[r].state = "none"
    BY <2>1 DEF Shown, AskOf
  <2>3. AskOf(r)' = [state |-> "asked", bearer |-> b, as |-> Nobody]
    BY <2>1 DEF AskOf
  <2>4. Shown' = [Shown EXCEPT ![r] = [state |-> "asked", bearer |-> b, as |-> Nobody]]
    BY <1>3, <2>3, ShownUpdate
  <2>5. [D!NoAsk EXCEPT !.state = "asked", !.bearer = b] =
          [state |-> "asked", bearer |-> b, as |-> Nobody]
    <3> DEFINE one == [D!NoAsk EXCEPT !.state = "asked"]
    <3>1. one = [state |-> "asked", bearer |-> NoBearer, as |-> Nobody]
      BY DEF D!NoAsk
    <3> HIDE DEF one
    <3>2. [one EXCEPT !.bearer = b] = [state |-> "asked", bearer |-> b, as |-> Nobody]
      BY <3>1
    <3> QED BY <3>2 DEF one
  <2>6. D!Ask(r, b)
    BY <1>1, <2>2, <2>4, <2>5, Zenon DEF D!Ask, Shown
  <2> QED BY <2>6 DEF D!DoorNext
<1>5. CASE (\E sid \in Sids : Capture(r, sid)) \/ Reply(r)
  <2>1. req[r].pc \in {"served", "refused", "mismatched"} /\ req'[r] = IdleRequest
    BY <1>5 DEF Capture, Reply, IInv, TypeOK
  <2>2. Shown[r].state \in {"served", "denied"}
    BY <2>1 DEF Shown, AskOf
  <2>3. AskOf(r)' = D!NoAsk
    BY <2>1 DEF AskOf, D!NoAsk, IdleRequest
  <2>4. Shown' = [Shown EXCEPT ![r] = D!NoAsk]
    BY <1>3, <2>3, ShownUpdate
  <2>5. D!Done(r)
    BY <1>1, <2>2, <2>4, Zenon DEF D!Done, Shown
  <2> QED BY <2>5 DEF D!DoorNext
<1> QED BY <1>4, <1>5

\* The realm, the links, Close and the collector decide nothing: a reconnect
\* is one more admission, and who is served keeps the entry from collection.
LEMMA WorldOnDoor ==
  ASSUME IInv,
         \/ \E b \in Bearers : Revoke(b)
         \/ \E e \in Entries : Drop(e) \/ Reconnect(e) \/ Collect(e)
         \/ Close
  PROVE  D!DoorNext \/ UNCHANGED <<evidence, Shown>>
<1>1. UNCHANGED req
  BY DEF Revoke, Drop, Reconnect, Collect, Close
<1>2. \A q \in Requests : req[q].pc = "served" =>
        ent'[req[q].entry].principal = ent[req[q].entry].principal
  <2>1. CASE \E e \in Entries : Collect(e)
    <3>1. PICK e \in Entries : Collect(e)
      BY <2>1
    <3>2. \A q \in Requests : req[q].entry # e
      BY <3>1 DEF Collect, Garbage, Referenced
    <3> QED BY <3>1, <3>2, ServersAreVisible DEF Collect, IInv, TypeOK
  <2>2. CASE ~\E e \in Entries : Collect(e)
    BY <2>2 DEF Revoke, Drop, Reconnect, Close
  <2> QED BY <2>1, <2>2
<1>3. Shown' = Shown
  BY <1>1, <1>2, AskStays DEF Shown
<1>4. UNCHANGED evidence \/ \E b \in valid : evidence' = evidence \cup {b}
  BY DEF Revoke, Drop, Reconnect, Collect, Close, realm
<1> QED BY <1>3, <1>4, WitnessOnDoor

\* Every step of the pool is a step of the door, or the door does not see it.
LEMMA StepOnDoor == IInv /\ IInv' /\ [Next]_vars => D!DoorNext \/ UNCHANGED <<evidence, Shown>>
<1> SUFFICES ASSUME IInv, IInv', [Next]_vars
             PROVE  D!DoorNext \/ UNCHANGED <<evidence, Shown>>
  OBVIOUS
<1>1. ASSUME NEW r \in Requests, Handle(r)
      PROVE  D!DoorNext \/ UNCHANGED <<evidence, Shown>>
  BY <1>1, HandlerOnDoor
<1>2. ASSUME NEW r \in Requests,
             \/ \E b \in Bearers, sid \in Sids \cup {NoSid} : Arrive(r, b, sid)
             \/ \E sid \in Sids : Capture(r, sid)
             \/ Reply(r)
      PROVE  D!DoorNext
  BY <1>2, ClientOnDoor
<1>3. CASE UNCHANGED vars
  <2>1. UNCHANGED <<req, ent, evidence>>
    BY <1>3 DEF vars
  <2> QED BY <2>1, AskStays DEF Shown
<1> QED BY <1>1, <1>2, <1>3, WorldOnDoor, Zenon DEF Next, Work

\* The pool implements the door, for any realm and any number of handlers:
\* a request is answered once, and served only as the principal that the edge
\* had admitted its bearer as (resolve's contract, pool.go:129-131).
THEOREM PoolImplementsDoor == Spec => ImplementsDoor
<1>1. Init => D!DoorInit
  <2> SUFFICES ASSUME Init PROVE D!DoorInit
    OBVIOUS
  <2>1. \A r \in Requests : AskOf(r) = D!NoAsk
    BY DEF Init, AskOf, IdleRequest, D!NoAsk
  <2> QED BY <2>1 DEF D!DoorInit, Init
<1>2. IInv /\ IInv' /\ [Next]_vars => [D!DoorNext]_(D!doorVars)
  BY StepOnDoor DEF D!doorVars, Shown
<1> QED BY <1>1, <1>2, InvariantHolds, PTL DEF Spec, ImplementsDoor, D!DoorSpec

---------------------------------------------------------------------------
(* The life of an entry.                                                   *)

\* A step that the life of e does not notice: the fields stay, and a
\* connection only comes back, goes down, or is closed.
SameLife(e) ==
  /\ ent'[e].build = ent[e].build /\ ent'[e].failed = ent[e].failed
  /\ ent'[e].wired = ent[e].wired /\ ent'[e].principal = ent[e].principal
  /\ \/ conn'[e].state = conn[e].state
     \/ conn[e].state \in Open /\ conn'[e].state \in Open \cup {"closed"}
     \/ "nc" \in ent[e].wired /\ conn'[e].state = "closed"

\* Nobody but an eviction of a corpse, or Close, takes a key from e.
StaysKeyed(e) == Alive(e) /\ Keyed(e) => closed' \/ Keyed(e)'

\* A failed entry gains no place in an index, and whoever is about to evict
\* it still is, unless it is out of the indexes.
StaysOnItsWayOut(e) ==
  ent[e].failed /\ Indexed(e)' =>
    /\ Indexed(e)
    /\ \A r \in Requests : req[r].pc = "build" /\ req[r].entry = e =>
         req'[r].pc = "build" /\ req'[r].entry = e

\* No handler enters connect.
StaysAtWork(r) ==
  req'[r].pc \in AtWork =>
    /\ req[r].pc \in AtWork /\ req'[r].entry = req[r].entry
    /\ req'[r].pc = "identify" => req[r].pc = "identify"

\* An entry that is alive with its connection open, or new, is no corpse.
LEMMA OpenIsAlive ==
  ASSUME NEW e, EntryLife(e), ent[e].build = "new" \/ conn[e].state \in Open
  PROVE  Alive(e)
BY DEF EntryLife, Alive, Open

\* What an entry keeps that does not notice the step.
LEMMA EntryLivesOn ==
  ASSUME NEW e \in Entries, EntryLife(e), Reachable(e), OnItsWayOut(e),
         SameLife(e), StaysKeyed(e), StaysOnItsWayOut(e), closed => closed'
  PROVE  EntryLife(e)' /\ Reachable(e)' /\ OnItsWayOut(e)'
<1>1. EntryLife(e)'
  BY DEF EntryLife, SameLife, Published, Open
<1>2. Reachable(e)'
  <2> SUFFICES ASSUME ~closed', ent'[e].build = "new" \/ conn'[e].state \in Open PROVE Keyed(e)'
    BY DEF Reachable
  <2>1. ent[e].build = "new" \/ conn[e].state \in Open
    BY DEF SameLife, Open
  <2>2. Alive(e) /\ Keyed(e)
    BY <2>1, OpenIsAlive DEF Reachable
  <2> QED BY <2>2 DEF StaysKeyed
<1>3. OnItsWayOut(e)'
  BY DEF OnItsWayOut, StaysOnItsWayOut, SameLife
<1> QED BY <1>1, <1>2, <1>3

\* What a builder keeps while others leave its entry to it.
LEMMA BuilderGoesOn ==
  ASSUME NEW r \in Requests, BuilderKnows(r), StaysAtWork(r),
         req'[r].pc \in AtWork => SameLife(req[r].entry)
  PROVE  BuilderKnows(r)'
BY DEF BuilderKnows, StaysAtWork, SameLife, Published, Open, AtWork

\* So a step that no entry notices, and in which nobody enters connect, keeps
\* the invariant.
LEMMA LifeGoesOn ==
  ASSUME IInv, LifeInv, closed => closed',
         \A e \in Entries : SameLife(e) /\ StaysKeyed(e) /\ StaysOnItsWayOut(e),
         \A r \in Requests : StaysAtWork(r)
  PROVE  LifeInv'
<1>1. \A e \in Entries : EntryLife(e)' /\ Reachable(e)' /\ OnItsWayOut(e)'
  BY EntryLivesOn DEF LifeInv
<1>2. \A r \in Requests : BuilderKnows(r)'
  <2> SUFFICES ASSUME NEW r \in Requests PROVE BuilderKnows(r)'
    OBVIOUS
  <2>1. req'[r].pc \in AtWork => req[r].entry \in Entries
    BY DEF StaysAtWork, IInv, LocalsSet, AtWork, Holding
  <2> QED BY <2>1, BuilderGoesOn DEF LifeInv
<1>3. OneBuilder'
  BY DEF LifeInv, OneBuilder, StaysAtWork
<1> QED BY <1>1, <1>2, <1>3 DEF LifeInv

\* Nothing about an entry that the step does not touch.
LEMMA UntouchedLives ==
  ASSUME NEW e, ent'[e] = ent[e], conn'[e] = conn[e] PROVE SameLife(e)
BY DEF SameLife

\* Indexes that stay.
LEMMA IndexStays ==
  ASSUME UNCHANGED index, NEW e
  PROVE  StaysKeyed(e) /\ (Indexed(e)' <=> Indexed(e)) /\ (Keyed(e)' <=> Keyed(e))
BY DEF StaysKeyed, Keyed, Indexed, index

\* A handler that moves on without entering connect, nor leaving a failed
\* entry in build.
LEMMA MoveLivesOn ==
  ASSUME IInv, LifeInv, NEW r \in Requests, UNCHANGED <<index, ent, conn, closed>>,
         \A q \in Requests \ {r} : req'[q] = req[q],
         StaysAtWork(r),
         req[r].pc = "build" => ~ent[req[r].entry].failed
  PROVE  LifeInv'
<1>1. \A e \in Entries : SameLife(e) /\ StaysKeyed(e)
  BY UntouchedLives, IndexStays
<1>2. \A e \in Entries : StaysOnItsWayOut(e)
  BY IndexStays DEF StaysOnItsWayOut
<1>3. \A q \in Requests : StaysAtWork(q)
  BY DEF StaysAtWork
<1> QED BY <1>1, <1>2, <1>3, LifeGoesOn

\* An eviction of corpses, with a session bound to a living entry or without.
LEMMA EvictionLivesOn ==
  ASSUME IInv, LifeInv, NEW r \in Requests, NEW X, \A e \in X : ~Alive(e),
         entries' = EntriesWithout(X), byBearer' = BearersWithout(X), Shutdown(X),
         \A s \in Sids : sessions'[s] = SessionsWithout(X)[s]
                         \/ (sessions'[s] \in Entries /\ ~ent[sessions'[s]].failed),
         UNCHANGED <<ent, closed>>,
         \A q \in Requests \ {r} : req'[q] = req[q],
         req'[r].pc \notin AtWork,
         req[r].pc = "build" => req[r].entry \in X
  PROVE  LifeInv'
<1>0. NoEntry \notin Entries
  BY NullsAreNotValues
<1>1. \A e \in Entries : SameLife(e)
  BY DEF SameLife, Shutdown, Offline, IInv, TypeOK
<1>2. ASSUME NEW e \in Entries PROVE StaysKeyed(e)
  BY DEF StaysKeyed, Keyed, EntriesWithout
<1>3. ASSUME NEW e \in Entries PROVE StaysOnItsWayOut(e)
  <2> SUFFICES ASSUME ent[e].failed, Indexed(e)'
               PROVE  Indexed(e) /\ (req[r].pc = "build" => req[r].entry # e)
    BY DEF StaysOnItsWayOut
  <2>1. \A k \in Keys : entries'[k] = e => entries[k] = e /\ e \notin X
    BY <1>0 DEF EntriesWithout, IInv, IndexConsistent
  <2>2. \A b \in Bearers : byBearer'[b] = e => byBearer[b] = e /\ e \notin X
    BY <1>0 DEF BearersWithout, IInv, IndexConsistent
  <2>3. \A s \in Sids : sessions'[s] = e => sessions[s] = e /\ e \notin X
    BY <1>0 DEF SessionsWithout
  <2>4. Indexed(e) /\ e \notin X
    BY <2>1, <2>2, <2>3 DEF Indexed, Keyed
  <2> QED BY <2>4
<1>4. \A q \in Requests : StaysAtWork(q)
  BY DEF StaysAtWork
<1> QED BY <1>1, <1>2, <1>3, <1>4, LifeGoesOn

\* The same when one entry changes more than that: nobody else may be inside
\* its connect.
LEMMA LifeGoesOnBut ==
  ASSUME IInv, LifeInv, closed => closed', NEW e \in Entries, NEW r \in Requests,
         \A f \in Entries \ {e} : SameLife(f) /\ StaysKeyed(f) /\ StaysOnItsWayOut(f),
         EntryLife(e)', Reachable(e)', OnItsWayOut(e)',
         \A q \in Requests \ {r} :
           StaysAtWork(q) /\ (req[q].pc \in AtWork => req[q].entry # e),
         BuilderKnows(r)', req'[r].pc \in AtWork => req'[r].entry = e
  PROVE  LifeInv'
<1>1. \A f \in Entries : EntryLife(f)' /\ Reachable(f)' /\ OnItsWayOut(f)'
  BY EntryLivesOn DEF LifeInv
<1>2. ASSUME NEW q \in Requests \ {r} PROVE BuilderKnows(q)'
  <2>1. req'[q].pc \in AtWork => req[q].entry \in Entries \ {e}
    BY DEF StaysAtWork, IInv, LocalsSet, AtWork, Holding
  <2> QED BY <2>1, BuilderGoesOn DEF LifeInv
<1>3. OneBuilder'
  BY DEF LifeInv, OneBuilder, StaysAtWork
<1> QED BY <1>1, <1>2, <1>3 DEF LifeInv

\* So for a handler's step that changes one entry and no index.
LEMMA EntryChangeLivesOn ==
  ASSUME IInv, LifeInv, NEW e \in Entries, NEW r \in Requests, UNCHANGED <<index, closed>>,
         \A f \in Entries \ {e} : ent'[f] = ent[f] /\ conn'[f] = conn[f],
         \A q \in Requests \ {r} : req'[q] = req[q],
         req[r].pc = "build" => req[r].entry = e,
         EntryLife(e)', Reachable(e)', OnItsWayOut(e)',
         \A q \in Requests \ {r} : req[q].pc \in AtWork => req[q].entry # e,
         BuilderKnows(r)', req'[r].pc \in AtWork => req'[r].entry = e
  PROVE  LifeInv'
<1>1. \A f \in Entries \ {e} : SameLife(f) /\ StaysKeyed(f)
  BY UntouchedLives, IndexStays
<1>2. \A f \in Entries \ {e} : StaysOnItsWayOut(f)
  BY IndexStays DEF StaysOnItsWayOut
<1>3. \A q \in Requests \ {r} : StaysAtWork(q)
  BY DEF StaysAtWork
<1> QED BY <1>1, <1>2, <1>3, LifeGoesOnBut

\* A new entry on a key that held none, or a corpse.
LEMMA NewEntryLivesOn ==
  ASSUME IInv, LifeInv, NEW e \in Entries, NEW r \in Requests, NEW k \in Keys,
         NEW X, \A x \in X : ~Alive(x),
         ent[e].build = "free", entries[k] # NoEntry => ~Alive(entries[k]),
         req[r].bearer \in Bearers, req[r].pc # "build",
         entries' = [EntriesWithout(X) EXCEPT ![k] = e],
         byBearer' = BearersWithout(X), sessions' = SessionsWithout(X), Shutdown(X),
         ent' = [ent EXCEPT ![e] = newEntry(k, req[r].bearer)],
         \A q \in Requests \ {r} : req'[q] = req[q],
         req'[r].pc \notin AtWork, UNCHANGED closed
  PROVE  LifeInv'
<1>0. NoEntry \notin Entries
  BY NullsAreNotValues
<1>1. /\ ent'[e] = newEntry(k, req[r].bearer)
      /\ \A f \in Entries \ {e} : ent'[f] = ent[f]
      /\ entries'[k] = e
      /\ \A h \in Keys \ {k} : entries'[h] = EntriesWithout(X)[h]
  BY DEF IInv, TypeOK, EntriesWithout
<1>2. ent[e].wired = {} /\ conn[e].state = "none"
  BY DEF IInv, EntryTrust, BlankEntry, Offline
<1>3. conn'[e] = conn[e]
  BY <1>2 DEF Shutdown
<1>4. /\ newEntry(k, req[r].bearer).build = "new" /\ ~newEntry(k, req[r].bearer).failed
      /\ newEntry(k, req[r].bearer).wired = {}
      /\ newEntry(k, req[r].bearer).principal = Nobody
  BY DEF newEntry, BlankEntry
<1>5. EntryLife(e)' /\ Reachable(e)' /\ OnItsWayOut(e)'
  BY <1>1, <1>2, <1>3, <1>4 DEF EntryLife, Reachable, OnItsWayOut, Published, Keyed
<1>6. ASSUME NEW f \in Entries \ {e}
      PROVE  SameLife(f) /\ StaysKeyed(f) /\ StaysOnItsWayOut(f)
  <2>1. SameLife(f)
    BY <1>1 DEF SameLife, Shutdown, Offline
  <2>2. StaysKeyed(f)
    <3> SUFFICES ASSUME Alive(f), NEW h \in Keys, entries[h] = f PROVE Keyed(f)'
      BY DEF StaysKeyed, Keyed
    <3>1. h # k /\ f \notin X
      BY <1>0
    <3>2. entries'[h] = f
      BY <1>1, <3>1 DEF EntriesWithout
    <3> QED BY <3>2 DEF Keyed
  <2>3. StaysOnItsWayOut(f)
    <3>1. \A h \in Keys : entries'[h] = f => entries[h] = f
      BY <1>0, <1>1 DEF EntriesWithout
    <3>2. \A b \in Bearers : byBearer'[b] = f => byBearer[b] = f
      BY <1>0 DEF BearersWithout
    <3>3. \A s \in Sids : sessions'[s] = f => sessions[s] = f
      BY <1>0 DEF SessionsWithout
    <3>4. Indexed(f)' => Indexed(f)
      BY <3>1, <3>2, <3>3 DEF Indexed, Keyed
    <3> QED BY <3>4 DEF StaysOnItsWayOut
  <2> QED BY <2>1, <2>2, <2>3
<1>7. \A q \in Requests \ {r} :
        StaysAtWork(q) /\ (req[q].pc \in AtWork => req[q].entry # e)
  BY DEF StaysAtWork, AtWork, IInv, RequestTrust, Holding
<1>8. BuilderKnows(r)'
  BY DEF BuilderKnows
<1> QED BY <1>5, <1>6, <1>7, <1>8, LifeGoesOnBut

\* admitLocked and bindLocked give places in the indexes to a living entry.
LEMMA AdmissionLivesOn ==
  ASSUME IInv, LifeInv, NEW e \in Entries, NEW r \in Requests, ~ent[e].failed,
         UNCHANGED <<entries, conn, closed>>,
         \A f \in Entries : /\ ent'[f].build = ent[f].build /\ ent'[f].failed = ent[f].failed
                            /\ ent'[f].wired = ent[f].wired
                            /\ ent'[f].principal = ent[f].principal,
         \A b \in Bearers : byBearer'[b] \in {byBearer[b], e, NoEntry},
         \A s \in Sids : sessions'[s] \in {sessions[s], e},
         \A q \in Requests \ {r} : req'[q] = req[q],
         req'[r].pc \notin AtWork,
         req[r].pc = "build" => req[r].entry = e
  PROVE  LifeInv'
<1>0. NoEntry \notin Entries
  BY NullsAreNotValues
<1>1. \A f \in Entries : SameLife(f) /\ StaysKeyed(f)
  BY DEF SameLife, StaysKeyed, Keyed
<1>2. ASSUME NEW f \in Entries PROVE StaysOnItsWayOut(f)
  <2>1. ent[f].failed /\ Indexed(f)' => f # e /\ Indexed(f)
    BY <1>0 DEF Indexed, Keyed
  <2> QED BY <2>1 DEF StaysOnItsWayOut
<1>3. \A q \in Requests : StaysAtWork(q)
  BY DEF StaysAtWork
<1> QED BY <1>1, <1>2, <1>3, LifeGoesOn

---------------------------------------------------------------------------
(* One handler's step.                                                     *)

\* resolve only routes, evicts corpses, binds, or starts an entry.
LEMMA ResolveLivesOn ==
  ASSUME IInv, LifeInv, NEW r \in Requests, Resolve(r) PROVE LifeInv'
<1>0. /\ req \in [Requests -> RequestType] /\ req[r].pc = "resolve"
      /\ \A q \in Requests \ {r} : req'[q] = req[q]
      /\ req[r].bearer \in Bearers
  BY HandlerMovesItself, HandlerTypes
     DEF Handle, Resolve, ResolveBound, RefuseForeign, ResolveFresh, ResolveKnown,
     RouteExisting, RouteNew, ByHint, IInv, TypeOK
<1>1. CASE ResolveBound(r) \/ RefuseForeign(r) \/ ResolveFresh(r)
  <2>1. req'[r].pc \in {"adopt", "mismatched", "probe"}
    BY <1>0, <1>1, GotoMoves DEF ResolveBound, RefuseForeign, ResolveFresh, Grant
  <2>2. UNCHANGED <<index, ent, conn, closed>>
    BY <1>1 DEF ResolveBound, RefuseForeign, ResolveFresh
  <2> QED BY <1>0, <2>1, <2>2, MoveLivesOn DEF StaysAtWork, AtWork
<1>2. CASE ResolveKnown(r)
  <2> DEFINE X == Corpses({Bound(r)})
             e == byBearer[req[r].bearer]
  <2>1. /\ entries' = EntriesWithout(X) /\ byBearer' = BearersWithout(X) /\ Shutdown(X)
        /\ sessions' = Bind(SessionsWithout(X), req[r].sid, e)
        /\ UNCHANGED <<ent, closed>>
        /\ e # NoEntry /\ Alive(e)
    BY <1>2 DEF ResolveKnown, Known
  <2>2. req'[r].pc = "adopt"
    BY <1>0, <1>2, GotoMoves DEF ResolveKnown, Grant
  <2>3. \A x \in X : ~Alive(x)
    BY DEF Corpses
  <2>4. e \in Entries /\ ~ent[e].failed
    BY <1>0, <2>1 DEF IInv, TypeOK, Alive
  <2> HIDE DEF X, e
  <2>5. \A s \in Sids : sessions'[s] = SessionsWithout(X)[s]
                        \/ (sessions'[s] \in Entries /\ ~ent[sessions'[s]].failed)
    BY <2>1, <2>4 DEF Bind, SessionsWithout
  <2>6. req'[r].pc \notin AtWork /\ (req[r].pc = "build" => req[r].entry \in X)
    BY <1>0, <2>2 DEF AtWork
  <2>7. UNCHANGED <<ent, closed>>
    BY <2>1
  <2> QED BY <1>0, <2>1, <2>3, <2>5, <2>6, <2>7, EvictionLivesOn
<1>3. CASE RouteExisting(r)
  <2> DEFINE X == Touched(r)
  <2>1. /\ entries' = EntriesWithout(X) /\ byBearer' = BearersWithout(X) /\ Shutdown(X)
        /\ sessions' = SessionsWithout(X) /\ UNCHANGED <<ent, closed>>
    BY <1>3 DEF RouteExisting, evictLocked
  <2>2. req'[r].pc \in {"build", "probe"}
    BY <1>0, <1>3, GotoMoves DEF RouteExisting
  <2>3. \A x \in X : ~Alive(x)
    BY DEF Touched, Corpses
  <2> HIDE DEF X
  <2>4. \A s \in Sids : sessions'[s] = SessionsWithout(X)[s]
                        \/ (sessions'[s] \in Entries /\ ~ent[sessions'[s]].failed)
    BY <2>1
  <2>5. req'[r].pc \notin AtWork /\ (req[r].pc = "build" => req[r].entry \in X)
    BY <1>0, <2>2 DEF AtWork
  <2>6. UNCHANGED <<ent, closed>>
    BY <2>1
  <2> QED BY <1>0, <2>1, <2>3, <2>4, <2>5, <2>6, EvictionLivesOn
<1>4. ASSUME NEW e \in Entries, RouteNew(r, e) PROVE LifeInv'
  <2> DEFINE X == Touched(r)
             k == routeHint(req[r].bearer)
  <2>1. /\ entries' = [EntriesWithout(X) EXCEPT ![k] = e]
        /\ byBearer' = BearersWithout(X) /\ Shutdown(X)
        /\ sessions' = SessionsWithout(X) /\ UNCHANGED closed
        /\ ent' = [ent EXCEPT ![e] = newEntry(k, req[r].bearer)]
        /\ ent[e].build = "free" /\ (entries[k] # NoEntry => ~Alive(entries[k]))
    BY <1>4 DEF RouteNew, Free
  <2>2. req'[r].pc = "build"
    BY <1>0, <1>4, GotoMoves DEF RouteNew
  <2>3. (\A x \in X : ~Alive(x)) /\ k \in Keys
    BY <1>0, KeyFacts DEF Touched, Corpses
  <2> HIDE DEF X, k
  <2> QED BY <1>0, <2>1, <2>2, <2>3, NewEntryLivesOn DEF AtWork
<1> QED BY <1>1, <1>2, <1>3, <1>4 DEF Resolve

\* A bearer admitted to a published entry.
LEMMA AdmitLivesOn ==
  ASSUME IInv, LifeInv, NEW r \in Requests, NEW e \in Entries, NEW b \in Bearers,
         Published(e), admitLocked(b, e),
         \A s \in Sids : sessions'[s] \in {sessions[s], e},
         \A q \in Requests \ {r} : req'[q] = req[q],
         req'[r].pc \notin AtWork,
         req[r].pc = "build" => req[r].entry = e,
         UNCHANGED <<entries, conn, closed>>
  PROVE  LifeInv'
<1>1. ~ent[e].failed
  BY DEF LifeInv, EntryLife
<1>2. PICK tail : ent' = [ent EXCEPT ![e].admitted = tail]
  BY Zenon DEF admitLocked
<1>3. \A f \in Entries : /\ ent'[f].build = ent[f].build /\ ent'[f].failed = ent[f].failed
                         /\ ent'[f].wired = ent[f].wired
                         /\ ent'[f].principal = ent[f].principal
  BY <1>2 DEF IInv, TypeOK, EntryType
<1>4. \A c \in Bearers : byBearer'[c] \in {byBearer[c], e, NoEntry}
  BY DEF admitLocked
<1> QED BY <1>1, <1>3, <1>4, AdmissionLivesOn

\* The candidate's path moves on, admits, or starts the principal's own entry.
LEMMA CandidateLivesOn ==
  ASSUME IInv, LifeInv, NEW r \in Requests, Candidate(r) PROVE LifeInv'
<1>0. /\ req \in [Requests -> RequestType] /\ req[r].pc \in {"probe", "compare", "ensure"}
      /\ \A q \in Requests \ {r} : req'[q] = req[q]
      /\ req[r].bearer \in Bearers /\ req[r].sid \in Sids \cup {NoSid}
  BY HandlerMovesItself, HandlerTypes
     DEF Handle, Candidate, ProbeAdmitted, ProbeRefused, AdmitCandidate, RefuseCandidate,
     DivertCandidate, EnsureExisting, EnsureNew, IInv, TypeOK
<1>1. CASE \/ ProbeAdmitted(r) \/ ProbeRefused(r) \/ RefuseCandidate(r)
           \/ DivertCandidate(r) \/ EnsureExisting(r)
  <2>1. req'[r].pc \in {"compare", "refused", "mismatched", "ensure", "build"}
    BY <1>0, <1>1, GotoMoves DEF ProbeAdmitted, ProbeRefused, RefuseCandidate,
       DivertCandidate, EnsureExisting, Grant, Refuse
  <2>2. UNCHANGED <<index, ent, conn, closed>>
    BY <1>1 DEF ProbeAdmitted, ProbeRefused, RefuseCandidate, DivertCandidate,
       EnsureExisting
  <2> QED BY <1>0, <2>1, <2>2, MoveLivesOn DEF StaysAtWork, AtWork
<1>2. CASE AdmitCandidate(r)
  <2>1. PICK e \in Entries : req[r].entry = e
    BY <1>2 DEF AdmitCandidate, IInv, LocalsSet, Holding
  <2>2. Published(e) /\ req[r].pc = "compare"
    BY <1>2, <2>1 DEF AdmitCandidate, Matches, IInv, RequestTrust, Published,
       EdgeNamesPrincipals
  <2>3. /\ admitLocked(req[r].bearer, e)
        /\ sessions' = IF req[r].via = "bound" THEN sessions ELSE Bind(sessions, req[r].sid, e)
        /\ UNCHANGED <<entries, conn, closed>>
    BY <1>2, <2>1 DEF AdmitCandidate
  <2>4. \A s \in Sids : sessions'[s] \in {sessions[s], e}
    BY <1>0, <2>3, BindOnlyAdds DEF IInv, TypeOK
  <2>5. req'[r].pc = "adopt"
    BY <1>0, <1>2, GotoMoves DEF AdmitCandidate, Grant
  <2> QED BY <1>0, <2>2, <2>3, <2>4, <2>5, AdmitLivesOn DEF AtWork
<1>3. ASSUME NEW e \in Entries, EnsureNew(r, e) PROVE LifeInv'
  <2> DEFINE k == principalKey(req[r].who)
             X == Corpses({entries[k]})
  <2>1. /\ entries' = [EntriesWithout(X) EXCEPT ![k] = e]
        /\ byBearer' = BearersWithout(X) /\ Shutdown(X)
        /\ sessions' = SessionsWithout(X) /\ UNCHANGED closed
        /\ ent' = [ent EXCEPT ![e] = newEntry(k, req[r].bearer)]
        /\ ent[e].build = "free" /\ (entries[k] # NoEntry => ~Alive(entries[k]))
        /\ req[r].pc = "ensure"
    BY <1>3 DEF EnsureNew, Free
  <2>2. req'[r].pc = "build"
    BY <1>0, <1>3, GotoMoves DEF EnsureNew
  <2>3. req[r].who \in Principals
    BY <1>0, <2>1, HandlerTypes DEF IInv, RequestTrust, EdgeNamesPrincipals
  <2>4. (\A x \in X : ~Alive(x)) /\ k \in Keys
    BY <2>3, KeyFacts DEF Corpses
  <2> HIDE DEF X, k
  <2> QED BY <1>0, <2>1, <2>2, <2>4, NewEntryLivesOn DEF AtWork
<1> QED BY <1>1, <1>2, <1>3 DEF Candidate

\* Nobody is inside the connect of an entry that is not being built.
LEMMA NobodyAtWork ==
  ASSUME LifeInv, NEW q \in Requests, req[q].pc \in AtWork
  PROVE  ent[req[q].entry].build = "building"
BY DEF LifeInv, BuilderKnows

\* The first caller of build.Do enters connect.
LEMMA DialLivesOn ==
  ASSUME IInv, LifeInv, NEW r \in Requests, Dial(r) PROVE LifeInv'
<1>1. PICK e \in Entries : req[r].entry = e
  BY DEF Dial, IInv, LocalsSet, Holding
<1>2. PICK q : q = [ent[e] EXCEPT !.build = "building"]
  OBVIOUS
<1>3. /\ req[r].pc = "build" /\ ent[e].build = "new"
      /\ ent' = [ent EXCEPT ![e] = q]
      /\ conn' = [conn EXCEPT ![e] = UpAs(ent[e].latest)]
      /\ Goto(r, "identify", e, req[r].via, Nobody)
      /\ UNCHANGED <<index, closed>>
  BY <1>1, <1>2 DEF Dial
<1>4. /\ req \in [Requests -> RequestType] /\ ent[e] \in EntryType
      /\ EntryLife(e) /\ Reachable(e)
  BY DEF IInv, TypeOK, LifeInv
<1>5. /\ ent'[e].build = "building" /\ ent'[e].failed = ent[e].failed
      /\ ent'[e].wired = ent[e].wired /\ ent'[e].principal = ent[e].principal
      /\ conn'[e].state = "up"
      /\ \A f \in Entries \ {e} : ent'[f] = ent[f] /\ conn'[f] = conn[f]
  BY <1>2, <1>3, <1>4 DEF EntryType, UpAs, IInv, TypeOK
<1>6. /\ req'[r].pc = "identify" /\ req'[r].entry = e
      /\ \A s \in Requests \ {r} : req'[s] = req[s]
  BY <1>3, <1>4, GotoMoves
<1>7. EntryLife(e)' /\ OnItsWayOut(e)'
  BY <1>3, <1>4, <1>5 DEF EntryLife, OnItsWayOut, Published
<1>8. Reachable(e)'
  BY <1>3, <1>4, IndexStays DEF Reachable
<1>9. BuilderKnows(r)'
  BY <1>3, <1>4, <1>5, <1>6 DEF BuilderKnows, EntryLife, Published
<1>10. \A s \in Requests \ {r} : req[s].pc \in AtWork => req[s].entry # e
  BY <1>3, NobodyAtWork
<1> QED
  BY <1>1, <1>3, <1>5, <1>6, <1>7, <1>8, <1>9, <1>10, EntryChangeLivesOn

\* The build of a refused dial is over, and its caller is there to evict it.
LEMMA DialRefusedLivesOn ==
  ASSUME IInv, LifeInv, NEW r \in Requests, DialRefused(r) PROVE LifeInv'
<1>1. PICK e \in Entries : req[r].entry = e
  BY DEF DialRefused, IInv, LocalsSet, Holding
<1>2. PICK q : q = [ent[e] EXCEPT !.build = "done", !.failed = TRUE]
  OBVIOUS
<1>3. /\ req[r].pc = "build" /\ ent[e].build = "new"
      /\ ent' = [ent EXCEPT ![e] = q]
      /\ UNCHANGED <<index, conn, req, closed>>
  BY <1>1, <1>2 DEF DialRefused
<1>4. ent[e] \in EntryType /\ EntryLife(e)
  BY DEF IInv, TypeOK, LifeInv
<1>5. /\ q.build = "done" /\ q.failed /\ q.wired = ent[e].wired
      /\ q.principal = ent[e].principal
  BY <1>2, <1>4 DEF EntryType
<1>6. ent'[e] = q /\ \A f \in Entries \ {e} : ent'[f] = ent[f]
  BY <1>3 DEF IInv, TypeOK
<1>7. EntryLife(e)'
  BY <1>3, <1>4, <1>5, <1>6 DEF EntryLife, Published
<1>8. Reachable(e)'
  BY <1>3, <1>4, <1>5, <1>6 DEF Reachable, EntryLife, Open
<1>9. OnItsWayOut(e)'
  BY <1>1, <1>3 DEF OnItsWayOut
<1>10. BuilderKnows(r)' /\ req'[r].pc \notin AtWork
  BY <1>3 DEF BuilderKnows, AtWork
<1>11. \A s \in Requests \ {r} : req[s].pc \in AtWork => req[s].entry # e
  BY <1>3, NobodyAtWork
<1> QED
  BY <1>1, <1>3, <1>6, <1>7, <1>8, <1>9, <1>10, <1>11, EntryChangeLivesOn

\* connect fails before it has published anything, and closes what it opened.
LEMMA SetupFailedLivesOn ==
  ASSUME IInv, LifeInv, NEW r \in Requests, SetupFailed(r) PROVE LifeInv'
<1>1. PICK e \in Entries : req[r].entry = e
  BY DEF SetupFailed, IInv, LocalsSet, Holding
<1>2. PICK q : q = [ent[e] EXCEPT !.build = "done", !.failed = TRUE]
  OBVIOUS
<1>3. /\ req[r].pc = "identify"
      /\ ent' = [ent EXCEPT ![e] = q]
      /\ conn' = [conn EXCEPT ![e] = Offline("closed")]
      /\ Goto(r, "build", e, req[r].via, Nobody)
      /\ UNCHANGED <<index, closed>>
  BY <1>1, <1>2 DEF SetupFailed
<1>4. /\ req \in [Requests -> RequestType] /\ ent[e] \in EntryType
      /\ EntryLife(e) /\ ~Published(e)
  BY <1>1, <1>3 DEF IInv, TypeOK, LifeInv, BuilderKnows, AtWork
<1>5. /\ q.build = "done" /\ q.failed /\ q.wired = ent[e].wired
      /\ q.principal = ent[e].principal
  BY <1>2, <1>4 DEF EntryType
<1>6. /\ ent'[e] = q /\ \A f \in Entries \ {e} : ent'[f] = ent[f]
      /\ conn'[e].state = "closed" /\ \A f \in Entries \ {e} : conn'[f] = conn[f]
  BY <1>3 DEF IInv, TypeOK, Offline
<1>7. /\ req'[r].pc = "build" /\ req'[r].entry = e
      /\ \A s \in Requests \ {r} : req'[s] = req[s]
  BY <1>3, <1>4, GotoMoves
<1>8. EntryLife(e)'
  BY <1>4, <1>5, <1>6 DEF EntryLife, Published
<1>9. Reachable(e)' /\ OnItsWayOut(e)'
  BY <1>5, <1>6, <1>7 DEF Reachable, OnItsWayOut, Open
<1>10. BuilderKnows(r)' /\ req'[r].pc \notin AtWork
  BY <1>7 DEF BuilderKnows, AtWork
<1>11. \A s \in Requests \ {r} : req[s].pc \in AtWork => req[s].entry # e
  BY <1>1, <1>3 DEF LifeInv, OneBuilder, AtWork
<1> QED
  BY <1>1, <1>3, <1>6, <1>7, <1>8, <1>9, <1>10, <1>11, EntryChangeLivesOn

\* connect publishes what it has set.
LEMMA WireLivesOn ==
  ASSUME IInv, LifeInv, NEW r \in Requests, Wire(r) PROVE LifeInv'
<1>1. PICK e \in Entries : req[r].entry = e
  BY DEF Wire, IInv, LocalsSet, Holding
<1>2. req[r].pc = "wire" /\ UNCHANGED <<index, conn, req, closed>>
  BY DEF Wire
<1>3. /\ ent \in [Entries -> EntryType] /\ EntryLife(e) /\ Reachable(e)
      /\ ent[e].build = "building" /\ conn[e].state # "none"
  BY <1>1, <1>2 DEF IInv, TypeOK, LifeInv, BuilderKnows, AtWork
<1>4. \/ \E w : ent' = [ent EXCEPT ![e].wired = w]
      \/ \E p : ent' = [ent EXCEPT ![e].principal = p]
  BY <1>1, Zenon DEF Wire
<1>5. /\ ent'[e].build = "building" /\ ent'[e].failed = ent[e].failed
      /\ \A f \in Entries \ {e} : ent'[f] = ent[f]
  BY <1>3, <1>4 DEF EntryType
<1>6. ~ent[e].failed
  BY <1>3 DEF EntryLife
<1>7. EntryLife(e)' /\ OnItsWayOut(e)'
  BY <1>2, <1>3, <1>5, <1>6 DEF EntryLife, OnItsWayOut
<1>8. Reachable(e)'
  BY <1>2, <1>3, <1>5, IndexStays DEF Reachable
<1>9. BuilderKnows(r)'
  BY <1>1, <1>2, <1>3, <1>5 DEF BuilderKnows
<1>10. \A s \in Requests \ {r} : req[s].pc \in AtWork => req[s].entry # e
  BY <1>1, <1>2 DEF LifeInv, OneBuilder, AtWork
<1> QED
  BY <1>1, <1>2, <1>5, <1>7, <1>8, <1>9, <1>10, EntryChangeLivesOn

\* connect returns nil.
LEMMA BuiltLivesOn ==
  ASSUME IInv, LifeInv, NEW r \in Requests, Built(r) PROVE LifeInv'
<1>1. PICK e \in Entries : req[r].entry = e
  BY DEF Built, IInv, LocalsSet, Holding
<1>2. /\ req[r].pc = "wire" /\ UNCHANGED <<index, conn, closed>>
      /\ ent' = [ent EXCEPT ![e].build = "done"]
      /\ Goto(r, "build", e, req[r].via, Nobody)
  BY <1>1 DEF Built
<1>3. /\ ent \in [Entries -> EntryType] /\ EntryLife(e) /\ Reachable(e)
      /\ ent[e].build = "building" /\ conn[e].state # "none"
      /\ req \in [Requests -> RequestType]
  BY <1>1, <1>2 DEF IInv, TypeOK, LifeInv, BuilderKnows, AtWork
<1>4. /\ ent'[e].build = "done" /\ ent'[e].failed = ent[e].failed
      /\ ent'[e].wired = ent[e].wired /\ ent'[e].principal = ent[e].principal
      /\ \A f \in Entries \ {e} : ent'[f] = ent[f]
  BY <1>2, <1>3 DEF EntryType
<1>5. /\ req'[r].pc = "build" /\ req'[r].entry = e
      /\ \A s \in Requests \ {r} : req'[s] = req[s]
  BY <1>2, <1>3, GotoMoves
<1>6. ~ent[e].failed
  BY <1>3 DEF EntryLife
<1>7. EntryLife(e)' /\ OnItsWayOut(e)'
  BY <1>2, <1>3, <1>4, <1>6 DEF EntryLife, OnItsWayOut
<1>8. Reachable(e)'
  BY <1>2, <1>3, <1>4, IndexStays DEF Reachable
<1>9. BuilderKnows(r)' /\ req'[r].pc \notin AtWork
  BY <1>5 DEF BuilderKnows, AtWork
<1>10. \A s \in Requests \ {r} : req[s].pc \in AtWork => req[s].entry # e
  BY <1>1, <1>2 DEF LifeInv, OneBuilder, AtWork
<1> QED
  BY <1>1, <1>2, <1>4, <1>5, <1>7, <1>8, <1>9, <1>10, EntryChangeLivesOn

\* What follows build.Do: the entry admits the caller, or is evicted by it.
LEMMA AfterBuildLivesOn ==
  ASSUME IInv, LifeInv, NEW r \in Requests,
         Identify(r) \/ AdmitBuilt(r) \/ RefuseBuilt(r)
  PROVE  LifeInv'
<1>0. /\ req \in [Requests -> RequestType] /\ req[r].pc \in {"build", "identify"}
      /\ \A q \in Requests \ {r} : req'[q] = req[q]
      /\ req[r].bearer \in Bearers /\ req[r].sid \in Sids \cup {NoSid}
  BY HandlerMovesItself, HandlerTypes
     DEF Handle, Build, Identify, AdmitBuilt, RefuseBuilt, IInv, TypeOK
<1>1. PICK e \in Entries : req[r].entry = e
  BY <1>0 DEF IInv, LocalsSet, Holding
<1>2. CASE Identify(r)
  <2>1. /\ req[r].pc = "identify" /\ req'[r].pc = "wire" /\ req'[r].entry = e
        /\ UNCHANGED <<index, ent, conn, closed>>
    BY <1>0, <1>1, <1>2, GotoMoves DEF Identify
  <2> QED BY <1>0, <1>1, <2>1, MoveLivesOn DEF StaysAtWork, AtWork
<1>3. CASE AdmitBuilt(r)
  <2>1. /\ ent[e].build = "done" /\ ~ent[e].failed
        /\ admitLocked(req[r].bearer, e)
        /\ sessions' = Bind(sessions, req[r].sid, e)
        /\ UNCHANGED <<entries, conn, closed>>
    BY <1>1, <1>3 DEF AdmitBuilt
  <2>2. Published(e)
    BY <2>1 DEF IInv, EntryTrust
  <2>3. \A s \in Sids : sessions'[s] \in {sessions[s], e}
    BY <1>0, <2>1, BindOnlyAdds DEF IInv, TypeOK
  <2>4. req'[r].pc \in {"adopt", "served"}
    BY <1>0, <1>3, GotoMoves DEF AdmitBuilt, Grant
  <2> QED BY <1>0, <1>1, <2>1, <2>2, <2>3, <2>4, AdmitLivesOn DEF AtWork
<1>4. CASE RefuseBuilt(r)
  <2> DEFINE X == {e}
  <2>1. /\ entries' = EntriesWithout(X) /\ byBearer' = BearersWithout(X) /\ Shutdown(X)
        /\ sessions' = SessionsWithout(X)
    BY <1>1, <1>4 DEF RefuseBuilt, evictLocked
  <2>2. req'[r].pc = "refused"
    BY <1>0, <1>4, GotoMoves DEF RefuseBuilt, Refuse
  <2>3. (\A x \in X : ~Alive(x)) /\ req[r].entry \in X /\ UNCHANGED <<ent, closed>>
    BY <1>1, <1>4 DEF RefuseBuilt, Alive
  <2> HIDE DEF X
  <2>4. \A s \in Sids : sessions'[s] = SessionsWithout(X)[s]
                        \/ (sessions'[s] \in Entries /\ ~ent[sessions'[s]].failed)
    BY <2>1
  <2>5. req'[r].pc \notin AtWork
    BY <2>2 DEF AtWork
  <2> QED BY <1>0, <2>1, <2>3, <2>4, <2>5, EvictionLivesOn
<1> QED BY <1>2, <1>3, <1>4

\* Adoption changes the bearer presented next, and nothing of the entry's life.
LEMMA AdoptLivesOn ==
  ASSUME IInv, LifeInv, NEW r \in Requests, Adopt(r) PROVE LifeInv'
<1>1. /\ req[r].pc = "adopt" /\ UNCHANGED <<index, conn, closed>>
      /\ req \in [Requests -> RequestType] /\ ent \in [Entries -> EntryType]
  BY DEF Adopt, IInv, TypeOK
<1>2. req'[r].pc = "served" /\ \A q \in Requests \ {r} : req'[q] = req[q]
  BY <1>1, GotoMoves DEF Adopt, Grant
<1>3. PICK b : ent' = [ent EXCEPT ![req[r].entry].latest = b]
  BY Zenon DEF Adopt
<1>4. \A e \in Entries : SameLife(e) /\ StaysKeyed(e)
  BY <1>1, <1>3, IndexStays DEF SameLife, EntryType
<1>5. \A e \in Entries : StaysOnItsWayOut(e)
  BY <1>1, <1>2, IndexStays DEF StaysOnItsWayOut
<1>6. \A q \in Requests : StaysAtWork(q)
  BY <1>2 DEF StaysAtWork, AtWork
<1> QED BY <1>1, <1>4, <1>5, <1>6, LifeGoesOn

\* Every step of a handler keeps the invariant.
LEMMA HandlerLivesOn ==
  ASSUME IInv, LifeInv, NEW r \in Requests, Handle(r) PROVE LifeInv'
<1>1. CASE Build(r)
  BY <1>1, DialLivesOn, DialRefusedLivesOn, SetupFailedLivesOn, WireLivesOn,
     BuiltLivesOn, AfterBuildLivesOn, Zenon DEF Build
<1> QED BY <1>1, ResolveLivesOn, CandidateLivesOn, AdoptLivesOn DEF Handle

---------------------------------------------------------------------------
(* The rest of the world's steps.                                          *)

\* A request arrives, or its answer is read.
LEMMA ClientLivesOn ==
  ASSUME IInv, LifeInv, NEW r \in Requests,
         \/ \E b \in Bearers, sid \in Sids \cup {NoSid} : Arrive(r, b, sid)
         \/ Reply(r)
  PROVE  LifeInv'
<1>1. UNCHANGED <<index, ent, conn, closed>>
  BY DEF Arrive, Reply
<1>2. /\ req[r].pc # "build" /\ req'[r].pc \in {"idle", "resolve"}
      /\ \A q \in Requests \ {r} : req'[q] = req[q]
  <2>1. req \in [Requests -> RequestType]
    BY DEF IInv, TypeOK
  <2>2. CASE Reply(r)
    BY <2>1, <2>2 DEF Reply, IdleRequest
  <2>3. ASSUME NEW b \in Bearers, NEW sid \in Sids \cup {NoSid}, Arrive(r, b, sid)
        PROVE  /\ req[r].pc # "build" /\ req'[r].pc \in {"idle", "resolve"}
               /\ \A q \in Requests \ {r} : req'[q] = req[q]
    <3>1. PICK q \in RequestType :
            q = [IdleRequest EXCEPT !.pc = "resolve", !.bearer = b, !.sid = sid]
            /\ q.pc = "resolve" /\ q.bearer = b
      BY IdleType
    <3>2. req[r].pc = "idle" /\ req' = [req EXCEPT ![r] = q]
      BY <2>3, <3>1 DEF Arrive
    <3> QED BY <2>1, <3>1, <3>2
  <2> QED BY <2>2, <2>3
<1> QED BY <1>1, <1>2, MoveLivesOn DEF StaysAtWork, AtWork

\* A fresh session id goes to the entry that serves it.
LEMMA CaptureLivesOn ==
  ASSUME IInv, LifeInv, NEW r \in Requests, NEW sid \in Sids, Capture(r, sid)
  PROVE  LifeInv'
<1>1. PICK e \in Entries : req[r].entry = e
  BY DEF Capture, IInv, LocalsSet, Holding
<1>2. /\ req[r].pc = "served" /\ sessions' = Bind(sessions, sid, e)
      /\ req' = [req EXCEPT ![r] = IdleRequest]
      /\ UNCHANGED <<entries, byBearer, ent, conn, closed>>
  BY <1>1 DEF Capture
<1>3. ~ent[e].failed
  BY <1>1, <1>2 DEF IInv, RequestTrust, LifeInv, EntryLife
<1>4. \A s \in Sids : sessions'[s] \in {sessions[s], e}
  BY <1>2, BindOnlyAdds DEF IInv, TypeOK
<1>5. req'[r].pc \notin AtWork /\ \A q \in Requests \ {r} : req'[q] = req[q]
  BY <1>2 DEF IdleRequest, AtWork, IInv, TypeOK
<1> QED BY <1>1, <1>2, <1>3, <1>4, <1>5, AdmissionLivesOn

\* A step that moves no handler, and leaves the index and the entries.
LEMMA LinkLivesOn ==
  ASSUME IInv, LifeInv, UNCHANGED <<index, ent, req, closed>>,
         \A e \in Entries : \/ conn'[e].state = conn[e].state
                            \/ conn[e].state \in Open /\ conn'[e].state \in Open \cup {"closed"}
  PROVE  LifeInv'
<1>1. \A e \in Entries : SameLife(e) /\ StaysKeyed(e) /\ StaysOnItsWayOut(e)
  BY IndexStays DEF SameLife, StaysOnItsWayOut
<1>2. \A r \in Requests : StaysAtWork(r)
  BY DEF StaysAtWork
<1> QED BY <1>1, <1>2, LifeGoesOn

\* Node.Close forgets every place in the indexes.
LEMMA CloseLivesOn ==
  ASSUME IInv, LifeInv, Close PROVE LifeInv'
<1>1. \A e \in Entries : SameLife(e)
  BY DEF Close, Shutdown, SameLife, Offline
<1>2. \A e \in Entries : StaysKeyed(e) /\ ~Indexed(e)'
  BY NullsAreNotValues DEF Close, StaysKeyed, Indexed, Keyed
<1>3. \A r \in Requests : StaysAtWork(r)
  BY DEF Close, StaysAtWork
<1>4. closed'
  BY DEF Close
<1> QED BY <1>1, <1>2, <1>3, <1>4, LifeGoesOn DEF StaysOnItsWayOut

\* Nothing was left of a collected entry.
LEMMA CollectLivesOn ==
  ASSUME IInv, LifeInv, NEW e \in Entries, Collect(e) PROVE LifeInv'
<1>1. /\ ent' = [ent EXCEPT ![e] = BlankEntry]
      /\ conn' = [conn EXCEPT ![e] = Offline("none")]
      /\ UNCHANGED <<index, req, closed>>
      /\ \A r \in Requests : req[r].entry # e
  BY DEF Collect, Garbage, Referenced
<1>2. /\ ent'[e] = BlankEntry /\ conn'[e].state = "none"
      /\ \A f \in Entries \ {e} : ent'[f] = ent[f] /\ conn'[f] = conn[f]
  BY <1>1 DEF IInv, TypeOK, Offline
<1>3. EntryLife(e)' /\ Reachable(e)' /\ OnItsWayOut(e)'
  BY <1>2 DEF EntryLife, Reachable, OnItsWayOut, BlankEntry, Published, Open
<1>4. \A f \in Entries \ {e} : EntryLife(f)' /\ Reachable(f)' /\ OnItsWayOut(f)'
  <2> SUFFICES ASSUME NEW f \in Entries \ {e}
               PROVE  EntryLife(f)' /\ Reachable(f)' /\ OnItsWayOut(f)'
    OBVIOUS
  <2>1. SameLife(f) /\ StaysKeyed(f)
    BY <1>1, <1>2, UntouchedLives, IndexStays
  <2>2. StaysOnItsWayOut(f)
    BY <1>1, IndexStays DEF StaysOnItsWayOut
  <2> QED BY <1>1, <2>1, <2>2, EntryLivesOn DEF LifeInv
<1>5. ASSUME NEW r \in Requests PROVE BuilderKnows(r)'
  <2>1. StaysAtWork(r) /\ BuilderKnows(r)
    BY <1>1 DEF StaysAtWork, LifeInv
  <2>2. req'[r].pc \in AtWork => SameLife(req[r].entry)
    BY <1>1, <1>2, UntouchedLives DEF IInv, LocalsSet, AtWork, Holding
  <2> QED BY <2>1, <2>2, BuilderGoesOn
<1>6. OneBuilder'
  BY <1>1 DEF LifeInv, OneBuilder
<1> QED BY <1>3, <1>4, <1>5, <1>6 DEF LifeInv

\* No entry exists when the pool is made.
LEMMA LifeBegins == Init => LifeInv
<1> SUFFICES ASSUME Init PROVE LifeInv
  OBVIOUS
<1>1. \A e \in Entries : ent[e] = BlankEntry /\ conn[e].state = "none"
  BY DEF Init, Offline
<1>2. \A r \in Requests : req[r].pc = "idle"
  BY DEF Init, IdleRequest
<1>3. \A e \in Entries : EntryLife(e) /\ Reachable(e) /\ OnItsWayOut(e)
  BY <1>1 DEF EntryLife, Reachable, OnItsWayOut, BlankEntry, Published, Open
<1>4. (\A r \in Requests : BuilderKnows(r)) /\ OneBuilder
  BY <1>2 DEF BuilderKnows, OneBuilder, AtWork
<1> QED BY <1>3, <1>4 DEF LifeInv

\* The invariant is inductive, given the one behind the trust rule.
LEMMA LifePreserves == IInv /\ LifeInv /\ [Next]_vars => LifeInv'
<1> SUFFICES ASSUME IInv, LifeInv, [Next]_vars PROVE LifeInv'
  OBVIOUS
<1>1. ASSUME NEW r \in Requests, Handle(r) PROVE LifeInv'
  BY <1>1, HandlerLivesOn
<1>2. ASSUME NEW r \in Requests,
             \/ \E b \in Bearers, sid \in Sids \cup {NoSid} : Arrive(r, b, sid)
             \/ Reply(r)
      PROVE  LifeInv'
  BY <1>2, ClientLivesOn
<1>3. ASSUME NEW r \in Requests, NEW sid \in Sids, Capture(r, sid) PROVE LifeInv'
  BY <1>3, CaptureLivesOn
<1>4. CASE UNCHANGED vars \/ \E b \in Bearers : Revoke(b)
  <2>1. UNCHANGED <<index, ent, conn, req, closed>>
    BY <1>4 DEF Revoke, vars, index
  <2> QED BY <2>1, LinkLivesOn
<1>5. ASSUME NEW e \in Entries, Drop(e) \/ Reconnect(e) PROVE LifeInv'
  <2>1. UNCHANGED <<index, ent, req, closed>>
    BY <1>5 DEF Drop, Reconnect
  <2>2. \A f \in Entries :
          \/ conn'[f].state = conn[f].state
          \/ conn[f].state \in Open /\ conn'[f].state \in Open \cup {"closed"}
    BY <1>5 DEF Drop, Reconnect, Offline, UpAs, Open, IInv, TypeOK
  <2> QED BY <2>1, <2>2, LinkLivesOn
<1>6. CASE Close
  BY <1>6, CloseLivesOn
<1>7. ASSUME NEW e \in Entries, Collect(e) PROVE LifeInv'
  BY <1>7, CollectLivesOn
<1> QED BY <1>1, <1>2, <1>3, <1>4, <1>5, <1>6, <1>7, Zenon DEF Next, Work

\* The two invariants hold in every reachable state.
LEMMA LifeHolds == Spec => [](IInv /\ LifeInv)
<1> QED BY LifeBegins, LifePreserves, InvariantHolds, PTL DEF Spec

\* No interleaving of builds, evictions and second builds loses an open
\* connection: until Close, pool.close would find it through the key index
\* (pool.go:328).
THEOREM EveryConnectionReachableHolds == Spec => []EveryConnectionReachable
<1>1. IInv /\ LifeInv => EveryConnectionReachable
  BY DEF LifeInv, Reachable, EveryConnectionReachable, Keyed, Open
<1> QED BY <1>1, LifeHolds, PTL

\* A refused build leaves nothing behind that the next request could meet
\* (pool.go:168): whoever sees it fail evicts it before it answers.
THEOREM FailureLeavesNoScarHolds == Spec => []FailureLeavesNoScar
<1>1. IInv /\ LifeInv => FailureLeavesNoScar
  BY DEF LifeInv, OnItsWayOut, FailureLeavesNoScar, InFlight, Indexed, Keyed
<1> QED BY <1>1, LifeHolds, PTL

\* Handlers do not close the pool.
LEMMA HandlerKeepsOpen == ASSUME NEW r, Handle(r) PROVE UNCHANGED closed
BY Zenon DEF Handle, Resolve, ResolveBound, RefuseForeign, ResolveFresh, ResolveKnown,
   RouteExisting, RouteNew, Candidate, ProbeAdmitted, ProbeRefused, AdmitCandidate,
   RefuseCandidate, DivertCandidate, EnsureExisting, EnsureNew, Build, Dial, DialRefused,
   Identify, SetupFailed, Wire, Built, AdmitBuilt, RefuseBuilt, Adopt

\* Node.Close reaches every connection that another goroutine can see
\* (node.go:50, pool.go:328), whatever requests are in flight.
THEOREM CloseDrainsHolds == Spec => CloseDrains
<1> DEFINE Drained == \A e \in Entries : "nc" \in ent[e].wired => conn'[e].state = "closed"
<1>1. ASSUME IInv, LifeInv, [Next]_vars, ~closed, closed' PROVE Drained
  <2>1. Close
    <3>1. ~ UNCHANGED closed
      BY <1>1
    <3>2. ~\E r \in Requests : Handle(r)
      BY <3>1, HandlerKeepsOpen
    <3>3. ~\E r \in Requests, b \in Bearers, sid \in Sids \cup {NoSid} : Arrive(r, b, sid)
      BY <3>1 DEF Arrive
    <3>4. /\ ~\E r \in Requests, sid \in Sids : Capture(r, sid)
          /\ ~\E r \in Requests : Reply(r)
          /\ ~\E b \in Bearers : Revoke(b)
          /\ ~\E e \in Entries : Drop(e) \/ Reconnect(e)
          /\ ~\E e \in Entries : Collect(e)
          /\ ~ UNCHANGED vars
      BY <3>1 DEF Capture, Reply, Revoke, Drop, Reconnect, Collect, vars
    <3> QED BY <1>1, <3>2, <3>3, <3>4, Zenon DEF Next, Work
  <2> SUFFICES ASSUME NEW e \in Entries, "nc" \in ent[e].wired
               PROVE  conn'[e].state = "closed"
    OBVIOUS
  <2>2. conn[e].state \in Open \cup {"closed"}
    BY <1>1 DEF LifeInv, EntryLife, IInv, TypeOK, ConnType, Open
  <2>3. CASE conn[e].state = "closed"
    BY <2>1, <2>3 DEF Close, Shutdown, Offline
  <2>4. CASE conn[e].state \in Open
    <3>1. e \in Pooled
      BY <1>1, <2>4, NullsAreNotValues DEF LifeInv, Reachable, Keyed, Pooled
    <3> QED BY <2>1, <3>1 DEF Close, Shutdown, Offline
  <2> QED BY <2>2, <2>3, <2>4
<1>2. IInv /\ LifeInv /\ [Next]_vars => [~closed /\ closed' => Drained]_vars
  BY <1>1
<1> QED BY <1>2, LifeHolds, PTL DEF Spec, CloseDrains

===========================================================================
