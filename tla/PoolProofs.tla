---------------------------- MODULE PoolProofs ----------------------------
(***************************************************************************)
(* Proofs about the pool, for every set of bearers, principals, handlers,  *)
(* entries and sessions.                                                   *)
(***************************************************************************)
EXTENDS PoolInvariant, SequenceTheorems, TLAPS

---------------------------------------------------------------------------
(* What the helpers return.                                                *)

Seen(s) == {s[i] : i \in 1..Len(s)}

\* A number up to keep is below it or is it.
LEMMA BelowTwo == \A n \in Nat : n <= 2 => n < 2 \/ n = 2
  OBVIOUS

\* Appending remembers one more bearer.
LEMMA AppendSeen ==
  ASSUME NEW S, NEW t \in Seq(S), NEW b \in S
  PROVE  /\ Append(t, b) \in Seq(S)
         /\ Len(Append(t, b)) = Len(t) + 1
         /\ Seen(Append(t, b)) = Seen(t) \cup {b}
<1>1. /\ Append(t, b) \in Seq(S)
      /\ Len(Append(t, b)) = Len(t) + 1
      /\ \A i \in 1..Len(t) : Append(t, b)[i] = t[i]
      /\ Append(t, b)[Len(t) + 1] = b
  BY AppendProperties, SMT
<1>2. Len(t) \in Nat
  OBVIOUS
<1> DEFINE a == Append(t, b)
           n == Len(t)
<1> HIDE DEF a, n
<1>3. 1..(n + 1) = 1..n \cup {n + 1}
  BY <1>2 DEF n
<1>4. Seen(a) = {a[i] : i \in 1..n} \cup {a[n + 1]}
  BY <1>1, <1>3 DEF Seen, a, n
<1>5. {a[i] : i \in 1..n} = Seen(t)
  BY <1>1 DEF Seen, a, n
<1> QED BY <1>1, <1>4, <1>5 DEF a, n

\* Appending to a tail of one bearer.
LEMMA AppendToOne ==
  ASSUME NEW S, NEW t \in Seq(S), Len(t) = 1, NEW b \in S
  PROVE  /\ Append(t, b) \in Seq(S)
         /\ Len(Append(t, b)) = 2
         /\ Seen(Append(t, b)) = {t[1], b}
<1>1. Seen(t) = {t[1]}
  BY DEF Seen
<1>2. /\ Append(t, b) \in Seq(S)
      /\ Len(Append(t, b)) = Len(t) + 1
      /\ Seen(Append(t, b)) = Seen(t) \cup {b}
  <2>1. \A x \in Seq(S) : /\ Append(x, b) \in Seq(S)
                         /\ Len(Append(x, b)) = Len(x) + 1
                         /\ Seen(Append(x, b)) = Seen(x) \cup {b}
    BY AppendSeen, SMT
  <2> QED BY <2>1, Zenon
<1>3. {t[1]} \cup {b} = {t[1], b}
  OBVIOUS
<1> QED BY <1>1, <1>2, <1>3

\* admitLocked's tail (pool.go:395-403): it stays a short sequence of
\* bearers, remembers b, and invents nobody.
LEMMA AdmitTailProperties ==
  ASSUME NEW S, NEW s \in Seq(S), Len(s) <= Keep, NEW b \in S
  PROVE  /\ AdmitTail(s, b) \in Seq(S)
         /\ Len(AdmitTail(s, b)) <= Keep
         /\ b \in Seen(AdmitTail(s, b))
         /\ Seen(AdmitTail(s, b)) \subseteq Seen(s) \cup {b}
<1>0. Len(s) \in Nat /\ Len(s) <= 2
  BY DEF Keep
<1>1. CASE \E i \in 1..Len(s) : s[i] = b
  BY <1>1 DEF AdmitTail, Seen
<1>2. CASE (~ \E i \in 1..Len(s) : s[i] = b) /\ Len(s) < 2
  <2>1. AdmitTail(s, b) = Append(s, b)
    BY <1>2 DEF AdmitTail, Keep
  <2>2. /\ Append(s, b) \in Seq(S)
        /\ Len(Append(s, b)) = Len(s) + 1
        /\ \A i \in 1..Len(s) : Append(s, b)[i] = s[i]
        /\ Append(s, b)[Len(s) + 1] = b
    BY AppendProperties
  <2>3. Append(s, b) \in Seq(S) /\ Len(Append(s, b)) <= 2
    <3> DEFINE n == Len(s)
    <3>1. n \in Nat /\ n < 2 /\ Len(Append(s, b)) = n + 1
      BY <1>0, <1>2, <2>2
    <3> HIDE DEF n
    <3>2. n + 1 <= 2
      BY <3>1
    <3> QED BY <2>2, <3>1, <3>2
  <2>4. b \in Seen(Append(s, b))
    BY <1>0, <2>2 DEF Seen
  <2>5. Seen(Append(s, b)) \subseteq Seen(s) \cup {b}
    BY <1>0, <2>2 DEF Seen
  <2> QED BY <2>1, <2>3, <2>4, <2>5 DEF Keep
<1>3. CASE (~ \E i \in 1..Len(s) : s[i] = b) /\ Len(s) = 2
  <2>1. AdmitTail(s, b) = Append(Tail(s), b)
    BY <1>3 DEF AdmitTail, Keep
  <2>2. /\ Tail(s) \in Seq(S)
        /\ Len(Tail(s)) = 1
        /\ Tail(s)[1] = s[2]
    BY <1>3, HeadTailProperties
  <2>3. s[2] \in Seen(s)
    BY <1>3 DEF Seen
  <2>4. /\ Append(Tail(s), b) \in Seq(S)
        /\ Len(Append(Tail(s), b)) = 2
        /\ Seen(Append(Tail(s), b)) = {s[2], b}
    <3>1. \A t \in Seq(S) : Len(t) = 1 =>
            /\ Append(t, b) \in Seq(S)
            /\ Len(Append(t, b)) = 2
            /\ Seen(Append(t, b)) = {t[1], b}
      BY AppendToOne
    <3> QED BY <2>2, <3>1, Zenon
  <2>5. 2 <= 2
    OBVIOUS
  <2> QED BY <2>1, <2>3, <2>4, <2>5, Zenon DEF Keep
<1>4. Len(s) < 2 \/ Len(s) = 2
  BY <1>0, BelowTwo, Zenon
<1> QED BY <1>1, <1>2, <1>3, <1>4, Zenon

\* The locked helpers keep the three indexes and the connections typed.
LEMMA IndexTypes ==
  ASSUME TypeOK, NEW D
  PROVE  /\ EntriesWithout(D) \in [Keys -> Entries \cup {NoEntry}]
         /\ BearersWithout(D) \in [Bearers -> Entries \cup {NoEntry}]
         /\ SessionsWithout(D) \in [Sids -> Entries \cup {NoEntry}]
         /\ Shutdown(D) => conn' \in [Entries -> ConnType]
BY DEF TypeOK, EntriesWithout, BearersWithout, SessionsWithout, Shutdown,
       Offline, ConnType

\* bindLocked leaves the session index typed (pool.go:356-359).
LEMMA BindType ==
  ASSUME NEW ss \in [Sids -> Entries \cup {NoEntry}], NEW sid \in Sids \cup {NoSid},
         NEW e \in Entries
  PROVE  Bind(ss, sid, e) \in [Sids -> Entries \cup {NoEntry}]
BY DEF Bind

\* An entry with an empty tail has admitted nobody.
LEMMA NothingAdmitted ==
  ASSUME NEW e, ent[e].admitted = <<>>
  PROVE  AdmittedTo(e) = {}
BY DEF AdmittedTo

\* What admitLocked does to the entries (pool.go:394-408): e's tail gains b
\* and may lose older bearers; nothing else of any entry changes.
LEMMA AdmitEffect ==
  ASSUME TypeOK, NEW b \in Bearers, NEW e \in Entries, admitLocked(b, e)
  PROVE  /\ ent' \in [Entries -> EntryType]
         /\ \A f \in Entries : Len(ent'[f].admitted) <= Keep
         /\ \A f \in Entries \ {e} : ent'[f] = ent[f]
         /\ ent'[e] = [ent[e] EXCEPT !.admitted = AdmitTail(ent[e].admitted, b)]
         /\ b \in AdmittedTo(e)'
         /\ AdmittedTo(e)' \subseteq AdmittedTo(e) \cup {b}
         /\ byBearer' = [c \in Bearers |->
              IF c = b /\ b \notin AdmittedTo(e) THEN e
              ELSE IF c \in AdmittedTo(e) \ AdmittedTo(e)' /\ byBearer[c] = e
                   THEN NoEntry ELSE byBearer[c]]
<1> DEFINE tail == AdmitTail(ent[e].admitted, b)
<1>1. /\ ent \in [Entries -> EntryType]
      /\ ent[e].admitted \in Seq(Bearers)
      /\ Len(ent[e].admitted) <= Keep
  BY DEF TypeOK, EntryType
<1>2. /\ tail \in Seq(Bearers)
      /\ Len(tail) <= Keep
      /\ b \in Seen(tail)
      /\ Seen(tail) \subseteq Seen(ent[e].admitted) \cup {b}
  BY <1>1, AdmitTailProperties
<1>3. /\ ent' = [ent EXCEPT ![e].admitted = tail]
      /\ byBearer' = [c \in Bearers |->
           IF c = b /\ b \notin AdmittedTo(e) THEN e
           ELSE IF c \in AdmittedTo(e) \ Seen(tail) /\ byBearer[c] = e THEN NoEntry
           ELSE byBearer[c]]
  BY DEF admitLocked, Seen
<1> HIDE DEF tail
<1>4. /\ ent' \in [Entries -> EntryType]
      /\ \A f \in Entries \ {e} : ent'[f] = ent[f]
      /\ ent'[e] = [ent[e] EXCEPT !.admitted = tail]
      /\ ent'[e].admitted = tail
  <2> DEFINE rec == [ent[e] EXCEPT !.admitted = tail]
  <2>1. rec \in EntryType /\ rec.admitted = tail
    <3>1. ent[e] \in EntryType
      BY <1>1
    <3> QED BY <1>2, <3>1 DEF EntryType
  <2>2. ent' = [ent EXCEPT ![e] = rec]
    BY <1>3
  <2> HIDE DEF rec
  <2>3. ent'[e] = rec /\ ent' \in [Entries -> EntryType]
    BY <1>1, <2>1, <2>2
  <2> QED BY <1>1, <2>1, <2>2, <2>3 DEF rec
<1>5. \A f \in Entries : Len(ent'[f].admitted) <= Keep
  BY <1>2, <1>4 DEF TypeOK
<1>6. AdmittedTo(e)' = Seen(tail) /\ AdmittedTo(e) = Seen(ent[e].admitted)
  BY <1>4 DEF AdmittedTo, Seen
<1> QED BY <1>2, <1>3, <1>4, <1>5, <1>6 DEF tail

\* Goto changes the locals of one handler and leaves its bearer and sid.
LEMMA GotoEffect ==
  ASSUME TypeOK, NEW r \in Requests, NEW pc \in PCs, NEW e \in Entries \cup {NoEntry},
         NEW via \in {"none", "bound", "hint", "pri"}, NEW who \in Principals \cup {Nobody},
         Goto(r, pc, e, via, who)
  PROVE  /\ req' \in [Requests -> RequestType]
         /\ \A s \in Requests \ {r} : req'[s] = req[s]
         /\ req'[r].pc = pc
         /\ req'[r].entry = e
         /\ req'[r].via = via
         /\ req'[r].who = who
         /\ req'[r].bearer = req[r].bearer
         /\ req'[r].sid = req[r].sid
<1> DEFINE q == [req[r] EXCEPT !.pc = pc, !.entry = e, !.via = via, !.who = who]
<1>1. req \in [Requests -> RequestType] /\ req[r] \in RequestType
  BY DEF TypeOK
<1>2. /\ q \in RequestType
      /\ q.pc = pc /\ q.entry = e /\ q.via = via /\ q.who = who
      /\ q.bearer = req[r].bearer /\ q.sid = req[r].sid
  BY <1>1 DEF RequestType
<1>3. req' = [req EXCEPT ![r] = q]
  BY DEF Goto
<1> HIDE DEF q
<1>4. /\ req'[r] = q
      /\ \A s \in Requests \ {r} : req'[s] = req[s]
      /\ req' \in [Requests -> RequestType]
  BY <1>1, <1>2, <1>3
<1> QED BY <1>2, <1>4

\* An assignment to fields of one entry.
LEMMA EntEffect ==
  ASSUME TypeOK, NEW e \in Entries, NEW q \in EntryType, Len(q.admitted) <= Keep,
         ent' = [ent EXCEPT ![e] = q]
  PROVE  /\ ent' \in [Entries -> EntryType]
         /\ \A f \in Entries : Len(ent'[f].admitted) <= Keep
         /\ ent'[e] = q
         /\ \A f \in Entries \ {e} : ent'[f] = ent[f]
BY DEF TypeOK
---------------------------------------------------------------------------
(* Preserving the invariant: what one handler relies on about an entry     *)
(* while another one changes it.                                           *)

\* Everything but the entry's own history may change under a handler that
\* holds it: a principal stays, and the latest bearer keeps its principal.
Stable(e) ==
  /\ ent'[e].build # "free"
  /\ Published(e) => ent'[e].principal = ent[e].principal
  /\ ~Published(e) => ent'[e].latest = ent[e].latest
  /\ PrincipalOf[ent'[e].latest] = PrincipalOf[ent[e].latest]
  /\ ent[e].latest \in evidence => ent'[e].latest \in evidence'

\* A connection that is up was up before, and an unused one is left alone.
Quiet(e) == conn'[e].state = "up" \/ ent[e].build = "free" => conn'[e] = conn[e]

\* A handler that does not move keeps what it relies on.
LEMMA HandlerKeepsTrust ==
  ASSUME NEW s \in Requests, RequestTrust(s), req'[s] = req[s],
         evidence \subseteq evidence',
         req[s].pc \in Holding => Stable(req[s].entry) /\ EntryTrust(req[s].entry)'
  PROVE  RequestTrust(s)'
BY DEF RequestTrust, Stable, EntryTrust, Holding, Building, Published, Proven

\* So does an entry whose fields do not change.
LEMMA EntryKeepsTrust ==
  ASSUME NEW e \in Entries, EntryTrust(e), ent'[e] = ent[e],
         evidence \subseteq evidence',
         Quiet(e)
  PROVE  EntryTrust(e)' /\ (ent[e].build # "free" => Stable(e))
<1>1. AdmittedTo(e)' = AdmittedTo(e)
  BY DEF AdmittedTo
<1> QED BY <1>1 DEF EntryTrust, Stable, Quiet, Published, Proven, Offline

\* The locals of handler r after a step.
LocalsOf(r) ==
  /\ req[r].pc # "idle" => req[r].bearer \in Bearers
  /\ req[r].pc \in Holding => req[r].entry \in Entries
  /\ req[r].pc \in Building => req[r].via \in {"hint", "pri"}

\* To preserve the invariant it is enough to look at the handlers that moved
\* and at the entries that changed.
LEMMA PreserveAny ==
  ASSUME IInv, TypeOK',
         evidence \subseteq evidence', EdgeNamesPrincipals',
         \A e \in Entries : conn'[e].state = "up" => conn'[e].badge \in Bearers,
         \A e \in Entries : EntryTrust(e)',
         \A e \in Entries : ent[e].build # "free" => Stable(e),
         IndexConsistent', SessionsPublished',
         \A s \in Requests : req'[s] # req[s] => LocalsOf(s)' /\ RequestTrust(s)'
  PROVE  IInv'
<1>1. LocalsSet'
  BY DEF IInv, LocalsSet, LocalsOf
<1>2. ASSUME NEW s \in Requests PROVE RequestTrust(s)'
  <2>1. CASE req'[s] # req[s]
    BY <2>1
  <2>2. CASE req'[s] = req[s]
    <3>1. RequestTrust(s) /\ req'[s] = req[s]
      BY <2>2 DEF IInv
    <3>2. req[s].pc \in Holding =>
            Stable(req[s].entry) /\ EntryTrust(req[s].entry)'
      BY <3>1 DEF IInv, LocalsSet, RequestTrust
    <3> QED BY <3>1, <3>2, HandlerKeepsTrust
  <2> QED BY <2>1, <2>2
<1> QED BY <1>1, <1>2 DEF IInv

\* The same for a step of one handler.
LEMMA Preserve ==
  ASSUME IInv, NEW r \in Requests, TypeOK',
         evidence \subseteq evidence', EdgeNamesPrincipals',
         \A e \in Entries : conn'[e].state = "up" => conn'[e].badge \in Bearers,
         \A e \in Entries : EntryTrust(e)',
         \A e \in Entries : ent[e].build # "free" => Stable(e),
         IndexConsistent', SessionsPublished',
         \A s \in Requests \ {r} : req'[s] = req[s],
         LocalsOf(r)', RequestTrust(r)'
  PROVE  IInv'
<1>1. \A s \in Requests : req'[s] # req[s] => LocalsOf(s)' /\ RequestTrust(s)'
  OBVIOUS
<1> QED BY <1>1, PreserveAny

\* A step that leaves the entries alone, and connections up only as they were.
LEMMA PreserveEntries ==
  ASSUME IInv, NEW r \in Requests, TypeOK', UNCHANGED ent,
         evidence \subseteq evidence', EdgeNamesPrincipals',
         \A e \in Entries : Quiet(e),
         IndexConsistent', SessionsPublished',
         \A s \in Requests \ {r} : req'[s] = req[s],
         LocalsOf(r)', RequestTrust(r)'
  PROVE  IInv'
<1>1. \A e \in Entries : EntryTrust(e)' /\ (ent[e].build # "free" => Stable(e))
  BY EntryKeepsTrust DEF IInv
<1>2. \A e \in Entries : conn'[e].state = "up" => conn'[e].badge \in Bearers
  BY DEF IInv, LocalsSet, Quiet
<1> QED BY <1>1, <1>2, Preserve

\* The tails are read from the entries alone.
LEMMA SameAdmitted == 
  ASSUME UNCHANGED ent PROVE \A e : AdmittedTo(e)' = AdmittedTo(e)
BY DEF AdmittedTo

\* Shutting down what was evicted takes connections down and brings none up.
LEMMA ShutdownIsQuiet ==
  ASSUME IInv, NEW D, Shutdown(D)
  PROVE  /\ conn' \in [Entries -> ConnType]
         /\ \A e \in Entries : Quiet(e)
<1>1. conn' \in [Entries -> ConnType]
  BY DEF IInv, TypeOK, Shutdown, Offline, ConnType
<1>2. ASSUME NEW e \in Entries PROVE Quiet(e)
  <2>1. ent[e].build = "free" => ent[e].wired = {}
    BY DEF IInv, EntryTrust, BlankEntry
  <2> QED BY <2>1 DEF Shutdown, Offline, Quiet
<1> QED BY <1>1, <1>2

---------------------------------------------------------------------------
(* Steps of one handler that only move it on.                              *)

\* Routing keys: hints and principal aliases never coincide (pool.go:264, 434-453).
LEMMA KeyFacts ==
  /\ \A b \in Bearers : routeHint(b) \in Keys
  /\ \A p \in Principals : principalKey(p) \in Keys
  /\ \A b \in Bearers, p \in Principals : routeHint(b) # principalKey(p)
  /\ NoKey \notin Keys
BY DEF Keys, routeHint, principalKey, NoKey

\* A handler moves on; nothing else changes but, perhaps, the evidence.
LEMMA MoveKeeps ==
  ASSUME IInv, NEW r \in Requests,
         NEW pc \in PCs, NEW e \in Entries \cup {NoEntry},
         NEW via \in {"none", "bound", "hint", "pri"},
         NEW who \in Principals \cup {Nobody},
         Goto(r, pc, e, via, who), req[r].pc # "idle",
         UNCHANGED <<index, ent, conn, valid, closed>>,
         evidence \subseteq evidence', evidence' \subseteq Bearers,
         EdgeNamesPrincipals',
         pc \in Holding => e \in Entries /\ ent[e].build # "free",
         pc \in Building => via \in {"hint", "pri"},
         RequestTrust(r)'
  PROVE  IInv'
<1>1. /\ req' \in [Requests -> RequestType]
      /\ \A s \in Requests \ {r} : req'[s] = req[s]
      /\ req'[r].pc = pc /\ req'[r].entry = e /\ req'[r].via = via
      /\ req'[r].bearer = req[r].bearer
  BY GotoEffect DEF IInv
<1>2. TypeOK'
  BY <1>1 DEF IInv, TypeOK, index
<1>3. IndexConsistent' /\ SessionsPublished'
  BY SameAdmitted DEF IInv, IndexConsistent, SessionsPublished, Published, index
<1>4. LocalsOf(r)'
  BY <1>1 DEF IInv, LocalsSet, LocalsOf
<1>5. \A f \in Entries : Quiet(f)
  BY DEF Quiet
<1> QED BY <1>1, <1>2, <1>3, <1>4, <1>5, PreserveEntries

\* The types of the locals of a handler at work.
LEMMA HandlerTypes ==
  ASSUME IInv, NEW r \in Requests, req[r].pc # "idle"
  PROVE  /\ req[r].bearer \in Bearers
         /\ req[r].sid \in Sids \cup {NoSid}
         /\ req[r].entry \in Entries \cup {NoEntry}
         /\ req[r].via \in {"none", "bound", "hint", "pri"}
         /\ req[r].who \in Principals \cup {Nobody}
         /\ PrincipalOf[req[r].bearer] \in Principals \cup {Nobody}
         /\ Bound(r) \in Entries \cup {NoEntry}
BY ConstantsAreTyped DEF IInv, TypeOK, RequestType, LocalsSet, Bound

\* An entry that admitted a bearer, or holds a visible principal, is in use.
LEMMA InUse ==
  ASSUME IInv, NEW e \in Entries
  PROVE  /\ Published(e) => ent[e].build # "free"
         /\ \A b \in AdmittedTo(e) : Published(e) /\ Proven(b, e)
BY DEF IInv, EntryTrust, Published, BlankEntry

\* A step that leaves the realm alone keeps what is known of it.
LEMMA RealmKept ==
  ASSUME IInv, UNCHANGED realm
  PROVE  /\ EdgeNamesPrincipals' /\ UNCHANGED valid
         /\ evidence \subseteq evidence' /\ evidence' \subseteq Bearers
BY DEF IInv, TypeOK, EdgeNamesPrincipals, realm

\* The refresh path: the bearer is in the bound entry's tail, hence proven.
LEMMA ResolveBoundKeeps ==
  ASSUME IInv, NEW r \in Requests, ResolveBound(r) PROVE IInv'
<1> DEFINE e == Bound(r)
<1>1. /\ req[r].pc = "resolve" /\ req[r].bearer \in AdmittedTo(e)
      /\ e # NoEntry
      /\ Goto(r, "adopt", e, "none", Nobody)
      /\ UNCHANGED <<index, ent, conn, realm, closed>>
  BY DEF ResolveBound, OnLiveSession, Grant
<1>2. e \in Entries
  BY <1>1, HandlerTypes
<1> HIDE DEF e
<1>3. Published(e) /\ Proven(req[r].bearer, e) /\ ent[e].build # "free"
  BY <1>1, <1>2, InUse
<1>4. req'[r].pc = "adopt" /\ req'[r].entry = e /\ req'[r].bearer = req[r].bearer
  BY <1>1, <1>2, GotoEffect DEF IInv, PCs
<1>5. RequestTrust(r)'
  BY <1>1, <1>3, <1>4 DEF RequestTrust, Published, Proven, Building, realm
<1> QED
  BY <1>1, <1>2, <1>3, <1>5, MoveKeeps
     DEF IInv, TypeOK, EdgeNamesPrincipals, PCs, Holding, Building, realm

\* A refusal trusts nobody.
LEMMA RefusalKeeps ==
  ASSUME IInv, NEW r \in Requests, req[r].pc # "idle",
         NEW pc \in {"refused", "mismatched"}, NEW e \in Entries \cup {NoEntry},
         Goto(r, pc, e, "none", Nobody),
         UNCHANGED <<index, ent, conn, realm, closed>>
  PROVE  IInv'
<1>1. pc \in PCs /\ pc \notin Holding /\ pc \notin Building
  BY DEF PCs, Holding, Building
<1>2. RequestTrust(r)'
  <2>1. req'[r].pc = pc
    BY <1>1, GotoEffect DEF IInv
  <2> QED BY <2>1 DEF RequestTrust, Building, Holding
<1>3. /\ EdgeNamesPrincipals' /\ evidence \subseteq evidence' /\ evidence' \subseteq Bearers
      /\ UNCHANGED <<index, ent, conn, valid, closed>>
  BY RealmKept DEF realm
<1> QED BY <1>1, <1>2, <1>3, MoveKeeps

\* The bearer of another entry is refused.
LEMMA RefuseForeignKeeps ==
  ASSUME IInv, NEW r \in Requests, RefuseForeign(r) PROVE IInv'
<1> DEFINE e == Bound(r)
<1>1. /\ req[r].pc = "resolve"
      /\ Goto(r, "mismatched", e, "none", Nobody)
      /\ UNCHANGED <<index, ent, conn, realm, closed>>
  BY DEF RefuseForeign, Grant
<1>2. e \in Entries \cup {NoEntry}
  BY <1>1, HandlerTypes
<1> QED BY <1>1, <1>2, RefusalKeeps, Zenon

\* A bound entry is in use.
LEMMA ResolveFreshKeeps ==
  ASSUME IInv, NEW r \in Requests, ResolveFresh(r) PROVE IInv'
<1> DEFINE e == Bound(r)
<1>1. /\ req[r].pc = "resolve" /\ e # NoEntry /\ req[r].sid # NoSid
      /\ e = sessions[req[r].sid]
      /\ Goto(r, "probe", e, "bound", Nobody)
      /\ UNCHANGED <<index, ent, conn, realm, closed>>
  BY DEF ResolveFresh, OnLiveSession, Bound
<1>2. e \in Entries /\ req[r].sid \in Sids
  BY <1>1, HandlerTypes
<1>3. ent[e].build # "free"
  BY <1>1, <1>2, InUse DEF IInv, SessionsPublished
<1> HIDE DEF e
<1>4. RequestTrust(r)'
  <2>1. req'[r].pc = "probe" /\ req'[r].entry = e
    BY <1>1, <1>2, GotoEffect, SMTT(30) DEF IInv, PCs
  <2>2. ent'[e].build # "free"
    BY <1>1, <1>3
  <2> QED BY <2>1, <2>2 DEF RequestTrust, Building, Holding
<1> QED
  BY <1>1, <1>2, <1>3, <1>4, MoveKeeps, SMTT(30)
     DEF IInv, TypeOK, EdgeNamesPrincipals, PCs, Holding, Building, realm

\* The edge names the bearer's own principal.
LEMMA ProbeAdmittedKeeps ==
  ASSUME IInv, NEW r \in Requests, ProbeAdmitted(r) PROVE IInv'
<1> DEFINE e == req[r].entry
           b == req[r].bearer
           v == req[r].via
           w == PrincipalOf[b]
<1>1. /\ req[r].pc = "probe" /\ b \in valid
      /\ Goto(r, "compare", e, v, w)
      /\ evidence' = evidence \cup {b}
      /\ UNCHANGED <<index, ent, conn, valid, closed>>
  BY DEF ProbeAdmitted
<1>2. e \in Entries /\ ent[e].build # "free"
  BY <1>1 DEF IInv, LocalsSet, RequestTrust, Holding
<1>3. /\ b \in Bearers /\ w \in Principals \cup {Nobody} /\ w # Nobody
      /\ v \in {"none", "bound", "hint", "pri"}
  BY <1>1, HandlerTypes DEF IInv, EdgeNamesPrincipals
<1> HIDE DEF e, v
<1>4. /\ req'[r].pc = "compare" /\ req'[r].entry = e
      /\ req'[r].who = w /\ req'[r].bearer = b
  BY <1>1, <1>2, <1>3, GotoEffect, SMTT(30) DEF IInv, PCs
<1> HIDE DEF w
<1>5. RequestTrust(r)'
  BY <1>1, <1>2, <1>4 DEF RequestTrust, Building, w
<1>6. EdgeNamesPrincipals' /\ evidence' \subseteq Bearers
  BY <1>1, <1>3 DEF IInv, TypeOK, EdgeNamesPrincipals, w
<1> HIDE DEF b
<1> QED
  BY <1>1, <1>2, <1>3, <1>5, <1>6, MoveKeeps DEF PCs, Building

\* A probe that fails names nobody.
LEMMA ProbeRefusedKeeps ==
  ASSUME IInv, NEW r \in Requests, ProbeRefused(r) PROVE IInv'
<1>1. /\ req[r].pc = "probe"
      /\ Goto(r, "refused", NoEntry, "none", Nobody)
      /\ UNCHANGED <<index, ent, conn, realm, closed>>
  BY DEF ProbeRefused, Refuse
<1> QED BY <1>1, RefusalKeeps

\* Another principal on an established session is refused.
LEMMA RefuseCandidateKeeps ==
  ASSUME IInv, NEW r \in Requests, RefuseCandidate(r) PROVE IInv'
<1>1. /\ req[r].pc = "compare"
      /\ Goto(r, "mismatched", req[r].entry, "none", Nobody)
      /\ UNCHANGED <<index, ent, conn, realm, closed>>
  BY DEF RefuseCandidate, Grant
<1>2. req[r].entry \in Entries \cup {NoEntry}
  BY <1>1, HandlerTypes
<1> QED BY <1>1, <1>2, RefusalKeeps

\* The principal the probe named goes to ensurePrincipal.
LEMMA DivertCandidateKeeps ==
  ASSUME IInv, NEW r \in Requests, DivertCandidate(r) PROVE IInv'
<1> DEFINE w == req[r].who
<1>1. /\ req[r].pc = "compare"
      /\ Goto(r, "ensure", NoEntry, "none", w)
      /\ UNCHANGED <<index, ent, conn, realm, closed>>
  BY DEF DivertCandidate
<1>2. w \in Principals \cup {Nobody} /\ req[r].bearer \in evidence
      /\ w = PrincipalOf[req[r].bearer]
  BY <1>1, HandlerTypes DEF IInv, RequestTrust
<1> HIDE DEF w
<1>3. req'[r].pc = "ensure" /\ req'[r].who = w /\ req'[r].bearer = req[r].bearer
  BY <1>1, <1>2, GotoEffect, SMTT(30) DEF IInv, PCs
<1>4. w = PrincipalOf[req'[r].bearer] /\ req'[r].bearer \in evidence'
  BY <1>1, <1>2, <1>3, Zenon DEF realm
<1>5. RequestTrust(r)'
  BY <1>3, <1>4 DEF RequestTrust, Building, Holding
<1>6. "ensure" \in PCs /\ "ensure" \notin Holding /\ "ensure" \notin Building
  BY DEF PCs, Holding, Building
<1>7. EdgeNamesPrincipals' /\ evidence \subseteq evidence' /\ evidence' \subseteq Bearers
  BY <1>1 DEF IInv, TypeOK, EdgeNamesPrincipals, realm
<1> QED
  BY <1>1, <1>2, <1>5, <1>6, <1>7, MoveKeeps DEF realm

\* principalOf reads the badge: the principal of the bearer presented.
LEMMA IdentifyKeeps ==
  ASSUME IInv, NEW r \in Requests, Identify(r) PROVE IInv'
<1> DEFINE e == req[r].entry
           v == req[r].via
           w == PrincipalOf[conn[e].badge]
<1>1. /\ req[r].pc = "identify" /\ conn[e].state = "up"
      /\ Goto(r, "wire", e, v, w)
      /\ UNCHANGED <<index, ent, conn, realm, closed>>
  BY DEF Identify
<1>2. /\ e \in Entries /\ ent[e].build # "free" /\ v \in {"hint", "pri"}
      /\ ent[e].latest \in evidence
  BY <1>1 DEF IInv, LocalsSet, RequestTrust, Holding, Building
<1>3. conn[e].badge \in Bearers /\ w = PrincipalOf[ent[e].latest]
  BY <1>1, <1>2 DEF IInv, LocalsSet, EntryTrust
<1>4. w \in Principals \cup {Nobody}
  BY <1>3, ConstantsAreTyped
<1> HIDE DEF w
<1>5. /\ req'[r].pc = "wire" /\ req'[r].entry = e /\ req'[r].via = v
      /\ req'[r].who = w /\ req'[r].bearer = req[r].bearer
  BY <1>1, <1>2, <1>4, GotoEffect DEF IInv, PCs
<1>6. RequestTrust(r)
  BY DEF IInv
<1>7. RequestTrust(r)'
  BY <1>1, <1>2, <1>3, <1>5, <1>6
     DEF RequestTrust, Building, Holding, realm, Published, Proven
<1>8. "wire" \in PCs /\ v \in {"none", "bound", "hint", "pri"}
  BY <1>2 DEF PCs
<1> HIDE DEF e, v
<1> QED
  BY <1>1, <1>2, <1>4, <1>7, <1>8, RealmKept, MoveKeeps

---------------------------------------------------------------------------
(* Steps that evict, and steps that make a new entry.                      *)

\* Eviction unbinds sessions and binds none.
LEMMA EvictionKeepsSessions ==
  ASSUME IInv, NEW D
  PROVE  \A s \in Sids : SessionsWithout(D)[s] # NoEntry => Published(SessionsWithout(D)[s])
BY DEF IInv, SessionsPublished, SessionsWithout

\* Eviction never leaves an index pointing where the entry does not agree.
LEMMA EvictionKeepsIndex ==
  ASSUME IInv, UNCHANGED ent, NEW D,
         entries' = EntriesWithout(D), byBearer' = BearersWithout(D)
  PROVE  IndexConsistent'
BY SameAdmitted DEF IInv, TypeOK, IndexConsistent, EntriesWithout, BearersWithout

\* Binding to an entry with a visible principal (pool.go:356-359).
LEMMA BindPublishes ==
  ASSUME NEW ss \in [Sids -> Entries \cup {NoEntry}], NEW sid \in Sids \cup {NoSid},
         NEW e \in Entries, Published(e),
         \A s \in Sids : ss[s] # NoEntry => Published(ss[s])
  PROVE  \A s \in Sids : Bind(ss, sid, e)[s] # NoEntry => Published(Bind(ss, sid, e)[s])
BY DEF Bind

\* A handler moves on and evicts what it met; the entries stay as they are.
LEMMA EvictAndMoveKeeps ==
  ASSUME IInv, NEW r \in Requests, NEW D,
         NEW pc \in PCs, NEW e \in Entries \cup {NoEntry},
         NEW via \in {"none", "bound", "hint", "pri"},
         NEW who \in Principals \cup {Nobody},
         Goto(r, pc, e, via, who), req[r].pc # "idle",
         UNCHANGED <<ent, realm, closed>>, Shutdown(D),
         entries' = EntriesWithout(D), byBearer' = BearersWithout(D),
         sessions' \in [Sids -> Entries \cup {NoEntry}], SessionsPublished',
         pc \in Holding => e \in Entries /\ ent[e].build # "free",
         pc \in Building => via \in {"hint", "pri"},
         RequestTrust(r)'
  PROVE  IInv'
<1>1. /\ req' \in [Requests -> RequestType]
      /\ \A s \in Requests \ {r} : req'[s] = req[s]
      /\ req'[r].pc = pc /\ req'[r].entry = e /\ req'[r].via = via
      /\ req'[r].bearer = req[r].bearer
  BY GotoEffect DEF IInv
<1>2. /\ entries' \in [Keys -> Entries \cup {NoEntry}]
      /\ byBearer' \in [Bearers -> Entries \cup {NoEntry}]
      /\ conn' \in [Entries -> ConnType]
      /\ \A f \in Entries : Quiet(f)
  BY IndexTypes, ShutdownIsQuiet DEF IInv
<1>3. TypeOK'
  BY <1>1, <1>2 DEF IInv, TypeOK, realm
<1>4. IndexConsistent'
  BY EvictionKeepsIndex
<1>5. LocalsOf(r)'
  BY <1>1 DEF IInv, LocalsSet, LocalsOf
<1>6. EdgeNamesPrincipals' /\ evidence \subseteq evidence'
  BY DEF IInv, EdgeNamesPrincipals, realm
<1> QED BY <1>1, <1>2, <1>3, <1>4, <1>5, <1>6, PreserveEntries

\* byBearer leads to an entry that admitted the bearer.
LEMMA ResolveKnownKeeps ==
  ASSUME IInv, NEW r \in Requests, ResolveKnown(r) PROVE IInv'
<1> DEFINE e == byBearer[req[r].bearer]
           D == Corpses({Bound(r)})
<1>1. /\ req[r].pc = "resolve" /\ e # NoEntry
      /\ entries'  = EntriesWithout(D)
      /\ byBearer' = BearersWithout(D)
      /\ sessions' = Bind(SessionsWithout(D), req[r].sid, e)
      /\ Shutdown(D)
      /\ Goto(r, "adopt", e, "none", Nobody)
      /\ UNCHANGED <<ent, realm, closed>>
  BY DEF ResolveKnown, Grant, Known
<1>2. e \in Entries /\ req[r].bearer \in AdmittedTo(e) /\ req[r].sid \in Sids \cup {NoSid}
  BY <1>1, HandlerTypes DEF IInv, TypeOK, IndexConsistent
<1> HIDE DEF e, D
<1>3. Published(e) /\ Proven(req[r].bearer, e) /\ ent[e].build # "free"
  BY <1>2, InUse
<1>4. /\ sessions' \in [Sids -> Entries \cup {NoEntry}]
      /\ SessionsPublished'
  <2>1. SessionsWithout(D) \in [Sids -> Entries \cup {NoEntry}]
    BY IndexTypes DEF IInv
  <2>2. \A s \in Sids : SessionsWithout(D)[s] # NoEntry => Published(SessionsWithout(D)[s])
    BY EvictionKeepsSessions
  <2>3. /\ sessions' \in [Sids -> Entries \cup {NoEntry}]
        /\ \A s \in Sids : sessions'[s] # NoEntry => Published(sessions'[s])
    BY <1>1, <1>2, <1>3, <2>1, <2>2, BindType, BindPublishes
  <2> QED BY <1>1, <2>3 DEF SessionsPublished, Published
<1>5. req'[r].pc = "adopt" /\ req'[r].entry = e /\ req'[r].bearer = req[r].bearer
  BY <1>1, <1>2, GotoEffect DEF IInv, PCs
<1>6. RequestTrust(r)'
  BY <1>1, <1>3, <1>5 DEF RequestTrust, Published, Proven, Building, realm
<1> QED
  BY <1>1, <1>2, <1>3, <1>4, <1>6, EvictAndMoveKeeps DEF PCs, Holding, Building

\* The session index after an eviction.
LEMMA EvictedSessions ==
  ASSUME IInv, UNCHANGED ent, NEW D, sessions' = SessionsWithout(D)
  PROVE  sessions' \in [Sids -> Entries \cup {NoEntry}] /\ SessionsPublished'
<1>1. sessions' \in [Sids -> Entries \cup {NoEntry}]
  BY IndexTypes DEF IInv
<1> QED BY <1>1, EvictionKeepsSessions DEF SessionsPublished, Published

\* An entry met on the hint is built or compared with, never trusted.
LEMMA RouteExistingKeeps ==
  ASSUME IInv, NEW r \in Requests, RouteExisting(r) PROVE IInv'
<1> DEFINE b == req[r].bearer
           e == entries[routeHint(b)]
           D == Touched(r)
           pc == IF sameLatest(e, b) THEN "build" ELSE "probe"
<1>1. /\ req[r].pc = "resolve" /\ e # NoEntry
      /\ entries'  = EntriesWithout(D)
      /\ byBearer' = BearersWithout(D)
      /\ sessions' = SessionsWithout(D)
      /\ Shutdown(D)
      /\ Goto(r, pc, e, "hint", Nobody)
      /\ UNCHANGED <<ent, realm, closed>>
  BY DEF RouteExisting, ByHint, evictLocked
<1>2. b \in Bearers /\ routeHint(b) \in Keys
  BY <1>1, HandlerTypes, KeyFacts
<1>3. e \in Entries /\ ent[e].key = routeHint(b)
  BY <1>1, <1>2 DEF IInv, TypeOK, IndexConsistent
<1>4. ent[e].build # "free"
  BY <1>2, <1>3, KeyFacts DEF IInv, EntryTrust, BlankEntry
<1>5. pc \in {"build", "probe"} /\ (pc = "build" => ent[e].latest = b)
  BY DEF sameLatest
<1>6. Published(e) => Proven(ent[e].latest, e)
  BY <1>3 DEF IInv, EntryTrust
<1> HIDE DEF b, e, D, pc
<1>7. /\ req'[r].pc = pc /\ req'[r].entry = e /\ req'[r].via = "hint"
      /\ req'[r].bearer = b
  BY <1>1, <1>3, <1>5, GotoEffect DEF IInv, PCs, b
<1>8. RequestTrust(r)'
  BY <1>1, <1>4, <1>5, <1>6, <1>7 DEF RequestTrust, Published, Proven, Building, realm
<1>9. sessions' \in [Sids -> Entries \cup {NoEntry}] /\ SessionsPublished'
  BY <1>1, EvictedSessions
<1> QED
  BY <1>1, <1>3, <1>4, <1>5, <1>8, <1>9, EvictAndMoveKeeps DEF PCs, Holding, Building

\* A failed build is evicted.
LEMMA RefuseBuiltKeeps ==
  ASSUME IInv, NEW r \in Requests, RefuseBuilt(r) PROVE IInv'
<1> DEFINE D == {req[r].entry}
<1>1. /\ req[r].pc = "build"
      /\ entries'  = EntriesWithout(D)
      /\ byBearer' = BearersWithout(D)
      /\ sessions' = SessionsWithout(D)
      /\ Shutdown(D)
      /\ Goto(r, "refused", NoEntry, "none", Nobody)
      /\ UNCHANGED <<ent, realm, closed>>
  BY DEF RefuseBuilt, evictLocked, Refuse
<1> HIDE DEF D
<1>2. RequestTrust(r)'
  BY <1>1, GotoEffect, SMTT(30) DEF IInv, PCs, RequestTrust, Building, Holding
<1>3. sessions' \in [Sids -> Entries \cup {NoEntry}] /\ SessionsPublished'
  BY <1>1, EvictedSessions
<1> QED
  BY <1>1, <1>2, <1>3, EvictAndMoveKeeps DEF PCs, Holding, Building

\* An entry under a principal's alias is that principal's.
LEMMA EnsureExistingKeeps ==
  ASSUME IInv, NEW r \in Requests, EnsureExisting(r) PROVE IInv'
<1> DEFINE b == req[r].bearer
           w == req[r].who
           e == entries[principalKey(w)]
<1>1. /\ req[r].pc = "ensure" /\ e # NoEntry
      /\ Goto(r, "build", e, "pri", Nobody)
      /\ UNCHANGED <<index, ent, conn, realm, closed>>
  BY DEF EnsureExisting
<1>2. b \in evidence /\ w = PrincipalOf[b] /\ w \in Principals
  BY <1>1, HandlerTypes DEF IInv, RequestTrust, EdgeNamesPrincipals
<1>3. principalKey(w) \in Keys /\ principalKey(w) # NoKey
  BY <1>2, KeyFacts
<1>4. e \in Entries /\ ent[e].key = principalKey(w)
  BY <1>1, <1>3 DEF IInv, TypeOK, IndexConsistent
<1>5. ent[e].build # "free" /\ PrincipalOf[ent[e].latest] = w
  BY <1>2, <1>3, <1>4 DEF IInv, EntryTrust, BlankEntry
<1> HIDE DEF b, w, e
<1>6. /\ req'[r].pc = "build" /\ req'[r].entry = e /\ req'[r].via = "pri"
      /\ req'[r].bearer = b
  BY <1>1, <1>4, GotoEffect DEF IInv, PCs, b
<1>7. RequestTrust(r)'
  BY <1>1, <1>2, <1>5, <1>6 DEF RequestTrust, Building, Holding, realm
<1> QED
  BY <1>1, <1>4, <1>5, <1>7, MoveKeeps
     DEF IInv, TypeOK, EdgeNamesPrincipals, PCs, Holding, Building, realm

\* A new entry (pool.go:241-245, 266-270) is typed, and is nobody yet.
LEMMA NewEntryType ==
  ASSUME NEW k \in Keys, NEW b \in Bearers
  PROVE  /\ newEntry(k, b) \in EntryType
         /\ newEntry(k, b).key = k /\ newEntry(k, b).latest = b
         /\ newEntry(k, b).build = "new" /\ newEntry(k, b).failed = FALSE
         /\ newEntry(k, b).principal = Nobody /\ newEntry(k, b).admitted = <<>>
<1>1. BlankEntry \in [key : Keys \cup {NoKey}, latest : Bearers \cup {NoBearer},
                      build : {"free", "new", "building", "done"}, failed : BOOLEAN,
                      wired : SUBSET {"nc", "server"},
                      principal : Principals \cup {Nobody},
                      admitted : Seq(Bearers)]
  BY DEF BlankEntry
<1>2. /\ BlankEntry.failed = FALSE /\ BlankEntry.principal = Nobody
      /\ BlankEntry.admitted = <<>>
  BY DEF BlankEntry
<1> QED BY <1>1, <1>2 DEF newEntry, EntryType

\* A new entry object under key k for bearer b, after evicting D: the step of
\* both routeByHint and ensurePrincipal.
LEMMA NewEntryKeeps ==
  ASSUME IInv, NEW r \in Requests, req[r].pc # "idle", NEW D,
         NEW k \in Keys, NEW e \in Entries, ent[e].build = "free",
         entries'  = [EntriesWithout(D) EXCEPT ![k] = e],
         byBearer' = BearersWithout(D),
         sessions' = SessionsWithout(D),
         Shutdown(D),
         ent' = [ent EXCEPT ![e] = newEntry(k, req[r].bearer)],
         NEW via \in {"hint", "pri"},
         Goto(r, "build", e, via, Nobody),
         UNCHANGED <<realm, closed>>,
         \A p \in Principals : k = principalKey(p) => PrincipalOf[req[r].bearer] = p,
         via = "pri" => req[r].bearer \in evidence
  PROVE  IInv'
<1> DEFINE b == req[r].bearer
<1>1. /\ TypeOK /\ b \in Bearers /\ b # NoBearer
  BY HandlerTypes, NullsAreNotValues DEF IInv
<1>2. /\ newEntry(k, b) \in EntryType
      /\ newEntry(k, b).key = k /\ newEntry(k, b).latest = b
      /\ newEntry(k, b).build = "new" /\ newEntry(k, b).failed = FALSE
      /\ newEntry(k, b).principal = Nobody /\ newEntry(k, b).admitted = <<>>
  BY <1>1, NewEntryType DEF b
<1> DEFINE q == newEntry(k, b)
<1> HIDE DEF b, q
<1>3. /\ ent' \in [Entries -> EntryType]
      /\ \A f \in Entries : Len(ent'[f].admitted) <= Keep
      /\ ent'[e] = q
      /\ \A f \in Entries \ {e} : ent'[f] = ent[f]
  <2>1. q \in EntryType /\ Len(q.admitted) <= Keep /\ ent' = [ent EXCEPT ![e] = q]
    BY <1>2 DEF Keep, b, q
  <2> QED BY <1>1, <2>1, EntEffect
<1>4. /\ req' \in [Requests -> RequestType]
      /\ \A s \in Requests \ {r} : req'[s] = req[s]
      /\ req'[r].pc = "build" /\ req'[r].entry = e /\ req'[r].via = via
      /\ req'[r].bearer = b
  BY <1>1, GotoEffect DEF PCs, b
<1>5. /\ conn' \in [Entries -> ConnType]
      /\ \A f \in Entries : Quiet(f)
  BY ShutdownIsQuiet
<1>6. /\ entries' \in [Keys -> Entries \cup {NoEntry}]
      /\ byBearer' \in [Bearers -> Entries \cup {NoEntry}]
      /\ sessions' \in [Sids -> Entries \cup {NoEntry}]
  BY <1>1, IndexTypes
<1>7. TypeOK'
  BY <1>1, <1>3, <1>4, <1>5, <1>6 DEF TypeOK, realm
<1>8. ent[e] = BlankEntry
  BY DEF IInv, EntryTrust
<1>9. /\ \A j \in Keys : entries[j] # e
      /\ \A c \in Bearers : byBearer[c] # e
      /\ \A s \in Sids : sessions[s] # e
      /\ \A s \in Requests : req[s].pc \in Holding => req[s].entry # e
  <2>1. AdmittedTo(e) = {} /\ ~Published(e) /\ ent[e].key = NoKey
    BY <1>8, NothingAdmitted DEF BlankEntry, Published
  <2>2. \A j \in Keys : entries[j] # e
    BY <2>1, KeyFacts, NullsAreNotValues DEF IInv, IndexConsistent
  <2>3. \A c \in Bearers : byBearer[c] # e
    BY <2>1, NullsAreNotValues DEF IInv, IndexConsistent
  <2>4. \A s \in Sids : sessions[s] # e
    BY <2>1, NullsAreNotValues DEF IInv, SessionsPublished
  <2>5. \A s \in Requests : req[s].pc \in Holding => req[s].entry # e
    BY DEF IInv, RequestTrust
  <2> QED BY <2>2, <2>3, <2>4, <2>5
<1>10. ASSUME NEW f \in Entries
       PROVE  EntryTrust(f)' /\ (ent[f].build # "free" => Stable(f))
  <2>1. CASE f # e
    <3>1. EntryTrust(f) /\ ent'[f] = ent[f] /\ evidence \subseteq evidence' /\ Quiet(f)
      BY <1>3, <1>5, <2>1 DEF IInv, realm
    <3> QED BY <3>1, EntryKeepsTrust
  <2>2. CASE f = e
    <3>1. conn'[e].state # "up"
      BY <1>5 DEF IInv, EntryTrust, Quiet, Offline
    <3>2. AdmittedTo(e)' = {} /\ ~Published(e)'
      BY <1>2, <1>3, NothingAdmitted DEF Published, AdmittedTo, b, q
    <3>3. /\ ent'[e].build = "new" /\ ent'[e].latest = b /\ ent'[e].key = k
      BY <1>2, <1>3 DEF b, q
    <3>4. EntryTrust(e)'
      BY <3>1, <3>2, <3>3 DEF EntryTrust, b
    <3> QED BY <2>2, <3>4
  <2> QED BY <2>1, <2>2
<1>11. IndexConsistent'
  <2>1. \A f \in Entries \ {e} : AdmittedTo(f)' = AdmittedTo(f)
    BY <1>3 DEF AdmittedTo
  <2>2. \A j \in Keys : entries'[j] # NoEntry => ent'[entries'[j]].key = j
    <3>1. \A j \in Keys \ {k} : entries'[j] # NoEntry =>
            entries'[j] = entries[j] /\ entries[j] \in Entries \ {e}
      BY <1>1, <1>6, <1>9 DEF TypeOK, EntriesWithout
    <3>2. entries'[k] = e /\ ent'[e].key = k
      BY <1>1, <1>2, <1>3, IndexTypes DEF b, q
    <3> QED BY <1>3, <3>1, <3>2 DEF IInv, IndexConsistent
  <2>3. \A c \in Bearers : byBearer'[c] # NoEntry =>
          byBearer'[c] = byBearer[c] /\ byBearer[c] \in Entries \ {e}
    BY <1>1, <1>6, <1>9 DEF TypeOK, BearersWithout
  <2> QED BY <2>1, <2>2, <2>3 DEF IInv, IndexConsistent
<1>12. SessionsPublished'
  <2>1. \A s \in Sids : sessions'[s] # NoEntry =>
          sessions'[s] = sessions[s] /\ sessions[s] \in Entries \ {e}
    BY <1>1, <1>6, <1>9 DEF TypeOK, SessionsWithout
  <2> QED BY <1>3, <2>1 DEF IInv, SessionsPublished, Published
<1>13. RequestTrust(r)'
  BY <1>2, <1>3, <1>4 DEF RequestTrust, Building, Published, realm, b, q
<1>14. LocalsOf(r)'
  BY <1>1, <1>4 DEF LocalsOf, Building
<1>15. /\ EdgeNamesPrincipals' /\ evidence \subseteq evidence'
       /\ \A f \in Entries : conn'[f].state = "up" => conn'[f].badge \in Bearers
  BY <1>5 DEF IInv, EdgeNamesPrincipals, LocalsSet, Quiet, realm
<1> QED
  BY <1>4, <1>7, <1>10, <1>11, <1>12, <1>13, <1>14, <1>15, Preserve

\* First sight of a hint.
LEMMA RouteNewKeeps ==
  ASSUME IInv, NEW r \in Requests, NEW e \in Entries, RouteNew(r, e) PROVE IInv'
<1>1. req[r].pc = "resolve" /\ ent[e].build = "free"
  BY DEF RouteNew, ByHint, Free
<1>2. req[r].bearer \in Bearers
  BY <1>1, HandlerTypes
<1>3. routeHint(req[r].bearer) \in Keys
      /\ \A p \in Principals : routeHint(req[r].bearer) # principalKey(p)
  BY <1>2, KeyFacts
<1> DEFINE k == routeHint(req[r].bearer)
           D == Touched(r)
<1>4. /\ entries'  = [EntriesWithout(D) EXCEPT ![k] = e]
      /\ byBearer' = BearersWithout(D)
      /\ sessions' = SessionsWithout(D)
      /\ Shutdown(D)
      /\ ent' = [ent EXCEPT ![e] = newEntry(k, req[r].bearer)]
      /\ Goto(r, "build", e, "hint", Nobody)
      /\ UNCHANGED <<realm, closed>>
  BY DEF RouteNew
<1> HIDE DEF k, D
<1>5. k \in Keys /\ \A p \in Principals : k # principalKey(p)
  BY <1>3 DEF k
<1> QED BY <1>1, <1>4, <1>5, NewEntryKeeps

\* First entry under a principal's alias.
LEMMA EnsureNewKeeps ==
  ASSUME IInv, NEW r \in Requests, NEW e \in Entries, EnsureNew(r, e) PROVE IInv'
<1> DEFINE w == req[r].who
           k == principalKey(w)
           D == Corpses({entries[k]})
<1>1. req[r].pc = "ensure" /\ ent[e].build = "free"
  BY DEF EnsureNew, Free
<1>2. req[r].bearer \in evidence /\ w = PrincipalOf[req[r].bearer] /\ w \in Principals
  BY <1>1, HandlerTypes DEF IInv, RequestTrust, EdgeNamesPrincipals
<1>3. k \in Keys /\ \A p \in Principals : k = principalKey(p) => p = w
  BY <1>2, KeyFacts DEF principalKey
<1>4. /\ entries'  = [EntriesWithout(D) EXCEPT ![k] = e]
      /\ byBearer' = BearersWithout(D)
      /\ sessions' = SessionsWithout(D)
      /\ Shutdown(D)
      /\ ent' = [ent EXCEPT ![e] = newEntry(k, req[r].bearer)]
      /\ Goto(r, "build", e, "pri", Nobody)
      /\ UNCHANGED <<realm, closed>>
  BY DEF EnsureNew
<1> HIDE DEF k, D, w
<1> QED BY <1>1, <1>2, <1>3, <1>4, NewEntryKeeps

---------------------------------------------------------------------------
(* Steps of connect and adopt, which rewrite fields of one entry.          *)

\* The admitted bearers are those of the tail.
LEMMA SeqSame == \A e : ent'[e].admitted = ent[e].admitted => AdmittedTo(e)' = AdmittedTo(e)
BY DEF AdmittedTo

\* A step that rewrites fields of one entry, but not its key, its tail or a
\* principal that is already visible.
LEMMA UpdateEntryKeeps ==
  ASSUME IInv, NEW r \in Requests, NEW e \in Entries,
         ent' \in [Entries -> EntryType],
         \A f \in Entries \ {e} : ent'[f] = ent[f],
         ent'[e].key = ent[e].key, ent'[e].admitted = ent[e].admitted,
         Published(e) => Published(e)',
         UNCHANGED <<index, valid, closed>>,
         conn' \in [Entries -> ConnType],
         conn'[e].state = "up" => conn'[e].badge \in Bearers,
         \A f \in Entries \ {e} : conn'[f] = conn[f],
         evidence \subseteq evidence', evidence' \subseteq Bearers,
         EdgeNamesPrincipals', EntryTrust(e)', Stable(e),
         req' \in [Requests -> RequestType],
         \A s \in Requests \ {r} : req'[s] = req[s],
         req'[r] # req[r] => LocalsOf(r)' /\ RequestTrust(r)'
  PROVE  IInv'
<1>1. \A f \in Entries : ent'[f].admitted = ent[f].admitted /\ ent'[f].key = ent[f].key
  OBVIOUS
<1>2. TypeOK'
  BY <1>1 DEF IInv, TypeOK, index
<1>3. \A f \in Entries : /\ AdmittedTo(f)' = AdmittedTo(f)
                         /\ ent'[f].key = ent[f].key
                         /\ Published(f) => Published(f)'
  BY <1>1, SeqSame DEF Published
<1>4. IndexConsistent' /\ SessionsPublished'
  BY <1>3 DEF IInv, TypeOK, IndexConsistent, SessionsPublished, index
<1>5. ASSUME NEW f \in Entries \ {e}
      PROVE  EntryTrust(f)' /\ (ent[f].build # "free" => Stable(f))
  <2>1. EntryTrust(f) /\ ent'[f] = ent[f] /\ Quiet(f)
    BY DEF IInv, Quiet
  <2> QED BY <2>1, EntryKeepsTrust
<1>6. \A f \in Entries : conn'[f].state = "up" => conn'[f].badge \in Bearers
  BY DEF IInv, LocalsSet
<1>7. \A s \in Requests : req'[s] # req[s] => LocalsOf(s)' /\ RequestTrust(s)'
  OBVIOUS
<1> QED BY <1>2, <1>4, <1>5, <1>6, <1>7, PreserveAny

\* The edge admits the bearer connect presents.
LEMMA DialKeeps ==
  ASSUME IInv, NEW r \in Requests, Dial(r) PROVE IInv'
<1>1. req[r].pc = "build"
  BY DEF Dial
<1>2. PICK e \in Entries, v \in {"hint", "pri"} : req[r].entry = e /\ req[r].via = v
  BY <1>1 DEF IInv, LocalsSet, Holding, Building
<1>3. PICK b \in Bearers : ent[e].latest = b /\ b \in valid
  BY <1>2 DEF Dial, IInv, EdgeNamesPrincipals
<1>4. PICK q : q = [ent[e] EXCEPT !.build = "building"]
  OBVIOUS
<1>5. /\ ent[e].build = "new"
      /\ ent' = [ent EXCEPT ![e] = q]
      /\ conn' = [conn EXCEPT ![e] = UpAs(b)]
      /\ evidence' = evidence \cup {b}
      /\ Goto(r, "identify", e, v, Nobody)
      /\ UNCHANGED <<index, valid, closed>>
  BY <1>2, <1>3, <1>4 DEF Dial
<1>6. /\ ent[e] \in EntryType /\ conn \in [Entries -> ConnType]
      /\ RequestTrust(r) /\ EntryTrust(e) /\ TypeOK
  BY DEF IInv, TypeOK
<1>7. /\ q \in EntryType /\ q.key = ent[e].key /\ q.admitted = ent[e].admitted
      /\ q.principal = ent[e].principal /\ q.latest = b
      /\ q.build = "building" /\ q.build # "free"
  BY <1>3, <1>4, <1>6 DEF EntryType
<1>8. /\ conn' \in [Entries -> ConnType]
      /\ \A f \in Entries \ {e} : conn'[f] = conn[f]
      /\ conn'[e].state = "up" /\ conn'[e].badge = b /\ conn'[e].badge \in Bearers
  BY <1>5, <1>6 DEF ConnType, UpAs
<1>9. EdgeNamesPrincipals' /\ evidence \subseteq evidence' /\ evidence' \subseteq Bearers
  BY <1>3, <1>5 DEF IInv, TypeOK, EdgeNamesPrincipals
<1>10. /\ req' \in [Requests -> RequestType]
       /\ \A s \in Requests \ {r} : req'[s] = req[s]
       /\ req'[r].pc = "identify" /\ req'[r].entry = e /\ req'[r].via = v
       /\ req'[r].bearer = req[r].bearer
  BY <1>5, <1>6, GotoEffect DEF PCs
<1>11. /\ ent' \in [Entries -> EntryType]
       /\ ent'[e] = q
       /\ \A f \in Entries \ {e} : ent'[f] = ent[f]
  BY <1>5, <1>6, <1>7 DEF TypeOK
<1>12. EntryTrust(e)' /\ Stable(e) /\ LocalsOf(r)' /\ RequestTrust(r)'
  <2>1. AdmittedTo(e)' = AdmittedTo(e)
    BY <1>7, <1>11, SeqSame
  <2>2. EntryTrust(e)'
    BY <1>3, <1>5, <1>6, <1>7, <1>8, <1>11, <2>1 DEF EntryTrust, Published, Proven
  <2>3. Stable(e)
    BY <1>3, <1>5, <1>7, <1>11 DEF Stable, Published
  <2>4. LocalsOf(r)'
    BY <1>1, <1>10, HandlerTypes DEF LocalsOf, Holding, Building
  <2>5. RequestTrust(r)'
    BY <1>1, <1>2, <1>3, <1>5, <1>6, <1>7, <1>10, <1>11
       DEF RequestTrust, Published, Proven, Holding, Building
  <2> QED BY <2>2, <2>3, <2>4, <2>5
<1>13. Published(e) => Published(e)'
  BY <1>7, <1>11 DEF Published
<1> QED
  BY <1>5, <1>7, <1>8, <1>9, <1>10, <1>11, <1>12, <1>13, UpdateEntryKeeps

\* build.Do ends in an error: for DialRefused and SetupFailed.
LEMMA BuildFails ==
  ASSUME IInv, NEW r \in Requests, NEW e \in Entries, NEW v \in {"hint", "pri"},
         req[r].pc \in {"build", "identify"}, req[r].entry = e, req[r].via = v,
         ent' = [ent EXCEPT ![e] = [@ EXCEPT !.build = "done", !.failed = TRUE]],
         conn' \in [Entries -> ConnType],
         conn'[e].state = "up" => conn'[e] = conn[e],
         \A f \in Entries \ {e} : conn'[f] = conn[f],
         UNCHANGED req \/ Goto(r, "build", e, v, Nobody),
         UNCHANGED <<index, realm, closed>>
  PROVE  IInv'
<1>1. PICK q : q = [ent[e] EXCEPT !.build = "done", !.failed = TRUE]
  OBVIOUS
<1>2. /\ ent[e] \in EntryType /\ RequestTrust(r) /\ EntryTrust(e) /\ TypeOK
      /\ req \in [Requests -> RequestType] /\ ent[e].build # "free"
  BY DEF IInv, TypeOK, RequestTrust, Holding
<1>3. /\ q \in EntryType /\ q.key = ent[e].key /\ q.admitted = ent[e].admitted
      /\ q.principal = ent[e].principal /\ q.latest = ent[e].latest
      /\ q.build = "done" /\ q.failed = TRUE
  BY <1>1, <1>2 DEF EntryType
<1>4. /\ ent' \in [Entries -> EntryType]
      /\ ent'[e] = q
      /\ \A f \in Entries \ {e} : ent'[f] = ent[f]
  BY <1>1, <1>2, <1>3 DEF TypeOK
<1>5. EdgeNamesPrincipals' /\ evidence \subseteq evidence' /\ evidence' \subseteq Bearers
      /\ UNCHANGED <<valid, evidence>>
  BY RealmKept DEF realm
<1>6. EntryTrust(e)' /\ Stable(e)
  <2>1. AdmittedTo(e)' = AdmittedTo(e)
    BY <1>3, <1>4, SeqSame
  <2>2. EntryTrust(e)'
    BY <1>2, <1>3, <1>4, <1>5, <2>1 DEF EntryTrust, Published, Proven
  <2>3. Stable(e)
    BY <1>3, <1>4, <1>5 DEF Stable, Published
  <2> QED BY <2>2, <2>3
<1>7. /\ req' \in [Requests -> RequestType]
      /\ \A s \in Requests \ {r} : req'[s] = req[s]
      /\ req'[r] # req[r] => LocalsOf(r)' /\ RequestTrust(r)'
  <2>1. CASE UNCHANGED req
    BY <1>2, <2>1
  <2>2. CASE Goto(r, "build", e, v, Nobody)
    <3>1. /\ req' \in [Requests -> RequestType]
          /\ \A s \in Requests \ {r} : req'[s] = req[s]
          /\ req'[r].pc = "build" /\ req'[r].entry = e /\ req'[r].via = v
          /\ req'[r].bearer = req[r].bearer
      BY <1>2, <2>2, GotoEffect DEF PCs
    <3>2. LocalsOf(r)'
      BY <3>1, HandlerTypes DEF LocalsOf, Holding, Building
    <3>3. RequestTrust(r)'
      BY <1>2, <1>3, <1>4, <1>5, <3>1
         DEF RequestTrust, Published, Proven, Holding, Building
    <3> QED BY <3>1, <3>2, <3>3
  <2> QED BY <2>1, <2>2
<1>8. /\ Published(e) => Published(e)'
      /\ conn'[e].state = "up" => conn'[e].badge \in Bearers
  BY <1>3, <1>4 DEF Published, IInv, LocalsSet
<1> QED
  BY <1>3, <1>4, <1>5, <1>6, <1>7, <1>8, UpdateEntryKeeps

\* The edge refuses the bearer connect presents.
LEMMA DialRefusedKeeps ==
  ASSUME IInv, NEW r \in Requests, DialRefused(r) PROVE IInv'
<1>1. req[r].pc = "build"
  BY DEF DialRefused
<1>2. PICK e \in Entries, v \in {"hint", "pri"} : req[r].entry = e /\ req[r].via = v
  BY <1>1 DEF IInv, LocalsSet, Holding, Building
<1>3. /\ ent' = [ent EXCEPT ![e] = [@ EXCEPT !.build = "done", !.failed = TRUE]]
      /\ UNCHANGED <<index, conn, req, realm, closed>>
  BY <1>2 DEF DialRefused
<1>4. conn \in [Entries -> ConnType]
  BY DEF IInv, TypeOK
<1> QED BY <1>1, <1>2, <1>3, <1>4, BuildFails

\* Anything after the dial fails.
LEMMA SetupFailedKeeps ==
  ASSUME IInv, NEW r \in Requests, SetupFailed(r) PROVE IInv'
<1>1. req[r].pc = "identify" /\ req[r].pc \in {"build", "identify"}
  BY DEF SetupFailed
<1>2. PICK e \in Entries, v \in {"hint", "pri"} : req[r].entry = e /\ req[r].via = v
  BY <1>1 DEF IInv, LocalsSet, Holding, Building
<1>3. /\ ent' = [ent EXCEPT ![e] = [@ EXCEPT !.build = "done", !.failed = TRUE]]
      /\ Goto(r, "build", e, v, Nobody)
      /\ UNCHANGED <<index, realm, closed>>
  BY <1>2 DEF SetupFailed
<1>4. conn' = [conn EXCEPT ![e] = Offline("closed")]
  BY <1>2 DEF SetupFailed
<1>5. /\ conn' \in [Entries -> ConnType]
      /\ conn'[e].state = "up" => conn'[e] = conn[e]
      /\ \A f \in Entries \ {e} : conn'[f] = conn[f]
  BY <1>4 DEF IInv, TypeOK, ConnType, Offline
<1> QED BY <1>1, <1>2, <1>3, <1>5, BuildFails

\* One unsynchronised publication.
LEMMA WireKeeps ==
  ASSUME IInv, NEW r \in Requests, Wire(r) PROVE IInv'
<1>1. req[r].pc = "wire"
  BY DEF Wire
<1>2. PICK e \in Entries, w \in Principals \cup {Nobody} : req[r].entry = e /\ req[r].who = w
  BY <1>1, HandlerTypes DEF IInv, LocalsSet, Holding
<1>3. /\ ent[e] \in EntryType /\ RequestTrust(r) /\ EntryTrust(e) /\ TypeOK
      /\ req \in [Requests -> RequestType] /\ conn \in [Entries -> ConnType]
      /\ UNCHANGED <<index, conn, req, realm, closed>>
  BY DEF IInv, TypeOK, Wire
<1>4. /\ ent[e].latest \in evidence /\ ent[e].build # "free"
      /\ PrincipalOf[ent[e].latest] = w /\ w # Nobody
  BY <1>1, <1>2, <1>3 DEF RequestTrust, IInv, EdgeNamesPrincipals, Holding
<1>5. PICK q \in EntryType :
        /\ ent' = [ent EXCEPT ![e] = q]
        /\ q.key = ent[e].key /\ q.admitted = ent[e].admitted
        /\ q.latest = ent[e].latest /\ q.build = ent[e].build
        /\ q.failed = ent[e].failed
        /\ \/ q.principal = ent[e].principal
           \/ ~Published(e) /\ q.principal = w
  <2>1. CASE \E f \in {"nc", "server"} \ ent[e].wired :
               ent' = [ent EXCEPT ![e].wired = @ \cup {f}]
    <3>1. PICK f \in {"nc", "server"} : ent' = [ent EXCEPT ![e].wired = @ \cup {f}]
      BY <2>1
    <3>2. PICK q : q = [ent[e] EXCEPT !.wired = @ \cup {f}]
      OBVIOUS
    <3>3. ent' = [ent EXCEPT ![e] = q]
      BY <3>1, <3>2
    <3>4. /\ q \in EntryType
          /\ q.key = ent[e].key /\ q.admitted = ent[e].admitted
          /\ q.latest = ent[e].latest /\ q.build = ent[e].build
          /\ q.failed = ent[e].failed /\ q.principal = ent[e].principal
      <4>1. ent[e].wired \cup {f} \in SUBSET {"nc", "server"}
        BY <1>3 DEF EntryType
      <4> QED BY <1>3, <3>2, <4>1 DEF EntryType
    <3> QED BY <3>3, <3>4, Zenon
  <2>2. CASE ~Published(e) /\ ent' = [ent EXCEPT ![e].principal = w]
    <3>1. PICK q : q = [ent[e] EXCEPT !.principal = w]
      OBVIOUS
    <3>2. ent' = [ent EXCEPT ![e] = q]
      BY <2>2, <3>1
    <3>3. /\ q \in EntryType
          /\ q.key = ent[e].key /\ q.admitted = ent[e].admitted
          /\ q.latest = ent[e].latest /\ q.build = ent[e].build
          /\ q.failed = ent[e].failed /\ q.principal = w
      BY <1>3, <3>1 DEF EntryType
    <3> QED BY <2>2, <3>2, <3>3
  <2> QED BY <1>2, <2>1, <2>2 DEF Wire
<1>6. /\ ent' \in [Entries -> EntryType]
      /\ ent'[e] = q
      /\ \A f \in Entries \ {e} : ent'[f] = ent[f]
  BY <1>3, <1>5 DEF TypeOK
<1>7. EdgeNamesPrincipals' /\ evidence \subseteq evidence' /\ evidence' \subseteq Bearers
      /\ UNCHANGED <<valid, evidence>>
  BY <1>3, RealmKept DEF realm
<1>8. EntryTrust(e)' /\ Stable(e)
  <2>1. AdmittedTo(e)' = AdmittedTo(e)
    BY <1>5, <1>6, SeqSame
  <2>2. EntryTrust(e)'
    BY <1>3, <1>4, <1>5, <1>6, <1>7, <2>1 DEF EntryTrust, Published, Proven
  <2>3. Stable(e)
    BY <1>4, <1>5, <1>6, <1>7 DEF Stable, Published
  <2> QED BY <2>2, <2>3
<1>9. /\ Published(e) => Published(e)'
      /\ conn'[e].state = "up" => conn'[e].badge \in Bearers
  BY <1>3, <1>4, <1>5, <1>6 DEF Published, IInv, LocalsSet
<1> QED
  BY <1>3, <1>5, <1>6, <1>7, <1>8, <1>9, UpdateEntryKeeps

\* connect returns nil.
LEMMA BuiltKeeps ==
  ASSUME IInv, NEW r \in Requests, Built(r) PROVE IInv'
<1>1. req[r].pc = "wire"
  BY DEF Built
<1>2. PICK e \in Entries, v \in {"hint", "pri"} : req[r].entry = e /\ req[r].via = v
  BY <1>1 DEF IInv, LocalsSet, Holding, Building
<1>3. PICK q : q = [ent[e] EXCEPT !.build = "done"]
  OBVIOUS
<1>4. /\ Published(e)
      /\ ent' = [ent EXCEPT ![e] = q]
      /\ Goto(r, "build", e, v, Nobody)
      /\ UNCHANGED <<index, conn, realm, closed>>
  BY <1>2, <1>3 DEF Built
<1>5. /\ ent[e] \in EntryType /\ conn \in [Entries -> ConnType]
      /\ RequestTrust(r) /\ EntryTrust(e) /\ TypeOK
  BY DEF IInv, TypeOK
<1>6. /\ q \in EntryType /\ q.key = ent[e].key /\ q.admitted = ent[e].admitted
      /\ q.principal = ent[e].principal /\ q.latest = ent[e].latest
      /\ q.build = "done"
  BY <1>3, <1>5 DEF EntryType
<1>7. /\ ent' \in [Entries -> EntryType]
      /\ ent'[e] = q
      /\ \A f \in Entries \ {e} : ent'[f] = ent[f]
  BY <1>4, <1>5, <1>6 DEF TypeOK
<1>8. EdgeNamesPrincipals' /\ evidence \subseteq evidence' /\ evidence' \subseteq Bearers
      /\ UNCHANGED <<valid, evidence>>
  BY <1>4, RealmKept DEF realm
<1>9. /\ req' \in [Requests -> RequestType]
      /\ \A s \in Requests \ {r} : req'[s] = req[s]
      /\ req'[r].pc = "build" /\ req'[r].entry = e /\ req'[r].via = v
      /\ req'[r].bearer = req[r].bearer
  BY <1>4, <1>5, GotoEffect, SMTT(30) DEF PCs
<1>10. EntryTrust(e)' /\ Stable(e) /\ LocalsOf(r)' /\ RequestTrust(r)'
  <2>1. AdmittedTo(e)' = AdmittedTo(e)
    BY <1>6, <1>7, SeqSame
  <2>2. EntryTrust(e)'
    BY <1>4, <1>5, <1>6, <1>7, <1>8, <2>1 DEF EntryTrust, Published, Proven
  <2>3. Stable(e)
    BY <1>6, <1>7, <1>8 DEF Stable, Published
  <2>4. LocalsOf(r)'
    BY <1>1, <1>9, HandlerTypes DEF LocalsOf, Holding, Building
  <2>5. RequestTrust(r)'
    BY <1>1, <1>2, <1>4, <1>5, <1>6, <1>7, <1>8, <1>9
       DEF RequestTrust, Published, Proven, Holding, Building
  <2> QED BY <2>2, <2>3, <2>4, <2>5
<1>11. /\ Published(e)'
       /\ conn'[e].state = "up" => conn'[e].badge \in Bearers
  BY <1>4, <1>6, <1>7 DEF Published, IInv, LocalsSet
<1>12. conn' \in [Entries -> ConnType] /\ \A f \in Entries \ {e} : conn'[f] = conn[f]
  BY <1>4, <1>5
<1> QED
  BY <1>4, <1>6, <1>7, <1>8, <1>9, <1>10, <1>11, <1>12, UpdateEntryKeeps

\* adopt outside the lock: the adopted bearer is proven for the entry,
\* whatever happened to the entry since the admission (pool.go:221, 285-289).
LEMMA AdoptKeeps ==
  ASSUME IInv, NEW r \in Requests, Adopt(r) PROVE IInv'
<1>1. req[r].pc = "adopt"
  BY DEF Adopt
<1>2. PICK e \in Entries, b \in Bearers : req[r].entry = e /\ req[r].bearer = b
  BY <1>1, HandlerTypes DEF IInv, LocalsSet, Holding
<1>3. PICK q : q = [ent[e] EXCEPT !.latest = b]
  OBVIOUS
<1>4. /\ ent' = [ent EXCEPT ![e] = q]
      /\ Goto(r, "served", e, "none", Nobody)
      /\ UNCHANGED <<index, conn, realm, closed>>
  BY <1>2, <1>3 DEF Adopt, Grant
<1>5. /\ ent[e] \in EntryType /\ conn \in [Entries -> ConnType]
      /\ RequestTrust(r) /\ EntryTrust(e) /\ TypeOK
      /\ Published(e) /\ Proven(b, e) /\ ent[e].build # "free"
  BY <1>1, <1>2 DEF IInv, TypeOK, RequestTrust, Holding
<1>6. /\ q \in EntryType /\ q.key = ent[e].key /\ q.admitted = ent[e].admitted
      /\ q.principal = ent[e].principal /\ q.latest = b
      /\ q.build = ent[e].build /\ q.failed = ent[e].failed
  BY <1>3, <1>5 DEF EntryType
<1>7. /\ ent' \in [Entries -> EntryType]
      /\ ent'[e] = q
      /\ \A f \in Entries \ {e} : ent'[f] = ent[f]
  BY <1>4, <1>5, <1>6 DEF TypeOK
<1>8. EdgeNamesPrincipals' /\ evidence \subseteq evidence' /\ evidence' \subseteq Bearers
      /\ UNCHANGED <<valid, evidence>>
  BY <1>4, RealmKept DEF realm
<1>9. /\ req' \in [Requests -> RequestType]
      /\ \A s \in Requests \ {r} : req'[s] = req[s]
      /\ req'[r].pc = "served" /\ req'[r].entry = e /\ req'[r].bearer = b
  BY <1>2, <1>4, <1>5, GotoEffect DEF PCs
<1>10. EntryTrust(e)' /\ Stable(e) /\ LocalsOf(r)' /\ RequestTrust(r)'
  <2>1. AdmittedTo(e)' = AdmittedTo(e)
    BY <1>6, <1>7, SeqSame
  <2>2. EntryTrust(e)'
    BY <1>4, <1>5, <1>6, <1>7, <1>8, <2>1 DEF EntryTrust, Published, Proven
  <2>3. Stable(e)
    BY <1>5, <1>6, <1>7, <1>8 DEF Stable, Published, Proven, EntryTrust
  <2>4. LocalsOf(r)'
    BY <1>9 DEF LocalsOf, Holding, Building
  <2>5. RequestTrust(r)'
    BY <1>5, <1>6, <1>7, <1>8, <1>9
       DEF RequestTrust, Published, Proven, Holding, Building
  <2> QED BY <2>2, <2>3, <2>4, <2>5
<1>11. /\ Published(e)'
       /\ conn'[e].state = "up" => conn'[e].badge \in Bearers
  BY <1>4, <1>5, <1>6, <1>7 DEF Published, IInv, LocalsSet
<1>12. conn' \in [Entries -> ConnType] /\ \A f \in Entries \ {e} : conn'[f] = conn[f]
  BY <1>4, <1>5
<1> QED
  BY <1>4, <1>6, <1>7, <1>8, <1>9, <1>10, <1>11, <1>12, UpdateEntryKeeps

---------------------------------------------------------------------------
(* Steps that admit a bearer.                                              *)

\* bindLocked changes one session id at most, and to the given entry.
LEMMA BindOnlyAdds ==
  ASSUME NEW ss \in [Sids -> Entries \cup {NoEntry}], NEW sid \in Sids \cup {NoSid},
         NEW e \in Entries
  PROVE  \A s \in Sids : Bind(ss, sid, e)[s] \in {ss[s], e}
BY DEF Bind

\* Admitting a bearer that the edge has admitted as the entry's principal.
LEMMA AdmitKeeps ==
  ASSUME IInv, NEW r \in Requests, NEW e \in Entries, NEW b \in Bearers,
         req[r].bearer = b, Published(e), Proven(b, e),
         admitLocked(b, e),
         sessions' \in [Sids -> Entries \cup {NoEntry}],
         \A s \in Sids : sessions'[s] \in {sessions[s], e},
         NEW pc \in {"adopt", "served"}, Goto(r, pc, e, "none", Nobody),
         UNCHANGED <<entries, conn, realm, closed>>
  PROVE  IInv'
<1>1. /\ TypeOK /\ EntryTrust(e) /\ ent[e] \in EntryType /\ pc \in PCs
  BY DEF IInv, TypeOK, PCs
<1>2. PICK q : q = [ent[e] EXCEPT !.admitted = AdmitTail(ent[e].admitted, b)]
  OBVIOUS
<1>3. /\ ent' \in [Entries -> EntryType]
      /\ \A f \in Entries : Len(ent'[f].admitted) <= Keep
      /\ \A f \in Entries \ {e} : ent'[f] = ent[f]
      /\ ent'[e] = q
      /\ b \in AdmittedTo(e)'
      /\ AdmittedTo(e)' \subseteq AdmittedTo(e) \cup {b}
      /\ byBearer' = [c \in Bearers |->
           IF c = b /\ b \notin AdmittedTo(e) THEN e
           ELSE IF c \in AdmittedTo(e) \ AdmittedTo(e)' /\ byBearer[c] = e
                THEN NoEntry ELSE byBearer[c]]
  BY <1>1, <1>2, AdmitEffect
<1>4. /\ q.key = ent[e].key /\ q.latest = ent[e].latest /\ q.build = ent[e].build
      /\ q.failed = ent[e].failed /\ q.principal = ent[e].principal
  BY <1>1, <1>2 DEF EntryType
<1>5. EdgeNamesPrincipals' /\ evidence \subseteq evidence' /\ evidence' \subseteq Bearers
      /\ UNCHANGED <<valid, evidence>>
  BY RealmKept DEF realm
<1>6. /\ req' \in [Requests -> RequestType]
      /\ \A s \in Requests \ {r} : req'[s] = req[s]
      /\ req'[r].pc = pc /\ req'[r].entry = e /\ req'[r].bearer = b
  BY <1>1, GotoEffect
<1>7. byBearer' \in [Bearers -> Entries \cup {NoEntry}]
  BY <1>1, <1>3 DEF TypeOK
<1>8. TypeOK'
  BY <1>1, <1>3, <1>5, <1>6, <1>7 DEF TypeOK
<1>9. ent[e].build # "free"
  BY InUse
<1>10. EntryTrust(e)'
  BY <1>1, <1>3, <1>4, <1>5, <1>9 DEF EntryTrust, Published, Proven
<1>11. Stable(e)
  BY <1>3, <1>4, <1>5, <1>9 DEF Stable, Published
<1>12. ASSUME NEW f \in Entries \ {e}
       PROVE  EntryTrust(f)' /\ (ent[f].build # "free" => Stable(f))
  <2>1. EntryTrust(f) /\ ent'[f] = ent[f] /\ Quiet(f)
    BY <1>3 DEF IInv, Quiet
  <2> QED BY <1>5, <2>1, EntryKeepsTrust
<1>13. \A f \in Entries : ent'[f].key = ent[f].key /\ (Published(f) => Published(f)')
  BY <1>3, <1>4 DEF Published
<1>14. \A f \in Entries \ {e} : AdmittedTo(f)' = AdmittedTo(f)
  BY <1>3 DEF AdmittedTo
<1>15. IndexConsistent'
  <2>1. \A k \in Keys : entries'[k] # NoEntry => ent'[entries'[k]].key = k
    BY <1>13 DEF IInv, TypeOK, IndexConsistent
  <2>2. ASSUME NEW c \in Bearers, NEW g \in Entries, byBearer'[c] = g
        PROVE  c \in AdmittedTo(g)'
    <3>1. CASE c = b /\ b \notin AdmittedTo(e)
      BY <1>3, <2>2, <3>1
    <3>2. CASE ~(c = b /\ b \notin AdmittedTo(e))
      <4>1. byBearer[c] = g /\ ~(c \in AdmittedTo(e) \ AdmittedTo(e)' /\ g = e)
        BY <1>3, <2>2, <3>2, NullsAreNotValues
      <4>2. c \in AdmittedTo(g)
        BY <4>1, NullsAreNotValues DEF IInv, IndexConsistent
      <4> QED BY <1>14, <4>1, <4>2
    <3> QED BY <3>1, <3>2
  <2>3. \A c \in Bearers : byBearer'[c] # NoEntry => byBearer'[c] \in Entries
    BY <1>7
  <2> QED BY <2>1, <2>2, <2>3 DEF IndexConsistent
<1>16. SessionsPublished'
  BY <1>1, <1>13 DEF IInv, TypeOK, SessionsPublished
<1>17. RequestTrust(r)'
  BY <1>3, <1>4, <1>5, <1>6, <1>9 DEF RequestTrust, Published, Proven, Building
<1>18. LocalsOf(r)'
  BY <1>6 DEF LocalsOf, Building
<1>19. \A f \in Entries : conn'[f].state = "up" => conn'[f].badge \in Bearers
  BY DEF IInv, LocalsSet
<1> QED
  BY <1>5, <1>6, <1>8, <1>10, <1>11, <1>12, <1>15, <1>16, <1>17, <1>18, <1>19, Preserve

\* The probe proved the comparison.
LEMMA AdmitCandidateKeeps ==
  ASSUME IInv, NEW r \in Requests, AdmitCandidate(r) PROVE IInv'
<1>1. req[r].pc = "compare"
  BY DEF AdmitCandidate
<1>2. PICK e \in Entries, b \in Bearers, sid \in Sids \cup {NoSid} :
        req[r].entry = e /\ req[r].bearer = b /\ req[r].sid = sid
  BY <1>1, HandlerTypes DEF IInv, LocalsSet, Holding
<1>3. /\ admitLocked(b, e)
      /\ sessions' = IF req[r].via = "bound" THEN sessions ELSE Bind(sessions, sid, e)
      /\ Goto(r, "adopt", e, "none", Nobody)
      /\ UNCHANGED <<entries, conn, realm, closed>>
      /\ req[r].who = ent[e].principal
  BY <1>2 DEF AdmitCandidate, Grant, Matches
<1>4. Published(e) /\ Proven(b, e)
  BY <1>1, <1>2, <1>3 DEF IInv, RequestTrust, EdgeNamesPrincipals, Published, Proven
<1>5. sessions \in [Sids -> Entries \cup {NoEntry}]
  BY DEF IInv, TypeOK
<1>6. /\ sessions' \in [Sids -> Entries \cup {NoEntry}]
      /\ \A s \in Sids : sessions'[s] \in {sessions[s], e}
  BY <1>3, <1>5, BindType, BindOnlyAdds
<1> QED BY <1>2, <1>3, <1>4, <1>6, AdmitKeeps

\* The build proved the bearer that shares it.
LEMMA AdmitBuiltKeeps ==
  ASSUME IInv, NEW r \in Requests, AdmitBuilt(r) PROVE IInv'
<1>1. req[r].pc = "build"
  BY DEF AdmitBuilt
<1>2. PICK e \in Entries, b \in Bearers, sid \in Sids \cup {NoSid},
           v \in {"hint", "pri"} :
        req[r].entry = e /\ req[r].bearer = b /\ req[r].sid = sid /\ req[r].via = v
  BY <1>1, HandlerTypes DEF IInv, LocalsSet, Holding, Building
<1>3. PICK pc \in {"adopt", "served"} : pc = IF v = "pri" THEN "adopt" ELSE "served"
  OBVIOUS
<1>4. /\ admitLocked(b, e)
      /\ ent[e].build = "done" /\ ~ent[e].failed
      /\ sessions' = Bind(sessions, sid, e)
      /\ Goto(r, pc, e, "none", Nobody)
      /\ UNCHANGED <<entries, conn, realm, closed>>
  BY <1>2, <1>3 DEF AdmitBuilt, Grant
<1>5. Published(e) /\ Proven(b, e)
  <2>1. Published(e) /\ Proven(ent[e].latest, e) /\ RequestTrust(r)
    BY <1>4 DEF IInv, EntryTrust
  <2> QED BY <1>1, <1>2, <2>1 DEF RequestTrust, Building, Proven
<1>6. sessions \in [Sids -> Entries \cup {NoEntry}]
  BY DEF IInv, TypeOK
<1>7. /\ sessions' \in [Sids -> Entries \cup {NoEntry}]
      /\ \A s \in Sids : sessions'[s] \in {sessions[s], e}
  BY <1>4, <1>6, BindType, BindOnlyAdds
<1> QED BY <1>2, <1>4, <1>5, <1>7, AdmitKeeps

---------------------------------------------------------------------------
(* Steps of the world.                                                     *)

\* A step that replaces the locals of one handler, or of none.
LEMMA ReplaceEffect ==
  ASSUME TypeOK, NEW r \in Requests, NEW q \in RequestType, req' = [req EXCEPT ![r] = q]
  PROVE  /\ req' \in [Requests -> RequestType]
         /\ req'[r] = q
         /\ \A s \in Requests \ {r} : req'[s] = req[s]
BY DEF TypeOK

\* Idle and newly arrived handlers.
LEMMA IdleType ==
  /\ IdleRequest \in RequestType
  /\ IdleRequest.pc = "idle"
  /\ \A b \in Bearers, sid \in Sids \cup {NoSid} :
       LET q == [IdleRequest EXCEPT !.pc = "resolve", !.bearer = b, !.sid = sid]
       IN  q \in RequestType /\ q.pc = "resolve" /\ q.bearer = b
BY DEF IdleRequest, RequestType, PCs

\* A request arrives.
LEMMA ArriveKeeps ==
  ASSUME IInv, NEW r \in Requests, NEW b \in Bearers, NEW sid \in Sids \cup {NoSid},
         Arrive(r, b, sid)
  PROVE  IInv'
<1>1. PICK q \in RequestType :
        q = [IdleRequest EXCEPT !.pc = "resolve", !.bearer = b, !.sid = sid]
        /\ q.pc = "resolve" /\ q.bearer = b
  BY IdleType
<1>2. req' = [req EXCEPT ![r] = q] /\ UNCHANGED <<index, ent, conn, realm, closed>>
  BY <1>1 DEF Arrive
<1>3. /\ req' \in [Requests -> RequestType]
      /\ req'[r] = q
      /\ \A s \in Requests \ {r} : req'[s] = req[s]
  BY <1>2, ReplaceEffect DEF IInv
<1>4. TypeOK'
  BY <1>2, <1>3 DEF IInv, TypeOK, index, realm
<1>5. LocalsOf(r)' /\ RequestTrust(r)'
  BY <1>1, <1>3 DEF LocalsOf, RequestTrust, Holding, Building
<1>6. IndexConsistent' /\ SessionsPublished'
  BY <1>2, SameAdmitted DEF IInv, IndexConsistent, SessionsPublished, Published, index
<1>7. \A f \in Entries : Quiet(f)
  BY <1>2 DEF Quiet
<1>8. EdgeNamesPrincipals' /\ evidence \subseteq evidence' /\ UNCHANGED ent
  BY <1>2, RealmKept DEF realm
<1> QED BY <1>3, <1>4, <1>5, <1>6, <1>7, <1>8, PreserveEntries

\* A served request's fresh session id is bound to its entry.
LEMMA CaptureKeeps ==
  ASSUME IInv, NEW r \in Requests, NEW sid \in Sids, Capture(r, sid) PROVE IInv'
<1>1. PICK e \in Entries : req[r].entry = e
  BY DEF Capture, IInv, LocalsSet, Holding
<1>2. /\ sessions' = Bind(sessions, sid, e)
      /\ req' = [req EXCEPT ![r] = IdleRequest]
      /\ UNCHANGED <<entries, byBearer, ent, conn, realm, closed>>
  BY <1>1 DEF Capture
<1>3. Published(e) /\ TypeOK
  BY <1>1 DEF Capture, IInv, RequestTrust
<1>4. /\ req' \in [Requests -> RequestType]
      /\ req'[r] = IdleRequest /\ req'[r].pc = "idle"
      /\ \A s \in Requests \ {r} : req'[s] = req[s]
  BY <1>2, <1>3, ReplaceEffect, IdleType
<1>5. /\ sessions' \in [Sids -> Entries \cup {NoEntry}]
      /\ \A s \in Sids : sessions'[s] \in {sessions[s], e}
  BY <1>2, <1>3, BindType, BindOnlyAdds DEF TypeOK
<1>6. TypeOK'
  BY <1>2, <1>3, <1>4, <1>5 DEF TypeOK, realm
<1>7. LocalsOf(r)' /\ RequestTrust(r)'
  BY <1>4 DEF LocalsOf, RequestTrust, Holding, Building
<1>8. IndexConsistent'
  BY <1>2, SameAdmitted DEF IInv, IndexConsistent
<1>9. SessionsPublished'
  BY <1>2, <1>3, <1>5 DEF IInv, SessionsPublished, Published
<1>10. \A f \in Entries : Quiet(f)
  BY <1>2 DEF Quiet
<1>11. EdgeNamesPrincipals' /\ evidence \subseteq evidence' /\ UNCHANGED ent
  BY <1>2, RealmKept DEF realm
<1> QED
  BY <1>4, <1>6, <1>7, <1>8, <1>9, <1>10, <1>11, PreserveEntries

\* An answered handler forgets.
LEMMA ReplyKeeps ==
  ASSUME IInv, NEW r \in Requests, Reply(r) PROVE IInv'
<1>1. req' = [req EXCEPT ![r] = IdleRequest] /\ UNCHANGED <<index, ent, conn, realm, closed>>
  BY DEF Reply
<1>2. /\ req' \in [Requests -> RequestType]
      /\ req'[r].pc = "idle"
      /\ \A s \in Requests \ {r} : req'[s] = req[s]
  BY <1>1, ReplaceEffect, IdleType DEF IInv
<1>3. TypeOK'
  BY <1>1, <1>2 DEF IInv, TypeOK, index, realm
<1>4. LocalsOf(r)' /\ RequestTrust(r)'
  BY <1>2 DEF LocalsOf, RequestTrust, Holding, Building
<1>5. IndexConsistent' /\ SessionsPublished'
  BY <1>1, SameAdmitted DEF IInv, IndexConsistent, SessionsPublished, Published, index
<1>6. \A f \in Entries : Quiet(f)
  BY <1>1 DEF Quiet
<1>7. EdgeNamesPrincipals' /\ evidence \subseteq evidence' /\ UNCHANGED ent
  BY <1>1, RealmKept DEF realm
<1> QED BY <1>2, <1>3, <1>4, <1>5, <1>6, <1>7, PreserveEntries

\* Steps of the world that leave every handler and every entry's fields alone.
LEMMA WorldKeeps ==
  ASSUME IInv, TypeOK', UNCHANGED <<ent, req>>,
         evidence \subseteq evidence', EdgeNamesPrincipals',
         IndexConsistent', SessionsPublished',
         \A e \in Entries : EntryTrust(e)',
         \A e \in Entries : conn'[e].state = "up" => conn'[e].badge \in Bearers
  PROVE  IInv'
<1>1. \A e \in Entries : ent[e].build # "free" => Stable(e)
  BY DEF Stable, Published
<1>2. \A s \in Requests : req'[s] # req[s] => LocalsOf(s)' /\ RequestTrust(s)'
  OBVIOUS
<1> QED BY <1>1, <1>2, PreserveAny

\* The same when connections only go down.
LEMMA QuietWorldKeeps ==
  ASSUME IInv, TypeOK', UNCHANGED <<ent, req>>,
         evidence \subseteq evidence', EdgeNamesPrincipals',
         IndexConsistent', SessionsPublished',
         \A e \in Entries : Quiet(e)
  PROVE  IInv'
<1>1. \A e \in Entries : EntryTrust(e)'
  BY EntryKeepsTrust DEF IInv
<1>2. \A e \in Entries : conn'[e].state = "up" => conn'[e].badge \in Bearers
  BY DEF IInv, LocalsSet, Quiet
<1> QED BY <1>1, <1>2, WorldKeeps

\* A step that touches neither indexes nor entries.
LEMMA SameIndexes ==
  ASSUME IInv, UNCHANGED <<index, ent>> PROVE IndexConsistent' /\ SessionsPublished'
BY SameAdmitted DEF IInv, IndexConsistent, SessionsPublished, Published, index

\* Revocation takes no evidence back.
LEMMA RevokeKeeps ==
  ASSUME IInv, NEW b \in Bearers, Revoke(b) PROVE IInv'
<1>1. valid' \subseteq valid /\ UNCHANGED <<index, ent, conn, req, evidence, closed>>
  BY DEF Revoke
<1>2. TypeOK'
  BY <1>1 DEF IInv, TypeOK, index
<1>3. EdgeNamesPrincipals' /\ evidence \subseteq evidence'
  BY <1>1 DEF IInv, EdgeNamesPrincipals
<1>4. \A e \in Entries : Quiet(e)
  BY <1>1 DEF Quiet
<1>5. IndexConsistent' /\ SessionsPublished'
  BY <1>1, SameIndexes
<1> QED BY <1>1, <1>2, <1>3, <1>4, <1>5, QuietWorldKeeps

\* A connection goes down.
LEMMA DropKeeps ==
  ASSUME IInv, NEW e \in Entries, Drop(e) PROVE IInv'
<1>1. /\ conn[e].state = "up" /\ conn' = [conn EXCEPT ![e] = Offline("down")]
      /\ UNCHANGED <<index, ent, req, realm, closed>>
  BY DEF Drop
<1>2. conn' \in [Entries -> ConnType]
  BY <1>1 DEF IInv, TypeOK, ConnType, Offline
<1>3. TypeOK'
  BY <1>1, <1>2 DEF IInv, TypeOK, index, realm
<1>4. EdgeNamesPrincipals' /\ evidence \subseteq evidence'
  BY <1>1, RealmKept
<1>5. ent[e].build # "free"
  BY <1>1 DEF IInv, EntryTrust, Offline
<1>6. \A f \in Entries : Quiet(f)
  BY <1>1, <1>5 DEF IInv, TypeOK, Quiet, Offline
<1>7. IndexConsistent' /\ SessionsPublished'
  BY <1>1, SameIndexes
<1> QED BY <1>1, <1>3, <1>4, <1>6, <1>7, QuietWorldKeeps

\* The reconnect presents latest: a bearer of the principal the connection
\* already had.
LEMMA ReconnectKeeps ==
  ASSUME IInv, NEW e \in Entries, Reconnect(e) PROVE IInv'
<1>1. PICK b \in Bearers \cup {NoBearer} : ent[e].latest = b
  BY DEF IInv, TypeOK, EntryType
<1>2. /\ conn[e].state \in {"down", "denied"}
      /\ UNCHANGED <<index, ent, req, valid, closed>>
  BY DEF Reconnect
<1>3. CASE b \in valid
  <2>1. conn' = [conn EXCEPT ![e] = UpAs(b)] /\ evidence' = evidence \cup {b}
    BY <1>1, <1>3 DEF Reconnect
  <2>2. b \in Bearers
    BY <1>3 DEF IInv, EdgeNamesPrincipals
  <2>3. /\ conn' \in [Entries -> ConnType]
        /\ conn'[e] = UpAs(b) /\ conn'[e].badge = b
        /\ \A f \in Entries \ {e} : conn'[f] = conn[f]
    BY <2>1, <2>2 DEF IInv, TypeOK, ConnType, UpAs
  <2>4. TypeOK'
    BY <1>2, <2>1, <2>2, <2>3 DEF IInv, TypeOK, index
  <2>5. EdgeNamesPrincipals' /\ evidence \subseteq evidence'
    BY <1>2, <1>3, <2>1 DEF IInv, EdgeNamesPrincipals
  <2>6. ent[e].build # "free"
    BY <1>2 DEF IInv, EntryTrust, Offline
  <2>7. EntryTrust(e)'
    <3>1. AdmittedTo(e)' = AdmittedTo(e) /\ EntryTrust(e)
      BY <1>2, SameAdmitted DEF IInv
    <3> QED
      BY <1>1, <1>2, <2>1, <2>3, <2>6, <3>1 DEF EntryTrust, Published, Proven
  <2>8. \A f \in Entries : EntryTrust(f)'
    <3>1. ASSUME NEW f \in Entries \ {e} PROVE EntryTrust(f)'
      <4>1. EntryTrust(f) /\ ent'[f] = ent[f] /\ Quiet(f)
        BY <1>2, <2>3 DEF IInv, Quiet
      <4> QED BY <2>5, <4>1, EntryKeepsTrust
    <3> QED BY <2>7, <3>1
  <2>9. \A f \in Entries : conn'[f].state = "up" => conn'[f].badge \in Bearers
    BY <2>2, <2>3 DEF IInv, LocalsSet
  <2>10. IndexConsistent' /\ SessionsPublished'
    BY <1>2, SameIndexes
  <2> QED BY <1>2, <2>4, <2>5, <2>8, <2>9, <2>10, WorldKeeps
<1>4. CASE b \notin valid
  <2>1. PICK st \in {"denied", "closed"} : conn' = [conn EXCEPT ![e] = Offline(st)]
    BY <1>1, <1>2, <1>4 DEF Reconnect
  <2>2. evidence' = evidence
    BY <1>1, <1>4 DEF Reconnect
  <2>3. /\ conn' \in [Entries -> ConnType]
        /\ conn'[e] = Offline(st) /\ conn'[e].state # "up"
        /\ \A f \in Entries \ {e} : conn'[f] = conn[f]
    BY <2>1 DEF IInv, TypeOK, ConnType, Offline
  <2>4. TypeOK'
    BY <1>2, <2>2, <2>3 DEF IInv, TypeOK, index
  <2>5. EdgeNamesPrincipals' /\ evidence \subseteq evidence'
    BY <1>2, <2>2, RealmKept DEF realm
  <2>6. ent[e].build # "free"
    BY <1>2 DEF IInv, EntryTrust, Offline
  <2>7. \A f \in Entries : Quiet(f)
    BY <2>3, <2>6 DEF Quiet
  <2>8. IndexConsistent' /\ SessionsPublished'
    BY <1>2, SameIndexes
  <2> QED BY <1>2, <2>4, <2>5, <2>7, <2>8, QuietWorldKeeps
<1> QED BY <1>3, <1>4

\* Node.Close forgets the indexes.
LEMMA CloseKeeps ==
  ASSUME IInv, Close PROVE IInv'
<1>1. /\ Shutdown(Pooled)
      /\ entries'  = [k \in Keys |-> NoEntry]
      /\ byBearer' = [b \in Bearers |-> NoEntry]
      /\ sessions' = [s \in Sids |-> NoEntry]
      /\ closed' = TRUE
      /\ UNCHANGED <<ent, req, realm>>
  BY DEF Close
<1>2. conn' \in [Entries -> ConnType] /\ \A e \in Entries : Quiet(e)
  BY <1>1, ShutdownIsQuiet
<1>3. TypeOK'
  BY <1>1, <1>2 DEF IInv, TypeOK, realm
<1>4. IndexConsistent' /\ SessionsPublished'
  BY <1>1 DEF IndexConsistent, SessionsPublished
<1>5. EdgeNamesPrincipals' /\ evidence \subseteq evidence'
  BY <1>1, RealmKept
<1> QED BY <1>1, <1>2, <1>3, <1>4, <1>5, QuietWorldKeeps

\* Nothing refers to a collected entry.
LEMMA CollectKeeps ==
  ASSUME IInv, NEW e \in Entries, Collect(e) PROVE IInv'
<1>1. /\ ent' = [ent EXCEPT ![e] = BlankEntry]
      /\ conn' = [conn EXCEPT ![e] = Offline("none")]
      /\ UNCHANGED <<index, req, realm, closed>>
  BY DEF Collect
<1>2. /\ \A k \in Keys : entries[k] # e
      /\ \A b \in Bearers : byBearer[b] # e
      /\ \A s \in Sids : sessions[s] # e
      /\ \A r \in Requests : req[r].entry # e
  BY DEF Collect, Garbage, Referenced
<1>3. BlankEntry \in EntryType /\ BlankEntry.admitted = <<>> /\ BlankEntry.principal = Nobody
      /\ BlankEntry.build = "free" /\ BlankEntry.failed = FALSE
      /\ BlankEntry.key = NoKey
  BY DEF BlankEntry, EntryType
<1>4. Len(BlankEntry.admitted) <= Keep
  BY <1>3 DEF Keep
<1>5. /\ ent' \in [Entries -> EntryType]
      /\ \A f \in Entries : Len(ent'[f].admitted) <= Keep
      /\ ent'[e] = BlankEntry
      /\ \A f \in Entries \ {e} : ent'[f] = ent[f]
  BY <1>1, <1>3, <1>4, EntEffect DEF IInv
<1>6. /\ conn' \in [Entries -> ConnType]
      /\ conn'[e] = Offline("none") /\ conn'[e].state # "up"
      /\ \A f \in Entries \ {e} : conn'[f] = conn[f]
  BY <1>1 DEF IInv, TypeOK, ConnType, Offline
<1>7. TypeOK'
  BY <1>1, <1>5, <1>6 DEF IInv, TypeOK, index, realm
<1>8. EdgeNamesPrincipals' /\ evidence \subseteq evidence'
  BY <1>1, RealmKept
<1>9. ASSUME NEW f \in Entries \ {e}
      PROVE  EntryTrust(f)' /\ (ent[f].build # "free" => Stable(f))
  <2>1. EntryTrust(f) /\ ent'[f] = ent[f] /\ Quiet(f)
    BY <1>5, <1>6 DEF IInv, Quiet
  <2> QED BY <1>8, <2>1, EntryKeepsTrust
<1>10. EntryTrust(e)'
  <2>1. AdmittedTo(e)' = {} /\ ~Published(e)'
    BY <1>3, <1>5, NothingAdmitted DEF AdmittedTo, Published
  <2>2. \A p \in Principals : NoKey # principalKey(p)
    BY KeyFacts
  <2> QED BY <1>3, <1>5, <1>6, <2>1, <2>2 DEF EntryTrust
<1>11. LocalsSet'
  BY <1>1, <1>6 DEF IInv, LocalsSet
<1>12. IndexConsistent' /\ SessionsPublished'
  <2>1. \A f \in Entries \ {e} : AdmittedTo(f)' = AdmittedTo(f)
    BY <1>5 DEF AdmittedTo
  <2> QED
    BY <1>1, <1>2, <1>5, <2>1
       DEF IInv, TypeOK, IndexConsistent, SessionsPublished, Published, index
<1>13. ASSUME NEW s \in Requests PROVE RequestTrust(s)'
  <2>1. /\ RequestTrust(s) /\ req'[s] = req[s]
        /\ req[s].pc \in Holding => req[s].entry \in Entries \ {e} /\ ent[req[s].entry].build # "free"
    BY <1>1, <1>2 DEF IInv, LocalsSet, RequestTrust
  <2>2. req[s].pc \in Holding => Stable(req[s].entry) /\ EntryTrust(req[s].entry)'
    BY <1>9, <2>1
  <2> QED BY <1>8, <2>1, <2>2, HandlerKeepsTrust
<1> QED BY <1>7, <1>8, <1>9, <1>10, <1>11, <1>12, <1>13 DEF IInv

---------------------------------------------------------------------------
(* What a handler's step leaves alone.                                     *)

\* A handler at work moves only itself.
LEMMA HandlerMovesItself ==
  ASSUME IInv, NEW q \in Requests, Handle(q)
  PROVE  /\ req[q].pc \notin {"idle", "served", "refused", "mismatched"}
         /\ \A r \in Requests \ {q} : req'[r] = req[r]
<1>1. req \in [Requests -> RequestType]
  BY DEF IInv, TypeOK
<1>2. CASE Resolve(q)
  BY <1>1, <1>2 DEF Resolve, ResolveBound, RefuseForeign, ResolveFresh, ResolveKnown,
     RouteExisting, RouteNew, ByHint, Grant, Goto
<1>3. CASE Candidate(q)
  BY <1>1, <1>3 DEF Candidate, ProbeAdmitted, ProbeRefused, AdmitCandidate,
     RefuseCandidate, DivertCandidate, EnsureExisting, EnsureNew, Grant, Refuse, Goto
<1>4. CASE Build(q)
  BY <1>1, <1>4 DEF Build, Dial, DialRefused, Identify, SetupFailed, Wire, Built,
     AdmitBuilt, RefuseBuilt, Grant, Refuse, Goto
<1>5. CASE Adopt(q)
  BY <1>1, <1>5 DEF Adopt, Grant, Goto
<1> QED BY <1>2, <1>3, <1>4, <1>5 DEF Handle

\* The principal of an entry, once visible, stays, and evidence only grows.
LEMMA HandlerKeepsPrincipals ==
  ASSUME IInv, NEW q \in Requests, Handle(q)
  PROVE  /\ evidence \subseteq evidence'
         /\ \A e \in Entries : Published(e) => ent'[e].principal = ent[e].principal
<1>1. /\ ent \in [Entries -> EntryType]
      /\ \A e \in Entries : Published(e) => e \notin Free
  BY InUse DEF IInv, TypeOK, Free
<1>2. CASE Resolve(q)
  <2>1. UNCHANGED evidence
    BY <1>2 DEF Resolve, ResolveBound, RefuseForeign, ResolveFresh, ResolveKnown,
       RouteExisting, RouteNew, realm
  <2>2. UNCHANGED ent \/ \E e \in Free : \E x : ent' = [ent EXCEPT ![e] = x]
    BY <1>2, Zenon DEF Resolve, ResolveBound, RefuseForeign, ResolveFresh, ResolveKnown,
       RouteExisting, RouteNew
  <2> QED BY <1>1, <2>1, <2>2
<1>3. CASE Candidate(q)
  <2>1. CASE ProbeAdmitted(q)
    BY <2>1 DEF ProbeAdmitted
  <2>2. CASE AdmitCandidate(q)
    <3>1. PICK tail : ent' = [ent EXCEPT ![req[q].entry].admitted = tail]
      BY <2>2, Zenon DEF AdmitCandidate, admitLocked
    <3>2. UNCHANGED evidence
      BY <2>2 DEF AdmitCandidate, realm
    <3> QED BY <1>1, <3>1, <3>2 DEF EntryType
  <2>3. ASSUME NEW e \in Entries, EnsureNew(q, e)
        PROVE  /\ evidence \subseteq evidence'
               /\ \A f \in Entries : Published(f) => ent'[f].principal = ent[f].principal
    BY <1>1, <2>3 DEF EnsureNew, realm
  <2>4. CASE \/ ProbeRefused(q) \/ RefuseCandidate(q)
             \/ DivertCandidate(q) \/ EnsureExisting(q)
    BY <2>4 DEF ProbeRefused, RefuseCandidate, DivertCandidate, EnsureExisting, realm
  <2> QED BY <1>3, <2>1, <2>2, <2>3, <2>4 DEF Candidate
<1>4. CASE Build(q)
  <2>1. CASE Dial(q) \/ Built(q)
    <3>1. PICK st : ent' = [ent EXCEPT ![req[q].entry].build = st]
      BY <2>1, Zenon DEF Dial, Built
    <3>2. evidence \subseteq evidence'
      BY <2>1 DEF Dial, Built, realm
    <3> QED BY <1>1, <3>1, <3>2 DEF EntryType
  <2>2. CASE Wire(q)
    <3>1. UNCHANGED evidence
      BY <2>2 DEF Wire, realm
    <3>2. CASE \E w : ent' = [ent EXCEPT ![req[q].entry].wired = w]
      BY <1>1, <3>1, <3>2 DEF EntryType
    <3>3. CASE /\ ~Published(req[q].entry)
               /\ \E p : ent' = [ent EXCEPT ![req[q].entry].principal = p]
      BY <1>1, <3>1, <3>3
    <3>4. \/ \E w : ent' = [ent EXCEPT ![req[q].entry].wired = w]
          \/ /\ ~Published(req[q].entry)
             /\ \E p : ent' = [ent EXCEPT ![req[q].entry].principal = p]
      BY <2>2, Zenon DEF Wire
    <3> QED BY <3>2, <3>3, <3>4
  <2>3. CASE Identify(q) \/ RefuseBuilt(q)
    BY <2>3 DEF Identify, RefuseBuilt, realm
  <2>4. CASE AdmitBuilt(q)
    <3>1. PICK tail : ent' = [ent EXCEPT ![req[q].entry].admitted = tail]
      BY <2>4, Zenon DEF AdmitBuilt, admitLocked
    <3>2. UNCHANGED evidence
      BY <2>4 DEF AdmitBuilt, realm
    <3> QED BY <1>1, <3>1, <3>2 DEF EntryType
  <2>5. CASE DialRefused(q) \/ SetupFailed(q)
    <3>1. PICK x : x = [ent[req[q].entry] EXCEPT !.build = "done", !.failed = TRUE]
      OBVIOUS
    <3>2. /\ ent' = [ent EXCEPT ![req[q].entry] = x]
          /\ UNCHANGED evidence
      BY <2>5, <3>1 DEF DialRefused, SetupFailed, realm
    <3>3. req[q].entry \in Entries => x.principal = ent[req[q].entry].principal
      BY <1>1, <3>1 DEF EntryType
    <3> QED BY <1>1, <3>2, <3>3
  <2> QED BY <1>4, <2>1, <2>2, <2>3, <2>4, <2>5 DEF Build
<1>5. CASE Adopt(q)
  BY <1>1, <1>5 DEF Adopt, realm, EntryType
<1> QED BY <1>2, <1>3, <1>4, <1>5 DEF Handle

\* Goto moves the handler and leaves its bearer and session id.
LEMMA GotoMoves ==
  ASSUME req \in [Requests -> RequestType], NEW r \in Requests,
         NEW pc, NEW e, NEW via, NEW who, Goto(r, pc, e, via, who)
  PROVE  /\ req'[r].pc = pc /\ req'[r].entry = e /\ req'[r].via = via
         /\ req'[r].sid = req[r].sid /\ req'[r].bearer = req[r].bearer
         /\ \A s \in Requests \ {r} : req'[s] = req[s]
<1> DEFINE q == [req[r] EXCEPT !.pc = pc, !.entry = e, !.via = via, !.who = who]
<1>1. req[r] \in RequestType
  OBVIOUS
<1>2. /\ q.pc = pc /\ q.entry = e /\ q.via = via /\ q.sid = req[r].sid
      /\ q.bearer = req[r].bearer
  BY <1>1 DEF RequestType
<1>3. req' = [req EXCEPT ![r] = q]
  BY DEF Goto
<1> HIDE DEF q
<1> QED BY <1>2, <1>3

\* A handler keeps the bearer and the session id it came with.
LEMMA HandlerKeepsSid ==
  ASSUME IInv, NEW q \in Requests, Handle(q)
  PROVE  req'[q].sid = req[q].sid /\ req'[q].bearer = req[q].bearer
<1>1. req \in [Requests -> RequestType]
  BY DEF IInv, TypeOK
<1>2. (\E pc, e, via, who : Goto(q, pc, e, via, who)) \/ UNCHANGED req
  BY Zenon DEF Handle, Resolve, ResolveBound, RefuseForeign, ResolveFresh, ResolveKnown,
     RouteExisting, RouteNew, Candidate, ProbeAdmitted, ProbeRefused, AdmitCandidate,
     RefuseCandidate, DivertCandidate, EnsureExisting, EnsureNew, Build, Dial, DialRefused,
     Identify, SetupFailed, Wire, Built, AdmitBuilt, RefuseBuilt, Adopt, Grant, Refuse
<1> QED BY <1>1, <1>2, GotoMoves

---------------------------------------------------------------------------
(* The theorems.                                                           *)

\* Nothing is indexed, admitted or in flight when the pool is made.
LEMMA InitEstablishes == Init => IInv
<1> SUFFICES ASSUME Init PROVE IInv
  OBVIOUS
<1>1. /\ BlankEntry \in EntryType /\ BlankEntry.admitted = <<>>
      /\ BlankEntry.principal = Nobody /\ BlankEntry.build = "free"
      /\ BlankEntry.failed = FALSE /\ BlankEntry.key = NoKey
  BY DEF BlankEntry, EntryType
<1>2. /\ Offline("none") \in ConnType /\ Offline("none").state # "up"
  BY DEF Offline, ConnType
<1>3. Len(BlankEntry.admitted) <= Keep
  BY <1>1 DEF Keep
<1>4. valid \subseteq Bearers
  BY DEF Init
<1>5. TypeOK
  BY <1>1, <1>2, <1>3, <1>4, IdleType DEF Init, TypeOK
<1>6. LocalsSet
  BY <1>2, IdleType DEF Init, LocalsSet, Holding, Building
<1>7. EdgeNamesPrincipals
  BY DEF Init, EdgeNamesPrincipals
<1>8. ASSUME NEW e \in Entries PROVE EntryTrust(e)
  <2>1. ent[e] = BlankEntry /\ conn[e] = Offline("none")
    BY DEF Init
  <2>2. AdmittedTo(e) = {} /\ ~Published(e)
    BY <1>1, <2>1, NothingAdmitted DEF Published
  <2>3. \A p \in Principals : NoKey # principalKey(p)
    BY KeyFacts
  <2> QED BY <1>1, <1>2, <2>1, <2>2, <2>3 DEF EntryTrust
<1>9. IndexConsistent /\ SessionsPublished
  BY DEF Init, IndexConsistent, SessionsPublished
<1>10. \A r \in Requests : RequestTrust(r)
  BY IdleType DEF Init, RequestTrust, Holding, Building
<1> QED BY <1>5, <1>6, <1>7, <1>8, <1>9, <1>10 DEF IInv

\* Every step of resolve preserves the invariant.
LEMMA HandlerPreserves ==
  ASSUME IInv, NEW r \in Requests, Handle(r) PROVE IInv'
<1>1. CASE Resolve(r)
  BY <1>1, ResolveBoundKeeps, RefuseForeignKeeps, ResolveFreshKeeps,
     ResolveKnownKeeps, RouteExistingKeeps, RouteNewKeeps, Zenon DEF Resolve
<1>2. CASE Candidate(r)
  BY <1>2, ProbeAdmittedKeeps, ProbeRefusedKeeps, AdmitCandidateKeeps,
     RefuseCandidateKeeps, DivertCandidateKeeps, EnsureExistingKeeps,
     EnsureNewKeeps, Zenon DEF Candidate
<1>3. CASE Build(r)
  BY <1>3, DialKeeps, DialRefusedKeeps, IdentifyKeeps, SetupFailedKeeps,
     WireKeeps, BuiltKeeps, AdmitBuiltKeeps, RefuseBuiltKeeps, Zenon DEF Build
<1>4. CASE Adopt(r)
  BY <1>4, AdoptKeeps
<1> QED BY <1>1, <1>2, <1>3, <1>4 DEF Handle

\* So does a step that changes nothing.
LEMMA StutterPreserves == IInv /\ UNCHANGED vars => IInv'
<1> SUFFICES ASSUME IInv, UNCHANGED vars PROVE IInv'
  OBVIOUS
<1>1. UNCHANGED <<entries, byBearer, sessions, ent, conn, req, valid, evidence, closed>>
  BY DEF vars
<1>2. TypeOK' /\ EdgeNamesPrincipals'
  BY <1>1 DEF IInv, TypeOK, EdgeNamesPrincipals
<1>3. IndexConsistent' /\ SessionsPublished'
  BY <1>1, SameIndexes DEF index
<1>4. \A e \in Entries : Quiet(e)
  BY <1>1 DEF Quiet
<1> QED BY <1>1, <1>2, <1>3, <1>4, QuietWorldKeeps

\* The invariant is inductive.
LEMMA NextPreserves == IInv /\ [Next]_vars => IInv'
<1> SUFFICES ASSUME IInv, [Next]_vars PROVE IInv'
  OBVIOUS
<1>1. ASSUME NEW r \in Requests, NEW b \in Bearers, NEW sid \in Sids \cup {NoSid},
             Arrive(r, b, sid)
      PROVE  IInv'
  BY <1>1, ArriveKeeps
<1>2. ASSUME NEW r \in Requests, Handle(r) PROVE IInv'
  BY <1>2, HandlerPreserves
<1>3. ASSUME NEW r \in Requests, NEW sid \in Sids, Capture(r, sid) PROVE IInv'
  BY <1>3, CaptureKeeps
<1>4. ASSUME NEW r \in Requests, Reply(r) PROVE IInv'
  BY <1>4, ReplyKeeps
<1>5. ASSUME NEW b \in Bearers, Revoke(b) PROVE IInv'
  BY <1>5, RevokeKeeps
<1>6. ASSUME NEW e \in Entries, Drop(e) \/ Reconnect(e) PROVE IInv'
  BY <1>6, DropKeeps, ReconnectKeeps
<1>7. CASE Close
  BY <1>7, CloseKeeps
<1>8. ASSUME NEW e \in Entries, Collect(e) PROVE IInv'
  BY <1>8, CollectKeeps
<1>9. CASE UNCHANGED vars
  BY <1>9, StutterPreserves
<1> QED
  BY <1>1, <1>2, <1>3, <1>4, <1>5, <1>6, <1>7, <1>8, <1>9, Zenon DEF Next, Work

\* The invariant holds in every reachable state.
LEMMA InvariantHolds == Spec => []IInv
<1> QED BY InitEstablishes, NextPreserves, PTL DEF Spec

\* Every reachable state of the pool is well typed, and admitLocked's tail
\* never exceeds keep = 2 (pool.go:400-407).
THEOREM TypeCorrect == Spec => []TypeOK
<1>1. IInv => TypeOK
  BY DEF IInv
<1> QED BY <1>1, InvariantHolds, PTL

\* What the invariant says of entries is the trust rule, and more.
LEMMA TrustRuleFollows == ASSUME IInv PROVE TrustRule
<1>1. ASSUME NEW e \in Entries, Published(e)
      PROVE  /\ Proven(ent[e].latest, e)
             /\ conn[e].state = "up" => Proven(conn[e].badge, e)
  BY <1>1 DEF IInv, EntryTrust, Proven
<1>2. \A e \in Entries : \A b \in AdmittedTo(e) : Published(e) /\ Proven(b, e)
  BY InUse
<1>3. \A b \in Bearers : byBearer[b] # NoEntry => Proven(b, byBearer[b])
  BY <1>2 DEF IInv, TypeOK, IndexConsistent
<1> QED BY <1>1, <1>2, <1>3 DEF TrustRule

\* The trust rule of pool.go:31-34, for every realm, any number of handlers
\* and every interleaving of probes, builds, adoptions, evictions,
\* revocations and reconnects.
THEOREM TrustRuleHolds == Spec => []TrustRule
<1> QED BY TrustRuleFollows, InvariantHolds, PTL

\* A request is served only by an entry of its own bearer's principal, and
\* only after the edge has admitted that bearer (pool.go:129-131).
THEOREM ServedAsSelfHolds == Spec => []ServedAsSelf
<1>1. IInv => ServedAsSelf
  BY DEF IInv, RequestTrust, ServedAsSelf
<1> QED BY <1>1, InvariantHolds, PTL

\* The key index and the bearer index never disagree with the entries they
\* point to, so evictLocked removes every pointer (pool.go:361-371).
THEOREM IndexConsistentHolds == Spec => []IndexConsistent
<1>1. IInv => IndexConsistent
  BY DEF IInv
<1> QED BY <1>1, InvariantHolds, PTL

============================================================================
