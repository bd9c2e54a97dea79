--------------------------- MODULE PoolInvariant ---------------------------
(***************************************************************************)
(* The inductive invariant behind the trust rule: what every handler may   *)
(* rely on at each point of resolve, candidate, ensurePrincipal and        *)
(* connect, in whatever order the others run.                              *)
(***************************************************************************)
EXTENDS Pool

\* Where a handler's local e, bound or own is set.
Holding == {"probe", "compare", "build", "identify", "wire", "adopt", "served"}

Building == {"build", "identify", "wire"}

\* Locals are set before they are used.
LocalsSet ==
  /\ \A r \in Requests :
       /\ req[r].pc # "idle" => req[r].bearer \in Bearers
       /\ req[r].pc \in Holding => req[r].entry \in Entries
       /\ req[r].pc \in Building => req[r].via \in {"hint", "pri"}
  /\ \A e \in Entries : conn[e].state = "up" => conn[e].badge \in Bearers

\* The edge admits a bearer only as somebody.
EdgeNamesPrincipals ==
  \A b \in valid \cup evidence : b \in Bearers /\ PrincipalOf[b] # Nobody

\* What is known of one entry object.
EntryTrust(e) ==
  /\ ent[e].build = "free" => ent[e] = BlankEntry /\ conn[e] = Offline("none")
  /\ ent[e].build = "done" /\ ~ent[e].failed => Published(e)
  /\ Published(e) => Proven(ent[e].latest, e)
  /\ \A b \in AdmittedTo(e) : Published(e) /\ Proven(b, e)
  /\ conn[e].state = "up" =>
       /\ conn[e].badge \in evidence
       /\ PrincipalOf[conn[e].badge] = PrincipalOf[ent[e].latest]
  /\ \A p \in Principals :
       ent[e].key = principalKey(p) => PrincipalOf[ent[e].latest] = p

\* A session id is bound only to an entry that admitted somebody.
SessionsPublished ==
  \A s \in Sids : sessions[s] # NoEntry => Published(sessions[s])

\* What is known of one handler.
RequestTrust(r) ==
  LET b == req[r].bearer
      e == req[r].entry
  IN  /\ req[r].pc \in Holding => ent[e].build # "free"
      /\ req[r].pc \in {"compare", "ensure"} =>
           b \in evidence /\ req[r].who = PrincipalOf[b]
      /\ req[r].pc \in {"adopt", "served"} => Published(e) /\ Proven(b, e)
      /\ req[r].pc \in Building /\ req[r].via = "hint" =>
           IF Published(e) THEN Proven(b, e) ELSE ent[e].latest = b
      /\ req[r].pc \in Building /\ req[r].via = "pri" =>
           b \in evidence /\ PrincipalOf[ent[e].latest] = PrincipalOf[b]
      /\ req[r].pc \in {"identify", "wire"} => ent[e].latest \in evidence
      /\ req[r].pc = "wire" => req[r].who = PrincipalOf[ent[e].latest]

IInv ==
  /\ TypeOK
  /\ LocalsSet
  /\ EdgeNamesPrincipals
  /\ \A e \in Entries : EntryTrust(e)
  /\ IndexConsistent
  /\ SessionsPublished
  /\ \A r \in Requests : RequestTrust(r)

============================================================================
