--------------------------- MODULE NodeInvariant ---------------------------
(***************************************************************************)
(* The inductive invariant behind the front's properties: what a request   *)
(* in the SDK's hands may rely on, and how the pool's session bindings and *)
(* the SDK's session table stay with one principal.                        *)
(***************************************************************************)
EXTENDS Node, PoolInvariant

Done == {"idle", "served", "refused", "mismatched"}

FrontTyped ==
  /\ public \in BOOLEAN
  /\ sdk \in [Sids -> Entries \cup {NoEntry}]
  /\ front \in [Requests -> [at : {"door", "inner", "run", "opened"},
                             sid : Sids \cup {NoSid}, server : Entries \cup {NoEntry}]]
  /\ life \in [Sids -> {"unused", "opened", "bound", "loose"}]

\* A request in the SDK's hands has left resolve, granted in public mode; one
\* that opens a session does so on a server of its bearer's.
FrontOf(r) ==
  /\ Running(r) <=> front[r].server # NoEntry
  /\ front[r].at # "door" => req[r].pc \in Done
  /\ front[r].at # "door" /\ public => req[r].pc = "served"
  /\ front[r].at = "opened" =>
       front[r].sid \in Sids /\ front[r].server \in Entries /\ RunsAsSelf(r)

NInv == IInv /\ FrontTyped /\ \A r \in Requests : FrontOf(r)

---------------------------------------------------------------------------
(* Sessions.                                                               *)

\* The server runs as the principal of session s, while the pool knows s.
SamePrincipal(e, s) ==
  /\ e \in Entries /\ Published(e)
  /\ life[s] = "bound" => ent[e].principal = ent[sessions[s]].principal

\* A bound id has an entry, and its server is of the same principal.
SessionOf(s) ==
  /\ life[s] = "bound" => sessions[s] # NoEntry
  /\ sdk[s] # NoEntry => SamePrincipal(sdk[s], s)

\* A client names a session only after the response that opened it.
Answered(s) == s # NoSid => life[s] \in {"bound", "loose"}

\* Resolve on a bound session ends on the session's own entry, or refused.
OnItsSession(r) ==
  LET s == req[r].sid
  IN  s # NoSid /\ req[r].pc \notin {"idle", "resolve"} /\ life[s] = "bound" =>
        /\ req[r].pc \in {"probe", "compare", "adopt", "served", "refused", "mismatched"}
        /\ req[r].pc \in {"probe", "compare"} => req[r].via = "bound"
        /\ req[r].pc \in {"probe", "compare", "adopt", "served"} => req[r].entry = sessions[s]

\* What the SDK holds of a request.
InHand(r) ==
  /\ req[r].pc # "idle" => Answered(req[r].sid)
  /\ front[r].at \in {"inner", "run"} =>
       Answered(front[r].sid) /\ (req[r].pc # "idle" => front[r].sid = req[r].sid)
  /\ front[r].at = "run" =>
       front[r].sid \in Sids /\ SamePrincipal(front[r].server, front[r].sid)
  /\ front[r].at = "opened" =>
       /\ life[front[r].sid] = "opened"
       /\ sdk[front[r].sid] \in {NoEntry, front[r].server}

\* An id is minted once.
MintedOnce ==
  \A q, r \in Requests :
    front[q].at = "opened" /\ front[r].at = "opened" /\ front[q].sid = front[r].sid => q = r

SessionsHold ==
  /\ \A s \in Sids : SessionOf(s)
  /\ \A r \in Requests : OnItsSession(r) /\ InHand(r)
  /\ MintedOnce

SInv == NInv /\ SessionsHold

============================================================================
