----------------------------- MODULE PoolDoor -----------------------------
(***************************************************************************)
(* The pool implements the door: a handler between its arrival and its     *)
(* verdict is an open ask, whatever probes, builds and evictions it takes. *)
(***************************************************************************)
EXTENDS Pool

AskOf(r) ==
  LET q == req[r]
  IN  [state  |-> CASE q.pc = "idle" -> "none"
                    [] q.pc = "served" -> "served"
                    [] q.pc \in {"refused", "mismatched"} -> "denied"
                    [] OTHER -> "asked",
       bearer |-> q.bearer,
       as     |-> IF q.pc = "served" THEN ent[q.entry].principal ELSE Nobody]

D == INSTANCE Door WITH ask <- [r \in Requests |-> AskOf(r)]

\* resolve's contract (pool.go:129-131): the bearer leads to the entry that
\* may serve it, or to a refusal, and an admission came first.
ImplementsDoor == D!DoorSpec

\* The same, and every request is answered: no handler waits for ever.
ImplementsFairDoor == D!DoorFairSpec

============================================================================
