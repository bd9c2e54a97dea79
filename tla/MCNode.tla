------------------------------ MODULE MCNode ------------------------------
(* Instances of the node: a1, a2, a3 admit as principal A and share one    *)
(* routing hint; b1 admits as B under the same, colliding hint; x1 carries *)
(* the hint of A's tokens and is never admitted; o1, o2 are opaque tokens  *)
(* of A and route by themselves.                                           *)
EXTENDS Node, TLC

CONSTANTS a1, a2, a3, b1, x1, o1, o2, A, B

jwt(oid, sub) == [eyJ |-> TRUE, parts |-> 3, decodes |-> TRUE,
                  iss |-> "as", oid |-> oid, sub |-> sub]
opaque == [jwt("", "") EXCEPT !.eyJ = FALSE, !.parts = 1, !.decodes = FALSE]

MCPrincipalOf ==
  [b \in Bearers |-> CASE b \in {a1, a2, a3, o1, o2} -> A [] b = b1 -> B [] OTHER -> Nobody]

\* x1 has an empty oid, so its sub is what routes it.
MCShape ==
  [b \in Bearers |-> CASE b \in {o1, o2} -> opaque
                       [] b = x1 -> jwt("", "a")
                       [] OTHER -> jwt("a", "pairwise")]

Symmetry ==
  Permutations(Requests) \cup Permutations(Entries) \cup Permutations(Bearers \cap {a2, a3})

===========================================================================
