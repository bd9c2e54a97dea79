----------------------------- MODULE MCHosted -----------------------------
(* People a and b with a client each, whose tokens route by their oid,     *)
(* against nodes started with every mix of flags and environment that main *)
(* tells apart.                                                            *)
EXTENDS Hosted

CONSTANTS a1, a2, a3, a4, ra, A, B

MCPrincipalOf == [t \in Bearers |-> IF t \in {a1, a2, a3, a4} THEN A ELSE B]

MCPerson == [r \in Requests |-> IF r = ra THEN A ELSE B]

MCShape == [t \in Bearers |->
  [eyJ |-> TRUE, parts |-> 3, decodes |-> TRUE, iss |-> "as",
   oid |-> IF t \in {a1, a2, a3, a4} THEN "a" ELSE "b", sub |-> "pairwise"]]

nodeURL == "https://node"
slashURL == "https://node/"
MCSlashed == {slashURL}

values(listen, url, issuer, realmName, nats) ==
  [f \in Fields |-> CASE f = "listen" -> listen [] f = "publicURL" -> url
                      [] f = "authIssuer" -> issuer [] f = "realm" -> realmName
                      [] OTHER -> nats]

nothing == [f \in Fields |-> Unset]

\* Each field by flag or by variable, there, empty or absent.
MCDeployments ==
  LET public_ == {Unset, "", nodeURL, slashURL}
      issuers == {Unset, "", EdgeIssuer, "https://elsewhere"}
  IN  [flags : {values(Unset, u, i, rn, n) :
                  u \in public_, i \in issuers, rn \in {Unset, "team"}, n \in {Unset, "nats"}},
       env : {values(l, u, i, rn, Unset) :
                l \in {Unset, ""}, u \in {Unset, nodeURL}, i \in {Unset, EdgeIssuer},
                rn \in {Unset, "team"}}]

===========================================================================
