---------------------------- MODULE MCPrincipal ----------------------------
(* Every subject of up to MaxTokens tokens alone in an allow list, pairs   *)
(* of grants that resemble the one looked for, and resolved templates.     *)
EXTENDS Principal

CONSTANTS Tokens, MaxTokens, DeployPrefixes, Names, Accounts

MCPrefixes == {<<>>, <<"p">>}
MCNames == {<<"p">>, <<"q">>, <<"p", "q">>, <<"sign", "record">>}

\* An account and a user have a name; a deployment's prefix does not begin
\* like the template's own grants.
ASSUME InputsAreTyped ==
  /\ MaxTokens \in Nat
  /\ Names \subseteq Seq(STRING) /\ \A n \in Names : \A i \in DOMAIN n : n[i] # ""
  /\ "" \notin Accounts
  /\ DeployPrefixes \subseteq Seq(STRING)
  /\ \A p \in DeployPrefixes : p = <<>> \/ p[1] # "identity"

VARIABLES allows, prefix, of

vars == <<allows, prefix, of>>

Similar(x, m, y) == <<"identity", x>> \o m \o <<y, "record">>

Alike == {Similar(x, m, y) :
            x \in {"a", ""}, m \in {<<>>, <<"p">>, <<"p", "q">>}, y \in {"sign", "keys"}}

Unmarked == [account |-> "", name |-> <<>>]

Init ==
  \/ /\ \E s \in UNION {[1..n -> Tokens] : n \in 1..MaxTokens} : allows = <<s>>
     /\ prefix \in DeployPrefixes /\ of = Unmarked
  \/ /\ \E s, t \in Alike : allows = <<s, t>>
     /\ prefix \in DeployPrefixes /\ of = Unmarked
  \/ /\ of \in [account : Accounts, name : Names]
     /\ allows = userScope(of.account, of.name)
     /\ prefix \in DeployPrefixes

Next == UNCHANGED vars

Spec == Init /\ [][Next]_vars

Derived == principalFromAllows(allows, root(prefix))

\* The subjects of the form <root>.<account>.<persona>.sign.record.
Grants(persona, account) == root(prefix) \o <<account, persona, "sign", "record">>

\* Whoever is derived was granted: by a grant of exactly that form, with
\* both names there, and no earlier grant of the form names someone else
\* (principal.go:42-43).
DerivedIsGranted ==
  Derived.ok = "yes" =>
    /\ Derived.persona # "" /\ Derived.account # ""
    /\ \E i \in DOMAIN allows :
         /\ allows[i] = Grants(Derived.persona, Derived.account)
         /\ \A j \in 1 .. i - 1 : \A p, a \in Tokens \ {""} : allows[j] # Grants(p, a)

\* A connection admitted under the scope template is the principal the
\* template was resolved for; a name that brings a dot is refused, never
\* taken for somebody else; another prefix derives nobody.
TemplateNamesItsPrincipal ==
  of # Unmarked =>
    Derived = IF prefix = <<>> /\ Len(of.name) = 1 THEN Some(of.name[1], of.account) ELSE None

\* principalFromAllows "finds the one ... grant in a resolved allow list.
\* Pure" (principal.go:42-43): it answers for every list.
AlwaysAnswers == Derived # Panic

===========================================================================
