------------------------------ MODULE SignIn ------------------------------
(***************************************************************************)
(* The authorization server stand-in of rigtest/asstub.go and flow.go:     *)
(* dynamic client registration, the authorization-code + PKCE flow, and    *)
(* the signing key that JWKS publishes and Rotate replaces.                *)
(*                                                                         *)
(* HTTP handlers run concurrently; each locked section of the code is one  *)
(* action.  A person and the roles hint arrive together as one login.      *)
(* The token validator is external: as asstub.go:67-68 says of it, it      *)
(* caches the published key and fetches it again on an unknown kid.        *)
(***************************************************************************)
EXTENDS Naturals, Sequences

CONSTANTS
  Requests,    \* concurrently served HTTP requests
  Clients,     \* client ids register can mint
  Codes,       \* codes authorize can mint: the bound on sign-ins
  Logins,      \* a person (oid) with a roles hint
  Verifiers,   \* PKCE verifiers clients may hold
  Redirects,   \* redirect URIs
  Parseable,   \* those url.Parse accepts
  MaxKid,      \* bound on Rotate
  NoCode, NoVerifier, NoRedirect, NoLogin, NoClient    \* the empty string

ASSUME SignInConstants ==
  /\ Parseable \subseteq Redirects
  /\ MaxKid \in Nat
  /\ NoCode \notin Codes /\ NoVerifier \notin Verifiers /\ NoRedirect \notin Redirects
  /\ NoLogin \notin Logins /\ NoClient \notin Clients

VARIABLES
  key,       \* s.key, as the number of keys generated so far
  kid,       \* s.kid
  clients,   \* s.clients
  codes,     \* s.codes: code -> authCode, NoAuth where there is none
  expired,   \* codes whose two minutes are over
  req,       \* per request: where its handler is and its locals
  issued,    \* history: the authCode a code was minted for
  tokens,    \* history: the access tokens minted
  overdue,   \* history: codes that ran out before anybody presented them
  jwks       \* the validator's cached key

vars == <<key, kid, clients, codes, expired, req, issued, tokens, overdue, jwks>>

\* base64url(sha256(verifier)): one-way and injective.
S256(verifier) == <<"S256", verifier>>

AuthCode == [login : Logins, clientID : Clients, redirect : Redirects,
             challenge : {S256(v) : v \in Verifiers}]

\* The zero authCode that looking up a missing code yields.
NoAuth == [login |-> NoLogin, clientID |-> NoClient, redirect |-> NoRedirect,
           challenge |-> NoVerifier]

Idle == [pc |-> "idle", ac |-> NoAuth, code |-> NoCode,
         verifier |-> NoVerifier, redirect |-> NoRedirect]

Published == [kid |-> kid, key |-> key]

---------------------------------------------------------------------------
(* The endpoints.                                                          *)

register ==
  \E c \in Clients \ clients :
    /\ clients' = clients \cup {c}
    /\ UNCHANGED <<key, kid, codes, expired, req, issued, tokens, overdue, jwks>>

\* authorize with its parameters complete; it reads no state yet.
authorize(r, ac) ==
  /\ req[r].pc = "idle"
  /\ req' = [req EXCEPT ![r] = [Idle EXCEPT !.pc = "lookup", !.ac = ac]]
  /\ UNCHANGED <<key, kid, clients, codes, expired, issued, tokens, overdue, jwks>>

\* The first locked section: is the client known?  If not, 400.
Lookup(r) ==
  /\ req[r].pc = "lookup"
  /\ \/ /\ req[r].ac.clientID \in clients
        /\ req' = [req EXCEPT ![r].pc = "store"]
     \/ /\ req[r].ac.clientID \notin clients
        /\ req' = [req EXCEPT ![r] = Idle]
  /\ UNCHANGED <<key, kid, clients, codes, expired, issued, tokens, overdue, jwks>>

\* The second: a random, hence new, code is stored.  It is stored even when
\* the redirect does not parse and the reply is a 400 that does not carry it.
Store(r) ==
  /\ req[r].pc = "store"
  /\ \E c \in {d \in Codes : issued[d] = NoAuth} :
       /\ codes'  = [codes  EXCEPT ![c] = req[r].ac]
       /\ issued' = [issued EXCEPT ![c] = req[r].ac]
  /\ req' = [req EXCEPT ![r] = Idle]
  /\ UNCHANGED <<key, kid, clients, expired, tokens, overdue, jwks>>

\* A client presents a code it was told, or one it made up, a verifier, and
\* a redirect URI or none.
Told(c) == issued[c] # NoAuth /\ issued[c].redirect \in Parseable

\* Faulty: the code is looked up and left in place.
TakeLeavesCode(r, code, verifier, redirect) ==
  /\ req' = [req EXCEPT ![r] =
               [pc |-> "check", ac |-> IF code = NoCode THEN NoAuth ELSE codes[code],
                code |-> code, verifier |-> verifier, redirect |-> redirect]]
  /\ UNCHANGED codes

\* token's locked section: the code is deleted before anything is checked.
Take(r, code, verifier, redirect) ==
  /\ req' = [req EXCEPT ![r] =
               [pc |-> "check", ac |-> IF code = NoCode THEN NoAuth ELSE codes[code],
                code |-> code, verifier |-> verifier, redirect |-> redirect]]
  /\ codes' = [c \in Codes |-> IF c = code THEN NoAuth ELSE codes[c]]

token(r, code, verifier, redirect) ==
  /\ req[r].pc = "idle"
  /\ code # NoCode => Told(code)
  /\ Take(r, code, verifier, redirect)
  /\ UNCHANGED <<key, kid, clients, expired, issued, tokens, overdue, jwks>>

\* Faulty: a missing code skips the checks.
PassesWhenMissing(q) ==
  \/ q.ac = NoAuth
  \/ q.code \notin expired /\ S256(q.verifier) = q.ac.challenge

\* Faulty: the age of the code is not looked at.
PassesAtAnyAge(q) ==
  /\ q.ac # NoAuth
  /\ S256(q.verifier) = q.ac.challenge
  /\ q.redirect \in {NoRedirect, q.ac.redirect}

\* Faulty: the verifier is not hashed against the challenge.
PassesUnproved(q) ==
  /\ q.ac # NoAuth /\ q.code \notin expired
  /\ q.redirect \in {NoRedirect, q.ac.redirect}

\* The checks of token on its own copy of the authCode, off the lock.
Passes(q) ==
  /\ q.ac # NoAuth /\ q.code \notin expired
  /\ S256(q.verifier) = q.ac.challenge
  /\ q.redirect \in {NoRedirect, q.ac.redirect}

Check(r) ==
  /\ req[r].pc = "check"
  /\ req' = [req EXCEPT ![r] = IF Passes(req[r]) THEN [@ EXCEPT !.pc = "mint"] ELSE Idle]
  /\ UNCHANGED <<key, kid, clients, codes, expired, issued, tokens, overdue, jwks>>

\* Token: key and kid are read under one lock, the claims name the person
\* of the authCode, and the signature is made with that key.
Token(r) ==
  /\ req[r].pc = "mint"
  /\ tokens' = Append(tokens, [login |-> req[r].ac.login, kid |-> kid, key |-> key,
                               code |-> req[r].code, verifier |-> req[r].verifier])
  /\ req' = [req EXCEPT ![r] = Idle]
  /\ UNCHANGED <<key, kid, clients, codes, expired, issued, overdue, jwks>>

---------------------------------------------------------------------------
(* Keys, time, and the validator.                                          *)

\* Faulty: the key is replaced under the kid it had.
RotateKeepsKid ==
  /\ key < MaxKid
  /\ key' = key + 1
  /\ UNCHANGED <<kid, clients, codes, expired, req, issued, tokens, overdue, jwks>>

Rotate ==
  /\ kid < MaxKid
  /\ key' = key + 1 /\ kid' = kid + 1
  /\ UNCHANGED <<clients, codes, expired, req, issued, tokens, overdue, jwks>>

Expire(c) ==
  /\ issued[c] # NoAuth /\ c \notin expired
  /\ expired' = expired \cup {c}
  /\ overdue' = IF codes[c] = NoAuth THEN overdue ELSE overdue \cup {c}
  /\ UNCHANGED <<key, kid, clients, codes, req, issued, tokens, jwks>>

\* The validator is presented with a token whose kid it does not know.
Refetch(t) ==
  /\ t.kid # jwks.kid
  /\ jwks' = Published
  /\ UNCHANGED <<key, kid, clients, codes, expired, req, issued, tokens, overdue>>

---------------------------------------------------------------------------

Init ==
  /\ key = 1 /\ kid = 1
  /\ clients = {} /\ expired = {} /\ overdue = {} /\ tokens = <<>>
  /\ codes  = [c \in Codes |-> NoAuth]
  /\ issued = [c \in Codes |-> NoAuth]
  /\ req = [r \in Requests |-> Idle]
  /\ jwks = Published

Handler(r) ==
  \/ \E ac \in AuthCode : authorize(r, ac)
  \/ Lookup(r)
  \/ Store(r)
  \/ \E c \in Codes \cup {NoCode}, v \in Verifiers, u \in Redirects \cup {NoRedirect} :
       token(r, c, v, u)
  \/ Check(r)
  \/ Token(r)

Next ==
  \/ register
  \/ \E r \in Requests : Handler(r)
  \/ Rotate
  \/ \E c \in Codes : Expire(c)
  \/ \E i \in DOMAIN tokens : Refetch(tokens[i])

Spec == Init /\ [][Next]_vars

---------------------------------------------------------------------------
(* Properties.                                                             *)

\* The variables stay within their types.
TypeOK ==
  /\ key \in Nat /\ kid \in Nat
  /\ clients \subseteq Clients /\ overdue \subseteq expired /\ expired \subseteq Codes
  /\ codes  \in [Codes -> AuthCode \cup {NoAuth}]
  /\ issued \in [Codes -> AuthCode \cup {NoAuth}]
  /\ req \in [Requests ->
       [pc : {"idle", "lookup", "store", "check", "mint"},
        ac : AuthCode \cup {NoAuth}, code : Codes \cup {NoCode},
        verifier : Verifiers \cup {NoVerifier}, redirect : Redirects \cup {NoRedirect}]]
  /\ tokens \in Seq([login : Logins, kid : Nat, key : Nat, code : Codes, verifier : Verifiers])
  /\ jwks \in [kid : Nat, key : Nat]

\* However many token requests present one code at once, it buys at most one
\* access token: token deletes it in the locked section that looks it up.
CodeBuysOneToken ==
  \A i, j \in DOMAIN tokens : tokens[i].code = tokens[j].code => i = j

\* A token names the person who signed in for its code, was bought by the
\* holder of that sign-in's verifier, and the sign-in came through a
\* registered client: authorize and token together keep the chain.
TokenFollowsSignIn ==
  \A i \in DOMAIN tokens :
    LET t == tokens[i]  ac == issued[t.code]
    IN  /\ ac # NoAuth
        /\ t.login = ac.login
        /\ S256(t.verifier) = ac.challenge
        /\ ac.clientID \in clients

\* A code that ran out while still stored is never turned into a token: the
\* copy that token takes off the map is checked against the clock.
ExpiredCodeIsWorthless == \A i \in DOMAIN tokens : tokens[i].code \notin overdue

\* What the validator finds when a token is presented to it.
Verifies(t) ==
  LET k == IF t.kid = jwks.kid THEN jwks ELSE Published
  IN  k.kid = t.kid /\ k.key = t.key

\* "The validator refetches JWKS on an unknown kid, so no restart is needed"
\* (asstub.go:67-68): a token signed with the current key verifies whatever
\* the validator had cached, across any number of rotations.
FreshTokenVerifies ==
  \A i \in DOMAIN tokens : tokens[i].key = key => Verifies(tokens[i])

===========================================================================
