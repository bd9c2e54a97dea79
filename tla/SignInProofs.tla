--------------------------- MODULE SignInProofs ---------------------------
(***************************************************************************)
(* What the authorization server's tokens mean, proved for any number of   *)
(* clients, codes, people, concurrent requests and rotations: one code     *)
(* buys one token, in time, for whoever signed in.                         *)
(***************************************************************************)
EXTENDS SignIn, TLAPS

---------------------------------------------------------------------------
(* The inductive invariant.                                                *)

Redeeming == {"check", "mint"}

\* Handler r has taken code c off the map and not yet given up on it.
HasTaken(r, c) == req[r].pc \in Redeeming /\ req[r].ac # NoAuth /\ req[r].code = c

\* The kid names the key, at the server, at the validator and in a token.
KidNamesKey ==
  /\ kid = key
  /\ jwks.kid = jwks.key
  /\ \A i \in DOMAIN tokens : tokens[i].kid = tokens[i].key

\* A code is minted once, for a registered client; it is on the map with
\* what it was minted for, or it is not there.
CodesAreIssued ==
  \A c \in Codes :
    /\ codes[c] \in {NoAuth, issued[c]}
    /\ issued[c] # NoAuth => issued[c].clientID \in clients

\* What a handler may rely on between its locked sections.
HandlerKnows(r) ==
  LET q == req[r]
  IN  /\ q.pc \in {"lookup", "store"} => q.ac \in AuthCode
      /\ q.pc = "store" => q.ac.clientID \in clients
      /\ q.pc \in Redeeming => q.verifier \in Verifiers
      /\ q.pc \in Redeeming /\ q.ac # NoAuth =>
           q.code \in Codes /\ codes[q.code] = NoAuth /\ issued[q.code] = q.ac
      /\ q.pc = "mint" =>
           q.ac # NoAuth /\ S256(q.verifier) = q.ac.challenge /\ q.code \notin overdue

\* What a token says of the code that bought it.
TokenKnows(i) ==
  LET t == tokens[i]
  IN  /\ issued[t.code] # NoAuth /\ codes[t.code] = NoAuth /\ t.code \notin overdue
      /\ t.login = issued[t.code].login
      /\ S256(t.verifier) = issued[t.code].challenge

\* Whoever takes a code takes it from everybody else.
TakenOnce ==
  /\ \A r, s \in Requests : \A c \in Codes : HasTaken(r, c) /\ HasTaken(s, c) => r = s
  /\ \A r \in Requests : \A i \in DOMAIN tokens : ~HasTaken(r, tokens[i].code)
  /\ CodeBuysOneToken

IInv ==
  /\ TypeOK
  /\ KidNamesKey
  /\ CodesAreIssued
  /\ \A r \in Requests : HandlerKnows(r)
  /\ \A i \in DOMAIN tokens : TokenKnows(i)
  /\ TakenOnce

---------------------------------------------------------------------------
(* The initial states, and what a step leaves alone.                       *)

\* No kid, no code and no handler to say anything about.
LEMMA InitKnows == Init => IInv
<1> SUFFICES ASSUME Init PROVE IInv
  OBVIOUS
<1> USE DEF Init
<1>1. TypeOK
  BY DEF TypeOK, Idle, NoAuth, Published
<1>2. KidNamesKey
  BY DEF KidNamesKey, Published
<1>3. CodesAreIssued
  BY DEF CodesAreIssued
<1>4. ASSUME NEW r \in Requests PROVE HandlerKnows(r) /\ \A c \in Codes : ~HasTaken(r, c)
  BY DEF HandlerKnows, HasTaken, Redeeming, Idle
<1>5. (\A i \in DOMAIN tokens : TokenKnows(i)) /\ TakenOnce
  BY <1>4 DEF TakenOnce, CodeBuysOneToken
<1> QED BY <1>1, <1>2, <1>3, <1>4, <1>5 DEF IInv

\* The code of a token is one that authorize mints.
LEMMA TokensHaveCodes == ASSUME TypeOK PROVE \A i \in DOMAIN tokens : tokens[i].code \in Codes
<1> DEFINE T == [login : Logins, kid : Nat, key : Nat, code : Codes, verifier : Verifiers]
<1>1. tokens \in Seq(T)
  BY DEF TypeOK
<1>2. \A i \in DOMAIN tokens : tokens[i] \in T
  <2> HIDE DEF T
  <2> QED BY <1>1
<1> QED BY <1>2

\* What IInv says of the variables that a handler's own step may change:
\* the rest of the state stands still, and the handler may rely on as much
\* after the step as it needs to.
LEMMA HandlerMoves ==
  ASSUME IInv, NEW r \in Requests, NEW q, req' = [req EXCEPT ![r] = q],
         UNCHANGED <<key, kid, clients, codes, expired, issued, tokens, overdue, jwks>>,
         TypeOK', HandlerKnows(r)',
         \A c \in Codes : HasTaken(r, c)' => HasTaken(r, c)
  PROVE  IInv'
<1>0. req'[r] = q /\ \A s \in Requests \ {r} : req'[s] = req[s]
  BY DEF IInv, TypeOK
<1>1. KidNamesKey' /\ CodesAreIssued'
  BY DEF IInv, KidNamesKey, CodesAreIssued
<1>2. ASSUME NEW s \in Requests PROVE HandlerKnows(s)'
  BY <1>0 DEF IInv, HandlerKnows
<1>3. \A i \in DOMAIN tokens' : TokenKnows(i)'
  BY DEF IInv, TokenKnows
<1>4. \A s \in Requests : \A c \in Codes : HasTaken(s, c)' => HasTaken(s, c)
  BY <1>0 DEF HasTaken
<1>5. \A i \in DOMAIN tokens : tokens[i].code \in Codes
  BY TokensHaveCodes DEF IInv
<1>6. TakenOnce'
  BY <1>4, <1>5 DEF IInv, TakenOnce, CodeBuysOneToken
<1> QED BY <1>1, <1>2, <1>3, <1>6 DEF IInv

---------------------------------------------------------------------------
(* One lemma per operation.                                                *)

\* Registering a client makes a client id known, and forgets none.
LEMMA registerKeeps == ASSUME IInv, register PROVE IInv'
<1> USE DEF register
<1>1. TypeOK' /\ KidNamesKey' /\ CodesAreIssued' /\ TakenOnce'
  BY DEF IInv, TypeOK, KidNamesKey, CodesAreIssued, TakenOnce, HasTaken, CodeBuysOneToken
<1>2. \A r \in Requests : HandlerKnows(r)'
  BY DEF IInv, HandlerKnows
<1>3. \A i \in DOMAIN tokens' : TokenKnows(i)'
  BY DEF IInv, TokenKnows
<1> QED BY <1>1, <1>2, <1>3 DEF IInv

\* The parameters of authorize are complete.
LEMMA authorizeKeeps ==
  ASSUME IInv, NEW r \in Requests, NEW ac \in AuthCode, authorize(r, ac) PROVE IInv'
<1> DEFINE q == [Idle EXCEPT !.pc = "lookup", !.ac = ac]
<1>1. req' = [req EXCEPT ![r] = q]
  BY DEF authorize
<1>2. UNCHANGED <<key, kid, clients, codes, expired, issued, tokens, overdue, jwks>>
  BY DEF authorize
<1>3. q.pc = "lookup" /\ q.ac = ac /\ q \in [pc : {"lookup"}, ac : AuthCode \cup {NoAuth},
        code : Codes \cup {NoCode}, verifier : Verifiers \cup {NoVerifier},
        redirect : Redirects \cup {NoRedirect}]
  BY DEF Idle
<1> HIDE DEF q
<1>4. TypeOK'
  BY <1>1, <1>2, <1>3 DEF IInv, TypeOK
<1>5. req'[r] = q
  BY <1>1 DEF IInv, TypeOK
<1>6. HandlerKnows(r)' /\ \A c \in Codes : ~HasTaken(r, c)'
  BY <1>3, <1>5 DEF HandlerKnows, HasTaken, Redeeming
<1> QED BY <1>1, <1>2, <1>4, <1>6, HandlerMoves

\* A handler that gives up relies on nothing.
LEMMA GivingUpKeeps ==
  ASSUME IInv, NEW r \in Requests, req' = [req EXCEPT ![r] = Idle],
         UNCHANGED <<key, kid, clients, codes, expired, issued, tokens, overdue, jwks>>
  PROVE  IInv'
<1>1. Idle \in [pc : {"idle"}, ac : AuthCode \cup {NoAuth}, code : Codes \cup {NoCode},
        verifier : Verifiers \cup {NoVerifier}, redirect : Redirects \cup {NoRedirect}]
  BY DEF Idle
<1>2. TypeOK'
  BY <1>1 DEF IInv, TypeOK
<1>3. req'[r] = Idle /\ Idle.pc = "idle"
  BY DEF IInv, TypeOK, Idle
<1>4. HandlerKnows(r)' /\ \A c \in Codes : ~HasTaken(r, c)'
  BY <1>3 DEF HandlerKnows, HasTaken, Redeeming
<1> QED BY <1>2, <1>4, HandlerMoves

\* A handler that only moves on to another place of its code.
LEMMA MovingOnKeeps ==
  ASSUME IInv, NEW r \in Requests, NEW pc \in {"store", "mint"},
         req' = [req EXCEPT ![r].pc = pc],
         UNCHANGED <<key, kid, clients, codes, expired, issued, tokens, overdue, jwks>>,
         HandlerKnows(r)',
         pc = "mint" => req[r].pc = "check"
  PROVE  IInv'
<1> DEFINE q == [req[r] EXCEPT !.pc = pc]
           R == [pc : {"idle", "lookup", "store", "check", "mint"},
                 ac : AuthCode \cup {NoAuth}, code : Codes \cup {NoCode},
                 verifier : Verifiers \cup {NoVerifier}, redirect : Redirects \cup {NoRedirect}]
<1>1. req' = [req EXCEPT ![r] = q]
  OBVIOUS
<1>2. req \in [Requests -> R]
  BY DEF IInv, TypeOK
<1>3. q \in R /\ q.pc = pc /\ q.ac = req[r].ac /\ q.code = req[r].code
  <2>1. req[r] \in R
    <3> HIDE DEF R
    <3> QED BY <1>2
  <2> QED BY <2>1
<1> HIDE DEF q, R
<1>4. req' \in [Requests -> R] /\ req'[r] = q
  BY <1>1, <1>2, <1>3
<1>5. TypeOK'
  BY <1>4 DEF IInv, TypeOK, R
<1>6. \A c \in Codes : HasTaken(r, c)' => HasTaken(r, c)
  BY <1>3, <1>4 DEF HasTaken, Redeeming
<1> QED BY <1>1, <1>5, <1>6, HandlerMoves

\* Only a request of a registered client goes on to store a code.
LEMMA LookupKeeps == ASSUME IInv, NEW r \in Requests, Lookup(r) PROVE IInv'
<1>1. CASE req[r].ac.clientID \in clients /\ req' = [req EXCEPT ![r].pc = "store"]
  <2>1. req'[r].pc = "store" /\ req'[r].ac = req[r].ac
    BY <1>1 DEF IInv, TypeOK
  <2>2. HandlerKnows(r)'
    BY <1>1, <2>1 DEF Lookup, IInv, HandlerKnows, Redeeming
  <2> QED BY <1>1, <2>2, MovingOnKeeps DEF Lookup
<1>2. CASE req' = [req EXCEPT ![r] = Idle]
  BY <1>2, GivingUpKeeps DEF Lookup
<1> QED BY <1>1, <1>2 DEF Lookup

\* The checks of token: what passes is worth a token.
LEMMA CheckKeeps == ASSUME IInv, NEW r \in Requests, Check(r) PROVE IInv'
<1>1. CASE Passes(req[r])
  <2>1. req' = [req EXCEPT ![r].pc = "mint"]
    BY <1>1 DEF Check
  <2>2. /\ req'[r].pc = "mint" /\ req'[r].ac = req[r].ac /\ req'[r].code = req[r].code
        /\ req'[r].verifier = req[r].verifier
    BY <2>1 DEF IInv, TypeOK
  <2>3. HandlerKnows(r)'
    BY <1>1, <2>2 DEF Check, IInv, TypeOK, HandlerKnows, Redeeming, Passes
  <2> QED BY <2>1, <2>3, MovingOnKeeps DEF Check
<1>2. CASE ~Passes(req[r])
  <2>1. req' = [req EXCEPT ![r] = Idle]
    BY <1>2 DEF Check
  <2> QED BY <2>1, GivingUpKeeps DEF Check
<1> QED BY <1>1, <1>2


\* A new code is on the map for whoever signed in, and nobody has it yet.
LEMMA StoreKeeps == ASSUME IInv, NEW r \in Requests, Store(r) PROVE IInv'
<1>0. PICK c \in {d \in Codes : issued[d] = NoAuth} :
        codes' = [codes EXCEPT ![c] = req[r].ac] /\ issued' = [issued EXCEPT ![c] = req[r].ac]
  BY DEF Store
<1> DEFINE ac == req[r].ac
<1>1. ac \in AuthCode /\ ac.clientID \in clients
  BY DEF IInv, HandlerKnows, Store
<1>2. /\ codes'[c] = ac /\ issued'[c] = ac
      /\ \A d \in Codes \ {c} : codes'[d] = codes[d] /\ issued'[d] = issued[d]
  BY <1>0 DEF IInv, TypeOK
<1>3. req'[r] = Idle /\ \A s \in Requests \ {r} : req'[s] = req[s]
  BY DEF IInv, TypeOK, Store
<1>4. Idle.pc = "idle" /\ Idle \in [pc : {"idle"}, ac : AuthCode \cup {NoAuth},
        code : Codes \cup {NoCode}, verifier : Verifiers \cup {NoVerifier},
        redirect : Redirects \cup {NoRedirect}]
  BY DEF Idle
<1>5. UNCHANGED <<key, kid, clients, expired, tokens, overdue, jwks>>
  BY DEF Store
<1>6. req' \in [Requests ->
       [pc : {"idle", "lookup", "store", "check", "mint"},
        ac : AuthCode \cup {NoAuth}, code : Codes \cup {NoCode},
        verifier : Verifiers \cup {NoVerifier}, redirect : Redirects \cup {NoRedirect}]]
  BY <1>4 DEF Store, IInv, TypeOK
<1>7. TypeOK'
  BY <1>0, <1>1, <1>5, <1>6 DEF IInv, TypeOK
<1>8. KidNamesKey'
  BY <1>5 DEF IInv, KidNamesKey
<1>9. CodesAreIssued'
  BY <1>1, <1>2, <1>5 DEF IInv, CodesAreIssued
<1>10. \A s \in Requests : \A d \in Codes : HasTaken(s, d)' => HasTaken(s, d) /\ s # r
  BY <1>3, <1>4 DEF HasTaken, Redeeming
<1>11. ASSUME NEW s \in Requests PROVE HandlerKnows(s)'
  <2>1. CASE s = r
    BY <2>1, <1>3, <1>4 DEF HandlerKnows, Redeeming
  <2>2. CASE s # r
    <3>1. req'[s] = req[s]
      BY <1>3, <2>2
    <3>2. req[s].pc \in Redeeming /\ req[s].ac # NoAuth => req[s].code # c
      BY <1>0 DEF IInv, HandlerKnows
    <3> QED BY <1>2, <1>5, <3>1, <3>2 DEF IInv, HandlerKnows
  <2> QED BY <2>1, <2>2
<1>12. \A i \in DOMAIN tokens : tokens[i].code \in Codes
  BY TokensHaveCodes DEF IInv
<1>13. ASSUME NEW i \in DOMAIN tokens PROVE TokenKnows(i)'
  <2>1. tokens[i].code # c
    BY <1>0 DEF IInv, TokenKnows
  <2> QED BY <1>2, <1>5, <1>12, <2>1 DEF IInv, TokenKnows
<1>14. TakenOnce'
  BY <1>5, <1>10, <1>12 DEF IInv, TakenOnce, CodeBuysOneToken
<1> QED BY <1>5, <1>7, <1>8, <1>9, <1>11, <1>13, <1>14 DEF IInv

\* The locked section of token: of all the handlers that present a code, the
\* one that finds it there has taken it from the others.
LEMMA tokenKeeps ==
  ASSUME IInv, NEW r \in Requests, NEW code \in Codes \cup {NoCode}, NEW verifier \in Verifiers,
         NEW redirect \in Redirects \cup {NoRedirect}, token(r, code, verifier, redirect)
  PROVE  IInv'
<1> DEFINE found == IF code = NoCode THEN NoAuth ELSE codes[code]
           q == [pc |-> "check", ac |-> found,
                 code |-> code, verifier |-> verifier, redirect |-> redirect]
<1>0. NoCode \notin Codes
  BY SignInConstants
<1>1. /\ req' = [req EXCEPT ![r] = q]
      /\ codes' = [c \in Codes |-> IF c = code THEN NoAuth ELSE codes[c]]
      /\ UNCHANGED <<key, kid, clients, expired, issued, tokens, overdue, jwks>>
  BY DEF token, Take
<1>2. req'[r] = q /\ \A s \in Requests \ {r} : req'[s] = req[s]
  BY <1>1 DEF IInv, TypeOK
<1>3. found \in AuthCode \cup {NoAuth}
  BY DEF IInv, TypeOK
<1>4. TypeOK'
  BY <1>1, <1>3 DEF IInv, TypeOK
<1>5. KidNamesKey'
  BY <1>1 DEF IInv, KidNamesKey
<1>6. \A c \in Codes : codes'[c] = (IF c = code THEN NoAuth ELSE codes[c])
  BY <1>1
<1>7. CodesAreIssued'
  BY <1>1, <1>6 DEF IInv, CodesAreIssued
<1>8. found # NoAuth => code \in Codes /\ codes[code] # NoAuth /\ issued[code] = found
  BY DEF IInv, CodesAreIssued
<1>9. ASSUME NEW s \in Requests PROVE HandlerKnows(s)'
  <2>1. CASE s = r
    BY <1>1, <1>2, <1>6, <1>8, <2>1 DEF HandlerKnows, Redeeming
  <2>2. CASE s # r
    BY <1>1, <1>2, <1>6, <2>2 DEF IInv, HandlerKnows
  <2> QED BY <2>1, <2>2
<1>10. ASSUME NEW i \in DOMAIN tokens PROVE TokenKnows(i)' /\ tokens[i].code \in Codes
  <2>1. tokens[i].code \in Codes
    BY TokensHaveCodes DEF IInv
  <2> QED BY <1>1, <1>6, <2>1 DEF IInv, TokenKnows
<1>11. \A s \in Requests \ {r} : \A c \in Codes : HasTaken(s, c)' <=> HasTaken(s, c)
  BY <1>2 DEF HasTaken
<1>12. \A c \in Codes : HasTaken(r, c)' => c = code /\ codes[c] # NoAuth
  BY <1>2, <1>8 DEF HasTaken
<1>13. \A s \in Requests : \A c \in Codes : HasTaken(s, c) => codes[c] = NoAuth
  BY DEF IInv, HandlerKnows, HasTaken
<1>14. \A i \in DOMAIN tokens : codes[tokens[i].code] = NoAuth
  BY DEF IInv, TokenKnows
<1>15. TakenOnce'
  <2>1. ASSUME NEW s \in Requests, NEW t \in Requests, NEW c \in Codes,
               HasTaken(s, c)', HasTaken(t, c)'
        PROVE  s = t
    BY <1>11, <1>12, <1>13, <2>1 DEF IInv, TakenOnce
  <2>2. ASSUME NEW s \in Requests, NEW i \in DOMAIN tokens' PROVE (~HasTaken(s, tokens[i].code))'
    <3>1. ~HasTaken(s, tokens[i].code)
      BY <1>1 DEF IInv, TakenOnce
    <3>2. \A c \in Codes : HasTaken(s, c)' => HasTaken(s, c) \/ codes[c] # NoAuth
      BY <1>11, <1>12
    <3>3. tokens'[i] = tokens[i] /\ tokens[i].code \in Codes /\ codes[tokens[i].code] = NoAuth
      BY <1>1, <1>10, <1>14
    <3> QED BY <3>1, <3>2, <3>3
  <2>4. CodeBuysOneToken'
    BY <1>1 DEF IInv, TakenOnce, CodeBuysOneToken
  <2> QED BY <1>1, <2>1, <2>2, <2>4 DEF TakenOnce
<1> QED BY <1>1, <1>4, <1>5, <1>7, <1>9, <1>10, <1>15 DEF IInv


\* The token is the first that its code buys, and names whoever the code was
\* minted for; its kid and key are read under one lock.
LEMMA TokenKeeps == ASSUME IInv, NEW r \in Requests, Token(r) PROVE IInv'
<1> DEFINE new == [login |-> req[r].ac.login, kid |-> kid, key |-> key,
                   code |-> req[r].code, verifier |-> req[r].verifier]
           T == [login : Logins, kid : Nat, key : Nat, code : Codes, verifier : Verifiers]
           n == Len(tokens) + 1
<1>1. /\ tokens' = Append(tokens, new)
      /\ req' = [req EXCEPT ![r] = Idle]
      /\ UNCHANGED <<key, kid, clients, codes, expired, issued, overdue, jwks>>
  BY DEF Token
<1>2. /\ req[r].pc = "mint" /\ HasTaken(r, req[r].code)
      /\ req[r].ac \in AuthCode /\ req[r].code \in Codes /\ req[r].verifier \in Verifiers
      /\ codes[req[r].code] = NoAuth /\ issued[req[r].code] = req[r].ac
      /\ S256(req[r].verifier) = req[r].ac.challenge /\ req[r].code \notin overdue
  BY DEF Token, IInv, TypeOK, HandlerKnows, HasTaken, Redeeming
<1>3. new \in T
  BY <1>2 DEF IInv, TypeOK, AuthCode
<1>4. tokens \in Seq(T)
  BY DEF IInv, TypeOK
<1>5. /\ new.code = req[r].code /\ new.kid = kid /\ new.key = key
      /\ new.login = req[r].ac.login /\ new.verifier = req[r].verifier
  OBVIOUS
<1> HIDE DEF new, T
<1>6. /\ tokens' \in Seq(T) /\ DOMAIN tokens' = DOMAIN tokens \cup {n} /\ n \notin DOMAIN tokens
      /\ tokens'[n] = new /\ \A i \in DOMAIN tokens : tokens'[i] = tokens[i]
  BY <1>1, <1>3, <1>4
<1> HIDE DEF n
<1>7. req'[r] = Idle /\ \A s \in Requests \ {r} : req'[s] = req[s]
  BY <1>1 DEF IInv, TypeOK
<1>8. Idle.pc = "idle" /\ Idle \in [pc : {"idle"}, ac : AuthCode \cup {NoAuth},
        code : Codes \cup {NoCode}, verifier : Verifiers \cup {NoVerifier},
        redirect : Redirects \cup {NoRedirect}]
  BY DEF Idle
<1>9. TypeOK'
  <2>1. tokens' \in Seq([login : Logins, kid : Nat, key : Nat, code : Codes, verifier : Verifiers])
    BY <1>6 DEF T
  <2> QED BY <1>1, <1>8, <2>1 DEF IInv, TypeOK
<1>10. KidNamesKey'
  BY <1>1, <1>5, <1>6 DEF IInv, KidNamesKey
<1>11. CodesAreIssued'
  BY <1>1 DEF IInv, CodesAreIssued
<1>12. ASSUME NEW s \in Requests PROVE HandlerKnows(s)'
  BY <1>1, <1>7, <1>8 DEF IInv, HandlerKnows, Redeeming
<1>13. ASSUME NEW i \in DOMAIN tokens' PROVE TokenKnows(i)'
  <2>1. CASE i = n
    BY <1>1, <1>2, <1>5, <1>6, <2>1 DEF TokenKnows, HasTaken
  <2>2. CASE i \in DOMAIN tokens
    BY <1>1, <1>6, <2>2 DEF IInv, TokenKnows
  <2> QED BY <1>6, <2>1, <2>2
<1>14. \A s \in Requests : \A c \in Codes : HasTaken(s, c)' => HasTaken(s, c) /\ s # r
  BY <1>7, <1>8 DEF HasTaken, Redeeming
<1>15. \A i \in DOMAIN tokens : tokens[i].code \in Codes /\ tokens[i].code # new.code
  BY <1>2, <1>5, TokensHaveCodes DEF IInv, TakenOnce
<1>16. TakenOnce'
  <2>1. \A s, t \in Requests : \A c \in Codes : HasTaken(s, c)' /\ HasTaken(t, c)' => s = t
    BY <1>14 DEF IInv, TakenOnce
  <2>2. ASSUME NEW s \in Requests, NEW i \in DOMAIN tokens' PROVE (~HasTaken(s, tokens[i].code))'
    <3>1. CASE i = n
      BY <1>2, <1>5, <1>6, <1>14, <3>1 DEF IInv, TakenOnce
    <3>2. CASE i \in DOMAIN tokens
      BY <1>6, <1>14, <1>15, <3>2 DEF IInv, TakenOnce
    <3> QED BY <1>6, <3>1, <3>2
  <2>3. CodeBuysOneToken'
    <3>1. \A i, j \in DOMAIN tokens : tokens[i].code = tokens[j].code => i = j
      BY DEF IInv, TakenOnce, CodeBuysOneToken
    <3>2. SUFFICES ASSUME NEW i \in DOMAIN tokens', NEW j \in DOMAIN tokens',
                          tokens'[i].code = tokens'[j].code
                   PROVE  i = j
      BY DEF CodeBuysOneToken
    <3>3. CASE i = n \/ j = n
      BY <1>6, <1>15, <3>2, <3>3
    <3>4. CASE i \in DOMAIN tokens /\ j \in DOMAIN tokens
      BY <1>6, <3>1, <3>2, <3>4
    <3> QED BY <1>6, <3>3, <3>4
  <2> QED BY <2>1, <2>2, <2>3 DEF TakenOnce
<1> QED BY <1>9, <1>10, <1>11, <1>12, <1>13, <1>16 DEF IInv

\* A rotation takes a new kid with the new key.
LEMMA RotateKeeps == ASSUME IInv, Rotate PROVE IInv'
<1> USE DEF Rotate
<1>1. TypeOK' /\ KidNamesKey'
  BY DEF IInv, TypeOK, KidNamesKey
<1>2. CodesAreIssued' /\ TakenOnce'
  BY DEF IInv, CodesAreIssued, TakenOnce, HasTaken, CodeBuysOneToken
<1>3. \A r \in Requests : HandlerKnows(r)'
  BY DEF IInv, HandlerKnows
<1>4. \A i \in DOMAIN tokens' : TokenKnows(i)'
  BY DEF IInv, TokenKnows
<1> QED BY <1>1, <1>2, <1>3, <1>4 DEF IInv

\* A code that somebody has taken in time is not overdue later on.
LEMMA ExpireKeeps == ASSUME IInv, NEW c \in Codes, Expire(c) PROVE IInv'
<1> USE DEF Expire
<1>1. TypeOK' /\ KidNamesKey'
  BY DEF IInv, TypeOK, KidNamesKey
<1>2. CodesAreIssued' /\ TakenOnce'
  BY DEF IInv, CodesAreIssued, TakenOnce, HasTaken, CodeBuysOneToken
<1>3. \A r \in Requests : HandlerKnows(r)'
  BY DEF IInv, HandlerKnows, Redeeming
<1>4. \A i \in DOMAIN tokens' : TokenKnows(i)'
  BY DEF IInv, TokenKnows
<1> QED BY <1>1, <1>2, <1>3, <1>4 DEF IInv

\* The validator caches the key that is published, under its kid.
LEMMA RefetchKeeps == ASSUME IInv, NEW t, Refetch(t) PROVE IInv'
<1> USE DEF Refetch
<1>1. TypeOK' /\ KidNamesKey'
  BY DEF IInv, TypeOK, KidNamesKey, Published
<1>2. CodesAreIssued' /\ TakenOnce'
  BY DEF IInv, CodesAreIssued, TakenOnce, HasTaken, CodeBuysOneToken
<1>3. \A r \in Requests : HandlerKnows(r)'
  BY DEF IInv, HandlerKnows
<1>4. \A j \in DOMAIN tokens' : TokenKnows(j)'
  BY DEF IInv, TokenKnows
<1> QED BY <1>1, <1>2, <1>3, <1>4 DEF IInv

\* A step that changes nothing.
LEMMA StutterKeeps == ASSUME IInv, UNCHANGED vars PROVE IInv'
<1> USE DEF vars
<1>1. TypeOK' /\ KidNamesKey'
  BY DEF IInv, TypeOK, KidNamesKey
<1>2. CodesAreIssued' /\ TakenOnce'
  BY DEF IInv, CodesAreIssued, TakenOnce, HasTaken, CodeBuysOneToken
<1>3. \A r \in Requests : HandlerKnows(r)'
  BY DEF IInv, HandlerKnows
<1>4. \A j \in DOMAIN tokens' : TokenKnows(j)'
  BY DEF IInv, TokenKnows
<1> QED BY <1>1, <1>2, <1>3, <1>4 DEF IInv

---------------------------------------------------------------------------
(* The theorems.                                                           *)

\* Every step of the server, of its clients and of the validator keeps the
\* invariant.
LEMMA StepKeeps == ASSUME IInv, [Next]_vars PROVE IInv'
<1>1. CASE register
  BY <1>1, registerKeeps
<1>2. ASSUME NEW r \in Requests, Handler(r) PROVE IInv'
  <2>1. ASSUME NEW ac \in AuthCode, authorize(r, ac) PROVE IInv'
    BY <2>1, authorizeKeeps
  <2>2. CASE Lookup(r)
    BY <2>2, LookupKeeps
  <2>3. CASE Store(r)
    BY <2>3, StoreKeeps
  <2>4. ASSUME NEW c \in Codes \cup {NoCode}, NEW v \in Verifiers,
               NEW u \in Redirects \cup {NoRedirect}, token(r, c, v, u)
        PROVE  IInv'
    BY <2>4, tokenKeeps
  <2>5. CASE Check(r)
    BY <2>5, CheckKeeps
  <2>6. CASE Token(r)
    BY <2>6, TokenKeeps
  <2> QED BY <1>2, <2>1, <2>2, <2>3, <2>4, <2>5, <2>6 DEF Handler
<1>3. CASE Rotate
  BY <1>3, RotateKeeps
<1>4. ASSUME NEW c \in Codes, Expire(c) PROVE IInv'
  BY <1>4, ExpireKeeps
<1>5. ASSUME NEW i \in DOMAIN tokens, Refetch(tokens[i]) PROVE IInv'
  BY <1>5, RefetchKeeps
<1>6. CASE UNCHANGED vars
  BY <1>6, StutterKeeps
<1> QED BY <1>1, <1>2, <1>3, <1>4, <1>5, <1>6 DEF Next

\* The invariant holds in every reachable state.
LEMMA Invariance == Spec => []IInv
<1>1. Init => IInv
  BY InitKnows
<1>2. IInv /\ [Next]_vars => IInv'
  BY StepKeeps
<1> QED BY <1>1, <1>2, PTL DEF Spec

\* For any clients, codes, people and requests, every reachable state is well
\* typed, and only codes that have run out are overdue.
THEOREM TypeCorrect == Spec => []TypeOK
<1>1. IInv => TypeOK
  BY DEF IInv
<1> QED BY <1>1, Invariance, PTL

\* However many requests present one code, before or after it runs out, token
\* makes at most one access token of it (asstub.go: the code is deleted in
\* the section that looks it up).
THEOREM CodeBuysOneTokenHolds == Spec => []CodeBuysOneToken
<1>1. IInv => CodeBuysOneToken
  BY DEF IInv, TakenOnce
<1> QED BY <1>1, Invariance, PTL

\* A token names the person who signed in for its code through a registered
\* client, and its buyer holds the verifier of that very sign-in.
THEOREM TokenFollowsSignInHolds == Spec => []TokenFollowsSignIn
<1>1. IInv => TokenFollowsSignIn
  BY TokensHaveCodes DEF IInv, TokenKnows, CodesAreIssued, TokenFollowsSignIn
<1> QED BY <1>1, Invariance, PTL

\* A code that ran out on the map never becomes a token, although its age is
\* checked on a copy, off the lock.
THEOREM ExpiredCodeIsWorthlessHolds == Spec => []ExpiredCodeIsWorthless
<1>1. IInv => ExpiredCodeIsWorthless
  BY DEF IInv, TokenKnows, ExpiredCodeIsWorthless
<1> QED BY <1>1, Invariance, PTL

\* A token of the current key verifies whatever key the validator has cached,
\* after any number of rotations and fetches.
THEOREM FreshTokenVerifiesHolds == Spec => []FreshTokenVerifies
<1>1. IInv => FreshTokenVerifies
  BY DEF IInv, KidNamesKey, FreshTokenVerifies, Verifies, Published
<1> QED BY <1>1, Invariance, PTL

===========================================================================
