CONSTANTS
  r1 = r1  r2 = r2  c1 = c1  c2 = c2  k1 = k1  p1 = p1  p2 = p2
  v1 = v1  v2 = v2  good = good  bad = bad
  Requests = {r1, r2}
  Clients = {k1}
  Codes = {c1, c2}
  Logins = {p1, p2}
  Verifiers = {v1, v2}
  Redirects = {good, bad}
  Parseable = {good}
  MaxKid = 2
  NoLogin = NoLogin  NoClient = NoClient  NoCode = NoCode  NoVerifier = NoVerifier  NoRedirect = NoRedirect
SPECIFICATION Spec
SYMMETRY Symmetry
INVARIANTS TypeOK CodeBuysOneToken TokenFollowsSignIn ExpiredCodeIsWorthless FreshTokenVerifies
\* Every code issued and redeemed, and the last rotation done: nothing is left to do.
CHECK_DEADLOCK FALSE
