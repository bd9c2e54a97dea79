SPECIFICATION HostedSpec
CONSTANTS
  a1 = a1
  a2 = a2
  a3 = a3
  a4 = a4
  ra = ra
  A = A
  B = B
  Bearers = {a1, a2, a3, a4}
  Principals = {A}
  Requests = {ra}
  Entries = {e1, e2, e3, e4}
  Sids = {s1, s2, s3, s4}
  NoBearer = NoBearer
  NoEntry = NoEntry
  NoSid = NoSid
  Nobody = Nobody
  Unset = Unset
  PrincipalOf <- MCPrincipalOf
  Person <- MCPerson
  Shape <- MCShape
  Slashed <- MCSlashed
  Deployments <- MCDeployments
  EdgeIssuer = "https://as"
  Revocable = {a1, a2, a3, a4}
  Flaky = FALSE
  Closable = FALSE
  PublicModes = {TRUE, FALSE}
  MaxKid = 3
  MaxMishaps = 3
CHECK_DEADLOCK FALSE
INVARIANTS HostedTypeOK RestartIsFree
 
