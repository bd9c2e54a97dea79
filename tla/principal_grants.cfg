CONSTANTS
  Tokens = {"identity", "sign", "record", "a", "p", ""}
  MaxTokens = 6
  DeployPrefixes <- MCPrefixes
  Names <- MCNames
  Accounts = {"a", "acct"}
SPECIFICATION Spec
INVARIANTS DerivedIsGranted TemplateNamesItsPrincipal
