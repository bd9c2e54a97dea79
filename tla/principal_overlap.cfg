CONSTANTS
  Tokens = {"identity", "sign", "record", "a", "p", ""}
  MaxTokens = 4
  DeployPrefixes <- MCPrefixes
  Names <- MCNames
  Accounts = {"a", "acct"}
SPECIFICATION Spec
INVARIANTS AlwaysAnswers
