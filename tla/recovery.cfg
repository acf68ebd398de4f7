SPECIFICATION Spec
CONSTANTS
  studio = studio
  mcp = mcp
  quinn = quinn
  pat = pat
  Host = {studio, mcp}
  Sealing = {mcp}
  Reviewer = {quinn, pat}
  RoleOf <- MCRoleOf
  Subject <- MCSubject
  NamesIn <- MCNamesIn
  Prefix <- MCPrefix
  Delta <- MCDelta
  Vague = {}
  Leaky = {}
  Numeric = {}
  Guarded = {}
  Async = {}
  Nobody = 0
  None = None
  MaxCandidates = 100
  MaxEvidence = 20
  MaxSymbols = 500
  Tried = {"accept_as_intended", "reject", "observed_only", "request_product_decision"}
  MaxDecisions = 2
INVARIANTS SealsRestOnApproval SealedIsUncontested
PROPERTIES FinalStatesStay
