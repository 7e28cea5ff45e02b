SPECIFICATION Spec
CONSTANTS
  Any = Any
  Rest = Rest
  Floor <- MCFloor
  Lower <- MCLower
  Requests <- MCRequests
  RuleBooks <- MCRuleBooks
  FirstBooks <- MCFirstBooks
  FirstActive = 0
  FirstGranted <- MCFirstGranted
  MaxVersions = 2
  MaxCalls = 3
  MaxEvaluations = 2
INVARIANTS TypeOK EvaluationObeys FloorReadsPaths RevokedStaysRevoked LastActivatedIsInForce ChainVerifies
CHECK_DEADLOCK FALSE
