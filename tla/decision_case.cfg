SPECIFICATION Spec
CONSTANTS
  Nil = Nil
  Callers = {c1, c2}
  Alerts <- MCAlerts
  Objects = {"order"}
  ObjectActions = {"notify_owner", "escalate_to_human"}
  Role = "analyst"
  RegistryFile <- MCRegistryFile
  Outputs <- MCOutputs
  ContextActions <- MCContextActions
  NumCases = 2
  NumDecisions = 2
  MaxVersion = 1
INVARIANTS
  TypeOK
  OneActiveCase
  ProposalsArePrefix
  ProposalRestsOnDecision
  StatusHasEvidence
SYMMETRY CallerSymmetry
CHECK_DEADLOCK FALSE
