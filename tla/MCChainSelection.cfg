SPECIFICATION Spec
CONSTANTS
  Names <- Chains
  Templates <- AllTemplates
INVARIANTS
  PhasesAgree
  StaysOnChain
