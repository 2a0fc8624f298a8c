SPECIFICATION Spec
CONSTANTS
  Names <- Chains
  Templates <- AllTemplates
INVARIANT ConfigOfActiveChain
