SPECIFICATION Spec
CONSTANTS
  Names <- MCNames
  MAX_CHAIN_DEPTH = 2
  PRODUCT_SCHEMA_VERSION = 5
  Handles <- MCHandles
  Scopes <- MCScopes
  TagMaps <- MCTags
  ChoiceMaps <- MCChoices
INVARIANTS
  OptionsMatchApply
  AppliedIsPossible
  ExplainAgreesWithApply
  ImpliedIsEntailed
  
  ResolvedIsPossible
