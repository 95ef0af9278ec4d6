SPECIFICATION Spec
CONSTANTS
  Names <- MCNames
  ReplLast = "repl.last"
  Chunks <- MixedChunks
  Composites <- MCComposites
  Checks <- CallCheck
  Builds <- CallBuild
  LlvmType <- InternalTypeToLlvm
  Computes <- CallEvaluate
  Reads <- CallLoads
  Means <- CallMeaning
  Subsumes <- CallTypeSubtype
  Equals <- CallTypesEqual
  MaxLeaked = 2
INVARIANTS HeaderSound
PROPERTIES SlotsStable RetypedByDeclaring ImplementsInterpreter
CHECK_DEADLOCK FALSE
