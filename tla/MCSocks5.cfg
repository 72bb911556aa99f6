SPECIFICATION Spec
CONSTANTS
  Inputs <- MCInputs
  Binds <- MCBinds
INVARIANTS
  TypeOK
  ReadsWhatWasWritten
  CompleteIsRead
  RepliesAreTrue
