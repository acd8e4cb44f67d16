SPECIFICATION Spec
CONSTANTS
  Commands <- MCCommands
  Inputs <- MCInputs
  MayFollow <- MCMayFollow
INVARIANTS
  TypeOK
  RegistersAsCommanded
PROPERTY
  PinsAsRead
