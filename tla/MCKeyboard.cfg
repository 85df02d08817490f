SPECIFICATION Spec
CONSTANTS
  NoChar = NoChar
  CAP = 2
  Uses <- mcUses
INVARIANT TypedAsStruck
INVARIANT NoStuckModifier
INVARIANT EveryKeyHasOneCode
PROPERTY BufferIsQueue
PROPERTY BytesAreHandled
