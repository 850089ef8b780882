SPECIFICATION Spec
CONSTANTS
  Returns <- MCReturns
  Reads <- MCReads
  Takes <- MCTakes
  Casts <- MCCasts
  Parts <- MCParts
  Fields <- MCFields
  Handles <- StandInHandles
  Inhabited <- InhabitedHandles
  Carries <- MCCarries
  Inspects <- MCInspects
INVARIANTS SidesAgree NeverMistaken FailureSurfaces NilIsNone
