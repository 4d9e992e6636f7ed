SPECIFICATION Spec
CONSTANTS
  FeeSetups <- Setups
  MaxVolume = 2
  MaxOps = 4
INVARIANTS
  UnpoisonedSane
  LotsAgree
  FeesAgree
