CONSTANTS
  h1 = h1
  h2 = h2
  s1 = s1
  actor = actor
  claim = claim
  secret = secret
  None = None
  Name = {secret}
  Hand <- MCHand
  Session = {s1}
  ActorOf <- MCActorOf
  ClaimOf <- MCClaimOf
  MissIsSure = FALSE
  MaxRows = 2
  MaxKeys = 2
  MaxTime = 1
SYMMETRY Symmetry
SPECIFICATION Spec
INVARIANT OnlyTheStockIsSealed
INVARIANT ShelfKeepsItsMode
INVARIANT ReadsAreAccountedFor
INVARIANT SealedStockOpensUnlessOverwritten
INVARIANT RotationsReadBack
