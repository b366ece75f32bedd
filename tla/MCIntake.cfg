SPECIFICATION Spec
CONSTANTS
  r1 = r1
  r2 = r2
  r3 = r3
  r4 = r4
  k1 = k1
  Operators = {o1, o2}
  Urls <- MCUrls
  PostBodies <- MCPostBodies
  PatchBodies <- MCPatchBodies
  AllowPrivateTargets = FALSE
  NoUrl = NoUrl
  Unset = Unset
  NoOperator = NoOperator
  Requests <- MCRequests
  Keys = {k1}
  NoKey = NoKey
  MaxFields = 3
  MaxFieldNameLength = 1
  MaxFieldValueLength = 2
  KeyOf <- MCKeyOf
  ItemsOf <- MCItemsOf
  NoRequest = NoRequest
SYMMETRY MCSymmetry
CHECK_DEADLOCK FALSE
INVARIANTS
  CollisionResolved
  QueuedMeansOwed
  SignedForItsReceiver
  NoInternalLiteral
PROPERTIES
  KeepsKeys
  SecretChangesWithDestination
