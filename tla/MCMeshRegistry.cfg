\* Two nodes with two keys between them; a third event compacts.  Restarts and crashes
\* in mid-call at any point.
SPECIFICATION Spec
CONSTANTS
  n1 = n1
  n2 = n2
  k1 = k1
  k2 = k2
  NoPublicKey = NoPublicKey
  Nodes <- TwoNodes
  PublicKeys <- TwoKeys
  RequireIdentity = FALSE
  MaxEvents = 2
  MaxLog = 4
SYMMETRY Interchangeable
INVARIANTS NothingForgotten IdentityPinned
PROPERTIES ReadsAsComplete
