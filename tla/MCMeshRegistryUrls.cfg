\* Does a node keep the URL it last reported?
SPECIFICATION Spec
CONSTANTS
  n1 = n1
  n2 = n2
  k1 = k1
  k2 = k2
  NoPublicKey = NoPublicKey
  Nodes <- TwoNodes
  PublicKeys <- TwoKeys
  RequireIdentity = FALSE
  MaxEvents = 2
  MaxLog = 3
SYMMETRY Interchangeable
PROPERTIES UrlOutlivesHeartbeat
