CONSTANTS
  Clients = {c1, c2}
  Keys = {k1, k2, k3}
  Requests <- SomeRequests
  Faulty = TRUE
SYMMETRY Symmetry
SPECIFICATION Spec
INVARIANTS
  TypeOK
  OncePerKey
  AuditIsALegalWalk
  StartedIsOffered
PROPERTY ActsSerially
