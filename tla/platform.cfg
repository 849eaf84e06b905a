SPECIFICATION Spec
CONSTANTS
  Users = {asha, kunal}
  ItAdmin = asha
  Calls = {c1, c2, c3}
  Nobody = nobody
  NoToken = notoken
  RateLimit = 1
  Window = 1
  TokenLife = 2
  MaxTime = 3
SYMMETRY CallSymmetry
INVARIANTS
  AdmissionIsBounded
  TrailIsSound
CHECK_DEADLOCK FALSE
