SPECIFICATION Spec
CONSTANTS
  Workers = {w1, w2}
  Conns = {c1, c2, c3, c4}
  Handles = {h1, h2, h3, h4}
  IPs = {i1, i2}
  None = None
  Limits = {1, 2}
  IPAccessLimit = 2
SYMMETRY Symmetry
INVARIANTS
  RegistriesAgree
  MapFindsLive
  AddressLimit
  LimitOvershoot
CHECK_DEADLOCK FALSE
