SPECIFICATION Spec
CONSTANTS
  People = {ann, bob}
  Services = {}
  Credentials = {c1, c2}
  Tx = {t1, t2}
SYMMETRY Interchangeable
INVARIANT OwnerAlways
