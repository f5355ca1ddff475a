SPECIFICATION Spec
CONSTANTS
  User = {u1, u2}
  Login = {s1, s2}
  Client = {c1, c2}
  TTL = 2
SYMMETRY Symmetry
INVARIANTS LiveIsListed RevokesListed
