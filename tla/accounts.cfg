SPECIFICATION Spec
CONSTANTS
  Issuer = {i1, i2, i3}
  Bearer = {b1, b2}
  Email = {e1, e2}
  Identity = {x1, x2}
  None = None
SYMMETRY Symmetry
INVARIANTS OnceUnlessTogether VerifiedIsProven SessionIsLinked NothingWasted
