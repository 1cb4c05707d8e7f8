CONSTANTS
  cap_p = 4
  word_t = {w1, w2, w3}
SPECIFICATION Spec
INVARIANTS TypeOK FrontIsOldest
PROPERTY Refines
