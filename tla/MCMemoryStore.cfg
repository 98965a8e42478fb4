CONSTANTS
  a = a  b = b  c1 = c1  k1 = k1  k2 = k2  f1 = f1  f2 = f2  g1 = g1  g2 = g2
  Calls = {a, b, c1}
  Keys = {k1, k2}
  KeyOf <- MCKeyOf
  FingerprintOf <- MCFingerprintOf
  Readers = {g1, g2}
  AskedOf <- MCAskedOf
  NoCall = NoCall
SPECIFICATION Spec
INVARIANTS
  ReadersSeeSnapshot
PROPERTIES
  ImplementsContract
