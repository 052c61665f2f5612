SPECIFICATION Spec
CONSTANTS
  b1 = b1  s1 = s1  s2 = s2
  ada = ada  ADA = ADA  bob = bob  pw1 = pw1  pw2 = pw2
  None = None
  Browsers = {b1}
  Slots = {s1, s2}
  Spellings = {ada, ADA, bob}
  Normal <- Lowered
  Passwords = {pw1, pw2}
  MaxFaults = 1
SYMMETRY Symmetric
CHECK_DEADLOCK FALSE
INVARIANTS ScreenNamesItsSession
PROPERTIES ImplementsDirectory
