\* A logout beside a refresh on one device.
SPECIFICATION Spec
CONSTANTS
  Devices = {d1}
  Tokens = {t1, t2, t3}
  NoToken = NoToken
  Codes = {c1, c2}
  MaxChanges = 2
SYMMETRY Symmetric
INVARIANTS
  LogoutIsFinal
