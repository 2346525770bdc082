\* Two devices and two codes in circulation.
SPECIFICATION Spec
CONSTANTS
  Devices = {d1, d2}
  Tokens = {t1, t2, t3, t4}
  NoToken = NoToken
  Codes = {c1, c2}
  MaxChanges = 2
SYMMETRY Symmetric
INVARIANTS
  OneSessionPerLogin
  ChangeEndsSessions
  OwnRefreshKeepsSession
