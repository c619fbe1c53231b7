SPECIFICATION Spec
CONSTANTS
  browser = browser
  app = app
  u1 = u1
  Workers = {w1, w2}
  Clients = {browser, app}
  Web = {browser}
  Users = {u1}
  Devices = {"1234", "5678"}
  UserOf <- OneUser
  DeviceOf <- OneDevice
  AccessTtl = 1
  RefreshTtl = 2
  BlacklistTtl = 1
  MaxRetries = 1
  MaxClock = 2
  MaxRequests = 3
  MaxFaults = 1
  None = None
SYMMETRY Instances
CHECK_DEADLOCK FALSE
INVARIANTS EndedIsRefused SessionKept AloneGoesOn RegisteredOnce
