CONSTANTS
  MaxFd = 2
  m1 = m1
  m2 = m2
  eth = eth
  NoIface = NoIface
  OwnMac = OwnMac
  NoMac = NoMac
  None = None
  Settings <- MCSettings
  Frames <- MCFrames
  Arrivals <- MCArrivals
SPECIFICATION Spec
INVARIANTS EverySocketIsOwned ClosesOnlyItsOwn HandleIsReady SetupInv SettingsAreNotMixed KeepsTheStream
