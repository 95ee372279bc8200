SPECIFICATION HostSpec
CONSTANTS
  a = a
  b = b
  PF = {a, b}
  Ice = {b}
  Interface <- Interfaces
  TotalVfs = 2
  NoPF = NoPF
  MaxFaults = 1
  MaxSpecs = 3
  MaxOutside = 1
INVARIANTS ResetOnlyOwnVfs NoLeakWithoutFaults DrainBeforeTouch
PROPERTIES HostSettles
CHECK_DEADLOCK FALSE
