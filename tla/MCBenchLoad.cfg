SPECIFICATION Spec
CONSTANTS
  Devices <- MCDevices
  Views = {"meter-2"}
  Files = {"lab"}
  MaxUses = 6
INVARIANTS
  StartsWithLoaded
CHECK_DEADLOCK FALSE
