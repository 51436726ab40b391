SPECIFICATION Spec
CONSTANTS
  gate = gate
  yard = yard
  Devices = {gate, yard}
  Powered = {gate}
  Ptz = {gate}
  Zoned = {}
  Kinds = {"apply"}
INVARIANT FailsOnlyByFault
CHECK_DEADLOCK FALSE
