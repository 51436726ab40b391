SPECIFICATION FairSpec
CONSTANTS
  gate = gate
  yard = yard
  Devices = {gate, yard}
  Powered = {gate}
  Ptz = {gate}
  Zoned = {yard}
  Kinds = {"away", "home", "pause", "rearm"}
INVARIANT SessionClosed
INVARIANT OkMeansApplied
 
INVARIANT FailsOnlyByFault
PROPERTY AwayPtzOnline
PROPERTY MuteHonoured
PROPERTY RunEnds
CHECK_DEADLOCK FALSE
