SPECIFICATION Spec
CONSTANTS
  VmSizes <- MCSizes
  CutSizes <- EightOnly
  Seeds = {0, 1, 2, 3, 4, 5, 6, 7, 8, 9, 10, 11, 12, 13, 14, 15, 16, 17, 18, 19, 20}
  Choice <- MCChoice
  TallSeeds = {18, 19, 20}
INVARIANTS PayloadTypeOK RoundTrip SpecIsDefaultOrVms CutOnlyInLastString
