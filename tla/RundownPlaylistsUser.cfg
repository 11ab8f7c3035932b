CONSTANTS
  Rundown = {R1, R2}
  Playlist = {P1, P2, U}
  External = {P1, P2}
  Tmp = Tmp
  None = None
  MaxFaults = 0
SYMMETRY Symmetry
SPECIFICATION Spec
INVARIANTS
  UpdatesReachTheRundown
