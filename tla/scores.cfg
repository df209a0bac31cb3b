SPECIFICATION Spec
CONSTANTS
  d1 = d1
  d2 = d2
  Devices = {d1, d2}
  Player <- Players
  Keys <- ThreeRows
  Scores = {1, 2}
  CompareDates = {0, 1}
  Configs <- OtherSettings
  DefaultConfig <- Plain
  NoBoard = NoBoard
  NoRow = NoRow
  MaxTime = 2
  MaxFiles = 2
  MaxBusy = 2
ACTION_CONSTRAINT InFamily
INVARIANTS TypeOK  BoardIsTop
PROPERTIES ScoresAndDataSound
