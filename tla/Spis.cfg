SPECIFICATION FairSpec
CONSTANTS
  N = 4
  Width = 8
  Frames = {f, Blank}
  Blank = Blank
INVARIANTS TypeOK TornByThreeAtMost SettledFrameWhole
PROPERTIES PrintedAsSent RefreshedAfterTransfer
CHECK_DEADLOCK FALSE
