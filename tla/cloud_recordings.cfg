SPECIFICATION FairSpec
CONSTANTS
  f1 = f1
  f2 = f2
  c1 = c1
  c2 = c2
  File = {f1, f2}
  Camera = {c1, c2}
  CameraOf <- TwoCameras
  MaxVersion = 2
  Total = 2
  Minimum = 1
  MaxNew = 1
  MaxEvents = 1
  None = None
PROPERTIES CloudTimelineKept OldestGoFirst IsTimeline CloudConverges
