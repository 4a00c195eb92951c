SPECIFICATION BindingFairSpec
CONSTANTS
  Thread = {t1, t2}
  Id = {i1, i2, i3}
  MaxFaults = 1
  MaxFlips = 2
PROPERTIES BoundForGood HalfBoundRecovers
