SPECIFICATION Spec
CONSTANTS
  Caller = {c1, c2}
  Axis = {PanTilt, Zoom}
  Position = {door, yard}
  None = None
SYMMETRY CallerSymmetry
INVARIANTS MovesAreAccounted PresetReused
PROPERTIES HomeIsWhereSet
