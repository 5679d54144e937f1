SPECIFICATION Spec
CONSTANTS
  d0 = d0 d1 = d1 d2 = d2
  EmptyDef = EmptyDef InvalidDef = InvalidDef NONE = NONE
  Ops = {o1, o2}
  Cells = {1, 2}
  Defs = {d0, d1, d2}
  Names = {1, 2}
  Uses <- MCUses
  MaxId = 3
  MaxPstmt = 9
  Settings <- PlaceholderSettings
SYMMETRY Perms
INVARIANT PlaceholdersRight
