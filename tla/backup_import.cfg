SPECIFICATION Spec
CONSTANTS
  host = host
  password = password
  ip = ip
  Section <- MCSection
  Secrets = {password}
  Values = {0, 1}
  Default = 0
  Unset = Unset
  Blank = Blank
  Colours = {red, blue, sand}
  MaxColours = 2
  Posts = {p1, p2}
  MaxForms = 2
  red = red
  blue = blue
  sand = sand
  p1 = p1
  p2 = p2
  Inputs <- MCInputs
  InitialDb <- MCDb
  InitialLast <- MCLast
INVARIANT SettingsInEffect
INVARIANT RunKeepsItsCameras
PROPERTY OnlyEditedChange
PROPERTY PaletteStep
PROPERTY BackupIsWhole
PROPERTY ImportIsAtomic
SYMMETRY Symmetry
CHECK_DEADLOCK FALSE
