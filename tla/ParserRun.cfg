SPECIFICATION Spec
CONSTANTS
  MaxQuant = 12
  MaxName = 2
  MaxNodes = 30
  MaxDepth = 3
  MaxClasses = 10
  MaxGroups = 2
  MaxNames = 2
  MaxNameBytes = 4
  MaxRefs = 8
  Newline = "ANYCRLF"
INVARIANTS ArenaIsTree MeansWhatItSays RefusesRightly SameReading
