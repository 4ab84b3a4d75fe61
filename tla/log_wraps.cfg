SPECIFICATION Spec
CONSTANTS
  Mark = {hit, limited}
  Blank = Blank
  MaxSize = 4
INVARIANTS LogTypeOK LastNAreLatest
PROPERTIES KeepsTheLatest StatsSlide
