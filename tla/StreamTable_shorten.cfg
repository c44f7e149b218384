\* The same searches, asked whether any tool ever shortens an entry.
CONSTANTS
  Sources = {1, 2, 3}
  MaxLength = 3
  RomEnd = 7
  Shapes = {"steady", "leaps", "jumps"}
  Asked = 3
  Tools = {"harvest", "converge", "tour"}
  HarvestRounds = 4
  ConvergeRounds = 3
  Runs = 2
  Roms <- MCRoms
  Tables <- MCTables
  Reports <- MCSteady
SPECIFICATION Spec
PROPERTY NeverShortened
