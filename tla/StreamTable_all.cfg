\* Three addresses whose streams run over each other, two runs to an iteration,
\* and all three tools in any order.
CONSTANTS
  Sources = {1, 2, 3}
  MaxLength = 3
  RomEnd = 7
  Shapes = {"steady", "leaps", "jumps"}
  Asked = 3
  Tools = {"harvest", "converge", "tour"}
  HarvestRounds = 4
  ConvergeRounds = 3
  Runs = 2
  Roms <- MCRoms
  Tables <- MCTables
  Reports <- MCSteady
SPECIFICATION Spec
INVARIANTS ToursStayCovered ConvergedMeansQuiet 
PROPERTY HarvestMakesRoom
