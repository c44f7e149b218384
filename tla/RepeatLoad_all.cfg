\* Three lists, with and without a reset button, and with something else that
\* may write over any of the marker's bytes.
CONSTANTS
  Ids = {1, 2, 3}
  ListEnd <- MCListEnd
  Top = 5
  MaxGroup = 2
  Environments <- MCEnvironments
SPECIFICATION LoadSpec
INVARIANTS SkippedIsResident GroupsAboveList
PROPERTIES ResidentIsSkipped UploadMakesMarkerTrue
