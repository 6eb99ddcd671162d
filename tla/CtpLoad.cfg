CONSTANTS
  Lines <- MCLines
  Texts <- MCTexts
  Depth = 2
  MaxGroups = 4
  MaxFiles = 2
SPECIFICATION LoadSpec
INVARIANTS
  LoadedIsFlat
  GroupsInOrder
