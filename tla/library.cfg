SPECIFICATION FairSpec
CONSTANTS
  Session = {1, 2, 3}
  Scripts <- MixedScripts
  Tape = {1, 2, 3, 4}
  Cleaning = {4}
  Slot = {11, 12, 13, 14}
  Drive = {1, 2}
  Home <- HomeMixed
  FirstStatus <- StatusMixed
  Databases = {"sqlite", "postgres"}
  MaxTroubles = 2
INVARIANTS TypeOK LogIsTrue FreeSlotStaysFree CatalogueFollowsTapes
PROPERTIES WipedAsAsked RetiredStays CallsEnd
