\* An exit backup and a manual one of the category, a prune and a restore.
CONSTANTS
  Hour <- MCHour
  Day <- MCDay
  Month <- MCMonth
  Year <- MCYear
  Files = {world_file}
  Children = {"exit", "manual"}
  Config <- MCConfig
  Categories <- MCCategories
  WaitPolls = 1
  MaxTime = 1
  MaxWorld = 1
SPECIFICATION FairSpec
INVARIANTS
  HoldersHaveTheLock
  WriterKeepsItsFile
  PartialIsExplained
  ExitBackupIsExact
PROPERTIES
  ArchivesSurvive
  ChildrenEnd
