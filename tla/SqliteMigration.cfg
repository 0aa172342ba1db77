\* Upgrades, downgrades, backups and restores of one file under two faults.
CONSTANTS
  MaxWrites = 2
  MaxCommands = 3
  MaxFaults = 2
SPECIFICATION FairSpec
INVARIANTS RowsSurvive
PROPERTIES MigrationHasBackup StartSettles
