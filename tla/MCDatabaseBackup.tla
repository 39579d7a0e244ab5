-------------------------- MODULE MCDatabaseBackup --------------------------
EXTENDS DatabaseBackup, TLC

============================================================================
