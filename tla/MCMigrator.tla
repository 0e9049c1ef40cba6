----------------------------- MODULE MCMigrator -----------------------------
EXTENDS Migrator

CONSTANTS b1, b2, b3
==============================================================================
