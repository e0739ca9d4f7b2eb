-------------------------- MODULE MC_Categories ----------------------------
EXTENDS Categories

CONSTANTS web, db_cat, monitoring
=============================================================================
