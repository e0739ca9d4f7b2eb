------------------------------- MODULE MC_Keep -------------------------------
EXTENDS Keep

CONSTANTS a1, a2, url, badurl, none

MCAlerts == {a1, a2}
MCBadAlerts == {a2}
MCOtherStatuses == {500}
=============================================================================
