------------------------------- MODULE MC_Rbac -------------------------------
EXTENDS Rbac

MCProjectIds == {"", "p"}
MCNames == {"*", "n"}
=============================================================================
