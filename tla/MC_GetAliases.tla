--------------------------- MODULE MC_GetAliases ---------------------------
EXTENDS GetAliases

CONSTANTS n1, n2, n3

MCNode == {n1, n2, n3}

=============================================================================
