--------------------------- MODULE MCCommandRunner ---------------------------
EXTENDS CommandRunner
=============================================================================
