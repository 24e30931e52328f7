------------------------- MODULE MCConsoleRequests -------------------------
EXTENDS ConsoleRequests

CONSTANTS h1
=============================================================================
