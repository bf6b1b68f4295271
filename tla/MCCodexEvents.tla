---------------------------- MODULE MCCodexEvents ----------------------------
\* CodexEvents for TLC, with the names of its constants.
EXTENDS CodexEvents

CONSTANTS h1, h2, t1, hub0

=============================================================================
