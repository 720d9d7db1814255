---------------------------- MODULE MCServerLoops ----------------------------
EXTENDS ServerLoops
=============================================================================
