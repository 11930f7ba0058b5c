---------------------------- MODULE MC_Tarantool ----------------------------
\* The start script alone.
EXTENDS Tarantool, TLC
CONSTANTS m1, m2
==============================================================================
