---------------------------- MODULE MC_DemoClient ----------------------------
\* The script and a request of another user.
EXTENDS DemoClient, TLC
CONSTANTS c1, c2
==============================================================================
