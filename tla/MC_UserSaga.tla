---------------------------- MODULE MC_UserSaga ----------------------------
EXTENDS UserSaga, TLC

CONSTANTS u1, u2, v1, v2, w1, w2
=============================================================================
