------------------------- MODULE MCChangeEmergency -------------------------
EXTENDS ChangeEmergency

CONSTANTS u1, u2, e1, e2, s1, s2, f1, f2
=============================================================================
