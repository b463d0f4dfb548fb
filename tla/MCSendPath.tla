----------------------------- MODULE MCSendPath -----------------------------
EXTENDS SendPath, TLC

CONSTANTS s1, s2

MCSenders == {s1, s2}
=============================================================================
