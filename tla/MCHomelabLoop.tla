-------------------------- MODULE MCHomelabLoop --------------------------
EXTENDS HomelabLoop

CONSTANT c1

OneComponent == <<c1>>
==========================================================================
