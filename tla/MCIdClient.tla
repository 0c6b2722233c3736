----------------------------- MODULE MCIdClient -----------------------------
\* The registration client on a small instance.
EXTENDS IdClient, TLC

CONSTANTS c1, c2

MCCalls == {c1, c2}
=============================================================================
