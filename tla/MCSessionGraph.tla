--------------------------- MODULE MCSessionGraph ---------------------------
EXTENDS SessionGraph, TLC

CONSTANTS t1, t2, s1

MCOrder == <<t1, t2>>
\* A transcript and the transcript of a subagent of the same session.
MCSessionOf == [t \in {t1, t2} |-> s1]
=============================================================================
