------------------------------ MODULE MCFrame ------------------------------
EXTENDS FrameExport

Blur(d, b, s) == [duration |-> d, before |-> b, samples |-> s]
\* Touching, overlapping, late one-sample and empty intervals of 2-tick frames.
Intervals4 == {Blur(2, 1, 3), Blur(4, 2, 3), Blur(2, -1, 1), Blur(0, 0, 2)}
=============================================================================
