---------------------------- MODULE MCSvgaHelper ----------------------------
(***************************************************************************)
(* SvgaHelper on small instances.                                          *)
(***************************************************************************)
EXTENDS SvgaHelper, TLC

CONSTANTS t1, t2

Two == {t1, t2}

\* Threads are interchangeable in the runs that check no liveness.
Symmetry == Permutations(Threads)
=============================================================================
