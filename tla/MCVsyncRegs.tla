---------------------------- MODULE MCVsyncRegs ----------------------------
(***************************************************************************)
(* VsyncRegs with waiting processes on adapters of every vendor and one    *)
(* process that writes the CRTC.                                           *)
(***************************************************************************)
EXTENDS VsyncRegs, TLC

CONSTANTS t1, t2, p1

One == {t1}
Two == {t1, t2}
Nobody == {}
OneUser == {p1}

Adapter(v, i, l) == [vendor |-> v, id |-> i, line |-> l]
\* A shared line has every behaviour of a line of its own; what nv4 keeps is
\* about the latter.
AllAdapters ==
  {Adapter("MATROX", 1, "shared"), Adapter("S3", 1, "shared"),
   Adapter("NVIDIA_SGS", 24, "shared"), Adapter("NVIDIA", 32, "shared"),
   Adapter("ATI", 20551, "shared"), Adapter("ATI", 18258, "shared"),
   Adapter("RENDITION", 1, "shared"), Adapter("NVIDIA", 32, "own")}

VgaAdapter == {Adapter("OTHER", 1, "own")}
=============================================================================
