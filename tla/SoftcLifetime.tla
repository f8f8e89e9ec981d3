--------------------------- MODULE SoftcLifetime ---------------------------
(***************************************************************************)
(* What svgalib_helper promises of its per-device state (struct            *)
(* sh_pci_device), without nodes, reference counts or draining: a softc is *)
(* created, threads get hold of live ones and let go of them, and a softc  *)
(* is destroyed only while no thread holds it.                             *)
(***************************************************************************)
CONSTANTS Threads, Softcs

VARIABLES
  live,   \* the softcs that exist
  holds   \* the softcs each thread is about to dereference

vars == <<live, holds>>

Init == live = {} /\ holds = [t \in Threads |-> {}]

Create(s) ==
  /\ s \notin live
  /\ live' = live \cup {s}
  /\ UNCHANGED holds

Hold(t) ==
  /\ \E S \in SUBSET live : holds' = [holds EXCEPT ![t] = S]
  /\ UNCHANGED live

Destroy(s) ==
  /\ s \in live /\ \A t \in Threads : s \notin holds[t]
  /\ live' = live \ {s}
  /\ UNCHANGED holds

Next ==
  \/ \E s \in Softcs : Create(s) \/ Destroy(s)
  \/ \E t \in Threads : Hold(t)

Spec == Init /\ [][Next]_vars
=============================================================================
