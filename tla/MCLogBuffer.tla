----------------------------- MODULE MCLogBuffer -----------------------------
(***************************************************************************)
(* LogBuffer with one short text and two long ones that differ only after  *)
(* the characters vsnprintf keeps.                                         *)
(***************************************************************************)
EXTENDS LogBuffer

ShortAndLong == {"short", "long1", "long2"}
First(t) == IF t \in {"long1", "long2"} THEN "long" ELSE t
==============================================================================
