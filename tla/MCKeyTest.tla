------------------------------ MODULE MCKeyTest ------------------------------
(***************************************************************************)
(* KeyTest for every key of a PC keyboard with Escape and with the key of  *)
(* the next raw code (two keys confused with each other cannot both be     *)
(* reported right alone).                                                  *)
(***************************************************************************)
EXTENDS KeyTest

EveryKey ==
  {{k, 1} : k \in Keyboard} \cup {{k, k + 1} : k \in {j \in Keyboard : j + 1 \in Keyboard}}
==============================================================================
