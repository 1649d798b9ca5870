----------------------------- MODULE MCLoRaMac -----------------------------
(* Instances of LoRaMac for TLC. One time unit is one second.             *)
EXTENDS LoRaMac, TLC

Symmetry == Permutations(Frames)
=============================================================================
