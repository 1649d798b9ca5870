------------------------- MODULE MCLoRaMacReentrant -------------------------
(* Instances of LoRaMacReentrant for TLC. One time unit is one second.    *)
EXTENDS LoRaMacReentrant
=============================================================================
