------------------------- MODULE MCLoRaMediumRadios -------------------------
(* Instances of LoRaMediumRadios for TLC.                                  *)
EXTENDS LoRaMediumRadios, TLC

CONSTANTS n1, n2, n3, gw

MCInitialRadios == <<n1, n2, gw>>
MCSpeed == [r \in Radios |-> IF r = n2 THEN 1 ELSE 0]
MCStartPlaces == [r \in Radios |-> IF r = gw THEN {0} ELSE IF r = n3 THEN {2} ELSE Places]
MCTwoMove == [r \in Radios |-> IF r \in {n1, n2} THEN 1 ELSE 0]
=============================================================================
