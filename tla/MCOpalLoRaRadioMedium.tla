------------------------ MODULE MCOpalLoRaRadioMedium ------------------------
(* Instances of OpalLoRaRadioMedium for TLC.                               *)
EXTENDS OpalLoRaRadioMedium, TLC

Symmetry == Permutations(InitialRadios)
=============================================================================
