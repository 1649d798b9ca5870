------------------------------ MODULE MCAdrLoop ------------------------------
\* SF options of the runs of AdrLoop, -1 among them, and symmetry.
EXTENDS AdrLoop, TLC

MCSFOptions == {-1} \union 7..12
Symmetry == Permutations(Gateways) \union Permutations(Nodes)
=============================================================================
