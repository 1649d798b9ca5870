------------------------- MODULE MCNetworkServerApp -------------------------
\* Model values and symmetry for the runs of NetworkServerApp.
EXTENDS NetworkServerApp, TLC

Symmetry == Permutations(Nodes) \union Permutations(Gateways)
=============================================================================
