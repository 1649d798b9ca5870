--------------------------- MODULE MCSimpleLoRaApp ---------------------------
\* The runs of SimpleLoRaApp need a set with a negative number, which a .cfg cannot write.
EXTENDS SimpleLoRaApp

CONSTANT OptionSFs
MCSFOptions == {-1} \union OptionSFs
=============================================================================
