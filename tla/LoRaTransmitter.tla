--------------------------- MODULE LoRaTransmitter ---------------------------
(***************************************************************************)
(* The time on air that LoRaPhy/LoRaTransmitter.cc gives a frame, and the  *)
(* pause that LoRa/LoRaGWMac.cc makes after a downlink; both in            *)
(* microseconds, at the 125 kHz of every configuration.                    *)
(***************************************************************************)
EXTENDS Integers

SpreadingFactors == 7..12
CodingRates == 1..4
GatewayPayload == 15   \* payloadBytes, fixed in the code for either side
NodePayload == 20

TwoToThe(sf) == <<128, 256, 512, 1024, 2048, 4096>>[sf - 6]

\* 2^SF / BW.
Tsym(sf) == 8 * TwoToThe(sf)

\* (nPreamble + 4.25) * Tsym.
Tpreamble(sf) == 49 * (Tsym(sf) \div 4)

\* The quotient is of integers and cut before `ceil' sees it.
payloadSymbNb(bytes, sf, cr) ==
    LET blocks == (8 * bytes - 4 * sf + 28 + 16) \div (4 * sf) IN
    8 + IF blocks > 0 THEN blocks * (cr + 4) ELSE 0

\* Theader and Tpayload are one half each of (8 + payloadSymbNb) * Tsym.
TimeOnAir(bytes, sf, cr) == Tpreamble(sf) + (8 + payloadSymbNb(bytes, sf, cr)) * Tsym(sf)

\* delta in LoRaGWMac::handleUpperPacket.
Delta(sf) == <<616960, 1233920, 2140160, 4280320, 7249920, 14499840>>[sf - 6]
=============================================================================
