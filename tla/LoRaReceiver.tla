---------------------------- MODULE LoRaReceiver ----------------------------
(***************************************************************************)
(* The collision rule of LoRaPhy/LoRaReceiver.cc, as operators on arriving *)
(* signals.  A signal is a record                                          *)
(*     [sf, cf, rssi, start, end, csBegin]                                 *)
(* with rssi in dBm, times in the unit of the caller, and csBegin the time *)
(* at which the last six symbols of the preamble begin.                    *)
(***************************************************************************)
EXTENDS Integers

CONSTANT alohaChannelModel
ASSUME AlohaAssumption == alohaChannelModel \in BOOLEAN

LoRaSFs == 7..12

\* Row: the spreading factor received; column: the one that interferes; in dB.
nonOrthDelta ==
    << <<  1,  -8,  -9,  -9,  -9,  -9>>,
       <<-11,   1, -11, -12, -13, -13>>,
       <<-15, -13,   1, -13, -14, -15>>,
       <<-19, -18, -17,   1, -17, -18>>,
       <<-22, -22, -21, -20,   1, -20>>,
       <<-25, -25, -25, -24, -23,   1>> >>

\* getSensitivity at the 125 kHz that every configuration uses, in dBm.
Sensitivity(sf) == <<-124, -127, -130, -133, -135, -137>>[sf - 6]

Magnitude(n) == IF n < 0 THEN -n ELSE n

\* |m_x - m_y| < d_x + d_y, with both sides doubled.
Overlap(x, y) ==
    Magnitude((x.start + x.end) - (y.start + y.end)) < (x.end - x.start) + (y.end - y.start)

CaptureEffect(x, y) == x.rssi - y.rssi >= nonOrthDelta[x.sf - 6][y.sf - 6]

\* The interference reaches into the last six symbols of the preamble.
TimingCollision(x, y) == x.csBegin < y.end

CollidesWith(x, y) ==
    /\ Overlap(x, y)
    /\ x.cf = y.cf
    /\ alohaChannelModel \/ (~CaptureEffect(x, y) /\ TimingCollision(x, y))

IsPacketCollided(x, interference) == \E y \in interference : CollidesWith(x, y)

\* computeIsReceptionPossible at a gateway, which receives every CF, BW and SF.
IsReceptionPossible(x) == x.rssi >= Sensitivity(x.sf)
=============================================================================
