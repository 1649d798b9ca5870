------------------------------ MODULE MCLoRaGW ------------------------------
(* Instances of LoRaGW for TLC.                                            *)
EXTENDS LoRaGW

\* The other radio on the medium is one time unit away from everything but itself.  (The fields of
\* a frame come in the order in which TLC keeps them, that of the first occurrence of their names:
\* the frames, which TLC's workers share, need no sorting.)
Frame(sf, rssi, duration, delay, uplink) ==
    [sf |-> sf, rssi |-> rssi, duration |-> duration,
     delay |-> [r \in Radios |-> IF r = gateway THEN delay ELSE 1], uplink |-> uplink,
     cf |-> 868, preamble |-> 2, csBegin |-> 1]

\* A strong SF 7 nearby, a downlink of another gateway that it captures, an SF 12 that both drown,
\* and a frame below the sensitivity.
MCNodeFrames == {
    Frame(7, -100, 4, 0, TRUE),
    Frame(7, -101, 4, 1, FALSE),
    Frame(12, -130, 8, 0, TRUE),
    Frame(12, -138, 8, 1, TRUE)}
MCTwoFrames == {Frame(7, -100, 4, 0, TRUE), Frame(12, -130, 8, 0, TRUE)}
MCDownlinks == {
    [sf |-> 7, rssi |-> 0, duration |-> 2,
     delay |-> [r \in Radios |-> IF r = gateway THEN 0 ELSE 1], uplink |-> FALSE,
     cf |-> 868, preamble |-> 1, csBegin |-> 1, delta |-> 3]}
=============================================================================
