------------------------ MODULE SimpleLoRaApp_proofs ------------------------
(***************************************************************************)
(* Theorems about SimpleLoRaApp for any nodes, ADR_ACK_LIMIT and           *)
(* ADR_ACK_DELAY, and downlinks that come at any time.                     *)
(***************************************************************************)
EXTENDS SimpleLoRaApp, TLAPS

\* Without ADR in the node its counter does not move.
CounterOff == ~evaluateADRinNode => \A n \in Nodes : ADR_ACK_CNT[n] = 0

AppInv == TypeOK /\ RequestNotLost /\ CounterOff

LEMMA AppInitial == Init => AppInv
<1> SUFFICES ASSUME Init PROVE AppInv OBVIOUS
<1>1. loRaSF \in [Nodes -> 7..12] BY SFAssumption DEF Init
<1>2. 0 \in 0..(ADR_ACK_LIMIT + ADR_ACK_DELAY - 1) /\ 0 < ADR_ACK_LIMIT BY AdrAckAssumption
<1>3. lastFrame \in [Nodes -> [sf : 7..12, adrAckReq : BOOLEAN, emittedSF : 7..12]] BY <1>1 DEF Init
<1>4. TypeOK BY <1>1, <1>2, <1>3 DEF Init, TypeOK
<1>5. \A n \in Nodes : ADR_ACK_CNT[n] = 0 BY DEF Init
<1>6. QED BY <1>2, <1>4, <1>5, AdrAckAssumption DEF AppInv, RequestNotLost, CounterOff

LEMMA RaisedSF ==
    ASSUME NEW sf \in 7..12
    PROVE  /\ IncreaseSFIfPossible(sf) \in 7..12
           /\ IncreaseSFIfPossible(sf) = sf \/ IncreaseSFIfPossible(sf) = sf + 1
<1>1. CASE sf < 12 BY <1>1 DEF IncreaseSFIfPossible
<1>2. CASE ~(sf < 12) BY <1>2 DEF IncreaseSFIfPossible
<1>3. QED BY <1>1, <1>2

\* What sendJoinRequest does to the counter, the flag and the history of a node.
LEMMA SendChanges ==
    ASSUME AppInv, NEW n \in Nodes, SendJoinRequest(n)
    PROVE  LET request == evaluateADRinNode /\ sendNextPacketWithADRACKReq[n]
               count   == ADR_ACK_CNT[n] + 1
               raise   == evaluateADRinNode /\ count = ADR_ACK_LIMIT + ADR_ACK_DELAY
           IN /\ ADR_ACK_CNT'[n] = IF ~evaluateADRinNode THEN 0 ELSE IF raise THEN 0 ELSE count
              /\ sendNextPacketWithADRACKReq'[n] <=>
                    evaluateADRinNode /\ (count = ADR_ACK_LIMIT \/ (sendNextPacketWithADRACKReq[n] /\ ~request))
              /\ asked'[n] <=> (~raise /\ (asked[n] \/ request))
              /\ loRaSF'[n] = IF raise THEN IncreaseSFIfPossible(loRaSF[n]) ELSE loRaSF[n]
              /\ lastFrame'[n] = [sf |-> loRaSF[n], adrAckReq |-> request, emittedSF |-> loRaSF'[n]]
<1>1. ADR_ACK_CNT[n] \in 0..(ADR_ACK_LIMIT + ADR_ACK_DELAY - 1) BY DEF AppInv, TypeOK
<1>2. RaiseDue(ADR_ACK_CNT[n] + 1) <=> ADR_ACK_CNT[n] + 1 = ADR_ACK_LIMIT + ADR_ACK_DELAY
  BY <1>1, AdrAckAssumption DEF RaiseDue
<1>3. ~evaluateADRinNode => ADR_ACK_CNT[n] = 0 BY DEF AppInv, CounterOff
<1>4. QED BY <1>2, <1>3, NodeAssumption DEF SendJoinRequest, RequestDue, AppInv, TypeOK

LEMMA SendKeeps ==
    ASSUME AppInv, NEW n \in Nodes, SendJoinRequest(n)
    PROVE  AppInv'
<1> DEFINE request == evaluateADRinNode /\ sendNextPacketWithADRACKReq[n]
           count   == ADR_ACK_CNT[n] + 1
           raise   == evaluateADRinNode /\ count = ADR_ACK_LIMIT + ADR_ACK_DELAY
<1>1. \A m \in Nodes : m # n => /\ loRaSF'[m] = loRaSF[m] /\ ADR_ACK_CNT'[m] = ADR_ACK_CNT[m]
                                /\ sendNextPacketWithADRACKReq'[m] = sendNextPacketWithADRACKReq[m]
                                /\ lastFrame'[m] = lastFrame[m] /\ asked'[m] = asked[m]
  BY DEF SendJoinRequest, AppInv, TypeOK
<1>2. ADR_ACK_CNT[n] \in 0..(ADR_ACK_LIMIT + ADR_ACK_DELAY - 1) /\ loRaSF[n] \in 7..12
  BY DEF AppInv, TypeOK
<1>3. loRaSF'[n] \in 7..12
  <2>1. loRaSF'[n] = IF raise THEN IncreaseSFIfPossible(loRaSF[n]) ELSE loRaSF[n] BY SendChanges
  <2>2. IncreaseSFIfPossible(loRaSF[n]) \in 7..12 BY <1>2, RaisedSF
  <2>3. QED BY <1>2, <2>1, <2>2
<1>4. ADR_ACK_CNT'[n] \in 0..(ADR_ACK_LIMIT + ADR_ACK_DELAY - 1)
  <2>1. ADR_ACK_CNT'[n] = IF ~evaluateADRinNode THEN 0 ELSE IF raise THEN 0 ELSE count BY SendChanges
  <2>2. evaluateADRinNode /\ ~raise => count \in 0..(ADR_ACK_LIMIT + ADR_ACK_DELAY - 1)
    BY <1>2, AdrAckAssumption
  <2>3. 0 \in 0..(ADR_ACK_LIMIT + ADR_ACK_DELAY - 1) BY AdrAckAssumption
  <2> HIDE DEF raise, count
  <2>4. QED BY <2>1, <2>2, <2>3
<1>5. TypeOK'
  <2>1. /\ sendNextPacketWithADRACKReq'[n] \in BOOLEAN /\ asked'[n] \in BOOLEAN
    BY NodeAssumption DEF SendJoinRequest, AppInv, TypeOK
  <2>2. lastFrame'[n] \in [sf : 7..12, adrAckReq : BOOLEAN, emittedSF : 7..12]
    <3>1. lastFrame'[n] = [sf |-> loRaSF[n], adrAckReq |-> request, emittedSF |-> loRaSF'[n]] BY SendChanges
    <3>2. request \in BOOLEAN OBVIOUS
    <3> HIDE DEF request
    <3>3. QED BY <1>2, <1>3, <3>1, <3>2
  <2>3. loRaSF' \in [Nodes -> 7..12] BY <1>1, <1>3 DEF SendJoinRequest, AppInv, TypeOK
  <2>4. ADR_ACK_CNT' \in [Nodes -> 0..(ADR_ACK_LIMIT + ADR_ACK_DELAY - 1)]
    BY <1>1, <1>4 DEF SendJoinRequest, AppInv, TypeOK
  <2>5. sendNextPacketWithADRACKReq' \in [Nodes -> BOOLEAN] /\ asked' \in [Nodes -> BOOLEAN]
    BY <1>1, <2>1 DEF SendJoinRequest, AppInv, TypeOK
  <2>6. lastFrame' \in [Nodes -> [sf : 7..12, adrAckReq : BOOLEAN, emittedSF : 7..12]]
    BY <1>1, <2>2 DEF SendJoinRequest, AppInv, TypeOK
  <2>7. QED BY <2>3, <2>4, <2>5, <2>6 DEF TypeOK
<1>6. RequestNotLost'
  <2> SUFFICES ASSUME NEW m \in Nodes
               PROVE  /\ ADR_ACK_CNT'[m] = ADR_ACK_LIMIT => sendNextPacketWithADRACKReq'[m]
                      /\ ADR_ACK_CNT'[m] > ADR_ACK_LIMIT => asked'[m]
    BY DEF RequestNotLost
  <2>1. CASE m # n BY <1>1, <2>1 DEF AppInv, RequestNotLost
  <2>2. CASE m = n
    <3>1. CASE ADR_ACK_CNT'[n] = 0 BY <2>2, <3>1, AdrAckAssumption
    <3>2. CASE ADR_ACK_CNT'[n] # 0
      <4>1. evaluateADRinNode /\ ~raise /\ ADR_ACK_CNT'[n] = count BY <3>2, SendChanges
      <4>2. count = ADR_ACK_LIMIT => sendNextPacketWithADRACKReq'[n] BY <4>1, SendChanges
      <4>3. ADR_ACK_CNT[n] = ADR_ACK_LIMIT => request BY <4>1 DEF AppInv, RequestNotLost
      <4>4. ADR_ACK_CNT[n] > ADR_ACK_LIMIT => asked[n] BY DEF AppInv, RequestNotLost
      <4>5. count > ADR_ACK_LIMIT => asked'[n]
        <5>1. count > ADR_ACK_LIMIT => ADR_ACK_CNT[n] = ADR_ACK_LIMIT \/ ADR_ACK_CNT[n] > ADR_ACK_LIMIT
          BY <1>2, AdrAckAssumption
        <5>2. QED BY <4>1, <4>3, <4>4, <5>1, SendChanges
      <4>6. QED BY <2>2, <4>1, <4>2, <4>5
    <3>3. QED BY <3>1, <3>2
  <2>3. QED BY <2>1, <2>2
<1>7. CounterOff' BY <1>1, SendChanges DEF AppInv, CounterOff
<1>8. QED BY <1>5, <1>6, <1>7 DEF AppInv

LEMMA DownlinkKeeps ==
    ASSUME AppInv, NEW n \in Nodes, NEW option \in SFOptions, HandleDownlink(n, option)
    PROVE  AppInv'
<1>1. option \in {-1} \union 7..12 BY SFAssumption
<1>2. TypeOK' BY <1>1, AdrAckAssumption DEF AppInv, TypeOK, HandleDownlink
<1>3. \A m \in Nodes : /\ sendNextPacketWithADRACKReq'[m] = sendNextPacketWithADRACKReq[m]
                       /\ m # n => ADR_ACK_CNT'[m] = ADR_ACK_CNT[m] /\ asked'[m] = asked[m]
  BY DEF AppInv, TypeOK, HandleDownlink
<1>4. ADR_ACK_CNT'[n] = 0 BY DEF AppInv, TypeOK, CounterOff, HandleDownlink
<1>5. RequestNotLost' BY <1>3, <1>4, AdrAckAssumption DEF AppInv, RequestNotLost
<1>6. CounterOff' BY <1>3, <1>4 DEF AppInv, CounterOff
<1>7. QED BY <1>2, <1>5, <1>6 DEF AppInv

LEMMA AppStep == AppInv /\ [Next]_appVars => AppInv'
<1>1. ASSUME AppInv, UNCHANGED appVars PROVE AppInv'
  BY <1>1 DEF appVars, AppInv, TypeOK, RequestNotLost, CounterOff
<1>2. QED BY <1>1, SendKeeps, DownlinkKeeps DEF Next, Send, Receive

(***************************************************************************)
(* The node's SF stays between 7 and 12 and its counter below              *)
(* ADR_ACK_LIMIT + ADR_ACK_DELAY, whatever the downlinks ask for.          *)
(***************************************************************************)
THEOREM TypeCorrect == Spec => []TypeOK
<1>1. AppInv => TypeOK BY DEF AppInv
<1>2. QED BY <1>1, AppInitial, AppStep, PTL DEF Spec

(***************************************************************************)
(* A node with ADR_ACK_LIMIT frames unanswered has a request pending or    *)
(* sent: no downlink and no raise of the SF loses it.                      *)
(***************************************************************************)
THEOREM RequestKept == Spec => []RequestNotLost
<1>1. AppInv => RequestNotLost BY DEF AppInv
<1>2. QED BY <1>1, AppInitial, AppStep, PTL DEF Spec

LEMMA RaiseAfterRequest ==
    ASSUME AppInv, NEW n \in Nodes, SendJoinRequest(n), loRaSF'[n] # loRaSF[n]
    PROVE  /\ loRaSF'[n] = loRaSF[n] + 1
           /\ asked[n] \/ lastFrame'[n].adrAckReq
           /\ ADR_ACK_CNT[n] + 1 = ADR_ACK_LIMIT + ADR_ACK_DELAY
<1>1. evaluateADRinNode /\ ADR_ACK_CNT[n] + 1 = ADR_ACK_LIMIT + ADR_ACK_DELAY BY SendChanges
<1>2. loRaSF'[n] = loRaSF[n] + 1 BY <1>1, SendChanges, RaisedSF DEF AppInv, TypeOK
<1>3. ADR_ACK_CNT[n] = ADR_ACK_LIMIT \/ ADR_ACK_CNT[n] > ADR_ACK_LIMIT
  BY <1>1, AdrAckAssumption DEF AppInv, TypeOK
<1>4. lastFrame'[n].adrAckReq <=> sendNextPacketWithADRACKReq[n]
  <2> DEFINE request == evaluateADRinNode /\ sendNextPacketWithADRACKReq[n]
  <2>1. lastFrame'[n] = [sf |-> loRaSF[n], adrAckReq |-> request, emittedSF |-> loRaSF'[n]] BY SendChanges
  <2>2. request <=> sendNextPacketWithADRACKReq[n] BY <1>1
  <2> HIDE DEF request
  <2>3. lastFrame'[n].adrAckReq = request BY <2>1
  <2>4. QED BY <2>2, <2>3
<1>5. asked[n] \/ lastFrame'[n].adrAckReq BY <1>3, <1>4 DEF AppInv, RequestNotLost
<1>6. QED BY <1>1, <1>2, <1>5

(***************************************************************************)
(* increaseSFIfPossible comes only after a request that got no answer: the *)
(* SF rises in no other way but by a downlink.                             *)
(***************************************************************************)
THEOREM RaiseIsLastResort == Spec => RaiseOnlyUnanswered
<1>1. AppInv /\ [Next]_appVars => [RaiseStep]_appVars
  <2> SUFFICES ASSUME AppInv, Next, NEW m \in Nodes, loRaSF'[m] # loRaSF[m]
               PROVE  \/ \E option \in SFOptions : HandleDownlink(m, option)
                      \/ /\ loRaSF'[m] = loRaSF[m] + 1
                         /\ asked[m] \/ lastFrame'[m].adrAckReq
                         /\ ADR_ACK_CNT[m] + 1 = ADR_ACK_LIMIT + ADR_ACK_DELAY
    BY DEF RaiseStep
  <2>1. CASE Send
    <3>1. PICK n \in Nodes : SendJoinRequest(n) BY <2>1 DEF Send
    <3>2. n = m BY <3>1 DEF SendJoinRequest, AppInv, TypeOK
    <3>3. QED BY <3>1, <3>2, RaiseAfterRequest
  <2>2. CASE Receive
    <3>1. PICK n \in Nodes, option \in SFOptions : HandleDownlink(n, option) BY <2>2 DEF Receive
    <3>2. n = m BY <3>1 DEF HandleDownlink, AppInv, TypeOK
    <3>3. QED BY <3>1, <3>2
  <2>3. QED BY <2>1, <2>2 DEF Next
<1>2. QED BY <1>1, AppInitial, AppStep, PTL DEF Spec, RaiseOnlyUnanswered
=============================================================================
