-------------------------- MODULE FlowControlProofs --------------------------
(***************************************************************************)
(* Proofs about FlowControl, for every set of browsers, every pair of      *)
(* watermarks and every acknowledgement batch FlowAssumption allows.       *)
(*                                                                         *)
(* DebtIsOwed and PauseIsPayable are not inductive: PauseIsPayable needs   *)
(* that a paused terminal owes at least the low watermark (PausedOwesLow)  *)
(* and that a browser keeps less than a batch to itself (BatchIsPartial).  *)
(* WriteOffOnlyWedged needs that what the read loop remembers of the debt  *)
(* when it set its deadline bounds the debt it will find (WaitRemembers).  *)
(***************************************************************************)
EXTENDS FlowControl, TLAPS

\* The latch only holds above the low watermark.
PausedOwesLow == paused => unacknowledged >= Low

\* A browser acknowledges as soon as it has a whole batch.
BatchIsPartial == \A c \in Clients : batch[c] < AckBatch

\* While the read loop waits the debt only shrinks, and strictly whenever an
\* acknowledgement counted.
WaitRemembers ==
    reader = "waiting" =>
        /\ unacknowledged <= waited.last
        /\ progressed => unacknowledged < waited.last

IInv == /\ TypeOK
        /\ DebtIsOwed
        /\ PausedOwesLow
        /\ BatchIsPartial
        /\ WaitRemembers

\* The saturating subtraction never exceeds what it subtracts from, and covers
\* the rest of the debt.
LEMMA MinusBounds ==
    ASSUME NEW a \in Nat, NEW b \in Nat
    PROVE  /\ Minus(a, b) \in Nat
           /\ Minus(a, b) <= a
           /\ \A n \in Nat : a <= n + b => Minus(a, b) <= n
  BY DEF Minus

LEMMA InitEstablishes == Init => IInv
<1> SUFFICES ASSUME Init PROVE IInv
  OBVIOUS
<1>1. TypeOK
  BY DEF Init, TypeOK
<1>2. DebtIsOwed /\ PausedOwesLow /\ BatchIsPartial /\ WaitRemembers
  BY FlowAssumption DEF Init, DebtIsOwed, PausedOwesLow, BatchIsPartial,
     WaitRemembers
<1> QED  BY <1>1, <1>2 DEF IInv

\* The read loop, the exit thread and the end of the run.
LEMMA ReaderKeeps ==
    ASSUME IInv, ReaderStep \/ Release \/ Ended
    PROVE  IInv'
<1> USE FlowAssumption DEF IInv
<1>1. CASE Gate
  <2>1. TypeOK'
    BY <1>1 DEF Gate, flowVars, clientVars, TypeOK
  <2>2. DebtIsOwed'
    BY <1>1 DEF Gate, flowVars, clientVars, TypeOK, DebtIsOwed
  <2>3. PausedOwesLow' /\ BatchIsPartial'
    BY <1>1 DEF Gate, flowVars, clientVars, TypeOK, PausedOwesLow, BatchIsPartial
  <2>4. WaitRemembers'
    BY <1>1 DEF Gate, flowVars, clientVars, TypeOK, WaitRemembers
  <2> QED  BY <2>1, <2>2, <2>3, <2>4
<1>2. CASE Lapse
  BY <1>2 DEF Lapse, flowVars, clientVars, TypeOK, DebtIsOwed, PausedOwesLow,
     BatchIsPartial, WaitRemembers
<1>3. CASE Resumed
  BY <1>3 DEF Resumed, flowVars, clientVars, TypeOK, DebtIsOwed,
     PausedOwesLow, BatchIsPartial, WaitRemembers
<1>4. CASE Extend
  <2>1. TypeOK'
    BY <1>4 DEF Extend, Progress, flowVars, clientVars, TypeOK
  <2>2. DebtIsOwed'
    BY <1>4 DEF Extend, Progress, flowVars, clientVars, TypeOK, DebtIsOwed
  <2>3. PausedOwesLow' /\ BatchIsPartial'
    BY <1>4 DEF Extend, Progress, flowVars, clientVars, TypeOK, PausedOwesLow, BatchIsPartial
  <2>4. WaitRemembers'
    BY <1>4 DEF Extend, Progress, flowVars, clientVars, TypeOK, WaitRemembers
  <2> QED  BY <2>1, <2>2, <2>3, <2>4
<1>5. CASE WriteOff
  <2>1. TypeOK'
    BY <1>5 DEF WriteOff, Clear, clientVars, TypeOK
  <2>2. DebtIsOwed'
    BY <1>5 DEF WriteOff, Clear, clientVars, TypeOK, DebtIsOwed
  <2>3. PausedOwesLow' /\ BatchIsPartial'
    BY <1>5 DEF WriteOff, Clear, clientVars, TypeOK, PausedOwesLow, BatchIsPartial
  <2>4. WaitRemembers'
    BY <1>5 DEF WriteOff, Clear, clientVars, TypeOK, WaitRemembers
  <2> QED  BY <2>1, <2>2, <2>3, <2>4
<1>6. ASSUME NEW n \in 1..MaxChunk, Publish(n) PROVE IInv'
  <2>1. TypeOK'
    <3>1. unacknowledged' \in Nat /\ paused' \in BOOLEAN
      BY <1>6 DEF Publish, Published, TypeOK
    <3>2. /\ link' \in [Clients -> {"none", "attached", "subscribed", "lagged"}]
          /\ missed' \in [Clients -> Nat]
          /\ feed' \in [Clients -> Nat]
      BY <1>6 DEF Publish, TypeOK
    <3> QED
      BY <1>6, <3>1, <3>2 DEF Publish, TypeOK
  <2>2. DebtIsOwed'
    BY <1>6 DEF Publish, Published, TypeOK, DebtIsOwed
  <2>3. PausedOwesLow'
    BY <1>6 DEF Publish, Published, TypeOK, PausedOwesLow
  <2>4. BatchIsPartial' /\ WaitRemembers'
    BY <1>6 DEF Publish, BatchIsPartial, WaitRemembers
  <2> QED  BY <2>1, <2>2, <2>3, <2>4
<1>7. CASE EndOfFile
  BY <1>7 DEF EndOfFile, flowVars, clientVars, TypeOK, DebtIsOwed,
     PausedOwesLow, BatchIsPartial, WaitRemembers
<1>8. CASE Release
  BY <1>8 DEF Release, readerVars, clientVars, TypeOK, DebtIsOwed,
     PausedOwesLow, BatchIsPartial, WaitRemembers
<1>9. CASE Ended
  BY <1>9 DEF Ended, vars, flowVars, readerVars, clientVars, TypeOK,
     DebtIsOwed, PausedOwesLow, BatchIsPartial, WaitRemembers
<1> QED
  BY <1>1, <1>2, <1>3, <1>4, <1>5, <1>6, <1>7, <1>8, <1>9 DEF ReaderStep, Wait

\* Browsers.
LEMMA ClientKeeps ==
    ASSUME IInv, NEW c \in Clients, ClientStep(c)
    PROVE  IInv'
<1> USE FlowAssumption DEF IInv
<1>1. CASE Attach(c)
  <2>1. TypeOK'
    <3>1. clients' \in Nat
      <4>1. clients \in Nat /\ clients' = clients + 1
        BY <1>1 DEF Attach, TypeOK
      <4> QED  BY <4>1
    <3>2. unacknowledged' \in Nat /\ paused' \in BOOLEAN
      BY <1>1 DEF Attach, Clear
    <3>3. link' \in [Clients -> {"none", "attached", "subscribed", "lagged"}]
      BY <1>1 DEF Attach, TypeOK
    <3> QED
      BY <1>1, <3>1, <3>2, <3>3 DEF Attach, readerVars, TypeOK
  <2>2. DebtIsOwed'
    BY <1>1 DEF Attach, Clear, readerVars, TypeOK, DebtIsOwed
  <2>3. PausedOwesLow' /\ BatchIsPartial'
    BY <1>1 DEF Attach, Clear, readerVars, TypeOK, PausedOwesLow, BatchIsPartial
  <2>4. WaitRemembers'
    BY <1>1 DEF Attach, Clear, readerVars, TypeOK, WaitRemembers
  <2> QED  BY <2>1, <2>2, <2>3, <2>4
<1>2. CASE SubscribeSnapshot(c)
  <2>1. PICK sent \in 0..feed[c] : feed' = [feed EXCEPT ![c] = sent]
    BY <1>2 DEF SubscribeSnapshot, Replaces
  <2>2. sent \in Nat
    BY <2>1
  <2>3. TypeOK'
    BY <1>2, <2>1, <2>2 DEF SubscribeSnapshot, Clear, readerVars, TypeOK
  <2>4. DebtIsOwed'
    BY <1>2, <2>1, <2>2 DEF SubscribeSnapshot, Clear, readerVars, TypeOK, DebtIsOwed
  <2>5. PausedOwesLow' /\ BatchIsPartial'
    BY <1>2 DEF SubscribeSnapshot, Clear, readerVars, TypeOK, PausedOwesLow, BatchIsPartial
  <2>6. WaitRemembers'
    BY <1>2 DEF SubscribeSnapshot, Clear, readerVars, TypeOK, WaitRemembers
  <2> QED  BY <2>3, <2>4, <2>5, <2>6
<1>3. CASE SubscribeResume(c)
  <2>1. PICK replayed \in missed[c]..MaxFeed :
          feed' = [feed EXCEPT ![c] = replayed]
    BY <1>3 DEF SubscribeResume
  <2>2. replayed \in Nat /\ replayed >= missed[c]
    BY <2>1 DEF TypeOK
  <2>3. TypeOK'
    BY <1>3, <2>1, <2>2 DEF SubscribeResume, flowVars, readerVars, TypeOK
  <2>4. DebtIsOwed'
    BY <1>3, <2>1, <2>2 DEF SubscribeResume, flowVars, TypeOK, DebtIsOwed
  <2>5. PausedOwesLow' /\ BatchIsPartial' /\ WaitRemembers'
    BY <1>3 DEF SubscribeResume, flowVars, readerVars, PausedOwesLow,
       BatchIsPartial, WaitRemembers
  <2> QED  BY <2>3, <2>4, <2>5
<1>4. CASE Parse(c)
  <2>1. PICK n \in 1..feed[c] :
          /\ feed' = [feed EXCEPT ![c] = @ - n]
          /\ IF batch[c] + n < AckBatch
               THEN /\ batch' = [batch EXCEPT ![c] = @ + n]
                    /\ UNCHANGED acks
               ELSE /\ batch' = [batch EXCEPT ![c] = 0]
                    /\ acks' = [acks EXCEPT ![c] = @ + batch[c] + n]
    BY <1>4 DEF Parse
  <2>2. n \in Nat /\ n <= feed[c]
    BY <2>1 DEF TypeOK
  <2>3. TypeOK'
    BY <1>4, <2>1, <2>2 DEF Parse, flowVars, readerVars, TypeOK
  <2>4. DebtIsOwed'
    BY <1>4, <2>1, <2>2 DEF Parse, flowVars, TypeOK, DebtIsOwed
  <2>5. BatchIsPartial'
    BY <2>1, <2>2 DEF TypeOK, BatchIsPartial
  <2>6. PausedOwesLow' /\ WaitRemembers'
    BY <1>4 DEF Parse, flowVars, readerVars, PausedOwesLow, WaitRemembers
  <2> QED  BY <2>3, <2>4, <2>5, <2>6
<1>5. CASE ReceiveAck(c)
  <2> DEFINE left == Minus(unacknowledged, acks[c])
  <2>1. /\ left \in Nat /\ left <= unacknowledged
        /\ \A n \in Nat : unacknowledged <= n + acks[c] => left <= n
    BY MinusBounds DEF TypeOK
  <2>2. /\ unacknowledged' = left
        /\ paused' = (paused /\ left >= Low)
        /\ progressed' = (progressed \/ left < unacknowledged)
        /\ acks' = [acks EXCEPT ![c] = 0]
        /\ UNCHANGED <<clients, released, reader, waited, link, missed, feed,
                       batch>>
    BY <1>5 DEF ReceiveAck, Acknowledged, StillPaused
  <2> HIDE DEF left
  <2>3. TypeOK'
    BY <2>1, <2>2 DEF TypeOK
  <2>4. DebtIsOwed'
    <3>1. ASSUME NEW d \in Clients, link'[d] = "attached"
          PROVE  unacknowledged' <= missed'[d]
      BY <2>1, <2>2, <3>1 DEF TypeOK, DebtIsOwed
    <3>2. ASSUME NEW d \in Clients, link'[d] = "subscribed"
          PROVE  unacknowledged' <= feed'[d] + batch'[d] + acks'[d]
      <4>1. unacknowledged <= feed[d] + batch[d] + acks[d]
        BY <2>2, <3>2 DEF DebtIsOwed
      <4>2. feed[d] + batch[d] \in Nat /\ acks[d] \in Nat
        BY DEF TypeOK
      <4>3. CASE d = c
        BY <2>1, <2>2, <4>1, <4>2, <4>3 DEF TypeOK
      <4>4. CASE d # c
        BY <2>1, <2>2, <4>1, <4>2, <4>4 DEF TypeOK
      <4> QED  BY <4>3, <4>4
    <3> QED  BY <3>1, <3>2 DEF DebtIsOwed
  <2>5. PausedOwesLow' /\ BatchIsPartial'
    BY <2>2 DEF PausedOwesLow, BatchIsPartial
  <2>6. WaitRemembers'
    BY <2>1, <2>2 DEF TypeOK, WaitRemembers
  <2> QED  BY <2>3, <2>4, <2>5, <2>6
<1>6. CASE Detach(c)
  <2>1. Minus(clients, 1) \in Nat
    BY MinusBounds DEF TypeOK
  <2>2. TypeOK'
    BY <1>6, <2>1 DEF Detach, Clear, readerVars, TypeOK
  <2>3. DebtIsOwed'
    BY <1>6, <2>1 DEF Detach, Clear, readerVars, TypeOK, DebtIsOwed
  <2>4. PausedOwesLow' /\ BatchIsPartial'
    BY <1>6, <2>1 DEF Detach, Clear, readerVars, TypeOK, PausedOwesLow, BatchIsPartial
  <2>5. WaitRemembers'
    BY <1>6, <2>1 DEF Detach, Clear, readerVars, TypeOK, WaitRemembers
  <2> QED  BY <2>2, <2>3, <2>4, <2>5
<1> QED
  BY <1>1, <1>2, <1>3, <1>4, <1>5, <1>6 DEF ClientStep

LEMMA StepKeeps == IInv /\ [Next]_vars => IInv'
<1> SUFFICES ASSUME IInv, [Next]_vars PROVE IInv'
  OBVIOUS
<1>1. CASE Next
  BY <1>1, ReaderKeeps, ClientKeeps DEF Next
<1>2. CASE UNCHANGED vars
  BY <1>2 DEF vars, flowVars, readerVars, clientVars, IInv, TypeOK,
     DebtIsOwed, PausedOwesLow, BatchIsPartial, WaitRemembers
<1> QED  BY <1>1, <1>2

THEOREM Invariance == Spec => []IInv
  BY InitEstablishes, StepKeeps, PTL DEF Spec

-----------------------------------------------------------------------------
\* Every variable keeps its type, and in particular the counters never go
\* below zero (FlowControlState.acknowledged, flow_detach).
THEOREM TypeCorrect == Spec => []TypeOK
  BY Invariance, PTL DEF IInv

\* However browsers come, go, resume, lag and acknowledge, the debt of
\* FlowControlState is covered by what each of them still has to parse or to
\* acknowledge.
THEOREM DebtCovered == Spec => []DebtIsOwed
  BY Invariance, PTL DEF IInv

\* The read loop is never parked on a remainder below TERMINAL_ACK_BYTES that
\* no browser would report: it suffices that the batch is not above the low
\* watermark.
THEOREM PausePayable == Spec => []PauseIsPayable
<1>1. IInv => PauseIsPayable
  <2> SUFFICES ASSUME IInv, Blocked, NEW c \in Clients
               PROVE  /\ link[c] = "subscribed" => feed[c] + acks[c] > 0
                      /\ link[c] = "attached" => missed[c] > 0
    BY DEF PauseIsPayable
  <2>1. unacknowledged >= Low /\ batch[c] < AckBatch
    BY DEF IInv, PausedOwesLow, BatchIsPartial, Blocked
  <2>2. unacknowledged > batch[c] /\ unacknowledged > 0
    BY <2>1, FlowAssumption DEF IInv, TypeOK
  <2>3. CASE link[c] = "subscribed"
    BY <2>2, <2>3 DEF IInv, TypeOK, DebtIsOwed
  <2>4. CASE link[c] = "attached"
    BY <2>2, <2>4 DEF IInv, TypeOK, DebtIsOwed
  <2> QED  BY <2>3, <2>4
<1> QED  BY <1>1, Invariance, PTL

\* Both together, as the run checks them.
THEOREM DebtHolds == Spec => []DebtSound
  BY DebtCovered, PausePayable, PTL DEF DebtSound

\* flow_wait_until_resumed only clears the debt after a deadline during which
\* no acknowledgement counted.
THEOREM WriteOffJustified == Spec => WriteOffOnlyWedged
<1> DEFINE Kept == reader = "waiting" /\ waited.lapsed /\ Blocked
                     /\ reader' = "reading" => ~progressed
<1>1. IInv /\ [Next]_vars => [Kept]_vars
  <2> SUFFICES ASSUME IInv, Next, reader = "waiting", Blocked,
                      reader' = "reading"
               PROVE  ~progressed
    OBVIOUS
  <2>1. WriteOff
    BY DEF Next, ReaderStep, Wait, ClientStep, Gate, Lapse, Resumed, Extend,
       Publish, EndOfFile, Release, Ended, Attach, SubscribeSnapshot,
       SubscribeResume, Parse, ReceiveAck, Detach, vars, readerVars
  <2> QED
    BY <2>1 DEF WriteOff, Wedged, Progress, IInv, TypeOK, WaitRemembers
<1> QED
  BY <1>1, Invariance, PTL DEF Spec, WriteOffOnlyWedged
=============================================================================
