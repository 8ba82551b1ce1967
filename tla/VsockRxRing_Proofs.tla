-------------------------- MODULE VsockRxRing_Proofs --------------------------
(***************************************************************************)
(* The receive ring for every set of descriptors and any number of         *)
(* packets: its types, and, when debug_assert! evaluates its argument, the *)
(* ownership of every buffer the device can reach.                         *)
(***************************************************************************)
EXTENDS VsockRxRing, TLAPS

UsedRecord == [token : Token, ok : BOOLEAN]

\* The device puts a token at the end of the used ring.
LEMMA UsedAppend ==
    ASSUME used \in Seq(UsedRecord), NEW e \in UsedRecord, used' = Append(used, e)
    PROVE  /\ used' \in Seq(UsedRecord)
           /\ Used' = Used \cup {e.token}
           /\ DOMAIN used' = DOMAIN used \cup {Len(used) + 1}
           /\ \A i \in DOMAIN used : used'[i] = used[i]
           /\ used'[Len(used) + 1] = e
<1>1. /\ used' \in Seq(UsedRecord)
      /\ DOMAIN used' = DOMAIN used \cup {Len(used) + 1}
      /\ \A i \in DOMAIN used : used'[i] = used[i]
      /\ used'[Len(used) + 1] = e
  OBVIOUS
<1>2. Used' = {used'[i].token : i \in DOMAIN used'}
  BY DEF Used
<1>3. Used' = Used \cup {e.token}
  BY <1>1, <1>2 DEF Used
<1> QED
  BY <1>1, <1>3

\* pop_used takes the token at the front of it.
LEMMA UsedTail ==
    ASSUME used \in Seq(UsedRecord), used # <<>>, used' = Tail(used)
    PROVE  /\ used' \in Seq(UsedRecord)
           /\ DOMAIN used' = 1 .. (Len(used) - 1)
           /\ \A i \in DOMAIN used' : i + 1 \in DOMAIN used /\ used'[i] = used[i + 1]
           /\ Popped \in UsedRecord /\ 1 \in DOMAIN used /\ Popped = used[1]
BY DEF Popped

\* A step that pops keeps the used ring well formed, and the popped token is in
\* neither the rest of the ring nor with the device.
LEMMA PopFrameType ==
    ASSUME TypeOK, PopFrame
    PROVE  /\ used' \in Seq(UsedRecord)
           /\ \A i, j \in DOMAIN used' : used'[i].token = used'[j].token => i = j
           /\ Used' \subseteq Used
           /\ Popped.token \in Token /\ Popped.token \in Used
           /\ Popped.token \notin posted /\ Popped.token \notin Used'
<1>1. used \in Seq(UsedRecord) /\ used # <<>> /\ used' = Tail(used)
  BY DEF TypeOK, PopFrame, UsedRecord
<1>2. Used' = {used'[i].token : i \in DOMAIN used'}
  BY DEF Used
<1>3. /\ used' \in Seq(UsedRecord)
      /\ DOMAIN used' = 1 .. (Len(used) - 1)
      /\ \A i \in DOMAIN used' : i + 1 \in DOMAIN used /\ used'[i] = used[i + 1]
      /\ Popped \in UsedRecord /\ 1 \in DOMAIN used /\ Popped = used[1]
  BY <1>1, UsedTail
<1>4. ASSUME NEW i \in DOMAIN used', NEW j \in DOMAIN used',
             used'[i].token = used'[j].token
      PROVE  i = j
  <2>1. i + 1 = j + 1
    BY <1>3, <1>4 DEF TypeOK
  <2> QED
    BY <2>1, <1>3
<1>5. Used' \subseteq Used
  BY <1>2, <1>3 DEF Used
<1>6. Popped.token \in Token /\ Popped.token \in Used
  BY <1>3 DEF Used, UsedRecord
<1>7. Popped.token \notin posted
  BY <1>6 DEF TypeOK
<1>8. Popped.token \notin Used'
  <2> SUFFICES ASSUME NEW i \in DOMAIN used', used'[i].token = Popped.token
               PROVE  FALSE
    BY <1>2
  <2>1. i + 1 = 1
    BY <1>3 DEF TypeOK
  <2> QED
    BY <2>1, <1>3
<1> QED
  BY <1>3, <1>4, <1>5, <1>6, <1>7, <1>8

\* The initial state has the types.
THEOREM InitType == Init => TypeOK
<1> SUFFICES ASSUME Init PROVE TypeOK
  OBVIOUS
<1>1. used = <<>> /\ DOMAIN used = {} /\ used \in Seq([token : Token, ok : BOOLEAN])
  BY DEF Init
<1>2. Used = {}
  BY <1>1 DEF Used
<1> QED
  BY <1>1, <1>2 DEF Init, TypeOK

\* The device's write keeps the tokens of the used ring distinct.
LEMMA DeviceWritesType ==
    ASSUME TypeOK, DeviceWrites
    PROVE  TypeOK'
<1>1. PICK t \in posted, ok \in BOOLEAN :
        used' = Append(used, [token |-> t, ok |-> ok]) /\ posted' = posted \ {t}
  BY DEF DeviceWrites
<1> DEFINE e == [token |-> t, ok |-> ok]
<1>2. used \in Seq(UsedRecord) /\ e \in UsedRecord /\ e.token = t /\ t \notin Used
  BY DEF TypeOK, UsedRecord
<1>3. /\ used' \in Seq(UsedRecord)
      /\ Used' = Used \cup {t}
      /\ DOMAIN used' = DOMAIN used \cup {Len(used) + 1}
      /\ \A i \in DOMAIN used : used'[i] = used[i]
      /\ used'[Len(used) + 1].token = t
  BY <1>1, <1>2, UsedAppend
<1>4. \A i \in DOMAIN used : used'[i].token \in Used
  BY <1>3 DEF Used
<1>5. \A i, j \in DOMAIN used' : used'[i].token = used'[j].token => i = j
  BY <1>2, <1>3, <1>4 DEF TypeOK
<1>6. posted' \cap Used' = {}
  BY <1>1, <1>3 DEF TypeOK
<1> QED
  BY <1>1, <1>3, <1>5, <1>6 DEF TypeOK, DeviceWrites, UsedRecord

\* Every step keeps the types.
THEOREM StepType == TypeOK /\ [Next]_vars => TypeOK'
<1> SUFFICES ASSUME TypeOK, [Next]_vars PROVE TypeOK'
  OBVIOUS
<1>1. CASE DeviceWrites
  BY <1>1, DeviceWritesType
<1>2. CASE ProcessRx
  BY <1>2 DEF ProcessRx, TypeOK, Used
<1>3. CASE PopNothing
  <2>1. looping' \in BOOLEAN /\ Used' = Used
    BY <1>3 DEF PopNothing, Used
  <2> QED
    BY <1>3, <2>1 DEF PopNothing, TypeOK
<1>4. CASE PopAndReplace
  <2>1. PopFrame
    BY <1>4 DEF PopAndReplace
  <2>2. buffers' \subseteq Token
    BY <1>4 DEF PopAndReplace, BuffersAfterReplace, TypeOK
  <2> QED
    BY <1>4, <2>1, <2>2, PopFrameType DEF PopAndReplace, PopFrame, TypeOK, UsedRecord
<1>5. CASE PopFails
  <2>1. PopFrame
    BY <1>5 DEF PopFails
  <2> QED
    BY <1>5, <2>1, PopFrameType DEF PopFails, PopFrame, TypeOK, UsedRecord
<1>6. CASE UNCHANGED vars
  BY <1>6 DEF vars, TypeOK, Used
<1> QED
  BY <1>1, <1>2, <1>3, <1>4, <1>5, <1>6 DEF Next

\* A descriptor is with the device, in the used ring once, or lost.
THEOREM RingTypeCorrect == Spec => []TypeOK
BY InitType, StepType, PTL DEF Spec

-------------------------------------------------------------------------------
\* With debug_assert! evaluated, every step keeps the buffers the device can
\* reach in the driver's hands.
THEOREM StepLive ==
    ASSUME DebugAssertions
    PROVE  TypeOK /\ LiveBuffers /\ [Next]_vars => LiveBuffers'
<1> SUFFICES ASSUME TypeOK, LiveBuffers, [Next]_vars PROVE LiveBuffers'
  OBVIOUS
<1>1. CASE DeviceWrites
  <2>1. PICK t \in posted, ok \in BOOLEAN :
          used' = Append(used, [token |-> t, ok |-> ok]) /\ posted' = posted \ {t}
    BY <1>1 DEF DeviceWrites
  <2>2. Used' = Used \cup {t}
    BY <2>1, UsedAppend DEF TypeOK, UsedRecord
  <2> QED
    BY <1>1, <2>1, <2>2 DEF DeviceWrites, LiveBuffers
<1>2. CASE ProcessRx \/ PopNothing
  BY <1>2 DEF ProcessRx, PopNothing, LiveBuffers, Used
<1>3. CASE PopAndReplace
  BY <1>3, PopFrameType DEF PopAndReplace, BuffersAfterReplace, LiveBuffers
<1>4. CASE PopFails
  <2>1. PopFrame
    BY <1>4 DEF PopFails
  <2> QED
    BY <1>4, <2>1, PopFrameType DEF PopFails, LiveBuffers
<1>5. CASE UNCHANGED vars
  BY <1>5 DEF vars, LiveBuffers, Used
<1> QED
  BY <1>1, <1>2, <1>3, <1>4, <1>5 DEF Next

\* The DMA buffers posted to the device, or already written by it, stay owned by
\* the driver, whatever pops fail, in a build that evaluates debug_assert!.  (The
\* release build is a counterexample: see the run RxRingRelease.)
THEOREM BuffersStayLive == ASSUME DebugAssertions PROVE Spec => []LiveBuffers
<1>1. Init => LiveBuffers
  BY DEF Init, LiveBuffers, Used
<1>2. TypeOK /\ LiveBuffers /\ [Next]_vars => LiveBuffers'
  BY StepLive
<1> QED
  BY <1>1, <1>2, RingTypeCorrect, PTL DEF Spec
===============================================================================
