------------------------- MODULE ReceptionFlowProofs -------------------------
(***************************************************************************)
(* Proofs about ReceptionFlow for every ring size, every number of packets *)
(* and all sets of application threads.                                    *)
(***************************************************************************)
EXTENDS ReceptionFlow, FiniteSetTheorems, SequenceTheorems, TLAPS

\* The index after a slot, without the modulus.
LEMMA NextLocation ==
  ASSUME NEW i \in Slot \cup {-1}
  PROVE  /\ next_buffer_location(i) = IF i = Slots - 1 THEN 0 ELSE i + 1
         /\ next_buffer_location(i) \in Slot
  BY SlotsAssumption DEF next_buffer_location, Slot

\* Type correctness is inductive.
LEMMA TypeInit == Init => TypeOK
  BY SlotsAssumption DEF Init, TypeOK, Slot

LEMMA TypeNext == TypeOK /\ [Next]_vars => TypeOK'
<1> USE DEF InSlot
<1> SUFFICES ASSUME TypeOK, [Next]_vars PROVE TypeOK'
  OBVIOUS
<1>1. next_write_index \in Slot
  BY NextLocation DEF TypeOK, next_write_index
<1>2. next_buffer_location(ring_read_index_) \in Slot
  BY NextLocation DEF TypeOK
<1> USE DEF ringVars, ctlVars, socketVars
<1>3. CASE Arrive
  BY <1>3 DEF TypeOK, Arrive
<1>4. CASE Receiver
  <2>1. ASSUME NEW from, NEW to, ReceiverGoto(from, to),
               to \in {"check", "poll", "inner", "recv", "notify", "done"}
        PROVE  TypeOK'
    BY <2>1 DEF TypeOK, ReceiverGoto
  <2>2. CASE ReceiverLoop \/ Poll \/ ReceiverInnerLoop \/ RecvSizeIsZero
    BY <2>1, <2>2 DEF ReceiverLoop, Poll, ReceiverInnerLoop, RecvSizeIsZero
  <2>3. CASE RecvPacket
    BY <1>1, <2>3 DEF TypeOK, RecvPacket
  <2>4. CASE RecvStoreSize
    BY <1>1, <2>4 DEF TypeOK, RecvStoreSize
  <2>5. CASE RecvNothing
    BY <1>1, <2>5 DEF TypeOK, RecvNothing, RecvStoreFailure
  <2>6. CASE RecvError
    BY <1>1, <2>6 DEF TypeOK, RecvError, RecvStoreFailure
  <2>7. CASE RecvFailed
    BY <2>7 DEF TypeOK, RecvFailed
  <2>8. CASE RecvPublish
    BY <1>1, <2>8 DEF TypeOK, RecvPublish
  <2>9. CASE ReceiverNotify
    BY <2>9 DEF TypeOK, ReceiverNotify, Woken
  <2>10. QED
    BY <1>4, <2>2, <2>3, <2>4, <2>5, <2>6, <2>7, <2>8, <2>9 DEF Receiver
<1>5. CASE Processor \/ SpuriousWakeup
  <2>1. ASSUME NEW from, NEW to, ProcessorGoto(from, to),
               to \in {"check", "sleep", "waiting", "woken", "scan",
                       "dispatch", "done"},
               to = "dispatch" => from = "slot"
        PROVE  TypeOK'
    BY <2>1 DEF TypeOK, ProcessorGoto
  <2>2. CASE \/ ProcessorLoop \/ ProcessorWait \/ ProcessorAwake
             \/ ProcessorDrained \/ ProcessorSlot \/ SpuriousWakeup
    BY <2>1, <2>2 DEF ProcessorLoop, ProcessorWait, ProcessorAwake,
                      ProcessorDrained, ProcessorSlot, SpuriousWakeup
  <2>3. CASE ProcessorNextSlot
    BY <1>2, <2>3 DEF TypeOK, ProcessorNextSlot
  <2>4. CASE ProcessorDispatch
    <3>1. data[ring_read_index_] \in Nat
      BY <2>4 DEF TypeOK, ProcessorDispatch
    <3>2. handled' \in Seq(Nat) /\ frames_' \in Seq(Nat)
      <4>1. /\ Append(handled, data[ring_read_index_]) \in Seq(Nat)
            /\ Append(frames_, data[ring_read_index_]) \in Seq(Nat)
        BY <3>1, AppendProperties DEF TypeOK
      <4>2. QED
        BY <4>1, <2>4 DEF TypeOK, ProcessorDispatch
    <3>3. /\ ppc = "dispatch" /\ ppc' = "clear"
          /\ UNCHANGED <<ringVars, ctlVars, rpc, cpc, upc, socketVars, pulled,
                         overrun>>
      BY <2>4 DEF ProcessorDispatch
    <3>4. QED
      BY <3>2, <3>3 DEF TypeOK
  <2>5. CASE ProcessorClear
    BY <2>5 DEF TypeOK, ProcessorClear
  <2>6. QED
    BY <1>5, <2>2, <2>3, <2>4, <2>5 DEF Processor
<1>6. ASSUME NEW c \in Callers, StartBegin(c) \/ StopBegin(c) \/ CallerStep(c)
      PROVE  TypeOK'
  <2> USE DEF CallerGoto
  <2>1. CASE StartBegin(c)
    BY <2>1, ZenonT(60) DEF TypeOK, StartBegin
  <2>2. CASE StopBegin(c)
    BY <2>2, ZenonT(60) DEF TypeOK, StopBegin
  <2>3. CASE StartProcessor(c) \/ StartReceiver(c)
    BY <2>3, ZenonT(60) DEF TypeOK, StartProcessor, StartReceiver
  <2>4a. CASE StartEnd(c)
    BY <2>4a, ZenonT(60) DEF TypeOK, StartEnd
  <2>4b. CASE StopEnd(c)
    BY <2>4b, ZenonT(60) DEF TypeOK, StopEnd
  <2>5. CASE StopNotify(c)
    BY <2>5, ZenonT(60) DEF TypeOK, StopNotify, Woken
  <2>6. CASE StopJoinReceiver(c) \/ StopJoinProcessor(c)
    BY <2>6, ZenonT(60) DEF TypeOK, StopJoinReceiver, StopJoinProcessor
  <2>7. CASE StopClear(c)
    BY <2>7 DEF TypeOK, StopClear
  <2>8. QED
    BY <1>6, <2>1, <2>2, <2>3, <2>4a, <2>4b, <2>5, <2>6, <2>7
    DEF CallerStep, StopStep
<1>7. ASSUME NEW u \in Pullers, PullBegin(u) \/ PullStep(u)
      PROVE  TypeOK'
  <2>1. ASSUME NEW from, NEW to, PullGoto(u, from, to),
               to \in {"idle", "wait", "take"},
               frames_' \in Seq(Nat), pulled' \in Seq(Nat)
        PROVE  TypeOK'
    BY <2>1 DEF TypeOK, PullGoto
  <2>2. CASE PullBegin(u) \/ PullStopped(u) \/ PullAwake(u)
    BY <2>1, <2>2 DEF TypeOK, PullBegin, PullStopped, PullAwake
  <2>3. CASE PullTake(u)
    <3>1. frames_ # <<>> => Head(frames_) \in Nat /\ Tail(frames_) \in Seq(Nat)
      BY HeadTailProperties DEF TypeOK
    <3>2. frames_' \in Seq(Nat) /\ pulled' \in Seq(Nat)
      <4>1. frames_ # <<>> => Append(pulled, Head(frames_)) \in Seq(Nat)
        BY <3>1, AppendProperties DEF TypeOK
      <4>2. QED
        BY <2>3, <3>1, <4>1 DEF TypeOK, PullTake
    <3>3. PullGoto(u, "take", "idle")
      BY <2>3 DEF PullTake
    <3>4. QED
      BY <2>1, <3>2, <3>3
  <2>4. QED
    BY <1>7, <2>2, <2>3 DEF PullStep
<1>8. CASE UNCHANGED vars
  BY <1>8 DEF TypeOK, vars
<1>9. QED
  BY <1>3, <1>4, <1>5, <1>6, <1>7, <1>8 DEF Next

\* Every reachable state of the reception flow is well typed: both ring
\* positions stay inside the ring for every ring size.
THEOREM TypeCorrect == Spec => []TypeOK
<1>1. QED
  BY TypeInit, TypeNext, PTL DEF Spec

-----------------------------------------------------------------------------
(***************************************************************************)
(* Start and stop.  LifecycleInv says which threads can exist at each step *)
(* of a caller; it strengthens StopQuiesces to be inductive.               *)
(***************************************************************************)

LifecycleInv ==
  /\ \A c \in Callers : cpc[c] = "idle" <=> active_mutex_ # c
  /\ active_mutex_ = NoThread /\ ~active_ =>
       rpc = "off" /\ ppc = "off" /\ frames_ = <<>>
  /\ \A c \in Callers :
       /\ cpc[c] = "spawnProcessor" =>
            rpc = "off" /\ ppc = "off" /\ frames_ = <<>> /\ ~active_
       /\ cpc[c] \in {"spawnReceiver", "joinProcessor", "clearFrames",
                      "deactivate"} => rpc = "off"
       /\ cpc[c] \in {"clearFrames", "deactivate"} => ppc = "off"
       /\ cpc[c] = "deactivate" => frames_ = <<>>

LEMMA LifecycleInit == Init => LifecycleInv
  BY NoThreadAssumption DEF Init, LifecycleInv

LEMMA LifecycleNext == TypeOK /\ LifecycleInv /\ [Next]_vars => LifecycleInv'
<1> SUFFICES ASSUME TypeOK, LifecycleInv, [Next]_vars PROVE LifecycleInv'
  OBVIOUS
<1> USE DEF ringVars, ctlVars, socketVars
\* A step of the two threads: a thread that is off stays off and adds no frame.
<1>1. ASSUME UNCHANGED <<cpc, active_, active_mutex_>>,
             rpc = "off" => rpc' = "off",
             ppc = "off" => ppc' = "off" /\ (frames_ = <<>> => frames_' = <<>>)
      PROVE  LifecycleInv'
  BY <1>1 DEF LifecycleInv
<1>2. CASE Arrive
  BY <1>1, <1>2 DEF Arrive
<1>3. CASE Receiver
  <2>1. /\ UNCHANGED <<cpc, active_, active_mutex_, frames_>>
        /\ rpc # "off"
        /\ ppc = "off" => ppc' = "off"
    BY <1>3 DEF Receiver, ReceiverLoop, Poll, ReceiverInnerLoop, RecvPacket,
      RecvStoreSize, RecvNothing, RecvError, RecvStoreFailure, RecvSizeIsZero,
      RecvFailed, RecvPublish, ReceiverNotify, ReceiverGoto, Woken
  <2>2. QED
    BY <1>1, <2>1
<1>4. CASE Processor \/ SpuriousWakeup
  <2>1. UNCHANGED <<cpc, active_, active_mutex_, rpc>> /\ ppc # "off"
    BY <1>4 DEF Processor, SpuriousWakeup, ProcessorLoop, ProcessorWait,
      ProcessorAwake, ProcessorNextSlot, ProcessorDrained, ProcessorSlot,
      ProcessorDispatch, ProcessorClear, ProcessorGoto
  <2>2. QED
    BY <1>1, <2>1
<1>5. ASSUME NEW c \in Callers, StartBegin(c) \/ StopBegin(c) \/ CallerStep(c)
      PROVE  LifecycleInv'
  <2> USE NoThreadAssumption DEF CallerGoto, TypeOK
  <2>1. CASE StartBegin(c)
    BY <2>1 DEF LifecycleInv, StartBegin
  <2>2. CASE StopBegin(c)
    BY <2>2 DEF LifecycleInv, StopBegin
  <2>3. CASE StartProcessor(c)
    BY <2>3 DEF LifecycleInv, StartProcessor
  <2>4. CASE StartReceiver(c)
    BY <2>4 DEF LifecycleInv, StartReceiver
  <2>5. CASE StartEnd(c)
    BY <2>5 DEF LifecycleInv, StartEnd
  <2>6. CASE StopNotify(c)
    BY <2>6 DEF LifecycleInv, StopNotify, Woken
  <2>7. CASE StopJoinReceiver(c)
    BY <2>7 DEF LifecycleInv, StopJoinReceiver
  <2>8. CASE StopJoinProcessor(c)
    BY <2>8 DEF LifecycleInv, StopJoinProcessor
  <2>9. CASE StopClear(c)
    BY <2>9 DEF LifecycleInv, StopClear
  <2>10. CASE StopEnd(c)
    BY <2>10 DEF LifecycleInv, StopEnd
  <2>11. QED
    BY <1>5, <2>1, <2>2, <2>3, <2>4, <2>5, <2>6, <2>7, <2>8, <2>9, <2>10
    DEF CallerStep, StopStep
<1>6. ASSUME NEW u \in Pullers, PullBegin(u) \/ PullStep(u)
      PROVE  LifecycleInv'
  <2>1. /\ UNCHANGED <<cpc, active_, active_mutex_, rpc, ppc>>
        /\ frames_ = <<>> => frames_' = <<>>
    BY <1>6 DEF PullBegin, PullStep, PullStopped, PullAwake, PullTake, PullGoto
  <2>2. QED
    BY <1>1, <2>1
<1>7. CASE UNCHANGED vars
  BY <1>1, <1>7 DEF vars
<1>8. QED
  BY <1>2, <1>3, <1>4, <1>5, <1>6, <1>7 DEF Next

\* After any history of starts, stops, thread failures and lost wakeups, a flow
\* that is not active and that nobody is starting or stopping has no thread and
\* holds no frame.
THEOREM StopLeavesNothing == Spec => []StopQuiesces
<1>1. LifecycleInv => StopQuiesces
  BY DEF LifecycleInv, StopQuiesces
<1>2. QED
  BY <1>1, TypeInit, TypeNext, LifecycleInit, LifecycleNext, PTL DEF Spec

-----------------------------------------------------------------------------
(***************************************************************************)
(* The ring buffer.  RingInv locates every packet that was taken from the  *)
(* socket and not handled: the processor's slot holds the oldest, the      *)
(* unread slots the next ones in the order of their distance from the read *)
(* position, and the slot being received into the newest.                  *)
(***************************************************************************)

UnreadCount ==
  IF ring_read_index_ <= last_ring_write_index_
  THEN last_ring_write_index_ - ring_read_index_
  ELSE last_ring_write_index_ + Slots - ring_read_index_

\* How many steps the read position is away from slot s.
Distance(s) ==
  IF ring_read_index_ < s THEN s - ring_read_index_
  ELSE s + Slots - ring_read_index_

Free(s) == s \notin Unread /\ ~(s = ring_read_index_ /\ InSlot)

\* The parts of RingInv.
Accounted ==
  taken = Len(handled) + BeingProcessed + UnreadCount + BeingReceived

UnreadInOrder ==
  \A s \in Unread :
    data[s] = Len(handled) + BeingProcessed + Distance(s) /\ read[s] = 1

ProcessedIsOldest ==
  BeingProcessed = 1 =>
    /\ data[ring_read_index_] = Len(handled) + 1
    /\ read[ring_read_index_] = 1

ReceivedIsNewest ==
  /\ BeingReceived = 1 =>
       data[next_write_index] = taken /\ Free(next_write_index)
  /\ rpc = "test" => read[next_write_index] = 1

HandledIsPrefix == \A i \in 1 .. Len(handled) : handled[i] = i

RingInv ==
  /\ last_ring_write_index_ = -1 => ring_read_index_ = -1
  /\ ~overrun =>
       /\ Accounted
       /\ UnreadInOrder
       /\ ProcessedIsOldest
       /\ ReceivedIsNewest
       /\ HandledIsPrefix

LEMMA RingInit == Init => RingInv
  BY DEF Init, RingInv, Accounted, UnreadInOrder, ProcessedIsOldest,
    ReceivedIsNewest, HandledIsPrefix, BeingProcessed, BeingReceived,
    UnreadCount, Unread

\* Facts about the types of the derived quantities.
LEMMA RingTypes ==
  ASSUME TypeOK
  PROVE  /\ BeingProcessed \in {0, 1}
         /\ BeingReceived \in {0, 1}
         /\ UnreadCount \in Int
         /\ Len(handled) \in Nat
         /\ Unread \subseteq Slot
         /\ \A s \in Slot : Distance(s) \in Int
         /\ BeingProcessed = 1 => ring_read_index_ \in Slot /\ InSlot
         /\ next_write_index \in Slot
<1>1. BeingProcessed \in {0, 1} /\ BeingReceived \in {0, 1}
  BY DEF BeingProcessed, BeingReceived
<1>2. UnreadCount \in Int /\ \A s \in Slot : Distance(s) \in Int
  BY SlotsAssumption DEF UnreadCount, Distance, Slot, TypeOK
<1>3. Len(handled) \in Nat
  BY LenProperties DEF TypeOK
<1>4. Unread \subseteq Slot
  BY SlotsAssumption DEF Unread, Slot, TypeOK
<1>5. BeingProcessed = 1 => ring_read_index_ \in Slot /\ InSlot
  BY DEF BeingProcessed, InSlot, TypeOK
<1>6. next_write_index \in Slot
  BY NextLocation DEF TypeOK, next_write_index
<1>7. QED
  BY <1>1, <1>2, <1>3, <1>4, <1>5, <1>6

\* A step that keeps the ring and what is in the hands of the threads.
LEMMA RingStutter ==
  ASSUME RingInv, UNCHANGED <<ringVars, taken, handled>>,
         overrun => overrun',
         UNCHANGED <<BeingProcessed, BeingReceived>>,
         InSlot' => InSlot,
         rpc' = "test" => rpc = "test"
  PROVE  RingInv'
<1>1. UNCHANGED <<UnreadCount, Unread, next_write_index>>
  BY DEF ringVars, UnreadCount, Unread, next_write_index
<1>2. \A s : Distance(s)' = Distance(s) /\ (Free(s) => Free(s)')
  BY <1>1 DEF ringVars, Distance, Free
<1>3. QED
  BY <1>1, <1>2 DEF ringVars, RingInv, Accounted, UnreadInOrder,
    ProcessedIsOldest, ReceivedIsNewest, HandledIsPrefix

\* A step that writes only the slot being received into, which is free.
LEMMA FreeSlotWritten ==
  ASSUME TypeOK, RingInv, ~overrun, Free(next_write_index),
         UNCHANGED <<ring_read_index_, last_ring_write_index_, ppc, handled>>,
         \A s \in Slot \ {next_write_index} :
           data'[s] = data[s] /\ read'[s] = read[s]
  PROVE  /\ UNCHANGED <<UnreadCount, Unread, BeingProcessed, next_write_index>>
         /\ Free(next_write_index)'
         /\ UnreadInOrder' /\ ProcessedIsOldest' /\ HandledIsPrefix'
<1>1. UNCHANGED <<UnreadCount, Unread, BeingProcessed, next_write_index, InSlot>>
  BY DEF UnreadCount, Unread, BeingProcessed, next_write_index, InSlot
<1>2. \A s : Distance(s)' = Distance(s) /\ Free(s)' = Free(s)
  BY <1>1 DEF Distance, Free
<1>3. UnreadInOrder /\ ProcessedIsOldest /\ HandledIsPrefix
  BY DEF RingInv
<1>4. UnreadInOrder'
  <2>1. \A s \in Unread : s \in Slot \ {next_write_index}
    BY RingTypes DEF Free
  <2>2. QED
    BY <1>1, <1>2, <1>3, <2>1 DEF UnreadInOrder
<1>5. ProcessedIsOldest'
  <2>1. BeingProcessed = 1 => ring_read_index_ \in Slot \ {next_write_index}
    BY RingTypes DEF Free
  <2>2. QED
    BY <1>1, <1>3, <2>1 DEF ProcessedIsOldest
<1>6. QED
  BY <1>1, <1>2, <1>3, <1>4, <1>5 DEF HandledIsPrefix

LEMMA RecvPacketKeepsRing ==
  ASSUME TypeOK, RingInv, RecvPacket PROVE RingInv'
<1> USE DEF RecvPacket, ctlVars
<1>1. SUFFICES ASSUME ~overrun' PROVE RingInv'
  BY DEF RingInv
<1>2. ~overrun /\ Free(next_write_index)
  BY <1>1 DEF Touches, Free
<1>3. /\ data'[next_write_index] = taken + 1
      /\ \A s \in Slot \ {next_write_index} :
           data'[s] = data[s] /\ read'[s] = read[s]
  BY RingTypes DEF TypeOK
<1>4. /\ UNCHANGED <<UnreadCount, Unread, BeingProcessed, next_write_index>>
      /\ Free(next_write_index)'
      /\ UnreadInOrder' /\ ProcessedIsOldest' /\ HandledIsPrefix'
  BY <1>2, <1>3, FreeSlotWritten
<1>5. BeingReceived = 0 /\ BeingReceived' = 1
  BY DEF BeingReceived
<1>6. Accounted'
  BY <1>2, <1>4, <1>5, RingTypes DEF RingInv, Accounted
<1>7. ReceivedIsNewest'
  BY <1>3, <1>4 DEF ReceivedIsNewest
<1>8. QED
  BY <1>4, <1>6, <1>7 DEF RingInv

LEMMA RecvStoreSizeKeepsRing ==
  ASSUME TypeOK, RingInv, RecvStoreSize PROVE RingInv'
<1> USE DEF RecvStoreSize, ctlVars, socketVars
<1>1. SUFFICES ASSUME ~overrun PROVE RingInv'
  BY DEF RingInv
<1>2. BeingReceived = 1 /\ BeingReceived' = 1
  BY DEF BeingReceived
<1>3. Accounted /\ ReceivedIsNewest
  BY <1>1 DEF RingInv
<1>4. data[next_write_index] = taken /\ Free(next_write_index)
  BY <1>2, <1>3 DEF ReceivedIsNewest
<1>5. /\ read'[next_write_index] = 1
      /\ \A s \in Slot \ {next_write_index} :
           data'[s] = data[s] /\ read'[s] = read[s]
  BY RingTypes DEF TypeOK
<1>6. /\ UNCHANGED <<UnreadCount, Unread, BeingProcessed, next_write_index>>
      /\ Free(next_write_index)'
      /\ UnreadInOrder' /\ ProcessedIsOldest' /\ HandledIsPrefix'
  BY <1>1, <1>4, <1>5, FreeSlotWritten
<1>7. Accounted' /\ ReceivedIsNewest'
  BY <1>2, <1>3, <1>4, <1>5, <1>6 DEF Accounted, ReceivedIsNewest
<1>8. QED
  BY <1>6, <1>7 DEF RingInv

LEMMA RecvStoreFailureKeepsRing ==
  ASSUME TypeOK, RingInv, NEW size, NEW to, RecvStoreFailure(size, to),
         to \in {"notify", "failed"}
  PROVE  RingInv'
<1> USE DEF RecvStoreFailure, ctlVars, socketVars
<1>1. SUFFICES ASSUME ~overrun' PROVE RingInv'
  BY DEF RingInv
<1>2. ~overrun /\ Free(next_write_index)
  BY <1>1 DEF Touches, Free
<1>3. \A s \in Slot \ {next_write_index} :
        data'[s] = data[s] /\ read'[s] = read[s]
  BY RingTypes DEF TypeOK
<1>4. /\ UNCHANGED <<UnreadCount, Unread, BeingProcessed, next_write_index>>
      /\ UnreadInOrder' /\ ProcessedIsOldest' /\ HandledIsPrefix'
  BY <1>2, <1>3, FreeSlotWritten
<1>5. BeingReceived = 0 /\ BeingReceived' = 0
  BY DEF BeingReceived
<1>6. Accounted' /\ ReceivedIsNewest'
  BY <1>2, <1>4, <1>5 DEF RingInv, Accounted, ReceivedIsNewest
<1>7. QED
  BY <1>4, <1>6 DEF RingInv

\* Publishing appends the received packet at the far end of the unread slots.
LEMMA RecvPublishKeepsRing ==
  ASSUME TypeOK, RingInv, RecvPublish PROVE RingInv'
<1> USE DEF RecvPublish, ctlVars, socketVars
<1> DEFINE n == next_write_index
<1>1. /\ n \in Slot /\ last_ring_write_index_' = n
      /\ n = IF last_ring_write_index_ = Slots - 1 THEN 0
             ELSE last_ring_write_index_ + 1
  BY NextLocation DEF TypeOK, next_write_index
<1>2. last_ring_write_index_' # -1
  BY <1>1, SlotsAssumption DEF Slot
<1>3. SUFFICES ASSUME ~overrun' PROVE RingInv'
  BY <1>2 DEF RingInv
<1>4. ~overrun /\ n # ring_read_index_
  BY <1>3
<1>5. /\ BeingReceived = 1 /\ BeingReceived' = 0 /\ rpc = "test" /\ rpc' = "inner"
      /\ UNCHANGED <<BeingProcessed, data, read, handled, taken, ring_read_index_>>
  BY DEF BeingReceived, BeingProcessed
<1>6. /\ last_ring_write_index_ = -1 => ring_read_index_ = -1
      /\ Accounted /\ UnreadInOrder /\ ProcessedIsOldest /\ ReceivedIsNewest
      /\ HandledIsPrefix
  BY <1>4 DEF RingInv
<1>7. Free(n) /\ data[n] = taken /\ read[n] = 1
  BY <1>5, <1>6 DEF ReceivedIsNewest
<1> HIDE DEF n, RecvPublish
<1>8. /\ ring_read_index_ \in Slot \cup {-1}
      /\ last_ring_write_index_ \in Slot \cup {-1}
      /\ n \notin Unread
  BY <1>7 DEF TypeOK, Free
<1>9. /\ UnreadCount' = UnreadCount + 1
      /\ Distance(n) = UnreadCount + 1
  BY <1>1, <1>4, <1>5, <1>6, <1>8, SlotsAssumption
  DEF UnreadCount, Distance, Unread, Slot
<1>10. Unread' = Unread \cup {n}
  BY <1>1, <1>4, <1>5, <1>6, <1>8, SlotsAssumption DEF Unread, Slot
<1>11. \A s : Distance(s)' = Distance(s)
  BY <1>5 DEF Distance
<1>12. Accounted'
  BY <1>5, <1>6, <1>9, RingTypes DEF Accounted
<1>13. UnreadInOrder'
  <2>1. data[n] = Len(handled) + BeingProcessed + Distance(n)
    BY <1>5, <1>6, <1>7, <1>9, RingTypes DEF Accounted
  <2>2. QED
    BY <1>5, <1>6, <1>7, <1>10, <1>11, <2>1 DEF UnreadInOrder
<1>14. ProcessedIsOldest' /\ ReceivedIsNewest' /\ HandledIsPrefix'
  BY <1>5, <1>6 DEF ProcessedIsOldest, ReceivedIsNewest, HandledIsPrefix
<1>15. QED
  BY <1>2, <1>12, <1>13, <1>14 DEF RingInv

\* The processor takes the unread slot at distance one.
LEMMA ProcessorNextSlotKeepsRing ==
  ASSUME TypeOK, RingInv, ProcessorNextSlot PROVE RingInv'
<1> USE DEF ProcessorNextSlot, ctlVars, socketVars
<1> DEFINE r == next_buffer_location(ring_read_index_)
<1>1. /\ r \in Slot /\ ring_read_index_' = r
      /\ r = IF ring_read_index_ = Slots - 1 THEN 0 ELSE ring_read_index_ + 1
  BY NextLocation DEF TypeOK
<1>2. /\ last_ring_write_index_ \in Slot
      /\ ring_read_index_ \in Slot \cup {-1}
      /\ ring_read_index_ # last_ring_write_index_
  <2>1. last_ring_write_index_ = -1 => ring_read_index_ = -1
    BY DEF RingInv
  <2>2. QED
    BY <2>1 DEF TypeOK
<1>3. last_ring_write_index_' # -1
  BY <1>2, SlotsAssumption DEF Slot
<1>4. SUFFICES ASSUME ~overrun' PROVE RingInv'
  BY <1>3 DEF RingInv
<1>5. /\ BeingProcessed = 0 /\ BeingProcessed' = 1 /\ InSlot'
      /\ UNCHANGED <<BeingReceived, data, read, handled, taken, rpc,
                     last_ring_write_index_, next_write_index, overrun>>
  BY DEF BeingReceived, BeingProcessed, InSlot, next_write_index
<1>6. /\ Accounted /\ UnreadInOrder /\ ReceivedIsNewest /\ HandledIsPrefix
  BY <1>4, <1>5 DEF RingInv
<1> HIDE DEF r, ProcessorNextSlot
<1>7. UnreadCount' = UnreadCount - 1
  BY <1>1, <1>2, <1>5, SlotsAssumption DEF UnreadCount, Slot
<1>8. r \in Unread /\ Unread' = Unread \ {r}
  BY <1>1, <1>2, <1>5, SlotsAssumption DEF Unread, Slot
<1>9. Distance(r) = 1 /\ \A s \in Unread' : Distance(s)' = Distance(s) - 1
  BY <1>1, <1>2, <1>5, SlotsAssumption DEF Unread, Distance, Slot
<1>10. Accounted'
  BY <1>5, <1>6, <1>7, RingTypes DEF Accounted
<1>11. UnreadInOrder'
  <2>1. \A s \in Unread' : s \in Unread /\ Distance(s) \in Int
    BY <1>8, RingTypes
  <2>2. QED
    BY <1>5, <1>6, <1>9, <2>1, RingTypes DEF UnreadInOrder
<1>12. ProcessedIsOldest'
  BY <1>1, <1>5, <1>6, <1>8, <1>9, RingTypes DEF UnreadInOrder, ProcessedIsOldest
<1>13. ReceivedIsNewest'
  <2>1. Free(next_write_index) => Free(next_write_index)'
    BY <1>1, <1>5, <1>8 DEF Free
  <2>2. QED
    BY <1>5, <1>6, <2>1 DEF ReceivedIsNewest
<1>14. HandledIsPrefix'
  BY <1>5, <1>6 DEF HandledIsPrefix
<1>15. QED
  BY <1>3, <1>10, <1>11, <1>12, <1>13, <1>14 DEF RingInv

\* What is dispatched while the ring was not overrun is the next packet.
LEMMA DispatchesNext ==
  ASSUME TypeOK, RingInv, ProcessorDispatch, ~overrun
  PROVE  /\ handled' = Append(handled, Len(handled) + 1)
         /\ Len(handled') = Len(handled) + 1
         /\ Len(handled) < taken
<1>1. BeingProcessed = 1 /\ UnreadCount >= 0
  BY SlotsAssumption
  DEF ProcessorDispatch, BeingProcessed, UnreadCount, TypeOK, Slot
<1>2. data[ring_read_index_] = Len(handled) + 1 /\ Accounted
  BY <1>1 DEF RingInv, ProcessedIsOldest
<1>3. handled' = Append(handled, Len(handled) + 1)
  BY <1>2 DEF ProcessorDispatch
<1>4. Len(handled') = Len(handled) + 1
  BY <1>3, AppendProperties, RingTypes DEF TypeOK
<1>5. Len(handled) < taken
  BY <1>1, <1>2, RingTypes DEF Accounted, TypeOK
<1>6. QED
  BY <1>3, <1>4, <1>5

LEMMA ProcessorDispatchKeepsRing ==
  ASSUME TypeOK, RingInv, ProcessorDispatch PROVE RingInv'
<1> USE DEF ctlVars, socketVars, ringVars
<1>1. /\ BeingProcessed = 1 /\ BeingProcessed' = 0 /\ InSlot /\ InSlot'
      /\ UNCHANGED <<BeingReceived, ringVars, taken, rpc, next_write_index,
                     UnreadCount, Unread, overrun>>
  BY DEF ProcessorDispatch, BeingReceived, BeingProcessed, InSlot,
    next_write_index, UnreadCount, Unread
<1>2. \A s : Distance(s)' = Distance(s) /\ Free(s)' = Free(s)
  BY <1>1 DEF Distance, Free
<1>3. SUFFICES ASSUME ~overrun PROVE RingInv'
  BY <1>1 DEF RingInv
<1>4. Accounted /\ UnreadInOrder /\ ReceivedIsNewest /\ HandledIsPrefix
  BY <1>3 DEF RingInv
<1>5. /\ handled' = Append(handled, Len(handled) + 1)
      /\ Len(handled') = Len(handled) + 1
  BY <1>3, DispatchesNext
<1>6. HandledIsPrefix'
  <2>1. Len(handled) \in Nat /\ handled \in Seq(Nat)
    BY RingTypes DEF TypeOK
  <2>2. /\ \A i \in 1 .. Len(handled) : handled'[i] = handled[i]
        /\ handled'[Len(handled) + 1] = Len(handled) + 1
    BY <1>5, <2>1, AppendProperties
  <2>3. QED
    BY <1>4, <1>5, <2>1, <2>2 DEF HandledIsPrefix
<1>7. Accounted' /\ UnreadInOrder' /\ ProcessedIsOldest' /\ ReceivedIsNewest'
  BY <1>1, <1>2, <1>4, <1>5, RingTypes
  DEF Accounted, UnreadInOrder, ProcessedIsOldest, ReceivedIsNewest
<1>8. QED
  BY <1>1, <1>4, <1>6, <1>7 DEF RingInv

\* The slot that is cleared is neither unread nor being received into.
LEMMA ProcessorClearKeepsRing ==
  ASSUME TypeOK, RingInv, ProcessorClear PROVE RingInv'
<1> USE DEF ctlVars, socketVars
<1>1. /\ BeingProcessed = 0 /\ BeingProcessed' = 0 /\ InSlot /\ ~InSlot'
      /\ UNCHANGED <<BeingReceived, data, handled, taken, rpc, ring_read_index_,
                     last_ring_write_index_, next_write_index, UnreadCount,
                     Unread, overrun>>
  BY DEF ProcessorClear, BeingReceived, BeingProcessed, InSlot,
    next_write_index, UnreadCount, Unread
<1>2. \A s : Distance(s)' = Distance(s) /\ (Free(s) => Free(s)')
  BY <1>1 DEF Distance, Free
<1>3. SUFFICES ASSUME ~overrun PROVE RingInv'
  BY <1>1 DEF RingInv
<1>4. Accounted /\ UnreadInOrder /\ ReceivedIsNewest /\ HandledIsPrefix
  BY <1>3 DEF RingInv
<1>5. \A s \in Slot \ {ring_read_index_} : read'[s] = read[s]
  BY DEF ProcessorClear, TypeOK
<1>6. ring_read_index_ \notin Unread
  BY SlotsAssumption DEF Unread, Slot, TypeOK
<1>7. Free(next_write_index) => next_write_index # ring_read_index_
  BY <1>1 DEF Free
<1>8. UnreadInOrder'
  BY <1>1, <1>2, <1>4, <1>5, <1>6, RingTypes DEF UnreadInOrder
<1>9. ReceivedIsNewest'
  <2>1. rpc = "test" => BeingReceived = 1
    BY DEF BeingReceived
  <2>2. QED
    BY <1>1, <1>2, <1>4, <1>5, <1>7, <2>1, RingTypes DEF ReceivedIsNewest
<1>10. QED
  BY <1>1, <1>4, <1>8, <1>9
  DEF RingInv, Accounted, ProcessedIsOldest, HandledIsPrefix

LEMMA RingNext ==
  TypeOK /\ LifecycleInv /\ RingInv /\ [Next]_vars => RingInv'
<1> SUFFICES ASSUME TypeOK, LifecycleInv, RingInv, [Next]_vars PROVE RingInv'
  OBVIOUS
<1> USE DEF ringVars, ctlVars, socketVars
\* A step that keeps the ring and moves no packet between hands.
<1>1. ASSUME UNCHANGED <<ringVars, taken, handled, overrun>>,
             BeingProcessed' = BeingProcessed, BeingReceived' = BeingReceived,
             InSlot' => InSlot, rpc' = "test" => rpc = "test"
      PROVE  RingInv'
  BY <1>1, RingStutter
\* A step that keeps the ring and the two threads.
<1>2. ASSUME UNCHANGED <<ringVars, taken, handled, overrun, rpc, ppc>>
      PROVE  RingInv'
  BY <1>1, <1>2 DEF BeingProcessed, BeingReceived, InSlot
<1>3. CASE Arrive
  BY <1>2, <1>3 DEF Arrive
<1>4. CASE Receiver
  <2>1. CASE ReceiverLoop \/ Poll \/ ReceiverInnerLoop \/ RecvFailed
    BY <1>1, <2>1 DEF ReceiverLoop, Poll, ReceiverInnerLoop, RecvFailed,
      ReceiverGoto, BeingProcessed, BeingReceived, InSlot
  <2>2. CASE RecvSizeIsZero
    <3>1. CASE ReceiverGoto("failed", "notify")
      BY <1>1, <3>1 DEF ReceiverGoto, BeingProcessed, BeingReceived, InSlot
    <3>2. CASE ReceiverGoto("test", "notify")
      <4>1. overrun
        BY <2>2, <3>2 DEF RecvSizeIsZero, ReceiverGoto, RingInv, ReceivedIsNewest
      <4>2. QED
        BY <3>2, <4>1 DEF ReceiverGoto, RingInv
    <3>3. QED
      BY <2>2, <3>1, <3>2 DEF RecvSizeIsZero
  <2>3. CASE RecvPacket
    BY <2>3, RecvPacketKeepsRing
  <2>4. CASE RecvStoreSize
    BY <2>4, RecvStoreSizeKeepsRing
  <2>5. CASE RecvNothing \/ RecvError
    BY <2>5, RecvStoreFailureKeepsRing DEF RecvNothing, RecvError
  <2>6. CASE RecvPublish
    BY <2>6, RecvPublishKeepsRing
  <2>7. CASE ReceiverNotify
    BY <1>1, <2>7 DEF ReceiverNotify, Woken, BeingProcessed, BeingReceived, InSlot
  <2>8. QED
    BY <1>4, <2>1, <2>2, <2>3, <2>4, <2>5, <2>6, <2>7 DEF Receiver
<1>5. CASE Processor \/ SpuriousWakeup
  <2>1. CASE \/ ProcessorLoop \/ ProcessorWait \/ ProcessorAwake
             \/ ProcessorDrained \/ SpuriousWakeup
    BY <1>1, <2>1 DEF ProcessorLoop, ProcessorWait, ProcessorAwake,
      ProcessorDrained, SpuriousWakeup, ProcessorGoto, BeingProcessed,
      BeingReceived, InSlot
  <2>2. CASE ProcessorSlot
    <3>1. CASE ProcessorGoto("slot", "dispatch")
      BY <1>1, <3>1 DEF ProcessorGoto, BeingProcessed, BeingReceived, InSlot
    <3>2. CASE ProcessorGoto("slot", "scan") /\ read[ring_read_index_] <= 0
      <4>1. overrun
        BY <3>2 DEF ProcessorGoto, RingInv, ProcessedIsOldest, BeingProcessed
      <4>2. QED
        BY <3>2, <4>1 DEF ProcessorGoto, RingInv
    <3>3. QED
      BY <2>2, <3>1, <3>2 DEF ProcessorSlot
  <2>3. CASE ProcessorNextSlot
    BY <2>3, ProcessorNextSlotKeepsRing
  <2>4. CASE ProcessorDispatch
    BY <2>4, ProcessorDispatchKeepsRing
  <2>5. CASE ProcessorClear
    BY <2>5, ProcessorClearKeepsRing
  <2>6. QED
    BY <1>5, <2>1, <2>2, <2>3, <2>4, <2>5 DEF Processor
<1>6. ASSUME NEW c \in Callers, StartBegin(c) \/ StopBegin(c) \/ CallerStep(c)
      PROVE  RingInv'
  <2>1. CASE StartBegin(c) \/ StopBegin(c) \/ StartEnd(c) \/ StopClear(c) \/ StopEnd(c)
    BY <1>2, <2>1 DEF StartBegin, StopBegin, StartEnd, StopClear, StopEnd
  <2>2. CASE StartProcessor(c)
    <3>1. ppc = "off"
      BY <2>2 DEF StartProcessor, CallerGoto, LifecycleInv
    <3>2. QED
      BY <1>1, <2>2, <3>1 DEF StartProcessor, BeingProcessed, BeingReceived, InSlot
  <2>3. CASE StartReceiver(c)
    <3>1. rpc = "off"
      BY <2>3 DEF StartReceiver, CallerGoto, LifecycleInv
    <3>2. QED
      BY <1>1, <2>3, <3>1 DEF StartReceiver, BeingProcessed, BeingReceived, InSlot
  <2>4. CASE StopNotify(c)
    BY <1>1, <2>4 DEF StopNotify, Woken, BeingProcessed, BeingReceived, InSlot
  <2>5. CASE StopJoinReceiver(c) \/ StopJoinProcessor(c)
    BY <1>1, <2>5 DEF StopJoinReceiver, StopJoinProcessor, BeingProcessed,
      BeingReceived, InSlot
  <2>6. QED
    BY <1>6, <2>1, <2>2, <2>3, <2>4, <2>5 DEF CallerStep, StopStep
<1>7. ASSUME NEW u \in Pullers, PullBegin(u) \/ PullStep(u)
      PROVE  RingInv'
  BY <1>2, <1>7 DEF PullBegin, PullStep, PullStopped, PullAwake, PullTake, PullGoto
<1>8. CASE UNCHANGED vars
  BY <1>2, <1>8 DEF vars
<1>9. QED
  BY <1>3, <1>4, <1>5, <1>6, <1>7, <1>8 DEF Next

LEMMA UnreadCardinality ==
  ASSUME TypeOK, RingInv PROVE Cardinality(Unread) = UnreadCount
<1> DEFINE r == ring_read_index_
           w == last_ring_write_index_
<1>1. /\ r \in Int /\ w \in Int /\ -1 <= r /\ r < Slots /\ -1 <= w /\ w < Slots
      /\ w = -1 => r = -1
      /\ Slots \in Nat
  BY SlotsAssumption DEF TypeOK, Slot, RingInv
<1>2. \A a, b \in Int : /\ IsFiniteSet(a .. b)
                        /\ Cardinality(a .. b) = IF a <= b THEN b - a + 1 ELSE 0
  BY FS_Interval
<1>3. CASE w = r
  BY <1>1, <1>3, FS_EmptySet DEF Unread, UnreadCount
<1>4. CASE r < w
  BY <1>1, <1>2, <1>4 DEF Unread, UnreadCount
<1>5. CASE w < r
  <2>1. /\ Unread = (0 .. w) \cup ((r + 1) .. (Slots - 1))
        /\ (0 .. w) \cap ((r + 1) .. (Slots - 1)) = {}
    BY <1>1, <1>5 DEF Unread, Slot
  <2>2. Cardinality(Unread) =
          Cardinality(0 .. w) + Cardinality((r + 1) .. (Slots - 1))
    <3>1. /\ IsFiniteSet(0 .. w) /\ IsFiniteSet((r + 1) .. (Slots - 1))
          /\ Cardinality(0 .. w) \in Int
          /\ Cardinality((r + 1) .. (Slots - 1)) \in Int
      BY <1>1, <1>2
    <3>2. Cardinality(Unread) =
            Cardinality(0 .. w) + Cardinality((r + 1) .. (Slots - 1))
              - Cardinality((0 .. w) \cap ((r + 1) .. (Slots - 1)))
      BY <2>1, <3>1, FS_Union
    <3>3. Cardinality((0 .. w) \cap ((r + 1) .. (Slots - 1))) = 0
      BY <2>1, FS_EmptySet
    <3>4. QED
      BY <3>1, <3>2, <3>3
  <2>3. Cardinality(0 .. w) = w + 1
    BY <1>1, <1>2, <1>5
  <2>4. Cardinality((r + 1) .. (Slots - 1)) = Slots - 1 - r
    BY <1>1, <1>2, <1>5
  <2>5. QED
    BY <1>1, <1>5, <2>2, <2>3, <2>4 DEF UnreadCount
<1>6. QED
  BY <1>1, <1>3, <1>4, <1>5

LEMMA RingInvariant == Spec => [](TypeOK /\ LifecycleInv /\ RingInv)
  BY TypeInit, TypeNext, LifecycleInit, LifecycleNext, RingInit, RingNext, PTL
  DEF Spec

\* Until the ring is overrun no packet taken from the socket is ever lost: it is
\* handled, in the hands of one of the two threads, or in an unread slot.
THEOREM RingLosesNothing == Spec => []NothingLost
<1>1. TypeOK /\ RingInv => NothingLost
  BY UnreadCardinality DEF RingInv, Accounted, NothingLost
<1>2. QED
  BY <1>1, RingInvariant, PTL

\* Until the ring is overrun the handlers see every packet once, in order.
THEOREM RingKeepsOrder == Spec => []HandledInOrder
<1>1. RingInv => HandledInOrder
  BY DEF RingInv, HandledIsPrefix, HandledInOrder
<1>2. QED
  BY <1>1, RingInvariant, PTL

\* An overrun is for good.
LEMMA OverrunLasts ==
  ASSUME [Next]_vars, overrun PROVE overrun'
<1>1. CASE Arrive \/ UNCHANGED vars
  BY <1>1 DEF Arrive, vars
<1>2. CASE Receiver
  BY <1>2 DEF Receiver, ReceiverLoop, Poll, ReceiverInnerLoop, RecvPacket,
    RecvStoreSize, RecvNothing, RecvError, RecvStoreFailure, RecvSizeIsZero,
    RecvFailed, RecvPublish, ReceiverNotify, ReceiverGoto
<1>3. CASE Processor \/ SpuriousWakeup
  BY <1>3 DEF Processor, SpuriousWakeup, ProcessorLoop, ProcessorWait,
    ProcessorAwake, ProcessorNextSlot, ProcessorDrained, ProcessorSlot,
    ProcessorDispatch, ProcessorClear, ProcessorGoto
<1>4. ASSUME NEW c \in Callers, StartBegin(c) \/ StopBegin(c) \/ CallerStep(c)
      PROVE  overrun'
  BY <1>4 DEF StartBegin, StopBegin, CallerStep, StartProcessor, StartReceiver,
    StartEnd, StopStep, StopNotify, StopJoinReceiver, StopJoinProcessor,
    StopClear, StopEnd
<1>5. ASSUME NEW u \in Pullers, PullBegin(u) \/ PullStep(u)
      PROVE  overrun'
  BY <1>5 DEF PullBegin, PullStep, PullStopped, PullAwake, PullTake, PullGoto
<1>6. QED
  BY <1>1, <1>2, <1>3, <1>4, <1>5 DEF Next

-----------------------------------------------------------------------------
(***************************************************************************)
(* End to end.  What applications pulled and may still pull is a part of   *)
(* what was handled, in its order.                                         *)
(***************************************************************************)

Delivery == pulled \o frames_

DeliveryInv ==
  ~overrun => /\ Increasing(Delivery)
              /\ \A i \in 1 .. Len(Delivery) : Delivery[i] <= Len(handled)

\* A prefix of the delivery, or the same with the next packet behind it, is in order
\* if the delivery was (return_frame(), clear_frames()).
LEMMA IncreasingGrows ==
  ASSUME NEW s \in Seq(Nat), Increasing(s), NEW n \in Nat,
         \A i \in 1 .. Len(s) : s[i] <= n
  PROVE  /\ Increasing(Append(s, n + 1))
         /\ \A i \in 1 .. Len(s) + 1 : Append(s, n + 1)[i] <= n + 1
<1> DEFINE t == Append(s, n + 1)
<1>1. /\ Len(s) \in Nat /\ Len(t) = Len(s) + 1
      /\ \A i \in 1 .. Len(s) : t[i] = s[i] /\ s[i] \in Nat
      /\ t[Len(s) + 1] = n + 1
  BY AppendProperties, ElementOfSeq, LenProperties
<1> HIDE DEF t
<1>2. ASSUME NEW i \in 1 .. Len(s) + 1
      PROVE  (i \in 1 .. Len(s) /\ t[i] <= n) \/ (i = Len(s) + 1 /\ t[i] = n + 1)
  BY <1>1
<1>3. ASSUME NEW i \in 1 .. Len(t), NEW j \in 1 .. Len(t), i < j
      PROVE  t[i] < t[j]
  <2>1. i \in 1 .. Len(s)
    BY <1>1, <1>3
  <2>2. CASE j = Len(s) + 1
    BY <1>1, <2>1, <2>2
  <2>3. CASE j \in 1 .. Len(s)
    BY <1>1, <1>3, <2>1, <2>3 DEF Increasing
  <2>4. QED
    BY <1>1, <2>2, <2>3
<1>4. Increasing(t) /\ \A i \in 1 .. Len(s) + 1 : t[i] <= n + 1
  BY <1>1, <1>2, <1>3 DEF Increasing
<1>5. QED
  BY <1>4 DEF t

LEMMA IncreasingShrinks ==
  ASSUME NEW s \in Seq(Nat), NEW t \in Seq(Nat), Increasing(s \o t),
         NEW n \in Nat, \A i \in 1 .. Len(s \o t) : (s \o t)[i] <= n
  PROVE  Increasing(s) /\ \A i \in 1 .. Len(s) : s[i] <= n
<1> DEFINE st == s \o t
<1>1. /\ Len(s) \in Nat /\ Len(t) \in Nat /\ Len(st) = Len(s) + Len(t)
      /\ \A i \in 1 .. Len(s) : st[i] = s[i]
  BY ConcatProperties, LenProperties
<1>2. Increasing(st) /\ \A i \in 1 .. Len(st) : st[i] <= n
  OBVIOUS
<1> HIDE DEF st
<1>3. QED
  BY <1>1, <1>2 DEF Increasing

LEMMA DeliveryNext ==
  TypeOK /\ RingInv /\ DeliveryInv /\ [Next]_vars => DeliveryInv'
<1> SUFFICES ASSUME TypeOK, RingInv, DeliveryInv, [Next]_vars, ~overrun'
             PROVE  /\ Increasing(Delivery)'
                    /\ \A i \in 1 .. Len(Delivery') : Delivery'[i] <= Len(handled')
  BY DEF DeliveryInv
<1>o. ~overrun
  BY OverrunLasts
<1>i. /\ Increasing(Delivery)
      /\ \A i \in 1 .. Len(Delivery) : Delivery[i] <= Len(handled)
  BY <1>o DEF DeliveryInv
<1>t. /\ pulled \in Seq(Nat) /\ frames_ \in Seq(Nat) /\ Delivery \in Seq(Nat)
      /\ Len(handled) \in Nat
  BY ConcatProperties, LenProperties DEF TypeOK, Delivery
\* A step that leaves the delivery as it is.
<1>1. ASSUME Delivery' = Delivery, Len(handled') = Len(handled)
      PROVE  /\ Increasing(Delivery)'
             /\ \A i \in 1 .. Len(Delivery') : Delivery'[i] <= Len(handled')
  BY <1>1, <1>i DEF Increasing
<1>2. CASE ProcessorDispatch
  <2>1. /\ handled' = Append(handled, Len(handled) + 1)
        /\ Len(handled') = Len(handled) + 1
    BY <1>2, <1>o, DispatchesNext
  <2>2. data[ring_read_index_] = Len(handled) + 1
    BY <1>2, <1>o DEF ProcessorDispatch, RingInv, ProcessedIsOldest, BeingProcessed
  <2>3. /\ frames_' = frames_ \/ frames_' = Append(frames_, Len(handled) + 1)
        /\ pulled' = pulled
    BY <1>2, <2>2 DEF ProcessorDispatch
  <2>4. CASE frames_' = frames_
    BY <1>i, <1>t, <2>1, <2>3, <2>4, ElementOfSeq DEF Delivery, Increasing
  <2>5. CASE frames_' = Append(frames_, Len(handled) + 1)
    <3>1. Delivery' = Append(Delivery, Len(handled) + 1)
      <4>1. pulled \o Append(frames_, Len(handled) + 1)
              = Append(pulled \o frames_, Len(handled) + 1)
        BY <1>t, AppendIsConcat, ConcatAssociative, ConcatProperties
      <4>2. QED
        BY <2>3, <2>5, <4>1 DEF Delivery
    <3>2. Len(Delivery') = Len(Delivery) + 1
      BY <1>t, <3>1, AppendProperties
    <3>3. QED
      BY <1>i, <1>t, <2>1, <3>1, <3>2, IncreasingGrows DEF Increasing
  <2>6. QED
    BY <2>3, <2>4, <2>5
<1>3. ASSUME NEW c \in Callers, StopClear(c)
      PROVE  /\ Increasing(Delivery)'
             /\ \A i \in 1 .. Len(Delivery') : Delivery'[i] <= Len(handled')
  <2>1. Delivery' = pulled /\ handled' = handled
    BY <1>3, <1>t, ConcatEmptySeq DEF StopClear, Delivery
  <2>2. Increasing(pulled) /\ \A i \in 1 .. Len(pulled) : pulled[i] <= Len(handled)
    BY <1>i, <1>t, IncreasingShrinks DEF Delivery
  <2>3. QED
    BY <2>1, <2>2 DEF Increasing
<1>4. ASSUME NEW u \in Pullers, PullTake(u)
      PROVE  Delivery' = Delivery /\ Len(handled') = Len(handled)
  <2>1. CASE frames_ = <<>>
    BY <1>4, <2>1 DEF PullTake, PullGoto, Delivery
  <2>2. CASE frames_ # <<>>
    <3> DEFINE h == <<Head(frames_)>>
               r == Tail(frames_)
    <3>1. frames_ = h \o r
      <4>1. /\ Len(frames_) \in Nat \ {0} /\ Head(frames_) = frames_[1]
        BY <1>t, <2>2, EmptySeq
      <4>2. frames_ = <<frames_[1]>> \o SubSeq(frames_, 2, Len(frames_))
        BY <1>t, <4>1, SubSeqFull, SubSeqRecursiveFirst
      <4>3. QED
        BY <1>t, <2>2, <4>1, <4>2, TailIsSubSeq
    <3>2. /\ h \in Seq(Nat) /\ r \in Seq(Nat)
          /\ Append(pulled, Head(frames_)) = pulled \o h
      BY <1>t, <2>2, HeadTailProperties, AppendIsConcat
    <3>3. (pulled \o h) \o r = pulled \o (h \o r)
      <4>1. \A a, b, c \in Seq(Nat) : (a \o b) \o c = a \o (b \o c)
        BY ConcatAssociative
      <4> HIDE DEF h, r
      <4>2. pulled \in Seq(Nat) /\ h \in Seq(Nat) /\ r \in Seq(Nat)
        BY <1>t, <3>2
      <4>3. QED
        BY <4>1, <4>2, Zenon
    <3>4. Delivery' = (pulled \o h) \o r /\ handled' = handled
      BY <1>4, <2>2, <3>2 DEF PullTake, PullGoto, Delivery
    <3>5. QED
      BY <3>1, <3>3, <3>4 DEF Delivery
  <2>3. QED
    BY <2>1, <2>2
<1> USE DEF ringVars, ctlVars, socketVars
<1>5. CASE Receiver
  BY <1>1, <1>5 DEF Receiver, ReceiverLoop, Poll, ReceiverInnerLoop, RecvPacket,
    RecvStoreSize, RecvNothing, RecvError, RecvStoreFailure, RecvSizeIsZero,
    RecvFailed, RecvPublish, ReceiverNotify, ReceiverGoto, Delivery
<1>6. CASE (Processor \/ SpuriousWakeup) /\ ~ProcessorDispatch
  BY <1>1, <1>6 DEF Processor, SpuriousWakeup, ProcessorLoop, ProcessorWait,
    ProcessorAwake, ProcessorNextSlot, ProcessorDrained, ProcessorSlot,
    ProcessorClear, ProcessorGoto, Delivery
<1>7. ASSUME NEW c \in Callers, ~StopClear(c),
             StartBegin(c) \/ StopBegin(c) \/ CallerStep(c)
      PROVE  Delivery' = Delivery /\ Len(handled') = Len(handled)
  BY <1>7 DEF StartBegin, StopBegin, CallerStep, StartProcessor, StartReceiver,
    StartEnd, StopStep, StopNotify, StopJoinReceiver, StopJoinProcessor, StopEnd, Delivery
<1>8. ASSUME NEW u \in Pullers, ~PullTake(u), PullBegin(u) \/ PullStep(u)
      PROVE  Delivery' = Delivery /\ Len(handled') = Len(handled)
  BY <1>8 DEF PullBegin, PullStep, PullStopped, PullAwake, PullGoto, Delivery
<1>9. CASE Arrive \/ UNCHANGED vars
  BY <1>1, <1>9 DEF Arrive, vars, Delivery
<1>10. QED
  BY <1>1, <1>2, <1>3, <1>4, <1>5, <1>6, <1>7, <1>8, <1>9 DEF Next

\* Until the ring is overrun the frames that applications pulled, and behind them those
\* still queued, are in the order in which their packets arrived: over stops, which drop
\* frames, and restarts, for every number of threads that pull.
THEOREM FramesKeepOrder == Spec => []DeliveryInOrder
<1>1. Init => DeliveryInv
  BY ConcatEmptySeq, EmptySeq DEF Init, DeliveryInv, Delivery, Increasing
<1>2. DeliveryInv => DeliveryInOrder
  BY DEF DeliveryInv, Delivery, DeliveryInOrder
<1>3. QED
  BY <1>1, <1>2, DeliveryNext, RingInvariant, PTL DEF Spec

-----------------------------------------------------------------------------
(* Refinement: every step of the flow is a step of PacketPipe or leaves it   *)
(* unchanged.                                                                *)

\* The reception flow implements the abstract pipe: recvfrom() puts, the
\* dispatch delivers, and overrunning the ring breaks the pipe.
THEOREM FlowImplementsPipe == Spec => PipeSpec
<1>1. Init => Pipe!Init
  BY DEF Init, Pipe!Init
<1>2. TypeOK /\ RingInv /\ [Next]_vars => [Pipe!Next]_(Pipe!pipeVars)
  <2> SUFFICES ASSUME TypeOK, RingInv, [Next]_vars
               PROVE  [Pipe!Next]_(Pipe!pipeVars)
    OBVIOUS
  <2>0. SUFFICES ASSUME ~overrun, ~overrun'
                 PROVE  Pipe!Put \/ Pipe!Deliver \/ UNCHANGED <<taken, handled>>
    <3>1. CASE overrun'
      BY <3>1 DEF Pipe!Next, Pipe!Overrun
    <3>2. CASE ~overrun'
      <4>1. ~overrun
        BY <3>2, OverrunLasts
      <4>2. overrun' = overrun
        BY <3>2, <4>1, TypeNext, Zenon DEF TypeOK
      <4>3. Pipe!Put \/ Pipe!Deliver \/ UNCHANGED <<taken, handled>>
        BY <2>0, <3>2, <4>1
      <4>4. QED
        BY <4>2, <4>3, Zenon DEF Pipe!Next, Pipe!pipeVars
    <3>3. QED
      BY <3>1, <3>2
  <2> USE DEF socketVars
  <2>1. CASE RecvPacket
    BY <2>0, <2>1 DEF RecvPacket, Pipe!Put
  <2>2. CASE ProcessorDispatch
    BY <2>0, <2>2, DispatchesNext DEF ProcessorDispatch, Pipe!Deliver
  <2>3. CASE Receiver /\ ~RecvPacket
    BY <2>3 DEF Receiver, ReceiverLoop, Poll, ReceiverInnerLoop, RecvStoreSize,
      RecvNothing, RecvError, RecvStoreFailure, RecvSizeIsZero, RecvFailed,
      RecvPublish, ReceiverNotify, ReceiverGoto
  <2>4. CASE (Processor \/ SpuriousWakeup) /\ ~ProcessorDispatch
    BY <2>4 DEF Processor, SpuriousWakeup, ProcessorLoop, ProcessorWait,
      ProcessorAwake, ProcessorNextSlot, ProcessorDrained, ProcessorSlot,
      ProcessorClear, ProcessorGoto
  <2>5. ASSUME NEW c \in Callers, StartBegin(c) \/ StopBegin(c) \/ CallerStep(c)
        PROVE  UNCHANGED <<taken, handled>>
    BY <2>5 DEF StartBegin, StopBegin, CallerStep, StartProcessor,
      StartReceiver, StartEnd, StopStep, StopNotify, StopJoinReceiver,
      StopJoinProcessor, StopClear, StopEnd
  <2>6. ASSUME NEW u \in Pullers, PullBegin(u) \/ PullStep(u)
        PROVE  UNCHANGED <<taken, handled>>
    BY <2>6 DEF PullBegin, PullStep, PullStopped, PullAwake, PullTake, PullGoto
  <2>7. CASE Arrive \/ UNCHANGED vars
    BY <2>7 DEF Arrive, vars
  <2>8. QED
    BY <2>1, <2>2, <2>3, <2>4, <2>5, <2>6, <2>7 DEF Next
<1>3. QED
  BY <1>1, <1>2, RingInvariant, PTL DEF Spec, PipeSpec, Pipe!Spec
=============================================================================
