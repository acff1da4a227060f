---------------------------- MODULE ReceptionFlow ----------------------------
(***************************************************************************)
(* uvgrtp::reception_flow: one receiver thread moves packets from a socket *)
(* to a ring buffer, one processor thread hands them to the packet         *)
(* handlers, the frames they make are queued until an application thread   *)
(* pulls them, and any application thread may start or stop the flow.      *)
(*                                                                         *)
(* One action is one step of one thread between two accesses to state that *)
(* another thread uses.  Locals that only mirror such state are dropped:   *)
(* next_write_index is always the slot after last_ring_write_index_, which *)
(* only the receiver writes.  wait_mtx_ is dropped too: the processor is   *)
(* the only thread that ever locks it, the notifiers do not.               *)
(*                                                                         *)
(* A packet is its arrival number; what its handlers do with it is         *)
(* abstracted to whether a frame comes out of it.                          *)
(***************************************************************************)
EXTENDS Integers, Sequences, FiniteSets

CONSTANTS
  Slots,       \* ring_buffer_.size()
  MaxPackets,  \* bound: how many packets the network ever delivers
  Callers,     \* application threads that start and stop the flow
  Pullers,     \* application threads that pull frames
  NoThread     \* value of a mutex nobody holds

ASSUME SlotsAssumption == Slots \in Nat \ {0}
ASSUME MaxPacketsAssumption == MaxPackets \in Nat
ASSUME NoThreadAssumption == NoThread \notin Callers

VARIABLES
  (* the ring buffer *)
  data,                    \* [slot -> packet last copied there, 0: none]
  read,                    \* [slot -> Buffer::read]
  ring_read_index_,
  last_ring_write_index_,
  (* flags and frame queue *)
  should_stop_,
  active_,
  active_mutex_,           \* the caller that holds it
  frames_,
  (* program counters: "off" is no thread, "done" one that returned but was
     not joined yet *)
  rpc,                     \* receiver thread
  ppc,                     \* processor thread
  cpc,                     \* [Callers -> where in start() or stop()]
  upc,                     \* [Pullers -> where in pull_frame()]
  (* the socket *)
  arrived,                 \* packets the network has put in the socket
  taken,                   \* packets recvfrom() has returned
  (* history *)
  handled,                 \* packets dispatched to the handlers, in order
  pulled,                  \* packets whose frames were pulled, in order
  overrun                  \* a packet was received over an unprocessed one

ringVars   == <<data, read, ring_read_index_, last_ring_write_index_>>
ctlVars    == <<should_stop_, active_, active_mutex_>>
socketVars == <<arrived, taken>>
vars == <<data, read, ring_read_index_, last_ring_write_index_, should_stop_,
          active_, active_mutex_, frames_, rpc, ppc, cpc, upc, arrived, taken,
          handled, pulled, overrun>>

Slot == 0 .. (Slots - 1)

next_buffer_location(current) == (current + 1) % Slots

next_write_index == next_buffer_location(last_ring_write_index_)

\* The slots published by the receiver that the processor has not reached.
Unread ==
  IF last_ring_write_index_ = ring_read_index_ THEN {}
  ELSE IF ring_read_index_ < last_ring_write_index_
       THEN (ring_read_index_ + 1) .. last_ring_write_index_
       ELSE Slot \ ((last_ring_write_index_ + 1) .. ring_read_index_)

\* The processor is between taking its slot and clearing it.
InSlot == ppc \in {"slot", "dispatch", "clear"}

\* A recvfrom() into slot s touches a packet that is not processed yet.
Touches(s) == s \in Unread \/ (s = ring_read_index_ /\ InSlot)

Init ==
  /\ data = [s \in Slot |-> 0]
  /\ read = [s \in Slot |-> 0]
  /\ ring_read_index_ = -1
  /\ last_ring_write_index_ = -1
  /\ should_stop_ = TRUE
  /\ active_ = FALSE
  /\ active_mutex_ = NoThread
  /\ frames_ = <<>>
  /\ rpc = "off"
  /\ ppc = "off"
  /\ cpc = [c \in Callers |-> "idle"]
  /\ upc = [u \in Pullers |-> "idle"]
  /\ arrived = 0
  /\ taken = 0
  /\ handled = <<>>
  /\ pulled = <<>>
  /\ overrun = FALSE

-----------------------------------------------------------------------------
(* The network: a datagram reaches the socket. *)

Arrive ==
  /\ arrived < MaxPackets
  /\ arrived' = arrived + 1
  /\ UNCHANGED <<ringVars, ctlVars, frames_, rpc, ppc, cpc, upc, taken,
                 handled, pulled, overrun>>

-----------------------------------------------------------------------------
(* reception_flow::receiver *)

\* Steps of the receiver that touch neither the ring nor the socket.
ReceiverGoto(from, to) ==
  /\ rpc = from
  /\ rpc' = to
  /\ UNCHANGED <<ringVars, ctlVars, frames_, ppc, cpc, upc, socketVars,
                 handled, pulled, overrun>>

ReceiverLoop ==
  \/ should_stop_ /\ ReceiverGoto("check", "done")
  \/ ~should_stop_ /\ ReceiverGoto("check", "poll")

\* poll() returns: with data, after poll_timeout_ms_ without, or -1 (EINTR).
Poll ==
  \/ taken < arrived /\ ReceiverGoto("poll", "inner")
  \/ taken = arrived /\ ReceiverGoto("poll", "check")
  \/ ReceiverGoto("poll", "done")

ReceiverInnerLoop ==
  \/ should_stop_ /\ ReceiverGoto("inner", "notify")
  \/ ~should_stop_ /\ ReceiverGoto("inner", "recv")

\* recvfrom() copies a datagram into the slot ...
RecvPacket ==
  /\ rpc = "recv"
  /\ taken < arrived
  /\ taken' = taken + 1
  /\ data' = [data EXCEPT ![next_write_index] = taken + 1]
  /\ overrun' = (overrun \/ Touches(next_write_index))
  /\ rpc' = "got"
  /\ UNCHANGED <<read, ring_read_index_, last_ring_write_index_, ctlVars,
                 frames_, ppc, cpc, upc, arrived, handled, pulled>>

\* ... and then stores its size in the slot.
RecvStoreSize ==
  /\ rpc = "got"
  /\ read' = [read EXCEPT ![next_write_index] = 1]
  /\ rpc' = "test"
  /\ UNCHANGED <<data, ring_read_index_, last_ring_write_index_, ctlVars,
                 frames_, ppc, cpc, upc, socketVars, handled, pulled, overrun>>

\* recvfrom() has nothing to return (0, RTP_INTERRUPTED) or fails (-1).
RecvStoreFailure(size, to) ==
  /\ rpc = "recv"
  /\ read' = [read EXCEPT ![next_write_index] = size]
  /\ overrun' = (overrun \/ Touches(next_write_index))
  /\ rpc' = to
  /\ UNCHANGED <<data, ring_read_index_, last_ring_write_index_, ctlVars,
                 frames_, ppc, cpc, upc, socketVars, handled, pulled>>

RecvNothing == taken = arrived /\ RecvStoreFailure(0, "notify")
RecvError   == RecvStoreFailure(-1, "failed")

\* The slot's size is read back: 0 ends the inner loop ...
RecvSizeIsZero ==
  /\ read[next_write_index] = 0
  /\ ReceiverGoto("test", "notify") \/ ReceiverGoto("failed", "notify")

\* ... otherwise a failure stops the flow ...
RecvFailed ==
  /\ rpc = "failed"
  /\ read[next_write_index] # 0
  /\ should_stop_' = TRUE
  /\ rpc' = "notify"
  /\ UNCHANGED <<ringVars, active_, active_mutex_, frames_, ppc, cpc, upc,
                 socketVars, handled, pulled, overrun>>

\* ... and a packet is published.  Writing up to the read position makes a
\* full ring look empty.
RecvPublish ==
  /\ rpc = "test"
  /\ read[next_write_index] # 0
  /\ last_ring_write_index_' = next_write_index
  /\ overrun' = (overrun \/ next_write_index = ring_read_index_)
  /\ rpc' = "inner"
  /\ UNCHANGED <<data, read, ring_read_index_, ctlVars, frames_, ppc, cpc,
                 upc, socketVars, handled, pulled>>

\* process_cond_.notify_*() wakes the processor only if it waits already.
Woken == IF ppc = "waiting" THEN "woken" ELSE ppc

ReceiverNotify ==
  /\ rpc = "notify"
  /\ rpc' = "check"
  /\ ppc' = Woken
  /\ UNCHANGED <<ringVars, ctlVars, frames_, cpc, upc, socketVars, handled,
                 pulled, overrun>>

Receiver ==
  \/ ReceiverLoop \/ Poll \/ ReceiverInnerLoop
  \/ RecvPacket \/ RecvStoreSize \/ RecvNothing \/ RecvError
  \/ RecvSizeIsZero \/ RecvFailed \/ RecvPublish \/ ReceiverNotify

-----------------------------------------------------------------------------
(* reception_flow::process_packet *)

ProcessorGoto(from, to) ==
  /\ ppc = from
  /\ ppc' = to
  /\ UNCHANGED <<ringVars, ctlVars, frames_, rpc, cpc, upc, socketVars,
                 handled, pulled, overrun>>

\* The outer loop tests the flag, and only later blocks in wait().
ProcessorLoop ==
  \/ should_stop_ /\ ProcessorGoto("check", "done")
  \/ ~should_stop_ /\ ProcessorGoto("check", "sleep")

ProcessorWait == ProcessorGoto("sleep", "waiting")

\* wait() has no predicate, so the standard allows it to return any time.
SpuriousWakeup == ProcessorGoto("waiting", "woken")

ProcessorAwake ==
  \/ should_stop_ /\ ProcessorGoto("woken", "done")
  \/ ~should_stop_ /\ ProcessorGoto("woken", "scan")

\* Mutant: the read position does not wrap around.
ProcessorNextSlotNoWrap ==
  /\ ppc = "scan"
  /\ ring_read_index_ # last_ring_write_index_
  /\ ring_read_index_' = ring_read_index_ + 1
  /\ ppc' = "slot"
  /\ UNCHANGED <<data, read, last_ring_write_index_, ctlVars, frames_, rpc,
                 cpc, upc, socketVars, handled, pulled, overrun>>

\* Mutant: a processor that is behind jumps to the newest packet.
ProcessorNextSlotNewest ==
  /\ ppc = "scan"
  /\ ring_read_index_ # last_ring_write_index_
  /\ ring_read_index_' = last_ring_write_index_
  /\ ppc' = "slot"
  /\ UNCHANGED <<data, read, last_ring_write_index_, ctlVars, frames_, rpc,
                 cpc, upc, socketVars, handled, pulled, overrun>>

ProcessorNextSlot ==
  /\ ppc = "scan"
  /\ ring_read_index_ # last_ring_write_index_
  /\ ring_read_index_' = next_buffer_location(ring_read_index_)
  /\ ppc' = "slot"
  /\ UNCHANGED <<data, read, last_ring_write_index_, ctlVars, frames_, rpc,
                 cpc, upc, socketVars, handled, pulled, overrun>>

ProcessorDrained ==
  /\ ring_read_index_ = last_ring_write_index_
  /\ ProcessorGoto("scan", "check")

\* Mutant: the size test is off by one.
ProcessorSlotOffByOne ==
  \/ ProcessorGoto("slot", "dispatch") /\ read[ring_read_index_] > 1
  \/ ProcessorGoto("slot", "scan") /\ read[ring_read_index_] <= 1

ProcessorSlot ==
  \/ ProcessorGoto("slot", "dispatch") /\ read[ring_read_index_] > 0
  \/ ProcessorGoto("slot", "scan") /\ read[ring_read_index_] <= 0

\* The handlers run; a frame may come out and is queued by return_frame().
ProcessorDispatch ==
  /\ ppc = "dispatch"
  /\ LET packet == data[ring_read_index_]
     IN  /\ handled' = Append(handled, packet)
         /\ frames_' \in {frames_, Append(frames_, packet)}
  /\ ppc' = "clear"
  /\ UNCHANGED <<ringVars, ctlVars, rpc, cpc, upc, socketVars, pulled,
                 overrun>>

\* Mutant: one packet per wakeup ("if" for "while").
ProcessorClearOnce ==
  /\ ppc = "clear"
  /\ read' = [read EXCEPT ![ring_read_index_] = 0]
  /\ ppc' = "check"
  /\ UNCHANGED <<data, ring_read_index_, last_ring_write_index_, ctlVars,
                 frames_, rpc, cpc, upc, socketVars, handled, pulled, overrun>>

ProcessorClear ==
  /\ ppc = "clear"
  /\ read' = [read EXCEPT ![ring_read_index_] = 0]
  /\ ppc' = "scan"
  /\ UNCHANGED <<data, ring_read_index_, last_ring_write_index_, ctlVars,
                 frames_, rpc, cpc, upc, socketVars, handled, pulled, overrun>>

Processor ==
  \/ ProcessorLoop \/ ProcessorWait \/ ProcessorAwake \/ ProcessorNextSlot
  \/ ProcessorDrained \/ ProcessorSlot \/ ProcessorDispatch \/ ProcessorClear

-----------------------------------------------------------------------------
(* reception_flow::start and reception_flow::stop.  A call that finds      *)
(* active_ set (start) or clear (stop) returns at once and is no step.     *)

CallerGoto(c, from, to) ==
  /\ cpc[c] = from
  /\ cpc' = [cpc EXCEPT ![c] = to]

StartBegin(c) ==
  /\ CallerGoto(c, "idle", "spawnProcessor")
  /\ active_mutex_ = NoThread
  /\ ~active_
  /\ active_mutex_' = c
  /\ should_stop_' = FALSE
  /\ UNCHANGED <<ringVars, active_, frames_, rpc, ppc, upc, socketVars,
                 handled, pulled, overrun>>

StartProcessor(c) ==
  /\ CallerGoto(c, "spawnProcessor", "spawnReceiver")
  /\ ppc' = "check"
  /\ UNCHANGED <<ringVars, ctlVars, frames_, rpc, upc, socketVars, handled,
                 pulled, overrun>>

StartReceiver(c) ==
  /\ CallerGoto(c, "spawnReceiver", "activate")
  /\ rpc' = "check"
  /\ UNCHANGED <<ringVars, ctlVars, frames_, ppc, upc, socketVars, handled,
                 pulled, overrun>>

StartEnd(c) ==
  /\ CallerGoto(c, "activate", "idle")
  /\ active_' = TRUE
  /\ active_mutex_' = NoThread
  /\ UNCHANGED <<ringVars, should_stop_, frames_, rpc, ppc, upc, socketVars,
                 handled, pulled, overrun>>

StopBegin(c) ==
  /\ CallerGoto(c, "idle", "notify")
  /\ active_mutex_ = NoThread
  /\ active_
  /\ active_mutex_' = c
  /\ should_stop_' = TRUE
  /\ UNCHANGED <<ringVars, active_, frames_, rpc, ppc, upc, socketVars,
                 handled, pulled, overrun>>

\* Mutant: stop() forgets to notify.
StopNotifyNobody(c) ==
  /\ CallerGoto(c, "notify", "joinReceiver")
  /\ UNCHANGED <<ringVars, ctlVars, frames_, rpc, ppc, upc, socketVars, handled,
                 pulled, overrun>>

\* Mutant: stop() forgets to join the receiver.
StopNotifyNoJoin(c) ==
  /\ CallerGoto(c, "notify", "joinProcessor")
  /\ ppc' = Woken
  /\ UNCHANGED <<ringVars, ctlVars, frames_, rpc, upc, socketVars, handled,
                 pulled, overrun>>

StopNotify(c) ==
  /\ CallerGoto(c, "notify", "joinReceiver")
  /\ ppc' = Woken
  /\ UNCHANGED <<ringVars, ctlVars, frames_, rpc, upc, socketVars, handled,
                 pulled, overrun>>

StopJoinReceiver(c) ==
  /\ CallerGoto(c, "joinReceiver", "joinProcessor")
  /\ rpc = "done"
  /\ rpc' = "off"
  /\ UNCHANGED <<ringVars, ctlVars, frames_, ppc, upc, socketVars, handled,
                 pulled, overrun>>

StopJoinProcessor(c) ==
  /\ CallerGoto(c, "joinProcessor", "clearFrames")
  /\ ppc = "done"
  /\ ppc' = "off"
  /\ UNCHANGED <<ringVars, ctlVars, frames_, rpc, upc, socketVars, handled,
                 pulled, overrun>>

\* clear_frames()
StopClear(c) ==
  /\ CallerGoto(c, "clearFrames", "deactivate")
  /\ frames_' = <<>>
  /\ UNCHANGED <<ringVars, ctlVars, rpc, ppc, upc, socketVars, handled,
                 pulled, overrun>>

StopEnd(c) ==
  /\ CallerGoto(c, "deactivate", "idle")
  /\ active_' = FALSE
  /\ active_mutex_' = NoThread
  /\ UNCHANGED <<ringVars, should_stop_, frames_, rpc, ppc, upc, socketVars,
                 handled, pulled, overrun>>

StopStep(c) ==
  \/ StopNotify(c) \/ StopJoinReceiver(c) \/ StopJoinProcessor(c)
  \/ StopClear(c) \/ StopEnd(c)

CallerStep(c) ==
  StartProcessor(c) \/ StartReceiver(c) \/ StartEnd(c) \/ StopStep(c)

-----------------------------------------------------------------------------
(* reception_flow::pull_frame, the variant without timeout and SSRC.       *)

PullGoto(u, from, to) ==
  /\ upc[u] = from
  /\ upc' = [upc EXCEPT ![u] = to]
  /\ UNCHANGED <<ringVars, ctlVars, rpc, ppc, cpc, socketVars, handled,
                 overrun>>

PullBegin(u) == PullGoto(u, "idle", "wait") /\ UNCHANGED <<frames_, pulled>>

\* The sleeping loop ends; a set flag makes the call return nullptr.
PullStopped(u) ==
  /\ should_stop_
  /\ PullGoto(u, "wait", "idle")
  /\ UNCHANGED <<frames_, pulled>>

PullAwake(u) ==
  /\ frames_ # <<>>
  /\ ~should_stop_
  /\ PullGoto(u, "wait", "take")
  /\ UNCHANGED <<frames_, pulled>>

\* Mutant: the newest frame is taken.
PullTakeNewest(u) ==
  /\ PullGoto(u, "take", "idle")
  /\ IF frames_ = <<>>
     THEN UNCHANGED <<frames_, pulled>>
     ELSE /\ pulled' = Append(pulled, frames_[Len(frames_)])
          /\ frames_' = SubSeq(frames_, 1, Len(frames_) - 1)

\* Under frames_mtx_ the queue may be empty again: nullptr is returned.
PullTake(u) ==
  /\ PullGoto(u, "take", "idle")
  /\ IF frames_ = <<>>
     THEN UNCHANGED <<frames_, pulled>>
     ELSE /\ pulled' = Append(pulled, Head(frames_))
          /\ frames_' = Tail(frames_)

PullStep(u) == PullStopped(u) \/ PullAwake(u) \/ PullTake(u)

-----------------------------------------------------------------------------
Next ==
  \/ Arrive
  \/ Receiver
  \/ Processor
  \/ SpuriousWakeup
  \/ \E c \in Callers : StartBegin(c) \/ StopBegin(c) \/ CallerStep(c)
  \/ \E u \in Pullers : PullBegin(u) \/ PullStep(u)

Spec == Init /\ [][Next]_vars

(* The operating system runs every thread that can run.  Nothing makes the *)
(* network deliver, the application call, or wait() return spuriously.     *)
Fairness ==
  /\ WF_vars(Receiver)
  /\ WF_vars(Processor)
  /\ \A c \in Callers : WF_vars(CallerStep(c))
  /\ \A u \in Pullers : WF_vars(PullStep(u))

FairSpec == Spec /\ Fairness

-----------------------------------------------------------------------------
(* Properties *)

TypeOK ==
  /\ data \in [Slot -> Nat]
  /\ read \in [Slot -> {-1, 0, 1}]
  /\ ring_read_index_ \in Slot \cup {-1}
  /\ last_ring_write_index_ \in Slot \cup {-1}
  /\ should_stop_ \in BOOLEAN
  /\ active_ \in BOOLEAN
  /\ active_mutex_ \in Callers \cup {NoThread}
  /\ frames_ \in Seq(Nat)
  /\ rpc \in {"off", "check", "poll", "inner", "recv", "got", "test",
              "failed", "notify", "done"}
  /\ ppc \in {"off", "check", "sleep", "waiting", "woken", "scan", "slot",
              "dispatch", "clear", "done"}
  /\ cpc \in [Callers -> {"idle", "spawnProcessor", "spawnReceiver",
                          "activate", "notify", "joinReceiver",
                          "joinProcessor", "clearFrames", "deactivate"}]
  /\ upc \in [Pullers -> {"idle", "wait", "take"}]
  /\ arrived \in Nat
  /\ taken \in Nat
  /\ handled \in Seq(Nat)
  /\ pulled \in Seq(Nat)
  /\ overrun \in BOOLEAN
  /\ InSlot => ring_read_index_ \in Slot

\* A flow that is not active and that nobody is starting or stopping has no
\* thread (not even an unjoined one, whose std::thread the next start() would
\* destroy) and holds no frame: destroying it is safe, as stop() promises.
StopQuiesces ==
  active_mutex_ = NoThread /\ ~active_ =>
    rpc = "off" /\ ppc = "off" /\ frames_ = <<>>

\* Packets between recvfrom() and the handlers.
BeingReceived  == IF rpc \in {"got", "test"} THEN 1 ELSE 0
BeingProcessed == IF ppc \in {"slot", "dispatch"} THEN 1 ELSE 0

\* As long as the ring was not overrun every packet taken from the socket is
\* accounted for: handled, in the processor's hands, unread in the ring, or in
\* the receiver's hands; whatever starts, stops, restarts and failures of the
\* threads happened meanwhile.
NothingLost ==
  ~overrun =>
    taken = Len(handled) + BeingProcessed + Cardinality(Unread) + BeingReceived

\* The i-th packet taken from the socket is the i-th one handled.
HandledInOrder ==
  ~overrun => \A i \in 1 .. Len(handled) : handled[i] = i

Increasing(s) == \A i, j \in 1 .. Len(s) : i < j => s[i] < s[j]

\* End to end: the frames applications pulled, followed by those still queued,
\* are in the order their packets arrived, across stops and restarts.
DeliveryInOrder == ~overrun => Increasing(pulled \o frames_)

\* The flow implements the pipe of PacketPipe.
Pipe == INSTANCE PacketPipe WITH
  taken <- taken, handled <- handled, overrun <- overrun
PipeSpec == Pipe!Spec

\* A stop() that does not hit the processor between its test of should_stop_
\* and its wait() completes; and a blocked pull_frame() returns once the flow is
\* stopped, unless the flow is started again before the caller looks.
StopCompletes ==
  /\ \A c \in Callers :
       cpc[c] = "notify" /\ ppc # "sleep" ~> cpc[c] = "idle"
  /\ \A u \in Pullers :
       should_stop_ /\ upc[u] = "wait" ~> upc[u] = "idle" \/ ~should_stop_

\* A processor that woke up to work empties the ring or is overrun.
AwakeProcessorDrains ==
  ppc = "scan" ~> Unread = {} \/ overrun

\* reception_flow.hh says stop() waits until the receive loop is exited: a
\* stop() returns.
StopReturns == \A c \in Callers : cpc[c] = "notify" ~> cpc[c] = "idle"
=============================================================================
