----------------------------- MODULE RtcpSession -----------------------------
(***************************************************************************)
(* The rtcp object of a media stream and the four threads that work on it: *)
(* the processor of the reception flow (each RTP packet), the RTCP reader  *)
(* (each compound packet), the runner (reports and timeouts) and the       *)
(* application (getters, APP packets, stop()).  A step is what a thread    *)
(* does between two acquisitions of a mutex; lock says who holds one       *)
(* while it waits for another.                                             *)
(***************************************************************************)
EXTENDS RtcpPackets

CONSTANTS Peers, Us,        \* SSRCs; 0 is no SSRC
          RtpSeqMod,        \* RTP_SEQ_MOD
          MaxDropout, MaxMisorder,
          MaxParticipants,  \* MAX_SUPPORTED_PARTICIPANTS
          TimeoutTicks,     \* reporting intervals in the timeout of a source
          Scenarios         \* what the peers and the application may do, and how often

ASSUME ConstantsAssumption ==
    /\ Us \in Nat \ {0} /\ Peers \subseteq Nat \ {0, Us}
    /\ RtpSeqMod \in Nat /\ MaxDropout \in Nat /\ MaxMisorder \in Nat
    /\ MaxDropout + MaxMisorder < RtpSeqMod
    /\ MaxParticipants \in Nat \ {0} /\ TimeoutTicks \in Nat

VARIABLES
    participants,   \* participants_: the statistics of a source and the packets held of it
    initials,       \* size of initial_participants_
    members, receivers,         \* members_, num_receivers_
    ms,             \* ms_since_last_rep_, in reporting intervals
    our,            \* our_role_ and our_stats.sent_rtp_packet
    queue,          \* ourItems_, bye_ssrcs_, app_packets_ and the outgoing APP hooks
    hooks,          \* kinds of packets with a hook
    active, mapped, \* active_; is the object in the map of the reader?
    lock,           \* who holds a mutex
    pc, arg,        \* where a thread is, and what it works on
    draft,          \* the report under construction, guarded by packet_mutex_
    wire,           \* the last compound packet sent, as a peer reads it
    crash,          \* the null participant that a thread dereferenced
    gone,           \* SSRCs that others removed since the thread looked them up
    strays,         \* unknown SSRCs whose silence the reader counts and does not add
    owed,           \* sources counted since the blocks of the last report were made
    source,         \* the packets of a source, in truth
    scenario, budget

table   == <<participants, initials, members, receivers, ms>>
local   == <<our, queue, hooks, active, mapped>>
control == <<lock, pc, arg, draft>>
truth   == <<crash, gone, strays, owed, source, scenario>>
vars    == <<table, local, control, wire, truth, budget>>

Threads == {"processor", "reader", "runner", "app"}
Nobody  == "nobody"
Kinds   == {SR, RR, SDES, APP}
MutexOf == [k \in Kinds |-> CASE k = SR -> "sr" [] k = RR -> "rr"
                            [] k = SDES -> "sdes" [] k = APP -> "appm"]
Mutexes == {"packet", "participants", "sr", "rr", "sdes", "appm"}
Nothing == [s |-> 0]
NoCrash == [thread |-> Nobody, ssrc |-> 0]
NoDraft == [sr |-> FALSE, kind |-> 0, w |-> Writer(0), owed |-> {}, hooked |-> FALSE, apps |-> <<>>]

Unheard == [first |-> -1, highest |-> -1, seen |-> {}, resynced |-> FALSE]

MIN_SEQUENTIAL == 2

\* What the reader can make of a compound packet: reports of a source, a BYE, and what
\* it refuses.
Ssrcs    == Peers \cup {0, Us}
Frames   == UNION {s.frames : s \in Scenarios}
Read     == UNION {ToSet(read_compound(f)) : f \in Frames}
Readable == {p \in Read : p.type \in Kinds /\ (p.type # SDES => p.ssrc \in Ssrcs)}
            \cup [type : {BYE}, ssrcs : Seq(Ssrcs)] \cup {Partial, Invalid}

Octet == 0 .. 255
Item  == [type : Octet, length : Octet]

\* From one packet of a source to the next its number changes by less than a cycle, and
\* back by less than the difference to MaxDropout.
ASSUME ScenariosAssumption ==
    \A s \in Scenarios :
        /\ s.started \in BOOLEAN /\ s.srtp \in BOOLEAN /\ s.budget \in [DOMAIN s.budget -> Nat]
        /\ s.senders \subseteq Peers /\ s.starts \subseteq Nat /\ s.hooks \subseteq Kinds
        /\ s.steps \subseteq MaxDropout - RtpSeqMod .. RtpSeqMod - 1
        /\ s.appLengths \subseteq Nat /\ s.items \subseteq Seq(Item)
        /\ \A f \in s.frames : /\ read_sender(f) \in Ssrcs
                               /\ read_compound(f) \in Seq(Readable)

\* A participant with its statistics zeroed and no packets held.
NewParticipant ==
    [max |-> 0, base |-> 0, bad |-> 0, cycles |-> 0, probation |-> 0, received |-> 0,
     lost |-> 0, heard |-> FALSE, priorExpected |-> 0, priorReceived |-> 0, lsr |-> FALSE,
     held |-> {}]

Init ==
    /\ participants = << >> /\ initials = 0 /\ members = 1 /\ receivers = 0 /\ ms = << >>
    /\ our = [role |-> "RECEIVER", sent |-> FALSE]
    /\ queue = [items |-> <<[type |-> CNAME, length |-> 3]>>, byes |-> <<>>, apps |-> <<>>,
                hooked |-> FALSE, appHooks |-> <<>>]
    /\ lock = [m \in Mutexes |-> Nobody]
    /\ arg = [t \in Threads |-> Nothing]
    /\ draft = NoDraft
    /\ wire = [packets |-> <<>>, owed |-> {}, switched |-> FALSE]
    /\ crash = NoCrash /\ gone = [t \in Threads |-> {}] /\ strays = {} /\ owed = {}
    /\ source = [s \in Peers |-> Unheard]
    /\ scenario \in Scenarios /\ budget = scenario.budget
    /\ hooks = {} /\ active = scenario.started /\ mapped = scenario.started
    /\ pc = [t \in Threads |-> IF t # "runner" THEN "idle"
                              ELSE IF active THEN "sleep" ELSE "done"]

-----------------------------------------------------------------------------
(* Threads, mutexes and the table of participants.                         *)

Free(m) == lock[m] = Nobody
Lock(m, t) == Free(m) /\ lock' = [lock EXCEPT ![m] = t]
Unlock(m) == lock' = [lock EXCEPT ![m] = Nobody]
Goto(t, label) == pc' = [pc EXCEPT ![t] = label]
Spend(what) == budget[what] > 0 /\ budget' = [budget EXCEPT ![what] = @ - 1]

Known(s) == s \in DOMAIN participants
Erase(f, s) == [x \in DOMAIN f \ {s} |-> f[x]]
With(f, s, v) == [x \in DOMAIN f \cup {s} |-> IF x = s THEN v ELSE f[x]]

\* t looks s up: from here on a removal by another thread escapes it.
Looked(t, s) == gone' = [gone EXCEPT ![t] = @ \ {s}]
RemovedBy(t, s) == gone' = [u \in Threads |-> IF u = t THEN gone[u] ELSE gone[u] \cup {s}]

Dereference(t, s) ==      \* participants_[s]-> when there is no s
    /\ ~Known(s)
    /\ crash' = [thread |-> t, ssrc |-> s]
    /\ UNCHANGED <<table, local, control, wire, gone, strays, owed, source, scenario, budget>>

\* What was counted of s is gone with its participant.
Forget(s) ==
    /\ owed' = owed \ {s} /\ strays' = strays \ {s}
    /\ source' = [source EXCEPT ![s] = Unheard]

\* add_participant(): takes one of the i initial participants if there is one.
\* The table is full for good once MaxParticipants have joined.  When the processor
\* and the reader both missed s before, the second replaces what the first added.
Addable == receivers < MaxParticipants
add_participant(s, i) ==
    IF Addable
    THEN /\ participants' = With(participants, s, NewParticipant)
         /\ initials' = IF i = 0 THEN 0 ELSE i - 1
         /\ receivers' = receivers + 1
         /\ Forget(s)
    ELSE initials' = i /\ UNCHANGED <<participants, receivers, strays, owed, source>>

\* free_participant() and erase().
RemoveSource(t, s) ==
    /\ participants' = Erase(participants, s)
    /\ ms' = Erase(ms, s)
    /\ RemovedBy(t, s)
    /\ Forget(s)

MemberLeaves == members' = IF members >= 1 THEN members - 1 ELSE members

-----------------------------------------------------------------------------
(* The processor: recv_packet_handler_common() for RTP packet n of s.      *)

Number(n) == n % RtpSeqMod

InitSeq(p, seq) == [p EXCEPT !.base = seq, !.max = seq, !.bad = RtpSeqMod + 1]

\* The source must send consecutive packets; seq is compared with an int.
OnProbation(p, seq) ==
    IF seq # p.max + 1
    THEN [p |-> [p EXCEPT !.probation = MIN_SEQUENTIAL - 1, !.max = seq], verdict |-> "not_ready"]
    ELSE IF p.probation > 1
    THEN [p |-> [p EXCEPT !.probation = @ - 1, !.max = seq], verdict |-> "not_ready"]
    ELSE [p |-> InitSeq([p EXCEPT !.probation = 0], seq), verdict |-> "valid"]

\* Mutant: a wrap of the sequence number is not counted.
InOrderNoCycles(p, seq) == [p EXCEPT !.max = seq]

InOrder(p, seq) ==
    [p EXCEPT !.cycles = IF seq < p.max THEN @ + 1 ELSE @, !.max = seq]

Jumped(p, seq) ==
    IF seq = p.bad
    THEN [p |-> InitSeq(p, seq), verdict |-> "resync"]
    ELSE [p |-> [p EXCEPT !.bad = (seq + 1) % RtpSeqMod], verdict |-> "error"]

update_participant_seq(p, seq) ==
    LET udelta == (seq - p.max) % RtpSeqMod
    IN  IF p.probation > 0 THEN OnProbation(p, seq)
        ELSE IF udelta < MaxDropout THEN [p |-> InOrder(p, seq), verdict |-> "in_order"]
        ELSE IF udelta <= RtpSeqMod - MaxMisorder THEN Jumped(p, seq)
        ELSE [p |-> p, verdict |-> "late"]

Expected(p) == p.cycles * RtpSeqMod + p.max - p.base + 1

update_session_statistics(p) ==
    LET dropped == Expected(p) - (p.received + 1)
    IN  [p EXCEPT !.heard = TRUE, !.received = @ + 1,
                  !.lost = IF dropped >= 0 THEN dropped ELSE 0]

Change(s, p) == participants' = [participants EXCEPT ![s] = p]

RtpPacket(s, n) ==
    /\ pc["processor"] = "idle" /\ pc["app"] # "done" /\ Free("participants")
    /\ Spend("rtp")
    /\ arg' = [arg EXCEPT !["processor"] = [s |-> s, n |-> n]]
    /\ Looked("processor", s)
    /\ Goto("processor", IF Known(s) THEN "update" ELSE "new")
    /\ UNCHANGED <<table, local, lock, draft, wire, crash, strays, owed, source, scenario>>

\* The packet is returned as not handled, or not, which is the end of it here.
Processed == Goto("processor", "idle") /\ arg' = [arg EXCEPT !["processor"] = Nothing]

init_new_participant ==
    LET s == arg["processor"].s IN
    /\ pc["processor"] = "new" /\ Free("participants")
    /\ members' = members + 1
    /\ ms' = With(ms, s, 0)
    /\ add_participant(s, initials + 1)
    /\ IF Addable THEN Goto("processor", "seq") /\ UNCHANGED arg ELSE Processed
    /\ UNCHANGED <<local, lock, draft, wire, crash, gone, scenario, budget>>

init_participant_seq ==
    LET s == arg["processor"].s  n == arg["processor"].n IN
    /\ pc["processor"] = "seq" /\ Free("participants")
    /\ IF Known(s)
       THEN /\ Change(s, InitSeq(participants[s], Number(n)))
            /\ source' = [source EXCEPT ![s] = [Unheard EXCEPT !.first = n, !.highest = n]]
            /\ Goto("processor", "probation") /\ UNCHANGED arg
       ELSE Processed /\ UNCHANGED <<participants, source>>
    /\ UNCHANGED <<initials, members, receivers, ms, local, lock, draft, wire, crash, gone,
                   strays, owed, scenario, budget>>

Probation ==
    LET s == arg["processor"].s IN
    /\ pc["processor"] = "probation" /\ Free("participants")
    /\ \/ Dereference("processor", s)
       \/ /\ Known(s)
          /\ Change(s, [participants[s] EXCEPT !.probation = MIN_SEQUENTIAL])
          /\ Goto("processor", "statistics")
          /\ UNCHANGED <<initials, members, receivers, ms, local, lock, arg, draft, wire,
                         truth, budget>>

\* What the truth about a source becomes when the verdict on packet n is v.
Witness(o, n, v) ==
    CASE v \in {"in_order", "not_ready"} -> [o EXCEPT !.highest = n]
      [] v = "valid"  -> [o EXCEPT !.first = n, !.highest = n, !.seen = {}]
      [] v = "resync" -> [o EXCEPT !.first = n, !.highest = n, !.seen = {}, !.resynced = TRUE]
      [] OTHER -> o

UpdateSeq ==
    LET s == arg["processor"].s  n == arg["processor"].n IN
    /\ pc["processor"] = "update" /\ Free("participants")
    /\ IF Known(s)
       THEN LET u == update_participant_seq(participants[s], Number(n)) IN
            /\ Change(s, u.p)
            /\ source' = [source EXCEPT ![s] = Witness(@, n, u.verdict)]
            /\ IF u.verdict \in {"not_ready", "error"} THEN Processed
               ELSE Goto("processor", "statistics") /\ UNCHANGED arg
       ELSE Processed /\ UNCHANGED <<participants, source>>
    /\ UNCHANGED <<initials, members, receivers, ms, local, lock, draft, wire, crash, gone,
                   strays, owed, scenario, budget>>

Statistics ==
    LET s == arg["processor"].s  n == arg["processor"].n IN
    /\ pc["processor"] = "statistics" /\ Free("participants")
    /\ IF Known(s)
       THEN /\ Change(s, update_session_statistics(participants[s]))
            /\ source' = [source EXCEPT ![s].seen = @ \cup {n}]
            /\ owed' = owed \cup {s}
       ELSE UNCHANGED <<participants, source, owed>>
    /\ Processed
    /\ UNCHANGED <<initials, members, receivers, ms, local, lock, draft, wire, crash, gone,
                   strays, scenario, budget>>

-----------------------------------------------------------------------------
(* The reader: handle_incoming_packet().                                   *)

Receive(frame) ==
    /\ pc["reader"] = "idle" /\ mapped /\ Spend("rtcp")
    /\ arg' = [arg EXCEPT !["reader"] =
                  [s |-> read_sender(frame), rest |-> read_compound(frame)]]
    /\ Goto("reader", "next")
    /\ UNCHANGED <<table, local, lock, draft, wire, truth>>

Packet == Head(arg["reader"].rest)
Sender == arg["reader"].s
Subject == IF Packet.type = SDES THEN Sender ELSE Packet.ssrc

Return == Goto("reader", "idle") /\ arg' = [arg EXCEPT !["reader"] = Nothing]
Advance == /\ Goto("reader", "next")
           /\ arg' = [arg EXCEPT !["reader"].rest = Tail(@)]
AfterLookup == IF Packet.type = SR THEN "stats" ELSE "deliver"

\* The silence of the sender is counted before any look at the participants.
CountSilence(found) ==
    /\ ms' = With(ms, Sender, 0)
    /\ strays' = IF found THEN strays ELSE strays \cup {Sender}

EndOfCompound ==
    /\ pc["reader"] = "next"
    /\ \/ arg["reader"].rest = <<>> /\ UNCHANGED <<ms, strays>>
       \/ arg["reader"].rest # <<>> /\ Packet = Partial /\ UNCHANGED <<ms, strays>>
       \/ arg["reader"].rest # <<>> /\ Packet = Invalid /\ CountSilence(Known(Sender))
    /\ Return
    /\ UNCHANGED <<participants, initials, members, receivers, local, lock, draft, wire,
                   crash, gone, owed, source, scenario, budget>>

NextPacket ==
    /\ pc["reader"] = "next" /\ arg["reader"].rest # <<>> /\ Packet.type >= SR
    /\ CountSilence(Known(Sender) \/ (Packet.type # BYE /\ Subject = Sender))
    /\ IF Packet.type = BYE THEN Goto("reader", "bye") /\ UNCHANGED gone
       ELSE /\ Free("participants")
            /\ Looked("reader", Subject)
            /\ Goto("reader", IF Known(Subject) THEN AfterLookup ELSE "add")
    /\ UNCHANGED <<participants, initials, members, receivers, local, lock, arg, draft, wire,
                   crash, owed, source, scenario, budget>>

\* Only a receiver report adds an initial participant, and so a member.
AddUnknown ==
    /\ pc["reader"] = "add" /\ Free("participants")
    /\ members' = IF Packet.type = RR THEN members + 1 ELSE members
    /\ add_participant(Subject, IF Packet.type = RR THEN initials + 1 ELSE initials)
    /\ Goto("reader", AfterLookup)
    /\ UNCHANGED <<ms, local, lock, arg, draft, wire, crash, gone, scenario, budget>>

SenderReport ==
    /\ pc["reader"] = "stats" /\ Free("participants")
    /\ \/ Dereference("reader", Subject)
       \/ /\ Known(Subject)
          /\ Change(Subject, [participants[Subject] EXCEPT !.lsr = TRUE])
          /\ Goto("reader", "deliver")
          /\ UNCHANGED <<initials, members, receivers, ms, local, lock, arg, draft, wire,
                         truth, budget>>

CallHook ==
    /\ pc["reader"] = "deliver" /\ Packet.type \in hooks /\ Free(MutexOf[Packet.type])
    /\ Advance
    /\ UNCHANGED <<table, local, lock, draft, wire, truth, budget>>

\* Without a hook the handler goes on to participants_mutex_ with its mutex held.
HoldReport ==
    /\ pc["reader"] = "deliver" /\ Packet.type \notin hooks
    /\ Lock(MutexOf[Packet.type], "reader")
    /\ Goto("reader", "store")
    /\ UNCHANGED <<table, local, arg, draft, wire, truth, budget>>

StoreReport ==
    /\ pc["reader"] = "store" /\ Free("participants")
    /\ \/ Dereference("reader", Subject)
       \/ /\ Known(Subject)
          /\ Change(Subject, [participants[Subject] EXCEPT !.held = @ \cup {Packet.type}])
          /\ Unlock(MutexOf[Packet.type])
          /\ Advance
          /\ UNCHANGED <<initials, members, receivers, ms, local, draft, wire, truth, budget>>

\* Mutant: the sources of a BYE packet are not looked up.
LookUpByeBlind ==
    /\ pc["reader"] = "bye" /\ Packet.ssrcs # <<>> /\ Free("participants")
    /\ Looked("reader", Head(Packet.ssrcs))
    /\ Goto("reader", "erase")
    /\ UNCHANGED <<table, local, lock, arg, draft, wire, crash, strays, owed, source, scenario, budget>>

LookUpBye ==
    /\ pc["reader"] = "bye" /\ Packet.ssrcs # <<>> /\ Free("participants")
    /\ LET s == Head(Packet.ssrcs) IN
       /\ Looked("reader", s)
       /\ IF Known(s) THEN Goto("reader", "erase") /\ UNCHANGED arg
          ELSE /\ arg' = [arg EXCEPT !["reader"].rest[1].ssrcs = Tail(@)]
               /\ UNCHANGED pc
    /\ UNCHANGED <<table, local, lock, draft, wire, crash, strays, owed, source, scenario, budget>>

EraseBye ==
    LET s == Head(Packet.ssrcs) IN
    /\ pc["reader"] = "erase" /\ Free("participants")
    /\ \/ Dereference("reader", s)
       \/ /\ Known(s)
          /\ RemoveSource("reader", s)
          /\ Goto("reader", "bye")
          /\ arg' = [arg EXCEPT !["reader"].rest[1].ssrcs = Tail(@)]
          /\ UNCHANGED <<initials, members, receivers, local, lock, draft, wire, crash,
                         scenario, budget>>

\* A BYE packet takes one member away, however many sources it names.
EndOfBye ==
    /\ pc["reader"] = "bye" /\ Packet.ssrcs = <<>>
    /\ MemberLeaves
    /\ Advance
    /\ UNCHANGED <<participants, initials, receivers, ms, local, lock, draft, wire, truth, budget>>

-----------------------------------------------------------------------------
(* generate_report(), by the runner or by stop().                          *)

AfterReport(t) == IF t = "runner" THEN "timeouts" ELSE "stopping"

\* No report is made when there is no participant, a look without the mutex.
NoParticipants(t) ==
    /\ pc[t] = "report" /\ participants = << >>
    /\ Goto(t, AfterReport(t))
    /\ UNCHANGED <<table, local, lock, arg, draft, wire, truth, budget>>

\* Mutant: the report takes the mutex of the participants first, and twice.
SenderRoleTwice(t) ==
    /\ pc[t] = "report" /\ participants # << >>
    /\ Lock("participants", t)
    /\ draft' = [draft EXCEPT !.sr = our.role = "SENDER" /\ our.sent]
    /\ Goto(t, "role")
    /\ UNCHANGED <<table, local, arg, wire, truth, budget>>

\* Whether to send an SR or an RR is decided in two looks at the statistics of
\* the sender, which another thread updates without a mutex.
SenderRole(t) ==
    /\ pc[t] = "report" /\ participants # << >>
    /\ Lock("packet", t)
    /\ draft' = [draft EXCEPT !.sr = our.role = "SENDER" /\ our.sent]
    /\ Goto(t, "role")
    /\ UNCHANGED <<table, local, arg, wire, truth, budget>>

ReceiverRole(t) ==
    /\ pc[t] = "role"
    /\ draft' = [draft EXCEPT !.kind = IF draft.sr THEN SR
                    ELSE IF our.role = "RECEIVER" \/ ~our.sent THEN RR ELSE 0]
    /\ Goto(t, "blocks")
    /\ UNCHANGED <<table, local, lock, arg, wire, truth, budget>>

\* The members of a set of numbers in ascending order, and those of s at the places I.
Sorted(S) == CHOOSE s \in [1 .. Cardinality(S) -> S] :
                \A i \in 1 .. Cardinality(S) - 1 : s[i] < s[i + 1]
Chosen(s, I) == LET at == Sorted(I) IN [i \in DOMAIN at |-> s[at[i]]]

Heard == Sorted({s \in DOMAIN participants : participants[s].heard})

fraction(p) ==
    LET interval == Expected(p) - p.priorExpected
        lost     == interval - (p.received - p.priorReceived)
        f        == (lost * 256) \div interval
    IN  IF interval <= 0 \/ lost <= 0 THEN 0 ELSE IF f > 255 THEN 255 ELSE f

ReportBlock(s) ==
    LET p == participants[s]
    IN  [ssrc |-> s, fraction |-> fraction(p), lost |-> p.lost, cycles |-> p.cycles,
         last_seq |-> p.max, lsr |-> p.lsr]

\* Mutant: a source once heard is reported for ever.
ReportedAgain(p) == [p EXCEPT !.priorExpected = Expected(p), !.priorReceived = p.received]

Reported(p) ==
    IF p.heard THEN [p EXCEPT !.heard = FALSE, !.priorExpected = Expected(p),
                              !.priorReceived = p.received]
    ELSE p

\* With hooks for outgoing APP packets those that send_app_packet() queued wait.  A hook
\* that gives nothing is passed over.
Outgoing == IF queue.hooked
            THEN Chosen(queue.appHooks, {i \in DOMAIN queue.appHooks : queue.appHooks[i].length > 0})
            ELSE IF queue.apps = <<>> THEN <<>> ELSE <<Head(queue.apps)>>

\* Mutant: packet_mutex_ stays locked when a report is given up.
AbandonReportLocked(t) ==
    /\ UNCHANGED lock
    /\ draft' = NoDraft
    /\ Goto(t, AfterReport(t))

AbandonReport(t) ==
    /\ Unlock("packet")
    /\ draft' = NoDraft
    /\ Goto(t, AfterReport(t))

ReportBlocks(t) ==
    LET size == size_of_compound_packet(scenario.srtp, draft.kind, Len(Heard), queue.items,
                                        size_of_apps(Outgoing), queue.byes)
        w == ReportPacket(Writer(size), scenario.srtp, draft.kind, Us, our,
                          [i \in DOMAIN Heard |-> ReportBlock(Heard[i])])
    IN  /\ pc[t] = "blocks" /\ Free("participants")
        /\ IF size = 0 \/ ~w.ok
           THEN AbandonReport(t) /\ UNCHANGED <<participants, our, owed>>
           ELSE /\ participants' = [s \in DOMAIN participants |-> Reported(participants[s])]
                /\ our' = IF draft.kind = SR THEN [our EXCEPT !.sent = FALSE] ELSE our
                /\ draft' = [draft EXCEPT !.w = w, !.owed = owed,
                                               !.hooked = queue.hooked, !.apps = Outgoing]
                /\ owed' = {}
                /\ Goto(t, "send")
                /\ UNCHANGED lock
        /\ UNCHANGED <<initials, members, receivers, ms, queue, hooks, active, mapped, arg,
                       wire, crash, gone, strays, source, scenario, budget>>

\* SDES, APP and BYE packets follow, and the compound packet is sent.  The source
\* count of the SDES packet is num_receivers_, which readers ignore.  hooked_app_ is
\* read again, so APP packets may be others than those the size was computed for.
AppsToSend ==
    IF draft.apps = <<>> THEN <<>>
    ELSE IF ~queue.hooked THEN Outgoing
    ELSE IF draft.hooked THEN draft.apps ELSE <<>>

SendReport(t) ==
    LET described == SdesPacket(draft.w, Us, receivers, queue.items)
        applied   == AppPackets(described, Us, AppsToSend)
        w         == ByePacket(applied, queue.byes)
        popped    == draft.apps # <<>> /\ ~queue.hooked /\ queue.apps # <<>>
    IN  /\ pc[t] = "send" /\ Free("participants")
        /\ queue' = [queue EXCEPT !.apps = IF popped THEN Tail(@) ELSE @,
                                  !.byes = IF w.ok THEN <<>> ELSE @]
        /\ wire' = IF w.ok THEN [packets |-> read_compound(w), owed |-> draft.owed,
                                 switched |-> draft.hooked # queue.hooked]
                   ELSE wire
        /\ AbandonReport(t)
        /\ UNCHANGED <<table, our, hooks, active, mapped, arg, crash, gone, strays, owed,
                       source, scenario, budget>>

-----------------------------------------------------------------------------
(* The runner: rtcp_runner().                                              *)

Wake ==
    /\ pc["runner"] = "sleep" /\ active /\ Spend("tick")
    /\ Goto("runner", "report")
    /\ UNCHANGED <<table, local, lock, arg, draft, wire, truth>>

Exit ==
    /\ pc["runner"] = "sleep" /\ ~active
    /\ Goto("runner", "done")
    /\ UNCHANGED <<table, local, lock, arg, draft, wire, truth, budget>>

\* The silence of every source grows; no mutex guards ms_since_last_rep_.
Timeouts ==
    LET longer  == [s \in DOMAIN ms |-> ms[s] + 1]
        expired == {s \in DOMAIN ms : longer[s] > TimeoutTicks}
    IN  /\ pc["runner"] = "timeouts"
        /\ ms' = longer
        /\ arg' = [arg EXCEPT !["runner"] = [s |-> 0, expired |-> expired]]
        /\ Goto("runner", "remove")
        /\ gone' = [gone EXCEPT !["runner"] = {}]
        /\ UNCHANGED <<participants, initials, members, receivers, local, lock, draft, wire,
                       crash, strays, owed, source, scenario, budget>>

remove_timeout_ssrc ==
    LET expired == arg["runner"].expired IN
    /\ pc["runner"] = "remove"
    /\ \E s \in expired :
          /\ \A x \in expired : s <= x
          /\ \/ Dereference("runner", s)
             \/ /\ Known(s)
                /\ RemoveSource("runner", s)
                /\ MemberLeaves
                /\ arg' = [arg EXCEPT !["runner"].expired = @ \ {s}]
                /\ UNCHANGED <<initials, receivers, local, lock, pc, draft, wire, crash,
                               scenario, budget>>

Sleep ==
    /\ pc["runner"] = "remove" /\ arg["runner"].expired = {}
    /\ Goto("runner", "sleep")
    /\ arg' = [arg EXCEPT !["runner"] = Nothing]
    /\ UNCHANGED <<table, local, lock, draft, wire, truth, budget>>

-----------------------------------------------------------------------------
(* The application, and the thread that sends RTP packets.                 *)

update_sender_stats ==
    /\ Spend("send")
    /\ our' = [role |-> "SENDER", sent |-> TRUE]
    /\ UNCHANGED <<table, queue, hooks, active, mapped, control, wire, truth>>

\* get_sender_packet() and its like: participants_mutex_, then that of the kind.  The
\* runner removes sources without a mutex, also the one that was found here.
GetPacket(k, s) ==
    /\ pc["app"] = "idle" /\ Known(s) /\ Spend("get")
    /\ Lock("participants", "app") /\ Looked("app", s)
    /\ arg' = [arg EXCEPT !["app"] = [s |-> s, k |-> k]]
    /\ Goto("app", "take")
    /\ UNCHANGED <<table, local, draft, wire, crash, strays, owed, source, scenario>>

TakePacket ==
    LET s == arg["app"].s  k == arg["app"].k IN
    /\ pc["app"] = "take" /\ Free(MutexOf[k])
    /\ \/ Dereference("app", s)
       \/ /\ Known(s)
          /\ Change(s, [participants[s] EXCEPT !.held = @ \ {k}])
          /\ Unlock("participants")
          /\ Goto("app", "idle") /\ arg' = [arg EXCEPT !["app"] = Nothing]
          /\ UNCHANGED <<initials, members, receivers, ms, local, draft, wire, truth, budget>>

Calling(what) == pc["app"] = "idle" /\ Spend(what)

send_app_packet(length) ==
    /\ Calling("call") /\ Free("packet")
    /\ queue' = [queue EXCEPT !.apps = Append(@, [subtype |-> 1, length |-> length])]
    /\ UNCHANGED <<table, our, hooks, active, mapped, control, wire, truth>>

\* Items of type 0 are left out as long as no CNAME has been seen among the items.
\* Without a CNAME the one of the session goes first.
set_sdes_items(items) ==
    LET cnames  == {i \in DOMAIN items : items[i].type = CNAME}
        checked == IF cnames = {} THEN DOMAIN items ELSE 1 .. Min(cnames) - 1
        ignored == {i \in checked : items[i].type = 0}
    IN  (IF cnames = {} THEN <<[type |-> CNAME, length |-> 3]>> ELSE <<>>)
        \o Chosen(items, DOMAIN items \ ignored)

send_sdes_packet(items) ==
    /\ Calling("call") /\ Free("packet") /\ items # <<>>
    /\ queue' = [queue EXCEPT !.items = set_sdes_items(items)]
    /\ UNCHANGED <<table, our, hooks, active, mapped, control, wire, truth>>

install_send_app_hook(length) ==
    /\ Calling("call")
    /\ queue' = [queue EXCEPT !.hooked = TRUE,
                              !.appHooks = Append(@, [subtype |-> 2, length |-> length])]
    /\ UNCHANGED <<table, our, hooks, active, mapped, control, wire, truth>>

\* hooked_app_ stays set: packets of send_app_packet() are not sent any more.
remove_send_app_hook ==
    /\ Calling("call") /\ queue.appHooks # <<>>
    /\ queue' = [queue EXCEPT !.appHooks = Tail(@)]
    /\ UNCHANGED <<table, our, hooks, active, mapped, control, wire, truth>>

install_hook(k) ==
    /\ Calling("call") /\ Free(MutexOf[k]) /\ k \notin hooks
    /\ hooks' = hooks \cup {k}
    /\ UNCHANGED <<table, our, queue, active, mapped, control, wire, truth>>

remove_all_hooks ==
    /\ Calling("call") /\ hooks # {} /\ \A k \in Kinds : Free(MutexOf[k])
    /\ hooks' = {}
    /\ queue' = [queue EXCEPT !.hooked = FALSE, !.appHooks = <<>>]
    /\ UNCHANGED <<table, our, active, mapped, control, wire, truth>>

\* stop(): a BYE packet in a last report, then the runner and the reader are left.
Stop ==
    /\ Calling("stop") /\ Free("packet")
    /\ queue' = [queue EXCEPT !.byes = <<Us>>]
    /\ Goto("app", "report")
    /\ UNCHANGED <<table, our, hooks, active, mapped, lock, arg, draft, wire, truth>>

Deactivate ==
    /\ pc["app"] = "stopping" /\ active
    /\ active' = FALSE
    /\ Goto("app", "join")
    /\ UNCHANGED <<table, our, queue, hooks, mapped, lock, arg, draft, wire, truth, budget>>

JoinRunner ==
    /\ pc["app"] = "join" /\ pc["runner"] = "done"
    /\ Goto("app", "unmap")
    /\ UNCHANGED <<table, local, lock, arg, draft, wire, truth, budget>>

\* clear_rtcp_from_reader() waits for the packet in hand.
Unmap ==
    /\ pc["app"] = "unmap" /\ pc["reader"] = "idle"
    /\ mapped' = FALSE
    /\ Goto("app", "destroy")
    /\ UNCHANGED <<table, our, queue, hooks, active, lock, arg, draft, wire, truth, budget>>

\* By stop() when the object was never started, else by the destructor.
cleanup_participants ==
    /\ \/ pc["app"] = "stopping" /\ ~active
       \/ pc["app"] = "destroy"
    /\ pc["processor"] = "idle" /\ Free("participants")
    /\ participants' = << >> /\ initials' = 0
    /\ owed' = {} /\ source' = [s \in Peers |-> Unheard]
    /\ Goto("app", "done")
    /\ UNCHANGED <<members, receivers, ms, local, lock, arg, draft, wire, crash, gone, strays,
                   scenario, budget>>

Indexes(s) == IF source[s].highest = -1 THEN scenario.starts
              ELSE {source[s].highest + d : d \in scenario.steps} \cap Nat

ProcessorStep ==
    \/ \E s \in scenario.senders : \E n \in Indexes(s) : RtpPacket(s, n)
    \/ init_new_participant \/ init_participant_seq \/ Probation \/ UpdateSeq \/ Statistics

ReaderStep ==
    \/ \E frame \in scenario.frames : Receive(frame)
    \/ EndOfCompound \/ NextPacket \/ AddUnknown \/ SenderReport \/ CallHook \/ HoldReport
    \/ StoreReport \/ LookUpBye \/ EraseBye \/ EndOfBye

ReportStep(t) ==
    NoParticipants(t) \/ SenderRole(t) \/ ReceiverRole(t) \/ ReportBlocks(t) \/ SendReport(t)

RunnerStep == Wake \/ Exit \/ ReportStep("runner") \/ Timeouts \/ remove_timeout_ssrc \/ Sleep

AppStep ==
    \/ update_sender_stats
    \/ \E k \in Kinds, s \in Peers : GetPacket(k, s)
    \/ TakePacket
    \/ \E length \in scenario.appLengths : send_app_packet(length) \/ install_send_app_hook(length)
    \/ \E items \in scenario.items : send_sdes_packet(items)
    \/ remove_send_app_hook
    \/ \E k \in scenario.hooks : install_hook(k)
    \/ remove_all_hooks
    \/ Stop \/ ReportStep("app") \/ Deactivate \/ JoinRunner \/ Unmap \/ cleanup_participants

Next == crash = NoCrash /\ (ProcessorStep \/ ReaderStep \/ RunnerStep \/ AppStep)

Spec == Init /\ [][Next]_vars

\* The threads of the library are scheduled; the application may never call.
FairSpec == Spec /\ WF_vars(ProcessorStep) /\ WF_vars(ReaderStep)
                 /\ WF_vars(crash = NoCrash /\ RunnerStep)

-----------------------------------------------------------------------------
(* Properties.                                                             *)

Sequence    == 0 .. RtpSeqMod - 1
Participant == [max : Sequence, base : Sequence, bad : Nat, cycles : Nat,
                probation : 0 .. MIN_SEQUENTIAL, received : Nat, lost : Nat, heard : BOOLEAN,
                priorExpected : Int, priorReceived : Nat, lsr : BOOLEAN, held : SUBSET Kinds]
Truth       == [first : Nat \cup {-1}, highest : Nat \cup {-1}, seen : SUBSET Nat,
                resynced : BOOLEAN]

ReportLabels == {"report", "role", "blocks", "send"}
Labels == [processor |-> {"idle", "new", "seq", "probation", "update", "statistics"},
           reader |-> {"idle", "next", "add", "stats", "deliver", "store", "bye", "erase"},
           runner |-> {"sleep", "done", "timeouts", "remove"} \cup ReportLabels,
           app    |-> {"idle", "take", "stopping", "join", "unmap", "destroy", "done"}
                      \cup ReportLabels]

\* What a thread works on where it is.
ProcessorWork == pc["processor"] # "idle" => arg["processor"] \in [s : Peers, n : Nat]
ReaderWork ==
    /\ pc["reader"] # "idle" => arg["reader"] \in [s : Ssrcs, rest : Seq(Readable)]
    /\ pc["reader"] \in {"add", "stats", "deliver", "store"} =>
          arg["reader"].rest # <<>> /\ Packet.type \in Kinds
    /\ pc["reader"] = "stats" => Packet.type = SR
    /\ pc["reader"] \in {"bye", "erase"} => arg["reader"].rest # <<>> /\ Packet.type = BYE
    /\ pc["reader"] = "erase" => Packet.ssrcs # <<>>
RunnerWork == pc["runner"] = "remove" =>
    arg["runner"] \in [s : {0}, expired : SUBSET Ssrcs]
AppWork == pc["app"] = "take" => arg["app"] \in [s : Peers, k : Kinds]

TableOK ==
    /\ DOMAIN participants \subseteq Ssrcs
    /\ participants \in [DOMAIN participants -> Participant]
    /\ DOMAIN ms \subseteq Ssrcs /\ ms \in [DOMAIN ms -> Nat]
    /\ initials \in Nat /\ members \in Nat /\ receivers \in 0 .. MaxParticipants
LocalOK ==
    /\ our \in [role : {"SENDER", "RECEIVER"}, sent : BOOLEAN] /\ hooks \subseteq Kinds
    /\ active \in BOOLEAN /\ mapped \in BOOLEAN
ControlOK ==
    /\ lock \in [Mutexes -> Threads \cup {Nobody}]
    /\ \A t \in {"runner", "app"} :
          pc[t] \in {"role", "blocks", "send"} <=> lock["packet"] = t
    /\ DOMAIN pc = Threads /\ \A t \in Threads : pc[t] \in Labels[t]
    /\ DOMAIN arg = Threads
    /\ ProcessorWork /\ ReaderWork /\ RunnerWork /\ AppWork
TruthOK ==
    /\ crash \in [thread : Threads \cup {Nobody}, ssrc : Ssrcs]
    /\ gone \in [Threads -> SUBSET Ssrcs] /\ strays \subseteq Ssrcs
    /\ owed \subseteq Peers /\ source \in [Peers -> Truth]

\* The variables keep to their types, a thread is where it can be with what it needs
\* there, and the runner and the application make reports one at a time.
TypeOK ==
    /\ scenario \in Scenarios /\ budget \in [DOMAIN scenario.budget -> Nat]
    /\ TableOK /\ LocalOK /\ ControlOK /\ TruthOK

\* The mutexes that a thread needs for its next step, and who waits for whom.
Wants(t) ==
    CASE pc[t] = "report" -> IF participants = << >> THEN {} ELSE {"packet"}
      [] pc[t] \in {"new", "seq", "probation", "update", "statistics", "add", "stats",
                    "store", "erase", "blocks", "send"} -> {"participants"}
      [] pc[t] = "deliver" -> {MutexOf[Packet.type]}
      [] pc[t] = "take"    -> {MutexOf[arg[t].k]}
      [] OTHER -> {}
WaitsFor(t, u) == \E m \in Wants(t) : lock[m] = u
Circle(D) == \A t \in D : (\E u \in D : WaitsFor(t, u)) /\ (\E u \in D : WaitsFor(u, t))
Deadlocked == UNION {D \in SUBSET Threads : Circle(D)}

\* The threads of an rtcp object wait for each other in a circle only in one way:
\* the application asks for the packets of a participant while the reader is about
\* to store a packet of that kind (rtcp.cc:703 and 1425).
OnlyGettersDeadlock ==
    Deadlocked # {} =>
        /\ Deadlocked = {"app", "reader"}
        /\ pc["app"] = "take" /\ pc["reader"] = "store" /\ arg["app"].k = Packet.type

\* A thread uses a participant that is not there only because another thread has
\* removed it since the lookup, because the table is full (a failed add is not
\* noticed, rtcp.cc:1399), or because the runner times out a source that the reader did
\* not know, and does not add or has yet to: its silence is counted first (rtcp.cc:1207).
CrashOnlyAfterRemoval ==
    crash # NoCrash =>
        \/ crash.ssrc \in gone[crash.thread]
        \/ receivers = MaxParticipants
        \/ /\ crash.thread = "runner"
           /\ crash.ssrc \in strays \/ (pc["reader"] = "add" /\ Subject = crash.ssrc)

\* What a peer reads of a report: an SR or RR first with a block for each source
\* heard since the last blocks were made, and for no other; second the SDES packet, whose
\* first chunk is of this session and has its CNAME (an item of type 0 behind it is read as
\* the end of that chunk, rtcp.cc:373); only APP packets and a BYE after it.  It does
\* not hold when hooked_app_ changes between the size and the contents (rtcp.cc:1970).
ReportsCoverPeriod ==
    LET ps == wire.packets IN
    ps # <<>> /\ ~wire.switched =>
        /\ ps[1].type \in {SR, RR}
        /\ {ps[1].blocks[i].ssrc : i \in DOMAIN ps[1].blocks} = wire.owed
        /\ Len(ps) >= 2 /\ ps[2].type = SDES
        /\ ps[2].chunks # <<>> /\ ps[2].chunks[1].ssrc = Us
        /\ \E i \in DOMAIN ps[2].chunks[1].items : ps[2].chunks[1].items[i].type = CNAME
        /\ \A i \in 3 .. Len(ps) : ps[i].type = APP \/ (ps[i].type = BYE /\ i = Len(ps))

\* The packets of s between the first and the highest counted that never came.
Missing(s) == (source[s].first .. source[s].highest) \ source[s].seen

Settled(s) ==
    /\ Known(s) /\ participants[s].probation = 0
    /\ source[s].first >= 0 /\ ~source[s].resynced
    /\ ~(pc["processor"] \in {"seq", "probation", "statistics"} /\ arg["processor"].s = s)

\* For a source first heard by an RTP packet and past its probation the extended
\* highest sequence number counts every packet since the first, over wraps and late
\* and doubled packets, and no more packets are reported lost than never came.
LossIsTrue ==
    \A s \in Peers : Settled(s) =>
        /\ Expected(participants[s]) = source[s].highest - source[s].first + 1
        /\ participants[s].lost <= Cardinality(Missing(s))

\* RTCP periodically sends compound packets (rtcp.hh:106): once the runner makes a
\* report and somebody is there, a compound packet has been sent sooner or later.
ReportsAreSent ==
    (pc["runner"] = "report" /\ participants # << >>) ~> (wire.packets # <<>>)
=============================================================================
