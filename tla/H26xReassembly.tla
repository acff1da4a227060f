---------------------------- MODULE H26xReassembly ----------------------------
(***************************************************************************)
(* uvgrtp::formats::h26x::packet_handler, the receiving side of the H.264, *)
(* H.265, H.266 and V3C formats: it puts the fragments of NAL units        *)
(* together again, forgets access units that stay incomplete for too long  *)
(* and, with RCE_H26X_DEPENDENCY_ENFORCEMENT, discards inter frames until  *)
(* the next intra frame after something was dropped.                       *)
(*                                                                         *)
(* Only the flow's processor thread calls the handler, so one packet is    *)
(* one step.  A packet of Stream is a record:                              *)
(*   ts    RTP timestamp, the same for all packets of an access unit       *)
(*   frag  what get_fragment_type() says: start, middle, end, single, aggr *)
(*   nals  the NAL units it carries a part (start, middle, end) or all of  *)
(*   type  what get_nal_type() says: intra, inter, other                   *)
(* Start codes, sizes and the field total_size, which nothing reads, are   *)
(* left out; fragments_info is the sets of its start and end fragments.    *)
(***************************************************************************)
EXTENDS MediaNetwork

CONSTANTS
  GcInterval,      \* GARBAGE_COLLECTION_INTERVAL_MS, 100 ms
  DroppedCap,      \* 600: how many dropped timestamps are remembered
  NoFrame          \* nullptr in fragments_

ASSUME ClockAssumption ==
  /\ GcInterval \in Nat
  /\ \A t \in Trials :
       {t.maxDelay, t.keepTrack} \subseteq Nat /\ t.enforcement \in BOOLEAN

\* Packet p of the stream s carries whole NAL units, which no other packet does.
Whole(s, p) ==
  /\ s[p].frag \in {"single", "aggr"}
  /\ \A q \in 1 .. Len(s) : \A i \in DOMAIN s[p].nals, j \in DOMAIN s[q].nals :
       s[q].nals[j] = s[p].nals[i] => q = p /\ j = i

\* Packets f to l of the stream s are the fragments of a NAL unit.
InFragments(s, f, l) ==
  /\ f < l
  /\ \A q \in f .. l :
       /\ Len(s[q].nals) = 1 /\ s[q].nals = s[f].nals
       /\ s[q].ts = s[f].ts /\ s[q].type = s[f].type
       /\ s[q].frag = IF q = f THEN "start" ELSE IF q = l THEN "end" ELSE "middle"
  /\ \A q \in 1 .. Len(s) \ (f .. l) : \A j \in DOMAIN s[q].nals :
       s[q].nals[j] # s[f].nals[1]

\* What push_media_frame() makes of frames, fewer packets than numbers.
ASSUME StreamAssumption ==
  \A t \in Trials :
    LET s == t.stream
    IN /\ Len(s) < SeqMod
       /\ \A p \in 1 .. Len(s) :
            /\ s[p].ts \in Nat /\ s[p].nals \in Seq(Nat) \ {<<>>}
            /\ \/ Whole(s, p)
               \/ \E f, l \in 1 .. Len(s) : p \in f .. l /\ InFragments(s, f, l)
ASSUME DroppedCapAssumption == DroppedCap \in Nat \ {0}
ASSUME NoFrameAssumption == NoFrame \notin Nat

VARIABLES
  seen_order_,             \* keys of packets and when they arrived
  access_units_,           \* [timestamp -> access_unit_info]
  fragments_,              \* [sequence number -> fragment held, or NoFrame]
  dropped_ts_,             \* timestamps of dropped access units
  discard_until_key_frame_,
  last_garbage_collection_,
  crashed,                 \* a null pointer was dereferenced
  (* history *)
  delivered,               \* NAL units returned to the user
  referenceLost,           \* fragments were dropped since the last intra NAL
  interleaved              \* timestamps of access units of which a fragment came
                           \* after one of a later NAL unit

stateVars == <<access_units_, fragments_, dropped_ts_,
               discard_until_key_frame_, last_garbage_collection_>>
historyVars == <<delivered, referenceLost, interleaved>>
vars == <<trial, received, lost, duplicates, now, seen_order_, access_units_,
          fragments_, dropped_ts_, discard_until_key_frame_,
          last_garbage_collection_, crashed, delivered, referenceLost, interleaved>>

-----------------------------------------------------------------------------
(* The stream, and what the trial sets *)

Enforcement == trial.enforcement  \* RCE_H26X_DEPENDENCY_ENFORCEMENT is set
MaxDelay    == trial.maxDelay     \* rtp_ctx_->get_pkt_max_delay(), 500 ms by default
KeepTrack   == trial.keepTrack    \* TIME_TO_KEEP_TRACK_OF_PREVIOUS_FRAMES_MS, 5000 ms

SeqNum == 0 .. (SeqMod - 1)
Ts(p) == Stream[p].ts
Timestamps == {Ts(p) : p \in Packet}
Fragmented(p) == Stream[p].frag \in {"start", "middle", "end"}
Carried(p) == {Stream[p].nals[i] : i \in DOMAIN Stream[p].nals}
NalUnits == UNION {Carried(p) : p \in Packet}

\* A NAL unit as the user gets it: which one its header says it is, and the
\* packets its payload was copied from.
Unit(n, pieces) == [nal |-> n, pieces |-> pieces, at |-> now]

AccessUnit ==
  [sframe_time            : 0 .. MaxTime,
   received_packet_seqs   : SUBSET SeqNum,
   incomplete_packet_seqs : SUBSET SeqNum,
   start                  : SUBSET SeqNum,
   end                    : SUBSET SeqNum]

initialize_new_access_unit ==
  [sframe_time |-> now, received_packet_seqs |-> {},
   incomplete_packet_seqs |-> {}, start |-> {}, end |-> {}]

Init ==
  /\ NetworkInit
  /\ seen_order_ = {}
  /\ access_units_ = <<>>
  /\ fragments_ = [s \in SeqNum |-> NoFrame]
  /\ dropped_ts_ = {}
  /\ discard_until_key_frame_ = TRUE
  /\ last_garbage_collection_ = 0
  /\ crashed = FALSE
  /\ delivered = <<>>
  /\ referenceLost = TRUE
  /\ interleaved = {}

-----------------------------------------------------------------------------
(* Duplicates *)

Key(p) == <<Ts(p), Seq16(p)>>

\* Mutant: an entry is forgotten one tick too early.
RememberedTooShort == {e \in seen_order_ : now - e.arrival < KeepTrack}

\* seen_order_ without the entries from more than KeepTrack ticks ago.
Remembered == {e \in seen_order_ : now - e.arrival <= KeepTrack}

is_duplicate_frame(p) == \E e \in Remembered : e.key = Key(p)

\* seen_order_ after the call of is_duplicate_frame.
Track(p) ==
  seen_order_' = Remembered \cup (IF is_duplicate_frame(p) THEN {}
                                  ELSE {[key |-> Key(p), arrival |-> now]})

-----------------------------------------------------------------------------
(* Dropping access units *)

\* The DroppedCap largest timestamps: what stays when the smallest is erased
\* after each insertion beyond the cap.
Newest(tss) == {t \in tss : Cardinality({u \in tss : u > t}) < DroppedCap}

\* Mutant: the fragments of a dropped access unit are not freed.
drop_access_unitLeaks(tss, aus, frags, discard) ==
  /\ access_units_' = [t \in DOMAIN aus \ tss |-> aus[t]]
  /\ fragments_' = frags
  /\ dropped_ts_' = Newest(dropped_ts_ \cup tss)
  /\ discard_until_key_frame_' = (discard \/ tss # {})
  /\ crashed' = FALSE

\* Mutant: dropping does not make the handler wait for a key frame.
drop_access_unitGoesOn(tss, aus, frags, discard) ==
  LET held == UNION {aus[t].incomplete_packet_seqs : t \in tss}
  IN /\ access_units_' = [t \in DOMAIN aus \ tss |-> aus[t]]
     /\ fragments_' = [s \in SeqNum |-> IF s \in held THEN NoFrame
                                                      ELSE frags[s]]
     /\ dropped_ts_' = Newest(dropped_ts_ \cup tss)
     /\ discard_until_key_frame_' = discard
     /\ crashed' = FALSE

\* drop_access_unit() for every timestamp in tss.  aus and frags are what
\* access_units_ and fragments_ hold at that point of the handler, discard
\* what discard_until_key_frame_ does.
drop_access_unit(tss, aus, frags, discard) ==
  LET held == UNION {aus[t].incomplete_packet_seqs : t \in tss}
      twice == \E t, u \in tss :
                 /\ t # u
                 /\ aus[t].incomplete_packet_seqs
                      \cap aus[u].incomplete_packet_seqs # {}
  IN /\ access_units_' = [t \in DOMAIN aus \ tss |-> aus[t]]
     /\ fragments_' = [s \in SeqNum |-> IF s \in held THEN NoFrame
                                                      ELSE frags[s]]
     /\ dropped_ts_' = Newest(dropped_ts_ \cup tss)
     /\ discard_until_key_frame_' = (discard \/ tss # {})
     /\ crashed' = (twice \/ \E s \in held : frags[s] = NoFrame)

\* lacking says whether fragments were dropped since the last intra NAL unit.
garbage_collect_lost_frames(aus, frags, discard, lacking) ==
  LET due == now - last_garbage_collection_ >= GcInterval
      old == {t \in DOMAIN aus : due /\ now - aus[t].sframe_time > MaxDelay}
  IN /\ drop_access_unit(old, aus, frags, discard)
     /\ last_garbage_collection_' = IF due THEN now
                                    ELSE last_garbage_collection_
     /\ referenceLost' =
          (lacking \/ \E t \in old : aus[t].incomplete_packet_seqs # {})

-----------------------------------------------------------------------------
(* The walk over the incomplete fragments of an access unit *)

\* How many sequence numbers t comes after s.
Distance(s, t) == (t - s) % SeqMod

\* The start fragment the code finds: the numerically first one, std::set's
\* order.
FirstStart(au) ==
  CHOOSE s \in au.incomplete_packet_seqs \cap au.start :
    \A t \in au.incomplete_packet_seqs \cap au.start : s <= t

\* Mutant: the walk does not stop at a gap.
ConsecutiveFromWithGaps(s, seqs) == seqs

\* What nextSeq() visits from the fragment s on before the first gap.
ConsecutiveFrom(s, seqs) ==
  {t \in seqs : \A d \in 0 .. Distance(s, t) : (s + d) % SeqMod \in seqs}

\* The end fragment in run that the walk from s meets first.
FirstEnd(s, run, au) ==
  CHOOSE e \in run \cap au.end :
    \A t \in run \cap au.end : Distance(s, e) <= Distance(s, t)

UpTo(s, e, run) == {t \in run : Distance(s, t) <= Distance(s, e)}

\* reconstruction(): the payloads of the fragments s to e, in order.
Pieces(s, e, frags) ==
  [k \in 1 .. (Distance(s, e) + 1) |-> frags[(s + k - 1) % SeqMod]]

-----------------------------------------------------------------------------
(* packet_handler, one action for each way through it *)

Handles(p) == /\ ~crashed
              /\ Arrive(p)
              /\ Track(p)

\* The process dies in the middle of the handler.
Crash ==
  /\ crashed' = TRUE
  /\ UNCHANGED <<stateVars, delivered, referenceLost>>

DiscardDuplicate(p) ==
  /\ Handles(p)
  /\ is_duplicate_frame(p)
  /\ UNCHANGED <<stateVars, historyVars, crashed>>

DiscardOld(p) ==
  /\ Handles(p)
  /\ ~is_duplicate_frame(p)
  /\ Ts(p) \in dropped_ts_
  /\ UNCHANGED <<stateVars, historyVars, crashed>>

Fresh(p) == ~is_duplicate_frame(p) /\ Ts(p) \notin dropped_ts_

\* The NAL units of a packet, which the processor takes from queued_ with
\* frame_getter() before it handles the next packet.  Their sizes fit the
\* packet, as a sender has bundled them: the error of line 612 does not occur.
handle_aggregation_packet(p) ==
  [i \in DOMAIN Stream[p].nals |-> Unit(Stream[p].nals[i], <<p>>)]

\* A packet with whole NAL units: one, or several.
ReturnWhole(p) ==
  /\ Handles(p)
  /\ Fresh(p)
  /\ ~Fragmented(p)
  /\ delivered' = delivered \o handle_aggregation_packet(p)
  /\ UNCHANGED <<stateVars, referenceLost, interleaved, crashed>>

Known(p) == /\ Ts(p) \in DOMAIN access_units_
            /\ Seq16(p) \in access_units_[Ts(p)].received_packet_seqs

DiscardKnown(p) ==
  /\ Handles(p)
  /\ Fresh(p)
  /\ Fragmented(p)
  /\ Known(p)
  /\ UNCHANGED <<stateVars, historyVars, crashed>>

\* Mutant: only the first fragment to arrive can be the start.
WithFragmentStartFirst(p) ==
  LET s == Seq16(p)
      first == Ts(p) \notin DOMAIN access_units_
      au == IF first THEN initialize_new_access_unit ELSE access_units_[Ts(p)]
      Put(seqs, frag) == IF Stream[p].frag = frag THEN seqs \cup {s}
                         ELSE seqs
  IN [sframe_time            |-> au.sframe_time,
      received_packet_seqs   |-> au.received_packet_seqs \cup {s},
      incomplete_packet_seqs |-> au.incomplete_packet_seqs \cup {s},
      start                  |-> IF first THEN Put(au.start, "start")
                                 ELSE au.start,
      end                    |-> Put(au.end, "end")]

\* The access unit of p with p in it.
WithFragment(p) ==
  LET s == Seq16(p)
      au == IF Ts(p) \in DOMAIN access_units_ THEN access_units_[Ts(p)]
            ELSE initialize_new_access_unit
      Put(seqs, frag) == IF Stream[p].frag = frag THEN seqs \cup {s}
                         ELSE seqs
  IN [sframe_time            |-> au.sframe_time,
      received_packet_seqs   |-> au.received_packet_seqs \cup {s},
      incomplete_packet_seqs |-> au.incomplete_packet_seqs \cup {s},
      start                  |-> Put(au.start, "start"),
      end                    |-> Put(au.end, "end")]

\* access_units_ with au as the access unit of timestamp ts.
Updated(ts, au) ==
  [t \in DOMAIN access_units_ \cup {ts} |-> IF t = ts THEN au
                                            ELSE access_units_[t]]

\* No start fragment: the handler returns, and forgets to collect garbage.
KeepUntilStart(p) ==
  /\ access_units_' = Updated(Ts(p), WithFragment(p))
  /\ fragments_' = [fragments_ EXCEPT ![Seq16(p)] = p]
  /\ UNCHANGED <<dropped_ts_, discard_until_key_frame_,
                 last_garbage_collection_, crashed, delivered, referenceLost>>

KeepUntilEnd(p) ==
  /\ garbage_collect_lost_frames(Updated(Ts(p), WithFragment(p)),
                                 [fragments_ EXCEPT ![Seq16(p)] = p],
                                 discard_until_key_frame_, referenceLost)
  /\ UNCHANGED delivered

\* The references of an inter NAL unit were lost: its access unit is dropped.
DropInter(p) ==
  /\ drop_access_unit({Ts(p)}, Updated(Ts(p), WithFragment(p)),
                      [fragments_ EXCEPT ![Seq16(p)] = p],
                      discard_until_key_frame_)
  /\ referenceLost' = TRUE
  /\ UNCHANGED <<last_garbage_collection_, delivered>>

\* Mutant: the fragments used stay in incomplete_packet_seqs.
ReconstructKeeps(p, s, e, run) ==
  LET au    == WithFragment(p)
      frags == [fragments_ EXCEPT ![Seq16(p)] = p]
      used  == UpTo(s, e, run)
      key   == Stream[p].type = "intra"
  IN /\ delivered' = Append(delivered,
                            Unit(Stream[p].nals[1], Pieces(s, e, frags)))
     /\ garbage_collect_lost_frames(
          Updated(Ts(p), au),
          [t \in SeqNum |-> IF t \in used THEN NoFrame ELSE frags[t]],
          discard_until_key_frame_ /\ ~(Enforcement /\ key),
          referenceLost /\ ~key)

\* Fragments s to e become a NAL unit with the header of p, the packet that is
\* handled.  Whatever the walk visited is no longer incomplete.
Reconstruct(p, s, e, run) ==
  LET au    == WithFragment(p)
      frags == [fragments_ EXCEPT ![Seq16(p)] = p]
      used  == UpTo(s, e, run)
      left  == [au EXCEPT !.incomplete_packet_seqs = @ \ run]
      key   == Stream[p].type = "intra"
  IN /\ delivered' = Append(delivered,
                            Unit(Stream[p].nals[1], Pieces(s, e, frags)))
     /\ garbage_collect_lost_frames(
          Updated(Ts(p), left),
          [t \in SeqNum |-> IF t \in used THEN NoFrame ELSE frags[t]],
          discard_until_key_frame_ /\ ~(Enforcement /\ key),
          referenceLost /\ ~key)

\* A fragment of a later NAL unit of the access unit was received before p.
Overtaken(p) ==
  \E q \in Packet :
    /\ p < q /\ Stream[q].nals # Stream[p].nals
    /\ Ts(q) = Ts(p) /\ Known(q)

StoreFragment(p) ==
  /\ Handles(p)
  /\ Fresh(p)
  /\ Fragmented(p)
  /\ ~Known(p)
  /\ interleaved' = interleaved \cup (IF Overtaken(p) THEN {Ts(p)} ELSE {})
  /\ LET au    == WithFragment(p)
         frags == [fragments_ EXCEPT ![Seq16(p)] = p]
         s     == FirstStart(au)
         run   == ConsecutiveFrom(s, au.incomplete_packet_seqs)
         e     == FirstEnd(s, run, au)
         drop  == /\ Enforcement
                  /\ discard_until_key_frame_
                  /\ Stream[p].type = "inter"
         Holds(seqs) == \A t \in seqs : frags[t] # NoFrame
     IN \/ /\ au.incomplete_packet_seqs \cap au.start = {}
           /\ KeepUntilStart(p)
        \/ /\ au.incomplete_packet_seqs \cap au.start # {}
           /\ run \cap au.end = {}
           /\ KeepUntilEnd(p)
        \/ /\ au.incomplete_packet_seqs \cap au.start # {}
           /\ run \cap au.end # {}
           /\ \/ ~Holds(UpTo(s, e, run)) /\ Crash
              \/ Holds(UpTo(s, e, run)) /\ drop /\ DropInter(p)
              \* The loop goes on after a reconstruction, and at the next end
              \* reads the size of the fragments just freed.
              \/ /\ Holds(UpTo(s, e, run)) /\ ~drop
                 /\ run \cap au.end # {e}
                 /\ Crash
              \/ /\ Holds(UpTo(s, e, run)) /\ ~drop
                 /\ run \cap au.end = {e}
                 /\ Reconstruct(p, s, e, run)

packet_handler(p) ==
  \/ DiscardDuplicate(p)
  \/ DiscardOld(p)
  \/ ReturnWhole(p)
  \/ DiscardKnown(p)
  \/ StoreFragment(p)

Environment ==
  /\ \/ Tick
     \/ \E p \in Packet : Lose(p)
  /\ UNCHANGED <<seen_order_, stateVars, crashed, historyVars>>

Next ==
  \/ Environment
  \/ \E p \in Packet : packet_handler(p)

Spec == Init /\ [][Next]_vars

-----------------------------------------------------------------------------
(* Properties *)

\* Type invariant, with the null pointer of fragments_ and the sets of
\* access_unit_info.
TypeOK ==
  /\ NetworkTypeOK
  /\ seen_order_ \subseteq [key : Timestamps \X SeqNum, arrival : 0 .. MaxTime]
  /\ DOMAIN access_units_ \subseteq Timestamps
  /\ \A t \in DOMAIN access_units_ : access_units_[t] \in AccessUnit
  /\ fragments_ \in [SeqNum -> Packet \cup {NoFrame}]
  /\ dropped_ts_ \in SUBSET Timestamps
  /\ discard_until_key_frame_ \in BOOLEAN
  /\ last_garbage_collection_ \in 0 .. MaxTime
  /\ crashed \in BOOLEAN
  /\ delivered \in Seq([nal : NalUnits, pieces : Seq(Packet),
                        at : 0 .. MaxTime])
  /\ referenceLost \in BOOLEAN
  /\ interleaved \in SUBSET Timestamps

PacketsOf(n) == {p \in Packet : n \in Carried(p)}

\* A NAL unit the user gets is whole: the payload of every packet of it, in
\* the order sent, and nothing else (reconstruction, with the range the walk
\* found).  It has its own header, unless the fragments of NAL units interleave.
WholeNalUnits ==
  \A i \in DOMAIN delivered :
    LET pieces == delivered[i].pieces
    IN /\ \E n \in NalUnits :
            /\ {pieces[k] : k \in DOMAIN pieces} = PacketsOf(n)
            /\ n = delivered[i].nal \/ Ts(pieces[1]) \in interleaved
       /\ \A k, l \in DOMAIN pieces : k < l => pieces[k] < pieces[l]

\* The user never gets a NAL unit twice, unless its packets come again after
\* the KeepTrack ticks for which is_duplicate_frame() remembers them, or the
\* fragments of NAL units interleave, which then get each other's headers.
DeliveredOnce ==
  \A i, j \in DOMAIN delivered :
    /\ i < j
    /\ delivered[i].nal = delivered[j].nal
    /\ Ts(delivered[j].pieces[1]) \notin interleaved
    => delivered[j].at - delivered[i].at > KeepTrack

IsDelivered(n) == \E i \in DOMAIN delivered : delivered[i].nal = n

\* The fragments of access unit t up to the last one of NAL unit n.
FragmentsUpTo(n, t) ==
  {p \in Packet : /\ Ts(p) = t
                  /\ Fragmented(p)
                  /\ \E q \in PacketsOf(n) : p <= q /\ Ts(q) = t /\ Fragmented(q)}

\* The handler never sits on a NAL unit of which it has every fragment, and
\* every earlier fragment of the access unit: the handler "checks if it has
\* received all fragments of a complete HEVC NAL unit and if so, it merges all
\* fragments into a complete NAL unit and returns the NAL unit to user"
\* (h26x.hh, packet_handler).  Not where the fragments of NAL units interleave.
CompleteIsDelivered ==
  \A t \in DOMAIN access_units_ \ interleaved : \A n \in NalUnits :
    LET fragments == FragmentsUpTo(n, t)
    IN /\ fragments # {}
       /\ \A p \in fragments :
            Seq16(p) \in access_units_[t].received_packet_seqs
       => IsDelivered(n)

\* Every fragment held belongs to an access unit that will release it, by
\* reconstruction or by garbage collection: fragments_ does not leak, but for
\* NAL units that interleave.  And every fragment that drop_access_unit() will
\* dereference for an access unit is still held, and belongs to that access unit.
HeldIsIncomplete ==
  /\ \A s \in SeqNum : fragments_[s] # NoFrame =>
       \/ Ts(fragments_[s]) \in interleaved
       \/ \E t \in DOMAIN access_units_ :
            s \in access_units_[t].incomplete_packet_seqs
  /\ \A t \in DOMAIN access_units_ :
       \A s \in access_units_[t].incomplete_packet_seqs :
         fragments_[s] # NoFrame /\ Ts(fragments_[s]) = t

\* The handler never dereferences a fragment it has freed: the doc says that the
\* walk goes on "until we reconstruct or find the start again" (h26x.cc:803).
NeverCrashes == ~crashed

\* It does so only where the fragments of NAL units interleave.
CrashOnlyInterleaved == crashed => interleaved # {}

\* With RCE_H26X_DEPENDENCY_ENFORCEMENT no fragmented inter NAL unit reaches
\* the user while fragments were dropped that no intra NAL unit made
\* obsolete (discard_until_key_frame_).
InterNeedsReferences ==
  [][\A p \in Packet :
       /\ Enforcement
       /\ referenceLost
       /\ Stream[p].type = "inter"
       /\ p \notin received
       /\ Fragmented(p)
       /\ p \in received'
       => UNCHANGED delivered]_vars
=============================================================================
