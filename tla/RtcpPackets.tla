----------------------------- MODULE RtcpPackets -----------------------------
(***************************************************************************)
(* What uvgRTP writes in an RTCP compound packet and what it reads from    *)
(* one.  A buffer is a record [size, cell]: size is the number of octets   *)
(* allocated, and cell maps the offset of a field to the field; an octet   *)
(* at which no field starts is a zero, as memset() left it, and so is the  *)
(* payload of a field.  A writer is a buffer with the write pointer and    *)
(* the success of the construct_* functions so far.  Sizes and offsets are *)
(* those of the code; a loop is a function of the number of its turns.     *)
(***************************************************************************)
EXTENDS Integers, Sequences, FiniteSets, TLC, SequencesExt

UINT16_MAX == 65535

SR    == 200
RR    == 201
SDES  == 202
BYE   == 203
APP   == 204
RTPFB == 205
PSFB  == 206

RTCP_HEADER_SIZE  == 4
SSRC_CSRC_SIZE    == 4
SENDER_INFO_SIZE  == 20
REPORT_BLOCK_SIZE == 24
APP_NAME_SIZE     == 4
SRTCP_TRAILER     == 4 + 10   \* UVG_SRTCP_INDEX_LENGTH + UVG_AUTH_TAG_LENGTH

CNAME == 1

-----------------------------------------------------------------------------
(* Sizes.                                                                  *)

Total(sizes) ==
    LET upto[n \in 0 .. Len(sizes)] == IF n = 0 THEN 0 ELSE upto[n - 1] + sizes[n]
    IN  upto[Len(sizes)]

get_rr_packet_size(srtp, reports) ==
    RTCP_HEADER_SIZE + SSRC_CSRC_SIZE + REPORT_BLOCK_SIZE * reports
        + (IF srtp THEN SRTCP_TRAILER ELSE 0)

get_sr_packet_size(srtp, reports) ==
    get_rr_packet_size(srtp, reports) + SENDER_INFO_SIZE

get_app_packet_size(len) == RTCP_HEADER_SIZE + SSRC_CSRC_SIZE + APP_NAME_SIZE + len

\* A chunk ends with one to four zero octets.
Padded(n) == n + (4 - (n % 4))

ItemSize(item) == 2 + item.length
ItemSizes(items) == [i \in DOMAIN items |-> ItemSize(items[i])]
get_sdes_packet_size(items) ==
    Padded(RTCP_HEADER_SIZE + SSRC_CSRC_SIZE + Total(ItemSizes(items)))

get_bye_packet_size(ssrcs) == RTCP_HEADER_SIZE + Len(ssrcs) * SSRC_CSRC_SIZE

AppSize(app) == get_app_packet_size(app.length)
size_of_apps(apps) == Total([i \in DOMAIN apps |-> AppSize(apps[i])])

\* kind is what the packet starts with; 0 stands for neither SR nor RR.
size_of_compound_packet(srtp, kind, reports, items, appSize, byes) ==
    IF kind \notin {SR, RR} THEN 0
    ELSE (IF kind = SR THEN get_sr_packet_size(srtp, reports)
                       ELSE get_rr_packet_size(srtp, reports))
         + get_sdes_packet_size(items) + appSize
         + (IF byes = <<>> THEN 0 ELSE get_bye_packet_size(byes))

-----------------------------------------------------------------------------
(* Writing.                                                                *)

Writer(size) == [size |-> size, cell |-> << >>, ptr |-> 0, ok |-> TRUE]

Put(w, field, width) ==
    LET written == [x \in DOMAIN w.cell \cup {w.ptr} |-> IF x = w.ptr THEN field ELSE w.cell[x]]
    IN  IF w.ok THEN [w EXCEPT !.cell = written, !.ptr = @ + width] ELSE w

\* The fields one after the other, each as wide as widths says.
PutAll(w, fields, widths) ==
    LET after[n \in 0 .. Len(fields)] ==
            IF n = 0 THEN w ELSE Put(after[n - 1], fields[n], widths[n])
    IN  after[Len(fields)]
Wide(fields, width) == [i \in DOMAIN fields |-> width]

construct_rtcp_header(w, size, second, type) ==
    IF size > UINT16_MAX \/ size % 4 # 0 THEN [w EXCEPT !.ok = FALSE]
    ELSE Put(w, [type |-> type, count |-> second, length |-> size \div 4 - 1],
             RTCP_HEADER_SIZE)

construct_ssrc(w, ssrc)        == Put(w, ssrc, SSRC_CSRC_SIZE)
construct_sender_info(w, info) == Put(w, info, SENDER_INFO_SIZE)
construct_report_blocks(w, bs) == PutAll(w, bs, Wide(bs, REPORT_BLOCK_SIZE))
construct_app_packet(w, app)   == Put(w, app, APP_NAME_SIZE + app.length)
construct_bye_packet(w, ssrcs) == PutAll(w, ssrcs, Wide(ssrcs, SSRC_CSRC_SIZE))

construct_sdes_chunk(w, ssrc, items) ==
    LET body == PutAll(construct_ssrc(w, ssrc), items, ItemSizes(items))
    IN  [body EXCEPT !.ptr = Padded(@),
                     !.ok = @ /\ \E i \in DOMAIN items : items[i].type = CNAME]

construct_app_block(w, ssrc, app) ==
    construct_app_packet(
        construct_ssrc(
            construct_rtcp_header(w, get_app_packet_size(app.length), app.subtype, APP), ssrc), app)

\* The SR or RR at the start of a report, with its report blocks.
ReportPacket(w, srtp, kind, ssrc, info, blocks) ==
    LET size == IF kind = SR THEN get_sr_packet_size(srtp, Len(blocks))
                             ELSE get_rr_packet_size(srtp, Len(blocks))
        head == construct_ssrc(construct_rtcp_header(w, size, Len(blocks), kind), ssrc)
    IN  construct_report_blocks(
            IF kind = SR THEN construct_sender_info(head, info) ELSE head, blocks)

\* The SDES packet; second is the number the code writes as source count.
SdesPacket(w, ssrc, second, items) ==
    construct_sdes_chunk(
        construct_rtcp_header(w, get_sdes_packet_size(items), second, SDES), ssrc, items)

AppPackets(w, ssrc, apps) ==
    LET after[n \in 0 .. Len(apps)] ==
            IF n = 0 THEN w ELSE construct_app_block(after[n - 1], ssrc, apps[n])
    IN  after[Len(apps)]

ByePacket(w, ssrcs) ==
    IF ssrcs = <<>> THEN w
    ELSE construct_bye_packet(
             construct_rtcp_header(w, get_bye_packet_size(ssrcs), Len(ssrcs), BYE), ssrcs)

-----------------------------------------------------------------------------
(* Reading.                                                                *)

rtcp_length_in_bytes(length) == (length + 1) * 4

\* The mask 0xfffffd drops bit 1 of the number of packets lost.
MaskedLost(lost) == IF (lost \div 2) % 2 = 1 THEN lost - 2 ELSE lost

\* The report blocks from offset p on that fit in the packet.
read_reports(buf, p, end, count) ==
    LET fits == {i \in 1 .. count : end >= p + i * REPORT_BLOCK_SIZE}
    IN  [i \in 1 .. Cardinality(fits) |->
            LET b == buf.cell[p + (i - 1) * REPORT_BLOCK_SIZE]
            IN  [b EXCEPT !.lost = MaskedLost(@)]]

\* What the reader takes for an SSRC where no field starts are zeros.
SsrcAt(buf, p) == IF p \in DOMAIN buf.cell THEN buf.cell[p] ELSE 0

\* An octet that is not zero begins an item, whatever it was written for.
BeginsItem(buf, p) == p \in DOMAIN buf.cell /\ buf.cell[p].type # 0

\* The items of a chunk up to the first zero, and where the next chunk starts.
NextItem(buf, end, s) ==
    LET item == buf.cell[s.ptr]
    IN  IF s.ptr + 2 <= end /\ BeginsItem(buf, s.ptr)
        THEN [ptr   |-> s.ptr + IF s.ptr + ItemSize(item) <= end THEN ItemSize(item) ELSE 2,
              items |-> Append(s.items, item)]
        ELSE s

read_items(buf, start, end) ==
    LET turns == (end - start) \div 2
        after[n \in 0 .. turns] ==
            IF n = 0 THEN [ptr |-> start, items |-> <<>>] ELSE NextItem(buf, end, after[n - 1])
    IN  [after[turns] EXCEPT !.ptr = IF BeginsItem(buf, @) THEN @ ELSE Padded(@)]

\* The chunks of an SDES packet.  An item of type 0 looks like the end of a chunk.
NextChunk(buf, end, s) ==
    LET chunk == read_items(buf, s.ptr + SSRC_CSRC_SIZE, end)
    IN  IF s.ptr + SSRC_CSRC_SIZE <= end
        THEN [ptr    |-> chunk.ptr,
              chunks |-> Append(s.chunks, [ssrc |-> SsrcAt(buf, s.ptr), items |-> chunk.items])]
        ELSE s

read_chunks(buf, start, end) ==
    LET turns == (end - start) \div SSRC_CSRC_SIZE
        after[n \in 0 .. turns] ==
            IF n = 0 THEN [ptr |-> start, chunks |-> <<>>] ELSE NextChunk(buf, end, after[n - 1])
    IN  after[turns].chunks

\* One packet of a compound packet, as its handler sees it.
read_packet(buf, header, p, end) ==
    LET first == buf.cell[p]
        after == p + SSRC_CSRC_SIZE
    IN  CASE header.type = SR ->
               [type |-> SR, ssrc |-> first, info |-> buf.cell[after],
                blocks |-> read_reports(buf, after + SENDER_INFO_SIZE, end, header.count)]
          [] header.type = RR ->
               [type |-> RR, ssrc |-> first, blocks |-> read_reports(buf, after, end, header.count)]
          [] header.type = SDES ->
               [type |-> SDES, chunks |-> read_chunks(buf, p, end)]
          [] header.type = BYE ->
               [type |-> BYE, ssrcs |-> [i \in 1 .. header.count |->
                                           buf.cell[p + (i - 1) * SSRC_CSRC_SIZE]]]
          [] header.type = APP ->
               [type |-> APP, ssrc |-> first, app |-> buf.cell[after]]

Partial == [type |-> 0]     \* the reader returns without looking at the packet
Invalid == [type |-> 1]     \* the reader returns after it has updated the timeouts

\* The packets handle_incoming_packet() goes through, in their order.  Only the
\* types from SR to APP are accepted: feedback packets are invalid packets.  What comes
\* after a packet that is refused is not looked at.
NextOfCompound(buf, s) ==
    LET header == buf.cell[s.ptr]
        end    == s.ptr + rtcp_length_in_bytes(header.length)
        Refused(as) == [ptr |-> buf.size, packets |-> Append(s.packets, as)]
    IN  IF s.ptr = buf.size THEN s
        ELSE IF s.ptr \notin DOMAIN buf.cell \/ end > buf.size THEN Refused(Partial)
        ELSE IF header.type > APP \/ header.type < SR THEN Refused(Invalid)
        ELSE [ptr     |-> end,
              packets |-> Append(s.packets,
                                 read_packet(buf, header, s.ptr + RTCP_HEADER_SIZE, end))]

read_compound(buf) ==
    LET turns == buf.size \div RTCP_HEADER_SIZE
        after[n \in 0 .. turns] ==
            IF n = 0 THEN [ptr |-> 0, packets |-> <<>>] ELSE NextOfCompound(buf, after[n - 1])
    IN  after[turns].packets

\* The SSRC the reader takes for the sender of the whole compound packet.
read_sender(buf) ==
    IF buf.size > RTCP_HEADER_SIZE + SSRC_CSRC_SIZE THEN buf.cell[RTCP_HEADER_SIZE] ELSE 0
=============================================================================
