------------------------------ MODULE H2Streams ------------------------------
(***************************************************************************)
(* xdp_ngap.c and the packet decoding of test/test_xdp.c: xdp_prog() copies*)
(* packets into a ring buffer, handle_xdp_event() appends the TCP payload  *)
(* of each to the buffer of its stream, in the order of the events and     *)
(* without regard to sequence numbers, and drain_h2_frames() cuts complete *)
(* HTTP/2 frames off the front of the buffer and prints them.              *)
(*                                                                         *)
(* A stream is one direction of a TCP connection.  A byte is a record of   *)
(* its value and the stream it was sent on.  Sizes are scaled down: the    *)
(* frame header is H2_HDR bytes (9 in the code), the first of which stands *)
(* for the length field.  What the NGAP events and the frames carry beyond *)
(* that is only printed, and left out.                                     *)
(*                                                                         *)
(* External: the hosts, which send the bytes of their streams in segments  *)
(* and may send a segment again; the link, which may pad short packets to  *)
(* the minimal size of an Ethernet frame; a packet the program never sees. *)
(***************************************************************************)
EXTENDS Integers, Sequences, SequencesExt

CONSTANTS
    NULL,
    Streams,                \* the 4-tuples
    FramesOf,               \* stream -> the frames sent on it, as numbers
    H2_HDR,                 \* bytes of a frame header
    HdrsLen,                \* bytes of the IP and TCP headers
    EthMin,                 \* size a padding link gives to short packets
    Segs,                   \* sizes of the payload of a packet
    XDP_EVT_OTHER_RAW_MAX,
    RingSize,               \* events the ring buffer holds
    STREAM_CACHE_MAX,
    STREAM_BUF_MAX,
    MaxAnomalies,           \* bound on lost, repeated and empty packets
    MaxPackets              \* bound on packets

Bytes == [v : Nat, from : Streams \cup {NULL}]

\* A slot of the stream cache that is taken.
Slot == [key : Streams, buf : Seq(Bytes)]

\* Where the frames of a stream end.
Ends(c) ==
    LET E[n \in 0..Len(FramesOf[c])] == IF n = 0 THEN 0 ELSE E[n - 1] + Len(FramesOf[c][n])
    IN  E

\* The bytes of a stream.
Sent == [c \in Streams |->
           LET all == FlattenSeq(FramesOf[c])
           IN  [i \in DOMAIN all |-> [v |-> all[i], from |-> c]]]

ASSUME StreamsAssumption ==
    /\ NULL \notin Streams /\ NULL \notin Slot
    /\ STREAM_CACHE_MAX \in Nat \ {0} /\ STREAM_BUF_MAX \in Nat \ {0}
    /\ H2_HDR \in Nat \ {0} /\ HdrsLen \in Nat \ {0}
    /\ {XDP_EVT_OTHER_RAW_MAX, EthMin, RingSize} \cup Segs \subseteq Nat
    /\ \A c \in Streams :
         /\ FramesOf[c] \in Seq(Seq(Nat))
         /\ \A n \in DOMAIN FramesOf[c] :
              FramesOf[c][n] # << >> /\ Len(FramesOf[c][n]) = H2_HDR + FramesOf[c][n][1]

VARIABLES
    padding,                \* whether the link pads short packets
    next,                   \* stream -> bytes the host has sent
    events,                 \* the ring buffer
    streams,                \* slot -> [key, buf], or NULL
    anomalies, packets,     \* counted against their bounds
    \* History.
    handled,                \* stream -> bytes handle_xdp_event() has dealt with
    shown,                  \* stream -> the frames printed
    unseen,                 \* streams with a packet missed, repeated, padded,
                            \* cut, or given up for want of room in the ring
    evicted,                \* streams that lost their slot
    overrun                 \* streams with bytes dropped at a full buffer

history == << handled, shown, unseen, evicted, overrun >>
stream_vars == << padding, next, events, streams, anomalies, packets, history >>

Slots == 1..STREAM_CACHE_MAX

StreamsInit ==
    /\ padding \in BOOLEAN
    /\ next = [c \in Streams |-> 0]
    /\ events = << >>
    /\ streams = [i \in Slots |-> NULL]
    /\ anomalies = 0
    /\ packets = 0
    /\ handled = [c \in Streams |-> 0]
    /\ shown = [c \in Streams |-> << >>]
    /\ unseen = {}
    /\ evicted = {}
    /\ overrun = {}

-----------------------------------------------------------------------------
(***************************************************************************)
(* xdp_prog().                                                             *)
(***************************************************************************)
Least(a, b) == IF a < b THEN a ELSE b

HasRoom == Len(events) < RingSize

\* Filler the link appends to a packet with k bytes of payload.
Padding(k) ==
    LET n == HdrsLen + k
    IN  IF padding /\ n < EthMin
          THEN [i \in 1..(EthMin - n) |-> [v |-> 0, from |-> NULL]] ELSE << >>

\* handle_other(): bytes from the IP header on, at most XDP_EVT_OTHER_RAW_MAX
\* of them, or none if the copy fails.
Captured(packet, loaded) ==
    LET want == Least(HdrsLen + Len(packet), XDP_EVT_OTHER_RAW_MAX)
    IN  [raw_len |-> IF loaded THEN want ELSE 0,
         payload |-> SubSeq(packet, 1, IF loaded THEN want - HdrsLen ELSE 0)]

\* The event of a packet with payload seg, the first n bytes of which are new.
handle_other(c, seg, n, loaded) ==
    LET e == Captured(seg \o Padding(Len(seg)), loaded)
    IN  /\ events' = IF HasRoom
                       THEN Append(events, [type |-> "OTHER", key |-> c, new |-> n,
                                            raw_len |-> e.raw_len, payload |-> e.payload])
                       ELSE events
        /\ unseen' = IF HasRoom /\ e.payload = seg /\ n = Len(seg)
                       THEN unseen ELSE unseen \cup {c}

\* A host sends its next k bytes, possibly none (a segment that only
\* acknowledges); bpf_xdp_load_bytes() may fail.
Segment(c, k, loaded) ==
    /\ next[c] + k <= Len(Sent[c])
    /\ k = 0 \/ ~loaded => anomalies < MaxAnomalies
    /\ anomalies' = IF k = 0 \/ ~loaded THEN anomalies + 1 ELSE anomalies
    /\ next' = [next EXCEPT ![c] = @ + k]
    /\ handle_other(c, SubSeq(Sent[c], next[c] + 1, next[c] + k), k, loaded)
    /\ UNCHANGED << padding, streams, handled, shown, evicted, overrun >>

\* The packet passes before xdp_prog() is attached, or ends within the Ethernet
\* or IP header of what the program may read.
Missed(c, k) ==
    /\ anomalies < MaxAnomalies
    /\ next[c] + k <= Len(Sent[c])
    /\ anomalies' = anomalies + 1
    /\ next' = [next EXCEPT ![c] = @ + k]
    /\ unseen' = unseen \cup {c}
    /\ UNCHANGED << padding, events, streams, handled, shown, evicted, overrun >>

\* A host repeats k bytes from position p on: a retransmission, or, after
\* Missed, a packet that was overtaken.
Again(c, p, k) ==
    /\ anomalies < MaxAnomalies
    /\ p + k <= next[c]
    /\ anomalies' = anomalies + 1
    /\ handle_other(c, SubSeq(Sent[c], p + 1, p + k), 0, TRUE)
    /\ UNCHANGED << padding, next, streams, handled, shown, evicted, overrun >>

\* handle_sctp(): an event for a DATA chunk of NGAP with 16 bytes behind its
\* header, and for nothing else.  pkt.within is the number of these parts that
\* lie within the packet: SCTP header, chunk header, the 16 bytes.
SctpPackets == [within : 0..3, type : {"DATA", "SACK"}, ppid : {"NGAP", "other"}]

handle_sctp(pkt) ==
    /\ events' = IF /\ pkt.within = 3 /\ pkt.type = "DATA" /\ pkt.ppid = "NGAP"
                    /\ HasRoom
                   THEN Append(events, [type |-> "NGAP"]) ELSE events
    /\ UNCHANGED << padding, next, streams, anomalies, history >>

\* Non-SCTP packets all go to handle_other(); handle_tls() is never called.
xdp_prog ==
    \/ \E c \in Streams, k \in Segs, loaded \in BOOLEAN : Segment(c, k, loaded)
    \/ \E pkt \in SctpPackets : handle_sctp(pkt)

-----------------------------------------------------------------------------
(***************************************************************************)
(* handle_xdp_event().                                                     *)
(***************************************************************************)
\* decode_ip_tcp(): payload_len is what was captured behind the headers.
payload_len(e) == IF e.raw_len > HdrsLen THEN e.raw_len - HdrsLen ELSE 0

\* find_or_create_stream(): the slot of the stream, else the first free slot,
\* else the first slot.
FoundSlot(c) == {i \in Slots : streams[i] # NULL /\ streams[i].key = c}
FreeSlot == {i \in Slots : streams[i] = NULL}
First(S) == CHOOSE i \in S : \A j \in S : i <= j

\* Wrong variant: a taken slot is not cleared.
find_or_create_stream_dirty(c) ==
    LET i == IF FoundSlot(c) # {} THEN First(FoundSlot(c))
             ELSE IF FreeSlot # {} THEN First(FreeSlot) ELSE 1
    IN  [slot |-> i, buf |-> IF streams[i] = NULL THEN << >> ELSE streams[i].buf]

find_or_create_stream(c) ==
    IF FoundSlot(c) # {}
      THEN [slot |-> First(FoundSlot(c)), buf |-> streams[First(FoundSlot(c))].buf]
    ELSE IF FreeSlot # {} THEN [slot |-> First(FreeSlot), buf |-> << >>]
    ELSE [slot |-> 1, buf |-> << >>]

\* The offset behind the frame at offset off, or off if that frame is not
\* complete.
NextOffset(buf, off) ==
    IF Len(buf) - off >= H2_HDR /\ Len(buf) - off >= H2_HDR + buf[off + 1].v
      THEN off + H2_HDR + buf[off + 1].v ELSE off

\* drain_h2_frames(): the frames printed, and what stays in the buffer.  Wrong
\* variant: one frame per event.
drain_h2_frames_one(buf) ==
    LET n == NextOffset(buf, 0)
    IN  [frames |-> IF n = 0 THEN << >> ELSE << SubSeq(buf, 1, n) >>,
         buf |-> SubSeq(buf, n + 1, Len(buf))]

drain_h2_frames(buf) ==
    LET Off[n \in 0..Len(buf)] == IF n = 0 THEN 0 ELSE NextOffset(buf, Off[n - 1])
        done == {n \in 1..Len(buf) : Off[n] > Off[n - 1]}
    IN  [frames |-> [n \in done |-> SubSeq(buf, Off[n - 1] + 1, Off[n])],
         buf |-> SubSeq(buf, Off[Len(buf)] + 1, Len(buf))]

\* As much of the payload as fits is appended.
Appended(buf, payload) ==
    buf \o SubSeq(payload, 1, Least(Len(payload), STREAM_BUF_MAX - Len(buf)))

\* A TCP packet with payload.
Reassemble(e) ==
    LET c == e.key
        s == find_or_create_stream(c)
        full == Appended(s.buf, e.payload)
        d == drain_h2_frames(full)
    IN  /\ streams' = [streams EXCEPT ![s.slot] = [key |-> c, buf |-> d.buf]]
        /\ shown' = [shown EXCEPT ![c] = @ \o d.frames]
        /\ evicted' = IF streams[s.slot] # NULL /\ streams[s.slot].key # c
                        THEN evicted \cup {streams[s.slot].key} ELSE evicted
        /\ overrun' = IF Len(full) < Len(s.buf) + Len(e.payload)
                        THEN overrun \cup {c} ELSE overrun

handle_xdp_event ==
    /\ events # << >>
    /\ events' = Tail(events)
    /\ LET e == Head(events)
       IN  \/ /\ e.type = "NGAP"
              /\ UNCHANGED << streams, history >>
           \/ /\ e.type = "OTHER"
              /\ handled' = [handled EXCEPT ![e.key] = @ + e.new]
              /\ \/ /\ payload_len(e) = 0
                    /\ UNCHANGED << streams, shown, evicted, overrun >>
                 \/ /\ payload_len(e) > 0
                    /\ Reassemble(e)
              /\ UNCHANGED unseen
    /\ UNCHANGED << padding, next, anomalies, packets >>

Packet ==
    /\ packets < MaxPackets
    /\ packets' = packets + 1
    /\ \/ xdp_prog
       \/ \E c \in Streams, k \in Segs \ {0} : Missed(c, k)
       \/ \E c \in Streams, k \in Segs \ {0} : \E p \in 0..next[c] : Again(c, p, k)

StreamsNext == Packet \/ handle_xdp_event

StreamsSpec == StreamsInit /\ [][StreamsNext]_stream_vars

-----------------------------------------------------------------------------
(***************************************************************************)
(* Properties.                                                             *)
(***************************************************************************)
\* The types; a buffer never holds more than STREAM_BUF_MAX bytes.
StreamsTypeOK ==
    /\ \A c \in Streams : next[c] \in 0..Len(Sent[c]) /\ handled[c] <= next[c]
    /\ Len(events) <= RingSize
    /\ \A i \in Slots : streams[i] # NULL =>
         /\ streams[i].key \in Streams
         /\ streams[i].buf \in Seq(Bytes)
         /\ Len(streams[i].buf) <= STREAM_BUF_MAX
    /\ evicted \cup overrun \cup unseen \subseteq Streams

\* Values of the frames printed for stream c.
Values(c) == [n \in DOMAIN shown[c] |-> [i \in DOMAIN shown[c][n] |-> shown[c][n][i].v]]

\* The number of frames of a stream that end within its first k bytes.
EndedIn ==
    [c \in Streams |-> [k \in 0..Len(Sent[c]) |->
        Cardinality({n \in DOMAIN FramesOf[c] : Ends(c)[n] <= k})]]

\* drain_h2_frames(): however a stream is cut into packets and its packets mixed
\* with others', the frames printed are exactly those that have ended in what
\* was handled so far: none is held back, split, or joined with another.  It
\* takes a packet unseen or seen twice, the loss of the slot, or a full buffer
\* to get anything else.
ReassemblyExact ==
    \A c \in Streams \ (unseen \cup evicted \cup overrun) :
        Values(c) = SubSeq(FramesOf[c], 1, EndedIn[c][handled[c]])

\* struct tcp_stream: whatever was lost, a printed frame has no byte of another
\* stream, a slot that changes hands included.
NoForeignBytes ==
    \A c \in Streams : \A n \in DOMAIN shown[c] :
        \A i \in DOMAIN shown[c][n] : shown[c][n][i].from \in {c, NULL}

=============================================================================
