---------------------------- MODULE PacketNotify ----------------------------
(***************************************************************************)
(* The packet-notify engine of one server connection                      *)
(* (lib/engine/src/net/packet_notify.rs, FNetPacketNotify), driven the way *)
(* the cluster thread drives it: every datagram of the session goes        *)
(* through NetConnection::received_packet (header, sequence delta, ack     *)
(* processing, ack_seq), then world.tick, then NetConnection::flush_net,   *)
(* which writes at least one packet (write_header, commit_and_increment_   *)
(* seq) and one more per bunch left in the send queue                      *)
(* (logic/cluster.rs receive_packet).                                      *)
(*                                                                         *)
(* The remote end is an Unreal client, outside this repository: it numbers *)
(* its packets consecutively modulo 2^14 from the cookie-derived client    *)
(* sequence, and acks the newest server packet it has seen (modular        *)
(* comparison).  UDP may lose, duplicate and reorder datagrams: the two    *)
(* directions are sets of headers, a delivered header stays in the set     *)
(* (it may be delivered again) until a Lose step drops it.                 *)
(*                                                                         *)
(* Sequence numbers keep both of the code's widths: the wire carries 14    *)
(* bits (FPackedHeader masks), the fields are u16 (SequenceNumber), and    *)
(* arithmetic on them wraps at 2^16 as in a release build.                 *)
(***************************************************************************)
EXTENDS Integers, Sequences, FiniteSets

CONSTANTS
    SeqMod,           \* 2^SEQUENCE_NUMBER_BITS, the wire sequence modulus
    WordMod,          \* 2^16, the width of SequenceNumber = u16
    HistorySize,      \* HISTORY_SIZE = 256
    BitsPerWord,      \* BITS_PER_WORD = 32
    InitSeqs,         \* cookie-derived initial sequences (server_seq, client_seq)
    MaxClientPackets, \* bound: datagrams the client sends
    MaxServerPackets, \* bound: packets the server writes
    MaxQueued         \* bound: bunches world.tick leaves in the send queue

WordCount == HistorySize \div BitsPerWord   \* WORD_COUNT
HistIdx == 0 .. HistorySize - 1

VARIABLES
    pn,         \* the server's FNetPacketNotify
    cOutSeq,    \* client: wire seq of its next packet
    cInAckSeq,  \* client: newest server seq it has received
    cSent,      \* client: datagrams sent so far (bounded)
    sSent,      \* server: packets written so far (bounded)
    toServer,   \* datagram headers in flight client -> server
    toClient,   \* wire seqs of server packets in flight server -> client
    received,   \* client seqs whose datagram reached received_packet
    lastIn      \* the last datagram received and the in_ack_seq before it

vars == <<pn, cOutSeq, cInAckSeq, cSent, sSent, toServer, toClient,
          received, lastIn>>

SentAckData == [out_seq : 0 .. WordMod - 1, in_ack_seq : 0 .. WordMod - 1]
Header == [seq : 0 .. SeqMod - 1, acked : 0 .. SeqMod - 1]
NoPacket == [seq |-> -1, prev |-> -1]

(* diff: absolute difference of two sequence numbers *)
diff(a, b) == IF a >= b THEN a - b ELSE b - a

MinOf(a, b) == IF a <= b THEN a ELSE b

(* Fault model for init: the decrement computed without the u16 wrap. *)
InitNotifySigned(inSeq, outSeq) ==
    [ack_record |-> << >>, written_history_word_count |-> 0, written_in_ack_seq |-> 0,
     in_seq_history |-> [i \in HistIdx |-> FALSE], in_seq |-> inSeq, in_ack_seq |-> inSeq,
     in_ack_seq_ack |-> inSeq, out_seq |-> outSeq, out_ack_seq |-> outSeq - 1,
     waiting_for_flush_seq_ack |-> outSeq - 1]

(* FNetPacketNotify::init, called by NetConnection::init_sequence with the *)
(* cookie-derived (client_seq, server_seq); u16 subtraction wraps.         *)
InitNotify(inSeq, outSeq) ==
    [ack_record                 |-> << >>,
     written_history_word_count |-> 0,
     written_in_ack_seq         |-> 0,
     in_seq_history             |-> [i \in HistIdx |-> FALSE],
     in_seq                     |-> inSeq,
     in_ack_seq                 |-> inSeq,
     in_ack_seq_ack             |-> inSeq,
     out_seq                    |-> outSeq,
     out_ack_seq                |-> (outSeq - 1) % WordMod,
     waiting_for_flush_seq_ack  |-> (outSeq - 1) % WordMod]

WillSequenceFitInSequenceHistory(p, seq) ==
    seq >= p.in_ack_seq_ack /\ diff(seq, p.in_ack_seq_ack) <= HistorySize

GetCurrentSequenceHistoryLength(p) ==
    IF p.in_ack_seq >= p.in_ack_seq_ack
    THEN MinOf(diff(p.in_ack_seq, p.in_ack_seq_ack), HistorySize)
    ELSE HistorySize

IsWaitingForSequenceHistoryFlush(p) ==
    p.waiting_for_flush_seq_ack > p.out_ack_seq

GetHasUnacknowledgedAcks(p) ==
    \E i \in 0 .. GetCurrentSequenceHistoryLength(p) - 1 : p.in_seq_history[i]

(* SequenceHistory::add_delivery_status: shift the 256-bit register left *)
(* by one (carrying across words), the new status in bit 0.             *)
AddDeliveryStatus(h, delivered) ==
    [i \in HistIdx |-> IF i = 0 THEN delivered ELSE h[i - 1]]

(* update_in_ack_seq_ack: pops the newest record when ack_count > 1, then *)
(* the oldest; falls back to acked_seq itself.                           *)
UpdateInAckSeqAck(p, ackCount, ackedSeq) ==
    IF ackCount <= Len(p.ack_record)
    THEN LET rest  == IF ackCount > 1 THEN SubSeq(p.ack_record, 1, Len(p.ack_record) - 1)
                                      ELSE p.ack_record
             front == IF rest = << >> THEN [out_seq |-> 0, in_ack_seq |-> 0] ELSE Head(rest)
             left  == IF rest = << >> THEN rest ELSE Tail(rest)
         IN  [record |-> left,
              value  |-> IF front.out_seq = ackedSeq THEN front.in_ack_seq ELSE ackedSeq]
    ELSE [record |-> p.ack_record, value |-> ackedSeq]

(* process_received_acks; the two loops only walk the notifications,     *)
(* which are commented out, and change no field.                         *)
ProcessReceivedAcks(p, h) ==
    IF h.acked > p.out_ack_seq
    THEN LET u == UpdateInAckSeqAck(p, diff(h.acked, p.out_ack_seq), h.acked)
         IN  [p EXCEPT !.ack_record = u.record,
                       !.in_ack_seq_ack = IF u.value > @ THEN u.value ELSE @,
                       !.out_ack_seq = h.acked,
                       !.waiting_for_flush_seq_ack = IF h.acked > @ THEN h.acked ELSE @]
    ELSE p

InternalUpdate(p, h) ==
    LET p1 == IF ~IsWaitingForSequenceHistoryFlush(p)
                 /\ ~WillSequenceFitInSequenceHistory(p, h.seq)
              THEN IF GetHasUnacknowledgedAcks(p)
                   THEN [p EXCEPT !.waiting_for_flush_seq_ack = p.out_seq]
                   ELSE [p EXCEPT !.in_ack_seq_ack = (h.seq - 1) % WordMod]
              ELSE p
    IN  [p1 EXCEPT !.in_seq = h.seq]

(* Fault model for ack_seq: report_acked without `in_ack_seq == acked_seq`, *)
(* so every skipped sequence is reported delivered.                       *)
RECURSIVE AckSeqReportsSkipped(_, _, _)
AckSeqReportsSkipped(p, ackedSeq, isAck) ==
    IF ackedSeq > p.in_ack_seq
    THEN AckSeqReportsSkipped([p EXCEPT !.in_ack_seq = @ + 1,
                                        !.in_seq_history = AddDeliveryStatus(@, isAck)],
                              ackedSeq, isAck)
    ELSE p

(* ack_seq: one history step per sequence between in_ack_seq and acked. *)
RECURSIVE AckSeq(_, _, _)
AckSeq(p, ackedSeq, isAck) ==
    IF ackedSeq > p.in_ack_seq
    THEN LET next == p.in_ack_seq + 1
         IN  AckSeq([p EXCEPT !.in_ack_seq = next,
                              !.in_seq_history =
                                  AddDeliveryStatus(@, next = ackedSeq /\ isAck)],
                    ackedSeq, isAck)
    ELSE p

GetSequenceDelta(p, h) ==
    IF h.seq > p.in_seq /\ h.acked >= p.out_ack_seq /\ p.out_seq >= h.acked
    THEN diff(h.seq, p.in_seq)
    ELSE 0

(* NetConnection::received_packet: ack_seq runs whatever the delta.      *)
ReceivedPacket(p, h) ==
    LET p1 == IF GetSequenceDelta(p, h) > 0
              THEN InternalUpdate(ProcessReceivedAcks(p, h), h)
              ELSE p
    IN  AckSeq(p1, h.seq, TRUE)

(* write_header(refresh = false): the word count of the history it       *)
(* writes, clamp(ceil(length / 32), 1, WORD_COUNT); the packed header is  *)
(* (out_seq, in_ack_seq, count - 1).                                      *)
WriteHeader(p) ==
    LET wc == (GetCurrentSequenceHistoryLength(p) + BitsPerWord - 1) \div BitsPerWord
    IN  [p EXCEPT !.written_history_word_count =
                      IF wc < 1 THEN 1 ELSE IF wc > WordCount THEN WordCount ELSE wc]

(* commit_and_increment_seq records written_in_ack_seq, a field nothing  *)
(* assigns after Default.                                                 *)
CommitAndIncrementSeq(p) ==
    [p EXCEPT !.ack_record = Append(@, [out_seq    |-> p.out_seq,
                                        in_ack_seq |-> p.written_in_ack_seq]),
              !.written_history_word_count = 0,
              !.out_seq = (@ + 1) % WordMod]

(* flush_outgoing_packet *)
FlushOutgoingPacket(p) == CommitAndIncrementSeq(WriteHeader(p))

(* flush_net: one packet always, one per queued bunch after the first.   *)
PacketsFlushed(queued) == IF queued = 0 THEN 1 ELSE queued

RECURSIVE FlushNet(_, _)
FlushNet(p, n) == IF n = 0 THEN p ELSE FlushNet(FlushOutgoingPacket(p), n - 1)

-----------------------------------------------------------------------------
Init ==
    \E s \in InitSeqs, c \in InitSeqs :
        /\ pn = InitNotify(c, s)
        /\ cOutSeq = c
        /\ cInAckSeq = (s - 1) % SeqMod
        /\ cSent = 0
        /\ sSent = 0
        /\ toServer = {}
        /\ toClient = {}
        /\ received = {}
        /\ lastIn = NoPacket

(* cluster.rs receive_packet: received_packet, world.tick, flush_net.     *)
ServerReceive ==
    \E h \in toServer, queued \in 0 .. MaxQueued :
        LET n  == PacketsFlushed(queued)
            p1 == ReceivedPacket(pn, h)
        IN  /\ sSent + n <= MaxServerPackets
            /\ pn' = FlushNet(p1, n)
            /\ sSent' = sSent + n
            /\ toClient' = toClient \cup
                   {((p1.out_seq + j) % WordMod) % SeqMod : j \in 0 .. n - 1}
            /\ received' = received \cup {h.seq}
            /\ lastIn' = [seq |-> h.seq, prev |-> pn.in_ack_seq]
            /\ UNCHANGED <<cOutSeq, cInAckSeq, cSent, toServer>>

(* Client sends its next datagram, acking the newest server packet. *)
ClientSend ==
    /\ cSent < MaxClientPackets
    /\ toServer' = toServer \cup {[seq |-> cOutSeq, acked |-> cInAckSeq]}
    /\ cOutSeq' = (cOutSeq + 1) % SeqMod
    /\ cSent' = cSent + 1
    /\ UNCHANGED <<pn, cInAckSeq, sSent, toClient, received, lastIn>>

(* Modular "newer than" of the client's 14-bit sequence numbers. *)
SeqNewer(a, b) == a # b /\ (a - b) % SeqMod < SeqMod \div 2

ClientReceive ==
    \E s \in toClient :
        /\ SeqNewer(s, cInAckSeq)
        /\ cInAckSeq' = s
        /\ UNCHANGED <<pn, cOutSeq, cSent, sSent, toServer, toClient,
                       received, lastIn>>

LoseToServer ==
    \E h \in toServer :
        /\ toServer' = toServer \ {h}
        /\ UNCHANGED <<pn, cOutSeq, cInAckSeq, cSent, sSent, toClient,
                       received, lastIn>>

LoseToClient ==
    \E s \in toClient :
        /\ toClient' = toClient \ {s}
        /\ UNCHANGED <<pn, cOutSeq, cInAckSeq, cSent, sSent, toServer,
                       received, lastIn>>

Next == ServerReceive \/ ClientSend \/ ClientReceive \/ LoseToServer \/ LoseToClient

Spec == Init /\ [][Next]_vars

-----------------------------------------------------------------------------
TypeOK ==
    /\ pn.ack_record \in Seq(SentAckData)
    /\ pn.in_seq_history \in [HistIdx -> BOOLEAN]
    /\ {pn.in_seq, pn.in_ack_seq, pn.in_ack_seq_ack, pn.out_seq, pn.out_ack_seq,
        pn.waiting_for_flush_seq_ack, pn.written_in_ack_seq} \subseteq 0 .. WordMod - 1
    /\ cOutSeq \in 0 .. SeqMod - 1 /\ cInAckSeq \in 0 .. SeqMod - 1
    /\ toServer \subseteq Header /\ toClient \subseteq 0 .. SeqMod - 1
    /\ received \subseteq 0 .. SeqMod - 1

(* The history the server writes in every header (in_seq_history behind  *)
(* in_ack_seq, as built by ack_seq) marks a client sequence delivered    *)
(* only if that datagram really reached received_packet: the client      *)
(* treats a set bit as delivery and never resends its reliable bunches.  *)
HistoryOnlyAcksReceived ==
    \A i \in HistIdx :
        pn.in_seq_history[i] => (pn.in_ack_seq - i) % SeqMod \in received

(* The ack FIFO holds exactly the written packets the client has not yet *)
(* acked, oldest first (spec 4.4: process_received_acks pops "up to one  *)
(* entry from the head").                                                *)
AckRecordMatchesUnacked ==
    LET unacked == (pn.out_seq - pn.out_ack_seq - 1) % WordMod
    IN  [k \in 1 .. Len(pn.ack_record) |-> pn.ack_record[k].out_seq]
          = [k \in 1 .. unacked |-> (pn.out_ack_seq + k) % WordMod]

(* A datagram whose seq is newer, modulo 2^14, than every one received   *)
(* before is acked by received_packet: in_ack_seq becomes its seq, which *)
(* the next header reports back (spec 4.4, sequence modulus 16384).      *)
AckTracksNewestPacket ==
    lastIn # NoPacket /\ SeqNewer(lastIn.seq, lastIn.prev)
        => pn.in_ack_seq = lastIn.seq
=============================================================================
