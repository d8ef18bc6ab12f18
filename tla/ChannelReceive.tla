--------------------------- MODULE ChannelReceive ---------------------------
(***************************************************************************)
(* The receive side of one channel (servers/game-server/src/net/channel/   *)
(* mod.rs, Channel<Impl>): received_raw_bunch buffers partial bunches,     *)
(* sorted by ch_sequence, and reassembles a group when its final fragment  *)
(* arrives (next_partial_sequence); received_bunch applies the reliable-   *)
(* order gate on in_reliable and hands the bunch to the channel impl.      *)
(* NetConnection::dispatch_packet only passes reliable bunches on, so      *)
(* every bunch here carries a 10-bit ch_sequence from the wire.            *)
(*                                                                         *)
(* The sender is the Unreal client: it numbers its reliable bunches        *)
(* (out_reliable + 1) & 1023 from the channel's initial reliable sequence, *)
(* a message larger than one bunch going out as consecutive fragments      *)
(* with partial_initial on the first and partial_final on the last.  A     *)
(* bunch it has sent may reach the server any number of times and in any   *)
(* order (UDP duplication and reordering, retransmission of bunches whose  *)
(* packet was not acked in time), or never.                                *)
(***************************************************************************)
EXTENDS Integers, Sequences, FiniteSets, Functions

CONSTANTS
    ChSeqMod,       \* 1024: ch_sequence is 10 bits on the wire
    InitInReliable, \* init_in_reliable = client_seq & 1023
    MessageSizes,   \* fragments per reliable message the client sends, in order
    MaxDeliveries   \* bound: bunches the server receives

(* The client's bunches in send order: message m, fragment f of k. *)
Bunches ==
    LET sizes == MessageSizes
        before(m) == IF m = 1 THEN 0
                     ELSE LET RECURSIVE S(_) S(j) == IF j = 0 THEN 0 ELSE sizes[j] + S(j - 1)
                          IN S(m - 1)
        all == UNION {{[msg |-> m, frag |-> f, k |-> sizes[m], pos |-> before(m) + f]
                         : f \in 1 .. sizes[m]} : m \in 1 .. Len(sizes)}
    IN  [i \in 1 .. Cardinality(all) |-> CHOOSE b \in all : b.pos = i]

(* The wire form of the i-th bunch. *)
WireBunch(i) ==
    LET b == Bunches[i]
    IN  [ch_sequence     |-> (InitInReliable + i) % ChSeqMod,
         partial         |-> b.k > 1,
         partial_initial |-> b.k > 1 /\ b.frag = 1,
         partial_final   |-> b.k > 1 /\ b.frag = b.k,
         parts           |-> << <<b.msg, b.frag>> >>]

VARIABLES
    in_reliable,              \* Channel.in_reliable
    pending_partial_bunches,  \* Channel.pending_partial_bunches, sorted
    sent,                     \* client: bunches sent so far (a prefix)
    deliveries,               \* bunches the server has received (bounded)
    dispatched                \* bunches handed to the channel impl, in order

vars == <<in_reliable, pending_partial_bunches, sent, deliveries, dispatched>>

(* sort_by_key(ch_sequence) is stable: a pushed bunch goes after every   *)
(* buffered bunch whose ch_sequence is not greater.                       *)
InsertSorted(s, b) ==
    LET n == Cardinality({j \in 1 .. Len(s) : s[j].ch_sequence <= b.ch_sequence})
    IN  SubSeq(s, 1, n) \o <<b>> \o SubSeq(s, n + 1, Len(s))

(* next_partial_sequence: walk the sorted buffer remembering the last     *)
(* partial_initial; a contiguous run reaching a partial_final bunch       *)
(* yields (start, i), both 0-based as in the Vec.                          *)
RECURSIVE Scan(_, _, _, _)
Scan(s, i, start, prev) ==
    IF i > Len(s) THEN <<>>
    ELSE IF s[i].partial_initial THEN Scan(s, i + 1, i - 1, s[i].ch_sequence)
    ELSE IF prev + 1 # s[i].ch_sequence THEN Scan(s, i + 1, start, prev)
    ELSE IF s[i].partial_final /\ start # -1 THEN <<start, i - 1>>
    ELSE Scan(s, i + 1, start, s[i].ch_sequence)

NextPartialSequence(s) == Scan(s, 1, -1, 0)

(* The reassembled bunch: Bunch::default() folded over drain(start..end), *)
(* so it keeps ch_sequence 0 and concatenates the fragments' payloads.    *)
Reassemble(s, start, end) ==
    [ch_sequence |-> 0, partial |-> FALSE, partial_initial |-> FALSE,
     partial_final |-> FALSE,
     parts |-> LET RECURSIVE Cat(_) Cat(j) == IF j > end THEN <<>> ELSE s[j].parts \o Cat(j + 1)
               IN Cat(start + 1)]

(* received_bunch: the reliable-order gate. *)
Gate(b) == b.ch_sequence > in_reliable \/ b.ch_sequence = 0

(* Fault model for received_bunch: in_reliable kept as the next expected *)
(* sequence instead of the last one received.                           *)
ReceivedBunchNextExpected(b) ==
    IF Gate(b)
    THEN /\ in_reliable' = b.ch_sequence + 1
         /\ dispatched' = Append(dispatched, b)
    ELSE UNCHANGED <<in_reliable, dispatched>>

ReceivedBunch(b) ==
    IF Gate(b)
    THEN /\ in_reliable' = b.ch_sequence
         /\ dispatched' = Append(dispatched, b)
    ELSE UNCHANGED <<in_reliable, dispatched>>

(* received_raw_bunch *)
ReceivedRawBunch(b) ==
    IF b.partial
    THEN LET buf == InsertSorted(pending_partial_bunches, b)
             se  == NextPartialSequence(buf)
         IN  IF b.partial_final /\ se # <<>>
             THEN /\ pending_partial_bunches' =
                         SubSeq(buf, 1, se[1]) \o SubSeq(buf, se[2] + 1, Len(buf))
                  /\ ReceivedBunch(Reassemble(buf, se[1], se[2]))
             ELSE /\ pending_partial_bunches' = buf
                  /\ UNCHANGED <<in_reliable, dispatched>>
    ELSE /\ ReceivedBunch(b)
         /\ UNCHANGED pending_partial_bunches

-----------------------------------------------------------------------------
Init ==
    /\ in_reliable = InitInReliable
    /\ pending_partial_bunches = <<>>
    /\ sent = 0
    /\ deliveries = 0
    /\ dispatched = <<>>

ClientSend ==
    /\ sent < Len(Bunches)
    /\ sent' = sent + 1
    /\ UNCHANGED <<in_reliable, pending_partial_bunches, deliveries, dispatched>>

(* A datagram carrying a sent bunch reaches dispatch_packet. *)
Deliver ==
    \E i \in 1 .. sent :
        /\ deliveries < MaxDeliveries
        /\ deliveries' = deliveries + 1
        /\ ReceivedRawBunch(WireBunch(i))
        /\ UNCHANGED sent

Next == ClientSend \/ Deliver

Spec == Init /\ [][Next]_vars

-----------------------------------------------------------------------------
Part == (1 .. Len(MessageSizes)) \X (1 .. 8)
Bunch == [ch_sequence : 0 .. ChSeqMod - 1, partial : BOOLEAN,
          partial_initial : BOOLEAN, partial_final : BOOLEAN, parts : Seq(Part)]

TypeOK ==
    /\ in_reliable \in 0 .. ChSeqMod - 1
    /\ pending_partial_bunches \in Seq(Bunch)
    /\ dispatched \in Seq(Bunch)
    /\ sent \in 0 .. Len(Bunches)

(* The messages the channel impl sees, in order. *)
DispatchedMsgs == [j \in 1 .. Len(dispatched) |-> dispatched[j].parts[1][1]]

ReassemblesWholeMessage ==
    \A j \in 1 .. Len(dispatched) :
        LET ps == dispatched[j].parts
            m  == ps[1][1]
        IN  ps = [f \in 1 .. MessageSizes[m] |-> <<m, f>>]
=============================================================================
