---------------------------- MODULE ArcReliable ----------------------------
(***************************************************************************)
(* The data structures and helper functions of the ARC reliable endpoint   *)
(* (arc_reliable.h, arc_reliable.c) as operators on an endpoint record r.  *)
(* Every C function that updates *r is an operator that returns the new    *)
(* record; a function that also emits frames has a companion operator for  *)
(* the frames.  The modules ReliableEndpoint (one endpoint in an arbitrary *)
(* environment) and ReliableNetwork (endpoints over a lossy network) are   *)
(* built from these operators.                                             *)
(*                                                                         *)
(* A frame keeps the fields the endpoint reads.  The flag bits, family and *)
(* type are reduced to two Booleans: reliable (ARC_FLAG_RELIABLE) and ack  *)
(* (the three-way test of is_ack_frame).  A payload is a sequence of byte  *)
(* values for an ACK and <<c>> for application data, where c identifies    *)
(* the arc_reliable_send call, so that copies of a frame are recognised.   *)
(***************************************************************************)
EXTENDS Tables, Sequences

CONSTANTS
  ARC_RELIABLE_PENDING_MAX,  \* slots for unacknowledged frames
  ARC_RELIABLE_SEEN_MAX,     \* slots for recently received frames
  ARC_RELIABLE_SOURCES_MAX,  \* slots for the session of each peer
  BYTE,                      \* values of an uint8_t  (2^8 in the code)
  HALF_CLOCK,                \* half the values of an uint32_t (2^31 in the code)
  timeout_ms,                \* retransmission timeout given to init
  max_retries                \* retransmissions given to init

\* seen_next_idx is an uint8_t, so a larger seen[] would not be cycled through.
ASSUME TableSizes ==
  /\ ARC_RELIABLE_PENDING_MAX \in Nat \ {0}
  /\ ARC_RELIABLE_SEEN_MAX \in 1 .. 256
  /\ ARC_RELIABLE_SOURCES_MAX \in Nat \ {0}

ASSUME Widths == BYTE \in Nat \ {0} /\ HALF_CLOCK \in Nat \ {0}

\* The signed comparison in arc_reliable_tick is only meaningful for timeouts
\* below half the range of the millisecond clock (24 days in the code).
ASSUME Timers == timeout_ms \in 0 .. HALF_CLOCK - 1 /\ max_retries \in Nat

SEQ_VALUES == BYTE * BYTE          \* an uint16_t
Seqs       == 0 .. SEQ_VALUES - 1
CLOCK      == 2 * HALF_CLOCK       \* an uint32_t
Clocks     == 0 .. CLOCK - 1

----------------------------------------------------------------------------
(* An entry of pending[]; flags is reduced to the ack Boolean, because     *)
(* only frames with ARC_FLAG_RELIABLE are parked.                          *)
arc_reliable_pending_t(Addrs, Sessions, Payloads) ==
  [deadline_ms : Clocks, retries : 0 .. max_retries, dst : Addrs,
   ack : BOOLEAN, session : Sessions, seq : Seqs, payload : Payloads]

arc_reliable_seen_t(Addrs, Sessions) ==
  [src : Addrs, session : Sessions, seq : Seqs]

arc_reliable_source_t(Addrs, Sessions) ==
  [src : Addrs, session : Sessions]

arc_reliable_t(Addrs, Sessions, Payloads) ==
  [my_addr : Addrs, session : Sessions, next_seq : Seqs,
   pending : [0 .. ARC_RELIABLE_PENDING_MAX - 1 ->
                arc_reliable_pending_t(Addrs, Sessions, Payloads) \cup {Free}],
   seen : [0 .. ARC_RELIABLE_SEEN_MAX - 1 ->
             arc_reliable_seen_t(Addrs, Sessions) \cup {Free}],
   seen_next_idx : 0 .. ARC_RELIABLE_SEEN_MAX - 1,
   sources : [0 .. ARC_RELIABLE_SOURCES_MAX - 1 ->
                arc_reliable_source_t(Addrs, Sessions) \cup {Free}]]

arc_reliable_init(my_addr, session, first_seq) ==
  [my_addr       |-> my_addr,
   session       |-> session,
   next_seq      |-> first_seq,
   pending       |-> EmptyTable(ARC_RELIABLE_PENDING_MAX),
   seen          |-> EmptyTable(ARC_RELIABLE_SEEN_MAX),
   seen_next_idx |-> 0,
   sources       |-> EmptyTable(ARC_RELIABLE_SOURCES_MAX)]

----------------------------------------------------------------------------
(* Sequence numbers and frames.                                            *)

\* Faulty variants of the functions below have a suffix after the name; they
\* are not used, and show that the properties can tell a wrong endpoint from
\* the right one.  Here: the counter does not wrap.
take_seq_NoWrap(r) == [r EXCEPT !.next_seq = @ + 1]

take_seq(r) == [r EXCEPT !.next_seq = (@ + 1) % SEQ_VALUES]

is_ack_frame(f) == f.ack

pending_to_frame(p, my_addr) ==
  [src |-> my_addr, dst |-> p.dst, reliable |-> TRUE, ack |-> p.ack,
   session |-> p.session, seq |-> p.seq, payload |-> p.payload]

\* Faulty: the high byte of the SEQ is lost.
emit_ack_LowByte(r, original) ==
  [src |-> r.my_addr, dst |-> original.src, reliable |-> FALSE, ack |-> TRUE,
   session |-> r.session, seq |-> r.next_seq,
   payload |-> <<0, original.seq % BYTE>>]

\* The ACK emit_ack hands to send_fn; its SEQ is the one take_seq consumes.
\* The payload is the acknowledged SEQ split into two bytes, high byte first.
emit_ack(r, original) ==
  [src |-> r.my_addr, dst |-> original.src, reliable |-> FALSE, ack |-> TRUE,
   session |-> r.session, seq |-> r.next_seq,
   payload |-> <<original.seq \div BYTE, original.seq % BYTE>>]

acked_seq(f) == f.payload[1] * BYTE + f.payload[2]

----------------------------------------------------------------------------
(* The pending table.                                                      *)

\* Faulty: in_use is not checked.
pending_alloc_AnySlot(t) == FirstSlot(DOMAIN t)

pending_alloc(t) == FirstSlot(FreeSlots(t))

\* The slots pending_find matches; it returns the first one.
PendingMatches(t, dst, session, seq) ==
  {i \in UsedSlots(t) :
     t[i].dst = dst /\ t[i].session = session /\ t[i].seq = seq}

pending_find(t, dst, session, seq) ==
  FirstSlot(PendingMatches(t, dst, session, seq))

\* Faulty: the frame is due at once.
StagedEntry_Due(r, dst, ack, payload, now_ms) ==
  [deadline_ms |-> now_ms, retries |-> 0, dst |-> dst,
   ack |-> ack, session |-> r.session, seq |-> r.next_seq, payload |-> payload]

\* The entry arc_reliable_send stages for its frame, and the frame it emits.
StagedEntry(r, dst, ack, payload, now_ms) ==
  [deadline_ms |-> (now_ms + timeout_ms) % CLOCK, retries |-> 0, dst |-> dst,
   ack |-> ack, session |-> r.session, seq |-> r.next_seq, payload |-> payload]

\* arc_reliable_send with reliable = true and a free slot.  The SEQ is taken
\* before the slot is allocated, so a full table still consumes one.
SendParked(r, dst, ack, payload, now_ms) ==
  [take_seq(r) EXCEPT
     !.pending[pending_alloc(r.pending)] =
        StagedEntry(r, dst, ack, payload, now_ms)]

\* Faulty: a strict comparison, and an unsigned one.
Expired_Strict(p, now_ms) == (now_ms - p.deadline_ms) % CLOCK \in 1 .. HALF_CLOCK - 1
Expired_Unsigned(p, now_ms) == now_ms >= p.deadline_ms

\* (int32_t)(now_ms - p->deadline_ms) >= 0
Expired(p, now_ms) == (now_ms - p.deadline_ms) % CLOCK < HALF_CLOCK

\* Faulty: one retry too few.
Exhausted_Early(p) == p.retries + 1 >= max_retries

Exhausted(p) == p.retries >= max_retries

\* Faulty: a frame that was given up keeps its slot.
TickSlot_KeepsFailed(p, now_ms) ==
  IF p = Free \/ ~Expired(p, now_ms) \/ Exhausted(p) THEN p
  ELSE [p EXCEPT !.retries = @ + 1,
                 !.deadline_ms = (now_ms + timeout_ms) % CLOCK]

\* What one call of arc_reliable_tick does to a slot: skip it, free it after
\* the last retry (fail_fn), or send it again with a new deadline.
TickSlot(p, now_ms) ==
  IF p = Free \/ ~Expired(p, now_ms) THEN p
  ELSE IF Exhausted(p) THEN Free
  ELSE [p EXCEPT !.retries = @ + 1,
                 !.deadline_ms = (now_ms + timeout_ms) % CLOCK]

ExpiredSlots(r, now_ms) ==
  {i \in UsedSlots(r.pending) : Expired(r.pending[i], now_ms)}

FailedSlots(r, now_ms) ==
  {i \in ExpiredSlots(r, now_ms) : Exhausted(r.pending[i])}

RetriedSlots(r, now_ms) ==
  ExpiredSlots(r, now_ms) \ FailedSlots(r, now_ms)

arc_reliable_tick(r, now_ms) ==
  [r EXCEPT !.pending = [i \in DOMAIN @ |-> TickSlot(@[i], now_ms)]]

----------------------------------------------------------------------------
(* The source and seen tables.                                             *)

SourceSlots(t, src) == {i \in UsedSlots(t) : t[i].src = src}

\* The return value of source_session_changed ...
source_session_changed(t, src, session) ==
  /\ SourceSlots(t, src) # {}
  /\ t[FirstSlot(SourceSlots(t, src))].session # session

\* Faulty: a free slot is taken before the table is searched.
note_source_FreeFirst(t, src, session) ==
  IF FreeSlots(t) # {}
  THEN [t EXCEPT ![FirstSlot(FreeSlots(t))] = [src |-> src, session |-> session]]
  ELSE IF SourceSlots(t, src) # {}
       THEN [t EXCEPT ![FirstSlot(SourceSlots(t, src))] =
                         [src |-> src, session |-> session]]
       ELSE t

\* ... and what it leaves in the table: a known source gets the session of the
\* frame, a new one takes the first free slot if there is one.
note_source(t, src, session) ==
  IF SourceSlots(t, src) # {}
  THEN [t EXCEPT ![FirstSlot(SourceSlots(t, src))] =
                    [src |-> src, session |-> session]]
  ELSE IF FreeSlots(t) # {}
       THEN [t EXCEPT ![FirstSlot(FreeSlots(t))] =
                         [src |-> src, session |-> session]]
       ELSE t

seen_key(f) == [src |-> f.src, session |-> f.session, seq |-> f.seq]

\* Faulty: the last slot is not searched, and the source is not compared.
seen_contains_ShortScan(t, k) ==
  \E i \in UsedSlots(t) : i < ARC_RELIABLE_SEEN_MAX - 1 /\ t[i] = k
seen_contains_AnySource(t, k) ==
  \E i \in UsedSlots(t) : t[i].session = k.session /\ t[i].seq = k.seq

seen_contains(t, k) == \E i \in UsedSlots(t) : t[i] = k

\* Faulty: nothing is dropped.
seen_drop_source_Nothing(t, src) == t

seen_drop_source(t, src) ==
  [i \in DOMAIN t |-> IF t[i] # Free /\ t[i].src = src THEN Free ELSE t[i]]

\* The first free slot, or the victim at seen_next_idx when the table is full.
SeenSlot(r) ==
  IF FreeSlots(r.seen) # {} THEN FirstSlot(FreeSlots(r.seen))
                            ELSE r.seen_next_idx

\* Faulty: the replacement index does not advance.
seen_add_SameVictim(r, k) == [r EXCEPT !.seen[SeenSlot(r)] = k]

seen_add(r, k) ==
  [r EXCEPT
     !.seen[SeenSlot(r)] = k,
     !.seen_next_idx = IF FreeSlots(r.seen) # {} THEN @
                       ELSE (@ + 1) % ARC_RELIABLE_SEEN_MAX]

----------------------------------------------------------------------------
(* arc_reliable_receive.                                                   *)

\* The session check that precedes deduplication.
CheckSession(r, f) ==
  [r EXCEPT
     !.sources = note_source(@, f.src, f.session),
     !.seen = IF source_session_changed(r.sources, f.src, f.session)
              THEN seen_drop_source(@, f.src) ELSE @]

IsDuplicate(r, f) == seen_contains(CheckSession(r, f).seen, seen_key(f))

\* The slot an ACK names.  The lookup uses the endpoint's own session: the ACK
\* carries nothing of the session of the frame it acknowledges.
AckedSlots(r, f) ==
  IF Len(f.payload) = 2
  THEN PendingMatches(r.pending, f.src, r.session, acked_seq(f)) ELSE {}

AckedSlot(r, f) == pending_find(r.pending, f.src, r.session, acked_seq(f))

\* An ACK frees the pending entry it names; a malformed one is dropped.
ReceiveAck(r, f) ==
  IF AckedSlots(r, f) # {}
  THEN [r EXCEPT !.pending[AckedSlot(r, f)] = Free] ELSE r

\* The ACK goes out (taking a SEQ) before the key is remembered.
ReceiveReliable(r, f) ==
  IF IsDuplicate(r, f)
  THEN take_seq(CheckSession(r, f))
  ELSE seen_add(take_seq(CheckSession(r, f)), seen_key(f))

arc_reliable_receive(r, f) ==
  IF f.dst # r.my_addr THEN r
  ELSE IF is_ack_frame(f) THEN ReceiveAck(r, f)
  ELSE IF f.reliable THEN ReceiveReliable(r, f)
  ELSE r

\* The arc_rx_result_t returned; deliver_fn runs exactly for ARC_RX_DELIVERED.
rx_result(r, f) ==
  IF f.dst # r.my_addr THEN "ARC_RX_IGNORED"
  ELSE IF is_ack_frame(f) THEN "ARC_RX_ACK"
  ELSE IF f.reliable /\ IsDuplicate(r, f) THEN "ARC_RX_DUPLICATE"
  ELSE "ARC_RX_DELIVERED"

\* The frames handed to send_fn: one ACK for every reliable frame for me.
rx_replies(r, f) ==
  IF f.dst = r.my_addr /\ ~is_ack_frame(f) /\ f.reliable
  THEN {emit_ack(r, f)} ELSE {}

=============================================================================
