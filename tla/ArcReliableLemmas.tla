-------------------------- MODULE ArcReliableLemmas --------------------------
(***************************************************************************)
(* What the functions of arc_reliable.c return and preserve, as facts about *)
(* the operators of ArcReliable: for all sets A of addresses, S of sessions *)
(* and D of payloads, all table sizes and all widths of SEQ and clock.      *)
(***************************************************************************)
EXTENDS ArcReliable, TableLemmas

PendingSlots == 0 .. ARC_RELIABLE_PENDING_MAX - 1
SeenSlots    == 0 .. ARC_RELIABLE_SEEN_MAX - 1
SourcesSlots == 0 .. ARC_RELIABLE_SOURCES_MAX - 1

\* The moduli are positive.
LEMMA Moduli == SEQ_VALUES \in Nat \ {0} /\ CLOCK \in Nat \ {0}
BY Widths DEF SEQ_VALUES, CLOCK

\* A wrapped number is in range.
LEMMA ModRange ==
  ASSUME NEW a \in Int
  PROVE  a % SEQ_VALUES \in Seqs /\ a % CLOCK \in Clocks
BY Moduli DEF Seqs, Clocks

\* The fields of an endpoint.
LEMMA EndpointFields ==
  ASSUME NEW A, NEW S, NEW D, NEW e \in arc_reliable_t(A, S, D)
  PROVE  /\ e.my_addr \in A /\ e.session \in S /\ e.next_seq \in Seqs
         /\ e.pending \in [PendingSlots -> arc_reliable_pending_t(A, S, D) \cup {Free}]
         /\ e.seen \in [SeenSlots -> arc_reliable_seen_t(A, S) \cup {Free}]
         /\ e.seen_next_idx \in SeenSlots
         /\ e.sources \in [SourcesSlots -> arc_reliable_source_t(A, S) \cup {Free}]
BY DEF arc_reliable_t, PendingSlots, SeenSlots, SourcesSlots

\* The tables have a slot for every index of the C arrays.
LEMMA TableSlots ==
  ASSUME NEW A, NEW S, NEW D, NEW e \in arc_reliable_t(A, S, D)
  PROVE  /\ DOMAIN e.pending = PendingSlots
         /\ DOMAIN e.seen = SeenSlots
         /\ DOMAIN e.sources = SourcesSlots
<1>1. /\ e.pending \in [PendingSlots -> arc_reliable_pending_t(A, S, D) \cup {Free}]
      /\ e.seen \in [SeenSlots -> arc_reliable_seen_t(A, S) \cup {Free}]
      /\ e.sources \in [SourcesSlots -> arc_reliable_source_t(A, S) \cup {Free}]
  BY EndpointFields
<1> QED BY <1>1

\* An endpoint stays one when pending[] changes within its type.
LEMMA UpdatePending ==
  ASSUME NEW A, NEW S, NEW D, NEW e \in arc_reliable_t(A, S, D),
         NEW p \in [PendingSlots -> arc_reliable_pending_t(A, S, D) \cup {Free}]
  PROVE  /\ [e EXCEPT !.pending = p] \in arc_reliable_t(A, S, D)
         /\ [e EXCEPT !.pending = p].pending = p
BY DEF arc_reliable_t, PendingSlots

\* memset and the arguments of arc_reliable_init give an endpoint.
LEMMA TypeInit ==
  ASSUME NEW A, NEW S, NEW D,
         NEW my_addr \in A, NEW session \in S, NEW first_seq \in Seqs
  PROVE  arc_reliable_init(my_addr, session, first_seq) \in arc_reliable_t(A, S, D)
<1>1. EmptyTable(ARC_RELIABLE_PENDING_MAX) \in [PendingSlots -> arc_reliable_pending_t(A, S, D) \cup {Free}]
  BY DEF EmptyTable, PendingSlots
<1>2. EmptyTable(ARC_RELIABLE_SEEN_MAX) \in [SeenSlots -> arc_reliable_seen_t(A, S) \cup {Free}]
  BY DEF EmptyTable, SeenSlots
<1>3. EmptyTable(ARC_RELIABLE_SOURCES_MAX) \in [SourcesSlots -> arc_reliable_source_t(A, S) \cup {Free}]
  BY DEF EmptyTable, SourcesSlots
<1>4. 0 \in SeenSlots
  BY TableSizes DEF SeenSlots
<1> QED
  BY <1>1, <1>2, <1>3, <1>4
  DEF arc_reliable_init, arc_reliable_t, PendingSlots, SeenSlots, SourcesSlots

\* take_seq only moves next_seq, and keeps it an uint16_t.
LEMMA TakeSeq ==
  ASSUME NEW A, NEW S, NEW D, NEW e \in arc_reliable_t(A, S, D)
  PROVE  /\ take_seq(e) \in arc_reliable_t(A, S, D)
         /\ take_seq(e).my_addr = e.my_addr /\ take_seq(e).session = e.session
         /\ take_seq(e).pending = e.pending /\ take_seq(e).seen = e.seen
         /\ take_seq(e).seen_next_idx = e.seen_next_idx
         /\ take_seq(e).sources = e.sources
         /\ take_seq(e).next_seq = (e.next_seq + 1) % SEQ_VALUES
<1>1. e.next_seq + 1 \in Int
  BY EndpointFields, Moduli DEF Seqs
<1>2. (e.next_seq + 1) % SEQ_VALUES \in Seqs
  BY <1>1, ModRange
<1>3. take_seq(e) \in arc_reliable_t(A, S, D)
  BY <1>2 DEF take_seq, arc_reliable_t
<1> QED BY <1>3 DEF take_seq, arc_reliable_t

\* pending_alloc returns a slot that was free.
LEMMA AllocFree ==
  ASSUME NEW A, NEW S, NEW D, NEW e \in arc_reliable_t(A, S, D), FreeSlots(e.pending) # {}
  PROVE  /\ pending_alloc(e.pending) \in PendingSlots
         /\ e.pending[pending_alloc(e.pending)] = Free
<1>1. FreeSlots(e.pending) \in SUBSET (0 .. ARC_RELIABLE_PENDING_MAX - 1)
  BY TableSlots DEF FreeSlots, PendingSlots
<1>2. FirstSlot(FreeSlots(e.pending)) \in FreeSlots(e.pending)
  BY <1>1, TableSizes, FirstSlotIsMin
<1> QED BY <1>1, <1>2 DEF pending_alloc, PendingSlots, FreeSlots

\* A deadline computed from the clock is a value of the clock.
LEMMA Deadline ==
  ASSUME NEW t \in Clocks PROVE (t + timeout_ms) % CLOCK \in Clocks
<1>1. t + timeout_ms \in Int
  BY Timers, Widths, Moduli DEF Clocks
<1> QED BY <1>1, ModRange

\* Writing an entry into a slot after taking a SEQ.
LEMMA ParkEntry ==
  ASSUME NEW A, NEW S, NEW D, NEW e \in arc_reliable_t(A, S, D),
         NEW k \in PendingSlots, NEW p \in arc_reliable_pending_t(A, S, D)
  PROVE  /\ [take_seq(e) EXCEPT !.pending[k] = p] \in arc_reliable_t(A, S, D)
         /\ [take_seq(e) EXCEPT !.pending[k] = p].pending = [e.pending EXCEPT ![k] = p]
         /\ [take_seq(e) EXCEPT !.pending[k] = p].my_addr = e.my_addr
         /\ [take_seq(e) EXCEPT !.pending[k] = p].session = e.session
         /\ [take_seq(e) EXCEPT !.pending[k] = p].seen = e.seen
         /\ [take_seq(e) EXCEPT !.pending[k] = p].sources = e.sources
         /\ [take_seq(e) EXCEPT !.pending[k] = p].next_seq = take_seq(e).next_seq
<1> DEFINE h == take_seq(e)
           g == [h EXCEPT !.pending[k] = p]
           Q == [e.pending EXCEPT ![k] = p]
<1>1. /\ h \in arc_reliable_t(A, S, D) /\ h.pending = e.pending
      /\ h.my_addr = e.my_addr /\ h.session = e.session
      /\ h.seen = e.seen /\ h.sources = e.sources
  BY TakeSeq
<1>2. Q \in [PendingSlots -> arc_reliable_pending_t(A, S, D) \cup {Free}]
  BY EndpointFields
<1> HIDE DEF h
<1>3. g = [h EXCEPT !.pending = Q]
  BY <1>1
<1> HIDE DEF g, Q
<1>4. g \in arc_reliable_t(A, S, D)
  BY <1>1, <1>2, <1>3, UpdatePending
<1>5. /\ g.pending = Q /\ g.my_addr = e.my_addr /\ g.session = e.session
      /\ g.seen = e.seen /\ g.sources = e.sources /\ g.next_seq = h.next_seq
  BY <1>1, <1>3 DEF arc_reliable_t
<1> QED BY <1>4, <1>5 DEF g, h, Q

\* The slot a matching ACK frees is in use.
LEMMA AckedSlotUsed ==
  ASSUME NEW A, NEW S, NEW D, NEW e \in arc_reliable_t(A, S, D),
         NEW f, AckedSlots(e, f) # {}
  PROVE  /\ AckedSlot(e, f) \in PendingSlots
         /\ e.pending[AckedSlot(e, f)] \in arc_reliable_pending_t(A, S, D)
         /\ e.pending[AckedSlot(e, f)] # Free
         /\ e.pending[AckedSlot(e, f)].dst = f.src
         /\ e.pending[AckedSlot(e, f)].session = e.session
         /\ e.pending[AckedSlot(e, f)].seq = acked_seq(f)
<1>1. AckedSlots(e, f) = PendingMatches(e.pending, f.src, e.session, acked_seq(f))
  BY DEF AckedSlots
<1>2. AckedSlots(e, f) \in SUBSET (0 .. ARC_RELIABLE_PENDING_MAX - 1)
  <2>1. DOMAIN e.pending = PendingSlots
    BY TableSlots
  <2> QED BY <1>1, <2>1 DEF PendingMatches, UsedSlots, PendingSlots
<1>3. AckedSlot(e, f) \in AckedSlots(e, f)
  BY <1>1, <1>2, TableSizes, FirstSlotIsMin DEF AckedSlot, pending_find
<1> QED BY <1>1, <1>2, <1>3, EndpointFields
        DEF PendingMatches, UsedSlots, PendingSlots

\* An ACK changes pending[] only.
LEMMA ReceiveAckFields ==
  ASSUME NEW A, NEW S, NEW D, NEW e \in arc_reliable_t(A, S, D), NEW f
  PROVE  /\ ReceiveAck(e, f).my_addr = e.my_addr
         /\ ReceiveAck(e, f).session = e.session
         /\ ReceiveAck(e, f).next_seq = e.next_seq
         /\ ReceiveAck(e, f).seen = e.seen
         /\ ReceiveAck(e, f).sources = e.sources
BY DEF ReceiveAck, arc_reliable_t

\* An endpoint that received an ACK is one.
LEMMA ReceiveAckType ==
  ASSUME NEW A, NEW S, NEW D, NEW e \in arc_reliable_t(A, S, D), NEW f
  PROVE  ReceiveAck(e, f) \in arc_reliable_t(A, S, D)
<1>1. CASE AckedSlots(e, f) = {}
  BY <1>1 DEF ReceiveAck
<1>2. CASE AckedSlots(e, f) # {}
  <2> DEFINE P == [e.pending EXCEPT ![AckedSlot(e, f)] = Free]
  <2>1. ReceiveAck(e, f) = [e EXCEPT !.pending = P]
    BY <1>2 DEF ReceiveAck
  <2>2. P \in [PendingSlots -> arc_reliable_pending_t(A, S, D) \cup {Free}]
    BY EndpointFields
  <2> HIDE DEF P
  <2> QED BY <2>1, <2>2, UpdatePending
<1> QED BY <1>1, <1>2

\* What arc_reliable_tick leaves in a slot.
LEMMA TickSlotType ==
  ASSUME NEW A, NEW S, NEW D,
         NEW p \in arc_reliable_pending_t(A, S, D) \cup {Free}, NEW t \in Clocks
  PROVE  /\ TickSlot(p, t) \in arc_reliable_pending_t(A, S, D) \cup {Free}
         /\ p = Free => TickSlot(p, t) = Free
         /\ p # Free /\ ~Expired(p, t) => TickSlot(p, t) = p
         /\ p # Free /\ Expired(p, t) /\ Exhausted(p) => TickSlot(p, t) = Free
         /\ p # Free /\ Expired(p, t) /\ ~Exhausted(p)
              => /\ TickSlot(p, t) \in arc_reliable_pending_t(A, S, D)
                 /\ TickSlot(p, t).dst = p.dst /\ TickSlot(p, t).ack = p.ack
                 /\ TickSlot(p, t).session = p.session /\ TickSlot(p, t).seq = p.seq
                 /\ TickSlot(p, t).payload = p.payload
                 /\ p.retries < max_retries
                 /\ TickSlot(p, t).retries = p.retries + 1
<1>1. CASE p = Free \/ ~Expired(p, t)
  BY <1>1 DEF TickSlot
<1>2. CASE p # Free /\ Expired(p, t) /\ Exhausted(p)
  BY <1>2 DEF TickSlot
<1>3. CASE p # Free /\ Expired(p, t) /\ ~Exhausted(p)
  <2> DEFINE d == (t + timeout_ms) % CLOCK
             q == [p EXCEPT !.retries = @ + 1, !.deadline_ms = d]
  <2>1. TickSlot(p, t) = q
    BY <1>3 DEF TickSlot
  <2>2. d \in Clocks
    BY Deadline
  <2> HIDE DEF d
  <2>4. p.retries < max_retries /\ p.retries + 1 \in 0 .. max_retries
    BY <1>3, Timers DEF Exhausted, arc_reliable_pending_t
  <2>5. /\ q \in arc_reliable_pending_t(A, S, D) /\ q.retries = p.retries + 1
        /\ q.dst = p.dst /\ q.ack = p.ack /\ q.session = p.session
        /\ q.seq = p.seq /\ q.payload = p.payload
    BY <1>3, <2>2, <2>4 DEF arc_reliable_pending_t
  <2> QED BY <1>3, <2>1, <2>4, <2>5
<1> QED BY <1>1, <1>2, <1>3

\* arc_reliable_tick only changes pending[].
LEMMA TickFields ==
  ASSUME NEW A, NEW S, NEW D, NEW e \in arc_reliable_t(A, S, D), NEW t
  PROVE  /\ arc_reliable_tick(e, t).pending =
              [i \in PendingSlots |-> TickSlot(e.pending[i], t)]
         /\ arc_reliable_tick(e, t).seen = e.seen
         /\ arc_reliable_tick(e, t).sources = e.sources
         /\ arc_reliable_tick(e, t).my_addr = e.my_addr
         /\ arc_reliable_tick(e, t).session = e.session
         /\ arc_reliable_tick(e, t).next_seq = e.next_seq
<1>1. DOMAIN e.pending = PendingSlots
  BY TableSlots
<1> QED BY <1>1 DEF arc_reliable_tick, arc_reliable_t

\* An endpoint whose timers ran is one.
LEMMA TickType ==
  ASSUME NEW A, NEW S, NEW D, NEW e \in arc_reliable_t(A, S, D), NEW t \in Clocks
  PROVE  arc_reliable_tick(e, t) \in arc_reliable_t(A, S, D)
<1> DEFINE P == [i \in PendingSlots |-> TickSlot(e.pending[i], t)]
<1>1. arc_reliable_tick(e, t) = [e EXCEPT !.pending = P]
  BY TableSlots DEF arc_reliable_tick
<1>2. P \in [PendingSlots -> arc_reliable_pending_t(A, S, D) \cup {Free}]
  BY EndpointFields, TickSlotType
<1> HIDE DEF P
<1> QED BY <1>1, <1>2, UpdatePending

\* The source table after a frame keeps its type.
LEMMA NoteSourceType ==
  ASSUME NEW A, NEW S, NEW o \in [SourcesSlots -> arc_reliable_source_t(A, S) \cup {Free}],
         NEW src \in A, NEW ses \in S
  PROVE  note_source(o, src, ses) \in [SourcesSlots -> arc_reliable_source_t(A, S) \cup {Free}]
<1>1. [src |-> src, session |-> ses] \in arc_reliable_source_t(A, S)
  BY DEF arc_reliable_source_t
<1> QED BY <1>1 DEF note_source

\* The session check changes sources[] and seen[] only.
LEMMA CheckSessionType ==
  ASSUME NEW A, NEW S, NEW D, NEW e \in arc_reliable_t(A, S, D),
         NEW f, f.src \in A, f.session \in S, f.seq \in Seqs
  PROVE  /\ CheckSession(e, f) \in arc_reliable_t(A, S, D)
         /\ CheckSession(e, f).sources = note_source(e.sources, f.src, f.session)
         /\ CheckSession(e, f).seen =
              IF source_session_changed(e.sources, f.src, f.session)
              THEN seen_drop_source(e.seen, f.src) ELSE e.seen
         /\ CheckSession(e, f).pending = e.pending
         /\ CheckSession(e, f).my_addr = e.my_addr
         /\ CheckSession(e, f).session = e.session
         /\ CheckSession(e, f).next_seq = e.next_seq
<1> DEFINE o == note_source(e.sources, f.src, f.session)
           s == IF source_session_changed(e.sources, f.src, f.session)
                THEN seen_drop_source(e.seen, f.src) ELSE e.seen
<1>1. CheckSession(e, f) = [e EXCEPT !.sources = o, !.seen = s]
  BY DEF CheckSession
<1>3. o \in [SourcesSlots -> arc_reliable_source_t(A, S) \cup {Free}]
  BY EndpointFields, NoteSourceType
<1>4. s \in [SeenSlots -> arc_reliable_seen_t(A, S) \cup {Free}]
  BY EndpointFields DEF seen_drop_source
<1> HIDE DEF o, s
<1>5. CheckSession(e, f) \in arc_reliable_t(A, S, D)
  BY <1>1, <1>3, <1>4
  DEF arc_reliable_t, SeenSlots, SourcesSlots
<1> QED BY <1>1, <1>5 DEF arc_reliable_t, o, s

\* seen_add finds a free slot if there is one.
LEMMA SeenSlotFound ==
  ASSUME NEW A, NEW S, NEW D, NEW e \in arc_reliable_t(A, S, D)
  PROVE  /\ SeenSlot(e) \in SeenSlots
         /\ FreeSlots(e.seen) # {} => e.seen[SeenSlot(e)] = Free
<1>1. CASE FreeSlots(e.seen) # {}
  <2>1. FreeSlots(e.seen) \in SUBSET (0 .. ARC_RELIABLE_SEEN_MAX - 1)
    BY TableSlots DEF FreeSlots, SeenSlots
  <2>2. FirstSlot(FreeSlots(e.seen)) \in FreeSlots(e.seen)
    BY <1>1, <2>1, TableSizes, FirstSlotIsMin
  <2> QED BY <1>1, <2>1, <2>2 DEF SeenSlot, SeenSlots, FreeSlots
<1>2. CASE FreeSlots(e.seen) = {}
  BY <1>2, EndpointFields DEF SeenSlot
<1> QED BY <1>1, <1>2

\* seen_add changes seen[] and seen_next_idx only.
LEMMA SeenAddFields ==
  ASSUME NEW A, NEW S, NEW D, NEW e \in arc_reliable_t(A, S, D), NEW k
  PROVE  /\ seen_add(e, k).sources = e.sources
         /\ seen_add(e, k).pending = e.pending
         /\ seen_add(e, k).my_addr = e.my_addr
         /\ seen_add(e, k).session = e.session
         /\ seen_add(e, k).next_seq = e.next_seq
BY DEF arc_reliable_t, seen_add

\* seen_add writes the slot it found.
LEMMA SeenAddType ==
  ASSUME NEW A, NEW S, NEW D, NEW e \in arc_reliable_t(A, S, D),
         NEW k \in arc_reliable_seen_t(A, S)
  PROVE  /\ seen_add(e, k) \in arc_reliable_t(A, S, D)
         /\ seen_add(e, k).seen = [e.seen EXCEPT ![SeenSlot(e)] = k]
<1> DEFINE s == [e.seen EXCEPT ![SeenSlot(e)] = k]
           x == IF FreeSlots(e.seen) # {} THEN e.seen_next_idx
                ELSE (e.seen_next_idx + 1) % ARC_RELIABLE_SEEN_MAX
<1>1. seen_add(e, k) = [e EXCEPT !.seen = s, !.seen_next_idx = x]
  BY DEF seen_add
<1>2. s \in [SeenSlots -> arc_reliable_seen_t(A, S) \cup {Free}]
  BY EndpointFields
<1>3. x \in SeenSlots
  <2>1. e.seen_next_idx \in SeenSlots
    BY EndpointFields
  <2>2. ARC_RELIABLE_SEEN_MAX \in Nat /\ ARC_RELIABLE_SEEN_MAX > 0
    BY TableSizes
  <2>3. \A n \in SeenSlots : (n + 1) % ARC_RELIABLE_SEEN_MAX \in SeenSlots
    BY <2>2 DEF SeenSlots
  <2> QED BY <2>1, <2>3
<1> HIDE DEF s, x
<1>4. seen_add(e, k) \in arc_reliable_t(A, S, D)
  BY <1>1, <1>2, <1>3 DEF arc_reliable_t, SeenSlots
<1> QED BY <1>1, <1>4 DEF arc_reliable_t, s, x

\* Receiving a reliable frame takes a SEQ for the ACK, notes the session of the
\* source and adds the key to seen[] unless it is there.
LEMMA ReceiveReliableType ==
  ASSUME NEW A, NEW S, NEW D, NEW e \in arc_reliable_t(A, S, D),
         NEW f, f.src \in A, f.session \in S, f.seq \in Seqs
  PROVE  ReceiveReliable(e, f) \in arc_reliable_t(A, S, D)
<1>1. CheckSession(e, f) \in arc_reliable_t(A, S, D)
  BY CheckSessionType
<1>2. take_seq(CheckSession(e, f)) \in arc_reliable_t(A, S, D)
  BY <1>1, TakeSeq
<1>3. seen_key(f) \in arc_reliable_seen_t(A, S)
  BY DEF seen_key, arc_reliable_seen_t
<1>4. seen_add(take_seq(CheckSession(e, f)), seen_key(f)) \in arc_reliable_t(A, S, D)
  BY <1>2, <1>3, SeenAddType
<1> QED BY <1>2, <1>4 DEF ReceiveReliable

\* The other fields and tables it leaves.
LEMMA ReceiveReliableFields ==
  ASSUME NEW A, NEW S, NEW D, NEW e \in arc_reliable_t(A, S, D),
         NEW f, f.src \in A, f.session \in S, f.seq \in Seqs
  PROVE  LET g == ReceiveReliable(e, f)
             h == CheckSession(e, f)
         IN  /\ g.pending = e.pending
             /\ g.my_addr = e.my_addr /\ g.session = e.session
             /\ g.next_seq = (e.next_seq + 1) % SEQ_VALUES
             /\ g.sources = note_source(e.sources, f.src, f.session)
             /\ IsDuplicate(e, f) => g.seen = h.seen
<1> DEFINE h == CheckSession(e, f)
           u == take_seq(h)
           k == seen_key(f)
<1>1. /\ h \in arc_reliable_t(A, S, D)
      /\ h.sources = note_source(e.sources, f.src, f.session)
      /\ h.pending = e.pending /\ h.my_addr = e.my_addr
      /\ h.session = e.session /\ h.next_seq = e.next_seq
  BY CheckSessionType
<1> HIDE DEF h
<1>2. /\ u \in arc_reliable_t(A, S, D) /\ u.seen = h.seen
      /\ u.sources = h.sources /\ u.pending = h.pending
      /\ u.my_addr = h.my_addr /\ u.session = h.session
      /\ u.next_seq = (h.next_seq + 1) % SEQ_VALUES
  BY <1>1, TakeSeq
<1>3. ReceiveReliable(e, f) = IF IsDuplicate(e, f) THEN u ELSE seen_add(u, k)
  BY DEF ReceiveReliable, h
<1> HIDE DEF u, k
<1>4. CASE IsDuplicate(e, f)
  BY <1>1, <1>2, <1>3, <1>4 DEF h
<1>5. CASE ~IsDuplicate(e, f)
  <2>1. /\ seen_add(u, k).sources = u.sources /\ seen_add(u, k).pending = u.pending
        /\ seen_add(u, k).my_addr = u.my_addr /\ seen_add(u, k).session = u.session
        /\ seen_add(u, k).next_seq = u.next_seq
    BY <1>2, SeenAddFields
  <2> QED BY <1>1, <1>2, <1>3, <1>5, <2>1 DEF h
<1> QED BY <1>4, <1>5

\* The slot a new key takes: one that was free, if there was one.
LEMMA ReceiveReliableSlot ==
  ASSUME NEW A, NEW S, NEW D, NEW e \in arc_reliable_t(A, S, D),
         NEW f, f.src \in A, f.session \in S, f.seq \in Seqs,
         NEW h, h = CheckSession(e, f)
  PROVE  /\ SeenSlot(take_seq(h)) \in SeenSlots
         /\ FreeSlots(h.seen) # {} => h.seen[SeenSlot(take_seq(h))] = Free
<1>1. take_seq(h) \in arc_reliable_t(A, S, D) /\ take_seq(h).seen = h.seen
  BY CheckSessionType, TakeSeq
<1> QED BY <1>1, SeenSlotFound

\* A frame that is no duplicate is remembered in that slot.
LEMMA ReceiveReliableSeen ==
  ASSUME NEW A, NEW S, NEW D, NEW e \in arc_reliable_t(A, S, D),
         NEW f, f.src \in A, f.session \in S, f.seq \in Seqs, ~IsDuplicate(e, f)
  PROVE  ReceiveReliable(e, f).seen =
           [CheckSession(e, f).seen EXCEPT
              ![SeenSlot(take_seq(CheckSession(e, f)))] = seen_key(f)]
<1> DEFINE u == take_seq(CheckSession(e, f))
           k == seen_key(f)
<1>1. u \in arc_reliable_t(A, S, D) /\ u.seen = CheckSession(e, f).seen
  BY CheckSessionType, TakeSeq
<1>2. k \in arc_reliable_seen_t(A, S)
  BY DEF seen_key, arc_reliable_seen_t
<1>3. ReceiveReliable(e, f) = seen_add(u, k)
  BY DEF ReceiveReliable
<1> HIDE DEF u, k
<1>4. seen_add(u, k).seen = [u.seen EXCEPT ![SeenSlot(u)] = k]
  BY <1>1, <1>2, SeenAddType
<1> QED BY <1>1, <1>3, <1>4 DEF u, k

\* What note_source does, case by case.
LEMMA NoteSourceCases ==
  ASSUME NEW A, NEW S, NEW o \in [SourcesSlots -> arc_reliable_source_t(A, S) \cup {Free}],
         NEW src, NEW ses
  PROVE  \/ \E k \in SourcesSlots :
              /\ o[k] # Free /\ o[k].src = src
              /\ note_source(o, src, ses) = [o EXCEPT ![k] = [src |-> src, session |-> ses]]
              /\ source_session_changed(o, src, ses) <=> o[k].session # ses
         \/ \E k \in SourcesSlots :
              /\ o[k] = Free
              /\ \A i \in SourcesSlots : o[i] # Free => o[i].src # src
              /\ note_source(o, src, ses) = [o EXCEPT ![k] = [src |-> src, session |-> ses]]
              /\ ~source_session_changed(o, src, ses)
         \/ /\ \A i \in SourcesSlots : o[i] # Free /\ o[i].src # src
            /\ note_source(o, src, ses) = o
            /\ ~source_session_changed(o, src, ses)
<1>1. CASE SourceSlots(o, src) # {}
  <2> DEFINE k == FirstSlot(SourceSlots(o, src))
  <2>1. SourceSlots(o, src) \in SUBSET (0 .. ARC_RELIABLE_SOURCES_MAX - 1)
    BY DEF SourceSlots, UsedSlots, SourcesSlots
  <2>2. k \in SourceSlots(o, src)
    BY <1>1, <2>1, TableSizes, FirstSlotIsMin
  <2>3. /\ note_source(o, src, ses) = [o EXCEPT ![k] = [src |-> src, session |-> ses]]
        /\ source_session_changed(o, src, ses) <=> o[k].session # ses
    BY <1>1 DEF note_source, source_session_changed
  <2>4. k \in SourcesSlots /\ o[k] # Free /\ o[k].src = src
    BY <2>2 DEF SourceSlots, UsedSlots
  <2> HIDE DEF k
  <2> QED BY <2>3, <2>4
<1>2. CASE SourceSlots(o, src) = {}
  <2>1. \A i \in SourcesSlots : o[i] # Free => o[i].src # src
    BY <1>2 DEF SourceSlots, UsedSlots
  <2>2. ~source_session_changed(o, src, ses)
    BY <1>2 DEF source_session_changed
  <2>3. CASE FreeSlots(o) # {}
    <3> DEFINE k == FirstSlot(FreeSlots(o))
    <3>1. FreeSlots(o) \in SUBSET (0 .. ARC_RELIABLE_SOURCES_MAX - 1)
      BY DEF FreeSlots, SourcesSlots
    <3>2. k \in FreeSlots(o)
      BY <2>3, <3>1, TableSizes, FirstSlotIsMin
    <3>3. note_source(o, src, ses) = [o EXCEPT ![k] = [src |-> src, session |-> ses]]
      BY <1>2, <2>3 DEF note_source
    <3>4. k \in SourcesSlots /\ o[k] = Free
      BY <3>2 DEF FreeSlots
    <3> HIDE DEF k
    <3> QED BY <2>1, <2>2, <3>3, <3>4
  <2>4. CASE FreeSlots(o) = {}
    <3>1. note_source(o, src, ses) = o
      BY <1>2, <2>4 DEF note_source
    <3>2. \A i \in SourcesSlots : o[i] # Free
      BY <2>4 DEF FreeSlots
    <3> QED BY <2>1, <2>2, <3>1, <3>2
  <2> QED BY <2>3, <2>4
<1> QED BY <1>1, <1>2

----------------------------------------------------------------------------
(* Sequence numbers.                                                       *)

\* SEQ s is one of the last d that were taken before a.
TakenBefore(s, a, d) ==
  \E j \in 1 .. d : s = a - j \/ s = a - j + SEQ_VALUES

\* The two bytes of an ACK's payload hold the SEQ it acknowledges.
LEMMA SplitSeq ==
  ASSUME NEW s \in Seqs
  PROVE  /\ s \div BYTE \in 0 .. BYTE - 1
         /\ s % BYTE \in 0 .. BYTE - 1
         /\ (s \div BYTE) * BYTE + (s % BYTE) = s
<1>1. BYTE \in Nat /\ BYTE > 0 /\ s \in Nat /\ s < BYTE * BYTE
  BY Widths DEF Seqs, SEQ_VALUES
<1>2. /\ s \div BYTE \in Nat /\ s % BYTE \in 0 .. BYTE - 1
      /\ s = BYTE * (s \div BYTE) + (s % BYTE)
  BY <1>1
<1>3. s \div BYTE < BYTE
  <2> DEFINE q == s \div BYTE
             m == s % BYTE
  <2>1. q \in Nat /\ m \in Nat /\ s = BYTE * q + m
    BY <1>2
  <2> HIDE DEF q, m
  <2>2. q >= BYTE => BYTE * q >= BYTE * BYTE
    BY <1>1, <2>1
  <2>3. BYTE * q \in Nat /\ BYTE * BYTE \in Nat
    BY <1>1, <2>1
  <2>4. ~(q >= BYTE)
    BY <1>1, <2>1, <2>2, <2>3
  <2> QED BY <1>1, <2>1, <2>4 DEF q
<1> QED BY <1>1, <1>2, <1>3

\* take_seq wraps at the width of a SEQ.
LEMMA NextSeq ==
  ASSUME NEW a \in Seqs
  PROVE  /\ (a + 1) % SEQ_VALUES \in Seqs
         /\ (a + 1) % SEQ_VALUES = IF a + 1 < SEQ_VALUES THEN a + 1 ELSE 0
BY Moduli DEF Seqs

\* A SEQ taken before is not the next one as long as there are unused ones, and
\* has been taken before the one after it.
LEMMA TakenStays ==
  ASSUME NEW a \in Seqs, NEW s \in Seqs, NEW d \in Nat, d < SEQ_VALUES,
         TakenBefore(s, a, d)
  PROVE  s # a /\ TakenBefore(s, (a + 1) % SEQ_VALUES, d + 1)
<1>1. PICK j \in 1 .. d : s = a - j \/ s = a - j + SEQ_VALUES
  BY DEF TakenBefore
<1>2. SEQ_VALUES \in Nat /\ a \in Nat /\ s \in Nat /\ a < SEQ_VALUES /\ s < SEQ_VALUES
  BY Moduli DEF Seqs
<1>3. s # a
  BY <1>1, <1>2
<1> DEFINE b == (a + 1) % SEQ_VALUES
<1>4. b = IF a + 1 < SEQ_VALUES THEN a + 1 ELSE 0
  BY NextSeq
<1> HIDE DEF b
<1>5. j + 1 \in 1 .. d + 1 /\ (s = b - (j + 1) \/ s = b - (j + 1) + SEQ_VALUES)
  BY <1>1, <1>2, <1>4
<1> QED BY <1>3, <1>5 DEF TakenBefore, b

\* The SEQ that is taken next has then been taken.
LEMMA TakenNow ==
  ASSUME NEW a \in Seqs, NEW d \in Nat
  PROVE  TakenBefore(a, (a + 1) % SEQ_VALUES, d + 1)
<1> DEFINE b == (a + 1) % SEQ_VALUES
<1>1. SEQ_VALUES \in Nat /\ a \in Nat /\ a < SEQ_VALUES
  BY Moduli DEF Seqs
<1>2. b = IF a + 1 < SEQ_VALUES THEN a + 1 ELSE 0
  BY NextSeq
<1> HIDE DEF b
<1>3. 1 \in 1 .. d + 1 /\ (a = b - 1 \/ a = b - 1 + SEQ_VALUES)
  BY <1>1, <1>2
<1> QED BY <1>3 DEF TakenBefore, b

=============================================================================
