----------------------- MODULE ReliableEndpointProofs -----------------------
(***************************************************************************)
(* Proofs about ReliableEndpoint, for all table sizes, all widths of SEQ   *)
(* and clock, all timeouts and all sets of frames that may arrive.         *)
(***************************************************************************)
EXTENDS ReliableEndpoint, ArcReliableLemmas

PendingT  == arc_reliable_pending_t(Addrs, Sessions, Payloads)
SeenT     == arc_reliable_seen_t(Addrs, Sessions)
SourceT   == arc_reliable_source_t(Addrs, Sessions)
EndpointT == arc_reliable_t(Addrs, Sessions, Payloads)
USE DEF PendingT, SeenT, SourceT, EndpointT

\* The fields of a frame the endpoint reads.
LEMMA FrameFields ==
  ASSUME NEW f \in Frames
  PROVE  f.src \in Addrs /\ f.session \in Sessions /\ f.seq \in Seqs
BY DEF Frames

\* The call an entry of pending[] belongs to.
LEMMA EntryCall == ASSUME NEW p \in PendingT PROVE CallOf(p) \in CallIds
<1>1. PICK c \in CallIds : p.payload = <<c>>
  BY DEF arc_reliable_pending_t, Payloads
<1> QED BY <1>1 DEF CallOf

----------------------------------------------------------------------------
(* Types, and the correspondence of calls and slots.                       *)

\* What TypeOK says of r.
LEMMA TypeOfR ==
  TypeOK <=> /\ r \in EndpointT
             /\ r.my_addr = my_addr /\ r.session = session
             /\ now_ms \in Clocks
             /\ idle \in 0 .. TICK_PERIOD
             /\ status \in [CallIds -> Statuses]
             /\ tx \in [CallIds -> 0 .. max_retries + 1]
             /\ age \in [CallIds -> Nat]
             /\ recent \in Seq(SeenT)
             /\ Len(recent) <= ARC_RELIABLE_SEEN_MAX
             /\ restarts \subseteq Addrs
BY DEF TypeOK

\* The three branches of arc_reliable_receive behind the three actions.
LEMMA ReceiveBranches ==
  ASSUME TypeOK, NEW f \in Inbound
  PROVE  /\ f \in Frames
         /\ ReceivePlain(f) => r' = r
         /\ ReceiveData(f) => r' = ReceiveReliable(r, f)
         /\ ReceiveAnAck(f) => r' = ReceiveAck(r, f)
BY InboundFrames
DEF TypeOK, ReceivePlain, ReceiveData, ReceiveAnAck, rx_result,
    arc_reliable_receive, is_ack_frame

\* The slots and the calls they belong to, without the set SlotsOf.
SlotCalls(P, st, t) ==
  /\ \A i \in PendingSlots : P[i] # Free => st[CallOf(P[i])] = "parked"
  /\ \A c \in CallIds : st[c] = "parked" =>
       \E i \in PendingSlots : P[i] # Free /\ CallOf(P[i]) = c
  /\ \A i, j \in PendingSlots :
       P[i] # Free /\ P[j] # Free /\ CallOf(P[i]) = CallOf(P[j]) => i = j
  /\ \A i \in PendingSlots : P[i] # Free => t[CallOf(P[i])] = P[i].retries + 1

\* SlotCalls is ParkedInOneSlot.
LEMMA SlotCallsIsParked ==
  TypeOK => (ParkedInOneSlot <=> SlotCalls(r.pending, status, tx))
<1> SUFFICES ASSUME TypeOK
             PROVE  ParkedInOneSlot <=> SlotCalls(r.pending, status, tx)
  OBVIOUS
<1> DEFINE P == r.pending
<1>1. P \in [PendingSlots -> PendingT \cup {Free}]
  BY TypeOfR, EndpointFields
<1>2. \A i \in PendingSlots : P[i] # Free => CallOf(P[i]) \in CallIds
  BY <1>1, EntryCall
<1> HIDE DEF P
<1> QED BY <1>1, <1>2 DEF ParkedInOneSlot, SlotCalls, SlotsOf, UsedSlots, P

\* Parking the frame of an unused call in a free slot.
LEMMA SlotCallsAfterSend ==
  ASSUME NEW P \in [PendingSlots -> PendingT \cup {Free}], NEW st, NEW t,
         st \in [CallIds -> Statuses], t \in [CallIds -> 0 .. max_retries + 1],
         SlotCalls(P, st, t),
         NEW k \in PendingSlots, P[k] = Free,
         NEW p \in PendingT, p.retries = 0, st[CallOf(p)] = "unused"
  PROVE  SlotCalls([P EXCEPT ![k] = p], [st EXCEPT ![CallOf(p)] = "parked"],
                   [t EXCEPT ![CallOf(p)] = 1])
<1> DEFINE c == CallOf(p)
<1>1. c \in CallIds
  BY EntryCall
<1>2. \A i \in PendingSlots : P[i] # Free => CallOf(P[i]) # c /\ CallOf(P[i]) \in CallIds
  BY EntryCall DEF SlotCalls
<1>3. p # Free
  BY FreeIsNoEntry DEF PendingT
<1> HIDE DEF c
<1> DEFINE Q == [P EXCEPT ![k] = p]
<1>4. /\ Q[k] = p /\ \A i \in PendingSlots : i # k => Q[i] = P[i]
  OBVIOUS
<1> HIDE DEF Q
<1> QED BY <1>1, <1>2, <1>3, <1>4 DEF SlotCalls, c, Q

\* Freeing one slot settles its call.
LEMMA SlotCallsAfterAck ==
  ASSUME NEW P \in [PendingSlots -> PendingT \cup {Free}], NEW st, NEW t,
         st \in [CallIds -> Statuses], SlotCalls(P, st, t),
         NEW k \in PendingSlots, P[k] \in PendingT
  PROVE  SlotCalls([P EXCEPT ![k] = Free],
                   [st EXCEPT ![CallOf(P[k])] = "acked"], t)
<1> DEFINE c == CallOf(P[k])
           Q == [P EXCEPT ![k] = Free]
<1>1. c \in CallIds
  BY EntryCall
<1>2. \A i \in PendingSlots : P[i] # Free /\ i # k => CallOf(P[i]) # c
  BY FreeIsNoEntry DEF SlotCalls, PendingT
<1>3. /\ Q[k] = Free /\ \A i \in PendingSlots : i # k => Q[i] = P[i]
  OBVIOUS
<1>4. \A i \in PendingSlots : P[i] # Free => CallOf(P[i]) \in CallIds
  BY EntryCall
<1> HIDE DEF c, Q
<1> QED BY <1>1, <1>2, <1>3, <1>4 DEF SlotCalls, c, Q

\* The slots that tick gives up or sends again, and the history after it.
FailedIn(P, now) ==
  {i \in PendingSlots : P[i] # Free /\ Expired(P[i], now) /\ Exhausted(P[i])}
RetriedIn(P, now) ==
  {i \in PendingSlots : P[i] # Free /\ Expired(P[i], now) /\ ~Exhausted(P[i])}
StatusAfterTick(P, st, now) ==
  [c \in CallIds |->
     IF c \in {CallOf(P[i]) : i \in FailedIn(P, now)} THEN "failed" ELSE st[c]]
TxAfterTick(P, t, now) ==
  [c \in CallIds |->
     IF c \in {CallOf(P[i]) : i \in RetriedIn(P, now)} THEN t[c] + 1 ELSE t[c]]

\* One call of arc_reliable_tick: each slot that failed settles its call, each
\* slot that was retried counts one more transmission.
LEMMA SlotCallsAfterTick ==
  ASSUME NEW P \in [PendingSlots -> PendingT \cup {Free}], NEW st, NEW t,
         st \in [CallIds -> Statuses], t \in [CallIds -> 0 .. max_retries + 1],
         SlotCalls(P, st, t), NEW now \in Clocks
  PROVE  /\ SlotCalls([i \in PendingSlots |-> TickSlot(P[i], now)],
                      StatusAfterTick(P, st, now), TxAfterTick(P, t, now))
         /\ TxAfterTick(P, t, now) \in [CallIds -> 0 .. max_retries + 1]
<1> DEFINE Q   == [i \in PendingSlots |-> TickSlot(P[i], now)]
           F   == FailedIn(P, now)
           R   == RetriedIn(P, now)
           st2 == StatusAfterTick(P, st, now)
           t2  == TxAfterTick(P, t, now)
<1>a. /\ F = {i \in PendingSlots : P[i] # Free /\ Expired(P[i], now) /\ Exhausted(P[i])}
      /\ R = {i \in PendingSlots : P[i] # Free /\ Expired(P[i], now) /\ ~Exhausted(P[i])}
      /\ st2 = [c \in CallIds |-> IF c \in {CallOf(P[i]) : i \in F} THEN "failed" ELSE st[c]]
      /\ t2 = [c \in CallIds |-> IF c \in {CallOf(P[i]) : i \in R} THEN t[c] + 1 ELSE t[c]]
  BY DEF FailedIn, RetriedIn, StatusAfterTick, TxAfterTick
<1> HIDE DEF F, R, st2, t2
<1> USE <1>a
<1>1. \A i \in PendingSlots : P[i] # Free => CallOf(P[i]) \in CallIds
  BY EntryCall
<1>2. \A i \in PendingSlots :
        /\ i \in F => Q[i] = Free
        /\ i \in R => /\ Q[i] # Free /\ CallOf(Q[i]) = CallOf(P[i])
                      /\ Q[i].retries = P[i].retries + 1
                      /\ P[i].retries < max_retries
        /\ i \notin F /\ i \notin R => Q[i] = P[i]
  BY TickSlotType, FreeIsNoEntry DEF CallOf
<1>3. \A i \in PendingSlots :
        Q[i] # Free => P[i] # Free /\ i \notin F /\ CallOf(Q[i]) = CallOf(P[i])
  BY <1>2
<1>4. \A i \in F \cup R : i \in PendingSlots /\ P[i] # Free
  OBVIOUS
<1>5. \A i, j \in PendingSlots :
        P[i] # Free /\ P[j] # Free /\ CallOf(P[i]) = CallOf(P[j]) => i = j
  BY DEF SlotCalls
<1>6. \A i \in PendingSlots : P[i] # Free =>
        /\ st2[CallOf(P[i])] = IF i \in F THEN "failed" ELSE st[CallOf(P[i])]
        /\ t2[CallOf(P[i])] = IF i \in R THEN t[CallOf(P[i])] + 1 ELSE t[CallOf(P[i])]
  BY <1>1, <1>4, <1>5
<1>7. \A c \in CallIds : st2[c] = "parked" => st[c] = "parked"
  OBVIOUS
<1> HIDE DEF Q
<1>8. \A i \in PendingSlots : Q[i] # Free => st2[CallOf(Q[i])] = "parked"
  BY <1>3, <1>6 DEF SlotCalls
<1>9. ASSUME NEW c \in CallIds, st2[c] = "parked"
      PROVE  \E i \in PendingSlots : Q[i] # Free /\ CallOf(Q[i]) = c
  <2>1. PICK i \in PendingSlots : P[i] # Free /\ CallOf(P[i]) = c
    BY <1>7, <1>9 DEF SlotCalls
  <2>2. i \notin F
    BY <1>6, <1>9, <2>1
  <2> QED BY <1>2, <2>1, <2>2
<1>10. \A i, j \in PendingSlots :
         Q[i] # Free /\ Q[j] # Free /\ CallOf(Q[i]) = CallOf(Q[j]) => i = j
  BY <1>3, <1>5
<1>11. ASSUME NEW i \in PendingSlots, Q[i] # Free
       PROVE  t2[CallOf(Q[i])] = Q[i].retries + 1
  <2>1. /\ P[i] # Free /\ i \notin F /\ CallOf(Q[i]) = CallOf(P[i])
        /\ t[CallOf(P[i])] = P[i].retries + 1
    BY <1>3, <1>11 DEF SlotCalls
  <2>2. CASE i \in R
    <3>1. Q[i].retries = P[i].retries + 1
      BY <1>2, <2>2
    <3>2. t2[CallOf(P[i])] = t[CallOf(P[i])] + 1
      BY <1>6, <2>1, <2>2
    <3> QED BY <2>1, <3>1, <3>2
  <2>3. CASE i \notin R
    <3>1. Q[i] = P[i]
      BY <1>2, <2>1, <2>3
    <3>2. t2[CallOf(P[i])] = t[CallOf(P[i])]
      BY <1>6, <2>1, <2>3
    <3> QED BY <2>1, <3>1, <3>2
  <2> QED BY <2>2, <2>3
<1>12. SlotCalls(Q, st2, t2)
  BY <1>8, <1>9, <1>10, <1>11 DEF SlotCalls
<1>13. ASSUME NEW c \in CallIds PROVE t2[c] \in 0 .. max_retries + 1
  <2>1. CASE c \in {CallOf(P[i]) : i \in R}
    <3>1. PICK i \in R : c = CallOf(P[i])
      BY <2>1
    <3>2. P[i] \in PendingT
      BY <1>4
    <3>3. t[c] = P[i].retries + 1 /\ P[i].retries < max_retries
      BY <1>2, <1>4, <3>1 DEF SlotCalls
    <3>4. P[i].retries \in Nat
      BY <3>2 DEF arc_reliable_pending_t
    <3> QED BY <2>1, <3>3, <3>4, Timers
  <2>2. CASE c \notin {CallOf(P[i]) : i \in R}
    BY <2>2
  <2> QED BY <2>1, <2>2
<1> QED BY <1>12, <1>13 DEF Q, st2, t2

\* Each action keeps the types and the correspondence.
LEMMA CallsStep == TypeOK /\ ParkedInOneSlot /\ [Next]_vars => (TypeOK /\ ParkedInOneSlot)'
<1> SUFFICES ASSUME TypeOK, ParkedInOneSlot, [Next]_vars
             PROVE  TypeOK' /\ ParkedInOneSlot'
  OBVIOUS
<1> DEFINE P == r.pending
<1>1. /\ r \in EndpointT /\ r.my_addr = my_addr /\ r.session = session
      /\ now_ms \in Clocks /\ idle \in 0 .. TICK_PERIOD
      /\ status \in [CallIds -> Statuses]
      /\ tx \in [CallIds -> 0 .. max_retries + 1] /\ age \in [CallIds -> Nat]
      /\ recent \in Seq(SeenT) /\ Len(recent) <= ARC_RELIABLE_SEEN_MAX
      /\ restarts \subseteq Addrs
  BY TypeOfR
<1>2. P \in [PendingSlots -> PendingT \cup {Free}]
  BY <1>1, EndpointFields
<1>3. SlotCalls(P, status, tx)
  BY SlotCallsIsParked
<1>4. ASSUME /\ r' \in EndpointT /\ r'.my_addr = my_addr /\ r'.session = session
             /\ now_ms' \in Clocks /\ idle' \in 0 .. TICK_PERIOD
             /\ status' \in [CallIds -> Statuses]
             /\ tx' \in [CallIds -> 0 .. max_retries + 1] /\ age' \in [CallIds -> Nat]
             /\ recent' \in Seq(SeenT) /\ Len(recent') <= ARC_RELIABLE_SEEN_MAX
             /\ restarts' \subseteq Addrs,
             SlotCalls(r'.pending, status', tx')
      PROVE  TypeOK' /\ ParkedInOneSlot'
  <2>1. TypeOK'
    BY <1>4 DEF TypeOK
  <2>2. (TypeOK => (ParkedInOneSlot <=> SlotCalls(r.pending, status, tx)))'
    BY SlotCallsIsParked, PTL
  <2> QED BY <1>4, <2>1, <2>2
<1> HIDE DEF P
<1>5. ASSUME NEW c \in CallIds, SendRejected(c) PROVE TypeOK' /\ ParkedInOneSlot'
  <2>1. SlotCalls(P, [status EXCEPT ![c] = "refused"], tx)
    BY <1>1, <1>3, <1>5 DEF SendRejected, SlotCalls
  <2> QED BY <1>1, <1>4, <1>5, <2>1 DEF SendRejected, Statuses, P
<1>6. ASSUME NEW c \in CallIds, SendUnreliable(c) PROVE TypeOK' /\ ParkedInOneSlot'
  <2>1. SlotCalls(P, [status EXCEPT ![c] = "sent"], [tx EXCEPT ![c] = 1])
    BY <1>1, <1>3, <1>6 DEF SendUnreliable, SlotCalls
  <2>2. 1 \in 0 .. max_retries + 1
    BY Timers
  <2> QED BY <1>1, <1>4, <1>6, <2>1, <2>2, TakeSeq DEF SendUnreliable, Statuses, P
<1>7. ASSUME NEW c \in CallIds, SendBufferFull(c) PROVE TypeOK' /\ ParkedInOneSlot'
  <2>1. SlotCalls(P, [status EXCEPT ![c] = "refused"], tx)
    BY <1>1, <1>3, <1>7 DEF SendBufferFull, SlotCalls
  <2> QED BY <1>1, <1>4, <1>7, <2>1, TakeSeq DEF SendBufferFull, Statuses, P
<1>8. ASSUME NEW c \in CallIds, NEW dst \in Addrs, NEW ack \in BOOLEAN,
             SendReliable(c, dst, ack)
      PROVE  TypeOK' /\ ParkedInOneSlot'
  <2> DEFINE k == pending_alloc(P)
             p == StagedEntry(r, dst, ack, <<c>>, now_ms)
  <2>1. /\ k \in PendingSlots /\ P[k] = Free
        /\ p \in PendingT /\ CallOf(p) = c /\ p.retries = 0
        /\ r' \in EndpointT /\ r'.pending = [P EXCEPT ![k] = p]
        /\ r'.my_addr = my_addr /\ r'.session = session
    <3>1. /\ FreeSlots(r.pending) # {}
          /\ r' = [take_seq(r) EXCEPT !.pending[k] = p]
      BY <1>8 DEF SendReliable, SendParked, P
    <3>2. k \in PendingSlots /\ P[k] = Free
      BY <1>1, <3>1, AllocFree DEF P
    <3>3. p \in PendingT /\ CallOf(p) = c /\ p.retries = 0
      <4>1. (now_ms + timeout_ms) % CLOCK \in Clocks
        BY <1>1, Deadline
      <4>2. 0 \in 0 .. max_retries
        BY Timers
      <4>3. r.session \in Sessions /\ r.next_seq \in Seqs
        BY <1>1, EndpointFields
      <4> QED BY <4>1, <4>2, <4>3
              DEF StagedEntry, arc_reliable_pending_t, Payloads, CallOf
    <3> HIDE DEF k, p
    <3> DEFINE g == [take_seq(r) EXCEPT !.pending[k] = p]
    <3>4. /\ g \in EndpointT /\ g.pending = [r.pending EXCEPT ![k] = p]
          /\ g.my_addr = r.my_addr /\ g.session = r.session
      <4>1. r \in EndpointT /\ k \in PendingSlots /\ p \in PendingT
        BY <1>1, <3>2, <3>3
      <4> QED BY <4>1, ParkEntry
    <3> HIDE DEF g
    <3>5. r' = g
      BY <3>1 DEF g
    <3> QED BY <1>1, <3>2, <3>3, <3>4, <3>5 DEF P
  <2> HIDE DEF k, p
  <2>3. SlotCalls(r'.pending, status', tx')
    <3>1. /\ status[CallOf(p)] = "unused"
          /\ status' = [status EXCEPT ![CallOf(p)] = "parked"]
          /\ tx' = [tx EXCEPT ![CallOf(p)] = 1]
      BY <1>8, <2>1 DEF SendReliable
    <3>2. SlotCalls([P EXCEPT ![k] = p], [status EXCEPT ![CallOf(p)] = "parked"],
                    [tx EXCEPT ![CallOf(p)] = 1])
      BY <1>1, <1>2, <1>3, <2>1, <3>1, SlotCallsAfterSend
    <3> QED BY <2>1, <3>1, <3>2
  <2>4. 1 \in 0 .. max_retries + 1
    BY Timers
  <2> QED BY <1>1, <1>4, <1>8, <2>1, <2>3, <2>4 DEF SendReliable, Statuses
<1>9. ASSUME NEW f \in Inbound, ReceivePlain(f) PROVE TypeOK' /\ ParkedInOneSlot'
  BY <1>1, <1>3, <1>4, <1>9, ReceiveBranches DEF ReceivePlain, P
<1>10. ASSUME NEW f \in Inbound, ReceiveData(f) PROVE TypeOK' /\ ParkedInOneSlot'
  <2>1. f \in Frames /\ r' = ReceiveReliable(r, f)
    BY <1>10, ReceiveBranches
  <2>2. /\ r' \in EndpointT /\ r'.pending = P
        /\ r'.my_addr = my_addr /\ r'.session = session
    BY <1>1, <2>1, FrameFields, ReceiveReliableType, ReceiveReliableFields DEF P
  <2>3. seen_key(f) \in SeenT
    BY <2>1 DEF Frames, seen_key, arc_reliable_seen_t
  <2>4. recent' \in Seq(SeenT) /\ Len(recent') <= ARC_RELIABLE_SEEN_MAX
    <3> DEFINE old == IF Len(recent) < ARC_RELIABLE_SEEN_MAX THEN recent ELSE Tail(recent)
    <3>1. recent' = recent \/ recent' = Append(old, seen_key(f))
      BY <1>10 DEF ReceiveData, RecentAfter
    <3>2. old \in Seq(SeenT) /\ Len(old) < ARC_RELIABLE_SEEN_MAX
      <4>1. ARC_RELIABLE_SEEN_MAX \in Nat /\ ARC_RELIABLE_SEEN_MAX > 0
        BY TableSizes
      <4>2. CASE Len(recent) < ARC_RELIABLE_SEEN_MAX
        BY <1>1, <4>2
      <4>3. CASE ~(Len(recent) < ARC_RELIABLE_SEEN_MAX)
        <5>1. recent \in Seq(SeenT) /\ Len(recent) <= ARC_RELIABLE_SEEN_MAX
          BY <1>1
        <5>2. recent # <<>>
          BY <4>1, <4>3
        <5>3. Tail(recent) \in Seq(SeenT) /\ Len(Tail(recent)) = Len(recent) - 1
          BY <5>1, <5>2
        <5>4. Len(recent) \in Nat
          BY <5>1
        <5> QED BY <4>1, <4>3, <5>1, <5>3, <5>4
      <4> QED BY <4>2, <4>3
    <3> HIDE DEF old
    <3>3. /\ Append(old, seen_key(f)) \in Seq(SeenT)
          /\ Len(Append(old, seen_key(f))) = Len(old) + 1
      BY <2>3, <3>2
    <3>4. Len(old) \in Nat /\ ARC_RELIABLE_SEEN_MAX \in Nat
      BY <3>2, TableSizes
    <3>5. Len(Append(old, seen_key(f))) <= ARC_RELIABLE_SEEN_MAX
      BY <3>2, <3>3, <3>4
    <3>6. CASE recent' = recent
      BY <1>1, <3>6
    <3>7. CASE recent' = Append(old, seen_key(f))
      BY <3>3, <3>5, <3>7
    <3> QED BY <3>1, <3>6, <3>7
  <2>5. restarts' \subseteq Addrs
    BY <1>1, <1>10, <2>1 DEF ReceiveData, Frames
  <2> QED BY <1>1, <1>3, <1>4, <1>10, <2>2, <2>4, <2>5 DEF ReceiveData
<1>11. ASSUME NEW f \in Inbound, ReceiveAnAck(f) PROVE TypeOK' /\ ParkedInOneSlot'
  <2>1. f \in Frames /\ r' = ReceiveAck(r, f)
    BY <1>11, ReceiveBranches
  <2>2. r' \in EndpointT
    BY <1>1, <2>1, ReceiveAckType
  <2>3. r'.my_addr = my_addr /\ r'.session = session
    BY <1>1, <2>1 DEF ReceiveAck, arc_reliable_t
  <2>4. CASE AckedSlots(r, f) = {}
    <3>1. r'.pending = P
      BY <1>1, <2>1, <2>4 DEF ReceiveAck, P
    <3> QED BY <1>1, <1>3, <1>4, <1>11, <2>2, <2>3, <2>4, <3>1 DEF ReceiveAnAck
  <2>5. CASE AckedSlots(r, f) # {}
    <3> DEFINE k == AckedSlot(r, f)
    <3>1. k \in PendingSlots /\ P[k] \in PendingT
      BY <1>1, <2>1, <2>5, AckedSlotUsed DEF P
    <3>2. r'.pending = [P EXCEPT ![k] = Free]
      BY <1>1, <2>1, <2>5 DEF ReceiveAck, arc_reliable_t, P
    <3>3. /\ status' = [status EXCEPT ![CallOf(P[k])] = "acked"]
          /\ age' = [age EXCEPT ![CallOf(P[k])] = 0]
          /\ UNCHANGED <<now_ms, idle, tx, recent, restarts>>
      BY <1>11, <2>5 DEF ReceiveAnAck, P
    <3> HIDE DEF k
    <3>4. SlotCalls(r'.pending, status', tx')
      <4>1. SlotCalls([P EXCEPT ![k] = Free], [status EXCEPT ![CallOf(P[k])] = "acked"], tx)
        BY <1>1, <1>2, <1>3, <3>1, SlotCallsAfterAck
      <4> QED BY <3>2, <3>3, <4>1
    <3>5. status' \in [CallIds -> Statuses] /\ age' \in [CallIds -> Nat]
      BY <1>1, <3>3 DEF Statuses, Settled
    <3> QED BY <1>1, <1>4, <2>2, <2>3, <3>3, <3>4, <3>5
  <2> QED BY <2>4, <2>5
<1>12. CASE Tick
  <2>1. /\ r' \in EndpointT /\ r'.my_addr = my_addr /\ r'.session = session
        /\ r'.pending = [i \in PendingSlots |-> TickSlot(P[i], now_ms)]
    BY <1>1, <1>12, TickType, TickFields DEF Tick, P
  <2>2. /\ FailedSlots(r, now_ms) = FailedIn(P, now_ms)
        /\ RetriedSlots(r, now_ms) = RetriedIn(P, now_ms)
    BY <1>2 DEF FailedSlots, RetriedSlots, ExpiredSlots, UsedSlots, P, FailedIn, RetriedIn
  <2>3. /\ status' = StatusAfterTick(P, status, now_ms)
        /\ tx' = TxAfterTick(P, tx, now_ms)
    BY <1>12, <2>2 DEF Tick, CallsIn, P, StatusAfterTick, TxAfterTick
  <2>4. SlotCalls(r'.pending, status', tx') /\ tx' \in [CallIds -> 0 .. max_retries + 1]
    <3>1. /\ SlotCalls([i \in PendingSlots |-> TickSlot(P[i], now_ms)],
                       StatusAfterTick(P, status, now_ms), TxAfterTick(P, tx, now_ms))
          /\ TxAfterTick(P, tx, now_ms) \in [CallIds -> 0 .. max_retries + 1]
      BY <1>1, <1>2, <1>3, SlotCallsAfterTick
    <3> QED BY <2>1, <2>3, <3>1
  <2>5. status' \in [CallIds -> Statuses]
    BY <1>1, <2>3 DEF StatusAfterTick, Statuses, Settled
  <2>6. /\ age' \in [CallIds -> Nat] /\ idle' \in 0 .. TICK_PERIOD
        /\ now_ms' = now_ms /\ recent' = recent /\ restarts' = restarts
    BY <1>1, <1>12, TickPeriod, Widths DEF Tick
  <2> QED BY <1>1, <1>4, <2>1, <2>4, <2>5, <2>6
<1>13. CASE AdvanceClock
  <2>1. now_ms + 1 \in Int
    BY <1>1, Moduli DEF Clocks
  <2>2. now_ms' \in Clocks
    BY <1>13, <2>1, ModRange DEF AdvanceClock
  <2>3. age' \in [CallIds -> Nat] /\ idle' \in 0 .. TICK_PERIOD
    BY <1>1, <1>13, TickPeriod, Widths DEF AdvanceClock
  <2> QED BY <1>1, <1>3, <1>4, <1>13, <2>2, <2>3 DEF AdvanceClock, P
<1>14. CASE UNCHANGED vars
  BY <1>1, <1>3, <1>4, <1>14 DEF vars, P
<1> QED BY <1>5, <1>6, <1>7, <1>8, <1>9, <1>10, <1>11, <1>12, <1>13, <1>14, Destinations
       DEF Next

\* The initial state.
LEMMA CallsInit == Init => TypeOK /\ ParkedInOneSlot
<1> SUFFICES ASSUME Init PROVE TypeOK /\ ParkedInOneSlot
  OBVIOUS
<1>1. r \in EndpointT /\ r.my_addr = my_addr /\ r.session = session
  BY TypeInit, InitArguments DEF Init, arc_reliable_init
<1>2. TypeOK
  <2>1. 0 \in 0 .. TICK_PERIOD /\ 0 \in 0 .. max_retries + 1
    BY TickPeriod, Widths, Timers
  <2>2. recent \in Seq(SeenT) /\ Len(recent) <= ARC_RELIABLE_SEEN_MAX
    BY TableSizes DEF Init
  <2>3. restarts \subseteq Addrs
    BY DEF Init
  <2> QED BY <1>1, <2>1, <2>2, <2>3, TypeOfR DEF Init, Statuses
<1>3. SlotCalls(r.pending, status, tx)
  BY DEF Init, arc_reliable_init, EmptyTable, SlotCalls, PendingSlots
<1> QED BY <1>2, <1>3, SlotCallsIsParked

\* The endpoint keeps the types of its tables and counters, whatever arrives.
THEOREM EndpointTypes == Spec => []TypeOK
<1>1. Spec => [](TypeOK /\ ParkedInOneSlot)
  BY CallsInit, CallsStep, PTL DEF Spec
<1> QED BY <1>1, PTL

\* A call waits for its ACK exactly while one slot holds its frame, and the
\* retries of the slot count its retransmissions.
THEOREM OneSlotPerCall == Spec => []ParkedInOneSlot
<1>1. Spec => [](TypeOK /\ ParkedInOneSlot)
  BY CallsInit, CallsStep, PTL DEF Spec
<1> QED BY <1>1, PTL

----------------------------------------------------------------------------
(* The tables of the receiving side.                                       *)

\* No source has two slots, and no key either.
SourcesDistinct(o) ==
  \A i, j \in SourcesSlots :
    o[i] # Free /\ o[j] # Free /\ o[i].src = o[j].src => i = j
SeenDistinct(s) ==
  \A i, j \in SeenSlots : s[i] # Free /\ s[j] # Free /\ s[i] = s[j] => i = j

\* Keys of a tracked source have its session.
KeysCurrent(o, s) ==
  \A i \in SourcesSlots, j \in SeenSlots :
    o[i] # Free /\ s[j] # Free /\ o[i].src = s[j].src => o[i].session = s[j].session

\* The strengthening: while sources[] has a free slot, every source with a key
\* in seen[] is tracked, so a source that gets a slot has no key yet.
KeysTracked(o, s) ==
  (\E i \in SourcesSlots : o[i] = Free) =>
    \A j \in SeenSlots : s[j] # Free =>
      \E i \in SourcesSlots : o[i] # Free /\ o[i].src = s[j].src

TablesInv(o, s) ==
  SourcesDistinct(o) /\ SeenDistinct(s) /\ KeysCurrent(o, s) /\ KeysTracked(o, s)

\* The session check keeps the tables in order and leaves only keys of the
\* session of the frame for its source, if the source is tracked.
LEMMA SessionCheckKeepsTables ==
  ASSUME NEW o \in [SourcesSlots -> SourceT \cup {Free}],
         NEW s \in [SeenSlots -> SeenT \cup {Free}],
         NEW src \in Addrs, NEW ses \in Sessions, TablesInv(o, s),
         NEW o2, o2 = note_source(o, src, ses),
         NEW s2, s2 = IF source_session_changed(o, src, ses)
                      THEN seen_drop_source(s, src) ELSE s
  PROVE  /\ TablesInv(o2, s2)
         /\ \A i \in SourcesSlots : o2[i] # Free /\ o2[i].src = src => o2[i].session = ses
         /\ (\E i \in SourcesSlots : o2[i] = Free) =>
              \E i \in SourcesSlots : o2[i] # Free /\ o2[i].src = src
<1> DEFINE new == [src |-> src, session |-> ses]
<1>1. new \in SourceT /\ new # Free /\ new.src = src /\ new.session = ses
  BY FreeIsNoEntry DEF SourceT, arc_reliable_source_t
<1> HIDE DEF new
<1>2. \A j \in SeenSlots : s2[j] # Free => s[j] # Free /\ s2[j] = s[j]
  BY DEF seen_drop_source
<1>3. SeenDistinct(s2)
  BY <1>2 DEF TablesInv, SeenDistinct
<1>4. CASE \E k \in SourcesSlots :
             /\ o[k] # Free /\ o[k].src = src
             /\ o2 = [o EXCEPT ![k] = new]
             /\ source_session_changed(o, src, ses) <=> o[k].session # ses
  <2>1. PICK k \in SourcesSlots :
             /\ o[k] # Free /\ o[k].src = src
             /\ o2 = [o EXCEPT ![k] = new]
             /\ source_session_changed(o, src, ses) <=> o[k].session # ses
    BY <1>4
  <2>2. /\ o2[k] = new
        /\ \A i \in SourcesSlots : i # k => o2[i] = o[i]
        /\ \A i \in SourcesSlots : o[i] # Free /\ o[i].src = src => i = k
    BY <2>1 DEF TablesInv, SourcesDistinct
  <2>3. \A j \in SeenSlots : s2[j] # Free /\ s2[j].src = src => s2[j].session = ses
    <3>1. CASE o[k].session # ses
      BY <2>1, <3>1 DEF seen_drop_source
    <3>2. CASE o[k].session = ses
      BY <1>2, <2>1, <3>2 DEF TablesInv, KeysCurrent
    <3> QED BY <3>1, <3>2
  <2>4. SourcesDistinct(o2)
    BY <1>1, <2>1, <2>2 DEF TablesInv, SourcesDistinct
  <2>5. KeysCurrent(o2, s2)
    BY <1>1, <1>2, <2>1, <2>2, <2>3 DEF TablesInv, KeysCurrent
  <2>6. KeysTracked(o2, s2)
    BY <1>1, <1>2, <2>1, <2>2 DEF TablesInv, KeysTracked
  <2> QED BY <1>1, <1>3, <2>2, <2>4, <2>5, <2>6 DEF TablesInv
<1>5. CASE \E k \in SourcesSlots :
             /\ o[k] = Free
             /\ \A i \in SourcesSlots : o[i] # Free => o[i].src # src
             /\ o2 = [o EXCEPT ![k] = new]
             /\ ~source_session_changed(o, src, ses)
  <2>1. PICK k \in SourcesSlots :
             /\ o[k] = Free
             /\ \A i \in SourcesSlots : o[i] # Free => o[i].src # src
             /\ o2 = [o EXCEPT ![k] = new]
    BY <1>5
  <2>2. o2[k] = new /\ \A i \in SourcesSlots : i # k => o2[i] = o[i]
    BY <2>1
  <2>3. \A j \in SeenSlots : s2[j] # Free => s2[j].src # src
    BY <1>2, <2>1 DEF TablesInv, KeysTracked
  <2>4. SourcesDistinct(o2)
    BY <1>1, <2>1, <2>2 DEF TablesInv, SourcesDistinct
  <2>5. KeysCurrent(o2, s2)
    BY <1>1, <1>2, <2>2, <2>3 DEF TablesInv, KeysCurrent
  <2>6. KeysTracked(o2, s2)
    BY <1>1, <1>2, <2>1, <2>2 DEF TablesInv, KeysTracked
  <2> QED BY <1>1, <1>3, <2>1, <2>2, <2>4, <2>5, <2>6 DEF TablesInv
<1>6. CASE /\ \A i \in SourcesSlots : o[i] # Free /\ o[i].src # src
           /\ o2 = o
           /\ ~source_session_changed(o, src, ses)
  BY <1>2, <1>3, <1>6 DEF TablesInv, KeysCurrent, KeysTracked
<1> QED BY <1>4, <1>5, <1>6, NoteSourceCases DEF new

\* Remembering a key that is not there, of a source whose session was checked.
LEMMA AddKeepsTables ==
  ASSUME NEW o, NEW s \in [SeenSlots -> SeenT \cup {Free}], NEW k \in SeenT,
         NEW i \in SeenSlots, TablesInv(o, s),
         \A j \in SeenSlots : s[j] # k,
         \A j \in SourcesSlots : o[j] # Free /\ o[j].src = k.src => o[j].session = k.session,
         (\E j \in SourcesSlots : o[j] = Free) =>
           \E j \in SourcesSlots : o[j] # Free /\ o[j].src = k.src
  PROVE  TablesInv(o, [s EXCEPT ![i] = k])
<1> DEFINE q == [s EXCEPT ![i] = k]
<1>1. q[i] = k /\ \A j \in SeenSlots : j # i => q[j] = s[j]
  OBVIOUS
<1> HIDE DEF q
<1>2. SeenDistinct(q)
  BY <1>1 DEF TablesInv, SeenDistinct
<1>3. KeysCurrent(o, q)
  BY <1>1 DEF TablesInv, KeysCurrent
<1>4. KeysTracked(o, q)
  BY <1>1 DEF TablesInv, KeysTracked
<1> QED BY <1>2, <1>3, <1>4 DEF TablesInv, q

\* TablesInv gives the two properties of ReliableEndpoint.
LEMMA TablesInvProperties ==
  TypeOK /\ TablesInv(r.sources, r.seen) => TablesHaveNoDuplicates /\ TrackedSessions
<1> SUFFICES ASSUME TypeOK, TablesInv(r.sources, r.seen)
             PROVE  TablesHaveNoDuplicates /\ TrackedSessions
  OBVIOUS
<1> DEFINE o == r.sources
           s == r.seen
<1>1. /\ o \in [SourcesSlots -> SourceT \cup {Free}]
      /\ s \in [SeenSlots -> SeenT \cup {Free}]
  BY TypeOfR, EndpointFields
<1>2. TablesInv(o, s)
  OBVIOUS
<1> HIDE DEF o, s
<1> QED BY <1>1, <1>2
        DEF TablesHaveNoDuplicates, TrackedSessions, UsedSlots, TablesInv,
            SourcesDistinct, SeenDistinct, KeysCurrent, o, s

\* Only a reliable frame changes the tables, and it keeps TablesInv.
LEMMA TablesStep ==
  TypeOK /\ TablesInv(r.sources, r.seen) /\ [Next]_vars => TablesInv(r.sources, r.seen)'
<1> SUFFICES ASSUME TypeOK, TablesInv(r.sources, r.seen), [Next]_vars
             PROVE  TablesInv(r'.sources, r'.seen)
  OBVIOUS
<1>1. r \in EndpointT /\ now_ms \in Clocks
  BY TypeOfR
<1>2. ASSUME r'.sources = r.sources, r'.seen = r.seen
      PROVE  TablesInv(r'.sources, r'.seen)
  BY <1>2
<1>3. ASSUME NEW c \in CallIds,
             SendRejected(c) \/ SendUnreliable(c) \/ SendBufferFull(c)
      PROVE  TablesInv(r'.sources, r'.seen)
  BY <1>1, <1>2, <1>3, TakeSeq DEF SendRejected, SendUnreliable, SendBufferFull
<1>4. ASSUME NEW c \in CallIds, NEW dst \in Addrs, NEW ack \in BOOLEAN,
             SendReliable(c, dst, ack)
      PROVE  TablesInv(r'.sources, r'.seen)
  <2> DEFINE g == take_seq(r)
             p == StagedEntry(r, dst, ack, <<c>>, now_ms)
             k == pending_alloc(r.pending)
  <2>1. r' = [g EXCEPT !.pending[k] = p]
    BY <1>4 DEF SendReliable, SendParked
  <2>2. g \in EndpointT /\ g.sources = r.sources /\ g.seen = r.seen
    BY <1>1, TakeSeq
  <2> HIDE DEF g, k, p
  <2>3. r'.sources = g.sources /\ r'.seen = g.seen
    BY <2>1, <2>2 DEF arc_reliable_t
  <2> QED BY <1>2, <2>2, <2>3
<1>5. ASSUME NEW f \in Inbound, ReceivePlain(f) PROVE TablesInv(r'.sources, r'.seen)
  BY <1>2, <1>5, ReceiveBranches
<1>6. ASSUME NEW f \in Inbound, ReceiveAnAck(f) PROVE TablesInv(r'.sources, r'.seen)
  <2>1. r' = ReceiveAck(r, f)
    BY <1>6, ReceiveBranches
  <2> QED BY <1>1, <1>2, <2>1 DEF ReceiveAck, arc_reliable_t
<1>7. ASSUME NEW f \in Inbound, ReceiveData(f) PROVE TablesInv(r'.sources, r'.seen)
  <2> DEFINE o2 == note_source(r.sources, f.src, f.session)
             s2 == CheckSession(r, f).seen
             k  == seen_key(f)
  <2>1. f \in Frames /\ r' = ReceiveReliable(r, f)
    BY <1>7, ReceiveBranches
  <2>2. /\ f.src \in Addrs /\ f.session \in Sessions
        /\ k \in SeenT /\ k.src = f.src /\ k.session = f.session /\ f.seq \in Seqs
    BY <2>1 DEF Frames, seen_key, arc_reliable_seen_t
  <2>3. s2 = IF source_session_changed(r.sources, f.src, f.session)
             THEN seen_drop_source(r.seen, f.src) ELSE r.seen
    BY <1>1, <2>2, CheckSessionType
  <2>4. s2 \in [SeenSlots -> SeenT \cup {Free}]
    BY <1>1, <2>2, CheckSessionType, EndpointFields
  <2>5. /\ r'.sources = o2
        /\ IsDuplicate(r, f) => r'.seen = s2
        /\ ~IsDuplicate(r, f) => \E i \in SeenSlots : r'.seen = [s2 EXCEPT ![i] = k]
    <3>1. SeenSlot(take_seq(CheckSession(r, f))) \in SeenSlots
      BY <1>1, <2>2, ReceiveReliableSlot
    <3>2. ~IsDuplicate(r, f) =>
            r'.seen = [s2 EXCEPT ![SeenSlot(take_seq(CheckSession(r, f)))] = k]
      BY <1>1, <2>1, <2>2, ReceiveReliableSeen
    <3>3. r'.sources = o2 /\ (IsDuplicate(r, f) => r'.seen = s2)
      BY <1>1, <2>1, <2>2, ReceiveReliableFields
    <3> HIDE DEF s2, k
    <3> QED BY <3>1, <3>2, <3>3
  <2>6. /\ r.sources \in [SourcesSlots -> SourceT \cup {Free}]
        /\ r.seen \in [SeenSlots -> SeenT \cup {Free}]
    BY <1>1, EndpointFields
  <2>7. ~IsDuplicate(r, f) => \A j \in SeenSlots : s2[j] # k
    BY <2>2, <2>4, FreeIsNoEntry DEF IsDuplicate, seen_contains, UsedSlots
  <2> HIDE DEF s2, k
  <2>8. /\ TablesInv(o2, s2)
        /\ \A i \in SourcesSlots : o2[i] # Free /\ o2[i].src = f.src => o2[i].session = f.session
        /\ (\E i \in SourcesSlots : o2[i] = Free) =>
             \E i \in SourcesSlots : o2[i] # Free /\ o2[i].src = f.src
    BY <2>2, <2>3, <2>6, SessionCheckKeepsTables
  <2> HIDE DEF o2
  <2>9. CASE IsDuplicate(r, f)
    BY <2>5, <2>8, <2>9
  <2>10. CASE ~IsDuplicate(r, f)
    <3>1. PICK i \in SeenSlots : r'.seen = [s2 EXCEPT ![i] = k]
      BY <2>5, <2>10
    <3>2. TablesInv(o2, [s2 EXCEPT ![i] = k])
      BY <2>2, <2>4, <2>7, <2>8, <2>10, AddKeepsTables
    <3> QED BY <2>5, <3>1, <3>2
  <2> QED BY <2>9, <2>10
<1>8. CASE Tick
  BY <1>1, <1>2, <1>8 DEF Tick, arc_reliable_tick, arc_reliable_t
<1>9. CASE AdvanceClock
  BY <1>2, <1>9 DEF AdvanceClock
<1>10. CASE UNCHANGED vars
  BY <1>2, <1>10 DEF vars
<1> QED BY <1>3, <1>4, <1>5, <1>6, <1>7, <1>8, <1>9, <1>10, Destinations DEF Next

\* The empty tables are in order.
LEMMA TablesInit == Init => TablesInv(r.sources, r.seen)
<1> SUFFICES ASSUME Init PROVE TablesInv(r.sources, r.seen)
  OBVIOUS
<1>1. /\ \A i \in SourcesSlots : r.sources[i] = Free
      /\ \A i \in SeenSlots : r.seen[i] = Free
  BY DEF Init, arc_reliable_init, EmptyTable, SourcesSlots, SeenSlots
<1> QED BY <1>1 DEF TablesInv, SourcesDistinct, SeenDistinct, KeysCurrent, KeysTracked

\* The deduplication tables hold no source and no key twice.
THEOREM NoDuplicateEntries == Spec => []TablesHaveNoDuplicates
<1>1. Spec => []TablesInv(r.sources, r.seen)
  BY TablesInit, TablesStep, EndpointTypes, PTL DEF Spec
<1> QED BY <1>1, EndpointTypes, TablesInvProperties, PTL

\* No key of an earlier session of a tracked peer is left in seen[], so a peer
\* that restarts is never answered from the memory of its previous run.
THEOREM SessionsAreTracked == Spec => []TrackedSessions
<1>1. Spec => []TablesInv(r.sources, r.seen)
  BY TablesInit, TablesStep, EndpointTypes, PTL DEF Spec
<1> QED BY <1>1, EndpointTypes, TablesInvProperties, PTL

----------------------------------------------------------------------------
(* The outcome of a call.                                                  *)

\* Tick touches only parked calls, and fails only those it has sent
\* max_retries + 1 times.
LEMMA TickOutcome ==
  ASSUME NEW P \in [PendingSlots -> PendingT \cup {Free}], NEW st, NEW t,
         SlotCalls(P, st, t), NEW now \in Clocks, NEW c \in CallIds
  PROVE  /\ st[c] # "parked" => /\ StatusAfterTick(P, st, now)[c] = st[c]
                                /\ TxAfterTick(P, t, now)[c] = t[c]
         /\ st[c] = "parked" /\ StatusAfterTick(P, st, now)[c] = "failed"
              => TxAfterTick(P, t, now)[c] = max_retries + 1
<1> DEFINE F == FailedIn(P, now)
           R == RetriedIn(P, now)
<1>1. /\ StatusAfterTick(P, st, now)[c] =
           IF c \in {CallOf(P[i]) : i \in F} THEN "failed" ELSE st[c]
      /\ TxAfterTick(P, t, now)[c] =
           IF c \in {CallOf(P[i]) : i \in R} THEN t[c] + 1 ELSE t[c]
  BY DEF StatusAfterTick, TxAfterTick
<1>2. \A i \in F \cup R : i \in PendingSlots /\ P[i] # Free /\ st[CallOf(P[i])] = "parked"
  BY DEF FailedIn, RetriedIn, SlotCalls
<1>3. CASE st[c] # "parked"
  BY <1>1, <1>2, <1>3
<1>4. CASE st[c] = "parked" /\ StatusAfterTick(P, st, now)[c] = "failed"
  <2>1. PICK i \in F : CallOf(P[i]) = c
    BY <1>1, <1>4
  <2>2. i \in PendingSlots /\ P[i] # Free /\ Exhausted(P[i]) /\ i \notin R
    BY <2>1 DEF FailedIn, RetriedIn
  <2>3. c \notin {CallOf(P[j]) : j \in R}
    BY <1>2, <2>1, <2>2 DEF SlotCalls
  <2>4. P[i].retries = max_retries
    BY <2>2, Timers DEF Exhausted, arc_reliable_pending_t
  <2>5. t[c] = P[i].retries + 1
    BY <2>1, <2>2 DEF SlotCalls
  <2>6. TxAfterTick(P, t, now)[c] = t[c]
    BY <1>1, <2>3, Zenon
  <2> QED BY <1>4, <2>4, <2>5, <2>6
<1> QED BY <1>3, <1>4

\* A step changes the status of a call only from unused or parked, counts a
\* transmission only then, and makes it failed only after the last retry.
LEMMA OutcomeStep ==
  TypeOK /\ ParkedInOneSlot /\ [Next]_vars =>
    \A c \in CallIds :
      /\ status[c] \in {"acked", "failed", "refused"}
           => status'[c] = status[c] /\ tx'[c] = tx[c]
      /\ status[c] # "failed" /\ status'[c] = "failed" => tx'[c] = max_retries + 1
<1> SUFFICES ASSUME TypeOK, ParkedInOneSlot, [Next]_vars, NEW c \in CallIds
             PROVE  /\ status[c] \in {"acked", "failed", "refused"}
                         => status'[c] = status[c] /\ tx'[c] = tx[c]
                    /\ status[c] # "failed" /\ status'[c] = "failed"
                         => tx'[c] = max_retries + 1
  OBVIOUS
<1> DEFINE P == r.pending
<1>1. /\ r \in EndpointT /\ now_ms \in Clocks
      /\ status \in [CallIds -> Statuses] /\ tx \in [CallIds -> 0 .. max_retries + 1]
  BY TypeOfR
<1>2. P \in [PendingSlots -> PendingT \cup {Free}] /\ SlotCalls(P, status, tx)
  BY <1>1, EndpointFields, SlotCallsIsParked
<1>3. ASSUME NEW d \in CallIds,
             \/ SendRejected(d) \/ SendUnreliable(d) \/ SendBufferFull(d)
             \/ \E dst \in Dsts, ack \in BOOLEAN : SendReliable(d, dst, ack)
      PROVE  /\ status[c] \in {"acked", "failed", "refused"}
                  => status'[c] = status[c] /\ tx'[c] = tx[c]
             /\ status'[c] = "failed" => status[c] = "failed"
  BY <1>1, <1>3 DEF SendRejected, SendUnreliable, SendBufferFull, SendReliable
<1>4. ASSUME NEW f \in Inbound, ReceiveAnAck(f)
      PROVE  /\ status[c] \in {"acked", "failed", "refused"}
                  => status'[c] = status[c] /\ tx'[c] = tx[c]
             /\ status'[c] = "failed" => status[c] = "failed"
  <2>1. CASE AckedSlots(r, f) = {}
    BY <1>4, <2>1 DEF ReceiveAnAck
  <2>2. CASE AckedSlots(r, f) # {}
    <3> DEFINE k == AckedSlot(r, f)
    <3>1. k \in PendingSlots /\ P[k] \in PendingT
      BY <1>1, <2>2, AckedSlotUsed, InboundFrames
    <3>2. status[CallOf(P[k])] = "parked"
      BY <1>2, <3>1, FreeIsNoEntry DEF SlotCalls, PendingT
    <3>3. status' = [status EXCEPT ![CallOf(P[k])] = "acked"] /\ tx' = tx
      BY <1>4, <2>2 DEF ReceiveAnAck
    <3> HIDE DEF P, k
    <3> QED BY <1>1, <3>2, <3>3
  <2> QED BY <2>1, <2>2
<1>5. CASE Tick
  <2>1. /\ FailedSlots(r, now_ms) = FailedIn(P, now_ms)
        /\ RetriedSlots(r, now_ms) = RetriedIn(P, now_ms)
    BY <1>2 DEF FailedSlots, RetriedSlots, ExpiredSlots, UsedSlots, FailedIn, RetriedIn
  <2>2. /\ status' = StatusAfterTick(P, status, now_ms)
        /\ tx' = TxAfterTick(P, tx, now_ms)
    BY <1>5, <2>1 DEF Tick, CallsIn, StatusAfterTick, TxAfterTick
  <2> HIDE DEF P
  <2> QED BY <1>1, <1>2, <2>2, TickOutcome
<1>6. CASE UNCHANGED <<status, tx>>
  BY <1>6
<1> QED BY <1>3, <1>4, <1>5, <1>6
        DEF Next, vars, ReceivePlain, ReceiveData, AdvanceClock

\* The outcome of a call is final: no later ACK, tick or reuse of a slot changes
\* it, and nothing is transmitted for it any more.
THEOREM OutcomesAreFinal == Spec => OutcomeIsFinal
<1>1. TypeOK /\ ParkedInOneSlot /\ [Next]_vars =>
        [\A c \in CallIds : status[c] \in Settled \cup {"refused"}
            => status'[c] = status[c] /\ tx'[c] = tx[c]]_vars
  BY OutcomeStep DEF Settled
<1> QED BY <1>1, EndpointTypes, OneSlotPerCall, PTL DEF Spec, OutcomeIsFinal

\* fail_fn runs only for frames that were transmitted max_retries + 1 times.
THEOREM FailureMeansAllRetries == Spec => []FailedAfterAllRetries
<1>1. Init => FailedAfterAllRetries
  BY DEF Init, FailedAfterAllRetries
<1>2. TypeOK /\ ParkedInOneSlot /\ FailedAfterAllRetries /\ [Next]_vars
        => FailedAfterAllRetries'
  BY OutcomeStep DEF FailedAfterAllRetries
<1> QED BY <1>1, <1>2, EndpointTypes, OneSlotPerCall, PTL DEF Spec

----------------------------------------------------------------------------
(* The window of remembered keys.                                          *)

\* The slot i places after the oldest one, when the oldest key is in slot n.
RingSlot(n, i) ==
  IF n + i - 1 < ARC_RELIABLE_SEEN_MAX THEN n + i - 1 ELSE n + i - 1 - ARC_RELIABLE_SEEN_MAX

\* seen[] is filled from slot 0 on and then used as a ring that starts at
\* seen_next_idx: it holds the keys of q, oldest first.
Ring(s, n, q) ==
  /\ \A j \in SeenSlots : s[j] # Free <=> j < Len(q)
  /\ Len(q) < ARC_RELIABLE_SEEN_MAX => n = 0
  /\ \A i \in 1 .. Len(q) : s[RingSlot(n, i)] = q[i]

\* While no source changed its session, seen[] is such a ring of the last
\* deliveries.
WindowInv == restarts = {} => Ring(r.seen, r.seen_next_idx, recent)

\* The successor of a replacement index.
LEMMA NextVictim ==
  ASSUME NEW n \in SeenSlots
  PROVE  (n + 1) % ARC_RELIABLE_SEEN_MAX =
           IF n + 1 = ARC_RELIABLE_SEEN_MAX THEN 0 ELSE n + 1
<1>1. /\ ARC_RELIABLE_SEEN_MAX \in Nat /\ ARC_RELIABLE_SEEN_MAX > 0
      /\ n \in Nat /\ n + 1 <= ARC_RELIABLE_SEEN_MAX
  BY TableSizes DEF SeenSlots
<1>2. CASE n + 1 = ARC_RELIABLE_SEEN_MAX
  BY <1>1, <1>2
<1>3. CASE n + 1 # ARC_RELIABLE_SEEN_MAX
  BY <1>1, <1>3
<1> QED BY <1>2, <1>3

\* Different places of the ring are different slots.
LEMMA RingSlots ==
  ASSUME NEW n \in SeenSlots, NEW i \in 1 .. ARC_RELIABLE_SEEN_MAX
  PROVE  /\ RingSlot(n, i) \in SeenSlots
         /\ \A j \in 1 .. ARC_RELIABLE_SEEN_MAX : RingSlot(n, i) = RingSlot(n, j) => i = j
BY TableSizes DEF SeenSlots, RingSlot

\* seen_add drops the oldest key of a full ring and appends the new one.
LEMMA RingAdd ==
  ASSUME NEW s \in [SeenSlots -> SeenT \cup {Free}], NEW n \in SeenSlots,
         NEW q \in Seq(SeenT), Len(q) <= ARC_RELIABLE_SEEN_MAX, Ring(s, n, q),
         NEW k \in SeenT,
         NEW i, i = IF FreeSlots(s) # {} THEN FirstSlot(FreeSlots(s)) ELSE n,
         NEW m, m = IF FreeSlots(s) # {} THEN n ELSE (n + 1) % ARC_RELIABLE_SEEN_MAX
  PROVE  Ring([s EXCEPT ![i] = k], m,
              Append(IF Len(q) < ARC_RELIABLE_SEEN_MAX THEN q ELSE Tail(q), k))
<1> DEFINE N == ARC_RELIABLE_SEEN_MAX
           t == [s EXCEPT ![i] = k]
<1>1. N \in Nat /\ N > 0 /\ SeenSlots = 0 .. N - 1 /\ Len(q) \in Nat /\ k # Free
  BY TableSizes, FreeIsNoEntry DEF SeenSlots, SeenT
<1> HIDE DEF N
<1>2. FreeSlots(s) = {j \in 0 .. N - 1 : ~(j < Len(q))}
  BY <1>1 DEF FreeSlots, Ring
<1>3. CASE Len(q) < N
  <2>1. Len(q) \in FreeSlots(s) /\ FreeSlots(s) \in SUBSET (0 .. N - 1)
    BY <1>1, <1>2, <1>3
  <2>2. i \in FreeSlots(s) /\ i <= Len(q)
    BY <1>1, <2>1, FirstSlotIsMin
  <2>3. i = Len(q) /\ i \in SeenSlots /\ m = n /\ n = 0
    BY <1>1, <1>2, <1>3, <2>1, <2>2 DEF Ring, N
  <2>4. t[i] = k /\ \A j \in SeenSlots : j # i => t[j] = s[j]
    BY <2>3
  <2>5. /\ Len(Append(q, k)) = Len(q) + 1 /\ Append(q, k)[Len(q) + 1] = k
        /\ \A j \in 1 .. Len(q) : Append(q, k)[j] = q[j]
    OBVIOUS
  <2> HIDE DEF t
  <2>6. \A j \in SeenSlots : t[j] # Free <=> j < Len(q) + 1
    BY <1>1, <2>3, <2>4 DEF Ring
  <2>7. \A j \in 1 .. Len(q) + 1 : RingSlot(0, j) = j - 1
    BY <1>1, <1>3 DEF RingSlot, N
  <2>8. ASSUME NEW j \in 1 .. Len(q) + 1 PROVE t[RingSlot(m, j)] = Append(q, k)[j]
    <3>1. CASE j = Len(q) + 1
      <4>1. RingSlot(m, j) = i
        BY <1>1, <2>3, <2>7, <3>1
      <4> QED BY <2>4, <2>5, <3>1, <4>1
    <3>2. CASE j # Len(q) + 1
      <4>1. j \in 1 .. Len(q) /\ j - 1 \in SeenSlots /\ j - 1 # i
        BY <1>1, <1>3, <2>3, <3>2
      <4>2. s[RingSlot(n, j)] = q[j] /\ RingSlot(n, j) = j - 1
        BY <2>3, <2>7, <4>1 DEF Ring
      <4> QED BY <2>3, <2>4, <2>5, <4>1, <4>2
    <3> QED BY <3>1, <3>2
  <2>9. Ring(t, m, Append(q, k))
    BY <2>3, <2>5, <2>6, <2>8 DEF Ring
  <2> QED BY <1>3, <2>9 DEF t, N
<1>4. CASE Len(q) = N
  <2>1. FreeSlots(s) = {} /\ i = n
    BY <1>1, <1>2, <1>4
  <2>2. m = IF n + 1 = N THEN 0 ELSE n + 1
    BY <2>1, NextVictim DEF N
  <2>3. m \in SeenSlots
    BY <1>1, <2>2
  <2>4. t[n] = k /\ \A j \in SeenSlots : j # n => t[j] = s[j]
    BY <2>1
  <2> DEFINE p == Append(Tail(q), k)
  <2>5. /\ Len(p) = N /\ p[N] = k
        /\ \A j \in 1 .. N - 1 : p[j] = q[j + 1]
    <3>1. /\ Tail(q) \in Seq(SeenT) /\ Len(Tail(q)) = N - 1
          /\ \A j \in 1 .. N - 1 : Tail(q)[j] = q[j + 1]
      BY <1>1, <1>4
    <3>2. /\ Len(p) = Len(Tail(q)) + 1 /\ p[Len(Tail(q)) + 1] = k
          /\ \A j \in 1 .. Len(Tail(q)) : p[j] = Tail(q)[j]
      BY <3>1
    <3>3. (N - 1) + 1 = N
      BY <1>1
    <3> QED BY <3>1, <3>2, <3>3
  <2> HIDE DEF t, p
  <2>6. \A j \in SeenSlots : t[j] # Free <=> j < N
    BY <1>1, <1>4, <2>4 DEF Ring
  <2>7. RingSlot(m, N) = n
    BY <1>1, <2>2 DEF RingSlot, N
  <2>8. \A j \in 1 .. N - 1 : /\ RingSlot(m, j) = RingSlot(n, j + 1)
                              /\ RingSlot(m, j) \in SeenSlots /\ RingSlot(m, j) # n
    BY <1>1, <2>2 DEF RingSlot, N
  <2>9. ASSUME NEW j \in 1 .. N PROVE t[RingSlot(m, j)] = p[j]
    <3>1. CASE j = N
      BY <2>4, <2>5, <2>7, <3>1
    <3>2. CASE j # N
      <4>1. j \in 1 .. N - 1 /\ j + 1 \in 1 .. Len(q)
        BY <1>1, <1>4, <3>2
      <4>2. s[RingSlot(n, j + 1)] = q[j + 1]
        BY <4>1 DEF Ring
      <4> QED BY <2>4, <2>5, <2>8, <4>1, <4>2
    <3> QED BY <3>1, <3>2
  <2>10. Ring(t, m, p)
    BY <1>1, <2>5, <2>6, <2>9, SMTT(30) DEF Ring, N
  <2> QED BY <1>1, <1>4, <2>10 DEF t, p, N
<1> QED BY <1>1, <1>3, <1>4 DEF N

\* A reliable frame that is no duplicate and whose source did not change its
\* session adds its key to the ring.
LEMMA ReceiveAddsToRing ==
  ASSUME NEW e \in EndpointT, NEW f \in Frames, NEW g, g = ReceiveReliable(e, f),
         ~source_session_changed(e.sources, f.src, f.session)
  PROVE  /\ IsDuplicate(e, f) => g.seen = e.seen /\ g.seen_next_idx = e.seen_next_idx
         /\ ~IsDuplicate(e, f) =>
              /\ g.seen = [e.seen EXCEPT ![SeenSlot(e)] = seen_key(f)]
              /\ g.seen_next_idx = IF FreeSlots(e.seen) # {} THEN e.seen_next_idx
                                   ELSE (e.seen_next_idx + 1) % ARC_RELIABLE_SEEN_MAX
<1> DEFINE h == CheckSession(e, f)
           u == take_seq(h)
           k == seen_key(f)
<1>1. h \in EndpointT /\ h.seen = e.seen /\ h.seen_next_idx = e.seen_next_idx
  <2>1. h \in EndpointT /\ h.seen = e.seen
    BY FrameFields, CheckSessionType
  <2>2. h.seen_next_idx = e.seen_next_idx
    BY DEF CheckSession, arc_reliable_t
  <2> QED BY <2>1, <2>2
<1> HIDE DEF h
<1>2. u \in EndpointT /\ u.seen = e.seen /\ u.seen_next_idx = e.seen_next_idx
  BY <1>1, TakeSeq
<1>3. IsDuplicate(e, f) => g = u
  BY DEF ReceiveReliable, h
<1>4. ~IsDuplicate(e, f) => g = seen_add(u, k)
  BY DEF ReceiveReliable, h
<1>5. k \in SeenT
  BY DEF Frames, seen_key, arc_reliable_seen_t
<1> HIDE DEF u, k
<1>6. seen_add(u, k).seen = [u.seen EXCEPT ![SeenSlot(u)] = k]
  BY <1>2, <1>5, SeenAddType
<1>7. seen_add(u, k).seen_next_idx =
        IF FreeSlots(u.seen) # {} THEN u.seen_next_idx
        ELSE (u.seen_next_idx + 1) % ARC_RELIABLE_SEEN_MAX
  BY <1>2 DEF seen_add, arc_reliable_t
<1> QED BY <1>2, <1>3, <1>4, <1>6, <1>7 DEF SeenSlot, k

\* Only a reliable frame changes the ring.
LEMMA WindowStep == TypeOK /\ WindowInv /\ [Next]_vars => WindowInv'
<1> SUFFICES ASSUME TypeOK, WindowInv, [Next]_vars, restarts' = {}
             PROVE  Ring(r'.seen, r'.seen_next_idx, recent')
  BY DEF WindowInv
<1>1. /\ r \in EndpointT /\ recent \in Seq(SeenT)
      /\ Len(recent) <= ARC_RELIABLE_SEEN_MAX
      /\ r.seen \in [SeenSlots -> SeenT \cup {Free}] /\ r.seen_next_idx \in SeenSlots
  BY TypeOfR, EndpointFields
<1>2. ASSUME r'.seen = r.seen, r'.seen_next_idx = r.seen_next_idx, recent' = recent,
             restarts' = restarts
      PROVE  Ring(r'.seen, r'.seen_next_idx, recent')
  BY <1>2 DEF WindowInv
<1>3. ASSUME NEW c \in CallIds,
             SendRejected(c) \/ SendUnreliable(c) \/ SendBufferFull(c)
      PROVE  Ring(r'.seen, r'.seen_next_idx, recent')
  BY <1>1, <1>2, <1>3, TakeSeq DEF SendRejected, SendUnreliable, SendBufferFull
<1>4. ASSUME NEW c \in CallIds, NEW dst \in Addrs, NEW ack \in BOOLEAN,
             SendReliable(c, dst, ack)
      PROVE  Ring(r'.seen, r'.seen_next_idx, recent')
  <2> DEFINE g == take_seq(r)
             p == StagedEntry(r, dst, ack, <<c>>, now_ms)
             k == pending_alloc(r.pending)
  <2>1. r' = [g EXCEPT !.pending[k] = p] /\ UNCHANGED <<recent, restarts>>
    BY <1>4 DEF SendReliable, SendParked
  <2>2. g \in EndpointT /\ g.seen = r.seen /\ g.seen_next_idx = r.seen_next_idx
    BY <1>1, TakeSeq
  <2> HIDE DEF g, k, p
  <2>3. r'.seen = g.seen /\ r'.seen_next_idx = g.seen_next_idx
    BY <2>1, <2>2 DEF arc_reliable_t
  <2> QED BY <1>2, <2>1, <2>2, <2>3
<1>5. ASSUME NEW f \in Inbound, ReceivePlain(f)
      PROVE  Ring(r'.seen, r'.seen_next_idx, recent')
  BY <1>2, <1>5, ReceiveBranches DEF ReceivePlain
<1>6. ASSUME NEW f \in Inbound, ReceiveAnAck(f)
      PROVE  Ring(r'.seen, r'.seen_next_idx, recent')
  <2>1. r' = ReceiveAck(r, f) /\ UNCHANGED <<recent, restarts>>
    BY <1>6, ReceiveBranches DEF ReceiveAnAck
  <2>2. r'.seen = r.seen /\ r'.seen_next_idx = r.seen_next_idx
    BY <1>1, <2>1 DEF ReceiveAck, arc_reliable_t
  <2> QED BY <1>2, <2>1, <2>2
<1>7. ASSUME NEW f \in Inbound, ReceiveData(f)
      PROVE  Ring(r'.seen, r'.seen_next_idx, recent')
  <2>1. /\ f \in Frames /\ r' = ReceiveReliable(r, f)
        /\ recent' = IF IsDuplicate(r, f) THEN recent ELSE RecentAfter(f)
        /\ restarts = {} /\ ~source_session_changed(r.sources, f.src, f.session)
    <3>1. f \in Frames /\ r' = ReceiveReliable(r, f)
      BY <1>7, ReceiveBranches
    <3> QED BY <1>7, <3>1 DEF ReceiveData
  <2>2. Ring(r.seen, r.seen_next_idx, recent)
    BY <2>1 DEF WindowInv
  <2>3. CASE IsDuplicate(r, f)
    BY <1>1, <2>1, <2>2, <2>3, ReceiveAddsToRing
  <2>4. CASE ~IsDuplicate(r, f)
    <3>1. seen_key(f) \in SeenT
      BY <2>1 DEF Frames, seen_key, arc_reliable_seen_t
    <3>2. /\ r'.seen = [r.seen EXCEPT ![SeenSlot(r)] = seen_key(f)]
          /\ r'.seen_next_idx = IF FreeSlots(r.seen) # {} THEN r.seen_next_idx
                                ELSE (r.seen_next_idx + 1) % ARC_RELIABLE_SEEN_MAX
      BY <1>1, <2>1, <2>4, ReceiveAddsToRing, ZenonT(40)
    <3>3. SeenSlot(r) = IF FreeSlots(r.seen) # {} THEN FirstSlot(FreeSlots(r.seen))
                        ELSE r.seen_next_idx
      BY DEF SeenSlot
    <3>4. Ring([r.seen EXCEPT ![SeenSlot(r)] = seen_key(f)], r'.seen_next_idx,
               Append(IF Len(recent) < ARC_RELIABLE_SEEN_MAX THEN recent ELSE Tail(recent),
                      seen_key(f)))
      BY <1>1, <2>2, <3>1, <3>2, <3>3, RingAdd
    <3> QED BY <2>1, <2>4, <3>2, <3>4 DEF RecentAfter
  <2> QED BY <2>3, <2>4
<1>8. CASE Tick
  <2>1. r'.seen = r.seen /\ r'.seen_next_idx = r.seen_next_idx
    BY <1>1, <1>8 DEF Tick, arc_reliable_tick, arc_reliable_t
  <2> QED BY <1>2, <1>8, <2>1 DEF Tick
<1>9. CASE AdvanceClock
  BY <1>2, <1>9 DEF AdvanceClock
<1>10. CASE UNCHANGED vars
  BY <1>2, <1>10 DEF vars
<1> QED BY <1>3, <1>4, <1>5, <1>6, <1>7, <1>8, <1>9, <1>10, Destinations DEF Next

\* As long as no tracked peer restarted, no reliable frame is delivered twice while
\* it is among the last ARC_RELIABLE_SEEN_MAX delivered.
THEOREM WindowIsRemembered == Spec => []WindowHolds
<1>1. Init => WindowInv
  <2> SUFFICES ASSUME Init PROVE Ring(r.seen, r.seen_next_idx, recent)
    BY DEF WindowInv
  <2>1. /\ \A j \in SeenSlots : r.seen[j] = Free
        /\ r.seen_next_idx = 0 /\ recent = <<>>
    BY DEF Init, arc_reliable_init, EmptyTable, SeenSlots
  <2>2. Len(recent) = 0
    BY <2>1
  <2> QED BY <2>1, <2>2 DEF Ring, SeenSlots
<1>2. Spec => []WindowInv
  BY <1>1, WindowStep, EndpointTypes, PTL DEF Spec
<1>3. Spec => []TablesInv(r.sources, r.seen)
  BY TablesInit, TablesStep, EndpointTypes, PTL DEF Spec
<1>4. TypeOK /\ WindowInv /\ TablesInv(r.sources, r.seen) => WindowHolds
  <2> SUFFICES ASSUME TypeOK, WindowInv, TablesInv(r.sources, r.seen), restarts = {},
                      NEW i \in 1 .. Len(recent), NEW j \in 1 .. Len(recent),
                      recent[i] = recent[j]
               PROVE  i = j
    BY DEF WindowHolds
  <2> DEFINE s == r.seen
             n == r.seen_next_idx
  <2>1. /\ s \in [SeenSlots -> SeenT \cup {Free}] /\ n \in SeenSlots
        /\ recent \in Seq(SeenT) /\ Len(recent) <= ARC_RELIABLE_SEEN_MAX
    BY TypeOfR, EndpointFields
  <2>2. Ring(s, n, recent) /\ SeenDistinct(s)
    BY DEF WindowInv, TablesInv
  <2> HIDE DEF s, n
  <2>3. i \in 1 .. ARC_RELIABLE_SEEN_MAX /\ j \in 1 .. ARC_RELIABLE_SEEN_MAX
    BY <2>1, TableSizes
  <2>4. /\ s[RingSlot(n, i)] = recent[i] /\ s[RingSlot(n, j)] = recent[j]
        /\ recent[i] \in SeenT
    BY <2>1, <2>2 DEF Ring
  <2>5. s[RingSlot(n, i)] # Free /\ s[RingSlot(n, j)] # Free
    BY <2>4, FreeIsNoEntry DEF SeenT
  <2>6. RingSlot(n, i) \in SeenSlots /\ RingSlot(n, j) \in SeenSlots
    BY <2>1, <2>3, RingSlots
  <2>7. RingSlot(n, i) = RingSlot(n, j)
    BY <2>2, <2>4, <2>5, <2>6 DEF SeenDistinct
  <2> QED BY <2>1, <2>3, <2>7, RingSlots
<1> QED BY <1>2, <1>3, <1>4, EndpointTypes, PTL

----------------------------------------------------------------------------
(* The timers: the signed comparison of arc_reliable_tick is exact on a    *)
(* clock that wraps, and frames are sent again in time, for every timeout  *)
(* and every period of ticks below half of the clock's range.              *)

\* Entry p was last transmitted a milliseconds ago, when the clock reads now:
\* now - p.deadline_ms is a - timeout_ms, but for at most one turn of the clock.
AgeOf(p, a, now) ==
  now - p.deadline_ms \in
    {a - timeout_ms, a - timeout_ms - CLOCK, a - timeout_ms + CLOCK}

\* The inductive invariant, with the state it speaks of as parameters: P is
\* pending[], ag the age of each call, st its status, now the clock, id the
\* time since the last tick.
TimerInv(P, ag, st, now, id) ==
  /\ \A c \in CallIds : st[c] = "unused" => ag[c] = 0
  /\ \A i \in PendingSlots : P[i] # Free =>
       /\ ag[CallOf(P[i])] <= timeout_ms + id
       /\ AgeOf(P[i], ag[CallOf(P[i])], now)

----------------------------------------------------------------------------
(* Arithmetic of the clock.                                                *)

\* The constants as integers, with the inequalities the proofs use.
LEMMA ClockFacts ==
  /\ HALF_CLOCK \in Nat /\ CLOCK = 2 * HALF_CLOCK /\ CLOCK \in Nat /\ CLOCK > 0
  /\ timeout_ms \in Nat /\ timeout_ms < HALF_CLOCK
  /\ TICK_PERIOD \in Nat /\ TICK_PERIOD < HALF_CLOCK
  /\ \A t \in Clocks : t \in Nat /\ t < CLOCK
BY Widths, Timers, TickPeriod DEF CLOCK, Clocks

\* Wrapping a number within one turn of the range.
LEMMA ModOnce ==
  ASSUME NEW m \in Nat, m > 0, NEW x \in Int, -m <= x, x < 2 * m
  PROVE  x % m = IF x < 0 THEN x + m ELSE IF x < m THEN x ELSE x - m
OBVIOUS

\* A fresh deadline: the entry was transmitted now.
LEMMA FreshAge ==
  ASSUME NEW t \in Clocks, NEW p, p.deadline_ms = (t + timeout_ms) % CLOCK
  PROVE  AgeOf(p, 0, t)
<1>1. t + timeout_ms \in Int /\ -CLOCK <= t + timeout_ms /\ t + timeout_ms < 2 * CLOCK
  BY ClockFacts
<1>2. (t + timeout_ms) % CLOCK =
        IF t + timeout_ms < CLOCK THEN t + timeout_ms ELSE t + timeout_ms - CLOCK
  BY <1>1, ModOnce, ClockFacts
<1> QED BY <1>2, ClockFacts DEF AgeOf

\* One millisecond later the entry is one millisecond older.
LEMMA NextAge ==
  ASSUME NEW t \in Clocks, NEW p \in PendingT, NEW a \in Nat,
         a <= timeout_ms + TICK_PERIOD, AgeOf(p, a, t)
  PROVE  AgeOf(p, a + 1, (t + 1) % CLOCK)
<1>1. t + 1 \in Int /\ -CLOCK <= t + 1 /\ t + 1 < 2 * CLOCK
  BY ClockFacts
<1>2. (t + 1) % CLOCK = IF t + 1 < CLOCK THEN t + 1 ELSE t + 1 - CLOCK
  BY <1>1, ModOnce, ClockFacts
<1>3. p.deadline_ms \in Nat /\ p.deadline_ms < CLOCK
  BY ClockFacts DEF arc_reliable_pending_t
<1> QED BY <1>2, <1>3, ClockFacts DEF AgeOf

\* The signed comparison of arc_reliable_tick tells whether timeout_ms elapsed.
LEMMA ExpiredIsDue ==
  ASSUME NEW t \in Clocks, NEW p \in PendingT, NEW a \in Nat,
         a <= timeout_ms + TICK_PERIOD, AgeOf(p, a, t)
  PROVE  Expired(p, t) <=> a >= timeout_ms
<1> DEFINE x == t - p.deadline_ms
<1>1. p.deadline_ms \in Nat /\ p.deadline_ms < CLOCK
  BY ClockFacts DEF arc_reliable_pending_t
<1>2. x \in Int /\ -CLOCK <= x /\ x < CLOCK
  BY <1>1, ClockFacts
<1>3. x \in {a - timeout_ms, a - timeout_ms - CLOCK, a - timeout_ms + CLOCK}
  BY DEF AgeOf
<1>4. Expired(p, t) <=> x % CLOCK < HALF_CLOCK
  BY DEF Expired
<1> HIDE DEF x
<1>5. x % CLOCK = IF x < 0 THEN x + CLOCK ELSE x
  BY <1>2, ModOnce, ClockFacts
<1> QED BY <1>2, <1>3, <1>4, <1>5, ClockFacts

----------------------------------------------------------------------------
(* The invariant.                                                          *)

\* The invariant of a state.
Timers_OK == TimerInv(r.pending, age, status, now_ms, idle)

\* A slot that tick leaves in use was not due, or was sent again just now.
LEMMA AgeAfterTick ==
  ASSUME NEW p \in PendingT, NEW t \in Clocks, NEW a \in Nat, NEW b \in Nat,
         a <= timeout_ms + TICK_PERIOD, AgeOf(p, a, t),
         b = IF Expired(p, t) THEN 0 ELSE a,
         TickSlot(p, t) # Free
  PROVE  b <= timeout_ms + 0 /\ AgeOf(TickSlot(p, t), b, t)
<1>1. p # Free
  BY FreeIsNoEntry DEF PendingT
<1>2. CASE ~Expired(p, t)
  <2>1. TickSlot(p, t) = p
    BY <1>2 DEF TickSlot
  <2>2. ~(a >= timeout_ms)
    BY <1>2, ExpiredIsDue
  <2>3. b = a
    BY <1>2
  <2> QED BY <2>1, <2>2, <2>3, ClockFacts
<1>3. CASE Expired(p, t)
  <2>1. TickSlot(p, t) = [p EXCEPT !.retries = @ + 1,
                                   !.deadline_ms = (t + timeout_ms) % CLOCK]
    BY <1>1, <1>3 DEF TickSlot
  <2>2. TickSlot(p, t).deadline_ms = (t + timeout_ms) % CLOCK
    BY <2>1 DEF arc_reliable_pending_t
  <2>3. AgeOf(TickSlot(p, t), 0, t)
    BY <2>2, FreshAge
  <2> QED BY <1>3, <2>3, ClockFacts
<1> QED BY <1>2, <1>3

\* Each action keeps the invariant.
LEMMA TimersStep ==
  TypeOK /\ ParkedInOneSlot /\ Timers_OK /\ [Next]_vars => Timers_OK'
<1> SUFFICES ASSUME TypeOK, ParkedInOneSlot, Timers_OK, [Next]_vars
             PROVE  TimerInv(r'.pending, age', status', now_ms', idle')
  BY DEF Timers_OK
<1> DEFINE P == r.pending
<1>1. /\ r \in EndpointT /\ now_ms \in Clocks /\ idle \in 0 .. TICK_PERIOD
      /\ status \in [CallIds -> Statuses] /\ age \in [CallIds -> Nat]
  BY TypeOfR
<1>2. P \in [PendingSlots -> PendingT \cup {Free}] /\ SlotCalls(P, status, tx)
  BY <1>1, EndpointFields, SlotCallsIsParked
<1>3. TimerInv(P, age, status, now_ms, idle)
  BY DEF Timers_OK
<1>4. \A i \in PendingSlots : P[i] # Free =>
        /\ P[i] \in PendingT /\ CallOf(P[i]) \in CallIds
        /\ status[CallOf(P[i])] = "parked"
        /\ age[CallOf(P[i])] \in Nat
        /\ age[CallOf(P[i])] <= timeout_ms + idle
        /\ age[CallOf(P[i])] <= timeout_ms + TICK_PERIOD
        /\ AgeOf(P[i], age[CallOf(P[i])], now_ms)
  BY <1>1, <1>2, <1>3, EntryCall, ClockFacts DEF TimerInv, SlotCalls
<1> HIDE DEF P
<1>5. ASSUME NEW c \in CallIds,
             SendRejected(c) \/ SendUnreliable(c) \/ SendBufferFull(c)
      PROVE  TimerInv(r'.pending, age', status', now_ms', idle')
  <2>1. /\ r'.pending = P /\ age' = age /\ now_ms' = now_ms /\ idle' = idle
        /\ \E s \in {"refused", "sent"} : status' = [status EXCEPT ![c] = s]
    BY <1>1, <1>5, TakeSeq DEF SendRejected, SendUnreliable, SendBufferFull, P
  <2>2. \A d \in CallIds : status'[d] = "unused" => status[d] = "unused"
    BY <1>1, <2>1
  <2> QED BY <1>3, <2>1, <2>2 DEF TimerInv
<1>6. ASSUME NEW c \in CallIds, NEW dst \in Addrs, NEW ack \in BOOLEAN,
             SendReliable(c, dst, ack)
      PROVE  TimerInv(r'.pending, age', status', now_ms', idle')
  <2> DEFINE k == pending_alloc(P)
             p == StagedEntry(r, dst, ack, <<c>>, now_ms)
  <2>1. k \in PendingSlots
    BY <1>1, <1>6, AllocFree DEF SendReliable, P
  <2>2. /\ CallOf(p) = c /\ p.deadline_ms = (now_ms + timeout_ms) % CLOCK
        /\ p \in PendingT
    <3>1. (now_ms + timeout_ms) % CLOCK \in Clocks
      BY <1>1, Deadline
    <3>2. 0 \in 0 .. max_retries
      BY Timers
    <3>3. r.session \in Sessions /\ r.next_seq \in Seqs
      BY <1>1, EndpointFields
    <3> QED BY <3>1, <3>2, <3>3
            DEF StagedEntry, CallOf, arc_reliable_pending_t, Payloads
  <2>3. /\ r' = [take_seq(r) EXCEPT !.pending[k] = p]
        /\ status[c] = "unused" /\ status' = [status EXCEPT ![c] = "parked"]
        /\ age' = age /\ now_ms' = now_ms /\ idle' = idle
    BY <1>6 DEF SendReliable, SendParked, P
  <2> HIDE DEF k, p
  <2>4. r'.pending = [P EXCEPT ![k] = p]
    <3>1. r \in EndpointT
      BY <1>1
    <3>2. [take_seq(r) EXCEPT !.pending[k] = p].pending = [r.pending EXCEPT ![k] = p]
      BY <3>1 DEF take_seq, arc_reliable_t
    <3> QED BY <2>3, <3>2 DEF P
  <2>5. \A d \in CallIds : status'[d] = "unused" => status[d] = "unused"
    BY <1>1, <2>3
  <2>6. age[c] = 0
    BY <1>3, <2>3 DEF TimerInv
  <2>7. ASSUME NEW i \in PendingSlots, r'.pending[i] # Free
        PROVE  /\ age'[CallOf(r'.pending[i])] <= timeout_ms + idle'
               /\ AgeOf(r'.pending[i], age'[CallOf(r'.pending[i])], now_ms')
    <3>1. CASE i = k
      <4>1. r'.pending[i] = p
        BY <1>2, <2>1, <2>4, <3>1
      <4>2. AgeOf(p, 0, now_ms)
        BY <1>1, <2>2, FreshAge
      <4>3. 0 <= timeout_ms + idle
        BY <1>1, ClockFacts
      <4> QED BY <2>2, <2>3, <2>6, <4>1, <4>2, <4>3
    <3>2. CASE i # k
      <4>1. r'.pending[i] = P[i]
        BY <1>2, <2>1, <2>4, <3>2
      <4> QED BY <1>4, <2>3, <2>7, <4>1
    <3> QED BY <3>1, <3>2
  <2> QED BY <1>3, <2>3, <2>5, <2>7 DEF TimerInv
<1>7. ASSUME NEW f \in Inbound, ReceivePlain(f) \/ ReceiveData(f)
      PROVE  TimerInv(r'.pending, age', status', now_ms', idle')
  <2>1. r'.pending = P
    BY <1>1, <1>7, ReceiveBranches, FrameFields, ReceiveReliableFields DEF P
  <2> QED BY <1>3, <1>7, <2>1 DEF ReceivePlain, ReceiveData
<1>8. ASSUME NEW f \in Inbound, ReceiveAnAck(f)
      PROVE  TimerInv(r'.pending, age', status', now_ms', idle')
  <2>1. f \in Frames /\ r' = ReceiveAck(r, f)
    BY <1>8, ReceiveBranches
  <2>2. CASE AckedSlots(r, f) = {}
    <3>1. r'.pending = P
      BY <1>1, <2>1, <2>2 DEF ReceiveAck, P
    <3> QED BY <1>3, <1>8, <2>2, <3>1 DEF ReceiveAnAck
  <2>3. CASE AckedSlots(r, f) # {}
    <3> DEFINE k == AckedSlot(r, f)
               c == CallOf(P[k])
    <3>1. k \in PendingSlots /\ P[k] \in PendingT
      BY <1>1, <2>1, <2>3, AckedSlotUsed DEF P
    <3>2. r'.pending = [P EXCEPT ![k] = Free]
      BY <1>1, <2>1, <2>3 DEF ReceiveAck, arc_reliable_t, P
    <3>3. /\ status' = [status EXCEPT ![c] = "acked"] /\ age' = [age EXCEPT ![c] = 0]
          /\ now_ms' = now_ms /\ idle' = idle
      BY <1>8, <2>3 DEF ReceiveAnAck, P
    <3>4. c \in CallIds /\ \A i \in PendingSlots : P[i] # Free /\ i # k => CallOf(P[i]) # c
      BY <1>2, <3>1, EntryCall, FreeIsNoEntry DEF SlotCalls, PendingT
    <3> HIDE DEF k, c
    <3>5. \A d \in CallIds : status'[d] = "unused" => age'[d] = 0
      BY <1>1, <1>3, <3>3, <3>4 DEF TimerInv
    <3>6. ASSUME NEW i \in PendingSlots, r'.pending[i] # Free
          PROVE  /\ r'.pending[i] = P[i] /\ P[i] # Free
                 /\ age'[CallOf(P[i])] = age[CallOf(P[i])]
      <4>1. i # k /\ r'.pending[i] = P[i]
        BY <1>2, <3>1, <3>2, <3>6
      <4>2. CallOf(P[i]) # c /\ CallOf(P[i]) \in CallIds
        BY <1>4, <3>4, <3>6, <4>1
      <4> QED BY <1>1, <3>3, <3>6, <4>1, <4>2
    <3> QED BY <1>3, <3>3, <3>5, <3>6 DEF TimerInv
  <2> QED BY <2>2, <2>3
<1>9. CASE Tick
  <2>1. r'.pending = [i \in PendingSlots |-> TickSlot(P[i], now_ms)]
    BY <1>1, <1>9, TickFields DEF Tick, P
  <2> DEFINE E == {i \in PendingSlots : P[i] # Free /\ Expired(P[i], now_ms)}
  <2>2. ExpiredSlots(r, now_ms) = E
    BY <1>2 DEF ExpiredSlots, UsedSlots, P
  <2>3. /\ age' = [c \in CallIds |-> IF c \in {CallOf(P[i]) : i \in E} THEN 0 ELSE age[c]]
        /\ now_ms' = now_ms /\ idle' = 0
    BY <1>9, <2>2 DEF Tick, CallsIn, P
  <2>4. \A c \in CallIds : status'[c] = "unused" => status[c] = "unused"
    BY <1>9 DEF Tick
  <2>5. ASSUME NEW i \in PendingSlots, r'.pending[i] # Free
        PROVE  /\ age'[CallOf(r'.pending[i])] <= timeout_ms + idle'
               /\ AgeOf(r'.pending[i], age'[CallOf(r'.pending[i])], now_ms')
    <3> DEFINE p == P[i]
               a == age[CallOf(P[i])]
               b == age'[CallOf(P[i])]
    <3>1. r'.pending[i] = TickSlot(p, now_ms) /\ TickSlot(p, now_ms) # Free
      BY <2>1, <2>5
    <3>2. p # Free
      BY <3>1 DEF TickSlot
    <3>3. b = IF Expired(p, now_ms) THEN 0 ELSE a
      <4>1. CallOf(p) \in CallIds
        BY <1>4, <3>2
      <4>2. CallOf(p) \in {CallOf(P[j]) : j \in E} <=> Expired(p, now_ms)
        BY <1>2, <3>2 DEF SlotCalls
      <4> HIDE DEF E
      <4> QED BY <2>3, <4>1, <4>2
    <3>4. /\ p \in PendingT /\ a \in Nat /\ a <= timeout_ms + TICK_PERIOD
          /\ AgeOf(p, a, now_ms)
      BY <1>4, <3>2
    <3>5. b \in Nat
      BY <3>3, <3>4
    <3>6. CallOf(TickSlot(p, now_ms)) = CallOf(p)
      BY <1>1, <3>1, <3>2, <3>4, TickSlotType DEF CallOf
    <3> HIDE DEF a, b, p
    <3>7. b <= timeout_ms + 0 /\ AgeOf(TickSlot(p, now_ms), b, now_ms)
      BY <1>1, <3>1, <3>3, <3>4, <3>5, AgeAfterTick
    <3>8. age'[CallOf(r'.pending[i])] = b
      BY <3>1, <3>6 DEF b, p
    <3> QED BY <2>3, <3>1, <3>7, <3>8
  <2>6. \A c \in CallIds : status[c] = "unused" => age'[c] = 0
    BY <1>3, <2>3 DEF TimerInv
  <2> HIDE DEF E
  <2> QED BY <2>4, <2>5, <2>6 DEF TimerInv
<1>10. CASE AdvanceClock
  <2>1. /\ r' = r /\ status' = status /\ idle' = idle + 1
        /\ now_ms' = (now_ms + 1) % CLOCK
        /\ age' = [c \in CallIds |-> IF status[c] = "parked" THEN age[c] + 1 ELSE age[c]]
    BY <1>10 DEF AdvanceClock
  <2>2. \A c \in CallIds : status'[c] = "unused" => age'[c] = 0
    BY <1>3, <2>1 DEF TimerInv
  <2>3. ASSUME NEW i \in PendingSlots, P[i] # Free
        PROVE  /\ age'[CallOf(P[i])] <= timeout_ms + idle'
               /\ AgeOf(P[i], age'[CallOf(P[i])], now_ms')
    <3> DEFINE a == age[CallOf(P[i])]
    <3>1. age'[CallOf(P[i])] = a + 1
      BY <1>4, <2>1, <2>3
    <3>2. /\ P[i] \in PendingT /\ a \in Nat /\ a <= timeout_ms + TICK_PERIOD
          /\ a <= timeout_ms + idle /\ AgeOf(P[i], a, now_ms)
      BY <1>4, <2>3
    <3> HIDE DEF a
    <3>3. AgeOf(P[i], a + 1, (now_ms + 1) % CLOCK)
      BY <1>1, <3>2, NextAge
    <3>4. idle \in Int
      BY <1>1
    <3>5. a + 1 <= timeout_ms + (idle + 1)
      BY <3>2, <3>4, ClockFacts
    <3> QED BY <2>1, <3>1, <3>3, <3>5
  <2> QED BY <2>1, <2>2, <2>3 DEF TimerInv, P
<1>11. CASE UNCHANGED vars
  BY <1>3, <1>11 DEF vars, P
<1> QED BY <1>5, <1>6, <1>7, <1>8, <1>9, <1>10, <1>11, Destinations DEF Next

\* The invariant holds throughout.
LEMMA TimersInvariant == Spec => []Timers_OK
<1>1. Init => Timers_OK
  BY DEF Init, Timers_OK, TimerInv, arc_reliable_init, EmptyTable, PendingSlots
<1> QED BY <1>1, TimersStep, EndpointTypes, OneSlotPerCall, PTL DEF Spec

\* The signed comparison of arc_reliable_tick holds exactly for the frames that
\* timeout_ms elapsed for, on either side of a wrap of the clock.
THEOREM TimersAreExact == Spec => []DueWhenExpired
<1>1. TypeOK /\ Timers_OK => DueWhenExpired
  <2> SUFFICES ASSUME TypeOK, Timers_OK, NEW i \in UsedSlots(r.pending)
               PROVE  Expired(r.pending[i], now_ms)
                        <=> age[CallOf(r.pending[i])] >= timeout_ms
    BY DEF DueWhenExpired
  <2> DEFINE p == r.pending[i]
             a == age[CallOf(r.pending[i])]
  <2>1. /\ r.pending \in [PendingSlots -> PendingT \cup {Free}]
        /\ now_ms \in Clocks /\ idle \in 0 .. TICK_PERIOD /\ age \in [CallIds -> Nat]
    BY TypeOfR, EndpointFields
  <2>2. i \in PendingSlots /\ p \in PendingT /\ p # Free
    BY <2>1 DEF UsedSlots
  <2>3. a \in Nat /\ a <= timeout_ms + idle /\ AgeOf(p, a, now_ms)
    BY <2>1, <2>2, EntryCall DEF Timers_OK, TimerInv
  <2> HIDE DEF a, p
  <2>4. a <= timeout_ms + TICK_PERIOD
    BY <2>1, <2>3, ClockFacts
  <2>5. Expired(p, now_ms) <=> a >= timeout_ms
    BY <2>1, <2>2, <2>3, <2>4, ExpiredIsDue
  <2> QED BY <2>5 DEF a, p
<1> QED BY <1>1, EndpointTypes, TimersInvariant, PTL

\* A parked frame is sent again or given up at most TICK_PERIOD milliseconds
\* after its timeout.
THEOREM RetriesAreInTime == Spec => []RetriedInTime
<1>1. TypeOK /\ ParkedInOneSlot /\ Timers_OK => RetriedInTime
  <2> SUFFICES ASSUME TypeOK, ParkedInOneSlot, Timers_OK,
                      NEW c \in CallIds, status[c] = "parked"
               PROVE  age[c] <= timeout_ms + TICK_PERIOD
    BY DEF RetriedInTime
  <2>1. SlotCalls(r.pending, status, tx)
    BY SlotCallsIsParked
  <2>2. PICK i \in PendingSlots : r.pending[i] # Free /\ CallOf(r.pending[i]) = c
    BY <2>1 DEF SlotCalls
  <2>3. age[c] <= timeout_ms + idle
    BY <2>2 DEF Timers_OK, TimerInv
  <2>4. idle \in 0 .. TICK_PERIOD /\ age[c] \in Nat
    BY TypeOfR
  <2> QED BY <2>3, <2>4, ClockFacts
<1> QED BY <1>1, EndpointTypes, OneSlotPerCall, TimersInvariant, PTL

=============================================================================
