-------------------------- MODULE ReliableEndpoint --------------------------
(***************************************************************************)
(* One ARC reliable endpoint (arc_reliable_t) in an arbitrary environment: *)
(* the application calls arc_reliable_send, the embedder calls             *)
(* arc_reliable_tick with a millisecond clock that wraps, and any frame of *)
(* Inbound may arrive at any time and any number of times.  Nothing is     *)
(* assumed of the peers, so what holds here holds on every network.        *)
(*                                                                         *)
(* The variables status, tx, age, recent and restarts are history          *)
(* variables: they record what happened to each call, which frames were    *)
(* delivered and which peers restarted, and no action reads them to decide *)
(* what the endpoint does.                                                 *)
(***************************************************************************)
EXTENDS ArcReliable

CONSTANTS
  Addrs, Sessions,    \* the uint8_t addresses and sessions in use
  my_addr, session, first_seq,  \* the arguments of arc_reliable_init
  CallIds,            \* the calls of arc_reliable_send; each happens once
  Dsts,               \* the addresses the application sends reliable frames to
  Inbound,            \* the frames that may arrive
  TICK_PERIOD         \* most milliseconds between two calls of tick

AckPayloads == {<<h, l>> : h, l \in 0 .. BYTE - 1}
Payloads    == {<<c>> : c \in CallIds}

Frames ==
  [src : Addrs, dst : Addrs, reliable : BOOLEAN, ack : BOOLEAN,
   session : Sessions, seq : Seqs, payload : AckPayloads \cup {<<>>}]

ASSUME InitArguments ==
  my_addr \in Addrs /\ session \in Sessions /\ first_seq \in Seqs

ASSUME Destinations == Dsts \subseteq Addrs

ASSUME InboundFrames == Inbound \subseteq Frames

\* "Call periodically": often enough for the signed difference in tick.  With a
\* longer period a frame may be overdue by half the clock and look early.
ASSUME TickPeriod == TICK_PERIOD \in 1 .. HALF_CLOCK - 1

ASSUME FreeIsNoEntry ==
  /\ Free \notin arc_reliable_pending_t(Addrs, Sessions, Payloads)
  /\ Free \notin arc_reliable_seen_t(Addrs, Sessions)
  /\ Free \notin arc_reliable_source_t(Addrs, Sessions)

VARIABLES
  r,        \* the arc_reliable_t
  now_ms,   \* the embedder's clock
  idle,     \* milliseconds since the last call of tick
  status,   \* what became of each call
  tx,       \* how often the frame of each call was handed to send_fn
  age,      \* milliseconds since the last of those while the call is parked
  recent,   \* keys of the last ARC_RELIABLE_SEEN_MAX reliable frames handed to
            \* deliver_fn, oldest first
  restarts  \* the peers for which seen_drop_source freed slots within seen[]

vars == <<r, now_ms, idle, status, tx, age, recent, restarts>>

Settled  == {"acked", "failed"}
Statuses == {"unused", "refused", "sent", "parked"} \cup Settled

CallOf(p) == p.payload[1]

SeenKeys == {r.seen[i] : i \in UsedSlots(r.seen)}

Init ==
  /\ r = arc_reliable_init(my_addr, session, first_seq)
  /\ now_ms \in Clocks
  /\ idle = 0
  /\ status = [c \in CallIds |-> "unused"]
  /\ tx = [c \in CallIds |-> 0]
  /\ age = [c \in CallIds |-> 0]
  /\ recent = <<>>
  /\ restarts = {}

----------------------------------------------------------------------------
(* arc_reliable_send, one action per outcome.                              *)

\* ARC_ERR_TOO_LONG or ARC_ERR_BAD_ARG, returned before anything is changed.
SendRejected(c) ==
  /\ status[c] = "unused"
  /\ status' = [status EXCEPT ![c] = "refused"]
  /\ UNCHANGED <<r, now_ms, idle, tx, age, recent, restarts>>

SendUnreliable(c) ==
  /\ status[c] = "unused"
  /\ r' = take_seq(r)
  /\ status' = [status EXCEPT ![c] = "sent"]
  /\ tx' = [tx EXCEPT ![c] = 1]
  /\ UNCHANGED <<now_ms, idle, age, recent, restarts>>

\* ARC_ERR_BUFFER: the SEQ is already taken.
SendBufferFull(c) ==
  /\ status[c] = "unused"
  /\ FreeSlots(r.pending) = {}
  /\ r' = take_seq(r)
  /\ status' = [status EXCEPT ![c] = "refused"]
  /\ UNCHANGED <<now_ms, idle, tx, age, recent, restarts>>

SendReliable(c, dst, ack) ==
  /\ status[c] = "unused"
  /\ FreeSlots(r.pending) # {}
  /\ r' = SendParked(r, dst, ack, <<c>>, now_ms)
  /\ status' = [status EXCEPT ![c] = "parked"]
  /\ tx' = [tx EXCEPT ![c] = 1]
  /\ UNCHANGED <<now_ms, idle, age, recent, restarts>>

----------------------------------------------------------------------------
(* arc_reliable_receive.                                                   *)

\* The keys of the last deliveries after a delivery of f.
RecentAfter(f) ==
  Append(IF Len(recent) < ARC_RELIABLE_SEEN_MAX THEN recent ELSE Tail(recent),
         seen_key(f))

\* Not for this endpoint, or delivered straight through.
ReceivePlain(f) ==
  /\ f.dst # my_addr \/ ~f.reliable
  /\ rx_result(r, f) # "ARC_RX_ACK"
  /\ r' = arc_reliable_receive(r, f)
  /\ UNCHANGED <<now_ms, idle, status, tx, age, recent, restarts>>

ReceiveData(f) ==
  /\ f.reliable
  /\ rx_result(r, f) \in {"ARC_RX_DUPLICATE", "ARC_RX_DELIVERED"}
  /\ r' = arc_reliable_receive(r, f)
  /\ recent' = IF IsDuplicate(r, f) THEN recent ELSE RecentAfter(f)
  /\ restarts' = IF source_session_changed(r.sources, f.src, f.session)
                 THEN restarts \cup {f.src} ELSE restarts
  /\ UNCHANGED <<now_ms, idle, status, tx, age>>

ReceiveAnAck(f) ==
  /\ rx_result(r, f) = "ARC_RX_ACK"
  /\ r' = arc_reliable_receive(r, f)
  /\ IF AckedSlots(r, f) = {} THEN UNCHANGED <<status, age>>
     ELSE LET c == CallOf(r.pending[AckedSlot(r, f)])
          IN  /\ status' = [status EXCEPT ![c] = "acked"]
              /\ age' = [age EXCEPT ![c] = 0]
  /\ UNCHANGED <<now_ms, idle, tx, recent, restarts>>

----------------------------------------------------------------------------
(* Time.                                                                   *)

CallsIn(slots) == {CallOf(r.pending[i]) : i \in slots}

Tick ==
  /\ r' = arc_reliable_tick(r, now_ms)
  /\ idle' = 0
  /\ status' = [c \in CallIds |->
                  IF c \in CallsIn(FailedSlots(r, now_ms)) THEN "failed" ELSE status[c]]
  /\ tx' = [c \in CallIds |->
              IF c \in CallsIn(RetriedSlots(r, now_ms)) THEN tx[c] + 1 ELSE tx[c]]
  /\ age' = [c \in CallIds |->
               IF c \in CallsIn(ExpiredSlots(r, now_ms)) THEN 0 ELSE age[c]]
  /\ UNCHANGED <<now_ms, recent, restarts>>

\* One millisecond passes.
AdvanceClock ==
  /\ idle < TICK_PERIOD
  /\ idle' = idle + 1
  /\ now_ms' = (now_ms + 1) % CLOCK
  /\ age' = [c \in CallIds |-> IF status[c] = "parked" THEN age[c] + 1 ELSE age[c]]
  /\ UNCHANGED <<r, status, tx, recent, restarts>>

----------------------------------------------------------------------------
Next ==
  \/ \E c \in CallIds :
       \/ SendRejected(c)
       \/ SendUnreliable(c)
       \/ SendBufferFull(c)
       \/ \E dst \in Dsts, ack \in BOOLEAN : SendReliable(c, dst, ack)
  \/ \E f \in Inbound : ReceivePlain(f) \/ ReceiveData(f) \/ ReceiveAnAck(f)
  \/ Tick
  \/ AdvanceClock

Spec == Init /\ [][Next]_vars

\* The clock runs and the embedder keeps calling tick.
FairSpec == Spec /\ WF_vars(Tick) /\ WF_vars(AdvanceClock)

----------------------------------------------------------------------------
(* Properties.                                                             *)

\* Every field of the endpoint and every history variable has its type.
TypeOK ==
  /\ r \in arc_reliable_t(Addrs, Sessions, Payloads)
  /\ r.my_addr = my_addr /\ r.session = session
  /\ now_ms \in Clocks
  /\ idle \in 0 .. TICK_PERIOD
  /\ status \in [CallIds -> Statuses]
  /\ tx \in [CallIds -> 0 .. max_retries + 1]
  /\ age \in [CallIds -> Nat]
  /\ recent \in Seq(arc_reliable_seen_t(Addrs, Sessions))
  /\ Len(recent) <= ARC_RELIABLE_SEEN_MAX
  /\ restarts \subseteq Addrs

\* The slots that hold the frame of call c.
SlotsOf(c) == {i \in UsedSlots(r.pending) : CallOf(r.pending[i]) = c}

\* A call is waiting for its ACK exactly while one slot of pending[] holds its
\* frame: no slot is lost or reused by the scans of send, receive and tick, and
\* the retry counter of the slot counts the retransmissions really made.
ParkedInOneSlot ==
  /\ \A c \in CallIds : status[c] = "parked" <=> SlotsOf(c) # {}
  /\ \A c \in CallIds : \A i, j \in SlotsOf(c) : i = j
  /\ \A i \in UsedSlots(r.pending) :
       tx[CallOf(r.pending[i])] = r.pending[i].retries + 1

\* The wrapping comparison (int32_t)(now_ms - deadline_ms) >= 0 of tick holds
\* exactly for the frames that timeout_ms really elapsed for: no frame is sent
\* again early, and none is overlooked, when the clock passes 2^32.
DueWhenExpired ==
  \A i \in UsedSlots(r.pending) :
    Expired(r.pending[i], now_ms) <=> age[CallOf(r.pending[i])] >= timeout_ms

\* A parked frame is transmitted again, or given up, at most TICK_PERIOD
\* milliseconds after its timeout, on either side of a wrap of the clock.
RetriedInTime ==
  \A c \in CallIds :
    status[c] = "parked" => age[c] <= timeout_ms + TICK_PERIOD

\* fail_fn only runs for a frame that was transmitted max_retries + 1 times.
FailedAfterAllRetries ==
  \A c \in CallIds : status[c] = "failed" => tx[c] = max_retries + 1

\* A frame that was acknowledged, given up or refused is never transmitted
\* again, and its outcome is never revised (a late ACK after fail_fn, a second
\* ACK, a tick that finds a reused slot).
OutcomeIsFinal ==
  [][\A c \in CallIds :
       status[c] \in Settled \cup {"refused"}
         => status'[c] = status[c] /\ tx'[c] = tx[c]]_vars

\* No two slots of sources[] track the same peer, and the keys in seen[] are
\* different: the scans that stop at the first match miss nothing.
TablesHaveNoDuplicates ==
  /\ \A i, j \in UsedSlots(r.sources) :
       r.sources[i].src = r.sources[j].src => i = j
  /\ \A i, j \in UsedSlots(r.seen) : r.seen[i] = r.seen[j] => i = j

\* seen[] never holds a key of an earlier session of a peer in sources[]: a
\* peer that comes back with a session it used before finds no stale key.
TrackedSessions ==
  \A i \in UsedSlots(r.sources), j \in UsedSlots(r.seen) :
    r.sources[i].src = r.seen[j].src => r.sources[i].session = r.seen[j].session

\* As long as no peer in sources[] restarted, no reliable frame is handed to
\* deliver_fn a second time while it is among the last ARC_RELIABLE_SEEN_MAX
\* delivered, whichever peers, tracked in sources[] or not, they came from.
WindowHolds ==
  restarts = {} => \A i, j \in 1 .. Len(recent) : recent[i] = recent[j] => i = j

\* The source of key k is known to have a session other than that of k, so
\* that seen_drop_source has removed k.
FromOldSession(k) ==
  \E i \in UsedSlots(r.sources) :
    r.sources[i].src = k.src /\ r.sources[i].session # k.session

\* seen[] holds the last ARC_RELIABLE_SEEN_MAX delivered keys, but for those of
\* a session that ended: a full table evicts the oldest key ("evict in FIFO
\* order"), never a younger one.
SeenInFifoOrder ==
  \A i \in 1 .. Len(recent) :
    recent[i] \in SeenKeys \/ FromOldSession(recent[i])

\* Every reliable frame that occupies a slot is eventually acknowledged or given
\* up, and its slot is free again.
EverySendSettles ==
  \A c \in CallIds : SlotsOf(c) # {} ~> SlotsOf(c) = {} /\ status[c] \in Settled

=============================================================================
