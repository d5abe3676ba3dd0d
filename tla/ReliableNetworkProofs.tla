----------------------- MODULE ReliableNetworkProofs -----------------------
(***************************************************************************)
(* Proofs about ReliableNetwork and MixedNetwork: C endpoints, and C and   *)
(* Python endpoints, on a network that loses, duplicates, delays and       *)
(* reorders frames, for all sets of nodes and calls and all table sizes,   *)
(* widths, timeouts and numbers of restarts.  The parameter S of an        *)
(* invariant is the set of the C nodes: all nodes in ReliableNetwork,      *)
(* CNodes in MixedNetwork.                                                 *)
(***************************************************************************)
EXTENDS MixedNetwork, ArcReliableLemmas, FiniteSetTheorems, SequenceTheorems

----------------------------------------------------------------------------
(* What the theorems ask of the system.                                    *)

\* A node that sends calls does not restart.  The stale ACK that a restarted
\* sender may match with a new frame is the finding of NetworkStaleAck.cfg.
SendersStay == \A c \in Calls : c.src \notin CanReboot

\* No incarnation takes more SEQs than there are, so none is used twice.
SeqsAreEnough == MaxDraws <= SEQ_VALUES

CallsTo(n) == {c \in Calls : c.dst = n}

\* seen[] of each node of S has room for every call to it: a key that was
\* replaced would let a late copy of its frame through.
SeenIsEnough(S) ==
  \A n \in S :
    IsFiniteSet(CallsTo(n)) /\ Cardinality(CallsTo(n)) <= ARC_RELIABLE_SEEN_MAX

----------------------------------------------------------------------------
(* The inductive invariant.                                                *)

DataFrames == {f \in net : ~f.ack}

\* A data frame under way belongs to a call that was sent and carries the session
\* its sender still has.
FramesOfCalls ==
  \A f \in DataFrames :
    /\ CallOf(f) \in Calls /\ f.payload = <<CallOf(f)>>
    /\ f.src = CallOf(f).src /\ f.dst = CallOf(f).dst
    /\ f.session = ep[f.src].session
    /\ status[CallOf(f)] \notin {"unused", "refused"}

\* The SEQ of a frame from S is one its sender took.
SeqsWereTaken(S) ==
  \A f \in DataFrames :
    f.src \in S => TakenBefore(f.seq, ep[f.src].next_seq, draws[f.src])

\* There is one frame for a call, and one for a SEQ of its sender.
OneFramePerCall ==
  \A f, g \in DataFrames :
    CallOf(f) = CallOf(g) \/ (f.src = g.src /\ f.seq = g.seq) => f = g

\* An entry of pending[] is a frame that was sent, for a call that is parked,
\* and no other slot has that call.
SlotsHoldParked ==
  \A n \in Nodes, i \in PendingSlots : ep[n].pending[i] # Free =>
    /\ pending_to_frame(ep[n].pending[i], n) \in DataFrames
    /\ status[CallOf(ep[n].pending[i])] = "parked"
    /\ \A j \in PendingSlots :
         ep[n].pending[j] # Free /\ CallOf(ep[n].pending[j]) = CallOf(ep[n].pending[i])
           => i = j

\* An ACK names a frame that was delivered, or comes from a node that restarted.
AcksAreEarned ==
  \A a \in net : a.ack =>
    \/ reboots[a.src] > 0
    \/ \E f \in DataFrames :
         /\ f.src = a.dst /\ f.dst = a.src /\ f.seq = acked_seq(a)
         /\ deliveries[CallOf(f)] > 0

\* A key in seen[] is that of a frame that was delivered.
KeysAreDelivered ==
  \A n \in Nodes, j \in SeenSlots : ep[n].seen[j] # Free =>
    \E f \in DataFrames :
      /\ f.dst = n /\ seen_key(f) = ep[n].seen[j]
      /\ deliveries[CallOf(f)] > 0

OwnAddresses == \A n \in Nodes : ep[n].my_addr = n

DeliveryInv(S) ==
  /\ OwnAddresses /\ FramesOfCalls /\ SeqsWereTaken(S) /\ OneFramePerCall /\ SlotsHoldParked
  /\ AcksAreEarned /\ KeysAreDelivered /\ AckedUnlessCrashed

\* sources[] knows the present session of every sender it has an entry for, so
\* no frame of a call makes the endpoint forget keys.
SourcesAreCurrent ==
  \A n \in Nodes, i \in SourcesSlots : ep[n].sources[i] # Free =>
    /\ \E c \in Calls : c.src = ep[n].sources[i].src
    /\ ep[n].sources[i].session = ep[ep[n].sources[i].src].session

KeysAreDistinct ==
  \A n \in Nodes, i, j \in SeenSlots :
    ep[n].seen[i] # Free /\ ep[n].seen[i] = ep[n].seen[j] => i = j

\* A call that the present incarnation of its receiver may not deliver again
\* has its key in seen[].
DeliveredKeysAreSeen(S) ==
  \A f \in DataFrames : f.dst \in S =>
    \/ deliveries[CallOf(f)] <= reboots[f.dst]
    \/ /\ deliveries[CallOf(f)] = reboots[f.dst] + 1
       /\ seen_contains(ep[f.dst].seen, seen_key(f))

DeliveredHaveFrames ==
  \A c \in Calls : deliveries[c] > 0 => \E f \in DataFrames : CallOf(f) = c

OnceInv(S) ==
  /\ SourcesAreCurrent /\ KeysAreDistinct /\ DeliveredHaveFrames
  /\ DeliveredKeysAreSeen(S)

----------------------------------------------------------------------------
(* Types, and what the operations leave in the fields of an endpoint.      *)

T == arc_reliable_t(Nodes, Sessions, Payloads)

\* The frame of a call, and the one an entry of pending[] is for.
LEMMA SentFrameIs ==
  ASSUME NTypeOK, NEW c \in Calls, NEW rel \in BOOLEAN, NEW t,
         NEW f, f = SentFrame(c, rel, t)
  PROVE  /\ f \in Frames /\ ~f.ack
         /\ f.src = c.src /\ f.dst = c.dst /\ f.payload = <<c>>
         /\ f.session = ep[c.src].session /\ f.seq = ep[c.src].next_seq
<1> DEFINE p == StagedEntry(ep[c.src], c.dst, FALSE, <<c>>, t)
           g == pending_to_frame(p, c.src)
<1>1. ep[c.src] \in T /\ c.src \in Nodes /\ c.dst \in Nodes
  BY Population DEF NTypeOK, T
<1>2. ep[c.src].session \in Sessions /\ ep[c.src].next_seq \in Seqs
  BY <1>1, EndpointFields DEF T
<1>3. <<c>> \in Payloads
  BY DEF Payloads
<1>4. g = [src |-> c.src, dst |-> c.dst, reliable |-> TRUE, ack |-> FALSE,
           session |-> ep[c.src].session, seq |-> ep[c.src].next_seq,
           payload |-> <<c>>]
  BY DEF StagedEntry, pending_to_frame
<1>5. f = [g EXCEPT !.reliable = rel]
  BY DEF SentFrame
<1> HIDE DEF g
<1>6. g \in Frames
  BY <1>1, <1>2, <1>3, <1>4 DEF Frames
<1>7. /\ g.src = c.src /\ g.dst = c.dst /\ g.payload = <<c>> /\ ~g.ack
      /\ g.session = ep[c.src].session /\ g.seq = ep[c.src].next_seq
  BY <1>4
<1> QED BY <1>5, <1>6, <1>7 DEF Frames

\* The frame that send makes and parks.
LEMMA ParkedFrameIs ==
  ASSUME NTypeOK, NEW c \in Calls, NEW t
  PROVE  SentFrame(c, TRUE, t) =
           pending_to_frame(StagedEntry(ep[c.src], c.dst, FALSE, <<c>>, t), c.src)
<1> DEFINE p == StagedEntry(ep[c.src], c.dst, FALSE, <<c>>, t)
           g == pending_to_frame(p, c.src)
<1> HIDE DEF p
<1>1. SentFrame(c, TRUE, t) = [g EXCEPT !.reliable = TRUE]
  BY DEF SentFrame, p
<1>2. g.reliable = TRUE /\ "reliable" \in DOMAIN g
  BY DEF pending_to_frame
<1>3. [g EXCEPT !.reliable = TRUE] = g
  BY <1>2 DEF pending_to_frame
<1> QED BY <1>1, <1>3 DEF p

\* The entry arc_reliable_send stages, and the endpoint it leaves.
LEMMA Staged ==
  ASSUME NTypeOK, NEW c \in Calls, NEW t \in Clocks
  PROVE  StagedEntry(ep[c.src], c.dst, FALSE, <<c>>, t)
           \in arc_reliable_pending_t(Nodes, Sessions, Payloads)
<1>1. ep[c.src] \in T /\ c.src \in Nodes /\ c.dst \in Nodes
  BY Population DEF NTypeOK, T
<1>2. ep[c.src].session \in Sessions /\ ep[c.src].next_seq \in Seqs
  BY <1>1, EndpointFields DEF T
<1>3. <<c>> \in Payloads
  BY DEF Payloads
<1>4. (t + timeout_ms) % CLOCK \in Clocks /\ 0 \in 0 .. max_retries
  BY Deadline, Timers
<1> QED BY <1>1, <1>2, <1>3, <1>4 DEF StagedEntry, arc_reliable_pending_t

\* What a reliable send changes at its endpoint.
LEMMA ParkedShape ==
  ASSUME NTypeOK, NEW c \in Calls, NEW t \in Clocks, SendReliable(c, t)
  PROVE  LET e == ep[c.src]
             g == ep'[c.src]
             k == pending_alloc(ep[c.src].pending)
         IN  /\ ep' = [ep EXCEPT ![c.src] = g]
             /\ g \in T /\ k \in PendingSlots /\ e.pending[k] = Free
             /\ g.pending[k] = StagedEntry(e, c.dst, FALSE, <<c>>, t)
             /\ \A i \in PendingSlots \ {k} : g.pending[i] = e.pending[i]
             /\ g.my_addr = e.my_addr /\ g.session = e.session
             /\ g.seen = e.seen /\ g.sources = e.sources
             /\ g.next_seq = (e.next_seq + 1) % SEQ_VALUES
<1> DEFINE e == ep[c.src]
           g == SendParked(e, c.dst, FALSE, <<c>>, t)
           k == pending_alloc(e.pending)
           p == StagedEntry(e, c.dst, FALSE, <<c>>, t)
           h == take_seq(e)
           Q == [e.pending EXCEPT ![k] = p]
<1>1. e \in T /\ c.src \in Nodes /\ ep \in [Nodes -> T]
  BY Population DEF NTypeOK, T
<1>2. p \in arc_reliable_pending_t(Nodes, Sessions, Payloads)
  BY Staged
<1>3. g = [h EXCEPT !.pending[k] = p]
  BY DEF SendParked
<1>4. FreeSlots(e.pending) # {} /\ ep' = [ep EXCEPT ![c.src] = g]
  BY DEF SendReliable
<1> HIDE DEF e, g, p
<1>5. k \in PendingSlots /\ e.pending[k] = Free
  <2>1. e \in arc_reliable_t(Nodes, Sessions, Payloads)
    BY <1>1 DEF T
  <2> QED BY <1>4, <2>1, AllocFree
<1> HIDE DEF k
<1>6. /\ h \in T /\ h.pending = e.pending
      /\ h.my_addr = e.my_addr /\ h.session = e.session
      /\ h.seen = e.seen /\ h.sources = e.sources
      /\ h.next_seq = (e.next_seq + 1) % SEQ_VALUES
  BY <1>1, TakeSeq DEF T
<1>7. e.pending \in [PendingSlots ->
                      arc_reliable_pending_t(Nodes, Sessions, Payloads) \cup {Free}]
  BY <1>1, EndpointFields DEF T
<1>8. /\ Q \in [PendingSlots ->
                 arc_reliable_pending_t(Nodes, Sessions, Payloads) \cup {Free}]
      /\ Q[k] = p /\ \A i \in PendingSlots \ {k} : Q[i] = e.pending[i]
  BY <1>2, <1>5, <1>7
<1>9. g = [h EXCEPT !.pending = Q]
  BY <1>3, <1>6
<1> HIDE DEF h, Q
<1>10. /\ g \in T /\ g.pending = Q /\ g.my_addr = h.my_addr /\ g.session = h.session
       /\ g.seen = h.seen /\ g.sources = h.sources /\ g.next_seq = h.next_seq
  BY <1>6, <1>8, <1>9 DEF T, arc_reliable_t, PendingSlots
<1>11. ep'[c.src] = g
  BY <1>1, <1>4
<1> QED BY <1>4, <1>5, <1>6, <1>8, <1>10, <1>11 DEF e, k, p

\* arc_reliable_receive, for the frames that are acknowledged and for ACKs.
LEMMA ReceiveCases ==
  ASSUME NEW e, NEW f
  PROVE  /\ f.reliable /\ rx_result(e, f) \in {"ARC_RX_DUPLICATE", "ARC_RX_DELIVERED"} =>
              /\ f.dst = e.my_addr /\ ~f.ack
              /\ arc_reliable_receive(e, f) = ReceiveReliable(e, f)
              /\ rx_replies(e, f) = {emit_ack(e, f)}
         /\ f.reliable /\ rx_result(e, f) = "ARC_RX_DELIVERED" => ~IsDuplicate(e, f)
         /\ f.reliable /\ rx_result(e, f) = "ARC_RX_DUPLICATE" => IsDuplicate(e, f)
         /\ rx_result(e, f) = "ARC_RX_ACK" =>
              f.ack /\ arc_reliable_receive(e, f) = ReceiveAck(e, f)
BY DEF rx_result, arc_reliable_receive, rx_replies, is_ack_frame

\* emit_ack answers a frame with one that can be read.
LEMMA AckFrame ==
  ASSUME NEW e \in T, NEW f \in Frames
  PROVE  /\ emit_ack(e, f) \in Frames
         /\ emit_ack(e, f).ack
         /\ emit_ack(e, f).src = e.my_addr /\ emit_ack(e, f).dst = f.src
         /\ acked_seq(emit_ack(e, f)) = f.seq
<1> DEFINE h == f.seq \div BYTE
           l == f.seq % BYTE
<1>1. f.src \in Nodes /\ f.seq \in Seqs
  BY DEF Frames
<1>2. h \in 0 .. BYTE - 1 /\ l \in 0 .. BYTE - 1 /\ h * BYTE + l = f.seq
  BY <1>1, SplitSeq
<1>3. e.my_addr \in Nodes /\ e.session \in Sessions /\ e.next_seq \in Seqs
  BY EndpointFields DEF T
<1>4. emit_ack(e, f) =
        [src |-> e.my_addr, dst |-> f.src, reliable |-> FALSE, ack |-> TRUE,
         session |-> e.session, seq |-> e.next_seq, payload |-> <<h, l>>]
  BY DEF emit_ack
<1> HIDE DEF h, l
<1>5. <<h, l>> \in AckPayloads
  BY <1>2 DEF AckPayloads
<1>6. emit_ack(e, f) \in Frames
  BY <1>1, <1>3, <1>4, <1>5 DEF Frames
<1>7. emit_ack(e, f).payload = <<h, l>>
  BY <1>4
<1> QED BY <1>2, <1>4, <1>6, <1>7 DEF acked_seq

\* The ACK a receiver sends is a frame of the network.
LEMMA ReplyType ==
  ASSUME NEW e \in T, NEW f \in Frames
  PROVE  rx_replies(e, f) \subseteq Frames
BY AckFrame DEF rx_replies

\* A used slot holds the entry of a call.
LEMMA EntryOfCall ==
  ASSUME NEW p \in arc_reliable_pending_t(Nodes, Sessions, Payloads), NEW n \in Nodes
  PROVE  /\ CallOf(p) \in Calls /\ p.payload = <<CallOf(p)>>
         /\ pending_to_frame(p, n) \in Frames
<1>1. PICK c \in Calls : p.payload = <<c>>
  BY DEF arc_reliable_pending_t, Payloads
<1>2. pending_to_frame(p, n) \in Frames
  BY DEF arc_reliable_pending_t, Frames, pending_to_frame
<1> QED BY <1>1, <1>2 DEF CallOf

\* The entries of pending[] have their type.
LEMMA SlotsOf ==
  ASSUME NTypeOK, NEW n \in Nodes
  PROVE  /\ ep[n] \in T
         /\ DOMAIN ep[n].pending = PendingSlots
         /\ \A i \in PendingSlots : ep[n].pending[i] # Free =>
              ep[n].pending[i] \in arc_reliable_pending_t(Nodes, Sessions, Payloads)
<1>1. ep[n] \in T
  BY DEF NTypeOK, T
<1>2. ep[n].pending \in
        [PendingSlots -> arc_reliable_pending_t(Nodes, Sessions, Payloads) \cup {Free}]
  BY <1>1, EndpointFields DEF T
<1> QED BY <1>1, <1>2

\* The calls of the slots of a node.
LEMMA CallsInSlots ==
  ASSUME NTypeOK, NEW n \in Nodes, NEW S \in SUBSET UsedSlots(ep[n].pending)
  PROVE  \A c : c \in CallsIn(n, S) <=> \E i \in S : c = CallOf(ep[n].pending[i])
BY DEF CallsIn

\* The slots that a tick retries or gives up are in use.
LEMMA TickedSlots ==
  ASSUME NTypeOK, NEW n \in Nodes, NEW t
  PROVE  \A i \in RetriedSlots(ep[n], t) \cup FailedSlots(ep[n], t) :
           i \in PendingSlots /\ ep[n].pending[i] # Free
BY SlotsOf DEF RetriedSlots, FailedSlots, ExpiredSlots, UsedSlots

\* The types hold initially.
LEMMA NTypeInit == NInit => NTypeOK
<1> SUFFICES ASSUME NInit PROVE NTypeOK
  OBVIOUS
<1>1. ep \in [Nodes -> T]
  <2>1. PICK s \in [Nodes -> FirstSessions], q \in [Nodes -> FirstSeqs] :
          ep = [n \in Nodes |-> arc_reliable_init(n, s[n], q[n])]
    BY DEF NInit
  <2>2. ASSUME NEW n \in Nodes PROVE arc_reliable_init(n, s[n], q[n]) \in T
    <3>1. s[n] \in Sessions /\ q[n] \in Seqs
      BY Population
    <3> QED BY <3>1, TypeInit DEF T
  <2> QED BY <2>1, <2>2
<1> QED BY <1>1, Population DEF NInit, NTypeOK, Statuses, T

\* A restarted endpoint has its type.
LEMMA RestartType ==
  ASSUME NTypeOK, NEW n \in Nodes, Restart(n)
  PROVE  /\ ep' \in [Nodes -> T]
         /\ draws' \in [Nodes -> 0 .. MaxDraws]
         /\ reboots' \in [Nodes -> 0 .. MaxReboots]
         /\ status' \in [Calls -> Statuses]
         /\ deliveries' \in [Calls -> Nat]
<1>1. ep' \in [Nodes -> T]
  <2>1. PICK s \in Sessions \ {ep[n].session}, q \in FirstSeqs :
          ep' = [ep EXCEPT ![n] = arc_reliable_init(n, s, q)]
    BY DEF Restart
  <2>2. arc_reliable_init(n, s, q) \in T
    BY Population, TypeInit DEF T
  <2> QED BY <2>1, <2>2 DEF NTypeOK, T
<1>2. draws' \in [Nodes -> 0 .. MaxDraws] /\ reboots' \in [Nodes -> 0 .. MaxReboots]
  BY Population DEF Restart, NTypeOK
<1>3. status' \in [Calls -> Statuses] /\ deliveries' \in [Calls -> Nat]
  BY DEF Restart, NTypeOK, Statuses
<1> QED BY <1>1, <1>2, <1>3

\* Every step keeps the types.
LEMMA NTypeStep == NTypeOK /\ [NNext]_nvars => NTypeOK'
<1> SUFFICES ASSUME NTypeOK, [NNext]_nvars PROVE NTypeOK'
  OBVIOUS
<1>1. /\ ep \in [Nodes -> T] /\ net \subseteq Frames
      /\ draws \in [Nodes -> 0 .. MaxDraws] /\ reboots \in [Nodes -> 0 .. MaxReboots]
      /\ status \in [Calls -> Statuses] /\ deliveries \in [Calls -> Nat]
  BY DEF NTypeOK, T
<1>2. ASSUME NEW n \in Nodes, Draw(n) PROVE draws' \in [Nodes -> 0 .. MaxDraws]
  BY <1>1, <1>2, Population DEF Draw
<1>3. ASSUME NEW c \in Calls, NEW t \in Clocks, SendReliable(c, t) PROVE NTypeOK'
  <2>1. c.src \in Nodes
    BY Population
  <2>2. ep' \in [Nodes -> T]
    <3>1. ep' = [ep EXCEPT ![c.src] = ep'[c.src]] /\ ep'[c.src] \in T
      BY <1>3, ParkedShape
    <3> QED BY <1>1, <3>1
  <2>3. SentFrame(c, TRUE, t) \in Frames
    BY SentFrameIs
  <2> QED BY <1>1, <1>2, <1>3, <2>1, <2>2, <2>3 DEF SendReliable, NTypeOK, Statuses, T
<1>4. ASSUME NEW c \in Calls, NEW flagged \in BOOLEAN, SendUnreliable(c, flagged)
      PROVE  NTypeOK'
  <2>1. c.src \in Nodes
    BY Population
  <2>2. ep' \in [Nodes -> T]
    <3>1. take_seq(ep[c.src]) \in T
      BY <1>1, <2>1, TakeSeq DEF T
    <3> QED BY <1>1, <1>4, <3>1 DEF SendUnreliable
  <2>3. SentFrame(c, flagged, 0) \in Frames
    BY SentFrameIs
  <2> QED BY <1>1, <1>2, <1>4, <2>1, <2>2, <2>3 DEF SendUnreliable, NTypeOK, Statuses, T
<1>5. ASSUME NEW c \in Calls, SendBufferFull(c) PROVE NTypeOK'
  <2>1. c.src \in Nodes
    BY Population
  <2>2. ep' \in [Nodes -> T]
    <3>1. take_seq(ep[c.src]) \in T
      BY <1>1, <2>1, TakeSeq DEF T
    <3> QED BY <1>1, <1>5, <3>1 DEF SendBufferFull
  <2> QED BY <1>1, <1>2, <1>5, <2>1, <2>2 DEF SendBufferFull, NTypeOK, Statuses, T
<1>6. ASSUME NEW n \in Nodes, NEW f \in net, ReceiveData(n, f) PROVE NTypeOK'
  <2>1. f \in Frames /\ f.src \in Nodes /\ f.session \in Sessions /\ f.seq \in Seqs
    BY <1>1 DEF Frames
  <2>2. arc_reliable_receive(ep[n], f) \in T
    <3>1. arc_reliable_receive(ep[n], f) = ReceiveReliable(ep[n], f)
      BY <1>6, ReceiveCases DEF ReceiveData
    <3> QED BY <1>1, <2>1, <3>1, ReceiveReliableType DEF T
  <2>3. ep' \in [Nodes -> T]
    BY <1>1, <1>6, <2>2 DEF ReceiveData
  <2>4. net' \subseteq Frames
    BY <1>1, <1>6, <2>1, ReplyType DEF ReceiveData
  <2>5. deliveries' \in [Calls -> Nat]
    <3>1. ASSUME NEW x PROVE [deliveries EXCEPT ![x] = @ + 1] \in [Calls -> Nat]
      <4> DEFINE v == deliveries[x] + 1
      <4>1. x \in Calls => v \in Nat
        BY <1>1
      <4> HIDE DEF v
      <4>2. [deliveries EXCEPT ![x] = v] \in [Calls -> Nat]
        BY <1>1, <4>1
      <4> QED BY <4>2 DEF v
    <3>2. \/ deliveries' = [deliveries EXCEPT ![CallOf(f)] = @ + 1]
          \/ deliveries' = deliveries
      BY <1>6 DEF ReceiveData
    <3> QED BY <1>1, <3>1, <3>2
  <2> QED BY <1>1, <1>2, <1>6, <2>3, <2>4, <2>5 DEF ReceiveData, NTypeOK, T
<1>7. ASSUME NEW n \in Nodes, NEW f \in net, ReceiveAnAck(n, f) PROVE NTypeOK'
  <2>1. arc_reliable_receive(ep[n], f) \in T
    <3>1. arc_reliable_receive(ep[n], f) = ReceiveAck(ep[n], f)
      BY <1>7, ReceiveCases DEF ReceiveAnAck
    <3> QED BY <1>1, <3>1, ReceiveAckType DEF T
  <2>2. ep' \in [Nodes -> T]
    BY <1>1, <1>7, <2>1 DEF ReceiveAnAck
  <2>3. status' \in [Calls -> Statuses]
    BY <1>1, <1>7 DEF ReceiveAnAck, Statuses
  <2> QED BY <1>1, <1>7, <2>2, <2>3 DEF ReceiveAnAck, NTypeOK, T
<1>8. ASSUME NEW n \in Nodes, NEW t \in Clocks, Tick(n, t) PROVE NTypeOK'
  <2>1. ep' \in [Nodes -> T]
    <3>1. arc_reliable_tick(ep[n], t) \in T
      BY <1>1, TickType DEF T
    <3> QED BY <1>1, <1>8, <3>1 DEF Tick
  <2>2. \A i \in RetriedSlots(ep[n], t) : pending_to_frame(ep[n].pending[i], n) \in Frames
    BY TickedSlots, SlotsOf, EntryOfCall
  <2>3. net' \subseteq Frames
    BY <1>1, <1>8, <2>2 DEF Tick
  <2>4. status' \in [Calls -> Statuses]
    BY <1>1, <1>8 DEF Tick, Statuses
  <2> QED BY <1>1, <1>8, <2>1, <2>3, <2>4 DEF Tick, NTypeOK, T
<1>9. ASSUME NEW n \in Nodes, Reboot(n) PROVE NTypeOK'
  BY <1>1, <1>9, RestartType DEF Reboot, NTypeOK, T
<1>10. ASSUME NEW n \in Nodes, NEW f \in net, CrashInReceive(n, f) PROVE NTypeOK'
  <2>1. net' \subseteq Frames
    BY <1>1, <1>10, ReplyType DEF CrashInReceive
  <2> QED BY <1>10, <2>1, RestartType DEF CrashInReceive, NTypeOK, T
<1>11. CASE UNCHANGED nvars
  BY <1>1, <1>11 DEF nvars, NTypeOK, T
<1> QED BY <1>3, <1>4, <1>5, <1>6, <1>7, <1>8, <1>9, <1>10, <1>11 DEF NNext

\* Endpoints, frames and history variables keep their types; in particular both
\* bytes of every ACK's payload are bytes.
THEOREM NetworkTypes == NSpec => []NTypeOK
BY NTypeInit, NTypeStep, PTL DEF NSpec

----------------------------------------------------------------------------
(* Frames under way, step by step.                                         *)

\* What a step does to a node that sends calls: it keeps the session, and takes
\* no SEQ or the next one.
Advances(m) ==
  /\ ep'[m].session = ep[m].session
  /\ \/ ep'[m].next_seq = ep[m].next_seq /\ draws'[m] = draws[m]
     \/ /\ ep'[m].next_seq = (ep[m].next_seq + 1) % SEQ_VALUES
        /\ draws[m] < MaxDraws /\ draws'[m] = draws[m] + 1

\* A call that was sent stays one.
StaysSent ==
  \A c \in Calls : status[c] \notin {"unused", "refused"} =>
                     status'[c] \notin {"unused", "refused"}

\* Frames, deliveries and restarts are not taken back.
Grows ==
  /\ DataFrames \subseteq DataFrames'
  /\ \A c \in Calls : deliveries[c] > 0 => deliveries'[c] > 0
  /\ \A n \in Nodes : reboots[n] > 0 => reboots'[n] > 0

\* A SEQ that a sender took stays one of those it took, and is not the next.
LEMMA SeqStays ==
  ASSUME SeqsAreEnough, NTypeOK, NEW m \in Nodes, NEW s \in Seqs, Advances(m),
         TakenBefore(s, ep[m].next_seq, draws[m])
  PROVE  /\ TakenBefore(s, ep'[m].next_seq, draws'[m])
         /\ draws[m] < MaxDraws => s # ep[m].next_seq
<1>1. ep[m].next_seq \in Seqs /\ draws[m] \in Nat
  <2>1. ep[m] \in T /\ draws[m] \in 0 .. MaxDraws
    BY DEF NTypeOK, T
  <2> QED BY <2>1, Population, EndpointFields DEF T
<1>2. draws[m] < MaxDraws => draws[m] < SEQ_VALUES
  BY <1>1, Population, Moduli DEF SeqsAreEnough
<1>3. CASE draws[m] < MaxDraws
  <2>1. /\ s # ep[m].next_seq
        /\ TakenBefore(s, (ep[m].next_seq + 1) % SEQ_VALUES, draws[m] + 1)
    BY <1>1, <1>2, <1>3, TakenStays
  <2> QED BY <2>1 DEF Advances
<1>4. CASE ~(draws[m] < MaxDraws)
  BY <1>4 DEF Advances
<1> QED BY <1>3, <1>4

\* Steps that add no data frame.
LEMMA SameFrames ==
  ASSUME NEW S \in SUBSET Nodes,
         SeqsAreEnough, NTypeOK, FramesOfCalls, SeqsWereTaken(S), OneFramePerCall,
         DataFrames' = DataFrames, StaysSent, \A c \in Calls : Advances(c.src)
  PROVE  FramesOfCalls' /\ SeqsWereTaken(S)' /\ OneFramePerCall'
<1>1. OneFramePerCall'
  BY DEF OneFramePerCall
<1>2. ASSUME NEW f \in DataFrames
      PROVE  /\ f.session = ep'[f.src].session
             /\ status'[CallOf(f)] \notin {"unused", "refused"}
             /\ f.src \in S => TakenBefore(f.seq, ep'[f.src].next_seq, draws'[f.src])
  <2>1. /\ CallOf(f) \in Calls /\ f.src = CallOf(f).src
        /\ f.session = ep[f.src].session
        /\ status[CallOf(f)] \notin {"unused", "refused"}
    BY DEF FramesOfCalls
  <2>2. f.src \in Nodes /\ f.seq \in Seqs
    BY DEF DataFrames, NTypeOK, Frames
  <2>3. Advances(f.src)
    BY <2>1
  <2>4. f.src \in S => TakenBefore(f.seq, ep[f.src].next_seq, draws[f.src])
    BY DEF SeqsWereTaken
  <2>5. f.src \in S => TakenBefore(f.seq, ep'[f.src].next_seq, draws'[f.src])
    BY <2>2, <2>3, <2>4, SeqStays
  <2> QED BY <2>1, <2>3, <2>5 DEF Advances, StaysSent
<1>3. FramesOfCalls'
  BY <1>2 DEF FramesOfCalls
<1>4. SeqsWereTaken(S)'
  BY <1>2 DEF SeqsWereTaken
<1> QED BY <1>1, <1>3, <1>4

\* Steps that send the frame of a call.
LEMMA NewFrame ==
  ASSUME NEW S \in SUBSET Nodes,
         SeqsAreEnough, NTypeOK, FramesOfCalls, SeqsWereTaken(S), OneFramePerCall,
         NEW c \in Calls, c.src \in S, NEW rel \in BOOLEAN, NEW t,
         DataFrames' = DataFrames \cup {SentFrame(c, rel, t)},
         status[c] = "unused", status'[c] \notin {"unused", "refused"},
         StaysSent, \A d \in Calls : Advances(d.src), Draw(c.src),
         ep'[c.src].next_seq = (ep[c.src].next_seq + 1) % SEQ_VALUES
  PROVE  FramesOfCalls' /\ SeqsWereTaken(S)' /\ OneFramePerCall'
<1> DEFINE new == SentFrame(c, rel, t)
<1>1. /\ new \in Frames /\ ~new.ack
      /\ new.src = c.src /\ new.dst = c.dst /\ new.payload = <<c>>
      /\ new.session = ep[c.src].session /\ new.seq = ep[c.src].next_seq
  BY SentFrameIs
<1>2. CallOf(new) = c
  BY <1>1 DEF CallOf
<1> HIDE DEF new
<1>3. ASSUME NEW f \in DataFrames
      PROVE  /\ f.session = ep'[f.src].session
             /\ status'[CallOf(f)] \notin {"unused", "refused"}
             /\ f.src \in S => TakenBefore(f.seq, ep'[f.src].next_seq, draws'[f.src])
             /\ CallOf(f) # c
             /\ f.src = c.src => f.seq # ep[c.src].next_seq
  <2>1. /\ CallOf(f) \in Calls /\ f.src = CallOf(f).src
        /\ f.session = ep[f.src].session
        /\ status[CallOf(f)] \notin {"unused", "refused"}
    BY DEF FramesOfCalls
  <2>2. f.src \in Nodes /\ f.seq \in Seqs
    BY DEF DataFrames, NTypeOK, Frames
  <2>3. Advances(f.src)
    BY <2>1
  <2>4. f.src \in S => TakenBefore(f.seq, ep[f.src].next_seq, draws[f.src])
    BY DEF SeqsWereTaken
  <2>5. f.src \in S =>
          /\ TakenBefore(f.seq, ep'[f.src].next_seq, draws'[f.src])
          /\ draws[f.src] < MaxDraws => f.seq # ep[f.src].next_seq
    BY <2>2, <2>3, <2>4, SeqStays
  <2> QED BY <2>1, <2>3, <2>5 DEF Advances, StaysSent, Draw
<1>4. /\ new.session = ep'[c.src].session
      /\ TakenBefore(new.seq, ep'[c.src].next_seq, draws'[c.src])
  <2>1. ep[c.src].next_seq \in Seqs /\ draws[c.src] \in Nat /\ draws'[c.src] = draws[c.src] + 1
    <3>1. ep[c.src] \in T /\ draws[c.src] \in 0 .. MaxDraws /\ c.src \in Nodes
      BY Population DEF NTypeOK, T
    <3> QED BY <3>1, Population, EndpointFields DEF T, Draw, NTypeOK
  <2>2. TakenBefore(new.seq, (ep[c.src].next_seq + 1) % SEQ_VALUES, draws[c.src] + 1)
    BY <1>1, <2>1, TakenNow
  <2> QED BY <1>1, <2>1, <2>2 DEF Advances
<1>5. DataFrames' = DataFrames \cup {new}
  BY DEF new
<1>6. FramesOfCalls'
  BY <1>1, <1>2, <1>3, <1>4, <1>5 DEF FramesOfCalls
<1>7. SeqsWereTaken(S)'
  BY <1>1, <1>3, <1>4, <1>5 DEF SeqsWereTaken
<1>8. OneFramePerCall'
  BY <1>1, <1>2, <1>3, <1>5 DEF OneFramePerCall
<1> QED BY <1>6, <1>7, <1>8

\* ACKs that were earned stay so.
LEMMA AcksStay ==
  ASSUME NTypeOK, FramesOfCalls, AcksAreEarned, Grows,
         \A a \in net' \ net : a.ack =>
            \/ reboots'[a.src] > 0
            \/ \E f \in DataFrames' :
                 /\ f.src = a.dst /\ f.dst = a.src /\ f.seq = acked_seq(a)
                 /\ deliveries'[CallOf(f)] > 0
  PROVE  AcksAreEarned'
<1>1. ASSUME NEW a \in net, a.ack
      PROVE  \/ reboots'[a.src] > 0
             \/ \E f \in DataFrames' :
                  /\ f.src = a.dst /\ f.dst = a.src /\ f.seq = acked_seq(a)
                  /\ deliveries'[CallOf(f)] > 0
  <2>1. CASE reboots[a.src] > 0
    <3>1. a.src \in Nodes
      BY DEF NTypeOK, Frames
    <3> QED BY <2>1, <3>1 DEF Grows
  <2>2. ASSUME NEW f \in DataFrames,
               f.src = a.dst, f.dst = a.src, f.seq = acked_seq(a),
               deliveries[CallOf(f)] > 0
        PROVE  f \in DataFrames' /\ deliveries'[CallOf(f)] > 0
    BY <2>2 DEF Grows, FramesOfCalls
  <2> QED BY <1>1, <2>1, <2>2 DEF AcksAreEarned
<1> QED BY <1>1 DEF AcksAreEarned

\* Keys of frames that were delivered stay so.
LEMMA KeysStay ==
  ASSUME NTypeOK, FramesOfCalls, KeysAreDelivered, Grows,
         \A n \in Nodes, j \in SeenSlots : ep'[n].seen[j] # Free =>
           \/ ep'[n].seen[j] = ep[n].seen[j]
           \/ \E f \in DataFrames :
                /\ f.dst = n /\ seen_key(f) = ep'[n].seen[j]
                /\ deliveries'[CallOf(f)] > 0
  PROVE  KeysAreDelivered'
<1> SUFFICES ASSUME NEW n \in Nodes, NEW j \in SeenSlots, ep'[n].seen[j] # Free
             PROVE  \E f \in DataFrames' :
                      /\ f.dst = n /\ seen_key(f) = ep'[n].seen[j]
                      /\ deliveries'[CallOf(f)] > 0
  BY DEF KeysAreDelivered
<1>1. CASE ep'[n].seen[j] = ep[n].seen[j]
  <2>1. PICK f \in DataFrames : /\ f.dst = n /\ seen_key(f) = ep[n].seen[j]
                                /\ deliveries[CallOf(f)] > 0
    BY <1>1 DEF KeysAreDelivered
  <2>2. f \in DataFrames' /\ deliveries'[CallOf(f)] > 0
    BY <2>1 DEF Grows, FramesOfCalls
  <2> QED BY <1>1, <2>1, <2>2
<1>2. ASSUME NEW f \in DataFrames, f.dst = n, seen_key(f) = ep'[n].seen[j],
             deliveries'[CallOf(f)] > 0
      PROVE  f \in DataFrames'
  BY DEF Grows
<1> QED BY <1>1, <1>2

\* Steps that park no call.
LEMMA SlotsStay ==
  ASSUME NTypeOK, SlotsHoldParked, DataFrames \subseteq DataFrames',
         \A n \in Nodes, i \in PendingSlots : ep'[n].pending[i] # Free =>
           /\ ep[n].pending[i] # Free
           /\ CallOf(ep'[n].pending[i]) = CallOf(ep[n].pending[i])
           /\ pending_to_frame(ep'[n].pending[i], n) = pending_to_frame(ep[n].pending[i], n)
           /\ status'[CallOf(ep[n].pending[i])] = "parked"
  PROVE  SlotsHoldParked'
BY DEF SlotsHoldParked

\* The entry of a slot and its frame have one call, which its node sends.
LEMMA SlotCall ==
  ASSUME NTypeOK, FramesOfCalls, SlotsHoldParked,
         NEW n \in Nodes, NEW i \in PendingSlots, ep[n].pending[i] # Free,
         NEW p, p = ep[n].pending[i], NEW g, g = pending_to_frame(p, n)
  PROVE  /\ g \in DataFrames /\ g.src = n /\ g.dst = p.dst /\ g.seq = p.seq
         /\ CallOf(g) = CallOf(p) /\ CallOf(p) \in Calls
         /\ CallOf(p).src = n /\ CallOf(p).dst = p.dst
         /\ status[CallOf(p)] = "parked"
<1>1. g \in DataFrames /\ status[CallOf(p)] = "parked"
  BY DEF SlotsHoldParked
<1>2. /\ g.src = n /\ g.dst = p.dst /\ g.seq = p.seq /\ CallOf(g) = CallOf(p)
  BY DEF pending_to_frame, CallOf
<1> QED BY <1>1, <1>2 DEF FramesOfCalls

\* A new call is in no slot.
LEMMA UnusedIsNotParked ==
  ASSUME NTypeOK, SlotsHoldParked, NEW c \in Calls, status[c] = "unused",
         NEW n \in Nodes, NEW i \in PendingSlots, ep[n].pending[i] # Free
  PROVE  CallOf(ep[n].pending[i]) # c
BY DEF SlotsHoldParked

\* A reliable send puts the only frame of its call on the network.
LEMMA DeliverySendReliable ==
  ASSUME NEW S \in SUBSET Nodes, SeqsAreEnough, NTypeOK, DeliveryInv(S),
         NEW c \in Calls, c.src \in S, NEW t \in Clocks, SendReliable(c, t)
  PROVE  DeliveryInv(S)'
<1> DEFINE e == ep[c.src]
           g == ep'[c.src]
           k == pending_alloc(e.pending)
           p == StagedEntry(e, c.dst, FALSE, <<c>>, t)
           new == SentFrame(c, TRUE, t)
<1> USE DEF DeliveryInv
<1>1. c.src \in Nodes /\ ep \in [Nodes -> T] /\ status \in [Calls -> Statuses]
  BY Population DEF NTypeOK, T
<1>2. /\ g \in T /\ k \in PendingSlots /\ e.pending[k] = Free
      /\ g.pending[k] = p
      /\ \A i \in PendingSlots \ {k} : g.pending[i] = e.pending[i]
      /\ g.my_addr = e.my_addr /\ g.session = e.session
      /\ g.seen = e.seen /\ g.sources = e.sources
      /\ g.next_seq = (e.next_seq + 1) % SEQ_VALUES
  BY ParkedShape
<1>3. new \in Frames /\ ~new.ack /\ new = pending_to_frame(p, c.src) /\ CallOf(p) = c
  BY SentFrameIs, ParkedFrameIs DEF CallOf, StagedEntry
<1> HIDE DEF k, p, new
<1>4. /\ \A n \in Nodes : n # c.src => ep'[n] = ep[n]
      /\ net' = net \cup {new} /\ status[c] = "unused"
      /\ status' = [status EXCEPT ![c] = "parked"]
      /\ Draw(c.src) /\ reboots' = reboots /\ deliveries' = deliveries
  BY <1>1 DEF SendReliable, new
<1>5. DataFrames' = DataFrames \cup {new}
  BY <1>3, <1>4 DEF DataFrames
<1>6. Grows
  BY <1>4, <1>5 DEF Grows
<1>7. OwnAddresses'
  BY <1>1, <1>2, <1>4 DEF OwnAddresses
<1>8. FramesOfCalls' /\ SeqsWereTaken(S)' /\ OneFramePerCall'
  <2>1. StaysSent
    BY <1>1, <1>4 DEF StaysSent
  <2>2. \A d \in Calls : Advances(d.src)
    <3>1. draws \in [Nodes -> 0 .. MaxDraws] /\ \A d \in Calls : d.src \in Nodes
      BY Population DEF NTypeOK
    <3> QED BY <1>1, <1>2, <1>4, <3>1 DEF Advances, Draw
  <2>3. ep'[c.src].next_seq = (ep[c.src].next_seq + 1) % SEQ_VALUES
    BY <1>1, <1>2, <1>4
  <2>4. status'[c] \notin {"unused", "refused"}
    BY <1>1, <1>4
  <2> QED BY <1>4, <1>5, <2>1, <2>2, <2>3, <2>4, NewFrame DEF new
<1>9. SlotsHoldParked'
  <2>1. ASSUME NEW n \in Nodes, NEW i \in PendingSlots, ep'[n].pending[i] # Free,
               ~(n = c.src /\ i = k)
        PROVE  /\ ep'[n].pending[i] = ep[n].pending[i]
               /\ CallOf(ep[n].pending[i]) # c
               /\ status'[CallOf(ep[n].pending[i])] = "parked"
    <3>1. ep'[n].pending[i] = ep[n].pending[i]
      BY <1>1, <1>2, <1>4, <2>1
    <3>2. CallOf(ep[n].pending[i]) # c
      BY <1>4, <2>1, <3>1, UnusedIsNotParked
    <3>3. CallOf(ep[n].pending[i]) \in Calls /\ status[CallOf(ep[n].pending[i])] = "parked"
      BY <2>1, <3>1, SlotCall
    <3> QED BY <1>1, <1>4, <3>1, <3>2, <3>3
  <2>2. ep'[c.src].pending[k] = p
    BY <1>1, <1>2, <1>4
  <2>3. status'[c] = "parked"
    BY <1>1, <1>4
  <2>4. ASSUME NEW n \in Nodes, NEW i \in PendingSlots, ep'[n].pending[i] # Free
        PROVE  /\ pending_to_frame(ep'[n].pending[i], n) \in DataFrames'
               /\ status'[CallOf(ep'[n].pending[i])] = "parked"
    <3>1. CASE n = c.src /\ i = k
      BY <1>3, <1>5, <2>2, <2>3, <3>1
    <3>2. CASE ~(n = c.src /\ i = k)
      BY <1>5, <2>1, <2>4, <3>2 DEF SlotsHoldParked
    <3> QED BY <3>1, <3>2
  <2>5. ASSUME NEW n \in Nodes, NEW i \in PendingSlots, NEW j \in PendingSlots,
               ep'[n].pending[i] # Free, ep'[n].pending[j] # Free,
               CallOf(ep'[n].pending[j]) = CallOf(ep'[n].pending[i])
        PROVE  i = j
    <3>1. CASE n = c.src /\ (i = k \/ j = k)
      BY <1>3, <2>1, <2>2, <2>5, <3>1
    <3>2. CASE ~(n = c.src /\ (i = k \/ j = k))
      BY <2>1, <2>5, <3>2 DEF SlotsHoldParked
    <3> QED BY <3>1, <3>2
  <2> QED BY <2>4, <2>5 DEF SlotsHoldParked
<1>10. AcksAreEarned'
  BY <1>3, <1>4, <1>6, AcksStay
<1>11. KeysAreDelivered'
  <2>1. \A n \in Nodes : ep'[n].seen = ep[n].seen
    BY <1>1, <1>2, <1>4
  <2> QED BY <1>6, <2>1, KeysStay
<1>12. AckedUnlessCrashed'
  BY <1>1, <1>4 DEF AckedUnlessCrashed
<1> QED BY <1>7, <1>8, <1>9, <1>10, <1>11, <1>12

\* A send without a slot, or that finds none, takes a SEQ.
LEMMA UnparkedShape ==
  ASSUME NTypeOK, NEW m \in Nodes, ep' = [ep EXCEPT ![m] = take_seq(ep[m])]
  PROVE  /\ \A n \in Nodes : /\ ep'[n].my_addr = ep[n].my_addr
                             /\ ep'[n].session = ep[n].session
                             /\ ep'[n].pending = ep[n].pending
                             /\ ep'[n].seen = ep[n].seen
                             /\ ep'[n].sources = ep[n].sources
                             /\ n # m => ep'[n] = ep[n]
         /\ ep'[m].next_seq = (ep[m].next_seq + 1) % SEQ_VALUES
<1>1. ep \in [Nodes -> T]
  BY DEF NTypeOK, T
<1>2. /\ take_seq(ep[m]).my_addr = ep[m].my_addr /\ take_seq(ep[m]).session = ep[m].session
      /\ take_seq(ep[m]).pending = ep[m].pending /\ take_seq(ep[m]).seen = ep[m].seen
      /\ take_seq(ep[m]).sources = ep[m].sources
      /\ take_seq(ep[m]).next_seq = (ep[m].next_seq + 1) % SEQ_VALUES
  BY <1>1, TakeSeq DEF T
<1> QED BY <1>1, <1>2

\* An unreliable send parks nothing; its frame is the only one of its call.
LEMMA DeliverySendUnreliable ==
  ASSUME NEW S \in SUBSET Nodes, SeqsAreEnough, NTypeOK, DeliveryInv(S),
         NEW c \in Calls, c.src \in S, NEW flagged \in BOOLEAN, SendUnreliable(c, flagged)
  PROVE  DeliveryInv(S)'
<1> DEFINE new == SentFrame(c, flagged, 0)
<1> USE DEF DeliveryInv
<1>1. /\ c.src \in Nodes /\ status \in [Calls -> Statuses]
      /\ draws \in [Nodes -> 0 .. MaxDraws] /\ \A d \in Calls : d.src \in Nodes
  BY Population DEF NTypeOK
<1>2. /\ \A n \in Nodes : /\ ep'[n].my_addr = ep[n].my_addr
                          /\ ep'[n].session = ep[n].session
                          /\ ep'[n].pending = ep[n].pending
                          /\ ep'[n].seen = ep[n].seen
                          /\ n # c.src => ep'[n] = ep[n]
      /\ ep'[c.src].next_seq = (ep[c.src].next_seq + 1) % SEQ_VALUES
  BY <1>1, UnparkedShape DEF SendUnreliable
<1>3. new \in Frames /\ ~new.ack
  BY SentFrameIs
<1> HIDE DEF new
<1>4. /\ net' = net \cup {new} /\ status[c] = "unused"
      /\ status' = [status EXCEPT ![c] = "sent"]
      /\ Draw(c.src) /\ reboots' = reboots /\ deliveries' = deliveries
  BY DEF SendUnreliable, new
<1>5. DataFrames' = DataFrames \cup {new}
  BY <1>3, <1>4 DEF DataFrames
<1>6. Grows
  BY <1>4, <1>5 DEF Grows
<1>7. OwnAddresses'
  BY <1>2 DEF OwnAddresses
<1>8. FramesOfCalls' /\ SeqsWereTaken(S)' /\ OneFramePerCall'
  <2>1. StaysSent
    BY <1>1, <1>4 DEF StaysSent
  <2>2. \A d \in Calls : Advances(d.src)
    BY <1>1, <1>2, <1>4 DEF Advances, Draw
  <2>3. status'[c] \notin {"unused", "refused"}
    BY <1>1, <1>4
  <2> QED BY <1>2, <1>4, <1>5, <2>1, <2>2, <2>3, NewFrame DEF new
<1>9. SlotsHoldParked'
  <2>1. ASSUME NEW n \in Nodes, NEW i \in PendingSlots, ep[n].pending[i] # Free
        PROVE  status'[CallOf(ep[n].pending[i])] = "parked"
    <3>1. CallOf(ep[n].pending[i]) # c
      BY <1>4, <2>1, UnusedIsNotParked
    <3>2. CallOf(ep[n].pending[i]) \in Calls /\ status[CallOf(ep[n].pending[i])] = "parked"
      BY <2>1, SlotCall
    <3> QED BY <1>1, <1>4, <3>1, <3>2
  <2> QED BY <1>2, <1>6, <2>1, SlotsStay DEF Grows
<1>10. AcksAreEarned'
  BY <1>3, <1>4, <1>6, AcksStay
<1>11. KeysAreDelivered'
  BY <1>2, <1>6, KeysStay
<1>12. AckedUnlessCrashed'
  BY <1>1, <1>4 DEF AckedUnlessCrashed
<1> QED BY <1>7, <1>8, <1>9, <1>10, <1>11, <1>12

\* A refused send only takes a SEQ.
LEMMA DeliverySendBufferFull ==
  ASSUME NEW S \in SUBSET Nodes, SeqsAreEnough, NTypeOK, DeliveryInv(S),
         NEW c \in Calls, SendBufferFull(c)
  PROVE  DeliveryInv(S)'
<1> USE DEF DeliveryInv
<1>1. /\ c.src \in Nodes /\ status \in [Calls -> Statuses]
      /\ draws \in [Nodes -> 0 .. MaxDraws] /\ \A d \in Calls : d.src \in Nodes
  BY Population DEF NTypeOK
<1>2. /\ \A n \in Nodes : /\ ep'[n].my_addr = ep[n].my_addr
                          /\ ep'[n].session = ep[n].session
                          /\ ep'[n].pending = ep[n].pending
                          /\ ep'[n].seen = ep[n].seen
                          /\ n # c.src => ep'[n] = ep[n]
      /\ ep'[c.src].next_seq = (ep[c.src].next_seq + 1) % SEQ_VALUES
  BY <1>1, UnparkedShape DEF SendBufferFull
<1>3. /\ net' = net /\ status[c] = "unused"
      /\ status' = [status EXCEPT ![c] = "refused"]
      /\ Draw(c.src) /\ reboots' = reboots /\ deliveries' = deliveries
  BY DEF SendBufferFull
<1>4. DataFrames' = DataFrames /\ Grows
  BY <1>3 DEF DataFrames, Grows
<1>5. OwnAddresses'
  BY <1>2 DEF OwnAddresses
<1>6. FramesOfCalls' /\ SeqsWereTaken(S)' /\ OneFramePerCall'
  <2>1. StaysSent
    BY <1>1, <1>3 DEF StaysSent
  <2>2. \A d \in Calls : Advances(d.src)
    BY <1>1, <1>2, <1>3 DEF Advances, Draw
  <2> QED BY <1>4, <2>1, <2>2, SameFrames
<1>7. SlotsHoldParked'
  <2>1. ASSUME NEW n \in Nodes, NEW i \in PendingSlots, ep[n].pending[i] # Free
        PROVE  status'[CallOf(ep[n].pending[i])] = "parked"
    <3>1. CallOf(ep[n].pending[i]) # c
      BY <1>3, <2>1, UnusedIsNotParked
    <3>2. CallOf(ep[n].pending[i]) \in Calls /\ status[CallOf(ep[n].pending[i])] = "parked"
      BY <2>1, SlotCall
    <3> QED BY <1>1, <1>3, <3>1, <3>2
  <2> QED BY <1>2, <1>4, <2>1, SlotsStay
<1>8. AcksAreEarned'
  BY <1>3, <1>4, AcksStay
<1>9. KeysAreDelivered'
  BY <1>2, <1>4, KeysStay
<1>10. AckedUnlessCrashed'
  BY <1>1, <1>3 DEF AckedUnlessCrashed
<1> QED BY <1>5, <1>6, <1>7, <1>8, <1>9, <1>10

\* What the session check leaves of seen[] was there before.
LEMMA SessionCheckKeeps ==
  ASSUME NEW e \in T, NEW f \in Frames, NEW j \in SeenSlots,
         CheckSession(e, f).seen[j] # Free
  PROVE  CheckSession(e, f).seen[j] = e.seen[j]
<1>1. f.src \in Nodes /\ f.session \in Sessions /\ f.seq \in Seqs
  BY DEF Frames
<1>2. CheckSession(e, f).seen =
        IF source_session_changed(e.sources, f.src, f.session)
        THEN seen_drop_source(e.seen, f.src) ELSE e.seen
  BY <1>1, CheckSessionType DEF T
<1>3. DOMAIN e.seen = SeenSlots
  BY TableSlots DEF T
<1> QED BY <1>2, <1>3 DEF seen_drop_source

\* The endpoint that received a reliable frame.
LEMMA ReceiveDataShape ==
  ASSUME NTypeOK, NEW n \in Nodes, NEW f \in net, ReceiveData(n, f)
  PROVE  /\ f \in Frames /\ f \in DataFrames
         /\ ep' = [ep EXCEPT ![n] = ep'[n]]
         /\ ep'[n].my_addr = ep[n].my_addr /\ ep'[n].session = ep[n].session
         /\ ep'[n].pending = ep[n].pending
         /\ ep'[n].next_seq = (ep[n].next_seq + 1) % SEQ_VALUES
         /\ ep'[n].sources = note_source(ep[n].sources, f.src, f.session)
         /\ IsDuplicate(ep[n], f) =>
              /\ ep'[n].seen = CheckSession(ep[n], f).seen
              /\ deliveries' = deliveries
         /\ ~IsDuplicate(ep[n], f) =>
              /\ ep'[n].seen = [CheckSession(ep[n], f).seen EXCEPT
                                  ![SeenSlot(take_seq(CheckSession(ep[n], f)))] = seen_key(f)]
              /\ deliveries' = [deliveries EXCEPT ![CallOf(f)] = @ + 1]
         /\ net' = net \cup {emit_ack(ep[n], f)}
<1>1. f \in Frames /\ f.src \in Nodes /\ f.session \in Sessions /\ f.seq \in Seqs
  BY DEF NTypeOK, Frames
<1>2. ep \in [Nodes -> T] /\ ep[n] \in T
  BY DEF NTypeOK, T
<1>3. /\ f.reliable
      /\ rx_result(ep[n], f) \in {"ARC_RX_DUPLICATE", "ARC_RX_DELIVERED"}
      /\ ep' = [ep EXCEPT ![n] = arc_reliable_receive(ep[n], f)]
      /\ net' = net \cup rx_replies(ep[n], f)
      /\ rx_result(ep[n], f) = "ARC_RX_DELIVERED" =>
           deliveries' = [deliveries EXCEPT ![CallOf(f)] = @ + 1]
      /\ rx_result(ep[n], f) # "ARC_RX_DELIVERED" => deliveries' = deliveries
  BY DEF ReceiveData
<1>4. /\ ~f.ack /\ arc_reliable_receive(ep[n], f) = ReceiveReliable(ep[n], f)
      /\ rx_replies(ep[n], f) = {emit_ack(ep[n], f)}
      /\ rx_result(ep[n], f) = "ARC_RX_DELIVERED" <=> ~IsDuplicate(ep[n], f)
  BY <1>3, ReceiveCases
<1>5. ep'[n] = ReceiveReliable(ep[n], f)
  BY <1>2, <1>3, <1>4
<1>6. LET g == ReceiveReliable(ep[n], f)
          h == CheckSession(ep[n], f)
      IN  /\ g.pending = ep[n].pending
          /\ g.my_addr = ep[n].my_addr /\ g.session = ep[n].session
          /\ g.next_seq = (ep[n].next_seq + 1) % SEQ_VALUES
          /\ g.sources = note_source(ep[n].sources, f.src, f.session)
          /\ IsDuplicate(ep[n], f) => g.seen = h.seen
  BY <1>1, <1>2, ReceiveReliableFields DEF T
<1>7. ~IsDuplicate(ep[n], f) =>
        ReceiveReliable(ep[n], f).seen =
          [CheckSession(ep[n], f).seen EXCEPT
             ![SeenSlot(take_seq(CheckSession(ep[n], f)))] = seen_key(f)]
  BY <1>1, <1>2, ReceiveReliableSeen DEF T
<1>8. /\ IsDuplicate(ep[n], f) => deliveries' = deliveries
      /\ ~IsDuplicate(ep[n], f) => deliveries' = [deliveries EXCEPT ![CallOf(f)] = @ + 1]
  BY <1>3, <1>4
<1>9. ep' = [ep EXCEPT ![n] = ep'[n]] /\ net' = net \cup {emit_ack(ep[n], f)}
  BY <1>3, <1>4, <1>5
<1>10. f \in DataFrames
  BY <1>4 DEF DataFrames
<1> QED BY <1>1, <1>5, <1>6, <1>7, <1>8, <1>9, <1>10

\* A frame that is taken for a duplicate was delivered.
LEMMA DuplicateWasDelivered ==
  ASSUME NTypeOK, OneFramePerCall, KeysAreDelivered,
         NEW n \in Nodes, NEW f \in DataFrames, IsDuplicate(ep[n], f)
  PROVE  /\ deliveries[CallOf(f)] > 0
         /\ seen_contains(ep[n].seen, seen_key(f))
<1>1. f \in Frames /\ ep[n] \in T
  BY DEF NTypeOK, DataFrames, T
<1>2. CheckSession(ep[n], f) \in T
  BY <1>1, CheckSessionType DEF T, Frames
<1>3. PICK j \in SeenSlots : /\ CheckSession(ep[n], f).seen[j] # Free
                             /\ CheckSession(ep[n], f).seen[j] = seen_key(f)
  BY <1>2, TableSlots DEF T, IsDuplicate, seen_contains, UsedSlots
<1>4. ep[n].seen[j] = seen_key(f) /\ ep[n].seen[j] # Free
  BY <1>1, <1>3, SessionCheckKeeps
<1>5. PICK g \in DataFrames : /\ seen_key(g) = seen_key(f)
                              /\ deliveries[CallOf(g)] > 0
  BY <1>4 DEF KeysAreDelivered
<1>6. g.src = f.src /\ g.seq = f.seq
  BY <1>5 DEF seen_key
<1>7. g = f
  BY <1>6 DEF OneFramePerCall
<1>8. DOMAIN ep[n].seen = SeenSlots
  BY <1>1, TableSlots DEF T
<1>9. seen_contains(ep[n].seen, seen_key(f))
  BY <1>4, <1>8 DEF seen_contains, UsedSlots
<1> QED BY <1>5, <1>7, <1>9

\* An ACK goes out for a frame that is delivered, or was before.
LEMMA DeliveryReceiveData ==
  ASSUME NEW S \in SUBSET Nodes, SeqsAreEnough, NTypeOK, DeliveryInv(S),
         NEW n \in Nodes, NEW f \in net, ReceiveData(n, f)
  PROVE  DeliveryInv(S)'
<1> USE DEF DeliveryInv
<1> DEFINE e == ep[n]
           h == CheckSession(e, f)
           k == SeenSlot(take_seq(h))
           a == emit_ack(e, f)
<1>1. /\ ep \in [Nodes -> T] /\ e \in T /\ deliveries \in [Calls -> Nat]
      /\ draws \in [Nodes -> 0 .. MaxDraws] /\ \A d \in Calls : d.src \in Nodes
  BY Population DEF NTypeOK, T
<1>2. /\ f \in Frames /\ f \in DataFrames
      /\ ep' = [ep EXCEPT ![n] = ep'[n]]
      /\ ep'[n].my_addr = e.my_addr /\ ep'[n].session = e.session
      /\ ep'[n].pending = e.pending
      /\ ep'[n].next_seq = (e.next_seq + 1) % SEQ_VALUES
      /\ net' = net \cup {a}
  BY ReceiveDataShape
<1>3. /\ IsDuplicate(e, f) => ep'[n].seen = h.seen /\ deliveries' = deliveries
      /\ ~IsDuplicate(e, f) => /\ ep'[n].seen = [h.seen EXCEPT ![k] = seen_key(f)]
                               /\ deliveries' = [deliveries EXCEPT ![CallOf(f)] = @ + 1]
  BY ReceiveDataShape
<1>4. a \in Frames /\ a.ack /\ a.src = e.my_addr /\ a.dst = f.src /\ acked_seq(a) = f.seq
  BY <1>1, <1>2, AckFrame
<1>5. Draw(n) /\ reboots' = reboots /\ status' = status /\ f.dst = n
  BY DEF ReceiveData
<1>6. f.src \in Nodes /\ f.session \in Sessions /\ f.seq \in Seqs
  BY <1>2 DEF Frames
<1>7. h \in T /\ DOMAIN h.seen = SeenSlots
  <2>1. h \in T
    BY <1>1, <1>6, CheckSessionType DEF T
  <2> QED BY <2>1, TableSlots DEF T
<1>8. ASSUME NEW j \in SeenSlots, h.seen[j] # Free PROVE h.seen[j] = e.seen[j]
  BY <1>1, <1>2, <1>8, SessionCheckKeeps
<1>9. CallOf(f) \in Calls
  BY <1>2 DEF FramesOfCalls
<1>10. IsDuplicate(e, f) => deliveries[CallOf(f)] > 0
  BY <1>2, DuplicateWasDelivered
<1> HIDE DEF a, h, k, e
<1>11. \A m \in Nodes : m # n => ep'[m] = ep[m]
  BY <1>1, <1>2
<1>12. DataFrames' = DataFrames
  BY <1>2, <1>4 DEF DataFrames
<1>13. \A c \in Calls : deliveries[c] > 0 => deliveries'[c] > 0
  BY <1>1, <1>3, <1>9
<1>14. deliveries'[CallOf(f)] > 0
  BY <1>1, <1>3, <1>9, <1>10
<1>15. Grows
  BY <1>5, <1>12, <1>13 DEF Grows
<1>16. OwnAddresses'
  BY <1>2, <1>11 DEF OwnAddresses, e
<1>17. FramesOfCalls' /\ SeqsWereTaken(S)' /\ OneFramePerCall'
  <2>1. StaysSent
    BY <1>5 DEF StaysSent
  <2>2. \A d \in Calls : Advances(d.src)
    BY <1>1, <1>2, <1>5, <1>11 DEF Advances, Draw, e
  <2> QED BY <1>12, <2>1, <2>2, SameFrames
<1>18. SlotsHoldParked'
  <2>1. \A m \in Nodes : ep'[m].pending = ep[m].pending
    BY <1>2, <1>11 DEF e
  <2> QED BY <1>5, <1>12, <2>1, SlotsStay DEF SlotsHoldParked
<1>19. AcksAreEarned'
  <2>1. f.src = a.dst /\ f.dst = a.src /\ f.seq = acked_seq(a)
    BY <1>4, <1>5 DEF OwnAddresses, e
  <2> QED BY <1>2, <1>12, <1>14, <1>15, <2>1, AcksStay
<1>20. KeysAreDelivered'
  <2>1. ASSUME NEW j \in SeenSlots, ep'[n].seen[j] # Free
        PROVE  ep'[n].seen[j] = ep[n].seen[j] \/ ep'[n].seen[j] = seen_key(f)
    BY <1>3, <1>7, <1>8, <2>1 DEF e
  <2> QED BY <1>2, <1>5, <1>11, <1>14, <1>15, <2>1, KeysStay
<1>21. AckedUnlessCrashed'
  BY <1>5, <1>13 DEF AckedUnlessCrashed
<1> QED BY <1>16, <1>17, <1>18, <1>19, <1>20, <1>21

\* The endpoint that received an ACK: an entry of pending[] may be gone.
LEMMA ReceiveAckShape ==
  ASSUME NTypeOK, NEW n \in Nodes, NEW f \in net, ReceiveAnAck(n, f)
  PROVE  /\ f \in Frames /\ f.ack
         /\ \A m \in Nodes : /\ ep'[m].my_addr = ep[m].my_addr
                             /\ ep'[m].session = ep[m].session
                             /\ ep'[m].next_seq = ep[m].next_seq
                             /\ ep'[m].seen = ep[m].seen
                             /\ ep'[m].sources = ep[m].sources
                             /\ m # n => ep'[m] = ep[m]
         /\ AckedSlots(ep[n], f) = {} => ep'[n].pending = ep[n].pending
         /\ AckedSlots(ep[n], f) # {} =>
              ep'[n].pending = [ep[n].pending EXCEPT ![AckedSlot(ep[n], f)] = Free]
<1> DEFINE e == ep[n]
           r == ReceiveAck(e, f)
<1>1. ep \in [Nodes -> T] /\ e \in T /\ f \in Frames
  BY DEF NTypeOK, T
<1>2. f.ack /\ ep' = [ep EXCEPT ![n] = r]
  BY ReceiveCases DEF ReceiveAnAck
<1>3. /\ r.my_addr = e.my_addr /\ r.session = e.session /\ r.next_seq = e.next_seq
      /\ r.seen = e.seen /\ r.sources = e.sources
  BY <1>1, ReceiveAckFields DEF T
<1>4. /\ AckedSlots(e, f) = {} => r.pending = e.pending
      /\ AckedSlots(e, f) # {} => r.pending = [e.pending EXCEPT ![AckedSlot(e, f)] = Free]
  BY <1>1 DEF ReceiveAck, T, arc_reliable_t
<1> HIDE DEF r
<1> QED BY <1>1, <1>2, <1>3, <1>4

\* An ACK settles the call whose frame it was earned with.
LEMMA DeliveryReceiveAck ==
  ASSUME NEW S \in SUBSET Nodes, SeqsAreEnough, NTypeOK, DeliveryInv(S),
         NEW n \in Nodes, NEW f \in net, ReceiveAnAck(n, f)
  PROVE  DeliveryInv(S)'
<1> USE DEF DeliveryInv
<1> DEFINE e == ep[n]
           k == AckedSlot(e, f)
           p == e.pending[k]
           c == CallOf(p)
<1>1. ep \in [Nodes -> T] /\ e \in T /\ status \in [Calls -> Statuses]
  BY DEF NTypeOK, T
<1>2. /\ f \in Frames /\ f.ack
      /\ \A m \in Nodes : /\ ep'[m].my_addr = ep[m].my_addr
                          /\ ep'[m].session = ep[m].session
                          /\ ep'[m].next_seq = ep[m].next_seq
                          /\ ep'[m].seen = ep[m].seen
                          /\ m # n => ep'[m] = ep[m]
  BY ReceiveAckShape
<1>3. /\ AckedSlots(e, f) = {} => ep'[n].pending = e.pending
      /\ AckedSlots(e, f) # {} => ep'[n].pending = [e.pending EXCEPT ![k] = Free]
  BY ReceiveAckShape
<1>4. /\ net' = net /\ draws' = draws /\ reboots' = reboots /\ deliveries' = deliveries
      /\ f.dst = n
      /\ AckedSlots(e, f) = {} => status' = status
      /\ AckedSlots(e, f) # {} => status' = [status EXCEPT ![c] = "acked"]
  BY DEF ReceiveAnAck
<1>5. AckedSlots(e, f) # {} =>
        k \in PendingSlots /\ p # Free /\ p.dst = f.src /\ p.seq = acked_seq(f)
  BY <1>1, AckedSlotUsed DEF T
<1>6. DOMAIN e.pending = PendingSlots
  BY SlotsOf
<1> DEFINE g == pending_to_frame(p, n)
<1>7. AckedSlots(e, f) # {} =>
        /\ g \in DataFrames /\ g.src = n /\ g.dst = p.dst /\ g.seq = p.seq
        /\ CallOf(g) = c /\ c \in Calls /\ c.dst = p.dst
  BY <1>5, SlotCall
<1> HIDE DEF g, c, p, k, e
<1>8. DataFrames' = DataFrames /\ Grows
  BY <1>4 DEF DataFrames, Grows
<1>9. OwnAddresses'
  BY <1>2 DEF OwnAddresses
<1>10. FramesOfCalls' /\ SeqsWereTaken(S)' /\ OneFramePerCall'
  <2>1. StaysSent
    BY <1>1, <1>4, <1>7 DEF StaysSent
  <2>2. \A d \in Calls : Advances(d.src)
    BY <1>2, <1>4, Population DEF Advances
  <2> QED BY <1>8, <2>1, <2>2, SameFrames
<1>11. SlotsHoldParked'
  <2>1. ASSUME NEW m \in Nodes, NEW i \in PendingSlots, ep'[m].pending[i] # Free
        PROVE  /\ ep'[m].pending[i] = ep[m].pending[i]
               /\ status'[CallOf(ep[m].pending[i])] = "parked"
    <3>1. ep'[m].pending[i] = ep[m].pending[i]
      BY <1>2, <1>3, <1>5, <1>6, <2>1 DEF e
    <3>2. AckedSlots(e, f) # {} /\ m = n => i # k
      BY <1>3, <1>5, <1>6, <2>1 DEF e
    <3>3. /\ CallOf(ep[m].pending[i]) \in Calls /\ CallOf(ep[m].pending[i]).src = m
          /\ status[CallOf(ep[m].pending[i])] = "parked"
      BY <2>1, <3>1, SlotCall
    <3>4. AckedSlots(e, f) # {} => CallOf(ep[m].pending[i]) # c
      <4>1. CASE m # n
        <5>1. AckedSlots(e, f) # {} => c.src = n
          BY <1>7 DEF FramesOfCalls
        <5> QED BY <3>3, <4>1, <5>1
      <4>2. CASE m = n
        BY <1>5, <2>1, <3>1, <3>2, <4>2 DEF SlotsHoldParked, e, p, c
      <4> QED BY <4>1, <4>2
    <3> QED BY <1>1, <1>4, <3>1, <3>3, <3>4
  <2> QED BY <1>8, <2>1, SlotsStay
<1>12. AcksAreEarned'
  BY <1>4, <1>8, AcksStay
<1>13. KeysAreDelivered'
  BY <1>2, <1>8, KeysStay
<1>14. AckedUnlessCrashed'
  <2>1. AckedSlots(e, f) # {} => deliveries[c] > 0 \/ reboots[c.dst] > 0
    <3>1. SUFFICES ASSUME AckedSlots(e, f) # {}, ~(reboots[c.dst] > 0)
                   PROVE  deliveries[c] > 0
      OBVIOUS
    <3>2. PICK d \in DataFrames :
            d.src = f.dst /\ d.seq = acked_seq(f) /\ deliveries[CallOf(d)] > 0
      BY <1>2, <1>5, <1>7, <3>1 DEF AcksAreEarned
    <3>3. d = g
      BY <1>4, <1>5, <1>7, <3>1, <3>2 DEF OneFramePerCall
    <3> QED BY <1>7, <3>1, <3>2, <3>3
  <2> QED BY <1>1, <1>4, <1>7, <2>1 DEF AckedUnlessCrashed
<1> QED BY <1>9, <1>10, <1>11, <1>12, <1>13, <1>14

\* The endpoint whose timers ran: a slot is kept, sent again or freed.
LEMMA TickShape ==
  ASSUME NTypeOK, NEW n \in Nodes, NEW t \in Clocks, Tick(n, t)
  PROVE  /\ \A m \in Nodes : /\ ep'[m].my_addr = ep[m].my_addr
                             /\ ep'[m].session = ep[m].session
                             /\ ep'[m].next_seq = ep[m].next_seq
                             /\ ep'[m].seen = ep[m].seen
                             /\ ep'[m].sources = ep[m].sources
                             /\ m # n => ep'[m] = ep[m]
         /\ \A i \in PendingSlots :
              ep'[n].pending[i] # Free =>
                   /\ ep[n].pending[i] # Free /\ i \notin FailedSlots(ep[n], t)
                   /\ CallOf(ep'[n].pending[i]) = CallOf(ep[n].pending[i])
                   /\ pending_to_frame(ep'[n].pending[i], n) =
                        pending_to_frame(ep[n].pending[i], n)
<1> DEFINE e == ep[n]
           r == arc_reliable_tick(e, t)
<1>1. ep \in [Nodes -> T] /\ e \in T
  BY DEF NTypeOK, T
<1>2. ep' = [ep EXCEPT ![n] = r]
  BY DEF Tick
<1>3. /\ r.pending = [i \in PendingSlots |-> TickSlot(e.pending[i], t)]
      /\ r.my_addr = e.my_addr /\ r.session = e.session /\ r.next_seq = e.next_seq
      /\ r.seen = e.seen /\ r.sources = e.sources
  BY <1>1, TickFields DEF T
<1> HIDE DEF r
<1>4. ASSUME NEW i \in PendingSlots
      PROVE  LET p == e.pending[i]
                 q == TickSlot(p, t)
             IN  q # Free => /\ p # Free /\ i \notin FailedSlots(e, t)
                             /\ CallOf(q) = CallOf(p)
                             /\ pending_to_frame(q, n) = pending_to_frame(p, n)
  <2> DEFINE p == e.pending[i]
             q == TickSlot(p, t)
             PT == arc_reliable_pending_t(Nodes, Sessions, Payloads)
  <2>1. p \in PT \cup {Free}
    BY SlotsOf
  <2>2. DOMAIN e.pending = PendingSlots
    BY SlotsOf
  <2>3. i \in FailedSlots(e, t) <=> p # Free /\ Expired(p, t) /\ Exhausted(p)
    BY <2>2 DEF FailedSlots, ExpiredSlots, UsedSlots
  <2>4. /\ p = Free => q = Free
        /\ p # Free /\ ~Expired(p, t) => q = p
        /\ p # Free /\ Expired(p, t) /\ Exhausted(p) => q = Free
        /\ p # Free /\ Expired(p, t) /\ ~Exhausted(p)
             => /\ q \in PT
                /\ q.dst = p.dst /\ q.ack = p.ack /\ q.session = p.session
                /\ q.seq = p.seq /\ q.payload = p.payload
    BY <2>1, TickSlotType
  <2> HIDE DEF p, q, PT
  <2> QED BY <2>3, <2>4 DEF CallOf, pending_to_frame, p, q
<1>5. \A i \in PendingSlots : ep'[n].pending[i] = TickSlot(e.pending[i], t)
  BY <1>1, <1>2, <1>3
<1>6. \A m \in Nodes : /\ ep'[m].my_addr = ep[m].my_addr
                       /\ ep'[m].session = ep[m].session
                       /\ ep'[m].next_seq = ep[m].next_seq
                       /\ ep'[m].seen = ep[m].seen
                       /\ ep'[m].sources = ep[m].sources
                       /\ m # n => ep'[m] = ep[m]
  BY <1>1, <1>2, <1>3
<1> QED BY <1>4, <1>5, <1>6

\* The calls that a tick gives up were parked by its node.
LEMMA GivenUpCalls ==
  ASSUME NTypeOK, FramesOfCalls, SlotsHoldParked, NEW n \in Nodes, NEW t,
         NEW c \in CallsIn(n, FailedSlots(ep[n], t))
  PROVE  /\ c \in Calls /\ c.src = n /\ status[c] = "parked"
         /\ \E i \in FailedSlots(ep[n], t) :
              /\ i \in PendingSlots /\ ep[n].pending[i] # Free
              /\ CallOf(ep[n].pending[i]) = c
<1>1. PICK i \in FailedSlots(ep[n], t) : c = CallOf(ep[n].pending[i])
  BY DEF CallsIn
<1>2. i \in PendingSlots /\ ep[n].pending[i] # Free
  BY TickedSlots
<1>3. c \in Calls /\ c.src = n /\ status[c] = "parked"
  BY <1>1, <1>2, SlotCall
<1> QED BY <1>1, <1>2, <1>3

\* A tick sends frames that were sent before.
LEMMA DeliveryTick ==
  ASSUME NEW S \in SUBSET Nodes, SeqsAreEnough, NTypeOK, DeliveryInv(S),
         NEW n \in Nodes, NEW t \in Clocks, Tick(n, t)
  PROVE  DeliveryInv(S)'
<1> USE DEF DeliveryInv
<1>1. /\ \A m \in Nodes : /\ ep'[m].my_addr = ep[m].my_addr
                          /\ ep'[m].session = ep[m].session
                          /\ ep'[m].next_seq = ep[m].next_seq
                          /\ ep'[m].seen = ep[m].seen
                          /\ m # n => ep'[m] = ep[m]
      /\ \A i \in PendingSlots :
           ep'[n].pending[i] # Free =>
             /\ ep[n].pending[i] # Free /\ i \notin FailedSlots(ep[n], t)
             /\ CallOf(ep'[n].pending[i]) = CallOf(ep[n].pending[i])
             /\ pending_to_frame(ep'[n].pending[i], n) =
                  pending_to_frame(ep[n].pending[i], n)
  BY TickShape
<1>2. /\ net' = net \cup {pending_to_frame(ep[n].pending[i], n) :
                            i \in RetriedSlots(ep[n], t)}
      /\ \A c \in Calls : status'[c] = IF c \in CallsIn(n, FailedSlots(ep[n], t))
                                       THEN "failed" ELSE status[c]
      /\ draws' = draws /\ reboots' = reboots /\ deliveries' = deliveries
  BY DEF Tick
<1>3. \A i \in RetriedSlots(ep[n], t) : pending_to_frame(ep[n].pending[i], n) \in net
  BY TickedSlots DEF SlotsHoldParked, DataFrames
<1>4. net' = net
  BY <1>2, <1>3
<1>5. DataFrames' = DataFrames /\ Grows
  BY <1>2, <1>4 DEF DataFrames, Grows
<1>6. OwnAddresses'
  BY <1>1 DEF OwnAddresses
<1>7. FramesOfCalls' /\ SeqsWereTaken(S)' /\ OneFramePerCall'
  <2>1. StaysSent
    BY <1>2 DEF StaysSent
  <2>2. \A d \in Calls : Advances(d.src)
    BY <1>1, <1>2, Population DEF Advances
  <2> QED BY <1>5, <2>1, <2>2, SameFrames
<1>8. SlotsHoldParked'
  <2>1. ASSUME NEW m \in Nodes, NEW i \in PendingSlots, ep'[m].pending[i] # Free
        PROVE  /\ ep[m].pending[i] # Free
               /\ CallOf(ep'[m].pending[i]) = CallOf(ep[m].pending[i])
               /\ pending_to_frame(ep'[m].pending[i], m) = pending_to_frame(ep[m].pending[i], m)
               /\ status'[CallOf(ep[m].pending[i])] = "parked"
    <3>1. /\ ep[m].pending[i] # Free
          /\ CallOf(ep'[m].pending[i]) = CallOf(ep[m].pending[i])
          /\ pending_to_frame(ep'[m].pending[i], m) = pending_to_frame(ep[m].pending[i], m)
          /\ m = n => i \notin FailedSlots(ep[n], t)
      BY <1>1, <2>1
    <3> DEFINE c == CallOf(ep[m].pending[i])
    <3>2. c \in Calls /\ c.src = m /\ status[c] = "parked"
      BY <3>1, SlotCall
    <3>3. ASSUME c \in CallsIn(n, FailedSlots(ep[n], t)) PROVE FALSE
      <4>1. PICK j \in FailedSlots(ep[n], t) :
              /\ j \in PendingSlots /\ ep[n].pending[j] # Free
              /\ CallOf(ep[n].pending[j]) = c /\ c.src = n
        BY <3>3, GivenUpCalls
      <4>2. m = n
        BY <3>2, <4>1
      <4>3. i = j
        BY <3>1, <4>1, <4>2 DEF SlotsHoldParked
      <4> QED BY <3>1, <4>1, <4>2, <4>3
    <3> QED BY <1>2, <3>1, <3>2, <3>3
  <2> QED BY <1>5, <2>1, SlotsStay
<1>9. AcksAreEarned'
  BY <1>4, <1>5, AcksStay
<1>10. KeysAreDelivered'
  BY <1>1, <1>5, KeysStay
<1>11. AckedUnlessCrashed'
  BY <1>2 DEF AckedUnlessCrashed
<1> QED BY <1>6, <1>7, <1>8, <1>9, <1>10, <1>11

\* A node that restarts starts with empty tables.
LEMMA RestartShape ==
  ASSUME NTypeOK, NEW n \in Nodes, Restart(n)
  PROVE  /\ ep'[n].my_addr = n
         /\ \A i \in PendingSlots : ep'[n].pending[i] = Free
         /\ \A j \in SeenSlots : ep'[n].seen[j] = Free
         /\ \A i \in SourcesSlots : ep'[n].sources[i] = Free
         /\ \A m \in Nodes : m # n =>
              ep'[m] = ep[m] /\ draws'[m] = draws[m] /\ reboots'[m] = reboots[m]
         /\ reboots'[n] = reboots[n] + 1
<1>1. ep \in [Nodes -> T]
  BY DEF NTypeOK, T
<1>2. PICK s, q : ep' = [ep EXCEPT ![n] = arc_reliable_init(n, s, q)]
  BY DEF Restart
<1>3. ep'[n] = arc_reliable_init(n, s, q)
  BY <1>1, <1>2
<1>4. /\ ep'[n].my_addr = n
      /\ \A i \in PendingSlots : ep'[n].pending[i] = Free
      /\ \A j \in SeenSlots : ep'[n].seen[j] = Free
      /\ \A i \in SourcesSlots : ep'[n].sources[i] = Free
  BY <1>3 DEF arc_reliable_init, EmptyTable, PendingSlots, SeenSlots, SourcesSlots
<1>5. \A m \in Nodes : m # n => ep'[m] = ep[m]
  BY <1>1, <1>2
<1> QED BY <1>4, <1>5 DEF Restart, NTypeOK

\* A node that sends no calls has nothing to forget.
LEMMA NothingForgotten ==
  ASSUME SendersStay, NTypeOK, FramesOfCalls, SlotsHoldParked,
         NEW n \in Nodes, Restart(n)
  PROVE  /\ \A c \in Calls : c.src # n /\ status'[c] = status[c]
         /\ \A i \in PendingSlots : ep[n].pending[i] = Free
<1>1. \A c \in Calls : c.src # n
  BY DEF SendersStay, Restart
<1>2. \A i \in PendingSlots : ep[n].pending[i] = Free
  BY <1>1, SlotCall
<1>3. UsedSlots(ep[n].pending) = {}
  BY <1>2, SlotsOf DEF UsedSlots
<1>4. CallsIn(n, UsedSlots(ep[n].pending)) = {}
  BY <1>3 DEF CallsIn
<1> QED BY <1>1, <1>2, <1>4 DEF Restart

\* A restart, possibly after an ACK went out.
LEMMA DeliveryRestart ==
  ASSUME NEW S \in SUBSET Nodes, SendersStay, SeqsAreEnough, NTypeOK, DeliveryInv(S),
         NEW n \in Nodes, Restart(n), net \subseteq net',
         \A a \in net' \ net : a.ack /\ a.src = n
  PROVE  DeliveryInv(S)'
<1> USE DEF DeliveryInv
<1>1. /\ ep'[n].my_addr = n
      /\ \A i \in PendingSlots : ep'[n].pending[i] = Free
      /\ \A j \in SeenSlots : ep'[n].seen[j] = Free
      /\ \A m \in Nodes : m # n =>
           ep'[m] = ep[m] /\ draws'[m] = draws[m] /\ reboots'[m] = reboots[m]
      /\ reboots'[n] = reboots[n] + 1
  BY RestartShape
<1>2. \A c \in Calls : c.src # n /\ status'[c] = status[c]
  BY NothingForgotten
<1>3. deliveries' = deliveries
  BY DEF Restart
<1>4. DataFrames' = DataFrames
  BY DEF DataFrames
<1>5. reboots'[n] > 0 /\ \A m \in Nodes : reboots[m] > 0 => reboots'[m] > 0
  <2>1. reboots[n] \in Nat
    BY Population DEF NTypeOK
  <2> QED BY <1>1, <2>1
<1>6. Grows
  BY <1>3, <1>4, <1>5 DEF Grows
<1>7. OwnAddresses'
  BY <1>1 DEF OwnAddresses
<1>8. FramesOfCalls' /\ SeqsWereTaken(S)' /\ OneFramePerCall'
  <2>1. StaysSent
    BY <1>2 DEF StaysSent
  <2>2. \A d \in Calls : Advances(d.src)
    BY <1>1, <1>2, Population DEF Advances
  <2> QED BY <1>4, <2>1, <2>2, SameFrames
<1>9. SlotsHoldParked'
  <2>1. ASSUME NEW m \in Nodes, NEW i \in PendingSlots, ep'[m].pending[i] # Free
        PROVE  /\ ep'[m].pending[i] = ep[m].pending[i]
               /\ status'[CallOf(ep[m].pending[i])] = "parked"
    <3>1. ep'[m].pending[i] = ep[m].pending[i]
      BY <1>1, <2>1
    <3>2. CallOf(ep[m].pending[i]) \in Calls /\ status[CallOf(ep[m].pending[i])] = "parked"
      BY <2>1, <3>1, SlotCall
    <3> QED BY <1>2, <3>1, <3>2
  <2> QED BY <1>4, <2>1, SlotsStay
<1>10. AcksAreEarned'
  BY <1>5, <1>6, AcksStay
<1>11. KeysAreDelivered'
  BY <1>1, <1>6, KeysStay
<1>12. AckedUnlessCrashed'
  BY <1>2, <1>3, <1>5, Population DEF AckedUnlessCrashed
<1> QED BY <1>7, <1>8, <1>9, <1>10, <1>11, <1>12

\* DeliveryInv holds initially.
LEMMA DeliveryInit ==
  ASSUME NEW S, NInit PROVE DeliveryInv(S)
<1>1. PICK s \in [Nodes -> FirstSessions], q \in [Nodes -> FirstSeqs] :
        ep = [n \in Nodes |-> arc_reliable_init(n, s[n], q[n])]
  BY DEF NInit
<1>2. \A n \in Nodes : /\ ep[n].my_addr = n
                       /\ \A i \in PendingSlots : ep[n].pending[i] = Free
                       /\ \A j \in SeenSlots : ep[n].seen[j] = Free
  BY <1>1 DEF arc_reliable_init, EmptyTable, PendingSlots, SeenSlots
<1>3. net = {} /\ DataFrames = {} /\ \A c \in Calls : status[c] = "unused"
  BY DEF NInit, DataFrames
<1>4. OwnAddresses /\ FramesOfCalls /\ SeqsWereTaken(S) /\ OneFramePerCall /\ AcksAreEarned
  BY <1>2, <1>3 DEF OwnAddresses, FramesOfCalls, SeqsWereTaken, OneFramePerCall, AcksAreEarned
<1>5. SlotsHoldParked /\ KeysAreDelivered /\ AckedUnlessCrashed
  BY <1>2, <1>3 DEF SlotsHoldParked, KeysAreDelivered, AckedUnlessCrashed
<1> QED BY <1>4, <1>5 DEF DeliveryInv

\* The steps of the C endpoints of S.
StepOf(S) ==
  \/ \E c \in Calls :
       /\ c.src \in S
       /\ \/ \E t \in Clocks : SendReliable(c, t)
          \/ \E flagged \in BOOLEAN : SendUnreliable(c, flagged)
          \/ SendBufferFull(c)
  \/ \E n \in S :
       \/ \E f \in net : ReceiveData(n, f) \/ ReceiveAnAck(n, f) \/ CrashInReceive(n, f)
       \/ \E t \in Clocks : Tick(n, t)
       \/ Reboot(n)

\* Without Python nodes they are all there are.
LEMMA StepOfNodes == [NNext]_nvars => StepOf(Nodes) \/ UNCHANGED nvars
BY Population DEF NNext, StepOf

\* Every step keeps DeliveryInv.
LEMMA DeliveryStep ==
  ASSUME NEW S \in SUBSET Nodes, SendersStay, SeqsAreEnough, NTypeOK, DeliveryInv(S),
         StepOf(S) \/ UNCHANGED nvars
  PROVE  DeliveryInv(S)'
<1>1. ASSUME NEW n \in Nodes, Reboot(n) PROVE DeliveryInv(S)'
  BY <1>1, DeliveryRestart DEF Reboot
<1>2. ASSUME NEW n \in Nodes, NEW f \in net, CrashInReceive(n, f) PROVE DeliveryInv(S)'
  <2>1. ep[n] \in T /\ f \in Frames /\ ep[n].my_addr = n
    BY DEF NTypeOK, T, DeliveryInv, OwnAddresses
  <2>2. rx_replies(ep[n], f) \subseteq {emit_ack(ep[n], f)}
    BY DEF rx_replies
  <2>3. emit_ack(ep[n], f).ack /\ emit_ack(ep[n], f).src = n
    BY <2>1, AckFrame
  <2>4. Restart(n) /\ net' = net \cup rx_replies(ep[n], f)
    BY <1>2 DEF CrashInReceive
  <2>5. net \subseteq net' /\ \A a \in net' \ net : a.ack /\ a.src = n
    BY <2>2, <2>3, <2>4
  <2> QED BY <2>4, <2>5, DeliveryRestart
<1>3. CASE UNCHANGED nvars
  BY <1>3 DEF nvars, DeliveryInv, OwnAddresses, FramesOfCalls, SeqsWereTaken, OneFramePerCall,
     SlotsHoldParked, AcksAreEarned, KeysAreDelivered, AckedUnlessCrashed, DataFrames
<1> QED BY <1>1, <1>2, <1>3, DeliverySendReliable, DeliverySendUnreliable,
           DeliverySendBufferFull, DeliveryReceiveData, DeliveryReceiveAck,
           DeliveryTick DEF StepOf

\* Under SendersStay and SeqsAreEnough, a call that its sender saw acknowledged
\* was handed to deliver_fn, or its receiver restarted: whatever the network
\* loses, copies, delays and reorders, and however often the sender retries.
THEOREM AcknowledgedIsDelivered ==
  ASSUME SendersStay, SeqsAreEnough
  PROVE  NSpec => []AckedUnlessCrashed
<1>1. NInit => NTypeOK /\ DeliveryInv(Nodes)
  BY NTypeInit, DeliveryInit
<1>2. NTypeOK /\ DeliveryInv(Nodes) /\ [NNext]_nvars => (NTypeOK /\ DeliveryInv(Nodes))'
  BY NTypeStep, DeliveryStep, StepOfNodes
<1>3. DeliveryInv(Nodes) => AckedUnlessCrashed
  BY DEF DeliveryInv
<1> QED BY <1>1, <1>2, <1>3, PTL DEF NSpec

----------------------------------------------------------------------------
(* At most one delivery per incarnation of the receiver.                   *)

\* seen_contains, slot by slot.
LEMMA SeenContains ==
  ASSUME NTypeOK, NEW n \in Nodes, NEW k
  PROVE  seen_contains(ep[n].seen, k) <=>
           \E j \in SeenSlots : ep[n].seen[j] # Free /\ ep[n].seen[j] = k
<1>1. ep[n] \in T
  BY DEF NTypeOK, T
<1>2. DOMAIN ep[n].seen = SeenSlots
  BY <1>1, TableSlots DEF T
<1> QED BY <1>2 DEF seen_contains, UsedSlots

\* A call that was not sent was not delivered.
LEMMA UnusedIsNotDelivered ==
  ASSUME NTypeOK, FramesOfCalls, DeliveredHaveFrames,
         NEW c \in Calls, status[c] = "unused"
  PROVE  deliveries[c] = 0
<1>1. deliveries[c] \in Nat
  BY DEF NTypeOK
<1>2. ~(deliveries[c] > 0)
  BY DEF DeliveredHaveFrames, FramesOfCalls
<1> QED BY <1>1, <1>2

\* Steps that leave the receivers' tables alone, and may send a new call.
LEMMA OnceStays ==
  ASSUME NEW S \in SUBSET Nodes, NTypeOK, OnceInv(S), NTypeOK',
         \A n \in Nodes : /\ ep'[n].session = ep[n].session
                          /\ ep'[n].seen = ep[n].seen
                          /\ ep'[n].sources = ep[n].sources,
         deliveries' = deliveries, reboots' = reboots,
         DataFrames \subseteq DataFrames',
         \A f \in DataFrames' \ DataFrames : deliveries[CallOf(f)] = 0
  PROVE  OnceInv(S)'
<1> USE DEF OnceInv
<1>1. SourcesAreCurrent'
  <2>1. ASSUME NEW n \in Nodes, NEW i \in SourcesSlots, ep[n].sources[i] # Free
        PROVE  ep[n].sources[i].src \in Nodes
    BY <2>1, Population DEF SourcesAreCurrent
  <2> QED BY <2>1 DEF SourcesAreCurrent
<1>2. KeysAreDistinct'
  BY DEF KeysAreDistinct
<1>3. ASSUME NEW f \in DataFrames', f.dst \in S
      PROVE  \/ deliveries'[CallOf(f)] <= reboots'[f.dst]
             \/ /\ deliveries'[CallOf(f)] = reboots'[f.dst] + 1
                /\ seen_contains(ep'[f.dst].seen, seen_key(f))
  <2>1. f.dst \in Nodes
    BY DEF NTypeOK, DataFrames, Frames
  <2>2. CASE f \in DataFrames
    BY <1>3, <2>1, <2>2 DEF DeliveredKeysAreSeen
  <2>3. CASE f \notin DataFrames
    <3>1. reboots[f.dst] \in Nat
      BY <2>1, Population DEF NTypeOK
    <3> QED BY <2>3, <3>1
  <2> QED BY <2>2, <2>3
<1>4. DeliveredKeysAreSeen(S)'
  BY <1>3 DEF DeliveredKeysAreSeen
<1>5. DeliveredHaveFrames'
  BY DEF DeliveredHaveFrames
<1> QED BY <1>1, <1>2, <1>4, <1>5

\* Sending leaves the receiving sides alone.
LEMMA OnceSend ==
  ASSUME NEW S \in SUBSET Nodes, NTypeOK, NTypeOK', FramesOfCalls, OnceInv(S), NEW c \in Calls,
         \/ \E t \in Clocks : SendReliable(c, t)
         \/ \E flagged \in BOOLEAN : SendUnreliable(c, flagged)
         \/ SendBufferFull(c)
  PROVE  OnceInv(S)'
<1>1. c.src \in Nodes /\ ep \in [Nodes -> T]
  BY Population DEF NTypeOK, T
<1>2. status[c] = "unused" /\ deliveries' = deliveries /\ reboots' = reboots
  BY DEF SendReliable, SendUnreliable, SendBufferFull
<1>3. \A n \in Nodes : /\ ep'[n].session = ep[n].session
                       /\ ep'[n].seen = ep[n].seen
                       /\ ep'[n].sources = ep[n].sources
  <2>1. ASSUME NEW t \in Clocks, SendReliable(c, t)
        PROVE  /\ ep' = [ep EXCEPT ![c.src] = ep'[c.src]]
               /\ ep'[c.src].session = ep[c.src].session
               /\ ep'[c.src].seen = ep[c.src].seen
               /\ ep'[c.src].sources = ep[c.src].sources
    BY <2>1, ParkedShape
  <2>2. CASE \E t \in Clocks : SendReliable(c, t)
    BY <1>1, <2>1, <2>2
  <2>3. CASE \/ \E flagged \in BOOLEAN : SendUnreliable(c, flagged)
             \/ SendBufferFull(c)
    <3>1. ep' = [ep EXCEPT ![c.src] = take_seq(ep[c.src])]
      BY <2>3 DEF SendUnreliable, SendBufferFull
    <3> QED BY <1>1, <3>1, UnparkedShape
  <2> QED BY <2>2, <2>3
<1>4. \E rel \in BOOLEAN : \E t : net' \subseteq net \cup {SentFrame(c, rel, t)} /\ net \subseteq net'
  BY DEF SendReliable, SendUnreliable, SendBufferFull
<1>5. DataFrames \subseteq DataFrames' /\ \A f \in DataFrames' \ DataFrames : CallOf(f) = c
  <2>1. \A rel \in BOOLEAN : \A t : CallOf(SentFrame(c, rel, t)) = c
    BY SentFrameIs DEF CallOf
  <2> QED BY <1>4, <2>1 DEF DataFrames
<1>6. deliveries[c] = 0
  BY <1>2, UnusedIsNotDelivered DEF OnceInv
<1> QED BY <1>2, <1>3, <1>5, <1>6, OnceStays

\* An ACK leaves the receiving sides alone.
LEMMA OnceReceiveAck ==
  ASSUME NEW S \in SUBSET Nodes, NTypeOK, NTypeOK', OnceInv(S),
         NEW n \in Nodes, NEW f \in net, ReceiveAnAck(n, f)
  PROVE  OnceInv(S)'
<1>1. \A m \in Nodes : /\ ep'[m].session = ep[m].session
                       /\ ep'[m].seen = ep[m].seen
                       /\ ep'[m].sources = ep[m].sources
  BY ReceiveAckShape
<1>2. deliveries' = deliveries /\ reboots' = reboots /\ DataFrames' = DataFrames
  BY DEF ReceiveAnAck, DataFrames
<1> QED BY <1>1, <1>2, OnceStays

\* A tick leaves the receiving sides alone.
LEMMA OnceTick ==
  ASSUME NEW S \in SUBSET Nodes, NTypeOK, NTypeOK', SlotsHoldParked, OnceInv(S),
         NEW n \in Nodes, NEW t \in Clocks, Tick(n, t)
  PROVE  OnceInv(S)'
<1>1. \A m \in Nodes : /\ ep'[m].session = ep[m].session
                       /\ ep'[m].seen = ep[m].seen
                       /\ ep'[m].sources = ep[m].sources
  BY TickShape
<1>2. \A i \in RetriedSlots(ep[n], t) : pending_to_frame(ep[n].pending[i], n) \in net
  BY TickedSlots DEF SlotsHoldParked, DataFrames
<1>3. net' = net
  BY <1>2 DEF Tick
<1>4. deliveries' = deliveries /\ reboots' = reboots /\ DataFrames' = DataFrames
  BY <1>3 DEF Tick, DataFrames
<1> QED BY <1>1, <1>4, OnceStays

\* The receiver that restarts may deliver every call once more.
LEMMA OnceRestart ==
  ASSUME NEW S \in SUBSET Nodes, SendersStay, NTypeOK, NTypeOK', FramesOfCalls, OnceInv(S),
         NEW n \in Nodes, Restart(n), DataFrames' = DataFrames
  PROVE  OnceInv(S)'
<1> USE DEF OnceInv
<1>1. /\ \A j \in SeenSlots : ep'[n].seen[j] = Free
      /\ \A i \in SourcesSlots : ep'[n].sources[i] = Free
      /\ \A m \in Nodes : m # n => ep'[m] = ep[m] /\ reboots'[m] = reboots[m]
      /\ reboots'[n] = reboots[n] + 1
  BY RestartShape
<1>2. deliveries' = deliveries /\ \A c \in Calls : c.src # n /\ c.src \in Nodes
  BY Population DEF Restart, SendersStay
<1>3. SourcesAreCurrent'
  <2> SUFFICES ASSUME NEW m \in Nodes, NEW i \in SourcesSlots, ep'[m].sources[i] # Free
               PROVE  /\ \E c \in Calls : c.src = ep'[m].sources[i].src
                      /\ ep'[m].sources[i].session = ep'[ep'[m].sources[i].src].session
    BY DEF SourcesAreCurrent
  <2>1. m # n /\ ep'[m] = ep[m]
    BY <1>1
  <2>2. PICK c \in Calls : /\ c.src = ep[m].sources[i].src
                           /\ ep[m].sources[i].session = ep[c.src].session
    BY <2>1 DEF SourcesAreCurrent
  <2>3. ep'[c.src] = ep[c.src]
    BY <1>1, <1>2
  <2> QED BY <2>1, <2>2, <2>3
<1>4. KeysAreDistinct'
  BY <1>1 DEF KeysAreDistinct
<1>5. ASSUME NEW f \in DataFrames, f.dst \in S
      PROVE  \/ deliveries'[CallOf(f)] <= reboots'[f.dst]
             \/ /\ deliveries'[CallOf(f)] = reboots'[f.dst] + 1
                /\ seen_contains(ep'[f.dst].seen, seen_key(f))
  <2>1. \/ deliveries[CallOf(f)] <= reboots[f.dst]
        \/ /\ deliveries[CallOf(f)] = reboots[f.dst] + 1
           /\ seen_contains(ep[f.dst].seen, seen_key(f))
    BY <1>5 DEF DeliveredKeysAreSeen
  <2>2. f.dst \in Nodes
    BY DEF NTypeOK, DataFrames, Frames
  <2>3. CASE f.dst # n
    BY <1>1, <1>2, <2>1, <2>2, <2>3
  <2>4. CASE f.dst = n
    <3>1. reboots[n] \in Nat /\ deliveries[CallOf(f)] \in Nat
      BY Population DEF NTypeOK, FramesOfCalls
    <3> QED BY <1>1, <1>2, <2>1, <2>4, <3>1
  <2> QED BY <2>3, <2>4
<1>6. DeliveredKeysAreSeen(S)'
  BY <1>2, <1>5 DEF DeliveredKeysAreSeen
<1>7. DeliveredHaveFrames'
  BY <1>2 DEF DeliveredHaveFrames
<1> QED BY <1>3, <1>4, <1>6, <1>7

\* No frame of a call makes its receiver forget keys: it carries the session
\* that sources[] has for its sender.
LEMMA SessionIsKnown ==
  ASSUME NTypeOK, FramesOfCalls, SourcesAreCurrent,
         NEW n \in Nodes, NEW f \in DataFrames
  PROVE  /\ CheckSession(ep[n], f).seen = ep[n].seen
         /\ \A i \in SourcesSlots :
              LET s == note_source(ep[n].sources, f.src, f.session)[i]
              IN  s = ep[n].sources[i] \/ s = [src |-> f.src, session |-> f.session]
<1> DEFINE o == ep[n].sources
<1>1. f \in Frames /\ ep[n] \in T /\ f.src \in Nodes /\ f.session \in Sessions /\ f.seq \in Seqs
  BY DEF NTypeOK, DataFrames, T, Frames
<1>2. f.session = ep[f.src].session
  BY DEF FramesOfCalls
<1>3. o \in [SourcesSlots -> arc_reliable_source_t(Nodes, Sessions) \cup {Free}]
  BY <1>1, EndpointFields DEF T
<1>4. CheckSession(ep[n], f).seen =
        IF source_session_changed(o, f.src, f.session)
        THEN seen_drop_source(ep[n].seen, f.src) ELSE ep[n].seen
  BY <1>1, CheckSessionType DEF T
<1>5. \A k \in SourcesSlots : o[k] # Free /\ o[k].src = f.src => o[k].session = f.session
  BY <1>2 DEF SourcesAreCurrent
<1> DEFINE ns == note_source(o, f.src, f.session)
           ch == source_session_changed(o, f.src, f.session)
           new == [src |-> f.src, session |-> f.session]
<1> HIDE DEF o
<1>6. \/ \E k \in SourcesSlots :
           /\ o[k] # Free /\ o[k].src = f.src
           /\ ns = [o EXCEPT ![k] = new]
           /\ ch <=> o[k].session # f.session
      \/ \E k \in SourcesSlots : ns = [o EXCEPT ![k] = new] /\ ~ch
      \/ ns = o /\ ~ch
  BY <1>3, NoteSourceCases
<1> HIDE DEF ns, ch, new
<1>7. ~ch
  BY <1>5, <1>6
<1>8. \A i \in SourcesSlots : ns[i] = o[i] \/ ns[i] = new
  BY <1>3, <1>6
<1> QED BY <1>4, <1>7, <1>8 DEF o, ns, ch, new

\* seen[] has a free slot for the key of a call that is not in it.
LEMMA RoomForKey ==
  ASSUME NEW S \in SUBSET Nodes, SeenIsEnough(S), NTypeOK, DeliveryInv(S), KeysAreDistinct,
         NEW n \in Nodes, n \in S, NEW f \in DataFrames, f.dst = n,
         ~seen_contains(ep[n].seen, seen_key(f))
  PROVE  \E j \in SeenSlots : ep[n].seen[j] = Free
<1> SUFFICES ASSUME \A j \in SeenSlots : ep[n].seen[j] # Free PROVE FALSE
  OBVIOUS
<1> USE DEF DeliveryInv
<1> DEFINE Of(j) == CHOOSE g \in DataFrames : g.dst = n /\ seen_key(g) = ep[n].seen[j]
           Others == CallsTo(n) \ {CallOf(f)}
           F == [j \in SeenSlots |-> CallOf(Of(j))]
<1>1. ASSUME NEW j \in SeenSlots
      PROVE  Of(j) \in DataFrames /\ Of(j).dst = n /\ seen_key(Of(j)) = ep[n].seen[j]
  BY DEF KeysAreDelivered
<1> HIDE DEF Of
<1>2. ASSUME NEW g \in DataFrames, g.dst = n PROVE CallOf(g) \in CallsTo(n)
  BY <1>2 DEF FramesOfCalls, CallsTo
<1>3. ASSUME NEW j \in SeenSlots PROVE F[j] \in Others
  <2>1. Of(j) # f
    BY <1>1, SeenContains
  <2>2. CallOf(Of(j)) # CallOf(f)
    BY <1>1, <2>1 DEF OneFramePerCall
  <2> QED BY <1>1, <1>2, <2>2
<1>4. ASSUME NEW i \in SeenSlots, NEW j \in SeenSlots, F[i] = F[j] PROVE i = j
  <2>1. Of(i) = Of(j)
    BY <1>1, <1>4 DEF OneFramePerCall
  <2> QED BY <1>1, <2>1 DEF KeysAreDistinct
<1>5. F \in Injection(SeenSlots, Others)
  BY <1>3, <1>4 DEF Injection, IsInjective
<1>6. IsFiniteSet(CallsTo(n)) /\ Cardinality(CallsTo(n)) <= ARC_RELIABLE_SEEN_MAX
  BY DEF SeenIsEnough
<1>7. CallOf(f) \in CallsTo(n)
  BY <1>2
<1>8. /\ IsFiniteSet(Others)
      /\ Cardinality(Others) = Cardinality(CallsTo(n)) - 1
  BY <1>6, <1>7, FS_RemoveElement
<1>9. IsFiniteSet(SeenSlots) /\ Cardinality(SeenSlots) = ARC_RELIABLE_SEEN_MAX
  <2>1. ARC_RELIABLE_SEEN_MAX \in Nat
    BY TableSizes
  <2> QED BY <2>1, FS_Interval DEF SeenSlots
<1> HIDE DEF F, Others
<1>10. Cardinality(SeenSlots) <= Cardinality(Others)
  BY <1>5, <1>8, <1>9, FS_Injection
<1> QED BY <1>6, <1>8, <1>9, <1>10, FS_CardinalityType, TableSizes

\* A copy of a delivered frame finds its key in seen[].
LEMMA OnceReceiveData ==
  ASSUME NEW S \in SUBSET Nodes, SeenIsEnough(S), NTypeOK, NTypeOK', DeliveryInv(S), OnceInv(S),
         NEW n \in Nodes, n \in S, NEW f \in net, ReceiveData(n, f)
  PROVE  OnceInv(S)'
<1> USE DEF DeliveryInv, OnceInv
<1> DEFINE e == ep[n]
           h == CheckSession(e, f)
           k == SeenSlot(take_seq(h))
           c == CallOf(f)
<1>1. /\ ep \in [Nodes -> T] /\ e \in T /\ deliveries \in [Calls -> Nat]
      /\ \A m \in Nodes : reboots[m] \in Nat
  BY Population DEF NTypeOK, T
<1>2. /\ f \in Frames /\ f \in DataFrames
      /\ ep' = [ep EXCEPT ![n] = ep'[n]]
      /\ ep'[n].session = e.session
      /\ ep'[n].sources = note_source(e.sources, f.src, f.session)
      /\ net' = net \cup {emit_ack(e, f)}
  BY ReceiveDataShape
<1>3. /\ IsDuplicate(e, f) => ep'[n].seen = h.seen /\ deliveries' = deliveries
      /\ ~IsDuplicate(e, f) => /\ ep'[n].seen = [h.seen EXCEPT ![k] = seen_key(f)]
                               /\ deliveries' = [deliveries EXCEPT ![c] = @ + 1]
  BY ReceiveDataShape
<1>4. reboots' = reboots /\ f.dst = n
  BY DEF ReceiveData
<1>5. /\ h.seen = e.seen
      /\ \A i \in SourcesSlots :
           \/ ep'[n].sources[i] = e.sources[i]
           \/ ep'[n].sources[i] = [src |-> f.src, session |-> f.session]
  BY <1>2, SessionIsKnown
<1>6. /\ c \in Calls /\ f.src = c.src /\ f.dst = c.dst /\ f.src \in Nodes
      /\ f.session = ep[f.src].session
  BY <1>2, Population DEF FramesOfCalls
<1>7. IsDuplicate(e, f) <=> seen_contains(e.seen, seen_key(f))
  BY <1>5 DEF IsDuplicate
<1>8. k \in SeenSlots /\ (FreeSlots(h.seen) # {} => h.seen[k] = Free)
  <2>1. f.src \in Nodes /\ f.session \in Sessions /\ f.seq \in Seqs
    BY <1>2 DEF Frames
  <2>2. h \in T
    BY <1>1, <2>1, CheckSessionType DEF T
  <2> HIDE DEF h
  <2>3. take_seq(h) \in T /\ take_seq(h).seen = h.seen
    BY <2>2, TakeSeq DEF T
  <2> QED BY <2>3, SeenSlotFound DEF T
<1>9. DOMAIN e.seen = SeenSlots
  BY <1>1, TableSlots DEF T
<1>10. ~IsDuplicate(e, f) => e.seen[k] = Free
  <2>1. ~IsDuplicate(e, f) => \E j \in SeenSlots : e.seen[j] = Free
    BY <1>2, <1>4, <1>7, RoomForKey
  <2> QED BY <1>5, <1>8, <1>9, <2>1 DEF FreeSlots
<1>11. emit_ack(e, f).ack
  BY <1>1, <1>2, AckFrame
<1>12. DataFrames' = DataFrames
  BY <1>2, <1>11 DEF DataFrames
<1>13. seen_key(f) # Free
  <2>1. seen_key(f) \in arc_reliable_seen_t(Nodes, Sessions)
    BY <1>2 DEF seen_key, arc_reliable_seen_t, Frames
  <2> QED BY <2>1, FreeIsNoKey
<1> HIDE DEF k, h, e, c
<1>14. \A m \in Nodes : (m # n => ep'[m] = ep[m]) /\ ep'[m].session = ep[m].session
  BY <1>1, <1>2 DEF e
<1>15. SourcesAreCurrent'
  <2> SUFFICES ASSUME NEW m \in Nodes, NEW i \in SourcesSlots, ep'[m].sources[i] # Free
               PROVE  \E d \in Calls : /\ d.src = ep'[m].sources[i].src
                                       /\ ep'[m].sources[i].session = ep'[d.src].session
    BY DEF SourcesAreCurrent
  <2>1. CASE ep'[m].sources[i] = ep[m].sources[i]
    <3>1. PICK d \in Calls : /\ d.src = ep[m].sources[i].src
                             /\ ep[m].sources[i].session = ep[d.src].session
      BY <2>1 DEF SourcesAreCurrent
    <3>2. d.src \in Nodes
      BY Population
    <3> QED BY <1>14, <2>1, <3>1, <3>2
  <2>2. CASE ep'[m].sources[i] = [src |-> f.src, session |-> f.session]
    BY <1>6, <1>14, <2>2
  <2> QED BY <1>5, <1>14, <2>1, <2>2 DEF e
<1>16. KeysAreDistinct'
  <2>1. ASSUME NEW m \in Nodes, NEW i \in SeenSlots, NEW j \in SeenSlots,
               ep'[m].seen[i] # Free, ep'[m].seen[i] = ep'[m].seen[j]
        PROVE  i = j
    <3>1. CASE m # n \/ IsDuplicate(e, f)
      BY <1>3, <1>5, <1>14, <2>1, <3>1 DEF KeysAreDistinct, e
    <3>2. CASE m = n /\ ~IsDuplicate(e, f)
      <4>1. /\ ep'[n].seen[k] = seen_key(f)
            /\ \A x \in SeenSlots : x # k => ep'[n].seen[x] = e.seen[x]
        BY <1>3, <1>5, <1>8, <1>9, <3>2
      <4>2. \A x \in SeenSlots : e.seen[x] # seen_key(f)
        BY <1>7, <1>13, <3>2, SeenContains DEF e
      <4> QED BY <2>1, <3>2, <4>1, <4>2 DEF KeysAreDistinct, e
    <3> QED BY <3>1, <3>2
  <2> QED BY <2>1 DEF KeysAreDistinct
<1>17. ASSUME NEW g \in DataFrames, g.dst \in S
       PROVE  \/ deliveries'[CallOf(g)] <= reboots'[g.dst]
              \/ /\ deliveries'[CallOf(g)] = reboots'[g.dst] + 1
                 /\ seen_contains(ep'[g.dst].seen, seen_key(g))
  <2>1. \/ deliveries[CallOf(g)] <= reboots[g.dst]
        \/ /\ deliveries[CallOf(g)] = reboots[g.dst] + 1
           /\ seen_contains(ep[g.dst].seen, seen_key(g))
    BY <1>17 DEF DeliveredKeysAreSeen
  <2>2. CallOf(g) \in Calls /\ g.dst \in Nodes
    BY Population DEF FramesOfCalls
  <2>3. CASE IsDuplicate(e, f)
    BY <1>3, <1>4, <1>5, <1>14, <2>1, <2>2, <2>3 DEF e
  <2>4. CASE ~IsDuplicate(e, f)
    <3>1. ASSUME NEW x, seen_contains(ep[g.dst].seen, x)
          PROVE  seen_contains(ep'[g.dst].seen, x)
      <4>1. PICK j \in SeenSlots : ep[g.dst].seen[j] # Free /\ ep[g.dst].seen[j] = x
        BY <2>2, <3>1, SeenContains
      <4>2. ep'[g.dst].seen[j] = ep[g.dst].seen[j]
        BY <1>3, <1>5, <1>9, <1>10, <1>14, <2>2, <2>4, <4>1 DEF e
      <4>3. DOMAIN ep'[g.dst].seen = SeenSlots
        BY <2>2, TableSlots DEF NTypeOK
      <4> QED BY <4>1, <4>2, <4>3 DEF seen_contains, UsedSlots
    <3>2. CASE g # f
      <4>1. CallOf(g) # c
        BY <1>2, <3>2 DEF OneFramePerCall, c
      <4>2. deliveries'[CallOf(g)] = deliveries[CallOf(g)]
        BY <1>1, <1>3, <2>2, <2>4, <4>1
      <4> QED BY <1>4, <2>1, <3>1, <4>2
    <3>3. CASE g = f
      <4>1. deliveries[c] <= reboots[n]
        BY <1>4, <1>7, <2>1, <2>4, <3>3 DEF c, e
      <4>2. deliveries'[c] = deliveries[c] + 1 /\ deliveries[c] \in Nat
        BY <1>1, <1>3, <1>6, <2>4
      <4>3. ep'[n].seen[k] = seen_key(f) /\ DOMAIN ep'[n].seen = SeenSlots
        BY <1>3, <1>5, <1>8, <1>9, <2>4
      <4>4. seen_contains(ep'[n].seen, seen_key(f))
        BY <1>8, <1>13, <4>3 DEF seen_contains, UsedSlots
      <4>5. deliveries'[c] <= reboots[n] \/ deliveries'[c] = reboots[n] + 1
        BY <1>1, <4>1, <4>2
      <4> QED BY <1>4, <3>3, <4>4, <4>5 DEF c
    <3> QED BY <3>2, <3>3
  <2> QED BY <2>3, <2>4
<1>18. DeliveredHaveFrames'
  <2>1. \A d \in Calls : deliveries'[d] > 0 => \E g \in DataFrames : CallOf(g) = d
    BY <1>1, <1>2, <1>3 DEF DeliveredHaveFrames, c
  <2> QED BY <1>12, <2>1 DEF DeliveredHaveFrames
<1>19. DeliveredKeysAreSeen(S)'
  BY <1>12, <1>17 DEF DeliveredKeysAreSeen
<1> QED BY <1>15, <1>16, <1>18, <1>19

\* OnceInv holds initially.
LEMMA OnceInit ==
  ASSUME NEW S, NInit PROVE OnceInv(S)
<1>1. PICK s \in [Nodes -> FirstSessions], q \in [Nodes -> FirstSeqs] :
        ep = [n \in Nodes |-> arc_reliable_init(n, s[n], q[n])]
  BY DEF NInit
<1>2. \A n \in Nodes : /\ \A i \in SourcesSlots : ep[n].sources[i] = Free
                       /\ \A j \in SeenSlots : ep[n].seen[j] = Free
  BY <1>1 DEF arc_reliable_init, EmptyTable, SourcesSlots, SeenSlots
<1>3. DataFrames = {} /\ \A c \in Calls : deliveries[c] = 0
  BY DEF NInit, DataFrames
<1>4. SourcesAreCurrent /\ KeysAreDistinct
  BY <1>2 DEF SourcesAreCurrent, KeysAreDistinct
<1>5. DeliveredKeysAreSeen(S) /\ DeliveredHaveFrames
  BY <1>3 DEF DeliveredKeysAreSeen, DeliveredHaveFrames
<1> QED BY <1>4, <1>5 DEF OnceInv

\* Every step keeps OnceInv.
LEMMA OnceStep ==
  ASSUME NEW S \in SUBSET Nodes, SendersStay, SeenIsEnough(S),
         NTypeOK, NTypeOK', DeliveryInv(S), OnceInv(S), StepOf(S) \/ UNCHANGED nvars
  PROVE  OnceInv(S)'
<1> USE DEF DeliveryInv
<1>1. ASSUME NEW n \in Nodes, Reboot(n) PROVE OnceInv(S)'
  <2>1. DataFrames' = DataFrames
    BY <1>1 DEF Reboot, DataFrames
  <2> QED BY <1>1, <2>1, OnceRestart DEF Reboot
<1>2. ASSUME NEW n \in Nodes, NEW f \in net, CrashInReceive(n, f) PROVE OnceInv(S)'
  <2>1. ep[n] \in T /\ f \in Frames
    BY DEF NTypeOK, T
  <2>2. rx_replies(ep[n], f) \subseteq {emit_ack(ep[n], f)} /\ emit_ack(ep[n], f).ack
    BY <2>1, AckFrame DEF rx_replies
  <2>3. DataFrames' = DataFrames
    BY <1>2, <2>2 DEF CrashInReceive, DataFrames
  <2> QED BY <1>2, <2>3, OnceRestart DEF CrashInReceive
<1>3. ASSUME NEW n \in Nodes, NEW f \in net, ReceiveAnAck(n, f) PROVE OnceInv(S)'
  BY <1>3, OnceReceiveAck
<1>4. ASSUME NEW n \in S, NEW f \in net, ReceiveData(n, f) PROVE OnceInv(S)'
  BY <1>4, OnceReceiveData
<1>5. ASSUME NEW n \in Nodes, NEW t \in Clocks, Tick(n, t) PROVE OnceInv(S)'
  BY <1>5, OnceTick
<1>6. CASE UNCHANGED nvars
  BY <1>6 DEF nvars, OnceInv, SourcesAreCurrent, KeysAreDistinct,
     DeliveredKeysAreSeen, DeliveredHaveFrames, DataFrames
<1> QED BY <1>1, <1>2, <1>3, <1>4, <1>5, <1>6, OnceSend DEF StepOf

\* The invariant of the two theorems below.
ServiceInv(S) == NTypeOK /\ DeliveryInv(S) /\ OnceInv(S)

\* The invariant is one of the specification.
LEMMA ServiceInvHolds ==
  ASSUME SendersStay, SeqsAreEnough, SeenIsEnough(Nodes)
  PROVE  NSpec => []ServiceInv(Nodes)
<1>1. NInit => ServiceInv(Nodes)
  BY NTypeInit, DeliveryInit, OnceInit DEF ServiceInv
<1>2. ServiceInv(Nodes) /\ [NNext]_nvars => ServiceInv(Nodes)'
  <2> SUFFICES ASSUME ServiceInv(Nodes), [NNext]_nvars PROVE ServiceInv(Nodes)'
    OBVIOUS
  <2>1. NTypeOK'
    BY NTypeStep DEF ServiceInv
  <2>2. DeliveryInv(Nodes)'
    BY DeliveryStep, StepOfNodes DEF ServiceInv
  <2>3. OnceInv(Nodes)'
    BY <2>1, OnceStep, StepOfNodes DEF ServiceInv
  <2> QED BY <2>1, <2>2, <2>3 DEF ServiceInv
<1> QED BY <1>1, <1>2, PTL DEF NSpec

\* If also seen[] has room for the calls to a node, deliver_fn runs at most once
\* for a call in each incarnation of its receiver.
THEOREM DeliveredAtMostOnce ==
  ASSUME SendersStay, SeqsAreEnough, SeenIsEnough(Nodes)
  PROVE  NSpec => []OncePerIncarnation
<1>1. ServiceInv(Nodes) => OncePerIncarnation
  <2> SUFFICES ASSUME ServiceInv(Nodes), NEW c \in Calls
               PROVE  deliveries[c] <= 1 + reboots[c.dst]
    BY DEF OncePerIncarnation
  <2>1. deliveries[c] \in Nat /\ reboots[c.dst] \in Nat
    BY Population DEF ServiceInv, NTypeOK
  <2>2. CASE deliveries[c] > 0
    <3>1. PICK f \in DataFrames : CallOf(f) = c
      BY <2>2 DEF ServiceInv, OnceInv, DeliveredHaveFrames
    <3>2. f.dst = c.dst
      BY <3>1 DEF ServiceInv, DeliveryInv, FramesOfCalls
    <3>3. deliveries[c] <= reboots[c.dst] \/ deliveries[c] = reboots[c.dst] + 1
      BY <3>1, <3>2, Population DEF ServiceInv, OnceInv, DeliveredKeysAreSeen
    <3> QED BY <2>1, <3>3
  <2> QED BY <2>1, <2>2
<1> QED BY <1>1, ServiceInvHolds, PTL

----------------------------------------------------------------------------
(* The endpoints and the network implement ReliableService.                *)

\* A send is a call submitted to the service.
LEMMA ServiceSend ==
  ASSUME NEW c \in Calls,
         \/ \E t \in Clocks : SendReliable(c, t)
         \/ \E flagged \in BOOLEAN : SendUnreliable(c, flagged)
         \/ SendBufferFull(c)
  PROVE  Service!Submit(c)
BY DEF SendReliable, SendUnreliable, SendBufferFull, Service!Submit

\* A frame that is delivered is one of a call that was sent and that the present
\* incarnation of the receiver has not delivered.
LEMMA ServiceReceiveData ==
  ASSUME NEW S \in SUBSET Nodes, ServiceInv(S), NEW n \in S, NEW f \in net, ReceiveData(n, f)
  PROVE  (\E c \in Calls : Service!Deliver(c)) \/ UNCHANGED Service!svars
<1> USE DEF ServiceInv, DeliveryInv, OnceInv
<1> DEFINE c == CallOf(f)
<1>1. f \in DataFrames /\ f.dst = n /\ reboots' = reboots /\ status' = status
  BY ReceiveDataShape DEF ReceiveData
<1>2. CASE IsDuplicate(ep[n], f)
  <2>1. deliveries' = deliveries
    BY <1>2, ReceiveDataShape
  <2> QED BY <1>1, <2>1 DEF Service!svars
<1>3. CASE ~IsDuplicate(ep[n], f)
  <2>1. deliveries' = [deliveries EXCEPT ![c] = @ + 1]
    BY <1>3, ReceiveDataShape
  <2>2. c \in Calls /\ c.dst = n /\ status[c] \notin {"unused", "refused"}
    BY <1>1 DEF FramesOfCalls
  <2>3. CheckSession(ep[n], f).seen = ep[n].seen
    BY <1>1, SessionIsKnown
  <2>4. ~seen_contains(ep[n].seen, seen_key(f))
    BY <1>3, <2>3 DEF IsDuplicate
  <2>5. deliveries[c] <= reboots[n]
    BY <1>1, <2>4 DEF DeliveredKeysAreSeen
  <2>6. deliveries[c] \in Nat /\ reboots[n] \in Nat
    BY <2>2, Population DEF NTypeOK
  <2>7. status[c] = "acked" => reboots[n] > 0
    BY <2>2, <2>5, <2>6 DEF AckedUnlessCrashed
  <2> HIDE DEF c
  <2>8. Service!Deliver(c)
    BY <1>1, <2>1, <2>2, <2>5, <2>7 DEF Service!Deliver
  <2> QED BY <2>2, <2>8
<1> QED BY <1>2, <1>3

\* A call that is confirmed was parked.
LEMMA ServiceReceiveAck ==
  ASSUME NEW S \in SUBSET Nodes, SeqsAreEnough, ServiceInv(S),
         NEW n \in Nodes, NEW f \in net, ReceiveAnAck(n, f)
  PROVE  (\E c \in Calls : Service!Confirm(c)) \/ UNCHANGED Service!svars
<1> USE DEF ServiceInv, DeliveryInv
<1>1. deliveries' = deliveries /\ reboots' = reboots
  BY DEF ReceiveAnAck
<1>2. CASE AckedSlots(ep[n], f) = {}
  BY <1>1, <1>2 DEF ReceiveAnAck, Service!svars
<1>3. CASE AckedSlots(ep[n], f) # {}
  <2> DEFINE p == ep[n].pending[AckedSlot(ep[n], f)]
             c == CallOf(p)
  <2>1. ep[n] \in T /\ status \in [Calls -> Statuses]
    BY DEF NTypeOK, T
  <2>2. AckedSlot(ep[n], f) \in PendingSlots /\ p # Free
    BY <1>3, <2>1, AckedSlotUsed DEF T
  <2>3. c \in Calls /\ status[c] = "parked"
    BY <2>2, SlotCall
  <2>4. status' = [status EXCEPT ![c] = "acked"]
    BY <1>3 DEF ReceiveAnAck
  <2>5. AckedUnlessCrashed'
    BY DeliveryReceiveAck
  <2> HIDE DEF c
  <2>6. deliveries[c] > 0 \/ reboots[c.dst] > 0
    BY <1>1, <2>1, <2>3, <2>4, <2>5 DEF AckedUnlessCrashed
  <2>7. Service!Confirm(c)
    BY <1>1, <2>3, <2>4, <2>6 DEF Service!Confirm
  <2> QED BY <2>3, <2>7
<1> QED BY <1>2, <1>3

\* A tick gives up calls, as the service may.
LEMMA ServiceTick ==
  ASSUME NEW S \in SUBSET Nodes, ServiceInv(S), NEW n \in Nodes, NEW t \in Clocks, Tick(n, t)
  PROVE  \E D \in SUBSET Calls : Service!GiveUp(D)
<1> DEFINE D == CallsIn(n, FailedSlots(ep[n], t))
<1>1. \A c \in D : c \in Calls /\ status[c] = "parked"
  BY GivenUpCalls DEF ServiceInv, DeliveryInv
<1>2. /\ status' = [c \in Calls |-> IF c \in D THEN "failed" ELSE status[c]]
      /\ deliveries' = deliveries /\ reboots' = reboots
  BY DEF Tick
<1> HIDE DEF D
<1>3. D \in SUBSET Calls
  BY <1>1
<1>4. Service!GiveUp(D)
  BY <1>1, <1>2 DEF Service!GiveUp
<1> QED BY <1>3, <1>4

\* A restart makes the service forget the calls of its node.
LEMMA ServiceRestart ==
  ASSUME NEW S \in SUBSET Nodes, SendersStay, ServiceInv(S), NEW n \in Nodes, Restart(n)
  PROVE  Service!Restart(n)
<1>1. \A c \in Calls : c.src # n /\ status'[c] = status[c]
  BY NothingForgotten DEF ServiceInv, DeliveryInv
<1>2. status' = [c \in Calls |-> status'[c]]
  BY DEF Restart
<1>3. status' = [c \in Calls |-> IF c.src = n /\ status[c] = "parked"
                                 THEN "forgotten" ELSE status[c]]
  BY <1>1, <1>2
<1> QED BY <1>3 DEF Restart, Service!Restart

\* Every step of a C endpoint is one of the service or changes nothing it shows.
LEMMA ServiceStep ==
  ASSUME NEW S \in SUBSET Nodes, SendersStay, SeqsAreEnough, ServiceInv(S),
         StepOf(S) \/ UNCHANGED nvars
  PROVE  [Service!SNext]_(Service!svars)
<1>1. ASSUME NEW n \in S, Reboot(n) \/ \E f \in net : CrashInReceive(n, f)
      PROVE  Service!SNext
  BY <1>1, ServiceRestart DEF Reboot, CrashInReceive, Service!SNext
<1>2. ASSUME NEW n \in S, NEW f \in net, ReceiveData(n, f) \/ ReceiveAnAck(n, f)
      PROVE  Service!SNext \/ UNCHANGED Service!svars
  BY <1>2, ServiceReceiveData, ServiceReceiveAck DEF Service!SNext
<1>3. ASSUME NEW n \in S, NEW t \in Clocks, Tick(n, t) PROVE Service!SNext
  BY <1>3, ServiceTick DEF Service!SNext
<1>4. CASE UNCHANGED nvars
  BY <1>4 DEF nvars, Service!svars
<1>5. ASSUME NEW c \in Calls,
             \/ \E t \in Clocks : SendReliable(c, t)
             \/ \E flagged \in BOOLEAN : SendUnreliable(c, flagged)
             \/ SendBufferFull(c)
      PROVE  Service!SNext
  BY <1>5, ServiceSend DEF Service!SNext
<1> QED BY <1>1, <1>2, <1>3, <1>4, <1>5 DEF StepOf

\* Under the same hypotheses the system is a refinement of ReliableService: each
\* call of an endpoint's functions is a step of the service or changes nothing
\* that an application can see.
THEOREM NetworkImplementsService ==
  ASSUME SendersStay, SeqsAreEnough, SeenIsEnough(Nodes)
  PROVE  NSpec => ImplementsService
<1>1. NInit => Service!SInit
  BY DEF NInit, Service!SInit
<1>2. ServiceInv(Nodes) /\ [NNext]_nvars => [Service!SNext]_(Service!svars)
  BY ServiceStep, StepOfNodes
<1> QED BY <1>1, <1>2, ServiceInvHolds, PTL DEF NSpec, ImplementsService, Service!SSpec

----------------------------------------------------------------------------
(* Python endpoints among them: MixedNetwork.  What was said of the C      *)
(* nodes holds for S = CNodes, and the following of the Python nodes.      *)

\* ep[n] of a Python node is what it was created with: its session, no entries.
PyTypes ==
  /\ py \in [PyNodes -> PyT]
  /\ \A n \in PyNodes : /\ py[n].my_addr = n /\ py[n].session = ep[n].session
                        /\ \A i \in PendingSlots : ep[n].pending[i] = Free

PySeqsWereTaken ==
  \A f \in DataFrames :
    f.src \in PyNodes => TakenBefore(f.seq, py[f.src].next_seq, draws[f.src])

\* The dict has frames that were sent, of calls that are parked.
DictHoldsParked ==
  \A n \in PyNodes : \A i \in DOMAIN py[n].pending :
    LET f == py[n].pending[i].frame
    IN  f \in DataFrames /\ f.src = n /\ status[CallOf(f)] = "parked"

\* A key in _seen is that of a frame that was delivered.
PyKeysAreDelivered ==
  \A n \in PyNodes : \A k \in py[n].seen :
    \E f \in DataFrames : f.dst = n /\ Py!seen_key(f) = k /\ deliveries[CallOf(f)] > 0

PyDeliveryInv == PySeqsWereTaken /\ DictHoldsParked /\ PyKeysAreDelivered

\* _source_sessions has the present session of the senders of keys in _seen.
PySourcesAreCurrent ==
  \A n \in PyNodes :
    /\ \A s \in DOMAIN py[n].source_sessions :
         (\E c \in Calls : c.src = s) /\ py[n].source_sessions[s] = ep[s].session
    /\ \A k \in py[n].seen : k[1] \in DOMAIN py[n].source_sessions

\* A call that its receiver may not deliver again has its key in _seen.
PyDeliveredKeysAreSeen ==
  \A f \in DataFrames : f.dst \in PyNodes =>
    \/ deliveries[CallOf(f)] <= reboots[f.dst]
    \/ /\ deliveries[CallOf(f)] = reboots[f.dst] + 1
       /\ Py!seen_key(f) \in py[f.dst].seen

PyOnceInv == PySourcesAreCurrent /\ PyDeliveredKeysAreSeen

----------------------------------------------------------------------------
(* What the functions of reliable.py do to an endpoint.                    *)

\* What send, ACKs and tick leave alone.
SameRest(x, y) ==
  /\ y.my_addr = x.my_addr /\ y.session = x.session
  /\ y.seen = x.seen /\ y.source_sessions = x.source_sessions

\* The fields of a Python endpoint.
LEMMA PyFields ==
  ASSUME NEW x \in PyT
  PROVE  /\ x.my_addr \in Nodes /\ x.session \in Sessions /\ x.next_seq \in Seqs
         /\ x.pending \in Seq(PyPendingT) /\ x.seen \in SUBSET (Nodes \X Sessions \X Seqs)
         /\ x.source_sessions \in UNION {[A -> Sessions] : A \in SUBSET Nodes}
BY DEF PyT

\* _take_seq advances next_seq.
LEMMA PyTakeSeq ==
  ASSUME NEW x \in PyT, NEW y, y = Py!take_seq(x)
  PROVE  /\ y \in PyT /\ SameRest(x, y) /\ y.pending = x.pending
         /\ y.next_seq = (x.next_seq + 1) % SEQ_VALUES
<1>1. x.next_seq \in Seqs /\ (x.next_seq + 1) % SEQ_VALUES \in Seqs
  BY PyFields, NextSeq
<1>2. Py!SEQ_VALUES = SEQ_VALUES
  BY DEF Py!SEQ_VALUES, SEQ_VALUES
<1>3. y = [x EXCEPT !.next_seq = (x.next_seq + 1) % SEQ_VALUES]
  BY <1>2 DEF Py!take_seq
<1> QED BY <1>1, <1>3 DEF PyT, SameRest

\* The dict changes within its type.
LEMMA PyNewPending ==
  ASSUME NEW x \in PyT, NEW q \in Seq(PyPendingT), NEW y, y = [x EXCEPT !.pending = q]
  PROVE  y \in PyT /\ y.pending = q /\ y.next_seq = x.next_seq /\ SameRest(x, y)
BY DEF PyT, SameRest

\* Frame f is put into the dict, behind the others or in the place of the entry
\* with its key.
LEMMA PyPark ==
  ASSUME NEW x \in PyT, NEW f \in Frames, NEW y, y = Py!Park(x, f)
  PROVE  /\ y \in PyT /\ y.next_seq = x.next_seq /\ SameRest(x, y)
         /\ \A i \in DOMAIN y.pending :
              \/ i \in DOMAIN x.pending /\ y.pending[i] = x.pending[i]
              \/ y.pending[i].frame = f
<1>1. PICK p : p = [frame |-> f, due |-> 1, retries |-> 0]
  OBVIOUS
<1>2. p \in PyPendingT /\ p.frame = f
  BY <1>1, Timers DEF PyPendingT
<1>3. PICK q : q = IF Py!Has(x, Py!pending_key(f))
                   THEN [i \in DOMAIN x.pending |->
                           IF Py!pending_key(x.pending[i].frame) = Py!pending_key(f)
                           THEN p ELSE x.pending[i]]
                   ELSE Append(x.pending, p)
  OBVIOUS
<1>4. x.pending \in Seq(PyPendingT) /\ Len(x.pending) \in Nat /\ DOMAIN x.pending = 1 .. Len(x.pending)
  BY PyFields
<1>5. /\ q \in Seq(PyPendingT)
      /\ \A i \in DOMAIN q : (i \in DOMAIN x.pending /\ q[i] = x.pending[i]) \/ q[i] = p
  <2>1. CASE ~Py!Has(x, Py!pending_key(f))
    BY <1>2, <1>3, <1>4, <2>1
  <2>2. CASE Py!Has(x, Py!pending_key(f))
    <3>1. q = [i \in 1 .. Len(x.pending) |->
                 IF Py!pending_key(x.pending[i].frame) = Py!pending_key(f)
                 THEN p ELSE x.pending[i]]
      BY <1>3, <1>4, <2>2
    <3>2. \A i \in 1 .. Len(x.pending) : x.pending[i] \in PyPendingT
      BY <1>4
    <3>3. q \in [1 .. Len(x.pending) -> PyPendingT]
      BY <1>2, <3>1, <3>2
    <3>4. q \in Seq(PyPendingT)
      BY <1>4, <3>3
    <3> QED BY <1>4, <3>1, <3>4
  <2> QED BY <2>1, <2>2
<1>6. y = [x EXCEPT !.pending = q]
  BY <1>1, <1>3 DEF Py!Park, Py!Updated
<1>7. y \in PyT /\ y.pending = q /\ y.next_seq = x.next_seq /\ SameRest(x, y)
  BY <1>5, <1>6, PyNewPending
<1> QED BY <1>2, <1>5, <1>7

\* An element of a sequence is taken out; the others stay.
LEMMA TakenOut ==
  ASSUME NEW A, NEW s \in Seq(A), NEW k \in DOMAIN s, NEW t, t = Py!RemoveAt(s, k)
  PROVE  /\ t \in Seq(A)
         /\ \A j \in DOMAIN t : \E i \in DOMAIN s : t[j] = s[i]
         /\ \A i \in DOMAIN s \ {k} : \E j \in DOMAIN t : t[j] = s[i]
<1>1. Len(s) \in Nat /\ k \in 1 .. Len(s) /\ DOMAIN s = 1 .. Len(s)
  OBVIOUS
<1>2. PICK u : u = SubSeq(s, 1, k - 1)
  OBVIOUS
<1>3. PICK v : v = SubSeq(s, k + 1, Len(s))
  OBVIOUS
<1>4. u \in Seq(A) /\ Len(u) = k - 1 /\ \A j \in 1 .. k - 1 : u[j] = s[j]
  BY <1>1, <1>2, SubSeqProperties
<1>5. v \in Seq(A) /\ Len(v) = Len(s) - k /\ \A j \in 1 .. Len(s) - k : v[j] = s[k + j]
  BY <1>1, <1>3, SubSeqProperties
<1>6. t = u \o v
  BY <1>2, <1>3 DEF Py!RemoveAt
<1>7. t \in Seq(A) /\ DOMAIN t = 1 .. Len(s) - 1
  <2>1. t \in Seq(A) /\ Len(t) = Len(u) + Len(v)
    BY <1>4, <1>5, <1>6
  <2>2. Len(t) = Len(s) - 1
    BY <1>1, <1>4, <1>5, <2>1
  <2> QED BY <2>1, <2>2
<1>8. \A j \in 1 .. k - 1 : t[j] = s[j]
  BY <1>1, <1>4, <1>5, <1>6
<1>9. ASSUME NEW j \in k .. Len(s) - 1 PROVE t[j] = s[j + 1]
  <2>1. t[j] = v[j - (k - 1)]
    BY <1>1, <1>4, <1>5, <1>6
  <2>2. j - (k - 1) \in 1 .. Len(s) - k /\ k + (j - (k - 1)) = j + 1
    BY <1>1
  <2> QED BY <1>5, <2>1, <2>2
<1>10. ASSUME NEW j \in DOMAIN t PROVE \E i \in DOMAIN s : t[j] = s[i]
  <2>1. CASE j < k
    BY <1>1, <1>7, <1>8, <2>1
  <2>2. CASE ~(j < k)
    <3>1. j \in k .. Len(s) - 1 /\ j + 1 \in DOMAIN s
      BY <1>1, <1>7, <2>2
    <3> QED BY <1>9, <3>1
  <2> QED BY <2>1, <2>2
<1>11. ASSUME NEW i \in DOMAIN s \ {k} PROVE \E j \in DOMAIN t : t[j] = s[i]
  <2>1. CASE i < k
    <3>1. i \in 1 .. k - 1 /\ i \in DOMAIN t
      BY <1>1, <1>7, <2>1
    <3> QED BY <1>8, <3>1
  <2>2. CASE ~(i < k)
    <3>1. i - 1 \in k .. Len(s) - 1 /\ i - 1 \in DOMAIN t /\ (i - 1) + 1 = i
      BY <1>1, <1>7, <2>2
    <3> QED BY <1>9, <3>1
  <2> QED BY <2>1, <2>2
<1> QED BY <1>7, <1>10, <1>11

\* An ACK takes out the entry with its key, if there is one.
LEMMA PyHandleAck ==
  ASSUME NEW x \in PyT, NEW f \in Frames, NEW y, y = Py!handle_ack(x, f)
  PROVE  /\ y \in PyT /\ y.next_seq = x.next_seq /\ SameRest(x, y)
         /\ \A j \in DOMAIN y.pending : \E i \in DOMAIN x.pending : y.pending[j] = x.pending[i]
         /\ \/ y = x
            \/ \E k \in DOMAIN x.pending :
                 /\ x.pending[k].frame.dst = f.src /\ x.pending[k].frame.seq = acked_seq(f)
                 /\ \A i \in DOMAIN x.pending \ {k} :
                      \E j \in DOMAIN y.pending : y.pending[j] = x.pending[i]
<1>1. CASE y = x
  BY <1>1 DEF SameRest
<1>2. CASE y # x
  <2>1. PICK key : key = <<f.src, x.session, acked_seq(f)>>
    OBVIOUS
  <2>2. y = Py!Pop(x, key)
    BY <1>2, <2>1 DEF Py!handle_ack, acked_seq
  <2>3. Py!Has(x, key)
    BY <1>2, <2>2 DEF Py!Pop
  <2>4. PICK k : k = Py!Position(x, key)
    OBVIOUS
  <2>5. k \in DOMAIN x.pending /\ Py!pending_key(x.pending[k].frame) = key
    BY <2>3, <2>4 DEF Py!Has, Py!Position
  <2>6. x.pending[k].frame.dst = f.src /\ x.pending[k].frame.seq = acked_seq(f)
    BY <2>1, <2>5 DEF Py!pending_key
  <2>7. PICK q : q = Py!RemoveAt(x.pending, k)
    OBVIOUS
  <2>8. x.pending \in Seq(PyPendingT)
    BY PyFields
  <2>9. /\ q \in Seq(PyPendingT)
        /\ \A j \in DOMAIN q : \E i \in DOMAIN x.pending : q[j] = x.pending[i]
        /\ \A i \in DOMAIN x.pending \ {k} : \E j \in DOMAIN q : q[j] = x.pending[i]
    BY <2>5, <2>7, <2>8, TakenOut
  <2>10. y = [x EXCEPT !.pending = q]
    BY <2>2, <2>3, <2>4, <2>7 DEF Py!Pop
  <2>11. y \in PyT /\ y.pending = q /\ y.next_seq = x.next_seq /\ SameRest(x, y)
    BY <2>9, <2>10, PyNewPending
  <2> QED BY <2>5, <2>6, <2>9, <2>11
<1> QED BY <1>1, <1>2

\* f goes through w and leaves out the elements with an index in K.
LeavesOut(f, n, K, w) ==
  f = [i \in 0 .. n |-> IF i = 0 THEN <<>>
                        ELSE IF i \in K THEN f[i - 1] ELSE Append(f[i - 1], w[i])]

\* There is such a function ...
LEMMA LoopIsDefined ==
  ASSUME NEW n \in Nat, NEW K, NEW w
  PROVE  \E f : LeavesOut(f, n, K, w)
<1> DEFINE Bad == {m \in 0 .. n : ~\E f : LeavesOut(f, m, K, w)}
<1>1. \E f : LeavesOut(f, 0, K, w)
  <2>1. LeavesOut([i \in 0 .. 0 |-> <<>>], 0, K, w)
    BY DEF LeavesOut
  <2> QED BY <2>1
<1>2. ASSUME NEW m \in Nat, NEW f, LeavesOut(f, m, K, w)
      PROVE  \E g : LeavesOut(g, m + 1, K, w)
  <2>1. PICK x : x = IF m + 1 \in K THEN f[m] ELSE Append(f[m], w[m + 1])
    OBVIOUS
  <2>2. PICK g : g = [i \in 0 .. m + 1 |-> IF i = m + 1 THEN x ELSE f[i]]
    OBVIOUS
  <2>3. \A i \in 0 .. m : f[i] = IF i = 0 THEN <<>> ELSE IF i \in K THEN f[i - 1]
                                                   ELSE Append(f[i - 1], w[i])
    BY <1>2 DEF LeavesOut
  <2>4. \A i \in 0 .. m : g[i] = f[i]
    BY <2>2
  <2>5. g[m + 1] = x
    BY <2>2
  <2>6. ASSUME NEW i \in 0 .. m + 1
        PROVE  g[i] = IF i = 0 THEN <<>> ELSE IF i \in K THEN g[i - 1]
                                         ELSE Append(g[i - 1], w[i])
    <3>1. CASE i = m + 1
      <4>1. i # 0 /\ i - 1 = m /\ g[i - 1] = f[m]
        BY <2>4, <3>1
      <4> QED BY <2>1, <2>5, <3>1, <4>1
    <3>2. CASE i = 0
      BY <2>3, <2>4, <3>2
    <3>3. CASE i # m + 1 /\ i # 0
      <4>1. i \in 0 .. m /\ i - 1 \in 0 .. m
        BY <3>3
      <4> QED BY <2>3, <2>4, <3>3, <4>1
    <3> QED BY <3>1, <3>2, <3>3
  <2>7. LeavesOut(g, m + 1, K, w)
    BY <2>2, <2>6 DEF LeavesOut
  <2> QED BY <2>7
<1>3. Bad = {}
  <2> SUFFICES ASSUME Bad # {} PROVE FALSE
    OBVIOUS
  <2>1. n + 1 \in Nat /\ Bad \in SUBSET (0 .. (n + 1) - 1)
    OBVIOUS
  <2> HIDE DEF Bad
  <2>2. PICK b : b = FirstSlot(Bad)
    OBVIOUS
  <2>3. b \in Bad /\ \A j \in Bad : b <= j
    BY <2>1, <2>2, FirstSlotIsMin
  <2>4. b \in 0 .. n /\ ~\E f : LeavesOut(f, b, K, w)
    BY <2>3 DEF Bad
  <2>5. b # 0
    BY <1>1, <2>4
  <2>6. b - 1 \in 0 .. n /\ b - 1 \in Nat /\ (b - 1) + 1 = b /\ ~(b <= b - 1)
    BY <2>4, <2>5
  <2>7. b - 1 \notin Bad
    BY <2>3, <2>6
  <2>8. \E f : LeavesOut(f, b - 1, K, w)
    BY <2>6, <2>7 DEF Bad
  <2>9. \E f : LeavesOut(f, (b - 1) + 1, K, w)
    BY <1>2, <2>6, <2>8
  <2> QED BY <2>4, <2>6, <2>9
<1> QED BY <1>3

\* ... and what it leaves is a sequence of elements of w.
LEMMA LoopLeaves ==
  ASSUME NEW n \in Nat, NEW K, NEW w, NEW A, \A i \in 1 .. n : w[i] \in A,
         NEW f, LeavesOut(f, n, K, w)
  PROVE  f[n] \in Seq(A)
<1> DEFINE Bad == {m \in 0 .. n : f[m] \notin Seq(A)}
<1>1. \A i \in 0 .. n : f[i] = IF i = 0 THEN <<>> ELSE IF i \in K THEN f[i - 1]
                                                 ELSE Append(f[i - 1], w[i])
  BY DEF LeavesOut
<1>2. Bad = {}
  <2> SUFFICES ASSUME Bad # {} PROVE FALSE
    OBVIOUS
  <2>1. n + 1 \in Nat /\ Bad \in SUBSET (0 .. (n + 1) - 1)
    OBVIOUS
  <2> HIDE DEF Bad
  <2>2. PICK b : b = FirstSlot(Bad)
    OBVIOUS
  <2>3. b \in Bad /\ \A j \in Bad : b <= j
    BY <2>1, <2>2, FirstSlotIsMin
  <2>4. b \in 0 .. n /\ f[b] \notin Seq(A)
    BY <2>3 DEF Bad
  <2>5. b # 0
    <3>1. <<>> \in Seq(A)
      OBVIOUS
    <3> QED BY <1>1, <2>4, <3>1
  <2>6. b - 1 \in 0 .. n /\ b \in 1 .. n /\ ~(b <= b - 1)
    BY <2>4, <2>5
  <2>7. f[b - 1] \in Seq(A)
    BY <2>3, <2>6 DEF Bad
  <2>8. w[b] \in A
    BY <2>6
  <2>9. PICK s \in Seq(A) : s = f[b - 1]
    BY <2>7
  <2>10. Append(s, w[b]) \in Seq(A)
    BY <2>8
  <2> QED BY <1>1, <2>4, <2>5, <2>9, <2>10
<1> QED BY <1>2

\* A tick leaves no other frames in the dict than there were.
LEMMA PyTickLeaves ==
  ASSUME NEW x \in PyT, NEW Q, NEW y, y = Py!tick(x, Q)
  PROVE  /\ y \in PyT /\ y.next_seq = x.next_seq /\ SameRest(x, y)
         /\ \A j \in DOMAIN y.pending :
              \E i \in DOMAIN x.pending : y.pending[j].frame = x.pending[i].frame
<1> DEFINE Due(p)   == Py!pending_key(p.frame) \in Q
           Again(p) == IF Due(p) THEN [p EXCEPT !.retries = @ + 1, !.due = 1] ELSE p
           n == Len(x.pending)
           K == {i \in 1 .. n : Due(x.pending[i]) /\ x.pending[i].retries >= max_retries}
           w == [i \in 1 .. n |-> IF i \in K THEN x.pending[i] ELSE Again(x.pending[i])]
           A == {p \in PyPendingT : \E i \in 1 .. n : p.frame = x.pending[i].frame}
           Rest(r) == [i \in 0 .. n |->
                         IF i = 0 THEN <<>>
                         ELSE IF Due(x.pending[i]) /\ x.pending[i].retries >= max_retries
                              THEN r[i - 1] ELSE Append(r[i - 1], Again(x.pending[i]))]
           rest == CHOOSE r : r = Rest(r)
<1>1. n \in Nat /\ x.pending \in Seq(PyPendingT) /\ DOMAIN x.pending = 1 .. n
  BY PyFields
<1>2. y = [x EXCEPT !.pending = rest[n]]
  BY DEF Py!tick, Py!Exhausted
<1>3. ASSUME NEW i \in 1 .. n PROVE w[i] \in A
  <2>1. PICK p \in PyPendingT : p = x.pending[i]
    BY <1>1
  <2>2. CASE i \in K
    <3>1. w[i] = p
      BY <2>1, <2>2
    <3> QED BY <2>1, <3>1
  <2>3. CASE i \notin K /\ Due(p)
    <3>1. p.retries + 1 \in 0 .. max_retries
      BY <2>1, <2>3, Timers DEF PyPendingT
    <3>2. [p EXCEPT !.retries = p.retries + 1, !.due = 1] \in PyPendingT
      BY <3>1 DEF PyPendingT
    <3>3. w[i] = [p EXCEPT !.retries = p.retries + 1, !.due = 1]
      BY <2>1, <2>3
    <3>4. w[i].frame = p.frame
      BY <3>3 DEF PyPendingT
    <3> QED BY <2>1, <3>2, <3>3, <3>4
  <2>4. CASE i \notin K /\ ~Due(p)
    <3>1. w[i] = p
      BY <2>1, <2>4
    <3> QED BY <2>1, <3>1
  <2> QED BY <2>2, <2>3, <2>4
<1>4. ASSUME NEW r PROVE r = Rest(r) <=> LeavesOut(r, n, K, w)
  <2> DEFINE Rest2 == [i \in 0 .. n |-> IF i = 0 THEN <<>>
                          ELSE IF i \in K THEN r[i - 1] ELSE Append(r[i - 1], w[i])]
  <2>1. \A i \in 0 .. n : i # 0 => i \in 1 .. n
    BY <1>1
  <2>2. Rest(r) = Rest2
    BY <2>1
  <2> QED BY <2>2 DEF LeavesOut
<1> HIDE DEF A, w, K, Rest, n
<1>5. PICK f : f = Rest(f)
  BY <1>1, <1>4, LoopIsDefined
<1>6. rest = Rest(rest)
  BY <1>5
<1> HIDE DEF rest
<1>7. rest[n] \in Seq(A)
  BY <1>1, <1>3, <1>4, <1>6, LoopLeaves
<1>8. PICK q : q = rest[n]
  OBVIOUS
<1>9. /\ q \in Seq(PyPendingT)
      /\ \A j \in DOMAIN q : \E i \in DOMAIN x.pending : q[j].frame = x.pending[i].frame
  <2>1. A \subseteq PyPendingT
    BY DEF A
  <2>2. \A j \in DOMAIN q : q[j] \in A
    BY <1>7, <1>8
  <2>3. q \in Seq(PyPendingT)
    BY <1>7, <1>8, <2>1
  <2> QED BY <1>1, <2>2, <2>3 DEF A
<1>10. y \in PyT /\ y.pending = q /\ y.next_seq = x.next_seq /\ SameRest(x, y)
  BY <1>2, <1>8, <1>9, PyNewPending
<1> QED BY <1>9, <1>10

\* receive of a reliable frame whose session is the one noted for its source, or
\* whose source has no keys: nothing is forgotten.
LEMMA PyReceive ==
  ASSUME NEW x \in PyT, NEW f \in Frames, NEW y, y = Py!Remember(Py!Acknowledge(x, f), f)
  PROVE  /\ y \in PyT /\ y.next_seq = (x.next_seq + 1) % SEQ_VALUES
         /\ y.my_addr = x.my_addr /\ y.session = x.session /\ y.pending = x.pending
         /\ Py!seen_key(f) \in y.seen
         /\ \A k \in y.seen : k \in x.seen \/ k = Py!seen_key(f)
         /\ \A k \in x.seen : Py!SameSession(x, f) \/ k[1] # f.src => k \in y.seen
         /\ \A s \in DOMAIN y.source_sessions :
              \/ s = f.src /\ y.source_sessions[s] = f.session
              \/ /\ s \in DOMAIN x.source_sessions
                 /\ y.source_sessions[s] = x.source_sessions[s]
         /\ DOMAIN y.source_sessions = DOMAIN x.source_sessions \cup {f.src}
         /\ Py!IsDuplicate(x, f) => Py!seen_key(f) \in x.seen
         /\ ~Py!IsDuplicate(x, f) =>
              Py!seen_key(f) \notin x.seen \/ (~Py!SameSession(x, f) /\ Py!seen_key(f)[1] = f.src)
<1> DEFINE key == Py!seen_key(f)
           z == Py!reset_seen_if_session_changed(x, f)
           SS == UNION {[A -> Sessions] : A \in SUBSET Nodes}
<1>1. f.src \in Nodes /\ f.session \in Sessions /\ f.seq \in Seqs
  BY DEF Frames
<1>2. key \in Nodes \X Sessions \X Seqs /\ key[1] = f.src
  BY <1>1 DEF Py!seen_key
<1>3. /\ z \in PyT /\ z.next_seq = x.next_seq
      /\ z.my_addr = x.my_addr /\ z.session = x.session /\ z.pending = x.pending
      /\ z.seen = {k \in x.seen : Py!SameSession(x, f) \/ k[1] # f.src}
      /\ DOMAIN z.source_sessions = DOMAIN x.source_sessions \cup {f.src}
      /\ \A s \in DOMAIN z.source_sessions :
           \/ s = f.src /\ z.source_sessions[s] = f.session
           \/ /\ s \in DOMAIN x.source_sessions
              /\ z.source_sessions[s] = x.source_sessions[s]
  <2>1. CASE Py!SameSession(x, f)
    <3>1. z = x
      BY <2>1 DEF Py!reset_seen_if_session_changed
    <3>2. f.src \in DOMAIN x.source_sessions
      BY <2>1 DEF Py!SameSession
    <3> QED BY <2>1, <3>1, <3>2
  <2>2. CASE ~Py!SameSession(x, f)
    <3>1. PICK ss : ss = Py!WithSession(x.source_sessions, f)
      OBVIOUS
    <3>2. PICK sn : sn = {k \in x.seen : k[1] # f.src}
      OBVIOUS
    <3>3. PICK A \in SUBSET Nodes : x.source_sessions \in [A -> Sessions]
      BY PyFields
    <3>4. /\ ss \in [A \cup {f.src} -> Sessions] /\ DOMAIN ss = DOMAIN x.source_sessions \cup {f.src}
          /\ \A s \in DOMAIN ss :
               \/ s = f.src /\ ss[s] = f.session
               \/ s \in DOMAIN x.source_sessions /\ ss[s] = x.source_sessions[s]
      BY <1>1, <3>1, <3>3 DEF Py!WithSession
    <3>5. ss \in SS /\ sn \in SUBSET (Nodes \X Sessions \X Seqs)
      <4>1. A \cup {f.src} \in SUBSET Nodes
        BY <1>1
      <4>2. ss \in SS
        BY <3>4, <4>1
      <4>3. x.seen \in SUBSET (Nodes \X Sessions \X Seqs)
        BY PyFields
      <4>4. sn \in SUBSET (Nodes \X Sessions \X Seqs)
        BY <3>2, <4>3
      <4> QED BY <4>2, <4>4
    <3> HIDE DEF SS
    <3>6. z = [x EXCEPT !.source_sessions = ss, !.seen = sn]
      BY <2>2, <3>1, <3>2 DEF Py!reset_seen_if_session_changed
    <3>7. z \in PyT /\ z.source_sessions = ss /\ z.seen = sn
      BY <3>5, <3>6 DEF PyT, SS
    <3>8. /\ z.next_seq = x.next_seq
          /\ z.my_addr = x.my_addr /\ z.session = x.session /\ z.pending = x.pending
      BY <3>6 DEF PyT
    <3> QED BY <2>2, <3>2, <3>4, <3>7, <3>8
  <2> QED BY <2>1, <2>2
<1>4. PICK u : u = Py!take_seq(z)
  OBVIOUS
<1> HIDE DEF z
<1>5. /\ u \in PyT /\ SameRest(z, u) /\ u.pending = z.pending
      /\ u.next_seq = (z.next_seq + 1) % SEQ_VALUES
  BY <1>3, <1>4, PyTakeSeq
<1>6. y = [u EXCEPT !.seen = u.seen \cup {key}]
  BY <1>4 DEF Py!Remember, Py!Acknowledge, z
<1>7. PICK sn : sn = u.seen \cup {key}
  OBVIOUS
<1> HIDE DEF key
<1>8. sn \in SUBSET (Nodes \X Sessions \X Seqs)
  BY <1>2, <1>5, <1>7, PyFields
<1>9. /\ y \in PyT /\ y.seen = sn /\ y.next_seq = u.next_seq /\ y.my_addr = u.my_addr
      /\ y.session = u.session /\ y.pending = u.pending /\ y.source_sessions = u.source_sessions
  BY <1>5, <1>6, <1>7, <1>8 DEF PyT
<1>10. Py!IsDuplicate(x, f) <=> key \in z.seen
  BY DEF Py!IsDuplicate, z, key
<1>11. \A k : k \in y.seen <=> k \in z.seen \/ k = key
  BY <1>5, <1>7, <1>9 DEF SameRest
<1>12. y.source_sessions = z.source_sessions /\ y.next_seq = (x.next_seq + 1) % SEQ_VALUES
  BY <1>3, <1>5, <1>9 DEF SameRest
<1>13. y.my_addr = x.my_addr /\ y.session = x.session /\ y.pending = x.pending
  BY <1>3, <1>5, <1>9 DEF SameRest
<1>14. \A k : k \in z.seen <=> k \in x.seen /\ (Py!SameSession(x, f) \/ k[1] # f.src)
  BY <1>3
<1>15. /\ key \in y.seen
       /\ \A k \in y.seen : k \in x.seen \/ k = key
       /\ \A k \in x.seen : Py!SameSession(x, f) \/ k[1] # f.src => k \in y.seen
  BY <1>11, <1>14
<1>16. /\ \A s \in DOMAIN y.source_sessions :
            \/ s = f.src /\ y.source_sessions[s] = f.session
            \/ /\ s \in DOMAIN x.source_sessions
               /\ y.source_sessions[s] = x.source_sessions[s]
       /\ DOMAIN y.source_sessions = DOMAIN x.source_sessions \cup {f.src}
  BY <1>3, <1>12
<1>17. /\ Py!IsDuplicate(x, f) => key \in x.seen
       /\ ~Py!IsDuplicate(x, f) => key \notin x.seen \/ (~Py!SameSession(x, f) /\ key[1] = f.src)
  BY <1>2, <1>10, <1>14 DEF key
<1> QED BY <1>9, <1>12, <1>13, <1>15, <1>16, <1>17 DEF key

\* The ACK of a Python endpoint is one that C endpoints read.
LEMMA PyAckFrame ==
  ASSUME NEW x \in PyT, NEW f \in Frames, NEW a, a = Py!send_ack(x, f)
  PROVE  /\ a \in Frames /\ a.ack /\ a.src = x.my_addr /\ a.dst = f.src
         /\ acked_seq(a) = f.seq
<1> DEFINE h == f.seq \div BYTE
           l == f.seq % BYTE
<1>1. f.src \in Nodes /\ f.seq \in Seqs
  BY DEF Frames
<1>2. h \in 0 .. BYTE - 1 /\ l \in 0 .. BYTE - 1 /\ h * BYTE + l = f.seq
  BY <1>1, SplitSeq
<1>3. x.my_addr \in Nodes /\ x.session \in Sessions /\ x.next_seq \in Seqs
  BY PyFields
<1>4. a = [src |-> x.my_addr, dst |-> f.src, reliable |-> FALSE, ack |-> TRUE,
           session |-> x.session, seq |-> x.next_seq, payload |-> <<h, l>>]
  BY DEF Py!send_ack
<1> HIDE DEF h, l
<1>5. <<h, l>> \in AckPayloads
  BY <1>2 DEF AckPayloads
<1>6. a \in Frames
  BY <1>1, <1>3, <1>4, <1>5 DEF Frames
<1>7. a.payload = <<h, l>>
  BY <1>4
<1> QED BY <1>2, <1>4, <1>6, <1>7 DEF acked_seq

\* f is a frame of call c that endpoint x makes.
IsFrameOf(c, x, f) ==
  /\ f \in Frames /\ ~f.ack /\ f.src = x.my_addr /\ f.dst = c.dst
  /\ f.payload = <<c>> /\ CallOf(f) = c
  /\ f.session = x.session /\ f.seq = x.next_seq

\* The frame of a call from a Python node.
LEMMA PyFrameIs ==
  ASSUME NEW c \in Calls, NEW x \in PyT, NEW rel \in BOOLEAN,
         NEW f, f = Py!Frame(x, c.dst, rel, <<c>>)
  PROVE  IsFrameOf(c, x, f)
<1>1. c.dst \in Nodes /\ <<c>> \in Payloads
  BY Population DEF Payloads
<1>2. x.my_addr \in Nodes /\ x.session \in Sessions /\ x.next_seq \in Seqs
  BY PyFields
<1>3. f = [src |-> x.my_addr, dst |-> c.dst, reliable |-> rel, ack |-> FALSE,
           session |-> x.session, seq |-> x.next_seq, payload |-> <<c>>]
  BY DEF Py!Frame
<1> DEFINE g(r) == [src |-> x.my_addr, dst |-> c.dst, reliable |-> r, ack |-> FALSE,
                    session |-> x.session, seq |-> x.next_seq, payload |-> <<c>>]
<1>4. f \in Frames
  <2>1. g(TRUE) \in Frames
    BY <1>1, <1>2 DEF Frames
  <2>2. g(FALSE) \in Frames
    BY <1>1, <1>2 DEF Frames
  <2>3. f = g(rel)
    BY <1>3, Zenon
  <2> HIDE DEF g
  <2>4. CASE rel = TRUE
    BY <2>1, <2>3, <2>4, Zenon
  <2>5. CASE rel = FALSE
    BY <2>2, <2>3, <2>5, Zenon
  <2> QED BY <2>4, <2>5
<1>5. /\ ~f.ack /\ f.src = x.my_addr /\ f.dst = c.dst /\ f.payload = <<c>>
      /\ f.session = x.session /\ f.seq = x.next_seq
  BY <1>3
<1>6. CallOf(f) = c
  BY <1>5 DEF CallOf
<1> QED BY <1>4, <1>5, <1>6 DEF IsFrameOf

----------------------------------------------------------------------------
(* What a step of a Python node does, and leaves alone.                    *)

\* Python node n takes no SEQ or the next one.
PyAdvances(n) ==
  \/ py'[n].next_seq = py[n].next_seq /\ draws'[n] = draws[n]
  \/ /\ py'[n].next_seq = (py[n].next_seq + 1) % SEQ_VALUES
     /\ draws[n] < MaxDraws /\ draws'[n] = draws[n] + 1

\* Only Python node n acts, and on its own calls.
PyActs(n) ==
  /\ ep' = ep /\ reboots' = reboots
  /\ py' \in [PyNodes -> PyT]
  /\ py'[n].my_addr = py[n].my_addr /\ py'[n].session = py[n].session
  /\ \A m \in PyNodes \ {n} : py'[m] = py[m]
  /\ \A m \in Nodes \ {n} : draws'[m] = draws[m]
  /\ PyAdvances(n)
  /\ \A c \in Calls : c.src # n => status'[c] = status[c]

\* The types of the Python endpoints stay.
LEMMA PyTypesStay ==
  ASSUME PyTypes, NEW n \in PyNodes, PyActs(n)
  PROVE  PyTypes'
<1>1. ASSUME NEW m \in PyNodes
      PROVE  /\ py'[m].my_addr = m /\ py'[m].session = ep'[m].session
             /\ \A i \in PendingSlots : ep'[m].pending[i] = Free
  <2>1. CASE m = n
    BY <2>1 DEF PyTypes, PyActs
  <2>2. CASE m # n
    BY <2>2 DEF PyTypes, PyActs
  <2> QED BY <2>1, <2>2
<1>2. py' \in [PyNodes -> PyT]
  BY DEF PyActs
<1> QED BY <1>1, <1>2 DEF PyTypes

\* A SEQ that a Python node took stays one of those it took, and is not the next.
LEMMA PySeqStays ==
  ASSUME SeqsAreEnough, NTypeOK, PyTypes, NEW n \in PyNodes, PyActs(n),
         NEW m \in PyNodes, NEW s \in Seqs, TakenBefore(s, py[m].next_seq, draws[m])
  PROVE  /\ TakenBefore(s, py'[m].next_seq, draws'[m])
         /\ draws[m] < MaxDraws => s # py[m].next_seq
<1>1. py[m].next_seq \in Seqs /\ draws[m] \in Nat /\ m \in Nodes
  <2>1. py[m] \in PyT /\ m \in Nodes
    BY SomePython DEF PyTypes
  <2>2. draws[m] \in 0 .. MaxDraws
    BY <2>1 DEF NTypeOK
  <2> QED BY <2>1, <2>2, Population, PyFields
<1>2. draws[m] < MaxDraws => draws[m] < SEQ_VALUES
  BY <1>1, Population, Moduli DEF SeqsAreEnough
<1>3. \/ py'[m].next_seq = py[m].next_seq /\ draws'[m] = draws[m]
      \/ /\ py'[m].next_seq = (py[m].next_seq + 1) % SEQ_VALUES
         /\ draws[m] < MaxDraws /\ draws'[m] = draws[m] + 1
  <2>1. CASE m = n
    BY <2>1 DEF PyActs, PyAdvances
  <2>2. CASE m # n
    BY <1>1, <2>2 DEF PyActs
  <2> QED BY <2>1, <2>2
<1>4. CASE draws[m] < MaxDraws
  <2>1. /\ s # py[m].next_seq
        /\ TakenBefore(s, (py[m].next_seq + 1) % SEQ_VALUES, draws[m] + 1)
    BY <1>1, <1>2, <1>4, TakenStays
  <2> QED BY <1>3, <2>1
<1>5. CASE ~(draws[m] < MaxDraws)
  BY <1>3, <1>5
<1> QED BY <1>4, <1>5

\* What the frames under way keep when a Python node acts.
LEMMA PyOldFrame ==
  ASSUME SeqsAreEnough, NTypeOK, PyTypes, FramesOfCalls, SeqsWereTaken(CNodes), PySeqsWereTaken,
         NEW n \in PyNodes, PyActs(n), StaysSent, NEW f \in DataFrames
  PROVE  /\ f.session = ep'[f.src].session
         /\ status'[CallOf(f)] \notin {"unused", "refused"}
         /\ f.src \in CNodes => TakenBefore(f.seq, ep'[f.src].next_seq, draws'[f.src])
         /\ f.src \in PyNodes => TakenBefore(f.seq, py'[f.src].next_seq, draws'[f.src])
         /\ f.src = n /\ draws[n] < MaxDraws => f.seq # py[n].next_seq
<1>1. /\ CallOf(f) \in Calls /\ f.session = ep[f.src].session
      /\ status[CallOf(f)] \notin {"unused", "refused"}
  BY DEF FramesOfCalls
<1>2. f.src \in Nodes /\ f.seq \in Seqs
  BY DEF DataFrames, NTypeOK, Frames
<1>3. ep' = ep
  BY DEF PyActs
<1>4. f.src \in CNodes => TakenBefore(f.seq, ep'[f.src].next_seq, draws'[f.src])
  <2>1. f.src \in CNodes => draws'[f.src] = draws[f.src]
    BY <1>2 DEF PyActs, CNodes
  <2> QED BY <1>3, <2>1 DEF SeqsWereTaken
<1>5. f.src \in PyNodes =>
        /\ TakenBefore(f.seq, py'[f.src].next_seq, draws'[f.src])
        /\ draws[f.src] < MaxDraws => f.seq # py[f.src].next_seq
  <2>1. f.src \in PyNodes => TakenBefore(f.seq, py[f.src].next_seq, draws[f.src])
    BY DEF PySeqsWereTaken
  <2> QED BY <1>2, <2>1, PySeqStays
<1>6. status'[CallOf(f)] \notin {"unused", "refused"}
  BY <1>1 DEF StaysSent
<1> QED BY <1>1, <1>3, <1>4, <1>5, <1>6

\* Steps of Python nodes that add no data frame.
LEMMA PySameFrames ==
  ASSUME SeqsAreEnough, NTypeOK, PyTypes, DeliveryInv(CNodes), PySeqsWereTaken,
         NEW n \in PyNodes, PyActs(n), StaysSent, DataFrames' = DataFrames
  PROVE  FramesOfCalls' /\ SeqsWereTaken(CNodes)' /\ PySeqsWereTaken' /\ OneFramePerCall'
<1>1. OneFramePerCall'
  BY DEF OneFramePerCall, DeliveryInv
<1>2. FramesOfCalls /\ SeqsWereTaken(CNodes)
  BY DEF DeliveryInv
<1>3. FramesOfCalls'
  BY <1>2, PyOldFrame DEF FramesOfCalls
<1>4. SeqsWereTaken(CNodes)'
  <2>1. \A f \in DataFrames :
          f.src \in CNodes => TakenBefore(f.seq, ep'[f.src].next_seq, draws'[f.src])
    BY <1>2, PyOldFrame
  <2> QED BY <2>1 DEF SeqsWereTaken
<1>5. PySeqsWereTaken'
  <2>1. \A f \in DataFrames :
          f.src \in PyNodes => TakenBefore(f.seq, py'[f.src].next_seq, draws'[f.src])
    BY <1>2, PyOldFrame
  <2> QED BY <2>1 DEF PySeqsWereTaken
<1> QED BY <1>1, <1>3, <1>4, <1>5

\* Steps of Python nodes that send the frame of a call.
LEMMA PyNewFrame ==
  ASSUME SeqsAreEnough, NTypeOK, PyTypes, DeliveryInv(CNodes), PySeqsWereTaken,
         NEW c \in Calls, c.src \in PyNodes, PyActs(c.src), StaysSent,
         NEW new, DataFrames' = DataFrames \cup {new},
         new.src = c.src, new.dst = c.dst, new.payload = <<c>>, CallOf(new) = c,
         new.session = py[c.src].session, new.seq = py[c.src].next_seq,
         status[c] = "unused", status'[c] \notin {"unused", "refused"}, Draw(c.src),
         py'[c.src].next_seq = (py[c.src].next_seq + 1) % SEQ_VALUES
  PROVE  FramesOfCalls' /\ SeqsWereTaken(CNodes)' /\ PySeqsWereTaken' /\ OneFramePerCall'
<1>1. FramesOfCalls /\ SeqsWereTaken(CNodes) /\ OneFramePerCall
  BY DEF DeliveryInv
<1>2. ep' = ep /\ py[c.src].session = ep[c.src].session /\ c.src \notin CNodes
  BY DEF PyActs, PyTypes, CNodes
<1>3. TakenBefore(new.seq, py'[c.src].next_seq, draws'[c.src])
  <2>1. py[c.src] \in PyT /\ draws[c.src] \in 0 .. MaxDraws /\ draws \in [Nodes -> 0 .. MaxDraws]
        /\ c.src \in Nodes
    BY Population DEF NTypeOK, PyTypes
  <2>2. py[c.src].next_seq \in Seqs /\ draws[c.src] \in Nat /\ draws'[c.src] = draws[c.src] + 1
    BY <2>1, Population, PyFields DEF Draw
  <2>3. TakenBefore(new.seq, (py[c.src].next_seq + 1) % SEQ_VALUES, draws[c.src] + 1)
    BY <2>2, TakenNow
  <2> QED BY <2>2, <2>3
<1>4. ASSUME NEW f \in DataFrames PROVE CallOf(f) # c
  BY DEF FramesOfCalls, DeliveryInv
<1>5. FramesOfCalls'
  <2>1. ASSUME NEW f \in DataFrames'
        PROVE  /\ CallOf(f) \in Calls /\ f.payload = <<CallOf(f)>>
               /\ f.src = CallOf(f).src /\ f.dst = CallOf(f).dst
               /\ f.session = ep'[f.src].session
               /\ status'[CallOf(f)] \notin {"unused", "refused"}
    <3>1. CASE f \in DataFrames
      BY <1>1, <3>1, PyOldFrame DEF FramesOfCalls
    <3>2. CASE f = new
      BY <1>2, <3>2
    <3> QED BY <3>1, <3>2
  <2> QED BY <2>1 DEF FramesOfCalls
<1>6. SeqsWereTaken(CNodes)'
  <2>1. \A f \in DataFrames' :
          f.src \in CNodes => TakenBefore(f.seq, ep'[f.src].next_seq, draws'[f.src])
    BY <1>1, <1>2, PyOldFrame
  <2> QED BY <2>1 DEF SeqsWereTaken
<1>7. PySeqsWereTaken'
  <2>1. \A f \in DataFrames' :
          f.src \in PyNodes => TakenBefore(f.seq, py'[f.src].next_seq, draws'[f.src])
    BY <1>1, <1>3, PyOldFrame
  <2> QED BY <2>1 DEF PySeqsWereTaken
<1>8. OneFramePerCall'
  <2>1. ASSUME NEW f \in DataFrames PROVE f.src = c.src => f.seq # new.seq
    BY <1>1, PyOldFrame DEF Draw
  <2> QED BY <1>1, <1>4, <2>1 DEF OneFramePerCall
<1> QED BY <1>5, <1>6, <1>7, <1>8

\* The slots of C nodes stay when a Python node acts.
LEMMA PySlotsStay ==
  ASSUME NTypeOK, PyTypes, FramesOfCalls, SlotsHoldParked, NEW n \in PyNodes, PyActs(n), Grows
  PROVE  SlotsHoldParked'
<1>1. ep' = ep /\ DataFrames \subseteq DataFrames'
  BY DEF PyActs, Grows
<1>2. ASSUME NEW m \in Nodes, NEW i \in PendingSlots, ep[m].pending[i] # Free
      PROVE  status'[CallOf(ep[m].pending[i])] = "parked"
  <2>1. m # n
    BY <1>2 DEF PyTypes
  <2>2. /\ CallOf(ep[m].pending[i]) \in Calls /\ CallOf(ep[m].pending[i]).src = m
        /\ status[CallOf(ep[m].pending[i])] = "parked"
    BY <1>2, SlotCall
  <2> QED BY <2>1, <2>2 DEF PyActs
<1> QED BY <1>1, <1>2, SlotsStay

\* What the Python node that acts must see to itself.
OwnDict(n) ==
  \A i \in DOMAIN py'[n].pending :
    LET f == py'[n].pending[i].frame
    IN  f \in DataFrames' /\ f.src = n /\ status'[CallOf(f)] = "parked"

OwnKeys(n) ==
  \A k \in py'[n].seen :
    \/ k \in py[n].seen
    \/ \E f \in DataFrames : f.dst = n /\ Py!seen_key(f) = k /\ deliveries'[CallOf(f)] > 0

NewAcksAreEarned ==
  \A a \in net' \ net : a.ack =>
    \/ reboots'[a.src] > 0
    \/ \E f \in DataFrames' :
         /\ f.src = a.dst /\ f.dst = a.src /\ f.seq = acked_seq(a)
         /\ deliveries'[CallOf(f)] > 0

\* The rest follows.
LEMMA PyDelivery ==
  ASSUME NTypeOK, PyTypes, DeliveryInv(CNodes), PyDeliveryInv,
         NEW n \in PyNodes, PyActs(n), Grows, OwnDict(n), OwnKeys(n), NewAcksAreEarned,
         FramesOfCalls', SeqsWereTaken(CNodes)', PySeqsWereTaken', OneFramePerCall',
         AckedUnlessCrashed'
  PROVE  DeliveryInv(CNodes)' /\ PyDeliveryInv'
<1> USE DEF DeliveryInv, PyDeliveryInv
<1>1. ep' = ep
  BY DEF PyActs
<1>2. OwnAddresses'
  BY <1>1 DEF OwnAddresses
<1>3. SlotsHoldParked'
  BY PySlotsStay
<1>4. AcksAreEarned'
  BY AcksStay DEF NewAcksAreEarned
<1>5. KeysAreDelivered'
  BY <1>1, KeysStay
<1>6. DictHoldsParked'
  <2>1. ASSUME NEW m \in PyNodes, NEW i \in DOMAIN py'[m].pending, NEW f,
               f = py'[m].pending[i].frame
        PROVE  f \in DataFrames' /\ f.src = m /\ status'[CallOf(f)] = "parked"
    <3>1. CASE m = n
      BY <2>1, <3>1 DEF OwnDict
    <3>2. CASE m # n
      <4>1. py'[m] = py[m]
        BY <3>2 DEF PyActs
      <4>2. f \in DataFrames /\ f.src = m /\ status[CallOf(f)] = "parked"
        BY <2>1, <4>1 DEF DictHoldsParked
      <4>3. CallOf(f) \in Calls /\ CallOf(f).src # n
        BY <3>2, <4>2 DEF FramesOfCalls
      <4> QED BY <4>2, <4>3 DEF PyActs, Grows
    <3> QED BY <3>1, <3>2
  <2> QED BY <2>1 DEF DictHoldsParked
<1>7. PyKeysAreDelivered'
  <2>1. ASSUME NEW m \in PyNodes, NEW k \in py'[m].seen
        PROVE  \E f \in DataFrames' :
                 f.dst = m /\ Py!seen_key(f) = k /\ deliveries'[CallOf(f)] > 0
    <3>1. CASE k \in py[m].seen
      <4>1. PICK f \in DataFrames :
              f.dst = m /\ Py!seen_key(f) = k /\ deliveries[CallOf(f)] > 0
        BY <3>1 DEF PyKeysAreDelivered
      <4>2. f \in DataFrames' /\ deliveries'[CallOf(f)] > 0
        BY <4>1 DEF Grows, FramesOfCalls
      <4> QED BY <4>1, <4>2
    <3>2. CASE k \notin py[m].seen
      <4>1. m = n
        BY <2>1, <3>2 DEF PyActs
      <4>2. PICK f \in DataFrames :
              f.dst = m /\ Py!seen_key(f) = k /\ deliveries'[CallOf(f)] > 0
        BY <2>1, <3>2, <4>1 DEF OwnKeys
      <4> QED BY <4>2 DEF Grows
    <3> QED BY <3>1, <3>2
  <2> QED BY <2>1 DEF PyKeysAreDelivered, Py!seen_key
<1> QED BY <1>2, <1>3, <1>4, <1>5, <1>6, <1>7

----------------------------------------------------------------------------
(* The steps of a Python node.                                             *)

\* A send puts a new frame on the network and, if it is reliable, into the dict.
PySends(c, new) ==
  /\ PyActs(c.src) /\ NTypeOK' /\ Draw(c.src)
  /\ py'[c.src].next_seq = (py[c.src].next_seq + 1) % SEQ_VALUES
  /\ py'[c.src].seen = py[c.src].seen
  /\ py'[c.src].source_sessions = py[c.src].source_sessions
  /\ net' = net \cup {new} /\ new \in Frames /\ ~new.ack
  /\ new.src = c.src /\ new.dst = c.dst /\ new.payload = <<c>> /\ CallOf(new) = c
  /\ new.session = py[c.src].session /\ new.seq = py[c.src].next_seq
  /\ status[c] = "unused" /\ status'[c] \in {"parked", "sent"}
  /\ status' = [status EXCEPT ![c] = status'[c]]
  /\ \A d \in Calls : d # c => status'[d] = status[d]
  /\ deliveries' = deliveries
  /\ \A i \in DOMAIN py'[c.src].pending :
       \/ i \in DOMAIN py[c.src].pending /\ py'[c.src].pending[i] = py[c.src].pending[i]
       \/ py'[c.src].pending[i].frame = new /\ status'[c] = "parked"

\* What a send does.
LEMMA PySendShape ==
  ASSUME NTypeOK, PyTypes, NEW c \in Calls, c.src \in PyNodes, NEW rel \in BOOLEAN,
         NEW fl \in BOOLEAN, PySend(c, rel, fl)
  PROVE  \E new : PySends(c, new)
<1>a. PICK flagged \in BOOLEAN : flagged = (rel \/ fl)
  BY Zenon
<1>b. PICK new : new = Py!Frame(py[c.src], c.dst, flagged, <<c>>)
  OBVIOUS
<1> DEFINE n == c.src
<1>1. /\ n \in Nodes /\ py \in [PyNodes -> PyT] /\ py[n] \in PyT /\ py[n].my_addr = n
      /\ status \in [Calls -> Statuses] /\ draws \in [Nodes -> 0 .. MaxDraws]
  BY Population DEF NTypeOK, PyTypes
<1>2. /\ new \in Frames /\ ~new.ack
      /\ new.src = n /\ new.dst = c.dst /\ new.payload = <<c>> /\ CallOf(new) = c
      /\ new.session = py[n].session /\ new.seq = py[n].next_seq
  <2>1. IsFrameOf(c, py[n], new)
    BY <1>1, <1>b, PyFrameIs, Zenon
  <2> QED BY <1>1, <2>1 DEF IsFrameOf
<1>3. PICK x : x = IF rel THEN Py!Park(py[n], new) ELSE py[n]
  OBVIOUS
<1>4. PICK y : y = Py!take_seq(x)
  OBVIOUS
<1>5. /\ x \in PyT /\ x.next_seq = py[n].next_seq /\ SameRest(py[n], x)
      /\ \A i \in DOMAIN x.pending :
              \/ i \in DOMAIN py[n].pending /\ x.pending[i] = py[n].pending[i]
              \/ rel /\ x.pending[i].frame = new
  <2>1. CASE rel
    <3>1. x = Py!Park(py[n], new)
      BY <1>3, <2>1, Zenon
    <3>2. /\ x \in PyT /\ x.next_seq = py[n].next_seq /\ SameRest(py[n], x)
          /\ \A i \in DOMAIN x.pending :
              \/ i \in DOMAIN py[n].pending /\ x.pending[i] = py[n].pending[i]
              \/ x.pending[i].frame = new
      BY <1>1, <1>2, <3>1, PyPark
    <3> QED BY <2>1, <3>2, Zenon
  <2>2. CASE ~rel
    <3>1. x = py[n]
      BY <1>3, <2>2, Zenon
    <3> QED BY <1>1, <3>1 DEF SameRest
  <2> QED BY <2>1, <2>2
<1>6. /\ y \in PyT /\ SameRest(x, y) /\ y.pending = x.pending
      /\ y.next_seq = (x.next_seq + 1) % SEQ_VALUES
  BY <1>4, <1>5, PyTakeSeq
<1>7. /\ status[c] = "unused" /\ Draw(n)
      /\ py' = [py EXCEPT ![n] = y]
      /\ net' = net \cup {new}
      /\ status' = [status EXCEPT ![c] = IF rel THEN "parked" ELSE "sent"]
      /\ ep' = ep /\ reboots' = reboots /\ deliveries' = deliveries
  BY <1>3, <1>4, <1>a, <1>b DEF PySend
<1>8. /\ py'[n] = y /\ py' \in [PyNodes -> PyT] /\ \A m \in PyNodes \ {n} : py'[m] = py[m]
  BY <1>1, <1>6, <1>7
<1>9. /\ status'[c] \in {"parked", "sent"} /\ (rel => status'[c] = "parked")
      /\ \A d \in Calls : d # c => status'[d] = status[d]
      /\ status' \in [Calls -> Statuses] /\ status' = [status EXCEPT ![c] = status'[c]]
  <2>1. CASE rel
    BY <1>1, <1>7, <2>1 DEF Statuses
  <2>2. CASE ~rel
    BY <1>1, <1>7, <2>2 DEF Statuses
  <2> QED BY <2>1, <2>2
<1>10. /\ draws[n] < MaxDraws /\ draws'[n] = draws[n] + 1 /\ draws' \in [Nodes -> 0 .. MaxDraws]
       /\ \A m \in Nodes \ {n} : draws'[m] = draws[m]
  BY <1>1, <1>7, Population DEF Draw
<1>11. PyActs(n)
  <2>1. PyAdvances(n)
    BY <1>5, <1>6, <1>8, <1>10 DEF PyAdvances
  <2> QED BY <1>5, <1>6, <1>7, <1>8, <1>9, <1>10, <2>1 DEF PyActs, SameRest
<1>12. NTypeOK'
  BY <1>2, <1>7, <1>9, <1>10 DEF NTypeOK
<1>13. /\ py'[n].next_seq = (py[n].next_seq + 1) % SEQ_VALUES
       /\ py'[n].seen = py[n].seen /\ py'[n].source_sessions = py[n].source_sessions
       /\ \A i \in DOMAIN py'[n].pending :
            \/ i \in DOMAIN py[n].pending /\ py'[n].pending[i] = py[n].pending[i]
            \/ py'[n].pending[i].frame = new /\ status'[c] = "parked"
  BY <1>5, <1>6, <1>8, <1>9 DEF SameRest
<1>14. PySends(c, new)
  BY <1>2, <1>7, <1>9, <1>11, <1>12, <1>13 DEF PySends
<1> QED BY <1>14

\* A send puts the only frame of its call on the network.
LEMMA DeliveryPySend ==
  ASSUME SeqsAreEnough, NTypeOK, PyTypes, DeliveryInv(CNodes), PyDeliveryInv,
         NEW c \in Calls, c.src \in PyNodes, NEW rel \in BOOLEAN,
         NEW fl \in BOOLEAN, PySend(c, rel, fl)
  PROVE  DeliveryInv(CNodes)' /\ PyDeliveryInv'
<1> USE DEF DeliveryInv, PyDeliveryInv
<1>1. PICK new : PySends(c, new)
  BY PySendShape
<1>2. /\ PyActs(c.src) /\ Draw(c.src)
      /\ py'[c.src].next_seq = (py[c.src].next_seq + 1) % SEQ_VALUES
      /\ py'[c.src].seen = py[c.src].seen
      /\ net' = net \cup {new} /\ ~new.ack
      /\ new.src = c.src /\ new.dst = c.dst /\ new.payload = <<c>> /\ CallOf(new) = c
      /\ new.session = py[c.src].session /\ new.seq = py[c.src].next_seq
      /\ deliveries' = deliveries
  BY <1>1 DEF PySends
<1>3. /\ status[c] = "unused" /\ status'[c] \in {"parked", "sent"}
      /\ \A d \in Calls : d # c => status'[d] = status[d]
      /\ \A i \in DOMAIN py'[c.src].pending :
           \/ i \in DOMAIN py[c.src].pending /\ py'[c.src].pending[i] = py[c.src].pending[i]
           \/ py'[c.src].pending[i].frame = new /\ status'[c] = "parked"
  BY <1>1 DEF PySends
<1>4. DataFrames' = DataFrames \cup {new}
  BY <1>2 DEF DataFrames
<1>5. Grows /\ StaysSent
  BY <1>2, <1>3, <1>4 DEF Grows, StaysSent, PyActs
<1>6. FramesOfCalls' /\ SeqsWereTaken(CNodes)' /\ PySeqsWereTaken' /\ OneFramePerCall'
  <2>1. status'[c] \notin {"unused", "refused"}
    BY <1>3
  <2> QED BY <1>2, <1>3, <1>4, <1>5, <2>1, PyNewFrame
<1>7. OwnDict(c.src)
  <2>1. ASSUME NEW i \in DOMAIN py'[c.src].pending, NEW f, f = py'[c.src].pending[i].frame
        PROVE  f \in DataFrames' /\ f.src = c.src /\ status'[CallOf(f)] = "parked"
    <3>1. CASE f = new /\ status'[c] = "parked"
      BY <1>2, <1>4, <3>1
    <3>2. CASE i \in DOMAIN py[c.src].pending /\ py'[c.src].pending[i] = py[c.src].pending[i]
      <4>1. f \in DataFrames /\ f.src = c.src /\ status[CallOf(f)] = "parked"
        BY <2>1, <3>2 DEF DictHoldsParked
      <4>2. CallOf(f) \in Calls /\ CallOf(f) # c
        BY <1>3, <4>1 DEF FramesOfCalls
      <4> QED BY <1>3, <1>4, <4>1, <4>2
    <3> QED BY <1>3, <2>1, <3>1, <3>2
  <2> QED BY <2>1 DEF OwnDict
<1>8. OwnKeys(c.src)
  BY <1>2 DEF OwnKeys
<1>9. NewAcksAreEarned
  BY <1>2 DEF NewAcksAreEarned
<1>10. AckedUnlessCrashed'
  BY <1>2, <1>3 DEF AckedUnlessCrashed, PyActs
<1> QED BY <1>2, <1>5, <1>6, <1>7, <1>8, <1>9, <1>10, PyDelivery

\* The calls of a dict.
LEMMA PyCallsOf ==
  ASSUME NEW q, NEW c
  PROVE  c \in PyCalls(q) <=> \E i \in DOMAIN q : c = CallOf(q[i].frame)
BY DEF PyCalls, CallOf

\* An ACK or a tick of a Python node: entries leave the dict, and only the calls
\* of those change their status.
PySettles(n, st) ==
  /\ py' \in [PyNodes -> PyT] /\ \A m \in PyNodes \ {n} : py'[m] = py[m]
  /\ py'[n].next_seq = py[n].next_seq /\ SameRest(py[n], py'[n])
  /\ \A j \in DOMAIN py'[n].pending :
       \E i \in DOMAIN py[n].pending : py'[n].pending[j].frame = py[n].pending[i].frame
  /\ status' = [c \in Calls |->
                  IF c \in PyCalls(py[n].pending) \ PyCalls(py'[n].pending)
                  THEN st ELSE status[c]]
  /\ UNCHANGED <<ep, net, draws, reboots, deliveries>>

\* The calls of the dict are parked.
LEMMA PyDictCalls ==
  ASSUME FramesOfCalls, DictHoldsParked, NEW n \in PyNodes, NEW c \in PyCalls(py[n].pending)
  PROVE  c \in Calls /\ c.src = n /\ status[c] = "parked"
<1>1. PICK i \in DOMAIN py[n].pending : c = CallOf(py[n].pending[i].frame)
  BY PyCallsOf
<1>2. PICK f : f = py[n].pending[i].frame
  OBVIOUS
<1>3. f \in DataFrames /\ f.src = n /\ status[CallOf(f)] = "parked"
  BY <1>2 DEF DictHoldsParked
<1> QED BY <1>1, <1>2, <1>3 DEF FramesOfCalls

\* What such a step keeps, apart from AckedUnlessCrashed.
LEMMA DeliveryPySettles ==
  ASSUME SeqsAreEnough, NTypeOK, PyTypes, DeliveryInv(CNodes), PyDeliveryInv,
         NEW n \in PyNodes, NEW st \in {"acked", "failed"}, PySettles(n, st), AckedUnlessCrashed'
  PROVE  PyActs(n) /\ DeliveryInv(CNodes)' /\ PyDeliveryInv'
<1> USE DEF DeliveryInv, PyDeliveryInv
<1>1. /\ py' \in [PyNodes -> PyT] /\ \A m \in PyNodes \ {n} : py'[m] = py[m]
      /\ py'[n].next_seq = py[n].next_seq /\ SameRest(py[n], py'[n])
      /\ ep' = ep /\ net' = net /\ draws' = draws /\ reboots' = reboots
      /\ deliveries' = deliveries
  BY DEF PySettles
<1>2. \A c \in Calls :
        status'[c] = IF c \in PyCalls(py[n].pending) \ PyCalls(py'[n].pending)
                     THEN st ELSE status[c]
  BY DEF PySettles
<1>3. PyActs(n)
  <2>1. \A c \in Calls : c.src # n => status'[c] = status[c]
    BY <1>2, PyDictCalls
  <2> QED BY <1>1, <2>1 DEF PyActs, PyAdvances, SameRest
<1>4. DataFrames' = DataFrames /\ Grows /\ StaysSent
  BY <1>1, <1>2 DEF DataFrames, Grows, StaysSent
<1>5. FramesOfCalls' /\ SeqsWereTaken(CNodes)' /\ PySeqsWereTaken' /\ OneFramePerCall'
  BY <1>3, <1>4, PySameFrames
<1>6. OwnDict(n)
  <2>1. ASSUME NEW j \in DOMAIN py'[n].pending, NEW f, f = py'[n].pending[j].frame
        PROVE  f \in DataFrames' /\ f.src = n /\ status'[CallOf(f)] = "parked"
    <3>1. PICK i \in DOMAIN py[n].pending : f = py[n].pending[i].frame
      BY <2>1 DEF PySettles
    <3>2. f \in DataFrames /\ f.src = n /\ status[CallOf(f)] = "parked"
      BY <3>1 DEF DictHoldsParked
    <3>3. CallOf(f) \in Calls /\ CallOf(f) \in PyCalls(py'[n].pending)
      BY <2>1, <3>2, PyCallsOf DEF FramesOfCalls
    <3> QED BY <1>2, <1>4, <3>2, <3>3
  <2> QED BY <2>1 DEF OwnDict
<1>7. OwnKeys(n) /\ NewAcksAreEarned
  BY <1>1 DEF OwnKeys, NewAcksAreEarned, SameRest
<1> QED BY <1>3, <1>4, <1>5, <1>6, <1>7, PyDelivery

\* Its types.
LEMMA PySettlesType ==
  ASSUME NTypeOK, NEW n, NEW st \in {"acked", "failed"}, PySettles(n, st)
  PROVE  NTypeOK'
<1>1. status \in [Calls -> Statuses] /\ st \in Statuses
  BY DEF NTypeOK, Statuses
<1>2. status' \in [Calls -> Statuses]
  BY <1>1 DEF PySettles
<1> QED BY <1>2 DEF PySettles, NTypeOK

\* An ACK takes at most the entry with its key out of the dict.
LEMMA PyReceiveAckShape ==
  ASSUME NTypeOK, PyTypes, NEW n \in PyNodes, NEW f \in net, PyReceiveAnAck(n, f)
  PROVE  /\ PySettles(n, "acked") /\ f.ack /\ f.dst = n
         /\ \/ py'[n] = py[n]
            \/ \E k \in DOMAIN py[n].pending :
                 /\ py[n].pending[k].frame.dst = f.src
                 /\ py[n].pending[k].frame.seq = acked_seq(f)
                 /\ \A i \in DOMAIN py[n].pending \ {k} :
                      \E j \in DOMAIN py'[n].pending : py'[n].pending[j] = py[n].pending[i]
<1>1. py \in [PyNodes -> PyT] /\ py[n] \in PyT /\ f \in Frames
  BY DEF PyTypes, NTypeOK
<1>2. PICK y : y = Py!handle_ack(py[n], f)
  OBVIOUS
<1>3. /\ y \in PyT /\ y.next_seq = py[n].next_seq /\ SameRest(py[n], y)
      /\ \A j \in DOMAIN y.pending : \E i \in DOMAIN py[n].pending : y.pending[j] = py[n].pending[i]
      /\ \/ y = py[n]
         \/ \E k \in DOMAIN py[n].pending :
              /\ py[n].pending[k].frame.dst = f.src /\ py[n].pending[k].frame.seq = acked_seq(f)
              /\ \A i \in DOMAIN py[n].pending \ {k} :
                   \E j \in DOMAIN y.pending : y.pending[j] = py[n].pending[i]
  BY <1>1, <1>2, PyHandleAck
<1>4. /\ f.dst = n /\ f.ack /\ py' = [py EXCEPT ![n] = y]
      /\ status' = [c \in Calls |->
                      IF c \in PyCalls(py[n].pending) \ PyCalls(y.pending)
                      THEN "acked" ELSE status[c]]
      /\ UNCHANGED <<ep, net, draws, reboots, deliveries>>
  BY <1>2 DEF PyReceiveAnAck
<1>5. py'[n] = y /\ py' \in [PyNodes -> PyT] /\ \A m \in PyNodes \ {n} : py'[m] = py[m]
  BY <1>1, <1>3, <1>4
<1>6. \A j \in DOMAIN y.pending :
        \E i \in DOMAIN py[n].pending : y.pending[j].frame = py[n].pending[i].frame
  BY <1>3
<1>7. PySettles(n, "acked")
  BY <1>3, <1>4, <1>5, <1>6 DEF PySettles
<1> QED BY <1>3, <1>4, <1>5, <1>7

\* The entry was that of a frame which its receiver delivered.
LEMMA PyAckWasEarned ==
  ASSUME NTypeOK, PyTypes, DeliveryInv(CNodes), PyDeliveryInv,
         NEW n \in PyNodes, NEW f \in net, PyReceiveAnAck(n, f)
  PROVE  \/ PyCalls(py[n].pending) \ PyCalls(py'[n].pending) = {}
         \/ \E c \in Calls :
              /\ PyCalls(py[n].pending) \ PyCalls(py'[n].pending) = {c}
              /\ status[c] = "parked" /\ (deliveries[c] > 0 \/ reboots[c.dst] > 0)
<1> USE DEF DeliveryInv, PyDeliveryInv
<1> DEFINE R == PyCalls(py[n].pending) \ PyCalls(py'[n].pending)
<1>1. CASE R = {}
  BY <1>1
<1>2. CASE R # {}
  <2>1. py'[n] # py[n]
    BY <1>2
  <2>2. f.ack /\ f.dst = n /\ f.src \in Nodes
    BY PyReceiveAckShape DEF NTypeOK, Frames
  <2>3. PICK k \in DOMAIN py[n].pending :
          /\ py[n].pending[k].frame.dst = f.src
          /\ py[n].pending[k].frame.seq = acked_seq(f)
          /\ \A i \in DOMAIN py[n].pending \ {k} :
               \E j \in DOMAIN py'[n].pending : py'[n].pending[j] = py[n].pending[i]
    BY <2>1, PyReceiveAckShape
  <2>4. PICK g : g = py[n].pending[k].frame
    OBVIOUS
  <2>5. g \in DataFrames /\ g.src = n /\ status[CallOf(g)] = "parked"
    BY <2>4 DEF DictHoldsParked
  <2>6. CallOf(g) \in Calls /\ CallOf(g).dst = f.src
    BY <2>3, <2>4, <2>5 DEF FramesOfCalls
  <2>7. ASSUME NEW c \in R PROVE c = CallOf(g)
    <3>1. PICK i \in DOMAIN py[n].pending : c = CallOf(py[n].pending[i].frame)
      BY PyCallsOf
    <3>2. c \notin PyCalls(py'[n].pending)
      OBVIOUS
    <3>3. i = k
      BY <2>3, <3>1, <3>2, PyCallsOf
    <3> QED BY <2>4, <3>1, <3>3
  <2>8. deliveries[CallOf(g)] > 0 \/ reboots[f.src] > 0
    <3>1. SUFFICES ASSUME ~(reboots[f.src] > 0) PROVE deliveries[CallOf(g)] > 0
      OBVIOUS
    <3>2. PICK d \in DataFrames :
            d.src = n /\ d.seq = acked_seq(f) /\ deliveries[CallOf(d)] > 0
      BY <2>2, <3>1 DEF AcksAreEarned
    <3>3. d = g
      BY <2>3, <2>4, <2>5, <3>2 DEF OneFramePerCall
    <3> QED BY <3>2, <3>3
  <2>9. R = {CallOf(g)}
    BY <1>2, <2>7
  <2> QED BY <2>5, <2>6, <2>8, <2>9
<1> QED BY <1>1, <1>2

\* An ACK settles the call whose frame it was earned with.
LEMMA DeliveryPyReceiveAck ==
  ASSUME SeqsAreEnough, NTypeOK, PyTypes, DeliveryInv(CNodes), PyDeliveryInv,
         NEW n \in PyNodes, NEW f \in net, PyReceiveAnAck(n, f)
  PROVE  PyActs(n) /\ DeliveryInv(CNodes)' /\ PyDeliveryInv'
<1> DEFINE R == PyCalls(py[n].pending) \ PyCalls(py'[n].pending)
<1>1. PySettles(n, "acked")
  BY PyReceiveAckShape
<1>2. /\ \A c \in Calls : status'[c] = IF c \in R THEN "acked" ELSE status[c]
      /\ deliveries' = deliveries /\ reboots' = reboots
  BY <1>1 DEF PySettles
<1>3. \A c \in R : deliveries[c] > 0 \/ reboots[c.dst] > 0
  BY PyAckWasEarned
<1> HIDE DEF R
<1>4. AckedUnlessCrashed'
  BY <1>2, <1>3 DEF AckedUnlessCrashed, DeliveryInv
<1> QED BY <1>1, <1>4, DeliveryPySettles

\* A tick gives up entries of the dict.
LEMMA PyTickShape ==
  ASSUME NTypeOK, PyTypes, NEW n \in PyNodes, NEW Q, PyTick(n, Q)
  PROVE  PySettles(n, "failed")
<1>1. py \in [PyNodes -> PyT] /\ py[n] \in PyT
  BY DEF PyTypes
<1>2. PICK y : y = Py!tick(py[n], Q)
  OBVIOUS
<1>3. /\ y \in PyT /\ y.next_seq = py[n].next_seq /\ SameRest(py[n], y)
      /\ \A j \in DOMAIN y.pending :
           \E i \in DOMAIN py[n].pending : y.pending[j].frame = py[n].pending[i].frame
  BY <1>1, <1>2, PyTickLeaves
<1>4. /\ py' = [py EXCEPT ![n] = y]
      /\ status' = [c \in Calls |->
                      IF c \in PyCalls(py[n].pending) \ PyCalls(y.pending)
                      THEN "failed" ELSE status[c]]
      /\ UNCHANGED <<ep, net, draws, reboots, deliveries>>
  BY <1>2 DEF PyTick
<1>5. py'[n] = y /\ py' \in [PyNodes -> PyT] /\ \A m \in PyNodes \ {n} : py'[m] = py[m]
  BY <1>1, <1>3, <1>4
<1> QED BY <1>3, <1>4, <1>5 DEF PySettles

\* A tick confirms nothing.
LEMMA DeliveryPyTick ==
  ASSUME SeqsAreEnough, NTypeOK, PyTypes, DeliveryInv(CNodes), PyDeliveryInv,
         NEW n \in PyNodes, NEW Q, PyTick(n, Q)
  PROVE  PyActs(n) /\ DeliveryInv(CNodes)' /\ PyDeliveryInv'
<1>1. PySettles(n, "failed")
  BY PyTickShape
<1>2. AckedUnlessCrashed'
  BY <1>1 DEF PySettles, AckedUnlessCrashed, DeliveryInv
<1> QED BY <1>1, <1>2, DeliveryPySettles

\* What a reliable frame f does to the Python node that receives it.
PyReceives(n, f) ==
  /\ PyActs(n) /\ NTypeOK' /\ f \in DataFrames /\ f.dst = n
  /\ py'[n].pending = py[n].pending
  /\ \E a : /\ net' = net \cup {a} /\ a.ack
            /\ a.src = n /\ a.dst = f.src /\ acked_seq(a) = f.seq
  /\ status' = status
  /\ Py!IsDuplicate(py[n], f) => deliveries' = deliveries
  /\ ~Py!IsDuplicate(py[n], f) => deliveries' = [deliveries EXCEPT ![CallOf(f)] = @ + 1]

PyRemembers(n, f) ==
  /\ Py!seen_key(f) \in py'[n].seen
  /\ \A k \in py'[n].seen : k \in py[n].seen \/ k = Py!seen_key(f)
  /\ \A k \in py[n].seen : Py!SameSession(py[n], f) \/ k[1] # f.src => k \in py'[n].seen
  /\ \A s \in DOMAIN py'[n].source_sessions :
       \/ s = f.src /\ py'[n].source_sessions[s] = f.session
       \/ /\ s \in DOMAIN py[n].source_sessions
          /\ py'[n].source_sessions[s] = py[n].source_sessions[s]
  /\ DOMAIN py'[n].source_sessions = DOMAIN py[n].source_sessions \cup {f.src}
  /\ Py!IsDuplicate(py[n], f) => Py!seen_key(f) \in py[n].seen
  /\ ~Py!IsDuplicate(py[n], f) =>
       Py!seen_key(f) \notin py[n].seen \/ (~Py!SameSession(py[n], f) /\ Py!seen_key(f)[1] = f.src)

\* receive of a reliable frame.
LEMMA PyReceiveShape ==
  ASSUME NTypeOK, PyTypes, NEW n \in PyNodes, NEW f \in net, PyReceiveData(n, f)
  PROVE  PyReceives(n, f) /\ PyRemembers(n, f)
<1>1. /\ n \in Nodes /\ py \in [PyNodes -> PyT] /\ py[n] \in PyT /\ py[n].my_addr = n
      /\ draws \in [Nodes -> 0 .. MaxDraws] /\ deliveries \in [Calls -> Nat] /\ f \in Frames
  BY SomePython DEF NTypeOK, PyTypes
<1>2. PICK y : y = Py!Remember(Py!Acknowledge(py[n], f), f)
  OBVIOUS
<1>3. PICK a : a = Py!send_ack(py[n], f)
  OBVIOUS
<1>4. /\ f.dst = n /\ ~f.ack /\ Draw(n)
      /\ py' = [py EXCEPT ![n] = y]
      /\ net' = net \cup {a}
      /\ Py!IsDuplicate(py[n], f) => deliveries' = deliveries
      /\ ~Py!IsDuplicate(py[n], f) => deliveries' = [deliveries EXCEPT ![CallOf(f)] = @ + 1]
      /\ ep' = ep /\ reboots' = reboots /\ status' = status
  BY <1>2, <1>3 DEF PyReceiveData
<1>5. a \in Frames /\ a.ack /\ a.src = n /\ a.dst = f.src /\ acked_seq(a) = f.seq
  BY <1>1, <1>3, PyAckFrame
<1>6. /\ y \in PyT /\ y.next_seq = (py[n].next_seq + 1) % SEQ_VALUES
      /\ y.my_addr = py[n].my_addr /\ y.session = py[n].session /\ y.pending = py[n].pending
  BY <1>1, <1>2, PyReceive
<1>7. py'[n] = y /\ py' \in [PyNodes -> PyT] /\ \A m \in PyNodes \ {n} : py'[m] = py[m]
  BY <1>1, <1>4, <1>6
<1>8. /\ draws[n] < MaxDraws /\ draws'[n] = draws[n] + 1 /\ draws' \in [Nodes -> 0 .. MaxDraws]
      /\ \A m \in Nodes \ {n} : draws'[m] = draws[m]
  BY <1>1, <1>4, Population DEF Draw
<1>9. deliveries' \in [Calls -> Nat]
  BY <1>1, <1>4
<1>10. NTypeOK'
  BY <1>4, <1>5, <1>8, <1>9 DEF NTypeOK
<1>11. PyActs(n)
  <2>1. PyAdvances(n)
    BY <1>6, <1>7, <1>8 DEF PyAdvances
  <2> QED BY <1>4, <1>6, <1>7, <1>8, <2>1 DEF PyActs
<1>12. f \in DataFrames
  BY <1>4 DEF DataFrames
<1>13. PyReceives(n, f)
  BY <1>4, <1>5, <1>6, <1>7, <1>10, <1>11, <1>12 DEF PyReceives
<1>14. PyRemembers(n, f)
  <2>1. /\ Py!seen_key(f) \in y.seen
        /\ \A k \in y.seen : k \in py[n].seen \/ k = Py!seen_key(f)
        /\ \A k \in py[n].seen : Py!SameSession(py[n], f) \/ k[1] # f.src => k \in y.seen
    BY <1>1, <1>2, PyReceive
  <2>2. /\ \A s \in DOMAIN y.source_sessions :
             \/ s = f.src /\ y.source_sessions[s] = f.session
             \/ /\ s \in DOMAIN py[n].source_sessions
                /\ y.source_sessions[s] = py[n].source_sessions[s]
        /\ DOMAIN y.source_sessions = DOMAIN py[n].source_sessions \cup {f.src}
    BY <1>1, <1>2, PyReceive
  <2>3. /\ Py!IsDuplicate(py[n], f) => Py!seen_key(f) \in py[n].seen
        /\ ~Py!IsDuplicate(py[n], f) =>
             Py!seen_key(f) \notin py[n].seen
               \/ (~Py!SameSession(py[n], f) /\ Py!seen_key(f)[1] = f.src)
    BY <1>1, <1>2, PyReceive
  <2> QED BY <1>7, <2>1, <2>2, <2>3 DEF PyRemembers
<1> QED BY <1>13, <1>14

\* A frame that is taken for a duplicate was delivered.
LEMMA PyDuplicateWasDelivered ==
  ASSUME OneFramePerCall, PyKeysAreDelivered, NEW n \in PyNodes, NEW f \in DataFrames,
         Py!seen_key(f) \in py[n].seen
  PROVE  deliveries[CallOf(f)] > 0
<1>1. PICK g \in DataFrames : Py!seen_key(g) = Py!seen_key(f) /\ deliveries[CallOf(g)] > 0
  BY DEF PyKeysAreDelivered
<1>2. g.src = f.src /\ g.seq = f.seq
  BY <1>1 DEF Py!seen_key
<1>3. g = f
  BY <1>2 DEF OneFramePerCall
<1> QED BY <1>1, <1>3

\* An ACK goes out for a frame that is delivered, or was before.
LEMMA DeliveryPyReceiveData ==
  ASSUME SeqsAreEnough, NTypeOK, PyTypes, DeliveryInv(CNodes), PyDeliveryInv,
         NEW n \in PyNodes, NEW f \in net, PyReceiveData(n, f)
  PROVE  DeliveryInv(CNodes)' /\ PyDeliveryInv'
<1> USE DEF DeliveryInv, PyDeliveryInv
<1>1. /\ PyActs(n) /\ f \in DataFrames /\ f.dst = n
      /\ py'[n].pending = py[n].pending /\ status' = status
      /\ Py!IsDuplicate(py[n], f) => deliveries' = deliveries
      /\ ~Py!IsDuplicate(py[n], f) => deliveries' = [deliveries EXCEPT ![CallOf(f)] = @ + 1]
  BY PyReceiveShape DEF PyReceives
<1>2. PICK a : /\ net' = net \cup {a} /\ a.ack
               /\ a.src = n /\ a.dst = f.src /\ acked_seq(a) = f.seq
  BY PyReceiveShape DEF PyReceives
<1>3. /\ \A k \in py'[n].seen : k \in py[n].seen \/ k = Py!seen_key(f)
      /\ Py!IsDuplicate(py[n], f) => Py!seen_key(f) \in py[n].seen
  BY PyReceiveShape DEF PyRemembers
<1>4. CallOf(f) \in Calls /\ deliveries \in [Calls -> Nat] /\ reboots' = reboots
  BY <1>1 DEF FramesOfCalls, NTypeOK, PyActs
<1>5. Py!IsDuplicate(py[n], f) => deliveries[CallOf(f)] > 0
  BY <1>1, <1>3, PyDuplicateWasDelivered
<1>6. /\ deliveries'[CallOf(f)] > 0
      /\ \A c \in Calls : deliveries[c] > 0 => deliveries'[c] > 0
  BY <1>1, <1>4, <1>5
<1>7. DataFrames' = DataFrames
  BY <1>2 DEF DataFrames
<1>8. Grows /\ StaysSent
  BY <1>1, <1>4, <1>6, <1>7 DEF Grows, StaysSent
<1>9. FramesOfCalls' /\ SeqsWereTaken(CNodes)' /\ PySeqsWereTaken' /\ OneFramePerCall'
  BY <1>1, <1>7, <1>8, PySameFrames
<1>10. OwnDict(n)
  BY <1>1, <1>7 DEF OwnDict, DictHoldsParked
<1>11. OwnKeys(n)
  BY <1>1, <1>3, <1>6 DEF OwnKeys
<1>12. NewAcksAreEarned
  BY <1>1, <1>2, <1>6, <1>7 DEF NewAcksAreEarned
<1>13. AckedUnlessCrashed'
  BY <1>1, <1>4, <1>6 DEF AckedUnlessCrashed
<1> QED BY <1>1, <1>8, <1>9, <1>10, <1>11, <1>12, <1>13, PyDelivery

\* What the Python node that acts must see to itself.
OwnSources(n) ==
  /\ \A s \in DOMAIN py'[n].source_sessions :
       (\E c \in Calls : c.src = s) /\ py'[n].source_sessions[s] = ep[s].session
  /\ \A k \in py'[n].seen : k[1] \in DOMAIN py'[n].source_sessions

OwnDeliveries(n) ==
  \A f \in DataFrames' : f.dst = n =>
    \/ deliveries'[CallOf(f)] <= reboots[n]
    \/ deliveries'[CallOf(f)] = reboots[n] + 1 /\ Py!seen_key(f) \in py'[n].seen

\* The rest follows.
LEMMA PyOnce ==
  ASSUME NTypeOK, NTypeOK', FramesOfCalls', OnceInv(CNodes), PyOnceInv,
         NEW n \in PyNodes, PyActs(n), OwnSources(n), OwnDeliveries(n), DeliveredHaveFrames',
         \A f \in DataFrames' \ DataFrames : deliveries[CallOf(f)] = 0,
         \A c \in Calls : c.dst # n => deliveries'[c] = deliveries[c]
  PROVE  OnceInv(CNodes)' /\ PyOnceInv'
<1> USE DEF OnceInv, PyOnceInv
<1>1. ep' = ep /\ reboots' = reboots /\ \A m \in PyNodes \ {n} : py'[m] = py[m]
  BY DEF PyActs
<1>2. SourcesAreCurrent' /\ KeysAreDistinct'
  BY <1>1 DEF SourcesAreCurrent, KeysAreDistinct
<1>3. ASSUME NEW f \in DataFrames', f.dst # n
      PROVE  /\ deliveries'[CallOf(f)] = deliveries[CallOf(f)]
             /\ f \notin DataFrames => deliveries'[CallOf(f)] <= reboots'[f.dst]
  <2>1. CallOf(f) \in Calls /\ CallOf(f).dst # n /\ f.dst \in Nodes
    BY <1>3, Population DEF FramesOfCalls
  <2>2. reboots[f.dst] \in Nat
    BY <2>1, Population DEF NTypeOK
  <2>3. deliveries'[CallOf(f)] = deliveries[CallOf(f)]
    BY <2>1
  <2> QED BY <1>1, <2>2, <2>3
<1>4. DeliveredKeysAreSeen(CNodes)'
  <2>1. ASSUME NEW f \in DataFrames', f.dst \in CNodes
        PROVE  \/ deliveries'[CallOf(f)] <= reboots'[f.dst]
               \/ /\ deliveries'[CallOf(f)] = reboots'[f.dst] + 1
                  /\ seen_contains(ep'[f.dst].seen, seen_key(f))
    <3>1. f.dst # n
      BY <2>1 DEF CNodes
    <3> QED BY <1>1, <1>3, <2>1, <3>1 DEF DeliveredKeysAreSeen
  <2> QED BY <2>1 DEF DeliveredKeysAreSeen
<1>5. PySourcesAreCurrent'
  <2>1. ASSUME NEW m \in PyNodes
        PROVE  /\ \A s \in DOMAIN py'[m].source_sessions :
                    (\E c \in Calls : c.src = s) /\ py'[m].source_sessions[s] = ep'[s].session
               /\ \A k \in py'[m].seen : k[1] \in DOMAIN py'[m].source_sessions
    <3>1. CASE m = n
      BY <1>1, <3>1 DEF OwnSources
    <3>2. CASE m # n
      BY <1>1, <3>2 DEF PySourcesAreCurrent
    <3> QED BY <3>1, <3>2
  <2> QED BY <2>1 DEF PySourcesAreCurrent
<1>6. PyDeliveredKeysAreSeen'
  <2>1. ASSUME NEW f \in DataFrames', f.dst \in PyNodes
        PROVE  \/ deliveries'[CallOf(f)] <= reboots'[f.dst]
               \/ /\ deliveries'[CallOf(f)] = reboots'[f.dst] + 1
                  /\ Py!seen_key(f) \in py'[f.dst].seen
    <3>1. CASE f.dst = n
      BY <1>1, <3>1 DEF OwnDeliveries
    <3>2. CASE f.dst # n
      BY <1>1, <1>3, <2>1, <3>2 DEF PyDeliveredKeysAreSeen
    <3> QED BY <3>1, <3>2
  <2> QED BY <2>1 DEF PyDeliveredKeysAreSeen, Py!seen_key
<1> QED BY <1>2, <1>4, <1>5, <1>6

\* Sends, ACKs and ticks leave the receiving side of a Python node alone.
LEMMA PyOnceStays ==
  ASSUME NTypeOK, NTypeOK', FramesOfCalls', OnceInv(CNodes), PyOnceInv,
         NEW n \in PyNodes, PyActs(n), deliveries' = deliveries,
         py'[n].seen = py[n].seen, py'[n].source_sessions = py[n].source_sessions,
         DataFrames \subseteq DataFrames',
         \A f \in DataFrames' \ DataFrames : deliveries[CallOf(f)] = 0
  PROVE  OnceInv(CNodes)' /\ PyOnceInv'
<1>1. OwnSources(n)
  BY DEF OwnSources, PyOnceInv, PySourcesAreCurrent
<1>2. OwnDeliveries(n)
  <2>1. ASSUME NEW f \in DataFrames', f.dst = n
        PROVE  \/ deliveries'[CallOf(f)] <= reboots[n]
               \/ deliveries'[CallOf(f)] = reboots[n] + 1 /\ Py!seen_key(f) \in py'[n].seen
    <3>1. CASE f \in DataFrames
      BY <2>1, <3>1 DEF PyOnceInv, PyDeliveredKeysAreSeen
    <3>2. CASE f \notin DataFrames
      <4>1. n \in Nodes /\ reboots[n] \in Nat
        BY SomePython, Population DEF NTypeOK
      <4> QED BY <3>2, <4>1
    <3> QED BY <3>1, <3>2
  <2> QED BY <2>1 DEF OwnDeliveries
<1>3. DeliveredHaveFrames'
  BY DEF DeliveredHaveFrames, OnceInv
<1> QED BY <1>1, <1>2, <1>3, PyOnce

\* A send.
LEMMA OncePySend ==
  ASSUME NTypeOK, PyTypes, FramesOfCalls, FramesOfCalls', OnceInv(CNodes), PyOnceInv,
         NEW c \in Calls, c.src \in PyNodes, NEW rel \in BOOLEAN,
         NEW fl \in BOOLEAN, PySend(c, rel, fl)
  PROVE  OnceInv(CNodes)' /\ PyOnceInv'
<1>1. PICK new : PySends(c, new)
  BY PySendShape
<1>2. /\ PyActs(c.src) /\ NTypeOK' /\ deliveries' = deliveries
      /\ py'[c.src].seen = py[c.src].seen
      /\ py'[c.src].source_sessions = py[c.src].source_sessions
      /\ net' = net \cup {new} /\ CallOf(new) = c /\ status[c] = "unused"
  BY <1>1 DEF PySends
<1>3. deliveries[c] = 0
  BY <1>2, UnusedIsNotDelivered DEF OnceInv
<1>4. DataFrames \subseteq DataFrames' /\ \A f \in DataFrames' \ DataFrames : f = new
  BY <1>2 DEF DataFrames
<1> QED BY <1>2, <1>3, <1>4, PyOnceStays

\* An ACK or a tick.
LEMMA OncePySettles ==
  ASSUME NTypeOK, NTypeOK', FramesOfCalls', OnceInv(CNodes), PyOnceInv,
         NEW n \in PyNodes, NEW st, PySettles(n, st), PyActs(n)
  PROVE  OnceInv(CNodes)' /\ PyOnceInv'
<1>1. /\ py'[n].seen = py[n].seen /\ py'[n].source_sessions = py[n].source_sessions
      /\ deliveries' = deliveries /\ DataFrames' = DataFrames
  BY DEF PySettles, SameRest, DataFrames
<1> QED BY <1>1, PyOnceStays

\* The session of a frame is the one noted for its source, if one is.
LEMMA PySessionIsKnown ==
  ASSUME FramesOfCalls, PySourcesAreCurrent, NEW n \in PyNodes, NEW f \in DataFrames
  PROVE  /\ f.src \in DOMAIN py[n].source_sessions => Py!SameSession(py[n], f)
         /\ \A k \in py[n].seen : Py!SameSession(py[n], f) \/ k[1] # f.src
<1>1. f.session = ep[f.src].session
  BY DEF FramesOfCalls
<1>2. f.src \in DOMAIN py[n].source_sessions => Py!SameSession(py[n], f)
  BY <1>1 DEF PySourcesAreCurrent, Py!SameSession
<1>3. \A k \in py[n].seen : k[1] \in DOMAIN py[n].source_sessions
  BY DEF PySourcesAreCurrent
<1> QED BY <1>2, <1>3

\* A copy of a delivered frame finds its key in _seen, which has no limit.
LEMMA OncePyReceiveData ==
  ASSUME NTypeOK, PyTypes, DeliveryInv(CNodes), FramesOfCalls', OnceInv(CNodes), PyOnceInv,
         NEW n \in PyNodes, NEW f \in net, PyReceiveData(n, f)
  PROVE  OnceInv(CNodes)' /\ PyOnceInv'
<1> USE DEF DeliveryInv, OnceInv, PyOnceInv
<1> DEFINE c == CallOf(f)
           key == Py!seen_key(f)
<1>1. /\ PyActs(n) /\ NTypeOK' /\ f \in DataFrames /\ f.dst = n
      /\ Py!IsDuplicate(py[n], f) => deliveries' = deliveries
      /\ ~Py!IsDuplicate(py[n], f) => deliveries' = [deliveries EXCEPT ![c] = @ + 1]
  BY PyReceiveShape DEF PyReceives
<1>2. PICK a : net' = net \cup {a} /\ a.ack
  BY PyReceiveShape DEF PyReceives
<1>3. /\ key \in py'[n].seen
      /\ \A k \in py'[n].seen : k \in py[n].seen \/ k = key
      /\ \A k \in py[n].seen : Py!SameSession(py[n], f) \/ k[1] # f.src => k \in py'[n].seen
      /\ DOMAIN py'[n].source_sessions = DOMAIN py[n].source_sessions \cup {f.src}
  BY PyReceiveShape DEF PyRemembers
<1>4. \A s \in DOMAIN py'[n].source_sessions :
        \/ s = f.src /\ py'[n].source_sessions[s] = f.session
        \/ /\ s \in DOMAIN py[n].source_sessions
           /\ py'[n].source_sessions[s] = py[n].source_sessions[s]
  BY PyReceiveShape DEF PyRemembers
<1>5. ~Py!IsDuplicate(py[n], f) =>
        key \notin py[n].seen \/ (~Py!SameSession(py[n], f) /\ key[1] = f.src)
  BY PyReceiveShape DEF PyRemembers
<1>6. /\ c \in Calls /\ c.src = f.src /\ c.dst = n /\ f.session = ep[f.src].session
      /\ deliveries \in [Calls -> Nat] /\ n \in Nodes /\ reboots[n] \in Nat
  BY <1>1, SomePython, Population DEF FramesOfCalls, NTypeOK
<1>7. \A k \in py[n].seen : Py!SameSession(py[n], f) \/ k[1] # f.src
  BY <1>1, PySessionIsKnown
<1>8. key[1] = f.src
  BY DEF Py!seen_key
<1>9. ~Py!IsDuplicate(py[n], f) => key \notin py[n].seen
  BY <1>5, <1>7
<1>10. DataFrames' = DataFrames
  BY <1>2 DEF DataFrames
<1> HIDE DEF key, c
<1>11. OwnSources(n)
  <2>1. \A s \in DOMAIN py'[n].source_sessions :
          (\E d \in Calls : d.src = s) /\ py'[n].source_sessions[s] = ep[s].session
    BY <1>4, <1>6 DEF PySourcesAreCurrent
  <2>2. \A k \in py'[n].seen : k[1] \in DOMAIN py'[n].source_sessions
    BY <1>3, <1>8 DEF PySourcesAreCurrent
  <2> QED BY <2>1, <2>2 DEF OwnSources
<1>12. OwnDeliveries(n)
  <2>1. ASSUME NEW g \in DataFrames, g.dst = n
        PROVE  \/ deliveries'[CallOf(g)] <= reboots[n]
               \/ deliveries'[CallOf(g)] = reboots[n] + 1 /\ Py!seen_key(g) \in py'[n].seen
    <3>1. \/ deliveries[CallOf(g)] <= reboots[n]
          \/ deliveries[CallOf(g)] = reboots[n] + 1 /\ Py!seen_key(g) \in py[n].seen
      BY <2>1 DEF PyDeliveredKeysAreSeen
    <3>2. Py!seen_key(g) \in py[n].seen => Py!seen_key(g) \in py'[n].seen
      BY <1>3, <1>7
    <3>3. CASE Py!IsDuplicate(py[n], f)
      BY <1>1, <3>1, <3>2, <3>3
    <3>4. CASE ~Py!IsDuplicate(py[n], f) /\ g # f
      <4>1. CallOf(g) # c /\ CallOf(g) \in Calls
        BY <1>1, <3>4 DEF OneFramePerCall, FramesOfCalls, c
      <4>2. deliveries'[CallOf(g)] = deliveries[CallOf(g)]
        BY <1>1, <1>6, <3>4, <4>1
      <4> QED BY <3>1, <3>2, <4>2
    <3>5. CASE ~Py!IsDuplicate(py[n], f) /\ g = f
      <4>1. deliveries[c] <= reboots[n]
        BY <1>9, <3>1, <3>5 DEF c, key
      <4>2. deliveries'[c] = deliveries[c] + 1 /\ deliveries[c] \in Nat
        BY <1>1, <1>6, <3>5
      <4>3. deliveries'[c] <= reboots[n] \/ deliveries'[c] = reboots[n] + 1
        BY <1>6, <4>1, <4>2
      <4> QED BY <1>3, <3>5, <4>3 DEF c, key
    <3> QED BY <3>3, <3>4, <3>5
  <2> QED BY <1>10, <2>1 DEF OwnDeliveries
<1>13. \A d \in Calls : d.dst # n => deliveries'[d] = deliveries[d]
  BY <1>1, <1>6
<1>14. DeliveredHaveFrames'
  <2>1. \A d \in Calls : deliveries'[d] > 0 => \E g \in DataFrames : CallOf(g) = d
    BY <1>1, <1>6 DEF DeliveredHaveFrames, c
  <2> QED BY <1>10, <2>1 DEF DeliveredHaveFrames
<1> QED BY <1>1, <1>10, <1>11, <1>12, <1>13, <1>14, PyOnce

----------------------------------------------------------------------------
(* What a step of a C node leaves of the Python nodes and their calls.     *)

\* The node of a step is the only one whose endpoint changes.
LEMMA CLeavesPy ==
  ASSUME NTypeOK, StepOf(CNodes) \/ UNCHANGED nvars, NEW m \in PyNodes
  PROVE  ep'[m] = ep[m] /\ draws'[m] = draws[m] /\ reboots'[m] = reboots[m]
<1>1. /\ m \in Nodes /\ m \notin CNodes /\ ep \in [Nodes -> T]
      /\ draws \in [Nodes -> 0 .. MaxDraws] /\ reboots \in [Nodes -> 0 .. MaxReboots]
  BY SomePython DEF CNodes, NTypeOK, T
<1>2. ASSUME NEW c \in Calls, c.src \in CNodes,
             \/ \E t \in Clocks : SendReliable(c, t)
             \/ \E flagged \in BOOLEAN : SendUnreliable(c, flagged)
             \/ SendBufferFull(c)
      PROVE  ep'[m] = ep[m] /\ draws'[m] = draws[m] /\ reboots'[m] = reboots[m]
  <2>1. m # c.src /\ Draw(c.src) /\ reboots' = reboots
    BY <1>1, <1>2 DEF SendReliable, SendUnreliable, SendBufferFull
  <2>2. \E x : ep' = [ep EXCEPT ![c.src] = x]
    BY <1>2 DEF SendReliable, SendUnreliable, SendBufferFull
  <2> QED BY <1>1, <2>1, <2>2 DEF Draw
<1>3. ASSUME NEW n \in CNodes, NEW f \in net, ReceiveData(n, f) \/ ReceiveAnAck(n, f)
      PROVE  ep'[m] = ep[m] /\ draws'[m] = draws[m] /\ reboots'[m] = reboots[m]
  <2>1. m # n /\ ep' = [ep EXCEPT ![n] = arc_reliable_receive(ep[n], f)] /\ reboots' = reboots
    BY <1>1, <1>3 DEF ReceiveData, ReceiveAnAck
  <2>2. Draw(n) \/ draws' = draws
    BY <1>3 DEF ReceiveData, ReceiveAnAck
  <2> QED BY <1>1, <2>1, <2>2 DEF Draw
<1>4. ASSUME NEW n \in CNodes, NEW t \in Clocks, Tick(n, t)
      PROVE  ep'[m] = ep[m] /\ draws'[m] = draws[m] /\ reboots'[m] = reboots[m]
  BY <1>1, <1>4 DEF Tick
<1>5. ASSUME NEW n \in CNodes, Reboot(n) \/ \E f \in net : CrashInReceive(n, f)
      PROVE  ep'[m] = ep[m] /\ draws'[m] = draws[m] /\ reboots'[m] = reboots[m]
  <2>1. Restart(n) /\ n \in Nodes /\ m # n
    BY <1>1, <1>5 DEF Reboot, CrashInReceive, CNodes
  <2> QED BY <1>1, <2>1, RestartShape
<1>6. CASE UNCHANGED nvars
  BY <1>6 DEF nvars
<1> QED BY <1>2, <1>3, <1>4, <1>5, <1>6 DEF StepOf

\* What it does to calls and frames.
CEffects ==
  /\ \A c \in Calls : /\ ep'[c.src].session = ep[c.src].session
                      /\ c.src \in PyNodes => status'[c] = status[c]
                      /\ c.dst \in PyNodes => deliveries'[c] = deliveries[c]
  /\ DataFrames \subseteq DataFrames'
  /\ \A f \in DataFrames' \ DataFrames :
       f.src \in CNodes /\ CallOf(f) \in Calls /\ status[CallOf(f)] = "unused"

\* A send of a C node.
LEMMA CEffectsSend ==
  ASSUME NTypeOK, NEW c \in Calls, c.src \in CNodes,
         \/ \E t \in Clocks : SendReliable(c, t)
         \/ \E flagged \in BOOLEAN : SendUnreliable(c, flagged)
         \/ SendBufferFull(c)
  PROVE  CEffects
<1>1. c.src \in Nodes /\ c.src \notin PyNodes /\ ep \in [Nodes -> T] /\ \A d \in Calls : d.src \in Nodes
  BY Population DEF NTypeOK, T, CNodes
<1>2. status[c] = "unused" /\ deliveries' = deliveries
  BY DEF SendReliable, SendUnreliable, SendBufferFull
<1>3. \A n \in Nodes : ep'[n].session = ep[n].session
  <2>1. ASSUME NEW t \in Clocks, SendReliable(c, t)
        PROVE  /\ ep' = [ep EXCEPT ![c.src] = ep'[c.src]]
               /\ ep'[c.src].session = ep[c.src].session
    BY <2>1, ParkedShape
  <2>2. CASE \E t \in Clocks : SendReliable(c, t)
    BY <1>1, <2>1, <2>2
  <2>3. CASE \/ \E flagged \in BOOLEAN : SendUnreliable(c, flagged)
             \/ SendBufferFull(c)
    <3>1. ep' = [ep EXCEPT ![c.src] = take_seq(ep[c.src])]
      BY <2>3 DEF SendUnreliable, SendBufferFull
    <3> QED BY <1>1, <3>1, UnparkedShape
  <2> QED BY <2>2, <2>3
<1>4. \A d \in Calls : d # c => status'[d] = status[d]
  <2>1. \E st : status' = [status EXCEPT ![c] = st]
    BY DEF SendReliable, SendUnreliable, SendBufferFull
  <2> QED BY <2>1 DEF NTypeOK
<1>5. \E rel \in BOOLEAN : \E t : net' \subseteq net \cup {SentFrame(c, rel, t)} /\ net \subseteq net'
  BY DEF SendReliable, SendUnreliable, SendBufferFull
<1>6. DataFrames \subseteq DataFrames' /\ \A f \in DataFrames' \ DataFrames : CallOf(f) = c /\ f.src = c.src
  <2>1. \A rel \in BOOLEAN : \A t : LET f == SentFrame(c, rel, t) IN CallOf(f) = c /\ f.src = c.src
    BY SentFrameIs DEF CallOf
  <2> QED BY <1>5, <2>1 DEF DataFrames
<1> QED BY <1>1, <1>2, <1>3, <1>4, <1>6 DEF CEffects

\* The other steps of a C node add no data frame.
LEMMA CEffectsRest ==
  ASSUME SendersStay, NTypeOK, DeliveryInv(CNodes), NEW n \in CNodes,
         \/ \E f \in net : ReceiveData(n, f) \/ ReceiveAnAck(n, f) \/ CrashInReceive(n, f)
         \/ \E t \in Clocks : Tick(n, t)
         \/ Reboot(n)
  PROVE  CEffects
<1> USE DEF DeliveryInv
<1>1. /\ n \in Nodes /\ n \notin PyNodes /\ ep \in [Nodes -> T]
      /\ \A c \in Calls : c.src \in Nodes
      /\ status \in [Calls -> Statuses] /\ deliveries \in [Calls -> Nat]
  BY Population DEF CNodes, NTypeOK, T
<1>2. ASSUME NEW f \in net, ReceiveData(n, f) PROVE CEffects
  <2>1. /\ f \in Frames /\ f \in DataFrames /\ ep' = [ep EXCEPT ![n] = ep'[n]]
        /\ ep'[n].session = ep[n].session /\ net' = net \cup {emit_ack(ep[n], f)}
    BY <1>1, <1>2, ReceiveDataShape
  <2>2. deliveries' = deliveries \/ deliveries' = [deliveries EXCEPT ![CallOf(f)] = @ + 1]
    BY <1>2 DEF ReceiveData
  <2>3. f.dst = n /\ status' = status
    BY <1>2 DEF ReceiveData
  <2>4. emit_ack(ep[n], f).ack /\ CallOf(f) \in Calls /\ CallOf(f).dst = n
    BY <1>1, <2>1, <2>3, AckFrame DEF FramesOfCalls
  <2>5. DataFrames' = DataFrames
    BY <2>1, <2>4 DEF DataFrames
  <2>6. \A m \in Nodes : ep'[m].session = ep[m].session
    BY <1>1, <2>1
  <2>7. \A c \in Calls : c.dst \in PyNodes => deliveries'[c] = deliveries[c]
    BY <1>1, <2>2, <2>4
  <2> QED BY <1>1, <2>3, <2>5, <2>6, <2>7 DEF CEffects
<1>3. ASSUME NEW f \in net, ReceiveAnAck(n, f) PROVE CEffects
  <2>1. \A m \in Nodes : ep'[m].session = ep[m].session
    BY <1>1, <1>3, ReceiveAckShape
  <2>2. deliveries' = deliveries /\ DataFrames' = DataFrames
    BY <1>3 DEF ReceiveAnAck, DataFrames
  <2>3. \A c \in Calls : c.src \in PyNodes => status'[c] = status[c]
    <3>1. CASE AckedSlots(ep[n], f) = {}
      BY <1>3, <3>1 DEF ReceiveAnAck
    <3>2. CASE AckedSlots(ep[n], f) # {}
      <4>1. PICK p : p = ep[n].pending[AckedSlot(ep[n], f)]
        OBVIOUS
      <4>2. AckedSlot(ep[n], f) \in PendingSlots /\ p # Free
        BY <1>1, <3>2, <4>1, AckedSlotUsed DEF T
      <4>3. CallOf(p) \in Calls /\ CallOf(p).src = n
        BY <1>1, <4>1, <4>2, SlotCall
      <4>4. status' = [status EXCEPT ![CallOf(p)] = "acked"]
        BY <1>3, <3>2, <4>1 DEF ReceiveAnAck
      <4> QED BY <1>1, <4>3, <4>4
    <3> QED BY <3>1, <3>2
  <2> QED BY <1>1, <2>1, <2>2, <2>3 DEF CEffects
<1>4. ASSUME NEW t \in Clocks, Tick(n, t) PROVE CEffects
  <2>1. \A m \in Nodes : ep'[m].session = ep[m].session
    BY <1>1, <1>4, TickShape
  <2>2. \A i \in RetriedSlots(ep[n], t) : pending_to_frame(ep[n].pending[i], n) \in net
    BY <1>1, TickedSlots DEF SlotsHoldParked, DataFrames
  <2>3. net' = net /\ deliveries' = deliveries
    BY <1>4, <2>2 DEF Tick
  <2>4. DataFrames' = DataFrames
    BY <2>3 DEF DataFrames
  <2>5. \A c \in CallsIn(n, FailedSlots(ep[n], t)) : c.src = n
    BY <1>1, GivenUpCalls
  <2>6. \A c \in Calls : c.src \in PyNodes => status'[c] = status[c]
    BY <1>1, <1>4, <2>5 DEF Tick
  <2> QED BY <1>1, <2>1, <2>3, <2>4, <2>6 DEF CEffects
<1>5. ASSUME Restart(n), DataFrames' = DataFrames PROVE CEffects
  <2>1. \A m \in Nodes : m # n => ep'[m] = ep[m]
    BY <1>1, <1>5, RestartShape
  <2>2. \A c \in Calls : c.src # n /\ status'[c] = status[c]
    BY <1>1, <1>5, NothingForgotten
  <2>3. deliveries' = deliveries
    BY <1>5 DEF Restart
  <2> QED BY <1>1, <1>5, <2>1, <2>2, <2>3 DEF CEffects
<1>6. ASSUME Reboot(n) PROVE CEffects
  BY <1>5, <1>6 DEF Reboot, DataFrames
<1>7. ASSUME NEW f \in net, CrashInReceive(n, f) PROVE CEffects
  <2>1. ep[n] \in T /\ f \in Frames
    BY <1>1 DEF NTypeOK
  <2>2. rx_replies(ep[n], f) \subseteq {emit_ack(ep[n], f)} /\ emit_ack(ep[n], f).ack
    BY <2>1, AckFrame DEF rx_replies
  <2>3. DataFrames' = DataFrames
    BY <1>7, <2>2 DEF CrashInReceive, DataFrames
  <2> QED BY <1>5, <1>7, <2>3 DEF CrashInReceive
<1> QED BY <1>2, <1>3, <1>4, <1>6, <1>7

\* Every step of a C node.
LEMMA CEffectsHold ==
  ASSUME SendersStay, NTypeOK, DeliveryInv(CNodes), StepOf(CNodes) \/ UNCHANGED nvars
  PROVE  CEffects
<1>1. CASE UNCHANGED nvars
  BY <1>1 DEF nvars, CEffects, DataFrames
<1>2. CASE StepOf(CNodes)
  BY <1>2, CEffectsSend, CEffectsRest DEF StepOf
<1> QED BY <1>1, <1>2

\* The invariants of the Python nodes stay.
LEMMA PyTypesStayC ==
  ASSUME NTypeOK, PyTypes, StepOf(CNodes) \/ UNCHANGED nvars, py' = py
  PROVE  PyTypes'
<1>1. \A m \in PyNodes : ep'[m] = ep[m]
  BY CLeavesPy
<1> QED BY <1>1 DEF PyTypes

\* DictHoldsParked and what else is said of the frames of Python nodes.
LEMMA PyDeliveryStaysC ==
  ASSUME SendersStay, NTypeOK, DeliveryInv(CNodes), PyDeliveryInv,
         StepOf(CNodes) \/ UNCHANGED nvars, py' = py
  PROVE  PyDeliveryInv'
<1> USE DEF PyDeliveryInv
<1>1. \A m \in PyNodes : draws'[m] = draws[m]
  BY CLeavesPy
<1>2. /\ \A c \in Calls : /\ c.src \in PyNodes => status'[c] = status[c]
                          /\ c.dst \in PyNodes => deliveries'[c] = deliveries[c]
      /\ DataFrames \subseteq DataFrames'
      /\ \A f \in DataFrames' \ DataFrames : f.src \in CNodes
  BY CEffectsHold DEF CEffects
<1>3. FramesOfCalls
  BY DEF DeliveryInv
<1>4. PySeqsWereTaken'
  <2>1. \A f \in DataFrames' : f.src \in PyNodes => f \in DataFrames
    BY <1>2 DEF CNodes
  <2>2. \A f \in DataFrames' :
          f.src \in PyNodes => TakenBefore(f.seq, py'[f.src].next_seq, draws'[f.src])
    BY <1>1, <2>1 DEF PySeqsWereTaken
  <2> QED BY <2>2 DEF PySeqsWereTaken
<1>5. DictHoldsParked'
  <2>1. ASSUME NEW m \in PyNodes, NEW i \in DOMAIN py[m].pending, NEW f,
               f = py[m].pending[i].frame
        PROVE  f \in DataFrames' /\ f.src = m /\ status'[CallOf(f)] = "parked"
    <3>1. f \in DataFrames /\ f.src = m /\ status[CallOf(f)] = "parked"
      BY <2>1 DEF DictHoldsParked
    <3>2. CallOf(f) \in Calls /\ CallOf(f).src = m
      BY <1>3, <3>1 DEF FramesOfCalls
    <3> QED BY <1>2, <3>1, <3>2
  <2> QED BY <2>1 DEF DictHoldsParked
<1>6. PyKeysAreDelivered'
  <2>1. ASSUME NEW m \in PyNodes, NEW k \in py[m].seen
        PROVE  \E f \in DataFrames' :
                 f.dst = m /\ Py!seen_key(f) = k /\ deliveries'[CallOf(f)] > 0
    <3>1. PICK f \in DataFrames :
            f.dst = m /\ Py!seen_key(f) = k /\ deliveries[CallOf(f)] > 0
      BY <2>1 DEF PyKeysAreDelivered
    <3>2. CallOf(f) \in Calls /\ CallOf(f).dst = m
      BY <1>3, <3>1 DEF FramesOfCalls
    <3> QED BY <1>2, <3>1, <3>2
  <2> QED BY <2>1 DEF PyKeysAreDelivered, Py!seen_key
<1> QED BY <1>4, <1>5, <1>6

\* And what they remember.
LEMMA PyOnceStaysC ==
  ASSUME SendersStay, NTypeOK, DeliveryInv(CNodes), FramesOfCalls', OnceInv(CNodes), PyOnceInv,
         StepOf(CNodes) \/ UNCHANGED nvars, py' = py
  PROVE  PyOnceInv'
<1> USE DEF PyOnceInv
<1>1. \A m \in PyNodes : reboots'[m] = reboots[m]
  BY CLeavesPy
<1>2. /\ \A c \in Calls : /\ ep'[c.src].session = ep[c.src].session
                          /\ c.dst \in PyNodes => deliveries'[c] = deliveries[c]
      /\ \A f \in DataFrames' \ DataFrames : CallOf(f) \in Calls /\ status[CallOf(f)] = "unused"
  BY CEffectsHold DEF CEffects
<1>3. FramesOfCalls
  BY DEF DeliveryInv
<1>4. PySourcesAreCurrent'
  BY <1>2 DEF PySourcesAreCurrent
<1>5. PyDeliveredKeysAreSeen'
  <2>1. ASSUME NEW f \in DataFrames', f.dst \in PyNodes
        PROVE  \/ deliveries'[CallOf(f)] <= reboots'[f.dst]
               \/ /\ deliveries'[CallOf(f)] = reboots'[f.dst] + 1
                  /\ Py!seen_key(f) \in py'[f.dst].seen
    <3>1. CallOf(f) \in Calls /\ CallOf(f).dst = f.dst
      BY DEF FramesOfCalls
    <3>2. deliveries'[CallOf(f)] = deliveries[CallOf(f)]
      BY <1>2, <2>1, <3>1
    <3>3. CASE f \in DataFrames
      BY <1>1, <2>1, <3>2, <3>3 DEF PyDeliveredKeysAreSeen
    <3>4. CASE f \notin DataFrames
      <4>1. deliveries[CallOf(f)] = 0
        BY <1>2, <1>3, <3>4, UnusedIsNotDelivered DEF OnceInv
      <4>2. reboots[f.dst] \in Nat
        BY <2>1, SomePython, Population DEF NTypeOK
      <4> QED BY <1>1, <2>1, <3>2, <4>1, <4>2
    <3> QED BY <3>3, <3>4
  <2> QED BY <2>1 DEF PyDeliveredKeysAreSeen, Py!seen_key
<1> QED BY <1>4, <1>5

----------------------------------------------------------------------------
(* The network of C and Python nodes.                                      *)

\* A step of it is one of a C node or one of a Python node.
LEMMA MixedSteps ==
  ASSUME [CStep \/ PyStep]_mixvars
  PROVE  PyStep \/ ((StepOf(CNodes) \/ UNCHANGED nvars) /\ py' = py)
BY DEF CStep, StepOf, mixvars

\* A step of a C node is one of ReliableNetwork.
LEMMA StepOfCNodes == StepOf(CNodes) \/ UNCHANGED nvars => [NNext]_nvars
BY DEF StepOf, NNext, CNodes

\* Python endpoints start as they are created.
LEMMA PyTypesInit == MInit => PyTypes
<1> SUFFICES ASSUME MInit PROVE PyTypes
  OBVIOUS
<1>1. NTypeOK /\ \A n \in PyNodes : n \in Nodes
  BY NTypeInit, SomePython DEF MInit
<1>2. \A n \in PyNodes : \A i \in PendingSlots : ep[n].pending[i] = Free
  <2>1. PICK s \in [Nodes -> FirstSessions], q \in [Nodes -> FirstSeqs] :
          ep = [n \in Nodes |-> arc_reliable_init(n, s[n], q[n])]
    BY DEF MInit, NInit
  <2> QED BY <1>1, <2>1 DEF arc_reliable_init, EmptyTable, PendingSlots
<1>3. ASSUME NEW n \in PyNodes
      PROVE  /\ py[n] \in PyT /\ py[n].my_addr = n /\ py[n].session = ep[n].session
  <2>1. n \in Nodes /\ ep[n].session \in Sessions /\ ep[n].next_seq \in Seqs
    BY <1>1, EndpointFields DEF NTypeOK
  <2>2. PICK q : q = ep[n].next_seq % SEQ_VALUES
    OBVIOUS
  <2>3. q \in Seqs
    BY <2>1, <2>2, Moduli DEF Seqs
  <2>4. Py!SEQ_VALUES = SEQ_VALUES
    BY DEF Py!SEQ_VALUES, SEQ_VALUES
  <2>5. PICK e : e = <<>>
    OBVIOUS
  <2>6. py[n] = [my_addr |-> n, session |-> ep[n].session, next_seq |-> q,
                 pending |-> e, seen |-> {}, source_sessions |-> e]
    BY <2>2, <2>4, <2>5 DEF MInit, Py!ReliableEndpoint
  <2>7. e \in Seq(PyPendingT)
    BY <2>5
  <2>8. e \in UNION {[A -> Sessions] : A \in SUBSET Nodes}
    <3>1. e \in [{} -> Sessions]
      BY <2>5
    <3> QED BY <3>1
  <2> QED BY <2>1, <2>3, <2>6, <2>7, <2>8 DEF PyT
<1>4. py \in [PyNodes -> PyT]
  BY <1>3 DEF MInit
<1> QED BY <1>2, <1>3, <1>4 DEF PyTypes

\* No frame is under way, no dict or set has an element.
LEMMA PyInvInit == MInit => PyDeliveryInv /\ PyOnceInv
<1> SUFFICES ASSUME MInit PROVE PyDeliveryInv /\ PyOnceInv
  OBVIOUS
<1>1. DataFrames = {}
  BY DEF MInit, NInit, DataFrames
<1>2. ASSUME NEW n \in PyNodes
      PROVE  DOMAIN py[n].pending = {} /\ py[n].seen = {} /\ DOMAIN py[n].source_sessions = {}
  <2>1. py[n].pending = <<>> /\ py[n].seen = {} /\ py[n].source_sessions = <<>>
    BY DEF MInit, Py!ReliableEndpoint
  <2> QED BY <2>1
<1>3. PyDeliveryInv
  BY <1>1, <1>2 DEF PyDeliveryInv, PySeqsWereTaken, DictHoldsParked, PyKeysAreDelivered
<1>4. PyOnceInv
  BY <1>1, <1>2 DEF PyOnceInv, PySourcesAreCurrent, PyDeliveredKeysAreSeen
<1> QED BY <1>3, <1>4

\* An ACK or a tick keeps the types.
LEMMA PySettlesTypes ==
  ASSUME NTypeOK, PyTypes, NEW n \in PyNodes, NEW st \in {"acked", "failed"}, PySettles(n, st)
  PROVE  NTypeOK' /\ PyTypes'
<1>1. /\ py' \in [PyNodes -> PyT] /\ \A m \in PyNodes \ {n} : py'[m] = py[m]
      /\ SameRest(py[n], py'[n]) /\ ep' = ep
  BY DEF PySettles
<1>2. \A m \in PyNodes : py'[m].my_addr = py[m].my_addr /\ py'[m].session = py[m].session
  BY <1>1 DEF SameRest
<1>3. PyTypes'
  BY <1>1, <1>2 DEF PyTypes
<1> QED BY <1>3, PySettlesType

\* Every step of a Python node keeps the types.
LEMMA PyStepTypes == NTypeOK /\ PyTypes /\ PyStep => NTypeOK' /\ PyTypes'
<1> SUFFICES ASSUME NTypeOK, PyTypes, PyStep PROVE NTypeOK' /\ PyTypes'
  OBVIOUS
<1>1. ASSUME NEW c \in Calls, NEW rel \in BOOLEAN, NEW fl \in BOOLEAN, c.src \in PyNodes,
             PySend(c, rel, fl)
      PROVE  NTypeOK' /\ PyTypes'
  <2>1. PICK new : PySends(c, new)
    BY <1>1, PySendShape
  <2>2. PyActs(c.src) /\ NTypeOK'
    BY <2>1 DEF PySends
  <2> QED BY <1>1, <2>2, PyTypesStay
<1>2. ASSUME NEW n \in PyNodes, NEW f \in net, PyReceiveData(n, f) PROVE NTypeOK' /\ PyTypes'
  <2>1. PyActs(n) /\ NTypeOK'
    BY <1>2, PyReceiveShape DEF PyReceives
  <2> QED BY <2>1, PyTypesStay
<1>3. ASSUME NEW n \in PyNodes, NEW f \in net, PyReceiveAnAck(n, f) PROVE NTypeOK' /\ PyTypes'
  BY <1>3, PyReceiveAckShape, PySettlesTypes
<1>4. ASSUME NEW n \in PyNodes, NEW Q, PyTick(n, Q) PROVE NTypeOK' /\ PyTypes'
  BY <1>4, PyTickShape, PySettlesTypes
<1> QED BY <1>1, <1>2, <1>3, <1>4 DEF PyStep

\* Every step keeps the types.
LEMMA MixedTypesStep ==
  NTypeOK /\ PyTypes /\ [CStep \/ PyStep]_mixvars => (NTypeOK /\ PyTypes)'
<1> SUFFICES ASSUME NTypeOK, PyTypes, [CStep \/ PyStep]_mixvars PROVE NTypeOK' /\ PyTypes'
  OBVIOUS
<1>1. CASE PyStep
  BY <1>1, PyStepTypes
<1>2. CASE (StepOf(CNodes) \/ UNCHANGED nvars) /\ py' = py
  BY <1>2, StepOfCNodes, NTypeStep, PyTypesStayC
<1> QED BY <1>1, <1>2, MixedSteps

\* Endpoints of both kinds keep their types on one network: the tables of the C
\* nodes, the dict, the set of keys and the sessions of the Python nodes, and the
\* retries an entry of the dict has had.
THEOREM MixedNetworkTypes == MSpec => []MTypeOK
<1>1. MInit => NTypeOK /\ PyTypes
  BY NTypeInit, PyTypesInit DEF MInit
<1>2. NTypeOK /\ PyTypes => MTypeOK
  BY DEF MTypeOK, PyTypes
<1> QED BY <1>1, <1>2, MixedTypesStep, PTL DEF MSpec

\* Every step of a Python node keeps what is known of frames and deliveries.
LEMMA PyStepDelivery ==
  ASSUME SeqsAreEnough, NTypeOK, PyTypes, DeliveryInv(CNodes), PyDeliveryInv, PyStep
  PROVE  DeliveryInv(CNodes)' /\ PyDeliveryInv'
BY DeliveryPySend, DeliveryPyReceiveData, DeliveryPyReceiveAck, DeliveryPyTick DEF PyStep

MixedDeliveryInv == NTypeOK /\ PyTypes /\ DeliveryInv(CNodes) /\ PyDeliveryInv

\* Every step does.
LEMMA MixedDeliveryStep ==
  ASSUME SendersStay, SeqsAreEnough, MixedDeliveryInv, [CStep \/ PyStep]_mixvars
  PROVE  MixedDeliveryInv'
<1> USE DEF MixedDeliveryInv
<1>1. NTypeOK' /\ PyTypes'
  BY MixedTypesStep
<1>2. CASE PyStep
  BY <1>1, <1>2, PyStepDelivery
<1>3. CASE (StepOf(CNodes) \/ UNCHANGED nvars) /\ py' = py
  <2>1. CNodes \in SUBSET Nodes
    BY DEF CNodes
  <2>2. DeliveryInv(CNodes)'
    BY <1>3, <2>1, DeliveryStep
  <2>3. PyDeliveryInv'
    BY <1>3, PyDeliveryStaysC
  <2> QED BY <1>1, <2>2, <2>3
<1> QED BY <1>2, <1>3, MixedSteps

\* Under SendersStay and SeqsAreEnough, also between C and Python endpoints a call
\* that its sender saw acknowledged was delivered, or its receiver restarted.
THEOREM MixedAcknowledgedIsDelivered ==
  ASSUME SendersStay, SeqsAreEnough
  PROVE  MSpec => []AckedUnlessCrashed
<1>1. MInit => MixedDeliveryInv
  BY NTypeInit, PyTypesInit, DeliveryInit, PyInvInit DEF MInit, MixedDeliveryInv
<1>2. MixedDeliveryInv /\ [CStep \/ PyStep]_mixvars => MixedDeliveryInv'
  BY MixedDeliveryStep
<1>3. MixedDeliveryInv => AckedUnlessCrashed
  BY DEF MixedDeliveryInv, DeliveryInv
<1> QED BY <1>1, <1>2, <1>3, PTL DEF MSpec

\* Every step of a Python node keeps what is known of the keys it remembers.
LEMMA PyStepOnce ==
  ASSUME SeqsAreEnough, NTypeOK, NTypeOK', PyTypes, DeliveryInv(CNodes), PyDeliveryInv,
         DeliveryInv(CNodes)', OnceInv(CNodes), PyOnceInv, PyStep
  PROVE  OnceInv(CNodes)' /\ PyOnceInv'
<1>1. FramesOfCalls /\ FramesOfCalls'
  BY DEF DeliveryInv
<1>2. ASSUME NEW n \in PyNodes, NEW f \in net, PyReceiveAnAck(n, f)
      PROVE  OnceInv(CNodes)' /\ PyOnceInv'
  <2>1. PyActs(n) /\ PySettles(n, "acked")
    BY <1>2, DeliveryPyReceiveAck, PyReceiveAckShape
  <2> QED BY <1>1, <2>1, OncePySettles
<1>3. ASSUME NEW n \in PyNodes, NEW Q, PyTick(n, Q)
      PROVE  OnceInv(CNodes)' /\ PyOnceInv'
  <2>1. PyActs(n) /\ PySettles(n, "failed")
    BY <1>3, DeliveryPyTick, PyTickShape
  <2> QED BY <1>1, <2>1, OncePySettles
<1>4. ASSUME NEW c \in Calls, NEW rel \in BOOLEAN, NEW fl \in BOOLEAN, c.src \in PyNodes,
             PySend(c, rel, fl)
      PROVE  OnceInv(CNodes)' /\ PyOnceInv'
  BY <1>1, <1>4, OncePySend
<1>5. ASSUME NEW n \in PyNodes, NEW f \in net, PyReceiveData(n, f)
      PROVE  OnceInv(CNodes)' /\ PyOnceInv'
  BY <1>1, <1>5, OncePyReceiveData
<1> QED BY <1>2, <1>3, <1>4, <1>5 DEF PyStep

MixedServiceInv == MixedDeliveryInv /\ OnceInv(CNodes) /\ PyOnceInv

\* The invariant of the two theorems below.
LEMMA MixedServiceInvHolds ==
  ASSUME SendersStay, SeqsAreEnough, SeenIsEnough(CNodes)
  PROVE  MSpec => []MixedServiceInv
<1>1. MInit => MixedServiceInv
  BY NTypeInit, PyTypesInit, DeliveryInit, OnceInit, PyInvInit
     DEF MInit, MixedServiceInv, MixedDeliveryInv
<1>2. MixedServiceInv /\ [CStep \/ PyStep]_mixvars => MixedServiceInv'
  <2> SUFFICES ASSUME MixedServiceInv, [CStep \/ PyStep]_mixvars PROVE MixedServiceInv'
    OBVIOUS
  <2>1. MixedDeliveryInv /\ OnceInv(CNodes) /\ PyOnceInv
    BY DEF MixedServiceInv
  <2>2. MixedDeliveryInv'
    BY <2>1, MixedDeliveryStep
  <2>3. /\ NTypeOK /\ PyTypes /\ DeliveryInv(CNodes) /\ PyDeliveryInv
        /\ NTypeOK' /\ DeliveryInv(CNodes)' /\ FramesOfCalls'
    BY <2>1, <2>2 DEF MixedDeliveryInv, DeliveryInv
  <2>4. CASE PyStep
    BY <2>1, <2>2, <2>3, <2>4, PyStepOnce DEF MixedServiceInv
  <2>5. CASE (StepOf(CNodes) \/ UNCHANGED nvars) /\ py' = py
    <3>1. CNodes \in SUBSET Nodes
      BY DEF CNodes
    <3>2. OnceInv(CNodes)'
      BY <2>1, <2>3, <2>5, <3>1, OnceStep
    <3>3. PyOnceInv'
      BY <2>1, <2>3, <2>5, PyOnceStaysC
    <3> QED BY <2>2, <3>2, <3>3 DEF MixedServiceInv
  <2> QED BY <2>4, <2>5, MixedSteps
<1> QED BY <1>1, <1>2, PTL DEF MSpec

\* If also seen[] of every C node has room for the calls to it, a call is delivered
\* at most once in each incarnation of its receiver, C or Python.  _seen of a
\* Python node has no limit and needs no such hypothesis.
THEOREM MixedDeliveredAtMostOnce ==
  ASSUME SendersStay, SeqsAreEnough, SeenIsEnough(CNodes)
  PROVE  MSpec => []OncePerIncarnation
<1>1. MixedServiceInv => OncePerIncarnation
  <2> SUFFICES ASSUME MixedServiceInv, NEW c \in Calls
               PROVE  deliveries[c] <= 1 + reboots[c.dst]
    BY DEF OncePerIncarnation
  <2> USE DEF MixedServiceInv, MixedDeliveryInv
  <2>1. deliveries[c] \in Nat /\ reboots[c.dst] \in Nat /\ c.dst \in Nodes
    BY Population DEF NTypeOK
  <2>2. CASE deliveries[c] > 0
    <3>1. PICK f \in DataFrames : CallOf(f) = c
      BY <2>2 DEF OnceInv, DeliveredHaveFrames
    <3>2. f.dst = c.dst
      BY <3>1 DEF DeliveryInv, FramesOfCalls
    <3>3. deliveries[c] <= reboots[c.dst] \/ deliveries[c] = reboots[c.dst] + 1
      <4>1. CASE c.dst \in PyNodes
        BY <3>1, <3>2, <4>1 DEF PyOnceInv, PyDeliveredKeysAreSeen
      <4>2. CASE c.dst \in CNodes
        BY <3>1, <3>2, <4>2 DEF OnceInv, DeliveredKeysAreSeen
      <4> QED BY <2>1, <4>1, <4>2 DEF CNodes
    <3> QED BY <2>1, <3>3
  <2> QED BY <2>1, <2>2
<1> QED BY <1>1, MixedServiceInvHolds, PTL

\* A send of a Python node is a call submitted to the service.
LEMMA ServicePySend ==
  ASSUME NTypeOK, PyTypes,
         NEW c \in Calls, NEW rel \in BOOLEAN, NEW fl \in BOOLEAN, c.src \in PyNodes,
             PySend(c, rel, fl)
  PROVE  Service!Submit(c)
<1>1. PICK new : PySends(c, new)
  BY PySendShape
<1>2. /\ status[c] = "unused" /\ deliveries' = deliveries /\ reboots' = reboots
      /\ status'[c] \in {"parked", "sent"} /\ status' = [status EXCEPT ![c] = status'[c]]
  BY <1>1 DEF PySends, PyActs
<1> QED BY <1>2 DEF Service!Submit

\* A frame that is delivered is one that the receiver has not delivered.
LEMMA ServicePyReceiveData ==
  ASSUME MixedServiceInv, NEW n \in PyNodes, NEW f \in net, PyReceiveData(n, f)
  PROVE  (\E c \in Calls : Service!Deliver(c)) \/ UNCHANGED Service!svars
<1> USE DEF MixedServiceInv, MixedDeliveryInv, DeliveryInv, PyDeliveryInv, PyOnceInv
<1> DEFINE c == CallOf(f)
<1>1. /\ f \in DataFrames /\ f.dst = n /\ reboots' = reboots /\ status' = status
      /\ Py!IsDuplicate(py[n], f) => deliveries' = deliveries
      /\ ~Py!IsDuplicate(py[n], f) => deliveries' = [deliveries EXCEPT ![c] = @ + 1]
  BY PyReceiveShape DEF PyReceives, PyActs
<1>2. CASE Py!IsDuplicate(py[n], f)
  BY <1>1, <1>2 DEF Service!svars
<1>3. CASE ~Py!IsDuplicate(py[n], f)
  <2>1. c \in Calls /\ c.dst = n /\ status[c] \notin {"unused", "refused"}
    BY <1>1 DEF FramesOfCalls
  <2>2. Py!seen_key(f) \notin py[n].seen
    <3>1. Py!seen_key(f) \notin py[n].seen
            \/ (~Py!SameSession(py[n], f) /\ Py!seen_key(f)[1] = f.src)
      BY <1>3, PyReceiveShape DEF PyRemembers
    <3>2. \A k \in py[n].seen : Py!SameSession(py[n], f) \/ k[1] # f.src
      BY <1>1, PySessionIsKnown
    <3> QED BY <3>1, <3>2
  <2>3. deliveries[c] <= reboots[n]
    BY <1>1, <2>2 DEF PyDeliveredKeysAreSeen
  <2>4. deliveries[c] \in Nat /\ reboots[n] \in Nat
    BY <2>1, Population DEF NTypeOK
  <2>5. status[c] = "acked" => reboots[n] > 0
    BY <2>1, <2>3, <2>4 DEF AckedUnlessCrashed
  <2>6. deliveries' = [deliveries EXCEPT ![c] = @ + 1]
    BY <1>1, <1>3
  <2> HIDE DEF c
  <2>7. Service!Deliver(c)
    BY <1>1, <2>1, <2>3, <2>5, <2>6 DEF Service!Deliver
  <2> QED BY <2>1, <2>7
<1> QED BY <1>2, <1>3

\* An ACK confirms the call whose entry it takes out.
LEMMA ServicePyReceiveAck ==
  ASSUME MixedServiceInv, NEW n \in PyNodes, NEW f \in net, PyReceiveAnAck(n, f)
  PROVE  (\E c \in Calls : Service!Confirm(c)) \/ UNCHANGED Service!svars
<1> USE DEF MixedServiceInv, MixedDeliveryInv
<1> DEFINE R == PyCalls(py[n].pending) \ PyCalls(py'[n].pending)
<1>1. /\ status' = [c \in Calls |-> IF c \in R THEN "acked" ELSE status[c]]
      /\ deliveries' = deliveries /\ reboots' = reboots
  BY PyReceiveAckShape DEF PySettles
<1>2. \/ R = {}
      \/ \E c \in Calls : /\ R = {c} /\ status[c] = "parked"
                          /\ deliveries[c] > 0 \/ reboots[c.dst] > 0
  BY PyAckWasEarned
<1>3. status \in [Calls -> Statuses]
  BY DEF NTypeOK
<1> HIDE DEF R
<1>4. CASE R = {}
  <2>1. status' = status
    BY <1>1, <1>3, <1>4
  <2> QED BY <1>1, <2>1 DEF Service!svars
<1>5. ASSUME NEW c \in Calls, R = {c}, status[c] = "parked",
             deliveries[c] > 0 \/ reboots[c.dst] > 0
      PROVE  Service!Confirm(c)
  <2>1. status' = [status EXCEPT ![c] = "acked"]
    BY <1>1, <1>3, <1>5
  <2> QED BY <1>1, <1>5, <2>1 DEF Service!Confirm
<1> QED BY <1>2, <1>4, <1>5

\* A tick gives up calls, as the service may.
LEMMA ServicePyTick ==
  ASSUME MixedServiceInv, NEW n \in PyNodes, NEW Q, PyTick(n, Q)
  PROVE  \E D \in SUBSET Calls : Service!GiveUp(D)
<1> USE DEF MixedServiceInv, MixedDeliveryInv
<1> DEFINE D == PyCalls(py[n].pending) \ PyCalls(py'[n].pending)
<1>1. /\ status' = [c \in Calls |-> IF c \in D THEN "failed" ELSE status[c]]
      /\ deliveries' = deliveries /\ reboots' = reboots
  BY PyTickShape DEF PySettles
<1>2. \A c \in D : c \in Calls /\ status[c] = "parked"
  BY PyDictCalls DEF DeliveryInv, PyDeliveryInv
<1> HIDE DEF D
<1>3. D \in SUBSET Calls
  BY <1>2
<1>4. Service!GiveUp(D)
  BY <1>1, <1>2 DEF Service!GiveUp
<1> QED BY <1>3, <1>4

\* Every step of a Python node is one of the service or changes nothing it shows.
LEMMA ServicePyStep ==
  ASSUME MixedServiceInv, PyStep
  PROVE  [Service!SNext]_(Service!svars)
<1>1. ASSUME NEW n \in PyNodes, NEW f \in net, PyReceiveData(n, f) \/ PyReceiveAnAck(n, f)
      PROVE  Service!SNext \/ UNCHANGED Service!svars
  BY <1>1, ServicePyReceiveData, ServicePyReceiveAck DEF Service!SNext
<1>2. ASSUME NEW n \in PyNodes, NEW Q, PyTick(n, Q) PROVE Service!SNext
  BY <1>2, ServicePyTick DEF Service!SNext
<1>3. ASSUME NEW c \in Calls, NEW rel \in BOOLEAN, NEW fl \in BOOLEAN, c.src \in PyNodes,
             PySend(c, rel, fl)
      PROVE  Service!SNext
  BY <1>3, ServicePySend DEF Service!SNext, MixedServiceInv, MixedDeliveryInv
<1> QED BY <1>1, <1>2, <1>3 DEF PyStep

\* Under the same hypotheses C and Python endpoints together are a refinement of
\* ReliableService: a call of an endpoint's functions or methods is a step of the
\* service or changes nothing that an application can see.
THEOREM MixedNetworkImplementsService ==
  ASSUME SendersStay, SeqsAreEnough, SeenIsEnough(CNodes)
  PROVE  MSpec => ImplementsService
<1>1. MInit => Service!SInit
  BY DEF MInit, NInit, Service!SInit
<1>2. MixedServiceInv /\ [CStep \/ PyStep]_mixvars => [Service!SNext]_(Service!svars)
  <2> SUFFICES ASSUME MixedServiceInv, [CStep \/ PyStep]_mixvars
               PROVE  [Service!SNext]_(Service!svars)
    OBVIOUS
  <2>1. CASE PyStep
    BY <2>1, ServicePyStep
  <2>2. CASE StepOf(CNodes) \/ UNCHANGED nvars
    <3>1. CNodes \in SUBSET Nodes /\ ServiceInv(CNodes)
      BY DEF CNodes, ServiceInv, MixedServiceInv, MixedDeliveryInv
    <3> QED BY <2>2, <3>1, ServiceStep
  <2> QED BY <2>1, <2>2, MixedSteps
<1> QED BY <1>1, <1>2, MixedServiceInvHolds, PTL DEF MSpec, ImplementsService, Service!SSpec

=============================================================================
