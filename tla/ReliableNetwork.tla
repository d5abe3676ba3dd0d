--------------------------- MODULE ReliableNetwork ---------------------------
(***************************************************************************)
(* ARC reliable endpoints on a network that loses, duplicates, delays and  *)
(* reorders frames, with endpoints that restart.                           *)
(*                                                                         *)
(* net is the set of all frames ever handed to send_fn.  A frame of net    *)
(* may be received at any later time and any number of times, which is     *)
(* delay, reordering and duplication; a frame that is never received is    *)
(* lost.  The clock value given to arc_reliable_send and arc_reliable_tick *)
(* is arbitrary, so every frame may time out, or not, in every tick.       *)
(***************************************************************************)
EXTENDS ArcReliable

CONSTANTS
  Nodes,        \* the addresses of the endpoints
  Sessions,     \* the sessions an endpoint may have
  FirstSessions,  \* those of its first start
  FirstSeqs,    \* the first_seq arguments an endpoint may start with
  Calls,        \* the calls of arc_reliable_send, records [src, dst, id]
  CanReboot,    \* the endpoints that may restart
  MaxReboots,   \* bound: restarts of each of them
  MaxDraws      \* bound: SEQs one incarnation takes

ASSUME Population ==
  /\ FirstSeqs \subseteq Seqs /\ FirstSessions \subseteq Sessions
  /\ \A c \in Calls : c.src \in Nodes /\ c.dst \in Nodes /\ c.src # c.dst
  /\ CanReboot \subseteq Nodes
  /\ MaxReboots \in Nat /\ MaxDraws \in Nat

ASSUME FreeIsNoKey == Free \notin arc_reliable_seen_t(Nodes, Sessions)

VARIABLES
  ep,           \* the arc_reliable_t of each node
  net,          \* the frames handed to send_fn
  draws,        \* SEQs taken by the current incarnation of each node
  reboots,      \* restarts of each node
  status,       \* what the sender knows of each call
  deliveries    \* how often deliver_fn got its payload in a reliable frame

nvars == <<ep, net, draws, reboots, status, deliveries>>

AckPayloads == {<<h, l>> : h, l \in 0 .. BYTE - 1}
Payloads    == {<<c>> : c \in Calls}

Frames ==
  [src : Nodes, dst : Nodes, reliable : BOOLEAN, ack : BOOLEAN,
   session : Sessions, seq : Seqs, payload : AckPayloads \cup Payloads]

Statuses ==
  {"unused", "refused", "sent", "parked", "acked", "failed", "forgotten"}

CallOf(p) == p.payload[1]

CallsIn(n, slots) == {CallOf(ep[n].pending[i]) : i \in slots}

NInit ==
  /\ \E s \in [Nodes -> FirstSessions], q \in [Nodes -> FirstSeqs] :
       ep = [n \in Nodes |-> arc_reliable_init(n, s[n], q[n])]
  /\ net = {}
  /\ draws = [n \in Nodes |-> 0]
  /\ reboots = [n \in Nodes |-> 0]
  /\ status = [c \in Calls |-> "unused"]
  /\ deliveries = [c \in Calls |-> 0]

\* Every step in which node n takes a SEQ is bounded by MaxDraws.
Draw(n) ==
  /\ draws[n] < MaxDraws
  /\ draws' = [draws EXCEPT ![n] = @ + 1]

----------------------------------------------------------------------------
\* The frame arc_reliable_send emits, parked or not.
SentFrame(c, reliable, now_ms) ==
  LET p == StagedEntry(ep[c.src], c.dst, FALSE, <<c>>, now_ms)
  IN  [pending_to_frame(p, c.src) EXCEPT !.reliable = reliable]

SendReliable(c, now_ms) ==
  /\ status[c] = "unused"
  /\ Draw(c.src)
  /\ FreeSlots(ep[c.src].pending) # {}
  /\ ep' = [ep EXCEPT ![c.src] = SendParked(@, c.dst, FALSE, <<c>>, now_ms)]
  /\ net' = net \cup {SentFrame(c, TRUE, now_ms)}
  /\ status' = [status EXCEPT ![c] = "parked"]
  /\ UNCHANGED <<reboots, deliveries>>

\* Not parked.  The caller's flags may hold ARC_FLAG_RELIABLE all the same (only
\* the argument reliable decides about the slot): the peer then acknowledges
\* and deduplicates the frame, and the ACK finds no slot.
SendUnreliable(c, flagged) ==
  /\ status[c] = "unused"
  /\ Draw(c.src)
  /\ ep' = [ep EXCEPT ![c.src] = take_seq(@)]
  /\ net' = net \cup {SentFrame(c, flagged, 0)}
  /\ status' = [status EXCEPT ![c] = "sent"]
  /\ UNCHANGED <<reboots, deliveries>>

\* ARC_ERR_BUFFER, which consumes a SEQ.
SendBufferFull(c) ==
  /\ status[c] = "unused"
  /\ Draw(c.src)
  /\ FreeSlots(ep[c.src].pending) = {}
  /\ ep' = [ep EXCEPT ![c.src] = take_seq(@)]
  /\ status' = [status EXCEPT ![c] = "refused"]
  /\ UNCHANGED <<net, reboots, deliveries>>

\* A reliable frame: acknowledged, and delivered unless it is a duplicate.
ReceiveData(n, f) ==
  /\ f.dst = n /\ f.reliable
  /\ rx_result(ep[n], f) \in {"ARC_RX_DUPLICATE", "ARC_RX_DELIVERED"}
  /\ Draw(n)
  /\ ep' = [ep EXCEPT ![n] = arc_reliable_receive(@, f)]
  /\ net' = net \cup rx_replies(ep[n], f)
  /\ deliveries' = IF rx_result(ep[n], f) = "ARC_RX_DELIVERED"
                   THEN [deliveries EXCEPT ![CallOf(f)] = @ + 1] ELSE deliveries
  /\ UNCHANGED <<reboots, status>>

ReceiveAnAck(n, f) ==
  /\ f.dst = n
  /\ rx_result(ep[n], f) = "ARC_RX_ACK"
  /\ ep' = [ep EXCEPT ![n] = arc_reliable_receive(@, f)]
  /\ status' = IF AckedSlots(ep[n], f) = {} THEN status
               ELSE [status EXCEPT
                       ![CallOf(ep[n].pending[AckedSlot(ep[n], f)])] = "acked"]
  /\ UNCHANGED <<net, draws, reboots, deliveries>>

\* Frames that are sent again are in net already.
Tick(n, now_ms) ==
  /\ ep' = [ep EXCEPT ![n] = arc_reliable_tick(@, now_ms)]
  /\ net' = net \cup {pending_to_frame(ep[n].pending[i], n) :
                        i \in RetriedSlots(ep[n], now_ms)}
  /\ status' = [c \in Calls |->
                  IF c \in CallsIn(n, FailedSlots(ep[n], now_ms))
                  THEN "failed" ELSE status[c]]
  /\ UNCHANGED <<draws, reboots, deliveries>>

\* A restart loses all tables; the application initialises the endpoint with a
\* session different from the last one and forgets what it was sending.
Restart(n) ==
  /\ n \in CanReboot /\ reboots[n] < MaxReboots
  /\ \E s \in Sessions \ {ep[n].session}, q \in FirstSeqs :
       ep' = [ep EXCEPT ![n] = arc_reliable_init(n, s, q)]
  /\ reboots' = [reboots EXCEPT ![n] = @ + 1]
  /\ draws' = [draws EXCEPT ![n] = 0]
  /\ status' = [c \in Calls |->
                  IF c \in CallsIn(n, UsedSlots(ep[n].pending))
                  THEN "forgotten" ELSE status[c]]
  /\ UNCHANGED deliveries

Reboot(n) == Restart(n) /\ UNCHANGED net

\* The node restarts while it receives a reliable frame: emit_ack has handed the
\* ACK to a link, and neither seen_add nor deliver_fn has run.
CrashInReceive(n, f) ==
  /\ f.dst = n
  /\ rx_result(ep[n], f) = "ARC_RX_DELIVERED"
  /\ net' = net \cup rx_replies(ep[n], f)
  /\ Restart(n)

NNext ==
  \/ \E c \in Calls :
       \/ \E now_ms \in Clocks : SendReliable(c, now_ms)
       \/ \E flagged \in BOOLEAN : SendUnreliable(c, flagged)
       \/ SendBufferFull(c)
  \/ \E n \in Nodes :
       \/ \E f \in net : ReceiveData(n, f) \/ ReceiveAnAck(n, f) \/ CrashInReceive(n, f)
       \/ \E now_ms \in Clocks : Tick(n, now_ms)
       \/ Reboot(n)

NSpec == NInit /\ [][NNext]_nvars

----------------------------------------------------------------------------
(* Properties.                                                             *)

\* Endpoints, frames in flight and history variables have their types.
NTypeOK ==
  /\ ep \in [Nodes -> arc_reliable_t(Nodes, Sessions, Payloads)]
  /\ net \subseteq Frames
  /\ draws \in [Nodes -> 0 .. MaxDraws]
  /\ reboots \in [Nodes -> 0 .. MaxReboots]
  /\ status \in [Calls -> Statuses]
  /\ deliveries \in [Calls -> Nat]

\* A sender that sees its frame acknowledged can rely on the peer's deliver_fn
\* having run for it: reliable commands are "ACKed ..., then acted on".
AckedImpliesDelivered ==
  \A c \in Calls : status[c] = "acked" => deliveries[c] > 0

\* The part of it that survives restarts of the receiver: only a receiver that
\* restarted can have acknowledged a frame and not delivered it.
AckedUnlessCrashed ==
  \A c \in Calls : status[c] = "acked" => deliveries[c] > 0 \/ reboots[c.dst] > 0

\* deliver_fn runs at most once for a call in each incarnation of the receiver,
\* whatever the network duplicates and however often the sender retries.
OncePerIncarnation ==
  \A c \in Calls : deliveries[c] <= 1 + reboots[c.dst]

\* The endpoints and the network provide the service of ReliableService.
Service == INSTANCE ReliableService
ImplementsService == Service!SSpec

=============================================================================
