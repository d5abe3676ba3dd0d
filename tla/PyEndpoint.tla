----------------------------- MODULE PyEndpoint -----------------------------
(***************************************************************************)
(* One Python endpoint whose callbacks may raise: send_frame is            *)
(* Router.route in the node, which raises RouteError, and links raise too. *)
(* An exception leaves send, receive or tick at once and reaches the       *)
(* embedder, which goes on calling the endpoint.                           *)
(*                                                                         *)
(* A tick is one step per key of its list.  A callback is the last thing   *)
(* in a turn of that loop, so that the calls it makes are the steps taken  *)
(* between two turns.  It does not call tick, and the send_frame of an ACK *)
(* makes no call.                                                          *)
(***************************************************************************)
EXTENDS PyReliable, FiniteSets

CONSTANTS
  Calls,                 \* the calls of send; c.dst is the destination
  Inbound,               \* frames from peers; the payload of data is its identity
  my_addr, session, first_seq,
  MaxDraws               \* bound on the SEQs taken

ASSUME PyArguments == first_seq \in Nat /\ MaxDraws \in Nat

VARIABLES
  e,
  todo, lag,        \* the rest of the list of a tick, and how long ago it began
  outside,          \* the embedder runs, or one of its callbacks
  draws,
  status, attempts, \* history: outcome of each call, and calls of send_frame for it
  acked, delivered  \* history: inbound frames acknowledged, and how often delivered

evars == <<e, todo, lag, outside, draws, status, attempts, acked, delivered>>

CallOf(p) == p.frame.payload[1]

Init ==
  /\ e = ReliableEndpoint(my_addr, session, first_seq)
  /\ todo = <<>> /\ lag = 0 /\ outside = TRUE /\ draws = 0
  /\ status = [c \in Calls |-> "unused"] /\ attempts = [c \in Calls |-> 0]
  /\ acked = {} /\ delivered = [f \in Inbound |-> 0]

Draw == draws < MaxDraws /\ draws' = draws + 1

----------------------------------------------------------------------------
\* The frame is parked before send_frame runs, and stays so when it raises.
SendReliable(c) ==
  /\ status[c] = "unused" /\ Draw
  /\ e' = take_seq(Park(e, Frame(e, c.dst, TRUE, <<c>>)))
  /\ status' = [status EXCEPT ![c] = "parked"]
  /\ attempts' = [attempts EXCEPT ![c] = 1]
  /\ UNCHANGED <<todo, lag, outside, acked, delivered>>

SendUnreliable(c) ==
  /\ status[c] = "unused" /\ Draw
  /\ e' = take_seq(e)
  /\ status' = [status EXCEPT ![c] = "sent"]
  /\ attempts' = [attempts EXCEPT ![c] = 1]
  /\ UNCHANGED <<todo, lag, outside, acked, delivered>>

\* The calls whose entries a step takes out of the dict.
Popped(pending) == {CallOf(e.pending[i]) : i \in DOMAIN e.pending}
                     \ {CallOf(pending[i]) : i \in DOMAIN pending}

ReceiveAnAck(f) ==
  /\ f.dst = my_addr /\ f.ack
  /\ e' = handle_ack(e, f)
  /\ status' = [c \in Calls |-> IF c \in Popped(e'.pending) THEN "acked" ELSE status[c]]
  /\ UNCHANGED <<todo, lag, outside, draws, attempts, acked, delivered>>

\* Faulty variant, not used: the key is added before the ACK is sent.
AckRaises_Remembered(f) ==
  /\ f.dst = my_addr /\ ~f.ack /\ f.reliable /\ Draw
  /\ e' = Remember(Acknowledge(e, f), f)
  /\ UNCHANGED <<todo, lag, outside, status, attempts, acked, delivered>>

\* send_frame of the ACK raises: nothing that follows it in receive happens.
AckRaises(f) ==
  /\ f.dst = my_addr /\ ~f.ack /\ f.reliable /\ Draw
  /\ e' = Acknowledge(e, f)
  /\ UNCHANGED <<todo, lag, outside, status, attempts, acked, delivered>>

\* deliver_frame may raise; receive has nothing left to do then.
ReceiveData(f) ==
  /\ f.dst = my_addr /\ ~f.ack /\ f.reliable /\ Draw
  /\ e' = Remember(Acknowledge(e, f), f)
  /\ acked' = acked \cup {f}
  /\ delivered' = [delivered EXCEPT ![f] = @ + IF IsDuplicate(e, f) THEN 0 ELSE 1]
  /\ UNCHANGED <<todo, lag, outside, status, attempts>>

\* A frame for another node, or an unreliable one, changes nothing.
ReceivePlain(f) ==
  /\ f.dst # my_addr \/ (~f.ack /\ ~f.reliable)
  /\ UNCHANGED evars

----------------------------------------------------------------------------
Tick ==
  /\ outside /\ todo = <<>>
  /\ expired(e) # <<>>
  /\ todo' = expired(e) /\ lag' = 0 /\ outside' = FALSE
  /\ UNCHANGED <<e, draws, status, attempts, acked, delivered>>

\* A callback runs; then the loop goes on, or an exception ends the tick.
Callback == todo' \in {Tail(todo), <<>>} /\ outside' = TRUE

\* Faulty variant, not used: the loop works on the entries it listed.
get_Snapshot(old) == {old}

\* self._pending.get(key): none if it was acknowledged since the list was made.
get(old) == {e.pending[i] : i \in {j \in DOMAIN e.pending :
               pending_key(e.pending[j].frame) = pending_key(old.frame)}}

TickSkips ==
  /\ todo # <<>> /\ get(Head(todo)) = {}
  /\ todo' = Tail(todo)
  /\ outside' = (Tail(todo) = <<>>)
  /\ UNCHANGED <<e, lag, draws, status, attempts, acked, delivered>>

TickFails ==
  /\ todo # <<>>
  /\ \E p \in get(Head(todo)) :
       /\ Exhausted(p)
       /\ e' = Pop(e, pending_key(p.frame))
       /\ status' = [status EXCEPT ![CallOf(p)] = "failed"]
       /\ Callback
  /\ UNCHANGED <<lag, draws, attempts, acked, delivered>>

TickRetries ==
  /\ todo # <<>>
  /\ \E p \in get(Head(todo)) :
       /\ ~Exhausted(p)
       /\ e' = Retried(e, pending_key(p.frame), lag)
       /\ attempts' = [attempts EXCEPT ![CallOf(p)] = @ + 1]
       /\ Callback
  /\ UNCHANGED <<lag, draws, status, acked, delivered>>

\* Time passes, while a callback runs too.
AdvanceClock ==
  /\ e' = Elapse(e)
  /\ lag' = IF todo = <<>> \/ lag > timeout_s THEN lag ELSE lag + 1
  /\ UNCHANGED <<todo, outside, draws, status, attempts, acked, delivered>>

TickTurn == TickSkips \/ TickFails \/ TickRetries

Called ==
  \/ \E c \in Calls : SendReliable(c) \/ SendUnreliable(c)
  \/ \E f \in Inbound : ReceiveAnAck(f) \/ ReceiveData(f) \/ AckRaises(f) \/ ReceivePlain(f)

Next == (outside /\ Called) \/ Tick \/ TickTurn \/ AdvanceClock

Spec == Init /\ [][Next]_evars

\* Time passes, the embedder goes on calling tick, and callbacks return or raise.
FairSpec == Spec /\ WF_evars(Tick) /\ WF_evars(TickTurn) /\ WF_evars(AdvanceClock)

----------------------------------------------------------------------------
(* Properties.                                                             *)

Entries(c) == {i \in DOMAIN e.pending : CallOf(e.pending[i]) = c}

\* Callbacks that raise do not make the dict and the calls disagree: a call waits
\* for its ACK exactly while one entry holds its frame, one attempt per retry
\* was made for it, and one that was given up had all its attempts.
PendingMatchesCalls ==
  \A c \in Calls :
    /\ Cardinality(Entries(c)) = IF status[c] = "parked" THEN 1 ELSE 0
    /\ \A i \in Entries(c) : attempts[c] = e.pending[i].retries + 1
    /\ status[c] = "failed" => attempts[c] = max_retries + 1

\* A tick does not send again, or report as failed, what was acknowledged while
\* it worked through its list.
OutcomeIsFinal ==
  [][\A c \in Calls : status[c] \in {"acked", "failed", "sent"}
       => status'[c] = status[c] /\ attempts'[c] = attempts[c]]_evars

\* Every reliable send is acknowledged or given up, although an exception of one
\* frame keeps the tick from the frames behind it, every time.
EverySendSettles ==
  \A c \in Calls : status[c] = "parked" ~> status[c] \in {"acked", "failed"}

\* A frame whose ACK left was handed to deliver_frame, now or before, also when
\* earlier attempts to acknowledge it raised.
AckedIsDelivered == \A f \in acked : delivered[f] > 0

Steady(f) == \A g \in Inbound : g.src = f.src /\ g.reliable => g.session = f.session

\* A frame of a peer that keeps its session is delivered once, however often it
\* arrives and whatever the sessions of other peers do.
DeliveredOnce == \A f \in Inbound : Steady(f) => delivered[f] <= 1

=============================================================================
