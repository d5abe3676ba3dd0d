------------------------------ MODULE ArcNode ------------------------------
(***************************************************************************)
(* One node as the headers wire it: send_fn of the endpoint calls          *)
(* arc_router_route, local_fn of the router calls arc_reliable_receive.    *)
(* The functions are not atomic here.  They stop wherever they call back,  *)
(* and what runs in the callback may call the endpoint again: deliver_fn   *)
(* and fail_fn send, a frame to the node itself is received while it is    *)
(* being sent, and a link that polls its input receives while it sends.    *)
(*                                                                         *)
(* stack holds the calls in progress, the innermost first.  A frame keeps  *)
(* a pointer to its payload: at is the slot of pending[] it points into,   *)
(* or Elsewhere (a local variable of a caller, a buffer of a link), and    *)
(* buf is what payload[] of each slot holds, in use or not.                *)
(***************************************************************************)
EXTENDS ArcReliable

CONSTANTS
  Addrs, my_addr, session, first_seq,
  ARC_ROUTER_MAX_LINKS, ARC_ROUTER_MAX_ROUTES,
  links, routes, default_link_idx,   \* the router's tables, set up before
  Calls,          \* the calls of arc_reliable_send; c.dst is the destination
  Inbound,        \* the frames that arrive from links
  MaxArrivals,    \* bound on the number of arrivals
  MaxClock,       \* bound on the clock
  PollingLinks    \* TRUE when frames may arrive while a link is sending

ASSUME NodeWiring ==
  /\ my_addr \in Addrs
  /\ timeout_ms > 0
  /\ MaxClock \in Nat /\ MaxClock + timeout_ms < HALF_CLOCK
  /\ \A c \in Calls : c.dst \in Addrs
  /\ PollingLinks \in BOOLEAN

Payloads == {<<c>> : c \in Calls}
Sessions == {session} \cup {f.session : f \in Inbound}

\* The fields of the frames that links receive have the widths of the header.
ASSUME NodeFrames ==
  /\ first_seq \in Seqs
  /\ \A f \in Inbound : f.src \in Addrs /\ f.seq \in Seqs

ASSUME FreeIsNoSlot == Free \notin arc_reliable_pending_t(Addrs, Sessions, Payloads)

VARIABLES
  r, buf, now_ms,
  stack,
  arrivals,
  status, tx,     \* history: the outcome and the transmissions of each call
  deliveries      \* history: how often deliver_fn got the frame of each call

nodevars == <<r, buf, now_ms, stack, arrivals, status, tx, deliveries>>

Router == INSTANCE ArcRouter WITH Dsts <- Addrs, out <- "unused"

Elsewhere == -1
CallOf(p) == p.payload[1]

Init ==
  /\ r = arc_reliable_init(my_addr, session, first_seq)
  /\ buf = [i \in DOMAIN r.pending |-> <<>>]
  /\ now_ms = 0 /\ stack = <<>> /\ arrivals = 0
  /\ status = [c \in Calls |-> "unused"]
  /\ tx = [c \in Calls |-> 0]
  /\ deliveries = [c \in Calls |-> 0]

----------------------------------------------------------------------------
(* The call stack.                                                         *)

Running(fn)  == stack # <<>> /\ stack[1].fn = fn
Top          == stack[1]
Caller       == Tail(stack)          \* after the top returned
Call(fn, f, at) == [fn |-> fn, f |-> f, at |-> at]

\* The application runs: in its main loop, or in one of its callbacks.
AppRuns == stack = <<>> \/ Running("deliver_fn") \/ Running("fail_fn")

AppReturns ==
  /\ Running("deliver_fn") \/ Running("fail_fn")
  /\ stack' = Caller
  /\ UNCHANGED <<r, buf, now_ms, arrivals, status, tx, deliveries>>

\* The clock may advance while a callback runs.
AdvanceClock ==
  /\ now_ms < MaxClock
  /\ now_ms' = now_ms + 1
  /\ UNCHANGED <<r, buf, stack, arrivals, status, tx, deliveries>>

----------------------------------------------------------------------------
(* arc_reliable_send up to emit_frame; after it, it only returns.          *)

SendReliable(c) ==
  LET p == StagedEntry(r, c.dst, FALSE, <<c>>, now_ms)
      i == pending_alloc(r.pending)
  IN  /\ AppRuns /\ status[c] = "unused"
      /\ FreeSlots(r.pending) # {}
      /\ r' = SendParked(r, c.dst, FALSE, <<c>>, now_ms)
      /\ buf' = [buf EXCEPT ![i] = p.payload]
      /\ stack' = <<Call("send_fn", pending_to_frame(p, my_addr), i)>> \o stack
      /\ status' = [status EXCEPT ![c] = "parked"]
      /\ tx' = [tx EXCEPT ![c] = 1]
      /\ UNCHANGED <<now_ms, arrivals, deliveries>>

\* The frame points into scratch, which lives until send_fn returns.  Its flags
\* are those of the caller, who may have put ARC_FLAG_RELIABLE there.
SendUnreliable(c, flagged) ==
  LET p == StagedEntry(r, c.dst, FALSE, <<c>>, now_ms)
      f == [pending_to_frame(p, my_addr) EXCEPT !.reliable = flagged]
  IN  /\ AppRuns /\ status[c] = "unused"
      /\ r' = take_seq(r)
      /\ stack' = <<Call("send_fn", f, Elsewhere)>> \o stack
      /\ status' = [status EXCEPT ![c] = "sent"]
      /\ tx' = [tx EXCEPT ![c] = 1]
      /\ UNCHANGED <<buf, now_ms, arrivals, deliveries>>

SendBufferFull(c) ==
  /\ AppRuns /\ status[c] = "unused"
  /\ FreeSlots(r.pending) = {}
  /\ r' = take_seq(r)
  /\ status' = [status EXCEPT ![c] = "refused"]
  /\ UNCHANGED <<buf, now_ms, stack, arrivals, tx, deliveries>>

----------------------------------------------------------------------------
(* arc_router_route, as send_fn and for the frames that links receive.     *)

RouteLocal ==
  /\ Running("send_fn")
  /\ Top.f.dst = my_addr
  /\ stack' = <<Call("local_fn", Top.f, Top.at)>> \o Caller
  /\ UNCHANGED <<r, buf, now_ms, arrivals, status, tx, deliveries>>

HasLink(dst) == LET l == Router!RouteLink(dst) IN l >= 0 /\ Router!CanSend(l)

RouteForward ==
  /\ Running("send_fn")
  /\ Top.f.dst # my_addr /\ HasLink(Top.f.dst)
  /\ stack' = <<Call("link", Top.f, Top.at)>> \o Caller
  /\ UNCHANGED <<r, buf, now_ms, arrivals, status, tx, deliveries>>

\* ARC_ERR_BAD_ARG, which the endpoint does not see.
RouteNone ==
  /\ Running("send_fn")
  /\ Top.f.dst # my_addr /\ ~HasLink(Top.f.dst)
  /\ stack' = Caller
  /\ UNCHANGED <<r, buf, now_ms, arrivals, status, tx, deliveries>>

LinkReturns ==
  /\ Running("link")
  /\ stack' = Caller
  /\ UNCHANGED <<r, buf, now_ms, arrivals, status, tx, deliveries>>

\* A link hands a frame to the router.  A link that polls its input does not see
\* a frame again whose reception is in progress.
Arrive(f) ==
  /\ stack = <<>> \/ (PollingLinks /\ Running("link"))
  /\ arrivals < MaxArrivals
  /\ \A k \in DOMAIN stack : stack[k].fn \in {"acked", "deliver_fn"} => stack[k].f # f
  /\ stack' = <<Call("send_fn", f, Elsewhere)>> \o stack
  /\ arrivals' = arrivals + 1
  /\ UNCHANGED <<r, buf, now_ms, status, tx, deliveries>>

----------------------------------------------------------------------------
(* arc_reliable_receive: an ACK; or emit_ack, and after it seen_add and    *)
(* deliver_fn.                                                             *)

ReceiveAnAck ==
  /\ Running("local_fn") /\ is_ack_frame(Top.f)
  /\ r' = ReceiveAck(r, Top.f)
  /\ status' = IF AckedSlots(r, Top.f) = {} THEN status
               ELSE [status EXCEPT ![CallOf(r.pending[AckedSlot(r, Top.f)])] = "acked"]
  /\ stack' = Caller
  /\ UNCHANGED <<buf, now_ms, arrivals, tx, deliveries>>

ReceiveData ==
  LET f == Top.f
  IN  /\ Running("local_fn") /\ ~is_ack_frame(f) /\ f.reliable
      /\ r' = take_seq(CheckSession(r, f))
      /\ stack' = <<Call("send_fn", emit_ack(r, f), Elsewhere),
                    Call(IF IsDuplicate(r, f) THEN "duplicate" ELSE "acked", f, Top.at)>>
                  \o Caller
      /\ UNCHANGED <<buf, now_ms, arrivals, status, tx, deliveries>>

DropDuplicate ==
  /\ Running("duplicate")
  /\ stack' = Caller
  /\ UNCHANGED <<r, buf, now_ms, arrivals, status, tx, deliveries>>

\* The calls whose frame deliver_fn gets.
Delivered(f) == {c \in Calls : f.src = my_addr /\ c = f.payload[1]}

\* Faulty variant, not used: the frame is needed again after deliver_fn.
Deliver_UsedAfter ==
  /\ \/ Running("acked") /\ r' = seen_add(r, seen_key(Top.f))
     \/ Running("local_fn") /\ ~is_ack_frame(Top.f) /\ ~Top.f.reliable /\ r' = r
  /\ stack' = <<Call("deliver_fn", Top.f, Top.at), Call("duplicate", Top.f, Top.at)>> \o Caller
  /\ deliveries' = [c \in Calls |->
                      deliveries[c] + IF c \in Delivered(Top.f) THEN 1 ELSE 0]
  /\ UNCHANGED <<buf, now_ms, arrivals, status, tx>>

Deliver ==
  /\ \/ Running("acked") /\ r' = seen_add(r, seen_key(Top.f))
     \/ Running("local_fn") /\ ~is_ack_frame(Top.f) /\ ~Top.f.reliable /\ r' = r
  /\ stack' = <<Call("deliver_fn", Top.f, Top.at)>> \o Caller
  /\ deliveries' = [c \in Calls |->
                      deliveries[c] + IF c \in Delivered(Top.f) THEN 1 ELSE 0]
  /\ UNCHANGED <<buf, now_ms, arrivals, status, tx>>

----------------------------------------------------------------------------
(* arc_reliable_tick, stopped at slot i.                                   *)

\* parked is history: the calls that were waiting when tick was called.
Tick ==
  /\ stack = <<>>
  /\ stack' = <<[fn |-> "tick", i |-> 0, now_ms |-> now_ms,
                 parked |-> {c \in Calls : status[c] = "parked"}]>>
  /\ UNCHANGED <<r, buf, now_ms, arrivals, status, tx, deliveries>>

\* The slots at which the loop does not continue at once.
DueSlots == {i \in ExpiredSlots(r, Top.now_ms) : i >= Top.i}

TickAfter(i) == <<[Top EXCEPT !.i = i + 1]>> \o Caller

TickFails ==
  LET i == FirstSlot(DueSlots)
      p == r.pending[i]
  IN  /\ Running("tick") /\ DueSlots # {} /\ Exhausted(p)
      /\ r' = [r EXCEPT !.pending[i] = Free]
      /\ stack' = <<Call("fail_fn", pending_to_frame(p, my_addr), i)>> \o TickAfter(i)
      /\ status' = [status EXCEPT ![CallOf(p)] = "failed"]
      /\ UNCHANGED <<buf, now_ms, arrivals, tx, deliveries>>

TickRetries ==
  LET i == FirstSlot(DueSlots)
      p == r.pending[i]
  IN  /\ Running("tick") /\ DueSlots # {} /\ ~Exhausted(p)
      /\ r' = [r EXCEPT !.pending[i] = TickSlot(p, Top.now_ms)]
      /\ stack' = <<Call("send_fn", pending_to_frame(p, my_addr), i)>> \o TickAfter(i)
      /\ tx' = [tx EXCEPT ![CallOf(p)] = @ + 1]
      /\ UNCHANGED <<buf, now_ms, arrivals, status, deliveries>>

TickReturns ==
  /\ Running("tick") /\ DueSlots = {}
  /\ stack' = Caller
  /\ UNCHANGED <<r, buf, now_ms, arrivals, status, tx, deliveries>>

Next ==
  \/ \E c \in Calls : \/ SendReliable(c) \/ SendBufferFull(c)
                      \/ \E flagged \in BOOLEAN : SendUnreliable(c, flagged)
  \/ RouteLocal \/ RouteForward \/ RouteNone \/ LinkReturns
  \/ \E f \in Inbound : Arrive(f)
  \/ ReceiveAnAck \/ ReceiveData \/ DropDuplicate \/ Deliver \/ AppReturns
  \/ Tick \/ TickFails \/ TickRetries \/ TickReturns
  \/ AdvanceClock

Spec == Init /\ [][Next]_nodevars

----------------------------------------------------------------------------
(* Properties.                                                             *)

SlotsOf(c) == {i \in UsedSlots(r.pending) : CallOf(r.pending[i]) = c}

\* In the middle of every call too, a frame that waits for its ACK has one slot,
\* the payload of the slot is its own and the slot counts its transmissions: an
\* ACK or a send inside a callback of send, receive or tick never makes the
\* code that resumes work on a slot that changed hands.
SlotsKeepTheirFrames ==
  /\ \A c \in Calls : status[c] = "parked" <=> SlotsOf(c) # {}
  /\ \A c \in Calls : \A i, j \in SlotsOf(c) : i = j
  /\ \A i \in UsedSlots(r.pending) :
       /\ buf[i] = r.pending[i].payload
       /\ tx[CallOf(r.pending[i])] = r.pending[i].retries + 1

\* A tick in progress leaves alone the frames that were parked after it began,
\* wherever the callbacks put them: none is sent again or given up by the tick
\* during which it was first sent.
NewFramesWait ==
  \A k \in DOMAIN stack : stack[k].fn = "tick" =>
    \A i \in UsedSlots(r.pending) :
      i >= stack[k].i /\ CallOf(r.pending[i]) \notin stack[k].parked
        => ~Expired(r.pending[i], stack[k].now_ms)

\* A reliable frame the node sends to itself is acknowledged, and delivered once,
\* before arc_reliable_send returns, although its ACK is received before
\* deliver_fn runs and before its key is in seen[].
LoopbackSettles ==
  stack = <<>> => \A c \in Calls :
    c.dst = my_addr => status[c] # "parked" /\ (status[c] = "acked" => deliveries[c] = 1)

\* Whoever is handed a frame on its way (the router, a link, the receiver up to
\* deliver_fn) finds the payload the sender gave, although the ACK of a frame
\* to the node itself frees the slot that holds it.  A link that polls its input
\* has copied its frame before.  Nothing is said of the application's callbacks,
\* both of which may have a frame in a slot that is free, where a send of theirs
\* can overwrite it: deliver_fn one to the node itself, fail_fn the one given up.
FramesKeepTheirPayload ==
  \A k \in DOMAIN stack :
    /\ stack[k].fn \in {"send_fn", "link", "local_fn", "acked", "duplicate"}
    /\ stack[k].fn = "link" => ~PollingLinks
    => stack[k].at = Elsewhere \/ buf[stack[k].at] = stack[k].f.payload

=============================================================================
