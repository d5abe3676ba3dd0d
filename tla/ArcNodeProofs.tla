--------------------------- MODULE ArcNodeProofs ---------------------------
(***************************************************************************)
(* Proofs about ArcNode: an endpoint and a router whose callbacks call the *)
(* library again, for every table size, set of calls and inbound frames,   *)
(* route table and depth of nested calls.                                  *)
(***************************************************************************)
EXTENDS ArcNode, ArcReliableLemmas, FiniteSetTheorems

----------------------------------------------------------------------------
(* Types.                                                                  *)

R == arc_reliable_t(Addrs, Sessions, Payloads)
P == arc_reliable_pending_t(Addrs, Sessions, Payloads)

OwnFrames ==
  [src : {my_addr}, dst : Addrs, reliable : BOOLEAN, ack : BOOLEAN,
   session : Sessions, seq : Seqs, payload : Payloads \cup (Int \X Int)]

FnNames == {"send_fn", "link", "local_fn", "acked", "duplicate", "deliver_fn", "fail_fn"}

CallT == [fn : FnNames, f : Inbound \cup OwnFrames, at : PendingSlots \cup {Elsewhere}]
TickT == [fn : {"tick"}, i : Nat, now_ms : Nat, parked : SUBSET Calls]
EntryT == CallT \cup TickT

Outcomes == {"unused", "refused", "sent", "parked", "acked", "failed"}

NodeTypes ==
  /\ r \in R /\ r.my_addr = my_addr
  /\ DOMAIN buf = PendingSlots
  /\ now_ms \in 0 .. MaxClock
  /\ stack \in Seq(EntryT)
  /\ status \in [Calls -> Outcomes] /\ tx \in [Calls -> Nat]

----------------------------------------------------------------------------
(* The inductive invariant.                                                *)

Used(i) == r.pending[i] # Free

\* SlotsKeepTheirFrames, slot by slot.
SlotsInv ==
  /\ \A i \in PendingSlots : Used(i) =>
       /\ status[CallOf(r.pending[i])] = "parked"
       /\ buf[i] = r.pending[i].payload
       /\ tx[CallOf(r.pending[i])] = r.pending[i].retries + 1
  /\ \A i, j \in PendingSlots :
       Used(i) /\ Used(j) /\ CallOf(r.pending[i]) = CallOf(r.pending[j]) => i = j
  /\ \A c \in Calls : status[c] = "parked" =>
       \E i \in PendingSlots : Used(i) /\ CallOf(r.pending[i]) = c

\* A tick in progress began in the past; what was parked since is due later.
DeadlinesInv ==
  /\ \A i \in PendingSlots : Used(i) => r.pending[i].deadline_ms <= MaxClock + timeout_ms
  /\ \A k \in DOMAIN stack : stack[k].fn = "tick" =>
       /\ stack[k].now_ms <= now_ms
       /\ \A i \in PendingSlots : Used(i) /\ CallOf(r.pending[i]) \notin stack[k].parked
            => r.pending[i].deadline_ms > stack[k].now_ms

\* The ACK of a frame the node sent to itself, which no link gets.
AckToSelf(x) == x.fn \in {"send_fn", "local_fn"} /\ x.f.ack /\ x.f.dst = my_addr

\* Where the calls are that hold a frame with its payload in a slot: nothing that
\* could send is called while they are in progress.
NestingInv ==
  \A k \in DOMAIN stack :
    /\ stack[k].fn \in {"send_fn", "local_fn"} => k = 1
    /\ stack[k].fn = "link" /\ ~PollingLinks => k = 1
    /\ stack[k].fn \in {"acked", "duplicate"} /\ stack[k].at # Elsewhere =>
         k = 1 \/ (k = 2 /\ AckToSelf(stack[1]))
    /\ stack[k].fn # "tick" /\ stack[k].at # Elsewhere => stack[k].f.src = my_addr
    /\ stack[k].fn = "tick" => k = Len(stack)

NodeInv ==
  NodeTypes /\ SlotsInv /\ DeadlinesInv /\ NestingInv /\ FramesKeepTheirPayload

----------------------------------------------------------------------------
(* The stack.                                                              *)

\* A call is pushed.
LEMMA Pushed ==
  ASSUME NEW s \in Seq(EntryT), NEW x \in EntryT, NEW t, t = <<x>> \o s
  PROVE  /\ t \in Seq(EntryT) /\ DOMAIN t = 1 .. Len(s) + 1 /\ t[1] = x
         /\ \A k \in 2 .. Len(s) + 1 : k - 1 \in DOMAIN s /\ t[k] = s[k - 1]
OBVIOUS

\* The top returns.
LEMMA Returned ==
  ASSUME NEW s \in Seq(EntryT), s # <<>>, NEW t, t = Tail(s)
  PROVE  /\ t \in Seq(EntryT) /\ DOMAIN t = 1 .. Len(s) - 1
         /\ \A k \in 1 .. Len(s) - 1 : k + 1 \in DOMAIN s /\ t[k] = s[k + 1]
OBVIOUS

\* The top is replaced.
LEMMA Replaced ==
  ASSUME NEW s \in Seq(EntryT), s # <<>>, NEW x \in EntryT, NEW t, t = <<x>> \o Tail(s)
  PROVE  /\ t \in Seq(EntryT) /\ DOMAIN t = DOMAIN s /\ t[1] = x
         /\ \A k \in DOMAIN s \ {1} : t[k] = s[k]
OBVIOUS

\* The top is replaced and makes a call.
LEMMA ReplacedTwo ==
  ASSUME NEW s \in Seq(EntryT), s # <<>>, NEW x \in EntryT, NEW y \in EntryT,
         NEW t, t = <<x, y>> \o Tail(s)
  PROVE  /\ t \in Seq(EntryT) /\ DOMAIN t = 1 .. Len(s) + 1 /\ t[1] = x /\ t[2] = y
         /\ \A k \in 3 .. Len(s) + 1 : k - 1 \in DOMAIN s \ {1} /\ t[k] = s[k - 1]
OBVIOUS

\* The only call in progress is replaced.
LEMMA ReplacedOnly ==
  ASSUME NEW s \in Seq(EntryT), Len(s) = 1, NEW x \in EntryT, NEW t, t = <<x>> \o Tail(s)
  PROVE  t \in Seq(EntryT) /\ DOMAIN t = {1} /\ t[1] = x /\ Len(t) = 1
<1>1. t \in Seq(EntryT) /\ t[1] = x
  BY Replaced
<1>2. Tail(s) \in Seq(EntryT) /\ Len(Tail(s)) = 0
  OBVIOUS
<1>3. Len(t) = 1
  BY <1>2
<1>4. DOMAIN t = {1}
  <2>1. \A u \in Seq(EntryT) : DOMAIN u = 1 .. Len(u)
    OBVIOUS
  <2>2. DOMAIN t = 1 .. 1
    BY <1>1, <1>3, <2>1, Zenon
  <2>3. 1 .. 1 = {1}
    OBVIOUS
  <2> QED BY <2>2, <2>3, Zenon
<1> QED BY <1>1, <1>3, <1>4

\* The call that runs.
LEMMA TopIs ==
  ASSUME NodeTypes, NEW fn, Running(fn)
  PROVE  /\ stack # <<>> /\ 1 \in DOMAIN stack /\ Top = stack[1] /\ Top \in EntryT
         /\ Top.fn = fn
         /\ fn # "tick" => Top \in CallT
         /\ fn = "tick" => Top \in TickT
<1>1. stack \in Seq(EntryT) /\ stack # <<>> /\ stack[1].fn = fn
  BY DEF NodeTypes, Running
<1>2. 1 \in DOMAIN stack /\ stack[1] \in EntryT
  BY <1>1
<1>3. \A x \in EntryT : (x.fn # "tick" => x \in CallT) /\ (x.fn = "tick" => x \in TickT)
  BY DEF EntryT, CallT, TickT, FnNames
<1> QED BY <1>1, <1>2, <1>3 DEF Top

----------------------------------------------------------------------------
(* What a step does to the tables.                                         *)

\* The entry in a used slot has its type, and belongs to a call.
LEMMA SlotEntry ==
  ASSUME NodeTypes, NEW i \in PendingSlots, Used(i), NEW p, p = r.pending[i]
  PROVE  /\ p \in P /\ CallOf(p) \in Calls /\ p.payload = <<CallOf(p)>>
         /\ p.dst \in Addrs /\ p.session \in Sessions /\ p.seq \in Seqs
         /\ p.retries \in 0 .. max_retries /\ p.deadline_ms \in Clocks
<1>1. r.pending \in [PendingSlots -> P \cup {Free}]
  BY EndpointFields DEF NodeTypes, R, P
<1>2. p \in P
  BY <1>1 DEF Used
<1>3. PICK c \in Calls : p.payload = <<c>>
  BY <1>2 DEF P, arc_reliable_pending_t, Payloads
<1>4. CallOf(p) = c
  BY <1>3 DEF CallOf
<1> QED BY <1>2, <1>3, <1>4 DEF P, arc_reliable_pending_t

\* No slot changes hands.
LEMMA SlotsSame ==
  ASSUME NodeTypes, SlotsInv, r'.pending = r.pending, buf' = buf,
         \A c \in Calls : \/ status'[c] = status[c] /\ tx'[c] = tx[c]
                          \/ status[c] = "unused" /\ status'[c] # "parked"
  PROVE  SlotsInv'
<1>1. ASSUME NEW i \in PendingSlots, Used(i)
      PROVE  /\ status'[CallOf(r.pending[i])] = "parked"
             /\ tx'[CallOf(r.pending[i])] = tx[CallOf(r.pending[i])]
  <2>1. CallOf(r.pending[i]) \in Calls
    BY <1>1, SlotEntry
  <2>2. status[CallOf(r.pending[i])] = "parked"
    BY <1>1 DEF SlotsInv
  <2> QED BY <2>1, <2>2
<1>2. \A c \in Calls : status'[c] = "parked" => status[c] = "parked"
  OBVIOUS
<1> QED BY <1>1, <1>2 DEF SlotsInv, Used

\* A slot is freed, by an ACK or after the last retry.
LEMMA SlotFreed ==
  ASSUME NodeTypes, SlotsInv, NEW k \in PendingSlots, Used(k),
         r'.pending = [r.pending EXCEPT ![k] = Free], buf' = buf, tx' = tx,
         NEW s, s # "parked", status' = [status EXCEPT ![CallOf(r.pending[k])] = s]
  PROVE  SlotsInv'
<1> DEFINE d == CallOf(r.pending[k])
<1>1. r.pending \in [PendingSlots -> P \cup {Free}] /\ status \in [Calls -> Outcomes]
  BY EndpointFields DEF NodeTypes, R, P
<1>2. d \in Calls
  BY SlotEntry
<1>3. r'.pending[k] = Free /\ \A i \in PendingSlots \ {k} : r'.pending[i] = r.pending[i]
  BY <1>1
<1>4. status'[d] # "parked" /\ \A c \in Calls \ {d} : status'[c] = status[c]
  BY <1>1, <1>2
<1>5. ASSUME NEW i \in PendingSlots, Used(i)'
      PROVE  /\ i # k /\ Used(i) /\ r'.pending[i] = r.pending[i]
             /\ CallOf(r.pending[i]) # d /\ CallOf(r.pending[i]) \in Calls
  <2>1. i # k /\ Used(i) /\ r'.pending[i] = r.pending[i]
    BY <1>3, <1>5 DEF Used
  <2>2. CallOf(r.pending[i]) # d
    BY <2>1 DEF SlotsInv
  <2>3. CallOf(r.pending[i]) \in Calls
    BY <2>1, SlotEntry
  <2> QED BY <2>1, <2>2, <2>3
<1>6. ASSUME NEW i \in PendingSlots, Used(i)'
      PROVE  /\ status'[CallOf(r'.pending[i])] = "parked"
             /\ buf'[i] = r'.pending[i].payload
             /\ tx'[CallOf(r'.pending[i])] = r'.pending[i].retries + 1
  <2>1. /\ Used(i) /\ r'.pending[i] = r.pending[i]
        /\ CallOf(r.pending[i]) # d /\ CallOf(r.pending[i]) \in Calls
    BY <1>5, <1>6
  <2>2. /\ status[CallOf(r.pending[i])] = "parked"
        /\ buf[i] = r.pending[i].payload
        /\ tx[CallOf(r.pending[i])] = r.pending[i].retries + 1
    BY <2>1 DEF SlotsInv
  <2> QED BY <1>4, <2>1, <2>2
<1>7. ASSUME NEW i \in PendingSlots, NEW j \in PendingSlots, Used(i)', Used(j)',
             CallOf(r'.pending[i]) = CallOf(r'.pending[j])
      PROVE  i = j
  <2>1. /\ Used(i) /\ r'.pending[i] = r.pending[i]
        /\ Used(j) /\ r'.pending[j] = r.pending[j]
    BY <1>5, <1>7
  <2> QED BY <1>7, <2>1 DEF SlotsInv
<1>8. ASSUME NEW c \in Calls, status'[c] = "parked"
      PROVE  \E i \in PendingSlots : Used(i)' /\ CallOf(r'.pending[i]) = c
  <2>1. c # d /\ status[c] = "parked"
    BY <1>4, <1>8
  <2>2. PICK i \in PendingSlots : Used(i) /\ CallOf(r.pending[i]) = c
    BY <2>1 DEF SlotsInv
  <2>3. i # k /\ r'.pending[i] = r.pending[i]
    BY <1>3, <2>1, <2>2
  <2> QED BY <2>2, <2>3 DEF Used
<1> QED BY <1>6, <1>7, <1>8 DEF SlotsInv

\* A slot keeps its frame, which is sent again.
LEMMA SlotRetried ==
  ASSUME NodeTypes, SlotsInv, NEW k \in PendingSlots, Used(k), NEW q \in P,
         q.payload = r.pending[k].payload, q.retries = r.pending[k].retries + 1,
         r'.pending = [r.pending EXCEPT ![k] = q], buf' = buf, status' = status,
         tx' = [tx EXCEPT ![CallOf(r.pending[k])] = @ + 1]
  PROVE  SlotsInv'
<1> DEFINE d == CallOf(r.pending[k])
<1>1. r.pending \in [PendingSlots -> P \cup {Free}] /\ tx \in [Calls -> Nat]
  BY EndpointFields DEF NodeTypes, R, P
<1>2. d \in Calls /\ r.pending[k].retries \in Nat
  BY SlotEntry, Timers
<1>3. r'.pending[k] = q /\ \A i \in PendingSlots \ {k} : r'.pending[i] = r.pending[i]
  BY <1>1
<1>4. q # Free /\ CallOf(q) = d
  BY FreeIsNoSlot DEF P, CallOf
<1>5. \A i \in PendingSlots : /\ Used(i)' <=> Used(i)
                              /\ Used(i) => CallOf(r'.pending[i]) = CallOf(r.pending[i])
  BY <1>3, <1>4 DEF Used
<1>6. tx'[d] = tx[d] + 1 /\ \A c \in Calls \ {d} : tx'[c] = tx[c]
  BY <1>1, <1>2
<1>7. ASSUME NEW i \in PendingSlots, Used(i)
      PROVE  /\ buf'[i] = r'.pending[i].payload
             /\ tx'[CallOf(r'.pending[i])] = r'.pending[i].retries + 1
  <2>1. buf[i] = r.pending[i].payload /\ tx[CallOf(r.pending[i])] = r.pending[i].retries + 1
    BY <1>7 DEF SlotsInv
  <2>2. CASE i = k
    BY <1>2, <1>3, <1>4, <1>6, <2>1, <2>2
  <2>3. CASE i # k
    <3>1. CallOf(r.pending[i]) # d /\ CallOf(r.pending[i]) \in Calls
      BY <1>7, <2>3, SlotEntry DEF SlotsInv
    <3> QED BY <1>3, <1>6, <2>1, <2>3, <3>1
  <2> QED BY <2>2, <2>3
<1>8. SlotsInv'
  BY <1>5, <1>7 DEF SlotsInv
<1> QED BY <1>8

\* A new call takes a free slot.
LEMMA SlotTaken ==
  ASSUME NodeTypes, SlotsInv, NEW k \in PendingSlots, ~Used(k), NEW q \in P,
         NEW c \in Calls, status[c] = "unused", q.payload = <<c>>, q.retries = 0,
         r'.pending = [r.pending EXCEPT ![k] = q],
         buf' = [buf EXCEPT ![k] = q.payload],
         status' = [status EXCEPT ![c] = "parked"], tx' = [tx EXCEPT ![c] = 1]
  PROVE  SlotsInv'
<1>1. /\ r.pending \in [PendingSlots -> P \cup {Free}] /\ DOMAIN buf = PendingSlots
      /\ status \in [Calls -> Outcomes] /\ tx \in [Calls -> Nat]
  BY EndpointFields DEF NodeTypes, R, P
<1>2. r'.pending[k] = q /\ \A i \in PendingSlots \ {k} : r'.pending[i] = r.pending[i]
  BY <1>1
<1>3. buf'[k] = <<c>> /\ \A i \in PendingSlots \ {k} : buf'[i] = buf[i]
  BY <1>1
<1>4. q # Free /\ CallOf(q) = c
  BY FreeIsNoSlot DEF P, CallOf
<1>5. /\ status'[c] = "parked" /\ \A d \in Calls \ {c} : status'[d] = status[d]
      /\ tx'[c] = 1 /\ \A d \in Calls \ {c} : tx'[d] = tx[d]
  BY <1>1
<1>6. ASSUME NEW i \in PendingSlots, Used(i)', i # k
      PROVE  /\ Used(i) /\ r'.pending[i] = r.pending[i]
             /\ CallOf(r.pending[i]) # c /\ CallOf(r.pending[i]) \in Calls
  <2>1. Used(i) /\ r'.pending[i] = r.pending[i]
    BY <1>2, <1>6 DEF Used
  <2>2. CallOf(r.pending[i]) \in Calls /\ status[CallOf(r.pending[i])] = "parked"
    BY <2>1, SlotEntry DEF SlotsInv
  <2> QED BY <2>1, <2>2
<1>7. ASSUME NEW i \in PendingSlots, Used(i)'
      PROVE  /\ status'[CallOf(r'.pending[i])] = "parked"
             /\ buf'[i] = r'.pending[i].payload
             /\ tx'[CallOf(r'.pending[i])] = r'.pending[i].retries + 1
  <2>1. CASE i = k
    BY <1>2, <1>3, <1>4, <1>5, <2>1
  <2>2. CASE i # k
    <3>1. /\ Used(i) /\ r'.pending[i] = r.pending[i]
          /\ CallOf(r.pending[i]) # c /\ CallOf(r.pending[i]) \in Calls
      BY <1>6, <1>7, <2>2
    <3>2. /\ status[CallOf(r.pending[i])] = "parked" /\ buf[i] = r.pending[i].payload
          /\ tx[CallOf(r.pending[i])] = r.pending[i].retries + 1
      BY <3>1 DEF SlotsInv
    <3> QED BY <1>3, <1>5, <2>2, <3>1, <3>2
  <2> QED BY <2>1, <2>2
<1>8. ASSUME NEW i \in PendingSlots, NEW j \in PendingSlots, Used(i)', Used(j)',
             CallOf(r'.pending[i]) = CallOf(r'.pending[j])
      PROVE  i = j
  <2>1. CASE i = k \/ j = k
    BY <1>2, <1>4, <1>6, <1>8, <2>1
  <2>2. CASE i # k /\ j # k
    BY <1>6, <1>8, <2>2 DEF SlotsInv
  <2> QED BY <2>1, <2>2
<1>9. ASSUME NEW d \in Calls, status'[d] = "parked"
      PROVE  \E i \in PendingSlots : Used(i)' /\ CallOf(r'.pending[i]) = d
  <2>1. CASE d = c
    BY <1>2, <1>4, <2>1 DEF Used
  <2>2. CASE d # c
    <3>1. PICK i \in PendingSlots : Used(i) /\ CallOf(r.pending[i]) = d
      BY <1>5, <1>9, <2>2 DEF SlotsInv
    <3>2. i # k
      BY <3>1
    <3> QED BY <1>2, <3>1, <3>2 DEF Used
  <2> QED BY <2>1, <2>2
<1> QED BY <1>7, <1>8, <1>9 DEF SlotsInv

----------------------------------------------------------------------------
(* What a step does to the deadlines.                                      *)

\* The ticks in progress are those of before, except that one may have moved on.
SameTicks ==
  \A k \in DOMAIN stack' : stack'[k].fn = "tick" =>
    \E l \in DOMAIN stack : /\ stack[l].fn = "tick"
                            /\ stack'[k].now_ms = stack[l].now_ms
                            /\ stack'[k].parked = stack[l].parked

\* The entry of a slot is an old one, or due after every tick in progress.
LEMMA DeadlinesStay ==
  ASSUME NodeTypes, DeadlinesInv, SameTicks, now_ms' >= now_ms, now_ms' \in Int,
         \A i \in PendingSlots : Used(i)' =>
           \/ /\ Used(i) /\ CallOf(r'.pending[i]) = CallOf(r.pending[i])
              /\ r'.pending[i].deadline_ms = r.pending[i].deadline_ms
           \/ /\ r'.pending[i].deadline_ms <= MaxClock + timeout_ms
              /\ \A l \in DOMAIN stack : stack[l].fn = "tick" =>
                   r'.pending[i].deadline_ms > stack[l].now_ms
  PROVE  DeadlinesInv'
<1>1. \A i \in PendingSlots : Used(i)' =>
        r'.pending[i].deadline_ms <= MaxClock + timeout_ms
  BY DEF DeadlinesInv
<1>2. ASSUME NEW k \in DOMAIN stack', stack'[k].fn = "tick"
      PROVE  /\ stack'[k].now_ms <= now_ms'
             /\ \A i \in PendingSlots :
                  Used(i)' /\ CallOf(r'.pending[i]) \notin stack'[k].parked
                    => r'.pending[i].deadline_ms > stack'[k].now_ms
  <2>1. PICK l \in DOMAIN stack : /\ stack[l].fn = "tick"
                                  /\ stack'[k].now_ms = stack[l].now_ms
                                  /\ stack'[k].parked = stack[l].parked
    BY <1>2 DEF SameTicks
  <2>2. stack[l].now_ms \in Nat /\ now_ms \in Int
    <3>1. stack[l] \in EntryT /\ now_ms \in Int
      BY DEF NodeTypes
    <3> QED BY <2>1, <3>1, NodeWiring DEF EntryT, CallT, TickT, FnNames
  <2>3. stack'[k].now_ms <= now_ms'
    BY <2>1, <2>2 DEF DeadlinesInv
  <2> QED BY <2>1, <2>3 DEF DeadlinesInv
<1> QED BY <1>1, <1>2 DEF DeadlinesInv

\* A deadline set by the clock value t, which does not wrap here.
LEMMA NewDeadline ==
  ASSUME NEW t \in 0 .. MaxClock
  PROVE  /\ t \in Clocks
         /\ (t + timeout_ms) % CLOCK = t + timeout_ms
         /\ t + timeout_ms <= MaxClock + timeout_ms /\ t + timeout_ms > t
<1>1. /\ MaxClock \in Nat /\ timeout_ms \in Nat /\ HALF_CLOCK \in Nat
      /\ timeout_ms > 0 /\ MaxClock + timeout_ms < HALF_CLOCK
  BY NodeWiring, Timers, Widths
<1> QED BY <1>1 DEF CLOCK, Clocks

----------------------------------------------------------------------------
(* What a step does to the calls in progress.                              *)

\* No call in progress needs a payload in a slot.
NoHolder ==
  \A k \in DOMAIN stack :
    /\ stack[k].fn \notin {"send_fn", "local_fn"}
    /\ stack[k].fn = "link" => PollingLinks
    /\ stack[k].fn \in {"acked", "duplicate"} => stack[k].at = Elsewhere

\* Where the application runs, or a link that polls its input.
LEMMA CallersHoldNothing ==
  ASSUME NodeTypes, NestingInv, AppRuns \/ stack = <<>> \/ (PollingLinks /\ Running("link"))
  PROVE  NoHolder
<1>1. CASE stack = <<>>
  BY <1>1 DEF NoHolder
<1>2. CASE stack # <<>>
  <2>1. /\ stack[1].fn \in {"deliver_fn", "fail_fn", "link"}
        /\ stack[1].fn = "link" => PollingLinks
    BY <1>2 DEF AppRuns, Running
  <2>2. ~AckToSelf(stack[1])
    BY <2>1 DEF AckToSelf
  <2> QED BY <2>1, <2>2 DEF NoHolder, NestingInv
<1> QED BY <1>1, <1>2

\* The top returns.
LEMMA StackReturned ==
  ASSUME NodeTypes, NestingInv, FramesKeepTheirPayload, stack # <<>>,
         stack' = Tail(stack), buf' = buf
  PROVE  stack' \in Seq(EntryT) /\ NestingInv' /\ FramesKeepTheirPayload' /\ SameTicks
<1>1. stack \in Seq(EntryT)
  BY DEF NodeTypes
<1>2. /\ stack' \in Seq(EntryT) /\ DOMAIN stack' = 1 .. Len(stack) - 1
      /\ \A k \in 1 .. Len(stack) - 1 : k + 1 \in DOMAIN stack /\ stack'[k] = stack[k + 1]
  BY <1>1, Returned
<1>3. Len(stack) \in Nat /\ Len(stack') = Len(stack) - 1
  BY <1>1
<1>4. ASSUME NEW k \in DOMAIN stack'
      PROVE  /\ k \in Nat /\ k > 0 /\ k + 1 \in DOMAIN stack
             /\ stack'[k] = stack[k + 1]
  BY <1>2, <1>3
<1>5. NestingInv'
  <2> SUFFICES ASSUME NEW k \in DOMAIN stack'
               PROVE  /\ stack'[k].fn \in {"send_fn", "local_fn"} => k = 1
                      /\ stack'[k].fn = "link" /\ ~PollingLinks => k = 1
                      /\ stack'[k].fn \in {"acked", "duplicate"} /\ stack'[k].at # Elsewhere =>
                           k = 1 \/ (k = 2 /\ AckToSelf(stack[1])')
                      /\ stack'[k].fn # "tick" /\ stack'[k].at # Elsewhere =>
                           stack'[k].f.src = my_addr
                      /\ stack'[k].fn = "tick" => k = Len(stack')
    BY DEF NestingInv
  <2>1. /\ k \in Nat /\ k > 0 /\ k + 1 \in DOMAIN stack /\ stack'[k] = stack[k + 1]
    BY <1>4
  <2>2. k + 1 # 1 /\ (k + 1 = 2 => k = 1)
    BY <2>1
  <2>3. k + 1 = Len(stack) => k = Len(stack')
    BY <1>3, <2>1
  <2> QED BY <2>1, <2>2, <2>3 DEF NestingInv
<1>6. FramesKeepTheirPayload'
  BY <1>4 DEF FramesKeepTheirPayload
<1>7. SameTicks
  BY <1>4 DEF SameTicks
<1> QED BY <1>2, <1>5, <1>6, <1>7

\* A call is made where nothing needs a payload in a slot.
LEMMA StackPushed ==
  ASSUME NodeTypes, NestingInv, NoHolder, NEW x \in CallT, stack' = <<x>> \o stack,
         x.at # Elsewhere => x.f.src = my_addr /\ buf'[x.at] = x.f.payload
  PROVE  stack' \in Seq(EntryT) /\ NestingInv' /\ FramesKeepTheirPayload' /\ SameTicks
<1>1. stack \in Seq(EntryT) /\ x \in EntryT /\ x.fn # "tick"
  BY DEF NodeTypes, EntryT, CallT, FnNames
<1>2. /\ stack' \in Seq(EntryT) /\ DOMAIN stack' = 1 .. Len(stack) + 1 /\ stack'[1] = x
      /\ \A k \in 2 .. Len(stack) + 1 : k - 1 \in DOMAIN stack /\ stack'[k] = stack[k - 1]
  BY <1>1, Pushed
<1>3. Len(stack) \in Nat /\ Len(stack') = Len(stack) + 1
  BY <1>1
<1>4. ASSUME NEW k \in DOMAIN stack', k # 1
      PROVE  k - 1 \in DOMAIN stack /\ stack'[k] = stack[k - 1] /\ k \in Nat
  BY <1>2, <1>3, <1>4
<1>5. NestingInv'
  <2> SUFFICES ASSUME NEW k \in DOMAIN stack'
               PROVE  /\ stack'[k].fn \in {"send_fn", "local_fn"} => k = 1
                      /\ stack'[k].fn = "link" /\ ~PollingLinks => k = 1
                      /\ stack'[k].fn \in {"acked", "duplicate"} /\ stack'[k].at # Elsewhere =>
                           k = 1 \/ (k = 2 /\ AckToSelf(stack[1])')
                      /\ stack'[k].fn # "tick" /\ stack'[k].at # Elsewhere =>
                           stack'[k].f.src = my_addr
                      /\ stack'[k].fn = "tick" => k = Len(stack')
    BY DEF NestingInv
  <2>1. CASE k = 1
    BY <1>1, <1>2, <2>1
  <2>2. CASE k # 1
    <3>1. k - 1 \in DOMAIN stack /\ stack'[k] = stack[k - 1] /\ k \in Nat
      BY <1>4, <2>2
    <3>2. k - 1 = Len(stack) => k = Len(stack')
      BY <1>3, <3>1
    <3> QED BY <3>1, <3>2 DEF NestingInv, NoHolder
  <2> QED BY <2>1, <2>2
<1>6. FramesKeepTheirPayload'
  <2> SUFFICES ASSUME NEW k \in DOMAIN stack',
                      stack'[k].fn \in {"send_fn", "link", "local_fn", "acked", "duplicate"},
                      stack'[k].fn = "link" => ~PollingLinks
               PROVE  stack'[k].at = Elsewhere \/ buf'[stack'[k].at] = stack'[k].f.payload
    BY DEF FramesKeepTheirPayload
  <2>1. CASE k = 1
    BY <1>2, <2>1
  <2>2. CASE k # 1
    BY <1>4, <2>2 DEF NoHolder
  <2> QED BY <2>1, <2>2
<1>7. SameTicks
  <2> SUFFICES ASSUME NEW k \in DOMAIN stack', stack'[k].fn = "tick"
               PROVE  k - 1 \in DOMAIN stack /\ stack'[k] = stack[k - 1]
    BY DEF SameTicks
  <2> QED BY <1>1, <1>2, <1>4
<1> QED BY <1>2, <1>5, <1>6, <1>7

\* The function that runs hands its frame on, as its last step.
LEMMA StackReplaced ==
  ASSUME NodeTypes, NestingInv, FramesKeepTheirPayload, NEW x \in CallT,
         stack # <<>>, Top.fn \in {"send_fn", "local_fn", "acked"},
         x.f = Top.f, x.at = Top.at, AckToSelf(Top) => AckToSelf(x),
         stack' = <<x>> \o Tail(stack), buf' = buf
  PROVE  stack' \in Seq(EntryT) /\ NestingInv' /\ FramesKeepTheirPayload' /\ SameTicks
<1>1. stack \in Seq(EntryT) /\ x \in EntryT /\ x.fn # "tick" /\ Top = stack[1]
  BY DEF NodeTypes, EntryT, CallT, FnNames, Top
<1>2. /\ stack' \in Seq(EntryT) /\ DOMAIN stack' = DOMAIN stack /\ stack'[1] = x
      /\ \A k \in DOMAIN stack \ {1} : stack'[k] = stack[k]
  BY <1>1, Replaced
<1>3. Len(stack') = Len(stack) /\ 1 \in DOMAIN stack
  BY <1>1
<1>4. AckToSelf(stack[1]) => AckToSelf(stack[1])'
  BY <1>1, <1>2 DEF AckToSelf
<1>5. NestingInv'
  BY <1>1, <1>2, <1>3, <1>4 DEF NestingInv
<1>6. FramesKeepTheirPayload'
  <2> SUFFICES ASSUME NEW k \in DOMAIN stack',
                      stack'[k].fn \in {"send_fn", "link", "local_fn", "acked", "duplicate"},
                      stack'[k].fn = "link" => ~PollingLinks
               PROVE  stack'[k].at = Elsewhere \/ buf'[stack'[k].at] = stack'[k].f.payload
    BY DEF FramesKeepTheirPayload
  <2>1. CASE k = 1
    BY <1>1, <1>2, <1>3, <2>1 DEF FramesKeepTheirPayload
  <2>2. CASE k # 1
    BY <1>2, <2>2 DEF FramesKeepTheirPayload
  <2> QED BY <2>1, <2>2
<1>7. SameTicks
  BY <1>1, <1>2 DEF SameTicks
<1> QED BY <1>2, <1>5, <1>6, <1>7

\* The ACK of a frame is sent while the frame is kept for deliver_fn.
LEMMA StackAcks ==
  ASSUME NodeTypes, NestingInv, FramesKeepTheirPayload, NEW x \in CallT, NEW y \in CallT,
         stack # <<>>, Top.fn = "local_fn", ~Top.f.ack,
         y.f = Top.f, y.at = Top.at, y.fn \in {"acked", "duplicate"},
         x.fn = "send_fn", x.at = Elsewhere, x.f.ack, x.f.dst = Top.f.src,
         stack' = <<x, y>> \o Tail(stack), buf' = buf
  PROVE  stack' \in Seq(EntryT) /\ NestingInv' /\ FramesKeepTheirPayload' /\ SameTicks
<1>1. stack \in Seq(EntryT) /\ x \in EntryT /\ y \in EntryT /\ Top = stack[1]
  BY DEF NodeTypes, EntryT, Top
<1>2. /\ stack' \in Seq(EntryT) /\ DOMAIN stack' = 1 .. Len(stack) + 1
      /\ stack'[1] = x /\ stack'[2] = y
      /\ \A k \in 3 .. Len(stack) + 1 : k - 1 \in DOMAIN stack \ {1} /\ stack'[k] = stack[k - 1]
  BY <1>1, ReplacedTwo
<1>3. Len(stack) \in Nat /\ Len(stack') = Len(stack) + 1 /\ 1 \in DOMAIN stack
  BY <1>1
<1>4. ASSUME NEW k \in DOMAIN stack', k # 1, k # 2
      PROVE  k - 1 \in DOMAIN stack /\ k - 1 # 1 /\ stack'[k] = stack[k - 1] /\ k \in Nat
  BY <1>2, <1>3, <1>4
<1>5. y.at # Elsewhere => Top.f.src = my_addr
  BY <1>1, <1>3 DEF NestingInv
<1>6. y.at # Elsewhere => AckToSelf(stack[1])'
  BY <1>2, <1>5 DEF AckToSelf
<1>7. ~AckToSelf(stack[1])
  BY <1>1 DEF AckToSelf
<1>8. NestingInv'
  <2> SUFFICES ASSUME NEW k \in DOMAIN stack'
               PROVE  /\ stack'[k].fn \in {"send_fn", "local_fn"} => k = 1
                      /\ stack'[k].fn = "link" /\ ~PollingLinks => k = 1
                      /\ stack'[k].fn \in {"acked", "duplicate"} /\ stack'[k].at # Elsewhere =>
                           k = 1 \/ (k = 2 /\ AckToSelf(stack[1])')
                      /\ stack'[k].fn # "tick" /\ stack'[k].at # Elsewhere =>
                           stack'[k].f.src = my_addr
                      /\ stack'[k].fn = "tick" => k = Len(stack')
    BY DEF NestingInv
  <2>1. CASE k = 1
    BY <1>2, <2>1
  <2>2. CASE k = 2
    BY <1>2, <1>5, <1>6, <2>2
  <2>3. CASE k # 1 /\ k # 2
    <3>1. k - 1 \in DOMAIN stack /\ k - 1 # 1 /\ stack'[k] = stack[k - 1] /\ k \in Nat
      BY <1>4, <2>3
    <3>2. k - 1 = Len(stack) => k = Len(stack')
      BY <1>3, <3>1
    <3> QED BY <1>7, <3>1, <3>2 DEF NestingInv
  <2> QED BY <2>1, <2>2, <2>3
<1>9. FramesKeepTheirPayload'
  <2> SUFFICES ASSUME NEW k \in DOMAIN stack',
                      stack'[k].fn \in {"send_fn", "link", "local_fn", "acked", "duplicate"},
                      stack'[k].fn = "link" => ~PollingLinks
               PROVE  stack'[k].at = Elsewhere \/ buf'[stack'[k].at] = stack'[k].f.payload
    BY DEF FramesKeepTheirPayload
  <2>1. CASE k = 1
    BY <1>2, <2>1
  <2>2. CASE k = 2
    BY <1>1, <1>2, <1>3, <2>2 DEF FramesKeepTheirPayload
  <2>3. CASE k # 1 /\ k # 2
    BY <1>4, <2>3 DEF FramesKeepTheirPayload
  <2> QED BY <2>1, <2>2, <2>3
<1>10. SameTicks
  <2> SUFFICES ASSUME NEW k \in DOMAIN stack', stack'[k].fn = "tick"
               PROVE  k - 1 \in DOMAIN stack /\ stack'[k] = stack[k - 1]
    BY DEF SameTicks
  <2>1. k # 1 /\ k # 2
    BY <1>2
  <2> QED BY <1>4, <2>1
<1> QED BY <1>2, <1>8, <1>9, <1>10

\* A tick, which is the only call in progress, calls send_fn or fail_fn.
LEMMA StackTicks ==
  ASSUME NodeTypes, NestingInv, NEW x \in CallT, NEW y \in TickT,
         stack # <<>>, Top.fn = "tick",
         y.now_ms = Top.now_ms, y.parked = Top.parked,
         x.at # Elsewhere => x.f.src = my_addr /\ buf[x.at] = x.f.payload,
         stack' = <<x>> \o (<<y>> \o Tail(stack)), buf' = buf
  PROVE  stack' \in Seq(EntryT) /\ NestingInv' /\ FramesKeepTheirPayload' /\ SameTicks
<1>1. /\ stack \in Seq(EntryT) /\ x \in EntryT /\ y \in EntryT /\ Top = stack[1]
      /\ x.fn # "tick" /\ y.fn = "tick"
  BY DEF NodeTypes, EntryT, Top, CallT, TickT, FnNames
<1>2. Len(stack) = 1 /\ 1 \in DOMAIN stack
  BY <1>1 DEF NestingInv
<1>3. PICK t : t = <<y>> \o Tail(stack)
  OBVIOUS
<1>4. /\ t \in Seq(EntryT) /\ DOMAIN t = {1} /\ t[1] = y /\ Len(t) = 1
  BY ZenonT(40), <1>1, <1>2, <1>3, ReplacedOnly
<1>5. /\ stack' \in Seq(EntryT) /\ DOMAIN stack' = {1, 2} /\ Len(stack') = 2
      /\ stack'[1] = x /\ stack'[2] = y
  <2>1. stack' = <<x>> \o t
    BY <1>3
  <2>2. /\ stack' \in Seq(EntryT) /\ DOMAIN stack' = 1 .. Len(t) + 1 /\ stack'[1] = x
        /\ \A k \in 2 .. Len(t) + 1 : k - 1 \in DOMAIN t /\ stack'[k] = t[k - 1]
    BY <1>1, <1>4, <2>1, Pushed
  <2>3. stack'[2] = y
    BY <1>4, <2>2
  <2> QED BY <1>4, <2>2, <2>3
<1>6. NestingInv'
  BY <1>1, <1>5 DEF NestingInv
<1>7. FramesKeepTheirPayload'
  BY <1>1, <1>5 DEF FramesKeepTheirPayload
<1>8. SameTicks
  BY <1>1, <1>2, <1>5 DEF SameTicks
<1> QED BY <1>5, <1>6, <1>7, <1>8

----------------------------------------------------------------------------
(* The frames.                                                             *)

\* The fields of the frames on the stack.
LEMMA FrameFields ==
  ASSUME NEW f \in Inbound \cup OwnFrames
  PROVE  f.src \in Addrs /\ f.session \in Sessions /\ f.seq \in Seqs
BY NodeFrames, NodeWiring DEF OwnFrames, Sessions

\* pending_to_frame makes a frame of the node of what is parked.
LEMMA ParkedFrame ==
  ASSUME NEW p \in P
  PROVE  /\ pending_to_frame(p, my_addr) \in OwnFrames
         /\ pending_to_frame(p, my_addr).src = my_addr
         /\ pending_to_frame(p, my_addr).payload = p.payload
BY DEF P, arc_reliable_pending_t, pending_to_frame, OwnFrames

\* emit_ack makes a frame of the node.
LEMMA AckFrame ==
  ASSUME NodeTypes, NEW f \in Inbound \cup OwnFrames
  PROVE  /\ emit_ack(r, f) \in OwnFrames
         /\ emit_ack(r, f).ack /\ emit_ack(r, f).dst = f.src
<1>1. r.my_addr = my_addr /\ r.session \in Sessions /\ r.next_seq \in Seqs
  BY EndpointFields DEF NodeTypes, R
<1>2. f.src \in Addrs /\ f.seq \in Nat
  BY FrameFields, Moduli DEF Seqs
<1>3. f.seq \div BYTE \in Int /\ f.seq % BYTE \in Int
  BY <1>2, Widths
<1> QED BY <1>1, <1>2, <1>3 DEF emit_ack, OwnFrames

\* The entry arc_reliable_send stages for call c.
LEMMA Staged ==
  ASSUME NodeTypes, NEW c \in Calls, NEW p, p = StagedEntry(r, c.dst, FALSE, <<c>>, now_ms)
  PROVE  /\ p \in P /\ p.payload = <<c>> /\ p.retries = 0
         /\ p.deadline_ms = now_ms + timeout_ms
<1>1. r.session \in Sessions /\ r.next_seq \in Seqs /\ now_ms \in 0 .. MaxClock
  BY EndpointFields DEF NodeTypes, R
<1>2. now_ms \in Clocks /\ (now_ms + timeout_ms) % CLOCK = now_ms + timeout_ms
  BY <1>1, NewDeadline
<1>3. (now_ms + timeout_ms) % CLOCK \in Clocks
  BY <1>2, Deadline
<1>4. c.dst \in Addrs /\ 0 \in 0 .. max_retries /\ <<c>> \in Payloads
  BY NodeWiring, Timers DEF Payloads
<1> QED BY <1>1, <1>2, <1>3, <1>4 DEF StagedEntry, P, arc_reliable_pending_t

----------------------------------------------------------------------------
(* The actions.                                                            *)

\* A step after which every slot has the frame it had.
LEMMA SlotsStay ==
  ASSUME NodeInv, r' \in R, r'.my_addr = my_addr, r'.pending = r.pending, buf' = buf,
         now_ms' \in 0 .. MaxClock, now_ms' >= now_ms,
         status' \in [Calls -> Outcomes], tx' \in [Calls -> Nat],
         \A c \in Calls : \/ status'[c] = status[c] /\ tx'[c] = tx[c]
                          \/ status[c] = "unused" /\ status'[c] # "parked",
         stack' \in Seq(EntryT), NestingInv', FramesKeepTheirPayload', SameTicks
  PROVE  NodeInv'
<1>1. NodeTypes'
  BY DEF NodeInv, NodeTypes
<1>2. SlotsInv'
  BY SlotsSame DEF NodeInv
<1>3. DeadlinesInv'
  <2>1. now_ms' \in Int
    BY NodeWiring
  <2>2. \A i \in PendingSlots : Used(i)' =>
          /\ Used(i) /\ CallOf(r'.pending[i]) = CallOf(r.pending[i])
          /\ r'.pending[i].deadline_ms = r.pending[i].deadline_ms
    BY DEF Used
  <2> QED BY <2>1, <2>2, DeadlinesStay DEF NodeInv
<1> QED BY <1>1, <1>2, <1>3 DEF NodeInv

\* The steps that only move the stack.
LEMMA OnlyStack ==
  ASSUME NodeInv, UNCHANGED <<r, buf, now_ms, status, tx>>,
         stack' \in Seq(EntryT), NestingInv', FramesKeepTheirPayload', SameTicks
  PROVE  NodeInv'
<1>1. /\ r' \in R /\ r'.my_addr = my_addr /\ now_ms' \in 0 .. MaxClock /\ now_ms' >= now_ms
      /\ status' \in [Calls -> Outcomes] /\ tx' \in [Calls -> Nat]
  BY NodeWiring DEF NodeInv, NodeTypes
<1> QED BY <1>1, SlotsStay

\* arc_reliable_send parks its frame in a slot no call on the stack uses.
LEMMA SendReliableStep ==
  ASSUME NodeInv, NEW c \in Calls, SendReliable(c) PROVE NodeInv'
<1>1. PICK p : p = StagedEntry(r, c.dst, FALSE, <<c>>, now_ms)
  OBVIOUS
<1>2. PICK i : i = pending_alloc(r.pending)
  OBVIOUS
<1> DEFINE x == Call("send_fn", pending_to_frame(p, my_addr), i)
<1>3. /\ AppRuns /\ status[c] = "unused" /\ FreeSlots(r.pending) # {}
      /\ r' = [take_seq(r) EXCEPT !.pending[i] = p]
      /\ buf' = [buf EXCEPT ![i] = p.payload]
      /\ stack' = <<x>> \o stack
      /\ status' = [status EXCEPT ![c] = "parked"]
      /\ tx' = [tx EXCEPT ![c] = 1] /\ now_ms' = now_ms
  BY <1>1, <1>2 DEF SendReliable, SendParked
<1>4. /\ r \in R /\ r.my_addr = my_addr /\ now_ms \in 0 .. MaxClock
      /\ DOMAIN buf = PendingSlots
      /\ status \in [Calls -> Outcomes] /\ tx \in [Calls -> Nat] /\ NodeTypes
  BY DEF NodeInv, NodeTypes
<1>5. p \in P /\ p.payload = <<c>> /\ p.retries = 0 /\ p.deadline_ms = now_ms + timeout_ms
  BY <1>1, <1>4, Staged
<1>6. i \in PendingSlots /\ ~Used(i)
  BY <1>2, <1>3, <1>4, AllocFree DEF R, Used
<1>7. r' \in R /\ r'.pending = [r.pending EXCEPT ![i] = p] /\ r'.my_addr = my_addr
  <2>1. /\ [take_seq(r) EXCEPT !.pending[i] = p] \in R
        /\ [take_seq(r) EXCEPT !.pending[i] = p].pending = [r.pending EXCEPT ![i] = p]
        /\ [take_seq(r) EXCEPT !.pending[i] = p].my_addr = r.my_addr
    <3>1. /\ r \in arc_reliable_t(Addrs, Sessions, Payloads)
          /\ p \in arc_reliable_pending_t(Addrs, Sessions, Payloads)
      BY <1>4, <1>5 DEF R, P
    <3> QED BY <1>6, <3>1, ParkEntry DEF R
  <2>2. r' = [take_seq(r) EXCEPT !.pending[i] = p] /\ r.my_addr = my_addr
    BY <1>3, <1>4
  <2> QED BY <2>1, <2>2
<1>8. SlotsInv'
  BY <1>3, <1>5, <1>6, <1>7, SlotTaken DEF NodeInv
<1>9. stack' \in Seq(EntryT) /\ NestingInv' /\ FramesKeepTheirPayload' /\ SameTicks
  <2>1. NoHolder
    BY <1>3, CallersHoldNothing DEF NodeInv
  <2>2. /\ pending_to_frame(p, my_addr) \in OwnFrames
        /\ pending_to_frame(p, my_addr).src = my_addr
        /\ pending_to_frame(p, my_addr).payload = p.payload
    BY <1>5, ParkedFrame
  <2>3. /\ x \in CallT /\ x.at = i /\ x.f = pending_to_frame(p, my_addr)
    BY <1>6, <2>2 DEF Call, CallT, FnNames
  <2>4. buf'[i] = p.payload
    BY <1>3, <1>4, <1>6
  <2> HIDE DEF x
  <2> QED BY <1>3, <2>1, <2>2, <2>3, <2>4, StackPushed DEF NodeInv
<1>10. DeadlinesInv'
  <2>1. r.pending \in [PendingSlots -> P \cup {Free}]
    BY <1>4, EndpointFields DEF R, P
  <2>2. \A j \in PendingSlots : Used(j)' =>
           \/ /\ Used(j) /\ CallOf(r'.pending[j]) = CallOf(r.pending[j])
              /\ r'.pending[j].deadline_ms = r.pending[j].deadline_ms
           \/ r'.pending[j].deadline_ms = now_ms + timeout_ms
    BY <1>5, <1>6, <1>7, <2>1 DEF Used
  <2>3. ASSUME NEW l \in DOMAIN stack, stack[l].fn = "tick"
        PROVE  now_ms + timeout_ms > stack[l].now_ms
    <3>1. stack[l] \in EntryT
      BY DEF NodeInv, NodeTypes
    <3>2. stack[l].now_ms \in Nat
      BY <2>3, <3>1 DEF EntryT, CallT, TickT, FnNames
    <3>3. stack[l].now_ms <= now_ms
      BY <2>3 DEF NodeInv, DeadlinesInv
    <3> QED BY <1>4, <3>2, <3>3, NodeWiring, Timers
  <2>4. now_ms + timeout_ms <= MaxClock + timeout_ms
    BY <1>4, NewDeadline
  <2>5. now_ms' \in Int /\ now_ms' >= now_ms
    BY <1>3, <1>4, NodeWiring
  <2> QED BY <1>4, <1>9, <2>2, <2>3, <2>4, <2>5, DeadlinesStay DEF NodeInv
<1>11. NodeTypes'
  <2>1. status' \in [Calls -> Outcomes] /\ tx' \in [Calls -> Nat] /\ DOMAIN buf' = PendingSlots
    BY <1>3, <1>4 DEF Outcomes
  <2> QED BY <1>3, <1>4, <1>7, <1>9, <2>1 DEF NodeTypes
<1> QED BY <1>8, <1>9, <1>10, <1>11 DEF NodeInv

\* An unreliable send leaves every slot alone.
LEMMA SendUnreliableStep ==
  ASSUME NodeInv, NEW c \in Calls, NEW flagged \in BOOLEAN, SendUnreliable(c, flagged)
  PROVE  NodeInv'
<1>1. PICK p : p = StagedEntry(r, c.dst, FALSE, <<c>>, now_ms)
  OBVIOUS
<1>2. PICK f : f = [pending_to_frame(p, my_addr) EXCEPT !.reliable = flagged]
  OBVIOUS
<1> DEFINE x == Call("send_fn", f, Elsewhere)
<1>3. /\ AppRuns /\ status[c] = "unused" /\ r' = take_seq(r)
      /\ stack' = <<x>> \o stack
      /\ status' = [status EXCEPT ![c] = "sent"]
      /\ tx' = [tx EXCEPT ![c] = 1] /\ buf' = buf /\ now_ms' = now_ms
  BY <1>1, <1>2 DEF SendUnreliable
<1>4. /\ r \in R /\ r.my_addr = my_addr /\ now_ms \in 0 .. MaxClock
      /\ status \in [Calls -> Outcomes] /\ tx \in [Calls -> Nat] /\ NodeTypes
  BY DEF NodeInv, NodeTypes
<1>5. f \in OwnFrames
  <2>1. pending_to_frame(p, my_addr) \in OwnFrames
    BY <1>1, <1>4, Staged, ParkedFrame
  <2> QED BY <1>2, <2>1 DEF OwnFrames
<1>6. r' \in R /\ r'.pending = r.pending /\ r'.my_addr = my_addr
  BY <1>3, <1>4, TakeSeq DEF R
<1>7. stack' \in Seq(EntryT) /\ NestingInv' /\ FramesKeepTheirPayload' /\ SameTicks
  <2>1. NoHolder
    BY <1>3, CallersHoldNothing DEF NodeInv
  <2>2. x \in CallT /\ x.at = Elsewhere
    BY <1>5 DEF Call, CallT, FnNames
  <2> HIDE DEF x
  <2> QED BY <1>3, <2>1, <2>2, StackPushed DEF NodeInv
<1>8. status' \in [Calls -> Outcomes] /\ tx' \in [Calls -> Nat]
  BY <1>3, <1>4 DEF Outcomes
<1>9. \A d \in Calls : \/ status'[d] = status[d] /\ tx'[d] = tx[d]
                       \/ status[d] = "unused" /\ status'[d] # "parked"
  BY <1>3, <1>4
<1>10. now_ms' \in 0 .. MaxClock /\ now_ms' >= now_ms
  BY <1>3, <1>4, NodeWiring
<1> QED BY <1>3, <1>6, <1>7, <1>8, <1>9, <1>10, SlotsStay

\* A send that finds no slot leaves every slot alone.
LEMMA SendBufferFullStep ==
  ASSUME NodeInv, NEW c \in Calls, SendBufferFull(c) PROVE NodeInv'
<1>1. /\ status[c] = "unused" /\ r' = take_seq(r) /\ stack' = stack
      /\ status' = [status EXCEPT ![c] = "refused"]
      /\ tx' = tx /\ buf' = buf /\ now_ms' = now_ms
  BY DEF SendBufferFull
<1>2. /\ r \in R /\ r.my_addr = my_addr /\ now_ms \in 0 .. MaxClock
      /\ status \in [Calls -> Outcomes] /\ tx \in [Calls -> Nat] /\ NodeTypes
  BY DEF NodeInv, NodeTypes
<1>3. r' \in R /\ r'.pending = r.pending /\ r'.my_addr = my_addr
  BY <1>1, <1>2, TakeSeq DEF R
<1>4. stack' \in Seq(EntryT) /\ NestingInv' /\ FramesKeepTheirPayload' /\ SameTicks
  <2>1. stack' \in Seq(EntryT) /\ SameTicks
    BY <1>1 DEF NodeInv, NodeTypes, SameTicks
  <2>2. NestingInv'
    BY <1>1 DEF NodeInv, NestingInv, AckToSelf
  <2>3. FramesKeepTheirPayload'
    BY <1>1 DEF NodeInv, FramesKeepTheirPayload
  <2> QED BY <2>1, <2>2, <2>3
<1>5. status' \in [Calls -> Outcomes] /\ tx' \in [Calls -> Nat]
  BY <1>1, <1>2 DEF Outcomes
<1>6. \A d \in Calls : \/ status'[d] = status[d] /\ tx'[d] = tx[d]
                       \/ status[d] = "unused" /\ status'[d] # "parked"
  BY <1>1, <1>2
<1>7. now_ms' \in 0 .. MaxClock /\ now_ms' >= now_ms
  BY <1>1, <1>2, NodeWiring
<1> QED BY <1>1, <1>3, <1>4, <1>5, <1>6, <1>7, SlotsStay

\* Each of these ends a call.
LEMMA ReturnSteps ==
  ASSUME NodeInv,
         RouteNone \/ LinkReturns \/ DropDuplicate \/ AppReturns \/ TickReturns
  PROVE  NodeInv'
<1>1. stack # <<>> /\ stack' = Tail(stack) /\ UNCHANGED <<r, buf, now_ms, status, tx>>
  BY DEF RouteNone, LinkReturns, DropDuplicate, AppReturns, TickReturns, Running, Caller
<1>2. stack' \in Seq(EntryT) /\ NestingInv' /\ FramesKeepTheirPayload' /\ SameTicks
  BY <1>1, StackReturned DEF NodeInv
<1> QED BY <1>1, <1>2, OnlyStack

\* The call that the router makes for the frame at the top.
LEMMA HandedOn ==
  ASSUME NodeTypes, NEW fn \in FnNames, NEW gn, gn # "tick", Running(gn)
  PROVE  /\ Call(fn, Top.f, Top.at) \in CallT /\ Call(fn, Top.f, Top.at).fn = fn
         /\ Call(fn, Top.f, Top.at).f = Top.f /\ Call(fn, Top.f, Top.at).at = Top.at
         /\ stack # <<>> /\ Top.fn = gn /\ Top.f \in Inbound \cup OwnFrames
<1>1. Top \in CallT /\ stack # <<>> /\ Top.fn = gn
  BY TopIs
<1> QED BY <1>1 DEF Call, CallT

\* The calls on the way of a frame through the router leave the endpoint alone.
LEMMA RouteSteps ==
  ASSUME NodeInv, RouteLocal \/ RouteForward PROVE NodeInv'
<1>1. PICK fn \in {"local_fn", "link"} :
        /\ Running("send_fn") /\ stack' = <<Call(fn, Top.f, Top.at)>> \o Caller
        /\ fn = "link" => Top.f.dst # my_addr
        /\ UNCHANGED <<r, buf, now_ms, status, tx>>
  BY DEF RouteLocal, RouteForward
<1> DEFINE x == Call(fn, Top.f, Top.at)
<1>2. /\ x \in CallT /\ x.fn = fn /\ x.f = Top.f /\ x.at = Top.at
      /\ stack # <<>> /\ Top.fn = "send_fn"
  BY <1>1, HandedOn DEF NodeInv, FnNames
<1>3. stack' = <<x>> \o Tail(stack)
  BY <1>1 DEF Caller
<1> HIDE DEF x
<1>4. AckToSelf(Top) => AckToSelf(x)
  BY <1>1, <1>2 DEF AckToSelf
<1>5. stack' \in Seq(EntryT) /\ NestingInv' /\ FramesKeepTheirPayload' /\ SameTicks
  BY <1>1, <1>2, <1>3, <1>4, StackReplaced DEF NodeInv
<1> QED BY <1>1, <1>5, OnlyStack

\* A link hands in a frame of a peer, which is in no slot.
LEMMA ArriveStep ==
  ASSUME NodeInv, NEW f \in Inbound, Arrive(f) PROVE NodeInv'
<1> DEFINE x == Call("send_fn", f, Elsewhere)
<1>1. /\ stack = <<>> \/ (PollingLinks /\ Running("link"))
      /\ stack' = <<x>> \o stack /\ UNCHANGED <<r, buf, now_ms, status, tx>>
  BY DEF Arrive
<1>2. x \in CallT /\ x.at = Elsewhere
  BY DEF Call, CallT, FnNames
<1>3. NoHolder
  BY <1>1, CallersHoldNothing DEF NodeInv
<1> HIDE DEF x
<1>4. stack' \in Seq(EntryT) /\ NestingInv' /\ FramesKeepTheirPayload' /\ SameTicks
  BY <1>1, <1>2, <1>3, StackPushed DEF NodeInv
<1> QED BY <1>1, <1>4, OnlyStack

\* arc_reliable_receive up to send_fn of the ACK.
LEMMA ReceiveDataStep ==
  ASSUME NodeInv, ReceiveData PROVE NodeInv'
<1> DEFINE f == Top.f
           fn == IF IsDuplicate(r, f) THEN "duplicate" ELSE "acked"
           x == Call("send_fn", emit_ack(r, f), Elsewhere)
           y == Call(fn, f, Top.at)
<1>1. /\ Running("local_fn") /\ ~f.ack /\ r' = take_seq(CheckSession(r, f))
      /\ stack' = <<x, y>> \o Tail(stack) /\ UNCHANGED <<buf, now_ms, status, tx>>
  BY DEF ReceiveData, is_ack_frame, Caller
<1>2. /\ r \in R /\ r.my_addr = my_addr /\ now_ms \in 0 .. MaxClock
      /\ status \in [Calls -> Outcomes] /\ tx \in [Calls -> Nat] /\ NodeTypes
  BY DEF NodeInv, NodeTypes
<1>3. /\ y \in CallT /\ y.fn = fn /\ y.f = f /\ y.at = Top.at
      /\ stack # <<>> /\ Top.fn = "local_fn" /\ f \in Inbound \cup OwnFrames
  BY <1>1, <1>2, HandedOn DEF FnNames
<1>4. /\ emit_ack(r, f) \in OwnFrames /\ emit_ack(r, f).ack /\ emit_ack(r, f).dst = f.src
  BY <1>2, <1>3, AckFrame
<1>5. /\ x \in CallT /\ x.fn = "send_fn" /\ x.at = Elsewhere /\ x.f.ack /\ x.f.dst = f.src
  BY <1>4 DEF Call, CallT, FnNames
<1>6. r' \in R /\ r'.pending = r.pending /\ r'.my_addr = my_addr
  <2>1. f.src \in Addrs /\ f.session \in Sessions /\ f.seq \in Seqs
    BY <1>3, FrameFields
  <2>2. PICK h : h = CheckSession(r, f)
    OBVIOUS
  <2>3. h \in R /\ h.pending = r.pending /\ h.my_addr = r.my_addr
    BY <1>2, <2>1, <2>2, CheckSessionType DEF R
  <2>4. take_seq(h) \in R /\ take_seq(h).pending = h.pending /\ take_seq(h).my_addr = h.my_addr
    BY <2>3, TakeSeq DEF R
  <2> QED BY <1>1, <1>2, <2>2, <2>3, <2>4
<1>7. y.fn \in {"acked", "duplicate"}
  BY <1>3
<1> HIDE DEF x, y
<1>8. stack' \in Seq(EntryT) /\ NestingInv' /\ FramesKeepTheirPayload' /\ SameTicks
  BY <1>1, <1>2, <1>3, <1>5, <1>7, StackAcks DEF NodeInv
<1>9. now_ms' \in 0 .. MaxClock /\ now_ms' >= now_ms
  BY <1>1, <1>2, NodeWiring
<1> QED BY <1>1, <1>2, <1>6, <1>8, <1>9, SlotsStay

\* The key is remembered if there is one, and deliver_fn is called.
LEMMA DeliverStep ==
  ASSUME NodeInv, Deliver PROVE NodeInv'
<1> DEFINE x == Call("deliver_fn", Top.f, Top.at)
<1>1. /\ \/ Running("acked") /\ r' = seen_add(r, seen_key(Top.f))
         \/ Running("local_fn") /\ ~Top.f.ack /\ r' = r
      /\ stack' = <<x>> \o Tail(stack) /\ UNCHANGED <<buf, now_ms, status, tx>>
  BY DEF Deliver, is_ack_frame, Caller
<1>2. /\ r \in R /\ r.my_addr = my_addr /\ now_ms \in 0 .. MaxClock
      /\ status \in [Calls -> Outcomes] /\ tx \in [Calls -> Nat] /\ NodeTypes
  BY DEF NodeInv, NodeTypes
<1>3. /\ x \in CallT /\ x.f = Top.f /\ x.at = Top.at
      /\ stack # <<>> /\ Top.fn \in {"acked", "local_fn"} /\ Top.f \in Inbound \cup OwnFrames
  BY <1>1, <1>2, HandedOn DEF FnNames
<1>4. r' \in R /\ r'.pending = r.pending /\ r'.my_addr = my_addr
  <2>1. seen_key(Top.f) \in arc_reliable_seen_t(Addrs, Sessions)
    BY <1>3, FrameFields DEF seen_key, arc_reliable_seen_t
  <2>2. PICK k : k = seen_key(Top.f)
    OBVIOUS
  <2>3. seen_add(r, k) \in R /\ seen_add(r, k).pending = r.pending
        /\ seen_add(r, k).my_addr = r.my_addr
    <3>1. /\ r \in arc_reliable_t(Addrs, Sessions, Payloads)
          /\ k \in arc_reliable_seen_t(Addrs, Sessions)
      BY <1>2, <2>1, <2>2 DEF R
    <3>2. seen_add(r, k).pending = r.pending /\ seen_add(r, k).my_addr = r.my_addr
      BY <3>1, SeenAddFields
    <3>3. seen_add(r, k) \in R
      BY <3>1, SeenAddType DEF R
    <3> QED BY <3>2, <3>3
  <2> QED BY <1>1, <1>2, <2>2, <2>3
<1>5. ~AckToSelf(Top)
  BY <1>1, <1>2, TopIs DEF AckToSelf
<1> HIDE DEF x
<1>6. stack' \in Seq(EntryT) /\ NestingInv' /\ FramesKeepTheirPayload' /\ SameTicks
  BY <1>1, <1>2, <1>3, <1>5, StackReplaced DEF NodeInv
<1>7. now_ms' \in 0 .. MaxClock /\ now_ms' >= now_ms
  BY <1>1, <1>2, NodeWiring
<1> QED BY <1>1, <1>2, <1>4, <1>6, <1>7, SlotsStay

\* Time passes between calls.
LEMMA AdvanceClockStep ==
  ASSUME NodeInv, AdvanceClock PROVE NodeInv'
<1>1. /\ now_ms < MaxClock /\ now_ms' = now_ms + 1 /\ UNCHANGED <<r, buf, stack, status, tx>>
  BY DEF AdvanceClock
<1>2. /\ r \in R /\ r.my_addr = my_addr /\ now_ms \in 0 .. MaxClock
      /\ status \in [Calls -> Outcomes] /\ tx \in [Calls -> Nat]
  BY DEF NodeInv, NodeTypes
<1>3. now_ms' \in 0 .. MaxClock /\ now_ms' >= now_ms
  BY <1>1, <1>2, NodeWiring
<1>4. stack' \in Seq(EntryT) /\ SameTicks
  BY <1>1 DEF NodeInv, NodeTypes, SameTicks
<1>5. NestingInv'
  BY <1>1 DEF NodeInv, NestingInv, AckToSelf
<1>6. FramesKeepTheirPayload'
  BY <1>1 DEF NodeInv, FramesKeepTheirPayload
<1> QED BY <1>1, <1>2, <1>3, <1>4, <1>5, <1>6, SlotsStay

\* A slot is freed: what is left is as it was.
LEMMA FreedStep ==
  ASSUME NodeInv, NEW i \in PendingSlots, Used(i),
         r' \in R, r'.my_addr = my_addr, r'.pending = [r.pending EXCEPT ![i] = Free],
         buf' = buf, tx' = tx, now_ms' = now_ms,
         NEW s \in {"acked", "failed"},
         status' = [status EXCEPT ![CallOf(r.pending[i])] = s],
         stack' \in Seq(EntryT), NestingInv', FramesKeepTheirPayload', SameTicks
  PROVE  NodeInv'
<1>1. SlotsInv'
  BY SlotFreed DEF NodeInv
<1>2. /\ r.pending \in [PendingSlots -> P \cup {Free}] /\ now_ms \in 0 .. MaxClock
      /\ status \in [Calls -> Outcomes]
  BY EndpointFields DEF NodeInv, NodeTypes, R, P
<1>3. DeadlinesInv'
  <2>1. \A j \in PendingSlots : Used(j)' =>
          /\ Used(j) /\ CallOf(r'.pending[j]) = CallOf(r.pending[j])
          /\ r'.pending[j].deadline_ms = r.pending[j].deadline_ms
    BY <1>2 DEF Used
  <2>2. now_ms' \in Int /\ now_ms' >= now_ms
    BY <1>2, NodeWiring
  <2> QED BY <2>1, <2>2, DeadlinesStay DEF NodeInv
<1>4. status' \in [Calls -> Outcomes]
  BY <1>2 DEF Outcomes
<1>5. NodeTypes'
  BY <1>2, <1>4 DEF NodeInv, NodeTypes
<1> QED BY <1>1, <1>3, <1>5 DEF NodeInv

\* An ACK frees at most one slot, while no call on the stack uses it.
LEMMA ReceiveAnAckStep ==
  ASSUME NodeInv, ReceiveAnAck PROVE NodeInv'
<1>1. PICK f : f = Top.f
  OBVIOUS
<1>2. /\ stack # <<>> /\ stack' = Tail(stack) /\ r' = ReceiveAck(r, f)
      /\ status' = IF AckedSlots(r, f) = {} THEN status
                   ELSE [status EXCEPT ![CallOf(r.pending[AckedSlot(r, f)])] = "acked"]
      /\ UNCHANGED <<buf, now_ms, tx>>
  BY <1>1 DEF ReceiveAnAck, Running, Caller
<1>3. stack' \in Seq(EntryT) /\ NestingInv' /\ FramesKeepTheirPayload' /\ SameTicks
  BY <1>2, StackReturned DEF NodeInv
<1>4. r \in R /\ r.my_addr = my_addr
  BY DEF NodeInv, NodeTypes
<1>5. CASE AckedSlots(r, f) = {}
  <2>1. r' = r /\ status' = status
    BY <1>2, <1>5 DEF ReceiveAck
  <2> QED BY <1>2, <1>3, <2>1, OnlyStack
<1>6. CASE AckedSlots(r, f) # {}
  <2>1. PICK i : i = AckedSlot(r, f)
    OBVIOUS
  <2>2. i \in PendingSlots /\ Used(i)
    BY <1>4, <1>6, <2>1, AckedSlotUsed DEF R, Used
  <2>3. r' \in R /\ r'.my_addr = my_addr
    BY <1>2, <1>4, ReceiveAckType, ReceiveAckFields DEF R
  <2>4. r'.pending = [r.pending EXCEPT ![i] = Free]
    <3>1. r' = [r EXCEPT !.pending[i] = Free]
      BY <1>2, <1>6, <2>1 DEF ReceiveAck
    <3> QED BY <1>4, <3>1 DEF R, arc_reliable_t
  <2>5. status' = [status EXCEPT ![CallOf(r.pending[i])] = "acked"]
    BY <1>2, <1>6, <2>1
  <2> QED BY <1>2, <1>3, <2>2, <2>3, <2>4, <2>5, FreedStep
<1> QED BY <1>5, <1>6

\* What a tick in progress finds at the next slot that is due.
LEMMA DueSlot ==
  ASSUME NodeInv, Running("tick"), DueSlots # {}, NEW i, i = FirstSlot(DueSlots),
         NEW y, y = [Top EXCEPT !.i = i + 1]
  PROVE  /\ i \in PendingSlots /\ Used(i) /\ Expired(r.pending[i], Top.now_ms)
         /\ r.pending[i] \in P /\ buf[i] = r.pending[i].payload
         /\ stack # <<>> /\ Top.fn = "tick" /\ Top.now_ms \in 0 .. MaxClock
         /\ y \in TickT /\ y.now_ms = Top.now_ms /\ y.parked = Top.parked
         /\ \A l \in DOMAIN stack : stack[l] = Top
<1>1. DOMAIN r.pending = PendingSlots
  BY TableSlots DEF NodeInv, NodeTypes, R
<1>2. DueSlots \in SUBSET (0 .. ARC_RELIABLE_PENDING_MAX - 1)
  BY <1>1 DEF DueSlots, ExpiredSlots, UsedSlots, PendingSlots
<1>3. i \in DueSlots
  BY <1>2, TableSizes, FirstSlotIsMin
<1>4. i \in PendingSlots /\ Used(i) /\ Expired(r.pending[i], Top.now_ms)
  BY <1>1, <1>3 DEF DueSlots, ExpiredSlots, UsedSlots, Used
<1>5. r.pending[i] \in P /\ buf[i] = r.pending[i].payload
  BY <1>4, SlotEntry DEF NodeInv, SlotsInv
<1>6. stack # <<>> /\ Top.fn = "tick" /\ Top \in TickT /\ Top = stack[1] /\ 1 \in DOMAIN stack
  BY TopIs DEF NodeInv
<1>7. Top.now_ms \in 0 .. MaxClock
  <2>1. Top.now_ms <= now_ms
    BY <1>6 DEF NodeInv, DeadlinesInv
  <2>2. now_ms \in 0 .. MaxClock /\ Top.now_ms \in Nat
    BY <1>6 DEF NodeInv, NodeTypes, TickT
  <2> QED BY <2>1, <2>2, NodeWiring
<1>8. i + 1 \in Nat
  BY <1>4, TableSizes DEF PendingSlots
<1>9. y \in TickT /\ y.now_ms = Top.now_ms /\ y.parked = Top.parked
  BY <1>6, <1>8 DEF TickT
<1>10. \A l \in DOMAIN stack : stack[l] = Top
  <2>1. Len(stack) = 1
    BY <1>6 DEF NodeInv, NestingInv
  <2>2. stack \in Seq(EntryT)
    BY DEF NodeInv, NodeTypes
  <2> QED BY <1>6, <2>1, <2>2
<1> QED BY <1>4, <1>5, <1>6, <1>7, <1>9, <1>10

\* An endpoint with another pending[].
LEMMA PendingWritten ==
  ASSUME NEW e \in R, NEW t \in [PendingSlots -> P \cup {Free}],
         NEW g, g = [e EXCEPT !.pending = t]
  PROVE  g \in R /\ g.my_addr = e.my_addr /\ g.pending = t
<1>1. e \in arc_reliable_t(Addrs, Sessions, Payloads)
  BY DEF R
<1>2. t \in [PendingSlots -> arc_reliable_pending_t(Addrs, Sessions, Payloads) \cup {Free}]
  BY DEF P
<1>3. [e EXCEPT !.pending = t] \in R /\ [e EXCEPT !.pending = t].pending = t
  BY <1>1, <1>2, UpdatePending DEF R
<1>4. g.my_addr = e.my_addr
  BY DEF R, arc_reliable_t
<1> QED BY <1>3, <1>4

\* Its frame at the call of send_fn or fail_fn.
LEMMA TickCalls ==
  ASSUME NodeInv, Running("tick"), DueSlots # {}, NEW i, i = FirstSlot(DueSlots),
         NEW fn \in {"send_fn", "fail_fn"}, buf' = buf,
         stack' = <<Call(fn, pending_to_frame(r.pending[i], my_addr), i)>> \o TickAfter(i)
  PROVE  stack' \in Seq(EntryT) /\ NestingInv' /\ FramesKeepTheirPayload' /\ SameTicks
<1>1. PICK y : y = [Top EXCEPT !.i = i + 1]
  OBVIOUS
<1>2. PICK x : x = Call(fn, pending_to_frame(r.pending[i], my_addr), i)
  OBVIOUS
<1>3. /\ i \in PendingSlots /\ r.pending[i] \in P /\ buf[i] = r.pending[i].payload
      /\ stack # <<>> /\ Top.fn = "tick"
      /\ y \in TickT /\ y.now_ms = Top.now_ms /\ y.parked = Top.parked
  BY <1>1, DueSlot
<1>4. x \in CallT /\ x.at = i /\ x.f.src = my_addr /\ x.f.payload = r.pending[i].payload
  BY <1>2, <1>3, ParkedFrame DEF Call, CallT, FnNames
<1>5. stack' = <<x>> \o (<<y>> \o Tail(stack))
  BY <1>1, <1>2 DEF TickAfter, Caller
<1> QED BY <1>3, <1>4, <1>5, StackTicks DEF NodeInv

\* A slot whose retries are spent is freed before fail_fn runs.
LEMMA TickFailsStep ==
  ASSUME NodeInv, TickFails PROVE NodeInv'
<1>1. PICK i : i = FirstSlot(DueSlots)
  OBVIOUS
<1>2. /\ Running("tick") /\ DueSlots # {}
      /\ r' = [r EXCEPT !.pending[i] = Free]
      /\ stack' = <<Call("fail_fn", pending_to_frame(r.pending[i], my_addr), i)>> \o TickAfter(i)
      /\ status' = [status EXCEPT ![CallOf(r.pending[i])] = "failed"]
      /\ UNCHANGED <<buf, now_ms, tx>>
  BY <1>1 DEF TickFails
<1>3. stack' \in Seq(EntryT) /\ NestingInv' /\ FramesKeepTheirPayload' /\ SameTicks
  BY <1>1, <1>2, TickCalls
<1>4. i \in PendingSlots /\ Used(i)
  BY <1>1, <1>2, DueSlot
<1>5. r \in R /\ r.my_addr = my_addr
  BY DEF NodeInv, NodeTypes
<1>6. r' \in R /\ r'.my_addr = my_addr /\ r'.pending = [r.pending EXCEPT ![i] = Free]
  <2>1. PICK t : t = [r.pending EXCEPT ![i] = Free]
    OBVIOUS
  <2>2. r' = [r EXCEPT !.pending = t]
    BY <1>2, <2>1
  <2>3. r.pending \in [PendingSlots -> P \cup {Free}]
    BY <1>5, EndpointFields DEF R, P
  <2>4. t \in [PendingSlots -> P \cup {Free}]
    BY <1>4, <1>5, <2>1, <2>3
  <2>5. r' \in R /\ r'.my_addr = r.my_addr /\ r'.pending = t
    BY <1>5, <2>2, <2>4, PendingWritten
  <2> QED BY <1>5, <2>1, <2>5
<1> QED BY <1>2, <1>3, <1>4, <1>6, FreedStep

\* A slot is sent again from where it is.
LEMMA TickRetriesStep ==
  ASSUME NodeInv, TickRetries PROVE NodeInv'
<1>1. PICK i : i = FirstSlot(DueSlots)
  OBVIOUS
<1>2. PICK p : p = r.pending[i]
  OBVIOUS
<1>3. PICK q : q = TickSlot(p, Top.now_ms)
  OBVIOUS
<1>4. /\ Running("tick") /\ DueSlots # {} /\ ~Exhausted(p)
      /\ r' = [r EXCEPT !.pending[i] = q]
      /\ stack' = <<Call("send_fn", pending_to_frame(r.pending[i], my_addr), i)>> \o TickAfter(i)
      /\ tx' = [tx EXCEPT ![CallOf(r.pending[i])] = @ + 1]
      /\ UNCHANGED <<buf, now_ms, status>>
  BY <1>1, <1>2, <1>3 DEF TickRetries
<1>5. stack' \in Seq(EntryT) /\ NestingInv' /\ FramesKeepTheirPayload' /\ SameTicks
  BY <1>1, <1>4, TickCalls
<1>6. /\ i \in PendingSlots /\ Used(i) /\ Expired(p, Top.now_ms) /\ p \in P /\ p # Free
      /\ Top.now_ms \in 0 .. MaxClock /\ \A l \in DOMAIN stack : stack[l] = Top
  BY <1>1, <1>2, <1>4, DueSlot DEF Used
<1>7. /\ Top.now_ms \in Clocks
      /\ (Top.now_ms + timeout_ms) % CLOCK = Top.now_ms + timeout_ms
      /\ Top.now_ms + timeout_ms <= MaxClock + timeout_ms
      /\ Top.now_ms + timeout_ms > Top.now_ms
  BY <1>6, NewDeadline
<1>8. /\ q \in P /\ q.payload = p.payload /\ q.retries = p.retries + 1
  BY <1>3, <1>4, <1>6, <1>7, TickSlotType DEF P
<1>9. q.deadline_ms = Top.now_ms + timeout_ms
  <2>1. q = [p EXCEPT !.retries = @ + 1, !.deadline_ms = (Top.now_ms + timeout_ms) % CLOCK]
    BY <1>3, <1>4, <1>6 DEF TickSlot
  <2> QED BY <1>6, <1>7, <2>1 DEF P, arc_reliable_pending_t
<1>10. /\ r \in R /\ r.my_addr = my_addr /\ now_ms \in 0 .. MaxClock /\ NodeTypes
       /\ status \in [Calls -> Outcomes] /\ tx \in [Calls -> Nat]
  BY DEF NodeInv, NodeTypes
<1>11. r' \in R /\ r'.my_addr = my_addr /\ r'.pending = [r.pending EXCEPT ![i] = q]
  <2>1. PICK t : t = [r.pending EXCEPT ![i] = q]
    OBVIOUS
  <2>2. r' = [r EXCEPT !.pending = t]
    BY <1>4, <2>1
  <2>3. r.pending \in [PendingSlots -> P \cup {Free}]
    BY <1>10, EndpointFields DEF R, P
  <2>4. t \in [PendingSlots -> P \cup {Free}]
    BY <1>6, <1>8, <1>10, <2>1, <2>3
  <2>5. r' \in R /\ r'.my_addr = r.my_addr /\ r'.pending = t
    BY <1>10, <2>2, <2>4, PendingWritten
  <2> QED BY <1>10, <2>1, <2>5
<1>12. SlotsInv'
  BY <1>2, <1>4, <1>6, <1>8, <1>11, SlotRetried DEF NodeInv
<1>13. DeadlinesInv'
  <2>1. r.pending \in [PendingSlots -> P \cup {Free}]
    BY <1>10, EndpointFields DEF R, P
  <2>2. \A j \in PendingSlots : Used(j)' =>
           \/ /\ Used(j) /\ CallOf(r'.pending[j]) = CallOf(r.pending[j])
              /\ r'.pending[j].deadline_ms = r.pending[j].deadline_ms
           \/ r'.pending[j].deadline_ms = Top.now_ms + timeout_ms
    BY <1>6, <1>9, <1>11, <2>1 DEF Used
  <2>3. \A l \in DOMAIN stack : Top.now_ms + timeout_ms > stack[l].now_ms
    BY <1>6, <1>7
  <2>4. now_ms' \in Int /\ now_ms' >= now_ms
    BY <1>4, <1>10, NodeWiring
  <2> QED BY <1>5, <1>7, <1>10, <2>2, <2>3, <2>4, DeadlinesStay DEF NodeInv
<1>14. NodeTypes'
  <2>1. CallOf(r.pending[i]) \in Calls
    BY <1>6, <1>10, SlotEntry
  <2>2. tx' \in [Calls -> Nat]
    BY <1>4, <1>10, <2>1
  <2> QED BY <1>4, <1>5, <1>10, <1>11, <2>2 DEF NodeTypes
<1> QED BY <1>5, <1>12, <1>13, <1>14 DEF NodeInv

\* A tick begins, with the frames parked by then.
LEMMA TickStep ==
  ASSUME NodeInv, Tick PROVE NodeInv'
<1> DEFINE parked == {c \in Calls : status[c] = "parked"}
<1>1. PICK y : y = [fn |-> "tick", i |-> 0, now_ms |-> now_ms, parked |-> parked]
  OBVIOUS
<1>2. stack = <<>> /\ stack' = <<y>> /\ UNCHANGED <<r, buf, now_ms, status, tx>>
  BY <1>1 DEF Tick
<1>3. now_ms \in 0 .. MaxClock /\ now_ms \in Nat
  BY NodeWiring DEF NodeInv, NodeTypes
<1>4. y \in TickT /\ y.fn = "tick" /\ y.now_ms = now_ms /\ y.parked = parked
  BY <1>1, <1>3 DEF TickT
<1>5. /\ stack' \in Seq(EntryT) /\ DOMAIN stack' = {1} /\ Len(stack') = 1 /\ stack'[1] = y
  BY <1>2, <1>4 DEF EntryT
<1>6. NodeTypes'
  BY <1>2, <1>5 DEF NodeInv, NodeTypes
<1>7. SlotsInv'
  BY <1>2, SlotsSame DEF NodeInv
<1>8. ASSUME NEW i \in PendingSlots, Used(i) PROVE CallOf(r.pending[i]) \in parked
  <2>1. status[CallOf(r.pending[i])] = "parked" /\ CallOf(r.pending[i]) \in Calls
    BY <1>8, SlotEntry DEF NodeInv, SlotsInv
  <2> QED BY <2>1
<1> HIDE DEF parked
<1>9. DeadlinesInv'
  <2>1. \A i \in PendingSlots : Used(i)' => Used(i) /\ CallOf(r'.pending[i]) \in parked
    BY <1>2, <1>8 DEF Used
  <2>2. \A i \in PendingSlots : Used(i)' => r'.pending[i].deadline_ms <= MaxClock + timeout_ms
    BY <1>2, <2>1 DEF NodeInv, DeadlinesInv
  <2>3. y.now_ms <= now_ms'
    BY <1>2, <1>3, <1>4
  <2> QED BY <1>4, <1>5, <2>1, <2>2, <2>3 DEF DeadlinesInv
<1>10. NestingInv'
  BY <1>4, <1>5 DEF NestingInv
<1>11. FramesKeepTheirPayload'
  BY <1>4, <1>5 DEF FramesKeepTheirPayload
<1> QED BY <1>6, <1>7, <1>9, <1>10, <1>11 DEF NodeInv

\* Nothing happens.
LEMMA StutterStep ==
  ASSUME NodeInv, UNCHANGED nodevars PROVE NodeInv'
<1>1. UNCHANGED <<r, buf, now_ms, stack, status, tx>>
  BY DEF nodevars
<1>2. stack' \in Seq(EntryT) /\ SameTicks
  BY <1>1 DEF NodeInv, NodeTypes, SameTicks
<1>3. NestingInv'
  BY <1>1 DEF NodeInv, NestingInv, AckToSelf
<1>4. FramesKeepTheirPayload'
  BY <1>1 DEF NodeInv, FramesKeepTheirPayload
<1> QED BY <1>1, <1>2, <1>3, <1>4, OnlyStack

\* The invariant holds of a node that was just set up.
LEMMA NodeInit ==
  ASSUME Init PROVE NodeInv
<1>1. /\ r = arc_reliable_init(my_addr, session, first_seq) /\ now_ms = 0 /\ stack = <<>>
      /\ buf = [i \in DOMAIN r.pending |-> <<>>]
      /\ status = [c \in Calls |-> "unused"] /\ tx = [c \in Calls |-> 0]
  BY DEF Init
<1>2. r \in R
  <2>1. my_addr \in Addrs /\ session \in Sessions /\ first_seq \in Seqs
    BY NodeWiring, NodeFrames DEF Sessions
  <2> QED BY <1>1, <2>1, TypeInit DEF R
<1>3. r.my_addr = my_addr /\ \A i \in PendingSlots : r.pending[i] = Free
  BY <1>1 DEF arc_reliable_init, EmptyTable, PendingSlots
<1>4. NodeTypes
  <2>1. DOMAIN buf = PendingSlots
    BY <1>1, <1>2, TableSlots DEF R
  <2> QED BY <1>1, <1>2, <1>3, <2>1, NodeWiring DEF NodeTypes, Outcomes
<1>5. SlotsInv
  BY <1>1, <1>3 DEF SlotsInv, Used
<1>6. DeadlinesInv
  BY <1>1, <1>3 DEF DeadlinesInv, Used
<1>7. NestingInv /\ FramesKeepTheirPayload
  BY <1>1 DEF NestingInv, FramesKeepTheirPayload
<1> QED BY <1>4, <1>5, <1>6, <1>7 DEF NodeInv

\* The invariant holds at every point where a function calls back.
LEMMA NodeInvariant == Spec => []NodeInv
<1>1. Init => NodeInv
  BY NodeInit
<1>2. NodeInv /\ [Next]_nodevars => NodeInv'
  <2> SUFFICES ASSUME NodeInv, [Next]_nodevars PROVE NodeInv'
    OBVIOUS
  <2>1. ASSUME NEW c \in Calls,
               \/ SendReliable(c) \/ SendBufferFull(c)
               \/ \E flagged \in BOOLEAN : SendUnreliable(c, flagged)
        PROVE  NodeInv'
    BY <2>1, SendReliableStep, SendUnreliableStep, SendBufferFullStep
  <2>2. CASE RouteLocal \/ RouteForward
    BY <2>2, RouteSteps
  <2>3. CASE RouteNone \/ LinkReturns \/ DropDuplicate \/ AppReturns \/ TickReturns
    BY <2>3, ReturnSteps
  <2>4. ASSUME NEW f \in Inbound, Arrive(f) PROVE NodeInv'
    BY <2>4, ArriveStep
  <2>5. CASE ReceiveAnAck
    BY <2>5, ReceiveAnAckStep
  <2>6. CASE ReceiveData
    BY <2>6, ReceiveDataStep
  <2>7. CASE Deliver
    BY <2>7, DeliverStep
  <2>8. CASE Tick \/ TickFails \/ TickRetries
    BY <2>8, TickStep, TickFailsStep, TickRetriesStep
  <2>9. CASE AdvanceClock
    BY <2>9, AdvanceClockStep
  <2>10. CASE UNCHANGED nodevars
    BY <2>10, StutterStep
  <2> QED BY <2>1, <2>2, <2>3, <2>4, <2>5, <2>6, <2>7, <2>8, <2>9, <2>10 DEF Next
<1> QED BY <1>1, <1>2, PTL DEF Spec

----------------------------------------------------------------------------
(* The theorems.                                                           *)

\* arc_reliable_send, arc_reliable_receive and arc_reliable_tick may be called
\* from the callbacks of one another: at every point, each frame that waits for
\* its ACK has one slot of pending[], with its payload and its count of
\* transmissions.
THEOREM SlotsChangeHandsCleanly == Spec => []SlotsKeepTheirFrames
<1>1. NodeInv => SlotsKeepTheirFrames
  <2> SUFFICES ASSUME NodeInv PROVE SlotsKeepTheirFrames
    OBVIOUS
  <2>1. \A i : i \in UsedSlots(r.pending) <=> i \in PendingSlots /\ Used(i)
    BY TableSlots DEF NodeInv, NodeTypes, R, UsedSlots, Used
  <2>2. \A c \in Calls : \A i : i \in SlotsOf(c) <=>
          i \in PendingSlots /\ Used(i) /\ CallOf(r.pending[i]) = c
    BY <2>1 DEF SlotsOf
  <2>3. \A c \in Calls : status[c] = "parked" <=> SlotsOf(c) # {}
    <3> SUFFICES ASSUME NEW c \in Calls PROVE status[c] = "parked" <=> SlotsOf(c) # {}
      OBVIOUS
    <3>1. ASSUME status[c] = "parked" PROVE SlotsOf(c) # {}
      BY <2>2, <3>1 DEF NodeInv, SlotsInv
    <3>2. ASSUME SlotsOf(c) # {} PROVE status[c] = "parked"
      BY <2>2, <3>2 DEF NodeInv, SlotsInv
    <3> QED BY <3>1, <3>2
  <2>4. \A c \in Calls : \A i, j \in SlotsOf(c) : i = j
    BY <2>2 DEF NodeInv, SlotsInv
  <2>5. \A i \in UsedSlots(r.pending) :
          /\ buf[i] = r.pending[i].payload
          /\ tx[CallOf(r.pending[i])] = r.pending[i].retries + 1
    BY <2>1 DEF NodeInv, SlotsInv
  <2> QED BY <2>3, <2>4, <2>5 DEF SlotsKeepTheirFrames
<1> QED BY <1>1, NodeInvariant, PTL

\* A frame that fail_fn or an incoming frame makes the application send during
\* arc_reliable_tick is neither sent again nor given up by that tick, in whatever
\* slot it is parked.
THEOREM TickLeavesNewFrames == Spec => []NewFramesWait
<1>1. NodeInv => NewFramesWait
  <2> SUFFICES ASSUME NodeInv, NEW k \in DOMAIN stack, stack[k].fn = "tick",
                      NEW i \in UsedSlots(r.pending),
                      CallOf(r.pending[i]) \notin stack[k].parked
               PROVE  ~Expired(r.pending[i], stack[k].now_ms)
    BY DEF NewFramesWait
  <2>1. PICK t : t = stack[k].now_ms
    OBVIOUS
  <2>2. PICK d : d = r.pending[i].deadline_ms
    OBVIOUS
  <2>3. i \in PendingSlots /\ Used(i)
    BY TableSlots DEF NodeInv, NodeTypes, R, UsedSlots, Used
  <2>4. d > t /\ d <= MaxClock + timeout_ms
    BY <2>1, <2>2, <2>3 DEF NodeInv, DeadlinesInv
  <2>5. d \in Clocks
    BY <2>2, <2>3, SlotEntry DEF NodeInv
  <2>6. t \in Nat
    <3>1. stack[k] \in EntryT
      BY DEF NodeInv, NodeTypes
    <3> QED BY <2>1, <3>1 DEF EntryT, CallT, TickT, FnNames
  <2>7. d \in Nat /\ d < HALF_CLOCK /\ HALF_CLOCK \in Nat
    BY <2>4, <2>5, NodeWiring, Widths, Timers, Moduli DEF Clocks
  <2>8. (t - d) % CLOCK = t - d + CLOCK
    BY <2>4, <2>6, <2>7 DEF CLOCK
  <2>9. (t - d) % CLOCK >= HALF_CLOCK
    BY <2>4, <2>6, <2>7, <2>8 DEF CLOCK
  <2> QED BY <2>1, <2>2, <2>7, <2>9, Moduli, ModRange, <2>6 DEF Expired, Clocks
<1> QED BY <1>1, NodeInvariant, PTL

\* The router, the links and the receiver up to deliver_fn find in a frame the
\* payload the sender gave, although pending_to_frame only points into a slot.
THEOREM PayloadsAreNotOverwritten == Spec => []FramesKeepTheirPayload
<1>1. NodeInv => FramesKeepTheirPayload
  BY DEF NodeInv
<1> QED BY <1>1, NodeInvariant, PTL

----------------------------------------------------------------------------
(* A reliable frame the node sends to itself: hypotheses and invariant.    *)

\* No link brings in a frame that claims to be the node's own.
NoEcho == \A f \in Inbound : f.src # my_addr

\* The SEQs do not run out: a call draws one for its frame and, if the frame is for
\* the node itself, one for its ACK; a frame that arrives draws one for its ACK.
SeqsAreEnough ==
  /\ IsFiniteSet(Calls) /\ MaxArrivals \in Nat
  /\ 2 * Cardinality(Calls) + MaxArrivals <= SEQ_VALUES

\* The call x handles a frame of the node to itself that the node acknowledges, up
\* to deliver_fn.
OwnData(x) ==
  /\ x.fn \in {"send_fn", "local_fn", "acked", "duplicate"}
  /\ x.f.src = my_addr /\ x.f.dst = my_addr /\ x.f.reliable /\ ~x.f.ack

\* The frame was parked, so that it lies in a slot: only its flags ask for an ACK
\* of a frame that lies elsewhere.
LoopsBack(x) == OwnData(x) /\ x.at # Elsewhere

NoneBelow(k) == \A l \in DOMAIN stack : l > k => ~LoopsBack(stack[l])

\* The call c to the node itself is over, or has not begun.
Settled(c) ==
  c.dst = my_addr =>
    /\ status[c] # "parked"
    /\ status[c] = "acked" => deliveries[c] = 1
    /\ status[c] = "unused" => deliveries[c] = 0

\* The k-th call on the stack handles the frame of c, which is not yet in seen[];
\* all other calls are settled.
InHand(k, c) ==
  /\ k \in DOMAIN stack /\ LoopsBack(stack[k]) /\ NoneBelow(k)
  /\ c.dst = my_addr /\ stack[k].f.payload = <<c>> /\ deliveries[c] = 0
  /\ \A i \in SeenSlots : r.seen[i] # Free => r.seen[i] # seen_key(stack[k].f)
  /\ \A d \in Calls \ {c} : Settled(d)

ParkedAt(k, c) ==
  /\ stack[k].at \in PendingSlots /\ Used(stack[k].at)
  /\ CallOf(r.pending[stack[k].at]) = c
  /\ r.pending[stack[k].at].seq = stack[k].f.seq

\* The four phases: none is under way; the frame is sent; its ACK is sent, above
\* it; the ACK has freed the slot and the frame is about to be delivered.
Quiet == NoneBelow(0) /\ \A c \in Calls : Settled(c)

Sending(c) == InHand(1, c) /\ ParkedAt(1, c) /\ stack[1].fn \in {"send_fn", "local_fn"}

AckComes(c) ==
  /\ InHand(2, c) /\ ParkedAt(2, c) /\ stack[2].fn = "acked"
  /\ AckToSelf(stack[1]) /\ stack[1].f.src = my_addr
  /\ Len(stack[1].f.payload) = 2 /\ acked_seq(stack[1].f) = stack[2].f.seq

Settling(c) == InHand(1, c) /\ stack[1].fn = "acked" /\ status[c] = "acked"

PhaseInv == Quiet \/ \E c \in Calls : Sending(c) \/ AckComes(c) \/ Settling(c)

\* What is parked is addressed as its call says.
OwnSlots ==
  \A i \in PendingSlots : Used(i) =>
    r.pending[i].dst = CallOf(r.pending[i]).dst /\ r.pending[i].session = r.session

\* What the receiver is handed is for the node; the node's frames that are
\* unreliable, or lie in no slot, are those of calls that did not park anything.
OwnCall(x, st) ==
  /\ x.fn \in {"local_fn", "acked", "duplicate"} => x.f.dst = my_addr
  /\ x.fn \in {"acked", "duplicate"} => x.f.reliable /\ ~x.f.ack
  /\ x.fn \in {"send_fn", "local_fn", "acked", "duplicate"} /\ x.f.src = my_addr
       /\ ~x.f.ack /\ (~x.f.reliable \/ x.at = Elsewhere)
       => \E c \in Calls : x.f.payload = <<c>> /\ st[c] = "sent"

OwnCalls == \A k \in DOMAIN stack : OwnCall(stack[k], status)

\* A frame at the top may still draw a SEQ for its ACK.
Draws ==
  IF stack # <<>> /\ stack[1].fn \in {"send_fn", "local_fn"}
     /\ ~stack[1].f.ack /\ stack[1].f.dst = my_addr THEN 1 ELSE 0

UsedCalls == {c \in Calls : status[c] # "unused"}

\* The node's own keys in seen[], and the one under way, have SEQs of the last d.
TakenSeqs(d) ==
  /\ \A i \in SeenSlots : r.seen[i] # Free /\ r.seen[i].src = my_addr =>
       TakenBefore(r.seen[i].seq, r.next_seq, d)
  /\ \A k \in DOMAIN stack : OwnData(stack[k]) =>
       TakenBefore(stack[k].f.seq, r.next_seq, d)

SeqsInv ==
  \E d \in Nat : d + Draws <= 2 * Cardinality(UsedCalls) + arrivals /\ TakenSeqs(d)

LoopTypes == arrivals \in 0 .. MaxArrivals /\ deliveries \in [Calls -> Nat]

LoopInv == LoopTypes /\ PhaseInv /\ OwnSlots /\ OwnCalls /\ SeqsInv

----------------------------------------------------------------------------
(* The stack and the phases.                                               *)

\* A call is pushed.
LEMMA LoopPushed ==
  ASSUME NodeTypes, NEW x \in EntryT, stack' = <<x>> \o stack
  PROVE  /\ stack'[1] = x /\ 1 \in DOMAIN stack'
         /\ \A k \in DOMAIN stack' : stack'[k] = x \/ \E l \in DOMAIN stack : stack'[k] = stack[l]
         /\ NoneBelow(0) => NoneBelow(1)'
         /\ NoneBelow(0) /\ ~LoopsBack(x) => NoneBelow(0)'
<1>1. stack \in Seq(EntryT) /\ Len(stack) \in Nat
  BY DEF NodeTypes
<1>2. /\ stack' \in Seq(EntryT) /\ DOMAIN stack' = 1 .. Len(stack) + 1 /\ stack'[1] = x
      /\ \A k \in 2 .. Len(stack) + 1 : k - 1 \in DOMAIN stack /\ stack'[k] = stack[k - 1]
  BY <1>1, Pushed
<1>3. ASSUME NEW k \in DOMAIN stack', k # 1
      PROVE  k - 1 \in DOMAIN stack /\ k - 1 > 0 /\ stack'[k] = stack[k - 1]
  BY <1>1, <1>2, <1>3
<1>4. 1 \in DOMAIN stack' /\ ~(1 > 1)
  BY <1>1, <1>2
<1>5. NoneBelow(0) => \A k \in DOMAIN stack' : k # 1 => ~LoopsBack(stack'[k])
  BY <1>3 DEF NoneBelow
<1>6. NoneBelow(0) => NoneBelow(1)'
  BY <1>4, <1>5 DEF NoneBelow
<1>7. NoneBelow(0) /\ ~LoopsBack(x) => NoneBelow(0)'
  BY <1>2, <1>5 DEF NoneBelow
<1> QED BY <1>2, <1>3, <1>4, <1>6, <1>7

\* The top returns.
LEMMA LoopReturned ==
  ASSUME NodeTypes, stack # <<>>, stack' = Tail(stack)
  PROVE  /\ \A k \in DOMAIN stack' : k + 1 \in DOMAIN stack /\ stack'[k] = stack[k + 1]
         /\ \A k \in Nat : NoneBelow(k + 1) => NoneBelow(k)'
         /\ NoneBelow(0) => NoneBelow(0)'
         /\ 2 \in DOMAIN stack => 1 \in DOMAIN stack' /\ stack'[1] = stack[2]
<1>1. stack \in Seq(EntryT) /\ Len(stack) \in Nat
  BY DEF NodeTypes
<1>2. /\ DOMAIN stack' = 1 .. Len(stack) - 1
      /\ \A k \in 1 .. Len(stack) - 1 : k + 1 \in DOMAIN stack /\ stack'[k] = stack[k + 1]
  BY <1>1, Returned
<1>3. \A k \in DOMAIN stack' : k \in Nat /\ k > 0 /\ k + 1 \in DOMAIN stack /\ stack'[k] = stack[k + 1]
  BY <1>1, <1>2
<1>4. \A k \in Nat : NoneBelow(k + 1) => NoneBelow(k)'
  <2> SUFFICES ASSUME NEW k \in Nat, NoneBelow(k + 1), NEW l \in DOMAIN stack', l > k
               PROVE  ~LoopsBack(stack'[l])
    BY DEF NoneBelow
  <2>1. l + 1 \in DOMAIN stack /\ l + 1 > k + 1 /\ stack'[l] = stack[l + 1]
    BY <1>3
  <2> QED BY <2>1 DEF NoneBelow
<1>5. NoneBelow(0) => NoneBelow(0)'
  <2> SUFFICES ASSUME NoneBelow(0), NEW l \in DOMAIN stack' PROVE ~LoopsBack(stack'[l])
    BY DEF NoneBelow
  <2>1. l + 1 \in DOMAIN stack /\ l + 1 > 0 /\ stack'[l] = stack[l + 1]
    BY <1>3
  <2> QED BY <2>1 DEF NoneBelow
<1>6. 2 \in DOMAIN stack => 1 \in DOMAIN stack' /\ stack'[1] = stack[2]
  BY <1>1, <1>2
<1> QED BY <1>3, <1>4, <1>5, <1>6

\* The top is replaced.
LEMMA LoopReplaced ==
  ASSUME NodeTypes, stack # <<>>, NEW x \in EntryT, stack' = <<x>> \o Tail(stack)
  PROVE  /\ DOMAIN stack' = DOMAIN stack /\ stack'[1] = x /\ 1 \in DOMAIN stack
         /\ \A k \in DOMAIN stack \ {1} : stack'[k] = stack[k]
         /\ NoneBelow(1) => NoneBelow(1)'
         /\ NoneBelow(2) => NoneBelow(2)'
         /\ NoneBelow(1) /\ ~LoopsBack(x) => NoneBelow(0)'
<1>1. stack \in Seq(EntryT)
  BY DEF NodeTypes
<1>2. /\ DOMAIN stack' = DOMAIN stack /\ stack'[1] = x /\ 1 \in DOMAIN stack
      /\ \A k \in DOMAIN stack \ {1} : stack'[k] = stack[k]
  BY <1>1, Replaced
<1>3. \A k \in DOMAIN stack : k \in Int /\ (k > 0 /\ k # 1 => k > 1) /\ (k > 2 => k # 1)
  BY <1>1
<1> QED BY <1>2, <1>3 DEF NoneBelow

\* The top is replaced and makes a call.
LEMMA LoopReplacedTwo ==
  ASSUME NodeTypes, stack # <<>>, NEW x \in EntryT, NEW y \in EntryT,
         stack' = <<x, y>> \o Tail(stack)
  PROVE  /\ 1 \in DOMAIN stack' /\ 2 \in DOMAIN stack' /\ stack'[1] = x /\ stack'[2] = y
         /\ \A k \in DOMAIN stack' : \/ stack'[k] = x \/ stack'[k] = y
                                     \/ \E l \in DOMAIN stack : l # 1 /\ stack'[k] = stack[l]
         /\ NoneBelow(1) => NoneBelow(2)'
         /\ NoneBelow(1) /\ ~LoopsBack(x) /\ ~LoopsBack(y) => NoneBelow(0)'
<1>1. stack \in Seq(EntryT) /\ Len(stack) \in Nat /\ Len(stack) > 0
  BY DEF NodeTypes
<1>2. /\ DOMAIN stack' = 1 .. Len(stack) + 1 /\ stack'[1] = x /\ stack'[2] = y
      /\ \A k \in 3 .. Len(stack) + 1 : k - 1 \in DOMAIN stack \ {1} /\ stack'[k] = stack[k - 1]
  BY <1>1, ReplacedTwo
<1>3. 1 \in DOMAIN stack' /\ 2 \in DOMAIN stack'
  BY <1>1, <1>2
<1>4. \A k \in DOMAIN stack' : k # 1 /\ k # 2 =>
        k - 1 \in DOMAIN stack /\ k - 1 > 1 /\ stack'[k] = stack[k - 1]
  BY <1>1, <1>2
<1>5. NoneBelow(1) => \A k \in DOMAIN stack' : k # 1 /\ k # 2 => ~LoopsBack(stack'[k])
  BY <1>4 DEF NoneBelow
<1>6. ~(1 > 2) /\ ~(2 > 2)
  OBVIOUS
<1>7. NoneBelow(1) => NoneBelow(2)'
  BY <1>5, <1>6 DEF NoneBelow
<1>8. NoneBelow(1) /\ ~LoopsBack(x) /\ ~LoopsBack(y) => NoneBelow(0)'
  BY <1>2, <1>5 DEF NoneBelow
<1>9. \A k \in DOMAIN stack' : \/ stack'[k] = x \/ stack'[k] = y
                               \/ \E l \in DOMAIN stack : l # 1 /\ stack'[k] = stack[l]
  BY <1>2, <1>4
<1> QED BY <1>2, <1>3, <1>7, <1>8, <1>9

\* The phase, as far as the call that runs tells.
LEMMA WhichPhase ==
  ASSUME NodeTypes, PhaseInv
  PROVE  /\ stack = <<>> => Quiet
         /\ stack # <<>> /\ stack[1].fn \notin {"send_fn", "local_fn", "acked"} => Quiet
         /\ stack # <<>> /\ ~LoopsBack(stack[1]) /\ ~AckToSelf(stack[1]) => Quiet
         /\ stack # <<>> /\ LoopsBack(stack[1]) =>
              \E c \in Calls : Sending(c) \/ Settling(c)
         /\ stack # <<>> /\ ~LoopsBack(stack[1]) =>
              Quiet \/ \E c \in Calls : AckComes(c)
         /\ stack # <<>> /\ Quiet => ~LoopsBack(stack[1]) /\ NoneBelow(1)
<1>1. stack \in Seq(EntryT)
  BY DEF NodeTypes
<1>2. stack # <<>> => 1 \in DOMAIN stack /\ 1 > 0
  BY <1>1
<1>3. stack = <<>> => 1 \notin DOMAIN stack /\ 2 \notin DOMAIN stack
  BY <1>1
<1>4. \A c \in Calls : AckComes(c) => /\ 2 \in DOMAIN stack /\ stack[1].f.ack
                                      /\ stack[1].fn \in {"send_fn", "local_fn"}
                                      /\ AckToSelf(stack[1])
  BY DEF AckComes, InHand, AckToSelf
<1>5. \A c \in Calls : Sending(c) \/ Settling(c) =>
        /\ 1 \in DOMAIN stack /\ LoopsBack(stack[1])
        /\ stack[1].fn \in {"send_fn", "local_fn", "acked"}
  BY DEF Sending, Settling, InHand
<1>6. stack # <<>> /\ Quiet => ~LoopsBack(stack[1])
  BY <1>2 DEF Quiet, NoneBelow
<1>7. Quiet => NoneBelow(1)
  <2>1. \A k \in DOMAIN stack : k \in Int
    BY <1>1
  <2> QED BY <2>1 DEF Quiet, NoneBelow
<1>8. \A c \in Calls : AckComes(c) => ~LoopsBack(stack[1])
  BY <1>4 DEF LoopsBack, OwnData
<1> QED BY <1>2, <1>3, <1>4, <1>5, <1>6, <1>7, <1>8 DEF PhaseInv


----------------------------------------------------------------------------
(* What a step leaves alone.                                               *)

\* The unreliable calls stay what they are.
LEMMA OwnCallsStay ==
  ASSUME OwnCalls, \A c \in Calls : status[c] = "sent" => status'[c] = "sent",
         \A k \in DOMAIN stack' : \/ OwnCall(stack'[k], status')
                                  \/ \E l \in DOMAIN stack : stack'[k] = stack[l]
  PROVE  OwnCalls'
<1>1. \A x : OwnCall(x, status) => OwnCall(x, status')
  BY DEF OwnCall
<1> QED BY <1>1 DEF OwnCalls

\* The slots that are left are addressed as before.
LEMMA OwnSlotsStay ==
  ASSUME OwnSlots, r'.session = r.session,
         \A i \in PendingSlots : Used(i)' =>
           \/ /\ Used(i) /\ CallOf(r'.pending[i]) = CallOf(r.pending[i])
              /\ r'.pending[i].dst = r.pending[i].dst
              /\ r'.pending[i].session = r.pending[i].session
           \/ /\ r'.pending[i].dst = CallOf(r'.pending[i]).dst
              /\ r'.pending[i].session = r.session
  PROVE  OwnSlots'
BY DEF OwnSlots

\* No call to the node itself is parked or acknowledged.
LEMMA QuietStays ==
  ASSUME Quiet, NoneBelow(0)',
         \A c \in Calls : c.dst = my_addr =>
           \/ status'[c] = status[c] /\ deliveries'[c] = deliveries[c]
           \/ status'[c] \in {"sent", "refused", "failed"}
  PROVE  Quiet'
BY DEF Quiet, Settled

\* The calls so far, and how many there are.
LEMMA UsedBound ==
  ASSUME SeqsAreEnough
  PROVE  /\ IsFiniteSet(UsedCalls) /\ Cardinality(UsedCalls) \in Nat
         /\ Cardinality(Calls) \in Nat /\ Cardinality(UsedCalls) <= Cardinality(Calls)
<1>1. UsedCalls \subseteq Calls /\ IsFiniteSet(Calls)
  BY DEF UsedCalls, SeqsAreEnough
<1>2. IsFiniteSet(UsedCalls) /\ Cardinality(UsedCalls) <= Cardinality(Calls)
  BY <1>1, FS_Subset
<1>3. Cardinality(UsedCalls) \in Nat /\ Cardinality(Calls) \in Nat
  BY <1>1, <1>2, FS_CardinalityType
<1> QED BY <1>2, <1>3

\* A new call counts.
LEMMA UsedGrows ==
  ASSUME SeqsAreEnough, status \in [Calls -> Outcomes], NEW c \in Calls,
         status[c] = "unused", NEW s, s # "unused", status' = [status EXCEPT ![c] = s]
  PROVE  /\ Cardinality(UsedCalls') = Cardinality(UsedCalls) + 1
         /\ Cardinality(UsedCalls) + 1 <= Cardinality(Calls)
<1>1. UsedCalls' = UsedCalls \cup {c} /\ c \notin UsedCalls
  BY DEF UsedCalls
<1>2. IsFiniteSet(UsedCalls)
  BY UsedBound
<1>3. Cardinality(UsedCalls \cup {c}) = Cardinality(UsedCalls) + 1
  BY <1>1, <1>2, FS_AddElement
<1>4. UsedCalls \cup {c} \subseteq Calls /\ IsFiniteSet(Calls)
  BY DEF UsedCalls, SeqsAreEnough
<1>5. Cardinality(UsedCalls \cup {c}) <= Cardinality(Calls)
  BY <1>4, FS_Subset
<1> QED BY <1>1, <1>3, <1>5

\* A step that begins no call.
LEMMA UsedSame ==
  ASSUME \A c \in Calls : status'[c] = "unused" <=> status[c] = "unused"
  PROVE  UsedCalls' = UsedCalls
BY DEF UsedCalls

\* The SEQs in the invariant are SEQs.
LEMMA SeqTypes ==
  ASSUME NodeTypes
  PROVE  /\ r.next_seq \in Seqs
         /\ \A i \in SeenSlots : r.seen[i] # Free =>
              r.seen[i] \in arc_reliable_seen_t(Addrs, Sessions) /\ r.seen[i].seq \in Seqs
         /\ \A k \in DOMAIN stack : OwnData(stack[k]) =>
              stack[k] \in CallT /\ stack[k].f \in Inbound \cup OwnFrames /\ stack[k].f.seq \in Seqs
<1>1. r \in arc_reliable_t(Addrs, Sessions, Payloads) /\ stack \in Seq(EntryT)
  BY DEF NodeTypes, R
<1>2. /\ r.next_seq \in Seqs
      /\ r.seen \in [SeenSlots -> arc_reliable_seen_t(Addrs, Sessions) \cup {Free}]
  BY <1>1, EndpointFields
<1>3. \A i \in SeenSlots : r.seen[i] # Free =>
        r.seen[i] \in arc_reliable_seen_t(Addrs, Sessions) /\ r.seen[i].seq \in Seqs
  BY <1>2 DEF arc_reliable_seen_t
<1>4. \A x \in EntryT : OwnData(x) => x \in CallT /\ x.f \in Inbound \cup OwnFrames
  BY DEF EntryT, CallT, TickT, OwnData
<1>5. \A x \in EntryT : OwnData(x) => x.f.seq \in Seqs
  BY <1>4, FrameFields
<1>6. \A k \in DOMAIN stack : stack[k] \in EntryT
  BY <1>1
<1> QED BY <1>2, <1>3, <1>4, <1>5, <1>6

\* Draws is a number.
LEMMA DrawsType == Draws \in {0, 1}
BY DEF Draws

\* What a step adds on one side of a bound it adds on the other.
LEMMA Shifted ==
  ASSUME NEW d \in Nat, NEW u \in Nat, NEW w \in Nat, NEW z \in Nat, NEW a \in Nat, NEW b \in Nat,
         z - w <= b - a, d + w <= 2 * u + a
  PROVE  d + z <= 2 * u + b
OBVIOUS

\* A step that draws no SEQ.
LEMMA SeqsKept ==
  ASSUME SeqsInv, r'.next_seq = r.next_seq, UsedCalls' = UsedCalls,
         arrivals \in Nat, arrivals' \in Nat, Draws' - Draws <= arrivals' - arrivals,
         SeqsAreEnough,
         \A i \in SeenSlots : r'.seen[i] # Free /\ r'.seen[i].src = my_addr =>
           \/ r.seen[i] # Free /\ r'.seen[i] = r.seen[i]
           \/ \E k \in DOMAIN stack : OwnData(stack[k]) /\ r'.seen[i].seq = stack[k].f.seq,
         \A k \in DOMAIN stack' : OwnData(stack'[k]) =>
           \E l \in DOMAIN stack : OwnData(stack[l]) /\ stack'[k].f.seq = stack[l].f.seq
  PROVE  SeqsInv'
<1>1. PICK d \in Nat : d + Draws <= 2 * Cardinality(UsedCalls) + arrivals /\ TakenSeqs(d)
  BY DEF SeqsInv
<1>2. Draws \in {0, 1} /\ Draws' \in {0, 1}
  BY DEF Draws
<1>3. Cardinality(UsedCalls) \in Nat
  BY UsedBound
<1>4. d + Draws' <= 2 * Cardinality(UsedCalls) + arrivals'
  <2>1. PICK u \in Nat : u = Cardinality(UsedCalls)
    BY <1>3
  <2>2. PICK w \in Nat : w = Draws
    BY <1>2
  <2>3. PICK z \in Nat : z = Draws'
    BY <1>2
  <2>4. z - w <= arrivals' - arrivals /\ d + w <= 2 * u + arrivals
    BY <1>1, <2>1, <2>2, <2>3
  <2>5. d + z <= 2 * u + arrivals'
    BY <2>4, Shifted
  <2> QED BY <2>1, <2>3, <2>5
<1>5. \A i \in SeenSlots : r'.seen[i] # Free /\ r'.seen[i].src = my_addr =>
        TakenBefore(r'.seen[i].seq, r.next_seq, d)
  BY <1>1 DEF TakenSeqs
<1>6. \A k \in DOMAIN stack' : OwnData(stack'[k]) =>
        TakenBefore(stack'[k].f.seq, r.next_seq, d)
  BY <1>1 DEF TakenSeqs
<1>7. TakenSeqs(d)'
  BY <1>5, <1>6 DEF TakenSeqs
<1> QED BY <1>4, <1>7 DEF SeqsInv

\* A step that draws one, for which there is room.
LEMMA SeqsDrawn ==
  ASSUME NodeTypes, SeqsInv, r'.next_seq = (r.next_seq + 1) % SEQ_VALUES, SeqsAreEnough,
         LoopTypes, NEW u \in Nat, u = Cardinality(UsedCalls'),
         arrivals' = arrivals,
         2 * Cardinality(UsedCalls) + 1 + Draws' <= 2 * u + Draws,
         u <= Cardinality(Calls),
         \A i \in SeenSlots : r'.seen[i] # Free /\ r'.seen[i].src = my_addr =>
           r.seen[i] # Free /\ r'.seen[i] = r.seen[i],
         \A k \in DOMAIN stack' : OwnData(stack'[k]) =>
           \/ stack'[k].f.seq = r.next_seq
           \/ \E l \in DOMAIN stack : OwnData(stack[l]) /\ stack'[k].f.seq = stack[l].f.seq
  PROVE  SeqsInv'
<1>1. PICK d \in Nat : d + Draws <= 2 * Cardinality(UsedCalls) + arrivals /\ TakenSeqs(d)
  BY DEF SeqsInv
<1>2. Draws \in {0, 1} /\ Draws' \in {0, 1}
  BY DEF Draws
<1>3. Cardinality(UsedCalls) \in Nat /\ Cardinality(Calls) \in Nat
  BY UsedBound
<1>4. arrivals \in Nat /\ arrivals <= MaxArrivals /\ MaxArrivals \in Nat
  BY DEF LoopTypes, SeqsAreEnough
<1>5. d + 1 + Draws' <= 2 * u + arrivals
  BY <1>1, <1>2, <1>3, <1>4
<1>6. d < SEQ_VALUES
  <2>1. d + 1 <= 2 * Cardinality(Calls) + MaxArrivals
    BY <1>2, <1>3, <1>4, <1>5
  <2> QED BY <1>3, <1>4, <2>1, Moduli DEF SeqsAreEnough
<1>7. \A s \in Seqs : TakenBefore(s, r.next_seq, d) => TakenBefore(s, r'.next_seq, d + 1)
  BY <1>6, SeqTypes, TakenStays
<1>8. TakenBefore(r.next_seq, r'.next_seq, d + 1)
  BY SeqTypes, TakenNow
<1>9. \A i \in SeenSlots : r'.seen[i] # Free /\ r'.seen[i].src = my_addr =>
        TakenBefore(r'.seen[i].seq, r'.next_seq, d + 1)
  BY <1>1, <1>7, SeqTypes DEF TakenSeqs
<1>10. \A k \in DOMAIN stack' : OwnData(stack'[k]) =>
        TakenBefore(stack'[k].f.seq, r'.next_seq, d + 1)
  BY <1>1, <1>7, <1>8, SeqTypes DEF TakenSeqs
<1>11. TakenSeqs(d + 1)' /\ d + 1 \in Nat
  BY <1>9, <1>10 DEF TakenSeqs
<1>12. (d + 1) + Draws' <= 2 * Cardinality(UsedCalls') + arrivals'
  BY <1>1, <1>2, <1>4, <1>5
<1> QED BY <1>11, <1>12 DEF SeqsInv

\* The SEQ that is taken next is in no own key of seen[].
LEMMA NextIsFresh ==
  ASSUME NodeTypes, SeqsInv, SeqsAreEnough, LoopTypes, NEW c \in Calls, status[c] = "unused",
         NEW i \in SeenSlots, r.seen[i] # Free, r.seen[i].src = my_addr
  PROVE  r.seen[i].seq # r.next_seq
<1>1. PICK d \in Nat : d + Draws <= 2 * Cardinality(UsedCalls) + arrivals /\ TakenSeqs(d)
  BY DEF SeqsInv
<1>2. Draws \in {0, 1}
  BY DEF Draws
<1>3. arrivals \in Nat /\ arrivals <= MaxArrivals /\ MaxArrivals \in Nat
  BY DEF LoopTypes, SeqsAreEnough
<1>4. Cardinality(UsedCalls) + 1 <= Cardinality(Calls)
  <2>1. IsFiniteSet(UsedCalls) /\ c \notin UsedCalls
    BY UsedBound DEF UsedCalls
  <2>2. Cardinality(UsedCalls \cup {c}) = Cardinality(UsedCalls) + 1
    BY <2>1, FS_AddElement
  <2>3. UsedCalls \cup {c} \subseteq Calls /\ IsFiniteSet(Calls)
    BY DEF UsedCalls, SeqsAreEnough
  <2>4. Cardinality(UsedCalls \cup {c}) <= Cardinality(Calls)
    BY <2>3, FS_Subset
  <2> QED BY <2>2, <2>4
<1>5. Cardinality(UsedCalls) \in Nat /\ Cardinality(Calls) \in Nat
  BY UsedBound
<1>6. d < SEQ_VALUES
  <2>1. d + 1 <= 2 * Cardinality(Calls) + MaxArrivals
    BY <1>1, <1>2, <1>3, <1>4, <1>5
  <2> QED BY <1>3, <1>5, <2>1, Moduli DEF SeqsAreEnough
<1>7. TakenBefore(r.seen[i].seq, r.next_seq, d)
  BY <1>1 DEF TakenSeqs
<1>8. r.seen[i].seq \in Seqs /\ r.next_seq \in Seqs
  BY SeqTypes
<1> QED BY <1>6, <1>7, <1>8, TakenStays


----------------------------------------------------------------------------
(* The actions and the loopback.                                           *)

\* A reliable send: a frame to the node itself comes in hand, with a new SEQ.
LEMMA LoopSendReliable ==
  ASSUME NodeInv, LoopInv, SeqsAreEnough, NEW c \in Calls, SendReliable(c) PROVE LoopInv'
<1>1. PICK p : p = StagedEntry(r, c.dst, FALSE, <<c>>, now_ms)
  OBVIOUS
<1>2. PICK i : i = pending_alloc(r.pending)
  OBVIOUS
<1>3. PICK x : x = Call("send_fn", pending_to_frame(p, my_addr), i)
  OBVIOUS
<1>4. /\ AppRuns /\ status[c] = "unused" /\ FreeSlots(r.pending) # {}
      /\ r' = [take_seq(r) EXCEPT !.pending[i] = p]
      /\ stack' = <<x>> \o stack
      /\ status' = [status EXCEPT ![c] = "parked"]
      /\ arrivals' = arrivals /\ deliveries' = deliveries
  BY <1>1, <1>2, <1>3 DEF SendReliable, SendParked
<1>5. /\ r \in R /\ status \in [Calls -> Outcomes] /\ NodeTypes
  BY DEF NodeInv, NodeTypes
<1>6. p \in P /\ p.payload = <<c>>
  BY <1>1, <1>5, Staged
<1>7. p.dst = c.dst /\ ~p.ack /\ p.session = r.session /\ p.seq = r.next_seq
  BY <1>1 DEF StagedEntry
<1>8. i \in PendingSlots /\ ~Used(i)
  BY <1>2, <1>4, <1>5, AllocFree DEF R, Used
<1>9. /\ r'.pending = [r.pending EXCEPT ![i] = p] /\ r'.session = r.session
      /\ r'.seen = r.seen /\ r'.next_seq = (r.next_seq + 1) % SEQ_VALUES
  <2>1. /\ r \in arc_reliable_t(Addrs, Sessions, Payloads)
        /\ p \in arc_reliable_pending_t(Addrs, Sessions, Payloads)
    BY <1>5, <1>6 DEF R, P
  <2>2. take_seq(r).next_seq = (r.next_seq + 1) % SEQ_VALUES
    BY <2>1, TakeSeq
  <2> QED BY SMTT(30), <1>4, <1>8, <2>1, <2>2, ParkEntry
<1>10. /\ x.fn = "send_fn" /\ x.at = i /\ x.f.src = my_addr /\ x.f.dst = c.dst
       /\ x.f.reliable /\ ~x.f.ack /\ x.f.seq = r.next_seq /\ x.f.payload = <<c>>
       /\ x.at # Elsewhere
  <2>1. i # Elsewhere
    BY <1>8, TableSizes DEF PendingSlots, Elsewhere
  <2> QED BY <1>3, <1>6, <1>7, <2>1 DEF Call, pending_to_frame
<1>11. x \in EntryT
  BY <1>3, <1>6, <1>8, ParkedFrame DEF Call, CallT, FnNames, EntryT
<1>12. r.pending \in [PendingSlots -> P \cup {Free}] /\ p # Free
  BY <1>5, <1>6, EndpointFields, FreeIsNoSlot DEF R, P
<1>13. /\ r'.pending[i] = p /\ \A j \in PendingSlots \ {i} : r'.pending[j] = r.pending[j]
       /\ CallOf(p) = c
  BY <1>6, <1>8, <1>9, <1>12 DEF CallOf
<1>14. /\ stack'[1] = x /\ 1 \in DOMAIN stack'
       /\ \A k \in DOMAIN stack' : stack'[k] = x \/ \E l \in DOMAIN stack : stack'[k] = stack[l]
       /\ NoneBelow(0) => NoneBelow(1)'
       /\ NoneBelow(0) /\ ~LoopsBack(x) => NoneBelow(0)'
  BY <1>4, <1>5, <1>11, LoopPushed
<1>15. Quiet
  BY <1>4, <1>5, WhichPhase DEF LoopInv, AppRuns, Running
<1>16. status'[c] = "parked" /\ \A d \in Calls \ {c} : status'[d] = status[d]
  BY <1>4, <1>5
<1>17. LoopTypes'
  BY <1>4 DEF LoopInv, LoopTypes
<1>18. OwnSlots'
  <2>1. \A j \in PendingSlots : Used(j)' =>
           \/ /\ Used(j) /\ CallOf(r'.pending[j]) = CallOf(r.pending[j])
              /\ r'.pending[j].dst = r.pending[j].dst
              /\ r'.pending[j].session = r.pending[j].session
           \/ /\ r'.pending[j].dst = CallOf(r'.pending[j]).dst
              /\ r'.pending[j].session = r.session
    BY <1>7, <1>13 DEF Used
  <2> QED BY <1>9, <2>1, OwnSlotsStay DEF LoopInv
<1>19. OwnCalls'
  <2>1. OwnCall(x, status')
    BY <1>10 DEF OwnCall
  <2>2. \A d \in Calls : status[d] = "sent" => status'[d] = "sent"
    BY <1>4, <1>16
  <2> QED BY <1>14, <2>1, <2>2, OwnCallsStay DEF LoopInv
<1>20. SeqsInv'
  <2>1. /\ Cardinality(UsedCalls') = Cardinality(UsedCalls) + 1
        /\ Cardinality(UsedCalls) + 1 <= Cardinality(Calls)
    BY <1>4, <1>5, UsedGrows
  <2>2. Cardinality(UsedCalls) \in Nat
    BY UsedBound
  <2>3. Draws = 0 /\ Draws' \in {0, 1}
    BY <1>4 DEF Draws, AppRuns, Running
  <2>4. PICK u \in Nat : u = Cardinality(UsedCalls')
    BY <2>1, <2>2
  <2>5. 2 * Cardinality(UsedCalls) + 1 + Draws' <= 2 * u + Draws /\ u <= Cardinality(Calls)
    BY <2>1, <2>2, <2>3, <2>4
  <2>6. \A k \in DOMAIN stack' : OwnData(stack'[k]) =>
           \/ stack'[k].f.seq = r.next_seq
           \/ \E l \in DOMAIN stack : OwnData(stack[l]) /\ stack'[k].f.seq = stack[l].f.seq
    BY <1>10, <1>14
  <2> QED BY <1>4, <1>5, <1>9, <2>4, <2>5, <2>6, SeqsDrawn DEF LoopInv
<1>21. PhaseInv'
  <2>1. CASE c.dst # my_addr
    <3>1. ~LoopsBack(x)
      BY <1>10, <2>1 DEF LoopsBack, OwnData
    <3>2. Quiet'
      BY <1>4, <1>14, <1>15, <1>16, <2>1, <3>1, QuietStays DEF Quiet
    <3> QED BY <3>2 DEF PhaseInv
  <2>2. CASE c.dst = my_addr
    <3>1. LoopsBack(x) /\ NoneBelow(1)'
      BY <1>10, <1>14, <1>15, <2>2 DEF LoopsBack, OwnData, Quiet
    <3>2. deliveries'[c] = 0
      BY <1>4, <1>15, <2>2 DEF Quiet, Settled
    <3>3. \A d \in Calls \ {c} : Settled(d)'
      BY <1>4, <1>15, <1>16 DEF Quiet, Settled
    <3>4. ASSUME NEW j \in SeenSlots, r'.seen[j] # Free PROVE r'.seen[j] # seen_key(x.f)
      <4>1. CASE r.seen[j].src = my_addr
        <5>1. r.seen[j].seq # r.next_seq
          BY <1>4, <1>5, <1>9, <3>4, <4>1, NextIsFresh DEF LoopInv
        <5>2. seen_key(x.f).seq = r.next_seq
          BY <1>10 DEF seen_key
        <5> QED BY <1>9, <5>1, <5>2
      <4>2. CASE r.seen[j].src # my_addr
        <5>1. seen_key(x.f).src = my_addr
          BY <1>10 DEF seen_key
        <5> QED BY <1>9, <4>2, <5>1
      <4> QED BY <4>1, <4>2
    <3>5. InHand(1, c)'
      BY <1>10, <1>14, <2>2, <3>1, <3>2, <3>3, <3>4 DEF InHand
    <3>6. ParkedAt(1, c)'
      BY <1>7, <1>8, <1>10, <1>12, <1>13, <1>14 DEF ParkedAt, Used
    <3>7. Sending(c)'
      BY <1>10, <1>14, <3>5, <3>6 DEF Sending
    <3> QED BY <3>7 DEF PhaseInv
  <2> QED BY <2>1, <2>2
<1> QED BY <1>17, <1>18, <1>19, <1>20, <1>21 DEF LoopInv

\* An unreliable send.
LEMMA LoopSendUnreliable ==
  ASSUME NodeInv, LoopInv, SeqsAreEnough, NEW c \in Calls, NEW flagged \in BOOLEAN,
         SendUnreliable(c, flagged)
  PROVE  LoopInv'
<1>1. PICK p : p = StagedEntry(r, c.dst, FALSE, <<c>>, now_ms)
  OBVIOUS
<1>2. PICK f : f = [pending_to_frame(p, my_addr) EXCEPT !.reliable = flagged]
  OBVIOUS
<1>3. PICK x : x = Call("send_fn", f, Elsewhere)
  OBVIOUS
<1>4. /\ AppRuns /\ status[c] = "unused" /\ r' = take_seq(r)
      /\ stack' = <<x>> \o stack
      /\ status' = [status EXCEPT ![c] = "sent"]
      /\ arrivals' = arrivals /\ deliveries' = deliveries
  BY <1>1, <1>2, <1>3 DEF SendUnreliable
<1>5. /\ r \in R /\ status \in [Calls -> Outcomes] /\ NodeTypes
  BY DEF NodeInv, NodeTypes
<1>6. p.payload = <<c>> /\ pending_to_frame(p, my_addr) \in OwnFrames
  BY <1>1, <1>5, Staged, ParkedFrame
<1>7. /\ x.fn = "send_fn" /\ x.at = Elsewhere /\ x.f.seq = r.next_seq
      /\ x.f.payload = <<c>> /\ x \in EntryT
  <2>1. p.seq = r.next_seq
    BY <1>1 DEF StagedEntry
  <2>2. pending_to_frame(p, my_addr).seq = p.seq /\ pending_to_frame(p, my_addr).payload = p.payload
    BY DEF pending_to_frame
  <2>3. f \in OwnFrames /\ f.seq = r.next_seq /\ f.payload = <<c>>
    BY <1>2, <1>6, <2>1, <2>2 DEF OwnFrames
  <2> QED BY <1>3, <2>3 DEF Call, CallT, FnNames, EntryT
<1>8. /\ r'.pending = r.pending /\ r'.session = r.session
      /\ r'.seen = r.seen /\ r'.next_seq = (r.next_seq + 1) % SEQ_VALUES
  BY <1>4, <1>5, TakeSeq DEF R
<1>9. ~LoopsBack(x)
  BY <1>7 DEF LoopsBack, OwnData
<1>10. /\ \A k \in DOMAIN stack' : stack'[k] = x \/ \E l \in DOMAIN stack : stack'[k] = stack[l]
       /\ NoneBelow(0) => NoneBelow(0)'
  BY <1>4, <1>5, <1>7, <1>9, LoopPushed
<1>11. Quiet
  BY <1>4, <1>5, WhichPhase DEF LoopInv, AppRuns, Running
<1>12. status'[c] = "sent" /\ \A d \in Calls \ {c} : status'[d] = status[d]
  BY <1>4, <1>5
<1>13. LoopTypes'
  BY <1>4 DEF LoopInv, LoopTypes
<1>14. OwnSlots'
  BY <1>8, OwnSlotsStay DEF LoopInv, Used
<1>15. OwnCalls'
  <2>1. OwnCall(x, status')
    BY <1>7, <1>12 DEF OwnCall
  <2>2. \A d \in Calls : status[d] = "sent" => status'[d] = "sent"
    BY <1>12
  <2> QED BY <1>10, <2>1, <2>2, OwnCallsStay DEF LoopInv
<1>16. SeqsInv'
  <2>1. /\ Cardinality(UsedCalls') = Cardinality(UsedCalls) + 1
        /\ Cardinality(UsedCalls) + 1 <= Cardinality(Calls)
    BY <1>4, <1>5, UsedGrows
  <2>2. Cardinality(UsedCalls) \in Nat
    BY UsedBound
  <2>3. Draws = 0 /\ Draws' \in {0, 1}
    BY <1>4 DEF Draws, AppRuns, Running
  <2>4. PICK u \in Nat : u = Cardinality(UsedCalls')
    BY <2>1, <2>2
  <2>5. 2 * Cardinality(UsedCalls) + 1 + Draws' <= 2 * u + Draws /\ u <= Cardinality(Calls)
    BY <2>1, <2>2, <2>3, <2>4
  <2>6. \A k \in DOMAIN stack' : OwnData(stack'[k]) =>
           \/ stack'[k].f.seq = r.next_seq
           \/ \E l \in DOMAIN stack : OwnData(stack[l]) /\ stack'[k].f.seq = stack[l].f.seq
    BY <1>7, <1>10
  <2> QED BY <1>4, <1>5, <1>8, <2>4, <2>5, <2>6, SeqsDrawn DEF LoopInv
<1>17. PhaseInv'
  <2>1. Quiet'
    BY <1>4, <1>10, <1>11, <1>12, QuietStays DEF Quiet
  <2> QED BY <2>1 DEF PhaseInv
<1> QED BY <1>13, <1>14, <1>15, <1>16, <1>17 DEF LoopInv

\* A send that finds no slot.
LEMMA LoopSendBufferFull ==
  ASSUME NodeInv, LoopInv, SeqsAreEnough, NEW c \in Calls, SendBufferFull(c) PROVE LoopInv'
<1>1. /\ AppRuns /\ status[c] = "unused" /\ r' = take_seq(r) /\ stack' = stack
      /\ status' = [status EXCEPT ![c] = "refused"]
      /\ arrivals' = arrivals /\ deliveries' = deliveries
  BY DEF SendBufferFull
<1>2. /\ r \in R /\ status \in [Calls -> Outcomes] /\ NodeTypes
  BY DEF NodeInv, NodeTypes
<1>3. /\ r'.pending = r.pending /\ r'.session = r.session
      /\ r'.seen = r.seen /\ r'.next_seq = (r.next_seq + 1) % SEQ_VALUES
  BY <1>1, <1>2, TakeSeq DEF R
<1>4. Quiet
  BY <1>1, <1>2, WhichPhase DEF LoopInv, AppRuns, Running
<1>5. status'[c] = "refused" /\ \A d \in Calls \ {c} : status'[d] = status[d]
  BY <1>1, <1>2
<1>6. LoopTypes'
  BY <1>1 DEF LoopInv, LoopTypes
<1>7. OwnSlots'
  BY <1>3, OwnSlotsStay DEF LoopInv, Used
<1>8. OwnCalls'
  <2>1. \A d \in Calls : status[d] = "sent" => status'[d] = "sent"
    BY <1>1, <1>5
  <2> QED BY <1>1, <2>1, OwnCallsStay DEF LoopInv
<1>9. SeqsInv'
  <2>1. /\ Cardinality(UsedCalls') = Cardinality(UsedCalls) + 1
        /\ Cardinality(UsedCalls) + 1 <= Cardinality(Calls)
    BY <1>1, <1>2, UsedGrows
  <2>2. Cardinality(UsedCalls) \in Nat
    BY UsedBound
  <2>3. Draws = 0 /\ Draws' \in {0, 1}
    BY <1>1 DEF Draws, AppRuns, Running
  <2>4. PICK u \in Nat : u = Cardinality(UsedCalls')
    BY <2>1, <2>2
  <2>5. 2 * Cardinality(UsedCalls) + 1 + Draws' <= 2 * u + Draws /\ u <= Cardinality(Calls)
    BY <2>1, <2>2, <2>3, <2>4
  <2> QED BY <1>1, <1>2, <1>3, <2>4, <2>5, SeqsDrawn DEF LoopInv
<1>10. PhaseInv'
  <2>1. NoneBelow(0)'
    BY <1>1, <1>4 DEF Quiet, NoneBelow
  <2>2. Quiet'
    BY <1>1, <1>4, <1>5, <2>1, QuietStays
  <2> QED BY <2>2 DEF PhaseInv
<1> QED BY <1>6, <1>7, <1>8, <1>9, <1>10 DEF LoopInv


\* The steps that only move the stack.
LEMMA LoopOnlyStack ==
  ASSUME LoopInv, SeqsAreEnough, UNCHANGED <<r, status, deliveries>>,
         arrivals' \in 0 .. MaxArrivals, Draws' - Draws <= arrivals' - arrivals,
         \A k \in DOMAIN stack' : \/ OwnCall(stack'[k], status')
                                  \/ \E l \in DOMAIN stack : stack'[k] = stack[l],
         \A k \in DOMAIN stack' : OwnData(stack'[k]) =>
           \E l \in DOMAIN stack : OwnData(stack[l]) /\ stack'[k].f.seq = stack[l].f.seq,
         PhaseInv'
  PROVE  LoopInv'
<1>1. LoopTypes' /\ arrivals \in Nat /\ arrivals' \in Nat
  BY DEF LoopInv, LoopTypes, SeqsAreEnough
<1>2. OwnSlots'
  BY DEF LoopInv, OwnSlots, Used
<1>3. OwnCalls'
  BY OwnCallsStay DEF LoopInv
<1>4. UsedCalls' = UsedCalls
  BY UsedSame
<1>5. SeqsInv'
  BY <1>1, <1>4, SeqsKept DEF LoopInv
<1> QED BY <1>1, <1>2, <1>3, <1>5 DEF LoopInv

\* Quiet is kept by a step that only moves the stack.
LEMMA QuietStack ==
  ASSUME Quiet, UNCHANGED <<status, deliveries>>, NoneBelow(0)'
  PROVE  PhaseInv'
<1>1. Quiet'
  BY QuietStays
<1> QED BY <1>1 DEF PhaseInv

\* Each of these ends a call, none of them one that has a frame in hand.
LEMMA LoopReturns ==
  ASSUME NodeInv, LoopInv, SeqsAreEnough,
         RouteNone \/ LinkReturns \/ DropDuplicate \/ AppReturns \/ TickReturns
  PROVE  LoopInv'
<1>1. /\ stack # <<>> /\ stack' = Tail(stack)
      /\ UNCHANGED <<r, buf, status, deliveries, arrivals>>
      /\ \/ stack[1].fn = "send_fn" /\ stack[1].f.dst # my_addr
         \/ stack[1].fn \in {"link", "duplicate", "deliver_fn", "fail_fn", "tick"}
  BY DEF RouteNone, LinkReturns, DropDuplicate, AppReturns, TickReturns, Running, Caller, Top
<1>2. NodeTypes /\ NestingInv /\ PhaseInv
  BY DEF NodeInv, LoopInv
<1>3. Quiet
  <2>1. stack[1].fn = "send_fn" /\ stack[1].f.dst # my_addr =>
          ~LoopsBack(stack[1]) /\ ~AckToSelf(stack[1])
    BY DEF LoopsBack, OwnData, AckToSelf
  <2> QED BY <1>1, <1>2, <2>1, WhichPhase
<1>4. /\ \A k \in DOMAIN stack' : k + 1 \in DOMAIN stack /\ stack'[k] = stack[k + 1]
      /\ NoneBelow(0) => NoneBelow(0)'
  BY <1>1, <1>2, LoopReturned
<1>5. PhaseInv' /\ NoneBelow(0)'
  BY <1>1, <1>3, <1>4, QuietStack DEF Quiet
<1>6. Draws' = 0
  <2>1. stack' \in Seq(EntryT) /\ NestingInv'
    BY <1>1, StackReturned DEF NodeInv
  <2>2. stack' # <<>> => 1 \in DOMAIN stack'
    BY <2>1
  <2>3. stack' # <<>> => stack'[1] = stack[1 + 1] /\ 1 + 1 \in DOMAIN stack
    BY <1>4, <2>2
  <2>4. stack' # <<>> => stack'[1].fn \notin {"send_fn", "local_fn"}
    BY <1>2, <2>3 DEF NestingInv
  <2> QED BY <2>4 DEF Draws
<1>7. Draws' - Draws <= arrivals' - arrivals /\ arrivals' \in 0 .. MaxArrivals
  <2>1. Draws \in {0, 1} /\ arrivals \in 0 .. MaxArrivals /\ MaxArrivals \in Nat
    BY DrawsType DEF LoopInv, LoopTypes, SeqsAreEnough
  <2> QED BY <1>1, <1>6, <2>1
<1>8. \A k \in DOMAIN stack' : OwnData(stack'[k]) =>
         \E l \in DOMAIN stack : OwnData(stack[l]) /\ stack'[k].f.seq = stack[l].f.seq
  BY <1>4
<1> QED BY <1>1, <1>4, <1>5, <1>7, <1>8, LoopOnlyStack

\* A frame to the node itself is handed to the receiver.
LEMMA LoopRouteLocal ==
  ASSUME NodeInv, LoopInv, SeqsAreEnough, RouteLocal PROVE LoopInv'
<1>1. PICK x : x = Call("local_fn", Top.f, Top.at)
  OBVIOUS
<1>2. /\ Running("send_fn") /\ Top.f.dst = my_addr /\ stack' = <<x>> \o Tail(stack)
      /\ UNCHANGED <<r, status, deliveries, arrivals>>
  BY <1>1 DEF RouteLocal, Caller
<1>3. NodeTypes /\ PhaseInv /\ Top = stack[1]
  BY DEF NodeInv, LoopInv, Top
<1>4. /\ x \in CallT /\ x.fn = "local_fn" /\ x.f = stack[1].f /\ x.at = stack[1].at
      /\ stack # <<>> /\ stack[1].fn = "send_fn" /\ stack[1].f.dst = my_addr
  BY <1>1, <1>2, <1>3, HandedOn DEF FnNames
<1>5. x \in EntryT
  BY <1>4 DEF EntryT
<1>6. /\ DOMAIN stack' = DOMAIN stack /\ stack'[1] = x /\ 1 \in DOMAIN stack
      /\ \A k \in DOMAIN stack \ {1} : stack'[k] = stack[k]
      /\ NoneBelow(1) => NoneBelow(1)'
      /\ NoneBelow(2) => NoneBelow(2)'
      /\ NoneBelow(1) /\ ~LoopsBack(x) => NoneBelow(0)'
  BY <1>2, <1>3, <1>4, <1>5, LoopReplaced
<1>7. (LoopsBack(x) <=> LoopsBack(stack[1])) /\ (OwnData(x) <=> OwnData(stack[1]))
  BY <1>4 DEF LoopsBack, OwnData
<1>8. PhaseInv'
  <2>1. CASE Quiet
    <3>1. ~LoopsBack(x) /\ NoneBelow(1)
      BY <1>3, <1>4, <1>7, <2>1, WhichPhase
    <3> QED BY <1>2, <1>6, <2>1, <3>1, QuietStack
  <2>2. ASSUME NEW c \in Calls, Sending(c) PROVE PhaseInv'
    <3>1. InHand(1, c)'
      BY <1>2, <1>4, <1>6, <1>7, <2>2 DEF Sending, InHand, Settled, seen_key
    <3>2. ParkedAt(1, c)'
      BY <1>2, <1>4, <1>6, <2>2 DEF Sending, ParkedAt, Used
    <3>3. Sending(c)'
      BY <1>4, <1>6, <3>1, <3>2 DEF Sending
    <3> QED BY <3>3 DEF PhaseInv
  <2>3. ASSUME NEW c \in Calls, AckComes(c) PROVE PhaseInv'
    <3>1. 2 \in DOMAIN stack /\ stack'[2] = stack[2]
      BY <1>6, <2>3 DEF AckComes, InHand
    <3>2. InHand(2, c)'
      BY <1>2, <1>6, <2>3, <3>1 DEF AckComes, InHand, Settled
    <3>3. ParkedAt(2, c)'
      BY <1>2, <2>3, <3>1 DEF AckComes, ParkedAt, Used
    <3>4. AckToSelf(stack[1])'
      BY <1>4, <1>6, <2>3 DEF AckComes, AckToSelf
    <3>5. AckComes(c)'
      BY <1>4, <1>6, <2>3, <3>1, <3>2, <3>3, <3>4 DEF AckComes, acked_seq
    <3> QED BY <3>5 DEF PhaseInv
  <2>4. \A c \in Calls : ~Settling(c)
    BY <1>4 DEF Settling
  <2> QED BY <1>3, <2>1, <2>2, <2>3, <2>4 DEF PhaseInv
<1>9. \A k \in DOMAIN stack' : \/ OwnCall(stack'[k], status')
                               \/ \E l \in DOMAIN stack : stack'[k] = stack[l]
  <2>1. OwnCall(x, status')
    BY <1>2, <1>4, <1>6 DEF OwnCall, LoopInv, OwnCalls
  <2> QED BY <1>6, <2>1
<1>10. \A k \in DOMAIN stack' : OwnData(stack'[k]) =>
         \E l \in DOMAIN stack : OwnData(stack[l]) /\ stack'[k].f.seq = stack[l].f.seq
  <2> SUFFICES ASSUME NEW k \in DOMAIN stack', OwnData(stack'[k])
               PROVE  k \in DOMAIN stack /\ OwnData(stack[k]) /\ stack'[k].f.seq = stack[k].f.seq
    OBVIOUS
  <2> QED BY <1>4, <1>6, <1>7
<1>11. Draws' = Draws /\ Draws \in {0, 1}
  <2>1. stack' # <<>>
    BY <1>6
  <2> QED BY <1>4, <1>6, <2>1 DEF Draws
<1>12. Draws' - Draws <= arrivals' - arrivals /\ arrivals' \in 0 .. MaxArrivals
  <2>1. arrivals \in 0 .. MaxArrivals /\ MaxArrivals \in Nat
    BY DEF LoopInv, LoopTypes, SeqsAreEnough
  <2> QED BY <1>2, <1>11, <2>1
<1> QED BY <1>2, <1>8, <1>9, <1>10, <1>12, LoopOnlyStack

\* A frame to another node goes to a link.
LEMMA LoopRouteForward ==
  ASSUME NodeInv, LoopInv, SeqsAreEnough, RouteForward PROVE LoopInv'
<1>1. PICK x : x = Call("link", Top.f, Top.at)
  OBVIOUS
<1>2. /\ Running("send_fn") /\ Top.f.dst # my_addr /\ stack' = <<x>> \o Tail(stack)
      /\ UNCHANGED <<r, status, deliveries, arrivals>>
  BY <1>1 DEF RouteForward, Caller
<1>3. NodeTypes /\ PhaseInv /\ Top = stack[1]
  BY DEF NodeInv, LoopInv, Top
<1>4. /\ x \in CallT /\ x.fn = "link" /\ stack # <<>> /\ stack[1].f.dst # my_addr
  BY <1>1, <1>2, <1>3, HandedOn DEF FnNames
<1>5. x \in EntryT /\ ~OwnData(x) /\ ~LoopsBack(x) /\ OwnCall(x, status')
  BY <1>4 DEF EntryT, LoopsBack, OwnData, OwnCall
<1>6. /\ DOMAIN stack' = DOMAIN stack /\ stack'[1] = x /\ 1 \in DOMAIN stack
      /\ \A k \in DOMAIN stack \ {1} : stack'[k] = stack[k]
      /\ NoneBelow(1) /\ ~LoopsBack(x) => NoneBelow(0)'
  BY <1>2, <1>3, <1>4, <1>5, LoopReplaced
<1>7. Quiet /\ NoneBelow(1)
  <2>1. ~LoopsBack(stack[1]) /\ ~AckToSelf(stack[1])
    BY <1>4 DEF LoopsBack, OwnData, AckToSelf
  <2> QED BY <1>3, <1>4, <2>1, WhichPhase
<1>8. PhaseInv'
  BY <1>2, <1>5, <1>6, <1>7, QuietStack
<1>9. \A k \in DOMAIN stack' : \/ OwnCall(stack'[k], status')
                               \/ \E l \in DOMAIN stack : stack'[k] = stack[l]
  BY <1>5, <1>6
<1>10. \A k \in DOMAIN stack' : OwnData(stack'[k]) =>
         \E l \in DOMAIN stack : OwnData(stack[l]) /\ stack'[k].f.seq = stack[l].f.seq
  BY <1>5, <1>6
<1>11. Draws' = 0
  BY <1>4, <1>6 DEF Draws
<1>12. Draws' - Draws <= arrivals' - arrivals /\ arrivals' \in 0 .. MaxArrivals
  <2>1. Draws \in {0, 1} /\ arrivals \in 0 .. MaxArrivals /\ MaxArrivals \in Nat
    BY DrawsType DEF LoopInv, LoopTypes, SeqsAreEnough
  <2> QED BY <1>2, <1>11, <2>1
<1> QED BY <1>2, <1>8, <1>9, <1>10, <1>12, LoopOnlyStack

\* A frame of a peer arrives.
LEMMA LoopArrive ==
  ASSUME NodeInv, LoopInv, SeqsAreEnough, NoEcho, NEW f \in Inbound, Arrive(f) PROVE LoopInv'
<1>1. PICK x : x = Call("send_fn", f, Elsewhere)
  OBVIOUS
<1>2. /\ stack = <<>> \/ Running("link")
      /\ arrivals < MaxArrivals /\ arrivals' = arrivals + 1
      /\ stack' = <<x>> \o stack /\ UNCHANGED <<r, status, deliveries>>
  BY <1>1 DEF Arrive
<1>3. NodeTypes /\ PhaseInv
  BY DEF NodeInv, LoopInv
<1>4. x \in EntryT /\ x.fn = "send_fn" /\ x.f.src # my_addr
  BY <1>1 DEF Call, CallT, FnNames, EntryT, NoEcho
<1>5. ~OwnData(x) /\ ~LoopsBack(x) /\ OwnCall(x, status')
  BY <1>4 DEF LoopsBack, OwnData, OwnCall
<1>6. /\ \A k \in DOMAIN stack' : stack'[k] = x \/ \E l \in DOMAIN stack : stack'[k] = stack[l]
      /\ NoneBelow(0) => NoneBelow(0)'
  BY <1>2, <1>3, <1>4, <1>5, LoopPushed
<1>7. Quiet
  BY <1>2, <1>3, WhichPhase DEF Running
<1>8. PhaseInv'
  BY <1>2, <1>6, <1>7, QuietStack DEF Quiet
<1>9. Draws' - Draws <= arrivals' - arrivals /\ arrivals' \in 0 .. MaxArrivals
  <2>1. Draws = 0 /\ Draws' \in {0, 1}
    BY <1>2 DEF Draws, Running
  <2>2. arrivals \in 0 .. MaxArrivals /\ MaxArrivals \in Nat
    BY DEF LoopInv, LoopTypes, SeqsAreEnough
  <2>3. arrivals' \in 0 .. MaxArrivals /\ arrivals' - arrivals = 1
    BY <1>2, <2>2
  <2>4. Draws' - Draws <= 1
    <3>1. CASE Draws' = 0
      BY <2>1, <3>1
    <3>2. CASE Draws' = 1
      BY <2>1, <3>2
    <3> QED BY <2>1, <3>1, <3>2
  <2> QED BY <2>3, <2>4
<1> QED BY <1>2, <1>5, <1>6, <1>8, <1>9, LoopOnlyStack

\* A tick begins, time passes, or nothing happens.
LEMMA LoopOthers ==
  ASSUME NodeInv, LoopInv, SeqsAreEnough, Tick \/ AdvanceClock \/ UNCHANGED nodevars
  PROVE  LoopInv'
<1>1. UNCHANGED <<r, status, deliveries, arrivals>>
  BY DEF Tick, AdvanceClock, nodevars
<1>2. NodeTypes /\ PhaseInv /\ arrivals \in 0 .. MaxArrivals /\ MaxArrivals \in Nat
  BY DEF NodeInv, LoopInv, LoopTypes, SeqsAreEnough
<1>3. CASE stack' = stack
  <2>1. PhaseInv'
    <3>1. Quiet => Quiet'
      BY <1>1, <1>3 DEF Quiet, NoneBelow, Settled
    <3>2. \A k \in {1, 2} : \A c \in Calls : /\ InHand(k, c) => InHand(k, c)'
                                             /\ ParkedAt(k, c) => ParkedAt(k, c)'
      BY <1>1, <1>3 DEF InHand, ParkedAt, NoneBelow, Settled, Used
    <3>3. \A c \in Calls : /\ Sending(c) => Sending(c)'
                           /\ Settling(c) => Settling(c)'
                           /\ AckComes(c) => AckComes(c)'
      BY <1>1, <1>3, <3>2 DEF Sending, Settling, AckComes, AckToSelf
    <3> QED BY <1>2, <3>1, <3>3 DEF PhaseInv
  <2>2. Draws' = Draws /\ Draws \in {0, 1}
    BY <1>3 DEF Draws
  <2>3. Draws' - Draws <= arrivals' - arrivals /\ arrivals' \in 0 .. MaxArrivals
    BY <1>1, <1>2, <2>2
  <2> QED BY <1>1, <1>3, <2>1, <2>3, LoopOnlyStack
<1>4. CASE Tick
  <2>1. PICK y : y = [fn |-> "tick", i |-> 0, now_ms |-> now_ms,
                      parked |-> {c \in Calls : status[c] = "parked"}]
    OBVIOUS
  <2>2. stack = <<>> /\ stack' = <<y>> /\ y.fn = "tick"
    BY <1>4, <2>1 DEF Tick
  <2>3. DOMAIN stack' = {1} /\ stack'[1] = y
    BY <2>2
  <2>4. ~OwnData(y) /\ ~LoopsBack(y) /\ OwnCall(y, status')
    BY <2>2 DEF LoopsBack, OwnData, OwnCall
  <2>5. NoneBelow(0)'
    BY <2>3, <2>4 DEF NoneBelow
  <2>6. Quiet
    BY <1>2, <2>2, WhichPhase
  <2>7. PhaseInv'
    BY <1>1, <2>5, <2>6, QuietStack
  <2>8. Draws' = 0 /\ Draws = 0
    BY <2>2, <2>3 DEF Draws
  <2>9. Draws' - Draws <= arrivals' - arrivals /\ arrivals' \in 0 .. MaxArrivals
    BY <1>1, <1>2, <2>8
  <2> QED BY <1>1, <2>3, <2>4, <2>7, <2>9, LoopOnlyStack
<1> QED BY <1>3, <1>4 DEF AdvanceClock, nodevars


\* After a call returned the top is no frame on its way.
LEMMA DrawsReturned ==
  ASSUME NodeInv, LoopInv, SeqsAreEnough, stack # <<>>, stack' = Tail(stack), buf' = buf,
         arrivals' = arrivals
  PROVE  Draws' - Draws <= arrivals' - arrivals
<1>1. stack' \in Seq(EntryT)
  BY StackReturned DEF NodeInv
<1>2. \A k \in DOMAIN stack' : k + 1 \in DOMAIN stack /\ stack'[k] = stack[k + 1]
  BY LoopReturned DEF NodeInv
<1>3. stack' # <<>> => 1 \in DOMAIN stack'
  BY <1>1
<1>4. stack' # <<>> => stack'[1] = stack[1 + 1] /\ 1 + 1 \in DOMAIN stack
  BY <1>2, <1>3
<1>5. stack' # <<>> => stack'[1].fn \notin {"send_fn", "local_fn"}
  BY <1>4 DEF NodeInv, NestingInv
<1>6. Draws' = 0
  BY <1>5 DEF Draws
<1>7. Draws \in {0, 1} /\ arrivals \in 0 .. MaxArrivals /\ MaxArrivals \in Nat
  BY DrawsType DEF LoopInv, LoopTypes, SeqsAreEnough
<1> QED BY <1>6, <1>7

\* An ACK: the one of the frame in hand frees its slot, no other does.
LEMMA LoopReceiveAnAck ==
  ASSUME NodeInv, LoopInv, SeqsAreEnough, ReceiveAnAck PROVE LoopInv'
<1>1. PICK f : f = stack[1].f
  OBVIOUS
<1>2. /\ stack # <<>> /\ stack[1].fn = "local_fn" /\ f.ack
      /\ stack' = Tail(stack) /\ r' = ReceiveAck(r, f)
      /\ status' = IF AckedSlots(r, f) = {} THEN status
                   ELSE [status EXCEPT ![CallOf(r.pending[AckedSlot(r, f)])] = "acked"]
      /\ UNCHANGED <<buf, arrivals, deliveries>>
  BY <1>1 DEF ReceiveAnAck, Running, Caller, Top, is_ack_frame
<1>3. /\ NodeTypes /\ PhaseInv /\ SlotsInv
      /\ r \in arc_reliable_t(Addrs, Sessions, Payloads) /\ status \in [Calls -> Outcomes]
  BY DEF NodeInv, LoopInv, NodeTypes, R
<1>4. r'.session = r.session /\ r'.next_seq = r.next_seq /\ r'.seen = r.seen
  BY <1>2, <1>3, ReceiveAckFields
<1>5. /\ \A k \in DOMAIN stack' : k + 1 \in DOMAIN stack /\ stack'[k] = stack[k + 1]
      /\ \A k \in Nat : NoneBelow(k + 1) => NoneBelow(k)'
      /\ NoneBelow(0) => NoneBelow(0)'
      /\ 2 \in DOMAIN stack => 1 \in DOMAIN stack' /\ stack'[1] = stack[2]
  BY <1>2, <1>3, LoopReturned
<1>6. PICK i : i = AckedSlot(r, f)
  OBVIOUS
<1>7. PICK e : e = CallOf(r.pending[i])
  OBVIOUS
<1>8. AckedSlots(r, f) # {} =>
        /\ i \in PendingSlots /\ Used(i) /\ r.pending[i].dst = f.src
        /\ e \in Calls /\ status[e] = "parked" /\ e.dst = f.src
        /\ r'.pending = [r.pending EXCEPT ![i] = Free]
        /\ status' = [status EXCEPT ![e] = "acked"]
  <2> SUFFICES ASSUME AckedSlots(r, f) # {}
               PROVE  /\ i \in PendingSlots /\ Used(i) /\ r.pending[i].dst = f.src
                      /\ e \in Calls /\ status[e] = "parked" /\ e.dst = f.src
                      /\ r'.pending = [r.pending EXCEPT ![i] = Free]
                      /\ status' = [status EXCEPT ![e] = "acked"]
    OBVIOUS
  <2>1. i \in PendingSlots /\ Used(i) /\ r.pending[i].dst = f.src
    BY <1>3, <1>6, AckedSlotUsed DEF Used
  <2>2. e \in Calls
    BY <1>3, <1>7, <2>1, SlotEntry
  <2>3. status[e] = "parked" /\ e.dst = f.src
    BY <1>3, <1>7, <2>1 DEF SlotsInv, LoopInv, OwnSlots
  <2>4. r' = [r EXCEPT !.pending[i] = Free]
    BY <1>2, <1>6 DEF ReceiveAck
  <2>5. r'.pending = [r.pending EXCEPT ![i] = Free]
    BY <1>3, <2>4 DEF arc_reliable_t
  <2> QED BY <1>2, <1>6, <1>7, <2>1, <2>2, <2>3, <2>5
<1>9. AckedSlots(r, f) = {} => r' = r /\ status' = status
  BY <1>2 DEF ReceiveAck
<1>10. /\ \A c \in Calls : status[c] # "parked" => status'[c] = status[c]
       /\ \A c \in Calls : status'[c] = status[c] \/ (c = e /\ status'[c] = "acked")
       /\ \A c \in Calls : status'[c] = "unused" <=> status[c] = "unused"
  BY <1>3, <1>8, <1>9
<1>11. \A j \in PendingSlots : Used(j)' => Used(j) /\ r'.pending[j] = r.pending[j]
  <2>1. r.pending \in [PendingSlots -> P \cup {Free}]
    BY <1>3, EndpointFields DEF P
  <2> QED BY <1>8, <1>9, <2>1 DEF Used
<1>12. LoopTypes' /\ arrivals \in Nat /\ arrivals' \in Nat
  BY <1>2 DEF LoopInv, LoopTypes, SeqsAreEnough
<1>13. OwnSlots'
  BY <1>4, <1>11, OwnSlotsStay DEF LoopInv
<1>14. OwnCalls'
  <2>1. \A c \in Calls : status[c] = "sent" => status'[c] = "sent"
    BY <1>10
  <2> QED BY <1>5, <2>1, OwnCallsStay DEF LoopInv
<1>15. SeqsInv'
  <2>1. UsedCalls' = UsedCalls
    BY <1>10, UsedSame
  <2>2. Draws' - Draws <= arrivals' - arrivals
    BY <1>2, DrawsReturned
  <2> QED BY <1>4, <1>5, <1>12, <2>1, <2>2, SeqsKept DEF LoopInv
<1>16. ~LoopsBack(stack[1])
  BY <1>1, <1>2 DEF LoopsBack, OwnData
<1>17. CASE Quiet
  <2>1. \A c \in Calls : c.dst = my_addr => status'[c] = status[c]
    BY <1>10, <1>17 DEF Quiet, Settled
  <2>2. Quiet'
    BY <1>2, <1>5, <1>17, <2>1, QuietStays DEF Quiet
  <2> QED BY <1>12, <1>13, <1>14, <1>15, <2>2 DEF LoopInv, PhaseInv
<1>18. ASSUME NEW c \in Calls, AckComes(c) PROVE LoopInv'
  <2>1. PICK j : j = stack[2].at
    OBVIOUS
  <2>2. /\ j \in PendingSlots /\ Used(j) /\ CallOf(r.pending[j]) = c
        /\ r.pending[j].seq = stack[2].f.seq
    BY <1>18, <2>1 DEF AckComes, ParkedAt
  <2>3. /\ f.src = my_addr /\ Len(f.payload) = 2 /\ acked_seq(f) = stack[2].f.seq
        /\ c.dst = my_addr
    BY <1>1, <1>18 DEF AckComes, InHand
  <2>4. r.pending[j].dst = my_addr /\ r.pending[j].session = r.session
    BY <2>2, <2>3 DEF LoopInv, OwnSlots
  <2>5. j \in AckedSlots(r, f)
    <3>1. DOMAIN r.pending = PendingSlots
      BY <1>3, TableSlots
    <3> QED BY <2>2, <2>3, <2>4, <3>1 DEF AckedSlots, PendingMatches, UsedSlots, Used
  <2>6. e \in Calls /\ status[e] = "parked" /\ e.dst = my_addr
        /\ status' = [status EXCEPT ![e] = "acked"]
    BY <1>8, <2>3, <2>5
  <2>7. e = c
    BY <1>18, <2>6 DEF AckComes, InHand, Settled
  <2>8. status'[c] = "acked" /\ \A d \in Calls \ {c} : status'[d] = status[d]
    BY <1>3, <2>6, <2>7
  <2>9. 1 \in DOMAIN stack' /\ stack'[1] = stack[2] /\ NoneBelow(1)'
    <3>1. 2 \in DOMAIN stack /\ NoneBelow(1 + 1)
      BY <1>18 DEF AckComes, InHand
    <3> QED BY <1>5, <3>1
  <2>10. InHand(1, c)'
    <3>1. \A d \in Calls \ {c} : Settled(d)'
      BY <1>2, <1>18, <2>8 DEF AckComes, InHand, Settled
    <3> QED BY <1>2, <1>4, <1>18, <2>9, <3>1 DEF AckComes, InHand
  <2>11. Settling(c)'
    BY <1>18, <2>8, <2>9, <2>10 DEF AckComes, Settling
  <2> QED BY <1>12, <1>13, <1>14, <1>15, <2>11 DEF LoopInv, PhaseInv
<1> QED BY <1>2, <1>3, <1>16, <1>17, <1>18, WhichPhase

\* The session check forgets keys, and adds none.
LEMMA CheckedSeen ==
  ASSUME NodeTypes, NEW f \in Inbound \cup OwnFrames, NEW h, h = CheckSession(r, f)
  PROVE  /\ \A i \in SeenSlots : h.seen[i] # Free => h.seen[i] = r.seen[i]
         /\ DOMAIN h.seen = SeenSlots
<1>1. r \in arc_reliable_t(Addrs, Sessions, Payloads)
  BY DEF NodeTypes, R
<1>2. f.src \in Addrs /\ f.session \in Sessions /\ f.seq \in Seqs
  BY FrameFields
<1>3. DOMAIN r.seen = SeenSlots
  BY <1>1, TableSlots
<1>4. /\ h.seen = IF source_session_changed(r.sources, f.src, f.session)
                  THEN seen_drop_source(r.seen, f.src) ELSE r.seen
      /\ h \in arc_reliable_t(Addrs, Sessions, Payloads)
  BY <1>1, <1>2, CheckSessionType
<1>5. \A i \in SeenSlots : seen_drop_source(r.seen, f.src)[i] # Free =>
        seen_drop_source(r.seen, f.src)[i] = r.seen[i]
  BY <1>3 DEF seen_drop_source
<1>6. DOMAIN h.seen = SeenSlots
  BY <1>4, TableSlots
<1> QED BY <1>4, <1>5, <1>6

\* A reliable frame is received: the ACK of the frame in hand goes to the node itself.
LEMMA LoopReceiveData ==
  ASSUME NodeInv, LoopInv, SeqsAreEnough, ReceiveData PROVE LoopInv'
<1>1. PICK f : f = stack[1].f
  OBVIOUS
<1>2. PICK fn : fn = IF IsDuplicate(r, f) THEN "duplicate" ELSE "acked"
  OBVIOUS
<1>3. PICK x : x = Call("send_fn", emit_ack(r, f), Elsewhere)
  OBVIOUS
<1>4. PICK y : y = Call(fn, f, stack[1].at)
  OBVIOUS
<1>5. PICK h : h = CheckSession(r, f)
  OBVIOUS
<1>6. /\ Running("local_fn") /\ ~f.ack /\ f.reliable /\ r' = take_seq(h)
      /\ stack' = <<x, y>> \o Tail(stack) /\ UNCHANGED <<status, arrivals, deliveries>>
  BY <1>1, <1>2, <1>3, <1>4, <1>5 DEF ReceiveData, is_ack_frame, Caller, Top
<1>7. NodeTypes /\ PhaseInv /\ Top = stack[1] /\ r \in R /\ r.my_addr = my_addr
  BY DEF NodeInv, LoopInv, Top, NodeTypes
<1>8. fn \in {"duplicate", "acked"} /\ fn \in FnNames
  BY <1>2 DEF FnNames
<1>9. /\ y \in CallT /\ y.fn = fn /\ y.f = f /\ y.at = stack[1].at
      /\ stack # <<>> /\ stack[1].fn = "local_fn" /\ f \in Inbound \cup OwnFrames
  BY <1>1, <1>4, <1>6, <1>7, <1>8, HandedOn
<1>10. /\ x \in CallT /\ x.fn = "send_fn" /\ x.f = emit_ack(r, f)
       /\ x.f.ack /\ x.f.dst = f.src /\ x.f.src = my_addr
  <2>1. emit_ack(r, f) \in OwnFrames /\ emit_ack(r, f).ack /\ emit_ack(r, f).dst = f.src
    BY <1>7, <1>9, AckFrame
  <2> QED BY <1>3, <2>1 DEF Call, CallT, FnNames, OwnFrames
<1>11. x \in EntryT /\ y \in EntryT
  BY <1>9, <1>10 DEF EntryT
<1>12. /\ r'.pending = r.pending /\ r'.session = r.session /\ r'.seen = h.seen
       /\ r'.next_seq = (r.next_seq + 1) % SEQ_VALUES
  <2>1. f.src \in Addrs /\ f.session \in Sessions /\ f.seq \in Seqs
    BY <1>9, FrameFields
  <2>2. /\ h \in R /\ h.pending = r.pending /\ h.session = r.session
        /\ h.next_seq = r.next_seq
    BY <1>5, <1>7, <2>1, CheckSessionType DEF R
  <2>3. /\ take_seq(h).pending = h.pending /\ take_seq(h).session = h.session
        /\ take_seq(h).seen = h.seen /\ take_seq(h).next_seq = (h.next_seq + 1) % SEQ_VALUES
    BY <2>2, TakeSeq DEF R
  <2> QED BY <1>6, <2>2, <2>3
<1>13. \A i \in SeenSlots : r'.seen[i] # Free => r'.seen[i] = r.seen[i]
  BY <1>5, <1>7, <1>9, <1>12, CheckedSeen
<1>14. /\ 1 \in DOMAIN stack' /\ 2 \in DOMAIN stack' /\ stack'[1] = x /\ stack'[2] = y
       /\ \A k \in DOMAIN stack' : \/ stack'[k] = x \/ stack'[k] = y
                                   \/ \E l \in DOMAIN stack : l # 1 /\ stack'[k] = stack[l]
       /\ NoneBelow(1) => NoneBelow(2)'
       /\ NoneBelow(1) /\ ~LoopsBack(x) /\ ~LoopsBack(y) => NoneBelow(0)'
  BY <1>6, <1>7, <1>9, <1>11, LoopReplacedTwo
<1>15. 1 \in DOMAIN stack
  BY <1>6, <1>7, TopIs
<1>16. f.dst = my_addr
  BY <1>1, <1>9, <1>15 DEF LoopInv, OwnCalls, OwnCall
<1>17. /\ ~LoopsBack(x) /\ (LoopsBack(y) => LoopsBack(stack[1]))
       /\ ~OwnData(x) /\ (OwnData(y) => OwnData(stack[1]))
  BY <1>1, <1>9, <1>10 DEF LoopsBack, OwnData
<1>18. LoopTypes'
  BY <1>6 DEF LoopInv, LoopTypes
<1>19. OwnSlots'
  BY <1>12, OwnSlotsStay DEF LoopInv, Used
<1>20. OwnCalls'
  <2>1. OwnCall(x, status')
    BY <1>10 DEF OwnCall
  <2>2. OwnCall(y, status')
    BY <1>1, <1>6, <1>8, <1>9, <1>15, <1>16 DEF OwnCall, LoopInv, OwnCalls
  <2> QED BY <1>6, <1>14, <2>1, <2>2, OwnCallsStay DEF LoopInv
<1>21. SeqsInv'
  <2>1. UsedCalls' = UsedCalls /\ arrivals' = arrivals
    BY <1>6, UsedSame
  <2>2. Cardinality(UsedCalls) \in Nat /\ Cardinality(UsedCalls) <= Cardinality(Calls)
    BY UsedBound
  <2>3. Draws = 1 /\ Draws' = 0
    BY <1>1, <1>6, <1>9, <1>10, <1>14, <1>16 DEF Draws
  <2>4. PICK u \in Nat : u = Cardinality(UsedCalls')
    BY <2>1, <2>2
  <2>5. 2 * Cardinality(UsedCalls) + 1 + Draws' <= 2 * u + Draws /\ u <= Cardinality(Calls)
    BY <2>1, <2>2, <2>3, <2>4
  <2>6. \A k \in DOMAIN stack' : OwnData(stack'[k]) =>
           \E l \in DOMAIN stack : OwnData(stack[l]) /\ stack'[k].f.seq = stack[l].f.seq
    BY <1>1, <1>9, <1>14, <1>15, <1>17
  <2>7. \A i \in SeenSlots : r'.seen[i] # Free => r.seen[i] # Free /\ r'.seen[i] = r.seen[i]
    BY <1>13
  <2> QED BY <1>7, <1>12, <2>1, <2>4, <2>5, <2>6, <2>7, SeqsDrawn DEF LoopInv
<1>22. PhaseInv'
  <2>1. CASE ~LoopsBack(stack[1])
    <3>1. ~AckToSelf(stack[1])
      BY <1>1, <1>6 DEF AckToSelf
    <3>2. Quiet /\ NoneBelow(1)
      BY <1>7, <1>9, <2>1, <3>1, WhichPhase
    <3> QED BY <1>6, <1>14, <1>17, <2>1, <3>2, QuietStack
  <2>2. CASE LoopsBack(stack[1])
    <3>1. PICK c \in Calls : Sending(c)
      BY <1>7, <1>9, <2>2, WhichPhase DEF Settling
    <3>2. /\ NoneBelow(1) /\ c.dst = my_addr /\ f.payload = <<c>> /\ deliveries[c] = 0
          /\ \A i \in SeenSlots : r.seen[i] # Free => r.seen[i] # seen_key(f)
          /\ \A d \in Calls \ {c} : Settled(d)
      BY <1>1, <3>1 DEF Sending, InHand
    <3>3. ~IsDuplicate(r, f)
      <4>1. DOMAIN h.seen = SeenSlots /\ \A i \in SeenSlots : h.seen[i] # Free => h.seen[i] = r.seen[i]
        BY <1>5, <1>7, <1>9, CheckedSeen
      <4> QED BY <1>5, <3>2, <4>1 DEF IsDuplicate, seen_contains, UsedSlots
    <3>4. y.fn = "acked"
      BY <1>2, <1>9, <3>3
    <3>5. LoopsBack(y)
      BY <1>1, <1>9, <2>2, <3>4 DEF LoopsBack, OwnData
    <3>6. InHand(2, c)'
      <4>1. \A d \in Calls \ {c} : Settled(d)'
        BY <1>6, <3>2 DEF Settled
      <4>2. \A i \in SeenSlots : r'.seen[i] # Free => r'.seen[i] # seen_key(y.f)
        BY <1>9, <1>13, <3>2
      <4> QED BY <1>6, <1>9, <1>14, <3>2, <3>5, <4>1, <4>2 DEF InHand
    <3>7. ParkedAt(2, c)'
      BY <1>1, <1>9, <1>12, <1>14, <3>1 DEF Sending, ParkedAt, Used
    <3>8. f.src = my_addr /\ f.seq \in Seqs
      BY <1>1, <1>9, <2>2, FrameFields DEF LoopsBack, OwnData
    <3>9. AckToSelf(x)
      BY <1>10, <3>8 DEF AckToSelf
    <3>10. x.f.payload = <<f.seq \div BYTE, f.seq % BYTE>>
      BY <1>10 DEF emit_ack
    <3>11. Len(x.f.payload) = 2 /\ x.f.payload[1] = f.seq \div BYTE /\ x.f.payload[2] = f.seq % BYTE
      BY <3>10
    <3>12. acked_seq(x.f) = f.seq
      BY <3>8, <3>11, SplitSeq DEF acked_seq
    <3>13. AckToSelf(stack[1])'
      BY <1>14, <3>9 DEF AckToSelf
    <3>14. AckComes(c)'
      BY <1>9, <1>10, <1>14, <3>4, <3>6, <3>7, <3>11, <3>12, <3>13 DEF AckComes
    <3> QED BY <3>14 DEF PhaseInv
  <2> QED BY <2>1, <2>2
<1> QED BY <1>18, <1>19, <1>20, <1>21, <1>22 DEF LoopInv


\* deliver_fn runs: the frame in hand is delivered, and settled.
LEMMA LoopDeliver ==
  ASSUME NodeInv, LoopInv, SeqsAreEnough, Deliver PROVE LoopInv'
<1>1. PICK f : f = stack[1].f
  OBVIOUS
<1>2. PICK x : x = Call("deliver_fn", f, stack[1].at)
  OBVIOUS
<1>3. /\ \/ Running("acked") /\ r' = seen_add(r, seen_key(f))
         \/ Running("local_fn") /\ ~f.ack /\ ~f.reliable /\ r' = r
      /\ stack' = <<x>> \o Tail(stack)
      /\ deliveries' = [c \in Calls |->
                          deliveries[c] + IF c \in Delivered(f) THEN 1 ELSE 0]
      /\ UNCHANGED <<buf, arrivals, status>>
  BY <1>1, <1>2 DEF Deliver, is_ack_frame, Caller, Top
<1>4. NodeTypes /\ PhaseInv /\ Top = stack[1] /\ r \in R /\ deliveries \in [Calls -> Nat]
  BY DEF NodeInv, LoopInv, LoopTypes, Top, NodeTypes
<1>5. /\ x \in CallT /\ x.fn = "deliver_fn" /\ stack # <<>>
      /\ stack[1].fn \in {"acked", "local_fn"} /\ f \in Inbound \cup OwnFrames
  BY <1>1, <1>2, <1>3, <1>4, HandedOn DEF FnNames
<1>6. x \in EntryT /\ ~OwnData(x) /\ ~LoopsBack(x) /\ OwnCall(x, status')
  BY <1>5 DEF EntryT, LoopsBack, OwnData, OwnCall
<1>7. /\ DOMAIN stack' = DOMAIN stack /\ stack'[1] = x /\ 1 \in DOMAIN stack
      /\ \A k \in DOMAIN stack \ {1} : stack'[k] = stack[k]
      /\ NoneBelow(1) /\ ~LoopsBack(x) => NoneBelow(0)'
  BY <1>3, <1>4, <1>5, <1>6, LoopReplaced
<1>8. stack[1].fn = "acked" /\ f.src = my_addr => OwnData(stack[1])
  BY <1>1, <1>7 DEF LoopInv, OwnCalls, OwnCall, OwnData
<1>9. /\ r'.pending = r.pending /\ r'.session = r.session /\ r'.next_seq = r.next_seq
      /\ \A i \in SeenSlots : \/ r'.seen[i] = r.seen[i]
                              \/ stack[1].fn = "acked" /\ r'.seen[i] = seen_key(f)
  <2>1. CASE Running("local_fn") /\ r' = r
    BY <2>1
  <2>2. CASE Running("acked") /\ r' = seen_add(r, seen_key(f))
    <3>1. PICK key : key = seen_key(f)
      OBVIOUS
    <3>2. /\ r \in arc_reliable_t(Addrs, Sessions, Payloads)
          /\ key \in arc_reliable_seen_t(Addrs, Sessions)
      BY <1>4, <1>5, <3>1, FrameFields DEF R, seen_key, arc_reliable_seen_t
    <3>3. /\ seen_add(r, key).pending = r.pending /\ seen_add(r, key).session = r.session
          /\ seen_add(r, key).next_seq = r.next_seq
      BY <3>2, SeenAddFields
    <3>4. seen_add(r, key).seen = [r.seen EXCEPT ![SeenSlot(r)] = key]
      BY <3>2, SeenAddType
    <3>5. r.seen \in [SeenSlots -> arc_reliable_seen_t(Addrs, Sessions) \cup {Free}]
      BY <3>2, EndpointFields
    <3>6. \A i \in SeenSlots : r'.seen[i] = r.seen[i] \/ r'.seen[i] = key
      BY <2>2, <3>1, <3>4, <3>5
    <3> QED BY <2>2, <3>1, <3>3, <3>6 DEF Running
  <2> QED BY <1>3, <2>1, <2>2
<1>10. deliveries' \in [Calls -> Nat] /\ \A c \in Calls :
         /\ c \in Delivered(f) => deliveries'[c] = deliveries[c] + 1
         /\ c \notin Delivered(f) => deliveries'[c] = deliveries[c]
  BY <1>3, <1>4
<1>11. LoopTypes' /\ arrivals \in Nat /\ arrivals' \in Nat
  BY <1>3, <1>10 DEF LoopInv, LoopTypes, SeqsAreEnough
<1>12. OwnSlots'
  BY <1>9, OwnSlotsStay DEF LoopInv, Used
<1>13. OwnCalls'
  <2>1. \A k \in DOMAIN stack' : \/ OwnCall(stack'[k], status')
                                 \/ \E l \in DOMAIN stack : stack'[k] = stack[l]
    BY <1>6, <1>7
  <2> QED BY <1>3, <2>1, OwnCallsStay DEF LoopInv
<1>14. SeqsInv'
  <2>1. UsedCalls' = UsedCalls
    BY <1>3, UsedSame
  <2>2. Draws' = 0 /\ Draws \in {0, 1}
    BY <1>5, <1>7 DEF Draws
  <2>3. Draws' - Draws <= arrivals' - arrivals
    BY <1>3, <1>11, <2>2
  <2>4. \A k \in DOMAIN stack' : OwnData(stack'[k]) =>
           \E l \in DOMAIN stack : OwnData(stack[l]) /\ stack'[k].f.seq = stack[l].f.seq
    BY <1>6, <1>7
  <2>5. seen_key(f).src = f.src /\ seen_key(f).seq = f.seq
    BY DEF seen_key
  <2>6. \A i \in SeenSlots : r'.seen[i] # Free /\ r'.seen[i].src = my_addr =>
           \/ r.seen[i] # Free /\ r'.seen[i] = r.seen[i]
           \/ \E k \in DOMAIN stack : OwnData(stack[k]) /\ r'.seen[i].seq = stack[k].f.seq
    BY <1>1, <1>7, <1>8, <1>9, <2>5
  <2> QED BY <1>9, <1>11, <2>1, <2>3, <2>4, <2>6, SeqsKept DEF LoopInv
<1>15. Quiet'
  <2>1. CASE LoopsBack(stack[1])
    <3>1. stack[1].fn = "acked" /\ f.src = my_addr
      BY <1>1, <1>3, <1>4, <2>1 DEF LoopsBack, OwnData, Running
    <3>2. PICK c \in Calls : Settling(c)
      BY <1>4, <1>5, <2>1, <3>1, WhichPhase DEF Sending
    <3>3. /\ NoneBelow(1) /\ f.payload = <<c>> /\ deliveries[c] = 0 /\ status[c] = "acked"
          /\ \A d \in Calls \ {c} : Settled(d)
      BY <1>1, <3>2 DEF Settling, InHand
    <3>4. \A d \in Calls : d \in Delivered(f) <=> d = c
      BY <3>1, <3>3 DEF Delivered
    <3>5. deliveries'[c] = 1 /\ \A d \in Calls \ {c} : deliveries'[d] = deliveries[d]
      BY <1>10, <3>3, <3>4
    <3>6. \A d \in Calls : Settled(d)'
      BY <1>3, <3>3, <3>5 DEF Settled
    <3> QED BY <1>6, <1>7, <3>3, <3>6 DEF Quiet
  <2>2. CASE ~LoopsBack(stack[1])
    <3>1. ~AckToSelf(stack[1])
      BY <1>1, <1>3, <1>4 DEF AckToSelf, Running
    <3>2. Quiet /\ NoneBelow(1)
      BY <1>4, <1>5, <2>2, <3>1, WhichPhase
    <3>3. ASSUME NEW c \in Calls PROVE status'[c] = "sent" \/ deliveries'[c] = deliveries[c]
      <4>1. CASE f.src # my_addr
        BY <1>10, <4>1 DEF Delivered
      <4>2. CASE f.src = my_addr
        <5>1. ~f.ack /\ (~f.reliable \/ stack[1].at = Elsewhere)
          BY <1>1, <1>3, <1>8, <2>2, <4>2 DEF LoopsBack, OwnData, Running
        <5>2. PICK d \in Calls : f.payload = <<d>> /\ status[d] = "sent"
          BY <1>1, <1>5, <1>7, <4>2, <5>1 DEF LoopInv, OwnCalls, OwnCall
        <5>3. c \in Delivered(f) => c = d
          BY <5>2 DEF Delivered
        <5> QED BY <1>3, <1>10, <5>2, <5>3
      <4> QED BY <4>1, <4>2
    <3> QED BY <1>3, <1>6, <1>7, <3>2, <3>3, QuietStays
  <2> QED BY <2>1, <2>2
<1> QED BY <1>11, <1>12, <1>13, <1>14, <1>15 DEF LoopInv, PhaseInv

\* A tick, which is alone on the stack, makes a call.
LEMMA TickStack ==
  ASSUME NodeInv, Running("tick"), DueSlots # {}, NEW i, i = FirstSlot(DueSlots),
         NEW x \in CallT, stack' = <<x>> \o TickAfter(i)
  PROVE  DOMAIN stack' = {1, 2} /\ stack'[1] = x /\ stack'[2].fn = "tick"
<1>1. PICK y : y = [Top EXCEPT !.i = i + 1]
  OBVIOUS
<1>2. /\ stack # <<>> /\ Top.fn = "tick" /\ y \in TickT
  BY <1>1, DueSlot
<1>3. /\ stack \in Seq(EntryT) /\ x \in EntryT /\ y \in EntryT /\ y.fn = "tick" /\ Top = stack[1]
  BY <1>2 DEF NodeInv, NodeTypes, EntryT, TickT, Top
<1>4. Len(stack) = 1 /\ 1 \in DOMAIN stack
  BY <1>2, <1>3 DEF NodeInv, NestingInv
<1>5. PICK t : t = <<y>> \o Tail(stack)
  OBVIOUS
<1>6. t \in Seq(EntryT) /\ DOMAIN t = {1} /\ t[1] = y /\ Len(t) = 1
  BY ZenonT(40), <1>3, <1>4, <1>5, ReplacedOnly
<1>7. stack' = <<x>> \o t
  BY <1>1, <1>5 DEF TickAfter, Caller
<1>8. /\ DOMAIN stack' = 1 .. Len(t) + 1 /\ stack'[1] = x
      /\ \A k \in 2 .. Len(t) + 1 : k - 1 \in DOMAIN t /\ stack'[k] = t[k - 1]
  BY <1>3, <1>6, <1>7, Pushed
<1>9. stack'[2] = y
  BY <1>6, <1>8
<1> QED BY <1>3, <1>6, <1>8, <1>9

\* A tick gives up or sends again only frames to other nodes.
LEMMA LoopTicks ==
  ASSUME NodeInv, LoopInv, SeqsAreEnough, TickFails \/ TickRetries PROVE LoopInv'
<1>1. PICK i : i = FirstSlot(DueSlots)
  OBVIOUS
<1>2. PICK p : p = r.pending[i]
  OBVIOUS
<1>3. PICK fn \in {"send_fn", "fail_fn"} :
        /\ Running("tick") /\ DueSlots # {}
        /\ stack' = <<Call(fn, pending_to_frame(p, my_addr), i)>> \o TickAfter(i)
        /\ UNCHANGED <<buf, arrivals, deliveries>>
        /\ \/ /\ r' = [r EXCEPT !.pending[i] = Free]
              /\ status' = [status EXCEPT ![CallOf(p)] = "failed"]
           \/ /\ ~Exhausted(p) /\ r' = [r EXCEPT !.pending[i] = TickSlot(p, Top.now_ms)]
              /\ status' = status
  BY <1>1, <1>2 DEF TickFails, TickRetries
<1>4. PICK x : x = Call(fn, pending_to_frame(p, my_addr), i)
  OBVIOUS
<1>5. PICK e : e = CallOf(p)
  OBVIOUS
<1>6. /\ NodeTypes /\ PhaseInv /\ r \in arc_reliable_t(Addrs, Sessions, Payloads)
      /\ status \in [Calls -> Outcomes]
      /\ Top = stack[1] /\ stack # <<>> /\ stack[1].fn = "tick"
  BY <1>3 DEF NodeInv, LoopInv, NodeTypes, R, Top, Running
<1>7. /\ i \in PendingSlots /\ Used(i) /\ Expired(p, Top.now_ms) /\ p \in P /\ p # Free
      /\ Top.now_ms \in 0 .. MaxClock
  BY <1>1, <1>2, <1>3, DueSlot DEF Used
<1>8. e \in Calls /\ status[e] = "parked" /\ p.dst = e.dst
  BY <1>2, <1>5, <1>6, <1>7, SlotEntry DEF NodeInv, SlotsInv, LoopInv, OwnSlots
<1>9. Quiet
  BY <1>6, WhichPhase
<1>10. e.dst # my_addr
  BY <1>8, <1>9 DEF Quiet, Settled
<1>11. x \in CallT /\ x.fn = fn /\ x.f.dst = e.dst /\ x.f.reliable /\ x.at # Elsewhere
  <2>1. i # Elsewhere
    BY <1>7, TableSizes DEF PendingSlots, Elsewhere
  <2> QED BY <1>4, <1>7, <1>8, <2>1, ParkedFrame DEF Call, CallT, FnNames, pending_to_frame
<1>12. ~OwnData(x) /\ ~LoopsBack(x) /\ OwnCall(x, status')
  BY <1>10, <1>11 DEF LoopsBack, OwnData, OwnCall
<1>13. DOMAIN stack' = {1, 2} /\ stack'[1] = x /\ stack'[2].fn = "tick"
  BY <1>1, <1>3, <1>4, <1>11, TickStack
<1>14. ~OwnData(stack'[2]) /\ ~LoopsBack(stack'[2]) /\ OwnCall(stack'[2], status')
  BY <1>13 DEF LoopsBack, OwnData, OwnCall
<1>15. NoneBelow(0)'
  BY <1>12, <1>13, <1>14 DEF NoneBelow
<1>16. PICK q : /\ r' = [r EXCEPT !.pending[i] = q]
                /\ (q = Free \/ (q = TickSlot(p, Top.now_ms) /\ ~Exhausted(p)))
  BY <1>3
<1>17. q # Free => CallOf(q) = e /\ q.dst = p.dst /\ q.session = p.session
  <2>1. Top.now_ms \in Clocks
    BY <1>7, NewDeadline
  <2>2. ASSUME q # Free
        PROVE  q.dst = p.dst /\ q.session = p.session /\ q.payload = p.payload
    BY <1>7, <1>16, <2>1, <2>2, TickSlotType DEF P
  <2> QED BY <1>5, <2>2 DEF CallOf
<1>18. /\ r'.pending = [r.pending EXCEPT ![i] = q] /\ r'.session = r.session
       /\ r'.next_seq = r.next_seq /\ r'.seen = r.seen
  BY <1>6, <1>16 DEF arc_reliable_t
<1>19. /\ r'.pending[i] = q /\ \A j \in PendingSlots \ {i} : r'.pending[j] = r.pending[j]
  <2>1. r.pending \in [PendingSlots -> P \cup {Free}]
    BY <1>6, EndpointFields DEF P
  <2> QED BY <1>7, <1>18, <2>1
<1>20. \A c \in Calls : status'[c] = status[c] \/ (c = e /\ status'[c] = "failed")
  BY <1>3, <1>5, <1>6
<1>21. LoopTypes' /\ arrivals \in Nat /\ arrivals' \in Nat
  BY <1>3 DEF LoopInv, LoopTypes, SeqsAreEnough
<1>22. OwnSlots'
  <2>1. \A j \in PendingSlots : Used(j)' =>
          /\ Used(j) /\ CallOf(r'.pending[j]) = CallOf(r.pending[j])
          /\ r'.pending[j].dst = r.pending[j].dst
          /\ r'.pending[j].session = r.pending[j].session
    BY <1>2, <1>5, <1>7, <1>17, <1>19 DEF Used
  <2> QED BY <1>18, <2>1, OwnSlotsStay DEF LoopInv
<1>23. OwnCalls'
  BY <1>12, <1>13, <1>14 DEF OwnCalls
<1>24. SeqsInv'
  <2>1. UsedCalls' = UsedCalls
    BY <1>8, <1>20, UsedSame
  <2>2. Draws' = 0 /\ Draws = 0
    BY <1>6, <1>10, <1>11, <1>13 DEF Draws
  <2>3. Draws' - Draws <= arrivals' - arrivals
    BY <1>3, <1>21, <2>2
  <2>4. \A k \in DOMAIN stack' : ~OwnData(stack'[k])
    BY <1>12, <1>13, <1>14
  <2> QED BY <1>18, <1>21, <2>1, <2>3, <2>4, SeqsKept DEF LoopInv
<1>25. Quiet'
  <2>1. \A c \in Calls : c.dst = my_addr => status'[c] = status[c] /\ deliveries'[c] = deliveries[c]
    BY <1>3, <1>10, <1>20
  <2> QED BY <1>9, <1>15, <2>1, QuietStays
<1> QED BY <1>21, <1>22, <1>23, <1>24, <1>25 DEF LoopInv, PhaseInv

\* Nothing is in hand at first.
LEMMA LoopInit ==
  ASSUME Init, SeqsAreEnough PROVE LoopInv
<1>1. /\ r = arc_reliable_init(my_addr, session, first_seq) /\ stack = <<>> /\ arrivals = 0
      /\ status = [c \in Calls |-> "unused"] /\ deliveries = [c \in Calls |-> 0]
  BY DEF Init
<1>2. (\A i \in PendingSlots : r.pending[i] = Free) /\ (\A i \in SeenSlots : r.seen[i] = Free)
  BY <1>1 DEF arc_reliable_init, EmptyTable, PendingSlots, SeenSlots
<1>3. DOMAIN stack = {}
  BY <1>1
<1>4. LoopTypes
  BY <1>1 DEF LoopTypes, SeqsAreEnough
<1>5. Quiet
  BY <1>1, <1>3 DEF Quiet, NoneBelow, Settled
<1>6. OwnSlots /\ OwnCalls
  BY <1>2, <1>3 DEF OwnSlots, Used, OwnCalls
<1>7. SeqsInv
  <2>1. TakenSeqs(0)
    BY <1>2, <1>3 DEF TakenSeqs
  <2>2. Draws = 0 /\ Cardinality(UsedCalls) \in Nat
    BY <1>1, UsedBound DEF Draws
  <2>3. 0 + Draws <= 2 * Cardinality(UsedCalls) + arrivals
    BY <1>1, <2>2
  <2> QED BY <2>1, <2>3 DEF SeqsInv
<1> QED BY <1>4, <1>5, <1>6, <1>7 DEF LoopInv, PhaseInv

\* A reliable frame that the node sends to itself is acknowledged and handed to
\* deliver_fn, exactly once, by the time the outermost call returns, however the
\* callbacks nest: its ACK is received inside its own reception, and the key is put
\* in seen[] after that.  Where SEQs could repeat, a key of an earlier frame to
\* itself could make the node drop a new one as a duplicate.
THEOREM LoopbackIsDeliveredOnce ==
  ASSUME NoEcho, SeqsAreEnough PROVE Spec => []LoopbackSettles
<1>1. Init => NodeInv /\ LoopInv
  BY NodeInit, LoopInit
<1>2. NodeInv /\ LoopInv /\ NodeInv' /\ [Next]_nodevars => LoopInv'
  <2> SUFFICES ASSUME NodeInv, LoopInv, [Next]_nodevars PROVE LoopInv'
    OBVIOUS
  <2>1. ASSUME NEW c \in Calls,
               \/ SendReliable(c) \/ SendBufferFull(c)
               \/ \E flagged \in BOOLEAN : SendUnreliable(c, flagged)
        PROVE  LoopInv'
    BY <2>1, LoopSendReliable, LoopSendUnreliable, LoopSendBufferFull
  <2>2. CASE RouteLocal \/ RouteForward
    BY <2>2, LoopRouteLocal, LoopRouteForward
  <2>3. CASE RouteNone \/ LinkReturns \/ DropDuplicate \/ AppReturns \/ TickReturns
    BY <2>3, LoopReturns
  <2>4. ASSUME NEW f \in Inbound, Arrive(f) PROVE LoopInv'
    BY <2>4, LoopArrive
  <2>5. CASE ReceiveAnAck
    BY <2>5, LoopReceiveAnAck
  <2>6. CASE ReceiveData
    BY <2>6, LoopReceiveData
  <2>7. CASE Deliver
    BY <2>7, LoopDeliver
  <2>8. CASE TickFails \/ TickRetries
    BY <2>8, LoopTicks
  <2>9. CASE Tick \/ AdvanceClock \/ UNCHANGED nodevars
    BY <2>9, LoopOthers
  <2> QED BY <2>1, <2>2, <2>3, <2>4, <2>5, <2>6, <2>7, <2>8, <2>9 DEF Next
<1>3. NodeInv /\ LoopInv => LoopbackSettles
  <2> SUFFICES ASSUME NodeTypes, LoopInv, stack = <<>> PROVE Quiet
    BY DEF NodeInv, LoopbackSettles, Quiet, Settled
  <2> QED BY WhichPhase DEF LoopInv
<1> QED BY <1>1, <1>2, <1>3, NodeInvariant, PTL DEF Spec


=============================================================================
