------------------------------ MODULE Lab4Queue ------------------------------
(***************************************************************************)
(* lab4/src/ring_buffer.c and lab4/src/message.c: the ring of messages     *)
(* that the processes of lab 4 share through a System V segment.           *)
(*                                                                         *)
(* A message is a value of Messages.  Its 261 bytes are kept as two parts, *)
(* "body" (type, size and data) and "hash" (the checksum stored beside     *)
(* them), because that is what a reader of a half-written slot can tell    *)
(* apart: the stored hash is the hash of the body exactly when both parts  *)
(* come from the same message.                                             *)
(*                                                                         *)
(* enqueue() and dequeue() are split at the point where a second process   *)
(* can run: the fields are loaded, later they are stored back.  Under      *)
(* mutual exclusion the split is invisible; without it each counter may be *)
(* computed from the loaded value or from the one another process stored   *)
(* meanwhile, which is the outcome of a data race on `x++'.  The totals    *)
(* added_count and removed_count are only printed and are left out.        *)
(***************************************************************************)
EXTENDS Integers

CONSTANTS
  QUEUE_SIZE,   \* slots of the ring (10 in ring_buffer.h)
  INT_MAX,      \* largest value of the C type int
  Messages,     \* what generate_message() can produce
  Blank         \* the all-zero message the segment is cleared to

ASSUME QueueSizeAssumption == QUEUE_SIZE \in Nat \ {0}
ASSUME IntAssumption == INT_MAX \in Nat /\ QUEUE_SIZE <= INT_MAX
ASSUME MessagesAssumption == Messages # {} /\ Blank \notin Messages

CInt == (-INT_MAX - 1) .. INT_MAX
Slots == 0 .. QUEUE_SIZE - 1
Contents == Messages \cup {Blank}
Slot == [body : Contents, hash : Contents]

Queue == [buffer : [Slots -> Slot], head : Slots, tail : Slots,
          count : CInt, free_space : CInt]

\* x++ and x-- on an int, as the compiled code wraps it.
Inc(x) == IF x = INT_MAX THEN -INT_MAX - 1 ELSE x + 1
Dec(x) == IF x = -INT_MAX - 1 THEN INT_MAX ELSE x - 1

\* The slot after s, (s + 1) % QUEUE_SIZE.
NextSlot(s) == IF s = QUEUE_SIZE - 1 THEN 0 ELSE s + 1

\* The slot n places after s, for n up to the size of the ring.
Ahead(s, n) == IF s + n < QUEUE_SIZE THEN s + n ELSE s + n - QUEUE_SIZE

\* The segment as queue_init() leaves it.
EmptyQueue ==
  [buffer |-> [s \in Slots |-> [body |-> Blank, hash |-> Blank]],
   head |-> 0, tail |-> 0, count |-> 0, free_space |-> QUEUE_SIZE]

-----------------------------------------------------------------------------
(***************************************************************************)
(* The tests at the top of enqueue() and dequeue().                        *)
(***************************************************************************)
Full(q) == q.free_space = 0
Empty(q) == q.count = 0

(***************************************************************************)
(* What a process has read of the shared fields; pos is the slot it works  *)
(* on.                                                                     *)
(***************************************************************************)
View == [pos : Slots, count : CInt, free_space : CInt]

\* Seeded fault: messages are taken where they are added.
FaultConsumerView(q) == [pos |-> q.tail, count |-> q.count, free_space |-> q.free_space]

ProducerView(q) == [pos |-> q.tail, count |-> q.count, free_space |-> q.free_space]
ConsumerView(q) == [pos |-> q.head, count |-> q.count, free_space |-> q.free_space]

\* Each field as loaded earlier or as it is now: one view, unless there is a race.
Mixed(seen, now) ==
  [pos : {seen.pos, now.pos}, count : {seen.count, now.count},
   free_space : {seen.free_space, now.free_space}]

\* First half of the structure copy q->buffer[q->tail] = *msg.
CopyBody(q, m) == [q EXCEPT !.buffer[q.tail].body = m]

\* The rest of enqueue(): the copy ends at slot `at', the fields are stored.
StoreEnqueue(q, at, m, v) ==
  [q EXCEPT !.buffer[at].hash = m, !.tail = NextSlot(v.pos), !.count = Inc(v.count),
            !.free_space = Dec(v.free_space)]

\* The stores of dequeue(); the message stays in its slot.
StoreDequeue(q, v) ==
  [q EXCEPT !.head = NextSlot(v.pos), !.count = Dec(v.count),
            !.free_space = Inc(v.free_space)]
=============================================================================
