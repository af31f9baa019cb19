------------------------------ MODULE Lab5Queue ------------------------------
(***************************************************************************)
(* lab5/5.1/src/queue.c: the ring of message pointers that the threads of  *)
(* lab 5 share.  The ring can be made longer and shorter while it is in    *)
(* use.                                                                    *)
(*                                                                         *)
(* queue_reduce() does not look at the slot it cuts off, so head and tail  *)
(* may end up beyond the array.  What is read there is any pointer or      *)
(* NULL, and what is written there is gone (a pointer that leads nowhere   *)
(* ends the program, which only removes behaviours).                       *)
(***************************************************************************)
EXTENDS Integers

CONSTANTS
  QUEUE_BASE_SIZE,   \* slots of a new ring (10 in queue.h)
  MAX_LEN,           \* bound of the model on the length of the ring
  Messages,          \* what queue_generate_message() can produce
  NULL

ASSUME LengthAssumption == /\ QUEUE_BASE_SIZE \in Nat \ {0}
                           /\ MAX_LEN \in Nat
                           /\ QUEUE_BASE_SIZE <= MAX_LEN
ASSUME MessagesAssumption == Messages # {} /\ NULL \notin Messages

Pointers == Messages \cup {NULL}

\* An index may have been left behind by an array that was longer, and
\* queue_expand() moves head one further each time.
Index == 0 .. 2 * MAX_LEN

Queue == [head : Index, tail : Index, len : 0 .. MAX_LEN, max_len : 1 .. MAX_LEN,
          messages : UNION {[0 .. n - 1 -> Pointers] : n \in 1 .. MAX_LEN}]

\* queue_init().
EmptyQueue ==
  [head |-> 0, tail |-> 0, len |-> 0, max_len |-> QUEUE_BASE_SIZE,
   messages |-> [i \in 0 .. QUEUE_BASE_SIZE - 1 |-> NULL]]

\* messages[i]: what may be read there, and the array after m is stored there.
Cell(q, i) == IF i \in DOMAIN q.messages THEN {q.messages[i]} ELSE Pointers
Store(q, i, m) == [q.messages EXCEPT ![i] = m]

Full(q) == q.len >= q.max_len
Empty(q) == q.len = 0

\* The slot after i, (i + 1) % max_len.
NextIndex(q, i) == (i + 1) % q.max_len

-----------------------------------------------------------------------------
\* queue_push(): tail stays where it is when the ring is empty.
Push(q, m) ==
  LET tail == IF Empty(q) THEN q.tail ELSE NextIndex(q, q.tail)
  IN IF Full(q) THEN q
     ELSE [q EXCEPT !.tail = tail, !.messages = Store(q, tail, m), !.len = @ + 1]

\* queue_pop(): the pointers it may return, and the ring it leaves.
Popped(q) == IF Empty(q) THEN {NULL} ELSE Cell(q, q.head)
Pop(q) ==
  IF Empty(q) THEN q
  ELSE [q EXCEPT !.head = NextIndex(q, q.head), !.messages = Store(q, q.head, NULL),
                 !.len = @ - 1]

\* Does the content wrap around the end of the array, as the code tests it?
Wrapped(q) == q.tail < q.head

\* What the slot added at index `new' holds; beyond the array it is not set to NULL.
NewCell(q, new) == IF new > q.max_len THEN Pointers ELSE {NULL}

\* Seeded fault: the new slot is put at the end of the array in any case.
FaultExpanded(q) ==
  {[q EXCEPT !.max_len = @ + 1,
             !.messages = [i \in 0 .. q.max_len |-> IF i < q.max_len THEN q.messages[i] ELSE NULL]]}

\* queue_expand(): the new slot goes in front of head, or at the end of the array.
Expanded(q) ==
  LET new == IF Wrapped(q) THEN q.head ELSE q.max_len
      cell(i, m) == IF i = new \/ (i = q.max_len /\ new > i) THEN m
                    ELSE IF i < new THEN q.messages[i] ELSE q.messages[i - 1]
  IN {[q EXCEPT !.max_len = @ + 1,
                !.head = IF Wrapped(q) THEN @ + 1 ELSE @,
                !.messages = [i \in 0 .. q.max_len |-> cell(i, m)]] : m \in NewCell(q, new)}

\* queue_reduce(): a slot in front of head is closed up, or the last one is cut off.
Reduce(q) ==
  IF q.len = q.max_len \/ q.max_len = 1 THEN q
  ELSE [q EXCEPT !.max_len = @ - 1,
                 !.head = IF Wrapped(q) THEN @ - 1 ELSE @,
                 !.messages = [i \in 0 .. q.max_len - 2 |->
                                 IF Wrapped(q) /\ i >= q.head - 1 THEN q.messages[i + 1]
                                 ELSE q.messages[i]]]

-----------------------------------------------------------------------------
\* The messages from head on, as a consumer will find them.
Content(q) == [n \in 1 .. q.len |-> q.messages[(q.head + n - 1) % q.max_len]]

\* head and tail are len messages apart, and both inside the array.
Aligned(q) ==
  /\ {q.head, q.tail} \subseteq DOMAIN q.messages
  /\ q.tail = IF Empty(q) THEN q.head ELSE (q.head + q.len - 1) % q.max_len
=============================================================================
