----------------------------- MODULE RingQueue -----------------------------
(***************************************************************************)
(* What a CRingBuffer promises its threads: a first-in first-out queue     *)
(* that never blocks.  It holds at most Length - 1 items; there is no test *)
(* for a full buffer, and one item too many empties it.                    *)
(***************************************************************************)
EXTENDS Naturals, Sequences

CONSTANTS
    Items,        \* what may be queued (never NULL)
    NoItem,       \* NULL
    Length        \* m_length

VARIABLES
    queue,        \* the items held, oldest first
    returned      \* what the last getData or peek returned

Put(q, x) == IF Len(q) = Length - 1 THEN <<>> ELSE Append(q, x)
First(q)  == IF q = <<>> THEN NoItem ELSE Head(q)

Init == queue = <<>> /\ returned = NoItem

AddData(x) == queue' = Put(queue, x) /\ UNCHANGED returned
GetData    == returned' = First(queue) /\ queue' = IF queue = <<>> THEN queue ELSE Tail(queue)
Peek       == returned' = First(queue) /\ UNCHANGED queue
Clear      == queue' = <<>> /\ UNCHANGED returned

Next == (\E x \in Items : AddData(x)) \/ GetData \/ Peek \/ Clear

Spec == Init /\ [][Next]_<<queue, returned>>
=============================================================================
