----------------------------- MODULE RingBuffer -----------------------------
(***************************************************************************)
(* CRingBuffer<T>: an array and two indices that chase each other round    *)
(* it.  Every method holds m_mutex, so each is one step; the threads of a  *)
(* handler call them in any order.                                         *)
(***************************************************************************)
EXTENDS Naturals, Sequences

CONSTANTS Items, NoItem, Length

ASSUME BufferAssumption == Length \in Nat \ {0} /\ NoItem \notin Items

VARIABLES
    buffer,       \* m_buffer
    iPtr,         \* m_iPtr, where the next item goes
    oPtr,         \* m_oPtr, the oldest item
    returned      \* what the last getData or peek returned

vars == <<buffer, iPtr, oPtr, returned>>

Places == 0 .. Length - 1

TypeOK ==
    /\ buffer \in [Places -> Items \cup {NoItem}]
    /\ iPtr \in Places /\ oPtr \in Places
    /\ returned \in Items \cup {NoItem}

\* Variant: wraps one place late.
AdvanceLate(ptr) == IF ptr = Length THEN 0 ELSE ptr + 1

\* if (++ptr == m_length) ptr = 0
Advance(ptr) == IF ptr + 1 = Length THEN 0 ELSE ptr + 1

(* "new T[length]" leaves what was in memory; it is never read. *)
Init ==
    /\ buffer \in [Places -> Items \cup {NoItem}]
    /\ iPtr = 0 /\ oPtr = 0
    /\ returned = NoItem

(* addData has no test for a full buffer. *)
AddData(x) ==
    /\ buffer' = [buffer EXCEPT ![iPtr] = x]
    /\ iPtr' = Advance(iPtr)
    /\ UNCHANGED <<oPtr, returned>>

\* Variant: the index moves before the item is read.
GetDataAfter ==
    /\ IF iPtr = oPtr THEN returned' = NoItem /\ UNCHANGED oPtr
       ELSE returned' = buffer[Advance(oPtr)] /\ oPtr' = Advance(oPtr)
    /\ UNCHANGED <<buffer, iPtr>>

GetData ==
    /\ IF iPtr = oPtr THEN returned' = NoItem /\ UNCHANGED oPtr
       ELSE returned' = buffer[oPtr] /\ oPtr' = Advance(oPtr)
    /\ UNCHANGED <<buffer, iPtr>>

Peek ==
    /\ returned' = IF iPtr = oPtr THEN NoItem ELSE buffer[oPtr]
    /\ UNCHANGED <<buffer, iPtr, oPtr>>

(* memset: the items in the buffer are dropped, not deleted. *)
Clear ==
    /\ buffer' = [k \in Places |-> NoItem]
    /\ iPtr' = 0 /\ oPtr' = 0
    /\ UNCHANGED returned

Next == (\E x \in Items : AddData(x)) \/ GetData \/ Peek \/ Clear

Spec == Init /\ [][Next]_vars

---------------------------------------------------------------------------
Occupied(i, o) == IF i >= o THEN i - o ELSE i - o + Length
Place(o, k)    == IF o + k - 1 < Length THEN o + k - 1 ELSE o + k - 1 - Length

\* The items between the two indices, oldest first.
HeldIn(b, i, o) == [k \in 1 .. Occupied(i, o) |-> b[Place(o, k)]]
Held == HeldIn(buffer, iPtr, oPtr)

Queue == INSTANCE RingQueue WITH queue <- Held

(* However the two indices stand, the buffer hands its items out in the    *)
(* order they came, once each, until the item that makes the indices meet: *)
(* that one empties it.                                                    *)
ImplementsQueue == Queue!Spec
=============================================================================
