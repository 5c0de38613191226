---------------------------- MODULE MCReadActivity ----------------------------
(* An instance of ReadActivity: a conversation over two mailboxes, and another. *)
EXTENDS ReadActivity, TLC

CONSTANTS m1, m2, m3, b1, b2, t1, t2

TwoThreads == [m \in Messages |-> IF m = m3 THEN t2 ELSE t1]
\* Enough to mark each message and undo it, and to change m3 twice in between.
FewChanges == [m \in Messages |-> IF m = m3 THEN 4 ELSE 2]
TwoMailboxes == [m \in Messages |-> IF m = m1 THEN b1 ELSE b2]

\* Requests of one kind are interchangeable.
Slots == Permutations(Markers) \cup Permutations(Undoers)
=============================================================================
