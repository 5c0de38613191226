------------------------- MODULE MCMailboxLifecycle -------------------------
(***************************************************************************)
(* The life of one mailbox, in two scenes: two patches beside a deletion,  *)
(* of a mailbox that receives no mail; and one patch at a time beside the  *)
(* deletions, while mail arrives, is sent and is relayed.                  *)
(***************************************************************************)
EXTENDS MailboxLifecycle, TLC

CONSTANTS p1, p2, d1, d2, m1, w1, y1

VARIABLE scene

MCInit == scene \in {"patches", "deletions"} /\ Init

PatchesScene == scene = "patches" /\ UNCHANGED mailVars /\ Next

DeletionsScene == scene = "deletions" /\ Next /\ (\A p, q \in Patches : p = q \/ ~InFlight(p) \/ ~InFlight(q))'

MCNext == (PatchesScene \/ DeletionsScene) /\ UNCHANGED scene

MCSpec == MCInit /\ [][MCNext]_<<scene, vars>>

\* Requests of one kind are interchangeable.
Slots == Permutations(Patches) \cup Permutations(Deletions)
=============================================================================
