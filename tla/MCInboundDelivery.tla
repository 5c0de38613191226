-------------------------- MODULE MCInboundDelivery --------------------------
(***************************************************************************)
(* Two scenes of InboundDelivery.  In the first, one content is delivered  *)
(* twice, both deliveries relay it, and an administrator replays it.  In   *)
(* the second, two contents share a Message-ID, as a mailing list may make *)
(* them, and the delivery of one is relayed.                               *)
(***************************************************************************)
EXTENDS InboundRefinement

CONSTANTS d1, d2, d3, r1, r2, id1, m1

MCRawOf == [d \in Deliveries |-> IF d = d3 THEN r2 ELSE r1]
OneMailbox == [d \in Deliveries |-> m1]
SharedMessageId == [r \in Raws |-> id1]

VARIABLE scene

MCInit == Init /\ scene \in {"relay", "contents"}

In == IF scene = "relay" THEN {d1, d2} ELSE {d1, d3}
ReplaysIn == IF scene = "relay" THEN Replays ELSE {}

MCNext ==
  /\ \/ \E d \in In : CheckSender(d) \/ Proceed(d)
     \/ \E p \in ReplaysIn : RequestReplay(p) \/ ProceedReplay(p)
     \/ \E i \in In \cup ReplaysIn : Crash(i)
     \/ \E r \in Raws : LeaseExpires(r)
     \/ \E m \in Mailboxes : ChangeReception(m)
  /\ UNCHANGED scene

MCSpec == MCInit /\ [][MCNext]_<<scene, vars>> /\ Fairness
=============================================================================
