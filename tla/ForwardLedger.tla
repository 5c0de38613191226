--------------------------- MODULE ForwardLedger ---------------------------
(***************************************************************************)
(* What the ledger of legacy relays promises, without mailboxes, storage,  *)
(* tokens or dates: each message is a duty that one owner takes at a time. *)
(* An owner relays on its own duty, or after it ran late; a duty passes on *)
(* only when it is given back unrelayed or its owner is late; a finished   *)
(* duty stays finished.                                                    *)
(***************************************************************************)
CONSTANTS Rows, Owners, NoOwner

VARIABLES
  duty,    \* duty[r]: "none", "taken", "open" or "done"
  owner,   \* owner[r]: who took the duty, or NoOwner
  late,    \* owners whose time ran out since they last took a duty
  relays   \* pairs <<owner, row>> of accepted relays

ledgerVars == <<duty, owner, late, relays>>

Init ==
  /\ duty = [r \in Rows |-> "none"]
  /\ owner = [r \in Rows |-> NoOwner]
  /\ late = {}
  /\ relays = {}

Free(r) ==
  \/ duty[r] \in {"none", "open"}
  \/ duty[r] = "taken" /\ owner[r] \in late

Take(o, r) ==
  /\ Free(r)
  /\ duty' = [duty EXCEPT ![r] = "taken"]
  /\ owner' = [owner EXCEPT ![r] = o]
  /\ late' = late \ {o}
  /\ UNCHANGED relays

Relay(o, r) ==
  /\ (duty[r] = "taken" /\ owner[r] = o) \/ o \in late
  /\ relays' = relays \cup {<<o, r>>}
  /\ UNCHANGED <<duty, owner, late>>

GiveBack(r) ==
  /\ duty[r] = "taken"
  /\ <<owner[r], r>> \notin relays
  /\ duty' = [duty EXCEPT ![r] = "open"]
  /\ owner' = [owner EXCEPT ![r] = NoOwner]
  /\ UNCHANGED <<late, relays>>

Finish(r) ==
  /\ duty[r] = "taken"
  /\ <<owner[r], r>> \in relays
  /\ duty' = [duty EXCEPT ![r] = "done"]
  /\ owner' = [owner EXCEPT ![r] = NoOwner]
  /\ UNCHANGED <<late, relays>>

RunLate(r) ==
  /\ duty[r] = "taken"
  /\ late' = late \cup {owner[r]}
  /\ UNCHANGED <<duty, owner, relays>>

Next ==
  \E r \in Rows :
    \/ \E o \in Owners : Take(o, r) \/ Relay(o, r)
    \/ GiveBack(r)
    \/ Finish(r)
    \/ RunLate(r)

Spec == Init /\ [][Next]_ledgerVars
=============================================================================
