------------------------- MODULE InboundRefinement -------------------------
(***************************************************************************)
(* InboundDelivery implements ForwardLedger: the claim columns of          *)
(* legacy_forward_deliveries are the duty and its owner.                   *)
(***************************************************************************)
EXTENDS InboundDelivery

DutyOf(status) ==
  CASE status = "processing" -> "taken"
    [] status = "failed"     -> "open"
    [] status = "forwarded"  -> "done"
    [] OTHER                 -> "none"

Ledger == INSTANCE ForwardLedger WITH
  Rows    <- Raws,
  Owners  <- Invocations,
  NoOwner <- NoOne,
  duty    <- [r \in Raws |-> DutyOf(ledger[r].status)],
  owner   <- [r \in Raws |-> ledger[r].holder],
  late    <- lapsed,
  relays  <- {<<i, row[i]>> : i \in sent}

\* Whatever deliveries, replays, failures and lost answers do to a ledger row is
\* what one-owner-at-a-time duties allow: tokens guard every change of hands.
LedgerKeepsDuties == Ledger!Spec
=============================================================================
