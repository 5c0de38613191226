------------------------- MODULE DomainVerification -------------------------
(***************************************************************************)
(* The domains of the workspaces: added (domains.post.ts), given a DNS     *)
(* challenge (challenge.post.ts), verified by it (verify.post.ts), given   *)
(* mailboxes (mailboxes.post.ts) and removed (domains/[id].delete.ts).     *)
(*                                                                         *)
(* One name is modelled.  Its row may be removed and added again, to this  *)
(* workspace or another; the DNS zone stays, with whatever was published   *)
(* in it.  Each D1 statement or batch and the DNS lookup are steps, and    *)
(* calls of several administrators cross.                                  *)
(***************************************************************************)
EXTENDS Naturals, Sequences

CONSTANTS
    Calls,          \* the requests under way
    MaxRows,        \* bound: how often the name is added
    MaxTokens       \* bound: tokens ever made

ASSUME DomainAssumption == MaxRows \in Nat /\ MaxTokens \in Nat

VARIABLES
    domains,        \* rows ever made: the status, the challenge, whether there are mailboxes
    tokens,         \* tokens ever made: whose they are, whether they expired
    seen,           \* tokens that an administrator was shown
    zone,           \* what the zone publishes, and what it ever published
    call            \* what each request has read

domainVars == <<domains, tokens, seen, zone, call>>

-----------------------------------------------------------------------------

NoToken == 0
Quiet == [step |-> "quiet"]

\* A row of before the verification is legacy; the others are added pending.
DomainsInit ==
    /\ \E s \in {"pending", "legacy_unverified"} :
          domains = <<[status |-> s, token |-> NoToken, mailboxes |-> FALSE]>>
    /\ tokens = <<>>
    /\ seen = {}
    /\ zone = [now |-> {}, ever |-> {}]
    /\ call = [c \in Calls |-> Quiet]

Unverified(d) == domains[d].status \in {"pending", "legacy_unverified"}

InForce(t) == t # NoToken /\ ~tokens[t].expired

\* The name is free again when its row was removed.
AddDomain ==
    /\ domains[Len(domains)].status = "removed" /\ Len(domains) < MaxRows
    /\ domains' = Append(domains, [status |-> "pending", token |-> NoToken, mailboxes |-> FALSE])
    /\ UNCHANGED <<tokens, seen, zone, call>>

-----------------------------------------------------------------------------
\* challenge.post.ts

Begin(c, request) == call[c] = Quiet /\ call' = [call EXCEPT ![c] = request]
End(c) == call' = [call EXCEPT ![c] = Quiet]

\* A challenge in force is shown as it is.
AskChallenge(c, d) ==
    LET t == domains[d].token
    IN  /\ Unverified(d)
        /\ IF InForce(t)
           THEN call[c] = Quiet /\ seen' = seen \cup {t} /\ UNCHANGED call
           ELSE Begin(c, [step |-> "renew", row |-> d]) /\ UNCHANGED seen
        /\ UNCHANGED <<domains, tokens, zone>>

\* Mutant: the new token always takes the place of the old one.
RenewAlways(d) == Unverified(d)

MayRenew(d) == Unverified(d) /\ ~InForce(domains[d].token)

\* The new token is stored unless another call has just stored one.
StoreChallenge(c) ==
    LET d == call[c].row
        t == Len(tokens) + 1
    IN  /\ call[c].step = "renew"
        /\ IF MayRenew(d)
           THEN /\ t <= MaxTokens
                /\ tokens' = Append(tokens, [of |-> d, expired |-> FALSE])
                /\ domains' = [domains EXCEPT ![d].token = t]
                /\ seen' = seen \cup {t}
                /\ End(c)
           ELSE /\ call' = [call EXCEPT ![c].step = "latest"]
                /\ UNCHANGED <<domains, tokens, seen>>
        /\ UNCHANGED zone

\* The token that was stored meanwhile is shown, if it is in force.
ReadLatest(c) ==
    LET d == call[c].row
        t == domains[d].token
    IN  /\ call[c].step = "latest"
        /\ seen' = IF Unverified(d) /\ InForce(t) THEN seen \cup {t} ELSE seen
        /\ End(c)
        /\ UNCHANGED <<domains, tokens, zone>>

ExpireToken(t) ==
    /\ t \in DOMAIN tokens /\ ~tokens[t].expired
    /\ tokens' = [tokens EXCEPT ![t] = [of |-> @.of, expired |-> TRUE]]
    /\ UNCHANGED <<domains, seen, zone, call>>

\* The owner of the zone publishes what an administrator was shown, and clears it.
Publish(t) ==
    /\ t \in seen \ zone.now
    /\ zone' = [now |-> zone.now \cup {t}, ever |-> zone.ever \cup {t}]
    /\ UNCHANGED <<domains, tokens, seen, call>>

Clear ==
    /\ zone.now # {}
    /\ zone' = [zone EXCEPT !.now = {}]
    /\ UNCHANGED <<domains, tokens, seen, call>>

-----------------------------------------------------------------------------
\* verify.post.ts

AskVerify(c, d) ==
    /\ Unverified(d) /\ InForce(domains[d].token)
    /\ Begin(c, [step |-> "lookup", row |-> d, token |-> domains[d].token,
                 status |-> domains[d].status])
    /\ UNCHANGED <<domains, tokens, seen, zone>>

\* Mutant: any record of Courrier's will do.
AnyRecord(t) == zone.now # {}

HasRecord(t) == t \in zone.now

\* The record is not there, or the resolver fails: the call ends.
LookUpRecord(c) ==
    /\ call[c].step = "lookup"
    /\ IF HasRecord(call[c].token)
       THEN call' = [call EXCEPT ![c].step = "verify"]
       ELSE End(c)
    /\ UNCHANGED <<domains, tokens, seen, zone>>

ResolverFails(c) ==
    /\ call[c].step = "lookup" /\ End(c)
    /\ UNCHANGED <<domains, tokens, seen, zone>>

\* The UPDATE's conditions: the status and the challenge that were read, still in force.
StillChallenged(c) ==
    LET d == call[c].row
    IN  /\ domains[d].status = call[c].status
        /\ domains[d].token = call[c].token /\ InForce(call[c].token)

\* The challenge is deleted in the same batch, even when nothing was verified.
VerifyBatch(c) ==
    LET d == call[c].row
    IN  /\ call[c].step = "verify"
        /\ domains' = [domains EXCEPT
              ![d].status = IF StillChallenged(c) THEN "verified" ELSE @,
              ![d].token = IF @ = call[c].token THEN NoToken ELSE @]
        /\ End(c)
        /\ UNCHANGED <<tokens, seen, zone>>

-----------------------------------------------------------------------------
\* Mailboxes, and the removal of a domain that has none.

AskMailbox(c, d) ==
    /\ domains[d].status = "verified"
    /\ Begin(c, [step |-> "mailbox", row |-> d])
    /\ UNCHANGED <<domains, tokens, seen, zone>>

MailboxBatch(c) ==
    LET d == call[c].row
    IN  /\ call[c].step = "mailbox"
        /\ domains' = [domains EXCEPT ![d].mailboxes = @ \/ domains[d].status = "verified"]
        /\ End(c)
        /\ UNCHANGED <<tokens, seen, zone>>

Removable(d) == domains[d].status \in {"pending", "verified"} /\ ~domains[d].mailboxes

AskRemoval(c, d) ==
    /\ Removable(d)
    /\ Begin(c, [step |-> "remove", row |-> d])
    /\ UNCHANGED <<domains, tokens, seen, zone>>

\* The row takes its challenge with it.
RemoveBatch(c) ==
    LET d == call[c].row
    IN  /\ call[c].step = "remove"
        /\ domains' = IF Removable(d)
                      THEN [domains EXCEPT ![d].status = "removed", ![d].token = NoToken] ELSE domains
        /\ End(c)
        /\ UNCHANGED <<tokens, seen, zone>>

-----------------------------------------------------------------------------

DomainsNext ==
    \/ AddDomain \/ Clear
    \/ \E t \in 1..MaxTokens : ExpireToken(t) \/ Publish(t)
    \/ \E c \in Calls :
          \/ \E d \in DOMAIN domains :
                AskChallenge(c, d) \/ AskVerify(c, d) \/ AskMailbox(c, d) \/ AskRemoval(c, d)
          \/ StoreChallenge(c) \/ ReadLatest(c) \/ LookUpRecord(c) \/ ResolverFails(c)
          \/ VerifyBatch(c) \/ MailboxBatch(c) \/ RemoveBatch(c)

DomainsSpec == DomainsInit /\ [][DomainsNext]_domainVars

-----------------------------------------------------------------------------

\* A domain is verified by a token that was made for this row and that its zone
\* published: a record left from a row that was removed, maybe another
\* workspace's, verifies nothing (verify.post.ts:43-47, 64-73).
VerifiedWasPublished ==
    \A d \in DOMAIN domains :
        domains[d].status = "verified" => \E t \in zone.ever : tokens[t].of = d

\* The record that an administrator was shown stays the one that verifies the
\* domain until it expires, whatever other administrators ask for at the same
\* time (challenge.post.ts:38-90).
ShownIsInForce ==
    \A t \in seen :
        LET d == tokens[t].of
        IN  InForce(t) /\ Unverified(d) => domains[d].token = t

=============================================================================
