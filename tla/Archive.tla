-------------------------------- MODULE Archive --------------------------------
(***************************************************************************)
(* The manifest a mailbox is exported with, and what the inspection of an  *)
(* archive asks of it before anything is restored.  The rows of a change   *)
(* of rule that can no longer be undone are left out.                      *)
(***************************************************************************)
EXTENDS Conversations

(* ------------------------------ the export ----------------------------- *)

\* The rows of a mailbox, the bin included, each table read by itself.
Rows(m) == [id |-> m, folder |-> folder[m], aside |-> m \in aside, later |-> m \in later,
            trashed |-> m \in trashed, outgoing |-> m \in Sent]
Changed == {x \in Senders : change[x] # None}

Manifest ==
    [messages |-> {Rows(m) : m \in Present},
     senderRules |-> {<<x, rule[x]>> : x \in {y \in Senders : rule[y] # "none"}},
     senderRuleChanges |-> {<<x, change[x].previous>> : x \in Changed},
     senderRuleChangeMessages |->
        UNION {{<<x, m, change[x].messages[m]>> : m \in DOMAIN change[x].messages} : x \in Changed},
     senderRuleChangeMerges |->
        UNION {{<<x, k, change[x].merges[k]>> : k \in DOMAIN change[x].merges} : x \in Changed},
     threadMerges |-> {<<k, merge[k].box>> : k \in Standing},
     threadMergeMembers |-> UNION {{<<k, r>> : r \in merge[k].roots} : k \in Standing}]

\* The original of every message goes with the manifest.
Originals == Present

(* ---------------------------- the inspection --------------------------- *)

Firsts(rows) == {r[1] : r \in rows}

\* A message is listed once, in a box there is, with its original.
MessagesAreSound(manifest, files) ==
    /\ \A x, y \in manifest.messages : x.id = y.id => x = y
    /\ \A x \in manifest.messages : x.id \in files /\ x.folder \in Boxes \cup {"Screener"}
    /\ files \subseteq {x.id : x \in manifest.messages}

RulesAreSound(manifest) ==
    /\ \A r \in manifest.senderRules : r[2] \in Boxes
    /\ \A r \in manifest.senderRuleChanges : r[2] \in Boxes \cup {"none"}
    /\ \A r \in manifest.senderRuleChangeMessages : r[3] \in Boxes \cup {"Screener"}
    /\ \A r \in manifest.senderRuleChangeMerges : r[3] \in Boxes

\* What a row names is in the archive, and a merge is where its roots are.
MergesAreSound(manifest) ==
    /\ \A r \in manifest.threadMerges : r[2] \in Boxes
    /\ \A member \in manifest.threadMergeMembers :
          \E x \in manifest.messages : x.id = member[2] /\ <<member[1], x.folder>> \in manifest.threadMerges
    /\ \A k \in Firsts(manifest.threadMerges) :
          Cardinality({r \in manifest.threadMergeMembers : r[1] = k}) >= 2

HistoryIsSound(manifest) ==
    /\ \A r \in manifest.senderRuleChangeMessages :
          r[1] \in Firsts(manifest.senderRuleChanges) /\ \E x \in manifest.messages : x.id = r[2]
    /\ \A r \in manifest.senderRuleChangeMerges :
          r[1] \in Firsts(manifest.senderRuleChanges) /\ r[2] \in Firsts(manifest.threadMerges)

Accepted(manifest, files) ==
    /\ MessagesAreSound(manifest, files)
    /\ RulesAreSound(manifest)
    /\ MergesAreSound(manifest)
    /\ HistoryIsSound(manifest)

(* ------------------------------ properties ----------------------------- *)

\* "The inspection accepts the uncompressed ZIP archives produced by
\* Courrier": what is exported while nothing else is under way is accepted.
ExportIsAccepted == request = None => Accepted(Manifest, Originals)
=============================================================================
