-------------------------- MODULE MCWorkspaceAccess --------------------------
(***************************************************************************)
(* The people of a workspace, the administrators of the platform and the   *)
(* domains of the workspace, one scene each: three people with two         *)
(* requests under way, two administrators likewise, or a domain that two   *)
(* administrators handle at the same time.  The two first scenes share one *)
(* machine: a request about people asks of the administrators only that    *)
(* there is one, and there always is (SomebodyRemains).                    *)
(***************************************************************************)
EXTENDS WorkspaceAccess, DomainVerification, TLC

VARIABLE scene

\* The machine that rests is in one state.
MCInit ==
    /\ scene \in {"people", "operators", "domains"}
    /\ Init /\ DomainsInit
    /\ scene # "domains" => domains[1].status = "pending"
    /\ scene # "people" => Cardinality({u \in Users : IsOwner(u)}) = 2

AboutOperators(q) == q.at \in {"promote", "demote"}

PeopleScene ==
    /\ scene = "people" /\ Next
    /\ \A r \in Requests : ~AboutOperators(req'[r])
    /\ UNCHANGED <<scene, domainVars>>

OperatorsScene ==
    /\ scene = "operators" /\ Next
    /\ \A r \in Requests : req'[r] = Idle \/ AboutOperators(req'[r])
    /\ UNCHANGED <<scene, invitation, domainVars>>

DomainsScene == scene = "domains" /\ DomainsNext /\ UNCHANGED <<scene, vars>>

MCNext == PeopleScene \/ OperatorsScene \/ DomainsScene

MCSpec == MCInit /\ [][MCNext]_<<scene, vars, domainVars>>

Symmetric ==
    Permutations(Users) \cup Permutations(Operators) \cup Permutations(Requests)

=============================================================================
