--------------------------- MODULE WorkspaceAccess ---------------------------
(***************************************************************************)
(* Who may use a workspace and its mailboxes: memberships with their       *)
(* roles, invitations, grants of one mailbox, and the administrators of    *)
(* the platform.  Owners and admins of the workspace manage it from        *)
(* /workspace, administrators of the platform from /admin.                 *)
(*                                                                         *)
(* Every handler reads what it needs to answer precisely, then writes in   *)
(* one batch whose statements test again what may have changed.  Requests  *)
(* interleave between the two, and any of them may be lost there.          *)
(***************************************************************************)
EXTENDS Naturals, FiniteSets

CONSTANTS
    Users,          \* people, each with one email address
    Operators,      \* accounts that can administer the platform
    Requests,       \* the requests that can be under way together
    MaxInvitations, \* bound: the invitations explored, the first from before
    NoMember,       \* the membership of who is not a member
    NoInvitation    \* an invitation that was not created yet

ASSUME WorkspaceAssumption ==
    /\ MaxInvitations \in Nat \ {0}
    /\ Users # {} /\ Operators # {} /\ IsFiniteSet(Operators)

VARIABLES
    member,       \* workspace_memberships: role and status of each user
    granted,      \* mailbox_access_grants that are active
    mailbox,      \* whether the mailbox exists
    invitation,   \* workspace_invitations
    operators,    \* platform_admins
    req           \* the requests under way

vars == <<member, granted, mailbox, invitation, operators, req>>

-----------------------------------------------------------------------------
(* The shape of the state.  Viewers and members have the same rights here. *)

Roles == {"owner", "admin", "member"}

Memberships == [role : Roles, status : {"active", "suspended"}]

\* A pending invitation whose seven days are over is still neither accepted nor
\* revoked.
InvitationStates == {"pending", "expired", "accepted", "revoked"}

Invitations == 1..MaxInvitations

Records == [email : Users, role : Roles \ {"owner"}, state : InvitationStates]

\* Who acts: a manager of the workspace, or the platform.
Platform == "platform"
Actors == Users \cup {Platform}

Idle == [at |-> "idle"]

Waiting ==
    [at : {"invite"}, by : Actors, email : Users, role : Roles \ {"owner"}]
      \cup [at : {"mail"}, id : Invitations]
      \cup [at : {"accept"}, id : Invitations]
      \cup [at : {"revoke"}, by : Actors, id : Invitations]
      \cup [at : {"change"}, by : Actors, user : Users, read : Memberships, to : Memberships]
      \cup [at : {"grant", "ungrant"}, by : Actors, user : Users]
      \cup [at : {"provision"}, to : SUBSET Users]
      \cup [at : {"promote", "demote"}, by : Operators, account : Operators]

ASSUME NamesAssumption ==
    /\ NoMember \notin Memberships /\ NoInvitation \notin Records
    /\ Platform \notin Users

TypeOK ==
    /\ member \in [Users -> Memberships \cup {NoMember}]
    /\ granted \subseteq Users
    /\ mailbox \in BOOLEAN
    /\ invitation \in [Invitations -> Records \cup {NoInvitation}]
    /\ operators \subseteq Operators
    /\ req \in [Requests -> Waiting \cup {Idle}]

Active(u) == member[u] # NoMember /\ member[u].status = "active"

IsOwner(u) == Active(u) /\ member[u].role = "owner"

\* role_permissions: members.manage and mailbox.access.manage.
Manages(u) == Active(u) /\ member[u].role \in {"owner", "admin"}

Pending(i) == invitation[i] # NoInvitation /\ invitation[i].state = "pending"

\* Neither accepted nor revoked.
Open(i) == invitation[i] # NoInvitation /\ invitation[i].state \in {"pending", "expired"}

\* A workspace with some owners, perhaps an admin, an invitation that was left to
\* expire, and no mailbox yet.
Init ==
    /\ \E owners, admins \in SUBSET Users :
         /\ owners # {} /\ owners \cap admins = {}
         /\ member = [u \in Users |->
              IF u \in owners THEN [role |-> "owner", status |-> "active"]
              ELSE IF u \in admins THEN [role |-> "admin", status |-> "active"]
              ELSE NoMember]
         /\ \E u \in Users \ (owners \cup admins) :
              invitation = [i \in Invitations |->
                IF i = 1 THEN [email |-> u, role |-> "member", state |-> "expired"]
                ELSE NoInvitation]
    /\ granted = {} /\ mailbox = FALSE
    /\ operators = Operators
    /\ req = [r \in Requests |-> Idle]

Ask(r, request) == req[r] = Idle /\ req' = [req EXCEPT ![r] = request]

Answer(r) == req' = [req EXCEPT ![r] = Idle]

Lost(r) ==
    /\ req[r] # Idle
    /\ Answer(r)
    /\ UNCHANGED <<member, granted, mailbox, invitation, operators>>

\* requireWorkspacePermission and requirePlatformAdmin, when a request begins.
Admitted(a) == IF a = Platform THEN operators # {} ELSE Manages(a)

\* Mutant: a manager who was admitted may go on.
WasAdmitted(a) == TRUE

\* What the batch of a manager tests again; of an operator it tests nothing.
StillManages(a) == a # Platform => Manages(a)

\* Only owners make or change admins; the platform does not make them.
MayHandle(a, role) == role = "admin" => a \in Users /\ IsOwner(a)

-----------------------------------------------------------------------------
(* Invitations.                                                            *)

InviteReads(r, a, u, role) ==
    /\ Admitted(a) /\ MayHandle(a, role)
    /\ member[u] = NoMember
    /\ \A i \in Invitations : Pending(i) => invitation[i].email # u
    /\ Ask(r, [at |-> "invite", by |-> a, email |-> u, role |-> role])
    /\ UNCHANGED <<member, granted, mailbox, invitation, operators>>

\* Expired invitations of the address are closed, then the new one is inserted.
CloseExpired(u) ==
    [i \in Invitations |->
       IF invitation[i] # NoInvitation /\ invitation[i].state = "expired"
            /\ invitation[i].email = u
       THEN [invitation[i] EXCEPT !.state = "revoked"] ELSE invitation[i]]

\* The unique index over open invitations, which aborts the batch.
PendingIndex(u) == \A i \in Invitations : Pending(i) => invitation[i].email # u

\* Nothing is inserted for who may no longer invite, or has sent ten in an hour.
InviteBatch(r) ==
    /\ req[r].at = "invite"
    /\ LET u == req[r].email
       IN  IF ~PendingIndex(u)
           THEN UNCHANGED invitation /\ Answer(r)
           ELSE \/ /\ StillManages(req[r].by) /\ MayHandle(req[r].by, req[r].role)
                   /\ \E i \in Invitations :
                        /\ invitation[i] = NoInvitation /\ invitation[i - 1] # NoInvitation
                        /\ invitation' = [CloseExpired(u) EXCEPT ![i] =
                             [email |-> u, role |-> req[r].role, state |-> "pending"]]
                        /\ req' = [req EXCEPT ![r] = [at |-> "mail", id |-> i]]
                \/ invitation' = CloseExpired(u) /\ Answer(r)
    /\ UNCHANGED <<member, granted, mailbox, operators>>

Close(i) == IF Open(i) THEN [invitation EXCEPT ![i].state = "revoked"] ELSE invitation

\* The mail is handed over, or the service answers with an error, perhaps after
\* having delivered it: the invitation is revoked unless it was accepted.
InviteMailed(r) ==
    /\ req[r].at = "mail"
    /\ invitation' \in {invitation, Close(req[r].id)}
    /\ Answer(r)
    /\ UNCHANGED <<member, granted, mailbox, operators>>

Expire(i) ==
    /\ Pending(i)
    /\ invitation' = [invitation EXCEPT ![i].state = "expired"]
    /\ UNCHANGED <<member, granted, mailbox, operators, req>>

\* Whoever has the link, signed in to the invited account if there is one.
AcceptReads(r, i) ==
    /\ Pending(i)
    /\ member[invitation[i].email] = NoMember
    /\ Ask(r, [at |-> "accept", id |-> i])
    /\ UNCHANGED <<member, granted, mailbox, invitation, operators>>

\* Mutant: the invitation that was read is accepted.
WasPending(i) == TRUE

\* What every statement of the batch tests of the invitation.
StillPending(i) == Pending(i)

\* One batch: the account where there is none, the membership, the invitation;
\* nothing of it when the invitation was accepted, revoked or expired meanwhile.
AcceptBatch(r) ==
    /\ req[r].at = "accept"
    /\ LET i == req[r].id   u == invitation[i].email
       IN  IF StillPending(i) /\ member[u] = NoMember
           THEN /\ member' = [member EXCEPT ![u] =
                     [role |-> invitation[i].role, status |-> "active"]]
                /\ invitation' = [invitation EXCEPT ![i].state = "accepted"]
           ELSE UNCHANGED <<member, invitation>>
    /\ Answer(r)
    /\ UNCHANGED <<granted, mailbox, operators>>

RevokeReads(r, a, i) ==
    /\ Open(i)
    /\ Admitted(a) /\ (a = Platform \/ MayHandle(a, invitation[i].role))
    /\ Ask(r, [at |-> "revoke", by |-> a, id |-> i])
    /\ UNCHANGED <<member, granted, mailbox, invitation, operators>>

RevokeBatch(r) ==
    /\ req[r].at = "revoke"
    /\ LET a == req[r].by   i == req[r].id
       IN  IF StillManages(a) /\ (a = Platform \/ MayHandle(a, invitation[i].role))
           THEN invitation' = Close(i)
           ELSE UNCHANGED invitation
    /\ Answer(r)
    /\ UNCHANGED <<member, granted, mailbox, operators>>

-----------------------------------------------------------------------------
(* Memberships.                                                            *)

OtherOwner(u) == \E o \in Users \ {u} : IsOwner(o)

\* A manager changes role, status or both of who is not an owner, the platform only the
\* status, of anyone but the last owner.
ChangeReads(r, a, u, to) ==
    /\ Admitted(a)
    /\ member[u] # NoMember
    /\ to # member[u]
    /\ IF a = Platform
       THEN /\ to.role = member[u].role
            /\ to.status = "suspended" /\ to.role = "owner" => OtherOwner(u)
       ELSE /\ member[u].role # "owner" /\ to.role # "owner"
            /\ MayHandle(a, member[u].role) /\ MayHandle(a, to.role)
    /\ Ask(r, [at |-> "change", by |-> a, user |-> u, read |-> member[u], to |-> to])
    /\ UNCHANGED <<member, granted, mailbox, invitation, operators>>

\* Mutant: the last owner was looked for when the request began.
OwnerWasKept(u, to) == TRUE

OwnerIsKept(u, to) ==
    to.status = "suspended" /\ member[u].role = "owner" => OtherOwner(u)

ChangeStands(r) ==
    LET a == req[r].by   u == req[r].user   to == req[r].to
    IN  IF a = Platform
        THEN member[u].status = req[r].read.status /\ OwnerIsKept(u, to)
        ELSE /\ member[u] = req[r].read /\ member[u].role # "owner"
             /\ StillManages(a) /\ MayHandle(a, to.role)

\* The status of the platform's change goes with the role of the moment.
Changed(r) ==
    IF req[r].by = Platform
    THEN [member[req[r].user] EXCEPT !.status = req[r].to.status]
    ELSE req[r].to

\* Grants are suspended with the membership, and do not come back with it.
SuspendGrants(r) ==
    IF req[r].to.status = "suspended" THEN granted \ {req[r].user} ELSE granted

ChangeBatch(r) ==
    /\ req[r].at = "change"
    /\ IF ChangeStands(r)
       THEN /\ member' = [member EXCEPT ![req[r].user] = Changed(r)]
            /\ granted' = SuspendGrants(r)
       ELSE UNCHANGED <<member, granted>>
    /\ Answer(r)
    /\ UNCHANGED <<mailbox, invitation, operators>>

-----------------------------------------------------------------------------
(* Grants of the mailbox.                                                  *)

MayGrant(a, u) ==
    /\ mailbox /\ Active(u)
    /\ a # Platform => Manages(a) /\ MayHandle(a, member[u].role)

GrantReads(r, a, u) ==
    /\ Admitted(a) /\ MayGrant(a, u)
    /\ Ask(r, [at |-> "grant", by |-> a, user |-> u])
    /\ UNCHANGED <<member, granted, mailbox, invitation, operators>>

GrantStands(r) == MayGrant(req[r].by, req[r].user)

GrantBatch(r) ==
    /\ req[r].at = "grant"
    /\ granted' = IF GrantStands(r) THEN granted \cup {req[r].user} ELSE granted
    /\ Answer(r)
    /\ UNCHANGED <<member, mailbox, invitation, operators>>

\* The grant of an owner is kept.
MayUngrant(a, u) ==
    /\ member[u].role # "owner"
    /\ a # Platform => Active(u) /\ Manages(a) /\ MayHandle(a, member[u].role)

UngrantReads(r, a, u) ==
    /\ Admitted(a) /\ u \in granted /\ MayUngrant(a, u)
    /\ Ask(r, [at |-> "ungrant", by |-> a, user |-> u])
    /\ UNCHANGED <<member, granted, mailbox, invitation, operators>>

UngrantBatch(r) ==
    /\ req[r].at = "ungrant"
    /\ granted' = IF MayUngrant(req[r].by, req[r].user) THEN granted \ {req[r].user}
                                                          ELSE granted
    /\ Answer(r)
    /\ UNCHANGED <<member, mailbox, invitation, operators>>

\* A new mailbox with its first grants, all of them or no mailbox.
ProvisionReads(r, us) ==
    /\ Admitted(Platform)
    /\ Ask(r, [at |-> "provision", to |-> us])
    /\ UNCHANGED <<member, granted, mailbox, invitation, operators>>

ProvisionBatch(r) ==
    /\ req[r].at = "provision"
    /\ IF ~mailbox /\ \A u \in req[r].to : Active(u)
       THEN mailbox' = TRUE /\ granted' = req[r].to
       ELSE UNCHANGED <<mailbox, granted>>
    /\ Answer(r)
    /\ UNCHANGED <<member, invitation, operators>>

-----------------------------------------------------------------------------
(* Administrators of the platform.                                         *)

PromoteReads(r, o, p) ==
    /\ o \in operators /\ p \notin operators
    /\ Ask(r, [at |-> "promote", by |-> o, account |-> p])
    /\ UNCHANGED <<member, granted, mailbox, invitation, operators>>

PromoteBatch(r) ==
    /\ req[r].at = "promote"
    /\ operators' = operators \cup {req[r].account}
    /\ Answer(r)
    /\ UNCHANGED <<member, granted, mailbox, invitation>>

\* Nobody revokes the own role.
DemoteReads(r, o, p) ==
    /\ o \in operators /\ p \in operators /\ o # p
    /\ Ask(r, [at |-> "demote", by |-> o, account |-> p])
    /\ UNCHANGED <<member, granted, mailbox, invitation, operators>>

NotTheLast(r) == Cardinality(operators) > 1

DemoteBatch(r) ==
    /\ req[r].at = "demote"
    /\ operators' = IF NotTheLast(r) THEN operators \ {req[r].account} ELSE operators
    /\ Answer(r)
    /\ UNCHANGED <<member, granted, mailbox, invitation>>

-----------------------------------------------------------------------------
Reads(r) ==
    \/ \E a \in Actors, u \in Users :
         \/ \E role \in {"admin", "member"} : InviteReads(r, a, u, role)
         \/ \E to \in Memberships : ChangeReads(r, a, u, to)
         \/ GrantReads(r, a, u) \/ UngrantReads(r, a, u)
    \/ \E i \in Invitations :
         AcceptReads(r, i) \/ \E a \in Actors : RevokeReads(r, a, i)
    \/ \E us \in SUBSET Users : us # {} /\ ProvisionReads(r, us)
    \/ \E o, p \in Operators : PromoteReads(r, o, p) \/ DemoteReads(r, o, p)

Batch(r) ==
    \/ InviteBatch(r) \/ InviteMailed(r) \/ AcceptBatch(r) \/ RevokeBatch(r)
    \/ ChangeBatch(r)
    \/ GrantBatch(r) \/ UngrantBatch(r) \/ ProvisionBatch(r)
    \/ PromoteBatch(r) \/ DemoteBatch(r)

Next ==
    \/ \E r \in Requests : Reads(r) \/ Batch(r) \/ Lost(r)
    \/ \E i \in Invitations : Expire(i)

Spec == Init /\ [][Next]_vars

-----------------------------------------------------------------------------
(* Properties.                                                             *)

\* The workspace is never left without an active owner, nor the platform without
\* an administrator, however two requests suspend or revoke one another.
SomebodyRemains == (\E u \in Users : IsOwner(u)) /\ operators # {}

\* What became of an invitation is final: a revoked one opens nothing to a request
\* that read it as pending, and a failed mail takes no membership back.  Who joins
\* does it by accepting the own invitation, with its role.
InvitationsSettle ==
    [][ /\ \A i \in Invitations :
             invitation[i] # NoInvitation /\ invitation[i].state \in {"accepted", "revoked"}
               => invitation'[i] = invitation[i]
        /\ \A u \in Users :
             member[u] = NoMember /\ member'[u] # NoMember =>
               \E i \in Invitations :
                  /\ Open(i) /\ invitation'[i].state = "accepted"
                  /\ invitation[i].email = u /\ invitation[i].role = member'[u].role ]_vars

\* A manager who was suspended while a request was under way changes nothing more:
\* what a request changes, its author may still change; and the author is an active
\* owner where an admin is made, unmade or invited.
Touches(r) ==
    /\ req[r].at \in {"invite", "change", "grant", "ungrant", "revoke"}
    /\ req'[r] # req[r]
    /\ \/ member' # member \/ granted' # granted
       \/ \E i \in Invitations : Pending(i) # Pending(i)'

MakesAdmin ==
    \/ \E u \in Users : member'[u] # member[u] /\ "admin" \in {member[u].role, member'[u].role}
    \/ \E i \in Invitations : Pending(i) # Pending(i)' /\ invitation'[i].role = "admin"

AuthorityIsCurrent ==
    [][ \A r \in Requests : Touches(r) /\ req[r].by \in Users =>
          Manages(req[r].by) /\ (MakesAdmin => IsOwner(req[r].by)) ]_vars

=============================================================================
