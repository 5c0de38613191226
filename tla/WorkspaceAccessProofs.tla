------------------------ MODULE WorkspaceAccessProofs -------------------------
(***************************************************************************)
(* The people and the domains of a workspace.  First what WorkspaceAccess  *)
(* promises, for any people, administrators, requests and invitations.     *)
(***************************************************************************)
EXTENDS WorkspaceAccess, DomainVerification, FiniteSetTheorems, TLAPS

Statuses == {"active", "suspended"}

\* Whoever asked for a change of a membership was right about there being one; and
\* where an admin was to be changed, was an owner, which a member never ceases to be.
RequestHolds(x) ==
    x.at = "change" =>
        /\ member[x.user] # NoMember
        /\ x.by \in Users /\ x.read.role = "admin" =>
             member[x.by] # NoMember /\ member[x.by].role = "owner"

RequestsHold == \A r \in Requests : RequestHolds(req[r])

AccessInvariant == TypeOK /\ SomebodyRemains /\ RequestsHold

-----------------------------------------------------------------------------
(* Rows and requests.                                                      *)

\* A membership, and what becomes of it when its status changes.
LEMMA Membership ==
    ASSUME NEW m \in Memberships
    PROVE  /\ m # NoMember /\ m.role \in Roles /\ m.status \in Statuses
           /\ \A s \in Statuses : /\ [m EXCEPT !.status = s] = [role |-> m.role, status |-> s]
                                  /\ [m EXCEPT !.status = s] \in Memberships
  BY NamesAssumption DEF Memberships, Statuses

\* An invitation, and what becomes of it when its state changes.
LEMMA Invitation ==
    ASSUME NEW v \in Records
    PROVE  /\ v # NoInvitation /\ v.email \in Users /\ v.role \in Roles \ {"owner"}
           /\ v.state \in InvitationStates
           /\ \A s \in InvitationStates :
                /\ [v EXCEPT !.state = s] = [email |-> v.email, role |-> v.role, state |-> s]
                /\ [v EXCEPT !.state = s] \in Records
  BY NamesAssumption DEF Records

\* What a request keeps.
LEMMA RequestShape ==
    ASSUME NEW x \in Waiting \cup {Idle}
    PROVE  /\ x.at = "idle" <=> x = Idle
           /\ x.at = "invite" => x.by \in Actors /\ x.email \in Users /\ x.role \in Roles \ {"owner"}
           /\ x.at \in {"mail", "accept", "revoke"} => x.id \in Invitations
           /\ x.at \in {"revoke", "grant", "ungrant", "change"} => x.by \in Actors
           /\ x.at \in {"grant", "ungrant", "change"} => x.user \in Users
           /\ x.at = "change" => x.read \in Memberships /\ x.to \in Memberships
           /\ x.at = "provision" => x.to \subseteq Users
           /\ x.at \in {"promote", "demote"} => x.account \in Operators
  BY DEF Waiting, Idle

\* A closed invitation is an invitation; the others are left alone.
LEMMA Closed ==
    ASSUME TypeOK, NEW i \in Invitations
    PROVE  /\ Close(i) \in [Invitations -> Records \cup {NoInvitation}]
           /\ \A j \in Invitations :
                IF j = i /\ Open(i)
                THEN Close(i)[j] = [email |-> invitation[i].email, role |-> invitation[i].role,
                                    state |-> "revoked"]
                ELSE Close(i)[j] = invitation[j]
<1>1. /\ invitation \in [Invitations -> Records \cup {NoInvitation}]
      /\ "revoked" \in InvitationStates
  BY DEF TypeOK, InvitationStates
<1>2. CASE Open(i)
  <2>1. invitation[i] \in Records
    BY <1>1, <1>2 DEF Open
  <2> PICK n \in Records :
        /\ n = [invitation[i] EXCEPT !.state = "revoked"]
        /\ n = [email |-> invitation[i].email, role |-> invitation[i].role, state |-> "revoked"]
    BY <1>1, <2>1, Invitation
  <2>2. Close(i) = [invitation EXCEPT ![i] = n]
    BY <1>2 DEF Close
  <2> QED
    BY <1>1, <1>2, <2>2
<1>3. CASE ~Open(i)
  BY <1>1, <1>3 DEF Close
<1> QED
  BY <1>2, <1>3

LEMMA ClosedExpired ==
    ASSUME TypeOK, NEW u \in Users
    PROVE  /\ CloseExpired(u) \in [Invitations -> Records \cup {NoInvitation}]
           /\ \A j \in Invitations :
                \/ CloseExpired(u)[j] = invitation[j]
                \/ /\ invitation[j] # NoInvitation /\ invitation[j].state = "expired"
                   /\ CloseExpired(u)[j] # NoInvitation
                   /\ CloseExpired(u)[j] = [email |-> invitation[j].email,
                                            role |-> invitation[j].role, state |-> "revoked"]
<1>1. /\ invitation \in [Invitations -> Records \cup {NoInvitation}]
      /\ "revoked" \in InvitationStates
  BY DEF TypeOK, InvitationStates
<1>2. ASSUME NEW j \in Invitations
      PROVE  /\ CloseExpired(u)[j] \in Records \cup {NoInvitation}
             /\ \/ CloseExpired(u)[j] = invitation[j]
                \/ /\ invitation[j] # NoInvitation /\ invitation[j].state = "expired"
                   /\ CloseExpired(u)[j] # NoInvitation
                   /\ CloseExpired(u)[j] = [email |-> invitation[j].email,
                                            role |-> invitation[j].role, state |-> "revoked"]
  <2>1. CASE /\ invitation[j] # NoInvitation /\ invitation[j].state = "expired"
             /\ invitation[j].email = u
    <3>1. CloseExpired(u)[j] = [invitation[j] EXCEPT !.state = "revoked"]
      BY <2>1 DEF CloseExpired
    <3>2. invitation[j] \in Records
      BY <1>1, <2>1
    <3>3. /\ [invitation[j] EXCEPT !.state = "revoked"]
               = [email |-> invitation[j].email, role |-> invitation[j].role, state |-> "revoked"]
          /\ [invitation[j] EXCEPT !.state = "revoked"] \in Records
      BY <1>1, <3>2, Invitation
    <3>4. [invitation[j] EXCEPT !.state = "revoked"] # NoInvitation
      BY <3>3, NamesAssumption
    <3> QED
      BY <2>1, <3>1, <3>3, <3>4, Zenon
  <2>2. CASE ~ /\ invitation[j] # NoInvitation /\ invitation[j].state = "expired"
               /\ invitation[j].email = u
    BY <1>1, <2>2 DEF CloseExpired
  <2> QED
    BY <2>1, <2>2
<1> QED
  BY <1>2 DEF CloseExpired
-----------------------------------------------------------------------------
(* What every step does.                                                   *)

\* Nobody ceases to be a member, and no owner to be one.
MembersStay ==
    \A u \in Users : member[u] # NoMember =>
        member'[u] # NoMember /\ (member[u].role = "owner" => member'[u].role = "owner")

\* The step of InvitationsSettle.
Settles ==
    /\ \A i \in Invitations :
         invitation[i] # NoInvitation /\ invitation[i].state \in {"accepted", "revoked"}
           => invitation'[i] = invitation[i]
    /\ \A u \in Users :
         member[u] = NoMember /\ member'[u] # NoMember =>
           \E i \in Invitations :
              /\ Open(i) /\ invitation'[i].state = "accepted"
              /\ invitation[i].email = u /\ invitation[i].role = member'[u].role

\* The step of AuthorityIsCurrent.
Authorised(r) ==
    Touches(r) /\ req[r].by \in Users =>
        Manages(req[r].by) /\ (MakesAdmin => IsOwner(req[r].by))

Sound == AccessInvariant' /\ Settles /\ \A r \in Requests : Authorised(r)

\* Only the request that goes on has to be looked at.
LEMMA RequestGoesOn ==
    ASSUME AccessInvariant, NEW r \in Requests, NEW y \in Waiting \cup {Idle},
           req' = [req EXCEPT ![r] = y], MembersStay, RequestHolds(y)', Authorised(r)
    PROVE  /\ RequestsHold' /\ req' \in [Requests -> Waiting \cup {Idle}]
           /\ \A q \in Requests : Authorised(q)
<1>1. req \in [Requests -> Waiting \cup {Idle}]
  BY DEF AccessInvariant, TypeOK
<1>2. \A q \in Requests : req'[q] = IF q = r THEN y ELSE req[q]
  BY <1>1
<1>3. ASSUME NEW q \in Requests, q # r
      PROVE  RequestHolds(req[q])' /\ Authorised(q)
  <2>1. RequestHolds(req[q]) /\ req'[q] = req[q] /\ req[q] \in Waiting \cup {Idle}
    BY <1>1, <1>2, <1>3 DEF AccessInvariant, RequestsHold
  <2>2. RequestHolds(req[q])'
    BY <2>1, RequestShape DEF RequestHolds, MembersStay
  <2>3. Authorised(q)
    BY <2>1 DEF Authorised, Touches
  <2> QED
    BY <2>2, <2>3
<1>4. RequestHolds(req[r])'
  BY <1>2
<1> QED
  BY <1>1, <1>3, <1>4 DEF RequestsHold

\* An answered request asks nothing more.
LEMMA IdleHolds == Idle \in Waiting \cup {Idle} /\ RequestHolds(Idle) /\ RequestHolds(Idle)'
  BY DEF RequestHolds, Idle

\* Steps that leave members, invitations and administrators alone.
LEMMA Unmoved ==
    ASSUME AccessInvariant, NEW r \in Requests, NEW y \in Waiting \cup {Idle},
           req' = [req EXCEPT ![r] = y], RequestHolds(y),
           UNCHANGED <<member, invitation, operators>>,
           granted' \subseteq Users, mailbox' \in BOOLEAN, Authorised(r)
    PROVE  Sound
<1>1. MembersStay /\ Settles /\ RequestHolds(y)'
  BY DEF MembersStay, Settles, RequestHolds
<1>2. /\ RequestsHold' /\ req' \in [Requests -> Waiting \cup {Idle}]
      /\ \A q \in Requests : Authorised(q)
  BY <1>1, RequestGoesOn
<1>3. SomebodyRemains'
  BY DEF AccessInvariant, SomebodyRemains, IsOwner, Active
<1> QED
  BY <1>1, <1>2, <1>3 DEF Sound, AccessInvariant, TypeOK

LEMMA ReadsSound ==
    ASSUME AccessInvariant, NEW r \in Requests, Reads(r)
    PROVE  Sound
<1> SUFFICES \E y \in Waiting : /\ Ask(r, y) /\ RequestHolds(y)
                                /\ UNCHANGED <<member, granted, mailbox, invitation, operators>>
  <2>1. req[r] = Idle => Authorised(r)
    BY DEF Authorised, Touches, Idle
  <2> QED
    BY <2>1, Unmoved DEF Ask, AccessInvariant, TypeOK
<1>1. ASSUME NEW a \in Actors, NEW u \in Users, NEW role \in {"admin", "member"},
             InviteReads(r, a, u, role)
      PROVE  \E y \in Waiting : /\ Ask(r, y) /\ RequestHolds(y)
                                /\ UNCHANGED <<member, granted, mailbox, invitation, operators>>
  <2> PICK y : y = [at |-> "invite", by |-> a, email |-> u, role |-> role]
    OBVIOUS
  <2>1. y \in Waiting /\ RequestHolds(y)
    BY DEF Waiting, Roles, RequestHolds
  <2> QED
    BY <1>1, <2>1 DEF InviteReads
<1>2. ASSUME NEW a \in Actors, NEW u \in Users, NEW to \in Memberships, ChangeReads(r, a, u, to)
      PROVE  \E y \in Waiting : /\ Ask(r, y) /\ RequestHolds(y)
                                /\ UNCHANGED <<member, granted, mailbox, invitation, operators>>
  <2> PICK y : y = [at |-> "change", by |-> a, user |-> u, read |-> member[u], to |-> to]
    OBVIOUS
  <2>1. member[u] \in Memberships
    BY <1>2 DEF ChangeReads, AccessInvariant, TypeOK
  <2>2. y \in Waiting
    BY <2>1 DEF Waiting
  <2>3. RequestHolds(y)
    BY <1>2, NamesAssumption DEF ChangeReads, RequestHolds, MayHandle, IsOwner, Active
  <2> QED
    BY <1>2, <2>2, <2>3 DEF ChangeReads
<1>3. ASSUME NEW a \in Actors, NEW u \in Users, GrantReads(r, a, u) \/ UngrantReads(r, a, u)
      PROVE  \E y \in Waiting : /\ Ask(r, y) /\ RequestHolds(y)
                                /\ UNCHANGED <<member, granted, mailbox, invitation, operators>>
  <2> PICK at \in {"grant", "ungrant"} : Ask(r, [at |-> at, by |-> a, user |-> u])
    BY <1>3 DEF GrantReads, UngrantReads
  <2> PICK y : y = [at |-> at, by |-> a, user |-> u]
    OBVIOUS
  <2>1. y \in Waiting /\ RequestHolds(y)
    BY DEF Waiting, RequestHolds
  <2> QED
    BY <1>3, <2>1 DEF GrantReads, UngrantReads
<1>4. ASSUME NEW i \in Invitations, AcceptReads(r, i)
      PROVE  \E y \in Waiting : /\ Ask(r, y) /\ RequestHolds(y)
                                /\ UNCHANGED <<member, granted, mailbox, invitation, operators>>
  <2> PICK y : y = [at |-> "accept", id |-> i]
    OBVIOUS
  <2>1. y \in Waiting /\ RequestHolds(y)
    BY DEF Waiting, RequestHolds
  <2> QED
    BY <1>4, <2>1 DEF AcceptReads
<1>5. ASSUME NEW i \in Invitations, NEW a \in Actors, RevokeReads(r, a, i)
      PROVE  \E y \in Waiting : /\ Ask(r, y) /\ RequestHolds(y)
                                /\ UNCHANGED <<member, granted, mailbox, invitation, operators>>
  <2> PICK y : y = [at |-> "revoke", by |-> a, id |-> i]
    OBVIOUS
  <2>1. y \in Waiting /\ RequestHolds(y)
    BY DEF Waiting, RequestHolds
  <2> QED
    BY <1>5, <2>1 DEF RevokeReads
<1>6. ASSUME NEW us \in SUBSET Users, ProvisionReads(r, us)
      PROVE  \E y \in Waiting : /\ Ask(r, y) /\ RequestHolds(y)
                                /\ UNCHANGED <<member, granted, mailbox, invitation, operators>>
  <2> PICK y : y = [at |-> "provision", to |-> us]
    OBVIOUS
  <2>1. y \in Waiting /\ RequestHolds(y)
    BY DEF Waiting, RequestHolds
  <2> QED
    BY <1>6, <2>1 DEF ProvisionReads
<1>7. ASSUME NEW o \in Operators, NEW p \in Operators, PromoteReads(r, o, p) \/ DemoteReads(r, o, p)
      PROVE  \E y \in Waiting : /\ Ask(r, y) /\ RequestHolds(y)
                                /\ UNCHANGED <<member, granted, mailbox, invitation, operators>>
  <2> PICK at \in {"promote", "demote"} : Ask(r, [at |-> at, by |-> o, account |-> p])
    BY <1>7 DEF PromoteReads, DemoteReads
  <2> PICK y : y = [at |-> at, by |-> o, account |-> p]
    OBVIOUS
  <2>1. y \in Waiting /\ RequestHolds(y)
    BY DEF Waiting, RequestHolds
  <2> QED
    BY <1>7, <2>1 DEF PromoteReads, DemoteReads
<1> QED
  BY <1>1, <1>2, <1>3, <1>4, <1>5, <1>6, <1>7 DEF Reads
\* A request that waits is one of those there are.
LEMMA Waits ==
    ASSUME AccessInvariant, NEW r \in Requests
    PROVE  req[r] \in Waiting \cup {Idle} /\ RequestHolds(req[r])
  BY DEF AccessInvariant, TypeOK, RequestsHold

\* Steps that change invitations only.
LEMMA InvitationsMove ==
    ASSUME AccessInvariant, NEW r \in Requests, NEW y \in Waiting \cup {Idle},
           req' = [req EXCEPT ![r] = y], RequestHolds(y),
           UNCHANGED <<member, granted, mailbox, operators>>,
           invitation' \in [Invitations -> Records \cup {NoInvitation}],
           \A i \in Invitations :
             invitation[i] # NoInvitation /\ invitation[i].state \in {"accepted", "revoked"}
               => invitation'[i] = invitation[i],
           Authorised(r)
    PROVE  Sound
<1>1. MembersStay /\ Settles /\ RequestHolds(y)'
  BY DEF MembersStay, Settles, RequestHolds
<1>2. /\ RequestsHold' /\ req' \in [Requests -> Waiting \cup {Idle}]
      /\ \A q \in Requests : Authorised(q)
  BY <1>1, RequestGoesOn
<1>3. SomebodyRemains'
  BY DEF AccessInvariant, SomebodyRemains, IsOwner, Active
<1> QED
  BY <1>1, <1>2, <1>3 DEF Sound, AccessInvariant, TypeOK

LEMMA InviteBatchSound ==
    ASSUME AccessInvariant, NEW r \in Requests, InviteBatch(r)
    PROVE  Sound
<1> DEFINE u == req[r].email
           a == req[r].by
<1>1. /\ req[r].at = "invite" /\ u \in Users /\ a \in Actors
      /\ req[r].role \in Roles \ {"owner"}
      /\ UNCHANGED <<member, granted, mailbox, operators>>
  BY Waits, RequestShape DEF InviteBatch
<1>2. /\ CloseExpired(u) \in [Invitations -> Records \cup {NoInvitation}]
      /\ \A j \in Invitations :
           \/ CloseExpired(u)[j] = invitation[j]
           \/ /\ invitation[j] # NoInvitation /\ invitation[j].state = "expired"
              /\ CloseExpired(u)[j] # NoInvitation
              /\ CloseExpired(u)[j] = [email |-> invitation[j].email,
                                       role |-> invitation[j].role, state |-> "revoked"]
  BY <1>1, ClosedExpired DEF AccessInvariant
<1>3. ASSUME NEW j \in Invitations
      PROVE  \/ CloseExpired(u)[j] = invitation[j]
             \/ invitation[j].state = "expired" /\ CloseExpired(u)[j].state = "revoked"
  <2> PICK n : n = CloseExpired(u)[j]
    OBVIOUS
  <2>1. \/ n = invitation[j]
        \/ /\ invitation[j].state = "expired"
           /\ n = [email |-> invitation[j].email, role |-> invitation[j].role,
                   state |-> "revoked"]
    BY <1>2, Zenon
  <2> QED
    BY <2>1
<1>4. CASE UNCHANGED invitation /\ Answer(r)
  <2>1. Authorised(r)
    BY <1>1, <1>4 DEF Authorised, Touches, Pending
  <2> QED
    BY <1>1, <1>4, <2>1, IdleHolds, InvitationsMove DEF Answer, AccessInvariant, TypeOK
<1>5. CASE invitation' = CloseExpired(u) /\ Answer(r)
  <2>1. Authorised(r)
    BY <1>1, <1>2, <1>3, <1>5 DEF Authorised, Touches, Pending
  <2> QED
    BY <1>1, <1>2, <1>5, <2>1, IdleHolds, InvitationsMove DEF Answer
<1>6. CASE /\ StillManages(a) /\ MayHandle(a, req[r].role)
           /\ \E i \in Invitations :
                /\ invitation[i] = NoInvitation
                /\ invitation' = [CloseExpired(u) EXCEPT ![i] =
                     [email |-> u, role |-> req[r].role, state |-> "pending"]]
                /\ req' = [req EXCEPT ![r] = [at |-> "mail", id |-> i]]
  <2> PICK i \in Invitations :
        /\ invitation[i] = NoInvitation
        /\ invitation' = [CloseExpired(u) EXCEPT ![i] =
             [email |-> u, role |-> req[r].role, state |-> "pending"]]
        /\ req' = [req EXCEPT ![r] = [at |-> "mail", id |-> i]]
    BY <1>6
  <2> PICK y : y = [at |-> "mail", id |-> i]
    OBVIOUS
  <2> PICK n : n = [email |-> u, role |-> req[r].role, state |-> "pending"]
    OBVIOUS
  <2>1. y \in Waiting /\ RequestHolds(y)
    BY DEF Waiting, RequestHolds
  <2>2. n \in Records
    BY <1>1 DEF Records, InvitationStates
  <2>3. /\ invitation' \in [Invitations -> Records \cup {NoInvitation}]
        /\ \A j \in Invitations : invitation'[j] = IF j = i THEN n ELSE CloseExpired(u)[j]
    BY <1>2, <2>2
  <2>4. \A j \in Invitations :
          j # i => /\ Pending(j) = Pending(j)'
                   /\ invitation[j] # NoInvitation /\ invitation[j].state \in {"accepted", "revoked"}
                        => invitation'[j] = invitation[j]
    BY <1>2, <1>3, <2>3 DEF Pending
  <2>5. invitation'[i].role = req[r].role
    BY <2>3
  <2>6. Authorised(r)
    BY <1>1, <1>6, <2>4, <2>5, NamesAssumption
       DEF Authorised, StillManages, MayHandle, MakesAdmin, Actors
  <2> QED
    BY <1>1, <2>1, <2>3, <2>4, <2>6, InvitationsMove
<1> QED
  BY <1>4, <1>5, <1>6 DEF InviteBatch

LEMMA CloseSound ==
    ASSUME AccessInvariant, NEW r \in Requests, InviteMailed(r) \/ RevokeBatch(r)
    PROVE  Sound
<1> DEFINE i == req[r].id
<1>1. /\ req[r].at \in {"mail", "revoke"} /\ i \in Invitations
      /\ req[r].at = "revoke" => req[r].by \in Actors
      /\ req' = [req EXCEPT ![r] = Idle]
      /\ UNCHANGED <<member, granted, mailbox, operators>>
      /\ invitation' \in {invitation, Close(i)}
  BY Waits, RequestShape DEF InviteMailed, RevokeBatch, Answer
<1>2. /\ Close(i) \in [Invitations -> Records \cup {NoInvitation}]
      /\ \A j \in Invitations :
           IF j = i /\ Open(i)
           THEN Close(i)[j] = [email |-> invitation[i].email, role |-> invitation[i].role,
                               state |-> "revoked"]
           ELSE Close(i)[j] = invitation[j]
  BY <1>1, Closed DEF AccessInvariant
<1>3. /\ invitation' \in [Invitations -> Records \cup {NoInvitation}]
      /\ \A j \in Invitations :
           invitation[j] # NoInvitation /\ invitation[j].state \in {"accepted", "revoked"}
             => invitation'[j] = invitation[j]
  BY <1>1, <1>2 DEF AccessInvariant, TypeOK, Open
<1>4. Authorised(r)
  <2> SUFFICES ASSUME Touches(r), req[r].by \in Users
               PROVE  Manages(req[r].by) /\ (MakesAdmin => IsOwner(req[r].by))
    BY DEF Authorised
  <2>1. /\ req[r].at = "revoke" /\ RevokeBatch(r)
        /\ invitation' # invitation
    BY <1>1 DEF Touches, Pending, InviteMailed
  <2>2. /\ StillManages(req[r].by) /\ invitation' = Close(i)
        /\ req[r].by = Platform \/ MayHandle(req[r].by, invitation[i].role)
    BY <2>1 DEF RevokeBatch
  <2>3. \A j \in Invitations : Pending(j) # Pending(j)' =>
          j = i /\ Open(i) /\ invitation'[j].role = invitation[i].role
    BY <1>2, <2>2 DEF Pending
  <2> QED
    BY <1>1, <2>2, <2>3, NamesAssumption DEF StillManages, MayHandle, MakesAdmin
<1> QED
  BY <1>1, <1>3, <1>4, IdleHolds, InvitationsMove

LEMMA AcceptBatchSound ==
    ASSUME AccessInvariant, NEW r \in Requests, AcceptBatch(r)
    PROVE  Sound
<1> DEFINE i == req[r].id
           u == invitation[i].email
<1>1. /\ req[r].at = "accept" /\ i \in Invitations /\ req' = [req EXCEPT ![r] = Idle]
      /\ UNCHANGED <<granted, mailbox, operators>>
  BY Waits, RequestShape DEF AcceptBatch, Answer
<1>2. Authorised(r)
  BY <1>1 DEF Authorised, Touches
<1>3. CASE UNCHANGED <<member, invitation>>
  BY <1>1, <1>2, <1>3, IdleHolds, Unmoved DEF AccessInvariant, TypeOK
<1>4. CASE StillPending(i) /\ member[u] = NoMember
  <2>1. invitation[i] \in Records /\ u \in Users /\ invitation[i].role \in Roles
    BY <1>1, <1>4, Invitation DEF StillPending, Pending, AccessInvariant, TypeOK
  <2> PICK m : m = [role |-> invitation[i].role, status |-> "active"]
    OBVIOUS
  <2> PICK n : n = [email |-> u, role |-> invitation[i].role, state |-> "accepted"]
    OBVIOUS
  <2>2. m \in Memberships /\ m # NoMember /\ m.role = invitation[i].role
    BY <2>1, NamesAssumption DEF Memberships
  <2>3. n \in Records /\ [invitation[i] EXCEPT !.state = "accepted"] = n
    BY <2>1, Invitation DEF InvitationStates
  <2>4. member' = [member EXCEPT ![u] = m] /\ invitation' = [invitation EXCEPT ![i] = n]
    BY <1>4, <2>3 DEF AcceptBatch
  <2>5. /\ member' \in [Users -> Memberships \cup {NoMember}]
        /\ \A v \in Users : member'[v] = IF v = u THEN m ELSE member[v]
    BY <2>1, <2>2, <2>4 DEF AccessInvariant, TypeOK
  <2>6. /\ invitation' \in [Invitations -> Records \cup {NoInvitation}]
        /\ \A j \in Invitations : invitation'[j] = IF j = i THEN n ELSE invitation[j]
    BY <1>1, <2>3, <2>4 DEF AccessInvariant, TypeOK
  <2>7. MembersStay
    BY <1>4, <2>5 DEF MembersStay
  <2>8. Open(i) /\ invitation[i].state \notin {"accepted", "revoked"}
    BY <1>4 DEF StillPending, Pending, Open
  <2>9. Settles
    BY <1>1, <2>2, <2>5, <2>6, <2>8 DEF Settles
  <2>10. SomebodyRemains'
    BY <1>1, <1>4, <2>5 DEF AccessInvariant, SomebodyRemains, IsOwner, Active
  <2>11. /\ RequestsHold' /\ req' \in [Requests -> Waiting \cup {Idle}]
         /\ \A q \in Requests : Authorised(q)
    BY <1>1, <1>2, <2>7, IdleHolds, RequestGoesOn
  <2> QED
    BY <1>1, <2>5, <2>6, <2>9, <2>10, <2>11 DEF Sound, AccessInvariant, TypeOK
<1> QED
  BY <1>3, <1>4 DEF AcceptBatch

-----------------------------------------------------------------------------
(* Memberships.                                                            *)

LEMMA ChangeBatchSound ==
    ASSUME AccessInvariant, NEW r \in Requests, ChangeBatch(r)
    PROVE  Sound
<1> DEFINE u == req[r].user
           a == req[r].by
           to == req[r].to
<1>1. /\ req[r].at = "change" /\ u \in Users /\ a \in Actors /\ to \in Memberships
      /\ RequestHolds(req[r]) /\ req' = [req EXCEPT ![r] = Idle]
      /\ UNCHANGED <<mailbox, invitation, operators>>
  BY Waits, RequestShape DEF ChangeBatch, Answer
<1>2. member[u] \in Memberships
  BY <1>1 DEF RequestHolds, AccessInvariant, TypeOK
<1>3. CASE UNCHANGED <<member, granted>>
  <2>1. Authorised(r)
    BY <1>1, <1>3 DEF Authorised, Touches, Pending
  <2> QED
    BY <1>1, <1>3, <2>1, IdleHolds, Unmoved DEF AccessInvariant, TypeOK
<1>4. CASE ChangeStands(r)
  <2>1. PICK m \in Memberships :
          /\ m = Changed(r)
          /\ a = Platform => m.role = member[u].role /\ m.status = to.status
          /\ a # Platform => m = to
    <3>1. CASE a = Platform
      <4>1. Changed(r) = [member[u] EXCEPT !.status = to.status]
        BY <3>1 DEF Changed
      <4>2. to.status \in Statuses
        BY <1>1, Membership
      <4>3. /\ [member[u] EXCEPT !.status = to.status]
                 = [role |-> member[u].role, status |-> to.status]
            /\ [member[u] EXCEPT !.status = to.status] \in Memberships
        BY <1>2, <4>2, Membership
      <4>4. /\ Changed(r) = [role |-> member[u].role, status |-> to.status]
            /\ Changed(r) \in Memberships
        BY <4>1, <4>3, Zenon
      <4> QED
        BY <3>1, <4>4
    <3>2. CASE a # Platform
      BY <1>1, <3>2 DEF Changed
    <3> QED
      BY <3>1, <3>2
  <2>2. member' = [member EXCEPT ![u] = m] /\ granted' = SuspendGrants(r)
    BY <1>4, <2>1 DEF ChangeBatch
  <2>3. /\ member' \in [Users -> Memberships \cup {NoMember}]
        /\ \A v \in Users : member'[v] = IF v = u THEN m ELSE member[v]
        /\ granted' \subseteq Users
    BY <1>1, <2>2 DEF SuspendGrants, AccessInvariant, TypeOK
  <2>4. m # NoMember /\ (member[u].role = "owner" => m.role = "owner")
    BY <1>4, <2>1, Membership DEF ChangeStands
  <2>5. MembersStay
    BY <2>3, <2>4 DEF MembersStay
  <2>6. SomebodyRemains'
    <3>1. PICK o \in Users : IsOwner(o)
      BY DEF AccessInvariant, SomebodyRemains
    <3>2. PICK p \in Users : IsOwner(p) /\ (p = u => m.status = "active")
      <4>1. CASE o # u \/ m.status = "active"
        BY <3>1, <4>1
      <4>2. CASE o = u /\ m.status = "suspended"
        <5>1. a = Platform /\ to.status = "suspended" /\ member[u].role = "owner"
          BY <1>4, <2>1, <3>1, <4>2 DEF ChangeStands, IsOwner
        <5>2. OtherOwner(u)
          BY <1>4, <5>1 DEF ChangeStands, OwnerIsKept
        <5> QED
          BY <5>2 DEF OtherOwner
      <4> QED
        BY <2>1, <4>1, <4>2, Membership DEF Statuses
    <3>3. IsOwner(p)'
      BY <2>3, <2>4, <3>2 DEF IsOwner, Active
    <3> QED
      BY <1>1, <3>3 DEF AccessInvariant, SomebodyRemains
  <2>7. Settles
    BY <1>1, <1>2, <2>3, Membership DEF Settles
  <2>8. Authorised(r)
    <3> SUFFICES ASSUME a \in Users
                 PROVE  Manages(a) /\ (MakesAdmin => IsOwner(a))
      BY DEF Authorised
    <3>1. /\ a # Platform /\ member[u] = req[r].read
          /\ StillManages(a) /\ MayHandle(a, to.role) /\ m = to
      BY <1>4, <2>1, NamesAssumption DEF ChangeStands
    <3>2. Manages(a)
      BY <3>1 DEF StillManages
    <3>3. ASSUME MakesAdmin PROVE "admin" \in {member[u].role, m.role}
      BY <1>1, <2>3, <3>3 DEF MakesAdmin, Pending
    <3>4. member[u].role = "admin" => IsOwner(a)
      BY <1>1, <3>1, <3>2 DEF RequestHolds, Manages, IsOwner
    <3>5. m.role = "admin" => IsOwner(a)
      BY <3>1 DEF MayHandle
    <3> QED
      BY <3>2, <3>3, <3>4, <3>5
  <2>9. /\ RequestsHold' /\ req' \in [Requests -> Waiting \cup {Idle}]
        /\ \A q \in Requests : Authorised(q)
    BY <1>1, <2>5, <2>8, IdleHolds, RequestGoesOn
  <2> QED
    BY <1>1, <2>3, <2>6, <2>7, <2>9 DEF Sound, AccessInvariant, TypeOK
<1> QED
  BY <1>3, <1>4 DEF ChangeBatch

-----------------------------------------------------------------------------
(* Grants and administrators.                                              *)

LEMMA GrantsSound ==
    ASSUME AccessInvariant, NEW r \in Requests,
           GrantBatch(r) \/ UngrantBatch(r) \/ ProvisionBatch(r) \/ Lost(r)
    PROVE  Sound
<1>1. /\ req' = [req EXCEPT ![r] = Idle]
      /\ UNCHANGED <<member, invitation, operators>>
      /\ granted' \subseteq Users /\ mailbox' \in BOOLEAN
  BY Waits, RequestShape DEF GrantBatch, UngrantBatch, ProvisionBatch, Lost, Answer,
       AccessInvariant, TypeOK
<1>2. Authorised(r)
  <2> SUFFICES ASSUME Touches(r), req[r].by \in Users
               PROVE  Manages(req[r].by) /\ (MakesAdmin => IsOwner(req[r].by))
    BY DEF Authorised
  <2>1. ~MakesAdmin
    BY <1>1 DEF MakesAdmin, Pending
  <2>2. granted' # granted
    BY <1>1 DEF Touches, Pending
  <2>3. ~ProvisionBatch(r) /\ ~Lost(r)
    BY <2>2 DEF Touches, ProvisionBatch, Lost
  <2>4. Manages(req[r].by)
    BY <2>2, <2>3, NamesAssumption
       DEF GrantBatch, UngrantBatch, GrantStands, MayGrant, MayUngrant
  <2> QED
    BY <2>1, <2>4
<1> QED
  BY <1>1, <1>2, IdleHolds, Unmoved

LEMMA OperatorsSound ==
    ASSUME AccessInvariant, NEW r \in Requests, PromoteBatch(r) \/ DemoteBatch(r)
    PROVE  Sound
<1>1. /\ req' = [req EXCEPT ![r] = Idle] /\ req[r].at \in {"promote", "demote"}
      /\ req[r].account \in Operators
      /\ UNCHANGED <<member, granted, mailbox, invitation>>
  BY Waits, RequestShape DEF PromoteBatch, DemoteBatch, Answer
<1>2. operators' \subseteq Operators /\ operators' # {}
  <2>1. CASE PromoteBatch(r)
    BY <1>1, <2>1 DEF PromoteBatch, AccessInvariant, TypeOK
  <2>2. CASE DemoteBatch(r)
    <3>1. CASE ~NotTheLast(r)
      BY <2>2, <3>1 DEF DemoteBatch, AccessInvariant, TypeOK, SomebodyRemains
    <3>2. CASE NotTheLast(r)
      <4>1. IsFiniteSet(operators)
        BY FS_Subset, WorkspaceAssumption DEF AccessInvariant, TypeOK
      <4>2. operators # {req[r].account}
        <5>1. Cardinality({req[r].account}) = 1
          BY FS_Singleton
        <5> QED
          BY <3>2, <5>1 DEF NotTheLast
      <4>3. operators' = operators \ {req[r].account}
        BY <2>2, <3>2 DEF DemoteBatch
      <4> QED
        BY <4>2, <4>3 DEF AccessInvariant, TypeOK, SomebodyRemains
    <3> QED
      BY <3>1, <3>2
  <2> QED
    BY <2>1, <2>2
<1>3. Authorised(r) /\ MembersStay /\ Settles
  BY <1>1 DEF Authorised, Touches, MembersStay, Settles
<1>4. /\ RequestsHold' /\ req' \in [Requests -> Waiting \cup {Idle}]
      /\ \A q \in Requests : Authorised(q)
  BY <1>1, <1>3, IdleHolds, RequestGoesOn
<1>5. SomebodyRemains'
  BY <1>1, <1>2 DEF AccessInvariant, SomebodyRemains, IsOwner, Active
<1> QED
  BY <1>1, <1>2, <1>3, <1>4, <1>5 DEF Sound, AccessInvariant, TypeOK

-----------------------------------------------------------------------------
(* Time, stuttering, and the whole.                                        *)

LEMMA ExpireSound ==
    ASSUME AccessInvariant, NEW i \in Invitations, Expire(i)
    PROVE  Sound
<1>1. /\ UNCHANGED <<member, granted, mailbox, operators, req>>
      /\ invitation[i] \in Records /\ invitation[i].state = "pending"
  BY DEF Expire, Pending, AccessInvariant, TypeOK
<1>2. PICK n \in Records : n = [invitation[i] EXCEPT !.state = "expired"]
  BY <1>1, Invitation DEF InvitationStates
<1>3. invitation' = [invitation EXCEPT ![i] = n]
  BY <1>2 DEF Expire
<1>4. /\ invitation' \in [Invitations -> Records \cup {NoInvitation}]
      /\ \A j \in Invitations : j # i => invitation'[j] = invitation[j]
  BY <1>3 DEF AccessInvariant, TypeOK
<1>5. Settles /\ SomebodyRemains' /\ RequestsHold' /\ \A r \in Requests : Authorised(r)
  BY <1>1, <1>4 DEF Settles, AccessInvariant, SomebodyRemains, IsOwner, Active,
       RequestsHold, RequestHolds, Authorised, Touches
<1> QED
  BY <1>1, <1>4, <1>5 DEF Sound, AccessInvariant, TypeOK

LEMMA StutterSound ==
    ASSUME AccessInvariant, UNCHANGED vars
    PROVE  Sound
  BY DEF Sound, AccessInvariant, TypeOK, SomebodyRemains, IsOwner, Active, RequestsHold,
       RequestHolds, Settles, Authorised, Touches, vars

LEMMA StepSound ==
    ASSUME AccessInvariant, [Next]_vars
    PROVE  Sound
  BY ReadsSound, InviteBatchSound, CloseSound, AcceptBatchSound, ChangeBatchSound,
     GrantsSound, OperatorsSound, ExpireSound, StutterSound DEF Next, Batch

LEMMA InitSound ==
    ASSUME Init
    PROVE  AccessInvariant
<1>1. PICK owners \in SUBSET Users, admins \in SUBSET Users :
        /\ owners # {} /\ owners \cap admins = {}
        /\ member = [u \in Users |->
             IF u \in owners THEN [role |-> "owner", status |-> "active"]
             ELSE IF u \in admins THEN [role |-> "admin", status |-> "active"]
             ELSE NoMember]
        /\ \E u \in Users \ (owners \cup admins) :
             invitation = [i \in Invitations |->
               IF i = 1 THEN [email |-> u, role |-> "member", state |-> "expired"]
               ELSE NoInvitation]
  BY DEF Init
<1>2. member \in [Users -> Memberships \cup {NoMember}]
  BY <1>1 DEF Memberships, Roles
<1>3. invitation \in [Invitations -> Records \cup {NoInvitation}]
  BY <1>1 DEF Records, Roles, InvitationStates
<1>4. /\ granted = {} /\ mailbox = FALSE /\ operators = Operators
      /\ req = [r \in Requests |-> Idle]
  BY DEF Init
<1>5. \E u \in Users : IsOwner(u)
  <2> PICK u \in owners : member[u] = [role |-> "owner", status |-> "active"]
    BY <1>1
  <2>1. [role |-> "owner", status |-> "active"] \in Memberships
    BY DEF Memberships, Roles
  <2> QED
    BY <2>1, NamesAssumption DEF IsOwner, Active
<1> QED
  BY <1>2, <1>3, <1>4, <1>5, IdleHolds, WorkspaceAssumption
     DEF AccessInvariant, TypeOK, SomebodyRemains, RequestsHold

-----------------------------------------------------------------------------
(* The theorems.                                                           *)

\* Rows and requests keep their shape, and a request that changes a membership knows
\* of one, and of its author's ownership where an admin is changed.
THEOREM AccessInvariantHolds == Spec => []AccessInvariant
<1>1. AccessInvariant /\ [Next]_vars => AccessInvariant'
  BY StepSound DEF Sound
<1> QED
  BY InitSound, <1>1, PTL DEF Spec

\* The workspace always has an active owner and the platform an administrator,
\* whatever requests cross: suspensions of members, and revocations of the
\* platform's role, find out in their own statement whether somebody remains.
THEOREM SomebodyRemainsHolds == Spec => []SomebodyRemains
<1>1. AccessInvariant => SomebodyRemains
  BY DEF AccessInvariant
<1> QED
  BY <1>1, AccessInvariantHolds, PTL

\* An accepted or revoked invitation never changes again, and nobody becomes a
\* member except by the invitation of the own address, with its role.
THEOREM InvitationsSettleHolds == Spec => InvitationsSettle
<1>1. AccessInvariant /\ [Next]_vars => [Settles]_vars
  BY StepSound DEF Sound
<1> QED
  BY <1>1, AccessInvariantHolds, PTL DEF Spec, InvitationsSettle, Settles

\* What a request of a manager writes, its author may still write at that moment;
\* and only owners make, unmake or invite admins.
THEOREM AuthorityIsCurrentHolds == Spec => AuthorityIsCurrent
<1>1. AccessInvariant /\ [Next]_vars => [\A r \in Requests : Authorised(r)]_vars
  BY StepSound DEF Sound
<1> QED
  BY <1>1, AccessInvariantHolds, PTL DEF Spec, AuthorityIsCurrent, Authorised

-----------------------------------------------------------------------------
(***************************************************************************)
(* What DomainVerification promises, for any number of requests, of rows   *)
(* of the name and of tokens.                                              *)
(***************************************************************************)
Rows == [status : {"pending", "legacy_unverified", "verified", "removed"},
         token : Nat, mailboxes : BOOLEAN]

TokenRows == [of : Nat, expired : BOOLEAN]

Checks == {"lookup", "verify"}

\* What a request keeps while it waits.
RequestStates ==
    {Quiet}
      \cup [step : {"renew", "latest", "mailbox", "remove"}, row : Nat]
      \cup [step : Checks, row : Nat, token : Nat, status : {"pending", "legacy_unverified"}]

\* The types of the variables.
DomainTypeOK ==
    /\ domains \in Seq(Rows) /\ Len(domains) > 0
    /\ tokens \in Seq(TokenRows)
    /\ zone \in [now : SUBSET Nat, ever : SUBSET Nat]
    /\ call \in [Calls -> RequestStates]

\* Tokens are made for rows there are; what was published was shown, and is a token.
References ==
    /\ \A t \in DOMAIN tokens : tokens[t].of \in DOMAIN domains
    /\ zone.now \subseteq zone.ever /\ zone.ever \subseteq seen /\ seen \subseteq DOMAIN tokens

\* A row names a token made for it.
TokenIsOfRow ==
    \A d \in DOMAIN domains :
        domains[d].token # NoToken =>
            domains[d].token \in DOMAIN tokens /\ tokens[domains[d].token].of = d

\* Of the tokens made for a row that is to be verified, only the one it names can
\* be in force.
OneInForce ==
    \A t \in DOMAIN tokens :
        InForce(t) /\ Unverified(tokens[t].of) => domains[tokens[t].of].token = t

\* A request is about a row there is.  One that verifies holds a token of its row,
\* and the status it read is the row's as long as the row is to be verified; when it
\* is about to write, that token was published.
DomainRequestHolds(x) ==
    /\ x # Quiet => x.row \in DOMAIN domains
    /\ x.step \in Checks =>
         /\ x.token \in DOMAIN tokens /\ tokens[x.token].of = x.row
         /\ Unverified(x.row) => domains[x.row].status = x.status
    /\ x.step = "verify" => x.token \in zone.ever

DomainRequestsHold == \A c \in Calls : DomainRequestHolds(call[c])

\* The invariant without the requests.
DomainsHold == References /\ TokenIsOfRow /\ OneInForce /\ VerifiedWasPublished

DomainInvariant == DomainTypeOK /\ DomainsHold /\ DomainRequestsHold

-----------------------------------------------------------------------------
(* Sequences and requests.                                                 *)

\* Replacing an element leaves the others and the length alone.
LEMMA Replaced ==
    ASSUME NEW S, NEW s \in Seq(S), NEW i \in DOMAIN s, NEW e \in S
    PROVE  LET n == [s EXCEPT ![i] = e]
           IN  /\ n \in Seq(S) /\ Len(n) = Len(s) /\ DOMAIN n = DOMAIN s
               /\ \A j \in DOMAIN s : n[j] = IF j = i THEN e ELSE s[j]
  OBVIOUS

\* Appending leaves what was there alone.
LEMMA Appended ==
    ASSUME NEW S, NEW s \in Seq(S), NEW e \in S
    PROVE  LET n == Append(s, e)
           IN  /\ n \in Seq(S) /\ Len(n) = Len(s) + 1
               /\ DOMAIN n = DOMAIN s \cup {Len(s) + 1}
               /\ n[Len(s) + 1] = e /\ \A j \in DOMAIN s : n[j] = s[j]
  OBVIOUS

\* An element of a sequence.
LEMMA Element ==
    ASSUME NEW S, NEW s \in Seq(S), NEW i \in DOMAIN s
    PROVE  s[i] \in S
  OBVIOUS

\* The columns of a row, and what an UPDATE of two of them makes of it.
LEMMA Columns ==
    ASSUME NEW r \in Rows
    PROVE  /\ r.status \in {"pending", "legacy_unverified", "verified", "removed"}
           /\ r.token \in Nat /\ r.mailboxes \in BOOLEAN
           /\ r = [status |-> r.status, token |-> r.token, mailboxes |-> r.mailboxes]
  BY DEF Rows

LEMMA Updated ==
    ASSUME NEW r \in Rows, NEW s, NEW t
    PROVE  [r EXCEPT !.status = s, !.token = t]
             = [status |-> s, token |-> t, mailboxes |-> r.mailboxes]
<1> PICK m : m = r.mailboxes
  OBVIOUS
<1> PICK q : q = [status |-> s, token |-> r.token, mailboxes |-> m]
  OBVIOUS
<1>1. r = [status |-> r.status, token |-> r.token, mailboxes |-> m]
  BY Columns
<1>2. [r EXCEPT !.status = s] = q
  BY <1>1
<1>3. [q EXCEPT !.token = t] = [status |-> s, token |-> t, mailboxes |-> m]
  OBVIOUS
<1> QED
  BY <1>2, <1>3, Zenon

\* The step of a request tells what it keeps.
LEMMA DomainRequestShape ==
    ASSUME NEW x \in RequestStates
    PROVE  /\ x.step \in {"renew", "latest", "mailbox", "remove"} =>
                x # Quiet /\ x = [step |-> x.step, row |-> x.row] /\ x.row \in Nat
           /\ x.step \in Checks =>
                /\ x # Quiet /\ x.row \in Nat /\ x.token \in Nat
                /\ x.status \in {"pending", "legacy_unverified"}
                /\ x = [step |-> x.step, row |-> x.row, token |-> x.token, status |-> x.status]
           /\ x.step \in {"quiet", "renew", "latest", "mailbox", "remove"} \cup Checks
           /\ x.step = "quiet" <=> x = Quiet
  BY DEF RequestStates, Quiet, Checks

-----------------------------------------------------------------------------
(* What each kind of change leaves true.                                   *)

\* Only the request that goes on has to be looked at again.
LEMMA DomainRequestGoesOn ==
    ASSUME DomainTypeOK, DomainRequestsHold, NEW c \in Calls, NEW y \in RequestStates,
           call' = [call EXCEPT ![c] = y],
           \A x \in RequestStates : DomainRequestHolds(x) => DomainRequestHolds(x)',
           DomainRequestHolds(y)'
    PROVE  DomainRequestsHold' /\ call' \in [Calls -> RequestStates]
<1>1. call \in [Calls -> RequestStates]
  BY DEF DomainTypeOK
<1>2. \A b \in Calls : call'[b] = IF b = c THEN y ELSE call[b]
  BY <1>1
<1>3. ASSUME NEW b \in Calls
      PROVE  DomainRequestHolds(call[b])'
  <2>1. CASE b = c
    BY <1>2, <2>1
  <2>2. CASE b # c
    <3>1. DomainRequestHolds(call[b])
      BY DEF DomainRequestsHold
    <3>2. call'[b] = call[b] /\ call[b] \in RequestStates
      BY <1>1, <1>2, <2>2
    <3> QED
      BY <3>1, <3>2 DEF DomainRequestHolds, Unverified
  <2> QED
    BY <2>1, <2>2
<1> QED
  BY <1>1, <1>3 DEF DomainRequestsHold

\* Nothing but requests changed, or what an administrator was shown.
LEMMA OnlyRequests ==
    ASSUME DomainTypeOK, DomainsHold, UNCHANGED <<domains, tokens, zone>>,
           seen \subseteq seen', seen' \subseteq DOMAIN tokens
    PROVE  DomainsHold' /\ \A x \in RequestStates : DomainRequestHolds(x) => DomainRequestHolds(x)'
<1>1. References'
  BY DEF References, DomainsHold
<1>2. TokenIsOfRow' /\ OneInForce' /\ VerifiedWasPublished'
  BY DEF TokenIsOfRow, OneInForce, VerifiedWasPublished, InForce, Unverified, DomainsHold
<1>3. \A x \in RequestStates : DomainRequestHolds(x) => DomainRequestHolds(x)'
  BY DEF DomainRequestHolds, Unverified
<1> QED
  BY <1>1, <1>2, <1>3 DEF DomainsHold

\* A row that changes keeps the invariant when it only moves on: as long as it is to
\* be verified it keeps its status, and its token unless that has expired; and it
\* is verified by a token of its own.
LEMMA RowMovesOn ==
    ASSUME DomainTypeOK, DomainsHold, NEW d \in DOMAIN domains, NEW e \in Rows,
           domains' = [domains EXCEPT ![d] = e], UNCHANGED <<tokens, seen, zone>>,
           e.token \in {NoToken, domains[d].token},
           e.status \in {"pending", "legacy_unverified"} =>
             /\ e.status = domains[d].status
             /\ e.token = domains[d].token \/ ~InForce(domains[d].token),
           e.status = "verified" =>
             domains[d].status = "verified" \/ \E t \in zone.ever : tokens[t].of = d
    PROVE  /\ domains' \in Seq(Rows) /\ Len(domains') > 0
           /\ DomainsHold' /\ \A x \in RequestStates : DomainRequestHolds(x) => DomainRequestHolds(x)'
<1>1. /\ domains \in Seq(Rows) /\ domains' \in Seq(Rows) /\ Len(domains') = Len(domains)
      /\ DOMAIN domains' = DOMAIN domains
      /\ \A b \in DOMAIN domains : domains'[b] = IF b = d THEN e ELSE domains[b]
  BY Replaced DEF DomainTypeOK
<1>2. References'
  BY <1>1 DEF References, DomainsHold
<1>3. TokenIsOfRow' /\ VerifiedWasPublished'
  BY <1>1 DEF TokenIsOfRow, VerifiedWasPublished, DomainsHold
<1>4. OneInForce'
  BY <1>1 DEF OneInForce, InForce, Unverified, References, DomainsHold
<1>5. \A x \in RequestStates : DomainRequestHolds(x) => DomainRequestHolds(x)'
  BY <1>1 DEF DomainRequestHolds, Unverified
<1> QED
  BY <1>1, <1>2, <1>3, <1>4, <1>5 DEF DomainTypeOK, DomainsHold

\* A token that expires is in force for nobody.
LEMMA TokenExpires ==
    ASSUME DomainTypeOK, DomainsHold, NEW t, ExpireToken(t)
    PROVE  /\ tokens' \in Seq(TokenRows)
           /\ DomainsHold' /\ \A x \in RequestStates : DomainRequestHolds(x) => DomainRequestHolds(x)'
<1> DEFINE e == [of |-> tokens[t].of, expired |-> TRUE]
<1>1. /\ t \in DOMAIN tokens /\ e \in TokenRows
      /\ tokens' = [tokens EXCEPT ![t] = e]
  <2>1. tokens[t] \in TokenRows /\ t \in DOMAIN tokens
    BY Element DEF ExpireToken, DomainTypeOK
  <2>2. e \in TokenRows
    BY <2>1 DEF TokenRows
  <2> QED
    BY <2>1, <2>2 DEF ExpireToken
<1>2. /\ tokens' \in Seq(TokenRows) /\ DOMAIN tokens' = DOMAIN tokens
      /\ \A u \in DOMAIN tokens : tokens'[u].of = tokens[u].of
      /\ \A u \in DOMAIN tokens : u # t => tokens'[u] = tokens[u]
      /\ tokens'[t].expired
  BY <1>1, Replaced DEF DomainTypeOK
<1>3. UNCHANGED <<domains, seen, zone>>
  BY DEF ExpireToken
<1>4. References' /\ TokenIsOfRow'
  BY <1>2, <1>3 DEF References, TokenIsOfRow, DomainsHold
<1>5. VerifiedWasPublished'
  BY <1>2, <1>3 DEF VerifiedWasPublished, References, DomainsHold
<1>6. OneInForce'
  BY <1>2, <1>3 DEF OneInForce, InForce, Unverified, DomainsHold
<1>7. \A x \in RequestStates : DomainRequestHolds(x) => DomainRequestHolds(x)'
  BY <1>2, <1>3 DEF DomainRequestHolds, Unverified
<1> QED
  BY <1>2, <1>4, <1>5, <1>6, <1>7 DEF DomainsHold
\* The row of a request that updates it is one of domains.
LEMMA RowOf ==
    ASSUME DomainTypeOK, DomainRequestsHold, NEW c \in Calls, call[c].step # "quiet"
    PROVE  /\ call[c] \in RequestStates /\ call[c].row \in DOMAIN domains
           /\ domains[call[c].row] \in Rows /\ DomainRequestHolds(call[c])
<1>1. call[c] \in RequestStates /\ DomainRequestHolds(call[c])
  BY DEF DomainTypeOK, DomainRequestsHold
<1>2. call[c].row \in DOMAIN domains
  BY <1>1, DomainRequestShape DEF DomainRequestHolds
<1> QED
  BY <1>1, <1>2, Element DEF DomainTypeOK

\* A request that is answered keeps nothing.
LEMMA QuietHolds == Quiet \in RequestStates /\ DomainRequestHolds(Quiet) /\ DomainRequestHolds(Quiet)'
  BY DEF RequestStates, DomainRequestHolds, Quiet, Checks

-----------------------------------------------------------------------------
(* The steps.                                                              *)

LEMMA StoreChallengeKeeps ==
    ASSUME DomainInvariant, NEW c \in Calls, StoreChallenge(c)
    PROVE  DomainInvariant'
<1> USE DEF DomainInvariant
<1> DEFINE d == call[c].row
           t == Len(tokens) + 1
<1>0. /\ call[c].step = "renew" /\ zone' = zone /\ d \in DOMAIN domains
      /\ domains[d] \in Rows /\ call[c] \in RequestStates
  BY RowOf DEF StoreChallenge
<1>1. CASE MayRenew(d)
  <2> DEFINE e == [status |-> domains[d].status, token |-> t,
                   mailboxes |-> domains[d].mailboxes]
             n == [of |-> d, expired |-> FALSE]
  <2>1. /\ tokens \in Seq(TokenRows) /\ domains \in Seq(Rows) /\ t \in Nat /\ d \in Nat
        /\ Len(tokens) \in Nat
    BY <1>0 DEF DomainTypeOK
  <2>2. e \in Rows /\ n \in TokenRows
    BY <1>0, <2>1 DEF Rows, TokenRows
  <2>3. [domains[d] EXCEPT !.token = t] = e
    BY <1>0 DEF Rows
  <2>4. /\ tokens' = Append(tokens, n) /\ domains' = [domains EXCEPT ![d] = e]
        /\ seen' = seen \cup {t} /\ call' = [call EXCEPT ![c] = Quiet]
    BY <1>1, <2>3 DEF StoreChallenge, End
  <2>5. /\ tokens' \in Seq(TokenRows) /\ DOMAIN tokens' = DOMAIN tokens \cup {t}
        /\ tokens'[t] = n /\ (\A u \in DOMAIN tokens : tokens'[u] = tokens[u])
        /\ t \notin DOMAIN tokens /\ t # NoToken
    BY <2>1, <2>2, <2>4, Appended DEF NoToken
  <2>6. /\ domains' \in Seq(Rows) /\ Len(domains') = Len(domains)
        /\ DOMAIN domains' = DOMAIN domains
        /\ \A b \in DOMAIN domains : domains'[b] = IF b = d THEN e ELSE domains[b]
    BY <1>0, <2>1, <2>2, <2>4, Replaced
  <2>7. /\ \A b \in DOMAIN domains : domains'[b].status = domains[b].status
        /\ \A b \in DOMAIN domains : b # d => domains'[b].token = domains[b].token
        /\ domains'[d].token = t /\ tokens'[t].of = d
    BY <1>0, <2>5, <2>6
  <2>8. References'
    BY <1>0, <2>4, <2>5, <2>6, <2>7 DEF References, DomainsHold
  <2>9. TokenIsOfRow'
    BY <1>0, <2>5, <2>6, <2>7 DEF TokenIsOfRow, DomainsHold
  <2>10. OneInForce'
    <3>1. ASSUME NEW u \in DOMAIN tokens, tokens[u].of = d
          PROVE  ~InForce(u)
      BY <1>1, <3>1 DEF MayRenew, OneInForce, DomainsHold
    <3>2. \A u \in DOMAIN tokens : InForce(u)' => InForce(u)
      BY <2>5 DEF InForce
    <3>3. \A b \in DOMAIN domains : Unverified(b)' => Unverified(b)
      BY <2>7 DEF Unverified
    <3> QED
      BY <2>5, <2>6, <2>7, <3>1, <3>2, <3>3 DEF OneInForce, References, DomainsHold
  <2>11. VerifiedWasPublished'
    BY <1>0, <2>5, <2>6, <2>7 DEF VerifiedWasPublished, References, DomainsHold
  <2>12. \A x \in RequestStates : DomainRequestHolds(x) => DomainRequestHolds(x)'
    <3> SUFFICES ASSUME NEW x \in RequestStates, DomainRequestHolds(x)
                 PROVE  DomainRequestHolds(x)'
      OBVIOUS
    <3>1. x.step \in Checks =>
            /\ x.token \in DOMAIN tokens' /\ tokens'[x.token].of = x.row
            /\ x # Quiet
      BY <2>5, DomainRequestShape DEF DomainRequestHolds
    <3>2. x # Quiet => /\ x.row \in DOMAIN domains'
                       /\ domains'[x.row].status = domains[x.row].status
      BY <2>6, <2>7 DEF DomainRequestHolds
    <3> QED
      BY <1>0, <3>1, <3>2 DEF DomainRequestHolds, Unverified
  <2>13. DomainRequestsHold' /\ call' \in [Calls -> RequestStates]
    BY <2>4, <2>12, QuietHolds, DomainRequestGoesOn
  <2> QED
    BY <1>0, <2>5, <2>6, <2>8, <2>9, <2>10, <2>11, <2>13 DEF DomainTypeOK, DomainsHold
<1>2. CASE ~MayRenew(d)
  <2> PICK y : y = [step |-> "latest", row |-> d]
    OBVIOUS
  <2>1. /\ call[c] = [step |-> "renew", row |-> d] /\ d \in Nat
    BY <1>0, DomainRequestShape
  <2>2. call' = [call EXCEPT ![c] = y] /\ UNCHANGED <<domains, tokens, seen, zone>>
    BY <1>0, <1>2, <2>1 DEF StoreChallenge
  <2>3. y \in RequestStates /\ DomainRequestHolds(y)'
    BY <1>0, <2>1, <2>2 DEF RequestStates, DomainRequestHolds, Checks
  <2>4. DomainsHold' /\ \A x \in RequestStates : DomainRequestHolds(x) => DomainRequestHolds(x)'
    BY <2>2, OnlyRequests DEF DomainsHold, References
  <2>5. DomainRequestsHold' /\ call' \in [Calls -> RequestStates]
    BY <2>2, <2>3, <2>4, DomainRequestGoesOn
  <2> QED
    BY <2>2, <2>4, <2>5 DEF DomainTypeOK
<1> QED
  BY <1>1, <1>2
\* A request that only reads goes on with what is true now.
LEMMA OnlyReads ==
    ASSUME DomainInvariant, NEW c \in Calls, NEW y \in RequestStates, DomainRequestHolds(y),
           call' = [call EXCEPT ![c] = y], UNCHANGED <<domains, tokens, zone>>,
           seen \subseteq seen', seen' \subseteq DOMAIN tokens
    PROVE  DomainInvariant'
<1> USE DEF DomainInvariant
<1>1. DomainsHold' /\ \A x \in RequestStates : DomainRequestHolds(x) => DomainRequestHolds(x)'
  BY OnlyRequests
<1>2. DomainRequestsHold' /\ call' \in [Calls -> RequestStates]
  BY <1>1, DomainRequestGoesOn
<1> QED
  BY <1>1, <1>2 DEF DomainTypeOK

\* What is shown is the token in force of a row, which is a token.
LEMMA ShownIsToken ==
    ASSUME DomainInvariant, NEW d \in DOMAIN domains, InForce(domains[d].token)
    PROVE  seen \cup {domains[d].token} \subseteq DOMAIN tokens
  BY DEF DomainInvariant, DomainsHold, TokenIsOfRow, References, InForce

LEMMA AskChallengeKeeps ==
    ASSUME DomainInvariant, NEW c \in Calls, NEW d \in DOMAIN domains, AskChallenge(c, d)
    PROVE  DomainInvariant'
<1>1. CASE InForce(domains[d].token)
  <2>1. /\ UNCHANGED <<domains, tokens, zone, call>>
        /\ seen \subseteq seen' /\ seen' \subseteq DOMAIN tokens
    BY <1>1, ShownIsToken DEF AskChallenge
  <2>2. DomainsHold' /\ \A x \in RequestStates : DomainRequestHolds(x) => DomainRequestHolds(x)'
    BY <2>1, OnlyRequests DEF DomainInvariant
  <2>3. DomainRequestsHold'
    BY <2>1, <2>2 DEF DomainInvariant, DomainTypeOK, DomainRequestsHold
  <2> QED
    BY <2>1, <2>2, <2>3 DEF DomainInvariant, DomainTypeOK
<1>2. CASE ~InForce(domains[d].token)
  <2> PICK y : y = [step |-> "renew", row |-> d]
    OBVIOUS
  <2>1. /\ UNCHANGED <<domains, tokens, seen, zone>> /\ call' = [call EXCEPT ![c] = y]
    BY <1>2 DEF AskChallenge, Begin
  <2>2. y \in RequestStates /\ DomainRequestHolds(y)
    BY DEF RequestStates, DomainRequestHolds, Checks, DomainInvariant, DomainTypeOK
  <2> QED
    BY <2>1, <2>2, OnlyReads DEF DomainInvariant, DomainsHold, References
<1> QED
  BY <1>1, <1>2

LEMMA ReadLatestKeeps ==
    ASSUME DomainInvariant, NEW c \in Calls, ReadLatest(c)
    PROVE  DomainInvariant'
<1>1. call[c].row \in DOMAIN domains
  BY RowOf DEF ReadLatest, DomainInvariant
<1>2. seen \subseteq seen' /\ seen' \subseteq DOMAIN tokens
  BY <1>1, ShownIsToken DEF ReadLatest, DomainInvariant, DomainsHold, References
<1> QED
  BY <1>2, QuietHolds, OnlyReads DEF ReadLatest, End

LEMMA ZoneKeeps ==
    ASSUME DomainInvariant, Clear \/ \E t : Publish(t)
    PROVE  DomainInvariant'
<1>1. /\ UNCHANGED <<domains, tokens, seen, call>>
      /\ zone' \in [now : SUBSET Nat, ever : SUBSET Nat]
      /\ zone.ever \subseteq zone'.ever /\ zone'.now \subseteq zone'.ever
      /\ zone'.ever \subseteq seen
  <2>1. zone \in [now : SUBSET Nat, ever : SUBSET Nat] /\ seen \subseteq Nat
    BY DEF DomainInvariant, DomainTypeOK, DomainsHold, References
  <2>2. CASE Clear
    BY <2>1, <2>2 DEF Clear, DomainInvariant, DomainsHold, References
  <2>3. CASE \E t : Publish(t)
    BY <2>1, <2>3 DEF Publish, DomainInvariant, DomainsHold, References
  <2> QED
    BY <2>2, <2>3
<1>2. References' /\ TokenIsOfRow' /\ OneInForce'
  BY <1>1 DEF DomainInvariant, DomainsHold, References, TokenIsOfRow, OneInForce, InForce,
              Unverified
<1>3. VerifiedWasPublished'
  BY <1>1 DEF DomainInvariant, DomainsHold, VerifiedWasPublished
<1>4. DomainRequestsHold'
  BY <1>1 DEF DomainInvariant, DomainRequestsHold, DomainRequestHolds, Unverified
<1> QED
  BY <1>1, <1>2, <1>3, <1>4 DEF DomainInvariant, DomainTypeOK, DomainsHold

LEMMA ExpireTokenKeeps ==
    ASSUME DomainInvariant, NEW t, ExpireToken(t)
    PROVE  DomainInvariant'
<1>1. /\ tokens' \in Seq(TokenRows) /\ DomainsHold'
      /\ \A x \in RequestStates : DomainRequestHolds(x) => DomainRequestHolds(x)'
  BY TokenExpires DEF DomainInvariant
<1>2. UNCHANGED <<domains, seen, zone, call>>
  BY DEF ExpireToken
<1>3. DomainRequestsHold'
  BY <1>1, <1>2 DEF DomainInvariant, DomainTypeOK, DomainRequestsHold
<1> QED
  BY <1>1, <1>2, <1>3 DEF DomainInvariant, DomainTypeOK

LEMMA AddDomainKeeps ==
    ASSUME DomainInvariant, AddDomain
    PROVE  DomainInvariant'
<1> DEFINE e == [status |-> "pending", token |-> NoToken, mailboxes |-> FALSE]
           d == Len(domains) + 1
<1>1. /\ domains' = Append(domains, e) /\ UNCHANGED <<tokens, seen, zone, call>>
      /\ e \in Rows /\ domains \in Seq(Rows)
  BY DEF AddDomain, Rows, NoToken, DomainInvariant, DomainTypeOK
<1>2. /\ domains' \in Seq(Rows) /\ Len(domains') > 0
      /\ DOMAIN domains' = DOMAIN domains \cup {d} /\ domains'[d] = e
      /\ \A b \in DOMAIN domains : domains'[b] = domains[b]
  <2>1. Len(domains) \in Nat
    BY <1>1
  <2> QED
    BY <1>1, <2>1, Appended
<1>3. References' /\ TokenIsOfRow'
  BY <1>1, <1>2 DEF DomainInvariant, DomainsHold, References, TokenIsOfRow
<1>4. OneInForce' /\ VerifiedWasPublished'
  BY <1>1, <1>2 DEF DomainInvariant, DomainsHold, References, OneInForce, InForce, Unverified,
                    VerifiedWasPublished
<1>5. DomainRequestsHold'
  BY <1>1, <1>2, DomainRequestShape
     DEF DomainInvariant, DomainTypeOK, DomainRequestsHold, DomainRequestHolds, Unverified, Quiet, Checks
<1> QED
  BY <1>1, <1>2, <1>3, <1>4, <1>5 DEF DomainInvariant, DomainTypeOK, DomainsHold
LEMMA AskKeeps ==
    ASSUME DomainInvariant, NEW c \in Calls, NEW d \in DOMAIN domains,
           AskVerify(c, d) \/ AskMailbox(c, d) \/ AskRemoval(c, d)
    PROVE  DomainInvariant'
<1>1. \E y \in RequestStates :
         DomainRequestHolds(y) /\ Begin(c, y) /\ UNCHANGED <<domains, tokens, seen, zone>>
  <2>1. /\ d \in Nat /\ domains[d] \in Rows /\ domains[d].token \in Nat
    BY Element, Columns DEF DomainInvariant, DomainTypeOK
  <2>2. CASE AskVerify(c, d)
    <3> PICK y : y = [step |-> "lookup", row |-> d, token |-> domains[d].token,
                      status |-> domains[d].status]
      OBVIOUS
    <3>1. y \in RequestStates
      BY <2>1, <2>2 DEF AskVerify, Unverified, RequestStates, Checks
    <3>2. domains[d].token \in DOMAIN tokens /\ tokens[domains[d].token].of = d
      BY <2>2 DEF AskVerify, InForce, DomainInvariant, DomainsHold, TokenIsOfRow
    <3>3. DomainRequestHolds(y)
      BY <3>2 DEF DomainRequestHolds
    <3> QED
      BY <2>2, <3>1, <3>3 DEF AskVerify
  <2>3. CASE AskMailbox(c, d)
    <3> PICK y : y = [step |-> "mailbox", row |-> d]
      OBVIOUS
    <3>1. y \in RequestStates /\ DomainRequestHolds(y)
      BY <2>1 DEF RequestStates, DomainRequestHolds, Checks
    <3> QED
      BY <2>3, <3>1 DEF AskMailbox
  <2>4. CASE AskRemoval(c, d)
    <3> PICK y : y = [step |-> "remove", row |-> d]
      OBVIOUS
    <3>1. y \in RequestStates /\ DomainRequestHolds(y)
      BY <2>1 DEF RequestStates, DomainRequestHolds, Checks
    <3> QED
      BY <2>4, <3>1 DEF AskRemoval
  <2> QED
    BY <2>2, <2>3, <2>4
<1> QED
  BY <1>1, OnlyReads DEF Begin, DomainInvariant, DomainsHold, References

LEMMA LookUpKeeps ==
    ASSUME DomainInvariant, NEW c \in Calls, LookUpRecord(c) \/ ResolverFails(c)
    PROVE  DomainInvariant'
<1>1. /\ call[c].step = "lookup" /\ call[c] \in RequestStates /\ DomainRequestHolds(call[c])
      /\ UNCHANGED <<domains, tokens, seen, zone>>
  BY RowOf DEF LookUpRecord, ResolverFails, DomainInvariant
<1>2. CASE End(c)
  BY <1>1, <1>2, QuietHolds, OnlyReads DEF End, DomainInvariant, DomainsHold, References
<1>3. CASE ~End(c)
  <2> PICK y : y = [call[c] EXCEPT !.step = "verify"]
    OBVIOUS
  <2>1. HasRecord(call[c].token) /\ call' = [call EXCEPT ![c] = y]
    BY <1>3 DEF LookUpRecord, ResolverFails
  <2>2. /\ y = [step |-> "verify", row |-> call[c].row, token |-> call[c].token,
                status |-> call[c].status]
        /\ call[c].row \in Nat /\ call[c].token \in Nat
        /\ call[c].status \in {"pending", "legacy_unverified"}
    BY <1>1, DomainRequestShape DEF Checks
  <2>3. y \in RequestStates
    BY <2>2 DEF RequestStates, Checks
  <2>4. DomainRequestHolds(y)
    BY <1>1, <2>1, <2>2, DomainRequestShape
       DEF DomainRequestHolds, HasRecord, Checks, DomainInvariant, DomainsHold, References
  <2> QED
    BY <1>1, <2>1, <2>3, <2>4, OnlyReads DEF DomainInvariant, DomainsHold, References
<1> QED
  BY <1>2, <1>3

\* A request that changes its row and ends.
LEMMA RowAnswered ==
    ASSUME DomainInvariant, NEW c \in Calls, End(c), UNCHANGED <<tokens, seen, zone>>,
           NEW d \in DOMAIN domains, NEW e \in Rows, domains' = [domains EXCEPT ![d] = e],
           e.token \in {NoToken, domains[d].token},
           e.status \in {"pending", "legacy_unverified"} =>
             /\ e.status = domains[d].status
             /\ e.token = domains[d].token \/ ~InForce(domains[d].token),
           e.status = "verified" =>
             domains[d].status = "verified" \/ \E t \in zone.ever : tokens[t].of = d
    PROVE  DomainInvariant'
<1>1. /\ domains' \in Seq(Rows) /\ Len(domains') > 0
      /\ DomainsHold' /\ \A x \in RequestStates : DomainRequestHolds(x) => DomainRequestHolds(x)'
  BY RowMovesOn DEF DomainInvariant
<1>2. DomainRequestsHold' /\ call' \in [Calls -> RequestStates]
  BY <1>1, QuietHolds, DomainRequestGoesOn DEF End, DomainInvariant
<1> QED
  BY <1>1, <1>2 DEF DomainInvariant, DomainTypeOK

LEMMA VerifyBatchKeeps ==
    ASSUME DomainInvariant, NEW c \in Calls, VerifyBatch(c)
    PROVE  DomainInvariant'
<1> DEFINE d == call[c].row
           token == IF domains[d].token = call[c].token THEN NoToken ELSE domains[d].token
           status == IF StillChallenged(c) THEN "verified" ELSE domains[d].status
<1>1. /\ call[c].step = "verify" /\ d \in DOMAIN domains /\ domains[d] \in Rows
      /\ DomainRequestHolds(call[c])
  BY RowOf DEF VerifyBatch, DomainInvariant
<1> PICK e : e = [status |-> status, token |-> token, mailboxes |-> domains[d].mailboxes]
  OBVIOUS
<1>2. e \in Rows
  BY <1>1 DEF Rows, NoToken
<1>3. [domains[d] EXCEPT !.status = status, !.token = token] = e
  BY <1>1, Updated
<1>4. /\ domains' = [domains EXCEPT ![d] = e] /\ End(c)
      /\ UNCHANGED <<tokens, seen, zone>>
  BY <1>3 DEF VerifyBatch
<1>5. e.status = "verified" =>
        domains[d].status = "verified" \/ \E t \in zone.ever : tokens[t].of = d
  BY <1>1 DEF DomainRequestHolds, Checks
<1>6. e.status \in {"pending", "legacy_unverified"} =>
        /\ e.status = domains[d].status
        /\ e.token = domains[d].token \/ ~InForce(domains[d].token)
  BY <1>1 DEF DomainRequestHolds, Checks, StillChallenged, Unverified
<1> QED
  BY <1>1, <1>2, <1>4, <1>5, <1>6, RowAnswered

LEMMA MailboxBatchKeeps ==
    ASSUME DomainInvariant, NEW c \in Calls, MailboxBatch(c)
    PROVE  DomainInvariant'
<1> DEFINE d == call[c].row
           mailboxes == domains[d].mailboxes \/ domains[d].status = "verified"
<1>1. d \in DOMAIN domains /\ domains[d] \in Rows
  BY RowOf DEF MailboxBatch, DomainInvariant
<1> PICK e : e = [status |-> domains[d].status, token |-> domains[d].token,
                  mailboxes |-> mailboxes]
  OBVIOUS
<1>2. e \in Rows
  BY <1>1 DEF Rows
<1>3. [domains[d] EXCEPT !.mailboxes = mailboxes] = e
  BY <1>1 DEF Rows
<1>4. /\ domains' = [domains EXCEPT ![d] = e] /\ End(c)
      /\ UNCHANGED <<tokens, seen, zone>>
  BY <1>3 DEF MailboxBatch
<1> QED
  BY <1>1, <1>2, <1>4, RowAnswered

LEMMA RemoveBatchKeeps ==
    ASSUME DomainInvariant, NEW c \in Calls, RemoveBatch(c)
    PROVE  DomainInvariant'
<1> DEFINE d == call[c].row
<1>1. d \in DOMAIN domains /\ domains[d] \in Rows
  BY RowOf DEF RemoveBatch, DomainInvariant
<1>2. CASE Removable(d)
  <2> PICK e : e = [status |-> "removed", token |-> NoToken,
                    mailboxes |-> domains[d].mailboxes]
    OBVIOUS
  <2>1. e \in Rows
    BY <1>1 DEF Rows, NoToken
  <2>2. [domains[d] EXCEPT !.status = "removed", !.token = NoToken] = e
    BY <1>1, Updated
  <2>3. /\ domains' = [domains EXCEPT ![d] = e] /\ End(c)
        /\ UNCHANGED <<tokens, seen, zone>>
    BY <1>2, <2>2 DEF RemoveBatch
  <2> QED
    BY <1>1, <2>1, <2>3, RowAnswered
<1>3. CASE ~Removable(d)
  <2>1. End(c) /\ UNCHANGED <<domains, tokens, seen, zone>>
    BY <1>3 DEF RemoveBatch
  <2> QED
    BY <2>1, QuietHolds, OnlyReads DEF End, DomainInvariant, DomainsHold, References
<1> QED
  BY <1>2, <1>3

LEMMA InitHolds == DomainsInit => DomainInvariant
<1> SUFFICES ASSUME DomainsInit PROVE DomainInvariant
  OBVIOUS
<1>1. PICK s \in {"pending", "legacy_unverified"} :
        domains = <<[status |-> s, token |-> NoToken, mailboxes |-> FALSE]>>
  BY DEF DomainsInit
<1>2. [status |-> s, token |-> NoToken, mailboxes |-> FALSE] \in Rows
  BY DEF Rows, NoToken
<1>3. /\ domains \in Seq(Rows) /\ Len(domains) = 1 /\ DOMAIN domains = {1}
      /\ domains[1].token = NoToken /\ domains[1].status # "verified"
  BY <1>1, <1>2
<1>4. /\ tokens = <<>> /\ seen = {} /\ zone = [now |-> {}, ever |-> {}]
      /\ call = [c \in Calls |-> Quiet] /\ \A c \in Calls : call[c] = Quiet
  BY DEF DomainsInit
<1>5. tokens \in Seq(TokenRows) /\ DOMAIN tokens = {}
  BY <1>4
<1>6. DomainTypeOK
  BY <1>3, <1>4, <1>5, QuietHolds DEF DomainTypeOK
<1>7. DomainsHold
  BY <1>3, <1>4, <1>5
     DEF DomainsHold, References, TokenIsOfRow, OneInForce, VerifiedWasPublished
<1>8. DomainRequestsHold
  BY <1>4, QuietHolds DEF DomainRequestsHold
<1> QED
  BY <1>6, <1>7, <1>8 DEF DomainInvariant

LEMMA NextKeeps == DomainInvariant /\ [DomainsNext]_domainVars => DomainInvariant'
<1> SUFFICES ASSUME DomainInvariant, [DomainsNext]_domainVars
             PROVE  DomainInvariant'
  OBVIOUS
<1>1. CASE AddDomain
  BY <1>1, AddDomainKeeps
<1>2. CASE Clear \/ \E t : Publish(t)
  BY <1>2, ZoneKeeps
<1>3. ASSUME NEW t, ExpireToken(t) PROVE DomainInvariant'
  BY <1>3, ExpireTokenKeeps
<1>4. ASSUME NEW c \in Calls, NEW d \in DOMAIN domains,
             AskChallenge(c, d) \/ AskVerify(c, d) \/ AskMailbox(c, d) \/ AskRemoval(c, d)
      PROVE  DomainInvariant'
  BY <1>4, AskChallengeKeeps, AskKeeps
<1>5. ASSUME NEW c \in Calls,
             StoreChallenge(c) \/ ReadLatest(c) \/ LookUpRecord(c) \/ ResolverFails(c)
      PROVE  DomainInvariant'
  BY <1>5, StoreChallengeKeeps, ReadLatestKeeps, LookUpKeeps
<1>6. ASSUME NEW c \in Calls, VerifyBatch(c) \/ MailboxBatch(c) \/ RemoveBatch(c)
      PROVE  DomainInvariant'
  BY <1>6, VerifyBatchKeeps, MailboxBatchKeeps, RemoveBatchKeeps
<1>7. CASE UNCHANGED domainVars
  <2>1. UNCHANGED <<domains, tokens, seen, zone, call>>
    BY <1>7 DEF domainVars
  <2>2. DomainsHold' /\ DomainRequestsHold'
    BY <2>1 DEF DomainInvariant, DomainsHold, References, TokenIsOfRow, OneInForce, InForce,
                Unverified, VerifiedWasPublished, DomainRequestsHold, DomainRequestHolds
  <2> QED
    BY <2>1, <2>2 DEF DomainInvariant, DomainTypeOK
<1> QED
  BY <1>1, <1>2, <1>3, <1>4, <1>5, <1>6, <1>7 DEF DomainsNext

-----------------------------------------------------------------------------
(* The theorems.                                                           *)

\* The invariant holds in every behaviour, for any number of requests, rows and
\* tokens: what each request of challenge.post.ts and verify.post.ts holds is about
\* a row there is, and only the token a row names can still verify it.
THEOREM DomainInvariantHolds == DomainsSpec => []DomainInvariant
  BY InitHolds, NextKeeps, PTL DEF DomainsSpec

\* A domain is verified by a token that was made for its row and published
\* (verify.post.ts:43-47, 64-73).
THEOREM VerifiedWasPublishedHolds == DomainsSpec => []VerifiedWasPublished
<1>1. DomainInvariant => VerifiedWasPublished
  BY DEF DomainInvariant, DomainsHold
<1> QED
  BY <1>1, DomainInvariantHolds, PTL

\* What an administrator was shown verifies the domain until it expires
\* (challenge.post.ts:38-90).
THEOREM ShownIsInForceHolds == DomainsSpec => []ShownIsInForce
<1>1. DomainInvariant => ShownIsInForce
  BY DEF DomainInvariant, DomainsHold, References, OneInForce, ShownIsInForce
<1> QED
  BY <1>1, DomainInvariantHolds, PTL
===============================================================================
