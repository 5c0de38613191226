------------------------------- MODULE SignIn -------------------------------
(***************************************************************************)
(* One account of Courrier and everything that proves who uses it: its     *)
(* password and the mails that reset it, its passkeys, its recovery codes, *)
(* the challenges of WebAuthn, the counters that slow guessing down, and   *)
(* the sealed cookies its browsers hold.  A cookie is never looked up: it  *)
(* carries the session version of the account and counts only while that   *)
(* version is the current one, so revoking is incrementing a number.       *)
(*                                                                         *)
(* A request reads the database, waits, and writes in one batch; requests  *)
(* of several browsers, of the mail link, of a second administrator and of *)
(* the operator's script interleave at those points, and any of them may   *)
(* stop half-way.                                                          *)
(***************************************************************************)
EXTENDS Naturals, FiniteSets

CONSTANTS
    Browsers,       \* the clients that hold a cookie of the account
    Requests,       \* the requests that can be under way together
    Passkeys,       \* the credentials the user's authenticators can make
    Tokens,         \* the password resets an hour allows (MAX_..._PER_HOUR)
    CodesPerSet,    \* recovery codes generated together (ten in the code)
    MaxFailures,    \* failures that lock a counter (MAX_MFA_FAILURES)
    MaxVersion,     \* bound: the session versions explored
    MaxSets,        \* bound: the sets of recovery codes explored
    MaxChallenges,  \* bound: the WebAuthn challenges explored
    NoSession       \* the cookie of a browser that is signed out

ASSUME SignInAssumption ==
    /\ CodesPerSet \in Nat \ {0}
    /\ MaxFailures \in Nat \ {0}
    /\ MaxVersion \in Nat
    /\ MaxSets \in Nat \ {0}
    /\ MaxChallenges \in Nat

VARIABLES
    platformAdmin,  \* whether platform_admins holds the account
    version,        \* users.session_version
    password,       \* which password password_credentials holds
    passkeys,       \* auth_passkeys
    codes,          \* auth_mfa_recovery_codes that are unused
    sets,           \* how many sets of recovery codes were generated
    challenges,     \* auth_webauthn_challenges
    issued,         \* how many challenges were issued
    reset,          \* auth_password_reset_tokens, with the mail that carries each
    attempts,       \* auth_login_attempts: the counters of logins and of factors
    cookie,         \* the cookie each browser holds
    req,            \* the requests under way
    stray           \* history: whether a refused request stored a factor

accountVars == <<version, password, passkeys, codes, sets>>
guardVars == <<challenges, issued, reset, attempts>>
vars == <<platformAdmin, accountVars, guardVars, cookie, req, stray>>

-----------------------------------------------------------------------------
(* The shape of the state.                                                 *)

\* How far a session has proved its user: it waits for a factor, the account
\* had none at login, a factor was accepted, or one was accepted recently.
Proofs == {"pending", "plain", "proved", "fresh"}

Sessions == [version : Nat, password : Nat, mfa : Proofs]

RecoveryCodes == (1..MaxSets) \X (1..CodesPerSet)

CodeSet(n) == {n} \X (1..CodesPerSet)

Purposes == {"register", "account_login", "step_up"}

Challenges == [id : Nat, version : Nat, purpose : Purposes]

Idle == [at |-> "idle"]

\* A request waits for the database at some point with what it remembers: the
\* browser it answers, the session it came with, and what it read, where it
\* needs them later.
Request(at, b, s, x) == [at |-> at, b |-> b, s |-> s, x |-> x]

Waiting ==
    [at : {"login", "rotation"}, b : Browsers, s : Sessions, x : {"-"}]
      \cup [at : {"code"}, b : Browsers, s : Sessions, x : RecoveryCodes]
      \cup [at : {"assertion", "attestation"}, b : Browsers, s : Sessions,
            x : Challenges]
      \cup [at : {"addition"}, b : Browsers, s : Sessions, x : BOOLEAN]
      \cup [at : {"removal", "last removal"}, b : {"-"}, s : Sessions, x : Passkeys]
      \cup [at : {"disabling"}, b : {"-"}, s : Sessions, x : {"-"}]
      \cup [at : {"confirm"}, b : Browsers, s : {"-"}, x : Tokens]
      \cup [at : {"recovery"}, b : {"-"}, s : {"-"}, x : Nat]
      \cup [at : {"erasing"}, b : {"-"}, s : {"-"},
            x : {"challenges", "codes", "passkeys"}]
      \cup [at : {"wrong"}, b : {"-"}, s : {"-"}, x : {"-"}]

TypeOK ==
    /\ platformAdmin \in BOOLEAN
    /\ version \in Nat /\ password \in Nat
    /\ passkeys \subseteq Passkeys
    /\ codes \subseteq RecoveryCodes
    /\ sets \in 0..MaxSets
    /\ challenges \subseteq Challenges
    /\ issued \in Nat
    /\ reset \in [Tokens -> {"none", "live", "dead"}]
    /\ attempts \in Nat
    /\ cookie \in [Browsers -> Sessions \cup {NoSession}]
    /\ req \in [Requests -> Waiting \cup {Idle}]
    /\ stray \in BOOLEAN

\* An account with any factors an earlier life can have left it.
Init ==
    /\ platformAdmin \in BOOLEAN
    /\ version = 1 /\ password = 1
    /\ passkeys \in SUBSET Passkeys
    /\ codes \in SUBSET CodeSet(1) /\ sets = 1
    /\ challenges = {} /\ issued = 0
    /\ reset = [t \in Tokens |-> "none"]
    /\ attempts = 0
    /\ cookie = [b \in Browsers |-> NoSession]
    /\ req = [r \in Requests |-> Idle]
    /\ stray = FALSE

-----------------------------------------------------------------------------
(* What every handler asks first, and the counters.                        *)

\* requireSessionIdentity: the version in the cookie is the account's.
Live(s) == s # NoSession /\ s.version = version

\* The same, of a session that does not wait for a factor.
SignedIn(s) == Live(s) /\ s.mfa # "pending"

HasFactor == passkeys # {} \/ codes # {}

\* requireFreshAccountMfa and, for an administrator, requirePlatformAdmin.
MayManageFactors(s) == SignedIn(s) /\ HasFactor /\ s.mfa = "fresh"

\* Failures of one window, counted by an atomic upsert; at the limit the counter
\* is locked for fifteen minutes.
OneMoreFailure == attempts' = attempts + 1

ForgetFailures == attempts' = 0

Locked == attempts >= MaxFailures

\* The window, and the lock if there is one, are over.
WindowEnds ==
    /\ attempts > 0
    /\ ForgetFailures
    /\ UNCHANGED <<platformAdmin, accountVars, challenges, issued, reset, cookie,
                   req, stray>>

Continue(r, at, x) == req' = [req EXCEPT ![r] = Request(at, req[r].b, req[r].s, x)]

Wrong == Request("wrong", "-", "-", "-")

Answer(r) == req' = [req EXCEPT ![r] = Idle]

\* The wrong secret of a factor is counted after it was tested.
CountWrongFactor(r) ==
    /\ req[r].at = "wrong"
    /\ OneMoreFailure
    /\ Answer(r)
    /\ UNCHANGED <<platformAdmin, accountVars, challenges, issued, reset, cookie,
                   stray>>

\* A session once a factor is accepted in it.
Proved(s) == [version |-> s.version, password |-> s.password, mfa |-> "fresh"]

\* markMfaVerified: the session the request came with, at version v, is proved.
\* Its answer reaches the browser or is lost on the way.
MarkMfaVerified(r, v) ==
    \/ cookie' = [cookie EXCEPT ![req[r].b] =
                    [version |-> v, password |-> req[r].s.password, mfa |-> "fresh"]]
    \/ UNCHANGED cookie

\* The half hour of a verification is over.
FreshnessEnds(b) ==
    /\ cookie[b] # NoSession /\ cookie[b].mfa = "fresh"
    /\ cookie' = [cookie EXCEPT ![b] = [version |-> cookie[b].version,
                     password |-> cookie[b].password, mfa |-> "proved"]]
    /\ UNCHANGED <<platformAdmin, accountVars, guardVars, req, stray>>

\* A worker or a connection is lost: what was written stays, the rest never is.
Lost(r) ==
    /\ req[r] # Idle
    /\ Answer(r)
    /\ UNCHANGED <<platformAdmin, accountVars, guardVars, cookie, stray>>

\* Another administrator makes the account one, whatever factors it has and
\* whatever its requests have read, or takes the role back.
Promoted ==
    /\ ~platformAdmin
    /\ platformAdmin' = TRUE
    /\ UNCHANGED <<accountVars, guardVars, cookie, req, stray>>

Demoted ==
    /\ platformAdmin
    /\ platformAdmin' = FALSE
    /\ UNCHANGED <<accountVars, guardVars, cookie, req, stray>>

-----------------------------------------------------------------------------
(* Login, logout, and the choice of a workspace.                           *)

\* The right password is given: it and the version are read together.  (Wrong
\* ones only feed the counters of logins, which have the form of attempts.)
LoginReads(r, b) ==
    /\ req[r] = Idle
    /\ req' = [req EXCEPT ![r] = Request("login", b,
                 [version |-> version, password |-> password, mfa |-> "plain"], "-")]
    /\ UNCHANGED <<platformAdmin, accountVars, guardVars, cookie, stray>>

\* The factors are counted afterwards.
LoginAnswers(r) ==
    /\ req[r].at = "login"
    /\ cookie' = [cookie EXCEPT ![req[r].b] =
                    [version |-> req[r].s.version, password |-> req[r].s.password,
                     mfa |-> IF HasFactor THEN "pending" ELSE "plain"]]
    /\ Answer(r)
    /\ UNCHANGED <<platformAdmin, accountVars, guardVars, stray>>

Logout(b) ==
    /\ cookie[b] # NoSession
    /\ cookie' = [cookie EXCEPT ![b] = NoSession]
    /\ UNCHANGED <<platformAdmin, accountVars, guardVars, req, stray>>

\* Another workspace: the cookie is written anew without its verification.
SwitchWorkspace(b) ==
    /\ SignedIn(cookie[b]) /\ cookie[b].mfa = "fresh"
    /\ cookie' = [cookie EXCEPT ![b] = [version |-> cookie[b].version,
                     password |-> cookie[b].password, mfa |-> "proved"]]
    /\ UNCHANGED <<platformAdmin, accountVars, guardVars, req, stray>>

-----------------------------------------------------------------------------
(* Reset of the password.                                                  *)

\* A token is stored, then its mail is handed over; the mail may be read before
\* the answer of the mail service is.
RequestReset(t) ==
    /\ reset[t] = "none"
    /\ reset' = [reset EXCEPT ![t] = "live"]
    /\ UNCHANGED <<platformAdmin, accountVars, challenges, issued, attempts,
                   cookie, req, stray>>

\* The hour is over, or the mail service answers with an error and the token,
\* if it is unused, is deleted.
ResetEnds(t) ==
    /\ reset[t] = "live"
    /\ reset' = [reset EXCEPT ![t] = "dead"]
    /\ UNCHANGED <<platformAdmin, accountVars, challenges, issued, attempts,
                   cookie, req, stray>>

ConfirmReads(r, b, t) ==
    /\ req[r] = Idle
    /\ reset[t] = "live"
    /\ req' = [req EXCEPT ![r] = Request("confirm", b, "-", t)]
    /\ UNCHANGED <<platformAdmin, accountVars, guardVars, cookie, stray>>

\* Mutant: the sessions are not revoked.
SameVersion == version

VersionAfterReset == version + 1

\* One batch: the token is used, the password replaced, every session revoked,
\* the other tokens deleted; nothing of it when the token is no longer usable.
\* A success also signs the browser out.
ConfirmBatch(r) ==
    /\ req[r].at = "confirm"
    /\ LET t == req[r].x
       IN  IF reset[t] = "live"
           THEN /\ version < MaxVersion
                /\ reset' = [u \in Tokens |->
                               IF reset[u] = "none" THEN "none" ELSE "dead"]
                /\ password' = password + 1
                /\ version' = VersionAfterReset
                /\ cookie' = [cookie EXCEPT ![req[r].b] = NoSession]
           ELSE UNCHANGED <<reset, password, version, cookie>>
    /\ Answer(r)
    /\ UNCHANGED <<platformAdmin, passkeys, codes, sets, challenges, issued,
                   attempts, stray>>

-----------------------------------------------------------------------------
(* Proving a factor.                                                       *)

Purpose(s) == IF s.mfa = "pending" THEN "account_login" ELSE "step_up"

\* A challenge is bound to the session version of the request and to its use.
Issue(s, purpose) ==
    /\ issued < MaxChallenges
    /\ issued' = issued + 1
    /\ challenges' = challenges \cup
         {[id |-> issued + 1, version |-> s.version, purpose |-> purpose]}

ChallengeExpires(c) ==
    /\ challenges' = challenges \ {c}
    /\ UNCHANGED <<platformAdmin, accountVars, issued, reset, attempts, cookie,
                   req, stray>>

AuthenticationOptions(b) ==
    /\ Live(cookie[b])
    /\ ~Locked
    /\ passkeys # {}
    /\ Issue(cookie[b], Purpose(cookie[b]))
    /\ UNCHANGED <<platformAdmin, accountVars, reset, attempts, cookie, req, stray>>

\* consumeWebAuthnChallenge reads the row of the attempt, then deletes it and
\* goes on only if the deletion found it.
ChallengeRead(r, b, purpose, at, s) ==
    \E c \in challenges :
        /\ c.version = version /\ c.purpose = purpose
        /\ req' = [req EXCEPT ![r] = Request(at, b, s, c)]

AssertionReads(r, b) ==
    /\ req[r] = Idle
    /\ Live(cookie[b])
    /\ ~Locked
    /\ ChallengeRead(r, b, Purpose(cookie[b]), "assertion", Proved(cookie[b]))
    /\ UNCHANGED <<platformAdmin, accountVars, guardVars, cookie, stray>>

\* Once the challenge is consumed, the authenticator has answered with a stored
\* passkey, whose counter is written, or with anything else.
AssertionConsumes(r) ==
    /\ req[r].at = "assertion"
    /\ challenges' = challenges \ {req[r].x}
    /\ \/ /\ req[r].x \in challenges /\ passkeys # {}
          /\ attempts' = 0
          /\ MarkMfaVerified(r, req[r].s.version)
          /\ Answer(r)
       \/ /\ req[r].x \in challenges
          /\ UNCHANGED <<attempts, cookie>>
          /\ req' = [req EXCEPT ![r] = Wrong]
       \/ /\ req[r].x \notin challenges
          /\ UNCHANGED <<attempts, cookie>>
          /\ Answer(r)
    /\ UNCHANGED <<platformAdmin, accountVars, issued, reset, stray>>

\* A recovery code of any set that was ever shown, or none of them.
CodeReads(r, b, c) ==
    /\ req[r] = Idle
    /\ Live(cookie[b])
    /\ ~Locked
    /\ c[1] <= sets
    /\ req' = [req EXCEPT ![r] =
                 IF c \in codes THEN Request("code", b, Proved(cookie[b]), c) ELSE Wrong]
    /\ UNCHANGED <<platformAdmin, accountVars, guardVars, cookie, stray>>

\* Mutant: the code that was read is taken without another look.
WasUnused(r) == TRUE

\* The UPDATE takes the code only WHERE used_at IS NULL.
StillUnused(r) == req[r].x \in codes

CodeUsed(r) ==
    /\ req[r].at = "code"
    /\ IF StillUnused(r)
       THEN /\ codes' = codes \ {req[r].x}
            /\ attempts' = 0
            /\ MarkMfaVerified(r, req[r].s.version)
            /\ Answer(r)
       ELSE /\ UNCHANGED <<codes, attempts, cookie>>
            /\ req' = [req EXCEPT ![r] = Wrong]
    /\ UNCHANGED <<platformAdmin, version, password, passkeys, sets, challenges,
                   issued, reset, stray>>

-----------------------------------------------------------------------------
(* Adding and removing factors.  The batches expect the session version    *)
(* their request began with; the statements after the first test only that *)
(* the version is the next one, whoever wrote it.                          *)

\* UPDATE users SET session_version = v + 1 WHERE session_version = v.
Bumps(r) == version = req[r].s.version

\* WHERE EXISTS (... session_version = v + 1), after that UPDATE.
NextVersion(r) == Bumps(r) \/ version = req[r].s.version + 1

\* Mutant: factors change without revoking the sessions.
KeepVersion(r) == UNCHANGED version

Bump(r) == version' = IF Bumps(r) THEN version + 1 ELSE version

\* The first factor asks for the password, another one for a fresh proof.
RegistrationOptions(b) ==
    /\ SignedIn(cookie[b])
    /\ ~Locked
    /\ HasFactor => cookie[b].mfa = "fresh"
    /\ Issue(cookie[b], "register")
    /\ UNCHANGED <<platformAdmin, accountVars, reset, attempts, cookie, req, stray>>

\* The password asked for the first factor is wrong.
RegistrationRefused(r, b) ==
    /\ req[r] = Idle
    /\ SignedIn(cookie[b])
    /\ ~Locked
    /\ ~HasFactor
    /\ req' = [req EXCEPT ![r] = Wrong]
    /\ UNCHANGED <<platformAdmin, accountVars, guardVars, cookie, stray>>

AttestationReads(r, b) ==
    /\ req[r] = Idle
    /\ SignedIn(cookie[b])
    /\ ChallengeRead(r, b, "register", "attestation", cookie[b])
    /\ UNCHANGED <<platformAdmin, accountVars, guardVars, cookie, stray>>

\* Once the challenge is consumed the factors are read: an account that has one
\* asks for a fresh proof, one without unused codes gets a set of them.
AttestationConsumes(r) ==
    /\ req[r].at = "attestation"
    /\ challenges' = challenges \ {req[r].x}
    /\ IF req[r].x \in challenges /\ (HasFactor => req[r].s.mfa = "fresh")
       THEN Continue(r, "addition", codes = {})
       ELSE Answer(r)
    /\ UNCHANGED <<platformAdmin, accountVars, issued, reset, attempts, cookie,
                   stray>>

Removing == {"removal", "last removal"}

\* The authenticator makes a credential anew: nobody can have asked to remove it.
Anew(p) == p \notin passkeys /\ \A q \in Requests : req[q].at \in Removing => req[q].x # p

\* The batch; a credential that exists already (a primary key) rolls it back.
AdditionBatch(r, p) ==
    /\ req[r].at = "addition"
    /\ Anew(p)
    /\ req[r].x => sets < MaxSets
    /\ Bumps(r) => version < MaxVersion
    /\ Bump(r)
    /\ IF NextVersion(r)
       THEN /\ passkeys' = passkeys \cup {p}
            /\ codes' = codes \cup (IF req[r].x THEN CodeSet(sets + 1) ELSE {})
            /\ sets' = IF req[r].x THEN sets + 1 ELSE sets
       ELSE UNCHANGED <<passkeys, codes, sets>>
    /\ stray' = (stray \/ (NextVersion(r) /\ ~Bumps(r)))
    /\ challenges' = {}
    /\ IF Bumps(r) THEN attempts' = 0 /\ MarkMfaVerified(r, version')
                   ELSE UNCHANGED <<attempts, cookie>>
    /\ Answer(r)
    /\ UNCHANGED <<platformAdmin, password, issued, reset>>

\* One passkey stays; a member with an unused code may remove the last one.
RemovalReads(r, b, p) ==
    /\ req[r] = Idle
    /\ MayManageFactors(cookie[b])
    /\ \/ /\ Cardinality(passkeys) > 1
          /\ req' = [req EXCEPT ![r] = Request("removal", "-", cookie[b], p)]
       \/ /\ Cardinality(passkeys) \leq 1 /\ ~platformAdmin /\ codes # {}
          /\ req' = [req EXCEPT ![r] = Request("last removal", "-", cookie[b], p)]
    /\ UNCHANGED <<platformAdmin, accountVars, guardVars, cookie, stray>>

\* Mutant: a removal that was counted stands whatever happened since.
RemovalOnceCounted(r) == req[r].x \in passkeys

RemovalStands(r) == Bumps(r) /\ req[r].x \in passkeys

\* Nothing in the batch asks again who is an administrator.
RemovalBatch(r) ==
    /\ req[r].at \in Removing
    /\ IF RemovalStands(r)
       THEN /\ Bumps(r) => version < MaxVersion
            /\ Bump(r)
            /\ passkeys' = passkeys \ {req[r].x}
       ELSE UNCHANGED <<passkeys, version>>
    /\ challenges' = {}
    /\ Answer(r)
    /\ UNCHANGED <<platformAdmin, password, codes, sets, issued, reset, attempts,
                   cookie, stray>>

DisablingReads(r, b) ==
    /\ req[r] = Idle
    /\ MayManageFactors(cookie[b]) /\ ~platformAdmin
    /\ req' = [req EXCEPT ![r] = Request("disabling", "-", cookie[b], "-")]
    /\ UNCHANGED <<platformAdmin, accountVars, guardVars, cookie, stray>>

DisablingBatch(r) ==
    /\ req[r].at = "disabling"
    /\ Bumps(r) => version < MaxVersion
    /\ Bump(r)
    /\ IF NextVersion(r)
       THEN passkeys' = {} /\ codes' = {} /\ challenges' = {}
       ELSE UNCHANGED <<passkeys, codes, challenges>>
    /\ Answer(r)
    /\ UNCHANGED <<platformAdmin, password, sets, issued, reset, attempts, cookie,
                   stray>>

RotationReads(r, b) ==
    /\ req[r] = Idle
    /\ MayManageFactors(cookie[b])
    /\ req' = [req EXCEPT ![r] = Request("rotation", b, cookie[b], "-")]
    /\ UNCHANGED <<platformAdmin, accountVars, guardVars, cookie, stray>>

RotationBatch(r) ==
    /\ req[r].at = "rotation"
    /\ sets < MaxSets
    /\ Bumps(r) => version < MaxVersion
    /\ Bump(r)
    /\ IF NextVersion(r)
       THEN codes' = CodeSet(sets + 1) /\ sets' = sets + 1
       ELSE UNCHANGED <<codes, sets>>
    /\ stray' = (stray \/ (NextVersion(r) /\ ~Bumps(r)))
    /\ IF Bumps(r) THEN MarkMfaVerified(r, version') ELSE UNCHANGED cookie
    /\ Answer(r)
    /\ UNCHANGED <<platformAdmin, password, passkeys, challenges, issued, reset,
                   attempts>>

-----------------------------------------------------------------------------
(* Recovery of an administrator: by another one, or by the operator.       *)

\* The version of the account is read; the batch tests it again, the role of the
\* account, and that the acting administrator still may, or changes nothing.
RecoveryReads(r) ==
    /\ req[r] = Idle
    /\ platformAdmin
    /\ req' = [req EXCEPT ![r] = Request("recovery", "-", "-", version)]
    /\ UNCHANGED <<platformAdmin, accountVars, guardVars, cookie, stray>>

RecoveryBatch(r) ==
    /\ req[r].at = "recovery"
    /\ IF platformAdmin /\ version = req[r].x
       THEN /\ version < MaxVersion
            /\ version' = version + 1
            /\ passkeys' = {} /\ codes' = {} /\ challenges' = {}
       ELSE UNCHANGED <<version, passkeys, codes, challenges>>
    /\ Answer(r)
    /\ UNCHANGED <<platformAdmin, password, sets, issued, reset, attempts, cookie,
                   stray>>

\* The script sends its statements one by one: the sessions are revoked, then the
\* challenges, the codes and the passkeys are deleted in this order.
OperatorRevokes(r) ==
    /\ req[r] = Idle
    /\ platformAdmin
    /\ version < MaxVersion
    /\ version' = version + 1
    /\ req' = [req EXCEPT ![r] = Request("erasing", "-", "-", "challenges")]
    /\ UNCHANGED <<platformAdmin, password, passkeys, codes, sets, guardVars,
                   cookie, stray>>

OperatorErases(r) ==
    /\ req[r].at = "erasing"
    /\ \/ /\ req[r].x = "challenges"
          /\ challenges' = {} /\ UNCHANGED <<passkeys, codes>>
          /\ Continue(r, "erasing", "codes")
       \/ /\ req[r].x = "codes"
          /\ codes' = {} /\ UNCHANGED <<passkeys, challenges>>
          /\ Continue(r, "erasing", "passkeys")
       \/ /\ req[r].x = "passkeys"
          /\ passkeys' = {} /\ UNCHANGED <<codes, challenges>>
          /\ Answer(r)
    /\ UNCHANGED <<platformAdmin, version, password, sets, issued, reset, attempts,
                   cookie, stray>>

-----------------------------------------------------------------------------
Next ==
    \/ WindowEnds \/ Promoted \/ Demoted
    \/ \E b \in Browsers :
         \/ FreshnessEnds(b) \/ Logout(b) \/ SwitchWorkspace(b)
         \/ AuthenticationOptions(b) \/ RegistrationOptions(b)
    \/ \E t \in Tokens :
         RequestReset(t) \/ ResetEnds(t)
    \/ \E c \in challenges : ChallengeExpires(c)
    \/ \E r \in Requests, b \in Browsers :
         \/ LoginReads(r, b)
         \/ \E t \in Tokens : ConfirmReads(r, b, t)
         \/ \E c \in RecoveryCodes : CodeReads(r, b, c)
         \/ \E p \in Passkeys : RemovalReads(r, b, p)
         \/ AssertionReads(r, b) \/ AttestationReads(r, b)
         \/ RegistrationRefused(r, b)
         \/ DisablingReads(r, b) \/ RotationReads(r, b)
    \/ \E r \in Requests :
         \/ Lost(r) \/ RecoveryReads(r) \/ CountWrongFactor(r)
         \/ LoginAnswers(r)
         \/ ConfirmBatch(r)
         \/ AssertionConsumes(r) \/ CodeUsed(r)
         \/ AttestationConsumes(r)
         \/ \E p \in Passkeys : AdditionBatch(r, p)
         \/ RemovalBatch(r) \/ DisablingBatch(r)
         \/ RotationBatch(r)
         \/ RecoveryBatch(r) \/ OperatorRevokes(r) \/ OperatorErases(r)

Spec == Init /\ [][Next]_vars

-----------------------------------------------------------------------------
(* Properties.                                                             *)

\* A session that counts was opened with the password the account has now:
\* a reset leaves no session of the old password behind, not even one whose
\* login, verification or enrolment was under way when it was confirmed.
LiveKnowsPassword ==
    \A b \in Browsers : Live(cookie[b]) => cookie[b].password = password

\* While the account has a factor, a session that is not waiting for one has
\* proved one, whatever was read before the factor was stored; unless a
\* refused request stored a factor without revoking the sessions.
MfaNotSkipped ==
    HasFactor /\ ~stray =>
        \A b \in Browsers : SignedIn(cookie[b]) => cookie[b].mfa # "plain"

\* A reset link, a recovery code and a challenge are accepted once, by
\* whichever of the requests that read it as unused comes first.
Unused ==
    ({"code"} \X codes) \cup ({"confirm"} \X {t \in Tokens : reset[t] = "live"})
      \cup ({"assertion", "attestation"} \X challenges)

Accepts(r) ==
    \/ req[r].at = "code" /\ req'[r] = Idle /\ (codes' # codes \/ cookie' # cookie)
    \/ /\ req[r].at = "assertion" /\ req'[r] # req[r]
       /\ cookie' # cookie \/ req'[r] = Wrong
    \/ req[r].at = "attestation" /\ req'[r].at = "addition"
    \/ req[r].at = "confirm" /\ req'[r] = Idle /\ password' # password

SecretUsedOnce ==
    [][ \A r \in Requests : Accepts(r) =>
          LET secret == <<req[r].at, req[r].x>>
          IN  secret \in Unused /\ secret \notin Unused' ]_vars

Recovers ==
    \E r \in Requests : req[r].at \in {"recovery", "erasing"} /\ req'[r] = Idle

\* A request that only a member may make, let through before the account was
\* promoted: a removal of the last passkey, or a disabling.
LetThroughAsMember ==
    \E r \in Requests : req[r].at \in {"last removal", "disabling"} /\ req'[r] = Idle

\* An administrator who has passkeys keeps one through any interleaving of
\* removals and enrolments; only a recovery takes the last one away, and a
\* request that a member made and a promotion overtook.
AdminKeepsPasskey ==
    [][ platformAdmin /\ passkeys # {} /\ passkeys' = {} =>
          Recovers \/ LetThroughAsMember ]_vars

=============================================================================
