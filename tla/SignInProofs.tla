---------------------------- MODULE SignInProofs ----------------------------
(***************************************************************************)
(* What SignIn promises of an account, for any number of browsers,         *)
(* requests, passkeys, tokens and recovery codes: what a live session      *)
(* proves, that a secret is taken once, and that an administrator keeps a  *)
(* passkey.                                                                *)
(***************************************************************************)
EXTENDS SignIn, FiniteSetTheorems, TLAPS

-----------------------------------------------------------------------------
(* Requests and cookies.                                                   *)

\* Where a request comes with a session, and whose answer sets a cookie.
Answering == {"login", "rotation", "code", "assertion", "attestation", "addition"}
Carrying == Answering \cup {"removal", "last removal", "disabling"}

\* The others come without one.
LEMMA NotCarrying ==
  /\ \A at \in {"idle", "wrong", "confirm", "recovery", "erasing"} :
       at \notin Carrying /\ at # "removal"
  /\ "addition" \in Carrying /\ "attestation" \in Carrying /\ "last removal" # "removal"
  /\ Answering \subseteq Carrying
<1>1. \A at \in {"idle", "wrong", "confirm", "recovery", "erasing"} : at \notin Answering
  BY DEF Answering
<1>2. \A at \in {"idle", "wrong", "confirm", "recovery", "erasing"} :
         at \notin {"removal", "last removal", "disabling"} /\ at # "removal"
  OBVIOUS
<1>3. "addition" \in Answering /\ "attestation" \in Answering
  BY DEF Answering
<1> QED
  BY <1>1, <1>2, <1>3 DEF Carrying

\* What a request that waits holds, by where it is.
LEMMA WaitingHolds ==
  ASSUME NEW w \in Waiting \cup {Idle}
  PROVE  /\ w.at \in Carrying => w.s \in Sessions /\ w # Idle
         /\ w.at \in Answering => w.b \in Browsers
         /\ w.at = "code" => w.x \in RecoveryCodes
         /\ w.at \in {"assertion", "attestation"} => w.x \in Challenges
         /\ w.at = "addition" => w.x \in BOOLEAN
         /\ w.at \in Removing => w.x \in Passkeys
         /\ w.at = "confirm" => w.b \in Browsers /\ w.x \in Tokens /\ w # Idle
         /\ w.at = "recovery" => w.x \in Nat /\ w # Idle
         /\ w.at = "erasing" => w.b = "-" /\ w.s = "-" /\ w # Idle
         /\ w.at = "wrong" => w # Idle
<1>1. CASE w = Idle
  BY <1>1 DEF Idle, Carrying, Answering, Removing
<1>2. CASE w \in Waiting
  <2>1. w.at \in Answering => w.s \in Sessions /\ w.b \in Browsers
    BY <1>2 DEF Waiting, Answering
  <2>3. w.at \in {"removal", "last removal", "disabling"} => w.s \in Sessions
    BY <1>2 DEF Waiting
  <2>4. w # Idle
    <3>1. w.at # "idle"
      BY <1>2 DEF Waiting
    <3> QED
      BY <3>1 DEF Idle
  <2>2. /\ w.at = "code" => w.x \in RecoveryCodes
        /\ w.at \in {"assertion", "attestation"} => w.x \in Challenges
        /\ w.at = "addition" => w.x \in BOOLEAN
        /\ w.at \in Removing => w.x \in Passkeys
        /\ w.at = "confirm" => w.b \in Browsers /\ w.x \in Tokens
        /\ w.at = "recovery" => w.x \in Nat
        /\ w.at = "erasing" => w.b = "-" /\ w.s = "-"
    BY <1>2 DEF Waiting, Removing
  <2> QED
    BY <2>1, <2>2, <2>3, <2>4 DEF Carrying
<1> QED
  BY <1>1, <1>2

\* The requests that handlers make.
LEMMA RequestsTyped ==
  /\ Wrong \in Waiting
  /\ \A n \in Nat : Request("recovery", "-", "-", n) \in Waiting
  /\ \A x \in {"challenges", "codes", "passkeys"} : Request("erasing", "-", "-", x) \in Waiting
  /\ \A b \in Browsers, t \in Tokens : Request("confirm", b, "-", t) \in Waiting
  /\ \A s \in Sessions :
       /\ Request("disabling", "-", s, "-") \in Waiting
       /\ \A p \in Passkeys : /\ Request("removal", "-", s, p) \in Waiting
                              /\ Request("last removal", "-", s, p) \in Waiting
       /\ \A b \in Browsers :
            /\ Request("login", b, s, "-") \in Waiting
            /\ Request("rotation", b, s, "-") \in Waiting
            /\ \A c \in RecoveryCodes : Request("code", b, s, c) \in Waiting
            /\ \A c \in Challenges : /\ Request("assertion", b, s, c) \in Waiting
                                     /\ Request("attestation", b, s, c) \in Waiting
            /\ \A x \in BOOLEAN : Request("addition", b, s, x) \in Waiting
<1>1. Wrong \in Waiting
  BY DEF Wrong, Request, Waiting
<1>2. \A n \in Nat : Request("recovery", "-", "-", n) \in Waiting
  BY DEF Request, Waiting
<1>3. \A x \in {"challenges", "codes", "passkeys"} : Request("erasing", "-", "-", x) \in Waiting
  BY DEF Request, Waiting
<1>4. \A b \in Browsers, t \in Tokens : Request("confirm", b, "-", t) \in Waiting
  BY DEF Request, Waiting
<1>5. ASSUME NEW s \in Sessions
      PROVE  /\ Request("disabling", "-", s, "-") \in Waiting
             /\ \A p \in Passkeys : /\ Request("removal", "-", s, p) \in Waiting
                                    /\ Request("last removal", "-", s, p) \in Waiting
  BY DEF Request, Waiting
<1>6. ASSUME NEW s \in Sessions, NEW b \in Browsers
      PROVE  /\ Request("login", b, s, "-") \in Waiting
             /\ Request("rotation", b, s, "-") \in Waiting
             /\ \A c \in RecoveryCodes : Request("code", b, s, c) \in Waiting
             /\ \A c \in Challenges : /\ Request("assertion", b, s, c) \in Waiting
                                      /\ Request("attestation", b, s, c) \in Waiting
             /\ \A x \in BOOLEAN : Request("addition", b, s, x) \in Waiting
  BY DEF Request, Waiting
<1> QED
  BY <1>1, <1>2, <1>3, <1>4, <1>5, <1>6

\* What a request was made of.
LEMMA RequestIs ==
  ASSUME NEW at, NEW b, NEW s, NEW x
  PROVE  /\ Request(at, b, s, x).at = at /\ Request(at, b, s, x).b = b
         /\ Request(at, b, s, x).s = s /\ Request(at, b, s, x).x = x
         /\ Wrong.at = "wrong" /\ Idle.at = "idle" /\ Wrong # Idle
  BY DEF Request, Wrong, Idle

\* Only the request that moves is elsewhere.
LEMMA Moved ==
  ASSUME TypeOK, NEW r \in Requests, NEW w \in Waiting \cup {Idle},
         req' = [req EXCEPT ![r] = w]
  PROVE  /\ req' \in [Requests -> Waiting \cup {Idle}]
         /\ req'[r] = w
         /\ \A q \in Requests \ {r} : req'[q] = req[q]
  BY DEF TypeOK

\* The sessions that handlers make of another.
LEMMA SessionsTyped ==
  ASSUME NEW s \in Sessions
  PROVE  /\ s.version \in Nat /\ s.password \in Nat /\ s.mfa \in Proofs
         /\ Proved(s) \in Sessions /\ Proved(s).version = s.version
         /\ Proved(s).password = s.password /\ Proved(s).mfa = "fresh"
         /\ \A v \in Nat, mfa \in Proofs :
              [version |-> v, password |-> s.password, mfa |-> mfa] \in Sessions
  BY DEF Sessions, Proved, Proofs

\* Only the browser that is answered has another cookie.
LEMMA Answered ==
  ASSUME TypeOK, NEW b \in Browsers, NEW s \in Sessions \cup {NoSession},
         cookie' = [cookie EXCEPT ![b] = s]
  PROVE  /\ cookie' \in [Browsers -> Sessions \cup {NoSession}]
         /\ cookie'[b] = s
         /\ \A c \in Browsers \ {b} : cookie'[c] = cookie[c]
  BY DEF TypeOK


-----------------------------------------------------------------------------
(* Types.                                                                  *)

\* What MarkMfaVerified leaves in the browsers.
LEMMA Marked ==
  ASSUME TypeOK, NEW r \in Requests, NEW v \in Nat, MarkMfaVerified(r, v),
         req[r].b \in Browsers, req[r].s \in Sessions
  PROVE  /\ cookie' \in [Browsers -> Sessions \cup {NoSession}]
         /\ \A b \in Browsers :
              \/ cookie'[b] = cookie[b]
              \/ cookie'[b] = [version |-> v, password |-> req[r].s.password, mfa |-> "fresh"]
<1> DEFINE s == [version |-> v, password |-> req[r].s.password, mfa |-> "fresh"]
<1>1. s \in Sessions
  BY SessionsTyped DEF Proofs
<1>2. CASE cookie' = [cookie EXCEPT ![req[r].b] = s]
  <2> HIDE DEF s
  <2>1. /\ cookie' \in [Browsers -> Sessions \cup {NoSession}]
        /\ \A b \in Browsers : cookie'[b] = cookie[b] \/ cookie'[b] = s
    BY <1>1, <1>2, Answered
  <2> QED
    BY <2>1 DEF s
<1>3. CASE UNCHANGED cookie
  BY <1>3 DEF TypeOK
<1> QED
  BY <1>2, <1>3 DEF MarkMfaVerified

LEMMA CodeSetTyped ==
  ASSUME NEW n \in 1..MaxSets PROVE CodeSet(n) \subseteq RecoveryCodes
  BY DEF CodeSet, RecoveryCodes

\* A challenge is issued to a live session.
LEMMA Issued ==
  ASSUME TypeOK, NEW s \in Sessions, NEW purpose \in Purposes, Issue(s, purpose)
  PROVE  issued' \in Nat /\ challenges' \subseteq Challenges
<1>1. [id |-> issued + 1, version |-> s.version, purpose |-> purpose] \in Challenges
  BY SessionsTyped DEF TypeOK, Challenges
<1> QED
  BY <1>1 DEF Issue, TypeOK

\* Steps that move no request.
LEMMA BrowsersTyped ==
  ASSUME SignInAssumption, TypeOK,
         \/ WindowEnds \/ Promoted \/ Demoted
         \/ \E b \in Browsers :
              \/ FreshnessEnds(b) \/ Logout(b) \/ SwitchWorkspace(b)
              \/ AuthenticationOptions(b) \/ RegistrationOptions(b)
         \/ \E t \in Tokens : RequestReset(t) \/ ResetEnds(t)
         \/ \E c \in challenges : ChallengeExpires(c)
  PROVE  TypeOK'
<1> USE DEF accountVars, guardVars
<1>1. CASE WindowEnds \/ (\E c \in challenges : ChallengeExpires(c))
  BY <1>1 DEF WindowEnds, ForgetFailures, ChallengeExpires, TypeOK
<1>5. CASE Promoted \/ Demoted
  BY <1>5 DEF Promoted, Demoted, TypeOK
<1>2. CASE \E t \in Tokens : RequestReset(t) \/ ResetEnds(t)
  BY <1>2 DEF RequestReset, ResetEnds, TypeOK
<1>3. ASSUME NEW b \in Browsers, AuthenticationOptions(b) \/ RegistrationOptions(b)
      PROVE  TypeOK'
  <2>1. PICK purpose \in Purposes : Issue(cookie[b], purpose)
    BY <1>3 DEF AuthenticationOptions, RegistrationOptions, Purpose, Purposes
  <2>2. cookie[b] \in Sessions
    BY <1>3 DEF AuthenticationOptions, RegistrationOptions, SignedIn, Live, TypeOK
  <2>3. issued' \in Nat /\ challenges' \subseteq Challenges
    BY <2>1, <2>2, Issued
  <2> QED
    BY <1>3, <2>3 DEF AuthenticationOptions, RegistrationOptions, TypeOK
<1>4. ASSUME NEW b \in Browsers, FreshnessEnds(b) \/ Logout(b) \/ SwitchWorkspace(b)
      PROVE  TypeOK'
  <2>1. PICK s \in Sessions \cup {NoSession} : cookie' = [cookie EXCEPT ![b] = s]
    <3>1. CASE Logout(b)
      BY <3>1 DEF Logout
    <3>2. CASE FreshnessEnds(b) \/ SwitchWorkspace(b)
      <4>1. cookie[b] \in Sessions /\ "proved" \in Proofs
        BY <3>2 DEF FreshnessEnds, SwitchWorkspace, SignedIn, Live, TypeOK, Proofs
      <4>2. [version |-> cookie[b].version, password |-> cookie[b].password, mfa |-> "proved"]
              \in Sessions
        BY <4>1, SessionsTyped
      <4> QED
        BY <3>2, <4>2 DEF FreshnessEnds, SwitchWorkspace
    <3> QED
      BY <1>4, <3>1, <3>2
  <2>2. cookie' \in [Browsers -> Sessions \cup {NoSession}]
    BY <2>1, Answered
  <2> QED
    BY <1>4, <2>2 DEF FreshnessEnds, Logout, SwitchWorkspace, TypeOK
<1> QED
  BY <1>1, <1>2, <1>3, <1>4, <1>5

\* A request that begins or is lost remembers what it should.
Began ==
  \/ \E r \in Requests, b \in Browsers :
         \/ LoginReads(r, b)
         \/ \E t \in Tokens : ConfirmReads(r, b, t)
         \/ \E c \in RecoveryCodes : CodeReads(r, b, c)
         \/ \E p \in Passkeys : RemovalReads(r, b, p)
         \/ AssertionReads(r, b) \/ AttestationReads(r, b)
         \/ RegistrationRefused(r, b)
         \/ DisablingReads(r, b) \/ RotationReads(r, b)
  \/ \E r \in Requests : Lost(r) \/ RecoveryReads(r)

\* It changes nothing else.
LEMMA OnlyBegins ==
  ASSUME Began
  PROVE  /\ UNCHANGED <<platformAdmin, accountVars, guardVars, cookie, stray>>
         /\ \/ \E r \in Requests : Lost(r)
            \/ \E r \in Requests : req[r] = Idle /\ \E w : req' = [req EXCEPT ![r] = w]
<1>1. ASSUME NEW r \in Requests, NEW b \in Browsers,
             \/ LoginReads(r, b) \/ AssertionReads(r, b) \/ AttestationReads(r, b)
             \/ \E c \in RecoveryCodes : CodeReads(r, b, c)
      PROVE  /\ UNCHANGED <<platformAdmin, accountVars, guardVars, cookie, stray>>
             /\ req[r] = Idle /\ \E w : req' = [req EXCEPT ![r] = w]
  BY <1>1 DEF LoginReads, AssertionReads, AttestationReads, ChallengeRead, CodeReads
<1>2. ASSUME NEW r \in Requests, NEW b \in Browsers,
             \/ \E t \in Tokens : ConfirmReads(r, b, t)
             \/ \E p \in Passkeys : RemovalReads(r, b, p)
             \/ RegistrationRefused(r, b) \/ DisablingReads(r, b) \/ RotationReads(r, b)
      PROVE  /\ UNCHANGED <<platformAdmin, accountVars, guardVars, cookie, stray>>
             /\ req[r] = Idle /\ \E w : req' = [req EXCEPT ![r] = w]
  BY <1>2 DEF ConfirmReads, RemovalReads, RegistrationRefused, DisablingReads, RotationReads
<1>3. ASSUME NEW r \in Requests, Lost(r) \/ RecoveryReads(r)
      PROVE  /\ UNCHANGED <<platformAdmin, accountVars, guardVars, cookie, stray>>
             /\ Lost(r) \/ (req[r] = Idle /\ \E w : req' = [req EXCEPT ![r] = w])
  BY <1>3 DEF Lost, RecoveryReads
<1> QED
  BY <1>1, <1>2, <1>3, ZenonT(60) DEF Began

LEMMA BeginningsTyped ==
  ASSUME SignInAssumption, TypeOK, Began
  PROVE  TypeOK'
<1>1. UNCHANGED <<platformAdmin, accountVars, guardVars, cookie, stray>>
  BY OnlyBegins
<1>2. ASSUME NEW b \in Browsers, Live(cookie[b]) PROVE cookie[b] \in Sessions
  BY <1>2 DEF Live, TypeOK
<1>3. ASSUME NEW r \in Requests, NEW b \in Browsers, NEW s \in Sessions,
             NEW purpose, NEW at \in {"assertion", "attestation"},
             ChallengeRead(r, b, purpose, at, s)
      PROVE  \E w \in Waiting \cup {Idle} : req' = [req EXCEPT ![r] = w]
  BY <1>3, RequestsTyped DEF ChallengeRead, TypeOK
<1>4. ASSUME NEW r \in Requests, NEW b \in Browsers,
             AssertionReads(r, b) \/ AttestationReads(r, b)
      PROVE  \E w \in Waiting \cup {Idle} : req' = [req EXCEPT ![r] = w]
  <2>1. cookie[b] \in Sessions /\ Proved(cookie[b]) \in Sessions
    BY <1>2, <1>4, SessionsTyped DEF AssertionReads, AttestationReads, SignedIn
  <2> QED
    BY <1>3, <1>4, <2>1 DEF AssertionReads, AttestationReads
<1>5. ASSUME NEW r \in Requests, NEW b \in Browsers, NEW c \in RecoveryCodes, CodeReads(r, b, c)
      PROVE  \E w \in Waiting \cup {Idle} : req' = [req EXCEPT ![r] = w]
  <2>1. Proved(cookie[b]) \in Sessions
    BY <1>2, <1>5, SessionsTyped DEF CodeReads
  <2> QED
    BY <1>5, <2>1, RequestsTyped DEF CodeReads
<1>6. ASSUME NEW r \in Requests, NEW b \in Browsers, LoginReads(r, b)
      PROVE  \E w \in Waiting \cup {Idle} : req' = [req EXCEPT ![r] = w]
  <2>1. [version |-> version, password |-> password, mfa |-> "plain"] \in Sessions
    BY DEF Sessions, TypeOK, Proofs
  <2> QED
    BY <1>6, <2>1, RequestsTyped DEF LoginReads
<1>7. ASSUME NEW r \in Requests, NEW b \in Browsers,
             \/ \E t \in Tokens : ConfirmReads(r, b, t)
             \/ \E p \in Passkeys : RemovalReads(r, b, p)
             \/ RegistrationRefused(r, b) \/ DisablingReads(r, b) \/ RotationReads(r, b)
      PROVE  \E w \in Waiting \cup {Idle} : req' = [req EXCEPT ![r] = w]
  BY <1>2, <1>7, RequestsTyped
     DEF ConfirmReads, RemovalReads, RegistrationRefused, DisablingReads, RotationReads,
         MayManageFactors, SignedIn
<1>8. ASSUME NEW r \in Requests, Lost(r) \/ RecoveryReads(r)
      PROVE  \E w \in Waiting \cup {Idle} : req' = [req EXCEPT ![r] = w]
  BY <1>8, RequestsTyped DEF Lost, RecoveryReads, Answer, TypeOK
<1>9. \E r \in Requests : \E w \in Waiting \cup {Idle} : req' = [req EXCEPT ![r] = w]
  BY <1>4, <1>5, <1>6, <1>7, <1>8 DEF Began
<1> QED
  BY <1>1, <1>9, Moved DEF TypeOK, accountVars, guardVars


\* Steps of a request that go on or end it.
Went(r) ==
  \/ CountWrongFactor(r)
  \/ LoginAnswers(r)
  \/ ConfirmBatch(r)
  \/ AssertionConsumes(r) \/ CodeUsed(r)
  \/ AttestationConsumes(r)
  \/ \E p \in Passkeys : AdditionBatch(r, p)
  \/ RemovalBatch(r) \/ DisablingBatch(r)
  \/ RotationBatch(r)
  \/ RecoveryBatch(r) \/ OperatorRevokes(r) \/ OperatorErases(r)

\* What a request that goes on may become.
Becomes(r) ==
  \/ req' = [req EXCEPT ![r] = Idle]
  \/ req' = [req EXCEPT ![r] = Wrong]
  \/ \E x \in {"challenges", "codes", "passkeys"} :
       req' = [req EXCEPT ![r] = Request("erasing", "-", "-", x)]
  \/ /\ req[r].at = "attestation"
     /\ \E x \in BOOLEAN : req' = [req EXCEPT ![r] = Request("addition", req[r].b, req[r].s, x)]

LEMMA GoingOn ==
  ASSUME TypeOK, NEW r \in Requests, Went(r)
  PROVE  Becomes(r) /\ req[r] \in Waiting \cup {Idle}
<1>1. req[r] \in Waiting \cup {Idle}
  BY DEF TypeOK
<1>2. CASE AttestationConsumes(r)
  <2>1. PICK x \in BOOLEAN : x = (codes = {})
    OBVIOUS
  <2> QED
    BY <1>1, <1>2, <2>1 DEF AttestationConsumes, Continue, Answer, Becomes
<1>3. CASE OperatorErases(r) \/ OperatorRevokes(r)
  BY <1>1, <1>3, WaitingHolds DEF OperatorErases, OperatorRevokes, Continue, Answer, Becomes
<1>4. CASE \/ CountWrongFactor(r) \/ LoginAnswers(r) \/ ConfirmBatch(r)
           \/ AssertionConsumes(r) \/ CodeUsed(r)
  BY <1>1, <1>4 DEF CountWrongFactor, LoginAnswers, ConfirmBatch, AssertionConsumes, CodeUsed,
       Answer, Becomes
<1>5. CASE \/ \E p \in Passkeys : AdditionBatch(r, p)
           \/ RemovalBatch(r) \/ DisablingBatch(r) \/ RotationBatch(r) \/ RecoveryBatch(r)
  BY <1>1, <1>5 DEF AdditionBatch, RemovalBatch, DisablingBatch, RotationBatch, RecoveryBatch,
       Answer, Becomes
<1> QED
  BY <1>2, <1>3, <1>4, <1>5 DEF Went

LEMMA GoingOnTyped ==
  ASSUME SignInAssumption, TypeOK, NEW r \in Requests, Went(r)
  PROVE  TypeOK'
<1>1. req' \in [Requests -> Waiting \cup {Idle}] /\ req[r] \in Waiting \cup {Idle}
  <2>1. PICK w \in Waiting \cup {Idle} : req' = [req EXCEPT ![r] = w]
    <3>1. CASE req[r].at = "attestation"
      BY <3>1, GoingOn, WaitingHolds, RequestsTyped DEF Becomes, Carrying, Answering
    <3>2. CASE req[r].at # "attestation"
      BY <3>2, GoingOn, RequestsTyped DEF Becomes
    <3> QED
      BY <3>1, <3>2
  <2> QED
    BY <2>1, Moved, GoingOn
<1>2. version + 1 \in Nat /\ password + 1 \in Nat /\ attempts + 1 \in Nat /\ 0 \in Nat
  BY DEF TypeOK
<1>3. CASE CountWrongFactor(r)
  BY <1>1, <1>2, <1>3 DEF CountWrongFactor, OneMoreFailure, accountVars, TypeOK
<1>4. CASE LoginAnswers(r)
  <2>1. req[r].b \in Browsers /\ req[r].s \in Sessions
    BY <1>1, <1>4, WaitingHolds DEF LoginAnswers, Carrying, Answering
  <2>2. PICK mfa \in Proofs : cookie' = [cookie EXCEPT ![req[r].b] =
            [version |-> req[r].s.version, password |-> req[r].s.password, mfa |-> mfa]]
    BY <1>4 DEF LoginAnswers, Proofs
  <2>3. [version |-> req[r].s.version, password |-> req[r].s.password, mfa |-> mfa] \in Sessions
    BY <2>1, SessionsTyped
  <2>4. PICK s \in Sessions : cookie' = [cookie EXCEPT ![req[r].b] = s]
    BY <2>2, <2>3
  <2>5. cookie' \in [Browsers -> Sessions \cup {NoSession}]
    BY <2>1, <2>4, Answered
  <2> QED
    BY <1>1, <1>4, <2>5 DEF LoginAnswers, accountVars, guardVars, TypeOK
<1>5. CASE ConfirmBatch(r)
  <2>1. req[r].b \in Browsers
    BY <1>1, <1>5, WaitingHolds DEF ConfirmBatch
  <2>2. cookie' \in [Browsers -> Sessions \cup {NoSession}]
    BY <1>5, <2>1, Answered DEF ConfirmBatch, TypeOK
  <2>3. reset' \in [Tokens -> {"none", "live", "dead"}] /\ version' \in Nat /\ password' \in Nat
    BY <1>2, <1>5 DEF ConfirmBatch, VersionAfterReset, TypeOK
  <2> QED
    BY <1>1, <1>5, <2>2, <2>3 DEF ConfirmBatch, TypeOK
<1>6. CASE AssertionConsumes(r) \/ CodeUsed(r)
  <2>1. req[r].b \in Browsers /\ req[r].s \in Sessions /\ req[r].s.version \in Nat
    BY <1>1, <1>6, WaitingHolds, SessionsTyped
       DEF AssertionConsumes, CodeUsed, Carrying, Answering
  <2>2. cookie' \in [Browsers -> Sessions \cup {NoSession}]
    <3>1. MarkMfaVerified(r, req[r].s.version) \/ UNCHANGED cookie
      BY <1>6 DEF AssertionConsumes, CodeUsed
    <3> QED
      BY <2>1, <3>1, Marked DEF TypeOK
  <2>3. codes' \subseteq RecoveryCodes /\ challenges' \subseteq Challenges /\ attempts' \in Nat
    BY <1>2, <1>6 DEF AssertionConsumes, CodeUsed, accountVars, TypeOK
  <2>4. UNCHANGED <<platformAdmin, version, password, passkeys, sets, issued, reset, stray>>
    BY <1>6 DEF AssertionConsumes, CodeUsed, accountVars
  <2> QED
    BY <1>1, <2>2, <2>3, <2>4 DEF TypeOK
<1>7. CASE AttestationConsumes(r)
  BY <1>1, <1>7 DEF AttestationConsumes, accountVars, TypeOK
<1>8. ASSUME NEW p \in Passkeys, AdditionBatch(r, p)
      PROVE  TypeOK'
  <2>1. req[r].b \in Browsers /\ req[r].s \in Sessions
    BY <1>1, <1>8, WaitingHolds DEF AdditionBatch, Carrying, Answering
  <2>2. version' \in Nat
    BY <1>2, <1>8 DEF AdditionBatch, Bump, TypeOK
  <2>3. cookie' \in [Browsers -> Sessions \cup {NoSession}] /\ attempts' \in Nat
    <3>1. (MarkMfaVerified(r, version') /\ attempts' = 0) \/ UNCHANGED <<attempts, cookie>>
      BY <1>8 DEF AdditionBatch
    <3> QED
      BY <1>2, <2>1, <2>2, <3>1, Marked DEF TypeOK
  <2>4. sets' \in 0..MaxSets /\ codes' \subseteq RecoveryCodes
    <3>1. sets' = sets \/ (sets < MaxSets /\ sets' = sets + 1)
      BY <1>8 DEF AdditionBatch
    <3>2. codes' = codes \/ (sets < MaxSets /\ codes' = codes \cup CodeSet(sets + 1))
      BY <1>8 DEF AdditionBatch
    <3>3. sets < MaxSets => sets + 1 \in 1..MaxSets
      BY DEF TypeOK, SignInAssumption
    <3> QED
      BY <3>1, <3>2, <3>3, CodeSetTyped DEF TypeOK
  <2>5. passkeys' \subseteq Passkeys /\ challenges' = {} /\ stray' \in BOOLEAN
    BY <1>8 DEF AdditionBatch, TypeOK
  <2> QED
    BY <1>1, <1>8, <2>2, <2>3, <2>4, <2>5 DEF AdditionBatch, TypeOK
<1>9. CASE RemovalBatch(r)
  BY <1>1, <1>2, <1>9 DEF RemovalBatch, Bump, TypeOK
<1>10. CASE DisablingBatch(r)
  BY <1>1, <1>2, <1>10 DEF DisablingBatch, Bump, TypeOK
<1>11. CASE RotationBatch(r)
  <2>1. req[r].b \in Browsers /\ req[r].s \in Sessions
    BY <1>1, <1>11, WaitingHolds DEF RotationBatch, Carrying, Answering
  <2>2. version' \in Nat /\ stray' \in BOOLEAN
    BY <1>2, <1>11 DEF RotationBatch, Bump, TypeOK
  <2>3. cookie' \in [Browsers -> Sessions \cup {NoSession}]
    <3>1. MarkMfaVerified(r, version') \/ UNCHANGED cookie
      BY <1>11 DEF RotationBatch
    <3> QED
      BY <2>1, <2>2, <3>1, Marked DEF TypeOK
  <2>4. sets + 1 \in 1..MaxSets
    BY <1>11 DEF RotationBatch, TypeOK, SignInAssumption
  <2>5. sets' \in 0..MaxSets /\ codes' \subseteq RecoveryCodes
    BY <1>11, <2>4, CodeSetTyped DEF RotationBatch, TypeOK
  <2> QED
    BY <1>1, <1>11, <2>2, <2>3, <2>5 DEF RotationBatch, TypeOK
<1>12. CASE RecoveryBatch(r) \/ OperatorRevokes(r) \/ OperatorErases(r)
  BY <1>1, <1>2, <1>12 DEF RecoveryBatch, OperatorRevokes, OperatorErases, guardVars, TypeOK
<1> QED
  BY <1>3, <1>4, <1>5, <1>6, <1>7, <1>8, <1>9, <1>10, <1>11, <1>12 DEF Went

Quiet ==
  \/ WindowEnds \/ Promoted \/ Demoted
  \/ \E b \in Browsers :
       \/ FreshnessEnds(b) \/ Logout(b) \/ SwitchWorkspace(b)
       \/ AuthenticationOptions(b) \/ RegistrationOptions(b)
  \/ \E t \in Tokens : RequestReset(t) \/ ResetEnds(t)
  \/ \E c \in challenges : ChallengeExpires(c)

LEMMA Steps ==
  ASSUME Next PROVE Quiet \/ Began \/ \E r \in Requests : Went(r)
  BY DEF Next, Quiet, Began, Went

LEMMA StepTyped ==
  ASSUME SignInAssumption, TypeOK, [Next]_vars PROVE TypeOK'
<1>1. CASE UNCHANGED vars
  BY <1>1 DEF vars, accountVars, guardVars, TypeOK
<1>2. CASE Next
  BY <1>2, Steps, BrowsersTyped, BeginningsTyped, GoingOnTyped DEF Quiet
<1> QED
  BY <1>1, <1>2

LEMMA InitTyped == ASSUME SignInAssumption, Init PROVE TypeOK
<1>1. 1 \in 1..MaxSets /\ 1 \in 0..MaxSets
  BY DEF SignInAssumption
<1>2. codes \subseteq RecoveryCodes
  BY <1>1, CodeSetTyped DEF Init
<1> QED
  BY <1>1, <1>2 DEF Init, TypeOK


-----------------------------------------------------------------------------
(* What sessions and requests know.                                        *)

\* A session that counts was opened with the present password.
Knows(s) == s.version \leq version /\ (s.version = version => s.password = password)

CookieHolds(b) ==
  cookie[b] # NoSession =>
    /\ Knows(cookie[b])
    /\ HasFactor /\ ~stray /\ cookie[b].version = version => cookie[b].mfa # "plain"

\* So was that of a request; the passkey that one is to remove, while the session counts,
\* is not the only one, unless a member's code allowed it.
RequestHolds(r) ==
  /\ req[r].at \in Carrying => Knows(req[r].s)
  /\ req[r].at = "removal" /\ req[r].s.version = version /\ req[r].x \in passkeys
       => \E p \in passkeys : p # req[r].x

AuthInvariant ==
  /\ TypeOK
  /\ \A b \in Browsers : CookieHolds(b)
  /\ \A r \in Requests : RequestHolds(r)

\* The version grows, and with every change of the password.
Grows == version \leq version' /\ (version' = version => password' = password)

LEMMA KnowsStill ==
  ASSUME TypeOK, TypeOK', Grows, NEW s \in Sessions, Knows(s)
  PROVE  /\ s.version \leq version' /\ (s.version = version' => s.password = password')
         /\ version' # version => s.version # version'
<1>1. s.version \in Nat /\ version \in Nat /\ version' \in Nat
  BY SessionsTyped DEF TypeOK
<1> QED
  BY <1>1 DEF Grows, Knows

\* A cookie that stays, in an account whose factors are not new to its sessions.
LEMMA CookieStays ==
  ASSUME TypeOK, TypeOK', Grows, NEW b \in Browsers, CookieHolds(b), cookie'[b] = cookie[b],
         version' = version /\ HasFactor' /\ ~stray' => HasFactor /\ ~stray
  PROVE  CookieHolds(b)'
<1>1. CASE cookie[b] = NoSession
  BY <1>1 DEF CookieHolds
<1>2. CASE cookie[b] # NoSession
  <2>1. cookie[b] \in Sessions /\ Knows(cookie[b])
    BY <1>2 DEF TypeOK, CookieHolds
  <2>2. Knows(cookie[b])' /\ (version' # version => cookie[b].version # version')
    BY <2>1, KnowsStill DEF Knows
  <2> QED
    BY <1>2, <2>2 DEF CookieHolds
<1> QED
  BY <1>1, <1>2

\* A request that waits, while no passkey goes but by a change of the version or with
\* all others, and none comes that somebody asked to remove.
LEMMA RequestStays ==
  ASSUME TypeOK, TypeOK', Grows, NEW r \in Requests, RequestHolds(r),
         req'[r] = req[r] \/ req'[r].at \notin Carrying,
         \/ version' # version \/ passkeys' = {}
         \/ passkeys' = passkeys
         \/ \E p \in Passkeys : passkeys' = passkeys \cup {p} /\ Anew(p)
  PROVE  RequestHolds(r)'
<1>1. CASE req'[r].at \notin Carrying
  BY <1>1 DEF RequestHolds, Carrying
<1>2. CASE req'[r] = req[r] /\ req[r].at \in Carrying
  <2>1. req[r].s \in Sessions
    BY <1>2, WaitingHolds DEF TypeOK
  <2>2. Knows(req[r].s)' /\ (version' # version => req[r].s.version # version')
    BY <1>2, <2>1, KnowsStill DEF Knows, RequestHolds
  <2>3. ASSUME req[r].at = "removal", req[r].s.version = version',
               req[r].x \in passkeys'
        PROVE  \E p \in passkeys' : p # req[r].x
    BY <2>2, <2>3 DEF RequestHolds, Anew, Removing
  <2> QED
    BY <1>2, <2>2, <2>3 DEF RequestHolds
<1> QED
  BY <1>1, <1>2

\* Steps that change neither the account nor a request.
LEMMA QuietHolds ==
  ASSUME SignInAssumption, AuthInvariant, Quiet
  PROVE  AuthInvariant'
<1>1. TypeOK /\ TypeOK'
  BY BrowsersTyped DEF AuthInvariant, Quiet
<1>2. UNCHANGED <<accountVars, req, stray>>
  BY DEF Quiet, WindowEnds, Promoted, Demoted, FreshnessEnds, Logout, SwitchWorkspace, AuthenticationOptions,
         RegistrationOptions, RequestReset, ResetEnds, ChallengeExpires, guardVars
<1>3. Grows
  BY <1>1, <1>2 DEF Grows, TypeOK, accountVars
<1>4. \A r \in Requests : RequestHolds(r)'
  BY <1>1, <1>2, <1>3, RequestStays DEF AuthInvariant, accountVars
<1>5. (HasFactor' <=> HasFactor) /\ stray' = stray /\ version' = version /\ password' = password
  BY <1>2 DEF HasFactor, accountVars
<1>6. ASSUME NEW b \in Browsers PROVE CookieHolds(b)'
  <2>1. CASE cookie'[b] = cookie[b]
    BY <1>1, <1>3, <1>5, <2>1, CookieStays DEF AuthInvariant
  <2>2. CASE cookie'[b] = NoSession
    BY <2>2 DEF CookieHolds
  <2>3. CASE cookie'[b] # cookie[b] /\ cookie'[b] # NoSession
    <3>1. PICK c \in Browsers : FreshnessEnds(c) \/ SwitchWorkspace(c)
      BY <1>1, <2>3 DEF Quiet, WindowEnds, Promoted, Demoted, Logout, AuthenticationOptions, RegistrationOptions,
           RequestReset, ResetEnds, ChallengeExpires, TypeOK
    <3>2. /\ cookie[c] # NoSession
          /\ cookie' = [cookie EXCEPT ![c] = [version |-> cookie[c].version,
                          password |-> cookie[c].password, mfa |-> "proved"]]
      BY <3>1 DEF FreshnessEnds, SwitchWorkspace, SignedIn, Live
    <3>3. c = b /\ cookie'[b] = [version |-> cookie[b].version,
                                 password |-> cookie[b].password, mfa |-> "proved"]
      BY <1>1, <2>3, <3>2 DEF TypeOK
    <3>4. Knows(cookie[b])
      BY <3>2, <3>3 DEF AuthInvariant, CookieHolds
    <3> QED
      BY <1>5, <3>3, <3>4 DEF CookieHolds, Knows
  <2> QED
    BY <2>1, <2>2, <2>3
<1> QED
  BY <1>1, <1>4, <1>6 DEF AuthInvariant


\* A session that counts knows, and so does what is made of it.
LEMMA LiveKnows ==
  ASSUME AuthInvariant, NEW b \in Browsers, Live(cookie[b])
  PROVE  /\ cookie[b] \in Sessions /\ Knows(cookie[b]) /\ Knows(Proved(cookie[b]))
         /\ cookie[b].version = version
  BY SessionsTyped DEF AuthInvariant, TypeOK, CookieHolds, Live, Knows

\* Where there is more than one passkey, there is another one.
LEMMA AnotherOne ==
  ASSUME NEW S, Cardinality(S) > 1, NEW x \in S PROVE \E y \in S : y # x
<1> SUFFICES ASSUME S = {x} PROVE FALSE
  OBVIOUS
<1>1. Cardinality(S) = 1
  BY FS_Singleton
<1> QED
  BY <1>1

LEMMA BeginningsHold ==
  ASSUME SignInAssumption, AuthInvariant, Began
  PROVE  AuthInvariant'
<1>1. TypeOK /\ TypeOK'
  BY BeginningsTyped DEF AuthInvariant
<1>2. UNCHANGED <<platformAdmin, accountVars, guardVars, cookie, stray>>
  BY OnlyBegins
<1>3. Grows /\ \A s : Knows(s)' <=> s.version \leq version /\ (s.version = version => s.password = password)
  BY <1>1, <1>2 DEF Grows, TypeOK, accountVars, Knows
<1>4. ASSUME NEW b \in Browsers PROVE CookieHolds(b)'
  BY <1>1, <1>2, <1>3, CookieStays DEF AuthInvariant, HasFactor, accountVars
<1>5. ASSUME NEW r \in Requests, NEW at, NEW b, NEW s, NEW x,
             req' = [req EXCEPT ![r] = Request(at, b, s, x)],
             at \in Carrying => Knows(s),
             at = "removal" => \E p \in passkeys : p # x
      PROVE  \A q \in Requests : RequestHolds(q)'
  <2>1. req'[r] = Request(at, b, s, x) /\ \A q \in Requests \ {r} : req'[q] = req[q]
    BY <1>1, <1>5 DEF TypeOK
  <2>2. RequestHolds(r)'
    BY <1>2, <1>3, <1>5, <2>1, RequestIs DEF RequestHolds, accountVars, Knows
  <2>3. ASSUME NEW q \in Requests \ {r} PROVE RequestHolds(q)'
    BY <1>1, <1>2, <1>3, <2>1, RequestStays DEF AuthInvariant, accountVars
  <2> QED
    BY <2>2, <2>3
<1>6. ASSUME NEW r \in Requests, req' = [req EXCEPT ![r] = Wrong] \/ req' = [req EXCEPT ![r] = Idle]
      PROVE  \A q \in Requests : RequestHolds(q)'
  <2>1. req'[r].at \notin Carrying /\ \A q \in Requests \ {r} : req'[q] = req[q]
    BY <1>1, <1>6, RequestIs, NotCarrying DEF TypeOK
  <2> QED
    BY <1>1, <1>2, <1>3, <2>1, RequestStays DEF AuthInvariant, accountVars
<1>7. ASSUME NEW r \in Requests, NEW b \in Browsers, LoginReads(r, b)
      PROVE  \A q \in Requests : RequestHolds(q)'
  <2> DEFINE s == [version |-> version, password |-> password, mfa |-> "plain"]
  <2>1. req' = [req EXCEPT ![r] = Request("login", b, s, "-")] /\ Knows(s)
    BY <1>1, <1>7 DEF LoginReads, Knows, TypeOK
  <2> HIDE DEF s
  <2> QED
    BY <1>5, <2>1
<1>8. ASSUME NEW r \in Requests, NEW b \in Browsers, NEW p \in Passkeys, RemovalReads(r, b, p)
      PROVE  \A q \in Requests : RequestHolds(q)'
  <2>1. /\ Live(cookie[b])
        /\ \/ /\ req' = [req EXCEPT ![r] = Request("removal", "-", cookie[b], p)]
              /\ Cardinality(passkeys) > 1
           \/ req' = [req EXCEPT ![r] = Request("last removal", "-", cookie[b], p)]
    BY <1>8 DEF RemovalReads, MayManageFactors, SignedIn
  <2>2. Knows(cookie[b])
    BY <2>1, LiveKnows
  <2>3. CASE /\ req' = [req EXCEPT ![r] = Request("removal", "-", cookie[b], p)]
             /\ Cardinality(passkeys) > 1
    <3>1. \E y \in passkeys : y # p
      <4>1. passkeys # {}
        BY <2>3, FS_EmptySet
      <4> QED
        BY <2>3, <4>1, AnotherOne
    <3> QED
      BY <1>5, <2>2, <2>3, <3>1
  <2>4. CASE req' = [req EXCEPT ![r] = Request("last removal", "-", cookie[b], p)]
    BY <1>5, <2>2, <2>4
  <2> QED
    BY <2>1, <2>3, <2>4
<1>9. ASSUME NEW r \in Requests, NEW b \in Browsers,
             \/ \E c \in RecoveryCodes : CodeReads(r, b, c)
             \/ AssertionReads(r, b) \/ AttestationReads(r, b)
      PROVE  \A q \in Requests : RequestHolds(q)'
  <2>1. Live(cookie[b])
    BY <1>9 DEF CodeReads, AssertionReads, AttestationReads, SignedIn
  <2>2. \/ req' = [req EXCEPT ![r] = Wrong]
        \/ \E at \in {"code", "assertion", "attestation"} : \E x :
             \/ req' = [req EXCEPT ![r] = Request(at, b, cookie[b], x)]
             \/ req' = [req EXCEPT ![r] = Request(at, b, Proved(cookie[b]), x)]
    BY <1>9 DEF CodeReads, AssertionReads, AttestationReads, ChallengeRead
  <2>3. Knows(cookie[b]) /\ Knows(Proved(cookie[b]))
    BY <2>1, LiveKnows
  <2> QED
    BY <1>5, <1>6, <2>2, <2>3
<1>10. ASSUME NEW r \in Requests, NEW b \in Browsers,
              RotationReads(r, b) \/ DisablingReads(r, b)
       PROVE  \A q \in Requests : RequestHolds(q)'
  <2>1. /\ Live(cookie[b])
        /\ \/ req' = [req EXCEPT ![r] = Request("rotation", b, cookie[b], "-")]
           \/ req' = [req EXCEPT ![r] = Request("disabling", "-", cookie[b], "-")]
    BY <1>10 DEF RotationReads, DisablingReads, MayManageFactors, SignedIn
  <2>2. Knows(cookie[b])
    BY <2>1, LiveKnows
  <2>3. CASE req' = [req EXCEPT ![r] = Request("rotation", b, cookie[b], "-")]
    BY <1>5, <2>2, <2>3
  <2>4. CASE req' = [req EXCEPT ![r] = Request("disabling", "-", cookie[b], "-")]
    BY <1>5, <2>2, <2>4
  <2> QED
    BY <2>1, <2>3, <2>4
<1>11. ASSUME NEW r \in Requests, NEW b \in Browsers,
              (\E t \in Tokens : ConfirmReads(r, b, t)) \/ RegistrationRefused(r, b)
       PROVE  \A q \in Requests : RequestHolds(q)'
  BY <1>5, <1>6, <1>11, NotCarrying DEF ConfirmReads, RegistrationRefused
<1>12. ASSUME NEW r \in Requests, Lost(r) \/ RecoveryReads(r)
       PROVE  \A q \in Requests : RequestHolds(q)'
  BY <1>5, <1>6, <1>12, NotCarrying DEF Lost, Answer, RecoveryReads
<1> QED
  BY <1>1, <1>4, <1>7, <1>8, <1>9, <1>10, <1>11, <1>12 DEF AuthInvariant, Began


\* What a step of a request does to the account.
Effects ==
  /\ Grows
  /\ \/ version' # version \/ passkeys' = {}
     \/ passkeys' = passkeys
     \/ \E p \in Passkeys : passkeys' = passkeys \cup {p} /\ Anew(p)
  /\ version' = version /\ HasFactor' /\ ~stray' => HasFactor /\ ~stray

LEMMA BatchEffects ==
  ASSUME SignInAssumption, AuthInvariant, NEW r \in Requests, Went(r)
  PROVE  Effects
<1>1. /\ TypeOK /\ TypeOK' /\ version \in Nat /\ version' \in Nat
      /\ version \leq version /\ version + 1 # version /\ version \leq version + 1
  BY GoingOnTyped DEF AuthInvariant, TypeOK
<1>2. CASE CountWrongFactor(r) \/ LoginAnswers(r) \/ AssertionConsumes(r) \/ AttestationConsumes(r)
  BY <1>1, <1>2 DEF CountWrongFactor, LoginAnswers, AssertionConsumes, AttestationConsumes,
       accountVars, Effects, Grows, HasFactor
<1>3. CASE CodeUsed(r)
  BY <1>1, <1>3 DEF CodeUsed, Effects, Grows, HasFactor
<1>4. CASE ConfirmBatch(r)
  BY <1>1, <1>4 DEF ConfirmBatch, VersionAfterReset, Effects, Grows, HasFactor
<1>5. ASSUME NEW p \in Passkeys, AdditionBatch(r, p) PROVE Effects
  <2>1. /\ UNCHANGED <<platformAdmin, password>> /\ Anew(p)
        /\ IF Bumps(r) THEN version' = version + 1 ELSE version' = version
        /\ \/ passkeys' = passkeys \cup {p}
           \/ passkeys' = passkeys /\ codes' = codes
        /\ (stray => stray') /\ (~Bumps(r) => stray' \/ UNCHANGED <<passkeys, codes>>)
    BY <1>1, <1>5 DEF AdditionBatch, Bump, TypeOK
  <2> QED
    BY <1>1, <2>1 DEF Effects, Grows, HasFactor
<1>6. CASE RemovalBatch(r)
  BY <1>1, <1>6 DEF RemovalBatch, RemovalStands, Bump, Effects, Grows, HasFactor
<1>7. CASE DisablingBatch(r)
  BY <1>1, <1>7 DEF DisablingBatch, Bump, Effects, Grows, HasFactor
<1>8. CASE RotationBatch(r)
  <2>1. /\ UNCHANGED <<platformAdmin, password, passkeys>>
        /\ IF Bumps(r) THEN version' = version + 1 ELSE version' = version
        /\ (stray => stray') /\ (~Bumps(r) => stray' \/ UNCHANGED codes)
    BY <1>1, <1>8 DEF RotationBatch, Bump, TypeOK
  <2> QED
    BY <1>1, <2>1 DEF Effects, Grows, HasFactor
<1>9. CASE RecoveryBatch(r) \/ OperatorRevokes(r) \/ OperatorErases(r)
  BY <1>1, <1>9 DEF RecoveryBatch, OperatorRevokes, OperatorErases, Effects, Grows, HasFactor
<1> QED
  BY <1>2, <1>3, <1>4, <1>5, <1>6, <1>7, <1>8, <1>9 DEF Went

\* What it does to the cookies.
LEMMA CookiesHold ==
  ASSUME SignInAssumption, AuthInvariant, NEW r \in Requests, Went(r), NEW b \in Browsers
  PROVE  CookieHolds(b)'
<1>1. /\ TypeOK /\ TypeOK' /\ Effects /\ version \in Nat
      /\ req[r] \in Waiting \cup {Idle}
  BY GoingOnTyped, BatchEffects DEF AuthInvariant, TypeOK
<1>2. CASE cookie'[b] = cookie[b]
  BY <1>1, <1>2, CookieStays DEF AuthInvariant, Effects
<1>3. CASE cookie'[b] = NoSession
  BY <1>3 DEF CookieHolds
<1>4. ASSUME NEW v \in Nat, req[r].at \in Answering, MarkMfaVerified(r, v), cookie'[b] # cookie[b],
             v = version', password' = password,
             v = req[r].s.version \/ req[r].s.version = version,
             version' = version \/ req[r].s.version = version
      PROVE  CookieHolds(b)'
  <2>1. /\ req[r].b \in Browsers /\ req[r].s \in Sessions
        /\ Knows(req[r].s)
    BY <1>1, <1>4, WaitingHolds DEF Carrying, AuthInvariant, RequestHolds
  <2>2. cookie'[b] = [version |-> v, password |-> req[r].s.password, mfa |-> "fresh"]
    BY <1>1, <1>4, <2>1, Marked
  <2>3. cookie'[b].version = version' /\ cookie'[b].password = password' /\ cookie'[b].mfa = "fresh"
    BY <1>4, <2>1, <2>2 DEF Knows
  <2>4. version' \leq version'
    BY <1>1 DEF TypeOK
  <2> QED
    BY <2>3, <2>4 DEF CookieHolds, Knows
<1>5. ASSUME NEW v \in Nat, req[r].at \in Answering, MarkMfaVerified(r, v), cookie'[b] # cookie[b],
             v = req[r].s.version, UNCHANGED <<version, password>>
      PROVE  CookieHolds(b)'
  <2>1. /\ req[r].b \in Browsers /\ req[r].s \in Sessions
        /\ Knows(req[r].s)
    BY <1>1, <1>5, WaitingHolds DEF Carrying, AuthInvariant, RequestHolds
  <2>2. cookie'[b] = [version |-> v, password |-> req[r].s.password, mfa |-> "fresh"]
    BY <1>1, <1>5, <2>1, Marked
  <2> QED
    BY <1>5, <2>1, <2>2 DEF CookieHolds, Knows
<1>6. CASE LoginAnswers(r) /\ cookie'[b] # cookie[b]
  <2>1. /\ req[r].b \in Browsers /\ req[r].s \in Sessions
        /\ Knows(req[r].s)
        /\ UNCHANGED <<version, password, passkeys, codes, stray>>
    BY <1>1, <1>6, WaitingHolds
       DEF LoginAnswers, Carrying, Answering, AuthInvariant, RequestHolds, accountVars
  <2>2. cookie'[b] = [version |-> req[r].s.version, password |-> req[r].s.password,
                      mfa |-> IF HasFactor THEN "pending" ELSE "plain"]
    BY <1>1, <1>6, <2>1 DEF LoginAnswers, TypeOK
  <2>3. /\ cookie'[b].version = req[r].s.version /\ cookie'[b].password = req[r].s.password
        /\ HasFactor => cookie'[b].mfa = "pending"
    BY <2>2
  <2> QED
    BY <2>1, <2>3 DEF CookieHolds, Knows, HasFactor
<1>7. CASE (AssertionConsumes(r) \/ CodeUsed(r)) /\ cookie'[b] # cookie[b]
  <2>1. /\ MarkMfaVerified(r, req[r].s.version) /\ req[r].at \in Answering
        /\ UNCHANGED <<version, password>>
    BY <1>7 DEF AssertionConsumes, CodeUsed, Answering, accountVars
  <2>2. req[r].s.version \in Nat
    BY <1>1, <2>1, WaitingHolds, SessionsTyped DEF Carrying
  <2> QED
    BY <1>5, <1>7, <2>1, <2>2
<1>8. CASE ((\E p \in Passkeys : AdditionBatch(r, p)) \/ RotationBatch(r)) /\ cookie'[b] # cookie[b]
  <2>1. /\ MarkMfaVerified(r, version') /\ req[r].at \in Answering /\ Bumps(r)
        /\ password' = password
    BY <1>8 DEF AdditionBatch, RotationBatch, Answering
  <2>2. version' \in Nat
    BY <1>1 DEF TypeOK
  <2> QED
    BY <1>4, <1>8, <2>1, <2>2 DEF Bumps
<1>9. CASE ConfirmBatch(r) /\ cookie'[b] # cookie[b]
  BY <1>1, <1>3, <1>9 DEF ConfirmBatch, TypeOK
<1> QED
  BY <1>2, <1>6, <1>7, <1>8, <1>9
     DEF Went, CountWrongFactor, AttestationConsumes, RemovalBatch, DisablingBatch, RecoveryBatch,
         OperatorRevokes, OperatorErases

LEMMA GoingOnHolds ==
  ASSUME SignInAssumption, AuthInvariant, NEW r \in Requests, Went(r)
  PROVE  AuthInvariant'
<1>1. TypeOK /\ TypeOK' /\ Effects /\ Becomes(r)
  BY GoingOnTyped, GoingOn, BatchEffects DEF AuthInvariant
<1>2. ASSUME NEW q \in Requests PROVE RequestHolds(q)'
  <2>1. CASE req'[q] = req[q] \/ req'[q].at \notin Carrying
    BY <1>1, <2>1, RequestStays DEF AuthInvariant, Effects
  <2>2. CASE req'[q] # req[q] /\ req'[q].at \in Carrying
    <3>1. PICK x \in BOOLEAN : /\ q = r /\ req[r].at = "attestation"
                               /\ req'[r] = Request("addition", req[r].b, req[r].s, x)
      BY <1>1, <2>2, RequestIs, NotCarrying DEF Becomes, TypeOK
    <3>2. req[r].s \in Sessions /\ Knows(req[r].s)
      BY <3>1, WaitingHolds DEF AuthInvariant, TypeOK, RequestHolds, Carrying, Answering
    <3>3. Knows(req[r].s)'
      BY <1>1, <3>1, <3>2, KnowsStill, RequestIs DEF Effects, Knows
    <3> QED
      BY <3>1, <3>2, <3>3, <1>1, KnowsStill, RequestIs DEF RequestHolds, Effects, Knows
  <2> QED
    BY <2>1, <2>2
<1> QED
  BY <1>1, <1>2, CookiesHold DEF AuthInvariant


LEMMA StepHolds ==
  ASSUME SignInAssumption, AuthInvariant, [Next]_vars PROVE AuthInvariant'
<1>1. CASE UNCHANGED vars
  <2>1. TypeOK' /\ Grows
    BY <1>1, StepTyped DEF AuthInvariant, TypeOK, Grows, vars, accountVars
  <2>2. UNCHANGED <<platformAdmin, version, password, passkeys, codes, req, cookie, stray>>
    BY <1>1 DEF vars, accountVars
  <2>3. \A b \in Browsers : CookieHolds(b)'
    BY <2>1, <2>2, CookieStays DEF AuthInvariant, HasFactor
  <2>4. \A r \in Requests : RequestHolds(r)'
    BY <2>1, <2>2, RequestStays DEF AuthInvariant
  <2> QED
    BY <2>1, <2>3, <2>4 DEF AuthInvariant
<1>2. CASE Next
  BY <1>2, Steps, QuietHolds, BeginningsHold, GoingOnHolds
<1> QED
  BY <1>1, <1>2

LEMMA InitHolds == ASSUME SignInAssumption, Init PROVE AuthInvariant
<1>1. \A r \in Requests : req[r].at = "idle"
  BY DEF Init, Idle
<1>2. \A r \in Requests : RequestHolds(r)
  BY <1>1 DEF RequestHolds, Carrying, Answering
<1>3. \A b \in Browsers : CookieHolds(b)
  BY DEF Init, CookieHolds
<1> QED
  BY <1>2, <1>3, InitTyped DEF AuthInvariant

-----------------------------------------------------------------------------
(* The promises.                                                           *)

\* What an account, its sessions and the requests under way know of one another.
THEOREM AuthInvariantHolds == Spec => []AuthInvariant
<1>1. Init => AuthInvariant
  BY SignInAssumption, InitHolds
<1>2. AuthInvariant /\ [Next]_vars => AuthInvariant'
  BY SignInAssumption, StepHolds
<1> QED
  BY <1>1, <1>2, PTL DEF Spec

\* A session that counts was opened with the present password, whatever was under way
\* when the password was reset.
THEOREM LiveKnowsPasswordHolds == Spec => []LiveKnowsPassword
<1>1. AuthInvariant => LiveKnowsPassword
  BY DEF AuthInvariant, CookieHolds, Knows, LiveKnowsPassword, Live
<1> QED
  BY <1>1, AuthInvariantHolds, PTL

\* While the account has a factor, a session that is not waiting for one has proved one,
\* unless an enrolment that was refused has stored a factor (stray).
THEOREM MfaNotSkippedHolds == Spec => []MfaNotSkipped
<1>1. AuthInvariant => MfaNotSkipped
  BY DEF AuthInvariant, CookieHolds, MfaNotSkipped, SignedIn, Live
<1> QED
  BY <1>1, AuthInvariantHolds, PTL

\* An administrator who has passkeys keeps one, but for a recovery and for a request
\* that was let through as a member's before the account was promoted.
THEOREM AdminKeepsPasskeyHolds == Spec => AdminKeepsPasskey
<1>1. ASSUME AuthInvariant, [Next]_vars
      PROVE  [platformAdmin /\ passkeys # {} /\ passkeys' = {} =>
                Recovers \/ LetThroughAsMember]_vars
  <2> SUFFICES ASSUME Next, platformAdmin, passkeys # {}, passkeys' = {}
               PROVE  Recovers \/ LetThroughAsMember
    BY <1>1
  <2>1. PICK r \in Requests : Went(r)
    BY Steps, ZenonT(60) DEF Quiet, WindowEnds, Promoted, Demoted, FreshnessEnds, Logout, SwitchWorkspace, AuthenticationOptions,
         RegistrationOptions, RequestReset, ResetEnds, ChallengeExpires, Began, LoginReads,
         ConfirmReads, CodeReads, RemovalReads, AssertionReads, AttestationReads,
         RegistrationRefused, DisablingReads, RotationReads, Lost, RecoveryReads, accountVars
  <2>2. CASE RemovalBatch(r) /\ req[r].at = "removal"
    <3>1. /\ Bumps(r) /\ req[r].x \in passkeys /\ req[r].at = "removal"
          /\ passkeys' = passkeys \ {req[r].x}
      BY <2>2 DEF RemovalBatch, RemovalStands
    <3>2. \E p \in passkeys : p # req[r].x
      BY <1>1, <3>1 DEF AuthInvariant, RequestHolds, Bumps
    <3> QED
      BY <3>1, <3>2
  <2>3. CASE DisablingBatch(r) \/ (RemovalBatch(r) /\ req[r].at # "removal")
    BY <1>1, <2>3 DEF DisablingBatch, RemovalBatch, Removing, Answer, LetThroughAsMember,
         AuthInvariant, TypeOK
  <2>4. CASE RecoveryBatch(r) \/ OperatorErases(r)
    BY <1>1, <2>4 DEF RecoveryBatch, OperatorErases, Answer, Recovers, AuthInvariant, TypeOK
  <2> QED
    BY <2>1, <2>2, <2>3, <2>4 DEF Went, CountWrongFactor, LoginAnswers, ConfirmBatch,
         AssertionConsumes, CodeUsed, AttestationConsumes, AdditionBatch, RotationBatch,
         OperatorRevokes, accountVars
<1> QED
  BY <1>1, AuthInvariantHolds, PTL DEF Spec, AdminKeepsPasskey

\* A reset link, a recovery code and a challenge are accepted once.
THEOREM SecretUsedOnceHolds == Spec => SecretUsedOnce
<1>1. ASSUME AuthInvariant, [Next]_vars
      PROVE  [\A r \in Requests : Accepts(r) =>
                LET secret == <<req[r].at, req[r].x>>
                IN  secret \in Unused /\ secret \notin Unused']_vars
  <2> SUFFICES ASSUME Next, NEW r \in Requests, Accepts(r)
               PROVE  <<req[r].at, req[r].x>> \in Unused /\ <<req[r].at, req[r].x>> \notin Unused'
    BY <1>1
  <2>1. TypeOK /\ req[r] \in Waiting \cup {Idle}
    BY <1>1 DEF AuthInvariant, TypeOK
  <2>2. /\ req[r].at \in {"code", "assertion", "attestation", "confirm"}
        /\ req[r] # Idle /\ req'[r] # req[r]
    BY <2>1, WaitingHolds, RequestIs DEF Accepts, Carrying, Answering
  <2>3. \/ Went(r)
        \/ UNCHANGED <<codes, cookie, password>> /\ req'[r] = Idle
    <3>1. ~Quiet
      BY <2>2 DEF Quiet, WindowEnds, Promoted, Demoted, FreshnessEnds, Logout, SwitchWorkspace,
         AuthenticationOptions, RegistrationOptions, RequestReset, ResetEnds, ChallengeExpires
    <3>2. CASE Began
      <4>1. CASE \E q \in Requests : Lost(q)
        BY <2>1, <2>2, <4>1 DEF Lost, Answer, accountVars, TypeOK
      <4>2. ASSUME NEW q \in Requests, req[q] = Idle, NEW w, req' = [req EXCEPT ![q] = w]
            PROVE  FALSE
        BY <2>1, <2>2, <4>2 DEF TypeOK
      <4> QED
        BY <3>2, <4>1, <4>2, OnlyBegins
    <3>3. ASSUME NEW q \in Requests, Went(q), q # r PROVE FALSE
      BY <2>1, <2>2, <3>3, GoingOn DEF Becomes, TypeOK
    <3> QED
      BY <3>1, <3>2, <3>3, Steps
  <2>4. CASE Went(r)
    <3>1. /\ req[r].at = "code" => CodeUsed(r)
          /\ req[r].at = "assertion" => AssertionConsumes(r)
          /\ req[r].at = "attestation" => AttestationConsumes(r)
          /\ req[r].at = "confirm" => ConfirmBatch(r)
      <4>1. /\ req[r].at \notin {"wrong", "login", "addition", "disabling", "rotation",
                                 "recovery", "erasing"}
            /\ req[r].at \notin Removing
        BY <2>2 DEF Removing
      <4> QED
        BY <2>2, <2>4, <4>1 DEF Went, CountWrongFactor, LoginAnswers, ConfirmBatch,
           AssertionConsumes, CodeUsed, AttestationConsumes, AdditionBatch, RemovalBatch,
           DisablingBatch, RotationBatch, RecoveryBatch, OperatorRevokes, OperatorErases
    <3>2. CASE req[r].at = "code"
      <4>1. req[r].x \in codes /\ codes' = codes \ {req[r].x}
        BY <2>1, <3>1, <3>2, RequestIs DEF CodeUsed, StillUnused, Accepts, TypeOK
      <4> QED
        BY <3>2, <4>1 DEF Unused
    <3>3. CASE req[r].at = "assertion"
      <4>1. req[r].x \in challenges /\ challenges' = challenges \ {req[r].x}
        BY <2>1, <3>1, <3>3, RequestIs DEF AssertionConsumes, Answer, Accepts, TypeOK
      <4> QED
        BY <3>3, <4>1 DEF Unused
    <3>4. CASE req[r].at = "attestation"
      <4>1. req[r].x \in challenges /\ challenges' = challenges \ {req[r].x}
        BY <2>1, <3>1, <3>4, RequestIs DEF AttestationConsumes, Answer, Accepts, TypeOK
      <4> QED
        BY <3>4, <4>1 DEF Unused
    <3>5. CASE req[r].at = "confirm"
      <4>1. req[r].x \in Tokens /\ reset[req[r].x] = "live" /\ reset'[req[r].x] = "dead"
        BY <2>1, <3>1, <3>5, WaitingHolds DEF ConfirmBatch, Accepts, TypeOK
      <4> QED
        BY <3>5, <4>1 DEF Unused
    <3> QED
      BY <2>2, <3>2, <3>3, <3>4, <3>5
  <2> QED
    BY <2>2, <2>3, <2>4, RequestIs DEF Accepts
<1> QED
  BY <1>1, AuthInvariantHolds, PTL DEF Spec, SecretUsedOnce
=============================================================================
