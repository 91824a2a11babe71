-------------------------- MODULE AccountsProofs --------------------------
(***************************************************************************)
(* For any number of browsers, sign-ins, proofs and enrolments: a link, a  *)
(* state, a challenge or a recovery code signs in once, and a deletion     *)
(* that no other request overlapped leaves nothing of the account behind.  *)
(* Every proof is in one place at most - still redeemable, carried by one  *)
(* request, or used by one sign-in - and what a request of a session still *)
(* holds is the address's present user.                                    *)
(***************************************************************************)
EXTENDS Accounts, FiniteSetTheorems, SequenceTheorems, TLAPS

USE AccountsAssumption

Steps == {"ready", "step-up", "start", "user", "recover", "identify", "adopt", "link",
          "owner", "set"}
Hows == {"none", "register", "demo", "password", "mfa", "recovery", "magic", "passkey", "oauth",
         "delete", "logout", "enroll", "verify", "disable", "forget", "token", "revoke"}
ProofKinds == {"none", "code", "magic", "state", "challenge"}
ProofSet == [kind : ProofKinds, n : Nat, user : Nat]
RequestSet == [at : Steps, how : Hows, proof : ProofSet, user : Nat, copy : MfaRecords]
SignInSet == [how : Hows, proof : ProofSet]

RequestsTyped ==
  /\ request \in [Browsers -> RequestSet]
  /\ \A b \in Browsers : /\ request[b].user \in Users
                         /\ request[b].copy.codes \subseteq 1..enrolled
RowsTyped ==
  /\ way \in Ways /\ stale \in BOOLEAN /\ raced \in BOOLEAN
  /\ lastUser \in Nat /\ user \in Users
  /\ passkey \in Users /\ identity \in Users /\ token \in Users
  /\ enrolled \in 0..MaxEnrolments
  /\ mfa \in MfaRecords /\ mfa.codes \subseteq 1..enrolled
BrowsersTyped ==
  /\ session \in [Browsers -> Users]
  /\ screen \in [Browsers -> Screens]
  /\ open \subseteq proofs
  /\ signIns \in Seq(SignInSet)

AccountsTyping == RequestsTyped /\ RowsTyped /\ BrowsersTyped

\* The proofs issued are numbered as they are issued.
ProofsNumbered ==
  /\ IsFiniteSet(proofs)
  /\ \A p \in proofs :
       /\ p \in ProofSet /\ p.kind \in {"magic", "state", "challenge"}
       /\ p.n \in 1..Cardinality(proofs) /\ p.user \in Users
       /\ p.kind = "magic" => p.user # 0

\* What a request or a sign-in can hold.
Known == proofs \cup {CodeProof(c) : c \in 1..enrolled} \cup {NoProof}

RequestsKnown ==
  /\ \A b \in Browsers :
       /\ request[b].proof \in Known
       /\ request[b].at = "ready" => request[b].proof = NoProof
       /\ request[b].proof.kind = "code" => request[b].how = "recovery"
       /\ request[b].at = "recover" =>
            /\ request[b].proof.kind = "code"
            /\ request[b].proof.n \notin request[b].copy.codes
  /\ \A i \in DOMAIN signIns :
       /\ signIns[i].proof \in Known
       /\ signIns[i].proof.kind = "code" => signIns[i].how = "recovery"

\* A recovery code counts once while no two saves of the record overlapped.
Counts(p) == p # NoProof /\ (p.kind = "code" => ~stale)
Redeemable == open \cup {CodeProof(c) : c \in mfa.codes}
\* A code is spent when its record is saved without it.
Carries(b, p) == request[b].proof = p /\ request[b].at # "recover"
Used(i, p) == signIns[i].proof = p

SpentOnce ==
  \A p \in ProofSet : Counts(p) =>
    /\ p \in Redeemable => /\ \A b \in Browsers : ~Carries(b, p)
                           /\ \A i \in DOMAIN signIns : ~Used(i, p)
    /\ \A b, c \in Browsers : Carries(b, p) /\ Carries(c, p) => b = c
    /\ \A b \in Browsers, i \in DOMAIN signIns : ~(Carries(b, p) /\ Used(i, p))
    /\ \A i, j \in DOMAIN signIns : Used(i, p) /\ Used(j, p) => i = j

\* A code that is being redeemed is the present user's.
CodesAreTheUsers ==
  ~stale => \A b \in Browsers :
    request[b].at = "recover" /\ request[b].proof.n \in mfa.codes => user = request[b].user

\* Whoever proves an identity names a user.
SomebodyAsks ==
  \A b \in Browsers :
    /\ request[b].at \in {"step-up", "user", "recover"} => request[b].user # 0
    /\ screen[b] = "code" => /\ request[b].at \in {"ready", "user", "recover", "start"}
                            /\ request[b].user # 0

\* What acts for a user acts for the address's present one.
ActsForUser ==
  ~raced => \A b \in Browsers :
    request[b].at \in {"step-up", "start", "link", "owner"} =>
      request[b].user = user /\ user # 0

AccountsInv ==
  /\ AccountsTyping /\ ProofsNumbered /\ RequestsKnown
  /\ SpentOnce /\ CodesAreTheUsers
  /\ SomebodyAsks /\ ActsForUser /\ DeletedMeansGone

-----------------------------------------------------------------------------
\* A request, by its parts.
Req(at, how, proof, u, copy) ==
  [at |-> at, how |-> how, proof |-> proof, user |-> u, copy |-> copy]

\* The request of browser b becomes r.
Becomes(b, r) == request' = [request EXCEPT ![b] = r]

LEMMA ReadyIsTyped ==
  /\ Ready = Req("ready", "none", NoProof, 0, NoMfa)
  /\ NoProof \in ProofSet /\ NoMfa \in MfaRecords /\ NoMfa.codes = {} /\ NoProof.kind = "none"
  BY DEF Ready, Req, NoProof, NoMfa, ProofSet, MfaRecords, ProofKinds

LEMMA RequestParts ==
  ASSUME RequestsTyped, NEW b \in Browsers
  PROVE  LET r == request[b]
         IN /\ r = Req(r.at, r.how, r.proof, r.user, r.copy)
            /\ r.at \in Steps /\ r.how \in Hows /\ r.proof \in ProofSet /\ r.user \in Users
            /\ r.copy \in MfaRecords /\ r.copy.codes \subseteq 1..enrolled
  BY DEF RequestsTyped, RequestSet, Req

LEMMA RequestMoves ==
  ASSUME RequestsTyped, NEW b \in Browsers, NEW at, NEW how, NEW proof, NEW u, NEW copy,
         Becomes(b, Req(at, how, proof, u, copy))
  PROVE  /\ request'[b].at = at /\ request'[b].how = how /\ request'[b].proof = proof
         /\ request'[b].user = u /\ request'[b].copy = copy
         /\ \A c \in Browsers \ {b} : request'[c] = request[c]
  BY DEF RequestsTyped, Becomes, Req

LEMMA RequestStaysTyped ==
  ASSUME RequestsTyped, NEW b \in Browsers, NEW at \in Steps, NEW how \in Hows,
         NEW proof \in ProofSet, NEW u \in Users', NEW copy \in MfaRecords,
         Becomes(b, Req(at, how, proof, u, copy)),
         lastUser \in Nat, lastUser' \in Nat, lastUser <= lastUser',
         enrolled \in Nat, enrolled' \in Nat, enrolled <= enrolled',
         copy.codes \subseteq 1..enrolled'
  PROVE  RequestsTyped'
<1>1. Req(at, how, proof, u, copy) \in RequestSet
  BY DEF Req, RequestSet, Users
<1>2. request' \in [Browsers -> RequestSet]
  BY <1>1 DEF RequestsTyped, Becomes
<1>3. Users \subseteq Users' /\ 1..enrolled \subseteq 1..enrolled'
  BY DEF Users
<1>4. ASSUME NEW c \in Browsers
      PROVE  request'[c].user \in Users' /\ request'[c].copy.codes \subseteq 1..enrolled'
  <2>1. CASE c = b
    BY <2>1, RequestMoves
  <2>2. CASE c # b
    <3>1. request'[c] = request[c]
      BY <2>2, RequestMoves
    <3> QED
      BY <3>1, <1>3 DEF RequestsTyped
  <2> QED
    BY <2>1, <2>2
<1> QED
  BY <1>2, <1>4 DEF RequestsTyped

LEMMA CodeIsTyped ==
  ASSUME NEW c \in Nat
  PROVE  /\ CodeProof(c) \in ProofSet /\ CodeProof(c).kind = "code" /\ CodeProof(c).n = c
         /\ CodeProof(c) # NoProof
  BY DEF CodeProof, ProofSet, ProofKinds, NoProof

\* The record without a code.
LEMMA CodeTakenOut ==
  ASSUME NEW record \in MfaRecords, NEW c
  PROVE  LET copy == [record EXCEPT !.codes = @ \ {c}]
         IN copy \in MfaRecords /\ copy.codes = record.codes \ {c}
  BY DEF MfaRecords

\* What the assignments of the handlers make of a request.
LEMMA RequestAdvances ==
  ASSUME RequestsTyped, NEW b \in Browsers, NEW at, NEW how, NEW proof, NEW u, NEW copy
  PROVE  LET r == request[b]
         IN /\ request' = [request EXCEPT ![b].at = at] =>
                 Becomes(b, Req(at, r.how, r.proof, r.user, r.copy))
            /\ request' = [request EXCEPT ![b].at = at, ![b].user = u] =>
                 Becomes(b, Req(at, r.how, r.proof, u, r.copy))
            /\ request' = [request EXCEPT ![b].at = at, ![b].how = how] =>
                 Becomes(b, Req(at, how, r.proof, r.user, r.copy))
            /\ request' = [request EXCEPT ![b].at = at, ![b].copy = copy] =>
                 Becomes(b, Req(at, r.how, r.proof, r.user, copy))
            /\ request' = [request EXCEPT ![b].at = at, ![b].how = how, ![b].proof = proof,
                                         ![b].copy = copy] =>
                 Becomes(b, Req(at, how, proof, r.user, copy))
  BY RequestParts DEF Becomes, Req

\* Where each handler step leaves the request of its browser.
ResumesAs(b, at, u) ==
  Becomes(b, Req(at, request[b].how, request[b].proof, u, request[b].copy))
Resumes(b, at) == ResumesAs(b, at, request[b].user)

LEMMA SignUpMoves ==
  ASSUME NEW b \in Browsers
  PROVE  /\ Register(b) => Becomes(b, Req("start", "register", NoProof, user', NoMfa))
         /\ DemoLogin(b) => Becomes(b, Req("start", "demo", NoProof, user', NoMfa))
         /\ PasswordLogin(b) => Becomes(b, Req("step-up", "password", NoProof, user, NoMfa))
<1>1. Register(b) => Becomes(b, Req("start", "register", NoProof, user', NoMfa))
  BY DEF Register, Awaits, Becomes, Req
<1>2. DemoLogin(b) => Becomes(b, Req("start", "demo", NoProof, user', NoMfa))
  BY DEF DemoLogin, Awaits, Becomes, Req
<1>3. PasswordLogin(b) => Becomes(b, Req("step-up", "password", NoProof, user, NoMfa))
  BY DEF PasswordLogin, Awaits, Becomes, Req
<1> QED
  BY <1>1, <1>2, <1>3

LEMMA StepUpMoves ==
  ASSUME RequestsTyped, NEW b \in Browsers, StepUp(b)
  PROVE  /\ request[b].at = "step-up"
         /\ \/ Becomes(b, Req("ready", "none", NoProof, request[b].user, NoMfa))
            \/ Resumes(b, "start")
<1>1. CASE mfa.enabled /\ user = request[b].user
  BY <1>1, ReadyIsTyped DEF StepUp, At, Becomes, Req
<1>2. CASE ~(mfa.enabled /\ user = request[b].user)
  <2>1. request' = [request EXCEPT ![b].at = "start"]
    BY <1>2 DEF StepUp
  <2> QED
    BY <2>1, RequestAdvances DEF StepUp, At, Resumes, ResumesAs
<1> QED
  BY <1>1, <1>2

LEMMA EnterCodeMoves ==
  ASSUME RequestsTyped, NEW b \in Browsers, EnterCode(b)
  PROVE  /\ request[b].at = "ready" /\ user = request[b].user
         /\ \/ Becomes(b, Req("user", "mfa", request[b].proof, request[b].user, request[b].copy))
            \/ \E c \in mfa.codes :
                 Becomes(b, Req("recover", "recovery", CodeProof(c), request[b].user,
                                [mfa EXCEPT !.codes = @ \ {c}]))
<1>1. CASE request' = [request EXCEPT ![b].at = "user", ![b].how = "mfa"]
  BY <1>1, RequestAdvances DEF EnterCode, At
<1>2. ASSUME NEW c \in mfa.codes,
             request' = [request EXCEPT ![b].at = "recover", ![b].how = "recovery",
                                        ![b].proof = CodeProof(c),
                                        ![b].copy = [mfa EXCEPT !.codes = @ \ {c}]]
      PROVE  Becomes(b, Req("recover", "recovery", CodeProof(c), request[b].user,
                            [mfa EXCEPT !.codes = @ \ {c}]))
  BY <1>2, RequestAdvances
<1> QED
  BY <1>1, <1>2 DEF EnterCode, At

LEMMA IdentifyMoves ==
  ASSUME RequestsTyped, NEW b \in Browsers, Identify(b)
  PROVE  /\ request[b].at = "identify"
         /\ \/ Becomes(b, Ready)
            \/ identity # 0 /\ ResumesAs(b, "start", identity)
            \/ Resumes(b, "adopt")
<1>1. CASE Refuse(b)
  BY <1>1 DEF Identify, At, Refuse, Becomes
<1>2. CASE identity # 0 /\ request' = [request EXCEPT ![b].at = "start", ![b].user = identity]
  BY <1>2, RequestAdvances DEF Identify, At, ResumesAs
<1>3. CASE request' = [request EXCEPT ![b].at = "adopt"]
  BY <1>3, RequestAdvances DEF Identify, At, Resumes, ResumesAs
<1> QED
  BY <1>1, <1>2, <1>3 DEF Identify

LEMMA LinkingMoves ==
  ASSUME RequestsTyped, NEW b \in Browsers
  PROVE  /\ Adopt(b) => request[b].at = "adopt" /\ ResumesAs(b, "link", user')
         /\ Link(b) => request[b].at = "link" /\ Resumes(b, "start")
         /\ Recover(b) => request[b].at = "recover" /\ Resumes(b, "user")
<1>1. Adopt(b) => /\ request[b].at = "adopt"
                  /\ request' = [request EXCEPT ![b].at = "link", ![b].user = user']
  BY DEF Adopt, At
<1>2. Link(b) => request[b].at = "link" /\ request' = [request EXCEPT ![b].at = "start"]
  BY DEF Link, At
<1>3. Recover(b) => request[b].at = "recover" /\ request' = [request EXCEPT ![b].at = "user"]
  BY DEF Recover, At
<1> QED
  BY <1>1, <1>2, <1>3, RequestAdvances DEF Resumes, ResumesAs

LEMMA GetUserMoves ==
  ASSUME RequestsTyped, NEW b \in Browsers, GetUser(b)
  PROVE  /\ request[b].at = "user"
         /\ \/ Becomes(b, Ready)
            \/ user = request[b].user /\ Resumes(b, "start")
<1>1. CASE user = request[b].user
  <2>1. request' = [request EXCEPT ![b].at = "start"]
    BY <1>1 DEF GetUser
  <2> QED
    BY <1>1, <2>1, RequestAdvances DEF GetUser, At, Resumes, ResumesAs
<1>2. CASE user # request[b].user
  BY <1>2 DEF GetUser, At, Refuse, Becomes
<1> QED
  BY <1>1, <1>2

LEMMA ReadMfaMoves ==
  ASSUME RequestsTyped, NEW b \in Browsers, ReadMfa(b)
  PROVE  /\ request[b].at = "owner"
         /\ \/ Becomes(b, Ready)
            \/ Becomes(b, Req("set", request[b].how, request[b].proof, request[b].user, mfa))
<1>1. CASE Refuse(b)
  BY <1>1 DEF ReadMfa, Owner, At, Refuse, Becomes
<1>2. CASE request' = [request EXCEPT ![b].at = "set", ![b].copy = mfa]
  BY <1>2, RequestAdvances DEF ReadMfa, Owner, At
<1> QED
  BY <1>1, <1>2 DEF ReadMfa

LEMMA AskAsOwnerMoves ==
  ASSUME NEW b \in Browsers, AskAsOwner(b)
  PROVE  \/ UNCHANGED request
         \/ \E op \in OwnerOps :
              session[b] # 0 /\ Becomes(b, Req("owner", op, NoProof, session[b], NoMfa))
<1>1. ASSUME NEW op \in OwnerOps, Awaits(b, "owner", op, NoProof, session[b])
      PROVE  Becomes(b, Req("owner", op, NoProof, session[b], NoMfa))
  BY <1>1 DEF Awaits, Becomes, Req
<1> QED
  BY <1>1 DEF AskAsOwner, ReadSession

LEMMA RedeemerMoves ==
  ASSUME NEW b \in Browsers, NEW p \in open
  PROVE  /\ VerifyMagic(b, p) => Becomes(b, Req("user", "magic", p, p.user, NoMfa))
         /\ PasskeyLogin(b, p) => \/ Becomes(b, Req("user", "passkey", p, passkey, NoMfa))
                                  \/ Becomes(b, Ready)
         /\ OAuthCallback(b, p) => Becomes(b, Req("identify", "oauth", p, 0, NoMfa))
<1>1. VerifyMagic(b, p) => Becomes(b, Req("user", "magic", p, p.user, NoMfa))
  BY DEF VerifyMagic, Awaits, Becomes, Req
<1>2. PasskeyLogin(b, p) => \/ Becomes(b, Req("user", "passkey", p, passkey, NoMfa))
                            \/ Becomes(b, Ready)
  BY DEF PasskeyLogin, Awaits, Refuse, Becomes, Req
<1>3. OAuthCallback(b, p) => Becomes(b, Req("identify", "oauth", p, 0, NoMfa))
  BY DEF OAuthCallback, Awaits, Becomes, Req
<1> QED
  BY <1>1, <1>2, <1>3

\* The handler has answered.
Answers(b) ==
  \/ LeaveCode(b) \/ StartSession(b) \/ Enroll(b) \/ SetMfa(b) \/ AddPasskey(b)
  \/ ForgetPasskey(b) \/ MakeToken(b) \/ RevokeToken(b) \/ Logout(b) \/ DeleteAccount(b)

LEMMA AnswerMoves ==
  ASSUME NEW b \in Browsers, Answers(b)
  PROVE  Becomes(b, Ready)
  BY DEF Answers, LeaveCode, StartSession, Enroll, SetMfa, AddPasskey, ForgetPasskey, MakeToken,
         RevokeToken, Logout, DeleteAccount, Refuse, Becomes

-----------------------------------------------------------------------------
\* Typing: the rows of the store, what the browsers hold, the requests.
RowsMoveOn == /\ RowsTyped'
              /\ lastUser' \in {lastUser, lastUser + 1}
              /\ enrolled' \in {enrolled, enrolled + 1}

LEMMA RowsPreserved ==
  ASSUME AccountsTyping, [AccountsNext]_accountsVars
  PROVE  RowsMoveOn
  <1> USE DEF Histories, Rows, Second, SaveMfa, RowsMoveOn
  <1>a. /\ RequestsTyped /\ RowsTyped
        /\ lastUser \in Nat /\ enrolled \in Nat /\ 0 \in Users
    BY DEF AccountsTyping, RowsTyped, Users
  <1>d. \A b \in Browsers : /\ request[b].user \in Users /\ request[b].copy \in MfaRecords
                            /\ request[b].copy.codes \subseteq 1..enrolled
    BY <1>a, RequestParts
  <1>e. ASSUME UNCHANGED <<way, user, lastUser, Second, Rows, stale, raced>>
        PROVE  RowsMoveOn
    BY <1>a, <1>e DEF RowsTyped, Users
  <1>1. ASSUME NEW b \in Browsers, Register(b) \/ DemoLogin(b) \/ Adopt(b)
        PROVE  RowsMoveOn
    <2>1. NewUser /\ UNCHANGED <<way, enrolled, Rows, stale, raced>>
      BY <1>1 DEF Register, DemoLogin, Adopt
    <2> QED
      BY <2>1, <1>a, ReadyIsTyped DEF NewUser, RowsTyped, Users
  <1>2. ASSUME NEW b \in Browsers, Recover(b)
        PROVE  RowsMoveOn
    BY <1>2, <1>a, <1>d DEF Recover, RowsTyped, Users
  <1>3. ASSUME NEW b \in Browsers, Enroll(b)
        PROVE  RowsMoveOn
    BY <1>3, <1>a DEF Enroll, RowsTyped, Users, MfaRecords
  <1>4. ASSUME NEW b \in Browsers, SetMfa(b)
        PROVE  RowsMoveOn
    <2> DEFINE saved == IF request[b].how = "verify"
                        THEN [request[b].copy EXCEPT !.enabled = TRUE] ELSE NoMfa
    <2>1. saved \in MfaRecords /\ saved.codes \subseteq 1..enrolled
      BY <1>d, ReadyIsTyped DEF MfaRecords
    <2>2. mfa' = IF user = request[b].user THEN saved ELSE mfa
      BY <1>4 DEF SetMfa
    <2> HIDE DEF saved
    <2>3. mfa' \in MfaRecords /\ mfa'.codes \subseteq 1..enrolled
      BY <1>a, <2>1, <2>2 DEF RowsTyped
    <2>4. UNCHANGED <<way, user, lastUser, enrolled, Rows, raced>> /\ stale' \in BOOLEAN
      BY <1>4, <1>a DEF SetMfa, RowsTyped
    <2> QED
      BY <1>a, <2>3, <2>4 DEF RowsTyped, Users
  <1>5. ASSUME NEW b \in Browsers,
               Link(b) \/ AddPasskey(b) \/ ForgetPasskey(b) \/ MakeToken(b) \/ RevokeToken(b)
        PROVE  RowsMoveOn
    <2>1. /\ UNCHANGED <<way, user, lastUser, Second, stale, raced>>
          /\ passkey' \in {0, passkey, request[b].user} /\ token' \in {0, token, request[b].user}
          /\ identity' \in {identity, request[b].user}
      BY <1>5 DEF Link, AddPasskey, ForgetPasskey, MakeToken, RevokeToken
    <2> QED
      BY <2>1, <1>a, <1>d DEF RowsTyped, Users
  <1>6. ASSUME NEW b \in Browsers, DeleteAccount(b)
        PROVE  RowsMoveOn
    <2>1. UNCHANGED <<way, lastUser, enrolled, passkey, stale>>
      BY <1>6 DEF DeleteAccount
    <2>2. CASE user = request[b].user
      <3>1. /\ user' = 0 /\ mfa' = NoMfa /\ raced' \in BOOLEAN
            /\ token' \in {0, token} /\ identity' \in {0, identity}
        BY <1>6, <1>a, <2>2 DEF DeleteAccount, Purge, RowsTyped
      <3> QED
        BY <1>a, <2>1, <3>1, ReadyIsTyped DEF RowsTyped, Users
    <2>3. CASE user # request[b].user
      BY <1>6, <1>e, <2>3 DEF DeleteAccount
    <2> QED
      BY <2>2, <2>3
  <1>7. ASSUME NEW b \in Browsers,
               \/ PasswordLogin(b) \/ StepUp(b) \/ LeaveCode(b) \/ EnterCode(b)
               \/ RequestMagicLink(b) \/ StartOAuth(b) \/ StartPasskey(b)
               \/ Identify(b) \/ GetUser(b) \/ StartSession(b) \/ ExpireSession(b)
               \/ AskAsOwner(b) \/ ReadMfa(b) \/ Logout(b)
        PROVE  RowsMoveOn
    BY <1>e, <1>7 DEF PasswordLogin, StepUp, LeaveCode, EnterCode, RequestMagicLink, StartOAuth,
                      StartPasskey, Identify, GetUser, StartSession, ExpireSession, AskAsOwner,
                      ReadMfa, Logout
  <1>8. ASSUME NEW p \in open,
               \/ ExpireProof(p)
               \/ \E b \in Browsers : VerifyMagic(b, p) \/ PasskeyLogin(b, p) \/ OAuthCallback(b, p)
        PROVE  RowsMoveOn
    BY <1>e, <1>8 DEF ExpireProof, VerifyMagic, PasskeyLogin, OAuthCallback
  <1>9. CASE UNCHANGED accountsVars
    BY <1>e, <1>9 DEF accountsVars
  <1> QED
    BY <1>1, <1>2, <1>3, <1>4, <1>5, <1>6, <1>7, <1>8, <1>9 DEF AccountsNext

LEMMA BrowsersPreserved ==
  ASSUME AccountsTyping, [AccountsNext]_accountsVars, RowsMoveOn
  PROVE  BrowsersTyped'
  <1> USE DEF Histories, Rows, Second
  <1>a. /\ BrowsersTyped /\ user \in Users /\ 0 \in Users' /\ Users \subseteq Users'
        /\ "form" \in Screens /\ "code" \in Screens /\ "home" \in Screens
    BY DEF AccountsTyping, RowsTyped, RowsMoveOn, Users, Screens
  <1>b. \A b \in Browsers : /\ request[b].how \in Hows /\ request[b].proof \in ProofSet
                            /\ request[b].user \in Users'
    BY <1>a, RequestParts DEF AccountsTyping
  <1>1. ASSUME UNCHANGED <<session, screen, proofs, open, signIns>>
        PROVE  BrowsersTyped'
    BY <1>a, <1>1 DEF BrowsersTyped
  <1>2. ASSUME NEW b \in Browsers, RequestMagicLink(b) \/ StartOAuth(b) \/ StartPasskey(b)
        PROVE  BrowsersTyped'
    <2>1. /\ \E p : proofs' = proofs \cup {p} /\ open' = open \cup {p}
          /\ UNCHANGED <<session, screen, signIns>>
      BY <1>2 DEF RequestMagicLink, StartOAuth, StartPasskey, Issue
    <2> QED
      BY <1>a, <2>1 DEF BrowsersTyped
  <1>3. ASSUME NEW b \in Browsers, StepUp(b) \/ LeaveCode(b) \/ GetUser(b) \/ AskAsOwner(b)
        PROVE  BrowsersTyped'
    <2>1. /\ UNCHANGED <<session, proofs, open, signIns>>
          /\ \E s \in Screens : screen' = [screen EXCEPT ![b] = s] \/ UNCHANGED screen
      BY <1>a, <1>3 DEF StepUp, LeaveCode, GetUser, AskAsOwner
    <2> QED
      BY <1>a, <2>1 DEF BrowsersTyped
  <1>4. ASSUME NEW b \in Browsers, StartSession(b)
        PROVE  BrowsersTyped'
    <2>1. [how |-> request[b].how, proof |-> request[b].proof] \in SignInSet
      BY <1>b DEF SignInSet
    <2>2. signIns' \in Seq(SignInSet)
      BY <1>a, <1>4, <2>1 DEF StartSession, BrowsersTyped
    <2>3. /\ session' = [session EXCEPT ![b] = request[b].user]
          /\ screen' = [screen EXCEPT ![b] = "home"] /\ UNCHANGED <<proofs, open>>
      BY <1>4 DEF StartSession
    <2> QED
      BY <1>a, <1>b, <2>2, <2>3 DEF BrowsersTyped
  <1>5. ASSUME NEW b \in Browsers, ExpireSession(b) \/ Logout(b)
        PROVE  BrowsersTyped'
    <2>1. /\ session' = [session EXCEPT ![b] = 0] /\ UNCHANGED <<proofs, open, signIns>>
          /\ \E s \in Screens : screen' = [screen EXCEPT ![b] = s] \/ UNCHANGED screen
      BY <1>a, <1>5 DEF ExpireSession, Logout
    <2> QED
      BY <1>a, <2>1 DEF BrowsersTyped
  <1>6. ASSUME NEW b \in Browsers, DeleteAccount(b)
        PROVE  BrowsersTyped'
    <2>1. CASE user = request[b].user
      <3>1. /\ session' = [c \in Browsers |-> IF session[c] = user THEN 0 ELSE session[c]]
            /\ screen' = [screen EXCEPT ![b] = "form"] /\ UNCHANGED <<proofs, open, signIns>>
        BY <1>6, <2>1 DEF DeleteAccount, Purge
      <3> QED
        BY <1>a, <3>1 DEF BrowsersTyped
    <2>2. CASE user # request[b].user
      BY <1>1, <1>6, <2>2 DEF DeleteAccount
    <2> QED
      BY <2>1, <2>2
  <1>7. ASSUME NEW b \in Browsers,
               \/ Register(b) \/ DemoLogin(b) \/ PasswordLogin(b) \/ EnterCode(b) \/ Recover(b)
               \/ Identify(b) \/ Adopt(b) \/ Link(b) \/ Enroll(b) \/ ReadMfa(b) \/ SetMfa(b)
               \/ AddPasskey(b) \/ ForgetPasskey(b) \/ MakeToken(b) \/ RevokeToken(b)
        PROVE  BrowsersTyped'
    BY <1>1, <1>7 DEF Register, DemoLogin, PasswordLogin, EnterCode, Recover, Identify, Adopt, Link,
                      Enroll, ReadMfa, SetMfa, AddPasskey, ForgetPasskey, MakeToken, RevokeToken
  <1>8. ASSUME NEW p \in open,
               \/ ExpireProof(p)
               \/ \E b \in Browsers : VerifyMagic(b, p) \/ PasskeyLogin(b, p) \/ OAuthCallback(b, p)
        PROVE  BrowsersTyped'
    <2>1. open' = open \ {p} /\ UNCHANGED <<session, screen, proofs, signIns>>
      BY <1>8 DEF ExpireProof, VerifyMagic, PasskeyLogin, OAuthCallback, Redeem
    <2> QED
      BY <1>a, <2>1 DEF BrowsersTyped
  <1>9. CASE UNCHANGED accountsVars
    BY <1>1, <1>9 DEF accountsVars
  <1> QED
    BY <1>2, <1>3, <1>4, <1>5, <1>6, <1>7, <1>8, <1>9 DEF AccountsNext

LEMMA RequestsPreserved ==
  ASSUME AccountsTyping, ProofsNumbered, [AccountsNext]_accountsVars, RowsMoveOn
  PROVE  RequestsTyped'
  <1>a. /\ RequestsTyped /\ RowsTyped
        /\ lastUser \in Nat /\ lastUser' \in Nat /\ lastUser <= lastUser'
        /\ enrolled \in Nat /\ enrolled' \in Nat /\ enrolled <= enrolled'
        /\ Users \subseteq Users' /\ 0 \in Users' /\ user' \in Users' /\ 1..enrolled \subseteq 1..enrolled'
    BY DEF AccountsTyping, RowsTyped, RowsMoveOn, Users
  <1>b. ASSUME NEW b \in Browsers
        PROVE  /\ request[b].how \in Hows /\ request[b].proof \in ProofSet
               /\ request[b].user \in Users' /\ request[b].copy \in MfaRecords
               /\ request[b].copy.codes \subseteq 1..enrolled'
    BY <1>a, RequestParts
  <1>c. ASSUME NEW b \in Browsers, NEW at \in Steps, NEW how \in Hows, NEW proof \in ProofSet,
               NEW u \in Users', NEW copy \in MfaRecords, copy.codes \subseteq 1..enrolled',
               Becomes(b, Req(at, how, proof, u, copy))
        PROVE  RequestsTyped'
    BY <1>a, <1>c, RequestStaysTyped
  <1>d. ASSUME NEW b \in Browsers, NEW at \in Steps, NEW how \in Hows, NEW proof \in ProofSet,
               NEW u \in Users', Becomes(b, Req(at, how, proof, u, NoMfa))
        PROVE  RequestsTyped'
    BY <1>c, <1>d, ReadyIsTyped
  <1>e. ASSUME NEW b \in Browsers, NEW at \in Steps, NEW u \in Users', ResumesAs(b, at, u)
        PROVE  RequestsTyped'
    BY <1>b, <1>c, <1>e DEF ResumesAs
  <1>f. ASSUME NEW b \in Browsers, NEW at \in Steps, Resumes(b, at)
        PROVE  RequestsTyped'
    BY <1>b, <1>e, <1>f DEF Resumes
  <1>g. /\ {"ready", "step-up", "start", "user", "recover", "identify", "adopt", "link", "owner",
            "set"} \subseteq Steps
        /\ {"none", "register", "demo", "password", "mfa", "recovery", "magic", "passkey",
            "oauth"} \subseteq Hows
        /\ OwnerOps \subseteq Hows
    BY DEF Steps, Hows, OwnerOps
  <1>h. ASSUME NEW b \in Browsers, Becomes(b, Ready)
        PROVE  RequestsTyped'
    BY <1>a, <1>d, <1>g, <1>h, ReadyIsTyped
  <1>i. ASSUME UNCHANGED request
        PROVE  RequestsTyped'
    BY <1>a, <1>i DEF RequestsTyped
  <1>1. ASSUME NEW b \in Browsers, Register(b) \/ DemoLogin(b) \/ PasswordLogin(b)
        PROVE  RequestsTyped'
    <2>1. user \in Users'
      BY <1>a DEF RowsTyped
    <2> QED
      BY <1>1, <1>a, <1>d, <1>g, <2>1, SignUpMoves, ReadyIsTyped
  <1>2. ASSUME NEW b \in Browsers, StepUp(b)
        PROVE  RequestsTyped'
    BY <1>2, <1>a, <1>b, <1>d, <1>f, <1>g, StepUpMoves, ReadyIsTyped
  <1>3. ASSUME NEW b \in Browsers, EnterCode(b)
        PROVE  RequestsTyped'
    <2>1. CASE Becomes(b, Req("user", "mfa", request[b].proof, request[b].user, request[b].copy))
      BY <2>1, <1>b, <1>c, <1>g
    <2>2. ASSUME NEW c \in mfa.codes,
                 Becomes(b, Req("recover", "recovery", CodeProof(c), request[b].user,
                                [mfa EXCEPT !.codes = @ \ {c}]))
          PROVE  RequestsTyped'
      <3> DEFINE copy == [mfa EXCEPT !.codes = @ \ {c}]
      <3>1. copy \in MfaRecords /\ copy.codes = mfa.codes \ {c}
        BY <1>a, CodeTakenOut DEF RowsTyped
      <3>2. c \in Nat /\ copy.codes \subseteq 1..enrolled'
        BY <1>a, <3>1 DEF RowsTyped
      <3>3. CodeProof(c) \in ProofSet
        BY <3>2, CodeIsTyped
      <3> HIDE DEF copy
      <3>4. Becomes(b, Req("recover", "recovery", CodeProof(c), request[b].user, copy))
        BY <2>2 DEF copy
      <3> QED
        BY <3>1, <3>2, <3>3, <3>4, <1>b, <1>c, <1>g
    <2> QED
      BY <1>3, <1>a, <2>1, <2>2, EnterCodeMoves
  <1>4. ASSUME NEW b \in Browsers, Identify(b)
        PROVE  RequestsTyped'
    <2>1. identity \in Users'
      BY <1>a DEF RowsTyped
    <2> QED
      BY <1>4, <1>a, <1>e, <1>f, <1>g, <1>h, <2>1, IdentifyMoves
  <1>5. ASSUME NEW b \in Browsers, Adopt(b) \/ Link(b) \/ Recover(b)
        PROVE  RequestsTyped'
    BY <1>5, <1>a, <1>e, <1>f, <1>g, LinkingMoves
  <1>6. ASSUME NEW b \in Browsers, GetUser(b)
        PROVE  RequestsTyped'
    BY <1>6, <1>a, <1>f, <1>g, <1>h, GetUserMoves
  <1>7. ASSUME NEW b \in Browsers, AskAsOwner(b)
        PROVE  RequestsTyped'
    <2>1. session[b] \in Users'
      BY <1>a DEF AccountsTyping, BrowsersTyped
    <2> QED
      BY <1>7, <1>d, <1>g, <1>i, <2>1, AskAsOwnerMoves, ReadyIsTyped
  <1>8. ASSUME NEW b \in Browsers, ReadMfa(b)
        PROVE  RequestsTyped'
    <2>1. mfa \in MfaRecords /\ mfa.codes \subseteq 1..enrolled'
      BY <1>a DEF RowsTyped
    <2>2. CASE Becomes(b, Req("set", request[b].how, request[b].proof, request[b].user, mfa))
      BY <2>1, <2>2, <1>b, <1>c, <1>g
    <2> QED
      BY <1>8, <1>a, <1>h, <2>2, ReadMfaMoves
  <1>9. ASSUME NEW b \in Browsers, Answers(b)
        PROVE  RequestsTyped'
    BY <1>9, <1>h, AnswerMoves
  <1>10. ASSUME NEW b \in Browsers, NEW p \in open,
                VerifyMagic(b, p) \/ PasskeyLogin(b, p) \/ OAuthCallback(b, p)
         PROVE  RequestsTyped'
    <2>1. p \in ProofSet /\ p.user \in Users' /\ passkey \in Users'
      BY <1>a DEF AccountsTyping, BrowsersTyped, ProofsNumbered, RowsTyped
    <2> QED
      BY <1>10, <1>a, <1>d, <1>g, <1>h, <2>1, RedeemerMoves
  <1>11. ASSUME NEW b \in Browsers,
                RequestMagicLink(b) \/ StartOAuth(b) \/ StartPasskey(b) \/ ExpireSession(b)
         PROVE  RequestsTyped'
    BY <1>11, <1>i DEF RequestMagicLink, StartOAuth, StartPasskey, ExpireSession
  <1>12. ASSUME NEW p \in open, ExpireProof(p)
         PROVE  RequestsTyped'
    BY <1>12, <1>i DEF ExpireProof
  <1>13. CASE UNCHANGED accountsVars
    BY <1>13, <1>i DEF accountsVars
  <1> QED
    BY <1>1, <1>2, <1>3, <1>4, <1>5, <1>6, <1>7, <1>8, <1>9, <1>10, <1>11, <1>12, <1>13
    DEF AccountsNext, Answers

LEMMA TypingPreserved ==
  ASSUME AccountsTyping, ProofsNumbered, [AccountsNext]_accountsVars
  PROVE  AccountsTyping' /\ RowsMoveOn
  BY RowsPreserved, BrowsersPreserved, RequestsPreserved DEF AccountsTyping, RowsMoveOn

-----------------------------------------------------------------------------
\* What issuing a link, a state or a challenge adds.
LEMMA IssueNumbers ==
  ASSUME ProofsNumbered, NEW kind \in {"magic", "state", "challenge"}, NEW u \in Users,
         kind = "magic" => u # 0, lastUser \in Nat, UNCHANGED lastUser, Issue(kind, u)
  PROVE  /\ ProofsNumbered'
         /\ \E p : p \notin proofs /\ proofs' = proofs \cup {p} /\ open' = open \cup {p}
<1> DEFINE p == [kind |-> kind, n |-> Cardinality(proofs) + 1, user |-> u]
<1>1. Cardinality(proofs) \in Nat
  BY FS_CardinalityType DEF ProofsNumbered
<1>2. proofs' = proofs \cup {p} /\ open' = open \cup {p} /\ p \notin proofs
  BY <1>1 DEF Issue, ProofsNumbered
<1>3. IsFiniteSet(proofs') /\ Cardinality(proofs') = Cardinality(proofs) + 1
  BY <1>2, FS_AddElement DEF ProofsNumbered
<1>4. p \in ProofSet /\ p.kind = kind /\ p.n \in 1..Cardinality(proofs') /\ p.user \in Users'
      /\ (p.kind = "magic" => p.user # 0)
  BY <1>1, <1>3 DEF ProofSet, ProofKinds, Users
<1>5. \A q \in proofs : /\ q \in ProofSet /\ q.kind \in {"magic", "state", "challenge"}
                        /\ q.n \in 1..Cardinality(proofs') /\ q.user \in Users'
                        /\ q.kind = "magic" => q.user # 0
  BY <1>1, <1>3 DEF ProofsNumbered, Users
<1> QED
  BY <1>2, <1>3, <1>4, <1>5 DEF ProofsNumbered

LEMMA NumberingPreserved ==
  ASSUME AccountsTyping, ProofsNumbered, [AccountsNext]_accountsVars
  PROVE  ProofsNumbered'
  <1>1. lastUser \in Nat /\ user \in Users /\ 0 \in Users
    BY DEF AccountsTyping, RowsTyped, Users
  <1>2. ASSUME NEW b \in Browsers, RequestMagicLink(b) \/ StartOAuth(b) \/ StartPasskey(b)
        PROVE  ProofsNumbered'
    BY <1>1, <1>2, IssueNumbers DEF RequestMagicLink, StartOAuth, StartPasskey
  <1>3. ASSUME UNCHANGED proofs, lastUser' \in {lastUser, lastUser + 1}
        PROVE  ProofsNumbered'
    BY <1>1, <1>3 DEF ProofsNumbered, Users
  <1>4. ASSUME NEW b \in Browsers, Register(b) \/ DemoLogin(b) \/ Adopt(b)
        PROVE  ProofsNumbered'
    BY <1>3, <1>4 DEF Register, DemoLogin, Adopt, NewUser
  <1>5. ASSUME NEW b \in Browsers,
               \/ PasswordLogin(b) \/ StepUp(b) \/ LeaveCode(b) \/ EnterCode(b) \/ Recover(b)
               \/ Identify(b) \/ Link(b) \/ GetUser(b) \/ StartSession(b) \/ ExpireSession(b)
               \/ AskAsOwner(b)
        PROVE  ProofsNumbered'
    BY <1>3, <1>5 DEF PasswordLogin, StepUp, LeaveCode, EnterCode, Recover, Identify, Link,
                      GetUser, StartSession, ExpireSession, AskAsOwner
  <1>6. ASSUME NEW b \in Browsers,
               \/ Enroll(b) \/ ReadMfa(b) \/ SetMfa(b) \/ AddPasskey(b) \/ ForgetPasskey(b)
               \/ MakeToken(b) \/ RevokeToken(b) \/ Logout(b) \/ DeleteAccount(b)
        PROVE  ProofsNumbered'
    BY <1>3, <1>6 DEF Enroll, ReadMfa, SetMfa, AddPasskey, ForgetPasskey, MakeToken, RevokeToken,
                      Logout, DeleteAccount
  <1>7. ASSUME NEW p \in open,
               \/ ExpireProof(p)
               \/ \E b \in Browsers : VerifyMagic(b, p) \/ PasskeyLogin(b, p) \/ OAuthCallback(b, p)
        PROVE  ProofsNumbered'
    BY <1>3, <1>7 DEF ExpireProof, VerifyMagic, PasskeyLogin, OAuthCallback
  <1>8. CASE UNCHANGED accountsVars
    BY <1>3, <1>8 DEF accountsVars
  <1> QED
    BY <1>2, <1>4, <1>5, <1>6, <1>7, <1>8 DEF AccountsNext

-----------------------------------------------------------------------------
\* A step that redeems nothing and starts no session: a request keeps the proof
\* it carries or lets go of it, and only what is new becomes redeemable.
Drops(b) == request'[b].proof = NoProof /\ request'[b].at # "recover"
Keeps(b) ==
  /\ request'[b].proof = request[b].proof /\ request'[b].how = request[b].how
  /\ request'[b].at \notin {"ready", "recover"} /\ request[b].at # "recover"

QuietRequests == \A b \in Browsers : request'[b] = request[b] \/ Drops(b) \/ Keeps(b)
QuietProofs == proofs \subseteq proofs' /\ open' \subseteq open \cup (proofs' \ proofs)
QuietCodes ==
  /\ enrolled' \in {enrolled, enrolled + 1}
  /\ ~stale' => /\ ~stale
                /\ \A c \in mfa'.codes : \/ c \in mfa.codes /\ user' = user
                                         \/ c > enrolled
QuietStep == QuietRequests /\ QuietProofs /\ QuietCodes /\ signIns' = signIns

\* The steps in which a proof or a code changes hands.
Transfer(b) == \/ EnterCode(b) \/ Recover(b) \/ StartSession(b)
               \/ \E p \in open : VerifyMagic(b, p) \/ PasskeyLogin(b, p) \/ OAuthCallback(b, p)

LEMMA ReadyIsQuiet ==
  ASSUME RequestsTyped, NEW b \in Browsers, Becomes(b, Ready)
  PROVE  QuietRequests
  BY RequestMoves, ReadyIsTyped DEF QuietRequests, Drops

LEMMA AskingIsQuiet ==
  ASSUME RequestsTyped, NEW b \in Browsers, NEW at, NEW how, NEW u, NEW copy,
         Becomes(b, Req(at, how, NoProof, u, copy)), at # "recover"
  PROVE  QuietRequests
  BY RequestMoves DEF QuietRequests, Drops

LEMMA GoingOnIsQuiet ==
  ASSUME RequestsTyped, NEW b \in Browsers, NEW at, NEW u, NEW copy,
         Becomes(b, Req(at, request[b].how, request[b].proof, u, copy)),
         at \notin {"ready", "recover"}, request[b].at # "recover"
  PROVE  QuietRequests
  BY RequestMoves DEF QuietRequests, Keeps

LEMMA ResumingAsIsQuiet ==
  ASSUME RequestsTyped, NEW b \in Browsers, NEW at, NEW u, ResumesAs(b, at, u),
         at \notin {"ready", "recover"}, request[b].at # "recover"
  PROVE  QuietRequests
  BY GoingOnIsQuiet DEF ResumesAs

LEMMA ResumingIsQuiet ==
  ASSUME RequestsTyped, NEW b \in Browsers, NEW at, Resumes(b, at),
         at \notin {"ready", "recover"}, request[b].at # "recover"
  PROVE  QuietRequests
  BY ResumingAsIsQuiet DEF Resumes

LEMMA QuietRequestSteps ==
  ASSUME AccountsTyping, [AccountsNext]_accountsVars
  PROVE  QuietRequests \/ \E b \in Browsers : Transfer(b)
  <1> SUFFICES ASSUME ~ \E b \in Browsers : Transfer(b)
               PROVE  QuietRequests
    OBVIOUS
  <1>a. RequestsTyped
    BY DEF AccountsTyping
  <1>1. ASSUME NEW b \in Browsers, Register(b) \/ DemoLogin(b) \/ PasswordLogin(b)
        PROVE  QuietRequests
    BY <1>1, <1>a, SignUpMoves, AskingIsQuiet
  <1>2. ASSUME NEW b \in Browsers, StepUp(b)
        PROVE  QuietRequests
    <2>1. CASE Becomes(b, Req("ready", "none", NoProof, request[b].user, NoMfa))
      BY <2>1, <1>a, AskingIsQuiet
    <2>2. CASE Resumes(b, "start") /\ request[b].at = "step-up"
      BY <2>2, <1>a, ResumingIsQuiet
    <2> QED
      BY <1>2, <1>a, <2>1, <2>2, StepUpMoves
  <1>3. ASSUME NEW b \in Browsers, Identify(b)
        PROVE  QuietRequests
    <2>1. CASE Becomes(b, Ready)
      BY <2>1, <1>a, ReadyIsQuiet
    <2>2. CASE ResumesAs(b, "start", identity) /\ request[b].at = "identify"
      BY <2>2, <1>a, ResumingAsIsQuiet
    <2>3. CASE Resumes(b, "adopt") /\ request[b].at = "identify"
      BY <2>3, <1>a, ResumingIsQuiet
    <2> QED
      BY <1>3, <1>a, <2>1, <2>2, <2>3, IdentifyMoves
  <1>4. ASSUME NEW b \in Browsers, Adopt(b) \/ Link(b)
        PROVE  QuietRequests
    BY <1>4, <1>a, LinkingMoves, ResumingIsQuiet, ResumingAsIsQuiet
  <1>5. ASSUME NEW b \in Browsers, GetUser(b)
        PROVE  QuietRequests
    BY <1>5, <1>a, GetUserMoves, ReadyIsQuiet, ResumingIsQuiet
  <1>6. ASSUME NEW b \in Browsers, AskAsOwner(b)
        PROVE  QuietRequests
    BY <1>6, <1>a, AskAsOwnerMoves, AskingIsQuiet DEF QuietRequests
  <1>7. ASSUME NEW b \in Browsers, ReadMfa(b)
        PROVE  QuietRequests
    <2>1. CASE Becomes(b, Ready)
      BY <2>1, <1>a, ReadyIsQuiet
    <2>2. CASE /\ Becomes(b, Req("set", request[b].how, request[b].proof, request[b].user, mfa))
               /\ request[b].at = "owner"
      <3> DEFINE was == request[b]
      <3>1. Becomes(b, Req("set", was.how, was.proof, was.user, mfa)) /\ was.at # "recover"
        BY <2>2
      <3> QED
        BY <3>1, <1>a, GoingOnIsQuiet
    <2> QED
      BY <1>7, <1>a, <2>1, <2>2, ReadMfaMoves
  <1>8. ASSUME NEW b \in Browsers, Answers(b)
        PROVE  QuietRequests
    BY <1>8, <1>a, AnswerMoves, ReadyIsQuiet
  <1>9. ASSUME UNCHANGED request
        PROVE  QuietRequests
    BY <1>9 DEF QuietRequests
  <1>10. ASSUME NEW b \in Browsers,
                RequestMagicLink(b) \/ StartOAuth(b) \/ StartPasskey(b) \/ ExpireSession(b)
         PROVE  QuietRequests
    BY <1>9, <1>10 DEF RequestMagicLink, StartOAuth, StartPasskey, ExpireSession
  <1>11. ASSUME NEW p \in open, ExpireProof(p)
         PROVE  QuietRequests
    BY <1>9, <1>11 DEF ExpireProof
  <1>12. CASE UNCHANGED accountsVars
    BY <1>9, <1>12 DEF accountsVars
  <1> QED
    BY <1>1, <1>2, <1>3, <1>4, <1>5, <1>6, <1>7, <1>8, <1>10, <1>11, <1>12
    DEF AccountsNext, Answers, Transfer

LEMMA QuietSteps ==
  ASSUME AccountsTyping, ProofsNumbered, RowsMoveOn, [AccountsNext]_accountsVars
  PROVE  QuietStep \/ \E b \in Browsers : Transfer(b)
  <1> SUFFICES ASSUME QuietRequests, ~ \E b \in Browsers : Transfer(b)
               PROVE  QuietProofs /\ QuietCodes /\ signIns' = signIns
    BY QuietRequestSteps DEF QuietStep
  <1> USE DEF Histories, Rows, Second
  <1>a. enrolled \in Nat /\ enrolled' \in {enrolled, enrolled + 1}
    BY DEF AccountsTyping, RowsTyped, RowsMoveOn
  <1>1. ASSUME UNCHANGED <<proofs, signIns>>, open' \subseteq open
        PROVE  QuietProofs /\ signIns' = signIns
    BY <1>1 DEF QuietProofs
  <1>2. ASSUME UNCHANGED <<mfa, user, stale>>
        PROVE  QuietCodes
    BY <1>2, <1>a DEF QuietCodes
  <1>3. ASSUME mfa'.codes = {}, UNCHANGED stale
        PROVE  QuietCodes
    BY <1>3, <1>a DEF QuietCodes
  <1>4. ASSUME NEW b \in Browsers, Register(b) \/ DemoLogin(b) \/ Adopt(b)
        PROVE  QuietProofs /\ QuietCodes /\ signIns' = signIns
    <2>1. NewUser /\ UNCHANGED <<proofs, open, signIns, stale>>
      BY <1>4 DEF Register, DemoLogin, Adopt
    <2> QED
      BY <1>1, <1>2, <1>3, <2>1, ReadyIsTyped DEF NewUser
  <1>5. ASSUME NEW b \in Browsers, RequestMagicLink(b) \/ StartOAuth(b) \/ StartPasskey(b)
        PROVE  QuietProofs /\ QuietCodes /\ signIns' = signIns
    <2>1. UNCHANGED <<lastUser, mfa, user, stale, signIns>> /\ lastUser \in Nat
      BY <1>5 DEF RequestMagicLink, StartOAuth, StartPasskey, AccountsTyping, RowsTyped
    <2>2. \E kind \in {"magic", "state", "challenge"}, u \in Users :
            (kind = "magic" => u # 0) /\ Issue(kind, u)
      BY <1>5 DEF RequestMagicLink, StartOAuth, StartPasskey, AccountsTyping, RowsTyped, Users
    <2>3. \E p : p \notin proofs /\ proofs' = proofs \cup {p} /\ open' = open \cup {p}
      BY <2>1, <2>2, IssueNumbers
    <2> QED
      BY <1>2, <2>1, <2>3 DEF QuietProofs
  <1>6. ASSUME NEW b \in Browsers, Enroll(b)
        PROVE  QuietProofs /\ QuietCodes /\ signIns' = signIns
    <2>1. /\ mfa' = IF user = request[b].user
                    THEN [secret |-> enrolled', enabled |-> FALSE, codes |-> {enrolled'}] ELSE mfa
          /\ enrolled' = enrolled + 1 /\ stale' = (stale \/ mfa # mfa)
          /\ UNCHANGED <<user, proofs, open, signIns>>
      BY <1>6 DEF Enroll, SaveMfa
    <2>2. \A c \in mfa'.codes : c \in mfa.codes \/ c = enrolled + 1
      BY <2>1
    <2>3. user' = user /\ \A c \in mfa'.codes : c \in mfa.codes \/ c > enrolled
      BY <1>a, <2>1, <2>2
    <2>4. ~stale' => ~stale
      BY <2>1
    <2>5. QuietCodes
      BY <1>a, <2>3, <2>4 DEF QuietCodes
    <2> QED
      BY <1>1, <2>1, <2>5
  <1>7. ASSUME NEW b \in Browsers, SetMfa(b)
        PROVE  QuietProofs /\ QuietCodes /\ signIns' = signIns
    <2>1. /\ \/ mfa' = [request[b].copy EXCEPT !.enabled = TRUE] \/ mfa' = NoMfa \/ mfa' = mfa
          /\ stale' = (stale \/ mfa # request[b].copy)
          /\ UNCHANGED <<user, proofs, open, signIns>>
      BY <1>7 DEF SetMfa, SaveMfa
    <2>2. mfa \in MfaRecords
      BY DEF AccountsTyping, RowsTyped
    <2>3. ~stale' => ~stale /\ mfa'.codes \subseteq mfa.codes
      BY <2>1, <2>2, ReadyIsTyped DEF MfaRecords
    <2>4. QuietCodes
      BY <1>a, <2>1, <2>3 DEF QuietCodes
    <2> QED
      BY <1>1, <2>1, <2>4
  <1>8. ASSUME NEW b \in Browsers, DeleteAccount(b)
        PROVE  QuietProofs /\ QuietCodes /\ signIns' = signIns
    <2>1. UNCHANGED <<proofs, open, signIns, stale>>
      BY <1>8 DEF DeleteAccount
    <2>2. mfa' = NoMfa \/ UNCHANGED <<mfa, user>>
      BY <1>8 DEF DeleteAccount, Purge
    <2> QED
      BY <1>1, <1>2, <1>3, <2>1, <2>2, ReadyIsTyped
  <1>9. ASSUME NEW b \in Browsers,
               \/ PasswordLogin(b) \/ StepUp(b) \/ LeaveCode(b) \/ Identify(b) \/ Link(b)
               \/ GetUser(b) \/ ExpireSession(b) \/ AskAsOwner(b) \/ ReadMfa(b) \/ AddPasskey(b)
               \/ ForgetPasskey(b) \/ MakeToken(b) \/ RevokeToken(b) \/ Logout(b)
        PROVE  QuietProofs /\ QuietCodes /\ signIns' = signIns
    <2>1. UNCHANGED <<mfa, user, stale, proofs, open, signIns>>
      BY <1>9 DEF PasswordLogin, StepUp, LeaveCode, Identify, Link, GetUser, ExpireSession,
                  AskAsOwner, ReadMfa, AddPasskey, ForgetPasskey, MakeToken, RevokeToken, Logout
    <2> QED
      BY <1>1, <1>2, <2>1
  <1>10. ASSUME NEW p \in open, ExpireProof(p)
         PROVE  QuietProofs /\ QuietCodes /\ signIns' = signIns
    BY <1>1, <1>2, <1>10 DEF ExpireProof
  <1>11. CASE UNCHANGED accountsVars
    BY <1>1, <1>2, <1>11 DEF accountsVars
  <1> QED
    BY <1>4, <1>5, <1>6, <1>7, <1>8, <1>9, <1>10, <1>11 DEF AccountsNext, Transfer

-----------------------------------------------------------------------------
\* What every step grows, and what a proof can be.
LEMMA KnownGrows ==
  ASSUME AccountsTyping, RowsMoveOn, proofs \subseteq proofs'
  PROVE  Known \subseteq Known'
  BY DEF Known, AccountsTyping, RowsTyped, RowsMoveOn

LEMMA OpenIsNoCode ==
  ASSUME AccountsTyping, ProofsNumbered, NEW p \in proofs
  PROVE  p # NoProof /\ \A c : p # CodeProof(c)
  BY DEF ProofsNumbered, CodeProof, NoProof

LEMMA QuietKnown ==
  ASSUME AccountsTyping, RowsMoveOn, RequestsKnown, QuietStep
  PROVE  RequestsKnown'
<1>1. Known \subseteq Known' /\ NoProof \in Known'
  BY KnownGrows DEF QuietStep, QuietProofs, Known
<1>2. ASSUME NEW b \in Browsers
      PROVE  /\ request'[b].proof \in Known'
             /\ request'[b].at = "ready" => request'[b].proof = NoProof
             /\ request'[b].proof.kind = "code" => request'[b].how = "recovery"
             /\ request'[b].at = "recover" =>
                  /\ request'[b].proof.kind = "code"
                  /\ request'[b].proof.n \notin request'[b].copy.codes
  <2>1. CASE request'[b] = request[b]
    BY <1>1, <2>1 DEF RequestsKnown
  <2>2. CASE Drops(b)
    BY <1>1, <2>2, ReadyIsTyped DEF Drops
  <2>3. CASE Keeps(b)
    BY <1>1, <2>3 DEF RequestsKnown, Keeps
  <2> QED
    BY <2>1, <2>2, <2>3 DEF QuietStep, QuietRequests
<1>3. \A i \in DOMAIN signIns' :
        /\ signIns'[i].proof \in Known'
        /\ signIns'[i].proof.kind = "code" => signIns'[i].how = "recovery"
  BY <1>1 DEF QuietStep, RequestsKnown
<1> QED
  BY <1>2, <1>3 DEF RequestsKnown

\* What is redeemable after a quiet step was redeemable, or is new.
LEMMA QuietRedeemable ==
  ASSUME AccountsTyping, RowsMoveOn, ProofsNumbered, ProofsNumbered', AccountsTyping', QuietStep,
         NEW p, Counts(p)', p \in Redeemable'
  PROVE  p \in Redeemable \/ p \notin Known
<1>1. ASSUME p \in open'
      PROVE  p \in Redeemable \/ p \notin Known
  <2>1. CASE p \in open
    BY <2>1 DEF Redeemable
  <2>2. CASE p \in proofs' \ proofs
    <3>1. p # NoProof /\ \A c : p # CodeProof(c)
      BY <2>2 DEF ProofsNumbered, CodeProof, NoProof
    <3> QED
      BY <2>2, <3>1 DEF Known
  <2> QED
    BY <1>1, <2>1, <2>2 DEF QuietStep, QuietProofs
<1>2. ASSUME NEW c \in mfa'.codes, p = CodeProof(c)
      PROVE  p \in Redeemable \/ p \notin Known
  <2>1. ~stale' /\ c \in Nat /\ mfa.codes \subseteq 1..enrolled
    BY <1>2, CodeIsTyped DEF Counts, AccountsTyping, RowsTyped
  <2>2. CASE c \in mfa.codes
    BY <1>2, <2>2 DEF Redeemable
  <2>3. CASE c > enrolled
    <3>1. p \notin proofs /\ p # NoProof
      BY <1>2, <2>1, OpenIsNoCode, CodeIsTyped
    <3>2. \A d \in 1..enrolled : CodeProof(d) # p
      BY <1>2, <2>1, <2>3, CodeIsTyped DEF AccountsTyping, RowsTyped
    <3> QED
      BY <3>1, <3>2 DEF Known
  <2> QED
    BY <2>1, <2>2, <2>3 DEF QuietStep, QuietCodes
<1> QED
  BY <1>1, <1>2 DEF Redeemable

LEMMA QuietSpent ==
  ASSUME AccountsTyping, RowsMoveOn, ProofsNumbered, ProofsNumbered', AccountsTyping',
         RequestsKnown, SpentOnce, QuietStep
  PROVE  SpentOnce'
  <1> SUFFICES ASSUME NEW p \in ProofSet, Counts(p)'
               PROVE  /\ p \in Redeemable' => /\ \A b \in Browsers : ~Carries(b, p)'
                                              /\ \A i \in DOMAIN signIns' : ~Used(i, p)'
                      /\ \A b, c \in Browsers : Carries(b, p)' /\ Carries(c, p)' => b = c
                      /\ \A b \in Browsers, i \in DOMAIN signIns' : ~(Carries(b, p)' /\ Used(i, p)')
                      /\ \A i, j \in DOMAIN signIns' : Used(i, p)' /\ Used(j, p)' => i = j
    BY DEF SpentOnce
  <1>1. Counts(p)
    BY DEF Counts, QuietStep, QuietCodes
  <1>2. \A b \in Browsers : Carries(b, p)' => Carries(b, p)
    BY <1>1 DEF Carries, QuietStep, QuietRequests, Drops, Keeps, Counts
  <1>3. signIns' = signIns /\ \A i : Used(i, p)' <=> Used(i, p)
    BY DEF Used, QuietStep
  <1>4. p \in Redeemable' => p \in Redeemable \/ p \notin Known
    BY QuietRedeemable
  <1>5. p \notin Known => /\ \A b \in Browsers : ~Carries(b, p)
                          /\ \A i \in DOMAIN signIns : ~Used(i, p)
    BY DEF RequestsKnown, Carries, Used
  <1> QED
    BY <1>1, <1>2, <1>3, <1>4, <1>5 DEF SpentOnce

LEMMA CodesBeingRedeemed ==
  ASSUME AccountsTyping, ProofsNumbered, RequestsKnown, NEW b \in Browsers,
         request[b].at = "recover"
  PROVE  /\ request[b].proof = CodeProof(request[b].proof.n) /\ request[b].proof # NoProof
         /\ request[b].proof.n \in 1..enrolled /\ request[b].proof.n \notin request[b].copy.codes
<1>1. request[b].proof \in Known /\ request[b].proof.kind = "code"
  BY DEF RequestsKnown
<1>2. request[b].proof \notin proofs /\ request[b].proof # NoProof
  BY <1>1, ReadyIsTyped DEF ProofsNumbered
<1>3. PICK c \in 1..enrolled : request[b].proof = CodeProof(c)
  BY <1>1, <1>2 DEF Known
<1>4. c \in Nat
  BY <1>3 DEF AccountsTyping, RowsTyped
<1> QED
  BY <1>2, <1>3, <1>4, CodeIsTyped DEF RequestsKnown

LEMMA QuietCodesStay ==
  ASSUME AccountsTyping, ProofsNumbered, RequestsKnown, CodesAreTheUsers, QuietStep
  PROVE  CodesAreTheUsers'
  <1> SUFFICES ASSUME ~stale', NEW b \in Browsers, request'[b].at = "recover",
                      request'[b].proof.n \in mfa'.codes
               PROVE  user' = request'[b].user
    BY DEF CodesAreTheUsers
  <1>1. request'[b] = request[b]
    BY DEF QuietStep, QuietRequests, Drops, Keeps
  <1>2. request[b].proof.n \in 1..enrolled /\ enrolled \in Nat
    BY <1>1, CodesBeingRedeemed DEF AccountsTyping, RowsTyped
  <1>3. ~stale /\ request[b].proof.n \in mfa.codes /\ user' = user
    BY <1>1, <1>2 DEF QuietStep, QuietCodes
  <1> QED
    BY <1>1, <1>3 DEF CodesAreTheUsers

\* One way of signing in: what is asked of the proofs at every step.
ProofsInv == RequestsKnown /\ SpentOnce /\ CodesAreTheUsers

LEMMA QuietStepPreserves ==
  ASSUME AccountsTyping, AccountsTyping', ProofsNumbered, ProofsNumbered', RowsMoveOn,
         ProofsInv, QuietStep
  PROVE  ProofsInv'
  BY QuietKnown, QuietSpent, QuietCodesStay DEF ProofsInv

-----------------------------------------------------------------------------
\* A recovery code is asked for: it stays redeemable until the record is saved.
LEMMA EnterCodePreserves ==
  ASSUME AccountsTyping, AccountsTyping', ProofsNumbered, ProofsNumbered', RowsMoveOn,
         ProofsInv, NEW b \in Browsers, EnterCode(b)
  PROVE  ProofsInv'
<1>0. RequestsTyped /\ enrolled \in Nat /\ mfa \in MfaRecords /\ mfa.codes \subseteq 1..enrolled
  BY DEF AccountsTyping, RowsTyped
<1>1. UNCHANGED <<user, mfa, enrolled, stale, proofs, open, signIns>>
  BY DEF EnterCode, Second, Histories
<1>2. /\ request[b].at = "ready" /\ user = request[b].user
      /\ \/ Becomes(b, Req("user", "mfa", request[b].proof, request[b].user, request[b].copy))
         \/ \E c \in mfa.codes :
              Becomes(b, Req("recover", "recovery", CodeProof(c), request[b].user,
                             [mfa EXCEPT !.codes = @ \ {c}]))
  BY <1>0, EnterCodeMoves
<1>3. CASE Becomes(b, Req("user", "mfa", request[b].proof, request[b].user, request[b].copy))
  <2>1. request[b].proof = NoProof
    BY <1>2 DEF ProofsInv, RequestsKnown
  <2>2. QuietRequests
    BY <1>0, <1>3, <2>1, AskingIsQuiet
  <2>3. QuietStep
    BY <1>0, <1>1, <2>2 DEF QuietStep, QuietProofs, QuietCodes
  <2> QED
    BY <2>3, QuietStepPreserves
<1>4. ASSUME NEW c \in mfa.codes,
             Becomes(b, Req("recover", "recovery", CodeProof(c), request[b].user,
                            [mfa EXCEPT !.codes = @ \ {c}]))
      PROVE  ProofsInv'
  <2> DEFINE copy == [mfa EXCEPT !.codes = @ \ {c}]
  <2>1. copy.codes = mfa.codes \ {c} /\ c \in 1..enrolled /\ c \in Nat
    BY <1>0, CodeTakenOut
  <2> HIDE DEF copy
  <2>2. Becomes(b, Req("recover", "recovery", CodeProof(c), request[b].user, copy))
    BY <1>4 DEF copy
  <2>3. /\ request'[b].at = "recover" /\ request'[b].how = "recovery"
        /\ request'[b].proof = CodeProof(c) /\ request'[b].user = request[b].user
        /\ request'[b].copy = copy
        /\ \A d \in Browsers \ {b} : request'[d] = request[d]
    BY <1>0, <2>2, RequestMoves
  <2>4. CodeProof(c).kind = "code" /\ CodeProof(c).n = c /\ CodeProof(c) \in Known
    BY <2>1, CodeIsTyped DEF Known
  <2>5. RequestsKnown'
    BY <1>1, <2>1, <2>3, <2>4 DEF ProofsInv, RequestsKnown, Known
  <2>6. SpentOnce'
    <3>1. Redeemable' = Redeemable /\ \A p : Counts(p)' <=> Counts(p)
      BY <1>1 DEF Redeemable, Counts
    <3>2. \A d \in Browsers : \A p : Carries(d, p)' => Carries(d, p)
      BY <2>3 DEF Carries
    <3>3. signIns' = signIns /\ \A i : \A p : Used(i, p)' <=> Used(i, p)
      BY <1>1 DEF Used
    <3> QED
      BY <3>1, <3>2, <3>3 DEF ProofsInv, SpentOnce
  <2>7. CodesAreTheUsers'
    BY <1>1, <1>2, <2>3 DEF ProofsInv, CodesAreTheUsers
  <2> QED
    BY <2>5, <2>6, <2>7 DEF ProofsInv
<1> QED
  BY <1>2, <1>3, <1>4

\* The record is saved without the code.  If nobody else saved it since it was
\* read, the code was in it until now.
LEMMA RecoverPreserves ==
  ASSUME AccountsTyping, AccountsTyping', ProofsNumbered, ProofsNumbered', RowsMoveOn,
         ProofsInv, NEW b \in Browsers, Recover(b)
  PROVE  ProofsInv'
<1> DEFINE code == request[b].proof
           copy == request[b].copy
<1>1. /\ UNCHANGED <<user, enrolled, proofs, open, signIns>>
      /\ mfa' = IF user = request[b].user THEN copy ELSE mfa
      /\ stale' = (stale \/ mfa # [copy EXCEPT !.codes = @ \cup {code.n}])
      /\ request[b].at = "recover"
  BY DEF Recover, SaveMfa, At, Rows
<1>2. RequestsTyped /\ copy \in MfaRecords
  BY RequestParts DEF AccountsTyping
<1>3. code = CodeProof(code.n) /\ code # NoProof /\ code.n \notin copy.codes
  BY <1>1, CodesBeingRedeemed DEF ProofsInv
<1>4. /\ request'[b].at = "user" /\ request'[b].how = request[b].how
      /\ request'[b].proof = code
      /\ \A d \in Browsers \ {b} : request'[d] = request[d]
  BY <1>1, <1>2, LinkingMoves, RequestMoves DEF Resumes, ResumesAs
<1>5. ASSUME ~stale'
      PROVE  /\ ~stale /\ code.n \in mfa.codes
             /\ mfa'.codes = copy.codes /\ mfa'.codes \subseteq mfa.codes
  <2>1. ~stale /\ mfa = [copy EXCEPT !.codes = @ \cup {code.n}]
    BY <1>1, <1>5
  <2>2. mfa.codes = copy.codes \cup {code.n}
    BY <1>2, <2>1 DEF MfaRecords
  <2>3. user = request[b].user
    BY <1>1, <2>1, <2>2 DEF ProofsInv, CodesAreTheUsers
  <2> QED
    BY <1>1, <2>1, <2>2, <2>3
<1>6. RequestsKnown'
  BY <1>1, <1>4 DEF ProofsInv, RequestsKnown, Known
<1>7. SpentOnce'
  <2> SUFFICES ASSUME NEW p \in ProofSet, Counts(p)'
               PROVE  /\ p \in Redeemable' => /\ \A c \in Browsers : ~Carries(c, p)'
                                              /\ \A i \in DOMAIN signIns' : ~Used(i, p)'
                      /\ \A c, d \in Browsers : Carries(c, p)' /\ Carries(d, p)' => c = d
                      /\ \A c \in Browsers, i \in DOMAIN signIns' : ~(Carries(c, p)' /\ Used(i, p)')
                      /\ \A i, j \in DOMAIN signIns' : Used(i, p)' /\ Used(j, p)' => i = j
    BY DEF SpentOnce
  <2>1. Counts(p)
    BY <1>5 DEF Counts, AccountsTyping, RowsTyped
  <2>2. signIns' = signIns /\ \A i : Used(i, p)' <=> Used(i, p)
    BY <1>1 DEF Used
  <2>3. CASE p # code
    <3>1. \A d \in Browsers : Carries(d, p)' => Carries(d, p)
      BY <1>4, <2>3 DEF Carries
    <3>2. p \in Redeemable' => p \in Redeemable
      <4>1. ASSUME NEW c \in mfa'.codes, p = CodeProof(c)
            PROVE  c \in mfa.codes
        <5>1. c \in Nat
          BY <4>1 DEF AccountsTyping, RowsTyped
        <5>2. ~stale'
          BY <4>1, <5>1, CodeIsTyped DEF Counts
        <5> QED
          BY <4>1, <5>2, <1>5
      <4> QED
        BY <1>1, <4>1 DEF Redeemable
    <3> QED
      BY <2>1, <2>2, <3>1, <3>2 DEF ProofsInv, SpentOnce
  <2>4. CASE p = code
    <3>1. ~stale'
      BY <1>1, <2>4 DEF Counts, ProofsInv, RequestsKnown
    <3>2. p \in Redeemable
      BY <1>3, <1>5, <2>4, <3>1 DEF Redeemable
    <3>3. /\ \A d \in Browsers : ~Carries(d, p)
          /\ \A i \in DOMAIN signIns : ~Used(i, p)
      BY <2>1, <3>2 DEF ProofsInv, SpentOnce
    <3>4. \A d \in Browsers : Carries(d, p)' => d = b
      BY <1>4, <3>3 DEF Carries
    <3>5. p \notin Redeemable'
      <4>1. p \notin open'
        BY <1>1, <1>3, <2>4, OpenIsNoCode DEF AccountsTyping, BrowsersTyped
      <4>2. ASSUME NEW c \in mfa'.codes
            PROVE  p # CodeProof(c)
        <5>1. c \in Nat /\ c # code.n
          BY <1>3, <1>5, <3>1, <4>2 DEF AccountsTyping, RowsTyped
        <5> QED
          BY <1>3, <2>4, <5>1, CodeIsTyped
      <4> QED
        BY <4>1, <4>2 DEF Redeemable
    <3> QED
      BY <2>2, <3>3, <3>4, <3>5
  <2> QED
    BY <2>3, <2>4
<1>8. CodesAreTheUsers'
  BY <1>1, <1>4, <1>5 DEF ProofsInv, CodesAreTheUsers
<1> QED
  BY <1>6, <1>7, <1>8 DEF ProofsInv

\* A link, a state or a challenge is redeemed: from now on this request has it.
LEMMA RedeemPreserves ==
  ASSUME AccountsTyping, AccountsTyping', ProofsNumbered, ProofsNumbered', RowsMoveOn,
         ProofsInv, NEW b \in Browsers, NEW q \in open,
         VerifyMagic(b, q) \/ PasskeyLogin(b, q) \/ OAuthCallback(b, q)
  PROVE  ProofsInv'
<1>1. /\ UNCHANGED <<user, mfa, enrolled, stale, proofs, signIns>>
      /\ open' = open \ {q} /\ q \in proofs /\ RequestsTyped
  BY DEF VerifyMagic, PasskeyLogin, OAuthCallback, Redeem, Second, Histories, AccountsTyping,
         BrowsersTyped
<1>2. CASE Becomes(b, Ready)
  <2>1. QuietRequests
    BY <1>1, <1>2, ReadyIsQuiet
  <2>2. QuietStep
    BY <1>1, <2>1 DEF QuietStep, QuietProofs, QuietCodes
  <2> QED
    BY <2>2, QuietStepPreserves
<1>3. ASSUME NEW at \in {"user", "identify"}, NEW how, NEW u, Becomes(b, Req(at, how, q, u, NoMfa))
      PROVE  ProofsInv'
  <2>1. /\ request'[b].at = at /\ request'[b].proof = q
        /\ \A d \in Browsers \ {b} : request'[d] = request[d]
    BY <1>1, <1>3, RequestMoves
  <2>2. q \in Known /\ q.kind # "code" /\ q # NoProof /\ \A c : q # CodeProof(c)
    BY <1>1, OpenIsNoCode DEF Known, ProofsNumbered
  <2>3. RequestsKnown'
    BY <1>1, <2>1, <2>2 DEF ProofsInv, RequestsKnown, Known
  <2>4. SpentOnce'
    <3> SUFFICES ASSUME NEW p \in ProofSet, Counts(p)'
                 PROVE  /\ p \in Redeemable' => /\ \A c \in Browsers : ~Carries(c, p)'
                                                /\ \A i \in DOMAIN signIns' : ~Used(i, p)'
                        /\ \A c, d \in Browsers : Carries(c, p)' /\ Carries(d, p)' => c = d
                        /\ \A c \in Browsers, i \in DOMAIN signIns' : ~(Carries(c, p)' /\ Used(i, p)')
                        /\ \A i, j \in DOMAIN signIns' : Used(i, p)' /\ Used(j, p)' => i = j
      BY DEF SpentOnce
    <3>1. Counts(p) /\ Redeemable' \subseteq Redeemable
      BY <1>1 DEF Counts, Redeemable
    <3>2. signIns' = signIns /\ \A i : Used(i, p)' <=> Used(i, p)
      BY <1>1 DEF Used
    <3>3. CASE p # q
      <4>1. \A d \in Browsers : Carries(d, p)' => Carries(d, p)
        BY <2>1, <3>3 DEF Carries
      <4> QED
        BY <3>1, <3>2, <4>1 DEF ProofsInv, SpentOnce
    <3>4. CASE p = q
      <4>1. /\ \A d \in Browsers : ~Carries(d, p)
            /\ \A i \in DOMAIN signIns : ~Used(i, p)
        BY <3>1, <3>4 DEF ProofsInv, SpentOnce, Redeemable
      <4>2. \A d \in Browsers : Carries(d, p)' => d = b
        BY <2>1, <4>1 DEF Carries
      <4>3. p \notin Redeemable'
        BY <1>1, <2>2, <3>4 DEF Redeemable
      <4> QED
        BY <3>2, <4>1, <4>2, <4>3
    <3> QED
      BY <3>3, <3>4
  <2>5. CodesAreTheUsers'
    BY <1>1, <2>1 DEF ProofsInv, CodesAreTheUsers
  <2> QED
    BY <2>3, <2>4, <2>5 DEF ProofsInv
<1> QED
  BY <1>2, <1>3, RedeemerMoves

\* The proof goes from the request to the list of sign-ins.
LEMMA StartSessionPreserves ==
  ASSUME AccountsTyping, AccountsTyping', ProofsNumbered, ProofsNumbered', RowsMoveOn,
         ProofsInv, NEW b \in Browsers, StartSession(b)
  PROVE  ProofsInv'
<1> DEFINE used == [how |-> request[b].how, proof |-> request[b].proof]
<1>1. /\ UNCHANGED <<user, mfa, enrolled, stale, proofs, open>>
      /\ signIns' = Append(signIns, used) /\ signIns \in Seq(SignInSet)
      /\ request[b].at = "start" /\ RequestsTyped
  BY DEF StartSession, Second, At, AccountsTyping, BrowsersTyped
<1>2. /\ request'[b].at = "ready" /\ request'[b].proof = NoProof
      /\ \A d \in Browsers \ {b} : request'[d] = request[d]
  BY <1>1, AnswerMoves, RequestMoves, ReadyIsTyped DEF Answers
<1>3. PICK n :
      /\ DOMAIN signIns' = DOMAIN signIns \cup {n} /\ n \notin DOMAIN signIns
      /\ signIns'[n] = used /\ \A i \in DOMAIN signIns : signIns'[i] = signIns[i]
  <2>1. DOMAIN signIns' = 1..(Len(signIns) + 1) /\ DOMAIN signIns = 1..Len(signIns)
    BY <1>1
  <2> QED
    BY <1>1, <2>1
<1>4. used.proof = request[b].proof /\ used.how = request[b].how
  OBVIOUS
<1> HIDE DEF used
<1>5. RequestsKnown'
  BY <1>1, <1>2, <1>3, <1>4, ReadyIsTyped DEF ProofsInv, RequestsKnown, Known
<1>6. SpentOnce'
  <2> SUFFICES ASSUME NEW p \in ProofSet, Counts(p)'
               PROVE  /\ p \in Redeemable' => /\ \A c \in Browsers : ~Carries(c, p)'
                                              /\ \A i \in DOMAIN signIns' : ~Used(i, p)'
                      /\ \A c, d \in Browsers : Carries(c, p)' /\ Carries(d, p)' => c = d
                      /\ \A c \in Browsers, i \in DOMAIN signIns' : ~(Carries(c, p)' /\ Used(i, p)')
                      /\ \A i, j \in DOMAIN signIns' : Used(i, p)' /\ Used(j, p)' => i = j
    BY DEF SpentOnce
  <2>1. Counts(p) /\ p # NoProof /\ Redeemable' = Redeemable
    BY <1>1 DEF Counts, Redeemable
  <2>2. \A d \in Browsers : Carries(d, p)' => d # b /\ Carries(d, p)
    BY <1>2, <2>1 DEF Carries
  <2>3. \A i \in DOMAIN signIns : Used(i, p)' <=> Used(i, p)
    BY <1>3 DEF Used
  <2>4. Used(n, p)' <=> Carries(b, p)
    BY <1>1, <1>3, <1>4 DEF Used, Carries
  <2> QED
    BY <1>3, <2>1, <2>2, <2>3, <2>4 DEF ProofsInv, SpentOnce
<1>7. CodesAreTheUsers'
  BY <1>1, <1>2 DEF ProofsInv, CodesAreTheUsers
<1> QED
  BY <1>5, <1>6, <1>7 DEF ProofsInv

LEMMA ProofsPreserved ==
  ASSUME AccountsTyping, AccountsTyping', ProofsNumbered, ProofsNumbered', RowsMoveOn,
         ProofsInv, [AccountsNext]_accountsVars
  PROVE  ProofsInv'
  BY QuietSteps, QuietStepPreserves, EnterCodePreserves, RecoverPreserves, RedeemPreserves,
     StartSessionPreserves DEF Transfer

\* No two sign-ins used the same proof, but for codes saved over each other.
LEMMA SpentOnceIsSingleUse ==
  ASSUME AccountsTyping, ProofsInv
  PROVE  SingleUse
  <1> SUFFICES ASSUME NEW i \in DOMAIN signIns, NEW j \in DOMAIN signIns, i # j,
                      signIns[i].proof = signIns[j].proof, signIns[i].proof # NoProof
               PROVE  signIns[i].how = "recovery" /\ stale
    BY DEF SingleUse
  <1>1. signIns[i].proof \in ProofSet
    <2>1. signIns \in Seq(SignInSet)
      BY DEF AccountsTyping, BrowsersTyped
    <2>2. signIns[i] \in SignInSet
      BY <2>1, ElementOfSeq
    <2> QED
      BY <2>2 DEF SignInSet
  <1>2. ~Counts(signIns[i].proof)
    BY <1>1 DEF ProofsInv, SpentOnce, Used
  <1> QED
    BY <1>2 DEF Counts, ProofsInv, RequestsKnown

-----------------------------------------------------------------------------
\* What is left of an account after its deletion: nothing that acts for it.
Acting == {"step-up", "start", "link", "owner"}
OwnersInv == ActsForUser /\ DeletedMeansGone

\* A request that a step leaves behind acts for nobody but the present user.
FitsUser(b) ==
  \/ request'[b] = request[b]
  \/ request'[b].at \notin Acting
  \/ request'[b].user = user /\ user # 0

LEMMA SameUserPreserves ==
  ASSUME OwnersInv, UNCHANGED <<user, raced>>,
         ~raced => /\ \A b \in Browsers : FitsUser(b) /\ session'[b] \in {0, user, session[b]}
                   /\ identity' \in {0, user, identity} /\ token' \in {0, user, token}
  PROVE  OwnersInv'
  BY DEF OwnersInv, ActsForUser, DeletedMeansGone, FitsUser, Acting

LEMMA BecomesFitting ==
  ASSUME RequestsTyped, NEW b \in Browsers, NEW at, NEW how, NEW proof, NEW copy,
         Becomes(b, Req(at, how, proof, user, copy)), user # 0
  PROVE  \A c \in Browsers : FitsUser(c)
  BY RequestMoves DEF FitsUser

LEMMA BecomesPassive ==
  ASSUME RequestsTyped, NEW b \in Browsers, NEW at, NEW how, NEW proof, NEW u, NEW copy,
         Becomes(b, Req(at, how, proof, u, copy)), at \notin Acting
  PROVE  \A c \in Browsers : FitsUser(c)
  BY RequestMoves DEF FitsUser

LEMMA ReadyFits ==
  ASSUME RequestsTyped, NEW b \in Browsers, Becomes(b, Ready)
  PROVE  \A c \in Browsers : FitsUser(c)
  BY RequestMoves, ReadyIsTyped DEF FitsUser, Acting

LEMMA OwnersPreserved ==
  ASSUME AccountsTyping, RowsMoveOn, SomebodyAsks, OwnersInv, [AccountsNext]_accountsVars
  PROVE  OwnersInv'
  <1> USE DEF Histories, Rows, Second
  <1>a. RequestsTyped /\ lastUser \in Nat /\ user \in Users /\ session \in [Browsers -> Users]
        /\ raced \in BOOLEAN
    BY DEF AccountsTyping, RowsTyped, BrowsersTyped
  <1>b. ASSUME ~raced, NEW b \in Browsers, request[b].at \in Acting
        PROVE  request[b].user = user /\ user # 0
    BY <1>b DEF OwnersInv, ActsForUser, Acting
  <1>c. ASSUME UNCHANGED <<user, raced, session, identity, token>>,
               ~raced => \A b \in Browsers : FitsUser(b)
        PROVE  OwnersInv'
    BY <1>c, SameUserPreserves
  <1>d. {"step-up", "start", "link", "owner"} = Acting /\ "ready" \notin Acting /\ "user" \notin Acting
        /\ "recover" \notin Acting /\ "identify" \notin Acting /\ "adopt" \notin Acting
        /\ "set" \notin Acting
    BY DEF Acting
  \* The row is found or made, and nothing acted for the one that was not there.
  <1>1. ASSUME NEW b \in Browsers, Register(b) \/ DemoLogin(b) \/ Adopt(b)
        PROVE  OwnersInv'
    <2>1. /\ NewUser /\ UNCHANGED <<raced, session, identity, token>>
      BY <1>1 DEF Register, DemoLogin, Adopt
    <2>2. user' # 0 /\ (user # 0 => user' = user)
      BY <2>1, <1>a DEF NewUser
    <2>3. \/ Becomes(b, Req("start", "register", NoProof, user', NoMfa))
          \/ Becomes(b, Req("start", "demo", NoProof, user', NoMfa))
          \/ ResumesAs(b, "link", user')
      BY <1>1, <1>a, SignUpMoves, LinkingMoves
    <2>4. /\ request'[b].user = user' 
          /\ \A c \in Browsers \ {b} : request'[c] = request[c]
      BY <2>3, <1>a, RequestMoves DEF ResumesAs
    <2> QED
      BY <2>1, <2>2, <2>4 DEF OwnersInv, ActsForUser, DeletedMeansGone
  <1>2. ASSUME NEW b \in Browsers, PasswordLogin(b)
        PROVE  OwnersInv'
    <2>1. user # 0 /\ UNCHANGED <<user, raced, session, identity, token>>
      BY <1>2 DEF PasswordLogin
    <2> QED
      BY <1>2, <1>a, <1>c, <2>1, SignUpMoves, BecomesFitting
  <1>3. ASSUME NEW b \in Browsers, StepUp(b)
        PROVE  OwnersInv'
    <2>1. UNCHANGED <<user, raced, session, identity, token>>
      BY <1>3 DEF StepUp
    <2>2. CASE Becomes(b, Req("ready", "none", NoProof, request[b].user, NoMfa))
      <3>1. \A c \in Browsers : FitsUser(c)
        BY <2>2, <1>a, <1>d, BecomesPassive
      <3> QED
        BY <2>1, <3>1, <1>c
    <2>3. CASE Resumes(b, "start") /\ request[b].at = "step-up"
      <3>1. ~raced => request[b].user = user /\ user # 0
        BY <2>3, <1>b, <1>d
      <3>2. ~raced => \A c \in Browsers : FitsUser(c)
        BY <2>3, <3>1, <1>a, BecomesFitting DEF Resumes, ResumesAs
      <3> QED
        BY <2>1, <3>2, <1>c
    <2> QED
      BY <1>3, <1>a, <2>2, <2>3, StepUpMoves
  <1>4. ASSUME NEW b \in Browsers, EnterCode(b)
        PROVE  OwnersInv'
    <2>1. UNCHANGED <<user, raced, session, identity, token>>
      BY <1>4 DEF EnterCode
    <2>2. ASSUME NEW at \in {"user", "recover"}, NEW how, NEW proof, NEW copy,
                 Becomes(b, Req(at, how, proof, request[b].user, copy))
          PROVE  \A c \in Browsers : FitsUser(c)
      BY <2>2, <1>a, <1>d, BecomesPassive
    <2>3. \A c \in Browsers : FitsUser(c)
      BY <1>4, <1>a, <2>2, EnterCodeMoves
    <2> QED
      BY <2>1, <2>3, <1>c
  <1>5. ASSUME NEW b \in Browsers, Recover(b)
        PROVE  OwnersInv'
    <2>1. UNCHANGED <<user, raced, session, identity, token>>
      BY <1>5 DEF Recover
    <2>2. Becomes(b, Req("user", request[b].how, request[b].proof, request[b].user, request[b].copy))
      BY <1>5, <1>a, LinkingMoves DEF Resumes, ResumesAs
    <2>3. \A c \in Browsers : FitsUser(c)
      BY <2>2, <1>a, <1>d, BecomesPassive
    <2> QED
      BY <2>1, <2>3, <1>c
  <1>6. ASSUME NEW b \in Browsers, Identify(b)
        PROVE  OwnersInv'
    <2>1. UNCHANGED <<user, raced, session, identity, token>>
      BY <1>6 DEF Identify
    <2>2. CASE Becomes(b, Ready)
      BY <2>1, <2>2, <1>a, <1>c, ReadyFits
    <2>3. CASE identity # 0 /\ ResumesAs(b, "start", identity)
      <3>1. ~raced => identity = user /\ user # 0
        BY <2>3 DEF OwnersInv, DeletedMeansGone
      <3>2. ~raced => \A c \in Browsers : FitsUser(c)
        BY <2>3, <3>1, <1>a, BecomesFitting DEF ResumesAs
      <3> QED
        BY <2>1, <3>2, <1>c
    <2>4. CASE Resumes(b, "adopt")
      <3>1. \A c \in Browsers : FitsUser(c)
        BY <2>4, <1>a, <1>d, BecomesPassive DEF Resumes, ResumesAs
      <3> QED
        BY <2>1, <3>1, <1>c
    <2> QED
      BY <1>6, <1>a, <2>2, <2>3, <2>4, IdentifyMoves
  <1>7. ASSUME NEW b \in Browsers, Link(b)
        PROVE  OwnersInv'
    <2>1. UNCHANGED <<user, raced, session, token>> /\ identity' = request[b].user
      BY <1>7 DEF Link
    <2>2. request[b].at = "link" /\ ResumesAs(b, "start", request[b].user)
      BY <1>7, <1>a, LinkingMoves DEF Resumes
    <2>3. ~raced => request[b].user = user /\ user # 0
      BY <2>2, <1>b, <1>d
    <2>4. ~raced => \A c \in Browsers : FitsUser(c)
      BY <2>2, <2>3, <1>a, BecomesFitting DEF ResumesAs
    <2> QED
      BY <2>1, <2>3, <2>4, SameUserPreserves
  <1>8. ASSUME NEW b \in Browsers, GetUser(b)
        PROVE  OwnersInv'
    <2>1. UNCHANGED <<user, raced, session, identity, token>>
      BY <1>8 DEF GetUser
    <2>2. CASE Becomes(b, Ready)
      BY <2>1, <2>2, <1>a, <1>c, ReadyFits
    <2>3. CASE user = request[b].user /\ request[b].at = "user" /\ Resumes(b, "start")
      <3>1. user # 0 /\ ResumesAs(b, "start", user)
        BY <2>3 DEF SomebodyAsks, Resumes
      <3>2. \A c \in Browsers : FitsUser(c)
        BY <3>1, <1>a, BecomesFitting DEF ResumesAs
      <3> QED
        BY <2>1, <3>2, <1>c
    <2> QED
      BY <1>8, <1>a, <2>2, <2>3, GetUserMoves
  <1>9. ASSUME NEW b \in Browsers, StartSession(b)
        PROVE  OwnersInv'
    <2>1. /\ UNCHANGED <<user, raced, identity, token>> /\ request[b].at = "start"
          /\ session' = [session EXCEPT ![b] = request[b].user]
      BY <1>9 DEF StartSession, At
    <2>2. ~raced => request[b].user = user
      BY <2>1, <1>b, <1>d
    <2>3. ~raced => \A c \in Browsers : session'[c] \in {0, user, session[c]}
      BY <2>1, <2>2, <1>a
    <2>4. \A c \in Browsers : FitsUser(c)
      BY <1>9, <1>a, AnswerMoves, ReadyFits DEF Answers
    <2> QED
      BY <2>1, <2>3, <2>4, SameUserPreserves
  <1>10. ASSUME NEW b \in Browsers, AskAsOwner(b)
         PROVE  OwnersInv'
    <2>1. UNCHANGED <<user, raced, session, identity, token>>
      BY <1>10 DEF AskAsOwner
    <2>2. CASE UNCHANGED request
      BY <2>1, <2>2, <1>c DEF FitsUser
    <2>3. ASSUME NEW op, session[b] # 0, Becomes(b, Req("owner", op, NoProof, session[b], NoMfa))
          PROVE  OwnersInv'
      <3>1. ~raced => session[b] = user /\ user # 0
        BY <2>3 DEF OwnersInv, DeletedMeansGone
      <3>2. ~raced => \A c \in Browsers : FitsUser(c)
        BY <2>3, <3>1, <1>a, BecomesFitting
      <3> QED
        BY <2>1, <3>2, <1>c
    <2> QED
      BY <1>10, <2>2, <2>3, AskAsOwnerMoves
  <1>11. ASSUME NEW b \in Browsers, ReadMfa(b)
         PROVE  OwnersInv'
    <2>1. UNCHANGED <<user, raced, session, identity, token>>
      BY <1>11 DEF ReadMfa
    <2>2. CASE Becomes(b, Ready)
      BY <2>1, <2>2, <1>a, <1>c, ReadyFits
    <2>3. CASE Becomes(b, Req("set", request[b].how, request[b].proof, request[b].user, mfa))
      <3>1. \A c \in Browsers : FitsUser(c)
        BY <2>3, <1>a, <1>d, BecomesPassive
      <3> QED
        BY <2>1, <3>1, <1>c
    <2> QED
      BY <1>11, <1>a, <2>2, <2>3, ReadMfaMoves
  <1>12. ASSUME NEW b \in Browsers, LeaveCode(b) \/ Enroll(b) \/ SetMfa(b) \/ Logout(b)
                                    \/ AddPasskey(b) \/ ForgetPasskey(b) \/ RevokeToken(b)
         PROVE  OwnersInv'
    <2>1. /\ UNCHANGED <<user, raced, identity>> /\ token' \in {0, token}
          /\ session' = session \/ session' = [session EXCEPT ![b] = 0]
      BY <1>12 DEF LeaveCode, Enroll, SetMfa, Logout, AddPasskey, ForgetPasskey, RevokeToken
    <2>2. \A c \in Browsers : FitsUser(c)
      BY <1>12, <1>a, AnswerMoves, ReadyFits DEF Answers
    <2>3. \A c \in Browsers : session'[c] \in {0, session[c]}
      BY <2>1, <1>a
    <2> QED
      BY <2>1, <2>2, <2>3, SameUserPreserves
  <1>13. ASSUME NEW b \in Browsers, MakeToken(b)
         PROVE  OwnersInv'
    <2>1. /\ UNCHANGED <<user, raced, session, identity>> /\ token' = request[b].user
          /\ request[b].at = "owner"
      BY <1>13 DEF MakeToken, Owner, At
    <2>2. ~raced => token' = user
      BY <2>1, <1>b, <1>d
    <2>3. \A c \in Browsers : FitsUser(c)
      BY <1>13, <1>a, AnswerMoves, ReadyFits DEF Answers
    <2> QED
      BY <2>1, <2>2, <2>3, SameUserPreserves
  \* Every other request was answered before, or the deletion was overlapped.
  <1>14. ASSUME NEW b \in Browsers, DeleteAccount(b)
         PROVE  OwnersInv'
    <2>1. Becomes(b, Ready)
      BY <1>14, AnswerMoves DEF Answers
    <2>2. /\ request'[b].at = "ready"
          /\ \A c \in Browsers \ {b} : request'[c] = request[c]
      BY <2>1, <1>a, RequestMoves, ReadyIsTyped
    <2>3. CASE user = request[b].user
      <3>1. /\ session' = [c \in Browsers |-> IF session[c] = user THEN 0 ELSE session[c]]
            /\ token' = IF token = user THEN 0 ELSE token
            /\ identity' = IF identity = user THEN 0 ELSE identity
            /\ user' = 0 /\ raced' = (raced \/ \E c \in Browsers \ {b} : ~At(c, "ready"))
        BY <1>14, <2>3 DEF DeleteAccount, Purge
      <3>2. ASSUME ~raced'
            PROVE  ~raced /\ \A c \in Browsers : request'[c].at = "ready"
        BY <3>1, <3>2, <2>2 DEF At
      <3>3. ActsForUser'
        BY <3>2 DEF ActsForUser
      <3>4. DeletedMeansGone'
        BY <3>1, <3>2 DEF DeletedMeansGone, OwnersInv
      <3> QED
        BY <3>3, <3>4 DEF OwnersInv
    <2>4. CASE user # request[b].user
      BY <1>14, <2>1, <2>4, <1>a, <1>c, ReadyFits DEF DeleteAccount
    <2> QED
      BY <2>3, <2>4
  <1>15. ASSUME NEW b \in Browsers, NEW p \in open,
                VerifyMagic(b, p) \/ PasskeyLogin(b, p) \/ OAuthCallback(b, p)
         PROVE  OwnersInv'
    <2>1. UNCHANGED <<user, raced, session, identity, token>>
      BY <1>15 DEF VerifyMagic, PasskeyLogin, OAuthCallback
    <2>2. /\ request'[b].at \in {"user", "identify", "ready"}
          /\ \A c \in Browsers \ {b} : request'[c] = request[c]
      BY <1>15, <1>a, RedeemerMoves, RequestMoves, ReadyIsTyped
    <2>3. \A c \in Browsers : FitsUser(c)
      BY <2>2 DEF FitsUser, Acting
    <2> QED
      BY <2>1, <2>3, <1>c
  <1>16. ASSUME NEW b \in Browsers, RequestMagicLink(b) \/ StartOAuth(b) \/ StartPasskey(b)
         PROVE  OwnersInv'
    <2>1. UNCHANGED <<user, raced, session, identity, token, request>>
      BY <1>16 DEF RequestMagicLink, StartOAuth, StartPasskey
    <2> QED
      BY <2>1, <1>c DEF FitsUser
  <1>17. ASSUME NEW b \in Browsers, ExpireSession(b)
         PROVE  OwnersInv'
    <2>1. UNCHANGED <<user, raced, identity, token, request>> /\ session' = [session EXCEPT ![b] = 0]
      BY <1>17 DEF ExpireSession
    <2>2. \A c \in Browsers : FitsUser(c) /\ session'[c] \in {0, session[c]}
      BY <2>1, <1>a DEF FitsUser
    <2> QED
      BY <2>1, <2>2, SameUserPreserves
  <1>18. ASSUME NEW p \in open, ExpireProof(p)
         PROVE  OwnersInv'
    BY <1>18, <1>c DEF ExpireProof, FitsUser
  <1>19. CASE UNCHANGED accountsVars
    BY <1>19, <1>c DEF accountsVars, FitsUser
  <1> QED
    BY <1>1, <1>2, <1>3, <1>4, <1>5, <1>6, <1>7, <1>8, <1>9, <1>10, <1>11, <1>12, <1>13, <1>14,
       <1>15, <1>16, <1>17, <1>18, <1>19 DEF AccountsNext

-----------------------------------------------------------------------------
\* Whoever proves an identity names a user, and who is at the code names one too.
AsksOf(b) ==
  /\ request[b].at \in {"step-up", "user", "recover"} => request[b].user # 0
  /\ screen[b] = "code" => /\ request[b].at \in {"ready", "user", "recover", "start"}
                          /\ request[b].user # 0

LEMMA OneAsks ==
  ASSUME SomebodyAsks, RequestsTyped, BrowsersTyped, NEW b \in Browsers, NEW s,
         NEW at, NEW how, NEW proof, NEW u, NEW copy,
         Becomes(b, Req(at, how, proof, u, copy)),
         UNCHANGED screen \/ screen' = [screen EXCEPT ![b] = s],
         at \in {"step-up", "user", "recover"} => u # 0,
         screen'[b] = "code" => at \in {"ready", "user", "recover", "start"} /\ u # 0
  PROVE  SomebodyAsks'
<1>1. \A c \in Browsers \ {b} : request'[c] = request[c] /\ screen'[c] = screen[c]
  BY RequestMoves DEF BrowsersTyped
<1>2. request'[b].at = at /\ request'[b].user = u
  BY RequestMoves
<1> QED
  BY <1>1, <1>2 DEF SomebodyAsks

LEMMA AnswerAsksNothing ==
  ASSUME SomebodyAsks, RequestsTyped, BrowsersTyped, NEW b \in Browsers, NEW s,
         Becomes(b, Ready), s # "code",
         (UNCHANGED screen /\ screen[b] # "code") \/ screen' = [screen EXCEPT ![b] = s]
  PROVE  SomebodyAsks'
<1>1. screen'[b] # "code"
  BY DEF BrowsersTyped
<1>2. Becomes(b, Req("ready", "none", NoProof, 0, NoMfa))
  BY ReadyIsTyped
<1> QED
  BY <1>1, <1>2, OneAsks

LEMMA SomebodyAsksPreserved ==
  ASSUME AccountsTyping, ProofsNumbered, SomebodyAsks, [AccountsNext]_accountsVars
  PROVE  SomebodyAsks'
  <1> USE DEF Histories, Rows, Second
  <1>a. RequestsTyped /\ BrowsersTyped
    BY DEF AccountsTyping
  <1>b. ASSUME NEW b \in Browsers
        PROVE  /\ request[b].at \in {"step-up", "user", "recover"} => request[b].user # 0
               /\ screen[b] = "code" => /\ request[b].at \in {"ready", "user", "recover", "start"}
                                       /\ request[b].user # 0
    BY DEF SomebodyAsks
  <1>c. ASSUME UNCHANGED <<request, screen>>
        PROVE  SomebodyAsks'
    BY <1>c DEF SomebodyAsks
  <1>d. "form" # "code" /\ "home" # "code" /\ "ready" \notin {"step-up", "user", "recover"}
        /\ "start" \notin {"step-up", "user", "recover"}
    OBVIOUS
  <1>e. ASSUME NEW b \in Browsers, Becomes(b, Ready), UNCHANGED screen, screen[b] # "code"
        PROVE  SomebodyAsks'
    BY <1>a, <1>d, <1>e, AnswerAsksNothing
  <1>1. ASSUME NEW b \in Browsers, Register(b) \/ DemoLogin(b) \/ PasswordLogin(b)
        PROVE  SomebodyAsks'
    <2>1. screen[b] = "form" /\ UNCHANGED screen
      BY <1>1 DEF Register, DemoLogin, PasswordLogin
    <2>2. PasswordLogin(b) => user # 0
      BY DEF PasswordLogin
    <2> QED
      BY <1>1, <1>a, <1>d, <2>1, <2>2, SignUpMoves, OneAsks
  <1>2. ASSUME NEW b \in Browsers, StepUp(b)
        PROVE  SomebodyAsks'
    <2>1. request[b].user # 0 /\ screen[b] # "code"
      BY <1>2, <1>a, <1>b, StepUpMoves
    <2>2. UNCHANGED screen \/ screen' = [screen EXCEPT ![b] = "code"]
      BY <1>2 DEF StepUp
    <2>3. CASE Becomes(b, Req("ready", "none", NoProof, request[b].user, NoMfa))
      <3>1. \A u : u = request[b].user => Becomes(b, Req("ready", "none", NoProof, u, NoMfa))
        BY <2>3
      <3> QED
        BY <1>a, <1>d, <2>1, <2>2, <3>1, OneAsks
    <2>4. CASE Resumes(b, "start")
      BY <1>a, <1>d, <2>1, <2>2, <2>4, OneAsks DEF Resumes, ResumesAs
    <2> QED
      BY <1>2, <1>a, <2>3, <2>4, StepUpMoves
  <1>3. ASSUME NEW b \in Browsers, EnterCode(b)
        PROVE  SomebodyAsks'
    <2>1. screen[b] = "code" /\ UNCHANGED screen
      BY <1>3 DEF EnterCode
    <2>2. request[b].user # 0
      BY <1>b, <2>1
    <2>3. ASSUME NEW at \in {"user", "recover"}, NEW how, NEW proof, NEW copy,
                 Becomes(b, Req(at, how, proof, request[b].user, copy))
          PROVE  SomebodyAsks'
      BY <1>a, <2>1, <2>2, <2>3, OneAsks
    <2> QED
      BY <1>3, <1>a, <2>3, EnterCodeMoves
  <1>4. ASSUME NEW b \in Browsers, Recover(b)
        PROVE  SomebodyAsks'
    <2>1. UNCHANGED screen
      BY <1>4 DEF Recover
    <2>2. request[b].user # 0 /\ Resumes(b, "user")
      BY <1>4, <1>a, <1>b, LinkingMoves
    <2> QED
      BY <1>a, <2>1, <2>2, OneAsks DEF Resumes, ResumesAs
  <1>5. ASSUME NEW b \in Browsers, Identify(b)
        PROVE  SomebodyAsks'
    <2>1. UNCHANGED screen
      BY <1>5 DEF Identify
    <2>2. screen[b] # "code"
      BY <1>5, <1>a, <1>b, IdentifyMoves
    <2>3. ASSUME NEW at \in {"start", "adopt"}, NEW u, ResumesAs(b, at, u)
          PROVE  SomebodyAsks'
      BY <1>a, <2>1, <2>2, <2>3, OneAsks DEF ResumesAs
    <2> QED
      BY <1>5, <1>a, <1>e, <2>1, <2>2, <2>3, IdentifyMoves DEF Resumes
  <1>6. ASSUME NEW b \in Browsers, Adopt(b) \/ Link(b)
        PROVE  SomebodyAsks'
    <2>1. UNCHANGED screen
      BY <1>6 DEF Adopt, Link
    <2>2. screen[b] # "code"
      BY <1>6, <1>a, <1>b, LinkingMoves
    <2>3. ASSUME NEW at \in {"start", "link"}, NEW u, ResumesAs(b, at, u)
          PROVE  SomebodyAsks'
      BY <1>a, <2>1, <2>2, <2>3, OneAsks DEF ResumesAs
    <2> QED
      BY <1>6, <1>a, <2>3, LinkingMoves DEF Resumes
  <1>7. ASSUME NEW b \in Browsers, GetUser(b)
        PROVE  SomebodyAsks'
    <2>1. request[b].at = "user" /\ request[b].user # 0
      BY <1>7, <1>a, <1>b, GetUserMoves
    <2>2. CASE user = request[b].user
      <3>1. request' = [request EXCEPT ![b].at = "start"] /\ UNCHANGED screen
        BY <1>7, <2>2 DEF GetUser
      <3>2. Resumes(b, "start")
        BY <1>a, <3>1, RequestAdvances DEF Resumes, ResumesAs
      <3> QED
        BY <1>a, <2>1, <3>1, <3>2, OneAsks DEF Resumes, ResumesAs
    <2>3. CASE user # request[b].user
      <3>1. Becomes(b, Ready) /\ screen' = [screen EXCEPT ![b] = "form"]
        BY <1>7, <2>3 DEF GetUser, Refuse, Becomes
      <3> QED
        BY <1>a, <1>d, <3>1, AnswerAsksNothing
    <2> QED
      BY <2>2, <2>3
  <1>8. ASSUME NEW b \in Browsers, AskAsOwner(b)
        PROVE  SomebodyAsks'
    <2>1. screen[b] = "home"
      BY <1>8 DEF AskAsOwner
    <2>2. CASE session[b] = 0
      <3>1. screen' = [screen EXCEPT ![b] = "form"] /\ UNCHANGED request
        BY <1>8, <2>2 DEF AskAsOwner, ReadSession
      <3>2. \A c \in Browsers : screen'[c] = "code" => screen[c] = "code"
        BY <1>a, <3>1 DEF BrowsersTyped
      <3> QED
        BY <3>1, <3>2 DEF SomebodyAsks
    <2>3. CASE session[b] # 0
      <3>1. UNCHANGED screen
        BY <1>8, <2>3 DEF AskAsOwner, ReadSession
      <3>2. PICK op : Becomes(b, Req("owner", op, NoProof, session[b], NoMfa))
        BY <1>8, <2>3 DEF AskAsOwner, ReadSession, Awaits, Becomes, Req
      <3> QED
        BY <1>a, <2>1, <3>1, <3>2, OneAsks
    <2> QED
      BY <2>2, <2>3
  <1>9. ASSUME NEW b \in Browsers, ReadMfa(b)
        PROVE  SomebodyAsks'
    <2>1. UNCHANGED screen
      BY <1>9 DEF ReadMfa
    <2>2. screen[b] # "code"
      BY <1>9, <1>a, <1>b, ReadMfaMoves
    <2>3. CASE Becomes(b, Req("set", request[b].how, request[b].proof, request[b].user, mfa))
      <3>1. ASSUME NEW how, NEW proof, NEW u, Becomes(b, Req("set", how, proof, u, mfa))
            PROVE  SomebodyAsks'
        BY <1>a, <2>1, <2>2, <3>1, OneAsks
      <3> QED
        BY <2>3, <3>1
    <2> QED
      BY <1>9, <1>a, <1>e, <2>1, <2>2, <2>3, ReadMfaMoves
  <1>10. ASSUME NEW b \in Browsers, LeaveCode(b) \/ StartSession(b) \/ Logout(b)
         PROVE  SomebodyAsks'
    <2>1. \/ screen' = [screen EXCEPT ![b] = "form"]
          \/ screen' = [screen EXCEPT ![b] = "home"]
      BY <1>10 DEF LeaveCode, StartSession, Logout
    <2>2. Becomes(b, Ready)
      BY <1>10, AnswerMoves DEF Answers
    <2> QED
      BY <1>a, <1>d, <2>1, <2>2, AnswerAsksNothing
  <1>11. ASSUME NEW b \in Browsers,
                \/ Enroll(b) \/ SetMfa(b) \/ AddPasskey(b) \/ ForgetPasskey(b) \/ MakeToken(b)
                \/ RevokeToken(b) \/ DeleteAccount(b)
         PROVE  SomebodyAsks'
    <2>1. /\ request[b].at \in {"owner", "set"}
          /\ UNCHANGED screen \/ screen' = [screen EXCEPT ![b] = "form"]
      BY <1>11 DEF Enroll, SetMfa, AddPasskey, ForgetPasskey, MakeToken, RevokeToken,
                   DeleteAccount, Owner, At
    <2>2. screen[b] # "code"
      BY <1>b, <2>1
    <2>3. Becomes(b, Ready)
      BY <1>11, AnswerMoves DEF Answers
    <2> QED
      BY <1>a, <1>d, <2>1, <2>2, <2>3, AnswerAsksNothing
  <1>12. ASSUME NEW b \in Browsers, NEW p \in open,
                VerifyMagic(b, p) \/ PasskeyLogin(b, p) \/ OAuthCallback(b, p)
         PROVE  SomebodyAsks'
    <2>1. screen[b] = "form" /\ UNCHANGED screen
      BY <1>12 DEF VerifyMagic, PasskeyLogin, OAuthCallback
    <2>2. (VerifyMagic(b, p) => p.user # 0) /\ (PasskeyLogin(b, p) => passkey # 0)
      BY <1>a DEF VerifyMagic, PasskeyLogin, ProofsNumbered, BrowsersTyped
    <2>3. ASSUME NEW how, NEW u, u # 0, Becomes(b, Req("user", how, p, u, NoMfa))
          PROVE  SomebodyAsks'
      BY <1>a, <2>1, <2>3, OneAsks
    <2>4. ASSUME Becomes(b, Req("identify", "oauth", p, 0, NoMfa))
          PROVE  SomebodyAsks'
      BY <1>a, <2>1, <2>4, OneAsks
    <2>5. screen[b] # "code"
      BY <2>1
    <2> QED
      BY <1>12, <1>e, <2>1, <2>2, <2>3, <2>4, <2>5, RedeemerMoves
  <1>13. ASSUME NEW b \in Browsers,
                RequestMagicLink(b) \/ StartOAuth(b) \/ StartPasskey(b) \/ ExpireSession(b)
         PROVE  SomebodyAsks'
    BY <1>13, <1>c DEF RequestMagicLink, StartOAuth, StartPasskey, ExpireSession
  <1>14. ASSUME NEW p \in open, ExpireProof(p)
         PROVE  SomebodyAsks'
    BY <1>14, <1>c DEF ExpireProof
  <1>15. CASE UNCHANGED accountsVars
    BY <1>15, <1>c DEF accountsVars
  <1> QED
    BY <1>1, <1>2, <1>3, <1>4, <1>5, <1>6, <1>7, <1>8, <1>9, <1>10, <1>11, <1>12, <1>13, <1>14,
       <1>15 DEF AccountsNext

-----------------------------------------------------------------------------
LEMMA AccountsStarts ==
  ASSUME AccountsInit
  PROVE  AccountsInv
<1>1. RequestsTyped
  <2>1. Ready \in RequestSet /\ Ready.user = 0 /\ Ready.copy.codes = {}
    BY ReadyIsTyped DEF Req, RequestSet, Steps, Hows
  <2>2. request = [b \in Browsers |-> Ready] /\ lastUser = 0
    BY DEF AccountsInit
  <2> QED
    BY <2>1, <2>2 DEF RequestsTyped, Users
<1>2. RowsTyped
  <2>1. 0 \in 0..MaxEnrolments /\ 0 \in 0..0
    BY AccountsAssumption
  <2>2. /\ way \in Ways /\ stale = FALSE /\ raced = FALSE /\ lastUser = 0 /\ user = 0
        /\ passkey = 0 /\ identity = 0 /\ token = 0 /\ enrolled = 0 /\ mfa = NoMfa
    BY DEF AccountsInit
  <2> QED
    BY <2>1, <2>2, ReadyIsTyped DEF RowsTyped, Users
<1>3. BrowsersTyped
  BY DEF AccountsInit, BrowsersTyped, Users, Screens
<1>4. ProofsNumbered
  BY FS_EmptySet DEF AccountsInit, ProofsNumbered
<1>5. \A b \in Browsers : request[b].at = "ready" /\ request[b].proof = NoProof
                          /\ screen[b] = "form" /\ session[b] = 0
  BY DEF AccountsInit, Ready
<1>6. DOMAIN signIns = {}
  BY DEF AccountsInit
<1>7. RequestsKnown /\ SpentOnce /\ CodesAreTheUsers
  BY <1>5, <1>6, ReadyIsTyped DEF RequestsKnown, Known, SpentOnce, Counts, Carries, CodesAreTheUsers
<1>8. SomebodyAsks /\ ActsForUser
  BY <1>5 DEF SomebodyAsks, ActsForUser
<1>9. DeletedMeansGone
  BY <1>5 DEF AccountsInit, DeletedMeansGone
<1> QED
  BY <1>1, <1>2, <1>3, <1>4, <1>7, <1>8, <1>9 DEF AccountsInv, AccountsTyping

LEMMA AccountsNextPreserves ==
  ASSUME AccountsInv, [AccountsNext]_accountsVars
  PROVE  AccountsInv'
<1>1. /\ AccountsTyping /\ ProofsNumbered /\ ProofsInv /\ SomebodyAsks /\ OwnersInv
  BY DEF AccountsInv, ProofsInv, OwnersInv
<1>2. RowsMoveOn
  BY <1>1, RowsPreserved
<1>3. AccountsTyping' /\ ProofsNumbered'
  BY <1>1, <1>2, TypingPreserved, NumberingPreserved
<1>4. ProofsInv'
  BY <1>1, <1>2, <1>3, ProofsPreserved
<1>5. SomebodyAsks' /\ OwnersInv'
  BY <1>1, <1>2, SomebodyAsksPreserved, OwnersPreserved
<1> QED
  BY <1>3, <1>4, <1>5 DEF AccountsInv, ProofsInv, OwnersInv

LEMMA AccountsInvariant == AccountsSpec => []AccountsInv
<1>1. AccountsInit => AccountsInv
  BY AccountsStarts
<1>2. AccountsInv /\ [AccountsNext]_accountsVars => AccountsInv'
  BY AccountsNextPreserves
<1> QED
  BY <1>1, <1>2, PTL DEF AccountsSpec

\* Every variable of the account and of its requests keeps its type.
THEOREM AccountsTyped == AccountsSpec => []AccountsTypeOK
<1>1. AccountsInv => AccountsTypeOK
  <2> SUFFICES ASSUME AccountsInv
               PROVE  AccountsTypeOK
    OBVIOUS
  <2>1. RequestsTyped /\ RowsTyped /\ BrowsersTyped
    BY DEF AccountsInv, AccountsTyping
  <2>2. \A b \in Browsers : request[b].user \in Users /\ request[b].copy \in MfaRecords
    BY <2>1, RequestParts
  <2> QED
    BY <2>1, <2>2 DEF AccountsTypeOK, RowsTyped, BrowsersTyped
<1> QED
  BY <1>1, AccountsInvariant, PTL

\* A link, a state, a challenge or a recovery code signs in once, in however
\* many browsers it is redeemed and however their handlers interleave - but for
\* a recovery code once two saves of the second-factor record overlapped.
THEOREM ProofsAreUsedOnce == AccountsSpec => []SingleUse
<1>1. AccountsInv => SingleUse
  BY SpentOnceIsSingleUse DEF AccountsInv, ProofsInv
<1> QED
  BY <1>1, AccountsInvariant, PTL

\* After a deletion that no other request overlapped, no session, API token or
\* linked identity belongs to anybody but the address's present user.
THEOREM DeletionLeavesNobody == AccountsSpec => []DeletedMeansGone
<1>1. AccountsInv => DeletedMeansGone
  BY DEF AccountsInv
<1> QED
  BY <1>1, AccountsInvariant, PTL
=============================================================================
