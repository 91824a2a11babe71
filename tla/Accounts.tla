------------------------------ MODULE Accounts ------------------------------
(***************************************************************************)
(* The account of one e-mail address: signing in with a password, a second *)
(* factor, an e-mailed link, an identity provider or a passkey; what the   *)
(* settings page changes; and the deletion of the account.  A handler of   *)
(* the web server is a sequence of steps, cut where it awaits the store,   *)
(* so the requests of several browsers interleave.                         *)
(***************************************************************************)
EXTENDS Naturals, Sequences, FiniteSets

CONSTANTS
  Browsers,
  MaxEnrolments, \* bound: enrolments of a second factor, of one recovery code each
  MaxSignIns,   \* bound: sessions started
  MaxProofs     \* bound: links, states and challenges issued

ASSUME AccountsAssumption == {MaxEnrolments, MaxSignIns, MaxProofs} \subseteq Nat

VARIABLES
  way,          \* bound: the way of signing in, beside registering, that is used
  user,         \* the id of the address's row, 0 when there is none
  lastUser,     \* the last id given
  mfa,          \* the row's second factor: the enrolment of its secret, 0 when none
  enrolled,     \* bound: enrolments so far
  passkey,      \* the user a registered passkey belongs to, 0 when none is
  identity,     \* the user the provider's identity is linked to, 0 when none
  token,        \* the user the API token belongs to, 0 when there is none
  session,      \* session[b]: the user of the session browser b holds a cookie of
  proofs,       \* the links, states and challenges issued
  open,         \* those of them that can still be redeemed
  request,      \* request[b]: the request browser b awaits, and where its handler stands
  screen,       \* screen[b]: what the web application shows
  signIns,      \* history: the sessions started, in order
  stale,        \* history: a second-factor record was saved over a newer one
  raced         \* history: the account was deleted under another of its requests

accountsVars == <<way, user, lastUser, mfa, enrolled, passkey, identity, token, session, proofs,
                  open, request, screen, signIns, stale, raced>>

NoMfa == [secret |-> 0, enabled |-> FALSE, codes |-> {}]
NoProof == [kind |-> "none", n |-> 0, user |-> 0]
CodeProof(c) == [kind |-> "code", n |-> c, user |-> 0]
Ready == [at |-> "ready", how |-> "none", proof |-> NoProof, user |-> 0, copy |-> NoMfa]
Screens == {"form", "code", "home"}
Ways == {"demo", "password", "magic", "oauth", "passkey"}
\* bound: what an owner asks for, by the way that is used
OwnerOps == {"delete", "logout"} \cup
            CASE way = "password" -> {"enroll", "verify", "disable"}
              [] way = "passkey" -> {"passkey", "forget"}
              [] way = "magic" -> {"token", "revoke"}
              [] OTHER -> {}

AccountsInit ==
  /\ way \in Ways
  /\ user = 0 /\ lastUser = 0 /\ mfa = NoMfa /\ enrolled = 0
  /\ passkey = 0 /\ identity = 0 /\ token = 0
  /\ session = [b \in Browsers |-> 0]
  /\ proofs = {} /\ open = {}
  /\ request = [b \in Browsers |-> Ready]
  /\ screen = [b \in Browsers |-> "form"]
  /\ signIns = <<>> /\ stale = FALSE /\ raced = FALSE

-----------------------------------------------------------------------------
\* The browser's buttons are disabled while a request is out.
Idle(b) == request[b] = Ready
Awaits(b, at, how, proof, u) ==
  request' = [request EXCEPT ![b] = [at |-> at, how |-> how, proof |-> proof, user |-> u,
                                     copy |-> NoMfa]]
Refuse(b) == request' = [request EXCEPT ![b] = Ready]
At(b, at) == request[b].at = at

Rows == <<passkey, identity, token>>
Second == <<mfa, enrolled>>
Histories == <<signIns, stale, raced>>

\* The row of the address is found, or made with a fresh id.
NewUser == /\ user' = IF user = 0 THEN lastUser + 1 ELSE user
           /\ lastUser' = IF user = 0 THEN lastUser + 1 ELSE lastUser
           /\ mfa' = IF user = 0 THEN NoMfa ELSE mfa

Register(b) ==
  /\ Idle(b) /\ screen[b] = "form" /\ user = 0 /\ lastUser < 2
  /\ NewUser
  /\ Awaits(b, "start", "register", NoProof, user')
  /\ UNCHANGED <<way, enrolled, Rows, session, proofs, open, screen, Histories>>

\* Demo mode signs in whoever names an address and no password.
DemoLogin(b) ==
  /\ Idle(b) /\ screen[b] = "form" /\ way = "demo" /\ lastUser < 2
  /\ NewUser
  /\ Awaits(b, "start", "demo", NoProof, user')
  /\ UNCHANGED <<way, enrolled, Rows, session, proofs, open, screen, Histories>>

PasswordLogin(b) ==
  /\ Idle(b) /\ screen[b] = "form" /\ way = "password" /\ user # 0
  /\ Awaits(b, "step-up", "password", NoProof, user)
  /\ UNCHANGED <<way, user, lastUser, Second, Rows, session, proofs, open, screen, Histories>>

\* With a second factor the password earns a pending token, and no session.
StepUp(b) ==
  /\ At(b, "step-up")
  /\ IF mfa.enabled /\ user = request[b].user
     THEN /\ screen' = [screen EXCEPT ![b] = "code"]
          /\ request' = [request EXCEPT ![b] = [Ready EXCEPT !.user = request[b].user]]
     ELSE /\ request' = [request EXCEPT ![b].at = "start"]
          /\ UNCHANGED screen
  /\ UNCHANGED <<way, user, lastUser, Second, Rows, session, proofs, open, Histories>>

LeaveCode(b) ==
  /\ At(b, "ready") /\ screen[b] = "code"
  /\ screen' = [screen EXCEPT ![b] = "form"] /\ Refuse(b)
  /\ UNCHANGED <<way, user, lastUser, Second, Rows, session, proofs, open, Histories>>

\* The pending token names its user; the record is read and the code compared:
\* one of the authenticator's, or a recovery code, taken out of the copy.
EnterCode(b) ==
  /\ At(b, "ready") /\ screen[b] = "code"
  /\ mfa.enabled /\ user = request[b].user
  /\ \/ request' = [request EXCEPT ![b].at = "user", ![b].how = "mfa"]
     \/ \E c \in mfa.codes :
          request' = [request EXCEPT ![b].at = "recover", ![b].how = "recovery",
                                     ![b].proof = CodeProof(c),
                                     ![b].copy = [mfa EXCEPT !.codes = @ \ {c}]]
  /\ UNCHANGED <<way, user, lastUser, Second, Rows, session, proofs, open, screen, Histories>>

\* Every save of the record writes all of it, over whatever is there, if the row
\* still is.
SaveMfa(u, record, expected) ==
  /\ mfa' = IF user = u THEN record ELSE mfa
  /\ stale' = (stale \/ mfa # expected)

\* Seeded fault: a recovery code is accepted and left in the record.
RecoverKeepingCode(b) ==
  /\ At(b, "recover")
  /\ request' = [request EXCEPT ![b].at = "user"]
  /\ UNCHANGED <<way, user, lastUser, Second, Rows, session, proofs, open, screen, Histories>>

Recover(b) ==
  /\ At(b, "recover")
  /\ SaveMfa(request[b].user, request[b].copy,
             [request[b].copy EXCEPT !.codes = @ \cup {request[b].proof.n}])
  /\ request' = [request EXCEPT ![b].at = "user"]
  /\ UNCHANGED <<way, user, lastUser, enrolled, Rows, session, proofs, open, screen, signIns, raced>>

-----------------------------------------------------------------------------
Issue(kind, u) ==
  LET p == [kind |-> kind, n |-> Cardinality(proofs) + 1, user |-> u] IN
  /\ Cardinality(proofs) < MaxProofs
  /\ proofs' = proofs \cup {p}
  /\ open' = open \cup {p}

\* An address without an account gets no link, and a challenge bound to nobody.
RequestMagicLink(b) ==
  /\ Idle(b) /\ screen[b] = "form" /\ way = "magic" /\ user # 0
  /\ Issue("magic", user)
  /\ UNCHANGED <<way, user, lastUser, Second, Rows, session, request, screen, Histories>>

StartOAuth(b) ==
  /\ Idle(b) /\ screen[b] = "form" /\ way = "oauth"
  /\ Issue("state", 0)
  /\ UNCHANGED <<way, user, lastUser, Second, Rows, session, request, screen, Histories>>

StartPasskey(b) ==
  /\ Idle(b) /\ screen[b] = "form" /\ way = "passkey"
  /\ Issue("challenge", user)
  /\ UNCHANGED <<way, user, lastUser, Second, Rows, session, request, screen, Histories>>

ExpireProof(p) ==
  /\ p \in open
  /\ open' = open \ {p}
  /\ UNCHANGED <<way, user, lastUser, Second, Rows, session, proofs, request, screen,
                 Histories>>

\* Seeded fault: a redeemed proof stays redeemable.
RedeemAgain(p) == p \in open /\ UNCHANGED open

\* Looking a proof up and using it up are one step.
Redeem(p) == p \in open /\ open' = open \ {p}

\* The link of the mail is opened, in any browser; a challenge comes back signed
\* by the passkey of its user; the provider calls back with the state.
VerifyMagic(b, p) ==
  /\ Idle(b) /\ screen[b] = "form" /\ p.kind = "magic"
  /\ Redeem(p)
  /\ Awaits(b, "user", "magic", p, p.user)
  /\ UNCHANGED <<way, user, lastUser, Second, Rows, session, proofs, screen, Histories>>

PasskeyLogin(b, p) ==
  /\ Idle(b) /\ screen[b] = "form" /\ p.kind = "challenge"
  /\ passkey # 0
  /\ Redeem(p)
  /\ IF p.user = passkey THEN Awaits(b, "user", "passkey", p, passkey) ELSE Refuse(b)
  /\ UNCHANGED <<way, user, lastUser, Second, Rows, session, proofs, screen, Histories>>

OAuthCallback(b, p) ==
  /\ Idle(b) /\ screen[b] = "form" /\ p.kind = "state"
  /\ Redeem(p)
  /\ Awaits(b, "identify", "oauth", p, 0)
  /\ UNCHANGED <<way, user, lastUser, Second, Rows, session, proofs, screen, Histories>>

\* The code is exchanged for the identity, which may fail or be unverified; a
\* known identity is its user's.
Identify(b) ==
  /\ At(b, "identify")
  /\ \/ Refuse(b)
     \/ identity # 0 /\ request' = [request EXCEPT ![b].at = "start", ![b].user = identity]
     \/ identity = 0 /\ request' = [request EXCEPT ![b].at = "adopt"]
  /\ UNCHANGED <<way, user, lastUser, Second, Rows, session, proofs, open, screen, Histories>>

\* A new one belongs to the address's user, who may have to be made.
Adopt(b) ==
  /\ At(b, "adopt") /\ (user = 0 => lastUser < 2)
  /\ NewUser
  /\ request' = [request EXCEPT ![b].at = "link", ![b].user = user']
  /\ UNCHANGED <<way, enrolled, Rows, session, proofs, open, screen, Histories>>

Link(b) ==
  /\ At(b, "link")
  /\ identity' = request[b].user
  /\ request' = [request EXCEPT ![b].at = "start"]
  /\ UNCHANGED <<way, user, lastUser, Second, passkey, token, session, proofs, open, screen,
                 Histories>>

\* The proven user is looked up: a deleted one is refused.
GetUser(b) ==
  /\ At(b, "user")
  /\ IF user = request[b].user
     THEN request' = [request EXCEPT ![b].at = "start"] /\ UNCHANGED screen
     ELSE Refuse(b) /\ screen' = [screen EXCEPT ![b] = "form"]
  /\ UNCHANGED <<way, user, lastUser, Second, Rows, session, proofs, open, Histories>>

StartSession(b) ==
  /\ At(b, "start") /\ Len(signIns) < MaxSignIns
  /\ session' = [session EXCEPT ![b] = request[b].user]
  /\ screen' = [screen EXCEPT ![b] = "home"]
  /\ signIns' = Append(signIns, [how |-> request[b].how, proof |-> request[b].proof])
  /\ Refuse(b)
  /\ UNCHANGED <<way, user, lastUser, Second, Rows, proofs, open, stale, raced>>

ExpireSession(b) ==
  /\ session[b] # 0
  /\ session' = [session EXCEPT ![b] = 0]
  /\ UNCHANGED <<way, user, lastUser, Second, Rows, proofs, open, request, screen, Histories>>

-----------------------------------------------------------------------------
\* The user of the session that the cookie names, 0 when it ended or expired.
ReadSession(b) == session[b]

\* A route below the gate runs for the user of the session.
AskAsOwner(b) ==
  /\ Idle(b) /\ screen[b] = "home"
  /\ IF ReadSession(b) # 0
     THEN \E op \in OwnerOps : Awaits(b, "owner", op, NoProof, session[b]) /\ UNCHANGED screen
     ELSE screen' = [screen EXCEPT ![b] = "form"] /\ UNCHANGED request
  /\ UNCHANGED <<way, user, lastUser, Second, Rows, session, proofs, open, Histories>>

Owner(b, op) == At(b, "owner") /\ request[b].how = op

\* A new secret and new recovery codes, not in force before a code confirms them.
Enroll(b) ==
  /\ Owner(b, "enroll") /\ enrolled < MaxEnrolments /\ enrolled' = enrolled + 1
  /\ SaveMfa(request[b].user, [secret |-> enrolled', enabled |-> FALSE, codes |-> {enrolled'}], mfa)
  /\ Refuse(b)
  /\ UNCHANGED <<way, user, lastUser, Rows, session, proofs, open, screen, signIns, raced>>

\* Confirming and disabling read the record, compare a code and then save.
ReadMfa(b) ==
  /\ Owner(b, "verify") \/ Owner(b, "disable")
  /\ IF user = request[b].user /\ mfa.secret # 0 /\ (request[b].how = "disable" => mfa.enabled)
     THEN request' = [request EXCEPT ![b].at = "set", ![b].copy = mfa]
     ELSE Refuse(b)
  /\ UNCHANGED <<way, user, lastUser, Second, Rows, session, proofs, open, screen, Histories>>

SetMfa(b) ==
  /\ At(b, "set")
  /\ SaveMfa(request[b].user,
             IF request[b].how = "verify" THEN [request[b].copy EXCEPT !.enabled = TRUE] ELSE NoMfa,
             request[b].copy)
  /\ Refuse(b)
  /\ UNCHANGED <<way, user, lastUser, enrolled, Rows, session, proofs, open, screen, signIns, raced>>

\* A passkey is added (its own challenge is asked for and signed at once).
AddPasskey(b) ==
  /\ Owner(b, "passkey") /\ passkey' = request[b].user /\ Refuse(b)
  /\ UNCHANGED <<way, user, lastUser, Second, identity, token, session, proofs, open, screen,
                 Histories>>

\* Removing a key or a token removes it only from its own user.
ForgetPasskey(b) ==
  /\ Owner(b, "forget") /\ Refuse(b)
  /\ passkey' = IF passkey = request[b].user THEN 0 ELSE passkey
  /\ UNCHANGED <<way, user, lastUser, Second, identity, token, session, proofs, open, screen,
                 Histories>>

MakeToken(b) ==
  /\ Owner(b, "token") /\ token' = request[b].user /\ Refuse(b)
  /\ UNCHANGED <<way, user, lastUser, Second, identity, passkey, session, proofs, open, screen,
                 Histories>>

RevokeToken(b) ==
  /\ Owner(b, "revoke") /\ Refuse(b)
  /\ token' = IF token = request[b].user THEN 0 ELSE token
  /\ UNCHANGED <<way, user, lastUser, Second, identity, passkey, session, proofs, open, screen,
                 Histories>>

Logout(b) ==
  /\ Owner(b, "logout")
  /\ session' = [session EXCEPT ![b] = 0]
  /\ screen' = [screen EXCEPT ![b] = "form"] /\ Refuse(b)
  /\ UNCHANGED <<way, user, lastUser, Second, Rows, proofs, open, Histories>>

\* Seeded fault: the sessions are left for their expiry.
PurgeKeepingSessions(u) ==
  /\ user' = 0 /\ mfa' = NoMfa
  /\ token' = IF token = u THEN 0 ELSE token
  /\ identity' = IF identity = u THEN 0 ELSE identity
  /\ UNCHANGED session

\* What one transaction removes of user u: the row with its second factor, the
\* sessions, the tokens and the linked identities.  Passkeys are not among them.
Purge(u) ==
  /\ user' = 0 /\ mfa' = NoMfa
  /\ token' = IF token = u THEN 0 ELSE token
  /\ identity' = IF identity = u THEN 0 ELSE identity
  /\ session' = [c \in Browsers |-> IF session[c] = u THEN 0 ELSE session[c]]

DeleteAccount(b) ==
  /\ Owner(b, "delete")
  /\ IF user = request[b].user
     THEN /\ Purge(user)
          /\ screen' = [screen EXCEPT ![b] = "form"]
          /\ raced' = (raced \/ \E c \in Browsers \ {b} : ~At(c, "ready"))
     ELSE UNCHANGED <<user, mfa, token, identity, session, screen, raced>>
  /\ Refuse(b)
  /\ UNCHANGED <<way, lastUser, enrolled, passkey, proofs, open, signIns, stale>>

AccountsNext ==
  \/ \E b \in Browsers :
       \/ Register(b) \/ DemoLogin(b) \/ PasswordLogin(b) \/ StepUp(b) \/ LeaveCode(b)
       \/ EnterCode(b) \/ Recover(b) \/ RequestMagicLink(b) \/ StartOAuth(b) \/ StartPasskey(b)
       \/ Identify(b) \/ Adopt(b) \/ Link(b)
       \/ GetUser(b) \/ StartSession(b) \/ ExpireSession(b)
       \/ AskAsOwner(b) \/ Enroll(b) \/ ReadMfa(b) \/ SetMfa(b) \/ AddPasskey(b)
       \/ ForgetPasskey(b) \/ MakeToken(b) \/ RevokeToken(b)
       \/ Logout(b) \/ DeleteAccount(b)
       \/ \E p \in open : VerifyMagic(b, p) \/ PasskeyLogin(b, p) \/ OAuthCallback(b, p)
  \/ \E p \in open : ExpireProof(p)

AccountsSpec == AccountsInit /\ [][AccountsNext]_accountsVars

-----------------------------------------------------------------------------
\* Every variable keeps its type.
Users == 0..lastUser
MfaRecords ==
  [secret : 0..MaxEnrolments, enabled : BOOLEAN, codes : SUBSET (1..MaxEnrolments)]
AccountsTypeOK ==
  /\ way \in Ways /\ stale \in BOOLEAN /\ raced \in BOOLEAN
  /\ lastUser \in Nat /\ user \in Users
  /\ passkey \in Users /\ identity \in Users /\ token \in Users
  /\ mfa \in MfaRecords
  /\ session \in [Browsers -> Users]
  /\ screen \in [Browsers -> Screens]
  /\ open \subseteq proofs
  /\ \A b \in Browsers : request[b].user \in Users /\ request[b].copy \in MfaRecords

\* A link, a state, a challenge or a recovery code signs in once, whichever
\* browsers redeem it and however their handlers interleave.  The one exception
\* is a recovery code when two saves of the second-factor record overlap.
SingleUse ==
  \A i, j \in DOMAIN signIns :
    i # j /\ signIns[i].proof = signIns[j].proof /\ signIns[i].proof # NoProof
      => signIns[i].how = "recovery" /\ stale

\* After a deletion that no other request overlapped, no session, API token or
\* linked identity belongs to anybody but the address's present user.
DeletedMeansGone ==
  ~raced => /\ \A b \in Browsers : session[b] \in {0, user}
            /\ {identity, token} \subseteq {0, user}

\* docs and comments: a deletion purges all of an owner's data.
PurgeLeavesNothing ==
  [][user # 0 /\ user' = 0 => passkey' # user]_accountsVars
=============================================================================
