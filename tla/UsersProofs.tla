--------------------------- MODULE UsersProofs ---------------------------
(***************************************************************************)
(* What is proved of the user services, for every set of addresses,        *)
(* passwords, tokens, requests, keys and installations and all intervals:  *)
(* the links and the passwords of Accounts (the theorems about             *)
(* Accounts!Spec), then the settings cache, the limits of the public       *)
(* routes with the spacing of the resends, the installation rows, and the  *)
(* requests to every route of the API (the theorems about MCSpec).         *)
(***************************************************************************)
EXTENDS MCUsers, Sums, Sequences

-----------------------------------------------------------------------------
(* What an open request that will still write knows about its account. *)

Busy(r) == req[r] # Idle /\ req[r].pc # "mail"

\* The request q will overwrite the row of its account.
Overwrites(q) ==
    \/ q.op \in {"verify", "reset", "profile"}
    \/ q.op = "change" /\ q.pc = "commit"

FreshFor(q, type) ==
    /\ q.fresh \in Tokens
    /\ q.fresh.user = q.email /\ q.fresh.type = type /\ ~ q.fresh.used

\* The link that request q carries: it was not used before, or requests have overlapped.
LinkHeld(q) ==
    /\ q.use \in issued
    /\ tokens[q.use] # NoToken => /\ tokens[q.use].user = q.email
                                  /\ (uses[q.use] = 0 \/ q.email \in overlapped)
    /\ q.op = "verify" => tokens[q.use] # NoToken
    /\ tokens[q.use] # NoToken =>
          tokens[q.use].type = IF q.op = "verify" THEN "email_verification" ELSE "password_reset"

\* The row that request q will write is made from the present one.
RowHeld(q) ==
    /\ q.write \in Users
    /\ IsActive(q.write) => q.op = "verify" \/ Verified(q.email)
    /\ q.op \in {"reset", "change"} => q.write.password = q.password
    /\ q.op = "verify" => IsActive(q.write)
    /\ q.email \notin overlapped =>
          /\ IsActive(users[q.email]) => IsActive(q.write)
          /\ q.op \in {"verify", "profile"} => q.write.password = users[q.email].password

Held(q) ==
    /\ q.op = "register" => /\ FreshFor(q, "email_verification")
                            /\ q.write \in Users /\ ~ IsActive(q.write)
                            /\ q.write.password = q.password
    /\ q.op = "resend" => FreshFor(q, "email_verification")
    /\ q.op = "request_reset" => FreshFor(q, "password_reset")
    /\ q.op # "register" => users[q.email] # NoUser
    /\ q.op \in {"verify", "reset"} => LinkHeld(q)
    /\ q.op = "change" => q.password \in Strong
    /\ Overwrites(q) => RowHeld(q)

RequestsInv ==
    /\ \A r \in Requests : Busy(r) => Held(req[r])
    /\ \A r \in Requests : req[r] # Idle /\ req[r].pc = "mail" => req[r].use \in issued
    /\ \A r \in Requests, s \in Requests :
          r # s /\ Busy(r) /\ Busy(s) /\ req[r].email = req[s].email => req[r].email \in overlapped

\* A token was given out, belongs to an account, and remembers that it was used.
TokensInv ==
    /\ \A t \in TokenIds : t \notin issued => tokens[t] = NoToken /\ uses[t] = 0
    /\ \A t \in TokenIds : tokens[t] # NoToken =>
          /\ users[tokens[t].user] # NoUser
          /\ uses[t] > 0 => tokens[t].used
    /\ LinksAreSound

\* The rows of the accounts.
UsersInv ==
    /\ ActiveWasVerified
    /\ \A e \in Emails \ overlapped : users[e] # NoUser =>
          /\ users[e].password = chosen[e]
          /\ Verified(e) => IsActive(users[e])

AccountsInv == RequestsInv /\ TokensInv /\ UsersInv

-----------------------------------------------------------------------------
(* Type correctness *)

LEMMA OpenType ==
  ASSUME NEW op \in Ops, NEW e \in Emails, NEW pc \in {"checked", "commit", "mail"},
         NEW write \in Users \cup {NoUser}, NEW use \in TokenIds \cup {NoToken},
         NEW fresh \in Tokens \cup {NoToken}, NEW p \in Strong \cup {NoUser}
  PROVE  Request(op, e, pc, write, use, fresh, p) \in Open
BY DEF Request, Open

LEMMA FreshType ==
  ASSUME NEW e \in Emails, now \in 0..MaxTime
  PROVE  /\ NewEmailVerificationToken(e) \in Tokens
         /\ NewPasswordResetToken(e) \in Tokens
BY AccountsAssumption DEF NewEmailVerificationToken, NewPasswordResetToken, Tokens, Times

LEMMA BeginType ==
  ASSUME TypeOK, NEW r \in Requests, NEW x \in Open, Begin(r, x)
  PROVE  TypeOK'
BY DEF TypeOK, Begin, Open

LEMMA MarkType ==
  ASSUME TypeOK, NEW t \in TokenIds
  PROVE  MarkAsUsed(tokens, t) \in [TokenIds -> Tokens \cup {NoToken}]
<1>1. CASE tokens[t] = NoToken
  BY <1>1 DEF TypeOK, MarkAsUsed
<1>2. CASE tokens[t] # NoToken
  <2>1. tokens[t] \in Tokens
    BY <1>2 DEF TypeOK
  <2>2. [tokens[t] EXCEPT !.used = TRUE] \in Tokens
    BY <2>1 DEF Tokens
  <2>. QED
    BY <1>2, <2>2 DEF TypeOK, MarkAsUsed
<1>. QED
  BY <1>1, <1>2

LEMMA TypeInit == Init => TypeOK
BY AccountsAssumption DEF Init, TypeOK

\* A link that can be used names a stored token of an account.
LEMMA UsableLink ==
  ASSUME TypeOK, TokensInv, NEW t \in TokenIds, NEW type, CanUseToken(t, type)
  PROVE  /\ tokens[t] \in Tokens /\ tokens[t] # NoToken
         /\ tokens[t].user \in Emails /\ tokens[t].type = type /\ ~ tokens[t].used
         /\ users[tokens[t].user] \in Users
BY DEF TypeOK, TokensInv, CanUseToken, FindByToken, Validate, Tokens

LEMMA CommitType ==
  ASSUME TypeOK, NEW r \in Requests, req[r] # Idle
  PROVE  /\ req[r] \in Open
         /\ req[r].email \in Emails
         /\ End(r) => req' \in [Requests -> Open \cup {Idle}]
         /\ \A u \in Users \cup {NoUser} :
              UpdateUserRow(req[r].email, u) => users' \in [Emails -> Users \cup {NoUser}]
         /\ \A p \in Strong \cup {NoUser} :
              [chosen EXCEPT ![req[r].email] = p] \in [Emails -> Strong \cup {NoUser}]
         /\ \A t \in TokenIds :
              [uses EXCEPT ![t] = IF @ = 2 THEN 2 ELSE @ + 1] \in [TokenIds -> 0..2]
BY DEF TypeOK, Open, End, UpdateUserRow

LEMMA InsertType ==
  ASSUME TypeOK, NEW r \in Requests, req[r] # Idle, NEW t \in TokenIds,
         NEW ts \in [TokenIds -> Tokens \cup {NoToken}], Insert(r, ts, t)
  PROVE  /\ tokens' \in [TokenIds -> Tokens \cup {NoToken}]
         /\ issued' \subseteq TokenIds
         /\ req' \in [Requests -> Open \cup {Idle}]
<1>1. req[r] \in Open
  BY DEF TypeOK
<1>2. [req[r] EXCEPT !.pc = "mail", !.use = t] \in Open
  BY <1>1 DEF Open
<1>. QED
  BY <1>1, <1>2 DEF TypeOK, Insert, CreateToken, Open

\* A step of a request keeps the types; the rows it writes exist because
\* tokens belong to accounts and a change is made for an account.
LEMMA TypeAccount ==
  ASSUME TypeOK, RequestsInv, TokensInv, NEW r \in Requests, Account(r)
  PROVE  TypeOK'
<1>1. ASSUME NEW e \in Emails, NEW p \in Passwords, NEW n \in Names, RegisterUser(r, e, p, n)
      PROVE  TypeOK'
  <2>1. NewUser(p, n) \in Users /\ p \in Strong
    BY <1>1 DEF RegisterUser, ValidPassword, NewUser, Users
  <2>2. NewEmailVerificationToken(e) \in Tokens
    BY FreshType DEF TypeOK
  <2>3. Request("register", e, "commit", NewUser(p, n), NoToken,
                NewEmailVerificationToken(e), p) \in Open
    BY <2>1, <2>2, OpenType DEF Ops
  <2>. QED
    BY <1>1, <2>3, BeginType DEF RegisterUser
<1>2. ASSUME NEW t \in TokenIds, CommitRegistration(r, t)
      PROVE  TypeOK'
  <2>1. req[r] # Idle
    BY <1>2 DEF CommitRegistration, Ready
  <2>2. req[r] \in Open /\ tokens \in [TokenIds -> Tokens \cup {NoToken}]
    BY <2>1 DEF TypeOK
  <2>3. /\ tokens' \in [TokenIds -> Tokens \cup {NoToken}]
        /\ issued' \subseteq TokenIds
        /\ req' \in [Requests -> Open \cup {Idle}]
    BY <1>2, <2>1, <2>2, InsertType DEF CommitRegistration
  <2>4. req[r].write \in Users \cup {NoUser} /\ req[r].password \in Strong \cup {NoUser}
    BY <2>2 DEF Open
  <2>5. /\ users' \in [Emails -> Users \cup {NoUser}]
        /\ chosen' \in [Emails -> Strong \cup {NoUser}]
        /\ req[r].email \in Emails
    BY <1>2, <2>1, <2>4, CommitType DEF CommitRegistration
  <2>. QED
    BY <1>2, <2>3, <2>5 DEF CommitRegistration, TypeOK
<1>3. ASSUME DuplicateRegistration(r) \/ Abort(r)
      PROVE  TypeOK'
  <2>1. req[r] # Idle
    BY <1>3 DEF DuplicateRegistration, Abort, Ready
  <2>. QED
    BY <1>3, <2>1, CommitType DEF DuplicateRegistration, Abort, TypeOK
<1>4. ASSUME NEW t \in TokenIds, VerifyEmail(r, t)
      PROVE  TypeOK'
  <2>1. tokens[t].user \in Emails /\ users[tokens[t].user] \in Users
    BY <1>4, UsableLink DEF VerifyEmail
  <2>2. Activate(users[tokens[t].user]) \in Users
    BY <2>1 DEF Activate, Users
  <2>3. Request("verify", tokens[t].user, "commit", Activate(users[tokens[t].user]), t,
                NoToken, NoUser) \in Open
    BY <2>1, <2>2, OpenType DEF Ops
  <2>. QED
    BY <1>4, <2>3, BeginType DEF VerifyEmail
<1>5. ASSUME CommitVerification(r) \/ CommitReset(r)
      PROVE  TypeOK'
  <2>1. req[r] # Idle
    BY <1>5 DEF CommitVerification, CommitReset, Ready
  <2>2. req[r] \in Open
    BY <2>1 DEF TypeOK
  <2>3. Busy(r) /\ req[r].op \in {"verify", "reset"}
    BY <1>5, <2>1 DEF CommitVerification, CommitReset, Ready, Busy
  <2>4. req[r].use \in TokenIds
    BY <2>3 DEF RequestsInv, Held, LinkHeld, TypeOK
  <2>5. /\ req[r].write \in Users \cup {NoUser} /\ req[r].password \in Strong \cup {NoUser}
    BY <2>2 DEF Open
  <2>6. /\ users' \in [Emails -> Users \cup {NoUser}]
        /\ chosen' \in [Emails -> Strong \cup {NoUser}]
        /\ uses' \in [TokenIds -> 0..2]
        /\ req' \in [Requests -> Open \cup {Idle}]
    BY <1>5, <2>1, <2>4, <2>5, CommitType DEF CommitVerification, CommitReset, TypeOK
  <2>7. tokens' \in [TokenIds -> Tokens \cup {NoToken}]
    BY <1>5, <2>4, MarkType DEF CommitVerification, CommitReset
  <2>. QED
    BY <1>5, <2>6, <2>7 DEF CommitVerification, CommitReset, TypeOK
<1>6. ASSUME NEW e \in Emails, ResendVerificationEmail(r, e) \/ RequestPasswordReset(r, e)
      PROVE  TypeOK'
  <2>1. NewEmailVerificationToken(e) \in Tokens /\ NewPasswordResetToken(e) \in Tokens
    BY FreshType DEF TypeOK
  <2>2. /\ Request("resend", e, "commit", NoUser, NoToken, NewEmailVerificationToken(e), NoUser)
              \in Open
        /\ Request("request_reset", e, "commit", NoUser, NoToken, NewPasswordResetToken(e),
                   NoUser) \in Open
    BY <2>1, OpenType DEF Ops
  <2>. QED
    BY <1>6, <2>2, BeginType DEF ResendVerificationEmail, RequestPasswordReset
<1>7. ASSUME NEW t \in TokenIds, CommitResend(r, t) \/ CommitResetRequest(r, t)
      PROVE  TypeOK'
  <2>1. req[r] # Idle
    BY <1>7 DEF CommitResend, CommitResetRequest, Ready
  <2>2. /\ tokens \in [TokenIds -> Tokens \cup {NoToken}]
        /\ DeleteUserTokens(tokens, req[r].email, "password_reset")
              \in [TokenIds -> Tokens \cup {NoToken}]
    BY DEF TypeOK, DeleteUserTokens
  <2>3. /\ tokens' \in [TokenIds -> Tokens \cup {NoToken}]
        /\ issued' \subseteq TokenIds
        /\ req' \in [Requests -> Open \cup {Idle}]
    BY <1>7, <2>1, <2>2, InsertType DEF CommitResend, CommitResetRequest
  <2>. QED
    BY <1>7, <2>3 DEF CommitResend, CommitResetRequest, TypeOK
<1>8. ASSUME NEW t \in TokenIds, NEW p \in Passwords, ResetPassword(r, t, p)
      PROVE  TypeOK'
  <2>1. tokens[t].user \in Emails /\ users[tokens[t].user] \in Users /\ p \in Strong
    BY <1>8, UsableLink DEF ResetPassword, ValidPassword
  <2>2. UpdatePassword(users[tokens[t].user], p) \in Users
    BY <2>1 DEF UpdatePassword, Users
  <2>3. Request("reset", tokens[t].user, "commit",
                UpdatePassword(users[tokens[t].user], p), t, NoToken, p) \in Open
    BY <2>1, <2>2, OpenType DEF Ops
  <2>. QED
    BY <1>8, <2>3, BeginType DEF ResetPassword
<1>9. ASSUME NEW e \in Emails, NEW old \in Passwords, NEW p \in Passwords,
             ChangePassword(r, e, old, p)
      PROVE  TypeOK'
  <2>1. Request("change", e, "checked", NoUser, NoToken, NoToken, p) \in Open
    BY <1>9, OpenType DEF Ops, ChangePassword, ValidPassword
  <2>. QED
    BY <1>9, <2>1, BeginType DEF ChangePassword
<1>10. ASSUME ReadForChange(r)
       PROVE  TypeOK'
  <2>1. req[r] \in Open /\ Busy(r) /\ req[r].op = "change"
    BY <1>10 DEF ReadForChange, TypeOK, Busy
  <2>2. users[req[r].email] # NoUser
    BY <2>1 DEF RequestsInv, Held
  <2>3. users[req[r].email] \in Users
    BY <2>1, <2>2 DEF TypeOK, Open
  <2>4. CASE req[r].password \in Strong
    <3>1. UpdatePassword(users[req[r].email], req[r].password) \in Users
      BY <2>3, <2>4 DEF UpdatePassword, Users
    <3>2. [req[r] EXCEPT !.pc = "commit",
             !.write = UpdatePassword(users[req[r].email], req[r].password)] \in Open
      BY <2>1, <3>1 DEF Open
    <3>3. req'= [req EXCEPT ![r] = [req[r] EXCEPT !.pc = "commit",
             !.write = UpdatePassword(users[req[r].email], req[r].password)]]
      BY <1>10 DEF ReadForChange, TypeOK
    <3>. QED
      BY <1>10, <3>2, <3>3 DEF ReadForChange, TypeOK
  <2>. QED
    BY <2>1, <2>4 DEF RequestsInv, Held
<1>11. ASSUME WritePassword(r) \/ WriteProfile(r)
       PROVE  TypeOK'
  <2>1. req[r] # Idle
    BY <1>11 DEF WritePassword, WriteProfile, Ready
  <2>2. req[r] \in Open
    BY <2>1 DEF TypeOK
  <2>3. /\ req[r].write \in Users \cup {NoUser} /\ req[r].password \in Strong \cup {NoUser}
    BY <2>2 DEF Open
  <2>4. /\ users' \in [Emails -> Users \cup {NoUser}]
        /\ chosen' \in [Emails -> Strong \cup {NoUser}]
        /\ req' \in [Requests -> Open \cup {Idle}]
    BY <1>11, <2>1, <2>3, CommitType DEF WritePassword, WriteProfile, TypeOK
  <2>. QED
    BY <1>11, <2>4 DEF WritePassword, WriteProfile, TypeOK
<1>12. ASSUME NEW e \in Emails, NEW n \in Names, UpdateUser(r, e, n)
       PROVE  TypeOK'
  <2>1. users[e] \in Users
    BY <1>12 DEF UpdateUser, ExistsByEmail, TypeOK
  <2>2. SetNickname(users[e], n) \in Users
    BY <2>1 DEF SetNickname, Users
  <2>3. Request("profile", e, "commit", SetNickname(users[e], n), NoToken, NoToken, NoUser)
          \in Open
    BY <2>2, OpenType DEF Ops
  <2>. QED
    BY <1>12, <2>3, BeginType DEF UpdateUser
<1>13. ASSUME SendEmail(r)
       PROVE  TypeOK'
  <2>1. req[r] # Idle /\ req[r].pc = "mail"
    BY <1>13 DEF SendEmail
  <2>2. req[r].use \in TokenIds
    BY <2>1 DEF RequestsInv, TypeOK
  <2>. QED
    BY <1>13, <2>1, <2>2, CommitType DEF SendEmail, TypeOK
<1>. QED
  BY <1>1, <1>2, <1>3, <1>4, <1>5, <1>6, <1>7, <1>8, <1>9, <1>10, <1>11, <1>12, <1>13
  DEF Account

-----------------------------------------------------------------------------
(* What no step takes back: a link given out is never given out again,     *)
(* used verification links stay, and accounts are not deleted.             *)

TokenKept(t) ==
    \/ tokens[t] = NoToken
    \/ tokens[t].type = "password_reset" /\ tokens'[t] = NoToken
    \/ /\ tokens'[t] # NoToken
       /\ tokens'[t].user = tokens[t].user /\ tokens'[t].type = tokens[t].type
       /\ tokens[t].used => tokens'[t].used

Kept ==
    /\ overlapped \subseteq overlapped' /\ issued \subseteq issued'
    /\ \A e \in Emails : users[e] # NoUser => users'[e] # NoUser
    /\ \A t \in TokenIds : TokenKept(t)
    /\ \A t \in issued : tokens[t] = NoToken => tokens'[t] = NoToken

LEMMA VerifiedKept ==
  ASSUME Kept, NEW e, Verified(e)
  PROVE  Verified(e)'
BY DEF Kept, TokenKept, Verified

\* What a request knows stays true while the others leave its account alone
\* or have overlapped with it.
LEMMA HeldKept ==
  ASSUME TypeOK, Kept, NEW q \in Open, Held(q),
         q.email \notin overlapped' =>
            /\ users'[q.email] = users[q.email] \/ users[q.email] = NoUser
            /\ \A t \in issued : tokens'[t] # NoToken /\ tokens[t].user = q.email
                                 => uses'[t] = uses[t]
  PROVE  Held(q)'
<1>1. ASSUME q.op # "register"
      PROVE  users'[q.email] # NoUser
  BY <1>1 DEF Held, Kept, Open
<1>2. ASSUME q.op \in {"verify", "reset"}
      PROVE  LinkHeld(q)'
  <2>1. LinkHeld(q) /\ q.use \in issued /\ q.use \in TokenIds
    BY <1>2 DEF Held, LinkHeld, TypeOK
  <2>2. q.use \in issued'
    BY <2>1 DEF Kept
  <2>3. ASSUME tokens'[q.use] # NoToken
        PROVE  tokens'[q.use].user = q.email /\ (uses'[q.use] = 0 \/ q.email \in overlapped')
    <3>1. tokens[q.use] # NoToken
      BY <2>1, <2>3 DEF Kept
    <3>2. tokens[q.use].user = q.email /\ (uses[q.use] = 0 \/ q.email \in overlapped)
      BY <2>1, <3>1 DEF LinkHeld
    <3>. QED
      BY <2>1, <2>3, <3>1, <3>2 DEF Kept, TokenKept
  <2>4. tokens'[q.use] # NoToken => tokens[q.use] # NoToken /\ tokens'[q.use].type = tokens[q.use].type
    BY <2>1 DEF Kept, TokenKept
  <2>5. q.op = "verify" => tokens'[q.use] # NoToken
    BY <2>1 DEF LinkHeld, Kept, TokenKept
  <2>. QED
    BY <2>1, <2>2, <2>3, <2>4, <2>5 DEF LinkHeld
<1>3. ASSUME Overwrites(q)
      PROVE  RowHeld(q)'
  <2>1. RowHeld(q) /\ users[q.email] # NoUser
    BY <1>3 DEF Held, Overwrites
  <2>2. Verified(q.email) => Verified(q.email)'
    BY VerifiedKept
  <2>3. q.email \notin overlapped' => users'[q.email] = users[q.email] /\ q.email \notin overlapped
    BY <2>1 DEF Kept
  <2>. QED
    BY <2>1, <2>2, <2>3 DEF RowHeld
<1>. QED
  BY <1>1, <1>2, <1>3 DEF Held, FreshFor, Overwrites

LEMMA HeldNext ==
  ASSUME NEW s, NEW q, q = req'[s]
  PROVE  Held(q)' <=> Held(req[s])'
BY DEF Held, FreshFor, Overwrites, LinkHeld, RowHeld, Verified

\* The other requests after a step of r.
LEMMA OthersHeld ==
  ASSUME TypeOK, Kept, RequestsInv, NEW r \in Requests, NEW s \in Requests, s # r,
         req'[s] = req[s], Busy(s),
         req[s].email \notin overlapped' =>
            /\ users'[req[s].email] = users[req[s].email] \/ users[req[s].email] = NoUser
            /\ \A t \in issued : tokens'[t] # NoToken /\ tokens[t].user = req[s].email
                                 => uses'[t] = uses[t]
  PROVE  Held(req[s])'
<1>1. PICK q \in Open : q = req[s]
  BY DEF TypeOK, Busy
<1>2. Held(q)
  BY <1>1 DEF RequestsInv
<1>3. Held(q)'
  BY <1>1, <1>2, HeldKept
<1>. QED
  BY <1>1, <1>3, HeldNext

-----------------------------------------------------------------------------
(* Steps that write no account and no token: opening a request, reading     *)
(* for a change, ending without a write. *)

LEMMA QuietStep ==
  ASSUME TypeOK, AccountsInv, NEW r \in Requests,
         UNCHANGED <<users, tokens, issued, chosen, uses>>,
         overlapped \subseteq overlapped',
         \A s \in Requests \ {r} : req'[s] = req[s],
         Busy(r)' => Held(req[r])',
         req'[r] # Idle /\ req'[r].pc = "mail" => req'[r] = req[r],
         Busy(r)' => \A s \in Requests \ {r} :
             Busy(s) /\ req[s].email = req'[r].email => req'[r].email \in overlapped'
  PROVE  AccountsInv'
<1>1. Kept
  BY DEF Kept, TokenKept
<1>2. ASSUME NEW s \in Requests, Busy(s)'
      PROVE  Held(req[s])'
  <2>1. CASE s = r
    BY <1>2, <2>1
  <2>2. CASE s # r
    <3>1. req'[s] = req[s] /\ Busy(s)
      BY <1>2, <2>2 DEF Busy
    <3>. QED
      BY <1>1, <2>2, <3>1, OthersHeld DEF AccountsInv
  <2>. QED
    BY <2>1, <2>2
<1>3. ASSUME NEW s \in Requests, req'[s] # Idle, req'[s].pc = "mail"
      PROVE  req'[s].use \in issued'
  BY <1>3 DEF AccountsInv, RequestsInv
<1>4. ASSUME NEW s \in Requests, NEW t \in Requests,
             s # t, Busy(s)', Busy(t)', req'[s].email = req'[t].email
      PROVE  req'[s].email \in overlapped'
  BY <1>4 DEF AccountsInv, RequestsInv, Busy
<1>5. RequestsInv'
  BY <1>2, <1>3, <1>4 DEF RequestsInv
<1>6. TokensInv'
  BY DEF AccountsInv, TokensInv, LinksAreSound, OneResetLink, LinkWorksOnce, TokensOf
<1>7. UsersInv'
  BY DEF AccountsInv, UsersInv, ActiveWasVerified, Verified
<1>. QED
  BY <1>5, <1>6, <1>7 DEF AccountsInv

LEMMA BeginStep ==
  ASSUME TypeOK, AccountsInv, NEW r \in Requests, NEW x \in Open,
         Begin(r, x), x.pc # "mail", Held(x)
  PROVE  AccountsInv'
<1>1. req' = [req EXCEPT ![r] = x] /\ req'[r] = x
  BY DEF Begin, TypeOK
<1>2. \A s \in Requests \ {r} : req'[s] = req[s]
  BY <1>1 DEF TypeOK
<1>3. Kept
  BY DEF Begin, Kept, TokenKept
<1>4. Held(x)'
  BY <1>3, HeldKept DEF Begin
<1>5. Held(req[r])'
  BY <1>1, <1>4, HeldNext
<1>6. overlapped \subseteq overlapped'
  BY <1>3 DEF Kept
<1>7. ASSUME NEW s \in Requests \ {r}, Busy(s), req[s].email = x.email
      PROVE  x.email \in overlapped'
  BY <1>7 DEF Begin, Busy
<1>. QED
  BY <1>1, <1>2, <1>5, <1>6, <1>7, QuietStep DEF Begin

LEMMA EndStep ==
  ASSUME TypeOK, AccountsInv, NEW r \in Requests, End(r),
         UNCHANGED <<users, tokens, issued, chosen, uses, overlapped>>
  PROVE  AccountsInv'
<1>1. req'[r] = Idle /\ \A s \in Requests \ {r} : req'[s] = req[s]
  BY DEF End, TypeOK
<1>. QED
  BY <1>1, QuietStep DEF Busy

-----------------------------------------------------------------------------
(* The four writes of a whole row: they end the request, write the row it  *)
(* holds, use the link it holds, and set the password it was sent. *)

Overwrite(r) ==
    /\ Busy(r) /\ Overwrites(req[r])
    /\ UpdateUserRow(req[r].email, req[r].write)
    /\ IF req[r].op \in {"verify", "reset"}
       THEN /\ tokens' = MarkAsUsed(tokens, req[r].use)
            /\ uses' = [uses EXCEPT ![req[r].use] = IF @ = 2 THEN 2 ELSE @ + 1]
       ELSE UNCHANGED <<tokens, uses>>
    /\ IF req[r].op \in {"reset", "change"}
       THEN chosen' = [chosen EXCEPT ![req[r].email] = req[r].password]
       ELSE UNCHANGED chosen
    /\ End(r)
    /\ UNCHANGED <<issued, overlapped>>

LEMMA CommitsOverwrite ==
  ASSUME NEW r,
         CommitVerification(r) \/ CommitReset(r) \/ WritePassword(r) \/ WriteProfile(r)
  PROVE  Overwrite(r)
BY DEF CommitVerification, CommitReset, WritePassword, WriteProfile, Overwrite, Ready, Busy,
       Overwrites

\* Marking: only the link of the request changes, and only by being used.
LEMMA OverwriteTokens ==
  ASSUME TypeOK, AccountsInv, NEW r \in Requests, Overwrite(r)
  PROVE  /\ \A t \in TokenIds :
              /\ tokens'[t] = NoToken <=> tokens[t] = NoToken
              /\ tokens[t] # NoToken => /\ tokens'[t].user = tokens[t].user
                                        /\ tokens'[t].type = tokens[t].type
                                        /\ tokens[t].used => tokens'[t].used
              /\ \/ tokens'[t] = tokens[t] /\ uses'[t] = uses[t]
                 \/ /\ req[r].op \in {"verify", "reset"} /\ t = req[r].use
                    /\ tokens[t] # NoToken =>
                         /\ tokens[t].user = req[r].email /\ tokens'[t].used
                         /\ uses'[t] > 1 => req[r].email \in overlapped
         /\ \A t \in TokenIds : t \notin issued => uses'[t] = uses[t]
<1>1. CASE req[r].op \notin {"verify", "reset"}
  BY <1>1 DEF Overwrite
<1>2. CASE req[r].op \in {"verify", "reset"}
  <2> DEFINE u == req[r].use
  <2>1. LinkHeld(req[r])
    BY <1>2 DEF AccountsInv, RequestsInv, Held, Overwrite
  <2>2. u \in issued /\ u \in TokenIds
    BY <2>1 DEF LinkHeld, TypeOK
  <2>3. /\ tokens' = MarkAsUsed(tokens, u)
        /\ uses' = [uses EXCEPT ![u] = IF @ = 2 THEN 2 ELSE @ + 1]
    BY <1>2 DEF Overwrite
  <2>4. \A t \in TokenIds \ {u} : tokens'[t] = tokens[t] /\ uses'[t] = uses[t]
    BY <2>3 DEF MarkAsUsed, TypeOK
  <2>5. CASE tokens[u] = NoToken
    <3>1. tokens' = tokens
      BY <2>3, <2>5 DEF MarkAsUsed
    <3>. QED
      BY <1>2, <2>2, <2>4, <2>5, <3>1
  <2>6. CASE tokens[u] # NoToken
    <3>1. tokens[u] \in Tokens
      BY <2>2, <2>6 DEF TypeOK
    <3>2. tokens'[u] = [tokens[u] EXCEPT !.used = TRUE]
      BY <2>2, <2>3, <2>6 DEF MarkAsUsed, TypeOK
    <3>3. /\ tokens'[u] \in Tokens /\ tokens'[u].user = tokens[u].user
          /\ tokens'[u].type = tokens[u].type /\ tokens'[u].used
      BY <3>1, <3>2 DEF Tokens
    <3>4. tokens'[u] # NoToken
      BY <3>3, NullsAssumption
    <3>5. tokens[u].user = req[r].email /\ (uses[u] = 0 \/ req[r].email \in overlapped)
      BY <2>1, <2>6 DEF LinkHeld
    <3>6. uses'[u] > 1 => req[r].email \in overlapped
      BY <2>2, <2>3, <3>5 DEF TypeOK
    <3>. QED
      BY <1>2, <2>2, <2>4, <2>6, <3>3, <3>4, <3>5, <3>6
  <2>. QED
    BY <2>5, <2>6
<1>. QED
  BY <1>1, <1>2

LEMMA OverwriteStep ==
  ASSUME TypeOK, AccountsInv, NEW r \in Requests, Overwrite(r)
  PROVE  AccountsInv'
<1>0. PICK e \in Emails : e = req[r].email
  BY DEF Overwrite, TypeOK, Open, Busy
<1>1. /\ req[r] \in Open /\ e = req[r].email /\ Held(req[r]) /\ RowHeld(req[r])
      /\ req[r].write \in Users /\ users[e] # NoUser
  BY <1>0 DEF Overwrite, TypeOK, Open, Busy, AccountsInv, RequestsInv, Held, RowHeld, Overwrites
<1>2. users'[e] = req[r].write /\ \A d \in Emails \ {e} : users'[d] = users[d]
  BY <1>1 DEF Overwrite, UpdateUserRow, TypeOK
<1>3. users'[e] \in Users /\ users'[e] # NoUser
  BY <1>1, <1>2, NullsAssumption
<1>4. Kept
  <2>1. \A t \in TokenIds : TokenKept(t)
    BY OverwriteTokens DEF TokenKept
  <2>2. \A t \in issued : tokens[t] = NoToken => tokens'[t] = NoToken
    BY OverwriteTokens DEF TypeOK
  <2>. QED
    BY <1>2, <1>3, <2>1, <2>2 DEF Kept, Overwrite
<1>5. req'[r] = Idle /\ \A s \in Requests \ {r} : req'[s] = req[s]
  BY DEF Overwrite, End, TypeOK
<1>6. ASSUME NEW s \in Requests, Busy(s)'
      PROVE  s # r /\ Busy(s) /\ Held(req[s])'
  <2>1. s # r /\ Busy(s) /\ req'[s] = req[s]
    BY <1>5, <1>6 DEF Busy
  <2>2. req[s].email \in Emails
    BY <2>1 DEF Busy, TypeOK, Open
  <2>3. req[s].email \notin overlapped => req[s].email # e
    BY <1>1, <2>1 DEF AccountsInv, RequestsInv, Overwrite
  <2>4. req[s].email \notin overlapped =>
          \A t \in issued : tokens'[t] # NoToken /\ tokens[t].user = req[s].email
                           => uses'[t] = uses[t]
    BY <1>1, <2>3, OverwriteTokens DEF TypeOK
  <2>5. overlapped' = overlapped
    BY DEF Overwrite
  <2>. QED
    BY <1>2, <1>4, <2>1, <2>2, <2>3, <2>4, <2>5, OthersHeld DEF AccountsInv
<1>7. RequestsInv'
  BY <1>5, <1>6 DEF AccountsInv, RequestsInv, Overwrite, Busy
<1>8. TokensInv'
  <2>1. \A t \in TokenIds : t \notin issued' => tokens'[t] = NoToken /\ uses'[t] = 0
    BY OverwriteTokens DEF AccountsInv, TokensInv, Overwrite
  <2>2. ASSUME NEW t \in TokenIds, tokens'[t] # NoToken
        PROVE  /\ users'[tokens'[t].user] # NoUser
               /\ uses'[t] > 0 => tokens'[t].used
               /\ uses'[t] > 1 => tokens'[t].user \in overlapped'
    <3>1. /\ tokens[t] # NoToken /\ tokens'[t].user = tokens[t].user
          /\ tokens[t].user \in Emails
      BY <2>2, OverwriteTokens DEF TypeOK, Tokens
    <3>2. users'[tokens[t].user] # NoUser
      BY <1>4, <3>1 DEF Kept, AccountsInv, TokensInv
    <3>3. overlapped' = overlapped
      BY DEF Overwrite
    <3>4. CASE tokens'[t] = tokens[t] /\ uses'[t] = uses[t]
      BY <3>1, <3>2, <3>3, <3>4 DEF AccountsInv, TokensInv, LinksAreSound, LinkWorksOnce
    <3>5. CASE ~ (tokens'[t] = tokens[t] /\ uses'[t] = uses[t])
      BY <1>1, <3>1, <3>2, <3>3, <3>5, OverwriteTokens
    <3>. QED
      BY <3>4, <3>5
  <2>3. OneResetLink'
    BY OverwriteTokens DEF AccountsInv, TokensInv, LinksAreSound, OneResetLink, TokensOf
  <2>4. LinkWorksOnce'
    BY <2>2 DEF LinkWorksOnce
  <2>. QED
    BY <2>1, <2>2, <2>3, <2>4 DEF TokensInv, LinksAreSound
<1>9. UsersInv'
  <2>1. \A d : Verified(d) => Verified(d)'
    BY <1>4, VerifiedKept
  <2>2. ASSUME NEW d \in Emails, d # e, Verified(d)'
        PROVE  Verified(d)
    <3>1. PICK t \in TokenIds : /\ tokens'[t] # NoToken /\ tokens'[t].user = d
                                /\ tokens'[t].type = "email_verification" /\ tokens'[t].used
      BY <2>2 DEF Verified
    <3>2. tokens'[t] = tokens[t]
      BY <1>1, <2>2, <3>1, OverwriteTokens
    <3>. QED
      BY <3>1, <3>2 DEF Verified
  <2>3. ASSUME req[r].op = "verify"
        PROVE  Verified(e)'
    <3>1. LinkHeld(req[r]) /\ req[r].use \in TokenIds
      BY <1>1, <2>3 DEF Held, LinkHeld, TypeOK
    <3>2. /\ tokens[req[r].use] # NoToken /\ tokens[req[r].use].type = "email_verification"
          /\ tokens[req[r].use].user = e
      BY <1>1, <2>3, <3>1 DEF LinkHeld
    <3>3. tokens' = MarkAsUsed(tokens, req[r].use)
      BY <2>3 DEF Overwrite
    <3>4. tokens'[req[r].use].used
      BY <3>1, <3>2, <3>3 DEF MarkAsUsed, TypeOK, Tokens
    <3>. QED
      BY <3>1, <3>2, <3>4, OverwriteTokens DEF Verified
  <2>4. IsActive(users'[e]) => Verified(e)'
    BY <1>1, <1>2, <2>1, <2>3 DEF RowHeld
  <2>5. ActiveWasVerified'
    BY <1>2, <2>1, <2>4 DEF AccountsInv, UsersInv, ActiveWasVerified
  <2>6. ASSUME NEW d \in Emails \ overlapped', users'[d] # NoUser
        PROVE  users'[d].password = chosen'[d] /\ (Verified(d)' => IsActive(users'[d]))
    <3>1. overlapped' = overlapped
      BY DEF Overwrite
    <3>2. CASE d # e
      <4>1. users'[d] = users[d] /\ chosen'[d] = chosen[d]
        BY <1>1, <1>2, <3>2 DEF Overwrite, TypeOK
      <4>. QED
        BY <2>2, <2>6, <3>1, <3>2, <4>1 DEF AccountsInv, UsersInv
    <3>3. CASE d = e
      <4>1. users[e].password = chosen[e] /\ (Verified(e) => IsActive(users[e]))
        BY <1>1, <2>6, <3>1, <3>3 DEF AccountsInv, UsersInv
      <4>2. users'[e].password = chosen'[e]
        <5>1. CASE req[r].op \in {"reset", "change"}
          <6>1. chosen'[e] = req[r].password
            BY <1>1, <5>1 DEF Overwrite, TypeOK
          <6>. QED
            BY <1>1, <1>2, <5>1, <6>1 DEF RowHeld
        <5>2. CASE req[r].op \in {"verify", "profile"}
          <6>1. chosen' = chosen
            BY <5>2 DEF Overwrite
          <6>. QED
            BY <1>1, <1>2, <2>6, <3>1, <3>3, <4>1, <5>2, <6>1 DEF RowHeld
        <5>. QED
          BY <5>1, <5>2 DEF Overwrite, Overwrites
      <4>3. Verified(e)' => Verified(e) \/ req[r].op = "verify"
        <5>1. ASSUME Verified(e)', req[r].op # "verify"
              PROVE  Verified(e)
          <6>1. PICK t \in TokenIds :
                   /\ tokens'[t] # NoToken /\ tokens'[t].user = e
                   /\ tokens'[t].type = "email_verification" /\ tokens'[t].used
            BY <5>1 DEF Verified
          <6>2. tokens[t] # NoToken /\ tokens[t].type = "email_verification"
            BY <6>1, OverwriteTokens
          <6>3. tokens'[t] = tokens[t]
            BY <1>1, <5>1, <6>2, OverwriteTokens DEF Held, LinkHeld
          <6>. QED
            BY <6>1, <6>3 DEF Verified
        <5>. QED
          BY <5>1
      <4>4. IsActive(users[e]) \/ req[r].op = "verify" => IsActive(users'[e])
        BY <1>1, <1>2, <2>6, <3>1, <3>3 DEF RowHeld
      <4>. QED
        BY <3>3, <4>1, <4>2, <4>3, <4>4
    <3>. QED
      BY <3>2, <3>3
  <2>. QED
    BY <2>5, <2>6 DEF UsersInv
<1>. QED
  BY <1>7, <1>8, <1>9 DEF AccountsInv

-----------------------------------------------------------------------------
(* The three commits that insert a token; registration inserts the account  *)
(* with it. *)

Insertion(r, t) ==
    /\ Busy(r) /\ req[r].op \in {"register", "resend", "request_reset"}
    /\ Insert(r, IF req[r].op = "request_reset"
                 THEN DeleteUserTokens(tokens, req[r].email, "password_reset")
                 ELSE tokens, t)
    /\ IF req[r].op = "register"
       THEN /\ users[req[r].email] = NoUser
            /\ UpdateUserRow(req[r].email, req[r].write)
            /\ chosen' = [chosen EXCEPT ![req[r].email] = req[r].password]
       ELSE UNCHANGED <<users, chosen>>
    /\ UNCHANGED <<uses, overlapped>>

LEMMA CommitsInsert ==
  ASSUME NEW r, NEW t, CommitRegistration(r, t) \/ CommitResend(r, t) \/ CommitResetRequest(r, t)
  PROVE  Insertion(r, t)
BY DEF CommitRegistration, CommitResend, CommitResetRequest, Insertion, Ready, Busy

\* The new token is the request's, unused; the others stay or are the reset
\* links it replaces.
LEMMA InsertTokens ==
  ASSUME TypeOK, AccountsInv, NEW r \in Requests, NEW t \in TokenIds, Insertion(r, t)
  PROVE  /\ t \notin issued /\ issued' = issued \cup {t}
         /\ tokens[t] = NoToken /\ uses[t] = 0
         /\ tokens'[t] \in Tokens /\ tokens'[t] # NoToken
         /\ tokens'[t].user = req[r].email /\ ~ tokens'[t].used
         /\ tokens'[t].type = IF req[r].op = "request_reset"
                              THEN "password_reset" ELSE "email_verification"
         /\ \A s \in TokenIds \ {t} :
              \/ tokens'[s] = tokens[s]
                 /\ (req[r].op = "request_reset" =>
                      ~ (tokens[s] # NoToken /\ tokens[s].user = req[r].email
                         /\ tokens[s].type = "password_reset"))
              \/ tokens'[s] = NoToken /\ tokens[s] # NoToken /\ tokens[s].type = "password_reset"
<1> DEFINE ts == IF req[r].op = "request_reset"
                 THEN DeleteUserTokens(tokens, req[r].email, "password_reset")
                 ELSE tokens
<1>1. t \notin issued /\ issued' = issued \cup {t} /\ tokens' = [ts EXCEPT ![t] = req[r].fresh]
  BY DEF Insertion, Insert, CreateToken
<1>2. tokens[t] = NoToken /\ uses[t] = 0
  BY <1>1 DEF AccountsInv, TokensInv
<1>3. Held(req[r]) /\ req[r].op \in {"register", "resend", "request_reset"}
  BY DEF Insertion, AccountsInv, RequestsInv
<1>4. FreshFor(req[r], IF req[r].op = "request_reset"
                       THEN "password_reset" ELSE "email_verification")
  BY <1>3 DEF Held
<1>5. ts \in [TokenIds -> Tokens \cup {NoToken}]
  BY DEF TypeOK, DeleteUserTokens
<1>6. tokens'[t] = req[r].fresh /\ \A s \in TokenIds \ {t} : tokens'[s] = ts[s]
  BY <1>1, <1>5
<1>7. ASSUME NEW s \in TokenIds
      PROVE  \/ ts[s] = tokens[s]
                /\ (req[r].op = "request_reset" =>
                     ~ (tokens[s] # NoToken /\ tokens[s].user = req[r].email
                        /\ tokens[s].type = "password_reset"))
             \/ ts[s] = NoToken /\ tokens[s] # NoToken /\ tokens[s].type = "password_reset"
  BY DEF DeleteUserTokens
<1>. QED
  BY <1>1, <1>2, <1>4, <1>6, <1>7, NullsAssumption DEF FreshFor

LEMMA InsertionStep ==
  ASSUME TypeOK, AccountsInv, NEW r \in Requests, NEW t \in TokenIds, Insertion(r, t)
  PROVE  AccountsInv'
<1>0. PICK e \in Emails : e = req[r].email
  BY DEF Insertion, TypeOK, Open, Busy
<1>1. /\ req[r] \in Open /\ e = req[r].email /\ Busy(r) /\ Held(req[r])
      /\ req[r].op \in {"register", "resend", "request_reset"}
  BY <1>0 DEF Insertion, TypeOK, Busy, AccountsInv, RequestsInv
<1>2. \A d \in Emails : \/ users'[d] = users[d] /\ chosen'[d] = chosen[d]
                        \/ d = e /\ users[e] = NoUser
  BY <1>1 DEF Insertion, UpdateUserRow, TypeOK
<1>3. users'[e] # NoUser
  <2>1. CASE req[r].op = "register"
    BY <1>1, <2>1, NullsAssumption DEF Insertion, UpdateUserRow, TypeOK, Held
  <2>2. CASE req[r].op # "register"
    BY <1>1, <2>2 DEF Insertion, Held
  <2>. QED
    BY <2>1, <2>2
<1>4. Kept
  <2>1. \A s \in TokenIds : TokenKept(s)
    BY InsertTokens DEF TokenKept
  <2>2. \A s \in issued : tokens[s] = NoToken => tokens'[s] = NoToken
    BY InsertTokens DEF TypeOK
  <2>3. issued \subseteq issued' /\ overlapped' = overlapped
    BY InsertTokens DEF Insertion
  <2>. QED
    BY <1>2, <2>1, <2>2, <2>3, <1>3 DEF Kept
<1>5. /\ req'[r].pc = "mail" /\ req'[r].use = t
      /\ \A s \in Requests \ {r} : req'[s] = req[s]
  BY <1>1 DEF Insertion, Insert, TypeOK, Open
<1>6. ASSUME NEW s \in Requests, Busy(s)'
      PROVE  s # r /\ Busy(s) /\ Held(req[s])'
  <2>1. s # r /\ Busy(s) /\ req'[s] = req[s]
    BY <1>5, <1>6 DEF Busy
  <2>2. req[s].email \in Emails
    BY <2>1 DEF Busy, TypeOK, Open
  <2>3. uses' = uses
    BY DEF Insertion
  <2>. QED
    BY <1>2, <1>4, <2>1, <2>2, <2>3, OthersHeld DEF AccountsInv
<1>7. RequestsInv'
  <2>1. issued' = issued \cup {t} /\ overlapped' = overlapped
    BY InsertTokens DEF Insertion
  <2>2. ASSUME NEW s \in Requests, req'[s] # Idle, req'[s].pc = "mail"
        PROVE  req'[s].use \in issued'
    BY <1>5, <2>1, <2>2 DEF AccountsInv, RequestsInv
  <2>3. ASSUME NEW s \in Requests, NEW u \in Requests, s # u, Busy(s)', Busy(u)',
               req'[s].email = req'[u].email
        PROVE  req'[s].email \in overlapped'
    BY <1>5, <1>6, <2>1, <2>3 DEF AccountsInv, RequestsInv
  <2>. QED
    BY <1>6, <2>2, <2>3 DEF RequestsInv
<1>8. TokensInv'
  <2>1. uses' = uses /\ overlapped' = overlapped
    BY DEF Insertion
  <2>2. \A s \in TokenIds : s \notin issued' => tokens'[s] = NoToken /\ uses'[s] = 0
    BY <2>1, InsertTokens DEF AccountsInv, TokensInv
  <2>3. ASSUME NEW s \in TokenIds, tokens'[s] # NoToken
        PROVE  /\ users'[tokens'[s].user] # NoUser
               /\ uses'[s] > 0 => tokens'[s].used
               /\ uses'[s] > 1 => tokens'[s].user \in overlapped'
    <3>1. CASE s = t
      BY <1>1, <1>3, <2>1, <3>1, InsertTokens
    <3>2. CASE s # t
      <4>1. tokens'[s] = tokens[s] /\ tokens[s].user \in Emails
        BY <2>3, <3>2, InsertTokens DEF TypeOK, Tokens
      <4>. QED
        BY <1>4, <2>1, <2>3, <4>1 DEF AccountsInv, TokensInv, Kept, LinksAreSound, LinkWorksOnce
    <3>. QED
      BY <3>1, <3>2
  <2>4. OneResetLink'
    <3>1. ASSUME NEW d \in Emails, NEW s \in TokenIds, NEW u \in TokenIds, s # u,
                 tokens'[s] # NoToken, tokens'[s].user = d, tokens'[s].type = "password_reset",
                 tokens'[u] # NoToken, tokens'[u].user = d, tokens'[u].type = "password_reset"
          PROVE  FALSE
      <4>1. CASE s # t /\ u # t
        <5>1. tokens'[s] = tokens[s] /\ tokens'[u] = tokens[u]
          BY <3>1, <4>1, InsertTokens
        <5>. QED
          BY <3>1, <5>1 DEF AccountsInv, TokensInv, LinksAreSound, OneResetLink, TokensOf
      <4>2. CASE s = t \/ u = t
        BY <3>1, <4>2, InsertTokens
      <4>. QED
        BY <4>1, <4>2
    <3>. QED
      BY <3>1 DEF OneResetLink, TokensOf
  <2>5. LinkWorksOnce'
    BY <2>3 DEF LinkWorksOnce
  <2>. QED
    BY <2>2, <2>3, <2>4, <2>5 DEF TokensInv, LinksAreSound
<1>9. UsersInv'
  <2>1. ASSUME NEW d \in Emails, Verified(d)'
        PROVE  Verified(d) /\ users[d] # NoUser
    <3>1. PICK s \in TokenIds : /\ tokens'[s] # NoToken /\ tokens'[s].user = d
                                /\ tokens'[s].type = "email_verification" /\ tokens'[s].used
      BY <2>1 DEF Verified
    <3>2. tokens'[s] = tokens[s]
      BY <3>1, InsertTokens
    <3>. QED
      BY <3>1, <3>2 DEF Verified, AccountsInv, TokensInv
  <2>2. \A d \in Emails : Verified(d) => Verified(d)'
    BY <1>4, VerifiedKept
  <2>3. overlapped' = overlapped
    BY DEF Insertion
  <2>4. ASSUME users[e] = NoUser
        PROVE  ~ IsActive(users'[e]) /\ users'[e].password = chosen'[e]
    <3>1. req[r].op = "register"
      BY <1>1, <2>4 DEF Held
    <3>. QED
      BY <1>1, <3>1 DEF Held, Insertion, UpdateUserRow, TypeOK
  <2>5. ActiveWasVerified'
    BY <1>2, <2>2, <2>4 DEF AccountsInv, UsersInv, ActiveWasVerified
  <2>6. ASSUME NEW d \in Emails \ overlapped', users'[d] # NoUser
        PROVE  users'[d].password = chosen'[d] /\ (Verified(d)' => IsActive(users'[d]))
    BY <1>2, <2>1, <2>3, <2>4, <2>6 DEF AccountsInv, UsersInv
  <2>. QED
    BY <2>5, <2>6 DEF UsersInv
<1>. QED
  BY <1>7, <1>8, <1>9 DEF AccountsInv

-----------------------------------------------------------------------------
(* What the requests hold when they open. *)

LEMMA RequestFields ==
  ASSUME NEW op, NEW e, NEW pc, NEW write, NEW use, NEW fresh, NEW p
  PROVE  LET x == Request(op, e, pc, write, use, fresh, p) IN
         /\ x.op = op /\ x.email = e /\ x.pc = pc /\ x.write = write /\ x.use = use
         /\ x.fresh = fresh /\ x.password = p
BY DEF Request

LEMMA RegisterHeld ==
  ASSUME TypeOK, NEW e \in Emails, NEW p \in Strong, NEW n \in Names
  PROVE  LET x == Request("register", e, "commit", NewUser(p, n), NoToken,
                          NewEmailVerificationToken(e), p)
         IN  x \in Open /\ Held(x)
<1>1. NewUser(p, n) \in Users /\ NewEmailVerificationToken(e) \in Tokens
  BY FreshType DEF TypeOK, NewUser, Users
<1> DEFINE x == Request("register", e, "commit", NewUser(p, n), NoToken,
                        NewEmailVerificationToken(e), p)
<1>2. x \in Open
  BY <1>1, OpenType DEF Ops
<1>3. /\ x.op = "register" /\ x.email = e /\ x.pc = "commit" /\ x.write = NewUser(p, n)
      /\ x.fresh = NewEmailVerificationToken(e) /\ x.password = p
  BY RequestFields
<1>4. FreshFor(x, "email_verification")
  BY <1>1, <1>3 DEF FreshFor, NewEmailVerificationToken
<1>5. ~ IsActive(x.write) /\ x.write.password = p
  BY <1>3 DEF NewUser, IsActive
<1>6. Held(x)
  BY <1>1, <1>3, <1>4, <1>5 DEF Held, Overwrites
<1>. QED
  BY <1>2, <1>6

LEMMA MailHeld ==
  ASSUME TypeOK, NEW e \in Emails, ExistsByEmail(e)
  PROVE  LET x == Request("resend", e, "commit", NoUser, NoToken,
                          NewEmailVerificationToken(e), NoUser)
             y == Request("request_reset", e, "commit", NoUser, NoToken,
                          NewPasswordResetToken(e), NoUser)
         IN  x \in Open /\ y \in Open /\ Held(x) /\ Held(y)
<1>1. NewEmailVerificationToken(e) \in Tokens /\ NewPasswordResetToken(e) \in Tokens
  BY FreshType DEF TypeOK
<1> DEFINE x == Request("resend", e, "commit", NoUser, NoToken,
                        NewEmailVerificationToken(e), NoUser)
           y == Request("request_reset", e, "commit", NoUser, NoToken,
                        NewPasswordResetToken(e), NoUser)
<1>2. x \in Open /\ y \in Open
  BY <1>1, OpenType DEF Ops
<1>3. /\ x.op = "resend" /\ x.email = e /\ x.fresh = NewEmailVerificationToken(e)
      /\ y.op = "request_reset" /\ y.email = e /\ y.fresh = NewPasswordResetToken(e)
  BY RequestFields
<1>4. FreshFor(x, "email_verification") /\ FreshFor(y, "password_reset")
  BY <1>1, <1>3 DEF FreshFor, NewEmailVerificationToken, NewPasswordResetToken
<1>5. Held(x) /\ Held(y)
  BY <1>3, <1>4 DEF Held, Overwrites, ExistsByEmail
<1>. QED
  BY <1>2, <1>5

\* A row made from the present one by a use of a link.
LEMMA LinkUseHeld ==
  ASSUME TypeOK, AccountsInv, NEW t \in TokenIds, NEW op \in {"verify", "reset"},
         CanUseToken(t, IF op = "verify" THEN "email_verification" ELSE "password_reset"),
         NEW p \in Strong \cup {NoUser}, op = "reset" => p \in Strong
  PROVE  LET u == users[tokens[t].user]
             x == Request(op, tokens[t].user, "commit",
                          IF op = "verify" THEN Activate(u) ELSE UpdatePassword(u, p),
                          t, NoToken, p)
         IN  x \in Open /\ Held(x)
<1> DEFINE e == tokens[t].user
           u == users[e]
           w == IF op = "verify" THEN Activate(u) ELSE UpdatePassword(u, p)
           x == Request(op, e, "commit", w, t, NoToken, p)
<1>1. /\ tokens[t] \in Tokens /\ tokens[t] # NoToken /\ e \in Emails /\ ~ tokens[t].used
      /\ tokens[t].type = IF op = "verify" THEN "email_verification" ELSE "password_reset"
      /\ u \in Users /\ u # NoUser
  BY UsableLink, NullsAssumption DEF AccountsInv
<1>2. /\ w \in Users
      /\ op = "verify" => IsActive(w) /\ w.password = u.password
      /\ op = "reset" => w.password = p /\ (IsActive(w) <=> IsActive(u))
  BY <1>1 DEF Activate, UpdatePassword, IsActive, Users
<1>3. x \in Open
  BY <1>1, <1>2, OpenType DEF Ops
<1>4. /\ x.op = op /\ x.email = e /\ x.pc = "commit" /\ x.write = w /\ x.use = t
      /\ x.password = p
  BY RequestFields
<1>5. t \in issued /\ uses[t] = 0
  BY <1>1 DEF AccountsInv, TokensInv, TypeOK
<1>6. LinkHeld(x)
  BY <1>1, <1>4, <1>5 DEF LinkHeld
<1>7. IsActive(u) => Verified(e)
  BY <1>1 DEF AccountsInv, UsersInv, ActiveWasVerified
<1>8. RowHeld(x)
  BY <1>2, <1>4, <1>7 DEF RowHeld
<1>9. Held(x)
  BY <1>1, <1>4, <1>6, <1>8 DEF Held
<1>. QED
  BY <1>3, <1>9

LEMMA ProfileHeld ==
  ASSUME TypeOK, AccountsInv, NEW e \in Emails, ExistsByEmail(e), NEW n \in Names
  PROVE  LET x == Request("profile", e, "commit", SetNickname(users[e], n), NoToken, NoToken,
                          NoUser)
         IN  x \in Open /\ Held(x)
<1> DEFINE w == SetNickname(users[e], n)
           x == Request("profile", e, "commit", w, NoToken, NoToken, NoUser)
<1>1. users[e] \in Users
  BY DEF ExistsByEmail, TypeOK
<1>2. w \in Users /\ w.password = users[e].password /\ (IsActive(w) <=> IsActive(users[e]))
  BY <1>1 DEF SetNickname, IsActive, Users
<1>3. x \in Open
  BY <1>2, OpenType DEF Ops
<1>4. x.op = "profile" /\ x.email = e /\ x.write = w
  BY RequestFields
<1>5. IsActive(users[e]) => Verified(e)
  BY DEF AccountsInv, UsersInv, ActiveWasVerified, ExistsByEmail
<1>6. RowHeld(x)
  BY <1>2, <1>4, <1>5 DEF RowHeld
<1>7. Held(x)
  BY <1>4, <1>6 DEF Held, ExistsByEmail
<1>. QED
  BY <1>3, <1>7

LEMMA ChangeHeld ==
  ASSUME TypeOK, NEW e \in Emails, ExistsByEmail(e), NEW p \in Strong
  PROVE  LET x == Request("change", e, "checked", NoUser, NoToken, NoToken, p)
         IN  x \in Open /\ Held(x)
<1> DEFINE x == Request("change", e, "checked", NoUser, NoToken, NoToken, p)
<1>1. x \in Open
  BY OpenType DEF Ops
<1>2. x.op = "change" /\ x.email = e /\ x.pc = "checked" /\ x.password = p
  BY RequestFields
<1>3. Held(x)
  BY <1>2 DEF Held, Overwrites, ExistsByEmail
<1>. QED
  BY <1>1, <1>3

\* The second read of a password change.
LEMMA ReadStep ==
  ASSUME TypeOK, AccountsInv, NEW r \in Requests, ReadForChange(r)
  PROVE  AccountsInv'
<1>1. PICK q \in Open : q = req[r]
  BY DEF TypeOK, ReadForChange
<1>2. /\ q.op = "change" /\ q.pc = "checked" /\ q.email \in Emails
      /\ users[q.email] # NoUser /\ q.password \in Strong
  BY <1>1 DEF ReadForChange, AccountsInv, RequestsInv, Busy, Held, Open
<1>3. users[q.email] \in Users
  BY <1>2 DEF TypeOK
<1> DEFINE w == UpdatePassword(users[q.email], q.password)
           x == [q EXCEPT !.pc = "commit", !.write = w]
<1>4. w \in Users /\ w.password = q.password /\ (IsActive(w) <=> IsActive(users[q.email]))
  BY <1>2, <1>3 DEF UpdatePassword, IsActive, Users
<1>5. PICK y \in Open : y = x
  BY <1>4 DEF Open
<1>6. /\ y.op = "change" /\ y.email = q.email /\ y.pc = "commit" /\ y.write = w
      /\ y.password = q.password
  BY <1>2, <1>5 DEF Open
<1>7. IsActive(users[q.email]) => Verified(q.email)
  BY <1>2 DEF AccountsInv, UsersInv, ActiveWasVerified
<1>8. RowHeld(y)
  BY <1>4, <1>6, <1>7 DEF RowHeld
<1>9. Held(y)
  BY <1>2, <1>6, <1>8 DEF Held
<1>10. req'[r] = y /\ \A s \in Requests \ {r} : req'[s] = req[s]
  <2>1. req' = [req EXCEPT ![r].pc = "commit", ![r].write = w]
    BY <1>1 DEF ReadForChange
  <2>2. req'[r] = [req[r] EXCEPT !.pc = "commit", !.write = w]
    BY <2>1 DEF TypeOK
  <2>3. \A s \in Requests \ {r} : req'[s] = req[s]
    BY <2>1 DEF TypeOK
  <2>. QED
    BY <1>1, <1>5, <2>2, <2>3
<1>11. Held(y)'
  <2>1. Kept
    BY DEF ReadForChange, Kept, TokenKept
  <2>. QED
    BY <1>9, <2>1, HeldKept DEF ReadForChange
<1>12. Held(req[r])'
  BY <1>10, <1>11, HeldNext
<1>13. Busy(r) /\ req'[r].email = req[r].email /\ req'[r].pc # "mail"
  BY <1>1, <1>2, <1>6, <1>10 DEF ReadForChange, Busy
<1>14. UNCHANGED <<users, tokens, issued, chosen, uses, overlapped>>
  BY DEF ReadForChange
<1>15. ASSUME NEW s \in Requests \ {r}, Busy(s), req[s].email = req'[r].email
       PROVE  req'[r].email \in overlapped'
  BY <1>13, <1>14, <1>15 DEF AccountsInv, RequestsInv
<1>. QED
  BY <1>10, <1>12, <1>13, <1>14, <1>15, QuietStep

-----------------------------------------------------------------------------
(* The invariant. *)

IInv == TypeOK /\ AccountsInv

LEMMA InvInit == Init => IInv
<1> SUFFICES ASSUME Init PROVE IInv
  OBVIOUS
<1>1. TypeOK
  BY TypeInit
<1>2. RequestsInv
  BY DEF Init, RequestsInv, Busy
<1>3. TokensInv
  BY DEF Init, TokensInv, LinksAreSound, OneResetLink, LinkWorksOnce, TokensOf
<1>4. UsersInv
  BY DEF Init, UsersInv, ActiveWasVerified
<1>. QED
  BY <1>1, <1>2, <1>3, <1>4 DEF IInv, AccountsInv

LEMMA AccountStep ==
  ASSUME IInv, NEW r \in Requests, Account(r)
  PROVE  AccountsInv'
<1>. USE DEF IInv
<1>1. ASSUME NEW e \in Emails, NEW p \in Passwords, NEW n \in Names, RegisterUser(r, e, p, n)
      PROVE  AccountsInv'
  BY <1>1, RegisterHeld, BeginStep, RequestFields DEF RegisterUser, ValidPassword
<1>2. ASSUME NEW t \in TokenIds,
             CommitRegistration(r, t) \/ CommitResend(r, t) \/ CommitResetRequest(r, t)
      PROVE  AccountsInv'
  BY <1>2, CommitsInsert, InsertionStep
<1>3. ASSUME NEW t \in TokenIds, VerifyEmail(r, t)
      PROVE  AccountsInv'
  <2> DEFINE x == Request("verify", tokens[t].user, "commit", Activate(users[tokens[t].user]),
                          t, NoToken, NoUser)
  <2>1. x \in Open /\ Held(x) /\ x.pc = "commit"
    BY <1>3, LinkUseHeld, RequestFields DEF VerifyEmail
  <2>. QED
    BY <1>3, <2>1, BeginStep DEF VerifyEmail
<1>4. ASSUME CommitVerification(r) \/ CommitReset(r) \/ WritePassword(r) \/ WriteProfile(r)
      PROVE  AccountsInv'
  BY <1>4, CommitsOverwrite, OverwriteStep
<1>5. ASSUME NEW e \in Emails, ResendVerificationEmail(r, e) \/ RequestPasswordReset(r, e)
      PROVE  AccountsInv'
  BY <1>5, MailHeld, BeginStep, RequestFields DEF ResendVerificationEmail, RequestPasswordReset
<1>6. ASSUME NEW t \in TokenIds, NEW p \in Passwords, ResetPassword(r, t, p)
      PROVE  AccountsInv'
  <2> DEFINE x == Request("reset", tokens[t].user, "commit",
                          UpdatePassword(users[tokens[t].user], p), t, NoToken, p)
  <2>1. x \in Open /\ Held(x) /\ x.pc = "commit"
    BY <1>6, LinkUseHeld, RequestFields DEF ResetPassword, ValidPassword
  <2>. QED
    BY <1>6, <2>1, BeginStep DEF ResetPassword
<1>7. ASSUME NEW e \in Emails, NEW old \in Passwords, NEW p \in Passwords,
             ChangePassword(r, e, old, p)
      PROVE  AccountsInv'
  BY <1>7, ChangeHeld, BeginStep, RequestFields DEF ChangePassword, AuthenticateUser, ValidPassword
<1>8. ASSUME ReadForChange(r)
      PROVE  AccountsInv'
  BY <1>8, ReadStep
<1>9. ASSUME NEW e \in Emails, NEW n \in Names, UpdateUser(r, e, n)
      PROVE  AccountsInv'
  BY <1>9, ProfileHeld, BeginStep, RequestFields DEF UpdateUser
<1>10. ASSUME DuplicateRegistration(r) \/ SendEmail(r) \/ Abort(r)
       PROVE  AccountsInv'
  BY <1>10, EndStep DEF DuplicateRegistration, SendEmail, Abort
<1>. QED
  BY <1>1, <1>2, <1>3, <1>4, <1>5, <1>6, <1>7, <1>8, <1>9, <1>10 DEF Account

\* Logins, expiring sessions and the clock touch neither rows nor requests.
LEMMA OutsideStep ==
  ASSUME IInv, UNCHANGED <<users, tokens, issued, req, chosen, uses, overlapped>>
  PROVE  AccountsInv'
BY DEF IInv, AccountsInv, RequestsInv, TokensInv, UsersInv, LinksAreSound, OneResetLink,
       LinkWorksOnce, TokensOf, ActiveWasVerified, Verified, Busy, Held, FreshFor, Overwrites,
       LinkHeld, RowHeld

LEMMA InvNext == IInv /\ [Next]_vars => IInv'
<1> SUFFICES ASSUME IInv, [Next]_vars PROVE IInv'
  OBVIOUS
<1>1. ASSUME NEW r \in Requests, Account(r)
      PROVE  IInv'
  BY <1>1, AccountStep, TypeAccount DEF IInv, AccountsInv
<1>2. ASSUME NEW e \in Emails, NEW p \in Passwords, LoginUser(e, p)
      PROVE  IInv'
  BY <1>2, OutsideStep DEF IInv, LoginUser, TypeOK
<1>3. ASSUME NEW e \in Emails, SessionExpires(e)
      PROVE  IInv'
  BY <1>3, OutsideStep DEF IInv, SessionExpires, TypeOK
<1>4. ASSUME Tick
      PROVE  IInv'
  BY <1>4, OutsideStep, AccountsAssumption DEF IInv, Tick, TypeOK
<1>5. ASSUME UNCHANGED vars
      PROVE  IInv'
  BY <1>5, OutsideStep DEF IInv, vars, TypeOK
<1>. QED
  BY <1>1, <1>2, <1>3, <1>4, <1>5 DEF Next

LEMMA InvHolds == Spec => []IInv
BY InvInit, InvNext, PTL DEF Spec

(* Whatever requests run and abort, rows, tokens and open requests keep    *)
(* their shape; an account that is written exists and every password that  *)
(* is stored was strong (authService, userRepository, tokenRepository).    *)
THEOREM TypeCorrect == Spec => []TypeOK
<1>1. IInv => TypeOK
  BY DEF IInv
<1>. QED
  BY <1>1, InvHolds, PTL

(* An account has at most one reset link, and a link works once unless two *)
(* requests of its account ran at the same time (tokenService).            *)
THEOREM LinksAreSoundHolds == Spec => []LinksAreSound
<1>1. IInv => LinksAreSound
  BY DEF IInv, AccountsInv, TokensInv
<1>. QED
  BY <1>1, InvHolds, PTL

(* An active account was verified, and the owner of a verified one logs in *)
(* with the password chosen last and no other, unless requests of the      *)
(* account overlapped (userService, auth_service.go).                      *)
THEOREM OwnersAccountHolds == Spec => []OwnersAccount
<1>1. IInv => OwnersAccount
  <2> SUFFICES ASSUME IInv PROVE OwnersAccount
    OBVIOUS
  <2>1. ActiveWasVerified
    BY DEF IInv, AccountsInv, UsersInv
  <2>2. ASSUME NEW e \in Emails \ overlapped, NEW p \in Passwords, Verified(e)
        PROVE  AuthenticateUser(e, p) <=> p = chosen[e]
    <3>1. users[e] # NoUser
      BY <2>2 DEF IInv, AccountsInv, TokensInv, Verified
    <3>. QED
      BY <2>2, <3>1 DEF IInv, AccountsInv, UsersInv, AuthenticateUser, ExistsByEmail
  <2>. QED
    BY <2>1, <2>2 DEF OwnersAccount, OwnerCanLogIn
<1>. QED
  BY <1>1, InvHolds, PTL

-----------------------------------------------------------------------------
(* The settings cache.  What is cached was read from the database a while  *)
(* ago; the history says until when its value was the one in the database. *)

Entries == [value : Values, expires : Nat]
Lookups == [key : Keys, value : Values \cup {NoEntry}, at : Nat, pc : {"fetch", "expired", "store"}]

CacheShape ==
  /\ db \in [Keys -> Values] /\ cache \in [Keys -> Entries \cup {NoEntry}]
  /\ reader \in [Readers -> Lookups \cup {Idle}] /\ writer \in [Writers -> Keys \cup {Idle}]
  /\ cnow \in Nat /\ current \in [Keys -> [Values -> Nat]]
  /\ \A k \in Keys, v \in Values : current[k][v] <= cnow

\* The value x of key k is the database's, or was at the time t.
Since(k, x, t) == x = db[k] \/ t <= current[k][x]

\* Reader q has asked the database, and is about to store the answer.
AnswerHeld(q) ==
  /\ q.value \in Values /\ q.at <= cnow /\ cnow <= q.at + MaxDelay
  /\ Since(q.key, q.value, q.at)
  /\ q.key \notin raced => q.value = db[q.key]
ReaderHeld(r) == reader[r] # Idle /\ reader[r].pc = "store" => AnswerHeld(reader[r])
EntryHeld(k) ==
  /\ cache[k].expires <= cnow + TTL
  /\ Since(k, cache[k].value, cache[k].expires - TTL - MaxDelay)
  /\ k \notin raced => cache[k].value = db[k] \/ \E w \in Writers : writer[w] = k

CacheInv ==
  /\ CacheShape
  /\ \A r \in Readers : ReaderHeld(r)
  /\ \A k \in Keys : cache[k] # NoEntry => EntryHeld(k)

LEMMA CacheFacts == TTL \in Nat /\ TTL > 0 /\ MaxDelay \in Nat /\ Idle \notin Keys
  BY CacheConstants DEF Cache!SettingsAssumption

LEMMA CacheInvInit == Cache!CacheInit => CacheInv
  BY DEF Cache!CacheInit, CacheInv, CacheShape, ReaderHeld

\* A change of the database: the old value was current until now.
LEMMA ChangeCache ==
  ASSUME CacheInv, NEW k \in Keys, NEW v \in Values, Cache!Change(k, v), UNCHANGED <<cache, reader, cnow>>,
         raced \subseteq raced', k \in raced' \/ ~ Cache!InFlight(k),
         k \in raced' \/ \E w \in Writers : writer'[w] = k,
         \A j \in Keys \ {k} : (\E w \in Writers : writer[w] = j) => \E w \in Writers : writer'[w] = j,
         writer' \in [Writers -> Keys \cup {Idle}]
  PROVE  CacheInv'
  <1>1. /\ db' = [db EXCEPT ![k] = v] /\ db[k] # v
        /\ current' = [current EXCEPT ![k] = [current[k] EXCEPT ![db[k]] = cnow]]
    BY DEF Cache!Change
  <1>2. CacheShape
    BY DEF CacheInv
  <1>3. CacheShape'
    BY <1>1, <1>2 DEF CacheShape
  <1>4. ASSUME NEW j \in Keys, NEW x \in Values, NEW t \in Int, t <= cnow, Since(j, x, t)
        PROVE  Since(j, x, t)'
    BY <1>1, <1>2, <1>4 DEF Since, CacheShape
  <1>5. \A j \in Keys \ {k} : db'[j] = db[j]
    BY <1>1, <1>2 DEF CacheShape
  <1>6. ASSUME NEW r \in Readers, reader[r] # Idle, reader[r].pc = "store" PROVE ReaderHeld(r)'
    <2>1. PICK q \in Lookups : q = reader[r]
      BY <1>2, <1>6 DEF CacheShape
    <2>2. AnswerHeld(q)
      BY <1>6, <2>1 DEF CacheInv, ReaderHeld
    <2>3. q.key \in Keys /\ q.at \in Nat
      BY DEF Lookups
    <2>4. Since(q.key, q.value, q.at)'
      BY <1>4, <2>2, <2>3 DEF AnswerHeld
    <2>5. q.key = k => k \in raced'
      BY <1>6, <2>1 DEF Cache!InFlight
    <2>6. AnswerHeld(q)'
      BY <1>5, <2>2, <2>3, <2>4, <2>5 DEF AnswerHeld
    <2> QED
      BY <2>1, <2>6 DEF ReaderHeld, AnswerHeld
  <1>7. ASSUME NEW j \in Keys, cache[j] # NoEntry PROVE EntryHeld(j)'
    <2>1. EntryHeld(j)
      BY <1>7 DEF CacheInv
    <2>2. cache[j].value \in Values /\ cache[j].expires \in Nat /\ cnow \in Nat
      BY <1>2, <1>7 DEF CacheShape, Entries
    <2>3. cache[j].expires - TTL - MaxDelay \in Int /\ cache[j].expires - TTL - MaxDelay <= cnow
      BY <2>1, <2>2, CacheFacts DEF EntryHeld
    <2>4. Since(j, cache[j].value, cache[j].expires - TTL - MaxDelay)'
      BY <1>4, <2>1, <2>2, <2>3 DEF EntryHeld, Since
    <2> QED
      BY <1>5, <2>1, <2>4 DEF EntryHeld
  <1> QED
    BY <1>3, <1>6, <1>7 DEF CacheInv, ReaderHeld

\* The steps of a reader, with the record that it goes on with.
LEMMA ReaderSteps ==
  ASSUME CacheInv, NEW r \in Readers,
         \/ \E k \in Keys : Cache!Lookup(r, k)
         \/ Cache!DeleteExpired(r) \/ Cache!GetByKey(r) \/ Cache!Store(r) \/ Cache!ReadFails(r)
  PROVE  CacheInv'
  <1> DEFINE Goes(q) == /\ q \in Lookups \cup {Idle} /\ reader' = [reader EXCEPT ![r] = q]
                        /\ q # Idle /\ q.pc = "store" => AnswerHeld(q)
                        /\ UNCHANGED <<db, writer, cnow, current, raced>>
  <1>0. CacheShape
    BY DEF CacheInv
  <1>1. ASSUME NEW q, Goes(q), cache' \in [Keys -> Entries \cup {NoEntry}],
               \A k \in Keys : cache'[k] = cache[k] \/ cache'[k] = NoEntry \/ EntryHeld(k)'
        PROVE  CacheInv'
    <2>1. CacheShape'
      BY <1>0, <1>1 DEF CacheShape
    <2>2. ASSUME NEW s \in Readers PROVE ReaderHeld(s)'
      <3>1. CASE s = r
        <4>1. reader'[r] = q
          BY <1>0, <1>1 DEF CacheShape
        <4> QED
          BY <1>1, <3>1, <4>1 DEF ReaderHeld, AnswerHeld, Since
      <3>2. CASE s # r
        <4>1. reader'[s] = reader[s] /\ ReaderHeld(s)
          BY <1>0, <1>1, <3>2 DEF CacheShape, CacheInv
        <4> QED
          BY <1>1, <4>1 DEF ReaderHeld, AnswerHeld, Since
      <3> QED
        BY <3>1, <3>2
    <2>3. ASSUME NEW k \in Keys, cache'[k] = cache[k], cache[k] # NoEntry PROVE EntryHeld(k)'
      <3>1. EntryHeld(k)
        BY <2>3 DEF CacheInv
      <3> QED
        BY <1>1, <2>3, <3>1 DEF EntryHeld, Since
    <2> QED
      BY <1>1, <2>1, <2>2, <2>3 DEF CacheInv
  <1>2. ASSUME NEW k \in Keys, Cache!Lookup(r, k) PROVE CacheInv'
    <2>1. PICK q : q = [key |-> k, value |-> NoEntry, at |-> 0,
                        pc |-> IF cache[k] = NoEntry THEN "fetch" ELSE "expired"]
      OBVIOUS
    <2>2. q \in Lookups /\ q.pc # "store"
      BY <2>1 DEF Lookups
    <2>3. reader' = [reader EXCEPT ![r] = q] /\ UNCHANGED <<db, cache, writer, cnow, current, raced>>
      BY <1>2, <2>1 DEF Cache!Lookup
    <2> QED
      BY <1>0, <1>1, <2>2, <2>3 DEF CacheShape
  <1>3. CASE Cache!DeleteExpired(r)
    <2>1. PICK q : q = [reader[r] EXCEPT !.pc = "fetch"]
      OBVIOUS
    <2>2. reader[r] \in Lookups
      BY <1>0, <1>3 DEF CacheShape, Cache!DeleteExpired
    <2>3. q \in Lookups /\ q.pc # "store" /\ reader[r].key \in Keys
      BY <2>1, <2>2 DEF Lookups
    <2>4. /\ reader' = [reader EXCEPT ![r] = q] /\ cache' = [cache EXCEPT ![reader[r].key] = NoEntry]
          /\ UNCHANGED <<db, writer, cnow, current, raced>>
      BY <1>3, <2>1 DEF Cache!DeleteExpired
    <2> QED
      BY <1>0, <1>1, <2>3, <2>4 DEF CacheShape
  <1>4. CASE Cache!GetByKey(r)
    <2>1. PICK q : q = [reader[r] EXCEPT !.pc = "store", !.at = cnow, !.value = db[reader[r].key]]
      OBVIOUS
    <2>2. reader[r] \in Lookups
      BY <1>0, <1>4 DEF CacheShape, Cache!GetByKey
    <2>3. q \in Lookups /\ q.at = cnow /\ q.value = db[q.key] /\ q.value \in Values
      BY <1>0, <2>1, <2>2 DEF Lookups, CacheShape
    <2>4. AnswerHeld(q)
      BY <1>0, <2>3, CacheFacts DEF AnswerHeld, Since, CacheShape
    <2>5. reader' = [reader EXCEPT ![r] = q] /\ UNCHANGED <<db, cache, writer, cnow, current, raced>>
      BY <1>4, <2>1 DEF Cache!GetByKey
    <2> QED
      BY <1>0, <1>1, <2>3, <2>4, <2>5 DEF CacheShape
  <1>5. CASE Cache!Store(r)
    <2>1. PICK q \in Lookups : q = reader[r] /\ AnswerHeld(q)
      BY <1>0, <1>5 DEF CacheShape, CacheInv, ReaderHeld, Cache!Store
    <2>2. PICK entry : entry = [value |-> q.value, expires |-> cnow + TTL]
      OBVIOUS
    <2>3. entry.value = q.value /\ entry.expires = cnow + TTL /\ entry \in Entries
      BY <1>0, <2>1, <2>2, CacheFacts DEF AnswerHeld, Entries, CacheShape
    <2>4. /\ reader' = [reader EXCEPT ![r] = Idle] /\ cache' = [cache EXCEPT ![q.key] = entry]
          /\ UNCHANGED <<db, writer, cnow, current, raced>>
      BY <1>5, <2>1, <2>2 DEF Cache!Store
    <2>5. q.key \in Keys /\ q.at \in Nat /\ q.value \in Values /\ cnow \in Nat /\ current[q.key][q.value] \in Nat
      BY <1>0, <2>1 DEF Lookups, AnswerHeld, CacheShape
    <2>6. cache'[q.key] = entry /\ \A k \in Keys \ {q.key} : cache'[k] = cache[k]
      BY <1>0, <2>4, <2>5 DEF CacheShape
    <2>7. Since(q.key, q.value, entry.expires - TTL - MaxDelay)
      BY <2>1, <2>3, <2>5, CacheFacts DEF AnswerHeld, Since
    <2>8. EntryHeld(q.key)'
      <3>1. cache'[q.key].value = q.value /\ cache'[q.key].expires = entry.expires
        BY <2>3, <2>6
      <3>2. Since(q.key, cache[q.key].value, cache[q.key].expires - TTL - MaxDelay)'
        BY <2>4, <2>7, <3>1 DEF Since
      <3>3. cache'[q.key].expires <= cnow' + TTL
        BY <2>3, <2>4, <2>5, <3>1, CacheFacts
      <3>4. q.key \notin raced' => cache'[q.key].value = db'[q.key]
        BY <2>1, <2>4, <3>1 DEF AnswerHeld
      <3> QED
        BY <3>2, <3>3, <3>4 DEF EntryHeld
    <2>9. cache' \in [Keys -> Entries \cup {NoEntry}]
      BY <1>0, <2>3, <2>4 DEF CacheShape
    <2>10. ASSUME NEW k \in Keys PROVE cache'[k] = cache[k] \/ EntryHeld(k)'
      <3>1. k = q.key => EntryHeld(k)'
        BY <2>8 DEF EntryHeld, Since
      <3> QED
        BY <2>6, <3>1
    <2>11. Goes(Idle)
      BY <2>4
    <2> HIDE DEF Goes
    <2> QED
      BY <1>1, <2>9, <2>10, <2>11
  <1>6. CASE Cache!ReadFails(r)
    <2>1. reader' = [reader EXCEPT ![r] = Idle] /\ UNCHANGED <<db, cache, writer, cnow, current, raced>>
      BY <1>6 DEF Cache!ReadFails
    <2> QED
      BY <1>0, <1>1, <2>1 DEF CacheShape
  <1> QED
    BY <1>2, <1>3, <1>4, <1>5, <1>6

\* Steps that empty the cache, or part of it.
LEMMA InvalidateSteps ==
  ASSUME CacheInv, Cache!InvalidateAll \/ \E w \in Writers : Cache!InvalidateCache(w)
  PROVE  CacheInv'
  <1>0. CacheShape
    BY DEF CacheInv
  <1>1. /\ UNCHANGED <<db, reader, cnow, current, raced>>
        /\ cache' \in [Keys -> Entries \cup {NoEntry}] /\ writer' \in [Writers -> Keys \cup {Idle}]
        /\ \A k \in Keys : cache'[k] # NoEntry =>
             cache'[k] = cache[k] /\ \A w \in Writers : writer[w] = k => writer'[w] = k
    <2>1. CASE Cache!InvalidateAll
      BY <1>0, <2>1 DEF Cache!InvalidateAll, CacheShape
    <2>2. ASSUME NEW w \in Writers, Cache!InvalidateCache(w)
          PROVE  /\ UNCHANGED <<db, reader, cnow, current, raced>>
                 /\ cache' \in [Keys -> Entries \cup {NoEntry}] /\ writer' \in [Writers -> Keys \cup {Idle}]
                 /\ \A k \in Keys : cache'[k] # NoEntry =>
                      cache'[k] = cache[k] /\ \A v \in Writers : writer[v] = k => writer'[v] = k
      BY <1>0, <2>2 DEF Cache!InvalidateCache, CacheShape
    <2> QED
      BY <2>1, <2>2
  <1>2. CacheShape'
    BY <1>0, <1>1 DEF CacheShape
  <1>3. ASSUME NEW r \in Readers PROVE ReaderHeld(r)'
    BY <1>1 DEF CacheInv, ReaderHeld, AnswerHeld, Since
  <1>4. ASSUME NEW k \in Keys, cache'[k] # NoEntry PROVE EntryHeld(k)'
    <2>1. EntryHeld(k) /\ cache'[k] = cache[k]
      BY <1>1, <1>4 DEF CacheInv
    <2> QED
      BY <1>1, <1>4, <2>1 DEF EntryHeld, Since
  <1> QED
    BY <1>2, <1>3, <1>4 DEF CacheInv

\* Time passes; no query takes longer than MaxDelay.
LEMMA TickCache ==
  ASSUME CacheInv, Cache!Tick
  PROVE  CacheInv'
  <1>0. CacheShape /\ CacheShape'
    BY DEF CacheInv, CacheShape, Cache!Tick
  <1>1. cnow' = cnow + 1 /\ cnow \in Nat /\ UNCHANGED <<db, cache, reader, writer, current, raced>>
    BY <1>0 DEF Cache!Tick, CacheShape
  <1>2. ASSUME NEW r \in Readers, reader[r] # Idle, reader[r].pc = "store" PROVE ReaderHeld(r)'
    <2>1. PICK q \in Lookups : q = reader[r] /\ AnswerHeld(q)
      BY <1>0, <1>2 DEF CacheShape, CacheInv, ReaderHeld
    <2>2. cnow < q.at + MaxDelay /\ q.at \in Nat
      BY <1>2, <2>1 DEF Cache!Tick, Lookups
    <2>3. AnswerHeld(q)'
      BY <1>1, <2>1, <2>2, CacheFacts DEF AnswerHeld, Since
    <2> QED
      BY <1>1, <2>1, <2>3 DEF ReaderHeld, AnswerHeld
  <1>3. ASSUME NEW k \in Keys, cache[k] # NoEntry PROVE EntryHeld(k)'
    <2>1. EntryHeld(k) /\ cache[k].expires \in Nat
      BY <1>0, <1>3 DEF CacheInv, CacheShape, Entries
    <2> QED
      BY <1>1, <2>1, CacheFacts DEF EntryHeld, Since
  <1> QED
    BY <1>0, <1>1, <1>2, <1>3 DEF CacheInv, ReaderHeld

LEMMA CacheInvStep == CacheInv /\ [Cache!CacheNext]_cvars => CacheInv'
  <1> SUFFICES ASSUME CacheInv, [Cache!CacheNext]_cvars PROVE CacheInv'
    OBVIOUS
  <1>1. ASSUME NEW w \in Writers, NEW k \in Keys, NEW v \in Values, Cache!Update(w, k, v) PROVE CacheInv'
    <2>1. /\ writer[w] = Idle /\ writer' = [writer EXCEPT ![w] = k] /\ Cache!Change(k, v)
          /\ raced' = (IF Cache!InFlight(k) THEN raced \cup {k} ELSE raced)
          /\ UNCHANGED <<cache, reader, cnow>>
      BY <1>1 DEF Cache!Update
    <2>2. /\ writer'[w] = k /\ \A u \in Writers : writer[u] \in Keys => writer'[u] = writer[u]
          /\ writer' \in [Writers -> Keys \cup {Idle}]
      BY <2>1, CacheFacts DEF CacheInv, CacheShape
    <2> QED
      BY <2>1, <2>2, ChangeCache
  <1>2. ASSUME NEW k \in Keys, NEW v \in Values, Cache!ChangedElsewhere(k, v) PROVE CacheInv'
    <2>1. Cache!Change(k, v) /\ raced' = raced \cup {k} /\ UNCHANGED <<cache, reader, writer, cnow>>
      BY <1>2 DEF Cache!ChangedElsewhere
    <2> QED
      BY <2>1, ChangeCache DEF CacheInv, CacheShape
  <1>3. CASE UNCHANGED cvars
    BY <1>3 DEF cvars, CacheInv, CacheShape, ReaderHeld, AnswerHeld, EntryHeld, Since
  <1> QED
    BY <1>1, <1>2, <1>3, ReaderSteps, InvalidateSteps, TickCache DEF Cache!CacheNext

LEMMA CacheInvIsFresh == CacheInv => SettingsFresh
  <1> SUFFICES ASSUME CacheInv, NEW k \in Keys, cache[k] # NoEntry, cnow < cache[k].expires
               PROVE  /\ cache[k].value = db[k] \/ cnow - current[k][cache[k].value] < TTL + MaxDelay
                      /\ k \notin raced => cache[k].value = db[k] \/ \E w \in Writers : writer[w] = k
    BY DEF SettingsFresh, Cache!SettingsFresh, Cache!BoundedStaleness, Cache!UpdateIsServed, Cache!Fresh
  <1>1. EntryHeld(k)
    BY DEF CacheInv
  <1>2. cache[k].value \in Values /\ cache[k].expires \in Nat /\ cnow \in Nat
    BY DEF CacheInv, CacheShape, Entries
  <1>3. current[k][cache[k].value] \in Nat
    BY <1>2 DEF CacheInv, CacheShape
  <1> QED
    BY <1>1, <1>2, <1>3, CacheFacts DEF EntryHeld, Since

\* A setting that is served was the database's at most a minute and one query ago, and an
\* update that has returned is served, however reads, updates and invalidations interleave
\* (getFromCacheOrDB, UpdateSetting).
THEOREM SettingsFreshHolds == MCSpec => []SettingsFresh
  <1>1. MCInit => Cache!CacheInit
    BY DEF MCInit
  <1>2. [MCNext]_allvars => [Cache!CacheNext]_cvars
    BY DEF MCNext, allvars, cvars
  <1> QED
    BY <1>1, <1>2, CacheInvInit, CacheInvStep, CacheInvIsFresh, PTL DEF MCSpec

-----------------------------------------------------------------------------
(* The rate limiter.  Each map of buckets is worth a full bucket for the   *)
(* client when it is made, and what the bucket regains; a request that is  *)
(* let through takes its token from that credit.                           *)

Maps == 0..MaxResets
Buckets == [Maps -> [Clients -> (0..Burst) \cup {NoBucket}]]
\* What a client may still be let through by each of the maps b, the maps to come included.
CreditIn(b, c) == [g \in Maps |-> IF b[g][c] = NoBucket THEN Burst ELSE b[g][c]]

\* The sum of the weights of the maps up to the n-th.
UpTo(w, n) == (CHOOSE f : IsSum(f, w, Maps))[0..n]

LEMMA LimiterFacts ==
  /\ Burst \in Nat /\ Refill \in Nat /\ MaxResets \in Nat /\ NoBucket \notin 0..Burst
  /\ IsFiniteSet(Maps) /\ Maps \subseteq Nat /\ Limiter!Generations = Maps
  BY LimiterConstants, FS_Interval DEF Limiter!LimiterAssumption, Maps, Limiter!Generations

LEMMA UpToIs ==
  ASSUME NEW w \in [Maps -> Nat]
  PROVE  \E f : IsSum(f, w, Maps) /\ \A n \in Maps : 0..n \in SUBSET Maps /\ UpTo(w, n) = f[0..n] /\ UpTo(w, n) \in Nat
  <1>1. PICK f : f = CHOOSE g : IsSum(g, w, Maps)
    OBVIOUS
  <1>2. IsSum(f, w, Maps)
    BY <1>1, SumExists, LimiterFacts
  <1>3. \A n \in Maps : 0..n \in SUBSET Maps
    BY LimiterFacts DEF Maps
  <1>4. \A n \in Maps : UpTo(w, n) = f[0..n]
    BY <1>1 DEF UpTo
  <1>5. \A n \in Maps : f[0..n] \in Nat
    BY <1>2, <1>3, SumIsNat, LimiterFacts
  <1> QED
    BY <1>2, <1>3, <1>4, <1>5

\* One more map.
LEMMA UpToNext ==
  ASSUME NEW w \in [Maps -> Nat], NEW n \in Maps, n + 1 \in Maps
  PROVE  UpTo(w, n + 1) = UpTo(w, n) + w[n + 1]
  <1>1. PICK f : IsSum(f, w, Maps) /\ \A m \in Maps : 0..m \in SUBSET Maps /\ UpTo(w, m) = f[0..m] /\ UpTo(w, m) \in Nat
    BY UpToIs
  <1>2. n + 1 \in 0..(n + 1) /\ (0..(n + 1)) \ {n + 1} = 0..n
    BY LimiterFacts
  <1>6. IsSum(f, w, Maps) /\ IsFiniteSet(Maps)
    BY <1>1, LimiterFacts
  <1>3. ASSUME NEW s \in SUBSET Maps, NEW y \in s PROVE f[s] = w[y] + f[s \ {y}]
    BY <1>6, SumRemove
  <1>5. f[0..(n + 1)] = w[n + 1] + f[0..n]
    BY <1>1, <1>2, <1>3
  <1>4. UpTo(w, n) \in Nat /\ w[n + 1] \in Nat
    BY <1>1
  <1> QED
    BY <1>1, <1>4, <1>5

LEMMA UpToFirst ==
  ASSUME NEW w \in [Maps -> Nat]
  PROVE  UpTo(w, 0) = w[0]
  <1>1. 0 \in Maps
    BY LimiterFacts DEF Maps
  <1>2. PICK f : IsSum(f, w, Maps) /\ \A m \in Maps : 0..m \in SUBSET Maps /\ UpTo(w, m) = f[0..m]
    BY UpToIs
  <1>3. 0..0 = {0} /\ {0} \ {0} = {}
    OBVIOUS
  <1>9. IsSum(f, w, Maps) /\ IsFiniteSet(Maps)
    BY <1>2, LimiterFacts
  <1>4. ASSUME NEW s \in SUBSET Maps, NEW y \in s PROVE f[s] = w[y] + f[s \ {y}]
    BY <1>9, SumRemove
  <1>6. f[{}] = 0
    BY <1>2, SumStep
  <1>7. UpTo(w, 0) = f[0..0] /\ 0..0 \in SUBSET Maps
    BY <1>1, <1>2
  <1>8. f[{0}] = w[0] + f[{}]
    BY <1>3, <1>4, <1>7
  <1>5. w[0] \in Nat
    BY <1>1
  <1> QED
    BY <1>3, <1>5, <1>6, <1>7, <1>8

\* The weight of one of the maps changes.
LEMMA UpToChanged ==
  ASSUME NEW w \in [Maps -> Nat], NEW v \in [Maps -> Nat], NEW n \in Maps, NEW y \in 0..n,
         \A x \in Maps \ {y} : v[x] = w[x]
  PROVE  UpTo(v, n) = UpTo(w, n) + v[y] - w[y]
  <1> DEFINE T == (0..n) \ {y}
  <1>1. PICK f : IsSum(f, w, Maps) /\ \A m \in Maps : 0..m \in SUBSET Maps /\ UpTo(w, m) = f[0..m] /\ UpTo(w, m) \in Nat
    BY UpToIs
  <1>2. PICK h : IsSum(h, v, Maps) /\ \A m \in Maps : 0..m \in SUBSET Maps /\ UpTo(v, m) = h[0..m] /\ UpTo(v, m) \in Nat
    BY UpToIs
  <1>3. T \in SUBSET Maps /\ y \in Maps /\ \A x \in T : v[x] = w[x]
    BY <1>1
  <1>4. IsSum(f, w, Maps) /\ IsSum(h, v, Maps) /\ IsFiniteSet(Maps)
    BY <1>1, <1>2, LimiterFacts
  <1>5. ASSUME NEW s \in SUBSET Maps, NEW x \in s PROVE f[s] = w[x] + f[s \ {x}] /\ h[s] = v[x] + h[s \ {x}]
    BY <1>4, SumRemove
  <1>6. f[0..n] = w[y] + f[T] /\ h[0..n] = v[y] + h[T]
    BY <1>1, <1>5
  <1> HIDE DEF T
  <1>7. h[T] = f[T]
    BY <1>3, <1>4, SumSameWeights
  <1>8. f[T] \in Nat /\ w[y] \in Nat /\ v[y] \in Nat
    BY <1>3, <1>4, SumIsNat
  <1> QED
    BY <1>1, <1>2, <1>6, <1>7, <1>8

\* No weight grows by more than m.
LEMMA UpToGrows ==
  ASSUME NEW w \in [Maps -> Nat], NEW v \in [Maps -> Nat], NEW m \in Nat, \A x \in Maps : v[x] <= w[x] + m
  PROVE  \A n \in Maps : UpTo(v, n) <= UpTo(w, n) + (n + 1) * m
  <1> DEFINE P == {n \in Nat : n \in Maps => UpTo(v, n) <= UpTo(w, n) + (n + 1) * m}
  <1>1. \A n \in Maps : UpTo(v, n) \in Nat /\ UpTo(w, n) \in Nat
    BY UpToIs
  <1>2. 0 \in P
    <2>1. 0 \in Maps
      BY LimiterFacts DEF Maps
    <2> QED
      BY <2>1, UpToFirst
  <1>3. ASSUME NEW n \in P PROVE n + 1 \in P
    <2> SUFFICES ASSUME n + 1 \in Maps PROVE UpTo(v, n + 1) <= UpTo(w, n + 1) + (n + 1 + 1) * m
      OBVIOUS
    <2>1. n \in Maps
      BY LimiterFacts DEF Maps
    <2>2. UpTo(v, n) <= UpTo(w, n) + (n + 1) * m
      BY <2>1
    <2>3. UpTo(v, n + 1) = UpTo(v, n) + v[n + 1] /\ UpTo(w, n + 1) = UpTo(w, n) + w[n + 1]
      BY <2>1, UpToNext
    <2>4. v[n + 1] <= w[n + 1] + m /\ v[n + 1] \in Nat /\ w[n + 1] \in Nat
      OBVIOUS
    <2>5. (n + 1 + 1) * m = (n + 1) * m + m
      OBVIOUS
    <2>6. PICK k \in Nat : k = (n + 1) * m
      OBVIOUS
    <2> QED
      BY <1>1, <2>1, <2>2, <2>3, <2>4, <2>5, <2>6
  <1> HIDE DEF P
  <1>4. P \in SUBSET Nat
    BY DEF P
  <1>5. \A n \in Nat : n \in P
    BY <1>2, <1>3, <1>4, SetOfNaturals
  <1> QED
    BY <1>5, LimiterFacts DEF P

LEMMA CreditIsWeight ==
  ASSUME NEW b \in Buckets, NEW c \in Clients
  PROVE  /\ CreditIn(b, c) \in [Maps -> Nat]
         /\ \A g \in Maps : CreditIn(b, c)[g] = IF b[g][c] = NoBucket THEN Burst ELSE b[g][c]
         /\ \A g \in Maps : CreditIn(b, c)[g] \in 0..Burst
  BY LimiterFacts DEF CreditIn, Buckets

\* What the maps b2 that follow the maps b keep.
KeepsBuckets(b2, b) ==
  b2 \in Buckets /\ \A h \in Maps : \A c \in Clients : b[h][c] # NoBucket => b2[h][c] # NoBucket
OnlyOfMap(b2, b, g) == \A h \in Maps : h # g => b2[h] = b[h]
SameCredit(b2, b, C) == \A c \in C : CreditIn(b2, c) = CreditIn(b, c)
OneLess(b2, b, d, n) == UpTo(CreditIn(b2, d), n) = UpTo(CreditIn(b, d), n) - 1
Regained(b2, b, n) ==
  \A c \in Clients : UpTo(CreditIn(b2, c), n) <= UpTo(CreditIn(b, c), n) + (n + 1) * Refill
SameMissing(b2, b) == \A h \in Maps : \A c \in Clients : b2[h][c] = NoBucket <=> b[h][c] = NoBucket

\* A client that is new to a map gets the bucket that was counted for it.
LEMMA CreditOfNew ==
  ASSUME NEW b \in Buckets, NEW g \in Maps, NEW d \in Clients, b[g][d] = NoBucket,
         NEW b2, b2 = [b EXCEPT ![g][d] = Burst]
  PROVE  KeepsBuckets(b2, b) /\ OnlyOfMap(b2, b, g) /\ SameCredit(b2, b, Clients) /\ b2[g][d] # NoBucket
  <1>1. b2 \in Buckets /\ b2[g][d] = Burst
    BY LimiterFacts DEF Buckets
  <1>2. \A h \in Maps : \A c \in Clients : b2[h][c] = IF h = g /\ c = d THEN Burst ELSE b[h][c]
    BY DEF Buckets
  <1>3. \A h \in Maps : h # g => b2[h] = b[h]
    BY DEF Buckets
  <1>4. Burst # NoBucket
    BY LimiterFacts
  <1>5. ASSUME NEW c \in Clients PROVE CreditIn(b2, c) = CreditIn(b, c)
    <2>1. ASSUME NEW h \in Maps
          PROVE (IF b2[h][c] = NoBucket THEN Burst ELSE b2[h][c]) = (IF b[h][c] = NoBucket THEN Burst ELSE b[h][c])
      BY <1>2, <1>4
    <2> QED
      BY <2>1 DEF CreditIn
  <1>6. \A h \in Maps : \A c \in Clients : b[h][c] # NoBucket => b2[h][c] # NoBucket
    BY <1>2, <1>4
  <1> QED
    BY <1>1, <1>3, <1>4, <1>5, <1>6 DEF KeepsBuckets, OnlyOfMap, SameCredit

\* A request that is let through takes one from the credit of its client.
LEMMA CreditTaken ==
  ASSUME NEW b \in Buckets, NEW g \in Maps, NEW d \in Clients, b[g][d] # NoBucket, b[g][d] > 0,
         NEW b2, b2 = [b EXCEPT ![g][d] = @ - 1], NEW n \in Maps, g <= n
  PROVE  KeepsBuckets(b2, b) /\ OnlyOfMap(b2, b, g) /\ SameCredit(b2, b, Clients \ {d}) /\ OneLess(b2, b, d, n)
  <1>1. b[g][d] \in 1..Burst
    BY LimiterFacts DEF Buckets
  <1>2. b2[g][d] = b[g][d] - 1 /\ b2[g][d] \in 0..Burst /\ b2 \in Buckets
    BY <1>1, LimiterFacts DEF Buckets
  <1>3. \A h \in Maps : \A c \in Clients : h # g \/ c # d => b2[h][c] = b[h][c]
    BY DEF Buckets
  <1>4. \A h \in Maps : h # g => b2[h] = b[h]
    BY DEF Buckets
  <1>5. ASSUME NEW c \in Clients, c # d PROVE CreditIn(b2, c) = CreditIn(b, c)
    BY <1>3, <1>5 DEF CreditIn
  <1>6. CreditIn(b2, d) \in [Maps -> Nat] /\ CreditIn(b, d) \in [Maps -> Nat]
    BY <1>2, CreditIsWeight
  <1>7. CreditIn(b2, d)[g] = b[g][d] - 1 /\ CreditIn(b, d)[g] = b[g][d]
    BY <1>1, <1>2, LimiterFacts DEF CreditIn
  <1>8. \A x \in Maps \ {g} : CreditIn(b2, d)[x] = CreditIn(b, d)[x]
    BY <1>3 DEF CreditIn
  <1>9. g \in 0..n
    BY LimiterFacts DEF Maps
  <1>10. UpTo(CreditIn(b2, d), n) = UpTo(CreditIn(b, d), n) + CreditIn(b2, d)[g] - CreditIn(b, d)[g]
    BY <1>6, <1>8, <1>9, UpToChanged
  <1>11. UpTo(CreditIn(b, d), n) \in Nat
    BY <1>6, UpToIs
  <1>12. UpTo(CreditIn(b2, d), n) = UpTo(CreditIn(b, d), n) - 1
    BY <1>1, <1>7, <1>10, <1>11
  <1>13. \A h \in Maps : \A c \in Clients : b[h][c] # NoBucket => b2[h][c] # NoBucket
    BY <1>2, <1>3, LimiterFacts
  <1> QED
    BY <1>2, <1>4, <1>5, <1>12, <1>13 DEF KeepsBuckets, OnlyOfMap, SameCredit, OneLess

LEMMA LesserOfTwo ==
  ASSUME NEW x \in Nat, NEW y \in Nat
  PROVE  Limiter!Min({x, y}) \in 0..x /\ Limiter!Min({x, y}) \in 0..y
  BY DEF Limiter!Min

\* Time gives each bucket at most the refill.
LEMMA CreditRegained ==
  ASSUME NEW b \in Buckets, NEW b2,
         b2 = [g \in Maps |-> [c \in Clients |->
                 IF b[g][c] = NoBucket THEN NoBucket ELSE Limiter!Min({Burst, b[g][c] + Refill})]],
         NEW n \in Maps
  PROVE  KeepsBuckets(b2, b) /\ Regained(b2, b, n) /\ SameMissing(b2, b)
  <1>1. ASSUME NEW h \in Maps, NEW c \in Clients
        PROVE  /\ b2[h][c] \in (0..Burst) \cup {NoBucket}
               /\ b2[h][c] = NoBucket <=> b[h][c] = NoBucket
               /\ b[h][c] # NoBucket => b2[h][c] <= b[h][c] + Refill
    <2>1. CASE b[h][c] = NoBucket
      BY <2>1
    <2>2. CASE b[h][c] # NoBucket
      <3>1. b[h][c] \in Nat
        BY <2>2, LimiterFacts DEF Buckets
      <3>2. b2[h][c] = Limiter!Min({Burst, b[h][c] + Refill})
        BY <2>2
      <3>3. b[h][c] + Refill \in Nat
        BY <3>1, LimiterFacts
      <3>4. b2[h][c] \in 0..Burst /\ b2[h][c] \in 0..(b[h][c] + Refill)
        BY <3>2, <3>3, LesserOfTwo, LimiterFacts
      <3> QED
        BY <2>2, <3>3, <3>4, LimiterFacts
    <2> QED
      BY <2>1, <2>2
  <1>2. b2 \in Buckets
    BY <1>1 DEF Buckets
  <1>3. ASSUME NEW c \in Clients
        PROVE  UpTo(CreditIn(b2, c), n) <= UpTo(CreditIn(b, c), n) + (n + 1) * Refill
    <2>1. CreditIn(b2, c) \in [Maps -> Nat] /\ CreditIn(b, c) \in [Maps -> Nat]
      BY <1>2, CreditIsWeight
    <2>2. ASSUME NEW x \in Maps PROVE CreditIn(b2, c)[x] <= CreditIn(b, c)[x] + Refill
      BY <1>1, LimiterFacts DEF CreditIn
    <2> QED
      BY <2>1, <2>2, UpToGrows, LimiterFacts
  <1> QED
    BY <1>1, <1>2, <1>3 DEF KeepsBuckets, Regained, SameMissing

-----------------------------------------------------------------------------
(* The limiter's invariant.                                                *)

Holding == [gen : Maps, client : Clients]

\* No map is made before its time, and a request holds a bucket of a map that was made.
LimiterShape ==
  /\ generation \in Maps /\ clock \in Nat /\ allowed \in [Clients -> Nat] /\ bucket \in Buckets
  /\ \A g \in Maps : g > generation => \A c \in Clients : bucket[g][c] = NoBucket
  /\ fetched \in [Requests -> Holding \cup {Idle}]

HoldsBucket(r) ==
  fetched[r] # Idle =>
    /\ fetched[r] \in Holding /\ fetched[r].gen <= generation
    /\ bucket[fetched[r].gen][fetched[r].client] # NoBucket

Budget(c) == allowed[c] + UpTo(CreditIn(bucket, c), generation) <= (generation + 1) * (Burst + Refill * clock)

LimiterInv == LimiterShape /\ (\A r \in Requests : HoldsBucket(r)) /\ \A c \in Clients : Budget(c)

\* The credit of the maps is a number.
LEMMA CreditIsNat ==
  ASSUME NEW b \in Buckets, NEW c \in Clients, NEW n \in Maps
  PROVE  UpTo(CreditIn(b, c), n) \in Nat
  BY CreditIsWeight, UpToIs

LEMMA LimiterStarts == Limiter!LimiterInit => LimiterInv
  <1> SUFFICES ASSUME Limiter!LimiterInit PROVE LimiterInv
    OBVIOUS
  <1>1. LimiterShape
    BY LimiterFacts DEF Limiter!LimiterInit, LimiterShape, Maps, Buckets
  <1>2. \A r \in Requests : HoldsBucket(r)
    BY DEF Limiter!LimiterInit, HoldsBucket
  <1>3. ASSUME NEW c \in Clients PROVE Budget(c)
    <2>1. bucket \in Buckets /\ bucket[0][c] = NoBucket /\ 0 \in Maps
      BY LimiterFacts DEF Limiter!LimiterInit, Maps, Buckets
    <2>2. CreditIn(bucket, c) \in [Maps -> Nat] /\ CreditIn(bucket, c)[0] = Burst
      BY <2>1, CreditIsWeight
    <2>3. UpTo(CreditIn(bucket, c), 0) = Burst
      BY <2>2, UpToFirst
    <2>4. generation = 0 /\ clock = 0 /\ allowed[c] = 0
      BY DEF Limiter!LimiterInit
    <2>5. (0 + 1) * (Burst + Refill * 0) = Burst
      BY LimiterFacts
    <2> QED
      BY <2>3, <2>4, <2>5, LimiterFacts DEF Budget
  <1> QED
    BY <1>1, <1>2, <1>3 DEF LimiterInv

\* What a request holds after a step that leaves the maps and its own bucket alone.
LEMMA StillHolds ==
  ASSUME \A r \in Requests : HoldsBucket(r), LimiterShape, generation' \in Int, generation' >= generation,
         \A h \in Maps : \A c \in Clients : bucket[h][c] # NoBucket => bucket'[h][c] # NoBucket,
         NEW r \in Requests, fetched'[r] = fetched[r]
  PROVE  HoldsBucket(r)'
  <1>1. CASE fetched[r] = Idle
    BY <1>1 DEF HoldsBucket
  <1>2. CASE fetched[r] # Idle
    <2>1. /\ fetched[r] \in Holding /\ fetched[r].gen <= generation
          /\ bucket[fetched[r].gen][fetched[r].client] # NoBucket
      BY <1>2 DEF HoldsBucket
    <2>2. fetched[r].gen \in Maps /\ fetched[r].client \in Clients /\ generation \in Int
      BY <2>1, LimiterFacts DEF Holding, LimiterShape
    <2>3. bucket'[fetched[r].gen][fetched[r].client] # NoBucket
      BY <2>1, <2>2
    <2>4. fetched[r].gen <= generation'
      <3>1. PICK g \in Maps, n \in Maps : g = fetched[r].gen /\ n = generation
        BY <2>2 DEF LimiterShape
      <3>2. g \in Nat /\ n \in Nat
        BY LimiterFacts
      <3> QED
        BY <2>1, <3>1, <3>2
    <2> QED
      BY <2>1, <2>3, <2>4 DEF HoldsBucket
  <1> QED
    BY <1>1, <1>2

LEMMA GetLimiterStep ==
  ASSUME LimiterInv, NEW r \in Requests, NEW c \in Clients, Limiter!GetLimiter(r, c)
  PROVE  LimiterInv'
  <1>1. /\ fetched' = [fetched EXCEPT ![r] = [gen |-> generation, client |-> c]]
        /\ UNCHANGED <<generation, clock, allowed>>
    BY DEF Limiter!GetLimiter
  <1>2. LimiterShape /\ (\A q \in Requests : HoldsBucket(q)) /\ \A d \in Clients : Budget(d)
    BY DEF LimiterInv
  <1>3. /\ generation \in Maps /\ clock \in Nat /\ allowed \in [Clients -> Nat] /\ bucket \in Buckets
        /\ fetched \in [Requests -> Holding \cup {Idle}]
    BY <1>2 DEF LimiterShape
  <1>4. /\ bucket' \in Buckets
        /\ \A d \in Clients : CreditIn(bucket', d) = CreditIn(bucket, d)
        /\ \A h \in Maps : \A d \in Clients : bucket[h][d] # NoBucket => bucket'[h][d] # NoBucket
        /\ \A h \in Maps : h # generation => bucket'[h] = bucket[h]
        /\ bucket'[generation][c] # NoBucket
    <2>1. CASE bucket[generation][c] = NoBucket
      <3>1. bucket' = [bucket EXCEPT ![generation][c] = Burst]
        BY <2>1 DEF Limiter!GetLimiter
      <3>2. PICK b2 : b2 = bucket'
        OBVIOUS
      <3>3. bucket \in Buckets /\ generation \in Maps /\ b2 = [bucket EXCEPT ![generation][c] = Burst]
        BY <1>3, <3>1, <3>2
      <3>4. /\ KeepsBuckets(b2, bucket) /\ OnlyOfMap(b2, bucket, generation) /\ SameCredit(b2, bucket, Clients)
            /\ b2[generation][c] # NoBucket
        BY <2>1, <3>3, CreditOfNew
      <3> QED
        BY <3>2, <3>4 DEF KeepsBuckets, OnlyOfMap, SameCredit
    <2>2. CASE bucket[generation][c] # NoBucket
      <3>1. bucket' = bucket
        BY <2>2 DEF Limiter!GetLimiter
      <3> QED
        BY <1>3, <2>2, <3>1
    <2> QED
      BY <2>1, <2>2
  <1>5. PICK q : q = [gen |-> generation, client |-> c]
    OBVIOUS
  <1>10. q \in Holding /\ q.gen = generation /\ q.client = c
    BY <1>3, <1>5 DEF Holding
  <1>6. fetched' = [fetched EXCEPT ![r] = q]
    BY <1>1, <1>5
  <1>7. LimiterShape'
    <2>1. \A g \in Maps : g > generation => \A d \in Clients : bucket'[g][d] = NoBucket
      BY <1>2, <1>3, <1>4, LimiterFacts DEF LimiterShape
    <2>2. fetched' \in [Requests -> Holding \cup {Idle}]
      BY <1>3, <1>6, <1>10
    <2> QED
      BY <1>1, <1>3, <1>4, <2>1, <2>2 DEF LimiterShape
  <1>8. ASSUME NEW s \in Requests PROVE HoldsBucket(s)'
    <2>1. CASE s = r
      <3>1. fetched'[r] = q
        BY <1>3, <1>6
      <3> QED
        BY <1>1, <1>3, <1>4, <1>10, <2>1, <3>1, LimiterFacts DEF HoldsBucket
    <2>2. CASE s # r
      <3>1. fetched'[s] = fetched[s]
        BY <1>3, <1>6, <2>2
      <3>2. generation' \in Int /\ generation' >= generation
        BY <1>1, <1>3, LimiterFacts
      <3> QED
        BY <1>2, <1>4, <3>1, <3>2, StillHolds
    <2> QED
      BY <2>1, <2>2
  <1>9. ASSUME NEW d \in Clients PROVE Budget(d)'
    BY <1>1, <1>2, <1>4 DEF Budget
  <1> QED
    BY <1>7, <1>8, <1>9 DEF LimiterInv

LEMMA AllowStep ==
  ASSUME LimiterInv, NEW r \in Requests, Limiter!Allow(r)
  PROVE  LimiterInv'
  <1>1. LimiterShape /\ (\A q \in Requests : HoldsBucket(q)) /\ \A d \in Clients : Budget(d)
    BY DEF LimiterInv
  <1>2. /\ generation \in Maps /\ clock \in Nat /\ allowed \in [Clients -> Nat] /\ bucket \in Buckets
        /\ fetched \in [Requests -> Holding \cup {Idle}]
    BY <1>1 DEF LimiterShape
  <1>3. /\ fetched[r] \in Holding /\ fetched[r].gen <= generation
        /\ bucket[fetched[r].gen][fetched[r].client] # NoBucket
    BY <1>1 DEF HoldsBucket, Limiter!Allow
  <1>4. PICK g \in Maps, c \in Clients : g = fetched[r].gen /\ c = fetched[r].client
    BY <1>3 DEF Holding
  <1>5. /\ bucket[g][c] > 0 /\ bucket' = [bucket EXCEPT ![g][c] = @ - 1]
        /\ allowed' = [allowed EXCEPT ![c] = @ + 1]
        /\ fetched' = [fetched EXCEPT ![r] = Idle] /\ UNCHANGED <<generation, clock>>
    BY <1>4 DEF Limiter!Allow
  <1>6. /\ bucket' \in Buckets
        /\ UpTo(CreditIn(bucket', c), generation) = UpTo(CreditIn(bucket, c), generation) - 1
        /\ \A d \in Clients : d # c => CreditIn(bucket', d) = CreditIn(bucket, d)
        /\ \A h \in Maps : \A d \in Clients : bucket[h][d] # NoBucket => bucket'[h][d] # NoBucket
        /\ \A h \in Maps : h # g => bucket'[h] = bucket[h]
    <2>1. PICK b2 : b2 = bucket'
      OBVIOUS
    <2>2. bucket[g][c] # NoBucket /\ bucket[g][c] > 0 /\ g <= generation /\ b2 = [bucket EXCEPT ![g][c] = @ - 1]
      BY <1>3, <1>4, <1>5, <2>1
    <2>3. /\ KeepsBuckets(b2, bucket) /\ OnlyOfMap(b2, bucket, g) /\ SameCredit(b2, bucket, Clients \ {c})
          /\ OneLess(b2, bucket, c, generation)
      BY <1>2, <2>2, CreditTaken
    <2> QED
      BY <2>1, <2>3 DEF KeepsBuckets, OnlyOfMap, SameCredit, OneLess
  <1>7. LimiterShape'
    <2>1. ASSUME NEW h \in Maps, h > generation PROVE \A d \in Clients : bucket'[h][d] = NoBucket
      <3>1. h # g
        BY <1>2, <1>3, <1>4, <2>1, LimiterFacts
      <3> QED
        BY <1>1, <1>6, <2>1, <3>1 DEF LimiterShape
    <2>2. fetched' \in [Requests -> Holding \cup {Idle}] /\ allowed' \in [Clients -> Nat]
      BY <1>2, <1>5
    <2> QED
      BY <1>2, <1>5, <1>6, <2>1, <2>2 DEF LimiterShape
  <1>8. ASSUME NEW s \in Requests PROVE HoldsBucket(s)'
    <2>1. CASE s = r
      BY <1>2, <1>5, <2>1 DEF HoldsBucket
    <2>2. CASE s # r
      <3>1. fetched'[s] = fetched[s]
        BY <1>2, <1>5, <2>2
      <3>2. generation' \in Int /\ generation' >= generation
        BY <1>2, <1>5, LimiterFacts
      <3> QED
        BY <1>1, <1>6, <3>1, <3>2, StillHolds
    <2> QED
      BY <2>1, <2>2
  <1>9. ASSUME NEW d \in Clients PROVE Budget(d)'
    <2>1. CASE d = c
      <3>1. PICK k \in Nat : k = UpTo(CreditIn(bucket, c), generation)
        BY <1>2, CreditIsNat
      <3>2. PICK a \in Nat : a = allowed[c]
        BY <1>2
      <3>3. allowed'[c] = a + 1 /\ UpTo(CreditIn(bucket', c), generation) = k - 1
        BY <1>2, <1>5, <1>6, <3>1, <3>2
      <3>4. a + k = (a + 1) + (k - 1)
        OBVIOUS
      <3>5. a + k <= (generation + 1) * (Burst + Refill * clock)
        BY <1>1, <3>1, <3>2 DEF Budget
      <3> QED
        BY <1>5, <2>1, <3>3, <3>4, <3>5 DEF Budget
    <2>2. CASE d # c
      <3>1. allowed'[d] = allowed[d] /\ CreditIn(bucket', d) = CreditIn(bucket, d)
        BY <1>2, <1>5, <1>6, <2>2
      <3> QED
        BY <1>1, <1>5, <3>1 DEF Budget
    <2> QED
      BY <2>1, <2>2
  <1> QED
    BY <1>7, <1>8, <1>9 DEF LimiterInv

LEMMA RefuseStep ==
  ASSUME LimiterInv, NEW r \in Requests, Limiter!Refuse(r)
  PROVE  LimiterInv'
  <1>1. fetched' = [fetched EXCEPT ![r] = Idle] /\ UNCHANGED <<generation, bucket, clock, allowed>>
    BY DEF Limiter!Refuse
  <1>2. LimiterShape /\ (\A q \in Requests : HoldsBucket(q)) /\ \A d \in Clients : Budget(d)
    BY DEF LimiterInv
  <1>3. LimiterShape'
    BY <1>1, <1>2 DEF LimiterShape
  <1>4. ASSUME NEW s \in Requests PROVE HoldsBucket(s)'
    BY <1>1, <1>2 DEF HoldsBucket, LimiterShape
  <1>5. \A d \in Clients : Budget(d)'
    BY <1>1, <1>2 DEF Budget
  <1> QED
    BY <1>3, <1>4, <1>5 DEF LimiterInv

\* A new map is worth one more burst.
LEMMA CleanupStep ==
  ASSUME LimiterInv, Limiter!Cleanup
  PROVE  LimiterInv'
  <1>1. generation < MaxResets /\ generation' = generation + 1 /\ UNCHANGED <<bucket, fetched, clock, allowed>>
    BY DEF Limiter!Cleanup
  <1>2. LimiterShape /\ (\A q \in Requests : HoldsBucket(q)) /\ \A d \in Clients : Budget(d)
    BY DEF LimiterInv
  <1>3. generation \in Maps /\ clock \in Nat /\ allowed \in [Clients -> Nat] /\ bucket \in Buckets
    BY <1>2 DEF LimiterShape
  <1>4. generation + 1 \in Maps
    BY <1>1, <1>3, LimiterFacts DEF Maps
  <1>5. LimiterShape'
    BY <1>1, <1>2, <1>4, LimiterFacts DEF LimiterShape
  <1>6. ASSUME NEW s \in Requests PROVE HoldsBucket(s)'
    <2>1. generation' \in Int /\ generation' >= generation
      BY <1>1, <1>3, LimiterFacts
    <2> QED
      BY <1>1, <1>2, <2>1, StillHolds
  <1>7. ASSUME NEW d \in Clients PROVE Budget(d)'
    <2>1. CreditIn(bucket, d) \in [Maps -> Nat] /\ CreditIn(bucket, d)[generation + 1] = Burst
      <3>1. bucket[generation + 1][d] = NoBucket
        BY <1>2, <1>4, LimiterFacts DEF LimiterShape
      <3> QED
        BY <1>3, <1>4, <3>1, CreditIsWeight
    <2>2. UpTo(CreditIn(bucket, d), generation + 1) = UpTo(CreditIn(bucket, d), generation) + Burst
      BY <1>3, <1>4, <2>1, UpToNext
    <2>3. PICK k \in Nat, a \in Nat, n \in Nat, z \in Nat :
            k = UpTo(CreditIn(bucket, d), generation) /\ a = allowed[d] /\ n = generation /\ z = Refill * clock
      BY <1>3, CreditIsNat, LimiterFacts
    <2>4. a + k <= (n + 1) * (Burst + z)
      BY <1>2, <2>3 DEF Budget
    <2>5. (n + 1 + 1) * (Burst + z) = (n + 1) * (Burst + z) + Burst + z
      BY LimiterFacts
    <2>6. PICK p \in Nat : p = (n + 1) * (Burst + z)
      BY LimiterFacts
    <2>7. a + (k + Burst) <= (n + 1 + 1) * (Burst + z)
      BY <2>4, <2>5, <2>6, LimiterFacts
    <2> QED
      BY <1>1, <2>2, <2>3, <2>7 DEF Budget
  <1> QED
    BY <1>5, <1>6, <1>7 DEF LimiterInv

LEMMA ElapseStep ==
  ASSUME LimiterInv, Limiter!Elapse
  PROVE  LimiterInv'
  <1>1. /\ clock' = clock + 1
        /\ bucket' = [g \in Maps |-> [c \in Clients |->
                        IF bucket[g][c] = NoBucket THEN NoBucket
                        ELSE Limiter!Min({Burst, bucket[g][c] + Refill})]]
        /\ UNCHANGED <<generation, fetched, allowed>>
    BY LimiterFacts DEF Limiter!Elapse
  <1>2. LimiterShape /\ (\A q \in Requests : HoldsBucket(q)) /\ \A d \in Clients : Budget(d)
    BY DEF LimiterInv
  <1>3. generation \in Maps /\ clock \in Nat /\ allowed \in [Clients -> Nat] /\ bucket \in Buckets
    BY <1>2 DEF LimiterShape
  <1>4. /\ bucket' \in Buckets
        /\ \A c \in Clients : UpTo(CreditIn(bucket', c), generation)
                                <= UpTo(CreditIn(bucket, c), generation) + (generation + 1) * Refill
        /\ \A h \in Maps : \A c \in Clients : bucket'[h][c] = NoBucket <=> bucket[h][c] = NoBucket
    <2>1. PICK b2 : b2 = bucket'
      OBVIOUS
    <2>2. KeepsBuckets(b2, bucket) /\ Regained(b2, bucket, generation) /\ SameMissing(b2, bucket)
      BY <1>1, <1>3, <2>1, CreditRegained
    <2> QED
      BY <2>1, <2>2 DEF KeepsBuckets, Regained, SameMissing
  <1>5. LimiterShape'
    BY <1>1, <1>2, <1>3, <1>4 DEF LimiterShape
  <1>6. ASSUME NEW s \in Requests PROVE HoldsBucket(s)'
    <2>1. generation' \in Int /\ generation' >= generation /\ fetched'[s] = fetched[s]
      BY <1>1, <1>3, LimiterFacts
    <2> QED
      BY <1>2, <1>4, <2>1, StillHolds
  <1>7. ASSUME NEW d \in Clients PROVE Budget(d)'
    <2>1. PICK k \in Nat, k2 \in Nat, a \in Nat, n \in Nat, t \in Nat :
            /\ k = UpTo(CreditIn(bucket, d), generation) /\ k2 = UpTo(CreditIn(bucket', d), generation)
            /\ a = allowed[d] /\ n = generation /\ t = clock
      BY <1>3, <1>4, CreditIsNat, LimiterFacts
    <2>2. a + k <= (n + 1) * (Burst + Refill * t)
      BY <1>2, <2>1 DEF Budget
    <2>3. k2 <= k + (n + 1) * Refill
      BY <1>4, <2>1
    <2>4. PICK p \in Nat, u \in Nat : p = (n + 1) * (Burst + Refill * t) /\ u = (n + 1) * Refill
      BY LimiterFacts
    <2>5. (n + 1) * (Burst + Refill * (t + 1)) = p + u
      BY <2>4, LimiterFacts
    <2>6. a + k2 <= p + u
      BY <2>2, <2>3, <2>4
    <2> QED
      BY <1>1, <2>1, <2>5, <2>6 DEF Budget
  <1> QED
    BY <1>5, <1>6, <1>7 DEF LimiterInv

-----------------------------------------------------------------------------
(* The mails that the limiter lets through are spaced as well: what an     *)
(* open resend has read about the links of its account stays true until it *)
(* commits, unless another request of the account ran at the same time.    *)

Apart(r) ==
  \A t \in TokensOf(req[r].email, "email_verification") :
    req[r].fresh.created - tokens[t].created >= ResendInterval

ResendsApart ==
  \A r \in Requests : Busy(r) /\ req[r].op = "resend" /\ req[r].email \notin overlapped => Apart(r)

SpacedInv == ResendSpaced /\ ResendsApart

\* No link is older than the latest.
LEMMA LatestExists ==
  ASSUME TypeOK, NEW e, NEW type, NEW t \in TokensOf(e, type)
  PROVE  \E u \in LatestTokens(e, type) : tokens[t].created <= tokens[u].created
  <1> DEFINE N == MaxTime + ResetLife + VerifyLife
             Age(u) == N - tokens[u].created
             Ages == {Age(u) : u \in TokensOf(e, type)}
  <1>1. ASSUME NEW u \in TokensOf(e, type)
        PROVE  tokens[u].created \in 0..N /\ Age(u) \in Nat
    <2>1. tokens[u] \in Tokens
      BY DEF TokensOf, TypeOK
    <2>2. tokens[u].created \in 0..N
      BY <2>1 DEF Tokens, Times
    <2> QED
      BY <2>2, AccountsAssumption
  <1>2. Ages \subseteq Nat /\ Ages # {}
    BY <1>1
  <1> HIDE DEF Ages
  <1>3. Ages \in SUBSET Nat
    BY <1>2
  <1>4. PICK a \in Ages : \A b \in Ages : a <= b
    BY <1>2, <1>3, LeastNumber
  <1>5. PICK u \in TokensOf(e, type) : a = Age(u)
    BY DEF Ages
  <1>6. ASSUME NEW s \in TokensOf(e, type)
        PROVE  tokens[s].created <= tokens[u].created
    <2>1. Age(s) \in Ages
      BY DEF Ages
    <2>2. Age(u) <= Age(s)
      BY <1>4, <1>5, <2>1
    <2>3. tokens[s].created \in 0..N /\ tokens[u].created \in 0..N /\ N \in Nat
      BY <1>1, AccountsAssumption
    <2> QED
      BY <2>2, <2>3
  <1>7. u \in LatestTokens(e, type)
    BY <1>6 DEF LatestTokens
  <1> QED
    BY <1>6, <1>7

\* A resend that may start is apart from every link of its account.
LEMMA ResendMayStart ==
  ASSUME TypeOK, NEW e \in Emails, CanResendVerificationEmail(e),
         NEW t \in TokensOf(e, "email_verification")
  PROVE  now - tokens[t].created >= ResendInterval
  <1>1. PICK u \in LatestTokens(e, "email_verification") : tokens[t].created <= tokens[u].created
    BY LatestExists
  <1>2. now - tokens[u].created >= ResendInterval
    BY <1>1 DEF CanResendVerificationEmail
  <1>3. tokens[t] \in Tokens /\ tokens[u] \in Tokens
    BY <1>1 DEF LatestTokens, TokensOf, TypeOK
  <1>4. tokens[t].created \in Int /\ tokens[u].created \in Int /\ now \in Int /\ ResendInterval \in Int
    BY <1>3, AccountsAssumption DEF Tokens, Times, TypeOK
  <1> QED
    BY <1>1, <1>2, <1>4

\* A step that makes no verification link, and opens no resend that is not apart.
LEMMA SpacedQuiet ==
  ASSUME SpacedInv, overlapped \subseteq overlapped',
         \A t \in TokenIds :
           tokens'[t] # NoToken /\ tokens'[t].type = "email_verification" =>
             /\ tokens[t] # NoToken /\ tokens[t].type = "email_verification"
             /\ tokens'[t].user = tokens[t].user /\ tokens'[t].created = tokens[t].created,
         \A s \in Requests : Busy(s)' /\ req'[s].op = "resend" => req'[s] = req[s] \/ Apart(s)'
  PROVE  SpacedInv'
  <1>1. ASSUME NEW e, NEW t \in TokensOf(e, "email_verification")'
        PROVE  t \in TokensOf(e, "email_verification") /\ tokens'[t].created = tokens[t].created
    BY <1>1 DEF TokensOf
  <1>2. ResendSpaced'
    BY <1>1 DEF SpacedInv, ResendSpaced
  <1>3. ASSUME NEW s \in Requests, Busy(s)', req'[s].op = "resend", req'[s].email \notin overlapped'
        PROVE  Apart(s)'
    <2>1. CASE req'[s] = req[s]
      <3>1. Apart(s)
        BY <1>3, <2>1 DEF SpacedInv, ResendsApart, Busy
      <3> QED
        BY <1>1, <2>1, <3>1 DEF Apart
    <2> QED
      BY <1>3, <2>1
  <1> QED
    BY <1>2, <1>3 DEF SpacedInv, ResendsApart

LEMMA SpacedOtherBegin ==
  ASSUME TypeOK, SpacedInv, NEW r \in Requests, NEW x, Begin(r, x), x.op # "resend"
  PROVE  SpacedInv'
  <1>1. req' = [req EXCEPT ![r] = x] /\ tokens' = tokens /\ overlapped \subseteq overlapped'
    BY DEF Begin
  <1>2. \A s \in Requests : Busy(s)' /\ req'[s].op = "resend" => req'[s] = req[s]
    BY <1>1 DEF TypeOK
  <1> QED
    BY <1>1, <1>2, SpacedQuiet

LEMMA SpacedResendBegin ==
  ASSUME TypeOK, SpacedInv, NEW r \in Requests, NEW e \in Emails, ResendVerificationEmail(r, e)
  PROVE  SpacedInv'
  <1>1. PICK x : x = Request("resend", e, "commit", NoUser, NoToken, NewEmailVerificationToken(e), NoUser)
    OBVIOUS
  <1>2. x.email = e /\ x.fresh.created = now
    BY <1>1 DEF Request, NewEmailVerificationToken
  <1>3. Begin(r, x) /\ CanResendVerificationEmail(e)
    BY <1>1 DEF ResendVerificationEmail
  <1>4. req' = [req EXCEPT ![r] = x] /\ tokens' = tokens /\ overlapped \subseteq overlapped'
    BY <1>3 DEF Begin
  <1>5. req'[r] = x /\ \A s \in Requests \ {r} : req'[s] = req[s]
    BY <1>4 DEF TypeOK
  <1>6. Apart(r)'
    <2>1. \A t \in TokensOf(e, "email_verification") : now - tokens[t].created >= ResendInterval
      BY <1>3, ResendMayStart
    <2> QED
      BY <1>2, <1>4, <1>5, <2>1 DEF Apart, TokensOf
  <1> QED
    BY <1>4, <1>5, <1>6, SpacedQuiet

LEMMA SpacedOverwrite ==
  ASSUME TypeOK, SpacedInv, NEW r \in Requests, Overwrite(r)
  PROVE  SpacedInv'
  <1>1. \A t \in TokenIds :
          tokens'[t] # NoToken =>
            /\ tokens[t] # NoToken /\ tokens'[t].type = tokens[t].type
            /\ tokens'[t].user = tokens[t].user /\ tokens'[t].created = tokens[t].created
    <2>1. CASE tokens' = MarkAsUsed(tokens, req[r].use)
      <3>1. ASSUME NEW t \in TokenIds, tokens'[t] # NoToken, tokens'[t] # tokens[t]
            PROVE  tokens[t] # NoToken /\ tokens'[t] = [tokens[t] EXCEPT !.used = TRUE]
        BY <2>1, <3>1 DEF MarkAsUsed, TypeOK
      <3>2. ASSUME NEW t \in TokenIds, tokens[t] # NoToken
            PROVE  LET q == [tokens[t] EXCEPT !.used = TRUE]
                   IN  q.type = tokens[t].type /\ q.user = tokens[t].user /\ q.created = tokens[t].created
        BY <3>2 DEF TypeOK, Tokens
      <3> QED
        BY <3>1, <3>2
    <2>2. CASE tokens' = tokens
      BY <2>2
    <2> QED
      BY <2>1, <2>2 DEF Overwrite
  <1>2. \A s \in Requests : Busy(s)' => req'[s] = req[s]
    BY DEF Overwrite, End, TypeOK, Busy
  <1> QED
    BY <1>1, <1>2, SpacedQuiet DEF Overwrite

\* A commit adds a link to an account that has none, a link that is apart, or a reset link.
LEMMA SpacedInsertion ==
  ASSUME IInv, SpacedInv, NEW r \in Requests, NEW t \in TokenIds, Insertion(r, t)
  PROVE  SpacedInv'
  <1>1. TypeOK /\ AccountsInv
    BY DEF IInv
  <1>2. /\ tokens'[t] \in Tokens /\ tokens'[t] # NoToken
        /\ tokens'[t].user = req[r].email
        /\ tokens'[t].type = IF req[r].op = "request_reset" THEN "password_reset" ELSE "email_verification"
        /\ \A s \in TokenIds \ {t} : tokens'[s] = tokens[s] \/ tokens'[s] = NoToken
    BY <1>1, InsertTokens
  <1>3. /\ Busy(r) /\ req[r] \in Open /\ Held(req[r])
        /\ req[r].op \in {"register", "resend", "request_reset"}
    BY <1>1 DEF Insertion, TypeOK, Busy, AccountsInv, RequestsInv
  <1>4. /\ req'[r].pc = "mail" /\ \A s \in Requests \ {r} : req'[s] = req[s]
        /\ overlapped' = overlapped
    BY <1>1, <1>3 DEF Insertion, Insert, TypeOK, Open
  <1>5. tokens'[t] = req[r].fresh
    BY <1>1 DEF Insertion, Insert, CreateToken, TypeOK, DeleteUserTokens
  <1>6. ASSUME NEW e, NEW s \in TokensOf(e, "email_verification")', s # t
        PROVE  s \in TokensOf(e, "email_verification") /\ tokens'[s] = tokens[s]
    BY <1>2, <1>6 DEF TokensOf
  \* The new link and the others of its account.
  <1>10. PICK mine : mine = req[r].email
    OBVIOUS
  <1>7. ASSUME mine \notin overlapped, t \in TokensOf(mine, "email_verification")',
               NEW s \in TokensOf(mine, "email_verification")', s # t
        PROVE  tokens'[t].created - tokens'[s].created >= ResendInterval
    <2>1. s \in TokensOf(mine, "email_verification") /\ tokens'[s] = tokens[s]
      BY <1>6, <1>7
    <2>2. CASE req[r].op = "register"
      <3>1. users[req[r].email] = NoUser
        BY <2>2 DEF Insertion
      <3>2. users[tokens[s].user] # NoUser /\ tokens[s].user = req[r].email
        BY <1>1, <1>10, <2>1 DEF AccountsInv, TokensInv, TokensOf
      <3> QED
        BY <3>1, <3>2
    <2>3. CASE req[r].op = "resend"
      <3>1. Apart(r)
        BY <1>3, <1>7, <1>10, <2>3 DEF SpacedInv, ResendsApart
      <3> QED
        BY <1>5, <1>10, <2>1, <3>1 DEF Apart
    <2>4. CASE req[r].op = "request_reset"
      BY <1>2, <1>7, <2>4 DEF TokensOf
    <2> QED
      BY <1>3, <2>2, <2>3, <2>4
  <1>8. ResendSpaced'
    <2>1. ASSUME NEW e \in Emails \ overlapped',
                 NEW s \in TokensOf(e, "email_verification")', NEW u \in TokensOf(e, "email_verification")', s # u
          PROVE  \/ tokens'[s].created - tokens'[u].created >= ResendInterval
                 \/ tokens'[u].created - tokens'[s].created >= ResendInterval
      <3>1. CASE s # t /\ u # t
        BY <1>4, <1>6, <2>1, <3>1 DEF SpacedInv, ResendSpaced
      <3>2. CASE s = t
        <4>1. e = mine
          BY <1>2, <1>10, <2>1, <3>2 DEF TokensOf
        <4> QED
          BY <1>4, <1>7, <2>1, <3>2, <4>1
      <3>3. CASE u = t
        <4>1. e = mine
          BY <1>2, <1>10, <2>1, <3>3 DEF TokensOf
        <4> QED
          BY <1>4, <1>7, <2>1, <3>3, <4>1
      <3> QED
        BY <3>1, <3>2, <3>3
    <2> QED
      BY <2>1 DEF ResendSpaced
  <1>9. ASSUME NEW s \in Requests, Busy(s)', req'[s].op = "resend", req'[s].email \notin overlapped'
        PROVE  Apart(s)'
    <2>1. s # r /\ req'[s] = req[s] /\ Busy(s)
      BY <1>4, <1>9 DEF Busy
    <2>2. Apart(s)
      BY <1>4, <1>9, <2>1 DEF SpacedInv, ResendsApart
    <2>3. req[s].email # req[r].email
      BY <1>1, <1>3, <1>4, <1>9, <2>1 DEF AccountsInv, RequestsInv
    <2>5. PICK e : e = req[s].email
      OBVIOUS
    <2>4. ASSUME NEW u \in TokensOf(e, "email_verification")'
          PROVE  req[s].fresh.created - tokens'[u].created >= ResendInterval
      <3>1. u # t
        BY <1>2, <2>3, <2>4, <2>5 DEF TokensOf
      <3>2. u \in TokensOf(e, "email_verification") /\ tokens'[u] = tokens[u]
        BY <1>6, <2>4, <3>1
      <3> QED
        BY <2>2, <2>5, <3>2 DEF Apart
    <2> QED
      BY <2>1, <2>4, <2>5 DEF Apart
  <1> QED
    BY <1>8, <1>9 DEF SpacedInv, ResendsApart

LEMMA SpacedAccount ==
  ASSUME IInv, SpacedInv, NEW r \in Requests, Account(r)
  PROVE  SpacedInv'
  <1>1. TypeOK
    BY DEF IInv
  <1>2. ASSUME NEW e \in Emails, NEW p \in Passwords, NEW n \in Names, RegisterUser(r, e, p, n)
        PROVE  SpacedInv'
    BY <1>1, <1>2, SpacedOtherBegin, RequestFields DEF RegisterUser
  <1>3. ASSUME NEW t \in TokenIds, CommitRegistration(r, t) \/ CommitResend(r, t) \/ CommitResetRequest(r, t)
        PROVE  SpacedInv'
    BY <1>3, CommitsInsert, SpacedInsertion
  <1>4. ASSUME NEW t \in TokenIds, VerifyEmail(r, t)
        PROVE  SpacedInv'
    BY <1>1, <1>4, SpacedOtherBegin, RequestFields DEF VerifyEmail
  <1>5. ASSUME CommitVerification(r) \/ CommitReset(r) \/ WritePassword(r) \/ WriteProfile(r)
        PROVE  SpacedInv'
    BY <1>1, <1>5, CommitsOverwrite, SpacedOverwrite
  <1>6. ASSUME NEW e \in Emails, RequestPasswordReset(r, e)
        PROVE  SpacedInv'
    BY <1>1, <1>6, SpacedOtherBegin, RequestFields DEF RequestPasswordReset
  <1>7. ASSUME NEW t \in TokenIds, NEW p \in Passwords, ResetPassword(r, t, p)
        PROVE  SpacedInv'
    BY <1>1, <1>7, SpacedOtherBegin, RequestFields DEF ResetPassword
  <1>8. ASSUME NEW e \in Emails, NEW old \in Passwords, NEW p \in Passwords, ChangePassword(r, e, old, p)
        PROVE  SpacedInv'
    BY <1>1, <1>8, SpacedOtherBegin, RequestFields DEF ChangePassword
  <1>9. ASSUME NEW e \in Emails, NEW n \in Names, UpdateUser(r, e, n)
        PROVE  SpacedInv'
    BY <1>1, <1>9, SpacedOtherBegin, RequestFields DEF UpdateUser
  <1>10. ASSUME ReadForChange(r)
         PROVE  SpacedInv'
    <2>1. req[r] \in Open /\ req[r].op = "change"
      BY <1>1, <1>10 DEF ReadForChange, TypeOK
    <2>2. req'[r].op = "change" /\ \A s \in Requests \ {r} : req'[s] = req[s]
      BY <1>1, <1>10, <2>1 DEF ReadForChange, TypeOK, Open
    <2> QED
      BY <1>10, <2>2, SpacedQuiet DEF ReadForChange
  <1>11. ASSUME DuplicateRegistration(r) \/ SendEmail(r) \/ Abort(r)
         PROVE  SpacedInv'
    <2>1. End(r) /\ UNCHANGED <<tokens, overlapped>>
      BY <1>11 DEF DuplicateRegistration, SendEmail, Abort
    <2>2. \A s \in Requests : Busy(s)' => req'[s] = req[s]
      BY <1>1, <2>1 DEF End, TypeOK, Busy
    <2> QED
      BY <2>1, <2>2, SpacedQuiet
  <1> QED
    BY <1>1, <1>2, <1>3, <1>4, <1>5, <1>6, <1>7, <1>8, <1>9, <1>10, <1>11, SpacedResendBegin DEF Account

LEMMA SpacedNext == IInv /\ SpacedInv /\ [Next]_vars => SpacedInv'
  <1> SUFFICES ASSUME IInv, SpacedInv, [Next]_vars PROVE SpacedInv'
    OBVIOUS
  <1>1. ASSUME UNCHANGED <<tokens, req, overlapped>> PROVE SpacedInv'
    BY <1>1, SpacedQuiet
  <1>2. CASE UNCHANGED <<tokens, req, overlapped>>
    BY <1>1, <1>2
  <1>3. ASSUME NEW r \in Requests, Account(r) PROVE SpacedInv'
    BY <1>3, SpacedAccount
  <1> QED
    BY <1>2, <1>3 DEF Next, LoginUser, SessionExpires, Tick, vars

LEMMA SpacedInit == Init => SpacedInv
  BY DEF Init, SpacedInv, ResendSpaced, ResendsApart, TokensOf, Busy

LEMMA SpacedHolds == Spec => []SpacedInv
  BY InvHolds, SpacedInit, SpacedNext, PTL DEF Spec

LEMMA LimiterNextStep == LimiterInv /\ [Limiter!LimiterNext]_lvars => LimiterInv'
  <1> SUFFICES ASSUME LimiterInv, [Limiter!LimiterNext]_lvars PROVE LimiterInv'
    OBVIOUS
  <1>1. CASE UNCHANGED lvars
    BY <1>1 DEF lvars, LimiterInv, LimiterShape, HoldsBucket, Budget
  <1> QED
    BY <1>1, GetLimiterStep, AllowStep, RefuseStep, CleanupStep, ElapseStep DEF Limiter!LimiterNext

LEMMA LimiterBounds == LimiterInv => Limiter!MailsBounded
  <1> SUFFICES ASSUME LimiterInv, NEW c \in Clients
               PROVE  allowed[c] <= (generation + 1) * (Burst + Refill * clock)
    BY DEF Limiter!MailsBounded
  <1>1. generation \in Maps /\ clock \in Nat /\ allowed[c] \in Nat /\ bucket \in Buckets
    BY DEF LimiterInv, LimiterShape
  <1>2. UpTo(CreditIn(bucket, c), generation) \in Nat
    BY <1>1, CreditIsNat
  <1>3. allowed[c] + UpTo(CreditIn(bucket, c), generation) <= (generation + 1) * (Burst + Refill * clock)
    BY DEF LimiterInv, Budget
  <1>4. PICK p \in Nat : p = (generation + 1) * (Burst + Refill * clock)
    BY <1>1, LimiterFacts
  <1> QED
    BY <1>1, <1>2, <1>3, <1>4

\* The limiter lets a client through at most one burst per map of buckets and what they regain;
\* and two verification mails to an address are at least ResendInterval apart unless requests
\* of its account ran at the same time (rate_limit.go, tokenService.CanResendVerificationEmail).
THEOREM MailsLimitedHolds == MCSpec => []MailsLimited
  <1>1. MCInit => Init /\ Limiter!LimiterInit
    BY DEF MCInit
  <1>2. [MCNext]_allvars => [Next]_vars
    BY DEF MCNext, allvars, vars
  <1>3. [MCNext]_allvars => [Limiter!LimiterNext]_lvars
    BY DEF MCNext, allvars, lvars
  <1>4. MCSpec => []ResendSpaced
    <2>1. MCSpec => Spec
      BY <1>1, <1>2, PTL DEF MCSpec, Spec
    <2>2. SpacedInv => ResendSpaced
      BY DEF SpacedInv
    <2> QED
      BY <2>1, <2>2, SpacedHolds, PTL
  <1>5. MCSpec => []Limiter!MailsBounded
    BY <1>1, <1>3, LimiterStarts, LimiterNextStep, LimiterBounds, PTL DEF MCSpec
  <1>6. Limiter!MailsBounded /\ ResendSpaced => MailsLimited
    BY DEF MailsLimited
  <1> QED
    BY <1>4, <1>5, <1>6, PTL

-----------------------------------------------------------------------------
(* The GitHub App installations: what an open request knows of its OAuth   *)
(* state and of the row of its installation.                               *)

\* The state of a callback was issued to its user, and is consumed for its installation.
Flow(q) ==
  q.op = "callback" =>
    /\ q.state \in States /\ states[q.state] # NoRow /\ states[q.state].user = q.user
    /\ q.pc # "state" => states[q.state].consumed /\ states[q.state].inst = q.inst

\* The row the request found is there; it is as it was found while no other request is open for it.
OnRow(q) ==
  /\ q.op \in {"disconnect", "generate", "repositories", "branches"} => inst[q.inst] # NoRow
  /\ q.op = "generate" /\ q.inst \notin goverlapped => Github!IsActive(inst[q.inst])
  /\ q.op = "callback" /\ q.pc = "write" =>
       /\ q.seen # NoRow => q.seen.user = q.user /\ inst[q.inst] # NoRow /\ inst[q.inst].user = q.user
       /\ q.inst \notin goverlapped => q.seen = inst[q.inst]

Knows(r) == greq[r] # Idle => Flow(greq[r]) /\ OnRow(greq[r])

Unused(s) == states[s] = NoRow \/ ~ states[s].consumed => passed[s] = 0

GithubInv ==
  /\ Github!InstallationsTypeOK
  /\ \A r \in Requests : Knows(r)
  /\ \A r \in Requests, s \in Requests :
       r # s /\ greq[r] # Idle /\ greq[s] # Idle /\ greq[r].inst = greq[s].inst => greq[r].inst \in goverlapped
  /\ \A s \in States : Unused(s)
  /\ Github!StateOnce /\ Github!GoneHasNoToken

LEMMA GithubFacts ==
  /\ StateLife \in Nat /\ TokenLife \in Nat /\ Buffer \in Nat /\ MaxGithubTime \in Nat
  /\ NoRow \notin Github!Rows /\ NoRow \notin Github!OAuthStates
  BY GithubConstants DEF Github!InstallationsAssumption

\* No step takes an OAuth state back, changes its user, or consumes it twice.
StatesKept ==
  \A s \in States : states[s] # NoRow =>
    /\ states'[s] # NoRow /\ states'[s].user = states[s].user
    /\ states[s].consumed => states'[s].consumed /\ states'[s].inst = states[s].inst

\* A row keeps its owner.
RowKept(i) == inst[i] # NoRow => inst'[i] # NoRow /\ inst'[i].user = inst[i].user

LEMMA FlowKept ==
  ASSUME StatesKept, NEW q, Flow(q)
  PROVE  Flow(q)'
  BY DEF Flow, StatesKept

LEMMA OnRowKept ==
  ASSUME NEW q, OnRow(q), goverlapped \subseteq goverlapped',
         inst'[q.inst] = inst[q.inst] \/ (q.inst \in goverlapped' /\ RowKept(q.inst))
  PROVE  OnRow(q)'
  <1>1. CASE inst'[q.inst] = inst[q.inst]
    BY <1>1 DEF OnRow, Github!IsActive
  <1>2. CASE q.inst \in goverlapped' /\ RowKept(q.inst)
    BY <1>2 DEF OnRow, RowKept
  <1> QED
    BY <1>1, <1>2

LEMMA StillKnows ==
  ASSUME Github!InstallationsTypeOK, StatesKept, goverlapped \subseteq goverlapped',
         NEW s \in Requests, Knows(s), greq'[s] = greq[s],
         \A i \in Installations :
           inst'[i] = inst[i] \/ (RowKept(i) /\ (greq[s] # Idle /\ i = greq[s].inst => i \in goverlapped'))
  PROVE  Knows(s)'
  <1>1. CASE greq[s] = Idle
    BY <1>1 DEF Knows
  <1>2. CASE greq[s] # Idle
    <2>1. PICK q \in Github!Open : q = greq[s]
      BY <1>2 DEF Github!InstallationsTypeOK
    <2>2. q.inst \in Installations /\ Flow(q) /\ OnRow(q)
      BY <1>2, <2>1 DEF Github!Open, Knows
    <2>3. Flow(q)'
      BY <2>2, FlowKept
    <2>4. OnRow(q)'
      BY <1>2, <2>1, <2>2, OnRowKept
    <2> QED
      BY <2>1, <2>3, <2>4 DEF Knows, Flow, OnRow
  <1> QED
    BY <1>1, <1>2

\* A step of one request, which writes no row but the one of its installation.
LEMMA GithubStep ==
  ASSUME GithubInv, Github!InstallationsTypeOK', StatesKept, goverlapped \subseteq goverlapped',
         NEW r \in Requests, \A s \in Requests \ {r} : greq'[s] = greq[s],
         Knows(r)',
         greq'[r] # Idle => \A s \in Requests \ {r} :
           greq[s] # Idle /\ greq[s].inst = greq'[r].inst => greq'[r].inst \in goverlapped',
         \A i \in Installations : inst'[i] = inst[i] \/ (greq[r] # Idle /\ i = greq[r].inst /\ RowKept(i)),
         \A s \in States : Unused(s)',
         Github!StateOnce', Github!GoneHasNoToken'
  PROVE  GithubInv'
  <1>1. ASSUME NEW s \in Requests PROVE Knows(s)'
    <2>1. CASE s = r
      BY <2>1
    <2>2. CASE s # r
      <3>1. \A i \in Installations :
              inst'[i] = inst[i] \/ (RowKept(i) /\ (greq[s] # Idle /\ i = greq[s].inst => i \in goverlapped'))
        <4> SUFFICES ASSUME NEW i \in Installations, inst'[i] # inst[i]
                     PROVE  RowKept(i) /\ (greq[s] # Idle /\ i = greq[s].inst => i \in goverlapped')
          OBVIOUS
        <4>1. greq[r] # Idle /\ i = greq[r].inst /\ RowKept(i)
          OBVIOUS
        <4>2. greq[s] # Idle /\ i = greq[s].inst => i \in goverlapped
          BY <2>2, <4>1 DEF GithubInv
        <4> QED
          BY <4>1, <4>2
      <3>2. greq'[s] = greq[s] /\ Knows(s) /\ Github!InstallationsTypeOK
        BY <2>2 DEF GithubInv
      <3> QED
        BY <3>1, <3>2, StillKnows
    <2> QED
      BY <2>1, <2>2
  <1>2. ASSUME NEW s \in Requests, NEW q \in Requests, s # q, greq'[s] # Idle, greq'[q] # Idle,
               greq'[s].inst = greq'[q].inst
        PROVE  greq'[s].inst \in goverlapped'
    BY <1>2 DEF GithubInv
  <1> QED
    BY <1>1, <1>2 DEF GithubInv

LEMMA GithubTypes ==
  ASSUME GithubInv
  PROVE  /\ inst \in [Installations -> Github!Rows \cup {NoRow}]
         /\ states \in [States -> Github!OAuthStates \cup {NoRow}]
         /\ github \in [Installations -> {"installed", "suspended", "uninstalled"}]
         /\ greq \in [Requests -> Github!Open \cup {Idle}]
         /\ gnow \in 0..MaxGithubTime /\ passed \in [States -> 0..2] /\ goverlapped \subseteq Installations
  BY DEF GithubInv, Github!InstallationsTypeOK

\* What a request holds when it is open.
LEMMA OpenKnows ==
  ASSUME GithubInv, NEW r \in Requests, greq[r] # Idle
  PROVE  /\ greq[r] \in Github!Open /\ greq[r].inst \in Installations /\ greq[r].user \in Owners
         /\ Flow(greq[r]) /\ OnRow(greq[r])
  <1>1. greq[r] \in Github!Open
    BY GithubTypes
  <1> QED
    BY <1>1 DEF GithubInv, Knows, Github!Open

\* A request opens.
LEMMA GithubBegin ==
  ASSUME GithubInv, NEW r \in Requests, NEW q \in Github!Open, Flow(q), OnRow(q),
         greq' = [greq EXCEPT ![r] = q],
         goverlapped' = IF \E s \in Requests \ {r} : greq[s] # Idle /\ greq[s].inst = q.inst
                        THEN goverlapped \cup {q.inst} ELSE goverlapped,
         UNCHANGED <<inst, states, github, gnow, passed>>
  PROVE  GithubInv'
  <1>1. /\ greq'[r] = q /\ (\A s \in Requests \ {r} : greq'[s] = greq[s])
        /\ greq' \in [Requests -> Github!Open \cup {Idle}]
    BY GithubTypes
  <1>2. q.inst \in Installations
    BY DEF Github!Open
  <1>3. goverlapped \subseteq goverlapped' /\ goverlapped' \subseteq Installations
    BY <1>2, GithubTypes
  <1>4. Github!InstallationsTypeOK'
    BY <1>1, <1>3, GithubTypes DEF Github!InstallationsTypeOK
  <1>5. StatesKept
    BY DEF StatesKept
  <1>6. Flow(q)'
    BY <1>5, FlowKept
  <1>7. OnRow(q)'
    BY <1>3, OnRowKept
  <1>8. Knows(r)'
    BY <1>1, <1>6, <1>7 DEF Knows, Flow, OnRow
  <1>9. \A s \in Requests \ {r} : greq[s] # Idle /\ greq[s].inst = q.inst => q.inst \in goverlapped'
    OBVIOUS
  <1>10. \A s \in States : Unused(s)'
    BY DEF GithubInv, Unused
  <1>11. Github!StateOnce' /\ Github!GoneHasNoToken'
    BY <1>3 DEF GithubInv, Github!StateOnce, Github!GoneHasNoToken, Github!IsActive
  <1> QED
    BY <1>1, <1>3, <1>4, <1>5, <1>8, <1>9, <1>10, <1>11, GithubStep

\* A request ends and may write the row of its installation.
LEMMA GithubEnd ==
  ASSUME GithubInv, NEW r \in Requests, greq' = [greq EXCEPT ![r] = Idle],
         inst' \in [Installations -> Github!Rows \cup {NoRow}],
         \A i \in Installations : inst'[i] = inst[i] \/ (greq[r] # Idle /\ i = greq[r].inst /\ RowKept(i)),
         \A i \in Installations \ goverlapped :
           inst'[i] = inst[i] \/ Github!IsActive(inst'[i]) \/ inst'[i].token = 0,
         UNCHANGED <<states, github, gnow, passed, goverlapped>>
  PROVE  GithubInv'
  <1>1. /\ greq'[r] = Idle /\ (\A s \in Requests \ {r} : greq'[s] = greq[s])
        /\ greq' \in [Requests -> Github!Open \cup {Idle}]
    BY GithubTypes
  <1>2. Github!InstallationsTypeOK'
    BY <1>1, GithubTypes DEF Github!InstallationsTypeOK
  <1>3. StatesKept
    BY DEF StatesKept
  <1>4. Knows(r)'
    BY <1>1 DEF Knows
  <1>5. \A s \in States : Unused(s)'
    BY DEF GithubInv, Unused
  <1>6. Github!StateOnce' /\ Github!GoneHasNoToken'
    BY DEF GithubInv, Github!StateOnce, Github!GoneHasNoToken, Github!IsActive
  <1> QED
    BY <1>1, <1>2, <1>3, <1>4, <1>5, <1>6, GithubStep

\* The row a request writes.
LEMMA GithubWrite ==
  ASSUME GithubInv, NEW r \in Requests, greq[r] # Idle, greq' = [greq EXCEPT ![r] = Idle],
         NEW row \in Github!Rows, Github!SetRow(greq[r].inst, row),
         inst[greq[r].inst] # NoRow => row.user = inst[greq[r].inst].user,
         greq[r].inst \notin goverlapped => Github!IsActive(row) \/ row.token = 0,
         UNCHANGED <<states, github, gnow, passed, goverlapped>>
  PROVE  GithubInv'
  <1>1. PICK i \in Installations : i = greq[r].inst
    BY OpenKnows
  <1>2. inst' = [inst EXCEPT ![i] = row]
    BY <1>1 DEF Github!SetRow
  <1>3. inst' \in [Installations -> Github!Rows \cup {NoRow}] /\ inst'[i] = row /\ inst'[i] # NoRow
    BY <1>2, GithubTypes, GithubFacts
  <1>4. \A j \in Installations : j # i => inst'[j] = inst[j]
    BY <1>2, GithubTypes
  <1>5. RowKept(i)
    BY <1>1, <1>3 DEF RowKept
  <1>6. \A j \in Installations : inst'[j] = inst[j] \/ (greq[r] # Idle /\ j = greq[r].inst /\ RowKept(j))
    BY <1>1, <1>4, <1>5
  <1>7. \A j \in Installations \ goverlapped :
          inst'[j] = inst[j] \/ Github!IsActive(inst'[j]) \/ inst'[j].token = 0
    <2> SUFFICES ASSUME NEW j \in Installations \ goverlapped, inst'[j] # inst[j]
                 PROVE  Github!IsActive(inst'[j]) \/ inst'[j].token = 0
      OBVIOUS
    <2>1. j = i
      BY <1>4
    <2> QED
      BY <1>1, <1>3, <2>1 DEF Github!IsActive
  <1> QED
    BY <1>3, <1>6, <1>7, GithubEnd

\* The columns that the statements set.
LEMMA RowStatements ==
  ASSUME NEW row \in Github!Rows, gnow \in 0..MaxGithubTime, NEW t \in Github!Times
  PROVE  /\ Github!SoftDelete(row) \in Github!Rows /\ Github!SoftDelete(row).user = row.user
         /\ Github!SoftDelete(row).token = 0
         /\ Github!MarkAsRevoked(row) \in Github!Rows /\ Github!MarkAsRevoked(row).user = row.user
         /\ Github!MarkAsRevoked(row).token = 0
         /\ Github!Reactivate(row) \in Github!Rows /\ Github!Reactivate(row).user = row.user
         /\ Github!IsActive(Github!Reactivate(row))
         /\ Github!UpdateToken(row, t) \in Github!Rows /\ Github!UpdateToken(row, t).user = row.user
         /\ Github!IsActive(Github!UpdateToken(row, t)) <=> Github!IsActive(row)
         /\ gnow + TokenLife \in Github!Times
         /\ ~ Github!IsActive(Github!SoftDelete(row)) /\ ~ Github!IsActive(Github!MarkAsRevoked(row))
  <1>1. 0 \in Github!Times /\ gnow + TokenLife \in Github!Times
    BY GithubFacts DEF Github!Times
  <1> QED
    BY <1>1 DEF Github!SoftDelete, Github!MarkAsRevoked, Github!Reactivate, Github!UpdateToken, Github!Rows,
                Github!IsActive

\* Beginnings.
LEMMA BeginsKnowing ==
  ASSUME GithubInv, NEW r \in Requests, NEW op \in {"connect", "callback", "disconnect", "generate", "repositories", "branches"},
         NEW pc \in {"state", "consumed", "write"}, NEW u \in Owners, NEW i \in Installations,
         NEW s \in States \cup {NoRow}, Github!Begin(r, op, pc, u, i, s, NoRow),
         op = "callback" => pc = "state" /\ s \in States /\ states[s] # NoRow /\ states[s].user = u,
         op \in {"disconnect", "generate", "repositories", "branches"} =>
           inst[i] # NoRow /\ Github!IsActive(inst[i])
  PROVE  GithubInv'
  <1>1. PICK q : q = [op |-> op, pc |-> pc, user |-> u, inst |-> i, state |-> s, seen |-> NoRow]
    OBVIOUS
  <1>2. q \in Github!Open
    BY <1>1 DEF Github!Open
  <1>3. q.op = op /\ q.pc = pc /\ q.user = u /\ q.inst = i /\ q.state = s
    BY <1>1
  <1>4. Flow(q)
    BY <1>3 DEF Flow
  <1>5. OnRow(q)
    BY <1>3 DEF OnRow
  <1>6. /\ greq' = [greq EXCEPT ![r] = q]
        /\ goverlapped' = IF \E x \in Requests \ {r} : greq[x] # Idle /\ greq[x].inst = q.inst
                          THEN goverlapped \cup {q.inst} ELSE goverlapped
        /\ UNCHANGED <<inst, states, github, gnow, passed>>
    BY <1>1, <1>3 DEF Github!Begin
  <1> QED
    BY <1>2, <1>4, <1>5, <1>6, GithubBegin

LEMMA ConsumeStep ==
  ASSUME GithubInv, NEW r \in Requests, Github!ConsumeState(r)
  PROVE  GithubInv'
  <1>1. greq[r] # Idle /\ greq[r].op = "callback" /\ greq[r].pc = "state"
    BY DEF Github!ConsumeState, Github!Ready
  <1>2. PICK q \in Github!Open : q = greq[r] /\ Flow(q) /\ OnRow(q)
    BY <1>1, OpenKnows
  <1>3. PICK s \in States, i \in Installations : s = q.state /\ i = q.inst
    BY <1>1, <1>2 DEF Flow, Github!Open
  <1>4. /\ states[s] # NoRow /\ states[s].user = q.user /\ states[s] \in Github!OAuthStates
    BY <1>1, <1>2, <1>3, GithubTypes DEF Flow
  <1>5. /\ ~ states[s].consumed
        /\ states' = [states EXCEPT ![s].consumed = TRUE, ![s].inst = i]
        /\ passed' = [passed EXCEPT ![s] = IF @ = 2 THEN 2 ELSE @ + 1]
        /\ greq' = [greq EXCEPT ![r].pc = "consumed"]
        /\ UNCHANGED <<inst, github, gnow, goverlapped>>
    BY <1>2, <1>3 DEF Github!ConsumeState, Github!MarkAsConsumedTakes
  <1>6. PICK row : row = [states[s] EXCEPT !.consumed = TRUE, !.inst = i]
    OBVIOUS
  <1>7. row \in Github!OAuthStates /\ row # NoRow /\ row.consumed /\ row.user = states[s].user /\ row.inst = i
    BY <1>4, <1>6, GithubFacts DEF Github!OAuthStates
  <1>8. states' = [states EXCEPT ![s] = row]
    BY <1>4, <1>5, <1>6, GithubTypes
  <1>9. /\ states' \in [States -> Github!OAuthStates \cup {NoRow}] /\ states'[s] = row
        /\ \A x \in States : x # s => states'[x] = states[x]
    BY <1>7, <1>8, GithubTypes
  <1>10. passed[s] = 0
    BY <1>5 DEF GithubInv, Unused
  <1>11. /\ passed' \in [States -> 0..2] /\ passed'[s] = 1
         /\ \A x \in States : x # s => passed'[x] = passed[x]
    BY <1>5, <1>10, GithubTypes
  <1>12. PICK q2 : q2 = [q EXCEPT !.pc = "consumed"]
    OBVIOUS
  <1>13. /\ q2 \in Github!Open /\ q2.op = "callback" /\ q2.pc = "consumed" /\ q2.inst = i /\ q2.state = s
         /\ q2.user = q.user
    BY <1>1, <1>2, <1>3, <1>12 DEF Github!Open
  <1>14. /\ greq' = [greq EXCEPT ![r] = q2] /\ greq'[r] = q2
         /\ \A x \in Requests \ {r} : greq'[x] = greq[x]
         /\ greq' \in [Requests -> Github!Open \cup {Idle}]
    BY <1>2, <1>5, <1>12, <1>13, GithubTypes
  <1>15. Github!InstallationsTypeOK'
    BY <1>5, <1>9, <1>11, <1>14, GithubTypes DEF Github!InstallationsTypeOK
  <1>16. StatesKept
    BY <1>5, <1>7, <1>9 DEF StatesKept
  <1>17. Knows(r)'
    BY <1>3, <1>4, <1>7, <1>9, <1>13, <1>14 DEF Knows, Flow, OnRow
  <1>18. \A x \in Requests \ {r} : greq[x] # Idle /\ greq[x].inst = greq'[r].inst => greq'[r].inst \in goverlapped'
    BY <1>1, <1>2, <1>3, <1>5, <1>13, <1>14 DEF GithubInv
  <1>19. \A x \in States : Unused(x)'
    BY <1>7, <1>9, <1>11 DEF GithubInv, Unused
  <1>20. Github!StateOnce' /\ Github!GoneHasNoToken'
    BY <1>5, <1>11 DEF GithubInv, Github!StateOnce, Github!GoneHasNoToken, Github!IsActive
  <1> QED
    BY <1>5, <1>14, <1>15, <1>16, <1>17, <1>18, <1>19, <1>20, GithubStep

LEMMA ReadForCallbackStep ==
  ASSUME GithubInv, NEW r \in Requests, Github!ReadForCallback(r)
  PROVE  GithubInv'
  <1>1. greq[r] # Idle /\ greq[r].op = "callback" /\ greq[r].pc = "consumed"
    BY DEF Github!ReadForCallback, Github!Ready
  <1>2. PICK q \in Github!Open : q = greq[r] /\ Flow(q) /\ OnRow(q)
    BY <1>1, OpenKnows
  <1>3. PICK i \in Installations : i = q.inst
    BY <1>2 DEF Github!Open
  <1>4. /\ inst[i] # NoRow => inst[i].user = q.user
        /\ greq' = [greq EXCEPT ![r].pc = "write", ![r].seen = inst[i]]
        /\ UNCHANGED <<inst, states, github, gnow, passed, goverlapped>>
    BY <1>2, <1>3 DEF Github!ReadForCallback, Github!FindIncludingRevoked, Github!MayProceed
  <1>5. PICK q2 : q2 = [q EXCEPT !.pc = "write", !.seen = inst[i]]
    OBVIOUS
  <1>6. inst[i] \in Github!Rows \cup {NoRow}
    BY GithubTypes
  <1>7. /\ q2 \in Github!Open /\ q2.op = "callback" /\ q2.pc = "write" /\ q2.inst = i /\ q2.state = q.state
        /\ q2.user = q.user /\ q2.seen = inst[i]
    BY <1>1, <1>2, <1>3, <1>5, <1>6 DEF Github!Open
  <1>8. /\ greq' = [greq EXCEPT ![r] = q2] /\ greq'[r] = q2
        /\ \A x \in Requests \ {r} : greq'[x] = greq[x]
        /\ greq' \in [Requests -> Github!Open \cup {Idle}]
    BY <1>2, <1>4, <1>5, <1>7, GithubTypes
  <1>9. Github!InstallationsTypeOK'
    BY <1>4, <1>8, GithubTypes DEF Github!InstallationsTypeOK
  <1>10. StatesKept
    BY <1>4 DEF StatesKept
  <1>11. Flow(q2)
    BY <1>1, <1>2, <1>3, <1>7 DEF Flow
  <1>12. OnRow(q2)
    BY <1>4, <1>7 DEF OnRow
  <1>13. Knows(r)'
    BY <1>4, <1>8, <1>11, <1>12 DEF Knows, Flow, OnRow, Github!IsActive
  <1>14. \A x \in Requests \ {r} : greq[x] # Idle /\ greq[x].inst = greq'[r].inst => greq'[r].inst \in goverlapped'
    BY <1>1, <1>2, <1>3, <1>4, <1>7, <1>8 DEF GithubInv
  <1>15. \A x \in States : Unused(x)'
    BY <1>4 DEF GithubInv, Unused
  <1>16. Github!StateOnce' /\ Github!GoneHasNoToken'
    BY <1>4 DEF GithubInv, Github!StateOnce, Github!GoneHasNoToken, Github!IsActive
  <1> QED
    BY <1>4, <1>8, <1>9, <1>10, <1>13, <1>14, <1>15, <1>16, GithubStep

\* A statement reaches a row that is there; while no other request is open for it, as it was found.
LEMMA RowFound ==
  ASSUME GithubInv, NEW r \in Requests, greq[r] # Idle,
         \/ greq[r].op \in {"disconnect", "generate", "repositories", "branches"}
         \/ greq[r].op = "callback" /\ greq[r].pc = "write" /\ greq[r].seen # NoRow
  PROVE  inst[greq[r].inst] \in Github!Rows /\ inst[greq[r].inst] # NoRow
  <1>1. OnRow(greq[r]) /\ greq[r].inst \in Installations
    BY OpenKnows
  <1>2. inst[greq[r].inst] # NoRow
    BY <1>1 DEF OnRow
  <1> QED
    BY <1>1, <1>2, GithubTypes

LEMMA WritesStep ==
  ASSUME GithubInv, NEW r \in Requests,
         \/ Github!CallbackReactivates(r) \/ Github!CallbackUpdates(r) \/ Github!CreateInstallation(r)
         \/ Github!CommitDisconnect(r) \/ Github!CommitToken(r) \/ Github!ListingRefused(r)
  PROVE  GithubInv'
  <1>1. /\ greq[r] # Idle /\ greq' = [greq EXCEPT ![r] = Idle]
        /\ UNCHANGED <<states, github, gnow, passed, goverlapped>>
    BY DEF Github!CallbackReactivates, Github!CallbackUpdates, Github!CreateInstallation, Github!CommitDisconnect,
           Github!CommitToken, Github!ListingRefused, Github!CallbackEnds, Github!End, Github!Ready
  <1>2. PICK q \in Github!Open : q = greq[r] /\ Flow(q) /\ OnRow(q)
    BY <1>1, OpenKnows
  <1>3. PICK i \in Installations : i = q.inst
    BY <1>2 DEF Github!Open
  <1>4. gnow \in 0..MaxGithubTime /\ q.user \in Owners
    BY <1>2, GithubTypes DEF Github!Open
  <1>5. CASE Github!CallbackReactivates(r)
    <2>1. q.op = "callback" /\ q.pc = "write" /\ q.seen # NoRow /\ Github!SetRow(i, Github!Reactivate(inst[i]))
      BY <1>2, <1>3, <1>5 DEF Github!CallbackReactivates, Github!Ready
    <2>2. inst[i] \in Github!Rows
      BY <1>1, <1>2, <1>3, <2>1, RowFound
    <2>3. PICK row : row = Github!Reactivate(inst[i])
      OBVIOUS
    <2>4. 0 \in Github!Times
      BY GithubFacts DEF Github!Times
    <2>5. row \in Github!Rows /\ row.user = inst[i].user /\ Github!IsActive(row)
      BY <1>4, <2>2, <2>3, <2>4, RowStatements
    <2> QED
      BY <1>1, <1>2, <1>3, <2>1, <2>3, <2>5, GithubWrite
  <1>6. CASE Github!CallbackUpdates(r)
    <2>1. /\ q.op = "callback" /\ q.pc = "write" /\ q.seen # NoRow /\ Github!IsActive(q.seen)
          /\ Github!SetRow(i, Github!UpdateToken(inst[i], q.seen.token))
      BY <1>2, <1>3, <1>6 DEF Github!CallbackUpdates, Github!Ready
    <2>2. inst[i] \in Github!Rows /\ q.seen \in Github!Rows
      BY <1>1, <1>2, <1>3, <2>1, RowFound DEF Github!Open
    <2>3. PICK t \in Github!Times : t = q.seen.token
      BY <2>2 DEF Github!Rows
    <2>4. PICK row : row = Github!UpdateToken(inst[i], t)
      OBVIOUS
    <2>5. row \in Github!Rows /\ row.user = inst[i].user /\ (Github!IsActive(row) <=> Github!IsActive(inst[i]))
      BY <1>4, <2>2, <2>3, <2>4, RowStatements
    <2>6. i \notin goverlapped => Github!IsActive(row)
      BY <1>2, <1>3, <2>1, <2>5 DEF OnRow
    <2> QED
      BY <1>1, <1>2, <1>3, <2>1, <2>3, <2>4, <2>5, <2>6, GithubWrite
  <1>7. CASE Github!CreateInstallation(r)
    <2>1. inst[i] = NoRow /\ Github!SetRow(i, Github!NewGitHubInstallation(q.user))
      BY <1>2, <1>3, <1>7 DEF Github!CreateInstallation
    <2>2. PICK row : row = Github!NewGitHubInstallation(q.user)
      OBVIOUS
    <2>3. row \in Github!Rows /\ Github!IsActive(row)
      BY <1>4, <2>2, GithubFacts DEF Github!NewGitHubInstallation, Github!Rows, Github!Times, Github!IsActive
    <2> QED
      BY <1>1, <1>2, <1>3, <2>1, <2>2, <2>3, GithubWrite
  <1>8. CASE Github!CommitDisconnect(r)
    <2>1. q.op = "disconnect" /\ Github!SetRow(i, Github!SoftDelete(inst[i]))
      BY <1>2, <1>3, <1>8 DEF Github!CommitDisconnect, Github!Ready
    <2>2. inst[i] \in Github!Rows
      BY <1>1, <1>2, <1>3, <2>1, RowFound
    <2>3. PICK row : row = Github!SoftDelete(inst[i])
      OBVIOUS
    <2>4. 0 \in Github!Times
      BY GithubFacts DEF Github!Times
    <2>5. row \in Github!Rows /\ row.user = inst[i].user /\ row.token = 0
      BY <1>4, <2>2, <2>3, <2>4, RowStatements
    <2> QED
      BY <1>1, <1>2, <1>3, <2>1, <2>3, <2>5, GithubWrite
  <1>9. CASE Github!CommitToken(r)
    <2>1. q.op = "generate" /\ Github!SetRow(i, Github!UpdateToken(inst[i], gnow + TokenLife))
      BY <1>2, <1>3, <1>9 DEF Github!CommitToken, Github!Ready
    <2>2. inst[i] \in Github!Rows
      BY <1>1, <1>2, <1>3, <2>1, RowFound
    <2>3. 0 \in Github!Times
      BY GithubFacts DEF Github!Times
    <2>4. gnow + TokenLife \in Github!Times
      BY <1>4, <2>2, <2>3, RowStatements
    <2>5. PICK row : row = Github!UpdateToken(inst[i], gnow + TokenLife)
      OBVIOUS
    <2>6. row \in Github!Rows /\ row.user = inst[i].user /\ (Github!IsActive(row) <=> Github!IsActive(inst[i]))
      BY <1>4, <2>2, <2>4, <2>5, RowStatements
    <2>7. i \notin goverlapped => Github!IsActive(row)
      BY <1>2, <1>3, <2>1, <2>6 DEF OnRow
    <2> QED
      BY <1>1, <1>2, <1>3, <2>1, <2>5, <2>6, <2>7, GithubWrite
  <1>10. CASE Github!ListingRefused(r)
    <2>1. q.op \in {"repositories", "branches"} /\ Github!SetRow(i, Github!MarkAsRevoked(inst[i]))
      BY <1>2, <1>3, <1>10 DEF Github!ListingRefused, Github!Ready
    <2>2. inst[i] \in Github!Rows
      BY <1>1, <1>2, <1>3, <2>1, RowFound
    <2>3. PICK row : row = Github!MarkAsRevoked(inst[i])
      OBVIOUS
    <2>4. 0 \in Github!Times
      BY GithubFacts DEF Github!Times
    <2>5. row \in Github!Rows /\ row.user = inst[i].user /\ row.token = 0
      BY <1>4, <2>2, <2>3, <2>4, RowStatements
    <2> QED
      BY <1>1, <1>2, <1>3, <2>1, <2>3, <2>5, GithubWrite
  <1> QED
    BY <1>5, <1>6, <1>7, <1>8, <1>9, <1>10

LEMMA BeginningsStep ==
  ASSUME GithubInv, NEW r \in Requests, NEW u \in Owners, NEW i \in Installations,
         \/ Github!ConnectGitHub(r, u, i) \/ Github!DisconnectGitHub(r, u, i)
         \/ Github!GenerateInstallationToken(r, u, i) \/ Github!ListRepositories(r, u, i)
         \/ Github!ListBranches(r, u, i)
  PROVE  GithubInv'
  <1>1. ASSUME Github!OwnedByCaller(u, i) PROVE inst[i] # NoRow /\ Github!IsActive(inst[i])
    BY <1>1 DEF Github!OwnedByCaller, Github!ExistsByInstallationID, Github!FindByInstallationID
  <1>2. CASE Github!ConnectGitHub(r, u, i)
    <2>1. Github!Begin(r, "connect", "write", u, i, NoRow, NoRow)
      BY <1>2 DEF Github!ConnectGitHub
    <2> QED
      BY <2>1, BeginsKnowing
  <1>3. CASE Github!DisconnectGitHub(r, u, i)
    <2>1. Github!Begin(r, "disconnect", "write", u, i, NoRow, NoRow) /\ Github!OwnedByCaller(u, i)
      BY <1>3 DEF Github!DisconnectGitHub
    <2> QED
      BY <1>1, <2>1, BeginsKnowing
  <1>4. CASE Github!GenerateInstallationToken(r, u, i)
    <2>1. Github!Begin(r, "generate", "write", u, i, NoRow, NoRow) /\ Github!OwnedByCaller(u, i)
      BY <1>4 DEF Github!GenerateInstallationToken
    <2> QED
      BY <1>1, <2>1, BeginsKnowing
  <1>5. CASE Github!ListRepositories(r, u, i)
    <2>1. Github!Begin(r, "repositories", "write", u, i, NoRow, NoRow) /\ Github!OwnedByCaller(u, i)
      BY <1>5 DEF Github!ListRepositories
    <2> QED
      BY <1>1, <2>1, BeginsKnowing
  <1>6. CASE Github!ListBranches(r, u, i)
    <2>1. Github!Begin(r, "branches", "write", u, i, NoRow, NoRow) /\ Github!OwnedByCaller(u, i)
      BY <1>6 DEF Github!ListBranches
    <2> QED
      BY <1>1, <2>1, BeginsKnowing
  <1> QED
    BY <1>2, <1>3, <1>4, <1>5, <1>6

LEMMA UseCaseStep ==
  ASSUME GithubInv, NEW r \in Requests, Github!UseCase(r)
  PROVE  GithubInv'
  <1>1. ASSUME NEW s \in States, NEW i \in Installations, Github!InstallationCallback(r, s, i)
        PROVE  GithubInv'
    <2>1. states[s] # NoRow /\ Github!Begin(r, "callback", "state", states[s].user, i, s, NoRow)
      BY <1>1 DEF Github!InstallationCallback, Github!ValidateState
    <2>2. states[s].user \in Owners
      BY <2>1, GithubTypes DEF Github!OAuthStates
    <2> QED
      BY <2>1, <2>2, BeginsKnowing
  <1>2. ASSUME \/ Github!StateAlreadyConsumed(r) \/ Github!InstallationExists(r)
               \/ Github!TokenRefused(r) \/ Github!RequestEnds(r)
        PROVE  GithubInv'
    <2>1. greq' = [greq EXCEPT ![r] = Idle] /\ UNCHANGED <<inst, states, github, gnow, passed, goverlapped>>
      BY <1>2 DEF Github!StateAlreadyConsumed, Github!InstallationExists, Github!TokenRefused,
                  Github!RequestEnds, Github!End
    <2> QED
      BY <2>1, GithubEnd, GithubTypes
  <1> QED
    BY <1>1, <1>2, ConsumeStep, ReadForCallbackStep, WritesStep, BeginningsStep DEF Github!UseCase

\* Nobody's request: GitHub, the clock, a new OAuth state.
LEMMA QuietGithub ==
  ASSUME GithubInv, Github!InstallationsTypeOK', StatesKept, UNCHANGED <<inst, greq, passed, goverlapped>>,
         \A s \in States : Unused(s)'
  PROVE  GithubInv'
  <1>1. ASSUME NEW r \in Requests PROVE Knows(r)'
    <2>1. greq'[r] = greq[r] /\ goverlapped \subseteq goverlapped' /\ \A i \in Installations : inst'[i] = inst[i]
      OBVIOUS
    <2> QED
      BY <2>1, StillKnows DEF GithubInv
  <1> QED
    BY <1>1 DEF GithubInv, Github!StateOnce, Github!GoneHasNoToken, Github!IsActive

LEMMA SurroundingsStep ==
  ASSUME GithubInv,
         \/ \E i \in Installations : Github!Suspend(i) \/ Github!Unsuspend(i) \/ Github!Uninstall(i)
         \/ Github!Tick
         \/ UNCHANGED gvars
  PROVE  GithubInv'
  <1>1. UNCHANGED <<inst, states, greq, passed, goverlapped>>
    BY DEF Github!Suspend, Github!Unsuspend, Github!Uninstall, Github!Tick, gvars
  <1>2. github' \in [Installations -> {"installed", "suspended", "uninstalled"}] /\ gnow' \in 0..MaxGithubTime
    BY GithubTypes, GithubFacts DEF Github!Suspend, Github!Unsuspend, Github!Uninstall, Github!Tick, gvars
  <1>3. Github!InstallationsTypeOK'
    BY <1>1, <1>2, GithubTypes DEF Github!InstallationsTypeOK
  <1>4. StatesKept
    BY <1>1 DEF StatesKept
  <1>5. \A s \in States : Unused(s)'
    BY <1>1 DEF GithubInv, Unused
  <1> QED
    BY <1>1, <1>3, <1>4, <1>5, QuietGithub

LEMMA StartStep ==
  ASSUME GithubInv, NEW u \in Owners, NEW s \in States, Github!StartInstallation(u, s)
  PROVE  GithubInv'
  <1>1. PICK row : row = [user |-> u, expires |-> gnow + StateLife, consumed |-> FALSE, inst |-> NoRow]
    OBVIOUS
  <1>2. states[s] = NoRow /\ states' = [states EXCEPT ![s] = row] /\ UNCHANGED <<inst, github, greq, gnow, passed, goverlapped>>
    BY <1>1 DEF Github!StartInstallation
  <1>3. row \in Github!OAuthStates
    BY <1>1, GithubFacts, GithubTypes DEF Github!OAuthStates, Github!Times
  <1>4. states' \in [States -> Github!OAuthStates \cup {NoRow}] /\ \A x \in States : x # s => states'[x] = states[x]
    BY <1>2, <1>3, GithubTypes
  <1>5. Github!InstallationsTypeOK'
    BY <1>2, <1>4, GithubTypes DEF Github!InstallationsTypeOK
  <1>6. StatesKept
    BY <1>2, <1>4 DEF StatesKept
  <1>7. \A x \in States : Unused(x)'
    BY <1>2, <1>4 DEF GithubInv, Unused
  <1> QED
    BY <1>2, <1>5, <1>6, <1>7, QuietGithub

LEMMA GithubInvStep == GithubInv /\ [Github!Next]_gvars => GithubInv'
  BY StartStep, UseCaseStep, SurroundingsStep DEF Github!Next

LEMMA GithubInvInit == Github!Init => GithubInv
  BY GithubFacts DEF Github!Init, GithubInv, Github!InstallationsTypeOK, Knows, Unused, Github!StateOnce,
                     Github!GoneHasNoToken

\* What a step may do to a row: it keeps its owner, and returns only through its owner's state.
OwnerReturns(i) ==
  inst[i] # NoRow =>
    /\ inst'[i] # NoRow /\ inst'[i].user = inst[i].user
    /\ ~ Github!IsActive(inst[i]) /\ Github!IsActive(inst'[i]) =>
         \E s \in States : /\ states[s] # NoRow /\ states[s].user = inst[i].user
                           /\ states[s].consumed /\ states[s].inst = i

LEMMA WritesKeepOwner ==
  ASSUME GithubInv, NEW r \in Requests, NEW i \in Installations, inst[i] # NoRow, inst'[i] # inst[i],
         \/ Github!CallbackReactivates(r) \/ Github!CallbackUpdates(r) \/ Github!CreateInstallation(r)
         \/ Github!CommitDisconnect(r) \/ Github!CommitToken(r) \/ Github!ListingRefused(r)
  PROVE  OwnerReturns(i)
  <1>1. greq[r] # Idle
    BY DEF Github!CallbackReactivates, Github!CallbackUpdates, Github!CreateInstallation, Github!CommitDisconnect,
           Github!CommitToken, Github!ListingRefused, Github!Ready
  <1>2. PICK q \in Github!Open : q = greq[r] /\ Flow(q) /\ OnRow(q)
    BY <1>1, OpenKnows
  <1>3. PICK row : Github!SetRow(q.inst, row) /\ row = inst'[i] /\ i = q.inst
    <2>1. PICK row : Github!SetRow(q.inst, row)
      BY <1>2 DEF Github!CallbackReactivates, Github!CallbackUpdates, Github!CreateInstallation, Github!CommitDisconnect,
           Github!CommitToken, Github!ListingRefused
    <2>2. inst' = [inst EXCEPT ![q.inst] = row]
      BY <2>1 DEF Github!SetRow
    <2> QED
      BY <2>1, <2>2, GithubTypes
  <1>4. inst[i] \in Github!Rows /\ gnow \in 0..MaxGithubTime /\ 0 \in Github!Times
    BY GithubTypes, GithubFacts DEF Github!Times
  <1>5. inst' = [inst EXCEPT ![i] = inst'[i]]
    BY <1>3 DEF Github!SetRow
  <1>6. CASE Github!CallbackReactivates(r)
    <2>1. inst' = [inst EXCEPT ![i] = Github!Reactivate(inst[i])] /\ q.op = "callback" /\ q.pc = "write" /\ q.seen # NoRow
      BY <1>2, <1>3, <1>6 DEF Github!CallbackReactivates, Github!Ready, Github!SetRow
    <2>2. PICK new : new = Github!Reactivate(inst[i])
      OBVIOUS
    <2>3. new \in Github!Rows /\ new.user = inst[i].user
      BY <1>4, <2>2, RowStatements
    <2>4. inst'[i] = new
      BY <2>1, <2>2, GithubTypes
    <2>5. /\ q.state \in States /\ states[q.state] # NoRow /\ states[q.state].user = q.user
          /\ states[q.state].consumed /\ states[q.state].inst = i /\ inst[i].user = q.user
      BY <1>2, <1>3, <2>1 DEF Flow, OnRow
    <2> QED
      BY <2>3, <2>4, <2>5, GithubFacts DEF OwnerReturns
  <1>7. CASE Github!CallbackUpdates(r)
    <2>1. /\ inst' = [inst EXCEPT ![i] = Github!UpdateToken(inst[i], q.seen.token)]
          /\ q.seen # NoRow
      BY <1>2, <1>3, <1>7 DEF Github!CallbackUpdates, Github!SetRow
    <2>2. q.seen.token \in Github!Times
      BY <1>2, <2>1 DEF Github!Open, Github!Rows
    <2>3. PICK new : new = Github!UpdateToken(inst[i], q.seen.token)
      OBVIOUS
    <2>4. new \in Github!Rows /\ new.user = inst[i].user /\ (Github!IsActive(new) <=> Github!IsActive(inst[i]))
      BY <1>4, <2>2, <2>3, RowStatements
    <2>5. inst'[i] = new
      BY <2>1, <2>3, GithubTypes
    <2> QED
      BY <2>4, <2>5, GithubFacts DEF OwnerReturns, Github!IsActive
  <1>8. CASE Github!CreateInstallation(r)
    BY <1>2, <1>3, <1>8 DEF Github!CreateInstallation
  <1>9. CASE Github!CommitDisconnect(r)
    <2>1. inst' = [inst EXCEPT ![i] = Github!SoftDelete(inst[i])]
      BY <1>2, <1>3, <1>9 DEF Github!CommitDisconnect, Github!SetRow
    <2>2. PICK new : new = Github!SoftDelete(inst[i])
      OBVIOUS
    <2>3. new \in Github!Rows /\ new.user = inst[i].user /\ ~ Github!IsActive(new)
      BY <1>4, <2>2, RowStatements
    <2>4. inst'[i] = new
      BY <2>1, <2>2, GithubTypes
    <2> QED
      BY <2>3, <2>4, GithubFacts DEF OwnerReturns, Github!IsActive
  <1>10. CASE Github!CommitToken(r)
    <2>1. inst' = [inst EXCEPT ![i] = Github!UpdateToken(inst[i], gnow + TokenLife)]
      BY <1>2, <1>3, <1>10 DEF Github!CommitToken, Github!SetRow
    <2>2. gnow + TokenLife \in Github!Times
      BY <1>4, RowStatements
    <2>3. PICK new : new = Github!UpdateToken(inst[i], gnow + TokenLife)
      OBVIOUS
    <2>4. new \in Github!Rows /\ new.user = inst[i].user /\ (Github!IsActive(new) <=> Github!IsActive(inst[i]))
      BY <1>4, <2>2, <2>3, RowStatements
    <2>5. inst'[i] = new
      BY <2>1, <2>3, GithubTypes
    <2> QED
      BY <2>4, <2>5, GithubFacts DEF OwnerReturns, Github!IsActive
  <1>11. CASE Github!ListingRefused(r)
    <2>1. inst' = [inst EXCEPT ![i] = Github!MarkAsRevoked(inst[i])]
      BY <1>2, <1>3, <1>11 DEF Github!ListingRefused, Github!SetRow
    <2>2. PICK new : new = Github!MarkAsRevoked(inst[i])
      OBVIOUS
    <2>3. new \in Github!Rows /\ new.user = inst[i].user /\ ~ Github!IsActive(new)
      BY <1>4, <2>2, RowStatements
    <2>4. inst'[i] = new
      BY <2>1, <2>2, GithubTypes
    <2> QED
      BY <2>3, <2>4, GithubFacts DEF OwnerReturns, Github!IsActive
  <1> QED
    BY <1>6, <1>7, <1>8, <1>9, <1>10, <1>11

LEMMA OwnerReturnsStep == GithubInv /\ [Github!Next]_gvars => \A i \in Installations : OwnerReturns(i)
  <1> SUFFICES ASSUME GithubInv, [Github!Next]_gvars, NEW i \in Installations PROVE OwnerReturns(i)
    OBVIOUS
  <1>1. CASE inst'[i] = inst[i]
    BY <1>1 DEF OwnerReturns, Github!IsActive
  <1>2. CASE inst'[i] # inst[i]
    <2>1. PICK r \in Requests :
            \/ Github!CallbackReactivates(r) \/ Github!CallbackUpdates(r) \/ Github!CreateInstallation(r)
            \/ Github!CommitDisconnect(r) \/ Github!CommitToken(r) \/ Github!ListingRefused(r)
      BY <1>2 DEF Github!Next, Github!UseCase, gvars, Github!StartInstallation, Github!InstallationCallback, Github!ConsumeState,
                  Github!StateAlreadyConsumed, Github!ReadForCallback, Github!InstallationExists, Github!ConnectGitHub,
                  Github!DisconnectGitHub, Github!GenerateInstallationToken, Github!TokenRefused, Github!ListRepositories,
                  Github!ListBranches, Github!RequestEnds, Github!Suspend, Github!Unsuspend, Github!Uninstall,
                  Github!Tick, Github!Begin
    <2> QED
      BY <1>2, <2>1, WritesKeepOwner DEF OwnerReturns
  <1> QED
    BY <1>1, <1>2

LEMMA GithubInvHolds == MCSpec => []GithubInv
  <1>1. MCInit => Github!Init
    BY DEF MCInit
  <1>2. [MCNext]_allvars => [Github!Next]_gvars
    BY DEF MCNext, allvars, gvars
  <1> QED
    BY <1>1, <1>2, GithubInvInit, GithubInvStep, PTL DEF MCSpec

\* Of the callbacks with one OAuth state one gets past its consumption; a row that is gone caches no
\* token unless requests overlapped; and an installation keeps its owner and returns only through a
\* callback whose state was issued to this owner (installation_callback.go, githubInstallationService).
THEOREM InstallationSoundHolds == MCSpec => InstallationSound
  <1>1. GithubInv => Github!StateOnce /\ Github!GoneHasNoToken
    BY DEF GithubInv
  <1>2. [MCNext]_allvars => [Github!Next]_gvars
    BY DEF MCNext, allvars, gvars
  <1>3. (\A i \in Installations : OwnerReturns(i)) =>
          \A i \in Installations :
            inst[i] # NoRow =>
              /\ inst'[i] # NoRow
              /\ inst'[i].user = inst[i].user
              /\ ~Github!IsActive(inst[i]) /\ Github!IsActive(inst'[i]) =>
                   \E s \in States : /\ states[s] # NoRow
                                     /\ states[s].user = inst[i].user
                                     /\ states[s].consumed
                                     /\ states[s].inst = i
    BY DEF OwnerReturns
  <1> QED
    BY <1>1, <1>2, <1>3, GithubInvHolds, OwnerReturnsStep, PTL
    DEF MCSpec, InstallationSound, Github!InstallationSound, Github!OnlyOwnerReactivates

\* Rows, OAuth states and open requests of the installations keep their shape.
THEOREM InstallationsTypeCorrect == MCSpec => []Github!InstallationsTypeOK
  <1>1. GithubInv => Github!InstallationsTypeOK
    BY DEF GithubInv
  <1> QED
    BY <1>1, GithubInvHolds, PTL

-----------------------------------------------------------------------------
(* The requests to the API.  What the invariants need of a route is a      *)
(* matter of the order of its steps.                                       *)

Places(h) == 1..Len(h.steps)
Setting == {"commit", "make", "delete", "trigger"}
Refusing(d) == CASE d = "session" -> {"session"} [] d = "form" -> {"form"} [] OTHER -> {"allowed", "hidden", "begin"}
Makes(h) == h.does \in {"create", "start"}
Looks(h, kinds) == \E j \in Places(h) : h.steps[j] \in kinds

\* What refuses a request with a defect comes before whatever it changes.
RefusedFirst(h) ==
  \A i \in Places(h) : h.steps[i] \in Setting \cup {"mount"} =>
    \A d \in {"session", "form", "allowed"} :
      Looks(h, Refusing(d)) => \E j \in 1..(i - 1) : h.steps[j] \in Refusing(d)
\* After its change a handler reads, mounts, mails or saves, and changes nothing else.
QuietAfterChange(h) ==
  \A i \in Places(h) : \A k \in (i + 1)..Len(h.steps) : h.steps[i] \in Setting =>
    /\ h.steps[k] \in {"find", "allowed", "mount", "mail", "save"}
    /\ h.steps[k] \in {"find", "allowed"} => Looks(h, {"find"})
\* A handler that changes something has the steps for it, and the check right before its commit.
GuardFits(h) ==
  /\ Makes(h) => h.guard \in {"locked", "unique", "key", "checked", "recorded"}
  /\ h.does # "none" => Looks(h, Setting)
  /\ \A i \in Places(h) :
       /\ h.steps[i] = "delete" => ~ Makes(h)
       /\ h.steps[i] \in {"make", "mount"} => Makes(h) /\ h.guard = "checked"
       /\ h.steps[i] = "mount" => \E j \in 1..(i - 1) : h.steps[j] = "make"
       /\ h.steps[i] = "trigger" => Makes(h) /\ h.guard = "recorded"
       /\ h.steps[i] = "commit" /\ h.guard \in {"locked", "checked"} =>
            i > 1 /\ h.steps[i - 1] \in {"begin", "open"}

WellFormed(h) ==
  /\ h.mapper \in {"container", "project", "user", "none"} /\ Len(h.steps) \in Nat
  /\ RefusedFirst(h) /\ QuietAfterChange(h) /\ GuardFits(h)

\* A handler that reads and asks, and changes nothing.
ReadsOnly(h) ==
  /\ Len(h.steps) \in Nat /\ h.does = "none" /\ h.guard = "none" /\ h.mapper \in {"container", "project", "user", "none"}
  /\ \A i \in Places(h) : h.steps[i] \notin Setting \cup {"mount"}

LEMMA ReadersAreWellFormed ==
  ASSUME NEW h, ReadsOnly(h)
  PROVE  WellFormed(h)
  <1>1. RefusedFirst(h) /\ QuietAfterChange(h)
    BY DEF ReadsOnly, RefusedFirst, QuietAfterChange
  <1>2. GuardFits(h)
    BY DEF ReadsOnly, GuardFits, Makes, Setting
  <1> QED
    BY <1>1, <1>2 DEF ReadsOnly, WellFormed

LEMMA ReadersReadOnly ==
  ASSUME NEW h \in {
         Http!GetContainer, Http!ListContainers, Http!ListNetworks, Http!ListEnvVars, Http!ListSecrets,
         Http!ListBuildVars, Http!ListVolumes, Http!CheckFQDN, Http!CheckContainerName,
         Http!GetNodePort, Http!CreateBuildLogToken, Http!GetBuildLogHistory, Http!GetTemplates,
         Http!GetTemplate, Http!GetProject, Http!ListProjects, Http!CheckProjectName,
         Http!GetProjectStatus, Http!RefreshProjectStatus, Http!GetProjectHealth, Http!GetVolumes,
         Http!CheckVolumeName, Http!CreateProjectLogToken, Http!GetProjectLogHistory, Http!Login,
         Http!GetCurrentUser, Http!GetUserByID, Http!GetInstallations, Http!ListRepositories,
         Http!ListBranches, Http!GetPublicSettings, Http!Health}
  PROVE  ReadsOnly(h)
  <1>1. ReadsOnly(Http!GetContainer)
    BY DEF Http!GetContainer, Http!GetContainerUseCase, Http!Handler, Http!Private, ReadsOnly, Setting,
           Places
  <1>2. ReadsOnly(Http!ListContainers)
    BY DEF Http!ListContainers, Http!Handler, Http!ListContainersUseCase, Http!Private, ReadsOnly,
           Setting, Places
  <1>3. ReadsOnly(Http!ListNetworks)
    BY DEF Http!ListNetworks, Http!ContainerView, Http!GetContainerUseCase, Http!Handler, Http!Private,
           ReadsOnly, Setting, Places
  <1>4. ReadsOnly(Http!ListEnvVars)
    BY DEF Http!ListEnvVars, Http!ContainerView, Http!GetContainerUseCase, Http!Handler, Http!Private,
           ReadsOnly, Setting, Places
  <1>5. ReadsOnly(Http!ListSecrets)
    BY DEF Http!ListSecrets, Http!ContainerView, Http!GetContainerUseCase, Http!Handler, Http!Private,
           ReadsOnly, Setting, Places
  <1>6. ReadsOnly(Http!ListBuildVars)
    BY DEF Http!ListBuildVars, Http!ContainerView, Http!GetContainerUseCase, Http!Handler, Http!Private,
           ReadsOnly, Setting, Places
  <1>7. ReadsOnly(Http!ListVolumes)
    BY DEF Http!ListVolumes, Http!ContainerView, Http!GetContainerUseCase, Http!Handler, Http!Private,
           ReadsOnly, Setting, Places
  <1>8. ReadsOnly(Http!CheckFQDN)
    BY DEF Http!CheckFQDN, Http!CheckFQDNUseCase, Http!Handler, Http!Private, ReadsOnly, Setting, Places
  <1>9. ReadsOnly(Http!CheckContainerName)
    BY DEF Http!CheckContainerName, Http!CheckContainerNameUseCase, Http!Handler, Http!Private,
           ReadsOnly, Setting, Places
  <1>10. ReadsOnly(Http!GetNodePort)
    BY DEF Http!GetNodePort, Http!Handler, Http!Private, ReadsOnly, Setting, Places
  <1>11. ReadsOnly(Http!CreateBuildLogToken)
    BY DEF Http!CreateBuildLogToken, Http!CreateBuildLogTokenUseCase, Http!Handler, Http!Private,
           ReadsOnly, Setting, Places
  <1>12. ReadsOnly(Http!GetBuildLogHistory)
    BY DEF Http!GetBuildLogHistory, Http!BuildLogHistoryUseCase, Http!Handler, Http!Private, ReadsOnly,
           Setting, Places
  <1>13. ReadsOnly(Http!GetTemplates)
    BY DEF Http!GetTemplates, Http!GetTemplatesUseCase, Http!Handler, ReadsOnly, Setting, Places
  <1>14. ReadsOnly(Http!GetTemplate)
    BY DEF Http!GetTemplate, Http!GetTemplateUseCase, Http!Handler, ReadsOnly, Setting, Places
  <1>15. ReadsOnly(Http!GetProject)
    BY DEF Http!GetProject, Http!GetProjectBySlugUseCase, Http!Handler, Http!Private, ReadsOnly,
           Setting, Places
  <1>16. ReadsOnly(Http!ListProjects)
    BY DEF Http!ListProjects, Http!Handler, Http!ListProjectsUseCase, Http!Private, ReadsOnly, Setting,
           Places
  <1>17. ReadsOnly(Http!CheckProjectName)
    BY DEF Http!CheckProjectName, Http!CheckProjectNameUseCase, Http!Handler, Http!Private, ReadsOnly,
           Setting, Places
  <1>18. ReadsOnly(Http!GetProjectStatus)
    BY DEF Http!GetProjectStatus, Http!Handler, Http!Private, Http!ProjectRoute, ReadsOnly, Setting,
           Places
  <1>19. ReadsOnly(Http!RefreshProjectStatus)
    BY DEF Http!RefreshProjectStatus, Http!Handler, Http!Private, Http!ProjectRoute, ReadsOnly, Setting,
           Places
  <1>20. ReadsOnly(Http!GetProjectHealth)
    BY DEF Http!GetProjectHealth, Http!Handler, Http!PodStatusUseCase, Http!Private, Http!ProjectRoute,
           ReadsOnly, Setting, Places
  <1>21. ReadsOnly(Http!GetVolumes)
    BY DEF Http!GetVolumes, Http!GetVolumesUseCase, Http!Handler, Http!Private, ReadsOnly, Setting,
           Places
  <1>22. ReadsOnly(Http!CheckVolumeName)
    BY DEF Http!CheckVolumeName, Http!CheckVolumeNameUseCase, Http!Handler, Http!Private,
           Http!ProjectRoute, ReadsOnly, Setting, Places
  <1>23. ReadsOnly(Http!CreateProjectLogToken)
    BY DEF Http!CreateProjectLogToken, Http!Handler, Http!Private, Http!ProjectLogTokenUseCase,
           ReadsOnly, Setting, Places
  <1>24. ReadsOnly(Http!GetProjectLogHistory)
    BY DEF Http!GetProjectLogHistory, Http!Handler, Http!Private, Http!ProjectLogHistoryUseCase,
           ReadsOnly, Setting, Places
  <1>25. ReadsOnly(Http!Login)
    BY DEF Http!Login, Http!Handler, ReadsOnly, Setting, Places
  <1>26. ReadsOnly(Http!GetCurrentUser)
    BY DEF Http!GetCurrentUser, Http!GetUserUseCase, Http!Handler, Http!Private, ReadsOnly, Setting,
           Places
  <1>27. ReadsOnly(Http!GetUserByID)
    BY DEF Http!GetUserByID, Http!GetUserUseCase, Http!Handler, Http!Private, ReadsOnly, Setting, Places
  <1>28. ReadsOnly(Http!GetInstallations)
    BY DEF Http!GetInstallations, Http!GetInstallationsUseCase, Http!Handler, Http!Private, ReadsOnly,
           Setting, Places
  <1>29. ReadsOnly(Http!ListRepositories)
    BY DEF Http!ListRepositories, Http!Handler, Http!ListRepositoriesUseCase, Http!Private, ReadsOnly,
           Setting, Places
  <1>30. ReadsOnly(Http!ListBranches)
    BY DEF Http!ListBranches, Http!Handler, Http!ListBranchesUseCase, Http!Private, ReadsOnly, Setting,
           Places
  <1>31. ReadsOnly(Http!GetPublicSettings)
    BY DEF Http!GetPublicSettings, Http!Handler, ReadsOnly, Setting, Places
  <1>32. ReadsOnly(Http!Health)
    BY DEF Http!Health, Http!Handler, ReadsOnly, Setting, Places
  <1> QED
    BY <1>1, <1>2, <1>3, <1>4, <1>5, <1>6, <1>7, <1>8, <1>9, <1>10, <1>11, <1>12, <1>13, <1>14, <1>15,
       <1>16, <1>17, <1>18, <1>19, <1>20, <1>21, <1>22, <1>23, <1>24, <1>25, <1>26, <1>27, <1>28, <1>29,
       <1>30, <1>31, <1>32

LEMMA RoutesAreWellFormed == \A route \in Http!Setup : WellFormed(route)
  <1>1. ASSUME NEW does \in {"set", "remove", "create"}, NEW guard \in {"none", "key", "checked"},
              does = "create" <=> guard # "none" PROVE WellFormed(Http!ContainerRoute(Http!ContainerChange, does, guard))
    <2> DEFINE h == Http!ContainerRoute(Http!ContainerChange, does, guard)
    <2>1. /\ Len(h.steps) = 7 /\ h.steps[1] = "session" /\ h.steps[2] = "find" /\ h.steps[3] = "form"
          /\ h.steps[4] = "begin" /\ h.steps[5] = "commit" /\ h.steps[6] = "find"
          /\ h.steps[7] = "allowed"
          /\ h.does = does /\ h.guard = guard /\ h.mapper = "container"
      BY <1>1 DEF Http!ContainerRoute, Http!Handler, Http!Private, Http!ContainerChange,
             Http!GetContainerUseCase
    <2> HIDE DEF h
    <2>2. WellFormed(h)
      BY <2>1, <1>1
      DEF WellFormed, RefusedFirst, QuietAfterChange, GuardFits, Looks, Makes, Refusing, Setting, Places
    <2> QED
      BY <2>2 DEF h
  <1>2. ASSUME NEW h \in Http!UpdateNetwork PROVE WellFormed(h)
    <2>1. /\ Len(h.steps) = 8 /\ h.steps[1] = "session" /\ h.steps[2] = "form" /\ h.steps[3] = "find"
          /\ h.steps[4] = "form" /\ h.steps[5] = "begin" /\ h.steps[6] = "commit"
          /\ h.steps[7] = "find" /\ h.steps[8] = "allowed"
          /\ h.does \in {"set", "remove"} /\ h.guard = "none" /\ h.mapper = "container"
      BY <1>2 DEF Http!UpdateNetwork, Http!Handler, Http!Private, Http!ContainerChange,
             Http!GetContainerUseCase
    <2> QED
      BY <2>1, <1>2
      DEF WellFormed, RefusedFirst, QuietAfterChange, GuardFits, Looks, Makes, Refusing, Setting, Places
  <1>3. WellFormed(Http!CreateContainer)
    <2> DEFINE h == Http!CreateContainer
    <2>1. /\ Len(h.steps) = 5 /\ h.steps[1] = "session" /\ h.steps[2] = "project"
          /\ h.steps[3] = "form" /\ h.steps[4] = "begin" /\ h.steps[5] = "commit"
          /\ h.does = "create" /\ h.guard = "checked" /\ h.mapper = "container"
      BY DEF Http!CreateContainer, Http!ContainerChange, Http!Handler, Http!Private
    <2> HIDE DEF h
    <2>2. WellFormed(h)
      BY <2>1
      DEF WellFormed, RefusedFirst, QuietAfterChange, GuardFits, Looks, Makes, Refusing, Setting, Places
    <2> QED
      BY <2>2 DEF h
  <1>4. WellFormed(Http!DeleteContainer)
    <2> DEFINE h == Http!DeleteContainer
    <2>1. /\ Len(h.steps) = 4 /\ h.steps[1] = "session" /\ h.steps[2] = "find" /\ h.steps[3] = "begin"
          /\ h.steps[4] = "commit"
          /\ h.does = "end" /\ h.guard = "none" /\ h.mapper = "container"
      BY DEF Http!DeleteContainer, Http!ContainerChange, Http!Handler, Http!Private
    <2> HIDE DEF h
    <2>2. WellFormed(h)
      BY <2>1
      DEF WellFormed, RefusedFirst, QuietAfterChange, GuardFits, Looks, Makes, Refusing, Setting, Places
    <2> QED
      BY <2>2 DEF h
  <1>5. WellFormed(Http!AddContainerVolume)
    <2> DEFINE h == Http!AddContainerVolume
    <2>1. /\ Len(h.steps) = 8 /\ h.steps[1] = "session" /\ h.steps[2] = "find"
          /\ h.steps[3] = "allowed" /\ h.steps[4] = "form" /\ h.steps[5] = "make"
          /\ h.steps[6] = "mount" /\ h.steps[7] = "find" /\ h.steps[8] = "allowed"
          /\ h.does = "create" /\ h.guard = "checked" /\ h.mapper = "container"
      BY DEF Http!AddContainerVolume, Http!GetContainerUseCase, Http!Handler, Http!Private
    <2> HIDE DEF h
    <2>2. WellFormed(h)
      BY <2>1
      DEF WellFormed, RefusedFirst, QuietAfterChange, GuardFits, Looks, Makes, Refusing, Setting, Places
    <2> QED
      BY <2>2 DEF h
  <1>6. WellFormed(Http!DeleteContainerVolume)
    <2> DEFINE h == Http!DeleteContainerVolume
    <2>1. /\ Len(h.steps) = 8 /\ h.steps[1] = "session" /\ h.steps[2] = "form" /\ h.steps[3] = "find"
          /\ h.steps[4] = "begin" /\ h.steps[5] = "unmount" /\ h.steps[6] = "delete"
          /\ h.steps[7] = "find" /\ h.steps[8] = "allowed"
          /\ h.does = "remove" /\ h.guard = "none" /\ h.mapper = "container"
      BY DEF Http!DeleteContainerVolume, Http!GetContainerUseCase, Http!Handler, Http!Private
    <2> HIDE DEF h
    <2>2. WellFormed(h)
      BY <2>1
      DEF WellFormed, RefusedFirst, QuietAfterChange, GuardFits, Looks, Makes, Refusing, Setting, Places
    <2> QED
      BY <2>2 DEF h
  <1>7. WellFormed(Http!CreateNodePort)
    <2> DEFINE h == Http!CreateNodePort
    <2>1. /\ Len(h.steps) = 7 /\ h.steps[1] = "session" /\ h.steps[2] = "find"
          /\ h.steps[3] = "allowed" /\ h.steps[4] = "unused" /\ h.steps[5] = "read"
          /\ h.steps[6] = "trigger" /\ h.steps[7] = "save"
          /\ h.does = "start" /\ h.guard = "recorded" /\ h.mapper = "container"
      BY DEF Http!CreateNodePort, Http!Handler, Http!Private
    <2> HIDE DEF h
    <2>2. WellFormed(h)
      BY <2>1
      DEF WellFormed, RefusedFirst, QuietAfterChange, GuardFits, Looks, Makes, Refusing, Setting, Places
    <2> QED
      BY <2>2 DEF h
  <1>8. WellFormed(Http!CreateProject)
    <2> DEFINE h == Http!CreateProject
    <2>1. /\ Len(h.steps) = 7 /\ h.steps[1] = "session" /\ h.steps[2] = "form" /\ h.steps[3] = "read"
          /\ h.steps[4] = "read" /\ h.steps[5] = "read" /\ h.steps[6] = "open"
          /\ h.steps[7] = "commit"
          /\ h.does = "create" /\ h.guard = "checked" /\ h.mapper = "project"
      BY DEF Http!CreateProject, Http!Handler, Http!Private, Http!Transaction
    <2> HIDE DEF h
    <2>2. WellFormed(h)
      BY <2>1
      DEF WellFormed, RefusedFirst, QuietAfterChange, GuardFits, Looks, Makes, Refusing, Setting, Places
    <2> QED
      BY <2>2 DEF h
  <1>9. WellFormed(Http!UpdateProject)
    <2> DEFINE h == Http!UpdateProject
    <2>1. /\ Len(h.steps) = 8 /\ h.steps[1] = "session" /\ h.steps[2] = "form"
          /\ h.steps[3] = "project" /\ h.steps[4] = "hidden" /\ h.steps[5] = "form"
          /\ h.steps[6] = "read" /\ h.steps[7] = "open" /\ h.steps[8] = "commit"
          /\ h.does = "set" /\ h.guard = "none" /\ h.mapper = "project"
      BY DEF Http!UpdateProject, Http!Handler, Http!Private, Http!ProjectRoute, Http!Transaction
    <2> HIDE DEF h
    <2>2. WellFormed(h)
      BY <2>1
      DEF WellFormed, RefusedFirst, QuietAfterChange, GuardFits, Looks, Makes, Refusing, Setting, Places
    <2> QED
      BY <2>2 DEF h
  <1>10. WellFormed(Http!DeleteProject)
    <2> DEFINE h == Http!DeleteProject
    <2>1. /\ Len(h.steps) = 5 /\ h.steps[1] = "session" /\ h.steps[2] = "project"
          /\ h.steps[3] = "hidden" /\ h.steps[4] = "open" /\ h.steps[5] = "commit"
          /\ h.does = "end" /\ h.guard = "none" /\ h.mapper = "project"
      BY DEF Http!DeleteProject, Http!Handler, Http!Private, Http!Transaction
    <2> HIDE DEF h
    <2>2. WellFormed(h)
      BY <2>1
      DEF WellFormed, RefusedFirst, QuietAfterChange, GuardFits, Looks, Makes, Refusing, Setting, Places
    <2> QED
      BY <2>2 DEF h
  <1>11. WellFormed(Http!DeployProject)
    <2> DEFINE h == Http!DeployProject
    <2>1. /\ Len(h.steps) = 6 /\ h.steps[1] = "session" /\ h.steps[2] = "form"
          /\ h.steps[3] = "project" /\ h.steps[4] = "hidden" /\ h.steps[5] = "open"
          /\ h.steps[6] = "commit"
          /\ h.does = "start" /\ h.guard = "locked" /\ h.mapper = "project"
      BY DEF Http!DeployProject, Http!DeployProjectUseCase, Http!Handler, Http!Private,
             Http!ProjectRoute, Http!Transaction
    <2> HIDE DEF h
    <2>2. WellFormed(h)
      BY <2>1
      DEF WellFormed, RefusedFirst, QuietAfterChange, GuardFits, Looks, Makes, Refusing, Setting, Places
    <2> QED
      BY <2>2 DEF h
  <1>12. WellFormed(Http!AddVolume)
    <2> DEFINE h == Http!AddVolume
    <2>1. /\ Len(h.steps) = 5 /\ h.steps[1] = "session" /\ h.steps[2] = "form"
          /\ h.steps[3] = "hidden" /\ h.steps[4] = "open" /\ h.steps[5] = "commit"
          /\ h.does = "create" /\ h.guard = "locked" /\ h.mapper = "project"
      BY DEF Http!AddVolume, Http!Handler, Http!Private, Http!Transaction
    <2> HIDE DEF h
    <2>2. WellFormed(h)
      BY <2>1
      DEF WellFormed, RefusedFirst, QuietAfterChange, GuardFits, Looks, Makes, Refusing, Setting, Places
    <2> QED
      BY <2>2 DEF h
  <1>13. WellFormed(Http!RemoveVolume)
    <2> DEFINE h == Http!RemoveVolume
    <2>1. /\ Len(h.steps) = 5 /\ h.steps[1] = "session" /\ h.steps[2] = "find"
          /\ h.steps[3] = "hidden" /\ h.steps[4] = "open" /\ h.steps[5] = "commit"
          /\ h.does = "end" /\ h.guard = "none" /\ h.mapper = "project"
      BY DEF Http!RemoveVolume, Http!Handler, Http!Private, Http!RemoveVolumeUseCase, Http!Transaction
    <2> HIDE DEF h
    <2>2. WellFormed(h)
      BY <2>1
      DEF WellFormed, RefusedFirst, QuietAfterChange, GuardFits, Looks, Makes, Refusing, Setting, Places
    <2> QED
      BY <2>2 DEF h
  <1>14. WellFormed(Http!Register)
    <2> DEFINE h == Http!Register
    <2>1. /\ Len(h.steps) = 3 /\ h.steps[1] = "form" /\ h.steps[2] = "open" /\ h.steps[3] = "commit"
          /\ h.does = "create" /\ h.guard = "unique" /\ h.mapper = "user"
      BY DEF Http!Register, Http!Handler, Http!Transaction
    <2> HIDE DEF h
    <2>2. WellFormed(h)
      BY <2>1
      DEF WellFormed, RefusedFirst, QuietAfterChange, GuardFits, Looks, Makes, Refusing, Setting, Places
    <2> QED
      BY <2>2 DEF h
  <1>15. WellFormed(Http!VerifyEmail)
    <2> DEFINE h == Http!VerifyEmail
    <2>1. /\ Len(h.steps) = 3 /\ h.steps[1] = "form" /\ h.steps[2] = "open" /\ h.steps[3] = "commit"
          /\ h.does = "remove" /\ h.guard = "none" /\ h.mapper = "user"
      BY DEF Http!VerifyEmail, Http!Handler, Http!Transaction
    <2> HIDE DEF h
    <2>2. WellFormed(h)
      BY <2>1
      DEF WellFormed, RefusedFirst, QuietAfterChange, GuardFits, Looks, Makes, Refusing, Setting, Places
    <2> QED
      BY <2>2 DEF h
  <1>16. WellFormed(Http!ResendVerificationEmail)
    <2> DEFINE h == Http!ResendVerificationEmail
    <2>1. /\ Len(h.steps) = 5 /\ h.steps[1] = "limiter" /\ h.steps[2] = "form" /\ h.steps[3] = "open"
          /\ h.steps[4] = "commit" /\ h.steps[5] = "mail"
          /\ h.does = "send" /\ h.guard = "none" /\ h.mapper = "user"
      BY DEF Http!ResendVerificationEmail, Http!EmailRoute, Http!Handler, Http!Transaction
    <2> HIDE DEF h
    <2>2. WellFormed(h)
      BY <2>1
      DEF WellFormed, RefusedFirst, QuietAfterChange, GuardFits, Looks, Makes, Refusing, Setting, Places
    <2> QED
      BY <2>2 DEF h
  <1>17. WellFormed(Http!RequestPasswordReset)
    <2> DEFINE h == Http!RequestPasswordReset
    <2>1. /\ Len(h.steps) = 4 /\ h.steps[1] = "limiter" /\ h.steps[2] = "form" /\ h.steps[3] = "open"
          /\ h.steps[4] = "commit"
          /\ h.does = "send" /\ h.guard = "none" /\ h.mapper = "user"
      BY DEF Http!RequestPasswordReset, Http!EmailRoute, Http!Handler, Http!Transaction
    <2> HIDE DEF h
    <2>2. WellFormed(h)
      BY <2>1
      DEF WellFormed, RefusedFirst, QuietAfterChange, GuardFits, Looks, Makes, Refusing, Setting, Places
    <2> QED
      BY <2>2 DEF h
  <1>18. WellFormed(Http!ResetPassword)
    <2> DEFINE h == Http!ResetPassword
    <2>1. /\ Len(h.steps) = 3 /\ h.steps[1] = "form" /\ h.steps[2] = "open" /\ h.steps[3] = "commit"
          /\ h.does = "remove" /\ h.guard = "none" /\ h.mapper = "user"
      BY DEF Http!ResetPassword, Http!Handler, Http!Transaction
    <2> HIDE DEF h
    <2>2. WellFormed(h)
      BY <2>1
      DEF WellFormed, RefusedFirst, QuietAfterChange, GuardFits, Looks, Makes, Refusing, Setting, Places
    <2> QED
      BY <2>2 DEF h
  <1>19. WellFormed(Http!UpdateCurrentUser)
    <2> DEFINE h == Http!UpdateCurrentUser
    <2>1. /\ Len(h.steps) = 4 /\ h.steps[1] = "session" /\ h.steps[2] = "form" /\ h.steps[3] = "read"
          /\ h.steps[4] = "commit"
          /\ h.does = "set" /\ h.guard = "none" /\ h.mapper = "user"
      BY DEF Http!UpdateCurrentUser, Http!Handler, Http!Private
    <2> HIDE DEF h
    <2>2. WellFormed(h)
      BY <2>1
      DEF WellFormed, RefusedFirst, QuietAfterChange, GuardFits, Looks, Makes, Refusing, Setting, Places
    <2> QED
      BY <2>2 DEF h
  <1>20. WellFormed(Http!ChangePassword)
    <2> DEFINE h == Http!ChangePassword
    <2>1. /\ Len(h.steps) = 5 /\ h.steps[1] = "session" /\ h.steps[2] = "form" /\ h.steps[3] = "read"
          /\ h.steps[4] = "allowed" /\ h.steps[5] = "commit"
          /\ h.does = "set" /\ h.guard = "none" /\ h.mapper = "user"
      BY DEF Http!ChangePassword, Http!Handler, Http!Private
    <2> HIDE DEF h
    <2>2. WellFormed(h)
      BY <2>1
      DEF WellFormed, RefusedFirst, QuietAfterChange, GuardFits, Looks, Makes, Refusing, Setting, Places
    <2> QED
      BY <2>2 DEF h
  <1>21. WellFormed(Http!ConnectGitHub)
    <2> DEFINE h == Http!ConnectGitHub
    <2>1. /\ Len(h.steps) = 5 /\ h.steps[1] = "session" /\ h.steps[2] = "form" /\ h.steps[3] = "open"
          /\ h.steps[4] = "ask" /\ h.steps[5] = "commit"
          /\ h.does = "create" /\ h.guard = "key" /\ h.mapper = "user"
      BY DEF Http!ConnectGitHub, Http!Handler, Http!Private
    <2> HIDE DEF h
    <2>2. WellFormed(h)
      BY <2>1
      DEF WellFormed, RefusedFirst, QuietAfterChange, GuardFits, Looks, Makes, Refusing, Setting, Places
    <2> QED
      BY <2>2 DEF h
  <1>22. WellFormed(Http!DisconnectGitHub)
    <2> DEFINE h == Http!DisconnectGitHub
    <2>1. /\ Len(h.steps) = 4 /\ h.steps[1] = "session" /\ h.steps[2] = "form" /\ h.steps[3] = "begin"
          /\ h.steps[4] = "commit"
          /\ h.does = "end" /\ h.guard = "none" /\ h.mapper = "user"
      BY DEF Http!DisconnectGitHub, Http!ContainerChange, Http!Handler, Http!Private
    <2> HIDE DEF h
    <2>2. WellFormed(h)
      BY <2>1
      DEF WellFormed, RefusedFirst, QuietAfterChange, GuardFits, Looks, Makes, Refusing, Setting, Places
    <2> QED
      BY <2>2 DEF h
  <1>23. WellFormed(Http!GenerateInstallationToken)
    <2> DEFINE h == Http!GenerateInstallationToken
    <2>1. /\ Len(h.steps) = 5 /\ h.steps[1] = "session" /\ h.steps[2] = "form" /\ h.steps[3] = "begin"
          /\ h.steps[4] = "ask" /\ h.steps[5] = "commit"
          /\ h.does = "set" /\ h.guard = "none" /\ h.mapper = "user"
      BY DEF Http!GenerateInstallationToken, Http!Handler, Http!Private
    <2> HIDE DEF h
    <2>2. WellFormed(h)
      BY <2>1
      DEF WellFormed, RefusedFirst, QuietAfterChange, GuardFits, Looks, Makes, Refusing, Setting, Places
    <2> QED
      BY <2>2 DEF h
  <1>24. WellFormed(Http!StartInstallation)
    <2> DEFINE h == Http!StartInstallation
    <2>1. /\ Len(h.steps) = 2 /\ h.steps[1] = "session" /\ h.steps[2] = "commit"
          /\ h.does = "send" /\ h.guard = "none" /\ h.mapper = "user"
      BY DEF Http!StartInstallation, Http!Handler, Http!Private
    <2> HIDE DEF h
    <2>2. WellFormed(h)
      BY <2>1
      DEF WellFormed, RefusedFirst, QuietAfterChange, GuardFits, Looks, Makes, Refusing, Setting, Places
    <2> QED
      BY <2>2 DEF h
  <1> QED
    BY ReadersAreWellFormed, ReadersReadOnly,
       <1>1, <1>2, <1>3, <1>4, <1>5, <1>6, <1>7, <1>8, <1>9, <1>10, <1>11, <1>12, <1>13, <1>14, <1>15,
       <1>16, <1>17, <1>18, <1>19, <1>20, <1>21, <1>22, <1>23, <1>24
    DEF Http!Setup, Http!UpdateContainer, Http!AddEnvVar, Http!UpdateEnvVar, Http!DeleteEnvVar,
        Http!AddNetwork, Http!DeleteNetwork, Http!AddSecret, Http!UpdateSecret, Http!DeleteSecret,
        Http!AddBuildVar, Http!UpdateBuildVar, Http!DeleteBuildVar

-----------------------------------------------------------------------------
(* What the attempts of a client have done, and what may still be said of  *)
(* them while they run.                                                    *)

Answers == {"none", "running", "ok", "refused", "failed", "lost"}
Tries == [at : Nat \ {0}, answer : Answers, left : BOOLEAN, changed : BOOLEAN, kept : BOOLEAN]
Passed(q, kinds) == \E i \in 1..(q.at - 1) : handler.steps[i] \in kinds
DoneBy(a) == att[a].changed
AtCommit(a) == Http!At(a, {"commit"})

HttpShape ==
  /\ handler \in Http!Setup /\ defect \in Http!Defects(handler)
  /\ items \in Int /\ holder \in 0..MaxAttempts
  /\ {live, mounted, recorded, doubled, restarted} \subseteq BOOLEAN
  /\ att \in [Http!Attempts -> Tries]

\* The attempt q: how far it is says what it has changed, and its answer tells.
TryHeld(q) ==
  /\ q.at \in 1..(Len(handler.steps) + 1)
  /\ q.answer = "none" => q.at = 1 /\ ~ q.left /\ ~ q.changed /\ ~ q.kept
  /\ q.answer = "ok" => q.at = Len(handler.steps) + 1
  /\ q.answer \in {"running", "ok"} /\ Passed(q, Setting) => q.changed
  /\ q.answer = "running" /\ q.changed => Passed(q, Setting)
  /\ q.answer = "refused" /\ q.changed => (~ live /\ Http!Has({"find"})) \/ q.kept
  /\ defect # "none" => ~ q.changed /\ ~ q.kept /\ (q.answer = "running" => ~ Passed(q, Refusing(defect)))
Tried(a) == TryHeld(att[a])

\* Attempts are sent one after the other; until two are at work there is one that runs.
SentInOrder ==
  /\ \A b \in Http!Attempts : att[b].answer # "none" => \A a \in 1..(b - 1) : att[a].answer # "none"
  /\ ~ doubled => \A a, b \in Http!Attempts : Http!Running(a) /\ Http!Running(b) => a = b

\* The things that are there are those that attempts have made.
Counted ==
  /\ Makes(handler) => items = Cardinality({a \in Http!Attempts : DoneBy(a)})
  /\ ~ Makes(handler) => items \in {0, 1}

\* Why there is one at most: nobody commits beside the holder of the lock, or beside a check.
MadeInv ==
  /\ Makes(handler) /\ handler.guard \in {"unique", "key"} => items <= 1
  /\ Makes(handler) /\ handler.guard = "locked" =>
       items <= 1 /\ \A a \in Http!Attempts : AtCommit(a) => holder = a /\ items = 0
  /\ Makes(handler) /\ handler.guard = "checked" /\ ~ doubled =>
       items <= 1 /\ \A a \in Http!Attempts : AtCommit(a) => items = 0

HttpInv ==
  /\ HttpShape /\ SentInOrder /\ Counted /\ MadeInv
  /\ \A a \in Http!Attempts : Tried(a)

LEMMA HttpFacts ==
  /\ MaxAttempts \in Nat \ {0} /\ Http!Attempts = 1..MaxAttempts /\ IsFiniteSet(Http!Attempts)
  /\ \A a \in Http!Attempts : a \in Nat /\ a # 0 /\ a \in 0..MaxAttempts
  <1>1. MaxAttempts \in Nat \ {0} /\ Http!Attempts = 1..MaxAttempts
    BY HttpConstants DEF Http!HttpAssumption, Http!Attempts
  <1> QED
    BY <1>1, FS_Interval

\* The number of attempts that have changed something.
LEMMA DoneCounts ==
  ASSUME HttpShape
  PROVE  /\ IsFiniteSet({a \in Http!Attempts : DoneBy(a)})
         /\ Cardinality({a \in Http!Attempts : DoneBy(a)}) \in 0..MaxAttempts
  <1>1. IsFiniteSet(Http!Attempts) /\ Cardinality(Http!Attempts) = MaxAttempts
    BY HttpFacts, FS_Interval
  <1>2. {a \in Http!Attempts : DoneBy(a)} \subseteq Http!Attempts
    OBVIOUS
  <1>3. /\ IsFiniteSet({a \in Http!Attempts : DoneBy(a)})
        /\ Cardinality({a \in Http!Attempts : DoneBy(a)}) <= MaxAttempts
    BY <1>1, <1>2, FS_Subset
  <1> QED
    BY <1>3, HttpFacts, FS_CardinalityType

\* Where an attempt stands, and what it is going to do there.
StandsAt(a, q, kind) ==
  /\ q \in Tries /\ att[a] = q /\ q.answer = "running" /\ TryHeld(q)
  /\ q.at \in 1..Len(handler.steps) /\ kind = handler.steps[q.at]

LEMMA AttemptStands ==
  ASSUME HttpInv, NEW a \in Http!Attempts, NEW kinds, Http!At(a, kinds)
  PROVE  \E q \in Tries : \E kind \in kinds : StandsAt(a, q, kind)
  <1>1. WellFormed(handler)
    BY RoutesAreWellFormed DEF HttpInv, HttpShape
  <1>2. att[a] \in Tries /\ TryHeld(att[a])
    BY DEF HttpInv, HttpShape, Tried
  <1>3. att[a].at \in 1..Len(handler.steps)
    BY <1>1, <1>2 DEF Http!At, WellFormed, Tries
  <1> QED
    BY <1>2, <1>3 DEF Http!At, Http!Running, StandsAt

\* An attempt at one of the other steps has changed nothing yet.
LEMMA NothingChangedYet ==
  ASSUME HttpInv, NEW a \in Http!Attempts, NEW q, NEW kind, StandsAt(a, q, kind), q.changed
  PROVE  /\ kind \in {"find", "allowed", "mount", "mail", "save"} /\ defect = "none"
         /\ kind \in {"find", "allowed"} => Http!Has({"find"})
  <1>1. WellFormed(handler) /\ Len(handler.steps) \in Nat
    BY RoutesAreWellFormed DEF HttpInv, HttpShape, WellFormed
  <1>2. defect = "none" /\ q.at \in Nat
    BY <1>1 DEF StandsAt, TryHeld
  <1>3. PICK i \in 1..(q.at - 1) : handler.steps[i] \in Setting
    BY DEF StandsAt, TryHeld, Passed
  <1>4. i \in Places(handler) /\ q.at \in (i + 1)..Len(handler.steps)
    BY <1>1, <1>2, <1>3 DEF Places, StandsAt
  <1>5. /\ kind \in {"find", "allowed", "mount", "mail", "save"}
        /\ kind \in {"find", "allowed"} => Looks(handler, {"find"})
    BY <1>1, <1>3, <1>4 DEF WellFormed, QuietAfterChange, StandsAt
  <1> QED
    BY <1>2, <1>5 DEF Looks, Places, Http!Has

\* A request with a defect is refused before it comes to a change.
LEMMA NoDefectAtChange ==
  ASSUME HttpInv, NEW a \in Http!Attempts, NEW q, NEW kind, StandsAt(a, q, kind), kind \in Setting \cup {"mount"}
  PROVE  defect = "none"
  <1>1. WellFormed(handler) /\ q.at \in Places(handler) /\ defect \in Http!Defects(handler)
    BY RoutesAreWellFormed DEF HttpInv, HttpShape, StandsAt, Places
  <1>2. SUFFICES ASSUME defect # "none" PROVE FALSE
    OBVIOUS
  <1>3. defect \in {"session", "form", "allowed"} /\ Looks(handler, Refusing(defect))
    BY <1>1, <1>2 DEF Http!Defects, Looks, Refusing, Places
  <1>4. \E j \in 1..(q.at - 1) : handler.steps[j] \in Refusing(defect)
    BY <1>1, <1>3 DEF WellFormed, RefusedFirst, StandsAt
  <1> QED
    BY <1>2, <1>4 DEF StandsAt, TryHeld, Passed

\* What one attempt does is all that a step does to the attempts.
LEMMA OneAttempt ==
  ASSUME HttpInv, NEW a \in Http!Attempts, Http!Running(a), NEW q \in Tries, q.answer # "none",
         att' = [att EXCEPT ![a] = q], UNCHANGED <<handler, defect, doubled, restarted>>,
         live' \in BOOLEAN, live' => live, mounted' \in BOOLEAN, recorded' \in BOOLEAN,
         items' \in Int, holder' \in 0..MaxAttempts,
         TryHeld(q)', Counted', MadeInv'
  PROVE  HttpInv'
  <1>1. /\ att'[a] = q /\ \A b \in Http!Attempts \ {a} : att'[b] = att[b]
        /\ att' \in [Http!Attempts -> Tries]
    BY DEF HttpInv, HttpShape
  <1>2. HttpShape'
    BY <1>1 DEF HttpInv, HttpShape, Http!Attempts
  <1>3. SentInOrder'
    <2>1. \A b \in Http!Attempts : /\ att'[b].answer = "none" <=> att[b].answer = "none"
                                   /\ att'[b].answer = "running" => att[b].answer = "running"
      BY <1>1 DEF Http!Running
    <2> QED
      BY <2>1, HttpFacts DEF HttpInv, SentInOrder, Http!Running, Http!Attempts
  <1>4. ASSUME NEW b \in Http!Attempts PROVE Tried(b)'
    <2>1. CASE b = a
      BY <1>1, <2>1 DEF Tried, TryHeld, Passed, Http!Has
    <2>2. CASE b # a
      <3>1. att'[b] = att[b] /\ Tried(b)
        BY <1>1, <2>2 DEF HttpInv
      <3> QED
        BY <3>1 DEF Tried, TryHeld, Passed, Http!Has
    <2> QED
      BY <2>1, <2>2
  <1> QED
    BY <1>2, <1>3, <1>4 DEF HttpInv, Http!Attempts

\* The attempt q has come to the commit of its transaction.
Commits(q) == q.answer = "running" /\ q.at \in 1..Len(handler.steps) /\ handler.steps[q.at] = "commit"

\* What the invariants ask of a step that changes nothing but its attempt and a lock.
LEMMA NothingMade ==
  ASSUME HttpInv, NEW a \in Http!Attempts, Http!Running(a), NEW q \in Tries, q.answer # "none",
         att' = [att EXCEPT ![a] = q], q.changed = att[a].changed, TryHeld(q),
         UNCHANGED <<handler, defect, doubled, restarted, live, items>>,
         mounted' \in BOOLEAN, recorded' \in BOOLEAN, holder' \in 0..MaxAttempts,
         \A b \in Http!Attempts \ {a} : holder = b => holder' = b,
         Commits(q) /\ Makes(handler) /\ handler.guard = "locked" => holder' = a /\ items = 0,
         Commits(q) /\ Makes(handler) /\ handler.guard = "checked" /\ ~ doubled => items = 0
  PROVE  HttpInv'
  <1>1. att'[a] = q /\ \A b \in Http!Attempts \ {a} : att'[b] = att[b]
    BY DEF HttpInv, HttpShape
  <1>2. \A b \in Http!Attempts : att'[b].changed = att[b].changed
    BY <1>1
  <1>3. Counted'
    <2>1. {b \in Http!Attempts : att'[b].changed} = {b \in Http!Attempts : att[b].changed}
      BY <1>2
    <2> QED
      BY <2>1 DEF HttpInv, Counted, DoneBy, Makes, Http!Attempts
  <1>4. MadeInv'
    <2>1. \A b \in Http!Attempts : AtCommit(b)' => (b # a /\ AtCommit(b)) \/ (b = a /\ Commits(q))
      <3>1. Len(handler.steps) \in Nat /\ q.at \in Nat \ {0}
        BY RoutesAreWellFormed DEF HttpInv, HttpShape, WellFormed, Tries
      <3> QED
        BY <1>1, <3>1 DEF AtCommit, Http!At, Http!Running, Commits
    <2>2. Makes(handler) /\ handler.guard = "locked" =>
            items <= 1 /\ \A b \in Http!Attempts : AtCommit(b)' => holder' = b /\ items = 0
      BY <2>1 DEF HttpInv, MadeInv
    <2>3. Makes(handler) /\ handler.guard = "checked" /\ ~ doubled =>
            items <= 1 /\ \A b \in Http!Attempts : AtCommit(b)' => items = 0
      BY <2>1 DEF HttpInv, MadeInv
    <2>4. Makes(handler) /\ handler.guard \in {"unique", "key"} => items <= 1
      BY DEF HttpInv, MadeInv
    <2> QED
      BY <2>2, <2>3, <2>4 DEF MadeInv, Makes, Http!Attempts
  <1>5. TryHeld(q)'
    BY DEF TryHeld, Passed, Http!Has
  <1>6. items' \in Int /\ live' \in BOOLEAN
    BY DEF HttpInv, HttpShape
  <1> QED
    BY <1>3, <1>4, <1>5, <1>6, OneAttempt

\* A step that is passed without a change; the next one is not a commit that wants a check.
LEMMA PassKeeps ==
  ASSUME HttpInv, NEW a \in Http!Attempts, NEW q, NEW kind, StandsAt(a, q, kind),
         kind \notin Setting \cup {"begin", "open"}, defect = "none" \/ kind \notin Refusing(defect),
         att' = [att EXCEPT ![a].at = @ + 1],
         UNCHANGED <<handler, defect, doubled, restarted, live, items, holder>>,
         mounted' \in BOOLEAN, recorded' \in BOOLEAN
  PROVE  HttpInv'
  <1>1. WellFormed(handler) /\ Len(handler.steps) \in Nat
    BY RoutesAreWellFormed DEF HttpInv, HttpShape, WellFormed
  <1>2. PICK p : p = [q EXCEPT !.at = q.at + 1]
    OBVIOUS
  <1>3. q \in Tries /\ q.at \in 1..Len(handler.steps) /\ q.answer = "running" /\ TryHeld(q)
    BY DEF StandsAt
  <1>4. /\ p \in Tries /\ p.at = q.at + 1 /\ p.answer = "running"
        /\ p.left = q.left /\ p.changed = q.changed /\ p.kept = q.kept
    BY <1>2, <1>3 DEF Tries
  <1>5. att' = [att EXCEPT ![a] = p]
    BY <1>2 DEF StandsAt
  <1>6. \A K : Passed(p, K) <=> Passed(q, K) \/ kind \in K
    BY <1>1, <1>3, <1>4 DEF Passed, StandsAt
  <1>7. TryHeld(p)
    BY <1>1, <1>3, <1>4, <1>6 DEF TryHeld, Setting
  <1>8. ~ (Commits(p) /\ handler.guard \in {"locked", "checked"})
    <2>1. SUFFICES ASSUME Commits(p), handler.guard \in {"locked", "checked"} PROVE FALSE
      OBVIOUS
    <2>2. p.at \in Places(handler) /\ handler.steps[p.at] = "commit"
      BY <2>1 DEF Commits, Places
    <2>3. handler.steps[p.at - 1] \in {"begin", "open"}
      BY <1>1, <2>1, <2>2 DEF WellFormed, GuardFits
    <2> QED
      BY <1>3, <1>4, <2>3 DEF StandsAt
  <1>9. Http!Running(a) /\ att[a].changed = q.changed
    BY DEF StandsAt, Http!Running
  <1>10. holder' \in 0..MaxAttempts
    BY DEF HttpInv, HttpShape
  <1> QED
    BY <1>4, <1>5, <1>7, <1>8, <1>9, <1>10, NothingMade

\* An attempt that is answered without a change; a refusal after a change is one that says
\* that the row is gone.
LEMMA AnswerKeeps ==
  ASSUME HttpInv, NEW a \in Http!Attempts, NEW q, NEW kind, StandsAt(a, q, kind),
         NEW s \in {"refused", "failed"}, Http!Answer(a, s),
         s = "refused" /\ q.changed => ~ live /\ Http!Has({"find"}),
         UNCHANGED <<handler, defect, doubled, restarted, live, items, mounted, recorded>>
  PROVE  HttpInv'
  <1>1. PICK p : p = [q EXCEPT !.answer = s]
    OBVIOUS
  <1>2. q \in Tries /\ q.at \in 1..Len(handler.steps) /\ q.answer = "running" /\ TryHeld(q)
    BY DEF StandsAt
  <1>3. /\ p \in Tries /\ p.at = q.at /\ p.answer = s
        /\ p.left = q.left /\ p.changed = q.changed /\ p.kept = q.kept
    BY <1>1, <1>2 DEF Tries, Answers
  <1>4. att' = [att EXCEPT ![a] = p]
    BY <1>1 DEF StandsAt, Http!Answer
  <1>5. TryHeld(p)
    BY <1>2, <1>3 DEF TryHeld
  <1>6. /\ holder' \in 0..MaxAttempts /\ \A b \in Http!Attempts \ {a} : holder = b => holder' = b
        /\ mounted' \in BOOLEAN /\ recorded' \in BOOLEAN
    BY HttpFacts DEF Http!Answer, HttpInv, HttpShape
  <1>7. Http!Running(a) /\ att[a].changed = q.changed
    BY DEF StandsAt, Http!Running
  <1>8. ~ Commits(p)
    BY <1>3 DEF Commits
  <1> QED
    BY <1>3, <1>4, <1>5, <1>6, <1>7, <1>8, NothingMade

LEMMA StatusIs ==
  ASSUME HttpInv, NEW e
  PROVE  /\ Http!Status(e) \in {"refused", "failed"}
         /\ e \in {"database", "mail", "service", "token"} => Http!Status(e) = "failed"
  <1>1. handler.mapper \in {"container", "project", "user", "none"}
    BY RoutesAreWellFormed DEF HttpInv, HttpShape, WellFormed
  <1> QED
    BY <1>1 DEF Http!Status, Http!ErrorMap, Http!CommonErrors, Http!ContainerErrors, Http!ProjectErrors, Http!UserErrors

\* A step that fails: before a change whatever the error is, after it for one of these reasons.
LEMMA FailKeeps ==
  ASSUME HttpInv, NEW a \in Http!Attempts, NEW q, NEW kind, StandsAt(a, q, kind), NEW e, Http!Fail(a, e),
         \/ kind \notin {"find", "allowed", "mount", "mail", "save"}
         \/ e \in {"database", "mail"}
         \/ ~ live /\ kind \in {"find", "allowed"}
         \/ defect # "none",
         UNCHANGED <<handler, defect, doubled, restarted>>
  PROVE  HttpInv'
  <1>1. PICK s : s = Http!Status(e)
    OBVIOUS
  <1>2. s \in {"refused", "failed"} /\ (e \in {"database", "mail"} => s = "failed")
    BY <1>1, StatusIs
  <1>3. Http!Answer(a, s) /\ UNCHANGED <<live, items, mounted, recorded>>
    BY <1>1 DEF Http!Fail
  <1>4. s = "refused" /\ q.changed => ~ live /\ Http!Has({"find"})
    BY <1>2, NothingChangedYet
  <1> QED
    BY <1>2, <1>3, <1>4, AnswerKeeps

\* The attempt takes up the row lock, if its change is checked under it, and has looked.
LEMMA BeginKeeps ==
  ASSUME HttpInv, NEW a \in Http!Attempts, Http!BeginTx(a)
  PROVE  HttpInv'
  <1>1. PICK q \in Tries, kind \in {"begin", "open"} : StandsAt(a, q, kind)
    BY AttemptStands DEF Http!BeginTx
  <1>2. UNCHANGED <<handler, defect, doubled, restarted>> /\ holder = 0
    BY DEF Http!BeginTx, Http!rest
  <1>3. WellFormed(handler) /\ Len(handler.steps) \in Nat
    BY RoutesAreWellFormed DEF HttpInv, HttpShape, WellFormed
  <1>4. CASE /\ live /\ ~ Http!Spent /\ ~ Http!Taken
             /\ ~ (Http!At(a, {"begin"}) /\ defect = "allowed")
             /\ att' = [att EXCEPT ![a].at = @ + 1]
             /\ holder' = IF handler.guard = "locked" THEN a ELSE 0
             /\ UNCHANGED <<live, items, mounted, recorded>>
    <2>1. PICK p : p = [q EXCEPT !.at = q.at + 1]
      OBVIOUS
    <2>2. q \in Tries /\ q.at \in 1..Len(handler.steps) /\ q.answer = "running" /\ TryHeld(q)
      BY <1>1 DEF StandsAt
    <2>3. /\ p \in Tries /\ p.at = q.at + 1 /\ p.answer = "running"
          /\ p.left = q.left /\ p.changed = q.changed /\ p.kept = q.kept
      BY <2>1, <2>2 DEF Tries
    <2>4. att' = [att EXCEPT ![a] = p]
      BY <1>1, <1>4, <2>1 DEF StandsAt
    <2>5. \A K : Passed(p, K) <=> Passed(q, K) \/ kind \in K
      BY <1>1, <1>3, <2>2, <2>3 DEF Passed, StandsAt
    <2>6. defect = "none" \/ kind \notin Refusing(defect)
      <3>1. kind = "begin" => defect # "allowed"
        BY <1>1, <1>4 DEF StandsAt, Http!At, Http!Running
      <3>2. defect \in {"none", "session", "form", "allowed"}
        BY DEF HttpInv, HttpShape, Http!Defects
      <3>3. kind = "open" => kind \notin Refusing(defect)
        BY <3>2 DEF Refusing
      <3>4. kind = "begin" /\ defect # "none" => kind \notin Refusing(defect)
        BY <3>1, <3>2 DEF Refusing
      <3> QED
        BY <3>3, <3>4
    <2>7. TryHeld(p)
      BY <1>1, <1>3, <2>2, <2>3, <2>5, <2>6 DEF TryHeld, Setting
    <2>8. Makes(handler) => items = 0
      <3>1. Makes(handler) => items \in Nat
        BY DoneCounts DEF HttpInv, Counted
      <3> QED
        BY <1>4, <3>1 DEF Http!Taken, Makes
    <2>9. holder' \in 0..MaxAttempts /\ \A b \in Http!Attempts \ {a} : holder = b => holder' = b
      BY <1>2, <1>4, HttpFacts
    <2>10. Http!Running(a) /\ att[a].changed = q.changed /\ mounted' \in BOOLEAN /\ recorded' \in BOOLEAN
      BY <1>1, <1>4 DEF StandsAt, Http!Running, HttpInv, HttpShape
    <2> QED
      BY <1>2, <1>4, <2>3, <2>4, <2>7, <2>8, <2>9, <2>10, NothingMade
  <1>5. ASSUME NEW e, Http!Fail(a, e) PROVE HttpInv'
    BY <1>1, <1>2, <1>5, FailKeeps
  <1> QED
    BY <1>4, <1>5 DEF Http!BeginTx

\* A change: of the things that are made it is the first one, unless two attempts were at work
\* beside a check of a snapshot, or it is a node port's run.
LEMMA ChangeKeeps ==
  ASSUME HttpInv, NEW a \in Http!Attempts, NEW q, NEW kind, StandsAt(a, q, kind), kind \in Setting,
         NEW p \in Tries, att' = [att EXCEPT ![a] = p], p.changed, p.kept = q.kept, p.left = q.left,
         \/ p.at = q.at + 1 /\ p.answer = "running"
         \/ p.at = q.at /\ p.answer = "failed",
         Makes(handler) => items' = items + 1, ~ Makes(handler) => items' \in {0, 1},
         Makes(handler) /\ handler.guard \in {"unique", "key"} => items = 0,
         kind = "make" => items = 0,
         live' \in BOOLEAN, live' => live, mounted' = mounted, recorded' = recorded,
         holder' = holder \/ holder' = (IF holder = a THEN 0 ELSE holder),
         UNCHANGED <<handler, defect, doubled, restarted>>
  PROVE  HttpInv'
  <1>1. WellFormed(handler) /\ Len(handler.steps) \in Nat
    BY RoutesAreWellFormed DEF HttpInv, HttpShape, WellFormed
  <1>2. /\ q \in Tries /\ q.at \in 1..Len(handler.steps) /\ q.answer = "running" /\ TryHeld(q)
        /\ att[a] = q /\ handler.steps[q.at] = kind /\ Http!Running(a)
    BY DEF StandsAt, Http!Running
  <1>3. ~ q.changed /\ defect = "none"
    BY NothingChangedYet, NoDefectAtChange DEF Setting
  <1>4. q.at \in Places(handler)
    BY <1>2 DEF Places
  <1>5. TryHeld(p)'
    <2>1. p.answer = "running" => Passed(p, Setting)
      BY <1>1, <1>2 DEF Passed
    <2>2. p.answer = "running" => (Passed(p, Setting))'
      BY <2>1 DEF Passed
    <2> QED
      BY <1>1, <1>2, <1>3, <2>2 DEF TryHeld
  <1>6. att'[a] = p /\ \A b \in Http!Attempts \ {a} : att'[b] = att[b]
    BY DEF HttpInv, HttpShape
  <1>7. Counted'
    <2>1. {b \in Http!Attempts : att'[b].changed} = {b \in Http!Attempts : att[b].changed} \cup {a}
      BY <1>6
    <2>2. a \notin {b \in Http!Attempts : att[b].changed}
      BY <1>2, <1>3
    <2>3. IsFiniteSet({b \in Http!Attempts : att[b].changed})
      BY DoneCounts DEF HttpInv, DoneBy
    <2>4. Cardinality({b \in Http!Attempts : att'[b].changed}) = Cardinality({b \in Http!Attempts : att[b].changed}) + 1
      <3>1. PICK D : D = {b \in Http!Attempts : att[b].changed}
        OBVIOUS
      <3>2. Cardinality(D \cup {a}) = Cardinality(D) + 1
        BY <2>2, <2>3, <3>1, FS_AddElement
      <3> QED
        BY <2>1, <3>1, <3>2
    <2> QED
      BY <2>4 DEF HttpInv, Counted, DoneBy, Makes, Http!Attempts
  <1>8. ~ AtCommit(a)'
    <2>1. SUFFICES ASSUME AtCommit(a)' PROVE FALSE
      OBVIOUS
    <2>2. p.answer = "running" /\ p.at <= Len(handler.steps) /\ handler.steps[p.at] = "commit"
      BY <1>6, <2>1 DEF AtCommit, Http!At, Http!Running
    <2>3. p.at = q.at + 1 /\ p.at \in (q.at + 1)..Len(handler.steps)
      BY <1>1, <1>2, <2>2
    <2>4. handler.steps[p.at] \in {"find", "allowed", "mount", "mail", "save"}
      BY <1>1, <1>2, <1>4, <2>3 DEF WellFormed, QuietAfterChange
    <2> QED
      BY <2>2, <2>4
  <1>9. \A b \in Http!Attempts : AtCommit(b)' => b # a /\ AtCommit(b)
    BY <1>6, <1>8 DEF AtCommit, Http!At, Http!Running
  <1>10. Makes(handler) => kind # "delete"
    BY <1>1, <1>2, <1>4 DEF WellFormed, GuardFits
  <1>11. kind = "commit" => AtCommit(a)
    BY <1>2 DEF AtCommit, Http!At
  <1>12. MadeInv'
    <2>1. Makes(handler) /\ handler.guard \in {"unique", "key"} => items' <= 1
      OBVIOUS
    <2>2. ASSUME Makes(handler), handler.guard = "locked"
          PROVE  items' <= 1 /\ \A b \in Http!Attempts : ~ AtCommit(b)'
      <3>1. kind = "commit"
        BY <1>1, <1>2, <1>4, <1>10, <2>2 DEF WellFormed, GuardFits, Setting
      <3>2. holder = a /\ items = 0
        BY <1>11, <2>2, <3>1 DEF HttpInv, MadeInv
      <3> QED
        BY <1>9, <2>2, <3>2 DEF HttpInv, MadeInv
    <2>3. ASSUME Makes(handler), handler.guard = "checked", ~ doubled
          PROVE  items' <= 1 /\ \A b \in Http!Attempts : ~ AtCommit(b)'
      <3>1. kind \in {"commit", "make"}
        BY <1>1, <1>2, <1>4, <1>10, <2>3 DEF WellFormed, GuardFits, Setting
      <3>2. items = 0
        BY <1>11, <2>3, <3>1 DEF HttpInv, MadeInv
      <3>3. \A b \in Http!Attempts : AtCommit(b) => b = a
        BY <1>2, <2>3 DEF HttpInv, SentInOrder, AtCommit, Http!At
      <3> QED
        BY <1>9, <2>3, <3>2, <3>3
    <2> QED
      BY <2>1, <2>2, <2>3 DEF MadeInv, Makes, Http!Attempts
  <1>13. items' \in Int /\ holder' \in 0..MaxAttempts /\ mounted' \in BOOLEAN /\ recorded' \in BOOLEAN
    BY HttpFacts DEF HttpInv, HttpShape
  <1>14. p.answer # "none"
    OBVIOUS
  <1> QED
    BY <1>2, <1>5, <1>7, <1>12, <1>13, <1>14, OneAttempt

LEMMA StepsOn ==
  ASSUME NEW q \in Tries, NEW p, p = [q EXCEPT !.at = q.at + 1, !.changed = TRUE]
  PROVE  /\ p \in Tries /\ p.at = q.at + 1 /\ p.changed /\ p.kept = q.kept /\ p.left = q.left
         /\ p.answer = q.answer
  <1>1. PICK n \in Nat \ {0} : n = q.at + 1
    BY DEF Tries
  <1>2. p = [q EXCEPT !.at = n, !.changed = TRUE]
    BY <1>1
  <1>3. p \in Tries
    BY <1>2 DEF Tries
  <1> QED
    BY <1>1, <1>2, <1>3 DEF Tries

LEMMA CommitKeeps ==
  ASSUME HttpInv, NEW a \in Http!Attempts, Http!CommitTx(a)
  PROVE  HttpInv'
  <1>1. PICK q \in Tries, kind \in {"commit"} : StandsAt(a, q, kind)
    BY AttemptStands DEF Http!CommitTx
  <1>2. UNCHANGED <<handler, defect, doubled, restarted>>
    BY DEF Http!CommitTx, Http!rest
  <1>3. CASE /\ ~ (handler.guard \in {"key", "unique"} /\ Http!Taken)
             /\ Http!Change
             /\ \/ att' = [att EXCEPT ![a].at = @ + 1, ![a].changed = TRUE]
                \/ att' = [att EXCEPT ![a].answer = Http!Status("database"), ![a].changed = TRUE]
             /\ holder' = IF holder = a THEN 0 ELSE holder
             /\ UNCHANGED <<mounted, recorded>>
    <2>1. Makes(handler) /\ handler.guard \in {"unique", "key"} => items = 0
      <3>1. Makes(handler) => items \in Nat
        BY DoneCounts DEF HttpInv, Counted
      <3> QED
        BY <1>3, <3>1 DEF Http!Taken, Makes
    <2>2. /\ Makes(handler) => items' = items + 1
          /\ ~ Makes(handler) => items' \in {0, 1}
          /\ live' \in BOOLEAN /\ (live' => live)
      BY <1>3 DEF Http!Change, Makes, HttpInv, Counted, HttpShape
    <2>3. q \in Tries /\ att[a] = q /\ q.answer = "running" /\ kind \in Setting /\ kind # "make"
      BY <1>1 DEF StandsAt, Setting
    <2>4. Http!Status("database") = "failed"
      BY StatusIs
    <2>5. CASE att' = [att EXCEPT ![a].at = @ + 1, ![a].changed = TRUE]
      <3>1. PICK p : p = [q EXCEPT !.at = q.at + 1, !.changed = TRUE]
        OBVIOUS
      <3>2. /\ p \in Tries /\ p.at = q.at + 1 /\ p.changed /\ p.kept = q.kept /\ p.left = q.left
            /\ p.answer = "running"
        BY <2>3, <3>1, StepsOn
      <3>3. att' = [att EXCEPT ![a] = p]
        BY <2>3, <2>5, <3>1
      <3> QED
        BY <1>1, <1>2, <1>3, <2>1, <2>2, <2>3, <3>2, <3>3, ChangeKeeps
    <2>6. CASE att' = [att EXCEPT ![a].answer = Http!Status("database"), ![a].changed = TRUE]
      <3>1. PICK p : p = [q EXCEPT !.answer = "failed", !.changed = TRUE]
        OBVIOUS
      <3>2. /\ p \in Tries /\ p.at = q.at /\ p.changed /\ p.kept = q.kept /\ p.left = q.left
            /\ p.answer = "failed"
        BY <2>3, <3>1 DEF Tries, Answers
      <3>3. att' = [att EXCEPT ![a] = p]
        BY <2>3, <2>4, <2>6, <3>1
      <3> QED
        BY <1>1, <1>2, <1>3, <2>1, <2>2, <2>3, <3>2, <3>3, ChangeKeeps
    <2> QED
      BY <1>3, <2>5, <2>6
  <1>4. ASSUME NEW e, Http!Fail(a, e) PROVE HttpInv'
    BY <1>1, <1>2, <1>4, FailKeeps
  <1> QED
    BY <1>3, <1>4 DEF Http!CommitTx

\* The changes that are no commit.
LEMMA MakeDeleteTriggerKeep ==
  ASSUME HttpInv, NEW a \in Http!Attempts,
         Http!CreateVolume(a) \/ Http!DeleteVolume(a) \/ Http!TriggerNodePort(a)
  PROVE  HttpInv'
  <1>1. PICK q \in Tries, kind \in {"make", "delete", "trigger"} : StandsAt(a, q, kind)
    BY AttemptStands DEF Http!CreateVolume, Http!DeleteVolume, Http!TriggerNodePort
  <1>2. UNCHANGED <<handler, defect, doubled, restarted>>
    BY DEF Http!CreateVolume, Http!DeleteVolume, Http!TriggerNodePort, Http!rest
  <1>3. ASSUME NEW e, Http!Fail(a, e) PROVE HttpInv'
    BY <1>1, <1>2, <1>3, FailKeeps
  <1>4. ASSUME att' = [att EXCEPT ![a].at = @ + 1, ![a].changed = TRUE], UNCHANGED <<live, mounted, recorded, holder>>,
               kind = "make" => items = 0 /\ items' = items + 1,
               kind = "delete" => items' = 0,
               kind = "trigger" => items' = items + 1
        PROVE  HttpInv'
    <2>1. WellFormed(handler) /\ q.at \in Places(handler) /\ handler.steps[q.at] = kind
      BY <1>1, RoutesAreWellFormed DEF HttpInv, HttpShape, WellFormed, StandsAt, Places
    <2>2. /\ kind = "delete" => ~ Makes(handler)
          /\ kind = "make" => Makes(handler) /\ handler.guard = "checked"
          /\ kind = "trigger" => Makes(handler) /\ handler.guard = "recorded"
      BY <2>1 DEF WellFormed, GuardFits
    <2>3. /\ Makes(handler) => items' = items + 1
          /\ ~ Makes(handler) => items' \in {0, 1}
          /\ Makes(handler) /\ handler.guard \in {"unique", "key"} => items = 0
          /\ live' \in BOOLEAN /\ kind \in Setting
      BY <1>4, <2>2 DEF HttpInv, HttpShape, Setting
    <2>4. q \in Tries /\ att[a] = q /\ q.answer = "running"
      BY <1>1 DEF StandsAt
    <2>5. PICK p : p = [q EXCEPT !.at = q.at + 1, !.changed = TRUE]
      OBVIOUS
    <2>6. /\ p \in Tries /\ p.at = q.at + 1 /\ p.changed /\ p.kept = q.kept /\ p.left = q.left
          /\ p.answer = "running"
      BY <2>4, <2>5, StepsOn
    <2>7. att' = [att EXCEPT ![a] = p]
      BY <1>4, <2>4, <2>5
    <2> QED
      BY <1>1, <1>2, <1>4, <2>3, <2>4, <2>6, <2>7, ChangeKeeps
  <1>5. CASE Http!CreateVolume(a) /\ ~ \E e \in {"volume", "database"} : Http!Fail(a, e)
    <2>1. /\ ~ Http!Taken /\ items' = items + 1 /\ UNCHANGED <<live, mounted, recorded, holder>>
          /\ att' = [att EXCEPT ![a].at = @ + 1, ![a].changed = TRUE]
      BY <1>5 DEF Http!CreateVolume
    <2>2. kind = "make"
      BY <1>1, <1>5 DEF StandsAt, Http!CreateVolume, Http!At
    <2>3. Makes(handler)
      BY <1>1, <2>2, RoutesAreWellFormed DEF HttpInv, HttpShape, WellFormed, StandsAt, Places, GuardFits
    <2>4. items \in Nat
      BY <2>3, DoneCounts DEF HttpInv, Counted
    <2>5. items = 0
      BY <2>1, <2>3, <2>4 DEF Http!Taken, Makes
    <2> QED
      BY <1>4, <2>1, <2>2, <2>5
  <1>6. CASE Http!DeleteVolume(a) /\ ~ \E e \in {"volume", "database"} : Http!Fail(a, e)
    <2>1. /\ items' = 0 /\ UNCHANGED <<live, mounted, recorded, holder>>
          /\ att' = [att EXCEPT ![a].at = @ + 1, ![a].changed = TRUE]
      BY <1>6 DEF Http!DeleteVolume
    <2>2. kind = "delete"
      BY <1>1, <1>6 DEF StandsAt, Http!DeleteVolume, Http!At
    <2> QED
      BY <1>4, <2>1, <2>2
  <1>7. CASE Http!TriggerNodePort(a) /\ ~ Http!Fail(a, "service")
    <2>1. /\ items' = items + 1 /\ UNCHANGED <<live, mounted, recorded, holder>>
          /\ att' = [att EXCEPT ![a].at = @ + 1, ![a].changed = TRUE]
      BY <1>7 DEF Http!TriggerNodePort
    <2>2. kind = "trigger"
      BY <1>1, <1>7 DEF StandsAt, Http!TriggerNodePort, Http!At
    <2> QED
      BY <1>4, <2>1, <2>2
  <1> QED
    BY <1>3, <1>5, <1>6, <1>7

\* The volume is mounted, or it is deleted again, or that fails too and the volume is kept.
LEMMA MountKeeps ==
  ASSUME HttpInv, NEW a \in Http!Attempts, Http!MountVolume(a)
  PROVE  HttpInv'
  <1>1. PICK q \in Tries, kind \in {"mount"} : StandsAt(a, q, kind)
    BY AttemptStands DEF Http!MountVolume
  <1>2. UNCHANGED <<handler, defect, doubled, restarted>>
    BY DEF Http!MountVolume, Http!rest
  <1>3. /\ q \in Tries /\ q.at \in 1..Len(handler.steps) /\ q.answer = "running" /\ TryHeld(q)
        /\ att[a] = q /\ handler.steps[q.at] = "mount" /\ Http!Running(a)
    BY <1>1 DEF StandsAt, Http!Running
  <1>4. /\ Makes(handler) /\ handler.guard = "checked"
        /\ \E j \in 1..(q.at - 1) : handler.steps[j] = "make"
    BY <1>3, RoutesAreWellFormed DEF HttpInv, HttpShape, WellFormed, Places, GuardFits
  <1>5. q.changed /\ defect = "none"
    BY <1>1, <1>3, <1>4, NoDefectAtChange DEF TryHeld, Passed, Setting
  <1>6. CASE live /\ Http!Pass(a)
    <2>1. kind \notin Setting \cup {"begin", "open"} /\ mounted' \in BOOLEAN /\ recorded' \in BOOLEAN
      BY <1>6 DEF Setting, Http!Pass, HttpInv, HttpShape
    <2> QED
      BY <1>1, <1>2, <1>5, <1>6, <2>1, PassKeeps DEF Http!Pass
  <1>7. ASSUME NEW e, att' = [att EXCEPT ![a].answer = Http!Status(e), ![a].changed = FALSE],
               items' = items - 1, UNCHANGED <<live, mounted, recorded, holder>>
        PROVE  HttpInv'
    <2>1. PICK p : p = [q EXCEPT !.answer = Http!Status(e), !.changed = FALSE]
      OBVIOUS
    <2>2. Http!Status(e) \in {"refused", "failed"}
      BY StatusIs
    <2>3. /\ p \in Tries /\ p.at = q.at /\ ~ p.changed /\ p.kept = q.kept /\ p.left = q.left
          /\ p.answer \in {"refused", "failed"}
      BY <1>3, <2>1, <2>2 DEF Tries, Answers
    <2>4. att' = [att EXCEPT ![a] = p]
      BY <1>3, <1>7, <2>1
    <2>5. att'[a] = p /\ \A b \in Http!Attempts \ {a} : att'[b] = att[b]
      BY <2>4 DEF HttpInv, HttpShape
    <2>6. TryHeld(p)'
      BY <1>2, <1>3, <1>5, <2>3 DEF TryHeld
    <2>7. Counted'
      <3>1. PICK D : D = {b \in Http!Attempts : att[b].changed}
        OBVIOUS
      <3>2. {b \in Http!Attempts : att'[b].changed} = D \ {a} /\ a \in D
        BY <1>3, <1>5, <2>3, <2>5, <3>1
      <3>3. IsFiniteSet(D)
        BY <3>1, DoneCounts DEF HttpInv, DoneBy
      <3>4. Cardinality(D \ {a}) = Cardinality(D) - 1
        BY <3>2, <3>3, FS_RemoveElement
      <3>5. items = Cardinality(D)
        BY <1>4, <3>1 DEF HttpInv, Counted, DoneBy
      <3>6. items' = Cardinality({b \in Http!Attempts : att'[b].changed})
        BY <1>7, <3>2, <3>4, <3>5
      <3> QED
        BY <1>2, <1>4, <3>6 DEF Counted, DoneBy, Makes, Http!Attempts
    <2>8. MadeInv'
      <3>1. ~ doubled => items <= 1
        BY <1>4 DEF HttpInv, MadeInv
      <3>2. ~ doubled => \A b \in Http!Attempts : ~ AtCommit(b)'
        <4>1. \A b \in Http!Attempts : AtCommit(b)' => b # a /\ Http!Running(b)
          BY <2>3, <2>5 DEF AtCommit, Http!At, Http!Running
        <4> QED
          BY <1>3, <4>1 DEF HttpInv, SentInOrder
      <3> QED
        BY <1>2, <1>4, <1>7, <3>1, <3>2 DEF MadeInv, Makes, HttpInv, HttpShape, Http!Attempts
    <2>9. /\ items' \in Int /\ holder' \in 0..MaxAttempts /\ mounted' \in BOOLEAN /\ recorded' \in BOOLEAN
          /\ live' \in BOOLEAN /\ (live' => live) /\ p.answer # "none"
      BY <1>7, <2>3 DEF HttpInv, HttpShape
    <2> QED
      BY <1>2, <1>3, <2>3, <2>4, <2>6, <2>7, <2>8, <2>9, OneAttempt
  <1>8. ASSUME NEW e, att' = [att EXCEPT ![a].answer = Http!Status(e), ![a].kept = TRUE],
               items' = items, UNCHANGED <<live, mounted, recorded, holder>>
        PROVE  HttpInv'
    <2>1. PICK p : p = [q EXCEPT !.answer = Http!Status(e), !.kept = TRUE]
      OBVIOUS
    <2>2. Http!Status(e) \in {"refused", "failed"}
      BY StatusIs
    <2>3. /\ p \in Tries /\ p.at = q.at /\ p.changed = q.changed /\ p.kept /\ p.left = q.left
          /\ p.answer \in {"refused", "failed"}
      BY <1>3, <2>1, <2>2 DEF Tries, Answers
    <2>4. att' = [att EXCEPT ![a] = p]
      BY <1>3, <1>8, <2>1
    <2>5. TryHeld(p) /\ ~ Commits(p) /\ p.answer # "none"
      BY <1>3, <1>5, <2>3 DEF TryHeld, Commits
    <2>6. holder' \in 0..MaxAttempts /\ mounted' \in BOOLEAN /\ recorded' \in BOOLEAN
      BY <1>8 DEF HttpInv, HttpShape
    <2>7. p.changed = att[a].changed
      BY <1>3, <2>3
    <2> QED
      BY <1>2, <1>3, <1>8, <2>3, <2>4, <2>5, <2>6, <2>7, NothingMade
  <1> QED
    BY <1>6, <1>7, <1>8 DEF Http!MountVolume

\* The steps that look and go on, or refuse.
LEMMA LooksKeep ==
  ASSUME HttpInv, NEW a \in Http!Attempts,
         \/ Http!RequireAuth(a) \/ Http!RateLimit(a) \/ Http!BindForm(a) \/ Http!FindContainer(a) \/ Http!FindProject(a)
         \/ Http!CheckPermission(a) \/ Http!HidePermission(a) \/ Http!ReadRows(a) \/ Http!AskService(a)
         \/ Http!BestEffort(a) \/ Http!SendMail(a) \/ Http!UnmountVolume(a) \/ Http!CheckNodePort(a) \/ Http!SaveNodePort(a)
  PROVE  HttpInv'
  <1> DEFINE kinds == {"session", "limiter", "form", "find", "project", "allowed", "hidden", "read", "ask",
                       "list", "note", "mail", "unmount", "unused", "save"}
  <1>1. PICK q \in Tries, kind \in kinds : StandsAt(a, q, kind)
    <2>1. Http!At(a, kinds)
      BY DEF Http!At, Http!RequireAuth, Http!RateLimit, Http!BindForm, Http!FindContainer, Http!FindProject,
             Http!CheckPermission, Http!HidePermission, Http!ReadRows, Http!AskService, Http!BestEffort,
             Http!SendMail, Http!UnmountVolume, Http!CheckNodePort, Http!SaveNodePort
    <2> QED
      BY <2>1, AttemptStands
  <1>2. kind = handler.steps[att[a].at]
    BY <1>1 DEF StandsAt
  <1>3. UNCHANGED <<handler, defect, doubled, restarted>>
    BY DEF Http!rest, Http!RequireAuth, Http!RateLimit, Http!BindForm, Http!FindContainer, Http!FindProject,
           Http!CheckPermission, Http!HidePermission, Http!ReadRows, Http!AskService, Http!BestEffort,
           Http!SendMail, Http!UnmountVolume, Http!CheckNodePort, Http!SaveNodePort
  <1>4. defect \in {"none", "session", "form", "allowed"} /\ mounted \in BOOLEAN /\ recorded \in BOOLEAN
    BY DEF HttpInv, HttpShape, Http!Defects
  <1>5. kind \notin Setting \cup {"begin", "open"}
    BY DEF Setting
  <1>6. ASSUME att' = [att EXCEPT ![a].at = @ + 1], UNCHANGED <<live, items, holder>>,
               mounted' \in BOOLEAN, recorded' \in BOOLEAN,
               kind = "session" => defect # "session", kind = "form" => defect # "form",
               kind \in {"allowed", "hidden"} => defect # "allowed"
        PROVE  HttpInv'
    <2>1. defect = "none" \/ kind \notin Refusing(defect)
      BY <1>4, <1>6 DEF Refusing
    <2> QED
      BY <1>1, <1>3, <1>5, <1>6, <2>1, PassKeeps
  <1>7. ASSUME Http!Pass(a),
               kind = "session" => defect # "session", kind = "form" => defect # "form",
               kind \in {"allowed", "hidden"} => defect # "allowed"
        PROVE  HttpInv'
    BY <1>4, <1>6, <1>7 DEF Http!Pass
  <1>8. ASSUME NEW e, Http!Fail(a, e),
               kind \in {"find", "allowed", "mail", "save"} => e \in {"database", "mail"} \/ ~ live \/ defect # "none",
               kind \in {"mail", "save"} => e \in {"database", "mail"}
        PROVE  HttpInv'
    BY <1>1, <1>3, <1>8, FailKeeps
  <1>9. CASE Http!RequireAuth(a) \/ Http!BindForm(a)
    <2>1. /\ kind = "session" \/ kind = "form"
          /\ \/ Http!Pass(a) /\ (kind = "session" => defect # "session") /\ (kind = "form" => defect # "form")
             \/ \E e \in {"unauthorized", "bad_form"} : Http!Fail(a, e)
      BY <1>2, <1>9 DEF Http!RequireAuth, Http!BindForm, Http!At
    <2> QED
      BY <1>7, <1>8, <2>1
  <1>10. CASE Http!FindContainer(a) \/ Http!FindProject(a)
    <2>1. /\ kind = "find" \/ kind = "project"
          /\ \/ Http!Pass(a)
             \/ ~ live /\ \E e \in {"gone", "no_project"} : Http!Fail(a, e)
             \/ Http!Fail(a, "database")
      BY <1>2, <1>10 DEF Http!FindContainer, Http!FindProject, Http!At
    <2> QED
      BY <1>7, <1>8, <2>1
  <1>11. CASE Http!CheckPermission(a)
    <2>1. /\ kind = "allowed"
          /\ \/ defect # "allowed" /\ Http!Pass(a)
             \/ ~ live /\ Http!Fail(a, "gone")
             \/ defect # "none" /\ Http!Fail(a, "denied")
             \/ Http!Fail(a, "database")
      BY <1>2, <1>11 DEF Http!CheckPermission, Http!At
    <2> QED
      BY <1>7, <1>8, <2>1
  <1>12. CASE Http!HidePermission(a)
    <2>1. kind = "hidden" /\ ((defect # "allowed" /\ Http!Pass(a)) \/ Http!Fail(a, "no_project"))
      BY <1>2, <1>12 DEF Http!HidePermission, Http!At
    <2> QED
      BY <1>7, <1>8, <2>1
  <1>13. CASE Http!ReadRows(a) \/ Http!AskService(a) \/ Http!BestEffort(a) \/ Http!CheckNodePort(a)
    <2>1. /\ kind \in {"read", "ask", "list", "note", "unused"}
          /\ Http!Pass(a) \/ \E e \in {"database", "service", "refused_by_service", "conflict"} : Http!Fail(a, e)
      BY <1>2, <1>13 DEF Http!ReadRows, Http!AskService, Http!BestEffort, Http!CheckNodePort, Http!At
    <2> QED
      BY <1>7, <1>8, <2>1
  <1>14. CASE Http!SendMail(a)
    <2>1. kind = "mail" /\ (Http!Pass(a) \/ Http!Fail(a, "mail"))
      BY <1>2, <1>14 DEF Http!SendMail, Http!At
    <2> QED
      BY <1>7, <1>8, <2>1
  <1>15. CASE Http!UnmountVolume(a) \/ Http!SaveNodePort(a)
    <2>1. /\ kind \in {"unmount", "save"}
          /\ \/ /\ att' = [att EXCEPT ![a].at = @ + 1] /\ UNCHANGED <<live, items, holder>>
                /\ mounted' \in {FALSE, mounted} /\ recorded' \in {TRUE, recorded}
             \/ Http!Fail(a, "database")
      BY <1>2, <1>15 DEF Http!UnmountVolume, Http!SaveNodePort, Http!At
    <2>2. CASE Http!Fail(a, "database")
      BY <1>8, <2>2
    <2>3. CASE /\ att' = [att EXCEPT ![a].at = @ + 1] /\ UNCHANGED <<live, items, holder>>
               /\ mounted' \in {FALSE, mounted} /\ recorded' \in {TRUE, recorded}
      BY <1>4, <1>6, <2>1, <2>3
    <2> QED
      BY <2>1, <2>2, <2>3
  <1>16. CASE Http!RateLimit(a)
    <2>1. /\ kind = "limiter"
          /\ Http!Pass(a) \/ (Http!Answer(a, "refused") /\ UNCHANGED <<live, items, mounted, recorded>>)
      BY <1>2, <1>16 DEF Http!RateLimit, Http!At
    <2>2. ~ q.changed
      BY <1>1, <2>1, NothingChangedYet
    <2>3. CASE Http!Answer(a, "refused") /\ UNCHANGED <<live, items, mounted, recorded>>
      BY <1>1, <1>3, <2>2, <2>3, AnswerKeeps
    <2> QED
      BY <1>7, <2>1, <2>3
  <1> QED
    BY <1>9, <1>10, <1>11, <1>12, <1>13, <1>14, <1>15, <1>16

\* An attempt that has passed every step has done what was asked for.
LEMMA SucceedKeeps ==
  ASSUME HttpInv, NEW a \in Http!Attempts, Http!Succeed(a)
  PROVE  HttpInv'
  <1>1. PICK q \in Tries : q = att[a] /\ TryHeld(q) /\ q.answer = "running"
    BY DEF HttpInv, HttpShape, Tried, Http!Succeed, Http!Running
  <1>2. PICK p : p = [q EXCEPT !.answer = "ok"]
    OBVIOUS
  <1>3. /\ p \in Tries /\ p.at = q.at /\ p.answer = "ok"
        /\ p.left = q.left /\ p.changed = q.changed /\ p.kept = q.kept
    BY <1>1, <1>2 DEF Tries, Answers
  <1>4. Len(handler.steps) \in Nat
    BY RoutesAreWellFormed DEF HttpInv, HttpShape, WellFormed
  <1>5. TryHeld(p)
    BY <1>1, <1>3, <1>4 DEF TryHeld, Passed, Http!Succeed
  <1>6. /\ att' = [att EXCEPT ![a] = p] /\ holder' = (IF holder = a THEN 0 ELSE holder)
        /\ UNCHANGED <<handler, defect, doubled, restarted, live, items, mounted, recorded>>
    BY <1>1, <1>2 DEF Http!Succeed, Http!Answer, Http!rest
  <1>7. /\ holder' \in 0..MaxAttempts /\ \A b \in Http!Attempts \ {a} : holder = b => holder' = b
        /\ mounted' \in BOOLEAN /\ recorded' \in BOOLEAN
    BY <1>6, HttpFacts DEF HttpInv, HttpShape
  <1>8. Http!Running(a) /\ p.changed = att[a].changed /\ ~ Commits(p)
    BY <1>1, <1>3 DEF Http!Running, Commits
  <1> QED
    BY <1>3, <1>5, <1>6, <1>7, <1>8, NothingMade

LEMMA StopKeeps ==
  ASSUME HttpInv, NEW a \in Http!Attempts, Http!StopWaiting(a)
  PROVE  HttpInv'
  <1>1. PICK q \in Tries : q = att[a] /\ TryHeld(q) /\ q.answer = "running"
    BY DEF HttpInv, HttpShape, Tried, Http!StopWaiting, Http!Running
  <1>2. PICK p : p = [q EXCEPT !.left = TRUE]
    OBVIOUS
  <1>3. /\ p \in Tries /\ p.at = q.at /\ p.answer = "running" /\ p.changed = q.changed /\ p.kept = q.kept
    BY <1>1, <1>2 DEF Tries
  <1>4. TryHeld(p)
    BY <1>1, <1>3 DEF TryHeld, Passed
  <1>5. /\ att' = [att EXCEPT ![a] = p]
        /\ UNCHANGED <<handler, defect, doubled, restarted, live, items, mounted, recorded, holder>>
    BY <1>1, <1>2 DEF Http!StopWaiting, Http!rest
  <1>6. Commits(p) => AtCommit(a)
    <2>1. Len(handler.steps) \in Nat
      BY RoutesAreWellFormed DEF HttpInv, HttpShape, WellFormed
    <2> QED
      BY <1>1, <1>3, <2>1 DEF Commits, AtCommit, Http!At, Http!Running
  <1>7. /\ Commits(p) /\ Makes(handler) /\ handler.guard = "locked" => holder = a /\ items = 0
        /\ Commits(p) /\ Makes(handler) /\ handler.guard = "checked" /\ ~ doubled => items = 0
    BY <1>6 DEF HttpInv, MadeInv
  <1>8. Http!Running(a) /\ p.changed = att[a].changed
    BY <1>1, <1>3 DEF Http!Running
  <1>9. mounted' \in BOOLEAN /\ recorded' \in BOOLEAN /\ holder' \in 0..MaxAttempts
    BY <1>5 DEF HttpInv, HttpShape
  <1> QED
    BY <1>3, <1>4, <1>5, <1>7, <1>8, <1>9, NothingMade

\* A new attempt begins where nothing is done; the earlier ones have all been sent.
LEMMA SendKeeps ==
  ASSUME HttpInv, NEW a \in Http!Attempts, Http!Send(a)
  PROVE  HttpInv'
  <1>1. PICK q \in Tries : q = att[a] /\ TryHeld(q) /\ q.answer = "none"
    BY DEF HttpInv, HttpShape, Tried, Http!Send
  <1>2. PICK p : p = [q EXCEPT !.answer = "running"]
    OBVIOUS
  <1>3. WellFormed(handler) /\ Len(handler.steps) \in Nat
    BY RoutesAreWellFormed DEF HttpInv, HttpShape, WellFormed
  <1>4. /\ p \in Tries /\ p.at = 1 /\ p.answer = "running" /\ ~ p.left /\ ~ p.changed /\ ~ p.kept /\ ~ q.changed
    BY <1>1, <1>2 DEF Tries, Answers, TryHeld
  <1>5. TryHeld(p)
    BY <1>3, <1>4 DEF TryHeld, Passed
  <1>6. /\ att' = [att EXCEPT ![a] = p]
        /\ UNCHANGED <<handler, defect, live, items, mounted, recorded, holder, restarted>>
        /\ doubled' = (doubled \/ \E b \in 1..(a - 1) : Http!Running(b))
    BY <1>1, <1>2 DEF Http!Send
  <1>7. /\ att'[a] = p /\ \A b \in Http!Attempts \ {a} : att'[b] = att[b]
        /\ att' \in [Http!Attempts -> Tries]
    BY <1>4, <1>6 DEF HttpInv, HttpShape
  <1>8. HttpShape'
    BY <1>6, <1>7 DEF HttpInv, HttpShape, Http!Attempts
  <1>9. ASSUME NEW b \in Http!Attempts, b < a PROVE att[b].answer # "none"
    <2>1. att[b].answer \in {"failed", "lost"} \/ att[b].left
      BY <1>9, HttpFacts DEF Http!Send
    <2>2. TryHeld(att[b])
      BY DEF HttpInv, Tried
    <2> QED
      BY <2>1, <2>2 DEF TryHeld
  <1>10. ASSUME NEW b \in Http!Attempts, b > a PROVE att[b].answer = "none"
    <2>1. a \in 1..(b - 1)
      BY <1>10, HttpFacts
    <2> QED
      BY <1>1, <2>1 DEF HttpInv, SentInOrder
  <1>11. SentInOrder'
    <2>1. \A b \in Http!Attempts : att'[b].answer # "none" => \A c \in 1..(b - 1) : att'[c].answer # "none"
      <3>1. SUFFICES ASSUME NEW b \in Http!Attempts, att'[b].answer # "none", NEW c \in 1..(b - 1)
                     PROVE att'[c].answer # "none"
        OBVIOUS
      <3>2. c \in Http!Attempts /\ c < b
        BY HttpFacts
      <3>3. b <= a
        BY <1>7, <1>10, <3>1, HttpFacts
      <3> QED
        BY <1>4, <1>7, <1>9, <3>2, <3>3, HttpFacts
    <2>2. ~ doubled' => \A b \in Http!Attempts : att'[b].answer = "running" => b = a
      <3>1. SUFFICES ASSUME ~ doubled', NEW b \in Http!Attempts, att'[b].answer = "running", b # a PROVE FALSE
        OBVIOUS
      <3>2. att[b].answer = "running"
        BY <1>7, <3>1
      <3>3. b < a
        BY <1>10, <3>1, <3>2, HttpFacts
      <3>4. b \in 1..(a - 1)
        BY <3>3, HttpFacts
      <3> QED
        BY <1>6, <3>1, <3>2, <3>4 DEF Http!Running
    <2> QED
      BY <2>1, <2>2 DEF SentInOrder, Http!Running, Http!Attempts
  <1>12. Counted'
    <2>1. {b \in Http!Attempts : att'[b].changed} = {b \in Http!Attempts : att[b].changed}
      BY <1>1, <1>4, <1>7
    <2> QED
      BY <1>6, <2>1 DEF HttpInv, Counted, DoneBy, Makes, Http!Attempts
  <1>13. MadeInv'
    <2>1. handler.guard \in {"locked", "checked"} => ~ AtCommit(a)'
      <3>1. SUFFICES ASSUME handler.guard \in {"locked", "checked"}, AtCommit(a)' PROVE FALSE
        OBVIOUS
      <3>2. 1 \in Places(handler) /\ handler.steps[1] = "commit"
        BY <1>3, <1>4, <1>6, <1>7, <3>1 DEF AtCommit, Http!At, Places
      <3> QED
        BY <1>3, <3>1, <3>2 DEF WellFormed, GuardFits
    <2>2. \A b \in Http!Attempts \ {a} : AtCommit(b)' => AtCommit(b)
      BY <1>6, <1>7 DEF AtCommit, Http!At, Http!Running
    <2>3. ~ doubled' => ~ doubled
      BY <1>6
    <2>4. Makes(handler) /\ handler.guard = "locked" =>
            items <= 1 /\ \A b \in Http!Attempts : AtCommit(b)' => holder = b /\ items = 0
      BY <2>1, <2>2 DEF HttpInv, MadeInv
    <2>5. Makes(handler) /\ handler.guard = "checked" /\ ~ doubled' =>
            items <= 1 /\ \A b \in Http!Attempts : AtCommit(b)' => items = 0
      BY <2>1, <2>2, <2>3 DEF HttpInv, MadeInv
    <2>6. Makes(handler) /\ handler.guard \in {"unique", "key"} => items <= 1
      BY DEF HttpInv, MadeInv
    <2> QED
      BY <1>6, <2>4, <2>5, <2>6 DEF MadeInv, Makes, Http!Attempts
  <1>14. ASSUME NEW b \in Http!Attempts PROVE Tried(b)'
    <2>1. CASE b = a
      BY <1>5, <1>6, <1>7, <2>1 DEF Tried, TryHeld, Passed, Http!Has
    <2>2. CASE b # a
      <3>1. att'[b] = att[b] /\ Tried(b)
        BY <1>7, <2>2 DEF HttpInv
      <3> QED
        BY <1>6, <3>1 DEF Tried, TryHeld, Passed, Http!Has
    <2> QED
      BY <2>1, <2>2
  <1> QED
    BY <1>8, <1>11, <1>12, <1>13, <1>14 DEF HttpInv, Http!Attempts

LEMMA OthersDeleteKeeps ==
  ASSUME HttpInv, Http!OthersDelete
  PROVE  HttpInv'
  <1>1. live' = FALSE /\ UNCHANGED <<items, mounted, recorded, holder, att, handler, defect, doubled, restarted>>
    BY DEF Http!OthersDelete, Http!rest
  <1>2. HttpShape' /\ SentInOrder' /\ Counted' /\ MadeInv'
    BY <1>1 DEF HttpInv, HttpShape, SentInOrder, Counted, MadeInv, Makes, DoneBy, AtCommit, Http!At, Http!Running, Http!Attempts
  <1>3. \A b \in Http!Attempts : Tried(b)'
    BY <1>1 DEF HttpInv, Tried, TryHeld, Passed, Http!Has
  <1> QED
    BY <1>2, <1>3 DEF HttpInv, Http!Attempts

\* What the process had not committed is gone with it, and nobody holds a lock.
LEMMA RestartKeeps ==
  ASSUME HttpInv, Http!Restart
  PROVE  HttpInv'
  <1>1. /\ restarted' = TRUE /\ holder' = 0
        /\ att' = [a \in Http!Attempts |-> IF Http!Running(a) THEN [att[a] EXCEPT !.answer = "lost"] ELSE att[a]]
        /\ UNCHANGED <<handler, defect, live, items, mounted, recorded, doubled>>
    BY DEF Http!Restart
  <1>2. ASSUME NEW b \in Http!Attempts
        PROVE  /\ att'[b] \in Tries /\ att'[b].at = att[b].at /\ att'[b].left = att[b].left
               /\ att'[b].changed = att[b].changed /\ att'[b].kept = att[b].kept
               /\ att[b].answer = "running" => att'[b].answer = "lost"
               /\ att[b].answer # "running" => att'[b].answer = att[b].answer
    <2>1. PICK q \in Tries : q = att[b]
      BY DEF HttpInv, HttpShape
    <2>2. PICK p : p = [q EXCEPT !.answer = "lost"]
      OBVIOUS
    <2>3. /\ p \in Tries /\ p.at = q.at /\ p.answer = "lost"
          /\ p.left = q.left /\ p.changed = q.changed /\ p.kept = q.kept
      BY <2>1, <2>2 DEF Tries, Answers
    <2>4. att'[b] = IF q.answer = "running" THEN p ELSE q
      BY <1>1, <2>1, <2>2 DEF Http!Running
    <2> QED
      BY <2>1, <2>3, <2>4
  <1>3. \A b \in Http!Attempts : att'[b].answer # "running"
    BY <1>2
  <1>4. HttpShape'
    <2>1. att' \in [Http!Attempts -> Tries]
      BY <1>1, <1>2
    <2> QED
      BY <1>1, <2>1, HttpFacts DEF HttpInv, HttpShape, Http!Attempts
  <1>5. SentInOrder'
    <2>1. \A b \in Http!Attempts : att'[b].answer # "none" <=> att[b].answer # "none"
      BY <1>2
    <2> QED
      BY <1>3, <2>1, HttpFacts DEF HttpInv, SentInOrder, Http!Running, Http!Attempts
  <1>6. Counted'
    <2>1. {b \in Http!Attempts : att'[b].changed} = {b \in Http!Attempts : att[b].changed}
      BY <1>2
    <2> QED
      BY <1>1, <2>1 DEF HttpInv, Counted, DoneBy, Makes, Http!Attempts
  <1>7. MadeInv'
    BY <1>1, <1>3 DEF HttpInv, MadeInv, Makes, AtCommit, Http!At, Http!Running, Http!Attempts
  <1>8. ASSUME NEW b \in Http!Attempts PROVE Tried(b)'
    <2>1. PICK q \in Tries, p \in Tries : q = att[b] /\ p = att'[b]
      BY <1>2 DEF HttpInv, HttpShape
    <2>2. TryHeld(q)
      BY <2>1 DEF HttpInv, Tried
    <2>3. TryHeld(p)
      BY <1>2, <2>1, <2>2 DEF TryHeld, Passed
    <2> QED
      BY <1>1, <2>1, <2>3 DEF Tried, TryHeld, Passed, Http!Has
  <1> QED
    BY <1>4, <1>5, <1>6, <1>7, <1>8 DEF HttpInv, Http!Attempts

LEMMA HttpInvStep == HttpInv /\ [Http!HttpNext]_hvars => HttpInv'
  <1>1. ASSUME HttpInv, UNCHANGED hvars PROVE HttpInv'
    BY <1>1 DEF hvars, HttpInv, HttpShape, SentInOrder, Counted, MadeInv, Makes, DoneBy, AtCommit, Http!At,
                Http!Running, Http!Attempts, Tried, TryHeld, Passed, Http!Has
  <1>2. ASSUME HttpInv, NEW a \in Http!Attempts, Http!HttpStep(a) PROVE HttpInv'
    BY <1>2, LooksKeep, BeginKeeps, CommitKeeps, MakeDeleteTriggerKeep, MountKeeps, SucceedKeeps
    DEF Http!HttpStep
  <1> QED
    BY <1>1, <1>2, SendKeeps, StopKeeps, OthersDeleteKeeps, RestartKeeps DEF Http!HttpNext

LEMMA HttpInvInit == Http!HttpInit => HttpInv
  <1> SUFFICES ASSUME Http!HttpInit PROVE HttpInv
    OBVIOUS
  <1>1. PICK q : q = Http!NotSent
    OBVIOUS
  <1>2. /\ q \in Tries /\ q.at = 1 /\ q.answer = "none" /\ ~ q.left /\ ~ q.changed /\ ~ q.kept
    BY <1>1 DEF Http!NotSent, Tries, Answers
  <1>3. \A a \in Http!Attempts : att[a] = q
    BY <1>1 DEF Http!HttpInit
  <1>4. HttpShape
    <2>1. att \in [Http!Attempts -> Tries]
      BY <1>1, <1>2 DEF Http!HttpInit
    <2>2. items \in Int /\ holder \in 0..MaxAttempts
      BY HttpFacts DEF Http!HttpInit
    <2>3. {live, mounted, recorded, doubled, restarted} \subseteq BOOLEAN
      BY DEF Http!HttpInit
    <2> QED
      BY <2>1, <2>2, <2>3 DEF HttpShape, Http!HttpInit
  <1>5. WellFormed(handler) /\ Len(handler.steps) \in Nat
    BY <1>4, RoutesAreWellFormed DEF HttpShape, WellFormed
  <1>6. SentInOrder
    BY <1>2, <1>3 DEF SentInOrder, Http!Running
  <1>7. Counted
    <2>1. {a \in Http!Attempts : DoneBy(a)} = {}
      BY <1>2, <1>3 DEF DoneBy
    <2>2. Cardinality({a \in Http!Attempts : DoneBy(a)}) = 0
      BY <2>1, FS_EmptySet
    <2> QED
      BY <2>2 DEF Counted, Makes, Http!HttpInit
  <1>8. MadeInv
    BY <1>2, <1>3 DEF MadeInv, Makes, AtCommit, Http!At, Http!Running, Http!HttpInit
  <1>9. ASSUME NEW a \in Http!Attempts PROVE Tried(a)
    <2>1. TryHeld(q)
      BY <1>2, <1>5 DEF TryHeld, Passed
    <2> QED
      BY <1>3, <2>1 DEF Tried
  <1> QED
    BY <1>4, <1>6, <1>7, <1>8, <1>9 DEF HttpInv

LEMMA HttpInvHolds == MCSpec => []HttpInv
  <1>1. MCInit => Http!HttpInit
    BY DEF MCInit
  <1>2. [MCNext]_allvars => [Http!HttpNext]_hvars
    BY DEF MCNext, allvars, hvars
  <1> QED
    BY <1>1, <1>2, HttpInvInit, HttpInvStep, PTL DEF MCSpec

\* A request that is sent again makes its thing once, unless two attempts were at work beside a check
\* of a snapshot, or a node port's run was not written down; a success has changed what was asked for
\* and a refusal nothing; and a defective request changes nothing, at no moment and on no route
\* (the handlers and use cases behind router.go).
THEOREM RequestsAreHonestHolds == MCSpec => []RequestsAreHonest
  <1>1. HttpInv => RequestsAreHonest
    <2> SUFFICES ASSUME HttpInv PROVE RequestsAreHonest
      OBVIOUS
    <2>1. WellFormed(handler)
      BY RoutesAreWellFormed DEF HttpInv, HttpShape
    <2>2. Http!MadeOnce
      BY <2>1 DEF HttpInv, MadeInv, Makes, WellFormed, GuardFits, Http!MadeOnce
    <2>3. Http!AnswersAreTrue
      <3>1. SUFFICES ASSUME NEW a \in Http!Attempts
                     PROVE  /\ att[a].answer = "ok" /\ handler.does # "none" => att[a].changed
                            /\ att[a].answer = "refused" /\ att[a].changed => (~ live /\ Http!Has({"find"})) \/ att[a].kept
        BY DEF Http!AnswersAreTrue
      <3>2. TryHeld(att[a])
        BY DEF HttpInv, Tried
      <3>3. ASSUME att[a].answer = "ok", handler.does # "none" PROVE Passed(att[a], Setting)
        <4>1. PICK i \in Places(handler) : handler.steps[i] \in Setting
          BY <2>1, <3>3 DEF WellFormed, GuardFits, Looks
        <4>2. att[a].at = Len(handler.steps) + 1 /\ Len(handler.steps) \in Nat
          BY <2>1, <3>2, <3>3 DEF TryHeld, WellFormed
        <4>3. i \in 1..(att[a].at - 1)
          BY <4>1, <4>2 DEF Places
        <4> QED
          BY <4>1, <4>3 DEF Passed
      <3> QED
        BY <3>2, <3>3 DEF TryHeld
    <2>4. Http!DefectsChangeNothing
      BY DEF HttpInv, Tried, TryHeld, Http!DefectsChangeNothing
    <2> QED
      BY <2>2, <2>3, <2>4 DEF RequestsAreHonest, Http!RequestsAreHonest
  <1> QED
    BY <1>1, HttpInvHolds, PTL

\* Users, tokens, installations, OAuth states, HTTP requests and their attempts keep their shape.
THEOREM UsersTypeCorrect == MCSpec => []UsersTypeOK
  <1>1. HttpInv => Http!HttpTypeOK
    <2> SUFFICES ASSUME HttpInv PROVE Http!HttpTypeOK
      OBVIOUS
    <2>1. items \in 0..MaxAttempts
      BY DoneCounts, HttpFacts DEF HttpInv, Counted
    <2>2. ASSUME NEW a \in Http!Attempts
          PROVE  /\ att[a].at \in 1..(Len(handler.steps) + 1) /\ att[a].answer \in Answers
                 /\ {att[a].left, att[a].changed, att[a].kept} \subseteq BOOLEAN
      BY DEF HttpInv, HttpShape, Tried, TryHeld, Tries
    <2> QED
      BY <2>1, <2>2 DEF HttpInv, HttpShape, Http!HttpTypeOK, Answers
  <1>2. MCInit => Init
    BY DEF MCInit
  <1>3. [MCNext]_allvars => [Next]_vars
    BY DEF MCNext, allvars, vars
  <1>4. MCSpec => Spec
    BY <1>2, <1>3, PTL DEF MCSpec, Spec
  <1>5. TypeOK /\ Github!InstallationsTypeOK /\ Http!HttpTypeOK => UsersTypeOK
    BY DEF UsersTypeOK
  <1> QED
    BY <1>1, <1>4, <1>5, HttpInvHolds, TypeCorrect, InstallationsTypeCorrect, PTL
=============================================================================
