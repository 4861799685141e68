------------------------------ MODULE Accounts ------------------------------
(***************************************************************************)
(* Accounts (internal/user): registration, verification of the e-mail     *)
(* address, login, password reset, password and profile changes.          *)
(*                                                                         *)
(* A use case reads the account, computes the whole row it will write and *)
(* writes it later: userRepository.Update writes every column of the row  *)
(* it was given.  The use cases that run in a transaction (REPEATABLE     *)
(* READ: their reads are those of the first one) take effect at their     *)
(* commit, the two that do not at their single UPDATE.  An open request   *)
(* therefore holds the row it is going to write, the token it is going to *)
(* mark as used and the token it is going to insert.                      *)
(***************************************************************************)
EXTENDS Integers, FiniteSets

CONSTANTS
  Emails,          \* accounts are known by their unique e-mail address
  Passwords,       \* passwords a client may send
  Strong,          \* those of at least eight characters
  Names,           \* nicknames
  Requests,        \* requests the server handles at the same time
  TokenIds,        \* rows of verification_tokens (a bound on their number)
  NoUser, NoToken, Idle,
  ResendInterval,  \* five minutes
  ResetLife,       \* one hour
  VerifyLife,      \* twenty-four hours
  MaxTime          \* bound on the clock

ASSUME AccountsAssumption ==
  /\ Strong \subseteq Passwords
  /\ ResendInterval \in Nat /\ ResetLife \in Nat /\ VerifyLife \in Nat
  /\ MaxTime \in Nat
  /\ NoToken \notin TokenIds

VARIABLES
  users,       \* users[e]: the row of the account, or NoUser
  tokens,      \* tokens[t]: the row of the token, or NoToken
  issued,      \* ids the database has given out; they are never given again
  mailed,      \* tokens whose link has reached its mailbox
  sessions,    \* accounts whose owner holds a valid JWT
  req,         \* req[r]: the open request, or Idle
  now,
  chosen,      \* history: the password the owner chose last
  uses,        \* history: how often the token was marked as used
  overlapped   \* history: accounts of which two requests were open at once

vars == <<users, tokens, issued, mailed, sessions, req, now, chosen, uses,
          overlapped>>

-----------------------------------------------------------------------------
(* The rows. *)

Users == [status : {"pending", "active"}, password : Strong, nickname : Names]
Times == 0..(MaxTime + ResetLife + VerifyLife)
Tokens == [user : Emails, type : {"email_verification", "password_reset"},
           created : Times, expires : Times, used : BOOLEAN]
Ops == {"register", "verify", "resend", "request_reset", "reset",
        "change", "profile"}
Open == [op : Ops, email : Emails, pc : {"checked", "commit", "mail"},
         write : Users \cup {NoUser}, use : TokenIds \cup {NoToken},
         fresh : Tokens \cup {NoToken}, password : Strong \cup {NoUser}]

(* The null values are none of the rows. *)
ASSUME NullsAssumption == NoUser \notin Users /\ NoToken \notin Tokens

\* Mutant: accounts start active.
NewActiveUser(p, n) == [status |-> "active", password |-> p, nickname |-> n]
(* New accounts are pending. *)
NewUser(p, n) == [status |-> "pending", password |-> p, nickname |-> n]
IsActive(u) == u.status = "active"
Activate(u) == [u EXCEPT !.status = "active"]
\* Mutant: the new hash is not assigned.
UpdatePasswordKept(u, p) == u
UpdatePassword(u, p) == [u EXCEPT !.password = p]
SetNickname(u, n) == [u EXCEPT !.nickname = n]

NewEmailVerificationToken(e) ==
  [user |-> e, type |-> "email_verification", created |-> now,
   expires |-> now + VerifyLife, used |-> FALSE]
NewPasswordResetToken(e) ==
  [user |-> e, type |-> "password_reset", created |-> now,
   expires |-> now + ResetLife, used |-> FALSE]
IsExpired(tk) == now > tk.expires
\* Mutant: only the expiry is looked at.
ValidateExpiry(tk) == ~IsExpired(tk)
Validate(tk) == ~tk.used /\ ~IsExpired(tk)

-----------------------------------------------------------------------------
(* Queries: what a request reads is the state of its first read. *)

ExistsByEmail(e) == users[e] # NoUser
FindByToken(t) == tokens[t]
TokensOf(e, type) ==
  {t \in TokenIds : tokens[t] # NoToken
                    /\ tokens[t].user = e /\ tokens[t].type = type}
\* Mutant: ORDER BY created_at ASC.
OldestTokens(e, type) ==
  {t \in TokensOf(e, type) :
     \A s \in TokensOf(e, type) : tokens[t].created <= tokens[s].created}
(* SELECT ... ORDER BY created_at DESC LIMIT 1: any of the youngest rows. *)
LatestTokens(e, type) ==
  {t \in TokensOf(e, type) :
     \A s \in TokensOf(e, type) : tokens[s].created <= tokens[t].created}

\* Mutant: the length of the password is not checked.
AnyPassword(p) == p \in Passwords
(* Input checks of the authentication service: passwords that are too      *)
(* short are refused before anything is read; the other format checks do   *)
(* not matter here.                                                        *)
ValidPassword(p) == p \in Strong

CanResendVerificationEmail(e) ==
  \A t \in LatestTokens(e, "email_verification") :
    now - tokens[t].created >= ResendInterval

\* Mutant: the type of the token is not compared.
CanUseAnyToken(t, type) ==
  /\ FindByToken(t) # NoToken
  /\ Validate(tokens[t])
(* The token a link carries is stored, of the expected type, unused and    *)
(* not expired.                                                            *)
CanUseToken(t, type) ==
  /\ FindByToken(t) # NoToken
  /\ tokens[t].type = type
  /\ Validate(tokens[t])

AuthenticateUser(e, p) ==
  /\ ExistsByEmail(e)
  /\ IsActive(users[e])
  /\ users[e].password = p

-----------------------------------------------------------------------------
(* Writes. *)

CreateToken(ts, t, tk) == [ts EXCEPT ![t] = tk]
(* UPDATE verification_tokens SET used_at = ? WHERE token_id = ?: no       *)
(* condition on used_at, and a row that has gone is no error.              *)
MarkAsUsed(ts, t) == IF ts[t] = NoToken THEN ts ELSE [ts EXCEPT ![t].used = TRUE]
\* Mutant: only used tokens are deleted.
DeleteUsedTokens(ts, e, type) ==
  [t \in TokenIds |->
     IF ts[t] # NoToken /\ ts[t].user = e /\ ts[t].type = type /\ ts[t].used
     THEN NoToken ELSE ts[t]]
DeleteUserTokens(ts, e, type) ==
  [t \in TokenIds |->
     IF ts[t] # NoToken /\ ts[t].user = e /\ ts[t].type = type
     THEN NoToken ELSE ts[t]]
(* UPDATE USERS SET <every column> WHERE user_id = ?. *)
UpdateUserRow(e, u) == users' = [users EXCEPT ![e] = u]

(* A request that will write the account opens; history notes whether      *)
(* another one of the same account is open.                                *)
Begin(r, x) ==
  /\ req[r] = Idle
  /\ req' = [req EXCEPT ![r] = x]
  /\ overlapped' =
       IF \E s \in Requests \ {r} : req[s] # Idle /\ req[s].email = x.email
                                     /\ req[s].pc # "mail"
       THEN overlapped \cup {x.email} ELSE overlapped
  /\ UNCHANGED <<users, tokens, issued, mailed, sessions, now, chosen, uses>>

Request(op, e, pc, write, use, fresh, p) ==
  [op |-> op, email |-> e, pc |-> pc, write |-> write, use |-> use,
   fresh |-> fresh, password |-> p]

Ready(r, op) == req[r] # Idle /\ req[r].op = op /\ req[r].pc = "commit"
End(r) == req' = [req EXCEPT ![r] = Idle]

(* INSERT INTO verification_tokens; the link is sent after the commit. *)
Insert(r, ts, t) ==
  /\ t \in TokenIds \ issued
  /\ tokens' = CreateToken(ts, t, req[r].fresh)
  /\ issued' = issued \cup {t}
  /\ req' = [req EXCEPT ![r].pc = "mail", ![r].use = t]

-----------------------------------------------------------------------------
(* Registration *)

RegisterUser(r, e, p, n) ==
  /\ ValidPassword(p)
  /\ ~ExistsByEmail(e)
  /\ Begin(r, Request("register", e, "commit", NewUser(p, n), NoToken,
                      NewEmailVerificationToken(e), p))

(* The account, its token and the JWT; the unique key on the address       *)
(* decides between two registrations.                                      *)
CommitRegistration(r, t) ==
  /\ Ready(r, "register")
  /\ users[req[r].email] = NoUser
  /\ UpdateUserRow(req[r].email, req[r].write)
  /\ Insert(r, tokens, t)
  /\ sessions' = sessions \cup {req[r].email}
  /\ chosen' = [chosen EXCEPT ![req[r].email] = req[r].password]
  /\ UNCHANGED <<mailed, now, uses, overlapped>>

DuplicateRegistration(r) ==
  /\ Ready(r, "register")
  /\ users[req[r].email] # NoUser
  /\ End(r)
  /\ UNCHANGED <<users, tokens, issued, mailed, sessions, now, chosen, uses,
                 overlapped>>

(* Verification of the address *)

VerifyEmail(r, t) ==
  /\ t \in mailed
  /\ CanUseToken(t, "email_verification")
  /\ Begin(r, Request("verify", tokens[t].user, "commit",
                      Activate(users[tokens[t].user]), t, NoToken, NoUser))

CommitVerification(r) ==
  /\ Ready(r, "verify")
  /\ tokens' = MarkAsUsed(tokens, req[r].use)
  /\ UpdateUserRow(req[r].email, req[r].write)
  /\ uses' = [uses EXCEPT ![req[r].use] = IF @ = 2 THEN 2 ELSE @ + 1]
  /\ End(r)
  /\ UNCHANGED <<issued, mailed, sessions, now, chosen, overlapped>>

ResendVerificationEmail(r, e) ==
  /\ ExistsByEmail(e)
  /\ ~IsActive(users[e])
  /\ CanResendVerificationEmail(e)
  /\ Begin(r, Request("resend", e, "commit", NoUser, NoToken,
                      NewEmailVerificationToken(e), NoUser))

CommitResend(r, t) ==
  /\ Ready(r, "resend")
  /\ Insert(r, tokens, t)
  /\ UNCHANGED <<users, mailed, sessions, now, chosen, uses, overlapped>>

(* Password reset *)

RequestPasswordReset(r, e) ==
  /\ ExistsByEmail(e)
  /\ Begin(r, Request("request_reset", e, "commit", NoUser, NoToken,
                      NewPasswordResetToken(e), NoUser))

CommitResetRequest(r, t) ==
  /\ Ready(r, "request_reset")
  /\ Insert(r, DeleteUserTokens(tokens, req[r].email, "password_reset"), t)
  /\ UNCHANGED <<users, mailed, sessions, now, chosen, uses, overlapped>>

ResetPassword(r, t, p) ==
  /\ ValidPassword(p)
  /\ t \in mailed
  /\ CanUseToken(t, "password_reset")
  /\ Begin(r, Request("reset", tokens[t].user, "commit",
                      UpdatePassword(users[tokens[t].user], p), t, NoToken, p))

CommitReset(r) ==
  /\ Ready(r, "reset")
  /\ tokens' = MarkAsUsed(tokens, req[r].use)
  /\ UpdateUserRow(req[r].email, req[r].write)
  /\ uses' = [uses EXCEPT ![req[r].use] = IF @ = 2 THEN 2 ELSE @ + 1]
  /\ chosen' = [chosen EXCEPT ![req[r].email] = req[r].password]
  /\ End(r)
  /\ UNCHANGED <<issued, mailed, sessions, now, overlapped>>

(* Login, password change, profile: no transaction *)

LoginUser(e, p) ==
  /\ AuthenticateUser(e, p)
  /\ e \notin sessions
  /\ sessions' = sessions \cup {e}
  /\ UNCHANGED <<users, tokens, issued, mailed, req, now, chosen, uses,
                 overlapped>>

(* The first read checks the state of the account and the old password ... *)
ChangePassword(r, e, old, p) ==
  /\ e \in sessions
  /\ AuthenticateUser(e, old)
  /\ ValidPassword(p)
  /\ Begin(r, Request("change", e, "checked", NoUser, NoToken, NoToken, p))

(* ... the second one, in UpdatePassword, supplies the row to be written. *)
ReadForChange(r) ==
  /\ req[r] # Idle /\ req[r].op = "change" /\ req[r].pc = "checked"
  /\ req' = [req EXCEPT ![r].pc = "commit",
               ![r].write = UpdatePassword(users[req[r].email],
                                           req[r].password)]
  /\ UNCHANGED <<users, tokens, issued, mailed, sessions, now, chosen, uses,
                 overlapped>>

WritePassword(r) ==
  /\ Ready(r, "change")
  /\ UpdateUserRow(req[r].email, req[r].write)
  /\ chosen' = [chosen EXCEPT ![req[r].email] = req[r].password]
  /\ End(r)
  /\ UNCHANGED <<tokens, issued, mailed, sessions, now, uses, overlapped>>

UpdateUser(r, e, n) ==
  /\ e \in sessions
  /\ ExistsByEmail(e)
  /\ IsActive(users[e])
  /\ Begin(r, Request("profile", e, "commit", SetNickname(users[e], n),
                      NoToken, NoToken, NoUser))

WriteProfile(r) ==
  /\ Ready(r, "profile")
  /\ UpdateUserRow(req[r].email, req[r].write)
  /\ End(r)
  /\ UNCHANGED <<tokens, issued, mailed, sessions, now, chosen, uses,
                 overlapped>>

-----------------------------------------------------------------------------
(* The surroundings *)

(* The mail goes out after the commit; registration and reset ignore its   *)
(* failure, resend answers ErrEmailSendFailed: the row stays either way.   *)
SendEmail(r) ==
  /\ req[r] # Idle /\ req[r].pc = "mail"
  /\ mailed' = mailed \cup {req[r].use}
  /\ End(r)
  /\ UNCHANGED <<users, tokens, issued, sessions, now, chosen, uses,
                 overlapped>>

(* A database error, a cancelled request or a crash rolls the transaction  *)
(* back; after the commit it only loses the mail.                          *)
Abort(r) ==
  /\ req[r] # Idle
  /\ End(r)
  /\ UNCHANGED <<users, tokens, issued, mailed, sessions, now, chosen, uses,
                 overlapped>>

SessionExpires(e) ==
  /\ e \in sessions
  /\ sessions' = sessions \ {e}
  /\ UNCHANGED <<users, tokens, issued, mailed, req, now, chosen, uses,
                 overlapped>>

Tick ==
  /\ now < MaxTime
  /\ now' = now + 1
  /\ UNCHANGED <<users, tokens, issued, mailed, sessions, req, chosen, uses,
                 overlapped>>

-----------------------------------------------------------------------------
Init ==
  /\ users = [e \in Emails |-> NoUser]
  /\ tokens = [t \in TokenIds |-> NoToken]
  /\ issued = {} /\ mailed = {} /\ sessions = {} /\ overlapped = {}
  /\ req = [r \in Requests |-> Idle]
  /\ now = 0
  /\ chosen = [e \in Emails |-> NoUser]
  /\ uses = [t \in TokenIds |-> 0]

Account(r) ==
  \/ \E e \in Emails, p \in Passwords, n \in Names : RegisterUser(r, e, p, n)
  \/ \E t \in TokenIds : CommitRegistration(r, t)
  \/ DuplicateRegistration(r)
  \/ \E t \in TokenIds : VerifyEmail(r, t)
  \/ CommitVerification(r)
  \/ \E e \in Emails : ResendVerificationEmail(r, e)
  \/ \E t \in TokenIds : CommitResend(r, t)
  \/ \E e \in Emails : RequestPasswordReset(r, e)
  \/ \E t \in TokenIds : CommitResetRequest(r, t)
  \/ \E t \in TokenIds, p \in Passwords : ResetPassword(r, t, p)
  \/ CommitReset(r)
  \/ \E e \in Emails, old \in Passwords, p \in Passwords :
       ChangePassword(r, e, old, p)
  \/ ReadForChange(r)
  \/ WritePassword(r)
  \/ \E e \in Emails, n \in Names : UpdateUser(r, e, n)
  \/ WriteProfile(r)
  \/ SendEmail(r)
  \/ Abort(r)

Next ==
  \/ \E r \in Requests : Account(r)
  \/ \E e \in Emails, p \in Passwords : LoginUser(e, p)
  \/ \E e \in Emails : SessionExpires(e)
  \/ Tick

Spec == Init /\ [][Next]_vars
-----------------------------------------------------------------------------
(* Properties *)

(* Every row, open request and clock value has its shape; the accounts     *)
(* hold strong passwords only, whichever of the three use cases set them.  *)
TypeOK ==
  /\ users \in [Emails -> Users \cup {NoUser}]
  /\ tokens \in [TokenIds -> Tokens \cup {NoToken}]
  /\ issued \subseteq TokenIds
  /\ mailed \subseteq TokenIds
  /\ sessions \subseteq Emails
  /\ req \in [Requests -> Open \cup {Idle}]
  /\ now \in 0..MaxTime
  /\ chosen \in [Emails -> Strong \cup {NoUser}]
  /\ uses \in [TokenIds -> 0..2]
  /\ overlapped \subseteq Emails

Verified(e) ==
  \E t \in TokenIds : tokens[t] # NoToken /\ tokens[t].user = e
                      /\ tokens[t].type = "email_verification"
                      /\ tokens[t].used

(* An account is active only when a verification link sent to its address  *)
(* was used: whole-row writes of stale rows, resets and profile changes    *)
(* may undo an activation, none of them can make one up                    *)
(* (verify_email.go, userService.ActivateUser).                            *)
ActiveWasVerified ==
  \A e \in Emails : users[e] # NoUser => (IsActive(users[e]) => Verified(e))

(* However resets are requested, at most one reset link of an account      *)
(* works: the older ones are deleted with the insertion of the new one     *)
(* (tokenService.CreatePasswordResetToken).                                *)
OneResetLink ==
  \A e \in Emails : \A s, t \in TokensOf(e, "password_reset") : s = t

(* Two verification mails to an address are at least ResendInterval apart  *)
(* unless their requests ran at the same time                              *)
(* (tokenService.CanResendVerificationEmail).                              *)
ResendSpaced ==
  \A e \in Emails \ overlapped :
    \A s, t \in TokensOf(e, "email_verification") :
      s # t => \/ tokens[s].created - tokens[t].created >= ResendInterval
               \/ tokens[t].created - tokens[s].created >= ResendInterval

(* While no two requests of an account ran at the same time, the owner of  *)
(* a verified account can log in with the password chosen last, and with   *)
(* no other: verification, reset, change and profile update keep what the  *)
(* others have written.                                                    *)
OwnerCanLogIn ==
  \A e \in Emails \ overlapped, p \in Passwords :
    Verified(e) => (AuthenticateUser(e, p) <=> p = chosen[e])

(* A link works once, unless two requests that carry it ran at the same    *)
(* time (tokenService.ValidateAndUseToken).                                *)
LinkWorksOnce ==
  \A t \in TokenIds :
    uses[t] > 1 => tokens[t] = NoToken \/ tokens[t].user \in overlapped

(* The links of an account: the two above.                                 *)
LinksAreSound == OneResetLink /\ LinkWorksOnce

(* Verification and passwords: an active account was verified, and its     *)
(* owner can log in.                                                       *)
OwnersAccount == ActiveWasVerified /\ OwnerCanLogIn
=============================================================================
