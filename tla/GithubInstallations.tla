------------------------- MODULE GithubInstallations -------------------------
(***************************************************************************)
(* GitHub App installations (internal/user): the OAuth states of the      *)
(* installation flow, the callback, connecting and disconnecting, the     *)
(* cached installation token and the use cases that learn from GitHub     *)
(* that an installation is gone.  GitHub itself is the environment: it     *)
(* suspends and uninstalls without telling the server.                     *)
(*                                                                         *)
(* A use case that runs in a transaction reads the row at its first        *)
(* statement (REPEATABLE READ) and writes at its commit; its UPDATEs have  *)
(* no condition on the row's status, so they reach a row that another      *)
(* request has deleted or revoked in between.                              *)
(***************************************************************************)
EXTENDS Integers, FiniteSets

CONSTANTS
  Users, Installations,
  States,        \* OAuth states (a bound on how many are generated)
  Requests,      \* requests the server handles at the same time
  NoRow, Idle,
  StateLife,     \* ten minutes
  TokenLife,     \* one hour
  Buffer,        \* a cached token is not served in its last five minutes
  MaxTime        \* bound on the clock

VARIABLES
  inst,        \* inst[i]: the row of GITHUB_INSTALLATIONS, or NoRow
  states,      \* states[s]: the row of OAUTH_STATES, or NoRow
  github,      \* what GitHub knows of the installation
  req,         \* req[r]: the open request, or Idle
  now,
  passed,      \* history: callbacks that got past the consumption of a state
  overlapped   \* history: installations two requests were open for at once

vars == <<inst, states, github, req, now, passed, overlapped>>

-----------------------------------------------------------------------------
Times == 0..(MaxTime + TokenLife + StateLife)
(* token: when the cached token expires, 0 when none is cached. *)
Rows == [user : Users, status : {"active", "revoked"}, deleted : BOOLEAN,
         token : Times]
OAuthStates == [user : Users, expires : Times, consumed : BOOLEAN,
                inst : Installations \cup {NoRow}]
Open == [op : {"connect", "callback", "disconnect", "generate",
               "repositories", "branches"},
         pc : {"state", "consumed", "write"}, user : Users,
         inst : Installations, state : States \cup {NoRow},
         seen : Rows \cup {NoRow}]

(* What the constants are, the null value being none of the rows; an       *)
(* instance of the module assumes it.                                      *)
InstallationsAssumption ==
  /\ StateLife \in Nat /\ TokenLife \in Nat \ {0} /\ Buffer \in Nat
  /\ MaxTime \in Nat
  /\ NoRow \notin Rows /\ NoRow \notin OAuthStates

NewGitHubInstallation(u) ==
  [user |-> u, status |-> "active", deleted |-> FALSE, token |-> 0]
IsActive(row) == row.status = "active" /\ ~row.deleted
IsTokenValid(row) == row.token # 0 /\ now + Buffer < row.token
CanBeUsed(s) == now <= states[s].expires /\ ~states[s].consumed

(* Queries. *)
FindByInstallationID(i) ==
  IF inst[i] # NoRow /\ IsActive(inst[i]) THEN inst[i] ELSE NoRow
ExistsByInstallationID(i) == FindByInstallationID(i) # NoRow
FindIncludingRevoked(i) == inst[i]
\* Mutant: UPDATE without "AND consumed_at IS NULL".
AlwaysConsumable(s) == TRUE
MarkAsConsumedTakes(s) == ~states[s].consumed
\* Mutant: whoever holds a valid state takes the row over.
AnyUsersRow(row, u) == TRUE
MayProceed(row, u) == row # NoRow => row.user = u
ValidateState(s) == states[s] # NoRow /\ CanBeUsed(s)

(* Statements: each touches the columns it names, on whatever row is there *)
\* Mutant: the cached token stays on the deleted row.
SoftDeleteKeepingToken(row) == [row EXCEPT !.deleted = TRUE]
SoftDelete(row) == [row EXCEPT !.deleted = TRUE, !.token = 0]
\* Mutant: a status the table does not know.
MarkAsSuspended(row) == [row EXCEPT !.status = "suspended", !.token = 0]
MarkAsRevoked(row) == [row EXCEPT !.status = "revoked", !.token = 0]
Reactivate(row) == [row EXCEPT !.status = "active", !.deleted = FALSE]
UpdateToken(row, token) == [row EXCEPT !.token = token]

(* GitHub's answers.  Creating a token: 201, 403 for a suspended and 404   *)
(* for an uninstalled one; information about it: 200 unless uninstalled.   *)
CreateInstallationToken(i) ==
  CASE github[i] = "installed" -> "created"
    [] github[i] = "suspended" -> "unauthorized"
    [] github[i] = "uninstalled" -> "not_found"
GetInstallationInfo(i) == github[i] # "uninstalled"
(* The errors each listing takes for the end of the installation. *)
RevokingAnswers(op) ==
  IF op = "repositories" THEN {"unauthorized", "not_found"}
  ELSE {"unauthorized"}

-----------------------------------------------------------------------------
Ready(r, op, pc) == req[r] # Idle /\ req[r].op = op /\ req[r].pc = pc
End(r) == req' = [req EXCEPT ![r] = Idle]
SetRow(i, row) == inst' = [inst EXCEPT ![i] = row]

(* History notes two requests that are open for one installation. *)
Begin(r, op, pc, u, i, s, seen) ==
  /\ req[r] = Idle
  /\ req' = [req EXCEPT ![r] = [op |-> op, pc |-> pc, user |-> u, inst |-> i,
                                state |-> s, seen |-> seen]]
  /\ overlapped' =
       IF \E q \in Requests \ {r} : req[q] # Idle /\ req[q].inst = i
       THEN overlapped \cup {i} ELSE overlapped
  /\ UNCHANGED <<inst, states, github, now, passed>>

(* A use case that wants an active installation of its caller. *)
OwnedByCaller(u, i) ==
  ExistsByInstallationID(i) /\ inst[i].user = u

-----------------------------------------------------------------------------
(* The installation flow *)

StartInstallation(u, s) ==
  /\ states[s] = NoRow
  /\ states' = [states EXCEPT ![s] =
                  [user |-> u, expires |-> now + StateLife,
                   consumed |-> FALSE, inst |-> NoRow]]
  /\ UNCHANGED <<inst, github, req, now, passed, overlapped>>

(* GitHub redirects the browser; the id of the installation is its word. *)
InstallationCallback(r, s, i) ==
  /\ ValidateState(s)
  /\ Begin(r, "callback", "state", states[s].user, i, s, NoRow)

(* UPDATE ... WHERE state = ? AND consumed_at IS NULL, outside any         *)
(* transaction: one of two callbacks gets no row and ends.                 *)
ConsumeState(r) ==
  /\ Ready(r, "callback", "state")
  /\ LET s == req[r].state IN
       /\ MarkAsConsumedTakes(s)
       /\ states' = [states EXCEPT ![s].consumed = TRUE,
                                   ![s].inst = req[r].inst]
       /\ passed' = [passed EXCEPT ![s] = IF @ = 2 THEN 2 ELSE @ + 1]
  /\ req' = [req EXCEPT ![r].pc = "consumed"]
  /\ UNCHANGED <<inst, github, now, overlapped>>

StateAlreadyConsumed(r) ==
  /\ Ready(r, "callback", "state")
  /\ ~MarkAsConsumedTakes(req[r].state)
  /\ End(r)
  /\ UNCHANGED <<inst, states, github, now, passed, overlapped>>

(* GitHub knows the installation; the transaction reads its row, and goes  *)
(* on when it has none or one of the same user.                            *)
ReadForCallback(r) ==
  /\ Ready(r, "callback", "consumed")
  /\ GetInstallationInfo(req[r].inst)
  /\ LET seen == FindIncludingRevoked(req[r].inst) IN
       /\ MayProceed(seen, req[r].user)
       /\ req' = [req EXCEPT ![r].pc = "write", ![r].seen = seen]
  /\ UNCHANGED <<inst, states, github, now, passed, overlapped>>

CallbackEnds(r) ==
  /\ End(r)
  /\ UNCHANGED <<states, github, now, passed, overlapped>>

CallbackReactivates(r) ==
  /\ Ready(r, "callback", "write")
  /\ req[r].seen # NoRow
  /\ ~IsActive(req[r].seen)
  /\ SetRow(req[r].inst, Reactivate(inst[req[r].inst]))
  /\ CallbackEnds(r)

(* Update writes the cached token of the row it has read. *)
CallbackUpdates(r) ==
  /\ Ready(r, "callback", "write")
  /\ req[r].seen # NoRow
  /\ IsActive(req[r].seen)
  /\ SetRow(req[r].inst, UpdateToken(inst[req[r].inst], req[r].seen.token))
  /\ CallbackEnds(r)

(* Creating a row: callback without a row, or ConnectGitHub.  The primary  *)
(* key refuses a second row of the installation, deleted or not.           *)
CreateInstallation(r) ==
  /\ Ready(r, "callback", "write") \/ Ready(r, "connect", "write")
  /\ req[r].seen = NoRow
  /\ inst[req[r].inst] = NoRow
  /\ SetRow(req[r].inst, NewGitHubInstallation(req[r].user))
  /\ End(r)
  /\ UNCHANGED <<states, github, now, passed, overlapped>>

InstallationExists(r) ==
  /\ Ready(r, "callback", "write") \/ Ready(r, "connect", "write")
  /\ req[r].seen = NoRow
  /\ inst[req[r].inst] # NoRow
  /\ End(r)
  /\ UNCHANGED <<inst, states, github, now, passed, overlapped>>

ConnectGitHub(r, u, i) ==
  /\ ~ExistsByInstallationID(i)
  /\ GetInstallationInfo(i)
  /\ Begin(r, "connect", "write", u, i, NoRow, NoRow)

DisconnectGitHub(r, u, i) ==
  /\ OwnedByCaller(u, i)
  /\ Begin(r, "disconnect", "write", u, i, NoRow, NoRow)

CommitDisconnect(r) ==
  /\ Ready(r, "disconnect", "write")
  /\ SetRow(req[r].inst, SoftDelete(inst[req[r].inst]))
  /\ End(r)
  /\ UNCHANGED <<states, github, now, passed, overlapped>>

-----------------------------------------------------------------------------
(* Tokens and listings *)

(* A valid cached token is served at once. *)
GenerateInstallationToken(r, u, i) ==
  /\ OwnedByCaller(u, i)
  /\ ~IsTokenValid(inst[i])
  /\ Begin(r, "generate", "write", u, i, NoRow, NoRow)

CommitToken(r) ==
  /\ Ready(r, "generate", "write")
  /\ CreateInstallationToken(req[r].inst) = "created"
  /\ SetRow(req[r].inst, UpdateToken(inst[req[r].inst], now + TokenLife))
  /\ End(r)
  /\ UNCHANGED <<states, github, now, passed, overlapped>>

(* The row is marked inside the transaction, which then returns the error: *)
(* the mark is rolled back with it.                                        *)
TokenRefused(r) ==
  /\ Ready(r, "generate", "write")
  /\ CreateInstallationToken(req[r].inst) \in {"unauthorized", "not_found"}
  /\ End(r)
  /\ UNCHANGED <<inst, states, github, now, passed, overlapped>>

ListRepositories(r, u, i) ==
  /\ OwnedByCaller(u, i)
  /\ Begin(r, "repositories", "write", u, i, NoRow, NoRow)

ListBranches(r, u, i) ==
  /\ OwnedByCaller(u, i)
  /\ Begin(r, "branches", "write", u, i, NoRow, NoRow)

(* The listings mark the row outside any transaction. *)
ListingRefused(r) ==
  /\ Ready(r, "repositories", "write") \/ Ready(r, "branches", "write")
  /\ CreateInstallationToken(req[r].inst) \in RevokingAnswers(req[r].op)
  /\ SetRow(req[r].inst, MarkAsRevoked(inst[req[r].inst]))
  /\ End(r)
  /\ UNCHANGED <<states, github, now, passed, overlapped>>

(* A listing that is answered, any other failure, a crash: the transaction *)
(* is rolled back and the row stays; a consumed state stays consumed.      *)
RequestEnds(r) ==
  /\ req[r] # Idle
  /\ End(r)
  /\ UNCHANGED <<inst, states, github, now, passed, overlapped>>

-----------------------------------------------------------------------------
(* The environment *)

Suspend(i) ==
  /\ github[i] = "installed"
  /\ github' = [github EXCEPT ![i] = "suspended"]
  /\ UNCHANGED <<inst, states, req, now, passed, overlapped>>
Unsuspend(i) ==
  /\ github[i] = "suspended"
  /\ github' = [github EXCEPT ![i] = "installed"]
  /\ UNCHANGED <<inst, states, req, now, passed, overlapped>>
Uninstall(i) ==
  /\ github[i] # "uninstalled"
  /\ github' = [github EXCEPT ![i] = "uninstalled"]
  /\ UNCHANGED <<inst, states, req, now, passed, overlapped>>

Tick ==
  /\ now < MaxTime
  /\ now' = now + 1
  /\ UNCHANGED <<inst, states, github, req, passed, overlapped>>

-----------------------------------------------------------------------------
Init ==
  /\ inst = [i \in Installations |-> NoRow]
  /\ states = [s \in States |-> NoRow]
  /\ github = [i \in Installations |-> "installed"]
  /\ req = [r \in Requests |-> Idle]
  /\ now = 0
  /\ passed = [s \in States |-> 0]
  /\ overlapped = {}

UseCase(r) ==
  \/ \E s \in States, i \in Installations : InstallationCallback(r, s, i)
  \/ ConsumeState(r)
  \/ StateAlreadyConsumed(r)
  \/ ReadForCallback(r)
  \/ CallbackReactivates(r)
  \/ CallbackUpdates(r)
  \/ CreateInstallation(r)
  \/ InstallationExists(r)
  \/ \E u \in Users, i \in Installations : ConnectGitHub(r, u, i)
  \/ \E u \in Users, i \in Installations : DisconnectGitHub(r, u, i)
  \/ CommitDisconnect(r)
  \/ \E u \in Users, i \in Installations : GenerateInstallationToken(r, u, i)
  \/ CommitToken(r)
  \/ TokenRefused(r)
  \/ \E u \in Users, i \in Installations : ListRepositories(r, u, i)
  \/ \E u \in Users, i \in Installations : ListBranches(r, u, i)
  \/ ListingRefused(r)
  \/ RequestEnds(r)

Next ==
  \/ \E u \in Users, s \in States : StartInstallation(u, s)
  \/ \E r \in Requests : UseCase(r)
  \/ \E i \in Installations : Suspend(i) \/ Unsuspend(i) \/ Uninstall(i)
  \/ Tick

Spec == Init /\ [][Next]_vars

-----------------------------------------------------------------------------
(* Properties *)

(* Rows, states and open requests have their shape. *)
InstallationsTypeOK ==
  /\ inst \in [Installations -> Rows \cup {NoRow}]
  /\ states \in [States -> OAuthStates \cup {NoRow}]
  /\ github \in [Installations -> {"installed", "suspended", "uninstalled"}]
  /\ req \in [Requests -> Open \cup {Idle}]
  /\ now \in 0..MaxTime
  /\ passed \in [States -> 0..2]
  /\ overlapped \subseteq Installations

(* Of the callbacks that carry one OAuth state, however they interleave,   *)
(* one gets past its consumption (installation_callback.go, step 5:        *)
(* "one-time use").                                                        *)
StateOnce == \A s \in States : passed[s] <= 1

(* A row that is gone caches no token, unless two requests were open for   *)
(* its installation: then a late UPDATE can put one back on the deleted    *)
(* row (UpdateGitHubInstallation has no condition on the status).          *)
GoneHasNoToken ==
  \A i \in Installations \ overlapped :
    inst[i] # NoRow => (IsActive(inst[i]) \/ inst[i].token = 0)

(* An installation keeps its first owner, and once it is disconnected or   *)
(* revoked it comes back only through a callback with a state that was     *)
(* issued to this owner and consumed for this installation.                *)
OnlyOwnerReactivates ==
  [][\A i \in Installations :
       inst[i] # NoRow =>
         /\ inst'[i] # NoRow
         /\ inst'[i].user = inst[i].user
         /\ ~IsActive(inst[i]) /\ IsActive(inst'[i]) =>
              \E s \in States : /\ states[s] # NoRow
                                /\ states[s].user = inst[i].user
                                /\ states[s].consumed
                                /\ states[s].inst = i]_vars

(* What an installation is left with by its callbacks, and how it returns: *)
(* the three above.                                                        *)
InstallationSound == [](StateOnce /\ GoneHasNoToken) /\ OnlyOwnerReactivates
=============================================================================
