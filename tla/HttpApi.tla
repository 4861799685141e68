------------------------------- MODULE HttpApi -------------------------------
(***************************************************************************)
(* One client, one request to one route of HttpRoutes, sent again when the *)
(* answer is a 5xx or never comes: what was done, and what was answered.   *)
(* A client that stops waiting leaves its attempt running at the server,   *)
(* another user may delete what the URL names between two steps, the       *)
(* process may stop, and the connection may break while a transaction      *)
(* commits, so that the answer is an error although the rows are written.  *)
(***************************************************************************)
EXTENDS HttpRoutes, Integers

CONSTANT MaxAttempts            \* bound: how often the client sends the request

HttpAssumption == MaxAttempts \in Nat \ {0}

Attempts == 1..MaxAttempts

VARIABLES
  handler,      \* the route
  defect,       \* what is wrong with the request: "none", or a step that refuses it
  live,         \* the container, project or volume the URL names is there
  items,        \* how many of the things the request creates or removes are there
  mounted,      \* the volume a request removes is mounted
  recorded,     \* the node port's pipeline run is written to the network's row
  holder,       \* the attempt that holds the row lock, 0 for none
  att,          \* the attempts
  doubled,      \* two attempts were at work at the same time
  restarted     \* the process has stopped

httpVars == <<handler, defect, live, items, mounted, recorded, holder, att, doubled, restarted>>

(* at: the next step; left: the client no longer waits; changed: a change  *)
(* of this attempt is in the database; kept: it could not undo a part.     *)
NotSent == [at |-> 1, answer |-> "none", left |-> FALSE, changed |-> FALSE, kept |-> FALSE]

Running(a) == att[a].answer = "running"
At(a, kinds) == Running(a) /\ att[a].at <= Len(handler.steps) /\ handler.steps[att[a].at] \in kinds
Has(kinds) == \E i \in 1..Len(handler.steps) : handler.steps[i] \in kinds

(* The mapper of the handler first, then the errors every handler knows.   *)
Status(e) == IF e \in ErrorMap[handler.mapper] \cup CommonErrors THEN "refused" ELSE "failed"

(* What the attempt gives its client; a transaction ends with it.          *)
Answer(a, s) ==
  /\ att' = [att EXCEPT ![a].answer = s]
  /\ holder' = IF holder = a THEN 0 ELSE holder
Fail(a, e) == Answer(a, Status(e)) /\ UNCHANGED <<live, items, mounted, recorded>>
Pass(a) == att' = [att EXCEPT ![a].at = @ + 1] /\ UNCHANGED <<live, items, mounted, recorded, holder>>

rest == <<handler, defect, doubled, restarted>>

-----------------------------------------------------------------------------
RequireAuth(a) ==
  /\ At(a, {"session"})
  /\ IF defect = "session" THEN Fail(a, "unauthorized") ELSE Pass(a)
  /\ UNCHANGED rest

RateLimit(a) ==
  /\ At(a, {"limiter"})
  /\ \/ Pass(a)
     \/ Answer(a, "refused") /\ UNCHANGED <<live, items, mounted, recorded>>
  /\ UNCHANGED rest

BindForm(a) ==
  /\ At(a, {"form"})
  /\ IF defect = "form" THEN Fail(a, "bad_form") ELSE Pass(a)
  /\ UNCHANGED rest

FindContainer(a) ==
  /\ At(a, {"find"})
  /\ \/ live /\ Pass(a)
     \/ ~live /\ Fail(a, "gone")
     \/ Fail(a, "database")
  /\ UNCHANGED rest

FindProject(a) ==
  /\ At(a, {"project"})
  /\ \/ live /\ Pass(a)
     \/ ~live /\ Fail(a, "no_project")
     \/ Fail(a, "database")
  /\ UNCHANGED rest

CheckPermission(a) ==
  /\ At(a, {"allowed"})
  /\ \/ live /\ defect # "allowed" /\ Pass(a)
     \/ ~live /\ Fail(a, "gone")
     \/ live /\ defect = "allowed" /\ Fail(a, "denied")
     \/ Fail(a, "database")
  /\ UNCHANGED rest

(* Any failure of the check, the database's too, is answered as missing.   *)
HidePermission(a) ==
  /\ At(a, {"hidden"})
  /\ \/ live /\ defect # "allowed" /\ Pass(a)
     \/ Fail(a, "no_project")
  /\ UNCHANGED rest

ReadRows(a) ==
  /\ At(a, {"read"})
  /\ Pass(a) \/ Fail(a, "database")
  /\ UNCHANGED rest

AskService(a) ==
  /\ At(a, {"ask"})
  /\ Pass(a) \/ Fail(a, "service") \/ Fail(a, "refused_by_service")
  /\ UNCHANGED rest

(* Steps whose failure is logged and no more.                              *)
BestEffort(a) ==
  /\ At(a, {"list", "note"})
  /\ Pass(a)
  /\ UNCHANGED rest

SendMail(a) ==
  /\ At(a, {"mail"})
  /\ Pass(a) \/ Fail(a, "mail")
  /\ UNCHANGED rest

-----------------------------------------------------------------------------
\* Mutant: nobody looks whether the thing is there already.
NeverTaken == handler.does = "none"
Taken == handler.does \in {"create", "start"} /\ items > 0
Spent == (handler.does = "remove" /\ items = 0) \/ ~mounted
(* What the transaction finds missing: the row itself, or the token of a   *)
(* mail, which no table of errors knows.                                   *)
Missing == IF Spent /\ ~Has({"find"}) THEN "token" ELSE "gone"

(* The first reads of the transaction: the row, its permission where the   *)
(* use case checks it, the rules, and whether the thing is there already.  *)
BeginTx(a) ==
  /\ At(a, {"begin", "open"})
  /\ holder = 0
  /\ \/ /\ live /\ ~Spent /\ ~Taken
        /\ ~(At(a, {"begin"}) /\ defect = "allowed")
        /\ att' = [att EXCEPT ![a].at = @ + 1]
        /\ holder' = IF handler.guard = "locked" THEN a ELSE 0
        /\ UNCHANGED <<live, items, mounted, recorded>>
     \/ (~live \/ Spent) /\ Fail(a, Missing)
     \/ live /\ At(a, {"begin"}) /\ defect = "allowed" /\ Fail(a, "denied")
     \/ Fail(a, "conflict")             \* taken, or against another rule
     \/ Fail(a, "database")
  /\ UNCHANGED rest

Change ==
  /\ items' = CASE handler.does \in {"create", "start"} -> items + 1
                [] handler.does = "remove" -> 0
                [] OTHER -> items
  /\ live' = (live /\ handler.does # "end")

(* Written and answered, written with the connection lost, or not written. *)
CommitTx(a) ==
  /\ At(a, {"commit"})
  /\ \/ /\ ~(handler.guard \in {"key", "unique"} /\ Taken)
        /\ Change
        /\ \/ att' = [att EXCEPT ![a].at = @ + 1, ![a].changed = TRUE]
           \/ att' = [att EXCEPT ![a].answer = Status("database"), ![a].changed = TRUE]
        /\ holder' = IF holder = a THEN 0 ELSE holder
        /\ UNCHANGED <<mounted, recorded>>
     \/ handler.guard = "unique" /\ Taken /\ Fail(a, "conflict")
     \/ Fail(a, "database")
  /\ UNCHANGED rest

(* The volume is created on its own: names and the disk limit are read,    *)
(* then the row is inserted.                                               *)
CreateVolume(a) ==
  /\ At(a, {"make"})
  /\ \/ /\ ~Taken /\ items' = items + 1
        /\ att' = [att EXCEPT ![a].at = @ + 1, ![a].changed = TRUE]
        /\ UNCHANGED <<live, mounted, recorded, holder>>
     \/ Taken /\ Fail(a, "volume")
     \/ Fail(a, "database")
  /\ UNCHANGED rest

(* It is mounted in a transaction of its own, and deleted when that fails; *)
(* the deletion may fail too, and is then only logged.                     *)
MountVolume(a) ==
  /\ At(a, {"mount"})
  /\ \/ live /\ defect # "allowed" /\ Pass(a)
     \/ /\ \E e \in {"gone", "denied", "conflict", "database"} :
             \/ /\ att' = [att EXCEPT ![a].answer = Status(e), ![a].changed = FALSE]
                /\ items' = items - 1
             \/ /\ att' = [att EXCEPT ![a].answer = Status(e), ![a].kept = TRUE]
                /\ items' = items
        /\ UNCHANGED <<live, mounted, recorded, holder>>
  /\ UNCHANGED rest

UnmountVolume(a) ==
  /\ At(a, {"unmount"})
  /\ \/ /\ mounted' = FALSE
        /\ att' = [att EXCEPT ![a].at = @ + 1]
        /\ UNCHANGED <<live, items, recorded, holder>>
     \/ Fail(a, "database")
  /\ UNCHANGED rest

DeleteVolume(a) ==
  /\ At(a, {"delete"})
  /\ \/ /\ items' = 0
        /\ att' = [att EXCEPT ![a].at = @ + 1, ![a].changed = TRUE]
        /\ UNCHANGED <<live, mounted, recorded, holder>>
     \/ items = 0 /\ Fail(a, "volume")
     \/ Fail(a, "database")
  /\ UNCHANGED rest

(* A node port: no transaction holds the check, the run and the row.       *)
CheckNodePort(a) ==
  /\ At(a, {"unused"})
  /\ \/ ~recorded /\ Pass(a)
     \/ recorded /\ Fail(a, "conflict")
  /\ UNCHANGED rest

TriggerNodePort(a) ==
  /\ At(a, {"trigger"})
  /\ \/ /\ items' = items + 1
        /\ att' = [att EXCEPT ![a].at = @ + 1, ![a].changed = TRUE]
        /\ UNCHANGED <<live, mounted, recorded, holder>>
     \/ Fail(a, "service")
  /\ UNCHANGED rest

SaveNodePort(a) ==
  /\ At(a, {"save"})
  /\ \/ /\ recorded' = TRUE
        /\ att' = [att EXCEPT ![a].at = @ + 1]
        /\ UNCHANGED <<live, items, mounted, holder>>
     \/ Fail(a, "database")
  /\ UNCHANGED rest

-----------------------------------------------------------------------------
Succeed(a) ==
  /\ Running(a) /\ att[a].at > Len(handler.steps)
  /\ Answer(a, "ok")
  /\ UNCHANGED <<live, items, mounted, recorded, rest>>

(* The client sends again when the last answer was a 5xx or none came.     *)
Send(a) ==
  /\ att[a].answer = "none"
  /\ \A b \in 1..(a - 1) : att[b].answer \in {"failed", "lost"} \/ att[b].left
  /\ att' = [att EXCEPT ![a].answer = "running"]
  /\ doubled' = (doubled \/ \E b \in 1..(a - 1) : Running(b))
  /\ UNCHANGED <<handler, defect, live, items, mounted, recorded, holder, restarted>>

StopWaiting(a) ==
  /\ Running(a) /\ ~att[a].left
  /\ att' = [att EXCEPT ![a].left = TRUE]
  /\ UNCHANGED <<live, items, mounted, recorded, holder, rest>>

OthersDelete ==
  /\ live /\ handler.mapper \in {"container", "project"} /\ handler.does # "end"
  /\ live' = FALSE
  /\ UNCHANGED <<items, mounted, recorded, holder, att, rest>>

(* The process stops: attempts are gone, transactions rolled back.         *)
Restart ==
  /\ ~restarted /\ \E a \in Attempts : Running(a)
  /\ restarted' = TRUE /\ holder' = 0
  /\ att' = [a \in Attempts |-> IF Running(a) THEN [att[a] EXCEPT !.answer = "lost"] ELSE att[a]]
  /\ UNCHANGED <<handler, defect, live, items, mounted, recorded, doubled>>

(* The defects a handler looks for at all.                                 *)
Defects(h) ==
  LET does(kinds) == \E i \in 1..Len(h.steps) : h.steps[i] \in kinds IN
  {"none"} \cup {d \in {"session", "form"} : does({d})}
    \cup (IF does({"allowed", "hidden", "begin"}) THEN {"allowed"} ELSE {})

HttpInit ==
  /\ handler \in Setup
  /\ defect \in Defects(handler)
  /\ items = IF handler.does = "remove" THEN 1 ELSE 0
  /\ live = TRUE /\ mounted = TRUE /\ recorded = FALSE /\ holder = 0
  /\ att = [a \in Attempts |-> NotSent]
  /\ doubled = FALSE /\ restarted = FALSE

HttpStep(a) ==
  \/ RequireAuth(a) \/ RateLimit(a) \/ BindForm(a) \/ FindContainer(a) \/ FindProject(a)
  \/ CheckPermission(a) \/ HidePermission(a) \/ ReadRows(a) \/ AskService(a) \/ BestEffort(a)
  \/ SendMail(a) \/ BeginTx(a) \/ CommitTx(a) \/ CreateVolume(a) \/ MountVolume(a)
  \/ UnmountVolume(a) \/ DeleteVolume(a) \/ CheckNodePort(a) \/ TriggerNodePort(a)
  \/ SaveNodePort(a) \/ Succeed(a)

HttpNext ==
  \/ \E a \in Attempts : Send(a) \/ StopWaiting(a) \/ HttpStep(a)
  \/ OthersDelete \/ Restart

HttpSpec == HttpInit /\ [][HttpNext]_httpVars

-----------------------------------------------------------------------------
(* Shape of the request and its attempts.                                  *)
HttpTypeOK ==
  /\ handler \in Setup /\ defect \in Defects(handler)
  /\ items \in 0..MaxAttempts /\ holder \in 0..MaxAttempts
  /\ {live, mounted, recorded, doubled, restarted} \subseteq BOOLEAN
  /\ \A a \in Attempts :
       /\ att[a].at \in 1..(Len(handler.steps) + 1)
       /\ att[a].answer \in {"none", "running", "ok", "refused", "failed", "lost"}
       /\ {att[a].left, att[a].changed, att[a].kept} \subseteq BOOLEAN

(* A request that is sent again after a 5xx or no answer creates or starts *)
(* its thing once, unless two attempts were at work at the same time and   *)
(* only a snapshot was looked at (name of a project, port or host name of  *)
(* a network, name of a container's volume), or the node port's run was    *)
(* not written down.                                                       *)
MadeOnce ==
  handler.does \in {"create", "start"} =>
    \/ items <= 1
    \/ handler.guard = "checked" /\ doubled
    \/ handler.guard = "recorded"

(* A success has changed what was asked for.  A 4xx has changed nothing,   *)
(* unless the row was deleted before the answer was read from it, or a     *)
(* volume could not be deleted again.                                      *)
AnswersAreTrue ==
  \A a \in Attempts :
    /\ att[a].answer = "ok" /\ handler.does # "none" => att[a].changed
    /\ att[a].answer = "refused" /\ att[a].changed =>
         \/ ~live /\ Has({"find"})
         \/ att[a].kept

(* A request without session, valid form or permission changes nothing,    *)
(* not for a moment: the comment in AddVolume calls that order a fix.      *)
DefectsChangeNothing ==
  defect # "none" => \A a \in Attempts : ~att[a].changed /\ ~att[a].kept

RequestsAreHonest == MadeOnce /\ AnswersAreTrue /\ DefectsChangeNothing
=============================================================================
