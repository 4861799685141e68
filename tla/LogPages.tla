-------------------------------- MODULE LogPages --------------------------------
(***************************************************************************)
(* Log histories, page by page.  A request names a time and gets at most   *)
(* "limit" lines: those before it, the newest first (older lines of an     *)
(* application), or those from it on, the oldest first (newer lines of an  *)
(* application, the log of a build).  Loki (external) takes the start of a *)
(* range as part of it and the end not.  The reader (the console's pages,  *)
(* external) asks on from the last page's outermost line.                  *)
(*                                                                         *)
(* Lines are numbered; stamp[i] is the time line i was written.  Lines are *)
(* written while somebody reads.                                           *)
(***************************************************************************)
EXTENDS Integers, Sequences, FiniteSets, FiniteSetsExt

CONSTANTS
  MaxTime, MaxLines,
  Limit,     \* lines of a page
  Window,    \* the 24 hours an older page reaches back
  Buffer     \* the 5 minutes after a build in which its lines are looked for

LogPagesAssumption ==
  /\ {MaxTime, MaxLines, Buffer} \subseteq Nat
  /\ Limit \in Nat \ {0} /\ Window \in Nat \ {0}

VARIABLES now, stamp, finished, reader

lpvars == <<now, stamp, finished, reader>>

\* from, at: the times the first and the next request name; got: the lines shown; edges: the
\* times of the oldest lines of pages; again: a line came twice.
NewReader(kind, t) ==
  [kind |-> kind, from |-> t, at |-> t, got |-> {}, edges |-> {}, again |-> FALSE, ended |-> FALSE]

PagesInit ==
  /\ now = 0 /\ stamp = <<>>
  /\ finished \in 0 .. MaxTime    \* when the build is finished
  /\ reader = NewReader("none", 0)

Elapse == now < MaxTime /\ now' = now + 1 /\ UNCHANGED <<stamp, finished, reader>>

WriteLine ==
  /\ Len(stamp) < MaxLines /\ stamp' = Append(stamp, now)
  /\ UNCHANGED <<now, finished, reader>>

\* Older lines from now on; newer ones from a line on that is known; a build's from its start.
Open ==
  /\ reader.kind = "none"
  /\ \/ reader' = NewReader("older", now)
     \/ \E t \in 0 .. now : reader' = NewReader("newer", t)
     \/ reader' = NewReader("build", 0)
  /\ UNCHANGED <<now, stamp, finished>>

\* What Loki may answer: which lines of one time fall off a full page is its choice.
\* Mutant: the end is part of the range.
EndIncluded(lo, hi, dir) ==
  LET all == {i \in DOMAIN stamp : lo <= stamp[i] /\ stamp[i] <= hi}
  IN  {page \in SUBSET all :
         /\ Cardinality(page) = Min({Limit, Cardinality(all)})
         /\ \A i \in page, k \in all \ page : dir * stamp[i] <= dir * stamp[k]}
Pages(lo, hi, dir) ==
  LET all == {i \in DOMAIN stamp : lo <= stamp[i] /\ stamp[i] < hi}
  IN  {page \in SUBSET all :
         /\ Cardinality(page) = Min({Limit, Cardinality(all)})
         /\ \A i \in page, k \in all \ page : dir * stamp[i] <= dir * stamp[k]}

\* The range of an older page: a window that ends where the last page began.
Older(at) == Pages(at - Window, at, -1)

\* QueryApplicationLogsHistory: direction backward.
ReadOlder ==
  /\ reader.kind = "older" /\ ~reader.ended
  /\ \E page \in Older(reader.at) :
       reader' = IF page = {} THEN [reader EXCEPT !.ended = TRUE]
                 ELSE LET oldest == Min({stamp[i] : i \in page})
                      IN  [reader EXCEPT !.at = oldest, !.got = @ \cup page, !.edges = @ \cup {oldest},
                                         !.again = @ \/ page \cap reader.got # {}]
  /\ UNCHANGED <<now, stamp, finished>>

\* The end of a build's range: five minutes after it finished, or now.
BuildEnd == IF now < finished THEN now ELSE Min({now, finished + Buffer})
End == IF reader.kind = "build" THEN BuildEnd ELSE now

\* Mutant: the line that is known is not asked for again.
AfterThe(at) == at + 1
From(at) == at

\* The range of a newer page: from the last line on.
Newer(at) == Pages(From(at), End, 1)

\* QueryApplicationLogsAfter, QueryPipelineRunLogsHTTP: direction forward.
ReadNewer ==
  /\ reader.kind \in {"newer", "build"}
  /\ \E page \in Newer(reader.at) :
       reader' = [reader EXCEPT !.at = IF page = {} THEN @ ELSE Max({stamp[i] : i \in page}),
                                !.got = @ \cup page,
                                !.ended = page \subseteq reader.got]
  /\ UNCHANGED <<now, stamp, finished>>

PagesNext == Elapse \/ WriteLine \/ Open \/ ReadOlder \/ ReadNewer

PagesSpec == PagesInit /\ [][PagesNext]_lpvars

-----------------------------------------------------------------------------
LinesAt(t) == {i \in DOMAIN stamp : stamp[i] = t}

(* Going back, no line is shown twice, and when an empty page comes every  *)
(* line from before the first request has been shown, except lines that    *)
(* have the very time of a page's oldest line, and those beyond a silence  *)
(* of a whole window.                                                      *)
OlderPagesAreWhole ==
  reader.kind = "older" =>
    /\ ~reader.again
    /\ reader.ended =>
         \A i \in DOMAIN stamp :
           \/ i \in reader.got \/ stamp[i] \in reader.edges
           \/ stamp[i] < reader.at - Window
           \/ stamp[i] >= reader.from

(* Going forth, a page with nothing new means that nothing of the range is *)
(* missing -- although lines are written in the very moment a page ends -- *)
(* or that a page is too small for the lines of one moment: then the       *)
(* reader never gets beyond it.                                            *)
NewerPagesAreWhole ==
  [][ ReadNewer /\ reader'.ended =>
        \/ \A i \in DOMAIN stamp :
             stamp[i] < reader.from \/ stamp[i] >= End \/ i \in reader.got
        \/ Cardinality(LinesAt(reader.at)) >= Limit ]_lpvars
=============================================================================
