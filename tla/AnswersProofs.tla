--------------------------- MODULE AnswersProofs ---------------------------
(***************************************************************************)
(* What is told of a project: the pages of its logs, the status with the   *)
(* deployment that belongs to its builds, and the word for its pod.        *)
(***************************************************************************)
EXTENDS MCProject, Sums, SequenceTheorems

-----------------------------------------------------------------------------
(* The least and the greatest of some numbers.                             *)

LEMMA LeastOf ==
  ASSUME NEW S \in SUBSET Nat, S # {}
  PROVE  Min(S) \in S /\ \A n \in S : Min(S) <= n
  <1>1. \E n \in S : \A m \in S : n <= m
    BY LeastNumber
  <1> QED
    BY <1>1 DEF Min

LEMMA GreatestExists ==
  ASSUME NEW bound \in Nat, NEW S \in SUBSET (0..bound), S # {}
  PROVE  \E n \in S : \A m \in S : n >= m
  <1> DEFINE T == {bound - n : n \in S}
  <1>1. T \in SUBSET Nat /\ T # {}
    <2>1. \A n \in S : bound - n \in Nat
      OBVIOUS
    <2> QED
      BY <2>1
  <1>2. PICK d \in T : \A e \in T : d <= e
    BY <1>1, LeastNumber
  <1>3. PICK n \in S : d = bound - n
    BY <1>2
  <1>4. ASSUME NEW m \in S PROVE n >= m
    <2>1. bound - m \in T
      OBVIOUS
    <2>2. d <= bound - m /\ n \in 0..bound /\ m \in 0..bound
      BY <1>2, <1>3, <2>1
    <2> QED
      BY <1>3, <2>2
  <1> QED
    BY <1>4

LEMMA GreatestOf ==
  ASSUME NEW bound \in Nat, NEW S \in SUBSET (0..bound), S # {}
  PROVE  Max(S) \in S /\ \A n \in S : Max(S) >= n
  BY GreatestExists DEF Max

-----------------------------------------------------------------------------
(* The pages of a log.                                                     *)

Readers ==
  [kind : {"none", "older", "newer", "build"}, from : Nat, at : Nat, got : SUBSET Nat,
   edges : SUBSET Nat, again : BOOLEAN, ended : BOOLEAN]

\* Lines have the times they were written at, and requests name times that have come.
LineInv ==
  /\ now \in Nat /\ finished \in Nat
  /\ stamp \in Seq(Nat) /\ \A i \in DOMAIN stamp : stamp[i] <= now
  /\ reader \in Readers /\ reader.at <= now /\ reader.from <= now
  /\ reader.got \subseteq DOMAIN stamp

\* Going back: all from the last page on is shown, except beside the edges of pages.
OlderInv ==
  reader.kind = "older" =>
    /\ reader.at <= reader.from /\ ~reader.again
    /\ \A i \in reader.got : stamp[i] >= reader.at
    /\ \A i \in DOMAIN stamp :
         reader.at <= stamp[i] /\ stamp[i] < reader.from => i \in reader.got \/ stamp[i] \in reader.edges
    /\ reader.ended => \A i \in DOMAIN stamp : stamp[i] < reader.at => stamp[i] < reader.at - Window

\* Going forth: all before the last line is shown, and nothing after it.
NewerInv ==
  reader.kind \in {"newer", "build"} =>
    /\ reader.from <= reader.at
    /\ \A i \in reader.got : stamp[i] <= reader.at
    /\ \A i \in DOMAIN stamp : reader.from <= stamp[i] /\ stamp[i] < reader.at => i \in reader.got

PagesInv == LineInv /\ OlderInv /\ NewerInv

LEMMA PagesStart == PagesInit => PagesInv
  <1> SUFFICES ASSUME PagesInit PROVE PagesInv
    OBVIOUS
  <1> USE PagesConstants DEF PagesInit, NewReader, LogPagesAssumption
  <1>1. LineInv
    BY EmptySeq DEF LineInv, Readers
  <1> QED
    BY <1>1 DEF PagesInv, OlderInv, NewerInv

\* A page has lines of its range only; a line of the range that is not on the page is not
\* nearer than one that is.
LinesOf(lo, hi) == {i \in DOMAIN stamp : lo <= stamp[i] /\ stamp[i] < hi}
LEMMA PageOf ==
  ASSUME LineInv, NEW lo \in Int, NEW hi \in Int, NEW dir, NEW page \in Pages(lo, hi, dir)
  PROVE  /\ page \subseteq LinesOf(lo, hi)
         /\ \A i \in page, k \in LinesOf(lo, hi) \ page : dir * stamp[i] <= dir * stamp[k]
         /\ IsFiniteSet(LinesOf(lo, hi)) /\ IsFiniteSet(page)
         /\ Cardinality(page) = Limit \/ page = LinesOf(lo, hi)
         /\ page = {} => LinesOf(lo, hi) = {}
  <1> DEFINE all == LinesOf(lo, hi)
  <1>1. /\ page \in SUBSET all
        /\ Cardinality(page) = Min({Limit, Cardinality(all)})
        /\ \A i \in page, k \in all \ page : dir * stamp[i] <= dir * stamp[k]
    BY DEF Pages, LinesOf
  <1>2. IsFiniteSet(all)
    <2>1. DOMAIN stamp = 1..Len(stamp) /\ Len(stamp) \in Nat
      BY DEF LineInv
    <2>2. IsFiniteSet(1..Len(stamp)) /\ all \in SUBSET (1..Len(stamp))
      BY <2>1, FS_Interval DEF LinesOf
    <2> QED
      BY <2>2, FS_Subset
  <1>3. Cardinality(all) \in Nat /\ IsFiniteSet(page) /\ Limit \in Nat \ {0}
    BY <1>1, <1>2, FS_CardinalityType, FS_Subset, PagesConstants DEF LogPagesAssumption
  <1>4. Min({Limit, Cardinality(all)}) \in {Limit, Cardinality(all)}
    BY <1>3, LeastOf
  <1>5. Cardinality(page) = Limit \/ page = all
    BY <1>1, <1>2, <1>4, FS_Subset
  <1>6. page = {} => all = {}
    BY <1>3, <1>5, FS_EmptySet
  <1> QED
    BY <1>1, <1>2, <1>3, <1>5, <1>6

LEMMA ElapseStep == PagesInv /\ Elapse => PagesInv'
  BY DEF PagesInv, LineInv, OlderInv, NewerInv, Elapse, Readers

LEMMA WriteLineStep == PagesInv /\ WriteLine => PagesInv'
  <1> SUFFICES ASSUME PagesInv, WriteLine PROVE PagesInv'
    OBVIOUS
  <1>1. UNCHANGED <<now, finished, reader>> /\ stamp' = Append(stamp, now)
    BY DEF WriteLine
  <1>2. PICK n \in Nat : n = Len(stamp) /\ DOMAIN stamp = 1..n
    BY DEF PagesInv, LineInv
  <1>3. /\ stamp' \in Seq(Nat) /\ DOMAIN stamp' = 1..(n + 1)
        /\ \A i \in 1..n : stamp'[i] = stamp[i]
        /\ stamp'[n + 1] = now
    BY <1>1, <1>2, AppendProperties DEF PagesInv, LineInv
  <1>4. \A i \in DOMAIN stamp' : (i \in DOMAIN stamp /\ stamp'[i] = stamp[i]) \/ stamp'[i] = now
    BY <1>2, <1>3
  <1>5. \A i \in DOMAIN stamp : i \in DOMAIN stamp' /\ stamp'[i] = stamp[i]
    BY <1>2, <1>3
  <1>6. LineInv'
    BY <1>1, <1>3, <1>4, <1>5 DEF PagesInv, LineInv
  <1>7. OlderInv'
    <2> SUFFICES ASSUME reader.kind = "older" PROVE OlderInv'
      BY <1>1 DEF OlderInv
    <2>1. reader.at \in Nat /\ reader.from \in Nat /\ now \in Nat /\ reader.at <= now /\ reader.from <= now
      BY DEF PagesInv, LineInv, Readers
    <2>2. \A i \in reader.got : stamp'[i] >= reader.at
      BY <1>5 DEF PagesInv, LineInv, OlderInv
    <2>3. ASSUME NEW i \in DOMAIN stamp', reader.at <= stamp'[i], stamp'[i] < reader.from
          PROVE  i \in reader.got \/ stamp'[i] \in reader.edges
      BY <1>4, <2>1, <2>3 DEF PagesInv, OlderInv
    <2>4. ASSUME reader.ended, NEW i \in DOMAIN stamp', stamp'[i] < reader.at
          PROVE  stamp'[i] < reader.at - Window
      BY <1>4, <2>1, <2>4 DEF PagesInv, OlderInv
    <2> QED
      BY <1>1, <2>2, <2>3, <2>4 DEF PagesInv, OlderInv
  <1>8. NewerInv'
    <2>1. reader.at \in Nat /\ reader.from \in Nat /\ now \in Nat /\ reader.at <= now /\ reader.from <= now
      BY DEF PagesInv, LineInv, Readers
    <2>2. \A i \in reader.got : stamp'[i] = stamp[i]
      BY <1>5 DEF PagesInv, LineInv
    <2>3. ASSUME reader.kind \in {"newer", "build"},
                 NEW i \in DOMAIN stamp', reader.from <= stamp'[i], stamp'[i] < reader.at
          PROVE  i \in reader.got
      BY <1>4, <2>1, <2>3 DEF PagesInv, NewerInv
    <2> QED
      BY <1>1, <2>2, <2>3 DEF PagesInv, NewerInv
  <1> QED
    BY <1>6, <1>7, <1>8 DEF PagesInv

LEMMA OpenStep == PagesInv /\ Open => PagesInv'
  <1> SUFFICES ASSUME PagesInv, Open PROVE PagesInv'
    OBVIOUS
  <1>1. UNCHANGED <<now, stamp, finished>>
    BY DEF Open
  <1>2. PICK t \in 0..now, k \in {"older", "newer", "build"} :
          reader' = NewReader(k, t) /\ (k = "older" => t = now)
    <2>1. now \in 0..now /\ 0 \in 0..now
      BY DEF PagesInv, LineInv
    <2> QED
      BY <2>1 DEF Open
  <1>3. t \in Nat /\ t <= now
    BY <1>2 DEF PagesInv, LineInv
  <1>4. LineInv'
    BY <1>1, <1>2, <1>3 DEF PagesInv, LineInv, NewReader, Readers
  <1>5. OlderInv'
    BY <1>1, <1>2, <1>3 DEF PagesInv, LineInv, OlderInv, NewReader
  <1>6. NewerInv'
    BY <1>1, <1>2, <1>3 DEF PagesInv, LineInv, NewerInv, NewReader
  <1> QED
    BY <1>4, <1>5, <1>6 DEF PagesInv

LEMMA ReadOlderStep == PagesInv /\ ReadOlder => PagesInv'
  <1> SUFFICES ASSUME PagesInv, ReadOlder PROVE PagesInv'
    OBVIOUS
  <1> USE DEF PagesInv
  <1>1. /\ UNCHANGED <<now, stamp, finished>> /\ reader.kind = "older" /\ ~reader.ended
        /\ reader \in Readers /\ reader.at \in Nat /\ Window \in Nat \ {0}
    BY PagesConstants DEF ReadOlder, LineInv, Readers, LogPagesAssumption
  <1>2. PICK page \in Older(reader.at) :
          reader' = IF page = {} THEN [reader EXCEPT !.ended = TRUE]
                    ELSE LET oldest == Min({stamp[i] : i \in page})
                         IN  [reader EXCEPT !.at = oldest, !.got = @ \cup page, !.edges = @ \cup {oldest},
                                            !.again = @ \/ page \cap reader.got # {}]
    BY DEF ReadOlder
  <1> DEFINE lo == reader.at - Window
             all == LinesOf(lo, reader.at)
  <1>3. /\ page \subseteq all
        /\ \A i \in page, k \in all \ page : (-1) * stamp[i] <= (-1) * stamp[k]
        /\ page = {} => all = {}
    <2>1. lo \in Int /\ page \in Pages(lo, reader.at, -1)
      BY <1>1 DEF Older
    <2> HIDE DEF lo
    <2> QED
      BY <1>1, <2>1, PageOf
  <1>4. \A i \in DOMAIN stamp : stamp[i] \in Nat
    BY DEF LineInv
  <1>5. \A i \in DOMAIN stamp : i \in all <=> lo <= stamp[i] /\ stamp[i] < reader.at
    BY DEF LinesOf
  <1>6. all \subseteq DOMAIN stamp
    BY DEF LinesOf
  <1> HIDE DEF all
  <1>7. CASE page = {}
    <2>1. /\ reader'.kind = "older" /\ reader'.from = reader.from /\ reader'.at = reader.at
          /\ reader'.got = reader.got /\ reader'.edges = reader.edges /\ reader'.again = reader.again
          /\ reader' \in Readers
      BY <1>1, <1>2, <1>7 DEF Readers
    <2>2. \A i \in DOMAIN stamp : stamp[i] < reader.at => stamp[i] < lo
      BY <1>1, <1>3, <1>4, <1>5, <1>7
    <2>3. LineInv'
      BY <1>1, <2>1 DEF LineInv
    <2>4. OlderInv'
      BY <1>1, <2>1, <2>2 DEF OlderInv
    <2> QED
      BY <2>1, <2>3, <2>4 DEF NewerInv
  <1>8. CASE page # {}
    <2> DEFINE times == {stamp[i] : i \in page}
    <2>1. times \in SUBSET Nat /\ times # {}
      BY <1>3, <1>4, <1>6, <1>8
    <2>2. PICK oldest \in Nat : /\ oldest = Min(times) /\ oldest \in times
                                /\ \A n \in times : oldest <= n
      BY <2>1, LeastOf
    <2>3. PICK first \in page : stamp[first] = oldest
      BY <2>2
    <2>4. /\ reader'.kind = "older" /\ reader'.from = reader.from /\ reader'.at = oldest
          /\ reader'.got = reader.got \cup page /\ reader'.edges = reader.edges \cup {oldest}
          /\ reader'.again = (reader.again \/ page \cap reader.got # {})
          /\ reader'.ended = reader.ended
      BY <1>1, <1>2, <1>8, <2>2 DEF Readers
    <2>5. oldest < reader.at /\ \A i \in page : oldest <= stamp[i] /\ stamp[i] < reader.at
      BY <1>3, <1>5, <1>6, <2>2, <2>3
    <2>6. page \cap reader.got = {}
      BY <1>1, <1>4, <1>6, <1>3, <2>5 DEF OlderInv
    <2>7. ~reader.again /\ reader.got \subseteq DOMAIN stamp /\ page \subseteq DOMAIN stamp
      BY <1>1, <1>3, <1>6 DEF OlderInv, LineInv
    <2>8. page \subseteq Nat
      <3>1. DOMAIN stamp \subseteq Nat
        BY DEF LineInv
      <3> QED
        BY <2>7, <3>1
    <2>9. reader' \in Readers
      BY <1>1, <1>2, <1>8, <2>2, <2>6, <2>7, <2>8 DEF Readers
    <2>10. oldest <= now
      BY <1>1, <2>5 DEF LineInv
    <2>11. LineInv'
      BY <1>1, <2>4, <2>7, <2>9, <2>10 DEF LineInv
    <2>12. ASSUME NEW i \in DOMAIN stamp, oldest <= stamp[i], stamp[i] < reader.from
           PROVE  i \in reader.got \cup page \/ stamp[i] \in reader.edges \cup {oldest}
      <3>1. CASE reader.at <= stamp[i]
        BY <1>1, <2>12, <3>1 DEF OlderInv
      <3>2. CASE ~(reader.at <= stamp[i]) /\ i \notin page
        <4>1. i \in all
          BY <1>1, <1>3, <1>4, <1>5, <1>6, <2>3, <2>12, <3>2
        <4>2. (-1) * stamp[first] <= (-1) * stamp[i]
          BY <1>3, <2>3, <3>2, <4>1
        <4>3. stamp[i] = oldest
          BY <1>4, <2>3, <2>12, <4>2
        <4> QED
          BY <4>3
      <3> QED
        BY <3>1, <3>2
    <2>13. \A i \in reader.got \cup page : stamp[i] >= oldest
      BY <1>1, <1>4, <2>5, <2>7 DEF OlderInv
    <2>14. oldest <= reader.from
      BY <1>1, <2>5 DEF OlderInv, Readers
    <2>15. OlderInv'
      BY <1>1, <2>4, <2>6, <2>7, <2>12, <2>13, <2>14 DEF OlderInv
    <2> QED
      BY <2>4, <2>11, <2>15 DEF NewerInv
  <1> QED
    BY <1>7, <1>8

LEMMA EndOfRange == LineInv => End \in Nat /\ End <= now
  <1> SUFFICES ASSUME LineInv PROVE End \in Nat /\ End <= now
    OBVIOUS
  <1>1. now \in Nat /\ finished + Buffer \in Nat
    BY PagesConstants DEF LineInv, LogPagesAssumption
  <1>2. Min({now, finished + Buffer}) \in Nat /\ Min({now, finished + Buffer}) <= now
    BY <1>1, LeastOf
  <1> QED
    BY <1>1, <1>2 DEF End, BuildEnd

LEMMA ReadNewerStep == PagesInv /\ ReadNewer => PagesInv'
  <1> SUFFICES ASSUME PagesInv, ReadNewer PROVE PagesInv'
    OBVIOUS
  <1> USE DEF PagesInv
  <1>1. /\ UNCHANGED <<now, stamp, finished>> /\ reader.kind \in {"newer", "build"}
        /\ reader \in Readers /\ reader.at \in Nat
    BY DEF ReadNewer, LineInv, Readers
  <1>2. PICK page \in Newer(reader.at) :
          reader' = [reader EXCEPT !.at = IF page = {} THEN @ ELSE Max({stamp[i] : i \in page}),
                                   !.got = @ \cup page,
                                   !.ended = page \subseteq reader.got]
    BY DEF ReadNewer
  <1>3. PICK end \in Nat : end = End /\ end <= now
    BY EndOfRange
  <1> DEFINE all == LinesOf(reader.at, end)
  <1>4. /\ page \subseteq all
        /\ \A i \in page, k \in all \ page : 1 * stamp[i] <= 1 * stamp[k]
    <2>1. page \in Pages(reader.at, end, 1)
      BY <1>3 DEF Newer, From
    <2> QED
      BY <1>1, <2>1, PageOf
  <1>5. \A i \in DOMAIN stamp : stamp[i] \in Nat /\ stamp[i] <= now
    BY DEF LineInv
  <1>6. all \subseteq DOMAIN stamp /\ \A i \in DOMAIN stamp : i \in all <=> reader.at <= stamp[i] /\ stamp[i] < end
    BY DEF LinesOf
  <1> HIDE DEF all
  <1>7. PICK last \in Nat :
          /\ last = IF page = {} THEN reader.at ELSE Max({stamp[i] : i \in page})
          /\ reader.at <= last /\ last <= now
          /\ \A i \in page : stamp[i] <= last
          /\ last # reader.at => \E i \in page : stamp[i] = last
    <2>1. CASE page = {}
      BY <1>1, <2>1 DEF LineInv
    <2>2. CASE page # {}
      <3> DEFINE times == {stamp[i] : i \in page}
      <3>1. times \in SUBSET (0..now) /\ times # {} /\ now \in Nat
        BY <1>4, <1>5, <1>6, <2>2 DEF LineInv
      <3>2. Max(times) \in times /\ \A n \in times : Max(times) >= n
        BY <3>1, GreatestOf
      <3>3. PICK i \in page : stamp[i] = Max(times)
        BY <3>2
      <3>4. reader.at <= stamp[i] /\ stamp[i] \in Nat /\ stamp[i] <= now
        BY <1>4, <1>5, <1>6
      <3> QED
        BY <2>2, <3>2, <3>3, <3>4
    <2> QED
      BY <2>1, <2>2
  <1>8. /\ reader'.kind = reader.kind /\ reader'.from = reader.from /\ reader'.at = last
        /\ reader'.got = reader.got \cup page
    BY <1>1, <1>2, <1>7 DEF Readers
  <1>9. page \subseteq DOMAIN stamp /\ reader.got \subseteq DOMAIN stamp /\ DOMAIN stamp \subseteq Nat
    BY <1>4, <1>6 DEF LineInv
  <1>10. reader' \in Readers
    BY <1>1, <1>2, <1>7, <1>9 DEF Readers
  <1>11. LineInv'
    BY <1>1, <1>7, <1>8, <1>9, <1>10 DEF LineInv
  <1>12. OlderInv'
    BY <1>1, <1>8 DEF OlderInv
  <1>13. /\ reader.from <= reader.at /\ reader.from \in Nat
         /\ \A i \in reader.got : stamp[i] <= reader.at
         /\ \A i \in DOMAIN stamp : reader.from <= stamp[i] /\ stamp[i] < reader.at => i \in reader.got
    BY <1>1 DEF NewerInv, Readers
  <1>14. ASSUME NEW i \in DOMAIN stamp, reader.from <= stamp[i], stamp[i] < last
         PROVE  i \in reader.got \cup page
    <2>1. CASE stamp[i] < reader.at
      BY <1>13, <1>14, <2>1
    <2>2. CASE ~(stamp[i] < reader.at)
      <3>1. PICK k \in page : stamp[k] = last
        BY <1>1, <1>5, <1>7, <1>14, <2>2
      <3>2. i \in all
        BY <1>1, <1>4, <1>5, <1>6, <1>14, <2>2, <3>1
      <3>3. i \notin page => 1 * stamp[k] <= 1 * stamp[i]
        BY <1>4, <3>2
      <3> QED
        BY <1>5, <1>14, <3>1, <3>3
    <2> QED
      BY <2>1, <2>2
  <1>15. \A i \in reader.got \cup page : stamp[i] <= last
    BY <1>1, <1>5, <1>7, <1>9, <1>13
  <1>16. NewerInv'
    BY <1>1, <1>7, <1>8, <1>13, <1>14, <1>15 DEF NewerInv
  <1> QED
    BY <1>11, <1>12, <1>16

LEMMA PagesStep == PagesInv /\ [PagesNext]_lpvars => PagesInv'
  <1> SUFFICES ASSUME PagesInv, [PagesNext]_lpvars PROVE PagesInv'
    OBVIOUS
  <1>1. CASE UNCHANGED lpvars
    BY <1>1 DEF lpvars, PagesInv, LineInv, OlderInv, NewerInv
  <1>2. CASE PagesNext
    BY <1>2, ElapseStep, WriteLineStep, OpenStep, ReadOlderStep, ReadNewerStep DEF PagesNext
  <1> QED
    BY <1>1, <1>2

LEMMA OlderAreWhole == PagesInv => OlderPagesAreWhole
  <1> SUFFICES ASSUME PagesInv, reader.kind = "older"
               PROVE  /\ ~reader.again
                      /\ reader.ended =>
                           \A i \in DOMAIN stamp :
                             \/ i \in reader.got \/ stamp[i] \in reader.edges
                             \/ stamp[i] < reader.at - Window
                             \/ stamp[i] >= reader.from
    BY DEF OlderPagesAreWhole
  <1> USE DEF PagesInv
  <1>1. reader.at \in Nat /\ reader.from \in Nat /\ \A i \in DOMAIN stamp : stamp[i] \in Nat
    BY DEF LineInv, Readers
  <1>2. ASSUME reader.ended, NEW i \in DOMAIN stamp
        PROVE  \/ i \in reader.got \/ stamp[i] \in reader.edges
               \/ stamp[i] < reader.at - Window
               \/ stamp[i] >= reader.from
    <2>1. stamp[i] < reader.at \/ stamp[i] >= reader.from \/ (reader.at <= stamp[i] /\ stamp[i] < reader.from)
      BY <1>1
    <2> QED
      BY <1>2, <2>1 DEF OlderInv
  <1>3. ~reader.again
    BY DEF OlderInv
  <1> QED
    BY <1>2, <1>3

\* What NewerPagesAreWhole says of a step.
NothingMissing ==
  \/ \A i \in DOMAIN stamp : stamp[i] < reader.from \/ stamp[i] >= End \/ i \in reader.got
  \/ Cardinality(LinesAt(reader.at)) >= Limit

LEMMA NewerAreWhole == PagesInv /\ ReadNewer /\ reader'.ended => NothingMissing
  <1> SUFFICES ASSUME PagesInv, ReadNewer, reader'.ended PROVE NothingMissing
    OBVIOUS
  <1> USE DEF PagesInv
  <1>1. reader.kind \in {"newer", "build"} /\ reader \in Readers /\ reader.at \in Nat /\ reader.from \in Nat
    BY DEF ReadNewer, LineInv, Readers
  <1>2. PICK page \in Newer(reader.at) : reader'.ended = (page \subseteq reader.got)
    BY <1>1 DEF ReadNewer, Readers
  <1>3. page \subseteq reader.got
    BY <1>2
  <1>4. PICK end \in Nat : end = End
    BY EndOfRange
  <1>5. /\ page \subseteq LinesOf(reader.at, end)
        /\ Cardinality(page) = Limit \/ page = LinesOf(reader.at, end)
    <2>1. page \in Pages(reader.at, end, 1)
      BY <1>4 DEF Newer, From
    <2> QED
      BY <1>1, <2>1, PageOf
  <1>6. \A i \in DOMAIN stamp : stamp[i] \in Nat
    BY DEF LineInv
  <1>7. CASE page = LinesOf(reader.at, end)
    <2>1. ASSUME NEW i \in DOMAIN stamp, ~(stamp[i] < reader.from), ~(stamp[i] >= end)
          PROVE  i \in reader.got
      <3>1. CASE stamp[i] < reader.at
        BY <1>1, <1>6, <2>1, <3>1 DEF NewerInv
      <3>2. CASE ~(stamp[i] < reader.at)
        <4>1. i \in LinesOf(reader.at, end)
          BY <1>1, <1>6, <2>1, <3>2 DEF LinesOf
        <4> QED
          BY <1>3, <1>7, <4>1
      <3> QED
        BY <3>1, <3>2
    <2> QED
      BY <1>4, <2>1 DEF NothingMissing
  <1>8. CASE Cardinality(page) = Limit
    <2>1. page \in SUBSET LinesAt(reader.at)
      <3> SUFFICES ASSUME NEW i \in page PROVE i \in DOMAIN stamp /\ stamp[i] = reader.at
        BY DEF LinesAt
      <3>1. i \in DOMAIN stamp /\ reader.at <= stamp[i]
        BY <1>5 DEF LinesOf
      <3>2. stamp[i] <= reader.at
        BY <1>1, <1>3 DEF NewerInv
      <3> QED
        BY <1>1, <1>6, <3>1, <3>2
    <2>2. IsFiniteSet(LinesAt(reader.at))
      <3>1. DOMAIN stamp = 1..Len(stamp) /\ Len(stamp) \in Nat
        BY DEF LineInv
      <3>2. IsFiniteSet(1..Len(stamp)) /\ LinesAt(reader.at) \in SUBSET (1..Len(stamp))
        BY <3>1, FS_Interval DEF LinesAt
      <3> QED
        BY <3>2, FS_Subset
    <2>3. /\ Cardinality(page) <= Cardinality(LinesAt(reader.at))
          /\ Cardinality(LinesAt(reader.at)) \in Nat /\ Limit \in Nat
      BY <2>1, <2>2, FS_Subset, FS_CardinalityType, PagesConstants DEF LogPagesAssumption
    <2> QED
      BY <1>8, <2>3 DEF NothingMissing
  <1> QED
    BY <1>5, <1>7, <1>8

(* Older pages: no line twice, none left out, for any limit, window and    *)
(* number of lines, whichever lines of one time Loki puts on a page.       *)
THEOREM OlderPagesHold == PagesSpec => []OlderPagesAreWhole
  BY PagesStart, PagesStep, OlderAreWhole, PTL DEF PagesSpec

(* Newer pages and the log of a build: a page with nothing new means that  *)
(* nothing is missing, or that one moment has more lines than a page.      *)
THEOREM NewerPagesHold == PagesSpec => NewerPagesAreWhole
  <1>1. PagesInv /\ [PagesNext]_lpvars => [ReadNewer /\ reader'.ended => NothingMissing]_lpvars
    BY NewerAreWhole
  <1>2. PagesSpec => [][ReadNewer /\ reader'.ended => NothingMissing]_lpvars
    BY <1>1, PagesStart, PagesStep, PTL DEF PagesSpec
  <1> QED
    BY <1>2 DEF NewerPagesAreWhole, NothingMissing

-----------------------------------------------------------------------------
(* The status and the deployment it shows.                                 *)

\* A build of a later run than the latest deployment's is not finished before that
\* deployment was created, in the seconds that are compared.
NotBefore(b, d) ==
  d # None /\ d.cycle < b.cycle =>
    IF b.finished = None THEN V!Stored(b.since) >= d.created ELSE b.finished >= d.created

BuildSound(b) ==
  /\ b \in V!BuildRows \cup {None}
  /\ b # None =>
       /\ b.cycle <= cycle /\ b.since <= time
       /\ b.status = "running" => b.finished = None
       /\ NotBefore(b, deployed)

StatusShape ==
  /\ time \in 0..MaxTime /\ cycle \in 0..MaxCycles
  /\ deployed \in V!DeploymentRows \cup {None}
  /\ deployed # None => deployed.cycle <= cycle /\ deployed.created <= V!Stored(time)
  /\ DOMAIN builds = Containers

QueryShape ==
  /\ query = [pc |-> query.pc, op |-> query.op, builds |-> query.builds, deployment |-> query.deployment]
  /\ query.pc = "active" => query.op = "deploying"
  /\ query.pc \in {"builds", "latest"} /\ query.op # "deploying" => query.deployment = None

StatusInv ==
  /\ StatusShape /\ QueryShape
  /\ \A c \in Containers : BuildSound(builds[c])
  /\ \A c \in DOMAIN query.builds : BuildSound(query.builds[c])
  /\ V!NoStaleDeployment

LEMMA Constants ==
  /\ MaxTime \in Nat /\ MaxCycles \in Nat
  /\ None \notin 0..MaxTime /\ None \notin V!BuildRows /\ None \notin V!DeploymentRows
  BY StatusConstants DEF V!StatusAssumption

LEMMA StoredTimes ==
  /\ \A t \in 0..MaxTime : V!Stored(t) \in 0..MaxTime
  /\ \A t, u \in 0..MaxTime : t <= u => V!Stored(t) <= V!Stored(u)
  /\ \A t \in 1..MaxTime : V!CompletionTime(t) \in 0..MaxTime
  /\ \A s, t \in 0..MaxTime : s < t => V!Stored(s) <= V!CompletionTime(t)
  BY Constants DEF V!Stored, V!CompletionTime

LEMMA StatusStart == V!StatusInit => StatusInv
  BY Constants DEF V!StatusInit, StatusInv, StatusShape, QueryShape, BuildSound, V!NoStaleDeployment, V!IdleQuery

\* A build stays sound while time passes, and while the latest deployment is the same.
LEMMA BuildStaysSound ==
  ASSUME NEW b, BuildSound(b), cycle \in Nat, cycle' \in Nat, time \in Nat, time' \in Nat,
         cycle <= cycle', time <= time', deployed' = deployed
  PROVE  BuildSound(b)'
  BY Constants DEF BuildSound, NotBefore, V!BuildRows

LEMMA RunKeepsQuery ==
  ASSUME StatusInv, query' = query, StatusShape', deployed' = deployed, cycle <= cycle', time <= time',
         \A c \in Containers : BuildSound(builds[c])'
  PROVE  StatusInv'
  <1>1. cycle \in Nat /\ cycle' \in Nat /\ time \in Nat /\ time' \in Nat
    BY Constants DEF StatusInv, StatusShape
  <1>2. \A c \in DOMAIN query.builds : BuildSound(query.builds[c])'
    BY <1>1, BuildStaysSound DEF StatusInv
  <1> QED
    BY <1>2 DEF StatusInv, QueryShape, V!NoStaleDeployment, V!ShownFinished

LEMMA RunStep ==
  ASSUME StatusInv,
         \/ V!Elapse \/ V!StartBuild \/ V!BuildsFinished \/ V!DeploymentFinished
         \/ \E c \in Containers : V!CreateBuild(c) \/ V!FinishBuild(c)
  PROVE  StatusInv'
  <1>1. /\ time \in Nat /\ cycle \in Nat /\ time \in 0..MaxTime /\ cycle \in 0..MaxCycles
        /\ MaxTime \in Nat /\ MaxCycles \in Nat
    BY Constants DEF StatusInv, StatusShape
  <1>2. CASE V!Elapse \/ V!StartBuild \/ V!DeploymentFinished
    <2>1. /\ UNCHANGED <<builds, deployed, query>>
          /\ time' \in 0..MaxTime /\ cycle' \in 0..MaxCycles /\ time <= time' /\ cycle <= cycle'
      BY <1>1, <1>2 DEF V!Elapse, V!StartBuild, V!DeploymentFinished
    <2>2. StatusShape'
      <3>1. V!Stored(time) <= V!Stored(time') /\ V!Stored(time) \in Nat /\ V!Stored(time') \in Nat
        BY <1>1, <2>1, StoredTimes
      <3>2. deployed # None => deployed.created \in Nat /\ deployed.cycle \in Nat
        BY DEF StatusInv, StatusShape, V!DeploymentRows
      <3> QED
        BY <1>1, <2>1, <3>1, <3>2 DEF StatusInv, StatusShape, V!Stored
    <2>3. \A c \in Containers : BuildSound(builds[c])'
      BY <1>1, <2>1, BuildStaysSound DEF StatusInv
    <2> QED
      BY <2>1, <2>2, <2>3, RunKeepsQuery
  <1>3. ASSUME NEW c \in Containers, V!CreateBuild(c) PROVE StatusInv'
    <2>0. PICK new : new = [cycle |-> cycle, since |-> time, status |-> "running", finished |-> None]
      OBVIOUS
    <2>1. UNCHANGED <<time, op, cycle, deployed, query>> /\ builds' = [builds EXCEPT ![c] = new]
      BY <1>3, <2>0 DEF V!CreateBuild
    <2>2. BuildSound(new)'
      <3>1. new \in V!BuildRows
        BY <1>1, <2>0 DEF V!BuildRows
      <3>2. new.cycle = cycle /\ new.since = time /\ new.status = "running" /\ new.finished = None
        BY <2>0
      <3>3. deployed # None => V!Stored(time) >= deployed.created
        <4>1. deployed # None => deployed.created \in Nat /\ deployed.created <= V!Stored(time)
          BY DEF StatusInv, StatusShape, V!DeploymentRows
        <4> QED
          BY <1>1, <4>1, StoredTimes
      <3> QED
        BY <1>1, <2>1, <3>1, <3>2, <3>3 DEF BuildSound, NotBefore, V!Stored
    <2>3. StatusShape'
      BY <2>1 DEF StatusInv, StatusShape, V!Stored
    <2>4. \A x \in Containers : BuildSound(builds[x])'
      <3> TAKE x \in Containers
      <3>1. BuildSound(builds[x])
        BY DEF StatusInv
      <3>2. builds'[x] = IF x = c THEN new ELSE builds[x]
        BY <2>1 DEF StatusInv, StatusShape
      <3>3. x # c => BuildSound(builds[x])'
        BY <2>1, <3>1, <3>2 DEF BuildSound, NotBefore
      <3> QED
        BY <2>2, <3>2, <3>3 DEF BuildSound, NotBefore
    <2> QED
      BY <1>1, <2>1, <2>3, <2>4, RunKeepsQuery
  <1>4. ASSUME NEW c \in Containers, V!FinishBuild(c) PROVE StatusInv'
    <2>1. UNCHANGED <<time, op, cycle, deployed, query>> /\ builds[c] # None /\ builds[c].status = "running"
      BY <1>4 DEF V!FinishBuild, V!BuildOf
    <2>2. PICK b \in V!BuildRows : b = builds[c] /\ BuildSound(b) /\ b # None
      BY <2>1, Constants DEF StatusInv, BuildSound
    <2>3. PICK f \in 0..MaxTime, s \in {"success", "failed", "backend_trigger_failed"} :
            /\ builds' = [builds EXCEPT ![c].status = s, ![c].finished = f]
            /\ V!Stored(b.since) <= f
      <3>1. b.since \in 0..MaxTime /\ b.since <= time
        BY <2>2 DEF BuildSound, V!BuildRows
      <3>2. CASE builds' = [builds EXCEPT ![c].status = "backend_trigger_failed", ![c].finished = V!Stored(time)]
        BY <1>1, <3>1, <3>2, StoredTimes
      <3>3. CASE \E t \in builds[c].since + 1 .. time, s \in {"success", "failed"} :
                   builds' = [builds EXCEPT ![c].status = s, ![c].finished = V!CompletionTime(t)]
        <4>1. PICK t \in builds[c].since + 1 .. time, s \in {"success", "failed"} :
                     builds' = [builds EXCEPT ![c].status = s, ![c].finished = V!CompletionTime(t)]
          BY <3>3
        <4>2. t \in 1..MaxTime /\ b.since < t
          BY <1>1, <2>2, <3>1, <4>1
        <4>3. V!CompletionTime(t) \in 0..MaxTime /\ V!Stored(b.since) <= V!CompletionTime(t)
          BY <3>1, <4>2, StoredTimes
        <4> QED
          BY <4>1, <4>3
      <3> QED
        BY <1>4, <3>2, <3>3 DEF V!FinishBuild
    <2>4. PICK new : new = [b EXCEPT !.status = s, !.finished = f]
      OBVIOUS
    <2>5. /\ new \in V!BuildRows /\ new.cycle = b.cycle /\ new.since = b.since
          /\ new.status = s /\ new.finished = f
      BY <2>2, <2>3, <2>4 DEF V!BuildRows
    <2>6. BuildSound(new)'
      <3>1. b.status = "running" /\ b.finished = None
        BY <2>1, <2>2 DEF BuildSound
      <3>2. f # None /\ new # None
        BY <2>3, <2>5, Constants
      <3>3. deployed # None /\ deployed.cycle < b.cycle => f >= deployed.created
        <4>1. deployed # None /\ deployed.cycle < b.cycle => V!Stored(b.since) >= deployed.created
          BY <2>2, <3>1 DEF BuildSound, NotBefore
        <4>2. deployed # None => deployed.created \in Nat
          BY DEF StatusInv, StatusShape, V!DeploymentRows
        <4>3. V!Stored(b.since) \in Nat /\ f \in Nat
          BY <2>2, <2>3, StoredTimes DEF V!BuildRows
        <4> QED
          BY <2>3, <4>1, <4>2, <4>3
      <3> QED
        BY <2>1, <2>2, <2>3, <2>5, <3>2, <3>3 DEF BuildSound, NotBefore
    <2>7. builds' = [builds EXCEPT ![c] = new]
      BY <2>2, <2>3, <2>4
    <2>8. StatusShape'
      BY <2>1, <2>7 DEF StatusInv, StatusShape, V!Stored
    <2>9. \A x \in Containers : BuildSound(builds[x])'
      <3> TAKE x \in Containers
      <3>1. BuildSound(builds[x])
        BY DEF StatusInv
      <3>2. builds'[x] = IF x = c THEN new ELSE builds[x]
        BY <2>7 DEF StatusInv, StatusShape
      <3>3. x # c => BuildSound(builds[x])'
        BY <2>1, <3>1, <3>2 DEF BuildSound, NotBefore
      <3> QED
        BY <2>6, <3>2, <3>3 DEF BuildSound, NotBefore
    <2> QED
      BY <1>1, <2>1, <2>8, <2>9, RunKeepsQuery
  <1>5. CASE V!BuildsFinished
    <2>1. UNCHANGED <<time, cycle, builds, query>>
      BY <1>5 DEF V!BuildsFinished
    <2>2. CASE deployed' = deployed
      <3>1. StatusShape'
        BY <2>1, <2>2 DEF StatusInv, StatusShape, V!Stored
      <3>2. \A c \in Containers : BuildSound(builds[c])'
        BY <1>1, <2>1, <2>2, BuildStaysSound DEF StatusInv
      <3> QED
        BY <1>1, <2>1, <2>2, <3>1, <3>2, RunKeepsQuery
    <2>3. CASE deployed' = [cycle |-> cycle, created |-> V!Stored(time)]
      <3>1. /\ deployed' \in V!DeploymentRows /\ deployed'.cycle = cycle
            /\ deployed'.created = V!Stored(time)
        BY <1>1, <2>3, StoredTimes DEF V!DeploymentRows
      <3>2. StatusShape'
        <4>1. V!Stored(time)' = V!Stored(time) /\ V!Stored(time) \in Nat
          BY <1>1, <2>1, StoredTimes DEF V!Stored
        <4> QED
          BY <1>1, <2>1, <3>1, <4>1 DEF StatusInv, StatusShape
      <3>3. ASSUME NEW b, BuildSound(b) PROVE BuildSound(b)'
        <4>1. b # None => b.cycle \in Nat /\ b.cycle <= cycle
          BY <3>3 DEF BuildSound, V!BuildRows
        <4>2. b # None => ~(deployed'.cycle < b.cycle)
          BY <1>1, <3>1, <4>1
        <4> QED
          BY <2>1, <3>3, <4>2 DEF BuildSound, NotBefore
      <3>4. /\ \A c \in Containers : BuildSound(builds[c])'
            /\ \A c \in DOMAIN query.builds : BuildSound(query.builds[c])'
        BY <2>1, <3>3 DEF StatusInv
      <3> QED
        BY <2>1, <3>2, <3>4 DEF StatusInv, QueryShape, V!NoStaleDeployment, V!ShownFinished
    <2> QED
      BY <1>5, <2>2, <2>3 DEF V!BuildsFinished
  <1> QED
    BY <1>2, <1>3, <1>4, <1>5

\* A deployment that is included belongs to the builds beside it.
LEMMA IncludedIsOwn ==
  ASSUME StatusInv, V!shouldIncludeDeployment(deployed, query.builds),
         NEW c \in DOMAIN query.builds, query.builds[c] # None, query.builds[c].finished # None
  PROVE  deployed.cycle >= query.builds[c].cycle
  <1>1. PICK b \in V!BuildRows : b = query.builds[c] /\ BuildSound(b) /\ b # None /\ b.finished # None
    BY DEF StatusInv, BuildSound
  <1> DEFINE times == V!FinishTimes(query.builds)
  <1>2. times \in SUBSET (0..MaxTime)
    <2> SUFFICES ASSUME NEW t \in times PROVE t \in 0..MaxTime
      OBVIOUS
    <2>1. PICK x \in DOMAIN query.builds : query.builds[x] # None /\ t = query.builds[x].finished /\ t # None
      BY DEF V!FinishTimes
    <2>2. query.builds[x] \in V!BuildRows
      BY <2>1 DEF StatusInv, BuildSound
    <2> QED
      BY <2>1, <2>2 DEF V!BuildRows
  <1>3. b.finished \in times
    BY <1>1 DEF V!FinishTimes
  <1>4. \E t \in times : \A u \in times : t >= u
    BY <1>2, <1>3, Constants, GreatestExists
  <1>5. V!LatestFinish(query.builds) \in times /\ V!LatestFinish(query.builds) >= b.finished
    BY <1>3, <1>4 DEF V!LatestFinish
  <1>6. deployed # None /\ deployed.created > V!LatestFinish(query.builds)
    BY <1>3 DEF V!shouldIncludeDeployment
  <1>7. /\ deployed.created \in Nat /\ deployed.cycle \in Nat /\ b.cycle \in Nat
        /\ b.finished \in Nat /\ V!LatestFinish(query.builds) \in Nat
    <2>1. deployed \in V!DeploymentRows
      BY <1>6 DEF StatusInv, StatusShape
    <2>2. b.finished \in 0..MaxTime /\ V!LatestFinish(query.builds) \in 0..MaxTime
      BY <1>2, <1>3, <1>5
    <2> QED
      BY <1>1, <2>1, <2>2 DEF V!DeploymentRows, V!BuildRows
  <1>8. ~(b.finished >= deployed.created)
    BY <1>5, <1>6, <1>7
  <1>9. ~(deployed.cycle < b.cycle)
    BY <1>1, <1>6, <1>8 DEF BuildSound, NotBefore
  <1> QED
    BY <1>1, <1>7, <1>9

LEMMA RequestStep ==
  ASSUME StatusInv, V!Request
  PROVE  StatusInv'
  <1>1. UNCHANGED <<time, op, cycle, builds, deployed>>
    BY DEF V!Request, V!ReadProject, V!ReadActive, V!BuildsRead, V!ReadLatest, V!ReadBuild
  <1>2. StatusShape'
    BY <1>1 DEF StatusInv, StatusShape, V!Stored
  <1>3. \A b : BuildSound(b) => BuildSound(b)'
    BY <1>1 DEF BuildSound, NotBefore
  <1>4. \A c \in Containers : BuildSound(builds[c])'
    BY <1>1, <1>3 DEF StatusInv, BuildSound, NotBefore
  <1>5. SUFFICES /\ QueryShape' /\ \A c \in DOMAIN query'.builds : BuildSound(query'.builds[c])
                 /\ V!NoStaleDeployment'
    <2>1. ASSUME \A c \in DOMAIN query'.builds : BuildSound(query'.builds[c])
          PROVE  \A c \in DOMAIN query'.builds : BuildSound(query.builds[c])'
      BY <1>1, <2>1 DEF BuildSound, NotBefore
    <2> QED
      BY <1>2, <1>4, <2>1 DEF StatusInv
  <1>6. PICK q : q = query /\ q = [pc |-> q.pc, op |-> q.op, builds |-> q.builds, deployment |-> q.deployment]
    BY DEF StatusInv, QueryShape
  <1>7. CASE V!ReadProject
    <2>1. PICK p : p = IF op = "deploying" THEN "active" ELSE "builds"
      OBVIOUS
    <2>d. PICK d : d = IF op = "deploying" THEN deployed ELSE None
      OBVIOUS
    <2>q. query' = [pc |-> p, op |-> op, builds |-> <<>>, deployment |-> d]
      BY <1>7, <2>1, <2>d DEF V!ReadProject
    <2>2. DOMAIN query'.builds = {}
      BY <2>q
    <2> QED
      BY <2>1, <2>d, <2>q, <2>2 DEF QueryShape, V!NoStaleDeployment
  <1>8. CASE V!ReadActive
    <2>1. PICK d : query' = [q EXCEPT !.pc = "builds", !.deployment = d]
      BY <1>6, <1>8 DEF V!ReadActive
    <2>2. /\ query' = [pc |-> "builds", op |-> q.op, builds |-> q.builds, deployment |-> d]
      BY <1>6, <2>1
    <2>3. q.op = "deploying"
      BY <1>6, <1>8 DEF V!ReadActive, StatusInv, QueryShape
    <2> QED
      BY <1>6, <2>2, <2>3 DEF StatusInv, QueryShape, V!NoStaleDeployment
  <1>9. CASE V!BuildsRead
    <2>1. PICK p \in {"answered", "latest"} :
            query' = [q EXCEPT !.pc = p] /\ (p = "answered" <=> q.op = "deploying")
      BY <1>6, <1>9 DEF V!BuildsRead
    <2>2. /\ query' = [pc |-> p, op |-> q.op, builds |-> q.builds, deployment |-> q.deployment]
      BY <1>6, <2>1
    <2>3. q.pc = "builds"
      BY <1>6, <1>9 DEF V!BuildsRead
    <2> QED
      BY <1>6, <2>1, <2>2, <2>3 DEF StatusInv, QueryShape, V!NoStaleDeployment
  <1>10. CASE V!ReadLatest
    <2>1. q.pc = "latest"
      BY <1>6, <1>10 DEF V!ReadLatest
    <2>2. PICK d : /\ query' = [q EXCEPT !.pc = "answered", !.deployment = d]
                   /\ \/ d = deployed /\ V!shouldIncludeDeployment(deployed, q.builds)
                      \/ d = None
                      \/ d = q.deployment
      <3>1. CASE query' = [query EXCEPT !.pc = "answered"]
        <4>1. query' = [q EXCEPT !.pc = "answered", !.deployment = q.deployment]
          BY <1>6, <3>1
        <4> QED
          BY <4>1
      <3>2. CASE query' = [query EXCEPT !.pc = "answered",
                             !.deployment = IF V!shouldIncludeDeployment(deployed, query.builds) THEN deployed ELSE None]
        BY <1>6, <3>2
      <3> QED
        BY <1>10, <3>1, <3>2 DEF V!ReadLatest
    <2>3. /\ query' = [pc |-> "answered", op |-> q.op, builds |-> q.builds, deployment |-> d]
      BY <1>6, <2>2
    <2>4. /\ query'.pc = "answered" /\ query'.op = q.op /\ query'.builds = q.builds
          /\ query'.deployment = d
      BY <2>3
    <2>5. QueryShape' /\ \A c \in DOMAIN query'.builds : BuildSound(query'.builds[c])
      BY <1>6, <2>3, <2>4 DEF StatusInv, QueryShape
    <2>6. q.op # "deploying" /\ d # None => d = deployed /\ V!shouldIncludeDeployment(deployed, q.builds)
      BY <1>6, <2>1, <2>2 DEF StatusInv, QueryShape
    <2>7. ASSUME q.op # "deploying", d # None,
                 NEW c \in DOMAIN q.builds, q.builds[c] # None, q.builds[c].finished # None
          PROVE  d.cycle >= q.builds[c].cycle
      BY <1>6, <2>6, <2>7, IncludedIsOwn
    <2>8. V!NoStaleDeployment'
      BY <2>4, <2>7 DEF V!NoStaleDeployment, V!ShownFinished
    <2> QED
      BY <2>5, <2>8
  <1>11. ASSUME NEW c \in Containers, V!ReadBuild(c)
         PROVE  /\ QueryShape' /\ \A x \in DOMAIN query'.builds : BuildSound(query'.builds[x])
                /\ V!NoStaleDeployment'
    <2>1. PICK bs : bs = [x \in DOMAIN q.builds \cup {c} |-> IF x = c THEN builds[c] ELSE q.builds[x]]
      OBVIOUS
    <2>2. query' = [q EXCEPT !.builds = bs] /\ q.pc = "builds"
      BY <1>6, <1>11, <2>1 DEF V!ReadBuild
    <2>3. query' = [pc |-> "builds", op |-> q.op, builds |-> bs, deployment |-> q.deployment]
      BY <1>6, <2>2
    <2>4. \A x \in DOMAIN bs : BuildSound(bs[x])
      <3> TAKE x \in DOMAIN bs
      <3>1. x \in DOMAIN q.builds \cup {c} /\ bs[x] = IF x = c THEN builds[c] ELSE q.builds[x]
        BY <2>1
      <3>2. BuildSound(builds[c]) /\ (x \in DOMAIN q.builds => BuildSound(q.builds[x]))
        BY <1>6 DEF StatusInv
      <3> QED
        BY <3>1, <3>2 DEF BuildSound, NotBefore
    <2>5. query'.builds = bs /\ query'.pc = "builds"
      BY <2>3
    <2> QED
      BY <1>6, <2>2, <2>3, <2>4, <2>5 DEF StatusInv, QueryShape, V!NoStaleDeployment
  <1> QED
    BY <1>7, <1>8, <1>9, <1>10, <1>11 DEF V!Request

LEMMA StatusStep == StatusInv /\ [V!StatusNext]_statusvars => StatusInv'
  <1> SUFFICES ASSUME StatusInv, [V!StatusNext]_statusvars PROVE StatusInv'
    OBVIOUS
  <1>1. CASE V!StatusNext
    BY <1>1, RunStep, RequestStep DEF V!StatusNext
  <1>2. CASE UNCHANGED statusvars
    <2>1. UNCHANGED <<time, op, cycle, builds, deployed, query>>
      BY <1>2 DEF statusvars
    <2>2. StatusShape'
      BY <2>1 DEF StatusInv, StatusShape, V!Stored
    <2>3. \A c \in Containers : BuildSound(builds[c])'
      BY <2>1 DEF StatusInv, BuildSound, NotBefore
    <2>4. cycle <= cycle' /\ time <= time'
      BY <2>1, Constants DEF StatusInv, StatusShape
    <2> QED
      BY <2>1, <2>2, <2>3, <2>4, RunKeepsQuery
  <1> QED
    BY <1>1, <1>2

(* The status: unless the project said it was deploying, no deployment of  *)
(* an earlier run is shown beside a finished build of a later one.  For    *)
(* any containers, times and number of runs, however the reads of a        *)
(* request and the steps of runs interleave.                               *)
THEOREM NoStaleDeploymentHolds == V!StatusSpec => []V!NoStaleDeployment
  <1>1. StatusInv => V!NoStaleDeployment
    BY DEF StatusInv
  <1>2. StatusInv /\ [V!StatusNext]_V!svars => StatusInv'
    BY StatusStep DEF V!svars, statusvars
  <1> QED
    BY <1>1, <1>2, StatusStart, PTL DEF V!StatusSpec

-----------------------------------------------------------------------------
(* The word for a pod.                                                     *)

\* The first word that is one, and the fold from the last container to the first.
Said(f, words, last, n) ==
  f = [j \in 1..(n + 1) |-> IF j > n THEN last ELSE IF words[j] = None THEN f[j + 1] ELSE words[j]]

LEMMA FirstWordIs ==
  ASSUME NEW words, NEW else, NEW n \in Nat, DOMAIN words = 1..n
  PROVE  /\ (\A i \in 1..n : words[i] = None) => K!FirstWord(words, else) = else
         /\ \A i \in 1..n : /\ words[i] # None
                            /\ \A k \in 1..n : k < i => words[k] = None
                            => K!FirstWord(words, else) = words[i]
         /\ \/ \A i \in 1..n : words[i] = None
            \/ \E i \in 1..n : words[i] # None /\ \A k \in 1..n : k < i => words[k] = None
  <1> DEFINE said == {i \in DOMAIN words : words[i] # None}
  <1>1. said \in SUBSET Nat
    OBVIOUS
  <1>2. K!FirstWord(words, else) =
          IF said = {} THEN else ELSE words[CHOOSE i \in said : \A k \in said : i <= k]
    BY DEF K!FirstWord
  <1>3. ASSUME NEW i \in 1..n, words[i] # None, \A k \in 1..n : k < i => words[k] = None
        PROVE  K!FirstWord(words, else) = words[i]
    <2>1. i \in said /\ \A k \in said : i <= k
      BY <1>3
    <2>2. \A x \in said : (\A k \in said : x <= k) => x = i
      BY <1>1, <2>1
    <2>3. (CHOOSE x \in said : \A k \in said : x <= k) = i
      BY <2>1, <2>2
    <2> QED
      BY <1>2, <2>1, <2>3
  <1>4. ASSUME said # {}
        PROVE  \E i \in 1..n : words[i] # None /\ \A k \in 1..n : k < i => words[k] = None
    <2>1. PICK i \in said : \A k \in said : i <= k
      BY <1>1, <1>4, LeastNumber
    <2>2. i \in 1..n /\ words[i] # None
      OBVIOUS
    <2>3. \A k \in 1..n : k < i => words[k] = None
      BY <2>1, <2>2
    <2> QED
      BY <2>2, <2>3
  <1>5. said = {} => \A i \in 1..n : words[i] = None
    OBVIOUS
  <1>6. (\A i \in 1..n : words[i] = None) => said = {}
    OBVIOUS
  <1> QED
    BY <1>2, <1>3, <1>4, <1>5, <1>6

LEMMA SaidExists ==
  ASSUME NEW words, NEW last, NEW n \in Nat
  PROVE  \E f : Said(f, words, last, n)
  <1> DEFINE W(j) == {i \in j..n : words[i] # None}
             g == [j \in 1..(n + 1) |-> IF W(j) = {} THEN last
                                        ELSE words[CHOOSE i \in W(j) : \A k \in W(j) : i <= k]]
  <1>1. ASSUME NEW j \in 1..(n + 1)
        PROVE  g[j] = IF j > n THEN last ELSE IF words[j] = None THEN g[j + 1] ELSE words[j]
    <2>1. g[j] = IF W(j) = {} THEN last ELSE words[CHOOSE i \in W(j) : \A k \in W(j) : i <= k]
      OBVIOUS
    <2>2. CASE j > n
      <3>1. W(j) = {}
        BY <2>2
      <3> QED
        BY <2>1, <2>2, <3>1
    <2>3. CASE j <= n /\ words[j] = None
      <3>1. W(j) = W(j + 1)
        <4>1. \A i : i \in W(j) <=> i \in W(j + 1)
          BY <2>3
        <4> QED
          BY <4>1
      <3>2. j + 1 \in 1..(n + 1)
        BY <2>3
      <3>3. g[j + 1] = IF W(j + 1) = {} THEN last
                       ELSE words[CHOOSE i \in W(j + 1) : \A k \in W(j + 1) : i <= k]
        BY <3>2
      <3> HIDE DEF g, W
      <3> QED
        BY <2>1, <2>3, <3>1, <3>3
    <2>4. CASE j <= n /\ words[j] # None
      <3>1. j \in W(j) /\ \A k \in W(j) : j <= k
        BY <2>4
      <3>2. \A i \in W(j) : (\A k \in W(j) : i <= k) => i = j
        BY <3>1
      <3>3. (CHOOSE i \in W(j) : \A k \in W(j) : i <= k) = j
        BY <3>1, <3>2
      <3>4. ~(j > n) /\ W(j) # {}
        BY <2>4, <3>1
      <3> HIDE DEF g, W
      <3> QED
        BY <2>1, <2>4, <3>3, <3>4
    <2> QED
      BY <2>2, <2>3, <2>4
  <1>2. g = [j \in 1..(n + 1) |-> g[j]]
    OBVIOUS
  <1> HIDE DEF g
  <1>3. g = [j \in 1..(n + 1) |-> IF j > n THEN last ELSE IF words[j] = None THEN g[j + 1] ELSE words[j]]
    BY <1>1, <1>2
  <1> QED
    BY <1>3 DEF Said

LEMMA SaidIsFirst ==
  ASSUME NEW words, NEW last, NEW n \in Nat, DOMAIN words = 1..n, NEW f, Said(f, words, last, n)
  PROVE  f[1] = K!FirstWord(words, last)
  <1>1. \A j \in 1..(n + 1) : f[j] = IF j > n THEN last ELSE IF words[j] = None THEN f[j + 1] ELSE words[j]
    BY DEF Said
  <1>2. CASE \A i \in 1..n : words[i] = None
    <2> DEFINE P == {d \in Nat : d <= n => f[(n + 1) - d] = last}
    <2>1. 0 \in P
      <3>1. n + 1 \in 1..(n + 1) /\ n + 1 > n /\ (n + 1) - 0 = n + 1
        OBVIOUS
      <3>2. f[n + 1] = last
        BY <1>1, <3>1
      <3> QED
        BY <3>1, <3>2
    <2>2. ASSUME NEW d \in P PROVE d + 1 \in P
      <3>1. CASE d + 1 <= n
        <4>1. (n + 1) - (d + 1) \in 1..n /\ ((n + 1) - (d + 1)) + 1 = (n + 1) - d
          BY <3>1
        <4>2. f[(n + 1) - (d + 1)] = f[((n + 1) - (d + 1)) + 1]
          BY <1>1, <1>2, <4>1
        <4>3. f[(n + 1) - d] = last
          BY <3>1
        <4>4. f[(n + 1) - (d + 1)] = last
          BY <4>1, <4>2, <4>3
        <4> QED
          BY <4>4
      <3>2. CASE ~(d + 1 <= n)
        BY <3>2
      <3> QED
        BY <3>1, <3>2
    <2>3. P \in SUBSET Nat
      OBVIOUS
    <2> HIDE DEF P
    <2>4. n \in P
      BY <2>1, <2>2, <2>3, SetOfNaturals
    <2>5. f[(n + 1) - n] = last /\ (n + 1) - n = 1
      BY <2>4 DEF P
    <2> QED
      BY <1>2, <2>5, FirstWordIs
  <1>3. ASSUME NEW i \in 1..n, words[i] # None, \A k \in 1..n : k < i => words[k] = None
        PROVE  f[1] = words[i]
    <2> DEFINE P == {d \in Nat : d < i => f[i - d] = words[i]}
    <2>1. 0 \in P
      <3>1. i \in 1..(n + 1) /\ ~(i > n) /\ i - 0 = i
        OBVIOUS
      <3>2. f[i] = words[i]
        BY <1>1, <1>3, <3>1
      <3> QED
        BY <3>1, <3>2
    <2>2. ASSUME NEW d \in P PROVE d + 1 \in P
      <3>1. CASE d + 1 < i
        <4>1. i - (d + 1) \in 1..n /\ i - (d + 1) < i /\ (i - (d + 1)) + 1 = i - d
          BY <3>1
        <4>2. f[i - (d + 1)] = f[(i - (d + 1)) + 1]
          BY <1>1, <1>3, <4>1
        <4>3. f[i - d] = words[i]
          BY <3>1
        <4>4. f[i - (d + 1)] = words[i]
          BY <4>1, <4>2, <4>3
        <4> QED
          BY <4>4
      <3>2. CASE ~(d + 1 < i)
        BY <3>2
      <3> QED
        BY <3>1, <3>2
    <2>3. P \in SUBSET Nat
      OBVIOUS
    <2> HIDE DEF P
    <2>4. \A d \in Nat : d \in P
      BY <2>1, <2>2, <2>3, SetOfNaturals
    <2>5. i - 1 \in Nat /\ i - 1 < i /\ i - (i - 1) = 1
      OBVIOUS
    <2>6. f[i - (i - 1)] = words[i]
      BY <2>4, <2>5 DEF P
    <2> QED
      BY <2>5, <2>6
  <1>4. CASE ~ \A i \in 1..n : words[i] = None
    <2>1. PICK i \in 1..n : words[i] # None /\ \A k \in 1..n : k < i => words[k] = None
      BY <1>4, FirstWordIs
    <2>2. f[1] = words[i]
      BY <1>3, <2>1
    <2>3. K!FirstWord(words, last) = words[i]
      BY <2>1, FirstWordIs
    <2> QED
      BY <2>2, <2>3
  <1> QED
    BY <1>2, <1>4

\* What kubectl says of the main containers.
LEMMA KubectlMainsIs ==
  ASSUME NEW p, Len(p.mains) \in Nat, DOMAIN p.mains = 1..Len(p.mains), NEW first,
         first = K!FirstWord([j \in DOMAIN p.mains |-> K!MainWord(p.mains[j])], K!Word(p, K!Phase(p)))
  PROVE  K!KubectlMains(p) = IF first = "Completed" /\ K!ReadyAndRunning(p) THEN "Running" ELSE first
  <1>1. PICK n \in Nat : n = Len(p.mains)
    OBVIOUS
  <1>2. PICK words : words = [j \in 1..n |-> K!MainWord(p.mains[j])]
    OBVIOUS
  <1>3. PICK last : last = K!Word(p, K!Phase(p))
    OBVIOUS
  <1> DEFINE said == CHOOSE f : f = [j \in 1..(Len(p.mains) + 1) |->
                       IF j > Len(p.mains) THEN K!Word(p, K!Phase(p))
                       ELSE IF K!MainWord(p.mains[j]) = None THEN f[j + 1] ELSE K!MainWord(p.mains[j])]
  <1>4. K!KubectlMains(p) = IF said[1] = "Completed" /\ K!ReadyAndRunning(p) THEN "Running" ELSE said[1]
    BY DEF K!KubectlMains
  <1>5. ASSUME NEW f, Said(f, words, last, n)
        PROVE  f = [j \in 1..(Len(p.mains) + 1) |->
                     IF j > Len(p.mains) THEN K!Word(p, K!Phase(p))
                     ELSE IF K!MainWord(p.mains[j]) = None THEN f[j + 1] ELSE K!MainWord(p.mains[j])]
    <2>1. \A j \in 1..(n + 1) : ~(j > n) => words[j] = K!MainWord(p.mains[j])
      BY <1>2
    <2> QED
      BY <1>1, <1>3, <1>5, <2>1 DEF Said
  <1>6. said = [j \in 1..(Len(p.mains) + 1) |->
                 IF j > Len(p.mains) THEN K!Word(p, K!Phase(p))
                 ELSE IF K!MainWord(p.mains[j]) = None THEN said[j + 1] ELSE K!MainWord(p.mains[j])]
    <2>1. \E f : f = [j \in 1..(Len(p.mains) + 1) |->
                       IF j > Len(p.mains) THEN K!Word(p, K!Phase(p))
                       ELSE IF K!MainWord(p.mains[j]) = None THEN f[j + 1] ELSE K!MainWord(p.mains[j])]
      BY <1>5, SaidExists
    <2> QED
      BY <2>1, Zenon
  <1> HIDE DEF said
  <1>7. Said(said, words, last, n)
    <2>1. \A j \in 1..(n + 1) : ~(j > n) => words[j] = K!MainWord(p.mains[j])
      BY <1>2
    <2> QED
      BY <1>1, <1>3, <1>6, <2>1 DEF Said
  <1>8. said[1] = K!FirstWord(words, last)
    BY <1>2, <1>7, SaidIsFirst
  <1>9. K!FirstWord(words, last) = first
    BY <1>1, <1>2, <1>3
  <1> QED
    BY <1>4, <1>8, <1>9

WaitingReasons == {"ContainerCreating", "PodInitializing", "ErrImagePull", "CrashLoopBackOff", None}
ContainerStates == {K!Waiting(r) : r \in WaitingReasons} \cup {K!Running} \cup K!Ended

PodShape ==
  /\ pod \in [deleted : BOOLEAN, reason : {None, "NodeLost", "Evicted"},
              inits : Seq(ContainerStates), mains : Seq(ContainerStates), size : Nat \X (Nat \ {0})]
  /\ \/ pod.inits = <<>> /\ pod.mains = <<>>
     \/ Len(pod.inits) = pod.size[1] /\ Len(pod.mains) = pod.size[2]

\* The first init container that is not done keeps all after it where they were admitted.
OneAfterTheOther ==
  \A i \in DOMAIN pod.inits : pod.inits[i].state # "done" =>
    /\ \A k \in DOMAIN pod.inits : i < k => pod.inits[k] = K!Waiting("PodInitializing")
    /\ \A j \in DOMAIN pod.mains : pod.mains[j] = K!Waiting("PodInitializing")

PodInv == PodShape /\ OneAfterTheOther

LEMMA NoneIsNoReason ==
  /\ MaxInits \in Nat /\ MaxMains \in Nat \ {0} /\ None \notin K!Reasons
  BY PodConstants DEF K!PodAssumption

LEMMA StateKinds ==
  ASSUME NEW s \in ContainerStates
  PROVE  /\ s.state \in {"waiting", "running", "done", "failed"}
         /\ s.state = "waiting" => s.reason \in WaitingReasons
         /\ s.state = "running" => s.reason = None
         /\ s.state = "done" => s.reason \in {"Completed", None}
         /\ s.state = "failed" => s.reason \in {"Error", None}
  BY DEF ContainerStates, K!Waiting, K!Running, K!Ended

LEMMA TurnsType ==
  ASSUME NEW s \in ContainerStates
  PROVE  K!Turns(s) \subseteq ContainerStates
  <1>1. K!Waiting("ErrImagePull") \in ContainerStates /\ K!Waiting("CrashLoopBackOff") \in ContainerStates
        /\ K!Waiting(None) \in ContainerStates /\ K!Running \in ContainerStates
        /\ K!Ended \subseteq ContainerStates
    BY DEF ContainerStates, WaitingReasons
  <1> QED
    BY <1>1, StateKinds DEF K!Turns

LEMMA DoneBefore ==
  ASSUME NEW s \in Seq(ContainerStates), NEW i \in 1..Len(s)
  PROVE  K!AllDone(SubSeq(s, 1, i - 1)) <=> \A k \in 1..(i - 1) : s[k].state = "done"
  <1>1. DOMAIN SubSeq(s, 1, i - 1) = 1..(i - 1) /\ \A k \in 1..(i - 1) : SubSeq(s, 1, i - 1)[k] = s[k]
    OBVIOUS
  <1> QED
    BY <1>1 DEF K!AllDone

LEMMA PodStart == K!PodInit => PodInv
  <1> SUFFICES ASSUME K!PodInit PROVE PodInv
    OBVIOUS
  <1>1. PICK n \in 0 .. MaxInits, m \in 1 .. MaxMains :
          pod = [deleted |-> FALSE, reason |-> None, inits |-> <<>>, mains |-> <<>>, size |-> <<n, m>>]
    BY DEF K!PodInit
  <1>2. n \in Nat /\ m \in Nat \ {0}
    BY NoneIsNoReason
  <1>3. PodShape
    BY <1>1, <1>2, EmptySeq DEF PodShape
  <1> QED
    BY <1>1, <1>3 DEF PodInv, OneAfterTheOther

LEMMA PodStep == PodInv /\ [K!PodNext]_pod => PodInv'
  <1> SUFFICES ASSUME PodInv, [K!PodNext]_pod PROVE PodInv'
    OBVIOUS
  <1> USE DEF PodInv
  <1>1. PICK is \in Seq(ContainerStates), ms \in Seq(ContainerStates) : is = pod.inits /\ ms = pod.mains
    BY DEF PodShape
  <1>2. /\ Len(is) \in Nat /\ DOMAIN is = 1..Len(is) /\ Len(ms) \in Nat /\ DOMAIN ms = 1..Len(ms)
        /\ \A i \in DOMAIN is : is[i] \in ContainerStates
        /\ \A j \in DOMAIN ms : ms[j] \in ContainerStates
    BY <1>1
  <1>3. CASE K!Admit
    <2>1. PICK n \in Nat, m \in Nat \ {0} : n = pod.size[1] /\ m = pod.size[2]
      BY DEF PodShape
    <2>2. PICK new : new = [i \in 1..n |-> K!Waiting("PodInitializing")]
      OBVIOUS
    <2>3. PICK wait \in ContainerStates :
            wait = K!Waiting(IF n = 0 THEN "ContainerCreating" ELSE "PodInitializing")
      BY DEF ContainerStates, WaitingReasons
    <2>4. PICK mains : mains = [j \in 1..m |-> wait]
      OBVIOUS
    <2>5. /\ new \in Seq(ContainerStates) /\ Len(new) = n /\ DOMAIN new = 1..n
          /\ \A i \in 1..n : new[i] = K!Waiting("PodInitializing")
      <3>1. K!Waiting("PodInitializing") \in ContainerStates
        BY DEF ContainerStates, WaitingReasons
      <3> QED
        BY <2>2, <3>1
    <2>6. mains \in Seq(ContainerStates) /\ Len(mains) = m /\ DOMAIN mains = 1..m /\ \A j \in 1..m : mains[j] = wait
      BY <2>4
    <2>7. pod' = [pod EXCEPT !.inits = new, !.mains = mains]
      BY <1>3, <2>1, <2>2, <2>3, <2>4 DEF K!Admit
    <2>8. pod'.inits = new /\ pod'.mains = mains /\ pod'.size = pod.size
      BY <2>7 DEF PodShape
    <2>9. PodShape'
      BY <2>1, <2>5, <2>6, <2>7, <2>8 DEF PodShape
    <2>10. OneAfterTheOther'
      BY <2>3, <2>5, <2>6, <2>8 DEF OneAfterTheOther
    <2> QED
      BY <2>9, <2>10
  <1>4. CASE K!Delete \/ K!NodeLost \/ K!Evict
    <2>1. PodShape' /\ pod'.inits = pod.inits /\ pod'.mains = pod.mains
      BY <1>4 DEF K!Delete, K!NodeLost, K!Evict, PodShape
    <2> QED
      BY <2>1 DEF OneAfterTheOther
  <1>5. ASSUME NEW i \in DOMAIN pod.inits, K!InitTurns(i) PROVE PodInv'
    <2>1. PICK s \in K!Turns(is[i]) : pod' = [pod EXCEPT !.inits[i] = s]
      BY <1>1, <1>5 DEF K!InitTurns
    <2>2. s \in ContainerStates /\ i \in 1..Len(is)
      BY <1>1, <1>2, <2>1, TurnsType
    <2>3. PICK new : new = [is EXCEPT ![i] = s]
      OBVIOUS
    <2>4. /\ new \in Seq(ContainerStates) /\ Len(new) = Len(is) /\ DOMAIN new = DOMAIN is
          /\ new[i] = s /\ \A k \in DOMAIN is : k # i => new[k] = is[k]
      BY <1>2, <2>2, <2>3
    <2>5. pod' = [pod EXCEPT !.inits = new]
      BY <1>1, <2>1, <2>3 DEF PodShape
    <2>6. pod'.inits = new /\ pod'.mains = ms /\ pod'.size = pod.size
      BY <1>1, <2>5 DEF PodShape
    <2>7. PodShape'
      <3>1. is # <<>>
        BY <1>2, <2>2
      <3> QED
        BY <1>1, <2>4, <2>5, <2>6, <3>1 DEF PodShape
    <2>8. /\ is[i].state # "done" /\ \A k \in 1..(i - 1) : is[k].state = "done"
      BY <1>1, <1>5, <2>2, DoneBefore DEF K!InitTurns
    <2>9. /\ \A k \in DOMAIN is : i < k => is[k] = K!Waiting("PodInitializing")
          /\ \A j \in DOMAIN ms : ms[j] = K!Waiting("PodInitializing")
      BY <1>1, <1>5, <2>8 DEF OneAfterTheOther
    <2>10. ASSUME NEW x \in DOMAIN new, new[x].state # "done"
           PROVE  /\ \A k \in DOMAIN new : x < k => new[k] = K!Waiting("PodInitializing")
                  /\ \A j \in DOMAIN ms : ms[j] = K!Waiting("PodInitializing")
      <3>1. ~(x < i)
        BY <1>2, <2>2, <2>4, <2>8, <2>10
      <3>2. ASSUME NEW k \in DOMAIN new, x < k PROVE new[k] = K!Waiting("PodInitializing")
        <4>1. i < k /\ k # i /\ k \in DOMAIN is
          BY <1>2, <2>2, <2>4, <3>1, <3>2
        <4> QED
          BY <2>4, <2>9, <4>1
      <3> QED
        BY <2>9, <3>2
    <2>11. OneAfterTheOther'
      BY <2>6, <2>10 DEF OneAfterTheOther
    <2> QED
      BY <2>7, <2>11
  <1>6. ASSUME NEW j \in DOMAIN pod.mains, K!MainTurns(j) PROVE PodInv'
    <2>1. PICK s \in K!Turns(ms[j]) : pod' = [pod EXCEPT !.mains[j] = s]
      BY <1>1, <1>6 DEF K!MainTurns
    <2>2. s \in ContainerStates /\ j \in 1..Len(ms)
      BY <1>1, <1>2, <2>1, TurnsType
    <2>3. PICK new : new = [ms EXCEPT ![j] = s]
      OBVIOUS
    <2>4. new \in Seq(ContainerStates) /\ Len(new) = Len(ms)
      BY <1>2, <2>2, <2>3
    <2>5. pod' = [pod EXCEPT !.mains = new]
      BY <1>1, <2>1, <2>3 DEF PodShape
    <2>6. pod'.inits = is /\ pod'.mains = new /\ pod'.size = pod.size
      BY <1>1, <2>5 DEF PodShape
    <2>7. PodShape'
      <3>1. ms # <<>>
        BY <1>2, <2>2
      <3> QED
        BY <1>1, <2>4, <2>5, <2>6, <3>1 DEF PodShape
    <2>8. \A i \in DOMAIN is : is[i].state = "done"
      BY <1>1, <1>6 DEF K!MainTurns, K!AllDone
    <2>9. OneAfterTheOther'
      BY <2>6, <2>8 DEF OneAfterTheOther
    <2> QED
      BY <2>7, <2>9
  <1>7. CASE UNCHANGED pod
    BY <1>7 DEF PodShape, OneAfterTheOther
  <1> QED
    BY <1>3, <1>4, <1>5, <1>6, <1>7 DEF K!PodNext

\* The words of containers are reasons, and tell how a container is.
LEMMA WordKinds ==
  ASSUME NEW s \in ContainerStates
  PROVE  /\ K!MainWord(s) \in K!Reasons \cup {None}
         /\ K!MainWord(s) = None => \/ s.state = "running"
                                    \/ s.state = "waiting" /\ s.reason = None
         /\ K!MainWord(s) = "Completed" => s.state = "done"
  BY StateKinds, NoneIsNoReason DEF K!MainWord, K!Word, K!Reasons, WaitingReasons

LEMMA InitWordKinds ==
  ASSUME NEW is \in Seq(ContainerStates), NEW i \in DOMAIN is
  PROVE  /\ K!InitWord(is, i) \in K!Reasons \cup {None}
         /\ is[i].state = "done" => K!InitWord(is, i) = None
         /\ is[i] = K!Waiting("PodInitializing") => K!InitWord(is, i) = "PodInitializing"
         /\ is[i].state # "done" /\ K!InitWord(is, i) # None => K!InitWord(is, i) = K!KubectlInit(is[i])
         /\ is[i].state # "done" /\ K!InitWord(is, i) = None =>
              /\ K!KubectlInit(is[i]) = "PodInitializing"
  <1>1. is[i] \in ContainerStates
    OBVIOUS
  <1> QED
    BY <1>1, StateKinds, NoneIsNoReason
       DEF K!InitWord, K!KubectlInit, K!Word, K!Waiting, K!Reasons, WaitingReasons

\* A pod as both see it: its containers, and their words in order.
InitWords == [i \in DOMAIN pod.inits |-> K!InitWord(pod.inits, i)]
MainWords == [j \in DOMAIN pod.mains |-> K!MainWord(pod.mains[j])]

LEMMA PodFacts ==
  ASSUME PodInv
  PROVE  /\ pod.inits \in Seq(ContainerStates) /\ pod.mains \in Seq(ContainerStates)
         /\ Len(pod.inits) \in Nat /\ DOMAIN pod.inits = 1..Len(pod.inits)
         /\ Len(pod.mains) \in Nat /\ DOMAIN pod.mains = 1..Len(pod.mains)
         /\ \A i \in DOMAIN pod.inits : pod.inits[i] \in ContainerStates
         /\ \A j \in DOMAIN pod.mains : pod.mains[j] \in ContainerStates
         /\ DOMAIN InitWords = 1..Len(pod.inits) /\ DOMAIN MainWords = 1..Len(pod.mains)
  BY DEF PodInv, PodShape, InitWords, MainWords

\* While an init container is not done, both tell of it.
LEMMA InitsAgree ==
  ASSUME PodInv, ~ K!AllDone(pod.inits), ~ pod.deleted
  PROVE  K!calculatePodStatus(pod) = K!Kubectl(pod) /\ K!calculatePodStatus(pod) # "Running"
  <1>1. PICK is \in Seq(ContainerStates), n \in Nat : is = pod.inits /\ n = Len(is) /\ DOMAIN is = 1..n
    BY PodFacts
  <1>2. \A i \in 1..n : is[i] \in ContainerStates
    BY <1>1
  <1>3. PICK i \in 1..n : is[i].state # "done" /\ \A k \in 1..n : k < i => is[k].state = "done"
    <2> DEFINE open == {k \in 1..n : is[k].state # "done"}
    <2>1. open \in SUBSET Nat /\ open # {}
      BY <1>1 DEF K!AllDone
    <2>2. PICK i \in open : \A k \in open : i <= k
      BY <2>1, LeastNumber
    <2>3. \A k \in 1..n : k < i => is[k].state = "done"
      BY <2>2
    <2> QED
      BY <2>2, <2>3
  <1>4. K!Kubectl(pod) = K!KubectlInit(is[i])
    <2> DEFINE first(x) == is[x].state # "done" /\ K!AllDone(SubSeq(is, 1, x - 1))
    <2>1. \A x \in 1..n : K!AllDone(SubSeq(is, 1, x - 1)) <=> \A k \in 1..(x - 1) : is[k].state = "done"
      BY <1>1, DoneBefore
    <2>2. first(i)
      BY <1>3, <2>1
    <2>3. ASSUME NEW x \in 1..n, first(x) PROVE x = i
      <3>1. ~(x < i)
        BY <1>3, <2>3
      <3>2. ~(i < x)
        BY <1>3, <2>1, <2>3
      <3> QED
        BY <3>1, <3>2
    <2> HIDE DEF first
    <2>4. (CHOOSE x \in 1..n : first(x)) = i
      BY <2>2, <2>3
    <2>5. (CHOOSE x \in DOMAIN pod.inits :
             pod.inits[x].state # "done" /\ K!AllDone(SubSeq(pod.inits, 1, x - 1))) = i
      BY <1>1, <2>4 DEF first
    <2> QED
      BY <1>1, <2>5 DEF K!Kubectl
  <1>5. /\ \A k \in 1..n : i < k => is[k] = K!Waiting("PodInitializing")
        /\ \A j \in DOMAIN pod.mains : pod.mains[j] = K!Waiting("PodInitializing")
    BY <1>1, <1>3 DEF PodInv, OneAfterTheOther
  <1>6. PICK words : words = InitWords /\ DOMAIN words = 1..n /\ \A k \in 1..n : words[k] = K!InitWord(is, k)
    <2>1. DOMAIN InitWords = 1..n /\ \A k \in 1..n : InitWords[k] = K!InitWord(is, k)
      BY <1>1 DEF InitWords
    <2> QED
      BY <2>1, Zenon
  <1>7. PICK rest : rest = IF pod.inits # <<>> /\ K!AllDone(pod.inits) /\ pod.mains = <<>> THEN "PodInitializing"
                           ELSE K!FirstWord(MainWords, K!Phase(pod))
    OBVIOUS
  <1>8. K!calculatePodStatus(pod) = K!FirstWord(words, rest)
    BY <1>6, <1>7 DEF K!calculatePodStatus, InitWords, MainWords
  <1>9. rest = "PodInitializing"
    <2>1. rest = K!FirstWord(MainWords, K!Phase(pod))
      BY <1>7
    <2>2. Len(pod.mains) \in Nat /\ 1 \in 1..Len(pod.mains) /\ 1 \in DOMAIN pod.mains
      <3>1. Len(pod.mains) = pod.size[2] /\ pod.size[2] \in Nat \ {0}
        BY <1>1, <1>3 DEF PodInv, PodShape
      <3> QED
        BY <3>1, PodFacts
    <2>3. MainWords[1] = "PodInitializing"
      BY <1>5, <2>2 DEF MainWords, K!MainWord, K!Waiting
    <2>4. MainWords[1] # None /\ \A k \in 1..Len(pod.mains) : ~(k < 1)
      BY <2>2, <2>3, NoneIsNoReason DEF K!Reasons
    <2>5. DOMAIN MainWords = 1..Len(pod.mains)
      BY PodFacts
    <2>6. K!FirstWord(MainWords, K!Phase(pod)) = MainWords[1]
      BY <2>2, <2>4, <2>5, FirstWordIs
    <2> QED
      BY <2>1, <2>3, <2>6
  <1>10. \A k \in 1..n : k < i => words[k] = None
    BY <1>1, <1>3, <1>6, InitWordKinds
  <1>11. CASE words[i] # None
    <2>1. K!FirstWord(words, rest) = words[i]
      BY <1>6, <1>10, <1>11, FirstWordIs
    <2>2. words[i] = K!KubectlInit(is[i]) /\ words[i] \in K!Reasons
      BY <1>1, <1>3, <1>6, <1>11, InitWordKinds
    <2> QED
      BY <1>4, <1>8, <2>1, <2>2 DEF K!Reasons
  <1>12. CASE words[i] = None
    <2>1. K!KubectlInit(is[i]) = "PodInitializing"
      BY <1>1, <1>3, <1>6, <1>12, InitWordKinds
    <2>2. K!FirstWord(words, rest) = "PodInitializing"
      <3>1. CASE i < n
        <4>1. i + 1 \in 1..n /\ \A k \in 1..n : k < i + 1 => k < i \/ k = i
          BY <3>1
        <4>2. words[i + 1] = "PodInitializing"
          BY <1>1, <1>5, <1>6, <4>1, InitWordKinds
        <4>3. words[i + 1] # None /\ \A k \in 1..n : k < i + 1 => words[k] = None
          BY <1>10, <1>12, <4>1, <4>2, NoneIsNoReason DEF K!Reasons
        <4> QED
          BY <1>6, <4>1, <4>2, <4>3, FirstWordIs
      <3>2. CASE ~(i < n)
        <4>1. \A k \in 1..n : words[k] = None
          BY <1>10, <1>12, <3>2
        <4> QED
          BY <1>6, <1>9, <4>1, FirstWordIs
      <3> QED
        BY <3>1, <3>2
    <2> QED
      BY <1>4, <1>8, <2>1, <2>2
  <1> QED
    BY <1>11, <1>12

\* When the init containers are done, both tell of the main ones.
LEMMA MainsDecide ==
  ASSUME PodInv, K!AllDone(pod.inits), ~ pod.deleted
  PROVE  K!calculatePodStatus(pod) = K!FirstWord(MainWords, K!Phase(pod))
  <1>1. PICK rest : rest = IF pod.inits # <<>> /\ K!AllDone(pod.inits) /\ pod.mains = <<>> THEN "PodInitializing"
                           ELSE K!FirstWord(MainWords, K!Phase(pod))
    OBVIOUS
  <1>2. K!calculatePodStatus(pod) = K!FirstWord(InitWords, rest)
    BY <1>1 DEF K!calculatePodStatus, InitWords, MainWords
  <1>3. \A i \in 1..Len(pod.inits) : InitWords[i] = None
    BY PodFacts, InitWordKinds DEF InitWords, K!AllDone
  <1>4. K!FirstWord(InitWords, rest) = rest
    BY <1>3, PodFacts, FirstWordIs
  <1>5. ~(pod.inits # <<>> /\ pod.mains = <<>>)
    BY DEF PodInv, PodShape
  <1> QED
    BY <1>1, <1>2, <1>4, <1>5

LEMMA MainsAgree ==
  ASSUME PodInv, K!AllDone(pod.inits), ~ pod.deleted, pod.reason = None, ~ K!CompletedBesideRunning(pod)
  PROVE  K!calculatePodStatus(pod) = K!Kubectl(pod)
  <1>1. PICK first : first = K!FirstWord(MainWords, K!Phase(pod))
    OBVIOUS
  <1>2. K!calculatePodStatus(pod) = first
    BY <1>1, MainsDecide
  <1>3. K!Word(pod, K!Phase(pod)) = K!Phase(pod)
    BY DEF K!Word
  <1>4. K!KubectlMains(pod) = IF first = "Completed" /\ K!ReadyAndRunning(pod) THEN "Running" ELSE first
    BY <1>1, <1>3, PodFacts, KubectlMainsIs DEF MainWords
  <1>5. ~(first = "Completed" /\ K!ReadyAndRunning(pod))
    <2> SUFFICES ASSUME first = "Completed", K!ReadyAndRunning(pod) PROVE FALSE
      OBVIOUS
    <2>1. \E j \in DOMAIN pod.mains : MainWords[j] = "Completed"
      <3>1. K!Phase(pod) # "Completed"
        BY DEF K!Phase
      <3>2. ~ \A i \in 1..Len(pod.mains) : MainWords[i] = None
        BY <1>1, <3>1, PodFacts, FirstWordIs
      <3>3. PICK i \in 1..Len(pod.mains) : /\ MainWords[i] # None
                                           /\ \A k \in 1..Len(pod.mains) : k < i => MainWords[k] = None
        BY <3>2, PodFacts, FirstWordIs
      <3>4. first = MainWords[i]
        BY <1>1, <3>3, PodFacts, FirstWordIs
      <3> QED
        BY <3>3, <3>4, PodFacts
    <2>2. PICK j \in DOMAIN pod.mains : MainWords[j] = "Completed"
      BY <2>1
    <2>3. pod.mains[j].state = "done"
      BY <2>2, PodFacts, WordKinds DEF MainWords
    <2> QED
      BY <2>3 DEF K!CompletedBesideRunning
  <1>6. K!Kubectl(pod) = K!KubectlMains(pod)
    BY DEF K!Kubectl
  <1> QED
    BY <1>2, <1>4, <1>5, <1>6

LEMMA RunningIsRunning ==
  ASSUME PodInv, K!calculatePodStatus(pod) = "Running"
  PROVE  /\ K!AllDone(pod.inits) /\ Len(pod.mains) = pod.size[2]
         /\ \A j \in DOMAIN pod.mains : pod.mains[j].state = "running"
  <1>1. ~ pod.deleted
    BY DEF K!calculatePodStatus
  <1>2. K!AllDone(pod.inits)
    BY <1>1, InitsAgree
  <1>3. K!FirstWord(MainWords, K!Phase(pod)) = "Running"
    BY <1>1, <1>2, MainsDecide
  <1>4. \A j \in 1..Len(pod.mains) : MainWords[j] = None
    <2> SUFFICES ASSUME ~ \A j \in 1..Len(pod.mains) : MainWords[j] = None PROVE FALSE
      OBVIOUS
    <2>1. PICK i \in 1..Len(pod.mains) : /\ MainWords[i] # None
                                         /\ \A k \in 1..Len(pod.mains) : k < i => MainWords[k] = None
      BY PodFacts, FirstWordIs
    <2>2. MainWords[i] = "Running"
      BY <1>3, <2>1, PodFacts, FirstWordIs
    <2>3. MainWords[i] \in K!Reasons
      <3>1. i \in DOMAIN pod.mains /\ pod.mains[i] \in ContainerStates /\ MainWords[i] = K!MainWord(pod.mains[i])
        BY PodFacts DEF MainWords
      <3> QED
        BY <2>1, <3>1, WordKinds
    <2> QED
      BY <2>2, <2>3 DEF K!Reasons
  <1>5. K!Phase(pod) = "Running"
    BY <1>3, <1>4, PodFacts, FirstWordIs
  <1>6. /\ pod.mains # <<>>
        /\ \A j \in DOMAIN pod.mains :
             ~(pod.mains[j].state = "waiting" /\ pod.mains[j].reason # "CrashLoopBackOff")
    BY <1>5 DEF K!Phase
  <1>7. ASSUME NEW j \in DOMAIN pod.mains PROVE pod.mains[j].state = "running"
    <2>1. K!MainWord(pod.mains[j]) = None /\ pod.mains[j] \in ContainerStates
      BY <1>4, PodFacts DEF MainWords
    <2>2. None # "CrashLoopBackOff"
      BY NoneIsNoReason DEF K!Reasons
    <2> QED
      BY <1>6, <2>1, <2>2, WordKinds
  <1> QED
    BY <1>2, <1>6, <1>7 DEF PodInv, PodShape

LEMMA PodIsKubectls == PodInv => K!PodStatusIsKubectls
  <1> SUFFICES ASSUME PodInv PROVE K!PodStatusIsKubectls
    OBVIOUS
  <1>1. K!PodRead(pod).status = K!calculatePodStatus(pod) /\ K!PodRead(pod).total = Len(pod.mains)
    BY DEF K!PodRead
  <1>2. CASE pod.deleted /\ pod.reason = None
    <2>1. None # "NodeLost"
      BY NoneIsNoReason DEF K!Reasons
    <2> QED
      BY <1>1, <1>2, <2>1, RunningIsRunning DEF K!calculatePodStatus, K!Kubectl, K!PodStatusIsKubectls
  <1>3. CASE ~ pod.deleted /\ pod.reason = None
    BY <1>1, <1>3, InitsAgree, MainsAgree, RunningIsRunning DEF K!PodStatusIsKubectls
  <1>4. CASE pod.reason # None
    BY <1>1, <1>4, RunningIsRunning DEF K!ReasonOfPod, K!PodStatusIsKubectls
  <1> QED
    BY <1>2, <1>3, <1>4

(* The pod's word is kubectl's, apart from the two exceptions, for any     *)
(* number of init and main containers in any states they can come to; and  *)
(* "Running" is said only when all of them run.                            *)
THEOREM PodStatusHolds == K!PodSpec => []K!PodStatusIsKubectls
  BY PodStart, PodStep, PodIsKubectls, PTL DEF K!PodSpec

-----------------------------------------------------------------------------
(* Together, as the run has them.                                          *)

AnswersInv ==
  /\ side = "status" => StatusInv
  /\ side = "pod" => PodInv
  /\ side = "pages" => PagesInv

(* AnswersAreRight, for any containers, times, limits and windows.         *)
THEOREM AnswersHold == MCSpec => AnswersAreRight
  <1> DEFINE Right == /\ side = "status" => V!NoStaleDeployment
                      /\ side = "pod" => K!PodStatusIsKubectls
                      /\ side = "pages" => OlderPagesAreWhole
  <1>1. MCInit => AnswersInv
    BY StatusStart, PodStart, PagesStart DEF MCInit, AnswersInv
  <1>2. AnswersInv /\ [MCNext]_allvars => AnswersInv'
    <2> SUFFICES ASSUME AnswersInv, [MCNext]_allvars PROVE AnswersInv'
      OBVIOUS
    <2>1. side' = side
      BY DEF MCNext, allvars
    <2>2. side = "status" => [V!StatusNext]_statusvars
      BY DEF MCNext, allvars
    <2>3. side = "pod" => [K!PodNext]_pod
      BY DEF MCNext, allvars
    <2>4. side = "pages" => [PagesNext]_lpvars
      BY DEF MCNext, allvars
    <2> QED
      BY <2>1, <2>2, <2>3, <2>4, StatusStep, PodStep, PagesStep DEF AnswersInv
  <1>3. AnswersInv => Right
    BY OlderAreWhole, PodIsKubectls DEF AnswersInv, StatusInv
  <1>4. AnswersInv /\ [MCNext]_allvars => [ReadNewer /\ reader'.ended => NothingMissing]_lpvars
    <2> SUFFICES ASSUME AnswersInv, [MCNext]_allvars, ReadNewer, reader'.ended, lpvars' # lpvars PROVE NothingMissing
      OBVIOUS
    <2>1. side = "pages"
      BY DEF MCNext, allvars, PagesIdle
    <2> QED
      BY <2>1, NewerAreWhole DEF AnswersInv
  <1>5. MCSpec => []Right /\ [][ReadNewer /\ reader'.ended => NothingMissing]_lpvars
    BY <1>1, <1>2, <1>3, <1>4, PTL DEF MCSpec
  <1> QED
    BY <1>5 DEF AnswersAreRight, NewerPagesAreWhole, NothingMissing
=============================================================================
