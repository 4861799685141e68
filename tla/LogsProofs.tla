----------------------------- MODULE LogsProofs -----------------------------
(***************************************************************************)
(* A log stream: what the browser has received.  The parts of Loki's       *)
(* messages pass two goroutines, a channel, a pipe, two more goroutines    *)
(* and another channel; none is lost, repeated or overtaken on the way,    *)
(* for any number of messages of any size and any events.                  *)
(***************************************************************************)
EXTENDS LogStream, Sums, SequenceTheorems

-----------------------------------------------------------------------------
(* The inductive invariant.                                                *)

\* The handler forwards what it receives; the outer goroutine has left its loop.
Forwarding == {"select", "writing"}
Leaving == {"closeTail", "closePipe", "done"}
Messages == 1..MaxMessages
\* The contents of a channel with one place.
Place(S) == {<<>>} \cup {<<x>> : x \in S}

Passed == AllParts \cup Failures
LokiStates == [sent : 0..MaxMessages, end : {"open", Eof, Broken}]
HandlerStates ==
  [pc : {"idle", "starting", "dialling", "refusing", "reporting", "closePipe", "cancel", "done"} \cup Forwarding,
   item : Passed \cup {Nothing}]
ReaderStates == [pc : {"none", "reading", "sending", "done"}, data : Passed \cup {Nothing}]
OuterStates == [pc : {"none", "select", "writing"} \cup Leaving, msg : Messages \cup {Nothing}]
InnerStates == [pc : {"none", "reading", "sending", "done"}, msg : Messages \cup Failures \cup {Nothing}]
Channels == [loki : Place(Passed), msg : Place(Messages \cup Failures), ws : Place({"gone"})]
Pipes == [offer : Seq(AllParts), end : {"open"} \cup Failures, closed : BOOLEAN]

\* Every variable has a value of its kind, and who sends or writes has something to send.
LogShape ==
  /\ kind \in {"application", "build"}
  /\ client \in {"away", "open", "stalled", "left"}
  /\ conn \in {"none", "open", "closed"} /\ socket \in {"none", "open", "expired", "closed"}
  /\ ctx \subseteq {"stream", "tail"}
  /\ loki \in LokiStates /\ handler \in HandlerStates /\ reader \in ReaderStates
  /\ outer \in OuterStates /\ inner \in InnerStates /\ chan \in Channels /\ pipe \in Pipes
  /\ reader.pc = "sending" => reader.data \in Passed
  /\ inner.pc = "sending" => inner.msg \in Messages \cup Failures
  /\ handler.pc = "writing" => handler.item \in AllParts

\* Before Loki is connected nothing runs, and the handler takes down what it has started.
PlaceInv ==
  /\ conn = "none" =>
       /\ handler.pc \notin {"select", "writing", "reporting", "closePipe"}
       /\ reader.pc = "none" /\ outer = [pc |-> "none", msg |-> Nothing] /\ inner.pc = "none"
       /\ watcher = "none" /\ monitor = "none" /\ loki.sent = 0 /\ frames = <<>>
       /\ chan = [loki |-> <<>>, msg |-> <<>>, ws |-> <<>>]
       /\ pipe = [offer |-> <<>>, end |-> "open", closed |-> FALSE]
  /\ conn # "none" =>
       /\ handler.pc \in {"select", "writing", "reporting", "closePipe", "cancel", "done"}
       /\ reader.pc # "none" /\ outer.pc # "none" /\ inner.pc # "none"
  /\ socket \in {"expired", "closed"} => handler.pc \in {"cancel", "done"}
  /\ client = "away" => handler.pc = "idle"
  /\ handler.pc # "idle" => socket # "none"
  /\ "stream" \in ctx => handler.pc = "done"
  /\ pipe.closed => handler.pc \in {"cancel", "done"}

\* How many messages the outer goroutine has taken, and how many are on their way to it.
Taken == IF outer.msg \in Nat THEN outer.msg ELSE 0
Failed == chan.msg # <<>> /\ Head(chan.msg) \in Failures
Queued == IF chan.msg # <<>> /\ ~ Failed THEN 1 ELSE 0
Carried == IF inner.pc = "sending" /\ inner.msg \notin Failures THEN 1 ELSE 0

\* Messages reach the outer goroutine in Loki's order; the end of the tail comes last.
OrderInv ==
  /\ Taken <= loki.sent
  /\ outer.pc \in {"select", "writing"} =>
       /\ Queued = 1 => Head(chan.msg) = Taken + 1
       /\ Carried = 1 => inner.msg = loki.sent
       /\ Taken + Queued + Carried <= loki.sent
       /\ inner.pc # "done" => ~ Failed /\ Taken + Queued + Carried = loki.sent
       /\ Failed => Taken = loki.sent
       /\ inner.pc = "done" /\ ctx = {} => Failed
  /\ outer.pc \in Leaving /\ ctx = {} /\ ~ pipe.closed => inner.pc = "done" /\ Taken = loki.sent

\* The end of the pipe comes after all it was offered.
EndInv ==
  /\ pipe.end # "open" => outer.pc \in Leaving
  /\ outer.pc # "writing" => pipe.offer = <<>>
  /\ chan.loki # <<>> /\ Head(chan.loki) \in Failures => reader.pc = "done"
  /\ /\ handler.pc \in Forwarding
     /\ \/ chan.loki # <<>> /\ Head(chan.loki) \in Failures
        \/ reader.pc = "sending" /\ reader.data \in Failures
     => outer.pc \in Leaving

\* What is on its way to the browser: with the handler, in the channel, with the reader.
Written == IF handler.pc = "writing" THEN <<handler.item>> ELSE <<>>
Channelled == IF chan.loki # <<>> /\ Head(chan.loki) \notin Failures THEN chan.loki ELSE <<>>
Buffered == IF reader.pc = "sending" /\ reader.data \notin Failures THEN <<reader.data>> ELSE <<>>
OnItsWay == Written \o (Channelled \o (Buffered \o pipe.offer))

\* What the browser has and what is on its way are the parts of the messages taken.
FlowInv ==
  /\ frames \in Seq(AllParts) /\ IsPrefix(frames, PartsUpTo(Taken))
  /\ handler.pc \in Forwarding /\ client # "left" => frames \o OnItsWay = PartsUpTo(Taken)

\* As long as only Loki may end the stream: the handler goes on until all is shown.
Undisturbed == conn # "none" /\ "tail" \notin ctx /\ client # "left" /\ ~ heard
AllShown ==
  outer.pc \in Leaving /\ inner.pc = "done" /\ Taken = loki.sent /\ frames = PartsUpTo(Taken)
CompleteInv ==
  Undisturbed =>
    /\ handler.pc \in Forwarding => chan.ws = <<>> /\ watcher = "reading"
    /\ handler.pc \in Forwarding \/ AllShown

LogInv == LogShape /\ PlaceInv /\ OrderInv /\ EndInv /\ FlowInv /\ CompleteInv
-----------------------------------------------------------------------------
(* The parts of the first n messages.                                      *)

\* The concatenations of the first sequences of s, one after the other.
Joined(f, s, n) == f = [i \in 1..n |-> IF i = 1 THEN s[i] ELSE f[i - 1] \o s[i]]

LEMMA JoinedExists ==
  ASSUME NEW s
  PROVE  \A n \in Nat : \E f : Joined(f, s, n)
  <1> DEFINE P == {n \in Nat : \E f : Joined(f, s, n)}
  <1>1. 0 \in P
    <2> DEFINE f == [i \in 1..0 |-> s[i]]
    <2>1. f = [i \in 1..0 |-> IF i = 1 THEN s[i] ELSE f[i - 1] \o s[i]]
      OBVIOUS
    <2> QED
      BY <2>1 DEF Joined
  <1>2. ASSUME NEW n \in P PROVE n + 1 \in P
    <2>1. PICK f : Joined(f, s, n)
      OBVIOUS
    <2>2. \A i \in 1..n : f[i] = IF i = 1 THEN s[i] ELSE f[i - 1] \o s[i]
      BY <2>1 DEF Joined
    <2> DEFINE last == IF n + 1 = 1 THEN s[n + 1] ELSE f[n] \o s[n + 1]
               g == [i \in 1..(n + 1) |-> IF i = n + 1 THEN last ELSE f[i]]
    <2>3. n \in Nat /\ n + 1 \in Nat
      OBVIOUS
    <2>4. ASSUME NEW i \in 1..(n + 1) PROVE g[i] = IF i = 1 THEN s[i] ELSE g[i - 1] \o s[i]
      <3>1. CASE i = n + 1
        <4>1. g[i] = last
          BY <3>1, <2>3
        <4>2. CASE i = 1
          BY <3>1, <4>1, <4>2
        <4>3. CASE i # 1
          <5>1. i - 1 = n /\ n \in 1..(n + 1) /\ n # n + 1
            BY <3>1, <4>3, <2>3
          <5>2. g[n] = f[n]
            BY <5>1
          <5> HIDE DEF g
          <5> QED
            BY <3>1, <4>1, <4>3, <5>1, <5>2
        <4> QED
          BY <4>2, <4>3
      <3>2. CASE i # n + 1
        <4>1. i \in 1..n /\ g[i] = f[i] /\ (i # 1 => i - 1 \in 1..(n + 1) /\ i - 1 # n + 1)
          BY <3>2, <2>3
        <4>2. i # 1 => g[i - 1] = f[i - 1]
          BY <4>1
        <4> HIDE DEF g
        <4> QED
          BY <4>1, <4>2, <2>2
      <3> QED
        BY <3>1, <3>2
    <2>5. g = [i \in 1..(n + 1) |-> g[i]]
      OBVIOUS
    <2> HIDE DEF g
    <2>6. g = [i \in 1..(n + 1) |-> IF i = 1 THEN s[i] ELSE g[i - 1] \o s[i]]
      BY <2>4, <2>5
    <2> QED
      BY <2>3, <2>6 DEF Joined
  <1>3. P \in SUBSET Nat
    OBVIOUS
  <1> HIDE DEF P
  <1>4. \A n \in Nat : n \in P
    BY <1>1, <1>2, <1>3, SetOfNaturals
  <1> QED
    BY <1>4 DEF P

\* They do not depend on what comes after.
LEMMA JoinedAgree ==
  ASSUME NEW s, NEW t, NEW n \in Nat, NEW k \in Nat, n <= k, \A i \in 1..n : s[i] = t[i],
         NEW f, NEW g, Joined(f, s, n), Joined(g, t, k)
  PROVE  \A i \in 1..n : f[i] = g[i]
  <1> DEFINE S == {i \in 1..n : f[i] # g[i]}
  <1> SUFFICES ASSUME S # {} PROVE FALSE
    OBVIOUS
  <1>1. S \in SUBSET Nat
    OBVIOUS
  <1>2. PICK i \in S : \A j \in S : i <= j
    BY <1>1, LeastNumber
  <1>3. i \in 1..n /\ i \in 1..k
    OBVIOUS
  <1>4. /\ f[i] = IF i = 1 THEN s[i] ELSE f[i - 1] \o s[i]
        /\ g[i] = IF i = 1 THEN t[i] ELSE g[i - 1] \o t[i]
    BY <1>3 DEF Joined
  <1>5. i # 1 => f[i - 1] = g[i - 1]
    BY <1>2, <1>3
  <1> QED
    BY <1>3, <1>4, <1>5

LEMMA FlattenIsJoined ==
  ASSUME NEW s, Len(s) \in Nat \ {0}
  PROVE  \E f : Joined(f, s, Len(s)) /\ FlattenSeq(s) = f[Len(s)]
  <1> DEFINE flatten == CHOOSE f : f = [i \in 1..Len(s) |-> IF i = 1 THEN s[i] ELSE f[i - 1] \o s[i]]
  <1>1. flatten = [i \in 1..Len(s) |-> IF i = 1 THEN s[i] ELSE flatten[i - 1] \o s[i]]
    <2>1. \E f : f = [i \in 1..Len(s) |-> IF i = 1 THEN s[i] ELSE f[i - 1] \o s[i]]
      BY JoinedExists DEF Joined
    <2> QED
      BY <2>1, Zenon
  <1>2. FlattenSeq(s) = flatten[Len(s)]
    BY DEF FlattenSeq
  <1> HIDE DEF flatten
  <1> QED
    BY <1>1, <1>2 DEF Joined

Mapped(n) == [m \in 1..n |-> PartsOf(m)]

LEMMA UpToNone == PartsUpTo(0) = <<>>
  <1>1. Len(Mapped(0)) = 0 /\ Mapped(0) = <<>>
    BY DEF Mapped
  <1>2. FlattenSeq(Mapped(0)) = Mapped(0)
    BY <1>1 DEF FlattenSeq
  <1> QED
    BY <1>1, <1>2 DEF PartsUpTo, Mapped

LEMMA PartsOfMessage ==
  ASSUME NEW m \in 1..MaxMessages
  PROVE  PartsOf(m) \in Seq(AllParts)
  <1>1. Parts[m] \in Nat /\ \A k \in 1..Parts[m] : <<m, k>> \in AllParts
    BY LogStreamAssumption DEF AllParts
  <1> QED
    BY <1>1 DEF PartsOf

LEMMA UpToNext ==
  ASSUME NEW n \in Nat, n + 1 <= MaxMessages
  PROVE  PartsUpTo(n + 1) = PartsUpTo(n) \o PartsOf(n + 1)
  <1>1. \A k \in Nat : Len(Mapped(k)) = k /\ \A i \in 1..k : Mapped(k)[i] = PartsOf(i)
    BY DEF Mapped
  <1>2. \A k \in Nat \ {0} : \E f : Joined(f, Mapped(k), k) /\ PartsUpTo(k) = f[k]
    <2> TAKE k \in Nat \ {0}
    <2>1. Len(Mapped(k)) = k /\ Len(Mapped(k)) \in Nat \ {0}
      BY <1>1
    <2>2. PICK f : Joined(f, Mapped(k), Len(Mapped(k))) /\ FlattenSeq(Mapped(k)) = f[Len(Mapped(k))]
      BY <2>1, FlattenIsJoined
    <2>3. PartsUpTo(k) = FlattenSeq(Mapped(k))
      BY DEF PartsUpTo, Mapped
    <2> QED
      BY <2>1, <2>2, <2>3
  <1>3. PICK f : Joined(f, Mapped(n + 1), n + 1) /\ PartsUpTo(n + 1) = f[n + 1]
    BY <1>2
  <1>4. f[n + 1] = IF n + 1 = 1 THEN PartsOf(n + 1) ELSE f[n] \o PartsOf(n + 1)
    <2>1. n + 1 \in 1..(n + 1) /\ (n + 1) - 1 = n /\ Mapped(n + 1)[n + 1] = PartsOf(n + 1)
      BY <1>1
    <2>2. f[n + 1] = IF n + 1 = 1 THEN Mapped(n + 1)[n + 1] ELSE f[(n + 1) - 1] \o Mapped(n + 1)[n + 1]
      BY <1>3, <2>1 DEF Joined
    <2> QED
      BY <2>1, <2>2
  <1>5. CASE n = 0
    <2>1. PartsOf(n + 1) \in Seq(AllParts)
      BY PartsOfMessage, <1>5, LogStreamAssumption
    <2>2. <<>> \o PartsOf(n + 1) = PartsOf(n + 1)
      BY <2>1, ConcatEmptySeq
    <2>3. PartsUpTo(n) = <<>> /\ n + 1 = 1
      BY <1>5, UpToNone
    <2> QED
      BY <1>3, <1>4, <2>2, <2>3
  <1>6. CASE n # 0
    <2>1. PICK g : Joined(g, Mapped(n), n) /\ PartsUpTo(n) = g[n]
      BY <1>6, <1>2
    <2>2. n <= n + 1 /\ n + 1 \in Nat /\ \A i \in 1..n : Mapped(n)[i] = Mapped(n + 1)[i]
      BY <1>1
    <2>3. \A i \in 1..n : g[i] = f[i]
      BY <1>3, <2>1, <2>2, JoinedAgree
    <2>4. g[n] = f[n]
      BY <1>6, <2>3
    <2>5. n + 1 # 1
      BY <1>6
    <2> QED
      BY <1>3, <1>4, <2>1, <2>4, <2>5
  <1> QED
    BY <1>5, <1>6

LEMMA UpToType == \A n \in 0..MaxMessages : PartsUpTo(n) \in Seq(AllParts)
  <1> DEFINE P == {n \in Nat : n <= MaxMessages => PartsUpTo(n) \in Seq(AllParts)}
  <1>1. 0 \in P
    BY UpToNone, EmptySeq
  <1>2. ASSUME NEW n \in P PROVE n + 1 \in P
    <2>1. CASE n + 1 <= MaxMessages
      <3>1. PartsUpTo(n) \in Seq(AllParts) /\ PartsOf(n + 1) \in Seq(AllParts)
        BY <2>1, PartsOfMessage, LogStreamAssumption
      <3>2. PartsUpTo(n) \o PartsOf(n + 1) \in Seq(AllParts)
        BY <3>1, ConcatProperties
      <3>3. PartsUpTo(n + 1) \in Seq(AllParts)
        BY <2>1, <3>2, UpToNext
      <3> QED
        BY <3>3
    <2> QED
      BY <2>1
  <1>3. P \in SUBSET Nat
    OBVIOUS
  <1> HIDE DEF P
  <1>4. \A n \in Nat : n \in P
    BY <1>1, <1>2, <1>3, SetOfNaturals
  <1> QED
    BY <1>4, LogStreamAssumption DEF P

\* A prefix is what something can be appended to.
LEMMA PrefixIs ==
  ASSUME NEW S, NEW s \in Seq(S), NEW t \in Seq(S)
  PROVE  /\ IsPrefix(s, t) => \E u \in Seq(S) : t = s \o u
         /\ \A u \in Seq(S) : t = s \o u => IsPrefix(s, t)
  <1>1. ASSUME IsPrefix(s, t) PROVE \E u \in Seq(S) : t = s \o u
    <2> DEFINE u == SubSeq(t, Len(s) + 1, Len(t))
    <2>1. Len(s) \in Nat /\ Len(t) \in Nat /\ Len(s) <= Len(t)
      BY <1>1 DEF IsPrefix
    <2>2. u \in Seq(S)
      BY <2>1, SubSeqProperties
    <2>3. SubSeq(t, 1, Len(s)) \o u = SubSeq(t, 1, Len(t))
      <3>1. 1 \in 1..(Len(t) + 1) /\ Len(s) \in (1 - 1)..Len(t) /\ Len(t) \in Len(s)..Len(t)
        BY <2>1
      <3> QED
        BY <3>1, ConcatAdjacentSubSeq
    <2>4. SubSeq(t, 1, Len(s)) = s /\ SubSeq(t, 1, Len(t)) = t
      BY <1>1, SubSeqFull DEF IsPrefix
    <2> QED
      BY <2>2, <2>3, <2>4
  <1>2. ASSUME NEW u \in Seq(S), t = s \o u PROVE IsPrefix(s, t)
    <2>1. Len(s) \in Nat /\ Len(u) \in Nat /\ Len(t) = Len(s) + Len(u)
      BY <1>2, ConcatProperties
    <2>2. CASE Len(s) = 0
      <3>1. SubSeq(s, 1, Len(s)) = <<>> /\ SubSeq(t, 1, Len(s)) = <<>>
        BY <2>2, SubSeqEmpty
      <3> QED
        BY <2>1, <3>1 DEF IsPrefix
    <2>3. CASE Len(s) # 0
      <3>1. 1 \in 1..Len(s) /\ Len(s) \in 1..Len(s)
        BY <2>1, <2>3
      <3>2. SubSeq(t, 1, Len(s)) = SubSeq(s, 1, Len(s))
        BY <1>2, <3>1, SubSeqOfConcat1
      <3> QED
        BY <2>1, <3>2 DEF IsPrefix
    <2> QED
      BY <2>2, <2>3
  <1> QED
    BY <1>1, <1>2

LEMMA PrefixTransitive ==
  ASSUME NEW S, NEW s \in Seq(S), NEW t \in Seq(S), NEW u \in Seq(S), IsPrefix(s, t)
  PROVE  IsPrefix(s, t \o u)
  <1>1. PICK v \in Seq(S) : t = s \o v
    BY PrefixIs
  <1>2. t \o u = s \o (v \o u) /\ v \o u \in Seq(S) /\ t \o u \in Seq(S)
    BY <1>1, ConcatAssociative, ConcatProperties
  <1> QED
    BY <1>2, PrefixIs

\* Who has a prefix of the parts of some messages has one of those of more messages.
LEMMA PrefixOfMore ==
  ASSUME NEW s \in Seq(AllParts), NEW d \in Nat, NEW n \in Nat, d <= n, n <= MaxMessages,
         IsPrefix(s, PartsUpTo(d))
  PROVE  IsPrefix(s, PartsUpTo(n))
  <1> DEFINE P == {k \in Nat : d + k <= MaxMessages => IsPrefix(s, PartsUpTo(d + k))}
  <1>1. 0 \in P
    OBVIOUS
  <1>2. ASSUME NEW k \in P PROVE k + 1 \in P
    <2>1. CASE d + (k + 1) <= MaxMessages
      <3>1. d + k \in Nat /\ (d + k) + 1 = d + (k + 1) /\ MaxMessages \in Nat
        BY LogStreamAssumption
      <3>2. PartsUpTo(d + k) \in Seq(AllParts) /\ PartsOf((d + k) + 1) \in Seq(AllParts)
        BY <2>1, <3>1, UpToType, PartsOfMessage
      <3>3. IsPrefix(s, PartsUpTo(d + k))
        BY <2>1, <3>1
      <3> HIDE DEF P
      <3>4. IsPrefix(s, PartsUpTo(d + k) \o PartsOf((d + k) + 1))
        BY <3>2, <3>3, PrefixTransitive
      <3>5. IsPrefix(s, PartsUpTo(d + (k + 1)))
        BY <2>1, <3>1, <3>4, UpToNext
      <3> QED
        BY <3>5 DEF P
    <2> QED
      BY <2>1
  <1>3. P \in SUBSET Nat
    OBVIOUS
  <1> HIDE DEF P
  <1>4. \A k \in Nat : k \in P
    BY <1>1, <1>2, <1>3, SetOfNaturals
  <1>5. n - d \in Nat /\ d + (n - d) = n
    OBVIOUS
  <1> QED
    BY <1>4, <1>5 DEF P
-----------------------------------------------------------------------------
(* Every step preserves the invariant, part by part.                       *)

LEMMA ShapeStep ==
  ASSUME LogInv, LogNext
  PROVE  LogShape'
  <1> USE DEF LogInv, LogShape
  <1>1. CASE Connect
    BY <1>1, LogStreamAssumption, PartsOfMessage DEF Connect, HandlerStates, Forwarding
  <1>2. CASE ClientSteps
    BY <1>2, LogStreamAssumption, PartsOfMessage DEF ClientSteps
  <1>3. CASE PodsChange
    BY <1>3, LogStreamAssumption, PartsOfMessage DEF PodsChange
  <1>4. CASE LokiEnds
    BY <1>4, LogStreamAssumption, PartsOfMessage DEF LokiEnds, LokiStates
  <1>5. CASE InnerRead
    BY <1>5, LogStreamAssumption, PartsOfMessage DEF InnerRead, LokiStates, InnerStates, Messages
  <1>6. CASE InnerFails
    BY <1>6, LogStreamAssumption, PartsOfMessage DEF InnerFails, InnerStates, LokiStates, Failures
  <1>7. CASE InnerSend
    BY <1>7, LogStreamAssumption, PartsOfMessage DEF InnerSend, InnerStates, Channels, Place, Passed
  <1>8. CASE OuterSelect
    <2>1. CASE TailDone /\ outer' = [outer EXCEPT !.pc = "closeTail"] /\ UNCHANGED <<chan, pipe>>
      BY <1>8, <2>1 DEF OuterSelect, OuterStates, Leaving
    <2>2. CASE /\ chan.msg # <<>> /\ chan' = [chan EXCEPT !.msg = <<>>]
               /\ Head(chan.msg) \in Failures /\ outer' = [outer EXCEPT !.pc = "closeTail"]
               /\ pipe' = IF Head(chan.msg) = Eof THEN pipe ELSE [pipe EXCEPT !.end = Broken]
      <3>1. chan' \in Channels
        BY <2>2 DEF Channels, Place
      <3>2. pipe' \in Pipes
        BY <2>2 DEF Pipes, Failures
      <3> QED
        BY <1>8, <2>2, <3>1, <3>2 DEF OuterSelect, OuterStates, Leaving
    <2>3. CASE /\ chan.msg # <<>> /\ chan' = [chan EXCEPT !.msg = <<>>]
               /\ Head(chan.msg) \notin Failures /\ outer' = [pc |-> "writing", msg |-> Head(chan.msg)]
               /\ pipe' = [pipe EXCEPT !.offer = PartsOf(Head(chan.msg))]
      <3>1. Head(chan.msg) \in Messages
        BY <2>3 DEF Channels, Place
      <3>2. PartsOf(Head(chan.msg)) \in Seq(AllParts)
        BY <3>1, PartsOfMessage DEF Messages
      <3>3. chan' \in Channels
        BY <2>3 DEF Channels, Place
      <3>4. pipe' \in Pipes
        BY <2>3, <3>2 DEF Pipes
      <3> QED
        BY <1>8, <2>3, <3>1, <3>3, <3>4 DEF OuterSelect, OuterStates
    <2> QED
      BY <1>8, <2>1, <2>2, <2>3 DEF OuterSelect
  <1>9. CASE OuterWritten
    <2>1. pipe' \in Pipes
      BY <1>9, EmptySeq DEF OuterWritten, Pipes
    <2> QED
      BY <1>9, <2>1 DEF OuterWritten, OuterStates, Leaving
  <1>10. CASE OuterClosesTail
    BY <1>10, LogStreamAssumption, PartsOfMessage DEF OuterClosesTail, OuterStates, Leaving
  <1>11. CASE OuterClosesPipe
    BY <1>11, LogStreamAssumption, PartsOfMessage DEF OuterClosesPipe, OuterStates, Leaving, Pipes, Failures
  <1>12. CASE MonitorTick
    BY <1>12, LogStreamAssumption, PartsOfMessage DEF MonitorTick
  <1>13. CASE MonitorStops
    BY <1>13, LogStreamAssumption, PartsOfMessage DEF MonitorStops
  <1>14. CASE StartApplication
    BY <1>14, LogStreamAssumption, PartsOfMessage DEF StartApplication, HandlerStates, Forwarding
  <1>15. CASE StartBuild
    BY <1>15, LogStreamAssumption, PartsOfMessage DEF StartBuild, HandlerStates, Forwarding
  <1>16. CASE DialFails
    BY <1>16, LogStreamAssumption, PartsOfMessage DEF DialFails, HandlerStates, Forwarding
  <1>17. CASE StartStreams
    BY <1>17, LogStreamAssumption, PartsOfMessage DEF StartStreams, HandlerStates, Forwarding, ReaderStates, OuterStates, InnerStates
  <1>18. CASE ReaderRead
    <2>1. pipe.offer # <<>> => Head(pipe.offer) \in AllParts /\ Tail(pipe.offer) \in Seq(AllParts)
      BY HeadTailProperties DEF Pipes
    <2>2. pipe' \in Pipes
      BY <1>18, <2>1 DEF ReaderRead, Pipes
    <2>3. reader' \in ReaderStates /\ reader'.data \in Passed
      BY <1>18, <2>1 DEF ReaderRead, ReaderStates, Passed, Pipes, Failures
    <2> QED
      BY <1>18, <2>2, <2>3 DEF ReaderRead
  <1>19. CASE ReaderSend
    <2>1. reader.data \in Passed
      BY <1>19 DEF ReaderSend
    <2>2. chan' \in Channels
      BY <1>19, <2>1 DEF ReaderSend, Channels, Place
    <2>3. reader' \in ReaderStates /\ reader'.pc # "sending"
      BY <1>19 DEF ReaderSend, ReaderStates
    <2> QED
      BY <1>19, <2>2, <2>3 DEF ReaderSend
  <1>20. CASE WatcherReads
    BY <1>20, LogStreamAssumption, PartsOfMessage DEF WatcherReads, Channels, Place
  <1>21. CASE HandlerSelect
    BY <1>21, LogStreamAssumption, PartsOfMessage DEF HandlerSelect, HandlerStates, Forwarding, Channels, Place, Passed
  <1>22. CASE HandlerWrite
    BY <1>22, LogStreamAssumption, PartsOfMessage DEF HandlerWrite, HandlerStates, Forwarding
  <1>23. CASE HandlerClosesPipe
    BY <1>23, LogStreamAssumption, PartsOfMessage DEF HandlerClosesPipe, HandlerStates, Forwarding, Pipes
  <1>24. CASE HandlerCancels
    BY <1>24, LogStreamAssumption, PartsOfMessage DEF HandlerCancels, HandlerStates, Forwarding
  <1> QED
    BY <1>1, <1>2, <1>3, <1>4, <1>5, <1>6, <1>7, <1>8, <1>9, <1>10, <1>11, <1>12, <1>13, <1>14,
       <1>15, <1>16, <1>17, <1>18, <1>19, <1>20, <1>21, <1>22, <1>23, <1>24
       DEF LogNext, Inner, Outer, Monitor, Starting, Reader, Handler

LEMMA PlaceStep ==
  ASSUME LogInv, LogNext
  PROVE  PlaceInv'
  <1> USE DEF LogInv, LogShape, PlaceInv
  <1>1. CASE Connect
    BY <1>1 DEF Connect, HandlerStates
  <1>2. CASE ClientSteps
    BY <1>2 DEF ClientSteps
  <1>3. CASE PodsChange
    BY <1>3 DEF PodsChange
  <1>4. CASE LokiEnds
    BY <1>4 DEF LokiEnds, LokiStates
  <1>5. CASE InnerRead
    BY <1>5 DEF InnerRead, InnerStates, LokiStates
  <1>6. CASE InnerFails
    BY <1>6 DEF InnerFails, InnerStates
  <1>7. CASE InnerSend
    BY <1>7 DEF InnerSend, InnerStates, Channels
  <1>8. CASE OuterSelect
    BY <1>8 DEF OuterSelect, OuterStates, Channels, Pipes
  <1>9. CASE OuterWritten
    BY <1>9 DEF OuterWritten, OuterStates, Pipes
  <1>10. CASE OuterClosesTail
    BY <1>10 DEF OuterClosesTail, OuterStates
  <1>11. CASE OuterClosesPipe
    BY <1>11 DEF OuterClosesPipe, OuterStates, Pipes
  <1>12. CASE MonitorTick
    BY <1>12 DEF MonitorTick
  <1>13. CASE MonitorStops
    BY <1>13 DEF MonitorStops
  <1>14. CASE StartApplication
    BY <1>14 DEF StartApplication, HandlerStates
  <1>15. CASE StartBuild
    BY <1>15 DEF StartBuild, HandlerStates
  <1>16. CASE DialFails
    BY <1>16 DEF DialFails, HandlerStates
  <1>17. CASE StartStreams
    BY <1>17 DEF StartStreams, HandlerStates, OuterStates, InnerStates, ReaderStates
  <1>18. CASE ReaderRead
    BY <1>18 DEF ReaderRead, ReaderStates, Pipes
  <1>19. CASE ReaderSend
    BY <1>19 DEF ReaderSend, ReaderStates, Channels
  <1>20. CASE WatcherReads
    BY <1>20 DEF WatcherReads, Channels
  <1>21. CASE HandlerSelect
    BY <1>21 DEF HandlerSelect, HandlerStates, Channels, Forwarding
  <1>22. CASE HandlerWrite
    BY <1>22 DEF HandlerWrite, HandlerStates, Forwarding
  <1>23. CASE HandlerClosesPipe
    BY <1>23 DEF HandlerClosesPipe, HandlerStates, Pipes
  <1>24. CASE HandlerCancels
    BY <1>24 DEF HandlerCancels, HandlerStates
  <1> QED
    BY <1>1, <1>2, <1>3, <1>4, <1>5, <1>6, <1>7, <1>8, <1>9, <1>10, <1>11, <1>12, <1>13, <1>14,
       <1>15, <1>16, <1>17, <1>18, <1>19, <1>20, <1>21, <1>22, <1>23, <1>24
       DEF LogNext, Inner, Outer, Monitor, Starting, Reader, Handler

LEMMA OrderKept ==
  ASSUME OrderInv, loki'.sent = loki.sent, outer' = outer, inner' = inner, chan'.msg = chan.msg,
         ctx' = ctx, pipe'.closed = pipe.closed
  PROVE  OrderInv'
  BY DEF OrderInv, Taken, Failed, Queued, Carried

LEMMA OrderStep ==
  ASSUME LogInv, LogNext
  PROVE  OrderInv'
  <1> USE DEF LogInv, LogShape, OrderInv, Taken, Failed, Queued, Carried
  <1>t. Taken \in Nat /\ loki.sent \in Nat
    BY DEF LokiStates
  <1>1. CASE Connect
    BY <1>1, OrderKept DEF Connect
  <1>2. CASE ClientSteps
    BY <1>2, OrderKept DEF ClientSteps
  <1>3. CASE PodsChange
    BY <1>3, OrderKept DEF PodsChange
  <1>4. CASE LokiEnds
    BY <1>4, OrderKept DEF LokiEnds, LokiStates
  <1>5. CASE InnerRead
    <2>1. /\ loki'.sent = loki.sent + 1 /\ loki.sent \in Nat
          /\ inner'.pc = "sending" /\ inner'.msg = loki.sent + 1 /\ inner.pc = "reading"
          /\ UNCHANGED <<outer, chan, pipe, ctx>>
      BY <1>5 DEF InnerRead, LokiStates
    <2>2. inner'.msg \notin Failures
      BY <2>1, LogStreamAssumption
    <2> QED
      BY <2>1, <2>2, <1>t
  <1>6. CASE InnerFails
    <2>1. /\ inner'.pc = "sending" /\ inner'.msg \in Failures /\ inner.pc = "reading"
          /\ UNCHANGED <<loki, outer, chan, pipe, ctx>>
      BY <1>6, LogStreamAssumption DEF InnerFails, LokiStates, Failures
    <2> QED
      BY <2>1, <1>t
  <1>7. CASE InnerSend
    <2>1. inner.pc = "sending" /\ UNCHANGED <<loki, outer, pipe, ctx>>
      BY <1>7 DEF InnerSend
    <2>2. CASE TailDone /\ inner' = [inner EXCEPT !.pc = "done"] /\ UNCHANGED chan
      <3>1. inner'.pc = "done" /\ ctx # {}
        BY <2>2 DEF TailDone, InnerStates
      <3> QED
        BY <2>1, <2>2, <3>1, <1>t
    <2>3. CASE /\ chan.msg = <<>> /\ chan' = [chan EXCEPT !.msg = <<inner.msg>>]
               /\ inner' = [inner EXCEPT !.pc = IF inner.msg \in Failures THEN "done" ELSE "reading"]
      <3>1. /\ chan'.msg = <<inner.msg>> /\ chan'.msg # <<>> /\ Head(chan'.msg) = inner.msg
            /\ inner'.pc = IF inner.msg \in Failures THEN "done" ELSE "reading"
        BY <2>3 DEF InnerStates, Channels
      <3> QED
        BY <2>1, <2>3, <3>1, <1>t
    <2> QED
      BY <1>7, <2>2, <2>3 DEF InnerSend
  <1>8. CASE OuterSelect
    <2>1. outer.pc = "select" /\ UNCHANGED <<loki, inner, ctx>>
      BY <1>8 DEF OuterSelect
    <2>2. CASE TailDone /\ outer' = [outer EXCEPT !.pc = "closeTail"] /\ UNCHANGED <<chan, pipe>>
      <3>1. outer'.pc = "closeTail" /\ outer'.msg = outer.msg /\ ctx # {}
        BY <2>2 DEF TailDone, OuterStates
      <3> QED
        BY <2>1, <2>2, <3>1, <1>t DEF Leaving
    <2>3. CASE /\ Failed /\ chan' = [chan EXCEPT !.msg = <<>>]
               /\ outer' = [outer EXCEPT !.pc = "closeTail"]
               /\ pipe' = IF Head(chan.msg) = Eof THEN pipe ELSE [pipe EXCEPT !.end = Broken]
      <3>1. outer'.pc = "closeTail" /\ outer'.msg = outer.msg
        BY <2>3 DEF OuterStates
      <3> QED
        BY <2>1, <2>3, <3>1, <1>t DEF Leaving
    <2>4. CASE /\ chan.msg # <<>> /\ ~ Failed /\ chan' = [chan EXCEPT !.msg = <<>>]
               /\ outer' = [pc |-> "writing", msg |-> Head(chan.msg)]
               /\ pipe' = [pipe EXCEPT !.offer = PartsOf(Head(chan.msg))]
      <3>1. outer'.pc = "writing" /\ outer'.msg = Head(chan.msg) /\ chan'.msg = <<>>
        BY <2>4 DEF Channels
      <3>2. Head(chan.msg) = Taken + 1 /\ Taken + 1 \in Nat
        BY <2>1, <2>4, <1>t
      <3> QED
        BY <2>1, <2>4, <3>1, <3>2, <1>t DEF Leaving
    <2> QED
      BY <1>8, <2>2, <2>3, <2>4 DEF OuterSelect, Failed
  <1>9. CASE OuterWritten
    <2>1. outer.pc = "writing" /\ UNCHANGED <<loki, inner, chan, ctx>>
      BY <1>9 DEF OuterWritten
    <2>2. outer'.msg = outer.msg /\ outer'.pc \in {"select", "closeTail"} /\ pipe'.closed = pipe.closed
      BY <1>9 DEF OuterWritten, OuterStates, Pipes
    <2>3. outer'.pc = "closeTail" => pipe.closed
      BY <1>9 DEF OuterWritten, OuterStates
    <2> QED
      BY <2>1, <2>2, <2>3, <1>t DEF Leaving
  <1>10. CASE OuterClosesTail
    <2>1. /\ outer.pc \in Leaving /\ outer'.pc \in Leaving /\ outer'.msg = outer.msg
          /\ pipe'.closed = pipe.closed /\ UNCHANGED <<loki, inner, chan, ctx>>
      BY <1>10 DEF OuterClosesTail, OuterStates, Leaving, Pipes
    <2>2. outer'.pc \notin {"select", "writing"}
      BY <2>1 DEF Leaving
    <2> QED
      BY <2>1, <2>2, <1>t
  <1>11. CASE OuterClosesPipe
    <2>1. /\ outer.pc \in Leaving /\ outer'.pc \in Leaving /\ outer'.msg = outer.msg
          /\ pipe'.closed = pipe.closed /\ UNCHANGED <<loki, inner, chan, ctx>>
      BY <1>11 DEF OuterClosesPipe, OuterStates, Leaving, Pipes
    <2>2. outer'.pc \notin {"select", "writing"}
      BY <2>1 DEF Leaving
    <2> QED
      BY <2>1, <2>2, <1>t
  <1>12. CASE MonitorTick
    <2>1. ctx' # {} /\ UNCHANGED <<loki, outer, inner, chan, pipe>>
      BY <1>12 DEF MonitorTick
    <2> QED
      BY <2>1, <1>t
  <1>13. CASE MonitorStops
    BY <1>13, OrderKept DEF MonitorStops
  <1>14. CASE StartApplication
    BY <1>14, OrderKept DEF StartApplication
  <1>15. CASE StartBuild
    BY <1>15, OrderKept DEF StartBuild
  <1>16. CASE DialFails
    BY <1>16, OrderKept DEF DialFails
  <1>17. CASE StartStreams
    <2>1. conn = "none" /\ loki.sent = 0 /\ chan.msg = <<>> /\ outer.msg \notin Nat
      BY <1>17, LogStreamAssumption DEF StartStreams, PlaceInv
    <2>2. outer'.msg = outer.msg /\ outer'.pc = "select" /\ inner'.pc = "reading" /\ UNCHANGED <<loki, chan, pipe, ctx>>
      BY <1>17 DEF StartStreams, OuterStates, InnerStates
    <2> QED
      BY <2>1, <2>2 DEF Leaving
  <1>18. CASE ReaderRead
    BY <1>18, OrderKept DEF ReaderRead, Pipes
  <1>19. CASE ReaderSend
    BY <1>19, OrderKept DEF ReaderSend, Channels
  <1>20. CASE WatcherReads
    BY <1>20, OrderKept DEF WatcherReads, Channels
  <1>21. CASE HandlerSelect
    BY <1>21, OrderKept DEF HandlerSelect, Channels
  <1>22. CASE HandlerWrite
    BY <1>22, OrderKept DEF HandlerWrite
  <1>23. CASE HandlerClosesPipe
    <2>1. pipe'.closed /\ UNCHANGED <<loki, outer, inner, chan, ctx>>
      BY <1>23 DEF HandlerClosesPipe, Pipes
    <2> QED
      BY <2>1, <1>t
  <1>24. CASE HandlerCancels
    <2>1. ctx' # {} /\ UNCHANGED <<loki, outer, inner, chan, pipe>>
      BY <1>24 DEF HandlerCancels
    <2> QED
      BY <2>1, <1>t
  <1> QED
    BY <1>1, <1>2, <1>3, <1>4, <1>5, <1>6, <1>7, <1>8, <1>9, <1>10, <1>11, <1>12, <1>13, <1>14,
       <1>15, <1>16, <1>17, <1>18, <1>19, <1>20, <1>21, <1>22, <1>23, <1>24
       DEF LogNext, Inner, Outer, Monitor, Starting, Reader, Handler

LEMMA PartsAreNoFailures ==
  /\ \A p \in AllParts : p \notin Failures
  /\ \A m \in Nat : m \notin Failures
  <1>1. ASSUME NEW p \in AllParts PROVE p \in Nat \X Nat
    <2>1. PICK m \in 1..MaxMessages : p \in {<<m, k>> : k \in 1..Parts[m]}
      BY DEF AllParts
    <2>2. Parts[m] \in Nat /\ m \in Nat
      BY LogStreamAssumption
    <2> QED
      BY <2>1, <2>2
  <1> QED
    BY <1>1, LogStreamAssumption

LEMMA EndKept ==
  ASSUME EndInv, pipe'.end = pipe.end, pipe'.offer = pipe.offer, outer' = outer,
         chan'.loki = chan.loki, reader' = reader,
         handler'.pc \in Forwarding => handler.pc \in Forwarding
  PROVE  EndInv'
  BY DEF EndInv

LEMMA EndStep ==
  ASSUME LogInv, LogNext
  PROVE  EndInv'
  <1> USE DEF LogInv, LogShape, EndInv
  <1>1. CASE Connect
    <2>1. handler'.pc \notin Forwarding
      BY <1>1 DEF Connect, HandlerStates, Forwarding
    <2> QED
      BY <1>1, <2>1, EndKept DEF Connect
  <1>2. CASE ClientSteps
    BY <1>2, EndKept DEF ClientSteps
  <1>3. CASE PodsChange
    BY <1>3, EndKept DEF PodsChange
  <1>4. CASE LokiEnds
    BY <1>4, EndKept DEF LokiEnds
  <1>5. CASE InnerRead
    BY <1>5, EndKept DEF InnerRead
  <1>6. CASE InnerFails
    BY <1>6, EndKept DEF InnerFails
  <1>7. CASE InnerSend
    BY <1>7, EndKept DEF InnerSend, Channels
  <1>8. CASE OuterSelect
    <2>1. outer.pc = "select" /\ UNCHANGED <<handler, reader>> /\ outer'.pc \in {"closeTail", "writing"}
      BY <1>8 DEF OuterSelect, OuterStates
    <2>2. chan'.loki = chan.loki
      BY <1>8 DEF OuterSelect, Channels
    <2>3. /\ outer'.pc = "writing" => pipe'.end = pipe.end
          /\ outer'.pc = "closeTail" => pipe'.offer = pipe.offer
      BY <1>8 DEF OuterSelect, OuterStates, Pipes
    <2>4. outer.pc \notin Leaving /\ outer.pc # "writing"
      BY <2>1 DEF Leaving
    <2> QED
      BY <2>1, <2>2, <2>3, <2>4 DEF Leaving
  <1>9. CASE OuterWritten
    <2>1. outer.pc = "writing" /\ UNCHANGED <<handler, reader, chan>>
      BY <1>9 DEF OuterWritten
    <2>2. outer'.pc \in {"select", "closeTail"} /\ pipe'.end = pipe.end /\ pipe'.offer = <<>>
      BY <1>9 DEF OuterWritten, OuterStates, Pipes
    <2>3. outer.pc \notin Leaving
      BY <2>1 DEF Leaving
    <2> QED
      BY <2>1, <2>2, <2>3 DEF Leaving
  <1>10. CASE OuterClosesTail
    <2>1. /\ outer.pc \in Leaving /\ outer'.pc \in Leaving
          /\ pipe'.offer = pipe.offer /\ UNCHANGED <<handler, reader, chan>>
      BY <1>10 DEF OuterClosesTail, OuterStates, Leaving, Pipes
    <2>2. outer.pc # "writing"
      BY <2>1 DEF Leaving
    <2> QED
      BY <2>1, <2>2
  <1>11. CASE OuterClosesPipe
    <2>1. /\ outer.pc \in Leaving /\ outer'.pc \in Leaving
          /\ pipe'.offer = pipe.offer /\ UNCHANGED <<handler, reader, chan>>
      BY <1>11 DEF OuterClosesPipe, OuterStates, Leaving, Pipes
    <2>2. outer.pc # "writing"
      BY <2>1 DEF Leaving
    <2> QED
      BY <2>1, <2>2
  <1>12. CASE MonitorTick
    BY <1>12, EndKept DEF MonitorTick
  <1>13. CASE MonitorStops
    BY <1>13, EndKept DEF MonitorStops
  <1>14. CASE StartApplication
    <2>1. handler'.pc \notin Forwarding
      BY <1>14 DEF StartApplication, HandlerStates, Forwarding
    <2> QED
      BY <1>14, <2>1, EndKept DEF StartApplication
  <1>15. CASE StartBuild
    <2>1. handler'.pc \notin Forwarding
      BY <1>15 DEF StartBuild, HandlerStates, Forwarding
    <2> QED
      BY <1>15, <2>1, EndKept DEF StartBuild
  <1>16. CASE DialFails
    <2>1. handler'.pc \notin Forwarding
      BY <1>16 DEF DialFails, HandlerStates, Forwarding
    <2> QED
      BY <1>16, <2>1, EndKept DEF DialFails
  <1>17. CASE StartStreams
    <2>1. conn = "none" /\ chan.loki = <<>> /\ pipe.offer = <<>> /\ pipe.end = "open"
      BY <1>17 DEF StartStreams, PlaceInv
    <2>2. outer'.pc = "select" /\ reader'.pc = "reading" /\ UNCHANGED <<chan, pipe>>
      BY <1>17 DEF StartStreams, OuterStates, ReaderStates
    <2> QED
      BY <2>1, <2>2
  <1>18. CASE ReaderRead
    <2>1. reader.pc = "reading" /\ reader'.pc = "sending" /\ UNCHANGED <<chan, outer, handler>>
      BY <1>18 DEF ReaderRead
    <2>2. pipe'.end = pipe.end
      BY <1>18 DEF ReaderRead, Pipes
    <2>3. \/ pipe.offer # <<>> /\ reader'.data = Head(pipe.offer)
          \/ pipe.closed /\ pipe'.offer = pipe.offer
          \/ pipe.end # "open" /\ pipe'.offer = pipe.offer
      BY <1>18 DEF ReaderRead
    <2>4. pipe.offer # <<>> => Head(pipe.offer) \notin Failures
      <3>1. pipe.offer # <<>> => Head(pipe.offer) \in AllParts
        BY HeadTailProperties DEF Pipes
      <3> QED
        BY <3>1, PartsAreNoFailures
    <2>5. pipe.closed => handler.pc \notin Forwarding
      BY DEF PlaceInv, Forwarding
    <2>6. pipe.offer # <<>> => outer.pc = "writing"
      OBVIOUS
    <2>7. outer.pc # "writing" => pipe'.offer = <<>>
      BY <2>3, <2>6
    <2> QED
      BY <2>1, <2>2, <2>3, <2>4, <2>5, <2>7
  <1>19. CASE ReaderSend
    <2>1. reader.pc = "sending" /\ UNCHANGED <<pipe, outer, handler>>
      BY <1>19 DEF ReaderSend
    <2>2. CASE StreamDone /\ reader' = [reader EXCEPT !.pc = "done"] /\ UNCHANGED chan
      <3>1. reader'.pc = "done"
        BY <2>2 DEF ReaderStates
      <3> QED
        BY <2>1, <2>2, <3>1
    <2>3. CASE /\ chan.loki = <<>> /\ chan' = [chan EXCEPT !.loki = <<reader.data>>]
               /\ reader' = [reader EXCEPT !.pc = IF reader.data \in Failures THEN "done" ELSE "reading"]
      <3>1. chan'.loki = <<reader.data>> /\ Head(chan'.loki) = reader.data
        BY <2>3 DEF Channels
      <3>2. reader'.pc = IF reader.data \in Failures THEN "done" ELSE "reading"
        BY <2>3 DEF ReaderStates
      <3> QED
        BY <2>1, <2>3, <3>1, <3>2
    <2> QED
      BY <1>19, <2>2, <2>3 DEF ReaderSend
  <1>20. CASE WatcherReads
    BY <1>20, EndKept DEF WatcherReads, Channels
  <1>21. CASE HandlerSelect
    <2>1. handler.pc = "select" /\ UNCHANGED <<pipe, outer, reader>>
      BY <1>21 DEF HandlerSelect
    <2>2. chan'.loki = <<>> \/ chan'.loki = chan.loki
      BY <1>21 DEF HandlerSelect, Channels
    <2> QED
      BY <2>1, <2>2 DEF Forwarding
  <1>22. CASE HandlerWrite
    <2>1. handler.pc = "writing" \/ handler'.pc \notin Forwarding
      BY <1>22 DEF HandlerWrite, HandlerStates, Forwarding
    <2> QED
      BY <1>22, <2>1, EndKept DEF HandlerWrite, Forwarding
  <1>23. CASE HandlerClosesPipe
    <2>1. handler'.pc \notin Forwarding
      BY <1>23 DEF HandlerClosesPipe, HandlerStates, Forwarding
    <2> QED
      BY <1>23, <2>1, EndKept DEF HandlerClosesPipe, Pipes
  <1>24. CASE HandlerCancels
    <2>1. handler'.pc \notin Forwarding
      BY <1>24 DEF HandlerCancels, HandlerStates, Forwarding
    <2> QED
      BY <1>24, <2>1, EndKept DEF HandlerCancels
  <1> QED
    BY <1>1, <1>2, <1>3, <1>4, <1>5, <1>6, <1>7, <1>8, <1>9, <1>10, <1>11, <1>12, <1>13, <1>14,
       <1>15, <1>16, <1>17, <1>18, <1>19, <1>20, <1>21, <1>22, <1>23, <1>24
       DEF LogNext, Inner, Outer, Monitor, Starting, Reader, Handler

\* What is on its way, in its four places.
LEMMA FlowType ==
  ASSUME LogShape, OrderInv
  PROVE  /\ Written \in Seq(AllParts) /\ Channelled \in Seq(AllParts)
         /\ Buffered \in Seq(AllParts) /\ pipe.offer \in Seq(AllParts)
         /\ Taken \in 0..MaxMessages /\ PartsUpTo(Taken) \in Seq(AllParts)
  <1> USE EmptySeq DEF LogShape
  <1>1. Written \in Seq(AllParts)
    BY DEF Written
  <1>2. chan.loki # <<>> /\ Head(chan.loki) \notin Failures => chan.loki \in Seq(AllParts)
    <2> SUFFICES ASSUME chan.loki # <<>>, Head(chan.loki) \notin Failures PROVE chan.loki \in Seq(AllParts)
      OBVIOUS
    <2>1. chan.loki \in {<<x>> : x \in Passed}
      BY DEF Channels, Place
    <2>2. PICK x \in Passed : chan.loki = <<x>>
      BY <2>1
    <2>3. x \in AllParts
      BY <2>2 DEF Passed
    <2> QED
      BY <2>2, <2>3
  <1>3. Channelled \in Seq(AllParts)
    BY <1>2 DEF Channelled
  <1>4. Buffered \in Seq(AllParts)
    BY DEF Buffered, Passed
  <1>5. pipe.offer \in Seq(AllParts)
    BY DEF Pipes
  <1>6. Taken \in 0..MaxMessages
    BY LogStreamAssumption DEF OrderInv, Taken, LokiStates
  <1>7. PartsUpTo(Taken) \in Seq(AllParts)
    BY <1>6, UpToType
  <1> QED
    BY <1>1, <1>3, <1>4, <1>5, <1>6, <1>7

LEMMA FlowKept ==
  ASSUME FlowInv, frames' = frames, Taken' = Taken,
         handler'.pc \in Forwarding /\ client' # "left" =>
           handler.pc \in Forwarding /\ client # "left" /\ OnItsWay' = OnItsWay
  PROVE  FlowInv'
  BY DEF FlowInv

LEMMA HeadThenTail ==
  ASSUME NEW S, NEW s \in Seq(AllParts), s # <<>>
  PROVE  <<Head(s)>> \o Tail(s) = s
  OBVIOUS

LEMMA FlowStep ==
  ASSUME LogInv, LogNext
  PROVE  FlowInv'
  <1> USE DEF LogInv, LogShape
  <1>t. /\ Written \in Seq(AllParts) /\ Channelled \in Seq(AllParts)
        /\ Buffered \in Seq(AllParts) /\ pipe.offer \in Seq(AllParts)
        /\ Taken \in 0..MaxMessages /\ PartsUpTo(Taken) \in Seq(AllParts)
    BY FlowType
  <1>1. CASE Connect
    <2>1. handler'.pc \notin Forwarding
      BY <1>1 DEF Connect, HandlerStates, Forwarding
    <2>2. UNCHANGED <<frames, Taken>>
      BY <1>1 DEF Connect, Taken
    <2> QED
      BY <2>1, <2>2, FlowKept
  <1>2. CASE ClientSteps
    <2>1. UNCHANGED <<Taken, OnItsWay, frames, handler>>
      BY <1>2 DEF ClientSteps, Taken, OnItsWay, Written, Channelled, Buffered
    <2>2. client = "left" => client' = "left"
      BY <1>2 DEF ClientSteps
    <2> QED
      BY <2>1, <2>2, FlowKept
  <1>3. CASE PodsChange
    <2>1. UNCHANGED <<Taken, OnItsWay, frames, client, handler>>
      BY <1>3 DEF PodsChange, Taken, OnItsWay, Written, Channelled, Buffered
    <2> QED
      BY <2>1, FlowKept
  <1>4. CASE LokiEnds
    <2>1. UNCHANGED <<Taken, OnItsWay, frames, client, handler>>
      BY <1>4 DEF LokiEnds, Taken, OnItsWay, Written, Channelled, Buffered
    <2> QED
      BY <2>1, FlowKept
  <1>5. CASE InnerRead
    <2>1. UNCHANGED <<Taken, OnItsWay, frames, client, handler>>
      BY <1>5 DEF InnerRead, Taken, OnItsWay, Written, Channelled, Buffered
    <2> QED
      BY <2>1, FlowKept
  <1>6. CASE InnerFails
    <2>1. UNCHANGED <<Taken, OnItsWay, frames, client, handler>>
      BY <1>6 DEF InnerFails, Taken, OnItsWay, Written, Channelled, Buffered
    <2> QED
      BY <2>1, FlowKept
  <1>7. CASE InnerSend
    <2>1. UNCHANGED <<Taken, OnItsWay, frames, client, handler>>
      BY <1>7 DEF InnerSend, Taken, OnItsWay, Written, Channelled, Buffered, Channels
    <2> QED
      BY <2>1, FlowKept
  <1>8. CASE OuterSelect
    <2>1. outer.pc = "select" /\ UNCHANGED <<handler, reader, frames, client>>
      BY <1>8 DEF OuterSelect
    <2>2. chan'.loki = chan.loki
      BY <1>8 DEF OuterSelect, Channels
    <2>3. UNCHANGED <<Written, Channelled, Buffered>>
      BY <2>1, <2>2 DEF Written, Channelled, Buffered
    <2>4. CASE outer' = [outer EXCEPT !.pc = "closeTail"]
      <3>1. outer'.msg = outer.msg
        BY <2>4 DEF OuterStates
      <3>2. pipe'.offer = pipe.offer
        BY <1>8, <2>4 DEF OuterSelect, Pipes, OuterStates
      <3>3. UNCHANGED <<Taken, OnItsWay>>
        BY <2>3, <3>1, <3>2 DEF Taken, OnItsWay
      <3> QED
        BY <2>1, <3>3, FlowKept
    <2>5. CASE /\ chan.msg # <<>> /\ ~ Failed
               /\ outer' = [pc |-> "writing", msg |-> Head(chan.msg)]
               /\ pipe' = [pipe EXCEPT !.offer = PartsOf(Head(chan.msg))]
      <3>1. Head(chan.msg) = Taken + 1 /\ pipe.offer = <<>>
        BY <2>1, <2>5 DEF OrderInv, EndInv, Queued
      <3>2. Head(chan.msg) \in Messages
        BY <2>5 DEF Channels, Place, Failed
      <3>3. Taken + 1 <= MaxMessages /\ Taken + 1 \in 1..MaxMessages
        BY <3>1, <3>2 DEF Messages
      <3>4. Taken' = Taken + 1
        BY <2>5, <3>1 DEF Taken
      <3>5. pipe'.offer = PartsOf(Taken + 1)
        BY <2>5, <3>1 DEF Pipes
      <3>p. PICK parts \in Seq(AllParts) : parts = PartsOf(Taken + 1)
        BY <3>3, PartsOfMessage
      <3>u. PICK taken \in Seq(AllParts) : taken = PartsUpTo(Taken)
        BY <1>t
      <3>w. PICK w \in Seq(AllParts), c \in Seq(AllParts), b \in Seq(AllParts), f \in Seq(AllParts) :
              w = Written /\ c = Channelled /\ b = Buffered /\ f = frames
        BY <1>t DEF FlowInv
      <3>6. PartsUpTo(Taken)' = taken \o parts
        <4>1. PICK n \in Nat : n = Taken
          BY <1>t
        <4>2. PartsUpTo(n + 1) = PartsUpTo(n) \o PartsOf(n + 1)
          BY <3>3, <4>1, UpToNext
        <4> QED
          BY <3>4, <3>p, <3>u, <4>1, <4>2
      <3>i. IsPrefix(f, taken)
        BY <3>u, <3>w DEF FlowInv
      <3>7. IsPrefix(f, taken \o parts)
        BY <3>i, PrefixTransitive
      <3>8. (frames \o OnItsWay) \o parts = frames \o OnItsWay'
        <4>1. OnItsWay = w \o (c \o (b \o <<>>))
          BY <3>1, <3>w DEF OnItsWay
        <4>2. OnItsWay' = w \o (c \o (b \o parts))
          BY <2>3, <3>5, <3>p, <3>w DEF OnItsWay
        <4>3. (f \o (w \o (c \o (b \o <<>>)))) \o parts = f \o (w \o (c \o (b \o parts)))
          <5>1. PICK d \in Seq(AllParts) : d = c \o b
            BY <3>w, ConcatProperties
          <5>2. PICK e \in Seq(AllParts) : e = w \o d
            BY <3>w, <5>1, ConcatProperties
          <5>3. b \o <<>> = b
            BY <3>w, ConcatEmptySeq
          <5>4. (f \o e) \o parts = f \o (e \o parts)
            BY <3>p, <3>w, <5>2, SMTT(30)
          <5>5. (w \o d) \o parts = w \o (d \o parts)
            BY <3>p, <3>w, <5>1, SMTT(30)
          <5>6. (c \o b) \o parts = c \o (b \o parts)
            BY <3>p, <3>w, SMTT(30)
          <5> QED
            BY <5>1, <5>2, <5>3, <5>4, <5>5, <5>6
        <4> QED
          BY <3>w, <4>1, <4>2, <4>3
      <3>9. handler.pc \in Forwarding /\ client # "left" => frames \o OnItsWay = taken
        BY <3>u DEF FlowInv
      <3>10. frames \in Seq(AllParts)
        BY DEF FlowInv
      <3> QED
        BY <2>1, <3>6, <3>7, <3>8, <3>9, <3>10, <3>w DEF FlowInv
    <2> QED
      BY <1>8, <2>4, <2>5 DEF OuterSelect, Failed
  <1>9. CASE OuterWritten
    <2>1. UNCHANGED <<handler, reader, frames, client, chan, Taken>>
      BY <1>9 DEF OuterWritten, OuterStates, Taken
    <2>2. pipe.closed \/ pipe' = pipe
      BY <1>9 DEF OuterWritten
    <2>3. pipe.closed => handler.pc \notin Forwarding
      BY DEF PlaceInv, Forwarding
    <2>4. pipe' = pipe => OnItsWay' = OnItsWay
      BY <2>1 DEF OnItsWay, Written, Channelled, Buffered
    <2> QED
      BY <2>1, <2>2, <2>3, <2>4, FlowKept
  <1>10. CASE OuterClosesTail
    <2>1. UNCHANGED <<Taken, OnItsWay, frames, client, handler>>
      BY <1>10 DEF OuterClosesTail, Taken, OnItsWay, Written, Channelled, Buffered, OuterStates
    <2> QED
      BY <2>1, FlowKept
  <1>11. CASE OuterClosesPipe
    <2>1. UNCHANGED <<Taken, OnItsWay, frames, client, handler>>
      BY <1>11 DEF OuterClosesPipe, Taken, OnItsWay, Written, Channelled, Buffered, OuterStates, Pipes
    <2> QED
      BY <2>1, FlowKept
  <1>12. CASE MonitorTick
    <2>1. UNCHANGED <<Taken, OnItsWay, frames, client, handler>>
      BY <1>12 DEF MonitorTick, Taken, OnItsWay, Written, Channelled, Buffered
    <2> QED
      BY <2>1, FlowKept
  <1>13. CASE MonitorStops
    <2>1. UNCHANGED <<Taken, OnItsWay, frames, client, handler>>
      BY <1>13 DEF MonitorStops, Taken, OnItsWay, Written, Channelled, Buffered
    <2> QED
      BY <2>1, FlowKept
  <1>14. CASE StartApplication
    <2>1. handler'.pc \notin Forwarding
      BY <1>14 DEF StartApplication, HandlerStates, Forwarding
    <2>2. UNCHANGED <<frames, Taken>>
      BY <1>14 DEF StartApplication, Taken
    <2> QED
      BY <2>1, <2>2, FlowKept
  <1>15. CASE StartBuild
    <2>1. handler'.pc \notin Forwarding
      BY <1>15 DEF StartBuild, HandlerStates, Forwarding
    <2>2. UNCHANGED <<frames, Taken>>
      BY <1>15 DEF StartBuild, Taken
    <2> QED
      BY <2>1, <2>2, FlowKept
  <1>16. CASE DialFails
    <2>1. handler'.pc \notin Forwarding
      BY <1>16 DEF DialFails, HandlerStates, Forwarding
    <2>2. UNCHANGED <<frames, Taken>>
      BY <1>16 DEF DialFails, Taken
    <2> QED
      BY <2>1, <2>2, FlowKept
  <1>17. CASE StartStreams
    <2>1. /\ conn = "none" /\ chan.loki = <<>> /\ pipe.offer = <<>> /\ outer.msg = Nothing
          /\ frames = <<>>
      BY <1>17 DEF StartStreams, PlaceInv
    <2>2. /\ outer'.msg = outer.msg /\ reader'.pc = "reading" /\ handler'.pc = "select"
          /\ UNCHANGED <<chan, pipe, frames>>
      BY <1>17 DEF StartStreams, OuterStates, ReaderStates, HandlerStates
    <2>3. Taken' = Taken /\ Taken = 0
      BY <2>1, <2>2, LogStreamAssumption DEF Taken
    <2>4. PartsUpTo(Taken)' = <<>>
      BY <2>3, UpToNone
    <2>5. Written' = <<>> /\ Channelled' = <<>> /\ Buffered' = <<>> /\ pipe'.offer = <<>>
      BY <2>1, <2>2 DEF Written, Channelled, Buffered
    <2>6. <<>> \o <<>> = <<>>
      OBVIOUS
    <2>7. OnItsWay' = <<>>
      BY <2>5, <2>6 DEF OnItsWay
    <2>8. frames' \o OnItsWay' = PartsUpTo(Taken)'
      BY <2>1, <2>2, <2>4, <2>6, <2>7
    <2>9. frames' \in Seq(AllParts) /\ IsPrefix(frames, PartsUpTo(Taken))'
      BY <2>2, <2>3 DEF FlowInv
    <2> QED
      BY <2>8, <2>9 DEF FlowInv
  <1>18. CASE ReaderRead
    <2>1. /\ reader.pc = "reading" /\ reader'.pc = "sending"
          /\ UNCHANGED <<chan, handler, frames, client, Taken>>
      BY <1>18 DEF ReaderRead, Taken
    <2>2. pipe.closed => handler.pc \notin Forwarding
      BY DEF PlaceInv, Forwarding
    <2>3. UNCHANGED <<Written, Channelled>> /\ Buffered = <<>>
      BY <2>1 DEF Written, Channelled, Buffered
    <2>4. CASE /\ pipe.offer # <<>> /\ reader' = [pc |-> "sending", data |-> Head(pipe.offer)]
               /\ pipe' = [pipe EXCEPT !.offer = Tail(pipe.offer)]
      <3>1. Head(pipe.offer) \notin Failures
        <4>1. Head(pipe.offer) \in AllParts
          BY <2>4, <1>t, HeadTailProperties
        <4> QED
          BY <4>1, PartsAreNoFailures
      <3>2. Buffered' = <<Head(pipe.offer)>>
        BY <2>4, <3>1 DEF Buffered
      <3>3. pipe'.offer = Tail(pipe.offer)
        BY <2>4 DEF Pipes
      <3>4. Buffered' \o pipe'.offer = pipe.offer
        BY <2>4, <3>2, <3>3, <1>t, HeadThenTail
      <3>5. Buffered \o pipe.offer = pipe.offer
        BY <2>3, <1>t, ConcatEmptySeq
      <3>6. OnItsWay' = OnItsWay
        BY <2>3, <3>4, <3>5 DEF OnItsWay
      <3> QED
        BY <2>1, <3>6, FlowKept
    <2>5. CASE pipe.closed
      BY <2>1, <2>2, <2>5, FlowKept
    <2>6. CASE pipe.end # "open" /\ reader' = [pc |-> "sending", data |-> pipe.end] /\ UNCHANGED pipe
      <3>1. reader'.data \in Failures
        BY <2>6 DEF Pipes
      <3>2. Buffered' = <<>>
        BY <3>1 DEF Buffered
      <3>3. OnItsWay' = OnItsWay
        BY <2>3, <2>6, <3>2 DEF OnItsWay
      <3> QED
        BY <2>1, <3>3, FlowKept
    <2> QED
      BY <1>18, <2>4, <2>5, <2>6 DEF ReaderRead
  <1>19. CASE ReaderSend
    <2>1. /\ reader.pc = "sending" /\ reader.data \in Passed
          /\ UNCHANGED <<pipe, handler, frames, client, Taken>>
      BY <1>19 DEF ReaderSend, Taken
    <2>2. CASE StreamDone
      <3>1. handler.pc = "done" /\ handler.pc \notin Forwarding
        BY <2>2 DEF StreamDone, PlaceInv, Forwarding
      <3> QED
        BY <2>1, <3>1, FlowKept
    <2>3. CASE /\ chan.loki = <<>> /\ chan' = [chan EXCEPT !.loki = <<reader.data>>]
               /\ reader' = [reader EXCEPT !.pc = IF reader.data \in Failures THEN "done" ELSE "reading"]
      <3>1. chan'.loki = <<reader.data>> /\ Head(chan'.loki) = reader.data /\ chan'.loki # <<>>
        BY <2>3 DEF Channels
      <3>2. reader'.pc # "sending"
        BY <2>3 DEF ReaderStates
      <3>3. Channelled = <<>> /\ Buffered' = <<>> /\ Channelled' = Buffered /\ Written' = Written
        BY <2>1, <2>3, <3>1, <3>2 DEF Channelled, Buffered, Written
      <3>4. <<>> \o pipe.offer = pipe.offer /\ Buffered \o pipe.offer \in Seq(AllParts)
        BY <1>t, ConcatEmptySeq, ConcatProperties
      <3>5. <<>> \o (Buffered \o pipe.offer) = Buffered \o pipe.offer
        BY <3>4, ConcatEmptySeq
      <3>6. OnItsWay' = OnItsWay
        BY <2>1, <3>3, <3>4, <3>5 DEF OnItsWay
      <3> QED
        BY <2>1, <3>6, FlowKept
    <2> QED
      BY <1>19, <2>2, <2>3 DEF ReaderSend
  <1>20. CASE WatcherReads
    <2>1. UNCHANGED <<Taken, OnItsWay, frames, client, handler>>
      BY <1>20 DEF WatcherReads, Taken, OnItsWay, Written, Channelled, Buffered, Channels
    <2> QED
      BY <2>1, FlowKept
  <1>21. CASE HandlerSelect
    <2>1. handler.pc = "select" /\ UNCHANGED <<pipe, reader, frames, client, Taken>>
      BY <1>21 DEF HandlerSelect, Taken
    <2>2. CASE handler'.pc \notin Forwarding
      BY <2>1, <2>2, FlowKept
    <2>3. CASE handler'.pc \in Forwarding
      <3>1. /\ chan.loki # <<>> /\ Head(chan.loki) \notin Failures
            /\ handler'.pc = "writing" /\ handler'.item = Head(chan.loki)
        BY <1>21, <2>3 DEF HandlerSelect, HandlerStates, Forwarding
      <3>2. chan'.loki = <<>>
        BY <1>21, <2>3, <3>1 DEF HandlerSelect, Channels, HandlerStates, Forwarding
      <3>3. chan.loki = <<Head(chan.loki)>>
        BY <3>1 DEF Channels, Place
      <3>4. Written = <<>> /\ Channelled = <<Head(chan.loki)>>
        BY <2>1, <3>1, <3>3 DEF Written, Channelled
      <3>5. Written' = Channelled /\ Channelled' = <<>> /\ Buffered' = Buffered
        BY <2>1, <3>1, <3>2, <3>4 DEF Written, Channelled, Buffered
      <3>6. <<>> \o (Buffered \o pipe.offer) = Buffered \o pipe.offer
        BY <1>t, ConcatProperties, ConcatEmptySeq
      <3>7. <<>> \o (Channelled \o (Buffered \o pipe.offer)) = Channelled \o (Buffered \o pipe.offer)
        BY <1>t, ConcatProperties, ConcatEmptySeq
      <3>8. OnItsWay = <<>> \o (Channelled \o (Buffered \o pipe.offer))
        BY <3>4 DEF OnItsWay
      <3>9. OnItsWay' = Channelled \o (<<>> \o (Buffered \o pipe.offer))
        BY <2>1, <3>5 DEF OnItsWay
      <3>10. OnItsWay' = OnItsWay
        BY <3>6, <3>7, <3>8, <3>9
      <3>11. handler.pc \in Forwarding
        BY <2>1 DEF Forwarding
      <3> QED
        BY <2>1, <3>10, <3>11, FlowKept
    <2> QED
      BY <2>2, <2>3
  <1>22. CASE HandlerWrite
    <2>1. UNCHANGED <<pipe, reader, chan, client, Taken>>
      BY <1>22 DEF HandlerWrite, Taken
    <2>2. CASE handler.pc # "writing" \/ client # "open"
      <3>1. frames' = frames
        BY <1>22, <2>2 DEF HandlerWrite
      <3>2. handler.pc # "writing" => handler'.pc \notin Forwarding
        BY <1>22 DEF HandlerWrite, HandlerStates, Forwarding
      <3>3. handler.pc = "writing" => client = "left"
        BY <1>22, <2>2 DEF HandlerWrite, LogShape, PlaceInv
      <3> QED
        BY <2>1, <2>2, <3>1, <3>2, <3>3, FlowKept
    <2>3. CASE handler.pc = "writing" /\ client = "open"
      <3>1. frames' = Append(frames, handler.item) /\ handler.item \in AllParts
        BY <1>22, <2>3 DEF HandlerWrite, Copied
      <3>2. handler'.pc = "select"
        BY <1>22, <2>3 DEF HandlerWrite, HandlerStates
      <3>3. Written = <<handler.item>> /\ Written' = <<>> /\ UNCHANGED <<Channelled, Buffered>>
        BY <2>1, <2>3, <3>2 DEF Written, Channelled, Buffered
      <3> DEFINE rest == Channelled \o (Buffered \o pipe.offer)
      <3>4. rest \in Seq(AllParts) /\ <<>> \o rest = rest
        BY <1>t, ConcatProperties, ConcatEmptySeq
      <3>5. OnItsWay = <<handler.item>> \o rest /\ OnItsWay' = rest
        BY <2>1, <3>3, <3>4 DEF OnItsWay
      <3>6. frames \o OnItsWay = PartsUpTo(Taken) /\ frames \in Seq(AllParts)
        BY <2>3 DEF FlowInv, Forwarding
      <3>7. frames' = frames \o <<handler.item>> /\ frames' \in Seq(AllParts) /\ <<handler.item>> \in Seq(AllParts)
        BY <3>1, <3>6, AppendIsConcat
      <3> HIDE DEF rest
      <3>8. (frames \o <<handler.item>>) \o rest = frames \o (<<handler.item>> \o rest)
        BY <3>4, <3>6, <3>7, ConcatAssociative
      <3>9. frames' \o OnItsWay' = PartsUpTo(Taken)
        BY <3>5, <3>6, <3>7, <3>8
      <3>10. IsPrefix(frames', PartsUpTo(Taken))
        BY <3>4, <3>5, <3>7, <3>9, <1>t, PrefixIs
      <3> QED
        BY <2>1, <3>7, <3>9, <3>10 DEF FlowInv
    <2> QED
      BY <2>2, <2>3
  <1>23. CASE HandlerClosesPipe
    <2>1. handler'.pc \notin Forwarding
      BY <1>23 DEF HandlerClosesPipe, HandlerStates, Forwarding
    <2>2. UNCHANGED <<frames, Taken>>
      BY <1>23 DEF HandlerClosesPipe, Taken
    <2> QED
      BY <2>1, <2>2, FlowKept
  <1>24. CASE HandlerCancels
    <2>1. handler'.pc \notin Forwarding
      BY <1>24 DEF HandlerCancels, HandlerStates, Forwarding
    <2>2. UNCHANGED <<frames, Taken>>
      BY <1>24 DEF HandlerCancels, Taken
    <2> QED
      BY <2>1, <2>2, FlowKept
  <1> QED
    BY <1>1, <1>2, <1>3, <1>4, <1>5, <1>6, <1>7, <1>8, <1>9, <1>10, <1>11, <1>12, <1>13, <1>14,
       <1>15, <1>16, <1>17, <1>18, <1>19, <1>20, <1>21, <1>22, <1>23, <1>24
       DEF LogNext, Inner, Outer, Monitor, Starting, Reader, Handler

LEMMA CompleteKept ==
  ASSUME CompleteInv, Undisturbed' => Undisturbed, chan'.ws = chan.ws, watcher' = watcher,
         handler'.pc \in Forwarding <=> handler.pc \in Forwarding, AllShown => AllShown'
  PROVE  CompleteInv'
  BY DEF CompleteInv

\* The handler meets the end of the pipe when all is shown.
LEMMA AllShownAtTheEnd ==
  ASSUME LogInv, Undisturbed, handler.pc = "select", chan.loki # <<>>, Head(chan.loki) \in Failures
  PROVE  AllShown
  <1> USE DEF LogInv
  <1>1. outer.pc \in Leaving /\ reader.pc = "done"
    BY DEF EndInv, Forwarding
  <1>2. ctx = {} /\ ~ pipe.closed /\ client # "left"
    BY DEF LogShape, PlaceInv, Undisturbed
  <1>3. inner.pc = "done" /\ Taken = loki.sent
    BY <1>1, <1>2 DEF OrderInv
  <1>4. pipe.offer = <<>>
    BY <1>1 DEF EndInv, Leaving
  <1>5. Written = <<>> /\ Channelled = <<>> /\ Buffered = <<>>
    BY <1>1 DEF Written, Channelled, Buffered
  <1>6. <<>> \o <<>> = <<>>
    OBVIOUS
  <1>7. OnItsWay = <<>>
    BY <1>4, <1>5, <1>6 DEF OnItsWay
  <1>8. frames \o <<>> = frames /\ frames \o OnItsWay = PartsUpTo(Taken)
    BY <1>2, ConcatEmptySeq DEF FlowInv, Forwarding
  <1> QED
    BY <1>1, <1>3, <1>7, <1>8 DEF AllShown

LEMMA CompleteStep ==
  ASSUME LogInv, LogNext
  PROVE  CompleteInv'
  <1> USE DEF LogInv, LogShape
  <1>1. CASE Connect
    <2>1. AllShown => AllShown'
      BY <1>1 DEF Connect, AllShown, Taken
    <2>2. /\ chan'.ws = chan.ws /\ watcher' = watcher
          /\ handler'.pc \in Forwarding <=> handler.pc \in Forwarding
      BY <1>1 DEF Connect, HandlerStates, Forwarding
    <2>3. Undisturbed' => Undisturbed
      BY <1>1 DEF Connect, Undisturbed, PlaceInv
    <2> QED
      BY <2>1, <2>2, <2>3, CompleteKept
  <1>2. CASE ClientSteps
    <2>1. AllShown => AllShown'
      BY <1>2 DEF ClientSteps, AllShown, Taken
    <2>2. /\ chan'.ws = chan.ws /\ watcher' = watcher
          /\ handler'.pc \in Forwarding <=> handler.pc \in Forwarding
      BY <1>2 DEF ClientSteps
    <2>3. Undisturbed' => Undisturbed
      BY <1>2 DEF ClientSteps, Undisturbed
    <2> QED
      BY <2>1, <2>2, <2>3, CompleteKept
  <1>3. CASE PodsChange
    <2>1. AllShown => AllShown'
      BY <1>3 DEF PodsChange, AllShown, Taken
    <2>2. /\ chan'.ws = chan.ws /\ watcher' = watcher
          /\ handler'.pc \in Forwarding <=> handler.pc \in Forwarding
      BY <1>3 DEF PodsChange
    <2>3. Undisturbed' => Undisturbed
      BY <1>3 DEF PodsChange, Undisturbed
    <2> QED
      BY <2>1, <2>2, <2>3, CompleteKept
  <1>4. CASE LokiEnds
    <2>1. AllShown => AllShown'
      BY <1>4 DEF LokiEnds, AllShown, Taken, LokiStates
    <2>2. /\ chan'.ws = chan.ws /\ watcher' = watcher
          /\ handler'.pc \in Forwarding <=> handler.pc \in Forwarding
      BY <1>4 DEF LokiEnds
    <2>3. Undisturbed' => Undisturbed
      BY <1>4 DEF LokiEnds, Undisturbed
    <2> QED
      BY <2>1, <2>2, <2>3, CompleteKept
  <1>5. CASE InnerRead
    <2>1. inner.pc # "done"
      BY <1>5 DEF InnerRead
    <2>2. ~ AllShown
      BY <2>1 DEF AllShown
    <2>3. UNCHANGED <<handler, watcher, conn, ctx, client, heard>> /\ chan'.ws = chan.ws
      BY <1>5 DEF InnerRead
    <2> QED
      BY <2>2, <2>3, CompleteKept DEF Undisturbed
  <1>6. CASE InnerFails
    <2>1. inner.pc # "done"
      BY <1>6 DEF InnerFails
    <2>2. ~ AllShown
      BY <2>1 DEF AllShown
    <2>3. UNCHANGED <<handler, watcher, conn, ctx, client, heard>> /\ chan'.ws = chan.ws
      BY <1>6 DEF InnerFails
    <2> QED
      BY <2>2, <2>3, CompleteKept DEF Undisturbed
  <1>7. CASE InnerSend
    <2>1. inner.pc # "done"
      BY <1>7 DEF InnerSend
    <2>2. ~ AllShown
      BY <2>1 DEF AllShown
    <2>3. UNCHANGED <<handler, watcher, conn, ctx, client, heard>> /\ chan'.ws = chan.ws
      BY <1>7 DEF InnerSend, Channels
    <2> QED
      BY <2>2, <2>3, CompleteKept DEF Undisturbed
  <1>8. CASE OuterSelect
    <2>1. outer.pc \notin Leaving
      BY <1>8 DEF OuterSelect, Leaving
    <2>2. ~ AllShown
      BY <2>1 DEF AllShown
    <2>3. UNCHANGED <<handler, watcher, conn, ctx, client, heard>> /\ chan'.ws = chan.ws
      BY <1>8 DEF OuterSelect, Channels
    <2> QED
      BY <2>2, <2>3, CompleteKept DEF Undisturbed
  <1>9. CASE OuterWritten
    <2>1. outer.pc \notin Leaving
      BY <1>9 DEF OuterWritten, Leaving
    <2>2. ~ AllShown
      BY <2>1 DEF AllShown
    <2>3. UNCHANGED <<handler, watcher, conn, ctx, client, heard>> /\ chan'.ws = chan.ws
      BY <1>9 DEF OuterWritten
    <2> QED
      BY <2>2, <2>3, CompleteKept DEF Undisturbed
  <1>10. CASE OuterClosesTail
    <2>1. outer'.pc \in Leaving /\ outer'.msg = outer.msg /\ UNCHANGED <<inner, loki, frames>>
      BY <1>10 DEF OuterClosesTail, Leaving, OuterStates
    <2>2. AllShown => AllShown'
      BY <2>1 DEF AllShown, Taken
    <2>3. UNCHANGED <<handler, watcher, ctx, client, heard, chan>>
      BY <1>10 DEF OuterClosesTail
    <2>4. Undisturbed' => Undisturbed
      <3>1. outer.pc # "none"
        BY <1>10 DEF OuterClosesTail
      <3>2. conn # "none"
        BY <3>1 DEF PlaceInv
      <3> QED
        BY <2>3, <3>2 DEF Undisturbed
    <2> QED
      BY <2>2, <2>3, <2>4, CompleteKept
  <1>11. CASE OuterClosesPipe
    <2>1. outer'.pc \in Leaving /\ outer'.msg = outer.msg /\ UNCHANGED <<inner, loki, frames>>
      BY <1>11 DEF OuterClosesPipe, Leaving, OuterStates
    <2>2. AllShown => AllShown'
      BY <2>1 DEF AllShown, Taken
    <2>3. UNCHANGED <<handler, watcher, ctx, client, heard, chan>>
      BY <1>11 DEF OuterClosesPipe
    <2>4. Undisturbed' => Undisturbed
      <3>1. outer.pc # "none"
        BY <1>11 DEF OuterClosesPipe
      <3>2. conn # "none"
        BY <3>1 DEF PlaceInv
      <3> QED
        BY <2>3, <3>2 DEF Undisturbed
    <2> QED
      BY <2>2, <2>3, <2>4, CompleteKept
  <1>12. CASE MonitorTick
    <2>1. AllShown => AllShown'
      BY <1>12 DEF MonitorTick, AllShown, Taken
    <2>2. /\ chan'.ws = chan.ws /\ watcher' = watcher
          /\ handler'.pc \in Forwarding <=> handler.pc \in Forwarding
      BY <1>12 DEF MonitorTick
    <2>3. Undisturbed' => Undisturbed
      BY <1>12 DEF MonitorTick, Undisturbed
    <2> QED
      BY <2>1, <2>2, <2>3, CompleteKept
  <1>13. CASE MonitorStops
    <2>1. AllShown => AllShown'
      BY <1>13 DEF MonitorStops, AllShown, Taken
    <2>2. /\ chan'.ws = chan.ws /\ watcher' = watcher
          /\ handler'.pc \in Forwarding <=> handler.pc \in Forwarding
      BY <1>13 DEF MonitorStops
    <2>3. Undisturbed' => Undisturbed
      BY <1>13 DEF MonitorStops, Undisturbed
    <2> QED
      BY <2>1, <2>2, <2>3, CompleteKept
  <1>14. CASE StartApplication
    <2>1. AllShown => AllShown'
      BY <1>14 DEF StartApplication, AllShown, Taken
    <2>2. /\ chan'.ws = chan.ws /\ watcher' = watcher
          /\ handler'.pc \in Forwarding <=> handler.pc \in Forwarding
      BY <1>14 DEF StartApplication, HandlerStates, Forwarding
    <2>3. Undisturbed' => Undisturbed
      BY <1>14 DEF StartApplication, Undisturbed
    <2> QED
      BY <2>1, <2>2, <2>3, CompleteKept
  <1>15. CASE StartBuild
    <2>1. AllShown => AllShown'
      BY <1>15 DEF StartBuild, AllShown, Taken
    <2>2. /\ chan'.ws = chan.ws /\ watcher' = watcher
          /\ handler'.pc \in Forwarding <=> handler.pc \in Forwarding
      BY <1>15 DEF StartBuild, HandlerStates, Forwarding
    <2>3. Undisturbed' => Undisturbed
      BY <1>15 DEF StartBuild, Undisturbed
    <2> QED
      BY <2>1, <2>2, <2>3, CompleteKept
  <1>16. CASE DialFails
    <2>1. AllShown => AllShown'
      BY <1>16 DEF DialFails, AllShown, Taken
    <2>2. /\ chan'.ws = chan.ws /\ watcher' = watcher
          /\ handler'.pc \in Forwarding <=> handler.pc \in Forwarding
      BY <1>16 DEF DialFails, HandlerStates, Forwarding
    <2>3. Undisturbed' => Undisturbed
      BY <1>16 DEF DialFails, Undisturbed
    <2> QED
      BY <2>1, <2>2, <2>3, CompleteKept
  <1>17. CASE StartStreams
    <2>1. conn = "none" /\ chan.ws = <<>>
      BY <1>17 DEF StartStreams, PlaceInv
    <2>2. handler'.pc = "select" /\ watcher' = "reading" /\ UNCHANGED chan
      BY <1>17 DEF StartStreams, HandlerStates
    <2> QED
      BY <2>1, <2>2 DEF CompleteInv, Forwarding
  <1>18. CASE ReaderRead
    <2>1. AllShown => AllShown'
      BY <1>18 DEF ReaderRead, AllShown, Taken
    <2>2. /\ chan'.ws = chan.ws /\ watcher' = watcher
          /\ handler'.pc \in Forwarding <=> handler.pc \in Forwarding
      BY <1>18 DEF ReaderRead
    <2>3. Undisturbed' => Undisturbed
      BY <1>18 DEF ReaderRead, Undisturbed
    <2> QED
      BY <2>1, <2>2, <2>3, CompleteKept
  <1>19. CASE ReaderSend
    <2>1. AllShown => AllShown'
      BY <1>19 DEF ReaderSend, AllShown, Taken
    <2>2. /\ chan'.ws = chan.ws /\ watcher' = watcher
          /\ handler'.pc \in Forwarding <=> handler.pc \in Forwarding
      BY <1>19 DEF ReaderSend, Channels
    <2>3. Undisturbed' => Undisturbed
      BY <1>19 DEF ReaderSend, Undisturbed
    <2> QED
      BY <2>1, <2>2, <2>3, CompleteKept
  <1>20. CASE WatcherReads
    <2>1. UNCHANGED <<handler, conn, ctx, client, heard, outer, inner, loki, frames>>
      BY <1>20 DEF WatcherReads
    <2>2. Undisturbed => handler.pc \notin Forwarding
      <3> SUFFICES ASSUME Undisturbed PROVE handler.pc \in {"cancel", "done"}
        BY DEF Forwarding
      <3>1. socket # "open" /\ handler.pc # "idle"
        BY <1>20 DEF WatcherReads, Undisturbed, PlaceInv
      <3>2. socket \in {"expired", "closed"}
        BY <3>1 DEF PlaceInv
      <3> QED
        BY <3>2 DEF PlaceInv
    <2> QED
      BY <2>1, <2>2 DEF CompleteInv, Undisturbed, AllShown, Taken
  <1>21. CASE HandlerSelect
    <2>1. handler.pc = "select" /\ UNCHANGED <<watcher, conn, ctx, client, heard, outer, inner, loki, frames>>
      BY <1>21 DEF HandlerSelect
    <2>2. SUFFICES ASSUME Undisturbed PROVE CompleteInv'
      BY <2>1 DEF CompleteInv, Undisturbed
    <2>3. chan.ws = <<>> /\ watcher = "reading"
      BY <2>1, <2>2 DEF CompleteInv, Forwarding
    <2>4. chan.loki # <<>>
      BY <1>21, <2>3 DEF HandlerSelect
    <2>5. chan' = [chan EXCEPT !.loki = <<>>]
      BY <1>21, <2>3 DEF HandlerSelect
    <2>6. chan'.ws = <<>>
      BY <2>3, <2>5 DEF Channels
    <2>7. CASE Head(chan.loki) \in Failures
      <3>1. AllShown
        BY <2>1, <2>2, <2>4, <2>7, AllShownAtTheEnd
      <3>2. AllShown'
        BY <2>1, <3>1 DEF AllShown, Taken
      <3> QED
        BY <2>1, <2>3, <2>6, <3>2 DEF CompleteInv
    <2>8. CASE Head(chan.loki) \notin Failures
      <3>1. handler'.pc = "writing"
        BY <1>21, <2>3, <2>8 DEF HandlerSelect
      <3> QED
        BY <2>1, <2>3, <2>6, <3>1 DEF CompleteInv, Forwarding
    <2> QED
      BY <2>7, <2>8
  <1>22. CASE HandlerWrite
    <2>1. UNCHANGED <<watcher, chan, conn, ctx, client, heard, outer, inner, loki>>
      BY <1>22 DEF HandlerWrite
    <2>2. CASE handler.pc = "writing"
      <3>1. client # "left" => handler'.pc = "select"
        BY <1>22, <2>2 DEF HandlerWrite, HandlerStates
      <3> QED
        BY <2>1, <2>2, <3>1 DEF CompleteInv, Undisturbed, Forwarding
    <2>3. CASE handler.pc # "writing"
      <3>1. handler.pc \notin Forwarding /\ handler'.pc \notin Forwarding /\ frames' = frames
        BY <1>22, <2>3 DEF HandlerWrite, HandlerStates, Forwarding
      <3> QED
        BY <2>1, <3>1 DEF CompleteInv, Undisturbed, AllShown, Taken
    <2> QED
      BY <2>2, <2>3
  <1>23. CASE HandlerClosesPipe
    <2>1. AllShown => AllShown'
      BY <1>23 DEF HandlerClosesPipe, AllShown, Taken
    <2>2. /\ chan'.ws = chan.ws /\ watcher' = watcher
          /\ handler'.pc \in Forwarding <=> handler.pc \in Forwarding
      BY <1>23 DEF HandlerClosesPipe, HandlerStates, Forwarding
    <2>3. Undisturbed' => Undisturbed
      BY <1>23 DEF HandlerClosesPipe, Undisturbed
    <2> QED
      BY <2>1, <2>2, <2>3, CompleteKept
  <1>24. CASE HandlerCancels
    <2>1. AllShown => AllShown'
      BY <1>24 DEF HandlerCancels, AllShown, Taken
    <2>2. /\ chan'.ws = chan.ws /\ watcher' = watcher
          /\ handler'.pc \in Forwarding <=> handler.pc \in Forwarding
      BY <1>24 DEF HandlerCancels, HandlerStates, Forwarding
    <2>3. Undisturbed' => Undisturbed
      BY <1>24 DEF HandlerCancels, Undisturbed
    <2> QED
      BY <2>1, <2>2, <2>3, CompleteKept
  <1> QED
    BY <1>1, <1>2, <1>3, <1>4, <1>5, <1>6, <1>7, <1>8, <1>9, <1>10, <1>11, <1>12, <1>13, <1>14,
       <1>15, <1>16, <1>17, <1>18, <1>19, <1>20, <1>21, <1>22, <1>23, <1>24
       DEF LogNext, Inner, Outer, Monitor, Starting, Reader, Handler

-----------------------------------------------------------------------------
(* The theorem.                                                            *)

LEMMA LogStart == LogInit => LogInv
  <1> SUFFICES ASSUME LogInit PROVE LogInv
    OBVIOUS
  <1> USE DEF LogInit
  <1>1. LogShape
    BY LogStreamAssumption, EmptySeq
       DEF LogShape, LokiStates, HandlerStates, ReaderStates, OuterStates, InnerStates, Channels, Pipes, Place
  <1>2. PlaceInv
    BY DEF PlaceInv
  <1>3. Taken = 0
    BY LogStreamAssumption DEF Taken
  <1>4. OrderInv
    BY <1>3 DEF OrderInv, Leaving
  <1>5. EndInv
    BY DEF EndInv, Forwarding
  <1>6. FlowInv
    <2>1. frames = <<>> /\ <<>> \in Seq(AllParts) /\ <<>> \o <<>> = <<>>
      BY EmptySeq
    <2>2. IsPrefix(frames, PartsUpTo(Taken))
      BY <1>3, <2>1, UpToNone, PrefixIs
    <2> QED
      BY <2>1, <2>2 DEF FlowInv, Forwarding
  <1>7. CompleteInv
    BY DEF CompleteInv, Undisturbed
  <1> QED
    BY <1>1, <1>2, <1>4, <1>5, <1>6, <1>7 DEF LogInv

LEMMA LogStep == LogInv /\ [LogNext]_lvars => LogInv'
  <1> SUFFICES ASSUME LogInv, [LogNext]_lvars PROVE LogInv'
    OBVIOUS
  <1>1. CASE LogNext
    <2>1. LogShape' /\ PlaceInv' /\ OrderInv' /\ EndInv' /\ FlowInv' /\ CompleteInv'
      BY <1>1, ShapeStep, PlaceStep, OrderStep, EndStep, FlowStep, CompleteStep
    <2> QED
      BY <2>1 DEF LogInv
  <1>2. CASE UNCHANGED lvars
    <2>1. LogShape' /\ PlaceInv' /\ EndInv'
      BY <1>2 DEF lvars, LogInv, LogShape, PlaceInv, EndInv
    <2>2. OrderInv'
      BY <1>2, OrderKept DEF lvars, LogInv
    <2>3. UNCHANGED <<Taken, OnItsWay>>
      BY <1>2 DEF lvars, Taken, OnItsWay, Written, Channelled, Buffered
    <2>4. FlowInv'
      BY <1>2, <2>3, FlowKept DEF lvars, LogInv
    <2>5. CompleteInv'
      BY <1>2, <2>3, CompleteKept DEF lvars, LogInv, Undisturbed, AllShown
    <2> QED
      BY <2>1, <2>2, <2>4, <2>5 DEF LogInv
  <1> QED
    BY <1>1, <1>2

\* When the stream has ended, the browser has all that it was to have.
LEMMA LogInvIsSound == LogInv => LogsSound
  <1> SUFFICES ASSUME LogInv PROVE LogsSound
    OBVIOUS
  <1>1. LogTypeOK
    BY DEF LogInv, LogShape, LokiStates, FlowInv, LogTypeOK
  <1>2. IsPrefix(frames, PartsUpTo(loki.sent))
    <2>1. /\ frames \in Seq(AllParts) /\ IsPrefix(frames, PartsUpTo(Taken))
          /\ Taken \in Nat /\ Taken <= loki.sent /\ loki.sent \in Nat /\ loki.sent <= MaxMessages
      BY LogStreamAssumption, FlowType DEF LogInv, FlowInv, OrderInv, LogShape, LokiStates
    <2> QED
      BY <2>1, PrefixOfMore
  <1>3. ASSUME Ended, conn = "closed", "tail" \notin ctx, client = "open", ~ heard
        PROVE  frames = PartsUpTo(loki.sent)
    <2>1. Undisturbed
      BY <1>3 DEF Undisturbed
    <2>2. handler.pc \notin Forwarding
      BY <1>3 DEF Ended, Forwarding
    <2>3. AllShown
      BY <2>1, <2>2 DEF LogInv, CompleteInv
    <2> QED
      BY <2>3 DEF AllShown
  <1> QED
    BY <1>1, <1>2, <1>3 DEF LogsSound, LogsInOrder

(* What a browser receives are the parts of Loki's messages in their       *)
(* order, none lost, none twice; and all of them when it is Loki that ends *)
(* the stream.  However many messages there are, of whatever size.         *)
THEOREM LogsSoundHolds == LogSpec => []LogsSound
  <1>1. LogInit => LogInv
    BY LogStart
  <1>2. LogInv /\ [LogNext]_lvars => LogInv'
    BY LogStep
  <1>3. LogInv => LogsSound
    BY LogInvIsSound
  <1> QED
    BY <1>1, <1>2, <1>3, PTL DEF LogSpec
=============================================================================
