------------------------------- MODULE LogStream -------------------------------
(***************************************************************************)
(* One log stream: a browser's WebSocket on one side, a tail request to    *)
(* Loki on the other, and six goroutines in between.                       *)
(*                                                                         *)
(*   Loki -> inner -> msgChan -> outer -> io.Pipe -> reader -> lokiChan    *)
(*        -> handler -> browser -> watcher -> wsChan -> handler            *)
(*                                                                         *)
(* and, for the logs of an application, a monitor that looks after the     *)
(* pods.  The code is written twice, once per kind of stream; the two      *)
(* differ in how a stream starts and in the monitor.                       *)
(*                                                                         *)
(* A message of Loki is a number; Parts says how many reads of the pipe it *)
(* takes: one, or more when it exceeds the 32 KB of the reader's buffer.   *)
(* A part <<m, k>> is what a frame to the browser carries.  Loki sends     *)
(* text; what is no text would be passed over by the outer goroutine.      *)
(***************************************************************************)
EXTENDS Naturals, Sequences, SequencesExt

CONSTANTS
  MaxMessages,   \* messages Loki sends
  Parts,         \* reads of the pipe a message takes
  MaxEvents,     \* what happens on its own: the browser and the pods change, the tail ends
  Eof, Closed, Broken,   \* how a read fails: a normal end, a closed end of ours, anything else
  Nothing        \* no message

Failures == {Eof, Closed, Broken}

\* A failure is no message, no part of one, and not the state of what is open.
ASSUME LogStreamAssumption ==
  /\ MaxMessages \in Nat /\ MaxEvents \in Nat
  /\ Parts \in [1..MaxMessages -> Nat \ {0}]
  /\ \A f \in Failures : f \notin Nat /\ f \notin Nat \X Nat /\ f # "open"
  /\ Nothing \notin Nat

VARIABLES
  kind,      \* "application" or "build"
  client,    \* the browser: "away", "open", "stalled" (alive, but does not read) or "left"
  heard,     \* the browser has sent a message of its own
  events,
  pods,      \* the application has running pods
  loki,      \* [sent, end]: messages that have arrived, how the tail has ended
  conn,      \* the connection to Loki
  socket,    \* the connection to the browser, as the server has left it
  handler,   \* [pc, item]: the handler of the request
  reader,    \* [pc, data]: the goroutine on the pipe and its buffer
  watcher,   \* the goroutine on the browser's connection
  outer,     \* [pc, msg]: the goroutine that writes to the pipe
  inner,     \* [pc, msg]: the goroutine on Loki's connection
  monitor,   \* the goroutine that looks after the pods
  chan,      \* [loki, msg, ws]: the three channels, each with one place
  pipe,      \* [offer, end, closed]: what the writer offers, its end, closed by its reader
  ctx,       \* the contexts that are cancelled, of {"stream", "tail"}
  frames     \* the parts the browser has received

lvars == <<kind, client, heard, events, pods, loki, conn, socket, handler, reader, watcher,
           outer, inner, monitor, chan, pipe, ctx, frames>>

PartsOf(m) == [k \in 1..Parts[m] |-> <<m, k>>]
PartsUpTo(n) == FlattenSeq([m \in 1..n |-> PartsOf(m)])
AllParts == UNION {{<<m, k>> : k \in 1..Parts[m]} : m \in 1..MaxMessages}

\* What Kubernetes answers when it is asked for running pods.
CheckApplicationPodsRunning == pods

\* The context of the goroutines on Loki's side: the monitor can cancel it alone.
TailDone == ctx # {}
StreamDone == "stream" \in ctx

LogInit ==
  /\ kind \in {"application", "build"}
  /\ client = "away" /\ heard = FALSE /\ events = 0
  /\ pods = TRUE
  /\ loki = [sent |-> 0, end |-> "open"]
  /\ conn = "none" /\ socket = "none"
  /\ handler = [pc |-> "idle", item |-> Nothing]
  /\ reader = [pc |-> "none", data |-> Nothing]
  /\ outer = [pc |-> "none", msg |-> Nothing]
  /\ inner = [pc |-> "none", msg |-> Nothing]
  /\ watcher = "none" /\ monitor = "none"
  /\ chan = [loki |-> <<>>, msg |-> <<>>, ws |-> <<>>]
  /\ pipe = [offer |-> <<>>, end |-> "open", closed |-> FALSE]
  /\ ctx = {}
  /\ frames = <<>>

-----------------------------------------------------------------------------
(* The environment: the browser, the pods and Loki.                        *)

\* A browser with a valid token is upgraded to a WebSocket.
Connect ==
  /\ handler.pc = "idle"
  /\ handler' = [handler EXCEPT !.pc = "starting"]
  /\ client' = "open" /\ socket' = "open"
  /\ UNCHANGED <<kind, heard, events, pods, loki, conn, reader, watcher, outer, inner, monitor, chan, pipe, ctx, frames>>

ClientSteps ==
  /\ events < MaxEvents /\ events' = events + 1
  /\ \/ client = "open" /\ client' \in {"left", "stalled"} /\ UNCHANGED heard
     \/ client = "open" /\ heard' = TRUE /\ UNCHANGED client
     \/ client = "stalled" /\ client' \in {"open", "left"} /\ UNCHANGED heard
  /\ UNCHANGED <<kind, pods, loki, conn, socket, handler, reader, watcher, outer, inner, monitor, chan, pipe, ctx, frames>>

PodsChange ==
  /\ events < MaxEvents /\ events' = events + 1
  /\ client # "away" /\ kind = "application"
  /\ pods' = ~pods
  /\ UNCHANGED <<kind, client, heard, loki, conn, socket, handler, reader, watcher, outer, inner, monitor, chan, pipe, ctx, frames>>

LokiEnds ==
  /\ events < MaxEvents /\ events' = events + 1
  /\ conn = "open" /\ loki.end = "open"
  /\ \E how \in {Eof, Broken} : loki' = [loki EXCEPT !.end = how]
  /\ UNCHANGED <<kind, client, heard, pods, conn, socket, handler, reader, watcher, outer, inner, monitor, chan, pipe, ctx, frames>>

-----------------------------------------------------------------------------
(* Loki's side: the inner and the outer goroutine, and the monitor.        *)

\* ReadMessage returns Loki's next message (Loki may have none) ...
InnerRead ==
  /\ inner.pc = "reading"
  /\ loki.sent < MaxMessages /\ loki.end = "open"
  /\ inner' = [pc |-> "sending", msg |-> loki.sent + 1]
  /\ loki' = [loki EXCEPT !.sent = @ + 1]
  /\ UNCHANGED <<kind, client, heard, events, pods, conn, socket, handler, reader, watcher, outer, monitor, chan, pipe, ctx, frames>>

\* ... the end of the tail, or an error once the connection is closed here.
InnerFails ==
  /\ inner.pc = "reading"
  /\ \/ conn = "open" /\ loki.end # "open" /\ inner' = [pc |-> "sending", msg |-> loki.end]
     \/ conn = "closed" /\ inner' = [pc |-> "sending", msg |-> Closed]
  /\ UNCHANGED <<kind, client, heard, events, pods, loki, conn, socket, handler, reader, watcher, outer, monitor, chan, pipe, ctx, frames>>

InnerSend ==
  /\ inner.pc = "sending"
  /\ \/ /\ chan.msg = <<>>
        /\ chan' = [chan EXCEPT !.msg = <<inner.msg>>]
        /\ inner' = [inner EXCEPT !.pc = IF inner.msg \in Failures THEN "done" ELSE "reading"]
     \/ /\ TailDone
        /\ inner' = [inner EXCEPT !.pc = "done"]
        /\ UNCHANGED chan
  /\ UNCHANGED <<kind, client, heard, events, pods, loki, conn, socket, handler, reader, watcher, outer, monitor, pipe, ctx, frames>>

\* The outer goroutine's select.
OuterSelect ==
  /\ outer.pc = "select"
  /\ \/ /\ TailDone
        /\ outer' = [outer EXCEPT !.pc = "closeTail"]
        /\ UNCHANGED <<chan, pipe>>
     \/ /\ chan.msg # <<>>
        /\ chan' = [chan EXCEPT !.msg = <<>>]
        /\ LET msg == Head(chan.msg)
           IN  IF msg \in Failures
               THEN \* an abnormal end is handed to the pipe before the clean-up
                    /\ outer' = [outer EXCEPT !.pc = "closeTail"]
                    /\ pipe' = IF msg = Eof THEN pipe ELSE [pipe EXCEPT !.end = Broken]
               ELSE /\ outer' = [pc |-> "writing", msg |-> msg]
                    /\ pipe' = [pipe EXCEPT !.offer = PartsOf(msg)]
  /\ UNCHANGED <<kind, client, heard, events, pods, loki, conn, socket, handler, reader, watcher, inner, monitor, ctx, frames>>

\* pw.Write returns when all is read, or when the reading end is closed.
OuterWritten ==
  /\ outer.pc = "writing"
  /\ \/ pipe.offer = <<>> /\ outer' = [outer EXCEPT !.pc = "select"] /\ UNCHANGED pipe
     \/ /\ pipe.closed
        /\ outer' = [outer EXCEPT !.pc = "closeTail"]
        /\ pipe' = [pipe EXCEPT !.offer = <<>>]
  /\ UNCHANGED <<kind, client, heard, events, pods, loki, conn, socket, handler, reader, watcher, inner, monitor, chan, ctx, frames>>

\* Deferred: read deadline, close frame, Close.
OuterClosesTail ==
  /\ outer.pc = "closeTail"
  /\ conn' = "closed"
  /\ outer' = [outer EXCEPT !.pc = "closePipe"]
  /\ UNCHANGED <<kind, client, heard, events, pods, loki, socket, handler, reader, watcher, inner, monitor, chan, pipe, ctx, frames>>

\* Deferred: pw.Close, which keeps an error that has been set.
OuterClosesPipe ==
  /\ outer.pc = "closePipe"
  /\ pipe' = [pipe EXCEPT !.end = IF @ = "open" THEN Eof ELSE @]
  /\ outer' = [outer EXCEPT !.pc = "done"]
  /\ UNCHANGED <<kind, client, heard, events, pods, loki, conn, socket, handler, reader, watcher, inner, monitor, chan, ctx, frames>>

\* Every 30 seconds; a check that fails or finds pods changes nothing.
MonitorTick ==
  /\ monitor = "running" /\ ~CheckApplicationPodsRunning
  /\ monitor' = "done"
  /\ ctx' = ctx \cup {"tail"}
  /\ UNCHANGED <<kind, client, heard, events, pods, loki, conn, socket, handler, reader, watcher, outer, inner, chan, pipe, frames>>

MonitorStops ==
  /\ monitor = "running" /\ TailDone
  /\ monitor' = "done"
  /\ UNCHANGED <<kind, client, heard, events, pods, loki, conn, socket, handler, reader, watcher, outer, inner, chan, pipe, ctx, frames>>

-----------------------------------------------------------------------------
(* The browser's side: the handler and its two goroutines.                 *)

\* The use case of the application's logs: the project exists and has running pods.
StartApplication ==
  /\ kind = "application" /\ handler.pc = "starting"
  /\ \E found \in BOOLEAN :
       handler' = [handler EXCEPT !.pc = IF found /\ CheckApplicationPodsRunning THEN "dialling" ELSE "refusing"]
  /\ UNCHANGED <<kind, client, heard, events, pods, loki, conn, socket, reader, watcher, outer, inner, monitor, chan, pipe, ctx, frames>>

\* The use case of a build's logs: there is an active build, or else a latest one, and it
\* has a pipeline run.
StartBuild ==
  /\ kind = "build" /\ handler.pc = "starting"
  /\ \E found \in BOOLEAN : handler' = [handler EXCEPT !.pc = IF found THEN "dialling" ELSE "refusing"]
  /\ UNCHANGED <<kind, client, heard, events, pods, loki, conn, socket, reader, watcher, outer, inner, monitor, chan, pipe, ctx, frames>>

\* No connection to Loki: the handler will write an error and be done.
DialFails ==
  /\ handler.pc = "dialling"
  /\ handler' = [handler EXCEPT !.pc = "refusing"]
  /\ UNCHANGED <<kind, client, heard, events, pods, loki, conn, socket, reader, watcher, outer, inner, monitor, chan, pipe, ctx, frames>>

\* Connected to Loki: all goroutines start.
StartStreams ==
  /\ handler.pc = "dialling"
  /\ handler' = [handler EXCEPT !.pc = "select"]
  /\ conn' = "open"
  /\ outer' = [outer EXCEPT !.pc = "select"]
  /\ inner' = [inner EXCEPT !.pc = "reading"]
  /\ reader' = [reader EXCEPT !.pc = "reading"]
  /\ watcher' = "reading"
  /\ monitor' = IF kind = "application" THEN "running" ELSE "none"
  /\ UNCHANGED <<kind, client, heard, events, pods, loki, socket, chan, pipe, ctx, frames>>

\* lokiStream.Read: a part of what is offered, the end of the pipe, or an error once the
\* handler has closed it.
ReaderRead ==
  /\ reader.pc = "reading"
  /\ \/ /\ pipe.offer # <<>> /\ ~pipe.closed
        /\ reader' = [pc |-> "sending", data |-> Head(pipe.offer)]
        /\ pipe' = [pipe EXCEPT !.offer = Tail(@)]
     \/ /\ pipe.closed
        /\ reader' = [pc |-> "sending", data |-> Closed]
        /\ UNCHANGED pipe
     \/ /\ ~pipe.closed /\ pipe.end # "open"
        /\ reader' = [pc |-> "sending", data |-> pipe.end]
        /\ UNCHANGED pipe
  /\ UNCHANGED <<kind, client, heard, events, pods, loki, conn, socket, handler, watcher, outer, inner, monitor, chan, ctx, frames>>

ReaderSend ==
  /\ reader.pc = "sending"
  /\ \/ /\ chan.loki = <<>>
        /\ chan' = [chan EXCEPT !.loki = <<reader.data>>]
        /\ reader' = [reader EXCEPT !.pc = IF reader.data \in Failures THEN "done" ELSE "reading"]
     \/ /\ StreamDone
        /\ reader' = [reader EXCEPT !.pc = "done"]
        /\ UNCHANGED chan
  /\ UNCHANGED <<kind, client, heard, events, pods, loki, conn, socket, handler, watcher, outer, inner, monitor, pipe, ctx, frames>>

\* wsConn.ReadMessage: any message of the browser, its departure, or the handler's clean-up
\* wake the watcher, which sends once and ends.
WatcherReads ==
  /\ watcher = "reading"
  /\ heard \/ client = "left" \/ socket # "open"
  /\ watcher' = "done"
  /\ chan' = [chan EXCEPT !.ws = <<"gone">>]
  /\ UNCHANGED <<kind, client, heard, events, pods, loki, conn, socket, handler, reader, outer, inner, monitor, pipe, ctx, frames>>

\* Mutant: the data is not copied out of the reader's buffer.
SharedBuffer(item) == IF item \in Failures THEN item ELSE reader.data
\* The bytes of a message: a copy of what the reader's buffer held.
Copied(item) == item

\* The handler's select.
HandlerSelect ==
  /\ handler.pc = "select"
  /\ \/ /\ chan.loki # <<>>
        /\ chan' = [chan EXCEPT !.loki = <<>>]
        /\ LET item == Head(chan.loki)
           IN  handler' = [pc |-> IF item \notin Failures THEN "writing"
                                  ELSE IF item = Eof THEN "closePipe" ELSE "reporting",
                           item |-> item]
     \/ /\ chan.ws # <<>>
        /\ chan' = [chan EXCEPT !.ws = <<>>]
        /\ handler' = [handler EXCEPT !.pc = "closePipe"]
  /\ UNCHANGED <<kind, client, heard, events, pods, loki, conn, socket, reader, watcher, outer, inner, monitor, pipe, ctx, frames>>

\* WriteMessage has no deadline: it blocks while the browser does not read.  To a browser
\* that has left it may still succeed for a while, into the buffers of the network.
HandlerWrite ==
  /\ handler.pc \in {"writing", "reporting", "refusing"}
  /\ client # "stalled"
  /\ LET next == CASE handler.pc = "writing" -> {"select"} \cup (IF client = "left" THEN {"closePipe"} ELSE {})
                   [] handler.pc = "reporting" -> {"closePipe"}
                   [] handler.pc = "refusing" -> {"cancel"}
     IN  \E pc \in next : handler' = [handler EXCEPT !.pc = pc]
  /\ frames' = IF handler.pc = "writing" /\ client = "open" THEN Append(frames, Copied(handler.item)) ELSE frames
  /\ UNCHANGED <<kind, client, heard, events, pods, loki, conn, socket, reader, watcher, outer, inner, monitor, chan, pipe, ctx>>

\* Mutant: the pipe is not closed, as if the end of the context were enough.
HandlerKeepsPipe ==
  /\ handler.pc = "closePipe"
  /\ socket' = "expired"
  /\ handler' = [handler EXCEPT !.pc = "cancel"]
  /\ UNCHANGED <<kind, client, heard, events, pods, loki, conn, reader, watcher, outer, inner, monitor, chan, pipe, ctx, frames>>

\* Deferred, in this order: read deadline of the browser's connection, the pipe ...
HandlerClosesPipe ==
  /\ handler.pc = "closePipe"
  /\ socket' = "expired"
  /\ pipe' = [pipe EXCEPT !.closed = TRUE]
  /\ handler' = [handler EXCEPT !.pc = "cancel"]
  /\ UNCHANGED <<kind, client, heard, events, pods, loki, conn, reader, watcher, outer, inner, monitor, chan, ctx, frames>>

\* Mutant: no deferred cancel.
HandlerCancelsNothing ==
  /\ handler.pc = "cancel"
  /\ socket' = "closed"
  /\ handler' = [handler EXCEPT !.pc = "done"]
  /\ UNCHANGED <<kind, client, heard, events, pods, loki, conn, reader, watcher, outer, inner, monitor, chan, pipe, ctx, frames>>

\* ... close frame (with a deadline) and Close of the browser's connection, the context of
\* the stream.  After a refusal, only these.
HandlerCancels ==
  /\ handler.pc = "cancel"
  /\ ctx' = ctx \cup {"stream"}
  /\ socket' = "closed"
  /\ handler' = [handler EXCEPT !.pc = "done"]
  /\ UNCHANGED <<kind, client, heard, events, pods, loki, conn, reader, watcher, outer, inner, monitor, chan, pipe, frames>>

-----------------------------------------------------------------------------
Inner == InnerFails \/ InnerSend
Outer == OuterSelect \/ OuterWritten \/ OuterClosesTail \/ OuterClosesPipe
Monitor == MonitorTick \/ MonitorStops
Reader == ReaderRead \/ ReaderSend
Starting == StartApplication \/ StartBuild \/ DialFails \/ StartStreams
Handler == HandlerSelect \/ HandlerWrite \/ HandlerClosesPipe \/ HandlerCancels

LogNext ==
  \/ Connect \/ ClientSteps \/ PodsChange \/ LokiEnds \/ InnerRead
  \/ Inner \/ Outer \/ Monitor \/ Starting \/ Reader \/ WatcherReads \/ Handler

LogSpec == LogInit /\ [][LogNext]_lvars

\* Every goroutine runs on.  Not the start: connecting to Loki has no time limit.
LogFairness ==
  /\ WF_lvars(Inner) /\ WF_lvars(Outer) /\ WF_lvars(Monitor)
  /\ WF_lvars(Reader) /\ WF_lvars(WatcherReads) /\ WF_lvars(Handler)

-----------------------------------------------------------------------------
Goroutines == {reader.pc, watcher, outer.pc, inner.pc, monitor}
\* Nothing of the stream is left: no goroutine, no tail that Loki counts.
Ended == handler.pc = "done" /\ Goroutines \subseteq {"none", "done"} /\ conn # "open"

(* A stream has nothing in it but parts of Loki's messages.                *)
LogTypeOK ==
  /\ kind \in {"application", "build"}
  /\ client \in {"away", "open", "stalled", "left"}
  /\ loki.sent \in 0..MaxMessages /\ loki.end \in {"open", Eof, Broken}
  /\ conn \in {"none", "open", "closed"} /\ socket \in {"none", "open", "expired", "closed"}
  /\ ctx \subseteq {"stream", "tail"}
  /\ frames \in Seq(AllParts)

(* The browser receives Loki's messages in order, none twice, none         *)
(* skipped, although they pass two channels, a pipe and a reused buffer;   *)
(* and all of them when it is Loki that ends the stream.                   *)
LogsInOrder ==
  /\ IsPrefix(frames, PartsUpTo(loki.sent))
  /\ Ended /\ loki.end # "open" /\ conn = "closed" /\ "tail" \notin ctx /\ client = "open" /\ ~heard
       => frames = PartsUpTo(loki.sent)

(* Both.                                                                   *)
LogsSound == LogTypeOK /\ LogsInOrder

\* What has to end a stream that has started: the browser leaves or speaks, Loki ends the
\* tail, the handler is done, or the application has no pods (which may come back).
MustEnd ==
  /\ conn # "none"
  /\ \/ client = "left" \/ heard \/ loki.end # "open" \/ handler.pc = "done"
     \/ kind = "application" /\ ~pods

(* A stream that has to end does, with all its goroutines and its tail, as *)
(* soon as the browser does not keep the handler in a write: no goroutine  *)
(* waits for another one that is gone.                                     *)
StreamsEnd == MustEnd ~> (Ended \/ client = "stalled" \/ ~MustEnd)
=============================================================================
