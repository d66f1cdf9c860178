---------------------------- MODULE LogDelivery ----------------------------
(***************************************************************************)
(* The way of a log line from the threads of the router to the service:    *)
(* netlib's logger puts it through a stream buffer that all threads share, *)
(* socksify's logger keeps it, and the log thread of Socksifier takes what *)
(* is kept and raises LogEvent, until the Socksifier is disposed of.       *)
(***************************************************************************)
EXTENDS Naturals, Sequences

CONSTANTS
  LogWriter,   \* threads of the router
  LogLimit,    \* log_limit_
  MaxLines     \* bound: messages that are logged

ASSUME LogAssumption == LogLimit \in Nat /\ MaxLines \in Nat

VARIABLES
  emitting,     \* the message a thread puts to the stream, or 0
  lineBuffer,   \* buffer_ of log_streambuf: the messages its text comes from
  logStorage,   \* log_storage_
  logEvent,     \* log_event_ of Socksifier: reset, set or closed
  logThread,    \* where log_thread() is
  logActive,    \* logger_thread_active_
  attached,    \* the service has attached LogPrinter
  moved,        \* managed_log_list
  closing,      \* how far !Socksifier() has come
  messages,     \* history: messages so far
  logged,       \* history: the lines in the order they were kept
  printed,      \* history: the lines the service printed
  unheard       \* history: lines that were raised before LogPrinter was there

logVars == <<emitting, lineBuffer, logStorage, logEvent, logThread, logActive,
             attached, moved, closing, messages, logged, printed, unheard>>

\* A message is written in two pieces, its prefix and its text.
LogLine == UNION {[1 .. n -> 1 .. MaxLines] : n \in 1 .. 2}

LogTypeOK ==
  /\ emitting \in [LogWriter -> 0 .. MaxLines]
  /\ lineBuffer \in Seq(1 .. MaxLines)
  /\ logStorage \in Seq(LogLine) /\ moved \in Seq(LogLine)
  /\ logEvent \in {"reset", "set", "closed"}
  /\ logThread \in {"waiting", "woken", "raising", "ended"}
  /\ logActive \in BOOLEAN /\ attached \in BOOLEAN
  /\ closing \in {"no", "flagged", "signalled", "joined", "stopped", "closed"}
  /\ messages \in 0 .. MaxLines /\ unheard \in 0 .. MaxLines
  /\ logged \in Seq(LogLine) /\ printed \in Seq(LogLine)

LogInit ==
  /\ emitting = [w \in LogWriter |-> 0]
  /\ lineBuffer = <<>> /\ logStorage = <<>> /\ moved = <<>>
  /\ logEvent = "reset"
  /\ logThread = "waiting" /\ logActive = TRUE
  /\ attached = FALSE
  /\ closing = "no"
  /\ messages = 0 /\ unheard = 0
  /\ logged = <<>> /\ printed = <<>>

----------------------------------------------------------------------------
(* Writing *)

\* log_printer(): SetEvent on a handle that is closed has no effect.
StoreLine(line) ==
  /\ logStorage' = Append(logStorage, line)
  /\ logged' = Append(logged, line)
  /\ logEvent' = IF Len(logStorage') > LogLimit /\ logEvent = "reset" THEN "set" ELSE logEvent

Emits(w) == emitting[w] # 0

NoLock == TRUE

\* An osyncstream has the stream to itself.
StreamFree == \A w \in LogWriter : ~Emits(w)

\* print_log() of a component whose level lets the message pass: its
\* osyncstream waits for the stream.  stop() ends the threads of the router.
BeginEmit(w) ==
  /\ StreamFree
  /\ messages < MaxLines /\ closing \notin {"stopped", "closed"}
  /\ messages' = messages + 1
  /\ emitting' = [emitting EXCEPT ![w] = messages']
  /\ UNCHANGED <<lineBuffer, logStorage, logEvent, logThread, logActive, attached,
                 moved, closing, logged, printed, unheard>>

\* overflow() for the characters of a message, in two pieces: with the second
\* comes the end of the line, which keeps the line and empties the buffer.
EmitPiece(w) ==
  /\ Emits(w)
  /\ IF lineBuffer = <<>>
     THEN /\ lineBuffer' = <<emitting[w]>>
          /\ UNCHANGED <<emitting, logStorage, logged, logEvent>>
     ELSE /\ StoreLine(Append(lineBuffer, emitting[w]))
          /\ lineBuffer' = <<>>
          /\ emitting' = [emitting EXCEPT ![w] = 0]
  /\ UNCHANGED <<logThread, logActive, attached, moved, closing, messages, printed,
                 unheard>>

\* print_log() of socksify_unmanaged passes the stream by; its message is
\* kept under the lock of the logger alone, whatever is being emitted.
WrapperPrints ==
  /\ messages < MaxLines /\ closing # "closed"
  /\ messages' = messages + 1
  /\ StoreLine(<<messages'>>)
  /\ UNCHANGED <<emitting, lineBuffer, logThread, logActive, attached, moved, closing,
                 printed, unheard>>

----------------------------------------------------------------------------
(* log_thread() *)

\* WaitOne(log_event_interval_) ends by the event, which it resets, or by the
\* interval.
WaitOne ==
  /\ logThread = "waiting" /\ logEvent # "closed"
  /\ logThread' = "woken"
  /\ logEvent' = "reset"
  /\ UNCHANGED <<emitting, lineBuffer, logStorage, logActive, attached, moved, closing,
                 messages, logged, printed, unheard>>

\* read_log() moves the lines out.
ReadLog ==
  /\ logThread = "woken"
  /\ IF ~logActive
     THEN logThread' = "ended" /\ UNCHANGED <<moved, logStorage>>
     ELSE IF logStorage = <<>>
          THEN logThread' = "waiting" /\ UNCHANGED <<moved, logStorage>>
          ELSE /\ logThread' = "raising"
               /\ moved' = logStorage
               /\ logStorage' = <<>>
  /\ UNCHANGED <<emitting, lineBuffer, logEvent, logActive, attached, closing, messages,
                 logged, printed, unheard>>

\* LogEvent calls LogPrinter, or nobody.
RaiseLogEvent ==
  /\ logThread = "raising"
  /\ IF attached
     THEN printed' = printed \o moved /\ UNCHANGED unheard
     ELSE unheard' = unheard + Len(moved) /\ UNCHANGED printed
  /\ moved' = <<>>
  /\ logThread' = IF logActive THEN "waiting" ELSE "ended"
  /\ UNCHANGED <<emitting, lineBuffer, logStorage, logEvent, logActive, attached, closing,
                 messages, logged>>

----------------------------------------------------------------------------
(* The service: GetInstance(), which has started the log thread, then        *)
(* LogEvent += LogPrinter, and Dispose() in the end                          *)

Listen ==
  /\ ~attached /\ closing = "no"
  /\ attached' = TRUE
  /\ UNCHANGED <<emitting, lineBuffer, logStorage, logEvent, logThread, logActive, moved,
                 closing, messages, logged, printed, unheard>>

\* Join() waits for the log thread; stop() for the threads of the router.
Finalize ==
  \/ /\ closing = "no" /\ attached
     /\ closing' = "flagged" /\ logActive' = FALSE /\ UNCHANGED logEvent
  \/ /\ closing = "flagged"
     /\ closing' = "signalled" /\ logEvent' = "set" /\ UNCHANGED logActive
  \/ /\ closing = "signalled" /\ logThread = "ended"
     /\ closing' = "joined" /\ UNCHANGED <<logActive, logEvent>>
  \/ /\ closing = "joined" /\ StreamFree
     /\ closing' = "stopped" /\ UNCHANGED <<logActive, logEvent>>
  \/ /\ closing = "stopped"
     /\ closing' = "closed" /\ logEvent' = "closed" /\ UNCHANGED logActive

Dispose ==
  /\ Finalize
  /\ UNCHANGED <<emitting, lineBuffer, logStorage, logThread, attached, moved, messages,
                 logged, printed, unheard>>

LogNext ==
  \/ \E w \in LogWriter : BeginEmit(w) \/ EmitPiece(w)
  \/ WrapperPrints
  \/ WaitOne \/ ReadLog \/ RaiseLogEvent
  \/ Listen \/ Dispose

LogSpec == LogInit /\ [][LogNext]_logVars

----------------------------------------------------------------------------
(* Properties *)

\* Threads that log at once do not mix their lines in the buffer they share.
LinesAreWhole ==
  \A i \in DOMAIN logged : \A k \in DOMAIN logged[i] : logged[i][k] = logged[i][1]

\* Every line that was kept is printed once, in its order, or is still on its
\* way; only those that were raised before LogPrinter was there are not.
LinesArriveInOrder ==
  printed \o moved \o logStorage = SubSeq(logged, unheard + 1, Len(logged))

\* The log thread has ended when its event is closed.
EventOutlivesThread == logEvent = "closed" => logThread = "ended"

\* The log the service prints is the log that was written.
LogIsDelivered == LinesAreWhole /\ LinesArriveInOrder /\ EventOutlivesThread
=============================================================================
