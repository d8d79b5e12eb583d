---------------------------- MODULE QuestionCache ----------------------------
(***************************************************************************)
(* The question a relay's agent has asked about a book, kept on the card   *)
(* for the sleep screen (InkAgentClient::engage, dropEngageCacheUnlessFor, *)
(* SleepActivity).                                                         *)
(*                                                                         *)
(* Leaving a book queues a question for the background task; the reader    *)
(* can also ask for one and wait.  Both write the answer to engage.json    *)
(* and then, into engage.book, the path of the book that is open by then.  *)
(* The sleep screen compares that stamp with the book that is open, drops  *)
(* what is not about it, and shows the rest.                               *)
(***************************************************************************)
EXTENDS Naturals, Sequences

CONSTANTS Book, None,
          Blank,      \* a stamp file with nothing in it
          QueueSize,  \* xQueueCreate: 2
          MaxFaults   \* bound: card operations that fail

ASSUME QuestionCacheAssumption ==
  None \notin Book /\ Blank \notin Book /\ None # Blank /\ QueueSize \in Nat /\ MaxFaults \in Nat

VARIABLES
  open,     \* APP_STATE.openEpubPath in memory
  kept,     \* and in state.json
  reading,  \* a reader activity is in front
  cache,    \* engage.json: the book its question is about, and whether it is whole
  stamp,    \* engage.book
  queue,    \* the background task's jobs, by book
  task,     \* the background task's call of engage
  ask,      \* the foreground's
  night,    \* the main task on its way to sleep
  shown,    \* the book whose question is on the sleeping panel
  strayed,  \* history: a question was written with another book open, or not stamped
  cut,      \* history: the power went while one was being written
  faults

vars == <<open, kept, reading, cache, stamp, queue, task, ask, night, shown, strayed, cut, faults>>

-----------------------------------------------------------------------------
Idle    == [step |-> "idle", book |-> None]
Step    == {"idle", "sent", "answered", "opened", "written", "stamping"}
Call    == [step : Step, book : Book \cup {None}]
Writing(call) == call.step \in {"opened", "written", "stamping"}
Answer(b, whole) == [book |-> b, whole |-> whole]

TypeOK ==
  /\ open \in Book \cup {None} /\ kept \in Book \cup {None} /\ reading \in BOOLEAN
  /\ cache \in [book : Book, whole : BOOLEAN] \cup {None}
  /\ stamp \in Book \cup {None, Blank}
  /\ queue \in Seq(Book) /\ Len(queue) <= QueueSize
  /\ task \in Call /\ (task.step # "idle" => task.book \in Book)
  /\ ask \in Call /\ (ask.step # "idle" => ask.book \in Book)
  /\ night \in {"awake", "check", "stamp", "drop", "unstamp", "read", "asleep"}
  /\ shown \in Book \cup {None}
  /\ strayed \in BOOLEAN /\ cut \in BOOLEAN /\ faults \in Nat

Init ==
  /\ open = None /\ kept = None /\ reading = FALSE
  /\ cache = None /\ stamp = None
  /\ queue = <<>> /\ task = Idle /\ ask = Idle
  /\ night = "awake" /\ shown = None
  /\ strayed = FALSE /\ cut = FALSE /\ faults = 0

Fault == faults < MaxFaults /\ faults' = faults + 1
Free  == night = "awake" /\ ask = Idle

-----------------------------------------------------------------------------
\* The main task opens and leaves books.

\* ReaderActivity::onEnter.
OpenBook(b) ==
  /\ Free /\ ~reading
  /\ open' = b /\ kept' = b /\ reading' = TRUE
  /\ strayed' = (strayed \/ (Writing(task) /\ task.book # b))
  /\ UNCHANGED <<cache, stamp, queue, task, ask, night, shown, cut, faults>>

\* onExit, queueBackgroundRecall, submitRecall: not when the reader did not opt
\* in, nor twice within the throttle's time, nor into a full queue.
\* Mutant: the queue takes one job more.
QueueRecallBeyond ==
  \/ reading /\ Len(queue) <= QueueSize /\ queue' = Append(queue, open)
  \/ UNCHANGED queue
QueueRecall ==
  \/ reading /\ Len(queue) < QueueSize /\ queue' = Append(queue, open)
  \/ UNCHANGED queue

LeaveBook ==
  /\ Free /\ reading /\ reading' = FALSE /\ QueueRecall
  /\ UNCHANGED <<open, kept, cache, stamp, task, ask, night, shown, strayed, cut, faults>>

\* The recall of AskBookActivity, for which launchAskBook lets go of the chapter,
\* so that nothing is queued; the main task is in it until the call ends, and
\* its request waits for the relay.
AskRecall ==
  /\ Free /\ reading /\ task.step = "idle"
  /\ ask' = [step |-> "sent", book |-> open] /\ reading' = FALSE
  /\ UNCHANGED <<open, kept, queue, cache, stamp, task, night, shown, strayed, cut, faults>>

-----------------------------------------------------------------------------
\* engage, for either caller.  The background task has the relay for the whole
\* call, the foreground for the request alone.

TakeJob ==
  /\ task = Idle /\ queue # <<>> /\ ask.step # "sent"
  /\ task' = [step |-> "sent", book |-> Head(queue)] /\ queue' = Tail(queue)
  /\ UNCHANGED <<open, kept, reading, cache, stamp, ask, night, shown, strayed, cut, faults>>

\* One step of a call: old is what it is before, new what it is after.
Ends(old, new) ==
  /\ old.step \in {"sent", "answered"} /\ new = Idle
  /\ UNCHANGED <<cache, stamp, strayed, faults>>

Answered(old, new) ==
  /\ old.step = "sent" /\ new = [old EXCEPT !.step = "answered"]
  /\ UNCHANGED <<cache, stamp, strayed, faults>>

\* Opening for writing truncates.
OpenCache(old, new) ==
  /\ old.step = "answered" /\ new = [old EXCEPT !.step = "opened"]
  /\ cache' = Answer(old.book, FALSE)
  /\ strayed' = (strayed \/ old.book # open)
  /\ UNCHANGED <<stamp, faults>>

\* A file that was removed meanwhile stays removed.
WriteCache(old, new) ==
  /\ old.step = "opened" /\ new = [old EXCEPT !.step = "written"]
  /\ cache' = IF cache = None THEN None ELSE Answer(old.book, TRUE)
  /\ UNCHANGED <<stamp, strayed, faults>>

\* Mutant: a short write is only reported.
ShortWriteKept(old, new) ==
  /\ old.step = "opened" /\ Fault /\ new = Idle
  /\ UNCHANGED <<cache, stamp, strayed>>
ShortWrite(old, new) ==
  /\ old.step = "opened" /\ Fault /\ new = Idle
  /\ cache' = None
  /\ UNCHANGED <<stamp, strayed>>

OpenStamp(old, new) ==
  /\ old.step = "written" /\ new = [old EXCEPT !.step = "stamping"]
  /\ stamp' = Blank
  /\ UNCHANGED <<cache, strayed, faults>>

NoStamp(old, new) ==
  /\ old.step = "written" /\ Fault /\ new = Idle
  /\ strayed' = (strayed \/ stamp # open)
  /\ UNCHANGED <<cache, stamp>>

WriteStamp(old, new) ==
  /\ old.step = "stamping" /\ new = Idle
  /\ stamp' = IF open = None THEN Blank ELSE open
  /\ UNCHANGED <<cache, strayed, faults>>

EngageStep(old, new) ==
  \/ Ends(old, new) \/ Answered(old, new)
  \/ OpenCache(old, new) \/ WriteCache(old, new) \/ ShortWrite(old, new)
  \/ OpenStamp(old, new) \/ NoStamp(old, new) \/ WriteStamp(old, new)

Background ==
  /\ EngageStep(task, task')
  /\ UNCHANGED <<open, kept, reading, queue, ask, night, shown, cut>>

Foreground ==
  /\ EngageStep(ask, ask')
  /\ UNCHANGED <<open, kept, reading, queue, task, night, shown, cut>>

-----------------------------------------------------------------------------
\* Going to sleep: enterDeepSleep, then SleepActivity::readCachedAgentScreen.

Sleepy(from, to) ==
  /\ night = from /\ night' = to
  /\ UNCHANGED <<open, kept, reading, queue, task, ask, strayed, cut, faults>>

GoToSleep ==
  /\ Free /\ night' = "check"
  /\ kept' = open /\ reading' = FALSE /\ QueueRecall
  /\ UNCHANGED <<open, cache, stamp, task, ask, shown, strayed, cut, faults>>

CheckCache ==
  /\ Sleepy("check", IF cache = None THEN "read" ELSE "stamp")
  /\ UNCHANGED <<cache, stamp, shown>>

\* Mutant: an unstamped question is let pass.
ReadStampOrNone ==
  /\ Sleepy("stamp", IF stamp \in {open, None, Blank} THEN "read" ELSE "drop")
  /\ UNCHANGED <<cache, stamp, shown>>
ReadStamp ==
  /\ Sleepy("stamp", IF stamp \in Book /\ stamp = open THEN "read" ELSE "drop")
  /\ UNCHANGED <<cache, stamp, shown>>

DropCache == Sleepy("drop", "unstamp") /\ cache' = None /\ UNCHANGED <<stamp, shown>>
DropStamp == Sleepy("unstamp", "read") /\ stamp' = None /\ UNCHANGED <<cache, shown>>

\* A question that is not whole does not parse.
ReadCache ==
  /\ Sleepy("read", "asleep")
  /\ shown' = IF cache # None /\ cache.whole THEN cache.book ELSE None
  /\ UNCHANGED <<cache, stamp>>

-----------------------------------------------------------------------------
\* The chip starts anew: out of deep sleep, after a power cut, after an ask has
\* used the radio.  It goes home, or back to the book, which is forgotten until
\* it has loaded.
Boot ==
  /\ \/ open' = kept /\ kept' = kept /\ reading' = FALSE
     \/ kept # None /\ open' = kept /\ kept' = kept /\ reading' = TRUE
     \/ kept # None /\ open' = None /\ kept' = None /\ reading' = FALSE
  /\ queue' = <<>> /\ task' = Idle /\ ask' = Idle
  /\ night' = "awake" /\ shown' = None
  /\ cut' = (cut \/ Writing(task) \/ Writing(ask))
  /\ strayed' = (strayed \/ Writing(task) \/ Writing(ask))
  /\ UNCHANGED <<cache, stamp, faults>>

Next ==
  \/ \E b \in Book : OpenBook(b)
  \/ LeaveBook \/ AskRecall \/ TakeJob \/ Background \/ Foreground
  \/ GoToSleep \/ CheckCache \/ ReadStamp \/ DropCache \/ DropStamp \/ ReadCache
  \/ Boot

Spec == Init /\ [][Next]_vars

-----------------------------------------------------------------------------
\* The question on the sleeping panel is about the book that is open, however the
\* two writers, the sleep screen's reading and dropping and the opening of books
\* interleave - as long as no answer came with another book open and every
\* question was stamped (engage, readCachedAgentScreen).
ShowsItsBook == shown # None /\ ~strayed => shown = open

\* "Record which book the question is about, so it can be dropped when the reader
\* moves on" (InkAgentClient.cpp:259-260): a question that was written and stamped
\* has the stamp of its book.  It does not hold: the stamp is the book that is open
\* when the answer has come (264), which may be another one by then, and the sleep
\* screen shows the question for that one.
RecordsItsBook ==
  cache # None /\ cache.whole /\ stamp \in Book /\ ~Writing(task) /\ ~Writing(ask) /\ ~cut
    => stamp = cache.book

\* "A half-written screen is worse than none" (InkAgentClient.cpp:253): one is on
\* the card only while it is being written, or after the power went.
HalfOnlyWhileWriting ==
  cache # None /\ ~cache.whole => task.step = "opened" \/ ask.step = "opened" \/ cut
=============================================================================
