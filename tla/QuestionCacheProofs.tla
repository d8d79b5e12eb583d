------------------------ MODULE QuestionCacheProofs ------------------------
(***************************************************************************)
(* What is proved of QuestionCache: its types, and that the question on    *)
(* the sleeping panel is about the open book while no answer has strayed.  *)
(***************************************************************************)
EXTENDS QuestionCache, TLAPS

\* An open book is needed to ask about it.
Reads == reading => open \in Book

\* One call's answer, while it is written, is about the open book; the other
\* one's may be as well, so both hold together.
WritersAgree ==
  /\ Writing(task) => task.book = open
  /\ Writing(ask) => ask.book = open

\* While one writes, the cache is its own; otherwise a stamp that names a book
\* names the book of the cache.
CacheAgrees ==
  cache # None =>
    IF Writing(task) \/ Writing(ask) THEN cache.book = open
    ELSE stamp \in Book => stamp = cache.book

\* What the sleep screen is about to read, or has read, is about the open book.
NightAgrees ==
  /\ night \in {"unstamp", "read"} /\ cache # None => cache.book = open
  /\ shown # None => shown = open

Awake == night \in {"awake", "check", "stamp", "drop", "unstamp", "read"} => shown = None
Asleep == night # "awake" => ask = Idle /\ ~reading

IInv == /\ TypeOK /\ Reads /\ Awake /\ Asleep
        /\ ~strayed => WritersAgree /\ CacheAgrees /\ NightAgrees

-----------------------------------------------------------------------------
\* A queue of books to which a book is appended, or from which one is taken, is
\* a queue of books.
LEMMA QueueTypes ==
  ASSUME NEW S, NEW q \in Seq(S), NEW n \in Nat, Len(q) <= n
  PROVE  /\ <<>> \in Seq(S) /\ Len(<<>>) <= n
         /\ \A b \in S : Len(q) < n => Append(q, b) \in Seq(S) /\ Len(Append(q, b)) <= n
         /\ q # <<>> => Head(q) \in S /\ Tail(q) \in Seq(S) /\ Len(Tail(q)) <= n
  OBVIOUS

\* A call that ends or goes on is a call, and about the same book.
LEMMA CallTypes ==
  ASSUME NEW old \in Call, NEW new, EngageStep(old, new), old.step # "idle" => old.book \in Book
  PROVE  /\ new \in Call /\ (new.step # "idle" => new.book \in Book)
         /\ old.step # "idle" /\ (new.step # "idle" => new.book = old.book)
<1>1. CASE Ends(old, new)
  BY <1>1 DEF Ends, Call, Step, Idle
<1>2. CASE Answered(old, new)
  BY <1>2 DEF Answered, Call, Step, Idle
<1>3. CASE OpenCache(old, new)
  BY <1>3 DEF OpenCache, Call, Step, Idle
<1>4. CASE WriteCache(old, new)
  BY <1>4 DEF WriteCache, Call, Step, Idle
<1>5. CASE ShortWrite(old, new)
  BY <1>5 DEF ShortWrite, Call, Step, Idle
<1>6. CASE OpenStamp(old, new)
  BY <1>6 DEF OpenStamp, Call, Step, Idle
<1>7. CASE NoStamp(old, new)
  BY <1>7 DEF NoStamp, Call, Step, Idle
<1>8. CASE WriteStamp(old, new)
  BY <1>8 DEF WriteStamp, Call, Step, Idle
<1> QED
  BY <1>1, <1>2, <1>3, <1>4, <1>5, <1>6, <1>7, <1>8 DEF EngageStep

\* What a call does to the two files and the bookkeeping keeps their types.
LEMMA FileTypes ==
  ASSUME TypeOK, NEW old \in Call, NEW new, EngageStep(old, new), old.step # "idle" => old.book \in Book
  PROVE  /\ cache' \in [book : Book, whole : BOOLEAN] \cup {None}
         /\ stamp' \in Book \cup {None, Blank}
         /\ strayed' \in BOOLEAN /\ faults' \in Nat
<1>1. CASE Ends(old, new)
  BY <1>1 DEF Ends, TypeOK, Call, Fault, Answer
<1>2. CASE Answered(old, new)
  BY <1>2 DEF Answered, TypeOK, Call, Fault, Answer
<1>3. CASE OpenCache(old, new)
  BY <1>3 DEF OpenCache, TypeOK, Call, Fault, Answer
<1>4. CASE WriteCache(old, new)
  BY <1>4 DEF WriteCache, TypeOK, Call, Fault, Answer
<1>5. CASE ShortWrite(old, new)
  BY <1>5 DEF ShortWrite, TypeOK, Call, Fault, Answer
<1>6. CASE OpenStamp(old, new)
  BY <1>6 DEF OpenStamp, TypeOK, Call, Fault, Answer
<1>7. CASE NoStamp(old, new)
  BY <1>7 DEF NoStamp, TypeOK, Call, Fault, Answer
<1>8. CASE WriteStamp(old, new)
  BY <1>8 DEF WriteStamp, TypeOK, Call, Fault, Answer
<1> QED
  BY <1>1, <1>2, <1>3, <1>4, <1>5, <1>6, <1>7, <1>8 DEF EngageStep

\* The queue after a book is left.
LEMMA QueueRecallTypes ==
  ASSUME TypeOK, Reads, QueueRecall
  PROVE  queue' \in Seq(Book) /\ Len(queue') <= QueueSize
  BY QuestionCacheAssumption, QueueTypes DEF QueueRecall, TypeOK, Reads

\* Every step keeps the types.
LEMMA TypeStep == ASSUME TypeOK, Reads, Next PROVE TypeOK'
<1> USE QuestionCacheAssumption DEF TypeOK
<1>1. ASSUME NEW b \in Book, OpenBook(b) PROVE TypeOK'
  BY <1>1 DEF OpenBook
<1>2. CASE LeaveBook
  <2>1. queue' \in Seq(Book) /\ Len(queue') <= QueueSize
    BY <1>2, QueueRecallTypes DEF LeaveBook
  <2>2. reading' \in BOOLEAN
    BY <1>2 DEF LeaveBook
  <2>3. UNCHANGED <<open, kept, cache, stamp, task, ask, night, shown, strayed, cut, faults>>
    BY <1>2, Zenon DEF LeaveBook
  <2> QED
    BY <2>1, <2>2, <2>3
<1>3. CASE AskRecall
  <2>1. ask' = [step |-> "sent", book |-> open] /\ open \in Book
    BY <1>3 DEF AskRecall, Reads
  <2>2. ask' \in Call /\ ask'.step = "sent" /\ ask'.book \in Book
    BY <2>1 DEF Call, Step
  <2>3. reading' \in BOOLEAN
    BY <1>3 DEF AskRecall
  <2>4. UNCHANGED <<open, kept, queue, cache, stamp, task, night, shown, strayed, cut, faults>>
    BY <1>3, Zenon DEF AskRecall
  <2> QED
    BY <2>2, <2>3, <2>4
<1>4. CASE TakeJob
  BY <1>4, QueueTypes DEF TakeJob, Call, Step
<1>5. CASE Background
  <2>1. EngageStep(task, task')
    BY <1>5 DEF Background
  <2> QED
    BY <1>5, <2>1, CallTypes, FileTypes DEF Background
<1>6. CASE Foreground
  <2>1. EngageStep(ask, ask')
    BY <1>6 DEF Foreground
  <2> QED
    BY <1>6, <2>1, CallTypes, FileTypes DEF Foreground
<1>7. CASE GoToSleep
  BY <1>7, QueueRecallTypes DEF GoToSleep
<1>8. CASE CheckCache \/ ReadStamp \/ DropCache \/ DropStamp
  BY <1>8 DEF CheckCache, ReadStamp, DropCache, DropStamp, Sleepy
<1>9. CASE ReadCache
  BY <1>9 DEF ReadCache, Sleepy
<1>10. CASE Boot
  <2>1. queue' \in Seq(Book) /\ Len(queue') <= QueueSize
    BY <1>10, QueueTypes DEF Boot
  <2>2. Idle \in Call /\ Idle.step = "idle"
    BY DEF Idle, Call, Step
  <2> QED
    BY <1>10, <2>1, <2>2 DEF Boot
<1> QED
  BY <1>1, <1>2, <1>3, <1>4, <1>5, <1>6, <1>7, <1>8, <1>9, <1>10 DEF Next

-----------------------------------------------------------------------------
\* The three that do not speak of the question.
LEMMA FrameStep == ASSUME IInv, [Next]_vars PROVE Reads' /\ Awake' /\ Asleep'
<1> USE DEF IInv, Reads, Awake, Asleep
<1>1. ASSUME NEW b \in Book, OpenBook(b) PROVE Reads' /\ Awake' /\ Asleep'
  BY <1>1 DEF OpenBook, Free
<1>2. CASE LeaveBook \/ AskRecall \/ TakeJob
  BY <1>2 DEF LeaveBook, AskRecall, TakeJob, Free
<1>3. CASE Background
  BY <1>3 DEF Background
<1>4. CASE Foreground
  <2>1. ask.step # "idle"
    BY <1>4, CallTypes DEF Foreground, TypeOK
  <2> QED
    BY <1>4, <2>1 DEF Foreground, Idle
<1>5. CASE GoToSleep
  BY <1>5 DEF GoToSleep, Free
<1>6. CASE CheckCache \/ ReadStamp \/ DropCache \/ DropStamp \/ ReadCache
  BY <1>6 DEF CheckCache, ReadStamp, DropCache, DropStamp, ReadCache, Sleepy, TypeOK
<1>7. CASE Boot
  BY <1>7 DEF Boot, TypeOK
<1>8. CASE UNCHANGED vars
  BY <1>8 DEF vars
<1> QED
  BY <1>1, <1>2, <1>3, <1>4, <1>5, <1>6, <1>7, <1>8 DEF Next

\* A step of the background task's call: what it writes is about the open book,
\* or it has strayed.
LEMMA BackgroundAgrees ==
  ASSUME IInv, Background, ~strayed'
  PROVE  WritersAgree' /\ CacheAgrees' /\ NightAgrees'
<1> USE QuestionCacheAssumption DEF IInv, Background, WritersAgree, CacheAgrees, NightAgrees, Writing, Idle
<1> task \in Call /\ ask \in Call /\ (open \in Book \/ open = None)
  BY DEF TypeOK
<1>1. CASE Ends(task, task') \/ Answered(task, task')
  BY <1>1 DEF Ends, Answered, Call
<1>2. CASE OpenCache(task, task')
  BY <1>2 DEF OpenCache, Answer, Call
<1>3. CASE WriteCache(task, task')
  BY <1>3 DEF WriteCache, Answer, Call
<1>4. CASE ShortWrite(task, task')
  BY <1>4 DEF ShortWrite, Call
<1>5. CASE OpenStamp(task, task')
  BY <1>5 DEF OpenStamp, Call
<1>6. CASE NoStamp(task, task')
  BY <1>6 DEF NoStamp, Call, TypeOK
<1>7. CASE WriteStamp(task, task')
  BY <1>7 DEF WriteStamp, Call, TypeOK
<1> QED
  BY <1>1, <1>2, <1>3, <1>4, <1>5, <1>6, <1>7 DEF EngageStep

\* A step of the foreground's call, likewise.
LEMMA ForegroundAgrees ==
  ASSUME IInv, Foreground, ~strayed'
  PROVE  WritersAgree' /\ CacheAgrees' /\ NightAgrees'
<1> USE QuestionCacheAssumption DEF IInv, Foreground, WritersAgree, CacheAgrees, NightAgrees, Writing, Idle
<1> task \in Call /\ ask \in Call /\ (open \in Book \/ open = None)
  BY DEF TypeOK
<1>1. CASE Ends(ask, ask') \/ Answered(ask, ask')
  BY <1>1 DEF Ends, Answered, Call
<1>2. CASE OpenCache(ask, ask')
  BY <1>2 DEF OpenCache, Answer, Call
<1>3. CASE WriteCache(ask, ask')
  BY <1>3 DEF WriteCache, Answer, Call
<1>4. CASE ShortWrite(ask, ask')
  BY <1>4 DEF ShortWrite, Call
<1>5. CASE OpenStamp(ask, ask')
  BY <1>5 DEF OpenStamp, Call
<1>6. CASE NoStamp(ask, ask')
  BY <1>6 DEF NoStamp, Call, TypeOK
<1>7. CASE WriteStamp(ask, ask')
  BY <1>7 DEF WriteStamp, Call, TypeOK
<1> QED
  BY <1>1, <1>2, <1>3, <1>4, <1>5, <1>6, <1>7 DEF EngageStep

LEMMA AgreesStep ==
  ASSUME IInv, [Next]_vars, ~strayed'
  PROVE  WritersAgree' /\ CacheAgrees' /\ NightAgrees'
<1> USE DEF IInv, WritersAgree, CacheAgrees, NightAgrees, Writing
<1>1. ASSUME NEW b \in Book, OpenBook(b) PROVE WritersAgree' /\ CacheAgrees' /\ NightAgrees'
  BY <1>1 DEF OpenBook, Free, Idle, Awake
<1>2. CASE LeaveBook
  BY <1>2 DEF LeaveBook
<1>3. CASE AskRecall
  BY <1>3 DEF AskRecall, Free, Idle
<1>4. CASE TakeJob
  BY <1>4 DEF TakeJob, Idle
<1>5. CASE Background
  BY <1>5, BackgroundAgrees
<1>6. CASE Foreground
  BY <1>6, ForegroundAgrees
<1>7. CASE GoToSleep
  BY <1>7 DEF GoToSleep, Free
<1>8. CASE CheckCache
  BY <1>8 DEF CheckCache, Sleepy
<1>9. CASE ReadStamp
  BY <1>9 DEF ReadStamp, Sleepy
<1>10. CASE DropCache
  BY <1>10, QuestionCacheAssumption DEF DropCache, Sleepy
<1>11. CASE DropStamp
  BY <1>11, QuestionCacheAssumption DEF DropStamp, Sleepy
<1>12. CASE ReadCache
  BY <1>12 DEF ReadCache, Sleepy
<1>13. CASE Boot
  BY <1>13 DEF Boot, Idle
<1>14. CASE UNCHANGED vars
  BY <1>14 DEF vars
<1> QED
  BY <1>1, <1>2, <1>3, <1>4, <1>5, <1>6, <1>7, <1>8, <1>9, <1>10, <1>11, <1>12, <1>13, <1>14 DEF Next

LEMMA IInvInit == Init => IInv
<1> SUFFICES ASSUME Init PROVE IInv
  OBVIOUS
<1>1. <<>> \in Seq(Book) /\ Len(<<>>) <= QueueSize
  BY QuestionCacheAssumption
<1>2. Idle \in Call /\ Idle.step = "idle"
  BY DEF Idle, Call, Step
<1>3. TypeOK
  BY <1>1, <1>2 DEF Init, TypeOK
<1> QED
  BY <1>3, QuestionCacheAssumption
  DEF Init, IInv, Reads, Awake, Asleep, WritersAgree, CacheAgrees, NightAgrees, Writing, Idle

LEMMA IInvStep == IInv /\ [Next]_vars => IInv'
<1> SUFFICES ASSUME IInv, [Next]_vars PROVE IInv'
  OBVIOUS
<1>1. TypeOK'
  <2>1. CASE Next
    BY <2>1, TypeStep DEF IInv
  <2>2. CASE UNCHANGED vars
    BY <2>2 DEF vars, IInv, TypeOK
  <2> QED
    BY <2>1, <2>2
<1> QED
  BY <1>1, FrameStep, AgreesStep DEF IInv

\* The inductive invariant holds.
THEOREM Inductive == Spec => []IInv
  BY IInvInit, IInvStep, PTL DEF Spec

\* Types, for any number of books, of jobs and of faults.
THEOREM TypeCorrect == Spec => []TypeOK
<1>1. IInv => TypeOK
  BY DEF IInv
<1> QED
  BY <1>1, Inductive, PTL

\* The question on the sleeping panel is about the open book while none strayed.
THEOREM QuestionOfItsBook == Spec => []ShowsItsBook
<1>1. IInv => ShowsItsBook
  BY DEF IInv, ShowsItsBook, NightAgrees
<1> QED
  BY <1>1, Inductive, PTL

-----------------------------------------------------------------------------
\* A question is half on the card only while a call writes it or after a cut.
LEMMA HalfStep == IInv /\ HalfOnlyWhileWriting /\ [Next]_vars => HalfOnlyWhileWriting'
<1> SUFFICES ASSUME IInv, HalfOnlyWhileWriting, [Next]_vars PROVE HalfOnlyWhileWriting'
  OBVIOUS
<1> USE QuestionCacheAssumption DEF HalfOnlyWhileWriting, Idle
<1> task \in Call /\ ask \in Call
  BY DEF IInv, TypeOK
<1>1. ASSUME NEW b \in Book, OpenBook(b) PROVE HalfOnlyWhileWriting'
  BY <1>1 DEF OpenBook
<1>2. CASE LeaveBook \/ AskRecall \/ TakeJob
  BY <1>2 DEF LeaveBook, AskRecall, TakeJob, Free
<1>3. CASE Background
  BY <1>3 DEF Background, EngageStep, Ends, Answered, OpenCache, WriteCache, ShortWrite, OpenStamp, NoStamp,
              WriteStamp, Answer, Call
<1>4. CASE Foreground
  BY <1>4 DEF Foreground, EngageStep, Ends, Answered, OpenCache, WriteCache, ShortWrite, OpenStamp, NoStamp,
              WriteStamp, Answer, Call
<1>5. CASE GoToSleep
  BY <1>5 DEF GoToSleep
<1>6. CASE CheckCache \/ ReadStamp \/ DropCache \/ DropStamp \/ ReadCache
  BY <1>6 DEF CheckCache, ReadStamp, DropCache, DropStamp, ReadCache, Sleepy
<1>7. CASE Boot
  BY <1>7 DEF Boot, Writing
<1>8. CASE UNCHANGED vars
  BY <1>8 DEF vars
<1> QED
  BY <1>1, <1>2, <1>3, <1>4, <1>5, <1>6, <1>7, <1>8 DEF Next

\* A half-written question is taken back, unless the power goes.
THEOREM HalfIsTakenBack == Spec => []HalfOnlyWhileWriting
<1>1. Init => HalfOnlyWhileWriting
  BY DEF Init, HalfOnlyWhileWriting
<1> QED
  BY <1>1, HalfStep, Inductive, PTL DEF Spec
=============================================================================
