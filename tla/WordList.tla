------------------------------- MODULE WordList -------------------------------
(***************************************************************************)
(* The words that were looked up while reading, and the review of them     *)
(* (WordListStore, WordSchedule, WordListActivity).                        *)
(*                                                                         *)
(* The list is read from the card once a boot, at the first call, and      *)
(* written whole at every change.  A review takes the words that are due   *)
(* and the day when it opens, and grades them by name, one after another.  *)
(***************************************************************************)
EXTENDS Integers, FiniteSets, SequencesExt

CONSTANTS Headword,   \* of the dictionary
          Cut,        \* of each, its first forty bytes
          MAX_WORDS,
          BOX_DAYS,   \* the lags of the boxes, in days
          NoReview, Torn,
          MaxDay,      \* bound: the last day
          MaxFailures  \* bound: reads and writes of the card that fail

BOX_COUNT == Len(BOX_DAYS)
RETIRED   == BOX_COUNT
Word      == Range(Cut)
Day       == -1..MaxDay
Entry     == [word : Word, added : Day, due : Int, box : 0..RETIRED]
Review    == [day : Day, queue : Seq(Word), at : Nat \ {0}]

ASSUME WordListAssumption ==
  /\ DOMAIN Cut = Headword /\ \A t \in Headword : Cut[t] \in Headword => Cut[Cut[t]] = Cut[t]
  /\ MAX_WORDS \in Nat \ {0} /\ MaxDay \in Nat /\ MaxFailures \in Nat
  /\ BOX_DAYS \in Seq(Nat \ {0}) /\ BOX_DAYS # <<>>
  /\ NoReview \notin Review /\ Torn \notin Seq(Entry)

VARIABLES
  words,    \* WordListStore::words
  loaded,
  listFile, \* the file: a list, or what a failed write left of one
  today,    \* what the clock says, -1 when it does not run
  review,   \* the review that is open: its day, its queue and its place in it
  steady,   \* history: the clock has run, and never backwards
  unsaved,  \* history: memory and card have parted by a failure
  failures

wordVars == <<words, loaded, listFile, today, review, steady, unsaved, failures>>

-----------------------------------------------------------------------------
IsList(l) == l \in Seq(Entry) /\ Len(l) <= MAX_WORDS

WordsTypeOK ==
  /\ IsList(words) /\ loaded \in BOOLEAN
  /\ listFile # Torn => IsList(listFile)
  /\ today \in Day
  /\ review \in Review \cup {NoReview}
  /\ review # NoReview => review.at <= Len(review.queue) + 1
  /\ steady \in BOOLEAN /\ unsaved \in BOOLEAN /\ failures \in 0..MaxFailures

WordsInit ==
  /\ words = <<>> /\ loaded = FALSE /\ listFile = <<>>
  /\ today \in Day /\ review = NoReview
  /\ steady = (today >= 0) /\ unsaved = FALSE /\ failures = 0

-----------------------------------------------------------------------------
\* The list.

Find(list, t)  == SelectInSeq(list, LAMBDA e : e.word = t)
HasWord(list, t) == Find(list, t) # 0

\* The day of a box's lag from a day; -1 without a clock.
Due(box, day) == IF day < 0 THEN -1 ELSE day + BOX_DAYS[(IF box >= RETIRED THEN BOX_COUNT ELSE box + 1)]
IsDue(e, day) == e.box < RETIRED /\ (e.due < 0 \/ day < 0 \/ e.due <= day)
InBox(e, box, day) == [e EXCEPT !.box = box, !.due = Due(box, day)]

\* wordsched::next.
\* Mutant: the word stays due.
GradedKeepingDay(e, remembered, day) ==
  [e EXCEPT !.box = IF ~remembered THEN 0 ELSE IF @ >= RETIRED THEN RETIRED ELSE @ + 1]
Graded(e, remembered, day) ==
  InBox(e, IF ~remembered THEN 0 ELSE IF e.box >= RETIRED THEN RETIRED ELSE e.box + 1, day)

\* Room for one more: without the first learned word, or else the first one.
\* Mutant: one too late.
RoomLate(list) == IF Len(list) <= MAX_WORDS THEN list ELSE Tail(list)
Room(list) ==
  LET learned == SelectInSeq(list, LAMBDA e : e.box >= RETIRED)
  IN  IF Len(list) < MAX_WORDS THEN list
      ELSE RemoveAt(list, IF learned # 0 THEN learned ELSE 1)

\* ensureLoaded: what the list is taken to be, and the failures that took.
OnCard == IF listFile = Torn THEN <<>> ELSE listFile
Knows(list, n) ==
  \/ loaded /\ list = words /\ n = 0
  \/ ~loaded /\ list = OnCard /\ n = 0
  \/ ~loaded /\ list = <<>> /\ n = 1

\* saveToFile, whose result nobody looks at.
SaveList(list, n) ==
  /\ words' = list /\ loaded' = TRUE
  /\ \/ listFile' = list /\ unsaved' = FALSE /\ failures' = failures + n
     \/ listFile' \in {listFile, Torn} /\ unsaved' = TRUE /\ failures' = failures + n + 1
  /\ failures' <= MaxFailures
KeepList(list, n) ==
  /\ words' = list /\ loaded' = TRUE /\ UNCHANGED listFile
  /\ unsaved' = (unsaved \/ n > 0) /\ failures' = failures + n
  /\ failures' <= MaxFailures

Lists == {words, OnCard, <<>>}

-----------------------------------------------------------------------------
\* add, from the dictionary of the reader.  A word that is held starts over; it
\* is compared whole, and kept cut.
Added(list, t) ==
  IF HasWord(list, t)
  THEN [list EXCEPT ![Find(list, t)] = InBox(@, 0, today)]
  ELSE Append(Room(list), [word |-> Cut[t], added |-> today, due |-> Due(0, today), box |-> 0])
Add(t) ==
  /\ review = NoReview
  /\ \E list \in Lists, n \in 0..1 : Knows(list, n) /\ SaveList(Added(list, t), n)
  /\ UNCHANGED <<today, review, steady>>

\* The sleep screen looks for a word that is due (DataSource).
Glance ==
  /\ \E list \in Lists, n \in 0..1 : Knows(list, n) /\ KeepList(list, n)
  /\ UNCHANGED <<today, review, steady>>

\* onEnter, loadQueue: the words that are due, by their day, in any order of those
\* of a day.
DueIn(list, day) == {i \in DOMAIN list : IsDue(list[i], day)}
Queues(list, day) ==
  {q \in SetToSeqs(DueIn(list, day)) : \A i, j \in DOMAIN q : i < j => list[q[i]].due <= list[q[j]].due}

OpenReview ==
  /\ review = NoReview
  /\ \E list \in Lists, n \in 0..1 :
       /\ Knows(list, n) /\ KeepList(list, n)
       /\ \E q \in Queues(list, today) :
            review' = [day |-> today, queue |-> [i \in DOMAIN q |-> list[q[i]].word], at |-> 1]
  /\ UNCHANGED <<today, steady>>

Reviewing == review # NoReview /\ review.at <= Len(review.queue)
Browsing  == review # NoReview /\ review.at > Len(review.queue)

\* gradeCurrent, advance.
\* Mutant: the queue stays where it is.
GradeInPlace(remembered) ==
  /\ Reviewing
  /\ LET i == Find(words, review.queue[review.at])
     IN  SaveList([words EXCEPT ![i] = Graded(@, remembered, review.day)], 0)
  /\ UNCHANGED <<today, review, steady>>
Grade(remembered) ==
  /\ Reviewing
  /\ LET i == Find(words, review.queue[review.at])
     IN  IF i = 0 THEN UNCHANGED <<words, loaded, listFile, unsaved, failures>>
         ELSE SaveList([words EXCEPT ![i] = Graded(@, remembered, review.day)], 0)
  /\ review' = [review EXCEPT !.at = @ + 1]
  /\ UNCHANGED <<today, steady>>

\* removeWord, confirmed in the list.
\* Mutant: in memory only.
RemoveWordUnsaved(i) ==
  /\ Browsing /\ i \in DOMAIN words
  /\ words' = RemoveAt(words, Find(words, words[i].word))
  /\ UNCHANGED <<loaded, listFile, today, review, steady, unsaved, failures>>
RemoveWord(i) ==
  /\ Browsing /\ i \in DOMAIN words
  /\ SaveList(RemoveAt(words, Find(words, words[i].word)), 0)
  /\ UNCHANGED <<today, review, steady>>

LeaveReview ==
  /\ review # NoReview /\ review' = NoReview
  /\ UNCHANGED <<words, loaded, listFile, today, steady, unsaved, failures>>

\* Midnight, a clock that is set, a clock that lost its power.
ClockMoves(d) ==
  /\ d # today /\ today' = d /\ steady' = (steady /\ d > today)
  /\ UNCHANGED <<words, loaded, listFile, review, unsaved, failures>>

\* A restart, or a cut while nothing is written; one during a write is a failed
\* write and a restart.
Restart ==
  /\ loaded /\ loaded' = FALSE /\ words' = <<>> /\ review' = NoReview
  /\ UNCHANGED <<listFile, today, steady, unsaved, failures>>

WordsNext ==
  \/ Glance \/ OpenReview \/ LeaveReview \/ Restart
  \/ \E t \in Headword : Add(t)
  \/ \E r \in BOOLEAN : Grade(r)
  \/ \E i \in 1..MAX_WORDS : RemoveWord(i)
  \/ \E d \in Day : ClockMoves(d)

WordsSpec == WordsInit /\ [][WordsNext]_wordVars

-----------------------------------------------------------------------------
\* Headwords that nothing else is cut to; the list has one entry of each.
Plain == {t \in Headword : \A u \in Headword : Cut[u] = t <=> u = t}

\* "The queue is finite and empties" (WordListStore.h): at any time in a review
\* with a clock, the words of the list that are due are those the queue has left,
\* so at its end none is (WordListActivity::loadQueue, gradeCurrent).
QueueIsWhatIsDue ==
  review # NoReview /\ review.day >= 0 =>
    {t \in Plain : \E e \in Range(words) : e.word = t /\ IsDue(e, review.day)}
      = Plain \cap {review.queue[i] : i \in review.at..Len(review.queue)}

\* As long as the clock runs forward, a word gets to a box no sooner than the
\* lags of all boxes before it have gone by since it was looked up: there is no
\* way to be graded early or twice (wordsched::next, WordListStore::add and grade).
LagsUpTo[box \in 0..RETIRED] == IF box = 0 THEN 0 ELSE LagsUpTo[box - 1] + BOX_DAYS[box]
LearnedOverItsIntervals ==
  steady => \A e \in Range(words) : e.word \in Plain => today >= e.added + LagsUpTo[e.box]

\* A restart finds the list as it was, unless the card failed: every change was
\* written before the call that made it returned (WordListStore.cpp).
RestartKeepsTheList == [][loaded /\ ~loaded' /\ ~unsaved => OnCard' = words]_wordVars
=============================================================================
