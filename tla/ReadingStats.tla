----------------------------- MODULE ReadingStats -----------------------------
(***************************************************************************)
(* What the reader keeps of a sitting with a book: the pages, the sitting, *)
(* the minutes of the day and the book (flushSessionStats of               *)
(* EpubReaderActivity, ReadingStatsStore, DayLog).                         *)
(*                                                                         *)
(* A sitting is written in pieces.  The store is read from the card once a *)
(* boot and written whole with each piece; what a piece did not bring out  *)
(* yet is in the reader's counters, and goes with a restart.               *)
(***************************************************************************)
EXTENDS Integers, FiniteSets

CONSTANTS Book,
          MAX_BOOKS,
          DAYS,         \* slots of the day log
          MAX_MINUTES,  \* UINT16_MAX
          FlushTurns,   \* kStatsFlushTurns
          None, Torn,
          MaxDay,       \* bound: the last day
          MaxTurns,     \* bound: pages turned
          MaxFaults     \* bound: reads and writes of the card that fail

VARIABLES
  store,    \* the ReadingStatsStore in memory
  loaded,
  card,     \* its file, or what a failed write left of it
  sitting,  \* the reader's counters while a book is open
  today,    \* what the clock says, -1 when it does not run
  read,     \* history: pages turned, of all sittings
  sat,      \* history: sittings in which a page was turned
  lost,     \* history: pages turned that went with a restart before they were written
  missed,   \* history: sittings of which nothing had been written then
  faults

vars == <<store, loaded, card, sitting, today, read, sat, lost, missed, faults>>

-----------------------------------------------------------------------------
Day     == 0..MaxDay
Minutes == 0..MAX_MINUTES
\* recorded is history: all minutes that were ever added for a day.
Store   == [pages : Nat, sessions : Nat, lastDay : Day \cup {-1}, minutes : [0..DAYS - 1 -> Minutes],
            books : [Book -> Day \cup {-1, None}], recorded : [Day -> Nat]]
Sitting == [book : Book, turns : Nat, stored : Nat, counted : BOOLEAN]
Fresh   == [pages |-> 0, sessions |-> 0, lastDay |-> -1, minutes |-> [i \in 0..DAYS - 1 |-> 0],
            books |-> [b \in Book |-> None], recorded |-> [d \in Day |-> 0]]

ASSUME ReadingStatsAssumption ==
  /\ IsFiniteSet(Book)
  /\ MAX_BOOKS \in Nat \ {0} /\ DAYS \in Nat \ {0} /\ MAX_MINUTES \in Nat \ {0} /\ FlushTurns \in Nat \ {0}
  /\ MaxDay \in Nat /\ MaxTurns \in Nat /\ MaxFaults \in Nat
  /\ None \notin Int /\ None \notin Sitting /\ Torn \notin Store

TypeOK ==
  /\ store \in Store /\ loaded \in BOOLEAN
  /\ card \in Store \cup {Torn}
  /\ sitting \in Sitting \cup {None}
  /\ today \in Day \cup {-1}
  /\ read \in Nat /\ sat \in Nat /\ lost \in Nat /\ missed \in Nat /\ faults \in Nat

Init ==
  /\ store = Fresh /\ loaded = FALSE /\ card = Fresh
  /\ sitting = None /\ today \in Day \cup {-1}
  /\ read = 0 /\ sat = 0 /\ lost = 0 /\ missed = 0 /\ faults = 0

-----------------------------------------------------------------------------
\* DayLog.

Least(x, y) == IF x <= y THEN x ELSE y
Slot(day)   == day % DAYS
InWindow(s, day) == 0 <= day /\ s.lastDay >= 0 /\ day <= s.lastDay /\ day > s.lastDay - DAYS
On(s, day)  == IF InWindow(s, day) THEN s.minutes[Slot(day)] ELSE 0

\* The slots of the days that were skipped, at most one lap of them.
Skipped(s, day) ==
  IF s.lastDay < 0 THEN {} ELSE {Slot(s.lastDay + k) : k \in 1..Least(day - s.lastDay, DAYS)}

\* Mutant: the day itself is not cleared.
AddKeepingSlot(s, day, mins) ==
  IF day < 0 \/ (s.lastDay >= 0 /\ day <= s.lastDay - DAYS) THEN s
  ELSE LET left == [i \in 0..DAYS - 1 |-> IF i \in Skipped(s, day - 1) THEN 0 ELSE s.minutes[i]]
       IN  [s EXCEPT !.lastDay = IF day > @ THEN day ELSE @,
                     !.minutes = [left EXCEPT ![Slot(day)] = Least(@ + mins, MAX_MINUTES)]]

\* add: a newer day moves the window, an older one than it keeps is dropped.
AddMinutes(s, day, mins) ==
  IF day < 0 \/ (s.lastDay >= 0 /\ day <= s.lastDay - DAYS) THEN s
  ELSE LET left == [i \in 0..DAYS - 1 |-> IF i \in Skipped(s, day) THEN 0 ELSE s.minutes[i]]
       IN  [s EXCEPT !.lastDay = IF day > @ THEN day ELSE @,
                     !.minutes = [left EXCEPT ![Slot(day)] = Least(@ + mins, MAX_MINUTES)]]

Recorded(s, day, mins) ==
  [s EXCEPT !.recorded = [d \in Day |-> IF d = day THEN @[d] + mins ELSE @[d]]]

-----------------------------------------------------------------------------
\* ReadingStatsStore.

OnCard == IF card = Torn THEN Fresh ELSE card

\* ensureLoaded: what the store is taken to be, and the failures that took.
Knows(s, n) ==
  \/ loaded /\ s = store /\ n = 0
  \/ ~loaded /\ s = OnCard /\ n = 0
  \/ ~loaded /\ s = Fresh /\ n = 1

\* saveToFile; that it failed is logged.
Save(s, n) ==
  /\ store' = s /\ loaded' = TRUE
  /\ \/ card' = s /\ faults' = faults + n
     \/ card' \in {card, Torn} /\ faults' = faults + n + 1
  /\ faults' <= MaxFaults

\* The book is among the books: in the place of one that was read longest ago, if
\* there are too many.
Listed(books)      == {b \in Book : books[b] # None}
ReadLongestAgo(books, b) == b \in Listed(books) /\ \A c \in Listed(books) : books[b] <= books[c]
\* Mutant: the list grows.
EnteredAnyway(books, book, listed) ==
  \/ books[book] # None /\ listed = books
  \/ books[book] = None /\ listed = [books EXCEPT ![book] = -1]
Entered(books, book, listed) ==
  \/ books[book] # None /\ listed = books
  \/ books[book] = None /\ Cardinality(Listed(books)) < MAX_BOOKS /\ listed = [books EXCEPT ![book] = -1]
  \/ /\ books[book] = None /\ Cardinality(Listed(books)) >= MAX_BOOKS
     /\ \E b \in Book : ReadLongestAgo(books, b) /\ listed = [books EXCEPT ![b] = None, ![book] = -1]

\* recordSession: a piece of a sitting of some minutes, but at least one.
Piece(s, piece, mins, listed) ==
  LET book == [listed EXCEPT ![piece.book] = IF today >= 0 THEN today ELSE @]
      told == [s EXCEPT !.pages = @ + (piece.turns - piece.stored),
                        !.sessions = IF piece.counted THEN @ ELSE @ + 1,
                        !.books = book]
  IN  AddMinutes(Recorded(told, today, mins), today, mins)

\* flushSessionStats, of the counters as they are then.
Flush(piece) ==
  \E s \in {store, OnCard, Fresh}, n \in 0..1, mins \in 1..MAX_MINUTES :
    /\ Knows(s, n)
    /\ \E listed \in {s.books} \cup {[s.books EXCEPT ![piece.book] = -1]}
                     \cup {[s.books EXCEPT ![b] = None, ![piece.book] = -1] : b \in Book} :
         Entered(s.books, piece.book, listed) /\ Save(Piece(s, piece, mins, listed), n)
Written(piece) == [piece EXCEPT !.stored = piece.turns, !.counted = TRUE]

-----------------------------------------------------------------------------
\* The reader.

Unwritten == IF sitting = None THEN 0 ELSE sitting.turns - sitting.stored
Unknown   == IF sitting = None \/ sitting.turns = 0 \/ sitting.counted THEN 0 ELSE 1

Open(b) ==
  /\ sitting = None /\ read < MaxTurns
  /\ sitting' = [book |-> b, turns |-> 0, stored |-> 0, counted |-> FALSE]
  /\ UNCHANGED <<store, loaded, card, today, read, sat, lost, missed, faults>>

\* pageTurn, of a page that was read: the piece is written when it is long enough.
\* Mutant: what was written is not remembered.
TurnForgetting ==
  /\ sitting # None /\ read < MaxTurns
  /\ LET piece == [sitting EXCEPT !.turns = @ + 1]
     IN  IF piece.turns - piece.stored >= FlushTurns
         THEN Flush(piece) /\ sitting' = piece
         ELSE sitting' = piece /\ UNCHANGED <<store, loaded, card, faults>>
  /\ read' = read + 1 /\ sat' = sat + (IF sitting.turns = 0 THEN 1 ELSE 0)
  /\ UNCHANGED <<today, lost, missed>>
Turn ==
  /\ sitting # None /\ read < MaxTurns
  /\ LET piece == [sitting EXCEPT !.turns = @ + 1]
     IN  IF piece.turns - piece.stored >= FlushTurns
         THEN Flush(piece) /\ sitting' = Written(piece)
         ELSE sitting' = piece /\ UNCHANGED <<store, loaded, card, faults>>
  /\ read' = read + 1 /\ sat' = sat + (IF sitting.turns = 0 THEN 1 ELSE 0)
  /\ UNCHANGED <<today, lost, missed>>

\* onExit: whatever is left is written.
Close ==
  /\ sitting # None /\ sitting' = None
  /\ IF Unwritten = 0 THEN UNCHANGED <<store, loaded, card, faults>> ELSE Flush(sitting)
  /\ UNCHANGED <<today, read, sat, lost, missed>>

\* The screen of the statistics, from the book too.
Look ==
  /\ \E s \in {store, OnCard, Fresh}, n \in 0..1 : Knows(s, n) /\ store' = s /\ faults' = faults + n
  /\ loaded' = TRUE /\ faults' <= MaxFaults
  /\ UNCHANGED <<card, sitting, today, read, sat, lost, missed>>

\* Midnight, a clock that is set, a clock that lost its power.
ClockMoves(d) ==
  /\ d # today /\ today' = d
  /\ UNCHANGED <<store, loaded, card, sitting, read, sat, lost, missed, faults>>

\* A restart or a cut; one during a write is a failed write and a restart.
Restart ==
  /\ loaded \/ sitting # None
  /\ store' = Fresh /\ loaded' = FALSE /\ sitting' = None
  /\ lost' = lost + Unwritten /\ missed' = missed + Unknown
  /\ UNCHANGED <<card, today, read, sat, faults>>

Next ==
  \/ Turn \/ Close \/ Look \/ Restart
  \/ \E b \in Book : Open(b)
  \/ \E d \in Day \cup {-1} : ClockMoves(d)

Spec == Init /\ [][Next]_vars

-----------------------------------------------------------------------------
\* The ring of slots shows, of every day, the minutes that were recorded on it,
\* and none of a day that is DAYS or more before one with minutes: whichever way
\* the clock moved, no slot is counted for two days (DayLog::add and on).
Ideal(recorded, day) ==
  IF \E e \in Day : e >= day + DAYS /\ recorded[e] > 0 THEN 0 ELSE Least(recorded[day], MAX_MINUTES)
RingShowsTheDays ==
  \A s \in {store, OnCard} : \A d \in Day : On(s, d) = Ideal(s.recorded, d)

\* Pages and sittings are counted once: of what was read, all is in the store but
\* what the reader still has to write - less than FlushTurns pages - and what went
\* with a restart; and with a card that fails, never more than that
\* (EpubReaderActivity::flushSessionStats and its callers).
Kept == IF loaded THEN store ELSE OnCard
CountedOnce ==
  /\ Unwritten < FlushTurns
  /\ \A s \in {Kept, OnCard} : s.pages + Unwritten + lost <= read /\ s.sessions + Unknown + missed <= sat
  /\ faults = 0 => Kept.pages + Unwritten + lost = read /\ Kept.sessions + Unknown + missed = sat

\* There are never more books than there is room for, and the one that is being
\* read is among them once a piece of it was written (recordSession).
OpenBookIsListed ==
  /\ \A s \in {store, OnCard} : Cardinality(Listed(s.books)) <= MAX_BOOKS
  /\ sitting # None /\ sitting.counted => loaded /\ store.books[sitting.book] # None
=============================================================================
