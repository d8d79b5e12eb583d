-------------------------- MODULE ReadingStatsProofs --------------------------
(***************************************************************************)
(* What is proved of ReadingStats: its types, that the ring of slots shows *)
(* every day its own minutes, that nothing read is counted twice or left   *)
(* out, and that the open book is among the books.                         *)
(***************************************************************************)
EXTENDS ReadingStats, FiniteSetTheorems, TLAPS

\* Without a newest day every slot is empty; with one it has minutes, no later
\* day has, and each day of the window has its own in its slot.
RingInv(s) ==
  /\ \A d \in Day : d > s.lastDay => s.recorded[d] = 0
  /\ s.lastDay >= 0 => s.recorded[s.lastDay] > 0
  /\ s.lastDay < 0 => \A i \in 0..DAYS - 1 : s.minutes[i] = 0
  /\ \A d \in Day : InWindow(s, d) => s.minutes[Slot(d)] = Least(s.recorded[d], MAX_MINUTES)

RoomInv(books) == IsFiniteSet(Listed(books)) /\ Cardinality(Listed(books)) <= MAX_BOOKS

Held(s) == s \in Store /\ RingInv(s) /\ RoomInv(s.books)

SittingInv ==
  sitting # None =>
    /\ sitting.stored <= sitting.turns /\ sitting.turns - sitting.stored < FlushTurns
    /\ sitting.stored > 0 => sitting.counted
    /\ sitting.counted => sitting.turns > 0
    /\ sitting.counted => loaded /\ store.books[sitting.book] # None

\* A store counts no page and no sitting that was not read, nor any that is yet
\* to be written or was lost.
Bounded(s) == s.pages + Unwritten + lost <= read /\ s.sessions + Unknown + missed <= sat

\* While nothing failed, the file is the store.
FaultlessInv ==
  faults = 0 =>
    /\ card # Torn /\ (loaded => card = store)
    /\ card.pages + Unwritten + lost = read /\ card.sessions + Unknown + missed = sat

IInv == /\ TypeOK /\ Held(store) /\ Held(OnCard)
        /\ SittingInv /\ (loaded => Bounded(store)) /\ Bounded(OnCard) /\ FaultlessInv

-----------------------------------------------------------------------------
\* Remainders.

LEMMA Quotient == \A a \in Nat : a \div DAYS \in Nat /\ a = DAYS * (a \div DAYS) + (a % DAYS)
  BY ReadingStatsAssumption

LEMMA SlotRange == \A a \in Nat : a % DAYS \in 0..DAYS - 1
  BY ReadingStatsAssumption

LEMMA OneLap == \A q \in Nat : q >= 1 => DAYS * q >= DAYS
  BY ReadingStatsAssumption

\* Days that are less than a lap apart have different slots.
LEMMA SlotsDiffer ==
  ASSUME NEW a \in Nat, NEW b \in Nat, a < b, b - a < DAYS
  PROVE  a % DAYS # b % DAYS
<1> DEFINE p == a \div DAYS
           q == b \div DAYS
<1>1. p \in Nat /\ a = DAYS * p + (a % DAYS) /\ q \in Nat /\ b = DAYS * q + (b % DAYS)
  BY Quotient
<1>2. SUFFICES ASSUME a % DAYS = b % DAYS PROVE FALSE
  OBVIOUS
<1>3. b - a = DAYS * q - DAYS * p
  BY <1>1, <1>2, SlotRange, ReadingStatsAssumption
<1>4. DAYS * q - DAYS * p = DAYS * (q - p)
  BY <1>1, ReadingStatsAssumption
<1>5. CASE q - p >= 1
  BY <1>3, <1>4, <1>5, <1>1, OneLap, ReadingStatsAssumption
<1>6. CASE q - p <= 0
  <2>1. DAYS * (q - p) <= 0
    BY <1>1, <1>6, ReadingStatsAssumption
  <2> QED
    BY <1>3, <1>4, <2>1
<1> QED
  BY <1>1, <1>5, <1>6

\* A number that is written as laps and a rest has that rest.
LEMMA RestIsSlot ==
  ASSUME NEW q \in Nat, NEW i \in 0..DAYS - 1
  PROVE  (DAYS * q + i) % DAYS = i
<1> DEFINE x == DAYS * q + i
           p == x \div DAYS
<1>1. x \in Nat
  BY ReadingStatsAssumption
<1>2. p \in Nat /\ x = DAYS * p + (x % DAYS) /\ x % DAYS \in 0..DAYS - 1
  BY <1>1, Quotient, SlotRange
<1>3. DAYS * (q - p) = (x % DAYS) - i
  BY <1>2, ReadingStatsAssumption
<1>4. q = p
  <2>1. CASE q - p >= 1
    BY <2>1, <1>2, <1>3, OneLap, ReadingStatsAssumption
  <2>2. CASE p - q >= 1
    <3>1. DAYS * (p - q) >= DAYS
      BY <2>2, <1>2, OneLap, ReadingStatsAssumption
    <3>2. DAYS * (p - q) = i - (x % DAYS)
      BY <1>2, ReadingStatsAssumption
    <3> QED
      BY <3>1, <3>2, <1>2, ReadingStatsAssumption
  <2> QED
    BY <2>1, <2>2, <1>2
<1> HIDE DEF x, p
<1> QED
  BY <1>2, <1>3, <1>4, ReadingStatsAssumption DEF x

\* One lap from any day visits every slot.
LEMMA LapVisits ==
  ASSUME NEW a \in Nat, NEW i \in 0..DAYS - 1
  PROVE  \E k \in 1..DAYS : (a + k) % DAYS = i
<1> DEFINE q == a \div DAYS
           r == a % DAYS
<1>1. q \in Nat /\ a = DAYS * q + r /\ r \in 0..DAYS - 1
  BY Quotient, SlotRange
<1>2. CASE i > r
  <2>1. a + (i - r) = DAYS * q + i
    BY <1>1, ReadingStatsAssumption
  <2>2. (a + (i - r)) % DAYS = i
    BY <2>1, <1>1, RestIsSlot
  <2>3. i - r \in 1..DAYS
    BY <1>1, <1>2, ReadingStatsAssumption
  <2> QED
    BY <2>2, <2>3
<1>3. CASE i <= r
  <2>1. DAYS * (q + 1) = DAYS * q + DAYS
    BY <1>1, ReadingStatsAssumption
  <2>2. a + (DAYS + i - r) = DAYS * (q + 1) + i
    BY <2>1, <1>1, ReadingStatsAssumption
  <2>3. (a + (DAYS + i - r)) % DAYS = i
    BY <2>2, <1>1, RestIsSlot
  <2>4. DAYS + i - r \in 1..DAYS
    BY <1>1, <1>3, ReadingStatsAssumption
  <2> QED
    BY <2>3, <2>4
<1> QED
  BY <1>1, <1>2, <1>3, ReadingStatsAssumption
-----------------------------------------------------------------------------
\* DayLog.

\* What is read of a day is what the ring is to show of it.
LEMMA RingShows ==
  ASSUME NEW s \in Store, RingInv(s), NEW d \in Day
  PROVE  On(s, d) = Ideal(s.recorded, d)
<1>0. DAYS \in Nat /\ DAYS >= 1 /\ MAX_MINUTES \in Nat /\ MaxDay \in Nat
  BY ReadingStatsAssumption
<1>a. \A e \in Day : e \in Int /\ e >= 0
  BY <1>0 DEF Day
<1>b. s.lastDay \in Day \cup {-1} /\ s.recorded \in [Day -> Nat]
  BY DEF Store
<1>1. /\ s.lastDay \in Int /\ (s.lastDay >= 0 => s.lastDay \in Day)
      /\ s.recorded \in [Day -> Nat] /\ d \in Int /\ d >= 0
      /\ \A e \in Day : e \in Int /\ e >= 0 /\ s.recorded[e] \in Nat
  BY <1>a, <1>b
<1> USE <1>0
<1>2. CASE s.lastDay < 0
  <2>1. \A e \in Day : s.recorded[e] = 0
    BY <1>1, <1>2 DEF RingInv
  <2>2. On(s, d) = 0
    BY <1>1, <1>2 DEF On, InWindow
  <2>3. Least(s.recorded[d], MAX_MINUTES) = 0
    BY <2>1 DEF Least
  <2> QED
    BY <2>2, <2>3 DEF Ideal
<1>3. CASE s.lastDay >= 0
  <2>1. s.lastDay \in Day /\ s.recorded[s.lastDay] > 0
    BY <1>1, <1>3 DEF RingInv
  <2>2. \A e \in Day : s.recorded[e] > 0 => e <= s.lastDay
    BY <1>1, <2>1 DEF RingInv
  <2>3. CASE d > s.lastDay
    <3>1. On(s, d) = 0
      BY <1>1, <2>3 DEF On, InWindow
    <3>2. Least(s.recorded[d], MAX_MINUTES) = 0
      BY <1>1, <2>3 DEF RingInv, Least
    <3> QED
      BY <3>1, <3>2 DEF Ideal
  <2>4. CASE d <= s.lastDay /\ d > s.lastDay - DAYS
    <3>1. InWindow(s, d)
      BY <2>4, <1>1, <1>3 DEF InWindow
    <3>2. On(s, d) = Least(s.recorded[d], MAX_MINUTES)
      BY <3>1 DEF On, RingInv
    <3>3. ~ \E e \in Day : e >= d + DAYS /\ s.recorded[e] > 0
      BY <2>4, <2>2, <1>1, <2>1
    <3> QED
      BY <3>2, <3>3 DEF Ideal
  <2>5. CASE d <= s.lastDay - DAYS
    <3>1. s.lastDay >= d + DAYS
      BY <2>5, <1>1, <2>1
    <3>2. Ideal(s.recorded, d) = 0
      BY <3>1, <2>1 DEF Ideal
    <3>3. ~InWindow(s, d)
      BY <2>5, <1>1, <2>1 DEF InWindow
    <3> QED
      BY <3>2, <3>3 DEF On
  <2> QED
    BY <2>3, <2>4, <2>5, <1>1, <2>1
<1> QED
  BY <1>1, <1>2, <1>3

\* Days that are skipped leave every slot empty that a day of the new window has,
\* but for those of days that are in the old window too.
LEMMA SkippedSlots ==
  ASSUME NEW s \in Store, s.lastDay >= 0, NEW day \in Day, day > s.lastDay
  PROVE  /\ \A d \in Day : d > s.lastDay /\ d <= day /\ d > day - DAYS => Slot(d) \in Skipped(s, day)
         /\ \A d \in Day : d <= s.lastDay /\ d > day - DAYS => Slot(d) \notin Skipped(s, day)
<1> USE ReadingStatsAssumption
<1> DEFINE last == s.lastDay
<1>1. last \in Nat /\ day \in Nat /\ day - last \in Nat
  BY DEF Store, Day
<1>2. Skipped(s, day) = {Slot(last + k) : k \in 1..Least(day - last, DAYS)}
  BY <1>1 DEF Skipped
<1> HIDE DEF last
<1>3. ASSUME NEW d \in Day, d > last, d <= day, d > day - DAYS
      PROVE  Slot(d) \in Skipped(s, day)
  <2>1. d \in Nat
    BY DEF Day
  <2>2. CASE day - last <= DAYS
    <3>1. d - last \in 1..Least(day - last, DAYS) /\ last + (d - last) = d
      BY <1>1, <1>3, <2>1, <2>2 DEF Least
    <3> QED
      BY <3>1, <1>2
  <2>3. CASE day - last > DAYS
    <3>1. Slot(d) \in 0..DAYS - 1
      BY <2>1, SlotRange DEF Slot
    <3>2. PICK k \in 1..DAYS : (last + k) % DAYS = Slot(d)
      BY <3>1, <1>1, LapVisits
    <3>3. k \in 1..Least(day - last, DAYS)
      BY <2>3, <1>1 DEF Least
    <3>4. Slot(last + k) = Slot(d)
      BY <3>2 DEF Slot
    <3> QED
      BY <3>3, <3>4, <1>2
  <2> QED
    BY <1>1, <2>2, <2>3
<1>4. ASSUME NEW d \in Day, d <= last, d > day - DAYS
      PROVE  Slot(d) \notin Skipped(s, day)
  <2>1. d \in Nat
    BY DEF Day
  <2>2. SUFFICES ASSUME NEW k \in 1..Least(day - last, DAYS) PROVE Slot(last + k) # Slot(d)
    BY <1>2
  <2>3. k \in Nat /\ k >= 1 /\ k <= day - last
    BY <1>1 DEF Least
  <2> DEFINE b == last + k
  <2>4. b \in Nat /\ d < b /\ b - d < DAYS
    BY <1>1, <1>4, <2>1, <2>3
  <2> HIDE DEF b
  <2>5. d % DAYS # b % DAYS
    BY <2>1, <2>4, SlotsDiffer
  <2> QED
    BY <2>5 DEF Slot, b
<1> QED
  BY <1>3, <1>4 DEF last

\* Minutes that are added to a day: the ring keeps showing what was recorded, and
\* nothing else is touched.
LEMMA AddKeepsRing ==
  ASSUME NEW s \in Store, RingInv(s), NEW day \in Day \cup {-1}, NEW mins \in 1..MAX_MINUTES,
         NEW t, t = AddMinutes(Recorded(s, day, mins), day, mins)
  PROVE  /\ t \in Store /\ RingInv(t)
         /\ t.pages = s.pages /\ t.sessions = s.sessions /\ t.books = s.books
<1>0. DAYS \in Nat /\ DAYS >= 1 /\ MAX_MINUTES \in Nat /\ MaxDay \in Nat
  BY ReadingStatsAssumption
<1> USE <1>0
<1> DEFINE r == Recorded(s, day, mins)
           noted == [d \in Day |-> IF d = day THEN s.recorded[d] + mins ELSE s.recorded[d]]
           last == s.lastDay
<1>1. /\ last \in Int /\ (last >= 0 => last \in Day) /\ (last < 0 => last = -1)
      /\ day \in Int /\ (day >= 0 => day \in Day) /\ (day < 0 => day = -1)
      /\ mins \in Nat /\ mins >= 1
      /\ s.recorded \in [Day -> Nat] /\ s.minutes \in [0..DAYS - 1 -> 0..MAX_MINUTES]
      /\ \A e \in Day : e \in Nat /\ s.recorded[e] \in Nat
  BY DEF Store, Day, Minutes
<1>2. /\ r \in Store /\ r.recorded = noted /\ r.minutes = s.minutes /\ r.lastDay = last
      /\ r.pages = s.pages /\ r.sessions = s.sessions /\ r.books = s.books
  <2>1. noted \in [Day -> Nat]
    BY <1>1
  <2>2. r = [s EXCEPT !.recorded = noted]
    BY DEF Recorded
  <2> QED
    BY <2>1, <2>2 DEF Store
<1>3. t = AddMinutes(r, day, mins)
  OBVIOUS
<1>4. \A e \in Day : noted[e] = IF e = day THEN s.recorded[e] + mins ELSE s.recorded[e]
  OBVIOUS
<1> HIDE DEF r, noted
<1>5. CASE day < 0 \/ (last >= 0 /\ day <= last - DAYS)
  <2>1. t = r
    BY <1>2, <1>3, <1>5 DEF AddMinutes
  <2>2. \A e \in Day : e > last - DAYS \/ last < 0 => noted[e] = s.recorded[e]
    BY <1>1, <1>4, <1>5
  <2>3. \A e \in Day : e > last => noted[e] = 0
    BY <1>1, <2>2 DEF RingInv
  <2>4. last >= 0 => noted[last] > 0
    <3>1. SUFFICES ASSUME last >= 0 PROVE noted[last] > 0
      OBVIOUS
    <3>2. s.recorded[last] > 0
      BY <1>1, <3>1 DEF RingInv
    <3>3. last \in Day /\ last > last - DAYS
      BY <1>1, <3>1, ReadingStatsAssumption
    <3>4. noted[last] = s.recorded[last]
      BY <2>2, <3>3
    <3> QED
      BY <3>2, <3>4
  <2>5. \A e \in Day : InWindow(r, e) => r.minutes[Slot(e)] = Least(noted[e], MAX_MINUTES)
    <3>1. SUFFICES ASSUME NEW e \in Day, InWindow(r, e)
                   PROVE  r.minutes[Slot(e)] = Least(noted[e], MAX_MINUTES)
      OBVIOUS
    <3>2. InWindow(s, e) /\ e > last - DAYS
      BY <3>1, <1>2 DEF InWindow
    <3>3. noted[e] = s.recorded[e]
      BY <3>2, <2>2
    <3> QED
      BY <3>2, <3>3, <1>2 DEF RingInv
  <2>6. RingInv(r)
    BY <2>3, <2>4, <2>5, <1>2 DEF RingInv
  <2> QED
    BY <2>1, <2>6, <1>2
<1>6. CASE day >= 0 /\ (last >= 0 => day > last - DAYS)
  <2> DEFINE left == [i \in 0..DAYS - 1 |-> IF i \in Skipped(r, day) THEN 0 ELSE s.minutes[i]]
             newest == IF day > last THEN day ELSE last
             ring == [left EXCEPT ![Slot(day)] = Least(@ + mins, MAX_MINUTES)]
  <2>1. t = [r EXCEPT !.lastDay = newest, !.minutes = ring]
    BY <1>1, <1>2, <1>3, <1>6 DEF AddMinutes
  <2>2. day \in Nat /\ day \in Day /\ Slot(day) \in 0..DAYS - 1
    BY <1>1, <1>6, SlotRange DEF Slot
  <2>3. left \in [0..DAYS - 1 -> 0..MAX_MINUTES]
    BY <1>1
  <2>4. /\ ring \in [0..DAYS - 1 -> 0..MAX_MINUTES]
        /\ ring[Slot(day)] = Least(left[Slot(day)] + mins, MAX_MINUTES)
        /\ \A i \in 0..DAYS - 1 : i # Slot(day) => ring[i] = left[i]
    <3> DEFINE sum == Least(left[Slot(day)] + mins, MAX_MINUTES)
    <3>1. sum \in 0..MAX_MINUTES
      BY <2>2, <2>3, <1>1 DEF Least
    <3>2. ring = [left EXCEPT ![Slot(day)] = sum]
      OBVIOUS
    <3> HIDE DEF sum, left, ring
    <3>3. /\ ring \in [0..DAYS - 1 -> 0..MAX_MINUTES] /\ ring[Slot(day)] = sum
          /\ \A i \in 0..DAYS - 1 : i # Slot(day) => ring[i] = left[i]
      BY <2>2, <2>3, <3>1, <3>2
    <3> QED
      BY <3>3 DEF sum
  <2>5. newest \in Day /\ newest \in Nat /\ newest >= day /\ newest >= last
    BY <1>1, <2>2
  <2>6. \A i \in 0..DAYS - 1 : left[i] = IF i \in Skipped(r, day) THEN 0 ELSE s.minutes[i]
    OBVIOUS
  <2> HIDE DEF left, ring
  <2>7. /\ t \in Store /\ t.lastDay = newest /\ t.minutes = ring /\ t.recorded = noted
        /\ t.pages = s.pages /\ t.sessions = s.sessions /\ t.books = s.books
    BY <2>1, <2>4, <2>5, <1>2 DEF Store, Minutes
  <2>8. \A e \in Day : e > newest => noted[e] = 0
    BY <1>1, <1>4, <2>5, <2>2 DEF RingInv
  <2>9. noted[newest] > 0
    BY <1>1, <1>4, <2>5, <2>2 DEF RingInv
  <2>10. \* What the ring has of a day before the minutes are added.
         \A e \in Day : e <= newest /\ e > newest - DAYS => left[Slot(e)] = Least(s.recorded[e], MAX_MINUTES)
    <3>1. SUFFICES ASSUME NEW e \in Day, e <= newest, e > newest - DAYS
                   PROVE  left[Slot(e)] = Least(s.recorded[e], MAX_MINUTES)
      OBVIOUS
    <3>2. e \in Nat /\ Slot(e) \in 0..DAYS - 1
      BY <1>1, SlotRange DEF Slot
    <3>3. CASE last < 0
      <4>1. s.minutes[Slot(e)] = 0
        BY <3>2, <3>3 DEF RingInv
      <4>2. s.recorded[e] = 0
        BY <3>2, <3>3, <1>1 DEF RingInv
      <4>3. left[Slot(e)] = 0
        BY <4>1, <3>2, <2>6
      <4> QED
        BY <4>2, <4>3 DEF Least
    <3>4. CASE last >= 0 /\ day <= last
      <4>1. Skipped(r, day) = {}
        <5>1. \A k \in 1..Least(day - last, DAYS) : FALSE
          BY <3>4, <1>1 DEF Least
        <5> QED
          BY <5>1, <1>2, <3>4 DEF Skipped
      <4>2. InWindow(s, e)
        BY <3>1, <3>2, <3>4, <1>1 DEF InWindow
      <4> QED
        BY <4>1, <4>2, <3>2, <2>6 DEF RingInv
    <3>5. CASE last >= 0 /\ day > last /\ e <= last
      <4>1. Slot(e) \notin Skipped(r, day)
        BY <3>1, <3>5, <2>2, <1>2, SkippedSlots
      <4>2. InWindow(s, e)
        BY <3>1, <3>2, <3>5, <1>1 DEF InWindow
      <4> QED
        BY <4>1, <4>2, <3>2, <2>6 DEF RingInv
    <3>6. CASE last >= 0 /\ day > last /\ e > last
      <4>1. Slot(e) \in Skipped(r, day)
        BY <3>1, <3>6, <2>2, <1>2, SkippedSlots
      <4>2. s.recorded[e] = 0
        BY <3>6 DEF RingInv
      <4>3. left[Slot(e)] = 0
        BY <4>1, <3>2, <2>6
      <4> QED
        BY <4>2, <4>3 DEF Least
    <3> QED
      BY <3>2, <3>3, <3>4, <3>5, <3>6, <1>1
  <2>11. \A e \in Day : InWindow(t, e) => ring[Slot(e)] = Least(noted[e], MAX_MINUTES)
    <3>1. SUFFICES ASSUME NEW e \in Day, InWindow(t, e)
                   PROVE  ring[Slot(e)] = Least(noted[e], MAX_MINUTES)
      OBVIOUS
    <3>2. e <= newest /\ e > newest - DAYS
      BY <3>1, <2>7 DEF InWindow
    <3>3. e \in Nat /\ Slot(e) \in 0..DAYS - 1 /\ s.recorded[e] \in Nat
      BY <1>1, SlotRange DEF Slot
    <3>4. left[Slot(e)] = Least(s.recorded[e], MAX_MINUTES)
      BY <3>2, <2>10
    <3>5. CASE e = day
      <4>1. noted[e] = s.recorded[e] + mins
        BY <3>5, <1>4
      <4>2. ring[Slot(e)] = Least(left[Slot(e)] + mins, MAX_MINUTES)
        BY <3>5, <2>4
      <4> QED
        BY <4>1, <4>2, <3>3, <3>4, <1>1 DEF Least
    <3>6. CASE e # day
      <4>1. noted[e] = s.recorded[e]
        BY <3>6, <1>4
      <4>2. day > newest - DAYS
        BY <1>1, <1>6, <2>2
      <4>3. \A a \in Nat, b \in Nat : a < b /\ b - a < DAYS => a % DAYS # b % DAYS
        BY SlotsDiffer
      <4>4. e % DAYS # day % DAYS
        BY <4>2, <4>3, <3>2, <3>3, <3>6, <2>2, <2>5
      <4>5. ring[Slot(e)] = left[Slot(e)]
        BY <4>4, <2>4, <3>3 DEF Slot
      <4> QED
        BY <4>1, <4>5, <3>4
    <3> QED
      BY <3>5, <3>6
  <2>12. RingInv(t)
    BY <2>7, <2>8, <2>9, <2>11, <2>5 DEF RingInv
  <2> QED
    BY <2>7, <2>12
<1> QED
  BY <1>1, <1>5, <1>6

-----------------------------------------------------------------------------
\* The books.

\* A book is entered: there are no more books than before, or as many as there is
\* room for, and it is one of them.
LEMMA EnteredFits ==
  ASSUME NEW books \in [Book -> Day \cup {-1, None}], RoomInv(books), NEW book \in Book,
         NEW listed, Entered(books, book, listed)
  PROVE  listed \in [Book -> Day \cup {-1, None}] /\ RoomInv(listed) /\ listed[book] # None
<1>0. MAX_BOOKS \in Nat /\ MAX_BOOKS >= 1 /\ None # -1
  BY ReadingStatsAssumption
<1> USE <1>0
<1>1. CASE books[book] # None /\ listed = books
  BY <1>1
<1>2. CASE /\ books[book] = None /\ Cardinality(Listed(books)) < MAX_BOOKS
           /\ listed = [books EXCEPT ![book] = -1]
  <2>1. Listed(listed) = Listed(books) \cup {book} /\ book \notin Listed(books)
    BY <1>2 DEF Listed
  <2>2. IsFiniteSet(Listed(listed)) /\ Cardinality(Listed(listed)) = Cardinality(Listed(books)) + 1
    BY <2>1, FS_AddElement DEF RoomInv
  <2>3. Cardinality(Listed(books)) \in Nat
    BY FS_CardinalityType DEF RoomInv
  <2> QED
    BY <1>2, <2>2, <2>3 DEF RoomInv
<1>3. CASE /\ books[book] = None
           /\ \E b \in Book : ReadLongestAgo(books, b) /\ listed = [books EXCEPT ![b] = None, ![book] = -1]
  <2>1. PICK b \in Book : b \in Listed(books) /\ listed = [books EXCEPT ![b] = None, ![book] = -1]
    BY <1>3 DEF ReadLongestAgo
  <2>2. b # book
    BY <1>3, <2>1 DEF Listed
  <2> DEFINE others == Listed(books) \ {b}
  <2>3. Listed(listed) = others \cup {book} /\ book \notin others
    BY <1>3, <2>1, <2>2 DEF Listed
  <2>4. IsFiniteSet(others) /\ Cardinality(others) = Cardinality(Listed(books)) - 1
    BY <2>1, FS_RemoveElement DEF RoomInv
  <2> HIDE DEF others
  <2>5. IsFiniteSet(Listed(listed)) /\ Cardinality(Listed(listed)) = Cardinality(others) + 1
    BY <2>3, <2>4, FS_AddElement
  <2>6. Cardinality(Listed(books)) \in Nat
    BY FS_CardinalityType DEF RoomInv
  <2>7. RoomInv(listed)
    BY <2>4, <2>5, <2>6 DEF RoomInv
  <2>8. listed \in [Book -> Day \cup {-1, None}] /\ listed[book] # None
    BY <2>1
  <2> QED
    BY <2>7, <2>8
<1> QED
  BY <1>1, <1>2, <1>3 DEF Entered

\* An empty store.
LEMMA FreshHeld == Held(Fresh)
<1>1. Fresh \in Store
  BY ReadingStatsAssumption DEF Fresh, Store, Minutes
<1>2. RingInv(Fresh)
  BY ReadingStatsAssumption DEF Fresh, RingInv, InWindow, Day
<1>3. Listed(Fresh.books) = {}
  BY DEF Listed, Fresh
<1>4. RoomInv(Fresh.books)
  BY <1>3, FS_EmptySet, ReadingStatsAssumption DEF RoomInv
<1> QED
  BY <1>1, <1>2, <1>4 DEF Held

\* A piece that is put in a store.
LEMMA PieceHeld ==
  ASSUME NEW s, Held(s), NEW piece \in Sitting, NEW mins \in 1..MAX_MINUTES,
         piece.stored <= piece.turns, today \in Day \cup {-1},
         NEW listed, Entered(s.books, piece.book, listed),
         NEW t, t = Piece(s, piece, mins, listed)
  PROVE  /\ Held(t) /\ t.books[piece.book] # None
         /\ t.pages = s.pages + (piece.turns - piece.stored)
         /\ t.sessions = s.sessions + (IF piece.counted THEN 0 ELSE 1)
<1> DEFINE book == [listed EXCEPT ![piece.book] = IF today >= 0 THEN today ELSE @]
           told == [s EXCEPT !.pages = @ + (piece.turns - piece.stored),
                             !.sessions = IF piece.counted THEN @ ELSE @ + 1,
                             !.books = book]
<1>1. /\ s \in Store /\ RingInv(s) /\ RoomInv(s.books)
      /\ s.books \in [Book -> Day \cup {-1, None}] /\ s.pages \in Nat /\ s.sessions \in Nat
      /\ piece.book \in Book /\ piece.turns \in Nat /\ piece.stored \in Nat /\ piece.counted \in BOOLEAN
  BY DEF Held, Store, Sitting
<1>2. /\ listed \in [Book -> Day \cup {-1, None}] /\ RoomInv(listed) /\ listed[piece.book] # None
  BY <1>1, EnteredFits
<1>3. \A d \in Day : d # None
  BY ReadingStatsAssumption DEF Day
<1>4. book \in [Book -> Day \cup {-1, None}] /\ book[piece.book] # None /\ Listed(book) = Listed(listed)
  <2>1. CASE today >= 0
    <3>1. today \in Day
      BY <2>1, ReadingStatsAssumption DEF Day
    <3>2. book = [listed EXCEPT ![piece.book] = today]
      BY <2>1
    <3> QED
      BY <3>1, <3>2, <1>1, <1>2, <1>3 DEF Listed
  <2>2. CASE ~(today >= 0)
    <3>1. book = listed
      BY <2>2, <1>2
    <3> QED
      BY <3>1, <1>2
  <2> QED
    BY <2>1, <2>2
<1> HIDE DEF book
<1>5. piece.turns - piece.stored \in Nat
  BY <1>1
<1>6. /\ told \in Store /\ told.books = book /\ told.pages = s.pages + (piece.turns - piece.stored)
      /\ told.sessions = s.sessions + (IF piece.counted THEN 0 ELSE 1)
      /\ told.lastDay = s.lastDay /\ told.minutes = s.minutes /\ told.recorded = s.recorded
  <2> DEFINE n == s.pages + (piece.turns - piece.stored)
             m == s.sessions + (IF piece.counted THEN 0 ELSE 1)
  <2>1. n \in Nat /\ m \in Nat
    BY <1>1, <1>5
  <2>2. m = IF piece.counted THEN s.sessions ELSE s.sessions + 1
    BY <1>1
  <2>3. told = [s EXCEPT !.pages = n, !.sessions = m, !.books = book]
    BY <2>2
  <2> HIDE DEF n, m, told
  <2>4. /\ told \in Store /\ told.books = book /\ told.pages = n /\ told.sessions = m
        /\ told.lastDay = s.lastDay /\ told.minutes = s.minutes /\ told.recorded = s.recorded
    BY <1>1, <1>4, <2>1, <2>3 DEF Store
  <2> QED
    BY <2>4 DEF n, m
<1>7. t = AddMinutes(Recorded(told, today, mins), today, mins)
  BY DEF Piece, book
<1> HIDE DEF told
<1>8. RingInv(told)
  BY <1>1, <1>6 DEF RingInv, InWindow
<1>9. /\ t \in Store /\ RingInv(t)
      /\ t.pages = told.pages /\ t.sessions = told.sessions /\ t.books = told.books
  BY <1>6, <1>7, <1>8, AddKeepsRing
<1>10. RoomInv(t.books)
  BY <1>9, <1>6, <1>4, <1>2 DEF RoomInv
<1> QED
  BY <1>9, <1>10, <1>6, <1>4 DEF Held

-----------------------------------------------------------------------------
\* The store that is written, t, and the one it was before, s, when a piece is
\* written.
LEMMA FlushWrites ==
  ASSUME IInv, NEW piece \in Sitting, piece.stored <= piece.turns, Flush(piece)
  PROVE  \E s, t :
           /\ IF loaded THEN s = store ELSE s \in {OnCard, Fresh}
           /\ Held(t) /\ t.books[piece.book] # None
           /\ t.pages = s.pages + (piece.turns - piece.stored)
           /\ t.sessions = s.sessions + (IF piece.counted THEN 0 ELSE 1)
           /\ store' = t /\ loaded' = TRUE /\ card' \in {t, card, Torn} /\ faults' \in Nat
           /\ faults' = 0 => faults = 0 /\ s = card /\ card' = t
<1>1. PICK s \in {store, OnCard, Fresh}, n \in 0..1, mins \in 1..MAX_MINUTES :
        /\ Knows(s, n)
        /\ \E listed : Entered(s.books, piece.book, listed) /\ Save(Piece(s, piece, mins, listed), n)
  BY DEF Flush
<1>2. PICK listed : Entered(s.books, piece.book, listed) /\ Save(Piece(s, piece, mins, listed), n)
  BY <1>1
<1> DEFINE t == Piece(s, piece, mins, listed)
<1>3. Held(s)
  BY <1>1, FreshHeld DEF IInv
<1>4. today \in Day \cup {-1} /\ faults \in Nat /\ n \in Nat
  BY DEF IInv, TypeOK
<1>5. /\ Held(t) /\ t.books[piece.book] # None
      /\ t.pages = s.pages + (piece.turns - piece.stored)
      /\ t.sessions = s.sessions + (IF piece.counted THEN 0 ELSE 1)
  BY <1>2, <1>3, <1>4, PieceHeld
<1>6. Save(t, n)
  BY <1>2
<1> HIDE DEF t
<1>7. /\ store' = t /\ loaded' = TRUE /\ card' \in {t, card, Torn} /\ faults' \in Nat
      /\ faults' = 0 => faults = 0 /\ n = 0 /\ card' = t
  BY <1>4, <1>6 DEF Save
<1>8. IF loaded THEN s = store ELSE s \in {OnCard, Fresh}
  BY <1>1 DEF Knows
<1>9. ASSUME faults' = 0 PROVE s = card
  <2>1. faults = 0 /\ n = 0
    BY <1>7, <1>9
  <2>2. card # Torn /\ (loaded => card = store)
    BY <2>1 DEF IInv, FaultlessInv
  <2>3. (loaded /\ s = store) \/ s = OnCard
    BY <1>1, <2>1 DEF Knows
  <2> QED
    BY <2>2, <2>3 DEF OnCard
<1> QED
  BY <1>5, <1>7, <1>8, <1>9

\* A store with nothing that was read twice, also when nothing was read.
LEMMA AnyBounded ==
  ASSUME IInv, NEW s, IF loaded THEN s = store ELSE s \in {OnCard, Fresh}
  PROVE  s.pages \in Nat /\ s.sessions \in Nat /\ Bounded(s)
<1>1. store \in Store /\ OnCard \in Store /\ Fresh \in Store
  BY FreshHeld DEF IInv, Held
<1>2. /\ \A u \in Store : u.pages \in Nat /\ u.sessions \in Nat
      /\ Fresh.pages = 0 /\ Fresh.sessions = 0
  BY DEF Store, Fresh
<1>3. sitting # None => sitting.turns \in Nat /\ sitting.stored \in Nat /\ sitting.turns - sitting.stored \in Nat
  BY DEF IInv, TypeOK, SittingInv, Sitting
<1>4. Unwritten \in Nat /\ Unknown \in Nat /\ lost \in Nat /\ missed \in Nat /\ read \in Nat /\ sat \in Nat
  BY <1>3 DEF Unwritten, Unknown, IInv, TypeOK
<1>5. Bounded(OnCard) /\ (loaded => Bounded(store))
  BY DEF IInv
<1>6. Bounded(Fresh)
  BY <1>1, <1>2, <1>4, <1>5 DEF Bounded
<1> QED
  BY <1>1, <1>2, <1>5, <1>6

-----------------------------------------------------------------------------
\* Every step keeps the invariant.

LEMMA InitInv == Init => IInv
<1>1. SUFFICES ASSUME Init PROVE IInv
  OBVIOUS
<1>2. Held(Fresh) /\ Fresh # Torn
  BY FreshHeld, ReadingStatsAssumption DEF Held
<1>3. store = Fresh /\ card = Fresh /\ OnCard = Fresh
  BY <1>1, <1>2 DEF Init, OnCard
<1>4. TypeOK
  BY <1>1, <1>2, <1>3 DEF Init, TypeOK, Held
<1>5. Fresh.pages = 0 /\ Fresh.sessions = 0
  BY DEF Fresh
<1>6. Unwritten = 0 /\ Unknown = 0
  BY <1>1 DEF Init, Unwritten, Unknown
<1>7. Bounded(Fresh)
  BY <1>1, <1>5, <1>6 DEF Init, Bounded
<1>8. SittingInv
  BY <1>1 DEF Init, SittingInv
<1>9. FaultlessInv
  BY <1>1, <1>2, <1>3, <1>5, <1>6 DEF Init, FaultlessInv
<1> QED
  BY <1>2, <1>3, <1>4, <1>7, <1>8, <1>9 DEF IInv

\* What the counters of an open book are, as numbers.
LEMMA Counters ==
  ASSUME IInv
  PROVE  /\ Unwritten \in Nat /\ Unknown \in Nat
         /\ lost \in Nat /\ missed \in Nat /\ read \in Nat /\ sat \in Nat /\ faults \in Nat
         /\ sitting # None =>
              /\ sitting \in Sitting /\ sitting.book \in Book
              /\ sitting.turns \in Nat /\ sitting.stored \in Nat /\ sitting.counted \in BOOLEAN
              /\ sitting.stored <= sitting.turns /\ Unwritten = sitting.turns - sitting.stored
              /\ Unwritten < FlushTurns
              /\ Unknown = IF sitting.turns = 0 \/ sitting.counted THEN 0 ELSE 1
         /\ sitting = None => Unwritten = 0 /\ Unknown = 0
<1>1. /\ sitting # None =>
           /\ sitting \in Sitting /\ sitting.book \in Book
           /\ sitting.turns \in Nat /\ sitting.stored \in Nat /\ sitting.counted \in BOOLEAN
           /\ sitting.stored <= sitting.turns /\ sitting.turns - sitting.stored < FlushTurns
  BY DEF IInv, TypeOK, SittingInv, Sitting
<1>2. lost \in Nat /\ missed \in Nat /\ read \in Nat /\ sat \in Nat /\ faults \in Nat
  BY DEF IInv, TypeOK
<1> QED
  BY <1>1, <1>2 DEF Unwritten, Unknown

LEMMA OpenInv == ASSUME IInv, NEW b \in Book, Open(b) PROVE IInv'
<1> USE DEF Open
<1>0. sitting' \in Sitting
  BY DEF Sitting
<1>1. sitting' \in Sitting /\ sitting' # None
  BY <1>0, ReadingStatsAssumption
<1>2. /\ sitting'.book = b /\ sitting'.turns = 0 /\ sitting'.stored = 0 /\ sitting'.counted = FALSE
  OBVIOUS
<1>3. TypeOK'
  BY <1>1 DEF IInv, TypeOK
<1>4. OnCard' = OnCard
  BY DEF OnCard
<1>5. Held(store)' /\ Held(OnCard)'
  BY <1>4 DEF IInv, Held, RingInv, RoomInv, InWindow
<1>6. SittingInv'
  BY <1>1, <1>2, ReadingStatsAssumption DEF SittingInv
<1>7. Unwritten = 0 /\ Unknown = 0 /\ Unwritten' = 0 /\ Unknown' = 0
  BY <1>1, <1>2 DEF Unwritten, Unknown
<1>8. Bounded(OnCard)' /\ (loaded => Bounded(store))'
  BY <1>4, <1>7 DEF IInv, Bounded
<1>9. FaultlessInv'
  BY <1>7 DEF IInv, FaultlessInv
<1> QED
  BY <1>3, <1>5, <1>6, <1>8, <1>9 DEF IInv

LEMMA ClockInv == ASSUME IInv, NEW d \in Day \cup {-1}, ClockMoves(d) PROVE IInv'
<1> USE DEF ClockMoves
<1>1. TypeOK'
  BY DEF IInv, TypeOK
<1>2. OnCard' = OnCard /\ Unwritten' = Unwritten /\ Unknown' = Unknown
  BY DEF OnCard, Unwritten, Unknown
<1>3. Held(store)' /\ Held(OnCard)'
  BY <1>2 DEF IInv, Held
<1>4. SittingInv' /\ Bounded(OnCard)' /\ (loaded => Bounded(store))' /\ FaultlessInv'
  BY <1>2 DEF IInv, SittingInv, Bounded, FaultlessInv
<1> QED
  BY <1>1, <1>3, <1>4 DEF IInv

LEMMA LookInv == ASSUME IInv, Look PROVE IInv'
<1>1. PICK s \in {store, OnCard, Fresh}, n \in 0..1 : Knows(s, n) /\ store' = s /\ faults' = faults + n
  BY DEF Look
<1>2. /\ loaded' = TRUE /\ OnCard' = OnCard /\ Unwritten' = Unwritten /\ Unknown' = Unknown
      /\ UNCHANGED <<card, sitting, today, read, sat, lost, missed>>
  BY DEF Look, OnCard, Unwritten, Unknown
<1>3. IF loaded THEN s = store ELSE s \in {OnCard, Fresh}
  BY <1>1 DEF Knows
<1>4. Held(s) /\ s \in Store
  BY <1>1, FreshHeld DEF IInv, Held
<1>5. faults \in Nat /\ faults' \in Nat /\ (faults' = 0 => faults = 0 /\ n = 0)
  BY <1>1 DEF IInv, TypeOK
<1>6. TypeOK'
  BY <1>1, <1>2, <1>4, <1>5 DEF IInv, TypeOK
<1>7. Held(store)' /\ Held(OnCard)'
  BY <1>1, <1>2, <1>4 DEF IInv
<1>8. SittingInv'
  BY <1>1, <1>2, <1>3 DEF IInv, SittingInv
<1>9. Bounded(s)
  BY <1>3, AnyBounded
<1>10. Bounded(OnCard)' /\ Bounded(store)'
  BY <1>1, <1>2, <1>9 DEF IInv, Bounded
<1>11. FaultlessInv'
  <2>1. SUFFICES ASSUME faults' = 0 PROVE FaultlessInv'
    BY DEF FaultlessInv
  <2>2. faults = 0 /\ n = 0
    BY <2>1, <1>5
  <2>3. card # Torn /\ OnCard = card /\ (loaded => card = store)
    BY <2>2 DEF IInv, FaultlessInv, OnCard
  <2>4. s = card
    BY <2>2, <2>3, <1>1 DEF Knows
  <2> QED
    BY <2>2, <2>4, <1>1, <1>2 DEF IInv, FaultlessInv
<1> QED
  BY <1>6, <1>7, <1>8, <1>10, <1>11 DEF IInv

LEMMA RestartInv == ASSUME IInv, Restart PROVE IInv'
<1> USE DEF Restart
<1>1. Held(Fresh) /\ Fresh \in Store
  BY FreshHeld DEF Held
<1>2. OnCard' = OnCard /\ Unwritten' = 0 /\ Unknown' = 0
  BY DEF OnCard, Unwritten, Unknown
<1>3. TypeOK'
  <2>1. lost' \in Nat /\ missed' \in Nat
    BY Counters
  <2> QED
    BY <1>1, <2>1 DEF IInv, TypeOK
<1>4. Held(store)' /\ Held(OnCard)'
  BY <1>1, <1>2 DEF IInv
<1>5. SittingInv'
  BY DEF SittingInv
<1>6. OnCard.pages \in Nat /\ OnCard.sessions \in Nat
  BY DEF IInv, Held, Store
<1>7. Bounded(OnCard)'
  BY <1>2, <1>6, Counters DEF IInv, Bounded
<1>8. FaultlessInv'
  <2>1. SUFFICES ASSUME faults = 0 PROVE FaultlessInv'
    BY DEF FaultlessInv
  <2>2. card # Torn /\ card \in Store
    BY <2>1 DEF IInv, FaultlessInv, TypeOK
  <2>3. card.pages \in Nat /\ card.sessions \in Nat
    BY <2>2 DEF Store
  <2> QED
    BY <2>1, <2>2, <2>3, <1>2, Counters DEF IInv, FaultlessInv
<1> QED
  BY <1>3, <1>4, <1>5, <1>7, <1>8 DEF IInv

\* A piece is written, and the sitting ends or goes on with nothing to write.
LEMMA WrittenInv ==
  ASSUME IInv, NEW piece \in Sitting, piece.stored <= piece.turns, piece.turns > 0, Flush(piece),
         sitting' \in {None, Written(piece)}, UNCHANGED <<today, lost, missed>>,
         read' \in Nat, read' = read + (piece.turns - piece.stored) - Unwritten,
         sat' \in Nat, sat' = sat + (IF piece.counted THEN 0 ELSE 1) - Unknown
  PROVE  IInv'
<1>1. PICK s, t :
        /\ IF loaded THEN s = store ELSE s \in {OnCard, Fresh}
        /\ Held(t) /\ t.books[piece.book] # None
        /\ t.pages = s.pages + (piece.turns - piece.stored)
        /\ t.sessions = s.sessions + (IF piece.counted THEN 0 ELSE 1)
        /\ store' = t /\ loaded' = TRUE /\ card' \in {t, card, Torn} /\ faults' \in Nat
        /\ faults' = 0 => faults = 0 /\ s = card /\ card' = t
  BY FlushWrites
<1>2. /\ piece.turns \in Nat /\ piece.stored \in Nat /\ piece.counted \in BOOLEAN /\ piece.book \in Book
  BY DEF Sitting
<1>3. /\ Written(piece) \in Sitting /\ Written(piece).turns = piece.turns
      /\ Written(piece).stored = piece.turns /\ Written(piece).counted = TRUE
      /\ Written(piece).book = piece.book
  BY <1>2 DEF Written, Sitting
<1>4. sitting' # None => sitting' = Written(piece)
  OBVIOUS
<1>5. t \in Store /\ t # Torn
  BY <1>1, ReadingStatsAssumption DEF Held
<1>6. OnCard' \in {t, OnCard, Fresh}
  BY <1>1, <1>5 DEF OnCard
<1>7. TypeOK'
  BY <1>1, <1>3, <1>5 DEF IInv, TypeOK
<1>8. Held(store)' /\ Held(OnCard)'
  BY <1>1, <1>6, FreshHeld DEF IInv
<1>9. SittingInv'
  BY <1>1, <1>2, <1>3, <1>4, ReadingStatsAssumption DEF SittingInv
<1>10. Unwritten' = 0 /\ Unknown' = 0
  BY <1>2, <1>3, <1>4 DEF Unwritten, Unknown
<1>11. s.pages \in Nat /\ s.sessions \in Nat /\ Bounded(s)
  BY <1>1, AnyBounded
<1>12. t.pages + lost <= read' /\ t.sessions + missed <= sat'
  BY <1>1, <1>2, <1>11, Counters DEF Bounded
<1>13. \A u \in {OnCard, Fresh} : u.pages + lost <= read' /\ u.sessions + missed <= sat'
  <2>1. OnCard.pages \in Nat /\ OnCard.sessions \in Nat /\ Fresh.pages = 0 /\ Fresh.sessions = 0
    BY DEF IInv, Held, Store, Fresh
  <2>2. Bounded(OnCard)
    BY DEF IInv
  <2> QED
    BY <2>1, <2>2, <1>2, Counters DEF Bounded
<1>14. \A u \in Store : u.pages \in Nat /\ u.sessions \in Nat
  BY DEF Store
<1>15. OnCard \in Store /\ Fresh \in Store
  BY FreshHeld DEF IInv, Held
<1>16. Bounded(OnCard)' /\ Bounded(store)'
  <2>1. \A u \in Store : u.pages + lost <= read' /\ u.sessions + missed <= sat'
                          => u.pages + Unwritten' + lost' <= read' /\ u.sessions + Unknown' + missed' <= sat'
    BY <1>14, <1>10, Counters
  <2>2. store' \in Store /\ OnCard' \in Store
    BY <1>1, <1>5, <1>6, <1>15
  <2>3. /\ store'.pages + lost <= read' /\ store'.sessions + missed <= sat'
        /\ OnCard'.pages + lost <= read' /\ OnCard'.sessions + missed <= sat'
    BY <1>1, <1>6, <1>12, <1>13
  <2> QED
    BY <2>1, <2>2, <2>3 DEF Bounded
<1>17. FaultlessInv'
  <2>1. SUFFICES ASSUME faults' = 0 PROVE FaultlessInv'
    BY DEF FaultlessInv
  <2>2. faults = 0 /\ s = card /\ card' = t
    BY <2>1, <1>1
  <2>3. s.pages + Unwritten + lost = read /\ s.sessions + Unknown + missed = sat
    BY <2>2 DEF IInv, FaultlessInv
  <2>4. t.pages + lost = read' /\ t.sessions + missed = sat'
    BY <2>3, <1>1, <1>2, <1>11, Counters
  <2>5. card' = t /\ store' = t /\ card' # Torn
    BY <2>2, <1>1, <1>5
  <2>6. t.pages + Unwritten' + lost' = read' /\ t.sessions + Unknown' + missed' = sat'
    BY <2>4, <1>14, <1>5, <1>10, Counters
  <2> QED
    BY <2>5, <2>6 DEF FaultlessInv
<1> QED
  BY <1>7, <1>8, <1>9, <1>16, <1>17 DEF IInv

LEMMA TurnInv == ASSUME IInv, Turn PROVE IInv'
<1> DEFINE piece == [sitting EXCEPT !.turns = @ + 1]
<1>1. /\ sitting # None /\ read' = read + 1 /\ sat' = sat + (IF sitting.turns = 0 THEN 1 ELSE 0)
      /\ UNCHANGED <<today, lost, missed>>
      /\ IF piece.turns - piece.stored >= FlushTurns
         THEN Flush(piece) /\ sitting' = Written(piece)
         ELSE sitting' = piece /\ UNCHANGED <<store, loaded, card, faults>>
  BY DEF Turn
<1>2. /\ sitting \in Sitting /\ sitting.book \in Book /\ sitting.turns \in Nat /\ sitting.stored \in Nat
      /\ sitting.counted \in BOOLEAN /\ sitting.stored <= sitting.turns
      /\ Unwritten = sitting.turns - sitting.stored
      /\ Unknown = IF sitting.turns = 0 \/ sitting.counted THEN 0 ELSE 1
  BY <1>1, Counters
<1>3. /\ piece \in Sitting /\ piece.book = sitting.book /\ piece.turns = sitting.turns + 1
      /\ piece.stored = sitting.stored /\ piece.counted = sitting.counted
  BY <1>2 DEF Sitting
<1> HIDE DEF piece
<1>4. sitting.counted => sitting.turns > 0
  BY <1>1 DEF IInv, SittingInv
<1>5. CASE piece.turns - piece.stored >= FlushTurns
  <2>1. Flush(piece) /\ sitting' = Written(piece)
    BY <1>1, <1>5
  <2>2. /\ read' \in Nat /\ read' = read + (piece.turns - piece.stored) - Unwritten
        /\ sat' \in Nat /\ sat' = sat + (IF piece.counted THEN 0 ELSE 1) - Unknown
    <3>1. read' \in Nat /\ read' = read + (piece.turns - piece.stored) - Unwritten
      BY <1>1, <1>2, <1>3, Counters
    <3>2. sat \in Nat
      BY Counters
    <3>3. sat' \in Nat /\ sat' = sat + (IF sitting.counted THEN 0 ELSE 1) - Unknown
      BY <1>1, <1>2, <1>4, <3>2
    <3> QED
      BY <3>1, <3>3, <1>3
  <2>3. piece.stored <= piece.turns /\ piece.turns > 0
    BY <1>2, <1>3
  <2> QED
    BY <2>1, <2>2, <2>3, <1>1, <1>3, WrittenInv
<1>6. CASE ~(piece.turns - piece.stored >= FlushTurns)
  <2>1. sitting' = piece /\ UNCHANGED <<store, loaded, card, faults>>
    BY <1>1, <1>6
  <2>2. sitting' # None
    BY <2>1, <1>3, ReadingStatsAssumption
  <2>3. OnCard' = OnCard
    BY <2>1 DEF OnCard
  <2>4. TypeOK'
    <3>1. read' \in Nat /\ sat' \in Nat
      BY <1>1, <1>2, Counters
    <3> QED
      BY <2>1, <3>1, <1>1, <1>3 DEF IInv, TypeOK
  <2>5. Held(store)' /\ Held(OnCard)'
    BY <2>1, <2>3 DEF IInv, Held, RingInv, RoomInv, InWindow
  <2>6. SittingInv'
    <3>1. /\ piece.stored <= piece.turns /\ piece.turns - piece.stored < FlushTurns
          /\ piece.stored > 0 => piece.counted
          /\ piece.turns > 0
      BY <1>1, <1>2, <1>3, <1>6, ReadingStatsAssumption DEF IInv, SittingInv
    <3>2. piece.counted => loaded /\ store.books[piece.book] # None
      BY <1>1, <1>3 DEF IInv, SittingInv
    <3> QED
      BY <2>1, <3>1, <3>2 DEF SittingInv
  <2>7. Unwritten' = Unwritten + 1
    BY <2>1, <2>2, <1>2, <1>3 DEF Unwritten
  <2>8. Unknown' = Unknown + (IF sitting.turns = 0 THEN 1 ELSE 0)
    <3>1. Unknown' = IF sitting.counted THEN 0 ELSE 1
      BY <2>1, <2>2, <1>2, <1>3 DEF Unknown
    <3> QED
      BY <3>1, <1>2, <1>4
  <2>9. OnCard.pages \in Nat /\ OnCard.sessions \in Nat /\ store.pages \in Nat /\ store.sessions \in Nat
    BY DEF IInv, Held, Store
  <2>10. Bounded(OnCard)' /\ (loaded => Bounded(store))'
    <3>1. Bounded(OnCard) => Bounded(OnCard)'
      BY <2>3, <2>7, <2>8, <2>9, <1>1, Counters DEF Bounded
    <3>2. Bounded(store) => Bounded(store)'
      BY <2>1, <2>7, <2>8, <2>9, <1>1, Counters DEF Bounded
    <3> QED
      BY <2>1, <3>1, <3>2 DEF IInv
  <2>11. FaultlessInv'
    <3>1. SUFFICES ASSUME faults = 0 PROVE FaultlessInv'
      BY <2>1 DEF FaultlessInv
    <3>2. /\ card # Torn /\ (loaded => card = store)
          /\ card.pages + Unwritten + lost = read /\ card.sessions + Unknown + missed = sat
      BY <3>1 DEF IInv, FaultlessInv
    <3>3. card.pages \in Nat /\ card.sessions \in Nat
      BY <3>2, <2>9 DEF OnCard
    <3>4. card.pages + Unwritten' + lost = read' /\ card.sessions + Unknown' + missed = sat'
      BY <3>2, <3>3, <2>7, <2>8, <1>1, Counters
    <3> QED
      BY <3>2, <3>4, <2>1, <1>1 DEF FaultlessInv
  <2> QED
    BY <2>4, <2>5, <2>6, <2>10, <2>11 DEF IInv
<1> QED
  BY <1>5, <1>6

LEMMA CloseInv == ASSUME IInv, Close PROVE IInv'
<1>1. /\ sitting # None /\ sitting' = None /\ UNCHANGED <<today, read, sat, lost, missed>>
      /\ IF Unwritten = 0 THEN UNCHANGED <<store, loaded, card, faults>> ELSE Flush(sitting)
  BY DEF Close
<1>2. /\ sitting \in Sitting /\ sitting.turns \in Nat /\ sitting.stored \in Nat
      /\ sitting.counted \in BOOLEAN /\ sitting.stored <= sitting.turns
      /\ Unwritten = sitting.turns - sitting.stored
      /\ Unknown = IF sitting.turns = 0 \/ sitting.counted THEN 0 ELSE 1
  BY <1>1, Counters
<1>3. CASE Unwritten # 0
  <2>1. Flush(sitting) /\ sitting.turns > 0
    BY <1>1, <1>2, <1>3
  <2>2. /\ read' \in Nat /\ read' = read + (sitting.turns - sitting.stored) - Unwritten
    BY <1>1, <1>2, Counters
  <2>3. sat' \in Nat /\ sat' = sat + (IF sitting.counted THEN 0 ELSE 1) - Unknown
    BY <2>1, <1>1, <1>2, Counters
  <2> QED
    BY <2>1, <2>2, <2>3, <1>1, <1>2, WrittenInv
<1>4. CASE Unwritten = 0
  <2>1. UNCHANGED <<store, loaded, card, faults>>
    BY <1>1, <1>4
  <2>2. Unknown = 0
    BY <1>1, <1>2, <1>4 DEF IInv, SittingInv
  <2>3. Unwritten' = 0 /\ Unknown' = 0 /\ OnCard' = OnCard
    BY <1>1, <2>1 DEF Unwritten, Unknown, OnCard
  <2>4. TypeOK'
    BY <1>1, <2>1 DEF IInv, TypeOK
  <2>5. Held(store)' /\ Held(OnCard)'
    BY <2>1, <2>3 DEF IInv, Held, RingInv, RoomInv, InWindow
  <2>6. SittingInv'
    BY <1>1 DEF SittingInv
  <2>7. Bounded(OnCard)' /\ (loaded => Bounded(store))'
    BY <1>1, <1>4, <2>1, <2>2, <2>3 DEF IInv, Bounded
  <2>8. FaultlessInv'
    BY <1>1, <1>4, <2>1, <2>2, <2>3 DEF IInv, FaultlessInv
  <2> QED
    BY <2>4, <2>5, <2>6, <2>7, <2>8 DEF IInv
<1> QED
  BY <1>3, <1>4

\* Every step of the reader and of the store keeps the invariant.
THEOREM Inductive == IInv /\ [Next]_vars => IInv'
<1> SUFFICES ASSUME IInv, [Next]_vars PROVE IInv'
  OBVIOUS
<1>1. CASE Next
  BY <1>1, TurnInv, CloseInv, LookInv, RestartInv, OpenInv, ClockInv DEF Next
<1>2. CASE UNCHANGED vars
  <2>1. OnCard' = OnCard /\ Unwritten' = Unwritten /\ Unknown' = Unknown
    BY <1>2 DEF vars, OnCard, Unwritten, Unknown
  <2>2. TypeOK'
    BY <1>2 DEF vars, IInv, TypeOK
  <2>3. Held(store)' /\ Held(OnCard)'
    BY <1>2, <2>1 DEF vars, IInv, Held
  <2>4. SittingInv' /\ Bounded(OnCard)' /\ (loaded => Bounded(store))' /\ FaultlessInv'
    BY <1>2, <2>1 DEF vars, IInv, SittingInv, Bounded, FaultlessInv
  <2> QED
    BY <2>2, <2>3, <2>4 DEF IInv
<1> QED
  BY <1>1, <1>2

-----------------------------------------------------------------------------
\* What the invariant says of the properties.

LEMMA RingFollows == IInv => RingShowsTheDays
<1> SUFFICES ASSUME IInv, NEW s \in {store, OnCard}, NEW d \in Day
             PROVE  On(s, d) = Ideal(s.recorded, d)
  BY DEF RingShowsTheDays
<1>1. s \in Store /\ RingInv(s)
  BY DEF IInv, Held
<1> QED
  BY <1>1, RingShows

LEMMA CountFollows == IInv => CountedOnce
<1> SUFFICES ASSUME IInv PROVE CountedOnce
  OBVIOUS
<1>1. Unwritten < FlushTurns
  BY Counters, ReadingStatsAssumption
<1>2. Bounded(Kept) /\ Bounded(OnCard)
  BY DEF IInv, Kept
<1>3. faults = 0 => Kept = card
  BY DEF IInv, FaultlessInv, Kept, OnCard
<1>4. faults = 0 => Kept.pages + Unwritten + lost = read /\ Kept.sessions + Unknown + missed = sat
  BY <1>3 DEF IInv, FaultlessInv
<1> QED
  BY <1>1, <1>2, <1>4 DEF CountedOnce, Bounded

LEMMA ListedFollows == IInv => OpenBookIsListed
<1> SUFFICES ASSUME IInv PROVE OpenBookIsListed
  OBVIOUS
<1>1. \A s \in {store, OnCard} : Cardinality(Listed(s.books)) <= MAX_BOOKS
  BY DEF IInv, Held, RoomInv
<1> QED
  BY <1>1 DEF IInv, SittingInv, OpenBookIsListed

\* The store, its file and the reader's counters always have their types
\* (ReadingStatsStore.h, EpubReaderActivity.h).
THEOREM TypeCorrect == Spec => []TypeOK
<1>1. IInv => TypeOK
  BY DEF IInv
<1> QED
  BY <1>1, InitInv, Inductive, PTL DEF Spec

\* However the clock moves, and however often the card fails, the ring shows every
\* day of its window the minutes that were recorded on it (DayLog::add and on).
THEOREM RingIsTheDays == Spec => []RingShowsTheDays
  BY RingFollows, InitInv, Inductive, PTL DEF Spec

\* Of the pages and sittings that were read none is counted twice, and while the
\* card works none is left out but those that went with a restart
\* (EpubReaderActivity::flushSessionStats, ReadingStatsStore::recordSession).
THEOREM CountsOnce == Spec => []CountedOnce
  BY CountFollows, InitInv, Inductive, PTL DEF Spec

\* The list of books has room for what it holds, and holds the book that is read
\* (ReadingStatsStore::recordSession).
THEOREM TheOpenBookIsListed == Spec => []OpenBookIsListed
  BY ListedFollows, InitInv, Inductive, PTL DEF Spec
=============================================================================
