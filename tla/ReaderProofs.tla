---------------------------- MODULE ReaderProofs ----------------------------
(***************************************************************************)
(* What the reader keeps of a book: the place in it (ReadingPlace), for     *)
(* any book, layouts and depth of notes, and the words looked up in it     *)
(* (WordList), for any dictionary, any boxes and any length of the list.   *)
(***************************************************************************)
EXTENDS ReadingPlace, WordList, WellFoundedInduction, FiniteSetTheorems,
        SequenceTheorems, TLAPS

-----------------------------------------------------------------------------
(* ReadingPlace: the place on the card is the page on the panel, and that  *)
(* is the page that was asked for.                                         *)

\* Who holds the mutex: a drawing has its page, a save of the main task keeps it waiting.
Locks ==
  /\ render # "idle" => section # None /\ drawn # None /\ screen = "page"
  /\ render = "save" => save.step # "none"
  /\ save.step # "none" =>
       /\ save.place # None
       /\ render = IF save.then = "draw" THEN "save" ELSE "idle"
       /\ save.then # "draw" => main = "loop" /\ screen # "closed"

\* The chapter that is loaded is the one the owner is in, laid out as he set it;
\* after the last page it is the last one.
SectionCurrent ==
  section # None =>
    /\ screen = "page" /\ section.layout = layout /\ section.page < PageCount
    /\ spine = section.chapter \/ (AtEnd /\ section.chapter = Chapters - 1)

\* As long as nobody changed the place under a drawing, it draws what is loaded,
\* and the record it writes is of that page.
DrawingCurrent ==
  render # "idle" /\ raced # "now" =>
    /\ section = drawn /\ spine = section.chapter
    /\ render = "save" =>
         save.place = [spine |-> spine, page |-> section.page, total |-> PageCount,
                       offset |-> StartOf(section.page, section.layout)]

\* What was saved last is what was drawn last, and it is what the card has,
\* but for the failure or the race that the history remembers.
DrawnIsSaved ==
  render = "idle" /\ save.step = "none" /\ drawn # None /\ ~failed /\ raced = "no" =>
    saved = [spine |-> drawn.chapter, page |-> drawn.page, total |-> Pages(drawn.chapter, drawn.layout)]
SavedIsOnCard ==
  save.step = "none" /\ saved # None /\ ~failed /\ raced = "no" =>
    /\ file # None /\ file.spine = saved.spine /\ file.page = saved.page /\ file.total = saved.total
    /\ \E l \in Layout : Pages(saved.spine, l) = saved.total /\ file.offset = StartOf(saved.page, l)

CardInv == TypeOK /\ Locks /\ SectionCurrent /\ DrawingCurrent /\ DrawnIsSaved /\ SavedIsOnCard

\* Nothing is remembered of the chapter that is to be loaded.
Unremembered == cached.spine # spine \/ (cached.total = 0 /\ cached.offset < 0)
Pending == jump.last \/ jump.offset # -1 \/ jump.anchor # -1

\* A chapter that is loaded has used up what was remembered for its loading.
Loading ==
  section # None =>
    /\ built[section.chapter] = layout
    /\ jump.offset = -1 /\ jump.anchor = -1 /\ cached.total = 0 /\ cached.offset = -1

\* A jump waits for a loading that is asked for, or it has outlived what asked for it.
Jumps == Pending /\ ~stale => requested /\ section = None

\* After the last page there is no place, and no jump that is not of before.
Leaving == save.step # "none" /\ save.then \in {"clear", "close"}
AfterEnd ==
  AtEnd =>
    /\ ~Leaving => mark = None
    /\ Pending => stale
    /\ section = None => /\ jump.offset = -1 /\ jump.anchor = -1
                         /\ cached.spine = Chapters \/ (cached.total = 0 /\ cached.offset = -1)

Listing ==
  screen = "list" =>
    /\ ~requested /\ section = None /\ main = "loop" /\ render = "idle"
    /\ save.step = "none" \/ save.then = "close"

NotesInBook == \A i \in 1..Len(notes) : notes[i].page < Pages(notes[i].spine, notes[i].layout)
MarkInBook  == mark # None => mark.offset \in 0..(Length[mark.spine] - 1)

\* A page, a number of pages and a text offset from which the loading finds the place m:
\* by the page when the section file is for this layout or no offset is known, else by the offset.
Resumes(page, total, offset, m) ==
  \/ built[m.spine] = layout /\ page = PageAt(m.offset, layout)
  \/ built[m.spine] # layout /\ offset = m.offset
  \/ offset < 0 /\ total \in {0, Pages(m.spine, layout)} /\ page = PageAt(m.offset, layout)

\* A record that leads back to the mark, also after the layout has changed when it has the mark's offset.
Leads(place) ==
  /\ place # None /\ place.spine = mark.spine
  /\ Resumes(place.page, place.total, place.offset, mark)
  /\ place.offset = mark.offset /\ built[mark.spine] # None =>
       place.page = PageAt(mark.offset, built[mark.spine])

\* What is pending or remembered leads the loading to the mark.
Found ==
  \/ jump.offset = mark.offset /\ jump.anchor < 0
  \/ jump.anchor = mark.offset /\ jump.offset < 0 /\ Unremembered
  \/ jump.last /\ mark.offset = Length[spine] - 1 /\ jump.offset < 0 /\ jump.anchor < 0 /\ Unremembered
  \/ ~Pending /\ Unremembered /\ nextPage = PageAt(mark.offset, layout)
  \/ ~Pending /\ cached.spine = spine /\ Resumes(nextPage, cached.total, cached.offset, mark)

\* The owner's place is the page that is loaded, or it will be found.
Asked ==
  mark # None /\ ~stale /\ screen # "closed" /\ ~Leaving =>
    /\ spine = mark.spine
    /\ section = None => (requested \/ screen = "list") /\ Found
    /\ section # None => section.chapter = spine /\ section.page = PageAt(mark.offset, layout)

\* The same of a book that is being left, and of one that is closed.
SaveLeads == mark # None /\ save.step # "none" /\ save.then # "draw" => Leads(save.place)
Closed ==
  screen = "closed" =>
    /\ section = None /\ spine = 0 /\ nextPage = 0 /\ notes = <<>> /\ ~requested /\ ~stale
    /\ ~Pending /\ cached.total = 0 /\ cached.offset = -1
    /\ main = "loop" /\ render = "idle" /\ save.step = "none"
    /\ mark # None => Leads(file)

PlaceInv ==
  /\ CardInv /\ Loading /\ Jumps /\ AfterEnd /\ Listing
  /\ NotesInBook /\ MarkInBook /\ Asked /\ SaveLeads /\ Closed

-----------------------------------------------------------------------------
(* A natural number lies between the multiples of k around it. *)
LEMMA DivBounds ==
  ASSUME NEW a \in Nat, NEW k \in Nat \ {0}
  PROVE  a \div k \in Nat /\ k * (a \div k) <= a /\ a < k * (a \div k) + k
OBVIOUS

(* And that determines the quotient. *)
LEMMA DivIs ==
  ASSUME NEW a \in Nat, NEW k \in Nat \ {0}, NEW q \in Nat, q * k <= a, a < q * k + k
  PROVE  a \div k = q
<1> DEFINE d == a \div k
<1>1. d \in Nat /\ k * d <= a /\ a < k * d + k
  BY DivBounds
<1> HIDE DEF d
<1>2. ~(d < q)
  <2>1. d < q => k * (d + 1) <= k * q
    BY <1>1
  <2> QED
    BY <1>1, <2>1
<1>3. ~(q < d)
  <2>1. q < d => k * (q + 1) <= k * d
    BY <1>1
  <2> QED
    BY <1>1, <2>1
<1>4. d = q
  BY <1>1, <1>2, <1>3
<1> QED
  BY <1>4 DEF d

(* Rounding up is one more than rounding the number before down. *)
LEMMA DivUp ==
  ASSUME NEW n \in Nat \ {0}, NEW k \in Nat \ {0}
  PROVE  (n + k - 1) \div k = (n - 1) \div k + 1
<1> DEFINE d == (n - 1) \div k
<1>1. d \in Nat /\ k * d <= n - 1 /\ n - 1 < k * d + k
  BY DivBounds
<1> HIDE DEF d
<1>2. (d + 1) * k <= n + k - 1 /\ n + k - 1 < (d + 1) * k + k
  BY <1>1
<1>3. (n + k - 1) \div k = d + 1
  BY <1>1, <1>2, DivIs
<1> QED
  BY <1>3 DEF d

-----------------------------------------------------------------------------
(* A chapter has a page, and the last one holds its last offset. *)
LEMMA PagesType ==
  ASSUME NEW c \in Chapter, NEW l \in Layout
  PROVE  /\ Pages(c, l) \in Nat \ {0}
         /\ PageAt(Length[c] - 1, l) = Pages(c, l) - 1
<1>1. Length[c] \in Nat \ {0} /\ PageSize[l] \in Nat \ {0}
  BY ReadingPlaceAssumption
<1>2. (Length[c] - 1) \div PageSize[l] \in Nat
  BY <1>1, DivBounds
<1>3. Pages(c, l) = (Length[c] - 1) \div PageSize[l] + 1
  BY <1>1, DivUp DEF Pages
<1> QED
  BY <1>2, <1>3 DEF PageAt

LEMMA PageType ==
  ASSUME NEW p \in Nat, NEW l \in Layout
  PROVE  StartOf(p, l) \in Nat /\ PageAt(p, l) \in Nat
<1>1. PageSize[l] \in Nat \ {0}
  BY ReadingPlaceAssumption
<1>2. p \div PageSize[l] \in Nat
  BY <1>1, DivBounds
<1>3. p * PageSize[l] \in Nat
  BY <1>1
<1> QED
  BY <1>2, <1>3 DEF StartOf, PageAt

(* A page begins on itself. *)
LEMMA PageOfStart ==
  ASSUME NEW p \in Nat, NEW l \in Layout
  PROVE  PageAt(StartOf(p, l), l) = p
<1>1. PageSize[l] \in Nat \ {0}
  BY ReadingPlaceAssumption
<1>2. p * PageSize[l] \in Nat /\ p * PageSize[l] <= p * PageSize[l]
      /\ p * PageSize[l] < p * PageSize[l] + PageSize[l]
  BY <1>1
<1>3. (p * PageSize[l]) \div PageSize[l] = p
  BY <1>1, <1>2, DivIs
<1> QED
  BY <1>3 DEF PageAt, StartOf

LEMMA PageOfZero ==
  ASSUME NEW l \in Layout
  PROVE  PageAt(0, l) = 0
<1>1. PageSize[l] \in Nat \ {0}
  BY ReadingPlaceAssumption
<1>2. 0 * PageSize[l] <= 0 /\ 0 < 0 * PageSize[l] + PageSize[l]
  BY <1>1
<1>3. 0 \div PageSize[l] = 0
  BY <1>1, <1>2, DivIs
<1> QED
  BY <1>3 DEF PageAt

(* An offset of the chapter is on one of its pages. *)
LEMMA PageBound ==
  ASSUME NEW c \in Chapter, NEW l \in Layout, NEW o \in 0..(Length[c] - 1)
  PROVE  PageAt(o, l) \in Nat /\ PageAt(o, l) < Pages(c, l)
<1> DEFINE k == PageSize[l]  n == Length[c] - 1
           d == o \div k     e == n \div k
<1>1. Length[c] \in Nat \ {0} /\ k \in Nat \ {0}
  BY ReadingPlaceAssumption
<1>2. o \in Nat /\ n \in Nat /\ o <= n
  BY <1>1
<1>3. d \in Nat /\ k * d <= o
  BY <1>1, <1>2, DivBounds
<1>4. e \in Nat /\ n < k * e + k
  BY <1>1, <1>2, DivBounds
<1>5. Pages(c, l) = e + 1
  BY <1>1, DivUp DEF Pages
<1> HIDE DEF k, n, d, e
<1>6. ~(e < d)
  <2>1. e < d => k * (e + 1) <= k * d
    BY <1>1, <1>3, <1>4 DEF k
  <2> QED
    BY <1>1, <1>2, <1>3, <1>4, <2>1 DEF k
<1>7. d < e + 1
  BY <1>3, <1>4, <1>6
<1> QED
  BY <1>3, <1>5, <1>7 DEF PageAt, d, k

(* A page of the chapter begins in it. *)
LEMMA StartBound ==
  ASSUME NEW c \in Chapter, NEW l \in Layout, NEW p \in Nat, p < Pages(c, l)
  PROVE  StartOf(p, l) \in 0..(Length[c] - 1)
<1> DEFINE k == PageSize[l]  n == Length[c] - 1  e == n \div k
<1>1. Length[c] \in Nat \ {0} /\ k \in Nat \ {0}
  BY ReadingPlaceAssumption
<1>2. n \in Nat
  BY <1>1
<1>3. e \in Nat /\ k * e <= n
  BY <1>1, <1>2, DivBounds
<1>4. Pages(c, l) = e + 1
  BY <1>1, DivUp DEF Pages
<1> HIDE DEF k, n, e
<1>5. p <= e
  BY <1>3, <1>4
<1>6. k * p <= k * e
  BY <1>1, <1>3, <1>5 DEF k
<1>7. p * k \in 0..n
  BY <1>1, <1>2, <1>3, <1>6 DEF k
<1> QED
  BY <1>7 DEF StartOf, k, n

-----------------------------------------------------------------------------
(* The notes after the last one is taken back. *)
LEMMA NotesTop ==
  ASSUME TypeOK, notes # <<>>
  PROVE  /\ Front(notes) \in Seq(Note) /\ Len(Front(notes)) = Len(notes) - 1
         /\ \A i \in 1..(Len(notes) - 1) : Front(notes)[i] = notes[i]
         /\ Last(notes) \in Note /\ notes[1] \in Note
         /\ Len(notes) \in Nat \ {0}
<1>1. notes \in Seq(Note) /\ Len(notes) \in Nat \ {0}
  BY EmptySeq DEF TypeOK, ReaderOK, NotesOK, CardOK
<1>2. Last(notes) \in Note /\ notes[1] \in Note
  BY <1>1, ElementOfSeq DEF Last
<1>3. 1 \in Int /\ Len(notes) - 1 \in Int /\ \A i \in 1..(Len(notes) - 1) : notes[i] \in Note
  BY <1>1, ElementOfSeq
<1>4. /\ Front(notes) \in Seq(Note)
      /\ Len(Front(notes)) = IF 1 <= Len(notes) - 1 THEN (Len(notes) - 1) - 1 + 1 ELSE 0
      /\ \A i \in 1..((Len(notes) - 1) - 1 + 1) : Front(notes)[i] = notes[1 + i - 1]
  BY <1>3, SubSeqProperties DEF Front
<1> DEFINE n == Len(notes)
<1>n. n \in Nat \ {0}
  BY <1>1
<1> HIDE DEF n
<1>5. ASSUME NEW i \in 1..(n - 1)
      PROVE  i \in 1..((n - 1) - 1 + 1) /\ 1 + i - 1 = i
  BY <1>n
<1>6. (IF 1 <= n - 1 THEN (n - 1) - 1 + 1 ELSE 0) = n - 1
  BY <1>n
<1> QED
  BY <1>1, <1>2, <1>4, <1>5, <1>6 DEF n

LEMMA SmallerType ==
  ASSUME NEW m \in Nat \ {0}, NEW n \in Nat
  PROVE  Smaller(m - 1, n) \in Nat /\ Smaller(m - 1, n) < m
BY DEF Smaller

LEMMA ClearedType ==
  ASSUME NEW c \in [spine : Nat, total : Nat, offset : Offset]
  PROVE  /\ Cleared(c) \in [spine : Nat, total : Nat, offset : Offset]
         /\ Cleared(c).spine = c.spine /\ Cleared(c).total = 0 /\ Cleared(c).offset = -1
<1>1. [c EXCEPT !.total = 0] \in [spine : Nat, total : Nat, offset : Offset]
  OBVIOUS
<1>2. -1 \in Offset
  BY DEF Offset
<1> QED
  BY <1>1, <1>2 DEF Cleared

(* The page that is loaded is a page of the chapter, whatever is remembered. *)

LEMMA LoadedIsPage ==
  ASSUME TypeOK, ~AtEnd
  PROVE  /\ spine \in Chapter
         /\ Loaded \in Section /\ Loaded.chapter = spine /\ Loaded.layout = layout
         /\ Loaded.page < Pages(spine, layout)
<1>1. spine \in Chapter
  BY ReadingPlaceAssumption DEF TypeOK, ReaderOK, CardOK, AtEnd, Chapter
<1>2. layout \in Layout /\ Pages(spine, layout) \in Nat \ {0}
  BY <1>1, PagesType DEF TypeOK, ReaderOK, NotesOK, CardOK
<1> DEFINE total == Pages(spine, layout)
<1>3. TargetPage \in Nat /\ TargetPage < total
  <2>1. Kept \in [spine : Nat, total : Nat, offset : Offset]
    BY ClearedType DEF TypeOK, ReaderOK, CardOK, Kept
  <2>2. jump.anchor \in Int /\ OffsetJump \in Int /\ nextPage \in Nat
    BY <2>1 DEF TypeOK, ReaderOK, CardOK, OffsetJump, Offset
  <2> DEFINE aim == IF jump.anchor >= 0 THEN PageAt(jump.anchor, layout)
                    ELSE IF OffsetJump >= 0 THEN PageAt(OffsetJump, layout)
                    ELSE IF jump.last THEN total - 1 ELSE nextPage
  <2>3. aim \in Nat
    BY <1>2, <2>2, PageType
  <2>4. TargetPage = Smaller(total - 1, aim)
    BY DEF TargetPage
  <2> HIDE DEF aim, total
  <2>5. total \in Nat \ {0}
    BY <1>2 DEF total
  <2> QED
    BY <2>3, <2>4, <2>5, SmallerType
<1>4. ASSUME NEW kept \in [spine : Nat, total : Nat, offset : Offset]
      PROVE  Reposition(TargetPage, kept) \in Nat /\ Reposition(TargetPage, kept) < total
  <2>1. CASE kept.offset >= 0 /\ spine = kept.spine
    <3>1. PageAt(kept.offset, layout) \in Nat
      BY <1>2, <2>1, PageType DEF Offset
    <3>2. Reposition(TargetPage, kept) = Smaller(total - 1, PageAt(kept.offset, layout))
      BY <2>1 DEF Reposition
    <3> QED
      BY <1>2, <3>1, <3>2, SmallerType
  <2>2. CASE kept.offset < 0 /\ spine = kept.spine /\ kept.total > 0 /\ kept.total # total
    <3>1. TargetPage * total \in Nat /\ kept.total \in Nat \ {0}
      BY <1>2, <1>3, <2>2
    <3>2. (TargetPage * total) \div kept.total \in Nat
      BY <3>1, DivBounds
    <3>3. Reposition(TargetPage, kept) = Smaller(total - 1, (TargetPage * total) \div kept.total)
      BY <2>2 DEF Reposition, Offset
    <3> QED
      BY <1>2, <3>2, <3>3, SmallerType
  <2>3. CASE spine # kept.spine \/ (kept.offset < 0 /\ ~(kept.total > 0 /\ kept.total # total))
    BY <1>3, <2>3 DEF Reposition, Offset
  <2> QED
    BY <2>1, <2>2, <2>3 DEF Offset
<1>5. Kept \in [spine : Nat, total : Nat, offset : Offset]
      /\ Cleared(Kept) \in [spine : Nat, total : Nat, offset : Offset]
  BY ClearedType DEF TypeOK, ReaderOK, CardOK, Kept
<1>6. Loaded.page \in Nat /\ Loaded.page < total
  BY <1>4, <1>5 DEF Loaded
<1> QED
  BY <1>1, <1>2, <1>6 DEF Loaded, Section

-----------------------------------------------------------------------------
(* Types. *)

LEMMA CardInit == Init => CardInv
<1> SUFFICES ASSUME Init PROVE CardInv
  OBVIOUS
<1>1. NotesOK
  BY EmptySeq, ReadingPlaceAssumption DEF Init, NotesOK
<1>2. ReaderOK
  BY ReadingPlaceAssumption DEF Init, ReaderOK, NoJump, NothingKnown, Offset
<1>3. CardOK /\ HistoryOK /\ FlagsOK
  BY DEF Init, CardOK, HistoryOK, FlagsOK
<1>4. TasksOK
  BY DEF Init, TasksOK, NoSave
<1> QED
  BY <1>1, <1>2, <1>3, <1>4
  DEF Init, CardInv, TypeOK, Locks, SectionCurrent, DrawingCurrent, DrawnIsSaved, SavedIsOnCard, NoSave

(* What the handlers compute has its type. *)
LEMMA ChapterType ==
  ASSUME TypeOK
  PROVE  /\ ~AtEnd => spine \in Chapter
         /\ Chapters \in Nat \ {0} /\ 0 \in Chapter /\ Chapters - 1 \in Chapter
         /\ \A c \in Chapter : c \in 0..Chapters /\ Length[c] - 1 \in Nat
BY ReadingPlaceAssumption DEF TypeOK, ReaderOK, AtEnd, Chapter

LEMMA SectionType ==
  ASSUME TypeOK, section # None
  PROVE  /\ section \in Section /\ section.chapter \in Chapter /\ section.layout \in Layout
         /\ section.page \in Nat /\ PageCount \in Nat \ {0}
         /\ StartOf(section.page, section.layout) \in Nat
         /\ \A p \in Nat :
              /\ StartOf(p, section.layout) \in Nat
              /\ [section EXCEPT !.page = p] \in Section
              /\ [section EXCEPT !.page = p].chapter = section.chapter
              /\ [section EXCEPT !.page = p].layout = section.layout
              /\ [section EXCEPT !.page = p].page = p
<1>1. section \in Section /\ section.chapter \in Chapter /\ section.layout \in Layout
      /\ section.page \in Nat
  BY DEF TypeOK, ReaderOK, Section
<1> QED
  BY <1>1, PagesType, PageType DEF Section, PageCount

LEMMA MarkType ==
  ASSUME TypeOK
  PROVE  /\ Here \in Mark \cup {None}
         /\ \A note \in Note : PlaceOf(note) \in Mark \cup {None}
         /\ \A c \in Chapter, o \in Nat : [spine |-> c, offset |-> o] \in Mark
<1>1. Here \in Mark \cup {None}
  <2>1. CASE section # None /\ ~AtEnd
    BY <2>1, SectionType DEF Here, Mark
  <2>2. CASE ~(section # None /\ ~AtEnd)
    BY <2>2 DEF Here, TypeOK, HistoryOK
  <2> QED
    BY <2>1, <2>2
<1>2. ASSUME NEW note \in Note
      PROVE  PlaceOf(note) \in Mark \cup {None}
  <2>1. note.spine \in Chapter /\ note.page \in Nat /\ note.layout \in Layout
    BY DEF Note
  <2>2. StartOf(note.page, note.layout) \in Nat
    BY <2>1, PageType
  <2> QED
    BY <2>1, <2>2 DEF PlaceOf, Mark
<1> QED
  BY <1>1, <1>2 DEF Mark

LEMMA RecordType ==
  ASSUME TypeOK, NEW sp \in 0..Chapters, NEW p \in Nat, NEW total \in Nat
  PROVE  /\ Record(sp, p, total) \in Place
         /\ [Record(sp, p, total) EXCEPT !.offset = -1] \in Place
<1> DEFINE o == IF section = None \/ sp # spine \/ p >= PageCount THEN -1
                ELSE IF p = section.page /\ drawn # None THEN StartOf(drawn.page, drawn.layout)
                ELSE StartOf(p, section.layout)
<1>1. drawn # None => StartOf(drawn.page, drawn.layout) \in Nat
  BY PageType DEF TypeOK, TasksOK, Section
<1>2. section # None => StartOf(p, section.layout) \in Nat
  BY SectionType
<1>3. o \in Offset /\ -1 \in Offset
  BY <1>1, <1>2 DEF Offset
<1>4. Record(sp, p, total) = [spine |-> sp, page |-> p, total |-> total, offset |-> o]
  BY DEF Record
<1> HIDE DEF o
<1> QED
  BY <1>3, <1>4 DEF Place

LEMMA FreshType ==
  /\ <<>> \in Seq(Note) /\ Len(<<>>) = 0 /\ 0 <= MaxNotes
  /\ NoJump \in [last : BOOLEAN, offset : Offset, anchor : Offset]
  /\ NothingKnown \in [spine : Nat, total : Nat, offset : Offset]
  /\ NoSave.step = "none" /\ NoSave.then = "draw" /\ NoSave.place = None
  /\ NoSave \in [step : {"none", "write", "remove", "rename"}, place : Place \cup {None},
                 then : {"draw", "ask", "clear", "close"}]
<1>1. -1 \in Offset /\ FALSE \in BOOLEAN
  BY DEF Offset
<1>2. NoJump \in [last : BOOLEAN, offset : Offset, anchor : Offset]
  BY <1>1 DEF NoJump
<1>3. NothingKnown \in [spine : Nat, total : Nat, offset : Offset]
  BY <1>1 DEF NothingKnown
<1>4. <<>> \in Seq(Note) /\ Len(<<>>) = 0
  BY EmptySeq
<1> QED
  BY <1>2, <1>3, <1>4, ReadingPlaceAssumption DEF NoSave

(* Every step keeps the types. *)
LEMMA NotesStep == CardInv /\ [Next]_vars => NotesOK'
<1> SUFFICES ASSUME CardInv, [Next]_vars PROVE NotesOK'
  OBVIOUS
<1> USE DEF reader, card, tasks, history
<1>t. TypeOK
  BY DEF CardInv
<1>1. CASE FollowNote
  <2>1. CASE section # None /\ Len(notes) < MaxNotes
    <3>1. [spine |-> spine, page |-> section.page, layout |-> section.layout] \in Note
      BY <1>t, <1>1, <2>1, ChapterType, SectionType DEF FollowNote, Note
    <3>2. notes' = Noted
      BY <1>1, <2>1 DEF FollowNote
    <3> QED
      BY <1>t, <2>1, <3>1, <3>2, AppendProperties, ReadingPlaceAssumption, LenProperties
      DEF Noted, NotesOK, TypeOK
  <2>2. CASE ~(section # None /\ Len(notes) < MaxNotes)
    BY <1>t, <1>1, <2>2 DEF FollowNote, TypeOK, NotesOK
  <2> QED
    BY <2>1, <2>2
<1>2. CASE FollowDeadLink \/ ReturnFromNote
  BY <1>t, <1>2, NotesTop, ReadingPlaceAssumption
  DEF FollowDeadLink, ReturnFromNote, TypeOK, NotesOK
<1>3. CASE Close
  <2>1. notes' = notes \/ notes' = <<>>
    BY <1>3 DEF Close, SaveOrigin, Leave
  <2> QED
    BY <1>t, <2>1, FreshType DEF TypeOK, NotesOK
<1>4. CASE Rename \/ SaveFails
  <2>1. notes' = notes \/ notes' = <<>>
    BY <1>4 DEF Rename, SaveFails, AfterSave, SaveOrigin, Leave
  <2> QED
    BY <1>t, <2>1, FreshType DEF TypeOK, NotesOK
<1>5. CASE PowerCut \/ Panic
  BY <1>t, <1>5, FreshType
  DEF PowerCut, Panic, Restarted, Leave, NotesOK, TypeOK
<1>6. CASE Open \/ BeginTurn \/ TurnForward \/ TurnBack \/ ReturnFromEnd \/ SkipBack \/
           SkipForward \/ Relayout \/ OpenList \/ CancelList \/ PickChapter \/ GoToBookmark \/
           LeaveForAsk \/ DeleteCache \/ WriteTmp \/ RemoveOld \/ RemoveFails \/ Draw \/
           DrawEnd \/ CannotLoad \/ CannotRead \/ Drawn \/ Redraw \/ ChangeSettings \/
           UNCHANGED vars
  BY <1>t, <1>6
  DEF Open, BeginTurn, TurnForward, TurnBack, ReturnFromEnd, SkipBack, SkipForward,
      Relayout, OpenList, CancelList, PickChapter, GoToBookmark, LeaveForAsk, DeleteCache,
      WriteTmp, RemoveOld, RemoveFails, Draw, DrawEnd, CannotLoad, CannotRead, Drawn,
      Redraw, ChangeSettings, vars, EndTurn, SetPage, SetChapter, GoTo, Go, Goes, NotesOK,
      TypeOK
<1> QED
  BY <1>1, <1>2, <1>3, <1>4, <1>5, <1>6 DEF Next

LEMMA ReaderStep == CardInv /\ [Next]_vars => ReaderOK'
<1> SUFFICES ASSUME CardInv, [Next]_vars PROVE ReaderOK'
  OBVIOUS
<1> USE DEF reader, card, tasks, history
<1>t. TypeOK
  BY DEF CardInv
<1>1. CASE Open
  BY <1>t, <1>1
  DEF Open, TypeOK, CardOK, Place, ReaderOK
<1>2. CASE BeginTurn
  BY <1>t, <1>2, ClearedType
  DEF BeginTurn, NothingCached, TypeOK, ReaderOK
<1>3. CASE TurnForward \/ TurnBack \/ SkipBack \/ SkipForward
  <2>1. ASSUME NEW p \in Nat, section # None, SetPage(p), UNCHANGED <<screen, cached>>
        PROVE  ReaderOK'
    BY <1>t, <2>1, SectionType DEF SetPage, TypeOK, ReaderOK
  <2>2. ASSUME NEW c \in 0..Chapters, NEW last \in BOOLEAN, SetChapter(c, last), UNCHANGED <<screen, cached>>
        PROVE  ReaderOK'
    BY <1>t, <2>2 DEF SetChapter, TypeOK, ReaderOK
  <2>3. UNCHANGED <<screen, cached>> /\ section # None
    BY <1>3 DEF TurnForward, TurnBack, SkipBack, SkipForward, EndTurn
  <2>4. section.page \in Nat /\ section.page + 1 \in Nat /\ 0 \in Nat
        /\ (section.page > 0 => section.page - 1 \in Nat)
    BY <1>t, <2>3, SectionType
  <2>5. /\ spine + 1 < Chapters => spine + 1 \in 0..Chapters
        /\ spine > 0 => spine - 1 \in 0..Chapters
        /\ ~AtEnd => spine + 1 \in 0..Chapters
        /\ Chapters \in 0..Chapters
    BY <1>t, ReadingPlaceAssumption DEF TypeOK, ReaderOK, AtEnd
  <2>6. CASE TurnForward
    BY <1>t, <2>1, <2>2, <2>3, <2>4, <2>5, <2>6 DEF TurnForward, TypeOK, ReaderOK
  <2>7. CASE TurnBack
    BY <1>t, <2>1, <2>2, <2>3, <2>4, <2>5, <2>7 DEF TurnBack, TypeOK, ReaderOK
  <2>8. CASE SkipBack \/ SkipForward
    BY <1>t, <2>1, <2>2, <2>3, <2>4, <2>5, <2>8 DEF SkipBack, SkipForward
  <2> QED
    BY <1>3, <2>6, <2>7, <2>8
<1>4. CASE ReturnFromEnd
  BY <1>t, <1>4, ChapterType
  DEF ReturnFromEnd, TypeOK, ReaderOK
<1>5. CASE Relayout \/ OpenList
  <2>1. CASE section = None
    BY <1>t, <1>5, <2>1 DEF Relayout, OpenList, Release, Seen, Reading, TypeOK, ReaderOK
  <2>2. CASE section # None
    <3>1. cached' \in [spine : Nat, total : Nat, offset : Offset]
      BY <1>t, <1>5, <2>2, SectionType, ReadingPlaceAssumption
      DEF Relayout, OpenList, Release, TypeOK, ReaderOK, Offset
    <3> QED
      BY <1>t, <1>5, <2>2, <3>1, SectionType DEF Relayout, OpenList, Release, Seen, Reading, TypeOK, ReaderOK
  <2> QED
    BY <2>1, <2>2
<1>6. CASE CancelList
  BY <1>t, <1>6
  DEF CancelList, TypeOK, ReaderOK
<1>7. CASE PickChapter \/ FollowNote
  <2>1. PICK c \in Chapter : \E anchor \in {-1} \cup 1..(Length[c] - 1) : GoTo(c, anchor)
    BY <1>7 DEF PickChapter, FollowNote
  <2>2. PICK anchor \in {-1} \cup 1..(Length[c] - 1) : GoTo(c, anchor)
    BY <2>1
  <2>3. c \in 0..Chapters /\ anchor \in Offset
    BY <1>t, ChapterType DEF Offset
  <2>4. screen' \in {"page", "list", "closed"}
    BY <1>t, <1>7 DEF PickChapter, FollowNote, TypeOK, ReaderOK
  <2> QED
    BY <1>t, <2>2, <2>3, <2>4, ClearedType DEF GoTo, NothingCached, TypeOK, ReaderOK
<1>8. CASE ReturnFromNote
  <2>1. Last(notes).spine \in 0..Chapters /\ Last(notes).page \in Nat
    BY <1>t, <1>8, NotesTop, ChapterType DEF ReturnFromNote, Note
  <2> QED
    BY <1>t, <1>8, <2>1, ClearedType DEF ReturnFromNote, NothingCached, TypeOK, ReaderOK
<1>9. CASE GoToBookmark
  <2>a. PICK c \in Chapter : \E o \in 0..(Length[c] - 1) :
          IF section # None /\ spine = c
          THEN section' = [section EXCEPT !.page = PageAt(o, section.layout)] /\ UNCHANGED <<spine, jump, nextPage>>
          ELSE /\ spine' = c /\ section' = None /\ nextPage' = 0
               /\ jump' = [jump EXCEPT !.offset = o]
    BY <1>9 DEF GoToBookmark
  <2>1. PICK o \in 0..(Length[c] - 1) :
          IF section # None /\ spine = c
          THEN section' = [section EXCEPT !.page = PageAt(o, section.layout)] /\ UNCHANGED <<spine, jump, nextPage>>
          ELSE /\ spine' = c /\ section' = None /\ nextPage' = 0
               /\ jump' = [jump EXCEPT !.offset = o]
    BY <2>a
  <2>2. c \in 0..Chapters /\ o \in Nat /\ o \in Offset
    BY <1>t, ChapterType DEF Offset
  <2>3. cached' = Cleared(cached) /\ UNCHANGED screen
    BY <1>9 DEF GoToBookmark, NothingCached
  <2>4. CASE section # None /\ spine = c
    <3>1. PageAt(o, section.layout) \in Nat
      BY <1>t, <2>2, <2>4, SectionType, PageType
    <3> QED
      BY <1>t, <2>1, <2>3, <2>4, <3>1, SectionType, ClearedType DEF TypeOK, ReaderOK
  <2>5. CASE ~(section # None /\ spine = c)
    BY <1>t, <2>1, <2>2, <2>3, <2>5, ClearedType DEF TypeOK, ReaderOK
  <2> QED
    BY <2>4, <2>5
<1>10. CASE Close
  <2>1. UNCHANGED reader \/ Leave
    BY <1>10 DEF Close, SaveOrigin
  <2> QED
    BY <1>t, <2>1, FreshType, ReadingPlaceAssumption DEF Leave, TypeOK, ReaderOK
<1>11. CASE DeleteCache
  BY <1>t, <1>11
  DEF DeleteCache, TypeOK, ReaderOK
<1>12. CASE Rename \/ SaveFails
  <2>1. UNCHANGED reader \/ Leave
    BY <1>12 DEF Rename, SaveFails, AfterSave, SaveOrigin
  <2> QED
    BY <1>t, <2>1, FreshType, ReadingPlaceAssumption DEF Leave, TypeOK, ReaderOK
<1>13. CASE PowerCut \/ Panic
  BY <1>t, <1>13, FreshType, ReadingPlaceAssumption
  DEF PowerCut, Panic, Restarted, Leave, ReaderOK, TypeOK
<1>14. CASE Draw
  <2>1. UNCHANGED <<section, jump, cached>> \/ (section' = Loaded /\ jump' = NoJump /\ cached' = Cleared(cached))
    BY <1>14 DEF Draw
  <2>2. UNCHANGED <<screen, spine, nextPage>> /\ ~AtEnd
    BY <1>14 DEF Draw
  <2> QED
    BY <1>t, <2>1, <2>2, LoadedIsPage, ClearedType, FreshType DEF TypeOK, ReaderOK
<1>15. CASE CannotRead
  <2>1. UNCHANGED <<screen, spine, nextPage>> /\ section' = None /\ cached' = Cleared(cached) /\ jump' \in {NoJump, jump}
    BY <1>15 DEF CannotRead
  <2> QED
    BY <1>t, <2>1, ClearedType, FreshType DEF TypeOK, ReaderOK
<1>16. CASE FollowDeadLink \/ LeaveForAsk \/ WriteTmp \/ RemoveOld \/ RemoveFails \/
           DrawEnd \/ CannotLoad \/ Drawn \/ Redraw \/ ChangeSettings \/ UNCHANGED vars
  BY <1>t, <1>16
  DEF FollowDeadLink, LeaveForAsk, WriteTmp, RemoveOld, RemoveFails, DrawEnd, CannotLoad,
      Drawn, Redraw, ChangeSettings, vars, Go, Goes, ReaderOK, TypeOK
<1> QED
  BY <1>1, <1>2, <1>3, <1>4, <1>5, <1>6, <1>7, <1>8, <1>9, <1>10, <1>11, <1>12, <1>13,
      <1>14, <1>15, <1>16 DEF Next

LEMMA CardStep == CardInv /\ [Next]_vars => CardOK'
<1> SUFFICES ASSUME CardInv, [Next]_vars PROVE CardOK'
  OBVIOUS
<1> USE DEF reader, card, tasks, history
<1>t. TypeOK
  BY DEF CardInv
<1>1. CASE Relayout \/ ChangeSettings
  BY <1>t, <1>1
  DEF Relayout, ChangeSettings, TypeOK, CardOK
<1>2. CASE DeleteCache \/ Draw \/ CannotRead
  BY <1>t, <1>2, ChapterType
  DEF DeleteCache, Draw, CannotRead, TypeOK, CardOK
<1>3. CASE RemoveOld
  BY <1>t, <1>3
  DEF RemoveOld, Go, TypeOK, CardOK
<1>4. CASE Close
  BY <1>t, <1>4, ChapterType
  DEF Close, SaveOrigin, Leave, TypeOK, CardOK
<1>5. CASE Rename \/ SaveFails
  <2>1. UNCHANGED <<layout, built>>
    BY <1>5 DEF Rename, SaveFails, AfterSave, SaveOrigin, Leave
  <2>2. file' = file \/ file' = save.place
    BY <1>5 DEF Rename, SaveFails
  <2> QED
    BY <1>t, <2>1, <2>2 DEF TypeOK, CardOK, TasksOK
<1>6. CASE Open \/ BeginTurn \/ TurnForward \/ TurnBack \/ ReturnFromEnd \/ SkipBack \/
           SkipForward \/ OpenList \/ CancelList \/ PickChapter \/ FollowNote \/
           FollowDeadLink \/ ReturnFromNote \/ GoToBookmark \/ LeaveForAsk \/ WriteTmp \/
           RemoveFails \/ DrawEnd \/ CannotLoad \/ Drawn \/ Redraw \/ PowerCut \/ Panic \/
           UNCHANGED vars
  BY <1>t, <1>6
  DEF Open, BeginTurn, TurnForward, TurnBack, ReturnFromEnd, SkipBack, SkipForward,
      OpenList, CancelList, PickChapter, FollowNote, FollowDeadLink, ReturnFromNote,
      GoToBookmark, LeaveForAsk, WriteTmp, RemoveFails, DrawEnd, CannotLoad, Drawn, Redraw,
      PowerCut, Panic, vars, EndTurn, GoTo, Go, Goes, Restarted, Leave, CardOK, TypeOK
<1> QED
  BY <1>1, <1>2, <1>3, <1>4, <1>5, <1>6 DEF Next

LEMMA TasksStep == CardInv /\ [Next]_vars => TasksOK'
<1> SUFFICES ASSUME CardInv, [Next]_vars PROVE TasksOK'
  OBVIOUS
<1> USE DEF reader, card, tasks, history
<1>t. TypeOK /\ Locks
  BY DEF CardInv
<1>1. CASE BeginTurn \/ TurnForward \/ TurnBack
  BY <1>t, <1>1, FreshType
  DEF BeginTurn, TurnForward, TurnBack, EndTurn, TypeOK, TasksOK
<1>2. CASE Close
  <2>1. CASE SaveOrigin /\ notes # <<>>
    BY <1>t, <2>1, NotesTop, ChapterType, RecordType DEF SaveOrigin, Save, Note, TypeOK, TasksOK
  <2>2. CASE Leave
    BY <1>t, <2>2, FreshType DEF Leave, TasksOK
  <2> QED
    BY <1>2, <2>1, <2>2 DEF Close
<1>3. CASE LeaveForAsk \/ DeleteCache
  <2>1. section # None
    BY <1>3 DEF LeaveForAsk, DeleteCache
  <2>2. /\ Record(spine, section.page, PageCount) \in Place
        /\ [Record(spine, section.page, PageCount) EXCEPT !.offset = -1] \in Place
    BY <1>t, <2>1, SectionType, RecordType DEF TypeOK, ReaderOK
  <2> QED
    BY <1>t, <1>3, <2>2 DEF LeaveForAsk, DeleteCache, Save, TypeOK, TasksOK
<1>4. CASE WriteTmp \/ RemoveOld \/ RemoveFails
  BY <1>t, <1>4
  DEF WriteTmp, RemoveOld, RemoveFails, Go, Goes, TypeOK, TasksOK
<1>5. CASE Rename \/ SaveFails
  <2>1. CASE save.then = "draw"
    <3>1. section # None
      BY <1>t, <1>5, <2>1 DEF Rename, SaveFails, Locks, TypeOK, TasksOK
    <3>2. [spine |-> spine, page |-> section.page, total |-> PageCount] \in Page
      BY <1>t, <3>1, SectionType DEF Page, TypeOK, ReaderOK
    <3>3. saved' = saved \/ saved' = [spine |-> spine, page |-> section.page, total |-> PageCount]
      BY <1>5, <2>1 DEF Rename, SaveFails, AfterSave
    <3>4. render' = "idle" /\ save' = NoSave /\ UNCHANGED <<main, drawn>>
      BY <1>5, <2>1 DEF Rename, SaveFails, AfterSave
    <3> QED
      BY <1>t, <3>2, <3>3, <3>4, FreshType DEF TypeOK, TasksOK
  <2>2. CASE save.then # "draw"
    <3>1. \/ UNCHANGED <<main, render, drawn, saved>> /\ save' = NoSave
          \/ SaveOrigin /\ notes # <<>>
          \/ Leave
      BY <1>5, <2>2 DEF Rename, SaveFails, AfterSave
    <3>2. CASE SaveOrigin /\ notes # <<>>
      BY <1>t, <3>2, NotesTop, ChapterType, RecordType DEF SaveOrigin, Save, Note, TypeOK, TasksOK
    <3>3. CASE Leave
      BY <1>t, <3>3, FreshType DEF Leave, TasksOK
    <3> QED
      BY <1>t, <3>1, <3>2, <3>3, FreshType DEF TypeOK, TasksOK
  <2> QED
    BY <2>1, <2>2
<1>6. CASE Draw
  <2>1. drawn' = section' /\ section' # None /\ render' = "draw" /\ UNCHANGED <<main, saved, save>>
    BY <1>t, <1>6, LoadedIsPage, ReadingPlaceAssumption DEF Draw
  <2> QED
    BY <1>t, <1>6, <2>1, LoadedIsPage DEF Draw, TypeOK, ReaderOK, TasksOK
<1>7. CASE Drawn
  <2>1. section # None
    BY <1>t, <1>7 DEF Drawn, Locks
  <2>2. Record(spine, section.page, PageCount) \in Place
    BY <1>t, <2>1, SectionType, RecordType DEF TypeOK, ReaderOK
  <2> QED
    BY <1>t, <1>7, <2>2 DEF Drawn, Save, TypeOK, TasksOK
<1>8. CASE PowerCut \/ Panic
  BY <1>t, <1>8, FreshType
  DEF PowerCut, Panic, Restarted, Leave, TasksOK, TypeOK
<1>9. CASE Open \/ ReturnFromEnd \/ SkipBack \/ SkipForward \/ Relayout \/ OpenList \/
           CancelList \/ PickChapter \/ FollowNote \/ FollowDeadLink \/ ReturnFromNote \/
           GoToBookmark \/ DrawEnd \/ CannotLoad \/ CannotRead \/ Redraw \/ ChangeSettings \/
           UNCHANGED vars
  BY <1>t, <1>9
  DEF Open, ReturnFromEnd, SkipBack, SkipForward, Relayout, OpenList, CancelList,
      PickChapter, FollowNote, FollowDeadLink, ReturnFromNote, GoToBookmark, DrawEnd,
      CannotLoad, CannotRead, Redraw, ChangeSettings, vars, GoTo, TasksOK, TypeOK
<1> QED
  BY <1>1, <1>2, <1>3, <1>4, <1>5, <1>6, <1>7, <1>8, <1>9 DEF Next

LEMMA HistoryStep == CardInv /\ [Next]_vars => HistoryOK'
<1> SUFFICES ASSUME CardInv, [Next]_vars PROVE HistoryOK'
  OBVIOUS
<1> USE DEF reader, card, tasks, history
<1>t. TypeOK
  BY DEF CardInv
<1>1. CASE TurnForward \/ TurnBack \/ SkipBack \/ SkipForward
  <2>1. ASSUME NEW p \in Nat, section # None, SetPage(p)
        PROVE  HistoryOK'
    BY <1>t, <2>1, SectionType, ChapterType, MarkType DEF SetPage, UnlockedChange, TypeOK, HistoryOK
  <2>2. ASSUME NEW c \in 0..Chapters, NEW last \in BOOLEAN, SetChapter(c, last)
        PROVE  HistoryOK'
    <3>1. c # Chapters => c \in Chapter
      BY ReadingPlaceAssumption DEF Chapter
    <3> QED
      BY <1>t, <2>2, <3>1, ChapterType, MarkType DEF SetChapter, TypeOK, HistoryOK
  <2>3. section # None
    BY <1>1 DEF TurnForward, TurnBack, SkipBack, SkipForward
  <2>4. section.page \in Nat /\ section.page + 1 \in Nat /\ 0 \in Nat
        /\ (section.page > 0 => section.page - 1 \in Nat)
    BY <1>t, <2>3, SectionType
  <2>5. /\ spine + 1 < Chapters => spine + 1 \in 0..Chapters
        /\ spine > 0 => spine - 1 \in 0..Chapters
        /\ ~AtEnd => spine + 1 \in 0..Chapters
    BY <1>t, ReadingPlaceAssumption DEF TypeOK, ReaderOK, AtEnd
  <2>6. CASE TurnForward
    BY <1>t, <2>1, <2>2, <2>3, <2>4, <2>5, <2>6 DEF TurnForward, UnlockedChange, TypeOK, HistoryOK
  <2>7. CASE TurnBack
    BY <1>t, <2>1, <2>2, <2>3, <2>4, <2>5, <2>7 DEF TurnBack, TypeOK, HistoryOK
  <2>8. CASE SkipBack \/ SkipForward
    BY <1>t, <2>1, <2>2, <2>3, <2>4, <2>5, <2>8 DEF SkipBack, SkipForward
  <2> QED
    BY <1>1, <2>6, <2>7, <2>8
<1>2. CASE ReturnFromEnd
  BY <1>t, <1>2, ChapterType, MarkType
  DEF ReturnFromEnd, UnlockedChange, TypeOK, HistoryOK
<1>3. CASE Relayout \/ OpenList \/ LeaveForAsk \/ DeleteCache
  BY <1>t, <1>3, MarkType
  DEF Relayout, OpenList, LeaveForAsk, DeleteCache, TypeOK, HistoryOK
<1>4. CASE PickChapter \/ FollowNote
  <2>1. PICK c \in Chapter : \E anchor \in {-1} \cup 1..(Length[c] - 1) : GoTo(c, anchor)
    BY <1>4 DEF PickChapter, FollowNote
  <2>2. PICK anchor \in {-1} \cup 1..(Length[c] - 1) : GoTo(c, anchor)
    BY <2>1
  <2>3. (IF anchor < 0 THEN 0 ELSE anchor) \in Nat
    BY <1>t, ChapterType
  <2> QED
    BY <1>t, <2>2, <2>3, MarkType DEF GoTo, TypeOK, HistoryOK
<1>5. CASE ReturnFromNote
  BY <1>t, <1>5, NotesTop, MarkType
  DEF ReturnFromNote, TypeOK, HistoryOK
<1>6. CASE GoToBookmark
  <2>1. PICK c \in Chapter : \E o \in 0..(Length[c] - 1) : mark' = [spine |-> c, offset |-> o]
    BY <1>6 DEF GoToBookmark
  <2>2. PICK o \in 0..(Length[c] - 1) : mark' = [spine |-> c, offset |-> o]
    BY <2>1
  <2>3. o \in Nat
    BY <1>t, ChapterType
  <2>4. raced' = raced
    BY <1>6 DEF GoToBookmark
  <2> QED
    BY <1>t, <2>2, <2>3, <2>4, MarkType DEF TypeOK, HistoryOK
<1>7. CASE Close
  <2>1. CASE notes # <<>>
    <3>1. notes[1] \in Note
      BY <1>t, <2>1, NotesTop
    <3>2. mark' \in {PlaceOf(notes[1]), None} /\ raced' = raced
      BY <1>7, <2>1 DEF Close, SaveOrigin
    <3> QED
      BY <1>t, <3>1, <3>2, MarkType DEF TypeOK, HistoryOK
  <2>2. CASE notes = <<>>
    <3>1. mark' \in {Here, None} /\ raced' = "no"
      BY <1>7, <2>2 DEF Close, Leave
    <3> QED
      BY <1>t, <3>1, MarkType DEF TypeOK, HistoryOK
  <2> QED
    BY <2>1, <2>2
<1>8. CASE Rename \/ SaveFails
  <2>1. raced' \in {raced, "no", "past"}
    BY <1>8 DEF Rename, SaveFails, AfterSave, SaveOrigin, Leave
  <2>2. mark' \in {mark, None} \/ (notes # <<>> /\ mark' = PlaceOf(notes[1]))
    BY <1>8 DEF Rename, SaveFails, AfterSave, SaveOrigin
  <2> QED
    BY <1>t, <2>1, <2>2, NotesTop, MarkType DEF TypeOK, HistoryOK
<1>9. CASE Draw
  <2>1. section' # None /\ section' \in Section
    BY <1>t, <1>9, LoadedIsPage, ReadingPlaceAssumption DEF Draw, TypeOK, ReaderOK
  <2>2. drawn'.page \in Nat /\ layout \in Layout
    BY <1>t, <1>9, <2>1 DEF Draw, Section, TypeOK, CardOK
  <2>3. mark' = [spine |-> spine, offset |-> StartOf(drawn'.page, layout)] /\ raced' = raced /\ ~AtEnd
    BY <1>9 DEF Draw
  <2> QED
    BY <1>t, <2>2, <2>3, PageType, ChapterType, MarkType DEF TypeOK, HistoryOK
<1>10. CASE CannotLoad \/ CannotRead \/ Drawn \/ ChangeSettings
  BY <1>t, <1>10
  DEF CannotLoad, CannotRead, Drawn, ChangeSettings, TypeOK, HistoryOK
<1>11. CASE PowerCut \/ Panic
  BY <1>t, <1>11
  DEF PowerCut, Panic, Restarted, Leave, HistoryOK, TypeOK
<1>12. CASE Open \/ BeginTurn \/ CancelList \/ FollowDeadLink \/ WriteTmp \/ RemoveOld \/
           RemoveFails \/ DrawEnd \/ Redraw \/ UNCHANGED vars
  BY <1>t, <1>12
  DEF Open, BeginTurn, CancelList, FollowDeadLink, WriteTmp, RemoveOld, RemoveFails,
      DrawEnd, Redraw, vars, Go, Goes, HistoryOK, TypeOK
<1> QED
  BY <1>1, <1>2, <1>3, <1>4, <1>5, <1>6, <1>7, <1>8, <1>9, <1>10, <1>11, <1>12 DEF Next

LEMMA FlagsStep == CardInv /\ [Next]_vars => FlagsOK' /\ faults' \in Nat
<1> SUFFICES ASSUME CardInv, [Next]_vars PROVE FlagsOK' /\ faults' \in Nat
  OBVIOUS
<1> USE DEF reader, card, tasks, history
<1>t. TypeOK
  BY DEF CardInv
<1>1. CASE Rename \/ SaveFails
  <2>1. /\ requested' \in {requested, TRUE, FALSE} /\ failed' \in {failed, TRUE, FALSE}
        /\ stale' \in {stale, FALSE}
    BY <1>1 DEF Rename, SaveFails, AfterSave, SaveOrigin, Leave
  <2>2. faults' = faults \/ faults' = faults + 1
    BY <1>1 DEF Rename, SaveFails, Fault
  <2>3. faults' \in Nat
    BY <1>t, <2>2 DEF TypeOK
  <2> QED
    BY <1>t, <2>1, <2>3 DEF TypeOK, FlagsOK
<1>2. CASE Close \/ PowerCut \/ Panic
  BY <1>t, <1>2, Zenon
  DEF Close, PowerCut, Panic, SaveOrigin, Leave, Restarted, TypeOK, FlagsOK
<1>3. CASE RemoveFails \/ CannotLoad \/ CannotRead
  <2>1. requested' \in BOOLEAN /\ failed' = failed
    BY <1>t, <1>3, Zenon DEF RemoveFails, Go, CannotLoad, CannotRead, TypeOK, FlagsOK
  <2>2. stale' = stale \/ stale' = (stale \/ jump # NoJump) \/ stale' = (stale /\ section # None)
    BY <1>3, Zenon DEF RemoveFails, Go, CannotLoad, CannotRead
  <2>3. faults' = faults + 1
    BY <1>3 DEF RemoveFails, Go, CannotLoad, CannotRead, Fault
  <2>4. faults' \in Nat
    BY <1>t, <2>3 DEF TypeOK
  <2> QED
    BY <1>t, <2>1, <2>2, <2>4, Zenon DEF TypeOK, FlagsOK
<1>4. CASE Open \/ BeginTurn \/ TurnForward \/ TurnBack \/ ReturnFromEnd \/ SkipBack \/
           SkipForward \/ Relayout \/ OpenList \/ CancelList \/ PickChapter \/ FollowNote \/
           FollowDeadLink \/ ReturnFromNote \/ GoToBookmark \/ LeaveForAsk \/ DeleteCache \/
           WriteTmp \/ RemoveOld \/ Draw \/ DrawEnd \/ Drawn \/ Redraw \/ ChangeSettings \/
           UNCHANGED vars
  BY <1>t, <1>4
  DEF Open, BeginTurn, TurnForward, TurnBack, ReturnFromEnd, SkipBack, SkipForward,
      Relayout, OpenList, CancelList, PickChapter, FollowNote, FollowDeadLink,
      ReturnFromNote, GoToBookmark, LeaveForAsk, DeleteCache, WriteTmp, RemoveOld, Draw,
      DrawEnd, Drawn, Redraw, ChangeSettings, vars, EndTurn, GoTo, Go, Goes, FlagsOK, TypeOK
<1> QED
  BY <1>1, <1>2, <1>3, <1>4 DEF Next

LEMMA TypeStep == CardInv /\ [Next]_vars => TypeOK'
BY NotesStep, ReaderStep, CardStep, TasksStep, HistoryStep, FlagsStep DEF TypeOK

(* Every step keeps what makes the place on the card that of the panel. *)
LEMMA LoadedIsNotNone ==
  ASSUME TypeOK
  PROVE  /\ ~AtEnd => Loaded # None
         /\ section # None => \A p \in Nat : [section EXCEPT !.page = p] # None
         /\ \A sp \in 0..Chapters, p \in Nat, n \in Nat :
              /\ Record(sp, p, n) # None
              /\ [Record(sp, p, n) EXCEPT !.offset = -1] # None
              /\ [spine |-> sp, page |-> p, total |-> n] # None
<1>1. ASSUME NEW sp \in 0..Chapters, NEW p \in Nat, NEW n \in Nat
      PROVE  [spine |-> sp, page |-> p, total |-> n] # None
  BY ReadingPlaceAssumption DEF Page
<1>2. ASSUME NEW sp \in 0..Chapters, NEW p \in Nat, NEW n \in Nat
      PROVE  Record(sp, p, n) # None /\ [Record(sp, p, n) EXCEPT !.offset = -1] # None
  <2>1. Record(sp, p, n) \in Place /\ [Record(sp, p, n) EXCEPT !.offset = -1] \in Place
    BY RecordType
  <2>2. None \notin Place
    BY ReadingPlaceAssumption
  <2> QED
    BY <2>1, <2>2
<1>3. ~AtEnd => Loaded # None
  BY LoadedIsPage, ReadingPlaceAssumption
<1>4. section # None => \A p \in Nat : [section EXCEPT !.page = p] # None
  BY SectionType, ReadingPlaceAssumption
<1> QED
  BY <1>1, <1>2, <1>3, <1>4

LEMMA LocksStep == CardInv /\ [Next]_vars => Locks'
<1> SUFFICES ASSUME CardInv, [Next]_vars PROVE Locks'
  OBVIOUS
<1> USE DEF reader, card, tasks, history
<1>t. TypeOK /\ Locks
  BY DEF CardInv
<1>1. CASE TurnForward \/ TurnBack \/ SkipBack \/ SkipForward
  <2>1. ASSUME NEW p \in Nat, section # None, SetPage(p)
        PROVE  section' # None
    BY <1>t, <2>1, LoadedIsNotNone DEF SetPage
  <2>2. ASSUME NEW c, NEW last, SetChapter(c, last)
        PROVE  render = "idle"
    BY <2>2 DEF SetChapter, Unlocked
  <2>3. section # None
    BY <1>1 DEF TurnForward, TurnBack, SkipBack, SkipForward
  <2>4. section.page \in Nat /\ section.page + 1 \in Nat /\ 0 \in Nat
        /\ (section.page > 0 => section.page - 1 \in Nat)
    BY <1>t, <2>3, SectionType
  <2>5. section' # None \/ render = "idle"
    BY <1>t, <1>1, <2>1, <2>2, <2>3, <2>4, SectionType DEF TurnForward, TurnBack, SkipBack, SkipForward
  <2>6. /\ UNCHANGED <<screen, render, drawn, save>>
        /\ main' = "loop" \/ main' = main
    BY <1>1 DEF TurnForward, TurnBack, SkipBack, SkipForward, EndTurn
  <2> QED
    BY <1>t, <2>5, <2>6 DEF Locks
<1>2. CASE Relayout \/ OpenList \/ FollowNote \/ ReturnFromNote
  <2>1. render = "idle" /\ save.step = "none"
    BY <1>2 DEF Relayout, OpenList, FollowNote, ReturnFromNote, Seen, Unlocked
  <2>2. UNCHANGED <<main, render, drawn, save>>
    BY <1>2 DEF Relayout, OpenList, FollowNote, ReturnFromNote, GoTo
  <2> QED
    BY <2>1, <2>2 DEF Locks
<1>3. CASE CancelList \/ PickChapter \/ GoToBookmark
  <2>1. render = "idle" /\ save.step = "none"
    BY <1>3 DEF CancelList, PickChapter, GoToBookmark, Seen, Unlocked
  <2>2. UNCHANGED <<render, save, main>>
    BY <1>3 DEF CancelList, PickChapter, GoTo, GoToBookmark
  <2> QED
    BY <2>1, <2>2 DEF Locks
<1>4. CASE Open
  BY <1>t, <1>4, Zenon
  DEF Open, TypeOK, ReaderOK, Locks
<1>5. CASE BeginTurn
  BY <1>t, <1>5
  DEF BeginTurn, Reading, MainFree, Locks
<1>6. CASE Close
  <2>1. CASE notes # <<>>
    <3>1. notes[1].spine \in 0..Chapters /\ notes[1].page \in Nat
      BY <1>t, <2>1, NotesTop, ChapterType DEF Note
    <3>2. /\ save' = [step |-> "write", place |-> Record(notes[1].spine, notes[1].page, 0), then |-> "close"]
          /\ render = "idle" /\ main = "loop" /\ screen # "closed" /\ UNCHANGED <<screen, main, render>>
      BY <1>6, <2>1 DEF Close, SaveOrigin, Save, Unlocked
    <3> QED
      BY <1>t, <3>1, <3>2, LoadedIsNotNone DEF Locks
  <2>2. CASE notes = <<>>
    BY <1>6, <2>2, FreshType DEF Close, Leave, Locks
  <2> QED
    BY <2>1, <2>2
<1>7. CASE LeaveForAsk \/ DeleteCache
  <2>1. section # None /\ render = "idle" /\ main = "loop" /\ screen = "page" /\ UNCHANGED <<screen, main, render>>
    BY <1>7 DEF LeaveForAsk, DeleteCache, Seen, Reading, MainFree, Unlocked
  <2>2. /\ Record(spine, section.page, PageCount) # None
        /\ [Record(spine, section.page, PageCount) EXCEPT !.offset = -1] # None
    BY <1>t, <2>1, SectionType, LoadedIsNotNone DEF TypeOK, ReaderOK
  <2>3. save'.step = "write" /\ save'.place # None /\ save'.then \in {"ask", "clear"}
    BY <1>7, <2>2 DEF LeaveForAsk, DeleteCache, Save
  <2> QED
    BY <2>1, <2>3 DEF Locks
<1>8. CASE WriteTmp \/ RemoveOld \/ RemoveFails
  <2>1. save.step # "none" /\ save'.step # "none" /\ save'.place = save.place /\ save'.then = save.then
        /\ UNCHANGED <<reader, main, render, drawn>>
    BY <1>t, <1>8 DEF WriteTmp, RemoveOld, RemoveFails, Go, Goes, TypeOK, TasksOK
  <2> QED
    BY <1>t, <2>1 DEF Locks
<1>9. CASE Rename \/ SaveFails
  <2>1. save.step # "none"
    BY <1>9 DEF Rename, SaveFails
  <2>2. \/ render' = "idle" /\ save' = NoSave
        \/ save.then # "draw" /\ save' = NoSave /\ render' = render
        \/ save.then # "draw" /\ SaveOrigin /\ notes # <<>>
        \/ Leave
    BY <1>9 DEF Rename, SaveFails, AfterSave
  <2>3. render' = "idle" /\ save' = NoSave => Locks'
    BY FreshType DEF Locks
  <2>4. ASSUME SaveOrigin, notes # <<>>, save.then # "draw"
        PROVE  Locks'
    <3>1. notes[1].spine \in 0..Chapters /\ notes[1].page \in Nat
      BY <1>t, <2>4, NotesTop, ChapterType DEF Note
    <3>2. /\ save' = [step |-> "write", place |-> Record(notes[1].spine, notes[1].page, 0), then |-> "close"]
          /\ render = "idle" /\ main = "loop" /\ screen # "closed" /\ UNCHANGED <<screen, main, render>>
      BY <1>t, <2>1, <2>4 DEF SaveOrigin, Save, Locks
    <3> QED
      BY <1>t, <3>1, <3>2, LoadedIsNotNone DEF Locks
  <2> QED
    BY <1>t, <2>1, <2>2, <2>3, <2>4 DEF Leave, Locks
<1>10. CASE Draw
  <2>1. section' # None /\ drawn' # None
    BY <1>t, <1>10, LoadedIsNotNone DEF Draw
  <2>2. save.step = "none" /\ screen' = "page" /\ save' = save /\ render' = "draw"
    BY <1>10 DEF Draw, MayDraw, Unlocked
  <2> QED
    BY <2>1, <2>2 DEF Locks
<1>11. CASE CannotRead
  BY <1>t, <1>11
  DEF CannotRead, MayDraw, Unlocked, Locks
<1>12. CASE Drawn
  <2>1. section # None /\ save.step = "none" /\ drawn # None /\ screen = "page"
    BY <1>t, <1>12 DEF Drawn, Locks, TypeOK, TasksOK
  <2>2. Record(spine, section.page, PageCount) # None
    BY <1>t, <2>1, SectionType, LoadedIsNotNone DEF TypeOK, ReaderOK
  <2>3. CASE saved = [spine |-> spine, page |-> section.page, total |-> PageCount]
    BY <1>12, <2>1, <2>3 DEF Drawn, Locks
  <2>4. CASE saved # [spine |-> spine, page |-> section.page, total |-> PageCount]
    BY <1>12, <2>1, <2>2, <2>4 DEF Drawn, Save, Locks
  <2> QED
    BY <2>3, <2>4
<1>13. CASE PowerCut \/ Panic
  BY <1>t, <1>13, FreshType
  DEF PowerCut, Panic, Restarted, Leave, Locks
<1>14. CASE ReturnFromEnd \/ FollowDeadLink \/ DrawEnd \/ CannotLoad \/ Redraw \/
           ChangeSettings \/ UNCHANGED vars
  BY <1>t, <1>14
  DEF ReturnFromEnd, FollowDeadLink, DrawEnd, CannotLoad, Redraw, ChangeSettings, vars,
      Locks
<1> QED
  BY <1>1, <1>2, <1>3, <1>4, <1>5, <1>6, <1>7, <1>8, <1>9, <1>10, <1>11, <1>12, <1>13, <1>14 DEF Next

LEMMA SectionStep == CardInv /\ [Next]_vars => SectionCurrent'
<1> SUFFICES ASSUME CardInv, [Next]_vars PROVE SectionCurrent'
  OBVIOUS
<1> USE DEF reader, card, tasks, history
<1>t. TypeOK /\ Locks /\ SectionCurrent
  BY DEF CardInv
<1>1. CASE TurnForward \/ TurnBack \/ SkipBack \/ SkipForward
  <2>1. ASSUME NEW p \in Nat, section # None, p < PageCount, SetPage(p), UNCHANGED <<screen, layout>>
        PROVE  SectionCurrent'
    BY <1>t, <2>1, SectionType DEF SetPage, SectionCurrent, PageCount, AtEnd
  <2>2. ASSUME NEW c, NEW last, SetChapter(c, last)
        PROVE  SectionCurrent'
    BY <2>2 DEF SetChapter, SectionCurrent
  <2>3. section # None /\ UNCHANGED <<screen, layout>>
    BY <1>1 DEF TurnForward, TurnBack, SkipBack, SkipForward, EndTurn
  <2>4. /\ section.page \in Nat /\ section.page + 1 \in Nat /\ 0 \in Nat
        /\ section.page < PageCount - 1 => section.page + 1 < PageCount
        /\ section.page > 0 => section.page - 1 \in Nat /\ section.page - 1 < PageCount
        /\ 0 < PageCount
    BY <1>t, <2>3, SectionType DEF SectionCurrent
  <2>5. ASSUME spine' = Chapters, spine + 1 >= Chapters, UNCHANGED section
        PROVE  SectionCurrent'
    <3>1. spine = section.chapter => section.chapter = Chapters - 1
      BY <1>t, <2>3, <2>5, SectionType, ReadingPlaceAssumption DEF Chapter
    <3> QED
      BY <1>t, <2>3, <2>5, <3>1 DEF SectionCurrent, PageCount, AtEnd
  <2>6. CASE TurnForward
    BY <1>t, <2>1, <2>2, <2>3, <2>4, <2>5, <2>6 DEF TurnForward
  <2>7. CASE TurnBack
    BY <1>t, <2>1, <2>2, <2>3, <2>4, <2>7 DEF TurnBack, SectionCurrent, PageCount, AtEnd
  <2>8. CASE SkipBack \/ SkipForward
    BY <1>t, <2>1, <2>2, <2>3, <2>4, <2>8 DEF SkipBack, SkipForward
  <2> QED
    BY <1>1, <2>6, <2>7, <2>8
<1>2. CASE ReturnFromEnd
  <2>1. section # None => section.chapter # Chapters
    BY <1>t, SectionType, ReadingPlaceAssumption DEF Chapter
  <2>2. section' = section /\ UNCHANGED <<screen, layout>> /\ spine = Chapters /\ spine' = Chapters - 1
    BY <1>2 DEF ReturnFromEnd, AtEnd
  <2> QED
    BY <1>t, <2>1, <2>2 DEF SectionCurrent, PageCount
<1>3. CASE GoToBookmark
  <2>1. PICK c \in Chapter : \E o \in 0..(Length[c] - 1) :
          IF section # None /\ spine = c
          THEN section' = [section EXCEPT !.page = PageAt(o, section.layout)] /\ UNCHANGED <<spine, jump, nextPage>>
          ELSE section' = None
    BY <1>3 DEF GoToBookmark
  <2>2. PICK o \in 0..(Length[c] - 1) :
          IF section # None /\ spine = c
          THEN section' = [section EXCEPT !.page = PageAt(o, section.layout)] /\ UNCHANGED <<spine, jump, nextPage>>
          ELSE section' = None
    BY <2>1
  <2>3. UNCHANGED <<screen, layout>>
    BY <1>3 DEF GoToBookmark
  <2>4. CASE section # None /\ spine = c
    <3>1. section.chapter = c
      BY <1>t, <2>4, ReadingPlaceAssumption DEF SectionCurrent, Chapter, AtEnd
    <3>2. section.layout \in Layout
      BY <1>t, <2>4, SectionType
    <3>3. PageAt(o, section.layout) \in Nat /\ PageAt(o, section.layout) < PageCount
      BY <3>1, <3>2, PageBound DEF PageCount
    <3>4. section' = [section EXCEPT !.page = PageAt(o, section.layout)] /\ spine' = spine
      BY <2>2, <2>4
    <3>5. section'.chapter = section.chapter /\ section'.layout = section.layout
          /\ section'.page = PageAt(o, section.layout)
      BY <1>t, <2>4, <3>4, SectionType DEF Section
    <3> QED
      BY <1>t, <2>3, <2>4, <3>3, <3>4, <3>5 DEF SectionCurrent, PageCount, AtEnd
  <2>5. CASE ~(section # None /\ spine = c)
    BY <2>2, <2>5 DEF SectionCurrent
  <2> QED
    BY <2>4, <2>5
<1>4. CASE Open \/ CancelList
  BY <1>t, <1>4, Zenon
  DEF Open, CancelList, PageCount, AtEnd, SectionCurrent
<1>5. CASE Relayout \/ OpenList \/ PickChapter \/ FollowNote \/ ReturnFromNote \/ DeleteCache \/ CannotRead
  BY <1>t, <1>5
  DEF Relayout, OpenList, PickChapter, FollowNote, ReturnFromNote, DeleteCache, CannotRead,
      Release, GoTo, SectionCurrent, PageCount, AtEnd
<1>6. CASE Close \/ Rename \/ SaveFails \/ PowerCut \/ Panic
  <2>1. UNCHANGED <<reader, layout>> \/ section' = None
    BY <1>6 DEF Close, Rename, SaveFails, PowerCut, Panic, AfterSave, SaveOrigin, Restarted, Leave
  <2> QED
    BY <1>t, <2>1 DEF SectionCurrent, PageCount, AtEnd
<1>7. CASE Draw
  <2>1. CASE section = None
    BY <1>t, <1>7, <2>1, LoadedIsPage DEF Draw, MayDraw, SectionCurrent, PageCount
  <2>2. CASE section # None
    BY <1>t, <1>7, <2>2 DEF Draw, SectionCurrent, PageCount, AtEnd
  <2> QED
    BY <2>1, <2>2
<1>8. CASE ChangeSettings
  BY <1>t, <1>8
  DEF ChangeSettings, SectionCurrent, PageCount, AtEnd
<1>9. CASE BeginTurn \/ FollowDeadLink \/ LeaveForAsk \/ WriteTmp \/ RemoveOld \/
           RemoveFails \/ DrawEnd \/ CannotLoad \/ Drawn \/ Redraw \/ UNCHANGED vars
  BY <1>t, <1>9
  DEF BeginTurn, FollowDeadLink, LeaveForAsk, WriteTmp, RemoveOld, RemoveFails, DrawEnd,
      CannotLoad, Drawn, Redraw, vars, Go, Goes, SectionCurrent, PageCount, AtEnd
<1> QED
  BY <1>1, <1>2, <1>3, <1>4, <1>5, <1>6, <1>7, <1>8, <1>9 DEF Next

LEMMA DrawingStep == CardInv /\ [Next]_vars => DrawingCurrent'
<1> SUFFICES ASSUME CardInv, [Next]_vars PROVE DrawingCurrent'
  OBVIOUS
<1> USE DEF reader, card, tasks, history
<1>t. TypeOK /\ Locks /\ SectionCurrent /\ DrawingCurrent
  BY DEF CardInv
<1>1. CASE TurnForward \/ TurnBack \/ ReturnFromEnd \/ SkipBack \/ SkipForward
  <2>1. \/ render = "idle" \/ raced' = "now" \/ UNCHANGED <<spine, section, raced>>
    BY <1>1 DEF TurnForward, TurnBack, ReturnFromEnd, SkipBack, SkipForward, EndTurn,
        SetPage, SetChapter, UnlockedChange, Unlocked
  <2>2. UNCHANGED <<render, drawn, save>>
    BY <1>1 DEF TurnForward, TurnBack, ReturnFromEnd, SkipBack, SkipForward, EndTurn
  <2> QED
    BY <1>t, <2>1, <2>2 DEF DrawingCurrent, PageCount
<1>2. CASE Relayout \/ OpenList \/ CancelList \/ PickChapter \/ FollowNote \/ FollowDeadLink \/ ReturnFromNote \/ GoToBookmark \/ LeaveForAsk \/ DeleteCache \/ DrawEnd \/ CannotLoad \/ CannotRead
  <2>1. render = "idle" /\ render' = "idle"
    BY <1>2 DEF Relayout, OpenList, CancelList, PickChapter, FollowNote, FollowDeadLink, ReturnFromNote, GoTo,
        GoToBookmark, LeaveForAsk, DeleteCache, DrawEnd, CannotLoad, CannotRead, Seen, MayDraw, Unlocked
  <2> QED
    BY <2>1 DEF DrawingCurrent
<1>3. CASE Open \/ ChangeSettings
  <2>1. render = "idle" /\ render' = render
    BY <1>t, <1>3 DEF Open, ChangeSettings, Locks
  <2> QED
    BY <2>1 DEF DrawingCurrent
<1>4. CASE Close \/ Rename \/ SaveFails \/ PowerCut \/ Panic
  <2>1. render' = "idle"
    BY <1>t, <1>4 DEF Close, Rename, SaveFails, PowerCut, Panic, AfterSave, SaveOrigin, Restarted, Leave, Locks, Unlocked
  <2> QED
    BY <2>1 DEF DrawingCurrent
<1>5. CASE WriteTmp \/ RemoveOld \/ RemoveFails
  <2>1. save'.place = save.place /\ UNCHANGED <<reader, render, drawn, raced>>
    BY <1>t, <1>5 DEF WriteTmp, RemoveOld, RemoveFails, Go, Goes, TypeOK, TasksOK
  <2> QED
    BY <1>t, <2>1 DEF DrawingCurrent, PageCount
<1>6. CASE Draw
  <2>1. drawn' = section' /\ render' = "draw" /\ spine' = spine
    BY <1>6 DEF Draw
  <2>2. section'.chapter = spine
    BY <1>t, <1>6, LoadedIsPage DEF Draw, SectionCurrent
  <2> QED
    BY <2>1, <2>2 DEF DrawingCurrent
<1>7. CASE Drawn
  <2>1. CASE render' = "idle"
    BY <2>1 DEF DrawingCurrent
  <2>2. CASE render' # "idle"
    <3>1. /\ save' = [step |-> "write", place |-> Record(spine, section.page, PageCount), then |-> "draw"]
          /\ render = "draw" /\ UNCHANGED <<reader, drawn, raced>>
      BY <1>7, <2>2 DEF Drawn, Save
    <3>2. section # None /\ section.page < PageCount /\ section.page \in Nat /\ PageCount \in Nat /\ drawn # None
      BY <1>t, <3>1, SectionType DEF SectionCurrent, Locks
    <3>3. ~(section.page >= PageCount)
      BY <3>2
    <3>4. ASSUME section = drawn
          PROVE  Record(spine, section.page, PageCount)
                   = [spine |-> spine, page |-> section.page, total |-> PageCount,
                      offset |-> StartOf(section.page, section.layout)]
      BY <3>2, <3>3, <3>4, Zenon DEF Record
    <3> QED
      BY <1>t, <3>1, <3>4 DEF DrawingCurrent, PageCount
  <2> QED
    BY <2>1, <2>2
<1>8. CASE BeginTurn \/ Redraw \/ UNCHANGED vars
  BY <1>t, <1>8
  DEF BeginTurn, Redraw, vars, DrawingCurrent, PageCount
<1> QED
  BY <1>1, <1>2, <1>3, <1>4, <1>5, <1>6, <1>7, <1>8 DEF Next

LEMMA DrawnIsSavedStep == CardInv /\ [Next]_vars => DrawnIsSaved'
<1> SUFFICES ASSUME CardInv, [Next]_vars PROVE DrawnIsSaved'
  OBVIOUS
<1> USE DEF reader, card, tasks, history
<1>t. TypeOK /\ Locks /\ DrawingCurrent /\ DrawnIsSaved
  BY DEF CardInv
<1>1. CASE TurnForward \/ TurnBack \/ ReturnFromEnd \/ SkipBack \/ SkipForward
  <2>1. raced' = raced \/ raced' = "now"
    BY <1>1 DEF TurnForward, TurnBack, ReturnFromEnd, SkipBack, SkipForward, EndTurn,
        SetPage, SetChapter, UnlockedChange, Unlocked
  <2>2. UNCHANGED <<render, drawn, save, saved, failed>>
    BY <1>1 DEF TurnForward, TurnBack, ReturnFromEnd, SkipBack, SkipForward, EndTurn
  <2> QED
    BY <1>t, <2>1, <2>2 DEF DrawnIsSaved
<1>2. CASE Close \/ LeaveForAsk \/ DeleteCache \/ PowerCut \/ Panic
  <2>1. save'.step # "none" \/ drawn' = None
    BY <1>2 DEF Close, LeaveForAsk, DeleteCache, PowerCut, Panic, SaveOrigin, Save, Restarted, Leave
  <2> QED
    BY <2>1 DEF DrawnIsSaved
<1>3. CASE WriteTmp \/ RemoveOld \/ RemoveFails
  <2>1. save'.step # "none"
    BY <1>t, <1>3 DEF WriteTmp, RemoveOld, RemoveFails, Go, Goes, TypeOK, TasksOK
  <2> QED
    BY <2>1 DEF DrawnIsSaved
<1>4. CASE Rename
  <2>1. CASE save.then = "draw"
    <3>1. /\ saved' = [spine |-> spine, page |-> section.page, total |-> PageCount] /\ drawn' = drawn
          /\ raced' = "no" => raced # "now"
      BY <1>4, <2>1 DEF Rename, AfterSave
    <3>2. render = "save"
      BY <1>t, <1>4, <2>1 DEF Rename, Locks
    <3> QED
      BY <1>t, <3>1, <3>2 DEF DrawingCurrent, DrawnIsSaved, PageCount
  <2>2. CASE save.then # "draw"
    <3>1. save'.step # "none" \/ drawn' = None
      BY <1>4, <2>2 DEF Rename, AfterSave, SaveOrigin, Save, Leave
    <3> QED
      BY <3>1 DEF DrawnIsSaved
  <2> QED
    BY <2>1, <2>2
<1>5. CASE SaveFails
  <2>1. failed' = TRUE \/ drawn' = None
    BY <1>5 DEF SaveFails, AfterSave, Leave
  <2> QED
    BY <2>1 DEF DrawnIsSaved
<1>6. CASE Draw
  <2>1. render' = "draw"
    BY <1>6 DEF Draw
  <2> QED
    BY <2>1 DEF DrawnIsSaved
<1>7. CASE Drawn
  <2>1. CASE saved = [spine |-> spine, page |-> section.page, total |-> PageCount]
    <3>1. UNCHANGED <<drawn, saved>> /\ render = "draw" /\ (raced' = "no" => raced # "now")
      BY <1>7, <2>1 DEF Drawn
    <3> QED
      BY <1>t, <2>1, <3>1 DEF DrawingCurrent, DrawnIsSaved, PageCount
  <2>2. CASE saved # [spine |-> spine, page |-> section.page, total |-> PageCount]
    BY <1>7, <2>2 DEF Drawn, DrawnIsSaved
  <2> QED
    BY <2>1, <2>2
<1>8. CASE Open \/ BeginTurn \/ Relayout \/ OpenList \/ CancelList \/ PickChapter \/
           FollowNote \/ FollowDeadLink \/ ReturnFromNote \/ GoToBookmark \/ DrawEnd \/
           CannotLoad \/ CannotRead \/ Redraw \/ ChangeSettings \/ UNCHANGED vars
  BY <1>t, <1>8
  DEF Open, BeginTurn, Relayout, OpenList, CancelList, PickChapter, FollowNote,
      FollowDeadLink, ReturnFromNote, GoToBookmark, DrawEnd, CannotLoad, CannotRead, Redraw,
      ChangeSettings, vars, GoTo, DrawnIsSaved
<1> QED
  BY <1>1, <1>2, <1>3, <1>4, <1>5, <1>6, <1>7, <1>8 DEF Next

LEMMA SavedIsOnCardStep == CardInv /\ [Next]_vars => SavedIsOnCard'
<1> SUFFICES ASSUME CardInv, [Next]_vars PROVE SavedIsOnCard'
  OBVIOUS
<1> USE DEF reader, card, tasks, history
<1>t. TypeOK /\ Locks /\ DrawingCurrent /\ SavedIsOnCard
  BY DEF CardInv
<1>1. CASE TurnForward \/ TurnBack \/ ReturnFromEnd \/ SkipBack \/ SkipForward
  <2>1. raced' = raced \/ raced' = "now"
    BY <1>1 DEF TurnForward, TurnBack, ReturnFromEnd, SkipBack, SkipForward, EndTurn,
        SetPage, SetChapter, UnlockedChange, Unlocked
  <2>2. UNCHANGED <<file, save, saved, failed>>
    BY <1>1 DEF TurnForward, TurnBack, ReturnFromEnd, SkipBack, SkipForward, EndTurn
  <2> QED
    BY <1>t, <2>1, <2>2 DEF SavedIsOnCard
<1>2. CASE Close \/ LeaveForAsk \/ DeleteCache \/ PowerCut \/ Panic
  <2>1. save'.step # "none" \/ saved' = None
    BY <1>2 DEF Close, LeaveForAsk, DeleteCache, PowerCut, Panic, SaveOrigin, Save, Restarted, Leave
  <2> QED
    BY <2>1 DEF SavedIsOnCard
<1>3. CASE WriteTmp \/ RemoveOld \/ RemoveFails
  <2>1. save'.step # "none"
    BY <1>t, <1>3 DEF WriteTmp, RemoveOld, RemoveFails, Go, Goes, TypeOK, TasksOK
  <2> QED
    BY <2>1 DEF SavedIsOnCard
<1>4. CASE Rename
  <2>1. CASE save.then = "draw"
    <3>1. /\ saved' = [spine |-> spine, page |-> section.page, total |-> PageCount] /\ file' = save.place
          /\ raced' = "no" => raced # "now"
      BY <1>4, <2>1 DEF Rename, AfterSave
    <3>2. render = "save" /\ section # None /\ save.place # None
      BY <1>t, <1>4, <2>1 DEF Rename, Locks
    <3>3. section.layout \in Layout
      BY <1>t, <3>2, SectionType
    <3>4. CASE raced' = "no"
      <4>1. /\ spine = section.chapter
            /\ file' = [spine |-> spine, page |-> section.page, total |-> PageCount,
                        offset |-> StartOf(section.page, section.layout)]
        BY <1>t, <3>1, <3>2, <3>4 DEF DrawingCurrent
      <4>2. Pages(saved'.spine, section.layout) = saved'.total
            /\ file'.offset = StartOf(saved'.page, section.layout)
        BY <3>1, <4>1 DEF PageCount
      <4> QED
        BY <3>1, <3>2, <3>3, <4>1, <4>2 DEF SavedIsOnCard
    <3> QED
      BY <3>4 DEF SavedIsOnCard
  <2>2. CASE save.then # "draw"
    <3>1. save'.step # "none" \/ saved' = None
      BY <1>t, <1>4, <2>2 DEF Rename, AfterSave, SaveOrigin, Save, Leave, TypeOK, TasksOK
    <3> QED
      BY <3>1 DEF SavedIsOnCard
  <2> QED
    BY <2>1, <2>2
<1>5. CASE SaveFails
  <2>1. failed' = TRUE \/ saved' = None
    BY <1>5 DEF SaveFails, AfterSave, Leave
  <2> QED
    BY <2>1 DEF SavedIsOnCard
<1>6. CASE Drawn
  <2>1. save'.step # "none" \/ (UNCHANGED <<save, saved, file, failed>> /\ (raced' = "no" => raced = "no"))
    BY <1>6 DEF Drawn, Save
  <2> QED
    BY <1>t, <2>1 DEF SavedIsOnCard
<1>7. CASE Open \/ BeginTurn \/ Relayout \/ OpenList \/ CancelList \/ PickChapter \/
           FollowNote \/ FollowDeadLink \/ ReturnFromNote \/ GoToBookmark \/ Draw \/ DrawEnd \/
           CannotLoad \/ CannotRead \/ Redraw \/ ChangeSettings \/ UNCHANGED vars
  BY <1>t, <1>7
  DEF Open, BeginTurn, Relayout, OpenList, CancelList, PickChapter, FollowNote,
      FollowDeadLink, ReturnFromNote, GoToBookmark, Draw, DrawEnd, CannotLoad, CannotRead,
      Redraw, ChangeSettings, vars, GoTo, SavedIsOnCard
<1> QED
  BY <1>1, <1>2, <1>3, <1>4, <1>5, <1>6, <1>7 DEF Next

LEMMA CardInvStep == CardInv /\ [Next]_vars => CardInv'
BY TypeStep, LocksStep, SectionStep, DrawingStep, DrawnIsSavedStep, SavedIsOnCardStep DEF CardInv

LEMMA CardAlways == Spec => []CardInv
<1>1. Init => CardInv
  BY CardInit
<1>2. CardInv /\ [Next]_vars => CardInv'
  BY CardInvStep
<1> QED
  BY <1>1, <1>2, PTL DEF Spec

(* All variables keep their types (EpubReaderActivity, ProgressFile). *)
THEOREM TypeCorrect == Spec => []TypeOK
<1>1. CardInv => TypeOK
  BY DEF CardInv
<1> QED
  BY <1>1, CardAlways, PTL

(* At rest the place on the card is the page on the panel, unless a save failed or   *)
(* the place changed under a drawing, for any book and any set of layouts            *)
(* (renderBook, saveProgress).                                                       *)
THEOREM PlaceIsOnCard == Spec => []PlaceOnCard
<1>1. CardInv => PlaceOnCard
  <2> SUFFICES ASSUME CardInv, AtRest PROVE PlaceOnCard
    BY DEF PlaceOnCard
  <2>1. drawn # None /\ render = "idle" /\ save.step = "none" /\ ~failed /\ raced = "no"
    BY DEF AtRest, Settled, Reading, MainFree
  <2>2. saved = [spine |-> drawn.chapter, page |-> drawn.page, total |-> Pages(drawn.chapter, drawn.layout)]
    BY <2>1 DEF CardInv, DrawnIsSaved
  <2>3. drawn.chapter \in Chapter /\ drawn.page \in Nat /\ drawn.layout \in Layout
    BY <2>1 DEF CardInv, TypeOK, TasksOK, Section
  <2>4. saved # None
    BY <2>2, <2>3, ChapterType, PagesType, LoadedIsNotNone DEF CardInv
  <2> QED
    BY <2>1, <2>2, <2>4 DEF CardInv, SavedIsOnCard, PlaceOnCard
<1> QED
  BY <1>1, CardAlways, PTL

-----------------------------------------------------------------------------
(* The book as it is left and the place that is asked for. *)
LEMMA PendingIsJump ==
  ASSUME TypeOK
  PROVE  Pending <=> jump # NoJump
<1>1. jump = [last |-> jump.last, offset |-> jump.offset, anchor |-> jump.anchor] /\ jump.last \in BOOLEAN
  BY DEF TypeOK, ReaderOK
<1>2. ~Pending => jump = NoJump
  <2>1. ~Pending => jump.last = FALSE
    BY <1>1 DEF Pending
  <2> QED
    BY <1>1, <2>1, Zenon DEF Pending, NoJump
<1>3. jump = NoJump => ~Pending
  BY DEF Pending, NoJump
<1> QED
  BY <1>2, <1>3

LEMMA MarkFacts ==
  ASSUME TypeOK, MarkInBook, mark # None
  PROVE  /\ mark.spine \in Chapter /\ mark.offset \in Nat /\ mark.offset \in 0..(Length[mark.spine] - 1)
         /\ mark.spine # Chapters
         /\ PageAt(mark.offset, layout) \in Nat /\ PageAt(mark.offset, layout) < Pages(mark.spine, layout)
<1>1. mark.spine \in Chapter /\ mark.offset \in Nat /\ mark.offset \in 0..(Length[mark.spine] - 1)
  BY DEF TypeOK, HistoryOK, Mark, MarkInBook
<1>2. mark.spine # Chapters
  BY <1>1, ReadingPlaceAssumption DEF Chapter
<1> QED
  BY <1>1, <1>2, PageBound DEF TypeOK, CardOK

(* Loading finds the mark. *)
LEMMA SmallerIs ==
  ASSUME NEW m \in Nat \ {0}, NEW n \in Nat, n < m
  PROVE  Smaller(m - 1, n) = n
BY DEF Smaller

LEMMA FoundIsLoaded ==
  ASSUME TypeOK, MarkInBook, mark # None, spine = mark.spine, Found
  PROVE  Loaded.page = PageAt(mark.offset, layout)
<1> DEFINE total == Pages(spine, layout)
           aim == PageAt(mark.offset, layout)
<1>1. /\ mark.offset \in Nat /\ aim \in Nat /\ aim < total /\ spine \in Chapter
      /\ layout \in Layout
  BY MarkFacts DEF TypeOK, CardOK
<1>2. total \in Nat \ {0} /\ PageAt(Length[spine] - 1, layout) = total - 1
  BY <1>1, PagesType
<1>3. /\ jump.offset \in Int /\ jump.anchor \in Int /\ nextPage \in Nat
      /\ cached.total \in Nat /\ cached.offset \in Int
      /\ cached \in [spine : Nat, total : Nat, offset : Offset]
  BY DEF TypeOK, ReaderOK, Offset
<1>4. /\ Kept \in [spine : Nat, total : Nat, offset : Offset]
      /\ Kept.spine = cached.spine
      /\ built[spine] = layout => Kept.total = 0 /\ Kept.offset = -1
      /\ built[spine] # layout => Kept = cached
      /\ Cleared(Kept).spine = Kept.spine /\ Cleared(Kept).total = 0 /\ Cleared(Kept).offset = -1
  BY <1>3, ClearedType DEF Kept
<1>5. Kept.total \in Nat /\ Kept.offset \in Int
  BY <1>4 DEF Offset
<1>6. Smaller(total - 1, aim) = aim /\ (total - 1 \in Nat /\ Smaller(total - 1, total - 1) = total - 1)
  <2>1. total - 1 \in Nat /\ total - 1 < total
    BY <1>2
  <2> QED
    BY <1>1, <1>2, <2>1, SmallerIs
<1> HIDE DEF total, aim
<1>7. ASSUME NEW kept, kept.spine # spine \/ (kept.offset \in Int /\ kept.offset < 0 /\ kept.total = 0),
             TargetPage = aim
      PROVE  Reposition(TargetPage, kept) = aim
  BY <1>7 DEF Reposition
<1>8. ASSUME OffsetJump >= 0, TargetPage = aim
      PROVE  Loaded.page = aim
  BY <1>4, <1>7, <1>8 DEF Loaded
<1>9. ASSUME ~(OffsetJump >= 0), Kept.spine # spine \/ (Kept.offset < 0 /\ Kept.total = 0), TargetPage = aim
      PROVE  Loaded.page = aim
  BY <1>5, <1>7, <1>9 DEF Loaded
<1>10. Unremembered => Kept.spine # spine \/ (Kept.offset < 0 /\ Kept.total = 0)
  BY <1>3, <1>4 DEF Unremembered
<1>11. CASE jump.offset = mark.offset /\ jump.anchor < 0
  <2>1. OffsetJump = mark.offset
    BY <1>1, <1>3, <1>11 DEF OffsetJump
  <2>2. TargetPage = Smaller(total - 1, aim)
    BY <1>1, <1>3, <1>11, <2>1 DEF TargetPage, total, aim
  <2> QED
    BY <1>1, <1>6, <1>8, <2>1, <2>2 DEF aim
<1>12. CASE jump.anchor = mark.offset /\ jump.offset < 0 /\ Unremembered
  <2>1. OffsetJump = -1
    BY <1>1, <1>3, <1>12 DEF OffsetJump
  <2>2. TargetPage = Smaller(total - 1, aim)
    BY <1>1, <1>3, <1>12 DEF TargetPage, total, aim
  <2> QED
    BY <1>6, <1>9, <1>10, <1>12, <2>1, <2>2 DEF aim
<1>13. CASE jump.last /\ mark.offset = Length[spine] - 1 /\ jump.offset < 0 /\ jump.anchor < 0 /\ Unremembered
  <2>1. OffsetJump = -1
    BY <1>3, <1>13 DEF OffsetJump
  <2>2. aim = total - 1
    BY <1>2, <1>13 DEF total, aim
  <2>3. TargetPage = Smaller(total - 1, total - 1)
    BY <1>3, <1>13, <2>1 DEF TargetPage, total
  <2> QED
    BY <1>6, <1>9, <1>10, <1>13, <2>1, <2>2, <2>3 DEF aim
<1>14. ASSUME ~Pending, ~(OffsetJump >= 0)
       PROVE  TargetPage = Smaller(total - 1, nextPage)
  BY <1>14 DEF TargetPage, Pending, total
<1>15. ~Pending => OffsetJump = IF spine # cached.spine THEN -1 ELSE Kept.offset
  BY DEF OffsetJump, Pending
<1>16. CASE ~Pending /\ Unremembered /\ nextPage = aim
  <2>1. ~(OffsetJump >= 0)
    BY <1>4, <1>5, <1>10, <1>15, <1>16
  <2> QED
    BY <1>6, <1>9, <1>10, <1>14, <1>16, <2>1 DEF aim
<1>17. CASE ~Pending /\ cached.spine = spine /\ Resumes(nextPage, cached.total, cached.offset, mark)
  <2>1. CASE built[spine] = layout /\ nextPage = aim
    <3>1. ~(OffsetJump >= 0) /\ Kept.offset < 0 /\ Kept.total = 0
      BY <1>4, <1>15, <1>17, <2>1
    <3> QED
      BY <1>6, <1>9, <1>14, <1>17, <2>1, <3>1 DEF aim
  <2>2. CASE built[spine] # layout /\ cached.offset = mark.offset
    <3>1. OffsetJump = mark.offset
      BY <1>4, <1>15, <1>17, <2>2
    <3>2. TargetPage = Smaller(total - 1, aim)
      BY <1>1, <1>17, <3>1 DEF TargetPage, Pending, total, aim
    <3> QED
      BY <1>1, <1>6, <1>8, <3>1, <3>2 DEF aim
  <2>3. CASE built[spine] # layout /\ cached.offset < 0 /\ cached.total \in {0, total} /\ nextPage = aim
    <3>1. ~(OffsetJump >= 0)
      BY <1>3, <1>4, <1>15, <1>17, <2>3
    <3>2. TargetPage = aim
      BY <1>6, <1>14, <1>17, <2>3, <3>1
    <3>3. Reposition(TargetPage, Kept) = aim
      BY <1>2, <1>3, <1>4, <2>3, <3>2 DEF Reposition, total
    <3> QED
      BY <3>1, <3>3 DEF Loaded, aim
  <2> QED
    BY <1>17, <2>1, <2>2, <2>3 DEF Resumes, total, aim
<1> QED
  BY <1>11, <1>12, <1>13, <1>16, <1>17 DEF Found, aim

LEMMA SectionSpine ==
  ASSUME TypeOK, SectionCurrent, section # None
  PROVE  ~AtEnd => spine = section.chapter
BY DEF SectionCurrent

(* What a turn does to the place: another page of the chapter, another chapter, *)
(* the page after the last, or nothing.                                         *)
LEMMA Turns ==
  ASSUME TypeOK, SectionCurrent, TurnForward \/ TurnBack \/ SkipBack \/ SkipForward
  PROVE  /\ section # None /\ requested' = TRUE
         /\ UNCHANGED <<screen, cached, notes, card, layout, render, drawn, saved, save, failed, stale, faults>>
         /\ \/ \E p \in Nat : p < PageCount /\ SetPage(p)
            \/ \E c \in 0..Chapters, last \in BOOLEAN : (c = Chapters => ~last) /\ SetChapter(c, last)
            \/ spine' = Chapters /\ mark' = None /\ UNCHANGED <<section, nextPage, jump>>
            \/ UNCHANGED <<spine, section, nextPage, jump, raced, mark>>
<1>1. /\ section # None /\ requested' = TRUE
      /\ UNCHANGED <<screen, cached, notes, card, layout, render, drawn, saved, save, failed, stale, faults>>
  BY DEF TurnForward, TurnBack, SkipBack, SkipForward, EndTurn
<1>2. /\ section.page \in Nat /\ section.page + 1 \in Nat /\ 0 \in Nat
      /\ section.page < PageCount - 1 => section.page + 1 < PageCount
      /\ section.page > 0 => section.page - 1 \in Nat /\ section.page - 1 < PageCount
      /\ 0 < PageCount
  BY <1>1, SectionType DEF SectionCurrent
<1>3. /\ spine + 1 < Chapters => spine + 1 \in 0..Chapters /\ spine + 1 # Chapters
      /\ spine > 0 => spine - 1 \in 0..Chapters /\ spine - 1 # Chapters
      /\ ~AtEnd => spine + 1 \in 0..Chapters
  BY ReadingPlaceAssumption DEF TypeOK, ReaderOK, AtEnd
<1>4. CASE TurnForward
  <2>1. CASE section.page < PageCount - 1 /\ SetPage(section.page + 1)
    BY <1>1, <1>2, <2>1
  <2>2. CASE spine + 1 < Chapters /\ SetChapter(spine + 1, FALSE)
    BY <1>1, <1>3, <2>2
  <2> QED
    BY <1>1, <1>4, <2>1, <2>2 DEF TurnForward
<1>5. CASE TurnBack
  <2>1. CASE section.page > 0 /\ SetPage(section.page - 1)
    BY <1>1, <1>2, <2>1
  <2>2. CASE spine > 0 /\ SetChapter(spine - 1, TRUE)
    BY <1>1, <1>3, <2>2
  <2> QED
    BY <1>1, <1>5, <2>1, <2>2 DEF TurnBack
<1>6. CASE SkipBack
  <2>1. CASE SetPage(0)
    BY <1>1, <1>2, <2>1
  <2>2. CASE spine > 0 /\ SetChapter(spine - 1, FALSE)
    BY <1>1, <1>3, <2>2
  <2> QED
    BY <1>6, <2>1, <2>2 DEF SkipBack
<1>7. CASE SkipForward
  BY <1>1, <1>3, <1>7 DEF SkipForward
<1> QED
  BY <1>4, <1>5, <1>6, <1>7

LEMMA JumpFields ==
  ASSUME TypeOK
  PROVE  /\ \A b \in BOOLEAN : /\ [jump EXCEPT !.last = @ \/ b].offset = jump.offset
                                /\ [jump EXCEPT !.last = @ \/ b].anchor = jump.anchor
                                /\ [jump EXCEPT !.last = @ \/ b].last = (jump.last \/ b)
         /\ [jump EXCEPT !.last = TRUE].offset = jump.offset
         /\ [jump EXCEPT !.last = TRUE].anchor = jump.anchor
         /\ [jump EXCEPT !.last = TRUE].last
         /\ \A o \in Int : /\ [jump EXCEPT !.anchor = o].offset = jump.offset
                           /\ [jump EXCEPT !.anchor = o].anchor = o
                           /\ [jump EXCEPT !.anchor = o].last = jump.last
                           /\ [jump EXCEPT !.offset = o].offset = o
                           /\ [jump EXCEPT !.offset = o].anchor = jump.anchor
                           /\ [jump EXCEPT !.offset = o].last = jump.last
         /\ NoJump.offset = -1 /\ NoJump.anchor = -1 /\ ~NoJump.last
BY DEF TypeOK, ReaderOK, NoJump

LEMMA LoadingStep == PlaceInv /\ [Next]_vars => Loading'
<1> SUFFICES ASSUME PlaceInv, [Next]_vars PROVE Loading'
  OBVIOUS
<1> USE DEF reader, card, tasks, history
<1>t. TypeOK /\ SectionCurrent /\ Loading
  BY DEF PlaceInv, CardInv
<1>1. CASE BeginTurn
  <2>1. UNCHANGED <<section, built, layout, jump>> /\ cached'.total = 0 /\ cached'.offset = -1
    BY <1>t, <1>1, ClearedType DEF BeginTurn, NothingCached, TypeOK, ReaderOK
  <2> QED
    BY <1>t, <2>1 DEF Loading
<1>2. CASE TurnForward \/ TurnBack \/ SkipBack \/ SkipForward
  <2>1. section # None /\ UNCHANGED <<built, cached, layout>>
    BY <1>t, <1>2, Turns
  <2>2. ASSUME NEW p \in Nat, SetPage(p)
        PROVE  section'.chapter = section.chapter /\ jump' = jump
    BY <1>t, <2>1, <2>2, SectionType DEF SetPage
  <2>3. ASSUME NEW c, NEW last, SetChapter(c, last)
        PROVE  section' = None
    BY <2>3 DEF SetChapter
  <2>4. section' = None \/ (section'.chapter = section.chapter /\ jump' = jump)
    BY <1>t, <1>2, <2>2, <2>3, Turns
  <2> QED
    BY <1>t, <2>1, <2>4 DEF Loading
<1>3. CASE ReturnFromEnd
  BY <1>t, <1>3, JumpFields
  DEF ReturnFromEnd, Loading
<1>4. CASE Relayout \/ OpenList \/ PickChapter \/ FollowNote \/ ReturnFromNote \/ DeleteCache \/ CannotRead
  <2>1. section' = None
    BY <1>4 DEF Relayout, OpenList, Release, PickChapter, FollowNote, GoTo, ReturnFromNote, DeleteCache, CannotRead
  <2> QED
    BY <2>1 DEF Loading
<1>5. CASE GoToBookmark
  <2>1. \/ section' = None
        \/ /\ section # None /\ jump' = jump
           /\ \E c \in Chapter : \E o \in 0..(Length[c] - 1) :
                section' = [section EXCEPT !.page = PageAt(o, section.layout)]
    BY <1>5 DEF GoToBookmark
  <2>2. section # None => \A x : [section EXCEPT !.page = x].chapter = section.chapter
    BY <1>t, SectionType DEF Section
  <2>3. UNCHANGED <<built, layout>> /\ cached'.total = 0 /\ cached'.offset = -1
    BY <1>t, <1>5, ClearedType DEF GoToBookmark, NothingCached, TypeOK, ReaderOK
  <2> QED
    BY <1>t, <2>1, <2>2, <2>3 DEF Loading
<1>6. CASE Open \/ ChangeSettings
  BY <1>t, <1>6, Zenon
  DEF Open, ChangeSettings, SectionCurrent, Loading
<1>7. CASE Close \/ Rename \/ SaveFails \/ PowerCut \/ Panic
  <2>1. section' = None \/ UNCHANGED <<reader, built, layout>>
    BY <1>7 DEF Close, Rename, SaveFails, PowerCut, Panic, AfterSave, SaveOrigin, Restarted, Leave
  <2> QED
    BY <1>t, <2>1 DEF Loading
<1>8. CASE Draw
  <2>1. CASE section = None
    <3>1. /\ section' = Loaded /\ built' = [built EXCEPT ![spine] = layout] /\ jump' = NoJump
          /\ cached' = Cleared(cached) /\ layout' = layout
      BY <1>8, <2>1 DEF Draw
    <3>2. Loaded.chapter = spine /\ spine \in Chapter
      BY <1>t, <1>8, LoadedIsPage DEF Draw
    <3> QED
      BY <1>t, <3>1, <3>2, ClearedType DEF Loading, NoJump, TypeOK, ReaderOK, CardOK
  <2>2. CASE section # None
    BY <1>t, <1>8, <2>2 DEF Draw, Loading
  <2> QED
    BY <2>1, <2>2
<1>9. CASE CancelList \/ FollowDeadLink \/ LeaveForAsk \/ WriteTmp \/ RemoveOld \/
           RemoveFails \/ DrawEnd \/ CannotLoad \/ Drawn \/ Redraw \/ UNCHANGED vars
  BY <1>t, <1>9
  DEF CancelList, FollowDeadLink, LeaveForAsk, WriteTmp, RemoveOld, RemoveFails, DrawEnd,
      CannotLoad, Drawn, Redraw, vars, Go, Goes, Loading
<1> QED
  BY <1>1, <1>2, <1>3, <1>4, <1>5, <1>6, <1>7, <1>8, <1>9 DEF Next

LEMMA JumpsStep == PlaceInv /\ [Next]_vars => Jumps'
<1> SUFFICES ASSUME PlaceInv, [Next]_vars PROVE Jumps'
  OBVIOUS
<1> USE DEF reader, card, tasks, history
<1>t. TypeOK /\ Locks /\ SectionCurrent /\ Jumps /\ AfterEnd
  BY DEF PlaceInv, CardInv
<1>1. CASE TurnForward \/ TurnBack \/ SkipBack \/ SkipForward
  <2>1. section # None /\ stale' = stale /\ requested' = TRUE
    BY <1>t, <1>1, Turns
  <2>2. section' = None \/ jump' = jump
    BY <1>t, <1>1, Turns DEF SetPage, SetChapter
  <2> QED
    BY <1>t, <2>1, <2>2, Zenon DEF Jumps, Pending
<1>2. CASE ReturnFromEnd
  BY <1>t, <1>2, Zenon
  DEF ReturnFromEnd, Jumps, Pending
<1>3. CASE Relayout \/ PickChapter \/ FollowNote \/ ReturnFromNote
  <2>1. section' = None /\ requested' = TRUE
    BY <1>3 DEF Relayout, Release, PickChapter, FollowNote, GoTo, ReturnFromNote
  <2> QED
    BY <2>1, Zenon DEF Jumps
<1>4. CASE OpenList \/ LeaveForAsk \/ DeleteCache \/ DrawEnd \/ Drawn
  <2>1. UNCHANGED <<jump, stale>>
    BY <1>4 DEF OpenList, LeaveForAsk, DeleteCache, DrawEnd, Drawn
  <2>2. ~Pending \/ stale
    BY <1>t, <1>4, Zenon DEF OpenList, LeaveForAsk, DeleteCache, DrawEnd, Drawn, Seen, Jumps, AfterEnd, Locks
  <2> QED
    BY <2>1, <2>2, Zenon DEF Jumps, Pending
<1>5. CASE GoToBookmark
  <2>1. requested' = TRUE /\ stale' = stale /\ (section' = None \/ jump' = jump) /\ ~requested
    BY <1>5 DEF GoToBookmark, Seen
  <2> QED
    BY <1>t, <2>1, Zenon DEF Jumps, Pending
<1>6. CASE Close \/ Rename \/ SaveFails \/ PowerCut \/ Panic
  <2>1. \/ jump' = NoJump
        \/ UNCHANGED <<jump, section, stale>> /\ (requested' = requested \/ requested' = TRUE)
    BY <1>6 DEF Close, Rename, SaveFails, PowerCut, Panic, AfterSave, SaveOrigin, Restarted, Leave
  <2> QED
    BY <1>t, <2>1, JumpFields, Zenon DEF Jumps, Pending, NoJump
<1>7. CASE Draw
  <2>1. jump' = NoJump \/ (section # None /\ UNCHANGED <<jump, stale>>)
    BY <1>7 DEF Draw
  <2> QED
    BY <1>t, <2>1, JumpFields, Zenon DEF Jumps, Pending, NoJump
<1>8. CASE CannotLoad
  <2>1. jump' = jump /\ stale' = (stale \/ jump # NoJump)
    BY <1>8 DEF CannotLoad
  <2> QED
    BY <1>t, <2>1, PendingIsJump, Zenon DEF Jumps, Pending
<1>9. CASE CannotRead
  <2>1. jump' = NoJump \/ (section # None /\ jump' = jump /\ stale' = (stale /\ section # None))
    BY <1>9 DEF CannotRead
  <2> QED
    BY <1>t, <2>1, JumpFields, Zenon DEF Jumps, Pending, NoJump
<1>10. CASE Open \/ BeginTurn \/ CancelList \/ FollowDeadLink \/ WriteTmp \/ RemoveOld \/
           RemoveFails \/ Redraw \/ ChangeSettings \/ UNCHANGED vars
  BY <1>t, <1>10
  DEF Open, BeginTurn, CancelList, FollowDeadLink, WriteTmp, RemoveOld, RemoveFails, Redraw,
      ChangeSettings, vars, Go, Goes, Jumps, Pending
<1> QED
  BY <1>1, <1>2, <1>3, <1>4, <1>5, <1>6, <1>7, <1>8, <1>9, <1>10 DEF Next

LEMMA ListingStep == PlaceInv /\ [Next]_vars => Listing'
<1> SUFFICES ASSUME PlaceInv, [Next]_vars PROVE Listing'
  OBVIOUS
<1> USE DEF reader, card, tasks, history
<1>t. TypeOK /\ SectionCurrent /\ Listing
  BY DEF PlaceInv, CardInv
<1>1. CASE TurnForward \/ TurnBack \/ SkipBack \/ SkipForward
  <2>1. section # None /\ screen' = screen
    BY <1>t, <1>1, Turns
  <2> QED
    BY <1>t, <2>1 DEF Listing
<1>2. CASE OpenList
  <2> QED
    BY <1>2 DEF OpenList, Release, Seen, Reading, MainFree, Unlocked, Listing
<1>3. CASE Open \/ CancelList \/ PickChapter
  <2>1. screen' = "page"
    BY <1>3 DEF Open, CancelList, PickChapter
  <2> QED
    BY <2>1 DEF Listing
<1>4. CASE BeginTurn \/ ReturnFromEnd \/ Relayout \/ FollowNote \/ FollowDeadLink \/ ReturnFromNote \/ GoToBookmark \/ LeaveForAsk \/ DeleteCache \/ Draw \/ DrawEnd \/ CannotLoad \/ CannotRead \/ Redraw
  <2>1. screen' = "page"
    BY <1>4 DEF BeginTurn, ReturnFromEnd, Relayout, FollowNote, FollowDeadLink, ReturnFromNote, GoToBookmark,
         LeaveForAsk, DeleteCache, Draw, DrawEnd, CannotLoad, CannotRead, Redraw, Seen, Reading, MayDraw
  <2> QED
    BY <2>1 DEF Listing
<1>5. CASE Close
  <2>1. CASE Leave
    BY <2>1 DEF Leave, Listing
  <2>2. CASE SaveOrigin
    BY <1>t, <2>2 DEF SaveOrigin, Save, Listing
  <2> QED
    BY <1>5, <2>1, <2>2 DEF Close
<1>6. CASE WriteTmp \/ RemoveOld \/ RemoveFails
  <2>1. save'.then = save.then /\ save.step # "none" /\ UNCHANGED <<reader, main, render, requested>>
    BY <1>t, <1>6 DEF WriteTmp, RemoveOld, RemoveFails, Go, Goes, TypeOK, TasksOK
  <2> QED
    BY <1>t, <2>1 DEF Listing
<1>7. CASE Rename \/ SaveFails
  <2>1. screen # "list" => screen' # "list"
    BY <1>7 DEF Rename, SaveFails, AfterSave, SaveOrigin, Leave
  <2>2. screen = "list" => save.then = "close"
    BY <1>t, <1>7 DEF Rename, SaveFails, Listing
  <2>3. save.then = "close" => screen' = "closed"
    BY <1>7 DEF Rename, SaveFails, AfterSave, Leave
  <2> QED
    BY <2>1, <2>2, <2>3 DEF Listing
<1>8. CASE Drawn
  BY <1>t, <1>8, Zenon
  DEF Drawn, Listing
<1>9. CASE PowerCut \/ Panic
  BY <1>t, <1>9, Zenon
  DEF PowerCut, Panic, Restarted, Leave, Listing
<1>10. CASE ChangeSettings
  BY <1>t, <1>10
  DEF ChangeSettings, Listing
<1>11. CASE UNCHANGED vars
  BY <1>t, <1>11
  DEF vars, Listing
<1> QED
  BY <1>1, <1>2, <1>3, <1>4, <1>5, <1>6, <1>7, <1>8, <1>9, <1>10, <1>11 DEF Next

LEMMA AfterEndStep == PlaceInv /\ [Next]_vars => AfterEnd'
<1> SUFFICES ASSUME PlaceInv, [Next]_vars PROVE AfterEnd'
  OBVIOUS
<1> USE DEF reader, card, tasks, history
<1>t. TypeOK /\ Locks /\ SectionCurrent /\ Loading /\ Jumps /\ AfterEnd /\ MarkInBook /\ Closed
  BY DEF PlaceInv, CardInv
<1>1. CASE Open
  <2>1. screen = "closed" /\ section = None /\ ~Pending /\ UNCHANGED <<section, jump, mark, save, stale>>
    BY <1>t, <1>1 DEF Open, Closed
  <2>2. CASE file = None
    <3>1. spine' = 0 /\ 0 # Chapters
      BY <1>t, <1>1, <2>1, <2>2, ReadingPlaceAssumption DEF Open, Closed
    <3> QED
      BY <3>1 DEF AfterEnd, AtEnd
  <2>3. CASE file # None
    <3>1. spine' = file.spine /\ cached'.spine = file.spine
      BY <1>1, <2>3 DEF Open
    <3>2. mark # None => file.spine # Chapters
      BY <1>t, <2>1, MarkFacts DEF Closed, Leads
    <3> QED
      BY <1>t, <2>1, <3>1, <3>2 DEF AfterEnd, AtEnd, Pending
  <2> QED
    BY <2>2, <2>3
<1>2. CASE BeginTurn
  <2>1. section # None /\ UNCHANGED <<spine, section, jump, mark, save, stale>>
    BY <1>2 DEF BeginTurn
  <2> QED
    BY <1>t, <2>1, Zenon DEF AfterEnd, AtEnd, Pending, Leaving
<1>3. CASE TurnForward \/ TurnBack \/ SkipBack \/ SkipForward
  <2>1. section # None /\ UNCHANGED <<save, stale, cached>>
    BY <1>t, <1>3, Turns
  <2>2. ASSUME NEW p \in Nat, SetPage(p)
        PROVE  section' # None /\ UNCHANGED <<jump, spine>> /\ (AtEnd => mark' = None)
    BY <1>t, <2>1, <2>2, LoadedIsNotNone DEF SetPage
  <2>3. ASSUME NEW c \in 0..Chapters, NEW last \in BOOLEAN, c = Chapters => ~last, SetChapter(c, last)
        PROVE  AfterEnd'
    <3>1. spine' = c /\ (c = Chapters => mark' = None)
      BY <2>3 DEF SetChapter
    <3>2. /\ jump'.offset = jump.offset /\ jump'.anchor = jump.anchor
          /\ jump'.last = (jump.last \/ last)
      BY <1>t, <2>3, JumpFields DEF SetChapter
    <3> QED
      BY <1>t, <2>1, <2>3, <3>1, <3>2, Zenon DEF AfterEnd, AtEnd, Pending, Loading, Jumps
  <2>4. CASE spine' = Chapters /\ mark' = None /\ UNCHANGED <<section, nextPage, jump>>
    BY <1>t, <2>1, <2>4, Zenon DEF AfterEnd, Pending, Jumps
  <2>5. CASE UNCHANGED <<spine, section, nextPage, jump, raced, mark>>
    BY <1>t, <2>1, <2>5, Zenon DEF AfterEnd, AtEnd, Pending, Leaving
  <2>6. ASSUME NEW p \in Nat, SetPage(p)
        PROVE  AfterEnd'
    BY <1>t, <2>1, <2>2, <2>6, Zenon DEF AfterEnd, AtEnd, Pending, Leaving
  <2> QED
    BY <1>t, <1>3, Turns, <2>3, <2>4, <2>5, <2>6
<1>4. CASE ReturnFromEnd
  <2>1. spine' # Chapters
    BY <1>4, ReadingPlaceAssumption DEF ReturnFromEnd
  <2> QED
    BY <2>1 DEF AfterEnd, AtEnd
<1>5. CASE Relayout \/ OpenList
  <2>1. /\ UNCHANGED <<spine, jump, stale, save>> /\ section' = None /\ mark' = Here
        /\ section = None => cached' = cached
        /\ section # None => cached'.spine = spine
        /\ save.step = "none"
    BY <1>5 DEF Relayout, OpenList, Release, Seen, Unlocked
  <2>2. AtEnd => Here = mark
    BY DEF Here
  <2> QED
    BY <1>t, <2>1, <2>2, Zenon DEF AfterEnd, AtEnd, Pending, Leaving, Loading
<1>6. CASE PickChapter \/ FollowNote \/ GoToBookmark
  <2>1. PICK c \in Chapter : spine' = c
    BY <1>6 DEF PickChapter, FollowNote, GoTo, GoToBookmark
  <2> QED
    BY <2>1, ReadingPlaceAssumption DEF AfterEnd, AtEnd, Chapter
<1>7. CASE ReturnFromNote
  <2>1. spine' \in Chapter
    BY <1>t, <1>7, NotesTop DEF ReturnFromNote, Note
  <2> QED
    BY <2>1, ReadingPlaceAssumption DEF AfterEnd, AtEnd, Chapter
<1>8. CASE LeaveForAsk \/ DeleteCache
  <2>1. /\ UNCHANGED <<spine, jump, stale, cached>> /\ section # None /\ save.step = "none"
        /\ mark' \in {Here, None} /\ section' \in {None, section}
    BY <1>8 DEF LeaveForAsk, DeleteCache, Seen, Unlocked
  <2>2. AtEnd => Here = mark
    BY DEF Here
  <2>3. AtEnd => mark' = None
    BY <1>t, <2>1, <2>2, Zenon DEF AfterEnd, Leaving
  <2> QED
    BY <1>t, <2>1, <2>3, Zenon DEF AfterEnd, AtEnd, Pending, Loading
<1>9. CASE Close
  <2>1. CASE SaveOrigin
    <3>1. UNCHANGED reader /\ stale' = stale /\ save'.step # "none" /\ save'.then = "close"
      BY <2>1 DEF SaveOrigin, Save
    <3> QED
      BY <1>t, <3>1, Zenon DEF AfterEnd, AtEnd, Pending, Leaving
  <2>2. CASE Leave
    BY <2>2, ReadingPlaceAssumption DEF Leave, AfterEnd, AtEnd
  <2> QED
    BY <1>9, <2>1, <2>2 DEF Close
<1>10. CASE WriteTmp \/ RemoveOld \/ RemoveFails
  <2>1. save'.then = save.then /\ save.step # "none" /\ save'.step # "none" /\ UNCHANGED <<reader, mark, stale>>
    BY <1>t, <1>10 DEF WriteTmp, RemoveOld, RemoveFails, Go, Goes, TypeOK, TasksOK
  <2> QED
    BY <1>t, <2>1, Zenon DEF AfterEnd, AtEnd, Pending, Leaving
<1>11. CASE Rename \/ SaveFails
  <2>1. \/ Leave
        \/ SaveOrigin
        \/ save.then \in {"draw", "ask"} /\ UNCHANGED <<reader, mark, stale>>
    BY <1>11 DEF Rename, SaveFails, AfterSave
  <2>2. CASE SaveOrigin
    <3>1. UNCHANGED reader /\ stale' = stale /\ save'.step # "none" /\ save'.then = "close"
      BY <2>2 DEF SaveOrigin, Save
    <3> QED
      BY <1>t, <3>1, Zenon DEF AfterEnd, AtEnd, Pending, Leaving
  <2>3. CASE Leave
    BY <2>3, ReadingPlaceAssumption DEF Leave, AfterEnd, AtEnd
  <2>4. CASE save.then \in {"draw", "ask"} /\ UNCHANGED <<reader, mark, stale>>
    BY <1>t, <2>4, Zenon DEF AfterEnd, AtEnd, Pending, Leaving
  <2> QED
    BY <2>1, <2>2, <2>3, <2>4
<1>12. CASE Draw \/ CannotLoad \/ CannotRead
  <2>1. ~AtEnd /\ spine' = spine
    BY <1>12 DEF Draw, CannotLoad, CannotRead
  <2> QED
    BY <2>1 DEF AfterEnd, AtEnd
<1>13. CASE Drawn
  <2>1. UNCHANGED <<reader, mark, stale>> /\ save.step = "none"
    BY <1>t, <1>13 DEF Drawn, Locks, TypeOK, TasksOK
  <2> QED
    BY <1>t, <2>1, Zenon DEF AfterEnd, AtEnd, Pending, Leaving
<1>14. CASE PowerCut \/ Panic
  BY <1>t, <1>14, ReadingPlaceAssumption
  DEF PowerCut, Panic, Restarted, Leave, AfterEnd, AtEnd, Pending, Leaving
<1>15. CASE ChangeSettings
  <2>1. screen = "closed" /\ spine' = spine
    BY <1>15 DEF ChangeSettings
  <2> QED
    BY <1>t, <2>1, ReadingPlaceAssumption DEF Closed, AfterEnd, AtEnd
<1>16. CASE CancelList \/ FollowDeadLink \/ DrawEnd \/ Redraw \/ UNCHANGED vars
  BY <1>t, <1>16
  DEF CancelList, FollowDeadLink, DrawEnd, Redraw, vars, AfterEnd, AtEnd, Pending, Leaving
<1> QED
  BY <1>1, <1>2, <1>3, <1>4, <1>5, <1>6, <1>7, <1>8, <1>9, <1>10, <1>11, <1>12, <1>13,
      <1>14, <1>15, <1>16 DEF Next

LEMMA NotesInBookStep == PlaceInv /\ [Next]_vars => NotesInBook'
<1> SUFFICES ASSUME PlaceInv, [Next]_vars PROVE NotesInBook'
  OBVIOUS
<1> USE DEF reader, card, tasks, history
<1>t. TypeOK /\ SectionCurrent /\ NotesInBook
  BY DEF PlaceInv, CardInv
<1>1. CASE FollowNote
  <2>1. CASE section # None /\ Len(notes) < MaxNotes
    <3> DEFINE new == [spine |-> spine, page |-> section.page, layout |-> section.layout]
    <3>1. new \in Note /\ new.spine = section.chapter /\ new.layout = section.layout /\ new.page = section.page
      BY <1>t, <1>1, <2>1, ChapterType, SectionType, SectionSpine DEF FollowNote, Note
    <3>2. new.page < Pages(new.spine, new.layout)
      BY <1>t, <2>1, <3>1 DEF SectionCurrent, PageCount
    <3>3. notes' = Append(notes, new)
      BY <1>1, <2>1 DEF FollowNote, Noted
    <3> HIDE DEF new
    <3>4. notes \in Seq(Note) /\ Len(notes) \in Nat
      BY <1>t, LenProperties DEF TypeOK, NotesOK
    <3>5. /\ Len(notes') = Len(notes) + 1 /\ notes'[Len(notes) + 1] = new
          /\ \A i \in 1..Len(notes) : notes'[i] = notes[i]
      BY <3>1, <3>3, <3>4, AppendProperties
    <3>6. ASSUME NEW i \in 1..Len(notes')
          PROVE  i \in 1..Len(notes) \/ i = Len(notes) + 1
      BY <3>4, <3>5
    <3>7. ASSUME NEW i \in 1..Len(notes')
          PROVE  notes'[i].page < Pages(notes'[i].spine, notes'[i].layout)
      BY <1>t, <3>2, <3>5, <3>6, <3>7 DEF NotesInBook
    <3> QED
      BY <3>7 DEF NotesInBook
  <2>2. CASE ~(section # None /\ Len(notes) < MaxNotes)
    BY <1>t, <1>1, <2>2 DEF FollowNote, NotesInBook
  <2> QED
    BY <2>1, <2>2
<1>2. CASE FollowDeadLink \/ ReturnFromNote
  <2>1. notes # <<>> /\ notes' = Front(notes)
    BY <1>2 DEF FollowDeadLink, ReturnFromNote
  <2>2. Len(notes') = Len(notes) - 1 /\ Len(notes) \in Nat \ {0}
        /\ \A i \in 1..(Len(notes) - 1) : notes'[i] = notes[i] /\ i \in 1..Len(notes)
    BY <1>t, <2>1, NotesTop
  <2> QED
    BY <1>t, <2>2 DEF NotesInBook
<1>3. CASE Close \/ Rename \/ SaveFails \/ PowerCut \/ Panic
  <2>1. notes' = notes \/ notes' = <<>>
    BY <1>3 DEF Close, Rename, SaveFails, PowerCut, Panic, AfterSave, SaveOrigin, Restarted, Leave
  <2> QED
    BY <1>t, <2>1, FreshType DEF NotesInBook
<1>4. CASE Open \/ BeginTurn \/ TurnForward \/ TurnBack \/ ReturnFromEnd \/ SkipBack \/
           SkipForward \/ Relayout \/ OpenList \/ CancelList \/ PickChapter \/ GoToBookmark \/
           LeaveForAsk \/ DeleteCache \/ WriteTmp \/ RemoveOld \/ RemoveFails \/ Draw \/
           DrawEnd \/ CannotLoad \/ CannotRead \/ Drawn \/ Redraw \/ ChangeSettings \/
           UNCHANGED vars
  BY <1>t, <1>4
  DEF Open, BeginTurn, TurnForward, TurnBack, ReturnFromEnd, SkipBack, SkipForward,
      Relayout, OpenList, CancelList, PickChapter, GoToBookmark, LeaveForAsk, DeleteCache,
      WriteTmp, RemoveOld, RemoveFails, Draw, DrawEnd, CannotLoad, CannotRead, Drawn,
      Redraw, ChangeSettings, vars, EndTurn, Go, Goes, NotesInBook
<1> QED
  BY <1>1, <1>2, <1>3, <1>4 DEF Next

LEMMA MarksInBook ==
  ASSUME TypeOK, SectionCurrent, MarkInBook, NotesInBook
  PROVE  /\ Here # None => Here.offset \in 0..(Length[Here.spine] - 1)
         /\ \A i \in 1..Len(notes) : PlaceOf(notes[i]) # None =>
              PlaceOf(notes[i]).offset \in 0..(Length[PlaceOf(notes[i]).spine] - 1)
<1>1. ASSUME section # None, ~AtEnd
      PROVE  Here.offset \in 0..(Length[Here.spine] - 1)
  <2>1. StartOf(section.page, section.layout) \in 0..(Length[section.chapter] - 1)
    BY <1>1, SectionType, StartBound DEF SectionCurrent, PageCount
  <2> QED
    BY <1>1, <2>1 DEF Here
<1>2. ASSUME ~(section # None /\ ~AtEnd), Here # None
      PROVE  Here.offset \in 0..(Length[Here.spine] - 1)
  BY <1>2 DEF Here, MarkInBook
<1>3. ASSUME NEW i \in 1..Len(notes), PlaceOf(notes[i]) # None
      PROVE  PlaceOf(notes[i]).offset \in 0..(Length[PlaceOf(notes[i]).spine] - 1)
  <2>1. notes[i] \in Note
    BY ElementOfSeq DEF TypeOK, NotesOK
  <2>2. notes[i].spine \in Chapter /\ notes[i].page \in Nat /\ notes[i].layout \in Layout
    BY <2>1 DEF Note
  <2>3. StartOf(notes[i].page, notes[i].layout) \in 0..(Length[notes[i].spine] - 1)
    BY <2>2, StartBound DEF NotesInBook
  <2> QED
    BY <1>3, <2>3 DEF PlaceOf
<1> QED
  BY <1>1, <1>2, <1>3

LEMMA MarkInBookStep == PlaceInv /\ [Next]_vars => MarkInBook'
<1> SUFFICES ASSUME PlaceInv, [Next]_vars PROVE MarkInBook'
  OBVIOUS
<1> USE DEF reader, card, tasks, history
<1>t. TypeOK /\ SectionCurrent /\ NotesInBook /\ MarkInBook
  BY DEF PlaceInv, CardInv
<1>1. CASE TurnForward \/ TurnBack \/ SkipBack \/ SkipForward
  <2>1. ASSUME NEW p \in Nat, p < PageCount, SetPage(p), section # None
        PROVE  MarkInBook'
    <3>1. StartOf(p, section.layout) \in 0..(Length[section.chapter] - 1)
      BY <1>t, <2>1, SectionType, StartBound DEF PageCount
    <3> QED
      BY <1>t, <2>1, <3>1, SectionSpine DEF SetPage, MarkInBook
  <2>2. ASSUME NEW c \in 0..Chapters, NEW last \in BOOLEAN, SetChapter(c, last)
        PROVE  MarkInBook'
    <3>1. c # Chapters => c \in Chapter
      BY ReadingPlaceAssumption DEF Chapter
    <3> QED
      BY <1>t, <2>2, <3>1, ChapterType DEF SetChapter, MarkInBook
  <2>3. section # None
    BY <1>t, <1>1, Turns
  <2> QED
    BY <1>t, <1>1, Turns, <2>1, <2>2, <2>3 DEF MarkInBook
<1>2. CASE ReturnFromEnd
  BY <1>t, <1>2, ChapterType
  DEF ReturnFromEnd, MarkInBook
<1>3. CASE Relayout \/ OpenList \/ LeaveForAsk \/ DeleteCache
  <2>1. mark' \in {Here, None}
    BY <1>3 DEF Relayout, OpenList, LeaveForAsk, DeleteCache
  <2> QED
    BY <1>t, <2>1, MarksInBook DEF MarkInBook
<1>4. CASE PickChapter \/ FollowNote
  <2>1. PICK c \in Chapter : \E anchor \in {-1} \cup 1..(Length[c] - 1) : GoTo(c, anchor)
    BY <1>4 DEF PickChapter, FollowNote
  <2>2. PICK anchor \in {-1} \cup 1..(Length[c] - 1) : GoTo(c, anchor)
    BY <2>1
  <2>3. (IF anchor < 0 THEN 0 ELSE anchor) \in 0..(Length[c] - 1)
    BY <1>t, ChapterType
  <2> QED
    BY <2>2, <2>3 DEF GoTo, MarkInBook
<1>5. CASE ReturnFromNote
  <2>1. mark' = PlaceOf(notes[Len(notes)]) /\ Len(notes) \in 1..Len(notes)
    BY <1>t, <1>5, NotesTop DEF ReturnFromNote, Last
  <2> QED
    BY <1>t, <2>1, MarksInBook DEF MarkInBook
<1>6. CASE GoToBookmark
  <2>1. PICK c \in Chapter : \E o \in 0..(Length[c] - 1) : mark' = [spine |-> c, offset |-> o]
    BY <1>6, Zenon DEF GoToBookmark
  <2>2. PICK o \in 0..(Length[c] - 1) : mark' = [spine |-> c, offset |-> o]
    BY <2>1
  <2> QED
    BY <2>2 DEF MarkInBook
<1>7. CASE Close \/ Rename \/ SaveFails
  <2>1. \/ mark' \in {mark, None, Here}
        \/ notes # <<>> /\ mark' = PlaceOf(notes[1])
    BY <1>7 DEF Close, Rename, SaveFails, AfterSave, SaveOrigin
  <2>2. notes # <<>> => 1 \in 1..Len(notes)
    BY <1>t, NotesTop
  <2> QED
    BY <1>t, <2>1, <2>2, MarksInBook DEF MarkInBook
<1>8. CASE Draw
  <2>1. section' # None /\ section'.chapter = spine /\ section'.page \in Nat
        /\ section'.page < Pages(spine, layout) /\ spine \in Chapter /\ layout \in Layout
    <3>1. CASE section = None
      BY <1>t, <1>8, <3>1, LoadedIsPage, LoadedIsNotNone DEF Draw, Section, TypeOK, CardOK
    <3>2. CASE section # None
      BY <1>t, <1>8, <3>2, SectionType, SectionSpine DEF Draw, SectionCurrent, PageCount, TypeOK, CardOK
    <3> QED
      BY <3>1, <3>2
  <2>2. mark' = [spine |-> spine, offset |-> StartOf(section'.page, layout)]
    BY <1>8 DEF Draw
  <2> QED
    BY <2>1, <2>2, StartBound DEF MarkInBook
<1>9. CASE CannotLoad \/ CannotRead \/ PowerCut \/ Panic \/ ChangeSettings
  BY <1>t, <1>9
  DEF CannotLoad, CannotRead, PowerCut, Panic, ChangeSettings, Restarted, MarkInBook
<1>10. CASE Open \/ BeginTurn \/ CancelList \/ FollowDeadLink \/ WriteTmp \/ RemoveOld \/
           RemoveFails \/ DrawEnd \/ Drawn \/ Redraw \/ UNCHANGED vars
  BY <1>t, <1>10
  DEF Open, BeginTurn, CancelList, FollowDeadLink, WriteTmp, RemoveOld, RemoveFails,
      DrawEnd, Drawn, Redraw, vars, Go, Goes, MarkInBook
<1> QED
  BY <1>1, <1>2, <1>3, <1>4, <1>5, <1>6, <1>7, <1>8, <1>9, <1>10 DEF Next

(* The chapter that is loaded holds the page its own mark names. *)
LEMMA HereIsLoaded ==
  ASSUME TypeOK, SectionCurrent, section # None, ~AtEnd
  PROVE  /\ Here = [spine |-> spine, offset |-> StartOf(section.page, layout)] /\ Here # None
         /\ Here.spine = spine /\ Here.offset = StartOf(section.page, layout)
         /\ section.chapter = spine /\ spine \in Chapter
         /\ section.page \in Nat /\ section.page = PageAt(Here.offset, layout)
<1>1. section.chapter = spine /\ section.layout = layout /\ section.page \in Nat /\ layout \in Layout
      /\ spine \in Chapter
  BY SectionSpine, SectionType DEF SectionCurrent
<1>2. Here = [spine |-> spine, offset |-> StartOf(section.page, layout)]
  BY <1>1 DEF Here
<1>3. StartOf(section.page, layout) \in Nat
  BY <1>1, PageType
<1>4. Here # None
  BY <1>1, <1>2, <1>3, MarkType, ReadingPlaceAssumption
<1> QED
  BY <1>1, <1>2, <1>4, PageOfStart

LEMMA AskedStep == PlaceInv /\ [Next]_vars => Asked'
<1> SUFFICES ASSUME PlaceInv, [Next]_vars PROVE Asked'
  OBVIOUS
<1> USE DEF reader, card, tasks, history
<1>t. /\ TypeOK /\ Locks /\ SectionCurrent /\ Loading /\ Jumps /\ AfterEnd /\ Listing
      /\ MarkInBook /\ Asked /\ Closed
  BY DEF PlaceInv, CardInv
<1>l. layout \in Layout
  BY <1>t DEF TypeOK, CardOK
<1>1. CASE Open
  <2>1. screen = "closed" /\ section = None /\ ~Pending /\ UNCHANGED <<section, jump, mark, layout, built>>
        /\ requested' = TRUE
    BY <1>t, <1>1 DEF Open, Closed
  <2>2. ASSUME mark # None PROVE spine' = mark.spine /\ Found'
    <3>1. Leads(file)
      BY <1>t, <2>1, <2>2 DEF Closed
    <3>2. file # None
      BY <3>1 DEF Leads
    <3>3. /\ spine' = file.spine /\ nextPage' = file.page /\ cached'.spine = file.spine
          /\ cached'.total = file.total /\ cached'.offset = file.offset
      BY <1>1, <3>2 DEF Open
    <3>4. file.spine = mark.spine /\ Resumes(file.page, file.total, file.offset, mark)
      BY <3>1 DEF Leads
    <3>5. Resumes(nextPage, cached.total, cached.offset, mark)'
      BY <2>1, <3>3, <3>4 DEF Resumes
    <3>6. ~Pending'
      BY <2>1 DEF Pending
    <3> QED
      BY <3>3, <3>4, <3>5, <3>6 DEF Found
  <2> QED
    BY <2>1, <2>2 DEF Asked
<1>2. CASE TurnForward \/ TurnBack \/ SkipBack \/ SkipForward
  <2>1. /\ section # None /\ requested' = TRUE
        /\ UNCHANGED <<screen, cached, layout, built, save, stale>>
    BY <1>t, <1>2, Turns
  <2>2. ASSUME NEW p \in Nat, SetPage(p) PROVE Asked'
    <3>1. spine' = spine /\ section' = [section EXCEPT !.page = p] /\ section.layout = layout
          /\ mark' = IF AtEnd THEN None ELSE [spine |-> spine, offset |-> StartOf(p, layout)]
      BY <1>t, <2>1, <2>2 DEF SetPage, SectionCurrent
    <3>2. section'.chapter = section.chapter /\ section'.page = p /\ section' # None
      BY <1>t, <2>1, <3>1, SectionType, LoadedIsNotNone, ReadingPlaceAssumption
    <3>3. ~AtEnd => section.chapter = spine
      BY <1>t, <2>1, SectionSpine
    <3>4. PageAt(StartOf(p, layout), layout) = p
      BY <1>l, PageOfStart
    <3>5. CASE AtEnd
      BY <3>1, <3>5 DEF Asked
    <3>6. CASE ~AtEnd
      <4>1. mark'.spine = spine /\ mark'.offset = StartOf(p, layout)
        BY <3>1, <3>6
      <4> QED
        BY <2>1, <3>1, <3>2, <3>3, <3>4, <3>6, <4>1 DEF Asked
    <3> QED
      BY <3>5, <3>6
  <2>3. ASSUME NEW c \in 0..Chapters, NEW last \in BOOLEAN, c = Chapters => ~last, SetChapter(c, last)
        PROVE  Asked'
    <3>1. /\ spine' = c /\ section' = None /\ nextPage' = 0
          /\ jump' = [jump EXCEPT !.last = @ \/ last]
          /\ mark' = IF c = Chapters THEN None ELSE [spine |-> c, offset |-> IF last THEN Length[c] - 1 ELSE 0]
      BY <2>3 DEF SetChapter
    <3>2. ~stale => ~Pending
      BY <1>t, <2>1, Zenon DEF Jumps
    <3>3. /\ jump'.offset = -1 /\ jump'.anchor = -1 /\ jump'.last = (jump.last \/ last)
          /\ cached.total = 0 /\ cached.offset = -1
      BY <1>t, <2>1, <3>1, JumpFields DEF Loading
    <3>4. Unremembered'
      BY <2>1, <3>3 DEF Unremembered
    <3>5. CASE c = Chapters
      BY <3>1, <3>5 DEF Asked
    <3>6. CASE c # Chapters /\ last
      <4>1. mark'.spine = c /\ mark'.offset = Length[c] - 1 /\ jump'.last
        BY <3>1, <3>3, <3>6
      <4>2. Found'
        BY <3>1, <3>3, <3>4, <4>1 DEF Found
      <4> QED
        BY <2>1, <3>1, <4>1, <4>2 DEF Asked
    <3>7. CASE c # Chapters /\ ~last
      <4>1. mark'.spine = c /\ mark'.offset = 0
        BY <3>1, <3>7
      <4>2. ~Pending => ~Pending'
        BY <3>3, <3>7, Zenon DEF Pending
      <4>3. PageAt(0, layout) = 0
        BY <1>l, PageOfZero
      <4>4. ~stale' => Found'
        BY <2>1, <3>1, <3>2, <3>4, <4>1, <4>2, <4>3 DEF Found
      <4> QED
        BY <2>1, <3>1, <4>1, <4>4 DEF Asked
    <3> QED
      BY <3>5, <3>6, <3>7
  <2>4. CASE spine' = Chapters /\ mark' = None /\ UNCHANGED <<section, nextPage, jump>>
    BY <2>4 DEF Asked
  <2>5. CASE UNCHANGED <<spine, section, nextPage, jump, raced, mark>>
    BY <1>t, <2>1, <2>5 DEF Asked, Leaving
  <2> QED
    BY <1>t, <1>2, Turns, <2>2, <2>3, <2>4, <2>5
<1>3. CASE ReturnFromEnd
  <2>1. /\ AtEnd /\ spine' = Chapters - 1 /\ section' = section /\ requested' = TRUE /\ cached' = cached
        /\ jump' = [jump EXCEPT !.last = TRUE] /\ stale' = (section # None)
        /\ mark' = [spine |-> Chapters - 1, offset |-> Length[Chapters - 1] - 1]
    BY <1>3 DEF ReturnFromEnd
  <2>2. ASSUME section = None PROVE Found'
    <3>1. /\ jump'.last /\ jump'.offset = -1 /\ jump'.anchor = -1
          /\ cached.spine = Chapters \/ (cached.total = 0 /\ cached.offset = -1)
      BY <1>t, <2>1, <2>2, JumpFields DEF AfterEnd
    <3>2. Chapters # Chapters - 1
      BY ReadingPlaceAssumption
    <3>3. Unremembered'
      BY <2>1, <3>1, <3>2 DEF Unremembered
    <3> QED
      BY <2>1, <3>1, <3>3 DEF Found
  <2> QED
    BY <2>1, <2>2 DEF Asked
<1>4. CASE Relayout \/ OpenList
  <2>1. /\ screen = "page" /\ ~requested /\ save.step = "none"
        /\ UNCHANGED <<spine, jump, built, save, stale>> /\ Release /\ mark' = Here
        /\ section' = None /\ (requested' = TRUE \/ screen' = "list")
        /\ layout' \in Layout
    BY <1>l, <1>4 DEF Relayout, OpenList, Release, Seen, Unlocked, Reading
  <2>2. CASE section # None /\ ~AtEnd
    <3>1. /\ Here.spine = spine /\ Here.offset = StartOf(section.page, layout)
          /\ section.chapter = spine /\ section.page = PageAt(Here.offset, layout)
      BY <1>t, <2>2, HereIsLoaded
    <3>2. /\ nextPage' = section.page /\ cached'.spine = spine
          /\ cached'.offset = StartOf(section.page, layout)
      BY <1>t, <2>1, <2>2 DEF Release, SectionCurrent
    <3>3. built[spine] = layout
      BY <1>t, <2>2, <3>1 DEF Loading
    <3>4. Resumes(nextPage, cached.total, cached.offset, mark)'
      BY <2>1, <3>1, <3>2, <3>3 DEF Resumes
    <3>5. ~stale => ~Pending'
      BY <1>t, <2>1, Zenon DEF Jumps, Pending
    <3>6. ~stale => Found'
      BY <2>1, <3>2, <3>4, <3>5 DEF Found
    <3> QED
      BY <2>1, <3>1, <3>6 DEF Asked
  <2>3. CASE ~(section # None /\ ~AtEnd)
    <3>1. Here = mark /\ ~Leaving
      BY <2>1, <2>3 DEF Here, Leaving
    <3>2. mark = None \/ stale
      BY <1>t, <2>1, <2>3, <3>1, Zenon DEF AfterEnd, Asked
    <3> QED
      BY <2>1, <3>1, <3>2 DEF Asked
  <2> QED
    BY <2>2, <2>3
<1>5. CASE CancelList
  <2>1. section = None
    BY <1>t, <1>5 DEF CancelList, Listing
  <2>2. /\ UNCHANGED <<spine, section, nextPage, jump, cached, built, layout, mark, stale, save>>
        /\ requested' = TRUE /\ screen = "list"
    BY <1>5 DEF CancelList
  <2>3. Found' = Found
    BY <2>2 DEF Found, Resumes, Pending, Unremembered
  <2> QED
    BY <1>t, <2>1, <2>2, <2>3 DEF Asked, Leaving
<1>6. CASE PickChapter \/ FollowNote
  <2>1. PICK c \in Chapter : \E anchor \in {-1} \cup 1..(Length[c] - 1) : GoTo(c, anchor)
    BY <1>6 DEF PickChapter, FollowNote
  <2>2. PICK anchor \in {-1} \cup 1..(Length[c] - 1) : GoTo(c, anchor)
    BY <2>1
  <2>3. /\ spine' = c /\ section' = None /\ nextPage' = 0 /\ cached' = Cleared(cached)
        /\ jump' = [jump EXCEPT !.anchor = anchor] /\ UNCHANGED <<layout, stale>> /\ requested' = TRUE
        /\ mark'.spine = c /\ mark'.offset = IF anchor < 0 THEN 0 ELSE anchor
    BY <2>2 DEF GoTo, NothingCached
  <2>4. ~requested
    BY <1>t, <1>6 DEF PickChapter, FollowNote, Seen, Listing
  <2>5. ~stale => ~Pending
    BY <1>t, <2>4, Zenon DEF Jumps
  <2>6. anchor \in Int /\ jump'.anchor = anchor /\ jump'.offset = jump.offset /\ jump'.last = jump.last
    BY <1>t, <2>3, JumpFields, ChapterType
  <2>7. cached'.total = 0 /\ cached'.offset = -1
    BY <1>t, <2>3, ClearedType DEF TypeOK, ReaderOK
  <2>8. Unremembered'
    BY <2>7 DEF Unremembered
  <2>9. CASE anchor < 0
    <3>1. anchor = -1 /\ mark'.offset = 0 /\ PageAt(0, layout) = 0
      BY <1>t, <1>l, <2>3, <2>9, ChapterType, PageOfZero
    <3>2. ~stale => ~Pending'
      BY <2>5, <2>6, <3>1, Zenon DEF Pending
    <3>3. ~stale => Found'
      BY <2>3, <2>8, <3>1, <3>2 DEF Found
    <3> QED
      BY <2>3, <3>3 DEF Asked
  <2>10. CASE ~(anchor < 0)
    <3>1. ~Pending => jump.offset = -1
      BY DEF Pending
    <3>2. ~stale => Found'
      BY <2>3, <2>5, <2>6, <2>8, <2>10, <3>1 DEF Found
    <3> QED
      BY <2>3, <3>2 DEF Asked
  <2> QED
    BY <2>9, <2>10
<1>7. CASE ReturnFromNote
  <2> DEFINE note == Last(notes)
  <2>1. /\ ~requested /\ spine' = note.spine /\ nextPage' = note.page /\ section' = None
        /\ cached' = Cleared(cached) /\ mark' = PlaceOf(note) /\ requested' = TRUE
        /\ UNCHANGED <<jump, layout, stale>> /\ notes # <<>>
    BY <1>7 DEF ReturnFromNote, Seen, NothingCached
  <2>2. note \in Note
    BY <1>t, <2>1, NotesTop
  <2> HIDE DEF note
  <2>3. ASSUME mark' # None, ~stale PROVE spine' = mark'.spine /\ Found'
    <3>1. mark' = [spine |-> note.spine, offset |-> StartOf(note.page, layout)] /\ note.page \in Nat
      BY <2>1, <2>2, <2>3 DEF PlaceOf, Note
    <3>2. nextPage' = PageAt(mark'.offset, layout')
      BY <1>l, <2>1, <3>1, PageOfStart
    <3>3. ~Pending'
      BY <1>t, <2>1, <2>3, Zenon DEF Jumps, Pending
    <3>4. Unremembered'
      BY <1>t, <2>1, ClearedType DEF Unremembered, TypeOK, ReaderOK
    <3> QED
      BY <2>1, <3>1, <3>2, <3>3, <3>4 DEF Found
  <2> QED
    BY <2>1, <2>3 DEF Asked
<1>8. CASE GoToBookmark
  <2>1. PICK c \in Chapter : \E o \in 0..(Length[c] - 1) :
          /\ mark' = [spine |-> c, offset |-> o]
          /\ IF section # None /\ spine = c
             THEN section' = [section EXCEPT !.page = PageAt(o, section.layout)] /\ UNCHANGED <<spine, jump, nextPage>>
             ELSE /\ spine' = c /\ section' = None /\ nextPage' = 0
                  /\ jump' = [jump EXCEPT !.offset = o]
    BY <1>8 DEF GoToBookmark
  <2>2. PICK o \in 0..(Length[c] - 1) :
          /\ mark' = [spine |-> c, offset |-> o]
          /\ IF section # None /\ spine = c
             THEN section' = [section EXCEPT !.page = PageAt(o, section.layout)] /\ UNCHANGED <<spine, jump, nextPage>>
             ELSE /\ spine' = c /\ section' = None /\ nextPage' = 0
                  /\ jump' = [jump EXCEPT !.offset = o]
    BY <2>1
  <2>3. /\ ~requested /\ requested' = TRUE /\ UNCHANGED <<layout, stale>> /\ mark'.spine = c /\ mark'.offset = o
    BY <1>8, <2>2 DEF GoToBookmark, Seen
  <2>4. c # Chapters /\ o \in Nat /\ o \in Int
    BY <1>t, ChapterType, ReadingPlaceAssumption DEF Chapter
  <2>5. CASE section # None /\ spine = c
    <3>1. section.chapter = spine /\ section.layout = layout
      BY <1>t, <2>4, <2>5, SectionSpine DEF SectionCurrent, AtEnd
    <3>2. PageAt(o, layout) \in Nat
      BY <1>l, <2>4, PageType
    <3>3. section' = [section EXCEPT !.page = PageAt(o, layout)] /\ spine' = spine
      BY <2>2, <2>5, <3>1
    <3>4. section'.chapter = spine /\ section'.page = PageAt(o, layout) /\ section' # None
      BY <1>t, <2>5, <3>1, <3>2, <3>3, SectionType, ReadingPlaceAssumption
    <3> QED
      BY <2>3, <2>5, <3>3, <3>4 DEF Asked
  <2>6. CASE ~(section # None /\ spine = c)
    <3>1. spine' = c /\ section' = None /\ jump' = [jump EXCEPT !.offset = o]
      BY <2>2, <2>6
    <3>2. jump'.offset = o /\ jump'.anchor = jump.anchor
      BY <1>t, <2>4, <3>1, JumpFields
    <3>3. ~stale => jump.anchor = -1
      BY <1>t, <2>3, Zenon DEF Jumps, Pending
    <3>4. ~stale => Found'
      BY <2>3, <3>2, <3>3 DEF Found
    <3> QED
      BY <2>3, <3>1, <3>4 DEF Asked
  <2> QED
    BY <2>5, <2>6
<1>9. CASE LeaveForAsk
  <2>1. section # None /\ mark' \in {Here, None} /\ UNCHANGED <<spine, section, layout, stale>>
        /\ save.step = "none"
    BY <1>9 DEF LeaveForAsk, Seen, Unlocked
  <2>2. CASE AtEnd
    <3>1. Here = mark /\ mark = None
      BY <1>t, <2>1, <2>2 DEF Here, AfterEnd, Leaving
    <3> QED
      BY <2>1, <3>1 DEF Asked
  <2>3. CASE ~AtEnd
    <3>1. Here.spine = spine /\ section.chapter = spine /\ section.page = PageAt(Here.offset, layout)
      BY <1>t, <2>1, <2>3, HereIsLoaded
    <3> QED
      BY <2>1, <3>1 DEF Asked
  <2> QED
    BY <2>2, <2>3
<1>10. CASE DeleteCache
  <2>1. save'.step = "write" /\ save'.then = "clear"
    BY <1>10 DEF DeleteCache, Save
  <2> QED
    BY <2>1 DEF Asked, Leaving
<1>11. CASE Close
  <2>1. CASE SaveOrigin
    <3>1. save'.step = "write" /\ save'.then = "close"
      BY <2>1 DEF SaveOrigin, Save
    <3> QED
      BY <3>1 DEF Asked, Leaving
  <2>2. CASE Leave
    BY <2>2 DEF Leave, Asked
  <2> QED
    BY <1>11, <2>1, <2>2 DEF Close
<1>12. CASE WriteTmp \/ RemoveOld \/ RemoveFails
  <2>1. save'.then = save.then /\ save.step # "none" /\ save'.step # "none"
        /\ UNCHANGED <<reader, built, layout, requested, mark, stale>>
    BY <1>t, <1>12 DEF WriteTmp, RemoveOld, RemoveFails, Go, Goes, TypeOK, TasksOK
  <2>2. Found' = Found
    BY <2>1 DEF Found, Resumes, Pending, Unremembered
  <2> QED
    BY <1>t, <2>1, <2>2 DEF Asked, Leaving
<1>13. CASE Rename \/ SaveFails
  <2>1. \/ Leave
        \/ SaveOrigin
        \/ /\ save.then \in {"draw", "ask"} /\ UNCHANGED <<reader, built, layout, mark, stale>>
           /\ requested' \in {requested, TRUE}
    BY <1>13 DEF Rename, SaveFails, AfterSave
  <2>2. CASE SaveOrigin
    <3>1. save'.step = "write" /\ save'.then = "close"
      BY <2>2 DEF SaveOrigin, Save
    <3> QED
      BY <3>1 DEF Asked, Leaving
  <2>3. CASE Leave
    BY <2>3 DEF Leave, Asked
  <2>4. CASE save.then \in {"draw", "ask"} /\ UNCHANGED <<reader, built, layout, mark, stale>>
             /\ requested' \in {requested, TRUE}
    <3>1. Found' = Found
      BY <2>4 DEF Found, Resumes, Pending, Unremembered
    <3>2. ~Leaving
      BY <2>4 DEF Leaving
    <3>3. requested => requested'
      BY <2>4
    <3>4. UNCHANGED <<screen, spine, section, layout, mark, stale>> /\ Asked
      BY <1>t, <2>4
    <3> QED
      BY <3>1, <3>2, <3>3, <3>4 DEF Asked
  <2> QED
    BY <2>1, <2>2, <2>3, <2>4
<1>14. CASE Draw
  <2>1. section' # None /\ section'.chapter = spine /\ section'.page \in Nat
    <3>1. CASE section = None
      BY <1>t, <1>14, <3>1, LoadedIsPage, LoadedIsNotNone DEF Draw, Section
    <3>2. CASE section # None
      BY <1>t, <1>14, <3>2, SectionType, SectionSpine DEF Draw
    <3> QED
      BY <3>1, <3>2
  <2>2. mark'.spine = spine /\ mark'.offset = StartOf(section'.page, layout) /\ UNCHANGED <<spine, layout>>
    BY <1>14 DEF Draw
  <2>3. PageAt(StartOf(section'.page, layout), layout) = section'.page
    BY <1>l, <2>1, PageOfStart
  <2> QED
    BY <2>1, <2>2, <2>3 DEF Asked
<1>15. CASE DrawEnd
  <2>1. mark = None /\ mark' = mark
    BY <1>t, <1>15 DEF DrawEnd, MayDraw, Unlocked, AfterEnd, Leaving
  <2> QED
    BY <2>1 DEF Asked
<1>16. CASE CannotLoad \/ CannotRead \/ PowerCut \/ Panic
  BY <1>16 DEF CannotLoad, CannotRead, PowerCut, Panic, Restarted, Asked
<1>17. CASE Drawn
  <2>1. UNCHANGED <<reader, layout, mark, stale>> /\ save.step = "none" /\ section # None
    BY <1>t, <1>17 DEF Drawn, Locks, TypeOK, TasksOK
  <2> QED
    BY <1>t, <2>1 DEF Asked, Leaving
<1>18. CASE ChangeSettings
  BY <1>18 DEF ChangeSettings, Asked
<1>19. CASE BeginTurn
  <2>1. section # None /\ UNCHANGED <<screen, spine, section, layout, mark, save, stale>>
    BY <1>19 DEF BeginTurn
  <2> QED
    BY <1>t, <2>1 DEF Asked, Leaving
<1>20. CASE FollowDeadLink \/ Redraw \/ UNCHANGED vars
  <2>1. /\ UNCHANGED <<screen, spine, section, nextPage, jump, cached, built, layout, mark, save, stale>>
        /\ requested' \in {requested, TRUE}
    BY <1>20 DEF FollowDeadLink, Redraw, vars
  <2>2. Found' = Found
    BY <2>1 DEF Found, Resumes, Pending, Unremembered
  <2> QED
    BY <1>t, <2>1, <2>2 DEF Asked, Leaving
<1> QED
  BY <1>1, <1>2, <1>3, <1>4, <1>5, <1>6, <1>7, <1>8, <1>9, <1>10, <1>11, <1>12, <1>13,
      <1>14, <1>15, <1>16, <1>17, <1>18, <1>19, <1>20 DEF Next

(* The record of the page that is loaded, while it is the page drawn last. *)
LEMMA OwnRecord ==
  ASSUME TypeOK, SectionCurrent, Loading, section # None, ~AtEnd
  PROVE  \A place :
           /\ place # None /\ place.spine = spine /\ place.page = section.page
           => /\ place.spine = Here.spine
              /\ built[Here.spine] = layout /\ place.page = PageAt(Here.offset, layout)
<1>1. /\ Here.spine = spine /\ Here.offset = StartOf(section.page, layout)
      /\ section.chapter = spine /\ section.page = PageAt(Here.offset, layout)
  BY HereIsLoaded
<1>2. built[spine] = layout
  BY <1>1 DEF Loading
<1> QED
  BY <1>1, <1>2

LEMMA RecordFields ==
  ASSUME TypeOK, NEW sp \in 0..Chapters, NEW p \in Nat, NEW total \in Nat
  PROVE  /\ Record(sp, p, total) # None
         /\ Record(sp, p, total).spine = sp /\ Record(sp, p, total).page = p
         /\ Record(sp, p, total).total = total
         /\ section = None \/ sp # spine \/ p >= PageCount => Record(sp, p, total).offset = -1
         /\ [Record(sp, p, total) EXCEPT !.offset = -1] # None
         /\ [Record(sp, p, total) EXCEPT !.offset = -1].spine = sp
         /\ [Record(sp, p, total) EXCEPT !.offset = -1].page = p
         /\ [Record(sp, p, total) EXCEPT !.offset = -1].total = total
         /\ [Record(sp, p, total) EXCEPT !.offset = -1].offset = -1
<1>1. Record(sp, p, total) # None /\ [Record(sp, p, total) EXCEPT !.offset = -1] # None
  BY LoadedIsNotNone
<1> QED
  BY <1>1 DEF Record

LEMMA OriginLeads ==
  ASSUME TypeOK, SectionCurrent, Loading, notes # <<>>, SaveOrigin, built' = built, mark' # None
  PROVE  Leads(save.place)'
<1> DEFINE note == notes[1]
           place == Record(note.spine, note.page, 0)
<1>1. note \in Note /\ save'.place = place /\ mark' = PlaceOf(note) /\ layout' = layout
  BY NotesTop DEF SaveOrigin, Save
<1>2. note.spine \in Chapter /\ note.page \in Nat /\ note.spine \in 0..Chapters /\ layout \in Layout
      /\ note.spine # Chapters
  <2>1. layout \in Layout
    BY DEF TypeOK, CardOK
  <2>2. note \in Note
    BY <1>1
  <2> HIDE DEF note
  <2>3. note.spine \in Chapter /\ note.page \in Nat
    BY <2>2 DEF Note
  <2>4. \A c \in Chapter : c \in 0..Chapters /\ c # Chapters
    BY ReadingPlaceAssumption DEF Chapter
  <2> QED
    BY <2>1, <2>3, <2>4, Zenon
<1>3. /\ place # None /\ place.spine = note.spine /\ place.page = note.page /\ place.total = 0
      /\ section = None \/ note.spine # spine \/ note.page >= PageCount => place.offset = -1
  BY <1>2, RecordFields
<1> HIDE DEF place, note
<1>4. mark'.spine = note.spine /\ mark'.offset = StartOf(note.page, layout) /\ mark'.offset \in Nat
  BY <1>1, <1>2, PageType DEF PlaceOf
<1>5. note.page = PageAt(mark'.offset, layout)
  BY <1>2, <1>4, PageOfStart
<1>6. CASE place.offset = -1
  <2>1. -1 < 0 /\ mark'.offset # -1
    BY <1>4
  <2> QED
    BY <1>1, <1>3, <1>4, <1>5, <1>6, <2>1 DEF Leads, Resumes
<1>7. CASE place.offset # -1
  <2>1. section # None /\ spine = note.spine /\ ~AtEnd
    BY <1>2, <1>3, <1>7 DEF AtEnd
  <2>2. built[note.spine] = layout
    BY <2>1, SectionSpine DEF Loading
  <2> QED
    BY <1>1, <1>3, <1>4, <1>5, <2>2 DEF Leads, Resumes
<1> QED
  BY <1>6, <1>7

LEMMA SaveLeadsStep == PlaceInv /\ [Next]_vars => SaveLeads'
<1> SUFFICES ASSUME PlaceInv, [Next]_vars PROVE SaveLeads'
  OBVIOUS
<1> USE DEF reader, card, tasks, history
<1>t. TypeOK /\ Locks /\ SectionCurrent /\ Loading /\ AfterEnd /\ SaveLeads
  BY DEF PlaceInv, CardInv
<1>s. section # None => spine \in 0..Chapters /\ section.page \in Nat /\ PageCount \in Nat
  BY <1>t, SectionType DEF TypeOK, ReaderOK
<1>1. CASE LeaveForAsk
  <2>1. /\ section # None /\ save'.place = Record(spine, section.page, PageCount) /\ save.step = "none"
        /\ mark' \in {Here, None} /\ UNCHANGED <<built, layout>>
    BY <1>1 DEF LeaveForAsk, Save, Seen, Unlocked
  <2>2. CASE AtEnd
    <3>1. mark' = None
      BY <1>t, <2>1, <2>2 DEF Here, AfterEnd, Leaving
    <3> QED
      BY <3>1 DEF SaveLeads
  <2>3. CASE ~AtEnd
    <3>1. save'.place # None /\ save'.place.spine = spine /\ save'.place.page = section.page
      BY <1>t, <1>s, <2>1, RecordFields
    <3>2. save'.place.spine = Here.spine /\ built[Here.spine] = layout
          /\ save'.place.page = PageAt(Here.offset, layout)
      BY <1>t, <2>1, <2>3, <3>1, OwnRecord
    <3> QED
      BY <2>1, <3>1, <3>2 DEF SaveLeads, Leads, Resumes
  <2> QED
    BY <2>2, <2>3
<1>2. CASE DeleteCache
  <2>1. /\ section # None /\ save'.place = [Record(spine, section.page, PageCount) EXCEPT !.offset = -1]
        /\ save.step = "none" /\ mark' = Here /\ layout' = layout /\ built' = [c \in Chapter |-> None]
    BY <1>2 DEF DeleteCache, Save, Seen, Unlocked
  <2>2. CASE AtEnd
    <3>1. mark' = None
      BY <1>t, <2>1, <2>2 DEF Here, AfterEnd, Leaving
    <3> QED
      BY <3>1 DEF SaveLeads
  <2>3. CASE ~AtEnd
    <3>1. /\ save'.place # None /\ save'.place.spine = spine /\ save'.place.page = section.page
          /\ save'.place.total = PageCount /\ save'.place.offset = -1
      BY <1>t, <1>s, <2>1, RecordFields
    <3>2. /\ Here.spine = spine /\ section.page = PageAt(Here.offset, layout) /\ spine \in Chapter
          /\ PageCount = Pages(spine, layout)
      BY <1>t, <2>1, <2>3, HereIsLoaded DEF PageCount, SectionCurrent
    <3>3. built'[spine] = None
      BY <2>1, <3>2
    <3>4. -1 < 0
      OBVIOUS
    <3> QED
      BY <2>1, <3>1, <3>2, <3>3, <3>4 DEF SaveLeads, Leads, Resumes
  <2> QED
    BY <2>2, <2>3
<1>3. CASE Close
  <2>1. CASE notes # <<>>
    <3>1. SaveOrigin /\ built' = built
      BY <1>3, <2>1 DEF Close
    <3> QED
      BY <1>t, <2>1, <3>1, OriginLeads DEF SaveLeads
  <2>2. CASE notes = <<>>
    BY <1>3, <2>2 DEF Close, Leave, NoSave, SaveLeads
  <2> QED
    BY <2>1, <2>2
<1>4. CASE WriteTmp \/ RemoveOld \/ RemoveFails
  <2>1. /\ save'.then = save.then /\ save'.place = save.place /\ save.step # "none"
        /\ UNCHANGED <<mark, built, layout>>
    BY <1>t, <1>4 DEF WriteTmp, RemoveOld, RemoveFails, Go, Goes, TypeOK, TasksOK
  <2>2. Leads(save.place) => Leads(save.place)'
    BY <2>1 DEF Leads, Resumes
  <2> QED
    BY <1>t, <2>1, <2>2 DEF SaveLeads
<1>5. CASE Rename \/ SaveFails
  <2>1. built' = built /\ (save' = NoSave \/ (SaveOrigin /\ notes # <<>>))
    BY <1>5 DEF Rename, SaveFails, AfterSave, Leave
  <2>2. CASE save' = NoSave
    BY <2>2 DEF SaveLeads, NoSave
  <2>3. CASE SaveOrigin /\ notes # <<>>
    BY <1>t, <2>1, <2>3, OriginLeads DEF SaveLeads
  <2> QED
    BY <2>1, <2>2, <2>3
<1>6. CASE Drawn
  <2>1. save.step = "none" /\ (save' = save \/ save'.then = "draw")
    BY <1>t, <1>6 DEF Drawn, Save, Locks, TypeOK, TasksOK
  <2> QED
    BY <2>1 DEF SaveLeads
<1>7. CASE PowerCut \/ Panic
  BY <1>7 DEF PowerCut, Panic, Restarted, SaveLeads
<1>8. CASE Open \/ BeginTurn \/ TurnForward \/ TurnBack \/ ReturnFromEnd \/ SkipBack \/ SkipForward \/ Redraw \/ ChangeSettings
  <2>1. save' = save
    BY <1>t, <1>8, Turns DEF Open, BeginTurn, ReturnFromEnd, Redraw, ChangeSettings
  <2>2. screen = "closed" \/ main # "loop" \/ save.step = "none" \/ render = "save"
    BY <1>8 DEF Open, BeginTurn, TurnForward, TurnBack, ReturnFromEnd, SkipBack, SkipForward,
       Redraw, ChangeSettings, Reading, MainFree
  <2>3. save.step = "none" \/ save.then = "draw"
    BY <1>t, <2>2 DEF Locks
  <2> QED
    BY <2>1, <2>3 DEF SaveLeads
<1>9. CASE Relayout \/ OpenList \/ CancelList \/ PickChapter \/ FollowNote \/ FollowDeadLink \/ ReturnFromNote
           \/ GoToBookmark \/ Draw \/ DrawEnd \/ CannotLoad \/ CannotRead
  <2>1. save' = save /\ save.step = "none"
    BY <1>9 DEF Relayout, OpenList, CancelList, PickChapter, FollowNote, FollowDeadLink, ReturnFromNote,
         GoToBookmark, GoTo, Draw, DrawEnd, CannotLoad, CannotRead, Seen, MayDraw, Unlocked
  <2> QED
    BY <2>1 DEF SaveLeads
<1>10. CASE UNCHANGED vars
  BY <1>t, <1>10 DEF vars, SaveLeads, Leads, Resumes
<1> QED
  BY <1>1, <1>2, <1>3, <1>4, <1>5, <1>6, <1>7, <1>8, <1>9, <1>10 DEF Next

LEMMA LeaveIsClosed ==
  ASSUME Leave, mark' # None => Leads(file)'
  PROVE  Closed'
<1>1. ~Pending' /\ cached'.total = 0 /\ cached'.offset = -1 /\ save'.step = "none"
  BY DEF Leave, Pending, NoJump, NothingKnown, NoSave
<1> QED
  BY <1>1 DEF Leave, Closed

LEMMA ClosedStep == PlaceInv /\ [Next]_vars => Closed'
<1> SUFFICES ASSUME PlaceInv, [Next]_vars PROVE Closed'
  OBVIOUS
<1> USE DEF reader, card, tasks, history
<1>t. /\ TypeOK /\ Locks /\ SectionCurrent /\ DrawnIsSaved /\ SavedIsOnCard
      /\ Loading /\ SaveLeads /\ Closed
  BY DEF PlaceInv, CardInv
<1>1. CASE Close
  <2>1. CASE notes # <<>>
    BY <1>1, <2>1 DEF Close, SaveOrigin, Closed
  <2>2. CASE notes = <<>>
    <3>1. /\ Leave /\ mark' = (IF Settled /\ ~failed /\ raced = "no" THEN Here ELSE None)
          /\ UNCHANGED <<file, built, layout>> /\ save.step = "none"
      BY <1>1, <2>2 DEF Close, Leave, Unlocked
    <3>2. ASSUME Settled, ~failed, raced = "no" PROVE Leads(file)'
      <4>1. section # None /\ section = drawn /\ ~AtEnd /\ render = "idle" /\ mark' = Here
        BY <3>1, <3>2 DEF Settled
      <4>2. saved = [spine |-> drawn.chapter, page |-> drawn.page, total |-> Pages(drawn.chapter, drawn.layout)]
        BY <1>t, <3>1, <3>2, <4>1 DEF DrawnIsSaved
      <4>3. drawn.chapter \in 0..Chapters /\ drawn.page \in Nat /\ Pages(drawn.chapter, drawn.layout) \in Nat
        BY <1>t, <4>1, SectionType, ChapterType DEF PageCount
      <4>4. saved # None
        BY <1>t, <4>2, <4>3, LoadedIsNotNone
      <4>5. file # None /\ file.spine = drawn.chapter /\ file.page = drawn.page
        BY <1>t, <3>1, <3>2, <4>2, <4>4 DEF SavedIsOnCard
      <4>6. section.chapter = spine
        BY <1>t, <4>1, SectionSpine
      <4>7. /\ file.spine = Here.spine
            /\ built[Here.spine] = layout /\ file.page = PageAt(Here.offset, layout)
        BY <1>t, <4>1, <4>5, <4>6, OwnRecord
      <4> QED
        BY <3>1, <4>1, <4>5, <4>7 DEF Leads, Resumes
    <3>3. mark' # None => Leads(file)'
      BY <3>1, <3>2
    <3> QED
      BY <3>1, <3>3, LeaveIsClosed
  <2> QED
    BY <2>1, <2>2
<1>2. CASE Rename
  <2>1. CASE Leave
    <3>1. save.then # "draw" /\ file' = save.place /\ mark' = mark /\ UNCHANGED <<built, layout>> /\ save.step # "none"
      <4>1. CASE save.then = "draw"
        BY <1>t, <1>2, <2>1, <4>1 DEF Rename, AfterSave, Leave, Locks
      <4>2. CASE save.then # "draw"
        BY <1>2, <2>1, <4>2 DEF Rename, AfterSave, Leave, SaveOrigin, Save
      <4> QED
        BY <4>1, <4>2
    <3>2. mark' # None => Leads(save.place)
      BY <1>t, <3>1 DEF SaveLeads
    <3>3. Leads(save.place) => Leads(file)'
      BY <3>1 DEF Leads, Resumes
    <3> QED
      BY <2>1, <3>2, <3>3, LeaveIsClosed
  <2>2. CASE ~Leave
    <3>1. screen' = screen
      BY <1>2, <2>2 DEF Rename, AfterSave, SaveOrigin
    <3>2. screen # "closed"
      BY <1>t, <1>2 DEF Rename, Locks
    <3> QED
      BY <3>1, <3>2 DEF Closed
  <2> QED
    BY <2>1, <2>2
<1>3. CASE SaveFails
  <2>1. screen # "closed"
    BY <1>t, <1>3 DEF SaveFails, Locks
  <2>2. screen' = screen \/ (Leave /\ mark' = None)
    BY <1>3 DEF SaveFails, AfterSave, SaveOrigin
  <2> QED
    BY <2>1, <2>2, LeaveIsClosed DEF Closed
<1>4. CASE PowerCut \/ Panic
  BY <1>4, LeaveIsClosed DEF PowerCut, Panic, Restarted
<1>5. CASE ChangeSettings
  <2>1. /\ UNCHANGED <<reader, card, tasks, stale>> /\ layout' \in Layout
        /\ mark' = IF mark # None /\ file # None /\ file.offset = mark.offset THEN mark ELSE None
    BY <1>5 DEF ChangeSettings
  <2>2. ASSUME mark' # None PROVE Leads(file)'
    <3>1. mark' = mark /\ mark # None /\ file.offset = mark.offset /\ Leads(file)
      BY <1>t, <1>5, <2>1, <2>2 DEF ChangeSettings, Closed
    <3>2. layout' # None
      BY <2>1, ReadingPlaceAssumption
    <3>3. Resumes(file.page, file.total, file.offset, mark)'
      BY <2>1, <3>1, <3>2 DEF Leads, Resumes
    <3> QED
      BY <2>1, <3>1, <3>3 DEF Leads
  <2>3. Pending' = Pending
    BY <2>1 DEF Pending
  <2> QED
    BY <1>t, <2>1, <2>2, <2>3 DEF Closed
<1>6. CASE TurnForward \/ TurnBack \/ SkipBack \/ SkipForward
  <2>1. section # None /\ screen' = screen
    BY <1>t, <1>6, Turns
  <2> QED
    BY <1>t, <2>1 DEF Closed
<1>7. CASE Open \/ OpenList \/ CancelList \/ PickChapter
  <2>1. screen' \in {"page", "list"}
    BY <1>7 DEF Open, OpenList, CancelList, PickChapter
  <2> QED
    BY <2>1 DEF Closed
<1>8. CASE BeginTurn \/ ReturnFromEnd \/ Relayout \/ FollowNote \/ FollowDeadLink \/ ReturnFromNote \/ GoToBookmark
           \/ LeaveForAsk \/ DeleteCache \/ Draw \/ DrawEnd \/ CannotLoad \/ CannotRead \/ Redraw
  <2>1. screen' = "page"
    BY <1>8 DEF BeginTurn, ReturnFromEnd, Relayout, FollowNote, FollowDeadLink, ReturnFromNote, GoToBookmark,
         LeaveForAsk, DeleteCache, Draw, DrawEnd, CannotLoad, CannotRead, Redraw, Seen, Reading, MayDraw
  <2> QED
    BY <2>1 DEF Closed
<1>9. CASE WriteTmp \/ RemoveOld \/ RemoveFails \/ Drawn
  <2>1. screen' = screen /\ screen # "closed"
    BY <1>t, <1>9 DEF WriteTmp, RemoveOld, RemoveFails, Drawn, Go, Locks
  <2> QED
    BY <2>1 DEF Closed
<1>10. CASE UNCHANGED vars
  <2>1. Leads(file)' = Leads(file) /\ Pending' = Pending
    BY <1>10 DEF vars, Leads, Resumes, Pending
  <2> QED
    BY <1>t, <1>10, <2>1 DEF vars, Closed
<1> QED
  BY <1>1, <1>2, <1>3, <1>4, <1>5, <1>6, <1>7, <1>8, <1>9, <1>10 DEF Next

LEMMA PlaceInit == Init => PlaceInv
<1> SUFFICES ASSUME Init PROVE PlaceInv
  OBVIOUS
<1>1. CardInv
  BY CardInit
<1>2. /\ screen = "closed" /\ section = None /\ spine = 0 /\ nextPage = 0 /\ notes = <<>> /\ ~requested /\ ~stale
      /\ main = "loop" /\ render = "idle" /\ save.step = "none" /\ mark = None
      /\ ~Pending /\ cached.total = 0 /\ cached.offset = -1
  BY DEF Init, NoSave, NoJump, NothingKnown, Pending
<1>3. ~AtEnd
  BY <1>2, ReadingPlaceAssumption DEF AtEnd
<1>4. NotesInBook
  BY <1>2, FreshType DEF NotesInBook
<1> QED
  BY <1>1, <1>2, <1>3, <1>4
  DEF PlaceInv, Loading, Jumps, AfterEnd, Listing, MarkInBook, Asked, SaveLeads, Closed

LEMMA PlaceInvStep == PlaceInv /\ [Next]_vars => PlaceInv'
<1>1. PlaceInv /\ [Next]_vars => CardInv'
  BY CardInvStep DEF PlaceInv
<1> QED
  BY <1>1, LoadingStep, JumpsStep, AfterEndStep, ListingStep, NotesInBookStep, MarkInBookStep,
     AskedStep, SaveLeadsStep, ClosedStep DEF PlaceInv

(* The page that is drawn is the one that holds the place the owner asked for, or was  *)
(* at before the layout changed, a list was cancelled, a note was read or the book was *)
(* closed and opened, unless a jump asked for before is still pending (renderBook,     *)
(* loadBook, pageTurn, navigateToHref, restoreSavedPosition).                          *)
THEOREM ShowsWhatIsAsked == Spec => ShowsTheAskedPlace
<1>1. PlaceInv /\ [Next]_vars
      => [render = "idle" /\ render' = "draw" /\ mark # None /\ ~stale
          => /\ drawn'.chapter = mark.spine
             /\ drawn'.page = PageAt(mark.offset, drawn'.layout)]_vars
  <2> SUFFICES ASSUME PlaceInv, Next, render = "idle", render' = "draw", mark # None, ~stale
               PROVE  /\ drawn'.chapter = mark.spine
                      /\ drawn'.page = PageAt(mark.offset, drawn'.layout)
    BY Zenon DEF vars, tasks
  <2>t. TypeOK /\ SectionCurrent /\ MarkInBook /\ Asked
    BY DEF PlaceInv, CardInv
  <2>1. Draw
    BY DEF Next, Open, BeginTurn, TurnForward, TurnBack, ReturnFromEnd, SkipBack, SkipForward, EndTurn,
        Relayout, OpenList, CancelList, PickChapter, FollowNote, GoTo, FollowDeadLink, ReturnFromNote,
        GoToBookmark, Close, SaveOrigin, LeaveForAsk, DeleteCache, WriteTmp, RemoveOld, RemoveFails, Go,
        Rename, SaveFails, AfterSave, Leave, DrawEnd, CannotLoad, CannotRead, Drawn, Redraw,
        PowerCut, Panic, Restarted, ChangeSettings, tasks
  <2>2. screen = "page" /\ ~AtEnd /\ ~Leaving /\ drawn' = section'
    BY <2>1 DEF Draw, MayDraw, Unlocked, Leaving
  <2>3. spine = mark.spine
    BY <2>t, <2>2 DEF Asked
  <2>4. CASE section = None
    <3>1. drawn' = Loaded /\ Found
      BY <2>t, <2>1, <2>2, <2>4 DEF Draw, Asked
    <3>2. Loaded.chapter = spine /\ Loaded.layout = layout
      BY <2>t, <2>2, LoadedIsPage
    <3>3. Loaded.page = PageAt(mark.offset, layout)
      BY <2>t, <2>3, <3>1, FoundIsLoaded
    <3> QED
      BY <2>3, <3>1, <3>2, <3>3
  <2>5. CASE section # None
    <3>1. drawn' = section /\ section.chapter = spine /\ section.page = PageAt(mark.offset, layout)
      BY <2>t, <2>1, <2>2, <2>5 DEF Draw, Asked
    <3>2. section.layout = layout
      BY <2>t, <2>5 DEF SectionCurrent
    <3> QED
      BY <2>3, <3>1, <3>2
  <2> QED
    BY <2>4, <2>5
<1>2. Spec => []PlaceInv
  BY PlaceInit, PlaceInvStep, PTL DEF Spec
<1> QED
  BY <1>1, <1>2, PTL DEF Spec, ShowsTheAskedPlace

-----------------------------------------------------------------------------
(* WordList: a review has what is due and nothing else, and no word gets on *)
(* before its time.                                                        *)

\* A list has one entry of a word that nothing else is cut to.
OneOfEach(list) == \A i, j \in DOMAIN list : list[i].word \in Plain /\ list[i].word = list[j].word => i = j

\* What is in memory is on the card until the card fails.
FileKept == loaded /\ ~unsaved => OnCard = words

\* What a review has left is what is due, each word once.
QueueLeft ==
  review # NoReview =>
    /\ loaded
    /\ \A i, j \in review.at..Len(review.queue) :
         review.queue[i] \in Plain /\ review.queue[i] = review.queue[j] => i = j
    /\ review.day >= 0 => \A t \in Plain :
         (\E i \in DOMAIN words : words[i].word = t /\ IsDue(words[i], review.day))
           <=> (\E j \in review.at..Len(review.queue) : review.queue[j] = t)

\* A word has had the lags of the boxes before its own, and is not due before that of its own is over.
Earned(e) ==
  e.word \in Plain =>
    /\ 0 <= e.added /\ e.added + LagsUpTo[e.box] <= today
    /\ e.box < RETIRED => e.added + LagsUpTo[e.box + 1] <= e.due
AllEarned(list) == \A i \in DOMAIN list : Earned(list[i])
LagsKept ==
  steady =>
    /\ 0 <= today /\ AllEarned(words) /\ AllEarned(OnCard)
    /\ review # NoReview => review.day \in 0..today

WordsInv == WordsTypeOK /\ OneOfEach(words) /\ OneOfEach(OnCard) /\ FileKept /\ QueueLeft /\ LagsKept

-----------------------------------------------------------------------------
(* The first of some numbers. *)
LEMMA Least ==
  ASSUME NEW S \in SUBSET Nat, S # {}
  PROVE  \E x \in S : \A y \in S : x <= y
<1>1. IsWellFoundedOn(OpToRel(<, Nat), Nat)
  BY NatLessThanWellFounded
<1>2. PICK x \in S : \A y \in S : ~(<<y, x>> \in OpToRel(<, Nat))
  BY <1>1, WFMin, Zenon
<1>3. ASSUME NEW y \in S
      PROVE  x <= y
  <2>1. x \in Nat /\ y \in Nat
    OBVIOUS
  <2>2. y < x => <<y, x>> \in OpToRel(<, Nat)
    BY <2>1, Zenon DEF OpToRel
  <2>3. ~(y < x)
    BY <1>2, <2>2, Zenon
  <2> QED
    BY <2>1, <2>3
<1> QED
  BY <1>3

LEMMA LeastIs ==
  ASSUME NEW S \in SUBSET Nat, S # {}
  PROVE  Min(S) \in S
BY Least DEF Min

(* The lags of the boxes add up. *)
LEMMA Lags ==
  /\ LagsUpTo \in [0..RETIRED -> Nat] /\ LagsUpTo[0] = 0
  /\ \A box \in 1..RETIRED : LagsUpTo[box] = LagsUpTo[box - 1] + BOX_DAYS[box]
<1> DEFINE Sums(n, f) == f[0] = 0 /\ \A box \in 1..n : f[box] = f[box - 1] + BOX_DAYS[box]
           Unsummed == {n \in 0..RETIRED : ~\E f \in [0..n -> Nat] : Sums(n, f)}
<1>1. RETIRED \in Nat \ {0} /\ \A box \in 1..RETIRED : BOX_DAYS[box] \in Nat \ {0}
  BY WordListAssumption, EmptySeq, ElementOfSeq DEF RETIRED, BOX_COUNT
<1>2. Unsummed = {}
  <2> SUFFICES ASSUME Unsummed # {} PROVE FALSE
    OBVIOUS
  <2>1. Unsummed \in SUBSET Nat
    BY <1>1
  <2>2. PICK n \in Unsummed : \A m \in Unsummed : n <= m
    BY <2>1, Least
  <2>3. n \in 0..RETIRED /\ ~\E f \in [0..n -> Nat] : Sums(n, f)
    OBVIOUS
  <2>4. CASE n = 0
    <3>1. [m \in 0..0 |-> 0] \in [0..0 -> Nat] /\ Sums(0, [m \in 0..0 |-> 0])
      OBVIOUS
    <3> QED
      BY <2>3, <2>4, <3>1
  <2>5. CASE n # 0
    <3>1. n - 1 \in 0..RETIRED /\ ~(n <= n - 1) /\ n \in 1..RETIRED
      BY <1>1, <2>3, <2>5
    <3>2. PICK f \in [0..(n - 1) -> Nat] : Sums(n - 1, f)
      BY <2>2, <3>1
    <3> DEFINE g == [m \in 0..n |-> IF m = n THEN f[n - 1] + BOX_DAYS[n] ELSE f[m]]
    <3>3. f[n - 1] \in Nat /\ BOX_DAYS[n] \in Nat
      BY <1>1, <3>1
    <3>4. g \in [0..n -> Nat]
      BY <3>1, <3>3
    <3>5. Sums(n, g)
      <4>1. g[0] = 0
        BY <2>5, <3>1, <3>2
      <4>2. ASSUME NEW box \in 1..n
            PROVE  g[box] = g[box - 1] + BOX_DAYS[box]
        <5>1. CASE box = n
          BY <3>1, <5>1
        <5>2. CASE box # n
          BY <3>1, <3>2, <5>2
        <5> QED
          BY <5>1, <5>2
      <4> QED
        BY <4>1, <4>2
    <3> QED
      BY <2>3, <3>4, <3>5
  <2> QED
    BY <2>4, <2>5
<1>3. RETIRED \in 0..RETIRED
  BY <1>1
<1>4. PICK f \in [0..RETIRED -> Nat] : Sums(RETIRED, f)
  BY <1>2, <1>3
<1>5. f = [box \in 0..RETIRED |-> IF box = 0 THEN 0 ELSE f[box - 1] + BOX_DAYS[box]]
  BY <1>1, <1>4
<1>6. LagsUpTo = [box \in 0..RETIRED |-> IF box = 0 THEN 0 ELSE LagsUpTo[box - 1] + BOX_DAYS[box]]
  BY <1>5 DEF LagsUpTo
<1>7. /\ LagsUpTo[0] = 0
      /\ \A box \in 1..RETIRED : LagsUpTo[box] = LagsUpTo[box - 1] + BOX_DAYS[box]
  <2>1. \A box \in 0..RETIRED : LagsUpTo[box] = IF box = 0 THEN 0 ELSE LagsUpTo[box - 1] + BOX_DAYS[box]
    BY <1>6
  <2>2. 0 \in 0..RETIRED /\ \A box \in 1..RETIRED : box \in 0..RETIRED /\ box # 0
    BY <1>1
  <2> QED
    BY <2>1, <2>2
<1> DEFINE Untyped == {box \in 0..RETIRED : LagsUpTo[box] \notin Nat}
<1>8. Untyped = {}
  <2> SUFFICES ASSUME Untyped # {} PROVE FALSE
    OBVIOUS
  <2>1. Untyped \in SUBSET Nat
    BY <1>1
  <2>2. PICK n \in Untyped : \A m \in Untyped : n <= m
    BY <2>1, Least
  <2>3. n # 0
    BY <1>7
  <2>4. n - 1 \in 0..RETIRED /\ ~(n <= n - 1) /\ n \in 1..RETIRED
    BY <1>1, <2>3
  <2>5. LagsUpTo[n - 1] \in Nat
    BY <2>2, <2>4
  <2>6. LagsUpTo[n] = LagsUpTo[n - 1] + BOX_DAYS[n] /\ BOX_DAYS[n] \in Nat
    BY <1>1, <1>7, <2>4
  <2>7. LagsUpTo[n] \in Nat
    BY <2>5, <2>6
  <2> QED
    BY <2>7
<1> HIDE DEF Untyped, Unsummed
<1>9. DOMAIN LagsUpTo = 0..RETIRED /\ LagsUpTo = [box \in 0..RETIRED |-> LagsUpTo[box]]
  BY <1>6
<1>10. \A box \in 0..RETIRED : LagsUpTo[box] \in Nat
  BY <1>8 DEF Untyped
<1>11. [box \in 0..RETIRED |-> LagsUpTo[box]] \in [0..RETIRED -> Nat]
  BY <1>10
<1> QED
  BY <1>7, <1>9, <1>11

(* What is found is a place of the list with that word, and a word of the list is found. *)
LEMMA FindIs ==
  ASSUME NEW list \in Seq(Entry), NEW t
  PROVE  /\ Find(list, t) \in 0..Len(list)
         /\ Find(list, t) # 0 => list[Find(list, t)].word = t
         /\ \A i \in 1..Len(list) : list[i].word = t => Find(list, t) # 0
<1> DEFINE At == {i \in 1..Len(list) : list[i].word = t}
<1>1. Find(list, t) = IF At # {} THEN Min(At) ELSE 0
  BY DEF Find, SelectInSeq
<1>2. Len(list) \in Nat
  BY LenProperties
<1>3. At \in SUBSET Nat
  BY <1>2
<1>4. At # {} => Min(At) \in At
  BY <1>3, LeastIs
<1>5. \A i \in 1..Len(list) : list[i].word = t => At # {}
  OBVIOUS
<1>6. At # {} => /\ Min(At) \in 1..Len(list) /\ list[Min(At)].word = t
                 /\ Min(At) # 0 /\ Min(At) \in 0..Len(list)
  BY <1>2, <1>4
<1>7. 0 \in 0..Len(list)
  BY <1>2
<1> HIDE DEF At
<1> QED
  BY <1>1, <1>5, <1>6, <1>7

(* A list without one of its entries. *)
LEMMA RemoveAtIs ==
  ASSUME NEW list \in Seq(Entry), NEW i \in 1..Len(list)
  PROVE  /\ RemoveAt(list, i) \in Seq(Entry) /\ Len(RemoveAt(list, i)) = Len(list) - 1
         /\ \A j \in 1..(Len(list) - 1) : RemoveAt(list, i)[j] = list[IF j < i THEN j ELSE j + 1]
<1> DEFINE n == Len(list)
           front == SubSeq(list, 1, i - 1)
           back == SubSeq(list, i + 1, n)
<1>1. n \in Nat /\ i \in Int /\ 1 <= i /\ i <= n
  BY LenProperties
<1>2. \A j \in 1..n : list[j] \in Entry
  BY ElementOfSeq
<1> HIDE DEF n
<1>3. /\ front \in Seq(Entry) /\ Len(front) = i - 1
      /\ \A j \in 1..(i - 1) : front[j] = list[j]
  <2>1. 1 \in Int /\ i - 1 \in Int /\ (\A j \in 1..(i - 1) : list[j] \in Entry)
    BY <1>1, <1>2
  <2>2. /\ front \in Seq(Entry) /\ Len(front) = (IF 1 <= i - 1 THEN (i - 1) - 1 + 1 ELSE 0)
        /\ \A j \in 1..((i - 1) - 1 + 1) : front[j] = list[1 + j - 1]
    BY <2>1, SubSeqProperties
  <2>3. (i - 1) - 1 + 1 = i - 1 /\ (IF 1 <= i - 1 THEN (i - 1) - 1 + 1 ELSE 0) = i - 1
        /\ \A j \in 1..(i - 1) : 1 + j - 1 = j
    BY <1>1
  <2> QED
    BY <2>2, <2>3
<1>4. /\ back \in Seq(Entry) /\ Len(back) = n - i
      /\ \A j \in 1..(n - i) : back[j] = list[i + j]
  <2>1. i + 1 \in Int /\ n \in Int /\ (\A j \in (i + 1)..n : list[j] \in Entry)
    BY <1>1, <1>2
  <2>2. /\ back \in Seq(Entry) /\ Len(back) = (IF i + 1 <= n THEN n - (i + 1) + 1 ELSE 0)
        /\ \A j \in 1..(n - (i + 1) + 1) : back[j] = list[i + 1 + j - 1]
    BY <2>1, SubSeqProperties
  <2>3. n - (i + 1) + 1 = n - i /\ (IF i + 1 <= n THEN n - (i + 1) + 1 ELSE 0) = n - i
        /\ \A j \in 1..(n - i) : i + 1 + j - 1 = i + j
    BY <1>1
  <2> QED
    BY <2>2, <2>3
<1> HIDE DEF front, back
<1>5. /\ front \o back \in Seq(Entry) /\ Len(front \o back) = Len(front) + Len(back)
      /\ \A j \in 1..(Len(front) + Len(back)) :
           (front \o back)[j] = IF j <= Len(front) THEN front[j] ELSE back[j - Len(front)]
  BY <1>3, <1>4, ConcatProperties
<1>6. Len(front) + Len(back) = n - 1
  BY <1>1, <1>3, <1>4
<1>7. ASSUME NEW j \in 1..(n - 1)
      PROVE  (front \o back)[j] = list[IF j < i THEN j ELSE j + 1]
  <2>1. CASE j < i
    <3>1. j <= Len(front) /\ j \in 1..(i - 1)
      BY <1>1, <1>3, <2>1
    <3> QED
      BY <1>3, <1>5, <1>6, <2>1, <3>1
  <2>2. CASE ~(j < i)
    <3>1. ~(j <= Len(front)) /\ j - Len(front) \in 1..(n - i) /\ i + (j - Len(front)) = j + 1
      BY <1>1, <1>3, <2>2
    <3>2. back[j - Len(front)] = list[j + 1]
      BY <1>4, <3>1
    <3> QED
      BY <1>5, <1>6, <2>2, <3>1, <3>2
  <2> QED
    BY <2>1, <2>2
<1>8. RemoveAt(list, i) = front \o back
  BY DEF RemoveAt, front, back, n
<1> QED
  BY <1>5, <1>6, <1>7, <1>8 DEF n

(* A queue has every place of the list that is due, once. *)
LEMMA QueuesIs ==
  ASSUME NEW list \in Seq(Entry), NEW day, NEW q \in Queues(list, day)
  PROVE  /\ \E n \in Nat : q \in [1..n -> 1..Len(list)]
         /\ \A i \in 1..Len(list) : IsDue(list[i], day) <=> \E j \in DOMAIN q : q[j] = i
         /\ \A i, j \in DOMAIN q : q[i] = q[j] => i = j
<1> DEFINE S == DueIn(list, day)
           D == 1..Cardinality(S)
<1>1. S = {i \in 1..Len(list) : IsDue(list[i], day)} /\ Len(list) \in Nat
  BY LenProperties DEF DueIn
<1>2. IsFiniteSet(S)
  <2>1. IsFiniteSet(1..Len(list)) /\ S \in SUBSET (1..Len(list))
    BY <1>1, FS_Interval
  <2> QED
    BY <2>1, FS_Subset
<1>3. Cardinality(S) \in Nat
  BY <1>2, FS_CardinalityType
<1>4. q \in [D -> S] /\ \A i, j \in D : i # j => q[i] # q[j]
  BY DEF Queues, SetToSeqs
<1>d. D = 1..Cardinality(S)
  OBVIOUS
<1> HIDE DEF S, D
<1>5. q \in Injection(D, S)
  BY <1>4, Zenon DEF Injection, IsInjective
<1>6. Cardinality(D) = Cardinality(S)
  BY <1>3, <1>d, FS_Interval
<1>7. q \in Surjection(D, S)
  BY <1>2, <1>5, <1>6, FS_Injection
<1>8. \A t \in S : \E j \in D : q[j] = t
  BY <1>7 DEF Surjection
<1>9. DOMAIN q = D
  BY <1>4
<1>10. q \in [1..Cardinality(S) -> 1..Len(list)]
  BY <1>1, <1>4, <1>d
<1>11. \A i \in 1..Len(list) : i \in S <=> IsDue(list[i], day)
  BY <1>1
<1>12. \A i \in 1..Len(list) : i \in S <=> \E j \in DOMAIN q : q[j] = i
  BY <1>4, <1>8, <1>9
<1> QED
  BY <1>3, <1>4, <1>9, <1>10, <1>11, <1>12

-----------------------------------------------------------------------------
LEMMA Boxes ==
  /\ RETIRED \in Nat \ {0} /\ RETIRED = BOX_COUNT
  /\ \A box \in 1..RETIRED : BOX_DAYS[box] \in Nat \ {0}
BY WordListAssumption, EmptySeq, ElementOfSeq DEF RETIRED, BOX_COUNT

LEMMA DueIs ==
  ASSUME NEW box \in 0..RETIRED, NEW day \in Day
  PROVE  /\ Due(box, day) \in Int
         /\ day >= 0 => Due(box, day) > day
         /\ day >= 0 /\ box < RETIRED => Due(box, day) = day + BOX_DAYS[box + 1]
<1> DEFINE next == IF box >= RETIRED THEN BOX_COUNT ELSE box + 1
<1>1. day \in Int
  BY WordListAssumption DEF Day
<1>2. next \in 1..RETIRED /\ (box < RETIRED => next = box + 1)
  BY Boxes
<1>3. BOX_DAYS[next] \in Nat \ {0}
  BY <1>2, Boxes
<1>4. Due(box, day) = IF day < 0 THEN -1 ELSE day + BOX_DAYS[next]
  BY DEF Due
<1> HIDE DEF next
<1> QED
  BY <1>1, <1>2, <1>3, <1>4

(* An entry that is put into a box. *)
LEMMA InBoxIs ==
  ASSUME NEW e \in Entry, NEW box \in 0..RETIRED, NEW day \in Day
  PROVE  /\ InBox(e, box, day) \in Entry
         /\ InBox(e, box, day).word = e.word /\ InBox(e, box, day).added = e.added
         /\ InBox(e, box, day).box = box /\ InBox(e, box, day).due = Due(box, day)
<1> DEFINE due == Due(box, day)
<1>1. due \in Int
  BY DueIs
<1>2. InBox(e, box, day) = [e EXCEPT !.box = box, !.due = due]
  BY DEF InBox
<1> HIDE DEF due
<1>3. [e EXCEPT !.box = box] \in Entry
  BY DEF Entry
<1>4. /\ [e EXCEPT !.box = box, !.due = due] \in Entry
      /\ [e EXCEPT !.box = box, !.due = due].word = e.word
      /\ [e EXCEPT !.box = box, !.due = due].added = e.added
      /\ [e EXCEPT !.box = box, !.due = due].box = box
      /\ [e EXCEPT !.box = box, !.due = due].due = due
  BY <1>1, <1>3 DEF Entry
<1> QED
  BY <1>2, <1>4, Zenon DEF due

LEMMA GradedIs ==
  ASSUME NEW e \in Entry, NEW remembered \in BOOLEAN, NEW day \in Day
  PROVE  /\ Graded(e, remembered, day) \in Entry /\ Graded(e, remembered, day).word = e.word
         /\ Graded(e, remembered, day).added = e.added
         /\ Graded(e, remembered, day).box =
              IF ~remembered THEN 0 ELSE IF e.box >= RETIRED THEN RETIRED ELSE e.box + 1
         /\ Graded(e, remembered, day).due = Due(Graded(e, remembered, day).box, day)
<1> DEFINE box == IF ~remembered THEN 0 ELSE IF e.box >= RETIRED THEN RETIRED ELSE e.box + 1
<1>1. e.box \in 0..RETIRED
  BY DEF Entry
<1>2. box \in 0..RETIRED
  BY <1>1, Boxes
<1>3. Graded(e, remembered, day) = InBox(e, box, day)
  BY DEF Graded
<1> QED
  BY <1>2, <1>3, InBoxIs

(* A list without an entry has no new ones, and still one of each. *)
LEMMA Shorter ==
  ASSUME NEW list \in Seq(Entry), NEW i \in 1..Len(list), OneOfEach(list)
  PROVE  /\ OneOfEach(RemoveAt(list, i))
         /\ \A j \in DOMAIN RemoveAt(list, i) : \E k \in DOMAIN list : RemoveAt(list, i)[j] = list[k]
<1> DEFINE new == RemoveAt(list, i)
           at(j) == IF j < i THEN j ELSE j + 1
<1>1. Len(list) \in Nat /\ DOMAIN list = 1..Len(list)
  BY LenProperties
<1>2. new \in Seq(Entry) /\ Len(new) = Len(list) - 1 /\ \A j \in 1..(Len(list) - 1) : new[j] = list[at(j)]
  BY RemoveAtIs
<1> HIDE DEF new
<1>3. DOMAIN new = 1..(Len(list) - 1)
  BY <1>2, LenProperties
<1>4. \A j \in 1..(Len(list) - 1) : at(j) \in 1..Len(list)
  BY <1>1
<1>5. \A j, k \in 1..(Len(list) - 1) : at(j) = at(k) => j = k
  BY <1>1
<1> HIDE DEF at
<1>6. \A j \in DOMAIN new : new[j] = list[at(j)] /\ at(j) \in DOMAIN list
  BY <1>1, <1>2, <1>3, <1>4
<1>7. ASSUME NEW j \in DOMAIN new, NEW k \in DOMAIN new, new[j].word \in Plain, new[j].word = new[k].word
      PROVE  j = k
  <2>1. at(j) = at(k)
    BY <1>6, <1>7 DEF OneOfEach
  <2> QED
    BY <1>3, <1>5, <2>1
<1>8. OneOfEach(new)
  BY <1>7 DEF OneOfEach
<1> QED
  BY <1>6, <1>8 DEF new

LEMMA RoomIs ==
  ASSUME NEW list, IsList(list), OneOfEach(list)
  PROVE  /\ Room(list) \in Seq(Entry) /\ Len(Room(list)) + 1 <= MAX_WORDS /\ OneOfEach(Room(list))
         /\ \A j \in DOMAIN Room(list) : \E k \in DOMAIN list : Room(list)[j] = list[k]
<1>1. list \in Seq(Entry) /\ Len(list) <= MAX_WORDS /\ Len(list) \in Nat /\ MAX_WORDS \in Nat \ {0}
  BY LenProperties, WordListAssumption DEF IsList
<1>2. CASE Len(list) < MAX_WORDS
  <2>1. Room(list) = list
    BY <1>2 DEF Room
  <2> QED
    BY <1>1, <1>2, <2>1
<1>3. CASE ~(Len(list) < MAX_WORDS)
  <2> DEFINE At == {i \in 1..Len(list) : list[i].box >= RETIRED}
             learned == SelectInSeq(list, LAMBDA e : e.box >= RETIRED)
             i == IF learned # 0 THEN learned ELSE 1
  <2>1. learned = IF At # {} THEN Min(At) ELSE 0
    BY DEF SelectInSeq
  <2>2. At \in SUBSET Nat
    BY <1>1
  <2>3. At # {} => Min(At) \in 1..Len(list)
    BY <2>2, LeastIs
  <2> HIDE DEF At
  <2>4. Len(list) = MAX_WORDS /\ 1 \in 1..Len(list)
    BY <1>1, <1>3
  <2>5. i \in 1..Len(list)
    BY <2>1, <2>3, <2>4
  <2>6. Room(list) = RemoveAt(list, i)
    BY <1>3 DEF Room
  <2> HIDE DEF i
  <2>7. Room(list) \in Seq(Entry) /\ Len(Room(list)) = Len(list) - 1
    BY <1>1, <2>5, <2>6, RemoveAtIs
  <2> QED
    BY <1>1, <2>4, <2>5, <2>6, <2>7, Shorter
<1> QED
  BY <1>2, <1>3

-----------------------------------------------------------------------------
(* A word in its first box has had no lag, and is due after that of this box. *)
LEMMA FirstBox ==
  ASSUME NEW e \in Entry, NEW day \in Day, today \in Day, 0 <= day, day <= today,
         0 <= e.added, e.added <= day, e.box = 0, e.due = Due(0, day)
  PROVE  Earned(e)
<1>1. day \in Int /\ today \in Int /\ e.added \in Int
  BY WordListAssumption DEF Day, Entry
<1>2. LagsUpTo[0] = 0 /\ LagsUpTo[1] = LagsUpTo[1 - 1] + BOX_DAYS[1] /\ BOX_DAYS[1] \in Nat \ {0}
      /\ 0 \in 0..RETIRED /\ 0 < RETIRED
  BY Lags, Boxes
<1>3. LagsUpTo[0 + 1] = BOX_DAYS[1]
  BY <1>2
<1>4. e.due = day + BOX_DAYS[1]
  BY <1>2, DueIs
<1> QED
  BY <1>1, <1>2, <1>3, <1>4 DEF Earned

LEMMA EarnedBefore ==
  ASSUME NEW e \in Entry, today \in Day, Earned(e), e.word \in Plain
  PROVE  0 <= e.added /\ e.added <= today /\ (e.box < RETIRED => e.added <= e.due)
<1>1. today \in Int /\ e.added \in Int /\ e.due \in Int /\ e.box \in 0..RETIRED
  BY WordListAssumption DEF Day, Entry
<1>2. LagsUpTo[e.box] \in Nat
  BY <1>1, Lags
<1>3. e.box < RETIRED => LagsUpTo[e.box + 1] \in Nat
  <2>1. e.box < RETIRED => e.box + 1 \in 0..RETIRED
    BY <1>1, Boxes
  <2> QED
    BY <2>1, Lags
<1> QED
  BY <1>1, <1>2, <1>3 DEF Earned

(* Looking a word up keeps the list a list, with one entry of each word. *)
LEMMA AddedIs ==
  ASSUME NEW list, IsList(list), OneOfEach(list), NEW t \in Headword, today \in Day
  PROVE  /\ IsList(Added(list, t)) /\ OneOfEach(Added(list, t))
         /\ 0 <= today /\ AllEarned(list) => AllEarned(Added(list, t))
<1>1. list \in Seq(Entry) /\ Len(list) <= MAX_WORDS /\ Len(list) \in Nat /\ DOMAIN list = 1..Len(list)
  BY LenProperties DEF IsList
<1>2. 0 \in 0..RETIRED /\ today \in Int
  BY Boxes, WordListAssumption DEF Day
<1>3. CASE HasWord(list, t)
  <2> DEFINE i == Find(list, t)
             g == InBox(list[i], 0, today)
             new == [list EXCEPT ![i] = g]
  <2>1. i \in 1..Len(list)
    BY <1>1, <1>3, FindIs DEF HasWord
  <2>2. list[i] \in Entry
    BY <1>1, <2>1, ElementOfSeq
  <2>3. g \in Entry /\ g.word = list[i].word /\ g.added = list[i].added /\ g.box = 0 /\ g.due = Due(0, today)
    BY <1>2, <2>2, InBoxIs
  <2>4. Added(list, t) = new
    BY <1>3 DEF Added
  <2> HIDE DEF i, g
  <2>5. /\ new \in Seq(Entry) /\ Len(new) = Len(list)
        /\ \A j \in 1..Len(list) : new[j] = IF j = i THEN g ELSE list[j]
    BY <1>1, <2>1, <2>3, ExceptSeq
  <2> HIDE DEF new
  <2>6. DOMAIN new = 1..Len(list)
    BY <2>5, LenProperties
  <2>7. \A j \in 1..Len(list) : new[j].word = list[j].word
    BY <2>3, <2>5
  <2>8. OneOfEach(new)
    BY <1>1, <2>6, <2>7 DEF OneOfEach
  <2>9. ASSUME 0 <= today, AllEarned(list), NEW j \in DOMAIN new
        PROVE  Earned(new[j])
    <3>1. CASE j = i
      <4>1. new[j] = g /\ Earned(list[i])
        BY <1>1, <2>1, <2>5, <2>6, <2>9, <3>1 DEF AllEarned
      <4>2. CASE g.word \in Plain
        <5>1. 0 <= list[i].added /\ list[i].added <= today
          BY <2>2, <2>3, <4>1, <4>2, EarnedBefore
        <5>2. today <= today
          BY <1>2
        <5> QED
          BY <1>2, <2>3, <2>9, <4>1, <5>1, <5>2, FirstBox
      <4>3. CASE g.word \notin Plain
        BY <4>1, <4>3 DEF Earned
      <4> QED
        BY <4>2, <4>3
    <3>2. CASE j # i
      BY <1>1, <2>5, <2>6, <2>9, <3>2 DEF AllEarned
    <3> QED
      BY <3>1, <3>2
  <2> QED
    BY <1>1, <2>4, <2>5, <2>8, <2>9 DEF IsList, AllEarned
<1>4. CASE ~HasWord(list, t)
  <2> DEFINE r == Room(list)
             n == Len(r)
             g == [word |-> Cut[t], added |-> today, due |-> Due(0, today), box |-> 0]
             new == Append(r, g)
  <2>1. /\ r \in Seq(Entry) /\ n + 1 <= MAX_WORDS /\ OneOfEach(r)
        /\ \A j \in DOMAIN r : \E k \in DOMAIN list : r[j] = list[k]
    BY RoomIs
  <2>2. g \in Entry /\ g.word = Cut[t] /\ g.added = today /\ g.box = 0 /\ g.due = Due(0, today)
    <3>1. Cut[t] \in Word
      BY WordListAssumption DEF Word, Range
    <3>2. Due(0, today) \in Int
      BY <1>2, DueIs
    <3> QED
      BY <1>2, <3>1, <3>2 DEF Entry
  <2>3. Added(list, t) = new
    BY <1>4 DEF Added
  <2> HIDE DEF r, g
  <2>4. /\ new \in Seq(Entry) /\ Len(new) = n + 1 /\ new[n + 1] = g
        /\ \A j \in 1..n : new[j] = r[j]
    BY <2>1, <2>2, AppendProperties
  <2> HIDE DEF new
  <2>5. n \in Nat /\ DOMAIN r = 1..n
    BY <2>1, LenProperties
  <2> HIDE DEF n
  <2>6. DOMAIN new = 1..(n + 1) /\ \A j \in 1..(n + 1) : j \in 1..n \/ j = n + 1
    BY <2>4, <2>5, LenProperties
  <2>7. ASSUME NEW j \in 1..n
        PROVE  g.word \in Plain => r[j].word # g.word
    <3>1. PICK k \in DOMAIN list : r[j] = list[k]
      BY <2>1, <2>5
    <3>2. list[k].word # t
      BY <1>1, <1>4, <3>1, FindIs DEF HasWord
    <3>3. g.word \in Plain => g.word = t
      BY <2>2 DEF Plain
    <3> QED
      BY <3>1, <3>2, <3>3
  <2>8. OneOfEach(new)
    <3>1. ASSUME NEW j \in 1..(n + 1), NEW k \in 1..(n + 1), new[j].word \in Plain, new[j].word = new[k].word
          PROVE  j = k
      <4>1. CASE j \in 1..n /\ k \in 1..n
        BY <2>1, <2>4, <2>5, <3>1, <4>1 DEF OneOfEach
      <4>2. CASE j \in 1..n /\ k = n + 1
        BY <2>4, <2>7, <3>1, <4>2
      <4>3. CASE j = n + 1 /\ k \in 1..n
        BY <2>4, <2>7, <3>1, <4>3
      <4> QED
        BY <2>6, <4>1, <4>2, <4>3
    <3> QED
      BY <2>6, <3>1 DEF OneOfEach
  <2>9. ASSUME 0 <= today, AllEarned(list), NEW j \in DOMAIN new
        PROVE  Earned(new[j])
    <3>1. CASE j = n + 1
      <4>1. today <= today
        BY <1>2
      <4> QED
        BY <2>2, <2>4, <2>9, <3>1, <4>1, FirstBox
    <3>2. CASE j \in 1..n
      <4>1. PICK k \in DOMAIN list : r[j] = list[k]
        BY <2>1, <2>5, <3>2
      <4> QED
        BY <2>4, <2>9, <3>2, <4>1 DEF AllEarned
    <3> QED
      BY <2>6, <3>1, <3>2
  <2> QED
    BY <2>1, <2>3, <2>4, <2>8, <2>9 DEF IsList, AllEarned, n
<1> QED
  BY <1>3, <1>4

LEMMA Taken ==
  ASSUME WordsInv, NEW list, NEW n, Knows(list, n)
  PROVE  /\ IsList(list) /\ OneOfEach(list) /\ (steady => AllEarned(list))
         /\ list \in {words, OnCard, <<>>}
<1>1. <<>> \in Seq(Entry) /\ Len(<<>>) = 0 /\ DOMAIN <<>> = {}
  BY EmptySeq, LenProperties
<1>2. IsList(<<>>) /\ OneOfEach(<<>>) /\ AllEarned(<<>>)
  BY <1>1, WordListAssumption DEF IsList, OneOfEach, AllEarned
<1>3. IsList(OnCard)
  BY <1>2 DEF WordsInv, WordsTypeOK, OnCard
<1> QED
  BY <1>2, <1>3 DEF WordsInv, WordsTypeOK, LagsKept, Knows

(* What a save, or a call that only reads, leaves in memory and on the card. *)
LEMMA Stored ==
  ASSUME WordsInv, NEW list, NEW n \in 0..1, IsList(list), OneOfEach(list),
         SaveList(list, n) \/ (Knows(list, n) /\ KeepList(list, n))
  PROVE  /\ words' = list /\ loaded' = TRUE
         /\ listFile' # Torn => IsList(listFile')
         /\ OnCard' \in {list, OnCard, <<>>} /\ OneOfEach(OnCard')
         /\ unsaved' \in BOOLEAN /\ failures' \in 0..MaxFailures
         /\ FileKept'
<1>1. /\ words' = list /\ loaded' = TRUE /\ failures' \in 0..MaxFailures /\ unsaved' \in BOOLEAN
  <2>1. failures \in Nat /\ MaxFailures \in Nat /\ n \in Nat
    BY WordListAssumption DEF WordsInv, WordsTypeOK
  <2>2. /\ words' = list /\ loaded' = TRUE /\ failures' <= MaxFailures
        /\ failures' = failures + n \/ failures' = failures + n + 1
    BY DEF SaveList, KeepList
  <2>3. failures' \in 0..MaxFailures
    BY <2>1, <2>2
  <2>4. unsaved' \in BOOLEAN
    BY Zenon DEF SaveList, KeepList
  <2> QED
    BY <2>2, <2>3, <2>4
<1>2. listFile' \in {list, listFile, Torn}
  BY DEF SaveList, KeepList
<1>3. list # Torn
  BY WordListAssumption DEF IsList
<1>4. listFile' # Torn => IsList(listFile')
  BY <1>2 DEF WordsInv, WordsTypeOK
<1>5. OnCard' \in {list, OnCard, <<>>}
  BY <1>2, <1>3 DEF OnCard
<1>6. OneOfEach(<<>>)
  BY EmptySeq DEF OneOfEach
<1>7. OneOfEach(OnCard')
  BY <1>5, <1>6 DEF WordsInv
<1>8. ~unsaved' => OnCard' = list
  <2>1. CASE SaveList(list, n)
    BY <1>3, <2>1 DEF SaveList, OnCard
  <2>2. CASE Knows(list, n) /\ KeepList(list, n)
    <3>1. unsaved' = (unsaved \/ n > 0) /\ listFile' = listFile
      BY <2>2 DEF KeepList
    <3>n. ~(n > 0) => n = 0
      OBVIOUS
    <3>2. n = 0 /\ ~unsaved => list = OnCard
      BY <2>2 DEF Knows, WordsInv, FileKept
    <3>3. OnCard' = OnCard
      BY <3>1 DEF OnCard
    <3> QED
      BY <3>1, <3>n, <3>2, <3>3, Zenon
  <2> QED
    BY <2>1, <2>2
<1> QED
  BY <1>1, <1>4, <1>5, <1>7, <1>8 DEF FileKept

(* The words of a review that opens. *)
QueueOf(list, q) == [i \in DOMAIN q |-> list[q[i]].word]
LEMMA QueueIs ==
  ASSUME NEW list \in Seq(Entry), NEW day, NEW q \in Queues(list, day)
  PROVE  /\ QueueOf(list, q) \in Seq(Word) /\ Len(QueueOf(list, q)) \in Nat
         /\ OneOfEach(list) => \A i, j \in 1..Len(QueueOf(list, q)) :
              QueueOf(list, q)[i] \in Plain /\ QueueOf(list, q)[i] = QueueOf(list, q)[j] => i = j
         /\ \A i \in DOMAIN list : IsDue(list[i], day) =>
              \E j \in 1..Len(QueueOf(list, q)) : QueueOf(list, q)[j] = list[i].word
         /\ \A j \in 1..Len(QueueOf(list, q)) :
              \E i \in DOMAIN list : list[i].word = QueueOf(list, q)[j] /\ IsDue(list[i], day)
<1> DEFINE queue == QueueOf(list, q)
<1>1. /\ \E n \in Nat : q \in [1..n -> 1..Len(list)]
      /\ \A i \in 1..Len(list) : IsDue(list[i], day) <=> \E j \in DOMAIN q : q[j] = i
      /\ \A i, j \in DOMAIN q : q[i] = q[j] => i = j
  BY QueuesIs
<1>2. PICK n \in Nat : q \in [1..n -> 1..Len(list)]
  BY <1>1
<1>3. \A i \in 1..n : list[q[i]] \in Entry /\ list[q[i]].word \in Word
  <2>1. ASSUME NEW i \in 1..n PROVE list[q[i]] \in Entry
    <3>1. q[i] \in 1..Len(list)
      BY <1>2
    <3> QED
      BY <3>1, ElementOfSeq
  <2> QED
    BY <2>1 DEF Entry
<1>4. queue \in [1..n -> Word] /\ \A i \in 1..n : queue[i] = list[q[i]].word
  BY <1>2, <1>3 DEF QueueOf
<1> HIDE DEF queue
<1>5. queue \in Seq(Word)
  BY <1>4, SeqDef
<1>6. Len(queue) = n
  BY <1>4, <1>5, LenProperties
<1>7. DOMAIN list = 1..Len(list) /\ DOMAIN q = 1..n
  BY <1>2, LenProperties
<1>8. ASSUME OneOfEach(list), NEW i \in 1..n, NEW j \in 1..n, queue[i] \in Plain, queue[i] = queue[j]
      PROVE  i = j
  <2>1. q[i] \in DOMAIN list /\ q[j] \in DOMAIN list
    BY <1>2, <1>7
  <2>2. q[i] = q[j]
    BY <1>4, <1>8, <2>1 DEF OneOfEach
  <2> QED
    BY <1>1, <1>7, <2>2
<1>9. ASSUME NEW i \in DOMAIN list, IsDue(list[i], day)
      PROVE  \E j \in 1..n : queue[j] = list[i].word
  <2>1. PICK j \in 1..n : q[j] = i
    BY <1>1, <1>7, <1>9
  <2> QED
    BY <1>4, <2>1
<1>10. ASSUME NEW j \in 1..n
       PROVE  \E i \in DOMAIN list : list[i].word = queue[j] /\ IsDue(list[i], day)
  <2>1. q[j] \in 1..Len(list) /\ list[q[j]].word = queue[j]
    BY <1>2, <1>4
  <2>2. IsDue(list[q[j]], day)
    BY <1>1, <1>7, <2>1
  <2> QED
    BY <1>7, <2>1, <2>2
<1>11. Len(queue) \in Nat
  BY <1>2, <1>6
<1>12. /\ OneOfEach(list) => \A i, j \in 1..Len(queue) : queue[i] \in Plain /\ queue[i] = queue[j] => i = j
       /\ \A i \in DOMAIN list : IsDue(list[i], day) => \E j \in 1..Len(queue) : queue[j] = list[i].word
       /\ \A j \in 1..Len(queue) : \E i \in DOMAIN list : list[i].word = queue[j] /\ IsDue(list[i], day)
  BY <1>6, <1>8, <1>9, <1>10, Zenon
<1> QED
  BY <1>5, <1>11, <1>12, Zenon DEF queue

LEMMA ReviewIs ==
  ASSUME WordsTypeOK, review # NoReview
  PROVE  /\ review \in Review /\ review.day \in Day /\ review.queue \in Seq(Word) /\ Len(review.queue) \in Nat
         /\ review.at \in Nat \ {0} /\ review.at <= Len(review.queue) + 1
         /\ [review EXCEPT !.at = @ + 1].day = review.day
         /\ [review EXCEPT !.at = @ + 1].queue = review.queue
         /\ [review EXCEPT !.at = @ + 1].at = review.at + 1
         /\ [review EXCEPT !.at = @ + 1] \in Review
<1>1. review \in Review
  BY DEF WordsTypeOK
<1>2. review.queue \in Seq(Word) /\ review.at \in Nat \ {0} /\ review.day \in Day
  BY <1>1 DEF Review
<1>3. Len(review.queue) \in Nat
  BY <1>2, LenProperties
<1> QED
  BY <1>1, <1>2, <1>3 DEF WordsTypeOK, Review

(* The word that is graded leaves those that are due, having waited its lag. *)
LEMMA GradeIs ==
  ASSUME WordsInv, Reviewing, NEW remembered \in BOOLEAN,
         NEW i, i = Find(words, review.queue[review.at]), i # 0,
         NEW new, new = [words EXCEPT ![i] = Graded(@, remembered, review.day)]
  PROVE  /\ i \in DOMAIN words /\ words[i].word = review.queue[review.at]
         /\ IsList(new) /\ OneOfEach(new) /\ DOMAIN new = DOMAIN words
         /\ new[i].word = words[i].word
         /\ \A j \in DOMAIN words : j # i => new[j] = words[j]
         /\ review.day >= 0 => ~IsDue(new[i], review.day)
         /\ steady => AllEarned(new)
<1> DEFINE w == review.queue[review.at]
           g == Graded(words[i], remembered, review.day)
<1>1. words \in Seq(Entry) /\ Len(words) <= MAX_WORDS /\ DOMAIN words = 1..Len(words) /\ Len(words) \in Nat
  BY LenProperties DEF WordsInv, WordsTypeOK, IsList
<1>2. i \in 1..Len(words) /\ words[i].word = w
  BY <1>1, FindIs
<1>3. words[i] \in Entry
  BY <1>1, <1>2, ElementOfSeq
<1>4. review # NoReview /\ review.day \in Day /\ review.at \in review.at..Len(review.queue)
  <2>1. review # NoReview /\ review.at <= Len(review.queue)
    BY DEF Reviewing
  <2> QED
    BY <2>1, ReviewIs DEF WordsInv
<1>5. /\ g \in Entry /\ g.word = words[i].word /\ g.added = words[i].added
      /\ g.box = IF ~remembered THEN 0 ELSE IF words[i].box >= RETIRED THEN RETIRED ELSE words[i].box + 1
      /\ g.due = Due(g.box, review.day)
  BY <1>3, <1>4, GradedIs
<1> HIDE DEF g
<1>6. new = [words EXCEPT ![i] = g]
  BY DEF g
<1>7. /\ new \in Seq(Entry) /\ Len(new) = Len(words)
      /\ \A j \in 1..Len(words) : new[j] = IF j = i THEN g ELSE words[j]
  BY <1>1, <1>2, <1>5, <1>6, ExceptSeq
<1>8. DOMAIN new = 1..Len(words)
  BY <1>7, LenProperties
<1>9. \A j \in 1..Len(words) : new[j].word = words[j].word
  BY <1>5, <1>7
<1>10. OneOfEach(new)
  <2>1. OneOfEach(words)
    BY DEF WordsInv
  <2>2. ASSUME NEW j \in 1..Len(words), NEW k \in 1..Len(words),
               new[j].word \in Plain, new[j].word = new[k].word
        PROVE  j = k
    BY <1>1, <1>9, <2>1, <2>2, Zenon DEF OneOfEach
  <2> QED
    BY <1>8, <2>2, Zenon DEF OneOfEach
<1>11. g.box \in 0..RETIRED /\ g.box \in Int /\ review.day \in Int
  BY <1>4, <1>5, WordListAssumption DEF Entry, Day
<1>12. review.day >= 0 => ~IsDue(g, review.day)
  <2>1. review.day >= 0 => g.due > review.day /\ g.due \in Int
    BY <1>4, <1>5, <1>11, DueIs
  <2> QED
    BY <1>11, <2>1 DEF IsDue
<1>13. ASSUME steady PROVE AllEarned(new)
  <2>1. AllEarned(words) /\ 0 <= today /\ 0 <= review.day /\ review.day <= today /\ today \in Day /\ today \in Int
    BY <1>4, <1>13, WordListAssumption DEF WordsInv, LagsKept, WordsTypeOK, Day
  <2>2. CASE g.word \in Plain
    <3>1. \E k \in DOMAIN words : words[k].word = w /\ IsDue(words[k], review.day)
      <4>1. w \in Plain /\ review.day >= 0
        BY <1>2, <1>5, <2>1, <2>2
      <4> QED
        BY <1>4, <4>1 DEF WordsInv, QueueLeft
    <3>2. IsDue(words[i], review.day)
      BY <1>1, <1>2, <1>5, <2>2, <3>1 DEF WordsInv, OneOfEach
    <3>3. Earned(words[i])
      BY <1>1, <1>2, <2>1 DEF AllEarned
    <3>4. /\ words[i].box \in 0..RETIRED /\ words[i].box \in Int /\ words[i].due \in Int /\ words[i].added \in Int
          /\ words[i].box < RETIRED
      BY <1>3, <3>2, WordListAssumption DEF Entry, Day, IsDue
    <3>5. 0 <= words[i].added /\ words[i].added <= words[i].due
      BY <1>3, <1>5, <2>1, <2>2, <3>3, <3>4, EarnedBefore
    <3>6. words[i].due <= review.day
      BY <1>11, <2>1, <3>2, <3>4, <3>5 DEF IsDue
    <3>7. ASSUME remembered PROVE Earned(g)
      <4>1. g.box = words[i].box + 1
        BY <1>5, <3>4, <3>7, Boxes
      <4>2. words[i].added + LagsUpTo[words[i].box + 1] <= words[i].due
        BY <1>5, <2>2, <3>3, <3>4 DEF Earned
      <4>3. words[i].box + 1 \in 0..RETIRED /\ LagsUpTo[g.box] \in Nat
        <5>1. words[i].box + 1 \in 0..RETIRED
          BY <3>4, Boxes
        <5>2. g.box \in 0..RETIRED
          BY <4>1, <5>1
        <5> QED
          BY <5>1, <5>2, Lags
      <4>4. g.added + LagsUpTo[g.box] <= review.day /\ g.added + LagsUpTo[g.box] <= today
        <5>1. g.added \in Int /\ g.added + LagsUpTo[g.box] <= words[i].due
          BY <1>5, <3>4, <4>1, <4>2
        <5>2. \A x, due, now \in Int : x <= due /\ due <= now => x <= now
          OBVIOUS
        <5>3. g.added + LagsUpTo[g.box] \in Int /\ words[i].due \in Int /\ review.day \in Int /\ today \in Int
          BY <1>11, <2>1, <3>4, <4>3, <5>1
        <5>4. g.added + LagsUpTo[g.box] <= review.day
          BY <3>6, <5>1, <5>2, <5>3, Zenon
        <5>5. g.added + LagsUpTo[g.box] <= today
          BY <2>1, <5>2, <5>3, <5>4, Zenon
        <5> QED
          BY <5>4, <5>5
      <4>5. ASSUME g.box < RETIRED PROVE g.added + LagsUpTo[g.box + 1] <= g.due
        <5>1. g.due = review.day + BOX_DAYS[g.box + 1]
          BY <1>4, <1>5, <1>11, <2>1, <4>5, DueIs
        <5>2. g.box + 1 \in 1..RETIRED /\ (g.box + 1) - 1 = g.box
          BY <1>11, <4>5, Boxes
        <5>3. LagsUpTo[g.box + 1] = LagsUpTo[g.box] + BOX_DAYS[g.box + 1] /\ BOX_DAYS[g.box + 1] \in Nat
          BY <5>2, Lags, Boxes
        <5>4. g.added \in Int
          BY <1>5, <3>4
        <5>5. \A added, lags, day, lag \in Int : added + lags <= day => added + (lags + lag) <= day + lag
          OBVIOUS
        <5>6. LagsUpTo[g.box] \in Int /\ BOX_DAYS[g.box + 1] \in Int
          BY <4>3, <5>3
        <5> QED
          BY <1>11, <4>4, <5>1, <5>3, <5>4, <5>5, <5>6, Zenon
      <4>6. 0 <= g.added
        BY <1>5, <3>5
      <4> QED
        BY <4>4, <4>5, <4>6 DEF Earned
    <3>8. ASSUME ~remembered PROVE Earned(g)
      <4>1. g.box = 0 /\ g.due = Due(0, review.day)
        BY <1>5, <3>8
      <4>2. 0 <= g.added /\ g.added <= review.day
        BY <1>5, <1>11, <3>4, <3>5, <3>6
      <4>3. g \in Entry /\ review.day \in Day
        BY <1>4, <1>5
      <4> QED
        BY <2>1, <4>1, <4>2, <4>3, FirstBox
    <3>9. Earned(g)
      BY <3>7, <3>8
    <3> QED
      BY <1>1, <1>7, <1>8, <2>1, <3>9 DEF AllEarned
  <2>3. CASE g.word \notin Plain
    <3>1. Earned(g)
      BY <2>3 DEF Earned
    <3> QED
      BY <1>1, <1>7, <1>8, <2>1, <3>1 DEF AllEarned
  <2> QED
    BY <2>2, <2>3
<1> QED
  BY <1>1, <1>2, <1>5, <1>7, <1>8, <1>10, <1>12, <1>13 DEF IsList

LEMMA RemovedIs ==
  ASSUME WordsInv, NEW i \in DOMAIN words, NEW new, new = RemoveAt(words, Find(words, words[i].word))
  PROVE  /\ IsList(new) /\ OneOfEach(new)
         /\ \A j \in DOMAIN new : \E k \in DOMAIN words : new[j] = words[k]
<1> DEFINE at == Find(words, words[i].word)
<1>1. words \in Seq(Entry) /\ Len(words) <= MAX_WORDS /\ DOMAIN words = 1..Len(words) /\ Len(words) \in Nat
      /\ MAX_WORDS \in Nat
  BY LenProperties, WordListAssumption DEF WordsInv, WordsTypeOK, IsList
<1>2. at \in 1..Len(words)
  BY <1>1, FindIs
<1> HIDE DEF at
<1>3. new = RemoveAt(words, at)
  BY DEF at
<1>4. new \in Seq(Entry) /\ Len(new) = Len(words) - 1
  BY <1>1, <1>2, <1>3, RemoveAtIs
<1>5. OneOfEach(new) /\ \A j \in DOMAIN new : \E k \in DOMAIN words : new[j] = words[k]
  BY <1>1, <1>2, <1>3, Shorter DEF WordsInv
<1>6. Len(new) <= MAX_WORDS
  <2>1. \A n, m \in Nat : n <= m => n - 1 <= m
    OBVIOUS
  <2> QED
    BY <1>1, <1>4, <2>1, Zenon
<1> QED
  BY <1>4, <1>5, <1>6 DEF IsList

-----------------------------------------------------------------------------
(* The invariant, at the start and over the actions. *)
LEMMA WordsInvInit == WordsInit => WordsInv
<1> SUFFICES ASSUME WordsInit PROVE WordsInv
  OBVIOUS
<1>1. <<>> \in Seq(Entry) /\ Len(<<>>) = 0 /\ DOMAIN <<>> = {} /\ OnCard = <<>>
  BY EmptySeq, WordListAssumption DEF WordsInit, OnCard
<1>2. IsList(<<>>) /\ OneOfEach(<<>>) /\ AllEarned(<<>>)
  BY <1>1, WordListAssumption DEF IsList, OneOfEach, AllEarned
<1>3. today \in Int /\ steady = (today >= 0) /\ 0 \in 0..MaxFailures
  BY WordListAssumption DEF WordsInit, Day
<1>4. WordsTypeOK
  <2>1. (today >= 0) \in BOOLEAN
    OBVIOUS
  <2>2. steady \in BOOLEAN
    BY <1>3, <2>1, Zenon
  <2> QED
    BY <1>2, <1>3, <2>2, Zenon DEF WordsInit, WordsTypeOK
<1>5. FileKept /\ QueueLeft
  BY DEF WordsInit, FileKept, QueueLeft
<1>6. LagsKept
  BY <1>1, <1>2, <1>3 DEF WordsInit, LagsKept
<1> QED
  BY <1>1, <1>2, <1>4, <1>5, <1>6 DEF WordsInit, WordsInv

(* A call that stores a list: what is left to show is what it makes of the review. *)
LEMMA StoredInv ==
  ASSUME WordsInv, NEW list, NEW n \in 0..1, IsList(list), OneOfEach(list), steady => AllEarned(list),
         SaveList(list, n) \/ (Knows(list, n) /\ KeepList(list, n)),
         today' = today, steady' = steady,
         review' \in Review \cup {NoReview},
         review' # NoReview => review'.at <= Len(review'.queue) + 1,
         review' # NoReview /\ steady => review'.day \in 0..today,
         QueueLeft'
  PROVE  WordsInv'
<1>1. /\ words' = list /\ loaded' = TRUE
      /\ listFile' # Torn => IsList(listFile')
      /\ OnCard' \in {list, OnCard, <<>>} /\ OneOfEach(OnCard')
      /\ unsaved' \in BOOLEAN /\ failures' \in 0..MaxFailures
      /\ FileKept'
  BY Stored
<1>2. WordsTypeOK'
  BY <1>1 DEF WordsInv, WordsTypeOK
<1>3. ASSUME steady PROVE AllEarned(list) /\ AllEarned(OnCard')
  <2>1. AllEarned(<<>>)
    BY EmptySeq DEF AllEarned
  <2> QED
    BY <1>1, <1>3, <2>1 DEF WordsInv, LagsKept
<1>4. LagsKept'
  <2> SUFFICES ASSUME steady
               PROVE  0 <= today /\ AllEarned(words)' /\ AllEarned(OnCard)'
                      /\ (review' # NoReview => review'.day \in 0..today)
    BY DEF LagsKept
  <2>1. AllEarned(words)' /\ AllEarned(OnCard)'
    BY <1>1, <1>3 DEF AllEarned, Earned
  <2> QED
    BY <2>1 DEF WordsInv, LagsKept
<1>5. OneOfEach(words)' /\ OneOfEach(OnCard)'
  BY <1>1 DEF OneOfEach
<1> QED
  BY <1>1, <1>2, <1>4, <1>5 DEF WordsInv

LEMMA ReviewDay ==
  ASSUME WordsInv, review # NoReview
  PROVE  loaded /\ (steady => review.day \in 0..today)
BY DEF WordsInv, QueueLeft, LagsKept

LEMMA AddInv ==
  ASSUME WordsInv, NEW t \in Headword, Add(t)
  PROVE  WordsInv'
<1>1. PICK list \in Lists, n \in 0..1 : Knows(list, n) /\ SaveList(Added(list, t), n)
  BY DEF Add
<1>2. IsList(list) /\ OneOfEach(list) /\ (steady => AllEarned(list))
  BY <1>1, Taken
<1>3. today \in Day /\ (steady => 0 <= today)
  BY DEF WordsInv, WordsTypeOK, LagsKept
<1>4. IsList(Added(list, t)) /\ OneOfEach(Added(list, t)) /\ (steady => AllEarned(Added(list, t)))
  BY <1>2, <1>3, AddedIs
<1>5. today' = today /\ steady' = steady /\ review' = NoReview
  BY DEF Add
<1>6. QueueLeft'
  BY <1>5 DEF QueueLeft
<1> QED
  BY <1>1, <1>4, <1>5, <1>6, StoredInv

LEMMA GlanceInv ==
  ASSUME WordsInv, Glance
  PROVE  WordsInv'
<1>1. PICK list \in Lists, n \in 0..1 : Knows(list, n) /\ KeepList(list, n)
  BY DEF Glance
<1>2. IsList(list) /\ OneOfEach(list) /\ (steady => AllEarned(list))
  BY <1>1, Taken
<1>3. today' = today /\ steady' = steady /\ review' = review /\ words' = list /\ loaded' = TRUE
  BY <1>1 DEF Glance, KeepList
<1>4. review # NoReview => list = words
  BY <1>1, ReviewDay DEF Knows
<1>5. QueueLeft'
  BY <1>3, <1>4 DEF WordsInv, QueueLeft
<1>6. review' \in Review \cup {NoReview} /\ (review' # NoReview => review'.at <= Len(review'.queue) + 1)
  BY <1>3 DEF WordsInv, WordsTypeOK
<1>7. review' # NoReview /\ steady => review'.day \in 0..today
  BY <1>3, ReviewDay
<1> QED
  BY <1>1, <1>2, <1>3, <1>5, <1>6, <1>7, StoredInv

LEMMA OpenReviewInv ==
  ASSUME WordsInv, OpenReview
  PROVE  WordsInv'
<1>1. PICK list \in Lists, n \in 0..1 :
        /\ Knows(list, n) /\ KeepList(list, n)
        /\ \E q \in Queues(list, today) :
             review' = [day |-> today, queue |-> [i \in DOMAIN q |-> list[q[i]].word], at |-> 1]
  BY DEF OpenReview
<1>2. PICK q \in Queues(list, today) :
        review' = [day |-> today, queue |-> [i \in DOMAIN q |-> list[q[i]].word], at |-> 1]
  BY <1>1
<1> DEFINE queue == QueueOf(list, q)
<1>3. review' = [day |-> today, queue |-> queue, at |-> 1]
  BY <1>2 DEF QueueOf
<1>4. IsList(list) /\ OneOfEach(list) /\ (steady => AllEarned(list))
  BY <1>1, Taken
<1>5. list \in Seq(Entry)
  BY <1>4 DEF IsList
<1>6. /\ queue \in Seq(Word) /\ Len(queue) \in Nat
      /\ \A i, j \in 1..Len(queue) : queue[i] \in Plain /\ queue[i] = queue[j] => i = j
      /\ \A t : (\E i \in DOMAIN list : list[i].word = t /\ IsDue(list[i], today))
                  <=> (\E j \in 1..Len(queue) : queue[j] = t)
  <2>1. OneOfEach(list) => \A i, j \in 1..Len(queue) : queue[i] \in Plain /\ queue[i] = queue[j] => i = j
    BY <1>5, QueueIs
  <2>2. \A i \in DOMAIN list : IsDue(list[i], today) => \E j \in 1..Len(queue) : queue[j] = list[i].word
    BY <1>5, QueueIs
  <2>3. \A j \in 1..Len(queue) : \E i \in DOMAIN list : list[i].word = queue[j] /\ IsDue(list[i], today)
    BY <1>5, QueueIs
  <2>4. queue \in Seq(Word) /\ Len(queue) \in Nat
    BY <1>5, QueueIs
  <2> HIDE DEF queue
  <2>5. ASSUME NEW t, NEW i \in DOMAIN list, list[i].word = t, IsDue(list[i], today)
        PROVE  \E j \in 1..Len(queue) : queue[j] = t
    BY <2>2, <2>5
  <2>6. ASSUME NEW t, NEW j \in 1..Len(queue), queue[j] = t
        PROVE  \E i \in DOMAIN list : list[i].word = t /\ IsDue(list[i], today)
    BY <2>3, <2>6
  <2> QED
    BY <1>4, <2>1, <2>4, <2>5, <2>6, Zenon
<1> HIDE DEF queue
<1>7. today' = today /\ steady' = steady /\ words' = list /\ loaded' = TRUE /\ today \in Day
  BY <1>1 DEF OpenReview, KeepList, WordsInv, WordsTypeOK
<1>8. review'.day = today /\ review'.queue = queue /\ review'.at = 1 /\ review' \in Review
  BY <1>3, <1>6, <1>7 DEF Review
<1>9. QueueLeft'
  BY <1>6, <1>7, <1>8, Zenon DEF QueueLeft
<1>10. review'.at <= Len(review'.queue) + 1
  BY <1>6, <1>8
<1>11. steady => review'.day \in 0..today
  BY <1>7, <1>8, WordListAssumption DEF WordsInv, LagsKept, Day
<1> QED
  BY <1>1, <1>4, <1>7, <1>8, <1>9, <1>10, <1>11, StoredInv

LEMMA GradeInv ==
  ASSUME WordsInv, NEW remembered \in BOOLEAN, Grade(remembered)
  PROVE  WordsInv'
<1> DEFINE i == Find(words, review.queue[review.at])
           w == review.queue[review.at]
           left == review.at..Len(review.queue)
           rest == (review.at + 1)..Len(review.queue)
<1>1. /\ Reviewing /\ today' = today /\ steady' = steady
      /\ review' = [review EXCEPT !.at = @ + 1]
      /\ \/ i = 0 /\ UNCHANGED <<words, loaded, listFile, unsaved, failures>>
         \/ i # 0 /\ SaveList([words EXCEPT ![i] = Graded(@, remembered, review.day)], 0)
  BY DEF Grade
<1>2. review # NoReview /\ review.at <= Len(review.queue)
  BY <1>1 DEF Reviewing
<1>3. /\ review.day \in Day /\ review.queue \in Seq(Word) /\ Len(review.queue) \in Nat
      /\ review.at \in Nat \ {0}
      /\ review'.day = review.day /\ review'.queue = review.queue /\ review'.at = review.at + 1
      /\ review' \in Review
  BY <1>1, <1>2, ReviewIs DEF WordsInv
<1>4. review'.at..Len(review'.queue) = rest
  BY <1>3
<1>5. /\ review.at \in left /\ (\A j \in rest : j \in left /\ j # review.at)
      /\ \A j \in left : j = review.at \/ j \in rest
  BY <1>2, <1>3
<1>6. /\ loaded
      /\ \A j, k \in left : review.queue[j] \in Plain /\ review.queue[j] = review.queue[k] => j = k
      /\ review.day >= 0 => \A t \in Plain :
           (\E j \in DOMAIN words : words[j].word = t /\ IsDue(words[j], review.day))
             <=> (\E j \in left : review.queue[j] = t)
  BY <1>2 DEF WordsInv, QueueLeft
<1>7. review'.at <= Len(review'.queue) + 1
  BY <1>2, <1>3
<1>8. steady => review'.day \in 0..today
  BY <1>2, <1>3, ReviewDay
<1> HIDE DEF left, rest
<1>9. \A j, k \in rest : review.queue[j] \in Plain /\ review.queue[j] = review.queue[k] => j = k
  BY <1>5, <1>6, Zenon
<1>10. ASSUME loaded', NEW new, words' = new,
              review.day >= 0 => \A t \in Plain :
                (\E j \in DOMAIN new : new[j].word = t /\ IsDue(new[j], review.day))
                  <=> (\E j \in rest : review.queue[j] = t)
       PROVE  QueueLeft'
  <2>1. \A j, k \in review'.at..Len(review'.queue) :
          review'.queue[j] \in Plain /\ review'.queue[j] = review'.queue[k] => j = k
    BY <1>3, <1>4, <1>9
  <2>2. review'.day >= 0 => \A t \in Plain :
          (\E j \in DOMAIN new : new[j].word = t /\ IsDue(new[j], review'.day))
            <=> (\E j \in review'.at..Len(review'.queue) : review'.queue[j] = t)
    BY <1>3, <1>4, <1>10
  <2> QED
    BY <1>10, <2>1, <2>2 DEF QueueLeft
<1>11. CASE i = 0
  <2>1. UNCHANGED <<words, loaded, listFile, unsaved, failures>>
    BY <1>1, <1>11
  <2>2. ASSUME review.day >= 0, w \in Plain PROVE FALSE
    <3>1. PICK j \in DOMAIN words : words[j].word = w
      BY <1>5, <1>6, <2>2
    <3>2. words \in Seq(Entry) /\ j \in 1..Len(words)
      BY <3>1, LenProperties DEF WordsInv, WordsTypeOK, IsList
    <3> QED
      BY <1>11, <3>1, <3>2, FindIs
  <2>3. ASSUME review.day >= 0, NEW t \in Plain
        PROVE  (\E j \in left : review.queue[j] = t) <=> (\E j \in rest : review.queue[j] = t)
    BY <1>5, <2>2, <2>3
  <2>4. QueueLeft'
    BY <1>6, <1>10, <2>1, <2>3
  <2>5. WordsTypeOK'
    BY <1>1, <1>3, <1>7, <2>1 DEF WordsInv, WordsTypeOK
  <2>6. OneOfEach(words)' /\ OneOfEach(OnCard)' /\ FileKept'
    BY <2>1 DEF WordsInv, OneOfEach, OnCard, FileKept
  <2>7. LagsKept'
    BY <1>1, <1>8, <2>1 DEF WordsInv, LagsKept, AllEarned, Earned, OnCard
  <2> QED
    BY <2>4, <2>5, <2>6, <2>7 DEF WordsInv
<1>12. CASE i # 0
  <2> DEFINE new == [words EXCEPT ![i] = Graded(@, remembered, review.day)]
  <2>1. SaveList(new, 0)
    BY <1>1, <1>12
  <2>2. /\ i \in DOMAIN words /\ words[i].word = w
        /\ IsList(new) /\ OneOfEach(new) /\ DOMAIN new = DOMAIN words
        /\ new[i].word = words[i].word
        /\ \A j \in DOMAIN words : j # i => new[j] = words[j]
        /\ review.day >= 0 => ~IsDue(new[i], review.day)
        /\ steady => AllEarned(new)
    BY <1>1, <1>12, GradeIs
  <2> HIDE DEF new, i
  <2>3. words' = new /\ loaded' = TRUE
    BY <2>1 DEF SaveList
  <2>4. ASSUME review.day >= 0, NEW t \in Plain
        PROVE  (\E j \in DOMAIN new : new[j].word = t /\ IsDue(new[j], review.day))
                 <=> (\E j \in rest : review.queue[j] = t)
    <3>1. CASE t = w
      <4>1. ~\E j \in DOMAIN new : new[j].word = t /\ IsDue(new[j], review.day)
        <5> SUFFICES ASSUME NEW j \in DOMAIN new, new[j].word = t, IsDue(new[j], review.day) PROVE FALSE
          OBVIOUS
        <5>1. j = i
          BY <2>2, <3>1 DEF OneOfEach
        <5> QED
          BY <2>2, <2>4, <5>1
      <4>2. ~\E j \in rest : review.queue[j] = t
        BY <1>5, <1>6, <3>1
      <4> QED
        BY <4>1, <4>2
    <3>2. CASE t # w
      <4>1. \A j \in DOMAIN words : words[j].word = t => j # i /\ new[j] = words[j]
        BY <2>2, <3>2
      <4>2. \A j \in DOMAIN words : new[j].word = t => j # i /\ new[j] = words[j]
        BY <2>2, <3>2
      <4>3. (\E j \in DOMAIN new : new[j].word = t /\ IsDue(new[j], review.day))
              <=> (\E j \in DOMAIN words : words[j].word = t /\ IsDue(words[j], review.day))
        BY <2>2, <4>1, <4>2, Zenon
      <4>4. (\E j \in left : review.queue[j] = t) <=> (\E j \in rest : review.queue[j] = t)
        BY <1>5, <3>2
      <4> QED
        BY <1>6, <2>4, <4>3, <4>4
    <3> QED
      BY <3>1, <3>2
  <2>5. QueueLeft'
    BY <1>10, <2>3, <2>4
  <2> QED
    BY <1>1, <1>3, <1>7, <1>8, <2>1, <2>2, <2>5, StoredInv
<1> QED
  BY <1>11, <1>12

LEMMA RemoveWordInv ==
  ASSUME WordsInv, NEW i, RemoveWord(i)
  PROVE  WordsInv'
<1> DEFINE new == RemoveAt(words, Find(words, words[i].word))
<1>1. /\ Browsing /\ i \in DOMAIN words /\ SaveList(new, 0)
      /\ today' = today /\ review' = review /\ steady' = steady
  BY DEF RemoveWord
<1>2. /\ IsList(new) /\ OneOfEach(new)
      /\ \A j \in DOMAIN new : \E k \in DOMAIN words : new[j] = words[k]
  BY <1>1, RemovedIs
<1> HIDE DEF new
<1>3. words' = new /\ loaded' = TRUE
  BY <1>1 DEF SaveList
<1>4. review # NoReview /\ review.at > Len(review.queue)
  BY <1>1 DEF Browsing
<1>5. review.at..Len(review.queue) = {}
  BY <1>4, ReviewIs DEF WordsInv
<1>6. ASSUME review.day >= 0, NEW t \in Plain
      PROVE  ~\E j \in DOMAIN new : new[j].word = t /\ IsDue(new[j], review.day)
  <2>1. ~\E j \in DOMAIN words : words[j].word = t /\ IsDue(words[j], review.day)
    BY <1>4, <1>5, <1>6 DEF WordsInv, QueueLeft
  <2> QED
    BY <1>2, <2>1, Zenon
<1>7. QueueLeft'
  BY <1>1, <1>3, <1>5, <1>6 DEF QueueLeft
<1>8. steady => AllEarned(new)
  BY <1>2 DEF WordsInv, LagsKept, AllEarned
<1>9. /\ review' \in Review \cup {NoReview} /\ review'.at <= Len(review'.queue) + 1
      /\ steady => review'.day \in 0..today
  BY <1>1, <1>4, ReviewIs, ReviewDay DEF WordsInv
<1> QED
  BY <1>1, <1>2, <1>7, <1>8, <1>9, StoredInv

LEMMA LeaveReviewInv ==
  ASSUME WordsInv, LeaveReview
  PROVE  WordsInv'
<1>1. review' = NoReview /\ UNCHANGED <<words, loaded, listFile, today, steady, unsaved, failures>>
  BY DEF LeaveReview
<1>2. WordsTypeOK' /\ QueueLeft'
  BY <1>1 DEF WordsInv, WordsTypeOK, QueueLeft
<1>3. OneOfEach(words)' /\ OneOfEach(OnCard)' /\ FileKept'
  BY <1>1 DEF WordsInv, OneOfEach, OnCard, FileKept
<1>4. LagsKept'
  BY <1>1 DEF WordsInv, LagsKept, AllEarned, Earned, OnCard
<1> QED
  BY <1>2, <1>3, <1>4 DEF WordsInv

LEMMA ClockMovesInv ==
  ASSUME WordsInv, NEW d \in Day, ClockMoves(d)
  PROVE  WordsInv'
<1>1. /\ today' = d /\ steady' = (steady /\ d > today)
      /\ UNCHANGED <<words, loaded, listFile, review, unsaved, failures>>
  BY DEF ClockMoves
<1>2. WordsTypeOK'
  BY <1>1 DEF WordsInv, WordsTypeOK
<1>3. OneOfEach(words)' /\ OneOfEach(OnCard)' /\ FileKept' /\ QueueLeft'
  BY <1>1 DEF WordsInv, OneOfEach, OnCard, FileKept, QueueLeft
<1>4. LagsKept'
  <2> SUFFICES ASSUME steady, d > today
               PROVE  /\ 0 <= d /\ AllEarned(words)' /\ AllEarned(OnCard)'
                      /\ review # NoReview => review.day \in 0..d
    BY <1>1 DEF LagsKept
  <2>1. today \in Int /\ d \in Int /\ 0 <= today /\ today <= d
    BY WordListAssumption DEF WordsInv, WordsTypeOK, LagsKept, Day
  <2>2. ASSUME NEW e \in Entry, Earned(e) PROVE Earned(e)'
    <3>1. e.added \in Int /\ LagsUpTo[e.box] \in Nat
      BY WordListAssumption, Lags DEF Entry, Day
    <3> QED
      BY <1>1, <2>1, <2>2, <3>1 DEF Earned
  <2>3. ASSUME NEW list, IsList(list), AllEarned(list), NEW j \in DOMAIN list PROVE Earned(list[j])'
    <3>1. list[j] \in Entry
      BY <2>3, LenProperties, ElementOfSeq DEF IsList
    <3> QED
      BY <2>2, <2>3, <3>1 DEF AllEarned
  <2>4. AllEarned(words)'
    BY <1>1, <2>3 DEF WordsInv, WordsTypeOK, LagsKept, AllEarned
  <2>5. IsList(OnCard)
    BY EmptySeq, WordListAssumption DEF WordsInv, WordsTypeOK, OnCard, IsList
  <2>6. OnCard' = OnCard
    BY <1>1 DEF OnCard
  <2>7. AllEarned(OnCard)'
    BY <2>3, <2>5, <2>6 DEF WordsInv, LagsKept, AllEarned
  <2>8. review # NoReview => review.day \in 0..d
    BY <2>1 DEF WordsInv, LagsKept
  <2> QED
    BY <2>1, <2>4, <2>7, <2>8
<1> QED
  BY <1>2, <1>3, <1>4 DEF WordsInv

LEMMA RestartInv ==
  ASSUME WordsInv, Restart
  PROVE  WordsInv'
<1>1. /\ loaded' = FALSE /\ words' = <<>> /\ review' = NoReview
      /\ UNCHANGED <<listFile, today, steady, unsaved, failures>>
  BY DEF Restart
<1>2. IsList(<<>>) /\ DOMAIN <<>> = {}
  BY EmptySeq, WordListAssumption DEF IsList
<1>3. WordsTypeOK'
  BY <1>1, <1>2 DEF WordsInv, WordsTypeOK
<1>4. OneOfEach(words)' /\ OneOfEach(OnCard)' /\ FileKept' /\ QueueLeft'
  BY <1>1, <1>2 DEF WordsInv, OneOfEach, OnCard, FileKept, QueueLeft
<1>5. LagsKept'
  BY <1>1, <1>2 DEF WordsInv, LagsKept, AllEarned, Earned, OnCard
<1> QED
  BY <1>3, <1>4, <1>5 DEF WordsInv

LEMMA WordsInvStep == WordsInv /\ [WordsNext]_wordVars => WordsInv'
<1> SUFFICES ASSUME WordsInv, [WordsNext]_wordVars PROVE WordsInv'
  OBVIOUS
<1>1. CASE Glance
  BY <1>1, GlanceInv
<1>2. CASE OpenReview
  BY <1>2, OpenReviewInv
<1>3. CASE LeaveReview
  BY <1>3, LeaveReviewInv
<1>4. CASE Restart
  BY <1>4, RestartInv
<1>5. ASSUME NEW t \in Headword, Add(t) PROVE WordsInv'
  BY <1>5, AddInv
<1>6. ASSUME NEW r \in BOOLEAN, Grade(r) PROVE WordsInv'
  BY <1>6, GradeInv
<1>7. ASSUME NEW i \in 1..MAX_WORDS, RemoveWord(i) PROVE WordsInv'
  BY <1>7, RemoveWordInv
<1>8. ASSUME NEW d \in Day, ClockMoves(d) PROVE WordsInv'
  BY <1>8, ClockMovesInv
<1>9. CASE UNCHANGED wordVars
  BY <1>9 DEF wordVars, WordsInv, WordsTypeOK, OneOfEach, OnCard, FileKept, QueueLeft, LagsKept, AllEarned, Earned
<1> QED
  BY <1>1, <1>2, <1>3, <1>4, <1>5, <1>6, <1>7, <1>8, <1>9 DEF WordsNext

LEMMA WordsInvAlways == WordsSpec => []WordsInv
BY WordsInvInit, WordsInvStep, PTL DEF WordsSpec

-----------------------------------------------------------------------------
(* The list, the file and the open review stay what they are (WordListStore). *)
THEOREM WordsTypeCorrect == WordsSpec => []WordsTypeOK
<1>1. WordsInv => WordsTypeOK
  BY DEF WordsInv
<1> QED
  BY <1>1, WordsInvAlways, PTL

(* Whatever is graded, looked up, removed or left, a review with a clock has left *)
(* what is due and nothing else, so that it ends with none (loadQueue).           *)
THEOREM QueueIsDue == WordsSpec => []QueueIsWhatIsDue
<1>1. WordsInv => QueueIsWhatIsDue
  <2> SUFFICES ASSUME WordsInv, review # NoReview, review.day >= 0
               PROVE  {t \in Plain : \E e \in Range(words) : e.word = t /\ IsDue(e, review.day)}
                        = Plain \cap {review.queue[i] : i \in review.at..Len(review.queue)}
    BY DEF QueueIsWhatIsDue
  <2>1. \A t \in Plain :
          (\E i \in DOMAIN words : words[i].word = t /\ IsDue(words[i], review.day))
            <=> (\E j \in review.at..Len(review.queue) : review.queue[j] = t)
    BY DEF WordsInv, QueueLeft
  <2> QED
    BY <2>1 DEF Range
<1> QED
  BY <1>1, WordsInvAlways, PTL

(* No way of grading gets a word to a box before the lags of the boxes before it *)
(* are over, if the clock never ran backwards (wordsched::next).                  *)
THEOREM LearnedInTime == WordsSpec => []LearnedOverItsIntervals
<1>1. WordsInv => LearnedOverItsIntervals
  <2> SUFFICES ASSUME WordsInv, steady, NEW e \in Range(words), e.word \in Plain
               PROVE  today >= e.added + LagsUpTo[e.box]
    BY DEF LearnedOverItsIntervals
  <2>1. PICK i \in DOMAIN words : e = words[i]
    BY DEF Range
  <2>2. words[i] \in Entry /\ today \in Int
    BY LenProperties, ElementOfSeq, WordListAssumption DEF WordsInv, WordsTypeOK, IsList, Day
  <2>3. e.added \in Int /\ LagsUpTo[e.box] \in Nat
    BY <2>1, <2>2, Lags, WordListAssumption DEF Entry, Day
  <2>4. Earned(e)
    BY <2>1 DEF WordsInv, LagsKept, AllEarned
  <2> QED
    BY <2>2, <2>3, <2>4 DEF Earned
<1> QED
  BY <1>1, WordsInvAlways, PTL

(* Every change is on the card when the call that made it returns, unless the *)
(* card failed: a restart finds the list (WordListStore::saveToFile).          *)
THEOREM RestartKeeps == WordsSpec => RestartKeepsTheList
<1>1. WordsInv /\ [WordsNext]_wordVars => [loaded /\ ~loaded' /\ ~unsaved => OnCard' = words]_wordVars
  <2> SUFFICES ASSUME WordsInv, WordsNext, loaded, ~loaded', ~unsaved
               PROVE  OnCard' = words
    OBVIOUS
  <2>1. Restart
    BY DEF WordsNext, Glance, OpenReview, LeaveReview, Add, Grade, RemoveWord, ClockMoves, SaveList, KeepList
  <2>2. OnCard' = OnCard
    BY <2>1 DEF Restart, OnCard
  <2> QED
    BY <2>2 DEF WordsInv, FileKept
<1> QED
  BY <1>1, WordsInvAlways, PTL DEF WordsSpec, RestartKeepsTheList
=============================================================================
