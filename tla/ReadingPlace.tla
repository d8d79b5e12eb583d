---------------------------- MODULE ReadingPlace ----------------------------
(***************************************************************************)
(* Where a reader is in a book, and what of it is on the card              *)
(* (EpubReaderActivity, ProgressFile).                                     *)
(*                                                                         *)
(* The main task turns pages, opens chapters, follows notes and changes    *)
(* the layout; the render task loads the chapter, draws the page under the *)
(* rendering mutex and writes progress.bin when the place has changed.     *)
(* Some page turns change the place without the mutex.                     *)
(*                                                                         *)
(* A chapter is a text of some length and a layout is how much of it fits  *)
(* on a page, so the same place has another page number in another layout. *)
(* A chapter's pages are laid out at once and kept in a section file.      *)
(***************************************************************************)
EXTENDS Integers, Sequences, SequencesExt

CONSTANTS Chapters,   \* number of spine items
          Length,     \* of each chapter: text offsets in it
          Layout,     \* settings that change how much fits on a page
          PageSize,   \* of each layout: text offsets on a page
          None,
          MaxNotes,   \* MAX_FOOTNOTE_DEPTH
          MaxFaults   \* bound: failed card operations

Chapter == 0..(Chapters - 1)
Offset  == Int          \* -1: there is none
Place   == [spine : 0..Chapters, page : Nat, total : Nat, offset : Offset]
Section == [chapter : Chapter, layout : Layout, page : Nat]
Page    == [spine : 0..Chapters, page : Nat, total : Nat]
Mark    == [spine : Chapter, offset : Nat]
Note    == [spine : Chapter, page : Nat, layout : Layout]

ASSUME ReadingPlaceAssumption ==
  /\ Chapters \in Nat \ {0} /\ MaxNotes \in Nat /\ MaxFaults \in Nat
  /\ Length \in [Chapter -> Nat \ {0}]
  /\ PageSize \in [Layout -> Nat \ {0}]
  /\ None \notin Layout \cup Place \cup Section \cup Page \cup Mark

VARIABLES
  screen,    \* "page", the chapter "list" above it, or the book is "closed"
  spine,     \* currentSpineIndex; Chapters is the page after the last
  section,   \* the chapter that is loaded, its layout, and currentPage
  nextPage,  \* nextPageNumber
  jump,      \* pendingPageJump (the last page), pendingOffsetJump, pendingAnchor
  cached,    \* cachedSpineIndex, cachedChapterTotalPageCount, cachedVisibleTextOffset
  layout,    \* the settings
  built,     \* of each chapter: the layout its section file on the card is for
  notes,     \* savedPositions
  main,      \* the main task: "loop", or inside pageTurn
  render,    \* the render task
  requested, \* an update is asked for
  drawn,     \* the page last drawn, which is where currentPageVisibleOffset points
  saved,     \* lastSavedSpineIndex, lastSavedPage, lastSavedPageCount
  file,      \* progress.bin
  save,      \* the save under way: its step, the record, and what comes after
  mark,      \* history: the place the owner asked for, or is at
  failed,    \* history: the last save failed
  raced,     \* history: the place changed during a drawing
  stale,     \* history: a pending jump has outlived what asked for it
  faults

reader  == <<screen, spine, section, nextPage, jump, cached, notes>>
card    == <<file, built>>
tasks   == <<main, render, requested, drawn, saved, save>>
history == <<mark, failed, raced, stale>>
vars    == <<reader, card, layout, tasks, history, faults>>

-----------------------------------------------------------------------------
\* Pages of a chapter in a layout.
Pages(c, l)   == (Length[c] + PageSize[l] - 1) \div PageSize[l]
StartOf(p, l) == p * PageSize[l]
PageAt(o, l)  == o \div PageSize[l]

NoJump  == [last |-> FALSE, offset |-> -1, anchor |-> -1]
NothingKnown == [spine |-> 0, total |-> 0, offset |-> -1]
NoSave  == [step |-> "none", place |-> None, then |-> "draw"]

ReaderOK ==
  /\ screen \in {"page", "list", "closed"}
  /\ spine \in 0..Chapters /\ nextPage \in Nat
  /\ section \in Section \cup {None}
  /\ jump \in [last : BOOLEAN, offset : Offset, anchor : Offset]
  /\ cached \in [spine : Nat, total : Nat, offset : Offset]
NotesOK == notes \in Seq(Note) /\ Len(notes) <= MaxNotes
CardOK  == layout \in Layout /\ built \in [Chapter -> Layout \cup {None}] /\ file \in Place \cup {None}
TasksOK ==
  /\ main \in {"loop", "forward", "back"} /\ render \in {"idle", "draw", "save"}
  /\ drawn \in Section \cup {None} /\ saved \in Page \cup {None}
  /\ save \in [step : {"none", "write", "remove", "rename"}, place : Place \cup {None},
              then : {"draw", "ask", "clear", "close"}]
HistoryOK == mark \in Mark \cup {None} /\ raced \in {"no", "now", "past"}
FlagsOK   == requested \in BOOLEAN /\ failed \in BOOLEAN /\ stale \in BOOLEAN
TypeOK    == ReaderOK /\ NotesOK /\ CardOK /\ TasksOK /\ HistoryOK /\ FlagsOK /\ faults \in Nat

Init ==
  /\ screen = "closed" /\ spine = 0 /\ section = None /\ nextPage = 0
  /\ jump = NoJump /\ cached = NothingKnown
  /\ layout \in Layout /\ built = [c \in Chapter |-> None] /\ notes = <<>>
  /\ main = "loop" /\ render = "idle" /\ requested = FALSE
  /\ drawn = None /\ saved = None /\ file = None /\ save = NoSave
  /\ mark = None /\ failed = FALSE /\ raced = "no" /\ stale = FALSE
  /\ faults = 0

-----------------------------------------------------------------------------
\* The rendering mutex is held by a drawing or by a save of the main task.
Unlocked == render = "idle" /\ save.step = "none"
MainFree == main = "loop" /\ (save.step = "none" \/ render = "save")
Reading  == screen = "page" /\ MainFree
AtEnd    == spine = Chapters

\* A screen is opened, or a link tapped, over a page that has been drawn.
Seen == Reading /\ Unlocked /\ ~requested
Fault    == faults < MaxFaults /\ faults' = faults + 1

Cleared(c)       == [c EXCEPT !.total = 0, !.offset = -1]
NothingCached    == cached' = Cleared(cached)
UnlockedChange   == raced' = IF render = "idle" THEN raced ELSE "now"
PageCount        == Pages(section.chapter, section.layout)

\* What the screen that is left behind leaves for the next loading of its chapter.
Release ==
  /\ section' = None
  /\ IF section = None THEN UNCHANGED <<nextPage, cached>>
     ELSE /\ nextPage' = section.page
          /\ cached' = [spine |-> spine, total |-> PageCount,
                        offset |-> IF section.page < PageCount
                                   THEN StartOf(section.page, section.layout) ELSE -1]

\* Where the owner is: the page that is loaded, or where he was before.
Here == IF section # None /\ ~AtEnd
        THEN [spine |-> section.chapter, offset |-> StartOf(section.page, section.layout)] ELSE mark

\* What is drawn is what is loaded, and it is on the card.
Settled == ~requested /\ render = "idle" /\ section # None /\ section = drawn /\ ~AtEnd

\* loadBook reads progress.bin.
Open ==
  /\ screen = "closed"
  /\ screen' = "page" /\ requested' = TRUE
  /\ IF file = None
     THEN UNCHANGED <<spine, nextPage, cached>>
     ELSE /\ spine' = file.spine /\ nextPage' = file.page
          /\ cached' = [spine |-> file.spine, total |-> file.total, offset |-> file.offset]
  /\ UNCHANGED <<section, jump, notes, card, layout, main, render, drawn, saved, save, history, faults>>

\* pageTurn: nothing is being drawn when it is asked, it waits for the mutex
\* once, and then changes the place, mostly without it.
BeginTurn ==
  /\ Reading /\ section # None /\ render = "idle"
  /\ NothingCached
  /\ main' \in {"forward", "back"}
  /\ UNCHANGED <<screen, spine, section, nextPage, jump, notes, card, layout, render, requested,
                 drawn, saved, save, history, faults>>

EndTurn ==
  /\ main' = "loop" /\ requested' = TRUE
  /\ UNCHANGED <<screen, cached, notes, card, layout, render, drawn, saved, save, failed, stale, faults>>

SetPage(p) ==
  /\ section' = [section EXCEPT !.page = p]
  /\ UnlockedChange
  /\ mark' = IF AtEnd THEN None ELSE [spine |-> spine, offset |-> StartOf(p, section.layout)]
  /\ UNCHANGED <<spine, nextPage, jump>>

\* The chapter before or after, under the mutex.
SetChapter(c, last) ==
  /\ Unlocked
  /\ spine' = c /\ section' = None /\ nextPage' = 0
  /\ jump' = [jump EXCEPT !.last = @ \/ last]
  /\ mark' = IF c = Chapters THEN None ELSE [spine |-> c, offset |-> IF last THEN Length[c] - 1 ELSE 0]
  /\ UNCHANGED raced

TurnForward ==
  /\ main = "forward" /\ section # None
  /\ \/ section.page < PageCount - 1 /\ SetPage(section.page + 1)
     \/ section.page >= PageCount - 1 /\ spine + 1 < Chapters /\ SetChapter(spine + 1, FALSE)
     \/ /\ section.page >= PageCount - 1 /\ spine + 1 >= Chapters
        /\ spine' = Chapters /\ UnlockedChange /\ mark' = None
        /\ UNCHANGED <<section, nextPage, jump>>
  /\ EndTurn

TurnBack ==
  /\ main = "back" /\ section # None
  /\ \/ section.page > 0 /\ SetPage(section.page - 1)
     \/ section.page = 0 /\ spine > 0 /\ SetChapter(spine - 1, TRUE)
     \/ section.page = 0 /\ spine = 0 /\ UNCHANGED <<spine, section, nextPage, jump, raced, mark>>
  /\ EndTurn

\* onReturnFromEndOfBook: the jump is for a chapter that has to be loaded, and
\* pending when it is still there.
ReturnFromEnd ==
  /\ Reading /\ AtEnd
  /\ spine' = Chapters - 1 /\ nextPage' = 0
  /\ jump' = [jump EXCEPT !.last = TRUE] /\ stale' = (section # None)
  /\ UnlockedChange /\ requested' = TRUE
  /\ mark' = [spine |-> Chapters - 1, offset |-> Length[Chapters - 1] - 1]
  /\ UNCHANGED <<screen, section, cached, notes, card, layout, main, render, drawn, saved, save, failed, faults>>

\* skipPages, a long press: it does not look whether a page is being drawn.
SkipBack ==
  /\ Reading /\ ~AtEnd /\ section # None
  /\ \/ section.page > 0 /\ SetPage(0)
     \/ section.page = 0 /\ spine > 0 /\ SetChapter(spine - 1, FALSE)
  /\ requested' = TRUE
  /\ UNCHANGED <<screen, cached, notes, card, layout, main, render, drawn, saved, save, failed, stale, faults>>

SkipForward ==
  /\ Reading /\ ~AtEnd /\ section # None
  /\ SetChapter(spine + 1, FALSE)
  /\ requested' = TRUE
  /\ UNCHANGED <<screen, cached, notes, card, layout, main, render, drawn, saved, save, failed, stale, faults>>

\* applyOrientation, TEXT_SETTINGS.
Relayout ==
  /\ Seen
  /\ layout' \in Layout /\ Release /\ mark' = Here
  /\ requested' = TRUE
  /\ UNCHANGED <<screen, spine, jump, notes, card, main, render, drawn, saved, save, failed, raced, stale, faults>>

\* SELECT_CHAPTER: the chapter is let go while the list is up.
OpenList ==
  /\ Seen
  /\ screen' = "list" /\ Release /\ mark' = Here
  /\ UNCHANGED <<spine, jump, notes, card, layout, main, render, requested, drawn, saved, save, failed, raced, stale, faults>>

CancelList ==
  /\ screen = "list" /\ Unlocked /\ screen' = "page" /\ requested' = TRUE
  /\ UNCHANGED <<spine, section, nextPage, jump, cached, notes, card, layout, main, render, drawn, saved, save, history, faults>>

\* A chapter is picked or a link followed: its start, or an anchor in it.
GoTo(c, anchor) ==
  /\ spine' = c /\ section' = None /\ nextPage' = 0 /\ NothingCached
  /\ jump' = [jump EXCEPT !.anchor = anchor]
  /\ mark' = [spine |-> c, offset |-> IF anchor < 0 THEN 0 ELSE anchor]
  /\ requested' = TRUE
  /\ UNCHANGED <<card, layout, main, render, drawn, saved, save, failed, raced, stale, faults>>

PickChapter ==
  /\ screen = "list" /\ Unlocked /\ screen' = "page"
  /\ \E c \in Chapter : \E anchor \in {-1} \cup 1..(Length[c] - 1) : GoTo(c, anchor)
  /\ UNCHANGED notes

\* navigateToHref.
Noted == Append(notes, [spine |-> spine, page |-> section.page, layout |-> section.layout])
\* Mutant: the depth of the stack of notes is not looked at.
FollowNoteDeeper ==
  /\ Seen /\ ~AtEnd
  /\ notes' = IF section # None THEN Noted ELSE notes
  /\ \E c \in Chapter : \E anchor \in {-1} \cup 1..(Length[c] - 1) : GoTo(c, anchor)
  /\ UNCHANGED screen
FollowNote ==
  /\ Seen /\ ~AtEnd
  /\ notes' = IF section # None /\ Len(notes) < MaxNotes THEN Noted ELSE notes
  /\ \E c \in Chapter : \E anchor \in {-1} \cup 1..(Length[c] - 1) : GoTo(c, anchor)
  /\ UNCHANGED screen

\* A link that cannot be resolved takes back a note although none was taken.
FollowDeadLink ==
  /\ Seen /\ ~AtEnd /\ notes # <<>> /\ (section = None \/ Len(notes) = MaxNotes)
  /\ notes' = Front(notes)
  /\ UNCHANGED <<screen, spine, section, nextPage, jump, cached, card, layout, tasks, history, faults>>

\* restoreSavedPosition: the number of the page in the layout it was left in.
PlaceOf(note) == IF note.layout = layout
                 THEN [spine |-> note.spine, offset |-> StartOf(note.page, layout)] ELSE None
\* Mutant: what was remembered for another layout is kept.
ReturnFromNoteKeeping ==
  /\ Seen /\ notes # <<>>
  /\ notes' = Front(notes)
  /\ spine' = Last(notes).spine /\ nextPage' = Last(notes).page
  /\ section' = None /\ UNCHANGED cached
  /\ mark' = PlaceOf(Last(notes)) /\ requested' = TRUE
  /\ UNCHANGED <<screen, jump, card, layout, main, render, drawn, saved, save, failed, raced, stale, faults>>
ReturnFromNote ==
  /\ Seen /\ notes # <<>>
  /\ notes' = Front(notes)
  /\ spine' = Last(notes).spine /\ nextPage' = Last(notes).page
  /\ section' = None /\ NothingCached
  /\ mark' = PlaceOf(Last(notes)) /\ requested' = TRUE
  /\ UNCHANGED <<screen, jump, card, layout, main, render, drawn, saved, save, failed, raced, stale, faults>>

\* A bookmark has the text offset of its page.
GoToBookmark ==
  /\ Seen
  /\ \E c \in Chapter : \E o \in 0..(Length[c] - 1) :
       /\ mark' = [spine |-> c, offset |-> o]
       /\ IF section # None /\ spine = c
          THEN section' = [section EXCEPT !.page = PageAt(o, section.layout)] /\ UNCHANGED <<spine, jump, nextPage>>
          ELSE /\ spine' = c /\ section' = None /\ nextPage' = 0
               /\ jump' = [jump EXCEPT !.offset = o]
  /\ NothingCached /\ requested' = TRUE
  /\ UNCHANGED <<screen, notes, card, layout, main, render, drawn, saved, save, failed, raced, stale, faults>>

-----------------------------------------------------------------------------
\* Saving the place, and the ways of leaving the book.

\* saveProgress: the offset is that of the page last drawn when it is the
\* current page that is saved, else it is looked up.
Record(sp, p, total) ==
  [spine |-> sp, page |-> p, total |-> total,
   offset |-> IF section = None \/ sp # spine \/ p >= PageCount THEN -1
              ELSE IF p = section.page /\ drawn # None THEN StartOf(drawn.page, drawn.layout)
              ELSE StartOf(p, section.layout)]

Save(place, then) == save' = [step |-> "write", place |-> place, then |-> then]

\* The activity and all it knows is gone; another one starts afresh.
Leave ==
  /\ screen' = "closed" /\ spine' = 0 /\ section' = None /\ nextPage' = 0
  /\ jump' = NoJump /\ cached' = NothingKnown /\ notes' = <<>>
  /\ main' = "loop" /\ render' = "idle" /\ requested' = FALSE /\ drawn' = None /\ saved' = None
  /\ save' = NoSave /\ failed' = FALSE /\ raced' = "no" /\ stale' = FALSE
  /\ UNCHANGED layout

\* The destructor: within a note it is the place the note was followed from.
SaveOrigin ==
  /\ Save(Record(notes[1].spine, notes[1].page, 0), "close")
  /\ mark' = IF section \in {None, drawn} THEN PlaceOf(notes[1]) ELSE None
  /\ UNCHANGED <<reader, layout, main, render, requested, drawn, saved, raced, stale>>

Close ==
  /\ screen # "closed" /\ main = "loop" /\ Unlocked
  /\ IF notes # <<>>
     THEN SaveOrigin /\ UNCHANGED failed
     ELSE Leave /\ mark' = IF Settled /\ ~failed /\ raced = "no" THEN Here ELSE None
  /\ UNCHANGED <<card, faults>>

\* launchAskBook, launchKOReaderSync.
LeaveForAsk ==
  /\ Seen /\ section # None
  /\ Save(Record(spine, section.page, PageCount), "ask")
  /\ mark' = IF section = drawn THEN Here ELSE None
  /\ UNCHANGED <<reader, card, layout, main, render, requested, drawn, saved, failed, raced, stale, faults>>

\* DELETE_CACHE: the section files and progress.bin go, then the place is saved.
DeleteCache ==
  /\ Seen /\ section # None
  /\ section' = None
  /\ built' = [c \in Chapter |-> None] /\ file' = None
  /\ Save([Record(spine, section.page, PageCount) EXCEPT !.offset = -1], "clear")
  /\ mark' = Here
  /\ UNCHANGED <<screen, spine, nextPage, jump, cached, notes, layout, main, render, requested, drawn, saved,
                 failed, raced, stale, faults>>

\* writeAtomic, one card operation at a time.
Goes(step) == save' = [save EXCEPT !.step = step]
Go(from, to) == save.step = from /\ Goes(to) /\ UNCHANGED <<reader, built, layout, main, render, requested, drawn, saved, history>>

WriteTmp  == Go("write", "remove") /\ UNCHANGED <<file, faults>>
RemoveOld == Go("remove", "rename") /\ file' = None /\ UNCHANGED faults
RemoveFails == Go("remove", "rename") /\ file # None /\ Fault /\ UNCHANGED file

\* What follows a save.  The render task remembers what it saved, as it is now.
AfterSave(ok) ==
  CASE save.then = "draw" ->
         /\ render' = "idle" /\ save' = NoSave /\ failed' = ~ok
         /\ saved' = IF ok THEN [spine |-> spine, page |-> section.page, total |-> PageCount] ELSE saved
         /\ raced' = IF raced = "now" \/ (~ok /\ raced = "past") THEN "past" ELSE "no"
         /\ UNCHANGED <<reader, layout, main, requested, drawn, mark, stale>>
    [] save.then = "ask" /\ ~ok ->
         /\ requested' = TRUE /\ save' = NoSave /\ failed' = TRUE
         /\ UNCHANGED <<reader, layout, main, render, drawn, saved, mark, raced, stale>>
    [] save.then = "clear" /\ notes # <<>> -> SaveOrigin /\ failed' = ~ok
    [] OTHER -> Leave /\ mark' = IF ok THEN mark ELSE None

Rename ==
  /\ save.step = "rename" /\ file = None
  /\ file' = save.place /\ AfterSave(TRUE)
  /\ UNCHANGED <<built, faults>>

\* A write that is short, or a rename that fails, as it does onto an old file.
SaveFails ==
  /\ save.step \in {"write", "rename"}
  /\ IF save.step = "rename" /\ file # None THEN UNCHANGED faults ELSE Fault
  /\ AfterSave(FALSE)
  /\ UNCHANGED <<file, built>>
-----------------------------------------------------------------------------
\* The render task: renderBook, under the mutex from Draw to the end of the save.

Smaller(m, n) == IF m < n THEN m ELSE n

\* Loading a chapter.  A section file for this layout makes what is remembered
\* of the text offset unnecessary.
Kept       == IF built[spine] = layout THEN Cleared(cached) ELSE cached
OffsetJump == IF jump.offset >= 0 THEN jump.offset
              ELSE IF jump.last \/ jump.anchor >= 0 \/ spine # cached.spine THEN -1 ELSE Kept.offset
TargetPage == LET last == Pages(spine, layout) - 1 IN
  Smaller(last, IF jump.anchor >= 0 THEN PageAt(jump.anchor, layout)
                ELSE IF OffsetJump >= 0 THEN PageAt(OffsetJump, layout)
                ELSE IF jump.last THEN last ELSE nextPage)

\* applyDeferredReposition.
Reposition(page, kept) == LET total == Pages(spine, layout) IN
  IF spine # kept.spine THEN page
  ELSE IF kept.offset >= 0 THEN Smaller(total - 1, PageAt(kept.offset, layout))
  ELSE IF kept.total > 0 /\ kept.total # total THEN Smaller(total - 1, (page * total) \div kept.total)
  ELSE page

Loaded == [chapter |-> spine, layout |-> layout,
           page |-> Reposition(TargetPage, IF OffsetJump >= 0 THEN Cleared(Kept) ELSE Kept)]

MayDraw == screen = "page" /\ requested /\ Unlocked

Draw ==
  /\ MayDraw /\ ~AtEnd
  /\ IF section = None
     THEN /\ section' = Loaded /\ built' = [built EXCEPT ![spine] = layout]
          /\ jump' = NoJump /\ cached' = Cleared(cached) /\ stale' = FALSE
     ELSE UNCHANGED <<section, built, jump, cached, stale>>
  /\ drawn' = section'
  /\ mark' = [spine |-> spine, offset |-> StartOf(drawn'.page, layout)]
  /\ render' = "draw" /\ requested' = FALSE
  /\ UNCHANGED <<screen, spine, nextPage, notes, file, layout, main, saved, save, failed, raced, faults>>

\* The suggestions after the last page.
DrawEnd ==
  /\ MayDraw /\ AtEnd
  /\ requested' = FALSE
  /\ UNCHANGED <<reader, card, layout, main, render, drawn, saved, save, history, faults>>

\* The chapter cannot be laid out, or its page not be read: it is let go, and
\* in the second case its section file with it.
CannotLoad ==
  /\ MayDraw /\ ~AtEnd /\ section = None /\ Fault
  /\ requested' = FALSE /\ mark' = None /\ stale' = (stale \/ jump # NoJump)
  /\ UNCHANGED <<reader, card, layout, main, render, drawn, saved, save, failed, raced>>
CannotRead ==
  /\ MayDraw /\ ~AtEnd /\ Fault
  /\ section' = None /\ built' = [built EXCEPT ![spine] = None]
  /\ jump' = (IF section = None THEN NoJump ELSE jump) /\ stale' = (stale /\ section # None)
  /\ cached' = Cleared(cached)
  /\ requested' \in BOOLEAN /\ mark' = None
  /\ UNCHANGED <<screen, spine, nextPage, notes, file, layout, main, render, drawn, saved, save, failed, raced>>

\* The page is on the panel; its place is saved when it is not the one saved last.
\* Mutant: the page is compared and the chapter is not.
DrawnComparingPages ==
  /\ render = "draw"
  /\ IF saved # None /\ saved.page = section.page
     THEN /\ render' = "idle" /\ raced' = (IF raced = "now" THEN "past" ELSE raced) /\ UNCHANGED save
     ELSE render' = "save" /\ Save(Record(spine, section.page, PageCount), "draw") /\ UNCHANGED raced
  /\ UNCHANGED <<reader, card, layout, main, requested, drawn, saved, mark, failed, stale, faults>>
Drawn ==
  /\ render = "draw"
  /\ IF saved = [spine |-> spine, page |-> section.page, total |-> PageCount]
     THEN /\ render' = "idle" /\ raced' = (IF raced = "now" THEN "past" ELSE raced) /\ UNCHANGED save
     ELSE render' = "save" /\ Save(Record(spine, section.page, PageCount), "draw") /\ UNCHANGED raced
  /\ UNCHANGED <<reader, card, layout, main, requested, drawn, saved, mark, failed, stale, faults>>

\* Anything that asks for the page to be drawn again.
Redraw ==
  /\ Reading /\ ~requested /\ requested' = TRUE
  /\ UNCHANGED <<reader, card, layout, main, render, drawn, saved, save, history, faults>>

\* The power goes, or the main task goes on in a chapter that was let go.
Restarted == Leave /\ mark' = None /\ UNCHANGED <<card, faults>>
PowerCut == screen # "closed" /\ Restarted
Panic    == main # "loop" /\ section = None /\ Restarted

\* The layout is changed while the book is closed.  Without an offset in the
\* file, or with one of an earlier layout, the place can only be estimated.
ChangeSettings ==
  /\ screen = "closed"
  /\ layout' \in Layout \ {layout}
  /\ mark' = IF mark # None /\ file # None /\ file.offset = mark.offset THEN mark ELSE None
  /\ UNCHANGED <<reader, card, tasks, failed, raced, stale, faults>>

Next ==
  \/ Open \/ BeginTurn \/ TurnForward \/ TurnBack \/ ReturnFromEnd \/ SkipBack \/ SkipForward
  \/ Relayout \/ OpenList \/ CancelList \/ PickChapter \/ FollowNote \/ FollowDeadLink \/ ReturnFromNote
  \/ GoToBookmark \/ Close \/ LeaveForAsk \/ DeleteCache
  \/ WriteTmp \/ RemoveOld \/ RemoveFails \/ Rename \/ SaveFails
  \/ Draw \/ DrawEnd \/ CannotLoad \/ CannotRead \/ Drawn \/ Redraw
  \/ PowerCut \/ Panic \/ ChangeSettings

Spec == Init /\ [][Next]_vars

-----------------------------------------------------------------------------
\* At rest the place on the card is the page on the panel, unless a save failed
\* or the place was changed while a page was being drawn: the owner may switch
\* off at any moment and come back to the page he saw (renderBook, saveProgress).
\* The text offset next to it is where that page begins, in this layout or in
\* another one with as many pages: nothing is saved while their number is the same.
AtRest == Reading /\ Settled /\ ~failed /\ raced = "no"
PlaceOnCard == AtRest =>
  /\ file # None /\ file.spine = drawn.chapter /\ file.page = drawn.page
  /\ file.total = Pages(drawn.chapter, drawn.layout)
  /\ \E l \in Layout : Pages(drawn.chapter, l) = file.total /\ file.offset = StartOf(drawn.page, l)

\* The page that is drawn is the one that holds the place the owner asked for,
\* or was at before the layout changed, a list was cancelled, a note was read or the
\* book was closed and opened - unless a jump is still pending that was asked for before:
\* the one to the last page after the end of the book, or one whose chapter failed to load.
ShowsTheAskedPlace ==
  [][render = "idle" /\ render' = "draw" /\ mark # None /\ ~stale
     => /\ drawn'.chapter = mark.spine
        /\ drawn'.page = PageAt(mark.offset, drawn'.layout)]_vars
=============================================================================
