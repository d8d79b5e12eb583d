# InkAgent in TLA+

InkAgent is an e-ink reader (ESP32, C++: `src/firmware/`) and a small relay server (Node.js and SQLite: `src/relay/`) that
it asks about the book being read. These modules model the parts of both in which several tasks, two machines, a card that
fails and a device that restarts at any moment meet. TLC checks them on small instances, and TLAPS proves their central
safety properties for every value of the constants. Paths below are under `src/`; `FW` stands for `firmware/src`.

    tlc -workers 2 -config AppSync_core.cfg MCAppSync     # any row of the run table
    tlapm AppSyncProofs.tla                               # any *Proofs module; ReaderProofs takes some six minutes

## 1. Inventory

### The system's parts

| part | source | state it keeps | operations | modelled |
|---|---|---|---|---|
| App sync | `FW/network/InkAgentClient.cpp` 286-416, `relay/src/routes/device.js` 139-153, `dashboard.js` 735-762 | the relay's `apps` rows; on the card `relay-<id>.json` and the version file | save, delete, index, fetch one, clear, write, record | AppSync |
| Relay task and foreground relay calls | `FW/network/RelayTask.*`, `InkAgentClient.cpp` 38-131, the Ask, picker, settings and reader activities | job queue, recursive `relayMutex`, `ownedWifi`, the station, heap, throttle | submit, receive, wait for heap, take, raise Wi-Fi, request, drop Wi-Fi, release | RelayTask |
| Pairing | `device.js` 22-67, `dashboard.js` 644-669 and 720-722, `FW/activities/settings/InkAgentPairActivity.cpp`, `firmware/lib/InkAgent/InkAgentProtocol.cpp` 437-474 | `pairings` and `devices` rows, the in-memory `pendingToken` map, the reader's token | start, poll, claim, revoke, expire, unpair, restart of either end | Pairing |
| Activity manager and render task | `FW/activities/ActivityManager.*`, `Activity.cpp`, `FW/main.cpp` 259-299 | activity stack, pending action, result handlers, `renderingMutex`, task notifications | push, pop, replace, goHome, goToSleep, requestUpdate, requestUpdateAndWait, render | Screens |
| Engage cache and sleep screen | `InkAgentClient.cpp` 203-292, `FW/activities/boot_sleep/SleepActivity.cpp` 1090-1118 | the cached question, the stamp naming its book, `openEpubPath` | engage from two tasks, drop unless for, show | QuestionCache |
| Ask and Engage on the relay | `relay/src/agent.js`, `engage.js`, `trim.js`, `manifest.js`, `providers/` | none between requests | prompt, provider call, trim to budget, validate | no (planned as operators) |
| Dashboard accounts | `relay/src/password.js`, `webauthn.js`, `http.js`, `dashboard.js` | sessions, passkeys, login throttle | sign up, log in, passkey ceremonies | no (planned) |
| App catalogue and manifest screens | `FW/engage/*` | the list read off the card | load, render | no: parsing and layout. Its cap is a constant of AppSync |
| Reading statistics and pace | `FW/ReadingStats.h`, `ReadingStatsStore.cpp`, `EpubReaderActivity.cpp` 1599-1612, `ReadingPace.h` | day log, totals, list of books, the counters of a sitting | flush a piece, record, load, save | ReadingStats; the pace baseline is not |
| Word list | `FW/WordSchedule.h`, `WordListStore.cpp`, `FW/activities/words/WordListActivity.cpp` | words, boxes, due days, the review queue | look up, review, grade, remove | WordList |
| Progress and bookmarks | `FW/activities/reader/EpubReaderActivity.cpp`, `ProgressFile.h`, `EpubReaderUtils.h`, `FW/util/BookmarkFile.cpp` | spine index, section and page, pending jumps, saved notes, `progress.bin` and its temporary twin | turn, skip, jump, follow, lay out anew, load, draw, save, leave | ReadingPlace; the bookmark file is not |
| Firmware update | `FW/activities/settings/SdFirmwareUpdateActivity.cpp`, `OtaUpdateActivity.cpp`, `FW/network/FirmwareFlasher.cpp`, `OtaBootSwitch.cpp`, `OtaUpdater.cpp` | two app partitions, two otadata entries | pick, validate, confirm, flash, stream, switch, restart | FirmwareUpdate |
| Card storage and settings | `firmware/lib/hal/HalStorage.cpp`, `Serialization/PersistableStore.*`, `InkAgentSettings.cpp`, `InkAgentState.cpp` | the storage mutex, settings files | load, save, resave | as part of WordList, ReadingStats and ReadingPlace. Pairing takes a save of the token as one step |
| EPUB sections, rendering, fonts, decoders | `firmware/lib/Epub`, `GfxRenderer`, `ZipFile`, ... | caches derived from the book | layout, draw, decompress | no: data transformation, out of TLC's reach |
| Web server and WebDAV | `FW/network/InkAgentWebServer.cpp`, `WebDAVHandler.cpp`, `FW/util/BookCacheUtils.cpp` | the upload slot, the request under way, book files and the caches made of them | upload (HTTP, WebSocket), put, move, copy, rename, delete, clear cache, start, stop | Transfers |
| OPDS, Calibre, KOReader sync | `FW/network/HttpDownloader.cpp`, `firmware/lib/CalibreWireless`, `KOReaderSync` | one transfer at a time | third-party protocols | no |
| Input mapping, themes | `FW/MappedInputManager.cpp`, `FW/components/` | buttons, layout | - | no |
| Simulator, evaluations | `device-sim/`, `evals/` | - | - | no: development tools |

### How they interact

* The **main task** runs `ActivityManager::loop()`. The activity it calls may block in a relay request, change what is
  drawn, navigate, or submit a job. It shares `renderingMutex`, the notifications and `currentActivity` with the **render
  task**, and `relayMutex`, the radio, the heap and the card with the **relay task**.
* The **relay** answers requests one at a time but keeps no lock between them: an owner at the dashboard changes rows
  between any two requests of a reader. The plaintext token of a claimed pairing lives in a `Map` of the process; everything
  else is in SQLite and survives its restart.
* The **reader** is where most of these meet: leaving a book queues a recall (RelayTask, QuestionCache), writes statistics
  (ReadingStats) and saves the place (ReadingPlace), between two calls of the activity manager (Screens).
* The **web server** runs in the main loop of the File Transfer activity: one request or one WebSocket message at a time.
* `request()` sends a second time when it got no answer, so the relay can see a request twice. A reader that leaves a Wi-Fi
  screen restarts itself on boards with buttons (`silentRestart`), so a "power cut" between two steps is an everyday event.

### What is hard, and what makes each part correct

* **App sync** has no transaction: old manifests are removed first, new ones arrive one by one while the set changes, and
  a stamp is written last. Correct means: a stamp on the card never promises more than the card holds, and a reader that
  tries again gets there.
* **Relay task**: two tasks, one heap, one radio, nested takes of one mutex, each wait with its own deadline. Correct
  means: at most one TLS session, nobody loses the radio under a request, the mutex is balanced on every exit, and every
  job and call ends.
* **Pairing**: a one-time secret crosses a lossy link with retries, and both ends can restart. Correct means: a token
  exists in one place, is never handed over twice, and no reader believes it is paired when the relay does not know it.
* **Screens**: drawing takes as long as the panel does, while the main task goes on to delete and swap activities. Correct means: the activity drawn is alive and
  current, results reach the handler registered for them, no update is lost, and neither task waits for the other forever.
* **Firmware update** replaces the program that is running, over minutes, from a card that can be pulled or a network that
  can go, with a power switch in reach. Correct means: whatever is interrupted, a reset finds a whole image that is not marked as another board's,
  and it is the one the owner was told would start.
* **Progress**: the same place has another page number in another layout, several kinds of jump can be pending, and a save
  takes three card operations. Correct means: the page on the panel is the one asked for, and the one that is on the card.
* **Question cache**: two writers, a reader that drops what is stale, and a stamp in a file of its own. Correct means: a question on the
  sleep screen is about the open book, and is whole.
* **Transfers** work on paths, while uploads last over many messages. Correct means: no whole book is lost by accident, no cache is
  used for another book, and the only upload slot comes free.
* **Word list and statistics** live off a clock that can stop or jump and a file written as a whole. Correct means: nothing is graded
  or counted twice, and a restart finds what was there.

`PROJECT.json` lists the hazards one by one, at the line where they bite, with the properties that would catch them.
Hazards no property covers, kept here instead: two syncs that interleave (`InkAgentClient.cpp:392`; the properties have one) and removes that
fail unnoticed (`321`, `stuck`); jobs dropped from a full queue (`171`) and an Ask behind a
long job (`AskBookActivity.cpp:102`); a null activity (`AppDrawerActivity.cpp:307`), a pending `SleepActivity` that is replaced
(`ActivityManager.cpp:289`) and an `onEnter` outside the lock (`190`), of which one bit of screen state shows nothing; two otadata entries that name one partition
(`OtaBootSwitch.cpp:69`), where the code promises nothing; and settings overwritten in place (`InkAgentStore.cpp:1`).

## 2. The modules

| module | what it is |
|---|---|
| `AppSync` | dashboard, card and `syncApps()` with any number of syncing tasks |
| `RelayTask` | `taskLoop`, the mutex, the radio, and the screens that use the relay in the foreground |
| `Pairing` | relay, owner, wire and pairing screen |
| `OneTimeToken` | what pairing promises: a token is made once, handed over once, kept or lost. `Pairing` implements it |
| `Screens` | `ActivityManager::loop()`, what activities may call, and the render task |
| `FirmwareUpdate` | both ways of updating, the flash, and the boot loader they rely on |
| `ReadingPlace` | the reader: its place in the book, both tasks, and `progress.bin` |
| `QuestionCache` | `engage()` in two tasks, `dropEngageCacheUnlessFor` and the sleep screen |
| `Transfers` | uploads and file requests over Wi-Fi, and the caches of the books |
| `WordList` | the store of words, its schedule and the review |
| `ReadingStats` | a sitting with a book and what is recorded of it |
| `RelayProofs` | inductive invariants and theorems of `RelayTask` and `Pairing` |
| `ReaderProofs` | those of `ReadingPlace` and `WordList`. Two modules that are proved about together share no name, hence the prefixes of `Pairing` and `WordList` |
| other `*Proofs` | those of the module each of them extends |
| `MC*` | the module TLC runs for a core configuration. `MCAppSync` extends the proofs, so that TLC also evaluates their assumption |

**AppSync.** `apps` is the relay's table, `card` and `synced` the reader's files; a manifest is its revision and the second
it was saved in. `sync[s]` holds the local variables of a running `syncApps()`: the stamp and ids of its index, the
files `clearRelayApps()` has listed (`doomed`), the manifest in memory, and `out.failed`. `StartSync`, `ListFolder`,
`RemoveFile`, `FetchManifest`, `WriteManifest`, `FinishFetching` and `RecordVersion` are the function in order; `RemoveFails`,
`FetchFails`, `WriteFails`, `RecordFails` and `PowerLoss` are what can go wrong at each, drawn from one budget of faults.
The stamp is the map the hash is computed over: its 16 hex digits are taken to be free of collisions. `stuck` and `intact`
are history variables that say which files a failed `remove` left, and whether a sync has begun to remove since the stamp was written.

**RelayTask.** `bg` is the program counter of `taskLoop`, `ui` that of the screen shown. Every timed wait is two actions,
one that gets what it waits for and one that gives up while it is missing. `boot` is what `begin()` could create, of queue, mutex
and task: without a mutex `acquireRelay` succeeds at once (`RelayTask.cpp:235`), and `enqueue` looks at the queue alone (167). `board` separates
boards that restart after Wi-Fi from those that only stop it. What a request carries is left to the other modules.

**Pairing.** `status`, `kept` and `devices` are the relay's rows and map, `screen`, `code` and `token` the reader,
`call`, `sends` and `reply` the request under way. `LoseAndRetry` loses the request or the answer, and after an answer that
is lost the relay has already acted. A pairing makes at most one token, so tokens are named by the code they were made for.
`OneTimeToken` is the abstract specification: each token has a place and moves along unmade, waiting, handed, kept, or is
lost for good. `Pairing` says where a token is by its own variables (`Place`), and `KeepsItsPromise` that each of its
steps, retries and restarts included, is one move of one token, or several tokens lost at once, or none.

**Screens.** `main` and `render` are the two program counters, `nav` is what the manager keeps, and `run` is a place in
which activity code may do up to `MaxCalls` things: change its state, request updates, navigate, push (with a handler or
none), finish. The handler of a `Frame` is named by the activity it was registered for, which is what lets a property
say that a result reached the wrong one. `dirty` is one bit of screen state, and `bare` says that it was last changed without the `RenderLock`. A critical section of the main task that
neither draws nor waits is one step, because only the render task contends for the mutex.

**FirmwareUpdate.** `part` is what the two app partitions hold, as an image and how many of its blocks; a partition with a
mixture is one that holds fewer than all. `slots` are the two otadata entries, and `at` is the state of whichever activity
is shown, with the steps of its blocking call. `Check` and `Recheck` are the two validations of `SdFirmwareUpdateActivity`, with
`SwapCard` between them; `EraseBlock` and `CopyBlock` are the loop of `flashFromSdPath`; `BeginImage`, `Receive`, `WrongBoard` and
`EndImage` are `installUpdate`; `EraseEntry` and `WriteEntry` are `switchTo` (and `esp_ota_set_boot_partition`, which does
the same). `Boots` is the boot loader, external: the partition of the active entry if the image there passes its check,
else the other one. A boot loader cannot tell one board's image from another's, so `Alien` images pass it. Nor can the code, unless the image says which: an `Alien` is of another
chip or names another board in its tag, an `Untagged` one names none, may be for any board of the chip, and passes like a `Good` one (`FirmwareBoardTag.h:14-16`). What
such a firmware does is its own affair; the model follows it until it comes up (`OtherComesUp`). `MarkValid` and
`FailsToComeUp` are the rollback. `due` is a history variable: the partitions a reset may start, given what the owner was
told. After "update complete" it is the new one only, and a later update that overwrites the new one makes it both.

**ReadingPlace.** A chapter is a text of `Length` offsets, a layout the number of them on a page, so that "the same place" has a meaning
across layouts. `section` is the loaded chapter with its `currentPage`; `nextPage`, `jump` and `cached` are the variables that say where the
next loading has to go, and `TargetPage` and `Reposition` are how `renderBook` decides between them. `render` holds the mutex
from `Draw` to the end of its save, and `main` is inside `pageTurn` while it waits for it; `SkipBack` does not look. `save` is
`writeAtomic`, one card operation at a time, and what follows it. `mark` is a history variable: the place the owner asked for. It is
forgotten where the code only estimates (a layout change without an offset) or where the save failed. `raced`, `failed` and `stale` say when
the two properties do not apply, and each is reset by the next drawing or save that is sound. `PlaceOnCard` asks for the chapter, page and page count
on the panel, and for the offset of that page in a layout with that many pages: no more, as `progress.bin` is not written when these three are what was
saved last (see below).

**QuestionCache.** `task` and `ask` are two calls of `engage()`, and the one set of steps `EngageStep` serves both. `open` is `openEpubPath`, `kept` what the
next boot finds of it. `night` walks through `dropEngageCacheUnlessFor` and the reading of the cache, one card operation at a time. `strayed`
is history: an answer was written while another book was open, or a question went unstamped. It is what `ShowsItsBook` has to except.

**Transfers.** `file` is what each path holds, and whether all of it; `cache` the book whose reading cache is found by that path. `ws` is
the only upload slot, and its `orphan` says that the open file is no longer the one at its path. `http` is the request under way:
it has the task to itself, so between two requests come the messages of `onWebSocketEvent` and nothing else. `tainted` is history: the paths whose cache was left by
what replaced their file, so that `CacheOfItsFile` says there are no others.

**WordList.** `words` and `listFile` are the store and its file. A review has the day and the names it was opened with (`Queues`: words of one day come in any
order, as `std::sort` is not stable). `Cut` is the forty bytes that are kept of a headword.
`SaveList` may leave the old file or a torn one; its result is not looked at by the code either. `InBox` puts an entry into a box, for `wordsched::next` as for `add`.

**ReadingStats.** `sitting` holds the counters of the reader, `store` and `card` the statistics. `AddMinutes` is `DayLog::add` with its ring and any day of
any clock, `Entered` the list of books with its eviction, `Piece` is `recordSession`. `recorded`, `read`, `sat`, `lost` and `missed` are history: what really was read, so that the store
can be compared with it. How long a piece took is any number of minutes.

Definitions marked `Mutant` in the modules are not part of any specification. Each is a plausible wrong version of the
definition after it, kept so that one can see which property depends on that line of the code.

## 3. What is checked

| run | question | bounds | states | result |
|---|---|---|---|---|
| `appsync_core` | is what the version file says about the card true, does every sync return, and does an owner who presses "Sync apps" again end with the relay's manifests? | 3 apps, a catalogue of 2, 3 saves, 2 seconds (so two saves may share one), 1 deletion, 2 faults | 433 thousand | holds |
| `relay_core` | is the mutex balanced, is there one TLS session, does a request keep its radio, does everything end? | queue of 2, 3 jobs, 2 heap checks, 1 manifest, 1 lost link, both boards, every outcome of `begin()` | 362 thousand | holds |
| `pairing_core` | is a token in one place and handed over once, is a paired reader listed, is `OneTimeToken` implemented, does the screen end? | 3 codes, restarts of both ends | 429 thousand | holds |
| `screens_core` | is the drawn activity current, are results matched, are waits and updates served, does `loop()` return? | 3 activities, 2 calls per iteration, changes with and without the lock, null pushes, deep sleep | 157 thousand | holds |
| `firmware_core` | does a reset at any step find a whole image that names no other board, and start what the owner was told, and does an update end? | 1 good, 1 alien, 1 untagged and 1 broken image, 2 blocks, 3 updates, 2 faults, touch board, rollback | 549 thousand | holds |
| `reading_core` | is the page on the panel the one asked for, and the one on the card? | chapters of 2 and 3 offsets, pages of 3 and 2, 1 note, 1 fault | 3.1 million | holds |
| `question_core` | is a question on the sleep screen about the open book, and whole? | 2 books, queue of 2, 1 fault | 31 thousand | holds |
| `question_stamp` | is a question stamped with the book it is about? | the same, no fault | - | violated |
| `transfers_core` | does every cache belong to its file, the slot to its client, and is no whole book lost? | 2 paths, 2 books, 2 clients, 2 messages, 1 fault | 20 thousand | holds |
| `transfers_stale` | is a stale cache never reused? | the same, no fault | - | violated |
| `words_core` | does a review offer what is due and nothing twice, is a word learned no sooner than its lags, does a restart keep the list? | 3 headwords, one cut to another, a list of 2, lags of 1 and 2 days, 3 days and no clock, 1 fault | 3.9 million | holds |
| `stats_core` | is every page counted once, every minute on its day, and the open book kept? | 3 books for 2 places, a ring of 3 days, 5 days and no clock, 4 turns, pieces of 2, 1 fault | 1.3 million | holds |

**Bounds.** Three apps against a catalogue of two is the least that has an app beyond the cap and two to fetch before and
after each other. Three saves let an app be edited before, during and after the sync that fetched it. Three jobs
overflow a queue of two with one running. Three codes let a third pairing begin while an answer to the first is stale.
Three activities give a stack of two with a third to replace or push; two calls per iteration are a change and
a navigation, or two of either. MaxCalls bounds each iteration, not the run, the stack is as deep as there are activities, and the theorems hold for any of both.
Three updates use both entries, wrap around to the first, and can follow each other without a restart, which is why the run
has a touch board: a board with buttons restarts where this one may, and every restart is a `PowerLoss` here too. Two blocks are
the least with a partition that is neither empty nor whole. Resets are not bounded.
A chapter of three offsets has one page in one layout and two in the other, next to one of two that has a single page in both:
first, last and only pages, and a place whose page number and page count change. A page that keeps its number and count and only begins at another
offset needs a chapter of four, and eleven million states; there the run leaves it to the theorems `PlaceIsOnCard` and `ShowsWhatIsAsked`, which hold for every length. Two books are what a question can be confused between, two paths what a book can
be moved between, two clients what a slot can be contended by. Five days around a ring of three make one lap and a half; lags of 1 and 2 days in
three days let a word pass a box and just not be learned, then learned. Three books for two places evict one.

**Deadlock** is checked in `relay_core`, `firmware_core` and the runs of the last five modules. The other systems may really stop: the edits of an app, the codes of a relay
are bounded, and a device asleep does nothing.

**Fairness.** `AppSync`: a running sync goes on, since every request and card call returns; that the owner presses
"Sync apps" again is no fairness but the hypothesis `Insisting` of `CardCatchesUp`, the only property that needs it. `RelayTask`: weak fairness of `BgStep` and `UiCall`, as
FreeRTOS schedules both tasks and all waits have deadlines; the owner, the heap and the network owe nothing.
`FirmwareUpdate`: a blocking call goes on, as flash, card and HTTP client return with an answer; the owner, the power and the
boot loader owe nothing. `Pairing`: every exchange ends, the main loop polls and time passes; the network may lose
everything. `Screens`: weak fairness for the main task and for the render task, and strong fairness for the steps that take the mutex. It is let go again and again,
and FreeRTOS hands a mutex to the highest-priority waiter; the render task's chance is the delay at the end of the main
loop.

The last five modules state no liveness: what they do is asked for by an owner, a client or the clock, none of which owes anything.

### Where the code and its comments disagree

* **`transfers_stale`**, a run of its own: "When EPUB files are overwritten, moved, renamed, or deleted through the web server, the matching book cache is cleared so
  stale metadata is not reused." (`firmware/docs/webserver.md:110-112`). WebDAV `COPY` clears no cache and `MOVE` only that of the path the book leaves
  (`WebDAVHandler.cpp:536-547`, `616`): put over a book that was read, either one is opened with the old book's metadata and place.

* **`question_stamp`**: "Record which book the question is about, so it can be dropped when the reader moves on" (`InkAgentClient.cpp:259-260`). The background task
  answers for the book that was left and stamps its question with the book that is open by then (264). After "leave one book, open another" the question about the first is
  shown on the sleep screen of the second, against `SleepActivity.cpp:1091-1093`. `ShowsItsBook` says what holds apart from that.

The following were seen while modelling and are not kept as runs. The models reach those of the first list; the properties named are stated so as to except them.

* *App sync.* "A partial sync must retry next time rather than believing it is up to date." (`InkAgentClient.cpp:405-406`): the old stamp
  stays in place while files are removed, and an app added and deleted again around a failed sync brings that stamp back. "The version is only recorded
  when everything landed." holds for one syncing task; a foreground and a background sync can interleave, as the mutex is held per request.
  The property and theorems of AppSync therefore have one syncing task.
* *Relay task.* Wi-Fi is "taken back down only if this task was the one that raised it." (`RelayTask.h:24-25`): `ownedWifi` is not reset when the picker
  begins another connection while the task is joining. An app sync "falls through to the blocking path only when the task never started"
  (`InkAgentSettingsActivity.cpp:95-97`): when `begin()` made the queue but not the mutex or the task (`RelayTask.cpp:190-201`), `submitAppSync` accepts the job, the screen says it is
  queued, and nobody receives it. `RelaySettles` is therefore about a task that was started. The converse fails too: the path also blocks when the queue is full or background fetch is off.
* *Pairing.* "It finishes on its own within a few seconds - you can put it down." (`dashboard.js:662`): when the answer with the token is lost, the retry
  is told "denied" (`device.js:61`).
* *Screens.* 'Paint "syncing" before blocking' (`InkAgentSettingsActivity.cpp:104-107`): the status is assigned without the lock, and a drawing that began
  earlier wakes the wait. `WaitShowsTheChange` says what is left of the promise in that case: the drawing that shows the change has been asked for or waits for the lock. "Important: sleep screen must be rendered immediately"
  (`ActivityManager.cpp:290`): a gesture, a swallowed release or the outgoing activity's own navigation takes the place of the pending `SleepActivity`.
* *Reading place.* `progress.bin` is saved when the chapter, page or page count differs from what was saved last (`EpubReaderActivity.cpp:1495-1502`). A layout in which
  the page has the same number, and the chapter as many pages, but which begins the page at another offset, is therefore not saved: the file keeps the text offset of the old
  layout, which the next opening resumes from (`PlaceOnCard` allows it, `ShowsTheAskedPlace` starts from what the file says). After turning past the end and back (`EpubReaderActivity.cpp:1189-1195`) the jump to the last page stays pending when the
  chapter is still loaded; a skip to its first page, the chapter list and a cancel then end at the last page, where the comment says the position is kept (`786-787`).
  `stale` excepts it. An unreadable page goes back to an old `nextPageNumber`. After a failed save the place saved last may be the
  current one, so it is not saved again. At the deepest note an unresolved link drops a note that was never pushed (`2681-2685`, `FollowDeadLink`).
  Leaving for Ask or KOReader sync inside a note saves the page of the note. A rename that fails after the remove leaves no progress file while the temporary one is whole and
  never read. `pageTurn` waits for the mutex and then goes on in a section the render task may have let go (`Panic`).
* *Question cache.* The stamp is checked before the cache is read, so a question written in between is shown unchecked.
  A path of more than 255 bytes never matches its stamp, so its questions are dropped.
* *Transfers.* "Existing files with the same name are overwritten by uploads" (`firmware/docs/webserver.md:110`): both uploads refuse them. A write that fails
  in an HTTP upload leaves the part that was written. A WebDAV `PUT` removes the original before the rename, and when that fails the temporary file
  as well, against "Write to a temp file to avoid destroying the original on failed upload" (`WebDAVHandler.cpp:79`). `abortWsUpload` removes whatever is at its path.
  `COPY` takes a read error for the end of the file.
* *Word list.* A headword of more than 40 bytes is compared whole and kept cut, so looking it up again adds it again; a
  grade by name then meets the first copy. `Plain` excepts such words. After a first read that failed, the empty list is written over the file at the next change.
* *Statistics.* Each piece is rounded, and to one minute at least; the cap of a session is not reached, as pieces end after eight pages of five minutes at most. After a day far in
  the future, minutes of the right day are dropped until the window catches up (`ReadingStats.h:53`). The screen of
  the statistics, opened from a book, lacks up to seven pages.

Smaller ones: the peer transfer entry of the drawer pushes an unchecked allocation, and `while
(pendingAction != None)` never ends on it (`AppDrawerActivity.cpp:307`, `ActivityManager.cpp:122`; `ChangesAreDrawn` and
`LoopReturns` allow that state, `Stuck`, as an end); `OtaBootSwitch.h:10-12` says that both update paths bypass the runtime image
check, but the network path calls `esp_ota_end` and `esp_ota_set_boot_partition` (`OtaUpdater.cpp:229-235`); two updates
without a restart in between leave both otadata entries naming one partition, so a rollback would start the same image
again; an edit saved in the same second as the last one changes no stamp
(`device.js:152`, against "saved. Your readers pick it up on the next sync."; `UnchangedMeansSameSecond` states what does hold);
`RelayTask::busy()` is meant to keep an Ask from queuing behind a fetch (`RelayTask.h:41-42`) and is never called; heap
is checked before up to 50 s of waiting and not again (`RelayTask.h:19-20`); a
relay restart between claim and poll consumes the pairing without handing out its token (`device.js:26`);
and the branch that "should never happen" in `pushActivity` and `popActivity` is reached by any code that navigates twice
in one iteration (`ActivityManager.cpp:320`, `330`).

## 4. What is proved

All theorems are proved without trusted steps. Type correctness (`TypeCorrect`, `TaskTypeCorrect`, `PairingTypeCorrect`, `WordsTypeCorrect`) is a theorem about every module; the runs
of six of them spend their time on the other properties and leave `TypeOK` to it. Constants are arbitrary within the `ASSUME` of each module, and the bounds are
only guards, so a theorem covers any number of apps, jobs, codes, activities and any depth of the stack.

* **`AppSyncProofs`** (assumes `OneSyncer`: at most one task syncs at a time). `StampDescribesCard` is not inductive: one has to
  know what each place inside a running sync has already achieved. `Progress` says it - while removing, what is no longer
  doomed is gone; while fetching, an app of the index is still to come, has failed, or is whole on the card and no older than the stamp -
  and `RelayInv`, `CardInv` and `StampInv` say that time only moves forward, so that a manifest fetched later is never
  older. From `IInv` follow `StampIsHonest`, `UnchangedIsHonest` and, as an action property, `RecordIsHonest`.
* **`RelayProofs`**, RelayTask. `LockInv` ties the holder and depth of the mutex to both program counters, and is inductive
  with `CallInv`. `OneSession` follows at once; `RadioStays` because whoever takes the station down either holds the mutex or is the main task outside a request.
* **`RelayProofs`**, Pairing. `Provenance` follows a token's row through its stages; with it `TokenInOnePlace` is inductive, and
  `HandedOnce` follows since a token handed out has a consumed row and has left the map.
  `ImplementsPromise` shows the refinement: with `Provenance` every step maps to a step of `OneTimeToken` or a stutter.
* **`FirmwareUpdateProofs`**. The running partition is sound and never written, and no image of another chip or that names another board is ever completed
  (`AliensStayShort`; what is copied or switched to has passed, `CopiesPassing`), so whatever the active entry names, the boot loader ends at something sound: `AlwaysBoots`. For
  `BootsWhatWasSaid` the lemmas on the two entries are needed: erasing the other slot does not change which entry is active,
  the number that is written is above the active one, and numbers alternate between the partitions. `EntryReady` carries
  them over the step between the erase and the write, where the power may fail.
* **`ScreensProofs`**. `LockHeld` and `HasCurrent` give `DrawsALiveActivity`. `HandlersMatch` is the shape of the stack: every
  registered handler waits for the activity right above it. `WaitInv` says that a drawing which may wake the waiter has begun after the
  change or the change was made without the lock, and that then the next drawing is on its way.
* **`QuestionCacheProofs`**. `WritersAgree` says what each step of a writer has put on the card: before the last one, the cache or its stamp vouch for nothing.
  `CacheAgrees` says that a whole question under the stamp of the open book is about it, and `NightAgrees` carries what
  the sleep screen has read of the stamp over the steps until the cache is read. Half questions: a part is on the card only with its writer in step `opened`.
* **`TransfersProofs`**. The request under way says what is at its paths (a `put` between its remove and its rename has none), which makes `CacheOfItsFile`
  inductive between requests; the slot is followed through every message; and an upload that is not an orphan still has
  its part at its path, which is why nothing whole is lost by `Abort`.
* **`ReadingStatsProofs`**. The ring: two days of a window shorter than the ring never share a slot (a lemma on remainders), clearing `Skipped` clears the slots
  of the days that were skipped and no other, so each slot is that of the one day `Ideal` names. The counting: the invariant relates pages and sittings in
  the store, on the card and in the reader's counters with what was read, as inequalities with a card that fails (`Bounded`) and
  as equations without (`FaultlessInv`). `RoomInv` keeps the list within its bound by the cardinality of a set with one element exchanged.
* **`ReaderProofs`**, ReadingPlace. Everything rests on three facts about laying out: the page that holds the start of a page is that page (`PageOfStart`), an offset of a
  chapter is on one of its pages (`PageBound`), and a page of a chapter begins in it (`StartBound`), which are lemmas on division. `PlaceIsOnCard` has the invariant `CardInv`: `Locks` says who holds the
  mutex, `SectionCurrent` that the loaded chapter is the one the place is in, `DrawingCurrent` that a drawing which nobody raced draws and saves what is loaded, and
  `DrawnIsSaved` and `SavedIsOnCard` follow the record through `saved`, the temporary file and the two renamings. `ShowsWhatIsAsked` is an action property: the drawing shows `mark`.
  It needs to know, before the drawing, that whatever decides where the next loading goes leads to `mark`: `Asked` says so of the loaded section, the pending jump, the
  remembered layout (`cached`) and `nextPage`, in the order in which `renderBook` looks at them; `Closed` says it of `progress.bin` while the book is closed, and `SaveLeads` of the record
  a save on the way out is about to write; `Listing` and `NotesInBook` of what a cancelled list or a note goes back to. `Jumps` is why `stale` has to be excepted.
* **`ReaderProofs`**, WordList. `WordsInv`: a list has one entry of every word that nothing else is cut to (`OneOfEach`), what is in memory is on the card until the card fails
  (`FileKept`), a review has left what is due, each word once (`QueueLeft`), and every word has had the lags of the boxes before its own and is not due before that of its own is over
  (`LagsKept`). The four hold each other up: grading the first copy of a word is grading the only one, so it leaves both what is due and what is left; that the word graded was due is what
  makes its next box earned; and a review's day is never after today, since the clock did not run back. `RestartKeeps` is `FileKept` at a restart.

Some of this is induction over data after all: that the lags of the boxes add up (`Lags`), and that the first place of a list with some property exists (`Least`), are proved
by the least counterexample, from the well-foundedness of the naturals. The library's induction theorems themselves are out of reach, as they take an operator.

**Only model-checked**: the liveness properties (`SyncReturns`, `CardCatchesUp`, `RelaySettles`, `CallReturns`, `PairingEnds`,
`ChangesAreDrawn`, `LoopReturns`, `UpdateEnds`), as liveness under fairness is out of the prover's reach. Every invariant and every action property of a passing run is a theorem.

## 5. Limits

* A hash is free of collisions; a save of the pairing is atomic; a relay request is one step on the relay (Node runs a
  handler's synchronous part without interruption, and these handlers have no `await` inside after the body is read).
* In FirmwareUpdate a file is read whole or a step fails: a card exchanged in the middle of the copy is a failed read. The
  release on the network is not compared with the running version, and sequence numbers do not reach 2^32.
* The Wi-Fi picker is modelled by what it does to the station, not by its lists and keyboards.
* `screens_core` leaves out the exclusive-storage mode of USB transfers and screen polarity.
* Images that name no board are let through by the code, on purpose; that a reset finds something that runs on this board is shown only for images that name theirs. Reading the
  device's own chip id is taken to work (`FirmwareFlasher.cpp:149` skips the comparison when it fails).
* ReadingPlace lays a chapter out at once; the code may show its first pages while the rest is being laid out. Jumps by percent, automatic turning and the
  text reference at which a new book opens are left out; screens and links are opened over a page that has been drawn.
* QuestionCache leaves out the move of a finished book to the Read folder, which changes its path and so orphans its question, and treats `openEpubPath`, a
  `std::string` both tasks use without a lock, as one that is read in a step.
* Transfers has no folders, and a name is a path. WordList and ReadingStats hold words and books as names; the review screen shows one word at a time, and
  a word is looked up only in the reader, never during a review. Minutes of a piece are any number, so the timing of page turns is not checked.

## Not modelled, and why

Most of the repository's lines are data: glyph tables, hyphenation tries, translations, web pages and vendored parsers. Of the code,
EPUB parsing, layout, rendering and decoders transform data with little control beyond the caches they leave (whose
coming and going is in ReadingPlace and Transfers). `trimToBudget`, `validateManifest` and the prompts of the relay
are string functions whose correctness is about characters. Login, passkeys and sessions of the dashboard rest on time and cryptography in one process
without concurrency between a request's reads and writes, except the login throttle, which is a counter in memory. OPDS, Calibre and KOReader
sync are blocking calls of one activity. Themes, buttons and layout have no state worth a model. The simulator and the
evaluations are development tools.

What a next step would add: laying out a chapter incrementally next to ReadingPlace; one store that two tasks save
(`storeMutex`); the move of a finished book, with its two renames, next to QuestionCache; and abstract specifications for
AppSync and ReadingPlace, as OneTimeToken is for Pairing.
