------------------------------ MODULE RelayTask ------------------------------
(***************************************************************************)
(* Relay traffic on the reader: the background task and the screens that   *)
(* use the relay in the foreground (firmware/src/network/RelayTask.cpp).   *)
(*                                                                         *)
(* Two FreeRTOS tasks share one radio, one heap and one recursive mutex.   *)
(* "bg" is RelayTask: it takes a job off a queue of two, waits for heap,   *)
(* takes the mutex for the whole job, brings Wi-Fi up if it is down, runs  *)
(* the job's requests, and drops the Wi-Fi it raised.  "ui" is the main    *)
(* loop with the screen it shows: the reader (which queues a question when *)
(* it is left), Ask, the Wi-Fi picker and the relay settings.  Every       *)
(* request takes the mutex again (InkAgentClient.cpp, request).            *)
(*                                                                         *)
(* A timed wait may give up whenever what it waits for is still missing;   *)
(* what a request brings back is left to AppSync and Pairing.              *)
(***************************************************************************)
EXTENDS Naturals, Sequences

CONSTANTS Boards,       \* "touch" boards stop Wi-Fi where "button" boards restart
          QueueCap,     \* xQueueCreate(2, ...)
          HeapTries,    \* kHeapWaitAttempts
          MaxIds,       \* bound: manifests one app sync fetches
          MaxJobs,      \* bound: jobs submitted
          MaxLosses     \* bound: times the link is lost

ASSUME RelayTaskAssumption ==
  /\ Boards \subseteq {"button", "touch"}
  /\ QueueCap \in Nat /\ HeapTries \in Nat \ {0} /\ MaxIds \in Nat
  /\ MaxJobs \in Nat /\ MaxLosses \in Nat

VARIABLES
  board,       \* the hardware
  boot,        \* what begin() managed to create
  background,  \* SETTINGS.agentBackgroundFetch of a paired reader
  roomy,       \* heapAllowsTls()
  rested,      \* no question was queued in the last 30 minutes
  queue,       \* the jobs not yet received
  bg,          \* where taskLoop is
  bgLeft,      \* requests the running job still makes
  tries,       \* iterations of waitForHeap so far
  owned,       \* ownedWifi of the running job
  ui,          \* the screen, and how far its relay call got
  uiLeft,      \* requests the foreground call still makes
  calling,     \* the foreground call: "ask", or a sync's "index" or "apps"
  holder,      \* who holds relayMutex
  depth,       \* how often
  wifi,        \* the station: "off", "joining" or "up"
  jobs,        \* jobs submitted so far
  losses       \* links lost so far

lock     == <<holder, depth>>
radio    == <<wifi>>
bgVars   == <<bg, bgLeft, tries, owned>>
uiVars   == <<ui, uiLeft, calling>>
gate     == <<queue, rested, jobs>>
settings == <<board, boot, background>>
vars     == <<settings, roomy, gate, bgVars, uiVars, lock, radio, losses>>

-----------------------------------------------------------------------------
\* begin(): queue and mutex are each made or not, the task only after both.
Boots    == {made \in SUBSET {"queue", "mutex", "task"} :
               "task" \in made => {"queue", "mutex"} \subseteq made}
Tasks    == {"bg", "ui"}
Jobs     == {"recall", "sync"}
BgSteps  == {"idle", "heap", "take", "wifi", "join", "job", "tls", "drop", "release"}
Screens  == {"home", "reader", "choose", "pick", "join", "wait", "tls", "shown"}

\* bg holds the mutex in these steps, twice while a request is under way.
Holding  == {"wifi", "join", "job", "tls", "drop", "release"}

TypeOK ==
  /\ board \in Boards /\ boot \in Boots /\ background \in BOOLEAN
  /\ roomy \in BOOLEAN /\ rested \in BOOLEAN /\ owned \in BOOLEAN
  /\ queue \in Seq(Jobs) /\ Len(queue) <= QueueCap
  /\ bg \in BgSteps /\ bgLeft \in Nat /\ tries \in Nat
  /\ ui \in Screens /\ uiLeft \in Nat /\ calling \in {"ask", "index", "apps"}
  /\ holder \in Tasks \cup {"none"} /\ depth \in Nat
  /\ wifi \in {"off", "joining", "up"}
  /\ jobs \in Nat /\ losses \in Nat

Init ==
  /\ board \in Boards /\ boot \in Boots /\ background = TRUE
  /\ roomy = TRUE /\ rested = TRUE
  /\ queue = <<>>
  /\ bg = "idle" /\ bgLeft = 0 /\ tries = 0 /\ owned = FALSE
  /\ ui = "home" /\ uiLeft = 0 /\ calling = "ask"
  /\ holder = "none" /\ depth = 0
  /\ wifi = "off"
  /\ jobs = 0 /\ losses = 0

\* The settings are on the card; nothing else outlives a restart, and begin()
\* may go another way.
Restart(screen) ==
  /\ roomy' = (screen # "reader") /\ rested' = TRUE
  /\ queue' = <<>>
  /\ bg' = "idle" /\ bgLeft' = 0 /\ tries' = 0 /\ owned' = FALSE
  /\ ui' = screen /\ uiLeft' = 0 /\ calling' = "ask"
  /\ holder' = "none" /\ depth' = 0
  /\ wifi' = "off" /\ boot' \in Boots
  /\ UNCHANGED <<board, background, jobs, losses>>

-----------------------------------------------------------------------------
\* The recursive mutex.  With no mutex there is nothing to hold.
CanTake(t) == "mutex" \notin boot \/ holder \in {"none", t}
Take(t) ==
  /\ CanTake(t)
  /\ IF "mutex" \in boot THEN holder' = t /\ depth' = depth + 1 ELSE UNCHANGED lock
Give(t) ==
  IF holder # t THEN UNCHANGED lock
  ELSE /\ depth' = depth - 1
       /\ holder' = IF depth = 1 THEN "none" ELSE t

\* enqueue, behind allowed(): does the job get onto the queue?  Nobody asks
\* whether there is a task to receive it.
Accepts == background /\ "queue" \in boot /\ Len(queue) < QueueCap

\* An app sync asks for the index, then for what it lists unless that failed.
RequestsOf(job) == IF job = "recall" THEN {1} ELSE 1..(MaxIds + 1)

-----------------------------------------------------------------------------
\* The main task.

OpenBook ==
  /\ ui = "home"
  /\ ui' = "reader" /\ roomy' = FALSE
  /\ UNCHANGED <<settings, gate, bgVars, uiLeft, calling, lock, radio, losses>>

\* onExit queues a question, to the home screen or on the way to Ask.
LeaveBook ==
  /\ ui = "reader"
  /\ ui' \in {"home", "choose"}
  /\ IF Accepts /\ rested
     THEN jobs < MaxJobs /\ queue' = Append(queue, "recall") /\ rested' = FALSE /\ jobs' = jobs + 1
     ELSE UNCHANGED gate
  /\ UNCHANGED <<settings, roomy, bgVars, uiLeft, calling, lock, radio, losses>>

\* The EPUB's heap comes back some time after the reader is gone.
HeapReturns ==
  /\ ui # "reader" /\ ~roomy
  /\ roomy' = TRUE
  /\ UNCHANGED <<settings, gate, bgVars, uiVars, lock, radio, losses>>

ThrottleEnds ==
  /\ ~rested /\ rested' = TRUE
  /\ UNCHANGED <<settings, roomy, queue, jobs, bgVars, uiVars, lock, radio, losses>>

ToggleBackground ==
  /\ ui = "home"
  /\ background' = ~background
  /\ UNCHANGED <<board, boot, roomy, gate, bgVars, uiVars, lock, radio, losses>>

\* Settings > Sync apps: queued, or done here when it was not accepted.
SyncQueued ==
  /\ ui = "home" /\ roomy /\ jobs < MaxJobs
  /\ Accepts
  /\ queue' = Append(queue, "sync") /\ jobs' = jobs + 1
  /\ UNCHANGED <<settings, roomy, rested, bgVars, uiVars, lock, radio, losses>>

SyncHere ==
  /\ ui = "home" /\ roomy
  /\ ~Accepts
  /\ ui' = "wait" /\ calling' = "index" /\ uiLeft' = 1
  /\ UNCHANGED <<settings, roomy, gate, bgVars, lock, radio, losses>>

\* Ask, once a kind is chosen.  onWifiSelectionComplete checks the heap.
Ask(next) ==
  /\ ui' = IF roomy THEN "wait" ELSE "shown"
  /\ calling' = "ask" /\ uiLeft' = 1
  /\ UNCHANGED next

AskConnected ==
  /\ ui = "choose" /\ wifi = "up"
  /\ Ask(<<settings, roomy, gate, bgVars, lock, radio, losses>>)

\* The picker starts with mode(WIFI_STA), disconnect() and a scan.
AskUnconnected ==
  /\ ui = "choose" /\ wifi # "up"
  /\ ui' = "pick" /\ wifi' = "off"
  /\ UNCHANGED <<settings, roomy, gate, bgVars, uiLeft, calling, lock, losses>>

\* attemptConnection aborts whatever was joining or joined and begins anew.
PickNetwork ==
  /\ ui = "pick"
  /\ ui' = "join" /\ wifi' = "joining"
  /\ UNCHANGED <<settings, roomy, gate, bgVars, uiLeft, calling, lock, losses>>

UiJoined ==
  /\ ui = "join" /\ wifi = "up"
  /\ Ask(<<settings, roomy, gate, bgVars, lock, radio, losses>>)

\* Connection failed or timed out: disconnect, and back to the list.
UiJoinFails ==
  /\ ui = "join" /\ wifi # "up"
  /\ ui' = "pick" /\ wifi' = "off"
  /\ UNCHANGED <<settings, roomy, gate, bgVars, uiLeft, calling, lock, losses>>

\* request(): the RelayLock, held for one exchange with its one retry.
UiTakes ==
  /\ ui = "wait"
  /\ Take("ui")
  /\ ui' = "tls"
  /\ UNCHANGED <<settings, roomy, gate, bgVars, uiLeft, calling, radio, losses>>

\* The call goes on to its next request, or back to the screen it came from.
UiGoesOn(left) ==
  /\ uiLeft' = left
  /\ calling' = IF calling = "index" THEN "apps" ELSE calling
  /\ ui' = IF left > 0 THEN "wait" ELSE IF calling = "ask" THEN "shown" ELSE "home"

\* Mutant: request() ignores lock.held.
UiTimesOutUnchecked ==
  /\ ui = "wait" /\ ~CanTake("ui")
  /\ ui' = "tls"
  /\ UNCHANGED <<settings, roomy, gate, bgVars, uiLeft, calling, lock, radio, losses>>

\* 45 s without the mutex: "relay busy".  An app sync gives up with its index
\* but not with a manifest.
UiTimesOut ==
  /\ ui = "wait" /\ ~CanTake("ui")
  /\ UiGoesOn(uiLeft - 1)
  /\ UNCHANGED <<settings, roomy, gate, bgVars, lock, radio, losses>>

\* Mutant: the retry of a failed exchange has no limit.
UiDoneOrAgain ==
  /\ ui = "tls"
  /\ Give("ui")
  /\ UiGoesOn(uiLeft)
  /\ UNCHANGED <<settings, roomy, gate, bgVars, radio, losses>>

\* The index answers with ids to fetch, or with none: unchanged, or an error.
UiDone ==
  /\ ui = "tls"
  /\ Give("ui")
  /\ \E left \in IF calling = "index" THEN 0..MaxIds ELSE {uiLeft - 1} : UiGoesOn(left)
  /\ UNCHANGED <<settings, roomy, gate, bgVars, radio, losses>>

\* Leaving a kind unchosen raises nothing and restarts nothing.
AskCancelled ==
  /\ ui = "choose"
  /\ ui' = "home"
  /\ UNCHANGED <<settings, roomy, gate, bgVars, uiLeft, calling, lock, radio, losses>>

\* Ask's onExit once it wanted Wi-Fi: silentRestartToReader, which on a touch
\* board only stops Wi-Fi.  The picker's Back ends up here too.
LeaveAskRestarting ==
  /\ board = "button" /\ ui \in {"pick", "join", "shown"}
  /\ Restart("reader")

LeaveAskRunning ==
  /\ board = "touch" /\ ui \in {"pick", "join", "shown"}
  /\ ui' = "home" /\ wifi' = "off"
  /\ UNCHANGED <<settings, roomy, gate, bgVars, uiLeft, calling, lock, losses>>

\* Deep sleep, by button or inactivity: nothing asks whether a job is running.
Sleep ==
  /\ ui \notin {"wait", "tls"}
  /\ Restart("home") \/ Restart("reader")

-----------------------------------------------------------------------------
\* taskLoop.

Receive ==
  /\ "task" \in boot /\ bg = "idle" /\ queue # <<>>
  /\ queue' = Tail(queue)
  /\ bgLeft' \in RequestsOf(Head(queue))
  /\ bg' = "heap" /\ tries' = 0 /\ owned' = FALSE
  /\ UNCHANGED <<settings, roomy, rested, jobs, uiVars, lock, radio, losses>>

Idle == bg' = "idle" /\ bgLeft' = 0 /\ tries' = 0 /\ owned' = FALSE

\* Mutant: waitForHeap has no limit.
HeapLackingForever ==
  /\ bg = "heap" /\ ~roomy
  /\ tries' = 1 - tries
  /\ UNCHANGED <<settings, roomy, gate, bg, bgLeft, owned, uiVars, lock, radio, losses>>

\* waitForHeap looks once a second, HeapTries times.
HeapLacking ==
  /\ bg = "heap" /\ ~roomy
  /\ IF tries + 1 < HeapTries THEN tries' = tries + 1 /\ UNCHANGED <<bg, bgLeft, owned>> ELSE Idle
  /\ UNCHANGED <<settings, roomy, gate, uiVars, lock, radio, losses>>

HeapFound ==
  /\ bg = "heap" /\ roomy
  /\ bg' = "take"
  /\ UNCHANGED <<settings, roomy, gate, bgLeft, tries, owned, uiVars, lock, radio, losses>>

BgTakes ==
  /\ bg = "take"
  /\ Take("bg")
  /\ bg' = "wifi"
  /\ UNCHANGED <<settings, roomy, gate, bgLeft, tries, owned, uiVars, radio, losses>>

\* 30 s without the mutex: the job is given up, and nothing is released.
BgTimesOut ==
  /\ bg = "take" /\ ~CanTake("bg")
  /\ Idle
  /\ UNCHANGED <<settings, roomy, gate, uiVars, lock, radio, losses>>

\* ensureWifi.
WifiIsUp ==
  /\ bg = "wifi" /\ wifi = "up"
  /\ bg' = "job"
  /\ UNCHANGED <<settings, roomy, gate, bgLeft, tries, owned, uiVars, lock, radio, losses>>

NoNetworkKnown ==
  /\ bg = "wifi" /\ wifi # "up"
  /\ bg' = "release"
  /\ UNCHANGED <<settings, roomy, gate, bgLeft, tries, owned, uiVars, lock, radio, losses>>

BeginWifi ==
  /\ bg = "wifi" /\ wifi # "up"
  /\ bg' = "join" /\ owned' = TRUE
  /\ wifi' = "joining"
  /\ UNCHANGED <<settings, roomy, gate, bgLeft, tries, uiVars, lock, losses>>

BgJoined ==
  /\ bg = "join" /\ wifi = "up"
  /\ bg' = "job"
  /\ UNCHANGED <<settings, roomy, gate, bgLeft, tries, owned, uiVars, lock, radio, losses>>

\* Mutant: the job is given up without going through releaseRelay.
BgJoinFailsHolding ==
  /\ bg = "join" /\ wifi # "up"
  /\ Idle
  /\ wifi' = "off"
  /\ UNCHANGED <<settings, roomy, gate, uiVars, lock, losses>>

\* 20 s without a connection: the radio is turned off here already.
BgJoinFails ==
  /\ bg = "join" /\ wifi # "up"
  /\ bg' = "release" /\ owned' = FALSE
  /\ wifi' = "off"
  /\ UNCHANGED <<settings, roomy, gate, bgLeft, tries, uiVars, lock, losses>>

\* request() in a job: the second take of a mutex the task already holds.
BgRequests ==
  /\ bg = "job" /\ bgLeft > 0
  /\ Take("bg")
  /\ bg' = "tls" /\ bgLeft' = bgLeft - 1
  /\ UNCHANGED <<settings, roomy, gate, tries, owned, uiVars, radio, losses>>

BgAnswered ==
  /\ bg = "tls"
  /\ Give("bg")
  /\ bg' = "job"
  /\ UNCHANGED <<settings, roomy, gate, bgLeft, tries, owned, uiVars, radio, losses>>

\* Mutant: releaseRelay() before the radio is taken down.
JobDoneReleasing ==
  /\ bg = "job" /\ bgLeft = 0
  /\ bg' = IF owned THEN "drop" ELSE "release"
  /\ Give("bg")
  /\ UNCHANGED <<settings, roomy, gate, bgLeft, tries, owned, uiVars, radio, losses>>

JobDone ==
  /\ bg = "job" /\ bgLeft = 0
  /\ bg' = IF owned THEN "drop" ELSE "release"
  /\ UNCHANGED <<settings, roomy, gate, bgLeft, tries, owned, uiVars, lock, radio, losses>>

DropWifi ==
  /\ bg = "drop"
  /\ bg' = "release"
  /\ wifi' = "off"
  /\ UNCHANGED <<settings, roomy, gate, bgLeft, tries, owned, uiVars, lock, losses>>

Release ==
  /\ bg = "release"
  /\ Give("bg")
  /\ Idle
  /\ UNCHANGED <<settings, roomy, gate, uiVars, radio, losses>>

-----------------------------------------------------------------------------
\* The network.

Associate ==
  /\ wifi = "joining"
  /\ wifi' = "up"
  /\ UNCHANGED <<settings, roomy, gate, bgVars, uiVars, lock, losses>>

\* The access point goes away; the station keeps trying to join it again.
LinkLost ==
  /\ wifi = "up" /\ losses < MaxLosses
  /\ wifi' = "joining" /\ losses' = losses + 1
  /\ UNCHANGED <<settings, roomy, gate, bgVars, uiVars, lock>>

-----------------------------------------------------------------------------
BgStep ==
  \/ Receive \/ HeapLacking \/ HeapFound \/ BgTakes \/ BgTimesOut
  \/ WifiIsUp \/ NoNetworkKnown \/ BeginWifi \/ BgJoined \/ BgJoinFails
  \/ BgRequests \/ BgAnswered \/ JobDone \/ DropWifi \/ Release

UiCall == UiTakes \/ UiTimesOut \/ UiDone

UiStep ==
  \/ OpenBook \/ LeaveBook \/ ToggleBackground \/ SyncQueued \/ SyncHere
  \/ AskConnected \/ AskUnconnected \/ PickNetwork \/ UiJoined \/ UiJoinFails
  \/ AskCancelled \/ LeaveAskRestarting \/ LeaveAskRunning \/ Sleep

Next == BgStep \/ UiCall \/ UiStep \/ HeapReturns \/ ThrottleEnds \/ Associate \/ LinkLost

Spec == Init /\ [][Next]_vars

\* The scheduler runs both tasks, every wait has a deadline and every exchange
\* a timeout.  Nothing obliges the owner, the heap or the network.
Fairness == WF_vars(BgStep) /\ WF_vars(UiCall)

FairSpec == Spec /\ Fairness

-----------------------------------------------------------------------------
(* The mutex is held exactly in the steps that need it, and as often as they  *)
(* nest: bg for the whole job and again for each request, ui for a request    *)
(* (RelayTask.cpp:143-164, InkAgentClient.cpp:38-47).  A job or a request     *)
(* that ended, whichever way, keeps nobody out.  Without a mutex nobody holds *)
(* it, and then there is no task either.                                      *)
LockInv ==
  /\ "task" \notin boot => bg = "idle"
  /\ "mutex" \notin boot => depth = 0 /\ holder = "none"
  /\ bg \in Holding <=> holder = "bg"
  /\ "mutex" \in boot => (ui = "tls" <=> holder = "ui")
  /\ depth = IF holder = "none" THEN 0 ELSE IF bg = "tls" THEN 2 ELSE 1

(* "an Ask in progress and a background fetch can never hold two TLS sessions *)
(* at once" (RelayTask.h:21-22): over timeouts, restarts, nested takes, and a *)
(* mutex that may not exist.                                                  *)
OneTlsSession == ~(bg = "tls" /\ ui = "tls")

(* No foreground request has the radio switched off under it: whoever does    *)
(* so holds the mutex or restarts the reader (RelayTask.cpp:90-92, 158-159).  *)
RequestKeepsItsRadio == [][ui = "tls" /\ wifi # "off" => wifi' # "off"]_vars

(* Where the task was started, every job is received and ends, run or given   *)
(* up: no wait for heap, mutex or network lasts forever, and the queue does   *)
(* not stay full.  It was not when the queue was made and the mutex or the    *)
(* task was not (RelayTask.cpp:190-201): jobs are then accepted, and the sync *)
(* reported as queued, with nobody to receive them - the settings screen      *)
(* means to fall through to its blocking path "only when the task never       *)
(* started" (InkAgentSettingsActivity.cpp:95-97) and does not.                *)
RelaySettles ==
  "task" \in boot /\ (queue # <<>> \/ bg # "idle") ~> queue = <<>> /\ bg = "idle"

(* A foreground call comes back to its screen, whatever bg is doing.          *)
CallReturns == ui \in {"wait", "tls"} ~> ui \notin {"wait", "tls"}

=============================================================================
