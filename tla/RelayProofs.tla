---------------------------- MODULE RelayProofs -----------------------------
(***************************************************************************)
(* The reader's traffic with the relay (RelayTask), for every queue        *)
(* length, number of heap checks, catalogue and outcome of begin(), and    *)
(* how it got its token (Pairing), for any number of device codes,         *)
(* restarts and lost messages.                                             *)
(***************************************************************************)
EXTENDS RelayTask, Pairing, TLAPS

-----------------------------------------------------------------------------
(* RelayTask: the mutex is held exactly where the task and request() need  *)
(* it, so there is one TLS session at a time and no request loses the      *)
(* radio under it.                                                         *)

\* A foreground call that is under way still has a request to make.
CallInv == ui \in {"wait", "tls"} => uiLeft > 0

\* The inductive invariant.  LockInv says who holds the mutex, CallInv is what
\* keeps the count of requests a number.
TaskInv == TypeOK /\ LockInv /\ CallInv

-----------------------------------------------------------------------------
LEMMA EmptyFits == <<>> \in Seq(Jobs) /\ Len(<<>>) <= QueueCap
BY RelayTaskAssumption

LEMMA TaskInitType == Init => TypeOK
<1> SUFFICES ASSUME Init PROVE TypeOK
  OBVIOUS
<1>1. background \in BOOLEAN /\ roomy \in BOOLEAN /\ rested \in BOOLEAN /\ owned \in BOOLEAN
  BY DEF Init
<1>2. queue \in Seq(Jobs) /\ Len(queue) <= QueueCap
  BY EmptyFits DEF Init
<1> QED
  BY <1>1, <1>2 DEF Init, TypeOK, BgSteps, Screens, Tasks

\* Appending below the limit stays within it.
LEMMA AppendFits ==
  ASSUME NEW q \in Seq(Jobs), NEW j \in Jobs, Len(q) < QueueCap
  PROVE  Append(q, j) \in Seq(Jobs) /\ Len(Append(q, j)) <= QueueCap
BY RelayTaskAssumption

LEMMA TailFits ==
  ASSUME NEW q \in Seq(Jobs), q # <<>>, Len(q) <= QueueCap
  PROVE  /\ Tail(q) \in Seq(Jobs) /\ Len(Tail(q)) <= QueueCap
         /\ Head(q) \in Jobs
BY RelayTaskAssumption

LEMMA RequestsAreNat == ASSUME NEW job \in Jobs PROVE RequestsOf(job) \subseteq Nat
BY RelayTaskAssumption DEF RequestsOf

\* Every action, up to what it does to the mutex.
LEMMA TaskTypeStep == TaskInv /\ [Next]_vars => TypeOK'
<1> SUFFICES ASSUME TaskInv, [Next]_vars PROVE TypeOK'
  OBVIOUS
<1> USE RelayTaskAssumption DEF TaskInv, TypeOK, BgSteps, Screens, Tasks
<1>1. CASE OpenBook
  <2>1. background' \in BOOLEAN /\ roomy' \in BOOLEAN
    BY <1>1 DEF OpenBook, settings
  <2>2. rested' \in BOOLEAN /\ owned' \in BOOLEAN
    BY <1>1 DEF OpenBook, gate, bgVars
  <2>3. queue' \in Seq(Jobs) /\ Len(queue') <= QueueCap /\ jobs' \in Nat
    BY <1>1 DEF OpenBook, gate
  <2> QED
    BY <1>1, <2>1, <2>2, <2>3 DEF OpenBook, lock, radio, bgVars, uiVars, gate, settings
<1>2. CASE LeaveBook
  <2>1. background' \in BOOLEAN /\ roomy' \in BOOLEAN
    BY <1>2, AppendFits DEF LeaveBook, Accepts, Jobs, settings
  <2>2. rested' \in BOOLEAN /\ owned' \in BOOLEAN
    BY <1>2, AppendFits DEF LeaveBook, Accepts, Jobs, gate, bgVars
  <2>3. queue' \in Seq(Jobs) /\ Len(queue') <= QueueCap /\ jobs' \in Nat
    BY <1>2, AppendFits DEF LeaveBook, Accepts, Jobs, gate
  <2> QED
    BY <1>2, AppendFits, <2>1, <2>2, <2>3 DEF LeaveBook, Accepts, Jobs, lock, radio, bgVars, uiVars, gate, settings
<1>3. CASE HeapReturns \/ ThrottleEnds \/ ToggleBackground
  <2>1. background' \in BOOLEAN /\ roomy' \in BOOLEAN
    BY <1>3 DEF HeapReturns, ThrottleEnds, ToggleBackground, settings
  <2>2. rested' \in BOOLEAN /\ owned' \in BOOLEAN
    BY <1>3 DEF HeapReturns, ThrottleEnds, ToggleBackground, gate, bgVars
  <2>3. queue' \in Seq(Jobs) /\ Len(queue') <= QueueCap /\ jobs' \in Nat
    BY <1>3 DEF HeapReturns, ThrottleEnds, ToggleBackground, gate
  <2> QED
    BY <1>3, <2>1, <2>2, <2>3 DEF HeapReturns, ThrottleEnds, ToggleBackground, lock, radio, bgVars, uiVars, gate, settings
<1>4. CASE SyncQueued
  BY <1>4, AppendFits DEF SyncQueued, Accepts, Jobs, lock, radio, bgVars, uiVars, gate, settings
<1>5. CASE SyncHere
  BY <1>5 DEF SyncHere, lock, radio, bgVars, uiVars, gate, settings
<1>6. CASE AskConnected \/ UiJoined
  BY <1>6 DEF AskConnected, UiJoined, Ask, lock, radio, bgVars, uiVars, gate, settings
<1>7. CASE AskUnconnected \/ PickNetwork \/ UiJoinFails \/ AskCancelled
  BY <1>7 DEF AskUnconnected, PickNetwork, UiJoinFails, AskCancelled, lock, radio, bgVars, uiVars, gate, settings
<1>8. CASE UiTakes
  BY <1>8 DEF UiTakes, Take, lock, radio, bgVars, uiVars, gate, settings
<1>9. CASE UiTimesOut
  BY <1>9 DEF UiTimesOut, UiGoesOn, CallInv, lock, radio, bgVars, uiVars, gate, settings
<1>10. CASE UiDone
  BY <1>10 DEF UiDone, UiGoesOn, Give, LockInv, CallInv, lock, radio, bgVars, uiVars, gate, settings
<1>11. CASE LeaveAskRestarting \/ LeaveAskRunning \/ Sleep
  <2>1. background' \in BOOLEAN /\ roomy' \in BOOLEAN
    BY <1>11 DEF LeaveAskRestarting, LeaveAskRunning, Sleep, Restart, settings
  <2>2. rested' \in BOOLEAN /\ owned' \in BOOLEAN
    BY <1>11 DEF LeaveAskRestarting, LeaveAskRunning, Sleep, Restart, gate, bgVars
  <2>3. queue' \in Seq(Jobs) /\ Len(queue') <= QueueCap /\ jobs' \in Nat
    BY <1>11, EmptyFits DEF LeaveAskRestarting, LeaveAskRunning, Sleep, Restart, gate
  <2> QED
    BY <1>11, <2>1, <2>2, <2>3 DEF LeaveAskRestarting, LeaveAskRunning, Sleep, Restart, lock, radio, bgVars, uiVars, gate, settings
<1>12. CASE Receive
  <2>1. background' \in BOOLEAN /\ roomy' \in BOOLEAN
    BY <1>12, TailFits, RequestsAreNat DEF Receive, settings
  <2>2. rested' \in BOOLEAN /\ owned' \in BOOLEAN
    BY <1>12, TailFits, RequestsAreNat DEF Receive, gate, bgVars
  <2>3. queue' \in Seq(Jobs) /\ Len(queue') <= QueueCap /\ jobs' \in Nat
    BY <1>12, TailFits, RequestsAreNat DEF Receive, gate
  <2> QED
    BY <1>12, TailFits, RequestsAreNat, <2>1, <2>2, <2>3 DEF Receive, lock, radio, bgVars, uiVars, gate, settings
<1>13. CASE HeapLacking \/ HeapFound \/ BgTimesOut
  <2>1. background' \in BOOLEAN /\ roomy' \in BOOLEAN
    BY <1>13 DEF HeapLacking, HeapFound, Idle, BgTimesOut, settings
  <2>2. rested' \in BOOLEAN /\ owned' \in BOOLEAN
    BY <1>13 DEF HeapLacking, HeapFound, Idle, BgTimesOut, gate, bgVars
  <2>3. queue' \in Seq(Jobs) /\ Len(queue') <= QueueCap /\ jobs' \in Nat
    BY <1>13 DEF HeapLacking, HeapFound, Idle, BgTimesOut, gate
  <2> QED
    BY <1>13, <2>1, <2>2, <2>3 DEF HeapLacking, HeapFound, Idle, BgTimesOut, lock, radio, bgVars, uiVars, gate, settings
<1>14. CASE BgTakes \/ BgRequests
  BY <1>14 DEF BgTakes, BgRequests, Take, lock, radio, bgVars, uiVars, gate, settings
<1>15. CASE WifiIsUp \/ NoNetworkKnown \/ BeginWifi \/ BgJoined \/ BgJoinFails
  <2>1. background' \in BOOLEAN /\ roomy' \in BOOLEAN
    BY <1>15 DEF WifiIsUp, NoNetworkKnown, BeginWifi, BgJoined, BgJoinFails, settings
  <2>2. rested' \in BOOLEAN /\ owned' \in BOOLEAN
    BY <1>15 DEF WifiIsUp, NoNetworkKnown, BeginWifi, BgJoined, BgJoinFails, gate, bgVars
  <2>3. queue' \in Seq(Jobs) /\ Len(queue') <= QueueCap /\ jobs' \in Nat
    BY <1>15 DEF WifiIsUp, NoNetworkKnown, BeginWifi, BgJoined, BgJoinFails, gate
  <2> QED
    BY <1>15, <2>1, <2>2, <2>3 DEF WifiIsUp, NoNetworkKnown, BeginWifi, BgJoined, BgJoinFails, lock, radio, bgVars, uiVars, gate, settings
<1>16. CASE BgAnswered \/ Release
  <2>1. background' \in BOOLEAN /\ roomy' \in BOOLEAN
    BY <1>16 DEF BgAnswered, Release, Give, Idle, LockInv, settings
  <2>2. rested' \in BOOLEAN /\ owned' \in BOOLEAN
    BY <1>16 DEF BgAnswered, Release, Give, Idle, LockInv, gate, bgVars
  <2>3. queue' \in Seq(Jobs) /\ Len(queue') <= QueueCap /\ jobs' \in Nat
    BY <1>16 DEF BgAnswered, Release, Give, Idle, LockInv, gate
  <2> QED
    BY <1>16, <2>1, <2>2, <2>3 DEF BgAnswered, Release, Give, Idle, LockInv, lock, radio, bgVars, uiVars, gate, settings
<1>17. CASE JobDone \/ DropWifi
  BY <1>17 DEF JobDone, DropWifi, lock, radio, bgVars, uiVars, gate, settings
<1>18. CASE Associate \/ LinkLost
  BY <1>18 DEF Associate, LinkLost, lock, radio, bgVars, uiVars, gate, settings
<1>19. CASE UNCHANGED vars
  BY <1>19 DEF vars, lock, radio, bgVars, uiVars, gate, settings
<1> QED
  BY <1>1, <1>2, <1>3, <1>4, <1>5, <1>6, <1>7, <1>8, <1>9, <1>10, <1>11, <1>12, <1>13, <1>14, <1>15, <1>16, <1>17, <1>18, <1>19 DEF Next, BgStep, UiCall, UiStep

-----------------------------------------------------------------------------
\* The mutex changes hands in five actions and a restart; each leaves the two
\* tasks where LockInv expects them.
LEMMA LockStep == TaskInv /\ [Next]_vars => LockInv' /\ CallInv'
<1> SUFFICES ASSUME TaskInv, [Next]_vars PROVE LockInv' /\ CallInv'
  OBVIOUS
<1> USE DEF TaskInv, LockInv, CallInv, Holding
<1>1. CASE UiTakes
  BY <1>1 DEF UiTakes, Take, CanTake, TypeOK, Tasks, lock, radio, bgVars, uiVars, gate, settings
<1>2. CASE UiTimesOut
  BY <1>2 DEF UiTimesOut, UiGoesOn, CanTake, TypeOK, lock, radio, bgVars, uiVars, gate, settings
<1>3. CASE UiDone
  BY <1>3 DEF UiDone, Give, UiGoesOn, TypeOK, lock, radio, bgVars, uiVars, gate, settings
<1>4. CASE BgTakes \/ BgRequests
  <2>1. "mutex" \in boot
    BY <1>4 DEF BgTakes, BgRequests, TypeOK, Boots
  <2>2. CASE BgTakes
    BY <2>1, <2>2 DEF BgTakes, Take, CanTake, TypeOK, Tasks, lock, radio, bgVars, uiVars, gate, settings
  <2>3. CASE BgRequests
    BY <2>1, <2>3 DEF BgRequests, Take, CanTake, TypeOK, Tasks, lock, radio, bgVars, uiVars, gate, settings
  <2> QED
    BY <1>4, <2>2, <2>3
<1>5. CASE BgAnswered \/ Release
  BY <1>5 DEF BgAnswered, Release, Give, Idle, TypeOK, lock, radio, bgVars, uiVars, gate, settings
<1>6. CASE LeaveAskRestarting \/ Sleep
  BY <1>6 DEF LeaveAskRestarting, Sleep, Restart, TypeOK, lock, radio, bgVars, uiVars, gate, settings
<1>7. CASE Receive \/ HeapLacking \/ HeapFound \/ BgTimesOut
  BY <1>7 DEF Receive, HeapLacking, HeapFound, BgTimesOut, Idle, lock, radio, bgVars, uiVars, gate, settings
<1>8. CASE WifiIsUp \/ NoNetworkKnown \/ BeginWifi \/ BgJoined \/ BgJoinFails \/ JobDone \/ DropWifi
  BY <1>8 DEF WifiIsUp, NoNetworkKnown, BeginWifi, BgJoined, BgJoinFails, JobDone, DropWifi, lock, radio, bgVars, uiVars, gate, settings
<1>9. CASE AskConnected \/ UiJoined \/ SyncHere
  BY <1>9 DEF AskConnected, UiJoined, Ask, SyncHere, lock, radio, bgVars, uiVars, gate, settings
<1>10. CASE OpenBook \/ LeaveBook \/ HeapReturns \/ ThrottleEnds \/ ToggleBackground \/ SyncQueued
  BY <1>10 DEF OpenBook, LeaveBook, HeapReturns, ThrottleEnds, ToggleBackground, SyncQueued, lock, radio, bgVars, uiVars, gate, settings
<1>11. CASE AskUnconnected \/ PickNetwork \/ UiJoinFails \/ AskCancelled \/ LeaveAskRunning
  BY <1>11 DEF AskUnconnected, PickNetwork, UiJoinFails, AskCancelled, LeaveAskRunning, lock, radio, bgVars, uiVars, gate, settings
<1>12. CASE Associate \/ LinkLost \/ UNCHANGED vars
  BY <1>12 DEF Associate, LinkLost, vars, lock, radio, bgVars, uiVars, gate, settings
<1> QED
  BY <1>1, <1>2, <1>3, <1>4, <1>5, <1>6, <1>7, <1>8, <1>9, <1>10, <1>11, <1>12 DEF Next, BgStep, UiCall, UiStep

LEMMA TaskInvInit == Init => TaskInv
BY TaskInitType DEF Init, TaskInv, LockInv, CallInv, Holding

-----------------------------------------------------------------------------
\* The inductive invariant behind the theorems that follow.
THEOREM TaskInductive == Spec => []TaskInv
<1>1. TaskInv /\ [Next]_vars => TaskInv'
  BY TaskTypeStep, LockStep DEF TaskInv
<1> QED
  BY <1>1, TaskInvInit, PTL DEF Spec

\* The queue never holds more than its two jobs, the counters stay counters
\* (RelayTask.cpp:166-177).
THEOREM TaskTypeCorrect == Spec => []TypeOK
<1>1. TaskInv => TypeOK
  BY DEF TaskInv
<1> QED
  BY <1>1, TaskInductive, PTL

\* The mutex is held exactly where the code needs it, whichever way a wait, a
\* request or a job ends (RelayTask.cpp:143-164).
THEOREM LockIsBalanced == Spec => []LockInv
<1>1. TaskInv => LockInv
  BY DEF TaskInv
<1> QED
  BY <1>1, TaskInductive, PTL

\* At most one TLS session at a time (RelayTask.h:21-22).
THEOREM OneSession == Spec => []OneTlsSession
<1>1. TaskInv => OneTlsSession
  BY DEF TaskInv, LockInv, Holding, OneTlsSession
<1> QED
  BY <1>1, TaskInductive, PTL

\* A foreground request never has the radio switched off under it
\* (RelayTask.cpp:90-92, 158-159).
THEOREM RadioStays == Spec => RequestKeepsItsRadio
<1>1. TaskInv /\ [Next]_vars => [ui = "tls" /\ wifi # "off" => wifi' # "off"]_vars
  <2> SUFFICES ASSUME TaskInv, [Next]_vars, ui = "tls", wifi # "off"
               PROVE  wifi' # "off"
    OBVIOUS
  <2>1. bg \notin {"drop", "join"}
    BY DEF TaskInv, LockInv, Holding
  <2>2. CASE BgStep
    BY <2>1, <2>2 DEF BgStep, Receive, HeapLacking, HeapFound, BgTakes, BgTimesOut, WifiIsUp,
       NoNetworkKnown, BeginWifi, BgJoined, BgJoinFails, BgRequests, BgAnswered, JobDone, DropWifi,
       Release, radio
  <2>3. CASE UiCall
    BY <2>3 DEF UiCall, UiTakes, UiTimesOut, UiDone, radio
  <2>4. CASE UiStep
    BY <2>4 DEF UiStep, OpenBook, LeaveBook, ToggleBackground, SyncQueued, SyncHere, AskConnected,
       AskUnconnected, PickNetwork, UiJoined, UiJoinFails, AskCancelled, LeaveAskRestarting,
       LeaveAskRunning, Sleep, Ask
  <2> QED
    BY <2>2, <2>3, <2>4 DEF Next, HeapReturns, ThrottleEnds, Associate, LinkLost, vars, radio
<1> QED
  BY <1>1, TaskInductive, PTL DEF Spec, RequestKeepsItsRadio

-----------------------------------------------------------------------------
(* Pairing: a token is in one place at a time and is handed out at most    *)
(* once, and a paired reader is one the relay knows.                       *)

\* What the relay knows of a code at each stage of its token.
Provenance ==
  \A c \in Code :
    /\ c \in kept => c \in devices
    /\ OnWire(c) => c \in devices \cap handed
    /\ c \in handed => status[c] = "consumed"
    /\ c \in devices => status[c] \in {"claimed", "consumed"}

\* The answer to pair/start carries a code.
StartCarries == reply = "started" => carried \in Code

\* Only an unpaired reader is on the pairing screen, and only there it calls.
PairsUnpaired ==
  /\ call # "none" => screen \in {"start", "wait"}
  /\ screen \in {"start", "wait"} => token = None

\* The inductive invariant.
PairingInv == PairingTypeOK /\ StartCarries /\ PairsUnpaired /\ TokenInOnePlace /\ PairedReaderIsListed /\ Provenance

-----------------------------------------------------------------------------
LEMMA PairingInvInit == PairingInit => PairingInv
<1> SUFFICES ASSUME PairingInit PROVE PairingInv
  OBVIOUS
<1>1. late \in BOOLEAN /\ status \in [Code -> Statuses]
  BY DEF PairingInit, Statuses
<1>2. PairingTypeOK
  BY <1>1 DEF PairingInit, PairingTypeOK, PairingScreens, Replies
<1>3. StartCarries /\ PairsUnpaired /\ TokenInOnePlace /\ PairedReaderIsListed /\ Provenance
  BY PairingAssumption DEF PairingInit, StartCarries, PairsUnpaired, TokenInOnePlace, PairedReaderIsListed, Provenance, OnWire
<1> QED
  BY <1>2, <1>3 DEF PairingInv

LEMMA PairingTypeStep == PairingInv /\ [PairingNext]_pairingVars => PairingTypeOK'
<1> SUFFICES ASSUME PairingInv, [PairingNext]_pairingVars PROVE PairingTypeOK'
  OBVIOUS
<1> USE DEF PairingInv, PairingTypeOK, PairingScreens, Replies
<1>1. CASE LoseAndRetry \/ LoseForGood
  BY <1>1 DEF LoseAndRetry, LoseForGood, HangUp, relayVars, readerVars
<1>2. ASSUME NEW c \in Code, PairStart(c) PROVE PairingTypeOK'
  BY <1>2 DEF PairStart, Answer, readerVars, Statuses
<1>3. ASSUME NEW c \in Code, HandOver(c) PROVE PairingTypeOK'
  BY <1>3 DEF HandOver, Answer, readerVars, Statuses
<1>4. ASSUME NEW c \in Code, PollAnswered(c) PROVE PairingTypeOK'
  BY <1>4 DEF PollAnswered, Answer, readerVars, Statuses
<1>5. CASE Started \/ PolledOk \/ PolledPending \/ PolledNo
  <2>1. late' \in BOOLEAN
    BY <1>5 DEF Started, PolledOk, PolledPending, PolledNo, readerVars
  <2> QED
    BY <1>5, <2>1 DEF Started, PolledOk, PolledPending, PolledNo, HangUp, StartCarries, relayVars,
       readerVars
<1>6. CASE StartPairing \/ Deadline \/ Poll \/ Finish \/ Interrupt \/ Unpair \/ RefusedByRelay
  <2>1. late' \in BOOLEAN
    BY <1>6 DEF StartPairing, Deadline, Poll, Finish, Interrupt, Unpair, RefusedByRelay
  <2> QED
    BY <1>6, <2>1 DEF StartPairing, Deadline, Poll, Finish, Interrupt, Unpair, RefusedByRelay, Send,
       HangUp, relayVars, readerVars, callVars
<1>7. ASSUME NEW c \in Code, Claim(c) \/ Revoke(c) \/ Age(c) PROVE PairingTypeOK'
  BY <1>7 DEF Claim, Revoke, Age, readerVars, callVars, Statuses
<1>8. CASE RestartRelay
  BY <1>8 DEF RestartRelay, readerVars, callVars
<1>9. CASE UNCHANGED pairingVars
  BY <1>9 DEF pairingVars, relayVars, readerVars, callVars
<1> QED
  BY <1>1, <1>2, <1>3, <1>4, <1>5, <1>6, <1>7, <1>8, <1>9 DEF PairingNext, Exchange

-----------------------------------------------------------------------------
\* What is left to show of a step: that the token stays where it was or moves on.
Custody == StartCarries /\ PairsUnpaired /\ TokenInOnePlace /\ PairedReaderIsListed /\ Provenance

LEMMA CustodyStep == PairingInv /\ [PairingNext]_pairingVars => Custody'
<1> SUFFICES ASSUME PairingInv, [PairingNext]_pairingVars PROVE Custody'
  OBVIOUS
<1> USE PairingAssumption
    DEF PairingInv, PairingTypeOK, Custody, StartCarries, PairsUnpaired, TokenInOnePlace, PairedReaderIsListed, Provenance, OnWire
<1>1. CASE LoseAndRetry \/ LoseForGood
  BY <1>1 DEF LoseAndRetry, LoseForGood, HangUp, relayVars, readerVars
<1>2. ASSUME NEW c \in Code, PairStart(c) PROVE Custody'
  BY <1>2 DEF PairStart, Answer, Sent, readerVars
<1>3. ASSUME NEW c \in Code, HandOver(c) PROVE Custody'
  BY <1>3 DEF HandOver, Answer, Sent, readerVars
<1>4. ASSUME NEW c \in Code, PollAnswered(c) PROVE Custody'
  BY <1>4 DEF PollAnswered, Answer, Sent, readerVars, Statuses
<1>5. CASE Started \/ PolledOk \/ PolledPending \/ PolledNo
  BY <1>5 DEF Started, PolledOk, PolledPending, PolledNo, HangUp, relayVars, readerVars
<1>6. CASE StartPairing \/ Deadline \/ Poll \/ Finish \/ Interrupt \/ Unpair \/ RefusedByRelay
  BY <1>6 DEF StartPairing, Deadline, Poll, Finish, Interrupt, Unpair, RefusedByRelay, Send, HangUp,
     relayVars, readerVars, callVars
<1>7. ASSUME NEW c \in Code, Claim(c) \/ Revoke(c) \/ Age(c) PROVE Custody'
  BY <1>7 DEF Claim, Revoke, Age, readerVars, callVars
<1>8. CASE RestartRelay
  BY <1>8 DEF RestartRelay, readerVars, callVars
<1>9. CASE UNCHANGED pairingVars
  BY <1>9 DEF pairingVars, relayVars, readerVars, callVars
<1> QED
  BY <1>1, <1>2, <1>3, <1>4, <1>5, <1>6, <1>7, <1>8, <1>9 DEF PairingNext, Exchange

-----------------------------------------------------------------------------
\* The inductive invariant behind the theorems that follow.
THEOREM PairingInductive == PairingSpec => []PairingInv
<1>1. PairingInv /\ [PairingNext]_pairingVars => PairingInv'
  BY PairingTypeStep, CustodyStep DEF PairingInv, Custody
<1> QED
  BY <1>1, PairingInvInit, PTL DEF PairingSpec

\* The rows, the reader and the wire hold what they should (InkAgentProtocol.cpp:
\* 450-474, device.js:53-67).
THEOREM PairingTypeCorrect == PairingSpec => []PairingTypeOK
<1>1. PairingInv => PairingTypeOK
  BY DEF PairingInv
<1> QED
  BY <1>1, PairingInductive, PTL

\* A token is with the relay, on the wire or in the reader, and never in two of
\* these (device.js:26, 59-65).
THEOREM OnePlace == PairingSpec => []TokenInOnePlace
<1>1. PairingInv => TokenInOnePlace
  BY DEF PairingInv
<1> QED
  BY <1>1, PairingInductive, PTL

\* Whoever believes to be paired has a device row (dashboard.js:657).
THEOREM PairedIsListed == PairingSpec => []PairedReaderIsListed
<1>1. PairingInv => PairedReaderIsListed
  BY DEF PairingInv
<1> QED
  BY <1>1, PairingInductive, PTL

\* "a consumed code never yields a second token" (pairing.test.js:46).
THEOREM HandedOnce == PairingSpec => NeverHandedTwice
<1>1. PairingInv /\ [PairingNext]_pairingVars => [\A c \in Code : c \in handed /\ OnWire(c)' => OnWire(c)]_pairingVars
  <2> SUFFICES ASSUME PairingInv, [PairingNext]_pairingVars, NEW c \in Code, c \in handed, OnWire(c)'
               PROVE  OnWire(c)
    OBVIOUS
  <2>1. status[c] = "consumed" /\ c \notin kept
    BY DEF PairingInv, Provenance, TokenInOnePlace
  <2>2. CASE Exchange
    BY <2>1, <2>2, PairingAssumption DEF Exchange, LoseAndRetry, LoseForGood, PairStart, HandOver,
       PollAnswered, Started, PolledOk, PolledPending, PolledNo, HangUp, Answer, Sent, OnWire
  <2> QED
    BY <2>2 DEF PairingNext, StartPairing, Deadline, Poll, Finish, Interrupt, Unpair, RefusedByRelay, Claim,
       Revoke, Age, RestartRelay, Send, HangUp, OnWire, callVars, pairingVars
<1> QED
  BY <1>1, PairingInductive, PTL DEF PairingSpec, NeverHandedTwice

-----------------------------------------------------------------------------
\* Pairing implements OneTimeToken.
Placed == [c \in Code |-> Place(c)]

\* A step that takes one token on.
LEMMA OneMoves ==
  ASSUME NEW c \in Code, NEW from, NEW to, Place(c) = from, Place(c)' = to,
         \A d \in Code : d # c => Place(d)' = Place(d)
  PROVE  Promise!Move(c, from, to)
BY DEF Promise!Move

\* A step that takes none on but may lose some.
LEMMA SomeLost ==
  ASSUME \A c \in Code : \/ Place(c)' = Place(c)
                         \/ Place(c) \in {"relay", "answer", "reader"} /\ Place(c)' = "gone"
  PROVE  Promise!Next
<1> DEFINE lost == {c \in Code : Place(c) # "gone" /\ Place(c)' = "gone"}
<1>1. \A c \in lost : Placed[c] \in {"relay", "answer", "reader"}
  BY DEF Placed
<1>2. Placed' = [c \in Code |-> IF c \in lost THEN "gone" ELSE Placed[c]]
  BY DEF Placed
<1>3. lost \in SUBSET Code
  OBVIOUS
<1> QED
  BY <1>1, <1>2, <1>3 DEF Promise!Next, Promise!Lose, Placed

LEMMA PromiseStep == PairingInv /\ [PairingNext]_pairingVars => [Promise!Next]_Placed
<1> SUFFICES ASSUME PairingInv, [PairingNext]_pairingVars PROVE [Promise!Next]_Placed
  OBVIOUS
<1> USE PairingAssumption DEF PairingInv, PairingTypeOK, Place, OnWire
<1>1. CASE LoseAndRetry \/ LoseForGood \/ RestartRelay \/ Interrupt \/ Unpair \/ RefusedByRelay
  <2> SUFFICES ASSUME NEW c \in Code
               PROVE  \/ Place(c)' = Place(c)
                      \/ Place(c) \in {"relay", "answer", "reader"} /\ Place(c)' = "gone"
    BY SomeLost
  <2>1. c \in kept \/ OnWire(c) \/ token = c => c \in devices
    BY DEF Provenance, PairedReaderIsListed
  <2>2. CASE LoseAndRetry \/ LoseForGood
    BY <2>1, <2>2 DEF LoseAndRetry, LoseForGood, HangUp, relayVars, readerVars, TokenInOnePlace
  <2>3. CASE RestartRelay
    BY <2>1, <2>3 DEF RestartRelay, readerVars, callVars, TokenInOnePlace
  <2>4. CASE Interrupt \/ Unpair \/ RefusedByRelay
    BY <2>1, <2>4 DEF Interrupt, Unpair, RefusedByRelay, HangUp, relayVars, callVars, TokenInOnePlace
  <2> QED
    BY <1>1, <2>2, <2>3, <2>4
<1>2. ASSUME NEW c \in Code, Claim(c) PROVE Promise!Next
  <2>1. Place(c) = "unmade" /\ Place(c)' = "relay"
    BY <1>2 DEF Claim, readerVars, callVars, TokenInOnePlace, Provenance
  <2>2. \A d \in Code : d # c => Place(d)' = Place(d)
    BY <1>2 DEF Claim, readerVars, callVars
  <2>3. Promise!Make(c)
    BY <2>1, <2>2, OneMoves DEF Promise!Make
  <2> QED
    BY <2>3 DEF Promise!Next
<1>3. ASSUME NEW c \in Code, HandOver(c) PROVE [Promise!Next]_Placed
  <2>1. CASE c \in kept
    <3>1. Place(c) = "relay" /\ Place(c)' = "answer"
      BY <1>3, <2>1 DEF HandOver, Answer, Sent
    <3>2. \A d \in Code : d # c => Place(d)' = Place(d)
      BY <1>3, <2>1 DEF HandOver, Answer, Sent, readerVars
    <3>3. Promise!HandOver(c)
      BY <3>1, <3>2, OneMoves DEF Promise!HandOver
    <3> QED
      BY <3>3 DEF Promise!Next
  <2>2. CASE c \notin kept
    <3>1. \A d \in Code : Place(d)' = Place(d)
      BY <1>3, <2>2 DEF HandOver, Answer, Sent, readerVars
    <3> QED
      BY <3>1, SomeLost
  <2> QED
    BY <2>1, <2>2
<1>4. CASE PolledOk
  <2>1. CASE carried = None
    <3>1. \A d \in Code : Place(d)' = Place(d)
      BY <1>4, <2>1 DEF PolledOk, HangUp, relayVars
    <3> QED
      BY <3>1, SomeLost
  <2>2. ASSUME NEW c \in Code, carried = c PROVE Promise!Next
    <3>1. token = None /\ token' = c
      BY <1>4, <2>2 DEF PolledOk, PairsUnpaired
    <3>2. Place(c) = "answer"
      BY <1>4, <2>2 DEF PolledOk, TokenInOnePlace
    <3>3. Place(c)' = "reader" /\ \A d \in Code : d # c => Place(d)' = Place(d)
      BY <1>4, <2>2, <3>1, <3>2 DEF PolledOk, HangUp, relayVars
    <3>4. \A d \in Code : Placed[d] # "reader"
      BY <3>1 DEF Placed
    <3>5. Promise!Keep(c)
      BY <3>2, <3>3, <3>4, OneMoves DEF Promise!Keep, Placed
    <3> QED
      BY <3>5 DEF Promise!Next
  <2> QED
    BY <2>1, <2>2
<1>5. ASSUME NEW c \in Code,
             PairStart(c) \/ PollAnswered(c) \/ Revoke(c) \/ Age(c)
      PROVE  \A d \in Code : Place(d)' = Place(d)
  BY <1>5 DEF PairStart, PollAnswered, Revoke, Age, Answer, Sent, readerVars, callVars
<1>6. CASE \/ Started \/ PolledPending \/ PolledNo \/ StartPairing \/ Deadline \/ Poll
           \/ Finish \/ UNCHANGED pairingVars
  <2>1. \A d \in Code : Place(d)' = Place(d)
    BY <1>6 DEF Started, PolledPending, PolledNo, StartPairing, Deadline, Poll, Finish, Send,
       HangUp, pairingVars, relayVars, readerVars, callVars, PairsUnpaired
  <2> QED
    BY <2>1, SomeLost
<1> QED
  BY <1>1, <1>2, <1>3, <1>4, <1>5, <1>6, SomeLost DEF PairingNext, Exchange

\* A token is made by one claim, handed over once, kept by one reader, and never
\* found again once it is lost (device.js:59-65, dashboard.js:649-657).
THEOREM ImplementsPromise == PairingSpec => KeepsItsPromise
<1>1. PairingInit => Promise!Init
  <2> SUFFICES ASSUME PairingInit PROVE Promise!Init
    OBVIOUS
  <2>1. \A c \in Code : Place(c) = "unmade"
    BY PairingAssumption DEF PairingInit, Place, OnWire
  <2> QED
    BY <2>1 DEF Promise!Init
<1>2. PairingInv /\ [PairingNext]_pairingVars => [Promise!Next]_Placed
  BY PromiseStep
<1> QED
  BY <1>1, <1>2, PairingInductive, PTL DEF PairingSpec, KeepsItsPromise, Promise!Spec, Placed
=============================================================================
