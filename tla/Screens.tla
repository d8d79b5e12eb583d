------------------------------- MODULE Screens -------------------------------
(***************************************************************************)
(* Screens and the task that draws them (activities/ActivityManager.cpp).  *)
(*                                                                         *)
(* The main task runs ActivityManager::loop: it lets the current activity  *)
(* handle input, then carries out what the activity asked for, pushing,    *)
(* popping or replacing activities under the rendering mutex, then passes  *)
(* a deferred update on.  The render task sleeps until it is notified,     *)
(* takes the mutex and draws the current activity; it keeps the mutex      *)
(* until it has told a task that waits in requestUpdateAndWait().  Drawing *)
(* takes as long as the e-ink panel does, and the main task goes on.       *)
(*                                                                         *)
(* What a screen shows is one bit: "dirty" says that the state changed     *)
(* since the last drawing of it began.  A task's notification count is one *)
(* bit too, because both tasks clear it when they take it.  A critical     *)
(* section of the main task that neither draws nor waits is one step.      *)
(***************************************************************************)
EXTENDS Naturals, Sequences

CONSTANTS Act,          \* activity objects, an object deleted may be made again
          SleepScreen,  \* the SleepActivity of goToSleep
          None,         \* no activity: a null pointer, or no handler
          OutOfMemory,  \* may makeUniqueNoThrow return null to an unchecked push?
          MaxCalls      \* bound: changes and navigation calls in one iteration

ASSUME ScreensAssumption ==
  /\ None \notin Act /\ SleepScreen \notin Act /\ None # SleepScreen
  /\ OutOfMemory \in BOOLEAN
  /\ MaxCalls \in Nat

VARIABLES
  current,    \* currentActivity
  handler,    \* its resultHandler: the activity it was registered for
  stack,      \* stackActivities, each with its resultHandler
  pending,    \* pendingActivity
  action,     \* pendingAction
  requested,  \* requestedUpdate
  sleeping,   \* deepSleepInProgress: this loop() is goToSleep's
  main,       \* where the main task is
  ctx,        \* whose code "run" is: the activity's loop, a handler, an onEnter
  calls,      \* calls made in this iteration
  waiter,     \* waitingTaskHandle is set
  note,       \* the main task has been notified
  render,     \* where the render task is
  rnote,      \* the render task has been notified
  drawing,    \* the activity whose render() runs
  lock,       \* holder of renderingMutex
  dirty,      \* the screen's state changed since its last drawing began
  bare        \* history: that change was made without the RenderLock

nav    == <<current, handler, stack, pending, action>>
signal == <<waiter, note, rnote>>
drawer == <<render, drawing, lock>>
change == <<dirty, bare>>
vars   == <<nav, requested, sleeping, main, ctx, calls, signal, drawer, change>>

-----------------------------------------------------------------------------
Screen == Act \cup {SleepScreen}
Frame  == [act : Screen, handler : Act \cup {None}]

MainSteps   == {"top", "run", "changed", "notify", "wait", "pending", "gohome",
                "home", "asleep"}
RenderSteps == {"blocked", "lock", "draw", "report", "unlock"}

TypeOK ==
  /\ current \in Screen \cup {None} /\ handler \in Act \cup {None}
  /\ stack \in Seq(Frame)
  /\ pending \in Screen \cup {None} /\ action \in {"none", "push", "pop", "replace"}
  /\ requested \in BOOLEAN /\ sleeping \in BOOLEAN /\ dirty \in BOOLEAN /\ bare \in BOOLEAN
  /\ main \in MainSteps /\ ctx \in {"loop", "handler", "enter"} /\ calls \in Nat
  /\ waiter \in BOOLEAN /\ note \in BOOLEAN /\ rnote \in BOOLEAN
  /\ render \in RenderSteps /\ drawing \in Screen \cup {None} /\ lock \in {"none", "render"}

\* setup() leaves the first activity entered, or the boot splash to replace.
Init ==
  /\ current \in Act /\ handler = None /\ stack = <<>>
  /\ \/ pending = None /\ action = "none" /\ requested = TRUE
     \/ pending \in Act \ {current} /\ action = "replace" /\ requested = FALSE
  /\ dirty = requested /\ bare = FALSE
  /\ sleeping = FALSE
  /\ main = "top" /\ ctx = "loop" /\ calls = 0
  /\ waiter = FALSE /\ note = FALSE /\ rnote = FALSE
  /\ render = "blocked" /\ drawing = None /\ lock = "none"

-----------------------------------------------------------------------------
\* An address no live activity has.
Free(a) == /\ a \in Act /\ a \notin {current, pending}
           /\ \A i \in DOMAIN stack : stack[i].act # a

\* ActivityManager::loop returns; after goToSleep's, the device sleeps.
Return == main' = IF sleeping THEN "asleep" ELSE "top"

\* Navigation calls; each deletes an activity that was still pending.
CallReplace(a) == pending' = a /\ action' = "replace" /\ UNCHANGED <<current, handler, stack>>
CallPush(a, h) == pending' = a /\ action' = "push" /\ handler' = h /\ UNCHANGED <<current, stack>>
CallPop        == pending' = None /\ action' = "pop" /\ UNCHANGED <<current, handler, stack>>

-----------------------------------------------------------------------------
\* The start of an iteration.

\* enterDeepSleep: goToSleep replaces the activity and runs loop() once.
GoToSleep ==
  /\ main = "top" /\ ~sleeping
  /\ sleeping' = TRUE
  /\ CallReplace(SleepScreen)
  /\ UNCHANGED <<requested, main, ctx, calls, signal, drawer, change>>

\* The release of a long press is swallowed with the whole iteration.
SuppressedRelease ==
  /\ main = "top" /\ sleeping
  /\ Return
  /\ UNCHANGED <<nav, requested, sleeping, ctx, calls, signal, drawer, change>>

\* Gestures and main.cpp's power button navigate and return at once.
HomeGesture(a) ==
  /\ main = "top" /\ Free(a)
  /\ CallReplace(a)
  /\ Return
  /\ UNCHANGED <<requested, sleeping, ctx, calls, signal, drawer, change>>

PanelGesture(a) ==
  /\ main = "top" /\ Free(a)
  /\ CallPush(a, handler)
  /\ Return
  /\ UNCHANGED <<requested, sleeping, ctx, calls, signal, drawer, change>>

BeginLoop ==
  /\ main = "top"
  /\ main' = "run"
  /\ UNCHANGED <<nav, requested, sleeping, ctx, calls, signal, drawer, change>>

-----------------------------------------------------------------------------
\* What the code of an activity does: loop(), onEnter() and result handlers.
Calls == main = "run" /\ calls < MaxCalls /\ calls' = calls + 1

\* A change of what render() reads, after which an update is requested.  Some
\* activities take the RenderLock for it; the settings screen that announces a
\* blocking sync does not.
Change ==
  /\ Calls
  /\ \/ lock = "none" /\ bare' = FALSE
     \/ bare' = TRUE
  /\ dirty' = TRUE
  /\ main' = "changed"
  /\ UNCHANGED <<nav, requested, sleeping, ctx, signal, drawer>>

RequestLater ==
  /\ main = "changed"
  /\ requested' = TRUE /\ main' = "run"
  /\ UNCHANGED <<nav, sleeping, ctx, calls, signal, drawer, change>>

RequestNow ==
  /\ main = "changed"
  /\ rnote' = TRUE /\ main' = "run"
  /\ UNCHANGED <<nav, requested, sleeping, ctx, calls, waiter, note, drawer, change>>

\* Mutant: called with the RenderLock still held.
RequestAndWaitHolding ==
  /\ main = "changed" /\ lock = "none"
  /\ waiter' = TRUE /\ main' = "notify" /\ lock' = "main"
  /\ UNCHANGED <<nav, requested, sleeping, ctx, calls, note, rnote, render, drawing, change>>

\* requestUpdateAndWait: register, notify, and block.
RequestAndWait ==
  /\ main = "changed"
  /\ waiter' = TRUE /\ main' = "notify"
  /\ UNCHANGED <<nav, requested, sleeping, ctx, calls, note, rnote, drawer, change>>

NotifyRender ==
  /\ main = "notify"
  /\ rnote' = TRUE /\ main' = "wait"
  /\ UNCHANGED <<nav, requested, sleeping, ctx, calls, waiter, note, drawer, change>>

Woken ==
  /\ main = "wait" /\ note
  /\ note' = FALSE /\ main' = "run"
  /\ UNCHANGED <<nav, requested, sleeping, ctx, calls, waiter, rnote, drawer, change>>

Navigate(a) ==
  /\ Calls /\ Free(a)
  /\ CallReplace(a)
  /\ UNCHANGED <<requested, sleeping, main, ctx, signal, drawer, change>>

\* startActivityForResult, with a handler or without.
StartForResult(a) ==
  /\ Calls /\ Free(a)
  /\ \E h \in {a, None} : CallPush(a, h)
  /\ UNCHANGED <<requested, sleeping, main, ctx, signal, drawer, change>>

\* The same with an activity whose allocation failed.
StartNothing ==
  /\ Calls /\ OutOfMemory
  /\ CallPush(None, None)
  /\ UNCHANGED <<requested, sleeping, main, ctx, signal, drawer, change>>

Finish ==
  /\ Calls
  /\ CallPop
  /\ UNCHANGED <<requested, sleeping, main, ctx, signal, drawer, change>>

\* loop() leaves nothing to do; a handler is followed by an update unless it
\* navigated, and an onEnter requests one itself.
RunReturns ==
  /\ main = "run"
  /\ main' = "pending" /\ ctx' = "loop"
  /\ requested' = (requested \/ (ctx # "loop" /\ action = "none"))
  /\ UNCHANGED <<nav, sleeping, calls, signal, drawer, change>>

-----------------------------------------------------------------------------
\* The pending actions, each carried out under the rendering mutex.

\* Mutant: the activity is deleted without the RenderLock.
ReplaceUnlocked ==
  /\ main = "pending" /\ action = "replace" /\ pending # None
  /\ current' = pending /\ handler' = None /\ stack' = <<>>
  /\ pending' = None /\ action' = "none"
  /\ dirty' = TRUE /\ bare' = FALSE /\ main' = "run" /\ ctx' = "enter"
  /\ UNCHANGED <<requested, sleeping, calls, signal, drawer>>

Replace ==
  /\ main = "pending" /\ action = "replace" /\ pending # None
  /\ lock = "none"
  /\ current' = pending /\ handler' = None /\ stack' = <<>>
  /\ pending' = None /\ action' = "none"
  /\ dirty' = TRUE /\ bare' = FALSE /\ main' = "run" /\ ctx' = "enter"
  /\ UNCHANGED <<requested, sleeping, calls, signal, drawer>>

Push ==
  /\ main = "pending" /\ action = "push" /\ pending # None
  /\ lock = "none"
  /\ stack' = Append(stack, [act |-> current, handler |-> handler])
  /\ current' = pending /\ handler' = None
  /\ pending' = None /\ action' = "none"
  /\ dirty' = TRUE /\ bare' = FALSE /\ main' = "run" /\ ctx' = "enter"
  /\ UNCHANGED <<requested, sleeping, calls, signal, drawer>>

\* The activity below, and its handler if it has one.
Below == stack[Len(stack)]

\* Mutant: the handler stays registered after it has run.
PopKeepingHandler ==
  /\ main = "pending" /\ action = "pop" /\ stack # <<>>
  /\ lock = "none"
  /\ current' = Below.act /\ handler' = Below.handler
  /\ stack' = SubSeq(stack, 1, Len(stack) - 1)
  /\ action' = "none" /\ dirty' = TRUE /\ bare' = FALSE
  /\ IF Below.handler # None
     THEN main' = "run" /\ ctx' = "handler" /\ UNCHANGED requested
     ELSE requested' = TRUE /\ UNCHANGED <<main, ctx>>
  /\ UNCHANGED <<pending, sleeping, calls, signal, drawer>>

Pop ==
  /\ main = "pending" /\ action = "pop" /\ stack # <<>>
  /\ lock = "none"
  /\ current' = Below.act /\ handler' = None
  /\ stack' = SubSeq(stack, 1, Len(stack) - 1)
  /\ action' = "none" /\ dirty' = TRUE /\ bare' = FALSE
  /\ IF Below.handler # None
     THEN main' = "run" /\ ctx' = "handler" /\ UNCHANGED requested
     ELSE requested' = TRUE /\ UNCHANGED <<main, ctx>>
  /\ UNCHANGED <<pending, sleeping, calls, signal, drawer>>

\* Nothing below: the activity is deleted, and goHome finds none to replace.
PopLast ==
  /\ main = "pending" /\ action = "pop" /\ stack = <<>>
  /\ lock = "none"
  /\ current' = None /\ handler' = None /\ action' = "none"
  /\ main' = "gohome"
  /\ UNCHANGED <<stack, pending, requested, sleeping, ctx, calls, signal, drawer, change>>

GoHome(a) ==
  /\ main = "gohome" /\ Free(a)
  /\ current' = a /\ main' = "home"
  /\ UNCHANGED <<handler, stack, pending, action, requested, sleeping, ctx, calls, signal,
                 drawer, change>>

\* HomeActivity::onEnter loads the recent books and requests an update.
HomeEntered ==
  /\ main = "home"
  /\ dirty' = TRUE /\ bare' = FALSE /\ requested' = TRUE /\ main' = "pending"
  /\ UNCHANGED <<nav, sleeping, ctx, calls, signal, drawer>>

EndLoop ==
  /\ main = "pending" /\ action = "none"
  /\ requested' = FALSE /\ rnote' = (rnote \/ requested)
  /\ Return /\ calls' = 0
  /\ UNCHANGED <<nav, sleeping, ctx, waiter, note, drawer, change>>

-----------------------------------------------------------------------------
\* The render task.

Notified ==
  /\ render = "blocked" /\ rnote
  /\ rnote' = FALSE /\ render' = "lock"
  /\ UNCHANGED <<nav, requested, sleeping, main, ctx, calls, waiter, note, drawing, lock, change>>

LockForDrawing ==
  /\ render = "lock" /\ lock = "none"
  /\ lock' = "render"
  /\ drawing' = current
  /\ IF current = None THEN render' = "report" /\ UNCHANGED change
                       ELSE render' = "draw" /\ dirty' = FALSE /\ bare' = FALSE
  /\ UNCHANGED <<nav, requested, sleeping, main, ctx, calls, signal>>

\* Mutant: render() takes the lock by value and gives it back when it ends.
DrawnUnlocking ==
  /\ render = "draw"
  /\ render' = "report" /\ drawing' = None /\ lock' = "none"
  /\ UNCHANGED <<nav, requested, sleeping, main, ctx, calls, signal, change>>

\* render() is handed a reference to the lock, so it is still held after it.
Drawn ==
  /\ render = "draw"
  /\ render' = "report" /\ drawing' = None
  /\ UNCHANGED <<nav, requested, sleeping, main, ctx, calls, signal, lock, change>>

TellWaiter ==
  /\ render = "report"
  /\ waiter' = FALSE /\ note' = (note \/ waiter)
  /\ render' = "unlock"
  /\ UNCHANGED <<nav, requested, sleeping, main, ctx, calls, rnote, drawing, lock, change>>

\* Mutant: the notification is cleared when the drawing is done.
UnlockClearing ==
  /\ render = "unlock"
  /\ lock' = "none" /\ render' = "blocked" /\ rnote' = FALSE
  /\ UNCHANGED <<nav, requested, sleeping, main, ctx, calls, waiter, note, drawing, change>>

Unlock ==
  /\ render = "unlock"
  /\ lock' = "none" /\ render' = "blocked"
  /\ UNCHANGED <<nav, requested, sleeping, main, ctx, calls, signal, drawing, change>>

-----------------------------------------------------------------------------
Gesture == SuppressedRelease \/ \E a \in Act : HomeGesture(a) \/ PanelGesture(a)

Activity ==
  \/ Change \/ RequestLater \/ RequestNow \/ RequestAndWait \/ NotifyRender \/ Woken
  \/ \E a \in Act : Navigate(a) \/ StartForResult(a)
  \/ StartNothing \/ Finish \/ RunReturns

Carry ==
  \/ Replace \/ Push \/ Pop \/ PopLast
  \/ \E a \in Act : GoHome(a)
  \/ HomeEntered \/ EndLoop

Draw == Notified \/ LockForDrawing \/ Drawn \/ TellWaiter \/ Unlock

Next == GoToSleep \/ Gesture \/ BeginLoop \/ Activity \/ Carry \/ Draw

Spec == Init /\ [][Next]_vars

\* The main task goes on calling loop(), the code of an activity returns, and
\* both tasks are scheduled.  The mutex is let go again and again, and the main
\* task sleeps between iterations without it, so the render task gets it.
Fairness ==
  /\ WF_vars(BeginLoop) /\ WF_vars(Activity) /\ SF_vars(Carry)
  /\ WF_vars(Draw) /\ SF_vars(LockForDrawing)

FairSpec == Spec /\ Fairness

-----------------------------------------------------------------------------
(* The render task never draws an activity the main task deletes or swaps     *)
(* meanwhile: "avoid a TOCTOU race where the main task deletes the activity   *)
(* between the null-check and render()" (ActivityManager.cpp:56-57).          *)
DrawsTheCurrent == render = "draw" => drawing = current

(* A result goes to the handler that was registered for the activity it comes *)
(* from, though screens are also pushed with no handler of their own          *)
(* (ActivityManager.cpp:114, 150-157): the handler reads it as one type.      *)
ResultGoesToItsHandler ==
  [][main = "pending" /\ main' = "run" /\ ctx' = "handler" => Below.handler = current]_vars

(* requestUpdateAndWait returns with the caller's last change drawn, if the   *)
(* change was made under the RenderLock: the drawing that ended may have been *)
(* asked for earlier, but it began after the change.  A change made without   *)
(* the lock may fall into a drawing already under way, whose end wakes the    *)
(* caller: then the drawing that shows it has been asked for or waits for the *)
(* lock, and shows "syncing" at some time of the blocking call it was to      *)
(* announce, not before it (docs/activity-manager.md:215, 350-373,            *)
(* InkAgentSettingsActivity.cpp:104-109).                                     *)
WaitShowsTheChange ==
  [][main = "wait" /\ main' = "run" => ~dirty \/ (bare /\ (rnote \/ render = "lock"))]_vars

\* An activity that could not be allocated waits to be pushed: the loop over
\* pendingAction turns on it for ever (ActivityManager.cpp:122, 169).
Stuck == main = "pending" /\ action = "push" /\ pending = None

(* No update is lost, however they are requested and whatever is navigated    *)
(* meanwhile: what changed is drawn, unless the last screen was closed, the   *)
(* device goes to sleep or loop() is stuck ("multiple rapid calls won't be    *)
(* lost", ActivityManager.cpp:199).                                           *)
ChangesAreDrawn == dirty ~> ~dirty \/ current = None \/ main = "asleep" \/ Stuck

(* Every iteration of loop() comes to an end, with waits for the render task, *)
(* nested navigation and the mutex: neither task waits on the other forever.  *)
LoopReturns == main \notin {"top", "asleep"} ~> main \in {"top", "asleep"} \/ Stuck

=============================================================================
