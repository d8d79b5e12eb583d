---------------------------- MODULE ScreensProofs ----------------------------
(***************************************************************************)
(* For any number of activities, calls and nested screens: what is drawn   *)
(* is the current activity, a result reaches the handler it was meant for, *)
(* and a wait ends with the change drawn, or asked for if it was made      *)
(* without the lock.                                                       *)
(***************************************************************************)
EXTENDS Screens, SequenceTheorems, TLAPS

-----------------------------------------------------------------------------
\* The render task holds the mutex from before it reads currentActivity until
\* after it told the waiter.
LockHeld == lock = "render" <=> render \in {"draw", "report", "unlock"}

\* There is a current activity but for the moment before goHome.
HasCurrent ==
  /\ current = None <=> main = "gohome"
  /\ main = "gohome" => stack = <<>>
  /\ render = "draw" => drawing # None

\* A registered handler waits for the activity above, or the one to be pushed.
HandlersMatch ==
  /\ \A i \in 1..Len(stack) :
       stack[i].handler # None =>
         stack[i].handler = IF i < Len(stack) THEN stack[i + 1].act ELSE current
  /\ handler # None => \/ action \in {"pop", "replace"}
                       \/ action = "push" /\ pending = handler
  /\ main \in {"top", "gohome", "home"} => handler = None

SafeInv == TypeOK /\ LockHeld /\ DrawsTheCurrent /\ HasCurrent /\ HandlersMatch

\* While the main task waits, or is about to, a drawing under way has read the
\* change unless that was made without the lock, a notification tells of such a
\* drawing, and whoever waits has asked for one that will read it.
WaitInv ==
  /\ waiter => main \in {"notify", "wait"}
  /\ note => main \in {"notify", "wait"} /\ (dirty => bare) /\ ~waiter
  /\ main \in {"changed", "notify", "wait"} /\ lock = "render" => (dirty => bare)
  /\ main = "wait" => (dirty => rnote \/ render = "lock")

(* A number that is not 0 and whose predecessor is below 1 is 1. *)
LEMMA NoneBelow ==
  ASSUME NEW n \in Nat, n # 0, ~(1 <= n - 1)
  PROVE  n - 1 = 0
OBVIOUS

-----------------------------------------------------------------------------
LEMMA StackTop ==
  ASSUME TypeOK, stack # <<>>
  PROVE  /\ Len(stack) \in Nat \ {0}
         /\ Below \in Frame /\ Below.act # None
         /\ SubSeq(stack, 1, Len(stack) - 1) \in Seq(Frame)
         /\ Len(SubSeq(stack, 1, Len(stack) - 1)) = Len(stack) - 1
         /\ \A i \in 1..(Len(stack) - 1) : SubSeq(stack, 1, Len(stack) - 1)[i] = stack[i]
<1>1. stack \in Seq(Frame) /\ Len(stack) \in Nat /\ Len(stack) # 0
  BY EmptySeq DEF TypeOK
<1>2. Below \in Frame /\ Below.act # None
  <2>1. Below \in Frame
    BY <1>1, ElementOfSeq DEF Below
  <2> QED
    BY <2>1, ScreensAssumption DEF Frame, Screen
<1>3. 1 \in Int /\ Len(stack) - 1 \in Int /\ \A i \in 1..(Len(stack) - 1) : stack[i] \in Frame
  BY <1>1, ElementOfSeq
<1>4. /\ SubSeq(stack, 1, Len(stack) - 1) \in Seq(Frame)
      /\ Len(SubSeq(stack, 1, Len(stack) - 1))
           = IF 1 <= Len(stack) - 1 THEN (Len(stack) - 1) - 1 + 1 ELSE 0
      /\ \A i \in 1..((Len(stack) - 1) - 1 + 1) :
           SubSeq(stack, 1, Len(stack) - 1)[i] = stack[1 + i - 1]
  BY <1>1, <1>3, SubSeqProperties
<1>5. ASSUME NEW i \in 1..(Len(stack) - 1)
      PROVE  SubSeq(stack, 1, Len(stack) - 1)[i] = stack[i]
  <2>1. i \in 1..((Len(stack) - 1) - 1 + 1) /\ 1 + i - 1 = i
    BY <1>1
  <2> QED
    BY <1>4, <2>1
<1>6. Len(SubSeq(stack, 1, Len(stack) - 1)) = Len(stack) - 1
  <2>1. CASE 1 <= Len(stack) - 1
    <3>1. (Len(stack) - 1) - 1 + 1 = Len(stack) - 1
      BY <1>1
    <3> QED
      BY <1>4, <2>1, <3>1
  <2>2. CASE ~(1 <= Len(stack) - 1)
    <3>1. Len(stack) - 1 = 0
      BY <1>1, <2>2, NoneBelow
    <3> QED
      BY <1>4, <2>2, <3>1
  <2> QED
    BY <2>1, <2>2
<1> QED
  BY <1>1, <1>2, <1>4, <1>5, <1>6

LEMMA SafeInit == Init => SafeInv
<1> SUFFICES ASSUME Init PROVE SafeInv
  OBVIOUS
<1>1. stack \in Seq(Frame) /\ Len(stack) = 0
  BY EmptySeq DEF Init
<1>2. TypeOK
  BY <1>1, ScreensAssumption DEF Init, TypeOK, Screen, MainSteps, RenderSteps
<1> QED
  BY <1>1, <1>2, ScreensAssumption
  DEF Init, SafeInv, LockHeld, DrawsTheCurrent, HasCurrent, HandlersMatch

LEMMA TypeStep == SafeInv /\ [Next]_vars => TypeOK'
<1> SUFFICES ASSUME SafeInv, [Next]_vars PROVE TypeOK'
  OBVIOUS
<1> USE DEF SafeInv, TypeOK, Screen, MainSteps, RenderSteps
<1>1. CASE GoToSleep \/ Gesture \/ BeginLoop
  <2>1. stack' \in Seq(Frame)
    BY <1>1 DEF GoToSleep, Gesture, BeginLoop, SuppressedRelease, HomeGesture, PanelGesture,
              Return, CallReplace, CallPush, Free, signal, drawer, change, nav
  <2>2. requested' \in BOOLEAN /\ sleeping' \in BOOLEAN /\ waiter' \in BOOLEAN
    BY <1>1 DEF GoToSleep, Gesture, BeginLoop, SuppressedRelease, HomeGesture, PanelGesture,
              Return, CallReplace, CallPush, Free, signal, drawer, change, nav
  <2>3. note' \in BOOLEAN /\ rnote' \in BOOLEAN
    BY <1>1 DEF GoToSleep, Gesture, BeginLoop, SuppressedRelease, HomeGesture, PanelGesture,
              Return, CallReplace, CallPush, Free, signal, drawer, change, nav
  <2>4. dirty' \in BOOLEAN /\ bare' \in BOOLEAN
    BY <1>1 DEF GoToSleep, Gesture, BeginLoop, SuppressedRelease, HomeGesture, PanelGesture,
              Return, CallReplace, CallPush, Free, signal, drawer, change, nav
  <2> QED
    BY <1>1, <2>1, <2>2, <2>3, <2>4 DEF GoToSleep, Gesture, BeginLoop, SuppressedRelease, HomeGesture, PanelGesture,
              Return, CallReplace, CallPush, Free, signal, drawer, change, nav
<1>2. CASE Activity
  <2>1. stack' \in Seq(Frame)
    BY <1>2 DEF Activity, Change, RequestLater, RequestNow, RequestAndWait, NotifyRender, Woken,
              Navigate, StartForResult, StartNothing, Finish, RunReturns, Calls, CallReplace,
              CallPush, CallPop, Free, signal, drawer, change, nav
  <2>2. requested' \in BOOLEAN /\ sleeping' \in BOOLEAN /\ waiter' \in BOOLEAN
    BY <1>2 DEF Activity, Change, RequestLater, RequestNow, RequestAndWait, NotifyRender, Woken,
              Navigate, StartForResult, StartNothing, Finish, RunReturns, Calls, CallReplace,
              CallPush, CallPop, Free, signal, drawer, change, nav
  <2>3. note' \in BOOLEAN /\ rnote' \in BOOLEAN
    BY <1>2 DEF Activity, Change, RequestLater, RequestNow, RequestAndWait, NotifyRender, Woken,
              Navigate, StartForResult, StartNothing, Finish, RunReturns, Calls, CallReplace,
              CallPush, CallPop, Free, signal, drawer, change, nav
  <2>4. dirty' \in BOOLEAN /\ bare' \in BOOLEAN
    BY <1>2 DEF Activity, Change, RequestLater, RequestNow, RequestAndWait, NotifyRender, Woken,
              Navigate, StartForResult, StartNothing, Finish, RunReturns, Calls, CallReplace,
              CallPush, CallPop, Free, signal, drawer, change, nav
  <2> QED
    BY <1>2, <2>1, <2>2, <2>3, <2>4 DEF Activity, Change, RequestLater, RequestNow, RequestAndWait, NotifyRender, Woken,
              Navigate, StartForResult, StartNothing, Finish, RunReturns, Calls, CallReplace,
              CallPush, CallPop, Free, signal, drawer, change, nav
<1>3. CASE Replace
  <2>1. stack' \in Seq(Frame)
    BY <1>3, EmptySeq DEF Replace
  <2> QED
    BY <1>3, <2>1 DEF Replace, signal, drawer, change
<1>4. CASE Push
  <2>1. [act |-> current, handler |-> handler] \in Frame
    BY <1>4 DEF Push, Frame, HasCurrent
  <2>2. stack' \in Seq(Frame)
    BY <1>4, <2>1, AppendProperties DEF Push
  <2> QED
    BY <1>4, <2>2 DEF Push, signal, drawer, change
<1>5. CASE Pop
  <2>1. Below \in Frame /\ stack' \in Seq(Frame)
    BY <1>5, StackTop DEF Pop
  <2>2. current' \in Screen \cup {None} /\ requested' \in BOOLEAN
    BY <1>5, <2>1 DEF Pop, Frame
  <2>3. dirty' \in BOOLEAN /\ bare' \in BOOLEAN
    BY <1>5 DEF Pop
  <2>4. main' \in MainSteps /\ ctx' \in {"loop", "handler", "enter"}
    BY <1>5 DEF Pop
  <2>5. waiter' \in BOOLEAN /\ note' \in BOOLEAN /\ rnote' \in BOOLEAN /\ sleeping' \in BOOLEAN
    BY <1>5 DEF Pop, signal
  <2>6. render' \in RenderSteps /\ drawing' \in Screen \cup {None} /\ lock' \in {"none", "render"}
    BY <1>5 DEF Pop, drawer
  <2>7. handler' = None /\ action' = "none" /\ pending' = pending /\ calls' = calls
    BY <1>5 DEF Pop
  <2> QED
    BY <2>1, <2>2, <2>3, <2>4, <2>5, <2>6, <2>7
<1>6. CASE PopLast \/ (\E a \in Act : GoHome(a)) \/ HomeEntered \/ EndLoop
  <2>1. stack' \in Seq(Frame)
    BY <1>6 DEF PopLast, GoHome, HomeEntered, EndLoop, Return, Free, signal, drawer, change, nav
  <2>2. requested' \in BOOLEAN /\ sleeping' \in BOOLEAN /\ waiter' \in BOOLEAN
    BY <1>6 DEF PopLast, GoHome, HomeEntered, EndLoop, Return, Free, signal, drawer, change, nav
  <2>3. note' \in BOOLEAN /\ rnote' \in BOOLEAN
    BY <1>6 DEF PopLast, GoHome, HomeEntered, EndLoop, Return, Free, signal, drawer, change, nav
  <2>4. dirty' \in BOOLEAN /\ bare' \in BOOLEAN
    BY <1>6 DEF PopLast, GoHome, HomeEntered, EndLoop, Return, Free, signal, drawer, change, nav
  <2> QED
    BY <1>6, <2>1, <2>2, <2>3, <2>4 DEF PopLast, GoHome, HomeEntered, EndLoop, Return, Free, signal, drawer, change, nav
<1>7. CASE Draw
  <2>1. stack' \in Seq(Frame)
    BY <1>7 DEF Draw, Notified, LockForDrawing, Drawn, TellWaiter, Unlock, signal, nav, change
  <2>2. requested' \in BOOLEAN /\ sleeping' \in BOOLEAN /\ waiter' \in BOOLEAN
    BY <1>7 DEF Draw, Notified, LockForDrawing, Drawn, TellWaiter, Unlock, signal, nav, change
  <2>3. note' \in BOOLEAN /\ rnote' \in BOOLEAN
    BY <1>7 DEF Draw, Notified, LockForDrawing, Drawn, TellWaiter, Unlock, signal, nav, change
  <2>4. dirty' \in BOOLEAN /\ bare' \in BOOLEAN
    BY <1>7 DEF Draw, Notified, LockForDrawing, Drawn, TellWaiter, Unlock, signal, nav, change
  <2> QED
    BY <1>7, <2>1, <2>2, <2>3, <2>4 DEF Draw, Notified, LockForDrawing, Drawn, TellWaiter, Unlock, signal, nav, change
<1>8. CASE UNCHANGED vars
  BY <1>8 DEF vars, signal, drawer, change, nav
<1> QED
  BY <1>1, <1>2, <1>3, <1>4, <1>5, <1>6, <1>7, <1>8 DEF Next, Carry

LEMMA DrawStep == SafeInv /\ [Next]_vars => (LockHeld /\ DrawsTheCurrent)'
<1> SUFFICES ASSUME SafeInv, [Next]_vars PROVE (LockHeld /\ DrawsTheCurrent)'
  OBVIOUS
<1> USE DEF SafeInv, LockHeld, DrawsTheCurrent
<1>1. CASE GoToSleep \/ Gesture \/ BeginLoop \/ Activity
  BY <1>1 DEF GoToSleep, Gesture, BeginLoop, SuppressedRelease, HomeGesture, PanelGesture,
              CallReplace, CallPush, CallPop, Activity, Change, RequestLater, RequestNow,
              RequestAndWait, NotifyRender, Woken, Navigate, StartForResult, StartNothing,
              Finish, RunReturns, drawer, nav
<1>2. CASE Replace \/ Push \/ Pop \/ PopLast
  BY <1>2 DEF Replace, Push, Pop, PopLast, drawer
<1>3. CASE \E a \in Act : GoHome(a)
  <2>1. main = "gohome" /\ current' # None /\ UNCHANGED drawer
    BY <1>3, ScreensAssumption DEF GoHome, Free
  <2> QED
    BY <2>1 DEF drawer, HasCurrent
<1>4. CASE HomeEntered \/ EndLoop
  BY <1>4 DEF HomeEntered, EndLoop, drawer, nav
<1>5. CASE Draw
  BY <1>5 DEF Draw, Notified, LockForDrawing, Drawn, TellWaiter, Unlock, nav
<1>6. CASE UNCHANGED vars
  BY <1>6 DEF vars, drawer, nav
<1> QED
  BY <1>1, <1>2, <1>3, <1>4, <1>5, <1>6 DEF Next, Carry

LEMMA CurrentStep == SafeInv /\ [Next]_vars => HasCurrent'
<1> SUFFICES ASSUME SafeInv, [Next]_vars PROVE HasCurrent'
  OBVIOUS
<1> USE DEF SafeInv, HasCurrent
<1>1. CASE GoToSleep \/ Gesture \/ BeginLoop \/ Activity
  BY <1>1 DEF GoToSleep, Gesture, BeginLoop, SuppressedRelease, HomeGesture, PanelGesture,
              Return, CallReplace, CallPush, CallPop, Activity, Change, RequestLater,
              RequestNow, RequestAndWait, NotifyRender, Woken, Navigate, StartForResult,
              StartNothing, Finish, RunReturns, Calls, drawer, nav
<1>2. CASE Replace \/ Push \/ PopLast
  BY <1>2 DEF Replace, Push, PopLast, drawer
<1>3. CASE Pop
  <2>1. current' # None
    BY <1>3, StackTop DEF Pop
  <2> QED
    BY <1>3, <2>1 DEF Pop, drawer
<1>4. CASE (\E a \in Act : GoHome(a)) \/ HomeEntered \/ EndLoop
  BY <1>4, ScreensAssumption DEF GoHome, Free, HomeEntered, EndLoop, Return, drawer, nav
<1>5. CASE Draw
  BY <1>5 DEF Draw, Notified, LockForDrawing, Drawn, TellWaiter, Unlock, nav
<1>6. CASE UNCHANGED vars
  BY <1>6 DEF vars, drawer, nav
<1> QED
  BY <1>1, <1>2, <1>3, <1>4, <1>5, <1>6 DEF Next, Carry

LEMMA HandlerStep == SafeInv /\ [Next]_vars => HandlersMatch'
<1> SUFFICES ASSUME SafeInv, [Next]_vars PROVE HandlersMatch'
  OBVIOUS
<1> USE DEF SafeInv, HandlersMatch
<1>1. CASE GoToSleep \/ Gesture \/ BeginLoop
  BY <1>1 DEF GoToSleep, Gesture, BeginLoop, SuppressedRelease, HomeGesture, PanelGesture,
              Return, CallReplace, CallPush, nav
<1>2. CASE Activity
  BY <1>2 DEF Activity, Change, RequestLater, RequestNow, RequestAndWait, NotifyRender, Woken,
              Navigate, StartForResult, StartNothing, Finish, RunReturns, Calls, CallReplace,
              CallPush, CallPop, nav
<1>3. CASE Replace
  <2>1. Len(stack') = 0 /\ handler' = None
    BY <1>3, EmptySeq DEF Replace
  <2> QED
    BY <2>1
<1>4. CASE Push
  <2> DEFINE frame == [act |-> current, handler |-> handler]
  <2>1. frame \in Frame /\ stack \in Seq(Frame)
    BY <1>4 DEF Push, Frame, HasCurrent, TypeOK
  <2>2. /\ Len(stack') = Len(stack) + 1 /\ Len(stack) \in Nat
        /\ \A i \in 1..Len(stack) : stack'[i] = stack[i]
        /\ stack'[Len(stack) + 1] = frame
    BY <1>4, <2>1, AppendProperties, LenProperties DEF Push
  <2>3. handler # None => handler = current'
    BY <1>4 DEF Push
  <2>4. ASSUME NEW i \in 1..Len(stack'), stack'[i].handler # None
        PROVE  stack'[i].handler = IF i < Len(stack') THEN stack'[i + 1].act ELSE current'
    <3>1. CASE i = Len(stack) + 1
      BY <2>2, <2>3, <2>4, <3>1
    <3>2. CASE i = Len(stack)
      BY <2>2, <2>4, <3>2
    <3>3. CASE i < Len(stack)
      BY <2>2, <2>4, <3>3
    <3> QED
      BY <2>2, <3>1, <3>2, <3>3
  <2> QED
    BY <1>4, <2>4 DEF Push
<1>5. CASE Pop
  <2>1. /\ Len(stack) \in Nat \ {0} /\ Len(stack') = Len(stack) - 1
        /\ \A i \in 1..(Len(stack) - 1) : stack'[i] = stack[i]
    BY <1>5, StackTop DEF Pop
  <2>2. current' = stack[Len(stack)].act /\ handler' = None
    BY <1>5 DEF Pop, Below
  <2>3. ASSUME NEW i \in 1..Len(stack'), stack'[i].handler # None
        PROVE  stack'[i].handler = IF i < Len(stack') THEN stack'[i + 1].act ELSE current'
    BY <2>1, <2>2, <2>3
  <2> QED
    BY <2>2, <2>3
<1>6. CASE PopLast \/ (\E a \in Act : GoHome(a)) \/ HomeEntered
  <2>1. CASE PopLast
    <3>1. Len(stack') = 0 /\ handler' = None
      BY <2>1, EmptySeq DEF PopLast
    <3> QED
      BY <3>1
  <2>2. CASE \E a \in Act : GoHome(a)
    <3>1. Len(stack') = 0 /\ handler' = None
      BY <2>2, EmptySeq DEF GoHome, HasCurrent
    <3> QED
      BY <3>1
  <2>3. CASE HomeEntered
    BY <2>3 DEF HomeEntered, nav
  <2> QED
    BY <1>6, <2>1, <2>2, <2>3
<1>7. CASE EndLoop
  BY <1>7 DEF EndLoop, nav
<1>8. CASE Draw
  BY <1>8 DEF Draw, Notified, LockForDrawing, Drawn, TellWaiter, Unlock, nav
<1>9. CASE UNCHANGED vars
  BY <1>9 DEF vars, nav
<1> QED
  BY <1>1, <1>2, <1>3, <1>4, <1>5, <1>6, <1>7, <1>8, <1>9 DEF Next, Carry

LEMMA WaitStep == SafeInv /\ WaitInv /\ [Next]_vars => WaitInv'
<1> SUFFICES ASSUME SafeInv, WaitInv, [Next]_vars PROVE WaitInv'
  OBVIOUS
<1> USE DEF SafeInv, WaitInv, LockHeld
<1>1. CASE GoToSleep \/ Gesture \/ BeginLoop
  BY <1>1 DEF GoToSleep, Gesture, BeginLoop, SuppressedRelease, HomeGesture, PanelGesture,
              Return, signal, drawer, change
<1>2. CASE Activity
  <2>1. CASE Change
    BY <2>1 DEF Change, Calls, signal, drawer, change
  <2>2. CASE RequestLater \/ RequestNow \/ NotifyRender
    BY <2>2 DEF RequestLater, RequestNow, NotifyRender, signal, drawer, change
  <2>3. CASE RequestAndWait
    BY <2>3 DEF RequestAndWait, drawer, change
  <2>4. CASE Woken
    BY <2>4 DEF Woken, drawer, change, TypeOK
  <2>5. CASE (\E a \in Act : Navigate(a) \/ StartForResult(a)) \/ StartNothing \/ Finish \/ RunReturns
    BY <2>5 DEF Navigate, StartForResult, StartNothing, Finish, RunReturns, Calls, signal, drawer, change
  <2> QED
    BY <1>2, <2>1, <2>2, <2>3, <2>4, <2>5 DEF Activity
<1>3. CASE Carry
  BY <1>3 DEF Carry, Replace, Push, Pop, PopLast, GoHome, HomeEntered, EndLoop, Return, signal,
              drawer, change
<1>4. CASE Draw
  <2>1. CASE LockForDrawing
    BY <2>1 DEF LockForDrawing, signal, HasCurrent
  <2>2. CASE TellWaiter
    BY <2>2 DEF TellWaiter, TypeOK, change
  <2>3. CASE Notified \/ Drawn \/ Unlock
    BY <2>3 DEF Notified, Drawn, Unlock, signal, change
  <2> QED
    BY <1>4, <2>1, <2>2, <2>3 DEF Draw
<1>5. CASE UNCHANGED vars
  BY <1>5 DEF vars, signal, drawer, change
<1> QED
  BY <1>1, <1>2, <1>3, <1>4, <1>5 DEF Next

-----------------------------------------------------------------------------
\* The inductive invariant holds in every reachable state.
THEOREM Inductive == Spec => []SafeInv
<1>1. SafeInv /\ [Next]_vars => SafeInv'
  BY TypeStep, DrawStep, CurrentStep, HandlerStep DEF SafeInv
<1> QED
  BY <1>1, SafeInit, PTL DEF Spec

\* Types, for any set of activities.
THEOREM TypeCorrect == Spec => []TypeOK
<1>1. SafeInv => TypeOK
  BY DEF SafeInv
<1> QED
  BY <1>1, Inductive, PTL

\* The activity being drawn is never deleted under the render task.
THEOREM DrawsALiveActivity == Spec => []DrawsTheCurrent
<1>1. SafeInv => DrawsTheCurrent
  BY DEF SafeInv
<1> QED
  BY <1>1, Inductive, PTL

\* However deep screens nest, a result reaches the handler meant for it.
THEOREM ResultsAreMatched == Spec => ResultGoesToItsHandler
<1>1. SafeInv /\ [Next]_vars =>
        [main = "pending" /\ main' = "run" /\ ctx' = "handler" => Below.handler = current]_vars
  <2> SUFFICES ASSUME SafeInv, [Next]_vars, main = "pending", main' = "run", ctx' = "handler"
               PROVE  Below.handler = current
    OBVIOUS
  <2>1. Pop /\ Below.handler # None
    <3>1. ~(GoToSleep \/ Gesture \/ BeginLoop \/ Activity)
      BY DEF GoToSleep, Gesture, BeginLoop, SuppressedRelease, HomeGesture, PanelGesture,
             Activity, Change, RequestLater, RequestNow, RequestAndWait, NotifyRender, Woken,
             Navigate, StartForResult, StartNothing, Finish, RunReturns, Calls
    <3>2. ~(Replace \/ Push \/ PopLast \/ (\E a \in Act : GoHome(a)) \/ HomeEntered \/ EndLoop)
      BY DEF Replace, Push, PopLast, GoHome, HomeEntered, EndLoop, Return
    <3>3. ~Draw /\ ~UNCHANGED vars
      BY DEF Draw, Notified, LockForDrawing, Drawn, TellWaiter, Unlock, vars
    <3> QED
      BY <3>1, <3>2, <3>3 DEF Next, Carry, Pop
  <2>2. Len(stack) \in 1..Len(stack)
    BY <2>1, StackTop DEF Pop, SafeInv
  <2> QED
    BY <2>1, <2>2 DEF Below, SafeInv, HandlersMatch
<1> QED
  BY <1>1, Inductive, PTL DEF Spec, ResultGoesToItsHandler

\* Whoever waits for an update sees the change drawn, or has a drawing coming
\* when it was made without the lock.
THEOREM WaitsShowChanges == Spec => WaitShowsTheChange
<1>1. Init => WaitInv
  BY DEF Init, WaitInv
<1>2. SafeInv /\ WaitInv /\ [Next]_vars => WaitInv'
  BY WaitStep
<1>3. SafeInv /\ WaitInv /\ [Next]_vars
        => [main = "wait" /\ main' = "run" => ~dirty \/ (bare /\ (rnote \/ render = "lock"))]_vars
  <2> SUFFICES ASSUME SafeInv, WaitInv, [Next]_vars, main = "wait", main' = "run"
               PROVE  ~dirty \/ (bare /\ (rnote \/ render = "lock"))
    OBVIOUS
  <2>1. Woken
    BY DEF Next, GoToSleep, Gesture, BeginLoop, SuppressedRelease, HomeGesture, PanelGesture,
           Activity, Change, RequestLater, RequestNow, RequestAndWait, NotifyRender,
           Navigate, StartForResult, StartNothing, Finish, RunReturns, Calls, Carry, Replace,
           Push, Pop, PopLast, GoHome, HomeEntered, EndLoop, Draw, Notified, LockForDrawing,
           Drawn, TellWaiter, Unlock, vars
  <2> QED
    BY <2>1 DEF Woken, WaitInv
<1> QED
  BY <1>1, <1>2, <1>3, Inductive, PTL DEF Spec, WaitShowsTheChange

=============================================================================
