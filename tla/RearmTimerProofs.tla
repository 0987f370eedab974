-------------------------- MODULE RearmTimerProofs --------------------------
(***************************************************************************)
(* Proofs about RearmTimer, for any number of callers and any periods.     *)
(***************************************************************************)
EXTENDS RearmTimer, TLAPS

(* The LED driver owns its line from before its timer first runs until     *)
(* after its timer is stopped; while the module loads the timer is idle.   *)
LineHeld ==
  /\ driver = "led" /\ phase = "running" => requested
  /\ phase = "loading" => ~pending /\ callback = "none"
  /\ driver = "timers" => callback \notin {"toggle", "gpio"}

IInv == TypeOK /\ LineHeld /\ LedTimerStopped /\ LedOff /\ TimerAlive

LEMMA InvInit == Init => IInv
BY PeriodsAssumption
DEF Init, IInv, TypeOK, ValidPeriods, LineHeld, LedTimerStopped, LedOff,
    TimerAlive, Stopped

LEMMA TypeStep == TypeOK /\ [Next]_vars => TypeOK'
<1> SUFFICES ASSUME TypeOK, [Next]_vars PROVE TypeOK'
  OBVIOUS
<1> USE DEF TypeOK, timer, led
<1>1. CASE Loading
  BY <1>1 DEF Loading, RequestGpio, RefuseGpio, StartTimer
<1>2. ASSUME NEW c \in Callers, Open(c) \/ Release(c) PROVE TypeOK'
  BY <1>2 DEF Open, Release
<1>3. ASSUME NEW c \in Callers, NEW p \in Periods, SetPeriod(c, p) PROVE TypeOK'
  BY <1>3 DEF SetPeriod, ValidPeriods
<1>4. CASE Expire
  BY <1>4 DEF Expire
<1>5. CASE Callback
  BY <1>5 DEF Callback, Toggle, SetGpio, LoadPeriod, Rearm
<1>6. CASE Exiting
  BY <1>6 DEF Exiting, DelTimerSync, DelTimer, FreeGpio, Unload
<1>7. CASE UNCHANGED vars
  BY <1>7 DEF vars
<1> QED
  BY <1>1, <1>2, <1>3, <1>4, <1>5, <1>6, <1>7 DEF Next

(* The parts of the invariant hold one another up: the callback runs only  *)
(* between the start of the timer and its synchronous deletion, and the    *)
(* line is requested before the one and freed after the other.             *)
LEMMA InvStep == IInv /\ [Next]_vars => IInv'
<1> DEFINE Rest == LineHeld /\ LedTimerStopped /\ LedOff /\ TimerAlive
<1> SUFFICES ASSUME IInv, [Next]_vars PROVE Rest'
  BY TypeStep DEF IInv
<1> USE DEF IInv, TypeOK, LineHeld, LedTimerStopped, LedOff, TimerAlive, Stopped,
            timer, led
<1>1. CASE Loading
  <2>1. CASE RequestGpio
    BY <2>1 DEF RequestGpio
  <2>2. CASE RefuseGpio
    BY <2>2 DEF RefuseGpio
  <2>3. CASE StartTimer
    BY <2>3 DEF StartTimer
  <2> QED
    BY <1>1, <2>1, <2>2, <2>3 DEF Loading
<1>2. ASSUME NEW c \in Callers, Open(c) \/ Release(c) PROVE Rest'
  BY <1>2 DEF Open, Release
<1>3. ASSUME NEW c \in Callers, NEW p \in Periods, SetPeriod(c, p) PROVE Rest'
  BY <1>3 DEF SetPeriod
<1>4. CASE Expire
  BY <1>4 DEF Expire
<1>5. CASE Callback
  <2>1. CASE Toggle
    BY <2>1 DEF Toggle
  <2>2. CASE SetGpio
    BY <2>2 DEF SetGpio
  <2>3. CASE LoadPeriod
    BY <2>3 DEF LoadPeriod
  <2>4. CASE Rearm
    BY <2>4 DEF Rearm
  <2> QED
    BY <1>5, <2>1, <2>2, <2>3, <2>4 DEF Callback
<1>6. CASE Exiting
  <2>1. CASE DelTimerSync
    BY <2>1 DEF DelTimerSync
  <2>2. CASE DelTimer
    BY <2>2 DEF DelTimer
  <2>3. CASE FreeGpio
    BY <2>3 DEF FreeGpio
  <2>4. CASE Unload
    BY <2>4 DEF Unload
  <2> QED
    BY <1>6, <2>1, <2>2, <2>3, <2>4 DEF Exiting
<1>7. CASE UNCHANGED vars
  BY <1>7 DEF vars
<1> QED
  BY <1>1, <1>2, <1>3, <1>4, <1>5, <1>6, <1>7 DEF Next

(* The invariant holds in every reachable state. *)
THEOREM Invariance == Spec => []IInv
BY InvInit, InvStep, PTL DEF Spec

(* Every reachable state is well typed; no period below MinPeriod is ever  *)
(* stored or armed (led_driver.c, line 43).                                *)
THEOREM TypeCorrect == Spec => []TypeOK
BY Invariance, PTL DEF IInv

(* Once led_driver_exit has called del_timer_sync the timer is dead for    *)
(* good, whatever the callback was doing (lines 58 to 64 and 110).         *)
THEOREM LedTimerStaysStopped == Spec => []LedTimerStopped
BY Invariance, PTL DEF IInv

(* The callback drives only a line the driver owns, and the LED is off     *)
(* when the line has been given up (lines 60, 91, 111 and 112).            *)
THEOREM LineOwned == Spec => []LedOff
BY Invariance, PTL DEF IInv

(* The running module's timer never stops rearming itself.                 *)
THEOREM ChainUnbroken == Spec => []TimerAlive
BY Invariance, PTL DEF IInv

=============================================================================
