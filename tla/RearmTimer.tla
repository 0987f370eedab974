----------------------------- MODULE RearmTimer -----------------------------
(***************************************************************************)
(* The two drivers whose timer rearms itself: previous3/led_driver.c       *)
(* ("led"), which toggles a GPIO line at a period that an ioctl sets, and  *)
(* timers/timers.c ("timers"), which only counts.  The timer interrupt     *)
(* runs the callback on any CPU, beside the ioctl and beside the module's  *)
(* exit function.  led_driver_exit stops the timer with del_timer_sync,    *)
(* dr_driver_exit with del_timer.                                          *)
(*                                                                         *)
(* The kernel's timer is modelled from how the drivers use it: mod_timer   *)
(* makes it pending, expiry takes it off the list and starts the callback, *)
(* del_timer takes it off the list and looks at nothing else, and          *)
(* del_timer_sync does so once the callback is not running.                *)
(***************************************************************************)
EXTENDS Integers

CONSTANTS
  Callers,         (* processes that open the device and set the period *)
  Periods,         (* the values a caller passes                        *)
  DefaultPeriod    (* 500 in led_driver.c                               *)

MinPeriod == 100

ASSUME PeriodsAssumption ==
  Periods \subseteq Int /\ DefaultPeriod \in Int /\ DefaultPeriod >= MinPeriod

VARIABLES
  driver,         (* which of the two sources this is                  *)
  phase,          (* how far the module's init or exit has come        *)
  opened,         (* the callers that have the device open             *)
  pending,        (* the timer is queued                               *)
  armed,          (* the period mod_timer was called with last         *)
  callback,       (* the next step of a running callback, or "none"    *)
  led_state,
  gpio,           (* the level of the LED's line                       *)
  requested,      (* the driver owns the line                          *)
  blink_period

timer == <<pending, armed, callback>>
led   == <<led_state, gpio, requested, blink_period>>
vars  == <<driver, phase, opened, timer, led>>

(* timers.c has one period, which stands for its TIMEOUT.                  *)
Init ==
  /\ driver \in {"led", "timers"}
  /\ phase = "loading"
  /\ opened = {}
  /\ pending = FALSE
  /\ armed = DefaultPeriod
  /\ callback = "none"
  /\ led_state = FALSE
  /\ gpio = FALSE
  /\ requested = FALSE
  /\ blink_period = DefaultPeriod

-----------------------------------------------------------------------------
(* The rest of init once the device is registered.  The device can be      *)
(* opened, and the period set, before the timer runs.                      *)

RequestGpio ==
  /\ phase = "loading"
  /\ driver = "led"
  /\ ~requested
  /\ requested' = TRUE
  /\ gpio' = FALSE
  /\ UNCHANGED <<driver, phase, opened, timer, led_state, blink_period>>

(* The line is invalid or taken: the device is unregistered and the module *)
(* goes away, without a look at who opened the device meanwhile.           *)
RefuseGpio ==
  /\ phase = "loading"
  /\ driver = "led"
  /\ ~requested
  /\ phase' = "unloaded"
  /\ UNCHANGED <<driver, opened, timer, led>>

StartTimer ==
  /\ phase = "loading"
  /\ driver = "led" => requested
  /\ pending' = TRUE
  /\ armed' = blink_period
  /\ phase' = "running"
  /\ UNCHANGED <<driver, opened, callback, led>>

-----------------------------------------------------------------------------
(* The file operations.  An open file keeps the module from being removed; *)
(* what it does when init fails all the same is undefined and left out.    *)

Open(c) ==
  /\ phase \in {"loading", "running"}
  /\ c \notin opened
  /\ opened' = opened \cup {c}
  /\ UNCHANGED <<driver, phase, timer, led>>

Release(c) ==
  /\ c \in opened
  /\ phase # "unloaded"
  /\ opened' = opened \ {c}
  /\ UNCHANGED <<driver, phase, timer, led>>

(* Mutant: any period is accepted. *)
SetAnyPeriod(c, new_period) ==
  /\ c \in opened
  /\ phase # "unloaded"
  /\ driver = "led"
  /\ blink_period' = new_period
  /\ UNCHANGED <<driver, phase, opened, timer, led_state, gpio, requested>>

(* device_ioctl.  Another command, a bad address or a value below          *)
(* MinPeriod comes back as an error and changes nothing.                   *)
SetPeriod(c, new_period) ==
  /\ c \in opened
  /\ phase # "unloaded"
  /\ driver = "led"
  /\ new_period >= MinPeriod
  /\ blink_period' = new_period
  /\ UNCHANGED <<driver, phase, opened, timer, led_state, gpio, requested>>

-----------------------------------------------------------------------------
(* The timer interrupt and the callback. *)

Expire ==
  /\ pending
  /\ callback = "none"
  /\ pending' = FALSE
  /\ callback' = IF driver = "led" THEN "toggle" ELSE "period"
  /\ UNCHANGED <<driver, phase, opened, armed, led>>

Toggle ==
  /\ callback = "toggle"
  /\ led_state' = ~led_state
  /\ callback' = "gpio"
  /\ UNCHANGED <<driver, phase, opened, pending, armed, gpio, requested, blink_period>>

SetGpio ==
  /\ callback = "gpio"
  /\ gpio' = led_state
  /\ callback' = "period"
  /\ UNCHANGED <<driver, phase, opened, pending, armed, led_state, requested, blink_period>>

(* Mutant: the callback keeps the period it was armed with. *)
LoadPeriodNot ==
  /\ callback = "period"
  /\ callback' = "rearm"
  /\ UNCHANGED <<driver, phase, opened, pending, armed, led>>

(* The period is loaded before mod_timer takes the timer's lock.           *)
LoadPeriod ==
  /\ callback = "period"
  /\ armed' = blink_period
  /\ callback' = "rearm"
  /\ UNCHANGED <<driver, phase, opened, pending, led>>

(* Mutant: the callback gives up when the device is open, as though its    *)
(* user had the timer in hand.                                             *)
RearmUnlessOpen ==
  /\ callback = "rearm"
  /\ pending' = (opened = {})
  /\ callback' = "none"
  /\ UNCHANGED <<driver, phase, opened, armed, led>>

Rearm ==
  /\ callback = "rearm"
  /\ pending' = TRUE
  /\ callback' = "none"
  /\ UNCHANGED <<driver, phase, opened, armed, led>>

-----------------------------------------------------------------------------
(* The exit functions. *)

(* Mutant: del_timer where del_timer_sync is needed. *)
DelTimerNoSync ==
  /\ phase = "running"
  /\ driver = "led"
  /\ opened = {}
  /\ pending' = FALSE
  /\ phase' = "stopped"
  /\ UNCHANGED <<driver, opened, armed, callback, led>>

(* led_driver_exit: del_timer_sync. *)
DelTimerSync ==
  /\ phase = "running"
  /\ driver = "led"
  /\ opened = {}
  /\ callback = "none"
  /\ pending' = FALSE
  /\ phase' = "stopped"
  /\ UNCHANGED <<driver, opened, armed, callback, led>>

(* dr_driver_exit: del_timer, whatever the callback is doing. *)
DelTimer ==
  /\ phase = "running"
  /\ driver = "timers"
  /\ opened = {}
  /\ pending' = FALSE
  /\ phase' = "stopped"
  /\ UNCHANGED <<driver, opened, armed, callback, led>>

(* Mutant: the line is freed as the last callback left it. *)
FreeGpioOnly ==
  /\ phase = "stopped"
  /\ driver = "led"
  /\ requested
  /\ requested' = FALSE
  /\ UNCHANGED <<driver, phase, opened, timer, led_state, gpio, blink_period>>

(* The LED is turned off and its line given back. *)
FreeGpio ==
  /\ phase = "stopped"
  /\ driver = "led"
  /\ requested
  /\ gpio' = FALSE
  /\ requested' = FALSE
  /\ UNCHANGED <<driver, phase, opened, timer, led_state, blink_period>>

(* The device is unregistered and the module's memory is freed. *)
Unload ==
  /\ phase = "stopped"
  /\ ~requested
  /\ phase' = "unloaded"
  /\ UNCHANGED <<driver, opened, timer, led>>

-----------------------------------------------------------------------------
(* A callback of timers.c may outlive the module: its code is gone then,   *)
(* what it does is undefined, and it goes no further here.                 *)
Callback == phase # "unloaded" /\ (Toggle \/ SetGpio \/ LoadPeriod \/ Rearm)
Loading  == RequestGpio \/ RefuseGpio \/ StartTimer
Exiting  == DelTimerSync \/ DelTimer \/ FreeGpio \/ Unload

Next ==
  \/ Loading
  \/ \E c \in Callers :
       Open(c) \/ Release(c) \/ \E p \in Periods : SetPeriod(c, p)
  \/ Expire
  \/ Callback
  \/ Exiting

(* A queued timer expires and a callback once started runs to its end.     *)
Fairness == WF_vars(Expire) /\ WF_vars(Callback) /\ WF_vars(Loading)

Spec     == Init /\ [][Next]_vars
FairSpec == Spec /\ Fairness

-----------------------------------------------------------------------------
ValidPeriods == {DefaultPeriod} \cup {p \in Periods : p >= MinPeriod}

TypeOK ==
  /\ driver \in {"led", "timers"}
  /\ phase \in {"loading", "running", "stopped", "unloaded"}
  /\ opened \subseteq Callers
  /\ pending \in BOOLEAN
  /\ armed \in ValidPeriods
  /\ callback \in {"none", "toggle", "gpio", "period", "rearm"}
  /\ led_state \in BOOLEAN
  /\ gpio \in BOOLEAN
  /\ requested \in BOOLEAN
  /\ blink_period \in ValidPeriods

Stopped == phase \in {"stopped", "unloaded"}

(* After led_driver_exit has stopped its timer nothing queues it again and *)
(* no callback runs in the module's memory, though the callback rearms     *)
(* itself (lines 63 and 110).                                              *)
LedTimerStopped ==
  driver = "led" /\ Stopped => ~pending /\ callback = "none"

(* The LED is off once the module has given up its line, and the callback  *)
(* only ever drives a line the module owns (lines 60, 111 and 112).        *)
LedOff ==
  driver = "led" =>
    /\ callback = "gpio" => requested
    /\ ~requested => ~gpio

(* The chain of timers does not break: while the module runs, the timer is *)
(* queued or the callback that will queue it is running.                   *)
TimerAlive == phase = "running" => pending \/ callback # "none"

(* The LED blinks at the period set last: unless it is set once more, the  *)
(* timer ends up armed with it (lines 47 and 63).                          *)
NewPeriodTakesEffect ==
  \A p \in Periods :
    (phase = "running" /\ blink_period = p)
      ~> (armed = p \/ blink_period # p \/ phase # "running")

-----------------------------------------------------------------------------
(* dr_driver_exit is said to remove the timer "when uloading the module"   *)
(* (timers.c, line 135).  A callback that is running queues it again.      *)
TimerRemoved == phase = "unloaded" => ~pending

=============================================================================
