----------------------------- MODULE WaitQueue -----------------------------
(***************************************************************************)
(* The Linux kernel's wait queue, as the drivers use it.  The kernel is    *)
(* not part of the repository, so these definitions are modelled from the  *)
(* calls the drivers make.  A driver module EXTENDS this one and passes    *)
(* its own labels.                                                         *)
(*                                                                         *)
(* A task inside wait_event_interruptible is first "prepared" (enqueued,   *)
(* about to test the condition again) and then "asleep"; it is runnable    *)
(* again as soon as a wake-up takes it off the queue.                      *)
(***************************************************************************)
EXTENDS Integers, Sequences

CONSTANT Signalled   (* the tasks a signal may reach while they sleep *)

VARIABLES
  pc,   (* where each task is                *)
  wq    (* the tasks linked on the wait queue *)

Goto(t, label) == pc' = [pc EXCEPT ![t] = label]

-----------------------------------------------------------------------------
(* wait_event_interruptible(wq, cond) entered at label from: the first test *)
(* of the condition, and prepare_to_wait when it fails.                    *)
WaitEvent(t, from, cond, next) ==
  /\ pc[t] = from
  /\ \/ cond  /\ Goto(t, next) /\ UNCHANGED wq
     \/ ~cond /\ Goto(t, "prepared") /\ wq' = wq \cup {t}

(* The test after prepare_to_wait: finish_wait, or schedule().             *)
Retest(t, cond, next) ==
  /\ pc[t] = "prepared"
  /\ \/ cond  /\ Goto(t, next) /\ wq' = wq \ {t}
     \/ ~cond /\ Goto(t, "asleep") /\ UNCHANGED wq

(* schedule() returns to a task that was woken: it goes round the loop.    *)
Resume(t) ==
  /\ pc[t] = "asleep"
  /\ t \notin wq
  /\ Goto(t, "prepared")
  /\ wq' = wq \cup {t}

(* A signal ends the wait although the condition may not hold.  No driver  *)
(* here looks at the -ERESTARTSYS that wait_event_interruptible returns.   *)
Interrupt(t, next) ==
  /\ t \in Signalled
  /\ pc[t] = "asleep"
  /\ Goto(t, next)
  /\ wq' = wq \ {t}

(* wake_up and wake_up_interruptible: no waiter is exclusive, all go.      *)
WakeUp == wq' = {}

=============================================================================
