---------------------------- MODULE EventThread ----------------------------
(***************************************************************************)
(* The two wait-queue drivers, waitqueues/dynamic/dynquedr.c ("dynamic")   *)
(* and waitqueues/static/staquedr.c ("static").  A kernel thread sleeps    *)
(* until wait_queue_flag says that an event came from read (1), from write *)
(* (3, dynamic only) or from the module's exit function (2), handles it    *)
(* and puts the flag back to 0.  Nothing protects the flag.  The exit      *)
(* function runs only when no file is open, and does not wait for the      *)
(* thread: when it has returned, the code that the thread executes is      *)
(* freed.                                                                  *)
(*                                                                         *)
(* The flag is a plain int: between two tests of it with no call between   *)
(* them the compiler may load it again or use the value it has.            *)
(***************************************************************************)
EXTENDS WaitQueue

CONSTANTS
  Callers,    (* processes that open, read and write the device    *)
  Thread,     (* the kernel thread                                 *)
  Exit,       (* the process that removes the module               *)
  MaxCalls    (* bound: the calls of either kind that are explored *)

Tasks == Callers \cup {Thread, Exit}

ASSUME TasksAssumption == Thread # Exit /\ Callers \cap {Thread, Exit} = {}
ASSUME BoundAssumption == MaxCalls \in Nat
(* Nobody signals a kernel thread. *)
ASSUME SignalAssumption == Signalled = {}

VARIABLES
  driver,            (* which of the two sources this is             *)
  wait_queue_flag,
  loaded,            (* the value of the flag the thread holds       *)
  read_count,
  write_count,
  reads,             (* history: how many reads were issued          *)
  writes             (* history: how many writes were issued         *)

counts == <<read_count, write_count>>
calls  == <<reads, writes>>
vars   == <<pc, wq, driver, wait_queue_flag, loaded, counts, calls>>

NoValue == 99   (* the thread must load the flag again *)

Init ==
  /\ driver \in {"dynamic", "static"}
  /\ pc = [t \in Tasks |->
             CASE t = Thread -> "top" [] t = Exit -> "idle" [] OTHER -> "closed"]
  /\ wq = {}
  /\ wait_queue_flag = 0
  /\ loaded = NoValue
  /\ read_count = 0 /\ write_count = 0
  /\ reads = 0 /\ writes = 0

-----------------------------------------------------------------------------
(* The file operations.  An open file keeps the module from being removed. *)

Open(c) ==
  /\ pc[c] = "closed"
  /\ pc[Exit] = "idle"
  /\ Goto(c, "open")
  /\ UNCHANGED <<wq, driver, wait_queue_flag, loaded, counts, calls>>

Release(c) ==
  /\ pc[c] = "open"
  /\ Goto(c, "closed")
  /\ UNCHANGED <<wq, driver, wait_queue_flag, loaded, counts, calls>>

(* Mutant: the flag is counted up, not set. *)
ReadCountsUp(c) ==
  /\ pc[c] = "open"
  /\ reads < MaxCalls
  /\ wait_queue_flag' = wait_queue_flag + 1
  /\ reads' = reads + 1
  /\ Goto(c, "wake")
  /\ UNCHANGED <<wq, driver, loaded, counts, writes>>

Read(c) ==
  /\ pc[c] = "open"
  /\ reads < MaxCalls
  /\ wait_queue_flag' = 1
  /\ reads' = reads + 1
  /\ Goto(c, "wake")
  /\ UNCHANGED <<wq, driver, loaded, counts, writes>>

(* The static driver's write touches nothing. *)
Write(c) ==
  /\ pc[c] = "open"
  /\ driver = "dynamic"
  /\ writes < MaxCalls
  /\ wait_queue_flag' = 3
  /\ writes' = writes + 1
  /\ Goto(c, "wake")
  /\ UNCHANGED <<wq, driver, loaded, counts, reads>>

(* Mutant: the event is announced and nobody is woken. *)
WakeThreadNot(c) ==
  /\ pc[c] = "wake"
  /\ Goto(c, "open")
  /\ UNCHANGED <<wq, driver, wait_queue_flag, loaded, counts, calls>>

WakeThread(c) ==
  /\ pc[c] = "wake"
  /\ WakeUp
  /\ Goto(c, "open")
  /\ UNCHANGED <<driver, wait_queue_flag, loaded, counts, calls>>

-----------------------------------------------------------------------------
(* The exit function. *)

ExitSetFlag ==
  /\ pc[Exit] = "idle"
  /\ \A c \in Callers : pc[c] = "closed"
  /\ wait_queue_flag' = 2
  /\ Goto(Exit, "wake")
  /\ UNCHANGED <<wq, driver, loaded, counts, calls>>

ExitWake ==
  /\ pc[Exit] = "wake"
  /\ WakeUp
  /\ Goto(Exit, "teardown")
  /\ UNCHANGED <<driver, wait_queue_flag, loaded, counts, calls>>

(* The device, its class, the cdev and the numbers go, then the module     *)
(* with its code.                                                          *)
Unload ==
  /\ pc[Exit] = "teardown"
  /\ Goto(Exit, "unloaded")
  /\ UNCHANGED <<wq, driver, wait_queue_flag, loaded, counts, calls>>

-----------------------------------------------------------------------------
(* wait_function *)

(* What a test of the flag may see. *)
Loads == {wait_queue_flag} \cup ({loaded} \ {NoValue})

ThreadWait ==
  /\ \/ WaitEvent(Thread, "top", wait_queue_flag # 0, "woken")
     \/ Retest(Thread, wait_queue_flag # 0, "woken")
     \/ Resume(Thread)
  /\ UNCHANGED <<driver, wait_queue_flag, loaded, counts, calls>>

TestExit ==
  /\ pc[Thread] = "woken"
  /\ \/ wait_queue_flag = 2 /\ Goto(Thread, "leave") /\ UNCHANGED loaded
     \/ /\ wait_queue_flag # 2
        /\ loaded' = wait_queue_flag
        /\ Goto(Thread, IF driver = "dynamic" THEN "test_read" ELSE "count")
  /\ UNCHANGED <<wq, driver, wait_queue_flag, counts, calls>>

ThreadReturn ==
  /\ pc[Thread] = "leave"
  /\ Goto(Thread, "gone")
  /\ UNCHANGED <<wq, driver, wait_queue_flag, loaded, counts, calls>>

(* Whatever the event was, the static driver counts a read. *)
CountEvent ==
  /\ pc[Thread] = "count"
  /\ read_count' = read_count + 1
  /\ loaded' = NoValue
  /\ Goto(Thread, "reset")
  /\ UNCHANGED <<wq, driver, wait_queue_flag, write_count, calls>>

TestRead ==
  /\ pc[Thread] = "test_read"
  /\ \E v \in Loads :
       \/ v = 1 /\ read_count' = read_count + 1 /\ loaded' = NoValue
       \/ v # 1 /\ UNCHANGED read_count /\ loaded' = v
  /\ Goto(Thread, "test_write")
  /\ UNCHANGED <<wq, driver, wait_queue_flag, write_count, calls>>

TestWrite ==
  /\ pc[Thread] = "test_write"
  /\ \E v \in Loads :
       \/ v = 3 /\ write_count' = write_count + 1 /\ Goto(Thread, "reset_write")
       \/ v # 3 /\ UNCHANGED write_count /\ Goto(Thread, "reset")
  /\ loaded' = NoValue
  /\ UNCHANGED <<wq, driver, wait_queue_flag, read_count, calls>>

(* The dynamic driver resets the flag once after a write and once more.    *)
ResetAfterWrite ==
  /\ pc[Thread] = "reset_write"
  /\ wait_queue_flag' = 0
  /\ Goto(Thread, "reset")
  /\ UNCHANGED <<wq, driver, loaded, counts, calls>>

(* Mutant: the last reset is missing. *)
ResetNot ==
  /\ pc[Thread] = "reset"
  /\ Goto(Thread, "top")
  /\ UNCHANGED <<wq, driver, wait_queue_flag, loaded, counts, calls>>

Reset ==
  /\ pc[Thread] = "reset"
  /\ wait_queue_flag' = 0
  /\ Goto(Thread, "top")
  /\ UNCHANGED <<wq, driver, loaded, counts, calls>>

-----------------------------------------------------------------------------
(* The thread goes on in code that is no longer there: nobody waited for   *)
(* it before the module was freed.  Only in its sleep it needs no code.    *)
Crash ==
  /\ pc[Exit] = "unloaded"
  /\ pc[Thread] \notin {"gone", "crashed"}
  /\ pc[Thread] = "asleep" => Thread \notin wq
  /\ Goto(Thread, "crashed")
  /\ loaded' = NoValue
  /\ UNCHANGED <<wq, driver, wait_queue_flag, counts, calls>>

WaitFunction ==
  \/ ThreadWait
  \/ TestExit
  \/ ThreadReturn
  \/ CountEvent
  \/ TestRead
  \/ TestWrite
  \/ ResetAfterWrite
  \/ Reset

ThreadStep == (pc[Exit] # "unloaded" /\ WaitFunction) \/ Crash

Next ==
  \/ \E c \in Callers :
       Open(c) \/ Release(c) \/ Read(c) \/ Write(c) \/ WakeThread(c)
  \/ ExitSetFlag \/ ExitWake \/ Unload
  \/ ThreadStep

(* The scheduler runs the thread and finishes a call or an exit once       *)
(* begun; nobody has to open, call or remove anything.                     *)
Fairness ==
  /\ WF_vars(ThreadStep)
  /\ \A c \in Callers : WF_vars(WakeThread(c))
  /\ WF_vars(ExitWake \/ Unload)

Spec     == Init /\ [][Next]_vars
FairSpec == Spec /\ Fairness

-----------------------------------------------------------------------------
CallerLabels == {"closed", "open", "wake"}
ExitLabels   == {"idle", "wake", "teardown", "unloaded"}
ThreadLabels == {"top", "prepared", "asleep", "woken", "test_read", "test_write",
                 "count", "reset_write", "reset", "leave", "gone", "crashed"}

TypeOK ==
  /\ driver \in {"dynamic", "static"}
  /\ pc \in [Tasks -> CallerLabels \cup ExitLabels \cup ThreadLabels]
  /\ \A c \in Callers : pc[c] \in CallerLabels
  /\ pc[Exit] \in ExitLabels
  /\ pc[Thread] \in ThreadLabels
  /\ wq \subseteq {Thread}
  /\ wait_queue_flag \in 0..3
  /\ loaded \in 0..3 \cup {NoValue}
  /\ read_count \in Nat /\ write_count \in Nat
  /\ reads \in Nat /\ writes \in Nat

(* The thread never sleeps on over an event: when it is still queued and   *)
(* the flag is up, whoever raised it has yet to wake the queue.            *)
NoLostWakeup ==
  pc[Thread] = "asleep" /\ Thread \in wq /\ wait_queue_flag # 0
    => \/ pc[Exit] = "wake"
       \/ \E c \in Callers : pc[c] = "wake"

(* The thread reports no event that did not happen: each one it counts has *)
(* a call of its own, though the flag changes between its tests and its    *)
(* resets.  (The converse does not hold: a reset may wipe out an event.)   *)
NoPhantomEvent == read_count <= reads /\ write_count <= writes

(* An event raised while the thread sleeps makes it run and reset the flag *)
(* or end, unless the module is freed before the thread gets that far (see *)
(* Crash).                                                                 *)
EventConsumed ==
  (pc[Thread] = "asleep" /\ wait_queue_flag # 0)
    ~> (wait_queue_flag = 0 \/ pc[Thread] = "gone" \/ pc[Exit] = "unloaded")

(* The exit function's event ends the thread ("Event Came From Exit        *)
(* Function", line 66 and 64 of the two sources); dying in freed code is   *)
(* counted as an end here.  A reset that follows the thread's test for 2   *)
(* wipes the event out, and the thread goes back to sleep for ever, in a   *)
(* module that is being unloaded.                                          *)
ThreadEnds == (pc[Exit] = "wake") ~> (pc[Thread] \in {"gone", "crashed"})

=============================================================================
