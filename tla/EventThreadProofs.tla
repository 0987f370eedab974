------------------------- MODULE EventThreadProofs -------------------------
(***************************************************************************)
(* Proofs about EventThread, for any number of callers and calls and for   *)
(* both of the wait-queue drivers.                                         *)
(***************************************************************************)
EXTENDS EventThread, TLAPS

-----------------------------------------------------------------------------
(* Why no event is counted twice: until the thread has made its test for a *)
(* read, a flag or a loaded value of 1 is a read that was not counted yet, *)
(* and a flag that the thread has tested is reset before the next round.   *)
(* The same holds for writes, one test later.                              *)

ReadAhead  == pc[Thread] \in {"top", "prepared", "asleep", "woken", "test_read"}
WriteAhead ==
  pc[Thread] \in {"top", "prepared", "asleep", "woken", "test_read", "test_write"}

ReadPending ==
  /\ ReadAhead /\ wait_queue_flag = 1 => read_count < reads
  /\ loaded = 1 => read_count < reads

WritePending ==
  /\ WriteAhead /\ wait_queue_flag = 3 => write_count < writes
  /\ loaded = 3 => write_count < writes

(* Only the tests hold a value of the flag. *)
LoadedInTest ==
  loaded # NoValue => pc[Thread] \in {"test_read", "test_write", "count"}

(* Only the thread resets the flag, so what woke it is still there.        *)
WokenByEvent == pc[Thread] = "woken" => wait_queue_flag # 0

(* The static driver has no write event; what it counts is a read.         *)
ThreadOfDriver ==
  /\ driver = "static" =>
       /\ pc[Thread] \notin {"test_read", "test_write", "reset_write"}
       /\ wait_queue_flag # 3 /\ loaded # 3
       /\ pc[Thread] = "count" => loaded = 1
  /\ driver = "dynamic" => pc[Thread] # "count"

Pending == /\ ReadPending /\ WritePending /\ LoadedInTest
           /\ WokenByEvent /\ ThreadOfDriver /\ NoPhantomEvent

IInv == TypeOK /\ Pending /\ NoLostWakeup

(* The invariant holds at first. *)
LEMMA InvInit == Init => IInv
<1> SUFFICES ASSUME Init PROVE IInv
  OBVIOUS
<1>1. /\ pc \in [Tasks -> CallerLabels \cup ExitLabels \cup ThreadLabels]
      /\ pc[Thread] = "top" /\ pc[Exit] = "idle"
      /\ \A c \in Callers : pc[c] = "closed"
  BY TasksAssumption DEF Init, Tasks, CallerLabels, ExitLabels, ThreadLabels
<1>2. /\ driver \in {"dynamic", "static"} /\ wq = {}
      /\ wait_queue_flag = 0 /\ loaded = NoValue
      /\ read_count = 0 /\ write_count = 0 /\ reads = 0 /\ writes = 0
  BY DEF Init
<1>3. TypeOK
  <2>1. /\ pc[Thread] \in ThreadLabels /\ pc[Exit] \in ExitLabels
        /\ \A c \in Callers : pc[c] \in CallerLabels
    BY <1>1 DEF CallerLabels, ExitLabels, ThreadLabels
  <2> QED
    BY <1>1, <1>2, <2>1 DEF TypeOK, NoValue
<1>4. Pending /\ NoLostWakeup
  BY <1>1, <1>2 DEF Pending, ReadPending, WritePending, LoadedInTest, WokenByEvent,
              ThreadOfDriver, NoPhantomEvent, NoLostWakeup, ReadAhead, WriteAhead, NoValue
<1> QED
  BY <1>3, <1>4 DEF IInv

-----------------------------------------------------------------------------
(* Three kinds of task: what a step of one leaves alone. *)
LEMMA TaskTypes ==
  ASSUME TypeOK
  PROVE  /\ pc \in [Tasks -> CallerLabels \cup ExitLabels \cup ThreadLabels]
         /\ Thread \in Tasks /\ Exit \in Tasks /\ Thread # Exit
         /\ Callers \subseteq Tasks /\ Thread \notin Callers /\ Exit \notin Callers
         /\ Thread \notin Signalled
BY TasksAssumption, SignalAssumption DEF TypeOK, Tasks

(* The types that arithmetic on flag and counters needs. *)
LEMMA ValueTypes ==
  ASSUME TypeOK
  PROVE  /\ driver \in {"dynamic", "static"}
         /\ wait_queue_flag \in {0, 1, 2, 3}
         /\ loaded \in {0, 1, 2, 3, 99}
         /\ read_count \in Nat /\ write_count \in Nat
         /\ reads \in Nat /\ writes \in Nat
BY DEF TypeOK, NoValue

(* A file operation, by what it does to the thread's state. *)
LEMMA CallerStep ==
  ASSUME IInv, NEW c \in Callers,
         Open(c) \/ Release(c) \/ Read(c) \/ Write(c) \/ WakeThread(c)
  PROVE  IInv'
<1>1. PICK l \in CallerLabels :
        /\ pc' = [pc EXCEPT ![c] = l]
        /\ wait_queue_flag' # wait_queue_flag => l = "wake"
        /\ pc[c] = "wake" => wq' = {}
  BY DEF Open, Release, Read, Write, WakeThread, WakeUp, Goto, CallerLabels
<1>2. pc'[Thread] = pc[Thread] /\ pc'[c] = l
  BY <1>1, TaskTypes DEF IInv
<1>3. TypeOK'
  BY <1>1, <1>2, TaskTypes
  DEF IInv, TypeOK, Open, Release, Read, Write, WakeThread, WakeUp, counts, calls
<1>4. Pending'
  <2>1. /\ UNCHANGED <<driver, loaded, read_count, write_count>>
        /\ \/ UNCHANGED <<wait_queue_flag, reads, writes>>
           \/ wait_queue_flag' = 1 /\ reads' = reads + 1 /\ writes' = writes
           \/ /\ driver = "dynamic" /\ wait_queue_flag' = 3
              /\ writes' = writes + 1 /\ reads' = reads
    BY DEF Open, Release, Read, Write, WakeThread, counts, calls
  <2>2. TypeOK /\ Pending
    BY DEF IInv
  <2> QED
    BY <1>2, <2>1, <2>2, ValueTypes
    DEF Pending, ReadPending, WritePending, LoadedInTest, WokenByEvent,
        ThreadOfDriver, NoPhantomEvent, NoValue, ReadAhead, WriteAhead
<1>5. NoLostWakeup'
  BY <1>1, <1>2, TaskTypes
  DEF IInv, NoLostWakeup, Open, Release, Read, Write, WakeThread, WakeUp
<1> QED
  BY <1>3, <1>4, <1>5 DEF IInv

(* The exit function overwrites the flag, but with neither 1 nor 3.        *)
LEMMA ExitStep ==
  ASSUME IInv, ExitSetFlag \/ ExitWake \/ Unload
  PROVE  IInv'
<1>1. PICK l \in ExitLabels :
        /\ pc' = [pc EXCEPT ![Exit] = l]
        /\ wait_queue_flag' # wait_queue_flag => l = "wake"
        /\ pc[Exit] = "wake" => wq' = {}
  BY DEF ExitSetFlag, ExitWake, Unload, WakeUp, Goto, ExitLabels
<1>2. pc'[Thread] = pc[Thread] /\ pc'[Exit] = l
  BY <1>1, TaskTypes DEF IInv
<1>3. TypeOK'
  BY <1>1, <1>2, TaskTypes
  DEF IInv, TypeOK, ExitSetFlag, ExitWake, Unload, WakeUp, counts, calls
<1>4. Pending'
  <2>1. /\ UNCHANGED <<driver, loaded, counts, calls>>
        /\ wait_queue_flag' \in {wait_queue_flag, 2}
    BY DEF ExitSetFlag, ExitWake, Unload
  <2>2. TypeOK /\ Pending
    BY DEF IInv
  <2> QED
    BY <1>2, <2>1, <2>2, ValueTypes
    DEF Pending, ReadPending, WritePending, LoadedInTest, WokenByEvent,
        ThreadOfDriver, NoPhantomEvent, NoValue, ReadAhead, WriteAhead,
        counts, calls
<1>5. NoLostWakeup'
  BY <1>1, <1>2, TaskTypes
  DEF IInv, NoLostWakeup, ExitSetFlag, ExitWake, Unload, WakeUp
<1> QED
  BY <1>3, <1>4, <1>5 DEF IInv

(* The thread's steps, of which only the resets change the flag. *)
LEMMA ThreadsStep ==
  ASSUME IInv, ThreadStep
  PROVE  IInv'
<1>1. PICK l \in ThreadLabels :
        /\ pc' = [pc EXCEPT ![Thread] = l]
        /\ l = "asleep" => wait_queue_flag = 0 /\ wait_queue_flag' = 0
  BY TaskTypes
  DEF IInv, ThreadStep, WaitFunction, Crash, ThreadWait, WaitEvent, Retest, Resume,
      TestExit, ThreadReturn, CountEvent, TestRead,
      TestWrite, ResetAfterWrite, Reset, Goto, ThreadLabels
<1>2. pc'[Thread] = l
  BY <1>1, TaskTypes DEF IInv
<1>3. TypeOK'
  <2>1. /\ wq' \subseteq {Thread} /\ driver' = driver
        /\ wait_queue_flag' \in {0, wait_queue_flag}
        /\ loaded' \in {loaded, wait_queue_flag, NoValue}
        /\ read_count' \in {read_count, read_count + 1}
        /\ write_count' \in {write_count, write_count + 1}
        /\ UNCHANGED calls
    BY DEF IInv, TypeOK, ThreadStep, WaitFunction, Crash, ThreadWait, WaitEvent, Retest,
        Resume, TestExit, ThreadReturn, CountEvent,
        TestRead, TestWrite, ResetAfterWrite, Reset, Loads, counts
  <2>2. /\ pc' \in [Tasks -> CallerLabels \cup ExitLabels \cup ThreadLabels]
        /\ \A t \in Callers \cup {Exit} : pc'[t] = pc[t]
    BY <1>1, TaskTypes DEF IInv
  <2>3. /\ wait_queue_flag' \in 0..3 /\ loaded' \in 0..3 \cup {NoValue}
        /\ read_count' \in Nat /\ write_count' \in Nat
    BY <2>1 DEF IInv, TypeOK
  <2> QED
    BY <1>2, <2>1, <2>2, <2>3 DEF IInv, TypeOK, calls
<1>4. Pending'
  <2>1. TypeOK /\ Pending
    BY DEF IInv
  <2> USE TaskTypes, ValueTypes
      DEF Pending, ReadPending, WritePending, LoadedInTest, WokenByEvent,
          ThreadOfDriver, NoPhantomEvent, NoValue, ReadAhead, WriteAhead,
          counts, calls, Goto
  <2>2. CASE ThreadWait
    BY <2>1, <2>2 DEF ThreadWait, WaitEvent, Retest, Resume
  <2>3. CASE TestExit
    BY <2>1, <2>3 DEF TestExit
  <2>4. CASE CountEvent
    BY <2>1, <2>4 DEF CountEvent
  <2>5. CASE TestRead
    BY <2>1, <2>5 DEF TestRead, Loads
  <2>6. CASE TestWrite
    BY <2>1, <2>6 DEF TestWrite, Loads
  <2>7. CASE ResetAfterWrite
    BY <2>1, <2>7 DEF ResetAfterWrite
  <2>8. CASE Reset
    BY <2>1, <2>8 DEF Reset
  <2>9. CASE ThreadReturn
    BY <2>1, <2>9 DEF ThreadReturn
  <2>10. CASE Crash
    BY <2>1, <2>10 DEF Crash
  <2> QED
    BY <2>2, <2>3, <2>4, <2>5, <2>6, <2>7, <2>8, <2>9, <2>10
    DEF ThreadStep, WaitFunction
<1>5. NoLostWakeup'
  BY <1>1, <1>2 DEF NoLostWakeup
<1> QED
  BY <1>3, <1>4, <1>5 DEF IInv

(* The invariant holds in every reachable state. *)
THEOREM Invariance == Spec => []IInv
<1>1. UNCHANGED vars /\ IInv => IInv'
  BY DEF vars, counts, calls, IInv, TypeOK, Pending, ReadPending, WritePending,
         ReadAhead, WriteAhead, LoadedInTest, WokenByEvent, ThreadOfDriver,
         NoPhantomEvent, NoLostWakeup
<1>2. IInv /\ [Next]_vars => IInv'
  BY <1>1, CallerStep, ExitStep, ThreadsStep DEF Next
<1> QED
  BY InvInit, <1>2, PTL DEF Spec

(* Every reachable state is well typed. *)
THEOREM TypeCorrect == Spec => []TypeOK
BY Invariance, PTL DEF IInv

(* When the thread is asleep on the queue over a flag that is up, whoever  *)
(* raised the flag (dynquedr.c, lines 96, 106 and 189) is about to call    *)
(* wake_up_interruptible (lines 97, 107 and 190).                          *)
THEOREM WakeupNotLost == Spec => []NoLostWakeup
BY Invariance, PTL DEF IInv

(* Each event the thread counts has a call of its own, whatever the calls  *)
(* do to the flag between the thread's tests and its resets (lines 64 to   *)
(* 79 of dynquedr.c).                                                      *)
THEOREM CountedOnce == Spec => []NoPhantomEvent
BY Invariance, PTL DEF IInv, Pending

=============================================================================
