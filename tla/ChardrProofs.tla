---------------------------- MODULE ChardrProofs ----------------------------
(***************************************************************************)
(* Proofs about Chardr, for any number of writers and readers, any buffer  *)
(* size, any bytes and any set of tasks that take signals.                 *)
(***************************************************************************)
EXTENDS Chardr, KernelSyncProofs

(* Whatever a caller passes, a message fits the buffer after the clamp.    *)
LEMMA MessageType ==
  ASSUME NEW b \in Bytes, NEW n \in Lengths
  PROVE  /\ Clamp(n) \in 0..BUFFER_SIZE
         /\ Message(b, Clamp(n)) \in Seq(Bytes \cup {Nul})
         /\ Len(Message(b, Clamp(n))) = Clamp(n)
<1>1. Clamp(n) \in 0..BUFFER_SIZE /\ Clamp(n) \in Nat
  BY SizeAssumption DEF Clamp, Lengths
<1> DEFINE m == Clamp(n)
<1> HIDE DEF m
<1>2. m \in Nat => /\ [i \in 1..m |-> b] \in Seq(Bytes \cup {Nul})
                   /\ Len([i \in 1..m |-> b]) = m
  OBVIOUS
<1> QED
  BY <1>1, <1>2 DEF m, Message

(* What the types say of every task. *)
LEMMA TaskTypes ==
  ASSUME TypeOK
  PROVE  /\ pc \in [Tasks -> WriterLabels \cup ReaderLabels]
         /\ \A w \in Writers : pc[w] \in WriterLabels
         /\ \A r \in Readers : pc[r] \in ReaderLabels
         /\ DOMAIN pc = Tasks /\ waiters \in Seq(Writers)
         /\ Writers \in SUBSET Tasks /\ Readers \in SUBSET Tasks
         /\ Writers \cap Readers = {}
BY TasksAssumption DEF TypeOK, Tasks

(* The initial states are well typed. *)
LEMMA TypeInit == Init => TypeOK
<1> SUFFICES ASSUME Init PROVE TypeOK
  OBVIOUS
<1> QED
  BY SizeAssumption, TasksAssumption
  DEF Init, TypeOK, WriterLabels, ReaderLabels, Tasks

-----------------------------------------------------------------------------
(* The semaphore's three operations, as this driver calls them. *)

(* The three ways a writer touches the semaphore: down_interruptible on    *)
(* entry,                                                                  *)
LEMMA WriterDown ==
  ASSUME TypeOK, SemBalance, NEW w \in Writers, pc[w] = "idle", Down(w, "copy")
  PROVE  /\ waiters' \in Seq(Writers) /\ SemBalance'
         /\ \E l \in {"copy", "down"} : pc' = [pc EXCEPT ![w] = l]
<1>1. PICK H : H = Holders
  OBVIOUS
<1>2. SemInv(Writers, H) /\ H \in SUBSET Writers
  BY <1>1 DEF SemBalance, Holders
<1>3. /\ waiters' \in Seq(Writers)
      /\ \/ pc' = [pc EXCEPT ![w] = "copy"] /\ H = {} /\ SemInv(Writers, {w})'
         \/ pc' = [pc EXCEPT ![w] = "down"] /\ H # {} /\ SemInv(Writers, H)'
  BY <1>2, TaskTypes, SemDown
<1>4. CASE pc' = [pc EXCEPT ![w] = "copy"] /\ H = {} /\ SemInv(Writers, {w})'
  <2>1. Holders' = {w}
    BY <1>1, <1>4, TaskTypes DEF Holders
  <2> QED
    BY <1>3, <1>4, <2>1 DEF SemBalance, SemInv
<1>5. CASE pc' = [pc EXCEPT ![w] = "down"] /\ SemInv(Writers, H)'
  <2>1. Holders' = H
    BY <1>1, <1>5, TaskTypes DEF Holders
  <2> QED
    BY <1>3, <1>5, <2>1 DEF SemBalance, SemInv
<1> QED
  BY <1>3, <1>4, <1>5

(* up, which may admit the first writer in the list, *)
LEMMA WriterUp ==
  ASSUME TypeOK, SemBalance, NEW w \in Holders, NEW next \in {"idle", "wait"},
         Up(w, next, "copy")
  PROVE  /\ waiters' \in Seq(Writers) /\ SemBalance'
         /\ \/ pc' = [pc EXCEPT ![w] = next]
            \/ \E h \in Writers \ {w} :
                 pc[h] = "down" /\ pc' = [pc EXCEPT ![w] = next, ![h] = "copy"]
<1>1. PICK H : H = Holders
  OBVIOUS
<1>2. /\ SemInv(Writers, H) /\ H \in SUBSET Writers /\ w \in H
      /\ pc[w] # "down" /\ next # "down"
      /\ Writers \in SUBSET DOMAIN pc /\ waiters \in Seq(Writers)
  BY <1>1, TaskTypes DEF SemBalance, Holders
<1>3. CASE waiters = <<>>
  <2>1. /\ waiters' = <<>> /\ H = {w}
        /\ pc' = [pc EXCEPT ![w] = next]
        /\ SemInv(Writers, {})'
    BY <1>2, <1>3, SemUpFree
  <2>2. Holders' = {}
    BY <1>1, <2>1, TaskTypes DEF Holders
  <2> QED
    BY <2>1, <2>2 DEF SemBalance, SemInv
<1>4. CASE waiters # <<>>
  <2>1. PICK h : h = Head(waiters)
    OBVIOUS
  <2>2. /\ waiters' \in Seq(Writers) /\ H = {w}
        /\ h \in Writers /\ h # w /\ pc[h] = "down"
        /\ SemInv(Writers, {h})'
    BY <1>2, <1>4, <2>1, SemUpHandOver
  <2>3. pc' = [pc EXCEPT ![w] = next, ![h] = "copy"]
    BY <1>4, <2>1 DEF Up
  <2>4. Holders' = {h}
    BY <1>1, <2>2, <2>3, TaskTypes DEF Holders
  <2> QED
    BY <2>2, <2>3, <2>4 DEF SemBalance, SemInv
<1> QED
  BY <1>3, <1>4

(* and a signal that takes it off the list. *)
LEMMA WriterInterrupted ==
  ASSUME TypeOK, SemBalance, NEW w \in Writers, DownInterrupted(w, "idle")
  PROVE  /\ waiters' \in Seq(Writers) /\ SemBalance'
         /\ pc[w] = "down" /\ pc' = [pc EXCEPT ![w] = "idle"]
<1>1. PICK H : H = Holders
  OBVIOUS
<1>2. SemInv(Writers, H) /\ H \in SUBSET Writers
  BY <1>1 DEF SemBalance, Holders
<1>3. /\ waiters' \in Seq(Writers)
      /\ pc[w] = "down" /\ pc' = [pc EXCEPT ![w] = "idle"]
      /\ SemInv(Writers, H)'
  BY <1>2, TaskTypes, SemInterrupted
<1>4. Holders' = H
  BY <1>1, <1>3, TaskTypes DEF Holders
<1> QED
  BY <1>3, <1>4 DEF SemBalance, SemInv

(* A step that leaves the semaphore alone and moves no writer across it.   *)
LEMMA Elsewhere ==
  ASSUME TypeOK, SemBalance, NEW t \in Tasks, pc[t] # "down",
         NEW l, l # "down", Goto(t, l), UNCHANGED <<count, waiters>>,
         t \in Writers => (t \in Holders <=> l \in {"copy", "up"})
  PROVE  SemBalance'
<1>1. PICK H : H = Holders
  OBVIOUS
<1>2. SemInv(Writers, H) /\ H \in SUBSET Writers
  BY <1>1 DEF SemBalance, Holders
<1>3. SemInv(Writers, H)'
  BY <1>2, TaskTypes, SemOther
<1>4. Holders' = H
  BY <1>1, TaskTypes DEF Holders, Goto
<1> QED
  BY <1>3, <1>4 DEF SemBalance, SemInv

(* Every step keeps the semaphore balanced. *)
LEMMA SemStep == TypeOK /\ SemBalance /\ [Next]_vars => SemBalance'
<1> SUFFICES ASSUME TypeOK, SemBalance, [Next]_vars PROVE SemBalance'
  OBVIOUS
<1>1. ASSUME UNCHANGED ksync PROVE SemBalance'
  BY <1>1 DEF ksync, SemBalance, SemInv, Holders
<1>2. ASSUME NEW w \in Writers, WriteCall(w) PROVE SemBalance'
  BY <1>2, WriterDown DEF WriteCall
<1>3. ASSUME NEW w \in Writers, WriteInterrupted(w) PROVE SemBalance'
  BY <1>3, WriterInterrupted DEF WriteInterrupted
<1>4. ASSUME NEW w \in Writers, WriteFault(w) \/ ReleaseSem(w) PROVE SemBalance'
  <2>1. w \in Holders
    BY <1>4 DEF WriteFault, ReleaseSem, Holders
  <2>2. PICK next \in {"idle", "wait"} : Up(w, next, "copy")
    BY <1>4 DEF WriteFault, ReleaseSem
  <2> QED
    BY <2>1, <2>2, WriterUp
<1>5. ASSUME NEW w \in Writers, Announce(w) PROVE SemBalance'
  <2>1. /\ pc[w] = "copy" /\ Goto(w, "up") /\ UNCHANGED <<count, waiters>>
        /\ w \in Holders /\ w \in Tasks
    BY <1>5 DEF Announce, Holders, Tasks
  <2> QED
    BY <2>1, Elsewhere
<1>6. ASSUME NEW w \in Writers, WaitUntilRead(w) \/ WriteReturn(w) PROVE SemBalance'
  <2>1. /\ pc[w] \in {"wait", "prepared", "asleep", "return"}
        /\ w \in Tasks /\ UNCHANGED <<count, waiters>>
    BY <1>6
    DEF WaitUntilRead, WaitEvent, Retest, Resume, Interrupt, WriteReturn, Tasks
  <2>2. PICK l \in {"prepared", "asleep", "return", "idle"} : Goto(w, l)
    BY <1>6 DEF WaitUntilRead, WaitEvent, Retest, Resume, Interrupt, WriteReturn
  <2>3. w \notin Holders
    BY <2>1 DEF Holders
  <2> QED
    BY <2>1, <2>2, <2>3, Elsewhere
<1>7. ASSUME NEW r \in Readers,
             \/ ReadCall(r) \/ WaitForData(r) \/ ReadFault(r) \/ Consume(r)
             \/ WakeQueue(r) \/ ReadReturn(r)
      PROVE  SemBalance'
  <2>1. r \in Tasks /\ r \notin Writers /\ UNCHANGED <<count, waiters>>
    BY <1>7, TaskTypes
    DEF ReadCall, WaitForData, ReadFault, Consume, WakeQueue, ReadReturn
  <2>2. PICK l \in ReaderLabels : Goto(r, l)
    BY <1>7
    DEF ReadCall, WaitForData, WaitEvent, Retest, Resume, Interrupt, ReadFault,
        Consume, WakeQueue, ReadReturn, ReaderLabels
  <2>3. pc[r] # "down" /\ l # "down"
    BY TaskTypes DEF ReaderLabels
  <2> QED
    BY <2>1, <2>2, <2>3, Elsewhere
<1> QED
  BY <1>1, <1>2, <1>3, <1>4, <1>5, <1>6, <1>7
  DEF Next, WriteStep, ReadStep, vars, CopyFromUser, CopyToUser

-----------------------------------------------------------------------------
(* Every step keeps the types. *)
LEMMA TypeStep == TypeOK /\ SemBalance /\ [Next]_vars => TypeOK'
<1> SUFFICES ASSUME TypeOK, SemBalance, [Next]_vars PROVE TypeOK'
  OBVIOUS
<1> USE SizeAssumption DEF data, hist
<1>1. SemBalance' /\ count' \in {0, 1}
  <2>1. SemBalance'
    BY SemStep
  <2> QED
    BY <2>1 DEF SemBalance, SemInv
<1>2. /\ Writers \subseteq Tasks /\ Readers \subseteq Tasks
      /\ \A r \in Readers : r \notin Writers
  BY TaskTypes
<1>3. ASSUME NEW w \in Writers, WriteCall(w) PROVE TypeOK'
  <2>1. PICK b \in Bytes, n \in Lengths : user' = [user EXCEPT ![w] = Message(b, Clamp(n))]
    BY <1>3 DEF WriteCall
  <2> DEFINE m == Message(b, Clamp(n))
  <2>2. m \in Seq(Bytes \cup {Nul}) /\ Len(m) <= BUFFER_SIZE
    BY MessageType
  <2> HIDE DEF m
  <2>3. user' = [user EXCEPT ![w] = m]
    BY <2>1 DEF m
  <2>4. /\ user' \in [Tasks -> Seq(Bytes \cup {Nul})]
        /\ \A v \in Writers : Len(user'[v]) <= BUFFER_SIZE
    BY <1>2, <2>2, <2>3 DEF TypeOK
  <2>5. /\ waiters' \in Seq(Writers)
        /\ \E l \in {"copy", "down"} : pc' = [pc EXCEPT ![w] = l]
    BY <1>3, WriterDown DEF WriteCall
  <2>6. ret' \in [Tasks -> {EFAULT, ERESTARTSYS} \cup 0..BUFFER_SIZE]
    <3>1. ret' = [ret EXCEPT ![w] = 0] /\ 0 \in 0..BUFFER_SIZE
      BY <1>3 DEF WriteCall, Enter
    <3> QED
      BY <3>1 DEF TypeOK
  <2>7. /\ pc' \in [Tasks -> WriterLabels \cup ReaderLabels]
        /\ \A v \in Writers : pc'[v] \in WriterLabels
        /\ \A r \in Readers : pc'[r] \in ReaderLabels
    BY <1>2, <2>5, TaskTypes DEF WriterLabels
  <2> QED
    BY <1>1, <1>3, <2>4, <2>5, <2>6, <2>7 DEF WriteCall, TypeOK
<1>4. ASSUME NEW w \in Writers, WriteInterrupted(w) PROVE TypeOK'
  <2>1. waiters' \in Seq(Writers) /\ pc' = [pc EXCEPT ![w] = "idle"]
    BY <1>4, WriterInterrupted DEF WriteInterrupted
  <2>2. /\ pc' \in [Tasks -> WriterLabels \cup ReaderLabels]
        /\ \A v \in Writers : pc'[v] \in WriterLabels
        /\ \A r \in Readers : pc'[r] \in ReaderLabels
    BY <1>2, <2>1, TaskTypes DEF WriterLabels
  <2> QED
    BY <1>1, <1>2, <1>4, <2>1, <2>2 DEF WriteInterrupted, Return, TypeOK
<1>5. ASSUME NEW w \in Writers, CopyFromUser(w) PROVE TypeOK'
  <2>1. /\ user[w] \in Seq(Bytes \cup {Nul})
        /\ Len(user[w]) <= BUFFER_SIZE
        /\ copied[w] \in Nat
        /\ copied[w] + 1 \in 1..Len(user[w])
    BY <1>2, <1>5 DEF CopyFromUser, TypeOK
  <2>2. user[w][copied[w] + 1] \in Bytes \cup {Nul}
    BY <2>1
  <2>3. kernel_buffer' \in [1..BUFFER_SIZE -> Bytes \cup {Nul}]
    BY <1>5, <2>1, <2>2 DEF CopyFromUser, TypeOK
  <2>4. copied' \in [Writers -> 0..BUFFER_SIZE]
    BY <1>5, <2>1 DEF CopyFromUser, TypeOK
  <2> QED
    BY <1>5, <2>3, <2>4 DEF CopyFromUser, ksync, TypeOK
<1>6. ASSUME NEW w \in Writers, NEW next \in {"idle", "wait"},
             w \in Holders, Up(w, next, "copy")
      PROVE  /\ waiters' \in Seq(Writers)
             /\ pc' \in [Tasks -> WriterLabels \cup ReaderLabels]
             /\ \A v \in Writers : pc'[v] \in WriterLabels
             /\ \A r \in Readers : pc'[r] \in ReaderLabels
  <2>1. /\ waiters' \in Seq(Writers)
        /\ \/ pc' = [pc EXCEPT ![w] = next]
           \/ \E h \in Writers \ {w} : pc' = [pc EXCEPT ![w] = next, ![h] = "copy"]
    BY <1>6, WriterUp
  <2> QED
    BY <1>2, <2>1, TaskTypes DEF WriterLabels
<1>7. ASSUME NEW w \in Writers, WriteFault(w) PROVE TypeOK'
  <2>1. w \in Holders /\ Up(w, "idle", "copy")
    BY <1>7 DEF WriteFault, Holders
  <2>2. kernel_buffer' \in [1..BUFFER_SIZE -> Bytes \cup {Nul}]
    BY <1>7 DEF WriteFault, ZeroTail, TypeOK
  <2> QED
    BY <1>1, <1>2, <1>6, <1>7, <2>1, <2>2 DEF WriteFault, Return, TypeOK
<1>8. ASSUME NEW w \in Writers, Announce(w) PROVE TypeOK'
  BY <1>2, <1>8 DEF Announce, Goto, TypeOK, WriterLabels
<1>9. ASSUME NEW w \in Writers, ReleaseSem(w) PROVE TypeOK'
  <2>1. w \in Holders /\ Up(w, "wait", "copy")
    BY <1>9 DEF ReleaseSem, Holders
  <2> QED
    BY <1>1, <1>6, <1>9, <2>1 DEF ReleaseSem, TypeOK
<1>10. ASSUME NEW w \in Writers, WaitUntilRead(w) PROVE TypeOK'
  BY <1>2, <1>10
  DEF WaitUntilRead, WaitEvent, Retest, Resume, Interrupt, Goto, TypeOK, WriterLabels
<1>11. ASSUME NEW w \in Writers, WriteReturn(w) PROVE TypeOK'
  <2>1. Len(user[w]) \in 0..BUFFER_SIZE
    BY <1>2 DEF TypeOK
  <2> QED
    BY <1>2, <1>11, <2>1 DEF WriteReturn, Return, Goto, TypeOK, WriterLabels
<1>12. ASSUME NEW r \in Readers, ReadCall(r) PROVE TypeOK'
  <2>1. \A n \in Lengths : Clamp(n) \in 0..BUFFER_SIZE
    BY DEF Clamp, Lengths
  <2> QED
    BY <1>2, <1>12, <2>1 DEF ReadCall, Enter, Goto, TypeOK, ReaderLabels
<1>13. ASSUME NEW r \in Readers, WaitForData(r) PROVE TypeOK'
  BY <1>2, <1>13
  DEF WaitForData, WaitEvent, Retest, Resume, Interrupt, Goto, TypeOK, ReaderLabels
<1>14. ASSUME NEW r \in Readers, CopyToUser(r) PROVE TypeOK'
  <2>1. /\ user[r] \in Seq(Bytes \cup {Nul})
        /\ Len(user[r]) + 1 \in 1..BUFFER_SIZE
    BY <1>2, <1>14 DEF CopyToUser, TypeOK
  <2>2. Append(user[r], kernel_buffer[Len(user[r]) + 1]) \in Seq(Bytes \cup {Nul})
    BY <2>1 DEF TypeOK
  <2>3. /\ user' \in [Tasks -> Seq(Bytes \cup {Nul})]
        /\ \A w \in Writers : user'[w] = user[w]
    BY <1>2, <1>14, <2>2 DEF CopyToUser, TypeOK
  <2> QED
    BY <1>14, <2>3 DEF CopyToUser, TypeOK, ksync
<1>15. ASSUME NEW r \in Readers, ReadFault(r) PROVE TypeOK'
  BY <1>2, <1>15 DEF ReadFault, Return, Goto, TypeOK, ReaderLabels
<1>16. ASSUME NEW r \in Readers, Consume(r) PROVE TypeOK'
  BY <1>2, <1>16 DEF Consume, Announced, Goto, TypeOK, ReaderLabels
<1>17. ASSUME NEW r \in Readers, WakeQueue(r) PROVE TypeOK'
  BY <1>2, <1>17 DEF WakeQueue, WakeUp, Goto, TypeOK, ReaderLabels
<1>18. ASSUME NEW r \in Readers, ReadReturn(r) PROVE TypeOK'
  BY <1>2, <1>18 DEF ReadReturn, Return, Goto, TypeOK, ReaderLabels
<1>19. ASSUME UNCHANGED vars PROVE TypeOK'
  BY <1>19 DEF vars, ksync, TypeOK
<1> QED
  BY <1>3, <1>4, <1>5, <1>7, <1>8, <1>9, <1>10, <1>11, <1>12, <1>13, <1>14,
     <1>15, <1>16, <1>17, <1>18, <1>19
  DEF Next, WriteStep, ReadStep

-----------------------------------------------------------------------------
(* Why SynchronousWrite holds: an announcement that no read has withdrawn  *)
(* is still up, and a writer counts as answered only from its announcement *)
(* to its return.                                                          *)
Unanswered == \A w \in Announced : w \notin answered => data_available = 1

AnsweredInCall ==
  \A w \in answered : pc[w] \in {"up", "wait", "prepared", "asleep", "return"}

IInv ==
  /\ TypeOK /\ SemBalance /\ NoLostWakeup
  /\ Unanswered /\ AnsweredInCall /\ SynchronousWrite

(* A step that withdraws the data is followed by its reader's wake-up. *)
LEMMA WakeStep ==
  TypeOK /\ SemBalance /\ NoLostWakeup /\ [Next]_vars => NoLostWakeup'
<1> SUFFICES ASSUME TypeOK, SemBalance, NoLostWakeup, [Next]_vars,
                    NEW w \in Writers,
                    pc'[w] = "asleep", w \in wq', data_available' = 0
             PROVE  \E r \in Readers : pc'[r] = "wake"
  BY DEF NoLostWakeup
<1> USE DEF data
<1>1. /\ pc \in [Tasks -> WriterLabels \cup ReaderLabels]
      /\ Writers \subseteq Tasks /\ Readers \subseteq Tasks
      /\ \A r \in Readers : r \notin Writers
  BY TaskTypes
<1>2. ASSUME pc[w] = "asleep", w \in wq, data_available = 0,
             \A r \in Readers : pc[r] = "wake" => pc'[r] = "wake"
      PROVE  \E r \in Readers : pc'[r] = "wake"
  BY <1>2 DEF NoLostWakeup
<1>3. ASSUME NEW r \in Readers, Consume(r) PROVE \E q \in Readers : pc'[q] = "wake"
  BY <1>1, <1>3 DEF Consume, Goto
<1>4. ASSUME NEW r \in Readers, WakeQueue(r) PROVE FALSE
  BY <1>4 DEF WakeQueue, WakeUp
<1>5. ASSUME NEW r \in Readers,
             ReadCall(r) \/ WaitForData(r) \/ ReadFault(r) \/ ReadReturn(r)
      PROVE  \E q \in Readers : pc'[q] = "wake"
  <2>1. /\ pc[r] # "wake" /\ data_available' = data_available
        /\ \A t \in Tasks \ {r} : pc'[t] = pc[t]
        /\ w \in wq' => w \in wq \/ w = r
    BY <1>1, <1>5
    DEF ReadCall, WaitForData, WaitEvent, Retest, Resume, Interrupt, ReadFault,
        ReadReturn, Goto
  <2> QED
    BY <1>1, <1>2, <2>1
<1>6. ASSUME NEW v \in Writers, WaitUntilRead(v) PROVE \E q \in Readers : pc'[q] = "wake"
  <2>1. /\ data_available' = data_available
        /\ \A t \in Tasks \ {v} : pc'[t] = pc[t]
        /\ wq' \subseteq wq \cup {v}
    BY <1>1, <1>6 DEF WaitUntilRead, WaitEvent, Retest, Resume, Interrupt, Goto
  <2>2. v # w
    BY <1>1, <1>6 DEF WaitUntilRead, WaitEvent, Retest, Resume, Interrupt, Goto
  <2> QED
    BY <1>1, <1>2, <2>1, <2>2
<1>7. ASSUME NEW v \in Writers, WriteFault(v) \/ ReleaseSem(v)
      PROVE  \E q \in Readers : pc'[q] = "wake"
  <2>1. v \in Holders /\ UNCHANGED <<wq, data_available>>
    BY <1>7 DEF WriteFault, ReleaseSem, Holders
  <2>2. PICK next \in {"idle", "wait"} : Up(v, next, "copy")
    BY <1>7 DEF WriteFault, ReleaseSem
  <2>3. \/ pc' = [pc EXCEPT ![v] = next]
        \/ \E h \in Writers \ {v} : pc' = [pc EXCEPT ![v] = next, ![h] = "copy"]
    BY <2>1, <2>2, WriterUp
  <2>4. pc[w] = "asleep" /\ \A r \in Readers : pc'[r] = pc[r]
    BY <1>1, <2>1, <2>3 DEF Holders
  <2> QED
    BY <1>2, <2>1, <2>4
<1>8. ASSUME NEW v \in Writers,
             WriteCall(v) \/ WriteInterrupted(v) \/ Announce(v) \/ WriteReturn(v)
      PROVE  \E q \in Readers : pc'[q] = "wake"
  <2>1. PICK l \in {"copy", "down", "idle", "up"} : pc' = [pc EXCEPT ![v] = l]
    BY <1>8, WriterDown, WriterInterrupted
    DEF WriteCall, WriteInterrupted, Announce, WriteReturn, Goto
  <2>2. wq' = wq /\ data_available' \in {1, data_available}
    BY <1>8 DEF WriteCall, WriteInterrupted, Announce, WriteReturn
  <2>3. pc[w] = "asleep" /\ \A r \in Readers : pc'[r] = pc[r]
    BY <1>1, <2>1
  <2> QED
    BY <1>2, <2>2, <2>3
<1>9. ASSUME UNCHANGED <<pc, wq, data_available>>
      PROVE  \E r \in Readers : pc'[r] = "wake"
  BY <1>9 DEF NoLostWakeup
<1> QED
  BY <1>3, <1>4, <1>5, <1>6, <1>7, <1>8, <1>9
  DEF Next, WriteStep, ReadStep, vars, ksync, CopyFromUser, CopyToUser

(* The three parts about answers, of which a step of w disturbs only w's.  *)
LEMMA AnswerStep ==
  ASSUME TypeOK, SemBalance, Unanswered, AnsweredInCall, SynchronousWrite, [Next]_vars
  PROVE  Unanswered' /\ AnsweredInCall' /\ SynchronousWrite'
<1> DEFINE P == Unanswered' /\ AnsweredInCall' /\ SynchronousWrite'
<1> USE DEF data, hist, Unanswered, AnsweredInCall, SynchronousWrite, Announced
<1>1. /\ pc \in [Tasks -> WriterLabels \cup ReaderLabels]
      /\ Writers \subseteq Tasks /\ Readers \subseteq Tasks
      /\ \A r \in Readers : r \notin Writers
      /\ answered \subseteq Writers
  BY TaskTypes DEF TypeOK
<1>2. ASSUME NEW w \in Writers, WriteCall(w) \/ WriteInterrupted(w) PROVE P
  <2>1. PICK l \in {"copy", "down", "idle"} : pc' = [pc EXCEPT ![w] = l]
    BY <1>2, WriterDown, WriterInterrupted DEF WriteCall, WriteInterrupted
  <2>2. /\ pc[w] \in {"idle", "down"}
        /\ UNCHANGED <<data_available, answered>>
    BY <1>2 DEF WriteCall, WriteInterrupted, DownInterrupted
  <2> QED
    BY <1>1, <2>1, <2>2
<1>3. ASSUME NEW w \in Writers, WriteFault(w) PROVE P
  <2>1. w \in Holders /\ Up(w, "idle", "copy")
    BY <1>3 DEF WriteFault, Holders
  <2>2. \/ pc' = [pc EXCEPT ![w] = "idle"]
        \/ \E h \in Writers \ {w} :
             pc[h] = "down" /\ pc' = [pc EXCEPT ![w] = "idle", ![h] = "copy"]
    BY <2>1, WriterUp
  <2>3. pc[w] = "copy" /\ UNCHANGED <<data_available, answered>>
    BY <1>3 DEF WriteFault
  <2> QED
    BY <1>1, <2>2, <2>3
<1>4. ASSUME NEW w \in Writers, Announce(w) PROVE P
  BY <1>1, <1>4 DEF Announce, Goto
<1>5. ASSUME NEW w \in Writers, ReleaseSem(w) PROVE P
  <2>1. w \in Holders /\ Up(w, "wait", "copy")
    BY <1>5 DEF ReleaseSem, Holders
  <2>2. \/ pc' = [pc EXCEPT ![w] = "wait"]
        \/ \E h \in Writers \ {w} :
             pc[h] = "down" /\ pc' = [pc EXCEPT ![w] = "wait", ![h] = "copy"]
    BY <2>1, WriterUp
  <2>3. pc[w] = "up" /\ UNCHANGED <<data_available, answered>>
    BY <1>5 DEF ReleaseSem
  <2> QED
    BY <1>1, <2>2, <2>3
<1>6. ASSUME NEW w \in Writers, WaitUntilRead(w) PROVE P
  <2>1. UNCHANGED <<data_available, answered>>
    BY <1>6 DEF WaitUntilRead
  <2>2. /\ pc[w] \in {"wait", "prepared", "asleep"}
        /\ \/ pc' = [pc EXCEPT ![w] = "return"] /\ (data_available = 0 \/ w \in Signalled)
           \/ \E l \in {"prepared", "asleep"} : pc' = [pc EXCEPT ![w] = l]
    BY <1>6 DEF WaitUntilRead, WaitEvent, Retest, Resume, Interrupt, Goto
  <2> QED
    BY <1>1, <2>1, <2>2
<1>7. ASSUME NEW w \in Writers, WriteReturn(w) PROVE P
  BY <1>1, <1>7 DEF WriteReturn, Goto
<1>8. ASSUME NEW r \in Readers, Consume(r) PROVE P
  BY <1>1, <1>8 DEF Consume, Goto
<1>9. ASSUME NEW r \in Readers,
             ReadCall(r) \/ WaitForData(r) \/ ReadFault(r) \/ WakeQueue(r) \/ ReadReturn(r)
      PROVE  P
  <2>1. /\ UNCHANGED <<data_available, answered>>
        /\ \A w \in Writers : pc'[w] = pc[w]
    BY <1>1, <1>9
    DEF ReadCall, WaitForData, WaitEvent, Retest, Resume, Interrupt, ReadFault,
        WakeQueue, ReadReturn, Goto
  <2> QED
    BY <1>1, <2>1
<1>10. ASSUME UNCHANGED <<pc, data_available, answered>> PROVE P
  BY <1>10
<1> QED
  BY <1>2, <1>3, <1>4, <1>5, <1>6, <1>7, <1>8, <1>9, <1>10
  DEF Next, WriteStep, ReadStep, vars, ksync, CopyFromUser, CopyToUser

-----------------------------------------------------------------------------
(* The invariant holds at first. *)
LEMMA InvInit == Init => IInv
<1> SUFFICES ASSUME Init PROVE IInv
  OBVIOUS
<1>1. TypeOK
  BY TypeInit
<1>2. \A w \in Writers : pc[w] = "idle"
  BY DEF Init, Tasks
<1>3. SemBalance
  BY <1>2 DEF Init, SemBalance, SemInv, Holders
<1> QED
  BY <1>1, <1>2, <1>3
  DEF Init, IInv, NoLostWakeup, Unanswered, Announced, AnsweredInCall, SynchronousWrite

(* The invariant holds in every reachable state. *)
THEOREM Invariance == Spec => []IInv
<1>1. IInv /\ [Next]_vars => IInv'
  BY TypeStep, SemStep, WakeStep, AnswerStep DEF IInv
<1> QED
  BY InvInit, <1>1, PTL DEF Spec

(* Every reachable state is well typed; in particular no copy ever goes    *)
(* past the buffer, whatever count a caller passes (line 40).              *)
THEOREM TypeCorrect == Spec => []TypeOK
BY Invariance, PTL DEF IInv

(* However a write ends, the semaphore is given back exactly once, before  *)
(* the writer sleeps (lines 44 to 54).                                     *)
THEOREM SemaphoreBalanced == Spec => []SemBalance
BY Invariance, PTL DEF IInv

(* A writer asleep on the queue with the flag down is about to be woken by *)
(* the reader that took it down (lines 33 and 34).                         *)
THEOREM WakeupNotLost == Spec => []NoLostWakeup
BY Invariance, PTL DEF IInv

(* A write that no signal cuts short returns only after a read that        *)
(* finished since its announcement (lines 53 to 59), whatever other        *)
(* writers announce meanwhile.                                             *)
THEOREM WriteSynchronous == Spec => []SynchronousWrite
BY Invariance, PTL DEF IInv

-----------------------------------------------------------------------------
(* The rendezvous of one writer and one reader whom no signal reaches.     *)

OnePair ==
  /\ \A v, w \in Writers : v = w
  /\ \A q, r \in Readers : q = r
  /\ Signalled = {}

AnnouncedLabels == {"up", "wait", "prepared", "asleep"}

(* What is announced has its writer waiting for the answer. *)
OnOffer == data_available = 1 => \E w \in Writers : pc[w] \in AnnouncedLabels

(* The reader has received a prefix of what is on offer. *)
ReaderCopies ==
  \A r \in Readers :
    /\ pc[r] \in {"idle", "wait", "prepared", "asleep"} => user[r] = <<>>
    /\ pc[r] = "read" =>
         /\ data_available = 1
         /\ Len(user[r]) <= want[r]
         /\ \A i \in 1..Len(user[r]) : user[r][i] = kernel_buffer[i]

PairInv == IInv /\ OnOffer /\ ReaderCopies

(* A step of the writer: filling the buffer while nothing is on offer, the *)
(* offer, waiting for its answer, or leaving after it.                     *)
LEMMA WriterMoves ==
  ASSUME PairInv, OnePair, NEW w \in Writers,
         WriteCall(w) \/ WriteInterrupted(w) \/ WriteStep(w)
  PROVE  /\ \A r \in Readers : pc'[r] = pc[r] /\ user'[r] = user[r]
         /\ want' = want /\ got' = got
         /\ \/ /\ pc[w] \notin AnnouncedLabels /\ pc'[w] \notin AnnouncedLabels
               /\ data_available' = data_available
            \/ /\ pc[w] \notin AnnouncedLabels /\ pc'[w] \in AnnouncedLabels
               /\ data_available' = 1 /\ kernel_buffer' = kernel_buffer
            \/ /\ pc[w] \in AnnouncedLabels /\ pc'[w] \in AnnouncedLabels
               /\ UNCHANGED data
            \/ /\ pc[w] \in AnnouncedLabels /\ pc'[w] \notin AnnouncedLabels
               /\ data_available = 0 /\ UNCHANGED data
<1> DEFINE P == /\ \A r \in Readers : pc'[r] = pc[r] /\ user'[r] = user[r]
                /\ want' = want /\ got' = got
                /\ \/ /\ pc[w] \notin AnnouncedLabels /\ pc'[w] \notin AnnouncedLabels
                      /\ data_available' = data_available
                   \/ /\ pc[w] \notin AnnouncedLabels /\ pc'[w] \in AnnouncedLabels
                      /\ data_available' = 1 /\ kernel_buffer' = kernel_buffer
                   \/ /\ pc[w] \in AnnouncedLabels /\ pc'[w] \in AnnouncedLabels
                      /\ UNCHANGED data
                   \/ /\ pc[w] \in AnnouncedLabels /\ pc'[w] \notin AnnouncedLabels
                      /\ data_available = 0 /\ UNCHANGED data
<1> USE DEF AnnouncedLabels, data, hist
<1>1. /\ pc \in [Tasks -> WriterLabels \cup ReaderLabels]
      /\ user \in [Tasks -> Seq(Bytes \cup {Nul})]
      /\ w \in Tasks /\ Readers \subseteq Tasks
      /\ \A r \in Readers : r \notin Writers
      /\ TypeOK /\ SemBalance
  BY TaskTypes DEF PairInv, IInv, TypeOK
<1>2. ASSUME WriteCall(w) PROVE P
  <2>1. /\ pc[w] = "idle" /\ UNCHANGED <<data_available, want, got>>
        /\ \E m : user' = [user EXCEPT ![w] = m]
        /\ \E l \in {"copy", "down"} : pc' = [pc EXCEPT ![w] = l]
    BY <1>1, <1>2, WriterDown DEF WriteCall
  <2> QED
    BY <1>1, <2>1
<1>3. ASSUME WriteInterrupted(w) PROVE FALSE
  BY <1>3 DEF WriteInterrupted, DownInterrupted, OnePair
<1>4. ASSUME CopyFromUser(w) PROVE P
  BY <1>4 DEF CopyFromUser, ksync
<1>5. ASSUME NEW next \in {"idle", "wait"}, w \in Holders, Up(w, next, "copy")
      PROVE  pc' = [pc EXCEPT ![w] = next]
  BY <1>1, <1>5, WriterUp DEF OnePair
<1>6. ASSUME WriteFault(w) PROVE P
  <2>1. pc[w] = "copy" /\ pc' = [pc EXCEPT ![w] = "idle"]
    BY <1>5, <1>6 DEF WriteFault, Holders
  <2> QED
    BY <1>1, <1>6, <2>1 DEF WriteFault, Return
<1>7. ASSUME Announce(w) PROVE P
  BY <1>1, <1>7 DEF Announce, Goto
<1>8. ASSUME ReleaseSem(w) PROVE P
  <2>1. pc[w] = "up" /\ pc' = [pc EXCEPT ![w] = "wait"]
    BY <1>5, <1>8 DEF ReleaseSem, Holders
  <2> QED
    BY <1>1, <1>8, <2>1 DEF ReleaseSem
<1>9. ASSUME WaitUntilRead(w) PROVE P
  <2>1. /\ pc[w] \in {"wait", "prepared", "asleep"} /\ UNCHANGED <<data, user, want, hist>>
        /\ \/ pc' = [pc EXCEPT ![w] = "return"] /\ data_available = 0
           \/ \E l \in {"prepared", "asleep"} : pc' = [pc EXCEPT ![w] = l]
    BY <1>9 DEF WaitUntilRead, WaitEvent, Retest, Resume, Interrupt, Goto, OnePair
  <2> QED
    BY <1>1, <2>1
<1>10. ASSUME WriteReturn(w) PROVE P
  BY <1>1, <1>10 DEF WriteReturn, Goto, Return
<1> QED
  BY <1>2, <1>3, <1>4, <1>6, <1>7, <1>8, <1>9, <1>10 DEF WriteStep

(* A step of the reader leaves the writer and the buffer alone, and all    *)
(* but the read's last step leave the offer there.                         *)
LEMMA ReaderMoves ==
  ASSUME PairInv, OnePair, NEW r \in Readers, ReadCall(r) \/ ReadStep(r)
  PROVE  /\ \A w \in Writers : pc'[w] = pc[w]
         /\ kernel_buffer' = kernel_buffer
         /\ \/ data_available' = data_available /\ got' = got
            \/ Consume(r)
         /\ ReaderCopies'
<1> USE DEF data, hist
<1>1. /\ pc \in [Tasks -> WriterLabels \cup ReaderLabels]
      /\ user \in [Tasks -> Seq(Bytes \cup {Nul})]
      /\ want \in [Readers -> 0..BUFFER_SIZE]
      /\ kernel_buffer \in [1..BUFFER_SIZE -> Bytes \cup {Nul}]
      /\ r \in Tasks /\ Writers \subseteq Tasks
      /\ \A w \in Writers : w # r
      /\ pc'[r] \in {"idle", "wait", "prepared", "asleep", "read"} =>
           /\ pc[r] \in {"idle", "wait", "prepared", "asleep"} => user[r] = <<>>
           /\ pc[r] = "read" =>
                /\ data_available = 1 /\ Len(user[r]) <= want[r]
                /\ \A i \in 1..Len(user[r]) : user[r][i] = kernel_buffer[i]
  BY TaskTypes DEF PairInv, IInv, TypeOK, ReaderCopies
<1>2. /\ \A w \in Writers : pc'[w] = pc[w]
      /\ kernel_buffer' = kernel_buffer
      /\ \/ data_available' = data_available /\ got' = got
         \/ Consume(r)
  BY <1>1
  DEF ReadCall, ReadStep, WaitForData, WaitEvent, Retest, Resume, Interrupt, CopyToUser,
      ReadFault, Consume, WakeQueue, ReadReturn, Goto, ksync
<1>3. \/ pc'[r] \in {"idle", "wait", "prepared", "asleep"} /\ user'[r] = <<>>
      \/ pc'[r] \in {"wake", "return"}
      \/ /\ pc'[r] = "read" /\ data_available' = 1 /\ Len(user'[r]) <= want'[r]
         /\ \A i \in 1..Len(user'[r]) : user'[r][i] = kernel_buffer[i]
  <2>1. CASE ReadCall(r)
    BY <1>1, <2>1 DEF ReadCall, Goto
  <2>2. CASE WaitForData(r)
    <3>1. /\ pc[r] \in {"wait", "prepared", "asleep"} /\ UNCHANGED <<data, user, want>>
          /\ \/ pc' = [pc EXCEPT ![r] = "read"] /\ data_available = 1
             \/ \E l \in {"prepared", "asleep"} : pc' = [pc EXCEPT ![r] = l]
      BY <2>2 DEF WaitForData, WaitEvent, Retest, Resume, Interrupt, Goto, OnePair
    <3>2. want[r] \in Nat
      BY <1>1
    <3> QED
      BY <1>1, <3>1, <3>2
  <2>3. CASE CopyToUser(r)
    <3>1. /\ pc[r] = "read" /\ pc' = pc /\ data_available' = data_available
          /\ want' = want /\ Len(user[r]) < want[r]
          /\ user'[r] = Append(user[r], kernel_buffer[Len(user[r]) + 1])
      BY <1>1, <2>3 DEF CopyToUser, ksync
    <3>2. PICK s \in Seq(Bytes \cup {Nul}) : s = user[r]
      BY <1>1
    <3>3. PICK c : c = kernel_buffer[Len(s) + 1]
      OBVIOUS
    <3>4. Len(s) \in Nat /\ Len(s) + 1 \in 1..BUFFER_SIZE
      BY <1>1, <3>1, <3>2, SizeAssumption
    <3>5. c \in Bytes \cup {Nul}
      BY <1>1, <3>3, <3>4
    <3>6. /\ Len(Append(s, c)) = Len(s) + 1
          /\ \A i \in 1..Len(s) : Append(s, c)[i] = s[i]
          /\ Append(s, c)[Len(s) + 1] = c
      BY <3>5
    <3>7. user'[r] = Append(s, c)
      BY <3>1, <3>2, <3>3
    <3>8. Len(user'[r]) <= want[r]
      BY <1>1, <3>1, <3>2, <3>4, <3>6, <3>7
    <3>9. ASSUME NEW i \in 1..Len(user'[r]) PROVE user'[r][i] = kernel_buffer[i]
      <4>1. i \in 1..Len(s) \/ i = Len(s) + 1
        BY <3>4, <3>6, <3>7
      <4> QED
        BY <1>1, <3>1, <3>2, <3>3, <3>6, <3>7, <4>1
    <3> QED
      BY <1>1, <3>1, <3>8, <3>9
  <2>4. CASE ReadFault(r) \/ ReadReturn(r)
    BY <1>1, <2>4 DEF ReadFault, ReadReturn, Goto, Return
  <2>5. CASE Consume(r) \/ WakeQueue(r)
    BY <1>1, <2>5 DEF Consume, WakeQueue, Goto
  <2> QED
    BY <2>1, <2>2, <2>3, <2>4, <2>5 DEF ReadStep
<1>4. ReaderCopies'
  BY <1>2, <1>3 DEF OnePair, ReaderCopies
<1> QED
  BY <1>2, <1>4

(* Every step of the pair keeps what the rendezvous rests on. *)
LEMMA PairInvNext ==
  ASSUME OnePair, PairInv, [Next]_vars, IInv' PROVE PairInv'
<1> USE DEF OnePair
<1>1. ASSUME NEW w \in Writers, WriteCall(w) \/ WriteInterrupted(w) \/ WriteStep(w)
      PROVE  PairInv'
  <2>1. OnOffer'
    BY <1>1, WriterMoves DEF OnOffer, PairInv, data
  <2>2. data_available = 1 => pc[w] \in AnnouncedLabels
    BY DEF OnOffer, PairInv
  <2>3. ReaderCopies'
    BY <1>1, <2>2, WriterMoves DEF ReaderCopies, PairInv, data
  <2> QED
    BY <2>1, <2>3 DEF PairInv
<1>2. ASSUME NEW r \in Readers, ReadCall(r) \/ ReadStep(r) PROVE PairInv'
  <2>1. data_available' = 1 => data_available = 1
    BY <1>2, ReaderMoves DEF Consume
  <2>2. OnOffer'
    BY <1>2, <2>1, ReaderMoves DEF OnOffer, PairInv
  <2> QED
    BY <1>2, <2>2, ReaderMoves DEF PairInv
<1>3. ASSUME UNCHANGED vars PROVE PairInv'
  BY <1>3 DEF PairInv, OnOffer, ReaderCopies, vars, ksync, data
<1> QED
  BY <1>1, <1>2, <1>3 DEF Next

-----------------------------------------------------------------------------
(* A prefix that was received byte by byte is the prefix. *)
LEMMA PrefixReceived ==
  ASSUME NEW S, NEW k \in Nat, NEW b \in [1..k -> S], NEW s \in Seq(S), Len(s) <= k,
         \A i \in 1..Len(s) : s[i] = b[i]
  PROVE  s = SubSeq(b, 1, Len(s)) /\ Len(s) \in 0..Len(b) /\ Len(b) = k
<1>1. b \in Seq(S) /\ Len(b) = k
  OBVIOUS
<1>2. /\ SubSeq(b, 1, Len(s)) \in Seq(S)
      /\ Len(SubSeq(b, 1, Len(s))) = Len(s)
      /\ \A i \in 1..Len(s) : SubSeq(b, 1, Len(s))[i] = b[i]
  BY <1>1
<1> QED
  BY <1>1, <1>2

(* The step of the pair is a step of the rendezvous, or changes nothing    *)
(* that the rendezvous knows of.                                           *)
LEMMA PairStep ==
  ASSUME OnePair, PairInv, [Next]_vars
  PROVE  [Meeting!Next]_(Meeting!vars)
<1> DEFINE slot == IF data_available = 1 THEN kernel_buffer ELSE <<>>
<1> USE DEF OnePair
<1>1. /\ kernel_buffer \in [1..BUFFER_SIZE -> Bytes \cup {Nul}]
      /\ user \in [Tasks -> Seq(Bytes \cup {Nul})]
      /\ BUFFER_SIZE \in Nat /\ data_available \in {0, 1}
      /\ kernel_buffer # <<>>
  <2>1. kernel_buffer \in [1..BUFFER_SIZE -> Bytes \cup {Nul}] /\ 1 \in 1..BUFFER_SIZE
    BY SizeAssumption DEF PairInv, IInv, TypeOK
  <2>2. kernel_buffer # <<>>
    <3>1. Len(kernel_buffer) = BUFFER_SIZE
      BY <2>1, SizeAssumption
    <3> QED
      BY <3>1, SizeAssumption
  <2> QED
    BY <2>1, <2>2, SizeAssumption DEF PairInv, IInv, TypeOK
<1>2. ASSUME NEW w \in Writers, WriteCall(w) \/ WriteInterrupted(w) \/ WriteStep(w)
      PROVE  [Meeting!Next]_(Meeting!vars)
  <2>1. /\ Announced = IF pc[w] \in AnnouncedLabels THEN {w} ELSE {}
        /\ Announced' = IF pc'[w] \in AnnouncedLabels THEN {w} ELSE {}
    BY DEF Announced, AnnouncedLabels
  <2>2. data_available = 1 => pc[w] \in AnnouncedLabels
    BY DEF OnOffer, PairInv
  <2>3. \/ UNCHANGED <<slot, Announced, got>>
        \/ /\ slot = <<>> /\ Announced = {}
           /\ slot' = kernel_buffer /\ Announced' = {w} /\ got' = got
        \/ /\ slot = <<>> /\ Announced = {w}
           /\ slot' = slot /\ Announced' = {} /\ got' = got
    BY <1>2, <2>1, <2>2, WriterMoves DEF data
  <2> QED
    BY <1>1, <2>3 DEF Meeting!Next, Meeting!vars, Meeting!Offer, Meeting!Leave
<1>3. ASSUME NEW r \in Readers, ReadCall(r) \/ ReadStep(r)
      PROVE  [Meeting!Next]_(Meeting!vars)
  <2>1. Announced' = Announced /\ kernel_buffer' = kernel_buffer
    BY <1>3, ReaderMoves DEF Announced
  <2>2. CASE data_available' = data_available /\ got' = got
    BY <2>1, <2>2 DEF Meeting!vars
  <2>3. CASE Consume(r)
    <3>1. /\ pc[r] = "read" /\ Len(user[r]) = want[r]
          /\ data_available' = 0 /\ got' = [got EXCEPT ![r] = user[r]]
      BY <2>3 DEF Consume
    <3>2. /\ data_available = 1
          /\ \A i \in 1..Len(user[r]) : user[r][i] = kernel_buffer[i]
      BY <3>1 DEF PairInv, ReaderCopies
    <3>3. user[r] \in Seq(Bytes \cup {Nul}) /\ Len(user[r]) <= BUFFER_SIZE
      BY <1>1, <3>1, SizeAssumption DEF Tasks, PairInv, IInv, TypeOK
    <3>4. /\ user[r] = SubSeq(kernel_buffer, 1, Len(user[r]))
          /\ Len(user[r]) \in 0..Len(kernel_buffer)
      BY <1>1, <3>2, <3>3, PrefixReceived
    <3>5. slot = kernel_buffer /\ slot' = <<>> /\ kernel_buffer # <<>>
      BY <1>1, <3>1, <3>2
    <3>6. got' = [got EXCEPT ![r] = SubSeq(slot, 1, Len(user[r]))]
      BY <3>1, <3>4, <3>5
    <3>7. Len(user[r]) \in 0..Len(slot)
      BY <3>4, <3>5
    <3>8. Meeting!Take(r, Len(user[r]))
      BY <2>1, <3>5, <3>6, <3>7 DEF Meeting!Take
    <3> QED
      BY <3>7, <3>8 DEF Meeting!Next
  <2> QED
    BY <1>3, <2>2, <2>3, ReaderMoves
<1>4. ASSUME UNCHANGED vars PROVE [Meeting!Next]_(Meeting!vars)
  BY <1>4 DEF vars, ksync, data, hist, Meeting!vars, Announced
<1> QED
  BY <1>2, <1>3, <1>4 DEF Next

(* One writer and one reader whom no signal reaches meet in a rendezvous:  *)
(* every announcement is read exactly once, out of a buffer that does not  *)
(* change meanwhile, and the next write begins after it.                   *)
THEOREM PairMeets == ASSUME OnePair PROVE Spec => ImplementsRendezvous
<1>1. Init => PairInv
  BY InvInit DEF Init, PairInv, OnOffer, ReaderCopies, Tasks
<1>2. Init => Meeting!Init
  BY DEF Init, Meeting!Init, Announced, Tasks
<1>3. PairInv /\ IInv' /\ [Next]_vars => PairInv'
  BY PairInvNext
<1>4. PairInv /\ [Next]_vars => [Meeting!Next]_(Meeting!vars)
  BY PairStep
<1> QED
  BY Invariance, <1>1, <1>2, <1>3, <1>4, PTL DEF Spec, ImplementsRendezvous, Meeting!Spec

=============================================================================
