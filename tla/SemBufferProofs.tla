-------------------------- MODULE SemBufferProofs --------------------------
(***************************************************************************)
(* Proofs about SemBuffer, for any number of writers and readers, any      *)
(* buffer size, any messages and any set of tasks that take signals.       *)
(***************************************************************************)
EXTENDS SemBuffer, KernelSyncProofs

(* Every message a writer may pass fits the buffer. *)
LEMMA PayloadType ==
  ASSUME NEW m \in Payloads
  PROVE  m \in Seq(Bytes \cup {Nul}) /\ Len(m) \in 0..BUFFER_SIZE
<1>1. PICK b \in Bytes, n \in 0..BUFFER_SIZE : m = [i \in 1..n |-> b]
  BY DEF Payloads, Message
<1>2. n \in Nat
  BY SizeAssumption
<1>3. m \in Seq(Bytes \cup {Nul})
  BY <1>1, <1>2
<1>4. Len(m) = n
  BY <1>1, <1>2
<1> QED
  BY <1>3, <1>4

LEMMA TypeInit == Init => TypeOK
<1> SUFFICES ASSUME Init PROVE TypeOK
  OBVIOUS
<1> QED
  BY SizeAssumption, TasksAssumption
  DEF Init, TypeOK, WriterLabels, ReaderLabels, Tasks

(* Down, Up and DownInterrupted keep the semaphore's variables typed. *)
LEMMA DownType ==
  ASSUME TypeOK, NEW w \in Writers, Down(w, "check")
  PROVE  /\ count' \in {0, 1}
         /\ waiters' \in Seq(Writers)
         /\ pc' \in [Tasks -> WriterLabels \cup ReaderLabels]
         /\ pc'[w] \in {"check", "down"}
         /\ \A t \in Tasks \ {w} : pc'[t] = pc[t]
<1>1. /\ pc \in [Tasks -> WriterLabels \cup ReaderLabels]
      /\ count \in {0, 1}
      /\ waiters \in Seq(Writers)
      /\ w \in Tasks
  BY DEF TypeOK, Tasks
<1>2. CASE count > 0
  BY <1>1, <1>2 DEF Down, Goto, WriterLabels
<1>3. CASE count = 0
  BY <1>1, <1>3 DEF Down, Goto, WriterLabels
<1> QED
  BY <1>1, <1>2, <1>3

LEMMA UpType ==
  ASSUME TypeOK, SemBalance, NEW w \in Holders, Up(w, "idle", "check")
  PROVE  /\ count' \in {0, 1}
         /\ waiters' \in Seq(Writers)
         /\ pc' \in [Tasks -> WriterLabels \cup ReaderLabels]
         /\ \A t \in Tasks : pc'[t] # pc[t] =>
              \/ t = w /\ pc'[t] = "idle"
              \/ waiters # <<>> /\ t = Head(waiters) /\ pc'[t] = "check"
<1>1. /\ pc \in [Tasks -> WriterLabels \cup ReaderLabels]
      /\ waiters \in Seq(Writers)
      /\ w \in Tasks
      /\ count = 0
  BY DEF TypeOK, Tasks, Holders, SemBalance, SemInv
<1>2. CASE waiters = <<>>
  BY <1>1, <1>2 DEF Up, Goto, WriterLabels
<1>3. CASE waiters # <<>>
  <2>1. /\ waiters' = Tail(waiters)
        /\ pc' = [pc EXCEPT ![w] = "idle", ![Head(waiters)] = "check"]
        /\ count' = count
    BY <1>3 DEF Up
  <2>2. Tail(waiters) \in Seq(Writers)
    BY <1>1, <1>3
  <2>3. "check" \in WriterLabels /\ "idle" \in WriterLabels
    BY DEF WriterLabels
  <2> DEFINE h == Head(waiters)
  <2> HIDE DEF h
  <2>4. pc' = [pc EXCEPT ![w] = "idle", ![h] = "check"]
    BY <2>1 DEF h
  <2>5. /\ pc' \in [Tasks -> WriterLabels \cup ReaderLabels]
        /\ \A t \in Tasks : pc'[t] # pc[t] =>
             \/ t = w /\ pc'[t] = "idle"
             \/ t = h /\ pc'[t] = "check"
    BY <1>1, <2>3, <2>4
  <2> QED
    BY <1>1, <1>3, <2>1, <2>2, <2>5 DEF h
<1> QED
  BY <1>2, <1>3

LEMMA DownInterruptedType ==
  ASSUME TypeOK, NEW w \in Writers, DownInterrupted(w, "idle")
  PROVE  /\ count' \in {0, 1}
         /\ waiters' \in Seq(Writers)
         /\ pc' = [pc EXCEPT ![w] = "idle"]
<1>1. count \in {0, 1} /\ waiters \in Seq(Writers)
  BY DEF TypeOK
<1>2. PICK k \in 1..Len(waiters) :
        waiters' = [i \in 1..(Len(waiters) - 1) |->
                      waiters[IF i < k THEN i ELSE i + 1]]
  BY DEF DownInterrupted
<1>3. \A i \in 1..(Len(waiters) - 1) :
        waiters[IF i < k THEN i ELSE i + 1] \in Writers
  BY <1>1
<1>4. waiters' \in Seq(Writers)
  BY <1>1, <1>2, <1>3
<1> QED
  BY <1>1, <1>4 DEF DownInterrupted, Goto

-----------------------------------------------------------------------------
(* The semaphore.  Four ways a step can touch what SemBalance is about.    *)

LEMMA SemTypes ==
  ASSUME TypeOK
  PROVE  /\ pc \in [Tasks -> WriterLabels \cup ReaderLabels]
         /\ DOMAIN pc = Tasks /\ waiters \in Seq(Writers)
         /\ Writers \in SUBSET Tasks
BY DEF TypeOK, Tasks

LEMMA WriterDown ==
  ASSUME TypeOK, SemBalance, NEW w \in Writers, pc[w] = "idle", Down(w, "check")
  PROVE  SemBalance'
<1>1. PICK H : H = Holders
  OBVIOUS
<1>2. SemInv(Writers, H) /\ H \in SUBSET Writers
  BY <1>1 DEF SemBalance, Holders
<1>3. \/ pc' = [pc EXCEPT ![w] = "check"] /\ H = {} /\ SemInv(Writers, {w})'
      \/ pc' = [pc EXCEPT ![w] = "down"] /\ H # {} /\ SemInv(Writers, H)'
  BY <1>2, SemTypes, SemDown
<1>4. CASE pc' = [pc EXCEPT ![w] = "check"] /\ H = {} /\ SemInv(Writers, {w})'
  <2>1. Holders' = {w}
    BY <1>1, <1>4, SemTypes DEF Holders
  <2> QED
    BY <1>4, <2>1 DEF SemBalance, SemInv
<1>5. CASE pc' = [pc EXCEPT ![w] = "down"] /\ SemInv(Writers, H)'
  <2>1. Holders' = H
    BY <1>1, <1>5, SemTypes DEF Holders
  <2> QED
    BY <1>5, <2>1 DEF SemBalance, SemInv
<1> QED
  BY <1>3, <1>4, <1>5

LEMMA WriterUp ==
  ASSUME TypeOK, SemBalance, NEW w \in Holders, Up(w, "idle", "check")
  PROVE  SemBalance'
<1>1. PICK H : H = Holders
  OBVIOUS
<1>2. /\ SemInv(Writers, H) /\ H \in SUBSET Writers /\ w \in H
      /\ pc[w] # "down"
      /\ Writers \in SUBSET DOMAIN pc /\ waiters \in Seq(Writers)
      /\ "idle" # "down" /\ "check" # "down"
  BY <1>1, SemTypes DEF SemBalance, Holders
<1>3. CASE waiters = <<>>
  <2>1. /\ waiters' = <<>> /\ H = {w}
        /\ pc' = [pc EXCEPT ![w] = "idle"]
        /\ SemInv(Writers, {})'
    BY <1>2, <1>3, SemUpFree
  <2>2. Holders' = {}
    BY <1>1, <2>1, SemTypes DEF Holders
  <2> QED
    BY <2>1, <2>2 DEF SemBalance, SemInv
<1>4. CASE waiters # <<>>
  <2>1. PICK h : h = Head(waiters)
    OBVIOUS
  <2>2. /\ waiters' \in Seq(Writers) /\ H = {w}
        /\ h \in Writers /\ h # w /\ pc[h] = "down"
        /\ SemInv(Writers, {h})'
    BY <1>2, <1>4, <2>1, SemUpHandOver
  <2>3. pc' = [pc EXCEPT ![w] = "idle", ![h] = "check"]
    BY <1>4, <2>1 DEF Up
  <2>4. Holders' = {h}
    BY <1>1, <2>2, <2>3, SemTypes DEF Holders
  <2> QED
    BY <2>2, <2>4 DEF SemBalance, SemInv
<1> QED
  BY <1>3, <1>4

LEMMA WriterInterrupted ==
  ASSUME TypeOK, SemBalance, NEW w \in Writers, DownInterrupted(w, "idle")
  PROVE  SemBalance'
<1>1. PICK H : H = Holders
  OBVIOUS
<1>2. SemInv(Writers, H) /\ H \in SUBSET Writers
  BY <1>1 DEF SemBalance, Holders
<1>3. /\ pc[w] = "down" /\ pc' = [pc EXCEPT ![w] = "idle"]
      /\ SemInv(Writers, H)'
  BY <1>2, SemTypes, SemInterrupted
<1>4. Holders' = H
  BY <1>1, <1>3, SemTypes DEF Holders
<1> QED
  BY <1>3, <1>4 DEF SemBalance, SemInv

LEMMA Elsewhere ==
  ASSUME TypeOK, SemBalance, NEW t \in Tasks, NEW l, Goto(t, l),
         UNCHANGED <<count, waiters>>, pc[t] # "down", l # "down",
         t \in Writers => t \in Holders /\ l \in {"prepared", "asleep", "copy", "up"}
  PROVE  SemBalance'
<1>1. PICK H : H = Holders
  OBVIOUS
<1>2. SemInv(Writers, H) /\ H \in SUBSET Writers
  BY <1>1 DEF SemBalance, Holders
<1>3. SemInv(Writers, H)'
  BY <1>2, SemTypes, SemOther
<1>4. Holders' = H
  BY <1>1, SemTypes DEF Holders, Goto
<1> QED
  BY <1>3, <1>4 DEF SemBalance, SemInv

-----------------------------------------------------------------------------
LEMMA TypeStep == TypeOK /\ SemBalance /\ [Next]_vars => TypeOK'
<1> SUFFICES ASSUME TypeOK, SemBalance, [Next]_vars PROVE TypeOK'
  OBVIOUS
<1> USE SizeAssumption, TasksAssumption DEF kbuf
<1>1. /\ Writers \subseteq Tasks /\ Readers \subseteq Tasks
      /\ \A r \in Readers : r \notin Writers
  BY DEF Tasks
<1>2. ASSUME NEW w \in Writers, WriteTooLong(w) PROVE TypeOK'
  BY <1>1, <1>2 DEF WriteTooLong, TypeOK, ksync
<1>3. ASSUME NEW w \in Writers, WriteCall(w) PROVE TypeOK'
  <2>1. PICK m \in Payloads : user' = [user EXCEPT ![w] = m]
    BY <1>3 DEF WriteCall
  <2>2. m \in Seq(Bytes \cup {Nul}) /\ Len(m) \in 0..BUFFER_SIZE
    BY PayloadType
  <2>3. /\ user' \in [Tasks -> Seq(Bytes \cup {Nul})]
        /\ \A v \in Writers : Len(user'[v]) <= BUFFER_SIZE
    BY <1>1, <2>1, <2>2 DEF TypeOK
  <2>4. Down(w, "check")
    BY <1>3 DEF WriteCall
  <2>5. /\ count' \in {0, 1}
        /\ waiters' \in Seq(Writers)
        /\ pc' \in [Tasks -> WriterLabels \cup ReaderLabels]
        /\ pc'[w] \in {"check", "down"}
        /\ \A t \in Tasks \ {w} : pc'[t] = pc[t]
    BY <2>4, DownType
  <2>6. /\ \A v \in Writers : pc'[v] \in WriterLabels
        /\ \A r \in Readers : pc'[r] \in ReaderLabels
    BY <1>1, <2>5 DEF TypeOK, WriterLabels
  <2>7. ret' \in [Tasks -> {EFAULT, EINVAL, ERESTARTSYS} \cup 0..BUFFER_SIZE]
    <3>1. ret \in [Tasks -> {EFAULT, EINVAL, ERESTARTSYS} \cup 0..BUFFER_SIZE]
      BY DEF TypeOK
    <3>2. ret' = [ret EXCEPT ![w] = 0] /\ 0 \in 0..BUFFER_SIZE
      BY <1>3 DEF WriteCall, Enter
    <3> QED
      BY <3>1, <3>2
  <2> QED
    BY <1>3, <2>3, <2>5, <2>6, <2>7 DEF WriteCall, TypeOK
<1>4. ASSUME NEW w \in Writers, WriteInterrupted(w) PROVE TypeOK'
  <2>1. /\ count' \in {0, 1}
        /\ waiters' \in Seq(Writers)
        /\ pc' = [pc EXCEPT ![w] = "idle"]
    BY <1>4, DownInterruptedType DEF WriteInterrupted
  <2> QED
    BY <1>1, <1>4, <2>1
    DEF WriteInterrupted, Return, TypeOK, WriterLabels
<1>5. ASSUME NEW w \in Writers, WaitForRoom(w) PROVE TypeOK'
  BY <1>1, <1>5
  DEF WaitForRoom, WaitEvent, Retest, Resume, Interrupt, Goto, TypeOK, WriterLabels
<1>6. ASSUME NEW w \in Writers, CopyFromUser(w) PROVE TypeOK'
  <2>1. /\ user[w] \in Seq(Bytes \cup {Nul})
        /\ Len(user[w]) <= BUFFER_SIZE
        /\ copied[w] \in Nat
        /\ copied[w] + 1 \in 1..Len(user[w])
    BY <1>1, <1>6 DEF CopyFromUser, TypeOK
  <2>2. user[w][copied[w] + 1] \in Bytes \cup {Nul}
    BY <2>1
  <2>3. buffer' \in [1..BUFFER_SIZE -> Bytes \cup {Nul}]
    BY <1>6, <2>1, <2>2 DEF CopyFromUser, TypeOK
  <2>4. copied' \in [Writers -> 0..BUFFER_SIZE]
    BY <1>6, <2>1 DEF CopyFromUser, TypeOK
  <2> QED
    BY <1>6, <2>3, <2>4 DEF CopyFromUser, ksync, TypeOK
<1>7. ASSUME NEW w \in Writers, Up(w, "idle", "check"), w \in Holders
      PROVE  /\ count' \in {0, 1}
             /\ waiters' \in Seq(Writers)
             /\ pc' \in [Tasks -> WriterLabels \cup ReaderLabels]
             /\ \A v \in Writers : pc'[v] \in WriterLabels
             /\ \A r \in Readers : pc'[r] \in ReaderLabels
  <2>1. \A t \in Tasks : pc'[t] # pc[t] =>
          \/ t = w /\ pc'[t] = "idle"
          \/ waiters # <<>> /\ t = Head(waiters) /\ pc'[t] = "check"
    BY <1>7, UpType
  <2>2. waiters # <<>> => Head(waiters) \in Writers
    BY DEF TypeOK
  <2>3. /\ \A v \in Writers : pc[v] \in WriterLabels
        /\ \A r \in Readers : pc[r] \in ReaderLabels
        /\ "idle" \in WriterLabels /\ "check" \in WriterLabels
    BY DEF TypeOK, WriterLabels
  <2>4. \A v \in Writers : pc'[v] \in WriterLabels
    BY <1>1, <2>1, <2>3
  <2>5. \A r \in Readers : pc'[r] = pc[r]
    BY <1>1, <2>1, <2>2
  <2>6. \A r \in Readers : pc'[r] \in ReaderLabels
    BY <2>3, <2>5
  <2> QED
    BY <1>7, <2>4, <2>6, UpType
<1>8. ASSUME NEW w \in Writers, WriteFault(w) PROVE TypeOK'
  <2>1. Up(w, "idle", "check") /\ w \in Holders
    BY <1>8 DEF WriteFault, Holders
  <2>2. buffer' \in [1..BUFFER_SIZE -> Bytes \cup {Nul}]
    BY <1>8 DEF WriteFault, ZeroTail, TypeOK
  <2> QED
    BY <1>1, <1>7, <1>8, <2>1, <2>2 DEF WriteFault, Return, TypeOK
<1>9. ASSUME NEW w \in Writers, SetLength(w) PROVE TypeOK'
  <2>1. Len(user[w]) \in 0..BUFFER_SIZE
    BY <1>1 DEF TypeOK
  <2> QED
    BY <1>1, <1>9, <2>1 DEF SetLength, Goto, TypeOK, WriterLabels
<1>10. ASSUME NEW w \in Writers, WriteReturn(w) PROVE TypeOK'
  <2>1. Up(w, "idle", "check") /\ w \in Holders
    BY <1>10 DEF WriteReturn, Holders
  <2>2. Len(user[w]) \in 0..BUFFER_SIZE
    BY <1>1 DEF TypeOK
  <2> QED
    BY <1>1, <1>7, <1>10, <2>1, <2>2 DEF WriteReturn, Return, TypeOK
<1>11. ASSUME NEW r \in Readers, ReadEmpty(r) PROVE TypeOK'
  BY <1>1, <1>11 DEF ReadEmpty, TypeOK, ksync
<1>12. ASSUME NEW r \in Readers, ReadCall(r) PROVE TypeOK'
  BY <1>1, <1>12 DEF ReadCall, Enter, Goto, TypeOK, ReaderLabels
<1>13. ASSUME NEW r \in Readers, CopyToUser(r) PROVE TypeOK'
  <2>1. /\ user[r] \in Seq(Bytes \cup {Nul})
        /\ Len(user[r]) + 1 \in 1..BUFFER_SIZE
    BY <1>1, <1>13 DEF CopyToUser, TypeOK
  <2>2. Append(user[r], buffer[Len(user[r]) + 1]) \in Seq(Bytes \cup {Nul})
    BY <2>1 DEF TypeOK
  <2>3. /\ user' \in [Tasks -> Seq(Bytes \cup {Nul})]
        /\ \A w \in Writers : user'[w] = user[w]
    BY <1>1, <1>13, <2>2 DEF CopyToUser, TypeOK
  <2> QED
    BY <1>13, <2>3 DEF CopyToUser, TypeOK, ksync
<1>14. ASSUME NEW r \in Readers, ReadFault(r) PROVE TypeOK'
  BY <1>1, <1>14 DEF ReadFault, Return, Goto, TypeOK, ReaderLabels
<1>15. ASSUME NEW r \in Readers, ResetBuffer(r) PROVE TypeOK'
  BY <1>1, <1>15 DEF ResetBuffer, Goto, TypeOK, ReaderLabels
<1>16. ASSUME NEW r \in Readers, WakeWriter(r) PROVE TypeOK'
  BY <1>1, <1>16 DEF WakeWriter, WakeUp, Goto, TypeOK, ReaderLabels
<1>17. ASSUME NEW r \in Readers, ReadReturn(r) PROVE TypeOK'
  BY <1>1, <1>17 DEF ReadReturn, Return, Goto, TypeOK, ReaderLabels
<1>18. ASSUME UNCHANGED vars PROVE TypeOK'
  BY <1>18 DEF vars, ksync, TypeOK
<1> QED
  BY <1>2, <1>3, <1>4, <1>5, <1>6, <1>8, <1>9, <1>10, <1>11, <1>12, <1>13,
     <1>14, <1>15, <1>16, <1>17, <1>18
  DEF Next, WriteStep, ReadStep

-----------------------------------------------------------------------------
LEMMA SemStep == TypeOK /\ SemBalance /\ [Next]_vars => SemBalance'
<1> SUFFICES ASSUME TypeOK, SemBalance, [Next]_vars PROVE SemBalance'
  OBVIOUS
<1>1. ASSUME UNCHANGED ksync PROVE SemBalance'
  BY <1>1 DEF ksync, SemBalance, SemInv, Holders
<1>2. ASSUME NEW w \in Writers, WriteCall(w) PROVE SemBalance'
  BY <1>2, WriterDown DEF WriteCall
<1>3. ASSUME NEW w \in Writers, WriteInterrupted(w) PROVE SemBalance'
  BY <1>3, WriterInterrupted DEF WriteInterrupted
<1>4. ASSUME NEW w \in Writers, WaitForRoom(w) PROVE SemBalance'
  <2>1. w \in Holders /\ w \in Tasks /\ UNCHANGED <<count, waiters>>
    BY <1>4 DEF WaitForRoom, WaitEvent, Retest, Resume, Interrupt, Holders, Tasks
  <2>2. PICK l \in {"prepared", "asleep", "copy"} : Goto(w, l)
    BY <1>4 DEF WaitForRoom, WaitEvent, Retest, Resume, Interrupt
  <2>3. pc[w] # "down"
    BY <2>1 DEF Holders
  <2> QED
    BY <2>1, <2>2, <2>3, Elsewhere
<1>5. ASSUME NEW w \in Writers, WriteFault(w) \/ WriteReturn(w) PROVE SemBalance'
  <2>1. w \in Holders /\ Up(w, "idle", "check")
    BY <1>5 DEF WriteFault, WriteReturn, Holders
  <2> QED
    BY <2>1, WriterUp
<1>6. ASSUME NEW w \in Writers, SetLength(w) PROVE SemBalance'
  <2>1. w \in Holders /\ w \in Tasks /\ Goto(w, "up") /\ UNCHANGED <<count, waiters>>
        /\ pc[w] # "down"
    BY <1>6 DEF SetLength, Holders, Tasks
  <2> QED
    BY <2>1, Elsewhere
<1>7. ASSUME NEW r \in Readers,
             ReadCall(r) \/ ReadFault(r) \/ ResetBuffer(r) \/ WakeWriter(r) \/ ReadReturn(r)
      PROVE  SemBalance'
  <2>1. r \in Tasks /\ r \notin Writers /\ UNCHANGED <<count, waiters>>
    BY <1>7, TasksAssumption
    DEF Tasks, ReadCall, ReadFault, ResetBuffer, WakeWriter, ReadReturn
  <2>2. PICK l \in ReaderLabels : Goto(r, l)
    BY <1>7 DEF ReadCall, ReadFault, ResetBuffer, WakeWriter, ReadReturn, ReaderLabels
  <2>3. pc[r] # "down" /\ l # "down"
    BY DEF TypeOK, ReaderLabels
  <2> QED
    BY <2>1, <2>2, <2>3, Elsewhere
<1> QED
  BY <1>1, <1>2, <1>3, <1>4, <1>5, <1>6, <1>7
  DEF Next, WriteStep, ReadStep, vars, WriteTooLong, CopyFromUser, ReadEmpty, CopyToUser

(* While a writer holds the semaphore no other writer is inside. *)
LEMMA OneInside ==
  ASSUME SemBalance, NEW v \in Holders, NEW w \in Writers, v # w
  PROVE  w \notin Holders
BY DEF SemBalance, SemInv, Holders

LEMMA WakeStep ==
  TypeOK /\ SemBalance /\ NoLostWakeup /\ [Next]_vars => NoLostWakeup'
<1> SUFFICES ASSUME TypeOK, SemBalance, NoLostWakeup, [Next]_vars,
                    NEW w \in Writers,
                    pc'[w] = "asleep", w \in wq', buffer_length' = 0
             PROVE  \E r \in Readers : pc'[r] = "wake"
  BY DEF NoLostWakeup
<1>1. /\ pc \in [Tasks -> WriterLabels \cup ReaderLabels]
      /\ Writers \subseteq Tasks /\ Readers \subseteq Tasks
      /\ \A r \in Readers : r \notin Writers
      /\ \A r \in Readers : pc[r] \in ReaderLabels
  BY TasksAssumption DEF TypeOK, Tasks
<1>2. ASSUME NEW r \in Readers, ResetBuffer(r)
      PROVE  \E q \in Readers : pc'[q] = "wake"
  BY <1>1, <1>2 DEF ResetBuffer, Goto
<1>3. ASSUME NEW r \in Readers, WakeWriter(r) PROVE FALSE
  BY <1>3 DEF WakeWriter, WakeUp
<1>4. ASSUME UNCHANGED <<pc, wq, buffer_length>>
      PROVE  \E r \in Readers : pc'[r] = "wake"
  BY <1>4 DEF NoLostWakeup
<1>5. ASSUME pc[w] = "asleep", w \in wq, buffer_length = 0,
             \A r \in Readers : pc[r] = "wake" => pc'[r] = "wake"
      PROVE  \E r \in Readers : pc'[r] = "wake"
  BY <1>5 DEF NoLostWakeup
<1>6. ASSUME NEW r \in Readers, ReadCall(r) \/ ReadFault(r) \/ ReadReturn(r)
      PROVE  \E q \in Readers : pc'[q] = "wake"
  <2>1. /\ pc[r] # "wake" /\ UNCHANGED <<wq, buffer_length>>
        /\ \A t \in Tasks \ {r} : pc'[t] = pc[t]
    BY <1>1, <1>6 DEF ReadCall, ReadFault, ReadReturn, Goto, kbuf
  <2> QED
    BY <1>1, <1>5, <2>1
<1>7. ASSUME NEW v \in Writers,
             WriteCall(v) \/ WriteInterrupted(v) \/ WriteFault(v) \/ WriteReturn(v)
      PROVE  \E q \in Readers : pc'[q] = "wake"
  <2>1. UNCHANGED <<wq, buffer_length>>
    BY <1>7 DEF WriteCall, WriteInterrupted, WriteFault, WriteReturn, kbuf
  <2>2. ASSUME Up(v, "idle", "check"), v \in Holders
        PROVE  /\ pc[w] = "asleep"
               /\ \A r \in Readers : pc'[r] = pc[r]
    <3>1. \A t \in Tasks : pc'[t] # pc[t] =>
            \/ t = v /\ pc'[t] = "idle"
            \/ waiters # <<>> /\ t = Head(waiters) /\ pc'[t] = "check"
      BY <2>2, UpType
    <3>2. waiters # <<>> => Head(waiters) \in Writers
      BY DEF TypeOK
    <3> QED
      BY <1>1, <3>1, <3>2
  <2>3. /\ pc[w] = "asleep"
        /\ \A r \in Readers : pc'[r] = pc[r]
    <3>1. CASE WriteCall(v)
      BY <1>1, <3>1 DEF WriteCall, Down, Goto
    <3>2. CASE WriteInterrupted(v)
      BY <1>1, <3>2 DEF WriteInterrupted, DownInterrupted, Goto
    <3>3. CASE WriteFault(v) \/ WriteReturn(v)
      BY <2>2, <3>3 DEF WriteFault, WriteReturn, Holders
    <3> QED
      BY <1>7, <3>1, <3>2, <3>3
  <2> QED
    BY <1>5, <2>1, <2>3
<1>8. ASSUME NEW v \in Writers, WaitForRoom(v)
      PROVE  \E q \in Readers : pc'[q] = "wake"
  <2>1. /\ UNCHANGED buffer_length
        /\ \A t \in Tasks \ {v} : pc'[t] = pc[t]
        /\ wq' \subseteq wq \cup {v}
    BY <1>1, <1>8 DEF WaitForRoom, WaitEvent, Retest, Resume, Interrupt, Goto, kbuf
  <2>2. v # w
    BY <1>1, <1>8 DEF WaitForRoom, WaitEvent, Retest, Resume, Interrupt, Goto, kbuf
  <2> QED
    BY <1>1, <1>5, <2>1, <2>2
<1>9. ASSUME NEW v \in Writers, SetLength(v) PROVE FALSE
  <2>1. v \in Holders /\ v # w /\ pc[w] = "asleep"
    BY <1>1, <1>9 DEF SetLength, Goto, Holders
  <2> QED
    BY <2>1, OneInside DEF Holders
<1> QED
  BY <1>2, <1>3, <1>4, <1>6, <1>7, <1>8, <1>9
  DEF Next, WriteStep, ReadStep, vars, ksync, kbuf,
      WriteTooLong, CopyFromUser, ReadEmpty, CopyToUser

LEMMA CopyStep ==
  TypeOK /\ SemBalance /\ CopyIntoEmpty /\ [Next]_vars => CopyIntoEmpty'
<1> SUFFICES ASSUME TypeOK, SemBalance, CopyIntoEmpty, [Next]_vars,
                    NEW w \in Writers \ Signalled, pc'[w] = "copy"
             PROVE  buffer_length' = 0
  BY DEF CopyIntoEmpty
<1>1. /\ pc \in [Tasks -> WriterLabels \cup ReaderLabels]
      /\ Writers \subseteq Tasks /\ Readers \subseteq Tasks
      /\ \A r \in Readers : r \notin Writers
  BY TasksAssumption DEF TypeOK, Tasks
<1>2. ASSUME pc[w] = "copy", buffer_length' \in {0, buffer_length}
      PROVE  buffer_length' = 0
  BY <1>2 DEF CopyIntoEmpty
<1>3. ASSUME NEW v \in Writers, WaitForRoom(v) PROVE buffer_length' = 0
  <2>1. CASE v = w
    BY <1>1, <1>3, <2>1
    DEF WaitForRoom, WaitEvent, Retest, Resume, Interrupt, Goto, kbuf
  <2>2. CASE v # w
    BY <1>1, <1>2, <1>3, <2>2
    DEF WaitForRoom, WaitEvent, Retest, Resume, Interrupt, Goto, kbuf
  <2> QED
    BY <2>1, <2>2
<1>4. ASSUME NEW v \in Writers, SetLength(v) PROVE FALSE
  <2>1. v \in Holders /\ v # w /\ pc[w] = "copy"
    BY <1>1, <1>4 DEF SetLength, Goto, Holders
  <2> QED
    BY <2>1, OneInside DEF Holders
<1>5. ASSUME NEW v \in Writers, WriteFault(v) \/ WriteReturn(v)
      PROVE  buffer_length' = 0
  <2>1. Up(v, "idle", "check") /\ v \in Holders /\ UNCHANGED buffer_length
    BY <1>5 DEF WriteFault, WriteReturn, Holders, kbuf
  <2>2. pc[w] = "copy"
    BY <1>1, <2>1, UpType
  <2> QED
    BY <1>2, <2>1, <2>2
<1>6. ASSUME NEW v \in Writers, WriteCall(v) \/ WriteInterrupted(v)
      PROVE  buffer_length' = 0
  <2>1. pc[w] = "copy" /\ UNCHANGED buffer_length
    BY <1>1, <1>6
    DEF WriteCall, WriteInterrupted, Down, DownInterrupted, Goto, kbuf
  <2> QED
    BY <1>2, <2>1
<1>7. ASSUME NEW r \in Readers, ReadEmpty(r) \/ ReadCall(r) \/ ReadStep(r)
      PROVE  buffer_length' = 0
  <2>1. pc[w] = "copy" /\ buffer_length' \in {0, buffer_length}
    BY <1>1, <1>7
    DEF ReadEmpty, ReadCall, ReadStep, CopyToUser, ReadFault, ResetBuffer,
        WakeWriter, ReadReturn, Goto, ksync, kbuf
  <2> QED
    BY <1>2, <2>1
<1>8. ASSUME UNCHANGED ksync, UNCHANGED buffer_length PROVE buffer_length' = 0
  BY <1>2, <1>8 DEF ksync
<1> QED
  BY <1>3, <1>4, <1>5, <1>6, <1>7, <1>8
  DEF Next, WriteStep, vars, kbuf, WriteTooLong, CopyFromUser

-----------------------------------------------------------------------------
(* The inductive invariant: each part needs the ones before it. *)
IInv == TypeOK /\ SemBalance /\ NoLostWakeup /\ CopyIntoEmpty

LEMMA InvInit == Init => IInv
<1> SUFFICES ASSUME Init PROVE IInv
  OBVIOUS
<1>1. TypeOK
  BY TypeInit
<1>2. \A w \in Writers : pc[w] = "idle"
  BY DEF Init, Tasks
<1>3. SemBalance
  BY <1>2 DEF Init, SemBalance, SemInv, Holders
<1> QED
  BY <1>1, <1>2, <1>3 DEF IInv, NoLostWakeup, CopyIntoEmpty

(* The invariant holds in every reachable state. *)
THEOREM Invariance == Spec => []IInv
<1>1. IInv /\ [Next]_vars => IInv'
  BY TypeStep, SemStep, WakeStep, CopyStep DEF IInv
<1> QED
  BY InvInit, <1>1, PTL DEF Spec

(* Every reachable state is well typed. *)
THEOREM TypeCorrect == Spec => []TypeOK
BY Invariance, PTL DEF IInv

(* However a write ends, the semaphore is given back exactly once and at   *)
(* most one writer is between its down and its up (lines 57 to 75).        *)
THEOREM SemaphoreBalanced == Spec => []SemBalance
BY Invariance, PTL DEF IInv

(* A writer asleep on the queue over an empty buffer is about to be woken  *)
(* by the reader that emptied it (lines 43 and 45).                        *)
THEOREM WakeupNotLost == Spec => []NoLostWakeup
BY Invariance, PTL DEF IInv

(* A writer that no signal drives out of its wait copies only while        *)
(* buffer_length is 0 (lines 60 to 66), however many readers there are.    *)
THEOREM CopiesIntoEmpty == Spec => []CopyIntoEmpty
BY Invariance, PTL DEF IInv

=============================================================================
