------------------------ MODULE SemBufferRefinement ------------------------
(***************************************************************************)
(* SemBuffer with one reader and no signals implements Channel.            *)
(***************************************************************************)
EXTENDS SemBufferProofs

(* The writer that fills the buffer has copied a prefix of its message.    *)
WriterCopies ==
  \A w \in Writers :
    /\ pc[w] # "idle" => user[w] \in Payloads
    /\ pc[w] \notin {"copy", "up"} => copied[w] = 0
    /\ pc[w] = "copy" => /\ copied[w] <= Len(user[w])
                         /\ \A i \in 1..copied[w] : buffer[i] = user[w][i]

(* The reader has received a prefix of the stored message, and the whole   *)
(* message is still there.                                                 *)
ReaderCopies ==
  \A r \in Readers :
    /\ pc[r] = "idle" => user[r] = <<>>
    /\ pc[r] = "read" => /\ want[r] = buffer_length
                         /\ buffer_length # 0
                         /\ Len(user[r]) <= want[r]
                         /\ \A i \in 1..Len(user[r]) : user[r][i] = buffer[i]

CInv == IInv /\ WriterCopies /\ ReaderCopies

OneReader == \A q, r \in Readers : q = r
NoSignals == Signalled = {}

LEMMA CopiesInit == Init => WriterCopies /\ ReaderCopies
BY DEF Init, WriterCopies, ReaderCopies, Tasks

LEMMA WriterCopiesStep ==
  IInv /\ WriterCopies /\ [Next]_vars => WriterCopies'
<1> SUFFICES ASSUME IInv, WriterCopies, [Next]_vars PROVE WriterCopies'
  OBVIOUS
<1>1. TypeOK /\ SemBalance
  BY DEF IInv
<1>2. /\ pc \in [Tasks -> WriterLabels \cup ReaderLabels]
      /\ user \in [Tasks -> Seq(Bytes \cup {Nul})]
      /\ copied \in [Writers -> 0..BUFFER_SIZE]
      /\ buffer \in [1..BUFFER_SIZE -> Bytes \cup {Nul}]
      /\ Writers \subseteq Tasks /\ Readers \subseteq Tasks
      /\ \A r \in Readers : r \notin Writers
      /\ BUFFER_SIZE \in Nat
  BY <1>1, TasksAssumption, SizeAssumption DEF TypeOK, Tasks
<1>3. ASSUME NEW w \in Writers, WriteCall(w) PROVE WriterCopies'
  <2>1. PICK m \in Payloads : user' = [user EXCEPT ![w] = m]
    BY <1>3 DEF WriteCall
  <2>2. /\ pc[w] = "idle" /\ UNCHANGED <<buffer, copied>>
        /\ pc'[w] \in {"check", "down"}
        /\ \A t \in Tasks \ {w} : pc'[t] = pc[t]
    BY <1>1, <1>3, DownType DEF WriteCall, kbuf
  <2> QED
    BY <1>2, <2>1, <2>2 DEF WriterCopies
<1>4. ASSUME NEW w \in Writers, WriteInterrupted(w) PROVE WriterCopies'
  <2>1. /\ pc[w] = "down" /\ pc' = [pc EXCEPT ![w] = "idle"]
        /\ user' = [user EXCEPT ![w] = <<>>]
        /\ UNCHANGED <<buffer, copied>>
    BY <1>4 DEF WriteInterrupted, DownInterrupted, Goto, Return, kbuf
  <2> QED
    BY <1>2, <2>1 DEF WriterCopies
<1>5. ASSUME NEW w \in Writers, WaitForRoom(w) PROVE WriterCopies'
  <2>1. PICK l \in {"prepared", "asleep", "copy"} : pc' = [pc EXCEPT ![w] = l]
    BY <1>5 DEF WaitForRoom, WaitEvent, Retest, Resume, Interrupt, Goto
  <2>2. /\ pc[w] \in {"check", "prepared", "asleep"}
        /\ UNCHANGED <<buffer, copied, user>>
    BY <1>5 DEF WaitForRoom, WaitEvent, Retest, Resume, Interrupt, kbuf
  <2>3. copied[w] = 0 /\ Len(user[w]) >= 0
    BY <1>2, <2>2 DEF WriterCopies
  <2> QED
    BY <1>2, <2>1, <2>2, <2>3 DEF WriterCopies
<1>6. ASSUME NEW w \in Writers, CopyFromUser(w) PROVE WriterCopies'
  <2>1. /\ pc[w] = "copy" /\ copied[w] < Len(user[w])
        /\ buffer' = [buffer EXCEPT ![copied[w] + 1] = user[w][copied[w] + 1]]
        /\ copied' = [copied EXCEPT ![w] = copied[w] + 1]
        /\ UNCHANGED <<pc, user>>
    BY <1>6 DEF CopyFromUser, ksync
  <2>2. \A v \in Writers : v # w => pc[v] # "copy"
    BY <1>1, <2>1, OneInside DEF Holders
  <2>3. Len(user[w]) \in Nat /\ Len(user[w]) <= BUFFER_SIZE /\ copied[w] \in Nat
    BY <1>1, <1>2 DEF TypeOK
  <2>4. \A i \in 1..(copied[w] + 1) : buffer'[i] = user[w][i]
    <3> DEFINE n == copied[w] + 1
    <3>1. n \in 1..BUFFER_SIZE /\ buffer' = [buffer EXCEPT ![n] = user[w][n]]
      BY <1>2, <2>1, <2>3
    <3>2. \A i \in 1..copied[w] : buffer[i] = user[w][i]
      BY <2>1 DEF WriterCopies
    <3>3. \A i \in 1..n : i = n \/ i \in 1..copied[w]
      BY <2>3
    <3>4. \A i \in 1..n : i \in 1..BUFFER_SIZE
      BY <1>2, <3>1
    <3> HIDE DEF n
    <3>5. \A i \in 1..n : buffer'[i] = user[w][i]
      BY <1>2, <3>1, <3>2, <3>3, <3>4
    <3> QED
      BY <3>5 DEF n
  <2>5. copied'[w] = copied[w] + 1
    BY <1>2, <2>1
  <2>6. \A v \in Writers : v # w => copied'[v] = copied[v]
    BY <1>2, <2>1
  <2> QED
    BY <1>2, <2>1, <2>2, <2>3, <2>4, <2>5, <2>6 DEF WriterCopies
<1>7. ASSUME NEW w \in Writers, WriteFault(w) \/ WriteReturn(w) PROVE WriterCopies'
  <2>1. /\ w \in Holders /\ Up(w, "idle", "check")
        /\ user' = [user EXCEPT ![w] = <<>>]
        /\ copied' = [copied EXCEPT ![w] = 0]
    BY <1>7 DEF WriteFault, WriteReturn, Return, Holders
  <2>2. \A t \in Tasks : pc'[t] # pc[t] =>
          \/ t = w /\ pc'[t] = "idle"
          \/ waiters # <<>> /\ t = Head(waiters) /\ pc'[t] = "check"
    BY <1>1, <2>1, UpType
  <2>3. pc'[w] = "idle"
    <3>1. CASE waiters = <<>>
      BY <1>2, <2>1, <3>1 DEF Up, Goto
    <3>2. CASE waiters # <<>>
      <4>1. Head(waiters) = waiters[1] /\ 1 \in 1..Len(waiters) /\ Head(waiters) \in Writers
        BY <1>1, <3>2 DEF TypeOK
      <4>2. pc[Head(waiters)] = "down"
        BY <1>1, <4>1 DEF SemBalance, SemInv
      <4>3. Head(waiters) # w
        BY <2>1, <4>2 DEF Holders
      <4> DEFINE h == Head(waiters)
      <4>4. pc' = [pc EXCEPT ![w] = "idle", ![h] = "check"]
        BY <3>2, <2>1 DEF Up
      <4>5. h # w
        BY <4>3
      <4> HIDE DEF h
      <4> QED
        BY <1>2, <4>4, <4>5
    <3> QED
      BY <3>1, <3>2
  <2>4. \A v \in Writers : v # w /\ pc'[v] # pc[v] => pc[v] = "down" /\ pc'[v] = "check"
    <3> SUFFICES ASSUME NEW v \in Writers, v # w, pc'[v] # pc[v]
                 PROVE  pc[v] = "down" /\ pc'[v] = "check"
      OBVIOUS
    <3>1. waiters # <<>> /\ v = Head(waiters) /\ pc'[v] = "check"
      BY <1>2, <2>2
    <3>2. v = waiters[1] /\ 1 \in 1..Len(waiters)
      BY <1>1, <3>1 DEF TypeOK
    <3> QED
      BY <1>1, <3>1, <3>2 DEF SemBalance, SemInv
  <2>5. \A v \in Writers : v # w => pc[v] # "copy"
    BY <1>1, <2>1, OneInside DEF Holders
  <2> QED
    BY <1>2, <2>1, <2>3, <2>4, <2>5 DEF WriterCopies
<1>8. ASSUME NEW w \in Writers, SetLength(w) PROVE WriterCopies'
  <2>1. /\ pc[w] = "copy" /\ pc' = [pc EXCEPT ![w] = "up"]
        /\ UNCHANGED <<buffer, copied, user>>
    BY <1>8 DEF SetLength, Goto
  <2> QED
    BY <1>2, <2>1 DEF WriterCopies
<1>9. ASSUME NEW r \in Readers, ReadCall(r) \/ ReadStep(r) PROVE WriterCopies'
  <2>1. /\ UNCHANGED <<buffer, copied>>
        /\ \A w \in Writers : pc'[w] = pc[w] /\ user'[w] = user[w]
    BY <1>2, <1>9
    DEF ReadCall, ReadStep, CopyToUser, ReadFault, ResetBuffer, WakeWriter,
        ReadReturn, Return, Goto, kbuf, ksync
  <2> QED
    BY <2>1 DEF WriterCopies
<1>10. ASSUME UNCHANGED <<pc, user, copied, buffer>> PROVE WriterCopies'
  BY <1>10 DEF WriterCopies
<1> QED
  BY <1>3, <1>4, <1>5, <1>6, <1>7, <1>8, <1>9, <1>10
  DEF Next, WriteStep, vars, ksync, kbuf, WriteTooLong, ReadEmpty

LEMMA ReaderCopiesStep ==
  ASSUME OneReader, NoSignals, IInv, WriterCopies, ReaderCopies, [Next]_vars
  PROVE  ReaderCopies'
<1>1. TypeOK /\ SemBalance /\ \A w \in Writers : pc[w] = "copy" => buffer_length = 0
  BY DEF IInv, CopyIntoEmpty, NoSignals
<1>2. /\ pc \in [Tasks -> WriterLabels \cup ReaderLabels]
      /\ user \in [Tasks -> Seq(Bytes \cup {Nul})]
      /\ want \in [Readers -> 0..BUFFER_SIZE]
      /\ buffer_length \in 0..BUFFER_SIZE
      /\ Writers \subseteq Tasks /\ Readers \subseteq Tasks
      /\ \A r \in Readers : r \notin Writers
  BY <1>1, TasksAssumption DEF TypeOK, Tasks
<1>3. ASSUME \A r \in Readers : pc'[r] = pc[r] /\ user'[r] = user[r],
             UNCHANGED want,
             (\E r \in Readers : pc[r] = "read") => UNCHANGED kbuf
      PROVE  ReaderCopies'
  BY <1>3 DEF ReaderCopies, kbuf
<1>4. ASSUME NEW w \in Writers, CopyFromUser(w) \/ SetLength(w) PROVE ReaderCopies'
  <2>1. /\ pc[w] = "copy" /\ UNCHANGED <<want, user>>
        /\ \A r \in Readers : pc'[r] = pc[r]
    BY <1>2, <1>4 DEF CopyFromUser, SetLength, Goto, ksync
  <2>2. \A r \in Readers : pc[r] # "read"
    BY <1>1, <2>1 DEF ReaderCopies
  <2> QED
    BY <1>3, <2>1, <2>2
<1>5. ASSUME NEW w \in Writers, WriteFault(w) \/ WriteReturn(w) PROVE ReaderCopies'
  <2>1. /\ w \in Holders /\ Up(w, "idle", "check")
        /\ UNCHANGED want
        /\ user' = [user EXCEPT ![w] = <<>>]
        /\ pc[w] = "copy" \/ UNCHANGED kbuf
    BY <1>5 DEF WriteFault, WriteReturn, Return, Holders
  <2>2. \A t \in Tasks : pc'[t] # pc[t] =>
          \/ t = w /\ pc'[t] = "idle"
          \/ waiters # <<>> /\ t = Head(waiters) /\ pc'[t] = "check"
    BY <1>1, <2>1, UpType
  <2>3. waiters # <<>> => Head(waiters) \in Writers
    BY <1>1 DEF TypeOK
  <2>4. \A r \in Readers : pc'[r] = pc[r]
    BY <1>2, <2>2, <2>3
  <2>5. pc[w] = "copy" => \A r \in Readers : pc[r] # "read"
    BY <1>1 DEF ReaderCopies
  <2> QED
    BY <1>2, <1>3, <2>1, <2>4, <2>5
<1>6. ASSUME NEW w \in Writers,
             WriteCall(w) \/ WriteInterrupted(w) \/ WaitForRoom(w)
      PROVE  ReaderCopies'
  <2>1. /\ UNCHANGED <<kbuf, want>>
        /\ \A r \in Readers : user'[r] = user[r]
    BY <1>2, <1>6 DEF WriteCall, WriteInterrupted, WaitForRoom, Return
  <2>2. \A r \in Readers : pc'[r] = pc[r]
    BY <1>2, <1>6
    DEF WriteCall, WriteInterrupted, WaitForRoom, WaitEvent, Retest, Resume,
        Interrupt, Down, DownInterrupted, Goto
  <2> QED
    BY <1>3, <2>1, <2>2
<1>7. ASSUME NEW r \in Readers, ReadCall(r) PROVE ReaderCopies'
  <2>1. /\ pc[r] = "idle" /\ buffer_length # 0
        /\ want' = [want EXCEPT ![r] = buffer_length]
        /\ pc' = [pc EXCEPT ![r] = "read"]
        /\ UNCHANGED <<buffer, buffer_length, user>>
    BY <1>7 DEF ReadCall, Goto, kbuf
  <2>2. user[r] = <<>>
    BY <2>1 DEF ReaderCopies
  <2>3. \A q \in Readers : q = r
    BY DEF OneReader
  <2> QED
    BY <1>2, <2>1, <2>2, <2>3 DEF ReaderCopies
<1>8. ASSUME NEW r \in Readers, CopyToUser(r) PROVE ReaderCopies'
  <2>1. /\ pc[r] = "read" /\ Len(user[r]) < want[r]
        /\ user' = [user EXCEPT ![r] = Append(user[r], buffer[Len(user[r]) + 1])]
        /\ UNCHANGED <<pc, buffer, buffer_length, want>>
    BY <1>8 DEF CopyToUser, kbuf, ksync
  <2>2. user[r] \in Seq(Bytes \cup {Nul}) /\ want[r] \in Nat
    BY <1>2, SizeAssumption
  <2>3. user'[r] = Append(user[r], buffer[Len(user[r]) + 1])
    BY <1>2, <2>1
  <2>4. /\ Len(user'[r]) = Len(user[r]) + 1
        /\ \A i \in 1..Len(user[r]) : user'[r][i] = user[r][i]
        /\ user'[r][Len(user[r]) + 1] = buffer[Len(user[r]) + 1]
    BY <2>2, <2>3
  <2>5. \A i \in 1..Len(user'[r]) : user'[r][i] = buffer[i]
    BY <2>1, <2>2, <2>4 DEF ReaderCopies
  <2>6. Len(user'[r]) <= want[r]
    BY <2>1, <2>2, <2>4
  <2>7. \A q \in Readers : q = r
    BY DEF OneReader
  <2> QED
    BY <2>1, <2>5, <2>6, <2>7 DEF ReaderCopies
<1>9. ASSUME NEW r \in Readers,
             ReadFault(r) \/ ResetBuffer(r) \/ WakeWriter(r) \/ ReadReturn(r)
      PROVE  ReaderCopies'
  <2>1. pc'[r] \in {"idle", "wake", "return"} /\ (pc'[r] = "idle" => user'[r] = <<>>)
    BY <1>2, <1>9
    DEF ReadFault, ResetBuffer, WakeWriter, ReadReturn, Return, Goto
  <2>2. \A q \in Readers : q = r
    BY DEF OneReader
  <2> QED
    BY <2>1, <2>2 DEF ReaderCopies
<1>10. ASSUME UNCHANGED <<pc, user, want, kbuf>> PROVE ReaderCopies'
  BY <1>10 DEF ReaderCopies, kbuf
<1> QED
  BY <1>4, <1>5, <1>6, <1>7, <1>8, <1>9, <1>10
  DEF Next, WriteStep, ReadStep, vars, ksync, WriteTooLong, ReadEmpty

-----------------------------------------------------------------------------
LEMMA EmptyStored == buffer_length = 0 => Stored = <<>>
BY DEF Stored

LEMMA ChanInit == Init => Chan!Init
BY EmptyStored DEF Init, Chan!Init

(* SetLength is the Put of the writer's message, ResetBuffer the reader's  *)
(* Take, and every other step leaves slot and got alone.                   *)
LEMMA ChanStep ==
  ASSUME NoSignals, CInv, [Next]_vars
  PROVE  [Chan!Next]_(Chan!vars)
<1>1. /\ TypeOK /\ WriterCopies /\ ReaderCopies
      /\ \A w \in Writers : pc[w] = "copy" => buffer_length = 0
  BY DEF CInv, IInv, CopyIntoEmpty, NoSignals
<1>2. ASSUME UNCHANGED <<Stored, got>> PROVE [Chan!Next]_(Chan!vars)
  BY <1>2 DEF Chan!vars
<1>3. ASSUME UNCHANGED <<kbuf, got>> PROVE [Chan!Next]_(Chan!vars)
  BY <1>2, <1>3 DEF Stored, kbuf
<1>4. ASSUME NEW w \in Writers, CopyFromUser(w) \/ WriteFault(w)
      PROVE  [Chan!Next]_(Chan!vars)
  <2>1. buffer_length = 0 /\ buffer_length' = 0 /\ UNCHANGED got
    BY <1>1, <1>4 DEF CopyFromUser, WriteFault
  <2>2. Stored = <<>> /\ Stored' = <<>>
    BY <2>1 DEF Stored
  <2> QED
    BY <1>2, <2>1, <2>2
<1>5. ASSUME NEW w \in Writers, SetLength(w) PROVE [Chan!Next]_(Chan!vars)
  <2>1. /\ pc[w] = "copy" /\ copied[w] = Len(user[w])
        /\ buffer_length' = Len(user[w])
        /\ UNCHANGED <<buffer, got>>
    BY <1>5 DEF SetLength
  <2>2. user[w] \in Payloads /\ user[w] \in Seq(Bytes \cup {Nul})
    BY <1>1, <2>1, PayloadType DEF WriterCopies
  <2>3. Stored = <<>>
    BY <1>1, <2>1, EmptyStored
  <2>4. \A i \in 1..Len(user[w]) : buffer[i] = user[w][i]
    BY <1>1, <2>1 DEF WriterCopies
  <2>5. Stored' = [i \in 1..Len(user[w]) |-> user[w][i]]
    BY <2>1, <2>4 DEF Stored
  <2>6. Stored' = user[w]
    BY <2>2, <2>5
  <2>7. Chan!Put(user[w])
    BY <2>1, <2>3, <2>6 DEF Chan!Put
  <2> QED
    BY <2>2, <2>7 DEF Chan!Next
<1>6. ASSUME NEW r \in Readers, ResetBuffer(r) PROVE [Chan!Next]_(Chan!vars)
  <2>1. /\ pc[r] = "read" /\ Len(user[r]) = want[r]
        /\ buffer_length' = 0
        /\ got' = [got EXCEPT ![r] = user[r]]
    BY <1>6 DEF ResetBuffer
  <2>2. user[r] \in Seq(Bytes \cup {Nul})
    BY <1>1 DEF TypeOK, Tasks
  <2>3. /\ Len(user[r]) = buffer_length /\ buffer_length # 0
        /\ \A i \in 1..Len(user[r]) : user[r][i] = buffer[i]
    BY <1>1, <2>1 DEF ReaderCopies
  <2>4. Stored = [i \in 1..Len(user[r]) |-> user[r][i]]
    BY <2>3 DEF Stored
  <2>5. Stored = user[r]
    BY <2>2, <2>4
  <2>6. Stored # <<>>
    BY <2>2, <2>3, <2>5
  <2>7. Stored' = <<>>
    BY <2>1 DEF Stored
  <2>8. Chan!Take(r)
    BY <2>1, <2>5, <2>6, <2>7 DEF Chan!Take
  <2> QED
    BY <2>8 DEF Chan!Next
<1> QED
  BY <1>3, <1>4, <1>5, <1>6
  DEF Next, WriteStep, ReadStep, vars, ksync, WriteTooLong, WriteCall,
      WriteInterrupted, WaitForRoom, WriteReturn, ReadEmpty, ReadCall,
      CopyToUser, ReadFault, WakeWriter, ReadReturn

(* With one reader and no signals every message is stored into an empty    *)
(* buffer and read exactly once, whole and untorn, for any number of       *)
(* writers and any buffer size: mycdev_write, lines 57 to 75, against      *)
(* mycdev_read, lines 31 to 45, which takes no lock.                       *)
THEOREM Refinement ==
  ASSUME OneReader, NoSignals
  PROVE  Spec => ImplementsChannel
<1>1. Init => CInv
  BY InvInit, CopiesInit DEF CInv
<1>2. CInv /\ [Next]_vars => CInv'
  BY TypeStep, SemStep, WakeStep, CopyStep, WriterCopiesStep, ReaderCopiesStep
  DEF CInv, IInv
<1>3. CInv /\ [Next]_vars => [Chan!Next]_(Chan!vars)
  BY ChanStep
<1> QED
  BY <1>1, <1>2, <1>3, ChanInit, PTL DEF Spec, ImplementsChannel, Chan!Spec

=============================================================================
