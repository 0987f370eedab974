---------------------------- MODULE FileDevProofs ----------------------------
(***************************************************************************)
(* Proofs about FileDev, for any number of processes, any bytes, any       *)
(* strings to write and memory of any size from 2 on.                      *)
(***************************************************************************)
EXTENDS FileDev, TLAPS

Byte == Bytes \cup {Nul}

(* The smaller of two numbers. *)
LEMMA MinOfTwo ==
  ASSUME NEW m \in Int, NEW n \in Int
  PROVE  /\ Min({m, n}) \in {m, n}
         /\ Min({m, n}) <= m /\ Min({m, n}) <= n
<1>1. \E x \in {m, n} : \A y \in {m, n} : x =< y
  OBVIOUS
<1>2. Min({m, n}) \in {m, n} /\ \A y \in {m, n} : Min({m, n}) =< y
  BY <1>1 DEF Min
<1> QED
  BY <1>2

(* A sequence with one element more. *)
LEMMA OneMore ==
  ASSUME NEW S, NEW s \in Seq(S), NEW x \in S
  PROVE  /\ Append(s, x) \in Seq(S) /\ Append(s, x) # <<>>
         /\ Len(Append(s, x)) = Len(s) + 1
         /\ s # <<>> => Append(s, x)[1] = s[1]
<1>1. Len(s) \in Nat /\ Len(Append(s, x)) = Len(s) + 1 /\ Append(s, x) \in Seq(S)
  OBVIOUS
<1>2. Append(s, x) # <<>>
  BY <1>1
<1>3. s # <<>> => 1 \in 1..Len(s)
  BY <1>1
<1> QED
  BY <1>1, <1>2, <1>3

-----------------------------------------------------------------------------
(* What the programs ask for.  Only the program ioctl asks for statistics, *)
(* and it neither reads nor writes; usapp's strings end with a Nul, and no *)
(* program of chardev reads as much as its memory holds.                   *)
LEMMA Programs ==
  ASSUME NEW d \in {"chardev", "chrdevdr"}, NEW g \in DOMAIN Program[d]
  PROVE  LET P == Program[d][g] IN
         /\ g # "none"
         /\ P.reads \subseteq Nat
         /\ P.writes \subseteq Seq(Byte)
         /\ P.reads # {} \/ P.writes # {} => g # "ioctl"
         /\ P.asks => g = "ioctl" /\ d = "chardev"
         /\ d = "chardev" => P.reads \subseteq 0..(BUFF - 1)
         /\ d = "chrdevdr" =>
              \A s \in P.writes : Len(s) \in 1..BUFF /\ s[Len(s)] = Nul
<1>1. \A n : Strings(n) \subseteq Seq(Byte) /\ \A s \in Strings(n) : Len(s) \in Nat /\ Len(s) <= n
  BY TextsAssumption DEF Strings, Byte
<1>2. CASE d = "chardev"
  <2>1. g \in {"read", "write", "ioctl", "cat", "echo"}
    BY <1>2 DEF Program
  <2>2. Program[d][g] \in {read_c, write_c, ioctl_c, cat, echo}
    BY <1>2, <2>1 DEF Program
  <2> QED
    BY <1>1, <1>2, <2>1, BuffAssumption DEF Program, read_c, write_c, ioctl_c, cat, echo
<1>3. CASE d = "chrdevdr"
  <2>1. g = "usapp" /\ Program[d][g] = usapp
    BY <1>3 DEF Program
  <2>2. ASSUME NEW s \in usapp.writes
        PROVE  s \in Seq(Byte) /\ Len(s) \in 1..BUFF /\ s[Len(s)] = Nul
    <3>1. PICK t \in Strings(BUFF - 1) : s = t \o <<Nul>>
      BY <2>2 DEF usapp
    <3>2. t \in Seq(Byte) /\ Len(t) \in Nat /\ Len(t) <= BUFF - 1 /\ Nul \in Byte
      BY <1>1 DEF Byte
    <3> QED
      BY <3>1, <3>2, BuffAssumption
  <2>3. usapp.reads = {BUFF} /\ usapp.asks = FALSE
    BY DEF usapp
  <2> QED
    BY <1>3, <2>1, <2>2, <2>3, BuffAssumption
<1> QED
  BY <1>2, <1>3

-----------------------------------------------------------------------------
Labels == {"closed", "open", "length", "read", "ioctl", "write", "zero", "size", "r_w",
           "returned"}

Results == {-12, -14, -22} \cup 0..BUFF

(* What is true of one process, whatever the others do to the shared       *)
(* memory.  A call that copies knows how much: a read of chardev less than *)
(* the memory holds; chrdevdr's all of it, from its start; GETSTATS the    *)
(* whole structure; a write what the driver's capacity allows.             *)
ProcessOK(p) ==
  /\ pc[p] \in Labels /\ prog[p] \in DOMAIN Program[driver] \cup {"none"}
  /\ offset[p] \in 0..(2 * BUFF) /\ todo[p] \in 0..BUFF /\ result[p] \in Results
  /\ buf[p] \in Seq(Byte \cup Int)
  /\ IF prog[p] = "ioctl" /\ buf[p] # <<>>
     THEN buf[p][1] \in 0..(BUFF - 1)
     ELSE buf[p] \in Seq(Byte) /\ Len(buf[p]) <= BUFF
  /\ pc[p] # "closed" => prog[p] # "none"
  /\ pc[p] \in {"closed", "open"} => buf[p] = <<>>
  /\ prog[p] = "ioctl" => pc[p] \in {"open", "ioctl", "returned"}
  /\ ~chardev => offset[p] \in {0, BUFF}
  /\ pc[p] = "length" => buf[p] = <<>>
  /\ pc[p] \in {"length", "read"} => offset[p] <= IF chardev THEN BUFF ELSE 0
  /\ pc[p] = "read" =>
       IF chardev THEN Len(buf[p]) + todo[p] <= BUFF - 1
       ELSE Len(buf[p]) + todo[p] = BUFF
  /\ pc[p] = "ioctl" =>
       prog[p] = "ioctl" /\ buf[p] # <<>> /\ Len(buf[p]) + todo[p] = BUFF + 1
  /\ pc[p] \in {"write", "zero", "size", "r_w"} => Len(buf[p]) <= Capacity
  /\ pc[p] \in {"write", "zero"} => todo[p] <= Len(buf[p])
  /\ pc[p] \in {"size", "r_w"} => chardev
  /\ pc[p] = "write" /\ ~chardev => Len(buf[p]) > 0 /\ buf[p][Len(buf[p])] = Nul

Entries ==
  /\ pc = [q \in Procs |-> pc[q]] /\ prog = [q \in Procs |-> prog[q]]
  /\ offset = [q \in Procs |-> offset[q]] /\ buf = [q \in Procs |-> buf[q]]
  /\ todo = [q \in Procs |-> todo[q]] /\ result = [q \in Procs |-> result[q]]

Kernel ==
  /\ driver \in {"chardev", "chrdevdr"}
  /\ buffer \in [1..BUFF -> Byte]
  /\ size \in 0..(BUFF - 1)
  /\ r_w \in {-1, 0, 1}

History == disturbed \subseteq Calling /\ garbled \in BOOLEAN

(* Why chrdevdr's string ends although writes overwrite one another: there *)
(* is a Nul in the memory, or a write that is not over yet brings one, as  *)
(* its last byte or in place of the bytes that it cannot read.             *)
NulComing ==
  IF chardev THEN buffer[BUFF] = Nul
  ELSE \/ \E i \in 1..BUFF : buffer[i] = Nul
       \/ \E p \in Procs : pc[p] \in {"write", "zero"} /\ todo[p] > 0

(* Why a read that no write overlaps stays inside the array: from its      *)
(* first load of size to its second nobody stores one.                     *)
Tested ==
  \A p \in Procs : chardev /\ p \notin disturbed =>
    /\ pc[p] = "length" => Writing = {} /\ offset[p] < size
    /\ pc[p] = "read" => offset[p] + Len(buf[p]) + todo[p] <= BUFF - 1

IInv == /\ Kernel /\ History /\ Entries /\ NulComing /\ Tested
        /\ \A p \in Procs : ProcessOK(p)

-----------------------------------------------------------------------------
(* A step of p leaves the other processes where they are. *)
Moves(p) ==
  /\ Entries' /\ driver' = driver
  /\ \A q \in Procs \ {p} :
       /\ pc'[q] = pc[q] /\ prog'[q] = prog[q] /\ offset'[q] = offset[q]
       /\ buf'[q] = buf[q] /\ todo'[q] = todo[q] /\ result'[q] = result[q]

(* A step of p that leaves the others where they are need be examined for  *)
(* p only.                                                                 *)
LEMMA OthersStay ==
  ASSUME \A q \in Procs : ProcessOK(q), NEW p \in Procs, Moves(p), ProcessOK(p)'
  PROVE  \A q \in Procs : ProcessOK(q)'
<1>1. ASSUME NEW q \in Procs \ {p} PROVE ProcessOK(q)'
  <2>1. ProcessOK(q)
    OBVIOUS
  <2> QED
    BY <2>1 DEF Moves, ProcessOK, chardev, Capacity
<1> QED
  BY <1>1

(* Every step is such a step of one process. *)
LEMMA MovesStep ==
  ASSUME Entries, NEW p \in Procs,
         Open(p) \/ Exit(p) \/ Call(p) \/ Handler(p) \/ UseResult(p)
  PROVE  Moves(p)
<1> USE DEF Entries, Moves, user, kernel, Close, Enter, Return
<1>1. ASSUME Open(p) \/ Exit(p) \/ UseResult(p) PROVE Moves(p)
  BY <1>1 DEF Open, Exit, UseResult
<1>2. ASSUME ReadCall(p) \/ ReadLength(p) PROVE Moves(p)
  BY <1>2 DEF ReadCall, ReadLength
<1>3. ASSUME ReadAtEnd(p) \/ WriteTooLong(p) PROVE Moves(p)
  BY <1>3 DEF ReadAtEnd, WriteTooLong
<1>4. ASSUME IoctlCall(p) PROVE Moves(p)
  BY <1>4 DEF IoctlCall
<1>5. ASSUME WriteCall(p) PROVE Moves(p)
  BY <1>5 DEF WriteCall
<1>6. ASSUME CopyToUser(p) \/ CopyFromUser(p) PROVE Moves(p)
  BY <1>6 DEF CopyToUser, CopyFromUser
<1>7. ASSUME CopyToUserFault(p) \/ ReadReturn(p) \/ IoctlReturn(p) PROVE Moves(p)
  BY <1>7 DEF CopyToUserFault, ReadReturn, IoctlReturn
<1>8. ASSUME CopyFromUserFault(p) \/ WriteFault(p) \/ WriteReturn(p) PROVE Moves(p)
  BY <1>8 DEF CopyFromUserFault, WriteFault, WriteReturn
<1>9. ASSUME Terminate(p) \/ SetSize(p) PROVE Moves(p)
  BY <1>9 DEF Terminate, SetSize
<1> QED
  BY <1>1, <1>2, <1>3, <1>4, <1>5, <1>6, <1>7, <1>8, <1>9 DEF Call, Handler

-----------------------------------------------------------------------------
(* The second load of size: never as much as the memory holds, and not     *)
(* beyond the string unless the string is shorter than the position.       *)
LEMMA LengthBounds ==
  ASSUME NEW p \in Procs, driver = "chardev", size \in Nat, offset[p] \in Nat,
         NEW len \in 0..(BUFF - 1)
  PROVE  /\ Length(p, len) \in 0..(BUFF - 1)
         /\ offset[p] <= size => offset[p] + Length(p, len) <= size
<1> USE BuffAssumption
<1>1. CASE size < offset[p]
  BY <1>1 DEF Length, chardev
<1>2. CASE size >= offset[p]
  <2>1. PICK left \in Nat : left = size - offset[p]
    BY <1>2
  <2>2. Length(p, len) = Min({len, left})
    BY <1>2, <2>1 DEF Length, chardev
  <2>3. Min({len, left}) \in {len, left} /\ Min({len, left}) <= len /\ Min({len, left}) <= left
    <3>1. len \in Int /\ left \in Int
      BY <2>1
    <3> QED
      BY <3>1, MinOfTwo
  <2> QED
    BY <2>1, <2>2, <2>3
<1> QED
  BY <1>1, <1>2

-----------------------------------------------------------------------------
(* The process that takes the step. *)
LEMMA ProcessStep ==
  ASSUME Kernel, Entries, NEW p \in Procs, ProcessOK(p),
         Open(p) \/ Exit(p) \/ Call(p) \/ Handler(p) \/ UseResult(p)
  PROVE  ProcessOK(p)'
<1> USE BuffAssumption DEF chardev, Capacity, Labels, Results
<1>1. /\ driver \in {"chardev", "chrdevdr"} /\ driver' = driver
      /\ size \in 0..(BUFF - 1) /\ buffer \in [1..BUFF -> Byte]
  BY MovesStep DEF Moves, Kernel
<1>2. ASSUME Open(p) PROVE ProcessOK(p)'
  <2>1. /\ pc[p] = "closed" /\ pc'[p] = "open" /\ prog'[p] \in DOMAIN Program[driver]
        /\ UNCHANGED <<offset, buf, todo, result>>
    BY <1>2 DEF Open, Entries
  <2>2. prog'[p] # "none"
    BY <1>1, <2>1, Programs
  <2> QED
    BY <1>1, <2>1, <2>2 DEF ProcessOK
<1>3. ASSUME Exit(p) PROVE ProcessOK(p)'
  <2>1. /\ pc[p] = "open" /\ pc'[p] = "closed" /\ prog'[p] = "none" /\ offset'[p] = 0
        /\ UNCHANGED <<buf, todo, result>>
    BY <1>3 DEF Exit, Close, Entries
  <2> QED
    BY <1>1, <2>1 DEF ProcessOK
<1>4. ASSUME UseResult(p) PROVE ProcessOK(p)'
  <2>1. /\ pc[p] = "returned"
        /\ \/ pc'[p] = "open" /\ prog'[p] = prog[p] /\ offset'[p] = offset[p]
           \/ pc'[p] = "closed" /\ prog'[p] = "none" /\ offset'[p] = 0
        /\ buf'[p] = <<>> /\ result'[p] = 0 /\ todo' = todo
    BY <1>4 DEF UseResult, Close, Entries
  <2> QED
    BY <1>1, <2>1 DEF ProcessOK
<1>5. ASSUME ReadCall(p) PROVE ProcessOK(p)'
  <2>1. /\ pc[p] = "open" /\ Runs(p).reads # {} /\ offset[p] < End
        /\ pc'[p] = "length" /\ buf'[p] = <<>> /\ todo'[p] = 0
        /\ UNCHANGED <<prog, offset, result>>
    BY <1>5 DEF ReadCall, Enter, Entries, user
  <2>2. prog[p] # "ioctl" /\ prog[p] # "none"
    BY <1>1, <2>1, Programs DEF Runs, ProcessOK
  <2>3. offset[p] <= IF driver = "chardev" THEN BUFF ELSE 0
    BY <1>1, <2>1 DEF End, ProcessOK
  <2> QED
    BY <1>1, <2>1, <2>2, <2>3 DEF ProcessOK
<1>16. ASSUME ReadLength(p) PROVE ProcessOK(p)'
  <2>1. PICK len \in Runs(p).reads : todo'[p] = Length(p, len)
    BY <1>16 DEF ReadLength, Entries
  <2>2. /\ pc[p] = "length" /\ pc'[p] = "read"
        /\ UNCHANGED <<prog, offset, buf, result>>
    BY <1>16 DEF ReadLength, Entries, user
  <2>3. /\ len \in Nat /\ prog[p] # "ioctl" /\ prog[p] # "none"
        /\ driver = "chardev" => len \in 0..(BUFF - 1)
    BY <1>1, <2>1, <2>2, Programs DEF Runs, ProcessOK
  <2>4. buf[p] = <<>> /\ Len(buf[p]) = 0
    BY <2>2 DEF ProcessOK
  <2>5. driver = "chardev" => todo'[p] \in 0..(BUFF - 1)
    BY <1>1, <2>1, <2>3, LengthBounds DEF ProcessOK
  <2>6. driver = "chrdevdr" => todo'[p] = BUFF
    BY <2>1 DEF Length
  <2> QED
    BY <1>1, <2>2, <2>3, <2>4, <2>5, <2>6 DEF ProcessOK
<1>6. ASSUME ReadAtEnd(p) \/ WriteTooLong(p) PROVE ProcessOK(p)'
  <2>1. /\ pc[p] = "open" /\ pc'[p] = "returned" /\ buf'[p] = <<>> /\ todo'[p] = 0
        /\ result'[p] \in {0, -12, -22} /\ UNCHANGED <<prog, offset>>
    BY <1>1, <1>6 DEF ReadAtEnd, WriteTooLong, TooLong, Return, Entries, user
  <2> QED
    BY <1>1, <2>1 DEF ProcessOK
<1>7. ASSUME IoctlCall(p) PROVE ProcessOK(p)'
  <2>1. /\ pc[p] = "open" /\ Runs(p).asks
        /\ pc'[p] = "ioctl" /\ buf'[p] = <<size>> /\ todo'[p] = BUFF
        /\ UNCHANGED <<prog, offset, result>>
    BY <1>7 DEF IoctlCall, Enter, Entries, user
  <2>2. prog[p] = "ioctl" /\ driver = "chardev"
    BY <1>1, <2>1, Programs DEF Runs, ProcessOK
  <2>3. <<size>> \in Seq(Byte \cup Int) /\ Len(<<size>>) = 1 /\ <<size>>[1] = size
    BY <1>1
  <2> QED
    BY <1>1, <2>1, <2>2, <2>3 DEF ProcessOK
<1>8. ASSUME WriteCall(p) PROVE ProcessOK(p)'
  <2>1. PICK s \in Runs(p).writes :
          /\ Len(s) <= Capacity
          /\ pc'[p] = "write" /\ buf'[p] = s /\ todo'[p] = Len(s)
    BY <1>8 DEF WriteCall, Enter, Entries
  <2>2. pc[p] = "open" /\ UNCHANGED <<prog, offset, result>>
    BY <1>8 DEF WriteCall, Enter, user
  <2>3. /\ prog[p] # "ioctl" /\ prog[p] # "none"
        /\ s \in Seq(Byte)
        /\ driver = "chrdevdr" => Len(s) \in 1..BUFF /\ s[Len(s)] = Nul
    BY <1>1, <2>1, <2>2, Programs DEF Runs, ProcessOK
  <2>4. s \in Seq(Byte \cup Int) /\ Len(s) \in 0..BUFF
    BY <1>1, <2>1, <2>3
  <2> QED
    BY <1>1, <2>1, <2>2, <2>3, <2>4 DEF ProcessOK
<1>9. ASSUME CopyToUser(p) PROVE ProcessOK(p)'
  <2> DEFINE i == IF pc[p] = "read" THEN offset[p] + Len(buf[p]) + 1 ELSE Len(buf[p])
  <2>1. /\ pc[p] \in {"read", "ioctl"} /\ todo[p] > 0
        /\ \E byte \in At(i) : buf'[p] = Append(buf[p], byte)
        /\ todo'[p] = todo[p] - 1
        /\ UNCHANGED <<pc, prog, offset, result>>
    BY <1>9 DEF CopyToUser, Entries, user
  <2>2. Len(buf[p]) \in Nat /\ todo[p] \in 1..BUFF
    BY <2>1 DEF ProcessOK
  <2>3. PICK c \in Byte : buf'[p] = Append(buf[p], c)
    BY <1>1, <2>1 DEF At, Byte
  <2> HIDE DEF i
  <2>4. /\ buf'[p] \in Seq(Byte \cup Int) /\ buf'[p] # <<>>
        /\ Len(buf'[p]) = Len(buf[p]) + 1
        /\ buf[p] # <<>> => buf'[p][1] = buf[p][1]
        /\ buf[p] \in Seq(Byte) => buf'[p] \in Seq(Byte)
    <3>1. buf[p] \in Seq(Byte \cup Int) /\ c \in Byte \cup Int
      BY <2>3 DEF ProcessOK
    <3>2. /\ buf'[p] \in Seq(Byte \cup Int) /\ buf'[p] # <<>>
          /\ Len(buf'[p]) = Len(buf[p]) + 1
          /\ buf[p] # <<>> => buf'[p][1] = buf[p][1]
      BY <2>3, <3>1, OneMore
    <3>3. buf[p] \in Seq(Byte) => buf'[p] \in Seq(Byte)
      BY <2>3, OneMore
    <3> QED
      BY <3>2, <3>3
  <2>5. /\ todo'[p] \in 0..BUFF /\ Len(buf'[p]) \in Nat
        /\ Len(buf'[p]) + todo'[p] = Len(buf[p]) + todo[p]
    <3>1. todo'[p] = todo[p] - 1 /\ Len(buf'[p]) = Len(buf[p]) + 1
      BY <2>1, <2>4
    <3>2. todo[p] \in 1..BUFF /\ Len(buf[p]) \in Nat
      BY <2>2
    <3>3. todo'[p] \in 0..BUFF
      BY <3>1, <3>2
    <3>4. Len(buf'[p]) \in Nat
      BY <3>1, <3>2
    <3>5. Len(buf'[p]) + todo'[p] = Len(buf[p]) + todo[p]
      BY <3>1, <3>2
    <3> QED
      BY <3>3, <3>4, <3>5
  <2>6. CASE pc[p] = "read"
    <3>1. /\ prog[p] # "ioctl" /\ buf[p] \in Seq(Byte)
          /\ IF driver = "chardev" THEN Len(buf[p]) + todo[p] <= BUFF - 1
             ELSE Len(buf[p]) + todo[p] = BUFF
      BY <2>6 DEF ProcessOK
    <3>2. /\ IF driver = "chardev" THEN Len(buf'[p]) + todo'[p] <= BUFF - 1
             ELSE Len(buf'[p]) + todo'[p] = BUFF
          /\ Len(buf'[p]) <= BUFF
      BY <1>1, <2>5, <3>1
    <3> QED
      BY <1>1, <2>1, <2>4, <2>5, <2>6, <3>1, <3>2 DEF ProcessOK
  <2>7. CASE pc[p] = "ioctl"
    <3>1. prog[p] = "ioctl" /\ buf'[p][1] \in 0..(BUFF - 1)
      BY <2>4, <2>7 DEF ProcessOK
    <3> QED
      BY <1>1, <2>1, <2>2, <2>4, <2>5, <2>7, <3>1 DEF ProcessOK
  <2> QED
    BY <2>1, <2>6, <2>7
<1>10. ASSUME CopyToUserFault(p) PROVE ProcessOK(p)'
  <2>1. /\ pc[p] \in {"read", "ioctl"} /\ pc'[p] = "returned"
        /\ buf'[p] = <<>> /\ todo'[p] = 0 /\ result'[p] = -14
        /\ UNCHANGED <<prog, offset>>
    BY <1>10 DEF CopyToUserFault, Return, EFAULT, Entries, user
  <2> QED
    BY <1>1, <2>1 DEF ProcessOK
<1>11. ASSUME ReadReturn(p) PROVE ProcessOK(p)'
  <2>1. /\ pc[p] = "read" /\ todo[p] = 0 /\ pc'[p] = "returned"
        /\ buf'[p] = buf[p] /\ todo'[p] = 0 /\ result'[p] = Len(buf[p])
        /\ offset'[p] = offset[p] + Len(buf[p]) /\ prog' = prog
    BY <1>11 DEF ReadReturn, Return, Entries, user
  <2>2. Len(buf[p]) \in 0..BUFF /\ prog[p] # "ioctl" /\ buf[p] \in Seq(Byte)
    BY <2>1 DEF ProcessOK
  <2>3. /\ offset'[p] \in 0..(2 * BUFF)
        /\ driver = "chrdevdr" => offset'[p] = BUFF
    BY <1>1, <2>1, <2>2 DEF ProcessOK
  <2> QED
    BY <1>1, <2>1, <2>2, <2>3 DEF ProcessOK
<1>12. ASSUME IoctlReturn(p) PROVE ProcessOK(p)'
  <2>1. /\ pc[p] = "ioctl" /\ pc'[p] = "returned"
        /\ buf'[p] = Append(buf[p], r_w) /\ todo'[p] = 0 /\ result'[p] = 0
        /\ UNCHANGED <<prog, offset>>
    BY <1>12 DEF IoctlReturn, Return, Entries, user
  <2>2. /\ buf'[p] \in Seq(Byte \cup Int) /\ buf'[p] # <<>>
        /\ buf'[p][1] = buf[p][1] /\ buf[p] # <<>>
    <3>1. buf[p] \in Seq(Byte \cup Int) /\ r_w \in Byte \cup Int /\ buf[p] # <<>>
      BY <2>1 DEF ProcessOK, Kernel
    <3> QED
      BY <2>1, <3>1, OneMore
  <2> QED
    BY <1>1, <2>1, <2>2 DEF ProcessOK
<1>13. ASSUME CopyFromUser(p) \/ CopyFromUserFault(p) PROVE ProcessOK(p)'
  <2>1. /\ pc[p] \in {"write", "zero"} /\ todo[p] > 0
        /\ pc'[p] \in {pc[p], "zero"} /\ todo'[p] \in {todo[p], todo[p] - 1}
        /\ UNCHANGED <<prog, offset, buf, result>>
    BY <1>13 DEF CopyFromUser, CopyFromUserFault, Entries, user
  <2> QED
    BY <1>1, <2>1 DEF ProcessOK
<1>14. ASSUME WriteFault(p) \/ WriteReturn(p) PROVE ProcessOK(p)'
  <2>1. /\ pc[p] \in {"zero", "r_w", "write"} /\ pc'[p] = "returned"
        /\ buf'[p] = <<>> /\ todo'[p] = 0 /\ result'[p] \in {-14, Len(buf[p])}
        /\ UNCHANGED <<prog, offset>>
    BY <1>14 DEF WriteFault, WriteReturn, Return, EFAULT, Entries, user
  <2>2. Len(buf[p]) \in 0..BUFF /\ prog[p] # "ioctl"
    BY <1>1, <2>1 DEF ProcessOK
  <2> QED
    BY <1>1, <2>1, <2>2 DEF ProcessOK
<1>15. ASSUME Terminate(p) \/ SetSize(p) PROVE ProcessOK(p)'
  <2>1. /\ pc[p] \in {"write", "size"} /\ pc'[p] \in {"size", "r_w"}
        /\ pc[p] = "write" => driver = "chardev"
        /\ UNCHANGED <<prog, offset, buf, todo, result>>
    BY <1>15 DEF Terminate, SetSize, Entries, user
  <2> QED
    BY <1>1, <2>1 DEF ProcessOK
<1> QED
  BY <1>2, <1>3, <1>4, <1>5, <1>6, <1>7, <1>8, <1>9, <1>10, <1>11, <1>12, <1>13,
     <1>14, <1>15, <1>16 DEF Call, Handler

-----------------------------------------------------------------------------
(* A byte that is copied into the memory lies in front of the last one in  *)
(* chardev.                                                                *)
LEMMA CopyIndex ==
  ASSUME Kernel, NEW p \in Procs, ProcessOK(p), pc[p] \in {"write", "zero"}, todo[p] > 0
  PROVE  LET i == Len(buf[p]) - todo[p] + 1 IN
         /\ i \in 1..BUFF /\ i <= Capacity
         /\ i \in 1..Len(buf[p]) /\ buf[p][i] \in Byte
<1>1. /\ buf[p] \in Seq(Byte) /\ todo[p] \in 1..Len(buf[p]) /\ Len(buf[p]) <= Capacity
  <2>1. buf[p] \in Seq(Byte) /\ todo[p] \in 0..BUFF /\ todo[p] <= Len(buf[p])
        /\ Len(buf[p]) <= Capacity
    BY DEF ProcessOK
  <2>2. Len(buf[p]) \in Nat
    BY <2>1
  <2> QED
    BY BuffAssumption, <2>1, <2>2
<1>2. Len(buf[p]) \in Nat /\ Capacity \in 1..BUFF
  BY <1>1, BuffAssumption DEF Capacity
<1> DEFINE i == Len(buf[p]) - todo[p] + 1
<1>3. i \in 1..BUFF /\ i <= Capacity /\ i \in 1..Len(buf[p])
  BY <1>1, <1>2, BuffAssumption
<1> QED
  BY <1>1, <1>3

(* What one step does to the memory and to the rest of kernel_stats. *)
LEMMA KernelStep ==
  ASSUME Kernel, Entries, NEW p \in Procs, ProcessOK(p),
         Open(p) \/ Exit(p) \/ Call(p) \/ Handler(p) \/ UseResult(p)
  PROVE  Kernel'
<1> USE BuffAssumption DEF Kernel
<1>1. driver' = driver
  BY MovesStep DEF Moves
<1>2. ASSUME CopyFromUser(p) PROVE Kernel'
  <2> DEFINE i == Len(buf[p]) - todo[p] + 1
  <2>1. /\ pc[p] \in {"write", "zero"} /\ todo[p] > 0 /\ UNCHANGED <<size, r_w>>
        /\ buffer' = [buffer EXCEPT ![i] = IF pc[p] = "zero" THEN Nul ELSE buf[p][i]]
    BY <1>2 DEF CopyFromUser
  <2>2. i \in 1..BUFF /\ buf[p][i] \in Byte
    BY <2>1, CopyIndex
  <2> HIDE DEF i
  <2>3. Nul \in Byte
    BY DEF Byte
  <2> QED
    BY <1>1, <2>1, <2>2, <2>3
<1>3. ASSUME Terminate(p) PROVE Kernel'
  <2>1. buffer' = [buffer EXCEPT ![Len(buf[p]) + 1] = Nul] /\ UNCHANGED <<size, r_w>>
    BY <1>3 DEF Terminate
  <2>2. Nul \in Byte
    BY DEF Byte
  <2> QED
    BY <1>1, <2>1, <2>2
<1>4. ASSUME SetSize(p) PROVE Kernel'
  <2>1. pc[p] = "size" /\ size' = Len(buf[p]) /\ UNCHANGED <<buffer, r_w>>
    BY <1>4 DEF SetSize
  <2>2. buf[p] \in Seq(Byte) /\ Len(buf[p]) <= BUFF - 1
    BY <2>1 DEF ProcessOK, Capacity
  <2>3. Len(buf[p]) \in 0..(BUFF - 1)
    BY <2>2
  <2> QED
    BY <1>1, <2>1, <2>3
<1>5. ASSUME ReadReturn(p) \/ WriteReturn(p) PROVE Kernel'
  BY <1>1, <1>5 DEF ReadReturn, WriteReturn
<1>6. ASSUME \/ Open(p) \/ Exit(p) \/ UseResult(p) \/ Call(p)
             \/ ReadLength(p) \/ CopyToUser(p) \/ CopyToUserFault(p) \/ IoctlReturn(p)
             \/ CopyFromUserFault(p) \/ WriteFault(p)
      PROVE  Kernel'
  <2>1. UNCHANGED kernel
    BY <1>6 DEF Open, Exit, UseResult, Call, ReadCall, ReadAtEnd, IoctlCall, WriteCall,
                WriteTooLong, ReadLength, CopyToUser, CopyToUserFault, IoctlReturn,
                CopyFromUserFault, WriteFault
  <2> QED
    BY <1>1, <2>1 DEF kernel
<1> QED
  BY <1>2, <1>3, <1>4, <1>5, <1>6 DEF Handler

-----------------------------------------------------------------------------
(* Only calls in progress are disturbed. *)
LEMMA HistoryStep ==
  ASSUME History, Entries, NEW p \in Procs,
         Open(p) \/ Exit(p) \/ Call(p) \/ Handler(p) \/ UseResult(p)
  PROVE  History'
<1>1. \A q \in Procs \ {p} : pc'[q] = pc[q]
  BY MovesStep DEF Moves
<1>2. Calling \ {p} \subseteq Calling'
  BY <1>1 DEF Calling, Writing
<1>3. \/ disturbed' = disturbed /\ (p \in Calling => p \in Calling')
      \/ disturbed' \subseteq Calling \cup {p} /\ p \in Calling'
      \/ disturbed' = disturbed \ {p}
  <2>1. ASSUME Open(p) \/ Exit(p) \/ UseResult(p) \/ ReadAtEnd(p) \/ WriteTooLong(p)
        PROVE  disturbed' = disturbed /\ p \notin Calling
    BY <2>1 DEF Open, Exit, UseResult, ReadAtEnd, WriteTooLong, history, Calling, Writing
  <2>2. ASSUME ReadCall(p) \/ IoctlCall(p) \/ WriteCall(p)
        PROVE  disturbed' \subseteq Calling \cup {p} /\ p \in Calling'
    <3>1. disturbed' \subseteq Calling \cup {p}
      BY <2>2 DEF ReadCall, IoctlCall, WriteCall, History
    <3>2. pc'[p] \in {"length", "ioctl", "write"}
      BY <2>2 DEF ReadCall, IoctlCall, WriteCall, Enter, Entries
    <3> QED
      BY <3>1, <3>2 DEF Calling, Writing
  <2>3. ASSUME \/ ReadLength(p) \/ CopyToUser(p)
               \/ CopyFromUser(p) \/ CopyFromUserFault(p) \/ Terminate(p) \/ SetSize(p)
        PROVE  disturbed' = disturbed /\ p \in Calling'
    <3>1. disturbed' = disturbed
      BY <2>3 DEF ReadLength, CopyToUser, CopyFromUser, CopyFromUserFault, Terminate, SetSize, history
    <3>2. pc'[p] \in {"read", "ioctl", "write", "zero", "size", "r_w"}
      BY <2>3 DEF ReadLength, CopyToUser, CopyFromUser, CopyFromUserFault, Terminate, SetSize, Entries
    <3> QED
      BY <3>1, <3>2 DEF Calling, Writing
  <2>4. ASSUME \/ CopyToUserFault(p) \/ ReadReturn(p) \/ IoctlReturn(p)
               \/ WriteFault(p) \/ WriteReturn(p)
        PROVE  disturbed' = disturbed \ {p}
    BY <2>4 DEF CopyToUserFault, ReadReturn, IoctlReturn, WriteFault, WriteReturn
  <2> QED
    BY <2>1, <2>2, <2>3, <2>4 DEF Call, Handler
<1>4. disturbed' \subseteq Calling'
  BY <1>2, <1>3 DEF History
<1>5. garbled' \in BOOLEAN
  <2>1. \/ garbled' = garbled
        \/ garbled' = TRUE
        \/ garbled' = (p \in disturbed)
    BY DEF Open, Exit, UseResult, Call, ReadCall, ReadAtEnd, IoctlCall, WriteCall,
           WriteTooLong, Handler, ReadLength, CopyToUser, CopyToUserFault, ReadReturn, IoctlReturn,
           CopyFromUser, CopyFromUserFault, WriteFault, Terminate, SetSize, WriteReturn,
           history
  <2>2. garbled \in BOOLEAN /\ (p \in disturbed) \in BOOLEAN
    BY DEF History
  <2> QED
    BY <2>1, <2>2
<1> QED
  BY <1>4, <1>5 DEF History

-----------------------------------------------------------------------------
(* The Nul that is in the memory, or coming, is there after the step. *)
LEMMA NulStep ==
  ASSUME Kernel, Entries, NulComing, NEW p \in Procs, ProcessOK(p),
         Open(p) \/ Exit(p) \/ Call(p) \/ Handler(p) \/ UseResult(p)
  PROVE  NulComing'
<1> USE BuffAssumption DEF chardev
<1>1. /\ driver \in {"chardev", "chrdevdr"} /\ driver' = driver
      /\ buffer \in [1..BUFF -> Byte] /\ buffer' \in [1..BUFF -> Byte]
      /\ \A q \in Procs \ {p} : pc'[q] = pc[q] /\ todo'[q] = todo[q]
  BY MovesStep, KernelStep DEF Moves, Kernel
<1>2. ASSUME CopyFromUser(p) PROVE NulComing'
  <2> DEFINE i == Len(buf[p]) - todo[p] + 1
  <2>1. /\ pc[p] \in {"write", "zero"} /\ todo[p] > 0
        /\ buffer' = [buffer EXCEPT ![i] = IF pc[p] = "zero" THEN Nul ELSE buf[p][i]]
        /\ pc' = pc /\ todo'[p] = todo[p] - 1
    BY <1>2 DEF CopyFromUser, Entries
  <2>2. i \in 1..BUFF /\ i <= Capacity /\ i \in 1..Len(buf[p])
    BY <2>1, CopyIndex
  <2>3. CASE driver = "chardev"
    <3>1. i # BUFF
      BY <2>2, <2>3 DEF Capacity
    <3> HIDE DEF i
    <3> QED
      BY <1>1, <2>1, <2>3, <3>1 DEF NulComing
  <2>4. CASE driver = "chrdevdr" /\ (pc[p] = "zero" \/ todo[p] = 1)
    <3>1. buffer'[i] = Nul
      <4>1. pc[p] # "zero" => i = Len(buf[p]) /\ buf[p][Len(buf[p])] = Nul
        BY <2>1, <2>2, <2>4 DEF ProcessOK
      <4>2. buffer'[i] = IF pc[p] = "zero" THEN Nul ELSE buf[p][i]
        BY <1>1, <2>1, <2>2
      <4> QED
        BY <4>1, <4>2
    <3> HIDE DEF i
    <3> QED
      BY <1>1, <2>2, <2>4, <3>1 DEF NulComing
  <2>5. CASE driver = "chrdevdr" /\ pc[p] = "write" /\ todo[p] # 1
    <3>1. todo'[p] > 0
      <4>1. todo[p] \in Nat
        BY DEF ProcessOK
      <4> QED
        BY <2>1, <2>5, <4>1
    <3> QED
      BY <1>1, <2>1, <2>5, <3>1 DEF NulComing
  <2> QED
    BY <1>1, <2>1, <2>3, <2>4, <2>5
<1>3. ASSUME Terminate(p) PROVE NulComing'
  <2>1. driver = "chardev" /\ buffer' = [buffer EXCEPT ![Len(buf[p]) + 1] = Nul]
    BY <1>3 DEF Terminate
  <2> QED
    BY <1>1, <2>1 DEF NulComing
<1>4. ASSUME \/ Open(p) \/ Exit(p) \/ UseResult(p) \/ Call(p)
             \/ ReadLength(p) \/ CopyToUser(p) \/ CopyToUserFault(p) \/ ReadReturn(p) \/ IoctlReturn(p)
             \/ CopyFromUserFault(p) \/ WriteFault(p) \/ SetSize(p) \/ WriteReturn(p)
      PROVE  NulComing'
  <2>1. buffer' = buffer
    BY <1>4 DEF Open, Exit, UseResult, Call, ReadCall, ReadAtEnd, IoctlCall, WriteCall,
                WriteTooLong, ReadLength, CopyToUser, CopyToUserFault, ReadReturn, IoctlReturn,
                CopyFromUserFault, WriteFault, SetSize, WriteReturn, kernel
  <2>2. pc[p] \in {"write", "zero"} /\ todo[p] > 0
          => pc'[p] \in {"write", "zero"} /\ todo'[p] > 0
    <3>1. CASE CopyFromUserFault(p)
      BY <3>1 DEF CopyFromUserFault, Entries
    <3>2. CASE ~CopyFromUserFault(p)
      <4>1. ~(pc[p] \in {"write", "zero"} /\ todo[p] > 0)
        <5>1. todo[p] \in Nat
          BY DEF ProcessOK
        <5> QED
          BY <1>4, <3>2, <5>1 DEF Open, Exit, UseResult, Call, ReadCall, ReadAtEnd,
             IoctlCall, WriteCall, WriteTooLong, ReadLength, CopyToUser,
             CopyToUserFault, ReadReturn, IoctlReturn, WriteFault, SetSize,
             WriteReturn
      <4> QED
        BY <4>1
    <3> QED
      BY <3>1, <3>2
  <2> QED
    BY <1>1, <2>1, <2>2 DEF NulComing
<1> QED
  BY <1>2, <1>3, <1>4 DEF Handler

-----------------------------------------------------------------------------
(* No write comes between the two loads of a read that none overlaps.      *)
LEMMA TestedStep ==
  ASSUME Kernel, Entries, \A q \in Procs : ProcessOK(q), Tested, NEW p \in Procs,
         Open(p) \/ Exit(p) \/ Call(p) \/ Handler(p) \/ UseResult(p)
  PROVE  Tested'
<1> USE BuffAssumption DEF chardev
<1> SUFFICES ASSUME NEW q \in Procs, driver = "chardev", q \notin disturbed'
             PROVE  /\ pc'[q] = "length" => Writing' = {} /\ offset'[q] < size'
                    /\ pc'[q] = "read" => offset'[q] + Len(buf'[q]) + todo'[q] <= BUFF - 1
  <2>1. driver' = driver
    BY MovesStep DEF Moves
  <2> QED
    BY <2>1 DEF Tested
<1>1. \A r \in Procs \ {p} :
        /\ pc'[r] = pc[r] /\ offset'[r] = offset[r] /\ buf'[r] = buf[r] /\ todo'[r] = todo[r]
  BY MovesStep DEF Moves
<1>2. /\ size \in 0..(BUFF - 1) /\ ProcessOK(q)
  BY DEF Kernel
<1>3. CASE q = p
  <2>1. CASE ReadCall(p)
    <3>1. /\ pc'[p] = "length" /\ offset'[p] = offset[p] /\ size' = size /\ offset[p] < size
          /\ disturbed' = IF Writing = {} THEN disturbed ELSE disturbed \cup {p}
      BY <2>1 DEF ReadCall, Enter, End, Entries, kernel
    <3>2. Writing = {} => Writing' = {}
      BY <1>1, <3>1 DEF Writing
    <3> QED
      BY <1>3, <3>1, <3>2
  <2>2. CASE ReadLength(p)
    <3>1. PICK len \in Runs(p).reads : todo'[p] = Length(p, len)
      BY <2>2 DEF ReadLength, Entries
    <3>2. /\ pc[p] = "length" /\ pc'[p] = "read" /\ q \notin disturbed
          /\ UNCHANGED <<offset, buf>>
      BY <1>3, <2>2 DEF ReadLength, Entries, history
    <3>3. /\ offset[p] < size /\ offset[p] \in Nat /\ size \in Nat
          /\ buf[p] = <<>> /\ Len(buf[p]) = 0
      BY <1>2, <1>3, <3>2 DEF Tested, ProcessOK
    <3>4. len \in 0..(BUFF - 1)
      BY <1>2, <1>3, <3>1, <3>2, Programs DEF Runs, ProcessOK
    <3>5. todo'[p] \in Nat /\ offset[p] + todo'[p] <= size
      BY <3>1, <3>3, <3>4, LengthBounds
    <3> QED
      BY <1>2, <1>3, <3>2, <3>3, <3>5
  <2>3. CASE CopyToUser(p)
    <3>1. PICK byte : /\ buf'[p] = Append(buf[p], byte) /\ todo'[p] = todo[p] - 1
                      /\ UNCHANGED <<pc, offset, disturbed>> /\ pc[p] \in {"read", "ioctl"}
      BY <2>3 DEF CopyToUser, Entries, history
    <3>2. buf[p] \in Seq(Byte \cup Int) /\ todo[p] \in Int /\ offset[p] \in Int
      BY <1>2, <1>3 DEF ProcessOK
    <3>3. Len(buf'[p]) = Len(buf[p]) + 1 /\ Len(buf[p]) \in Int
      BY <3>1, <3>2
    <3>4. offset'[p] + Len(buf'[p]) + todo'[p] = offset[p] + Len(buf[p]) + todo[p]
      <4>1. offset'[p] = offset[p] /\ todo'[p] = todo[p] - 1
        BY <3>1
      <4>2. \A i, j, k \in Int : i + (j + 1) + (k - 1) = i + j + k
        OBVIOUS
      <4>3. todo[p] \in Int /\ offset[p] \in Int
        BY <3>2
      <4>4. offset[p] + (Len(buf[p]) + 1) + (todo[p] - 1) = offset[p] + Len(buf[p]) + todo[p]
        BY <3>3, <4>2, <4>3
      <4> QED
        BY <3>3, <4>1, <4>4
    <3> QED
      BY <1>3, <3>1, <3>4 DEF Tested
  <2>4. CASE ~ReadCall(p) /\ ~ReadLength(p) /\ ~CopyToUser(p)
    <3>1. pc'[p] \in {"closed", "open", "returned", "ioctl", "write", "zero", "size", "r_w"}
      BY <2>4 DEF Open, Exit, Close, UseResult, Call, Enter, Return, ReadAtEnd, IoctlCall,
         WriteCall, WriteTooLong, Handler, CopyToUserFault, ReadReturn, IoctlReturn,
         CopyFromUser, CopyFromUserFault, WriteFault, Terminate, SetSize, WriteReturn,
         Entries
    <3> QED
      BY <1>3, <3>1
  <2> QED
    BY <2>1, <2>2, <2>3, <2>4
<1>4. CASE q # p
  <2>1. q \notin disturbed
    BY <1>4 DEF Open, Exit, UseResult, Call, ReadCall, ReadAtEnd, IoctlCall, WriteCall,
       WriteTooLong, Handler, ReadLength, CopyToUser, CopyToUserFault, ReadReturn,
       IoctlReturn, CopyFromUser, CopyFromUserFault, WriteFault, Terminate, SetSize,
       WriteReturn, history
  <2>2. ASSUME pc[q] = "length" PROVE Writing' = {} /\ size' = size
    <3>1. Writing = {}
      BY <2>1, <2>2 DEF Tested
    <3>2. ~WriteCall(p)
      BY <2>2 DEF WriteCall, Calling
    <3>3. pc[p] \notin {"write", "zero", "size", "r_w"}
      BY <3>1 DEF Writing
    <3>4. /\ pc'[p] \in {"closed", "open", "length", "read", "ioctl", "returned"}
          /\ size' = size
      BY <3>2, <3>3 DEF Open, Exit, Close, UseResult, Call, Enter, Return, ReadCall,
         ReadAtEnd, IoctlCall, WriteTooLong, Handler, ReadLength, CopyToUser,
         CopyToUserFault, ReadReturn, IoctlReturn, CopyFromUser, CopyFromUserFault,
         WriteFault, Terminate, SetSize, WriteReturn, Entries, kernel
    <3> QED
      BY <1>1, <3>1, <3>4 DEF Writing
  <2> QED
    BY <1>1, <1>4, <2>1, <2>2 DEF Tested
<1> QED
  BY <1>3, <1>4

-----------------------------------------------------------------------------
(* All of the strengthened invariant is inductive. *)
LEMMA InvInit == Init => IInv
<1> SUFFICES ASSUME Init PROVE IInv
  OBVIOUS
<1> USE BuffAssumption
<1>1. driver \in {"chardev", "chrdevdr"} /\ Nul \in Byte /\ Bytes \subseteq Byte
  BY DEF Init, Byte
<1>2. ASSUME driver = "chardev" PROVE buffer \in [1..BUFF -> Byte] /\ NulComing
  <2>1. buffer = [i \in 1..BUFF |-> Nul]
    BY <1>2 DEF Init
  <2>2. BUFF \in 1..BUFF
    OBVIOUS
  <2> QED
    BY <1>1, <1>2, <2>1, <2>2 DEF NulComing, chardev
<1>3. ASSUME driver = "chrdevdr" PROVE buffer \in [1..BUFF -> Byte] /\ NulComing
  <2>1. PICK hello \in Bytes, rest \in [3..BUFF -> Bytes \cup {Nul}] :
          buffer = [i \in 1..BUFF |->
                      CASE i = 1 -> hello [] i = 2 -> Nul [] OTHER -> rest[i]]
    BY <1>3 DEF Init
  <2>2. ASSUME NEW i \in 1..BUFF PROVE buffer[i] \in Byte
    BY <2>1 DEF Byte
  <2>3. 2 \in 1..BUFF /\ buffer[2] = Nul
    BY <2>1
  <2>4. buffer \in [1..BUFF -> Byte]
    BY <2>1, <2>2
  <2> QED
    BY <1>3, <2>3, <2>4 DEF NulComing, chardev
<1>4. Kernel
  <2>1. size = 0 /\ r_w = -1
    BY DEF Init
  <2>2. 0 \in 0..(BUFF - 1) /\ -1 \in {-1, 0, 1}
    OBVIOUS
  <2> QED
    BY <1>1, <1>2, <1>3, <2>1, <2>2 DEF Kernel
<1>5. History /\ Entries
  BY DEF Init, History, Entries
<1>6. ASSUME NEW p \in Procs PROVE ProcessOK(p)
  <2>1. /\ pc[p] = "closed" /\ prog[p] = "none" /\ offset[p] = 0 /\ buf[p] = <<>>
        /\ todo[p] = 0 /\ result[p] = 0
    BY DEF Init
  <2> QED
    BY <2>1 DEF ProcessOK, Labels, Results
<1>7. Tested
  BY DEF Init, Tested
<1> QED
  BY <1>1, <1>2, <1>3, <1>4, <1>5, <1>6, <1>7 DEF IInv

(* Every step of every program, whatever the other processes are at. *)
LEMMA InvNext == IInv /\ [Next]_vars => IInv'
<1> SUFFICES ASSUME IInv, [Next]_vars PROVE IInv'
  OBVIOUS
<1>1. CASE Next
  <2>1. PICK p \in Procs : Open(p) \/ Exit(p) \/ Call(p) \/ Handler(p) \/ UseResult(p)
    BY <1>1 DEF Next
  <2>2. /\ Kernel /\ History /\ Entries /\ NulComing /\ Tested
        /\ \A q \in Procs : ProcessOK(q)
    BY DEF IInv
  <2>3. Kernel' /\ History' /\ NulComing' /\ Tested'
    BY <2>1, <2>2, KernelStep, HistoryStep, NulStep, TestedStep
  <2>4. Moves(p) /\ ProcessOK(p)'
    BY <2>1, <2>2, MovesStep, ProcessStep
  <2>5. \A q \in Procs : ProcessOK(q)'
    BY <2>2, <2>4, OthersStay
  <2>6. Entries'
    BY <2>4 DEF Moves
  <2> QED
    BY <2>3, <2>5, <2>6 DEF IInv
<1>2. CASE UNCHANGED vars
  BY <1>2 DEF vars, IInv, Kernel, History, Calling, Writing, Entries, NulComing, Tested,
              chardev, ProcessOK, Capacity
<1> QED
  BY <1>1, <1>2

(* The strengthened invariant holds in every state. *)
THEOREM Invariance == Spec => []IInv
  BY InvInit, InvNext, PTL DEF Spec

-----------------------------------------------------------------------------
(* The values that the variables take. *)
THEOREM TypeCorrect == Spec => []TypeOK
<1>1. ASSUME IInv PROVE TypeOK
  <2>1. \A p \in Procs : ProcessOK(p)
    BY <1>1 DEF IInv
  <2>2. /\ pc \in [Procs -> Labels] /\ prog \in [Procs -> DOMAIN Program[driver] \cup {"none"}]
        /\ offset \in [Procs -> 0..(2 * BUFF)] /\ todo \in [Procs -> 0..BUFF]
        /\ result \in [Procs -> Results]
    BY <1>1, <2>1 DEF IInv, Entries, ProcessOK
  <2>3. \A p \in Procs : IF prog[p] = "ioctl" /\ buf[p] # <<>>
                         THEN buf[p][1] \in 0..(BUFF - 1)
                         ELSE buf[p] \in Seq(Byte) /\ Len(buf[p]) <= BUFF
    BY <2>1 DEF ProcessOK
  <2> QED
    BY <1>1, <2>2, <2>3 DEF IInv, Kernel, History, TypeOK, Byte, Labels, Results
<1> QED
  BY <1>1, Invariance, PTL

(* A read of chardev copies no byte from behind the memory's last but one  *)
(* if it starts at the beginning of its file, whatever writes store        *)
(* between its two loads of size (lines 37 and 40) and during its copy, or *)
(* if no write overlaps it, though the string may have become shorter than *)
(* its position before.                                                    *)
THEOREM CopyStaysInside == Spec => []CopyInside
<1>1. ASSUME IInv PROVE CopyInside
  <2> SUFFICES ASSUME NEW p \in Procs, chardev, pc[p] = "read",
                      offset[p] = 0 \/ p \notin disturbed
               PROVE  offset[p] + Len(buf[p]) + todo[p] <= BUFF - 1
    BY DEF CopyInside
  <2>1. ProcessOK(p) /\ Tested
    BY <1>1 DEF IInv
  <2>2. /\ Len(buf[p]) + todo[p] <= BUFF - 1
        /\ Len(buf[p]) \in Nat /\ todo[p] \in Nat
    BY <2>1 DEF ProcessOK
  <2> QED
    BY <2>1, <2>2 DEF Tested
<1> QED
  BY <1>1, Invariance, PTL

(* The string in the memory ends, whatever writes ran into one another or  *)
(* faulted half way.                                                       *)
THEOREM StringTerminated == Spec => []Terminated
<1>1. IInv => Terminated
  BY DEF IInv, NulComing, Terminated, Writing
<1> QED
  BY <1>1, Invariance, PTL

=============================================================================
