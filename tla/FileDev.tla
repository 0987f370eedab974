------------------------------ MODULE FileDev ------------------------------
(***************************************************************************)
(* The two drivers that keep a string and take no lock, with the programs  *)
(* that come with them: previousyear1/chardev.c, whose reads follow the    *)
(* file's position and which answers GETSTATS, and chardevdriver's         *)
(* chrdevdr.c, which always hands out its whole memory.  A process starts  *)
(* any program of its driver again and again.  Copies between user and     *)
(* kernel space go byte by byte and may fault at any byte; copy_from_user  *)
(* then fills the rest of its destination with zeros.                      *)
(*                                                                         *)
(* device_read names size twice, in its test for the end of the file and   *)
(* in its subtraction, and both are plain loads: a write may fall between  *)
(* them (ReadCall and ReadLength).  The behaviours of a compiler that      *)
(* loads it once are those where none does.                                *)
(***************************************************************************)
EXTENDS Integers, Sequences, FiniteSetsExt

CONSTANTS
  Procs,
  Bytes,    (* the bytes of strings                              *)
  Nul,      (* the byte that ends a string                       *)
  Texts,    (* bound: the strings that the programs write        *)
  Unknown,  (* see SafeFile                                      *)
  BUFF      (* bound: the drivers' 256 and 1024 bytes of memory  *)

ASSUME BuffAssumption  == BUFF \in Nat \ {0, 1}
ASSUME BytesAssumption == Bytes # {} /\ Nul \notin Bytes
ASSUME TextsAssumption == Texts \subseteq Seq(Bytes)

EFAULT == -14
(* What either driver returns for a write that is too long. *)
TooLong == [chardev |-> -12, chrdevdr |-> -22]

-----------------------------------------------------------------------------
(* The programs: the lengths they read, the strings they write, whether    *)
(* they ask for statistics, and whether they go on after a call.           *)

Strings(n) == {s \in Texts : Len(s) <= n}

read_c  == [reads |-> {BUFF - 1}, writes |-> {}, asks |-> FALSE, goes_on |-> "no"]
write_c == [reads |-> {}, writes |-> Strings(BUFF - 1), asks |-> FALSE, goes_on |-> "no"]
ioctl_c == [reads |-> {}, writes |-> {}, asks |-> TRUE, goes_on |-> "no"]

(* Mutant: the terminator is not written. *)
usapp_unterminated ==
  [reads |-> {BUFF}, writes |-> Strings(BUFF - 1), asks |-> FALSE, goes_on |-> "always"]

(* usapp looks at no result.  *)
usapp ==
  [reads |-> {BUFF}, writes |-> {s \o <<Nul>> : s \in Strings(BUFF - 1)},
   asks |-> FALSE, goes_on |-> "always"]

(* Two programs from outside the repository: one reads to the end in       *)
(* pieces, the other writes more than write.c has room for.                *)
cat  == [reads |-> 1..(BUFF - 1), writes |-> {}, asks |-> FALSE, goes_on |-> "while_more"]
echo == [reads |-> {}, writes |-> Strings(BUFF) \ Strings(BUFF - 1), asks |-> FALSE,
         goes_on |-> "no"]

(* write.c opens "/dev/chardev+" (line 6), where nothing makes a node of   *)
(* the driver; it is taken to open the driver's, as the other two do.      *)
Program ==
  [chardev  |-> [read |-> read_c, write |-> write_c, ioctl |-> ioctl_c,
                 cat |-> cat, echo |-> echo],
   chrdevdr |-> [usapp |-> usapp]]

-----------------------------------------------------------------------------
VARIABLES
  driver,     (* chardev or chrdevdr                                          *)
  buffer,     (* kernel_stats.buff or kernel_buffer                           *)
  size, r_w,  (* the rest of kernel_stats                                     *)
  pc,
  prog,       (* the program each process runs                                *)
  offset,     (* the position of its file                                     *)
  buf,        (* what its call writes, or was given so far                    *)
  todo,       (* the bytes its call has still to copy                         *)
  result,     (* what its last call returned                                  *)
  disturbed,  (* history: the calls that a write overlaps                     *)
  garbled     (* history: the last write to end was disturbed, or failed      *)

kernel  == <<buffer, size, r_w>>
user    == <<driver, prog>>
history == <<disturbed, garbled>>
vars    == <<driver, buffer, size, r_w, pc, prog, offset, buf, todo, result,
             disturbed, garbled>>

chardev == driver = "chardev"

(* What is left of chrdevdr's fresh memory is not initialised.             *)
Init ==
  /\ \/ driver = "chardev" /\ buffer = [i \in 1..BUFF |-> Nul]
     \/ /\ driver = "chrdevdr"
        /\ \E hello \in Bytes, rest \in [3..BUFF -> Bytes \cup {Nul}] :
             buffer = [i \in 1..BUFF |->
                         CASE i = 1 -> hello [] i = 2 -> Nul [] OTHER -> rest[i]]
  /\ size = 0
  /\ r_w = -1
  /\ pc = [p \in Procs |-> "closed"]
  /\ prog = [p \in Procs |-> "none"]
  /\ offset = [p \in Procs |-> 0]
  /\ buf = [p \in Procs |-> <<>>]
  /\ todo = [p \in Procs |-> 0]
  /\ result = [p \in Procs |-> 0]
  /\ disturbed = {}
  /\ garbled = FALSE

Runs(p) == Program[driver][prog[p]]

Writing == {p \in Procs : pc[p] \in {"write", "zero", "size", "r_w"}}
Calling == {p \in Procs : pc[p] \in {"length", "read", "ioctl"}} \cup Writing

-----------------------------------------------------------------------------
(* open, what the program makes of a result, and close.                    *)

Open(p) ==
  /\ pc[p] = "closed"
  /\ pc' = [pc EXCEPT ![p] = "open"]
  /\ \E g \in DOMAIN Program[driver] : prog' = [prog EXCEPT ![p] = g]
  /\ UNCHANGED <<driver, kernel, offset, buf, todo, result, history>>

Close(p) ==
  /\ pc' = [pc EXCEPT ![p] = "closed"]
  /\ prog' = [prog EXCEPT ![p] = "none"]
  /\ offset' = [offset EXCEPT ![p] = 0]

(* usapp's third option. *)
Exit(p) ==
  /\ pc[p] = "open"
  /\ Runs(p).goes_on = "always"
  /\ Close(p)
  /\ UNCHANGED <<driver, kernel, buf, todo, result, history>>

GoesOn(p) ==
  \/ Runs(p).goes_on = "always"
  \/ Runs(p).goes_on = "while_more" /\ result[p] > 0

UseResult(p) ==
  /\ pc[p] = "returned"
  /\ \/ GoesOn(p) /\ pc' = [pc EXCEPT ![p] = "open"] /\ UNCHANGED <<prog, offset>>
     \/ ~GoesOn(p) /\ Close(p)
  /\ buf' = [buf EXCEPT ![p] = <<>>]
  /\ result' = [result EXCEPT ![p] = 0]
  /\ UNCHANGED <<driver, kernel, todo, history>>

Enter(p, call, bytes, n) ==
  /\ pc' = [pc EXCEPT ![p] = call]
  /\ buf' = [buf EXCEPT ![p] = bytes]
  /\ todo' = [todo EXCEPT ![p] = n]
  /\ UNCHANGED result

Return(p, given, r) ==
  /\ pc' = [pc EXCEPT ![p] = "returned"]
  /\ buf' = [buf EXCEPT ![p] = given]
  /\ todo' = [todo EXCEPT ![p] = 0]
  /\ result' = [result EXCEPT ![p] = r]

-----------------------------------------------------------------------------
(* device_read and char_read *)

End == IF chardev THEN size ELSE BUFF

(* Mutant: no test for the end of the file. *)
ReadCallNoEof(p) ==
  /\ pc[p] = "open"
  /\ Runs(p).reads # {}
  /\ chardev \/ offset[p] < End
  /\ Enter(p, "length", <<>>, 0)
  /\ disturbed' = IF Writing = {} THEN disturbed ELSE disturbed \cup {p}
  /\ UNCHANGED <<user, kernel, offset, garbled>>

(* The first load of size, for the test. *)
ReadCall(p) ==
  /\ pc[p] = "open"
  /\ Runs(p).reads # {}
  /\ offset[p] < End
  /\ Enter(p, "length", <<>>, 0)
  /\ disturbed' = IF Writing = {} THEN disturbed ELSE disturbed \cup {p}
  /\ UNCHANGED <<user, kernel, offset, garbled>>

(* The second, for the length.  A difference below 0 is a large size_t, so *)
(* that all of len is copied.  chrdevdr's length is a constant.            *)
Length(p, len) ==
  IF ~chardev THEN BUFF
  ELSE IF size < offset[p] THEN len ELSE Min({len, size - offset[p]})

ReadLength(p) ==
  /\ pc[p] = "length"
  /\ pc' = [pc EXCEPT ![p] = "read"]
  /\ \E len \in Runs(p).reads : todo' = [todo EXCEPT ![p] = Length(p, len)]
  /\ UNCHANGED <<user, kernel, offset, buf, result, history>>

ReadAtEnd(p) ==
  /\ pc[p] = "open"
  /\ Runs(p).reads # {}
  /\ offset[p] >= End
  /\ Return(p, <<>>, 0)
  /\ UNCHANGED <<user, kernel, offset, history>>

(* The byte at i of the memory; behind its end there may be anything. *)
At(i) == IF i \in 1..BUFF THEN {buffer[i]} ELSE Bytes \cup {Nul}

(* copy_to_user, of a read and of GETSTATS, whose first field is copied    *)
(* already.  chrdevdr copies from its memory's start, and its offset is 0. *)
CopyToUser(p) ==
  /\ pc[p] \in {"read", "ioctl"}
  /\ todo[p] > 0
  /\ LET i == IF pc[p] = "read" THEN offset[p] + Len(buf[p]) + 1 ELSE Len(buf[p]) IN
     \E byte \in At(i) : buf' = [buf EXCEPT ![p] = Append(@, byte)]
  /\ todo' = [todo EXCEPT ![p] = @ - 1]
  /\ UNCHANGED <<user, kernel, pc, offset, result, history>>

CopyToUserFault(p) ==
  /\ (pc[p] = "read" /\ todo[p] > 0) \/ pc[p] = "ioctl"
  /\ Return(p, <<>>, EFAULT)
  /\ disturbed' = disturbed \ {p}
  /\ UNCHANGED <<user, kernel, offset, garbled>>

(* Mutant: the position stays. *)
ReadReturnInPlace(p) ==
  /\ pc[p] = "read"
  /\ todo[p] = 0
  /\ r_w' = IF chardev THEN 0 ELSE r_w
  /\ Return(p, buf[p], Len(buf[p]))
  /\ disturbed' = disturbed \ {p}
  /\ UNCHANGED <<user, buffer, size, offset, garbled>>

ReadReturn(p) ==
  /\ pc[p] = "read"
  /\ todo[p] = 0
  /\ offset' = [offset EXCEPT ![p] = @ + Len(buf[p])]
  /\ r_w' = IF chardev THEN 0 ELSE r_w
  /\ Return(p, buf[p], Len(buf[p]))
  /\ disturbed' = disturbed \ {p}
  /\ UNCHANGED <<user, buffer, size, garbled>>

-----------------------------------------------------------------------------
(* device_ioctl: the structure is copied from its first field to its last. *)

IoctlCall(p) ==
  /\ pc[p] = "open"
  /\ Runs(p).asks
  /\ Enter(p, "ioctl", <<size>>, BUFF)
  /\ disturbed' = IF Writing = {} THEN disturbed ELSE disturbed \cup {p}
  /\ UNCHANGED <<user, kernel, offset, garbled>>

IoctlReturn(p) ==
  /\ pc[p] = "ioctl"
  /\ todo[p] = 0
  /\ Return(p, Append(buf[p], r_w), 0)
  /\ disturbed' = disturbed \ {p}
  /\ UNCHANGED <<user, kernel, offset, garbled>>

-----------------------------------------------------------------------------
(* device_write and char_write, which both copy to the start whatever the  *)
(* position is, and leave it where it is.                                  *)

Capacity == IF chardev THEN BUFF - 1 ELSE BUFF

(* Mutant: sizeof(buff) is not diminished by the terminator. *)
WriteCallWhole(p) ==
  /\ pc[p] = "open"
  /\ \E s \in Runs(p).writes : Len(s) <= BUFF /\ Enter(p, "write", s, Len(s))
  /\ disturbed' = disturbed \cup Calling \cup (IF Writing = {} THEN {} ELSE {p})
  /\ UNCHANGED <<user, kernel, offset, garbled>>

WriteCall(p) ==
  /\ pc[p] = "open"
  /\ \E s \in Runs(p).writes : Len(s) <= Capacity /\ Enter(p, "write", s, Len(s))
  /\ disturbed' = disturbed \cup Calling \cup (IF Writing = {} THEN {} ELSE {p})
  /\ UNCHANGED <<user, kernel, offset, garbled>>

WriteTooLong(p) ==
  /\ pc[p] = "open"
  /\ \E s \in Runs(p).writes : Len(s) > Capacity
  /\ Return(p, <<>>, TooLong[driver])
  /\ UNCHANGED <<user, kernel, offset, history>>

CopyFromUser(p) ==
  /\ pc[p] \in {"write", "zero"}
  /\ todo[p] > 0
  /\ LET i == Len(buf[p]) - todo[p] + 1 IN
     buffer' = [buffer EXCEPT ![i] = IF pc[p] = "zero" THEN Nul ELSE buf[p][i]]
  /\ todo' = [todo EXCEPT ![p] = @ - 1]
  /\ UNCHANGED <<user, size, r_w, pc, offset, buf, result, history>>

CopyFromUserFault(p) ==
  /\ pc[p] = "write"
  /\ todo[p] > 0
  /\ pc' = [pc EXCEPT ![p] = "zero"]
  /\ UNCHANGED <<user, kernel, offset, buf, todo, result, history>>

WriteFault(p) ==
  /\ pc[p] = "zero"
  /\ todo[p] = 0
  /\ Return(p, <<>>, EFAULT)
  /\ disturbed' = disturbed \ {p}
  /\ garbled' = TRUE
  /\ UNCHANGED <<user, kernel, offset>>

(* Mutant: the string is stored without its end. *)
TerminateNot(p) ==
  /\ pc[p] = "write"
  /\ todo[p] = 0
  /\ chardev
  /\ pc' = [pc EXCEPT ![p] = "size"]
  /\ UNCHANGED <<user, kernel, offset, buf, todo, result, history>>

Terminate(p) ==
  /\ pc[p] = "write"
  /\ todo[p] = 0
  /\ chardev
  /\ buffer' = [buffer EXCEPT ![Len(buf[p]) + 1] = Nul]
  /\ pc' = [pc EXCEPT ![p] = "size"]
  /\ UNCHANGED <<user, size, r_w, offset, buf, todo, result, history>>

SetSize(p) ==
  /\ pc[p] = "size"
  /\ size' = Len(buf[p])
  /\ pc' = [pc EXCEPT ![p] = "r_w"]
  /\ UNCHANGED <<user, buffer, r_w, offset, buf, todo, result, history>>

WriteReturn(p) ==
  /\ \/ pc[p] = "r_w" /\ r_w' = 1
     \/ pc[p] = "write" /\ todo[p] = 0 /\ ~chardev /\ UNCHANGED r_w
  /\ Return(p, <<>>, Len(buf[p]))
  /\ garbled' = (p \in disturbed)
  /\ disturbed' = disturbed \ {p}
  /\ UNCHANGED <<user, buffer, size, offset>>

-----------------------------------------------------------------------------
Call(p) == ReadCall(p) \/ ReadAtEnd(p) \/ IoctlCall(p) \/ WriteCall(p) \/ WriteTooLong(p)

Handler(p) ==
  \/ ReadLength(p) \/ CopyToUser(p) \/ CopyToUserFault(p) \/ ReadReturn(p) \/ IoctlReturn(p)
  \/ CopyFromUser(p) \/ CopyFromUserFault(p) \/ WriteFault(p)
  \/ Terminate(p) \/ SetSize(p) \/ WriteReturn(p)

Next == \E p \in Procs : Open(p) \/ Exit(p) \/ Call(p) \/ Handler(p) \/ UseResult(p)

(* A program that is running goes on running, except that a person may     *)
(* leave usapp's menu alone.                                               *)
Fairness ==
  \A p \in Procs :
    WF_vars(UseResult(p) \/ Handler(p) \/ (driver = "chardev" /\ Call(p)))

Spec     == Init /\ [][Next]_vars
FairSpec == Spec /\ Fairness

-----------------------------------------------------------------------------
TypeOK ==
  /\ driver \in {"chardev", "chrdevdr"}
  /\ buffer \in [1..BUFF -> Bytes \cup {Nul}]
  /\ size \in 0..(BUFF - 1)
  /\ r_w \in {-1, 0, 1}
  /\ pc \in [Procs -> {"closed", "open", "length", "read", "ioctl", "write", "zero",
                       "size", "r_w", "returned"}]
  /\ prog \in [Procs -> DOMAIN Program[driver] \cup {"none"}]
  /\ offset \in [Procs -> 0..(2 * BUFF)]
  /\ todo \in [Procs -> 0..BUFF]
  /\ \A p \in Procs :
       IF prog[p] = "ioctl" /\ buf[p] # <<>>
       THEN buf[p][1] \in 0..(BUFF - 1)
       ELSE buf[p] \in Seq(Bytes \cup {Nul}) /\ Len(buf[p]) <= BUFF
  /\ result \in [Procs -> {-12, -14, -22} \cup 0..BUFF]
  /\ disturbed \subseteq Calling
  /\ garbled \in BOOLEAN

(* A read of chardev stays inside the array and in front of its last byte, *)
(* though the string may have become shorter than the file's position      *)
(* since an earlier read: if it starts at the beginning of the file,       *)
(* whatever writes do meanwhile, as each read of the programs of           *)
(* previousyear1 does; if it starts later, when no write overlaps it.      *)
(* What is left out is a later piece whose string becomes shorter than its *)
(* position between lines 37 and 40: it copies all of len, and that may    *)
(* reach behind the array.                                                 *)
CopyInside ==
  \A p \in Procs :
    chardev /\ pc[p] = "read" /\ (offset[p] = 0 \/ p \notin disturbed)
      => offset[p] + Len(buf[p]) + todo[p] <= BUFF - 1

(* The kernel's string ends inside its memory, whatever writes ran into    *)
(* one another or failed: in chardev always, because ioctl.c prints what   *)
(* it is given even in the middle of a write, and in chrdevdr whenever no  *)
(* write is in progress.                                                   *)
Terminated ==
  IF chardev THEN buffer[BUFF] = Nul
  ELSE Writing = {} => \E i \in 1..BUFF : buffer[i] = Nul

(* The bytes up to the first Nul. *)
StringOf(s) ==
  LET ends == {i \in 1..Len(s) : s[i] = Nul} IN
  IF ends = {} THEN s ELSE SubSeq(s, 1, Min(ends) - 1)

Stored == IF chardev THEN SubSeq(buffer, 1, size) ELSE StringOf(buffer)

Given(p) ==
  CASE pc[p] # "returned" \/ buf[p] = <<>> -> <<>>
    [] prog[p] = "ioctl" -> <<buf[p][1], StringOf(SubSeq(buf[p], 2, BUFF + 1)),
                              buf[p][BUFF + 2]>>
    [] ~chardev -> StringOf(buf[p])
    [] OTHER -> buf[p]

Phase(p) ==
  CASE p \in Writing -> "writing"
    [] pc[p] \in {"length", "read"} -> "reading"
    [] pc[p] = "ioctl" -> "asking"
    [] pc[p] = "returned" -> IF result[p] < 0 THEN "failed" ELSE "done"
    [] OTHER -> "idle"

(* Both drivers are a safe file: calls that no write overlaps are given    *)
(* the last string written, from their position on, and GETSTATS reports   *)
(* its length, its text and the last call, all of one moment.  Reads and   *)
(* requests never disturb one another or a write, a write that was refused *)
(* disturbs nobody, and after writes that collided or failed the next one  *)
(* that runs alone puts the file right.                                    *)
File ==
  INSTANCE SafeFile WITH
    content <- IF Writing # {} \/ garbled THEN Unknown ELSE Stored,
    last    <- IF chardev THEN r_w ELSE Unknown,
    pos     <- offset,
    phase   <- [p \in Procs |-> Phase(p)],
    torn    <- disturbed,
    data    <- [p \in Procs |->
                  IF p \in Writing THEN (IF chardev THEN buf[p] ELSE StringOf(buf[p]))
                  ELSE <<>>],
    got     <- [p \in Procs |-> Given(p)]

ImplementsSafeFile == File!Spec

(* A program that reads in pieces comes to an end, though others write all *)
(* the while and the string grows and shrinks under it.                    *)
PiecesEnd == \A p \in Procs : (prog[p] = "cat") ~> (prog[p] # "cat")

=============================================================================
