-------------------------- MODULE LifecycleProofs --------------------------
(***************************************************************************)
(* Proofs about Lifecycle, for any number of drivers, any dynamic numbers  *)
(* and any numbers that the rest of the kernel holds.                      *)
(*                                                                         *)
(* The argument has two halves.  ProgramOK says what the sources' lists of *)
(* statements have in common, and is proved of the sixteen modules one by  *)
(* one.  DriverOK says what a driver holds, in init from the statements it *)
(* has executed, and in a roll-back or exit from those it has still to     *)
(* execute; it is proved from ProgramOK, for any program that has it.      *)
(***************************************************************************)
EXTENDS Lifecycle, SequenceTheorems, TLAPS

NumberOps == {"alloc", "register", "register_chrdev"}

InitOps == NumberOps \cup
  {"memory", "kmalloc", "cdev_1", "cdev_2", "line", "class", "class_lost", "node",
   "thread", "call_add"}

ExitOps == {"unregister", "unregister_chrdev", "del_cdev_1", "del_cdev_2", "free_line",
            "kfree", "del_node", "del_class"}

(* What a statement acquires when it succeeds, and what it releases.       *)
Gets(op, r) ==
  \/ r = "number" /\ op \in NumberOps
  \/ r = "cdev_1" /\ op \in {"cdev_1", "register_chrdev"}
  \/ r = "cdev_2" /\ op = "cdev_2"
  \/ r = "line"   /\ op = "line"
  \/ r = "node"   /\ op = "node"
  \/ r = "heap"   /\ op = "kmalloc"
  \/ r = "memory" /\ op = "memory"

Frees(op, r) ==
  \/ r = "number" /\ op \in {"unregister", "unregister_chrdev"}
  \/ r = "cdev_1" /\ op \in {"del_cdev_1", "unregister_chrdev"}
  \/ r = "cdev_2" /\ op = "del_cdev_2"
  \/ r = "line"   /\ op = "free_line"
  \/ r = "node"   /\ op = "del_node"
  \/ r \in {"heap", "memory"} /\ op = "kfree"

Held    == Resources \cup {"number"}
Devices == {"cdev_1", "cdev_2"}
Classed == {"dynquedr", "staquedr"}

IsList(p) == p \in Seq({p[k] : k \in 1..Len(p)})

(* A list that gives back: the number goes last.                           *)
GivesBack(l) ==
  /\ IsList(l)
  /\ \A j \in 1..Len(l) :
       /\ l[j].op \in ExitOps /\ l[j].checked = FALSE
       /\ Frees(l[j].op, "number") <=> j = Len(l)

-----------------------------------------------------------------------------
(* What the lists of the sixteen modules have in common. *)

(* The order of init's statements. *)
InitOrder(d) ==
  LET init == Program[d].init
      op(k) == init[k].op
  IN
  /\ IsList(init)
  /\ \A k \in 1..Len(init) :
       /\ op(k) \in InitOps
       /\ op(k) \in NumberOps =>
            /\ \A j \in 1..(k - 1) : op(j) \notin NumberOps
            /\ \/ init[k].checked
               \/ d = "mmst"
               \/ d \in {"dmmn", "ioctldev"} /\ op(k) = "alloc"
       /\ op(k) = "alloc" => Program[d].major = 0
       /\ op(k) \in {"class", "thread"} =>
            /\ d \in Classed /\ ~init[k].checked
            /\ \E j \in 1..(k - 1) : op(j) \in NumberOps
       /\ op(k) = "class_lost" => d = "timers"
       /\ op(k) = "call_add" => d = "test"
       /\ init[k].checked \/ op(k) = "class" => \A j \in 1..(k - 1) : op(j) # "class"
       /\ init[k].checked => d # "mmst"

(* A device comes after its number, and after the memory in all but three. *)
DeviceOrder(d) ==
  LET init == Program[d].init
      op(k) == init[k].op
  IN
  \A k \in 1..Len(init), r \in Devices :
    Gets(op(k), r) =>
      /\ d \notin {"mmst", "dmmn"}
      /\ \E j \in 1..k : op(j) \in NumberOps
      /\ d \notin DeviceFirst => \E j \in 1..(k - 1) : Gets(op(j), "memory")
      /\ \E j \in 1..Len(init) : Gets(op(j), "memory")
      /\ \A j \in (k + 1)..Len(init) : init[j].checked => d \in FailsAfterDevice

(* The statements in front of statement k. *)
Before(d, k) == {Program[d].init[j].op : j \in 1..(k - 1)}

(* To roll back with a list releases whatever the statements before got,   *)
(* but for two exceptions: memory goes with the module, and multi2 keeps   *)
(* its first device.                                                       *)
UndoOK(d, undo, before) ==
  /\ GivesBack(undo)
  /\ \A j \in 1..Len(undo) : undo[j].op # "kfree"
  /\ undo # <<>> => \E op \in before : op \in NumberOps
  /\ \A op \in before, r \in Held :
       Gets(op, r) =>
         \/ r = "memory"
         \/ r = "cdev_1" /\ d = "multi2"
         \/ \E i \in 1..Len(undo) : Frees(undo[i].op, r)

Undoes(d) ==
  \A k \in 1..Len(Program[d].init) :
    Program[d].init[k].checked => UndoOK(d, Program[d].init[k].undo, Before(d, k))

(* What exit gives back. *)
Exits(d) ==
  LET init == Program[d].init
      exit == Program[d].exit
  IN
  /\ GivesBack(exit)
  /\ exit # <<>> => \E k \in 1..Len(init) : init[k].op \in NumberOps
  /\ \A k \in 1..Len(init), r \in Held :
       Gets(init[k].op, r) =>
         r = "memory" \/ \E i \in 1..Len(exit) : Frees(exit[i].op, r)
  /\ d \in Classed => \E i \in 1..Len(exit) : exit[i].op = "del_class"

Names(d) ==
  /\ Program[d].major \in {0, 240, 269}
  /\ Program[d].major = 269 <=> d = "mmst"
  /\ d = "dynquedr" => Program[d].class = "dr_class"
  /\ d = "staquedr" => Program[d].class = "sta_dev"
  /\ d = "timers" => Program[d].class = "dr_class"

ProgramOK(d) ==
  InitOrder(d) /\ DeviceOrder(d) /\ Undoes(d) /\ Exits(d) /\ Names(d)

(* The operations of a list, one after another. *)
OpsAre(l, s) == Len(l) = Len(s) /\ \A j \in 1..Len(s) : l[j].op = s[j]

(* A list of exit statements whose last one gives back the number. *)
LEMMA IgnoredList ==
  ASSUME NEW s \in Seq(ExitOps),
         \A j \in 1..Len(s) : Frees(s[j], "number") <=> j = Len(s)
  PROVE  GivesBack(All(s)) /\ OpsAre(All(s), s)
<1>1. PICK n \in Nat : n = Len(s) /\ DOMAIN s = 1..n
  OBVIOUS
<1>2. PICK f : f = [j \in 1..n |-> Ignored(s[j])]
  OBVIOUS
<1>3. All(s) = f
  BY <1>1, <1>2 DEF All
<1>4. ASSUME NEW j \in 1..n PROVE f[j] = Ignored(s[j]) /\ s[j] \in ExitOps
  BY <1>1, <1>2
<1>5. f \in Seq({f[k] : k \in 1..n}) /\ Len(f) = n
  <2> DEFINE S == {f[k] : k \in 1..n}
  <2>1. \A j \in 1..n : f[j] \in S
    OBVIOUS
  <2> HIDE DEF S
  <2>2. f \in [1..n -> S]
    BY <1>2, <2>1
  <2>3. f \in Seq(S) /\ Len(f) = n
    BY <2>2
  <2> QED
    BY <2>3 DEF S
<1>6. ASSUME NEW j \in 1..n PROVE f[j].op = s[j] /\ f[j].checked = FALSE
  <2>1. \A x : Ignored(x).op = x /\ Ignored(x).checked = FALSE
    BY DEF Ignored
  <2> QED
    BY <1>4, <2>1
<1>7. GivesBack(f)
  BY <1>1, <1>4, <1>5, <1>6 DEF GivesBack, IsList
<1> QED
  BY <1>1, <1>3, <1>5, <1>6, <1>7 DEF OpsAre

(* The lists with which the drivers give back. *)
LEMMA ReleaseLists ==
  /\ GivesBack(<<>>)
  /\ \A s \in {<<"unregister">>, <<"unregister_chrdev">>, <<"del_cdev_1", "unregister">>,
               <<"free_line", "unregister_chrdev">>,
               <<"del_cdev_1", "del_cdev_2", "unregister">>,
               <<"kfree", "del_cdev_1", "unregister">>,
               <<"del_node", "del_class", "del_cdev_1", "unregister">>} :
       GivesBack(All(s)) /\ OpsAre(All(s), s)
<1> DEFINE Good(s) == /\ s \in Seq(ExitOps)
                      /\ \A j \in 1..Len(s) : Frees(s[j], "number") <=> j = Len(s)
<1>1. Good(<<"unregister">>) /\ Good(<<"unregister_chrdev">>)
  BY DEF ExitOps, Frees
<1>2. Good(<<"del_cdev_1", "unregister">>) /\ Good(<<"free_line", "unregister_chrdev">>)
  BY DEF ExitOps, Frees
<1>3. Good(<<"del_cdev_1", "del_cdev_2", "unregister">>)
  BY DEF ExitOps, Frees
<1>4. Good(<<"kfree", "del_cdev_1", "unregister">>)
  BY DEF ExitOps, Frees
<1>5. Good(<<"del_node", "del_class", "del_cdev_1", "unregister">>)
  BY DEF ExitOps, Frees
<1>6. \A s : Good(s) => GivesBack(All(s)) /\ OpsAre(All(s), s)
  BY IgnoredList
<1>7. GivesBack(<<>>)
  BY DEF GivesBack, IsList
<1> HIDE DEF Good
<1> QED
  BY <1>1, <1>2, <1>3, <1>4, <1>5, <1>6, <1>7

(* The lists that give back: after the number alone; *)
LEMMA UnregisterList ==
  GivesBack(Unregister) /\ Len(Unregister) = 1 /\ Unregister[1].op = "unregister"
<1>1. Unregister = All(<<"unregister">>)
  BY DEF Unregister
<1> QED
  BY <1>1, ReleaseLists DEF OpsAre

(* after the number and the device; *)
LEMMA DeviceList ==
  LET l == All(<<"del_cdev_1", "unregister">>) IN
  GivesBack(l) /\ Len(l) = 2 /\ l[1].op = "del_cdev_1" /\ l[2].op = "unregister"
BY ReleaseLists DEF OpsAre

(* the exit of the two wait-queue drivers; *)
LEMMA WaitList ==
  LET l == dynquedr.exit IN
  /\ GivesBack(l) /\ Len(l) = 4
  /\ l[1].op = "del_node" /\ l[2].op = "del_class"
  /\ l[3].op = "del_cdev_1" /\ l[4].op = "unregister"
<1>1. dynquedr.exit = All(<<"del_node", "del_class", "del_cdev_1", "unregister">>)
  BY DEF dynquedr
<1> QED
  BY <1>1, ReleaseLists DEF OpsAre

(* after register_chrdev, which takes number and device at once; *)
LEMMA ChrdevList ==
  LET l == All(<<"unregister_chrdev">>) IN
  GivesBack(l) /\ Len(l) = 1 /\ l[1].op = "unregister_chrdev"
BY ReleaseLists DEF OpsAre

(* the exit of multi2, with its two devices; *)
LEMMA MultiList ==
  LET l == All(<<"del_cdev_1", "del_cdev_2", "unregister">>) IN
  /\ GivesBack(l) /\ Len(l) = 3
  /\ l[1].op = "del_cdev_1" /\ l[2].op = "del_cdev_2" /\ l[3].op = "unregister"
BY ReleaseLists DEF OpsAre

(* the exit of led_driver, with its GPIO line; *)
LEMMA LineList ==
  LET l == All(<<"free_line", "unregister_chrdev">>) IN
  GivesBack(l) /\ Len(l) = 2 /\ l[1].op = "free_line" /\ l[2].op = "unregister_chrdev"
BY ReleaseLists DEF OpsAre

(* the exit of chrdevdr, with its heap buffer. *)
LEMMA KfreeList ==
  LET l == All(<<"kfree", "del_cdev_1", "unregister">>) IN
  /\ GivesBack(l) /\ Len(l) = 3
  /\ l[1].op = "kfree" /\ l[2].op = "del_cdev_1" /\ l[3].op = "unregister"
BY ReleaseLists DEF OpsAre

(* The roll-backs that occur: before the number, after the number, after   *)
(* the number and its device at once, and after the device.                *)
NothingYet(d, k) ==
  /\ Program[d].init[k].undo = <<>>
  /\ \A j \in 1..(k - 1) : Program[d].init[j].op = "memory"

NumberFirst(d, k) ==
  /\ Program[d].init[k].undo = Unregister
  /\ \E j \in 1..(k - 1) : Program[d].init[j].op = "alloc"
  /\ \A j \in 1..(k - 1) :
       \/ Program[d].init[j].op \in {"alloc", "memory"}
       \/ Program[d].init[j].op = "cdev_1" /\ d = "multi2"

ChrdevFirst(d, k) ==
  /\ Program[d].init[k].undo = All(<<"unregister_chrdev">>)
  /\ \E j \in 1..(k - 1) : Program[d].init[j].op = "register_chrdev"
  /\ \A j \in 1..(k - 1) : Program[d].init[j].op \in {"register_chrdev", "memory"}

DeviceToo(d, k) ==
  /\ Program[d].init[k].undo = All(<<"del_cdev_1", "unregister">>)
  /\ \E j \in 1..(k - 1) : Program[d].init[j].op = "alloc"
  /\ \A j \in 1..(k - 1) : Program[d].init[j].op \in {"alloc", "memory", "cdev_1"}

(* Each of these roll-backs releases what was acquired: Unregister after   *)
(* the number,                                                             *)
LEMMA UndoNumber ==
  ASSUME NEW d, NEW before, "alloc" \in before,
         \A op \in before : op \in {"alloc", "memory"} \/ (op = "cdev_1" /\ d = "multi2")
  PROVE  UndoOK(d, Unregister, before)
BY UnregisterList DEF UndoOK, Gets, Frees, NumberOps

(* unregister_chrdev after register_chrdev, *)
LEMMA UndoChrdev ==
  ASSUME NEW d, NEW before, "register_chrdev" \in before,
         \A op \in before : op \in {"register_chrdev", "memory"}
  PROVE  UndoOK(d, All(<<"unregister_chrdev">>), before)
BY ChrdevList DEF UndoOK, Gets, Frees, NumberOps

(* cdev_del and unregister after number and device. *)
LEMMA UndoDevice ==
  ASSUME NEW d, NEW before, "alloc" \in before,
         \A op \in before : op \in {"alloc", "memory", "cdev_1"}
  PROVE  UndoOK(d, All(<<"del_cdev_1", "unregister">>), before)
BY DeviceList DEF UndoOK, Gets, Frees, NumberOps

(* So a driver whose roll-backs are all of these four kinds undoes its     *)
(* init.                                                                   *)
LEMMA UndoRule ==
  ASSUME NEW d,
         \A k \in 1..Len(Program[d].init) :
           Program[d].init[k].checked =>
             NothingYet(d, k) \/ NumberFirst(d, k) \/ ChrdevFirst(d, k) \/ DeviceToo(d, k)
  PROVE  Undoes(d)
<1> SUFFICES ASSUME NEW k \in 1..Len(Program[d].init), Program[d].init[k].checked
             PROVE  UndoOK(d, Program[d].init[k].undo, Before(d, k))
  BY DEF Undoes
<1>1. CASE NothingYet(d, k)
  <2>1. UndoOK(d, <<>>, Before(d, k))
    BY <1>1, ReleaseLists DEF UndoOK, Gets, NumberOps, NothingYet, Before
  <2> QED
    BY <1>1, <2>1 DEF NothingYet
<1>2. CASE NumberFirst(d, k)
  <2>1. UndoOK(d, Unregister, Before(d, k))
    BY <1>2, UndoNumber DEF NumberFirst, Before
  <2> QED
    BY <1>2, <2>1 DEF NumberFirst
<1>3. CASE ChrdevFirst(d, k)
  <2>1. UndoOK(d, All(<<"unregister_chrdev">>), Before(d, k))
    BY <1>3, UndoChrdev DEF ChrdevFirst, Before
  <2> QED
    BY <1>3, <2>1 DEF ChrdevFirst
<1>4. CASE DeviceToo(d, k)
  <2>1. UndoOK(d, All(<<"del_cdev_1", "unregister">>), Before(d, k))
    BY <1>4, UndoDevice DEF DeviceToo, Before
  <2> QED
    BY <1>4, <2>1 DEF DeviceToo
<1> QED
  BY <1>1, <1>2, <1>3, <1>4

-----------------------------------------------------------------------------
(* The sixteen modules, one after another. *)

(* previousyear/ioctl.c. *)
LEMMA multi2OK == ProgramOK("multi2")
<1>1. Program["multi2"] = multi2
  BY DEF Program
<1>2. IsList(multi2.init)
  BY DEF IsList, multi2
<1>3. InitOrder("multi2")
  BY <1>1, <1>2 DEF InitOrder, NumberOps, InitOps, Classed, Checked, Ignored, multi2
<1>4. DeviceOrder("multi2")
  BY <1>1 DEF DeviceOrder, Gets, NumberOps, Devices, DeviceFirst, FailsAfterDevice,
     Checked, Ignored, multi2
<1>5. Undoes("multi2")
  <2>1. \A k \in 1..Len(multi2.init) : multi2.init[k].checked => k \in {1, 3, 4}
    BY DEF Checked, Ignored, multi2
  <2>2. NothingYet("multi2", 1)
    BY <1>1 DEF NothingYet, Checked, Ignored, multi2
  <2>3. NumberFirst("multi2", 3) /\ NumberFirst("multi2", 4)
    BY <1>1 DEF NumberFirst, Checked, Ignored, multi2
  <2> QED
    BY <1>1, <2>1, <2>2, <2>3, UndoRule
<1>6. Exits("multi2")
  BY <1>1, MultiList DEF Exits, Gets, Frees, NumberOps, Classed,
     Checked, Ignored, multi2
<1>7. Names("multi2")
  BY <1>1 DEF Names, multi2
<1> QED
  BY <1>3, <1>4, <1>5, <1>6, <1>7 DEF ProgramOK

(* previous2/chardr.c. *)
LEMMA chardrOK == ProgramOK("chardr")
<1>1. Program["chardr"] = chardr
  BY DEF Program
<1>2. IsList(chardr.init)
  BY DEF IsList, chardr
<1>3. InitOrder("chardr")
  BY <1>1, <1>2 DEF InitOrder, NumberOps, InitOps, Classed, Checked, Ignored, chardr
<1>4. DeviceOrder("chardr")
  BY <1>1 DEF DeviceOrder, Gets, NumberOps, Devices, DeviceFirst, FailsAfterDevice,
     Checked, Ignored, chardr
<1>5. Undoes("chardr")
  BY <1>1, UndoRule DEF NothingYet, NumberFirst, Checked, Ignored, chardr
<1>6. Exits("chardr")
  <2>1. \A k \in 1..Len(chardr.init) : chardr.init[k].op \in {"alloc", "cdev_1", "memory"}
    BY DEF Checked, Ignored, chardr
  <2>2. chardr.exit = All(<<"del_cdev_1", "unregister">>) /\ chardr.init[1].op = "alloc"
    BY DEF Checked, Ignored, chardr
  <2>3. Len(chardr.init) = 3
    BY DEF chardr
  <2> QED
    BY <1>1, <2>1, <2>2, <2>3, DeviceList DEF Exits, Gets, Frees, NumberOps, Classed
<1>7. Names("chardr")
  BY <1>1 DEF Names, chardr
<1> QED
  BY <1>3, <1>4, <1>5, <1>6, <1>7 DEF ProgramOK

(* waitqueues/dynamic/dynquedr.c. *)
LEMMA dynquedrOK == ProgramOK("dynquedr")
<1>1. Program["dynquedr"] = dynquedr
  BY DEF Program
<1>2. IsList(dynquedr.init)
  BY DEF IsList, dynquedr
<1>3. InitOrder("dynquedr")
  BY <1>1, <1>2 DEF InitOrder, NumberOps, InitOps, Classed, Checked, Ignored, dynquedr
<1>4. DeviceOrder("dynquedr")
  <2>1. \A k \in 1..Len(dynquedr.init), r \in Devices :
          Gets(dynquedr.init[k].op, r) => k = 2
    BY DEF Gets, Devices, Checked, Ignored, dynquedr
  <2>2. /\ dynquedr.init[1].op = "alloc"
        /\ \A k \in 1..Len(dynquedr.init) : k > 2 => ~dynquedr.init[k].checked
        /\ dynquedr.init[5].op = "memory"
        /\ Len(dynquedr.init) = 6
    BY DEF Checked, Ignored, dynquedr
  <2>3. Gets(dynquedr.init[5].op, "memory")
    BY <2>2 DEF Gets
  <2>4. "dynquedr" \notin {"mmst", "dmmn"} /\ "dynquedr" \in DeviceFirst
    BY DEF DeviceFirst
  <2> QED
    BY <1>1, <2>1, <2>2, <2>3, <2>4 DEF DeviceOrder, NumberOps
<1>5. Undoes("dynquedr")
  <2>1. \A k \in 1..Len(dynquedr.init) : dynquedr.init[k].checked => k \in {1, 2}
    BY DEF Checked, Ignored, dynquedr
  <2>2. NothingYet("dynquedr", 1)
    BY <1>1 DEF NothingYet, Checked, Ignored, dynquedr
  <2>3. NumberFirst("dynquedr", 2)
    BY <1>1 DEF NumberFirst, Checked, Ignored, dynquedr
  <2> QED
    BY <1>1, <2>1, <2>2, <2>3, UndoRule
<1>6. Exits("dynquedr")
  BY <1>1, WaitList DEF Exits, Gets, Frees, NumberOps, Classed,
     Checked, Ignored, dynquedr
<1>7. Names("dynquedr")
  BY <1>1 DEF Names, dynquedr
<1> QED
  BY <1>3, <1>4, <1>5, <1>6, <1>7 DEF ProgramOK

(* waitqueues/static/staquedr.c. *)
LEMMA staquedrOK == ProgramOK("staquedr")
<1>1. Program["staquedr"] = staquedr
  BY DEF Program
<1>2. IsList(staquedr.init)
  BY DEF IsList, staquedr
<1>3. InitOrder("staquedr")
  <2>1. \A k \in 1..Len(staquedr.init) :
          /\ staquedr.init[k].op \in InitOps
          /\ staquedr.init[k].op \in NumberOps <=> k = 2
          /\ staquedr.init[k].op = "class" <=> k = 4
          /\ staquedr.init[k].op \notin {"kmalloc", "class_lost", "call_add"}
    BY DEF InitOps, NumberOps, Checked, Ignored, staquedr
  <2>2. \A k \in 1..Len(staquedr.init) :
          /\ staquedr.init[k].checked <=> k \in {2, 3}
          /\ staquedr.init[k].op \in {"class", "thread"} => k > 3
    BY DEF Checked, Ignored, staquedr
  <2>3. Len(staquedr.init) = 6 /\ staquedr.major = 0 /\ "staquedr" \in Classed
    BY DEF staquedr, Classed
  <2> QED
    BY <1>1, <1>2, <2>1, <2>2, <2>3 DEF InitOrder
<1>4. DeviceOrder("staquedr")
  BY <1>1 DEF DeviceOrder, Gets, NumberOps, Devices, DeviceFirst, FailsAfterDevice,
     Checked, Ignored, staquedr
<1>5. Undoes("staquedr")
  <2>1. \A k \in 1..Len(staquedr.init) : staquedr.init[k].checked => k \in {2, 3}
    BY DEF Checked, Ignored, staquedr
  <2>2. NothingYet("staquedr", 2)
    BY <1>1 DEF NothingYet, Checked, Ignored, staquedr
  <2>3. NumberFirst("staquedr", 3)
    BY <1>1 DEF NumberFirst, Checked, Ignored, staquedr
  <2> QED
    BY <1>1, <2>1, <2>2, <2>3, UndoRule
<1>6. Exits("staquedr")
  BY <1>1, WaitList DEF Exits, Gets, Frees, NumberOps, Classed,
     Checked, Ignored, staquedr
<1>7. Names("staquedr")
  BY <1>1 DEF Names, staquedr
<1> QED
  BY <1>3, <1>4, <1>5, <1>6, <1>7 DEF ProgramOK

(* timers/timers.c. *)
LEMMA timersOK == ProgramOK("timers")
<1>1. Program["timers"] = timers
  BY DEF Program
<1>2. IsList(timers.init)
  BY DEF IsList, timers
<1>3. InitOrder("timers")
  BY <1>1, <1>2 DEF InitOrder, NumberOps, InitOps, Classed, Checked, Ignored, timers
<1>4. DeviceOrder("timers")
  BY <1>1 DEF DeviceOrder, Gets, NumberOps, Devices, DeviceFirst, FailsAfterDevice,
     Checked, Ignored, timers
<1>5. Undoes("timers")
  <2>1. \A k \in 1..Len(timers.init) : timers.init[k].checked => k \in {2, 3}
    BY DEF Checked, Ignored, timers
  <2>2. NothingYet("timers", 2)
    BY <1>1 DEF NothingYet, Checked, Ignored, timers
  <2>3. NumberFirst("timers", 3)
    BY <1>1 DEF NumberFirst, Checked, Ignored, timers
  <2> QED
    BY <1>1, <2>1, <2>2, <2>3, UndoRule
<1>6. Exits("timers")
  BY <1>1, WaitList DEF Exits, Gets, Frees, NumberOps, Classed,
     Checked, Ignored, timers
<1>7. Names("timers")
  BY <1>1 DEF Names, timers
<1> QED
  BY <1>3, <1>4, <1>5, <1>6, <1>7 DEF ProgramOK

(* previous3/led_driver.c. *)
LEMMA led_driverOK == ProgramOK("led_driver")
<1>1. Program["led_driver"] = led_driver
  BY DEF Program
<1>2. IsList(led_driver.init)
  BY DEF IsList, led_driver
<1>3. InitOrder("led_driver")
  BY <1>1, <1>2 DEF InitOrder, NumberOps, InitOps, Classed, Checked, Ignored, led_driver
<1>4. DeviceOrder("led_driver")
  BY <1>1 DEF DeviceOrder, Gets, NumberOps, Devices, DeviceFirst, FailsAfterDevice,
     Checked, Ignored, led_driver
<1>5. Undoes("led_driver")
  BY <1>1, UndoRule DEF NothingYet, ChrdevFirst, Checked, Ignored, led_driver
<1>6. Exits("led_driver")
  BY <1>1, LineList DEF Exits, Gets, Frees, NumberOps, Classed,
     Checked, Ignored, led_driver
<1>7. Names("led_driver")
  BY <1>1 DEF Names, led_driver
<1> QED
  BY <1>3, <1>4, <1>5, <1>6, <1>7 DEF ProgramOK

(* previousyear1/chardev.c. *)
LEMMA chardevOK == ProgramOK("chardev")
<1>1. Program["chardev"] = chardev
  BY DEF Program
<1>2. IsList(chardev.init)
  BY DEF IsList, chardev
<1>3. InitOrder("chardev")
  BY <1>1, <1>2 DEF InitOrder, NumberOps, InitOps, Classed, Checked, Ignored, chardev
<1>4. DeviceOrder("chardev")
  BY <1>1 DEF DeviceOrder, Gets, NumberOps, Devices, DeviceFirst, FailsAfterDevice,
     Checked, Ignored, chardev
<1>5. Undoes("chardev")
  BY <1>1, UndoRule DEF NothingYet, Checked, Ignored, chardev
<1>6. Exits("chardev")
  BY <1>1, ChrdevList DEF Exits, Gets, Frees, NumberOps, Classed,
     Checked, Ignored, chardev
<1>7. Names("chardev")
  BY <1>1 DEF Names, chardev
<1> QED
  BY <1>3, <1>4, <1>5, <1>6, <1>7 DEF ProgramOK

(* chardevdriver/chrdevdr.c. *)
LEMMA chrdevdrOK == ProgramOK("chrdevdr")
<1>1. Program["chrdevdr"] = chrdevdr
  BY DEF Program
<1>2. IsList(chrdevdr.init)
  BY DEF IsList, chrdevdr
<1>3. InitOrder("chrdevdr")
  BY <1>1, <1>2 DEF InitOrder, NumberOps, InitOps, Classed, Checked, Ignored, chrdevdr
<1>4. DeviceOrder("chrdevdr")
  BY <1>1 DEF DeviceOrder, Gets, NumberOps, Devices, DeviceFirst, FailsAfterDevice,
     Checked, Ignored, chrdevdr
<1>5. Undoes("chrdevdr")
  BY <1>1, UndoRule DEF NothingYet, NumberFirst, DeviceToo, Checked, Ignored, chrdevdr
<1>6. Exits("chrdevdr")
  BY <1>1, KfreeList DEF Exits, Gets, Frees, NumberOps, Classed,
     Checked, Ignored, chrdevdr
<1>7. Names("chrdevdr")
  BY <1>1 DEF Names, chrdevdr
<1> QED
  BY <1>3, <1>4, <1>5, <1>6, <1>7 DEF ProgramOK

(* ioctldev/ioctl.c. *)
LEMMA ioctldevOK == ProgramOK("ioctldev")
<1>1. Program["ioctldev"] = ioctldev
  BY DEF Program
<1>2. IsList(ioctldev.init)
  BY DEF IsList, ioctldev
<1>3. InitOrder("ioctldev")
  BY <1>1, <1>2 DEF InitOrder, NumberOps, InitOps, Classed, Checked, Ignored, ioctldev
<1>4. DeviceOrder("ioctldev")
  BY <1>1 DEF DeviceOrder, Gets, NumberOps, Devices, DeviceFirst, FailsAfterDevice,
     Checked, Ignored, ioctldev
<1>5. Undoes("ioctldev")
  BY <1>1, UndoRule DEF Undoes, Checked, Ignored, ioctldev
<1>6. Exits("ioctldev")
  <2>1. \A k \in 1..Len(ioctldev.init) :
          ioctldev.init[k].op \in {"memory", "alloc", "cdev_1"}
    BY DEF Checked, Ignored, ioctldev
  <2>2. ioctldev.exit = All(<<"del_cdev_1", "unregister">>) /\ ioctldev.init[2].op = "alloc"
    BY DEF Checked, Ignored, ioctldev
  <2>3. Len(ioctldev.init) = 3
    BY DEF ioctldev
  <2> QED
    BY <1>1, <2>1, <2>2, <2>3, DeviceList DEF Exits, Gets, Frees, NumberOps, Classed
<1>7. Names("ioctldev")
  BY <1>1 DEF Names, ioctldev
<1> QED
  BY <1>3, <1>4, <1>5, <1>6, <1>7 DEF ProgramOK

(* static/mmst.c. *)
LEMMA mmstOK == ProgramOK("mmst")
<1>1. Program["mmst"] = mmst
  BY DEF Program
<1>2. IsList(mmst.init)
  BY DEF IsList, mmst
<1>3. InitOrder("mmst")
  BY <1>1, <1>2 DEF InitOrder, NumberOps, InitOps, Classed, Checked, Ignored, mmst
<1>4. DeviceOrder("mmst")
  BY <1>1 DEF DeviceOrder, Gets, NumberOps, Devices, DeviceFirst, FailsAfterDevice,
     Checked, Ignored, mmst
<1>5. Undoes("mmst")
  BY <1>1, UndoRule DEF Undoes, Checked, Ignored, mmst
<1>6. Exits("mmst")
  BY <1>1, UnregisterList DEF Exits, Gets, Frees, NumberOps, Classed,
     Checked, Ignored, mmst, Unregister
<1>7. Names("mmst")
  BY <1>1 DEF Names, mmst
<1> QED
  BY <1>3, <1>4, <1>5, <1>6, <1>7 DEF ProgramOK

(* dynamic/dmmn.c. *)
LEMMA dmmnOK == ProgramOK("dmmn")
<1>1. Program["dmmn"] = dmmn
  BY DEF Program
<1>2. IsList(dmmn.init)
  BY DEF IsList, dmmn
<1>3. InitOrder("dmmn")
  BY <1>1, <1>2 DEF InitOrder, NumberOps, InitOps, Classed, Checked, Ignored, dmmn
<1>4. DeviceOrder("dmmn")
  BY <1>1 DEF DeviceOrder, Gets, NumberOps, Devices, DeviceFirst, FailsAfterDevice,
     Checked, Ignored, dmmn
<1>5. Undoes("dmmn")
  BY <1>1, UndoRule DEF Undoes, Checked, Ignored, dmmn
<1>6. Exits("dmmn")
  BY <1>1, UnregisterList DEF Exits, Gets, Frees, NumberOps, Classed,
     Checked, Ignored, dmmn, Unregister
<1>7. Names("dmmn")
  BY <1>1 DEF Names, dmmn
<1> QED
  BY <1>3, <1>4, <1>5, <1>6, <1>7 DEF ProgramOK

(* devfile/mndvf/mndvf.c. *)
LEMMA mndvfOK == ProgramOK("mndvf")
<1>1. Program["mndvf"] = mndvf
  BY DEF Program
<1>2. IsList(mndvf.init)
  BY DEF IsList, mndvf
<1>3. InitOrder("mndvf")
  BY <1>1, <1>2 DEF InitOrder, NumberOps, InitOps, Classed, Checked, Ignored, mndvf
<1>4. DeviceOrder("mndvf")
  BY <1>1 DEF DeviceOrder, Gets, NumberOps, Devices, DeviceFirst, FailsAfterDevice,
     Checked, Ignored, mndvf
<1>5. Undoes("mndvf")
  BY <1>1, UndoRule DEF NothingYet, Checked, Ignored, mndvf
<1>6. Exits("mndvf")
  BY <1>1, UnregisterList DEF Exits, Gets, Frees, NumberOps, Classed,
     Checked, Ignored, mndvf, Unregister
<1>7. Names("mndvf")
  BY <1>1 DEF Names, mndvf
<1> QED
  BY <1>3, <1>4, <1>5, <1>6, <1>7 DEF ProgramOK

(* The modules that only export a function. *)
LEMMA ExportersOK == ProgramOK("add") /\ ProgramOK("sub") /\ ProgramOK("mul")
<1> SUFFICES ASSUME NEW d \in {"add", "sub", "mul"}, Program[d] = Exporter(d)
             PROVE  ProgramOK(d)
  BY DEF Program, add, sub, mul
<1>1. /\ Program[d].init = <<>> /\ Program[d].exit = <<>> /\ Program[d].major = 0
      /\ d \notin Classed /\ d \notin {"mmst", "timers"}
  BY DEF Exporter, Classed
<1>2. IsList(<<>>) /\ GivesBack(<<>>)
  BY ReleaseLists DEF GivesBack
<1>3. InitOrder(d) /\ DeviceOrder(d) /\ Undoes(d)
  BY <1>1, <1>2 DEF InitOrder, DeviceOrder, Undoes
<1>4. Exits(d) /\ Names(d)
  BY <1>1, <1>2 DEF Exits, Names, Classed
<1> QED
  BY <1>3, <1>4 DEF ProgramOK

(* modprobe/test.c. *)
LEMMA testOK == ProgramOK("test")
<1>1. Program["test"] = test
  BY DEF Program
<1>2. IsList(test.init)
  BY DEF IsList, test, All
<1>3. InitOrder("test")
  BY <1>1, <1>2 DEF InitOrder, NumberOps, InitOps, Classed, Checked, Ignored, test, All
<1>4. DeviceOrder("test")
  BY <1>1 DEF DeviceOrder, Gets, NumberOps, Devices, DeviceFirst, FailsAfterDevice,
     Checked, Ignored, test, All
<1>5. Undoes("test")
  BY <1>1, UndoRule DEF Undoes, Checked, Ignored, test, All
<1>6. Exits("test")
  BY <1>1, ReleaseLists DEF Exits, Gets, Frees, NumberOps, Classed,
     Checked, Ignored, test, All
<1>7. Names("test")
  BY <1>1 DEF Names, test, All
<1> QED
  BY <1>3, <1>4, <1>5, <1>6, <1>7 DEF ProgramOK

(* The sixteen modules; no driver is mistaken for the rest of the kernel   *)
(* or for a free number.                                                   *)
LEMMA DriverNames ==
  /\ Drivers = {"multi2", "chardr", "dynquedr", "staquedr", "timers", "led_driver",
                "chardev", "chrdevdr", "ioctldev", "mmst", "dmmn", "mndvf", "add", "sub",
                "mul", "test"}
  /\ "other" \notin Drivers /\ "free" \notin Drivers
BY DEF Drivers, Program

(* Every module's lists are in order. *)
LEMMA ProgramFacts == \A d \in Drivers : ProgramOK(d)
BY DriverNames, multi2OK, chardrOK, dynquedrOK, staquedrOK, timersOK, led_driverOK,
   chardevOK, chrdevdrOK, ioctldevOK, mmstOK, dmmnOK, mndvfOK, ExportersOK, testOK

-----------------------------------------------------------------------------
(* The state of one driver: its own variables and what the tables hold of  *)
(* it.                                                                     *)
Own(d) ==
  [phase |-> phase[d], todo |-> todo[d], dev |-> dev[d], class |-> dev_class[d],
   has |-> has[d], numbers |-> {m \in Majors : registry[m] = d},
   files |-> opened \cap {d}]

Holds(s, r) == IF r = "number" THEN s.numbers # {} ELSE r \in s.has

Exposed(s) == s.files # {} \/ s.has \cap Devices # {}

(* Once its statement for the number is over, a driver has one; but for    *)
(* mmst, which does not look, and two others that go on without any.       *)
NumberOK(d, s) ==
  \/ s.dev \in s.numbers
  \/ d = "mmst"
  \/ d \in {"dmmn", "ioctldev"} /\ s.dev = 0

(* In init, and after it: what the statements executed so far amount to.   *)
Executed(d, s) == Len(Program[d].init) - Len(s.todo)

Building(d, s) ==
  LET init == Program[d].init
      op(k) == init[k].op
      n == Executed(d, s)
  IN
  /\ n \in 0..Len(init)
  /\ s.todo = SubSeq(init, n + 1, Len(init))
  /\ \A k \in 1..n :
       /\ op(k) \in NumberOps => NumberOK(d, s)
       /\ Gets(op(k), "memory") => "memory" \in s.has
  /\ \A r \in Held : Holds(s, r) => \E k \in 1..n : Gets(op(k), r)
  /\ \A k \in (n + 1)..Len(init) : op(k) = "alloc" => s.dev = 0
  /\ s.class # "null" => \E k \in 1..n : op(k) = "class"
  /\ s.files # {} => \E k \in 1..n, r \in Devices : Gets(op(k), r)

(* In a roll-back and in exit: whatever the driver has is given back by a  *)
(* statement still to come.                                                *)
Lists(d) ==
  {Program[d].init, Program[d].exit}
  \cup {Program[d].init[i].undo : i \in DOMAIN Program[d].init}

Releasing(d, s) ==
  /\ \E p \in Lists(d) :
       IsList(p) /\ \E i \in 1..(Len(p) + 1) : s.todo = SubSeq(p, i, Len(p))
  /\ GivesBack(s.todo)
  /\ s.todo # <<>> => NumberOK(d, s)
  /\ \A r \in Held :
       Holds(s, r) =>
         \/ r = "memory"
         \/ r = "cdev_1" /\ d = "multi2" /\ s.phase = "undo"
         \/ \E i \in 1..Len(s.todo) : Frees(s.todo[i].op, r)
  /\ s.phase = "undo" =>
       /\ d # "mmst"
       /\ \A i \in 1..Len(s.todo) : s.todo[i].op # "kfree"
       /\ Exposed(s) => d \in FailsAfterDevice
       /\ Exposed(s) /\ d \notin DeviceFirst => "memory" \in s.has
  /\ s.phase = "exit" => s.files = {}

DriverOK(d, s) ==
  /\ s.phase \in {"absent", "init", "undo", "live", "exit", "oopsed"}
  /\ s.dev \in Majors \cup {0}
  /\ s.class \in {"null", "error", "class"}
  /\ s.has \subseteq Resources
  /\ s.numbers \subseteq {s.dev}
  /\ s.dev = 269 => d = "mmst"
  /\ d = "mmst" => s.dev \in {0, 269}
  /\ s.class # "null" => d \in Classed
  /\ s.has \cap Devices # {} => d \notin {"mmst", "dmmn"}
  /\ s.phase \in {"init", "live"} => Building(d, s)
  /\ s.phase \in {"undo", "exit"} => Releasing(d, s)
  /\ s.phase \in {"live", "absent", "oopsed"} => s.todo = <<>>
  /\ s.phase = "absent" =>
       /\ s.numbers = {}
       /\ s.has \subseteq (IF d = "multi2" THEN {"cdev_1"} ELSE {})
       /\ s.files # {} => d \in FailsAfterDevice
  /\ s.phase = "oopsed" => d \in Classed /\ s.dev \in s.numbers

(* The class of a name is somebody's, who will give it back.               *)
Keeps(d, s) ==
  /\ d \in Classed /\ s.class = "class"
  /\ \/ s.phase \in {"init", "live", "oopsed"}
     \/ s.phase = "exit" /\ \E i \in 1..Len(s.todo) : s.todo[i].op = "del_class"

ClassesOK ==
  \A c \in classes :
    \/ c = "dr_class" /\ "timers" \in present
    \/ \E d \in present : Program[d].class = c /\ Keeps(d, Own(d))

(* add stays loaded as long as test is.                                    *)
AddStays == phase["test"] # "absent" => phase["add"] = "live"

Shapes ==
  /\ present \subseteq Drivers
  /\ phase \in [Drivers -> {"absent", "init", "undo", "live", "exit", "oopsed"}]
  /\ DOMAIN todo = Drivers
  /\ dev \in [Drivers -> Majors \cup {0}]
  /\ dev_class \in [Drivers -> {"null", "error", "class"}]
  /\ has \in [Drivers -> SUBSET Resources]
  /\ registry \in [Majors -> Drivers \cup {"other", "free"}]
  /\ classes \subseteq {"dr_class", "sta_dev"}
  /\ opened \subseteq present

(* The inductive invariant. *)
IInv ==
  /\ Shapes /\ AddStays /\ ClassesOK
  /\ \A d \in Drivers : DriverOK(d, Own(d))

-----------------------------------------------------------------------------
(* Lists that are executed one statement after another. *)

(* The rest of a list from statement i on. *)
LEMMA RestOfList ==
  ASSUME NEW p, IsList(p), NEW i \in 1..(Len(p) + 1), NEW l, l = SubSeq(p, i, Len(p))
  PROVE  /\ Len(p) \in Nat
         /\ Len(l) = Len(p) - i + 1
         /\ \A j \in 1..Len(l) : l[j] = p[i + j - 1]
         /\ l # <<>> => /\ i \in 1..Len(p)
                        /\ Head(l) = p[i]
                        /\ Tail(l) = SubSeq(p, i + 1, Len(p))
         /\ l = <<>> <=> i = Len(p) + 1
<1>1. PICK S : p \in Seq(S)
  BY DEF IsList
<1>2. Len(p) \in Nat
  BY <1>1
<1>3. Len(l) = Len(p) - i + 1 /\ l \in Seq(S)
  BY <1>1, <1>2
<1>4. \A j \in 1..Len(l) : l[j] = p[i + j - 1]
  BY <1>1, <1>2, <1>3
<1>5. l = <<>> <=> i = Len(p) + 1
  <2>1. l = <<>> <=> Len(l) = 0
    BY <1>3, EmptySeq
  <2>2. Len(l) = 0 <=> i = Len(p) + 1
    BY <1>2, <1>3
  <2> QED
    BY <2>1, <2>2
<1>6. ASSUME l # <<>> PROVE /\ i \in 1..Len(p)
                            /\ Head(l) = p[i]
                            /\ Tail(l) = SubSeq(p, i + 1, Len(p))
  <2>1. i \in 1..Len(p)
    BY <1>2, <1>5, <1>6
  <2>2. Head(l) = p[i]
    BY <1>1, <1>2, <1>3, <1>4, <1>6, <2>1
  <2>3. Tail(l) = SubSeq(p, i + 1, Len(p))
    <3> DEFINE u == Tail(l)
               v == SubSeq(p, i + 1, Len(p))
    <3>1. u \in Seq(S) /\ v \in Seq(S)
      BY <1>1, <1>2, <1>3, <1>6, <2>1
    <3>2. Len(u) = Len(p) - i /\ Len(v) = Len(p) - i
      BY <1>1, <1>2, <1>3, <1>6, <2>1
    <3>3. \A j \in 1..Len(u) : u[j] = p[i + j] /\ v[j] = p[i + j]
      BY <1>1, <1>2, <1>3, <1>4, <1>6, <2>1
    <3> HIDE DEF u, v
    <3>4. u \in [1..(Len(p) - i) -> S] /\ v \in [1..(Len(p) - i) -> S]
      BY <3>1, <3>2
    <3>5. u = v
      BY <3>2, <3>3, <3>4
    <3> QED
      BY <3>5 DEF u, v
  <2> QED
    BY <2>1, <2>2, <2>3
<1> QED
  BY <1>2, <1>3, <1>4, <1>5, <1>6

(* The rest of a list that gives back gives back. *)
LEMMA RestOfRelease ==
  ASSUME NEW l, GivesBack(l), l # <<>>
  PROVE  /\ Len(l) \in Nat \ {0} /\ Head(l) = l[1]
         /\ Len(Tail(l)) = Len(l) - 1
         /\ \A j \in 1..Len(Tail(l)) : Tail(l)[j] = l[j + 1]
         /\ GivesBack(Tail(l))
         /\ l[1].op \in ExitOps /\ l[1].checked = FALSE
         /\ Frees(l[1].op, "number") <=> Tail(l) = <<>>
<1>1. PICK S : l \in Seq(S)
  BY DEF GivesBack, IsList
<1>2. Len(l) \in Nat \ {0} /\ Head(l) = l[1] /\ Len(Tail(l)) = Len(l) - 1
  BY <1>1
<1>3. \A j \in 1..Len(Tail(l)) : Tail(l)[j] = l[j + 1]
  BY <1>1
<1>4. IsList(Tail(l))
  <2> DEFINE m == Tail(l)
             T == {m[k] : k \in 1..Len(m)}
  <2>1. m \in Seq(S)
    BY <1>1, <1>2
  <2>2. \A k \in 1..Len(m) : m[k] \in T
    OBVIOUS
  <2> HIDE DEF m, T
  <2>3. m \in Seq(T)
    BY <2>1, <2>2
  <2> QED
    BY <2>3 DEF IsList, m, T
<1>5. \A j \in 1..Len(l) : /\ l[j].op \in ExitOps /\ l[j].checked = FALSE
                           /\ Frees(l[j].op, "number") <=> j = Len(l)
  BY DEF GivesBack
<1>6. Tail(l) = <<>> <=> Len(l) = 1
  BY <1>1, <1>2
<1> HIDE DEF IsList
<1>7. GivesBack(Tail(l))
  <2> SUFFICES ASSUME NEW j \in 1..Len(Tail(l))
               PROVE  /\ Tail(l)[j].op \in ExitOps /\ Tail(l)[j].checked = FALSE
                      /\ Frees(Tail(l)[j].op, "number") <=> j = Len(Tail(l))
    BY <1>4 DEF GivesBack
  <2>1. j + 1 \in 1..Len(l) /\ (j + 1 = Len(l) <=> j = Len(Tail(l)))
    BY <1>2
  <2> QED
    BY <1>3, <1>5, <2>1
<1>8. /\ l[1].op \in ExitOps /\ l[1].checked = FALSE
      /\ Frees(l[1].op, "number") <=> Tail(l) = <<>>
  <2>1. 1 \in 1..Len(l)
    BY <1>2
  <2>2. /\ l[1].op \in ExitOps /\ l[1].checked = FALSE
        /\ Frees(l[1].op, "number") <=> 1 = Len(l)
    BY <1>5, <2>1
  <2> QED
    BY <1>6, <2>2
<1> QED
  BY <1>2, <1>3, <1>7, <1>8

(* The rest of init after one more statement. *)
LEMMA RestOfInit ==
  ASSUME NEW d, ProgramOK(d), NEW s, Building(d, s), s.todo # <<>>
  PROVE  LET p == Program[d].init
             n == Executed(d, s)
         IN  /\ Len(p) \in Nat /\ n \in Nat /\ n + 1 \in 1..Len(p)
             /\ Head(s.todo) = p[n + 1]
             /\ Tail(s.todo) = SubSeq(p, n + 2, Len(p))
             /\ Len(p) - Len(Tail(s.todo)) = n + 1
<1> DEFINE p == Program[d].init
           n == Executed(d, s)
<1>1. IsList(p)
  BY DEF ProgramOK, InitOrder
<1>2. n \in 0..Len(p) /\ s.todo = SubSeq(p, n + 1, Len(p))
  BY DEF Building
<1> HIDE DEF p, n
<1>3. Len(p) \in Nat
  BY <1>1 DEF IsList
<1>4. PICK q : q = n + 1
  OBVIOUS
<1>5. q \in 1..(Len(p) + 1) /\ s.todo = SubSeq(p, q, Len(p))
  BY <1>2, <1>3, <1>4
<1>6. /\ q \in 1..Len(p)
      /\ Head(s.todo) = p[q]
      /\ Tail(s.todo) = SubSeq(p, q + 1, Len(p))
  BY <1>1, <1>5, RestOfList
<1>7. PICK m : m = q + 1
  OBVIOUS
<1>8. m \in 1..(Len(p) + 1) /\ Tail(s.todo) = SubSeq(p, m, Len(p))
  BY <1>3, <1>6, <1>7
<1>9. Len(Tail(s.todo)) = Len(p) - m + 1
  <2>1. PICK l : l = Tail(s.todo)
    OBVIOUS
  <2>2. l = SubSeq(p, m, Len(p)) /\ m \in 1..(Len(p) + 1)
    BY <1>8, <2>1
  <2>3. Len(l) = Len(p) - m + 1
    BY <1>1, <2>2, RestOfList
  <2> QED
    BY <2>1, <2>3
<1>10. m = n + 2 /\ n \in Nat
  BY <1>2, <1>3, <1>4, <1>7
<1>11. Len(p) - Len(Tail(s.todo)) = n + 1
  <2>1. PICK u : u = Len(Tail(s.todo))
    OBVIOUS
  <2>2. PICK v \in Nat : v = Len(p)
    BY <1>3
  <2>3. u = v - m + 1
    BY <1>9, <2>1, <2>2, Zenon
  <2>4. v - u = n + 1
    BY <1>10, <2>2, <2>3
  <2> QED
    BY <2>1, <2>2, <2>4, Zenon
<1> QED
  BY <1>3, <1>4, <1>6, <1>8, <1>10, <1>11 DEF p, n

-----------------------------------------------------------------------------
(* What a statement does to the driver that executes it. *)

(* A statement of init that succeeds, or fails and is not checked.         *)
InitEffect(d, s, op, t) ==
  /\ t.phase = "init" /\ t.todo = Tail(s.todo) /\ t.files = s.files
  /\ op \in NumberOps => NumberOK(d, t)
  /\ op \notin NumberOps => t.numbers = s.numbers
  /\ t.numbers \subseteq {t.dev}
  /\ op # "alloc" => t.dev = s.dev
  /\ t.dev \in Majors \cup {0} /\ (t.dev = 269 => s.dev = 269)
  /\ s.has \subseteq t.has
  /\ t.has \subseteq s.has \cup {r \in Resources : Gets(op, r)}
  /\ Gets(op, "memory") => "memory" \in t.has
  /\ \/ t.class = s.class
     \/ op = "class" /\ t.class \in {"error", "class"}

(* A statement of init keeps its driver's state in order. *)
LEMMA InitStatement ==
  ASSUME NEW d, ProgramOK(d),
         NEW s, DriverOK(d, s), s.phase = "init", s.todo # <<>>,
         NEW op, op = Head(s.todo).op,
         NEW t, InitEffect(d, s, op, t)
  PROVE  DriverOK(d, t)
<1> DEFINE p == Program[d].init
           n == Executed(d, s)
<1>1. Building(d, s)
  BY DEF DriverOK
<1>2. /\ Len(p) \in Nat /\ n \in Nat /\ n + 1 \in 1..Len(p)
      /\ op = p[n + 1].op
      /\ Tail(s.todo) = SubSeq(p, n + 2, Len(p))
      /\ Len(p) - Len(Tail(s.todo)) = n + 1
  <2>1. Head(s.todo) = p[n + 1]
    BY <1>1, RestOfInit
  <2> QED
    BY <1>1, <2>1, RestOfInit
<1>3. Executed(d, t) = n + 1
  BY <1>2 DEF Executed, InitEffect
<1>4. /\ \A k \in 1..n : /\ p[k].op \in NumberOps => NumberOK(d, s)
                         /\ Gets(p[k].op, "memory") => "memory" \in s.has
      /\ \A r \in Held : Holds(s, r) => \E k \in 1..n : Gets(p[k].op, r)
      /\ \A k \in (n + 1)..Len(p) : p[k].op = "alloc" => s.dev = 0
      /\ s.class # "null" => \E k \in 1..n : p[k].op = "class"
      /\ s.files # {} => \E k \in 1..n, r \in Devices : Gets(p[k].op, r)
  BY <1>1 DEF Building
<1>5. /\ op \in NumberOps => \A j \in 1..n : p[j].op \notin NumberOps
      /\ op = "alloc" => Program[d].major = 0
      /\ op = "class" => d \in Classed
      /\ \A r \in Devices : Gets(op, r) => d \notin {"mmst", "dmmn"}
      /\ Program[d].major = 269 <=> d = "mmst"
  <2>1. \A j \in 1..n : j \in 1..((n + 1) - 1)
    BY <1>2
  <2>2. op \in NumberOps => \A j \in 1..n : p[j].op \notin NumberOps
    BY <1>2, <2>1 DEF ProgramOK, InitOrder
  <2>3. /\ op = "alloc" => Program[d].major = 0
        /\ op = "class" => d \in Classed
    BY <1>2 DEF ProgramOK, InitOrder
  <2>4. \A r \in Devices : Gets(op, r) => d \notin {"mmst", "dmmn"}
    BY <1>2 DEF ProgramOK, DeviceOrder
  <2>5. Program[d].major = 269 <=> d = "mmst"
    BY DEF ProgramOK, Names
  <2> QED
    BY <2>2, <2>3, <2>4, <2>5
<1> HIDE DEF p, n
<1>6. \A k \in 1..(n + 1) : k \in 1..n \/ k = n + 1
  BY <1>2
<1>7. 1..n \subseteq 1..(n + 1) /\ n + 1 \in 1..(n + 1)
  BY <1>2
<1>8. ASSUME NEW k \in 1..(n + 1)
      PROVE  /\ p[k].op \in NumberOps => NumberOK(d, t)
             /\ Gets(p[k].op, "memory") => "memory" \in t.has
  <2>1. CASE k \in 1..n
    <3>1. CASE op \in NumberOps
      BY <1>4, <1>5, <2>1, <3>1 DEF InitEffect
    <3>2. CASE op \notin NumberOps
      <4>1. t.numbers = s.numbers /\ t.dev = s.dev
        BY <3>2 DEF NumberOps, InitEffect
      <4> QED
        BY <1>4, <2>1, <4>1 DEF NumberOK, InitEffect
    <3> QED
      BY <3>1, <3>2
  <2>2. CASE k = n + 1
    BY <1>2, <2>2 DEF InitEffect
  <2> QED
    BY <1>6, <2>1, <2>2
<1>9. ASSUME NEW r \in Held, Holds(t, r)
      PROVE  \E k \in 1..(n + 1) : Gets(p[k].op, r)
  <2>1. CASE Holds(s, r)
    BY <1>4, <1>7, <2>1
  <2>2. CASE ~Holds(s, r)
    <3>1. Gets(op, r)
      <4>1. CASE r = "number"
        BY <1>9, <2>2, <4>1 DEF Holds, Gets, InitEffect
      <4>2. CASE r # "number"
        BY <1>9, <2>2, <4>2 DEF Holds, InitEffect
      <4> QED
        BY <4>1, <4>2
    <3> QED
      BY <1>2, <1>7, <3>1
  <2> QED
    BY <2>1, <2>2
<1>10. ASSUME NEW k \in (n + 2)..Len(p), p[k].op = "alloc"
       PROVE  t.dev = 0
  <2>1. k \in (n + 1)..Len(p) /\ k \in 1..Len(p) /\ n + 1 \in 1..(k - 1)
    BY <1>2
  <2>2. op \notin NumberOps
    BY <1>2, <1>10, <2>1 DEF p, ProgramOK, InitOrder, NumberOps
  <2> QED
    BY <1>4, <1>10, <2>1, <2>2 DEF NumberOps, InitEffect
<1>11. t.class # "null" => \E k \in 1..(n + 1) : p[k].op = "class"
  BY <1>2, <1>4, <1>7 DEF InitEffect
<1>12. t.files # {} => \E k \in 1..(n + 1), r \in Devices : Gets(p[k].op, r)
  BY <1>4, <1>7 DEF InitEffect
<1>13. Building(d, t)
  <2>1. n + 1 \in 0..Len(p) /\ (n + 1) + 1 = n + 2
    BY <1>2
  <2> QED
    BY <1>2, <1>3, <1>8, <1>9, <1>10, <1>11, <1>12, <2>1 DEF Building, p, InitEffect
<1>14. d = "mmst" => t.dev \in {0, 269}
  <2>1. ASSUME d = "mmst" PROVE t.dev = s.dev
    BY <1>5, <2>1 DEF InitEffect
  <2> QED
    BY <2>1 DEF DriverOK
<1>15. t.has \cap Devices # {} => d \notin {"mmst", "dmmn"}
  <2>1. ASSUME NEW r \in Devices, r \in t.has PROVE d \notin {"mmst", "dmmn"}
    <3>1. CASE r \in s.has
      BY <2>1, <3>1 DEF DriverOK
    <3>2. CASE Gets(op, r)
      BY <1>5, <3>2
    <3> QED
      BY <2>1, <3>1, <3>2 DEF InitEffect
  <2> QED
    BY <2>1
<1> QED
  BY <1>5, <1>13, <1>14, <1>15 DEF DriverOK, InitEffect

(* A list is its own rest from statement 1 on. *)
LEMMA WholeList ==
  ASSUME NEW p, IsList(p)
  PROVE  1 \in 1..(Len(p) + 1) /\ p = SubSeq(p, 1, Len(p))
<1>1. PICK S : p \in Seq(S)
  BY DEF IsList
<1>2. PICK m \in Nat : m = Len(p) /\ p \in [1..m -> S]
  BY <1>1
<1>3. SubSeq(p, 1, m) \in [1..m -> S] /\ \A j \in 1..m : SubSeq(p, 1, m)[j] = p[j]
  <2> DEFINE l == SubSeq(p, 1, m)
  <2>1. l \in Seq(S) /\ Len(l) = m
    BY <1>1, <1>2
  <2>2. \A j \in 1..m : l[j] = p[j]
    BY <1>1, <1>2
  <2> HIDE DEF l
  <2>3. l \in [1..m -> S]
    BY <2>1
  <2> QED
    BY <2>2, <2>3 DEF l
<1>4. p = SubSeq(p, 1, m)
  BY <1>2, <1>3
<1>5. 1 \in 1..(m + 1)
  BY <1>2
<1> QED
  BY <1>2, <1>4, <1>5, Zenon

(* The other variables of a driver stay as they are.                       *)
SameHoldings(s, t) ==
  /\ t.dev = s.dev /\ t.class = s.class /\ t.has = s.has
  /\ t.numbers = s.numbers /\ t.files = s.files

(* A checked statement of init fails, and the roll-back begins.            *)
LEMMA FailedStatement ==
  ASSUME NEW d, ProgramOK(d),
         NEW s, DriverOK(d, s), s.phase = "init", s.todo # <<>>, Head(s.todo).checked,
         NEW t, t.phase = "undo", t.todo = Head(s.todo).undo, SameHoldings(s, t)
  PROVE  DriverOK(d, t) /\ t.class = "null"
<1> DEFINE n == Executed(d, s)
           p == Program[d].init
           u == p[n + 1].undo
<1>1. Building(d, s)
  BY DEF DriverOK
<1>2. /\ Len(p) \in Nat /\ n \in Nat /\ n + 1 \in 1..Len(p)
      /\ Head(s.todo) = p[n + 1]
  BY <1>1, RestOfInit
<1>3. /\ \A k \in 1..n : /\ p[k].op \in NumberOps => NumberOK(d, s)
                         /\ Gets(p[k].op, "memory") => "memory" \in s.has
      /\ \A r \in Held : Holds(s, r) => \E k \in 1..n : Gets(p[k].op, r)
      /\ s.class # "null" => \E k \in 1..n : p[k].op = "class"
      /\ s.files # {} => \E k \in 1..n, r \in Devices : Gets(p[k].op, r)
  BY <1>1 DEF Building
<1>4. \A j \in 1..n : j \in 1..((n + 1) - 1) /\ j \in 1..Len(p)
                      /\ n + 1 \in (j + 1)..Len(p) /\ 1..j \subseteq 1..n
                      /\ 1..(j - 1) \subseteq 1..n
  BY <1>2
<1>5. UndoOK(d, u, Before(d, n + 1)) /\ d # "mmst"
      /\ \A j \in 1..n : p[j].op # "class"
  BY <1>2, <1>4 DEF ProgramOK, Undoes, InitOrder
<1>6. \A j \in 1..n : p[j].op \in Before(d, n + 1)
  BY <1>4 DEF Before
<1>7. \A op \in Before(d, n + 1) : \E j \in 1..n : op = p[j].op
  BY <1>2 DEF Before
<1>8. t.todo = u
  BY <1>2
<1>9. u \in Lists(d)
  <2>1. n + 1 \in DOMAIN p
    BY <1>2 DEF ProgramOK, InitOrder, IsList
  <2> QED
    BY <2>1 DEF Lists
<1>10. \A k \in 1..n, r \in Devices :
         Gets(p[k].op, r) =>
           /\ d \in FailsAfterDevice
           /\ d \notin DeviceFirst => "memory" \in s.has
  <2> SUFFICES ASSUME NEW k \in 1..n, NEW r \in Devices, Gets(p[k].op, r)
               PROVE  /\ d \in FailsAfterDevice
                      /\ d \notin DeviceFirst => "memory" \in s.has
    OBVIOUS
  <2>1. /\ k \in 1..Len(p) /\ n + 1 \in (k + 1)..Len(p) /\ p[n + 1].checked
        /\ 1..(k - 1) \subseteq 1..n
    BY <1>2, <1>4
  <2>2. d \in FailsAfterDevice
    BY <2>1 DEF ProgramOK, DeviceOrder
  <2>3. d \notin DeviceFirst => \E j \in 1..(k - 1) : Gets(p[j].op, "memory")
    BY <2>1 DEF ProgramOK, DeviceOrder
  <2> QED
    BY <1>3, <2>1, <2>2, <2>3
<1>11. Exposed(s) => \E k \in 1..n, r \in Devices : Gets(p[k].op, r)
  <2>1. ASSUME NEW r \in Devices, r \in s.has
        PROVE  \E k \in 1..n : Gets(p[k].op, r)
    <3>1. r \in Held /\ Holds(s, r)
      BY <2>1 DEF Devices, Held, Resources, Holds
    <3> QED
      BY <1>3, <3>1
  <2> QED
    BY <1>3, <2>1 DEF Exposed
<1>12. /\ t.dev = s.dev /\ t.class = s.class /\ t.has = s.has
       /\ t.numbers = s.numbers /\ t.files = s.files
  BY DEF SameHoldings
<1>13. NumberOK(d, s) => NumberOK(d, t)
  BY <1>12 DEF NumberOK
<1>14. \A r : Holds(t, r) => Holds(s, r)
  BY <1>12 DEF Holds
<1>15. Exposed(t) => Exposed(s)
  BY <1>12 DEF Exposed
<1> HIDE DEF n, p, u
<1>16. \E q \in Lists(d) :
         IsList(q) /\ \E i \in 1..(Len(q) + 1) : t.todo = SubSeq(q, i, Len(q))
  <2>1. IsList(u)
    BY <1>5 DEF UndoOK, GivesBack
  <2> QED
    BY <1>8, <1>9, <2>1, WholeList
<1>17. t.todo # <<>> => NumberOK(d, t)
  BY <1>3, <1>5, <1>7, <1>8, <1>13 DEF UndoOK
<1>18. ASSUME NEW r \in Held, Holds(t, r)
       PROVE  \/ r = "memory"
              \/ r = "cdev_1" /\ d = "multi2" /\ t.phase = "undo"
              \/ \E i \in 1..Len(t.todo) : Frees(t.todo[i].op, r)
  <2>1. PICK k \in 1..n : Gets(p[k].op, r)
    BY <1>3, <1>14, <1>18
  <2> QED
    BY <1>5, <1>6, <1>8, <2>1 DEF UndoOK
<1>19. Releasing(d, t)
  <2>1. GivesBack(t.todo) /\ \A i \in 1..Len(t.todo) : t.todo[i].op # "kfree"
    BY <1>5, <1>8 DEF UndoOK
  <2>2. Exposed(t) => d \in FailsAfterDevice
    BY <1>10, <1>11, <1>15
  <2>3. Exposed(t) /\ d \notin DeviceFirst => "memory" \in t.has
    BY <1>10, <1>11, <1>12, <1>15
  <2> QED
    BY <1>5, <1>16, <1>17, <1>18, <2>1, <2>2, <2>3 DEF Releasing
<1> QED
  BY <1>3, <1>5, <1>12, <1>19 DEF DriverOK

(* A statement that releases.                                              *)
ReleaseEffect(s, op, t) ==
  /\ t.phase = s.phase /\ t.todo = Tail(s.todo)
  /\ t.dev = s.dev /\ t.class = s.class /\ t.files = s.files
  /\ t.has = {r \in s.has : ~Frees(op, r)}
  /\ t.numbers = IF Frees(op, "number") THEN {} ELSE s.numbers

(* A statement of a roll-back or of exit keeps its driver's state in       *)
(* order.                                                                  *)
LEMMA ReleaseStatement ==
  ASSUME NEW d,
         NEW s, DriverOK(d, s), s.phase \in {"undo", "exit"}, s.todo # <<>>,
         NEW op, op = Head(s.todo).op,
         NEW t, ReleaseEffect(s, op, t)
  PROVE  DriverOK(d, t)
<1>1. Releasing(d, s)
  BY DEF DriverOK
<1>2. GivesBack(s.todo)
  BY <1>1 DEF Releasing
<1>3. /\ Len(s.todo) \in Nat \ {0} /\ op = s.todo[1].op
      /\ Len(Tail(s.todo)) = Len(s.todo) - 1
      /\ \A j \in 1..Len(Tail(s.todo)) : Tail(s.todo)[j] = s.todo[j + 1]
      /\ GivesBack(Tail(s.todo))
      /\ Frees(op, "number") <=> Tail(s.todo) = <<>>
  BY <1>2, RestOfRelease
<1>4. /\ t.phase = s.phase /\ t.todo = Tail(s.todo)
      /\ t.dev = s.dev /\ t.class = s.class /\ t.files = s.files
      /\ t.has = {r \in s.has : ~Frees(op, r)}
      /\ t.numbers = IF Frees(op, "number") THEN {} ELSE s.numbers
  BY DEF ReleaseEffect
<1>5. \E p \in Lists(d) :
         IsList(p) /\ \E i \in 1..(Len(p) + 1) : t.todo = SubSeq(p, i, Len(p))
  <2>0. PICK p \in Lists(d) :
          IsList(p) /\ \E i \in 1..(Len(p) + 1) : s.todo = SubSeq(p, i, Len(p))
    BY <1>1 DEF Releasing
  <2>1. PICK i \in 1..(Len(p) + 1) : s.todo = SubSeq(p, i, Len(p))
    BY <2>0
  <2>2. PICK l : l = s.todo
    OBVIOUS
  <2>3. Len(p) \in Nat /\ i \in 1..Len(p) /\ Tail(l) = SubSeq(p, i + 1, Len(p))
    BY <2>0, <2>1, <2>2, RestOfList
  <2>4. i + 1 \in 1..(Len(p) + 1)
    BY <2>3
  <2> QED
    BY <1>4, <2>0, <2>2, <2>3, <2>4
<1>6. t.todo # <<>> => NumberOK(d, t)
  <2>1. NumberOK(d, s)
    BY <1>1 DEF Releasing
  <2> QED
    BY <1>3, <1>4, <2>1 DEF NumberOK
<1>7. \A r \in Held : Holds(t, r) => Holds(s, r) /\ ~Frees(op, r)
  BY <1>4 DEF Holds
<1>8. ASSUME NEW r \in Held, Holds(t, r)
      PROVE  \/ r = "memory"
             \/ r = "cdev_1" /\ d = "multi2" /\ t.phase = "undo"
             \/ \E i \in 1..Len(t.todo) : Frees(t.todo[i].op, r)
  <2>1. ASSUME NEW i \in 1..Len(s.todo), Frees(s.todo[i].op, r)
        PROVE  \E j \in 1..Len(t.todo) : Frees(t.todo[j].op, r)
    <3>1. i # 1
      BY <1>3, <1>7, <1>8, <2>1
    <3>2. i - 1 \in 1..Len(t.todo) /\ (i - 1) + 1 = i
      BY <1>3, <1>4, <3>1
    <3> QED
      BY <1>3, <1>4, <2>1, <3>2
  <2> QED
    BY <1>1, <1>4, <1>7, <1>8, <2>1 DEF Releasing
<1>9. ASSUME t.phase = "undo"
      PROVE  /\ d # "mmst"
             /\ \A i \in 1..Len(t.todo) : t.todo[i].op # "kfree"
             /\ Exposed(t) => d \in FailsAfterDevice
             /\ Exposed(t) /\ d \notin DeviceFirst => "memory" \in t.has
  <2>1. /\ d # "mmst"
        /\ \A i \in 1..Len(s.todo) : s.todo[i].op # "kfree"
        /\ Exposed(s) => d \in FailsAfterDevice
        /\ Exposed(s) /\ d \notin DeviceFirst => "memory" \in s.has
    BY <1>1, <1>4, <1>9 DEF Releasing
  <2>2. Exposed(t) => Exposed(s)
    BY <1>4 DEF Exposed
  <2>3. 1 \in 1..Len(s.todo) /\ \A i \in 1..Len(t.todo) : i + 1 \in 1..Len(s.todo)
    BY <1>3, <1>4
  <2>4. ~Frees(op, "memory")
    BY <1>3, <2>1, <2>3 DEF Frees
  <2>5. \A i \in 1..Len(t.todo) : t.todo[i].op # "kfree"
    BY <1>3, <1>4, <2>1, <2>3
  <2> QED
    BY <1>4, <2>1, <2>2, <2>4, <2>5
<1>10. t.phase = "exit" => t.files = {}
  BY <1>1, <1>4 DEF Releasing
<1>11. Releasing(d, t)
  BY <1>3, <1>4, <1>5, <1>6, <1>8, <1>9, <1>10 DEF Releasing
<1>12. t.numbers \subseteq {t.dev} /\ t.has \subseteq s.has
  BY <1>4 DEF DriverOK
<1> QED
  BY <1>4, <1>11, <1>12 DEF DriverOK

(* The kernel kills the process that runs a statement.                     *)
LEMMA OopsedStatement ==
  ASSUME NEW d, ProgramOK(d),
         NEW s, DriverOK(d, s), s.phase \in {"init", "undo", "exit"}, s.todo # <<>>,
         NEW op, op = Head(s.todo).op,
         \/ s.phase = "init" /\ op = "thread"
         \/ s.phase \in {"undo", "exit"} /\ s.class = "error",
         NEW t, t.phase = "oopsed", t.todo = <<>>, SameHoldings(s, t)
  PROVE  DriverOK(d, t) /\ d \in Classed
<1>1. d \in Classed /\ NumberOK(d, s)
  <2>1. CASE s.phase = "init" /\ op = "thread"
    <3> DEFINE n == Executed(d, s)
               p == Program[d].init
    <3>1. Building(d, s)
      BY <2>1 DEF DriverOK
    <3>2. n \in Nat /\ n + 1 \in 1..Len(p) /\ op = p[n + 1].op
      BY <3>1, RestOfInit
    <3>3. d \in Classed /\ \E j \in 1..((n + 1) - 1) : p[j].op \in NumberOps
      BY <2>1, <3>2 DEF ProgramOK, InitOrder
    <3>4. \A j \in 1..((n + 1) - 1) : j \in 1..n
      BY <3>2
    <3>5. \A j \in 1..n : p[j].op \in NumberOps => NumberOK(d, s)
      BY <3>1 DEF Building
    <3> QED
      BY <3>3, <3>4, <3>5
  <2>2. CASE s.phase \in {"undo", "exit"} /\ s.class = "error"
    BY <2>2 DEF DriverOK, Releasing
  <2> QED
    BY <2>1, <2>2
<1>2. s.dev \in s.numbers
  BY <1>1 DEF NumberOK, Classed
<1> QED
  BY <1>1, <1>2 DEF DriverOK, SameHoldings

(* insmod begins with nothing held and init to execute. *)
LEMMA InsertedDriver ==
  ASSUME NEW d, ProgramOK(d),
         NEW s, DriverOK(d, s), s.phase = "absent", s.has = {}, s.files = {},
         NEW t, t.phase = "init", t.todo = Program[d].init, t.dev = Program[d].major,
         t.class = "null", t.has = s.has, t.numbers = s.numbers, t.files = s.files
  PROVE  DriverOK(d, t)
<1> DEFINE p == Program[d].init
<1>1. Len(p) \in Nat /\ p = SubSeq(p, 1, Len(p)) /\ IsList(p)
  BY WholeList DEF ProgramOK, InitOrder, IsList
<1>2. Executed(d, t) = 0
  BY <1>1 DEF Executed
<1>3. /\ Program[d].major \in {0, 240, 269}
      /\ Program[d].major = 269 <=> d = "mmst"
      /\ \A k \in 1..Len(p) : p[k].op = "alloc" => Program[d].major = 0
  BY DEF ProgramOK, InitOrder, Names
<1>4. t.numbers = {} /\ t.has = {} /\ t.files = {}
  BY DEF DriverOK
<1> HIDE DEF p
<1>5. Building(d, t)
  <2>1. 0 \in 0..Len(p) /\ 0 + 1 = 1 /\ 1..0 = {}
    BY <1>1
  <2>2. \A r : ~Holds(t, r)
    BY <1>4 DEF Holds
  <2> QED
    BY <1>1, <1>2, <1>3, <1>4, <2>1, <2>2 DEF Building, p
<1> QED
  BY <1>3, <1>4, <1>5 DEF DriverOK, Majors, StaticMajors

(* Once init is over, all its statements have been executed.               *)
LEMMA Completed ==
  ASSUME NEW d, ProgramOK(d), NEW s, Building(d, s), s.todo = <<>>
  PROVE  Executed(d, s) = Len(Program[d].init) /\ Len(Program[d].init) \in Nat
BY DEF Executed, ProgramOK, InitOrder, IsList

(* rmmod: exit gives back what the whole of init acquired. *)
LEMMA RemovedDriver ==
  ASSUME NEW d, ProgramOK(d),
         NEW s, DriverOK(d, s), s.phase = "live", s.files = {},
         NEW t, t.phase = "exit", t.todo = Program[d].exit, SameHoldings(s, t)
  PROVE  DriverOK(d, t)
<1> DEFINE p == Program[d].init
           x == Program[d].exit
           N == Len(p)
<1>1. Building(d, s) /\ s.todo = <<>>
  BY DEF DriverOK
<1>2. Executed(d, s) = N
  BY <1>1, Completed
<1>3. /\ \A k \in 1..N : p[k].op \in NumberOps => NumberOK(d, s)
      /\ \A r \in Held : Holds(s, r) => \E k \in 1..N : Gets(p[k].op, r)
  BY <1>1, <1>2 DEF Building
<1>4. /\ GivesBack(x)
      /\ x # <<>> => \E k \in 1..N : p[k].op \in NumberOps
      /\ \A k \in 1..N, r \in Held :
           Gets(p[k].op, r) =>
             r = "memory" \/ \E i \in 1..Len(x) : Frees(x[i].op, r)
  BY DEF ProgramOK, Exits
<1>5. x \in Lists(d)
  BY DEF Lists
<1> HIDE DEF p, x, N
<1>6. IsList(x) /\ 1 \in 1..(Len(x) + 1) /\ x = SubSeq(x, 1, Len(x))
  BY <1>4, WholeList DEF GivesBack
<1>7. /\ t.dev = s.dev /\ t.class = s.class /\ t.has = s.has
      /\ t.numbers = s.numbers /\ t.files = s.files /\ t.todo = x
  BY DEF SameHoldings, x
<1>8. NumberOK(d, s) => NumberOK(d, t)
  BY <1>7 DEF NumberOK
<1>9. \A r : Holds(t, r) => Holds(s, r)
  BY <1>7 DEF Holds
<1>10. Releasing(d, t)
  BY <1>3, <1>4, <1>5, <1>6, <1>7, <1>8, <1>9 DEF Releasing
<1> QED
  BY <1>7, <1>10 DEF DriverOK

(* At the end of init a driver is live, at the end of the others it has    *)
(* gone.                                                                   *)
LEMMA ReturnedDriver ==
  ASSUME NEW d, ProgramOK(d),
         NEW s, DriverOK(d, s), s.phase \in {"init", "undo", "exit"}, s.todo = <<>>,
         NEW t, t.phase = (IF s.phase = "init" THEN "live" ELSE "absent"),
         t.has = (IF s.phase = "init" THEN s.has ELSE s.has \ {"memory"}),
         t.todo = s.todo, t.dev = s.dev, t.class = s.class,
         t.numbers = s.numbers, t.files = s.files
  PROVE  DriverOK(d, t)
<1>1. CASE s.phase = "init"
  <2>1. Building(d, s)
    BY <1>1 DEF DriverOK
  <2>2. t.has = s.has /\ t.phase = "live"
    BY <1>1
  <2>3. Executed(d, t) = Executed(d, s)
    BY DEF Executed
  <2>4. NumberOK(d, s) => NumberOK(d, t)
    BY DEF NumberOK
  <2>5. \A r : Holds(t, r) => Holds(s, r)
    BY <2>2 DEF Holds
  <2>6. Building(d, t)
    BY <2>1, <2>2, <2>3, <2>4, <2>5 DEF Building
  <2> QED
    BY <2>2, <2>6 DEF DriverOK
<1>2. CASE s.phase \in {"undo", "exit"}
  <2>1. Releasing(d, s)
    BY <1>2 DEF DriverOK
  <2>2. t.has = s.has \ {"memory"} /\ t.phase = "absent"
    BY <1>2
  <2>3. 1..Len(s.todo) = {}
    OBVIOUS
  <2>4. \A r \in Held : Holds(s, r) =>
          r = "memory" \/ (r = "cdev_1" /\ d = "multi2" /\ s.phase = "undo")
    BY <2>1, <2>3 DEF Releasing
  <2>5. t.numbers = {}
    <3>1. "number" \in Held
      BY DEF Held
    <3> QED
      BY <2>4, <3>1 DEF Holds
  <2>6. t.has \subseteq (IF d = "multi2" THEN {"cdev_1"} ELSE {})
    <3>1. ASSUME NEW r \in t.has PROVE d = "multi2" /\ r = "cdev_1"
      <4>1. r \in s.has /\ r # "memory" /\ r \in Resources
        BY <2>2, <3>1 DEF DriverOK
      <4>2. r \in Held /\ Holds(s, r)
        BY <4>1 DEF Held, Holds, Resources
      <4> QED
        BY <2>4, <4>1, <4>2
    <3> QED
      BY <3>1
  <2>7. t.files # {} => d \in FailsAfterDevice
    BY <1>2, <2>1 DEF Releasing, Exposed
  <2>8. t.has \subseteq s.has
    BY <2>2
  <2> QED
    BY <2>2, <2>5, <2>6, <2>7, <2>8 DEF DriverOK
<1> QED
  BY <1>1, <1>2

(* A file is opened or closed.                                             *)
LEMMA OpenedDriver ==
  ASSUME NEW d, ProgramOK(d),
         NEW s, DriverOK(d, s), s.phase \in Loaded,
         NEW t, t.files # {} => Exposed(s),
         t.phase = s.phase, t.todo = s.todo, t.dev = s.dev, t.class = s.class,
         t.has = s.has, t.numbers = s.numbers
  PROVE  DriverOK(d, t)
<1>1. NumberOK(d, s) => NumberOK(d, t)
  BY DEF NumberOK
<1>2. \A r : Holds(t, r) => Holds(s, r)
  BY DEF Holds
<1>3. Executed(d, t) = Executed(d, s)
  BY DEF Executed
<1>4. ASSUME s.phase \in {"init", "live"} PROVE Building(d, t)
  <2>1. Building(d, s)
    BY <1>4 DEF DriverOK
  <2> DEFINE n == Executed(d, s)
             p == Program[d].init
  <2>2. /\ \A r \in Held : Holds(s, r) => \E k \in 1..n : Gets(p[k].op, r)
        /\ s.files # {} => \E k \in 1..n, r \in Devices : Gets(p[k].op, r)
    BY <2>1 DEF Building
  <2>3. \A r \in Devices : r \in s.has => r \in Held /\ Holds(s, r)
    BY DEF Devices, Held, Holds, Resources
  <2> HIDE DEF n, p
  <2>4. t.files # {} => \E k \in 1..n, r \in Devices : Gets(p[k].op, r)
    BY <2>2, <2>3 DEF Exposed
  <2> QED
    BY <1>1, <1>2, <1>3, <2>1, <2>4 DEF Building, n, p
<1>5. ASSUME s.phase = "undo" PROVE Releasing(d, t)
  <2>1. Releasing(d, s)
    BY <1>5 DEF DriverOK
  <2>2. Exposed(t) => Exposed(s)
    BY DEF Exposed
  <2> QED
    BY <1>1, <1>2, <1>5, <2>1, <2>2 DEF Releasing
<1> QED
  BY <1>4, <1>5 DEF DriverOK, Loaded

-----------------------------------------------------------------------------
(* Where a statement can stand. *)
LEMMA StatementPhase ==
  ASSUME NEW d, ProgramOK(d), NEW s, DriverOK(d, s), s.todo # <<>>,
         NEW op, op = Head(s.todo).op
  PROVE  \/ s.phase = "init" /\ op \in InitOps
         \/ s.phase \in {"undo", "exit"} /\ op \in ExitOps /\ Head(s.todo).checked = FALSE
<1>1. CASE s.phase = "init"
  <2>1. Building(d, s)
    BY <1>1 DEF DriverOK
  <2>2. \E k \in 1..Len(Program[d].init) : op = Program[d].init[k].op
    BY <2>1, RestOfInit
  <2> QED
    BY <1>1, <2>2 DEF ProgramOK, InitOrder
<1>2. CASE s.phase \in {"undo", "exit"}
  <2>1. GivesBack(s.todo)
    BY <1>2 DEF DriverOK, Releasing
  <2> QED
    BY <1>2, <2>1, RestOfRelease
<1> QED
  BY <1>1, <1>2 DEF DriverOK

(* A statement for the number is init's first of that kind, and the class  *)
(* is created once.                                                        *)
LEMMA FirstOfItsKind ==
  ASSUME NEW d, ProgramOK(d), NEW s, DriverOK(d, s), s.phase = "init", s.todo # <<>>,
         NEW op, op = Head(s.todo).op
  PROVE  /\ op \in NumberOps =>
              /\ s.numbers = {}
              /\ Head(s.todo).checked \/ d = "mmst" \/ (d \in {"dmmn", "ioctldev"} /\ s.dev = 0)
         /\ op = "alloc" => s.dev = 0
         /\ op = "class" => d \in Classed /\ s.class = "null" /\ ~Head(s.todo).checked
         /\ op = "thread" => d \in Classed
         /\ op = "class_lost" => d = "timers"
         /\ op = "call_add" => d = "test"
<1> DEFINE n == Executed(d, s)
           p == Program[d].init
<1>1. Building(d, s)
  BY DEF DriverOK
<1>2. /\ Len(p) \in Nat /\ n \in Nat /\ n + 1 \in 1..Len(p)
      /\ Head(s.todo) = p[n + 1] /\ op = p[n + 1].op
  BY <1>1, RestOfInit
<1>3. \A j \in 1..n : j \in 1..((n + 1) - 1)
  BY <1>2
<1>4. /\ op \in NumberOps =>
           /\ \A j \in 1..n : p[j].op \notin NumberOps
           /\ \/ Head(s.todo).checked
              \/ d = "mmst"
              \/ d \in {"dmmn", "ioctldev"} /\ op = "alloc"
      /\ op = "class" => \A j \in 1..n : p[j].op # "class"
  BY <1>2, <1>3 DEF ProgramOK, InitOrder
<1>5. /\ op \in {"class", "thread"} => d \in Classed /\ ~Head(s.todo).checked
      /\ op = "class_lost" => d = "timers"
      /\ op = "call_add" => d = "test"
  BY <1>2 DEF ProgramOK, InitOrder
<1>6. /\ Holds(s, "number") => \E k \in 1..n : Gets(p[k].op, "number")
      /\ s.class # "null" => \E k \in 1..n : p[k].op = "class"
      /\ \A k \in (n + 1)..Len(p) : p[k].op = "alloc" => s.dev = 0
  BY <1>1 DEF Building, Held
<1>7. n + 1 \in (n + 1)..Len(p)
  BY <1>2
<1> HIDE DEF n, p
<1>8. op = "alloc" => s.dev = 0
  BY <1>2, <1>6, <1>7
<1>9. op \in NumberOps => s.numbers = {}
  BY <1>4, <1>6 DEF Holds, Gets
<1>10. op = "class" => s.class = "null"
  BY <1>4, <1>6
<1> QED
  BY <1>4, <1>5, <1>8, <1>9, <1>10

-----------------------------------------------------------------------------
(* The other drivers. *)
Elsewhere(d) == \A e \in Drivers \ {d} : Own(e)' = Own(e)

(* A step of one driver preserves the invariant when it leaves the others  *)
(* alone, and the shared parts are looked after.                           *)
LEMMA StepRule ==
  ASSUME IInv, NEW d \in present, Elsewhere(d), DriverOK(d, Own(d))',
         Shapes', AddStays', present' = present,
         Keeps(d, Own(d)) => Keeps(d, Own(d))' \/ Program[d].class \notin classes',
         \A c \in classes' \ classes :
           \/ c = "dr_class" /\ d = "timers"
           \/ Program[d].class = c /\ Keeps(d, Own(d))'
  PROVE  IInv'
<1>1. ASSUME NEW e \in Drivers PROVE DriverOK(e, Own(e))'
  <2>1. CASE e = d
    BY <2>1
  <2>2. CASE e # d
    <3>1. Own(e)' = Own(e) /\ DriverOK(e, Own(e))
      BY <2>2 DEF Elsewhere, IInv
    <3> QED
      BY <3>1
  <2> QED
    BY <2>1, <2>2
<1>2. ASSUME NEW c \in classes', ~(c = "dr_class" /\ "timers" \in present')
      PROVE  \E e \in present' : Program[e].class = c /\ Keeps(e, Own(e))'
  <2>1. CASE c \in classes
    <3>1. PICK e \in present : Program[e].class = c /\ Keeps(e, Own(e))
      BY <1>2, <2>1 DEF IInv, ClassesOK
    <3>2. CASE e = d
      BY <1>2, <3>1, <3>2
    <3>3. CASE e # d
      <4>1. Own(e)' = Own(e)
        BY <3>1, <3>3 DEF Elsewhere, IInv, Shapes
      <4>2. Keeps(e, Own(e))'
        BY <3>1, <4>1 DEF Keeps
      <4> QED
        BY <3>1, <4>2
    <3> QED
      BY <3>2, <3>3
  <2>2. CASE c \notin classes
    BY <1>2, <2>2
  <2> QED
    BY <2>1, <2>2
<1> QED
  BY <1>1, <1>2 DEF IInv, ClassesOK

(* A statement moves its driver on in one of four ways. *)
Executes(d, op) ==
  \/ /\ phase[d] = "init"
     /\ InitEffect(d, Own(d), op, Own(d)')
  \/ /\ phase[d] = "init" /\ Head(todo[d]).checked
     /\ phase'[d] = "undo" /\ todo'[d] = Head(todo[d]).undo
     /\ SameHoldings(Own(d), Own(d)')
  \/ /\ phase[d] \in {"undo", "exit"}
     /\ ReleaseEffect(Own(d), op, Own(d)')
  \/ /\ \/ phase[d] = "init" /\ op = "thread"
        \/ phase[d] \in {"undo", "exit"} /\ dev_class[d] = "error"
     /\ phase'[d] = "oopsed" /\ todo'[d] = <<>>
     /\ SameHoldings(Own(d), Own(d)')

(* A statement of d that leaves the other drivers' holdings alone, and     *)
(* their classes, keeps the invariant.                                     *)
LEMMA StatementRule ==
  ASSUME IInv, NEW d \in present, NEW op, At(d, op),
         Executes(d, op), Elsewhere(d), Shapes', present' = present,
         \A c \in classes' \ classes :
           \/ c = "dr_class" /\ d = "timers"
           \/ op = "class" /\ Program[d].class = c /\ dev_class'[d] = "class",
         op = "del_class" /\ dev_class[d] = "class" => Program[d].class \notin classes'
  PROVE  IInv'
<1> DEFINE s == Own(d)
           t == Own(d)'
<1>1. d \in Drivers /\ ProgramOK(d) /\ DriverOK(d, s)
  BY ProgramFacts DEF IInv, Shapes
<1>2. /\ s.phase = phase[d] /\ s.todo = todo[d] /\ s.class = dev_class[d]
      /\ t.phase = phase'[d] /\ t.todo = todo'[d] /\ t.class = dev_class'[d]
      /\ s.todo # <<>> /\ op = Head(s.todo).op
  BY DEF Own, At
<1> HIDE DEF s, t
<1>3. \/ s.phase = "init" /\ op \in InitOps
      \/ s.phase \in {"undo", "exit"} /\ op \in ExitOps
  BY <1>1, <1>2, StatementPhase
<1>4. AddStays'
  <2>1. phase[d] # "absent" /\ phase[d] # "live"
    BY <1>2, <1>3
  <2>2. "add" \in Drivers /\ "test" \in Drivers
    BY DriverNames
  <2>3. \A e \in Drivers \ {d} : phase'[e] = phase[e]
    BY DEF Elsewhere, Own
  <2>4. phase["test"] # "absent" => phase["add"] = "live"
    BY DEF IInv, AddStays
  <2> QED
    BY <2>1, <2>2, <2>3, <2>4 DEF AddStays
<1>5. CASE s.phase = "init" /\ InitEffect(d, s, op, t)
  <2>1. DriverOK(d, t)
    BY <1>1, <1>2, <1>5, InitStatement
  <2>2. op = "class" => d \in Classed /\ s.class = "null"
    BY <1>1, <1>2, <1>5, FirstOfItsKind
  <2>3. t.phase = "init" /\ (t.class = s.class \/ op = "class")
    BY <1>5 DEF InitEffect
  <2>4. Keeps(d, s) => Keeps(d, t)
    BY <2>2, <2>3 DEF Keeps
  <2>5. op = "class" /\ t.class = "class" => Keeps(d, t)
    BY <2>2, <2>3 DEF Keeps
  <2> QED
    BY <1>2, <1>4, <2>1, <2>4, <2>5, StepRule DEF s, t
<1>6. CASE /\ s.phase = "init" /\ Head(s.todo).checked
           /\ t.phase = "undo" /\ t.todo = Head(s.todo).undo /\ SameHoldings(s, t)
  <2>1. DriverOK(d, t) /\ s.class = "null" /\ t.class = "null"
    BY <1>1, <1>2, <1>6, FailedStatement DEF SameHoldings
  <2>2. ~Keeps(d, s)
    BY <2>1 DEF Keeps
  <2> QED
    BY <1>2, <1>4, <2>1, <2>2, StepRule DEF s, t
<1>7. CASE s.phase \in {"undo", "exit"} /\ ReleaseEffect(s, op, t)
  <2>1. DriverOK(d, t)
    BY <1>1, <1>2, <1>7, ReleaseStatement
  <2>2. op # "class"
    BY <1>3, <1>7 DEF ExitOps
  <2>3. ASSUME Keeps(d, s), op # "del_class" PROVE Keeps(d, t)
    <3>1. GivesBack(s.todo)
      BY <1>1, <1>7 DEF DriverOK, Releasing
    <3>2. /\ Len(s.todo) \in Nat \ {0} /\ op = s.todo[1].op
          /\ Len(Tail(s.todo)) = Len(s.todo) - 1
          /\ \A j \in 1..Len(Tail(s.todo)) : Tail(s.todo)[j] = s.todo[j + 1]
      BY <1>2, <3>1, RestOfRelease
    <3>3. PICK i \in 1..Len(s.todo) : s.todo[i].op = "del_class"
      BY <1>7, <2>3 DEF Keeps
    <3>4. i - 1 \in 1..Len(Tail(s.todo)) /\ (i - 1) + 1 = i
      BY <2>3, <3>2, <3>3
    <3>5. t.phase = s.phase /\ t.class = s.class /\ t.todo = Tail(s.todo)
      BY <1>7 DEF ReleaseEffect
    <3> QED
      BY <1>7, <2>3, <3>2, <3>3, <3>4, <3>5 DEF Keeps
  <2>4. Keeps(d, s) => s.class = "class"
    BY DEF Keeps
  <2> QED
    BY <1>2, <1>4, <2>1, <2>2, <2>3, <2>4, StepRule DEF s, t
<1>8. CASE /\ \/ s.phase = "init" /\ op = "thread"
              \/ s.phase \in {"undo", "exit"} /\ s.class = "error"
           /\ t.phase = "oopsed" /\ t.todo = <<>> /\ SameHoldings(s, t)
  <2>1. DriverOK(d, t)
    BY <1>1, <1>2, <1>8, OopsedStatement
  <2>2. Keeps(d, s) => Keeps(d, t)
    BY <1>8 DEF Keeps, SameHoldings
  <2>3. op # "class"
    BY <1>3, <1>8 DEF ExitOps
  <2> QED
    BY <1>2, <1>4, <2>1, <2>2, <2>3, StepRule DEF s, t
<1> QED
  BY <1>2, <1>5, <1>6, <1>7, <1>8 DEF Executes, s, t

-----------------------------------------------------------------------------
(* What a driver knows when it comes to a statement. *)
LEMMA AtStatement ==
  ASSUME IInv, NEW d \in present, NEW op, At(d, op)
  PROVE  /\ Shapes /\ d \in Drivers /\ todo[d] # <<>> /\ op = Head(todo[d]).op
         /\ op \in InitOps => phase[d] = "init"
         /\ op \in ExitOps => /\ phase[d] \in {"undo", "exit"} /\ NumberOK(d, Own(d))
                               /\ Head(todo[d]).checked = FALSE
<1>1. Shapes /\ d \in Drivers /\ ProgramOK(d) /\ DriverOK(d, Own(d))
  BY ProgramFacts DEF IInv, Shapes
<1> DEFINE s == Own(d)
<1>2. /\ s.phase = phase[d] /\ s.todo = todo[d]
      /\ s.todo # <<>> /\ op = Head(s.todo).op
  BY DEF Own, At
<1> HIDE DEF s
<1>3. \/ s.phase = "init" /\ op \in InitOps
      \/ s.phase \in {"undo", "exit"} /\ op \in ExitOps /\ Head(s.todo).checked = FALSE
  BY <1>1, <1>2, StatementPhase DEF s
<1>4. InitOps \cap ExitOps = {}
  BY DEF InitOps, ExitOps, NumberOps
<1>5. s.phase \in {"undo", "exit"} => NumberOK(d, s)
  BY <1>1, <1>2 DEF DriverOK, Releasing, s
<1> QED
  BY <1>1, <1>2, <1>3, <1>4, <1>5 DEF s

(* A driver is registered under its own number only. *)
LEMMA OwnNumber ==
  ASSUME IInv, NEW d \in Drivers
  PROVE  /\ \A m \in Majors : registry[m] = d => m = dev[d]
         /\ dev[d] \in Majors \cup {0}
         /\ dev[d] = 269 => d = "mmst"
         /\ d = "mmst" => dev[d] \in {0, 269} /\ phase[d] # "undo"
<1> DEFINE s == Own(d)
<1>1. /\ s.phase = phase[d] /\ s.dev = dev[d]
      /\ s.numbers = {m \in Majors : registry[m] = d}
  BY DEF Own
<1>2. DriverOK(d, s)
  BY DEF IInv
<1> HIDE DEF s
<1>3. s.numbers \subseteq {s.dev} /\ s.dev \in Majors \cup {0}
  BY <1>2 DEF DriverOK
<1>4. /\ s.dev = 269 => d = "mmst"
      /\ d = "mmst" => s.dev \in {0, 269} /\ s.phase # "undo"
  BY <1>2 DEF DriverOK, Releasing
<1> QED
  BY <1>1, <1>3, <1>4

(* At its statement for the number, or for the class, a driver has none    *)
(* yet.                                                                    *)
LEMMA AtFirst ==
  ASSUME IInv, NEW d \in present, NEW op \in InitOps, At(d, op)
  PROVE  /\ op \in NumberOps =>
              /\ \A m \in Majors : registry[m] # d
              /\ \/ Head(todo[d]).checked
                 \/ d = "mmst"
                 \/ d \in {"dmmn", "ioctldev"} /\ dev[d] = 0
         /\ op = "alloc" => dev[d] = 0
         /\ op = "class" => /\ d \in Classed /\ dev_class[d] = "null"
                            /\ ~Head(todo[d]).checked
         /\ op = "thread" => d \in Classed
         /\ op = "class_lost" => d = "timers"
         /\ op = "call_add" => d = "test"
<1>1. ProgramOK(d) /\ DriverOK(d, Own(d)) /\ phase[d] = "init"
  BY ProgramFacts, AtStatement DEF IInv
<1> DEFINE s == Own(d)
<1>2. /\ s.phase = phase[d] /\ s.todo = todo[d] /\ s.dev = dev[d] /\ s.class = dev_class[d]
      /\ s.numbers = {m \in Majors : registry[m] = d}
      /\ s.todo # <<>> /\ op = Head(s.todo).op
  BY DEF Own, At
<1> HIDE DEF s
<1>3. /\ op \in NumberOps =>
           /\ s.numbers = {}
           /\ \/ Head(s.todo).checked
              \/ d = "mmst"
              \/ d \in {"dmmn", "ioctldev"} /\ s.dev = 0
      /\ op = "alloc" => s.dev = 0
      /\ op = "class" => d \in Classed /\ s.class = "null" /\ ~Head(s.todo).checked
      /\ op = "thread" => d \in Classed
      /\ op = "class_lost" => d = "timers"
      /\ op = "call_add" => d = "test"
  BY <1>1, <1>2, FirstOfItsKind DEF s
<1> QED
  BY <1>2, <1>3

(* What it takes to leave the other drivers' holdings alone. *)
LEMMA ElsewhereRule ==
  ASSUME NEW d,
         \A e \in Drivers \ {d} :
           /\ phase'[e] = phase[e] /\ todo'[e] = todo[e] /\ dev'[e] = dev[e]
           /\ dev_class'[e] = dev_class[e] /\ has'[e] = has[e]
           /\ e \in opened' <=> e \in opened,
         \A e \in Drivers \ {d}, m \in Majors : registry'[m] = e <=> registry[m] = e
  PROVE  Elsewhere(d)
<1> SUFFICES ASSUME NEW e \in Drivers \ {d} PROVE Own(e)' = Own(e)
  BY DEF Elsewhere
<1>1. {m \in Majors : registry'[m] = e} = {m \in Majors : registry[m] = e}
  OBVIOUS
<1>2. opened' \cap {e} = opened \cap {e}
  OBVIOUS
<1> QED
  BY <1>1, <1>2 DEF Own

(* How a statement ends: the driver goes on; *)
LEMMA Continued ==
  ASSUME Shapes, NEW d \in Drivers, Continue(d)
  PROVE  /\ present' = present /\ phase' = phase /\ opened' = opened
         /\ DOMAIN todo' = Drivers /\ todo'[d] = Tail(todo[d])
         /\ \A e \in Drivers \ {d} : todo'[e] = todo[e]
BY DEF Continue, Shapes

(* it goes to the roll-back, or on where the source ignores the failure; *)
LEMMA Failed ==
  ASSUME Shapes, NEW d \in Drivers, Fail(d)
  PROVE  /\ present' = present /\ opened' = opened /\ DOMAIN todo' = Drivers
         /\ \A e \in Drivers \ {d} : todo'[e] = todo[e] /\ phase'[e] = phase[e]
         /\ phase' \in [Drivers -> {"absent", "init", "undo", "live", "exit", "oopsed"}]
         /\ IF Head(todo[d]).checked
            THEN phase'[d] = "undo" /\ todo'[d] = Head(todo[d]).undo
            ELSE phase'[d] = phase[d] /\ todo'[d] = Tail(todo[d])
BY DEF Fail, Continue, Shapes

(* or its insmod or rmmod is killed. *)
LEMMA Killed ==
  ASSUME Shapes, NEW d \in Drivers, Oops(d)
  PROVE  /\ present' = present /\ opened' = opened /\ DOMAIN todo' = Drivers
         /\ \A e \in Drivers \ {d} : todo'[e] = todo[e] /\ phase'[e] = phase[e]
         /\ phase' \in [Drivers -> {"absent", "init", "undo", "live", "exit", "oopsed"}]
         /\ phase'[d] = "oopsed" /\ todo'[d] = <<>>
BY DEF Oops, Shapes

(* A statement that fails and acquires nothing. *)
LEMMA FailStep ==
  ASSUME IInv, NEW d \in present, NEW op \in InitOps \ {"memory", "class", "class_lost"},
         At(d, op), Fail(d), UNCHANGED <<registry, classes, dev, dev_class, has>>
  PROVE  IInv'
<1>1. /\ Shapes /\ d \in Drivers /\ todo[d] # <<>> /\ op = Head(todo[d]).op
      /\ phase[d] = "init" /\ \A m \in Majors : registry[m] = d => m = dev[d]
  <2>1. op \in InitOps
    OBVIOUS
  <2>2. Shapes /\ d \in Drivers /\ (op \in InitOps => phase[d] = "init")
    BY AtStatement
  <2>3. \A m \in Majors : registry[m] = d => m = dev[d]
    BY <2>2, OwnNumber
  <2> QED
    BY <2>1, <2>2, <2>3 DEF At
<1>2. /\ op \in NumberOps =>
           \/ Head(todo[d]).checked
           \/ d = "mmst"
           \/ d \in {"dmmn", "ioctldev"} /\ dev[d] = 0
  BY AtFirst
<1>3. /\ present' = present /\ opened' = opened /\ DOMAIN todo' = Drivers
      /\ \A e \in Drivers \ {d} : todo'[e] = todo[e] /\ phase'[e] = phase[e]
      /\ phase' \in [Drivers -> {"absent", "init", "undo", "live", "exit", "oopsed"}]
      /\ IF Head(todo[d]).checked
         THEN phase'[d] = "undo" /\ todo'[d] = Head(todo[d]).undo
         ELSE phase'[d] = phase[d] /\ todo'[d] = Tail(todo[d])
  BY <1>1, Failed
<1>4. Elsewhere(d)
  BY <1>3, ElsewhereRule
<1>5. Shapes'
  BY <1>1, <1>3 DEF Shapes
<1>6. SameHoldings(Own(d), Own(d)')
  BY <1>3 DEF SameHoldings, Own
<1>7. Executes(d, op)
  <2>1. CASE Head(todo[d]).checked
    BY <1>1, <1>3, <1>6, <2>1 DEF Executes
  <2>2. CASE ~Head(todo[d]).checked
    <3> DEFINE s == Own(d)
               t == Own(d)'
    <3>1. /\ t.phase = "init" /\ t.todo = Tail(s.todo)
          /\ s.dev = dev[d] /\ s.dev \in Majors \cup {0}
          /\ s.numbers \subseteq {s.dev}
      BY <1>1, <1>3, <2>2 DEF Own, Shapes
    <3>2. ~Gets(op, "memory")
      BY <1>2, <2>2 DEF Gets
    <3> HIDE DEF s, t
    <3>3. op \in NumberOps => NumberOK(d, t)
      BY <1>2, <1>6, <2>2, <3>1 DEF NumberOK, SameHoldings, s, t
    <3>4. InitEffect(d, s, op, t)
      BY <1>6, <3>1, <3>2, <3>3 DEF InitEffect, SameHoldings, s, t
    <3> QED
      BY <1>1, <3>4 DEF Executes, s, t
  <2> QED
    BY <2>1, <2>2
<1>8. op # "del_class"
  BY DEF InitOps, NumberOps
<1> QED
  BY <1>3, <1>4, <1>5, <1>7, <1>8, StatementRule

(* A statement of init that succeeds; the class is not the driver's.       *)
LEMMA GainStep ==
  ASSUME IInv, NEW d \in present, NEW op \in InitOps \ (NumberOps \cup {"class"}),
         At(d, op), Continue(d), UNCHANGED <<registry, dev, dev_class>>,
         has' = [has EXCEPT ![d] = @ \cup {r \in Resources : Gets(op, r)}],
         \/ classes' = classes
         \/ op = "class_lost" /\ classes' = classes \cup {Program[d].class}
  PROVE  IInv'
<1>1. Shapes /\ d \in Drivers /\ op = Head(todo[d]).op /\ phase[d] = "init"
  <2>1. op \in InitOps
    OBVIOUS
  <2> QED
    BY <2>1, AtStatement
<1>2. (\A m \in Majors : registry[m] = d => m = dev[d]) /\ dev[d] \in Majors \cup {0}
  BY <1>1, OwnNumber
<1>3. /\ present' = present /\ phase' = phase /\ opened' = opened
      /\ DOMAIN todo' = Drivers /\ todo'[d] = Tail(todo[d])
      /\ \A e \in Drivers \ {d} : todo'[e] = todo[e]
  BY <1>1, Continued
<1>4. /\ has' \in [Drivers -> SUBSET Resources]
      /\ has'[d] = has[d] \cup {r \in Resources : Gets(op, r)}
      /\ \A e \in Drivers \ {d} : has'[e] = has[e]
  BY <1>1 DEF Shapes
<1>5. Elsewhere(d)
  BY <1>3, <1>4, ElsewhereRule
<1>6. op = "class_lost" => d = "timers" /\ Program[d].class = "dr_class"
  <2>1. op \in InitOps
    OBVIOUS
  <2>2. op = "class_lost" => d = "timers"
    BY <2>1, AtFirst
  <2>3. Names(d)
    BY <1>1, ProgramFacts DEF ProgramOK
  <2> QED
    BY <2>2, <2>3 DEF Names
<1>7. Shapes'
  BY <1>1, <1>3, <1>4, <1>6 DEF Shapes
<1>8. Executes(d, op)
  <2> DEFINE s == Own(d)
             t == Own(d)'
  <2>1. /\ t.phase = "init" /\ t.todo = Tail(s.todo) /\ t.files = s.files
        /\ t.numbers = s.numbers /\ t.dev = s.dev /\ t.class = s.class
        /\ t.has = s.has \cup {r \in Resources : Gets(op, r)}
        /\ s.numbers \subseteq {s.dev} /\ s.dev \in Majors \cup {0}
    BY <1>1, <1>2, <1>3, <1>4 DEF Own
  <2> HIDE DEF s, t
  <2>2. "memory" \in Resources
    BY DEF Resources
  <2>3. InitEffect(d, s, op, t)
    BY <2>1, <2>2 DEF InitEffect
  <2> QED
    BY <1>1, <2>3 DEF Executes, s, t
<1>9. op # "del_class"
  BY DEF InitOps, NumberOps
<1> QED
  BY <1>3, <1>5, <1>6, <1>7, <1>8, <1>9, StatementRule

(* A driver gets a number that nobody has. *)
LEMMA GainNumber ==
  ASSUME IInv, NEW d \in present, NEW op \in NumberOps, At(d, op), Continue(d),
         NEW m \in Majors, registry[m] = "free", registry' = [registry EXCEPT ![m] = d],
         dev' = [dev EXCEPT ![d] = m], m = dev[d] \/ (op = "alloc" /\ m # 269),
         has' = [has EXCEPT ![d] = @ \cup {r \in Resources : Gets(op, r)}],
         UNCHANGED <<classes, dev_class>>
  PROVE  IInv'
<1>0. op \in InitOps
  BY DEF InitOps
<1>1. Shapes /\ d \in Drivers /\ op = Head(todo[d]).op /\ phase[d] = "init"
  BY <1>0, AtStatement
<1>2. \A k \in Majors : registry[k] # d
  BY <1>0, AtFirst
<1>3. /\ present' = present /\ phase' = phase /\ opened' = opened
      /\ DOMAIN todo' = Drivers /\ todo'[d] = Tail(todo[d])
      /\ \A e \in Drivers \ {d} : todo'[e] = todo[e]
  BY <1>1, Continued
<1>4. /\ has' \in [Drivers -> SUBSET Resources]
      /\ has'[d] = has[d] \cup {r \in Resources : Gets(op, r)}
      /\ \A e \in Drivers \ {d} : has'[e] = has[e]
  BY <1>1 DEF Shapes
<1>5. /\ dev' \in [Drivers -> Majors \cup {0}] /\ dev'[d] = m
      /\ \A e \in Drivers \ {d} : dev'[e] = dev[e]
  BY <1>1 DEF Shapes
<1>6. /\ registry' \in [Majors -> Drivers \cup {"other", "free"}] /\ registry'[m] = d
      /\ \A k \in Majors \ {m} : registry'[k] = registry[k]
  BY <1>1 DEF Shapes
<1>7. Elsewhere(d)
  <2>1. \A e \in Drivers \ {d}, k \in Majors : registry'[k] = e <=> registry[k] = e
    <3>1. "free" \notin Drivers
      BY DriverNames
    <3> QED
      BY <1>6, <3>1
  <2> QED
    BY <1>3, <1>4, <1>5, <2>1, ElsewhereRule
<1>8. Shapes'
  BY <1>1, <1>3, <1>4, <1>5, <1>6 DEF Shapes
<1>9. Executes(d, op)
  <2> DEFINE s == Own(d)
             t == Own(d)'
  <2>0. \A k \in Majors : registry'[k] = d <=> k = m
    BY <1>2, <1>6
  <2>1. /\ t.phase = "init" /\ t.todo = Tail(s.todo) /\ t.files = s.files
        /\ t.dev = m /\ t.class = s.class
        /\ t.has = s.has \cup {r \in Resources : Gets(op, r)}
        /\ s.dev = dev[d]
    BY <1>1, <1>3, <1>4, <1>5 DEF Own
  <2>2. t.numbers = {m}
    BY <2>0 DEF Own
  <2> HIDE DEF s, t
  <2>3. "memory" \in Resources
    BY DEF Resources
  <2>4. NumberOK(d, t)
    BY <2>1, <2>2 DEF NumberOK
  <2>5. t.dev \in Majors \cup {0} /\ (t.dev = 269 => s.dev = 269)
    BY <2>1
  <2>6. op # "alloc" => t.dev = s.dev
    BY <2>1
  <2>7. InitEffect(d, s, op, t)
    BY <2>1, <2>2, <2>3, <2>4, <2>5, <2>6 DEF InitEffect
  <2> QED
    BY <1>1, <2>7 DEF Executes, s, t
<1>10. op # "del_class"
  BY DEF NumberOps
<1> QED
  BY <1>3, <1>7, <1>8, <1>9, <1>10, StatementRule

(* A statement that releases; a number that it unregisters was the         *)
(* driver's own, or is 269.                                                *)
LEMMA LoseStep ==
  ASSUME IInv, NEW d \in present, NEW op \in ExitOps, At(d, op), Continue(d),
         registry' = IF Frees(op, "number")
                     THEN [m \in Majors |-> IF m = dev[d] THEN "free" ELSE registry[m]]
                     ELSE registry,
         has' = [has EXCEPT ![d] = {r \in @ : ~Frees(op, r)}],
         UNCHANGED <<dev, dev_class>>,
         classes' = IF op = "del_class" /\ dev_class[d] = "class"
                    THEN classes \ {Program[d].class} ELSE classes
  PROVE  IInv'
<1>1. /\ Shapes /\ d \in Drivers /\ op = Head(todo[d]).op
      /\ phase[d] \in {"undo", "exit"} /\ NumberOK(d, Own(d))
  BY AtStatement
<1>2. /\ \A m \in Majors : registry[m] = d => m = dev[d]
      /\ d = "mmst" => dev[d] \in {0, 269}
  BY <1>1, OwnNumber
<1>3. /\ present' = present /\ phase' = phase /\ opened' = opened
      /\ DOMAIN todo' = Drivers /\ todo'[d] = Tail(todo[d])
      /\ \A e \in Drivers \ {d} : todo'[e] = todo[e]
  BY <1>1, Continued
<1>4. /\ has' \in [Drivers -> SUBSET Resources]
      /\ has'[d] = {r \in has[d] : ~Frees(op, r)}
      /\ \A e \in Drivers \ {d} : has'[e] = has[e]
  BY <1>1 DEF Shapes
<1>5. /\ registry' \in [Majors -> Drivers \cup {"other", "free"}]
      /\ \A m \in Majors : IF Frees(op, "number") /\ m = dev[d]
                           THEN registry'[m] = "free" ELSE registry'[m] = registry[m]
  BY <1>1 DEF Shapes
<1>6. ASSUME NEW e \in Drivers \ {d}, registry[dev[d]] = e, dev[d] \in Majors
      PROVE  FALSE
  <2>1. dev[e] = dev[d] /\ (dev[e] = 269 => e = "mmst")
    BY <1>6, OwnNumber
  <2>2. dev[d] # 0
    BY <1>6, MajorsAssumption DEF Majors, StaticMajors
  <2>3. dev[d] \notin {m \in Majors : registry[m] = d}
    BY <1>6
  <2>4. d = "mmst"
    BY <1>1, <2>2, <2>3 DEF NumberOK, Own
  <2> QED
    BY <1>2, <1>6, <2>1, <2>2, <2>4
<1>7. Elsewhere(d)
  <2>1. "free" \notin Drivers
    BY DriverNames
  <2>2. \A e \in Drivers \ {d}, m \in Majors : registry'[m] = e <=> registry[m] = e
    BY <1>5, <1>6, <2>1
  <2> QED
    BY <1>3, <1>4, <2>2, ElsewhereRule
<1>8. Shapes'
  BY <1>1, <1>3, <1>4, <1>5 DEF Shapes
<1>9. Executes(d, op)
  <2> DEFINE s == Own(d)
             t == Own(d)'
  <2>1. "free" # d
    BY <1>1, DriverNames
  <2>2. {m \in Majors : registry'[m] = d}
          = IF Frees(op, "number") THEN {} ELSE {m \in Majors : registry[m] = d}
    BY <1>2, <1>5, <2>1
  <2>3. /\ t.phase = s.phase /\ t.todo = Tail(s.todo) /\ t.files = s.files
        /\ t.dev = s.dev /\ t.class = s.class
        /\ t.has = {r \in s.has : ~Frees(op, r)}
        /\ t.numbers = IF Frees(op, "number") THEN {} ELSE s.numbers
    BY <1>3, <1>4, <2>2 DEF Own
  <2> HIDE DEF s, t
  <2>4. ReleaseEffect(s, op, t)
    BY <2>3 DEF ReleaseEffect
  <2> QED
    BY <1>1, <2>4 DEF Executes, s, t
<1> QED
  BY <1>3, <1>7, <1>8, <1>9, StatementRule

(* A statement that dereferences an error pointer. *)
LEMMA KillStep ==
  ASSUME IInv, NEW d \in present, NEW op, At(d, op), Oops(d),
         op = "thread" \/ (op \in ExitOps /\ dev_class[d] = "error"),
         UNCHANGED <<tables, own>>
  PROVE  IInv'
<1>1. /\ Shapes /\ d \in Drivers
      /\ op = "thread" => phase[d] = "init"
      /\ op \in ExitOps => phase[d] \in {"undo", "exit"}
  BY AtStatement DEF InitOps
<1>2. /\ present' = present /\ opened' = opened /\ DOMAIN todo' = Drivers
      /\ \A e \in Drivers \ {d} : todo'[e] = todo[e] /\ phase'[e] = phase[e]
      /\ phase' \in [Drivers -> {"absent", "init", "undo", "live", "exit", "oopsed"}]
      /\ phase'[d] = "oopsed" /\ todo'[d] = <<>>
  BY <1>1, Killed
<1>3. UNCHANGED <<registry, classes, dev, dev_class, has>>
  BY DEF tables, own
<1>4. Elsewhere(d)
  BY <1>2, <1>3, ElsewhereRule
<1>5. Shapes'
  BY <1>1, <1>2, <1>3 DEF Shapes
<1>6. SameHoldings(Own(d), Own(d)')
  BY <1>2, <1>3 DEF SameHoldings, Own
<1>7. Executes(d, op)
  BY <1>1, <1>2, <1>6 DEF Executes
<1>8. op # "del_class" \/ dev_class[d] # "class"
  OBVIOUS
<1> QED
  BY <1>2, <1>3, <1>4, <1>5, <1>7, <1>8, StatementRule

-----------------------------------------------------------------------------
(* The actions. *)
LEMMA AllocRegionStep ==
  ASSUME IInv, NEW d \in present, AllocRegion(d) PROVE IInv'
<1>1. At(d, "alloc") /\ UNCHANGED <<classes, dev_class, has>>
  BY DEF AllocRegion
<1>2. CASE Fail(d) /\ UNCHANGED <<registry, dev>>
  <2>1. "alloc" \in InitOps \ {"memory", "class", "class_lost"}
    BY DEF InitOps, NumberOps
  <2> QED
    BY <1>1, <1>2, <2>1, FailStep
<1>3. CASE Continue(d) /\ \E m \in FreeMajors \cap DynamicMajors :
             registry' = [registry EXCEPT ![m] = d] /\ dev' = [dev EXCEPT ![d] = m]
  <2>1. PICK m \in Majors : /\ registry[m] = "free" /\ m # 269
                            /\ registry' = [registry EXCEPT ![m] = d]
                            /\ dev' = [dev EXCEPT ![d] = m]
    BY <1>3, MajorsAssumption DEF FreeMajors
  <2>2. "alloc" \in NumberOps
    BY DEF NumberOps
  <2>3. has' = [has EXCEPT ![d] = @ \cup {r \in Resources : Gets("alloc", r)}]
    <3>1. {r \in Resources : Gets("alloc", r)} = {}
      BY DEF Resources, Gets
    <3>2. has \in [Drivers -> SUBSET Resources]
      BY DEF IInv, Shapes
    <3> QED
      BY <1>1, <3>1, <3>2
  <2> QED
    BY <1>1, <1>3, <2>1, <2>2, <2>3, GainNumber
<1> QED
  BY <1>2, <1>3 DEF AllocRegion

LEMMA RegisterRegionStep ==
  ASSUME IInv, NEW d \in present, RegisterRegion(d) PROVE IInv'
<1>1. At(d, "register") /\ UNCHANGED <<classes, dev, dev_class, has>>
  BY DEF RegisterRegion, own
<1>2. CASE Fail(d) /\ UNCHANGED registry
  <2>1. "register" \in InitOps \ {"memory", "class", "class_lost"}
    BY DEF InitOps, NumberOps
  <2> QED
    BY <1>1, <1>2, <2>1, FailStep
<1>3. CASE /\ dev[d] \in FreeMajors /\ Continue(d)
           /\ registry' = [registry EXCEPT ![dev[d]] = d]
  <2>1. PICK m \in Majors : /\ registry[m] = "free" /\ m = dev[d]
                            /\ registry' = [registry EXCEPT ![m] = d]
    BY <1>3 DEF FreeMajors
  <2>2. "register" \in NumberOps
    BY DEF NumberOps
  <2>3. has' = [has EXCEPT ![d] = @ \cup {r \in Resources : Gets("register", r)}]
    <3>1. {r \in Resources : Gets("register", r)} = {}
      BY DEF Resources, Gets
    <3>2. has \in [Drivers -> SUBSET Resources]
      BY DEF IInv, Shapes
    <3> QED
      BY <1>1, <3>1, <3>2
  <2>4. dev' = [dev EXCEPT ![d] = m]
    BY <1>1, <2>1 DEF IInv, Shapes
  <2>5. Continue(d) /\ registry[m] = "free" /\ m = dev[d]
    BY <1>3, <2>1
  <2>6. At(d, "register") /\ UNCHANGED <<classes, dev_class>>
    BY <1>1
  <2>7. registry' = [registry EXCEPT ![m] = d]
    BY <2>1
  <2> QED
    BY <2>2, <2>3, <2>4, <2>5, <2>6, <2>7, GainNumber
<1> QED
  BY <1>2, <1>3 DEF RegisterRegion

LEMMA RegisterChrdevStep ==
  ASSUME IInv, NEW d \in present, RegisterChrdev(d) PROVE IInv'
<1>1. At(d, "register_chrdev") /\ UNCHANGED <<classes, dev, dev_class>>
  BY DEF RegisterChrdev
<1>2. CASE Fail(d) /\ UNCHANGED <<registry, has>>
  <2>1. "register_chrdev" \in InitOps \ {"memory", "class", "class_lost"}
    BY DEF InitOps, NumberOps
  <2> QED
    BY <1>1, <1>2, <2>1, FailStep
<1>3. CASE /\ dev[d] \in FreeMajors /\ Continue(d) /\ Hold(d, "cdev_1")
           /\ registry' = [registry EXCEPT ![dev[d]] = d]
  <2>1. PICK m \in Majors : /\ registry[m] = "free" /\ m = dev[d]
                            /\ registry' = [registry EXCEPT ![m] = d]
    BY <1>3 DEF FreeMajors
  <2>2. "register_chrdev" \in NumberOps
    BY DEF NumberOps
  <2>3. {r \in Resources : Gets("register_chrdev", r)} = {"cdev_1"}
    BY DEF Resources, Gets
  <2>4. has' = [has EXCEPT ![d] = @ \cup {r \in Resources : Gets("register_chrdev", r)}]
    BY <1>3, <2>3 DEF Hold
  <2>5. dev' = [dev EXCEPT ![d] = m]
    BY <1>1, <2>1 DEF IInv, Shapes
  <2>6. Continue(d) /\ registry[m] = "free" /\ m = dev[d]
    BY <1>3, <2>1
  <2> QED
    BY <1>1, <2>1, <2>2, <2>4, <2>5, <2>6, GainNumber
<1> QED
  BY <1>2, <1>3 DEF RegisterChrdev

LEMMA UnregisterRegionStep ==
  ASSUME IInv, NEW d \in present, UnregisterRegion(d) PROVE IInv'
<1>1. "unregister" \in ExitOps /\ Frees("unregister", "number")
  BY DEF ExitOps, Frees
<1>2. has \in [Drivers -> SUBSET Resources]
  BY DEF IInv, Shapes
<1>3. \A r \in Resources : ~Frees("unregister", r)
  BY DEF Resources, Frees
<1>4. has' = [has EXCEPT ![d] = {r \in @ : ~Frees("unregister", r)}]
  <2>1. d \in Drivers
    BY DEF IInv, Shapes
  <2>2. {r \in has[d] : ~Frees("unregister", r)} = has[d]
    BY <1>2, <1>3, <2>1
  <2> QED
    BY <1>2, <2>2 DEF UnregisterRegion, own
<1> QED
  BY <1>1, <1>4, LoseStep DEF UnregisterRegion, own

LEMMA UnregisterChrdevStep ==
  ASSUME IInv, NEW d \in present, UnregisterChrdev(d) PROVE IInv'
<1>1. "unregister_chrdev" \in ExitOps /\ Frees("unregister_chrdev", "number")
  BY DEF ExitOps, Frees
<1>2. has \in [Drivers -> SUBSET Resources] /\ d \in Drivers
  BY DEF IInv, Shapes
<1>3. \A r \in Resources : Frees("unregister_chrdev", r) <=> r = "cdev_1"
  BY DEF Resources, Frees
<1>4. {r \in has[d] : ~Frees("unregister_chrdev", r)} = has[d] \ {"cdev_1"}
  BY <1>2, <1>3
<1>5. has' = [has EXCEPT ![d] = {r \in @ : ~Frees("unregister_chrdev", r)}]
  BY <1>4 DEF UnregisterChrdev, Drop
<1>6. registry' = [m \in Majors |-> IF m = dev[d] THEN "free" ELSE registry[m]]
  BY DEF UnregisterChrdev, IInv, Shapes
<1> QED
  BY <1>1, <1>5, <1>6, LoseStep DEF UnregisterChrdev

LEMMA AcquireStep ==
  ASSUME IInv, NEW d \in present, Acquire(d) PROVE IInv'
<1>1. PICK r \in {"cdev_1", "cdev_2", "line", "kmalloc"} :
        /\ At(d, r)
        /\ \/ Hold(d, IF r = "kmalloc" THEN "heap" ELSE r) /\ Continue(d)
           \/ Fail(d) /\ UNCHANGED has
  BY DEF Acquire
<1>2. UNCHANGED <<registry, classes, dev, dev_class>>
  BY DEF Acquire, tables
<1>3. /\ r \in InitOps \ {"memory", "class", "class_lost"}
      /\ r \in InitOps \ (NumberOps \cup {"class"})
  BY DEF InitOps, NumberOps
<1>4. CASE Fail(d) /\ UNCHANGED has
  BY <1>1, <1>2, <1>3, <1>4, FailStep
<1>5. CASE Hold(d, IF r = "kmalloc" THEN "heap" ELSE r) /\ Continue(d)
  <2>1. {x \in Resources : Gets(r, x)} = {IF r = "kmalloc" THEN "heap" ELSE r}
    BY DEF Resources, Gets, NumberOps
  <2>2. has' = [has EXCEPT ![d] = @ \cup {x \in Resources : Gets(r, x)}]
    BY <1>5, <2>1 DEF Hold
  <2> QED
    BY <1>1, <1>2, <1>3, <1>5, <2>2, GainStep
<1> QED
  BY <1>1, <1>4, <1>5

LEMMA InitialiseStep ==
  ASSUME IInv, NEW d \in present, Initialise(d) PROVE IInv'
<1>1. "memory" \in InitOps \ (NumberOps \cup {"class"})
  BY DEF InitOps, NumberOps
<1>2. {r \in Resources : Gets("memory", r)} = {"memory"}
  BY DEF Resources, Gets, NumberOps
<1>3. has' = [has EXCEPT ![d] = @ \cup {r \in Resources : Gets("memory", r)}]
  BY <1>2 DEF Initialise, Hold
<1> QED
  BY <1>1, <1>3, GainStep DEF Initialise, tables

LEMMA DiscardStep ==
  ASSUME IInv, NEW d \in present, Discard(d) PROVE IInv'
<1>1. PICK x \in {"del_cdev_1", "del_cdev_2", "free_line", "kfree"} :
        At(d, x) /\ Drop(d, Discarded[x])
  BY DEF Discard, Discarded
<1>2. x \in ExitOps /\ ~Frees(x, "number") /\ x # "del_class"
  BY DEF ExitOps, Frees
<1>3. has \in [Drivers -> SUBSET Resources] /\ d \in Drivers
  BY DEF IInv, Shapes
<1>4. \A r \in Resources : Frees(x, r) <=> r \in Discarded[x]
  BY DEF Resources, Frees, Discarded
<1>5. {r \in has[d] : ~Frees(x, r)} = has[d] \ Discarded[x]
  BY <1>3, <1>4
<1>6. has' = [has EXCEPT ![d] = {r \in @ : ~Frees(x, r)}]
  BY <1>1, <1>5 DEF Drop
<1> QED
  BY <1>1, <1>2, <1>6, LoseStep DEF Discard, tables

LEMMA DeviceCreateStep ==
  ASSUME IInv, NEW d \in present, DeviceCreate(d) PROVE IInv'
<1>1. /\ "node" \in InitOps \ {"memory", "class", "class_lost"}
      /\ "node" \in InitOps \ (NumberOps \cup {"class"})
  BY DEF InitOps, NumberOps
<1>2. At(d, "node") /\ UNCHANGED <<registry, classes, dev, dev_class>>
  BY DEF DeviceCreate, tables
<1>3. CASE Fail(d) /\ UNCHANGED has
  BY <1>1, <1>2, <1>3, FailStep
<1>4. CASE Hold(d, "node") /\ Continue(d)
  <2>1. {r \in Resources : Gets("node", r)} = {"node"}
    BY DEF Resources, Gets, NumberOps
  <2>2. has' = [has EXCEPT ![d] = @ \cup {r \in Resources : Gets("node", r)}]
    BY <1>4, <2>1 DEF Hold
  <2> QED
    BY <1>1, <1>2, <1>4, <2>2, GainStep
<1> QED
  BY <1>3, <1>4 DEF DeviceCreate

LEMMA DeviceDestroyStep ==
  ASSUME IInv, NEW d \in present, DeviceDestroy(d) PROVE IInv'
<1>1. "del_node" \in ExitOps /\ ~Frees("del_node", "number")
  BY DEF ExitOps, Frees
<1>2. At(d, "del_node") /\ UNCHANGED <<registry, classes, dev, dev_class>>
  BY DEF DeviceDestroy, tables
<1>3. CASE dev_class[d] = "error" /\ Oops(d) /\ UNCHANGED has
  BY <1>1, <1>2, <1>3, KillStep DEF tables, own
<1>4. CASE Continue(d) /\ Drop(d, {"node"})
  <2>1. has \in [Drivers -> SUBSET Resources] /\ d \in Drivers
    BY DEF IInv, Shapes
  <2>2. \A r \in Resources : Frees("del_node", r) <=> r = "node"
    BY DEF Resources, Frees
  <2>3. {r \in has[d] : ~Frees("del_node", r)} = has[d] \ {"node"}
    BY <2>1, <2>2
  <2>4. has' = [has EXCEPT ![d] = {r \in @ : ~Frees("del_node", r)}]
    BY <1>4, <2>3 DEF Drop
  <2> QED
    BY <1>1, <1>2, <1>4, <2>4, LoseStep
<1> QED
  BY <1>3, <1>4 DEF DeviceDestroy

LEMMA ClassDestroyStep ==
  ASSUME IInv, NEW d \in present, ClassDestroy(d) PROVE IInv'
<1>1. "del_class" \in ExitOps /\ ~Frees("del_class", "number")
  BY DEF ExitOps, Frees
<1>2. has \in [Drivers -> SUBSET Resources] /\ d \in Drivers
  BY DEF IInv, Shapes
<1>3. \A r \in Resources : ~Frees("del_class", r)
  BY DEF Resources, Frees
<1>4. {r \in has[d] : ~Frees("del_class", r)} = has[d]
  BY <1>2, <1>3
<1>5. has' = [has EXCEPT ![d] = {r \in @ : ~Frees("del_class", r)}]
  BY <1>2, <1>4 DEF ClassDestroy, own
<1> QED
  BY <1>1, <1>5, LoseStep DEF ClassDestroy, own

LEMMA ClassCreateLostStep ==
  ASSUME IInv, NEW d \in present, ClassCreateLost(d) PROVE IInv'
<1>1. "class_lost" \in InitOps \ (NumberOps \cup {"class"})
  BY DEF InitOps, NumberOps
<1>2. {r \in Resources : Gets("class_lost", r)} = {}
  BY DEF Resources, Gets, NumberOps
<1>3. has' = [has EXCEPT ![d] = @ \cup {r \in Resources : Gets("class_lost", r)}]
  BY <1>2 DEF ClassCreateLost, own, IInv, Shapes
<1> QED
  BY <1>1, <1>3, GainStep DEF ClassCreateLost, own

LEMMA StartThreadStep ==
  ASSUME IInv, NEW d \in present, StartThread(d) PROVE IInv'
<1>1. At(d, "thread") /\ UNCHANGED <<tables, own>>
  BY DEF StartThread
<1>2. CASE Oops(d)
  BY <1>1, <1>2, KillStep
<1>3. CASE Continue(d)
  <2>1. "thread" \in InitOps \ (NumberOps \cup {"class"})
    BY DEF InitOps, NumberOps
  <2>2. {r \in Resources : Gets("thread", r)} = {}
    BY DEF Resources, Gets, NumberOps
  <2>3. has' = [has EXCEPT ![d] = @ \cup {r \in Resources : Gets("thread", r)}]
    BY <1>1, <2>2 DEF own, IInv, Shapes
  <2> QED
    BY <1>1, <1>3, <2>1, <2>3, GainStep DEF own, tables
<1> QED
  BY <1>2, <1>3 DEF StartThread

(* The called module is there. *)
LEMMA CallAddContinues ==
  ASSUME IInv, NEW d \in present, CallAdd(d) PROVE Continue(d)
<1>1. "call_add" \in InitOps /\ At(d, "call_add")
  BY DEF InitOps, CallAdd
<1>2. d = "test"
  BY <1>1, AtFirst
<1>3. phase[d] = "init"
  BY <1>1, AtStatement
<1>4. phase["add"] = "live"
  BY <1>2, <1>3 DEF IInv, AddStays
<1> QED
  BY <1>4 DEF CallAdd

LEMMA CallAddStep ==
  ASSUME IInv, NEW d \in present, CallAdd(d) PROVE IInv'
<1>1. "call_add" \in InitOps \ (NumberOps \cup {"class"})
  BY DEF InitOps, NumberOps
<1>2. {r \in Resources : Gets("call_add", r)} = {}
  BY DEF Resources, Gets, NumberOps
<1>3. has' = [has EXCEPT ![d] = @ \cup {r \in Resources : Gets("call_add", r)}]
  BY <1>2 DEF CallAdd, own, IInv, Shapes
<1>4. Continue(d)
  BY CallAddContinues
<1> QED
  BY <1>1, <1>3, <1>4, GainStep DEF CallAdd, own, tables

LEMMA ClassCreateStep ==
  ASSUME IInv, NEW d \in present, ClassCreate(d) PROVE IInv'
<1>1. At(d, "class") /\ UNCHANGED <<registry, dev, has>> /\ "class" \in InitOps
  BY DEF ClassCreate, InitOps
<1>2. /\ Shapes /\ d \in Drivers /\ phase[d] = "init"
  BY <1>1, AtStatement
<1>3. d \in Classed /\ ~Head(todo[d]).checked
  BY <1>1, AtFirst
<1>4. /\ Continue(d)
      /\ \/ /\ dev_class' = [dev_class EXCEPT ![d] = "class"]
            /\ classes' = classes \cup {Program[d].class}
         \/ dev_class' = [dev_class EXCEPT ![d] = "error"] /\ classes' = classes
  BY <1>3 DEF ClassCreate, Fail
<1>5. /\ dev_class' \in [Drivers -> {"null", "error", "class"}]
      /\ dev_class'[d] \in {"error", "class"}
      /\ \A e \in Drivers \ {d} : dev_class'[e] = dev_class[e]
      /\ classes' # classes => dev_class'[d] = "class"
  BY <1>2, <1>4 DEF Shapes
<1>6. /\ present' = present /\ phase' = phase /\ opened' = opened
      /\ DOMAIN todo' = Drivers /\ todo'[d] = Tail(todo[d])
      /\ \A e \in Drivers \ {d} : todo'[e] = todo[e]
  BY <1>2, <1>4, Continued
<1>7. Elsewhere(d)
  BY <1>1, <1>5, <1>6, ElsewhereRule
<1>8. Program[d].class \in {"dr_class", "sta_dev"}
  <2>1. Names(d)
    BY <1>2, ProgramFacts DEF ProgramOK
  <2> QED
    BY <1>3, <2>1 DEF Names, Classed
<1>9. Shapes'
  BY <1>1, <1>2, <1>4, <1>5, <1>6, <1>8 DEF Shapes
<1>10. (\A m \in Majors : registry[m] = d => m = dev[d]) /\ dev[d] \in Majors \cup {0}
  BY <1>2, OwnNumber
<1>11. Executes(d, "class")
  <2> DEFINE s == Own(d)
             t == Own(d)'
  <2>1. /\ t.phase = "init" /\ t.todo = Tail(s.todo) /\ t.files = s.files
        /\ t.numbers = s.numbers /\ t.dev = s.dev /\ t.class \in {"error", "class"}
        /\ t.has = s.has /\ s.numbers \subseteq {s.dev} /\ s.dev \in Majors \cup {0}
    BY <1>1, <1>2, <1>5, <1>6, <1>10 DEF Own
  <2> HIDE DEF s, t
  <2>2. ~Gets("class", "memory") /\ "class" \notin NumberOps
    BY DEF Gets, NumberOps
  <2>3. InitEffect(d, s, "class", t)
    BY <2>1, <2>2 DEF InitEffect
  <2> QED
    BY <1>2, <2>3 DEF Executes, s, t
<1>12. \A c \in classes' \ classes : Program[d].class = c /\ dev_class'[d] = "class"
  BY <1>4, <1>5
<1> QED
  BY <1>1, <1>6, <1>7, <1>9, <1>11, <1>12, StatementRule

LEMMA InsertStep ==
  ASSUME IInv, NEW d \in present, Insert(d) PROVE IInv'
<1>1. Shapes /\ d \in Drivers /\ ProgramOK(d) /\ DriverOK(d, Own(d))
  BY ProgramFacts DEF IInv, Shapes
<1>2. /\ phase[d] = "absent" /\ has[d] = {} /\ d \notin opened
      /\ phase'[d] = "init" /\ todo'[d] = Program[d].init
      /\ dev'[d] = Program[d].major /\ dev_class'[d] = "null"
      /\ UNCHANGED <<present, has, registry, classes, opened>>
  BY <1>1 DEF Insert, Shapes, tables
<1>3. \A e \in Drivers \ {d} :
        /\ phase'[e] = phase[e] /\ todo'[e] = todo[e]
        /\ dev'[e] = dev[e] /\ dev_class'[e] = dev_class[e]
  BY <1>1 DEF Insert, Shapes
<1>4. Program[d].major \in Majors \cup {0}
  BY <1>1 DEF ProgramOK, Names, Majors, StaticMajors
<1>5. /\ phase' \in [Drivers -> {"absent", "init", "undo", "live", "exit", "oopsed"}]
      /\ DOMAIN todo' = Drivers /\ dev' \in [Drivers -> Majors \cup {0}]
      /\ dev_class' \in [Drivers -> {"null", "error", "class"}]
  BY <1>1, <1>4 DEF Insert, Shapes
<1>6. Elsewhere(d)
  BY <1>2, <1>3, ElsewhereRule
<1>7. Shapes'
  BY <1>1, <1>2, <1>5 DEF Shapes
<1>8. AddStays'
  <2>1. d = "test" => phase["add"] = "live"
    BY DEF Insert, Uses
  <2>2. "add" \in Drivers /\ "test" \in Drivers
    BY DriverNames
  <2>3. phase["test"] # "absent" => phase["add"] = "live"
    BY DEF IInv, AddStays
  <2> QED
    BY <1>2, <1>3, <2>1, <2>2, <2>3 DEF AddStays
<1> DEFINE s == Own(d)
           t == Own(d)'
<1>9. /\ s.phase = "absent" /\ s.has = {} /\ s.files = {}
      /\ t.phase = "init" /\ t.todo = Program[d].init /\ t.dev = Program[d].major
      /\ t.class = "null" /\ t.has = s.has /\ t.numbers = s.numbers /\ t.files = s.files
  BY <1>2 DEF Own
<1> HIDE DEF s, t
<1>10. DriverOK(d, t)
  BY <1>1, <1>9, InsertedDriver DEF s
<1>11. ~Keeps(d, s)
  BY <1>9 DEF Keeps
<1> QED
  BY <1>2, <1>6, <1>7, <1>8, <1>10, <1>11, StepRule DEF s, t

LEMMA RemoveStep ==
  ASSUME IInv, NEW d \in present, Remove(d) PROVE IInv'
<1>1. Shapes /\ d \in Drivers /\ ProgramOK(d) /\ DriverOK(d, Own(d))
  BY ProgramFacts DEF IInv, Shapes
<1>2. /\ phase[d] = "live" /\ d \notin opened
      /\ phase'[d] = "exit" /\ todo'[d] = Program[d].exit
      /\ UNCHANGED <<present, dev, dev_class, has, registry, classes, opened>>
  BY <1>1 DEF Remove, Shapes, tables, own
<1>3. \A e \in Drivers \ {d} : phase'[e] = phase[e] /\ todo'[e] = todo[e]
  BY <1>1 DEF Remove, Shapes
<1>4. /\ phase' \in [Drivers -> {"absent", "init", "undo", "live", "exit", "oopsed"}]
      /\ DOMAIN todo' = Drivers
  BY <1>1 DEF Remove, Shapes
<1>5. Elsewhere(d)
  BY <1>2, <1>3, ElsewhereRule
<1>6. Shapes'
  BY <1>1, <1>2, <1>4 DEF Shapes
<1>7. AddStays'
  <2>1. "add" \in Drivers /\ "test" \in Drivers
    BY DriverNames
  <2>2. d = "add" => phase["test"] = "absent"
    BY <2>1 DEF Remove, Uses
  <2>3. phase["test"] # "absent" => phase["add"] = "live"
    BY DEF IInv, AddStays
  <2> QED
    BY <1>2, <1>3, <2>1, <2>2, <2>3 DEF AddStays
<1> DEFINE s == Own(d)
           t == Own(d)'
<1>8. /\ s.phase = "live" /\ s.files = {}
      /\ t.phase = "exit" /\ t.todo = Program[d].exit /\ SameHoldings(s, t)
  BY <1>2 DEF Own, SameHoldings
<1> HIDE DEF s, t
<1>9. DriverOK(d, t)
  BY <1>1, <1>8, RemovedDriver DEF s
<1>10. Keeps(d, s) => Keeps(d, t)
  BY <1>1, <1>8 DEF Keeps, SameHoldings, ProgramOK, Exits
<1> QED
  BY <1>2, <1>5, <1>6, <1>7, <1>9, <1>10, StepRule DEF s, t

LEMMA ReturnStep ==
  ASSUME IInv, NEW d \in present, Return(d) PROVE IInv'
<1>1. Shapes /\ d \in Drivers /\ ProgramOK(d) /\ DriverOK(d, Own(d))
  BY ProgramFacts DEF IInv, Shapes
<1>2. /\ phase[d] \in {"init", "undo", "exit"} /\ todo[d] = <<>>
      /\ phase'[d] = IF phase[d] = "init" THEN "live" ELSE "absent"
      /\ has'[d] = IF phase[d] = "init" THEN has[d] ELSE has[d] \ {"memory"}
      /\ UNCHANGED <<present, todo, dev, dev_class, registry, classes, opened>>
  BY <1>1 DEF Return, Shapes, tables
<1>3. \A e \in Drivers \ {d} : phase'[e] = phase[e] /\ has'[e] = has[e]
  BY <1>1 DEF Return, Shapes
<1>4. /\ phase' \in [Drivers -> {"absent", "init", "undo", "live", "exit", "oopsed"}]
      /\ has' \in [Drivers -> SUBSET Resources]
  BY <1>1 DEF Return, Shapes
<1>5. Elsewhere(d)
  BY <1>2, <1>3, ElsewhereRule
<1>6. Shapes'
  BY <1>1, <1>2, <1>4 DEF Shapes
<1>7. AddStays'
  <2>1. "add" \in Drivers /\ "test" \in Drivers
    BY DriverNames
  <2>2. phase["test"] # "absent" => phase["add"] = "live"
    BY DEF IInv, AddStays
  <2> QED
    BY <1>2, <1>3, <2>1, <2>2 DEF AddStays
<1> DEFINE s == Own(d)
           t == Own(d)'
<1>8. /\ s.phase \in {"init", "undo", "exit"} /\ s.todo = <<>>
      /\ t.phase = (IF s.phase = "init" THEN "live" ELSE "absent")
      /\ t.has = (IF s.phase = "init" THEN s.has ELSE s.has \ {"memory"})
      /\ t.todo = s.todo /\ t.dev = s.dev /\ t.class = s.class
      /\ t.numbers = s.numbers /\ t.files = s.files
  BY <1>2 DEF Own
<1> HIDE DEF s, t
<1>9. DriverOK(d, t)
  BY <1>1, <1>8, ReturnedDriver DEF s
<1>10. Keeps(d, s) => Keeps(d, t)
  <2>1. 1..Len(s.todo) = {}
    BY <1>8
  <2> QED
    BY <1>8, <2>1 DEF Keeps
<1> QED
  BY <1>2, <1>5, <1>6, <1>7, <1>9, <1>10, StepRule DEF s, t

LEMMA FileStep ==
  ASSUME IInv, NEW d \in present, Open(d) \/ Release(d) PROVE IInv'
<1>1. Shapes /\ d \in Drivers /\ ProgramOK(d) /\ DriverOK(d, Own(d))
  BY ProgramFacts DEF IInv, Shapes
<1>2. /\ phase[d] \in Loaded
      /\ UNCHANGED <<present, phase, todo, dev, dev_class, has, registry, classes>>
      /\ opened' \subseteq present
      /\ \A e \in Drivers \ {d} : e \in opened' <=> e \in opened
      /\ d \in opened' => has[d] \cap {"cdev_1", "cdev_2"} # {}
  BY <1>1 DEF Open, Release, Shapes, tables, own
<1>3. Elsewhere(d)
  BY <1>2, ElsewhereRule
<1>4. Shapes'
  BY <1>1, <1>2 DEF Shapes
<1>5. AddStays'
  BY <1>2 DEF IInv, AddStays
<1> DEFINE s == Own(d)
           t == Own(d)'
<1>6. /\ s.phase \in Loaded /\ (t.files # {} => s.has \cap Devices # {})
      /\ t.phase = s.phase /\ t.todo = s.todo /\ t.dev = s.dev /\ t.class = s.class
      /\ t.has = s.has /\ t.numbers = s.numbers
  BY <1>2 DEF Own, Devices
<1> HIDE DEF s, t
<1>7. DriverOK(d, t)
  BY <1>1, <1>6, OpenedDriver DEF s, Exposed
<1>8. Keeps(d, s) => Keeps(d, t)
  BY <1>6 DEF Keeps
<1> QED
  BY <1>2, <1>3, <1>4, <1>5, <1>7, <1>8, StepRule DEF s, t

-----------------------------------------------------------------------------
LEMMA IInvInit == Init => IInv
<1> SUFFICES ASSUME Init PROVE IInv
  OBVIOUS
<1>1. Shapes
  BY DriverNames DEF Init, Shapes
<1>2. AddStays /\ ClassesOK
  BY DriverNames DEF Init, AddStays, ClassesOK
<1>3. ASSUME NEW d \in Drivers PROVE DriverOK(d, Own(d))
  <2> DEFINE s == Own(d)
  <2>1. "other" # d /\ "free" # d
    BY DriverNames
  <2>2. \A m \in Majors : registry[m] # d
    BY <2>1 DEF Init
  <2>3. /\ s.phase = "absent" /\ s.todo = <<>> /\ s.dev = 0 /\ s.class = "null"
        /\ s.has = {} /\ s.files = {}
    BY DEF Own, Init
  <2>4. s.numbers = {}
    BY <2>2 DEF Own
  <2> HIDE DEF s
  <2>5. DriverOK(d, s)
    BY <2>3, <2>4 DEF DriverOK
  <2> QED
    BY <2>5 DEF s
<1> QED
  BY <1>1, <1>2, <1>3 DEF IInv

LEMMA IInvNext == IInv /\ [Next]_vars => IInv'
<1> SUFFICES ASSUME IInv, [Next]_vars PROVE IInv'
  OBVIOUS
<1>1. ASSUME NEW d \in present,
             Insert(d) \/ Remove(d) \/ Return(d) \/ Open(d) \/ Release(d)
      PROVE  IInv'
  BY <1>1, InsertStep, RemoveStep, ReturnStep, FileStep
<1>2. ASSUME NEW d \in present, Statement(d) PROVE IInv'
  BY <1>2, AllocRegionStep, RegisterRegionStep, RegisterChrdevStep, UnregisterRegionStep,
     UnregisterChrdevStep, AcquireStep, InitialiseStep, DiscardStep, ClassCreateStep,
     ClassCreateLostStep, DeviceCreateStep, StartThreadStep, DeviceDestroyStep,
     ClassDestroyStep, CallAddStep DEF Statement
<1>3. CASE UNCHANGED vars
  <2>1. UNCHANGED <<present, phase, todo, dev, dev_class, has, registry, classes, opened>>
    BY <1>3 DEF vars, own, tables
  <2>2. \A d : Own(d)' = Own(d)
    BY <2>1 DEF Own
  <2>3. \A d \in Drivers : DriverOK(d, Own(d))'
    BY <2>2 DEF IInv
  <2>4. Shapes' /\ AddStays'
    BY <2>1 DEF IInv, Shapes, AddStays
  <2>5. \A d : Keeps(d, Own(d)) => Keeps(d, Own(d))'
    BY <2>2
  <2>6. ClassesOK'
    BY <2>1, <2>5 DEF IInv, ClassesOK
  <2> QED
    BY <2>3, <2>4, <2>6 DEF IInv
<1> QED
  BY <1>1, <1>2, <1>3 DEF Next

(* The invariant holds in every reachable state. *)
THEOREM Invariance == Spec => []IInv
BY IInvInit, IInvNext, PTL DEF Spec

-----------------------------------------------------------------------------
(* The state is well typed, and what is left of a driver's statements is   *)
(* the end of one of its lists (the init and exit functions, line by line).*)
THEOREM TypeCorrect == Spec => []TypeOK
<1>1. IInv => TypeOK
  <2> SUFFICES ASSUME IInv, NEW d \in Drivers
               PROVE  IF phase[d] \in {"init", "undo", "exit"}
                      THEN \E p \in Lists(d) : \E i \in 1..(Len(p) + 1) :
                             todo[d] = SubSeq(p, i, Len(p))
                      ELSE todo[d] = <<>>
    BY DEF IInv, Shapes, TypeOK, Lists
  <2> DEFINE s == Own(d)
  <2>1. s.phase = phase[d] /\ s.todo = todo[d]
    BY DEF Own
  <2>2. DriverOK(d, s) /\ ProgramOK(d)
    BY ProgramFacts DEF IInv
  <2> HIDE DEF s
  <2>3. CASE s.phase = "init"
    <3> DEFINE p == Program[d].init
               n == Executed(d, s)
    <3>1. n \in 0..Len(p) /\ s.todo = SubSeq(p, n + 1, Len(p)) /\ p \in Lists(d)
      BY <2>2, <2>3 DEF DriverOK, Building, Lists
    <3>2. Len(p) \in Nat
      BY <2>2 DEF ProgramOK, InitOrder, IsList
    <3> HIDE DEF p, n
    <3>3. n + 1 \in 1..(Len(p) + 1)
      BY <3>1, <3>2
    <3> QED
      BY <2>1, <2>3, <3>1, <3>3
  <2>4. CASE s.phase \in {"undo", "exit"}
    <3>1. \E p \in Lists(d) : \E i \in 1..(Len(p) + 1) : s.todo = SubSeq(p, i, Len(p))
      BY <2>2, <2>4 DEF DriverOK, Releasing
    <3> QED
      BY <2>1, <2>4, <3>1
  <2>5. CASE s.phase \notin {"init", "undo", "exit"}
    BY <2>1, <2>2, <2>5 DEF DriverOK
  <2> QED
    BY <2>3, <2>4, <2>5
<1> QED
  BY Invariance, <1>1, PTL

(* However its init fails, and once it is removed, a driver has given back *)
(* its number, its devices and node, its GPIO line, its heap buffer and    *)
(* its class, but for the two exceptions that NothingLeft names.  (Threads *)
(* and timers are not among what Lifecycle counts.)                        *)
THEOREM TablesGivenBack == Spec => []NothingLeft
<1>1. IInv => NothingLeft
  <2> SUFFICES ASSUME IInv PROVE NothingLeft
    OBVIOUS
  <2>1. ASSUME NEW d \in Drivers, phase[d] = "absent"
        PROVE  /\ \A m \in Majors : registry[m] # d
               /\ has[d] \subseteq (IF d = "multi2" THEN {"cdev_1"} ELSE {})
    <3> DEFINE s == Own(d)
    <3>1. /\ s.phase = phase[d] /\ s.has = has[d]
          /\ s.numbers = {m \in Majors : registry[m] = d}
      BY DEF Own
    <3>2. DriverOK(d, s)
      BY DEF IInv
    <3> HIDE DEF s
    <3>3. s.numbers = {} /\ s.has \subseteq (IF d = "multi2" THEN {"cdev_1"} ELSE {})
      BY <2>1, <3>1, <3>2 DEF DriverOK
    <3> QED
      BY <3>1, <3>3
  <2>2. ASSUME NEW c \in classes
        PROVE  \E d \in present :
                 Program[d].class = c /\ (phase[d] # "absent" \/ d = "timers")
    <3>1. CASE c = "dr_class" /\ "timers" \in present
      <4>1. "timers" \in Drivers
        BY DriverNames
      <4>2. Program["timers"].class = "dr_class"
        BY <4>1, ProgramFacts DEF ProgramOK, Names
      <4> QED
        BY <3>1, <4>2
    <3>2. CASE \E d \in present : Program[d].class = c /\ Keeps(d, Own(d))
      BY <3>2 DEF Keeps, Own
    <3> QED
      BY <3>1, <3>2 DEF IInv, ClassesOK
  <2> QED
    BY <2>1, <2>2 DEF NothingLeft
<1> QED
  BY Invariance, <1>1, PTL

(* A device that can be opened is on its driver's own number, whatever     *)
(* numbers the others ask for and give back.                               *)
THEOREM DevicesOwnNumber == Spec => []DeviceOnOwnNumber
<1>1. IInv => DeviceOnOwnNumber
  <2> SUFFICES ASSUME IInv, NEW d \in Drivers \ {"ioctldev"},
                      NEW r \in Devices, r \in has[d],
                      d = "multi2" => phase[d] \notin {"undo", "absent"}
               PROVE  dev[d] # 0 /\ registry[dev[d]] = d
    BY DEF DeviceOnOwnNumber, Devices
  <2> DEFINE s == Own(d)
  <2>1. /\ s.phase = phase[d] /\ s.has = has[d] /\ s.dev = dev[d]
        /\ s.numbers = {m \in Majors : registry[m] = d}
    BY DEF Own
  <2>2. DriverOK(d, s) /\ ProgramOK(d)
    BY ProgramFacts DEF IInv
  <2> HIDE DEF s
  <2>3. r \in Held /\ Holds(s, r) /\ r # "memory" /\ d \notin {"mmst", "dmmn"}
    BY <2>1, <2>2 DEF DriverOK, Devices, Held, Resources, Holds
  <2>4. NumberOK(d, s) => s.dev \in s.numbers
    BY <2>3 DEF NumberOK
  <2>5. ASSUME s.phase \in {"init", "live"} PROVE s.dev \in s.numbers
    <3> DEFINE p == Program[d].init
               n == Executed(d, s)
    <3>1. /\ n \in 0..Len(p)
          /\ \A k \in 1..n : p[k].op \in NumberOps => NumberOK(d, s)
          /\ Holds(s, r) => \E k \in 1..n : Gets(p[k].op, r)
      BY <2>2, <2>3, <2>5 DEF DriverOK, Building
    <3>2. Len(p) \in Nat
      BY <2>2 DEF ProgramOK, InitOrder, IsList
    <3>3. PICK k \in 1..n : Gets(p[k].op, r)
      BY <2>3, <3>1
    <3>4. k \in 1..Len(p) /\ 1..k \subseteq 1..n
      BY <3>1, <3>2
    <3>5. \E j \in 1..k : p[j].op \in NumberOps
      BY <2>2, <3>3, <3>4 DEF ProgramOK, DeviceOrder
    <3> QED
      BY <2>4, <3>1, <3>4, <3>5
  <2>6. ASSUME s.phase \in {"undo", "exit"} PROVE s.dev \in s.numbers
    <3>1. Releasing(d, s)
      BY <2>2, <2>6 DEF DriverOK
    <3>2. \E i \in 1..Len(s.todo) : Frees(s.todo[i].op, r)
      BY <2>1, <2>3, <3>1 DEF Releasing
    <3>3. s.todo # <<>>
      BY <3>2
    <3> QED
      BY <2>4, <3>1, <3>3 DEF Releasing
  <2>7. ASSUME s.phase = "absent" PROVE s.dev \in s.numbers
    BY <2>1, <2>2, <2>7 DEF DriverOK
  <2>8. ASSUME s.phase = "oopsed" PROVE s.dev \in s.numbers
    BY <2>2, <2>8 DEF DriverOK
  <2>9. s.dev \in s.numbers
    BY <2>2, <2>5, <2>6, <2>7, <2>8 DEF DriverOK
  <2> QED
    BY <2>1, <2>9, MajorsAssumption DEF Majors, StaticMajors
<1> QED
  BY Invariance, <1>1, PTL

(* A file operation finds what it uses initialised, and its module there.  *)
THEOREM FilesServed == Spec => []OpenFileIsServed
<1>1. IInv => OpenFileIsServed
  <2> SUFFICES ASSUME IInv, NEW d \in opened
               PROVE  /\ phase[d] # "exit"
                      /\ phase[d] = "live" => "memory" \in has[d]
                      /\ phase[d] \in {"init", "undo"} /\ d \notin DeviceFirst
                           => "memory" \in has[d]
                      /\ phase[d] = "absent" => d \in FailsAfterDevice
    BY DEF OpenFileIsServed
  <2> DEFINE s == Own(d)
  <2>1. s.phase = phase[d] /\ s.has = has[d] /\ s.files # {}
    BY DEF Own
  <2>2. d \in Drivers
    BY DEF IInv, Shapes
  <2>3. DriverOK(d, s) /\ ProgramOK(d)
    BY <2>2, ProgramFacts DEF IInv
  <2> HIDE DEF s
  <2>4. CASE s.phase \in {"init", "live"}
    <3> DEFINE p == Program[d].init
               n == Executed(d, s)
    <3>1. /\ n \in 0..Len(p)
          /\ \A k \in 1..n : Gets(p[k].op, "memory") => "memory" \in s.has
          /\ s.files # {} => \E k \in 1..n, r \in Devices : Gets(p[k].op, r)
      BY <2>3, <2>4 DEF DriverOK, Building
    <3>2. Len(p) \in Nat
      BY <2>3 DEF ProgramOK, InitOrder, IsList
    <3>3. PICK k \in 1..n, r \in Devices : Gets(p[k].op, r)
      BY <2>1, <3>1
    <3>4. k \in 1..Len(p) /\ 1..(k - 1) \subseteq 1..n
      BY <3>1, <3>2
    <3>5. /\ d \notin DeviceFirst => \E j \in 1..(k - 1) : Gets(p[j].op, "memory")
          /\ \E j \in 1..Len(p) : Gets(p[j].op, "memory")
      BY <2>3, <3>3, <3>4 DEF ProgramOK, DeviceOrder
    <3>6. s.phase = "live" => n = Len(p)
      BY <2>3, Completed DEF DriverOK
    <3> QED
      BY <2>1, <2>4, <3>1, <3>4, <3>5, <3>6
  <2>5. CASE s.phase \in {"undo", "exit"}
    <3>1. Releasing(d, s)
      BY <2>3, <2>5 DEF DriverOK
    <3> QED
      BY <2>1, <2>5, <3>1 DEF Releasing, Exposed
  <2>6. CASE s.phase \in {"absent", "oopsed"}
    BY <2>1, <2>3, <2>6 DEF DriverOK
  <2> QED
    BY <2>1, <2>3, <2>4, <2>5, <2>6 DEF DriverOK
<1> QED
  BY Invariance, <1>1, PTL

(* Only the two wait-queue drivers can kill their insmod or rmmod, and one *)
(* that is killed keeps its number.                                        *)
THEOREM Survival == Spec => []OthersSurvive
<1>1. ASSUME IInv, NEW d \in Drivers, phase[d] = "oopsed"
      PROVE  d \in {"dynquedr", "staquedr"} /\ dev[d] # 0 /\ registry[dev[d]] = d
  <2>1. /\ DriverOK(d, Own(d)) /\ Own(d).phase = "oopsed" /\ Own(d).dev = dev[d]
        /\ Own(d).numbers = {m \in Majors : registry[m] = d}
    BY <1>1 DEF IInv, Own
  <2>2. d \in Classed /\ dev[d] \in Majors /\ registry[dev[d]] = d
    BY <2>1 DEF DriverOK
  <2>3. 0 \notin Majors
    BY MajorsAssumption DEF Majors, StaticMajors
  <2> QED
    BY <2>2, <2>3 DEF Classed
<1>2. IInv => OthersSurvive
  BY <1>1 DEF OthersSurvive
<1> QED
  BY Invariance, <1>2, PTL

(* No driver gives away a number that another one has: led_driver and      *)
(* chardev, which ask for the same, included.                              *)
THEOREM GivenBackByOwner == Spec => OwnersGiveBack
<1> DEFINE ByOwner ==
      \A m \in Majors :
        registry'[m] # registry[m] =>
          \/ registry[m] = "free"
          \/ registry[m] \in Drivers /\ phase[registry[m]] \in {"undo", "exit"}
          \/ m = 269 /\ phase["mmst"] = "exit"
<1>1. ASSUME IInv, NEW d \in present,
             UnregisterRegion(d) \/ UnregisterChrdev(d)
      PROVE  ByOwner
  <2> SUFFICES ASSUME NEW m \in Majors, registry'[m] # registry[m]
               PROVE  \/ registry[m] \in Drivers /\ phase[registry[m]] \in {"undo", "exit"}
                      \/ m = 269 /\ phase["mmst"] = "exit"
    OBVIOUS
  <2>1. PICK op \in {"unregister", "unregister_chrdev"} : At(d, op)
    BY <1>1 DEF UnregisterRegion, UnregisterChrdev
  <2>2. op \in ExitOps
    BY DEF ExitOps
  <2>3. d \in Drivers /\ phase[d] \in {"undo", "exit"} /\ NumberOK(d, Own(d))
    BY <1>1, <2>1, <2>2, AtStatement
  <2>4. d = "mmst" => dev[d] \in {0, 269} /\ phase[d] # "undo"
    BY <1>1, <2>3, OwnNumber
  <2>5. m = dev[d] /\ m # 0
    BY <1>1, MajorsAssumption
    DEF UnregisterRegion, UnregisterChrdev, IInv, Shapes, Majors, StaticMajors
  <2>6. CASE registry[m] = d
    BY <2>3, <2>6
  <2>7. CASE registry[m] # d
    <3>1. d = "mmst"
      BY <2>3, <2>5, <2>7 DEF NumberOK, Own
    <3> QED
      BY <2>3, <2>4, <2>5, <3>1
  <2> QED
    BY <2>6, <2>7
<1>2. ASSUME IInv, NEW d \in present,
             AllocRegion(d) \/ RegisterRegion(d) \/ RegisterChrdev(d)
      PROVE  ByOwner
  BY <1>2 DEF AllocRegion, RegisterRegion, RegisterChrdev, FreeMajors, IInv, Shapes
<1>3. ASSUME NEW d \in present,
             \/ Insert(d) \/ Remove(d) \/ Return(d) \/ Open(d) \/ Release(d)
             \/ Acquire(d) \/ Initialise(d) \/ Discard(d)
             \/ ClassCreate(d) \/ ClassCreateLost(d) \/ DeviceCreate(d) \/ StartThread(d)
             \/ DeviceDestroy(d) \/ ClassDestroy(d) \/ CallAdd(d)
      PROVE  ByOwner
  BY <1>3 DEF Insert, Remove, Return, Open, Release, Acquire, Initialise, Discard,
     ClassCreate, ClassCreateLost, DeviceCreate, StartThread, DeviceDestroy,
     ClassDestroy, CallAdd, tables
<1>4. ASSUME UNCHANGED vars PROVE ByOwner
  BY <1>4 DEF vars, tables
<1>5. IInv /\ [Next]_vars => ByOwner
  BY <1>1, <1>2, <1>3, <1>4 DEF Next, Statement
<1>6. IInv /\ [Next]_vars => [ByOwner]_vars
  BY <1>5
<1> QED
  BY Invariance, <1>6, PTL DEF Spec, OwnersGiveBack

=============================================================================
