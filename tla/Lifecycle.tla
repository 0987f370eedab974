------------------------------ MODULE Lifecycle ------------------------------
(***************************************************************************)
(* The init and exit functions of the drivers, loaded and removed side by  *)
(* side.  They meet in the kernel's tables: device numbers (two drivers    *)
(* ask for number 240, and 240 is also one that the kernel gives away),    *)
(* class names (two create "dr_class") and module names (two are called    *)
(* "ioctl").  Each acquisition may fail, and the drivers differ in whether *)
(* they look at the result and in what they give back when they do.        *)
(*                                                                         *)
(* A driver is a list of statements for init and one for exit; Program     *)
(* lists them as the sources have them.  A statement that can fail comes   *)
(* with what the source does then: Checked names the statements it rolls   *)
(* back with before init returns its error, Ignored goes on.               *)
(*                                                                         *)
(* External to the repository, and modelled from how the drivers call it:  *)
(* insmod and rmmod, the reference count that an open file holds through   *)
(* fops.owner, and the functions behind the statements.                    *)
(***************************************************************************)
EXTENDS Integers, Sequences, FiniteSets

CONSTANTS
  DynamicMajors,   (* the numbers alloc_chrdev_region gives away          *)
  Others,          (* the numbers that other drivers of the kernel may hold *)
  MaxDrivers       (* bound: how many of the drivers take part            *)

StaticMajors == {240, 269}
Majors       == DynamicMajors \cup StaticMajors

(* The kernel gives away numbers from 254 down to 234 and then from 511    *)
(* down to 384: 240 is among them, 269 is not.                             *)
ASSUME MajorsAssumption ==
  /\ DynamicMajors \subseteq Nat \ {0, 269}
  /\ Others \subseteq Majors
ASSUME BoundAssumption  == MaxDrivers \in Nat

-----------------------------------------------------------------------------
(* The sources' statements. *)

Checked(op, undo) == [op |-> op, undo |-> undo, checked |-> TRUE]
Ignored(op)       == [op |-> op, undo |-> <<>>, checked |-> FALSE]
All(ops)          == [i \in DOMAIN ops |-> Ignored(ops[i])]

Unregister == All(<<"unregister">>)

(* previousyear/ioctl.c.  When the second device cannot be added the first *)
(* one stays.                                                              *)
multi2 ==
  [name |-> "ioctl", major |-> 0, class |-> "none",
   init |-> << Checked("alloc", <<>>), Ignored("memory"),
               Checked("cdev_1", Unregister), Checked("cdev_2", Unregister) >>,
   exit |-> All(<<"del_cdev_1", "del_cdev_2", "unregister">>)]

(* previous2/chardr.c.  Its queue and semaphore come after the device.     *)
chardr ==
  [name |-> "chardr", major |-> 0, class |-> "none",
   init |-> << Checked("alloc", <<>>), Checked("cdev_1", Unregister), Ignored("memory") >>,
   exit |-> All(<<"del_cdev_1", "unregister">>)]

(* waitqueues/dynamic.  class_create, device_create and kthread_create     *)
(* report a failure by an error pointer; compared with NULL it passes.     *)
dynquedr ==
  [name |-> "dynquedr", major |-> 0, class |-> "dr_class",
   init |-> << Checked("alloc", <<>>), Checked("cdev_1", Unregister),
               Ignored("class"), Ignored("node"), Ignored("memory"), Ignored("thread") >>,
   exit |-> All(<<"del_node", "del_class", "del_cdev_1", "unregister">>)]

(* waitqueues/static: the same, with a queue that is there from the start. *)
staquedr ==
  [name |-> "staquedr", major |-> 0, class |-> "sta_dev",
   init |-> << Ignored("memory"), Checked("alloc", <<>>), Checked("cdev_1", Unregister),
               Ignored("class"), Ignored("node"), Ignored("thread") >>,
   exit |-> dynquedr.exit]

(* Mutant: the parentheses of line 101 are right and the test stays one    *)
(* against NULL, so that a failing class_create leaves an error pointer.   *)
timersKeepsError ==
  [name |-> "DrTimer", major |-> 0, class |-> "dr_class",
   init |-> << Ignored("memory"), Checked("alloc", <<>>), Checked("cdev_1", Unregister),
               Ignored("class"), Ignored("node") >>,
   exit |-> dynquedr.exit]

(* timers/timers.c: dev_class becomes the result of the comparison, which  *)
(* is 0 whether the class was created or not.                              *)
timers ==
  [name |-> "DrTimer", major |-> 0, class |-> "dr_class",
   init |-> << Ignored("memory"), Checked("alloc", <<>>), Checked("cdev_1", Unregister),
               Ignored("class_lost"), Ignored("node") >>,
   exit |-> dynquedr.exit]

(* previous3/led_driver.c.  RearmTimer has the timer and the levels of the *)
(* line.                                                                   *)
led_driver ==
  [name |-> "led_driver", major |-> 240, class |-> "none",
   init |-> << Ignored("memory"), Checked("register_chrdev", <<>>),
               Checked("line", All(<<"unregister_chrdev">>)) >>,
   exit |-> All(<<"free_line", "unregister_chrdev">>)]

(* Mutant: the result of register_chrdev is ignored. *)
chardevIgnores ==
  [name |-> "chardev", major |-> 240, class |-> "none",
   init |-> << Ignored("memory"), Ignored("register_chrdev") >>,
   exit |-> All(<<"unregister_chrdev">>)]

(* previousyear1/chardev.c *)
chardev ==
  [name |-> "chardev", major |-> 240, class |-> "none",
   init |-> << Ignored("memory"), Checked("register_chrdev", <<>>) >>,
   exit |-> All(<<"unregister_chrdev">>)]

(* Mutant: a failed kmalloc rolls back with unregister alone. *)
chrdevdrKeepsDevice ==
  [name |-> "chrdevdr", major |-> 0, class |-> "none",
   init |-> << Checked("alloc", <<>>), Checked("cdev_1", Unregister),
               Checked("kmalloc", Unregister), Ignored("memory") >>,
   exit |-> All(<<"kfree", "del_cdev_1", "unregister">>)]

(* chardevdriver/chrdevdr.c.  Its memory comes after the device and goes   *)
(* before it; it is initialised by a strcpy after kmalloc.                 *)
chrdevdr ==
  [name |-> "chrdevdr", major |-> 0, class |-> "none",
   init |-> << Checked("alloc", <<>>), Checked("cdev_1", Unregister),
               Checked("kmalloc", All(<<"del_cdev_1", "unregister">>)),
               Ignored("memory") >>,
   exit |-> All(<<"kfree", "del_cdev_1", "unregister">>)]

(* ioctldev/ioctl.c *)
ioctldev ==
  [name |-> "ioctl", major |-> 0, class |-> "none",
   init |-> << Ignored("memory"), Ignored("alloc"), Ignored("cdev_1") >>,
   exit |-> All(<<"del_cdev_1", "unregister">>)]

(* static/mmst.c *)
mmst ==
  [name |-> "mmst", major |-> 269, class |-> "none",
   init |-> << Ignored("register") >>, exit |-> Unregister]

(* dynamic/dmmn.c, and static/dyn.c, which is the same.                    *)
dmmn ==
  [name |-> "dmmn", major |-> 0, class |-> "none",
   init |-> << Ignored("alloc") >>, exit |-> Unregister]

(* devfile/mndvf/mndvf.c *)
mndvf ==
  [name |-> "mndvf", major |-> 0, class |-> "none",
   init |-> << Checked("alloc", <<>>) >>, exit |-> Unregister]

(* modprobe: three modules that export a function and have neither init    *)
(* nor exit, and one whose init calls add three times, also where it       *)
(* prints a difference and a product.                                      *)
Exporter(name) ==
  [name |-> name, major |-> 0, class |-> "none", init |-> <<>>, exit |-> <<>>]

add == Exporter("add")
sub == Exporter("sub")
mul == Exporter("mul")

test ==
  [name |-> "test", major |-> 0, class |-> "none",
   init |-> All(<<"call_add", "call_add", "call_add">>), exit |-> <<>>]

Program ==
  [multi2 |-> multi2, chardr |-> chardr, dynquedr |-> dynquedr, staquedr |-> staquedr,
   timers |-> timers, led_driver |-> led_driver, chardev |-> chardev,
   chrdevdr |-> chrdevdr, ioctldev |-> ioctldev, mmst |-> mmst, dmmn |-> dmmn,
   mndvf |-> mndvf, add |-> add, sub |-> sub, mul |-> mul, test |-> test]

Drivers == DOMAIN Program

(* The modules whose symbols a module uses.  *)
Uses(d) == IF d = "test" THEN {"add"} ELSE {}

-----------------------------------------------------------------------------
VARIABLES
  present,     (* the drivers that take part                              *)
  phase,       (* absent, init, undo, live, exit or oopsed                *)
  todo,        (* the statements that init or exit has still to execute   *)
  dev,         (* the driver's dev_t: its major number, 0 for none        *)
  dev_class,   (* the driver's pointer: "null", "error" or "class"        *)
  has,         (* what the driver holds besides: devices, node, line, a   *)
               (* heap buffer; and "memory": what its file operations use *)
               (* is there and initialised                                *)
  registry,    (* who has which major number: a driver, "other" or "free" *)
  classes,     (* the class names in use                                  *)
  opened       (* the drivers with an open file                           *)

tables == <<registry, classes>>
own    == <<dev, dev_class, has>>
vars   == <<present, phase, todo, own, tables, opened>>

Init ==
  /\ present \in {D \in SUBSET Drivers : Cardinality(D) = MaxDrivers}
  /\ phase = [d \in Drivers |-> "absent"]
  /\ todo = [d \in Drivers |-> <<>>]
  /\ dev = [d \in Drivers |-> 0]
  /\ dev_class = [d \in Drivers |-> "null"]
  /\ has = [d \in Drivers |-> {}]
  /\ registry \in {[m \in Majors |-> IF m \in held THEN "other" ELSE "free"] :
                     held \in SUBSET Others}
  /\ classes = {}
  /\ opened = {}

-----------------------------------------------------------------------------
(* insmod and rmmod *)

(* No two modules of one name are loaded at once, and a module comes after *)
(* the modules it uses.  What a driver does that left a device or an open  *)
(* file behind when its memory was freed is undefined, and behaviours end  *)
(* there for it.                                                           *)
Insert(d) ==
  /\ phase[d] = "absent"
  /\ \A e \in Drivers \ {d} :
       Program[e].name = Program[d].name => phase[e] = "absent"
  /\ \A e \in Uses(d) : phase[e] = "live"
  /\ has[d] = {}
  /\ d \notin opened
  /\ phase' = [phase EXCEPT ![d] = "init"]
  /\ todo' = [todo EXCEPT ![d] = Program[d].init]
  /\ dev' = [dev EXCEPT ![d] = Program[d].major]
  /\ dev_class' = [dev_class EXCEPT ![d] = "null"]
  /\ UNCHANGED <<present, has, tables, opened>>

(* Mutant: a driver without fops.owner. *)
RemoveForced(d) ==
  /\ phase[d] = "live"
  /\ \A e \in Drivers : d \in Uses(e) => phase[e] = "absent"
  /\ phase' = [phase EXCEPT ![d] = "exit"]
  /\ todo' = [todo EXCEPT ![d] = Program[d].exit]
  /\ UNCHANGED <<present, own, tables, opened>>

(* An open file keeps the module from being removed, and so does a module  *)
(* that uses it.                                                           *)
Remove(d) ==
  /\ phase[d] = "live"
  /\ d \notin opened
  /\ \A e \in Drivers : d \in Uses(e) => phase[e] = "absent"
  /\ phase' = [phase EXCEPT ![d] = "exit"]
  /\ todo' = [todo EXCEPT ![d] = Program[d].exit]
  /\ UNCHANGED <<present, own, tables, opened>>

(* Mutant: init or exit returns in the middle of its statements. *)
ReturnEarly(d) ==
  /\ phase[d] \in {"init", "undo", "exit"}
  /\ phase' = [phase EXCEPT ![d] = IF @ = "init" THEN "live" ELSE "absent"]
  /\ UNCHANGED <<present, todo, own, tables, opened>>

(* The end of init, of a roll-back and of exit.  The module's own memory   *)
(* goes with the last two; what it has from kmalloc does not.              *)
Return(d) ==
  /\ phase[d] \in {"init", "undo", "exit"}
  /\ todo[d] = <<>>
  /\ phase' = [phase EXCEPT ![d] = IF @ = "init" THEN "live" ELSE "absent"]
  /\ has' = [has EXCEPT ![d] = IF phase[d] = "init" THEN @ ELSE @ \ {"memory"}]
  /\ UNCHANGED <<present, todo, dev, dev_class, tables, opened>>

-----------------------------------------------------------------------------
(* open and release.  A module that is being removed cannot be opened.     *)

Loaded == {"init", "undo", "live"}

Open(d) ==
  /\ phase[d] \in Loaded
  /\ has[d] \cap {"cdev_1", "cdev_2"} # {}
  /\ opened' = opened \cup {d}
  /\ UNCHANGED <<present, phase, todo, own, tables>>

Release(d) ==
  /\ phase[d] \in Loaded
  /\ d \in opened
  /\ opened' = opened \ {d}
  /\ UNCHANGED <<present, phase, todo, own, tables>>

-----------------------------------------------------------------------------
(* The statements.  Every one ends in Continue, Fail or Oops.              *)

At(d, op) == todo[d] # <<>> /\ Head(todo[d]).op = op

Continue(d) ==
  /\ todo' = [todo EXCEPT ![d] = Tail(@)]
  /\ UNCHANGED <<present, phase, opened>>

Fail(d) ==
  LET s == Head(todo[d]) IN
  IF s.checked
  THEN /\ todo' = [todo EXCEPT ![d] = s.undo]
       /\ phase' = [phase EXCEPT ![d] = "undo"]
       /\ UNCHANGED <<present, opened>>
  ELSE Continue(d)

(* The kernel kills the process that runs the statement.                   *)
Oops(d) ==
  /\ phase' = [phase EXCEPT ![d] = "oopsed"]
  /\ todo' = [todo EXCEPT ![d] = <<>>]
  /\ UNCHANGED <<present, opened>>

Hold(d, r)  == has' = [has EXCEPT ![d] = @ \cup {r}]
Drop(d, rs) == has' = [has EXCEPT ![d] = @ \ rs]

FreeMajors == {m \in Majors : registry[m] = "free"}

(* alloc_chrdev_region: the highest dynamic number that nobody has.        *)
AllocRegion(d) ==
  /\ At(d, "alloc")
  /\ \/ /\ \E m \in FreeMajors \cap DynamicMajors :
             /\ \A n \in FreeMajors \cap DynamicMajors : n <= m
             /\ registry' = [registry EXCEPT ![m] = d]
             /\ dev' = [dev EXCEPT ![d] = m]
        /\ Continue(d)
     \/ Fail(d) /\ UNCHANGED <<registry, dev>>
  /\ UNCHANGED <<classes, dev_class, has>>

(* register_chrdev_region of a number of the driver's choice.              *)
RegisterRegion(d) ==
  /\ At(d, "register")
  /\ \/ /\ dev[d] \in FreeMajors
        /\ registry' = [registry EXCEPT ![dev[d]] = d]
        /\ Continue(d)
     \/ Fail(d) /\ UNCHANGED registry
  /\ UNCHANGED <<classes, own>>

(* register_chrdev: a number of the driver's choice and the device on it.  *)
RegisterChrdev(d) ==
  /\ At(d, "register_chrdev")
  /\ \/ /\ dev[d] \in FreeMajors
        /\ registry' = [registry EXCEPT ![dev[d]] = d]
        /\ Hold(d, "cdev_1")
        /\ Continue(d)
     \/ Fail(d) /\ UNCHANGED <<registry, has>>
  /\ UNCHANGED <<classes, dev, dev_class>>

(* __unregister_chrdev_region asks for the number and not for the owner.   *)
UnregisterRegion(d) ==
  /\ At(d, "unregister")
  /\ registry' = [m \in Majors |-> IF m = dev[d] THEN "free" ELSE registry[m]]
  /\ Continue(d)
  /\ UNCHANGED <<classes, own>>

UnregisterChrdev(d) ==
  /\ At(d, "unregister_chrdev")
  /\ registry' = [registry EXCEPT ![dev[d]] = "free"]
  /\ Drop(d, {"cdev_1"})
  /\ Continue(d)
  /\ UNCHANGED <<classes, dev, dev_class>>

(* cdev_add, kmalloc and gpio_request: what can fail and is the driver's   *)
(* alone.                                                                  *)
Acquire(d) ==
  /\ \E r \in {"cdev_1", "cdev_2", "line", "kmalloc"} :
       /\ At(d, r)
       /\ \/ Hold(d, IF r = "kmalloc" THEN "heap" ELSE r) /\ Continue(d)
          \/ Fail(d) /\ UNCHANGED has
  /\ UNCHANGED <<tables, dev, dev_class>>

(* init_waitqueue_head, sema_init, memset, strcpy: what the file           *)
(* operations use is initialised, or was when the module was loaded.       *)
Initialise(d) ==
  /\ At(d, "memory")
  /\ Hold(d, "memory")
  /\ Continue(d)
  /\ UNCHANGED <<tables, dev, dev_class>>

Discarded ==
  [del_cdev_1 |-> {"cdev_1"}, del_cdev_2 |-> {"cdev_2"}, free_line |-> {"line"},
   kfree |-> {"heap", "memory"}]

(* cdev_del, gpio_free and kfree *)
Discard(d) ==
  /\ \E x \in DOMAIN Discarded : At(d, x) /\ Drop(d, Discarded[x])
  /\ Continue(d)
  /\ UNCHANGED <<tables, dev, dev_class>>

(* class_create refuses a name that is in use.                             *)
ClassCreate(d) ==
  /\ At(d, "class")
  /\ \/ /\ Program[d].class \notin classes
        /\ classes' = classes \cup {Program[d].class}
        /\ dev_class' = [dev_class EXCEPT ![d] = "class"]
        /\ Continue(d)
     \/ /\ dev_class' = [dev_class EXCEPT ![d] = "error"]
        /\ Fail(d)
        /\ UNCHANGED classes
  /\ UNCHANGED <<registry, dev, has>>

(* dev_class = class_create(...) == NULL                                   *)
ClassCreateLost(d) ==
  /\ At(d, "class_lost")
  /\ classes' \in {classes, classes \cup {Program[d].class}}
  /\ Continue(d)
  /\ UNCHANGED <<registry, own>>

DeviceCreate(d) ==
  /\ At(d, "node")
  /\ \/ dev_class[d] = "class" /\ Hold(d, "node") /\ Continue(d)
     \/ Fail(d) /\ UNCHANGED has
  /\ UNCHANGED <<tables, dev, dev_class>>

(* kthread_create, and wake_up_process of what it returned.                *)
StartThread(d) ==
  /\ At(d, "thread")
  /\ Continue(d) \/ Oops(d)
  /\ UNCHANGED <<tables, own>>

(* device_destroy looks the device up in the class it is given.            *)
DeviceDestroy(d) ==
  /\ At(d, "del_node")
  /\ \/ dev_class[d] = "error" /\ Oops(d) /\ UNCHANGED has
     \/ dev_class[d] # "error" /\ Continue(d) /\ Drop(d, {"node"})
  /\ UNCHANGED <<tables, dev, dev_class>>

(* class_destroy accepts NULL. *)
ClassDestroy(d) ==
  /\ At(d, "del_class")
  /\ classes' = IF dev_class[d] = "class" THEN classes \ {Program[d].class} ELSE classes
  /\ Continue(d)
  /\ UNCHANGED <<registry, own>>

(* A call into a module whose code is not there. *)
CallAdd(d) ==
  /\ At(d, "call_add")
  /\ IF phase["add"] = "live" THEN Continue(d) ELSE Oops(d)
  /\ UNCHANGED <<tables, own>>

-----------------------------------------------------------------------------
Statement(d) ==
  \/ AllocRegion(d) \/ RegisterRegion(d) \/ RegisterChrdev(d)
  \/ UnregisterRegion(d) \/ UnregisterChrdev(d)
  \/ Acquire(d) \/ Initialise(d) \/ Discard(d)
  \/ ClassCreate(d) \/ ClassCreateLost(d) \/ DeviceCreate(d) \/ StartThread(d)
  \/ DeviceDestroy(d) \/ ClassDestroy(d) \/ CallAdd(d)

Next ==
  \E d \in present :
    Insert(d) \/ Remove(d) \/ Return(d) \/ Open(d) \/ Release(d) \/ Statement(d)

Spec == Init /\ [][Next]_vars

-----------------------------------------------------------------------------
Resources == {"cdev_1", "cdev_2", "line", "heap", "memory", "node"}

TypeOK ==
  /\ present \subseteq Drivers
  /\ phase \in [Drivers -> {"absent", "init", "undo", "live", "exit", "oopsed"}]
  /\ dev \in [Drivers -> Majors \cup {0}]
  /\ dev_class \in [Drivers -> {"null", "error", "class"}]
  /\ has \in [Drivers -> SUBSET Resources]
  /\ registry \in [Majors -> Drivers \cup {"other", "free"}]
  /\ classes \subseteq {"dr_class", "sta_dev"}
  /\ opened \subseteq present
  /\ \A d \in Drivers :
       IF phase[d] \in {"init", "undo", "exit"}
       THEN \E p \in {Program[d].init, Program[d].exit}
                     \cup {Program[d].init[i].undo : i \in DOMAIN Program[d].init} :
              \E i \in 1..(Len(p) + 1) : todo[d] = SubSeq(p, i, Len(p))
       ELSE todo[d] = <<>>

(* A driver whose init failed, or that was removed, has given back its     *)
(* number, its devices and their node, its GPIO line, its heap buffer and  *)
(* its class, whichever of its steps failed.  Two do not: multi2 keeps its *)
(* first device when the second cannot be added (previousyear/ioctl.c,     *)
(* line 106), and timers has no pointer to the class it created (timers.c, *)
(* line 101).  Kernel threads and timers are not among the resources here: *)
(* what becomes of them is a matter of EventThread and RearmTimer.         *)
NothingLeft ==
  /\ \A d \in Drivers :
       phase[d] = "absent" =>
         /\ \A m \in Majors : registry[m] # d
         /\ has[d] \subseteq (IF d = "multi2" THEN {"cdev_1"} ELSE {})
  /\ \A c \in classes : \E d \in present :
       Program[d].class = c /\ (phase[d] # "absent" \/ d = "timers")

(* What is open works on a number that belongs to its driver: no other     *)
(* driver has been given it, and none has unregistered it.  ioctldev looks *)
(* at no result and may put its device on a number it was refused; multi2's*)
(* first device outlives its number.                                       *)
DeviceOnOwnNumber ==
  \A d \in Drivers \ {"ioctldev"} :
    /\ has[d] \cap {"cdev_1", "cdev_2"} # {}
    /\ d = "multi2" => phase[d] \notin {"undo", "absent"}
    => dev[d] # 0 /\ registry[dev[d]] = d

(* A number changes hands only through its owner's own exit or roll-back.  *)
(* mmst alone unregisters 269 although it was refused (mmst.c, lines 11    *)
(* and 19), and so takes it from whoever has it.                           *)
OwnersGiveBack ==
  [][\A m \in Majors :
       registry'[m] # registry[m] =>
         \/ registry[m] = "free"
         \/ registry[m] \in Drivers /\ phase[registry[m]] \in {"undo", "exit"}
         \/ m = 269 /\ phase["mmst"] = "exit"]_vars

(* No insmod or rmmod is killed but that of the two wait-queue drivers,    *)
(* which compare the results of class_create and kthread_create with NULL  *)
(* (dynquedr.c, lines 145 and 166): timers, which makes the same test,     *)
(* survives a class name in use, because it loses the error pointer with   *)
(* the class.  And one that is killed has its number still, which nobody   *)
(* else is given after it.                                                 *)
OthersSurvive ==
  \A d \in Drivers :
    phase[d] = "oopsed" =>
      d \in {"dynquedr", "staquedr"} /\ dev[d] # 0 /\ registry[dev[d]] = d

DeviceFirst      == {"chardr", "dynquedr", "chrdevdr"}
FailsAfterDevice == {"multi2", "led_driver", "chrdevdr"}

(* A file operation finds its queue, semaphore or buffer: once init is     *)
(* over in every driver, although chrdevdr frees its buffer before its     *)
(* device, and from the first open in those that initialise before they    *)
(* add the device.  A file outlives its module only where a step fails     *)
(* after the device was added.                                             *)
OpenFileIsServed ==
  \A d \in opened :
    /\ phase[d] # "exit"
    /\ phase[d] = "live" => "memory" \in has[d]
    /\ phase[d] \in {"init", "undo"} /\ d \notin DeviceFirst => "memory" \in has[d]
    /\ phase[d] = "absent" => d \in FailsAfterDevice

=============================================================================
