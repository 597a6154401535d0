----------------------------- MODULE TimedOutput -----------------------------
(***************************************************************************)
(* The timed_output class: how a driver registers a device whose file      *)
(* "enable" appears in sysfs, and withdraws it, while processes read and   *)
(* write the file.  One of the drivers is the vibrator's, whose module     *)
(* initialisation and exit are here too; what its functions do once they   *)
(* are called is in module Vibrator.                                       *)
(*                                                                         *)
(* The driver core is outside: creating a class, a device or a file may    *)
(* fail, and device_remove_file waits for the accesses that are under way. *)
(***************************************************************************)
EXTENDS Integers

CONSTANTS
  Driver,         \* the drivers
  Motor,          \* those that are the vibrator's, one for each time its module is loaded
  User,           \* processes that open the file
  Null,           \* the driver data of a device that has none
  MaxIndex        \* bound of the model: drivers are loaded below that number

ASSUME TimedOutputAssumption ==
  /\ Motor \subseteq Driver /\ Motor # {}
  /\ Null \notin Driver
  /\ MaxIndex \in Nat

(* What mx6_motor_enable uses, and mx6_motor_init sets up. *)
Resource == {"gpio", "wklock", "lock"}

VARIABLES
  builtin,     \* is the class part of the kernel, or a module?
  initialised, \* has timed_output_init run?
  class,       \* timed_output_class: "none", "ok", or an "error" pointer
  device_count,
  pc,          \* where each driver is in registering or unregistering
  resource,    \* what it has set up for its functions
  index,       \* timed_output_dev.index
  dev, file,   \* does the device exist?  its file?
  number,      \* the minor number the device was created with
  orphan,      \* the devices whose class was unloaded before them
  drvdata,     \* the driver data of the device
  at, target,  \* where each user is in its access, and to whose file
  tdev         \* the driver data it has read

cvars == <<builtin, initialised, class, device_count>>
kvars == <<number, orphan>>
dvars == <<pc, resource, index, dev, file, kvars, drvdata>>
uvars == <<at, target, tdev>>
vars  == <<cvars, dvars, uvars>>

TypeOK ==
  /\ builtin \in BOOLEAN /\ initialised \in BOOLEAN
  /\ class \in {"none", "ok", "error"}
  /\ device_count \in Nat
  /\ pc \in [Driver -> {"out", "class", "index", "create", "create_file", "set_drvdata",
                        "in", "unwind", "drain", "destroy", "clear", "again", "gone", "oops"}]
  /\ resource \in [Driver -> SUBSET Resource]
  /\ index \in [Driver -> Nat] /\ number \in [Driver -> Nat]
  /\ orphan \in SUBSET Driver
  /\ dev \in [Driver -> BOOLEAN] /\ file \in [Driver -> BOOLEAN]
  /\ drvdata \in [Driver -> Driver \cup {Null}]
  /\ at \in [User -> {"outside", "entered", "resolved", "inside", "oops"}]
  /\ target \in [User -> Driver]
  /\ tdev \in [User -> Driver \cup {Null}]

AnyDriver == CHOOSE d \in Driver : TRUE

Init ==
  /\ builtin \in BOOLEAN
  /\ initialised = FALSE /\ class = "none" /\ device_count = 0
  /\ pc = [d \in Driver |-> "out"]
  /\ resource = [d \in Driver |-> {}]
  /\ index = [d \in Driver |-> 0] /\ number = [d \in Driver |-> 0] /\ orphan = {}
  /\ dev = [d \in Driver |-> FALSE] /\ file = [d \in Driver |-> FALSE]
  /\ drvdata = [d \in Driver |-> Null]
  /\ at = [u \in User |-> "outside"]
  /\ target = [u \in User |-> AnyDriver]
  /\ tdev = [u \in User |-> Null]

Goto(d, label) == pc' = [pc EXCEPT ![d] = label]

-----------------------------------------------------------------------------
(* The class *)

(* A mutant: the count starts again with every caller. *)
CreateClassCountsAnew(ok) ==
  /\ class' = IF class # "none" THEN class ELSE IF ok THEN "ok" ELSE "error"
  /\ device_count' = 0

(* What class_create returned is kept even if it is an error. *)
create_timed_output_class(ok) ==
  IF class # "none" THEN UNCHANGED <<class, device_count>>
  ELSE /\ class' = IF ok THEN "ok" ELSE "error"
       /\ device_count' = IF ok THEN 0 ELSE device_count

(* At boot one function after the other initialises what is built in, in the
   order of linking: a driver may come before the class.  A module needs the
   class to be loaded, and the class is not loaded if this fails. *)
timed_output_init(ok) ==
  /\ ~initialised
  /\ \A d \in Driver : pc[d] \in {"out", "in", "gone"}
  /\ IF builtin \/ ok
     THEN /\ create_timed_output_class(ok)
          /\ initialised' = TRUE
     ELSE UNCHANGED <<class, device_count, initialised>>
  /\ UNCHANGED <<builtin, dvars, uvars>>

(* A vibrator's module that has been removed holds the class no longer,
   though its device is still there. *)
timed_output_exit ==
  /\ ~builtin /\ initialised
  /\ \A d \in Driver : pc[d] \in {"out", "gone"}
  /\ class' = "none" /\ initialised' = FALSE /\ device_count' = 0
  /\ orphan' = orphan \cup {d \in Driver : dev[d]}
  /\ UNCHANGED <<builtin, pc, resource, index, dev, file, number, drvdata, uvars>>

-----------------------------------------------------------------------------
(* A driver: mx6_motor_init, timed_output_dev_register *)

(* gpio_request may fail, and nothing has happened then. *)
mx6_motor_init(d) ==
  /\ pc[d] = "out"
  /\ device_count < MaxIndex
  /\ d \in Motor => \A m \in Motor : pc[m] \in {"out", "gone"}
  /\ initialised \/ (builtin /\ \A e \in Driver : pc[e] \in {"out", "in", "gone"})
  /\ resource' = [resource EXCEPT ![d] = Resource]
  /\ Goto(d, "class")
  /\ UNCHANGED <<cvars, index, dev, file, kvars, drvdata, uvars>>

Class(d, ok) ==
  /\ pc[d] = "class"
  /\ create_timed_output_class(ok)
  /\ Goto(d, IF class = "none" /\ ~ok THEN "unwind" ELSE "index")
  /\ UNCHANGED <<builtin, initialised, resource, index, dev, file, kvars, drvdata, uvars>>

Index(d) ==
  /\ pc[d] = "index"
  /\ device_count' = device_count + 1
  /\ index' = [index EXCEPT ![d] = device_count + 1]
  /\ Goto(d, "create")
  /\ UNCHANGED <<builtin, initialised, class, resource, dev, file, kvars, drvdata, uvars>>

(* The devices of the class there is now; two of them cannot have one name. *)
InClass(d) == dev[d] /\ d \notin orphan
NameTaken(d) == d \in Motor /\ \E m \in Motor : InClass(m)

(* device_create follows the class pointer, be it one or an error. *)
CreateDevice(d, ok) ==
  /\ pc[d] = "create"
  /\ class = "ok" /\ ok => ~NameTaken(d)
  /\ dev' = [dev EXCEPT ![d] = (class = "ok" /\ ok)]
  /\ number' = [number EXCEPT ![d] = IF dev'[d] THEN index[d] ELSE 0]
  /\ Goto(d, IF class = "error" THEN "oops" ELSE IF ok THEN "create_file" ELSE "unwind")
  /\ UNCHANGED <<cvars, resource, index, file, orphan, drvdata, uvars>>

(* The device is found by its number. *)
device_destroy(d) ==
  \E e \in Driver :
    /\ InClass(e) /\ number[e] = index[d]
    /\ dev' = [dev EXCEPT ![e] = FALSE] /\ number' = [number EXCEPT ![e] = 0]

(* A mutant: err_create_file forgets device_destroy. *)
CreateFileKeepsDevice(d, ok) ==
  /\ pc[d] = "create_file"
  /\ file' = [file EXCEPT ![d] = ok]
  /\ Goto(d, IF ok THEN "set_drvdata" ELSE "unwind")
  /\ UNCHANGED <<cvars, resource, index, dev, kvars, drvdata, uvars>>

CreateFile(d, ok) ==
  /\ pc[d] = "create_file"
  /\ file' = [file EXCEPT ![d] = ok]
  /\ IF ok THEN UNCHANGED <<dev, number>> ELSE device_destroy(d)
  /\ Goto(d, IF ok THEN "set_drvdata" ELSE "unwind")
  /\ UNCHANGED <<cvars, resource, index, orphan, drvdata, uvars>>

SetDrvdata(d) ==
  /\ pc[d] = "set_drvdata"
  /\ drvdata' = [drvdata EXCEPT ![d] = d]
  /\ Goto(d, "in")
  /\ UNCHANGED <<cvars, resource, index, dev, file, kvars, uvars>>

(* err_to_dev_reg, and the module is not loaded, or no longer *)
Unwind(d) ==
  /\ pc[d] = "unwind"
  /\ resource' = [resource EXCEPT ![d] = {}]
  /\ index' = [index EXCEPT ![d] = 0]
  /\ Goto(d, "out")
  /\ UNCHANGED <<cvars, dev, file, kvars, drvdata, uvars>>

-----------------------------------------------------------------------------
(* timed_output_dev_unregister, as a driver other than the vibrator's calls
   it before it gives up what its functions use *)

(* A mutant: the driver data is cleared first. *)
RemoveFileClears(d) ==
  /\ d \notin Motor /\ pc[d] = "in"
  /\ file' = [file EXCEPT ![d] = FALSE]
  /\ drvdata' = [drvdata EXCEPT ![d] = Null]
  /\ Goto(d, "drain")
  /\ UNCHANGED <<cvars, resource, index, dev, kvars, uvars>>

RemoveFile(d) ==
  /\ d \notin Motor /\ pc[d] = "in"
  /\ file' = [file EXCEPT ![d] = FALSE]
  /\ Goto(d, "drain")
  /\ UNCHANGED <<cvars, resource, index, dev, kvars, drvdata, uvars>>

(* A mutant: device_destroy without waiting for the accesses. *)
DrainNot(d) ==
  /\ pc[d] = "drain"
  /\ Goto(d, "destroy")
  /\ UNCHANGED <<cvars, resource, index, dev, file, kvars, drvdata, uvars>>

Drain(d) ==
  /\ pc[d] = "drain"
  /\ \A u \in User : at[u] = "outside" \/ target[u] # d
  /\ Goto(d, "destroy")
  /\ UNCHANGED <<cvars, resource, index, dev, file, kvars, drvdata, uvars>>

Destroy(d) ==
  /\ pc[d] = "destroy"
  /\ device_destroy(d)
  /\ Goto(d, "clear")
  /\ UNCHANGED <<cvars, resource, index, file, orphan, drvdata, uvars>>

ClearDrvdata(d) ==
  /\ pc[d] = "clear"
  /\ drvdata' = [drvdata EXCEPT ![d] = Null]
  /\ Goto(d, "unwind")
  /\ UNCHANGED <<cvars, resource, index, dev, file, kvars, uvars>>

-----------------------------------------------------------------------------
(* mx6_motor_exit frees first, and then registers the device once more: there
   is one of that name, so that device_create fails.  The module's code is
   gone after that. *)

ExitFrees(m) ==
  /\ pc[m] = "in"
  /\ resource' = [resource EXCEPT ![m] = {}]
  /\ Goto(m, "again")
  /\ UNCHANGED <<cvars, index, dev, file, kvars, drvdata, uvars>>

ExitRegisters(m) ==
  /\ pc[m] = "again"
  /\ device_count' = device_count + 1
  /\ index' = [index EXCEPT ![m] = device_count + 1]
  /\ Goto(m, "gone")
  /\ UNCHANGED <<builtin, initialised, class, resource, dev, file, kvars, drvdata, uvars>>

-----------------------------------------------------------------------------
(* enable_show and enable_store *)

Enter(u, d) ==
  /\ at[u] = "outside" /\ file[d]
  /\ at' = [at EXCEPT ![u] = "entered"]
  /\ target' = [target EXCEPT ![u] = d]
  /\ UNCHANGED <<cvars, dvars, tdev>>

Resolve(u) ==
  /\ at[u] = "entered"
  /\ tdev' = [tdev EXCEPT ![u] = drvdata[target[u]]]
  /\ at' = [at EXCEPT ![u] = "resolved"]
  /\ UNCHANGED <<cvars, dvars, target>>

(* enable_store is given something that is no number. *)
Refuse(u) ==
  /\ at[u] = "resolved"
  /\ at' = [at EXCEPT ![u] = "outside"]
  /\ tdev' = [tdev EXCEPT ![u] = Null]
  /\ target' = [target EXCEPT ![u] = AnyDriver]
  /\ UNCHANGED <<cvars, dvars>>

Call(u) ==
  /\ at[u] = "resolved"
  /\ at' = [at EXCEPT ![u] = IF tdev[u] = Null THEN "oops" ELSE "inside"]
  /\ UNCHANGED <<cvars, dvars, target, tdev>>

(* A mutant: a function that needs a lock which is held by the thread that
   unregisters its driver. *)
ReturnWaits(u) ==
  /\ at[u] = "inside" /\ pc[target[u]] # "drain"
  /\ at' = [at EXCEPT ![u] = "outside"]
  /\ tdev' = [tdev EXCEPT ![u] = Null]
  /\ target' = [target EXCEPT ![u] = AnyDriver]
  /\ UNCHANGED <<cvars, dvars>>

Return(u) ==
  /\ at[u] = "inside"
  /\ at' = [at EXCEPT ![u] = "outside"]
  /\ tdev' = [tdev EXCEPT ![u] = Null]
  /\ target' = [target EXCEPT ![u] = AnyDriver]
  /\ UNCHANGED <<cvars, dvars>>

(* The code of the file of an orphan was unloaded with its class: whoever is
   there may get out of it, or not. *)
Vanish(u) ==
  /\ at[u] \in {"entered", "resolved", "inside"} /\ target[u] \in orphan
  /\ at' = [at EXCEPT ![u] = "oops"]
  /\ UNCHANGED <<cvars, dvars, target, tdev>>

-----------------------------------------------------------------------------
Register(d) ==
  \/ \E ok \in BOOLEAN : Class(d, ok) \/ CreateDevice(d, ok) \/ CreateFile(d, ok)
  \/ Index(d) \/ SetDrvdata(d) \/ Unwind(d)

Unregister(d) == Drain(d) \/ Destroy(d) \/ ClearDrvdata(d)

Access(u) == Resolve(u) \/ Refuse(u) \/ Call(u) \/ Return(u) \/ Vanish(u)

Next ==
  \/ \E ok \in BOOLEAN : timed_output_init(ok)
  \/ timed_output_exit
  \/ \E d \in Driver : mx6_motor_init(d) \/ Register(d) \/ RemoveFile(d) \/ Unregister(d)
  \/ \E m \in Motor : ExitFrees(m) \/ ExitRegisters(m)
  \/ \E u \in User : Access(u) \/ \E d \in Driver : Enter(u, d)

SafeSpec == Init /\ [][Next]_vars

(* Threads are scheduled; nobody has to begin anything. *)
Fairness ==
  /\ \A d \in Driver : WF_vars(Register(d)) /\ WF_vars(Unregister(d))
  /\ \A u \in User : WF_vars(Access(u))

Spec == SafeSpec /\ Fairness

-----------------------------------------------------------------------------
(* The vibrator's module is being removed, or has been. *)
Removed(d) == pc[d] \in {"again", "gone"}

(* Whoever is inside a driver's function came by that driver's file, and
   finds what the function uses, from the moment the file appears until
   the access ends, however late it ends (mx6_motor_init sets it up before it
   registers, and the file is removed before it goes).  A vibrator module that
   is removed breaks that, see the README. *)
ServedInside ==
  \A u \in User : at[u] = "inside" =>
    /\ tdev[u] = target[u]
    /\ resource[target[u]] = Resource \/ Removed(target[u])
    /\ dev[target[u]]

(* A driver whose registration failed, or that has withdrawn, leaves nothing
   in sysfs and keeps nothing, whichever step failed and whoever had the file
   open. *)
NothingLeft ==
  \A d \in Driver : pc[d] = "out" =>
    /\ ~dev[d] /\ ~file[d] /\ drvdata[d] = Null /\ resource[d] = {}
    /\ \A u \in User : target[u] = d => at[u] = "outside"

(* No two devices of the class have the same number, whatever registrations,
   failures, withdrawals and reloads of the modules come in between:
   device_destroy finds a device by its number, and would take the wrong one.
   A device the vibrator has left behind (127) does not keep the class: once
   that is unloaded its number may be given again, in the next class. *)
IndexIsUnique ==
  \A d, e \in Driver : d # e /\ InClass(d) /\ InClass(e) => number[d] # number[e]

(* An access finds no driver data only if it reads it between the creation of
   the file (222) and the line that sets it (226). *)
NullOnlyInWindow ==
  [][\A u \in User :
       at[u] = "entered" /\ at'[u] = "resolved" /\ tdev'[u] = Null
         => pc[target[u]] = "set_drvdata"]_vars

(* A driver that unregisters comes back from it, however often its file was
   opened before, unless an access that found no driver data never will. *)
UnregisterReturns ==
  \A d \in Driver :
    pc[d] = "drain" ~> pc[d] = "out" \/ \E u \in User : at[u] = "oops" /\ target[u] = d
=============================================================================
