-------------------------------- MODULE I2cBus --------------------------------
(***************************************************************************)
(* Transfers over the adapters of I2cRecovery: i2c_transfer with its       *)
(* mutex, which foo_store does not take, and one of its users, the touch   *)
(* screen gt811, whose interrupt handler disables its interrupt until the  *)
(* work it schedules has read the touch.                                   *)
(*                                                                         *)
(* The controller's master_xfer, the work queue and the interrupt core are *)
(* outside: a transfer may fail at any time, and fails if the controller   *)
(* did not have the lines throughout; a falling edge while the interrupt   *)
(* is disabled is kept and delivered when it is enabled.                   *)
(***************************************************************************)
EXTENDS I2cRecovery

CONSTANTS
  Caller,  \* threads that transfer
  Atomic,  \* those of them that must not sleep
  Touch,   \* gt811_ts_handler, which may; its screen is on adapter 0
  Capable, \* the adapters that have a master_xfer
  Free     \* the owner of a mutex nobody holds

ASSUME BusAssumption ==
  /\ Touch \in Caller /\ Atomic \subseteq Caller \ {Touch}
  /\ Capable \subseteq Adapter /\ Free \notin Caller

VARIABLES
  bus_lock,    \* the owner of each adapter's mutex
  at, on,      \* where each caller is in i2c_transfer, for which adapter
  disturbed,   \* were the lines taken away during its master_xfer?
  edge,        \* a falling edge that has not been delivered
  depth,       \* how often the interrupt is disabled
  isr,         \* is gt811_ts_isr "out", or between its two calls?
  scheduled,   \* is the work pending?
  work,        \* what gt811_ts_handler does next
  unread       \* history: has its wakeup or its read failed in this run?

tvars == <<edge, depth, isr, scheduled, work, unread>>
bvars == <<bus_lock, at, on, disturbed>>
vars  == <<rvars, bvars, tvars>>

BusTypeOK ==
  /\ TypeOK
  /\ bus_lock \in [Adapter -> Caller \cup {Free}]
  /\ at \in [Caller -> {"idle", "lock", "xfer"}]
  /\ on \in [Caller -> Adapter]
  /\ disturbed \in [Caller -> BOOLEAN]
  /\ edge \in BOOLEAN /\ scheduled \in BOOLEAN /\ unread \in BOOLEAN
  /\ depth \in 0 .. 1
  /\ isr \in {"out", "disabled"}
  /\ work \in {"idle", "wakeup", "read", "sleep", "enable"}

Init ==
  /\ RInit
  /\ bus_lock = [a \in Adapter |-> Free]
  /\ at = [c \in Caller |-> "idle"] /\ on = [c \in Caller |-> 0]
  /\ disturbed = [c \in Caller |-> FALSE]
  /\ edge = FALSE /\ depth = 0 /\ isr = "out" /\ scheduled = FALSE /\ work = "idle"
  /\ unread = FALSE

-----------------------------------------------------------------------------
(* gt811_ts_isr *)

FallingEdge ==
  /\ ~edge /\ edge' = TRUE
  /\ UNCHANGED <<rvars, bvars, depth, isr, scheduled, work, unread>>

DisableIrq ==
  /\ edge /\ depth = 0 /\ isr = "out"
  /\ edge' = FALSE /\ depth' = 1 /\ isr' = "disabled"
  /\ UNCHANGED <<rvars, bvars, scheduled, work, unread>>

ScheduleWork ==
  /\ isr = "disabled"
  /\ isr' = "out" /\ scheduled' = TRUE
  /\ UNCHANGED <<rvars, bvars, edge, depth, work, unread>>

-----------------------------------------------------------------------------
(* gt811_ts_handler: three transfers, each of which may be the last. *)

BeginWork ==
  /\ scheduled /\ work = "idle"
  /\ scheduled' = FALSE /\ work' = "wakeup" /\ unread' = FALSE
  /\ UNCHANGED <<rvars, bvars, edge, depth, isr>>

(* Two mutants: a failure returns at once, or is tried again. *)
AfterReturns(ok) ==
  CASE work = "wakeup" /\ ok -> "read"
    [] work = "read"   /\ ok -> "sleep"
    [] work = "sleep"        -> "enable"
    [] OTHER                 -> "idle"

AfterRetries(ok) ==
  CASE work = "wakeup" /\ ok -> "read"
    [] work = "read"   /\ ok -> "sleep"
    [] work = "sleep"  /\ ok -> "enable"
    [] OTHER                 -> work

After(ok) ==
  CASE work = "wakeup" /\ ok -> "read"
    [] work = "read"   /\ ok -> "sleep"
    [] OTHER                 -> "enable"

EnableIrq ==
  /\ work = "enable"
  /\ depth' = IF depth > 0 THEN depth - 1 ELSE 0
  /\ work' = "idle"
  /\ UNCHANGED <<rvars, bvars, edge, isr, scheduled, unread>>

-----------------------------------------------------------------------------
(* i2c_transfer *)

Transferring == {"wakeup", "read", "sleep"}

Calls(c, a) == at[c] = "idle" /\ (c = Touch => work \in Transferring /\ a = 0)

Call(c, a) ==
  /\ Calls(c, a) /\ a \in Capable
  /\ at' = [at EXCEPT ![c] = "lock"] /\ on' = [on EXCEPT ![c] = a]
  /\ UNCHANGED <<rvars, tvars, bus_lock, disturbed>>

(* Back in the caller. *)
Return(c, ok) ==
  /\ at' = [at EXCEPT ![c] = "idle"]
  /\ on' = [on EXCEPT ![c] = 0]
  /\ disturbed' = [disturbed EXCEPT ![c] = FALSE]
  /\ work' = IF c = Touch THEN After(ok) ELSE work
  /\ unread' = (unread \/ (c = Touch /\ work \in {"wakeup", "read"} /\ ~ok))
  /\ UNCHANGED <<rvars, edge, depth, isr, scheduled>>

(* -ENOSYS *)
NotSupported(c, a) ==
  /\ Calls(c, a) /\ a \notin Capable
  /\ Return(c, FALSE)
  /\ UNCHANGED bus_lock

(* A mutant: what mutex_trylock returns is not looked at. *)
LockAnyway(c) ==
  /\ at[c] = "lock" /\ (c \in Atomic \/ bus_lock[on[c]] = Free)
  /\ bus_lock' = [bus_lock EXCEPT ![on[c]] = c]
  /\ at' = [at EXCEPT ![c] = "xfer"]
  /\ disturbed' = [disturbed EXCEPT ![c] = pins[on[c]] # "hw"]
  /\ UNCHANGED <<rvars, tvars, on>>

Lock(c) ==
  /\ at[c] = "lock" /\ bus_lock[on[c]] = Free
  /\ bus_lock' = [bus_lock EXCEPT ![on[c]] = c]
  /\ at' = [at EXCEPT ![c] = "xfer"]
  /\ disturbed' = [disturbed EXCEPT ![c] = pins[on[c]] # "hw"]
  /\ UNCHANGED <<rvars, tvars, on>>

(* -EAGAIN *)
TryFails(c) ==
  /\ c \in Atomic /\ at[c] = "lock" /\ bus_lock[on[c]] # Free
  /\ Return(c, FALSE)
  /\ UNCHANGED bus_lock

(* The end of master_xfer, and mutex_unlock. *)
EndTransfer(c, ok) ==
  /\ at[c] = "xfer"
  /\ ok => ~disturbed[c] /\ held[on[c]] = 0
  /\ bus_lock' = [bus_lock EXCEPT ![on[c]] = Free]
  /\ Return(c, ok)

i2c_transfer(c) ==
  \/ \E a \in Adapter : Call(c, a) \/ NotSupported(c, a)
  \/ Lock(c) \/ TryFails(c)
  \/ \E ok \in BOOLEAN : EndTransfer(c, ok)

-----------------------------------------------------------------------------
(* In the middle of a byte sda is low, and stays so if the clock stops. *)
SlaveHolds(a) ==
  /\ pins[a] = "hw"
  /\ \E c \in Caller : at[c] = "xfer" /\ on[c] = a
  /\ held' \in {[held EXCEPT ![a] = n] : n \in 1 .. Pulses}
  /\ UNCHANGED <<module, foo, pc, reg, i, pins, clean, spoilt, bvars, tvars>>

(* A step of the recovery file takes the lines from whoever transfers. *)
Recovery ==
  /\ example_init \/ example_exit \/ \E w \in Writer : foo_store(w)
  /\ disturbed' = [c \in Caller |-> disturbed[c] \/ (at[c] = "xfer" /\ pins'[on[c]] # "hw")]
  /\ UNCHANGED <<tvars, bus_lock, at, on>>

Next ==
  \/ FallingEdge \/ DisableIrq \/ ScheduleWork \/ BeginWork \/ EnableIrq
  \/ \E c \in Caller : i2c_transfer(c)
  \/ \E a \in Adapter : SlaveHolds(a)
  \/ Recovery

(* The interrupt is delivered, the work queue runs, master_xfer times out, *)
(* and the mutex is given to whoever waits for it in the end.              *)
Fairness ==
  /\ WF_vars(DisableIrq) /\ WF_vars(ScheduleWork) /\ WF_vars(BeginWork) /\ WF_vars(EnableIrq)
  /\ WF_vars(Call(Touch, 0) \/ NotSupported(Touch, 0)) /\ SF_vars(Lock(Touch))
  /\ \A c \in Caller : WF_vars(\E ok \in BOOLEAN : EndTransfer(c, ok))

Spec == Init /\ [][Next]_vars /\ Fairness

-----------------------------------------------------------------------------
(* An adapter has one master_xfer at a time, and its mutex says whose: a   *)
(* caller that must not sleep and finds it taken does not transfer.        *)
BusExclusive ==
  \A c \in Caller, a \in Adapter : bus_lock[a] = c <=> at[c] = "xfer" /\ on[c] = a

(* The touch screen's interrupt is disabled exactly while one run of its   *)
(* work is due or under way, however the transfers of that run end:        *)
(* enable_irq is never called for an interrupt that is enabled, and the    *)
(* work never waits behind itself.                                         *)
IrqBalanced ==
  /\ depth = 1 <=> isr = "disabled" \/ scheduled \/ work # "idle"
  /\ isr = "disabled" => ~scheduled /\ work = "idle"
  /\ scheduled => work = "idle"

(* Every touch, also one that comes while the interrupt is disabled, has a *)
(* run of the work begin in the end, behind other users of the bus; and    *)
(* every run reads the touch unless its own wakeup or read failed (lines   *)
(* 80 to 87).  Then the touch is not read at all: the handler goes on to   *)
(* enable_irq and nothing tries again, so that a slave that has hung up or *)
(* a store that takes the lines away costs that touch, but not the next.   *)
TouchServed ==
  /\ edge ~> work = "wakeup"
  /\ work = "wakeup" ~> work = "sleep" \/ unread
=============================================================================
