----------------------------- MODULE I2cBus_proofs -----------------------------
(***************************************************************************)
(* Proofs about modules I2cRecovery and I2cBus, for any callers and        *)
(* writers, any numbers and any number of pulses.  First foo_store alone,  *)
(* whose invariant (IInv) then still holds among the transfers.            *)
(***************************************************************************)
EXTENDS I2cBus, TLAPS


Busy == {"enable", "pulse", "disable"}

(* What holds of one writer.  A clean one is alone, so that foo is still   *)
(* the number in its register and the lines are those it switched; one     *)
(* that is not clean before it switches has spoilt every adapter.          *)
WriterOK(w) ==
  /\ pc[w] \in Busy => reg[w] \in Adapter
  /\ clean[w] => pc[w] # "idle" /\ \A x \in Writer \ {w} : pc[x] = "idle"
  /\ clean[w] /\ pc[w] \in Busy => foo = reg[w]
  /\ clean[w] /\ pc[w] \in {"pulse", "disable"} => pins[reg[w]] = "gpio"
  /\ clean[w] /\ pc[w] = "pulse" => held[reg[w]] + i[w] <= Pulses
  /\ clean[w] /\ pc[w] = "disable" => held[reg[w]] = 0
  /\ ~clean[w] /\ pc[w] \in {"scanned", "loaded", "enable"} => \A a \in Adapter : spoilt[a]

(* The inductive invariant. *)
IInv ==
  /\ TypeOK
  /\ module = "out" => Idle
  /\ \A w \in Writer : WriterOK(w)
  /\ PinsRestored

-----------------------------------------------------------------------------
(* The invariant holds at first: no store is under way. *)
THEOREM InitInv == RInit => IInv
<1> SUFFICES ASSUME RInit PROVE IInv
  OBVIOUS
<1> USE RecoveryAssumption DEF RecoveryAssumption, RInit, Adapter
<1>1. TypeOK
  BY DEF TypeOK
<1>2. \A w \in Writer : WriterOK(w)
  BY DEF WriterOK, Busy
<1>3. Idle /\ PinsRestored
  BY DEF Idle, PinsRestored
<1> QED BY <1>1, <1>2, <1>3 DEF IInv

(* example_init keeps the invariant. *)
LEMMA example_initInv ==
  ASSUME IInv, example_init
  PROVE  IInv'
<1> USE RecoveryAssumption DEF RecoveryAssumption, Adapter, example_init
<1>1. TypeOK'
  BY DEF IInv, TypeOK
<1>2. (module = "out" => Idle)'
  BY DEF IInv, TypeOK, Idle
<1>3. ASSUME NEW x \in Writer PROVE WriterOK(x)'
  BY <1>3 DEF IInv, TypeOK, WriterOK, Busy, Idle
<1>4. PinsRestored'
  BY DEF IInv, TypeOK, WriterOK, Busy, PinsRestored, Idle
<1> QED BY <1>1, <1>2, <1>3, <1>4 DEF IInv

(* example_exit keeps the invariant. *)
LEMMA example_exitInv ==
  ASSUME IInv, example_exit
  PROVE  IInv'
<1> USE RecoveryAssumption DEF RecoveryAssumption, Adapter, example_exit
<1>1. TypeOK'
  BY DEF IInv, TypeOK
<1>2. (module = "out" => Idle)'
  BY DEF IInv, TypeOK, Idle
<1>3. ASSUME NEW x \in Writer PROVE WriterOK(x)'
  BY <1>3 DEF IInv, TypeOK, WriterOK, Busy, Idle
<1>4. PinsRestored'
  BY DEF IInv, TypeOK, WriterOK, Busy, PinsRestored, Idle
<1> QED BY <1>1, <1>2, <1>3, <1>4 DEF IInv

(* Scan keeps the invariant. *)
LEMMA ScanInv ==
  ASSUME IInv, NEW w \in Writer, Scan(w)
  PROVE  IInv'
<1> USE RecoveryAssumption DEF RecoveryAssumption, Adapter, Scan, Goto
<1>1. TypeOK'
  BY DEF IInv, TypeOK
<1>2. (module = "out" => Idle)'
  BY DEF IInv, TypeOK, Idle
<1>3. ASSUME NEW x \in Writer PROVE WriterOK(x)'
  BY <1>3 DEF IInv, TypeOK, WriterOK, Busy, Idle
<1>4. PinsRestored'
  BY DEF IInv, TypeOK, WriterOK, Busy, PinsRestored, Idle
<1> QED BY <1>1, <1>2, <1>3, <1>4 DEF IInv

(* Load keeps the invariant. *)
LEMMA LoadInv ==
  ASSUME IInv, NEW w \in Writer, Load(w)
  PROVE  IInv'
<1> USE RecoveryAssumption DEF RecoveryAssumption, Adapter, Load, Goto
<1>1. TypeOK'
  BY DEF IInv, TypeOK
<1>2. (module = "out" => Idle)'
  BY DEF IInv, TypeOK, Idle
<1>3. ASSUME NEW x \in Writer PROVE WriterOK(x)'
  BY <1>3 DEF IInv, TypeOK, WriterOK, Busy, Idle
<1>4. PinsRestored'
  BY DEF IInv, TypeOK, WriterOK, Busy, PinsRestored, Idle
<1> QED BY <1>1, <1>2, <1>3, <1>4 DEF IInv

(* Store keeps the invariant. *)
LEMMA StoreInv ==
  ASSUME IInv, NEW w \in Writer, Store(w)
  PROVE  IInv'
<1> USE RecoveryAssumption DEF RecoveryAssumption, Adapter, Store, Goto, Leave
<1>1. TypeOK'
  <2>1. CASE reg[w] \in Adapter
    BY <2>1 DEF IInv, TypeOK
  <2>2. CASE reg[w] \notin Adapter
    <3>1. pc' = [pc EXCEPT ![w] = "idle"] /\ reg' = [reg EXCEPT ![w] = 0]
          /\ i' = [i EXCEPT ![w] = 0] /\ clean' = [clean EXCEPT ![w] = FALSE]
      BY <2>2
    <3>2. foo' \in Int /\ i' \in [Writer -> 0 .. Pulses] /\ reg' \in [Writer -> Int]
      BY <3>1 DEF IInv, TypeOK
    <3>3. clean' \in [Writer -> BOOLEAN]
      BY <3>1, Zenon DEF IInv, TypeOK
    <3> QED BY <3>1, <3>2, <3>3 DEF IInv, TypeOK
  <2> QED BY <2>1, <2>2
<1>2. (module = "out" => Idle)'
  BY DEF IInv, TypeOK, Idle
<1>3. ASSUME NEW x \in Writer PROVE WriterOK(x)'
  BY <1>3 DEF IInv, TypeOK, WriterOK, Busy, Idle
<1>4. PinsRestored'
  BY DEF IInv, TypeOK, WriterOK, Busy, PinsRestored, Idle
<1> QED BY <1>1, <1>2, <1>3, <1>4 DEF IInv

(* Enable keeps the invariant. *)
LEMMA EnableInv ==
  ASSUME IInv, NEW w \in Writer, NEW ok \in BOOLEAN, Enable(w, ok)
  PROVE  IInv'
<1> USE RecoveryAssumption DEF RecoveryAssumption, Adapter, Enable, Goto, gsbi_qup_i2c_gpio_config
<1>1. TypeOK'
  BY DEF IInv, TypeOK
<1>2. (module = "out" => Idle)'
  BY DEF IInv, TypeOK, Idle
<1>3. ASSUME NEW x \in Writer PROVE WriterOK(x)'
  BY <1>3 DEF IInv, TypeOK, WriterOK, Busy, Idle
<1>4. PinsRestored'
  BY DEF IInv, TypeOK, WriterOK, Busy, PinsRestored, Idle
<1> QED BY <1>1, <1>2, <1>3, <1>4 DEF IInv

(* Clock keeps the invariant. *)
LEMMA ClockInv ==
  ASSUME IInv, NEW w \in Writer, Clock(w)
  PROVE  IInv'
<1> USE RecoveryAssumption DEF RecoveryAssumption, Adapter, Clock, More, Sda
<1>1. TypeOK'
  <2>1. reg[w] \in Adapter /\ i[w] + 1 \in 0 .. Pulses
    BY DEF IInv, TypeOK, WriterOK, Busy
  <2>2. held' \in [Adapter -> 0 .. Pulses]
    <3>1. CASE pins[reg[w]] = "gpio"
      <4>1. held[reg[w]] - 1 \in 0 .. Pulses
        BY <2>1, <3>1 DEF IInv, TypeOK
      <4> QED BY <2>1, <3>1, <4>1 DEF IInv, TypeOK
    <3>2. CASE pins[reg[w]] # "gpio"
      BY <3>2 DEF IInv, TypeOK
    <3> QED BY <3>1, <3>2
  <2> QED BY <2>1, <2>2 DEF IInv, TypeOK
<1>2. (module = "out" => Idle)'
  BY DEF IInv, TypeOK, Idle
<1>3. ASSUME NEW x \in Writer PROVE WriterOK(x)'
  BY <1>3 DEF IInv, TypeOK, WriterOK, Busy, Idle
<1>4. PinsRestored'
  BY DEF IInv, TypeOK, WriterOK, Busy, PinsRestored, Idle
<1> QED BY <1>1, <1>2, <1>3, <1>4 DEF IInv

(* EndPulses keeps the invariant. *)
LEMMA EndPulsesInv ==
  ASSUME IInv, NEW w \in Writer, EndPulses(w)
  PROVE  IInv'
<1> USE RecoveryAssumption DEF RecoveryAssumption, Adapter, EndPulses, More, Sda, Goto
<1>1. TypeOK'
  BY DEF IInv, TypeOK
<1>2. (module = "out" => Idle)'
  BY DEF IInv, TypeOK, Idle
<1>3. ASSUME NEW x \in Writer PROVE WriterOK(x)'
  BY <1>3 DEF IInv, TypeOK, WriterOK, Busy, Idle
<1>4. PinsRestored'
  BY DEF IInv, TypeOK, WriterOK, Busy, PinsRestored, Idle
<1> QED BY <1>1, <1>2, <1>3, <1>4 DEF IInv

(* Disable keeps the invariant. *)
LEMMA DisableInv ==
  ASSUME IInv, NEW w \in Writer, NEW ok \in BOOLEAN, Disable(w, ok)
  PROVE  IInv'
<1> USE RecoveryAssumption DEF RecoveryAssumption, Adapter, Disable, Goto, Leave, Spoil, gsbi_qup_i2c_gpio_config
<1>1. TypeOK'
  <2>1. spoilt' \in [Adapter -> BOOLEAN]
    BY Zenon DEF IInv, TypeOK
  <2>2. pins' \in [Adapter -> {"hw", "gpio"}]
    BY DEF IInv, TypeOK
  <2> QED BY <2>1, <2>2 DEF IInv, TypeOK
<1>2. (module = "out" => Idle)'
  BY DEF IInv, TypeOK, Idle
<1>3. ASSUME NEW x \in Writer PROVE WriterOK(x)'
  BY <1>3 DEF IInv, TypeOK, WriterOK, Busy, Idle
<1>4. PinsRestored'
  BY DEF IInv, TypeOK, WriterOK, Busy, PinsRestored, Idle
<1> QED BY <1>1, <1>2, <1>3, <1>4 DEF IInv

(* Hang keeps the invariant. *)
LEMMA HangInv ==
  ASSUME IInv, NEW a \in Adapter, Hang(a)
  PROVE  IInv'
<1> USE RecoveryAssumption DEF RecoveryAssumption, Adapter, Hang
<1>1. TypeOK'
  BY DEF IInv, TypeOK
<1>2. (module = "out" => Idle)'
  BY DEF IInv, TypeOK, Idle
<1>3. ASSUME NEW x \in Writer PROVE WriterOK(x)'
  BY <1>3 DEF IInv, TypeOK, WriterOK, Busy, Idle
<1>4. PinsRestored'
  BY DEF IInv, TypeOK, WriterOK, Busy, PinsRestored, Idle
<1> QED BY <1>1, <1>2, <1>3, <1>4 DEF IInv

(* Every step of the recovery keeps it. *)
THEOREM NextInv == IInv /\ [RNext]_rvars => IInv'
<1> SUFFICES ASSUME IInv, [RNext]_rvars PROVE IInv'
  OBVIOUS
<1>1. CASE example_init
  BY <1>1, example_initInv
<1>2. CASE example_exit
  BY <1>2, example_exitInv
<1>3. ASSUME NEW w \in Writer, foo_store(w) PROVE IInv'
  BY <1>3, ScanInv, LoadInv, StoreInv, EnableInv, ClockInv, EndPulsesInv, DisableInv
  DEF foo_store
<1>4. ASSUME NEW a \in Adapter, Hang(a) PROVE IInv'
  BY <1>4, HangInv
<1>5. CASE UNCHANGED rvars
  BY <1>5 DEF IInv, rvars, TypeOK, Idle, WriterOK, PinsRestored
<1> QED BY <1>1, <1>2, <1>3, <1>4, <1>5 DEF RNext

-----------------------------------------------------------------------------
(* The inductive invariant of the recovery holds always. *)
LEMMA Invariance == RSpec => []IInv
BY InitInv, NextInv, PTL DEF RSpec

(* Every variable keeps its type: foo_store clocks at most Pulses times. *)
THEOREM TypeCorrect == RSpec => []TypeOK
<1>1. IInv => TypeOK
  BY DEF IInv
<1> QED BY <1>1, Invariance, PTL

(* The lines of an adapter go back to its controller when the last store   *)
(* on it was alone, for any number of writers.                             *)
THEOREM LinesReturned == RSpec => []PinsRestored
<1>1. IInv => PinsRestored
  BY DEF IInv
<1> QED BY <1>1, Invariance, PTL

(* A store that was alone has freed the slave after its pulses, as long as *)
(* a slave needs no more of them than the loop of line 141 gives.          *)
THEOREM SlaveFreed == RSpec => []Freed
<1>1. IInv => Freed
  BY DEF IInv, WriterOK, Freed
<1> QED BY <1>1, Invariance, PTL

-----------------------------------------------------------------------------
(* Among transfers, interrupts and the work. *)


(* The work transfers only between its beginning and enable_irq. *)
TouchAtWork == at[Touch] # "idle" => work \in Transferring

(* The inductive invariant. *)
Inv == IInv /\ BusTypeOK /\ BusExclusive /\ IrqBalanced /\ TouchAtWork

-----------------------------------------------------------------------------
(* The invariant holds at first: no transfer, no interrupt. *)
THEOREM InitBus == Init => Inv
<1> SUFFICES ASSUME Init PROVE Inv
  OBVIOUS
<1>1. IInv
  BY InitInv DEF Init
<1>2. BusTypeOK
  <2>1. TypeOK
    BY <1>1 DEF IInv
  <2>2. /\ disturbed \in [Caller -> BOOLEAN]
        /\ edge \in BOOLEAN /\ scheduled \in BOOLEAN /\ unread \in BOOLEAN
    BY Zenon DEF Init
  <2>3. /\ bus_lock \in [Adapter -> Caller \cup {Free}]
        /\ at \in [Caller -> {"idle", "lock", "xfer"}] /\ on \in [Caller -> Adapter]
    BY DEF Init, Adapter
  <2> QED BY <2>1, <2>2, <2>3 DEF Init, BusTypeOK
<1>3. BusExclusive
  BY BusAssumption DEF BusAssumption, Init, BusExclusive
<1>4. IrqBalanced /\ TouchAtWork
  BY BusAssumption DEF BusAssumption, Init, IrqBalanced, TouchAtWork
<1> QED BY <1>1, <1>2, <1>3, <1>4 DEF Inv

(* What is said of the writers depends on none of the bus's variables. *)
LEMMA StutterInv == IInv /\ UNCHANGED rvars => IInv'
BY DEF IInv, rvars, TypeOK, Idle, WriterOK, PinsRestored

(* FallingEdge keeps the invariant. *)
LEMMA FallingEdgeInv ==
  ASSUME Inv, FallingEdge
  PROVE  Inv'
<1> USE BusAssumption DEF BusAssumption, Adapter, FallingEdge
<1>1. IInv'
  BY StutterInv DEF Inv
<1>2. BusTypeOK'
  BY <1>1 DEF Inv, IInv, BusTypeOK, bvars, Transferring
<1>3. BusExclusive'
  BY DEF Inv, BusTypeOK, BusExclusive, bvars
<1>4. (IrqBalanced /\ TouchAtWork)'
  BY DEF Inv, BusTypeOK, IrqBalanced, TouchAtWork, Transferring, bvars, tvars
<1> QED BY <1>1, <1>2, <1>3, <1>4 DEF Inv

(* DisableIrq keeps the invariant. *)
LEMMA DisableIrqInv ==
  ASSUME Inv, DisableIrq
  PROVE  Inv'
<1> USE BusAssumption DEF BusAssumption, Adapter, DisableIrq
<1>1. IInv'
  BY StutterInv DEF Inv
<1>2. BusTypeOK'
  <2>1. edge' \in BOOLEAN
    BY Zenon
  <2> QED BY <1>1, <2>1 DEF Inv, IInv, BusTypeOK, bvars
<1>3. BusExclusive'
  BY DEF Inv, BusTypeOK, BusExclusive, bvars
<1>4. (IrqBalanced /\ TouchAtWork)'
  BY DEF Inv, BusTypeOK, IrqBalanced, TouchAtWork, Transferring, bvars, tvars
<1> QED BY <1>1, <1>2, <1>3, <1>4 DEF Inv

(* ScheduleWork keeps the invariant. *)
LEMMA ScheduleWorkInv ==
  ASSUME Inv, ScheduleWork
  PROVE  Inv'
<1> USE BusAssumption DEF BusAssumption, Adapter, ScheduleWork
<1>1. IInv'
  BY StutterInv DEF Inv
<1>2. BusTypeOK'
  <2>1. scheduled' \in BOOLEAN
    BY Zenon
  <2> QED BY <1>1, <2>1 DEF Inv, IInv, BusTypeOK, bvars
<1>3. BusExclusive'
  BY DEF Inv, BusTypeOK, BusExclusive, bvars
<1>4. (IrqBalanced /\ TouchAtWork)'
  BY DEF Inv, BusTypeOK, IrqBalanced, TouchAtWork, Transferring, bvars, tvars
<1> QED BY <1>1, <1>2, <1>3, <1>4 DEF Inv

(* BeginWork keeps the invariant. *)
LEMMA BeginWorkInv ==
  ASSUME Inv, BeginWork
  PROVE  Inv'
<1> USE BusAssumption DEF BusAssumption, Adapter, BeginWork
<1>1. IInv'
  BY StutterInv DEF Inv
<1>2. BusTypeOK'
  <2>1. scheduled' \in BOOLEAN /\ unread' \in BOOLEAN
    BY Zenon
  <2> QED BY <1>1, <2>1 DEF Inv, IInv, BusTypeOK, bvars
<1>3. BusExclusive'
  BY DEF Inv, BusTypeOK, BusExclusive, bvars
<1>4. (IrqBalanced /\ TouchAtWork)'
  BY DEF Inv, BusTypeOK, IrqBalanced, TouchAtWork, Transferring, bvars, tvars
<1> QED BY <1>1, <1>2, <1>3, <1>4 DEF Inv

(* EnableIrq keeps the invariant. *)
LEMMA EnableIrqInv ==
  ASSUME Inv, EnableIrq
  PROVE  Inv'
<1> USE BusAssumption DEF BusAssumption, Adapter, EnableIrq
<1>1. IInv'
  BY StutterInv DEF Inv
<1>2. BusTypeOK'
  BY <1>1 DEF Inv, IInv, BusTypeOK, bvars, Transferring
<1>3. BusExclusive'
  BY DEF Inv, BusTypeOK, BusExclusive, bvars
<1>4. (IrqBalanced /\ TouchAtWork)'
  BY DEF Inv, BusTypeOK, IrqBalanced, TouchAtWork, Transferring, bvars, tvars
<1> QED BY <1>1, <1>2, <1>3, <1>4 DEF Inv

(* Call keeps the invariant. *)
LEMMA CallInv ==
  ASSUME Inv, NEW c \in Caller, NEW a \in Adapter, Call(c, a)
  PROVE  Inv'
<1> USE BusAssumption DEF BusAssumption, Adapter, Call, Calls, tvars
<1>1. IInv'
  BY StutterInv DEF Inv
<1>2. BusTypeOK'
  BY <1>1 DEF Inv, IInv, BusTypeOK, bvars, Transferring
<1>3. BusExclusive'
  BY DEF Inv, BusTypeOK, BusExclusive, bvars
<1>4. (IrqBalanced /\ TouchAtWork)'
  BY DEF Inv, BusTypeOK, IrqBalanced, TouchAtWork, Transferring, bvars, tvars
<1> QED BY <1>1, <1>2, <1>3, <1>4 DEF Inv

(* NotSupported keeps the invariant. *)
LEMMA NotSupportedInv ==
  ASSUME Inv, NEW c \in Caller, NEW a \in Adapter, NotSupported(c, a)
  PROVE  Inv'
<1> USE BusAssumption DEF BusAssumption, Adapter, NotSupported, Calls, Return, After
<1>1. IInv'
  BY StutterInv DEF Inv
<1>2. BusTypeOK'
  <2>1. disturbed' \in [Caller -> BOOLEAN] /\ unread' \in BOOLEAN
    BY Zenon DEF Inv, BusTypeOK
  <2> QED BY <1>1, <2>1 DEF Inv, IInv, BusTypeOK, Transferring
<1>3. BusExclusive'
  BY DEF Inv, BusTypeOK, BusExclusive, bvars
<1>4. (IrqBalanced /\ TouchAtWork)'
  BY DEF Inv, BusTypeOK, IrqBalanced, TouchAtWork, Transferring, bvars, tvars
<1> QED BY <1>1, <1>2, <1>3, <1>4 DEF Inv

(* Lock keeps the invariant. *)
LEMMA LockInv ==
  ASSUME Inv, NEW c \in Caller, Lock(c)
  PROVE  Inv'
<1> USE BusAssumption DEF BusAssumption, Adapter, Lock, tvars
<1>1. IInv'
  BY StutterInv DEF Inv
<1>2. BusTypeOK'
  BY <1>1 DEF Inv, IInv, BusTypeOK, bvars, Transferring
<1>3. BusExclusive'
  BY DEF Inv, BusTypeOK, BusExclusive, bvars
<1>4. (IrqBalanced /\ TouchAtWork)'
  BY DEF Inv, BusTypeOK, IrqBalanced, TouchAtWork, Transferring, bvars, tvars
<1> QED BY <1>1, <1>2, <1>3, <1>4 DEF Inv

(* TryFails keeps the invariant. *)
LEMMA TryFailsInv ==
  ASSUME Inv, NEW c \in Caller, TryFails(c)
  PROVE  Inv'
<1> USE BusAssumption DEF BusAssumption, Adapter, TryFails, Return, After
<1>1. IInv'
  BY StutterInv DEF Inv
<1>2. BusTypeOK'
  <2>1. disturbed' \in [Caller -> BOOLEAN] /\ unread' \in BOOLEAN
    BY Zenon DEF Inv, BusTypeOK
  <2> QED BY <1>1, <2>1 DEF Inv, IInv, BusTypeOK, Transferring
<1>3. BusExclusive'
  BY DEF Inv, BusTypeOK, BusExclusive, bvars
<1>4. (IrqBalanced /\ TouchAtWork)'
  BY DEF Inv, BusTypeOK, IrqBalanced, TouchAtWork, Transferring, bvars, tvars
<1> QED BY <1>1, <1>2, <1>3, <1>4 DEF Inv

(* EndTransfer keeps the invariant. *)
LEMMA EndTransferInv ==
  ASSUME Inv, NEW c \in Caller, NEW ok \in BOOLEAN, EndTransfer(c, ok)
  PROVE  Inv'
<1> USE BusAssumption DEF BusAssumption, Adapter, EndTransfer, Return, After
<1>1. IInv'
  BY StutterInv DEF Inv
<1>2. BusTypeOK'
  <2>1. disturbed' \in [Caller -> BOOLEAN] /\ unread' \in BOOLEAN
    BY Zenon DEF Inv, BusTypeOK
  <2> QED BY <1>1, <2>1 DEF Inv, IInv, BusTypeOK, Transferring
<1>3. BusExclusive'
  BY DEF Inv, BusTypeOK, BusExclusive, bvars
<1>4. (IrqBalanced /\ TouchAtWork)'
  BY DEF Inv, BusTypeOK, IrqBalanced, TouchAtWork, Transferring, bvars, tvars
<1> QED BY <1>1, <1>2, <1>3, <1>4 DEF Inv

(* SlaveHolds keeps the invariant. *)
LEMMA SlaveHoldsInv ==
  ASSUME Inv, NEW a \in Adapter, SlaveHolds(a)
  PROVE  Inv'
<1> USE RecoveryAssumption DEF RecoveryAssumption, Adapter, SlaveHolds, bvars, tvars
<1>1. TypeOK' /\ (module = "out" => Idle)'
  BY DEF Inv, IInv, TypeOK, Idle
<1>2. ASSUME NEW x \in Writer PROVE WriterOK(x)'
  BY <1>2 DEF Inv, IInv, TypeOK, WriterOK, Busy
<1>3. PinsRestored'
  BY DEF Inv, IInv, PinsRestored
<1>4. BusTypeOK' /\ BusExclusive' /\ IrqBalanced' /\ TouchAtWork'
  BY <1>1 DEF Inv, BusTypeOK, BusExclusive, IrqBalanced, TouchAtWork
<1> QED BY <1>1, <1>2, <1>3, <1>4 DEF Inv, IInv

(* Recovery keeps the invariant. *)
LEMMA RecoveryInv ==
  ASSUME Inv, Recovery
  PROVE  Inv'
<1>1. IInv'
  <2>1. RNext
    BY DEF Recovery, RNext
  <2> QED BY <2>1, NextInv DEF Inv
<1>2. disturbed' \in [Caller -> BOOLEAN]
  BY Zenon DEF Inv, BusTypeOK, Recovery
<1>3. BusTypeOK' /\ BusExclusive' /\ IrqBalanced' /\ TouchAtWork'
  BY <1>1, <1>2 DEF IInv, Inv, Recovery, tvars, BusTypeOK, BusExclusive, IrqBalanced, TouchAtWork
<1> QED BY <1>1, <1>3 DEF Inv

(* Every step of the bus keeps it. *)
THEOREM NextBus == Inv /\ [Next]_vars => Inv'
<1> SUFFICES ASSUME Inv, [Next]_vars PROVE Inv'
  OBVIOUS
<1>1. CASE FallingEdge \/ DisableIrq \/ ScheduleWork \/ BeginWork \/ EnableIrq
  BY <1>1, FallingEdgeInv, DisableIrqInv, ScheduleWorkInv, BeginWorkInv, EnableIrqInv
<1>2. ASSUME NEW c \in Caller, i2c_transfer(c) PROVE Inv'
  BY <1>2, CallInv, NotSupportedInv, LockInv, TryFailsInv, EndTransferInv DEF i2c_transfer
<1>3. ASSUME NEW a \in Adapter, SlaveHolds(a) PROVE Inv'
  BY <1>3, SlaveHoldsInv
<1>4. CASE Recovery
  BY <1>4, RecoveryInv
<1>5. CASE UNCHANGED vars
  <2>1. IInv'
    BY <1>5, StutterInv DEF Inv, vars
  <2> QED BY <1>5, <2>1 DEF Inv, IInv, vars, bvars, tvars, BusTypeOK, BusExclusive, IrqBalanced, TouchAtWork
<1> QED BY <1>1, <1>2, <1>3, <1>4, <1>5 DEF Next

-----------------------------------------------------------------------------
(* The inductive invariant of the bus holds always. *)
LEMMA BusInvariance == Spec => []Inv
BY InitBus, NextBus, PTL DEF Spec

(* Every variable keeps its type; the interrupt is disabled at most once. *)
THEOREM BusTypeCorrect == Spec => []BusTypeOK
<1>1. Inv => BusTypeOK
  BY DEF Inv
<1> QED BY <1>1, BusInvariance, PTL

(* i2c_transfer lets one caller at a time on an adapter, whether it waits  *)
(* for the mutex or tries it.                                              *)
THEOREM OneTransfer == Spec => []BusExclusive
<1>1. Inv => BusExclusive
  BY DEF Inv
<1> QED BY <1>1, BusInvariance, PTL

(* gt811 disables and enables its interrupt in pairs, and one run of its   *)
(* work answers for each pair, whichever of its transfers fails.           *)
THEOREM IrqPaired == Spec => []IrqBalanced
<1>1. Inv => IrqBalanced
  BY DEF Inv
<1> QED BY <1>1, BusInvariance, PTL

(* A store that was alone frees the slave also while others transfer. *)
THEOREM SlaveFreedOnBus == Spec => []Freed
<1>1. Inv => Freed
  BY DEF Inv, IInv, WriterOK, Freed
<1> QED BY <1>1, BusInvariance, PTL
=============================================================================
