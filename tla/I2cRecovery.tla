----------------------------- MODULE I2cRecovery -----------------------------
(***************************************************************************)
(* /sys/kernel/i2c_recovery/i2c_unlock (attribute_group.c): whoever writes *)
(* the number of an I2C adapter has its two lines taken from the           *)
(* controller and clocked by hand until the slave that holds sda lets go.  *)
(* The number is kept in the global foo, which every writer shares.        *)
(*                                                                         *)
(* Writers that opened the file each for itself run at the same time.      *)
(* Nothing is called from line 125 to line 134, so that foo is in a        *)
(* register there; after each call it is read again.                       *)
(***************************************************************************)
EXTENDS Integers

CONSTANTS
  Writer,   \* threads in foo_store
  Value,    \* the numbers they write
  Pulses,   \* clock pulses the code gives at most, 9
  LeastFoo  \* bound of the model: numbers below it are taken for it

ASSUME RecoveryAssumption ==
  /\ Value \subseteq Int
  /\ Pulses \in Nat
  /\ LeastFoo \in Int /\ LeastFoo < 0

Adapter == {0, 1}

VARIABLES
  module,      \* is the module "in", "out", or "leaving"?
  foo,
  pc, reg, i,  \* where each writer is, the number in its register, its i
  pins,        \* whether the "hw" or "gpio" has the lines of an adapter
  held,        \* pulses after which the slave lets go of sda
  clean,       \* history: has nothing come between a writer and its adapter?
  spoilt       \* history: what was done to an adapter last was not clean

rvars == <<module, foo, pc, reg, i, pins, held, clean, spoilt>>

TypeOK ==
  /\ module \in {"in", "out", "leaving"}
  /\ foo \in Int
  /\ pc \in [Writer -> {"idle", "scanned", "loaded", "enable", "pulse", "disable"}]
  /\ reg \in [Writer -> Int]
  /\ i \in [Writer -> 0 .. Pulses]
  /\ pins \in [Adapter -> {"hw", "gpio"}]
  /\ held \in [Adapter -> 0 .. Pulses]
  /\ clean \in [Writer -> BOOLEAN]
  /\ spoilt \in [Adapter -> BOOLEAN]

RInit ==
  /\ module = "out" /\ foo = 0
  /\ pc = [w \in Writer |-> "idle"] /\ reg = [w \in Writer |-> 0] /\ i = [w \in Writer |-> 0]
  /\ pins = [a \in Adapter |-> "hw"] /\ held = [a \in Adapter |-> 0]
  /\ clean = [w \in Writer |-> FALSE] /\ spoilt = [a \in Adapter |-> FALSE]

Goto(w, label) == pc' = [pc EXCEPT ![w] = label]
Leave(w) ==
  /\ Goto(w, "idle")
  /\ reg' = [reg EXCEPT ![w] = 0] /\ i' = [i EXCEPT ![w] = 0]
  /\ clean' = [clean EXCEPT ![w] = FALSE]
Idle == \A w \in Writer : pc[w] = "idle"

-----------------------------------------------------------------------------
(* The module.  If the file cannot be made, the directory goes again. *)

example_init ==
  /\ module = "out"
  /\ \E ok \in BOOLEAN : module' = IF ok THEN "in" ELSE "out"
  /\ foo' = 0
  /\ UNCHANGED <<pc, reg, i, pins, held, clean, spoilt>>

(* The file goes, but kobject_put waits for those who are in foo_store. *)
example_exit ==
  /\ \/ module = "in" /\ module' = "leaving"
     \/ module = "leaving" /\ Idle /\ module' = "out"
  /\ UNCHANGED <<foo, pc, reg, i, pins, held, clean, spoilt>>

-----------------------------------------------------------------------------
(* foo_store *)

(* sscanf leaves foo as it is if there is no number. *)
Scan(w) ==
  /\ module = "in" /\ pc[w] = "idle"
  /\ foo' \in Value \cup {foo}
  /\ Goto(w, "scanned")
  /\ clean' = [x \in Writer |-> x = w /\ Idle]
  /\ spoilt' = [a \in Adapter |-> spoilt[a] \/ ~Idle]
  /\ UNCHANGED <<module, reg, i, pins, held>>

Load(w) ==
  /\ pc[w] = "scanned"
  /\ reg' = [reg EXCEPT ![w] = IF foo > LeastFoo THEN foo - 1 ELSE LeastFoo]
  /\ Goto(w, "loaded")
  /\ UNCHANGED <<module, foo, i, pins, held, clean, spoilt>>

Store(w) ==
  /\ pc[w] = "loaded"
  /\ foo' = reg[w]
  /\ \/ reg[w] \in Adapter /\ Goto(w, "enable") /\ UNCHANGED <<reg, i, clean>>
     \/ reg[w] \notin Adapter /\ Leave(w)
  /\ UNCHANGED <<module, pins, held, spoilt>>

(* msm_gpios_enable may fail, which nobody is told. *)
gsbi_qup_i2c_gpio_config(adap_id, mode, ok) ==
  pins' = IF ok /\ adap_id \in Adapter THEN [pins EXCEPT ![adap_id] = mode] ELSE pins

Enable(w, ok) ==
  /\ pc[w] = "enable"
  /\ gsbi_qup_i2c_gpio_config(foo, "gpio", ok)
  /\ i' = [i EXCEPT ![w] = 0]
  /\ clean' = [clean EXCEPT ![w] = @ /\ ok]
  /\ Goto(w, "pulse")
  /\ UNCHANGED <<module, foo, reg, held, spoilt>>

(* What gpio_get_value says of sda: anything while the controller has it. *)
Sda(a, high) == pins[a] = "gpio" => (high <=> held[a] = 0)

(* The condition of the loop, and a mutant: a pulse fewer. *)
OneLess(w) == i[w] < Pulses - 1
More(w) == i[w] < Pulses

Clock(w) ==
  /\ pc[w] = "pulse" /\ More(w) /\ Sda(reg[w], FALSE)
  /\ held' = IF pins[reg[w]] = "gpio" THEN [held EXCEPT ![reg[w]] = @ - 1] ELSE held
  /\ i' = [i EXCEPT ![w] = @ + 1]
  /\ UNCHANGED <<module, foo, pc, reg, pins, clean, spoilt>>

EndPulses(w) ==
  /\ pc[w] = "pulse"
  /\ ~More(w) \/ Sda(reg[w], TRUE)
  /\ Goto(w, "disable")
  /\ UNCHANGED <<module, foo, reg, i, pins, held, clean, spoilt>>

Spoil(w, ok) ==
  spoilt' = [a \in Adapter |-> IF a # foo THEN spoilt[a] ELSE ok => spoilt[a] /\ ~clean[w]]

(* A mutant: the lines are not given back. *)
DisableKeeps(w, ok) ==
  /\ pc[w] = "disable"
  /\ Leave(w)
  /\ Spoil(w, ok)
  /\ UNCHANGED <<module, foo, pins, held>>

Disable(w, ok) ==
  /\ pc[w] = "disable"
  /\ gsbi_qup_i2c_gpio_config(foo, "hw", ok)
  /\ Leave(w)
  /\ Spoil(w, ok)
  /\ UNCHANGED <<module, foo, held>>

foo_store(w) ==
  \/ Scan(w) \/ Load(w) \/ Store(w) \/ Clock(w) \/ EndPulses(w)
  \/ \E ok \in BOOLEAN : Enable(w, ok) \/ Disable(w, ok)

-----------------------------------------------------------------------------
(* A slave was cut off in the middle of a byte and holds sda. *)
Hang(a) ==
  /\ Idle
  /\ held' \in {[held EXCEPT ![a] = n] : n \in 1 .. Pulses}
  /\ UNCHANGED <<module, foo, pc, reg, i, pins, clean, spoilt>>

RNext ==
  \/ example_init \/ example_exit
  \/ \E w \in Writer : foo_store(w)
  \/ \E a \in Adapter : Hang(a)

RSpec == RInit /\ [][RNext]_rvars

-----------------------------------------------------------------------------
(* The two lines of an adapter are given back to its controller, whatever  *)
(* number was written and however many pulses it took: they are in the     *)
(* hands of foo_store only while it runs for that adapter.  Stores that    *)
(* overlapped, and a switch that failed, are the exceptions: line 154 uses *)
(* the number anybody wrote last.                                          *)
PinsRestored ==
  \A a \in Adapter :
    pins[a] = "gpio" =>
      spoilt[a] \/ \E w \in Writer : clean[w] /\ reg[w] = a /\ pc[w] \in {"pulse", "disable"}

(* When the loop of line 141 is over, the slave has let go of sda, if no   *)
(* other store came between and the lines could be switched: the pulses    *)
(* went to the adapter that was asked for, and they were enough.           *)
Freed ==
  \A w \in Writer : clean[w] /\ pc[w] = "disable" => held[reg[w]] = 0
=============================================================================
