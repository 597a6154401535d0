------------------------- MODULE TimedOutput_proofs -------------------------
(***************************************************************************)
(* Proofs about TimedOutput, for any sets of drivers and of users.         *)
(***************************************************************************)
EXTENDS TimedOutput, TLAPS

(* Where a driver is while something of it exists. *)
HasDevice == {"create_file", "set_drvdata", "in", "drain", "destroy", "again", "gone"}
HasFile   == {"set_drvdata", "in", "again", "gone"}
HasData   == {"in", "drain", "destroy", "clear", "again", "gone"}
HasNumber == {"create", "oops"} \cup HasDevice
HasNothing == {"out", "again", "gone"}

(* What exists of a driver is told by where it is. *)
InStep(d) ==
  /\ dev[d]  <=> pc[d] \in HasDevice
  /\ file[d] <=> pc[d] \in HasFile
  /\ drvdata[d] = IF pc[d] \in HasData THEN d ELSE Null
  /\ resource[d] = IF pc[d] \in HasNothing THEN {} ELSE Resource
  /\ dev[d] /\ pc[d] # "gone" => number[d] = index[d]
  /\ d \in orphan => pc[d] = "gone"

Steps == \A d \in Driver : InStep(d)

(* An access goes on only while the file is there or is being drained. *)
Open == HasFile \cup {"drain"}
Accesses ==
  \A u \in User :
    /\ at[u] # "outside" => pc[target[u]] \in Open
    /\ at[u] \in {"resolved", "inside"} => tdev[u] \in {Null, target[u]}
    /\ at[u] = "inside" => tdev[u] # Null

(* A number is in use by a device of the class, or for one to come.  The
   class is there as long as a number is, so that the count starts again only
   when none is. *)
InUse(d) == pc[d] \in HasNumber /\ d \notin orphan
Mine(d) == IF dev[d] THEN number[d] ELSE index[d]
Numbers ==
  /\ \A d \in Driver : InUse(d) \/ pc[d] = "index" => class # "none"
  /\ \A d \in Driver : InUse(d) => Mine(d) <= device_count
  /\ \A d, e \in Driver : d # e /\ InUse(d) /\ InUse(e) => Mine(d) # Mine(e)

Inv == TypeOK /\ Steps /\ Accesses /\ Numbers

-----------------------------------------------------------------------------
Label == {"out", "class", "index", "create", "create_file", "set_drvdata", "in", "unwind",
          "drain", "destroy", "clear", "again", "gone", "oops"}

(* A driver goes to a label; the others stay. *)
LEMMA GotoFacts ==
  ASSUME Inv, NEW d \in Driver, NEW l \in Label, Goto(d, l)
  PROVE  /\ pc' \in [Driver -> Label] /\ pc'[d] = l
         /\ \A e \in Driver \ {d} : pc'[e] = pc[e]
<1>1. pc \in [Driver -> Label]
  BY DEF Inv, TypeOK, Label
<1> QED BY <1>1 DEF Goto

(* There are drivers: the vibrator's. *)
LEMMA AnyDriverFacts == AnyDriver \in Driver
BY TimedOutputAssumption DEF AnyDriver, TimedOutputAssumption

(* A device that is destroyed is the one meant: no other has its number. *)
LEMMA DestroyFacts ==
  ASSUME Inv, NEW d \in Driver, pc[d] \in {"create_file", "destroy"}, device_destroy(d)
  PROVE  /\ dev' = [dev EXCEPT ![d] = FALSE]
         /\ number' = [number EXCEPT ![d] = 0]
<1>1. PICK e \in Driver :
        /\ InClass(e) /\ number[e] = index[d]
        /\ dev' = [dev EXCEPT ![e] = FALSE] /\ number' = [number EXCEPT ![e] = 0]
  BY DEF device_destroy
<1>2. /\ dev[d] /\ InUse(d) /\ Mine(d) = index[d]
  BY DEF Inv, Steps, InStep, InUse, Mine, HasDevice, HasNumber
<1>3. InUse(e) /\ Mine(e) = number[e]
  BY <1>1 DEF Inv, Steps, InStep, InClass, InUse, Mine, HasNumber
<1>4. e = d
  BY <1>1, <1>2, <1>3 DEF Inv, Numbers
<1> QED BY <1>1, <1>4

(* The invariant holds at first. *)
LEMMA InitInv == Init => Inv
<1> SUFFICES ASSUME Init PROVE Inv
  OBVIOUS
<1>1. TypeOK
  BY AnyDriverFacts DEF Init, TypeOK, kvars
<1>2. Steps
  BY DEF Init, Steps, InStep, HasDevice, HasFile, HasData, HasNumber, HasNothing
<1>3. Accesses
  BY DEF Init, Accesses
<1>4. Numbers
  BY DEF Init, Numbers, InUse, HasNumber, HasDevice
<1> QED BY <1>1, <1>2, <1>3, <1>4 DEF Inv

(* A stutter keeps the invariant. *)
LEMMA StutterInv == Inv /\ UNCHANGED vars => Inv'
<1> SUFFICES ASSUME Inv, UNCHANGED vars PROVE Inv'
  OBVIOUS
<1> USE DEF Inv, vars, cvars, dvars, kvars, uvars
<1>1. TypeOK'
  BY DEF TypeOK
<1>2. Steps' /\ Accesses' /\ Numbers'
  BY DEF Steps, InStep, Accesses, Numbers, InUse, Mine
<1> QED BY <1>1, <1>2

-----------------------------------------------------------------------------
(* The class *)

(* The count starts again only with a new class. *)
LEMMA ClassFacts ==
  ASSUME Inv, NEW ok \in BOOLEAN, create_timed_output_class(ok)
  PROVE  /\ class' \in {"ok", "error"} /\ device_count' \in Nat
         /\ class # "none" => class' = class /\ device_count' = device_count
         /\ class = "none" => class' = IF ok THEN "ok" ELSE "error"
  BY DEF Inv, TypeOK, create_timed_output_class

(* ClassInit keeps the invariant. *)
LEMMA ClassInitInv ==
  ASSUME Inv, NEW ok \in BOOLEAN, timed_output_init(ok) PROVE Inv'
<1> USE DEF timed_output_init
<1>1. CASE builtin \/ ok
  <2>1. /\ class' \in {"ok", "error"} /\ device_count' \in Nat
        /\ class # "none" => class' = class /\ device_count' = device_count
    BY <1>1, ClassFacts
  <2>2. TypeOK'
    BY <1>1, <2>1 DEF Inv, TypeOK, dvars, kvars, uvars
  <2>3. Steps' /\ Accesses'
    BY DEF Inv, Steps, InStep, Accesses, dvars, kvars, uvars
  <2>4. Numbers'
    BY <2>1 DEF Inv, Numbers, InUse, Mine, dvars, kvars
  <2> QED BY <2>2, <2>3, <2>4 DEF Inv
<1>2. CASE ~(builtin \/ ok)
  <2>1. UNCHANGED vars
    BY <1>2 DEF vars, cvars
  <2> QED BY <2>1, StutterInv
<1> QED BY <1>1, <1>2

(* The class goes only when every driver has gone, and a device that is
   left is then an orphan. *)
LEMMA ClassExitInv == ASSUME Inv, timed_output_exit PROVE Inv'
<1> USE DEF timed_output_exit
<1>1. TypeOK'
  BY DEF Inv, TypeOK, uvars
<1>2. Steps' /\ Accesses'
  BY DEF Inv, TypeOK, Steps, InStep, Accesses, HasDevice, uvars
<1>3. ASSUME NEW d \in Driver PROVE ~InUse(d)' /\ pc'[d] # "index"
  BY DEF Inv, Steps, InStep, InUse, HasNumber, HasDevice
<1>4. Numbers'
  BY <1>3 DEF Numbers
<1> QED BY <1>1, <1>2, <1>4 DEF Inv

-----------------------------------------------------------------------------
(* The drivers *)

(* What the driver's functions use is there before it registers. *)
LEMMA DriverInitInv == ASSUME Inv, NEW d \in Driver, mx6_motor_init(d) PROVE Inv'
<1> USE DEF mx6_motor_init
<1>1. /\ pc' \in [Driver -> Label] /\ pc'[d] = "class"
      /\ \A e \in Driver \ {d} : pc'[e] = pc[e]
  BY GotoFacts DEF Label
<1>2. TypeOK'
  BY <1>1 DEF Inv, TypeOK, Label, cvars, kvars, uvars
<1>3. Steps'
  <2>1. ASSUME NEW e \in Driver \ {d} PROVE InStep(e)'
    BY <1>1 DEF Inv, TypeOK, Steps, InStep, kvars
  <2>2. InStep(d)'
    BY <1>1 DEF Inv, TypeOK, Steps, InStep, kvars, HasDevice, HasFile, HasData,
     HasNumber, HasNothing
  <2> QED BY <2>1, <2>2 DEF Steps
<1>4. Accesses'
  BY <1>1 DEF Inv, TypeOK, Accesses, Open, HasFile, uvars
<1>5. Numbers'
  BY <1>1 DEF Inv, TypeOK, Steps, InStep, Numbers, InUse, Mine, HasNumber, HasDevice, cvars, kvars
<1> QED BY <1>2, <1>3, <1>4, <1>5 DEF Inv

(* Whoever goes on to take a number has the class. *)
LEMMA ClassInv == ASSUME Inv, NEW d \in Driver, NEW ok \in BOOLEAN, Class(d, ok) PROVE Inv'
<1> USE DEF Class
<1>0. /\ class' \in {"ok", "error"} /\ device_count' \in Nat
      /\ class # "none" => class' = class /\ device_count' = device_count
  BY ClassFacts
<1>1. /\ pc' \in [Driver -> Label] /\ pc'[d] \in {"unwind", "index"}
      /\ \A e \in Driver \ {d} : pc'[e] = pc[e]
  BY GotoFacts DEF Label
<1>2. TypeOK'
  BY <1>1, <1>0 DEF Inv, TypeOK, Label, cvars, kvars, uvars
<1>3. Steps'
  BY <1>1 DEF Inv, TypeOK, Steps, InStep, kvars, HasDevice, HasFile, HasData,
     HasNumber, HasNothing
<1>4. Accesses'
  BY <1>1 DEF Inv, TypeOK, Accesses, Open, HasFile, uvars
<1>5. Numbers'
  BY <1>1, <1>0 DEF Inv, TypeOK, Steps, InStep, Numbers, InUse, Mine, HasNumber, HasDevice, cvars, kvars
<1> QED BY <1>2, <1>3, <1>4, <1>5 DEF Inv

(* The new number is larger than any in use. *)
LEMMA IndexInv == ASSUME Inv, NEW d \in Driver, Index(d) PROVE Inv'
<1> USE DEF Index
<1>1. /\ pc' \in [Driver -> Label] /\ pc'[d] = "create"
      /\ \A e \in Driver \ {d} : pc'[e] = pc[e]
  BY GotoFacts DEF Label
<1>2. TypeOK'
  <2>1. device_count' \in Nat /\ index' \in [Driver -> Nat]
    BY DEF Inv, TypeOK
  <2> QED BY <1>1, <2>1 DEF Inv, TypeOK, Label, kvars, uvars
<1>3. Steps'
  BY <1>1 DEF Inv, TypeOK, Steps, InStep, kvars, HasDevice, HasFile, HasData,
     HasNumber, HasNothing
<1>4. Accesses'
  BY <1>1 DEF Inv, TypeOK, Accesses, Open, HasFile, uvars
<1>5. Numbers'
  BY <1>1 DEF Inv, TypeOK, Steps, InStep, Numbers, InUse, Mine, HasNumber, HasDevice, cvars, kvars
<1> QED BY <1>2, <1>3, <1>4, <1>5 DEF Inv

(* The class exists here, so that a step that goes on has a device. *)
LEMMA CreateDeviceInv ==
  ASSUME Inv, NEW d \in Driver, NEW ok \in BOOLEAN, CreateDevice(d, ok) PROVE Inv'
<1> USE DEF CreateDevice
<1>1. /\ pc' \in [Driver -> Label]
      /\ pc'[d] = IF class = "error" THEN "oops" ELSE IF ok THEN "create_file" ELSE "unwind"
      /\ \A e \in Driver \ {d} : pc'[e] = pc[e]
      /\ number' \in [Driver -> Nat]
  BY GotoFacts DEF Label, Inv, TypeOK
<1>2. TypeOK'
  BY <1>1 DEF Inv, TypeOK, Label, cvars, kvars, uvars
<1>3. Steps'
  <2>1. ASSUME NEW e \in Driver \ {d} PROVE InStep(e)'
    BY <1>1 DEF Inv, TypeOK, Steps, InStep, kvars
  <2>2. InStep(d)'
    <3>1. class # "none" /\ class \in {"none", "ok", "error"}
      BY DEF Inv, TypeOK, Numbers, InUse, HasNumber, Steps, InStep
    <3> QED BY <1>1, <3>1 DEF Inv, TypeOK, Steps, InStep, HasNumber, HasDevice, HasFile, HasData,
         HasNothing
  <2> QED BY <2>1, <2>2 DEF Steps
<1>4. Accesses'
  BY <1>1 DEF Inv, TypeOK, Accesses, Open, HasFile, uvars
<1>5. Numbers'
  BY <1>1 DEF Inv, TypeOK, Steps, InStep, Numbers, InUse, Mine, HasNumber, HasDevice, cvars, kvars
<1> QED BY <1>2, <1>3, <1>4, <1>5 DEF Inv

(* The device goes with the file that could not be made. *)
LEMMA CreateFileInv ==
  ASSUME Inv, NEW d \in Driver, NEW ok \in BOOLEAN, CreateFile(d, ok) PROVE Inv'
<1> USE DEF CreateFile
<1>0. IF ok THEN UNCHANGED <<dev, number>>
      ELSE dev' = [dev EXCEPT ![d] = FALSE] /\ number' = [number EXCEPT ![d] = 0]
  BY DestroyFacts
<1>1. /\ pc' \in [Driver -> Label] /\ pc'[d] = IF ok THEN "set_drvdata" ELSE "unwind"
      /\ \A e \in Driver \ {d} : pc'[e] = pc[e]
  BY GotoFacts DEF Label
<1>2. TypeOK'
  <2>1. file' \in [Driver -> BOOLEAN]
    BY Zenon DEF Inv, TypeOK
  <2>2. dev' \in [Driver -> BOOLEAN] /\ number' \in [Driver -> Nat]
    <3> HIDE DEF CreateFile
    <3>1. CASE ok
      BY <1>0, <3>1 DEF Inv, TypeOK
    <3>2. CASE ~ok
      <4>1. dev' = [dev EXCEPT ![d] = FALSE] /\ number' = [number EXCEPT ![d] = 0]
        BY <1>0, <3>2
      <4>2. dev' \in [Driver -> BOOLEAN]
        BY <4>1, Zenon DEF Inv, TypeOK
      <4> QED BY <4>1, <4>2 DEF Inv, TypeOK
    <3> QED BY <3>1, <3>2
  <2> QED BY <1>1, <2>1, <2>2 DEF Inv, TypeOK, Label, cvars, uvars
<1>3. Steps'
  BY <1>0, <1>1 DEF Inv, TypeOK, Steps, InStep, kvars, HasDevice, HasFile, HasData,
     HasNumber, HasNothing
<1>4. Accesses'
  BY <1>0, <1>1 DEF Inv, TypeOK, Accesses, Open, HasFile, uvars
<1>5. Numbers'
  BY <1>0, <1>1 DEF Inv, TypeOK, Steps, InStep, Numbers, InUse, Mine, HasNumber, HasDevice, cvars, kvars
<1> QED BY <1>2, <1>3, <1>4, <1>5 DEF Inv

(* SetDrvdata keeps the invariant. *)
LEMMA SetDrvdataInv == ASSUME Inv, NEW d \in Driver, SetDrvdata(d) PROVE Inv'
<1> USE DEF SetDrvdata
<1>1. /\ pc' \in [Driver -> Label] /\ pc'[d] = "in"
      /\ \A e \in Driver \ {d} : pc'[e] = pc[e]
  BY GotoFacts DEF Label
<1>2. TypeOK'
  BY <1>1 DEF Inv, TypeOK, Label, cvars, kvars, uvars
<1>3. Steps'
  BY <1>1 DEF Inv, TypeOK, Steps, InStep, kvars, HasDevice, HasFile, HasData,
     HasNumber, HasNothing
<1>4. Accesses'
  BY <1>1 DEF Inv, TypeOK, Accesses, Open, HasFile, uvars
<1>5. Numbers'
  BY <1>1 DEF Inv, TypeOK, Steps, InStep, Numbers, InUse, Mine, HasNumber, HasDevice, cvars, kvars
<1> QED BY <1>2, <1>3, <1>4, <1>5 DEF Inv

(* Unwind keeps the invariant. *)
LEMMA UnwindInv == ASSUME Inv, NEW d \in Driver, Unwind(d) PROVE Inv'
<1> USE DEF Unwind
<1>1. /\ pc' \in [Driver -> Label] /\ pc'[d] = "out"
      /\ \A e \in Driver \ {d} : pc'[e] = pc[e]
  BY GotoFacts DEF Label
<1>2. TypeOK'
  BY <1>1 DEF Inv, TypeOK, Label, cvars, kvars, uvars
<1>3. Steps'
  <2>1. ASSUME NEW e \in Driver \ {d} PROVE InStep(e)'
    BY <1>1 DEF Inv, TypeOK, Steps, InStep, kvars
  <2>2. InStep(d)'
    BY <1>1 DEF Inv, TypeOK, Steps, InStep, kvars, HasDevice, HasFile, HasData,
     HasNumber, HasNothing
  <2> QED BY <2>1, <2>2 DEF Steps
<1>4. Accesses'
  BY <1>1 DEF Inv, TypeOK, Accesses, Open, HasFile, uvars
<1>5. Numbers'
  BY <1>1 DEF Inv, TypeOK, Steps, InStep, Numbers, InUse, Mine, HasNumber, HasDevice, cvars, kvars
<1> QED BY <1>2, <1>3, <1>4, <1>5 DEF Inv

(* An access under way goes on while the file is drained. *)
LEMMA RemoveFileInv == ASSUME Inv, NEW d \in Driver, RemoveFile(d) PROVE Inv'
<1> USE DEF RemoveFile
<1>1. /\ pc' \in [Driver -> Label] /\ pc'[d] = "drain"
      /\ \A e \in Driver \ {d} : pc'[e] = pc[e]
  BY GotoFacts DEF Label
<1>2. TypeOK'
  BY <1>1 DEF Inv, TypeOK, Label, cvars, kvars, uvars
<1>3. Steps'
  BY <1>1 DEF Inv, TypeOK, Steps, InStep, kvars, HasDevice, HasFile, HasData,
     HasNumber, HasNothing
<1>4. Accesses'
  BY <1>1 DEF Inv, TypeOK, Accesses, Open, HasFile, uvars
<1>5. Numbers'
  BY <1>1 DEF Inv, TypeOK, Steps, InStep, Numbers, InUse, Mine, HasNumber, HasDevice, cvars, kvars
<1> QED BY <1>2, <1>3, <1>4, <1>5 DEF Inv

(* Nobody is inside when the device is destroyed. *)
LEMMA DrainInv == ASSUME Inv, NEW d \in Driver, Drain(d) PROVE Inv'
<1> USE DEF Drain
<1>1. /\ pc' \in [Driver -> Label] /\ pc'[d] = "destroy"
      /\ \A e \in Driver \ {d} : pc'[e] = pc[e]
  BY GotoFacts DEF Label
<1>2. TypeOK'
  BY <1>1 DEF Inv, TypeOK, Label, cvars, kvars, uvars
<1>3. Steps'
  BY <1>1 DEF Inv, TypeOK, Steps, InStep, kvars, HasDevice, HasFile, HasData,
     HasNumber, HasNothing
<1>4. Accesses'
  BY <1>1 DEF Inv, TypeOK, Accesses, Open, HasFile, uvars
<1>5. Numbers'
  BY <1>1 DEF Inv, TypeOK, Steps, InStep, Numbers, InUse, Mine, HasNumber, HasDevice, cvars, kvars
<1> QED BY <1>2, <1>3, <1>4, <1>5 DEF Inv

(* Destroy keeps the invariant. *)
LEMMA DestroyInv == ASSUME Inv, NEW d \in Driver, Destroy(d) PROVE Inv'
<1> USE DEF Destroy
<1>0. dev' = [dev EXCEPT ![d] = FALSE] /\ number' = [number EXCEPT ![d] = 0]
  BY DestroyFacts
<1>1. /\ pc' \in [Driver -> Label] /\ pc'[d] = "clear"
      /\ \A e \in Driver \ {d} : pc'[e] = pc[e]
  BY GotoFacts DEF Label
<1>2. TypeOK'
  BY <1>0, <1>1 DEF Inv, TypeOK, Label, cvars, kvars, uvars
<1>3. Steps'
  BY <1>0, <1>1 DEF Inv, TypeOK, Steps, InStep, kvars, HasDevice, HasFile, HasData,
     HasNumber, HasNothing
<1>4. Accesses'
  BY <1>0, <1>1 DEF Inv, TypeOK, Accesses, Open, HasFile, uvars
<1>5. Numbers'
  BY <1>0, <1>1 DEF Inv, TypeOK, Steps, InStep, Numbers, InUse, Mine, HasNumber, HasDevice, cvars, kvars
<1> QED BY <1>2, <1>3, <1>4, <1>5 DEF Inv

(* ClearDrvdata keeps the invariant. *)
LEMMA ClearDrvdataInv == ASSUME Inv, NEW d \in Driver, ClearDrvdata(d) PROVE Inv'
<1> USE DEF ClearDrvdata
<1>1. /\ pc' \in [Driver -> Label] /\ pc'[d] = "unwind"
      /\ \A e \in Driver \ {d} : pc'[e] = pc[e]
  BY GotoFacts DEF Label
<1>2. TypeOK'
  BY <1>1 DEF Inv, TypeOK, Label, cvars, kvars, uvars
<1>3. Steps'
  BY <1>1 DEF Inv, TypeOK, Steps, InStep, kvars, HasDevice, HasFile, HasData,
     HasNumber, HasNothing
<1>4. Accesses'
  BY <1>1 DEF Inv, TypeOK, Accesses, Open, HasFile, uvars
<1>5. Numbers'
  BY <1>1 DEF Inv, TypeOK, Steps, InStep, Numbers, InUse, Mine, HasNumber, HasDevice, cvars, kvars
<1> QED BY <1>2, <1>3, <1>4, <1>5 DEF Inv

(* The vibrator's exit leaves the file and frees what it leads to. *)
LEMMA ExitFreesInv == ASSUME Inv, NEW m \in Motor, ExitFrees(m) PROVE Inv'
<1> USE DEF ExitFrees
<1>0. m \in Driver
  BY TimedOutputAssumption DEF TimedOutputAssumption
<1>1. /\ pc' \in [Driver -> Label] /\ pc'[m] = "again"
      /\ \A e \in Driver \ {m} : pc'[e] = pc[e]
  BY <1>0, GotoFacts DEF Label
<1>2. TypeOK'
  BY <1>1, <1>0 DEF Inv, TypeOK, Label, cvars, kvars, uvars
<1>3. Steps'
  <2>1. ASSUME NEW e \in Driver \ {m} PROVE InStep(e)'
    BY <1>1, <1>0 DEF Inv, TypeOK, Steps, InStep, kvars
  <2>2. InStep(m)'
    BY <1>1, <1>0 DEF Inv, TypeOK, Steps, InStep, kvars, HasDevice, HasFile, HasData,
     HasNumber, HasNothing
  <2> QED BY <2>1, <2>2 DEF Steps
<1>4. Accesses'
  BY <1>1, <1>0 DEF Inv, TypeOK, Accesses, Open, HasFile, uvars
<1>5. Numbers'
  BY <1>1, <1>0 DEF Inv, TypeOK, Steps, InStep, Numbers, InUse, Mine, HasNumber, HasDevice, cvars, kvars
<1> QED BY <1>2, <1>3, <1>4, <1>5 DEF Inv

(* The vibrator's exit takes a second number for the device that stays. *)
LEMMA ExitRegistersInv == ASSUME Inv, NEW m \in Motor, ExitRegisters(m) PROVE Inv'
<1> USE DEF ExitRegisters
<1>0. m \in Driver
  BY TimedOutputAssumption DEF TimedOutputAssumption
<1>1. /\ pc' \in [Driver -> Label] /\ pc'[m] = "gone"
      /\ \A e \in Driver \ {m} : pc'[e] = pc[e]
  BY <1>0, GotoFacts DEF Label
<1>2. TypeOK'
  <2>1. device_count' \in Nat /\ index' \in [Driver -> Nat]
    BY <1>0 DEF Inv, TypeOK
  <2> QED BY <1>1, <2>1 DEF Inv, TypeOK, Label, kvars, uvars
<1>3. Steps'
  BY <1>1, <1>0 DEF Inv, TypeOK, Steps, InStep, kvars, HasDevice, HasFile, HasData,
     HasNumber, HasNothing
<1>4. Accesses'
  BY <1>1, <1>0 DEF Inv, TypeOK, Accesses, Open, HasFile, uvars
<1>5. Numbers'
  BY <1>1, <1>0 DEF Inv, TypeOK, Steps, InStep, Numbers, InUse, Mine, HasNumber, HasDevice, cvars, kvars
<1> QED BY <1>2, <1>3, <1>4, <1>5 DEF Inv

-----------------------------------------------------------------------------
(* The users, who change nothing of the drivers *)

(* What a user does changes nothing of what drivers and class know. *)
LEMMA UserFacts == ASSUME Inv, UNCHANGED <<cvars, dvars>> PROVE Steps' /\ Numbers'
  BY DEF Inv, Steps, InStep, Numbers, InUse, Mine, cvars, dvars, kvars

(* Enter keeps the invariant. *)
LEMMA EnterInv == ASSUME Inv, NEW u \in User, NEW d \in Driver, Enter(u, d) PROVE Inv'
<1> USE DEF Enter
<1>1. TypeOK'
  BY DEF Inv, TypeOK, cvars, dvars, kvars
<1>2. Accesses'
  BY DEF Inv, TypeOK, Steps, InStep, Accesses, Open, dvars
<1> QED BY <1>1, <1>2, UserFacts DEF Inv

(* Resolve keeps the invariant. *)
LEMMA ResolveInv == ASSUME Inv, NEW u \in User, Resolve(u) PROVE Inv'
<1> USE DEF Resolve
<1>1. drvdata[target[u]] \in {Null, target[u]}
  BY DEF Inv, TypeOK, Steps, InStep
<1>2. TypeOK'
  BY <1>1 DEF Inv, TypeOK, cvars, dvars, kvars
<1>3. Accesses'
  BY <1>1 DEF Inv, TypeOK, Accesses, dvars
<1> QED BY <1>2, <1>3, UserFacts DEF Inv

(* Call keeps the invariant. *)
LEMMA CallInv == ASSUME Inv, NEW u \in User, Call(u) PROVE Inv'
<1> USE DEF Call
<1>1. TypeOK'
  BY DEF Inv, TypeOK, cvars, dvars, kvars
<1>2. Accesses'
  BY DEF Inv, TypeOK, Accesses, dvars
<1> QED BY <1>1, <1>2, UserFacts DEF Inv

(* To be refused and to return keep the invariant. *)
LEMMA LeaveInv == ASSUME Inv, NEW u \in User, Refuse(u) \/ Return(u) PROVE Inv'
<1> USE DEF Refuse, Return
<1>1. TypeOK'
  BY AnyDriverFacts DEF Inv, TypeOK, cvars, dvars, kvars
<1>2. Accesses'
  BY DEF Inv, TypeOK, Accesses, dvars
<1> QED BY <1>1, <1>2, UserFacts DEF Inv

(* To vanish keeps the invariant. *)
LEMMA VanishInv == ASSUME Inv, NEW u \in User, Vanish(u) PROVE Inv'
<1> USE DEF Vanish
<1>1. TypeOK'
  BY DEF Inv, TypeOK, cvars, dvars, kvars
<1>2. Accesses'
  BY DEF Inv, TypeOK, Accesses, dvars
<1> QED BY <1>1, <1>2, UserFacts DEF Inv

-----------------------------------------------------------------------------
(* Every step keeps the invariant. *)
LEMMA NextInv == Inv /\ [Next]_vars => Inv'
<1> SUFFICES ASSUME Inv, [Next]_vars PROVE Inv'
  OBVIOUS
<1>1. ASSUME NEW d \in Driver, Register(d) PROVE Inv'
  BY <1>1, ClassInv, CreateDeviceInv, CreateFileInv, IndexInv, SetDrvdataInv, UnwindInv
  DEF Register
<1>2. ASSUME NEW d \in Driver, Unregister(d) PROVE Inv'
  BY <1>2, DrainInv, DestroyInv, ClearDrvdataInv DEF Unregister
<1>3. ASSUME NEW u \in User, Access(u) PROVE Inv'
  BY <1>3, ResolveInv, CallInv, LeaveInv, VanishInv DEF Access
<1> QED
  BY <1>1, <1>2, <1>3, ClassInitInv, ClassExitInv, DriverInitInv, RemoveFileInv, ExitFreesInv,
     ExitRegistersInv, EnterInv, StutterInv DEF Next

(* The inductive invariant holds always. *)
LEMMA SpecInv == SafeSpec => []Inv
BY InitInv, NextInv, PTL DEF SafeSpec

(* Every variable of the class, the drivers and the users keeps its type. *)
THEOREM TypeCorrect == SafeSpec => []TypeOK
BY SpecInv, PTL DEF Inv

(* Whoever is inside a driver's function came by that driver's file and finds
   what the function uses, however registrations, failures and accesses
   interleave. *)
THEOREM InsideIsServed == SafeSpec => []ServedInside
<1>1. Inv => ServedInside
  BY DEF Inv, TypeOK, Steps, InStep, Accesses, ServedInside, Removed,
     Open, HasFile, HasDevice, HasNothing
<1> QED BY <1>1, SpecInv, PTL

(* A driver whose registration failed, at whichever step, or that has
   withdrawn, leaves nothing behind. *)
THEOREM OutLeavesNothing == SafeSpec => []NothingLeft
<1>1. Inv => NothingLeft
  BY DEF Inv, TypeOK, Steps, InStep, Accesses, NothingLeft,
     Open, HasFile, HasDevice, HasData, HasNothing
<1> QED BY <1>1, SpecInv, PTL

(* No two devices of the class have the same number, however often the
   modules are loaded and removed. *)
THEOREM NumbersDiffer == SafeSpec => []IndexIsUnique
<1>1. Inv => IndexIsUnique
  BY DEF Inv, Steps, InStep, Numbers, InUse, Mine, InClass, IndexIsUnique, HasNumber
<1> QED BY <1>1, SpecInv, PTL

(* An access finds no driver data only if it reads it between the creation of
   the file and the line that sets it. *)
THEOREM NullIsEarly == SafeSpec => NullOnlyInWindow
<1> DEFINE Early == \A u \in User :
             at[u] = "entered" /\ at'[u] = "resolved" /\ tdev'[u] = Null
               => pc[target[u]] = "set_drvdata"
<1>1. Inv /\ [Next]_vars => [Early]_vars
  <2> SUFFICES ASSUME Inv, Next, NEW u \in User,
                      at[u] = "entered", at'[u] = "resolved", tdev'[u] = Null
               PROVE  pc[target[u]] = "set_drvdata"
    OBVIOUS
  <2>1. tdev'[u] = drvdata[target[u]]
    <3>1. at \in [User -> {"outside", "entered", "resolved", "inside", "oops"}]
          /\ tdev \in [User -> Driver \cup {Null}]
      BY DEF Inv, TypeOK
    <3>2. at' # at
      OBVIOUS
    <3>3. \E x \in User : Access(x) \/ \E d \in Driver : Enter(x, d)
      BY <3>2 DEF Next, Register, Unregister, Class, CreateDevice, CreateFile, Index, SetDrvdata,
         Unwind, Drain, Destroy, ClearDrvdata, timed_output_init, timed_output_exit,
         mx6_motor_init, RemoveFile, ExitFrees, ExitRegisters, uvars
    <3>4. Resolve(u)
      BY <3>1, <3>3 DEF Access, Resolve, Refuse, Call, Return, Vanish, Enter
    <3> QED BY <3>1, <3>4 DEF Resolve
  <2>2. drvdata[target[u]] = IF pc[target[u]] \in HasData THEN target[u] ELSE Null
    BY DEF Inv, TypeOK, Steps, InStep
  <2>3. pc[target[u]] \in Open /\ target[u] # Null
    BY TimedOutputAssumption DEF Inv, TypeOK, Accesses, TimedOutputAssumption
  <2> QED BY <2>1, <2>2, <2>3 DEF Open, HasFile, HasData
<1> QED BY <1>1, SpecInv, PTL DEF SafeSpec, NullOnlyInWindow
=============================================================================
