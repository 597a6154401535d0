-------------------------- MODULE Vibrator_proofs ---------------------------
(***************************************************************************)
(* Proofs about Vibrator, for any set of writers and of values.            *)
(***************************************************************************)
EXTENDS Vibrator, TLAPS

(* What the device sees of the writers: where the one that holds the mutex is
   in mx6_motor_enable, and what it asks for. *)
Stage == IF lock = Nobody THEN "idle" ELSE pc[lock]
Asked == IF lock = Nobody THEN 0 ELSE value[lock]

Mutex == \A w \in Writer : lock = w <=> pc[w] \notin {"idle", "lock"}

Switching     == {"wake_lock", "on", "start_timer", "off", "wake_unlock"}
WorkCancelled == Switching \cup {"flush_work"}
TimerCancelled == WorkCancelled \cup {"cancel_work"}

(* A writer touches the motor only after it has stopped, in this order, the
   timer, the queued work and the running work. *)
Cancelled ==
  /\ Stage \in TimerCancelled => timer = "idle"
  /\ Stage \in WorkCancelled  => ~pending
  /\ Stage \in Switching      => work = "idle"

(* What a writer has done on its way. *)
Progress ==
  /\ Stage \in {"wake_lock", "on"}    => Asked # 0
  /\ Stage \in {"off", "wake_unlock"} => Asked = 0
  /\ Stage = "on"          => wklock
  /\ Stage = "start_timer" => motor /\ wklock /\ last > 0
  /\ Stage = "wake_unlock" => ~motor /\ last = 0

(* The timer, the queued work and the running work are the stages of one
   vibration: it is in one of them at a time. *)
OneEnd ==
  /\ motor => wklock
  /\ timer # "idle"       => motor /\ ~pending /\ work = "idle"
  /\ pending              => motor /\ work = "idle"
  /\ work = "wake_unlock" => ~motor

(* When no writer is at work, the device is on its way to what the last one
   wanted. *)
Quiet == timer = "idle" /\ ~pending /\ work = "idle"
OnItsWay ==
  Stage \in {"idle", "unlock"} =>
    /\ last < 0 => Quiet /\ motor /\ wklock
    /\ last = 0 => Quiet /\ ~motor /\ ~wklock
    /\ last > 0 => /\ motor => timer # "idle" \/ pending \/ work = "off"
                   /\ wklock => motor \/ work # "idle"

Device == Cancelled /\ Progress /\ OneEnd /\ OnItsWay
Inv == TypeOK /\ Mutex /\ Device

-----------------------------------------------------------------------------
(* A writer that is past the mutex holds it, and is the one the device sees. *)
LEMMA HolderFacts ==
  ASSUME Inv, NEW w \in Writer, pc[w] \notin {"idle", "lock"}
  PROVE  lock = w /\ w # Nobody /\ Stage = pc[w] /\ Asked = value[w]
<1>1. lock = w
  BY DEF Inv, Mutex
<1>2. w # Nobody
  BY VibratorAssumption DEF VibratorAssumption
<1> QED BY <1>1, <1>2 DEF Stage, Asked

Label == {"idle", "lock", "cancel_timer", "cancel_work", "flush_work",
          "wake_lock", "on", "start_timer", "off", "wake_unlock", "unlock"}

(* A step of the holder from one label to the next, short of the unlock. *)
LEMMA MoveFacts ==
  ASSUME Inv, NEW w \in Writer, pc[w] \notin {"idle", "lock"},
         NEW l \in Label \ {"idle", "lock"}, Goto(w, l), UNCHANGED <<value, lock>>
  PROVE  /\ pc' \in [Writer -> Label] /\ Mutex'
         /\ Stage' = l /\ Asked' = Asked
<1>1. pc \in [Writer -> Label]
  BY DEF Inv, TypeOK, Label
<1>2. pc' \in [Writer -> Label] /\ pc'[w] = l /\ \A x \in Writer \ {w} : pc'[x] = pc[x]
  BY <1>1 DEF Goto
<1>3. lock = w /\ w # Nobody
  BY HolderFacts
<1>4. Stage' = l /\ Asked' = Asked
  BY <1>2, <1>3 DEF Stage, Asked
<1>5. Mutex'
  BY <1>2, <1>3 DEF Inv, Mutex
<1> QED BY <1>2, <1>4, <1>5

(* The invariant holds at first. *)
LEMMA InitInv == Init => Inv
<1> SUFFICES ASSUME Init PROVE Inv
  OBVIOUS
<1>1. TypeOK
  BY DEF Init, TypeOK
<1>2. Mutex
  BY VibratorAssumption DEF Init, Mutex, VibratorAssumption
<1>3. Device
  BY DEF Init, Device, Cancelled, Progress, OneEnd, OnItsWay, Quiet, Stage,
         Switching, WorkCancelled, TimerCancelled
<1> QED BY <1>1, <1>2, <1>3 DEF Inv

(* A stutter keeps the invariant. *)
LEMMA StutterInv == Inv /\ UNCHANGED vars => Inv'
<1> SUFFICES ASSUME Inv, UNCHANGED vars PROVE Inv'
  OBVIOUS
<1> QED
  BY DEF Inv, vars, wvars, dvars, TypeOK, Mutex, Device, Cancelled, Progress, OneEnd,
         OnItsWay, Quiet, Stage, Asked

-----------------------------------------------------------------------------
(* The steps of the writer that holds the mutex.  Each moves it to its next
   label and does one thing to the device. *)

(* The timer is stopped: whatever is left of a vibration is in the work. *)
LEMMA CancelTimerInv == ASSUME Inv, NEW w \in Writer, CancelTimer(w) PROVE Inv'
<1> USE DEF CancelTimer
<1>1. lock = w /\ w # Nobody /\ Stage = pc[w] /\ Asked = value[w]
  BY HolderFacts
<1>2. pc' \in [Writer -> Label] /\ Mutex' /\ Stage' = "cancel_work" /\ Asked' = Asked
  BY MoveFacts DEF Label
<1>3. TypeOK'
  BY <1>2 DEF Inv, TypeOK, Label, dvars
<1>4. Device'
  BY <1>1, <1>2 DEF Inv, Device, Cancelled, Progress, OneEnd, OnItsWay, Quiet,
     TimerCancelled, WorkCancelled, Switching, dvars
<1> QED BY <1>2, <1>3, <1>4 DEF Inv

(* Nothing can queue the work again, the timer being stopped. *)
LEMMA CancelWorkInv == ASSUME Inv, NEW w \in Writer, CancelWork(w) PROVE Inv'
<1> USE DEF CancelWork
<1>1. lock = w /\ w # Nobody /\ Stage = pc[w] /\ Asked = value[w]
  BY HolderFacts
<1>2. pc' \in [Writer -> Label] /\ Mutex' /\ Stage' = "flush_work" /\ Asked' = Asked
  BY MoveFacts DEF Label
<1>3. TypeOK'
  BY <1>2 DEF Inv, TypeOK, Label, dvars
<1>4. Device'
  BY <1>1, <1>2 DEF Inv, Device, Cancelled, Progress, OneEnd, OnItsWay, Quiet,
     TimerCancelled, WorkCancelled, Switching, dvars
<1> QED BY <1>2, <1>3, <1>4 DEF Inv

(* Nothing is left of an earlier vibration. *)
LEMMA FlushWorkInv == ASSUME Inv, NEW w \in Writer, FlushWork(w) PROVE Inv'
<1> USE DEF FlushWork
<1>1. lock = w /\ w # Nobody /\ Stage = pc[w] /\ Asked = value[w]
  BY HolderFacts
<1>2. /\ pc' \in [Writer -> Label] /\ Mutex' /\ Asked' = Asked
      /\ Stage' = IF value[w] = 0 THEN "off" ELSE "wake_lock"
  <2>1. CASE value[w] = 0
    BY <2>1, MoveFacts DEF Label
  <2>2. CASE ~(value[w] = 0)
    BY <2>2, MoveFacts DEF Label
  <2> QED BY <2>1, <2>2
<1>3. TypeOK'
  BY <1>2 DEF Inv, TypeOK, Label, dvars
<1>4. Device'
  BY <1>1, <1>2 DEF Inv, Device, Cancelled, Progress, OneEnd, OnItsWay, Quiet,
     TimerCancelled, WorkCancelled, Switching, dvars
<1> QED BY <1>2, <1>3, <1>4 DEF Inv

(* The wake lock comes before the motor. *)
LEMMA WakeLockInv == ASSUME Inv, NEW w \in Writer, WakeLock(w) PROVE Inv'
<1> USE DEF WakeLock
<1>1. lock = w /\ w # Nobody /\ Stage = pc[w] /\ Asked = value[w]
  BY HolderFacts
<1>2. pc' \in [Writer -> Label] /\ Mutex' /\ Stage' = "on" /\ Asked' = Asked
  BY MoveFacts DEF Label
<1>3. TypeOK'
  BY <1>2 DEF Inv, TypeOK, Label, dvars
<1>4. Device'
  BY <1>1, <1>2 DEF Inv, Device, Cancelled, Progress, OneEnd, OnItsWay, Quiet,
     TimerCancelled, WorkCancelled, Switching, dvars
<1> QED BY <1>2, <1>3, <1>4 DEF Inv

(* A negative value is done here; a positive one wants its timer. *)
LEMMA OnInv == ASSUME Inv, NEW w \in Writer, On(w) PROVE Inv'
<1> USE DEF On
<1>1. lock = w /\ w # Nobody /\ Stage = pc[w] /\ Asked = value[w]
  BY HolderFacts
<1>2. /\ pc' \in [Writer -> Label] /\ Mutex' /\ Asked' = Asked
      /\ Stage' = IF value[w] > 0 THEN "start_timer" ELSE "unlock"
  <2>1. CASE value[w] > 0
    BY <2>1, MoveFacts DEF Label
  <2>2. CASE ~(value[w] > 0)
    BY <2>2, MoveFacts DEF Label
  <2> QED BY <2>1, <2>2
<1>3. TypeOK'
  BY <1>2, VibratorAssumption DEF Inv, TypeOK, Label, dvars, VibratorAssumption
<1>4. Device'
  BY <1>1, <1>2, VibratorAssumption DEF Inv, Device, Cancelled, Progress, OneEnd, OnItsWay, Quiet,
     TimerCancelled, WorkCancelled, Switching, dvars, TypeOK, VibratorAssumption
<1> QED BY <1>2, <1>3, <1>4 DEF Inv

(* The timer is armed with the motor on and nothing left to run. *)
LEMMA StartTimerInv == ASSUME Inv, NEW w \in Writer, StartTimer(w) PROVE Inv'
<1> USE DEF StartTimer
<1>1. lock = w /\ w # Nobody /\ Stage = pc[w] /\ Asked = value[w]
  BY HolderFacts
<1>2. pc' \in [Writer -> Label] /\ Mutex' /\ Stage' = "unlock" /\ Asked' = Asked
  BY MoveFacts DEF Label
<1>3. TypeOK'
  BY <1>2 DEF Inv, TypeOK, Label, dvars
<1>4. Device'
  BY <1>1, <1>2, VibratorAssumption DEF Inv, Device, Cancelled, Progress, OneEnd, OnItsWay, Quiet,
     TimerCancelled, WorkCancelled, Switching, dvars, TypeOK, VibratorAssumption
<1> QED BY <1>2, <1>3, <1>4 DEF Inv

(* The value is 0, which is what took the writer here. *)
LEMMA OffInv == ASSUME Inv, NEW w \in Writer, Off(w) PROVE Inv'
<1> USE DEF Off
<1>1. lock = w /\ w # Nobody /\ Stage = pc[w] /\ Asked = value[w]
  BY HolderFacts
<1>2. pc' \in [Writer -> Label] /\ Mutex' /\ Stage' = "wake_unlock" /\ Asked' = Asked
  BY MoveFacts DEF Label
<1>3. TypeOK'
  BY <1>2 DEF Inv, TypeOK, Label, dvars
<1>4. Device'
  BY <1>1, <1>2 DEF Inv, Device, Cancelled, Progress, OneEnd, OnItsWay, Quiet,
     TimerCancelled, WorkCancelled, Switching, dvars
<1> QED BY <1>2, <1>3, <1>4 DEF Inv

(* The motor is off before the wake lock goes. *)
LEMMA WakeUnlockInv == ASSUME Inv, NEW w \in Writer, WakeUnlock(w) PROVE Inv'
<1> USE DEF WakeUnlock
<1>1. lock = w /\ w # Nobody /\ Stage = pc[w] /\ Asked = value[w]
  BY HolderFacts
<1>2. pc' \in [Writer -> Label] /\ Mutex' /\ Stage' = "unlock" /\ Asked' = Asked
  BY MoveFacts DEF Label
<1>3. TypeOK'
  BY <1>2 DEF Inv, TypeOK, Label, dvars
<1>4. Device'
  BY <1>1, <1>2 DEF Inv, Device, Cancelled, Progress, OneEnd, OnItsWay, Quiet,
     TimerCancelled, WorkCancelled, Switching, dvars
<1> QED BY <1>2, <1>3, <1>4 DEF Inv

-----------------------------------------------------------------------------
(* The steps around the mutex. *)

(* A writer that does not hold the mutex is not seen by the device. *)
LEMMA WriteInv == ASSUME Inv, NEW w \in Writer, Write(w) PROVE Inv'
<1> USE DEF Write
<1>1. pc \in [Writer -> Label] /\ value \in [Writer -> Value \cup {0}] /\ lock # w
  BY DEF Inv, TypeOK, Mutex, Label
<1>2. /\ pc' \in [Writer -> Label] /\ pc'[w] = "lock" /\ \A x \in Writer \ {w} : pc'[x] = pc[x]
      /\ value' \in [Writer -> Value \cup {0}] /\ \A x \in Writer \ {w} : value'[x] = value[x]
  BY <1>1 DEF Goto, Label
<1>3. TypeOK'
  BY <1>2 DEF Inv, TypeOK, Label, dvars
<1>4. Mutex'
  BY <1>1, <1>2 DEF Inv, Mutex
<1>5. Stage' = Stage /\ Asked' = Asked
  BY <1>1, <1>2 DEF Inv, TypeOK, Stage, Asked
<1>6. Device'
  BY <1>5 DEF Inv, Device, Cancelled, Progress, OneEnd, OnItsWay, Quiet, dvars
<1> QED BY <1>3, <1>4, <1>6 DEF Inv

(* Lock keeps the invariant. *)
LEMMA LockInv == ASSUME Inv, NEW w \in Writer, Lock(w) PROVE Inv'
<1> USE DEF Lock
<1>1. pc \in [Writer -> Label] /\ w # Nobody
  BY VibratorAssumption DEF Inv, TypeOK, Label, VibratorAssumption
<1>2. /\ pc' \in [Writer -> Label] /\ pc'[w] = "cancel_timer"
      /\ \A x \in Writer \ {w} : pc'[x] = pc[x]
  BY <1>1 DEF Goto, Label
<1>3. TypeOK'
  BY <1>2 DEF Inv, TypeOK, Label, dvars
<1>4. Mutex'
  BY <1>2, VibratorAssumption DEF Inv, Mutex, VibratorAssumption
<1>5. Stage' = "cancel_timer"
  BY <1>1, <1>2 DEF Stage
<1>6. Device'
  BY <1>5 DEF Inv, Device, Cancelled, Progress, OneEnd, OnItsWay, TimerCancelled, WorkCancelled,
     Switching, dvars
<1> QED BY <1>3, <1>4, <1>6 DEF Inv

(* What holds at the unlock holds when nobody holds the mutex. *)
LEMMA UnlockInv == ASSUME Inv, NEW w \in Writer, Unlock(w) PROVE Inv'
<1> USE DEF Unlock
<1>1. lock = w /\ w # Nobody /\ Stage = "unlock" /\ pc \in [Writer -> Label]
  BY HolderFacts DEF Inv, TypeOK, Label
<1>2. /\ pc' \in [Writer -> Label] /\ pc'[w] = "idle"
      /\ \A x \in Writer \ {w} : pc'[x] = pc[x]
  BY <1>1 DEF Goto, Label
<1>3. TypeOK'
  BY <1>2 DEF Inv, TypeOK, Label, dvars
<1>4. Mutex'
  BY <1>1, <1>2, VibratorAssumption DEF Inv, Mutex, VibratorAssumption
<1>5. Stage' = "idle"
  BY DEF Stage
<1>6. Device'
  BY <1>1, <1>5 DEF Inv, Device, Cancelled, Progress, OneEnd, OnItsWay, Quiet, TimerCancelled,
     WorkCancelled, Switching, dvars
<1> QED BY <1>3, <1>4, <1>6 DEF Inv

-----------------------------------------------------------------------------
(* The steps of the timer and of the work, which no mutex holds back. *)

(* The steps of the timer keep the invariant. *)
LEMMA TimerInv == ASSUME Inv, TimerStep PROVE Inv'
<1> USE DEF wvars, dvars
<1>1. UNCHANGED <<wvars, dvars, last>> /\ Stage' = Stage /\ Asked' = Asked /\ Mutex'
  BY DEF TimerStep, Expire, mx6_vibrator_timer_func, Inv, Mutex, Stage, Asked
<1>2. CASE Expire
  <2>1. TypeOK'
    BY <1>1, <1>2 DEF Expire, Inv, TypeOK
  <2>2. Device'
    BY <1>1, <1>2 DEF Expire, Inv, Device, Cancelled, Progress, OneEnd, OnItsWay, Quiet
  <2> QED BY <1>1, <2>1, <2>2 DEF Inv
<1>3. CASE mx6_vibrator_timer_func
  <2>1. TypeOK'
    BY <1>1, <1>3 DEF mx6_vibrator_timer_func, Inv, TypeOK
  <2>2. Stage \notin TimerCancelled
    BY <1>3 DEF mx6_vibrator_timer_func, Inv, Device, Cancelled
  <2>3. Device'
    BY <1>1, <1>3, <2>2 DEF mx6_vibrator_timer_func, Inv, Device, Cancelled, Progress, OneEnd,
       OnItsWay, Quiet, TimerCancelled, WorkCancelled
  <2> QED BY <1>1, <2>1, <2>3 DEF Inv
<1> QED BY <1>2, <1>3 DEF TimerStep

(* The steps of the work keep the invariant. *)
LEMMA WorkInv == ASSUME Inv, WorkStep PROVE Inv'
<1> USE DEF wvars, dvars
<1>1. UNCHANGED <<wvars, timer, last>> /\ Stage' = Stage /\ Asked' = Asked /\ Mutex'
  BY DEF WorkStep, WorkBegins, WorkOff, WorkWakeUnlock, Inv, Mutex, Stage, Asked
<1>2. CASE WorkBegins
  <2>1. TypeOK'
    BY <1>1, <1>2 DEF WorkBegins, Inv, TypeOK
  <2>2. Device'
    BY <1>1, <1>2 DEF WorkBegins, Inv, Device, Cancelled, Progress, OneEnd, OnItsWay, Quiet,
       WorkCancelled
  <2> QED BY <1>1, <2>1, <2>2 DEF Inv
<1>3. work # "idle" => Stage \notin Switching /\ timer = "idle" /\ ~pending
  BY DEF Inv, Device, Cancelled, OneEnd
<1>4. CASE WorkOff
  <2>1. TypeOK'
    BY <1>1, <1>4 DEF WorkOff, Inv, TypeOK
  <2>2. Device'
    BY <1>1, <1>3, <1>4 DEF WorkOff, Inv, Device, Cancelled, Progress, OneEnd, OnItsWay, Quiet,
       Switching
  <2> QED BY <1>1, <2>1, <2>2 DEF Inv
<1>5. CASE WorkWakeUnlock
  <2>1. TypeOK'
    BY <1>1, <1>5 DEF WorkWakeUnlock, Inv, TypeOK
  <2>2. Device'
    BY <1>1, <1>3, <1>5 DEF WorkWakeUnlock, Inv, Device, Cancelled, Progress, OneEnd, OnItsWay,
       Quiet, Switching
  <2> QED BY <1>1, <2>1, <2>2 DEF Inv
<1> QED BY <1>2, <1>4, <1>5 DEF WorkStep

-----------------------------------------------------------------------------
(* Every step keeps the invariant. *)
LEMMA NextInv == Inv /\ [Next]_vars => Inv'
<1> SUFFICES ASSUME Inv, [Next]_vars PROVE Inv'
  OBVIOUS
<1>1. ASSUME NEW w \in Writer, Inside(w) PROVE Inv'
  BY <1>1, CancelTimerInv, CancelWorkInv, FlushWorkInv, WakeLockInv, OnInv, StartTimerInv,
     OffInv, WakeUnlockInv, UnlockInv DEF Inside
<1>2. ASSUME NEW w \in Writer, Write(w) \/ Lock(w) PROVE Inv'
  BY <1>2, WriteInv, LockInv
<1> QED BY <1>1, <1>2, TimerInv, WorkInv, StutterInv DEF Next

(* The inductive invariant holds always. *)
LEMMA SpecInv == SafeSpec => []Inv
BY InitInv, NextInv, PTL DEF SafeSpec

(* Every variable of the driver keeps its type. *)
THEOREM TypeCorrect == SafeSpec => []TypeOK
BY SpecInv, PTL DEF Inv

(* The motor never runs without the wake lock, however many threads write and
   whenever the timer and its work come between them. *)
THEOREM AwakeWhileOn == SafeSpec => []MotorHoldsWakeLock
<1>1. Inv => MotorHoldsWakeLock
  BY DEF Inv, Device, OneEnd, MotorHoldsWakeLock
<1> QED BY <1>1, SpecInv, PTL

(* Nothing left of an earlier vibration cuts short the one whose timer is
   armed. *)
THEOREM NotCutShort == SafeSpec => []ArmedMeansOn
<1>1. Inv => ArmedMeansOn
  BY DEF Inv, Device, OneEnd, ArmedMeansOn
<1> QED BY <1>1, SpecInv, PTL

(* At rest the wake lock is held exactly if the motor runs, and neither is on
   after a value that was timed, or 0. *)
THEOREM LastWriterWins == SafeSpec => []RestMeansDone
<1>1. Inv => RestMeansDone
  <2> SUFFICES ASSUME Inv, Resting PROVE (wklock <=> motor) /\ (last >= 0 => ~motor)
    BY DEF RestMeansDone
  <2>1. Stage = "idle" /\ timer = "idle" /\ ~pending /\ work = "idle"
    BY DEF Resting, Stage
  <2>2. last < 0 \/ last = 0 \/ last > 0
    BY VibratorAssumption DEF Inv, TypeOK, VibratorAssumption
  <2>3. ~(last < 0 /\ last >= 0)
    BY VibratorAssumption DEF Inv, TypeOK, VibratorAssumption
  <2> QED BY <2>1, <2>2, <2>3 DEF Inv, Device, OnItsWay
<1> QED BY <1>1, SpecInv, PTL
=============================================================================
