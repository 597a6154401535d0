------------------------------ MODULE Vibrator ------------------------------
(***************************************************************************)
(* The vibrator driver: threads that write to                              *)
(* /sys/class/timed_output/vibrator/enable, the high resolution timer that *)
(* ends a vibration, and the work item the timer hands the switching off   *)
(* to.  The mutex keeps the writers apart; neither the timer nor the work  *)
(* takes it.                                                               *)
(***************************************************************************)
EXTENDS Integers

CONSTANTS
  Writer,   \* threads in mx6_motor_enable
  Nobody,   \* the holder of the mutex when it is free
  Value     \* what they may write; a negative number means without a limit

ASSUME VibratorAssumption ==
  /\ Nobody \notin Writer
  /\ Value \subseteq Int

VARIABLES
  pc, value,   \* where each writer is in mx6_motor_enable, and its argument
  lock,        \* vibdata.lock
  timer,       \* vibdata.timer; "firing" while its function runs
  pending,     \* is vibdata.work queued?
  work,        \* where mx6_vibrator_work is, "idle" if it does not run
  motor,       \* the GPIO SABRESD_VIBRATOR_CTL
  wklock,      \* vibdata.wklock is not counted: held or not
  last         \* history: the last value that took effect

wvars == <<pc, value, lock>>
dvars == <<motor, wklock>>
vars  == <<wvars, timer, pending, work, dvars, last>>

TypeOK ==
  /\ pc \in [Writer -> {"idle", "lock", "cancel_timer", "cancel_work", "flush_work",
                        "wake_lock", "on", "start_timer", "off", "wake_unlock", "unlock"}]
  /\ value \in [Writer -> Value \cup {0}]
  /\ lock \in Writer \cup {Nobody}
  /\ timer \in {"idle", "armed", "firing"}
  /\ pending \in BOOLEAN
  /\ work \in {"idle", "off", "wake_unlock"}
  /\ motor \in BOOLEAN
  /\ wklock \in BOOLEAN
  /\ last \in Value \cup {0}

Init ==
  /\ pc = [w \in Writer |-> "idle"] /\ value = [w \in Writer |-> 0]
  /\ lock = Nobody
  /\ timer = "idle" /\ pending = FALSE /\ work = "idle"
  /\ motor = FALSE /\ wklock = FALSE
  /\ last = 0

Goto(w, label) == pc' = [pc EXCEPT ![w] = label]

-----------------------------------------------------------------------------
(* mx6_motor_enable *)

Write(w) ==
  /\ pc[w] = "idle"
  /\ \E v \in Value : value' = [value EXCEPT ![w] = v]
  /\ Goto(w, "lock")
  /\ UNCHANGED <<lock, timer, pending, work, dvars, last>>

Lock(w) ==
  /\ pc[w] = "lock"
  /\ lock = Nobody
  /\ lock' = w
  /\ Goto(w, "cancel_timer")
  /\ UNCHANGED <<value, timer, pending, work, dvars, last>>

(* A mutant: hrtimer_try_to_cancel, which does not wait. *)
CancelTimerTries(w) ==
  /\ pc[w] = "cancel_timer"
  /\ timer' = IF timer = "firing" THEN timer ELSE "idle"
  /\ Goto(w, "cancel_work")
  /\ UNCHANGED <<value, lock, pending, work, dvars, last>>

(* hrtimer_cancel waits while the timer's function runs. *)
CancelTimer(w) ==
  /\ pc[w] = "cancel_timer"
  /\ timer # "firing"
  /\ timer' = "idle"
  /\ Goto(w, "cancel_work")
  /\ UNCHANGED <<value, lock, pending, work, dvars, last>>

(* A mutant: the queued work stays queued. *)
CancelWorkKeeps(w) ==
  /\ pc[w] = "cancel_work"
  /\ Goto(w, "flush_work")
  /\ UNCHANGED <<value, lock, timer, pending, work, dvars, last>>

(* cancel_work_sync takes the work off the queue and waits while it runs. *)
CancelWork(w) ==
  /\ pc[w] = "cancel_work"
  /\ pending' = FALSE
  /\ Goto(w, "flush_work")
  /\ UNCHANGED <<value, lock, timer, work, dvars, last>>

(* A mutant: cancel_work, which does not wait for the work that runs. *)
FlushWorkNot(w) ==
  /\ pc[w] = "flush_work"
  /\ Goto(w, IF value[w] = 0 THEN "off" ELSE "wake_lock")
  /\ UNCHANGED <<value, lock, timer, pending, work, dvars, last>>

FlushWork(w) ==
  /\ pc[w] = "flush_work"
  /\ work = "idle"
  /\ Goto(w, IF value[w] = 0 THEN "off" ELSE "wake_lock")
  /\ UNCHANGED <<value, lock, timer, pending, work, dvars, last>>

WakeLock(w) ==
  /\ pc[w] = "wake_lock"
  /\ wklock' = TRUE
  /\ Goto(w, "on")
  /\ UNCHANGED <<value, lock, timer, pending, work, motor, last>>

(* No timer is started for a negative value. *)
On(w) ==
  /\ pc[w] = "on"
  /\ motor' = TRUE
  /\ last' = value[w]
  /\ Goto(w, IF value[w] > 0 THEN "start_timer" ELSE "unlock")
  /\ UNCHANGED <<value, lock, timer, pending, work, wklock>>

StartTimer(w) ==
  /\ pc[w] = "start_timer"
  /\ timer' = "armed"
  /\ Goto(w, "unlock")
  /\ UNCHANGED <<value, lock, pending, work, dvars, last>>

(* mx6_vibrator_off, called by a writer *)
Off(w) ==
  /\ pc[w] = "off"
  /\ motor' = FALSE
  /\ last' = value[w]
  /\ Goto(w, "wake_unlock")
  /\ UNCHANGED <<value, lock, timer, pending, work, wklock>>

WakeUnlock(w) ==
  /\ pc[w] = "wake_unlock"
  /\ wklock' = FALSE
  /\ Goto(w, "unlock")
  /\ UNCHANGED <<value, lock, timer, pending, work, motor, last>>

Unlock(w) ==
  /\ pc[w] = "unlock"
  /\ lock' = Nobody
  /\ Goto(w, "idle")
  /\ UNCHANGED <<value, timer, pending, work, dvars, last>>

-----------------------------------------------------------------------------
(* The timer and the work *)

Expire ==
  /\ timer = "armed"
  /\ timer' = "firing"
  /\ UNCHANGED <<wvars, pending, work, dvars, last>>

(* A mutant: HRTIMER_RESTART. *)
TimerRestarts ==
  /\ timer = "firing"
  /\ pending' = TRUE
  /\ timer' = "armed"
  /\ UNCHANGED <<wvars, work, dvars, last>>

(* A mutant: the work is not scheduled. *)
TimerSchedulesNothing ==
  /\ timer = "firing"
  /\ timer' = "idle"
  /\ UNCHANGED <<wvars, pending, work, dvars, last>>

mx6_vibrator_timer_func ==
  /\ timer = "firing"
  /\ pending' = TRUE
  /\ timer' = "idle"
  /\ UNCHANGED <<wvars, work, dvars, last>>

WorkBegins ==
  /\ pending
  /\ work = "idle"
  /\ pending' = FALSE
  /\ work' = "off"
  /\ UNCHANGED <<wvars, timer, dvars, last>>

(* mx6_vibrator_off, called by mx6_vibrator_work *)
WorkOff ==
  /\ work = "off"
  /\ motor' = FALSE
  /\ work' = "wake_unlock"
  /\ UNCHANGED <<wvars, timer, pending, wklock, last>>

WorkWakeUnlock ==
  /\ work = "wake_unlock"
  /\ wklock' = FALSE
  /\ work' = "idle"
  /\ UNCHANGED <<wvars, timer, pending, motor, last>>

-----------------------------------------------------------------------------
Inside(w) ==
  \/ CancelTimer(w) \/ CancelWork(w) \/ FlushWork(w)
  \/ WakeLock(w) \/ On(w) \/ StartTimer(w)
  \/ Off(w) \/ WakeUnlock(w) \/ Unlock(w)

TimerStep == Expire \/ mx6_vibrator_timer_func
WorkStep  == WorkBegins \/ WorkOff \/ WorkWakeUnlock

Next == (\E w \in Writer : Write(w) \/ Lock(w) \/ Inside(w)) \/ TimerStep \/ WorkStep

SafeSpec == Init /\ [][Next]_vars

(* Timers expire, work is run, threads are scheduled, and the mutex is handed
   to its waiters in turn. *)
Fairness ==
  /\ WF_vars(TimerStep) /\ WF_vars(WorkStep)
  /\ \A w \in Writer : WF_vars(Inside(w)) /\ SF_vars(Lock(w))

Spec == SafeSpec /\ Fairness

-----------------------------------------------------------------------------
(* The system never goes to sleep with the motor running (the
   comment on vibrator.wklock), in any interleaving of a writer with the timer
   and the work of an earlier one. *)
MotorHoldsWakeLock == motor => wklock

(* While a timer is armed, the vibration it belongs to goes on: nothing that
   is left of an earlier one, a work item queued or half done, can cut it
   short. *)
ArmedMeansOn ==
  timer = "armed" => motor /\ ~pending /\ work = "idle"

(* When nobody, no timer and no work is left to change anything, the wake lock
   is held exactly if the motor runs, and neither is on after a value of 0 or
   more.  After a negative value the code leaves both on with nothing to end
   it, against the comment on MAX_TIMEOUT (20): that is not asked for here. *)
Resting == lock = Nobody /\ timer = "idle" /\ ~pending /\ work = "idle"
RestMeansDone == Resting => (wklock <=> motor) /\ (last >= 0 => ~motor)

(* A writer comes back, however the timer and the work interfere. *)
WriteReturns == \A w \in Writer : pc[w] = "lock" ~> pc[w] = "idle"

(* A timed vibration ends by itself unless someone writes again. *)
TimedStops == (timer = "armed") ~> (~motor \/ lock # Nobody)
=============================================================================
