----------------------------- MODULE GpsSession -----------------------------
(***************************************************************************)
(* What the GPS HAL promises the framework about navigation sessions,      *)
(* without its thread, its socket pair or its event loop.                  *)
(*                                                                         *)
(* The framework opens the HAL, asks for a session to begin or to end any  *)
(* number of times, and closes the HAL.  Requests are served later and one *)
(* at a time; what the framework has been told (session) may lag behind,   *)
(* but once nothing is outstanding it agrees with the last request, and    *)
(* closing waits until everything asked for has been served.               *)
(***************************************************************************)
EXTENDS Naturals

VARIABLES
  phase,        \* where the framework is in the life of the HAL
  want,         \* the last request: TRUE to navigate, FALSE to stop
  outstanding,  \* requests that have not been served yet
  session       \* the framework was last told that a session has begun

vars == <<phase, want, outstanding, session>>

Init ==
  /\ phase = "closed"
  /\ want = FALSE
  /\ outstanding = 0
  /\ session = FALSE

(* The framework is told that the engine is on, whatever it was told before. *)
PowerOn ==
  /\ phase = "closed"
  /\ phase' = "opening"
  /\ want' = FALSE
  /\ session' = FALSE
  /\ UNCHANGED outstanding

Open ==
  /\ phase = "opening"
  /\ phase' \in {"open", "closed"}     \* opening may fail
  /\ UNCHANGED <<want, outstanding, session>>

Request(navigate) ==
  /\ phase = "open"
  /\ want' = navigate
  /\ outstanding' = outstanding + 1
  /\ UNCHANGED <<phase, session>>

Serve ==
  /\ outstanding > 0
  /\ outstanding' = outstanding - 1
  /\ session' \in BOOLEAN
  /\ outstanding' = 0 => session' = want
  /\ UNCHANGED <<phase, want>>

StartClosing ==
  /\ phase = "open"
  /\ phase' = "closing"
  /\ UNCHANGED <<want, outstanding, session>>

Close ==
  /\ phase = "closing"
  /\ outstanding = 0
  /\ phase' = "closed"
  /\ UNCHANGED <<want, outstanding, session>>

Next ==
  \/ PowerOn
  \/ Open
  \/ \E navigate \in BOOLEAN : Request(navigate)
  \/ Serve
  \/ StartClosing
  \/ Close

SafeSpec == Init /\ [][Next]_vars

Spec == SafeSpec /\ WF_vars(Open) /\ WF_vars(Serve) /\ WF_vars(Close)
=============================================================================
