------------------------------ MODULE MCGpsFix ------------------------------
(* Receivers for TLC: days of two epochs, and two days. *)
EXTENDS GpsFix, FiniteSets

(* Sentences that lack nothing. *)
WholeSentences == {s \in AnySentence : Complete(s)}

(* Sentences that lack at most one of their fields.  (What is not valid
   changes nothing and is left out.) *)
Missing(s) ==
  {f \in {"time", "latitude", "longitude", "altitude", "bearing", "speed"}
          \cap DOMAIN s : ~s[f]}

DamagedSentences ==
  {s \in AnySentence :
     /\ Cardinality(Missing(s)) <= 1
     /\ s.id \in {"GLL", "RMC"} => s.valid
     /\ s.id = "RMC" => s.bearing
     /\ s.id = "GSA" => s.fixStatus # "absent"}

HostReset == {0, 1}

(* The last two epochs of a leap year: in the second it is already New Year in
   the host's time zone. *)
Clocks == {2, 3}
=============================================================================
