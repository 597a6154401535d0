------------------------- MODULE GpsControl_proofs -------------------------
(***************************************************************************)
(* Proofs about GpsControl, for every set of threads, every capacity of    *)
(* the socket pair and every choice of faults.                             *)
(***************************************************************************)
EXTENDS GpsControl, SequenceTheorems, TLAPS

(* GpsState while a call of the framework is at fpc. *)
CallShape ==
  /\ fpc = "open" => ~init
  /\ fpc \in {"tty", "pair", "create", "write", "join", "close", "close_serial"} => init
  /\ init /\ fpc \in {"idle", "report", "create", "write"} => ctl \in Worker
  /\ fpc = "create" => cmds[ctl] = <<>>
  /\ fpc \in {"open", "tty", "pair", "create"} => ~want

(* The events a worker has yet to handle: each kind at most once, and a
   control event only while the byte it announced is still there. *)
EventShape ==
  \A w \in Worker :
    /\ wpc[w] \in {"dispatch", "report", "drain"} => events[w] # <<>>
    /\ wpc[w] \in {"dispatch", "report", "drain"} =>
         \A i, j \in 1 .. Len(events[w]) : events[w][i] = events[w][j] => i = j
    /\ wpc[w] = "report" => events[w][1] = "control"
    /\ wpc[w] \in {"dispatch", "drain"} =>
         \A i \in 1 .. Len(events[w]) : events[w][i] = "control" => cmds[w] # <<>>

Inv == TypeOK /\ CallShape /\ EventShape /\ NoOrphanThread /\ QuitIsLast /\ Settled

(* What also holds of a framework that does not call init twice, in part as
   long as no latitude reads as a status. *)
ShownShape ==
  /\ fpc = "report" => ~init /\ g_status = "ENGINE_ON"
  /\ "latitude" \notin Faults =>
       /\ fpc \in {"open", "tty", "pair", "create"} => shown = "ENGINE_ON"
       /\ \A w \in Worker : wpc[w] = "enter" => shown = "ENGINE_ON"

OnceInv ==
  ShownShape /\ ReportIsCurrent /\ ("latitude" \notin Faults => ShownIsStarted)

-----------------------------------------------------------------------------
(* The facts about sequences the steps below use. *)

(* What Tail leaves of a sequence. *)
LEMMA SeqFacts ==
  ASSUME NEW S, NEW s \in Seq(S), s # <<>>
  PROVE  /\ Tail(s) \in Seq(S)
         /\ Len(s) \in Nat \ {0}
         /\ Len(Tail(s)) = Len(s) - 1
         /\ \A i \in 1 .. Len(s) - 1 : Tail(s)[i] = s[i + 1]
         /\ Head(s) = s[1]
BY HeadTailProperties, EmptySeq

(* Once the head of a queue is taken, Asked counts one command less, or none
   if the head was the CMD_QUIT that ends it. *)
LEMMA AskedTail ==
  ASSUME NEW q \in Seq(Cmd), q # <<>>,
         \A i \in 1 .. Len(q) : q[i] = "QUIT" => i = Len(q)
  PROVE  /\ Asked(q) \in Nat
         /\ q[1] = "QUIT" => Asked(q) = 0 /\ Asked(Tail(q)) = 0
         /\ q[1] # "QUIT" => Asked(q) > 0 /\ Asked(Tail(q)) = Asked(q) - 1
         /\ Asked(Tail(q)) > 0 => Tail(q)[Asked(Tail(q))] = q[Asked(q)]
         /\ \A i \in 1 .. Len(Tail(q)) : Tail(q)[i] = "QUIT" => i = Len(Tail(q))
<1> DEFINE t == Tail(q)
           n == Len(q)
<1>a. n \in Nat \ {0}
  BY SeqFacts
<1>b. Len(t) = n - 1
  BY SeqFacts
<1>1. /\ n \in Nat \ {0}
      /\ Len(t) = n - 1
      /\ \A i \in 1 .. n - 1 : t[i] = q[i + 1]
      /\ \A i \in 1 .. n : q[i] = "QUIT" => i = n
  BY SeqFacts
<1> HIDE DEF t
<1>2. Asked(q) = IF q[n] = "QUIT" THEN n - 1 ELSE n
  BY <1>a DEF Asked
<1> HIDE DEF n
<1>3. Asked(t) = IF n - 1 > 0 /\ t[n - 1] = "QUIT" THEN n - 2 ELSE n - 1
  BY <1>a, <1>b DEF Asked
<1>4. n > 1 => t[n - 1] = q[n]
  BY <1>1
<1>5. 1 \in 1 .. n /\ (q[1] = "QUIT" => n = 1)
  BY <1>1
<1>6. \A i \in 1 .. n - 1 : t[i] = "QUIT" => i = n - 1
  <2> SUFFICES ASSUME NEW i \in 1 .. n - 1, t[i] = "QUIT" PROVE i = n - 1
    OBVIOUS
  <2>1. t[i] = q[i + 1] /\ i + 1 \in 1 .. n
    BY <1>1
  <2>2. i + 1 = n
    BY <1>1, <2>1
  <2> QED
    BY <1>a, <2>2
<1>7. /\ Asked(q) \in Nat
      /\ q[1] = "QUIT" => Asked(q) = 0 /\ Asked(t) = 0
      /\ q[1] # "QUIT" => Asked(q) > 0 /\ Asked(t) = Asked(q) - 1
  BY <1>1, <1>2, <1>3, <1>4, <1>5
<1>8. Asked(t) > 0 => t[Asked(t)] = q[Asked(q)]
  <2> SUFFICES ASSUME Asked(t) > 0 PROVE t[Asked(t)] = q[Asked(t) + 1] /\ Asked(t) + 1 = Asked(q)
    BY <1>7
  <2>1. Asked(t) \in 1 .. n - 1
    BY <1>1, <1>3
  <2> QED
    BY <1>1, <1>5, <1>7, <2>1
<1> QED
  BY <1>1, <1>6, <1>7, <1>8 DEF t, n

(* What a byte more means for the commands that are not CMD_QUIT. *)
LEMMA AskedAppend ==
  ASSUME NEW q \in Seq(Cmd), NEW c \in Cmd,
         \A i \in 1 .. Len(q) : q[i] # "QUIT"
  PROVE  /\ Asked(q) = Len(q)
         /\ Asked(Append(q, c)) = IF c = "QUIT" THEN Len(q) ELSE Len(q) + 1
         /\ c = "QUIT" /\ Len(q) > 0 => Append(q, c)[Len(q)] = q[Len(q)]
         /\ c # "QUIT" => Append(q, c)[Len(q) + 1] = c
         /\ \A i \in 1 .. Len(Append(q, c)) : Append(q, c)[i] = "QUIT" => i = Len(Append(q, c)) /\ c = "QUIT"
BY AppendProperties, LenProperties DEF Asked

(* The invariant holds at first. *)
LEMMA InitInv == Init => Inv
<1> SUFFICES ASSUME Init PROVE Inv
  OBVIOUS
<1>1. \A S : <<>> \in Seq(S) /\ Len(<<>>) = 0
  BY EmptySeq
<1>2. TypeOK
  BY <1>1 DEF Init, TypeOK, Cmd, Status, Descriptor
<1> QED
  BY <1>2 DEF Init, Inv, CallShape, EventShape, NoOrphanThread, QuitIsLast,
       Settled, Live

-----------------------------------------------------------------------------
(* Every step preserves Inv: one lemma for the framework's steps, one for the
   steps of a gps thread. *)

(* The steps of the framework thread. *)
LEMMA ClientInv ==
  ASSUME ControlAssumption, Inv,
         \/ qemu_gps_init \/ ClientStep
         \/ \E c \in Cmd : CallCommand(c)
  PROVE  Inv'
<1> USE DEF Inv
<1>e. \A S : <<>> \in Seq(S) /\ Len(<<>>) = 0
  BY EmptySeq
<1>1. ASSUME qemu_gps_init PROVE Inv'
  <2>1. TypeOK'
    BY <1>1 DEF qemu_gps_init, TypeOK, Cmd, Status, lvars, wvars
  <2>2. CallShape'
    BY <1>1 DEF qemu_gps_init, TypeOK, CallShape, NoOrphanThread, Live, lvars, wvars
  <2>3. EventShape'
    BY <1>1 DEF qemu_gps_init, TypeOK, EventShape, lvars, wvars
  <2>4. NoOrphanThread'
    BY <1>1 DEF qemu_gps_init, TypeOK, CallShape, NoOrphanThread, Live, lvars, wvars
  <2>5. QuitIsLast'
    BY <1>1 DEF qemu_gps_init, TypeOK, CallShape, NoOrphanThread, QuitIsLast, Live, lvars, wvars
  <2>6. Settled'
    BY <1>1 DEF qemu_gps_init, TypeOK, CallShape, NoOrphanThread, Settled, Live, lvars, wvars
  <2> QED
    BY <2>1, <2>2, <2>3, <2>4, <2>5, <2>6
<1>2. ASSUME InitReport PROVE Inv'
  <2>1. TypeOK'
    BY <1>2 DEF InitReport, TypeOK, Cmd, Status, svars, lvars, wvars
  <2>2. CallShape'
    BY <1>2 DEF InitReport, TypeOK, CallShape, NoOrphanThread, Live, svars, lvars, wvars
  <2>3. EventShape'
    BY <1>2 DEF InitReport, TypeOK, EventShape, svars, lvars, wvars
  <2>4. NoOrphanThread'
    BY <1>2 DEF InitReport, TypeOK, CallShape, NoOrphanThread, Live, svars, lvars, wvars
  <2>5. QuitIsLast'
    BY <1>2 DEF InitReport, TypeOK, CallShape, NoOrphanThread, QuitIsLast, Live, svars, lvars, wvars
  <2>6. Settled'
    BY <1>2 DEF InitReport, TypeOK, CallShape, NoOrphanThread, Settled, Live, svars, lvars, wvars
  <2> QED
    BY <2>1, <2>2, <2>3, <2>4, <2>5, <2>6
<1>3. ASSUME OpenSerial PROVE Inv'
  <2>1. TypeOK'
    BY <1>3 DEF OpenSerial, TypeOK, Descriptor, wvars
  <2>2. CallShape'
    BY <1>3 DEF OpenSerial, TypeOK, CallShape, NoOrphanThread, Live, wvars
  <2>3. EventShape'
    BY <1>3 DEF OpenSerial, TypeOK, EventShape, wvars
  <2>4. NoOrphanThread'
    BY <1>3 DEF OpenSerial, TypeOK, CallShape, NoOrphanThread, Live, wvars
  <2>5. QuitIsLast'
    BY <1>3 DEF OpenSerial, TypeOK, CallShape, NoOrphanThread, QuitIsLast, Live, wvars
  <2>6. Settled'
    BY <1>3 DEF OpenSerial, TypeOK, CallShape, NoOrphanThread, Settled, Live, wvars
  <2> QED
    BY <2>1, <2>2, <2>3, <2>4, <2>5, <2>6
<1>4. ASSUME SetupTty PROVE Inv'
  <2>1. TypeOK'
    BY <1>4 DEF SetupTty, TypeOK, Descriptor, lvars, wvars
  <2>2. CallShape'
    BY <1>4 DEF SetupTty, TypeOK, CallShape, NoOrphanThread, Live, lvars, wvars
  <2>3. EventShape'
    BY <1>4 DEF SetupTty, TypeOK, EventShape, lvars, wvars
  <2>4. NoOrphanThread'
    BY <1>4 DEF SetupTty, TypeOK, CallShape, NoOrphanThread, Live, lvars, wvars
  <2>5. QuitIsLast'
    BY <1>4 DEF SetupTty, TypeOK, CallShape, NoOrphanThread, QuitIsLast, Live, lvars, wvars
  <2>6. Settled'
    BY <1>4 DEF SetupTty, TypeOK, CallShape, NoOrphanThread, Settled, Live, lvars, wvars
  <2> QED
    BY <2>1, <2>2, <2>3, <2>4, <2>5, <2>6
<1>5. ASSUME CreateThread PROVE Inv'
  <2>1. TypeOK'
    BY <1>5 DEF CreateThread, TypeOK, lvars
  <2>2. CallShape'
    BY <1>5 DEF CreateThread, TypeOK, CallShape, NoOrphanThread, Live, lvars
  <2>3. EventShape'
    BY <1>5 DEF CreateThread, TypeOK, EventShape, lvars
  <2>4. NoOrphanThread'
    BY <1>5 DEF CreateThread, TypeOK, CallShape, NoOrphanThread, Live, lvars
  <2>5. QuitIsLast'
    BY <1>5 DEF CreateThread, TypeOK, CallShape, NoOrphanThread, QuitIsLast, Live, lvars
  <2>6. Settled'
    BY <1>5 DEF CreateThread, TypeOK, CallShape, NoOrphanThread, Settled, Asked, Live, lvars
  <2> QED
    BY <2>1, <2>2, <2>3, <2>4, <2>5, <2>6
<1>6. ASSUME JoinThread PROVE Inv'
  <2>1. TypeOK'
    BY <1>6 DEF JoinThread, TypeOK, svars, lvars
  <2>2. CallShape'
    BY <1>6 DEF JoinThread, TypeOK, CallShape, NoOrphanThread, Live, svars, lvars
  <2>3. EventShape'
    BY <1>6 DEF JoinThread, TypeOK, EventShape, svars, lvars
  <2>4. NoOrphanThread'
    BY <1>6 DEF JoinThread, TypeOK, CallShape, NoOrphanThread, Live, svars, lvars
  <2>5. QuitIsLast'
    BY <1>6 DEF JoinThread, TypeOK, CallShape, NoOrphanThread, QuitIsLast, Live, svars, lvars
  <2>6. Settled'
    BY <1>6 DEF JoinThread, TypeOK, CallShape, NoOrphanThread, Settled, Live, svars, lvars
  <2> QED
    BY <2>1, <2>2, <2>3, <2>4, <2>5, <2>6
<1>7. ASSUME JoinInvalid PROVE Inv'
  <2>1. TypeOK'
    BY <1>7 DEF JoinInvalid, TypeOK, svars, lvars, wvars
  <2>2. CallShape'
    BY <1>7 DEF JoinInvalid, TypeOK, CallShape, NoOrphanThread, Live, svars, lvars, wvars
  <2>3. EventShape'
    BY <1>7 DEF JoinInvalid, TypeOK, EventShape, svars, lvars, wvars
  <2>4. NoOrphanThread'
    BY <1>7 DEF JoinInvalid, TypeOK, CallShape, NoOrphanThread, Live, svars, lvars, wvars
  <2>5. QuitIsLast'
    BY <1>7 DEF JoinInvalid, TypeOK, CallShape, NoOrphanThread, QuitIsLast, Live, svars, lvars, wvars
  <2>6. Settled'
    BY <1>7 DEF JoinInvalid, TypeOK, CallShape, NoOrphanThread, Settled, Live, svars, lvars, wvars
  <2> QED
    BY <2>1, <2>2, <2>3, <2>4, <2>5, <2>6
<1>8. ASSUME CloseControl PROVE Inv'
  <2>1. TypeOK'
    BY <1>8 DEF CloseControl, TypeOK, Descriptor, lvars, wvars
  <2>2. CallShape'
    BY <1>8 DEF CloseControl, TypeOK, CallShape, NoOrphanThread, Live, lvars, wvars
  <2>3. EventShape'
    BY <1>8 DEF CloseControl, TypeOK, EventShape, lvars, wvars
  <2>4. NoOrphanThread'
    BY <1>8 DEF CloseControl, TypeOK, CallShape, NoOrphanThread, Live, lvars, wvars
  <2>5. QuitIsLast'
    BY <1>8 DEF CloseControl, TypeOK, CallShape, NoOrphanThread, QuitIsLast, Live, lvars, wvars
  <2>6. Settled'
    BY <1>8 DEF CloseControl, TypeOK, CallShape, NoOrphanThread, Settled, Live, lvars, wvars
  <2> QED
    BY <2>1, <2>2, <2>3, <2>4, <2>5, <2>6
<1>13. ASSUME CloseSerial PROVE Inv'
  <2>1. TypeOK'
    BY <1>13 DEF CloseSerial, TypeOK, Descriptor, lvars, wvars
  <2>2. CallShape'
    BY <1>13 DEF CloseSerial, TypeOK, CallShape, NoOrphanThread, Live, lvars, wvars
  <2>3. EventShape'
    BY <1>13 DEF CloseSerial, TypeOK, EventShape, lvars, wvars
  <2>4. NoOrphanThread'
    BY <1>13 DEF CloseSerial, TypeOK, CallShape, NoOrphanThread, Live, lvars, wvars
  <2>5. QuitIsLast'
    BY <1>13 DEF CloseSerial, TypeOK, CallShape, NoOrphanThread, QuitIsLast, Live, lvars, wvars
  <2>6. Settled'
    BY <1>13 DEF CloseSerial, TypeOK, CallShape, NoOrphanThread, Settled, Live, lvars, wvars
  <2> QED
    BY <2>1, <2>2, <2>3, <2>4, <2>5, <2>6
<1>14. ASSUME WriteDropped PROVE Inv'
  <2>1. TypeOK'
    BY <1>14 DEF WriteDropped, TypeOK, svars, lvars, wvars
  <2>2. CallShape'
    BY <1>14 DEF WriteDropped, TypeOK, CallShape, NoOrphanThread, Live, NonBlocking, svars, lvars, wvars
  <2>3. EventShape'
    BY <1>14 DEF WriteDropped, TypeOK, EventShape, lvars, wvars
  <2>4. NoOrphanThread'
    BY <1>14 DEF WriteDropped, TypeOK, CallShape, NoOrphanThread, Live, NonBlocking, svars, lvars, wvars
  <2>5. QuitIsLast'
    BY <1>14 DEF WriteDropped, TypeOK, CallShape, NoOrphanThread, QuitIsLast, Live, NonBlocking, svars, lvars, wvars
  <2>6. Settled'
    BY <1>14 DEF WriteDropped, TypeOK, CallShape, NoOrphanThread, Settled, Live, NonBlocking, svars, lvars, wvars
  <2> QED
    BY <2>1, <2>2, <2>3, <2>4, <2>5, <2>6
<1>9. ASSUME NEW c \in Cmd, CallCommand(c) PROVE Inv'
  <2>1. TypeOK'
    BY <1>9 DEF CallCommand, TypeOK, Cmd, Status, svars, lvars, wvars
  <2>2. CallShape'
    BY <1>9 DEF CallCommand, TypeOK, CallShape, NoOrphanThread, Live, svars, lvars, wvars
  <2>3. EventShape'
    BY <1>9 DEF CallCommand, TypeOK, EventShape, svars, lvars, wvars
  <2>4. NoOrphanThread'
    BY <1>9 DEF CallCommand, TypeOK, CallShape, NoOrphanThread, Live, svars, lvars, wvars
  <2>5. QuitIsLast'
    BY <1>9 DEF CallCommand, TypeOK, CallShape, NoOrphanThread, QuitIsLast, Live, svars, lvars, wvars
  <2>6. Settled'
    BY <1>9 DEF CallCommand, TypeOK, CallShape, NoOrphanThread, Settled, Live, svars, lvars, wvars
  <2> QED
    BY <2>1, <2>2, <2>3, <2>4, <2>5, <2>6
<1>10. ASSUME MakeSocketpair PROVE Inv'
  <2>1. TypeOK'
    <3>1. <<>> \in Seq(Cmd)
      BY <1>e
    <3>2. cmds' \in [Worker -> Seq(Cmd)] /\ ctl' \in Worker \cup {NoThread}
      BY <1>10, <3>1 DEF MakeSocketpair, TypeOK
    <3> QED
      BY <1>10, <3>2 DEF MakeSocketpair, TypeOK, Descriptor, lvars, wvars
  <2>2. \A w \in Worker : ~Live(w)
    BY <1>10 DEF MakeSocketpair, NoOrphanThread
  <2>3. \A w \in Worker : ~Live(w)'
    BY <1>10, <2>2 DEF MakeSocketpair, Live, wvars
  <2>4. CallShape'
    BY <1>10 DEF MakeSocketpair, CallShape, TypeOK, svars, wvars
  <2>5. EventShape'
    BY <2>3 DEF EventShape, Live
  <2> QED
    BY <2>1, <2>3, <2>4, <2>5 DEF NoOrphanThread, QuitIsLast, Settled
<1>11. ASSUME Restart PROVE Inv'
  <2>1. TypeOK'
    BY <1>11, <1>e DEF Restart, TypeOK, Cmd, Status, Descriptor
  <2> QED
    BY <1>11, <2>1 DEF Restart, CallShape, EventShape, NoOrphanThread, QuitIsLast,
         Settled, Live
<1>12. ASSUME WriteCommand PROVE Inv'
  <2>1. ctl \in Worker /\ init /\ fpc = "write"
    BY <1>12 DEF WriteCommand, CallShape
  <2> DEFINE q == cmds[ctl]
  <2>2. q \in Seq(Cmd) /\ call \in Cmd /\ cmds' = [cmds EXCEPT ![ctl] = Append(q, call)]
    BY <1>12, <2>1 DEF WriteCommand, TypeOK
  <2>3. /\ Append(q, call) \in Seq(Cmd)
        /\ Append(q, call) # <<>>
        /\ Len(q) \in Nat
        /\ Len(Append(q, call)) = Len(q) + 1
        /\ \A i \in 1 .. Len(q) : Append(q, call)[i] = q[i]
        /\ Append(q, call)[Len(q) + 1] = call
    BY <2>2, AppendProperties, LenProperties
  <2>4. TypeOK'
    BY <1>12, <2>1, <2>2, <2>3 DEF WriteCommand, TypeOK, svars, lvars, wvars
  <2>5. CallShape'
    BY <1>12, <2>1 DEF WriteCommand, CallShape, svars
  <2>6. EventShape'
    BY <1>12, <2>1, <2>2, <2>3 DEF WriteCommand, EventShape, TypeOK, wvars
  <2>7. NoOrphanThread'
    BY <1>12 DEF WriteCommand, NoOrphanThread, Live, svars, wvars
  <2>8. ASSUME NEW w \in Worker, Live(w)'
        PROVE  /\ Live(w) /\ w = ctl
               /\ cmds'[w] = Append(q, call)
               /\ \A i \in 1 .. Len(q) : q[i] # "QUIT"
    <3>1. Live(w) /\ w = ctl
      BY <1>12, <2>8 DEF WriteCommand, Live, NoOrphanThread, wvars
    <3> QED
      BY <2>1, <2>2, <3>1 DEF TypeOK, QuitIsLast
  <2>9. QuitIsLast'
    BY <1>12, <2>2, <2>8, AskedAppend DEF WriteCommand, QuitIsLast
  <2>10. Settled'
    <3> SUFFICES ASSUME NEW w \in Worker, Live(w)', fd' # "control"
                 PROVE  IF Asked(cmds'[w]) > 0
                        THEN cmds'[w][Asked(cmds'[w])] = IF want' THEN "START" ELSE "STOP"
                        ELSE want' = (wpc'[w] # "enter" /\ started'[w])
      BY DEF Settled
    <3>1. CASE call = "QUIT"
      BY <1>12, <2>2, <2>3, <2>8, <3>1, AskedAppend DEF WriteCommand, Settled, svars, wvars
    <3>2. CASE call # "QUIT"
      <4>1. Asked(cmds'[w]) = Len(q) + 1 /\ cmds'[w][Len(q) + 1] = call
        BY <2>2, <2>8, <3>2, AskedAppend
      <4>2. Asked(cmds'[w]) > 0 /\ cmds'[w][Asked(cmds'[w])] = call
        BY <2>3, <4>1
      <4>3. call = IF want' THEN "START" ELSE "STOP"
        BY <1>12, <2>2, <3>2 DEF WriteCommand, Cmd
      <4> QED
        BY <4>2, <4>3
    <3> QED
      BY <3>1, <3>2
  <2> QED
    BY <2>4, <2>5, <2>6, <2>7, <2>9, <2>10
<1> QED
  BY <1>1, <1>2, <1>3, <1>4, <1>5, <1>6, <1>7, <1>8, <1>9, <1>10, <1>11, <1>12, <1>13, <1>14
  DEF ClientStep

(* The line delivers, or hangs up, or the stale number finds a new owner. *)
LEMMA LineInv ==
  ASSUME Inv, LineDelivers \/ LineHangsUp \/ NumberTaken
  PROVE  Inv'
BY DEF Inv, LineDelivers, LineHangsUp, NumberTaken, Descriptor, TypeOK, CallShape, EventShape, NoOrphanThread,
   QuitIsLast, Settled, Live, fvars, svars, lvars, wvars

(* What the handling of the event at hand leaves behind. *)
LEMMA AfterEvent ==
  ASSUME Inv, NEW w \in Worker, wpc[w] \in {"dispatch", "report", "drain"}
  PROVE  /\ events[w] \in Seq(Event) /\ events[w] # <<>>
         /\ Head(events[w]) = events[w][1] /\ Head(events[w]) \in Event
         /\ Tail(events[w]) \in Seq(Event)
         /\ After(w) = "wait" \/ (After(w) = "dispatch" /\ Tail(events[w]) # <<>>)
         /\ \A i, j \in 1 .. Len(Tail(events[w])) :
              Tail(events[w])[i] = Tail(events[w])[j] => i = j
         /\ \A i \in 1 .. Len(Tail(events[w])) :
              /\ Tail(events[w])[i] # events[w][1]
              /\ wpc[w] # "report" /\ Tail(events[w])[i] = "control" => cmds[w] # <<>>
<1> DEFINE e == events[w]
           t == Tail(e)
           n == Len(e)
<1>1. e \in Seq(Event) /\ e # <<>>
  BY DEF Inv, TypeOK, EventShape
<1>2. t \in Seq(Event) /\ Head(e) = e[1] /\ Head(e) \in Event
  BY <1>1, SeqFacts, HeadTailProperties
<1>3. n \in Nat \ {0} /\ Len(t) = n - 1 /\ \A i \in 1 .. n - 1 : t[i] = e[i + 1]
  BY <1>1, SeqFacts
<1>4. After(w) = "wait" \/ (After(w) = "dispatch" /\ t # <<>>)
  BY DEF After
<1>5. \A i, j \in 1 .. n : e[i] = e[j] => i = j
  BY DEF Inv, EventShape
<1>6. wpc[w] # "report" => \A i \in 1 .. n : e[i] = "control" => cmds[w] # <<>>
  BY DEF Inv, EventShape
<1> HIDE DEF e, t, n
<1>7. \A i, j \in 1 .. n - 1 : t[i] = t[j] => i = j
  BY <1>3, <1>5
<1>8. \A i \in 1 .. n - 1 : t[i] # e[1]
  BY <1>3, <1>5
<1>9. wpc[w] # "report" => \A i \in 1 .. n - 1 : t[i] = "control" => cmds[w] # <<>>
  BY <1>3, <1>6
<1> QED
  BY <1>1, <1>2, <1>3, <1>4, <1>7, <1>8, <1>9 DEF e, t, n

(* A step that ends the handling of an event of w keeps the shape of the
   events, if what is left of them still announces bytes that are there. *)
LEMMA EventShapeAfter ==
  ASSUME Inv, NEW w \in Worker, wpc[w] \in {"dispatch", "report", "drain"},
         wpc' = [wpc EXCEPT ![w] = After(w)],
         events' = [events EXCEPT ![w] = Tail(@)],
         \A v \in Worker \ {w} : cmds'[v] = cmds[v],
         \A i \in 1 .. Len(Tail(events[w])) :
            Tail(events[w])[i] = "control" => cmds'[w] # <<>>
  PROVE  EventShape'
<1>1. /\ wpc'[w] = After(w) /\ events'[w] = Tail(events[w])
      /\ \A v \in Worker \ {w} : wpc'[v] = wpc[v] /\ events'[v] = events[v]
  BY DEF Inv, TypeOK
<1>2. /\ wpc'[w] = "wait" \/ (wpc'[w] = "dispatch" /\ events'[w] # <<>>)
      /\ \A i, j \in 1 .. Len(events'[w]) : events'[w][i] = events'[w][j] => i = j
  <2>1. /\ After(w) = "wait" \/ (After(w) = "dispatch" /\ Tail(events[w]) # <<>>)
        /\ \A i, j \in 1 .. Len(Tail(events[w])) :
             Tail(events[w])[i] = Tail(events[w])[j] => i = j
    BY AfterEvent
  <2> QED
    BY ONLY <1>1, <2>1
<1>3. \A i \in 1 .. Len(events'[w]) : events'[w][i] = "control" => cmds'[w] # <<>>
  <2>1. \A i \in 1 .. Len(Tail(events[w])) :
          Tail(events[w])[i] = "control" => cmds'[w] # <<>>
    OBVIOUS
  <2> QED
    BY ONLY <1>1, <2>1
<1>4. EventShape
  BY DEF Inv
<1> SUFFICES ASSUME NEW v \in Worker PROVE
      /\ wpc'[v] \in {"dispatch", "report", "drain"} => events'[v] # <<>>
      /\ wpc'[v] \in {"dispatch", "report", "drain"} =>
           \A i, j \in 1 .. Len(events'[v]) : events'[v][i] = events'[v][j] => i = j
      /\ wpc'[v] = "report" => events'[v][1] = "control"
      /\ wpc'[v] \in {"dispatch", "drain"} =>
           \A i \in 1 .. Len(events'[v]) : events'[v][i] = "control" => cmds'[v] # <<>>
  BY DEF EventShape
<1>5. CASE v = w
  BY ONLY <1>2, <1>3, <1>5
<1>6. CASE v # w
  <2>1. wpc'[v] = wpc[v] /\ events'[v] = events[v] /\ cmds'[v] = cmds[v]
    BY <1>1, <1>6
  <2> QED
    BY ONLY <1>4, <2>1, v \in Worker DEF EventShape
<1> QED
  BY <1>5, <1>6

(* The steps of a gps thread. *)
LEMMA WorkerInv ==
  ASSUME Inv, NEW w \in Worker, WorkerStep(w)
  PROVE  Inv'
<1> USE DEF Inv
<1>1. ASSUME ThreadEnter(w) PROVE Inv'
  <2>1. <<>> \in Seq(Event)
    BY EmptySeq
  <2> QED
    BY <1>1, <2>1 DEF ThreadEnter, TypeOK, CallShape, EventShape, NoOrphanThread,
       QuitIsLast, Settled, Live, fvars, svars, lvars
<1>2. ASSUME EpollWait(w) PROVE Inv'
  <2>1. PICK one \in Ready(w), other \in Ready(w) :
          events' = [events EXCEPT ![w] = IF one = other THEN <<one>> ELSE <<one, other>>]
    BY <1>2 DEF EpollWait
  <2> DEFINE e == IF one = other THEN <<one>> ELSE <<one, other>>
  <2>2. /\ e \in Seq(Event) /\ e # <<>>
        /\ \A i, j \in 1 .. Len(e) : e[i] = e[j] => i = j
        /\ \A i \in 1 .. Len(e) : e[i] = "control" => cmds[w] # <<>>
    <3>1. one \in Event /\ other \in Event
      BY DEF Ready
    <3>2. \A v \in {one, other} : v = "control" => cmds[w] # <<>>
      BY DEF Ready
    <3>3. CASE one = other
      BY <3>1, <3>2, <3>3
    <3>4. CASE one # other
      BY <3>1, <3>2, <3>4
    <3> QED
      BY <3>3, <3>4
  <2>3. /\ events' = [events EXCEPT ![w] = e]
        /\ events'[w] = e /\ \A v \in Worker \ {w} : events'[v] = events[v]
    BY <2>1 DEF TypeOK
  <2> HIDE DEF e
  <2>4. TypeOK'
    BY <1>2, <2>2, <2>3 DEF EpollWait, TypeOK, fvars, svars, lvars
  <2>5. EventShape'
    <3>1. /\ wpc'[w] = "dispatch" /\ cmds' = cmds
          /\ \A v \in Worker \ {w} : wpc'[v] = wpc[v]
      BY <1>2 DEF EpollWait, TypeOK
    <3> QED
      BY <2>2, <2>3, <3>1 DEF EventShape
  <2> QED
    BY <1>2, <2>4, <2>5 DEF EpollWait, TypeOK, CallShape, NoOrphanThread, QuitIsLast,
       Settled, Live, fvars, svars, lvars
<1>3. ASSUME HangupEvent(w) PROVE Inv'
  BY <1>3 DEF HangupEvent, TypeOK, CallShape, EventShape, NoOrphanThread,
     QuitIsLast, Settled, Live, fvars, svars, lvars
<1>4. ASSUME GpsEvent(w) PROVE Inv'
  BY <1>4 DEF GpsEvent, TypeOK, CallShape, EventShape, NoOrphanThread,
     QuitIsLast, Settled, Live, fvars, svars, lvars
<1>5. ASSUME ReadChunk(w) PROVE Inv'
  <2>1. /\ rx' \in Nat /\ shown' \in Status
        /\ UNCHANGED <<fpc, call, want, svars, cmds, line, burst, wvars>>
    BY <1>5 DEF ReadChunk, TypeOK
  <2> QED
    BY <2>1 DEF TypeOK, CallShape, EventShape, NoOrphanThread, QuitIsLast, Settled, Live,
       svars, wvars
<1>6. ASSUME ReadWouldBlock(w) PROVE Inv'
  <2>1. wpc[w] = "drain"
    BY <1>6 DEF ReadWouldBlock
  <2>2. EventShape'
    <3>1. cmds' = cmds
      BY <1>6 DEF ReadWouldBlock
    <3>2. \A i \in 1 .. Len(Tail(events[w])) :
            Tail(events[w])[i] = "control" => cmds'[w] # <<>>
      BY <2>1, <3>1, AfterEvent
    <3> QED
      BY <1>6, <2>1, <3>1, <3>2, EventShapeAfter DEF ReadWouldBlock
  <2>3. TypeOK'
    BY <1>6, <2>1, AfterEvent DEF ReadWouldBlock, TypeOK, fvars, svars
  <2>4. \A v \in Worker : /\ Live(v)' <=> Live(v)
                          /\ (wpc[v] = "enter")' <=> wpc[v] = "enter"
    BY <1>6, <2>1, AfterEvent DEF ReadWouldBlock, TypeOK, Live
  <2>5. CallShape'
    BY <1>6, <2>1, <2>4, AfterEvent DEF ReadWouldBlock, TypeOK, CallShape, Live, fvars, svars
  <2>6. NoOrphanThread' /\ QuitIsLast'
    BY <1>6, <2>4 DEF ReadWouldBlock, NoOrphanThread, QuitIsLast, fvars, svars
  <2>7. Settled'
    BY <1>6, <2>4 DEF ReadWouldBlock, Settled, fvars, svars
  <2> QED
    BY <2>2, <2>3, <2>5, <2>6, <2>7
<1>7. ASSUME SessionReport(w) PROVE Inv'
  <2>1. wpc[w] = "report"
    BY <1>7 DEF SessionReport
  <2>2. EventShape'
    <3>1. cmds' = cmds
      BY <1>7 DEF SessionReport
    <3>2. \A i \in 1 .. Len(Tail(events[w])) : Tail(events[w])[i] # "control"
      BY <2>1, AfterEvent DEF EventShape
    <3> QED
      BY <1>7, <2>1, <3>1, <3>2, EventShapeAfter DEF SessionReport
  <2>3. TypeOK'
    BY <1>7, <2>1, AfterEvent DEF SessionReport, TypeOK, svars, lvars
  <2>4. \A v \in Worker : /\ Live(v)' <=> Live(v)
                          /\ (wpc[v] = "enter")' <=> wpc[v] = "enter"
    BY <1>7, <2>1, AfterEvent DEF SessionReport, TypeOK, Live
  <2>5. CallShape'
    BY <1>7, <2>1, <2>4, AfterEvent DEF SessionReport, TypeOK, CallShape, Live, svars, lvars
  <2>6. NoOrphanThread' /\ QuitIsLast'
    BY <1>7, <2>4 DEF SessionReport, NoOrphanThread, QuitIsLast, svars, lvars
  <2>7. Settled'
    BY <1>7, <2>4 DEF SessionReport, Settled, svars, lvars
  <2> QED
    BY <2>2, <2>3, <2>5, <2>6, <2>7

<1>8. ASSUME wpc[w] = "dispatch", Head(events[w]) = "control"
      PROVE  /\ cmds[w] \in Seq(Cmd) /\ cmds[w] # <<>> /\ Head(cmds[w]) = cmds[w][1]
             /\ Head(cmds[w]) \in Cmd /\ Tail(cmds[w]) \in Seq(Cmd)
             /\ \A i \in 1 .. Len(cmds[w]) : cmds[w][i] = "QUIT" => i = Len(cmds[w])
  <2>1. cmds[w] \in Seq(Cmd)
    BY DEF TypeOK
  <2>2. events[w][1] = "control" /\ 1 \in 1 .. Len(events[w])
    BY <1>8, AfterEvent, SeqFacts
  <2>3. cmds[w] # <<>>
    BY <1>8, <2>2 DEF EventShape
  <2> QED
    BY <1>8, <2>1, <2>3, SeqFacts, HeadTailProperties DEF QuitIsLast, Live
<1>9. ASSUME QuitCommand(w) PROVE Inv'
  <2>1. wpc[w] = "dispatch" /\ Head(events[w]) = "control" /\ cmds[w][1] = "QUIT"
    BY <1>8, <1>9 DEF QuitCommand
  <2>2. cmds' = [cmds EXCEPT ![w] = Tail(cmds[w])]
    BY <1>9 DEF QuitCommand
  <2>3. TypeOK'
    BY <1>8, <1>9, <2>1, <2>2 DEF QuitCommand, TypeOK, fvars, svars, lvars
  <2>4. CallShape' /\ NoOrphanThread' /\ EventShape'
    BY <1>9 DEF QuitCommand, TypeOK, CallShape, NoOrphanThread, EventShape, Live,
       fvars, svars, lvars
  <2> DEFINE q == cmds[w]
  <2>5. /\ Asked(q) = 0 /\ Asked(Tail(q)) = 0
        /\ \A i \in 1 .. Len(Tail(q)) : Tail(q)[i] = "QUIT" => i = Len(Tail(q))
    BY <1>8, <2>1, AskedTail
  <2>6. Live(w) /\ Live(w)' /\ \A v \in Worker : Live(v)' = Live(v)
    BY <1>9, <2>1 DEF QuitCommand, TypeOK, Live
  <2>7. cmds'[w] = Tail(q) /\ \A v \in Worker \ {w} : cmds'[v] = cmds[v]
    BY <2>2 DEF TypeOK
  <2>8. fpc' = fpc /\ want' = want /\ fd' = fd /\ started' = started /\ wpc'[w] = "exited"
        /\ \A v \in Worker \ {w} : wpc'[v] = wpc[v]
    BY <1>9 DEF QuitCommand, TypeOK, fvars, svars
  <2>9. fpc = "join"
    BY <1>8, <2>1, <2>6, SeqFacts DEF QuitIsLast
  <2> HIDE DEF q
  <2>10. QuitIsLast'
    BY <2>5, <2>6, <2>7, <2>8, <2>9 DEF QuitIsLast
  <2>11. Settled'
    BY <2>1, <2>5, <2>6, <2>7, <2>8 DEF Settled, q
  <2> QED
    BY <2>3, <2>4, <2>10, <2>11
<1>10. ASSUME SessionCommand(w) PROVE Inv'
  <2> DEFINE begin == Head(cmds[w]) = "START"
  <2>1. wpc[w] = "dispatch" /\ Head(events[w]) = "control" /\ cmds[w][1] # "QUIT"
    BY <1>8, <1>10 DEF SessionCommand
  <2>2. cmds' = [cmds EXCEPT ![w] = Tail(cmds[w])]
    BY <1>10 DEF SessionCommand
  <2>3. /\ started' = [started EXCEPT ![w] = begin]
        /\ \/ wpc' = [wpc EXCEPT ![w] = After(w)] /\ events' = [events EXCEPT ![w] = Tail(@)]
           \/ wpc' = [wpc EXCEPT ![w] = "report"] /\ UNCHANGED events
        /\ g_status' \in Status
    BY <1>10 DEF SessionCommand, TypeOK, Status
  <2> HIDE DEF begin
  <2>4. TypeOK'
    <3>1. cmds' \in [Worker -> Seq(Cmd)] /\ started' \in [Worker -> BOOLEAN]
      BY <1>8, <2>1, <2>2, <2>3 DEF TypeOK, begin
    <3>2. events' \in [Worker -> Seq(Event)]
      BY <2>1, <2>3, AfterEvent DEF TypeOK
    <3>3. wpc' \in [Worker -> {"none", "enter", "wait", "dispatch", "report", "drain", "exited"}]
      BY <2>1, <2>3, AfterEvent DEF TypeOK
    <3> QED
      BY <1>10, <2>3, <3>1, <3>2, <3>3 DEF SessionCommand, TypeOK, fvars, lvars
  <2>5. CallShape' /\ NoOrphanThread'
    BY <1>10, <2>2, <2>3 DEF SessionCommand, TypeOK, CallShape, NoOrphanThread, Live, fvars
  <2> DEFINE q == cmds[w]
  <2>6. /\ Asked(q) > 0 /\ Asked(Tail(q)) = Asked(q) - 1 /\ Asked(q) \in Nat
        /\ Asked(Tail(q)) > 0 => Tail(q)[Asked(Tail(q))] = q[Asked(q)]
        /\ \A i \in 1 .. Len(Tail(q)) : Tail(q)[i] = "QUIT" => i = Len(Tail(q))
    BY <1>8, <2>1, AskedTail
  <2>7. cmds'[w] = Tail(q) /\ \A v \in Worker \ {w} : cmds'[v] = cmds[v]
    BY <2>2 DEF TypeOK
  <2>8. /\ started'[w] = begin /\ wpc'[w] \in {"wait", "dispatch", "report"}
        /\ \A v \in Worker \ {w} : wpc'[v] = wpc[v] /\ started'[v] = started[v]
    BY <2>1, <2>3, AfterEvent DEF TypeOK
  <2>9. Live(w) /\ \A v \in Worker : Live(v)' = Live(v)
    BY <2>1, <2>8 DEF Live
  <2>10. fpc' = fpc /\ want' = want
    BY <1>10 DEF SessionCommand, fvars
  <2>11. q[1] = IF begin THEN "START" ELSE "STOP"
    BY <1>8, <2>1 DEF begin, Cmd
  <2>12. \A i \in 1 .. Len(q) : q[i] = "QUIT" => fpc = "join"
    BY <2>9 DEF QuitIsLast
  <2>13. \A i \in 1 .. Len(Tail(q)) : Tail(q)[i] = "QUIT" => fpc = "join"
    <3>1. Len(Tail(q)) = Len(q) - 1 /\ Len(q) \in Nat \ {0}
      BY <1>8, <2>1, SeqFacts
    <3>2. \A i \in 1 .. Len(q) - 1 : Tail(q)[i] = q[i + 1] /\ i + 1 \in 1 .. Len(q)
      BY <1>8, <2>1, <3>1, SeqFacts
    <3> QED
      BY <2>12, <3>1, <3>2
  <2> HIDE DEF q
  <2>14. QuitIsLast'
    BY <2>6, <2>7, <2>9, <2>10, <2>13 DEF QuitIsLast
  <2>15. Settled'
    <3>a. fd' = fd
      BY <1>10 DEF SessionCommand
    <3> SUFFICES ASSUME NEW v \in Worker, Live(v)', fd # "control"
                 PROVE  IF Asked(cmds'[v]) > 0
                        THEN cmds'[v][Asked(cmds'[v])] = IF want THEN "START" ELSE "STOP"
                        ELSE want = (wpc'[v] # "enter" /\ started'[v])
      BY <2>10, <3>a DEF Settled
    <3>1. CASE v # w
      BY <2>7, <2>8, <2>9, <3>1 DEF Settled
    <3>2. CASE v = w
      <4>1. q[Asked(q)] = IF want THEN "START" ELSE "STOP"
        BY <2>6, <2>9 DEF Settled, q
      <4> DEFINE t == Tail(q)
      <4>a. cmds'[v] = t /\ Asked(t) = Asked(q) - 1 /\ Asked(q) \in Nat
            /\ (Asked(t) > 0 => t[Asked(t)] = q[Asked(q)])
        BY <2>6, <2>7, <3>2
      <4> HIDE DEF t
      <4>2. CASE Asked(q) > 1
        <5>1. Asked(t) > 0 /\ t[Asked(t)] = q[Asked(q)]
          BY <4>a, <4>2
        <5> QED
          BY <4>a, <4>1, <5>1
      <4>3. CASE Asked(q) = 1
        <5>1. want = begin
          <6>1. (IF want THEN "START" ELSE "STOP") = (IF begin THEN "START" ELSE "STOP")
            BY <2>11, <4>1, <4>3
          <6>2. want \in BOOLEAN /\ begin \in BOOLEAN
            BY DEF TypeOK, begin
          <6> QED
            BY <6>1, <6>2
        <5>2. Asked(cmds'[v]) = 0
          BY <4>a, <4>3
        <5>3. wpc'[v] # "enter" /\ started'[v] = begin
          BY <2>8, <3>2
        <5>4. begin \in BOOLEAN
          BY DEF begin
        <5> QED
          BY <5>1, <5>2, <5>3, <5>4
      <4> QED
        BY <2>6, <4>2, <4>3
    <3> QED
      BY <3>1, <3>2
  <2>16. EventShape'
    <3> SUFFICES ASSUME NEW v \in Worker PROVE
          /\ wpc'[v] \in {"dispatch", "report", "drain"} => events'[v] # <<>>
          /\ wpc'[v] \in {"dispatch", "report", "drain"} =>
               \A i, j \in 1 .. Len(events'[v]) : events'[v][i] = events'[v][j] => i = j
          /\ wpc'[v] = "report" => events'[v][1] = "control"
          /\ wpc'[v] \in {"dispatch", "drain"} =>
               \A i \in 1 .. Len(events'[v]) : events'[v][i] = "control" => cmds'[v] # <<>>
      BY DEF EventShape
    <3>1. CASE v # w
      BY <2>3, <2>7, <2>8, <3>1 DEF TypeOK, EventShape
    <3>2. CASE v = w /\ wpc' = [wpc EXCEPT ![w] = "report"]
      <4>1. wpc'[v] = "report" /\ wpc' # [wpc EXCEPT ![w] = After(w)]
        BY <2>1, <3>2, AfterEvent DEF TypeOK
      <4>2. events'[v] = events[w] /\ events[w][1] = "control" /\ events[w] # <<>>
        BY <2>1, <2>3, <3>2, <4>1, AfterEvent
      <4> QED
        BY <2>1, <4>1, <4>2 DEF EventShape
    <3>3. CASE v = w /\ wpc' # [wpc EXCEPT ![w] = "report"]
      <4>1. wpc'[v] = After(w) /\ events'[v] = Tail(events[w])
        BY <2>3, <3>3 DEF TypeOK
      <4> QED
        BY <2>1, <4>1, AfterEvent
    <3> QED
      BY <3>1, <3>2, <3>3
  <2> QED
    BY <2>4, <2>5, <2>14, <2>15, <2>16
<1> QED
  BY <1>1, <1>2, <1>3, <1>4, <1>5, <1>6, <1>7, <1>9, <1>10 DEF WorkerStep

-----------------------------------------------------------------------------
(* A stutter keeps the invariant. *)
LEMMA StutterInv == Inv /\ UNCHANGED vars => Inv'
BY DEF Inv, TypeOK, CallShape, EventShape, NoOrphanThread, QuitIsLast, Settled, Live,
   vars, fvars, svars, lvars, wvars

(* Every step keeps the invariant. *)
LEMMA NextInv == Inv /\ [Next]_vars => Inv'
<1> SUFFICES ASSUME Inv, [Next]_vars PROVE Inv'
  OBVIOUS
<1> \A c \in {"START", "STOP", "QUIT"} : c \in Cmd
  BY DEF Cmd
<1> QED
  BY ControlAssumption, ClientInv, LineInv, WorkerInv, StutterInv
  DEF Next, qemu_gps_start, qemu_gps_stop, qemu_gps_cleanup

(* The inductive invariant holds always. *)
LEMMA Invariance == SafeSpec => []Inv
BY InitInv, NextInv, PTL DEF SafeSpec

(* Every variable of GpsControl keeps to its type. *)
THEOREM TypeCorrect == SafeSpec => []TypeOK
<1>1. Inv => TypeOK
  BY DEF Inv
<1> QED
  BY <1>1, Invariance, PTL

(* At most one gps thread exists, the one that GpsState names, and it exists
   only while the HAL is initialised; under every fault, and even when init
   is called twice. *)
THEOREM OneThread == SafeSpec => []NoOrphanThread
<1>1. Inv => NoOrphanThread
  BY DEF Inv
<1> QED
  BY <1>1, Invariance, PTL

(* No command is ever queued behind CMD_QUIT. *)
THEOREM NothingAfterQuit == SafeSpec => []QuitIsLast
<1>1. Inv => QuitIsLast
  BY DEF Inv
<1> QED
  BY <1>1, Invariance, PTL

(* The thread takes all commands in order, and none is dropped while control[0]
   blocks: with none waiting, its session is the one last asked for. *)
THEOREM CommandsServed == SafeSpec => []Settled
<1>1. Inv => Settled
  BY DEF Inv
<1> QED
  BY <1>1, Invariance, PTL

-----------------------------------------------------------------------------
(* A framework that does not call init twice: the statuses it is told. *)

(* Nothing has been reported at first. *)
LEMMA InitOnce == Init => OnceInv
BY DEF Init, OnceInv, ShownShape, ReportIsCurrent, ShownIsStarted

(* Every step keeps what is reported true, if init is not repeated. *)
LEMMA NextOnce ==
  ASSUME ~Reinit, Inv, OnceInv, [Next]_vars
  PROVE  OnceInv'
<1> USE DEF OnceInv
<1>0. /\ \A w \in Worker : Live(w) =>
           init /\ w = thread /\ fpc \in {"idle", "report", "write", "join"}
      /\ wpc \in [Worker -> {"none", "enter", "wait", "dispatch", "report", "drain", "exited"}]
      /\ fpc = "open" => ~init
      /\ fpc \in {"tty", "pair", "create", "write", "join", "close", "close_serial"} => init
  BY DEF Inv, NoOrphanThread, TypeOK, CallShape
<1>1. CASE qemu_gps_init
  <2>1. ~init /\ \A w \in Worker : wpc[w] = "none"
    BY <1>0, <1>1 DEF qemu_gps_init, Live
  <2> QED
    BY <1>1, <2>1 DEF qemu_gps_init, ShownShape, ReportIsCurrent, ShownIsStarted, wvars
<1>2. CASE InitReport
  <2>1. \A w \in Worker : wpc[w] = "none"
    BY <1>0, <1>2 DEF InitReport, ShownShape, Live
  <2> QED
    BY <1>2, <2>1 DEF InitReport, ShownShape, ReportIsCurrent, ShownIsStarted, svars, wvars
<1>3. CASE OpenSerial \/ SetupTty \/ MakeSocketpair \/ CloseControl \/ CloseSerial
  BY <1>0, <1>3 DEF OpenSerial, SetupTty, MakeSocketpair, CloseControl, CloseSerial,
     ShownShape, ReportIsCurrent, ShownIsStarted, wvars
<1>4. CASE CreateThread
  BY <1>0, <1>4 DEF CreateThread, ShownShape, ReportIsCurrent, ShownIsStarted
<1>5. CASE WriteCommand \/ WriteDropped \/ JoinInvalid \/ LineDelivers \/ LineHangsUp
           \/ NumberTaken \/ \E c \in Cmd : CallCommand(c)
  BY <1>5 DEF WriteCommand, WriteDropped, JoinInvalid, LineDelivers, LineHangsUp,
     NumberTaken, CallCommand, lvars,
     ShownShape, ReportIsCurrent, ShownIsStarted, fvars, svars, wvars
<1>6. CASE JoinThread
  BY <1>0, <1>6 DEF JoinThread, ShownShape, ReportIsCurrent, ShownIsStarted, svars
<1>7. CASE Restart
  BY <1>7 DEF Restart, ShownShape, ReportIsCurrent, ShownIsStarted
<1>8. ASSUME NEW w \in Worker, WorkerStep(w) PROVE OnceInv'
  <2>1. Live(w) /\ \A v \in Worker : wpc[v] # "none" => v = w
    BY <1>0, <1>8 DEF WorkerStep, Live, ThreadEnter, EpollWait, HangupEvent, QuitCommand,
       SessionCommand, SessionReport, GpsEvent, ReadChunk, ReadWouldBlock
  <2>2. init /\ fpc \in {"idle", "write", "join"}
    BY <1>0, <2>1 DEF ShownShape
  <2>3. CASE ThreadEnter(w)
    BY <1>0, <2>1, <2>2, <2>3 DEF ThreadEnter, Inv, TypeOK, ShownShape, ReportIsCurrent,
       ShownIsStarted, fvars, svars
  <2>4. CASE EpollWait(w) \/ HangupEvent(w) \/ QuitCommand(w) \/ GpsEvent(w)
    BY <1>0, <2>1, <2>2, <2>4 DEF EpollWait, HangupEvent, QuitCommand, GpsEvent, ShownShape,
       ReportIsCurrent, ShownIsStarted, fvars, svars
  <2>5. CASE ReadChunk(w)
    BY <2>1, <2>2, <2>5 DEF ReadChunk, ShownShape, ReportIsCurrent, ShownIsStarted, svars, wvars
  <2>6. CASE ReadWouldBlock(w)
    <3>1. wpc[w] = "drain" /\ After(w) \in {"wait", "dispatch"}
      BY <2>6 DEF ReadWouldBlock, After
    <3> QED
      BY <1>0, <2>1, <2>2, <2>6, <3>1 DEF ReadWouldBlock, ShownShape, ReportIsCurrent,
         ShownIsStarted, fvars, svars
  <2>7. CASE SessionCommand(w)
    <3>1. wpc[w] = "dispatch" /\ After(w) \in {"wait", "dispatch"}
      BY <2>7 DEF SessionCommand, After
    <3> DEFINE begin == Head(cmds[w]) = "START"
    <3>2. \/ wpc' = [wpc EXCEPT ![w] = After(w)] /\ UNCHANGED <<started, g_status>>
          \/ /\ wpc' = [wpc EXCEPT ![w] = "report"]
             /\ started' = [started EXCEPT ![w] = begin]
             /\ g_status' = IF begin THEN "SESSION_BEGIN" ELSE "SESSION_END"
      BY <2>7 DEF SessionCommand
    <3> HIDE DEF begin
    <3>3. fpc' = fpc /\ shown' = shown /\ init' = init /\ started \in [Worker -> BOOLEAN]
      BY <2>7 DEF SessionCommand, fvars, Inv, TypeOK
    <3> QED
      BY <1>0, <2>1, <2>2, <3>1, <3>2, <3>3 DEF ShownShape, ReportIsCurrent, ShownIsStarted
  <2>8. CASE SessionReport(w)
    <3>1. wpc[w] = "report" /\ After(w) \in {"wait", "dispatch"}
      BY <2>8 DEF SessionReport, After
    <3>2. shown' = IF started[w] THEN "SESSION_BEGIN" ELSE "SESSION_END"
      BY <2>8, <3>1 DEF SessionReport, ReportIsCurrent
    <3> QED
      BY <1>0, <2>1, <2>2, <2>8, <3>1, <3>2 DEF SessionReport, ShownShape, ReportIsCurrent,
         ShownIsStarted, svars
  <2> QED
    BY <1>8, <2>3, <2>4, <2>5, <2>6, <2>7, <2>8 DEF WorkerStep
<1>9. CASE UNCHANGED vars
  BY <1>9 DEF ShownShape, ReportIsCurrent, ShownIsStarted, vars, fvars, svars, wvars
<1> QED
  BY <1>1, <1>2, <1>3, <1>4, <1>5, <1>6, <1>7, <1>8, <1>9
  DEF Next, ClientStep, qemu_gps_start, qemu_gps_stop, qemu_gps_cleanup, Cmd

(* So it is an invariant of a framework that does not repeat init. *)
LEMMA OnceInvariance == ASSUME ~Reinit PROVE SafeSpec => []OnceInv
<1>1. Inv /\ OnceInv /\ [Next]_vars => OnceInv'
  BY NextOnce
<1> QED
  BY <1>1, InitOnce, Invariance, PTL DEF SafeSpec

(* If init is not called twice, the framework never reads g_status between a
   store and the report it belongs to, and between reports it has been told
   that a session is under way exactly when the thread runs one. *)
THEOREM StatusCurrent == ASSUME ~Reinit PROVE SafeSpec => []ReportIsCurrent
<1>1. OnceInv => ReportIsCurrent
  BY DEF OnceInv
<1> QED
  BY <1>1, OnceInvariance, PTL

(* With every kind of sentence on the line, valid fixes included, and under
   every failure: the status the framework was told last is what the thread
   does (927-1004), as long as no latitude reads as one of the five statuses
   (733). *)
THEOREM StatusTrue ==
  ASSUME ~Reinit, "latitude" \notin Faults PROVE SafeSpec => []ShownIsStarted
<1>1. OnceInv => ShownIsStarted
  BY DEF OnceInv
<1> QED
  BY <1>1, OnceInvariance, PTL

-----------------------------------------------------------------------------
(* With a framework that does not call init twice, and no failure, the control
   side implements GpsSession. *)

(* The thread is there whenever the framework may command it. *)
KeptThread ==
  /\ line = "up" /\ fpc # "exited" /\ fd \in {"none", "open"}
  /\ fpc = "join" => ctl \in Worker /\ init
  /\ init /\ fpc \in {"idle", "write", "join"} => Live(ctl)
  /\ \A w \in Worker :
       /\ wpc[w] = "exited" => fpc = "join" /\ Asked(cmds[w]) = 0
       /\ wpc[w] \in {"dispatch", "report", "drain"} =>
            \A i \in 1 .. Len(events[w]) : events[w][i] # "gps_hup"

(* The line is up at first, and there is no thread. *)
LEMMA InitKept == Init => KeptThread
BY DEF Init, KeptThread

(* When nothing fails, the thread is kept until it is told to quit. *)
LEMMA NextKept ==
  ASSUME ~Reinit, Faults = {}, Inv, OnceInv, KeptThread, [Next]_vars
  PROVE  KeptThread'
<1>0. /\ \A w \in Worker : Live(w) =>
           init /\ w = thread /\ w = ctl /\ fpc \in {"idle", "report", "write", "join"}
      /\ wpc \in [Worker -> {"none", "enter", "wait", "dispatch", "report", "drain", "exited"}]
      /\ fpc = "open" => ~init
      /\ fpc \in {"tty", "pair", "create", "write", "join", "close", "close_serial"} => init
      /\ init /\ fpc \in {"idle", "report", "create", "write"} => ctl \in Worker
      /\ fpc = "report" => ~init
  BY DEF Inv, NoOrphanThread, TypeOK, CallShape, OnceInv, ShownShape
<1>1. CASE qemu_gps_init \/ InitReport \/ OpenSerial \/ SetupTty \/ MakeSocketpair
           \/ CloseControl \/ CloseSerial \/ \E c \in Cmd : CallCommand(c)
  BY <1>0, <1>1 DEF qemu_gps_init, InitReport, OpenSerial, SetupTty, MakeSocketpair,
     CloseControl, CloseSerial, CallCommand, KeptThread, Live, fvars, svars, lvars, wvars
<1>2. CASE CreateThread
  BY <1>0, <1>2 DEF CreateThread, KeptThread, Live, lvars
<1>3. CASE WriteCommand
  BY <1>0, <1>3 DEF WriteCommand, KeptThread, Live, svars, lvars, wvars
<1>4. CASE JoinThread
  BY <1>0, <1>4 DEF JoinThread, KeptThread, Live, svars, lvars
<1>5. CASE JoinInvalid \/ Restart \/ LineHangsUp \/ NumberTaken \/ WriteDropped
  <2>1. CASE JoinInvalid
    BY <1>0, <2>1, ControlAssumption DEF JoinInvalid, KeptThread, Live
  <2>2. CASE Restart \/ LineHangsUp \/ NumberTaken \/ WriteDropped
    BY <2>2 DEF Restart, LineHangsUp, NumberTaken, WriteDropped, NonBlocking, KeptThread
  <2> QED
    BY <1>5, <2>1, <2>2
<1>6. CASE LineDelivers
  BY <1>6 DEF LineDelivers, KeptThread, Live, fvars, svars, wvars
<1>7. ASSUME NEW w \in Worker, WorkerStep(w) PROVE KeptThread'
  <2>1. Live(w)
    BY <1>7 DEF WorkerStep, Live, ThreadEnter, EpollWait, HangupEvent, QuitCommand,
       SessionCommand, SessionReport, GpsEvent, ReadChunk, ReadWouldBlock
  <2>2. CASE ThreadEnter(w)
    BY <1>0, <2>1, <2>2 DEF ThreadEnter, KeptThread, Live, fvars, svars, lvars
  <2>3. CASE EpollWait(w)
    <3>1. PICK one \in Ready(w), other \in Ready(w) :
            events' = [events EXCEPT ![w] = IF one = other THEN <<one>> ELSE <<one, other>>]
      BY <2>3 DEF EpollWait
    <3>2. one # "gps_hup" /\ other # "gps_hup"
      BY DEF Ready, KeptThread
    <3>3. \A i \in 1 .. Len(events'[w]) : events'[w][i] # "gps_hup"
      <4>1. CASE one = other
        BY <3>1, <3>2, <4>1 DEF Inv, TypeOK
      <4>2. CASE one # other
        BY <3>1, <3>2, <4>2 DEF Inv, TypeOK
      <4> QED
        BY <4>1, <4>2
    <3>4. \A v \in Worker \ {w} : events'[v] = events[v]
      BY <3>1 DEF Inv, TypeOK
    <3> QED
      BY <1>0, <2>1, <2>3, <3>3, <3>4 DEF EpollWait, KeptThread, Live, fvars, svars, lvars
  <2>4. CASE HangupEvent(w)
    <3>1. wpc[w] = "dispatch" /\ events[w][1] = "gps_hup" /\ 1 \in 1 .. Len(events[w])
      BY <2>4, AfterEvent, SeqFacts DEF HangupEvent
    <3> QED
      BY <3>1 DEF KeptThread
  <2>5. CASE GpsEvent(w) \/ ReadChunk(w)
    BY <1>0, <2>1, <2>5 DEF GpsEvent, ReadChunk, KeptThread, Live, fvars, svars, lvars, wvars
  <2>6. ASSUME wpc[w] \in {"dispatch", "report", "drain"}
        PROVE  \A i \in 1 .. Len(Tail(events[w])) : Tail(events[w])[i] # "gps_hup"
    <3> DEFINE e == events[w]
               n == Len(e)
    <3>1. n \in Nat \ {0} /\ Len(Tail(e)) = n - 1 /\ \A i \in 1 .. n - 1 : Tail(e)[i] = e[i + 1]
      BY <2>6, AfterEvent, SeqFacts
    <3>2. \A i \in 1 .. n : e[i] # "gps_hup"
      BY <2>6 DEF KeptThread
    <3> HIDE DEF n
    <3> QED
      BY <3>1, <3>2
  <2>7. CASE ReadWouldBlock(w)
    <3>1. wpc[w] = "drain" /\ After(w) \in {"wait", "dispatch"}
      BY <2>7 DEF ReadWouldBlock, After
    <3> QED
      BY <1>0, <2>1, <2>6, <2>7, <3>1 DEF ReadWouldBlock, KeptThread, Live, fvars, svars,
         Inv, TypeOK
  <2>8. CASE SessionReport(w)
    <3>1. wpc[w] = "report" /\ After(w) \in {"wait", "dispatch"}
      BY <2>8 DEF SessionReport, After
    <3> QED
      BY <1>0, <2>1, <2>6, <2>8, <3>1 DEF SessionReport, KeptThread, Live, svars, lvars,
         Inv, TypeOK
  <2>9. CASE SessionCommand(w)
    <3>1. wpc[w] = "dispatch" /\ After(w) \in {"wait", "dispatch"}
      BY <2>9 DEF SessionCommand, After
    <3>2. /\ cmds' = [cmds EXCEPT ![w] = Tail(@)]
          /\ \/ wpc' = [wpc EXCEPT ![w] = After(w)] /\ events' = [events EXCEPT ![w] = Tail(@)]
             \/ wpc' = [wpc EXCEPT ![w] = "report"] /\ UNCHANGED events
          /\ UNCHANGED <<fpc, init, ctl, line, fd>>
      BY <2>9 DEF SessionCommand, fvars, lvars
    <3>3. /\ wpc'[w] \in {"wait", "dispatch", "report"}
          /\ events'[w] = events[w] \/ events'[w] = Tail(events[w])
          /\ \A v \in Worker \ {w} :
               wpc'[v] = wpc[v] /\ events'[v] = events[v] /\ cmds'[v] = cmds[v]
      BY <3>1, <3>2 DEF Inv, TypeOK
    <3>4. \A i \in 1 .. Len(events'[w]) : events'[w][i] # "gps_hup"
      BY <2>6, <3>1, <3>3 DEF KeptThread
    <3> QED
      BY <1>0, <2>1, <3>2, <3>3, <3>4 DEF KeptThread, Live
  <2>10. CASE QuitCommand(w)
    <3>1. wpc[w] = "dispatch" /\ Head(events[w]) = "control" /\ Head(cmds[w]) = "QUIT"
      BY <2>10 DEF QuitCommand
    <3>2. cmds[w] \in Seq(Cmd) /\ cmds[w] # <<>>
      <4>1. events[w][1] = "control" /\ 1 \in 1 .. Len(events[w])
        BY <3>1, AfterEvent, SeqFacts
      <4> QED
        BY <3>1, <4>1 DEF Inv, TypeOK, EventShape
    <3>3. fpc = "join" /\ Asked(Tail(cmds[w])) = 0
      BY <2>1, <3>1, <3>2, SeqFacts, AskedTail DEF Inv, QuitIsLast
    <3> QED
      BY <1>0, <2>1, <2>10, <3>3 DEF QuitCommand, KeptThread, Live, fvars, svars, lvars,
         Inv, TypeOK
  <2> QED
    BY <1>7, <2>2, <2>3, <2>4, <2>5, <2>7, <2>8, <2>9, <2>10 DEF WorkerStep
<1>8. CASE UNCHANGED vars
  BY <1>8 DEF KeptThread, Live, vars, fvars, svars, lvars, wvars
<1> QED
  BY <1>1, <1>2, <1>3, <1>4, <1>5, <1>6, <1>7, <1>8
  DEF Next, ClientStep, qemu_gps_start, qemu_gps_stop, qemu_gps_cleanup, Cmd

(* So it is an invariant, with no other fault. *)
LEMMA KeptInvariance ==
  ASSUME ~Reinit, Faults = {} PROVE SafeSpec => []KeptThread
<1>1. Inv /\ OnceInv /\ KeptThread /\ [Next]_vars => KeptThread'
  BY NextKept
<1> QED
  BY <1>1, InitKept, Invariance, OnceInvariance, PTL DEF SafeSpec

(* A thread that has taken every command runs the session asked for last. *)
LEMMA SettledEmpty ==
  ASSUME Inv', KeptThread', NEW w \in Worker, wpc'[w] \in {"wait", "dispatch"}, Asked(cmds'[w]) = 0
  PROVE  want' = started'[w]
<1>1. Live(w)' /\ ~(Asked(cmds'[w]) > 0) /\ fd' # "control"
  BY DEF Live, KeptThread
<1>2. want' = (wpc'[w] # "enter" /\ started'[w])
  BY <1>1 DEF Inv, Settled
<1>3. want' \in BOOLEAN /\ started'[w] \in BOOLEAN
  BY DEF Inv, TypeOK
<1> QED
  BY <1>2, <1>3

(* Each step of the control side is a step of GpsSession or leaves it alone. *)
LEMMA StepRefines ==
  ASSUME ~Reinit, Faults = {},
         Inv, OnceInv, KeptThread, Inv', OnceInv', KeptThread', [Next]_vars
  PROVE  [Session!Next]_Session!vars
<1> USE DEF Session!vars
<1>0. /\ \A w \in Worker : Live(w) =>
           init /\ w = thread /\ w = ctl /\ fpc \in {"idle", "report", "write", "join"}
      /\ wpc \in [Worker -> {"none", "enter", "wait", "dispatch", "report", "drain", "exited"}]
      /\ cmds \in [Worker -> Seq(Cmd)] /\ want \in BOOLEAN /\ fpc # "exited"
      /\ fpc = "open" => ~init
      /\ fpc \in {"tty", "pair", "create", "write", "join", "close", "close_serial"} => init
      /\ init /\ fpc \in {"idle", "write", "join"} => ctl \in Worker /\ Live(ctl)
      /\ fpc = "report" => ~init /\ g_status = "ENGINE_ON"
  BY DEF Inv, NoOrphanThread, TypeOK, CallShape, OnceInv, ShownShape, KeptThread
<1>1. CASE qemu_gps_init
  BY <1>0, <1>1 DEF qemu_gps_init, Phase, Unserved
<1>2. CASE InitReport
  BY <1>0, <1>2 DEF InitReport, Phase, Unserved, svars, Session!Next, Session!PowerOn
<1>3. CASE OpenSerial \/ SetupTty \/ MakeSocketpair
  BY <1>0, <1>3 DEF OpenSerial, SetupTty, MakeSocketpair, Phase, Unserved
<1>4. CASE CreateThread
  <2>1. ctl \in Worker /\ cmds[ctl] = <<>> /\ init /\ fpc = "create"
    BY <1>4 DEF CreateThread, Inv, CallShape
  <2>2. Asked(<<>>) = 0
    BY EmptySeq DEF Asked
  <2>3. Unserved = 0 /\ Unserved' = 0
    BY <1>0, <1>4, <2>1, <2>2 DEF CreateThread, Unserved, Live
  <2>4. Phase = "opening" /\ Phase' = "open"
    BY <1>4, <2>1 DEF CreateThread, Phase
  <2> QED
    BY <1>4, <2>3, <2>4 DEF CreateThread, Session!Next, Session!Open
<1>5. CASE \E c \in Cmd : CallCommand(c)
  BY <1>5 DEF CallCommand, Phase, Unserved, Live, svars, wvars
<1>6. CASE WriteCommand
  <2> DEFINE q == cmds[ctl]
  <2>1. /\ ctl \in Worker /\ init /\ fpc = "write" /\ call \in Cmd /\ q \in Seq(Cmd)
        /\ Live(ctl) /\ Live(ctl)'
    BY <1>0, <1>6 DEF WriteCommand, Inv, TypeOK, Live, svars, wvars
  <2>2. \A i \in 1 .. Len(q) : q[i] # "QUIT"
    BY <2>1 DEF Inv, QuitIsLast
  <2>3. /\ Asked(q) = Len(q) /\ Len(q) \in Nat
        /\ Asked(Append(q, call)) = IF call = "QUIT" THEN Len(q) ELSE Len(q) + 1
    BY <2>1, <2>2, AskedAppend, LenProperties
  <2>4. cmds'[ctl'] = Append(q, call) /\ ctl' = ctl /\ init' = init /\ wpc' = wpc
    BY <1>6, <2>1 DEF WriteCommand, Inv, TypeOK, svars, wvars
  <2>5. fpc' \in {"idle", "join"} /\ shown' = shown
    BY <1>6 DEF WriteCommand
  <2> DEFINE r == IF wpc[ctl] = "report" THEN 1 ELSE 0
  <2>6. Unserved = Len(q) + r
    BY <2>1, <2>3 DEF Unserved
  <2>7. Unserved' = (IF call = "QUIT" THEN Len(q) ELSE Len(q) + 1) + r
    BY <2>1, <2>3, <2>4, <2>5 DEF Unserved, Live
  <2>8. r \in Nat
    OBVIOUS
  <2> HIDE DEF q, r
  <2>9. CASE call = "QUIT"
    <3>1. Phase = "open" /\ Phase' = "closing" /\ want' = want
      BY <1>6, <2>1, <2>9 DEF WriteCommand, Phase
    <3> QED
      BY <2>3, <2>5, <2>6, <2>7, <2>9, <3>1 DEF Session!Next, Session!StartClosing
  <2>10. CASE call # "QUIT"
    <3>1. Phase = "open" /\ Phase' = "open" /\ want' = (call = "START")
      BY <1>6, <2>1, <2>4, <2>10 DEF WriteCommand, Phase
    <3>2. Unserved' = Unserved + 1
      BY <2>3, <2>6, <2>7, <2>8, <2>10
    <3> QED
      BY <2>5, <3>1, <3>2 DEF Session!Next, Session!Request
  <2> QED
    BY <2>9, <2>10
<1>7. CASE JoinThread
  <2>1. fpc = "join" /\ fpc' = "close" /\ ctl \in Worker /\ Live(ctl)
    BY <1>0, <1>7 DEF JoinThread
  <2>2. wpc[ctl] = "exited" /\ Asked(cmds[ctl]) = 0
    BY <1>0, <1>7, <2>1 DEF JoinThread, KeptThread
  <2>3. Unserved = 0 /\ Unserved' = 0
    BY <1>0, <2>1, <2>2 DEF Unserved
  <2> QED
    BY <1>7, <2>1, <2>3 DEF JoinThread, Phase
<1>13. CASE CloseControl
  BY <1>13 DEF CloseControl, Phase, Unserved
<1>8. CASE CloseSerial
  <2>1. fpc = "close_serial" /\ fpc' = "idle" /\ ~init'
    BY <1>8 DEF CloseSerial
  <2>2. Unserved = 0 /\ Unserved' = 0
    BY <2>1 DEF Unserved
  <2>3. Phase = "closing" /\ Phase' = "closed"
    BY <2>1 DEF Phase
  <2> QED
    BY <1>8, <2>2, <2>3 DEF CloseSerial, Session!Next, Session!Close
<1>9. CASE JoinInvalid \/ Restart \/ LineHangsUp \/ NumberTaken \/ WriteDropped
  <2>1. CASE JoinInvalid
    BY <1>0, <2>1, ControlAssumption DEF JoinInvalid, Live
  <2>2. CASE Restart \/ LineHangsUp \/ NumberTaken \/ WriteDropped
    BY <1>0, <2>2 DEF Restart, LineHangsUp, NumberTaken, WriteDropped, NonBlocking, KeptThread
  <2> QED
    BY <1>9, <2>1, <2>2
<1>10. CASE LineDelivers
  BY <1>10 DEF LineDelivers, Phase, Unserved, Live, fvars, svars, wvars
<1>11. ASSUME NEW w \in Worker, WorkerStep(w)
       PROVE  [Session!Next]_Session!vars
  <2>1. /\ Live(w) /\ w = ctl /\ init /\ fpc \in {"idle", "write", "join"}
        /\ wpc[w] # "exited"
    BY <1>0, <1>11 DEF WorkerStep, Live, ThreadEnter, EpollWait, HangupEvent, QuitCommand,
       SessionCommand, SessionReport, GpsEvent, ReadChunk, ReadWouldBlock
  <2> DEFINE r == IF wpc[w] = "report" THEN 1 ELSE 0
  <2>2. Unserved = Asked(cmds[w]) + r /\ Phase \in {"open", "closing"}
    BY <2>1 DEF Unserved, Phase
  <2>3. ASSUME fpc' = fpc, init' = init, ctl' = ctl, wpc'[w] # "none"
        PROVE  /\ Unserved' = Asked(cmds'[w]) + (IF wpc'[w] = "report" THEN 1 ELSE 0)
               /\ Phase' = Phase
    BY <2>1, <2>3 DEF Unserved, Phase, Live
  <2>4. CASE ThreadEnter(w) \/ EpollWait(w) \/ HangupEvent(w) \/ GpsEvent(w)
    <3>1. /\ UNCHANGED <<fpc, init, ctl, want, shown, cmds>>
          /\ wpc[w] # "report" /\ wpc'[w] \notin {"none", "report"}
      BY <1>0, <2>4 DEF ThreadEnter, EpollWait, HangupEvent, GpsEvent, fvars, svars
    <3> QED
      BY <2>2, <2>3, <3>1
  <2>5. CASE ReadChunk(w)
    BY <2>5 DEF ReadChunk, Phase, Unserved, Live, fvars, svars, wvars
  <2>6. CASE ReadWouldBlock(w)
    <3>1. /\ UNCHANGED <<fpc, init, ctl, want, shown, cmds>>
          /\ wpc[w] # "report" /\ wpc'[w] \notin {"none", "report"}
      BY <1>0, <2>6 DEF ReadWouldBlock, After, fvars, svars
    <3> QED
      BY <2>2, <2>3, <3>1
  <2>7. ASSUME wpc[w] = "dispatch", Head(events[w]) = "control"
        PROVE  /\ cmds[w] \in Seq(Cmd) /\ cmds[w] # <<>> /\ Head(cmds[w]) = cmds[w][1]
               /\ \A i \in 1 .. Len(cmds[w]) : cmds[w][i] = "QUIT" => i = Len(cmds[w])
    <3>1. events[w][1] = "control" /\ 1 \in 1 .. Len(events[w])
      BY <2>7, AfterEvent, SeqFacts
    <3>2. cmds[w] \in Seq(Cmd) /\ cmds[w] # <<>>
      BY <1>0, <2>7, <3>1 DEF Inv, EventShape
    <3> QED
      BY <2>1, <3>2, SeqFacts DEF Inv, QuitIsLast
  <2>8. CASE QuitCommand(w)
    <3>1. wpc[w] = "dispatch" /\ Head(events[w]) = "control" /\ Head(cmds[w]) = "QUIT"
          /\ cmds'[w] = Tail(cmds[w]) /\ wpc'[w] = "exited"
          /\ UNCHANGED <<fpc, init, ctl, want, shown>>
      BY <1>0, <2>8 DEF QuitCommand, fvars, svars
    <3>2. Asked(cmds[w]) = 0 /\ Asked(cmds'[w]) = 0
      BY <2>7, <3>1, AskedTail
    <3> QED
      BY <2>2, <2>3, <3>1, <3>2
  <2>9. CASE SessionCommand(w)
    <3>1. wpc[w] = "dispatch" /\ Head(events[w]) = "control" /\ Head(cmds[w]) # "QUIT"
          /\ cmds'[w] = Tail(cmds[w]) /\ UNCHANGED <<fpc, init, ctl, want, shown>>
      BY <1>0, <2>9 DEF SessionCommand, fvars
    <3>2. /\ Asked(cmds[w]) \in Nat /\ Asked(cmds[w]) > 0
          /\ Asked(cmds'[w]) = Asked(cmds[w]) - 1
      BY <2>7, <3>1, AskedTail
    <3>3. CASE wpc'[w] = "report"
      BY <2>2, <2>3, <3>1, <3>2, <3>3
    <3>4. CASE wpc'[w] # "report"
      <4>1. wpc'[w] \in {"wait", "dispatch"}
        BY <1>0, <2>9, <3>4 DEF SessionCommand, After
      <4>2. Unserved > 0 /\ Unserved' = Unserved - 1 /\ Unserved' = Asked(cmds'[w]) /\ Phase' = Phase
        BY <2>2, <2>3, <3>1, <3>2, <4>1
      <4>3. Asked(cmds'[w]) = 0 => want' = started'[w]
        BY <4>1, SettledEmpty
      <4>4. started'[w] <=> shown' = "SESSION_BEGIN"
        BY <4>1 DEF OnceInv, ShownIsStarted
      <4>5. Unserved' = 0 => (shown' = "SESSION_BEGIN") = want
        BY <3>1, <4>2, <4>3, <4>4 DEF Inv, TypeOK
      <4> QED
        BY <3>1, <4>2, <4>5 DEF Session!Next, Session!Serve
    <3> QED
      BY <3>3, <3>4
  <2>10. CASE SessionReport(w)
    <3>1. wpc[w] = "report" /\ wpc'[w] \in {"wait", "dispatch"}
          /\ UNCHANGED <<fpc, init, ctl, want, cmds>>
      BY <1>0, <2>10 DEF SessionReport, After, svars
    <3>2. Asked(cmds[w]) \in Nat
      BY <1>0, LenProperties DEF Asked
    <3>3. Unserved > 0 /\ Unserved' = Unserved - 1 /\ Unserved' = Asked(cmds'[w]) /\ Phase' = Phase
      BY <2>2, <2>3, <3>1, <3>2
    <3>4. Asked(cmds'[w]) = 0 => want' = started'[w]
      BY <3>1, SettledEmpty
    <3>5. started'[w] <=> shown' = "SESSION_BEGIN"
      BY <3>1 DEF OnceInv, ShownIsStarted
    <3>6. Unserved' = 0 => (shown' = "SESSION_BEGIN") = want
      BY <3>1, <3>3, <3>4, <3>5 DEF Inv, TypeOK
    <3> QED
      BY <3>1, <3>3, <3>6 DEF Session!Next, Session!Serve
  <2> QED
    BY <1>11, <2>4, <2>5, <2>6, <2>8, <2>9, <2>10 DEF WorkerStep
<1>12. CASE UNCHANGED vars
  BY <1>12 DEF Phase, Unserved, Live, vars, fvars, svars, wvars
<1> QED
  BY <1>1, <1>2, <1>3, <1>4, <1>5, <1>6, <1>7, <1>8, <1>9, <1>10, <1>11, <1>12, <1>13
  DEF Next, ClientStep, qemu_gps_start, qemu_gps_stop, qemu_gps_cleanup, Cmd

(* The initial states are those of GpsSession. *)
LEMMA InitRefines == Init => Session!Init
BY DEF Init, Session!Init, Phase, Unserved

(* Without failures, the control side implements GpsSession: every request is served, in order,
   before the HAL is closed, and what the framework is told settles on what
   it asked for last. *)
THEOREM ImplementsSession ==
  ASSUME ~Reinit, Faults = {} PROVE SafeSpec => SessionSafe
<1>1. /\ Inv /\ OnceInv /\ KeptThread
      /\ Inv' /\ OnceInv' /\ KeptThread' /\ [Next]_vars
      => [Session!Next]_Session!vars
  BY StepRefines
<1> QED
  BY <1>1, InitRefines, Invariance, OnceInvariance, KeptInvariance, PTL
  DEF SafeSpec, SessionSafe, Session!SafeSpec
=============================================================================
