----------------------------- MODULE GpsControl -----------------------------
(***************************************************************************)
(* The control side of the u-blox GPS HAL: the framework thread, which     *)
(* calls qemu_gps_init, _start, _stop and _cleanup one after the other,    *)
(* and the gps thread, which waits in epoll for command bytes on a socket  *)
(* pair and for data on the serial line.                                   *)
(*                                                                         *)
(* What the bytes of the line mean is the subject of NmeaReader, GpsFix    *)
(* and GpsSv: here they are chunks that one read() takes away.             *)
(***************************************************************************)
EXTENDS Naturals, Sequences

CONSTANTS
  Worker,     (* identities of gps threads and of their socket pairs       *)
  NoThread,   (* the value of GpsState.thread when creation failed         *)
  CtrlCap,    (* command bytes the socket pair holds before write() blocks *)
  RxBurst,    (* chunks the line delivers before the reader catches up     *)
  Faults,     (* the failures of the environment that may happen           *)
  Reinit      (* may the framework call init again before cleanup?         *)

(* "latitude": after each valid RMC sentence nmea_reader_parse passes status_cb
   a pointer into reader.fix, where the framework reads 16 bits of the latitude
   for a status.  They are a number that is no status at all, unless the
   latitude is such that they happen to be one of the five. *)
AllFaults == {"open", "setup", "socketpair", "thread", "hangup", "latitude"}

ASSUME ControlAssumption ==
  /\ NoThread \notin Worker
  /\ CtrlCap \in Nat \ {0}
  /\ RxBurst \in Nat
  /\ Faults \subseteq AllFaults
  /\ Reinit \in BOOLEAN

Cmd   == {"QUIT", "START", "STOP"}
Event == {"control", "gps_in", "gps_hup"}

VARIABLES
  (* the framework thread *)
  fpc,        \* where it is inside a call; "idle" between calls
  call,       \* the command byte it is about to write
  shown,      \* which of the five statuses it was told last, by either thread
  want,       \* history: was the last command it asked for CMD_START?
  (* GpsState and the global g_status, shared by both threads *)
  init, fd, thread, ctl, g_status,
  (* the socket pair and the serial line *)
  cmds, line, rx, burst,
  (* gps_state_thread *)
  wpc, started, events

fvars == <<fpc, call, shown, want>>
svars == <<init, fd, thread, ctl, g_status>>
lvars == <<line, rx, burst>>
wvars == <<wpc, started, events>>
vars  == <<fvars, svars, cmds, lvars, wvars>>

Status == {"NONE", "SESSION_BEGIN", "SESSION_END", "ENGINE_ON", "ENGINE_OFF"}

(* What GpsState.fd holds: the open serial port, or the number of a descriptor
   that was closed, which nobody has (stale), or which the process has given
   to control[0], or to a file that has nothing to do with the GPS. *)
Descriptor == {"none", "open", "stale", "control", "foreign"}

TypeOK ==
  /\ fpc \in {"idle", "report", "open", "tty", "pair", "create",
              "write", "join", "close", "close_serial", "exited"}
  /\ call \in Cmd
  /\ shown \in Status
  /\ want \in BOOLEAN
  /\ init \in BOOLEAN
  /\ fd \in Descriptor
  /\ thread \in Worker \cup {NoThread}
  /\ ctl \in Worker \cup {NoThread}
  /\ g_status \in Status
  /\ cmds \in [Worker -> Seq(Cmd)]
  /\ line \in {"up", "hungup"}
  /\ rx \in Nat
  /\ burst \in Nat
  /\ wpc \in [Worker -> {"none", "enter", "wait", "dispatch", "report",
                         "drain", "exited"}]
  /\ started \in [Worker -> BOOLEAN]
  /\ events \in [Worker -> Seq(Event)]

Init ==
  /\ fpc = "idle" /\ call = "QUIT" /\ shown = "NONE" /\ want = FALSE
  /\ init = FALSE /\ fd = "none" /\ thread = NoThread /\ ctl = NoThread
  /\ g_status = "NONE"
  /\ cmds = [w \in Worker |-> <<>>]
  /\ line = "up" /\ rx = 0 /\ burst = 0
  /\ wpc = [w \in Worker |-> "none"]
  /\ started = [w \in Worker |-> FALSE]
  /\ events = [w \in Worker |-> <<>>]

-----------------------------------------------------------------------------
(* qemu_gps_init and gps_state_init *)

(* The callbacks are copied and ENGINE_ON is stored before anything else,
   whether or not a gps thread is running. *)
qemu_gps_init ==
  /\ fpc = "idle"
  /\ init => Reinit
  /\ g_status' = "ENGINE_ON"
  /\ fpc' = "report"
  /\ UNCHANGED <<call, shown, want, init, fd, thread, ctl, cmds, lvars, wvars>>

(* InitReport that opens the HAL again although it is open. *)
InitReportAlways ==
  /\ fpc = "report"
  /\ shown' = g_status
  /\ want' = FALSE
  /\ fpc' = "open"
  /\ UNCHANGED <<call, svars, cmds, lvars, wvars>>

InitReport ==
  /\ fpc = "report"
  /\ shown' = g_status
  /\ want' = IF init THEN want ELSE FALSE
  /\ fpc' = IF init THEN "idle" ELSE "open"
  /\ UNCHANGED <<call, svars, cmds, lvars, wvars>>

(* A serial port that cannot be opened ends the process: exit(0). *)
OpenSerial ==
  /\ fpc = "open"
  /\ init' = TRUE
  /\ \/ fpc' = "tty" /\ fd' = "open"
     \/ "open" \in Faults /\ fpc' = "exited" /\ fd' = "none"
  /\ line' = "up" /\ rx' = 0 /\ burst' = 0
  /\ UNCHANGED <<call, shown, want, thread, ctl, g_status, cmds, wvars>>

(* A termios failure closes the descriptor and carries on with its number. *)
SetupTty ==
  /\ fpc = "tty"
  /\ fpc' = "pair"
  /\ \/ UNCHANGED fd
     \/ "setup" \in Faults /\ fd' = "stale"
  /\ UNCHANGED <<call, shown, want, init, thread, ctl, g_status, cmds, lvars, wvars>>

(* A stale number that nobody has is the first one control[0] may get.
   Without a socket pair, Fail: calls gps_state_done, whose write() to
   descriptor -1 fails and whose pthread_join gets whatever thread holds. *)
MakeSocketpair ==
  /\ fpc = "pair"
  /\ \/ /\ \E w \in Worker :
             /\ wpc[w] = "none"
             /\ ctl' = w
             /\ cmds' = [cmds EXCEPT ![w] = <<>>]
        /\ fpc' = "create"
        /\ \/ UNCHANGED fd
           \/ fd = "stale" /\ fd' = "control"
     \/ /\ "socketpair" \in Faults
        /\ fpc' = "join"
        /\ UNCHANGED <<ctl, cmds, fd>>
  /\ UNCHANGED <<call, shown, want, init, thread, g_status, lvars, wvars>>

(* The result of create_thread_cb is stored unchecked. *)
CreateThread ==
  /\ fpc = "create"
  /\ fpc' = "idle"
  /\ \/ /\ thread' = ctl
        /\ wpc' = [wpc EXCEPT ![ctl] = "enter"]
     \/ /\ "thread" \in Faults
        /\ thread' = NoThread
        /\ UNCHANGED wpc
  /\ UNCHANGED <<call, shown, want, init, fd, ctl, g_status, cmds, lvars, started, events>>

-----------------------------------------------------------------------------
(* qemu_gps_start, qemu_gps_stop, qemu_gps_cleanup.  Called while init is
   zero they return at once and change nothing. *)

CallCommand(c) ==
  /\ fpc = "idle"
  /\ init
  /\ call' = c
  /\ fpc' = "write"
  /\ UNCHANGED <<shown, want, svars, cmds, lvars, wvars>>

qemu_gps_start   == CallCommand("START")
qemu_gps_stop    == CallCommand("STOP")
qemu_gps_cleanup == CallCommand("QUIT")

(* A CMD_QUIT that nobody waits for, and one that jumps the queue. *)
WriteWithoutJoin ==
  /\ fpc = "write"
  /\ Len(cmds[ctl]) < CtrlCap
  /\ cmds' = [cmds EXCEPT ![ctl] = Append(@, call)]
  /\ want' = IF call = "QUIT" THEN want ELSE call = "START"
  /\ fpc' = "idle"
  /\ UNCHANGED <<call, shown, svars, lvars, wvars>>

WriteUrgently ==
  /\ fpc = "write"
  /\ Len(cmds[ctl]) < CtrlCap
  /\ cmds' = [cmds EXCEPT ![ctl] =
                IF call = "QUIT" THEN <<call>> \o @ ELSE Append(@, call)]
  /\ want' = IF call = "QUIT" THEN want ELSE call = "START"
  /\ fpc' = IF call = "QUIT" THEN "join" ELSE "idle"
  /\ UNCHANGED <<call, shown, svars, lvars, wvars>>

(* The one-byte write() of gps_state_start, _stop and _done; while the socket
   buffer is full it blocks, or drops the byte if control[0] was made
   non-blocking. *)
WriteCommand ==
  /\ fpc = "write"
  /\ Len(cmds[ctl]) < CtrlCap
  /\ cmds' = [cmds EXCEPT ![ctl] = Append(@, call)]
  /\ want' = IF call = "QUIT" THEN want ELSE call = "START"
  /\ fpc' = IF call = "QUIT" THEN "join" ELSE "idle"
  /\ UNCHANGED <<call, shown, svars, lvars, wvars>>

(* The gps thread has made GpsState.fd non-blocking, and that number is the
   one control[0] got. *)
NonBlocking == fd = "control" /\ wpc[ctl] \notin {"none", "enter"}

(* EAGAIN: a START or STOP is given up, a CMD_QUIT is not even missed. *)
WriteDropped ==
  /\ fpc = "write"
  /\ Len(cmds[ctl]) >= CtrlCap
  /\ NonBlocking
  /\ want' = IF call = "QUIT" THEN want ELSE call = "START"
  /\ fpc' = IF call = "QUIT" THEN "join" ELSE "idle"
  /\ UNCHANGED <<call, shown, svars, cmds, lvars, wvars>>

(* pthread_join of gps_state_done; the handle itself is not cleared. *)
JoinThread ==
  /\ fpc = "join"
  /\ thread # NoThread
  /\ wpc[thread] = "exited"
  /\ wpc' = [wpc EXCEPT ![thread] = "none"]
  /\ fpc' = "close"
  /\ UNCHANGED <<call, shown, want, svars, cmds, lvars, started, events>>

(* Joining a thread that was never created, or that has been joined before,
   is undefined: it returns an error, or the process dies. *)
JoinInvalid ==
  /\ fpc = "join"
  /\ thread # NoThread => wpc[thread] = "none"
  /\ fpc' \in {"close", "exited"}
  /\ UNCHANGED <<call, shown, want, svars, cmds, lvars, wvars>>

(* close() of both ends of the socket pair. *)
CloseControl ==
  /\ fpc = "close"
  /\ ctl' = NoThread
  /\ fd' = IF fd = "control" THEN "stale" ELSE fd
  /\ fpc' = "close_serial"
  /\ UNCHANGED <<call, shown, want, init, thread, g_status, cmds, lvars, wvars>>

(* close() of GpsState.fd, whoever has that number now. *)
CloseSerial ==
  /\ fpc = "close_serial"
  /\ fd' = "none"
  /\ init' = FALSE
  /\ fpc' = "idle"
  /\ UNCHANGED <<call, shown, want, thread, ctl, g_status, cmds, lvars, wvars>>

(* Another thread of the process opens a file and gets the stale number, at a
   moment when the HAL is still going to register or to close that number. *)
NumberTaken ==
  /\ fd = "stale"
  /\ \/ fpc \in {"pair", "create", "close_serial"}
     \/ \E w \in Worker : wpc[w] = "enter"
  /\ fd' = "foreign"
  /\ UNCHANGED <<fvars, init, thread, ctl, g_status, cmds, lvars, wvars>>

(* The process that loaded the HAL is started again after it died. *)
Restart ==
  /\ fpc = "exited"
  /\ fpc' = "idle" /\ call' = "QUIT" /\ shown' = "NONE" /\ want' = FALSE
  /\ init' = FALSE /\ fd' = "none" /\ thread' = NoThread /\ ctl' = NoThread
  /\ g_status' = "NONE"
  /\ cmds' = [w \in Worker |-> <<>>]
  /\ line' = "up" /\ rx' = 0 /\ burst' = 0
  /\ wpc' = [w \in Worker |-> "none"]
  /\ started' = [w \in Worker |-> FALSE]
  /\ events' = [w \in Worker |-> <<>>]

-----------------------------------------------------------------------------
(* gps_state_thread *)

(* nmea_reader_init and epoll_register of both descriptors. *)
ThreadEnter(w) ==
  /\ wpc[w] = "enter"
  /\ wpc' = [wpc EXCEPT ![w] = "wait"]
  /\ started' = [started EXCEPT ![w] = FALSE]
  /\ events' = [events EXCEPT ![w] = <<>>]
  /\ UNCHANGED <<fvars, svars, cmds, lvars>>

(* The gps descriptor brings data: the receiver's, or those of a file of
   another part of the process.  Nobody writes to control[0]'s peer, and a
   number that nobody has is not registered. *)
Readable == fd \in {"open", "foreign"}

(* What epoll_wait would report now. *)
Ready(w) ==
  {e \in Event : \/ e = "control" /\ cmds[w] # <<>>
                 \/ e = "gps_in"  /\ Readable /\ line = "up" /\ rx > 0
                 \/ e = "gps_hup" /\ Readable /\ line = "hungup"}

(* The gps descriptor served first, and alone. *)
EpollPrefersGps(w) ==
  /\ wpc[w] = "wait"
  /\ \E one \in Ready(w) :
       /\ "gps_in" \in Ready(w) => one = "gps_in"
       /\ events' = [events EXCEPT ![w] = <<one>>]
  /\ wpc' = [wpc EXCEPT ![w] = "dispatch"]
  /\ UNCHANGED <<fvars, svars, cmds, lvars, started>>

(* Both descriptors may be ready; they are then reported in either order. *)
EpollWait(w) ==
  /\ wpc[w] = "wait"
  /\ \E one, other \in Ready(w) :
       /\ Ready(w) = {one, other}
       /\ events' = [events EXCEPT ![w] =
                       IF one = other THEN <<one>> ELSE <<one, other>>]
  /\ wpc' = [wpc EXCEPT ![w] = "dispatch"]
  /\ UNCHANGED <<fvars, svars, cmds, lvars, started>>

(* The event at hand has been handled. *)
After(w) == IF Tail(events[w]) = <<>> THEN "wait" ELSE "dispatch"

HangupEvent(w) ==
  /\ wpc[w] = "dispatch"
  /\ Head(events[w]) = "gps_hup"
  /\ wpc' = [wpc EXCEPT ![w] = "exited"]
  /\ UNCHANGED <<fvars, svars, cmds, lvars, started, events>>

QuitCommand(w) ==
  /\ wpc[w] = "dispatch"
  /\ Head(events[w]) = "control"
  /\ Head(cmds[w]) = "QUIT"
  /\ cmds' = [cmds EXCEPT ![w] = Tail(@)]
  /\ wpc' = [wpc EXCEPT ![w] = "exited"]
  /\ UNCHANGED <<fvars, svars, lvars, started, events>>

(* SessionCommand that reads all bytes waiting and obeys the first; that
   stores SESSION_BEGIN for both commands; that reports nothing; that does
   not report a STOP. *)
CommandTakesAll(w) ==
  /\ wpc[w] = "dispatch"
  /\ Head(events[w]) = "control"
  /\ Head(cmds[w]) # "QUIT"
  /\ cmds' = [cmds EXCEPT ![w] = <<>>]
  /\ started' = [started EXCEPT ![w] = Head(cmds[w]) = "START"]
  /\ g_status' = IF started'[w] THEN "SESSION_BEGIN" ELSE "SESSION_END"
  /\ wpc' = [wpc EXCEPT ![w] = "report"]
  /\ UNCHANGED <<fvars, init, fd, thread, ctl, lvars, events>>

CommandStoresBegin(w) ==
  /\ wpc[w] = "dispatch"
  /\ Head(events[w]) = "control"
  /\ Head(cmds[w]) # "QUIT"
  /\ cmds' = [cmds EXCEPT ![w] = Tail(@)]
  /\ started' = [started EXCEPT ![w] = Head(cmds[w]) = "START"]
  /\ g_status' = "SESSION_BEGIN"
  /\ wpc' = [wpc EXCEPT ![w] = "report"]
  /\ UNCHANGED <<fvars, init, fd, thread, ctl, lvars, events>>

CommandUnreported(w) ==
  /\ wpc[w] = "dispatch"
  /\ Head(events[w]) = "control"
  /\ Head(cmds[w]) # "QUIT"
  /\ cmds' = [cmds EXCEPT ![w] = Tail(@)]
  /\ started' = [started EXCEPT ![w] = Head(cmds[w]) = "START"]
  /\ wpc' = [wpc EXCEPT ![w] = After(w)]
  /\ events' = [events EXCEPT ![w] = Tail(@)]
  /\ UNCHANGED <<fvars, svars, lvars>>

StopUnreported(w) ==
  /\ wpc[w] = "dispatch"
  /\ Head(events[w]) = "control"
  /\ Head(cmds[w]) # "QUIT"
  /\ cmds' = [cmds EXCEPT ![w] = Tail(@)]
  /\ started' = [started EXCEPT ![w] = Head(cmds[w]) = "START"]
  /\ IF started'[w] /\ ~started[w]
     THEN g_status' = "SESSION_BEGIN" /\ wpc' = [wpc EXCEPT ![w] = "report"]
          /\ UNCHANGED events
     ELSE /\ wpc' = [wpc EXCEPT ![w] = After(w)]
          /\ events' = [events EXCEPT ![w] = Tail(@)]
          /\ UNCHANGED g_status
  /\ UNCHANGED <<fvars, init, fd, thread, ctl, lvars>>

(* START or STOP: ignored when the session is already in that state, else
   recorded in started and g_status, to be reported by the next step. *)
SessionCommand(w) ==
  /\ wpc[w] = "dispatch"
  /\ Head(events[w]) = "control"
  /\ Head(cmds[w]) # "QUIT"
  /\ cmds' = [cmds EXCEPT ![w] = Tail(@)]
  /\ LET begin == Head(cmds[w]) = "START"
     IN  IF started[w] = begin
         THEN /\ wpc' = [wpc EXCEPT ![w] = After(w)]
              /\ events' = [events EXCEPT ![w] = Tail(@)]
              /\ UNCHANGED <<started, g_status>>
         ELSE /\ wpc' = [wpc EXCEPT ![w] = "report"]
              /\ started' = [started EXCEPT ![w] = begin]
              /\ g_status' = IF begin THEN "SESSION_BEGIN" ELSE "SESSION_END"
              /\ UNCHANGED events
  /\ UNCHANGED <<fvars, init, fd, thread, ctl, lvars>>

(* status_cb(&g_status): the framework reads the global through the pointer. *)
SessionReport(w) ==
  /\ wpc[w] = "report"
  /\ shown' = g_status
  /\ wpc' = [wpc EXCEPT ![w] = After(w)]
  /\ events' = [events EXCEPT ![w] = Tail(@)]
  /\ UNCHANGED <<fpc, call, want, svars, cmds, lvars, started>>

GpsEvent(w) ==
  /\ wpc[w] = "dispatch"
  /\ Head(events[w]) = "gps_in"
  /\ wpc' = [wpc EXCEPT ![w] = "drain"]
  /\ UNCHANGED <<fvars, svars, cmds, lvars, started, events>>

(* The chunk may end a sentence, and a valid RMC has the framework called with
   what is no status, which leaves it with the last one it was told. *)
ReadChunk(w) ==
  /\ wpc[w] = "drain"
  /\ line = "up"
  /\ rx > 0
  /\ rx' = rx - 1
  /\ \/ UNCHANGED shown
     \/ "latitude" \in Faults /\ shown' \in Status
  /\ UNCHANGED <<fpc, call, want, svars, cmds, line, burst, wvars>>

(* A loop that goes on reading on EWOULDBLOCK. *)
ReadRetries(w) ==
  /\ wpc[w] = "drain"
  /\ line = "up"
  /\ rx = 0
  /\ burst' = 0
  /\ UNCHANGED <<fvars, svars, cmds, line, rx, wvars>>

(* Only a negative read() leaves the inner loop.  On a hung-up line read()
   returns 0 for ever: the loop spins, which is a stuttering step here. *)
ReadWouldBlock(w) ==
  /\ wpc[w] = "drain"
  /\ line = "up"
  /\ rx = 0
  /\ burst' = 0
  /\ wpc' = [wpc EXCEPT ![w] = After(w)]
  /\ events' = [events EXCEPT ![w] = Tail(@)]
  /\ UNCHANGED <<fvars, svars, cmds, line, rx, started>>

-----------------------------------------------------------------------------
(* The serial line *)

(* At 9600 baud the reader is faster than the line: between two moments when
   it finds the line empty, at most RxBurst chunks arrive. *)
LineDelivers ==
  /\ Readable
  /\ line = "up"
  /\ burst < RxBurst
  /\ rx' = rx + 1
  /\ burst' = burst + 1
  /\ UNCHANGED <<fvars, svars, cmds, line, wvars>>

(* The tty is hung up: what it holds is lost, it stays so until reopened. *)
LineHangsUp ==
  /\ "hangup" \in Faults
  /\ Readable
  /\ line = "up"
  /\ line' = "hungup"
  /\ rx' = 0
  /\ UNCHANGED <<fvars, svars, cmds, burst, wvars>>

-----------------------------------------------------------------------------
ClientStep ==
  \/ InitReport \/ OpenSerial \/ SetupTty \/ MakeSocketpair \/ CreateThread
  \/ WriteCommand \/ WriteDropped \/ JoinThread \/ JoinInvalid
  \/ CloseControl \/ CloseSerial \/ Restart

WorkerStep(w) ==
  \/ ThreadEnter(w) \/ EpollWait(w) \/ HangupEvent(w) \/ QuitCommand(w)
  \/ SessionCommand(w) \/ SessionReport(w) \/ GpsEvent(w)
  \/ ReadChunk(w) \/ ReadWouldBlock(w)

Next ==
  \/ qemu_gps_init \/ qemu_gps_start \/ qemu_gps_stop \/ qemu_gps_cleanup
  \/ ClientStep
  \/ \E w \in Worker : WorkerStep(w)
  \/ LineDelivers \/ LineHangsUp \/ NumberTaken

SafeSpec == Init /\ [][Next]_vars

(* Both threads are scheduled: a call that was made goes on, and so does the
   gps thread.  Nobody has to call anything and the line may stay silent. *)
Fairness ==
  /\ WF_vars(ClientStep)
  /\ \A w \in Worker : WF_vars(WorkerStep(w))

Spec == SafeSpec /\ Fairness

-----------------------------------------------------------------------------
(* Safety *)

Live(w) == wpc[w] # "none"

(* A gps thread exists only between the thread creation of gps_state_init and
   the join of gps_state_done, it is the one GpsState.thread names, and it
   reads the socket pair the framework writes to: a cleanup followed by an
   init never leaves two threads behind, and no thread outlives cleanup to
   run callbacks the framework has withdrawn. *)
NoOrphanThread ==
  \A w \in Worker :
    Live(w) => init /\ w = thread /\ w = ctl /\ fpc \in {"idle", "report", "write", "join"}

(* CMD_QUIT is the last byte ever written to a socket pair, and it is there
   only while the framework waits in pthread_join: no command is queued
   behind it and lost. *)
QuitIsLast ==
  \A w \in Worker : \A i \in 1 .. Len(cmds[w]) :
    (Live(w) /\ cmds[w][i] = "QUIT") => i = Len(cmds[w]) /\ fpc = "join"

(* While the gps thread has its session report under way, the global the
   framework is about to read says what this thread stored: g_status is not
   overwritten between the store and the callback (987-988, 999-1000). *)
ReportIsCurrent ==
  \A w \in Worker : wpc[w] = "report" =>
    g_status = IF started[w] THEN "SESSION_BEGIN" ELSE "SESSION_END"

(* Between two reports, the status the framework was told last agrees with
   the thread's own idea of whether a session is under way, fixes and what is
   said with each of them (733) notwithstanding, unless a latitude reads as a
   status. *)
ShownIsStarted ==
  \A w \in Worker : wpc[w] \in {"wait", "dispatch", "drain"} =>
    (started[w] <=> shown = "SESSION_BEGIN")

(* The number of commands in q that ask for something, CMD_QUIT aside. *)
Asked(q) == IF Len(q) > 0 /\ q[Len(q)] = "QUIT" THEN Len(q) - 1 ELSE Len(q)

(* While control[0] is an ordinary blocking descriptor, commands are served in
   the order they were asked for and none is dropped: the last one waiting is
   the framework's last, and once the thread has taken them all, its session
   is what was asked for last.  A termios failure whose closed number control[0]
   gets is the one way to lose a command (905-906, 945, 874). *)
Settled ==
  \A w \in Worker : Live(w) /\ fd # "control" =>
    IF Asked(cmds[w]) > 0
    THEN cmds[w][Asked(cmds[w])] = IF want THEN "START" ELSE "STOP"
    ELSE want = (wpc[w] # "enter" /\ started[w])

-----------------------------------------------------------------------------
(* Liveness *)

(* "tell the thread to quit, and wait for it" (852): the thread obeys and the
   wait in pthread_join ends. *)
QuitIsObeyed == fpc = "join" ~> fpc # "join"

(* A call of qemu_gps_cleanup comes back, however many commands are queued
   before its CMD_QUIT and however busy the line is. *)
CleanupReturns == (fpc = "write" /\ call = "QUIT") ~> (fpc = "idle" /\ ~init)

(* A start that is not taken back begins a session, unless the HAL is being
   closed; a stop that is not taken back ends it. *)
SessionIsServed ==
  /\ (init /\ want) ~> (shown = "SESSION_BEGIN" \/ ~want)
  /\ (init /\ fpc = "idle" /\ ~want) ~> (shown # "SESSION_BEGIN" \/ want)

-----------------------------------------------------------------------------
(* Without faults, and with a framework that does not call init twice, the
   control side implements GpsSession. *)

Phase ==
  CASE fpc \in {"open", "tty", "pair", "create"} -> "opening"
    [] fpc \in {"join", "close", "close_serial", "exited"} -> "closing"
    [] OTHER -> IF init THEN "open" ELSE "closed"

(* Commands in the socket pair other than the QUIT that ends it, and the one
   that has been taken but whose report is still under way. *)
Unserved ==
  IF fpc \in {"idle", "write", "join"} /\ init /\ Live(ctl)
  THEN Asked(cmds[ctl]) + (IF wpc[ctl] = "report" THEN 1 ELSE 0)
  ELSE 0

Session == INSTANCE GpsSession WITH
  phase <- Phase, want <- want, outstanding <- Unserved,
  session <- (shown = "SESSION_BEGIN")

SessionSafe == Session!SafeSpec
SessionFair == Session!Spec
=============================================================================
