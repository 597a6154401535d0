# Verification of the programs in a collection of Android and kernel notes

The repository is a collection of notes on Android and Linux kernel work: prose,
excerpts of kernel and framework code with comments, and some programs that are
complete enough to have a behaviour of their own.  Those are what this project is about:

* `src/u-blox_GPS/gps/gps_qemu.c`, the GPS HAL module that connects the Android
  framework to a u-blox receiver on a serial line;
* `src/linux内核/vibrator驱动.c`, the vibrator driver below
  `/sys/class/timed_output/vibrator/enable`;
* `src/linux内核/attribute_group.c`, a file below `/sys/kernel/i2c_recovery` that clocks a
  hung I2C slave free, together with two users of the same bus: `i2c_transfer` as excerpted in
  `src/I2c/I2c设备3.c`, and the touch screen driver gt811 in `src/工作队列的使用方法`;
* `src/开机动画/分析load_565rle_imagelogo.c`, with which init shows its logo.

Line numbers are those of `gps_qemu.c`, or of the file the section is about.

## 1. Inventory

### GPS HAL, control side (839-1251)

State: `GpsState` (`init`, `fd`, `thread`, `control[2]`, `callbacks`), the global
`g_status`, and in the gps thread `started` and its epoll set.  Operations, called by
the framework's one GPS handler thread: `qemu_gps_init`, `_start`, `_stop`, `_cleanup`.
The gps thread (`gps_state_thread`) waits for command bytes on a socket pair and for data on
the serial line, and calls back into the framework (`status_cb`, `location_cb`,
`sv_status_cb`, `nmea_cb`).

Hard: two threads that share `g_status` and the callbacks without a lock;
commands in flight when the HAL is closed; a writer that blocks on a full
socket pair; a loop that reads the line until it is empty while commands wait;
failures half way through `gps_state_init`; a hang-up of the line.

Correct when: there is never more than one gps thread and none survives
cleanup; commands are obeyed in the order they were given and none is lost; the
status the framework was told last agrees with what the thread does; cleanup,
start and stop have their effect in the end.

### GPS HAL, NMEA framing (807-828)

State: `in`, `pos`, `overflow` of `NmeaReader`.  Operation: `nmea_reader_addc`, once per
byte.  Hard: the buffer at its limit, bytes and newlines lost on the line, a
thread that starts in the middle of a line.  Correct when: what reaches the
parser is a whole line, and damage does not spread to lines that are sound.

### GPS HAL, sentences to locations (253-468, 512-759)

State: `fix` with its `flags` and `timestamp`, the date (`utc_year`, `utc_mon`, `utc_day`),
`callback.location_cb`.  Operations: the sentences GGA, GLL, RMC, GSA, and the session
commands, which install and remove the callback.  Hard: sentences lost or
damaged in any combination; the time of one sentence with the date of another;
a session interrupted between two sentences.  Correct when: a location is made
of values that belong together, what it vouches for is new, and it is told only in a session.

### GPS HAL, sentences to satellite status (537-661)

State: `sv_status` and `sv_status_changed`.  Operations: GSA and GSV.  Hard: a list that is
collected over several sentences, any of which may be lost; the bounds of the
list; shifts by numbers that are missing.  Correct when: the list fits, belongs
to one cycle of the receiver, agrees with its masks, and is complete when
nothing was lost.

### GPS HAL, tokenizer and numbers (76-191)

Pure: a sentence is cut at its commas into at most 16 tokens, which `str2int` and
`str2float` read.  Hard: what is optional at both ends (`$`, checksum, CR), sentences cut
short, more fields than tokens.  Correct when: token `i` is field `i`.

### GPS HAL, time zone (226-251, 318-328)

`utc_diff` is worked out when a gps thread begins and added to every timestamp.
Hard: the turn of a year between the two clocks.

### GPS HAL, interface table (1254-1320)

Functions that return constants.

### Vibrator driver and the timed_output class

State: a mutex, a high resolution timer, a work item, a wake lock, a GPIO.
Operations: `mx6_motor_enable` from any number of threads; the timer's function; the work.
Hard: a new write against what is left of the last one.  Correct when: the
motor never runs without the wake lock, a stale timer or work item never
disturbs a new vibration, a timed vibration ends, and no writer is stuck.

The class above it keeps a pointer to the class, a count that numbers its
devices, and for each device its file and its driver data.  Operations:
`timed_output_dev_register`, `_unregister`, the class's init and exit, `enable_show`, `enable_store`.  Hard: users of
the file at any moment of registering and unregistering, and failures at every
step.  Correct when: whoever gets into a driver's function finds what it needs,
and a driver that failed or withdrew leaves nothing behind.

### I2C bus recovery (`attribute_group.c`)

State: the global `foo`, the configuration of the two lines of each of two adapters.
Operations: `foo_store` from any number of threads, the module's init and exit.  Hard: `foo` is shared without
a lock and read again after every call; the switch of the lines may fail, both ways; the number of pulses.  Correct when: the
lines are back with the controller when the store is over, and the slave has let go.

### I2C transfers and the touch screen (`I2c设备3.c`, 238-257; `工作队列的使用方法`, 58-101)

State: each adapter's `bus_lock`; the depth to which the touch screen's interrupt is disabled, its
pending work.  Operations: `i2c_transfer`, by threads that may sleep and others that must not;
`gt811_ts_isr` and `gt811_ts_handler`.  Hard: a work with three transfers, each of which may fail; touches while the interrupt is
disabled; a recovery that does not take the mutex.  Correct when: one transfer per adapter, an
interrupt that is disabled exactly while its work is due or runs, and a run of the work for every touch.

### Boot logo (`分析load_565rle_imagelogo.c`)

State: files and mappings of init, the console, the place in the file and in the framebuffer.
Operation: `load_565rle_image`.  Hard: any call may fail half way; any file, cut anywhere; sizes
in bytes, halfwords and pixels.  Correct when: it stays inside its mappings, shows what the file says, and leaves
nothing behind when it fails.

### The rest

`PROJECT.json` lists every other component, with the reason why it is left out: excerpts of the driver core
and UART layers whose state is elsewhere, small examples, and prose.

### How the parts interact

```
framework ──init/start/stop/cleanup──> GpsControl ──command bytes──> gps thread
    ^                                                                   │
    │                         serial line ──bytes──> NmeaReader ──sentences──> GpsFix
    └──────status_cb, location_cb, sv_status_cb──────────────────────────────> GpsSv

users ──open, read, write──> file "enable" (TimedOutput) <──register, unregister── drivers
                                │
                                └──> mx6_motor_enable ──> hrtimer ──> work ──> motor off   (Vibrator)

touch ──falling edge──> gt811_ts_isr ──> work ──> i2c_transfer ──bus_lock──> adapter ──> slave   (I2cBus)
                                                                               ^
writers ──> /sys/kernel/i2c_recovery/i2c_unlock ──takes the lines─────────────┘           (I2cRecovery)
```

The gps thread handles one command or one chunk of bytes at a time, so that
framing and parsing are sequential: what interferes with them is the order in
which sentences and commands arrive, and that is left free in `GpsFix` and `GpsSv`.
`GpsControl` keeps of the line only that there is something to read, and of a
sentence only that it may call `status_cb`.

## 2. Modules

| module | models | kind |
|---|---|---|
| `GpsSession` | what the HAL promises about sessions | abstract specification |
| `GpsControl` | framework thread, gps thread, socket pair, line | state machine, two threads |
| `GpsControl_proofs` | | theorems |
| `NmeaLines` | which lines become sentences | abstract specification |
| `NmeaReader` | `nmea_reader_addc` over a lossy stream | state machine |
| `NmeaReader_proofs` | | theorems |
| `GpsFix` | sentences, commands, locations | state machine |
| `GpsFix_proofs` | | theorems |
| `NmeaTokenizer` | tokens and numbers | operators, no state |
| `GpsSv` | GSA, GSV, satellite status, of sentences that are numbers | state machine |
| `GpsSvLines` | the same sentences as characters; uses `NmeaTokenizer`, implements `GpsSv` | state machine |
| `GpsSv_proofs` | on all three | theorems |
| `TimedOutput` | class, drivers, users of their files | state machine, many threads |
| `TimedOutput_proofs` | | theorems |
| `Vibrator` | writers, timer, work | state machine, many threads |
| `Vibrator_proofs` | | theorems |
| `I2cRecovery` | writers of the recovery file, lines, slaves | state machine, many threads |
| `I2cBus` | `I2cRecovery` with transfers, interrupt and work | composition |
| `I2cBus_proofs` | on both I2C modules | theorems |
| `BootLogo` | `load_565rle_image` | state machine |
| `LogoPicture` | what the picture ought to be | property of `BootLogo` |
| `BootLogo_proofs` | | theorems |
| `MC*` | constants for TLC | |

**GpsControl.**  `fpc` is where the framework thread is inside a call, `wpc[w]` where gps
thread `w` is; a thread and the socket pair made for it have the same identity.
`events` is what one `epoll_wait` returned and has not been handled, in either order.  A session
command is two steps, as in the code: the store to `started` and `g_status`, then `status_cb`, which
reads the global.  `fd = "stale"` is a descriptor that a failed `cfsetispeed` or `tcgetattr` has closed while
its number is kept.  The next descriptor made in the process gets that number: `control[0]`
(`fd = "control"`), which the gps thread then makes non-blocking in the belief that it is the serial line (945, 905-906), so that a write to a full
buffer drops its byte (`WriteDropped`) where it would otherwise block; or a file of another thread
(`"foreign"`, `NumberTaken`), which the HAL reads from and, in the end, closes (863, `CloseSerial`).  `want` is what was asked for last, dropped or not.
`shown` is the last of the five statuses of `Gps结构体分析` the framework was told: what it reads after an RMC (733) is 16
bits of a latitude, which is none of them unless the fault "latitude" is allowed.  `Restart` is the process being started again after `exit(0)` or a crash in
`pthread_join`.  `Faults` says which failures may happen, and `Reinit` whether the framework calls init
again without cleanup, which `GpsLocationProvider.enable` never does
(`src/u-blox_GPS/GPS启动流程及数据流向分析（基于4.43）` quotes its `if (mEnabled) return`).

**NmeaReader.**  A byte is told apart by its place in the line it was sent in, so that the
buffer's contents say which bytes of which line are in it.  `off`, `broken`, `count`, `skip`, `fate` and `intact`
are history: they say what was sent and received, and the code does not see them.

**GpsFix.**  A value is the epoch it was measured in.  A sentence is a record that says which of its
fields are there; the operators `nmea_reader_update_*` are functions on the part of `NmeaReader` they change.
The branches without `Ublox_6M` are not modelled: `Android.mk` defines it.  A report carries, besides what
`location_cb` is handed, the history `news`: for each value the epoch in which the line last brought it since the last report of an RMC.

`utc_diff` is computed in a calendar in which one day begins a new year (`NewYear`) and the year before is a
leap year; a gps thread begins at one of the times in `HostClock`, in a host whose local
time is `Zone` epochs ahead.  `bornAt` and `complete` are history.

**NmeaTokenizer.**  Characters are small numbers: digits stand for themselves, separators have
names, letters are not told apart.  A token is a pair of positions, as in the
code.  `Field` says what the tokens are meant to be, by counting the commas in front.

**GpsSv.**  A sentence is the numbers of its fields, of which the parser gets those up to where it was cut (`Read`); a number that
was cut may have lost a digit.  Satellite `k` has number `k`; an entry of
the list remembers the cycle it was sent in.  The bit that a shift by -1 sets is a free choice.
`cycle`, `view`, `next` are the receiver's; `whole`, `uncut` and `first` are history.

**GpsSvLines.**  The receiver's sentences are spelt out, with numbers of one digit, and may lose their
end: `line` is what was received, and `Parse` takes it to pieces with `NmeaTokenizer` and hands the numbers to `GSA` and `GSV` of `GpsSv`.
`ReadsItsFields` says that what is read of a sentence is what `GpsSv` allows to be read of its fields: sending is a stutter of
`GpsSv`, and parsing is its step.

**TimedOutput.**  `pc[d]` is where a driver is between loading and being gone, `at[u]` where a user is
in `enable_show` or `enable_store`.  "oops" is a null or error pointer that was followed: the thread
stops there and keeps what it holds.  Creating a class, a device or a file may fail; the class may be built in or a
module.  `Motor` is the vibrator's driver, one element for each time its module is loaded, which leaves by `mx6_motor_exit`; other drivers leave by
`timed_output_dev_unregister`, which nothing in the repository calls: it is the interface the class exports.  A vibrator module that is
"gone" holds the class module no longer, though its device is still registered (127): `timed_output_exit` may follow, the device
is an `orphan` of a class that was destroyed, and the next class numbers its devices from one again.  `number` is the number a device was created
with and `index` the field of its driver, which 127 overwrites; `device_destroy` finds a device by `index`, among those of the class.

**Vibrator.**  One label per call inside `mx6_motor_enable`; `mx6_vibrator_off` is two steps, whoever calls it.
`cancel_work_sync` is two: take the work off the queue, wait for it to finish.

**I2cRecovery.**  `reg[w]` is the number a writer has in a register: it is kept from line 125 to the call in 139, and what is
worked out of it (`sda`, `scl`) to the end; `foo` itself is read by both calls of
`gsbi_qup_i2c_gpio_config`.  `held[a]` is the number of pulses after which the slave lets go.  `clean` and `spoilt` are history: a
store is clean while it has had the file to itself and its lines could be switched; an adapter is spoilt by a
store that was not.  A number below `LeastFoo`, which the code refuses anyway, is taken for `LeastFoo`.

**I2cBus** extends `I2cRecovery` by the mutex of each adapter, the threads in `i2c_transfer`, and the touch screen on adapter 0.
`Recovery` is any step of `I2cRecovery`, and remembers which transfers it took the lines from: such a transfer, and
one whose slave has hung up, fails.  `Capable` are the adapters with a `master_xfer`; a transfer on another gets `-ENOSYS`.
`unread` is history: this run of the work has not read the touch.  `master_xfer`, the interrupt core and the work queue are the environment.

**BootLogo.**  One action per call that may fail, and one per round of the loop.  A file is a sequence of runs and a rest of up to three bytes;
the framebuffer is an offset in halfwords and the sequence of the words written, which are pixels at 16 and at 32 bits.  At 24 they are
not (161-162 write four bytes for three), and once the loop is behind the mapping it may crash at any round (`Paint`).  `LogoPicture`
says, for 16 and 32 bits, what the file means without the loop: its runs, expanded, as far as they fit, in the colour nearest to that of the file.

The definitions marked as mutants, or described as a variant of the operator
below them, are not part of the model: each is a plausible error in the
operator it stands in front of, and replacing the operator by it makes the
property named in `PROJECT.json` fail.

## 3. Runs

| run | bounds | shows |
|---|---|---|
| `control` | 2 threads, 3 command bytes, bursts of 2, no faults | `ReportIsCurrent`, `ShownIsStarted`; cleanup returns, `SessionIsServed`; implements `GpsSession` with its fairness |
| `control_faults` | as above with 2 command bytes, all faults, repeated init | `NoOrphanThread`, `QuitIsLast`; `Settled`, which leaves out a `control[0]` that drops bytes |
| `control_hangup` | line may hang up | **violated**: `QuitIsObeyed`; the thread spins in the reading loop |
| `reader` | buffer 3, shortest sentence 2, lines up to 5 | `SentenceIsLine`, `DamageIsLocal`; implements `NmeaLines` |
| `fix` | sentences that lack a field, or whose date is malformed; days of 2 epochs, 2 days, New Year between them | `CoordinatesTogether`, `TimeNotAhead`, `TimeIsThatOfPosition`, `OnlyNewsAfterRMC` |
| `fix_session` | complete sentences | **violated**: `LocationOnlyInSession` |
| `sv` | 0, 1 or 5 satellites (2 GSV), 2 cycles, every sentence whole, cut short anywhere, or lost | `TokensAreFields`, `ListFits`, `ListIsOfThisCycle`, `CompleteReport`, `MaskMatchesList`; implements `GpsSv` (`ReadsItsFields`) |
| `timed_output` | the vibrator, loaded up to twice, another driver, 2 users, drivers loaded while the count is below 2, every failure | `ServedInside`, `NothingLeft`, `IndexIsUnique`, `NullOnlyInWindow`; `UnregisterReturns` |
| `vibrator` | 2 writers, values -1, 0, 1 | `MotorHoldsWakeLock`, `ArmedMeansOn`, `RestMeansDone`; `WriteReturns`, `TimedStops` |
| `recovery` | 2 writers, numbers 1 to 3 or none, 4 pulses | `PinsRestored`, `Freed` |
| `i2c` | 1 writer, touch screen and a caller that must not sleep, 2 adapters, one without `master_xfer`, 2 pulses | `BusExclusive`, `IrqBalanced`; `TouchServed` |
| `logo` | files of up to 3 runs, screens of 0 and 4 pixels, 16, 24 and 32 bits deep | `FailureUndone`; `InsideMaps`, `PictureIsFile` at 16 and 32 bits; `Returns` |

The type invariants, `BufferIsPrefix` (what the reader's buffer holds) and `Freed` among the transfers of `I2cBus` are not checked by a run: they
are proved (section 5).

**Why the bounds are enough.**  Two identities of threads let a new thread and the
one before it coexist, which is what `NoOrphanThread` is about.  Two command bytes make `write` block and
let a session command and `CMD_QUIT` be in the socket together; three leave room for a
START and a STOP before it.  In the reader, a buffer of three with lines of up to five
has lines that are shorter than a sentence, that fit, that fill the buffer to
the last byte, that are one too long and longer.  Two days of two epochs put
midnight, and New Year, in the middle of a run; of the two times at which a gps
thread may begin, one is when the host's time zone is already in the new year.  Five satellites need two GSV sentences, the
second of them partly filled, and two cycles let the list of a cycle whose end was lost meet one whose
beginning was; sentences cut at every place give every number of tokens from two to twenty.
Two drivers can register at the same time, a second vibrator meets the device the first has left behind, in the same class or in a
later one, and two users let one be inside a driver while the other has only opened its file.  The values of the vibrator are one of each sign.
Two writers of the recovery file overlap in every way two can, with numbers for either adapter and one for none; the number of pulses
matters by being enough or one too few.  In `i2c` the interference comes from any one writer, so that one is enough.  The
logo's runs are empty, fit, fill the screen, or do not fit, alone and behind others.

**Where the system may stop** (`CHECK_DEADLOCK FALSE`): in `control_faults` and
`control_hangup`, where a gps thread that spins, or has gone, leaves the framework waiting for ever; in `sv`,
when the last cycle is over; in `logo`, when the function has returned; in `timed_output`, when the device numbers are used up.

**Fairness.**  In `GpsControl` each thread is scheduled (weak fairness on its next step): nobody is
obliged to make a call, and the line may be silent.  That the reading loop
comes to an end needs a bound on the data: at 9600 baud, set in line 1110, a reader that
handles a chunk in less than the time it takes to arrive finds the line empty
after a few chunks (`RxBurst`).  In `TimedOutput`, threads that
are in a call are scheduled.  In `Vibrator`, timers expire, work is run, threads are scheduled, and the mutex
is handed to its waiters in turn (strong fairness on `Lock`).
In `I2cBus`, interrupts are delivered, the work queue runs, a transfer ends (controllers time out), and a mutex that becomes free again and
again is given to a waiter in the end (strong fairness on `Lock(Touch)`, as `mutex_lock` queues its waiters);
nothing is asked of the writers or of the other caller.  In `BootLogo`, init runs on.

## 4. What the violations show

1. `control_hangup`: a serial line that hangs up while the loop in 1010-1024 is reading makes `read` return 0 for ever;
   only a negative result leaves the loop.  Cleanup then waits in `pthread_join` for good (852: "tell the thread to quit, and wait for it").
2. `fix_session`: RMC installs `location_cb` anew (728) and reports although no session is
   under way, against 927-930 ("when started, messages [...]").

Only disagreements that decide what a session does have a run.  Smaller ones are visible in the modules:

* RMC passes the address of `fix.flags` as that of a `GpsStatus` (733); the framework reads a
  status that is none of the five that `src/u-blox_GPS/Gps结构体分析` lists (`"garbage"` in `GpsFix`), or, if the latitude is such, a wrong
  one: the fault "latitude" of `GpsControl`, under which alone `ShownIsStarted` fails for a framework that enables once.
* 2000 is added before the test for -1 (344-346), so that a date with a malformed year passes the test for a
  "date not properly formatted" (`"bad_year"` in `GpsFix`).
* `MAX_NMEA_TOKENS` (80) is 16, a full GSV has 20 tokens; the fourth satellite of each is
  listed as number 0 (`src/u-blox_GPS/GPS基础知识`, line 87: up to four satellites in a sentence).
* `fix.accuracy` is a float (`Gps结构体分析`, 48) and 462 compares it with the double 99.99, which it never equals: the receiver's
  "unknown" is flagged as an accuracy of 99.99 (466, `nmea_reader_update_accuracy` of `GpsFix`).
* `attribute_group.c` says that an integer written to its files "can be later read out of" them (63-64): `foo` is the number less one.
* The driver's comment on `MAX_TIMEOUT` (20) says that the motor is on for at most 10 s.  A negative value switches it on without a timer
  (48-57; a positive one may take 45 ms more than that, 52): it then stays on, and the wake lock held, until somebody writes again.  `RestMeansDone` neither asks for that nor excludes it.

Things that no document of the repository speaks about, and that are therefore not runs
of their own, are part of what the modules model, and the properties say so:

* `mx6_motor_exit` registers its device again (127 of the driver), so that the file outlives the code behind it (`Removed` in
  `ServedInside`), and may outlive its class (`InClass` in `IndexIsUnique`).
* An access between the creation of the file and `dev_set_drvdata` follows a null pointer (`NullOnlyInWindow`).
* A termios failure leaves the HAL with the number of a closed descriptor: commands may be dropped (`fd # "control"` in `Settled`), and a
  descriptor of somebody else be closed (`CloseSerial`).
* The fix handed over at a START is told again by the next START or RMC, as its flags stay set (284-291); `OnlyNewsAfterRMC` is about
  what an RMC has told.
* A gps thread that begins while only one of local time and UTC is in the year after a leap year is a whole day off (`SameYear` in
  `TimeIsThatOfPosition`).
* Two writers of the recovery file that overlap may leave an adapter without its controller (`spoilt` in `PinsRestored`).
* gt811 does not try again when its wakeup or its read fails (80-87): the touch is lost (`unread` in `TouchServed`).
* A screen of 24 bits per pixel is painted with 32: the picture is wrong, and the loop leaves the mapping (the depths excepted in
  `InsideMaps`, `PictureIsFile` and `Returns`).

## 5. Theorems

The modules named `_proofs` prove, for every value of the constants that the modules' assumptions allow, what the runs check on small instances.

*Control side.*  `Invariance` is the core: the inductive invariant relates `fpc`, `wpc`, `thread`, `ctl` and the contents of
the socket pairs.  `NoOrphanThread` by itself is not inductive: that a thread that is alive is the one
being joined needs `thread = ctl`, which needs where in the initialisation the
framework is.  `OneThread`, `NothingAfterQuit` and `CommandsServed` hold with all faults and repeated inits, the last of them while `control[0]` blocks; `StatusCurrent` needs a
framework that does not repeat init; `StatusTrue` needs in addition that no latitude reads as a status, and allows all other faults and any sentences; `ImplementsSession` (the safety
part of what `SessionFair` states) is about a system without faults, in which the receiver may send what it likes.

*Framing.*  The inductive invariant says that the buffer is empty while `overflow` is set and
otherwise holds as many bytes as were received since the last newline, and
that these are the places 1, 2, ... if none was lost.  `ImplementsLines` maps each byte to a step of
`NmeaLines`, or to a stutter if it was lost.

*Vibrator.*  The theorems hold for any number of writers and any values.  The mutex makes one writer visible to the device
at a time (`Stage`, `Asked`), and the invariant has two halves.  `Cancelled` and `Progress` say what a writer has
behind it: it stops the timer, then the queued work, then the running work, and nothing can start one
of them again once the one before it has stopped.  `OneEnd` and `OnItsWay` say that a timed vibration is in one place at a time,
the timer, the queue or the work, and that while no writer is at work the device is on its way to what the
last one asked for.  `RestMeansDone` alone is not inductive: it says nothing of a device that is not at rest.  What it says of one
at rest is that the wake lock goes with the motor, and that a value of 0 or more has ended; after a negative one the motor may be on for ever.

*timed_output.*  Any number of drivers and users.  What exists of a driver is a function of where it is in registering
(`Steps`), and an access under way pins its driver to the labels where the file exists or is being
drained (`Accesses`).  `IndexIsUnique` needs that the class outlives every number in use (`Numbers`): the count starts again
only when a class is made, which happens while `timed_output_class` is null, and it becomes null again only after
every driver has withdrawn, or its module has gone and left a device behind, which is of no class from then on.
That is also what makes a device that was created exist, since `device_create` follows the class pointer.
The bound `MaxIndex` is a guard of the model; no step of these proofs uses it.

*Locations.*  Any receiver, any day length and time zone.  The invariant is about the part of `NmeaReader` that a sentence
changes, `r`: `Typed`, `Paired`, `Current` (what a flag vouches for is the latest the line brought since the last RMC report), `NotAhead` and `Timed` (the
time of day is that of the position).  One lemma for each `nmea_reader_update_*` says which of them it keeps and what
it adds, and each sentence composes the lemmas in the order of its calls.  `TimeNotAhead` needs that the stored *date* is not ahead
either; that in turn needs that a time of day and a date of the same day never exceed the present epoch, which is
arithmetic about `\div` (`DayFacts`, `DayUnique`, `Multiples`).  `SecondsFacts` and `DiffFacts` show that the
calendar of years with 365 days yields the time zone, or a day more or less at the turn of a leap year.

*I2C.*  For any writers, numbers and pulses, `IInv` says that a clean store is the only one under way, that its number is still in `foo`,
that the lines are its own from the first switch to the last, and that pulses given and pulses missing never exceed `Pulses`.
`PinsRestored` is not inductive without the first two.  The second half of the module reuses that invariant for the steps of `Recovery` and adds the mutex and the interrupt,
which are related by where the interrupt handler and its work are.

*Logo.*  What is open, what is mapped and what the console shows are functions of where the function is (`pc`), and in the loop the bytes read and to be read are the
size of the file, the pixels painted and left the size of the screen.  That gives `InsideMaps` and `FailureUndone`.
`PictureIsFile` compares the pixels with the runs of the file, for which the invariant must say how far the loop is: `Drawn` holds the
place in the screen where each run painted so far ends (`end`) and says that the pixels between two such places show the colour of
their run.  `PictureOK` says when it holds, and that the loop only stops at the end of the file or at a run without room: what was painted is then the longest
sequence of whole runs that fits.  The colours are arithmetic: a channel cut down to five or six bits differs from the file's by less than a step.

*Satellites.*  `SvInv` holds for any number of satellites, any cuts and losses, and any limit on the tokens.  Of its parts `ListFits` and
`MaskMatchesList` are what the runs check; `ThisCycle` adds to `ListIsOfThisCycle` that the list is no longer than the view, and that without a cut number
it names only satellites the sentences so far have described, which is what keeps two entries from having the same number; `WholeList` says of a cycle that lost nothing
how long the list is after each sentence and who is in each place; `Reported` ties the report to the list.
`CompleteReport` follows from the last two if at least sixteen tokens are kept (`MAX_NMEA_TOKENS >= 16`; the code keeps sixteen, line 80), since
the number of the third satellite of a sentence is token 12, and its signal strength token 15.

*Tokens.*  `FieldsAreTokens` is about any sentence of any length, not only those the receiver of `GpsSvLines` sends: if what lies between
`Begin` and `End` is payload and commas, and nothing outside is, the tokens the loop makes are the fields that counting commas gives.
`WellFormed` states this hypothesis; `LineTokens` shows that it holds of everything that is received, a cut inside the checksum excepted,
which leaves part of the checksum in the last token.
The induction over the positions is one over sets of numbers: the positions for which the claim holds are a set, and a set
that has 0 and with each number the next has all of them (`SetInduction`, from the fact that `Nat` is well founded), so that no theorem with an operator as parameter is used.  A recursive function of
the model is replaced by a function that satisfies the same equation and is built in the same way (`TokensUnfold`).

*Characters.*  `ReadsItsFields` is proved step by step.  `Columns` says where in a spelt out sentence each field stands; `Left` what
of it is there after a cut.  From the two, each token is its field, empty, or the last one with the beginning of the checksum behind it
(`FieldsLeft`), and the number read of it is one that `Read` of `GpsSv` allows (`GSANumbersRead`, `GSVNumbersRead`).  `LineInv` says that what is waiting
to be parsed is such a sentence of the present cycle.  With that every step of `GpsSvLines` is a step of `GpsSv` or a stutter, so that
what is proved over `SvSpec` holds over `Spec` (`LinesInvariance`, `LinesReport`).  The one assumption is that the receiver sees at most nine satellites,
numbers being spelt with one digit (`DigitAssumption`).

Only model-checked: all liveness (`CleanupReturns`, `SessionIsServed`, the fairness of `SessionFair`, `WriteReturns`, `TimedStops`, `UnregisterReturns`, `TouchServed`, `Returns`), since
the prover does not handle ENABLED, and the two runs that expect a violation.  No safety property of a passing run is left to TLC alone.

## 6. Not modelled

Checksums (the code never verifies them), coordinates, numbers of several digits, a time zone that changes, the
branches without `Ublox_6M`, `nmea_cb` (which hands the sentence through), the constant functions of
the interface table, descriptors that leak (`epoll_fd` is never closed, 1034-1036), callbacks that a repeated init overwrites (1193; the framework passes the same ones), `mx6_get_time` (which reads the timer), `foo_show`, the touch points gt811 decodes, and the
components with status `not_modelled`:

* `auto_link_bus.c`, `creat_dev.c`, the virtual touch screen and the kernel timer example are short straight
  lines of calls into a driver core that is not here, with nothing of their own running beside them: a model would repeat their order.  What
  is delicate in them is a registration that is unregistered although it failed (`auto_link_bus.c`, 73-76), results nobody looks at (`creat_dev.c`, 76), an
  input device that is freed after it was given up (114), and a timer that arms itself again while `del_timer` does not wait for it (`src/函数/linux定时器使用`, 88);
* the UART, platform bus, sysfs and Android framework notes are excerpts without the state they work on;
* the rest is prose, scripts and data.

## 7. Plan

Done: the modules of section 2.  Left:

1. The composition of `TimedOutput` and `Vibrator`: the module's exit against a timer that is armed.
2. The safety parts of the liveness arguments, as invariants (who waits for whom), proved where TLC now only checks the conclusion.
