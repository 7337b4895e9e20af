# A TLA+ development for the UCTRONICS smart robot car

The program in `src/C/src` drives a four-wheeled robot car from a Raspberry Pi:
a TCP server takes commands from a phone app or from Scratch, an ultrasonic
sensor watches for obstacles, three line sensors and an IR remote are polled, and
all of them drive the motors through one shift register. `src/mjpg-streamer-experimental`
is a camera streamer that runs beside it as a separate process, kept alive by
`src/mjpg-streamer.sh`.

This directory holds TLA+ models of both, TLC configurations that check them on
small instances, and TLAPS proofs of the most important invariants for every
instance.

## 1. The system

Three threads run in the car program (`remoteserver.c`, `main` at line 133):

    phone / Scratch --TCP--> main --+                  +--> four motors
    ultrasonic sensor -----> fun1 --+--> carstate,     |
    line sensors, IR ------> fun2 --+    disWarning, --+--> DCMotorRun --> shift register
         (getIR: interrupt thread)       done, buf     +--> ws2811 LEDs, servos, beeper

No mutex is used anywhere in the car program. The threads share globals, the bit-fields of
`struct motionstate carstate`, the file-static `latch_state`, and GPIO pins.

| Component | State | Operations | What is hard | What makes it correct |
|---|---|---|---|---|
| Motor driver (`motordriver.c`) | `latch_state`; the pins; the board's shift register | `ControllerInit`, `DCMotorRun`, `latch_tx`, `go_*`, `stop` | read-modify-write and bit-banging by three threads; the order of the two edits of a reversal | a call that no other overlaps acts atomically on its motor and on nothing else, whatever races came before, and no other motor is left with both inputs high |
| Motion and mode control (`remoteserver.c`: `fun1`, `fun2` and the handlers they and `main` call) | `carstate` bits, `disWarning`, turn flags | `updateCarState`, `updateCarMotion`, `PhaseScratchCmd`, `trackModeWork`, `avoidance`, `turn`, `clearFlag` | three writers of two bytes; tests that are stale when acted on; a turn that can be cut short | a stop stops, an obstacle stops, a mode ends when it is told to, a turn ends |
| TCP command server (`main`) | listening socket, `newsockfd`, the read buffer, speeds, colours | accept, read, dispatch, hang up | messages cut and joined by TCP, stale bytes in the buffer, failed accept, descriptors never closed | app commands, and messages that are read whole, are carried out as they were meant, once and in order; the next client is served |
| Distance and alarm (`fun1`, `disMeasure`, `beepWarning`) | three-sample filter, `disWarning`, statics of `beepWarning`, the beeper pin | measure, decide, warn, beep | wild readings, one pin for two threads, time slices that are missed, power-off | the two smaller of three readings decide; the beeper is not left on |
| IR receiver (`getIR`, `IR_update*`) | `buf[4]`, `done` | shift a bit in, report a frame, run it | interrupt thread against `fun2`; signal lost in a frame | no command is made up, none gets lost |
| Camera servos | servo bits of `carstate`; three copies of two angles | three functions with their own limits | limit tested before the step; two threads on one bit | angles stay within limits |
| Power-off and SIGINT | `poweroffFlag`, sockets | `exit_UCTRONICS_Robot_Car`, `INThandler` | may happen anywhere in a manoeuvre, an alarm, a transfer | nobody is accepted any more, the beeper falls silent |
| Software PWM | an `int` time stamp per motor | `mySoftPwmWrite1-4` | wrap of a 64-bit time in an `int` | duty is honoured |
| LED strip (`ws2811.c`) | memory of the GPU, pixel buffer, time stamp, DMA engine | init, render, wait | half-way failures; rendering by three threads against a running DMA; the DMA outlives the program | a failure gives back what it had; memory is not taken from under the DMA; the LEDs recover from races |
| Pi support (`mailbox.c`, `dma.c`, `pwm.c`, `pcm.c`, `rpihw.c`) | -- | ioctl wrappers, register tables | -- | pure I/O and data |
| mjpg-streamer (`cam_thread`, `send_stream`, `setResolution`) | frame buffer under `db`, `db_update`; `streamingState`; a thread per client | grab, publish, wait, copy, send | missed and unasked wake-ups; a client's thread closes the camera that `cam_thread` uses | each frame is sent whole; nobody waits for ever |
| `mjpg-streamer.sh` | the server process, its log, two check tasks | start, stop, watch | tasks see the server only through `ps` and an old log | a server stopped with its tasks stays stopped, a watched one runs |
| `*_Config.sh` | -- | edit system files once | -- | -- |

`PROJECT.json` lists these components with what is modelled of each, and under
`hazards` what is hard to test, each at its line with the properties that cover it.

## 2. The modules

| Module | What it is | Composed with |
|---|---|---|
| `MotorBoard` | what the motor driver promises its threads, when their calls overlap and when not | abstract specification of `MotorDriver` |
| `MotorDriver`, `MCMotorDriver`, `MotorDriverProofs` | the driver, one memory access or pin write at a time | `INSTANCE MotorBoard` with a refinement mapping |
| `CarControl`, `MCCarControl`, `CarControlProofs`, `CarControlStopProofs` | `main`, `fun1`, `fun2` and the globals that move the motors | |
| `RangeFinder`, `MCRangeFinder`, `RangeFinderProofs` | the distance filter and the beeper: `fun1` against `main` | |
| `CommandFeed` | what the TCP server promises its client: a queue, and what it makes of garbled messages | abstract specification of `CommandServer` |
| `CommandServer`, `MCCommandServer`, `CommandServerProofs` | `main` between the socket and the command handlers | `INSTANCE CommandFeed` with a refinement mapping |
| `IrRemote`, `MCIrRemote`, `IrRemoteProofs` | `getIR`, `fun2` and `main` on `buf`, `done` and the servos | |
| `Ws2811`, `MCWs2811`, `Ws2811Proofs` | the LED strip: init, render, DMA, wire, end and restart | |
| `FrameHub` | the mjpg-streamer process | composed in `CameraService` |
| `Watchdog` | `mjpg-streamer.sh` and its check tasks | composed in `CameraService` |
| `CameraService`, `CameraServiceProofs` | both: the script starts and kills the process | `INSTANCE FrameHub`, `INSTANCE Watchdog` |

### MotorDriver and MotorBoard

A `DCMotorRun` call is the sequence of labels `load1 store1 load2 store2` (the
two `latch_state |= / &= ...` statements of a case of its second switch) followed by
`latch_tx`: `latchLow dataLow (clkLow testBit driveData clkHigh)* latchHigh return`.
Every read of `latch_state`, every write of it and every `digitalWrite` is a
step; any number of threads interleave. `ControllerInit` (`latch_state = 0`
and one `latch_tx`) is run by `Main` before any call, as `main` does before it
creates the threads. The board is modelled from the way the pins are used: a
rising edge of CLK shifts DATA in, a rising edge of LATCH copies the stages to
the outputs. Two history variables tell the properties which calls overlapped: `crowded` (some
have since the driver was last idle) and `mixed` (the motors such calls named, until a
call that is alone names them).

Left out: `BRAKE` and wrong motor numbers (`default: return`), the speed pins (software
PWM), the GPIO library itself, and `DCMotorInit`, `ControllerShutdown` and `TestRun`,
which the car program never calls.

`MotorBoard` is what the driver does for threads that take no lock. A call that is invoked while nobody is
inside (`InvokeAlone`) and that nobody joins applies at one instant and drives every motor as it was last
asked to, its own included. Calls that overlap (`InvokeAmongOthers`) promise nothing while they last, not even
about motors none of them names, since each sends all the bits; of the motors they name nothing is known until an undisturbed
call names them (`want` is "unknown"), but the others are right again with the next undisturbed call on any motor.
`MotorDriver!Board` maps the pins to it; the rising edge of LATCH is the linearization point.

The comment "The state of the shift register on the physical board" (`motordriver.c:11`) on `latch_state` is
what an undisturbed call establishes (`UndisturbedCall`); when `main`, `fun1` and `fun2` overlap in the
driver it is false until the next undisturbed call.

### CarControl

One action per branch of a loop or handler; a handler that does several things
to shared state leaves them as a sequence of instructions in `code[t]`, which
other threads may interleave with:

- `Set(f, v)` is `carstate.f = v`: `LoadByte` then `StoreByte` of the byte the bit-field
  lives in. By the layout GCC uses on ARM, `left`, `forward`, `right`, `back` share the
  low byte (with servo bits) and `trackenable`, `autoAvoid`, `stop` the next one (with
  the beeper and speed bits), so assignments of two threads to different bits
  can undo one another;
- `Run(m, c)` is one `DCMotorRun(m, c)`;
- `When(f, name)` is an `if (carstate.f) go_name();` of `IR_updateCarMotion`.

| Action | Code |
|---|---|
| `Listen`, `Accept`, `Hangup` | top of main's loop (`clearFlag`, `stop`), `accept`, and the `n <= 0` exit of the read loop |
| `ReadApp` then `Motion` | `updateCarState` then `updateCarMotion` |
| `ReadScratch` | `PhaseScratchCmd` |
| `Measure`, `Warned` | `fun1`: set `disWarning`, then test `carstate` |
| `TrackTest`, `Sense`, `FollowLine` | `trackModeWork`: loop test, the sensor cases, the two inner loops |
| `AvoidTest`, `AvoidExit`, `AvoidForward`, `AvoidTurn` | `avoidance` and `turn` |
| `IrPoll`, `IrMotion` | `IR_updateCarState`, `IR_updateCarMotion` |
| `getIR`, `Obstacle`, `Tick`, `Exit` | the interrupt, the world, the clock, the end of the program |

Abstractions, all of them on purpose:

- *Distance*: `near` says whether the filtered distance is in (0, 50] cm. *Time*:
  a turn has the phases `now` (same microsecond), `back` (up to 500 ms), `left` (up to
  1 s), `over`; a fresh turn may see any phase at once, because `turn()` takes
  its two time stamps separately and the thread may be descheduled in between.
- *A call of DCMotorRun is atomic here*, although `MotorDriver` shows it is
  not. What is shown of CarControl is therefore about the threads' decisions,
  for runs in which no two driver calls overlap. When two do, they shift
  their bits into one another or lose an edit of `latch_state`, which then is
  no longer "the state of the shift register on the physical board"
  (`motordriver.c:11`); `MotorBoard` says that the damage lasts until the next undisturbed
  call, and for a motor the overlapping calls named until an undisturbed call names it.
- `clearFlag` (456-461) and the remote (563-574) also store servo and speed bits of the two bytes, and these
  stores are left out: they move no motor. They could undo another thread's change
  of the same byte, as the stores of direction and mode bits that are modelled do.
- `updateCarMotion` reads its direction bits at one instant; `disWarning` is
  read when a command is dispatched; `done` and the code in `buf` are read as one.
- Servo and beeper commands, LED writes and the messages `'s'`, `'c'`, `'v'` move
  no motor: they are in `IrRemote`, `RangeFinder`, `Ws2811` and `CommandServer`.
- `lastCmd` is a history variable for the properties.

### RangeFinder

`fun1` is the sequence `measure measure measure decide powerTest (alarm) limitTest
(limitClear limitHigh limitLow)`; `main` turns the same pin on and off when it
listens (`BEEP_OPEN`), for the horn, and in `exit_UCTRONICS_Robot_Car`.

- A reading is any member of `Distances`, in whole cm: `disMeasure` times the echo with
  the wall clock, so a reading may be negative or absurd when the clock is set.
- A period of `beepWarning` (50 ms on, 50 ms off) has the phases `now`, `first`, `second`,
  `over`; `Tick` moves time on, and a fresh period may see any phase at once.
- `ExitCar` waits until `fun1` is out of `beepWarning`: between `poweroffFlag = 1` and the line that
  silences the beeper, `exit_UCTRONICS_Robot_Car` centres the servos for 1.5 s, and a call of
  `beepWarning` takes microseconds.
- `sample`, `horn` and `due` are history variables.

### CommandServer and CommandFeed

`pc` follows `main`: `Listen`, `Accept` or `AcceptFails`, `Read`, one `Command` per byte,
`Hangup`. `unread` is the byte stream of the connection. A read takes any number of bytes
that are there, at most `BUFFER_SIZE`, and its first byte decides what all of them are:
that is the code, and it means that a message of several bytes which is cut in two, or joined to the
next, is misread. The model has both kinds of clients: one that only sends app commands, a byte each, and
one that sends anything (`packets`). It may write before the server has read, and a read
may cut what it wrote; the history variable `garbled` says that the bytes that wait are not one whole message. `Descriptors` counts
down because `newsockfd` is never closed. `receive_colour_table` only lights the LEDs and
`readNowTime` only says which slot it takes, so the slot of a colour is left open.

`CommandFeed` is the promise: a queue of commands, executed from its head, which may
lose its tail when the connection breaks, and beside it a `message` of several bytes. `Take` is a read that gets it whole and alone;
`Join` and `Cut` garble it, and `Misread` may make anything of what is garbled, but only while no
command is pending, and only until all that was written has been read. The refinement mapping is `pending <- ` what
is left of the buffer and then, of a client of the app, the `Meaning` of what has not been read; `message <- ` the
`Meaning` of what is unread of another client, if it is whole.

### IrRemote

`getIR` is run by wiringPi's interrupt thread for every falling edge; a run reads a whole frame.
`NextBit` is one turn of its inner loop; `SignalLost` a time-out of `countLow` in the middle;
`Echo` a run that finds no bits (the edges of the frame just read, a repeat code)
and reports the old command again. Only `buf[2]` (command) and `buf[3]` (its inverse) are used
by `fun2`. Three functions (`updateCarMotion`, `PhaseScratchCmd`, `IR_updateCarMotion`) keep angles
of their own, hence three copies of two angles.

One assumption is worth a word: at most one bit arrives between the two reads of
`(buf[2] << 8) | buf[3]` in `fun2`. A bit takes at least 1.1 ms and the reads are
nanoseconds apart, but nothing in the code forbids a longer gap; were `fun2` held up
for several bits there, it could take two bytes that are both half shifted for a command
nobody sent. All codes of `remoteserver.h` are pairs of a byte below 128 and its complement, which
is why a single bit cannot do it: `PairsAssumption` says so, and `NoCommandMadeUp` is proved from it.

### Ws2811

`ws2811_init` is the sequence of resources in `Steps`, each `Acquire`d or `Fail`ed with what the code
gives back at that point. `ws2811_render`, as called by `GRB_work` and `GRB_MultiColour_work`, is
`Begin SetLed* SetBits* Wait dma_start ReadClock Stamp`, in any number of threads; `SetBits` of two
threads at a time may garble a pixel and its neighbours, which share words. `Send` is the
DMA engine, `Latch` the 300 us of silence after which the LEDs take a new frame. The
GPU's memory and a running DMA outlive `End`; `Restart` starts the program anew.

Left out: the SPI and PCM modes and `ws2811_fini`, which the program never uses, and the values
of colours. The memory that each run of the program leaks is in the model (`gpu`).

### FrameHub, Watchdog and CameraService

| Action | Code |
|---|---|
| `Boot`, `BootFails` | `main` of `mjpg_streamer.c`, `input_init`, `init_videoIn` |
| `Resume`, `uvcGrab`, `GrabFails` | the top of `cam_thread`'s loop, `uvcGrab`, the exit on a failed grab |
| `CamLocks` ... `CamUnlocks` | `memcpy_picture`, size, time stamp and broadcast under `db` |
| `Lock` ... `Send` | `send_stream` and `send_snapshot` |
| `Pause`, `TurnOff`, `GiveUp`, `video_enable` | `setResolution`, in the thread of the client that asked for it |
| `Start` ... `KillServer` | the commands of `mjpg-streamer.sh` |
| `FindsDown`, `LaunchAgain`, `FindsError`, `KillAgain` | the loops of `check_running` and `check_hanging` |

A frame is one of two tags, the other than the one before. `uvcGrab` may publish the previous
picture again (a buffer with hardly anything in it is ignored). `WakeUnasked` is the spurious
wake-up POSIX allows. `GrabFails` stands both for a camera that is unplugged and for `setResolution`
closing the device while `cam_thread` uses it; either ends the process. The script sees the server
through `ps` and the last two lines of the log: `log` counts the lines written since the
last error. `CameraService` has the process and the script take turns; a step of the script may
start the process (`Hub!Stays` then boots it) or kill it (`Hub!Ends`).

`stop` (79, 84) finds what it kills by `ps aux | grep $0 | grep start | ... | grep -v ${own_pid}`. It passes over a
check task that was started under another name of the script (`./mjpg-streamer.sh` and its full path, as in the
crontab line at its top), and over any process whose pid has the script's own in it as a
string. `KillTasks`, `KillServer` and `KillAgain` therefore kill any part of what is there; the history
variable `missed` says that a task was passed over, and `stopped` that the last command was a stop that passed
over nothing. The comment "stop the script running check task" (78) does not hold of a stop that misses
`check_running`: the server runs again within two seconds after "stopped".

## 3. Model checking

    tlc -config <cfg> <module>

| Run | Instance | What it shows |
|---|---|---|
| `driver_one_thread` | 1 thread, 4 motors, 8 bits wired as in `motordriver.h` | calls in sequence are atomic and leave the other motors alone (`MotorBoard`); no motor has both inputs high |
| `driver_two_threads` | 2 threads, 1 motor, 2 bits | `MotorBoard` again: a call nobody overlaps works, whatever races came before; every call returns |
| `car_manual` | app commands 0, 1, 3, 4, 5, Scratch 2, 5, obstacles | stop and obstacles stop the car, it stands while waiting for a client |
| `car_avoid` | app commands 5, 17, obstacles | stop and a lost client end avoidance in any race; turns end; the car goes on |
| `car_track` | app commands 5, 11, 12, obstacles, all eight readings of the line sensors | a tracking car that does not go on losing its line stops at a lasting obstacle; a lost client who was not tracking leaves it standing |
| `car_remote` | two IR buttons, SIGINT | pressing stop repeatedly stops the car |
| `car_stop_in_tracking` | app commands 5, 11 | *violation*: see the findings |
| `range_finder` | readings -60, 0, 25, 26, 50, 51 | the two smaller readings decide; whoever sounds the beeper still has to silence it, and it falls silent; no limit is forgotten |
| `command_server` | buffer of 5, 3 app commands or 5 bytes of messages unread, 2 descriptors | `CommandFeed` is implemented; the next client is served |
| `ws2811` | 2 threads, 1 LED, 2 calls, memory for 2 runs of the program | memory is not taken from under the DMA; after any race the second undisturbed call is what the LEDs show when the DMA is done |
| `ir_remote` | 2 codes, 2 servo bits | no command is made up, none is lost; servos keep their limits |
| `camera_service` | 2 clients, 1 check task of either kind | whole frames; no viewer waits for ever; a stop that misses nothing stops; the watchdog settles |

`car_remote` does not check for deadlock, since `Exit` really ends the program there; nor does `camera_service`,
where nothing has to happen once a stop has killed the server and `check_running`.

**Finding.** `car_stop_in_tracking`: `remoteserver.c:720` says `case 5: /* stop*/`, but
a stop pressed in line tracking may be undone. `fun2` has passed its test of `trackenable`; main clears it and
calls `stop()`; `fun2` then carries out the manoeuvre it had decided on and leaves `trackModeWork` by `break` (906)
without stopping. The car keeps driving with tracking off. In avoidance the same race ends well
(`car_avoid`), because `avoidance` calls `stop()` when it finds its bit cleared.

### Bounds, and why they are enough

- *MotorDriver*: races between two calls on a motor need two callers; that a racing call spoils other motors, and which,
  is in the proofs, which cover all numbers. 38,696 states for one thread, 433,444 for two.
- *CarControl*: every field is Boolean and every program counter finite, so only the inputs are
  bounded: each run has the commands its question is about. A turn has four phases, as the code
  compares the time with two limits.
- *RangeFinder*: 25 and 26 are the largest reading two of which make 50 and the next; 50 and 51 are the largest one that
  warns beside a missed echo (0) and the next; -60 is a clock that was set back far enough to cancel a reading.
  492 577 states.
- *CommandServer*: `BUFFER_SIZE` 5 (10 in the code) holds each kind of message and is the longest of them;
  with three bytes unread TCP can cut and join app commands in every way; with five, each message can be cut anywhere and
  joined to a short one (`'v'`), and the rest of one read as commands; two descriptors let a second
  client be accepted and a third be refused. 876,183 states.
- *Ws2811*: two threads show every race on the buffer, the stamp and the DMA that more
  would; a second LED adds nothing but length and the garbling of a neighbour, which with one LED falls
  on the pixel itself; two blocks of memory allow a program that runs while the DMA of the one before still
  sends, and a third that gets no memory. 469,802 states.
- *IrRemote*: `0x08F7` asks for a servo, and differs from `0x46B9` in several bits of both bytes. The app's
  limit 1140 is no multiple of the step, like the code's. 1,558,234 states.
- *CameraService*: with two clients one can wait while the other holds the mutex or changes the resolution; two tags
  tell a frame from the one before and the one after. With one check task of either kind `stop` may
  kill either and leave the other; the proofs cover all numbers. 125,364 states.

### Fairness, and why the code justifies it

Threads are scheduled by Linux without priorities, so each thread that can run does run again and again
(weak fairness of its steps). Nothing is assumed of clients, users, obstacles, frames of the remote or failures.

- *CarControl*: WF of each of the three threads and of `Tick`. `Hangup` is fair only after a failed `accept`.
- *MotorDriver*: WF of each thread inside the driver, where nothing blocks.
- *RangeFinder*: WF of `fun1` and of `main`'s beep at connection, SF of `ExitCar` (which waits until `fun1` is out of
  `beepWarning`, as it is again and again), WF of `Tick`.
- *CommandServer*: WF of `main`. *IrRemote*: WF of `fun2`, but it may stay in a mode. *Ws2811*: none; its properties are
  safety properties.
- *CameraService*: SF of `cam_thread` and of each client's `send_frame`, because they compete for a mutex that
  `cam_thread` leaves free for the length of a frame; WF of the tasks' loops and of a command of the user that has begun.

### Reading the liveness properties

- `StopObeyed`: if stop is the last word of the client, the car ends up standing. `DisconnectStops`: likewise when he is gone for good,
  unless the car was tracking when he was lost (`Tracking`: `fun2` is in `trackModeWork`, or will enter it): `clearFlag`, which
  main calls then, leaves `trackenable` set, and the car drives on without a client. Both are about a car without a remote.
- `ObstacleStops` is about a car whose forward bit is set and stays set; Scratch's "go forward" sets no such
  bit, and `fun1` then lets the car drive on (a hazard without a property).
- `TrackingStops` is for a car that from some time on does not lose its line (`LosesLine`: an inner loop of `trackModeWork` left
  because the middle sensor is off the line). All eight readings occur: 000 stops (918); 001 and 100 begin a turn onto the line
  without a look at `disWarning` (921, 943), and then leave the inner loop at once (940, 961), so a car that only sees the line with an
  outer sensor drives on at an obstacle. That is the exception, and the code has it.
- `StopIsDone` and `SilenceIsOwed` are the safety parts of `StopObeyed` and `DisconnectStops`, and of
  `AlarmFallsSilent` and `PowerOffIsSilent`: nothing is lost, and someone is left who
  will act. They are proved; that he does act needs fairness and is checked. So are three more that no run checks:
  `TurnIsTimed`, `LimitIsRemembered` and `PressIsKept`, of `TurnEnds`, `LimitIsHeard` and `LastPressIsRun`.
- `WaitingMeansStopped` is checked with clients that start neither mode: a mode outlives its client.
- `AvoidanceResumes`, `TurnEnds`: avoidance is on and stays on.
- `IrStopObeyedAgain`: a single press may be lost to a racing write of the same byte; pressing again does help.
- `AlarmFallsSilent`, `PowerOffIsSilent`: nothing else sounds the beeper any more.
- `NextIsServed` ends with the descriptors or with power-off. `LastPressIsRun` supposes that `fun2` does not stay in a mode.
- `SettledShows` says nothing after a DMA error: it is sticky, because only `dma_start` clears it and `ws2811_wait` fails before it.
- `ServerSettles` supposes that the camera works from some time on, that a `check_running` has not been killed, and that the
  user gives no further commands.
- `StreamGoesOn` supposes that no `setResolution` has failed and left the camera paused: then nobody is woken any more.

## 4. Proofs

    tlapm <module>Proofs.tla

| Module | Assumptions | Theorems |
|---|---|---|
| `MotorDriverProofs` | `WiringAssumption`: two different bits per motor, none shared, all in the register | `TypeCorrect`, `UndisturbedCallsWork`, `InputsExclusive`, `ImplementsBoardSafely` |
| `CarControlProofs` | `WorldAssumption`: readings are of three line sensors; `ByHand` (no byte starts a mode, no remote) for the second theorem | `TypeCorrect`, `WaitingCarStands` |
| `CarControlStopProofs` | `WorldAssumption`; `NoTracking` (no byte starts tracking, no remote) for the first theorem | `StopStands`, `TurnsAreTimed` |
| `CommandServerProofs` | `ServerAssumption`: the buffer holds five bytes; app commands are below 99; messages have the lengths the code expects | `TypeCorrect`, `PoweredOffStaysAlone`, `ImplementsFeedSafely` |
| `RangeFinderProofs` | `DistancesAssumption`: readings are integers | `TypeCorrect`, `FilterIsExact`, `BeeperOwesSilence`, `NoLimitForgotten` |
| `IrRemoteProofs` | `CodesAssumption`; `PairsAssumption`: a code is a byte below 128 and its complement; `ServoBitsAssumption`; `AngleAssumption`: each angle starts within its limits | `TypeCorrect`, `NoCommandMadeUp`, `NoPressLost`, `ServosStayInRange` |
| `Ws2811Proofs` | `Ws2811Assumption`: there are an LED and a block of memory, and each call sets every LED | `TypeCorrect`, `MemoryStays`, `FailureGivesBack`, `SecondCallSettles` |
| `CameraServiceProofs` | `ClientsAssumption`: no client is called "nobody" or "camera" | `TypeCorrect`, `EveryFrameIsOne`, `StoppedStaysStopped` |

- *MotorDriver.* `IInv` adds to the type invariant what each label of an undisturbed call has achieved so far: after `store2`
  `latch_state` holds the command (`Achieved`), after k clock edges the stages hold its first k bits
  (`Sent(k)`, lemmas `OneMoreSent` and `AllSent`), and a call that is alone excludes others (`Exclusive`). `TypeOK` and `UndisturbedCall`
  alone are not inductive, as they say nothing of the middle of a call. All theorems are about any set of threads. What
  overlapping calls leave intact is in `BInv`: a thread may store a byte that others have changed since it read it, but of a motor
  that no overlapping call named the byte says what `latch_state` says (`RegAgrees`), and no such motor that nobody
  is about to set has both bits (`SettledNotBoth`). So an undisturbed call sends the right bits of all these motors, and
  `ImplementsBoardSafely` maps every step to one of `MotorBoard` or to a stutter.
- *CarControl.* `TypeOK` lets `code` and `reg` disagree, so `TypeInv` adds that the byte a thread has loaded is that of
  the assignment it is in the middle of (`Loaded`). `WaitingMeansStopped` speaks of one moment, when main has nothing left to execute
  at its accept; `HandInv` says how it comes about: while main is there, each motor is released or a release of
  it is still ahead (`Halting`), because `clearFlag` and `stop` hold nothing else (`HaltCode`). That survives the
  other threads since `fun1` only ever releases and `fun2` drives nothing (`OnlyMainDrives`), which in turn needs the mode bits to
  stay clear (`ModesOff`) -- also in a byte that main has loaded and not yet stored. Without `ByHand` the property is false:
  `fun2` drives on in a mode that outlives its client.
- *Stopping.* `StopIsDone` speaks of a main that has nothing left to do; the invariant says what is ahead before that. `Roles` is
  what each thread may still be about to do (`Ops`, the instructions left): without tracking `fun2` drives only inside
  `avoidance`, and what it does when it leaves is to stop. Without a remote main alone writes `carstate`, so a byte it
  has loaded is that in memory (`Current`). `Obeyed` says that after a stop `autoAvoid` is clear or main's store of it
  ahead, and each motor stands, or its release is ahead in main or `fun2`, or `fun2` is still inside `avoidance`. With
  tracking the theorem is false: see the finding. `TurnIsTimed` needs no strengthening but the types:
  only `AvoidTurn` and `Tick` touch the flags or the clock.
- *CommandServer.* `ServerInv`: bytes are unread only on a client's socket and buffered only while main carries them out
  (`Connected`), and what is unread of a client is app commands, or, if he sends anything, nothing, a message or garbled (`Writing`). With
  it `MessageMeaning` and `AppMeaning` say what a read finds, `Glued` that app commands may be read in parts, and
  `LongerAtEnd` that what clients send or lose is at the end. `OnePacket` says what a read of a message comes to: the message is whole
  and read to its end (`AtOnce`, if it is carried out at once), or what is left is garbled (`ReadGarbles`), and nothing is pending
  at that time. Each step is then one of `CommandFeed` or a stutter (`FeedNext`).
- *RangeFinder.* What the filter has seen is not in `TwoSmallerDecide`, so `Gathered` relates `temp_min`, `temp_max` and `temp_value` to
  the readings so far. `TwoSmaller` is the arithmetic: `temp_max` and `temp_min` both start at 0, so the largest reading is always taken out of the sum and
  the smallest only if it is not positive. For 26 cm three times the sum is 52 and there is no warning, although the limit is 50.
  `BeepInv` adds to the types `NoLateAlarm`, that `fun1` is out of `beepWarning` once the exit function has
  silenced the pin; without it a late `beepWarning` could sound the beeper with nobody left to end it.
- *IrRemote.* `Received` says what `buf` holds after each bit: the bits of the frame on the air come in from the top
  (`OneMoreIn`), and until the eight of its command are in, `buf[3]` is the inverse of the last complete frame, or, since a signal
  was lost within it, below 128 and so the inverse of no command. `OneFrame` is the point: two bytes that make a code are those of
  one frame, since either of them determines the other. `PressIsKept`, the safety part of `LastPressIsRun`, follows:
  a frame not yet run is whole in `buf`, and reported or about to be read. `PulseInRange` is inductive together
  with the integrality of the angles. `SteppedInRange` is the point: the limit is tested before the step, so an angle may pass it, but never by a whole step.
- *Ws2811.* `MemInv` ties the memory to the program's progress: what has been acquired at each step (`Acquired`), that
  the block in hand is allocated from `mem_alloc` on (`HasMemory`), and that a DMA found running before the program has
  started its own reads another block (`Foreign`). The last is why a failure may free its memory although
  the engine of an earlier run still goes on. `FailureGivesBack` follows from `Acquired`.
  `ShowInv` follows a call that is alone from label to label (`Working`): the channel, then the buffer hold its frame up to `led`. Two facts
  tie it to the call before it: the time stamp is that of the last frame whenever nobody is between `dma_start` and its
  store (`Stamped`), so that the strip has latched when the call starts its own (`Sent`), and that frame is then
  on its way until it shows, through the end of the call (`OnItsWay`, `HardwareKeeps`) and the end of the program (`Shown`).
  After a single undisturbed call the property is false: the stamp it waits for may be an old one.
- *CameraService.* `ServiceInv` has two halves. `HubInv`: the mutex has the holder that `cam` and `web` say (`Mutex`), and
  between `CamCopies` and `CamStamps`, and between `CopySize` and `CopyFrame`, the parts written or read
  so far belong together (`Written`, `Read`). `ScriptInv`: after a `KillTasks` that has missed none there are no tasks
  until the next `Started` (`NoTasksLeft`), so that none can launch the server again.

**Only model-checked.** Every liveness property (under fairness, out of the prover's reach) and the liveness part of both refinements;
what happens in `CarControl` in tracking or with a remote, but for `TypeOK` and `TurnIsTimed`. Every invariant a passing run
checks is a theorem, some of them under hypotheses named above.

## 5. Not modelled, and the plan

- *Software PWM* (`mySoftPwmWrite1-4`): called only by `fun2`, so nothing interleaves; what is left is the arithmetic
  of one `int` time stamp, whose wrap is listed as a hazard.
- *`INThandler`*: asks at the terminal inside a signal handler; what the C library does then is not in this code.
  The end of the program at any point is modelled (`Exit`, `End`).
- *`signal_handler` of mjpg-streamer* handles SIGINT only; the script sends SIGTERM, which just ends the process.
- *The other plugins of mjpg-streamer* (`input_raspicam` with its copy of MMAL, `input_testpicture`, `input_file`,
  `input_http`, `output_file`, `output_udp`, `output_rtsp`, `output_viewer`, `output_autofocus`): third-party code that
  the car never loads. They are most of the lines in the repository.
- *HTTP parsing, the file server and the JSON descriptions of `httpd.c`*: string processing in a thread of its own per client.
- *Mailbox, DMA, PWM, PCM and board tables*: ioctl wrappers and data of the rpi_ws281x library.
- *The network scripts*: run once, no state.

Next: a module for the software PWM; the safety parts of `StreamGoesOn` and `ServerSettles` (whom the
next frame wakes, and what a check task still has to find) as invariants with their proofs.
