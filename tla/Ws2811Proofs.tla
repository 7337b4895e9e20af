----------------------------- MODULE Ws2811Proofs -----------------------------
(***************************************************************************)
(* Proofs about Ws2811, for any number of threads, LEDs, calls and blocks.  *)
(***************************************************************************)
EXTENDS Ws2811, TLAPS

Starting == {"device", "mailbox", "memory", "lock", "map", "heap", "registers", "pwm"}

(* What ws2811_init has acquired when it comes to a step.                   *)
Before == [device    |-> {},
           mailbox   |-> {"device"},
           memory    |-> {"device", "mailbox"},
           lock      |-> {"device", "mailbox", "memory"},
           map       |-> {"device", "mailbox", "memory", "lock"},
           heap      |-> {"device", "mailbox", "memory", "lock", "map"},
           registers |-> {"device", "mailbox", "memory", "lock", "map", "heap"},
           pwm       |-> Resource]

Acquired == /\ phase \in Starting => held = Before[phase]
            /\ phase = "ended" => held = {}
            /\ phase = "failed" => "lock" \notin held

(* GRB_work sets the LEDs of the call it was given.                          *)
Called == \A t \in Threads : pc[t] = "leds" => call[t] \in Calls

(* From mem_alloc on the program's buffer is allocated.                     *)
HasMemory == phase \in {"lock", "map", "heap", "registers", "pwm", "ready"} => block \in gpu

(* Until the program may have started the DMA itself, it is that of an      *)
(* earlier run of the program, and reads another buffer.                   *)
Foreign == (phase \in {"lock", "map", "heap", "registers"} /\ dma = "active")
             => dmaBlock # block

TypeInv == TypeOK /\ Called
MemInv == Acquired /\ HasMemory /\ Foreign /\ MemoryOutlivesDma

LEMMA StepNames ==
  /\ Steps = <<"device", "mailbox", "memory", "lock", "map", "heap", "registers", "pwm">>
  /\ Resource = {"device", "mailbox", "memory", "lock", "map", "heap", "registers"}
<1>1. Steps = <<"device", "mailbox", "memory", "lock", "map", "heap", "registers", "pwm">>
  BY DEF Steps
<1>2. Resource = {"device", "mailbox", "memory", "lock", "map", "heap", "registers"}
  <2>1. 1 .. 7 = {1, 2, 3, 4, 5, 6, 7}
    OBVIOUS
  <2> QED  BY <1>1, <2>1 DEF Resource
<1> QED  BY <1>1, <1>2

LEMMA NextStep ==
  /\ Following("device") = "mailbox" /\ Following("mailbox") = "memory"
  /\ Following("memory") = "lock"    /\ Following("lock") = "map"
  /\ Following("map") = "heap"       /\ Following("heap") = "registers"
  /\ Following("registers") = "pwm"
<1> DEFINE K(step) == CHOOSE k \in 1 .. 7 : Steps[k] = step
<1>1. \A k \in 1 .. 7 : K(Steps[k]) = k
  <2> SUFFICES ASSUME NEW k \in 1 .. 7  PROVE K(Steps[k]) = k
    OBVIOUS
  <2>1. K(Steps[k]) \in 1 .. 7 /\ Steps[K(Steps[k])] = Steps[k]
    OBVIOUS
  <2> HIDE DEF K
  <2>2. \A j \in 1 .. 7 : Steps[j] = Steps[k] => j = k
    BY DEF Steps
  <2> QED  BY <2>1, <2>2
<1> HIDE DEF K
<1>2. \A k \in 1 .. 7 : Following(Steps[k]) = Steps[1 + k]
  BY <1>1 DEF Following, K
<1> QED  BY <1>2 DEF Steps

LEMMA PhaseNames ==
  Phase = {"device", "mailbox", "memory", "lock", "map", "heap", "registers", "pwm",
           "ready", "failed", "ended"}
<1>1. 1 .. 8 = {1, 2, 3, 4, 5, 6, 7, 8}
  OBVIOUS
<1> QED  BY <1>1 DEF Phase, Steps

(* The type invariant, with the call of a thread that sets LEDs.            *)
LEMMA TypeInit == Init => TypeInv
<1> SUFFICES ASSUME Init  PROVE TypeInv
  OBVIOUS
<1> USE Ws2811Assumption
<1>1. 1 \in LED /\ 1 \in Blocks
  BY DEF LED, Blocks
<1>2. NoColours \in [LED -> Colour] /\ NoPixels \in [LED -> Pixel]
  BY DEF NoColours, NoPixels, Colour, Pixel
<1>3. Called
  BY DEF Init, Called, Each
<1>4. phase \in Phase /\ held \subseteq Resource /\ gpu \subseteq Blocks
  BY PhaseNames DEF Init
<1>5. block \in Blocks /\ dmaBlock \in Blocks /\ pos \in LED
  BY <1>1 DEF Init
<1>6. /\ leds \in [LED -> Colour] /\ strip \in [LED -> Pixel]
      /\ buffer \in [Blocks -> [LED -> Pixel]]
  BY <1>2 DEF Init
<1>7. brightness \in Brightness
  BY DEF Init, Brightness
<1>8. /\ pc \in [Threads -> {"idle", "leds", "bits", "wait", "pause", "clock", "stamp"}]
      /\ call \in [Threads -> Calls \cup {NoCall}] /\ led \in [Threads -> LED]
      /\ owes \in [Threads -> BOOLEAN] /\ fresh \in [Threads -> BOOLEAN]
      /\ alone \in [Threads -> BOOLEAN]
  BY <1>1 DEF Init, Each
<1>9. /\ dma \in {"idle", "active", "error"} /\ line \in {"silent", "gap"}
      /\ heard \in BOOLEAN /\ stampCurrent \in BOOLEAN
  BY Zenon DEF Init
<1>10. streak \in 0 .. 2 /\ last \in Calls \cup {NoCall}
  BY DEF Init
<1> QED  BY <1>3, <1>4, <1>5, <1>6, <1>7, <1>8, <1>9, <1>10 DEF TypeInv, TypeOK

LEMMA TypeNext == TypeInv /\ [Next]_vars => TypeInv'
<1> SUFFICES ASSUME TypeInv, [Next]_vars  PROVE TypeInv'
  OBVIOUS
<1> USE Ws2811Assumption DEF TypeInv
<1>1. 1 \in LED /\ 1 \in Blocks /\ LEDs \in LED
  BY DEF LED, Blocks
<1>2. NoColours \in [LED -> Colour] /\ NoPixels \in [LED -> Pixel]
  BY DEF NoColours, NoPixels, Colour, Pixel
<1>3. ASSUME NEW step \in Resource, Acquire(step)  PROVE TypeInv'
  <2>1. Following(step) \in Phase
    BY NextStep, StepNames, PhaseNames
  <2>2. block' \in Blocks /\ gpu' \subseteq Blocks
    BY <1>3 DEF Acquire, TypeOK
  <2>3. buffer' \in [Blocks -> [LED -> Pixel]] /\ leds' \in [LED -> Colour]
    BY <1>3, <1>2 DEF Acquire, TypeOK
  <2>4. phase' \in Phase /\ held' \subseteq Resource
    BY <1>3, <2>1 DEF Acquire, TypeOK
  <2> QED  BY <1>3, <2>2, <2>3, <2>4 DEF Acquire, TypeOK, Called, locals, engine, history
<1>4. ASSUME NEW step \in Resource, Fail(step)  PROVE TypeInv'
  <2>1. held' \subseteq Resource /\ gpu' \subseteq Blocks
    BY <1>4, StepNames DEF Fail, TypeOK, CleanedUp
  <2> QED  BY <1>4, <2>1, PhaseNames DEF Fail, TypeOK, Called, channel, locals, engine, history
<1>5. CASE SetupPwm
  <2>1. strip' \in [LED -> Pixel]
    BY <1>5 DEF SetupPwm, TypeOK, Pixel
  <2> QED  BY <1>1, <1>5, <2>1, PhaseNames DEF SetupPwm, TypeOK, Called, channel, locals, history
<1>6. CASE End
  <2>1. buffer' \in [Blocks -> [LED -> Pixel]]
    BY <1>2, <1>6 DEF End, TypeOK
  <2>2. streak' \in 0 .. 2 /\ last' \in Calls \cup {NoCall}
    BY <1>6 DEF End, EndProgram, TypeOK
  <2> QED  BY <1>1, <1>2, <1>6, <2>1, <2>2, PhaseNames
           DEF End, EndProgram, TypeOK, Called, Each, Brightness, engine
<1>7. CASE Restart
  BY <1>7, PhaseNames DEF Restart, TypeOK, Called, channel, locals, engine
<1>8. CASE Hardware
  <2>1. CASE Send
    <3>1. strip' \in [LED -> Pixel]
      BY <2>1 DEF Send, TypeOK
    <3>2. pos' \in LED
      BY <2>1, <1>1 DEF Send, TypeOK, LED
    <3> QED  BY <2>1, <3>1, <3>2 DEF Send, TypeOK, Called, program, channel, locals, history
  <2>2. CASE DmaError
    BY <1>1, <2>2 DEF DmaError, TypeOK, Called, program, channel, locals, history
  <2>3. CASE Latch
    BY <2>3 DEF Latch, TypeOK, Called, program, channel, locals, history
  <2> QED  BY <1>8, <2>1, <2>2, <2>3 DEF Hardware
<1>9. ASSUME NEW t \in Threads, Render(t)  PROVE TypeInv'
  <2>1. CASE Begin(t)
    <3>1. PICK c \in Calls : call' = [call EXCEPT ![t] = c] /\ brightness' = c.brightness
      BY <2>1 DEF Begin
    <3>2. streak' \in 0 .. 2 /\ last' \in Calls \cup {NoCall} /\ alone' \in [Threads -> BOOLEAN]
      BY <2>1 DEF Begin, TypeOK, Each
    <3>3. brightness' \in Brightness
      BY <3>1 DEF Brightness
    <3> QED  BY <2>1, <3>1, <3>2, <3>3 DEF Begin, Goto, TypeOK, Called, program, engine
  <2>2. CASE SetLed(t)
    <3>1. call[t] \in Calls /\ led[t] \in LED
      BY <2>2 DEF SetLed, EachLed, Goto, TypeOK, Called
    <3>2. call[t].leds[led[t]] \in Colour
      BY <3>1 DEF Colour
    <3>3. led' \in [Threads -> LED]
      BY <2>2, <1>1 DEF SetLed, EachLed, LastLed, TypeOK, LED
    <3> QED  BY <2>2, <3>2, <3>3
             DEF SetLed, EachLed, Goto, TypeOK, Called, program, engine, history
  <2>3. CASE SetBits(t)
    <3>1. led[t] \in LED /\ leds[led[t]] \in Colour
      BY DEF TypeOK
    <3>2. [colour |-> leds[led[t]], brightness |-> brightness] \in Pixel /\ Garbled \in Pixel
      BY <3>1 DEF TypeOK, Pixel, Lit
    <3>3. buffer' \in [Blocks -> [LED -> Pixel]]
      BY <2>3, <3>1, <3>2 DEF SetBits, TypeOK
    <3>4. led' \in [Threads -> LED]
      BY <2>3, <1>1 DEF SetBits, EachLed, LastLed, TypeOK, LED
    <3> QED  BY <2>3, <3>3, <3>4
             DEF SetBits, EachLed, Goto, TypeOK, Called, program, channel, engine, history
  <2>4. CASE Wait(t)
    BY <2>4 DEF Wait, Goto, TypeOK, Called, program, channel, engine, history
  <2>5. CASE DmaFailed(t)
    BY <2>5 DEF DmaFailed, Goto, TypeOK, Called, program, channel, engine
  <2>6. CASE dma_start(t)
    <3>1. strip' \in [LED -> Pixel]
      BY <2>6 DEF dma_start, TypeOK, Pixel
    <3> QED  BY <1>1, <2>6, <3>1
             DEF dma_start, Goto, TypeOK, Called, Each, program, channel, history
  <2>7. CASE ReadClock(t)
    BY <2>7 DEF ReadClock, Goto, TypeOK, Called, program, channel, engine, history
  <2>8. CASE Stamp(t)
    <3>1. streak' \in 0 .. 2 /\ last' \in Calls \cup {NoCall}
      BY <2>8 DEF Stamp, TypeOK
    <3> QED  BY <2>8, <3>1 DEF Stamp, Goto, TypeOK, Called, program, channel, engine
  <2> QED  BY <1>9, <2>1, <2>2, <2>3, <2>4, <2>5, <2>6, <2>7, <2>8 DEF Render
<1>10. CASE UNCHANGED vars
  BY <1>10 DEF TypeOK, Called, vars, program, channel, locals, engine, history
<1> QED  BY <1>3, <1>4, <1>5, <1>6, <1>7, <1>8, <1>9, <1>10 DEF Next, Initialise

(* Every variable of the LED strip keeps its type, for any number of        *)
(* threads, LEDs and calls: the loops stay inside the channel.             *)
THEOREM TypeCorrect == Spec => []TypeOK
<1>1. TypeInv => TypeOK
  BY DEF TypeInv
<1> QED  BY TypeInit, TypeNext, <1>1, PTL DEF Spec

(* Where the memory of the GPU is: MemInv.                                  *)
LEMMA MemoryInit == Init => MemInv
BY DEF Init, MemInv, Acquired, HasMemory, Foreign, MemoryOutlivesDma, Starting, Before

LEMMA MemoryNext == MemInv /\ [Next]_vars => MemInv'
<1> SUFFICES ASSUME MemInv, [Next]_vars  PROVE MemInv'
  OBVIOUS
<1> USE DEF MemInv, Acquired, HasMemory, Foreign, MemoryOutlivesDma, Starting
<1>1. ASSUME NEW step \in Resource, Acquire(step)  PROVE MemInv'
  <2>1. phase = step /\ phase' = Following(step) /\ held' = held \cup {step}
    BY <1>1 DEF Acquire
  <2>2. UNCHANGED <<dma, dmaBlock>>
    BY <1>1 DEF Acquire, engine
  <2>3. CASE step = "memory"
    <3>1. block' \in Blocks \ gpu /\ gpu' = gpu \cup {block'}
      BY <1>1, <2>3 DEF Acquire
    <3> QED  BY <2>1, <2>2, <2>3, <3>1, NextStep DEF Before
  <2>4. CASE step # "memory"
    <3>1. UNCHANGED <<gpu, block>>
      BY <1>1, <2>4 DEF Acquire
    <3>2. held' = Before[phase']
      BY <2>1, NextStep, StepNames DEF Before
    <3> QED  BY <2>1, <2>2, <2>4, <3>1, <3>2, NextStep, StepNames
  <2> QED  BY <2>3, <2>4
<1>2. ASSUME NEW step \in Resource, Fail(step)  PROVE MemInv'
  <2>1. phase = step /\ phase' = "failed" /\ UNCHANGED <<block, dma, dmaBlock>>
    BY <1>2 DEF Fail, engine
  <2>2. CASE step \in {"device", "mailbox", "memory", "lock"}
    <3>1. held' = held
      BY <1>2, <2>2 DEF Fail
    <3>2. gpu' = gpu
      BY <1>2, <3>1 DEF Fail
    <3>3. "lock" \notin held
      BY <2>1, <2>2 DEF Before
    <3> QED  BY <2>1, <3>1, <3>2, <3>3
  <2>3. CASE step \in {"map", "heap", "registers"}
    <3>1. "lock" \notin held'
      BY <1>2, <2>3 DEF Fail, CleanedUp
    <3>2. gpu' \in {gpu, gpu \ {block}}
      BY <1>2 DEF Fail
    <3> QED  BY <2>1, <2>3, <3>1, <3>2
  <2> QED  BY <2>2, <2>3, StepNames
<1>3. CASE SetupPwm
  BY <1>3 DEF SetupPwm
<1>4. CASE End
  BY <1>4 DEF End, EndProgram, engine
<1>5. CASE Restart
  BY <1>5 DEF Restart, engine, Before
<1>6. CASE Hardware
  BY <1>6 DEF Hardware, Send, DmaError, Latch, program
<1>7. ASSUME NEW t \in Threads, Render(t)  PROVE MemInv'
  <2>1. CASE dma_start(t)
    BY <2>1 DEF dma_start, Goto, program
  <2>2. CASE ~dma_start(t)
    BY <1>7, <2>2 DEF Render, Begin, SetLed, SetBits, Wait, DmaFailed, ReadClock, Stamp,
                      program, engine
  <2> QED  BY <2>1, <2>2
<1>8. CASE UNCHANGED vars
  BY <1>8 DEF vars, program, engine
<1> QED  BY <1>1, <1>2, <1>3, <1>4, <1>5, <1>6, <1>7, <1>8 DEF Next, Initialise

(* The DMA never reads memory that has gone back to the GPU, for any number *)
(* of threads and however often the program ends, fails to start and is    *)
(* started again while the engine goes on.                                 *)
THEOREM MemoryStays == Spec => []MemoryOutlivesDma
<1>1. MemInv => MemoryOutlivesDma
  BY DEF MemInv
<1> QED  BY MemoryInit, MemoryNext, <1>1, PTL DEF Spec

(* A failure of ws2811_init after the memory is locked gives all back but   *)
(* register maps.                                                          *)
THEOREM FailureGivesBack == Spec => FailedInitGivesBack
<1> DEFINE GivesBack == (phase' = "failed" /\ "lock" \in held) =>
                          held' \subseteq {"registers"} /\ block \notin gpu'
<1>1. MemInv /\ [Next]_vars => [GivesBack]_vars
  <2> SUFFICES ASSUME MemInv, Next, phase' = "failed", "lock" \in held
               PROVE  held' \subseteq {"registers"} /\ block \notin gpu'
    OBVIOUS
  <2>1. phase # "failed"
    BY DEF MemInv, Acquired
  <2>2. PICK step \in Resource : Fail(step)
    BY <2>1, NextStep, StepNames
       DEF Next, Initialise, Acquire, SetupPwm, End, EndProgram, Restart, Hardware, Send,
           DmaError, Latch, Render, Begin, SetLed, SetBits, Wait, DmaFailed, dma_start,
           ReadClock, Stamp, program
  <2>3. step \in {"map", "heap", "registers"} /\ held = Before[step]
    BY <2>2, StepNames DEF Fail, MemInv, Acquired, Starting, Before
  <2>4. held' \subseteq {"registers"}
    BY <2>2, <2>3 DEF Fail, CleanedUp, Before
  <2>5. gpu' = gpu \ {block}
    BY <2>2, <2>3, <2>4 DEF Fail, Before
  <2> QED  BY <2>4, <2>5
<1> QED  BY <1>1, MemoryInit, MemoryNext, PTL DEF Spec, FailedInitGivesBack, GivesBack

(***************************************************************************)
(* What shows on the strip. A call that no other overlaps finds nobody to   *)
(* disturb it: it leaves its own frame in the buffer. If the one before it  *)
(* was alone too, the stamp is that of the last frame, so that the strip   *)
(* has latched when this one starts and takes it.                          *)
(***************************************************************************)
Crew == \A t \in Threads :
  /\ pc[t] # "idle" => phase = "ready" /\ call[t] \in Calls
  /\ pc[t] \notin {"leds", "bits"} => led[t] = 1
  /\ alone[t] => pc[t] # "idle" /\ \A u \in Threads \ {t} : pc[u] = "idle"
  /\ streak > 0 /\ pc[t] # "idle" => alone[t]

Run == streak > 0 => phase \in {"ready", "ended"}

(* The first n - 1 pixels are those of call c.                             *)
Shows(pixels, c, n) == \A i \in LED : i < n => pixels[i] = Frame(c)[i]

Working(t) ==
  /\ pc[t] \in {"leds", "bits"} => brightness = call[t].brightness
  /\ pc[t] = "leds" => \A i \in LED : i < led[t] => leds[i] = call[t].leds[i]
  /\ pc[t] = "bits" => /\ \A i \in LED : leds[i] = call[t].leds[i]
                       /\ Shows(buffer[block], call[t], led[t])
  /\ pc[t] \in {"wait", "pause"} => Shows(buffer[block], call[t], LEDs + 1)
  /\ pc[t] = "pause" => dma = "idle"
  /\ pc[t] = "stamp" => fresh[t]

OnItsWay(c) ==
  \/ dma = "error"
  \/ dma = "idle" /\ Shows(strip, c, LEDs + 1)
  \/ /\ dma = "active" /\ heard
     /\ Shows(buffer[dmaBlock], c, LEDs + 1) /\ Shows(strip, c, pos)

Stamped ==
  streak > 0 /\ phase = "ready" /\ (\A t \in Threads : pc[t] \notin {"pause", "clock", "stamp"})
    => stampCurrent

Sent == \A t \in Threads : alone[t] /\ streak > 0 =>
          /\ pc[t] = "pause" => owes[t]
          /\ pc[t] \in {"clock", "stamp"} => OnItsWay(call[t])

Shown == streak = 2 /\ Quiet(Threads) => OnItsWay(last)

ShowInv == /\ TypeInv /\ Crew /\ Run
           /\ \A t \in Threads : alone[t] => Working(t)
           /\ Stamped /\ Sent /\ Shown

LEMMA ShowInit == Init => ShowInv
<1> SUFFICES ASSUME Init  PROVE ShowInv
  OBVIOUS
<1>1. \A t \in Threads : pc[t] = "idle" /\ led[t] = 1 /\ alone[t] = FALSE
  BY DEF Init, Each
<1>2. streak = 0 /\ phase = "device"
  BY DEF Init
<1>3. Crew /\ Run
  BY <1>1, <1>2 DEF Crew, Run
<1>4. Stamped /\ Sent /\ Shown
  BY <1>1, <1>2 DEF Stamped, Sent, Shown
<1> QED
  BY <1>1, <1>3, <1>4, TypeInit DEF ShowInv

(* A step of thread t to another label.                                     *)
LEMMA Goes ==
  ASSUME TypeOK, NEW t \in Threads, NEW from, NEW to, Goto(t, from, to)
  PROVE  /\ phase = "ready" /\ pc[t] = from /\ pc'[t] = to
         /\ \A u \in Threads \ {t} : pc'[u] = pc[u]
BY DEF TypeOK, Goto

LEMMA EachLedGoes ==
  ASSUME TypeOK, NEW t \in Threads, NEW label, NEW next, EachLed(t, label, next)
  PROVE  /\ phase = "ready" /\ pc[t] = label /\ led[t] \in LED
         /\ \A u \in Threads \ {t} : pc'[u] = pc[u] /\ led'[u] = led[u]
         /\ \/ led[t] = LEDs /\ pc'[t] = next /\ led'[t] = 1
            \/ led[t] # LEDs /\ pc'[t] = label /\ led'[t] = led[t] + 1
<1>1. Goto(t, label, IF led[t] = LastLed THEN next ELSE label)
  BY DEF EachLed
<1>2. led' = [led EXCEPT ![t] = IF led[t] = LastLed THEN 1 ELSE led[t] + 1]
  BY DEF EachLed
<1> QED
  BY <1>1, <1>2, Goes DEF TypeOK, LastLed

(* Threads that are in no call when ws2811_init is at work or has failed.   *)
LEMMA NobodyRenders ==
  ASSUME Crew, phase # "ready", UNCHANGED <<pc, locals, history>>
  PROVE  Crew'
<1>1. \A t \in Threads : pc[t] = "idle"
  BY DEF Crew
<1> QED
  BY <1>1 DEF Crew, locals, history

LEMMA CrewNext == TypeInv /\ Crew /\ Run /\ [Next]_vars => Crew' /\ Run'
<1> SUFFICES ASSUME TypeInv, Crew, Run, [Next]_vars  PROVE Crew' /\ Run'
  OBVIOUS
<1>t. TypeOK
  BY DEF TypeInv
<1>1. ASSUME NEW step \in Resource, Acquire(step) \/ Fail(step)  PROVE Crew' /\ Run'
  <2>1. phase = step /\ UNCHANGED <<pc, locals, history>>
    BY <1>1 DEF Acquire, Fail
  <2>2. phase \notin {"ready", "ended"}
    BY <2>1, StepNames
  <2> QED
    BY <2>1, <2>2, NobodyRenders DEF Run, history
<1>2. CASE SetupPwm
  <2>1. phase = "pwm" /\ UNCHANGED <<pc, locals, history>>
    BY <1>2 DEF SetupPwm
  <2> QED
    BY <2>1, NobodyRenders DEF Run, history
<1>3. CASE End
  <2>1. /\ \A t \in Threads : pc'[t] = "idle" /\ led'[t] = 1 /\ alone'[t] = FALSE
        /\ phase' = "ended"
    BY <1>3 DEF End, EndProgram, Each
  <2> QED
    BY <2>1 DEF Crew, Run
<1>4. CASE Restart
  <2>1. phase = "ended" /\ streak' = 0 /\ UNCHANGED <<pc, locals, alone>>
    BY <1>4 DEF Restart
  <2>2. \A t \in Threads : pc[t] = "idle"
    BY <2>1 DEF Crew
  <2> QED
    BY <2>1, <2>2 DEF Crew, Run, locals
<1>5. CASE Hardware \/ UNCHANGED vars
  BY <1>5 DEF Hardware, Send, DmaError, Latch, vars, Crew, Run, program, locals, history
<1>6. ASSUME NEW t \in Threads, Begin(t)  PROVE Crew' /\ Run'
  <2>1. /\ phase = "ready" /\ pc[t] = "idle" /\ pc'[t] = "leds"
        /\ \A u \in Threads \ {t} : pc'[u] = pc[u]
    BY <1>6, <1>t, Goes DEF Begin
  <2>2. phase' = phase /\ led' = led
    BY <1>6 DEF Begin, program
  <2>3. PICK c \in Calls : call' = [call EXCEPT ![t] = c]
    BY <1>6 DEF Begin
  <2>4. call'[t] \in Calls /\ \A u \in Threads \ {t} : call'[u] = call[u]
    BY <1>t, <2>3 DEF TypeOK
  <2>5. CASE Quiet(Threads)
    <3>1. alone' = [alone EXCEPT ![t] = TRUE] /\ streak' = streak
      BY <1>6, <2>5 DEF Begin
    <3>2. \A u \in Threads : pc[u] = "idle"
      BY <2>5 DEF Quiet
    <3>3. alone'[t] = TRUE /\ \A u \in Threads \ {t} : alone'[u] = alone[u]
      BY <1>t, <3>1 DEF TypeOK
    <3> QED
      BY <2>1, <2>2, <2>4, <3>1, <3>2, <3>3 DEF Crew, Run
  <2>6. CASE ~Quiet(Threads)
    <3>1. streak' = 0 /\ \A u \in Threads : alone'[u] = FALSE
      BY <1>6, <2>6 DEF Begin, Each
    <3> QED
      BY <2>1, <2>2, <2>4, <3>1 DEF Crew, Run
  <2> QED
    BY <2>5, <2>6
<1>7. ASSUME NEW t \in Threads, SetLed(t) \/ SetBits(t)  PROVE Crew' /\ Run'
  <2>1. PICK label \in {"leds", "bits"}, next \in {"bits", "wait"} : EachLed(t, label, next)
    BY <1>7 DEF SetLed, SetBits
  <2>2. UNCHANGED <<phase, call, alone, streak>>
    BY <1>7 DEF SetLed, SetBits, program, history
  <2>3. /\ phase = "ready" /\ pc[t] = label
        /\ \A u \in Threads \ {t} : pc'[u] = pc[u] /\ led'[u] = led[u]
        /\ \/ pc'[t] = next /\ led'[t] = 1
           \/ pc'[t] = label
    BY <1>t, <2>1, EachLedGoes
  <2>4. pc'[t] # "idle" /\ pc[t] # "idle" /\ (pc'[t] \notin {"leds", "bits"} => led'[t] = 1)
    BY <2>3
  <2> QED
    BY <2>2, <2>3, <2>4 DEF Crew, Run
<1>8. ASSUME NEW t \in Threads, Wait(t) \/ dma_start(t) \/ ReadClock(t)  PROVE Crew' /\ Run'
  <2>1. PICK from \in {"wait", "pause", "clock"}, to \in {"pause", "clock", "stamp"} : Goto(t, from, to)
    BY <1>8 DEF Wait, dma_start, ReadClock
  <2>2. UNCHANGED <<phase, call, led, alone, streak>>
    BY <1>8 DEF Wait, dma_start, ReadClock, program, history
  <2>3. /\ phase = "ready" /\ pc[t] = from /\ pc'[t] = to
        /\ \A u \in Threads \ {t} : pc'[u] = pc[u]
    BY <1>t, <2>1, Goes
  <2> QED
    BY <2>2, <2>3 DEF Crew, Run
<1>9. ASSUME NEW t \in Threads, DmaFailed(t) \/ Stamp(t)  PROVE Crew' /\ Run'
  <2>1. PICK from \in {"wait", "stamp"} : Goto(t, from, "idle")
    BY <1>9 DEF DmaFailed, Stamp
  <2>2. /\ call' = [call EXCEPT ![t] = NoCall] /\ alone' = [alone EXCEPT ![t] = FALSE]
        /\ UNCHANGED <<phase, led>> /\ (streak' = 0 \/ alone[t])
    BY <1>9 DEF DmaFailed, Stamp, program
  <2>3. /\ phase = "ready" /\ pc[t] = from /\ pc'[t] = "idle"
        /\ \A u \in Threads \ {t} : pc'[u] = pc[u]
    BY <1>t, <2>1, Goes
  <2>4. alone'[t] = FALSE /\ \A u \in Threads \ {t} : call'[u] = call[u] /\ alone'[u] = alone[u]
    BY <1>t, <2>2 DEF TypeOK
  <2>5. streak' = 0 \/ \A u \in Threads : pc'[u] = "idle"
    BY <2>2, <2>3 DEF Crew
  <2> QED
    BY <2>2, <2>3, <2>4, <2>5 DEF Crew, Run
<1> QED
  BY <1>1, <1>2, <1>3, <1>4, <1>5, <1>6, <1>7, <1>8, <1>9 DEF Next, Initialise, Render

LEMMA FrameAt ==
  ASSUME NEW c, NEW i \in LED
  PROVE  Frame(c)[i] = [colour |-> c.leds[i], brightness |-> c.brightness]
BY DEF Frame

LEMMA LedRange ==
  /\ LEDs \in LED /\ 1 \in LED /\ LED \subseteq Nat
  /\ \A i \in LED : 1 <= i /\ i <= LEDs /\ (i # LEDs => i + 1 \in LED)
BY Ws2811Assumption DEF LED

LEMMA NoneBelow == \A i \in LED : ~(i < 1)
BY LedRange

LEMMA UpTo ==
  ASSUME NEW n \in LED, NEW i \in LED
  PROVE  i < n + 1 <=> i <= n
BY LedRange

(* Only the thread that is alone can be the one that makes the step.        *)
LEMMA OneAlone ==
  ASSUME TypeInv, Crew, NEW t \in Threads, NEW u \in Threads, Render(u), alone'[t]
  PROVE  t = u /\ (alone[t] \/ Begin(t))
<1>1. CASE Begin(u)
  <2>1. Quiet(Threads)
    BY <1>1 DEF Begin, Each
  <2>2. alone' = [alone EXCEPT ![u] = TRUE] /\ pc[t] = "idle"
    BY <1>1, <2>1 DEF Begin, Quiet
  <2>3. ~alone[t]
    BY <2>2 DEF Crew
  <2> QED
    BY <1>1, <2>2, <2>3 DEF TypeInv, TypeOK
<1>2. CASE ~Begin(u)
  <2>1. alone' = alone \/ alone' = [alone EXCEPT ![u] = FALSE]
    BY <1>2 DEF Render, SetLed, SetBits, Wait, DmaFailed, dma_start, ReadClock, Stamp, history
  <2>2. alone[t]
    BY <2>1 DEF TypeInv, TypeOK
  <2>3. pc[u] # "idle"
    BY <1>2, Goes DEF Render, SetLed, SetBits, Wait, DmaFailed, dma_start, ReadClock, Stamp,
                      EachLed, Goto
  <2> QED
    BY <2>2, <2>3 DEF Crew
<1> QED
  BY <1>1, <1>2

LEMMA WorkingStep ==
  ASSUME TypeInv, Crew, NEW t \in Threads, alone[t], Working(t), alone'[t],
         SetLed(t) \/ SetBits(t) \/ Wait(t) \/ dma_start(t) \/ ReadClock(t)
  PROVE  Working(t)'
<1>t. TypeOK /\ call[t] \in Calls
  BY DEF TypeInv, Crew
<1>f. \A u \in Threads \ {t} : pc[u] = "idle"
  BY DEF Crew
<1>1. CASE SetLed(t)
  <2>1. EachLed(t, "leds", "bits") /\ leds' = [leds EXCEPT ![led[t]] = call[t].leds[led[t]]]
        /\ UNCHANGED <<brightness, call>>
    BY <1>1 DEF SetLed
  <2>2. /\ pc[t] = "leds" /\ led[t] \in LED
        /\ \/ led[t] = LEDs /\ pc'[t] = "bits" /\ led'[t] = 1
           \/ led[t] # LEDs /\ pc'[t] = "leds" /\ led'[t] = led[t] + 1
    BY <1>t, <2>1, EachLedGoes
  <2>3. \A i \in LED : i <= led[t] => leds'[i] = call[t].leds[i]
    <3> SUFFICES ASSUME NEW i \in LED, i <= led[t]  PROVE leds'[i] = call[t].leds[i]
      OBVIOUS
    <3>1. CASE i = led[t]
      BY <1>t, <2>1, <3>1 DEF TypeOK
    <3>2. CASE i # led[t]
      <4>1. i < led[t]
        BY <2>2, <3>2, LedRange
      <4> QED
        BY <1>t, <2>1, <2>2, <3>2, <4>1 DEF Working, TypeOK
    <3> QED
      BY <3>1, <3>2
  <2>4. CASE led[t] = LEDs
    <3>1. pc'[t] = "bits" /\ led'[t] = 1 /\ \A i \in LED : leds'[i] = call'[t].leds[i]
      BY <2>1, <2>2, <2>3, <2>4, LedRange
    <3>2. Shows(buffer[block], call[t], led[t])'
      BY <3>1, LedRange DEF Shows
    <3>3. brightness' = call'[t].brightness
      BY <2>1, <2>2 DEF Working
    <3> QED
      BY <3>1, <3>2, <3>3 DEF Working
  <2>5. CASE led[t] # LEDs
    <3>1. pc'[t] = "leds" /\ led'[t] = led[t] + 1
      BY <2>2, <2>5
    <3>l. \A i \in LED : i < led'[t] => i <= led[t]
      BY <2>2, <3>1, UpTo
    <3>2. \A i \in LED : i < led'[t] => leds'[i] = call'[t].leds[i]
      BY <2>1, <2>3, <3>l
    <3>3. brightness' = call'[t].brightness
      BY <2>1, <2>2 DEF Working
    <3> QED
      BY <3>1, <3>2, <3>3 DEF Working
  <2> QED
    BY <2>4, <2>5
<1>2. CASE SetBits(t)
  <2> DEFINE pixel == [colour |-> leds[led[t]], brightness |-> brightness]
             written == [buffer[block] EXCEPT ![led[t]] = pixel]
  <2>1. EachLed(t, "bits", "wait") /\ UNCHANGED <<brightness, leds, call, block>>
    BY <1>2 DEF SetBits, program, channel
  <2>2. /\ pc[t] = "bits" /\ led[t] \in LED
        /\ \/ led[t] = LEDs /\ pc'[t] = "wait" /\ led'[t] = 1
           \/ led[t] # LEDs /\ pc'[t] = "bits" /\ led'[t] = led[t] + 1
    BY <1>t, <2>1, EachLedGoes
  <2>3. ~\E u \in Threads \ {t} : pc[u] = "bits"
    BY <1>f
  <2>4. buffer' = [buffer EXCEPT ![block] = [j \in LED |-> written[j]]]
    BY <1>2, <2>3 DEF SetBits
  <2>5. \A i \in LED : buffer'[block][i] = IF i = led[t] THEN pixel ELSE buffer[block][i]
    BY <1>t, <2>2, <2>4 DEF TypeOK
  <2>6. pixel = Frame(call[t])[led[t]]
    BY <2>2, FrameAt DEF Working
  <2> HIDE DEF pixel, written
  <2>7. \A i \in LED : i <= led[t] => buffer'[block][i] = Frame(call[t])[i]
    <3> SUFFICES ASSUME NEW i \in LED, i <= led[t]  PROVE buffer'[block][i] = Frame(call[t])[i]
      OBVIOUS
    <3>1. CASE i = led[t]
      BY <2>5, <2>6, <3>1
    <3>2. CASE i # led[t]
      <4>1. i < led[t]
        BY <2>2, <3>2, LedRange
      <4> QED
        BY <2>2, <2>5, <3>2, <4>1 DEF Working, Shows
    <3> QED
      BY <3>1, <3>2
  <2>8. CASE led[t] = LEDs
    <3>1. pc'[t] = "wait"
      BY <2>2, <2>8
    <3>2. Shows(buffer[block], call[t], LEDs + 1)'
      BY <2>1, <2>7, <2>8, LedRange DEF Shows
    <3> QED
      BY <3>1, <3>2 DEF Working
  <2>9. CASE led[t] # LEDs
    <3>1. pc'[t] = "bits" /\ led'[t] = led[t] + 1
      BY <2>2, <2>9
    <3>l. \A i \in LED : i < led'[t] => i <= led[t]
      BY <2>2, <3>1, UpTo
    <3>2. Shows(buffer[block], call[t], led[t])'
      BY <2>1, <2>7, <3>l DEF Shows
    <3> QED
      BY <2>1, <2>2, <3>1, <3>2 DEF Working
  <2> QED
    BY <2>8, <2>9
<1>3. CASE Wait(t)
  <2>1. pc[t] = "wait" /\ pc'[t] = "pause"
    BY <1>3, <1>t, Goes DEF Wait
  <2>2. dma' = "idle" /\ UNCHANGED <<buffer, block, call>>
    BY <1>3 DEF Wait, engine, program
  <2> QED
    BY <2>1, <2>2 DEF Working, Shows
<1>4. CASE dma_start(t)
  <2>1. pc'[t] = "clock"
    BY <1>4, <1>t, Goes DEF dma_start
  <2> QED
    BY <2>1 DEF Working
<1>5. CASE ReadClock(t)
  <2>1. pc'[t] = "stamp" /\ fresh'[t] = TRUE
    BY <1>5, <1>t, Goes DEF ReadClock, TypeOK
  <2> QED
    BY <2>1 DEF Working
<1> QED
  BY <1>1, <1>2, <1>3, <1>4, <1>5

LEMMA WorkingNext ==
  ASSUME TypeInv, Crew, NEW t \in Threads, alone[t] => Working(t), [Next]_vars, alone'[t]
  PROVE  Working(t)'
<1>t. TypeOK
  BY DEF TypeInv
<1>0. alone[t] => phase = "ready"
  BY DEF Crew
<1>1. ASSUME NEW step \in Resource, Acquire(step) \/ Fail(step)  PROVE FALSE
  <2>1. phase = step /\ alone' = alone
    BY <1>1 DEF Acquire, Fail, history
  <2> QED
    BY <1>0, <2>1, StepNames
<1>2. ~SetupPwm /\ ~End /\ ~Restart
  BY <1>0 DEF SetupPwm, End, EndProgram, Restart, history, Each
<1>3. CASE Hardware \/ UNCHANGED vars
  <2>1. UNCHANGED <<program, channel, buffer, pc, locals, alone>>
    BY <1>3 DEF Hardware, Send, DmaError, Latch, vars, history
  <2>2. dma = "idle" => dma' = "idle"
    BY <1>3 DEF Hardware, Send, DmaError, Latch, vars, engine
  <2> QED
    BY <2>1, <2>2 DEF Working, Shows, program, channel, locals
<1>4. ASSUME NEW u \in Threads, Render(u)  PROVE Working(t)'
  <2>1. t = u /\ (alone[t] \/ Begin(t))
    BY <1>4, OneAlone
  <2>2. CASE Begin(t)
    <3>1. PICK c \in Calls : call' = [call EXCEPT ![t] = c] /\ brightness' = c.brightness
      BY <2>2 DEF Begin
    <3>2. pc[t] = "idle" /\ pc'[t] = "leds" /\ led'[t] = led[t] /\ call'[t] = c
      BY <1>t, <2>2, <3>1, Goes DEF Begin, TypeOK
    <3>3. led'[t] = 1
      BY <3>2 DEF Crew
    <3>4. \A i \in LED : i < led'[t] => leds'[i] = (call'[t].leds)[i]
      BY <3>3, NoneBelow
    <3> QED
      BY <3>1, <3>2, <3>4 DEF Working
  <2>3. CASE DmaFailed(t) \/ Stamp(t)
    <3>1. alone'[t] = FALSE
      BY <1>t, <2>3 DEF DmaFailed, Stamp, TypeOK
    <3> QED
      BY <3>1
  <2>4. CASE SetLed(t) \/ SetBits(t) \/ Wait(t) \/ dma_start(t) \/ ReadClock(t)
    <3>1. alone[t]
      BY <2>1, <2>4, Goes DEF Begin, SetLed, SetBits, Wait, dma_start, ReadClock, EachLed, Goto
    <3> QED
      BY <2>4, <3>1, WorkingStep
  <2> QED
    BY <1>4, <2>1, <2>2, <2>3, <2>4 DEF Render
<1> QED
  BY <1>1, <1>2, <1>3, <1>4 DEF Next, Initialise

(* A frame that is on its way arrives, unless the DMA fails.                 *)
LEMMA HardwareKeeps ==
  ASSUME TypeOK, NEW c, OnItsWay(c), Hardware
  PROVE  OnItsWay(c)'
<1>1. CASE Send
  <2>1. dma = "active" /\ heard /\ UNCHANGED <<buffer, dmaBlock>> /\ pos \in LED
    BY <1>1 DEF Send, OnItsWay, TypeOK
  <2>2. strip' = [strip EXCEPT ![pos] = buffer[dmaBlock][pos]]
    BY <1>1, <2>1 DEF Send
  <2>3. Shows(buffer[dmaBlock], c, LEDs + 1) /\ Shows(strip, c, pos)
    BY <2>1 DEF OnItsWay
  <2>4. \A i \in LED : i <= pos => strip'[i] = Frame(c)[i]
    <3> SUFFICES ASSUME NEW i \in LED, i <= pos  PROVE strip'[i] = Frame(c)[i]
      OBVIOUS
    <3>1. CASE i = pos
      <4>1. buffer[dmaBlock][pos] = Frame(c)[pos]
        BY <2>1, <2>3, UpTo, LedRange DEF Shows
      <4> QED
        BY <2>1, <2>2, <3>1, <4>1 DEF TypeOK
    <3>2. CASE i # pos
      <4>1. i < pos
        BY <2>1, <3>2, LedRange
      <4> QED
        BY <2>2, <2>3, <3>2, <4>1 DEF TypeOK, Shows
    <3> QED
      BY <3>1, <3>2
  <2>5. CASE pos = LEDs
    <3>1. dma' = "idle"
      BY <1>1, <2>5 DEF Send
    <3>2. Shows(strip, c, LEDs + 1)'
      BY <2>4, <2>5, LedRange DEF Shows
    <3> QED
      BY <3>1, <3>2 DEF OnItsWay
  <2>6. CASE pos # LEDs
    <3>1. pos' = pos + 1 /\ UNCHANGED <<dma, heard>>
      BY <1>1, <2>6 DEF Send
    <3>2. \A i \in LED : i < pos' => i <= pos
      BY <2>1, <3>1, UpTo
    <3>3. Shows(strip, c, pos)' /\ Shows(buffer[dmaBlock], c, LEDs + 1)'
      BY <2>1, <2>3, <2>4, <3>2 DEF Shows
    <3> QED
      BY <2>1, <3>1, <3>3 DEF OnItsWay
  <2> QED
    BY <2>5, <2>6
<1>2. CASE DmaError
  BY <1>2 DEF DmaError, OnItsWay
<1>3. CASE Latch
  BY <1>3 DEF Latch, OnItsWay, Shows
<1> QED
  BY <1>1, <1>2, <1>3 DEF Hardware

(* A frame on its way stays so while nobody touches the buffer or the DMA.   *)
LEMMA StaysOnItsWay ==
  ASSUME NEW c, OnItsWay(c), UNCHANGED <<dma, dmaBlock, pos, heard, strip>>,
         dma = "active" => buffer'[dmaBlock] = buffer[dmaBlock]
  PROVE  OnItsWay(c)'
BY DEF OnItsWay, Shows

(* The stamp is that of the last frame, or about to be.                      *)
LEMMA StampedNext == ShowInv /\ Crew' /\ Run' /\ [Next]_vars => Stamped'
<1> SUFFICES ASSUME ShowInv, Crew', Run', [Next]_vars, streak' > 0, phase' = "ready",
                    \A t \in Threads : pc'[t] \notin {"pause", "clock", "stamp"}
             PROVE  stampCurrent'
  BY DEF Stamped
<1>t. TypeOK /\ Crew /\ Run /\ Stamped /\ streak \in 0 .. 2
  BY DEF ShowInv, TypeInv, TypeOK
<1>1. ASSUME NEW t \in Threads, Stamp(t)  PROVE stampCurrent'
  <2>1. alone[t]
    BY <1>1 DEF Stamp
  <2>2. pc[t] = "stamp" /\ Working(t)
    BY <1>1, <1>t, <2>1, Goes DEF Stamp, ShowInv
  <2> QED
    BY <1>1, <2>2 DEF Stamp, Working
<1>2. ASSUME NEW t \in Threads, dma_start(t) \/ ReadClock(t) \/ Wait(t)  PROVE FALSE
  <2>1. pc'[t] \in {"pause", "clock", "stamp"}
    BY <1>2, <1>t, Goes DEF dma_start, ReadClock, Wait
  <2> QED
    BY <2>1
<1>3. ASSUME NEW t \in Threads, DmaFailed(t)  PROVE FALSE
  BY <1>3 DEF DmaFailed
<1>4. ASSUME NEW t \in Threads, Begin(t) \/ SetLed(t) \/ SetBits(t)  PROVE stampCurrent'
  <2>1. phase = "ready" /\ pc[t] \notin {"pause", "clock", "stamp"}
        /\ \A u \in Threads \ {t} : pc'[u] = pc[u]
    <3>1. CASE Begin(t)
      BY <3>1, <1>t, Goes DEF Begin
    <3>2. CASE SetLed(t) \/ SetBits(t)
      <4>1. PICK label \in {"leds", "bits"}, next \in {"bits", "wait"} : EachLed(t, label, next)
        BY <3>2 DEF SetLed, SetBits
      <4> QED
        BY <4>1, <1>t, EachLedGoes
    <3> QED
      BY <1>4, <3>1, <3>2
  <2>2. stampCurrent' = stampCurrent
    BY <1>4 DEF Begin, SetLed, SetBits
  <2>3. streak > 0
    <3>1. streak' = streak \/ streak' = 0
      BY <1>4 DEF Begin, SetLed, SetBits, history
    <3> QED
      BY <3>1
  <2> QED
    BY <1>t, <2>1, <2>2, <2>3 DEF Stamped
<1>5. CASE Hardware \/ UNCHANGED vars
  <2>1. UNCHANGED <<streak, phase, pc, stampCurrent>>
    BY <1>5 DEF Hardware, Send, DmaError, Latch, vars, program, history
  <2> QED
    BY <1>t, <2>1 DEF Stamped
<1>6. ASSUME NEW step \in Resource, Acquire(step) \/ Fail(step)  PROVE FALSE
  <2>1. phase = step /\ streak' = streak
    BY <1>6 DEF Acquire, Fail, history
  <2>2. phase \notin {"ready", "ended"}
    BY <2>1, StepNames
  <2> QED
    BY <1>t, <2>1, <2>2 DEF Run
<1>7. CASE SetupPwm
  <2>1. phase = "pwm" /\ streak' = streak
    BY <1>7 DEF SetupPwm, history
  <2> QED
    BY <1>t, <2>1 DEF Run
<1>8. CASE End
  BY <1>8 DEF End, EndProgram
<1>9. CASE Restart
  BY <1>9 DEF Restart
<1> QED
  BY <1>1, <1>2, <1>3, <1>4, <1>5, <1>6, <1>7, <1>8, <1>9 DEF Next, Initialise, Render

(* dma_start of a thread that is alone, after a call that was: the strip    *)
(* listens, and the buffer holds the thread's frame.                       *)
LEMMA StartsFrame ==
  ASSUME TypeOK, NEW t \in Threads, Working(t), pc[t] = "pause", owes[t], dma_start(t)
  PROVE  OnItsWay(call[t])'
<1>1. line = "silent" /\ dma = "idle" /\ Shows(buffer[block], call[t], LEDs + 1)
  BY DEF dma_start, Working
<1>2. heard' = TRUE /\ dma' = "active" /\ dmaBlock' = block /\ pos' = 1
      /\ UNCHANGED <<buffer, call>>
  BY <1>1 DEF dma_start
<1>3. Shows(buffer[dmaBlock], call[t], LEDs + 1)'
  BY <1>1, <1>2 DEF Shows
<1>4. Shows(strip, call[t], pos)'
  BY <1>2, NoneBelow DEF Shows
<1> QED
  BY <1>2, <1>3, <1>4 DEF OnItsWay

LEMMA SentStep ==
  ASSUME ShowInv, NEW t \in Threads, alone'[t], streak' > 0,
         Begin(t) \/ alone[t], Render(t)
  PROVE  /\ pc'[t] = "pause" => owes'[t]
         /\ pc'[t] \in {"clock", "stamp"} => OnItsWay(call[t])'
<1>t. TypeOK /\ Crew /\ Stamped
  BY DEF ShowInv, TypeInv
<1>1. CASE Begin(t)
  <2>1. pc'[t] = "leds"
    BY <1>1, <1>t, Goes DEF Begin
  <2> QED
    BY <2>1
<1>2. CASE SetLed(t) \/ SetBits(t)
  <2>1. PICK label \in {"leds", "bits"}, next \in {"bits", "wait"} : EachLed(t, label, next)
    BY <1>2 DEF SetLed, SetBits
  <2>2. pc'[t] \in {"leds", "bits", "wait"}
    BY <2>1, <1>t, EachLedGoes
  <2> QED
    BY <2>2
<1>3. CASE DmaFailed(t) \/ Stamp(t)
  <2>1. alone'[t] = FALSE
    BY <1>3, <1>t DEF DmaFailed, Stamp, TypeOK
  <2> QED
    BY <2>1
<1>4. CASE Wait(t)
  <2>1. phase = "ready" /\ pc[t] = "wait" /\ pc'[t] = "pause"
    BY <1>4, <1>t, Goes DEF Wait
  <2>2. streak > 0 /\ owes'[t] = stampCurrent
    BY <1>4, <1>t DEF Wait, history, TypeOK
  <2>3. \A u \in Threads : pc[u] \notin {"pause", "clock", "stamp"}
    BY <1>t, <2>1, <2>2 DEF Crew
  <2> QED
    BY <1>t, <2>1, <2>2, <2>3 DEF Stamped
<1>5. CASE dma_start(t)
  <2>1. pc[t] = "pause" /\ pc'[t] = "clock"
    BY <1>5, <1>t, Goes DEF dma_start
  <2>2. alone[t] /\ streak > 0
    BY <1>5 DEF dma_start, history
  <2>3. Working(t) /\ owes[t]
    BY <2>1, <2>2 DEF ShowInv, Sent
  <2> QED
    BY <1>5, <1>t, <2>1, <2>3, StartsFrame
<1>6. CASE ReadClock(t)
  <2>1. pc[t] = "clock" /\ pc'[t] = "stamp"
    BY <1>6, <1>t, Goes DEF ReadClock
  <2>2. alone[t] /\ streak > 0 /\ UNCHANGED <<call, buffer, dma, dmaBlock, pos, heard, strip>>
    BY <1>6 DEF ReadClock, history, engine
  <2>3. PICK c : c = call[t]
    OBVIOUS
  <2>4. OnItsWay(c)
    BY <2>1, <2>2, <2>3 DEF ShowInv, Sent
  <2>5. OnItsWay(c)'
    BY <2>2, <2>4, StaysOnItsWay
  <2>6. OnItsWay(call[t])'
    BY <2>2, <2>3, <2>5 DEF OnItsWay, Shows
  <2> QED
    BY <2>1, <2>6
<1> QED
  BY <1>1, <1>2, <1>3, <1>4, <1>5, <1>6 DEF Render

LEMMA SentNext == ShowInv /\ [Next]_vars => Sent'
<1> SUFFICES ASSUME ShowInv, [Next]_vars, NEW t \in Threads, alone'[t], streak' > 0
             PROVE  /\ pc'[t] = "pause" => owes'[t]
                    /\ pc'[t] \in {"clock", "stamp"} => OnItsWay(call[t])'
  BY DEF Sent
<1>t. TypeInv /\ TypeOK /\ Crew
  BY DEF ShowInv, TypeInv
<1>0. alone[t] => phase = "ready"
  BY <1>t DEF Crew
<1>1. ASSUME NEW step \in Resource, Acquire(step) \/ Fail(step)  PROVE FALSE
  <2>1. phase = step /\ alone' = alone
    BY <1>1 DEF Acquire, Fail, history
  <2> QED
    BY <1>0, <2>1, StepNames
<1>2. ~SetupPwm /\ ~End /\ ~Restart
  BY <1>0 DEF SetupPwm, End, EndProgram, Restart, history, Each
<1>3. CASE Hardware \/ UNCHANGED vars
  <2>1. UNCHANGED <<pc, owes, call, alone, streak>>
    BY <1>3 DEF Hardware, Send, DmaError, Latch, vars, history, locals
  <2>2. PICK c : c = call[t]
    OBVIOUS
  <2>3. OnItsWay(c) => OnItsWay(c)'
    <3>1. CASE Hardware
      BY <1>t, <3>1, HardwareKeeps
    <3>2. CASE UNCHANGED vars
      BY <3>2, StaysOnItsWay DEF vars, engine
    <3> QED
      BY <1>3, <3>1, <3>2
  <2>4. OnItsWay(c)' => OnItsWay(call[t])'
    BY <2>1, <2>2 DEF OnItsWay, Shows
  <2>5. (pc[t] = "pause" => owes[t]) /\ (pc[t] \in {"clock", "stamp"} => OnItsWay(c))
    BY <2>1, <2>2 DEF ShowInv, Sent
  <2> QED
    BY <2>1, <2>3, <2>4, <2>5
<1>4. ASSUME NEW u \in Threads, Render(u)
      PROVE  /\ pc'[t] = "pause" => owes'[t]
             /\ pc'[t] \in {"clock", "stamp"} => OnItsWay(call[t])'
  <2>1. t = u /\ (alone[t] \/ Begin(t))
    BY <1>4, <1>t, OneAlone
  <2> QED
    BY <1>4, <2>1, SentStep
<1> QED
  BY <1>1, <1>2, <1>3, <1>4 DEF Next, Initialise

LEMMA ShownNext == ShowInv /\ [Next]_vars => Shown'
<1> SUFFICES ASSUME ShowInv, [Next]_vars, streak' = 2, \A t \in Threads : pc'[t] = "idle"
             PROVE  OnItsWay(last)'
  BY DEF Shown, Quiet
<1>t. TypeOK /\ Crew /\ Run
  BY DEF ShowInv, TypeInv
<1>k. ASSUME UNCHANGED <<streak, last, pc>>,
             NEW c, c = last, OnItsWay(c) => OnItsWay(c)'
      PROVE  OnItsWay(last)'
  <2>1. OnItsWay(c)'
    BY <1>k DEF ShowInv, Shown, Quiet
  <2> QED
    BY <1>k, <2>1 DEF OnItsWay, Shows
<1>1. ASSUME NEW step \in Resource, Acquire(step) \/ Fail(step)  PROVE FALSE
  <2>1. phase = step /\ streak' = streak
    BY <1>1 DEF Acquire, Fail, history
  <2>2. phase \notin {"ready", "ended"}
    BY <2>1, StepNames
  <2> QED
    BY <1>t, <2>1, <2>2 DEF Run
<1>2. CASE SetupPwm
  <2>1. phase = "pwm" /\ streak' = streak
    BY <1>2 DEF SetupPwm, history
  <2> QED
    BY <1>t, <2>1 DEF Run
<1>3. CASE Restart
  BY <1>3 DEF Restart
<1>4. CASE End
  <2>1. Quiet(Threads) /\ UNCHANGED <<streak, last>>
    BY <1>4 DEF End, EndProgram
  <2>2. UNCHANGED engine
    BY <1>4 DEF End, EndProgram
  <2>3. dma = "active" => buffer'[dmaBlock] = buffer[dmaBlock]
    BY <1>4, <1>t DEF End, TypeOK
  <2>4. PICK c : c = last
    OBVIOUS
  <2>5. OnItsWay(c)
    BY <2>1, <2>4 DEF ShowInv, Shown
  <2>6. OnItsWay(c)'
    BY <2>2, <2>3, <2>5, StaysOnItsWay DEF engine
  <2> QED
    BY <2>1, <2>4, <2>6 DEF OnItsWay, Shows
<1>5. CASE Hardware \/ UNCHANGED vars
  <2>1. UNCHANGED <<pc, streak, last>>
    BY <1>5 DEF Hardware, Send, DmaError, Latch, vars, history
  <2>2. PICK c : c = last
    OBVIOUS
  <2>3. OnItsWay(c) => OnItsWay(c)'
    <3>1. CASE Hardware
      BY <1>t, <3>1, HardwareKeeps
    <3>2. CASE UNCHANGED vars
      BY <3>2, StaysOnItsWay DEF vars, engine
    <3> QED
      BY <1>5, <3>1, <3>2
  <2> QED
    BY <1>k, <2>1, <2>2, <2>3
<1>6. ASSUME NEW t \in Threads, Render(t)  PROVE OnItsWay(last)'
  <2>1. CASE Begin(t) \/ Wait(t) \/ dma_start(t) \/ ReadClock(t)
    <3>1. PICK from \in {"idle", "wait", "pause", "clock"}, to \in {"leds", "pause", "clock", "stamp"} :
            Goto(t, from, to)
      BY <2>1 DEF Begin, Wait, dma_start, ReadClock
    <3>2. pc'[t] # "idle"
      BY <1>t, <3>1, Goes
    <3> QED
      BY <3>2
  <2>2. CASE SetLed(t) \/ SetBits(t)
    <3>1. PICK label \in {"leds", "bits"}, next \in {"bits", "wait"} : EachLed(t, label, next)
      BY <2>2 DEF SetLed, SetBits
    <3>2. pc'[t] # "idle"
      BY <1>t, <3>1, EachLedGoes
    <3> QED
      BY <3>2
  <2>3. CASE DmaFailed(t)
    BY <2>3 DEF DmaFailed
  <2>4. CASE Stamp(t)
    <3>1. alone[t] /\ streak > 0 /\ last' = call[t]
      BY <2>4, <1>t DEF Stamp, TypeOK
    <3>2. pc[t] = "stamp" /\ UNCHANGED <<buffer, dma, dmaBlock, pos, heard, strip>>
      BY <2>4, <1>t, Goes DEF Stamp, engine
    <3>3. PICK c : c = call[t]
      OBVIOUS
    <3>4. OnItsWay(c)
      BY <3>1, <3>2, <3>3 DEF ShowInv, Sent
    <3>5. OnItsWay(c)'
      BY <3>2, <3>4, StaysOnItsWay
    <3> QED
      BY <3>1, <3>3, <3>5 DEF OnItsWay, Shows
  <2> QED
    BY <1>6, <2>1, <2>2, <2>3, <2>4 DEF Render
<1> QED
  BY <1>1, <1>2, <1>3, <1>4, <1>5, <1>6 DEF Next, Initialise

LEMMA ShowNext == ShowInv /\ [Next]_vars => ShowInv'
<1> SUFFICES ASSUME ShowInv, [Next]_vars  PROVE ShowInv'
  OBVIOUS
<1>1. TypeInv'
  BY TypeNext DEF ShowInv
<1>2. Crew' /\ Run'
  BY CrewNext DEF ShowInv
<1>3. \A t \in Threads : alone'[t] => Working(t)'
  BY WorkingNext DEF ShowInv
<1> QED
  BY <1>1, <1>2, <1>3, StampedNext, SentNext, ShownNext DEF ShowInv

(* The second of two calls that no other overlaps shows, once the engine    *)
(* is done: whatever was in the buffer, and whoever rendered before.       *)
THEOREM SecondCallSettles == Spec => []SettledShows
<1>1. ShowInv => SettledShows
  <2> SUFFICES ASSUME ShowInv, NEW c \in Calls, Settled(c), dma = "idle"  PROVE strip = Frame(c)
    BY DEF SettledShows
  <2>1. Shows(strip, c, LEDs + 1)
    BY DEF ShowInv, Shown, Settled, OnItsWay
  <2>2. \A i \in LED : strip[i] = Frame(c)[i]
    BY <2>1, UpTo, LedRange DEF Shows
  <2>3. strip \in [LED -> Pixel]
    BY DEF ShowInv, TypeInv, TypeOK
  <2> QED
    BY <2>2, <2>3 DEF Frame
<1> QED
  BY <1>1, ShowInit, ShowNext, PTL DEF Spec
===============================================================================
