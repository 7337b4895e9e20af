-------------------------------- MODULE Ws2811 --------------------------------
(***************************************************************************)
(* The LED strip: ws2811_init with its failures, ws2811_render as main,     *)
(* fun1 and fun2 call it through GRB_work and GRB_MultiColour_work without *)
(* a lock, the DMA engine that sends the pixel buffer while the program may *)
(* rewrite it, and the memory of the GPU, which outlives the program.      *)
(*                                                                         *)
(* A pixel is a colour at a brightness; its 72 symbol bits share words with *)
(* its neighbours', so a pixel written while another thread writes the     *)
(* buffer may come out Garbled, and so may its neighbours.                 *)
(***************************************************************************)
EXTENDS Integers

CONSTANTS Threads,   \* who renders
          LEDs,      \* length of the strip
          Calls,     \* what the callers ask for: [leds |-> colours, brightness |-> value]
          Memory,    \* the GPU's memory, in buffers; it hands out the first free one
          NoCall

ASSUME Ws2811Assumption == /\ LEDs \in Nat \ {0} /\ Memory \in Nat \ {0}
                           /\ \A c \in Calls : DOMAIN c.leds = 1 .. LEDs
                           /\ NoCall \notin Calls

LED == 1 .. LEDs
Blocks == 1 .. Memory
Colour == {0} \cup UNION {{c.leds[i] : i \in LED} : c \in Calls}
InitialBrightness == 100
Brightness == {c.brightness : c \in Calls} \cup {InitialBrightness}
Lit == [colour : Colour, brightness : Brightness]
Garbled == [colour |-> "garbled"]   Dark == [colour |-> "dark"]
Pixel == Lit \cup {Garbled, Dark}

Frame(c) == [i \in LED |-> [colour |-> c.leds[i], brightness |-> c.brightness]]

VARIABLES phase, held,                  \* ws2811_init: its next step, what it has acquired
          gpu, block,                   \* memory in use, this program's buffer
          leds, brightness,             \* ledstring.channel[0]
          buffer,                       \* pxl_raw of every block
          stampCurrent,                 \* previous_timestamp is that of the last dma_start
          pc, call, led, owes, fresh,   \* of each rendering thread
          dma, dmaBlock, pos,           \* the DMA engine and the pixel it sends next
          line, heard,                  \* the wire, and whether the strip takes this frame
          strip,
          alone, streak, last           \* history: undisturbed calls in a row

program == <<phase, held, gpu, block>>
channel == <<leds, brightness>>
engine == <<dma, dmaBlock, pos, line, heard, strip>>
history == <<alone, streak, last>>
locals == <<call, led, owes, fresh>>
vars == <<program, channel, buffer, stampCurrent, pc, locals, engine, history>>

Steps == <<"device", "mailbox", "memory", "lock", "map", "heap", "registers", "pwm">>
Resource == {Steps[k] : k \in 1 .. 7}
Phase == {Steps[k] : k \in 1 .. 8} \cup {"ready", "failed", "ended"}

Each(x) == [t \in Threads |-> x]
Quiet(T) == \A u \in T : pc[u] = "idle"
NoColours == [i \in LED |-> 0]
NoPixels == [i \in LED |-> Dark]

Init == /\ phase = "device" /\ held = {}
        /\ gpu = {} /\ block = 1
        /\ leds = NoColours /\ brightness = InitialBrightness
        /\ buffer = [b \in Blocks |-> NoPixels]
        /\ stampCurrent = FALSE
        /\ pc = Each("idle") /\ call = Each(NoCall) /\ led = Each(1)
        /\ owes = Each(FALSE) /\ fresh = Each(FALSE)
        /\ dma = "idle" /\ dmaBlock = block /\ pos = 1
        /\ line = "silent" /\ heard = FALSE /\ strip = NoPixels
        /\ alone = Each(FALSE) /\ streak = 0 /\ last = NoCall

(***************************************************************************)
(* ws2811_init                                                             *)
(***************************************************************************)
Following(step) == Steps[1 + CHOOSE k \in 1 .. 7 : Steps[k] = step]

Acquire(step) ==
  /\ phase = step /\ phase' = Following(step)
  /\ held' = held \cup {step}
  /\ IF step = "memory"
       THEN LET free == Blocks \ gpu IN
            /\ block' \in free /\ \A other \in free : block' <= other
            /\ gpu' = gpu \cup {block'}
       ELSE UNCHANGED <<gpu, block>>
  /\ IF step = "heap"
       THEN /\ buffer' = [buffer EXCEPT ![block] = NoPixels]
            /\ leds' = NoColours
       ELSE UNCHANGED <<buffer, leds>>
  /\ UNCHANGED <<brightness, stampCurrent, pc, locals, engine, history>>

(* ws2811_cleanup; it never unmaps the registers.                          *)
CleanedUp_KeepsMemory == held \ {"heap", "map", "lock", "mailbox", "device"}
CleanedUp == held \ {"heap", "map", "lock", "memory", "mailbox", "device"}

(* An early return keeps what it has; mem_free after a failed lock gets the *)
(* size where it wants the memory, and frees nothing. map_registers may    *)
(* fail half-way.                                                          *)
Fail(step) ==
  /\ phase = step /\ phase' = "failed"
  /\ held' = CASE step \in {"device", "mailbox", "memory", "lock"} -> held
               [] step \in {"map", "heap"} -> CleanedUp
               [] step = "registers" -> CleanedUp \cup {"registers"}
  /\ gpu' = IF "memory" \in held \ held' THEN gpu \ {block} ELSE gpu
  /\ UNCHANGED <<block, channel, buffer, stampCurrent, pc, locals, engine, history>>

(* stop_pwm cuts off a frame of an earlier program; cs = 0 stops the DMA   *)
(* but does not clear its error.                                           *)
SetupPwm ==
  /\ phase = "pwm" /\ phase' = "ready"
  /\ dma' = IF dma = "active" THEN "idle" ELSE dma
  /\ IF dma = "active"
       THEN /\ line' = "gap" /\ heard' = FALSE /\ pos' = 1
            /\ strip' = IF heard THEN [strip EXCEPT ![pos] = Garbled] ELSE strip
       ELSE UNCHANGED <<line, heard, pos, strip>>
  /\ UNCHANGED <<held, gpu, block, channel, buffer, stampCurrent, pc, locals,
                 dmaBlock, history>>

(* GRBInit goes on after a failure; the first GRB_work writes through the   *)
(* NULL of leds. The program also ends with power-off and ^C, at any point, *)
(* and never calls ws2811_fini: the GPU keeps its memory.                  *)
EndProgram ==
  /\ phase # "ended" /\ phase' = "ended"
  /\ held' = {} /\ leds' = NoColours /\ brightness' = InitialBrightness
  /\ stampCurrent' = FALSE
  /\ pc' = Each("idle") /\ call' = Each(NoCall) /\ led' = Each(1)
  /\ owes' = Each(FALSE) /\ fresh' = Each(FALSE) /\ alone' = Each(FALSE)
  /\ IF Quiet(Threads) THEN UNCHANGED <<streak, last>> ELSE streak' = 0 /\ last' = NoCall
  /\ UNCHANGED <<block, engine>>

End_FreesMemory == EndProgram /\ gpu' = gpu \ {block} /\ UNCHANGED buffer

(* What no DMA reads is forgotten: pwm_raw_init clears a block before use. *)
End ==
  /\ EndProgram
  /\ buffer' = [b \in Blocks |-> IF dma = "active" /\ b = dmaBlock THEN buffer[b] ELSE NoPixels]
  /\ UNCHANGED gpu

Restart ==
  /\ phase = "ended" /\ phase' = "device"
  /\ streak' = 0 /\ last' = NoCall
  /\ UNCHANGED <<held, gpu, block, channel, buffer, stampCurrent, pc, locals, engine, alone>>

(***************************************************************************)
(* GRB_work and GRB_MultiColour_work                                       *)
(***************************************************************************)
Goto(t, from, to) == phase = "ready" /\ pc[t] = from /\ pc' = [pc EXCEPT ![t] = to]

LastLed_OneMore == LEDs + 1
LastLed == LEDs

(* One turn of a loop over the LEDs of a thread, then on to the next label. *)
EachLed(t, label, next) ==
  /\ Goto(t, label, IF led[t] = LastLed THEN next ELSE label)
  /\ led' = [led EXCEPT ![t] = IF led[t] = LastLed THEN 1 ELSE led[t] + 1]

Begin(t) ==
  /\ Goto(t, "idle", "leds")
  /\ \E c \in Calls : call' = [call EXCEPT ![t] = c] /\ brightness' = c.brightness
  /\ alone' = IF Quiet(Threads) THEN [alone EXCEPT ![t] = TRUE]
                                ELSE Each(FALSE)
  /\ IF Quiet(Threads) THEN UNCHANGED <<streak, last>> ELSE streak' = 0 /\ last' = NoCall
  /\ UNCHANGED <<program, leds, buffer, stampCurrent, led, owes, fresh, engine>>

SetLed(t) ==
  /\ EachLed(t, "leds", "bits")
  /\ leds' = [leds EXCEPT ![led[t]] = call[t].leds[led[t]]]
  /\ UNCHANGED <<program, brightness, buffer, stampCurrent, call, owes, fresh, engine, history>>

(***************************************************************************)
(* ws2811_render: the bits of one LED, by read-modify-write                *)
(***************************************************************************)
Neighbours(i) == {j \in LED : j \in i - 1 .. i + 1}

SetBits(t) ==
  /\ EachLed(t, "bits", "wait")
  /\ LET i == led[t]
         pixel == [colour |-> leds[i], brightness |-> brightness]
         written == [buffer[block] EXCEPT ![i] = pixel]
         clash == \E u \in Threads \ {t} : pc[u] = "bits"
     IN \E G \in SUBSET (IF clash THEN Neighbours(i) ELSE {}) :
          buffer' = [buffer EXCEPT ![block] =
                       [j \in LED |-> IF j \in G THEN Garbled ELSE written[j]]]
  /\ UNCHANGED <<program, channel, stampCurrent, call, owes, fresh, engine, history>>

(* ws2811_wait, then the wait for the strip to latch: render_wait_time after *)
(* previous_timestamp. A stamp older than the last dma_start may let the    *)
(* thread go at once.                                                      *)
Wait_Skipped(t) ==
  /\ Goto(t, "wait", "pause")
  /\ owes' = [owes EXCEPT ![t] = stampCurrent]
  /\ UNCHANGED <<program, channel, buffer, stampCurrent, call, led, fresh, engine, history>>

Wait(t) ==
  /\ dma = "idle"
  /\ Goto(t, "wait", "pause")
  /\ owes' = [owes EXCEPT ![t] = stampCurrent]
  /\ UNCHANGED <<program, channel, buffer, stampCurrent, call, led, fresh, engine, history>>

(* The error stays set: only dma_start clears it, and nobody gets there.   *)
DmaFailed(t) ==
  /\ dma = "error"
  /\ Goto(t, "wait", "idle")
  /\ call' = [call EXCEPT ![t] = NoCall]
  /\ alone' = [alone EXCEPT ![t] = FALSE] /\ streak' = 0 /\ last' = NoCall
  /\ UNCHANGED <<program, channel, buffer, stampCurrent, led, owes, fresh, engine>>

(* dma_start: the reset cuts off a frame another thread has started.       *)
dma_start(t) ==
  /\ owes[t] => line = "silent"
  /\ Goto(t, "pause", "clock")
  /\ dma' = "active" /\ dmaBlock' = block /\ pos' = 1
  /\ heard' = (line = "silent" /\ dma # "active")
  /\ strip' = IF dma = "active" /\ heard THEN [strip EXCEPT ![pos] = Garbled] ELSE strip
  /\ stampCurrent' = FALSE
  /\ owes' = Each(FALSE)
  /\ fresh' = Each(FALSE)
  /\ UNCHANGED <<program, channel, buffer, call, led, line, history>>

(* get_microsecond_timestamp, then the store.                              *)
ReadClock(t) ==
  /\ Goto(t, "clock", "stamp")
  /\ fresh' = [fresh EXCEPT ![t] = TRUE]
  /\ UNCHANGED <<program, channel, buffer, stampCurrent, call, led, owes, engine, history>>

Stamp(t) ==
  /\ Goto(t, "stamp", "idle")
  /\ stampCurrent' = fresh[t]
  /\ streak' = IF ~alone[t] THEN 0 ELSE IF streak = 0 THEN 1 ELSE 2
  /\ last' = IF alone[t] THEN call[t] ELSE NoCall
  /\ call' = [call EXCEPT ![t] = NoCall]
  /\ fresh' = [fresh EXCEPT ![t] = FALSE] /\ alone' = [alone EXCEPT ![t] = FALSE]
  /\ UNCHANGED <<program, channel, buffer, led, owes, engine>>

(***************************************************************************)
(* The DMA engine and the strip. Without a pause on the line the LEDs pass  *)
(* the bits of a frame on instead of taking them.                          *)
(***************************************************************************)
Send ==
  /\ dma = "active"
  /\ strip' = IF heard THEN [strip EXCEPT ![pos] = buffer[dmaBlock][pos]] ELSE strip
  /\ IF pos = LEDs
       THEN pos' = 1 /\ dma' = "idle" /\ line' = "gap" /\ heard' = FALSE
       ELSE pos' = pos + 1 /\ UNCHANGED <<dma, line, heard>>
  /\ UNCHANGED <<program, channel, buffer, stampCurrent, pc, locals, dmaBlock, history>>

DmaError ==
  /\ dma = "active" /\ dma' = "error" /\ line' = "gap"
  /\ pos' = 1 /\ heard' = FALSE
  /\ UNCHANGED <<program, channel, buffer, stampCurrent, pc, locals, dmaBlock, strip, history>>

Latch ==
  /\ line = "gap" /\ dma # "active" /\ line' = "silent"
  /\ UNCHANGED <<program, channel, buffer, stampCurrent, pc, locals,
                 dma, dmaBlock, pos, heard, strip, history>>

Initialise == (\E step \in Resource : Acquire(step) \/ Fail(step)) \/ SetupPwm
Render(t) == \/ Begin(t) \/ SetLed(t) \/ SetBits(t) \/ Wait(t) \/ DmaFailed(t)
             \/ dma_start(t) \/ ReadClock(t) \/ Stamp(t)
Hardware == Send \/ DmaError \/ Latch

Next == Initialise \/ End \/ Restart \/ Hardware \/ \E t \in Threads : Render(t)

Spec == Init /\ [][Next]_vars

(***************************************************************************)
(* Properties                                                              *)
(***************************************************************************)
(* Every variable keeps its type: the loops of GRB_work and ws2811_render   *)
(* stay inside the LEDs of the channel.                                    *)
TypeOK ==
  /\ phase \in Phase /\ held \subseteq Resource
  /\ gpu \subseteq Blocks /\ block \in Blocks /\ dmaBlock \in Blocks
  /\ leds \in [LED -> Colour] /\ brightness \in Brightness
  /\ buffer \in [Blocks -> [LED -> Pixel]] /\ strip \in [LED -> Pixel]
  /\ pc \in [Threads -> {"idle", "leds", "bits", "wait", "pause", "clock", "stamp"}]
  /\ call \in [Threads -> Calls \cup {NoCall}] /\ led \in [Threads -> LED]
  /\ owes \in [Threads -> BOOLEAN] /\ fresh \in [Threads -> BOOLEAN]
  /\ alone \in [Threads -> BOOLEAN]
  /\ dma \in {"idle", "active", "error"} /\ pos \in LED
  /\ line \in {"silent", "gap"} /\ heard \in BOOLEAN /\ stampCurrent \in BOOLEAN
  /\ streak \in 0 .. 2 /\ last \in Calls \cup {NoCall}

(* The DMA never reads memory that has gone back to the GPU, though the     *)
(* program that started it may have ended, crashed and been started again, *)
(* and ws2811_init may have failed and cleaned up in between.              *)
MemoryOutlivesDma == dma = "active" => dmaBlock \in gpu

(* A ws2811_init that fails once its memory is locked leaves nothing behind *)
(* but register maps, which end with the program: the memory goes back to   *)
(* the GPU, although mem_free is first called with the wrong argument.     *)
FailedInitGivesBack ==
  [][(phase' = "failed" /\ "lock" \in held) =>
       held' \subseteq {"registers"} /\ block \notin gpu']_vars

(* Whatever races left behind in the buffer, the timestamp or the DMA, the  *)
(* second of two calls in a row that no other call overlaps shows on the   *)
(* strip as soon as the engine is done, until another call comes.          *)
Settled(c) == streak = 2 /\ last = c /\ Quiet(Threads)

SettledShows == \A c \in Calls : Settled(c) /\ dma = "idle" => strip = Frame(c)
=============================================================================
