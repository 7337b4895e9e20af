------------------------------- MODULE MCWs2811 -------------------------------
(* Two of the threads that render, one LED, GPU memory for two runs of the   *)
(* program; the dark and the lit call of the alarm in remoteserver.c.       *)
EXTENDS Ws2811

MCLEDs == 1
MCCalls == {[leds |-> <<0>>, brightness |-> 0],      \* GRB_work(3, 0, 0)
            [leds |-> <<1>>, brightness |-> 100]}    \* GRB_work(3, getColour, getBrightness)
=============================================================================
