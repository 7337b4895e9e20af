------------------------------ MODULE MCIrRemote ------------------------------
(* A button of the new remote whose code is a servo code too and one of the *)
(* old. The app pans left, its limit at no multiple of the step, as in the  *)
(* code; the IR remote tilts up, its limit a step away. The other limits    *)
(* are one: such a servo only ever goes there.                             *)
EXTENDS IrRemote

MCCodes == {\h08f7, \h46b9}
MCKnown == {\h46b9, \h15ea, \h44bb, \h43bc, \h40bf, \h18e7, \h52ad, \h08f7, \h5aa5, \h1ce3,
            \h16e9, \h19e6, \h0cf3, \h42bd, \h4ab5}
MCServoCode == [servoLeft |-> \h08f7, servoRight |-> \h1ce3, servoUp |-> \h0cf3,
                servoDown |-> \h18e7]
MCLow == [k \in Copies |-> [x \in Axes |-> 1100]]
MCHigh == [k \in Copies |-> [x \in Axes |-> IF <<k, x>> = <<"app", "A">> THEN 1140
                                            ELSE IF <<k, x>> = <<"IR", "B">> THEN 1150
                                            ELSE 1100]]
MCStart == [k \in Copies |-> [A |-> MCLow[k]["A"], B |-> MCHigh[k]["B"]]]
=============================================================================
