------------------------------ MODULE MotorBoard ------------------------------
(***************************************************************************)
(* What motordriver.c promises the threads that call it.  ControllerInit   *)
(* releases every motor before the first call.  A call DCMotorRun(m, c)    *)
(* that no other call overlaps takes effect at one instant between its     *)
(* invocation and its return: m is driven as c says, and every other motor *)
(* as the last call on it asked.  Nothing in motordriver.c takes a lock,   *)
(* so calls that overlap promise nothing while they last, not even about   *)
(* motors that none of them names; but once they are over, what they have  *)
(* spoiled is the board, until the next undisturbed call, and what is      *)
(* known of the motors they named, until an undisturbed call names them.   *)
(***************************************************************************)
EXTENDS Naturals

CONSTANTS Thread,       \* the threads that call the driver
          Motor         \* the motors wired to the board

(* The commands that DCMotorRun acts on: BRAKE and unknown numbers return at *)
(* the `default:` of its switches without touching anything.               *)
Command == {"FORWARD", "BACKWARD", "RELEASE"}

(* What the two inputs of a motor's H-bridge can say; "BOTH" (both high) is *)
(* no command, but a board that was just powered up may show it.           *)
Drive == Command \cup {"BOTH"}

NoCall == [phase |-> "idle"]
Call(p, m, c) == [phase |-> p, motor |-> m, cmd |-> c]

VARIABLES dir,          \* dir[m]: how motor m is driven
          want,         \* want[m]: what the last call on m asked for, or "unknown"
          call,         \* call[t]: the DCMotorRun call of thread t
          crowded,      \* calls have overlapped since the driver was last idle
          ready         \* ControllerInit has returned

vars == <<dir, want, call, crowded, ready>>

Init == /\ dir \in [Motor -> Drive]
        /\ want = [m \in Motor |-> "RELEASE"]
        /\ call = [t \in Thread |-> NoCall]
        /\ crowded = FALSE
        /\ ready = FALSE

ControllerInit == /\ ~ready
                  /\ ready' = TRUE
                  /\ dir' = want
                  /\ UNCHANGED <<want, call, crowded>>

Inside == {t \in Thread : call[t] # NoCall}

Invoke(t, m, c) == /\ ready
                   /\ call[t] = NoCall
                   /\ call' = [call EXCEPT ![t] = Call("invoked", m, c)]
                   /\ UNCHANGED <<dir, ready>>

InvokeAlone(t, m, c) == /\ Inside = {}
                        /\ Invoke(t, m, c)
                        /\ crowded' = FALSE
                        /\ want' = [want EXCEPT ![m] = c]

InvokeAmongOthers(t, m, c) ==
  /\ Inside # {}
  /\ Invoke(t, m, c)
  /\ crowded' = TRUE
  /\ want' = [n \in Motor |-> IF n = m \/ \E u \in Inside : call[u].motor = n
                                THEN "unknown" ELSE want[n]]

Apply(t) == /\ call[t].phase = "invoked"
            /\ call' = [call EXCEPT ![t].phase = "applied"]
            /\ dir' \in [Motor -> Drive]
            /\ ~crowded => \A n \in Motor : want[n] # "unknown" => dir'[n] = want[n]
            /\ UNCHANGED <<want, crowded, ready>>

Return(t) == /\ call[t].phase = "applied"
             /\ call' = [call EXCEPT ![t] = NoCall]
             /\ UNCHANGED <<dir, want, crowded, ready>>

Next == \/ ControllerInit
        \/ \E t \in Thread :
              \/ \E m \in Motor, c \in Command :
                    InvokeAlone(t, m, c) \/ InvokeAmongOthers(t, m, c)
              \/ Apply(t)
              \/ Return(t)

SafetySpec == Init /\ [][Next]_vars

Spec == /\ SafetySpec
        /\ WF_vars(ControllerInit)
        /\ \A t \in Thread : WF_vars(Apply(t)) /\ WF_vars(Return(t))
===============================================================================
