----------------------------- MODULE CameraService -----------------------------
(***************************************************************************)
(* The camera of the car as the user sees it: mjpg-streamer.sh starts,     *)
(* watches and kills the mjpg-streamer process.                            *)
(***************************************************************************)
EXTENDS Integers

CONSTANTS Clients, Tasks

ASSUME ClientsAssumption == "nobody" \notin Clients /\ "camera" \notin Clients

VARIABLES alive, log, cam, skipped, tmpbuffer, buf, size, timestamp, db, streamingState,
          web, copy, user, running, hanging, missed, stopped

Hub == INSTANCE FrameHub
Script == INSTANCE Watchdog

script == <<user, running, hanging, missed, stopped>>
vars == <<alive, log, Hub!own, script>>

Init == Hub!Init /\ Script!Init

ServerStep == Hub!HubNext /\ UNCHANGED script

(* A step of the script may start the process or kill it.                  *)
ScriptStep == /\ Script!ScriptNext
              /\ IF alive /\ ~alive' THEN Hub!Ends ELSE Hub!Stays

Next == ServerStep \/ ScriptStep

(* The tasks sleep for two and three seconds. The mutex is free while      *)
(* cam_thread sleeps for the length of a frame: who waits for it gets it   *)
(* some time. No client has to read what it is sent, or to come at all,    *)
(* and no user has to do anything, but a command runs to its end.          *)
Commanded == ScriptStep /\ user # "idle" /\ Script!command
Fairness == /\ SF_vars(Hub!cam_thread /\ UNCHANGED script)
            /\ \A c \in Clients : SF_vars(Hub!send_frame(c) /\ UNCHANGED script)
            /\ \A t \in Tasks : /\ WF_vars(ScriptStep /\ Script!check_running(t))
                                /\ WF_vars(ScriptStep /\ Script!check_hanging(t))
            /\ WF_vars(Commanded)

Spec == Init /\ [][Next]_vars /\ Fairness

(***************************************************************************)
(* Properties                                                              *)
(***************************************************************************)
(* The processes are where they can be.                                    *)
TypeOK == Hub!HubTypeOK /\ Script!ScriptTypeOK

OneFrame == Hub!OneFrame

StoppedStays == Script!StoppedStays

CameraWorks == <>[][~Hub!GrabFails /\ ~Hub!BootFails]_vars

Watched == \E t \in Tasks : running[t] # "none"

(* When the camera has recovered, a check_running is there and the user has *)
(* given the last command, the server runs again and is left running:       *)
(* check_hanging, which goes by the last lines of the log, does not kill it *)
(* for the old error for ever.                                             *)
ServerSettles == CameraWorks /\ <>[](Watched /\ user = "idle") => <>[]alive

(* A viewer who waits for a frame gets one or loses the connection, unless *)
(* the camera was left paused by a change of resolution that failed: no    *)
(* wake-up gets lost, and a viewer that does not read holds up no other.   *)
StreamGoesOn ==
  <>[](streamingState # "paused") =>
     \A c \in Clients : web[c] = "wait" ~> web[c] \in {"send", "away"}
=============================================================================
