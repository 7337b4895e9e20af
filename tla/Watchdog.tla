------------------------------- MODULE Watchdog -------------------------------
(***************************************************************************)
(* mjpg-streamer.sh: the commands start and stop, and the tasks a start    *)
(* leaves behind, check_running and check_hanging. All of them see the     *)
(* server only through ps and the end of its log. The server itself is     *)
(* FrameHub; here it is alive or not. restart is stop and then start.      *)
(***************************************************************************)
EXTENDS Integers

CONSTANT Tasks                   \* bound: check tasks of either kind at a time

VARIABLES alive, log,            \* the server: see FrameHub
          user,                  \* the script run by the user
          running, hanging,      \* the check tasks
          missed,                \* history: this stop has passed over a check task
          stopped                \* history: the last command is a stop that has said
                                 \* "stopped" and has passed over nothing

LongAgo == 2
Appended == IF log < LongAgo THEN log + 1 ELSE log

NoTask == [t \in Tasks |-> "none"]

Init == /\ alive = FALSE /\ log = LongAgo /\ user = "idle"
        /\ stopped = FALSE /\ missed = FALSE /\ running = NoTask /\ hanging = NoTask

(***************************************************************************)
(* The user                                                                *)
(***************************************************************************)
Start == /\ user = "idle" /\ ~alive
         /\ \E t, u \in Tasks : running[t] = "none" /\ hanging[u] = "none"
         /\ user' = "launch" /\ stopped' = FALSE
         /\ UNCHANGED <<alive, log, running, hanging, missed>>

(* A server that is started beside a running one cannot have the camera    *)
(* and ends.                                                               *)
Launch == /\ user = "launch" /\ user' = "launched" /\ alive' = TRUE
          /\ UNCHANGED <<log, running, hanging, missed, stopped>>

(* A second later the tasks are started, which write to the log.            *)
Started == /\ user = "launched" /\ alive /\ user' = "idle" /\ log' = LongAgo
           /\ \E t, u \in Tasks : /\ running[t] = "none" /\ hanging[u] = "none"
                                  /\ running' = [running EXCEPT ![t] = "sleep"]
                                  /\ hanging' = [hanging EXCEPT ![u] = "sleep"]
           /\ UNCHANGED <<alive, missed, stopped>>

FailedToStart == /\ user = "launched" /\ ~alive /\ user' = "idle"
                 /\ UNCHANGED <<alive, log, running, hanging, missed, stopped>>

Stop_Nocheck == /\ user = "idle" /\ alive /\ user' = "killServer"
                /\ UNCHANGED <<alive, log, running, hanging, missed, stopped>>

Stop == /\ user = "idle" /\ alive /\ user' = "killTasks"
        /\ UNCHANGED <<alive, log, running, hanging, missed, stopped>>

(* A process is killed if the script knows it in ps. It passes over a task  *)
(* that was started under another name of the script ($0), and everything   *)
(* whose pid has its own in it (own_pid): which these are is left open.     *)
Known(tasks) == {[t \in Tasks |-> IF t \in K THEN "none" ELSE tasks[t]] : K \in SUBSET Tasks}

KillTasks == /\ user = "killTasks" /\ user' = "killServer"
             /\ running' \in Known(running) /\ hanging' \in Known(hanging)
             /\ missed' = (running' # NoTask \/ hanging' # NoTask)
             /\ UNCHANGED <<alive, log, stopped>>

(* It says "stopped" all the same.                                         *)
KillServer == /\ user = "killServer" /\ user' = "idle"
              /\ alive' \in {FALSE, alive}
              /\ stopped' = (~missed /\ ~alive') /\ missed' = FALSE
              /\ UNCHANGED <<log, running, hanging>>

(***************************************************************************)
(* The tasks                                                               *)
(***************************************************************************)
FindsDown(t) == /\ running[t] = "sleep" /\ ~alive
                /\ running' = [running EXCEPT ![t] = "launch"] /\ log' = Appended
                /\ UNCHANGED <<alive, user, hanging, missed, stopped>>

(* start nocheck: it finds the server running, or starts it.                *)
LaunchAgain(t) == /\ running[t] = "launch"
                  /\ running' = [running EXCEPT ![t] = "sleep"] /\ alive' = TRUE
                  /\ UNCHANGED <<log, user, hanging, missed, stopped>>

InTail_WholeLog == TRUE
InTail == log < LongAgo

FindsError(t) == /\ hanging[t] = "sleep" /\ InTail
                 /\ hanging' = [hanging EXCEPT ![t] = "stop"] /\ log' = Appended
                 /\ UNCHANGED <<alive, user, running, missed, stopped>>

(* stop nocheck kills whatever server is there by now, if it knows it.      *)
KillAgain(t) == /\ hanging[t] = "stop" /\ alive' \in {FALSE, alive}
                /\ hanging' = [hanging EXCEPT ![t] = "sleep"]
                /\ UNCHANGED <<log, user, running, missed, stopped>>

check_running(t) == FindsDown(t) \/ LaunchAgain(t)
check_hanging(t) == FindsError(t) \/ KillAgain(t)
command == Start \/ Launch \/ Started \/ FailedToStart \/ Stop \/ KillTasks \/ KillServer

ScriptNext == command \/ \E t \in Tasks : check_running(t) \/ check_hanging(t)

ScriptTypeOK ==
  /\ user \in {"idle", "launch", "launched", "killTasks", "killServer"}
  /\ running \in [Tasks -> {"none", "sleep", "launch"}]
  /\ hanging \in [Tasks -> {"none", "sleep", "stop"}]
  /\ stopped \in BOOLEAN /\ missed \in BOOLEAN

(* Once a stop that knew every task and the server in ps has said          *)
(* "stopped", the server does not run again before the next start, whatever *)
(* the tasks were about when they were killed. Of a stop that has passed    *)
(* over one of them nothing is said: a check_running that was started under *)
(* another name of the script starts the server again after "stopped".      *)
StoppedStays == stopped => ~alive
=============================================================================
