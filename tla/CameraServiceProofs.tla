-------------------------- MODULE CameraServiceProofs --------------------------
(***************************************************************************)
(* For any number of clients and check tasks: TypeOK, OneFrame and         *)
(* StoppedStays.                                                           *)
(*                                                                         *)
(* OneFrame rests on the mutex. Whoever is between locking and unlocking   *)
(* holds it (Mutex); the three fields of the frame differ only while the   *)
(* camera is writing them (Written), and so they agree whenever a client   *)
(* reads one, and what it has read so far is what they still are (Read).   *)
(***************************************************************************)
EXTENDS CameraService, TLAPS

CamInside == {"copy", "size", "stamp", "signal", "unlock"}
WebInside == {"unlockAndWait", "size", "stamp", "frame", "unlock"}

(* The mutex has one holder.                                               *)
Mutex == /\ cam \in CamInside => db = "camera"
         /\ \A c \in Clients : web[c] \in WebInside => db = c

(* How far the camera has written the frame.                               *)
Written ==
  /\ cam \notin {"size", "stamp"} => buf = size /\ timestamp = size
  /\ cam = "size" => buf = tmpbuffer
  /\ cam = "stamp" => buf = tmpbuffer /\ size = tmpbuffer

(* How far the clients have read it.                                       *)
Read ==
  \A c \in Clients :
    /\ web[c] \in {"stamp", "frame"} => copy[c].size = size
    /\ web[c] = "frame" => copy[c].timestamp = timestamp
    /\ web[c] \in {"unlock", "send"} => /\ copy[c].frame = copy[c].size
                                        /\ copy[c].timestamp = copy[c].size

HubInv == Hub!FlagsOK /\ Hub!PlacesOK /\ Hub!FramesOK /\ Mutex /\ Written /\ Read

(* A stop that has passed over nothing leaves no check task, and nothing     *)
(* else could start the server.                                            *)
NoTasksLeft == running = Script!NoTask /\ hanging = Script!NoTask

ScriptInv == /\ Script!ScriptTypeOK
             /\ user = "killServer" /\ ~missed => NoTasksLeft
             /\ stopped => ~alive /\ NoTasksLeft /\ user = "idle"

(***************************************************************************)
(* The process                                                             *)
(***************************************************************************)
(* Nothing runs at first.                                                 *)
LEMMA HubStarts == Hub!Init => HubInv
<1> SUFFICES ASSUME Hub!Init PROVE HubInv
  OBVIOUS
<1>1. Hub!FlagsOK
  BY Zenon DEF Hub!Init, Hub!Blank, Hub!FlagsOK
<1>2. Hub!PlacesOK
  BY DEF Hub!Init, Hub!Blank, Hub!PlacesOK
<1>3. Hub!FramesOK
  BY DEF Hub!Init, Hub!Blank, Hub!FramesOK, Hub!NoCopy, Hub!None, Hub!Tags, Hub!LongAgo
<1>4. Mutex /\ Written /\ Read
  BY DEF Hub!Init, Hub!Blank,
             Mutex, Written, Read, CamInside, WebInside
<1> QED
  BY <1>1, <1>2, <1>3, <1>4 DEF HubInv

(* A process that has ended is like one that has not begun.                *)
LEMMA HubEnds ==
  ASSUME Hub!Ends, alive' \in BOOLEAN, log' \in 0 .. Hub!LongAgo
  PROVE  HubInv'
<1>1. Hub!FlagsOK'
  BY Zenon DEF Hub!Ends, Hub!FlagsOK
<1>2. Hub!PlacesOK'
  BY DEF Hub!Ends, Hub!PlacesOK
<1>3. Hub!FramesOK'
  BY DEF Hub!Ends, Hub!FramesOK, Hub!NoCopy, Hub!None, Hub!Tags
<1>4. Mutex' /\ Written' /\ Read'
  BY DEF Hub!Ends,
             Mutex, Written, Read, CamInside, WebInside
<1> QED
  BY <1>1, <1>2, <1>3, <1>4 DEF HubInv

(* What leaves the process alone leaves its invariant.                     *)
LEMMA HubStays ==
  ASSUME HubInv, Hub!Stays, alive' \in BOOLEAN, log' \in 0 .. Hub!LongAgo
  PROVE  HubInv'
<1> USE DEF Hub!Stays, Hub!own, Hub!camera, Hub!frame, Hub!client
<1>1. Hub!FlagsOK'
  BY Zenon DEF HubInv, Hub!FlagsOK
<1>2. Hub!PlacesOK'
  BY DEF HubInv, Hub!PlacesOK
<1>3. Hub!FramesOK'
  BY DEF HubInv, Hub!FramesOK
<1>4. Mutex' /\ Written' /\ Read'
  BY DEF HubInv, Mutex, Written, Read
<1> QED
  BY <1>1, <1>2, <1>3, <1>4 DEF HubInv

(* An action of cam_thread; only those within the mutex change the frame.   *)
LEMMA CamKeeps ==
  ASSUME HubInv, Hub!cam_thread
  PROVE  HubInv'
<1> USE DEF HubInv, Hub!Goto, Hub!camera, Hub!frame, Hub!client
<1>1. CASE Hub!Boot
  <2>1. Hub!FlagsOK'
    BY <1>1, Zenon DEF Hub!Boot, Hub!FlagsOK
  <2>2. Hub!PlacesOK'
    BY <1>1 DEF Hub!Boot, Hub!PlacesOK
  <2>3. Hub!FramesOK'
    BY <1>1 DEF Hub!Boot, Hub!FramesOK, Hub!LongAgo
  <2>4. Mutex' /\ Written' /\ Read'
    BY <1>1, ClientsAssumption DEF Hub!Boot, Hub!PlacesOK, Hub!Nobody,
             Mutex, Written, Read, CamInside, WebInside
  <2> QED
    BY <2>1, <2>2, <2>3, <2>4
<1>2. CASE Hub!Resume
  <2>1. Hub!FlagsOK'
    BY <1>2, Zenon DEF Hub!Resume, Hub!FlagsOK
  <2>2. Hub!PlacesOK'
    BY <1>2 DEF Hub!Resume, Hub!PlacesOK
  <2>3. Hub!FramesOK'
    BY <1>2 DEF Hub!Resume, Hub!FramesOK
  <2>4. Mutex' /\ Written' /\ Read'
    BY <1>2, ClientsAssumption DEF Hub!Resume, Hub!PlacesOK, Hub!Nobody,
             Mutex, Written, Read, CamInside, WebInside
  <2> QED
    BY <2>1, <2>2, <2>3, <2>4
<1>3. CASE Hub!uvcGrab
  <2>1. Hub!FlagsOK'
    BY <1>3, Zenon DEF Hub!uvcGrab, Hub!FlagsOK
  <2>2. Hub!PlacesOK'
    BY <1>3 DEF Hub!uvcGrab, Hub!PlacesOK, Hub!Enabled, Hub!NextFrame
  <2>3. Hub!FramesOK'
    BY <1>3 DEF Hub!uvcGrab, Hub!FramesOK, Hub!Tags, Hub!Enabled, Hub!NextFrame
  <2>4. Mutex' /\ Written' /\ Read'
    BY <1>3, ClientsAssumption DEF Hub!uvcGrab, Hub!PlacesOK, Hub!Nobody,
             Mutex, Written, Read, CamInside, WebInside, Hub!Enabled, Hub!NextFrame
  <2> QED
    BY <2>1, <2>2, <2>3, <2>4
<1>4. CASE Hub!CamLocks
  <2>1. Hub!FlagsOK'
    BY <1>4, Zenon DEF Hub!CamLocks, Hub!FlagsOK
  <2>2. Hub!PlacesOK'
    BY <1>4 DEF Hub!CamLocks, Hub!PlacesOK
  <2>3. Hub!FramesOK'
    BY <1>4 DEF Hub!CamLocks, Hub!FramesOK
  <2>4. Mutex' /\ Written' /\ Read'
    BY <1>4, ClientsAssumption DEF Hub!CamLocks, Hub!PlacesOK, Hub!Nobody,
             Mutex, Written, Read, CamInside, WebInside
  <2> QED
    BY <2>1, <2>2, <2>3, <2>4
<1>5. CASE Hub!CamCopies
  <2>1. Hub!FlagsOK'
    BY <1>5, Zenon DEF Hub!CamCopies, Hub!FlagsOK
  <2>2. Hub!PlacesOK'
    BY <1>5 DEF Hub!CamCopies, Hub!PlacesOK
  <2>3. Hub!FramesOK'
    BY <1>5 DEF Hub!CamCopies, Hub!FramesOK
  <2>4. Mutex' /\ Written' /\ Read'
    BY <1>5, ClientsAssumption DEF Hub!CamCopies, Hub!PlacesOK, Hub!Nobody,
             Mutex, Written, Read, CamInside, WebInside
  <2> QED
    BY <2>1, <2>2, <2>3, <2>4
<1>6. CASE Hub!CamSizes
  <2>1. Hub!FlagsOK'
    BY <1>6, Zenon DEF Hub!CamSizes, Hub!FlagsOK
  <2>2. Hub!PlacesOK'
    BY <1>6 DEF Hub!CamSizes, Hub!PlacesOK
  <2>3. Hub!FramesOK'
    BY <1>6 DEF Hub!CamSizes, Hub!FramesOK
  <2>4. Mutex' /\ Written' /\ Read'
    BY <1>6, ClientsAssumption DEF Hub!CamSizes, Hub!PlacesOK, Hub!Nobody,
             Mutex, Written, Read, CamInside, WebInside
  <2> QED
    BY <2>1, <2>2, <2>3, <2>4
<1>7. CASE Hub!CamStamps
  <2>1. Hub!FlagsOK'
    BY <1>7, Zenon DEF Hub!CamStamps, Hub!FlagsOK
  <2>2. Hub!PlacesOK'
    BY <1>7 DEF Hub!CamStamps, Hub!PlacesOK
  <2>3. Hub!FramesOK'
    BY <1>7 DEF Hub!CamStamps, Hub!FramesOK
  <2>4. Mutex' /\ Written' /\ Read'
    BY <1>7, ClientsAssumption DEF Hub!CamStamps, Hub!PlacesOK, Hub!Nobody,
             Mutex, Written, Read, CamInside, WebInside
  <2> QED
    BY <2>1, <2>2, <2>3, <2>4
<1>8. CASE Hub!CamSignals
  <2>1. Hub!FlagsOK'
    BY <1>8, Zenon DEF Hub!CamSignals, Hub!FlagsOK
  <2>2. Hub!PlacesOK'
    BY <1>8 DEF Hub!CamSignals, Hub!PlacesOK, Hub!Waiting, Hub!Woken
  <2>3. Hub!FramesOK'
    BY <1>8 DEF Hub!CamSignals, Hub!FramesOK
  <2>4. Mutex' /\ Written' /\ Read'
    BY <1>8, ClientsAssumption DEF Hub!CamSignals, Hub!PlacesOK, Hub!Nobody,
             Mutex, Written, Read, CamInside, WebInside, Hub!Waiting, Hub!Woken
  <2> QED
    BY <2>1, <2>2, <2>3, <2>4
<1>9. CASE Hub!CamUnlocks
  <2>1. Hub!FlagsOK'
    BY <1>9, Zenon DEF Hub!CamUnlocks, Hub!FlagsOK
  <2>2. Hub!PlacesOK'
    BY <1>9 DEF Hub!CamUnlocks, Hub!PlacesOK
  <2>3. Hub!FramesOK'
    BY <1>9 DEF Hub!CamUnlocks, Hub!FramesOK
  <2>4. Mutex' /\ Written' /\ Read'
    BY <1>9, ClientsAssumption DEF Hub!CamUnlocks, Hub!PlacesOK, Hub!Nobody,
             Mutex, Written, Read, CamInside, WebInside
  <2> QED
    BY <2>1, <2>2, <2>3, <2>4
<1>10. CASE Hub!BootFails \/ Hub!GrabFails
  <2>1. Hub!Ends
    BY <1>10 DEF Hub!BootFails, Hub!GrabFails
  <2>2. alive' \in BOOLEAN
    BY <1>10, Zenon DEF Hub!BootFails, Hub!GrabFails
  <2>3. log' \in 0 .. Hub!LongAgo
    BY <1>10 DEF Hub!BootFails, Hub!GrabFails, Hub!LongAgo
  <2> QED
    BY <2>1, <2>2, <2>3, HubEnds
<1> QED
  BY <1>1, <1>2, <1>3, <1>4, <1>5, <1>6, <1>7, <1>8, <1>9, <1>10 DEF Hub!cam_thread

(* An action of a client's thread; its fields are those of one frame, since *)
(* the camera is kept out while it copies them.                            *)
LEMMA ClientKeeps ==
  ASSUME HubInv, NEW c \in Clients,
         \/ Hub!Connect(c) \/ Hub!send_frame(c) \/ Hub!WakeUnasked(c) \/ Hub!Send(c)
         \/ Hub!setResolution(c)
  PROVE  HubInv'
<1> USE DEF HubInv, Hub!At, Hub!camera, Hub!frame
<1>1. CASE Hub!Connect(c)
  <2>1. Hub!FlagsOK'
    BY <1>1, Zenon DEF Hub!Connect, Hub!FlagsOK
  <2>2. Hub!PlacesOK'
    BY <1>1 DEF Hub!Connect, Hub!PlacesOK
  <2>3. Hub!FramesOK'
    BY <1>1 DEF Hub!Connect, Hub!FramesOK
  <2>4. Mutex' /\ Written' /\ Read'
    BY <1>1, ClientsAssumption DEF Hub!Connect, Hub!PlacesOK, Hub!FramesOK, Hub!Nobody,
             Mutex, Written, Read, CamInside, WebInside
  <2> QED
    BY <2>1, <2>2, <2>3, <2>4
<1>2. CASE Hub!Lock(c)
  <2>1. Hub!FlagsOK'
    BY <1>2, Zenon DEF Hub!Lock, Hub!FlagsOK
  <2>2. Hub!PlacesOK'
    BY <1>2 DEF Hub!Lock, Hub!PlacesOK
  <2>3. Hub!FramesOK'
    BY <1>2 DEF Hub!Lock, Hub!FramesOK
  <2>4. Mutex' /\ Written' /\ Read'
    BY <1>2, ClientsAssumption DEF Hub!Lock, Hub!PlacesOK, Hub!FramesOK, Hub!Nobody,
             Mutex, Written, Read, CamInside, WebInside
  <2> QED
    BY <2>1, <2>2, <2>3, <2>4
<1>3. CASE Hub!Wait(c)
  <2>1. Hub!FlagsOK'
    BY <1>3, Zenon DEF Hub!Wait, Hub!FlagsOK
  <2>2. Hub!PlacesOK'
    BY <1>3 DEF Hub!Wait, Hub!PlacesOK
  <2>3. Hub!FramesOK'
    BY <1>3 DEF Hub!Wait, Hub!FramesOK
  <2>4. Mutex' /\ Written' /\ Read'
    BY <1>3, ClientsAssumption DEF Hub!Wait, Hub!PlacesOK, Hub!FramesOK, Hub!Nobody,
             Mutex, Written, Read, CamInside, WebInside
  <2> QED
    BY <2>1, <2>2, <2>3, <2>4
<1>4. CASE Hub!WakeUnasked(c)
  <2>1. Hub!FlagsOK'
    BY <1>4, Zenon DEF Hub!WakeUnasked, Hub!FlagsOK
  <2>2. Hub!PlacesOK'
    BY <1>4 DEF Hub!WakeUnasked, Hub!PlacesOK
  <2>3. Hub!FramesOK'
    BY <1>4 DEF Hub!WakeUnasked, Hub!FramesOK
  <2>4. Mutex' /\ Written' /\ Read'
    BY <1>4, ClientsAssumption DEF Hub!WakeUnasked, Hub!PlacesOK, Hub!FramesOK, Hub!Nobody,
             Mutex, Written, Read, CamInside, WebInside
  <2> QED
    BY <2>1, <2>2, <2>3, <2>4
<1>5. CASE Hub!Relock(c)
  <2>1. Hub!FlagsOK'
    BY <1>5, Zenon DEF Hub!Relock, Hub!FlagsOK
  <2>2. Hub!PlacesOK'
    BY <1>5 DEF Hub!Relock, Hub!PlacesOK
  <2>3. Hub!FramesOK'
    BY <1>5 DEF Hub!Relock, Hub!FramesOK
  <2>4. Mutex' /\ Written' /\ Read'
    BY <1>5, ClientsAssumption DEF Hub!Relock, Hub!PlacesOK, Hub!FramesOK, Hub!Nobody,
             Mutex, Written, Read, CamInside, WebInside
  <2> QED
    BY <2>1, <2>2, <2>3, <2>4
<1>6. CASE Hub!CopySize(c)
  <2>1. Hub!FlagsOK'
    BY <1>6, Zenon DEF Hub!CopySize, Hub!Copy, Hub!FlagsOK
  <2>2. Hub!PlacesOK'
    BY <1>6 DEF Hub!CopySize, Hub!Copy, Hub!PlacesOK
  <2>3. Hub!FramesOK'
    BY <1>6 DEF Hub!CopySize, Hub!Copy, Hub!FramesOK
  <2>4. Mutex' /\ Written' /\ Read'
    BY <1>6, ClientsAssumption DEF Hub!CopySize, Hub!Copy, Hub!PlacesOK, Hub!FramesOK, Hub!Nobody,
             Mutex, Written, Read, CamInside, WebInside
  <2> QED
    BY <2>1, <2>2, <2>3, <2>4
<1>7. CASE Hub!CopyStamp(c)
  <2>1. Hub!FlagsOK'
    BY <1>7, Zenon DEF Hub!CopyStamp, Hub!Copy, Hub!FlagsOK
  <2>2. Hub!PlacesOK'
    BY <1>7 DEF Hub!CopyStamp, Hub!Copy, Hub!PlacesOK
  <2>3. Hub!FramesOK'
    BY <1>7 DEF Hub!CopyStamp, Hub!Copy, Hub!FramesOK
  <2>4. Mutex' /\ Written' /\ Read'
    BY <1>7, ClientsAssumption DEF Hub!CopyStamp, Hub!Copy, Hub!PlacesOK, Hub!FramesOK, Hub!Nobody,
             Mutex, Written, Read, CamInside, WebInside
  <2> QED
    BY <2>1, <2>2, <2>3, <2>4
<1>8. CASE Hub!CopyFrame(c)
  <2>1. Hub!FlagsOK'
    BY <1>8, Zenon DEF Hub!CopyFrame, Hub!Copy, Hub!FlagsOK
  <2>2. Hub!PlacesOK'
    BY <1>8 DEF Hub!CopyFrame, Hub!Copy, Hub!PlacesOK
  <2>3. Hub!FramesOK'
    BY <1>8 DEF Hub!CopyFrame, Hub!Copy, Hub!FramesOK
  <2>4. Mutex' /\ Written' /\ Read'
    BY <1>8, ClientsAssumption DEF Hub!CopyFrame, Hub!Copy, Hub!PlacesOK, Hub!FramesOK, Hub!Nobody,
             Mutex, Written, Read, CamInside, WebInside
  <2> QED
    BY <2>1, <2>2, <2>3, <2>4
<1>9. CASE Hub!Unlock(c)
  <2>1. Hub!FlagsOK'
    BY <1>9, Zenon DEF Hub!Unlock, Hub!FlagsOK
  <2>2. Hub!PlacesOK'
    BY <1>9 DEF Hub!Unlock, Hub!PlacesOK
  <2>3. Hub!FramesOK'
    BY <1>9 DEF Hub!Unlock, Hub!FramesOK
  <2>4. Mutex' /\ Written' /\ Read'
    BY <1>9, ClientsAssumption DEF Hub!Unlock, Hub!PlacesOK, Hub!FramesOK, Hub!Nobody,
             Mutex, Written, Read, CamInside, WebInside
  <2> QED
    BY <2>1, <2>2, <2>3, <2>4
<1>10. CASE Hub!Send(c)
  <2>1. Hub!FlagsOK'
    BY <1>10, Zenon DEF Hub!Send, Hub!FlagsOK
  <2>2. Hub!PlacesOK'
    BY <1>10 DEF Hub!Send, Hub!PlacesOK
  <2>3. Hub!FramesOK'
    BY <1>10 DEF Hub!Send, Hub!FramesOK, Hub!NoCopy, Hub!None, Hub!Tags
  <2>4. Mutex' /\ Written' /\ Read'
    BY <1>10, ClientsAssumption DEF Hub!Send, Hub!PlacesOK, Hub!FramesOK, Hub!Nobody,
             Mutex, Written, Read, CamInside, WebInside
  <2> QED
    BY <2>1, <2>2, <2>3, <2>4
<1>11. CASE Hub!Pause(c)
  <2>1. Hub!FlagsOK'
    BY <1>11, Zenon DEF Hub!Pause, Hub!FlagsOK
  <2>2. Hub!PlacesOK'
    BY <1>11 DEF Hub!Pause, Hub!PlacesOK
  <2>3. Hub!FramesOK'
    BY <1>11 DEF Hub!Pause, Hub!FramesOK
  <2>4. Mutex' /\ Written' /\ Read'
    BY <1>11, ClientsAssumption DEF Hub!Pause, Hub!PlacesOK, Hub!FramesOK, Hub!Nobody,
             Mutex, Written, Read, CamInside, WebInside
  <2> QED
    BY <2>1, <2>2, <2>3, <2>4
<1>12. CASE Hub!TurnOff(c)
  <2>1. Hub!FlagsOK'
    BY <1>12, Zenon DEF Hub!TurnOff, Hub!FlagsOK
  <2>2. Hub!PlacesOK'
    BY <1>12 DEF Hub!TurnOff, Hub!PlacesOK
  <2>3. Hub!FramesOK'
    BY <1>12 DEF Hub!TurnOff, Hub!FramesOK
  <2>4. Mutex' /\ Written' /\ Read'
    BY <1>12, ClientsAssumption DEF Hub!TurnOff, Hub!PlacesOK, Hub!FramesOK, Hub!Nobody,
             Mutex, Written, Read, CamInside, WebInside
  <2> QED
    BY <2>1, <2>2, <2>3, <2>4
<1>13. CASE Hub!GiveUp(c)
  <2>1. Hub!FlagsOK'
    BY <1>13, Zenon DEF Hub!GiveUp, Hub!FlagsOK
  <2>2. Hub!PlacesOK'
    BY <1>13 DEF Hub!GiveUp, Hub!PlacesOK
  <2>3. Hub!FramesOK'
    BY <1>13 DEF Hub!GiveUp, Hub!FramesOK
  <2>4. Mutex' /\ Written' /\ Read'
    BY <1>13, ClientsAssumption DEF Hub!GiveUp, Hub!PlacesOK, Hub!FramesOK, Hub!Nobody,
             Mutex, Written, Read, CamInside, WebInside
  <2> QED
    BY <2>1, <2>2, <2>3, <2>4
<1>14. CASE Hub!video_enable(c)
  <2>1. Hub!FlagsOK'
    BY <1>14, Zenon DEF Hub!video_enable, Hub!FlagsOK
  <2>2. Hub!PlacesOK'
    BY <1>14 DEF Hub!video_enable, Hub!PlacesOK
  <2>3. Hub!FramesOK'
    BY <1>14 DEF Hub!video_enable, Hub!FramesOK
  <2>4. Mutex' /\ Written' /\ Read'
    BY <1>14, ClientsAssumption DEF Hub!video_enable, Hub!PlacesOK, Hub!FramesOK, Hub!Nobody,
             Mutex, Written, Read, CamInside, WebInside
  <2> QED
    BY <2>1, <2>2, <2>3, <2>4
<1> QED
  BY <1>1, <1>2, <1>3, <1>4, <1>5, <1>6, <1>7, <1>8, <1>9, <1>10, <1>11, <1>12, <1>13, <1>14 DEF Hub!send_frame, Hub!setResolution

(* The steps of all the threads of the process together.                   *)
LEMMA HubKeeps == HubInv /\ Hub!HubNext => HubInv'
  BY CamKeeps, ClientKeeps DEF Hub!HubNext

(***************************************************************************)
(* The script                                                              *)
(***************************************************************************)
(* What any step of the script leaves of the two variables it shares.      *)
LEMMA SharedType ==
  ASSUME Hub!FlagsOK, Hub!FramesOK, Script!ScriptNext
  PROVE  alive' \in BOOLEAN /\ log' \in 0 .. Hub!LongAgo
<1>1. /\ alive' \in {TRUE, FALSE, alive}
      /\ log' \in {log, Script!LongAgo, Script!Appended}
  BY Zenon
     DEF Script!ScriptNext, Script!command, Script!check_running, Script!check_hanging,
         Script!Start, Script!Launch, Script!Started, Script!FailedToStart, Script!Stop,
         Script!KillTasks, Script!KillServer, Script!FindsDown, Script!LaunchAgain,
         Script!FindsError, Script!KillAgain
<1>2. alive' \in BOOLEAN
  BY <1>1, Zenon DEF Hub!FlagsOK
<1>3. log' \in 0 .. Hub!LongAgo
  BY <1>1 DEF Hub!FramesOK, Hub!LongAgo, Script!LongAgo, Script!Appended
<1> QED
  BY <1>2, <1>3

(* At first there are no tasks, and stop has not been called.               *)
LEMMA ScriptStarts == Script!Init => ScriptInv
<1> SUFFICES ASSUME Script!Init PROVE ScriptInv
  OBVIOUS
<1>1. Script!ScriptTypeOK
  BY Zenon DEF Script!Init, Script!ScriptTypeOK, Script!NoTask
<1>2. user # "killServer" /\ ~stopped
  BY Zenon DEF Script!Init
<1> QED
  BY <1>1, <1>2, Zenon DEF ScriptInv

(* A KillTasks that misses none leaves no task before KillServer, and a task *)
(* is what else could start the server: only Started leads to one.         *)
LEMMA ScriptKeeps ==
  ASSUME ScriptInv, Script!ScriptNext
  PROVE  ScriptInv'
<1> USE DEF ScriptInv, Script!ScriptTypeOK, NoTasksLeft, Script!NoTask
<1>1. CASE Script!Start
  BY <1>1 DEF Script!Start
<1>2. CASE Script!Launch
  BY <1>2 DEF Script!Launch
<1>3. CASE Script!Started
  BY <1>3 DEF Script!Started
<1>4. CASE Script!FailedToStart
  BY <1>4 DEF Script!FailedToStart
<1>5. CASE Script!Stop
  BY <1>5 DEF Script!Stop
<1>6. CASE Script!KillTasks
  <2>1. /\ Script!Known(running) \subseteq [Tasks -> {"none", "sleep", "launch"}]
        /\ Script!Known(hanging) \subseteq [Tasks -> {"none", "sleep", "stop"}]
    BY DEF Script!Known
  <2>2. missed' \in BOOLEAN /\ (~missed' => NoTasksLeft')
    BY <1>6, Zenon DEF Script!KillTasks
  <2>3. /\ running' \in Script!Known(running) /\ hanging' \in Script!Known(hanging)
        /\ user = "killTasks" /\ user' = "killServer" /\ stopped' = stopped
    BY <1>6 DEF Script!KillTasks
  <2> QED  BY <2>1, <2>2, <2>3
<1>7. CASE Script!KillServer
  BY <1>7 DEF Script!KillServer
<1>8. ASSUME NEW t \in Tasks, Script!FindsDown(t) PROVE ScriptInv'
  BY <1>8 DEF Script!FindsDown
<1>9. ASSUME NEW t \in Tasks, Script!LaunchAgain(t) PROVE ScriptInv'
  BY <1>9 DEF Script!LaunchAgain
<1>10. ASSUME NEW t \in Tasks, Script!FindsError(t) PROVE ScriptInv'
  BY <1>10 DEF Script!FindsError
<1>11. ASSUME NEW t \in Tasks, Script!KillAgain(t) PROVE ScriptInv'
  BY <1>11 DEF Script!KillAgain
<1> QED
  BY <1>1, <1>2, <1>3, <1>4, <1>5, <1>6, <1>7, <1>8, <1>9, <1>10, <1>11
     DEF Script!ScriptNext, Script!command, Script!check_running, Script!check_hanging

(***************************************************************************)
(* Both                                                                    *)
(***************************************************************************)
(* A process that is not alive does nothing.                               *)
LEMMA OnlyAliveSteps == Hub!HubNext => alive
  BY DEF Hub!HubNext, Hub!cam_thread, Hub!Boot, Hub!BootFails, Hub!Resume, Hub!uvcGrab,
         Hub!GrabFails, Hub!CamLocks, Hub!CamCopies, Hub!CamSizes, Hub!CamStamps,
         Hub!CamSignals, Hub!CamUnlocks, Hub!Goto, Hub!Connect, Hub!send_frame, Hub!Lock,
         Hub!Wait, Hub!Relock, Hub!CopySize, Hub!CopyStamp, Hub!CopyFrame, Hub!Copy,
         Hub!Unlock, Hub!WakeUnasked, Hub!Send, Hub!setResolution, Hub!Pause, Hub!TurnOff,
         Hub!GiveUp, Hub!video_enable, Hub!At

ServiceInv == HubInv /\ ScriptInv

(* The invariant of process and script is inductive: the two disturb one   *)
(* another only through alive and log.                                     *)
LEMMA ServiceInvariant == Spec => []ServiceInv
<1>1. Init => ServiceInv
  BY HubStarts, ScriptStarts DEF Init, ServiceInv
<1>2. ASSUME ServiceInv, [Next]_vars PROVE ServiceInv'
  <2> USE <1>2
  <2>1. CASE ServerStep
    <3>1. HubInv /\ Hub!HubNext
      BY <2>1, Zenon DEF ServiceInv, ServerStep
    <3>2. HubInv'
      BY <3>1, HubKeeps, Zenon
    <3>3. alive
      BY <3>1, OnlyAliveSteps, Zenon
    <3>4. ScriptInv /\ UNCHANGED script
      BY <2>1, Zenon DEF ServiceInv, ServerStep
    <3>5. ~stopped
      BY <3>3, <3>4, Zenon DEF ScriptInv
    <3>6. ScriptInv'
      BY <3>4, <3>5 DEF ScriptInv, Script!ScriptTypeOK, NoTasksLeft, script
    <3> QED
      BY <3>2, <3>6, Zenon DEF ServiceInv
  <2>2. CASE ScriptStep
    <3>1. Script!ScriptNext /\ (Hub!Ends \/ Hub!Stays)
      BY <2>2 DEF ScriptStep
    <3>2. alive' \in BOOLEAN /\ log' \in 0 .. Hub!LongAgo
      BY <3>1, SharedType DEF ServiceInv, HubInv
    <3>3. HubInv'
      BY <3>1, <3>2, HubEnds, HubStays DEF ServiceInv
    <3> QED
      BY <3>1, <3>3, ScriptKeeps DEF ServiceInv
  <2>3. CASE UNCHANGED vars
    <3> USE <2>3 DEF vars, script, ServiceInv
    <3>1. alive' \in BOOLEAN
      BY Zenon DEF HubInv, Hub!FlagsOK
    <3>2. log' \in 0 .. Hub!LongAgo
      BY DEF HubInv, Hub!FramesOK
    <3>3. HubInv'
      BY <3>1, <3>2, HubStays DEF Hub!Stays
    <3>4. ScriptInv'
      BY DEF ScriptInv, Script!ScriptTypeOK, NoTasksLeft
    <3> QED
      BY <3>3, <3>4
  <2> QED
    BY <1>2, <2>1, <2>2, <2>3 DEF Next
<1> QED
  BY <1>1, <1>2, PTL DEF Spec

(* The flags, places and frames of process and script keep their types     *)
(* whatever thread, task or user moves, and whenever the process is killed. *)
THEOREM TypeCorrect == Spec => []TypeOK
<1>1. ServiceInv => TypeOK
  BY DEF ServiceInv, HubInv, ScriptInv, TypeOK, Hub!HubTypeOK
<1> QED
  BY <1>1, ServiceInvariant, PTL

(* A client of the HTTP plugin is never sent the picture of one frame with *)
(* the length or the time of another, however many clients there are: not  *)
(* after a wake-up nobody asked for, and not after a change of resolution. *)
THEOREM EveryFrameIsOne == Spec => []OneFrame
<1>1. ServiceInv => OneFrame
  BY DEF ServiceInv, HubInv, Read, OneFrame, Hub!OneFrame
<1> QED
  BY <1>1, ServiceInvariant, PTL

(* After a stop of mjpg-streamer.sh that knew every process, the server is *)
(* down until the next start, however many check tasks there were and       *)
(* whatever they were about.                                               *)
THEOREM StoppedStaysStopped == Spec => []StoppedStays
<1>1. ServiceInv => StoppedStays
  BY DEF ServiceInv, ScriptInv, StoppedStays, Script!StoppedStays
<1> QED
  BY <1>1, ServiceInvariant, PTL
=============================================================================
