------------------------------- MODULE FrameHub -------------------------------
(***************************************************************************)
(* The mjpg-streamer process: cam_thread grabs pictures from the camera and *)
(* publishes them in global.in[0] under the mutex db; a thread for every    *)
(* HTTP client waits on the condition variable db_update, copies the frame *)
(* and sends it. A client may also change the camera's resolution, which   *)
(* its thread does on the running camera.                                  *)
(*                                                                         *)
(* The process is started and killed by mjpg-streamer.sh (Watchdog), as    *)
(*   mjpg_streamer -i "input_uvc.so ... --every_frame 2" -o output_http.so *)
(* Killed with SIGTERM it just ends; nobody sends it the SIGINT it handles.*)
(*                                                                         *)
(* A frame is one of two tags, so that the next differs from the last. *)
(***************************************************************************)
EXTENDS Integers

CONSTANT Clients

VARIABLES alive, log,            \* the process runs; lines in its log since the last error
          cam, skipped,          \* cam_thread: where it is, and every_count
          tmpbuffer,             \* of the camera: the frame grabbed last
          buf, size, timestamp,  \* of global.in[0]: the frames they belong to
          db,                    \* who holds the mutex
          streamingState,
          web,                   \* where the thread of each client is
          copy                   \* its local frame, frame_size and timestamp

frame == <<buf, size, timestamp>>
camera == <<cam, skipped, tmpbuffer>>
client == <<web, copy>>
own == <<camera, frame, db, streamingState, client>>
hubVars == <<alive, log, own>>

None == 0
Nobody == "nobody"

LongAgo == 2                     \* lines after which tail -n2 does not show it any more
NoCopy == [size |-> None, timestamp |-> None, frame |-> None]

Blank == /\ cam = "boot" /\ skipped = FALSE /\ tmpbuffer = None
         /\ buf = None /\ size = None /\ timestamp = None
         /\ db = Nobody /\ streamingState = "off"
         /\ web = [c \in Clients |-> "away"] /\ copy = [c \in Clients |-> NoCopy]

Init == Blank /\ alive = FALSE /\ log = LongAgo

(* The process is gone, and with it its threads and connections.           *)
Ends == /\ cam' = "boot" /\ skipped' = FALSE /\ tmpbuffer' = None
        /\ buf' = None /\ size' = None /\ timestamp' = None
        /\ db' = Nobody /\ streamingState' = "off"
        /\ web' = [c \in Clients |-> "away"] /\ copy' = [c \in Clients |-> NoCopy]

(* The script does something that leaves the process alone.                *)
Stays == UNCHANGED own

(***************************************************************************)
(* Start, and what cam_thread does                                         *)
(***************************************************************************)
Goto(from, to) == alive /\ cam = from /\ cam' = to

(* The plugins say what they do, on stderr, and the camera is opened.      *)
Boot == /\ Goto("boot", "loop") /\ log' = LongAgo
        /\ UNCHANGED <<alive, skipped, tmpbuffer, frame, db, streamingState, client>>

(* input_init finds no camera.                                             *)
BootFails == /\ alive /\ cam = "boot"
             /\ alive' = FALSE /\ log' = LongAgo /\ Ends

Resume == /\ Goto("loop", "grab") /\ streamingState # "paused"
          /\ UNCHANGED <<alive, log, skipped, tmpbuffer, frame, db, streamingState, client>>

Enabled == IF streamingState = "off" THEN "on" ELSE streamingState

NextFrame_Unbounded == 1 + tmpbuffer
NextFrame == 1 - tmpbuffer

(* A buffer with hardly anything in it is ignored: then the picture of last *)
(* time is used again. Every second one is dropped.                        *)
uvcGrab == /\ alive /\ cam = "grab" /\ streamingState' = Enabled
           /\ tmpbuffer' \in {tmpbuffer, NextFrame}
           /\ cam' = (IF skipped THEN "lock" ELSE "loop") /\ skipped' = ~skipped
           /\ UNCHANGED <<alive, log, frame, db, client>>

(* STREAMON, DQBUF or QBUF fails: the camera was unplugged, or a client's  *)
(* thread has just closed it. "Error grabbing frames", and exit.           *)
GrabFails == /\ alive /\ cam = "grab"
             /\ alive' = FALSE /\ log' = 0 /\ Ends

CamLocks == /\ Goto("lock", "copy") /\ db = Nobody /\ db' = "camera"
            /\ UNCHANGED <<alive, log, skipped, tmpbuffer, frame, streamingState, client>>

CamCopies == /\ Goto("copy", "size") /\ buf' = tmpbuffer
             /\ UNCHANGED <<alive, log, skipped, tmpbuffer, size, timestamp, db,
                            streamingState, client>>

CamSizes == /\ Goto("size", "stamp") /\ size' = tmpbuffer
            /\ UNCHANGED <<alive, log, skipped, tmpbuffer, buf, timestamp, db,
                           streamingState, client>>

CamStamps == /\ Goto("stamp", "signal") /\ timestamp' = tmpbuffer
             /\ UNCHANGED <<alive, log, skipped, tmpbuffer, buf, size, db,
                            streamingState, client>>

Waiting == {c \in Clients : web[c] = "wait"}

Woken_OnlyOne(W) == IF W = {} THEN {} ELSE {CHOOSE c \in W : TRUE}
Woken(W) == W

CamSignals == /\ Goto("signal", "unlock")
              /\ web' = [c \in Clients |-> IF c \in Woken(Waiting) THEN "relock" ELSE web[c]]
              /\ UNCHANGED <<alive, log, skipped, tmpbuffer, frame, db, streamingState, copy>>

CamUnlocks == /\ Goto("unlock", "loop") /\ db' = Nobody
              /\ UNCHANGED <<alive, log, skipped, tmpbuffer, frame, streamingState, client>>

cam_thread == \/ Boot \/ BootFails \/ Resume \/ uvcGrab \/ GrabFails
              \/ CamLocks \/ CamCopies \/ CamSizes \/ CamStamps \/ CamSignals \/ CamUnlocks

(***************************************************************************)
(* The thread of a client: send_stream and send_snapshot                   *)
(***************************************************************************)
At(c, from, to) == alive /\ web[c] = from /\ web' = [web EXCEPT ![c] = to]

Connect(c) == /\ At(c, "away", "lock") /\ cam # "boot"
              /\ UNCHANGED <<alive, log, camera, frame, db, streamingState, copy>>

Lock(c) == /\ At(c, "lock", "unlockAndWait") /\ db = Nobody /\ db' = c
           /\ UNCHANGED <<alive, log, camera, frame, streamingState, copy>>

(* pthread_cond_wait, which may also return unasked.                       *)
Wait(c) == /\ At(c, "unlockAndWait", "wait") /\ db' = Nobody
           /\ UNCHANGED <<alive, log, camera, frame, streamingState, copy>>

WakeUnasked(c) == /\ At(c, "wait", "relock")
                  /\ UNCHANGED <<alive, log, camera, frame, db, streamingState, copy>>

Relock_WithoutMutex(c) ==
  /\ At(c, "relock", "size")
  /\ UNCHANGED <<alive, log, camera, frame, db, streamingState, copy>>

Relock(c) == /\ At(c, "relock", "size") /\ db = Nobody /\ db' = c
             /\ UNCHANGED <<alive, log, camera, frame, streamingState, copy>>

Copy(c, from, to, field, value) ==
  /\ At(c, from, to) /\ copy' = [copy EXCEPT ![c][field] = value]
  /\ UNCHANGED <<alive, log, camera, frame, db, streamingState>>

CopySize(c) == Copy(c, "size", "stamp", "size", size)
CopyStamp(c) == Copy(c, "stamp", "frame", "timestamp", timestamp)
CopyFrame(c) == Copy(c, "frame", "unlock", "frame", buf)

Unlock(c) == /\ At(c, "unlock", "send") /\ db' = Nobody
             /\ UNCHANGED <<alive, log, camera, frame, streamingState, copy>>

(* send_stream goes on until the client is gone, send_snapshot is over.    *)
Send(c) == /\ At(c, "send", "lock") \/ At(c, "send", "away")
           /\ copy' = [copy EXCEPT ![c] = NoCopy]
           /\ UNCHANGED <<alive, log, camera, frame, db, streamingState>>

(***************************************************************************)
(* setResolution, in the thread of a client                                *)
(***************************************************************************)
Pause(c) == /\ At(c, "away", "off") /\ cam # "boot"
            /\ streamingState' = "paused"
            /\ UNCHANGED <<alive, log, camera, frame, db, copy>>

(* video_disable, close and init_v4l2: one that fails leaves it at that.    *)
TurnOff(c) == /\ At(c, "off", "open")
              /\ streamingState' = "paused"
              /\ UNCHANGED <<alive, log, camera, frame, db, copy>>

GiveUp(c) == /\ At(c, "off", "away") \/ At(c, "open", "away")
             /\ UNCHANGED <<alive, log, camera, frame, db, streamingState, copy>>

video_enable(c) == /\ At(c, "open", "away")
                   /\ streamingState' = "on"
                   /\ UNCHANGED <<alive, log, camera, frame, db, copy>>

send_frame(c) == \/ Lock(c) \/ Wait(c) \/ Relock(c) \/ CopySize(c) \/ CopyStamp(c)
                 \/ CopyFrame(c) \/ Unlock(c)
setResolution(c) == Pause(c) \/ TurnOff(c) \/ GiveUp(c) \/ video_enable(c)

HubNext == \/ cam_thread
           \/ \E c \in Clients : \/ Connect(c) \/ send_frame(c) \/ WakeUnasked(c) \/ Send(c)
                                 \/ setResolution(c)

(***************************************************************************)
(* Properties                                                              *)
(***************************************************************************)
Tags == 0 .. 1

(* A frame is one of the tags; a mutex has one holder.                     *)
FlagsOK == alive \in BOOLEAN /\ skipped \in BOOLEAN
PlacesOK ==
  /\ cam \in {"boot", "loop", "grab", "lock", "copy", "size", "stamp", "signal", "unlock"}
  /\ db \in {Nobody, "camera"} \cup Clients /\ streamingState \in {"off", "on", "paused"}
  /\ web \in [Clients -> {"away", "lock", "unlockAndWait", "wait", "relock", "size", "stamp",
                          "frame", "unlock", "send", "off", "open"}]
FramesOK ==
  /\ log \in 0 .. LongAgo
  /\ tmpbuffer \in Tags /\ buf \in Tags /\ size \in Tags /\ timestamp \in Tags
  /\ copy \in [Clients -> [size: Tags, timestamp: Tags, frame: Tags]]
HubTypeOK == FlagsOK /\ PlacesOK /\ FramesOK

(* What a client is sent is the picture, the length and the time of one    *)
(* frame, although each is copied by itself while the camera goes on.      *)
OneFrame ==
  \A c \in Clients : web[c] = "send" => /\ copy[c].frame = copy[c].size
                                        /\ copy[c].timestamp = copy[c].size
=============================================================================
