----------------------------- MODULE CommandServer -----------------------------
(***************************************************************************)
(* The TCP server in main of remoteserver.c: it accepts one client at a     *)
(* time, reads up to BUFFER_SIZE bytes of what he has sent, and tells from  *)
(* the first byte how to take all of them: a speed, a colour, a question    *)
(* for the version, Scratch commands, or commands of the app.              *)
(*                                                                         *)
(* TCP keeps the order of the bytes but not the bounds of the writes: a     *)
(* read may return less than a write, or several writes at once.  A client  *)
(* that only sends app commands, of a byte each, can live with that.  One   *)
(* that also sends the longer messages cannot: main takes the rest of a     *)
(* message for a message of its own.  What the commands do to the car is in *)
(* CarControl.                                                             *)
(***************************************************************************)
EXTENDS Integers, Sequences

CONSTANTS BUFFER_SIZE,
          MaxUnread,     \* bound: app commands a client has in flight
          MaxBytes,      \* bound: bytes of messages a client has in flight
          Descriptors,   \* bound: descriptors the process may still open
          AppBytes,      \* commands of a client that sends nothing else
          Messages       \* what any other client may write at once

Prefix == [s |-> 115, c |-> 99, v |-> 118, xFF |-> 255, x55 |-> 85]

ASSUME ServerAssumption ==
  /\ BUFFER_SIZE \in Nat /\ BUFFER_SIZE >= 5
  /\ MaxUnread \in Nat /\ MaxBytes \in Nat /\ Descriptors \in Nat
  /\ AppBytes \subseteq 0 .. 98
  /\ \A m \in Messages : /\ m \in Seq(0 .. 255) /\ Len(m) \in 1 .. BUFFER_SIZE
                         /\ m[1] = Prefix.s => Len(m) = 4
                         /\ m[1] = Prefix.c => Len(m) = 5
                         /\ m[1] = Prefix.xFF => Len(m) > 2 /\ m[2] = Prefix.x55

VARIABLES pc,
          newsockfd,       \* what it stands for: a client, or the error of accept
          unread,          \* bytes the client has sent and main has not read
          buffer, via,     \* bytes of the last read not yet carried out, and by whom
          speedVal,        \* baseSpeed, addLeftSpeed, addRightSpeed
          getColour, getColIndex,
          listening,       \* sockfd is open
          poweroffFlag,
          descriptors,     \* how many are left; newsockfd is never closed
          clients,         \* environment: a client wants to connect
          packets,         \* environment: the client does not only send app commands
          hungUp,          \* environment: the client is gone
          garbled,         \* history: what such a client has sent and main has not read
                           \* is not one whole message
          last             \* history: what was carried out last

colourVars == <<getColour, getColIndex>>
socketVars == <<newsockfd, listening, descriptors>>
clientVars == <<clients, packets, hungUp>>
readVars == <<unread, garbled, buffer, via>>
vars == <<pc, socketVars, readVars, speedVal, colourVars, poweroffFlag, clientVars, last>>

Init == /\ pc = "listen"
        /\ newsockfd = "none"
        /\ unread = <<>> /\ garbled = FALSE /\ buffer = <<>> /\ via = "app"
        /\ speedVal = <<0, 0, 0>>
        /\ getColour = <<>> /\ getColIndex = 0
        /\ listening = TRUE /\ poweroffFlag = FALSE
        /\ descriptors = Descriptors
        /\ clients = FALSE /\ packets = FALSE /\ hungUp = FALSE
        /\ last = <<>>

(***************************************************************************)
(* The client                                                              *)
(***************************************************************************)
Connect == /\ ~clients
           /\ clients' = TRUE
           /\ UNCHANGED <<pc, socketVars, readVars, speedVal, colourVars, poweroffFlag, packets,
                          hungUp, last>>

Writable == newsockfd = "client" /\ ~hungUp

WriteApp == /\ Writable /\ ~packets
            /\ Len(unread) < MaxUnread
            /\ \E b \in AppBytes : unread' = Append(unread, b)
            /\ UNCHANGED <<pc, socketVars, garbled, buffer, via, speedVal, colourVars, poweroffFlag,
                           clientVars, last>>

WriteMessage == /\ Writable /\ packets
                /\ \E m \in Messages : /\ Len(unread) + Len(m) <= MaxBytes
                                      /\ unread' = unread \o m
                /\ garbled' = (unread # <<>>)
                /\ UNCHANGED <<pc, socketVars, buffer, via, speedVal, colourVars, poweroffFlag,
                               clientVars, last>>

(* The client closes the connection, or it breaks and what is unread is lost. *)
Leave(rest) == /\ Writable
               /\ hungUp' = TRUE
               /\ unread' = rest
               /\ garbled' = (garbled /\ rest # <<>>)
               /\ UNCHANGED <<pc, socketVars, buffer, via, speedVal, colourVars, poweroffFlag,
                              clients, packets, last>>

(***************************************************************************)
(* main                                                                    *)
(***************************************************************************)
Listen == /\ pc = "listen"
          /\ pc' = "accept"
          /\ UNCHANGED <<socketVars, readVars, speedVal, colourVars, poweroffFlag, clientVars,
                         last>>

Accept == /\ pc = "accept"
          /\ clients /\ listening /\ descriptors > 0
          /\ newsockfd' = "client"
          /\ descriptors' = descriptors - 1
          /\ clients' = FALSE
          /\ packets' \in BOOLEAN
          /\ hungUp' = FALSE
          /\ pc' = "read"
          /\ UNCHANGED <<listening, readVars, speedVal, colourVars, poweroffFlag, last>>

(* accept also fails when the process has no descriptor left, or no sockfd. *)
AcceptFails == /\ pc = "accept"
               /\ ~listening \/ (clients /\ descriptors = 0)
               /\ newsockfd' = "error"
               /\ pc' = "read"
               /\ UNCHANGED <<listening, descriptors, readVars, speedVal, colourVars,
                              poweroffFlag, clientVars, last>>

(* read: some of the bytes that are there.  What it leaves of the buffer is *)
(* zero.                                                                   *)
ReadLengths == 1 .. Len(unread)
Received(n, k) == IF k <= n THEN unread[k] ELSE 0

Reading(n) == /\ pc = "read" /\ newsockfd = "client"
              /\ n <= BUFFER_SIZE
              /\ unread' = SubSeq(unread, n + 1, Len(unread))
              /\ garbled' = (packets /\ unread' # <<>>)
              /\ UNCHANGED <<socketVars, poweroffFlag, clientVars>>

ReadSpeed(n) ==
  /\ Reading(n) /\ Received(n, 1) = Prefix.s
  /\ speedVal' = <<Received(n, 2), Received(n, 3), Received(n, 4)>>
  /\ last' = <<"speed">> \o speedVal'
  /\ UNCHANGED <<pc, buffer, via, colourVars>>

(* The colour goes to receive_colour_table, which only lights the LEDs: to  *)
(* the slot of the current direction, getColIndex, or, when the first colour *)
(* for it came 2 s ago or more (readNowTime), to the slot of the next.     *)
Slot_Unbounded(late) == IF late THEN getColIndex + 1 ELSE getColIndex
Slot(late) == IF late THEN (getColIndex + 1) % 4 ELSE getColIndex
ReadColour(n) ==
  /\ Reading(n) /\ Received(n, 1) = Prefix.c
  /\ getColour' = <<Received(n, 2), Received(n, 3), Received(n, 4), Received(n, 5)>>
  /\ \E late \in BOOLEAN : getColIndex' = Slot(late)
  /\ last' = <<"colour">> \o getColour'
  /\ UNCHANGED <<pc, buffer, via, speedVal>>

ReadVersion(n) == /\ Reading(n) /\ Received(n, 1) = Prefix.v
                  /\ last' = <<"version">>
                  /\ UNCHANGED <<pc, buffer, via, speedVal, colourVars>>

(* Any other bytes are commands, the first n of the buffer.                 *)
Taken_WholeBuffer(n) == BUFFER_SIZE
Taken(n) == n
ReadCommands(n) ==
  /\ Reading(n) /\ Received(n, 1) \notin {Prefix.s, Prefix.c, Prefix.v}
  /\ LET scratch == Received(n, 1) = Prefix.xFF /\ Received(n, 2) = Prefix.x55
         all == [k \in 1 .. Taken(n) |-> Received(n, k)]
     IN /\ via' = IF scratch THEN "scratch" ELSE "app"
        /\ buffer' = IF scratch THEN SubSeq(all, 3, Len(all)) ELSE all
  /\ pc' = "command"
  /\ UNCHANGED <<speedVal, colourVars, last>>

Read == \E n \in ReadLengths : ReadSpeed(n) \/ ReadColour(n) \/ ReadVersion(n) \/ ReadCommands(n)

(* updateCarState and updateCarMotion, or PhaseScratchCmd, of one byte.     *)
(* Command 19 closes sockfd (exit_UCTRONICS_Robot_Car).                    *)
PowersOff_KeepsListening(c) == listening' = listening
PowersOff(c) == listening' = (listening /\ c # 19)

Command == /\ pc = "command" /\ buffer # <<>>
           /\ LET c == Head(buffer)
              IN /\ poweroffFlag' = (poweroffFlag \/ c = 19)
                 /\ PowersOff(c)
                 /\ last' = <<via, c>>
           /\ buffer' = Tail(buffer)
           /\ UNCHANGED <<pc, newsockfd, descriptors, unread, garbled, via, speedVal, colourVars,
                          clientVars>>

CommandsDone == /\ pc = "command" /\ buffer = <<>>
                /\ pc' = "read"
                /\ via' = "app"
                /\ UNCHANGED <<socketVars, unread, garbled, buffer, speedVal, colourVars, poweroffFlag,
                               clientVars, last>>

(* read returns 0 or an error: the car stops, and main listens again.       *)
Gone == newsockfd = "error" \/ (hungUp /\ unread = <<>>)
AfterHangup_ReadsOn == "read"
AfterHangup == "listen"
Hangup == /\ pc = "read" /\ Gone
          /\ pc' = AfterHangup
          /\ newsockfd' = "none"
          /\ UNCHANGED <<listening, descriptors, readVars, speedVal, colourVars, poweroffFlag,
                         clientVars, last>>
-------------------------------------------------------------------------------
mainSteps == Listen \/ Accept \/ AcceptFails \/ Read \/ Command \/ CommandsDone \/ Hangup
clientSteps == Connect \/ WriteApp \/ WriteMessage \/ Leave(unread) \/ Leave(<<>>)

Next == mainSteps \/ clientSteps

(* main is scheduled again and again; clients owe nothing.                  *)
Spec == Init /\ [][Next]_vars /\ WF_vars(mainSteps)
-------------------------------------------------------------------------------
(* Every variable has its type, and getColIndex stays in the colour table.  *)
TypeOK ==
  /\ pc \in {"listen", "accept", "read", "command"}
  /\ newsockfd \in {"none", "client", "error"}
  /\ unread \in Seq(0 .. 255) /\ buffer \in Seq(0 .. 255)
  /\ via \in {"app", "scratch"}
  /\ speedVal \in Seq(0 .. 255) /\ getColour \in Seq(0 .. 255)
  /\ getColIndex \in 0 .. 3
  /\ descriptors \in 0 .. Descriptors
  /\ {listening, poweroffFlag, clients, packets, hungUp, garbled} \subseteq BOOLEAN

(* What a client means by the bytes it writes.                              *)
Meaning(m) ==
  CASE m = <<>> -> <<>>
    [] m # <<>> /\ m[1] = Prefix.s -> << <<"speed", m[2], m[3], m[4]>> >>
    [] m # <<>> /\ m[1] = Prefix.c -> << <<"colour", m[2], m[3], m[4], m[5]>> >>
    [] m # <<>> /\ m[1] = Prefix.v -> << <<"version">> >>
    [] m # <<>> /\ m[1] = Prefix.xFF -> [k \in 1 .. Len(m) - 2 |-> <<"scratch", m[k + 2]>>]
    [] OTHER -> [k \in DOMAIN m |-> <<"app", m[k]>>]

(* The server implements CommandFeed.  However TCP cuts and joins what a    *)
(* client of the app sends, main carries out what he meant, once and in     *)
(* order, and nothing of it for the next client.  For any other client it   *)
(* does so with a message that a read returns whole and alone; one that is  *)
(* cut or joined is carried out as something else, but that does not touch  *)
(* what is being carried out, nor what comes when all of it has been read.  *)
Carried == [k \in DOMAIN buffer |-> <<via, buffer[k]>>]
AppUnread == IF packets THEN <<>> ELSE Meaning(unread)
Whole == IF packets /\ ~garbled THEN Meaning(unread) ELSE <<>>
Feed == INSTANCE CommandFeed WITH pending <- Carried \o AppUnread, message <- Whole
ImplementsFeed == Feed!Spec

(* "Add support reconnection": once a client has left, the next is served,  *)
(* until the descriptors that main never closes have run out or the car is  *)
(* being turned off.                                                       *)
Served == newsockfd = "client" /\ ~hungUp
NextIsServed == (clients /\ ~Served) ~> (Served \/ descriptors = 0 \/ poweroffFlag)

(* Command 19: a car that is being turned off accepts nobody any more.      *)
NoneAfterPowerOff == [][poweroffFlag => ~(newsockfd # "client" /\ newsockfd' = "client")]_vars
===============================================================================
