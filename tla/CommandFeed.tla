------------------------------ MODULE CommandFeed ------------------------------
(***************************************************************************)
(* What the TCP server of remoteserver.c promises its client: commands are  *)
(* carried out one by one in the order in which they were sent, each once,  *)
(* until the connection is lost, and then the rest of them are dropped.     *)
(* A message of several bytes waits to be read at once; if it is not, what  *)
(* main makes of it is anything, until all that was sent has been read.     *)
(***************************************************************************)
EXTENDS Sequences

VARIABLES pending,     \* commands sent and not carried out
          message,     \* commands of a message of which nothing has been read
          garbled,     \* the rest of a message, or several, wait to be read
          last         \* the command carried out last

vars == <<pending, message, garbled, last>>

Init == pending = <<>> /\ message = <<>> /\ garbled = FALSE /\ last = <<>>

(* t begins with s.                                                         *)
Extends(t, s) == DOMAIN s \subseteq DOMAIN t /\ \A k \in DOMAIN s : t[k] = s[k]

Send == Extends(pending', pending) /\ UNCHANGED <<message, garbled, last>>

Write == message = <<>> /\ ~garbled /\ UNCHANGED <<pending, garbled, last>>

Execute == /\ pending # <<>>
           /\ last' = Head(pending)
           /\ pending' = Tail(pending)
           /\ UNCHANGED <<message, garbled>>

(* A message is read whole, and its first command may be carried out at once. *)
Take == /\ message # <<>> /\ pending = <<>>
        /\ message' = <<>>
        /\ \/ pending' = message /\ UNCHANGED last
           \/ pending' = Tail(message) /\ last' = Head(message)
        /\ UNCHANGED garbled

(* A message is joined by the next, or cut by a read.                       *)
Join == message # <<>> /\ message' = <<>> /\ garbled' /\ UNCHANGED <<pending, last>>
Cut == message # <<>> /\ message' = <<>> /\ garbled' /\ pending = <<>>

(* A garbled message is read on, and taken for whatever it looks like.      *)
Misread == garbled /\ pending = <<>> /\ garbled' \in BOOLEAN /\ UNCHANGED message

(* The connection breaks: the commands sent last are lost.                  *)
Lose == /\ Extends(pending, pending')
        /\ message' \in {message, <<>>}
        /\ garbled' => garbled
        /\ UNCHANGED last

Next == Send \/ Write \/ Execute \/ Take \/ Join \/ Cut \/ Misread \/ Lose

SafetySpec == Init /\ [][Next]_vars
Spec == SafetySpec /\ WF_vars(Execute) /\ WF_vars(Take)
===============================================================================
