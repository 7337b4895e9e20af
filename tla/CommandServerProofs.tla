-------------------------- MODULE CommandServerProofs --------------------------
(***************************************************************************)
(* Proofs about CommandServer, for every size of the buffer, number of      *)
(* bytes in flight and of descriptors, and whatever clients may send.       *)
(***************************************************************************)
EXTENDS CommandServer, SequenceTheorems, TLAPS

Byte == 0 .. 255

(***************************************************************************)
(* The inductive invariant: TypeOK, and how the connection, the bytes on    *)
(* their way and the buffer go together.                                   *)
(***************************************************************************)
(* Command 19 closes sockfd, and nothing opens it again.                    *)
Closed == poweroffFlag => ~listening

(* Bytes are on their way only to a client's socket, and in the buffer only *)
(* while main carries them out.                                            *)
Connected == /\ unread # <<>> => newsockfd = "client"
             /\ pc = "command" => newsockfd = "client"
             /\ newsockfd # "none" => pc \in {"read", "command"}
             /\ pc # "command" => buffer = <<>>

(* What is on its way from each kind of client.                             *)
Writing == /\ garbled => unread # <<>>
           /\ newsockfd = "client" =>
                IF packets THEN garbled \/ unread \in Messages \cup {<<>>}
                           ELSE ~garbled /\ unread \in Seq(AppBytes)

ServerInv == TypeOK /\ Closed /\ Connected /\ Writing

LEMMA Numbers == Descriptors \in Nat /\ BUFFER_SIZE \in Nat
BY ServerAssumption

LEMMA MessageSizes ==
  \A m \in Messages : m \in Seq(Byte) /\ m # <<>> /\ Len(m) \in Nat /\ Len(m) > 0
BY ServerAssumption DEF Byte

LEMMA ServerInit == Init => ServerInv
<1> SUFFICES ASSUME Init  PROVE ServerInv
  OBVIOUS
<1>1. <<>> \in Seq(Byte) /\ <<0, 0, 0>> \in Seq(Byte)
  BY DEF Byte
<1>2. TypeOK
  <2>1. /\ unread \in Seq(Byte) /\ buffer \in Seq(Byte)
        /\ speedVal \in Seq(Byte) /\ getColour \in Seq(Byte)
    BY <1>1 DEF Init
  <2>3. descriptors \in 0 .. Descriptors
    BY Numbers DEF Init
  <2>4. {listening, poweroffFlag, clients, packets, hungUp, garbled} \subseteq BOOLEAN
    BY DEF Init
  <2>5. getColIndex \in 0 .. 3 /\ pc = "listen" /\ newsockfd = "none" /\ via = "app"
    BY DEF Init
  <2> QED  BY <2>1, <2>3, <2>4, <2>5 DEF TypeOK, Byte
<1>3. Closed /\ Connected /\ Writing
  BY DEF Init, Closed, Connected, Writing
<1> QED  BY <1>2, <1>3 DEF ServerInv

(* What a read leaves unread, and what it puts in front of main.            *)
LEMMA ReadBytes ==
  ASSUME TypeOK, NEW n \in ReadLengths
  PROVE  /\ n \in 1 .. Len(unread) /\ unread # <<>>
         /\ \A k \in Nat \ {0} : Received(n, k) \in Byte
         /\ \A k \in 1 .. n : Received(n, k) = unread[k]
         /\ SubSeq(unread, n + 1, Len(unread)) \in Seq(Byte)
<1>1. unread \in Seq(Byte) /\ Len(unread) \in Nat /\ packets \in BOOLEAN
  BY DEF TypeOK, Byte
<1>2. n \in 1 .. Len(unread)
  BY <1>1 DEF ReadLengths
<1>3. unread # <<>>
  BY <1>1, <1>2
<1>4. \A k \in 1 .. Len(unread) : unread[k] \in Byte
  BY <1>1
<1>5. \A k \in Nat \ {0} : Received(n, k) \in Byte
  <2> SUFFICES ASSUME NEW k \in Nat \ {0}  PROVE Received(n, k) \in Byte
    OBVIOUS
  <2>2. CASE k \in 1 .. n
    BY <1>2, <1>4, <2>2 DEF Received
  <2>3. CASE k > n
    BY <1>2, <2>3 DEF Received, Byte
  <2> QED  BY <1>2, <2>2, <2>3
<1>6. \A k \in 1 .. n : Received(n, k) = unread[k]
  BY <1>2 DEF Received
<1>7. SubSeq(unread, n + 1, Len(unread)) \in Seq(Byte)
  BY <1>1, <1>2
<1> QED  BY <1>2, <1>3, <1>5, <1>6, <1>7

LEMMA ServerNext == ServerInv /\ [Next]_vars => ServerInv'
<1> SUFFICES ASSUME ServerInv, [Next]_vars  PROVE ServerInv'
  OBVIOUS
<1>t. /\ unread \in Seq(Byte) /\ buffer \in Seq(Byte) /\ Len(unread) \in Nat
      /\ packets \in BOOLEAN /\ poweroffFlag \in BOOLEAN /\ listening \in BOOLEAN
      /\ garbled \in BOOLEAN
  BY DEF ServerInv, TypeOK, Byte
<1>e. <<>> \in Seq(Byte) /\ <<>> \in Seq(AppBytes)
  OBVIOUS
<1>a. AppBytes \subseteq Byte /\ Messages \subseteq Seq(Byte)
  BY ServerAssumption DEF Byte
<1>1. CASE Connect
  BY <1>1
  DEF Connect, ServerInv, TypeOK, Closed, Connected, Writing, socketVars, readVars, colourVars
<1>2. CASE WriteApp
  <2>1. PICK b \in AppBytes : unread' = Append(unread, b)
    BY <1>2 DEF WriteApp
  <2>2. newsockfd = "client" /\ packets = FALSE
    BY <1>2, <1>t DEF WriteApp, Writable
  <2>3. unread \in Seq(AppBytes)
    BY <2>2 DEF ServerInv, Writing
  <2>4. unread' \in Seq(AppBytes) /\ unread' \in Seq(Byte)
    BY <2>1, <2>3, <1>a, <1>t
  <2> QED  BY <1>2, <2>2, <2>4
           DEF WriteApp, ServerInv, TypeOK, Closed, Connected, Writing, socketVars, colourVars,
               clientVars, Byte
<1>3. CASE WriteMessage
  <2>1. PICK m \in Messages : unread' = unread \o m
    BY <1>3 DEF WriteMessage
  <2>2. m \in Seq(Byte) /\ m # <<>>
    BY <1>a, MessageSizes
  <2>3. unread' \in Seq(Byte) /\ unread' # <<>> /\ (unread = <<>> => unread' = m)
    BY <2>1, <2>2, <1>t
  <2>4. newsockfd = "client" /\ packets /\ garbled' = (unread # <<>>)
    BY <1>3 DEF WriteMessage, Writable
  <2> QED  BY <1>3, <2>2, <2>3, <2>4
           DEF WriteMessage, ServerInv, TypeOK, Closed, Connected, Writing, socketVars, colourVars,
               clientVars, Byte
<1>4. CASE Leave(unread) \/ Leave(<<>>)
  <2>1. PICK rest \in {unread, <<>>} : Leave(rest)
    BY <1>4
  <2>2. rest \in Seq(Byte)
    BY <2>1, <1>t, <1>e
  <2>3. Writing'
    BY <2>1, <1>e DEF Leave, Writable, ServerInv, Writing, socketVars
  <2> QED  BY <2>1, <2>2, <2>3
           DEF Leave, Writable, ServerInv, TypeOK, Closed, Connected, socketVars, colourVars, Byte
<1>5. CASE Listen
  BY <1>5
  DEF Listen, ServerInv, TypeOK, Closed, Connected, Writing, socketVars, readVars, colourVars,
              clientVars
<1>6. CASE Accept
  <2>1. unread = <<>> /\ buffer = <<>>
    BY <1>6 DEF Accept, ServerInv, Connected
  <2>2. descriptors' \in 0 .. Descriptors
    BY <1>6, Numbers DEF Accept, ServerInv, TypeOK
  <2>3. TypeOK'
    BY <1>6, <2>2 DEF Accept, ServerInv, TypeOK, readVars, colourVars
  <2>4. Closed' /\ Connected' /\ Writing'
    BY <1>6, <2>1, <1>e DEF Accept, ServerInv, Closed, Connected, Writing, readVars
  <2> QED  BY <2>3, <2>4 DEF ServerInv
<1>7. CASE AcceptFails
  <2>1. unread = <<>> /\ buffer = <<>>
    BY <1>7 DEF AcceptFails, ServerInv, Connected
  <2> QED  BY <1>7, <2>1 DEF AcceptFails, ServerInv, TypeOK, Closed, Connected, Writing, readVars,
                         colourVars, clientVars
<1>8. ASSUME NEW n \in ReadLengths,
             ReadSpeed(n) \/ ReadColour(n) \/ ReadVersion(n) \/ ReadCommands(n)
      PROVE  ServerInv'
  <2>1. /\ pc = "read" /\ newsockfd = "client" /\ n <= BUFFER_SIZE
        /\ unread' = SubSeq(unread, n + 1, Len(unread))
        /\ UNCHANGED <<socketVars, poweroffFlag, clientVars>>
    BY <1>8 DEF ReadSpeed, ReadColour, ReadVersion, ReadCommands, Reading
  <2>g. garbled' = (packets /\ unread' # <<>>)
    BY <1>8 DEF ReadSpeed, ReadColour, ReadVersion, ReadCommands, Reading
  <2>2. /\ n \in 1 .. Len(unread) /\ unread' \in Seq(Byte)
        /\ \A k \in Nat \ {0} : Received(n, k) \in Byte
    BY <2>1, ReadBytes DEF ServerInv
  <2>3. Closed'
    BY <2>1 DEF ServerInv, Closed, socketVars
  <2>4. Writing'
    <3>1. CASE packets
      <4>1. garbled' = (unread' # <<>>) /\ packets' = packets
        BY <3>1, <2>1, <2>g DEF clientVars
      <4> QED  BY <4>1, <3>1 DEF Writing
    <3>2. CASE ~packets
      <4>1. unread \in Seq(AppBytes)
        BY <3>2, <2>1 DEF ServerInv, Writing
      <4>2. unread' \in Seq(AppBytes)
        BY <4>1, <2>1, <2>2
      <4> QED  BY <4>2, <3>2, <2>1, <2>g DEF Writing, clientVars
    <3> QED  BY <3>1, <3>2
  <2>5. /\ newsockfd' = "client" /\ pc' \in {"read", "command"}
        /\ pc' = "read" => buffer' = <<>>
    BY <2>1, <1>8
    DEF ReadSpeed, ReadColour, ReadVersion, ReadCommands, ServerInv, Connected, socketVars
  <2>6. Connected'
    BY <2>5 DEF Connected
  <2>7. speedVal' \in Seq(Byte) /\ getColour' \in Seq(Byte)
    <3>1. <<Received(n, 2), Received(n, 3), Received(n, 4)>> \in Seq(Byte)
      BY <2>2
    <3>2. <<Received(n, 2), Received(n, 3), Received(n, 4), Received(n, 5)>> \in Seq(Byte)
      BY <2>2
    <3>3. speedVal \in Seq(Byte) /\ getColour \in Seq(Byte)
      BY DEF ServerInv, TypeOK, Byte
    <3>4. CASE ReadSpeed(n)
      BY <3>1, <3>3, <3>4 DEF ReadSpeed, colourVars
    <3>5. CASE ReadColour(n)
      BY <3>2, <3>3, <3>5 DEF ReadColour
    <3>6. CASE ReadVersion(n) \/ ReadCommands(n)
      BY <3>3, <3>6 DEF ReadVersion, ReadCommands, colourVars
    <3> QED  BY <3>4, <3>5, <3>6, <1>8
  <2>8. getColIndex' \in 0 .. 3
    <3>1. getColIndex \in 0 .. 3
      BY DEF ServerInv, TypeOK, Byte
    <3>2. CASE ReadColour(n)
      <4>1. PICK late \in BOOLEAN : getColIndex' = Slot(late)
        BY <3>2 DEF ReadColour
      <4> QED  BY <4>1, <3>1 DEF Slot
    <3>3. CASE ReadSpeed(n) \/ ReadVersion(n) \/ ReadCommands(n)
      BY <3>1, <3>3 DEF ReadSpeed, ReadVersion, ReadCommands, colourVars
    <3> QED  BY <3>2, <3>3, <1>8
  <2>9. buffer' \in Seq(Byte) /\ via' \in {"app", "scratch"}
    <3>1. CASE ReadCommands(n)
      <4> DEFINE all == [k \in 1 .. n |-> Received(n, k)]
      <4>1. \A k \in 1 .. n : Received(n, k) \in Byte
        BY <2>2
      <4>2. all \in Seq(Byte) /\ Len(all) \in Nat
        BY <4>1, <2>2
      <4>3. SubSeq(all, 3, Len(all)) \in Seq(Byte)
        <5> HIDE DEF all
        <5> QED  BY <4>2
      <4> QED  BY <4>2, <4>3, <3>1 DEF ReadCommands, Taken
    <3>2. CASE ReadSpeed(n) \/ ReadColour(n) \/ ReadVersion(n)
      BY <3>2, <1>t DEF ReadSpeed, ReadColour, ReadVersion, ServerInv, TypeOK
    <3> QED  BY <3>1, <3>2, <1>8
  <2>10. /\ newsockfd' \in {"none", "client", "error"} /\ descriptors' \in 0 .. Descriptors
         /\ {listening', poweroffFlag', clients', packets', hungUp', garbled'} \subseteq BOOLEAN
    BY <2>1, <2>g DEF ServerInv, TypeOK, socketVars, clientVars
  <2>11. TypeOK'
    BY <2>2, <2>5, <2>7, <2>8, <2>9, <2>10 DEF TypeOK, Byte
  <2> QED  BY <2>3, <2>4, <2>6, <2>11 DEF ServerInv
<1>9. CASE Command
  <2>1. Tail(buffer) \in Seq(Byte)
    BY <1>9, <1>t DEF Command
  <2>2. Closed' /\ poweroffFlag' \in BOOLEAN /\ listening' \in BOOLEAN
    BY <1>9, <1>t DEF Command, PowersOff, ServerInv, Closed
  <2>3. Connected' /\ Writing'
    BY <1>9 DEF Command, ServerInv, Connected, Writing, clientVars
  <2> QED  BY <1>9, <2>1, <2>2, <2>3 DEF Command, ServerInv, TypeOK, colourVars, clientVars, Byte
<1>10. CASE CommandsDone
  BY <1>10 DEF CommandsDone, ServerInv, TypeOK, Closed, Connected, Writing, socketVars, colourVars,
               clientVars
<1>11. CASE Hangup
  <2>1. unread = <<>>
    BY <1>11 DEF Hangup, Gone, ServerInv, Connected
  <2> QED  BY <1>11, <2>1 DEF Hangup, AfterHangup, ServerInv, TypeOK, Closed, Connected, Writing,
                          readVars, colourVars, clientVars
<1>12. CASE UNCHANGED vars
  BY <1>12
  DEF vars, ServerInv, TypeOK, Closed, Connected, Writing, socketVars, readVars, colourVars,
               clientVars
<1> QED  BY <1>1, <1>2, <1>3, <1>4, <1>5, <1>6, <1>7, <1>8, <1>9, <1>10, <1>11, <1>12
         DEF Next, mainSteps, clientSteps, Read

(* Every variable of the TCP server has its type, and the colour a client   *)
(* sends always goes to one of the four slots of the table.                *)
THEOREM TypeCorrect == Spec => []TypeOK
<1>1. ServerInv => TypeOK
  BY DEF ServerInv
<1> QED  BY <1>1, ServerInit, ServerNext, PTL DEF Spec

(* Command 19: once the car is being turned off, no step of main or of a    *)
(* client makes newsockfd stand for a client that it did not stand for.    *)
THEOREM PoweredOffStaysAlone == Spec => NoneAfterPowerOff
<1>1. ASSUME ServerInv, [Next]_vars, poweroffFlag, newsockfd # "client", newsockfd' = "client"
      PROVE  FALSE
  <2>1. ~listening /\ newsockfd' # newsockfd
    BY <1>1 DEF ServerInv, Closed
  <2>2. ~Accept
    BY <2>1 DEF Accept
  <2> QED  BY <1>1, <2>1, <2>2
           DEF Next, mainSteps, clientSteps, Connect, WriteApp, WriteMessage, Leave, Listen,
               AcceptFails, Read, ReadSpeed, ReadColour, ReadVersion, ReadCommands, Reading, Command,
               CommandsDone, Hangup, vars, socketVars
<1>2. ServerInv /\ [Next]_vars
        => [poweroffFlag => ~(newsockfd # "client" /\ newsockfd' = "client")]_vars
  BY <1>1
<1> QED  BY <1>2, ServerInit, ServerNext, PTL DEF Spec, NoneAfterPowerOff

(***************************************************************************)
(* The refinement of CommandFeed.  Pending is what its variable stands for. *)
(***************************************************************************)
Pending == Carried \o AppUnread

Order == {<<v, b>> : v \in {"app", "scratch"}, b \in Byte}
           \cup {<<"speed", x, y, z>> : x, y, z \in Byte}
           \cup {<<"colour", w, x, y, z>> : w, x, y, z \in Byte}
           \cup {<<"version">>}

LEMMA NothingMeant == Meaning(<<>>) = <<>>
BY DEF Meaning

LEMMA OneOrder == <<>> \in Seq(Order) /\ \A x \in Order : <<x>> \in Seq(Order)
OBVIOUS

LEMMA PrefixBytes == /\ Prefix.s = 115 /\ Prefix.c = 99 /\ Prefix.v = 118 /\ Prefix.xFF = 255
                     /\ Prefix.x55 = 85
BY DEF Prefix

LEMMA NoPrefix == \A b \in 0 .. 98 : b \notin {Prefix.s, Prefix.c, Prefix.v, Prefix.xFF}
<1>1. \A b \in 0 .. 98 : b # 115 /\ b # 99 /\ b # 118 /\ b # 255
  OBVIOUS
<1> QED  BY <1>1, PrefixBytes

LEMMA AppMeaning ==
  ASSUME NEW m \in Seq(AppBytes)
  PROVE  /\ Meaning(m) = [k \in 1 .. Len(m) |-> <<"app", m[k]>>]
         /\ Meaning(m) \in Seq(Order)
<1>1. Len(m) \in Nat /\ DOMAIN m = 1 .. Len(m) /\ \A k \in 1 .. Len(m) : m[k] \in AppBytes
  OBVIOUS
<1>2. AppBytes \subseteq 0 .. 98
  BY ServerAssumption
<1>3. Meaning(m) = [k \in 1 .. Len(m) |-> <<"app", m[k]>>]
  <2>1. CASE m = <<>>
    BY <2>1 DEF Meaning
  <2>2. CASE m # <<>>
    <3>1. 1 \in 1 .. Len(m)
      BY <1>1, <2>2
    <3>2. m[1] \in 0 .. 98
      BY <1>1, <1>2, <3>1
    <3>3. m[1] \notin {Prefix.s, Prefix.c, Prefix.v, Prefix.xFF}
      BY <3>2, NoPrefix
    <3> QED  BY <1>1, <2>2, <3>3 DEF Meaning
  <2> QED  BY <2>1, <2>2
<1>4. \A k \in 1 .. Len(m) : <<"app", m[k]>> \in Order
  <2>1. \A b \in Byte : <<"app", b>> \in Order
    BY DEF Order
  <2>2. AppBytes \subseteq Byte
    BY <1>2 DEF Byte
  <2> QED  BY <1>1, <2>1, <2>2
<1>5. [k \in 1 .. Len(m) |-> <<"app", m[k]>>] \in [1 .. Len(m) -> Order]
  BY <1>4
<1>6. [k \in 1 .. Len(m) |-> <<"app", m[k]>>] \in Seq(Order)
  BY <1>1, <1>5, SeqDef
<1> QED  BY <1>3, <1>6

(* Each kind of message means what the branch of main for it carries out.   *)
LEMMA MessageMeaning ==
  ASSUME NEW m \in Messages
  PROVE  /\ m \in Seq(Byte) /\ m # <<>> /\ Len(m) \in Nat
         /\ m[1] = Prefix.s => Len(m) = 4 /\ Meaning(m) = << <<"speed", m[2], m[3], m[4]>> >>
         /\ m[1] = Prefix.c =>
              Len(m) = 5 /\ Meaning(m) = << <<"colour", m[2], m[3], m[4], m[5]>> >>
         /\ m[1] = Prefix.v => Meaning(m) = << <<"version">> >>
         /\ m[1] = Prefix.xFF =>
              /\ Len(m) > 2 /\ m[2] = Prefix.x55
              /\ Meaning(m) = [k \in 1 .. Len(m) - 2 |-> <<"scratch", m[k + 2]>>]
         /\ m[1] \notin {Prefix.s, Prefix.c, Prefix.v, Prefix.xFF} =>
              Meaning(m) = [k \in 1 .. Len(m) |-> <<"app", m[k]>>]
         /\ Meaning(m) \in Seq(Order) /\ Meaning(m) # <<>>
<1>1. /\ m \in Seq(Byte) /\ Len(m) \in 1 .. BUFFER_SIZE
      /\ m[1] = Prefix.s => Len(m) = 4
      /\ m[1] = Prefix.c => Len(m) = 5
      /\ m[1] = Prefix.xFF => Len(m) > 2 /\ m[2] = Prefix.x55
  BY ServerAssumption DEF Byte
<1>2. /\ m # <<>> /\ Len(m) \in Nat /\ DOMAIN m = 1 .. Len(m)
      /\ \A k \in 1 .. Len(m) : m[k] \in Byte
  BY <1>1, Numbers
<1>3. m[1] = Prefix.s => Meaning(m) = << <<"speed", m[2], m[3], m[4]>> >>
  BY <1>2 DEF Meaning, Prefix
<1>4. m[1] = Prefix.c => Meaning(m) = << <<"colour", m[2], m[3], m[4], m[5]>> >>
  BY <1>2 DEF Meaning, Prefix
<1>5. m[1] = Prefix.v => Meaning(m) = << <<"version">> >>
  BY <1>2 DEF Meaning, Prefix
<1>6. m[1] = Prefix.xFF => Meaning(m) = [k \in 1 .. Len(m) - 2 |-> <<"scratch", m[k + 2]>>]
  BY <1>2 DEF Meaning, Prefix
<1>7. m[1] \notin {Prefix.s, Prefix.c, Prefix.v, Prefix.xFF} =>
        Meaning(m) = [k \in 1 .. Len(m) |-> <<"app", m[k]>>]
  BY <1>2 DEF Meaning
<1>8. Meaning(m) \in Seq(Order)
  <2>1. CASE m[1] = Prefix.s
    <3>1. <<"speed", m[2], m[3], m[4]>> \in Order
      BY <1>1, <1>2, <2>1 DEF Order
    <3> QED  BY <2>1, <1>3, <3>1, OneOrder
  <2>2. CASE m[1] = Prefix.c
    <3>1. <<"colour", m[2], m[3], m[4], m[5]>> \in Order
      BY <1>1, <1>2, <2>2 DEF Order
    <3> QED  BY <2>2, <1>4, <3>1, OneOrder
  <2>3. CASE m[1] = Prefix.v
    <3>1. <<"version">> \in Order
      BY DEF Order
    <3> QED  BY <2>3, <1>5, <3>1, OneOrder
  <2>4. CASE m[1] = Prefix.xFF
    <3>1. \A k \in 1 .. Len(m) - 2 : <<"scratch", m[k + 2]>> \in Order
      BY <1>2 DEF Order
    <3>2. Len(m) - 2 \in Nat
      BY <1>1, <1>2, <2>4
    <3>3. Meaning(m) \in [1 .. Len(m) - 2 -> Order]
      BY <2>4, <1>6, <3>1
    <3> QED  BY <3>2, <3>3, SeqDef
  <2>5. CASE m[1] \notin {Prefix.s, Prefix.c, Prefix.v, Prefix.xFF}
    <3>1. \A k \in 1 .. Len(m) : <<"app", m[k]>> \in Order
      BY <1>2 DEF Order
    <3>2. Meaning(m) \in [1 .. Len(m) -> Order]
      BY <2>5, <1>7, <3>1
    <3> QED  BY <1>2, <3>2, SeqDef
  <2> QED  BY <2>1, <2>2, <2>3, <2>4, <2>5
<1>9. Meaning(m) # <<>>
  <2>1. CASE m[1] = Prefix.xFF
    <3>1. 1 \in 1 .. Len(m) - 2
      BY <1>1, <1>2, <2>1
    <3>2. DOMAIN Meaning(m) = 1 .. Len(m) - 2
      BY <2>1, <1>6
    <3> QED  BY <3>1, <3>2
  <2>2. CASE m[1] \notin {Prefix.s, Prefix.c, Prefix.v, Prefix.xFF}
    <3>1. DOMAIN Meaning(m) = 1 .. Len(m)
      BY <2>2, <1>7
    <3>2. 1 \in 1 .. Len(m)
      BY <1>1, Numbers
    <3> QED  BY <3>1, <3>2
  <2>3. CASE m[1] \in {Prefix.s, Prefix.c, Prefix.v}
    BY <2>3, <1>3, <1>4, <1>5
  <2> QED  BY <2>1, <2>2, <2>3
<1> QED  BY <1>1, <1>2, <1>3, <1>4, <1>5, <1>6, <1>7, <1>8, <1>9

LEMMA CarriedIsSeq ==
  ASSUME NEW b \in Seq(Byte), NEW v \in {"app", "scratch"}
  PROVE  [k \in DOMAIN b |-> <<v, b[k]>>] \in Seq(Order)
<1>1. DOMAIN b = 1 .. Len(b) /\ Len(b) \in Nat /\ \A k \in 1 .. Len(b) : b[k] \in Byte
  OBVIOUS
<1>2. \A k \in 1 .. Len(b) : <<v, b[k]>> \in Order
  BY <1>1 DEF Order
<1>3. [k \in DOMAIN b |-> <<v, b[k]>>] \in [1 .. Len(b) -> Order]
  BY <1>1, <1>2
<1> QED  BY <1>1, <1>3, SeqDef

LEMMA MeaningIsSeq ==
  \A m : m \in Messages \cup {<<>>} \cup Seq(AppBytes) => Meaning(m) \in Seq(Order)
<1>1. Meaning(<<>>) \in Seq(Order)
  BY NothingMeant, OneOrder
<1> QED  BY <1>1, AppMeaning, MessageMeaning

LEMMA PendingIsSeq ==
  ASSUME ServerInv
  PROVE  Carried \in Seq(Order) /\ AppUnread \in Seq(Order) /\ Whole \in Seq(Order)
<1>1. buffer \in Seq(Byte) /\ via \in {"app", "scratch"}
  BY DEF ServerInv, TypeOK, Byte
<1>2. ~garbled => unread \in Messages \cup {<<>>} \cup Seq(AppBytes)
  BY DEF ServerInv, Connected, Writing
<1>3. ~packets => unread \in {<<>>} \cup Seq(AppBytes)
  BY DEF ServerInv, Connected, Writing
<1> QED  BY <1>1, <1>2, <1>3, CarriedIsSeq, MeaningIsSeq, OneOrder DEF Carried, AppUnread, Whole

(* More, or less, at the end of what is pending.                            *)
LEMMA LongerAtEnd ==
  ASSUME NEW s \in Seq(Order), NEW t \in Seq(Order), NEW u \in Seq(Order), Feed!Extends(u, t)
  PROVE  Feed!Extends(s \o u, s \o t)
<1>1. /\ DOMAIN t = 1 .. Len(t) /\ DOMAIN u = 1 .. Len(u) /\ DOMAIN s = 1 .. Len(s)
      /\ Len(s) \in Nat /\ Len(t) \in Nat /\ Len(u) \in Nat
  OBVIOUS
<1>2. 1 .. Len(t) \subseteq 1 .. Len(u) /\ \A k \in 1 .. Len(t) : u[k] = t[k]
  BY <1>1 DEF Feed!Extends
<1>3. Len(t) <= Len(u)
  BY <1>1, <1>2
<1>4. /\ DOMAIN (s \o t) = 1 .. Len(s) + Len(t) /\ DOMAIN (s \o u) = 1 .. Len(s) + Len(u)
  BY ConcatProperties
<1>5. ASSUME NEW k \in 1 .. Len(s) + Len(t)  PROVE (s \o u)[k] = (s \o t)[k]
  <2>1. /\ (s \o t)[k] = IF k <= Len(s) THEN s[k] ELSE t[k - Len(s)]
        /\ k \in 1 .. Len(s) + Len(u)
    BY <1>1, <1>3, ConcatProperties
  <2>2. (s \o u)[k] = IF k <= Len(s) THEN s[k] ELSE u[k - Len(s)]
    BY <2>1, ConcatProperties
  <2>3. ~(k <= Len(s)) => k - Len(s) \in 1 .. Len(t)
    BY <1>1
  <2> QED  BY <1>2, <2>1, <2>2, <2>3
<1> QED  BY <1>1, <1>3, <1>4, <1>5 DEF Feed!Extends

LEMMA OrderConcat ==
  \A s, t \in Seq(Order) :
    /\ s \o t \in Seq(Order) /\ Len(s \o t) = Len(s) + Len(t)
    /\ \A k \in 1 .. Len(s) + Len(t) :
         (s \o t)[k] = IF k <= Len(s) THEN s[k] ELSE t[k - Len(s)]
BY ConcatProperties

(* App commands may be read in parts.                                       *)
LEMMA Glued ==
  ASSUME NEW m \in Seq(Byte), NEW n \in 1 .. Len(m), NEW s \in Seq(Order), NEW t \in Seq(Order),
         Len(s) = n, Len(t) = Len(m) - n,
         \A k \in 1 .. n : s[k] = <<"app", m[k]>>,
         \A k \in 1 .. Len(m) - n : t[k] = <<"app", m[k + n]>>
  PROVE  s \o t = [k \in 1 .. Len(m) |-> <<"app", m[k]>>]
<1>1. Len(m) \in Nat /\ Len(s) + Len(t) = Len(m)
  OBVIOUS
<1>b. /\ s \o t \in Seq(Order) /\ Len(s \o t) = Len(s) + Len(t)
      /\ \A k \in 1 .. Len(s) + Len(t) :
           (s \o t)[k] = IF k <= Len(s) THEN s[k] ELSE t[k - Len(s)]
  BY OrderConcat
<1>2. /\ s \o t \in Seq(Order) /\ Len(s \o t) = Len(m)
      /\ \A k \in 1 .. Len(m) : (s \o t)[k] = IF k <= n THEN s[k] ELSE t[k - n]
  BY <1>1, <1>b
<1>a. s \o t = [k \in 1 .. Len(m) |-> (s \o t)[k]]
  <2>1. \A r \in Seq(Order) : r = [k \in 1 .. Len(r) |-> r[k]]
    OBVIOUS
  <2> QED  BY <1>2, <2>1
<1>3. ASSUME NEW k \in 1 .. Len(m)  PROVE (s \o t)[k] = <<"app", m[k]>>
  <2>1. (s \o t)[k] = IF k <= n THEN s[k] ELSE t[k - n]
    BY <1>2
  <2>2. CASE k <= n
    BY <2>1, <2>2
  <2>3. CASE ~(k <= n)
    <3>1. k - n \in 1 .. Len(m) - n /\ (k - n) + n = k
      BY <1>1, <2>3
    <3> QED  BY <2>1, <2>3, <3>1
  <2> QED  BY <2>2, <2>3
<1> QED  BY <1>a, <1>3

(* What main notes when it has carried out a speed or a colour.             *)
Word == Byte \cup {"speed", "colour"}

LEMMA WordConcat ==
  \A s, t \in Seq(Word) :
    /\ s \o t \in Seq(Word) /\ Len(s \o t) = Len(s) + Len(t)
    /\ \A k \in 1 .. Len(s) + Len(t) :
         (s \o t)[k] = IF k <= Len(s) THEN s[k] ELSE t[k - Len(s)]
BY ConcatProperties

LEMMA Tagged ==
  /\ \A x, y, z \in Byte : <<"speed">> \o <<x, y, z>> = <<"speed", x, y, z>>
  /\ \A w, x, y, z \in Byte : <<"colour">> \o <<w, x, y, z>> = <<"colour", w, x, y, z>>
<1>1. ASSUME NEW x \in Byte, NEW y \in Byte, NEW z \in Byte
      PROVE  <<"speed">> \o <<x, y, z>> = <<"speed", x, y, z>>
  <2>1. <<"speed">> \in Seq(Word) /\ <<x, y, z>> \in Seq(Word)
    BY DEF Word
  <2> DEFINE r == <<"speed">> \o <<x, y, z>>
  <2>2. r \in Seq(Word) /\ Len(r) = 4 /\ r[1] = "speed" /\ r[2] = x /\ r[3] = y /\ r[4] = z
    BY <2>1, WordConcat
  <2> HIDE DEF r
  <2>3. r = <<"speed", x, y, z>>
    BY <2>2
  <2> QED  BY <2>3 DEF r
<1>2. ASSUME NEW w \in Byte, NEW x \in Byte, NEW y \in Byte, NEW z \in Byte
      PROVE  <<"colour">> \o <<w, x, y, z>> = <<"colour", w, x, y, z>>
  <2>1. <<"colour">> \in Seq(Word) /\ <<w, x, y, z>> \in Seq(Word)
    BY DEF Word
  <2> DEFINE r == <<"colour">> \o <<w, x, y, z>>
  <2>2. /\ r \in Seq(Word) /\ Len(r) = 5 /\ r[1] = "colour"
        /\ r[2] = w /\ r[3] = x /\ r[4] = y /\ r[5] = z
    BY <2>1, WordConcat
  <2> HIDE DEF r
  <2>3. r = <<"colour", w, x, y, z>>
    BY <2>2
  <2> QED  BY <2>3 DEF r
<1> QED  BY <1>1, <1>2

LEMMA FeedInit == Init => Feed!Init
<1> SUFFICES ASSUME Init  PROVE Carried \o AppUnread = <<>> /\ Whole = <<>> /\ ~garbled /\ last = <<>>
  BY DEF Feed!Init, Init
<1>1. buffer = <<>> /\ unread = <<>> /\ last = <<>> /\ ~garbled
  BY DEF Init
<1>2. Carried = <<>> /\ AppUnread = <<>> /\ Whole = <<>>
  BY <1>1, NothingMeant DEF Carried, AppUnread, Whole
<1> QED  BY <1>1, <1>2, OneOrder

(* Before a read from a client that does not only send app commands nothing *)
(* is pending; after one of less than a whole message the rest is garbled.  *)
LEMMA OnePacket ==
  ASSUME ServerInv, ServerInv', packets, NEW n \in ReadLengths, Reading(n)
  PROVE  /\ Pending = <<>> /\ Carried = <<>> /\ buffer = <<>>
         /\ packets' /\ AppUnread' = <<>> /\ Pending' = Carried' /\ Whole' = <<>>
         /\ garbled => Whole = <<>>
         /\ ~garbled => /\ unread \in Messages
                        /\ Whole = Meaning(unread) /\ Whole # <<>>
                        /\ \/ garbled'
                           \/ ~garbled' /\ n = Len(unread)
<1>1. /\ n \in 1 .. Len(unread) /\ unread # <<>> /\ Len(unread) \in Nat
  BY ReadBytes DEF ServerInv, TypeOK
<1>2. /\ pc = "read" /\ newsockfd = "client" /\ buffer = <<>> /\ packets' = packets
      /\ unread' = SubSeq(unread, n + 1, Len(unread))
      /\ garbled' = (unread' # <<>>)
  BY DEF Reading, ServerInv, Connected, clientVars
<1>3. Carried = <<>> /\ AppUnread = <<>> /\ AppUnread' = <<>>
  BY <1>2 DEF Carried, AppUnread
<1>4. Pending = <<>>
  BY <1>3, OneOrder DEF Pending
<1>5. Pending' = Carried'
  <2>1. Carried' \in Seq(Order)
    BY CarriedIsSeq DEF ServerInv, TypeOK, Byte, Carried
  <2> QED  BY <1>3, <2>1 DEF Pending
<1>6. Whole' = <<>>
  BY <1>2, NothingMeant DEF Whole
<1>7. ASSUME ~garbled
      PROVE  /\ unread \in Messages /\ Whole = Meaning(unread) /\ Whole # <<>>
             /\ garbled' \/ (~garbled' /\ n = Len(unread))
  <2>1. unread \in Messages
    BY <1>1, <1>2, <1>7 DEF ServerInv, Writing
  <2>2. Whole = Meaning(unread)
    BY <1>7 DEF Whole
  <2>3. unread' = <<>> => n = Len(unread)
    <3>1. unread \in Seq(Byte)
      BY DEF ServerInv, TypeOK, Byte
    <3>2. Len(unread') = Len(unread) - n
      BY <3>1, <1>1, <1>2
    <3> QED  BY <3>2, <1>1
  <2> QED  BY <1>2, <2>1, <2>2, <2>3, MessageMeaning
<1> QED  BY <1>2, <1>3, <1>4, <1>5, <1>6, <1>7 DEF Whole

(* What CommandFeed lets a read do with a message.                          *)
Taking == /\ Whole # <<>> /\ Pending = <<>> /\ Whole' = <<>> /\ garbled' = garbled
          /\ \/ Pending' = Whole /\ last' = last
             \/ Pending' = Tail(Whole) /\ last' = Head(Whole)
Garbling == /\ Pending = <<>> /\ Whole' = <<>> /\ garbled' \in BOOLEAN
            /\ (Whole # <<>> /\ garbled') \/ (garbled /\ Whole = <<>>)

(* A read that garbles a message.                                           *)
LEMMA ReadGarbles ==
  ASSUME ServerInv, ServerInv', packets, NEW n \in ReadLengths, Reading(n), garbled \/ garbled'
  PROVE  Garbling
<1>1. garbled' \in BOOLEAN
  BY DEF ServerInv, TypeOK
<1> QED  BY <1>1, OnePacket DEF Garbling

(* A read that is carried out at once and takes the whole message.          *)
LEMMA AtOnce ==
  ASSUME ServerInv, ServerInv', packets, NEW n \in ReadLengths, Reading(n), buffer' = buffer,
         ~garbled, ~garbled', last' = Head(Meaning(unread)), Tail(Meaning(unread)) = <<>>
  PROVE  Taking
<1>1. Carried' = <<>>
  BY OnePacket DEF Carried
<1>2. garbled' = garbled
  BY DEF ServerInv, TypeOK
<1> QED  BY <1>1, <1>2, OnePacket DEF Taking

(* The app sends no prefix.                                                 *)
LEMMA AppSendsNone ==
  ASSUME ServerInv, ~packets, newsockfd = "client", NEW n \in ReadLengths
  PROVE  Received(n, 1) \notin {Prefix.s, Prefix.c, Prefix.v, Prefix.xFF}
<1>1. n \in 1 .. Len(unread) /\ unread # <<>> /\ Received(n, 1) = unread[1]
  BY ReadBytes DEF ServerInv
<1>2. unread \in Seq(AppBytes)
  BY DEF ServerInv, Writing
<1>3. unread[1] \in AppBytes
  BY <1>1, <1>2
<1>4. AppBytes \subseteq 0 .. 98
  BY ServerAssumption
<1> QED  BY <1>1, <1>3, <1>4, NoPrefix

LEMMA FeedNext == ServerInv /\ ServerInv' /\ [Next]_vars => [Feed!Next]_(Feed!vars)
<1> DEFINE Same == Whole' = Whole /\ garbled' = garbled /\ last' = last
           Stutters == Pending' = Pending /\ Same
           Sends == Feed!Extends(Pending', Pending) /\ Same
           Writes == Whole = <<>> /\ ~garbled /\ Pending' = Pending /\ garbled' = garbled /\ last' = last
           Joins == Whole # <<>> /\ Whole' = <<>> /\ garbled' /\ Pending' = Pending /\ last' = last
           Executes == /\ Pending # <<>> /\ last' = Head(Pending) /\ Pending' = Tail(Pending)
                       /\ Whole' = Whole /\ garbled' = garbled
           Loses == /\ Feed!Extends(Pending, Pending') /\ Whole' \in {Whole, <<>>}
                    /\ (garbled' => garbled) /\ last' = last
<1> SUFFICES ASSUME ServerInv, ServerInv', [Next]_vars
             PROVE  \/ Stutters \/ Sends \/ Writes \/ Joins \/ Executes \/ Loses
                    \/ Taking \/ Garbling
  BY DEF Feed!Next, Feed!vars, Feed!Send, Feed!Write, Feed!Execute, Feed!Take, Feed!Join, Feed!Cut,
         Feed!Misread, Feed!Lose, Pending, Taking, Garbling
<1>p. Carried \in Seq(Order) /\ AppUnread \in Seq(Order)
  BY PendingIsSeq
<1>q. Carried' \in Seq(Order) /\ AppUnread' \in Seq(Order)
  <2>1. buffer' \in Seq(Byte) /\ via' \in {"app", "scratch"}
    BY DEF ServerInv, TypeOK, Byte
  <2>2. ~packets' => unread' \in {<<>>} \cup Seq(AppBytes)
    BY DEF ServerInv, Connected, Writing
  <2> QED  BY <2>1, <2>2, CarriedIsSeq, MeaningIsSeq, OneOrder DEF Carried, AppUnread
<1>t. /\ unread \in Seq(Byte) /\ buffer \in Seq(Byte) /\ Len(unread) \in Nat /\ Len(buffer) \in Nat
      /\ packets \in BOOLEAN /\ garbled \in BOOLEAN
  BY DEF ServerInv, TypeOK, Byte
<1>s. UNCHANGED <<unread, garbled, buffer, via, packets, last>> => Stutters
  BY DEF Pending, Carried, AppUnread, Whole
<1>1. CASE Connect \/ Listen \/ AcceptFails \/ Hangup \/ UNCHANGED vars
  BY <1>1, <1>s DEF Connect, Listen, AcceptFails, Hangup, vars, readVars, clientVars
<1>a. CASE Accept
  <2>1. unread = <<>> /\ UNCHANGED <<readVars, last>>
    BY <1>a DEF Accept, ServerInv, Connected
  <2>2. AppUnread = <<>> /\ AppUnread' = <<>> /\ Whole = <<>> /\ Whole' = <<>>
    BY <2>1, NothingMeant DEF AppUnread, Whole, readVars
  <2> QED  BY <2>1, <2>2 DEF Pending, Carried, readVars
<1>2. CASE WriteApp
  <2>1. PICK b \in AppBytes : unread' = Append(unread, b)
    BY <1>2 DEF WriteApp
  <2>2. /\ unread \in Seq(AppBytes) /\ unread' \in Seq(AppBytes)
        /\ ~packets /\ packets' = packets /\ garbled' = garbled
    BY <1>2, <2>1, <1>t DEF WriteApp, Writable, ServerInv, Writing, clientVars
  <2>3. /\ Len(unread') = Len(unread) + 1 /\ \A k \in 1 .. Len(unread) : unread'[k] = unread[k]
    BY <2>1, <2>2
  <2>4. /\ AppUnread = [k \in 1 .. Len(unread) |-> <<"app", unread[k]>>]
        /\ AppUnread' = [k \in 1 .. Len(unread') |-> <<"app", unread'[k]>>]
    BY <2>2, AppMeaning DEF AppUnread
  <2>5. Feed!Extends(AppUnread', AppUnread)
    BY <2>3, <2>4, <1>t DEF Feed!Extends
  <2>6. Carried' = Carried /\ last' = last /\ Whole = <<>> /\ Whole' = <<>>
    BY <1>2, <2>2 DEF WriteApp, Carried, Whole
  <2>7. Feed!Extends(Pending', Pending)
    BY <2>5, <2>6, <1>p, <1>q, LongerAtEnd DEF Pending
  <2> QED  BY <2>2, <2>6, <2>7
<1>3. CASE WriteMessage
  <2>1. /\ packets /\ packets' = packets /\ garbled' = (unread # <<>>) /\ newsockfd = "client"
        /\ UNCHANGED <<buffer, via, last>>
    BY <1>3 DEF WriteMessage, Writable, clientVars
  <2>2. Pending' = Pending
    BY <2>1 DEF Pending, Carried, AppUnread
  <2>3. CASE unread = <<>>
    <3>1. ~garbled /\ garbled' = garbled
      BY <2>1, <2>3, <1>t DEF ServerInv, Writing
    <3>2. Whole = <<>>
      BY <2>3, NothingMeant DEF Whole
    <3> QED  BY <2>1, <2>2, <3>1, <3>2
  <2>4. CASE unread # <<>> /\ ~garbled
    <3>1. unread \in Messages
      BY <2>1, <2>4 DEF ServerInv, Writing
    <3>2. Whole # <<>>
      BY <2>1, <2>4, <3>1, MessageMeaning DEF Whole
    <3>3. garbled' /\ Whole' = <<>>
      BY <2>1, <2>4 DEF Whole
    <3> QED  BY <2>1, <2>2, <3>2, <3>3
  <2>5. CASE unread # <<>> /\ garbled
    <3>1. garbled' = garbled /\ Whole = <<>> /\ Whole' = <<>>
      BY <2>1, <2>5, <1>t DEF Whole
    <3> QED  BY <2>1, <2>2, <3>1
  <2> QED  BY <2>3, <2>4, <2>5
<1>4. CASE Leave(unread)
  <2>1. unread # <<>> \/ ~garbled
    BY DEF ServerInv, Writing
  <2>2. UNCHANGED <<unread, garbled, buffer, via, packets, last>>
    BY <1>4, <2>1, <1>t DEF Leave
  <2> QED  BY <2>2, <1>s
<1>5. CASE Leave(<<>>)
  <2>1. unread' = <<>> /\ garbled' = FALSE /\ UNCHANGED <<buffer, via, last>>
    BY <1>5 DEF Leave
  <2>2. Carried' = Carried /\ AppUnread' = <<>> /\ Whole' = <<>>
    BY <2>1, NothingMeant DEF Carried, AppUnread, Whole
  <2>3. Feed!Extends(AppUnread, AppUnread')
    BY <2>2 DEF Feed!Extends
  <2>4. Feed!Extends(Pending, Pending')
    BY <2>2, <2>3, <1>p, <1>q, LongerAtEnd DEF Pending
  <2> QED  BY <2>1, <2>2, <2>4
<1>6. ASSUME NEW n \in ReadLengths, packets, Reading(n),
             ReadSpeed(n) \/ ReadColour(n) \/ ReadVersion(n) \/ ReadCommands(n),
             ~garbled, ~garbled'
      PROVE  Taking
  <2>1. /\ n = Len(unread) /\ unread \in Messages /\ Whole = Meaning(unread) /\ Whole # <<>>
        /\ Pending = <<>> /\ Pending' = Carried' /\ Whole' = <<>> /\ buffer = <<>>
    BY <1>6, OnePacket
  <2>2. /\ unread # <<>> /\ \A k \in 1 .. n : Received(n, k) = unread[k]
        /\ Received(n, 1) = unread[1]
    BY ReadBytes, <1>6 DEF ServerInv
  <2>3. CASE ReadSpeed(n)
    <3>1. /\ Received(n, 1) = Prefix.s /\ buffer' = buffer
          /\ last' = <<"speed">> \o <<Received(n, 2), Received(n, 3), Received(n, 4)>>
      BY <2>3 DEF ReadSpeed
    <3>2. Len(unread) = 4 /\ Meaning(unread) = << <<"speed", unread[2], unread[3], unread[4]>> >>
      BY <2>1, <2>2, <3>1, MessageMeaning
    <3>3. last' = <<"speed", unread[2], unread[3], unread[4]>>
      BY <2>1, <2>2, <3>1, <3>2, <1>6, ReadBytes, Tagged DEF ServerInv
    <3>4. last' = Head(Meaning(unread)) /\ Tail(Meaning(unread)) = <<>>
      BY <3>2, <3>3
    <3> QED  BY <1>6, <3>1, <3>4, AtOnce
  <2>4. CASE ReadColour(n)
    <3>1. /\ Received(n, 1) = Prefix.c /\ buffer' = buffer
          /\ last' = <<"colour">> \o <<Received(n, 2), Received(n, 3), Received(n, 4), Received(n, 5)>>
      BY <2>4 DEF ReadColour
    <3>2. /\ Len(unread) = 5
          /\ Meaning(unread) = << <<"colour", unread[2], unread[3], unread[4], unread[5]>> >>
      BY <2>1, <2>2, <3>1, MessageMeaning
    <3>3. last' = <<"colour", unread[2], unread[3], unread[4], unread[5]>>
      BY <2>1, <2>2, <3>1, <3>2, <1>6, ReadBytes, Tagged DEF ServerInv
    <3>4. last' = Head(Meaning(unread)) /\ Tail(Meaning(unread)) = <<>>
      BY <3>2, <3>3
    <3> QED  BY <1>6, <3>1, <3>4, AtOnce
  <2>5. CASE ReadVersion(n)
    <3>1. Received(n, 1) = Prefix.v /\ buffer' = buffer /\ last' = <<"version">>
      BY <2>5 DEF ReadVersion
    <3>2. Meaning(unread) = << <<"version">> >>
      BY <2>1, <2>2, <3>1, MessageMeaning
    <3>3. last' = Head(Meaning(unread)) /\ Tail(Meaning(unread)) = <<>>
      BY <3>1, <3>2
    <3> QED  BY <1>6, <3>1, <3>3, AtOnce
  <2>6. CASE ReadCommands(n)
    <3> DEFINE all == [k \in 1 .. n |-> Received(n, k)]
               scratch == Received(n, 1) = Prefix.xFF /\ Received(n, 2) = Prefix.x55
    <3>1. /\ last' = last /\ Received(n, 1) \notin {Prefix.s, Prefix.c, Prefix.v}
          /\ via' = (IF scratch THEN "scratch" ELSE "app")
          /\ buffer' = (IF scratch THEN SubSeq(all, 3, Len(all)) ELSE all)
      BY <2>6 DEF ReadCommands, Taken
    <3>2. all = unread
      BY <2>1, <2>2, <1>t
    <3>3. Carried' = Meaning(unread)
      <4>1. CASE unread[1] = Prefix.xFF
        <5>1. /\ Len(unread) > 2 /\ unread[2] = Prefix.x55
              /\ Meaning(unread) = [k \in 1 .. Len(unread) - 2 |-> <<"scratch", unread[k + 2]>>]
          BY <2>1, <4>1, MessageMeaning
        <5>2. scratch
          BY <5>1, <4>1, <2>1, <2>2, <1>t
        <5>3. buffer' = SubSeq(unread, 3, Len(unread)) /\ via' = "scratch"
          BY <5>2, <3>1, <3>2
        <5>4. /\ DOMAIN buffer' = 1 .. Len(unread) - 2
              /\ \A k \in 1 .. Len(unread) - 2 : buffer'[k] = unread[k + 2]
          BY <5>1, <5>3, <1>t
        <5> QED  BY <5>1, <5>3, <5>4 DEF Carried
      <4>2. CASE unread[1] # Prefix.xFF
        <5>1. Meaning(unread) = [k \in 1 .. Len(unread) |-> <<"app", unread[k]>>]
          BY <2>1, <2>2, <4>2, <3>1, MessageMeaning
        <5>2. buffer' = unread /\ via' = "app"
          BY <4>2, <3>1, <3>2, <2>2
        <5>3. DOMAIN buffer' = 1 .. Len(unread)
          BY <5>2, <1>t
        <5> QED  BY <5>1, <5>2, <5>3 DEF Carried
      <4> QED  BY <4>1, <4>2
    <3>4. garbled' = garbled
      BY <1>6, <1>t DEF ServerInv, TypeOK
    <3> QED  BY <2>1, <3>1, <3>3, <3>4 DEF Taking
  <2> QED  BY <1>6, <2>3, <2>4, <2>5, <2>6
<1>7. ASSUME NEW n \in ReadLengths, ~packets, ReadCommands(n)  PROVE Stutters
  <2> DEFINE all == [k \in 1 .. n |-> Received(n, k)]
             scratch == Received(n, 1) = Prefix.xFF /\ Received(n, 2) = Prefix.x55
  <2>1. /\ pc = "read" /\ newsockfd = "client" /\ buffer = <<>> /\ last' = last
        /\ unread' = SubSeq(unread, n + 1, Len(unread))
        /\ packets' = packets /\ garbled' = FALSE
        /\ via' = (IF scratch THEN "scratch" ELSE "app")
        /\ buffer' = (IF scratch THEN SubSeq(all, 3, Len(all)) ELSE all)
    BY <1>7 DEF ReadCommands, Reading, Taken, ServerInv, Connected, clientVars
  <2>2. /\ n \in 1 .. Len(unread) /\ \A k \in 1 .. n : Received(n, k) = unread[k]
    BY ReadBytes DEF ServerInv
  <2>3. all = [k \in 1 .. n |-> unread[k]]
    BY <2>2, <1>t
  <2>4. Carried = <<>> /\ Pending = AppUnread /\ Whole = <<>> /\ Whole' = <<>>
    BY <2>1, <1>7, <1>p DEF Carried, Pending, Whole
  <2>5. unread \in Seq(AppBytes) /\ unread' \in Seq(AppBytes) /\ ~garbled
    <3>1. unread \in Seq(AppBytes) /\ ~garbled
      BY <2>1, <1>7 DEF ServerInv, Writing
    <3> QED  BY <3>1, <2>1, <2>2, <1>t
  <2>6. ~scratch
    BY <1>7, <2>1, AppSendsNone
  <2>7. Carried' = [k \in 1 .. n |-> <<"app", unread[k]>>]
    <3>1. buffer' = [k \in 1 .. n |-> unread[k]] /\ via' = "app"
      BY <2>6, <2>1, <2>3
    <3> QED  BY <3>1 DEF Carried
  <2>8. /\ Len(unread') = Len(unread) - n
        /\ \A k \in 1 .. Len(unread) - n : unread'[k] = unread[k + n]
    BY <2>1, <2>2, <1>t
  <2>9. /\ AppUnread = [k \in 1 .. Len(unread) |-> <<"app", unread[k]>>]
        /\ AppUnread' = [k \in 1 .. Len(unread) - n |-> <<"app", unread[k + n]>>]
    BY <2>1, <2>5, <2>8, <1>7, AppMeaning DEF AppUnread
  <2>10. Carried' \o AppUnread' = AppUnread
    <3>1. /\ Len(Carried') = n /\ \A k \in 1 .. n : Carried'[k] = <<"app", unread[k]>>
      BY <2>7, <1>q, <2>2
    <3>2. /\ Len(AppUnread') = Len(unread) - n
          /\ \A k \in 1 .. Len(unread) - n : AppUnread'[k] = <<"app", unread[k + n]>>
      BY <2>9, <1>q, <2>2, <1>t
    <3>3. Carried' \o AppUnread' = [k \in 1 .. Len(unread) |-> <<"app", unread[k]>>]
      BY <3>1, <3>2, <2>2, <1>q, <1>t, Glued
    <3> QED  BY <3>3, <2>9
  <2> QED  BY <2>1, <2>4, <2>5, <2>10, <1>t DEF Pending
<1>8. CASE Read
  <2>1. PICK n \in ReadLengths : ReadSpeed(n) \/ ReadColour(n) \/ ReadVersion(n) \/ ReadCommands(n)
    BY <1>8 DEF Read
  <2>2. Reading(n) /\ newsockfd = "client"
    BY <2>1 DEF ReadSpeed, ReadColour, ReadVersion, ReadCommands, Reading
  <2>3. CASE packets /\ (garbled \/ garbled')
    BY <2>2, <2>3, ReadGarbles
  <2>4. CASE packets /\ ~garbled /\ ~garbled'
    BY <2>1, <2>2, <2>4, <1>6
  <2>5. CASE ~packets
    <3>1. ReadCommands(n)
      BY <2>1, <2>2, <2>5, AppSendsNone DEF ReadSpeed, ReadColour, ReadVersion
    <3> QED  BY <2>5, <3>1, <1>7
  <2> QED  BY <2>3, <2>4, <2>5
<1>10. CASE Command
  <2>1. /\ buffer # <<>> /\ last' = <<via, Head(buffer)>> /\ buffer' = Tail(buffer)
        /\ UNCHANGED <<unread, garbled, via, packets>>
    BY <1>10 DEF Command, clientVars
  <2>2. /\ Head(buffer) = buffer[1] /\ Len(buffer') = Len(buffer) - 1 /\ Len(buffer) > 0
        /\ \A k \in 1 .. Len(buffer) - 1 : buffer'[k] = buffer[k + 1]
        /\ DOMAIN buffer' = 1 .. Len(buffer) - 1 /\ DOMAIN buffer = 1 .. Len(buffer)
    BY <2>1, <1>t
  <2>3. Carried # <<>> /\ Head(Carried) = <<via, buffer[1]>> /\ Len(Carried) = Len(buffer)
    BY <2>2, <1>t, <1>p DEF Carried
  <2>4. Carried' = [k \in 1 .. Len(buffer) - 1 |-> <<via, buffer[k + 1]>>]
    BY <2>1, <2>2 DEF Carried
  <2>5. Carried' = Tail(Carried)
    BY <2>2, <2>3, <2>4, <1>t, <1>p DEF Carried
  <2>6. \A s, t \in Seq(Order) : s # <<>> =>
          /\ s \o t # <<>> /\ Head(s \o t) = Head(s) /\ Tail(s \o t) = Tail(s) \o t
    OBVIOUS
  <2>7. AppUnread' = AppUnread /\ Whole' = Whole /\ garbled' = garbled
    BY <2>1 DEF AppUnread, Whole
  <2>8. Pending # <<>> /\ last' = Head(Pending) /\ Pending' = Tail(Pending)
    BY <2>1, <2>2, <2>3, <2>5, <2>6, <2>7, <1>p DEF Pending
  <2> QED  BY <2>7, <2>8
<1>11. CASE CommandsDone
  <2>1. /\ buffer = <<>> /\ buffer' = <<>>
        /\ UNCHANGED <<unread, garbled, packets, last>>
    BY <1>11 DEF CommandsDone, clientVars
  <2>2. Carried = <<>> /\ Carried' = <<>> /\ AppUnread' = AppUnread /\ Whole' = Whole
    BY <2>1 DEF Carried, AppUnread, Whole
  <2> QED  BY <2>1, <2>2 DEF Pending
<1> HIDE DEF Stutters, Sends, Writes, Joins, Executes, Loses
<1> QED  BY <1>1, <1>a, <1>2, <1>3, <1>4, <1>5, <1>8, <1>10, <1>11
         DEF Next, mainSteps, clientSteps

(* For every buffer, whatever clients of either kind send and however TCP   *)
(* cuts and joins it: main carries out the commands of the app once and in  *)
(* order, and so it does with a message that is read whole; one that is not *)
(* stands for anything, but disturbs neither what came before nor what      *)
(* comes after it.                                                         *)
THEOREM ImplementsFeedSafely == Spec => Feed!SafetySpec
<1>1. ServerInv /\ ServerInv' /\ [Next]_vars => [Feed!Next]_(Feed!vars)
  BY FeedNext
<1> QED  BY <1>1, FeedInit, ServerInit, ServerNext, PTL DEF Spec, Feed!SafetySpec
===============================================================================
