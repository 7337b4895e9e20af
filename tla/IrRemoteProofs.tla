---------------------------- MODULE IrRemoteProofs ----------------------------
(***************************************************************************)
(* For all limits, angles to start from, and codes that are a command and   *)
(* its inverse.                                                            *)
(*                                                                         *)
(* PulseInRange: only Move changes an angle, and Stepped, which tests the   *)
(* limit first, stays less than a step beyond either limit.                *)
(*                                                                         *)
(* OnlySentCommands: Received says what buf holds after each bit and after  *)
(* a loss; two bytes of buf make a code only when they are of one frame.   *)
(***************************************************************************)
EXTENDS IrRemote, TLAPS

(* What the proof needs beside PulseInRange: the angles are integers.       *)
AnglesAreIntegers == angle \in [Copies -> [Axes -> Int]]

IInv == AnglesAreIntegers /\ PulseInRange

(* A step from within the range ends within the range.                     *)
LEMMA SteppedInRange ==
  ASSUME IInv, NEW k \in Copies, NEW b \in Buttons
  PROVE  /\ Stepped(k, b) \in Int
         /\ Low[k][Axis(b)] - 50 < Stepped(k, b)
         /\ Stepped(k, b) < High[k][Axis(b)] + 50
<1> DEFINE x == Axis(b)
           now == angle[k][x]
           low == Low[k][x]
           high == High[k][x]
<1>1. x \in Axes
  BY DEF Axis, Axes
<1>2. /\ now \in Int /\ low \in Int /\ high \in Int
      /\ low <= high /\ low - 50 < now /\ now < high + 50
  <2>1. now \in Int
    BY <1>1 DEF IInv, AnglesAreIntegers
  <2>2. low \in Int /\ high \in Int /\ Start[k][x] \in Int
    BY <1>1, AngleAssumption
  <2>3. low <= Start[k][x] /\ Start[k][x] <= high
    BY <1>1, AngleAssumption
  <2>4. low - 50 < now /\ now < high + 50
    BY <1>1 DEF IInv, PulseInRange
  <2> QED
    BY <2>1, <2>2, <2>3, <2>4
<1>3. Stepped(k, b) = IF Up(b) THEN IF now < high THEN now + 50 ELSE high
                               ELSE IF now > low THEN now - 50 ELSE low
  BY DEF Stepped
<1> HIDE DEF x, now, low, high
<1>4. CASE Up(b)
  BY <1>2, <1>3, <1>4 DEF x, now, low, high
<1>5. CASE ~Up(b)
  BY <1>2, <1>3, <1>5 DEF x, now, low, high
<1> QED
  BY <1>4, <1>5

(* So does a movement of any of the three controllers.                     *)
LEMMA MoveKeepsRange ==
  ASSUME IInv, NEW k \in Copies, NEW b \in Buttons, Move(k, b)
  PROVE  IInv'
<1> DEFINE to == Stepped(k, b)
<1>1. to \in Int /\ Low[k][Axis(b)] - 50 < to /\ to < High[k][Axis(b)] + 50
  BY SteppedInRange
<1>2. angle' = [angle EXCEPT ![k][Axis(b)] = to]
  BY DEF Move
<1>3. Axis(b) \in Axes
  BY DEF Axis, Axes
<1>4. angle \in [Copies -> [Axes -> Int]]
  BY DEF IInv, AnglesAreIntegers
<1> HIDE DEF to
<1>5. AnglesAreIntegers'
  BY <1>1, <1>2, <1>3, <1>4 DEF AnglesAreIntegers
<1>6. ASSUME NEW j \in Copies, NEW y \in Axes
      PROVE  Low[j][y] - 50 < angle'[j][y] /\ angle'[j][y] < High[j][y] + 50
  <2>1. CASE j = k /\ y = Axis(b)
    <3>1. angle'[j][y] = to
      BY <1>2, <1>4, <2>1
    <3> QED
      BY <1>1, <2>1, <3>1
  <2>2. CASE ~(j = k /\ y = Axis(b))
    <3>1. angle'[j][y] = angle[j][y]
      BY <1>2, <1>4, <2>2
    <3>2. Low[j][y] - 50 < angle[j][y] /\ angle[j][y] < High[j][y] + 50
      BY DEF IInv, PulseInRange
    <3> QED
      BY <3>1, <3>2
  <2> QED
    BY <2>1, <2>2
<1> QED
  BY <1>5, <1>6 DEF IInv, PulseInRange

LEMMA InitInRange == Init => IInv
<1> SUFFICES ASSUME Init PROVE IInv
  OBVIOUS
<1>1. angle = Start
  BY DEF Init
<1>2. AnglesAreIntegers
  BY <1>1, AngleAssumption DEF AnglesAreIntegers
<1>3. ASSUME NEW k \in Copies, NEW x \in Axes
      PROVE  Low[k][x] - 50 < angle[k][x] /\ angle[k][x] < High[k][x] + 50
  <2>1. Low[k][x] \in Int /\ High[k][x] \in Int /\ Start[k][x] \in Int
    BY AngleAssumption
  <2>2. Low[k][x] <= Start[k][x] /\ Start[k][x] <= High[k][x]
    BY AngleAssumption
  <2> QED
    BY <1>1, <2>1, <2>2
<1> QED
  BY <1>2, <1>3 DEF IInv, PulseInRange

LEMMA Same == IInv /\ UNCHANGED angle => IInv'
  BY DEF IInv, AnglesAreIntegers, PulseInRange

(* One step per action; a button outside ServoBits is not moved.           *)
LEMMA NextKeepsRange == IInv /\ [Next]_vars => IInv'
<1> SUFFICES ASSUME IInv, [Next]_vars PROVE IInv'
  OBVIOUS
<1>1. ServoBits \subseteq Buttons
  BY ServoBitsAssumption
<1>2. ASSUME NEW t, NEW k \in Copies, NEW b \in ServoBits, NEW next, Test(t, k, b, next)
      PROVE  IInv'
  <2>1. b \in Buttons
    BY <1>1
  <2>2. CASE carstate[b] /\ Move(k, b)
    BY <2>1, <2>2, MoveKeepsRange
  <2>3. CASE UNCHANGED servos
    BY <2>3, Same DEF servos
  <2> QED
    BY <1>2, <2>2, <2>3 DEF Test
<1>3. CASE getIR
  BY <1>3, Same DEF getIR, FrameBegins, BitComes, FrameEnds, FrameIsLost, Echo, servos
<1>4. CASE fun2
  <2>1. CASE IR_updateCarMotion
    BY <1>2, <2>1 DEF IR_updateCarMotion, Copies
  <2>2. CASE NoMode \/ TestDone \/ Clear \/ CommandDone
    BY <2>2, Same DEF NoMode, TestDone, Clear, CommandDone, servos
  <2>3. CASE Read \/ ReadMeanwhile
    BY <2>3, Same DEF Read, ReadMeanwhile, IR_updateCarState
  <2> QED
    BY <1>4, <2>1, <2>2, <2>3 DEF fun2
<1>5. CASE EnterMode \/ LeaveMode
  BY <1>5, Same DEF EnterMode, LeaveMode, servos
<1>6. CASE main
  <2>1. CASE updateCarState
    BY <2>1, Same DEF updateCarState
  <2>2. CASE updateCarMotion
    BY <1>2, <2>2 DEF updateCarMotion, Copies
  <2>3. CASE PhaseScratchCmd
    <3>1. PICK b \in ServoBits : Move("Scratch", b)
      BY <2>3 DEF PhaseScratchCmd
    <3>2. b \in Buttons /\ "Scratch" \in Copies
      BY <1>1 DEF Copies
    <3> QED
      BY <3>1, <3>2, MoveKeepsRange
  <2> QED
    BY <1>6, <2>1, <2>2, <2>3 DEF main
<1>7. CASE UNCHANGED vars
  BY <1>7, Same DEF vars, servos
<1> QED
  BY <1>3, <1>4, <1>5, <1>6, <1>7 DEF Next

(* No controller drives a servo a whole step beyond its limits, whatever    *)
(* the limits and however the two threads share the buttons.               *)
THEOREM ServosStayInRange == Spec => []PulseInRange
<1>1. Spec => []IInv
  BY InitInRange, NextKeepsRange, PTL DEF Spec
<1>2. IInv => PulseInRange
  BY DEF IInv
<1> QED
  BY <1>1, <1>2, PTL

(***************************************************************************)
(* What buf holds, bit by bit.                                             *)
(***************************************************************************)
(* k bits of value, which come with the lowest first, are in at the top of b. *)
ShiftedIn(k, b, value) == b \div (2 ^ (8 - k)) = value % (2 ^ k)

(* The command byte is that of the frame on the air once its eight bits are *)
(* in. Until then its inverse is that of the last complete frame, or, since *)
(* a signal was lost within it, the inverse of no command at all.          *)
Received ==
  /\ bitsIn # Idle => coming \in Codes
  /\ bitsIn \in 0 .. 7 => ShiftedIn(bitsIn, buf[2], HighByte(coming))
  /\ bitsIn \in 8 .. 16 => /\ buf[2] = HighByte(coming)
                           /\ ShiftedIn(bitsIn - 8, buf[3], LowByte(coming))
  /\ bitsIn < 8 => \/ buf[3] < 128
                   \/ standing # None /\ buf[3] = LowByte(standing)

(* The arithmetic of a bit, for each of the eight places.                   *)
LEMMA LowerBits ==
  ASSUME NEW value \in 0 .. 255, NEW k \in 0 .. 7, NEW bit, bit = (value \div (2 ^ k)) % 2
  PROVE  bit \in {0, 1} /\ value % (2 ^ (k + 1)) = (value % (2 ^ k)) + (2 ^ k) * bit
<1>0. CASE k = 0
  BY <1>0
<1>1. CASE k = 1
  BY <1>1
<1>2. CASE k = 2
  BY <1>2
<1>3. CASE k = 3
  BY <1>3
<1>4. CASE k = 4
  BY <1>4
<1>5. CASE k = 5
  BY <1>5
<1>6. CASE k = 6
  BY <1>6
<1>7. CASE k = 7
  BY <1>7
<1> QED
  BY <1>0, <1>1, <1>2, <1>3, <1>4, <1>5, <1>6, <1>7

LEMMA UpperBits ==
  ASSUME NEW b \in 0 .. 255, NEW k \in 0 .. 7, NEW bit \in {0, 1}
  PROVE  /\ Shifted(b, bit) \in 0 .. 255
         /\ Shifted(b, bit) \div (2 ^ (8 - (k + 1))) = (b \div (2 ^ (8 - k))) + (2 ^ k) * bit
<1>0. CASE k = 0
  BY <1>0 DEF Shifted
<1>1. CASE k = 1
  BY <1>1 DEF Shifted
<1>2. CASE k = 2
  BY <1>2 DEF Shifted
<1>3. CASE k = 3
  BY <1>3 DEF Shifted
<1>4. CASE k = 4
  BY <1>4 DEF Shifted
<1>5. CASE k = 5
  BY <1>5 DEF Shifted
<1>6. CASE k = 6
  BY <1>6 DEF Shifted
<1>7. CASE k = 7
  BY <1>7 DEF Shifted
<1> QED
  BY <1>0, <1>1, <1>2, <1>3, <1>4, <1>5, <1>6, <1>7

LEMMA OneMoreIn ==
  ASSUME NEW value \in 0 .. 255, NEW b \in 0 .. 255, NEW k \in 0 .. 7, ShiftedIn(k, b, value),
         NEW bit, bit = (value \div (2 ^ k)) % 2
  PROVE  Shifted(b, bit) \in 0 .. 255 /\ ShiftedIn(k + 1, Shifted(b, bit), value)
<1>1. bit \in {0, 1} /\ value % (2 ^ (k + 1)) = (value % (2 ^ k)) + (2 ^ k) * bit
  BY LowerBits
<1>2. /\ Shifted(b, bit) \in 0 .. 255
      /\ Shifted(b, bit) \div (2 ^ (8 - (k + 1))) = (b \div (2 ^ (8 - k))) + (2 ^ k) * bit
  BY <1>1, UpperBits
<1>3. b \div (2 ^ (8 - k)) = value % (2 ^ k)
  BY DEF ShiftedIn
<1>4. Shifted(b, bit) \div (2 ^ (8 - (k + 1))) = value % (2 ^ (k + 1))
  BY <1>1, <1>2, <1>3, Zenon
<1> QED
  BY <1>2, <1>4 DEF ShiftedIn

(* After the eighth bit the byte is there, before the first any byte is.    *)
LEMMA AllIn ==
  ASSUME NEW value \in 0 .. 255, NEW b \in 0 .. 255
  PROVE  ShiftedIn(0, b, value) /\ (ShiftedIn(8, b, value) => b = value)
<1>1. 2 ^ (8 - 0) = 256 /\ 2 ^ 0 = 1 /\ 2 ^ (8 - 8) = 1 /\ 2 ^ 8 = 256
  OBVIOUS
<1>2. b \div 256 = value % 1 /\ b \div 1 = b /\ value % 256 = value
  OBVIOUS
<1> QED
  BY <1>1, <1>2 DEF ShiftedIn

(* A byte cut short has no top bit.                                        *)
LEMMA CutShort ==
  ASSUME NEW b \in 0 .. 255, NEW k \in 0 .. 7
  PROVE  b \div (2 ^ (8 - k)) \in 0 .. 127
<1>0. CASE k = 0
  BY <1>0
<1>1. CASE k = 1
  BY <1>1
<1>2. CASE k = 2
  BY <1>2
<1>3. CASE k = 3
  BY <1>3
<1>4. CASE k = 4
  BY <1>4
<1>5. CASE k = 5
  BY <1>5
<1>6. CASE k = 6
  BY <1>6
<1>7. CASE k = 7
  BY <1>7
<1> QED
  BY <1>0, <1>1, <1>2, <1>3, <1>4, <1>5, <1>6, <1>7

LEMMA CodeBytes ==
  ASSUME NEW c \in Known
  PROVE  /\ HighByte(c) \in 0 .. 127 /\ LowByte(c) = 255 - HighByte(c)
         /\ c = 256 * HighByte(c) + LowByte(c)
<1>1. c \in Nat
  BY CodesAssumption
<1>2. c \div 256 < 128 /\ c % 256 = 255 - c \div 256
  BY PairsAssumption
<1> QED
  BY <1>1, <1>2 DEF HighByte, LowByte

LEMMA SentBytes ==
  ASSUME NEW c \in Codes \cup {None}
  PROVE  HighByte(c) \in 0 .. 255 /\ LowByte(c) \in 0 .. 255
<1>1. CASE c = None
  BY <1>1 DEF None, HighByte, LowByte
<1>2. CASE c \in Codes
  <2>1. c \in Known
    BY <1>2, CodesAssumption
  <2> QED
    BY <2>1, CodeBytes
<1> QED
  BY <1>1, <1>2

(* Two bytes in buf that make a code are those of one frame.                *)
LEMMA OneFrame ==
  ASSUME NEW high \in 0 .. 255, NEW low \in 0 .. 255, Joined(high, low) \in Known,
         NEW c \in Known
  PROVE  /\ low >= 128
         /\ high = HighByte(c) => Joined(high, low) = c
         /\ low = LowByte(c) => Joined(high, low) = c
<1> DEFINE v == Joined(high, low)
<1>1. v = high * 256 + low
  BY DEF Joined
<1>2. HighByte(v) = high /\ LowByte(v) = low
  BY <1>1 DEF HighByte, LowByte
<1>3. /\ HighByte(v) \in 0 .. 127 /\ LowByte(v) = 255 - HighByte(v)
      /\ v = 256 * HighByte(v) + LowByte(v)
  BY CodeBytes
<1>4. /\ HighByte(c) \in 0 .. 127 /\ LowByte(c) = 255 - HighByte(c)
      /\ c = 256 * HighByte(c) + LowByte(c)
  BY CodeBytes
<1>5. /\ high \in 0 .. 127 /\ low = 255 - high
      /\ v = 256 * high + low
  BY <1>2, <1>3
<1>6. low >= 128
  BY <1>5
<1>7. ASSUME high = HighByte(c) PROVE v = c
  BY <1>4, <1>5, <1>7
<1>8. ASSUME low = LowByte(c) PROVE v = c
  <2>1. high = HighByte(c)
    BY <1>4, <1>5, <1>8
  <2> QED
    BY <2>1, <1>7
<1> QED
  BY <1>6, <1>7, <1>8

(***************************************************************************)
(* getIR keeps the types of its variables and what buf holds.              *)
(***************************************************************************)
ReceiverTyped ==
  /\ buf \in [2 .. 3 -> 0 .. 255] /\ done \in BOOLEAN
  /\ bitsIn \in -1 .. 16
  /\ coming \in Codes \cup {None} /\ standing \in Codes \cup {None}

LEMMA NextBitReceives ==
  ReceiverTyped /\ Received /\ NextBit => (ReceiverTyped /\ Received)'
<1> SUFFICES ASSUME ReceiverTyped, Received, NextBit PROVE (ReceiverTyped /\ Received)'
  OBVIOUS
<1> DEFINE j == 2 + (bitsIn \div 8)
           bit == Bit(coming, bitsIn)
           b == Shifted(buf[j], bit)
<1>1. /\ bitsIn \in 0 .. 15 /\ bitsIn' = bitsIn + 1
      /\ buf' = [buf EXCEPT ![j] = b]
      /\ UNCHANGED <<done, coming, standing>>
  BY DEF NextBit
<1>2. buf \in [2 .. 3 -> 0 .. 255] /\ coming \in Codes
  BY <1>1 DEF ReceiverTyped, Received, Idle
<1>3. HighByte(coming) \in 0 .. 255 /\ LowByte(coming) \in 0 .. 255
  BY <1>2, SentBytes
<1>4. CASE bitsIn \in 0 .. 7
  <2>1. j = 2 /\ bitsIn % 8 = bitsIn
    BY <1>4
  <2>2. bit = (HighByte(coming) \div (2 ^ bitsIn)) % 2
    BY <1>4, <2>1 DEF Bit
  <2>3. ShiftedIn(bitsIn, buf[2], HighByte(coming)) /\ buf[2] \in 0 .. 255
    BY <1>2, <1>4 DEF Received
  <2> HIDE DEF bit
  <2>4. b \in 0 .. 255 /\ ShiftedIn(bitsIn + 1, b, HighByte(coming))
    BY <1>3, <1>4, <2>1, <2>2, <2>3, OneMoreIn
  <2> HIDE DEF b
  <2>5. buf' \in [2 .. 3 -> 0 .. 255] /\ buf'[2] = b /\ buf'[3] = buf[3]
    BY <1>1, <1>2, <2>1, <2>4
  <2>6. ReceiverTyped'
    BY <1>1, <2>5 DEF ReceiverTyped
  <2>7. buf[3] < 128 \/ (standing # None /\ buf[3] = LowByte(standing))
    BY <1>4 DEF Received
  <2>8. CASE bitsIn < 7
    <3>1. bitsIn' \in 1 .. 7 /\ ShiftedIn(bitsIn', buf'[2], HighByte(coming))
      BY <1>1, <1>4, <2>4, <2>5, <2>8
    <3> QED
      BY <1>1, <1>2, <2>5, <2>6, <2>7, <3>1 DEF Received
  <2>9. CASE bitsIn = 7
    <3>1. bitsIn' = 8 /\ buf'[2] = HighByte(coming)
      <4>1. ShiftedIn(8, b, HighByte(coming))
        BY <2>4, <2>9
      <4>2. b = HighByte(coming)
        BY <1>3, <2>4, <4>1, AllIn
      <4> QED
        BY <1>1, <2>5, <2>9, <4>2
    <3>2. ShiftedIn(0, buf'[3], LowByte(coming))
      <4>1. buf[3] \in 0 .. 255
        BY <1>2
      <4> QED
        BY <1>3, <2>5, <4>1, AllIn
    <3> QED
      BY <1>1, <1>2, <2>6, <3>1, <3>2 DEF Received
  <2> QED
    BY <1>4, <2>6, <2>8, <2>9
<1>5. CASE bitsIn \in 8 .. 15
  <2>1. j = 3 /\ bitsIn % 8 = bitsIn - 8 /\ bitsIn - 8 \in 0 .. 7
    BY <1>5
  <2>2. bit = (LowByte(coming) \div (2 ^ (bitsIn - 8))) % 2
    BY <1>5, <2>1 DEF Bit
  <2>3. /\ ShiftedIn(bitsIn - 8, buf[3], LowByte(coming)) /\ buf[3] \in 0 .. 255
        /\ buf[2] = HighByte(coming)
    BY <1>2, <1>5 DEF Received
  <2> HIDE DEF bit
  <2>4. b \in 0 .. 255 /\ ShiftedIn((bitsIn - 8) + 1, b, LowByte(coming))
    BY <1>3, <2>1, <2>2, <2>3, OneMoreIn
  <2> HIDE DEF b
  <2>5. buf' \in [2 .. 3 -> 0 .. 255] /\ buf'[3] = b /\ buf'[2] = buf[2]
    BY <1>1, <1>2, <2>1, <2>4
  <2>6. ReceiverTyped'
    BY <1>1, <2>5 DEF ReceiverTyped
  <2>7. bitsIn' - 8 = (bitsIn - 8) + 1 /\ bitsIn' \in 9 .. 16
    BY <1>1, <1>5
  <2> QED
    BY <1>1, <1>2, <2>3, <2>4, <2>5, <2>6, <2>7 DEF Received
<1> QED
  BY <1>1, <1>4, <1>5

LEMMA SignalLostReceives ==
  ReceiverTyped /\ Received /\ SignalLost => (ReceiverTyped /\ Received)'
<1> SUFFICES ASSUME ReceiverTyped, Received, SignalLost PROVE (ReceiverTyped /\ Received)'
  OBVIOUS
<1> DEFINE j == 2 + (bitsIn \div 8)
           b == buf[j] \div (2 ^ (8 - (bitsIn % 8)))
<1>1. /\ bitsIn \in 0 .. 15 /\ bitsIn' = Idle /\ done' = TRUE /\ coming' = None
      /\ buf' = [buf EXCEPT ![j] = b]
      /\ UNCHANGED standing
  BY DEF SignalLost
<1>2. buf \in [2 .. 3 -> 0 .. 255] /\ j \in 2 .. 3 /\ bitsIn % 8 \in 0 .. 7
  BY <1>1 DEF ReceiverTyped
<1>3. b \in 0 .. 127
  BY <1>2, CutShort
<1> HIDE DEF b
<1>4. buf' \in [2 .. 3 -> 0 .. 255]
  BY <1>1, <1>2, <1>3
<1>5. ReceiverTyped'
  BY <1>1, <1>4 DEF ReceiverTyped, Idle
<1>6. buf'[3] < 128 \/ (standing # None /\ buf'[3] = LowByte(standing))
  <2>1. CASE bitsIn \in 0 .. 7
    <3>1. j = 2
      BY <2>1
    <3>2. buf'[3] = buf[3]
      BY <1>1, <1>2, <3>1
    <3> QED
      BY <2>1, <3>2 DEF Received
  <2>2. CASE bitsIn \in 8 .. 15
    <3>1. j = 3
      BY <2>2
    <3>2. buf'[3] = b
      BY <1>1, <1>2, <3>1
    <3> QED
      BY <1>3, <3>2
  <2> QED
    BY <1>1, <2>1, <2>2
<1> QED
  BY <1>1, <1>5, <1>6 DEF Received, Idle

LEMMA FrameReceives ==
  ReceiverTyped /\ Received /\ (FrameBegins \/ FrameEnds \/ Echo)
    => (ReceiverTyped /\ Received)'
<1> SUFFICES ASSUME ReceiverTyped, Received, FrameBegins \/ FrameEnds \/ Echo
             PROVE  (ReceiverTyped /\ Received)'
  OBVIOUS
<1>1. buf \in [2 .. 3 -> 0 .. 255]
  BY DEF ReceiverTyped
<1>2. CASE FrameBegins
  <2>1. /\ bitsIn = -1 /\ bitsIn' = 0 /\ coming' \in Codes
        /\ UNCHANGED <<buf, done, standing>>
    BY <1>2 DEF FrameBegins, Idle
  <2>2. ShiftedIn(0, buf[2], HighByte(coming'))
    <3>1. HighByte(coming') \in 0 .. 255 /\ buf[2] \in 0 .. 255
      BY <1>1, <2>1, SentBytes
    <3> QED
      BY <3>1, AllIn
  <2> QED
    BY <2>1, <2>2 DEF ReceiverTyped, Received
<1>3. CASE FrameEnds
  <2>1. /\ bitsIn = 16 /\ bitsIn' = -1 /\ done' = TRUE
        /\ standing' = coming /\ coming' = None /\ UNCHANGED buf
    BY <1>3 DEF FrameEnds, Idle
  <2>2. coming \in Codes /\ ShiftedIn(8, buf[3], LowByte(coming))
    BY <2>1 DEF Received, Idle
  <2>3. buf[3] = LowByte(coming)
    <3>1. LowByte(coming) \in 0 .. 255 /\ buf[3] \in 0 .. 255
      BY <1>1, <2>2, SentBytes
    <3> QED
      BY <2>2, <3>1, AllIn
  <2>4. coming # None
    BY <2>2, CodesAssumption DEF None
  <2> QED
    BY <2>1, <2>2, <2>3, <2>4 DEF ReceiverTyped, Received, Idle
<1>4. CASE Echo
  BY <1>4 DEF Echo, ReceiverTyped, Received
<1> QED
  BY <1>2, <1>3, <1>4

LEMMA SameReceiver ==
  ReceiverTyped /\ Received /\ UNCHANGED <<buf, bitsIn, coming, standing>> /\ done' \in BOOLEAN
    => (ReceiverTyped /\ Received)'
BY DEF ReceiverTyped, Received

(***************************************************************************)
(* Where the tests of the buttons lead.                                    *)
(***************************************************************************)
(* There is a first button, and after each one another or the end.          *)
LEMMA EarliestIsThere ==
  ASSUME NEW i \in 1 .. 5, Later(i) # {}
  PROVE  Earliest(Later(i)) \in ServoBits
<1> DEFINE J == Later(i)
<1>1. J \subseteq 1 .. 4 /\ \A j \in J : Order[j] \in ServoBits
  BY DEF Later
<1>2. J # {}
  OBVIOUS
<1> HIDE DEF J
<1>3. \E j \in J : \A h \in J : j <= h
  <2>1. CASE 1 \in J
    BY <1>1, <2>1
  <2>2. CASE 1 \notin J /\ 2 \in J
    BY <1>1, <2>2
  <2>3. CASE 1 \notin J /\ 2 \notin J /\ 3 \in J
    BY <1>1, <2>3
  <2>4. CASE 1 \notin J /\ 2 \notin J /\ 3 \notin J
    <3>1. \A h \in J : h = 4
      BY <1>1, <2>4
    <3> QED
      BY <1>2, <3>1
  <2> QED
    BY <2>1, <2>2, <2>3, <2>4
<1>4. (CHOOSE j \in J : \A h \in J : j <= h) \in J
  BY <1>3
<1> QED
  BY <1>1, <1>4 DEF J, Earliest

LEMMA FirstIsPoint == First \in Points
<1>1. PICK b \in ServoBits : b \in Buttons
  BY ServoBitsAssumption
<1>2. PICK j \in 1 .. 4 : Order[j] = b
  BY <1>1 DEF Buttons, Order
<1>3. j \in Later(1)
  BY <1>1, <1>2 DEF Later
<1>4. First \in ServoBits
  BY <1>3, EarliestIsThere DEF First
<1> QED
  BY <1>4, ServoBitsAssumption DEF Points

LEMMA AfterIsPoint ==
  ASSUME NEW b \in ServoBits, NEW end \in Points
  PROVE  After(b, end) \in Points
<1>1. PICK i \in 1 .. 4 : i = CHOOSE h \in 1 .. 4 : Order[h] = b
  <2>1. b \in Buttons
    BY ServoBitsAssumption
  <2>2. \E h \in 1 .. 4 : Order[h] = b
    BY <2>1 DEF Buttons, Order
  <2> QED
    BY <2>2
<1>2. 1 + i \in 1 .. 5
  OBVIOUS
<1>3. After(b, end) = IF Later(1 + i) = {} THEN end ELSE Earliest(Later(1 + i))
  BY <1>1 DEF After
<1>4. CASE Later(1 + i) = {}
  BY <1>3, <1>4
<1>5. CASE Later(1 + i) # {}
  BY <1>2, <1>3, <1>5, EarliestIsThere, ServoBitsAssumption DEF Points
<1> QED
  BY <1>4, <1>5

(***************************************************************************)
(* The type invariant: the receiver's part is above, the angles' is IInv.   *)
(***************************************************************************)
RunnerTyped ==
  /\ taken \in Known \cup {None} /\ pc \in [{"fun2", "main"} -> Points]
  /\ carstate \in [ServoBits -> BOOLEAN] /\ owed \in BOOLEAN

LEMMA TypeParts == TypeOK <=> ReceiverTyped /\ RunnerTyped /\ AnglesAreIntegers
BY DEF TypeOK, ReceiverTyped, RunnerTyped, AnglesAreIntegers

LEMMA GotoTyped ==
  ASSUME NEW t \in {"fun2", "main"}, NEW from, NEW to \in Points,
         pc \in [{"fun2", "main"} -> Points], Goto(t, from, to)
  PROVE  pc' \in [{"fun2", "main"} -> Points]
BY DEF Goto

LEMMA CommandTyped ==
  ASSUME RunnerTyped, NEW IRVal, IR_updateCarState(IRVal)
  PROVE  /\ taken' \in Known \cup {None}
         /\ carstate' \in [ServoBits -> BOOLEAN] /\ owed' \in BOOLEAN
<1>1. taken' \in Known \cup {None}
  BY DEF IR_updateCarState
<1>2. carstate' \in [ServoBits -> BOOLEAN]
  <2>1. ASSUME NEW b \in ServoBits
        PROVE  (carstate[b] \/ ServoCode[b] = IRVal) \in BOOLEAN
    OBVIOUS
  <2>2. carstate' = [b \in ServoBits |-> carstate[b] \/ ServoCode[b] = IRVal]
    BY DEF IR_updateCarState
  <2> QED
    BY <2>1, <2>2, Zenon
<1>3. owed' \in BOOLEAN
  BY DEF IR_updateCarState, RunnerTyped
<1> QED
  BY <1>1, <1>2, <1>3

LEMMA TestTyped ==
  ASSUME RunnerTyped, NEW t \in {"fun2", "main"}, NEW k, NEW b \in ServoBits,
         NEW next \in Points, Test(t, k, b, next), UNCHANGED <<taken, owed>>
  PROVE  RunnerTyped'
<1>1. carstate' \in [ServoBits -> BOOLEAN]
  BY DEF Test, Cleared, servos, RunnerTyped
<1>2. pc' \in [{"fun2", "main"} -> Points]
  BY DEF Test, RunnerTyped
<1> QED
  BY <1>1, <1>2 DEF RunnerTyped

LEMMA RunnerStaysTyped == RunnerTyped /\ [Next]_vars => RunnerTyped'
<1> SUFFICES ASSUME RunnerTyped, [Next]_vars PROVE RunnerTyped'
  OBVIOUS
<1>0. pc \in [{"fun2", "main"} -> Points]
  BY DEF RunnerTyped
<1>1. CASE getIR
  BY <1>1 DEF getIR, FrameBegins, BitComes, FrameEnds, FrameIsLost, Echo, servos, RunnerTyped
<1>2. CASE NoMode \/ EnterMode \/ LeaveMode \/ TestDone \/ Clear \/ CommandDone
  <2>1. {"loop", "mode", "done", "clear", "read"} \subseteq Points
    BY DEF Points
  <2>2. pc' \in [{"fun2", "main"} -> Points]
    BY <1>0, <1>2, <2>1 DEF NoMode, EnterMode, LeaveMode, TestDone, Clear, CommandDone, Goto
  <2>3. /\ taken' \in {taken, None} /\ UNCHANGED <<carstate, owed>>
    BY <1>2 DEF NoMode, EnterMode, LeaveMode, TestDone, Clear, CommandDone, servos
  <2> QED
    BY <2>2, <2>3 DEF RunnerTyped
<1>3. CASE Read \/ ReadMeanwhile
  <2>1. pc' \in [{"fun2", "main"} -> Points]
    BY <1>0, <1>3, FirstIsPoint, GotoTyped DEF Read, ReadMeanwhile
  <2>2. \E IRVal : IR_updateCarState(IRVal)
    BY <1>3 DEF Read, ReadMeanwhile
  <2> QED
    BY <2>1, <2>2, CommandTyped DEF RunnerTyped
<1>4. CASE IR_updateCarMotion
  <2>1. PICK b \in ServoBits : /\ Test("fun2", "IR", b, After(b, "end"))
                               /\ UNCHANGED <<taken, owed>>
    BY <1>4 DEF IR_updateCarMotion
  <2>2. After(b, "end") \in Points
    BY AfterIsPoint DEF Points
  <2> QED
    BY <2>1, <2>2, TestTyped
<1>5. CASE updateCarState
  <2>1. pc' \in [{"fun2", "main"} -> Points]
    BY <1>0, <1>5, FirstIsPoint, GotoTyped DEF updateCarState
  <2> QED
    BY <1>5, <2>1 DEF updateCarState, RunnerTyped
<1>6. CASE updateCarMotion
  <2>1. PICK b \in ServoBits :
          /\ Test("main", "app", b,
                  IF b = "servoUp" /\ carstate[b] THEN "read" ELSE After(b, "read"))
          /\ UNCHANGED <<taken, owed>>
    BY <1>6 DEF updateCarMotion
  <2>2. (IF b = "servoUp" /\ carstate[b] THEN "read" ELSE After(b, "read")) \in Points
    BY AfterIsPoint DEF Points
  <2> QED
    BY <2>1, <2>2, TestTyped
<1>7. CASE PhaseScratchCmd
  BY <1>7 DEF PhaseScratchCmd, RunnerTyped
<1>8. CASE UNCHANGED vars
  BY <1>8 DEF vars, servos, RunnerTyped
<1> QED
  BY <1>1, <1>2, <1>3, <1>4, <1>5, <1>6, <1>7, <1>8 DEF Next, fun2, main

LEMMA ReceiverStaysTyped ==
  ReceiverTyped /\ Received /\ [Next]_vars => (ReceiverTyped /\ Received)'
<1> SUFFICES ASSUME ReceiverTyped, Received, [Next]_vars
             PROVE  (ReceiverTyped /\ Received)'
  OBVIOUS
<1>0. done \in BOOLEAN
  BY DEF ReceiverTyped
<1>1. CASE NextBit
  BY <1>1, NextBitReceives
<1>2. CASE SignalLost
  BY <1>2, SignalLostReceives
<1>3. CASE FrameBegins \/ FrameEnds \/ Echo
  BY <1>3, FrameReceives
<1>4. CASE /\ UNCHANGED <<buf, bitsIn, coming, standing>>
           /\ done' \in BOOLEAN
  BY <1>4, SameReceiver
<1>5. getIR => NextBit \/ SignalLost \/ FrameBegins \/ FrameEnds \/ Echo
  BY DEF getIR, BitComes, FrameIsLost
<1>6. fun2 => \/ NextBit \/ SignalLost
              \/ UNCHANGED <<buf, bitsIn, coming, standing>> /\ done' \in BOOLEAN
  BY <1>0 DEF fun2, NoMode, TestDone, Clear, Read, ReadMeanwhile, IR_updateCarMotion,
              CommandDone, receiver
<1>7. EnterMode \/ LeaveMode \/ main \/ UNCHANGED vars
        => UNCHANGED <<buf, bitsIn, coming, standing>> /\ done' \in BOOLEAN
  BY <1>0 DEF EnterMode, LeaveMode, main, updateCarState, updateCarMotion, PhaseScratchCmd,
              receiver, vars
<1> QED
  BY <1>1, <1>2, <1>3, <1>4, <1>5, <1>6, <1>7 DEF Next

LEMMA InitReceives == Init => ReceiverTyped /\ Received /\ RunnerTyped
<1> SUFFICES ASSUME Init PROVE ReceiverTyped /\ Received /\ RunnerTyped
  OBVIOUS
<1>1. buf = [j \in 2 .. 3 |-> 0] /\ bitsIn = -1 /\ coming = 0 /\ standing = 0 /\ done = FALSE
  BY DEF Init, Idle, None
<1>2. ReceiverTyped
  <2>1. buf \in [2 .. 3 -> 0 .. 255]
    BY <1>1
  <2>2. bitsIn \in -1 .. 16
    BY <1>1
  <2>3. done \in BOOLEAN /\ coming \in Codes \cup {None} /\ standing \in Codes \cup {None}
    BY <1>1 DEF None
  <2> QED
    BY <2>1, <2>2, <2>3, Zenon DEF ReceiverTyped
<1>3. Received
  BY <1>1 DEF Received, Idle, None
<1>4. RunnerTyped
  <2>1. pc \in [{"fun2", "main"} -> Points] /\ carstate \in [ServoBits -> BOOLEAN]
    BY DEF Init, Points
  <2> QED
    BY <2>1 DEF Init, RunnerTyped
<1> QED
  BY <1>2, <1>3, <1>4

RemoteInv == ReceiverTyped /\ Received /\ RunnerTyped

LEMMA RemoteInvariant == Spec => []RemoteInv
<1>1. Init => RemoteInv
  BY InitReceives DEF RemoteInv
<1>2. RemoteInv /\ [Next]_vars => RemoteInv'
  BY RunnerStaysTyped, ReceiverStaysTyped DEF RemoteInv
<1> QED
  BY <1>1, <1>2, PTL DEF Spec

(* buf holds bytes, fun2 runs known commands, the program counters of fun2  *)
(* and main stay at the buttons that are in use.                           *)
THEOREM TypeCorrect == Spec => []TypeOK
<1>1. Spec => []IInv
  BY InitInRange, NextKeepsRange, PTL DEF Spec
<1>2. RemoteInv /\ IInv => TypeOK
  BY TypeParts DEF RemoteInv, IInv
<1> QED
  BY <1>1, <1>2, RemoteInvariant, PTL

(***************************************************************************)
(* No command is made up.                                                  *)
(***************************************************************************)
(* What fun2 joins, whether getIR changes the inverse meanwhile or not.     *)
LEMMA JoinedWasSent ==
  ASSUME RemoteInv, NEW low \in 0 .. 255, bitsIn < 8 => low = buf[3],
         Joined(buf[2], low) \in Known
  PROVE  Joined(buf[2], low) \in {standing, coming}
<1>1. buf[2] \in 0 .. 255 /\ bitsIn \in -1 .. 16
  BY DEF RemoteInv, ReceiverTyped
<1>2. CASE bitsIn < 8
  <2>1. low < 128 \/ (standing # None /\ low = LowByte(standing))
    BY <1>2 DEF RemoteInv, Received
  <2>2. PICK c \in Known : c = Joined(buf[2], low)
    OBVIOUS
  <2>3. low >= 128
    BY <1>1, <2>2, OneFrame
  <2>4. standing \in Known /\ low = LowByte(standing)
    BY <2>1, <2>3, CodesAssumption DEF RemoteInv, ReceiverTyped
  <2> QED
    BY <1>1, <2>4, OneFrame
<1>3. CASE bitsIn \in 8 .. 16
  <2>1. coming \in Known /\ buf[2] = HighByte(coming)
    <3>1. bitsIn # Idle
      BY <1>3 DEF Idle
    <3>2. coming \in Codes /\ buf[2] = HighByte(coming)
      BY <1>3, <3>1 DEF RemoteInv, Received
    <3> QED
      BY <3>2, CodesAssumption
  <2> QED
    BY <1>1, <2>1, OneFrame
<1> QED
  BY <1>1, <1>2, <1>3

LEMMA ReadsSent == RemoteInv /\ (Read \/ ReadMeanwhile)
                     => (taken' \notin {taken, None} => taken' \in {standing, coming})
<1> SUFFICES ASSUME RemoteInv, Read \/ ReadMeanwhile, taken' \notin {taken, None}
             PROVE  taken' \in {standing, coming}
  OBVIOUS
<1>1. CASE Read
  <2>1. taken' = Joined(buf[2], buf[3]) /\ Joined(buf[2], buf[3]) \in Known
    BY <1>1 DEF Read, IR_updateCarState
  <2>2. buf[3] \in 0 .. 255
    BY DEF RemoteInv, ReceiverTyped
  <2> QED
    BY <2>1, <2>2, JoinedWasSent
<1>2. CASE ReadMeanwhile
  <2>1. taken' = Joined(buf[2], buf'[3]) /\ Joined(buf[2], buf'[3]) \in Known
    BY <1>2 DEF ReadMeanwhile, IR_updateCarState
  <2>2. NextBit \/ SignalLost
    BY <1>2 DEF ReadMeanwhile
  <2>3. buf'[3] \in 0 .. 255
    BY <2>2, NextBitReceives, SignalLostReceives DEF RemoteInv, ReceiverTyped
  <2>4. bitsIn < 8 => buf'[3] = buf[3]
    <3> SUFFICES ASSUME bitsIn < 8 PROVE buf'[3] = buf[3]
      OBVIOUS
    <3>1. bitsIn \in 0 .. 7 /\ buf \in [2 .. 3 -> 0 .. 255]
      BY <2>2 DEF NextBit, SignalLost, RemoteInv, ReceiverTyped
    <3>2. 2 + (bitsIn \div 8) = 2
      BY <3>1
    <3>3. \E b : buf' = [buf EXCEPT ![2] = b]
      BY <2>2, <3>2 DEF NextBit, SignalLost
    <3> QED
      BY <3>1, <3>3
  <2> QED
    BY <2>1, <2>3, <2>4, JoinedWasSent
<1> QED
  BY <1>1, <1>2

(* No other step of any thread takes a command.                            *)
LEMMA OnlyReadTakes == [Next]_vars => Read \/ ReadMeanwhile \/ taken' \in {taken, None}
BY DEF Next, vars, getIR, FrameBegins, BitComes, FrameEnds, FrameIsLost, Echo, fun2, NoMode,
       TestDone, Clear, IR_updateCarMotion, CommandDone, EnterMode, LeaveMode, main,
       updateCarState, updateCarMotion, PhaseScratchCmd

(* fun2 runs no command that was not sent, though it may read buf while     *)
(* getIR shifts a frame in or after a signal was lost within one: with any *)
(* codes that are a command without its top bit and the inverse of it.     *)
THEOREM NoCommandMadeUp == Spec => OnlySentCommands
<1>1. RemoteInv /\ [Next]_vars => [taken' \notin {taken, None} => taken' \in {standing, coming}]_vars
  BY ReadsSent, OnlyReadTakes
<1> QED
  BY <1>1, RemoteInvariant, PTL DEF Spec, OnlySentCommands

(* A complete frame fun2 has not run yet is still in buf, and fun2 will     *)
(* look: done is up, or it is about to read, for it clears done before it  *)
(* reads buf.                                                              *)
PressIsKept ==
  owed => /\ bitsIn = Idle /\ Joined(buf[2], buf[3]) = standing
          /\ done \/ pc["fun2"] = "read"

LEMMA CodeJoined ==
  ASSUME NEW c \in Codes
  PROVE  Joined(HighByte(c), LowByte(c)) = c
<1>1. c \in Known
  BY CodesAssumption
<1> QED
  BY <1>1, CodeBytes DEF Joined

LEMMA PressKeptNext == RemoteInv /\ PressIsKept /\ [Next]_vars => PressIsKept'
<1> SUFFICES ASSUME RemoteInv, PressIsKept, [Next]_vars, owed'
             PROVE  /\ bitsIn' = Idle /\ Joined(buf[2], buf[3])' = standing'
                    /\ done' \/ pc'["fun2"] = "read"
  BY DEF PressIsKept
<1>0. owed => bitsIn = Idle
  BY DEF PressIsKept
<1>k. ASSUME owed, UNCHANGED <<buf, bitsIn, standing>>, done' \/ pc'["fun2"] = "read"
      PROVE  /\ bitsIn' = Idle /\ Joined(buf[2], buf[3])' = standing'
             /\ done' \/ pc'["fun2"] = "read"
  BY <1>k DEF PressIsKept, Joined
<1>1. CASE FrameEnds
  <2>1. /\ bitsIn = 16 /\ bitsIn' = Idle /\ done' = TRUE /\ standing' = coming /\ buf' = buf
    BY <1>1 DEF FrameEnds
  <2>2. /\ coming \in Codes /\ buf[2] = HighByte(coming)
        /\ ShiftedIn(8, buf[3], LowByte(coming)) /\ buf[3] \in 0 .. 255
    BY <2>1 DEF RemoteInv, ReceiverTyped, Received, Idle
  <2>3. buf[3] = LowByte(coming)
    BY <2>2, SentBytes, AllIn
  <2>4. Joined(buf[2], buf[3]) = coming
    BY <2>2, <2>3, CodeJoined
  <2> QED
    BY <2>1, <2>4 DEF Joined
<1>2. CASE Echo
  <2>1. owed /\ UNCHANGED <<buf, bitsIn, standing>> /\ done'
    BY <1>2 DEF Echo
  <2> QED
    BY <1>k, <2>1
<1>3. CASE FrameBegins
  BY <1>3 DEF FrameBegins
<1>4. CASE BitComes \/ FrameIsLost \/ ReadMeanwhile
  <2>1. owed /\ bitsIn \in 0 .. 15
    BY <1>4 DEF BitComes, FrameIsLost, ReadMeanwhile, NextBit, SignalLost, IR_updateCarState
  <2> QED
    BY <1>0, <2>1 DEF Idle
<1>5. CASE Read
  <2>1. owed /\ Joined(buf[2], buf[3]) # standing
    BY <1>5 DEF Read, IR_updateCarState
  <2> QED
    BY <2>1 DEF PressIsKept
<1>6. CASE Clear
  <2>1. owed /\ UNCHANGED <<buf, bitsIn, standing>> /\ pc'["fun2"] = "read"
    BY <1>6 DEF Clear, Goto, RemoteInv, RunnerTyped
  <2> QED
    BY <1>k, <2>1
<1>7. CASE \/ NoMode \/ TestDone \/ CommandDone \/ EnterMode \/ LeaveMode \/ UNCHANGED vars
           \/ main \/ IR_updateCarMotion
  <2>1. owed /\ UNCHANGED <<buf, bitsIn, standing, done>>
    BY <1>7 DEF NoMode, TestDone, CommandDone, EnterMode, LeaveMode, vars, receiver, main,
                updateCarState, updateCarMotion, PhaseScratchCmd, IR_updateCarMotion
  <2>2. pc["fun2"] = "read" => pc'["fun2"] = "read"
    <3>1. CASE NoMode \/ TestDone \/ CommandDone \/ EnterMode \/ LeaveMode \/ UNCHANGED vars
      BY <3>1 DEF NoMode, TestDone, CommandDone, EnterMode, LeaveMode, vars, Goto
    <3>2. CASE main
      BY <3>2 DEF main, updateCarState, updateCarMotion, PhaseScratchCmd, Goto, Test,
                  RemoteInv, RunnerTyped
    <3>3. CASE IR_updateCarMotion
      <4>1. PICK b \in ServoBits : pc["fun2"] = b
        BY <3>3 DEF IR_updateCarMotion, Test
      <4> QED
        BY <4>1, ServoBitsAssumption DEF Buttons
    <3> QED
      BY <1>7, <3>1, <3>2, <3>3
  <2> QED
    BY <1>k, <2>1, <2>2 DEF PressIsKept
<1> QED
  BY <1>1, <1>2, <1>3, <1>4, <1>5, <1>6, <1>7 DEF Next, getIR, fun2

(* No complete command gets lost, whatever getIR reports in between and    *)
(* whatever main does: the safety part of LastPressIsRun.                  *)
THEOREM NoPressLost == Spec => []PressIsKept
<1>1. Init => PressIsKept
  BY DEF Init, PressIsKept
<1> QED
  BY <1>1, PressKeptNext, RemoteInvariant, PTL DEF Spec
=============================================================================
