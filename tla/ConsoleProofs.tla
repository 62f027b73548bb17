--------------------------- MODULE ConsoleProofs ---------------------------
(***************************************************************************)
(* For any number of frames and keys and any window: both directions keep  *)
(* their order and lose nothing, and the terminal is restored.             *)
(***************************************************************************)
EXTENDS Console, SequenceTheorems, WellFoundedInduction, TLAPS

USE BoundsAssumption DEF BoundsAssumption

(***************************************************************************)
(* The terminal is raw only between Attach and Restore, or where the       *)
(* process was killed between them.                                        *)
(***************************************************************************)
TtyInv == tty # "cooked" => main \in {"auth", "bridge", "close", "restore", "killed"}

\* When the command ends by itself, after a refused handshake, a Ctrl-], a
\* hang-up or an error of either goroutine, the terminal is as it was.
THEOREM TerminalIsRestoredHolds == Spec => []TerminalIsRestored
<1>1. Init => TtyInv
  BY DEF Init, TtyInv
<1>2. TtyInv /\ [Next]_vars => TtyInv'
  <2> SUFFICES ASSUME TtyInv, [Next]_vars
               PROVE  TtyInv'
    OBVIOUS
  <2> USE DEF TtyInv
  <2>1. CASE Main
    BY <2>1 DEF Main, Attach, AttachFails, Handshake, Bridge, Close, Restore, Exit
  <2>2. CASE Reader
    BY <2>2 DEF Reader, ReadFrame, ReadFails, WriteFrame, WriteFails
  <2>3. CASE Writer \/ ReadEOF
    BY <2>3 DEF Writer, ReadKeys, SendKeys, SendFails, ReadEOF
  <2>4. CASE Type \/ Greet \/ SendFrame \/ ReadMessages \/ HangUp \/ Kill
    BY <2>4 DEF Type, Greet, SendFrame, ReadMessages, HangUp, Kill
  <2>5. CASE UNCHANGED vars
    BY <2>5 DEF vars
  <2> QED
    BY <2>1, <2>2, <2>3, <2>4, <2>5 DEF Next
<1>3. TtyInv => TerminalIsRestored
  BY DEF TtyInv, TerminalIsRestored
<1> QED
  BY <1>1, <1>2, <1>3, PTL DEF Spec

----------------------------------------------------------------------------
(***************************************************************************)
(* Output. As long as the reader goes on, what is printed, held and on its *)
(* way is all the server sent.                                             *)
(***************************************************************************)
\* Frames taken from the connection.
Taken == Len(printed) + (IF reader = "write" THEN 1 ELSE 0)

OutInv ==
    /\ frames \in Nat /\ printed \in Seq(Nat) /\ incoming \in Seq(Nat)
    /\ \A i \in 1..Len(printed) : printed[i] = i
    /\ reader = "write" => held = <<Len(printed) + 1>>
    /\ main \in {"dial", "auth", "ended", "killed"} => reader = "off"
    /\ main \notin {"ended", "killed"} /\ reader # "stopped" =>
          /\ Taken + Len(incoming) = frames
          /\ \A i \in 1..Len(incoming) : incoming[i] = Taken + i

LEMMA OutKeeps ==
    ASSUME OutInv, UNCHANGED <<reader, held, printed, frames, incoming>>,
           \/ main' = main
           \/ main' \notin {"dial", "auth", "ended", "killed"} /\ main \notin {"ended", "killed"}
    PROVE  OutInv'
BY DEF OutInv, Taken

LEMMA OutInvariant == Spec => []OutInv
<1>1. Init => OutInv
  BY DEF Init, OutInv, Taken
<1>2. OutInv /\ [Next]_vars => OutInv'
  <2> SUFFICES ASSUME OutInv, [Next]_vars
               PROVE  OutInv'
    OBVIOUS
  <2>1. CASE Attach \/ AttachFails
    <3>1. /\ main = "dial" /\ main' \in {"auth", "exit"}
          /\ UNCHANGED <<reader, held, printed, frames, incoming>>
      BY <2>1 DEF Attach, AttachFails, output, serverSide
    <3> QED
      BY <3>1 DEF OutInv, Taken
  <2>2. CASE Handshake
    <3>1. /\ main = "auth" /\ main' \in {"bridge", "close"} /\ reader' \in {"read", reader}
          /\ UNCHANGED <<held, printed, frames, incoming>>
      BY <2>2 DEF Handshake, serverSide
    <3> QED
      BY <3>1 DEF OutInv, Taken
  <2>3. CASE Bridge \/ Close \/ Restore
    BY <2>3, OutKeeps DEF Bridge, Close, Restore, output, serverSide
  <2>4. CASE Exit
    BY <2>4 DEF Exit, serverSide, OutInv, Taken
  <2>12. CASE Kill
    BY <2>12 DEF Kill, OutInv, Taken
  <2>5. CASE ReadFrame
    <3>1. /\ reader = "read" /\ reader' = "write" /\ incoming # <<>>
          /\ held' = <<Head(incoming)>> /\ incoming' = Tail(incoming)
          /\ UNCHANGED <<main, printed, frames>>
      BY <2>5 DEF ReadFrame
    <3>2. main \notin {"ended", "killed"} /\ Taken = Len(printed) /\ Taken' = Len(printed) + 1
      BY <3>1 DEF OutInv, Taken
    <3>3. /\ incoming' \in Seq(Nat) /\ Len(incoming') = Len(incoming) - 1
          /\ \A i \in 1..Len(incoming') : incoming'[i] = incoming[i + 1]
          /\ Head(incoming) = incoming[1] /\ Len(incoming) \in Nat \ {0}
      <4>1. incoming \in Seq(Nat)
        BY DEF OutInv
      <4>2. /\ Head(incoming) = incoming[1] /\ Tail(incoming) \in Seq(Nat)
            /\ Len(Tail(incoming)) = Len(incoming) - 1
            /\ \A i \in 1..Len(Tail(incoming)) : Tail(incoming)[i] = incoming[i + 1]
        BY <3>1, <4>1, HeadTailProperties
      <4>3. Len(incoming) \in Nat \ {0}
        BY <3>1, <4>1, EmptySeq
      <4> QED
        BY <3>1, <4>2, <4>3
    <3>4. Len(printed) \in Nat
      BY DEF OutInv
    <3>5. held' = <<Len(printed) + 1>>
      BY <3>1, <3>2, <3>3, <3>4 DEF OutInv
    <3>6. /\ Taken' + Len(incoming') = frames
          /\ \A i \in 1..Len(incoming') : incoming'[i] = Taken' + i
      <4>1. /\ Taken + Len(incoming) = frames /\ frames \in Nat
            /\ \A i \in 1..Len(incoming) : incoming[i] = Taken + i
        BY <3>1, <3>2 DEF OutInv
      <4>2. ASSUME NEW i \in 1..Len(incoming') PROVE incoming'[i] = Taken' + i
        <5>1. i + 1 \in 1..Len(incoming) /\ incoming'[i] = incoming[i + 1]
          BY <3>3
        <5> QED
          BY <3>2, <3>4, <4>1, <5>1
      <4>3. Taken' + Len(incoming') = frames
        <5> DEFINE p == Len(printed)
                   n == Len(incoming)
        <5>1. p \in Nat /\ n \in Nat /\ frames = p + n
          BY <3>2, <3>3, <3>4, <4>1
        <5>2. Taken' = p + 1 /\ Len(incoming') = n - 1
          BY <3>2, <3>3
        <5> HIDE DEF p, n
        <5> QED
          BY <5>1, <5>2
      <4> QED
        BY <4>2, <4>3
    <3> QED
      BY <3>1, <3>3, <3>5, <3>6 DEF OutInv
  <2>6. CASE ReadFails
    BY <2>6 DEF ReadFails, serverSide, OutInv, Taken
  <2>13. CASE WriteFails
    BY <2>13 DEF WriteFails, serverSide, OutInv, Taken
  <2>7. CASE WriteFrame
    <3>1. /\ reader = "write" /\ reader' = "read" /\ printed' = printed \o held
          /\ UNCHANGED <<main, frames, incoming>>
      BY <2>7 DEF WriteFrame, serverSide
    <3>2. held = <<Len(printed) + 1>> /\ main \notin {"ended", "killed"} /\ Len(printed) \in Nat
      BY <3>1 DEF OutInv
    <3>3. /\ printed' \in Seq(Nat) /\ Len(printed') = Len(printed) + 1
          /\ \A i \in 1..Len(printed') :
                printed'[i] = IF i <= Len(printed) THEN printed[i] ELSE Len(printed) + 1
      <4>1. printed \in Seq(Nat) /\ held \in Seq(Nat)
            /\ Len(held) = 1 /\ held[1] = Len(printed) + 1
        BY <3>2 DEF OutInv
      <4>2. /\ printed \o held \in Seq(Nat)
            /\ Len(printed \o held) = Len(printed) + Len(held)
            /\ \A i \in 1..Len(printed) + Len(held) : (printed \o held)[i] =
                  IF i <= Len(printed) THEN printed[i] ELSE held[i - Len(printed)]
        BY <4>1, ConcatProperties, Zenon
      <4>3. ASSUME NEW i \in 1..Len(printed) + 1
            PROVE  printed'[i] = IF i <= Len(printed) THEN printed[i] ELSE Len(printed) + 1
        <5>1. CASE i <= Len(printed)
          BY <3>1, <4>2, <5>1
        <5>2. CASE ~(i <= Len(printed))
          <6>1. i - Len(printed) = 1
            BY <3>2, <5>2
          <6> QED
            BY <3>1, <4>1, <4>2, <5>2, <6>1
        <5> QED
          BY <5>1, <5>2
      <4>4. printed' \in Seq(Nat) /\ Len(printed') = Len(printed) + 1
        BY <3>1, <4>1, <4>2
      <4> QED
        BY <4>3, <4>4
    <3>4. Taken' = Taken
      BY <3>1, <3>2, <3>3 DEF Taken
    <3>5. \A i \in 1..Len(printed') : printed'[i] = i
      <4>1. \A i \in 1..Len(printed) : printed[i] = i
        BY Zenon DEF OutInv
      <4> QED
        BY <3>2, <3>3, <4>1
    <3> QED
      BY <3>1, <3>2, <3>3, <3>4, <3>5 DEF OutInv
  <2>8. CASE Writer \/ ReadEOF
    BY <2>8, OutKeeps
       DEF Writer, ReadKeys, SendKeys, SendFails, ReadEOF, output, serverSide
  <2>9. CASE Type \/ Greet \/ ReadMessages \/ HangUp
    BY <2>9, OutKeeps DEF Type, Greet, ReadMessages, HangUp, output, serverSide
  <2>10. CASE SendFrame
    <3>1. /\ frames' = frames + 1 /\ incoming' = Append(incoming, frames + 1)
          /\ UNCHANGED <<main, reader, held, printed>>
      BY <2>10 DEF SendFrame, output
    <3>2. /\ incoming' \in Seq(Nat) /\ Len(incoming') = Len(incoming) + 1
          /\ \A i \in 1..Len(incoming') :
                incoming'[i] = IF i <= Len(incoming) THEN incoming[i] ELSE frames + 1
      <4>1. incoming \in Seq(Nat) /\ frames + 1 \in Nat /\ Len(incoming) \in Nat
        BY DEF OutInv
      <4>2. /\ Append(incoming, frames + 1) \in Seq(Nat)
            /\ Len(Append(incoming, frames + 1)) = Len(incoming) + 1
            /\ \A i \in 1..Len(incoming) : Append(incoming, frames + 1)[i] = incoming[i]
            /\ Append(incoming, frames + 1)[Len(incoming) + 1] = frames + 1
        BY <4>1, AppendProperties
      <4> QED
        BY <3>1, <4>1, <4>2
    <3>3. Taken' = Taken /\ Taken \in Nat /\ Len(incoming) \in Nat /\ frames \in Nat
      BY <3>1 DEF Taken, OutInv
    <3>4. main \notin {"ended", "killed"} /\ reader # "stopped" =>
             /\ Taken + Len(incoming') = frames'
             /\ \A i \in 1..Len(incoming') : incoming'[i] = Taken + i
      <4>1. SUFFICES ASSUME main \notin {"ended", "killed"}, reader # "stopped"
                     PROVE  /\ Taken + Len(incoming') = frames'
                            /\ \A i \in 1..Len(incoming') : incoming'[i] = Taken + i
        OBVIOUS
      <4>2. /\ Taken + Len(incoming) = frames
            /\ \A i \in 1..Len(incoming) : incoming[i] = Taken + i
        BY <4>1, Zenon DEF OutInv
      <4> QED
        BY <3>1, <3>2, <3>3, <4>2
    <3> QED
      BY <3>1, <3>2, <3>3, <3>4 DEF OutInv
  <2>11. CASE UNCHANGED vars
    BY <2>11, OutKeeps DEF vars, output, serverSide
  <2> QED
    BY <2>1, <2>2, <2>3, <2>4, <2>5, <2>6, <2>7, <2>8, <2>9, <2>10, <2>11, <2>12,
     <2>13 DEF Next, Main, Reader
<1> QED
  BY <1>1, <1>2, PTL DEF Spec

----------------------------------------------------------------------------
(***************************************************************************)
(* Input. The server got the beginning of what was typed; all of what the  *)
(* writer has read, unless it is sending, or could not.                    *)
(***************************************************************************)
InInv ==
    /\ typed \in Seq(Nat) /\ sent \in Seq(Nat) /\ consumed \in 0..Len(typed)
    /\ Len(sent) <= consumed
    /\ \A i \in 1..Len(sent) : sent[i] = typed[i]
    /\ \A i \in 1..consumed : typed[i] # consoleQuit
    /\ writer = "read" => Len(sent) = consumed
    /\ writer = "stopped" /\ conn = "open" => Len(sent) = consumed
    /\ main \in {"dial", "auth"} => consumed = 0 /\ writer = "off"

\* The keys before the first Ctrl-] of a chunk.
LEMMA PlainIs ==
    ASSUME typed \in Seq(Nat), consumed \in Nat, NEW n \in consumed + 1..Len(typed)
    PROVE  /\ Plain(n) \in consumed..n
           /\ \A i \in consumed + 1..Plain(n) : typed[i] # consoleQuit
<1> DEFINE quits == {i \in consumed + 1..n : typed[i] = consoleQuit}
           Least(i) == \A j \in quits : i <= j
<1>1. CASE quits = {}
  BY <1>1 DEF Plain
<1>2. CASE quits # {}
  <2>1. \E i \in quits : Least(i)
    <3>1. quits \subseteq Nat
      OBVIOUS
    <3>2. PICK i \in quits : \A j \in quits : <<j, i>> \notin OpToRel(<, Nat)
      BY <1>2, <3>1, NatLessThanWellFounded, WFMin
    <3>3. \A j \in quits : ~(j < i)
      BY <3>1, <3>2 DEF OpToRel
    <3> QED
      BY <3>1, <3>3
  <2> DEFINE first == CHOOSE i \in quits : Least(i)
  <2>2. first \in quits /\ Least(first)
    BY <2>1
  <2>3. Plain(n) = first - 1
    BY <1>2 DEF Plain
  <2> HIDE DEF first
  <2> QED
    BY <2>2, <2>3
<1> QED
  BY <1>1, <1>2

LEMMA InKeeps ==
    ASSUME InInv, UNCHANGED <<typed, writer, consumed, sent>>,
           conn' = "open" => conn = "open",
           main' \in {"dial", "auth"} => main \in {"dial", "auth"}
    PROVE  InInv'
BY DEF InInv

LEMMA TypeKeeps ==
    ASSUME InInv, Type
    PROVE  InInv'
<1>1. PICK key \in {Len(typed) + 1, consoleQuit} : typed' = Append(typed, key)
  BY DEF Type
<1>2. typed \in Seq(Nat) /\ Len(typed) \in Nat /\ key \in Nat
  BY DEF InInv, consoleQuit
<1>3. /\ typed' \in Seq(Nat) /\ Len(typed') = Len(typed) + 1
      /\ \A i \in 1..Len(typed) : typed'[i] = typed[i]
  BY <1>1, <1>2, AppendProperties
<1>4. UNCHANGED <<main, conn, writer, consumed, sent>>
  BY DEF Type, serverSide, input
<1>5. consumed \in 0..Len(typed) /\ sent \in Seq(Nat) /\ Len(sent) <= consumed
  BY DEF InInv
<1>6. Len(sent) \in Nat /\ \A i \in 1..consumed : i \in 1..Len(typed)
  BY <1>2, <1>5
<1>7. \A i \in 1..Len(sent) : i \in 1..Len(typed)
  BY <1>2, <1>5, <1>6
<1>8. /\ \A i \in 1..Len(sent) : sent'[i] = typed'[i]
      /\ \A i \in 1..consumed : typed'[i] # consoleQuit
  BY <1>3, <1>4, <1>6, <1>7 DEF InInv
<1> QED
  BY <1>2, <1>3, <1>4, <1>5, <1>8 DEF InInv

LEMMA ReadKeysKeeps ==
    ASSUME InInv, NEW n \in consumed + 1..Len(typed), ReadKeys(n)
    PROVE  InInv'
<1>1. /\ typed \in Seq(Nat) /\ consumed \in Nat /\ n \in Nat /\ Len(typed) \in Nat
      /\ n <= Len(typed) /\ sent \in Seq(Nat) /\ Len(sent) = consumed
  <2>1. /\ typed \in Seq(Nat) /\ sent \in Seq(Nat) /\ consumed \in 0..Len(typed)
        /\ writer = "read" /\ Len(sent) = consumed
    BY DEF InInv, ReadKeys
  <2> QED
    BY <2>1
<1>2. /\ Plain(n) \in consumed..n
      /\ \A i \in consumed + 1..Plain(n) : typed[i] # consoleQuit
  BY <1>1, PlainIs
<1> DEFINE k == Plain(n)
<1>3. k \in Nat /\ consumed <= k /\ k <= n /\ k <= Len(typed)
  BY <1>1, <1>2
<1>4. consumed' = k
  BY DEF ReadKeys
<1> HIDE DEF k
<1>5. /\ UNCHANGED <<main, typed, sent, conn>>
      /\ writer' \in {"send", "stopped", "sendlast"}
      /\ writer' = "stopped" => consumed' = consumed
      /\ writer = "read"
  BY DEF ReadKeys, serverSide
<1>6. \A i \in 1..consumed' : typed[i] # consoleQuit
  <2>1. ASSUME NEW i \in 1..consumed' PROVE i \in 1..consumed \/ i \in consumed + 1..Plain(n)
    <3>1. i \in Nat /\ i >= 1 /\ i <= k
      BY <1>3, <1>4
    <3> QED
      BY <1>1, <1>3, <3>1 DEF k
  <2>2. \A i \in 1..consumed : typed[i] # consoleQuit
    BY Zenon DEF InInv
  <2> QED
    BY <1>2, <2>1, <2>2
<1>7. consumed' \in 0..Len(typed) /\ Len(sent) <= consumed'
  BY <1>1, <1>3, <1>4
<1>8. main \notin {"dial", "auth"} /\ \A i \in 1..Len(sent) : sent[i] = typed[i]
  BY <1>5 DEF InInv
<1> QED
  BY <1>1, <1>5, <1>6, <1>7, <1>8 DEF InInv

LEMMA SendKeysKeeps ==
    ASSUME InInv, SendKeys
    PROVE  InInv'
<1> DEFINE s == SubSeq(typed, Len(sent) + 1, consumed)
<1>1. /\ typed \in Seq(Nat) /\ sent \in Seq(Nat) /\ Len(sent) \in Nat /\ consumed \in Nat
      /\ Len(typed) \in Nat /\ consumed <= Len(typed) /\ Len(sent) <= consumed
  BY DEF InInv
<1>2. \A i \in Len(sent) + 1..consumed : typed[i] \in Nat
  BY <1>1
<1>3. /\ s \in Seq(Nat) /\ Len(s) = consumed - Len(sent)
      /\ \A i \in 1..consumed - Len(sent) : s[i] = typed[Len(sent) + i]
  <2>1. /\ s \in Seq(Nat)
        /\ Len(s) = IF Len(sent) + 1 <= consumed THEN consumed - (Len(sent) + 1) + 1 ELSE 0
        /\ \A i \in 1..consumed - (Len(sent) + 1) + 1 : s[i] = typed[Len(sent) + 1 + i - 1]
    BY <1>1, <1>2, SubSeqProperties
  <2> HIDE DEF s
  <2>2. ASSUME NEW i \in 1..consumed - Len(sent) PROVE s[i] = typed[Len(sent) + i]
    <3>1. /\ i \in 1..consumed - (Len(sent) + 1) + 1
          /\ Len(sent) + 1 + i - 1 = Len(sent) + i
      BY <1>1
    <3> QED
      BY <2>1, <3>1
  <2>3. Len(s) = consumed - Len(sent)
    BY <1>1, <2>1
  <2> QED
    BY <2>1, <2>2, <2>3
<1>4. /\ sent' = sent \o s /\ UNCHANGED <<main, typed, consumed, conn>>
      /\ writer' \in {"read", "stopped"}
  BY DEF SendKeys
<1> HIDE DEF s
<1>5. /\ sent' \in Seq(Nat) /\ Len(sent') = consumed
      /\ \A i \in 1..consumed : sent'[i] =
            IF i <= Len(sent) THEN sent[i] ELSE s[i - Len(sent)]
  <2>1. /\ sent \o s \in Seq(Nat) /\ Len(sent \o s) = Len(sent) + Len(s)
        /\ \A i \in 1..Len(sent) + Len(s) : (sent \o s)[i] =
              IF i <= Len(sent) THEN sent[i] ELSE s[i - Len(sent)]
    BY <1>1, <1>3, ConcatProperties
  <2>2. Len(sent) + Len(s) = consumed
    BY <1>1, <1>3
  <2> QED
    BY <1>4, <2>1, <2>2
<1>6. ASSUME NEW i \in 1..Len(sent') PROVE sent'[i] = typed[i]
  <2>1. CASE i <= Len(sent)
    <3>1. i \in 1..Len(sent)
      BY <1>1, <1>5, <2>1
    <3>2. sent[i] = typed[i]
      BY <3>1, Zenon DEF InInv
    <3> QED
      BY <1>5, <2>1, <3>2
  <2>2. CASE ~(i <= Len(sent))
    <3>1. i - Len(sent) \in 1..consumed - Len(sent) /\ Len(sent) + (i - Len(sent)) = i
      BY <1>1, <1>5, <2>2
    <3> QED
      BY <1>3, <1>5, <2>2, <3>1
  <2> QED
    BY <2>1, <2>2
<1>7. main \notin {"dial", "auth"} /\ \A i \in 1..consumed : typed[i] # consoleQuit
  BY DEF SendKeys, InInv
<1>8. consumed \in 0..Len(typed) /\ consumed <= consumed
  BY <1>1
<1> QED
  BY <1>1, <1>4, <1>5, <1>6, <1>7, <1>8 DEF InInv

LEMMA InInvariant == Spec => []InInv
<1>1. Init => InInv
  BY DEF Init, InInv
<1>2. InInv /\ [Next]_vars => InInv'
  <2> SUFFICES ASSUME InInv, [Next]_vars
               PROVE  InInv'
    OBVIOUS
  <2>1. CASE Main
    <3>1. CASE Handshake
      <4>1. /\ main = "auth" /\ main' \notin {"dial", "auth"} /\ writer' \in {"read", "off"}
            /\ UNCHANGED <<typed, consumed, sent, conn>>
        <5>1. writer = "off"
          BY <3>1 DEF Handshake, InInv
        <5> QED
          BY <3>1, <5>1 DEF Handshake, serverSide
      <4>2. Len(sent) \in Nat /\ Len(sent) <= 0 /\ consumed = 0
        BY <4>1 DEF InInv
      <4> QED
        BY <4>1, <4>2 DEF InInv
    <3>2. CASE Exit
      BY <3>2 DEF Exit, serverSide, InInv
    <3>3. CASE Attach \/ AttachFails \/ Bridge \/ Close \/ Restore
      BY <3>3, InKeeps DEF Attach, AttachFails, Bridge, Close, Restore, input, serverSide
    <3> QED
      BY <2>1, <3>1, <3>2, <3>3 DEF Main
  <2>2. CASE Reader
    BY <2>2, InKeeps DEF Reader, ReadFrame, ReadFails, WriteFrame, WriteFails, input, serverSide
  <2>3. CASE \E n \in consumed + 1..Len(typed) : ReadKeys(n)
    BY <2>3, ReadKeysKeeps
  <2>4. CASE SendKeys
    BY <2>4, SendKeysKeeps
  <2>5. CASE SendFails
    BY <2>5 DEF SendFails, serverSide, InInv
  <2>6. CASE ReadEOF
    BY <2>6 DEF ReadEOF, serverSide, InInv
  <2>7. CASE Type
    BY <2>7, TypeKeeps
  <2>8. CASE Greet \/ SendFrame \/ ReadMessages \/ HangUp
    BY <2>8, InKeeps DEF Greet, SendFrame, ReadMessages, HangUp, input
  <2>9. CASE Kill
    BY <2>9 DEF Kill, InInv
  <2>10. CASE UNCHANGED vars
    BY <2>10, InKeeps DEF vars, input, serverSide
  <2> QED
    BY <2>1, <2>2, <2>3, <2>4, <2>5, <2>6, <2>7, <2>8, <2>9, <2>10 DEF Next, Writer
<1> QED
  BY <1>1, <1>2, PTL DEF Spec

\* Both directions keep their order and lose nothing, whichever goroutine is
\* ahead and whoever ends the bridge.
THEOREM StreamsInOrderHolds == Spec => []StreamsInOrder
<1>1. OutInv => FramesInOrder
  BY DEF OutInv, FramesInOrder
<1>2. InInv => KeysInOrder
  <2> SUFFICES ASSUME InInv
               PROVE  KeysInOrder
    OBVIOUS
  <2>1. /\ typed \in Seq(Nat) /\ sent \in Seq(Nat) /\ Len(sent) \in Nat
        /\ Len(sent) <= Len(typed) /\ Len(sent) <= consumed /\ consumed \in Nat
        /\ \A i \in 1..Len(sent) : sent[i] = typed[i]
    BY DEF InInv
  <2>2. IsPrefix(sent, typed)
    <3> DEFINE s == SubSeq(sent, 1, Len(sent))
               t == SubSeq(typed, 1, Len(sent))
    <3>1. /\ s \in Seq(Nat) /\ t \in Seq(Nat) /\ Len(s) = Len(sent) /\ Len(t) = Len(sent)
          /\ \A i \in 1..Len(sent) : s[i] = sent[i] /\ t[i] = typed[i]
      BY <2>1
    <3> HIDE DEF s, t
    <3>2. s = t
      BY <2>1, <3>1, SeqEqual
    <3> QED
      BY <2>1, <3>2 DEF IsPrefix, s, t
  <2>3. \A i \in DOMAIN sent : sent[i] # consoleQuit
    <3>1. ASSUME NEW i \in DOMAIN sent PROVE i \in 1..Len(sent) /\ i \in 1..consumed
      BY <2>1
    <3> QED
      BY <2>1, <3>1 DEF InInv
  <2>4. writer = "stopped" /\ conn = "open" => Len(sent) = consumed
    BY DEF InInv
  <2> QED
    BY <2>2, <2>3, <2>4 DEF KeysInOrder
<1> QED
  BY <1>1, <1>2, OutInvariant, InInvariant, PTL DEF StreamsInOrder

----------------------------------------------------------------------------
(***************************************************************************)
(* The channel: each goroutine reports once, when it stops, and there are  *)
(* two of them and room for two results, so that neither waits for ever    *)
(* after the bridge has ended.                                             *)
(***************************************************************************)
Results == {"error", "nil", "EOF"}

\* Goroutines that have not reported yet.
ToReport ==
    (IF reader \in {"read", "write"} THEN 1 ELSE 0)
    + (IF writer \in {"read", "send", "sendlast"} THEN 1 ELSE 0)

ChanInv ==
    /\ main \in {"dial", "auth", "bridge", "close", "restore", "exit", "ended", "killed"}
    /\ reader \in {"off", "read", "write", "stopped"}
    /\ writer \in {"off", "read", "send", "sendlast", "stopped"}
    /\ tty \in {"cooked", "raw"}
    /\ conn \in {"open", "hungup", "closed"}
    /\ greeting \in {"none", "OK", "rejected"}
    /\ frames \in 0..MaxFrames
    /\ unread \in 0..Window
    /\ done \in Seq(Results)
    /\ main \in {"dial", "auth"} => Len(done) = 0 /\ reader = "off" /\ writer = "off"
    /\ Len(done) + ToReport <= 2

\* A goroutine stops with its result.
LEMMA ReportFits ==
    ASSUME ChanInv, NEW result \in Results, Report(result), ToReport' = ToReport - 1
    PROVE  /\ done' \in Seq(Results)
           /\ Len(done') + ToReport' <= 2
<1>1. done \in Seq(Results) /\ Len(done) \in Nat /\ Len(done) + ToReport <= 2
  BY DEF ChanInv
<1>2. done' \in Seq(Results) /\ Len(done') = Len(done) + 1
  BY <1>1, AppendProperties DEF Report
<1>3. ToReport \in Int
  BY DEF ToReport
<1> QED
  BY <1>1, <1>2, <1>3

LEMMA ChanKeeps ==
    ASSUME ChanInv, [Next]_vars
    PROVE  ChanInv'
<1> USE DEF ChanInv
<1>1. CASE Attach \/ AttachFails \/ Close \/ Restore
  BY <1>1 DEF Attach, AttachFails, Close, Restore, serverSide, output, input, ToReport
<1>2. CASE Handshake
  <2>1. /\ main = "auth" /\ Len(done) = 0 /\ done' = done
        /\ main' \in {"bridge", "close"}
        /\ reader' \in {"off", "read"} /\ writer' \in {"off", "read"}
        /\ UNCHANGED <<tty, serverSide>>
    BY <1>2 DEF Handshake
  <2>2. ToReport' \in 0..2
    BY <2>1 DEF ToReport
  <2>3. done' \in Seq(Results) /\ Len(done') + ToReport' <= 2
    <3>1. done' \in Seq(Results) /\ Len(done') = 0
      BY <2>1
    <3>2. ASSUME NEW n, NEW k \in 0..2, n = 0
          PROVE  n + k <= 2
      <4> HIDE DEF ChanInv
      <4> QED
        BY <3>2
    <3> QED
      BY <2>2, <3>1, <3>2, Zenon
  <2>4. UNCHANGED <<conn, greeting, frames, unread>>
    BY <2>1 DEF serverSide
  <2> QED
    BY <2>1, <2>3, <2>4
<1>3. CASE Bridge
  <2>1. done # <<>> /\ done \in Seq(Results)
    BY <1>3 DEF Bridge
  <2>2. done' \in Seq(Results) /\ Len(done') = Len(done) - 1 /\ Len(done) \in Nat
    BY <1>3, <2>1, HeadTailProperties DEF Bridge
  <2>3. /\ main' = "close" /\ UNCHANGED <<tty, reader, writer, serverSide>>
    BY <1>3 DEF Bridge, output, input
  <2>4. ToReport' = ToReport /\ ToReport \in Nat
    BY <2>3 DEF ToReport
  <2> QED
    BY <2>2, <2>3, <2>4 DEF serverSide
<1>4. CASE Exit \/ Kill
  <2>1. /\ main' \in {"ended", "killed"} /\ reader' = "off" /\ writer' = "off"
        /\ UNCHANGED <<done, tty, greeting, frames, unread>> /\ conn' \in {conn, "closed"}
    BY <1>4 DEF Exit, Kill, serverSide
  <2>2. ToReport' = 0 /\ ToReport \in Nat /\ Len(done) \in Nat
    BY <2>1 DEF ToReport
  <2> QED
    BY <2>1, <2>2
<1>5. CASE ReadFrame \/ WriteFrame
  <2>1. /\ reader \in {"read", "write"} /\ reader' \in {"read", "write"}
        /\ UNCHANGED <<main, done, tty, writer, conn, greeting, frames, unread>>
    BY <1>5 DEF ReadFrame, WriteFrame, input, serverSide
  <2>2. ToReport' = ToReport
    BY <2>1 DEF ToReport
  <2> QED
    BY <2>1, <2>2
<1>6. CASE ReadFails \/ WriteFails
  <2>1. /\ reader \in {"read", "write"} /\ reader' = "stopped" /\ Report("error")
        /\ UNCHANGED <<main, tty, writer, serverSide>>
    BY <1>6 DEF ReadFails, WriteFails, input
  <2>2. ToReport' = ToReport - 1
    BY <2>1 DEF ToReport
  <2>3. "error" \in Results
    BY DEF Results
  <2>4. done' \in Seq(Results) /\ Len(done') + ToReport' <= 2
    BY <2>1, <2>2, <2>3, ReportFits
  <2> QED
    BY <2>1, <2>4 DEF serverSide
<1>7. ASSUME writer \in {"read", "send", "sendlast"}, NEW result \in Results,
             \/ writer' = "stopped" /\ Report(result)
             \/ writer' \in {"read", "send", "sendlast"} /\ UNCHANGED done,
             UNCHANGED <<main, tty, reader, conn, greeting, frames>>, unread' \in 0..Window
      PROVE  ChanInv'
  <2>1. CASE writer' = "stopped" /\ Report(result)
    <3>1. ToReport' = ToReport - 1
      BY <1>7, <2>1 DEF ToReport
    <3>2. done' \in Seq(Results) /\ Len(done') + ToReport' <= 2
      BY <2>1, <3>1, ReportFits
    <3> QED
      BY <1>7, <2>1, <3>2
  <2>2. CASE writer' \in {"read", "send", "sendlast"} /\ UNCHANGED done
    <3>1. ToReport' = ToReport
      BY <1>7, <2>2 DEF ToReport
    <3> QED
      BY <1>7, <2>2, <3>1
  <2> QED
    BY <1>7, <2>1, <2>2
<1>8. "error" \in Results /\ "nil" \in Results /\ "EOF" \in Results
  BY DEF Results
<1>9. ASSUME NEW n \in consumed + 1..Len(typed), ReadKeys(n)
      PROVE  ChanInv'
  <2>1. /\ writer = "read" /\ UNCHANGED <<main, tty, reader, conn, greeting, frames, unread>>
        /\ \/ writer' = "stopped" /\ Report("nil")
           \/ writer' \in {"send", "sendlast"} /\ UNCHANGED done
    <3>1. Plain(n) = consumed => Plain(n) # n
      BY <1>9 DEF ReadKeys
    <3> QED
      BY <1>9, <3>1 DEF ReadKeys, output, serverSide
  <2> QED
    BY <1>7, <1>8, <2>1
<1>10. CASE SendKeys
  <2>1. /\ writer \in {"send", "sendlast"} /\ unread < Window /\ unread' = unread + 1
        /\ UNCHANGED <<main, tty, reader, conn, greeting, frames>>
        /\ \/ writer' = "read" /\ UNCHANGED done
           \/ writer' = "stopped" /\ Report("nil")
    BY <1>10 DEF SendKeys, output
  <2>2. unread' \in 0..Window
    BY <2>1
  <2> QED
    BY <1>7, <1>8, <2>1, <2>2
<1>11. CASE SendFails
  <2>1. /\ writer \in {"send", "sendlast"} /\ writer' = "stopped"
        /\ Report("error") \/ Report("nil")
        /\ UNCHANGED <<main, tty, reader, conn, greeting, frames, unread>>
    BY <1>11 DEF SendFails, output, serverSide
  <2> QED
    BY <1>7, <1>8, <2>1
<1>12. CASE ReadEOF
  <2>1. /\ writer = "read" /\ writer' = "stopped" /\ Report("EOF")
        /\ UNCHANGED <<main, tty, reader, conn, greeting, frames, unread>>
    BY <1>12 DEF ReadEOF, output, serverSide
  <2> QED
    BY <1>7, <1>8, <2>1
<1>13. CASE Type \/ Greet \/ SendFrame \/ ReadMessages \/ HangUp
  <2>1. /\ UNCHANGED <<main, done, tty, reader, writer>>
        /\ conn' \in {"open", "hungup", "closed"}
        /\ greeting' \in {"none", "OK", "rejected"}
        /\ frames' \in 0..MaxFrames /\ unread' \in 0..Window
    BY <1>13 DEF Type, Greet, SendFrame, ReadMessages, HangUp, output, input, serverSide
  <2>2. ToReport' = ToReport
    BY <2>1 DEF ToReport
  <2> QED
    BY <2>1, <2>2
<1>14. CASE UNCHANGED vars
  BY <1>14 DEF vars, serverSide, output, input, ToReport
<1> QED
  BY <1>1, <1>2, <1>3, <1>4, <1>5, <1>6, <1>9, <1>10, <1>11, <1>12, <1>13, <1>14
     DEF Next, Main, Reader, Writer

LEMMA ChanInvariant == Spec => []ChanInv
<1>1. Init => ChanInv
  <2> SUFFICES ASSUME Init
               PROVE  ChanInv
    OBVIOUS
  <2>1. done = <<>> /\ <<>> \in Seq(Results) /\ Len(<<>>) = 0
    BY DEF Init
  <2>2. ToReport = 0
    BY DEF Init, ToReport
  <2> QED
    BY <2>1, <2>2 DEF Init, ChanInv
<1> QED
  BY <1>1, ChanKeeps, PTL DEF Spec

\* Types, and no goroutine ever waits to report: the channel, with its room
\* for two, holds no more.
THEOREM TypeOKHolds == Spec => []TypeOK
<1>1. ChanInv /\ InInv => TypeOK
  <2> SUFFICES ASSUME ChanInv, InInv
               PROVE  TypeOK
    OBVIOUS
  <2>1. done \in Seq(Results) /\ Len(done) \in 0..2
    <3>1. done \in Seq(Results)
      BY DEF ChanInv
    <3>2. ToReport \in Nat /\ Len(done) \in Nat
      BY <3>1 DEF ToReport
    <3>3. Len(done) + ToReport <= 2
      BY DEF ChanInv
    <3>4. ASSUME NEW n \in Nat, NEW k \in Nat, n + k <= 2
          PROVE  n \in 0..2
      BY <3>4
    <3> QED
      BY <3>1, <3>2, <3>3, <3>4, Zenon
  <2>2. done \in [1..Len(done) -> Results]
    BY <2>1, LenProperties
  <2>3. done \in BoundedSeq(Results, 2)
    <3>1. \E m \in 0..2 : done \in [1..m -> Results]
      BY <2>1, <2>2, Zenon
    <3> QED
      BY <3>1, Zenon DEF BoundedSeq, SeqOf
  <2>4. consumed \in 0..Len(typed)
    BY DEF InInv
  <2> QED
    BY <2>3, <2>4 DEF ChanInv, TypeOK, Results
<1> QED
  BY <1>1, ChanInvariant, InInvariant, PTL
=============================================================================
