------------------------------ MODULE Console ------------------------------
(***************************************************************************)
(* `pc vm console`, internal/cli/console.go: the terminal is made raw, the *)
(* websocket is greeted, and two goroutines copy what the server sends to  *)
(* the terminal and what is typed to the server, until one of them reports *)
(* on the channel `done`; then the connection is closed and the terminal   *)
(* restored. No signal is handled: one that ends the process leaves the    *)
(* terminal as it is.                                                      *)
(*                                                                         *)
(* Frame n of the server is the number n. A key is its position in what    *)
(* was typed, and Ctrl-] is 0. A write to the server blocks while Window   *)
(* messages wait to be read there.                                         *)
(***************************************************************************)
EXTENDS Naturals, Sequences, SequencesExt

CONSTANTS
    MaxFrames,      \* bound of the frames the server sends
    MaxKeys,        \* bound of the keys that are typed
    Window          \* what the connection holds towards the server

ASSUME BoundsAssumption ==
    MaxFrames \in Nat /\ MaxKeys \in Nat /\ Window \in Nat \ {0}

consoleQuit == 0

VARIABLES
    main,           \* where runConsole and its caller are; "ended" by
                    \* themselves, or "killed"
    reader,         \* the goroutine that copies output
    writer,         \* the goroutine that copies input
    done,           \* the channel
    tty,            \* "cooked" or "raw"
    conn,           \* "open", "hungup" by the server, or "closed" by pc
    greeting,       \* the server's answer to the handshake
    frames,         \* number of frames sent by the server
    incoming,       \* frames on their way
    held,           \* the frame the reader is about to print, in a sequence
    printed,
    typed,
    consumed,       \* number of keys the writer has read
    sent,           \* keys given to the connection
    unread          \* messages the server has not read

serverSide == <<conn, greeting, frames, incoming, unread>>
output == <<reader, held, printed>>
input == <<writer, consumed, sent>>
vars == <<main, done, tty, typed, serverSide, output, input>>

Init ==
    /\ main = "dial"
    /\ reader = "off" /\ writer = "off"
    /\ done = <<>>
    /\ tty = "cooked"
    /\ conn = "open"
    /\ greeting = "none"
    /\ frames = 0
    /\ incoming = <<>> /\ held = <<>> /\ printed = <<>>
    /\ typed = <<>> /\ consumed = 0 /\ sent = <<>>
    /\ unread = 0

Report(result) == done' = Append(done, result)

(***************************************************************************)
(* The main goroutine.                                                     *)
(***************************************************************************)
\* The websocket is open, the terminal becomes raw, the ticket is sent.
Attach ==
    /\ main = "dial"
    /\ tty' = "raw"
    /\ main' = "auth"
    /\ UNCHANGED <<done, typed, serverSide, output, input>>

\* The ticket is refused, there is no such guest, or no connection.
AttachFails ==
    /\ main = "dial"
    /\ main' = "exit"
    /\ UNCHANGED <<done, tty, typed, serverSide, output, input>>

\* The answer to the handshake; it has no deadline.
Handshake ==
    /\ main = "auth"
    /\ \/ /\ greeting = "OK"
          /\ main' = "bridge"
          /\ reader' = "read" /\ writer' = "read"
       \/ /\ greeting = "rejected" \/ (greeting = "none" /\ conn = "hungup")
          /\ main' = "close"
          /\ UNCHANGED <<reader, writer>>
    /\ UNCHANGED <<done, tty, typed, serverSide, held, printed, consumed, sent>>

\* The first result on the channel ends the bridge.
Bridge ==
    /\ main = "bridge"
    /\ done # <<>>
    /\ done' = Tail(done)
    /\ main' = "close"
    /\ UNCHANGED <<tty, typed, serverSide, output, input>>

\* Fault: the terminal is not restored when the handshake failed.
Close_RestoresOnlyBridge ==
    /\ main = "close"
    /\ conn' = "closed"
    /\ main' = IF reader = "off" THEN "exit" ELSE "restore"
    /\ UNCHANGED <<done, tty, typed, greeting, frames, incoming, unread, output, input>>

\* The deferred calls: the last one first.
Close ==
    /\ main = "close"
    /\ conn' = "closed"
    /\ main' = "restore"
    /\ UNCHANGED <<done, tty, typed, greeting, frames, incoming, unread, output, input>>

Restore ==
    /\ main = "restore"
    /\ tty' = "cooked"
    /\ main' = "exit"
    /\ UNCHANGED <<done, typed, serverSide, output, input>>

\* The process ends, and its goroutines with it.
Exit ==
    /\ main = "exit"
    /\ main' = "ended"
    /\ reader' = "off" /\ writer' = "off"
    /\ UNCHANGED <<done, tty, typed, serverSide, held, printed, consumed, sent>>

\* SIGTERM, or SIGHUP with the terminal's window: the deferred calls do not run.
Kill ==
    /\ main \notin {"ended", "killed"}
    /\ main' = "killed"
    /\ reader' = "off" /\ writer' = "off"
    /\ conn' = "closed"
    /\ UNCHANGED <<done, tty, typed, greeting, frames, incoming, unread, held, printed,
                   consumed, sent>>

(***************************************************************************)
(* Server output to the terminal.                                          *)
(***************************************************************************)
Broken == conn = "closed" \/ (conn = "hungup" /\ incoming = <<>>)

ReadFrame ==
    /\ reader = "read"
    /\ conn # "closed"
    /\ incoming # <<>>
    /\ held' = <<Head(incoming)>>
    /\ incoming' = Tail(incoming)
    /\ reader' = "write"
    /\ UNCHANGED <<main, done, tty, typed, conn, greeting, frames, unread, printed, input>>

\* Fault: the goroutine returns without a word.
ReadFails_Silent ==
    /\ reader = "read"
    /\ Broken
    /\ reader' = "stopped"
    /\ UNCHANGED <<main, done, tty, typed, serverSide, held, printed, input>>

\* Fault: the goroutine goes on after an error.
ReadFails_Continues ==
    /\ reader = "read"
    /\ Broken
    /\ Report("error")
    /\ UNCHANGED <<main, reader, tty, typed, serverSide, held, printed, input>>

ReadFails ==
    /\ reader = "read"
    /\ Broken
    /\ Report("error")
    /\ reader' = "stopped"
    /\ UNCHANGED <<main, tty, typed, serverSide, held, printed, input>>

WriteFrame ==
    /\ reader = "write"
    /\ printed' = printed \o held
    /\ held' = <<>>
    /\ reader' = "read"
    /\ UNCHANGED <<main, done, tty, typed, serverSide, input>>

\* out.Write fails: the frame, or the rest of it, is not printed.
WriteFails ==
    /\ reader = "write"
    /\ Report("error")
    /\ held' = <<>>
    /\ reader' = "stopped"
    /\ UNCHANGED <<main, tty, typed, serverSide, printed, input>>

(***************************************************************************)
(* Local input to the server.                                              *)
(***************************************************************************)
\* Keys of the chunk before the first Ctrl-].
Plain(n) ==
    LET quits == {i \in consumed + 1..n : typed[i] = consoleQuit} IN
    IF quits = {} THEN n
    ELSE (CHOOSE i \in quits : \A j \in quits : i <= j) - 1

\* Fault: a Ctrl-] ends the goroutine only.
ReadKeys_QuitUnreported(n) ==
    /\ writer = "read"
    /\ n \in consumed + 1..Len(typed)
    /\ consumed' = Plain(n)
    /\ writer' = CASE Plain(n) = n        -> "send"
                   [] Plain(n) = consumed -> "stopped"
                   [] OTHER               -> "sendlast"
    /\ UNCHANGED <<main, done, tty, typed, serverSide, output, sent>>

\* in.Read returns the keys up to the n-th.
ReadKeys(n) ==
    /\ writer = "read"
    /\ n \in consumed + 1..Len(typed)
    /\ consumed' = Plain(n)
    /\ writer' = CASE Plain(n) = n        -> "send"
                   [] Plain(n) = consumed -> "stopped"
                   [] OTHER               -> "sendlast"
    /\ IF Plain(n) = consumed THEN Report("nil") ELSE UNCHANGED done
    /\ UNCHANGED <<main, tty, typed, serverSide, output, sent>>

\* The terminal is gone.
ReadEOF ==
    /\ writer = "read"
    /\ consumed = Len(typed)
    /\ Report("EOF")
    /\ writer' = "stopped"
    /\ UNCHANGED <<main, tty, typed, serverSide, output, consumed, sent>>

\* Fault: the whole of what was typed is sent again.
SendKeys_Again ==
    /\ writer \in {"send", "sendlast"}
    /\ conn = "open"
    /\ unread < Window
    /\ sent' = sent \o SubSeq(typed, 1, consumed)
    /\ unread' = unread + 1
    /\ writer' = IF writer = "send" THEN "read" ELSE "stopped"
    /\ IF writer = "send" THEN UNCHANGED done ELSE Report("nil")
    /\ UNCHANGED <<main, tty, typed, conn, greeting, frames, incoming, output, consumed>>

SendKeys ==
    /\ writer \in {"send", "sendlast"}
    /\ conn = "open"
    /\ unread < Window
    /\ sent' = sent \o SubSeq(typed, Len(sent) + 1, consumed)
    /\ unread' = unread + 1
    /\ writer' = IF writer = "send" THEN "read" ELSE "stopped"
    /\ IF writer = "send" THEN UNCHANGED done ELSE Report("nil")
    /\ UNCHANGED <<main, tty, typed, conn, greeting, frames, incoming, output, consumed>>

\* The error of the last write is dropped.
SendFails ==
    /\ writer \in {"send", "sendlast"}
    /\ conn # "open"
    /\ Report(IF writer = "send" THEN "error" ELSE "nil")
    /\ writer' = "stopped"
    /\ UNCHANGED <<main, tty, typed, serverSide, output, consumed, sent>>

(***************************************************************************)
(* The person, and the server.                                             *)
(***************************************************************************)
Type ==
    /\ tty = "raw" /\ main # "killed"
    /\ Len(typed) < MaxKeys
    /\ \E key \in {Len(typed) + 1, consoleQuit} : typed' = Append(typed, key)
    /\ UNCHANGED <<main, done, tty, serverSide, output, input>>

Greet ==
    /\ main = "auth" /\ greeting = "none" /\ conn = "open"
    /\ greeting' \in {"OK", "rejected"}
    /\ UNCHANGED <<main, done, tty, typed, conn, frames, incoming, unread, output, input>>

SendFrame ==
    /\ conn = "open" /\ greeting = "OK"
    /\ frames < MaxFrames
    /\ frames' = frames + 1
    /\ incoming' = Append(incoming, frames + 1)
    /\ UNCHANGED <<main, done, tty, typed, conn, greeting, unread, output, input>>

ReadMessages ==
    /\ conn = "open"
    /\ unread > 0
    /\ unread' = 0
    /\ UNCHANGED <<main, done, tty, typed, conn, greeting, frames, incoming, output, input>>

HangUp ==
    /\ main \in {"auth", "bridge"} /\ conn = "open"
    /\ conn' = "hungup"
    /\ UNCHANGED <<main, done, tty, typed, greeting, frames, incoming, unread, output, input>>

Main == AttachFails \/ Attach \/ Handshake \/ Bridge \/ Close \/ Restore \/ Exit
Reader == ReadFrame \/ ReadFails \/ WriteFrame \/ WriteFails
Writer == (\E n \in consumed + 1..Len(typed) : ReadKeys(n)) \/ SendKeys \/ SendFails

Next == Main \/ Reader \/ Writer \/ ReadEOF
        \/ Type \/ Greet \/ SendFrame \/ ReadMessages \/ HangUp \/ Kill

Spec == Init /\ [][Next]_vars

\* Each goroutine runs; it may block, in a read or in a write.
FairSpec == Spec /\ WF_vars(Main) /\ WF_vars(Reader) /\ WF_vars(Writer)

(***************************************************************************)
(* Properties.                                                             *)
(***************************************************************************)
\* Types; the channel never holds more than its capacity, wherever each of
\* the goroutines stops, so that neither blocks on it.
TypeOK ==
    /\ main \in {"dial", "auth", "bridge", "close", "restore", "exit", "ended", "killed"}
    /\ reader \in {"off", "read", "write", "stopped"}
    /\ writer \in {"off", "read", "send", "sendlast", "stopped"}
    /\ done \in BoundedSeq({"error", "nil", "EOF"}, 2)
    /\ tty \in {"cooked", "raw"}
    /\ conn \in {"open", "hungup", "closed"}
    /\ greeting \in {"none", "OK", "rejected"}
    /\ frames \in 0..MaxFrames
    /\ consumed \in 0..Len(typed)
    /\ unread \in 0..Window

\* What the server gets is what was typed, in order, nothing from a Ctrl-] on;
\* and a Ctrl-] that ends the bridge takes none of the keys before it along.
KeysInOrder ==
    /\ IsPrefix(sent, typed)
    /\ \A i \in DOMAIN sent : sent[i] # consoleQuit
    /\ main = "close" /\ writer = "stopped" /\ conn = "open" /\ reader # "stopped" =>
          Len(sent) = consumed

\* What is printed is what the server sent, in order, nothing missing.
FramesInOrder ==
    \A i \in DOMAIN printed : printed[i] = i

\* Both directions keep their order and lose nothing, whichever goroutine is
\* ahead and whoever ends the bridge.
StreamsInOrder == KeysInOrder /\ FramesInOrder

\* When the command ends by itself, whatever made it end, the terminal is as it
\* was. A signal may leave it raw.
TerminalIsRestored == main = "ended" => tty = "cooked"

Over == main \in {"ended", "killed"}

\* The command ends when the server hangs up.
HangUpEnds == conn = "hungup" ~> Over

\* Ctrl-] ends a bridge whose server reads.
QuitEndsBridge ==
    []<>(unread < Window) =>
        ((main = "bridge" /\ consoleQuit \in ToSet(typed)) ~> Over)
=============================================================================
