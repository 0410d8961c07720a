------------------------------ MODULE TelnetServer ------------------------------
(***************************************************************************)
(* The telnet console: ServerFsm.cpp driving TelnetServer.cpp, the line     *)
(* editor TelnetPrinter.cpp and the commands.  The console has one          *)
(* connection at a time, but one line editor for all of them: what a        *)
(* connection leaves in it is there when the next one begins.               *)
(*                                                                          *)
(* Of a byte only its role is kept.  Of the line the model keeps its length *)
(* and whether anything in it was not typed on this connection.  What has   *)
(* been read is treated byte by byte, a step each, from a buffer into which *)
(* the answers of the commands are written as well.                         *)
(***************************************************************************)
EXTENDS Naturals, Sequences

CONSTANTS Client, NoClient,
          LineSize,    \* line.size(), 1024 in the program
          RawSize,     \* rawBuffer.size(), 1024 in the program
          MaxBacklog,  \* connections the kernel keeps for accept
          MaxBytes     \* bound on the bytes that wait to be read

ASSUME TelnetAssumption == /\ NoClient \notin Client
                           /\ LineSize \in Nat \ {0}
                           /\ RawSize \in Nat \ {0}
                           /\ MaxBacklog \in Nat
                           /\ MaxBytes \in Nat

VARIABLES state,       \* the state of ServerFsm
          link,        \* the connection of the console, or NoConn
          backlog,     \* connections not yet accepted
          editor,      \* TelnetPrinter::state
          raw,         \* the bytes in rawBuffer that are still to be treated
          lineLen,
          strange,     \* is there a byte in the line that this client has not typed
          lastCmdLen,
          down,        \* has the shutdown command been given
          stage,       \* a client: "away", not yet greeted ("dialled"), "ready" to
                       \* type, or, if it is orderly, behind the width ("sizing") or
                       \* the height ("sized") of its window, or "waiting" for the
                       \* next prompt
          typed,       \* the length of the line as an orderly client knows it
          orderly      \* do all clients keep to the rules under Orderly below

serverVars == <<state, link, backlog>>
editorVars == <<editor, raw, lineLen, strange, lastCmdLen>>
clientVars == <<stage, typed, orderly>>
vars == <<serverVars, editorVars, down, clientVars>>

\* text: printable; out: printable, of an answer of the program; nul and etx end the
\* line; iac, esc and the others belong to the sequences of the telnet protocol and
\* of the terminal; num is of the size of a window, but for 255 and 27, which are iac
\* and esc.
Byte == {"text", "out", "nul", "etx", "iac", "verb", "opt", "sb", "num", "se",
         "esc", "[", "A"}
Printable == {"text", "out", "[", "A"}

Stage == {"away", "dialled", "ready", "sizing", "sized", "waiting"}

NoConn == [who |-> NoClient, end |-> "none", inbox |-> <<>>]
Conn == [who : Client, end : {"up", "fin"}, inbox : Seq(Byte)]

TypeOK ==
    /\ state \in {"init", "accept", "process", "error"}
    /\ link \in Conn \cup {NoConn}
    /\ backlog \in Seq(Conn)
    /\ editor \in {"readLine", "readCmd", "readCmdOption", "readCmdSubOption",
                   "readEsc", "readEscOption", "error"}
    /\ raw \in Seq(Byte) /\ Len(raw) <= RawSize
    /\ lineLen \in 0 .. LineSize
    /\ strange \in BOOLEAN
    /\ lastCmdLen \in 0 .. (LineSize - 1)
    /\ down \in BOOLEAN
    /\ stage \in [Client -> Stage]
    /\ typed \in [Client -> 0 .. (LineSize - 1)]
    /\ orderly \in BOOLEAN

Init ==
    /\ state = "init"
    /\ link = NoConn
    /\ backlog = <<>>
    /\ editor = "readLine"
    /\ raw = <<>>
    /\ lineLen = 0
    /\ strange = FALSE
    /\ lastCmdLen = 0
    /\ down = FALSE
    /\ stage = [c \in Client |-> "away"]
    /\ typed = [c \in Client |-> 0]
    /\ orderly \in BOOLEAN

-----------------------------------------------------------------------------
\* Operators named Bad... are faulty variants of the definition that follows them;
\* PROJECT.json (mutants) says which property notices each.

\* A client sees its connection end; it may come again.
SentAway(c) == /\ stage' = [stage EXCEPT ![c] = "away"]
               /\ typed' = [typed EXCEPT ![c] = 0]

\* link->close(), unless the connection has gone already.
Close ==
    /\ link' = NoConn
    /\ IF link.end = "up" THEN SentAway(link.who) ELSE UNCHANGED <<stage, typed>>

\* A write to the client, with the prompt.  It fails at most on a connection whose
\* other end has gone, and then closes it; the result is not looked at.
Prompt ==
    \/ /\ link.end = "up"
       /\ stage' = [stage EXCEPT ![link.who] = "ready"]
       /\ typed' = [typed EXCEPT ![link.who] = 0]
       /\ UNCHANGED link
    \/ /\ link.end # "up"
       /\ link' \in {link, NoConn}
       /\ UNCHANGED <<stage, typed>>

-----------------------------------------------------------------------------
\* ServerFsm::tickInd, and the operations of TelnetServer.

\* This state and error last up to four ticks, in which nothing happens.
LeaveInit ==
    /\ state = "init"
    /\ state' = "accept"
    /\ UNCHANGED <<link, backlog, editorVars, stage, typed>>

\* The editor is left as it stands, not only its line.
BadGreet(c) ==
    /\ state' = "process"
    /\ link' = c
    /\ UNCHANGED <<editor, strange, lineLen>>

\* printer.init: the line is not emptied.
Greet(c) ==
    /\ state' = "process"
    /\ link' = c
    /\ editor' = "readLine"
    /\ strange' = (lineLen > 0)
    /\ UNCHANGED lineLen

\* The greeting ends with a prompt.  If it cannot be sent the connection is closed by
\* the write that fails, and the server goes on accepting.
Accept ==
    /\ state = "accept"
    /\ \/ backlog = <<>> /\ UNCHANGED <<state, link, backlog, editor, lineLen, strange, stage>>
       \/ /\ backlog # <<>>
          /\ backlog' = Tail(backlog)
          /\ Greet(Head(backlog))
          /\ stage' = IF Head(backlog).end = "up"
                      THEN [stage EXCEPT ![Head(backlog).who] = "ready"] ELSE stage
       \/ /\ backlog # <<>> /\ Head(backlog).end = "fin"
          /\ backlog' = Tail(backlog)
          /\ UNCHANGED <<state, link, editor, lineLen, strange, stage>>
    /\ UNCHANGED <<raw, lastCmdLen, typed>>

\* reset, and the change of state that follows it.
BadReset == state' = "error" /\ link' = NoConn /\ UNCHANGED <<stage, typed>>
Reset == state' = "error" /\ Close

\* receive reads to the next pause, which may come anywhere.  If the connection ends
\* before it, everything read is lost with it; so it is if it does not fit, when the
\* last byte read is written behind the buffer, into lastCmd.
Receive ==
    /\ state = "process"
    /\ \/ \E n \in 1 .. Len(link.inbox) :
             /\ raw' = IF n <= RawSize THEN SubSeq(link.inbox, 1, n) ELSE <<>>
             /\ n <= RawSize + 1
             /\ link' = [link EXCEPT !.inbox = SubSeq(@, n + 1, Len(@))]
             /\ UNCHANGED <<state, stage, typed>>
       \/ link.end = "up" /\ link.inbox = <<>> /\ UNCHANGED <<state, link, raw, stage, typed>>
       \/ link.end # "up" /\ Reset /\ UNCHANGED raw
    /\ UNCHANGED <<backlog, editor, lineLen, strange, lastCmdLen>>

Error ==
    /\ state = "error"
    /\ state' = "init"
    /\ UNCHANGED <<link, backlog, editorVars, stage, typed>>

\* The main loop has it ticked until the shutdown.
ServerTick ==
    /\ ~down
    /\ raw = <<>>
    /\ LeaveInit \/ Accept \/ Receive \/ Error
    /\ UNCHANGED <<down, orderly>>

-----------------------------------------------------------------------------
\* The line editor: TelnetPrinter::receive for one byte, by state.

ch == Head(raw)
Rest == Tail(raw)

\* Nothing but the state of the editor and the rest of the bytes changes.
Becomes(e) == /\ editor' = e
              /\ raw' = Rest
              /\ UNCHANGED <<state, link, lineLen, strange, lastCmdLen, down, stage, typed>>

\* These two are looked for in every state, the error state included.
Iac == ch = "iac" /\ Becomes("readCmd")
Esc == ch = "esc" /\ Becomes("readEsc")

\* The line is not emptied.
BadExecute ==
    /\ lastCmdLen' = lineLen
    /\ Prompt
    /\ raw' = Rest
    /\ UNCHANGED <<state, lineLen, strange, down>>

\* processLine: the command exit, which closes the connection if it is still there;
\* shutdown; or another, unknown or wrong ones included.  An answer is written to the
\* beginning of rawBuffer, over what is still to be treated if it is long enough.
Execute ==
    /\ lastCmdLen' = lineLen
    /\ lineLen' = 0
    /\ strange' = FALSE
    /\ \/ /\ IF state = "process" THEN Reset ELSE UNCHANGED <<state, link, stage, typed>>
          /\ raw' = Rest
          /\ UNCHANGED down
       \/ /\ down' = TRUE
          /\ raw' = Rest
          /\ Prompt
          /\ UNCHANGED state
       \/ /\ \E n \in 0 .. Len(Rest) :
                raw' = [k \in DOMAIN Rest |-> IF k <= n THEN "out" ELSE Rest[k]]
          /\ Prompt
          /\ UNCHANGED <<state, down>>

\* > for >=.
BadHasRoom == lineLen <= LineSize
HasRoom == lineLen < LineSize

ReadLine ==
    /\ editor = "readLine"
    /\ ch \notin {"iac", "esc"}
    /\ \/ ~HasRoom /\ Becomes("error")
       \/ /\ HasRoom /\ ch = "nul" /\ lineLen > 0
          /\ Execute
          /\ UNCHANGED editor
       \/ /\ HasRoom
          /\ ch = "etx" \/ (ch = "nul" /\ lineLen = 0)
          /\ lineLen' = 0
          /\ strange' = FALSE
          /\ raw' = Rest
          /\ Prompt
          /\ UNCHANGED <<state, editor, lastCmdLen, down>>
       \/ /\ HasRoom /\ ch \in Printable
          /\ lineLen' = lineLen + 1
          /\ strange' = (strange \/ ch = "out")
          /\ raw' = Rest
          /\ UNCHANGED <<state, link, editor, lastCmdLen, down, stage, typed>>
       \/ HasRoom /\ ch \in {"verb", "opt", "sb", "num", "se"} /\ Becomes(editor)

ReadCmd ==
    /\ editor = "readCmd"
    /\ ch \notin {"iac", "esc"}
    /\ Becomes(CASE ch = "verb" -> "readCmdOption"
                 [] ch = "sb" -> "readCmdSubOption"
                 [] ch = "se" -> "readLine"
                 [] OTHER -> "error")

\* Some options have the code of a printable byte, and GA that of etx.
ReadCmdOption ==
    /\ editor = "readCmdOption"
    /\ ch \notin {"iac", "esc"}
    /\ \/ ch \in {"opt", "etx", "text"} /\ Becomes("readLine")
       \/ ch \notin {"opt", "etx"} /\ Becomes("error")

ReadCmdSubOption ==
    /\ editor = "readCmdSubOption"
    /\ ch \notin {"iac", "esc"}
    /\ Becomes(editor)

ReadEsc ==
    /\ editor = "readEsc"
    /\ ch \notin {"iac", "esc"}
    /\ Becomes(IF ch = "[" THEN "readEscOption" ELSE "error")

\* The arrow up brings the last command back, which is shown to the client and
\* counts as its own from there on.  If the line is the last command already, as it can
\* be only at the same length, nothing is shown.
ReadEscOption ==
    /\ editor = "readEscOption"
    /\ ch \notin {"iac", "esc"}
    /\ \/ /\ ch = "A" /\ lastCmdLen > 0
          /\ lineLen' = lastCmdLen
          /\ strange' = FALSE
       \/ /\ ch = "A" => lastCmdLen \in {0, lineLen}
          /\ UNCHANGED <<lineLen, strange>>
    /\ editor' = "readLine"
    /\ raw' = Rest
    /\ UNCHANGED <<state, link, lastCmdLen, down, stage, typed>>

\* receive returns 1, with the rest of the bytes untreated.
EditorError ==
    /\ editor = "error"
    /\ ch \notin {"iac", "esc"}
    /\ raw' = <<>>
    /\ Reset
    /\ UNCHANGED <<editor, lineLen, strange, lastCmdLen, down>>

TreatByte ==
    /\ raw # <<>>
    /\ \/ Iac \/ Esc \/ ReadLine \/ ReadCmd \/ ReadCmdOption \/ ReadCmdSubOption
       \/ ReadEsc \/ ReadEscOption \/ EditorError
    /\ UNCHANGED <<backlog, orderly>>

-----------------------------------------------------------------------------
\* The clients.  They act between two calls of receive (what they do during one is
\* read by the next) until the console is ticked no longer.

Between == raw = <<>> /\ ~down

IsLive(c, conn) == conn.who = c /\ conn.end = "up"
Ended(c, conn) == IF IsLive(c, conn) THEN [conn EXCEPT !.end = "fin"] ELSE conn

Dial(c) ==
    /\ Between
    /\ stage[c] = "away"
    /\ Len(backlog) < MaxBacklog
    /\ backlog' = Append(backlog, [who |-> c, end |-> "up", inbox |-> <<>>])
    /\ stage' = [stage EXCEPT ![c] = "dialled"]
    /\ UNCHANGED <<state, link, editorVars, down, typed, orderly>>

\* An orderly client leaves no unfinished line, and its connection does not break.
Leave(c) ==
    /\ Between
    /\ stage[c] # "away"
    /\ orderly => stage[c] # "waiting" /\ typed[c] = 0
    /\ link' = Ended(c, link)
    /\ backlog' = [k \in DOMAIN backlog |-> Ended(c, backlog[k])]
    /\ SentAway(c)
    /\ UNCHANGED <<state, editorVars, down, orderly>>

\* What a key sends, and what the telnet client answers by itself: an option, or the
\* size of its window, IAC SB 31, two bytes each for width and height, IAC SE, where
\* 255 is sent twice.  The editor passes over them, but takes 255 and 27 for the begin
\* of a sequence there as well.  The first byte of the width is left out, and that of
\* the height is below 27.
Letter == <<"text">>
Enter == <<"nul">>
Cancel == <<"etx">>
Up == <<"esc", "[", "A">>
FunctionKey == <<"esc", "text">>
Option == <<"iac", "verb", "opt">>
SizeBegin == <<"iac", "sb", "num">>
SizeBegin27 == <<"iac", "sb", "esc">>
SizeBegin255 == <<"iac", "sb", "iac", "iac">>
Heights == {<<"num", "num">>, <<"num", "esc">>, <<"num", "iac", "iac">>}
SizeEnd == <<"iac", "se">>
Keys == {Letter, Enter, Cancel, Up, FunctionKey, Option,
         SizeBegin, SizeBegin27, SizeBegin255, SizeEnd} \cup Heights

\* An orderly client waits for the prompt, keeps its line shorter than the buffers,
\* uses no function keys, and sends a size as a whole.  Its window is not 27 or 255
\* columns wide, nor is a byte of its width; it may be as high as it likes.
Orderly(c, keys) ==
    /\ keys \notin {FunctionKey, SizeBegin27, SizeBegin255}
    /\ (stage[c] = "sizing") <=> (keys \in Heights)
    /\ (stage[c] = "sized") <=> (keys = SizeEnd)
    /\ keys = Letter => typed[c] < LineSize - 1
    /\ Len(link.inbox) + Len(keys) <= RawSize

StageAfter(keys) == CASE keys \in {Enter, Cancel} -> "waiting"
                      [] keys = SizeBegin -> "sizing"
                      [] keys \in Heights -> "sized"
                      [] OTHER -> "ready"

TypedAfter(c, keys) == CASE keys = Letter -> typed[c] + 1
                         [] keys = Up /\ lastCmdLen > 0 -> lastCmdLen
                         [] OTHER -> typed[c]

\* What it types before it is accepted comes to the same as if typed afterwards.
Type(c, keys) ==
    /\ Between
    /\ stage[c] \in {"ready", "sizing", "sized"}
    /\ Len(link.inbox) + Len(keys) <= MaxBytes
    /\ link' = [link EXCEPT !.inbox = @ \o keys]
    /\ IF orderly
       THEN /\ Orderly(c, keys)
            /\ stage' = [stage EXCEPT ![c] = StageAfter(keys)]
            /\ typed' = [typed EXCEPT ![c] = TypedAfter(c, keys)]
       ELSE UNCHANGED <<stage, typed>>
    /\ UNCHANGED <<state, backlog, editorVars, down, orderly>>

Next ==
    \/ ServerTick
    \/ TreatByte
    \/ \E c \in Client :
          \/ Dial(c) \/ Leave(c)
          \/ \E keys \in Keys : Type(c, keys)

Safety == Init /\ [][Next]_vars

\* The main loop ticks the console for ever, and a call of receive comes to its end.
Spec == Safety /\ WF_vars(ServerTick) /\ WF_vars(TreatByte)

-----------------------------------------------------------------------------
\* Properties.

\* What is executed when an orderly client presses Enter is the line it has typed or
\* brought back, every byte of it and no other: nothing of the connections before,
\* none of the program's own answers, nothing lost between two reads.
LineAsTyped ==
    (orderly /\ raw # <<>> /\ editor = "readLine" /\ ch = "nul")
        => link.end = "up" /\ ~strange /\ lineLen = typed[link.who]

\* It gets the next prompt, or its connection is closed.
EveryLineAnswered ==
    \A c \in Client :
        (orderly /\ stage[c] = "waiting") ~> (stage[c] # "waiting" \/ down)

\* A client whose connection is open is known to the console exactly once, whatever
\* the clients type and however the connections end.
NoConnectionForgotten ==
    \A c \in Client :
        LET places == {k \in 0 .. Len(backlog) :
                          IsLive(c, IF k = 0 THEN link ELSE backlog[k])}
        IN  IF stage[c] = "away" THEN places = {} ELSE \E k \in places : places = {k}
==============================================================================
