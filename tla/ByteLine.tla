------------------------------- MODULE ByteLine -------------------------------
(***************************************************************************)
(* One direction of a connection as a reader meets it: the bytes that have   *)
(* arrived, with marks for what link->read reports besides a byte.  A Gap is *)
(* a read that runs into its timeout, the End makes read fail for good and   *)
(* stays, and beyond the last symbol every read times out.                   *)
(***************************************************************************)
EXTENDS Integers, Sequences, Checksums

Gap == -1
End == -2
Symbol == Byte \cup {Gap, End}

After(line, i) == SubSeq(line, i + 1, Len(line))

\* The bytes from p to q, without the pauses between them.
BytesIn(line, p, q) == SelectSeq(SubSeq(line, p, q), LAMBDA c : c \in Byte)

\* The first place, from p on, that passes the test, or the one behind the line.
FirstPlace(line, p, Test(_)) ==
    LET from[i \in p .. Len(line) + 1] == IF i > Len(line) \/ Test(i) THEN i ELSE from[i + 1]
    IN  from[p]

\* The one with a symbol in S.
FirstOf(line, p, S) == FirstPlace(line, p, LAMBDA i : line[i] \in S)

\* What receive returns: a frame, 0, invalid, or the error of read; and what
\* it leaves unread.
Got(frame, rest) == [result |-> "frame", frame |-> frame, rest |-> rest]
Without(result, rest) == [result |-> result, frame |-> <<>>, rest |-> rest]
Nothing(rest) == Without("nothing", rest)
Invalid(rest) == Without("invalid", rest)
Failed(rest) == Without("failed", rest)

\* A read that stops at place i finds nothing there, or the end of the connection.
Stopped(line, i) ==
    IF i <= Len(line) /\ line[i] = End THEN Failed(After(line, i - 1)) ELSE Nothing(After(line, i))

\* do link->read(buf, 1, 50) while (buf[0] != start): the place of the start symbol,
\* or of the pause or end before it.
StartPlace(line, start) == FirstOf(line, 1, {start, Gap, End})
===============================================================================
