---------------------------- MODULE ServerFsmProofs ----------------------------
(***************************************************************************)
(* Proofs about two of the servers that ServerFsm drives.  The telnet        *)
(* console, for any number of clients and every size of the buffers: types,  *)
(* that no connection is forgotten, and that an orderly client has executed  *)
(* the line it has typed.  The emulated meter, for every setup and whatever  *)
(* arrives: a connection starts with its bus machine at the beginning, and   *)
(* what it encodes can be decoded.  The third of these servers is in         *)
(* ModbusServerProofs.tla.                                                   *)
(***************************************************************************)
EXTENDS TelnetServer, RsBusServerFsm, FloatWords, SequenceTheorems, TLAPS

-----------------------------------------------------------------------------
\* The invariant of the console.

\* The bytes still to be treated: those in the buffer, and those of the connection.
Stream == raw \o link.inbox

\* What an orderly client sends next, by the state the editor is then in.
Allowed(e) == CASE e = "readLine" -> {"text", "nul", "etx", "iac", "esc"}
                [] e = "readCmd" -> {"verb", "sb", "se", "iac"}
                [] e = "readCmdOption" -> {"opt"}
                [] e = "readCmdSubOption" -> {"num", "iac", "esc"}
                [] e = "readEsc" -> {"[", "iac"}
                [] e = "readEscOption" -> {"A"}
                [] OTHER -> {}

\* The state the editor is in after a byte that was allowed.
After(b) == CASE b = "iac" -> "readCmd"
              [] b = "verb" -> "readCmdOption"
              [] b \in {"sb", "num"} -> "readCmdSubOption"
              [] b = "esc" -> "readEsc"
              [] b = "[" -> "readEscOption"
              [] OTHER -> "readLine"

\* The bytes p are such as an orderly client sends if the editor is in state e.
Follows(e, p) == \A i \in 1 .. Len(p) : p[i] \in Allowed(IF i = 1 THEN e ELSE After(p[i - 1]))

\* The state the editor is in when they have been treated.
EndState(e, p) == IF p = <<>> THEN e ELSE After(p[Len(p)])

\* The states in which a client that has come to stage s may have brought the editor.
\* Its height may have been taken for the begin of a sequence.
Expects(s) == CASE s = "sizing" -> {"readCmdSubOption"}
                [] s = "sized" -> {"readCmdSubOption", "readCmd", "readEsc"}
                [] OTHER -> {"readLine"}

\* The length of the line after byte b, if it was n before and that of the last
\* command is m; what ends the line leaves it as it was typed.
Longer(n, b, m) == IF b = "text" THEN n + 1
                   ELSE IF b = "A" /\ m > 0 THEN m
                   ELSE n

\* Over the bytes p the line grows from n to k, and never to the end of its buffer.
Grows(n, p, m, k) ==
    \E L \in [0 .. Len(p) -> 0 .. (LineSize - 1)] :
        /\ L[0] = n
        /\ \A i \in 1 .. Len(p) : L[i] = Longer(L[i - 1], p[i], m)
        /\ L[Len(p)] = k

\* None of the bytes p makes anything of an empty line.
Blank(p, m) == \A i \in 1 .. Len(p) : p[i] \notin {"text", "nul", "etx"} /\ (p[i] = "A" => m = 0)

Live == link.end = "up"
Who == link.who

\* The console has a connection only while it processes.
LinkInProcess == state # "process" => link = NoConn

\* NoConnectionForgotten, without the set: a client that is greeted has the connection
\* that is served, one that has dialled has a place in the backlog, and none has two.
Known(c) ==
    /\ stage[c] = "away" => \A k \in DOMAIN backlog : ~IsLive(c, backlog[k])
    /\ stage[c] = "dialled" => \E k \in DOMAIN backlog : IsLive(c, backlog[k])
    /\ stage[c] \in {"away", "dialled"} <=> ~IsLive(c, link)
    /\ \A j, k \in DOMAIN backlog : IsLive(c, backlog[j]) /\ IsLive(c, backlog[k]) => j = k
    /\ IsLive(c, link) => \A k \in DOMAIN backlog : ~IsLive(c, backlog[k])

Sound == TypeOK /\ LinkInProcess /\ \A c \in Client : Known(c)

\* Nothing of a line is under way: there is no client, or it has not begun one.
Nothing == ~Live \/ (typed[Who] = 0 /\ stage[Who] # "waiting")

\* Where all clients are orderly: what is still to be treated brings the editor to where
\* its client believes it to be, with the line the client has in mind; without a line
\* it leaves the line empty, which is what the next connection finds; and the end of
\* a line is the last byte, so no answer is ever written over bytes.
Tidy ==
    /\ ~strange
    /\ \A k \in DOMAIN backlog : backlog[k].inbox = <<>>
    /\ \A c \in Client : stage[c] \in {"away", "dialled"} => typed[c] = 0
    /\ Len(link.inbox) <= RawSize
    /\ Follows(editor, Stream)
    /\ Live => EndState(editor, Stream) \in Expects(stage[Who])
    /\ Live => Grows(lineLen, Stream, lastCmdLen, typed[Who])
    /\ Nothing => lineLen = 0 /\ Blank(Stream, lastCmdLen)
    /\ \A i \in 1 .. Len(Stream) :
          Stream[i] \in {"nul", "etx"} => i = Len(Stream) /\ Live /\ stage[Who] = "waiting"

IInv == Sound /\ (orderly => Tidy)

-----------------------------------------------------------------------------
\* The sequences of bytes.

LEMMA ByteSeqs ==
    /\ <<>> \in Seq(Byte) /\ Len(<<>>) = 0
    /\ \A p \in Seq(Byte) : /\ Len(p) \in Nat /\ DOMAIN p = 1 .. Len(p)
                            /\ p = <<>> <=> Len(p) = 0
  BY EmptySeq, LenProperties

LEMMA Zero == 0 \in 0 .. (LineSize - 1) /\ 0 \in 0 .. LineSize
  BY TelnetAssumption

LEMMA StreamTail ==
    ASSUME NEW p \in Seq(Byte), NEW q \in Seq(Byte), p # <<>>
    PROVE  /\ p \o q \in Seq(Byte) /\ Len(p \o q) \in Nat \ {0}
           /\ (p \o q)[1] = Head(p)
           /\ Tail(p) \o q = Tail(p \o q)
<1>1. p \o q \in Seq(Byte) /\ Len(p \o q) = Len(p) + Len(q)
      /\ \A i \in 1 .. Len(p) + Len(q) : (p \o q)[i] = IF i <= Len(p) THEN p[i] ELSE q[i - Len(p)]
  BY ConcatProperties
<1>2. /\ Len(p) \in Nat \ {0} /\ Len(q) \in Nat
      /\ Tail(p) \in Seq(Byte) /\ Len(Tail(p)) = Len(p) - 1 /\ Head(p) = p[1]
      /\ \A i \in 1 .. Len(Tail(p)) : Tail(p)[i] = p[i + 1]
  BY EmptySeq, LenProperties, HeadTailProperties
<1>3. /\ Tail(p \o q) \in Seq(Byte) /\ Len(Tail(p \o q)) = Len(p) + Len(q) - 1
      /\ \A i \in 1 .. Len(p) + Len(q) - 1 : Tail(p \o q)[i] = (p \o q)[i + 1]
  <2>1. p \o q # <<>>
    BY <1>1, <1>2, EmptySeq
  <2> QED BY <1>1, <1>2, <2>1, HeadTailProperties
<1>4. /\ Tail(p) \o q \in Seq(Byte) /\ Len(Tail(p) \o q) = Len(p) + Len(q) - 1
      /\ \A i \in 1 .. Len(p) + Len(q) - 1 :
            (Tail(p) \o q)[i] = IF i <= Len(p) - 1 THEN Tail(p)[i] ELSE q[i - (Len(p) - 1)]
  BY <1>2, ConcatProperties
<1>5. ASSUME NEW i \in 1 .. Len(p) + Len(q) - 1
      PROVE  (Tail(p) \o q)[i] = Tail(p \o q)[i]
  <2>1. i + 1 \in 1 .. Len(p) + Len(q) /\ Tail(p \o q)[i] = (p \o q)[i + 1]
    BY <1>2, <1>3
  <2>2. CASE i <= Len(p) - 1
    BY <1>1, <1>2, <1>4, <2>1, <2>2
  <2>3. CASE ~(i <= Len(p) - 1)
    BY <1>1, <1>2, <1>4, <2>1, <2>3
  <2> QED BY <2>2, <2>3
<1>6. Tail(p) \o q = Tail(p \o q)
  BY <1>3, <1>4, <1>5, SeqEqual
<1> QED BY <1>1, <1>2, <1>6

\* The rest of a stream.
LEMMA TailFacts ==
    ASSUME NEW p \in Seq(Byte), p # <<>>
    PROVE  /\ Tail(p) \in Seq(Byte) /\ Len(Tail(p)) = Len(p) - 1
           /\ Len(p) \in Nat \ {0}
           /\ \A i \in 1 .. Len(p) - 1 : Tail(p)[i] = p[i + 1]
           /\ p[1] \in Byte
<1>1. Len(p) \in Nat \ {0}
  BY EmptySeq
<1> QED BY <1>1, HeadTailProperties, ElementOfSeq

LEMMA FollowsTail ==
    ASSUME NEW p \in Seq(Byte), p # <<>>, NEW e, Follows(e, p)
    PROVE  /\ p[1] \in Allowed(e)
           /\ Follows(After(p[1]), Tail(p))
           /\ EndState(After(p[1]), Tail(p)) = EndState(e, p)
<1>1. p[1] \in Allowed(e)
  BY TailFacts DEF Follows
<1>2. ASSUME NEW i \in 1 .. Len(Tail(p))
      PROVE  Tail(p)[i] \in Allowed(IF i = 1 THEN After(p[1]) ELSE After(Tail(p)[i - 1]))
  <2>1. i + 1 \in 1 .. Len(p) /\ i + 1 # 1 /\ (i + 1) - 1 = i /\ Tail(p)[i] = p[i + 1]
    BY TailFacts
  <2>2. p[i + 1] \in Allowed(After(p[i]))
    BY <2>1 DEF Follows
  <2>3. i # 1 => Tail(p)[i - 1] = p[i]
    BY TailFacts
  <2> QED BY <2>1, <2>2, <2>3
<1>3. CASE Len(p) = 1
  <2> DEFINE t == Tail(p)
  <2>1. t \in Seq(Byte) /\ Len(t) = 0
    BY <1>3, TailFacts
  <2> HIDE DEF t
  <2>2. t = <<>>
    BY <2>1, ByteSeqs
  <2> QED BY <1>1, <1>2, <1>3, <2>2 DEF Follows, EndState, t
<1>4. CASE Len(p) # 1
  <2> DEFINE t == Tail(p)
  <2>1. /\ t \in Seq(Byte) /\ Len(t) = Len(p) - 1 /\ Len(p) \in Nat \ {0}
        /\ \A i \in 1 .. Len(p) - 1 : t[i] = p[i + 1]
    BY TailFacts
  <2> HIDE DEF t
  <2>2. t[Len(t)] = p[Len(p)]
    <3>1. Len(p) - 1 \in 1 .. Len(p) - 1 /\ (Len(p) - 1) + 1 = Len(p)
      BY <1>4, <2>1
    <3> QED BY <2>1, <3>1, Zenon
  <2>3. Len(t) # 0
    BY <1>4, <2>1
  <2>4. t # <<>>
    BY <2>3, ByteSeqs, Zenon
  <2> QED BY <1>1, <1>2, <2>2, <2>4 DEF Follows, EndState, t
<1> QED BY <1>3, <1>4

LEMMA GrowsTail ==
    ASSUME NEW p \in Seq(Byte), p # <<>>, NEW n, NEW m, NEW k, Grows(n, p, m, k)
    PROVE  /\ n \in 0 .. (LineSize - 1)
           /\ Longer(n, p[1], m) \in 0 .. (LineSize - 1)
           /\ Grows(Longer(n, p[1], m), Tail(p), m, k)
<1>1. PICK L \in [0 .. Len(p) -> 0 .. (LineSize - 1)] :
         /\ L[0] = n
         /\ \A i \in 1 .. Len(p) : L[i] = Longer(L[i - 1], p[i], m)
         /\ L[Len(p)] = k
  BY DEF Grows
<1>2. Len(p) \in Nat \ {0} /\ Len(Tail(p)) = Len(p) - 1
      /\ \A i \in 1 .. Len(p) - 1 : Tail(p)[i] = p[i + 1]
  BY TailFacts
<1>3. L[0] \in 0 .. (LineSize - 1) /\ L[1] \in 0 .. (LineSize - 1) /\ L[1] = Longer(L[1 - 1], p[1], m)
  BY <1>1, <1>2
<1>4. L[1] = Longer(n, p[1], m)
  BY <1>1, <1>3
<1> DEFINE M == [i \in 0 .. Len(Tail(p)) |-> L[i + 1]]
<1>5. M \in [0 .. Len(Tail(p)) -> 0 .. (LineSize - 1)]
  BY <1>1, <1>2
<1>6. M[0] = L[1] /\ M[Len(Tail(p))] = k
  BY <1>1, <1>2
<1>7. ASSUME NEW i \in 1 .. Len(Tail(p))
      PROVE  M[i] = Longer(M[i - 1], Tail(p)[i], m)
  <2>1. M[i] = L[i + 1] /\ M[i - 1] = L[i] /\ Tail(p)[i] = p[i + 1]
    BY <1>2
  <2>2. i + 1 \in 1 .. Len(p) /\ (i + 1) - 1 = i
    BY <1>2
  <2>3. L[i + 1] = Longer(L[(i + 1) - 1], p[i + 1], m)
    BY <1>1, <2>2
  <2> QED BY <2>1, <2>2, <2>3
<1> HIDE DEF M
<1>8. Grows(L[1], Tail(p), m, k)
  BY <1>5, <1>6, <1>7 DEF Grows
<1> QED BY <1>1, <1>3, <1>4, <1>8

\* What a client adds to a stream.
LEMMA FollowsConcat ==
    ASSUME NEW p \in Seq(Byte), NEW q \in Seq(Byte), q # <<>>, NEW e, NEW f,
           Follows(e, p), EndState(e, p) = f, Follows(f, q)
    PROVE  /\ Follows(e, p \o q)
           /\ EndState(e, p \o q) = EndState(f, q)
<1>1. /\ p \o q \in Seq(Byte) /\ Len(p \o q) = Len(p) + Len(q)
      /\ Len(p) \in Nat /\ Len(q) \in Nat \ {0}
      /\ \A i \in 1 .. Len(p) : (p \o q)[i] = p[i]
      /\ \A i \in 1 .. Len(q) : (p \o q)[Len(p) + i] = q[i]
  BY ConcatProperties, EmptySeq, LenProperties
<1>2. ASSUME NEW i \in 1 .. Len(p \o q)
      PROVE  (p \o q)[i] \in Allowed(IF i = 1 THEN e ELSE After((p \o q)[i - 1]))
  <2>1. CASE i <= Len(p)
    <3>1. p[i] \in Allowed(IF i = 1 THEN e ELSE After(p[i - 1])) /\ (p \o q)[i] = p[i]
      BY <1>1, <2>1 DEF Follows
    <3>2. i # 1 => (p \o q)[i - 1] = p[i - 1]
      BY <1>1, <2>1
    <3> QED BY <3>1, <3>2
  <2>2. CASE i = Len(p) + 1
    <3>1. (p \o q)[i] = q[1] /\ q[1] \in Allowed(f)
      BY <1>1, <2>2 DEF Follows
    <3>2. CASE p = <<>>
      BY <1>1, <2>2, <3>1, <3>2, EmptySeq DEF EndState
    <3>3. CASE p # <<>>
      <4>1. Len(p) # 0 /\ i # 1 /\ i - 1 = Len(p) /\ (p \o q)[i - 1] = p[Len(p)]
        BY <1>1, <2>2, <3>3, EmptySeq
      <4> QED BY <3>1, <3>3, <4>1 DEF EndState
    <3> QED BY <3>2, <3>3
  <2>3. CASE i > Len(p) + 1
    <3> DEFINE j == i - Len(p)
    <3>1. j \in 1 .. Len(q) /\ j - 1 \in 1 .. Len(q) /\ i = Len(p) + j /\ i - 1 = Len(p) + (j - 1)
          /\ i # 1 /\ j # 1
      BY <1>1, <2>3
    <3> HIDE DEF j
    <3>2. (p \o q)[i] = q[j] /\ (p \o q)[i - 1] = q[j - 1]
      BY <1>1, <3>1
    <3>3. q[j] \in Allowed(After(q[j - 1]))
      BY <3>1 DEF Follows
    <3> QED BY <3>1, <3>2, <3>3
  <2> QED BY <1>1, <2>1, <2>2, <2>3
<1>3. p \o q # <<>> /\ (p \o q)[Len(p \o q)] = q[Len(q)]
  BY <1>1, EmptySeq
<1> QED BY <1>2, <1>3 DEF Follows, EndState

LEMMA GrowsConcat ==
    ASSUME NEW p \in Seq(Byte), NEW q \in Seq(Byte), NEW n, NEW m, NEW j, NEW k,
           Grows(n, p, m, j), Grows(j, q, m, k)
    PROVE  Grows(n, p \o q, m, k)
<1>1. PICK K \in [0 .. Len(p) -> 0 .. (LineSize - 1)] :
         /\ K[0] = n
         /\ \A i \in 1 .. Len(p) : K[i] = Longer(K[i - 1], p[i], m)
         /\ K[Len(p)] = j
  BY DEF Grows
<1>2. PICK L \in [0 .. Len(q) -> 0 .. (LineSize - 1)] :
         /\ L[0] = j
         /\ \A i \in 1 .. Len(q) : L[i] = Longer(L[i - 1], q[i], m)
         /\ L[Len(q)] = k
  BY DEF Grows
<1>3. /\ Len(p \o q) = Len(p) + Len(q) /\ Len(p) \in Nat /\ Len(q) \in Nat
      /\ \A i \in 1 .. Len(p) : (p \o q)[i] = p[i]
      /\ \A i \in 1 .. Len(q) : (p \o q)[Len(p) + i] = q[i]
  BY ConcatProperties, LenProperties
<1> DEFINE M == [i \in 0 .. Len(p \o q) |-> IF i <= Len(p) THEN K[i] ELSE L[i - Len(p)]]
<1>4. M \in [0 .. Len(p \o q) -> 0 .. (LineSize - 1)]
  BY <1>1, <1>2, <1>3
<1>5. /\ \A i \in 0 .. Len(p) : M[i] = K[i]
      /\ \A i \in 0 .. Len(q) : M[Len(p) + i] = L[i]
  <2>1. \A i \in 0 .. Len(p) : M[i] = K[i]
    BY <1>3
  <2>2. ASSUME NEW i \in 0 .. Len(q) PROVE M[Len(p) + i] = L[i]
    <3>1. CASE i = 0
      BY <1>1, <1>2, <1>3, <3>1
    <3>2. CASE i # 0
      <4>1. ~(Len(p) + i <= Len(p)) /\ (Len(p) + i) - Len(p) = i /\ Len(p) + i \in 0 .. Len(p \o q)
        BY <1>3, <3>2
      <4> QED BY <4>1
    <3> QED BY <3>1, <3>2
  <2> QED BY <2>1, <2>2
<1> HIDE DEF M
<1>6. M[0] = n /\ M[Len(p \o q)] = k
  BY <1>1, <1>2, <1>3, <1>5
<1>7. ASSUME NEW i \in 1 .. Len(p \o q)
      PROVE  M[i] = Longer(M[i - 1], (p \o q)[i], m)
  <2>1. CASE i <= Len(p)
    BY <1>1, <1>3, <1>5, <2>1
  <2>2. CASE i > Len(p)
    <3>1. PICK h \in 1 .. Len(q) : i = Len(p) + h
      <4>1. i - Len(p) \in 1 .. Len(q) /\ i = Len(p) + (i - Len(p))
        BY <1>3, <2>2
      <4> QED BY <4>1
    <3>2. h \in 0 .. Len(q) /\ h - 1 \in 0 .. Len(q) /\ i - 1 = Len(p) + (h - 1)
      BY <1>3, <3>1
    <3>3. M[i] = L[h] /\ M[i - 1] = L[h - 1] /\ (p \o q)[i] = q[h]
      BY <1>3, <1>5, <3>1, <3>2
    <3> QED BY <1>2, <3>3
  <2> QED BY <1>3, <2>1, <2>2
<1> QED BY <1>4, <1>6, <1>7 DEF Grows

LEMMA GrowsNothing == \A n \in 0 .. (LineSize - 1) : \A m : Grows(n, <<>>, m, n)
<1> SUFFICES ASSUME NEW n \in 0 .. (LineSize - 1), NEW m PROVE Grows(n, <<>>, m, n)
  OBVIOUS
<1> DEFINE L == [i \in 0 .. 0 |-> n]
<1>1. L \in [0 .. 0 -> 0 .. (LineSize - 1)] /\ L[0] = n
  OBVIOUS
<1>2. Len(<<>>) = 0
  BY EmptySeq
<1> HIDE DEF L
<1> QED BY <1>1, <1>2 DEF Grows
-----------------------------------------------------------------------------
\* Types, and who is connected.

LEMMA ConnFacts ==
    ASSUME NEW x \in Conn \cup {NoConn}
    PROVE  /\ x.inbox \in Seq(Byte) /\ Len(x.inbox) \in Nat
           /\ x.inbox # <<>> => x \in Conn
           /\ x.end = "up" => x \in Conn
           /\ x \in Conn => x = [who |-> x.who, end |-> x.end, inbox |-> x.inbox] /\ x.who \in Client
                            /\ x.end \in {"up", "fin"}
           /\ x.end = "up" <=> \E c \in Client : IsLive(c, x)
           /\ \A c, d \in Client : IsLive(c, x) /\ IsLive(d, x) => c = d
<1>1. <<>> \in Seq(Byte)
  BY EmptySeq
<1>2. NoConn.inbox = <<>> /\ NoConn.end = "none" /\ NoConn.who = NoClient
  BY DEF NoConn
<1>3. x \in Conn => x = [who |-> x.who, end |-> x.end, inbox |-> x.inbox] /\ x.who \in Client
                    /\ x.end \in {"up", "fin"} /\ x.inbox \in Seq(Byte)
  BY DEF Conn
<1> QED BY <1>1, <1>2, <1>3, LenProperties DEF IsLive

\* The end of a client's connection, wherever it is.
LEMMA EndedFacts ==
    ASSUME NEW x \in Conn \cup {NoConn}, NEW c \in Client
    PROVE  /\ Ended(c, x) \in {x} \cup Conn
           /\ x \in Conn => Ended(c, x) \in Conn
           /\ Ended(c, x).inbox = x.inbox /\ Ended(c, x).who = x.who
           /\ \A d \in Client : IsLive(d, Ended(c, x)) <=> IsLive(d, x) /\ d # c
           /\ ~IsLive(c, x) => Ended(c, x) = x
<1>1. CASE ~IsLive(c, x)
  BY <1>1 DEF Ended, IsLive
<1>2. CASE IsLive(c, x)
  <2>1. x \in Conn /\ x = [who |-> x.who, end |-> x.end, inbox |-> x.inbox]
        /\ x.inbox \in Seq(Byte) /\ x.who = c
    BY <1>2, ConnFacts DEF IsLive
  <2>2. [x EXCEPT !.end = "fin"] = [who |-> c, end |-> "fin", inbox |-> x.inbox]
    BY <2>1
  <2>3. Ended(c, x) = [who |-> c, end |-> "fin", inbox |-> x.inbox]
    BY <1>2, <2>2 DEF Ended
  <2> QED BY <1>2, <2>1, <2>3 DEF Conn, IsLive
<1> QED BY <1>1, <1>2

\* Those who are connected stay so, if no connection begins or ends.
LEMMA SameConns ==
    ASSUME Sound, UNCHANGED backlog,
           \A c \in Client : IsLive(c, link') <=> IsLive(c, link),
           \A c \in Client : \/ stage'[c] = stage[c]
                             \/ /\ stage[c] \notin {"away", "dialled"}
                                /\ stage'[c] \notin {"away", "dialled"}
    PROVE  \A c \in Client : Known(c)'
<1> SUFFICES ASSUME NEW c \in Client PROVE Known(c)'
  OBVIOUS
<1>1. Known(c)
  BY DEF Sound
<1> QED BY <1>1 DEF Known

\* link->close().
LEMMA CloseConns ==
    ASSUME Sound, Close, UNCHANGED backlog
    PROVE  /\ link' = NoConn
           /\ stage' \in [Client -> Stage]
           /\ typed' \in [Client -> 0 .. (LineSize - 1)]
           /\ \A c \in Client : Known(c)'
<1>1. link' = NoConn /\ \A c \in Client : ~IsLive(c, link')
  BY DEF Close, NoConn, IsLive
<1>2. CASE link.end # "up"
  <2>1. UNCHANGED <<stage, typed>> /\ \A c \in Client : ~IsLive(c, link)
    BY <1>2 DEF Close, IsLive
  <2> QED BY <1>1, <2>1, SameConns DEF Sound, TypeOK
<1>3. CASE link.end = "up"
  <2> DEFINE w == link.who
  <2>1. w \in Client /\ IsLive(w, link) /\ \A c \in Client \ {w} : ~IsLive(c, link)
    BY <1>3, ConnFacts DEF Sound, TypeOK, IsLive
  <2>2. stage' = [stage EXCEPT ![w] = "away"] /\ typed' = [typed EXCEPT ![w] = 0]
    BY <1>3 DEF Close, SentAway
  <2>3. /\ stage' \in [Client -> Stage]
        /\ stage'[w] = "away" /\ \A c \in Client \ {w} : stage'[c] = stage[c]
    BY <2>1, <2>2 DEF Sound, TypeOK, Stage
  <2>4. typed' \in [Client -> 0 .. (LineSize - 1)]
    BY <2>1, <2>2, Zero DEF Sound, TypeOK
  <2> HIDE DEF w
  <2>5. ASSUME NEW c \in Client PROVE Known(c)'
    <3>1. Known(c)
      BY DEF Sound
    <3>2. CASE c = w
      BY <1>1, <2>1, <2>3, <3>1, <3>2 DEF Known
    <3>3. CASE c # w
      BY <1>1, <2>1, <2>3, <3>1, <3>3 DEF Known
    <3> QED BY <3>2, <3>3
  <2> QED BY <1>1, <2>3, <2>4, <2>5
<1> QED BY <1>2, <1>3

\* Who has an open connection at the console knows that it is greeted.
LEMMA LiveIsGreeted ==
    ASSUME Sound, link.end = "up"
    PROVE  link \in Conn /\ link.who \in Client /\ IsLive(link.who, link)
           /\ stage[link.who] \in {"ready", "sizing", "sized", "waiting"}
<1>1. link \in Conn /\ link.who \in Client /\ IsLive(link.who, link)
  BY ConnFacts DEF Sound, TypeOK, IsLive
<1>2. stage[link.who] \notin {"away", "dialled"}
  BY <1>1 DEF Sound, Known
<1> QED BY <1>1, <1>2 DEF Sound, TypeOK, Stage

\* A write with the prompt.
LEMMA PromptConns ==
    ASSUME Sound, Prompt, UNCHANGED backlog
    PROVE  /\ link' \in {link, NoConn} /\ (link.end = "up" => link' = link)
           /\ stage' \in [Client -> Stage]
           /\ typed' \in [Client -> 0 .. (LineSize - 1)]
           /\ \A c \in Client : Known(c)'
<1>1. CASE link.end = "up"
  <2> DEFINE w == link.who
  <2>1. w \in Client /\ stage[w] \in {"ready", "sizing", "sized", "waiting"}
    BY <1>1, LiveIsGreeted
  <2>2. stage' = [stage EXCEPT ![w] = "ready"] /\ typed' = [typed EXCEPT ![w] = 0] /\ link' = link
    BY <1>1 DEF Prompt
  <2>3. /\ stage' \in [Client -> Stage]
        /\ stage'[w] = "ready" /\ \A c \in Client \ {w} : stage'[c] = stage[c]
    BY <2>1, <2>2 DEF Sound, TypeOK, Stage
  <2>4. typed' \in [Client -> 0 .. (LineSize - 1)]
    BY <2>1, <2>2, Zero DEF Sound, TypeOK
  <2> HIDE DEF w
  <2>5. \A c \in Client : Known(c)'
    BY <2>1, <2>2, <2>3, SameConns
  <2> QED BY <2>2, <2>3, <2>4, <2>5
<1>2. CASE link.end # "up"
  <2>1. UNCHANGED <<stage, typed>> /\ link' \in {link, NoConn}
    BY <1>2 DEF Prompt
  <2>2. \A c \in Client : IsLive(c, link') <=> IsLive(c, link)
    BY <1>2, <2>1 DEF IsLive, NoConn
  <2> QED BY <1>2, <2>1, <2>2, SameConns DEF Sound, TypeOK
<1> QED BY <1>1, <1>2
\* The connections that wait, when the first of them has gone.
LEMMA BacklogTail ==
    ASSUME TypeOK, backlog # <<>>
    PROVE  /\ Head(backlog) = backlog[1] /\ Head(backlog) \in Conn
           /\ Tail(backlog) \in Seq(Conn)
           /\ DOMAIN backlog = 1 .. Len(backlog) /\ Len(backlog) \in Nat \ {0}
           /\ DOMAIN Tail(backlog) = 1 .. (Len(backlog) - 1)
           /\ \A k \in DOMAIN Tail(backlog) : Tail(backlog)[k] = backlog[k + 1]
<1>1. backlog \in Seq(Conn) /\ Len(backlog) \in Nat \ {0}
  BY EmptySeq DEF TypeOK
<1>2. Tail(backlog) \in Seq(Conn) /\ Len(Tail(backlog)) = Len(backlog) - 1
      /\ Head(backlog) = backlog[1]
      /\ \A k \in 1 .. Len(Tail(backlog)) : Tail(backlog)[k] = backlog[k + 1]
  BY <1>1, HeadTailProperties DEF TypeOK
<1> QED BY <1>1, <1>2, LenProperties, ElementOfSeq

LEMMA SoundInit == Init => Sound
<1> SUFFICES ASSUME Init PROVE Sound
  OBVIOUS
<1>1. <<>> \in Seq(Byte) /\ <<>> \in Seq(Conn) /\ Len(<<>>) = 0 /\ DOMAIN <<>> = {}
  BY EmptySeq
<1>2. TypeOK
  <2>1. /\ stage \in [Client -> Stage]
        /\ typed \in [Client -> 0 .. (LineSize - 1)]
    BY Zero DEF Init, Stage
  <2>2. Len(raw) <= RawSize
    BY <1>1, TelnetAssumption DEF Init
  <2> QED BY <1>1, <2>1, <2>2, Zero DEF Init, TypeOK
<1>3. \A c \in Client : Known(c)
  BY <1>1, TelnetAssumption DEF Init, Known, IsLive, NoConn
<1> QED BY <1>2, <1>3 DEF Sound, LinkInProcess, Init

LEMMA SoundAccept == ASSUME Sound, Accept, UNCHANGED <<down, orderly>> PROVE Sound'
<1>1. link = NoConn /\ \A c \in Client : ~IsLive(c, link)
  BY DEF Accept, Sound, LinkInProcess, NoConn, IsLive
<1>2. CASE UNCHANGED <<state, link, backlog, editor, lineLen, strange, stage>>
  <2>1. TypeOK' /\ LinkInProcess'
    BY <1>2 DEF Accept, Sound, TypeOK, LinkInProcess
  <2> QED BY <1>2, <2>1, SameConns DEF Sound
<1>3. CASE /\ backlog # <<>> /\ Head(backlog).end = "fin"
           /\ backlog' = Tail(backlog)
           /\ UNCHANGED <<state, link, editor, lineLen, strange, stage>>
  <2>1. TypeOK' /\ LinkInProcess'
    BY <1>3, BacklogTail DEF Accept, Sound, TypeOK, LinkInProcess
  <2>2. ASSUME NEW c \in Client PROVE Known(c)'
    <3>1. Known(c) /\ ~IsLive(c, backlog[1])
      BY <1>3, BacklogTail DEF Sound, IsLive
    <3>2. \A k \in DOMAIN backlog' : k + 1 \in DOMAIN backlog /\ backlog'[k] = backlog[k + 1]
      BY <1>3, BacklogTail DEF Sound
    <3>3. \A k \in DOMAIN backlog : k # 1 => k - 1 \in DOMAIN backlog' /\ backlog'[k - 1] = backlog[k]
      BY <1>3, BacklogTail DEF Sound
    <3>4. \A j, k \in DOMAIN backlog' : j \in Int /\ k \in Int
      BY <1>3, BacklogTail DEF Sound
    <3> QED BY <1>3, <3>1, <3>2, <3>3, <3>4 DEF Known
  <2> QED BY <2>1, <2>2 DEF Sound
<1>4. CASE /\ backlog # <<>>
           /\ backlog' = Tail(backlog)
           /\ Greet(Head(backlog))
           /\ stage' = IF Head(backlog).end = "up"
                       THEN [stage EXCEPT ![Head(backlog).who] = "ready"] ELSE stage
  <2> DEFINE h == Head(backlog)
  <2>1. h \in Conn /\ h.who \in Client /\ link' = h /\ state' = "process" /\ h = backlog[1]
    BY <1>4, BacklogTail DEF Sound, Greet, Conn
  <2>2. /\ stage' \in [Client -> Stage]
        /\ \A c \in Client : stage'[c] = IF IsLive(c, h) THEN "ready" ELSE stage[c]
    BY <1>4, <2>1 DEF Sound, TypeOK, Stage, IsLive
  <2> HIDE DEF h
  <2>3. TypeOK' /\ LinkInProcess'
    BY <1>4, <2>1, <2>2, BacklogTail DEF Accept, Greet, Sound, TypeOK, LinkInProcess
  <2>4. ASSUME NEW c \in Client PROVE Known(c)'
    <3>1. Known(c) /\ stage[c] \in {"away", "dialled"}
      BY <1>1 DEF Sound, Known
    <3>2. \A k \in DOMAIN backlog' : k + 1 \in DOMAIN backlog /\ backlog'[k] = backlog[k + 1]
      BY <1>4, BacklogTail DEF Sound
    <3>3. \A k \in DOMAIN backlog : k # 1 => k - 1 \in DOMAIN backlog' /\ backlog'[k - 1] = backlog[k]
      BY <1>4, BacklogTail DEF Sound
    <3>4. /\ \A k \in DOMAIN backlog' : k \in Int /\ k + 1 # 1
          /\ 1 \in DOMAIN backlog
      BY <1>4, BacklogTail DEF Sound
    <3>5. CASE IsLive(c, h)
      <4>1. stage'[c] = "ready" /\ IsLive(c, link') /\ IsLive(c, backlog[1])
        BY <2>1, <2>2, <3>5
      <4>2. \A k \in DOMAIN backlog' : ~IsLive(c, backlog'[k])
        BY <3>1, <3>2, <3>4, <4>1 DEF Known
      <4> QED BY <4>1, <4>2 DEF Known
    <3>6. CASE ~IsLive(c, h)
      <4>1. stage'[c] = stage[c] /\ ~IsLive(c, link') /\ ~IsLive(c, backlog[1])
        BY <2>1, <2>2, <3>6
      <4> QED BY <3>1, <3>2, <3>3, <3>4, <4>1 DEF Known
    <3> QED BY <3>5, <3>6
  <2> QED BY <2>3, <2>4 DEF Sound
<1> QED BY <1>2, <1>3, <1>4 DEF Accept

LEMMA SoundReset ==
    ASSUME Sound, Reset, UNCHANGED <<backlog, editor, down, orderly>>,
           raw' \in Seq(Byte), Len(raw') <= RawSize, lineLen' \in 0 .. LineSize,
           strange' \in BOOLEAN, lastCmdLen' \in 0 .. (LineSize - 1)
    PROVE  Sound'
<1>1. state' = "error" /\ Close
  BY DEF Reset
<1> QED BY <1>1, CloseConns DEF Sound, TypeOK, LinkInProcess

\* What receive takes from a connection.
LEMMA ReadFacts ==
    ASSUME Sound, NEW n \in 1 .. Len(link.inbox),
           raw' = IF n <= RawSize THEN SubSeq(link.inbox, 1, n) ELSE <<>>,
           link' = [link EXCEPT !.inbox = SubSeq(@, n + 1, Len(@))]
    PROVE  /\ link' \in Conn /\ link'.who = link.who /\ link'.end = link.end
           /\ link'.inbox = SubSeq(link.inbox, n + 1, Len(link.inbox))
           /\ link'.inbox \in Seq(Byte) /\ Len(link'.inbox) = Len(link.inbox) - n
           /\ raw' \in Seq(Byte) /\ Len(raw') <= RawSize
<1>1. link.inbox \in Seq(Byte) /\ Len(link.inbox) \in Nat /\ link.inbox # <<>>
  BY ConnFacts, EmptySeq DEF Sound, TypeOK
<1>2. link \in Conn /\ link = [who |-> link.who, end |-> link.end, inbox |-> link.inbox]
      /\ link.who \in Client /\ link.end \in {"up", "fin"}
  BY <1>1, ConnFacts DEF Sound, TypeOK
<1>3. link' = [who |-> link.who, end |-> link.end,
               inbox |-> SubSeq(link.inbox, n + 1, Len(link.inbox))]
  BY <1>2
<1>4. /\ SubSeq(link.inbox, n + 1, Len(link.inbox)) \in Seq(Byte)
      /\ Len(SubSeq(link.inbox, n + 1, Len(link.inbox))) = Len(link.inbox) - n
  BY <1>1, SubSeqProperties
<1>5. SubSeq(link.inbox, 1, n) \in Seq(Byte) /\ Len(SubSeq(link.inbox, 1, n)) = n
  BY <1>1, SubSeqProperties
<1>6. raw' \in Seq(Byte) /\ Len(raw') <= RawSize
  BY <1>5, TelnetAssumption, EmptySeq
<1>7. link' \in Conn
  BY <1>2, <1>3, <1>4 DEF Conn
<1> QED BY <1>3, <1>4, <1>6, <1>7

LEMMA SoundServerTick == ASSUME Sound, ServerTick PROVE Sound'
<1>1. CASE LeaveInit \/ Error
  <2>1. /\ UNCHANGED <<link, backlog, editorVars, stage, typed, down, orderly>>
        /\ state # "process" /\ state' \in {"init", "accept"}
    BY <1>1 DEF LeaveInit, Error, ServerTick
  <2>2. TypeOK' /\ LinkInProcess'
    BY <2>1 DEF Sound, TypeOK, LinkInProcess, editorVars
  <2> QED BY <2>1, <2>2, SameConns DEF Sound
<1>2. CASE Accept
  BY <1>2, SoundAccept DEF ServerTick
<1>3. CASE Receive
  <2>1. state = "process" /\ UNCHANGED <<backlog, editor, lineLen, strange, lastCmdLen, down, orderly>>
    BY <1>3 DEF Receive, ServerTick
  <2>2. CASE \E n \in 1 .. Len(link.inbox) :
                /\ raw' = IF n <= RawSize THEN SubSeq(link.inbox, 1, n) ELSE <<>>
                /\ n <= RawSize + 1
                /\ link' = [link EXCEPT !.inbox = SubSeq(@, n + 1, Len(@))]
                /\ UNCHANGED <<state, stage, typed>>
    <3>1. /\ link' \in Conn /\ raw' \in Seq(Byte) /\ Len(raw') <= RawSize
          /\ UNCHANGED <<state, stage, typed>> /\ link'.who = link.who /\ link'.end = link.end
      BY <2>2, ReadFacts
    <3>2. TypeOK' /\ LinkInProcess'
      BY <2>1, <3>1 DEF Sound, TypeOK, LinkInProcess
    <3>3. \A c \in Client : Known(c)'
      BY <2>1, <3>1, SameConns DEF IsLive
    <3> QED BY <3>2, <3>3 DEF Sound
  <2>3. CASE UNCHANGED <<state, link, raw, stage, typed>>
    <3>1. TypeOK' /\ LinkInProcess'
      BY <2>1, <2>3 DEF Sound, TypeOK, LinkInProcess
    <3> QED BY <2>1, <2>3, <3>1, SameConns DEF Sound
  <2>4. CASE Reset /\ UNCHANGED raw
    BY <2>1, <2>4, SoundReset DEF Sound, TypeOK
  <2> QED BY <1>3, <2>2, <2>3, <2>4 DEF Receive
<1> QED BY <1>1, <1>2, <1>3 DEF ServerTick
\* The three kinds of steps of the editor, as far as they concern the connections.
LEMMA TreatSteps ==
    ASSUME TypeOK, TreatByte
    PROVE  /\ raw' \in Seq(Byte) /\ Len(raw') <= RawSize
           /\ editor' \in {"readLine", "readCmd", "readCmdOption", "readCmdSubOption",
                           "readEsc", "readEscOption", "error"}
           /\ lineLen' \in 0 .. LineSize /\ strange' \in BOOLEAN
           /\ lastCmdLen' \in 0 .. (LineSize - 1) /\ down' \in BOOLEAN
           /\ UNCHANGED <<backlog, orderly>>
           /\ \/ UNCHANGED <<state, link, stage, typed>>
              \/ Prompt /\ UNCHANGED state
              \/ Reset /\ UNCHANGED <<editor, down>>
<1> DEFINE Bytes == raw' \in Seq(Byte) /\ Len(raw') <= RawSize
           Values == /\ editor' \in {"readLine", "readCmd", "readCmdOption", "readCmdSubOption",
                                     "readEsc", "readEscOption", "error"}
                     /\ lineLen' \in 0 .. LineSize /\ strange' \in BOOLEAN
                     /\ lastCmdLen' \in 0 .. (LineSize - 1) /\ down' \in BOOLEAN
           Kind == \/ UNCHANGED <<state, link, stage, typed>>
                   \/ Prompt /\ UNCHANGED state
                   \/ Reset /\ UNCHANGED <<editor, down>>
<1>1. /\ raw # <<>> /\ UNCHANGED <<backlog, orderly>>
      /\ Rest \in Seq(Byte) /\ Len(Rest) <= RawSize /\ Len(Rest) \in Nat /\ DOMAIN Rest = 1 .. Len(Rest)
      /\ \A k \in DOMAIN Rest : Rest[k] \in Byte
  <2>1. raw # <<>> /\ raw \in Seq(Byte) /\ Len(raw) <= RawSize
    BY DEF TreatByte, TypeOK
  <2>2. Rest \in Seq(Byte) /\ Len(Rest) = Len(raw) - 1 /\ Len(raw) \in Nat \ {0}
    BY <2>1, TailFacts DEF Rest
  <2> QED BY <2>1, <2>2, TelnetAssumption, LenProperties DEF TreatByte
<1>2. /\ raw' = Rest => Bytes
      /\ raw' = <<>> => Bytes
      /\ \A n : raw' = [k \in DOMAIN Rest |-> IF k <= n THEN "out" ELSE Rest[k]] => Bytes
  <2>1. ASSUME NEW n, raw' = [k \in DOMAIN Rest |-> IF k <= n THEN "out" ELSE Rest[k]]
        PROVE  Bytes
    <3>1. raw' \in [1 .. Len(Rest) -> Byte]
      BY <1>1, <2>1 DEF Byte
    <3>2. raw' \in Seq(Byte) /\ DOMAIN raw' = 1 .. Len(Rest)
      BY <1>1, <3>1, SeqDef
    <3>3. Len(raw') = Len(Rest)
      BY <1>1, <3>2, LenProperties
    <3> QED BY <1>1, <3>2, <3>3
  <2>2. Len(<<>>) <= RawSize /\ <<>> \in Seq(Byte)
    BY ByteSeqs, TelnetAssumption
  <2> QED BY <1>1, <2>1, <2>2, Zenon
<1>3. /\ editor \in {"readLine", "readCmd", "readCmdOption", "readCmdSubOption",
                     "readEsc", "readEscOption", "error"}
      /\ lineLen \in 0 .. LineSize /\ strange \in BOOLEAN
      /\ lastCmdLen \in 0 .. (LineSize - 1) /\ down \in BOOLEAN
      /\ lineLen + 1 \in 0 .. LineSize \/ ~HasRoom
      /\ lineLen \in 0 .. (LineSize - 1) \/ ~HasRoom
      /\ lastCmdLen \in 0 .. LineSize
  BY TelnetAssumption DEF TypeOK, HasRoom
<1>4. ASSUME NEW e \in {"readLine", "readCmd", "readCmdOption", "readCmdSubOption",
                        "readEsc", "readEscOption", "error"}, Becomes(e)
      PROVE  Bytes /\ Values /\ Kind
  <2>1. Bytes
    BY <1>2, <1>4, Zenon DEF Becomes
  <2>2. Values /\ UNCHANGED <<state, link, stage, typed>>
    BY <1>3, <1>4 DEF Becomes
  <2> QED BY <2>1, <2>2
<1>5. ASSUME Execute, UNCHANGED editor, HasRoom PROVE Bytes /\ Values /\ Kind
  <2>1. /\ lastCmdLen' = lineLen /\ lineLen' = 0 /\ strange' = FALSE /\ down' \in BOOLEAN
    BY <1>3, <1>5 DEF Execute
  <2>2. Values
    BY <1>3, <1>5, <2>1, Zero
  <2>3. Bytes
    BY <1>2, <1>5, Zenon DEF Execute
  <2>4. Kind
    BY <1>5, Zenon DEF Execute
  <2> QED BY <2>2, <2>3, <2>4
<1>6. CASE ReadLine
  <2>1. CASE \/ ~HasRoom /\ Becomes("error")
             \/ Becomes(editor)
    BY <1>1, <1>3, <1>4, <2>1, Zenon
  <2>2. CASE HasRoom /\ Execute /\ UNCHANGED editor
    BY <1>1, <1>5, <2>2, Zenon
  <2>3. CASE /\ lineLen' = 0
             /\ strange' = FALSE
             /\ raw' = Rest
             /\ Prompt
             /\ UNCHANGED <<state, editor, lastCmdLen, down>>
    <3>1. Values
      BY <1>3, <2>3, Zero
    <3>2. Bytes /\ Kind
      BY <1>2, <2>3, Zenon
    <3> QED BY <1>1, <3>1, <3>2
  <2>4. CASE /\ HasRoom
             /\ lineLen' = lineLen + 1
             /\ strange' = (strange \/ ch = "out")
             /\ raw' = Rest
             /\ UNCHANGED <<state, link, editor, lastCmdLen, down, stage, typed>>
    <3>1. strange' \in BOOLEAN
      BY <2>4, Zenon
    <3>2. Values
      BY <1>3, <2>4, <3>1
    <3>3. Bytes /\ Kind
      BY <1>2, <2>4, Zenon
    <3> QED BY <1>1, <3>2, <3>3
  <2> QED BY <1>6, <2>1, <2>2, <2>3, <2>4, Zenon DEF ReadLine
<1>7. CASE ReadEscOption
  <2>1. /\ (lineLen' = lastCmdLen /\ strange' = FALSE) \/ UNCHANGED <<lineLen, strange>>
        /\ editor' = "readLine" /\ raw' = Rest
        /\ UNCHANGED <<state, link, lastCmdLen, down, stage, typed>>
    BY <1>7 DEF ReadEscOption
  <2>2. Values
    BY <1>3, <2>1
  <2>3. Bytes /\ Kind
    BY <1>2, <2>1, Zenon
  <2> QED BY <1>1, <2>2, <2>3
<1>8. CASE EditorError
  <2>1. Values
    BY <1>3, <1>8 DEF EditorError
  <2>2. Bytes /\ Kind
    BY <1>2, <1>8, Zenon DEF EditorError
  <2> QED BY <1>1, <2>1, <2>2
<1>9. CASE ReadCmd
  <2>1. \E e \in {"readLine", "readCmdOption", "readCmdSubOption", "error"} : Becomes(e)
    BY <1>9, Zenon DEF ReadCmd
  <2> QED BY <1>1, <1>4, <2>1, Zenon
<1>10. CASE Iac \/ Esc \/ ReadCmdOption \/ ReadCmdSubOption \/ ReadEsc
  <2>1. \E e \in {"readLine", "readCmd", "readCmdOption", "readCmdSubOption",
                  "readEsc", "readEscOption", "error"} : Becomes(e)
    BY <1>3, <1>10, Zenon DEF Iac, Esc, ReadCmdOption, ReadCmdSubOption, ReadEsc
  <2> QED BY <1>1, <1>4, <2>1, Zenon
<1> QED BY <1>6, <1>7, <1>8, <1>9, <1>10 DEF TreatByte

LEMMA SoundTreatByte == ASSUME Sound, TreatByte PROVE Sound'
<1>1. /\ raw' \in Seq(Byte) /\ Len(raw') <= RawSize
      /\ editor' \in {"readLine", "readCmd", "readCmdOption", "readCmdSubOption",
                      "readEsc", "readEscOption", "error"}
      /\ lineLen' \in 0 .. LineSize /\ strange' \in BOOLEAN
      /\ lastCmdLen' \in 0 .. (LineSize - 1) /\ down' \in BOOLEAN
      /\ UNCHANGED <<backlog, orderly>>
  BY TreatSteps DEF Sound
<1>2. CASE UNCHANGED <<state, link, stage, typed>>
  <2>1. TypeOK' /\ LinkInProcess'
    BY <1>1, <1>2 DEF Sound, TypeOK, LinkInProcess
  <2> QED BY <1>1, <1>2, <2>1, SameConns DEF Sound
<1>3. CASE Prompt /\ UNCHANGED state
  BY <1>1, <1>3, PromptConns DEF Sound, TypeOK, LinkInProcess
<1>4. CASE Reset /\ UNCHANGED <<editor, down>>
  BY <1>1, <1>4, SoundReset
<1> QED BY <1>2, <1>3, <1>4, TreatSteps DEF Sound

LEMMA SoundDial == ASSUME Sound, NEW d \in Client, Dial(d) PROVE Sound'
<1> DEFINE new == [who |-> d, end |-> "up", inbox |-> <<>>]
<1>1. new \in Conn /\ \A c \in Client : IsLive(c, new) <=> c = d
  BY EmptySeq DEF Conn, IsLive
<1>2. /\ backlog' = Append(backlog, new) /\ stage[d] = "away"
      /\ stage' = [stage EXCEPT ![d] = "dialled"]
      /\ UNCHANGED <<state, link, editorVars, down, typed, orderly>>
  BY DEF Dial
<1> HIDE DEF new
<1>3. /\ backlog' \in Seq(Conn) /\ DOMAIN backlog = 1 .. Len(backlog) /\ Len(backlog) \in Nat
      /\ DOMAIN backlog' = 1 .. (Len(backlog) + 1)
      /\ \A k \in DOMAIN backlog : backlog'[k] = backlog[k]
      /\ backlog'[Len(backlog) + 1] = new
  <2>1. backlog \in Seq(Conn) /\ Len(backlog) \in Nat /\ DOMAIN backlog = 1 .. Len(backlog)
    BY LenProperties DEF Sound, TypeOK
  <2> QED BY <1>1, <1>2, <2>1, AppendProperties, LenProperties
<1>4. /\ stage' \in [Client -> Stage]
      /\ stage'[d] = "dialled" /\ \A c \in Client \ {d} : stage'[c] = stage[c]
  BY <1>2 DEF Sound, TypeOK, Stage
<1>5. TypeOK' /\ LinkInProcess'
  BY <1>2, <1>3, <1>4 DEF Sound, TypeOK, LinkInProcess, editorVars
<1>6. ASSUME NEW c \in Client PROVE Known(c)'
  <2>1. Known(c) /\ Known(d)
    BY DEF Sound
  <2>2. CASE c = d
    <3>1. ~IsLive(c, link) /\ \A k \in DOMAIN backlog : ~IsLive(c, backlog[k])
      BY <1>2, <2>1, <2>2 DEF Known
    <3>2. \A k \in DOMAIN backlog' : IsLive(c, backlog'[k]) => k = Len(backlog) + 1
      BY <1>3, <3>1
    <3>3. IsLive(c, backlog'[Len(backlog) + 1]) /\ Len(backlog) + 1 \in DOMAIN backlog'
      BY <1>1, <1>3, <2>2
    <3> QED BY <1>2, <1>4, <2>2, <3>1, <3>2, <3>3 DEF Known
  <2>3. CASE c # d
    <3>1. \A k \in DOMAIN backlog' : IsLive(c, backlog'[k]) => k \in DOMAIN backlog
      BY <1>1, <1>3, <2>3
    <3>2. \A k \in DOMAIN backlog : k \in DOMAIN backlog' /\ backlog'[k] = backlog[k]
      BY <1>3
    <3> QED BY <1>2, <1>4, <2>1, <2>3, <3>1, <3>2 DEF Known
  <2> QED BY <2>2, <2>3
<1> QED BY <1>5, <1>6 DEF Sound

\* The backlog, when the connection of a client ends.
LEMMA EndedBacklog ==
    ASSUME TypeOK, NEW d \in Client, backlog' = [k \in DOMAIN backlog |-> Ended(d, backlog[k])]
    PROVE  /\ backlog' \in Seq(Conn) /\ DOMAIN backlog' = DOMAIN backlog
           /\ \A k \in DOMAIN backlog : /\ backlog'[k].inbox = backlog[k].inbox
                                        /\ \A c \in Client : IsLive(c, backlog'[k]) <=>
                                                                IsLive(c, backlog[k]) /\ c # d
<1>1. /\ DOMAIN backlog = 1 .. Len(backlog) /\ Len(backlog) \in Nat
      /\ \A k \in DOMAIN backlog : backlog[k] \in Conn
  BY LenProperties, ElementOfSeq DEF TypeOK
<1>2. \A k \in DOMAIN backlog : backlog'[k] = Ended(d, backlog[k]) /\ Ended(d, backlog[k]) \in Conn
  BY <1>1, EndedFacts
<1>3. backlog' \in [1 .. Len(backlog) -> Conn]
  BY <1>1, <1>2
<1>4. backlog' \in Seq(Conn)
  BY <1>1, <1>3, SeqDef
<1> QED BY <1>1, <1>2, <1>4, EndedFacts

LEMMA SoundLeave == ASSUME Sound, NEW d \in Client, Leave(d) PROVE Sound'
<1>1. /\ link' = Ended(d, link) /\ backlog' = [k \in DOMAIN backlog |-> Ended(d, backlog[k])]
      /\ SentAway(d) /\ UNCHANGED <<state, editorVars, down, orderly>>
  BY DEF Leave
<1>2. /\ link' \in Conn \cup {NoConn} /\ (link = NoConn => link' = NoConn)
      /\ \A c \in Client : IsLive(c, link') <=> IsLive(c, link) /\ c # d
  <2>1. link = NoConn => ~IsLive(d, link)
    BY DEF NoConn, IsLive
  <2> QED BY <1>1, <2>1, EndedFacts DEF Sound, TypeOK
<1>3. /\ stage' \in [Client -> Stage]
      /\ typed' \in [Client -> 0 .. (LineSize - 1)]
      /\ stage'[d] = "away" /\ \A c \in Client \ {d} : stage'[c] = stage[c]
  BY <1>1, TelnetAssumption DEF SentAway, Sound, TypeOK, Stage
<1>4. TypeOK' /\ LinkInProcess'
  BY <1>1, <1>2, <1>3, EndedBacklog DEF Sound, TypeOK, LinkInProcess, editorVars
<1>5. ASSUME NEW c \in Client PROVE Known(c)'
  <2>1. Known(c)
    BY DEF Sound
  <2>2. /\ DOMAIN backlog' = DOMAIN backlog
        /\ \A k \in DOMAIN backlog : IsLive(c, backlog'[k]) <=> IsLive(c, backlog[k]) /\ c # d
    BY <1>1, EndedBacklog DEF Sound
  <2>3. CASE c = d
    BY <1>2, <1>3, <2>2, <2>3 DEF Known
  <2>4. CASE c # d
    BY <1>2, <1>3, <2>1, <2>2, <2>4 DEF Known
  <2> QED BY <2>3, <2>4
<1> QED BY <1>4, <1>5 DEF Sound
\* The keys of an orderly client, each as the editor meets it at the stage where the
\* client sends it.
Usual == Keys \ {FunctionKey, SizeBegin27, SizeBegin255}

LEMMA UsualKeys ==
    Usual \subseteq {Letter, Enter, Cancel, Up, Option, SizeBegin, SizeEnd} \cup Heights
  BY DEF Usual, Keys

LEMMA KeyFacts ==
    ASSUME NEW keys \in Usual
    PROVE  /\ keys \in Seq(Byte) /\ keys # <<>>
           /\ \A s \in Stage :
                 (s = "sizing" <=> keys \in Heights) /\ (s = "sized" <=> keys = SizeEnd) =>
                     \A e \in Expects(s) : /\ Follows(e, keys)
                                          /\ EndState(e, keys) \in Expects(StageAfter(keys))
           /\ \A i \in 1 .. Len(keys) :
                 keys[i] \in {"nul", "etx"} => keys \in {Enter, Cancel} /\ i = Len(keys)
           /\ \A i \in 1 .. Len(keys) : keys[i] = "text" => keys = Letter
           /\ \A i \in 1 .. Len(keys) : keys[i] = "A" => keys = Up
<1> USE DEF Letter, Enter, Cancel, Up, Option, SizeBegin, SizeEnd, Heights, StageAfter, Expects
<1>1. CASE keys = Letter
  BY <1>1 DEF Byte, Follows, EndState, Allowed, After
<1>2. CASE keys = Enter
  BY <1>2 DEF Byte, Follows, EndState, Allowed, After
<1>3. CASE keys = Cancel
  BY <1>3 DEF Byte, Follows, EndState, Allowed, After
<1>4. CASE keys = Up
  BY <1>4 DEF Byte, Follows, EndState, Allowed, After
<1>5. CASE keys = Option
  BY <1>5 DEF Byte, Follows, EndState, Allowed, After
<1>6. CASE keys = SizeBegin
  BY <1>6 DEF Byte, Follows, EndState, Allowed, After
<1>7. CASE keys = SizeEnd
  BY <1>7 DEF Byte, Follows, EndState, Allowed, After
<1>8. CASE keys = <<"num", "num">>
  BY <1>8 DEF Byte, Follows, EndState, Allowed, After
<1>9. CASE keys = <<"num", "esc">>
  BY <1>9 DEF Byte, Follows, EndState, Allowed, After
<1>10. CASE keys = <<"num", "iac", "iac">>
  BY <1>10 DEF Byte, Follows, EndState, Allowed, After
<1> QED BY <1>1, <1>2, <1>3, <1>4, <1>5, <1>6, <1>7, <1>8, <1>9, <1>10, UsualKeys

\* How the line grows by a key.
LEMMA KeyGrows ==
    ASSUME TypeOK, NEW c \in Client, NEW keys \in Usual,
           keys = Letter => typed[c] < LineSize - 1
    PROVE  /\ TypedAfter(c, keys) \in 0 .. (LineSize - 1)
           /\ Grows(typed[c], keys, lastCmdLen, TypedAfter(c, keys))
<1> DEFINE n == typed[c]
           k == TypedAfter(c, keys)
           L == [i \in 0 .. Len(keys) |-> IF i = Len(keys) THEN k ELSE n]
<1>1. LineSize \in Nat \ {0} /\ n \in 0 .. (LineSize - 1) /\ lastCmdLen \in 0 .. (LineSize - 1)
  BY TelnetAssumption DEF TypeOK
<1>2. k \in 0 .. (LineSize - 1)
  BY <1>1 DEF TypedAfter
<1>3. /\ Len(keys) \in {1, 2, 3}
      /\ \A i \in 1 .. Len(keys) : i # Len(keys) => keys[i] \notin {"text", "A"}
      /\ (keys[Len(keys)] = "text") <=> (keys = Letter)
      /\ (keys[Len(keys)] = "A") <=> (keys = Up)
  <2> USE DEF Letter, Enter, Cancel, Up, Option, SizeBegin, SizeEnd, Heights
  <2>1. CASE keys = Letter
    BY <2>1
  <2>2. CASE keys = Enter
    BY <2>2
  <2>3. CASE keys = Cancel
    BY <2>3
  <2>4. CASE keys = Up
    BY <2>4
  <2>5. CASE keys = Option
    BY <2>5
  <2>6. CASE keys = SizeBegin
    BY <2>6
  <2>7. CASE keys = SizeEnd
    BY <2>7
  <2>8. CASE keys = <<"num", "num">>
    BY <2>8
  <2>9. CASE keys = <<"num", "esc">>
    BY <2>9
  <2>10. CASE keys = <<"num", "iac", "iac">>
    BY <2>10
  <2> QED BY <2>1, <2>2, <2>3, <2>4, <2>5, <2>6, <2>7, <2>8, <2>9, <2>10, UsualKeys
<1>4. k = Longer(n, keys[Len(keys)], lastCmdLen)
  <2>1. Letter # Up
    BY DEF Letter, Up
  <2>2. CASE keys = Letter
    BY <1>3, <2>2 DEF TypedAfter, Longer
  <2>3. CASE keys = Up /\ lastCmdLen > 0
    BY <1>1, <1>3, <2>1, <2>3 DEF TypedAfter, Longer
  <2>4. CASE keys # Letter /\ ~(keys = Up /\ lastCmdLen > 0)
    BY <1>1, <1>3, <2>4 DEF TypedAfter, Longer
  <2> QED BY <2>2, <2>3, <2>4
<1> HIDE DEF n, k
<1>5. L \in [0 .. Len(keys) -> 0 .. (LineSize - 1)] /\ L[0] = n /\ L[Len(keys)] = k
  <2>1. Len(keys) \in Nat \ {0} /\ 0 \in 0 .. Len(keys) /\ Len(keys) \in 0 .. Len(keys)
    BY <1>3
  <2> QED BY <1>1, <1>2, <2>1
<1>6. ASSUME NEW i \in 1 .. Len(keys)
      PROVE  L[i] = Longer(L[i - 1], keys[i], lastCmdLen)
  <2>1. L[i - 1] = n
    BY <1>3
  <2>2. CASE i = Len(keys)
    BY <1>4, <1>5, <2>1, <2>2
  <2>3. CASE i # Len(keys)
    BY <1>3, <2>1, <2>3 DEF Longer
  <2> QED BY <2>2, <2>3
<1> HIDE DEF L
<1> QED BY <1>2, <1>5, <1>6 DEF Grows, n, k

\* What a client types arrives on its connection.
LEMMA TypeSteps ==
    ASSUME Sound, NEW d \in Client, NEW keys \in Keys, Type(d, keys)
    PROVE  /\ IsLive(d, link) /\ link \in Conn
           /\ keys \in Seq(Byte)
           /\ link' = [who |-> d, end |-> "up", inbox |-> link.inbox \o keys]
           /\ link' \in Conn /\ link'.inbox = link.inbox \o keys /\ IsLive(d, link')
           /\ Len(link'.inbox) = Len(link.inbox) + Len(keys)
           /\ \A c \in Client : IsLive(c, link') <=> IsLive(c, link)
<1>1. stage[d] \in {"ready", "sizing", "sized"} /\ link' = [link EXCEPT !.inbox = @ \o keys]
  BY DEF Type
<1>2. IsLive(d, link)
  BY <1>1 DEF Sound, Known
<1>3. link \in Conn /\ link = [who |-> d, end |-> "up", inbox |-> link.inbox]
      /\ link.inbox \in Seq(Byte)
  BY <1>2, ConnFacts DEF Sound, TypeOK, IsLive
<1>4. keys \in Seq(Byte)
  <2>1. CASE keys = FunctionKey
    BY <2>1 DEF FunctionKey, Byte
  <2>2. CASE keys = SizeBegin27
    BY <2>2 DEF SizeBegin27, Byte
  <2>3. CASE keys = SizeBegin255
    BY <2>3 DEF SizeBegin255, Byte
  <2> QED BY <2>1, <2>2, <2>3, KeyFacts DEF Usual
<1>5. link' = [who |-> d, end |-> "up", inbox |-> link.inbox \o keys]
  <2> DEFINE new == link.inbox \o keys
  <2>1. link' = [link EXCEPT !.inbox = new]
    BY <1>1
  <2> HIDE DEF new
  <2>2. link' = [who |-> d, end |-> "up", inbox |-> new]
    BY <1>3, <2>1
  <2> QED BY <2>2 DEF new
<1>6. link.inbox \o keys \in Seq(Byte) /\ Len(link.inbox \o keys) = Len(link.inbox) + Len(keys)
  BY <1>3, <1>4, ConcatProperties
<1> QED BY <1>2, <1>3, <1>4, <1>5, <1>6 DEF Conn, IsLive

LEMMA SoundType ==
    ASSUME Sound, NEW d \in Client, NEW keys \in Keys, Type(d, keys) PROVE Sound'
<1>1. /\ stage[d] \in {"ready", "sizing", "sized"}
      /\ UNCHANGED <<state, backlog, editorVars, down, orderly>>
  BY DEF Type
<1>2. /\ stage' \in [Client -> Stage]
      /\ typed' \in [Client -> 0 .. (LineSize - 1)]
      /\ stage'[d] \in {"ready", "sizing", "sized", "waiting"}
      /\ \A c \in Client \ {d} : stage'[c] = stage[c]
  <2>1. CASE orderly
    <3>1. keys \in Usual /\ (keys = Letter => typed[d] < LineSize - 1)
      BY <2>1 DEF Type, Orderly, Usual
    <3>2. TypedAfter(d, keys) \in 0 .. (LineSize - 1)
      BY <3>1, KeyGrows DEF Sound
    <3>3. StageAfter(keys) \in {"ready", "sizing", "sized", "waiting"}
      BY DEF StageAfter
    <3>4. /\ stage' = [stage EXCEPT ![d] = StageAfter(keys)]
          /\ typed' = [typed EXCEPT ![d] = TypedAfter(d, keys)]
      BY <2>1 DEF Type
    <3> QED BY <3>2, <3>3, <3>4 DEF Sound, TypeOK, Stage
  <2>2. CASE ~orderly
    BY <1>1, <2>2 DEF Type, Sound, TypeOK
  <2> QED BY <2>1, <2>2
<1>3. TypeOK' /\ LinkInProcess'
  <2>1. link # NoConn
    BY TypeSteps DEF NoConn, IsLive
  <2> QED BY <1>1, <1>2, <2>1, TypeSteps DEF Sound, TypeOK, LinkInProcess, editorVars
<1>4. \A c \in Client : Known(c)'
  <2>1. \A c \in Client : \/ stage'[c] = stage[c]
                          \/ /\ stage[c] \notin {"away", "dialled"}
                             /\ stage'[c] \notin {"away", "dialled"}
    BY <1>1, <1>2
  <2> QED BY <1>1, <2>1, TypeSteps, SameConns
<1> QED BY <1>3, <1>4 DEF Sound

LEMMA SoundNext == ASSUME Sound, [Next]_vars PROVE Sound'
<1>1. CASE UNCHANGED vars
  <2>1. TypeOK' /\ LinkInProcess'
    BY <1>1 DEF Sound, TypeOK, LinkInProcess, vars, serverVars, editorVars, clientVars
  <2> QED BY <1>1, <2>1, SameConns DEF Sound, vars, serverVars, clientVars
<1> QED BY <1>1, SoundServerTick, SoundTreatByte, SoundDial, SoundLeave, SoundType DEF Next
-----------------------------------------------------------------------------
\* What an orderly client has typed, and what the editor makes of it.

LEMMA StreamFacts ==
    ASSUME Sound
    PROVE  /\ raw \in Seq(Byte) /\ link.inbox \in Seq(Byte)
           /\ Stream \in Seq(Byte) /\ Len(Stream) = Len(raw) + Len(link.inbox)
           /\ raw = <<>> => Stream = link.inbox
           /\ raw # <<>> => /\ Stream # <<>> /\ Stream[1] = ch
                            /\ Rest \o link.inbox = Tail(Stream)
<1>1. raw \in Seq(Byte) /\ link.inbox \in Seq(Byte)
  BY ConnFacts DEF Sound, TypeOK
<1>2. raw # <<>> => /\ Stream # <<>> /\ Stream[1] = ch
                    /\ Rest \o link.inbox = Tail(Stream)
  BY <1>1, StreamTail, EmptySeq DEF Stream, ch, Rest
<1> QED BY <1>1, <1>2, ConcatProperties, ConcatEmptySeq DEF Stream

\* Where there is nothing to be treated, and no line.
LEMMA TidyWhenEmpty ==
    ASSUME raw' = <<>>, link'.inbox = <<>>, ~strange', lineLen' = 0,
           \A k \in DOMAIN backlog' : backlog'[k].inbox = <<>>,
           \A c \in Client : stage'[c] \in {"away", "dialled"} => typed'[c] = 0,
           Live' => /\ editor' = "readLine" /\ typed'[Who'] = 0
                    /\ stage'[Who'] \notin {"sizing", "sized"}
    PROVE  Tidy'
<1>1. Stream' = <<>> /\ Len(<<>>) = 0 /\ 0 <= RawSize /\ 0 \in 0 .. (LineSize - 1)
  <2>1. <<>> \o <<>> = <<>>
    OBVIOUS
  <2> QED BY <2>1, TelnetAssumption, EmptySeq DEF Stream
<1>2. Follows(editor', Stream') /\ Blank(Stream', lastCmdLen') /\ EndState(editor', Stream') = editor'
  BY <1>1 DEF Follows, Blank, EndState
<1>3. Grows(0, Stream', lastCmdLen', 0)
  BY <1>1, GrowsNothing
<1>4. Live' => editor' \in Expects(stage'[Who'])
  BY DEF Expects
<1> QED BY <1>1, <1>2, <1>3, <1>4 DEF Tidy

\* Where the bytes have moved on from the connection to the buffer at most.
LEMMA TidySame ==
    ASSUME Tidy, Stream' = Stream, link'.who = link.who, link'.end = link.end,
           Len(link'.inbox) <= RawSize,
           UNCHANGED <<backlog, editor, lineLen, strange, lastCmdLen, stage, typed>>
    PROVE  Tidy'
BY DEF Tidy, Live, Who, Nothing

\* An orderly client never meets the end of a buffer.
LEMMA Room == ASSUME Sound, Tidy, raw # <<>> PROVE HasRoom
<1>1. LineSize \in Nat \ {0}
  BY TelnetAssumption
<1>2. CASE Live
  <2>1. lineLen \in 0 .. (LineSize - 1)
    BY <1>2, StreamFacts, GrowsTail DEF Tidy
  <2> QED BY <1>1, <2>1 DEF HasRoom
<1>3. CASE ~Live
  BY <1>1, <1>3 DEF Tidy, Nothing, HasRoom
<1> QED BY <1>2, <1>3

\* A byte that does not end a line.
LEMMA TreatAllowed ==
    ASSUME Sound, Tidy, TreatByte, ch \notin {"nul", "etx"}
    PROVE  /\ editor' = After(ch)
           /\ lineLen' = Longer(lineLen, ch, lastCmdLen)
           /\ raw' = Rest /\ ~strange'
           /\ UNCHANGED <<link, backlog, lastCmdLen, stage, typed>>
<1>1. raw # <<>> /\ ch \in Allowed(editor) /\ HasRoom /\ ~strange /\ UNCHANGED backlog
  BY StreamFacts, FollowsTail, Room DEF TreatByte, Tidy
<1>2. editor \in {"readLine", "readCmd", "readCmdOption", "readCmdSubOption",
                  "readEsc", "readEscOption", "error"}
  BY DEF Sound, TypeOK
<1> USE DEF TreatByte, Iac, Esc, ReadLine, ReadCmd, ReadCmdOption, ReadCmdSubOption, ReadEsc,
            ReadEscOption, EditorError, Becomes
<1>3. CASE ch = "iac"
  BY <1>1, <1>3 DEF After, Longer
<1>4. CASE ch = "esc"
  BY <1>1, <1>4 DEF After, Longer
<1>5. CASE editor = "readLine" /\ ch = "text"
  BY <1>1, <1>5 DEF After, Longer, Printable
<1>6. CASE editor = "readCmd" /\ ch \in {"verb", "sb", "se"}
  BY <1>1, <1>6 DEF After, Longer
<1>7. CASE editor = "readCmdOption" /\ ch = "opt"
  BY <1>1, <1>7 DEF After, Longer
<1>8. CASE editor = "readEsc" /\ ch = "["
  BY <1>1, <1>8 DEF After, Longer
<1>9. CASE editor = "readEscOption" /\ ch = "A"
  BY <1>1, <1>9 DEF After, Longer
<1>10. CASE editor = "readCmdSubOption" /\ ch = "num"
  BY <1>1, <1>10 DEF After, Longer
<1>11. \/ ch \in {"iac", "esc"}
       \/ editor = "readCmdSubOption" /\ ch = "num"
       \/ editor = "readLine" /\ ch = "text"
       \/ editor = "readCmd" /\ ch \in {"verb", "sb", "se"}
       \/ editor = "readCmdOption" /\ ch = "opt"
       \/ editor = "readEsc" /\ ch = "["
       \/ editor = "readEscOption" /\ ch = "A"
  BY <1>1, <1>2 DEF Allowed
<1> QED BY <1>3, <1>4, <1>5, <1>6, <1>7, <1>8, <1>9, <1>10, <1>11

\* The end of a line is the last that its client has sent, and it waits.
LEMMA EndOfLine ==
    ASSUME Sound, Tidy, raw # <<>>, ch \in {"nul", "etx"}
    PROVE  /\ Live /\ stage[Who] = "waiting" /\ editor = "readLine"
           /\ link.inbox = <<>> /\ Rest = <<>>
           /\ lineLen = typed[Who]
<1>1. Stream # <<>> /\ Stream[1] = ch /\ Stream \in Seq(Byte) /\ Len(Stream) \in Nat \ {0}
      /\ raw \in Seq(Byte) /\ link.inbox \in Seq(Byte)
      /\ Len(Stream) = Len(raw) + Len(link.inbox)
  BY StreamFacts, EmptySeq
<1>2. Len(Stream) = 1 /\ Live /\ stage[Who] = "waiting"
  BY <1>1 DEF Tidy
<1>3. link.inbox = <<>> /\ Rest = <<>>
  <2>1. Len(raw) = 1 /\ Len(link.inbox) = 0
    <3>1. Len(raw) \in Nat \ {0} /\ Len(link.inbox) \in Nat
      BY <1>1, ByteSeqs
    <3>2. \A x \in Nat \ {0} : \A y \in Nat : x + y = 1 => x = 1 /\ y = 0
      OBVIOUS
    <3> QED BY <1>1, <1>2, <3>1, <3>2, Zenon
  <2>2. Tail(raw) \in Seq(Byte) /\ Len(Tail(raw)) = 0
    BY <1>1, <2>1, TailFacts
  <2> QED BY <1>1, <2>1, <2>2, ByteSeqs, Zenon DEF Rest
<1>4. ch \in Allowed(editor)
  BY <1>1, FollowsTail DEF Tidy
<1>5. editor = "readLine"
  BY <1>4 DEF Allowed
<1>6. Longer(lineLen, Stream[1], lastCmdLen) = lineLen
  BY <1>1 DEF Longer
<1>7. Grows(lineLen, Tail(Stream), lastCmdLen, typed[Who])
  BY <1>1, <1>2, <1>6, GrowsTail DEF Tidy
<1>8. Len(Tail(Stream)) = 0
  BY <1>1, <1>2, TailFacts
<1>9. lineLen = typed[Who]
  BY <1>7, <1>8 DEF Grows
<1> QED BY <1>2, <1>3, <1>5, <1>9

LEMMA TidyTreat == ASSUME Sound, Tidy, TreatByte PROVE Tidy'
<1>1. raw # <<>> /\ UNCHANGED backlog
  BY DEF TreatByte
<1>2. CASE ch \notin {"nul", "etx"}
  <2>1. /\ editor' = After(ch)
        /\ lineLen' = Longer(lineLen, ch, lastCmdLen)
        /\ raw' = Rest /\ ~strange'
        /\ UNCHANGED <<link, backlog, lastCmdLen, stage, typed>>
    BY <1>2, TreatAllowed
  <2>2. Stream \in Seq(Byte) /\ Stream # <<>> /\ ch = Stream[1] /\ Stream' = Tail(Stream)
    BY <1>1, <2>1, StreamFacts DEF Stream
  <2>3. Follows(After(ch), Tail(Stream)) /\ EndState(After(ch), Tail(Stream)) = EndState(editor, Stream)
    BY <2>2, FollowsTail DEF Tidy
  <2>4. Live => Grows(Longer(lineLen, ch, lastCmdLen), Tail(Stream), lastCmdLen, typed[Who])
    BY <2>2, GrowsTail DEF Tidy
  <2>5. Len(Tail(Stream)) = Len(Stream) - 1 /\ Len(Stream) \in Nat \ {0}
        /\ \A i \in 1 .. Len(Stream) - 1 : Tail(Stream)[i] = Stream[i + 1]
    BY <2>2, TailFacts
  <2>6. Nothing => Longer(lineLen, ch, lastCmdLen) = 0 /\ Blank(Tail(Stream), lastCmdLen)
    <3> SUFFICES ASSUME Nothing
                 PROVE  Longer(lineLen, ch, lastCmdLen) = 0 /\ Blank(Tail(Stream), lastCmdLen)
      OBVIOUS
    <3>1. lineLen = 0 /\ Blank(Stream, lastCmdLen)
      BY DEF Tidy
    <3>2. ch # "text" /\ (ch = "A" => lastCmdLen = 0)
      BY <2>2, <2>5, <3>1 DEF Blank
    <3>3. Longer(lineLen, ch, lastCmdLen) = 0
      BY <3>1, <3>2 DEF Longer
    <3>4. Blank(Tail(Stream), lastCmdLen)
      BY <2>5, <3>1 DEF Blank
    <3> QED BY <3>3, <3>4
  <2>7. \A i \in 1 .. Len(Tail(Stream)) :
           Tail(Stream)[i] \in {"nul", "etx"} =>
               i = Len(Tail(Stream)) /\ Live /\ stage[Who] = "waiting"
    <3> SUFFICES ASSUME NEW i \in 1 .. Len(Tail(Stream)), Tail(Stream)[i] \in {"nul", "etx"}
                 PROVE  i = Len(Tail(Stream)) /\ Live /\ stage[Who] = "waiting"
      OBVIOUS
    <3>1. i + 1 \in 1 .. Len(Stream) /\ Stream[i + 1] \in {"nul", "etx"} /\ i \in Nat
      BY <2>5
    <3>2. i + 1 = Len(Stream) /\ Live /\ stage[Who] = "waiting"
      BY <3>1 DEF Tidy
    <3>3. \A x, y \in Nat : x + 1 = y => x = y - 1
      OBVIOUS
    <3> QED BY <2>5, <3>1, <3>2, <3>3, Zenon
  <2>8. /\ Follows(editor', Stream')
        /\ Live' => EndState(editor', Stream') \in Expects(stage'[Who'])
        /\ Live' => Grows(lineLen', Stream', lastCmdLen', typed'[Who'])
        /\ Nothing' => lineLen' = 0 /\ Blank(Stream', lastCmdLen')
    BY <2>1, <2>2, <2>3, <2>4, <2>6 DEF Tidy, Live, Who, Nothing
  <2>9. \A i \in 1 .. Len(Stream') :
           Stream'[i] \in {"nul", "etx"} => i = Len(Stream') /\ Live' /\ stage'[Who'] = "waiting"
    BY <2>1, <2>2, <2>7 DEF Live, Who
  <2> QED BY <2>1, <2>8, <2>9 DEF Tidy
<1>3. CASE ch \in {"nul", "etx"}
  <2>1. /\ Live /\ stage[Who] = "waiting" /\ editor = "readLine"
        /\ link.inbox = <<>> /\ Rest = <<>>
    BY <1>1, <1>3, EndOfLine
  <2>2. HasRoom /\ ReadLine
    BY <1>1, <1>3, <2>1, Room DEF TreatByte, Iac, Esc, ReadCmd, ReadCmdOption, ReadCmdSubOption,
                                  ReadEsc, ReadEscOption, EditorError
  <2>3. state = "process"
    BY <2>1 DEF Sound, LinkInProcess, Live, NoConn
  <2>4. /\ lineLen' = 0 /\ ~strange' /\ editor' = "readLine"
        /\ \/ raw' = <<>>
           \/ \E n \in 0 .. Len(<<>>) : raw' = [k \in DOMAIN <<>> |-> IF k <= n THEN "out" ELSE Rest[k]]
        /\ Prompt \/ Reset
    <3>1. CASE Execute /\ UNCHANGED editor
      BY <2>1, <2>3, <3>1 DEF Execute
    <3>2. CASE ~(Execute /\ UNCHANGED editor)
      BY <1>3, <2>1, <2>2, <3>2 DEF ReadLine, Printable
    <3> QED BY <3>1, <3>2
  <2>5. raw' = <<>>
    <3>1. raw' \in Seq(Byte)
      BY TreatSteps DEF Sound
    <3>2. raw' = <<>> \/ DOMAIN raw' = DOMAIN <<>>
      BY <2>4
    <3>3. DOMAIN <<>> = {} /\ (raw' # <<>> => 1 \in DOMAIN raw')
      BY <3>1, EmptySeq, LenProperties
    <3> QED BY <3>2, <3>3
  <2>6. \A k \in DOMAIN backlog' : backlog'[k].inbox = <<>>
    BY <1>1 DEF Tidy
  <2>7. /\ \A c \in Client : stage[c] \in {"away", "dialled"} => typed[c] = 0
        /\ Who \in Client /\ stage \in [Client -> Stage]
        /\ typed \in [Client -> 0 .. (LineSize - 1)]
    BY <2>1, LiveIsGreeted DEF Sound, TypeOK, Tidy, Live, Who
  <2>8. CASE Prompt
    <3>1. /\ stage' = [stage EXCEPT ![Who] = "ready"] /\ typed' = [typed EXCEPT ![Who] = 0]
          /\ link' = link
      BY <2>1, <2>8 DEF Prompt, Live, Who
    <3>2. \A c \in Client : stage'[c] \in {"away", "dialled"} => typed'[c] = 0
      BY <2>7, <3>1
    <3>3. link'.inbox = <<>> /\ typed'[Who'] = 0 /\ stage'[Who'] \notin {"sizing", "sized"}
      BY <2>1, <2>7, <3>1 DEF Who
    <3> QED BY <2>4, <2>5, <2>6, <3>2, <3>3, TidyWhenEmpty
  <2>9. CASE Reset
    <3>1. /\ stage' = [stage EXCEPT ![Who] = "away"] /\ typed' = [typed EXCEPT ![Who] = 0]
          /\ link' = NoConn
      BY <2>1, <2>9 DEF Reset, Close, SentAway, Live, Who
    <3>2. \A c \in Client : stage'[c] \in {"away", "dialled"} => typed'[c] = 0
      BY <2>7, <3>1
    <3>3. link'.inbox = <<>> /\ ~Live'
      BY <3>1 DEF NoConn, Live
    <3> QED BY <2>4, <2>5, <2>6, <3>2, <3>3, TidyWhenEmpty
  <2> QED BY <2>4, <2>8, <2>9
<1> QED BY <1>2, <1>3
LEMMA TidyInit == Init => Tidy
<1> SUFFICES ASSUME Init PROVE Tidy
  OBVIOUS
<1>1. Stream = <<>> /\ Len(<<>>) = 0 /\ DOMAIN <<>> = {} /\ link.inbox = <<>> /\ ~Live
  <2>1. <<>> \o <<>> = <<>>
    OBVIOUS
  <2> QED BY <2>1, ByteSeqs DEF Init, Stream, Live, NoConn
<1>2. Follows(editor, Stream) /\ Blank(Stream, lastCmdLen)
  BY <1>1 DEF Follows, Blank
<1> QED BY <1>1, <1>2, TelnetAssumption DEF Init, Tidy

\* The console treats an orderly client by the rules.
LEMMA TidyAccept ==
    ASSUME Sound, Tidy, raw = <<>>, Accept
    PROVE  Tidy'
<1>1. /\ link = NoConn /\ link.inbox = <<>> /\ ~Live /\ UNCHANGED <<raw, lastCmdLen, typed>>
      /\ lineLen = 0 /\ ~strange
  BY DEF Accept, Sound, LinkInProcess, NoConn, Live, Nothing, Tidy
<1>2. /\ \A k \in DOMAIN backlog : backlog[k].inbox = <<>>
      /\ \A c \in Client : stage[c] \in {"away", "dialled"} => typed[c] = 0
  BY DEF Tidy
<1>3. backlog # <<>> /\ backlog' = Tail(backlog) =>
         /\ \A k \in DOMAIN backlog' : backlog'[k].inbox = <<>>
         /\ Head(backlog).inbox = <<>>
  <2> SUFFICES ASSUME backlog # <<>>, backlog' = Tail(backlog)
               PROVE  /\ \A k \in DOMAIN backlog' : backlog'[k].inbox = <<>>
                      /\ Head(backlog).inbox = <<>>
    OBVIOUS
  <2>1. /\ \A k \in DOMAIN backlog' : k + 1 \in DOMAIN backlog /\ backlog'[k] = backlog[k + 1]
        /\ Head(backlog) = backlog[1] /\ 1 \in DOMAIN backlog
    BY BacklogTail DEF Sound
  <2> QED BY <1>2, <2>1
<1>4. CASE UNCHANGED <<state, link, backlog, editor, lineLen, strange, stage>>
  <2>1. Stream' = Stream /\ Len(link'.inbox) <= RawSize
    BY <1>1, <1>4, ByteSeqs, TelnetAssumption DEF Stream
  <2> QED BY <1>1, <1>4, <2>1, TidySame
<1>5. CASE /\ backlog # <<>> /\ backlog' = Tail(backlog)
           /\ UNCHANGED <<state, link, editor, lineLen, strange, stage>>
  BY <1>1, <1>2, <1>3, <1>5, TidyWhenEmpty DEF Live
<1>6. CASE /\ backlog # <<>> /\ backlog' = Tail(backlog)
           /\ Greet(Head(backlog))
           /\ stage' = IF Head(backlog).end = "up"
                       THEN [stage EXCEPT ![Head(backlog).who] = "ready"] ELSE stage
  <2> DEFINE h == Head(backlog)
  <2>1. link' = h /\ editor' = "readLine" /\ ~strange' /\ lineLen' = 0
    <3>1. link' = h /\ editor' = "readLine" /\ strange' = (lineLen > 0) /\ lineLen' = lineLen
      BY <1>6, Zenon DEF Greet
    <3>2. ~(lineLen > 0)
      BY <1>1
    <3> QED BY <1>1, <3>1, <3>2, Zenon
  <2>2. h \in Conn /\ h.who \in Client /\ h = backlog[1] /\ 1 \in DOMAIN backlog
    BY <1>6, BacklogTail DEF Sound, Conn
  <2>3. /\ stage' = IF h.end = "up" THEN [stage EXCEPT ![h.who] = "ready"] ELSE stage
        /\ h.inbox = <<>> /\ \A k \in DOMAIN backlog' : backlog'[k].inbox = <<>>
    BY <1>3, <1>6
  <2> HIDE DEF h
  <2>4. \A c \in Client : /\ stage'[c] \in {stage[c], "ready"}
                          /\ stage[c] \in {"away", "dialled"} /\ typed[c] = 0
    <3>1. \A c \in Client : stage[c] \in {"away", "dialled"}
      BY <1>1 DEF Sound, Known, Live, IsLive
    <3> QED BY <1>2, <2>2, <2>3, <3>1 DEF Sound, TypeOK
  <2>5. h.end = "up" => stage'[h.who] = "ready"
    BY <2>2, <2>3 DEF Sound, TypeOK
  <2>6. Live' => typed'[Who'] = 0 /\ stage'[Who'] \notin {"sizing", "sized"}
    BY <1>1, <2>1, <2>2, <2>4, <2>5 DEF Live, Who
  <2> QED BY <1>1, <2>1, <2>3, <2>4, <2>6, TidyWhenEmpty
<1> QED BY <1>4, <1>5, <1>6 DEF Accept

LEMMA TidyReceive ==
    ASSUME Sound, Tidy, raw = <<>>, Receive
    PROVE  Tidy'
<1>1. UNCHANGED <<backlog, editor, lineLen, strange, lastCmdLen>>
  BY DEF Receive
<1>2. CASE \E n \in 1 .. Len(link.inbox) :
              /\ raw' = IF n <= RawSize THEN SubSeq(link.inbox, 1, n) ELSE <<>>
              /\ n <= RawSize + 1
              /\ link' = [link EXCEPT !.inbox = SubSeq(@, n + 1, Len(@))]
              /\ UNCHANGED <<state, stage, typed>>
  <2>1. PICK n \in 1 .. Len(link.inbox) :
           /\ raw' = IF n <= RawSize THEN SubSeq(link.inbox, 1, n) ELSE <<>>
           /\ link' = [link EXCEPT !.inbox = SubSeq(@, n + 1, Len(@))]
           /\ UNCHANGED <<stage, typed>>
    BY <1>2
  <2>2. link.inbox \in Seq(Byte) /\ Len(link.inbox) \in Nat /\ Len(link.inbox) <= RawSize
    BY ConnFacts DEF Sound, TypeOK, Tidy
  <2>3. raw' = SubSeq(link.inbox, 1, n)
    BY <2>1, <2>2, TelnetAssumption
  <2>4. /\ link'.who = link.who /\ link'.end = link.end
        /\ link'.inbox = SubSeq(link.inbox, n + 1, Len(link.inbox))
        /\ Len(link'.inbox) = Len(link.inbox) - n
    BY <2>1, ReadFacts
  <2>5. SubSeq(link.inbox, 1, n) \o SubSeq(link.inbox, n + 1, Len(link.inbox)) = link.inbox
    <3>1. SubSeq(link.inbox, 1, Len(link.inbox)) = link.inbox
      BY <2>2, SubSeqFull
    <3> QED BY <2>2, <3>1, ConcatAdjacentSubSeq
  <2>6. Stream' = Stream
    BY <2>3, <2>4, <2>5, StreamFacts DEF Stream
  <2>7. Len(link'.inbox) <= RawSize
    BY <2>2, <2>4, TelnetAssumption
  <2> QED BY <1>1, <2>1, <2>4, <2>6, <2>7, TidySame
<1>3. CASE UNCHANGED <<state, link, raw, stage, typed>>
  BY <1>1, <1>3, TidySame DEF Stream, Tidy
<1>4. CASE link.end # "up" /\ Reset /\ UNCHANGED raw
  <2>1. link' = NoConn /\ UNCHANGED <<stage, typed>>
    BY <1>4 DEF Reset, Close
  <2>2. lineLen = 0 /\ ~strange
    BY <1>4 DEF Tidy, Nothing, Live
  <2>3. link'.inbox = <<>> /\ ~Live'
    BY <2>1 DEF NoConn, Live
  <2>4. /\ \A k \in DOMAIN backlog' : backlog'[k].inbox = <<>>
        /\ \A c \in Client : stage'[c] \in {"away", "dialled"} => typed'[c] = 0
    BY <1>1, <2>1 DEF Tidy
  <2> QED BY <1>1, <1>4, <2>2, <2>3, <2>4, TidyWhenEmpty
<1> QED BY <1>2, <1>3, <1>4 DEF Receive

LEMMA TidyServerTick == ASSUME Sound, Tidy, ServerTick PROVE Tidy'
<1>1. raw = <<>>
  BY DEF ServerTick
<1>2. CASE LeaveInit \/ Error
  <2>1. UNCHANGED <<link, backlog, editorVars, stage, typed>>
    BY <1>2 DEF LeaveInit, Error
  <2> QED BY <2>1, TidySame DEF Stream, Tidy, editorVars
<1> QED BY <1>1, <1>2, TidyAccept, TidyReceive DEF ServerTick
\* What the clients do.
LEMMA TidyDial == ASSUME Sound, Tidy, NEW d \in Client, Dial(d) PROVE Tidy'
<1>1. /\ backlog' = Append(backlog, [who |-> d, end |-> "up", inbox |-> <<>>])
      /\ stage[d] = "away" /\ stage' = [stage EXCEPT ![d] = "dialled"]
      /\ UNCHANGED <<link, editor, raw, lineLen, strange, lastCmdLen, typed>>
  BY DEF Dial, editorVars
<1>2. \A k \in DOMAIN backlog' : backlog'[k].inbox = <<>>
  <2> DEFINE new == [who |-> d, end |-> "up", inbox |-> <<>>]
  <2>1. new \in Conn /\ new.inbox = <<>>
    BY ByteSeqs DEF Conn
  <2>2. backlog \in Seq(Conn) /\ backlog' = Append(backlog, new)
    BY <1>1 DEF Sound, TypeOK
  <2> HIDE DEF new
  <2>3. \A k \in DOMAIN backlog' : backlog'[k] = new \/ (k \in DOMAIN backlog /\ backlog'[k] = backlog[k])
    BY <2>1, <2>2, AppendProperties, LenProperties
  <2> QED BY <2>1, <2>3 DEF Tidy
<1>3. \A c \in Client : stage'[c] \in {"away", "dialled"} => typed'[c] = 0
  BY <1>1 DEF Tidy, Sound, TypeOK
<1>4. Live => stage'[Who] = stage[Who]
  BY <1>1, LiveIsGreeted DEF Live, Who, Sound, TypeOK
<1> QED BY <1>1, <1>2, <1>3, <1>4 DEF Tidy, Stream, Live, Who, Nothing

LEMMA TidyLeave == ASSUME Sound, Tidy, orderly, NEW d \in Client, Leave(d) PROVE Tidy'
<1>1. /\ link' = Ended(d, link) /\ backlog' = [k \in DOMAIN backlog |-> Ended(d, backlog[k])]
      /\ stage' = [stage EXCEPT ![d] = "away"] /\ typed' = [typed EXCEPT ![d] = 0]
      /\ UNCHANGED <<editor, raw, lineLen, strange, lastCmdLen>>
      /\ stage[d] # "waiting" /\ typed[d] = 0
  BY DEF Leave, SentAway, editorVars
<1>2. /\ link'.inbox = link.inbox /\ link'.who = link.who
      /\ \A c \in Client : IsLive(c, link') <=> IsLive(c, link) /\ c # d
      /\ link' \in Conn \cup {NoConn}
  BY <1>1, EndedFacts DEF Sound, TypeOK
<1>3. Stream' = Stream /\ Who' = Who
  BY <1>1, <1>2 DEF Stream, Who
<1>4. Live' => Live /\ Who # d /\ stage'[Who] = stage[Who] /\ typed'[Who] = typed[Who]
  <2> SUFFICES ASSUME Live' PROVE Live /\ Who # d /\ stage'[Who] = stage[Who] /\ typed'[Who] = typed[Who]
    OBVIOUS
  <2>1. Who \in Client /\ IsLive(Who, link')
    BY <1>2, <1>3, ConnFacts DEF Live, Who, IsLive
  <2>2. IsLive(Who, link) /\ Who # d
    BY <1>2, <2>1
  <2> QED BY <1>1, <2>1, <2>2 DEF Live, IsLive, Sound, TypeOK
<1>5. Live /\ ~Live' => Nothing
  <2> SUFFICES ASSUME Live, ~Live' PROVE Nothing
    OBVIOUS
  <2>1. Who \in Client /\ IsLive(Who, link)
    BY LiveIsGreeted DEF Live, Who
  <2>2. ~IsLive(Who, link')
    BY DEF Live, IsLive
  <2>3. Who = d
    BY <1>2, <2>1, <2>2
  <2> QED BY <1>1, <2>3 DEF Nothing
<1>6. Nothing' => Nothing
  BY <1>3, <1>4, <1>5 DEF Nothing
<1>7. /\ Follows(editor', Stream')
      /\ Live' => EndState(editor', Stream') \in Expects(stage'[Who'])
      /\ Live' => Grows(lineLen', Stream', lastCmdLen', typed'[Who'])
      /\ Nothing' => lineLen' = 0 /\ Blank(Stream', lastCmdLen')
  BY <1>1, <1>3, <1>4, <1>6 DEF Tidy
<1>8. ASSUME NEW i \in 1 .. Len(Stream), Stream[i] \in {"nul", "etx"}
      PROVE  i = Len(Stream) /\ Live' /\ stage'[Who] = "waiting"
  <2>1. i = Len(Stream) /\ Live /\ stage[Who] = "waiting" /\ ~Nothing
    BY <1>8 DEF Tidy, Blank
  <2>2. Live'
    BY <1>5, <2>1
  <2> QED BY <1>4, <2>1, <2>2
<1>9. /\ \A k \in DOMAIN backlog' : backlog'[k].inbox = <<>>
      /\ \A c \in Client : stage'[c] \in {"away", "dialled"} => typed'[c] = 0
  <2>1. \A k \in DOMAIN backlog' : k \in DOMAIN backlog /\ backlog'[k].inbox = backlog[k].inbox
    BY <1>1, EndedBacklog DEF Sound
  <2>2. \A c \in Client : c = d \/ (stage'[c] = stage[c] /\ typed'[c] = typed[c])
    BY <1>1 DEF Sound, TypeOK
  <2>3. typed'[d] = 0
    BY <1>1 DEF Sound, TypeOK
  <2> QED BY <2>1, <2>2, <2>3 DEF Tidy
<1> QED BY <1>1, <1>2, <1>3, <1>7, <1>8, <1>9 DEF Tidy

LEMMA TidyType ==
    ASSUME Sound, Tidy, orderly, NEW d \in Client, NEW keys \in Keys, Type(d, keys)
    PROVE  Tidy'
<1>1. /\ raw = <<>> /\ stage[d] \in {"ready", "sizing", "sized"}
      /\ UNCHANGED <<backlog, editor, raw, lineLen, strange, lastCmdLen>>
      /\ stage' = [stage EXCEPT ![d] = StageAfter(keys)]
      /\ typed' = [typed EXCEPT ![d] = TypedAfter(d, keys)]
      /\ keys \in Usual
      /\ (stage[d] = "sizing" <=> keys \in Heights) /\ (stage[d] = "sized" <=> keys = SizeEnd)
      /\ keys = Letter => typed[d] < LineSize - 1
      /\ Len(link.inbox) + Len(keys) <= RawSize
  BY DEF Type, Orderly, Usual, Between, editorVars
<1>2. /\ Live /\ Who = d /\ Live' /\ Who' = d
      /\ link'.inbox = link.inbox \o keys /\ Len(link'.inbox) <= RawSize
  BY <1>1, TypeSteps DEF Live, Who, IsLive
<1>3. keys \in Seq(Byte) /\ keys # <<>> /\ Stream \in Seq(Byte) /\ Len(Stream) \in Nat
      /\ Len(keys) \in Nat \ {0}
  BY <1>1, KeyFacts, StreamFacts, ByteSeqs
<1>4. Stream' = Stream \o keys
  <2>1. Stream = link.inbox
    BY <1>1, StreamFacts
  <2>2. Stream' = <<>> \o link'.inbox /\ link'.inbox \in Seq(Byte)
    BY <1>1, <1>2, TypeSteps, ConnFacts DEF Stream
  <2> QED BY <1>2, <2>1, <2>2, ConcatEmptySeq
<1>5. /\ stage'[d] = StageAfter(keys) /\ typed'[d] = TypedAfter(d, keys)
      /\ StageAfter(keys) \notin {"away", "dialled"}
      /\ \A c \in Client \ {d} : stage'[c] = stage[c] /\ typed'[c] = typed[c]
  BY <1>1 DEF Sound, TypeOK, StageAfter
<1> DEFINE e == EndState(editor, Stream)
<1>6. Follows(editor, Stream) /\ e \in Expects(stage[d])
  BY <1>2 DEF Tidy
<1>7. Follows(e, keys) /\ EndState(e, keys) \in Expects(StageAfter(keys))
  <2>1. stage[d] \in Stage
    BY DEF Sound, TypeOK
  <2> HIDE DEF e
  <2> QED BY <1>1, <1>6, <2>1, KeyFacts
<1>8. /\ Follows(editor, Stream \o keys)
      /\ EndState(editor, Stream \o keys) \in Expects(StageAfter(keys))
  BY <1>3, <1>6, <1>7, FollowsConcat
<1>9. StageAfter(keys) = "waiting" <=> keys \in {Enter, Cancel}
  BY DEF StageAfter, Enter, Cancel, SizeBegin, Heights
<1>10. Grows(lineLen, Stream \o keys, lastCmdLen, TypedAfter(d, keys))
  <2>1. Grows(lineLen, Stream, lastCmdLen, typed[d])
    BY <1>2 DEF Tidy
  <2>2. Grows(typed[d], keys, lastCmdLen, TypedAfter(d, keys))
    BY <1>1, KeyGrows DEF Sound
  <2> QED BY <1>3, <2>1, <2>2, GrowsConcat
<1>11. /\ Len(Stream \o keys) = Len(Stream) + Len(keys)
       /\ \A i \in 1 .. Len(Stream \o keys) :
             \/ i \in 1 .. Len(Stream) /\ (Stream \o keys)[i] = Stream[i]
             \/ i - Len(Stream) \in 1 .. Len(keys) /\ (Stream \o keys)[i] = keys[i - Len(Stream)]
  BY <1>3, ConcatProperties
<1>12. ASSUME TypedAfter(d, keys) = 0, StageAfter(keys) # "waiting"
       PROVE  lineLen = 0 /\ Blank(Stream \o keys, lastCmdLen)
  <2>1. keys # Letter /\ ~(keys = Up /\ lastCmdLen > 0) /\ typed[d] = 0
    BY <1>12, TelnetAssumption DEF TypedAfter, Sound, TypeOK
  <2>2. lineLen = 0 /\ Blank(Stream, lastCmdLen)
    BY <1>1, <1>2, <2>1 DEF Tidy, Nothing
  <2>3. Blank(keys, lastCmdLen)
    <3>1. lastCmdLen \in Nat
      BY DEF Sound, TypeOK
    <3> QED BY <1>1, <1>9, <1>12, <2>1, <3>1, KeyFacts DEF Blank
  <2> QED BY <1>11, <2>2, <2>3 DEF Blank
<1>13. ASSUME NEW i \in 1 .. Len(Stream \o keys), (Stream \o keys)[i] \in {"nul", "etx"}
       PROVE  i = Len(Stream \o keys) /\ StageAfter(keys) = "waiting"
  <2>1. ~(i \in 1 .. Len(Stream) /\ (Stream \o keys)[i] = Stream[i])
    BY <1>1, <1>2, <1>13 DEF Tidy
  <2>2. i - Len(Stream) \in 1 .. Len(keys) /\ keys[i - Len(Stream)] \in {"nul", "etx"}
    BY <1>11, <1>13, <2>1
  <2>3. keys \in {Enter, Cancel} /\ i - Len(Stream) = Len(keys)
    BY <1>1, <2>2, KeyFacts
  <2>4. \A m, n \in Nat : i - m = n => i = m + n
    OBVIOUS
  <2> QED BY <1>3, <1>9, <1>11, <2>3, <2>4, Zenon
<1>14. \A c \in Client : stage'[c] \in {"away", "dialled"} => typed'[c] = 0
  BY <1>5 DEF Tidy
<1>15. Nothing' => TypedAfter(d, keys) = 0 /\ StageAfter(keys) # "waiting"
  BY <1>2, <1>5 DEF Nothing
<1> QED BY <1>1, <1>2, <1>4, <1>5, <1>8, <1>9, <1>10, <1>12, <1>13, <1>14, <1>15 DEF Tidy

-----------------------------------------------------------------------------
\* The theorems.

LEMMA InvariantNext == IInv /\ [Next]_vars => IInv'
<1> SUFFICES ASSUME IInv, [Next]_vars PROVE IInv'
  OBVIOUS
<1>1. Sound'
  BY SoundNext DEF IInv
<1>2. orderly' = orderly
  BY DEF Next, ServerTick, TreatByte, Dial, Leave, Type, vars, clientVars
<1>3. ASSUME orderly PROVE Tidy'
  <2>1. Sound /\ Tidy
    BY <1>3 DEF IInv
  <2>2. CASE UNCHANGED vars
    BY <2>1, <2>2, TidySame DEF Tidy, Stream, vars, serverVars, editorVars, clientVars
  <2> QED BY <1>3, <2>1, <2>2, TidyServerTick, TidyTreat, TidyDial, TidyLeave, TidyType DEF Next
<1> QED BY <1>1, <1>2, <1>3 DEF IInv

\* The invariant holds in every reachable state.
THEOREM Invariance == Safety => []IInv
<1>1. Init => IInv
  BY SoundInit, TidyInit DEF IInv
<1> QED BY <1>1, InvariantNext, PTL DEF Safety

\* Whatever the clients type and however connections end, every variable keeps its
\* type: the line never grows out of its buffer, nor the bytes out of theirs.
THEOREM TypeCorrect == Safety => []TypeOK
<1>1. IInv => TypeOK
  BY DEF IInv, Sound
<1> QED BY <1>1, Invariance, PTL

\* Every open connection is known to the console in exactly one place, for any number
\* of clients, orderly or not.
THEOREM ConnectionsKnown == Safety => []NoConnectionForgotten
<1>1. IInv => NoConnectionForgotten
  <2> SUFFICES ASSUME IInv, NEW c \in Client
               PROVE  LET places == {k \in 0 .. Len(backlog) :
                                        IsLive(c, IF k = 0 THEN link ELSE backlog[k])}
                      IN  IF stage[c] = "away" THEN places = {} ELSE \E k \in places : places = {k}
    BY DEF NoConnectionForgotten
  <2> DEFINE places == {k \in 0 .. Len(backlog) : IsLive(c, IF k = 0 THEN link ELSE backlog[k])}
  <2>1. Known(c) /\ DOMAIN backlog = 1 .. Len(backlog) /\ Len(backlog) \in Nat
    BY LenProperties DEF IInv, Sound, TypeOK
  <2>2. \A k : k \in places <=> (k = 0 /\ IsLive(c, link)) \/ (k \in DOMAIN backlog /\ IsLive(c, backlog[k]))
    BY <2>1
  <2> HIDE DEF places
  <2>3. CASE stage[c] = "away"
    BY <2>1, <2>2, <2>3 DEF Known
  <2>4. CASE stage[c] = "dialled"
    BY <2>1, <2>2, <2>4 DEF Known
  <2>5. CASE stage[c] \notin {"away", "dialled"}
    <3>1. IsLive(c, link) /\ \A k \in DOMAIN backlog : ~IsLive(c, backlog[k])
      BY <2>1, <2>5 DEF Known
    <3>2. places = {0}
      BY <2>2, <3>1
    <3> QED BY <2>5, <3>2 DEF places
  <2> QED BY <2>3, <2>4, <2>5 DEF places
<1> QED BY <1>1, Invariance, PTL

\* What is executed when an orderly client ends its line is the line as it knows it, over
\* any number of connections, lines and commands: every byte typed has been treated, none
\* is of an earlier connection or of an answer of the program.
THEOREM LinesAsTyped == Safety => []LineAsTyped
<1>1. IInv => LineAsTyped
  BY EndOfLine DEF IInv, LineAsTyped, Tidy, Live, Who
<1> QED BY <1>1, Invariance, PTL

-----------------------------------------------------------------------------
\* The emulated meter.  Readers and codecs stay closed: what they return only decides
\* between Stay, Answer and Fail.

CONSTANTS Setup, Items, BufferSize, MaxPending

VARIABLES setup, client, sent, deviceType, left, good, got, conn, pending, toMeter, toClient, faults

Meter == INSTANCE EmulatedMeter

\* The three ways process ends keep to the rule.
LEMMA FailKeeps == \A rest : Meter!Fail(rest) => SessionPerConnection'
  BY DEF Meter!Fail, Meter!BreakOff, SessionPerConnection

LEMMA StayKeeps == \A rest : server = "process" /\ Meter!Stay(rest) => SessionPerConnection'
  BY DEF Meter!Stay, SessionPerConnection

LEMMA AnswerKeeps ==
    \A next, frame, rest :
        server = "process" /\ Meter!Answer(next, frame, rest) => SessionPerConnection'
  BY FailKeeps DEF Meter!Answer, SessionPerConnection

\* A reader of the meter, on whichever bus.
LEMMA ProcessKeeps == Meter!Process => SessionPerConnection'
<1> SUFFICES ASSUME Meter!Process PROVE SessionPerConnection'
  OBVIOUS
<1>0. server = "process"
  BY DEF Meter!Process
<1>1. CASE Meter!SpBusProcess
  BY <1>0, <1>1, FailKeeps, StayKeeps, AnswerKeeps, Zenon DEF Meter!SpBusProcess
<1>2. CASE Meter!RsBusProcess
  <2>1. CASE Meter!recvStartSequence
    <3>1. CASE Meter!Stay(Tail(toMeter))
      BY <1>0, <3>1, StayKeeps
    <3>2. CASE \E rest : Meter!Fail(rest)
      BY <3>2, FailKeeps
    <3>3. CASE UNCHANGED server
      BY <1>0, <3>3 DEF SessionPerConnection
    <3> QED
      BY <2>1, <3>1, <3>2, <3>3 DEF Meter!recvStartSequence, Meter!CountSymbol
  <2>2. CASE Meter!recvSessionReq
    BY <1>0, <2>2, FailKeeps, StayKeeps, AnswerKeeps, Zenon DEF Meter!recvSessionReq
  <2>3. CASE Meter!recvDataReqShort
    BY <1>0, <2>3, FailKeeps, StayKeeps, AnswerKeeps, Zenon DEF Meter!recvDataReqShort
  <2>4. CASE Meter!recvDataReqLong
    BY <1>0, <2>4, FailKeeps, StayKeeps, AnswerKeeps, Zenon DEF Meter!recvDataReqLong
  <2>5. CASE UNCHANGED server
    BY <1>0, <2>5 DEF SessionPerConnection
  <2> QED
    BY <1>2, <2>1, <2>2, <2>3, <2>4, <2>5 DEF Meter!RsBusProcess, Meter!init, Meter!AwaitStartSequence
<1> QED
  BY <1>1, <1>2 DEF Meter!Process

\* The meter begins every connection with the wait for the start sequence, whatever
\* has ended the one before.
THEOREM EveryConnectionFromTheStart == Meter!Safety => []SessionPerConnection
<1>1. Meter!Init => SessionPerConnection
  BY DEF Meter!Init, Meter!MachinesStart, SessionPerConnection
<1>2. SessionPerConnection /\ [Meter!Next]_(Meter!vars) => SessionPerConnection'
  <2> SUFFICES ASSUME SessionPerConnection, [Meter!Next]_(Meter!vars) PROVE SessionPerConnection'
    OBVIOUS
  <2>1. CASE Meter!Process
    BY <2>1, ProcessKeeps
  <2>2. CASE Meter!Accept
    BY <2>2 DEF Meter!Accept, SessionPerConnection
  <2>3. CASE Meter!Restart
    BY <2>3 DEF Meter!Restart, SessionPerConnection
  <2>4. CASE UNCHANGED Meter!server_
    BY <2>4 DEF Meter!server_, SessionPerConnection
  <2> QED
    BY <2>1, <2>2, <2>3, <2>4 DEF Meter!Next, Meter!MeterTick, Meter!GateTick, Meter!Fault, Meter!vars
<1> QED
  BY <1>1, <1>2, PTL DEF Meter!Safety

-----------------------------------------------------------------------------
\* The conversions between meter and register lose nothing: each is undone by its
\* counterpart, for every pattern of bits, numbers or not.

\* The bytes of a word.
LEMMA ByteType == \A w \in Word : \A i \in 1 .. 4 : w[i] \in 0 .. 255
  BY DEF Word

\* Swapping the words twice gives the number back: Utils::reverse is applied when a
\* value is stored, and by a master that reads it.
THEOREM ReverseTwice == \A w \in Word : reverse(reverse(w)) = <<w[1], w[2], w[3], w[4]>>
  BY DEF reverse

\* The number of a short frame is the one the meter holds: decodeRsBus takes back
\* what encodeRsBus does, byte by byte.
THEOREM RsBusFloatKept ==
    \A w \in Word : decodeRsBus(encodeRsBus(w)) = <<w[1], w[2], w[3], w[4]>>
<1> SUFFICES ASSUME NEW w \in Word
             PROVE  decodeRsBus(encodeRsBus(w)) = <<w[1], w[2], w[3], w[4]>>
  OBVIOUS
<1>1. w[3] \in 0 .. 255 /\ w[4] \in 0 .. 255
  BY ByteType
<1> DEFINE third == (w[3] % 128) + 128 * (w[4] \div 128)
           fourth == ((256 * w[4] + w[3]) \div 128) % 256
<1>2. PICK s \in 0 .. 1, e \in 0 .. 127 : w[4] = 128 * s + e
  BY <1>1
<1>3. PICK b \in 0 .. 1, m \in 0 .. 127 : w[3] = 128 * b + m
  BY <1>1
<1>4. third = m + 128 * s /\ fourth = 2 * e + b
  BY <1>2, <1>3
<1>5. (third % 128) + 128 * (fourth % 2) = w[3]
  <2>1. third % 128 = m
    BY <1>4
  <2>2. fourth % 2 = b
    BY <1>4
  <2> QED
    BY <1>3, <2>1, <2>2
<1>6. (fourth \div 2) + 128 * (third \div 128) = w[4]
  <2>1. third \div 128 = s
    BY <1>4
  <2>2. fourth \div 2 = e
    BY <1>4
  <2> QED
    BY <1>2, <2>1, <2>2
<1> QED
  BY <1>5, <1>6 DEF encodeRsBus, decodeRsBus
-----------------------------------------------------------------------------
\* The frames of the "m4" bus.  What the sums come to is left open: it is enough that
\* both sides compute the same.

Rs == INSTANCE RsBusFrames

\* What a frame is made of.
Cell == Rs!Byte \cup {255 - Rs!SumOf[bytes] : bytes \in Seq(Rs!Byte)}
            \cup {Rs!CrcHigh(Rs!crcode[msg]) : msg \in Seq(Rs!Byte)}
            \cup {Rs!CrcLow(Rs!crcode[msg]) : msg \in Seq(Rs!Byte)}

LEMMA BytesAreCells == \A s \in Seq(Rs!Byte) : s \in Seq(Cell)
<1>1. Rs!Byte \subseteq Cell
  BY DEF Cell
<1> QED
  BY <1>1

LEMMA SumIsCell ==
    \A nt, rc \in Rs!Byte, data \in Seq(Rs!Byte) : <<Rs!calcCs(nt, rc, data), Rs!FEC>> \in Seq(Cell)
<1> SUFFICES ASSUME NEW nt \in Rs!Byte, NEW rc \in Rs!Byte, NEW data \in Seq(Rs!Byte)
             PROVE  <<Rs!calcCs(nt, rc, data), Rs!FEC>> \in Seq(Cell)
  OBVIOUS
<1>1. Rs!FEC \in Cell
  BY DEF Cell, Rs!FEC, Rs!Byte
<1>2. <<nt, rc>> \o data \in Seq(Rs!Byte)
  OBVIOUS
<1>3. Rs!calcCs(nt, rc, data) \in Cell
  BY <1>2, Zenon DEF Cell, Rs!calcCs
<1> QED
  BY <1>1, <1>3

LEMMA CrcIsCell ==
    \A msg \in Seq(Rs!Byte) :
        <<Rs!CrcHigh(Rs!crcode[msg]), Rs!CrcLow(Rs!crcode[msg])>> \in Seq(Cell)
<1> SUFFICES ASSUME NEW msg \in Seq(Rs!Byte)
             PROVE  <<Rs!CrcHigh(Rs!crcode[msg]), Rs!CrcLow(Rs!crcode[msg])>> \in Seq(Cell)
  OBVIOUS
<1>1. Rs!CrcHigh(Rs!crcode[msg]) \in Cell /\ Rs!CrcLow(Rs!crcode[msg]) \in Cell
  BY DEF Cell
<1> QED
  BY <1>1

\* Two parts of a frame, one behind the other.
LEMMA InTwoParts ==
    \A a, b \in Seq(Cell) : /\ a \o b \in Seq(Cell)
                            /\ Len(a \o b) = Len(a) + Len(b)
                            /\ \A i \in 1 .. Len(a) : (a \o b)[i] = a[i]
                            /\ \A i \in 1 .. Len(b) : (a \o b)[Len(a) + i] = b[i]
  OBVIOUS

LEMMA JoinedFromTheLeft ==
    \A a, b, c \in Seq(Cell) : a \o (b \o c) = (a \o b) \o c
<1> SUFFICES ASSUME NEW a \in Seq(Cell), NEW b \in Seq(Cell), NEW c \in Seq(Cell)
             PROVE  a \o (b \o c) = (a \o b) \o c
  OBVIOUS
<1> DEFINE f == a \o (b \o c)
           g == (a \o b) \o c
<1>1. /\ f \in Seq(Cell) /\ g \in Seq(Cell)
      /\ Len(f) = Len(a) + Len(b) + Len(c) /\ Len(g) = Len(a) + Len(b) + Len(c)
  OBVIOUS
<1>2. \A i \in 1 .. Len(f) : f[i] = g[i]
  OBVIOUS
<1> HIDE DEF f, g
<1> QED
  BY <1>1, <1>2, SeqEqual DEF f, g

\* Three parts.
Parts(f, a, b, c) ==
    /\ Len(f) = Len(a) + Len(b) + Len(c)
    /\ \A i \in 1 .. Len(a) : f[i] = a[i]
    /\ \A i \in 1 .. Len(c) : f[Len(a) + Len(b) + i] = c[i]
    /\ SubSeq(f, Len(a) + 1, Len(a) + Len(b)) = b

LEMMA InThreeParts == \A a, b, c \in Seq(Cell) : Parts(a \o b \o c, a, b, c)
<1> SUFFICES ASSUME NEW a \in Seq(Cell), NEW b \in Seq(Cell), NEW c \in Seq(Cell)
             PROVE  Parts(a \o b \o c, a, b, c)
  OBVIOUS
<1> DEFINE f == a \o b \o c
           m == SubSeq(f, Len(a) + 1, Len(a) + Len(b))
<1>1. f \in Seq(Cell) /\ Len(f) = Len(a) + Len(b) + Len(c)
  OBVIOUS
<1>2. \A i \in 1 .. Len(a) : f[i] = a[i]
  OBVIOUS
<1>3. \A i \in 1 .. Len(b) : f[Len(a) + i] = b[i]
  OBVIOUS
<1>4. \A i \in 1 .. Len(c) : f[Len(a) + Len(b) + i] = c[i]
  OBVIOUS
<1>5. Len(a) \in Nat /\ Len(b) \in Nat /\ Len(c) \in Nat
  OBVIOUS
<1> HIDE DEF f
<1>6. m \in Seq(Cell) /\ Len(m) = Len(b)
  BY <1>1, <1>5
<1>7. \A i \in 1 .. Len(b) : m[i] = b[i]
  <2> SUFFICES ASSUME NEW i \in 1 .. Len(b) PROVE m[i] = b[i]
    OBVIOUS
  <2>1. m[i] = f[Len(a) + i]
    BY <1>1, <1>5
  <2> QED
    BY <1>3, <2>1
<1> HIDE DEF m
<1>8. m = b
  BY <1>6, <1>7, SeqEqual
<1> QED
  BY <1>1, <1>2, <1>4, <1>8 DEF f, m, Parts

\* A short frame is taken apart into what it was made of.
LEMMA ShortFrameKept ==
    ASSUME NEW nt \in Rs!Byte, NEW rc \in Rs!Byte, NEW data \in Seq(Rs!Byte), Rs!validateNt(nt)
    PROVE  Rs!decode(Rs!encode([nt |-> nt, rc |-> rc, data |-> data]))
             = [nt |-> nt, rc |-> rc, data |-> data, ok |-> TRUE]
<1> DEFINE cs == Rs!calcCs(nt, rc, data)
           a == <<Rs!FSC, nt, rc>>
           c == <<cs, Rs!FEC>>
           f == a \o data \o c
           n == Len(f)
<1>1. Rs!encode([nt |-> nt, rc |-> rc, data |-> data]) = f
  BY DEF Rs!encode
<1>2. a \in Seq(Cell) /\ c \in Seq(Cell) /\ data \in Seq(Cell)
  <2>1. Rs!FSC \in Rs!Byte
    BY DEF Rs!FSC, Rs!Byte
  <2>2. a \in Seq(Rs!Byte)
    BY <2>1
  <2> QED
    BY <2>2, BytesAreCells, SumIsCell
<1>3. /\ Len(a) = 3 /\ a[1] = Rs!FSC /\ a[2] = nt /\ a[3] = rc
      /\ Len(c) = 2 /\ c[1] = cs /\ c[2] = Rs!FEC /\ Len(data) \in Nat
  OBVIOUS
<1> HIDE DEF a, c
<1>4. Parts(f, a, data, c)
  BY <1>2, InThreeParts
<1> HIDE DEF f, cs
<1>5. /\ n = 3 + Len(data) + 2
      /\ f[1] = Rs!FSC /\ f[2] = nt /\ f[3] = rc
      /\ f[3 + Len(data) + 1] = cs /\ f[3 + Len(data) + 2] = Rs!FEC
      /\ SubSeq(f, 4, 3 + Len(data)) = data
  BY <1>3, <1>4 DEF Parts
<1>6. ~(n < 5) /\ n - 1 = 3 + Len(data) + 1 /\ n - 2 = 3 + Len(data)
  BY <1>3, <1>5
<1>7. f[n - 1] = cs /\ f[n] = Rs!FEC /\ SubSeq(f, 4, n - 2) = data
  BY <1>5, <1>6
<1>8. Rs!decode(f) = [nt |-> nt, rc |-> rc, data |-> data, ok |-> TRUE]
  BY <1>5, <1>6, <1>7 DEF Rs!decode, cs
<1> QED
  BY <1>1, <1>8

\* The answer of an old meter, undamaged, is the number it holds.
THEOREM ShortAnswerKept ==
    ASSUME NEW nt \in Rs!Byte, Rs!validateNt(nt), NEW w \in Word
    PROVE  LET f == Rs!decode(Rs!encode([nt |-> nt, rc |-> Rs!RDP, data |-> encodeRsBus(w)]))
           IN  /\ f.ok /\ f.nt = nt /\ f.rc = Rs!RDP /\ Len(f.data) = 4
               /\ decodeRsBus(f.data) = <<w[1], w[2], w[3], w[4]>>
<1>1. encodeRsBus(w) \in Seq(Rs!Byte) /\ Len(encodeRsBus(w)) = 4
  <2>1. w[1] \in 0 .. 255 /\ w[2] \in 0 .. 255 /\ w[3] \in 0 .. 255 /\ w[4] \in 0 .. 255
    BY ByteType
  <2>2. (w[3] % 128) + 128 * (w[4] \div 128) \in 0 .. 255
    BY <2>1
  <2>3. \A x, y \in Int : ((256 * y + x) \div 128) % 256 \in 0 .. 255
    OBVIOUS
  <2>4. ((256 * w[4] + w[3]) \div 128) % 256 \in 0 .. 255
    <3>1. w[3] \in Int /\ w[4] \in Int
      BY <2>1
    <3> QED
      BY <2>3, <3>1
  <2> QED
    BY <2>1, <2>2, <2>4 DEF encodeRsBus, Rs!Byte
<1>2. Rs!RDP \in Rs!Byte
  BY DEF Rs!RDP, Rs!Byte
<1>3. Rs!decode(Rs!encode([nt |-> nt, rc |-> Rs!RDP, data |-> encodeRsBus(w)]))
        = [nt |-> nt, rc |-> Rs!RDP, data |-> encodeRsBus(w), ok |-> TRUE]
  BY <1>1, <1>2, ShortFrameKept
<1> QED
  BY <1>1, <1>3, RsBusFloatKept

\* The fields that a long frame carries besides its body, and what decoding returns.
Carried(g) == /\ g.nt \in Rs!Byte /\ g.id \in Rs!Byte /\ g.atr \in Rs!Byte /\ g.rc \in Rs!Byte
              /\ g.tag \in Rs!Byte /\ Rs!validateNt(g.nt)

Decoded(g, body) == [ok |-> TRUE, nt |-> g.nt, id |-> g.id, atr |-> g.atr, rc |-> g.rc,
                     tag |-> g.tag, data |-> body]

\* A long frame is taken apart into what it was made of.
LEMMA LongFrameKept ==
    ASSUME NEW g, Carried(g), NEW body \in Seq(Rs!Byte), Len(body) <= 252
    PROVE  /\ Len(Rs!Long(g, body)) = Len(body) + 12
           /\ Rs!Long(g, body)[6] = Len(body) + 3
           /\ Rs!decodeLong(Rs!Long(g, body), Len(body)) = Decoded(g, body)
<1> DEFINE fsc == <<Rs!FSC>>
           qty == Len(body)
           head == <<g.nt, Rs!FRM, g.id, g.atr, qty + 3, 0>>
           kind == <<g.rc, g.tag, qty>>
           msg == head \o (kind \o body)
           c == <<Rs!CrcHigh(Rs!crcode[msg]), Rs!CrcLow(Rs!crcode[msg])>>
           b == fsc \o head
           a == b \o kind
           f == a \o body \o c
<1>0. /\ Rs!FSC \in Rs!Byte /\ Rs!FRM \in Rs!Byte /\ 0 \in Rs!Byte
      /\ qty \in Rs!Byte /\ qty + 3 \in Rs!Byte
  <2>1. qty \in Nat
    OBVIOUS
  <2> HIDE DEF qty
  <2>2. \A k \in Nat : k <= 252 => k \in 0 .. 255 /\ k + 3 \in 0 .. 255
    OBVIOUS
  <2>3. qty \in 0 .. 255 /\ qty + 3 \in 0 .. 255
    BY <2>1, <2>2 DEF qty
  <2> QED
    BY <2>3 DEF Rs!FSC, Rs!FRM, Rs!Byte
<1>1. fsc \in Seq(Rs!Byte) /\ head \in Seq(Rs!Byte) /\ kind \in Seq(Rs!Byte)
  <2> HIDE DEF qty
  <2> QED
    BY <1>0 DEF Carried
<1>2. /\ Len(fsc) = 1 /\ Len(head) = 6 /\ Len(kind) = 3
      /\ head[1] = g.nt /\ head[3] = g.id /\ head[4] = g.atr /\ head[5] = qty + 3
      /\ kind[1] = g.rc /\ kind[2] = g.tag /\ kind[3] = qty
  OBVIOUS
<1>3. Rs!Long(g, body)
        = fsc \o Rs!WithCrc[<<g.nt, Rs!FRM, g.id, g.atr, Len(kind \o body), 0>> \o (kind \o body)]
  BY Zenon DEF Rs!Long, Carried
<1>4. \A s \in Seq(Rs!Byte) : \A t \in Seq(Rs!Byte) :
         s \o t \in Seq(Rs!Byte) /\ Len(s \o t) = Len(s) + Len(t)
  OBVIOUS
<1>5. Len(kind \o body) = qty + 3 /\ msg \in Seq(Rs!Byte)
  <2>1. qty \in Nat
    OBVIOUS
  <2> HIDE DEF head, kind
  <2>2. kind \o body \in Seq(Rs!Byte) /\ Len(kind \o body) = Len(kind) + Len(body)
    BY <1>1, <1>4
  <2> QED
    BY <1>1, <1>2, <1>4, <2>1, <2>2
<1>6. <<g.nt, Rs!FRM, g.id, g.atr, Len(kind \o body), 0>> = head
  <2> HIDE DEF kind, qty
  <2> QED
    BY <1>5
<1> HIDE DEF fsc, head, kind, qty
<1>7. Rs!WithCrc[msg] = msg \o c
  BY <1>5 DEF Rs!WithCrc
<1>8. c \in Seq(Cell)
  BY <1>5, CrcIsCell
<1>9. Len(c) = 2
  OBVIOUS
<1> HIDE DEF c
<1>10. /\ fsc \in Seq(Cell) /\ head \in Seq(Cell) /\ kind \in Seq(Cell) /\ body \in Seq(Cell)
       /\ kind \o body \in Seq(Cell)
  BY <1>1, BytesAreCells, InTwoParts
<1>11. /\ b \in Seq(Cell) /\ Len(b) = Len(fsc) + Len(head)
       /\ \A i \in 1 .. Len(head) : b[Len(fsc) + i] = head[i]
  BY <1>10, InTwoParts
<1>12. fsc \o (msg \o c) = f
  <2>1. msg \in Seq(Cell) /\ msg \o c \in Seq(Cell)
    BY <1>5, <1>8, BytesAreCells, InTwoParts
  <2>2. fsc \o (msg \o c) = (fsc \o msg) \o c
    <3>1. fsc \in Seq(Cell)
      BY <1>10
    <3> HIDE DEF msg
    <3> QED
      BY <1>8, <2>1, <3>1, JoinedFromTheLeft
  <2>3. fsc \o msg = b \o (kind \o body)
    <3>1. head \in Seq(Cell) /\ kind \o body \in Seq(Cell)
      BY <1>10
    <3>2. fsc \in Seq(Cell)
      BY <1>10
    <3> QED
      BY <3>1, <3>2, JoinedFromTheLeft
  <2>4. b \o (kind \o body) = a \o body
    <3>1. b \in Seq(Cell) /\ kind \in Seq(Cell) /\ body \in Seq(Cell)
      BY <1>10, <1>11
    <3> HIDE DEF b
    <3> QED
      BY <3>1, JoinedFromTheLeft
  <2> QED
    BY <2>2, <2>3, <2>4, Zenon
<1>13. Rs!Long(g, body) = f
  BY <1>3, <1>6, <1>7, <1>12, Zenon
<1> HIDE DEF msg, b
<1>14. /\ a \in Seq(Cell) /\ Len(a) = Len(b) + Len(kind)
       /\ \A i \in 1 .. Len(b) : a[i] = b[i]
       /\ \A i \in 1 .. Len(kind) : a[Len(b) + i] = kind[i]
  BY <1>10, <1>11, InTwoParts
<1> HIDE DEF a
<1>15. Parts(f, a, body, c)
  <2>1. a \in Seq(Cell) /\ body \in Seq(Cell)
    BY <1>10, <1>14
  <2> QED
    BY <1>8, <2>1, InThreeParts
<1> HIDE DEF f
<1>16. /\ Len(b) = 7 /\ Len(a) = 10
       /\ \A i \in 1 .. 6 : b[1 + i] = head[i]
       /\ \A i \in 1 .. 7 : a[i] = b[i]
       /\ \A i \in 1 .. 3 : a[7 + i] = kind[i]
  BY <1>2, <1>11, <1>14
<1>17. b[2] = g.nt /\ b[4] = g.id /\ b[5] = g.atr /\ b[6] = qty + 3
  <2>1. b[1 + 1] = head[1] /\ b[1 + 3] = head[3] /\ b[1 + 4] = head[4] /\ b[1 + 5] = head[5]
    BY <1>16
  <2> QED
    BY <1>2, <2>1
<1>18. /\ a[2] = g.nt /\ a[4] = g.id /\ a[5] = g.atr /\ a[6] = qty + 3
       /\ a[8] = g.rc /\ a[9] = g.tag /\ a[10] = qty
  <2>1. a[2] = b[2] /\ a[4] = b[4] /\ a[5] = b[5] /\ a[6] = b[6]
    BY <1>16
  <2>2. a[7 + 1] = kind[1] /\ a[7 + 2] = kind[2] /\ a[7 + 3] = kind[3]
    BY <1>16
  <2> QED
    BY <1>2, <1>17, <2>1, <2>2
<1>19. /\ f[2] = g.nt /\ f[4] = g.id /\ f[5] = g.atr /\ f[6] = qty + 3
       /\ f[8] = g.rc /\ f[9] = g.tag /\ f[10] = qty
  BY <1>15, <1>16, <1>18 DEF Parts
<1>20. qty \in Nat /\ Len(body) = qty
  BY DEF qty
<1>21. /\ Len(f) = qty + 12 /\ ~(Len(f) < 10 + qty) /\ SubSeq(f, 11, 10 + qty) = body
  BY <1>9, <1>15, <1>16, <1>20 DEF Parts
<1>22. Rs!decodeLong(f, qty) = Decoded(g, body)
  BY <1>19, <1>21 DEF Rs!decodeLong, Decoded, Carried
<1> QED
  BY <1>13, <1>19, <1>20, <1>21, <1>22

\* A request arrives as it was sent, with the channel and the parameter it asks for,
\* whatever bytes these are.
THEOREM LongRequestKept ==
    ASSUME NEW nt \in Rs!Byte, Rs!validateNt(nt), NEW chan \in Rs!Byte,
           NEW prm \in Nat, prm < 256 * 256
    PROVE  LET f == Rs!decodeReqLong(Rs!encodeReqLong(
                        [nt |-> nt, rc |-> Rs!RM4, id |-> 0, atr |-> Rs!ATR,
                         tag |-> Rs!TAG_PNUM, ch |-> chan, prm |-> prm]))
           IN  /\ f.ok /\ f.nt = nt /\ f.rc = Rs!RM4 /\ f.tag = Rs!TAG_PNUM
               /\ f.data[1] = chan /\ 256 * f.data[3] + f.data[2] = prm
<1> DEFINE g == [nt |-> nt, rc |-> Rs!RM4, id |-> 0, atr |-> Rs!ATR, tag |-> Rs!TAG_PNUM,
                 ch |-> chan, prm |-> prm]
           body == <<chan, prm % 256, prm \div 256>>
           f == Rs!decodeReqLong(Rs!encodeReqLong(g))
<1>1. /\ prm % 256 \in 0 .. 255 /\ prm \div 256 \in 0 .. 255
      /\ 256 * (prm \div 256) + (prm % 256) = prm
  <2>1. prm % 256 \in 0 .. 255
    OBVIOUS
  <2>2. prm \div 256 \in 0 .. 255
    OBVIOUS
  <2>3. 256 * (prm \div 256) + (prm % 256) = prm
    OBVIOUS
  <2> QED
    BY <2>1, <2>2, <2>3
<1>2. body \in Seq(Rs!Byte) /\ Len(body) = 3
  BY <1>1 DEF Rs!Byte
<1>3. body[1] = chan /\ 256 * body[3] + body[2] = prm
  BY <1>1
<1>4. /\ g.nt = nt /\ g.id = 0 /\ g.atr = Rs!ATR /\ g.rc = Rs!RM4 /\ g.tag = Rs!TAG_PNUM
      /\ g.ch = chan /\ g.prm = prm
  OBVIOUS
<1> HIDE DEF f, g
<1>5. Rs!encodeReqLong(g) = Rs!Long(g, body)
  <2>1. \A h : Rs!encodeReqLong(h) = Rs!Long(h, <<h.ch, h.prm % 256, h.prm \div 256>>)
    BY Zenon DEF Rs!encodeReqLong
  <2>2. <<g.ch, g.prm % 256, g.prm \div 256>> = body
    BY <1>4, Zenon
  <2> QED
    BY <2>1, <2>2, Zenon
<1> HIDE DEF body
<1>6. Carried(g)
  <2>1. 0 \in Rs!Byte /\ Rs!ATR \in Rs!Byte /\ Rs!RM4 \in Rs!Byte /\ Rs!TAG_PNUM \in Rs!Byte
    BY DEF Rs!Byte, Rs!RM4, Rs!ATR, Rs!TAG_PNUM
  <2> QED
    BY <1>4, <2>1 DEF Carried
<1>7. Len(body) <= 252
  BY <1>2
<1>8. Rs!decodeLong(Rs!Long(g, body), Len(body)) = Decoded(g, body)
  BY <1>2, <1>6, <1>7, LongFrameKept
<1>9. f = Decoded(g, body)
  <2>1. f = Rs!decodeLong(Rs!Long(g, body), 3)
    BY <1>5, Zenon DEF f, Rs!decodeReqLong
  <2> QED
    BY <1>2, <1>8, <2>1
<1>10. f.ok /\ f.nt = nt /\ f.rc = Rs!RM4 /\ f.tag = Rs!TAG_PNUM /\ f.data = body
  BY <1>4, <1>9 DEF Decoded
<1>11. f.data[1] = chan /\ 256 * f.data[3] + f.data[2] = prm
  BY <1>3, <1>10, Zenon
<1> QED
  BY <1>10, <1>11, Zenon DEF f, g

\* The answer of a new meter, undamaged, is the number it holds.
THEOREM LongAnswerKept ==
    ASSUME NEW nt \in Rs!Byte, Rs!validateNt(nt), NEW id \in Rs!Byte, NEW atr \in Rs!Byte,
           NEW w \in Seq(Rs!Byte), Len(w) = 4
    PROVE  LET f == Rs!decodeRspLong(Rs!encodeRspLong(
                        [nt |-> nt, rc |-> Rs!RM4, id |-> id, atr |-> atr,
                         tag |-> Rs!TAG_IEEFloat, data |-> w]))
           IN  f.ok /\ f.nt = nt /\ f.rc = Rs!RM4 /\ f.tag = Rs!TAG_IEEFloat /\ f.data = w
<1> DEFINE g == [nt |-> nt, rc |-> Rs!RM4, id |-> id, atr |-> atr, tag |-> Rs!TAG_IEEFloat,
                 data |-> w]
<1>1. /\ g.nt = nt /\ g.id = id /\ g.atr = atr /\ g.rc = Rs!RM4 /\ g.tag = Rs!TAG_IEEFloat
      /\ Rs!encodeRspLong(g) = Rs!Long(g, w)
  BY Zenon DEF Rs!encodeRspLong
<1> HIDE DEF g
<1>2. Carried(g)
  <2>1. Rs!RM4 \in Rs!Byte /\ Rs!TAG_IEEFloat \in Rs!Byte
    BY DEF Rs!Byte, Rs!RM4, Rs!TAG_IEEFloat
  <2> QED
    BY <1>1, <2>1 DEF Carried
<1>3. Len(w) <= 252
  OBVIOUS
<1>4. Rs!Long(g, w)[6] = Len(w) + 3 /\ Rs!decodeLong(Rs!Long(g, w), Len(w)) = Decoded(g, w)
  BY <1>2, <1>3, LongFrameKept
<1>5. Rs!Long(g, w)[6] = 7
  BY <1>4
<1>6. Rs!decodeRspLong(Rs!encodeRspLong(g)) = Decoded(g, w)
  BY <1>1, <1>4, <1>5 DEF Rs!decodeRspLong
<1>7. Decoded(g, w) = [ok |-> TRUE, nt |-> nt, id |-> id, atr |-> atr, rc |-> Rs!RM4,
                       tag |-> Rs!TAG_IEEFloat, data |-> w]
  BY <1>1 DEF Decoded
<1> QED
  BY <1>6, <1>7 DEF g
===============================================================================
