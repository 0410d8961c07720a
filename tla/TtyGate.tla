------------------------------- MODULE TtyGate -------------------------------
(***************************************************************************)
(* ttyg, the gateway between TCP clients and a serial bus.  Each round it   *)
(* accepts at most one client and walks over the list of its links: what a  *)
(* link has received goes to the serial port, and whatever the serial port  *)
(* brings before it falls silent goes back to that link.                    *)
(*                                                                          *)
(* The walk is a loop of single visits here, because clients and meters go  *)
(* on while it waits for the serial port.  A request is known by its        *)
(* client; one that arrives in pieces is several requests.                  *)
(***************************************************************************)
EXTENDS LinkPool, Sequences, FiniteSets

CONSTANTS Client,     \* TCP clients, each with one connection at a time
          NoClient,   \* the handle -1
          MaxAsked,   \* bound on requests the meters still work on
          Punctual,   \* do the meters answer before the port is given up, or never
          BufSize,    \* characters rxBuf has room for
          Bus,        \* what meters there may be: for each bus, its answers' lengths
          MaxWaiting  \* bound on the characters waiting in the serial port

ASSUME TtyAssumption == /\ NoClient \notin Client
                        /\ MaxAsked \in Nat \ {0}
                        /\ Punctual \in BOOLEAN
                        /\ BufSize \in Nat \ {0}
                        /\ MaxWaiting \in Nat \ {0}
                        /\ Bus \in SUBSET SUBSET (Nat \ {0})

VARIABLES phase,     \* where tickInd is: "accept", "walk", "collect", "exit"
          it,        \* the iterator of the walk: a position in linkIds, or its end
          linkIds,   \* the list of links in use
          idPool,    \* the free links
          handle,    \* the connection of each link
          backlog,   \* connections not yet accepted
          peer,      \* client's end of its connection: "off", "up", "gone"
          sent,      \* does the client wait for its request to be taken from the socket
          asked,     \* requests on the serial bus
          lengths,   \* characters the answers of the meters on this bus have
          serialIn   \* characters waiting in the serial port, each by its request

serverVars == <<phase, it, linkIds, idPool, handle>>
worldVars == <<peer, sent, asked, lengths>>
vars == <<phase, it, linkIds, idPool, handle, backlog, peer, sent, asked, lengths,
          serialIn>>

TypeOK ==
    /\ phase \in {"accept", "walk", "collect", "exit"}
    /\ linkIds \in Seq(LinkId)
    /\ it \in 1 .. (Len(linkIds) + 1)
    /\ idPool \in Queue
    /\ handle \in [LinkId -> Client \cup {NoClient}]
    /\ backlog \in Seq(Client)
    /\ peer \in [Client -> {"off", "up", "gone"}]
    /\ sent \in [Client -> BOOLEAN]
    /\ asked \in Seq(Client)
    /\ lengths \in Bus
    /\ serialIn \in Seq(Client)

Init ==
    /\ phase = "accept"
    /\ it = 1
    /\ linkIds = <<>>
    /\ idPool = FullPool
    /\ handle = [id \in LinkId |-> NoClient]
    /\ backlog = <<>>
    /\ peer = [c \in Client |-> "off"]
    /\ sent = [c \in Client |-> FALSE]
    /\ asked = <<>>
    /\ lengths \in Bus
    /\ serialIn = <<>>

-----------------------------------------------------------------------------
\* The list and its iterator.

\* Operators named Bad... are faulty variants of the definition that follows them;
\* PROJECT.json (mutants) says which property notices each.

\* Every second link is passed over; the same without a look at the end; the list
\* taken for a ring without an end.
BadAfter(p, list) == IF p + 2 > Len(list) + 1 THEN Len(list) + 1 ELSE p + 2
BadAfterFar(p, list) == p + 2
BadAfterRing(p, list) == IF p >= Len(list) THEN 1 ELSE p + 1

\* ++ on an iterator of std::list.  On end() it is undefined; with the list of
\* libstdc++, a ring through its end node, it gives the first element.
After(p, list) == IF p = Len(list) + 1 THEN 1 ELSE p + 1

Without(list, p) == SubSeq(list, 1, p - 1) \o SubSeq(list, p + 1, Len(list))

\* The link at the iterator; the connection it stands for.
Current == linkIds[it]
CurrentClient == handle[Current]

\* The number is not given back.
BadDropLink ==
    LET rest == Without(linkIds, it)
    IN  /\ linkIds' = rest
        /\ handle' = [handle EXCEPT ![Current] = NoClient]
        /\ it' = After(it, rest)
        /\ UNCHANGED idPool

\* The connection is left open.
BadDropLinkOpen ==
    LET rest == Without(linkIds, it)
    IN  /\ linkIds' = rest
        /\ idPool' = Free(idPool, Current)
        /\ it' = After(it, rest)
        /\ UNCHANGED handle

\* erase(it++), close, free, and the ++ of the loop: the iterator stands on the
\* link after the erased one, and moves on once more.
DropLink ==
    LET rest == Without(linkIds, it)
    IN  /\ linkIds' = rest
        /\ handle' = [handle EXCEPT ![Current] = NoClient]
        /\ idPool' = Free(idPool, Current)
        /\ it' = After(it, rest)

\* continue
NextLink == it' = After(it, linkIds) /\ UNCHANGED <<linkIds, idPool, handle>>

\* The client whose connection the server has closed may come again.
Closed(c) == /\ peer' = [peer EXCEPT ![c] = "off"]
             /\ sent' = [sent EXCEPT ![c] = FALSE]

-----------------------------------------------------------------------------
\* TtyGate::accept and process.

\* A client is accepted only if a link is free for it.
Accept ==
    /\ phase = "accept"
    /\ phase' = "walk"
    /\ it' = 1
    /\ IF Empty(idPool) \/ backlog = <<>>
       THEN UNCHANGED <<linkIds, idPool, handle, backlog>>
       ELSE /\ idPool' = Pop(idPool)
            /\ handle' = [handle EXCEPT ![Front(idPool)] = Head(backlog)]
            /\ linkIds' = Append(linkIds, Front(idPool))
            /\ backlog' = Tail(backlog)
    /\ UNCHANGED <<peer, sent, asked, lengths, serialIn>>

EndOfWalk ==
    /\ phase = "walk"
    /\ it = Len(linkIds) + 1
    /\ phase' = "accept"
    /\ UNCHANGED <<it, linkIds, idPool, handle, backlog, peer, sent, asked, lengths,
                   serialIn>>

\* readFromLink: a client that has closed its end is noticed behind its last
\* bytes, which are dropped with it.  A request too long for the buffer is dropped,
\* and a write to the serial port may fail.
Visit ==
    /\ phase = "walk"
    /\ it <= Len(linkIds)
    /\ LET c == CurrentClient
       IN  \/ /\ peer[c] = "gone"
              /\ DropLink
              /\ Closed(c)
              /\ UNCHANGED <<phase, asked>>
           \/ /\ peer[c] = "up" /\ ~sent[c]
              /\ NextLink
              /\ UNCHANGED <<phase, peer, sent, asked>>
           \/ /\ peer[c] = "up" /\ sent[c]
              /\ sent' = [sent EXCEPT ![c] = FALSE]
              /\ \/ /\ Len(asked) < MaxAsked
                    /\ asked' = Append(asked, c)
                    /\ phase' = "collect"
                    /\ UNCHANGED <<it, linkIds, idPool, handle>>
                 \/ NextLink /\ UNCHANGED <<phase, asked>>
              /\ UNCHANGED peer
    /\ UNCHANGED <<backlog, lengths, serialIn>>

\* serial->read: the characters up to a silence, or until rxBuf is full.  That it is
\* full is noticed with one more character in hand, which is lost; the rest of the
\* answer stays in the port, for whoever reads it next.
LeftInPort == SubSeq(serialIn, BufSize + 2, Len(serialIn))

\* The answer is fetched as soon as the port is looked at.
BadCollect ==
    /\ phase = "collect"
    /\ serialIn' = LeftInPort
    /\ phase' = "walk"
    /\ NextLink
    /\ UNCHANGED <<peer, sent, backlog, asked, lengths>>

\* serial->read and link.write; a write fails only if the client has gone.  A
\* failure of the serial port throws out of the main loop.
Collect ==
    /\ phase = "collect"
    /\ Punctual => asked = <<>>
    /\ LET c == CurrentClient
       IN  \/ /\ phase' = "exit"
              /\ UNCHANGED <<it, linkIds, idPool, handle, peer, sent, serialIn>>
           \/ /\ serialIn = <<>>
              /\ phase' = "walk"
              /\ NextLink
              /\ UNCHANGED <<peer, sent, serialIn>>
           \/ /\ serialIn # <<>>
              /\ serialIn' = LeftInPort
              /\ phase' = "walk"
              /\ \/ NextLink /\ UNCHANGED <<peer, sent>>
                 \/ peer[c] = "gone" /\ DropLink /\ Closed(c)
    /\ UNCHANGED <<backlog, asked, lengths>>

Server == Accept \/ EndOfWalk \/ Visit \/ Collect

-----------------------------------------------------------------------------
\* Clients and meters.

Connect(c) ==
    /\ peer[c] = "off"
    /\ peer' = [peer EXCEPT ![c] = "up"]
    /\ backlog' = Append(backlog, c)
    /\ UNCHANGED <<serverVars, sent, asked, lengths, serialIn>>

Send(c) ==
    /\ peer[c] = "up"
    /\ ~sent[c]
    /\ sent' = [sent EXCEPT ![c] = TRUE]
    /\ UNCHANGED <<serverVars, backlog, peer, asked, lengths, serialIn>>

\* What a client has sent before is dropped with its connection.
HangUp(c) ==
    /\ peer[c] = "up"
    /\ peer' = [peer EXCEPT ![c] = "gone"]
    /\ sent' = [sent EXCEPT ![c] = FALSE]
    /\ UNCHANGED <<serverVars, backlog, asked, lengths, serialIn>>

Answer(c, n) == [k \in 1 .. n |-> c]

\* The meter that was asked first answers with some characters, or does not.
MeterAnswers ==
    /\ asked # <<>>
    /\ asked' = Tail(asked)
    /\ \E n \in {0} \cup lengths :
          /\ Len(serialIn) + n <= MaxWaiting
          /\ serialIn' = serialIn \o Answer(Head(asked), n)
    /\ UNCHANGED <<serverVars, backlog, peer, sent, lengths>>

Next ==
    \/ Server
    \/ \E c \in Client : Connect(c) \/ Send(c) \/ HangUp(c)
    \/ MeterAnswers

Safety == Init /\ [][Next]_vars

\* The rounds go on, and a meter that keeps a request for ever has lost it.
Spec == Safety /\ WF_vars(Server) /\ WF_vars(MeterAnswers)

-----------------------------------------------------------------------------
\* Properties.

InUse(id) == \E k \in 1 .. Len(linkIds) : linkIds[k] = id

\* Every link is either free or in use, once: the pool, a ring with wrapping
\* counters, and the list that is changed during the walk never lose a link and
\* never hand one out twice.
EachLinkOnce ==
    \A id \in LinkId :
        Cardinality({k \in 1 .. Len(linkIds) : linkIds[k] = id})
        + Cardinality({k \in DOMAIN Pending(idPool) : Pending(idPool)[k] = id}) = 1

\* A link holds a connection exactly while it is in use, and no two links hold the
\* same one: setHandl never overwrites a descriptor that is still open.
HandleWhileInUse ==
    /\ \A id \in LinkId : handle[id] # NoClient <=> InUse(id)
    /\ \A id, jd \in LinkId : handle[id] = handle[jd] /\ handle[id] # NoClient => id = jd

\* No answer is longer than what one call of serial->read takes out of the port.
AnswersFit == \A n \in lengths : n <= BufSize + 1

\* If the meters answer in time and no answer is longer than what one call of
\* serial->read takes out of the port (rxBuf and the character that is lost), what
\* goes back to a client is of the answer to the request it has just sent: nothing of
\* another exchange is left in the port.  A longer answer does leave some.
OwnAnswerOnly ==
    AnswersFit =>
        /\ phase \in {"accept", "walk"} => serialIn = <<>>
        /\ phase = "collect" => \A k \in DOMAIN serialIn : serialIn[k] = CurrentClient

\* Although a walk passes over the link behind an erased one and may start again
\* from the first, it ends, and every request of an accepted client that waits for
\* it is taken up.
EveryWalkEnds == []<>(phase \in {"accept", "exit"})
EveryRequestTaken ==
    \A c \in Client :
        (sent[c] /\ \E id \in LinkId : handle[id] = c) ~> (~sent[c] \/ phase = "exit")

\* A client beyond the number of links waits unaccepted until another leaves, no
\* longer: if nobody keeps its connection for ever, each is accepted.
Leaving == \A c \in Client : []<>(peer[c] # "up")
Waits(c) == \E k \in 1 .. Len(backlog) : backlog[k] = c
EveryClientAccepted == Leaving => \A c \in Client : Waits(c) ~> (~Waits(c) \/ phase = "exit")
=============================================================================
