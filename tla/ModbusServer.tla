------------------------------ MODULE ModbusServer ------------------------------
(***************************************************************************)
(* The Modbus server (ServerFsm.cpp, ModbusServer.cpp), its masters         *)
(* (ModbusClient.cpp) and the connections between them.  The server holds   *)
(* one connection at a time, the others wait unaccepted.  A connection is   *)
(* what the server can still read from it, and how its other end is: "up",  *)
(* "fin" if the server will notice that it is closed or broken, "dead" if   *)
(* the host has gone without a word.  The gates write the registers.        *)
(***************************************************************************)
EXTENDS ModbusCommands

CONSTANTS Master, NoMaster,
          MaxBacklog,  \* connections the kernel keeps for accept, 5 in the program
          Setting      \* the worlds the server is looked at in: the masters there are,
                       \* the requests they make, what the gates store (stores), does
                       \* every frame arrive without a pause in it (whole), may the
                       \* host of a master go without closing (vanish)

\* A store of a gate: a value, or only a status.
IsStore(e) ==
    /\ e.param \in Nat
    /\ IF "val" \in DOMAIN e THEN e.val \in Word \X Word ELSE e.status \in Status \cap Word

Request == UNION {s.requests : s \in Setting}

ASSUME ServerAssumption ==
    /\ NoMaster \notin Master
    /\ MaxBacklog \in Nat
    /\ \A s \in Setting : /\ s.masters \subseteq Master
                          /\ \A r \in s.requests : IsRequest(r)
                          /\ \A e \in s.stores : IsStore(e)
                          /\ s.whole \in BOOLEAN
                          /\ s.vanish \in BOOLEAN

VARIABLES setting,  \* the world of this behaviour
          state,    \* the state of ServerFsm
          tick,     \* its tick; only the remainder by 4 is looked at
          link,     \* the connection of the server, or NoConn
          backlog,  \* connections not yet accepted
          regs,     \* the register file
          client,   \* the state of each ModbusClient
          stored,   \* its storedAdu as long as it is looked at, or NoRequest
          peer,     \* its connection as it sees it: "none", "up", "closed"
          reply     \* what it has not yet read of that connection; "to" is the
                    \* request answered, which the frame does not say

serverVars == <<setting, state, tick, link, backlog, regs>>
clientVars == <<client, stored, peer, reply>>
vars == <<setting, state, tick, link, backlog, regs, client, stored, peer, reply>>

NoConn == [who |-> NoMaster, end |-> "none", inbox |-> <<>>]
NewConn(m) == [who |-> m, end |-> "up", inbox |-> <<>>]
NoRequest == [fc |-> "none"]

Conn == [who : Master, end : {"up", "fin", "dead"}, inbox : Seq(Request)]

Answer == [fc : {"error"}, err : {"IllegalFunction", "IllegalDataAddress",
                                   "IllegalDataValue", "SlaveDeviceFailure"}]
          \cup [fc : {"read"}, data : Seq(Word)]
          \cup [fc : {"write"}, start : Reg, val : Word]
          \cup [fc : {"multi"}, start : Reg, num : Nat]

TypeOK ==
    /\ setting \in Setting
    /\ state \in {"init", "accept", "process", "error"}
    /\ tick \in 0 .. 3
    /\ link \in Conn \cup {NoConn}
    /\ backlog \in Seq(Conn)
    /\ regs \in Registers
    /\ client \in [Master -> {"init", "idle", "connect", "run", "wait", "error"}]
    /\ stored \in [Master -> Request \cup {NoRequest}]
    /\ peer \in [Master -> {"none", "up", "closed"}]
    /\ reply \in [Master -> Seq([to : Request, ans : Answer])]

Init ==
    /\ setting \in Setting
    /\ state = "init"
    /\ tick = 0
    /\ link = NoConn
    /\ backlog = <<>>
    /\ regs = [i \in Reg |-> 0]
    /\ client = [m \in Master |-> "init"]
    /\ stored = [m \in Master |-> NoRequest]
    /\ peer = [m \in Master |-> "none"]
    /\ reply = [m \in Master |-> <<>>]

-----------------------------------------------------------------------------
\* The connection of master m, wherever the server has it: its end goes, or a
\* request arrives on it.

IsLive(c, m) == c.who = m /\ c.end = "up"

Ended(c, m, end) == IF IsLive(c, m) THEN [c EXCEPT !.end = end] ELSE c
Reached(c, m, r) == IF IsLive(c, m) THEN [c EXCEPT !.inbox = Append(@, r)] ELSE c

EndConnection(m, end) ==
    /\ link' = Ended(link, m, end)
    /\ backlog' = [k \in DOMAIN backlog |-> Ended(backlog[k], m, end)]

-----------------------------------------------------------------------------
\* The server: ServerFsm::tickInd and the operations of ModbusServer it calls.
\* Operators named Bad... are faulty variants of the definition that follows them;
\* PROJECT.json (mutants) says which property notices each.

NextTick == (tick + 1) % 4

LeaveInit ==
    /\ state = "init"
    /\ state' = IF tick = 0 THEN "accept" ELSE "init"
    /\ UNCHANGED <<setting, link, backlog, regs, clientVars>>

Accept ==
    /\ state = "accept"
    /\ IF backlog = <<>>
       THEN UNCHANGED <<state, link, backlog>>
       ELSE /\ link' = Head(backlog)
            /\ backlog' = Tail(backlog)
            /\ state' = "process"
    /\ UNCHANGED <<setting, regs, clientVars>>

\* The connection is given up in the server's books only.
BadReset == link' = NoConn /\ state' = "error" /\ UNCHANGED peer

\* reset, and the change of state that follows it.
Reset ==
    /\ link' = NoConn
    /\ state' = "error"
    /\ peer' = IF link.end = "up" THEN [peer EXCEPT ![link.who] = "closed"] ELSE peer

\* The frame is out of the socket.
Taken == [link EXCEPT !.inbox = Tail(@)]

\* process with a valid frame: the command, and sendRespond, which fails when the
\* other end is known to have gone.  TCP finds out about a dead end when the answer
\* is never acknowledged.
Execute ==
    LET r == Head(link.inbox)
        done == ProcessAdu(regs, r)
    IN  /\ regs' = done.regs
        /\ \/ /\ link.end = "up"
              /\ reply' = [reply EXCEPT ![link.who] = Append(@, [to |-> r, ans |-> done.ans])]
              /\ link' = Taken
              /\ UNCHANGED <<state, peer>>
           \/ /\ link.end \in {"fin", "dead"}
              /\ link' = [Taken EXCEPT !.end = "fin"]
              /\ UNCHANGED <<state, peer, reply>>
           \/ /\ link.end = "fin"
              /\ Reset
              /\ UNCHANGED reply

\* A pause in the header: what has been read of it is forgotten, and the rest, if it
\* is long enough, taken for a header that is not valid.  A pause behind it: invalid.
Misread ==
    /\ \/ link' = Taken /\ UNCHANGED <<state, peer>>
       \/ Reset
    /\ UNCHANGED <<regs, reply>>

Process ==
    /\ state = "process"
    /\ \/ /\ link.inbox = <<>> /\ link.end # "fin"
          /\ UNCHANGED <<state, link, regs, peer, reply>>
       \/ /\ link.inbox = <<>> /\ link.end = "fin"
          /\ Reset
          /\ UNCHANGED <<regs, reply>>
       \/ /\ link.inbox # <<>> /\ IsValid(Head(link.inbox))
          /\ Execute
       \/ /\ link.inbox # <<>> /\ ~IsValid(Head(link.inbox))
          /\ Reset
          /\ UNCHANGED <<regs, reply>>
       \/ /\ link.inbox # <<>> /\ ~setting.whole
          /\ Misread
    /\ UNCHANGED <<setting, backlog, client, stored>>

\* The remainder is never met.
BadError ==
    /\ state = "error"
    /\ state' = IF tick = 4 THEN "init" ELSE "error"
    /\ UNCHANGED <<setting, link, backlog, regs, clientVars>>

Error ==
    /\ state = "error"
    /\ state' = IF tick = 0 THEN "init" ELSE "error"
    /\ UNCHANGED <<setting, link, backlog, regs, clientVars>>

ServerTick ==
    /\ LeaveInit \/ Accept \/ Process \/ Error
    /\ tick' = NextTick

-----------------------------------------------------------------------------
\* The masters: ModbusClient::tickInd, and exec called by its user.  The remainders
\* of its tick are left to chance.

ClientInit(m) ==
    /\ client[m] = "init"
    /\ client' = [client EXCEPT ![m] = "idle"]
    /\ UNCHANGED <<serverVars, stored, peer, reply>>

ClientIdle(m) ==
    /\ client[m] = "idle"
    /\ client' = [client EXCEPT ![m] = "connect"]
    /\ UNCHANGED <<serverVars, stored, peer, reply>>

\* The kernel connects it as long as the backlog has room.
ClientConnect(m) ==
    /\ client[m] = "connect"
    /\ \/ /\ Len(backlog) < MaxBacklog
          /\ backlog' = Append(backlog, NewConn(m))
          /\ peer' = [peer EXCEPT ![m] = "up"]
          /\ client' = [client EXCEPT ![m] = "run"]
       \/ /\ client' = [client EXCEPT ![m] = "error"]
          /\ UNCHANGED <<backlog, peer>>
    /\ UNCHANGED <<setting, state, tick, link, regs, stored, reply>>

\* The result of the write is not looked at.
Exec(m, r) ==
    /\ client[m] = "run"
    /\ client' = [client EXCEPT ![m] = "wait"]
    /\ stored' = [stored EXCEPT ![m] = r]
    /\ link' = Reached(link, m, r)
    /\ backlog' = [k \in DOMAIN backlog |-> Reached(backlog[k], m, r)]
    /\ UNCHANGED <<setting, state, tick, regs, peer, reply>>

\* The master waits no longer than its timeout.
BadClientWait(m) ==
    /\ client[m] = "wait"
    /\ reply' = [reply EXCEPT ![m] = IF @ = <<>> THEN @ ELSE Tail(@)]
    /\ client' = [client EXCEPT ![m] = "run"]
    /\ stored' = [stored EXCEPT ![m] = NoRequest]
    /\ UNCHANGED <<serverVars, peer>>

\* processWait: any whole answer ends it, an end of the connection leads to error, and
\* nothing else does: it has no limit of its own.
ClientWait(m) ==
    /\ client[m] = "wait"
    /\ \/ /\ reply[m] # <<>>
          /\ reply' = [reply EXCEPT ![m] = Tail(@)]
          /\ client' = [client EXCEPT ![m] = "run"]
          /\ UNCHANGED peer
       \/ /\ reply[m] = <<>> /\ peer[m] = "closed"
          /\ client' = [client EXCEPT ![m] = "error"]
          /\ peer' = [peer EXCEPT ![m] = "none"]
          /\ UNCHANGED reply
    /\ stored' = [stored EXCEPT ![m] = NoRequest]
    /\ UNCHANGED serverVars

\* The socket has been closed before, where the error was met.
ClientError(m) ==
    /\ client[m] = "error"
    /\ client' = [client EXCEPT ![m] = "idle"]
    /\ UNCHANGED <<serverVars, stored, peer, reply>>

ClientTick(m) ==
    ClientInit(m) \/ ClientIdle(m) \/ ClientConnect(m) \/ ClientWait(m) \/ ClientError(m)

-----------------------------------------------------------------------------
\* The world.

\* The program of the master ends and is started again.
Leave(m) ==
    /\ client[m] # "init"
    /\ EndConnection(m, "fin")
    /\ client' = [client EXCEPT ![m] = "init"]
    /\ stored' = [stored EXCEPT ![m] = NoRequest]
    /\ peer' = [peer EXCEPT ![m] = "none"]
    /\ reply' = [reply EXCEPT ![m] = <<>>]
    /\ UNCHANGED <<setting, state, tick, regs>>

\* Its host loses power, and is started again.
Vanish(m) ==
    /\ setting.vanish
    /\ client[m] # "init"
    /\ EndConnection(m, "dead")
    /\ client' = [client EXCEPT ![m] = "init"]
    /\ stored' = [stored EXCEPT ![m] = NoRequest]
    /\ peer' = [peer EXCEPT ![m] = "none"]
    /\ reply' = [reply EXCEPT ![m] = <<>>]
    /\ UNCHANGED <<setting, state, tick, regs>>

\* The connection breaks, and both ends will notice.
Break(m) ==
    /\ peer[m] = "up"
    /\ EndConnection(m, "fin")
    /\ peer' = [peer EXCEPT ![m] = "closed"]
    /\ reply' = [reply EXCEPT ![m] = <<>>]
    /\ UNCHANGED <<setting, state, tick, regs, client, stored>>

\* A gate stores what it has read, or that it has not.
GateStores ==
    /\ \E e \in setting.stores :
          regs' = IF "val" \in DOMAIN e THEN setValue(regs, e.param, e.val)
                  ELSE setStatus(regs, e.param, e.status)
    /\ UNCHANGED <<setting, state, tick, link, backlog, clientVars>>

Next ==
    \/ ServerTick
    \/ \E m \in setting.masters : ClientTick(m) \/ \E r \in setting.requests : Exec(m, r)
    \/ \E m \in setting.masters : Leave(m) \/ Vanish(m) \/ Break(m)
    \/ GateStores

Safety == Init /\ [][Next]_vars

\* Server and masters are ticked for ever.
Spec == Safety /\ WF_vars(ServerTick) /\ \A m \in Master : WF_vars(m \in setting.masters /\ ClientTick(m))

-----------------------------------------------------------------------------
\* Properties.

\* A master takes the first answer for the answer to what it has asked last, since
\* every transactionId is 0; and it is, over all breaks, resets and restarts.
OwnAnswer ==
    \A m \in Master :
        /\ Len(reply[m]) <= 1
        /\ \A k \in DOMAIN reply[m] : client[m] = "wait" /\ reply[m][k].to = stored[m]

\* The server holds a connection exactly in state process, and a master that has one
\* open is known to the server exactly once, as the one served or in the backlog: no
\* connection is forgotten with its socket open.
NoConnectionForgotten ==
    /\ (state = "process") <=> (link # NoConn)
    /\ \A m \in Master :
          LET places == {k \in 0 .. Len(backlog) :
                            IsLive(IF k = 0 THEN link ELSE backlog[k], m)}
          IN  IF peer[m] = "up" THEN \E k \in places : places = {k} ELSE places = {}

\* The conversation of each master as RegisterService sees it.
Conns == <<link>> \o backlog

OrphansIn(conns, m) ==
    LET F[k \in 0 .. Len(conns)] ==
            IF k = 0 THEN <<>>
            ELSE IF conns[k].who = m /\ conns[k].end # "up" THEN F[k - 1] \o conns[k].inbox
            ELSE F[k - 1]
    IN  F[Len(conns)]

CallOf(m) ==
    IF client[m] # "wait" THEN [stage |-> "idle"]
    ELSE IF reply[m] # <<>>
    THEN LET ans == Head(reply[m]).ans
         IN  [stage |-> "answered", ok |-> ans.fc # "error",
              data |-> IF ans.fc = "read" THEN ans.data ELSE <<>>]
    ELSE IF \E k \in DOMAIN Conns : IsLive(Conns[k], m) /\ Conns[k].inbox # <<>>
    THEN [stage |-> "waiting", req |-> stored[m]]
    ELSE [stage |-> "idle"]

Service == INSTANCE RegisterService
             WITH call <- [m \in Master |-> CallOf(m)],
                  orphans <- [m \in Master |-> OrphansIn(Conns, m)]

\* Every request takes effect at most once, in the order its master has sent them,
\* entirely or not at all, and is answered with the result of that moment.
ImplementsRegisterService == Service!Spec

\* Where a master is alone, its frames arrive whole and it closes what it leaves, a
\* request is answered, or its master learns that the connection has gone.
Answerable(m) == setting.masters = {m} /\ setting.whole /\ ~setting.vanish

EveryRequestAnswered ==
    \A m \in Master : Answerable(m) /\ client[m] = "wait" ~> client[m] # "wait"
===============================================================================
