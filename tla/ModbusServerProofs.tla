--------------------------- MODULE ModbusServerProofs ---------------------------
(***************************************************************************)
(* Proofs about the Modbus server and its masters, for every number of      *)
(* masters, every size of the register file, every set of requests and      *)
(* every backlog: stores of different parameters do not touch each other,   *)
(* a command writes the registers it names or none, an answer belongs to    *)
(* the request its master has sent last, no connection is forgotten, and    *)
(* all of it together implements RegisterService.                           *)
(***************************************************************************)
EXTENDS ModbusServer, SequenceTheorems, WellFoundedInduction, TLAPS

\* The four registers of a parameter.
RegsOf(param) == FirstReg(param) .. FirstReg(param) + regsPerParam - 1

\* The registers a request may write.
Named(r) == CASE r.fc = "write" -> {r.start}
              [] r.fc = "multi" -> r.start .. (r.start + r.num - 1)
              [] OTHER -> {}

-----------------------------------------------------------------------------
\* The gates.

\* No register belongs to two parameters.
LEMMA RegsApart ==
    ASSUME NEW p \in Nat, NEW q \in Nat, p # q
    PROVE  RegsOf(p) \cap RegsOf(q) = {}
  BY DEF RegsOf, FirstReg, regsPerParam

\* A store of parameter p writes only registers of p, and they keep their type.  A
\* parameter is stored whole or not at all: one whose registers lie beyond the end of
\* the file, if only by the last that is written, changes none of the file.
THEOREM StoresStayApart ==
    ASSUME NEW file \in Registers, NEW p \in Nat, NEW val \in Word \X Word,
           NEW st \in Status \cap Word
    PROVE  /\ setValue(file, p, val) \in Registers /\ setStatus(file, p, st) \in Registers
           /\ \A q \in Nat \ {p} : \A i \in RegsOf(q) \cap Reg :
                 setValue(file, p, val)[i] = file[i] /\ setStatus(file, p, st)[i] = file[i]
           /\ validateParamId(p) =>
                 /\ FirstReg(p) \in Reg /\ FirstReg(p) + 1 \in Reg
                 /\ setValue(file, p, val)[FirstReg(p)] = val[1]
                 /\ setValue(file, p, val)[FirstReg(p) + 1] = val[2]
                 /\ setValue(file, p, val)[StatusReg(p)] = ready
                 /\ setStatus(file, p, st)[StatusReg(p)] = st
           /\ ~(RegsOf(p) \ {StatusReg(p) + 1} \subseteq Reg) =>
                 setValue(file, p, val) = file /\ setStatus(file, p, st) = file
<1> USE RegisterAssumption DEF Registers, Reg
<1> DEFINE a == FirstReg(p)
<1>1. a \in Nat /\ StatusReg(p) = a + 2
  BY DEF FirstReg, StatusReg, regsPerParam, paramStatusOffset
<1>2. validateParamId(p) => a \in Reg /\ a + 1 \in Reg /\ a + 2 \in Reg
  BY <1>1 DEF validateParamId
<1>3. val[1] \in Word /\ val[2] \in Word /\ ready \in Word /\ st \in Word
  BY DEF ready
<1>4. ASSUME validateParamId(p)
      PROVE  /\ setValue(file, p, val) =
                  [i \in Reg |-> IF i = a + 2 THEN ready ELSE IF i = a + 1 THEN val[2]
                                  ELSE IF i = a THEN val[1] ELSE file[i]]
             /\ setStatus(file, p, st) = [i \in Reg |-> IF i = a + 2 THEN st ELSE file[i]]
  <2>1. setValue(file, p, val) =
           [[[file EXCEPT ![a] = val[1]] EXCEPT ![a + 1] = val[2]] EXCEPT ![a + 2] = ready]
    BY <1>1, <1>4, Zenon DEF setValue
  <2>2. setStatus(file, p, st) = [file EXCEPT ![a + 2] = st]
    BY <1>1, <1>4, Zenon DEF setStatus
  <2> HIDE DEF a
  <2> QED
    BY <1>1, <1>2, <1>4, <2>1, <2>2
<1>5. ASSUME ~validateParamId(p)
      PROVE  setValue(file, p, val) = file /\ setStatus(file, p, st) = file
  BY <1>5 DEF setValue, setStatus
<1>6. ASSUME NEW q \in Nat \ {p}, NEW i \in RegsOf(q)
      PROVE  i # a /\ i # a + 1 /\ i # a + 2
  <2>1. a \in RegsOf(p) /\ a + 1 \in RegsOf(p) /\ a + 2 \in RegsOf(p)
    BY <1>1 DEF RegsOf, regsPerParam
  <2> QED
    BY <1>6, <2>1, RegsApart
<1> HIDE DEF a
<1>7. setValue(file, p, val) \in Registers /\ setStatus(file, p, st) \in Registers
  BY <1>3, <1>4, <1>5
<1>8. \A q \in Nat \ {p} : \A i \in RegsOf(q) \cap Reg :
          setValue(file, p, val)[i] = file[i] /\ setStatus(file, p, st)[i] = file[i]
  BY <1>4, <1>5, <1>6
<1>9. validateParamId(p) =>
          /\ a \in Reg /\ a + 1 \in Reg
          /\ setValue(file, p, val)[a] = val[1]
          /\ setValue(file, p, val)[a + 1] = val[2]
          /\ setValue(file, p, val)[StatusReg(p)] = ready
          /\ setStatus(file, p, st)[StatusReg(p)] = st
  BY <1>1, <1>2, <1>4
<1>10. validateParamId(p) => RegsOf(p) \ {StatusReg(p) + 1} \subseteq Reg
  BY <1>1, <1>2 DEF RegsOf, regsPerParam, a
<1> QED
  BY <1>5, <1>7, <1>8, <1>9, <1>10 DEF a

-----------------------------------------------------------------------------
\* The masters.

\* Whatever is asked, the registers keep their type, and of those the request does not
\* name none is changed; an error has changed nothing at all, so a refused multi-write
\* has not been begun.
THEOREM CommandsWholeOrNothing ==
    ASSUME NEW file \in Registers, NEW r, IsRequest(r)
    PROVE  LET done == ProcessAdu(file, r)
           IN  /\ done.regs \in Registers
               /\ \A i \in Reg \ Named(r) : done.regs[i] = file[i]
               /\ done.ans.fc = "error" => done.regs = file
<1> USE DEF Registers, SendError
<1> DEFINE Kept(done) == /\ done.regs \in Registers
                         /\ \A i \in Reg \ Named(r) : done.regs[i] = file[i]
                         /\ done.ans.fc = "error" => done.regs = file
<1>1. CASE r.fc = "read"
  <2>1. ReadCmd(file, r).regs = file
    BY DEF ReadCmd
  <2> QED
    BY <1>1, <2>1 DEF ProcessAdu
<1>2. CASE r.fc = "write"
  <2>1. r.start \in Nat /\ r.val \in Word
    BY <1>2 DEF IsRequest
  <2>2. Kept(WriteCmd(file, r))
    BY <1>2, <2>1 DEF WriteCmd, Named, Reg
  <2> QED
    BY <1>2, <2>2 DEF ProcessAdu
<1>3. CASE r.fc = "multi"
  <2>1. r.start \in Nat /\ r.num \in Nat /\ r.vals \in [1 .. r.num -> Word]
    BY <1>3 DEF IsRequest
  <2>2. Named(r) = r.start .. (r.start + r.num - 1)
    BY <1>3 DEF Named
  <2>3. \A i \in Named(r) : i - r.start + 1 \in 1 .. r.num
    BY <2>1, <2>2
  <2>4. Kept(MultiWriteCmd(file, r))
    BY <2>1, <2>2, <2>3 DEF MultiWriteCmd
  <2> QED
    BY <1>3, <2>4 DEF ProcessAdu
<1>4. CASE r.fc = "other"
  BY <1>4 DEF ProcessAdu
<1> QED
  BY <1>1, <1>2, <1>3, <1>4 DEF IsRequest

-----------------------------------------------------------------------------
\* The connections: the one served and those in the backlog.

Place == 0 .. Len(backlog)
Held(l, b, k) == IF k = 0 THEN l ELSE b[k]
At(k) == Held(link, backlog, k)
Live(k, m) == IsLive(At(k), m)

\* A master has a connection of its own, open or closed by the server, exactly while it
\* runs or waits.
PeerMatchesClient == \A m \in Master : client[m] \in {"run", "wait"} <=> peer[m] # "none"

LinkInProcess == (state = "process") <=> (link # NoConn)

\* NoConnectionForgotten, without the set.
LiveOnce(m) ==
    /\ peer[m] = "up" => \E k \in Place : Live(k, m)
    /\ peer[m] # "up" => \A k \in Place : ~Live(k, m)
    /\ \A j, k \in Place : Live(j, m) /\ Live(k, m) => j = k

\* What has arrived on a live connection is the one request its master waits on, and
\* then no answer is on its way.
OneRequest(m) ==
    \A k \in Place : Live(k, m) /\ At(k).inbox # <<>> =>
        client[m] = "wait" /\ reply[m] = <<>> /\ At(k).inbox = <<stored[m]>>

\* OwnAnswer for one master.
OneAnswer(m) ==
    /\ Len(reply[m]) <= 1
    /\ reply[m] # <<>> => client[m] = "wait" /\ Head(reply[m]).to = stored[m]

MasterInv(m) == LiveOnce(m) /\ OneRequest(m) /\ OneAnswer(m)

IInv == TypeOK /\ PeerMatchesClient /\ LinkInProcess /\ \A m \in Master : MasterInv(m)

-----------------------------------------------------------------------------
\* Types.

\* Requests come from the world the server is looked at in; NoRequest is none of them.
LEMMA RequestFacts ==
    /\ \A r \in Request : IsRequest(r) /\ r # NoRequest
    /\ setting \in Setting => setting.requests \subseteq Request /\ setting.masters \subseteq Master
<1>1. \A r \in Request : IsRequest(r)
  BY ServerAssumption DEF Request
<1>2. ~IsRequest(NoRequest)
  BY DEF IsRequest, NoRequest
<1> QED BY <1>1, <1>2, ServerAssumption DEF Request

\* What is answered has the form of an answer.
LEMMA AnswerType ==
    ASSUME NEW file \in Registers, NEW r, IsRequest(r)
    PROVE  ProcessAdu(file, r).ans \in Answer
<1>1. \A err \in {"IllegalFunction", "IllegalDataAddress", "IllegalDataValue", "SlaveDeviceFailure"} :
          SendError(file, err).ans \in Answer
  BY DEF SendError, Answer
<1>2. CASE r.fc = "read"
  <2>1. r.start \in Nat /\ r.num \in Nat
    BY <1>2 DEF IsRequest
  <2>2. ASSUME ~(r.start + r.num >= NumRegs)
        PROVE  [k \in 1 .. r.num |-> file[r.start + k - 1]] \in Seq(Word)
    <3>1. \A k \in 1 .. r.num : r.start + k - 1 \in Reg
      BY <2>1, <2>2, RegisterAssumption DEF Reg
    <3>2. [k \in 1 .. r.num |-> file[r.start + k - 1]] \in [1 .. r.num -> Word]
      BY <3>1 DEF Registers
    <3> QED BY <2>1, <3>2, SeqDef
  <2> DEFINE data == [k \in 1 .. r.num |-> file[r.start + k - 1]]
  <2>3. data \in Seq(Word) => [fc |-> "read", data |-> data] \in Answer
    BY DEF Answer
  <2>4. ReadCmd(file, r).ans \in Answer
    <3> HIDE DEF data
    <3>1. ReadCmd(file, r) \in {SendError(file, "IllegalDataValue"), SendError(file, "IllegalDataAddress")}
          \/ (~(r.start + r.num >= NumRegs) /\ ReadCmd(file, r).ans = [fc |-> "read", data |-> data])
      BY DEF ReadCmd, data
    <3> QED BY <1>1, <2>2, <2>3, <3>1 DEF data
  <2> QED BY <1>2, <2>4 DEF ProcessAdu
<1>3. CASE r.fc = "write"
  <2>1. r.start \in Nat /\ r.val \in Word
    BY <1>3 DEF IsRequest
  <2>2. ~(r.start >= NumRegs) => r.start \in Reg
    BY <2>1, RegisterAssumption DEF Reg
  <2>3. WriteCmd(file, r).ans \in Answer
    BY <1>1, <2>1, <2>2 DEF WriteCmd, Answer
  <2> QED BY <1>3, <2>3 DEF ProcessAdu
<1>4. CASE r.fc = "multi"
  <2>1. r.start \in Nat /\ r.num \in Nat
    BY <1>4 DEF IsRequest
  <2>2. ~(r.start + r.num >= NumRegs) => r.start + r.num \in Reg
    BY <2>1, RegisterAssumption DEF Reg
  <2>3. MultiWriteCmd(file, r).ans \in Answer
    BY <1>1, <2>1, <2>2 DEF MultiWriteCmd, Answer
  <2> QED BY <1>4, <2>3 DEF ProcessAdu
<1>5. CASE r.fc = "other"
  BY <1>1, <1>5 DEF ProcessAdu
<1> QED BY <1>2, <1>3, <1>4, <1>5 DEF IsRequest

\* The operations on one connection.
LEMMA ConnType ==
    ASSUME NEW c \in Conn \cup {NoConn}, NEW m \in Master
    PROVE  /\ \A end \in {"fin", "dead"} :
                 /\ Ended(c, m, end) \in {c} \cup Conn
                 /\ Ended(c, m, end).inbox = c.inbox
                 /\ \A x \in Master : IsLive(Ended(c, m, end), x) <=> IsLive(c, x) /\ x # m
           /\ \A r \in Request :
                 /\ Reached(c, m, r) \in {c} \cup Conn
                 /\ Reached(c, m, r).inbox = IF IsLive(c, m) THEN Append(c.inbox, r) ELSE c.inbox
                 /\ \A x \in Master : IsLive(Reached(c, m, r), x) <=> IsLive(c, x)
           /\ c \in Conn \/ \A x \in Master : ~IsLive(c, x)
<1>1. ASSUME c \in Conn
      PROVE  /\ \A end \in {"fin", "dead"} :
                   [c EXCEPT !.end = end] = [who |-> c.who, end |-> end, inbox |-> c.inbox]
             /\ \A r \in Request : [c EXCEPT !.inbox = Append(@, r)] =
                   [who |-> c.who, end |-> c.end, inbox |-> Append(c.inbox, r)]
             /\ c.who \in Master /\ c.inbox \in Seq(Request) /\ c.end \in {"up", "fin", "dead"}
  BY <1>1 DEF Conn
<1>2. c \notin Conn => ~IsLive(c, m) /\ \A x \in Master : ~IsLive(c, x)
  BY DEF IsLive, NoConn
<1>3. \A end \in {"fin", "dead"} :
                 /\ Ended(c, m, end) \in {c} \cup Conn
                 /\ Ended(c, m, end).inbox = c.inbox
                 /\ \A x \in Master : IsLive(Ended(c, m, end), x) <=> IsLive(c, x) /\ x # m
  BY <1>1, <1>2 DEF Ended, IsLive, Conn
<1>4. ASSUME NEW r \in Request
      PROVE  /\ Reached(c, m, r) \in {c} \cup Conn
             /\ Reached(c, m, r).inbox = IF IsLive(c, m) THEN Append(c.inbox, r) ELSE c.inbox
             /\ \A x \in Master : IsLive(Reached(c, m, r), x) <=> IsLive(c, x)
  <2>1. CASE ~IsLive(c, m)
    BY <2>1 DEF Reached
  <2>2. CASE IsLive(c, m)
    <3>1. c \in Conn
      BY <1>2, <2>2
    <3>2. Reached(c, m, r) = [who |-> c.who, end |-> c.end, inbox |-> Append(c.inbox, r)]
      BY <1>1, <2>2, <3>1 DEF Reached
    <3>3. Append(c.inbox, r) \in Seq(Request)
      BY <1>1, <3>1
    <3> QED BY <1>1, <2>2, <3>1, <3>2, <3>3 DEF Conn, IsLive
  <2> QED BY <2>1, <2>2
<1> QED BY <1>2, <1>3, <1>4

\* A change of every connection in the backlog.
LEMMA BacklogType ==
    ASSUME TypeOK, NEW m \in Master
    PROVE  /\ \A end \in {"fin", "dead"} :
                 LET new == [k \in DOMAIN backlog |-> Ended(backlog[k], m, end)]
                 IN  new \in Seq(Conn) /\ Len(new) = Len(backlog)
           /\ \A r \in Request :
                 LET new == [k \in DOMAIN backlog |-> Reached(backlog[k], m, r)]
                 IN  new \in Seq(Conn) /\ Len(new) = Len(backlog)
<1>1. /\ backlog \in [1 .. Len(backlog) -> Conn] /\ Len(backlog) \in Nat
      /\ DOMAIN backlog = 1 .. Len(backlog)
  BY DEF TypeOK
<1>2. ASSUME NEW end \in {"fin", "dead"}
      PROVE  LET new == [k \in DOMAIN backlog |-> Ended(backlog[k], m, end)]
             IN  new \in Seq(Conn) /\ Len(new) = Len(backlog)
  <2> DEFINE new == [k \in DOMAIN backlog |-> Ended(backlog[k], m, end)]
  <2>1. \A k \in 1 .. Len(backlog) : Ended(backlog[k], m, end) \in Conn
    BY <1>1, ConnType
  <2>2. new \in [1 .. Len(backlog) -> Conn]
    BY <1>1, <2>1
  <2>3. new \in Seq(Conn)
    BY <1>1, <2>2, SeqDef
  <2>4. DOMAIN new = 1 .. Len(backlog)
    BY <1>1
  <2> HIDE DEF new
  <2>5. Len(new) = Len(backlog)
    BY <1>1, <2>3, <2>4, LenProperties
  <2> QED BY <2>3, <2>5 DEF new
<1>3. ASSUME NEW r \in Request
      PROVE  LET new == [k \in DOMAIN backlog |-> Reached(backlog[k], m, r)]
             IN  new \in Seq(Conn) /\ Len(new) = Len(backlog)
  <2> DEFINE new == [k \in DOMAIN backlog |-> Reached(backlog[k], m, r)]
  <2>1. \A k \in 1 .. Len(backlog) : Reached(backlog[k], m, r) \in Conn
    BY <1>1, ConnType
  <2>2. new \in [1 .. Len(backlog) -> Conn]
    BY <1>1, <2>1
  <2>3. new \in Seq(Conn)
    BY <1>1, <2>2, SeqDef
  <2>4. DOMAIN new = 1 .. Len(backlog)
    BY <1>1
  <2> HIDE DEF new
  <2>5. Len(new) = Len(backlog)
    BY <1>1, <2>3, <2>4, LenProperties
  <2> QED BY <2>3, <2>5 DEF new
<1> QED BY <1>2, <1>3

\* The connection served, when a frame has been taken out of it.
LEMMA TakenType ==
    ASSUME TypeOK, link.inbox # <<>>
    PROVE  /\ link \in Conn /\ Head(link.inbox) \in Request
           /\ Taken = [who |-> link.who, end |-> link.end, inbox |-> Tail(link.inbox)]
           /\ [Taken EXCEPT !.end = "fin"] =
                 [who |-> link.who, end |-> "fin", inbox |-> Tail(link.inbox)]
           /\ Taken \in Conn /\ [Taken EXCEPT !.end = "fin"] \in Conn
<1>1. link \in Conn
  BY DEF TypeOK, NoConn
<1>2. link.inbox \in Seq(Request) /\ link.who \in Master /\ link.end \in {"up", "fin", "dead"}
      /\ link = [who |-> link.who, end |-> link.end, inbox |-> link.inbox]
  BY <1>1 DEF Conn
<1>3. Tail(link.inbox) \in Seq(Request) /\ Head(link.inbox) \in Request
  BY <1>2
<1>4. ASSUME NEW c \in Conn, NEW q \in Seq(Request)
      PROVE  [c EXCEPT !.inbox = q] = [who |-> c.who, end |-> c.end, inbox |-> q]
  BY DEF Conn
<1>5. Taken = [who |-> link.who, end |-> link.end, inbox |-> Tail(link.inbox)]
  BY <1>1, <1>3, <1>4, Zenon DEF Taken
<1>6. [Taken EXCEPT !.end = "fin"] =
          [who |-> link.who, end |-> "fin", inbox |-> Tail(link.inbox)]
  BY <1>5
<1> QED BY <1>1, <1>2, <1>3, <1>5, <1>6 DEF Conn

\* What a tick of the server does to connections and answers.
ServerStep ==
    \/ /\ UNCHANGED <<link, backlog, peer, reply>>
       /\ state' = "process" <=> state = "process"
    \/ /\ state = "accept" /\ state' = "process"
       /\ backlog # <<>> /\ link' = Head(backlog) /\ backlog' = Tail(backlog)
       /\ UNCHANGED <<peer, reply>>
    \/ /\ state = "process" /\ state' = "error"
       /\ link' = NoConn
       /\ peer' = IF link.end = "up" THEN [peer EXCEPT ![link.who] = "closed"] ELSE peer
       /\ UNCHANGED <<backlog, reply>>
    \/ /\ state = "process" /\ state' = "process"
       /\ link.inbox # <<>>
       /\ \/ link' = Taken
          \/ link.end \in {"fin", "dead"} /\ link' = [Taken EXCEPT !.end = "fin"]
       /\ UNCHANGED <<backlog, peer, reply>>
    \/ /\ state = "process" /\ state' = "process"
       /\ link.inbox # <<>> /\ link.end = "up" /\ link' = Taken
       /\ reply' = [reply EXCEPT ![link.who] =
                        Append(@, [to |-> Head(link.inbox),
                                   ans |-> ProcessAdu(regs, Head(link.inbox)).ans])]
       /\ UNCHANGED <<backlog, peer>>

LEMMA ServerTickSteps ==
    ASSUME TypeOK, ServerTick
    PROVE  /\ ServerStep
           /\ UNCHANGED <<setting, client, stored>>
           /\ state' \in {"init", "accept", "process", "error"}
           /\ tick' \in 0 .. 3
           /\ regs' = regs \/ (link.inbox # <<>> /\ regs' = ProcessAdu(regs, Head(link.inbox)).regs)
<1> USE DEF ServerTick, clientVars
<1>1. tick' \in 0 .. 3
  BY DEF NextTick, TypeOK
<1>2. CASE LeaveInit \/ Error
  BY <1>1, <1>2 DEF LeaveInit, Error, ServerStep
<1>3. CASE Accept
  BY <1>1, <1>3 DEF Accept, ServerStep
<1>4. CASE Process
  <2>1. UNCHANGED <<setting, backlog, client, stored>> /\ state = "process"
    BY <1>4 DEF Process
  <2> DEFINE Stored == regs' = regs
                         \/ (link.inbox # <<>> /\ regs' = ProcessAdu(regs, Head(link.inbox)).regs)
  <2>2. CASE UNCHANGED <<state, link, regs, peer, reply>>
    BY <1>1, <2>1, <2>2 DEF ServerStep
  <2>3. CASE Reset /\ UNCHANGED reply /\ Stored
    BY <1>1, <2>1, <2>3 DEF Reset, ServerStep
  <2>4. CASE link.inbox # <<>> /\ Execute
    <3> DEFINE r == Head(link.inbox)
    <3>1. Stored
      BY <2>4 DEF Execute
    <3>2. CASE Reset /\ UNCHANGED reply
      BY <2>3, <3>1, <3>2
    <3>3. CASE /\ link.end = "up"
               /\ reply' = [reply EXCEPT ![link.who] =
                              Append(@, [to |-> r, ans |-> ProcessAdu(regs, r).ans])]
               /\ link' = Taken
               /\ UNCHANGED <<state, peer>>
      BY <1>1, <2>1, <2>4, <3>1, <3>3 DEF ServerStep
    <3>4. CASE /\ link.end \in {"fin", "dead"}
               /\ link' = [Taken EXCEPT !.end = "fin"]
               /\ UNCHANGED <<state, peer, reply>>
      BY <1>1, <2>1, <2>4, <3>1, <3>4 DEF ServerStep
    <3> QED BY <2>4, <3>2, <3>3, <3>4 DEF Execute
  <2>5. CASE link.inbox # <<>> /\ Misread
    <3>1. CASE Reset
      BY <2>3, <2>5, <3>1 DEF Misread
    <3>2. CASE link' = Taken /\ UNCHANGED <<state, peer>>
      BY <1>1, <2>1, <2>5, <3>2 DEF Misread, ServerStep
    <3> QED BY <2>5, <3>1, <3>2 DEF Misread
  <2> QED
    <3>1. \/ UNCHANGED <<state, link, regs, peer, reply>>
          \/ Reset /\ UNCHANGED <<regs, reply>>
          \/ link.inbox # <<>> /\ Execute
          \/ link.inbox # <<>> /\ Misread
      BY <1>4 DEF Process
    <3> QED BY <2>2, <2>3, <2>4, <2>5, <3>1
<1> QED BY <1>2, <1>3, <1>4

\* A store of a gate.
LEMMA GateStoresType ==
    ASSUME TypeOK, GateStores
    PROVE  regs' \in Registers
<1>1. setting \in Setting /\ regs \in Registers
  BY DEF TypeOK
<1>2. PICK e \in setting.stores :
          regs' = IF "val" \in DOMAIN e THEN setValue(regs, e.param, e.val)
                  ELSE setStatus(regs, e.param, e.status)
  BY DEF GateStores
<1>3. IsStore(e)
  BY <1>1, ServerAssumption
<1>4. e.param \in Nat
  BY <1>3 DEF IsStore
<1>5. CASE "val" \in DOMAIN e
  <2>1. e.val \in Word \X Word
    BY <1>3, <1>5 DEF IsStore
  <2>2. regs' = setValue(regs, e.param, e.val)
    BY <1>2, <1>5
  <2>3. undef \in Status \cap Word
    BY RegisterAssumption DEF Status
  <2> QED BY <1>1, <1>4, <2>1, <2>2, <2>3, StoresStayApart
<1>6. CASE "val" \notin DOMAIN e
  <2>1. e.status \in Status \cap Word
    BY <1>3, <1>6 DEF IsStore
  <2>2. regs' = setStatus(regs, e.param, e.status)
    BY <1>2, <1>6
  <2>3. <<undef, undef>> \in Word \X Word
    BY RegisterAssumption
  <2> QED BY <1>1, <1>4, <2>1, <2>2, <2>3, StoresStayApart
<1> QED BY <1>5, <1>6

\* What the end of a connection, and a request sent on it, do to the connections.
LEMMA EndSteps ==
    ASSUME TypeOK, NEW m \in Master, NEW end \in {"fin", "dead"}, EndConnection(m, end)
    PROVE  /\ link' \in Conn \cup {NoConn} /\ (link' = NoConn <=> link = NoConn)
           /\ backlog' \in Seq(Conn) /\ Len(backlog') = Len(backlog)
           /\ \A k \in Place :
                 /\ Held(link', backlog', k) = Ended(At(k), m, end)
                 /\ Held(link', backlog', k).inbox = At(k).inbox
                 /\ \A x \in Master :
                       IsLive(Held(link', backlog', k), x) <=> Live(k, x) /\ x # m
<1>1. link' = Ended(link, m, end) /\ backlog' = [k \in DOMAIN backlog |-> Ended(backlog[k], m, end)]
  BY DEF EndConnection
<1>2. link \in Conn \cup {NoConn} /\ backlog \in Seq(Conn)
  BY DEF TypeOK
<1>3. NoConn \notin Conn
  BY DEF Conn, NoConn
<1>4. link' \in Conn \cup {NoConn} /\ (link' = NoConn <=> link = NoConn)
  <2>1. CASE link = NoConn
    <3>1. ~IsLive(NoConn, m)
      BY ServerAssumption DEF IsLive, NoConn
    <3> QED BY <1>1, <2>1, <3>1 DEF Ended
  <2>2. CASE link \in Conn
    <3>1. link' \in Conn
      BY <1>1, <2>2, ConnType
    <3> QED BY <1>3, <2>2, <3>1
  <2> QED BY <1>2, <2>1, <2>2
<1>5. backlog' \in Seq(Conn) /\ Len(backlog') = Len(backlog)
  BY <1>1, BacklogType, Zenon
<1>6. \A k \in Place : k = 0 \/ (k \in DOMAIN backlog /\ backlog[k] \in Conn)
  <2>1. /\ backlog \in [1 .. Len(backlog) -> Conn] /\ Len(backlog) \in Nat
        /\ DOMAIN backlog = 1 .. Len(backlog)
    BY <1>2
  <2>2. \A k \in Place : k = 0 \/ k \in 1 .. Len(backlog)
    BY <2>1 DEF Place
  <2> QED BY <2>1, <2>2
<1>7. ASSUME NEW k \in Place
      PROVE  Held(link', backlog', k) = Ended(At(k), m, end) /\ At(k) \in Conn \cup {NoConn}
  <2>1. CASE k = 0
    BY <1>1, <1>2, <2>1 DEF Held, At
  <2>2. CASE k \in DOMAIN backlog /\ k # 0
    BY <1>1, <1>6, <2>2 DEF Held, At
  <2> QED BY <1>6, <2>1, <2>2
<1>8. ASSUME NEW k \in Place
      PROVE  /\ Held(link', backlog', k).inbox = At(k).inbox
             /\ \A x \in Master : IsLive(Held(link', backlog', k), x) <=> Live(k, x) /\ x # m
  <2> DEFINE c == At(k)
  <2> HIDE DEF c
  <2>1. c \in Conn \cup {NoConn}
    BY <1>7 DEF c
  <2> QED BY <1>7, <2>1, ConnType DEF Live, c
<1> QED BY <1>4, <1>5, <1>7, <1>8

LEMMA ExecSteps ==
    ASSUME TypeOK, NEW m \in Master, NEW r \in Request, Exec(m, r)
    PROVE  /\ link' \in Conn \cup {NoConn} /\ (link' = NoConn <=> link = NoConn)
           /\ backlog' \in Seq(Conn) /\ Len(backlog') = Len(backlog)
           /\ \A k \in Place :
                 /\ Held(link', backlog', k) = Reached(At(k), m, r)
                 /\ Held(link', backlog', k).inbox =
                        IF Live(k, m) THEN Append(At(k).inbox, r) ELSE At(k).inbox
                 /\ \A x \in Master : IsLive(Held(link', backlog', k), x) <=> Live(k, x)
<1>1. link' = Reached(link, m, r) /\ backlog' = [k \in DOMAIN backlog |-> Reached(backlog[k], m, r)]
  BY DEF Exec
<1>2. link \in Conn \cup {NoConn} /\ backlog \in Seq(Conn)
  BY DEF TypeOK
<1>3. NoConn \notin Conn
  BY DEF Conn, NoConn
<1>4. link' \in Conn \cup {NoConn} /\ (link' = NoConn <=> link = NoConn)
  <2>1. CASE link = NoConn
    <3>1. ~IsLive(NoConn, m)
      BY ServerAssumption DEF IsLive, NoConn
    <3> QED BY <1>1, <2>1, <3>1 DEF Reached
  <2>2. CASE link \in Conn
    <3>1. link' \in Conn
      BY <1>1, <2>2, ConnType
    <3> QED BY <1>3, <2>2, <3>1
  <2> QED BY <1>2, <2>1, <2>2
<1>5. backlog' \in Seq(Conn) /\ Len(backlog') = Len(backlog)
  BY <1>1, BacklogType, Zenon
<1>6. \A k \in Place : k = 0 \/ (k \in DOMAIN backlog /\ backlog[k] \in Conn)
  <2>1. /\ backlog \in [1 .. Len(backlog) -> Conn] /\ Len(backlog) \in Nat
        /\ DOMAIN backlog = 1 .. Len(backlog)
    BY <1>2
  <2>2. \A k \in Place : k = 0 \/ k \in 1 .. Len(backlog)
    BY <2>1 DEF Place
  <2> QED BY <2>1, <2>2
<1>7. ASSUME NEW k \in Place
      PROVE  Held(link', backlog', k) = Reached(At(k), m, r) /\ At(k) \in Conn \cup {NoConn}
  <2>1. CASE k = 0
    BY <1>1, <1>2, <2>1 DEF Held, At
  <2>2. CASE k \in DOMAIN backlog /\ k # 0
    BY <1>1, <1>6, <2>2 DEF Held, At
  <2> QED BY <1>6, <2>1, <2>2
<1>8. ASSUME NEW k \in Place
      PROVE  /\ Held(link', backlog', k).inbox =
                    IF Live(k, m) THEN Append(At(k).inbox, r) ELSE At(k).inbox
             /\ \A x \in Master : IsLive(Held(link', backlog', k), x) <=> Live(k, x)
  <2> DEFINE c == At(k)
  <2> HIDE DEF c
  <2>1. c \in Conn \cup {NoConn}
    BY <1>7 DEF c
  <2> QED BY <1>7, <2>1, ConnType DEF Live, c
<1> QED BY <1>4, <1>5, <1>7, <1>8

\* The steps of a master, and of the world around it.
WorldStep(m) ==
    \/ ClientInit(m) \/ ClientIdle(m) \/ ClientConnect(m) \/ ClientWait(m) \/ ClientError(m)
    \/ \E r \in Request : Exec(m, r)
    \/ Leave(m) \/ Vanish(m) \/ Break(m)

LEMMA NextSteps ==
    ASSUME TypeOK, Next
    PROVE  ServerTick \/ GateStores \/ \E m \in Master : WorldStep(m)
  BY RequestFacts DEF Next, WorldStep, ClientTick, TypeOK

LEMMA TypeInit ==
    ASSUME Init
    PROVE  TypeOK
<1>1. [i \in Reg |-> 0] \in Registers
  BY RegisterAssumption DEF Registers, undef
<1> QED BY <1>1 DEF Init, TypeOK

\* A frame taken out of the connection served, and its answer.
LEMMA TypeServerTick ==
    ASSUME TypeOK, LinkInProcess, ServerTick
    PROVE  TypeOK'
<1>1. /\ ServerStep /\ UNCHANGED <<setting, client, stored>>
      /\ state' \in {"init", "accept", "process", "error"} /\ tick' \in 0 .. 3
      /\ regs' = regs \/ (link.inbox # <<>> /\ regs' = ProcessAdu(regs, Head(link.inbox)).regs)
  BY ServerTickSteps
<1>2. regs' \in Registers
  <2>1. regs \in Registers
    BY DEF TypeOK
  <2>2. ASSUME link.inbox # <<>>, regs' = ProcessAdu(regs, Head(link.inbox)).regs
        PROVE  regs' \in Registers
    <3>1. PICK r \in Request : r = Head(link.inbox)
      BY <2>2, TakenType
    <3>2. IsRequest(r)
      BY RequestFacts
    <3>3. ProcessAdu(regs, r).regs \in Registers
      BY <2>1, <3>2, CommandsWholeOrNothing
    <3> QED BY <2>2, <3>1, <3>3
  <2> QED BY <1>1, <2>1, <2>2
<1>3. setting' \in Setting /\ client' = client /\ stored' = stored
  BY <1>1 DEF TypeOK
<1>4. link' \in Conn \cup {NoConn} /\ backlog' \in Seq(Conn)
  <2>1. backlog # <<>> => Head(backlog) \in Conn /\ Tail(backlog) \in Seq(Conn)
    BY DEF TypeOK
  <2>2. link \in Conn \cup {NoConn} /\ backlog \in Seq(Conn)
    BY DEF TypeOK
  <2> QED BY <1>1, <2>1, <2>2, TakenType DEF ServerStep
<1>5. peer' \in [Master -> {"none", "up", "closed"}]
  BY <1>1 DEF ServerStep, TypeOK
<1>6. reply' \in [Master -> Seq([to : Request, ans : Answer])]
  <2>1. CASE reply' = reply
    BY <2>1 DEF TypeOK
  <2>2. CASE /\ link.inbox # <<>>
             /\ reply' = [reply EXCEPT ![link.who] =
                              Append(@, [to |-> Head(link.inbox),
                                         ans |-> ProcessAdu(regs, Head(link.inbox)).ans])]
    <3> DEFINE a == [to |-> Head(link.inbox), ans |-> ProcessAdu(regs, Head(link.inbox)).ans]
    <3>1. Head(link.inbox) \in Request /\ IsRequest(Head(link.inbox)) /\ regs \in Registers
      BY <2>2, TakenType, RequestFacts DEF TypeOK
    <3>2. ProcessAdu(regs, Head(link.inbox)).ans \in Answer
      BY <3>1, AnswerType
    <3>3. a \in [to : Request, ans : Answer]
      BY <3>1, <3>2
    <3> HIDE DEF a
    <3>4. ASSUME NEW m \in Master
          PROVE  Append(reply[m], a) \in Seq([to : Request, ans : Answer])
      <4>1. reply[m] \in Seq([to : Request, ans : Answer])
        BY DEF TypeOK
      <4> QED BY <3>3, <4>1, AppendProperties, Zenon
    <3>5. reply' = [reply EXCEPT ![link.who] = Append(@, a)]
      BY <2>2 DEF a
    <3> QED BY <3>4, <3>5 DEF TypeOK
  <2> QED BY <1>1, <2>1, <2>2 DEF ServerStep
<1> QED BY <1>1, <1>2, <1>3, <1>4, <1>5, <1>6 DEF TypeOK

LEMMA TypeWorldStep ==
    ASSUME TypeOK, NEW m \in Master, WorldStep(m)
    PROVE  TypeOK'
<1> USE DEF serverVars
<1>1. CASE ClientInit(m) \/ ClientIdle(m) \/ ClientError(m)
  BY <1>1 DEF ClientInit, ClientIdle, ClientError, TypeOK
<1>2. CASE ClientConnect(m)
  <2>1. Append(backlog, NewConn(m)) \in Seq(Conn)
    <3>1. NewConn(m) \in Conn
      BY DEF NewConn, Conn
    <3> QED BY <3>1 DEF TypeOK
  <2>2. backlog' \in Seq(Conn)
    BY <1>2, <2>1 DEF ClientConnect, TypeOK
  <2> QED BY <1>2, <2>2 DEF ClientConnect, TypeOK
<1>3. CASE ClientWait(m)
  <2>1. reply' \in [Master -> Seq([to : Request, ans : Answer])]
    <3>1. reply[m] # <<>> => Tail(reply[m]) \in Seq([to : Request, ans : Answer])
      <4>1. reply[m] \in Seq([to : Request, ans : Answer])
        BY DEF TypeOK
      <4> QED BY <4>1, HeadTailProperties, Zenon
    <3> QED BY <1>3, <3>1 DEF ClientWait, TypeOK
  <2>2. NoRequest \in Request \cup {NoRequest}
    OBVIOUS
  <2> QED BY <1>3, <2>1, <2>2 DEF ClientWait, TypeOK
<1>4. ASSUME NEW r \in Request, Exec(m, r)
      PROVE  TypeOK'
  BY <1>4, ExecSteps DEF Exec, TypeOK
<1>5. ASSUME NEW end \in {"fin", "dead"}, EndConnection(m, end), Leave(m) \/ Vanish(m) \/ Break(m)
      PROVE  TypeOK'
  <2>1. link' \in Conn \cup {NoConn} /\ backlog' \in Seq(Conn)
    BY <1>5, EndSteps
  <2>2. <<>> \in Seq([to : Request, ans : Answer])
    OBVIOUS
  <2> QED BY <1>5, <2>1, <2>2 DEF Leave, Vanish, Break, TypeOK
<1> QED BY <1>1, <1>2, <1>3, <1>4, <1>5 DEF WorldStep, Leave, Vanish, Break

-----------------------------------------------------------------------------
\* The masters and their connections.

\* A master of which a step changes nothing, and whose connections it leaves alone.
LEMMA Untouched ==
    ASSUME NEW x \in Master, MasterInv(x),
           peer'[x] = peer[x], client'[x] = client[x], stored'[x] = stored[x],
           reply'[x] = reply[x], Len(backlog') = Len(backlog),
           \A k \in Place :
              /\ IsLive(Held(link', backlog', k), x) <=> Live(k, x)
              /\ Live(k, x) => Held(link', backlog', k).inbox = At(k).inbox
    PROVE  MasterInv(x)'
<1>1. Place' = Place
  BY DEF Place
<1>2. LiveOnce(x)'
  BY <1>1 DEF MasterInv, LiveOnce, Live, At
<1>3. OneRequest(x)'
  BY <1>1 DEF MasterInv, OneRequest, Live, At
<1>4. OneAnswer(x)'
  BY DEF MasterInv, OneAnswer
<1> QED BY <1>2, <1>3, <1>4 DEF MasterInv

\* Accept: the connections move one place up.
LEMMA AcceptKeeps ==
    ASSUME TypeOK, LinkInProcess, NEW x \in Master, MasterInv(x),
           state = "accept", backlog # <<>>, link' = Head(backlog), backlog' = Tail(backlog),
           UNCHANGED <<peer, client, stored, reply>>
    PROVE  MasterInv(x)'
<1>1. link = NoConn /\ ~Live(0, x)
  BY ServerAssumption DEF LinkInProcess, Live, At, Held, IsLive, NoConn
<1>2. Len(backlog') = Len(backlog) - 1 /\ Len(backlog) \in Nat \ {0}
      /\ link' = backlog[1] /\ \A k \in 1 .. Len(backlog') : backlog'[k] = backlog[k + 1]
  BY DEF TypeOK
<1>3. \A k \in Place' : k + 1 \in Place /\ k + 1 # 0 /\ Held(link', backlog', k) = At(k + 1)
  BY <1>2 DEF Place, Held, At
<1>4. \A k \in Place : k = 0 \/ (k - 1 \in Place' /\ k = (k - 1) + 1)
  BY <1>2 DEF Place
<1>5. \A k \in Place' : k \in Nat
  BY DEF Place
<1>6. \A k \in Place : Live(k, x) => k - 1 \in Place' /\ IsLive(Held(link', backlog', k - 1), x)
  BY <1>1, <1>3, <1>4 DEF Live
<1>7. LiveOnce(x)'
  <2>1. peer'[x] = "up" => \E k \in Place' : IsLive(Held(link', backlog', k), x)
    BY <1>6 DEF MasterInv, LiveOnce
  <2>2. peer'[x] # "up" => \A k \in Place' : ~IsLive(Held(link', backlog', k), x)
    BY <1>3 DEF MasterInv, LiveOnce, Live
  <2>3. ASSUME NEW j \in Place', NEW k \in Place',
               IsLive(Held(link', backlog', j), x), IsLive(Held(link', backlog', k), x)
        PROVE  j = k
    <3>1. j + 1 = k + 1
      BY <1>3, <2>3 DEF MasterInv, LiveOnce, Live
    <3> QED BY <1>5, <3>1
  <2> QED BY <2>1, <2>2, <2>3 DEF LiveOnce, Live, At
<1>8. OneRequest(x)'
  BY <1>3 DEF MasterInv, OneRequest, Live, At
<1>9. OneAnswer(x)'
  BY DEF MasterInv, OneAnswer
<1> QED BY <1>7, <1>8, <1>9 DEF MasterInv

\* Reset: the connection served is closed, and its master will notice.
LEMMA ResetKeeps ==
    ASSUME TypeOK, NEW x \in Master, MasterInv(x),
           link' = NoConn,
           peer' = IF link.end = "up" THEN [peer EXCEPT ![link.who] = "closed"] ELSE peer,
           UNCHANGED <<backlog, client, stored, reply>>
    PROVE  MasterInv(x)'
<1>1. Place' = Place /\ 0 \in Place
  BY DEF Place, TypeOK
<1>2. \A k \in Place : /\ k = 0 => ~IsLive(Held(link', backlog', k), x)
                       /\ k # 0 => Held(link', backlog', k) = At(k)
  BY ServerAssumption DEF Held, At, IsLive, NoConn
<1>3. CASE Live(0, x)
  <2>1. link.end = "up" /\ link.who = x
    BY <1>3 DEF Live, At, Held, IsLive
  <2>2. peer'[x] = "closed"
    BY <2>1 DEF TypeOK
  <2>3. \A k \in Place : ~IsLive(Held(link', backlog', k), x)
    BY <1>1, <1>2, <1>3 DEF MasterInv, LiveOnce, Live
  <2> QED BY <1>1, <2>2, <2>3 DEF MasterInv, LiveOnce, OneRequest, OneAnswer, Live, At
<1>4. CASE ~Live(0, x)
  <2>1. peer'[x] = peer[x]
    BY <1>4 DEF Live, At, Held, IsLive, TypeOK
  <2>2. \A k \in Place :
              /\ IsLive(Held(link', backlog', k), x) <=> Live(k, x)
              /\ Live(k, x) => Held(link', backlog', k).inbox = At(k).inbox
    BY <1>2, <1>4 DEF Live
  <2> QED BY <2>1, <2>2, Untouched
<1> QED BY <1>3, <1>4

\* A frame is taken out of the connection served, answered or not.
LEMMA TakenKeeps ==
    ASSUME TypeOK, NEW x \in Master, MasterInv(x), link.inbox # <<>>,
           \/ link' = Taken
           \/ link.end \in {"fin", "dead"} /\ link' = [Taken EXCEPT !.end = "fin"],
           reply' = reply \/ (/\ link.end = "up"
                              /\ reply' = [reply EXCEPT ![link.who] =
                                    Append(@, [to |-> Head(link.inbox),
                                               ans |-> ProcessAdu(regs, Head(link.inbox)).ans])]),
           UNCHANGED <<backlog, peer, client, stored>>
    PROVE  MasterInv(x)'
<1>1. Place' = Place /\ 0 \in Place
  BY DEF Place, TypeOK
<1>2. /\ link' = [who |-> link.who, end |-> link'.end, inbox |-> Tail(link.inbox)]
      /\ link'.end = "up" <=> link.end = "up"
      /\ link'.inbox = Tail(link.inbox)
      /\ link.who \in Master /\ link.inbox \in Seq(Request)
  BY TakenType DEF Conn
<1>3. \A k \in Place : /\ IsLive(Held(link', backlog', k), x) <=> Live(k, x)
                       /\ k # 0 => Held(link', backlog', k) = At(k)
  BY <1>2 DEF Live, Held, At, IsLive
<1>4. CASE Live(0, x)
  <2>1. link.who = x /\ link.end = "up"
    BY <1>4 DEF Live, At, Held, IsLive
  <2>2. client[x] = "wait" /\ reply[x] = <<>> /\ link.inbox = <<stored[x]>>
    BY <1>1, <1>4 DEF MasterInv, OneRequest, At, Held
  <2>3. Head(link.inbox) = stored[x] /\ Tail(link.inbox) = <<>>
    BY <2>2
  <2>4. LiveOnce(x)'
    BY <1>1, <1>3 DEF MasterInv, LiveOnce, Live, At
  <2>5. \A k \in Place : Live(k, x) => k = 0
    BY <1>1, <1>4 DEF MasterInv, LiveOnce
  <2>6. Held(link', backlog', 0).inbox = <<>>
    BY <1>2, <2>3 DEF Held
  <2>7. OneRequest(x)'
    BY <1>1, <1>3, <2>5, <2>6 DEF OneRequest, Live, At
  <2>8. OneAnswer(x)'
    <3> DEFINE a == [to |-> Head(link.inbox), ans |-> ProcessAdu(regs, Head(link.inbox)).ans]
    <3>1. a.to = stored[x]
      BY <2>3
    <3> HIDE DEF a
    <3>2. reply'[x] = <<>> \/ reply'[x] = <<a>>
      <4>1. reply' = reply \/ reply' = [reply EXCEPT ![x] = Append(@, a)]
        BY <2>1 DEF a
      <4> QED BY <2>2, <4>1 DEF TypeOK
    <3>3. Len(<<a>>) = 1 /\ Head(<<a>>) = a /\ Len(<<>>) = 0
      OBVIOUS
    <3>4. stored'[x] = stored[x] /\ client'[x] = "wait"
      BY <2>2
    <3>5. Len(reply'[x]) \in {0, 1} /\ (reply'[x] # <<>> => Head(reply'[x]).to = stored[x])
      BY <3>1, <3>2, <3>3, Zenon
    <3>6. \A n \in {0, 1} : n <= 1
      OBVIOUS
    <3> QED BY <3>4, <3>5, <3>6, Zenon DEF OneAnswer
  <2> QED BY <2>4, <2>7, <2>8 DEF MasterInv
<1>5. CASE ~Live(0, x)
  <2>1. reply'[x] = reply[x]
    BY <1>5 DEF Live, At, Held, IsLive, TypeOK
  <2>2. \A k \in Place :
              /\ IsLive(Held(link', backlog', k), x) <=> Live(k, x)
              /\ Live(k, x) => Held(link', backlog', k).inbox = At(k).inbox
    BY <1>3, <1>5
  <2> QED BY <2>1, <2>2, Untouched
<1> QED BY <1>4, <1>5

\* A master of its own accord: it connects, sends, waits, and starts again.
LEMMA ClientKeeps ==
    ASSUME IInv, NEW m \in Master, NEW x \in Master,
           \/ ClientInit(m) \/ ClientIdle(m) \/ ClientConnect(m) \/ ClientWait(m) \/ ClientError(m)
    PROVE  MasterInv(x)' /\ PeerMatchesClient' /\ LinkInProcess'
<1> USE DEF serverVars
<1>1. TypeOK /\ PeerMatchesClient /\ LinkInProcess /\ MasterInv(m) /\ MasterInv(x)
  BY DEF IInv
<1>2. UNCHANGED <<state, link>> /\ LinkInProcess'
  BY <1>1 DEF LinkInProcess, ClientInit, ClientIdle, ClientConnect, ClientWait, ClientError
<1>3. client[m] # "wait" => reply[m] = <<>>
  BY <1>1 DEF MasterInv, OneAnswer
<1>4. CASE backlog' = backlog
  <2>1. Place' = Place /\ \A k \in Place : Held(link', backlog', k) = At(k)
    BY <1>2, <1>4 DEF Place, At
  <2>2. ASSUME x # m PROVE MasterInv(x)'
    <3>1. peer'[x] = peer[x] /\ client'[x] = client[x] /\ stored'[x] = stored[x] /\ reply'[x] = reply[x]
      BY <1>1, <2>2 DEF ClientInit, ClientIdle, ClientConnect, ClientWait, ClientError, TypeOK
    <3> QED BY <1>1, <1>4, <2>1, <3>1, Untouched DEF Live
  <2>3. ASSUME x = m PROVE MasterInv(x)'
    <3>1. peer'[m] = "up" <=> peer[m] = "up"
      BY <1>1, <1>4 DEF ClientInit, ClientIdle, ClientConnect, ClientWait, ClientError, TypeOK
    <3>2. LiveOnce(m)'
      BY <1>1, <2>1, <3>1 DEF MasterInv, LiveOnce, Live, At
    <3> HIDE DEF serverVars
    <3>3. ASSUME NEW k \in Place, Live(k, m)
          PROVE  At(k).inbox = <<>>
      <4>1. client[m] # "wait" \/ reply[m] # <<>> \/ peer[m] = "closed"
        BY DEF ClientInit, ClientIdle, ClientConnect, ClientWait, ClientError
      <4>2. peer[m] = "up"
        BY <1>1, <3>3 DEF MasterInv, LiveOnce
      <4> QED BY <1>1, <3>3, <4>1, <4>2 DEF MasterInv, OneRequest
    <3>4. OneRequest(m)'
      BY <2>1, <3>3 DEF OneRequest, Live, At
    <3>5. reply'[m] = <<>>
      <4>1. CASE client[m] # "wait"
        BY <1>3, <4>1 DEF ClientInit, ClientIdle, ClientConnect, ClientWait, ClientError
      <4>2. CASE client[m] = "wait"
        <5>1. \/ reply[m] # <<>> /\ reply' = [reply EXCEPT ![m] = Tail(@)]
              \/ reply[m] = <<>> /\ reply' = reply
          BY <4>2 DEF ClientInit, ClientIdle, ClientConnect, ClientWait, ClientError
        <5>2. reply[m] # <<>> => Tail(reply[m]) = <<>>
          <6>1. ASSUME NEW S, NEW q \in Seq(S), q # <<>>, Len(q) <= 1
                PROVE  Tail(q) = <<>>
            BY <6>1
          <6>2. reply[m] \in Seq([to : Request, ans : Answer]) /\ Len(reply[m]) <= 1
            BY <1>1 DEF TypeOK, MasterInv, OneAnswer
          <6> QED BY <6>1, <6>2, Zenon
        <5> QED BY <1>1, <5>1, <5>2 DEF TypeOK
      <4> QED BY <4>1, <4>2
    <3>6. OneAnswer(m)'
      BY <3>5 DEF OneAnswer
    <3> QED BY <2>3, <3>2, <3>4, <3>6 DEF MasterInv
  <2>4. PeerMatchesClient'
    BY <1>1, <1>4 DEF PeerMatchesClient, ClientInit, ClientIdle, ClientConnect, ClientWait, ClientError, TypeOK
  <2> QED BY <1>2, <2>2, <2>3, <2>4
<1>5. CASE /\ client[m] = "connect" /\ backlog' = Append(backlog, NewConn(m))
           /\ peer' = [peer EXCEPT ![m] = "up"] /\ client' = [client EXCEPT ![m] = "run"]
           /\ UNCHANGED <<stored, reply>>
  <2>1. peer[m] = "none"
    BY <1>1, <1>5 DEF PeerMatchesClient, TypeOK
  <2>2. PeerMatchesClient'
    BY <1>1, <1>5 DEF PeerMatchesClient, TypeOK
  <2> DEFINE n == Len(backlog) + 1
  <2>3. /\ Place' = Place \cup {n} /\ n \notin Place /\ n # 0
        /\ Held(link', backlog', n) = NewConn(m)
        /\ \A k \in Place : Held(link', backlog', k) = At(k)
    <3>1. backlog \in Seq(Conn) /\ Len(backlog) \in Nat
      BY <1>1 DEF TypeOK
    <3>2. NewConn(m) \in Conn
      BY DEF NewConn, Conn
    <3>3. /\ Len(backlog') = n /\ backlog'[n] = NewConn(m)
          /\ \A k \in 1 .. Len(backlog) : backlog'[k] = backlog[k]
      BY <1>5, <3>1, <3>2
    <3>4. Place' = Place \cup {n} /\ n \notin Place /\ n # 0
      BY <3>1, <3>3 DEF Place
    <3>5. \A k \in Place : k = 0 \/ k \in 1 .. Len(backlog)
      BY <3>1 DEF Place
    <3> QED BY <1>2, <3>3, <3>4, <3>5 DEF Held, At
  <2> HIDE DEF n
  <2>4. /\ IsLive(NewConn(m), x) <=> x = m
        /\ NewConn(m).inbox = <<>>
    BY DEF IsLive, NewConn
  <2>5. peer'[m] = "up" /\ client'[m] = "run" /\ reply'[m] = <<>>
    BY <1>1, <1>3, <1>5 DEF TypeOK
  <2>6. ASSUME x = m PROVE MasterInv(x)'
    <3>1. \A k \in Place : ~Live(k, m)
      BY <1>1, <2>1 DEF MasterInv, LiveOnce
    <3>2. LiveOnce(m)'
      BY <2>3, <2>4, <2>5, <2>6, <3>1 DEF LiveOnce, Live, At
    <3>3. OneRequest(m)'
      BY <2>3, <2>4, <3>1 DEF OneRequest, Live, At
    <3>4. OneAnswer(m)'
      BY <2>5 DEF OneAnswer
    <3> QED BY <2>6, <3>2, <3>3, <3>4 DEF MasterInv
  <2>7. ASSUME x # m PROVE MasterInv(x)'
    <3>1. peer'[x] = peer[x] /\ client'[x] = client[x] /\ stored'[x] = stored[x] /\ reply'[x] = reply[x]
      BY <1>1, <1>5, <2>7 DEF TypeOK
    <3>2. LiveOnce(x)'
      BY <1>1, <2>3, <2>4, <2>7, <3>1 DEF MasterInv, LiveOnce, Live, At
    <3>3. OneRequest(x)'
      BY <1>1, <2>3, <2>4, <2>7, <3>1 DEF MasterInv, OneRequest, Live, At
    <3>4. OneAnswer(x)'
      BY <1>1, <3>1 DEF MasterInv, OneAnswer
    <3> QED BY <3>2, <3>3, <3>4 DEF MasterInv
  <2> QED BY <1>2, <2>2, <2>6, <2>7
<1> QED BY <1>4, <1>5 DEF ClientInit, ClientIdle, ClientConnect, ClientWait, ClientError

\* It sends a request, into a connection on which nothing is under way.
LEMMA ExecKeeps ==
    ASSUME IInv, NEW m \in Master, NEW x \in Master, NEW r \in Request, Exec(m, r)
    PROVE  MasterInv(x)' /\ PeerMatchesClient' /\ LinkInProcess'
<1>1. TypeOK /\ PeerMatchesClient /\ LinkInProcess /\ MasterInv(m) /\ MasterInv(x)
  BY DEF IInv
<1>2. /\ link' = NoConn <=> link = NoConn
      /\ Len(backlog') = Len(backlog)
      /\ \A k \in Place :
            /\ Held(link', backlog', k).inbox = IF Live(k, m) THEN Append(At(k).inbox, r) ELSE At(k).inbox
            /\ IsLive(Held(link', backlog', k), x) <=> Live(k, x)
  BY <1>1, ExecSteps
<1>3. Place' = Place
  BY <1>2 DEF Place
<1>4. LinkInProcess' /\ PeerMatchesClient'
  BY <1>1, <1>2 DEF LinkInProcess, PeerMatchesClient, Exec, TypeOK
<1>5. CASE x # m
  <2>1. peer'[x] = peer[x] /\ client'[x] = client[x] /\ stored'[x] = stored[x] /\ reply'[x] = reply[x]
    BY <1>1, <1>5 DEF Exec, TypeOK
  <2>2. \A k \in Place : Live(k, x) => ~Live(k, m)
    BY <1>5 DEF Live, IsLive
  <2> QED BY <1>1, <1>2, <1>4, <2>1, <2>2, Untouched
<1>6. CASE x = m
  <2>1. client[m] = "run" /\ client'[m] = "wait" /\ stored'[m] = r /\ UNCHANGED <<peer, reply>>
    BY <1>1 DEF Exec, TypeOK
  <2>2. reply[m] = <<>> /\ \A k \in Place : Live(k, m) => At(k).inbox = <<>>
    BY <1>1, <2>1 DEF MasterInv, OneRequest, OneAnswer
  <2>3. Append(<<>>, r) = <<r>>
    OBVIOUS
  <2>4. LiveOnce(m)'
    BY <1>1, <1>2, <1>3, <1>6, <2>1 DEF MasterInv, LiveOnce, Live, At
  <2>5. OneRequest(m)'
    BY <1>2, <1>3, <1>6, <2>1, <2>2, <2>3 DEF OneRequest, Live, At
  <2>6. OneAnswer(m)'
    BY <2>1, <2>2 DEF OneAnswer
  <2> QED BY <1>4, <1>6, <2>4, <2>5, <2>6 DEF MasterInv
<1> QED BY <1>5, <1>6

\* Its connection ends, by a restart, a loss of power or a break.
LEMMA EndKeeps ==
    ASSUME IInv, NEW m \in Master, NEW x \in Master, Leave(m) \/ Vanish(m) \/ Break(m)
    PROVE  MasterInv(x)' /\ PeerMatchesClient' /\ LinkInProcess'
<1>1. TypeOK /\ PeerMatchesClient /\ LinkInProcess /\ MasterInv(m) /\ MasterInv(x)
  BY DEF IInv
<1>2. PICK end \in {"fin", "dead"} : EndConnection(m, end)
  BY DEF Leave, Vanish, Break
<1>3. /\ link' = NoConn <=> link = NoConn
      /\ Len(backlog') = Len(backlog)
      /\ \A k \in Place : /\ Held(link', backlog', k).inbox = At(k).inbox
                          /\ IsLive(Held(link', backlog', k), x) <=> Live(k, x) /\ x # m
  BY <1>1, <1>2, EndSteps
<1>4. Place' = Place
  BY <1>3 DEF Place
<1>5. LinkInProcess' /\ PeerMatchesClient'
  BY <1>1, <1>3 DEF LinkInProcess, PeerMatchesClient, Leave, Vanish, Break, TypeOK
<1>6. CASE x # m
  <2>1. peer'[x] = peer[x] /\ client'[x] = client[x] /\ stored'[x] = stored[x] /\ reply'[x] = reply[x]
    BY <1>1, <1>6 DEF Leave, Vanish, Break, TypeOK
  <2> QED BY <1>1, <1>3, <1>5, <1>6, <2>1, Untouched
<1>7. CASE x = m
  <2>1. peer'[m] # "up" /\ reply'[m] = <<>>
    BY <1>1 DEF Leave, Vanish, Break, TypeOK
  <2>2. LiveOnce(m)' /\ OneRequest(m)'
    BY <1>3, <1>4, <1>7, <2>1 DEF LiveOnce, OneRequest, Live, At
  <2>3. OneAnswer(m)'
    BY <2>1 DEF OneAnswer
  <2> QED BY <1>5, <1>7, <2>2, <2>3 DEF MasterInv
<1> QED BY <1>6, <1>7

LEMMA ServerTickKeeps ==
    ASSUME IInv, ServerTick
    PROVE  (\A x \in Master : MasterInv(x)') /\ PeerMatchesClient' /\ LinkInProcess'
<1>1. TypeOK /\ PeerMatchesClient /\ LinkInProcess
  BY DEF IInv
<1>2. ServerStep /\ UNCHANGED <<client, stored>>
  BY <1>1, ServerTickSteps
<1>3. ASSUME NEW x \in Master
      PROVE  MasterInv(x)'
  <2>1. MasterInv(x)
    BY DEF IInv
  <2>2. CASE UNCHANGED <<link, backlog, peer, reply>>
    <3>1. \A k \in Place : Held(link', backlog', k) = At(k)
      BY <2>2 DEF Held, At
    <3> QED BY <1>2, <2>1, <2>2, <3>1, Untouched DEF Live
  <2>3. CASE /\ state = "accept"
             /\ backlog # <<>> /\ link' = Head(backlog) /\ backlog' = Tail(backlog)
             /\ UNCHANGED <<peer, reply>>
    BY <1>1, <1>2, <2>1, <2>3, AcceptKeeps
  <2>4. CASE /\ link' = NoConn
             /\ peer' = IF link.end = "up" THEN [peer EXCEPT ![link.who] = "closed"] ELSE peer
             /\ UNCHANGED <<backlog, reply>>
    BY <1>1, <1>2, <2>1, <2>4, ResetKeeps
  <2>5. CASE /\ link.inbox # <<>>
             /\ \/ link' = Taken
                \/ link.end \in {"fin", "dead"} /\ link' = [Taken EXCEPT !.end = "fin"]
             /\ \/ reply' = reply
                \/ /\ link.end = "up"
                   /\ reply' = [reply EXCEPT ![link.who] =
                                   Append(@, [to |-> Head(link.inbox),
                                              ans |-> ProcessAdu(regs, Head(link.inbox)).ans])]
             /\ UNCHANGED <<backlog, peer>>
    BY <1>1, <1>2, <2>1, <2>5, TakenKeeps
  <2> QED BY <1>2, <2>2, <2>3, <2>4, <2>5 DEF ServerStep
<1>4. PeerMatchesClient'
  <2>1. peer' = peer \/ (/\ state = "process" /\ link.end = "up"
                         /\ peer' = [peer EXCEPT ![link.who] = "closed"])
    BY <1>2 DEF ServerStep
  <2>2. CASE link.end = "up" /\ peer' = [peer EXCEPT ![link.who] = "closed"]
    <3>1. link \in Conn
      BY <1>1, <2>2 DEF TypeOK, NoConn
    <3>2. link.who \in Master /\ Live(0, link.who)
      BY <2>2, <3>1 DEF Live, At, Held, IsLive, Conn
    <3>3. MasterInv(link.who) /\ 0 \in Place
      BY <1>1, <3>2 DEF IInv, Place, TypeOK
    <3>4. peer[link.who] = "up"
      BY <1>1, <3>2, <3>3 DEF MasterInv, LiveOnce, TypeOK
    <3> QED BY <1>1, <1>2, <2>2, <3>2, <3>4 DEF PeerMatchesClient, TypeOK
  <2> QED BY <1>1, <1>2, <2>1, <2>2 DEF PeerMatchesClient
<1>5. LinkInProcess'
  <2>1. NoConn \notin Conn
    BY DEF Conn, NoConn
  <2>2. backlog # <<>> => Head(backlog) \in Conn
    BY <1>1 DEF TypeOK
  <2>3. link.inbox # <<>> => Taken \in Conn /\ [Taken EXCEPT !.end = "fin"] \in Conn
    BY <1>1, TakenType
  <2> QED BY <1>1, <1>2, <2>1, <2>2, <2>3 DEF ServerStep, LinkInProcess
<1> QED BY <1>3, <1>4, <1>5

\* IInv is inductive.
LEMMA InvariantInit ==
    ASSUME Init
    PROVE  IInv
<1>1. Place = {0} /\ \A m \in Master : ~Live(0, m)
  BY ServerAssumption DEF Init, Place, Live, At, Held, IsLive, NoConn
<1>2. \A m \in Master : MasterInv(m)
  BY <1>1 DEF Init, MasterInv, LiveOnce, OneRequest, OneAnswer
<1> QED BY <1>2, TypeInit DEF Init, IInv, PeerMatchesClient, LinkInProcess

LEMMA InvariantNext ==
    ASSUME IInv, [Next]_vars
    PROVE  IInv'
<1>1. TypeOK /\ LinkInProcess /\ PeerMatchesClient /\ \A m \in Master : MasterInv(m)
  BY DEF IInv
<1>2. CASE ServerTick
  BY <1>1, <1>2, TypeServerTick, ServerTickKeeps DEF IInv
<1>3. ASSUME NEW m \in Master, WorldStep(m)
      PROVE  IInv'
  <2>1. TypeOK'
    BY <1>1, <1>3, TypeWorldStep
  <2>2. ASSUME NEW x \in Master
        PROVE  MasterInv(x)' /\ PeerMatchesClient' /\ LinkInProcess'
    BY <1>3, ClientKeeps, ExecKeeps, EndKeeps DEF WorldStep
  <2>3. PeerMatchesClient' /\ LinkInProcess'
    BY <2>2
  <2> QED BY <2>1, <2>2, <2>3 DEF IInv
<1>4. CASE GateStores
  <2>1. UNCHANGED <<setting, state, tick, link, backlog, client, stored, peer, reply>>
    BY <1>4 DEF GateStores, clientVars
  <2>2. TypeOK'
    BY <1>1, <1>4, <2>1, GateStoresType DEF TypeOK
  <2>3. PeerMatchesClient' /\ LinkInProcess'
    BY <1>1, <2>1 DEF PeerMatchesClient, LinkInProcess
  <2>4. \A k \in Place : Held(link', backlog', k) = At(k)
    BY <2>1 DEF Held, At
  <2>5. ASSUME NEW x \in Master
        PROVE  MasterInv(x)'
    BY <1>1, <2>1, <2>4, Untouched DEF Live
  <2> QED BY <2>2, <2>3, <2>5 DEF IInv
<1>5. CASE UNCHANGED vars
  <2>1. UNCHANGED <<setting, state, tick, link, backlog, regs, client, stored, peer, reply>>
    BY <1>5 DEF vars
  <2>2. TypeOK'
    BY <1>1, <2>1 DEF TypeOK
  <2>3. PeerMatchesClient' /\ LinkInProcess'
    BY <1>1, <2>1 DEF PeerMatchesClient, LinkInProcess
  <2>4. \A k \in Place : Held(link', backlog', k) = At(k)
    BY <2>1 DEF Held, At
  <2>5. ASSUME NEW x \in Master
        PROVE  MasterInv(x)'
    BY <1>1, <2>1, <2>4, Untouched DEF Live
  <2> QED BY <2>2, <2>3, <2>5 DEF IInv
<1> QED BY <1>1, <1>2, <1>3, <1>4, <1>5, NextSteps

\* The registers, the connections and what is under way on them keep their types, and
\* the four parts of the invariant hold together.
THEOREM Invariance == Safety => []IInv
<1>1. Init => IInv
  BY InvariantInit
<1>2. IInv /\ [Next]_vars => IInv'
  BY InvariantNext
<1> QED BY <1>1, <1>2, PTL DEF Safety

\* Whatever masters, gates and connections do, every variable keeps its type: no answer
\* and no register is outside what the commands may produce.
THEOREM TypeCorrect == Safety => []TypeOK
<1>1. IInv => TypeOK
  BY DEF IInv
<1> QED BY <1>1, Invariance, PTL

\* No master ever takes the answer to one request for the answer to another, though no
\* frame says which it answers and no transactionId differs: an answer is under way only
\* to a master that waits, and then it is the one to what it has sent last.
THEOREM OwnAnswers == Safety => []OwnAnswer
<1>1. IInv => OwnAnswer
  <2> SUFFICES ASSUME IInv, NEW m \in Master
               PROVE  /\ Len(reply[m]) <= 1
                      /\ \A k \in DOMAIN reply[m] : client[m] = "wait" /\ reply[m][k].to = stored[m]
    BY DEF OwnAnswer
  <2>1. OneAnswer(m)
    BY DEF IInv, MasterInv
  <2>2. ASSUME NEW S, NEW q \in Seq(S), Len(q) <= 1, NEW k \in DOMAIN q
        PROVE  q # <<>> /\ q[k] = Head(q)
    BY <2>2
  <2>3. reply[m] \in Seq([to : Request, ans : Answer])
    BY DEF IInv, TypeOK
  <2>4. \A k \in DOMAIN reply[m] : reply[m] # <<>> /\ reply[m][k] = Head(reply[m])
    BY <2>1, <2>2, <2>3, Zenon DEF OneAnswer
  <2> QED BY <2>1, <2>4, Zenon DEF OneAnswer
<1> QED BY <1>1, Invariance, PTL

\* The server holds a connection exactly while it processes, and knows every open
\* connection of a master in exactly one place: none is dropped with its socket open,
\* and none is served twice.
THEOREM ConnectionsKnown == Safety => []NoConnectionForgotten
<1>1. IInv => NoConnectionForgotten
  <2> SUFFICES ASSUME IInv
               PROVE  NoConnectionForgotten
    OBVIOUS
  <2>1. (state = "process") <=> (link # NoConn)
    BY DEF IInv, LinkInProcess
  <2>2. ASSUME NEW m \in Master
        PROVE  LET places == {k \in 0 .. Len(backlog) :
                                 IsLive(IF k = 0 THEN link ELSE backlog[k], m)}
               IN  IF peer[m] = "up" THEN \E k \in places : places = {k} ELSE places = {}
    <3> DEFINE places == {k \in 0 .. Len(backlog) : IsLive(IF k = 0 THEN link ELSE backlog[k], m)}
    <3>1. places = {k \in Place : Live(k, m)}
      BY DEF Place, Live, At, Held
    <3>2. LiveOnce(m)
      BY DEF IInv, MasterInv
    <3> HIDE DEF places
    <3>3. CASE peer[m] = "up"
      BY <3>1, <3>2, <3>3 DEF LiveOnce, places
    <3>4. CASE peer[m] # "up"
      BY <3>1, <3>2, <3>4 DEF LiveOnce, places
    <3> QED BY <3>3, <3>4
  <2> QED BY <2>1, <2>2 DEF NoConnectionForgotten
<1> QED BY <1>1, Invariance, PTL

-----------------------------------------------------------------------------
\* Induction over the places of a list, with sets.

\* Every set of naturals has a least member.
LEMMA LeastExists ==
    ASSUME NEW T, T \subseteq Nat, T # {}
    PROVE  \E x \in T : \A y \in T : x <= y
<1>1. PICK x \in T : \A y \in T : <<y, x>> \notin OpToRel(<, Nat)
  BY NatLessThanWellFounded, WFMin
<1>2. ASSUME NEW y \in T PROVE x <= y
  <2>1. x \in Nat /\ y \in Nat
    BY <1>1
  <2>2. ~(y < x)
    BY <1>1, <2>1 DEF OpToRel
  <2> QED BY <2>1, <2>2
<1> QED BY <1>2

\* A set with 0 that goes on with every number it has is all of Nat.
LEMMA SetInduction ==
    ASSUME NEW S, 0 \in S, \A n \in Nat : n \in S => n + 1 \in S
    PROVE  Nat \subseteq S
<1> SUFFICES ASSUME Nat \ S # {} PROVE FALSE
  OBVIOUS
<1>1. PICK x \in Nat \ S : \A y \in Nat \ S : x <= y
  BY LeastExists
<1>2. x \in Nat /\ x # 0
  BY <1>1
<1>3. x - 1 \in Nat /\ x = (x - 1) + 1 /\ ~(x <= x - 1)
  BY <1>2
<1>4. x - 1 \notin S
  BY <1>1, <1>3
<1> QED BY <1>1, <1>3, <1>4

-----------------------------------------------------------------------------
\* The orphans: what the connections of a master that it no longer holds still carry.

AnyConn == Conn \cup {NoConn}

\* What one connection has of them.
LeftOn(c, m) == IF c.who = m /\ c.end # "up" THEN c.inbox ELSE <<>>

\* f[k] is what the first k connections have of them.
AddsUp(conns, m, n, f) ==
    /\ f \in [0 .. n -> Seq(Request)]
    /\ f[0] = <<>>
    /\ \A k \in 1 .. n : f[k] = f[k - 1] \o LeftOn(conns[k], m)

\* What is left on a connection is a sequence of requests.
LEMMA LeftOnType ==
    ASSUME NEW c \in AnyConn, NEW m \in Master
    PROVE  LeftOn(c, m) \in Seq(Request) /\ c.inbox \in Seq(Request)
<1>1. NoConn.inbox \in Seq(Request)
  BY DEF NoConn
<1> QED BY <1>1 DEF LeftOn, AnyConn, Conn

\* Facts about \o, each in the form it is used.
LEMMA ConcatType ==
    ASSUME NEW p \in Seq(Request), NEW q \in Seq(Request)
    PROVE  p \o q \in Seq(Request)
OBVIOUS

LEMMA ConcatEmpty ==
    ASSUME NEW p \in Seq(Request)
    PROVE  p \o <<>> = p /\ <<>> \o p = p /\ <<>> \in Seq(Request)
OBVIOUS

LEMMA ConcatAssociates ==
    ASSUME NEW p \in Seq(Request), NEW q \in Seq(Request), NEW r \in Seq(Request)
    PROVE  (p \o q) \o r = p \o (q \o r)
OBVIOUS

\* The sums over the first n connections go on to the next one.
LEMMA SumsGrow ==
    ASSUME NEW m \in Master, NEW conns, NEW n \in Nat, conns[n + 1] \in AnyConn,
           NEW f, AddsUp(conns, m, n, f)
    PROVE  \E g : AddsUp(conns, m, n + 1, g)
<1> DEFINE last == f[n] \o LeftOn(conns[n + 1], m)
           g == [k \in 0 .. (n + 1) |-> IF k = n + 1 THEN last ELSE f[k]]
<1>1. /\ \A k \in 0 .. (n + 1) : k = n + 1 \/ k \in 0 .. n
      /\ \A k \in 0 .. n : k \in 0 .. (n + 1) /\ k # n + 1
      /\ n + 1 \in 0 .. (n + 1) /\ 0 \in 0 .. n /\ n \in 0 .. n /\ (n + 1) - 1 = n
      /\ \A k \in 1 .. (n + 1) : k = n + 1 \/ (k \in 1 .. n /\ k \in 0 .. n /\ k - 1 \in 0 .. n)
  OBVIOUS
<1>2. (\A k \in 0 .. n : g[k] = f[k]) /\ g[n + 1] = last
  BY <1>1
<1>3. (\A k \in 0 .. n : f[k] \in Seq(Request)) /\ f[0] = <<>>
      /\ \A k \in 1 .. n : f[k] = f[k - 1] \o LeftOn(conns[k], m)
  BY DEF AddsUp
<1>4. last \in Seq(Request)
  BY <1>1, <1>3, LeftOnType, ConcatType
<1>5. \A k \in 1 .. (n + 1) : g[k] = g[k - 1] \o LeftOn(conns[k], m)
  <2> SUFFICES ASSUME NEW k \in 1 .. (n + 1)
               PROVE  g[k] = g[k - 1] \o LeftOn(conns[k], m)
    OBVIOUS
  <2> HIDE DEF g
  <2>1. CASE k = n + 1
    BY <1>1, <1>2, <2>1
  <2>2. CASE k \in 1 .. n /\ k \in 0 .. n /\ k - 1 \in 0 .. n
    BY <1>2, <1>3, <2>2, Zenon
  <2> QED BY <1>1, <2>1, <2>2
<1>6. g \in [0 .. (n + 1) -> Seq(Request)]
  <2> HIDE DEF last
  <2> QED BY <1>1, <1>3, <1>4
<1>7. g[0] = <<>>
  BY <1>1, <1>2, <1>3
<1> HIDE DEF g
<1>8. AddsUp(conns, m, n + 1, g)
  BY <1>5, <1>6, <1>7 DEF AddsUp
<1> QED BY <1>8

\* They exist for every list of connections.
LEMMA SumsExist ==
    ASSUME NEW m \in Master, NEW conns \in Seq(AnyConn)
    PROVE  \E f : AddsUp(conns, m, Len(conns), f)
<1> DEFINE S == {n \in Nat : n <= Len(conns) => \E f : AddsUp(conns, m, n, f)}
<1>1. 0 \in S
  <2>1. AddsUp(conns, m, 0, [k \in 0 .. 0 |-> <<>>])
    BY DEF AddsUp
  <2> QED BY <2>1
<1>2. ASSUME NEW n \in Nat, n \in S PROVE n + 1 \in S
  <2> SUFFICES ASSUME n + 1 <= Len(conns)
               PROVE  \E f : AddsUp(conns, m, n + 1, f)
    OBVIOUS
  <2>1. n <= Len(conns) /\ n + 1 \in 1 .. Len(conns)
    OBVIOUS
  <2>2. PICK f : AddsUp(conns, m, n, f)
    BY <1>2, <2>1
  <2>3. conns[n + 1] \in AnyConn
    BY <2>1
  <2> QED BY <2>2, <2>3, SumsGrow
<1> HIDE DEF S
<1>3. Nat \subseteq S
  BY <1>1, <1>2, SetInduction
<1>4. Len(conns) \in Nat /\ Len(conns) <= Len(conns)
  OBVIOUS
<1> QED BY <1>3, <1>4 DEF S

\* Whatever adds up gives the orphans.
LEMMA OrphansAre ==
    ASSUME NEW m \in Master, NEW conns \in Seq(AnyConn),
           NEW f, AddsUp(conns, m, Len(conns), f)
    PROVE  OrphansIn(conns, m) = f[Len(conns)] /\ f[Len(conns)] \in Seq(Request)
<1> DEFINE n == Len(conns)
           Loop(F) == [k \in 0 .. n |->
                          IF k = 0 THEN <<>>
                          ELSE IF conns[k].who = m /\ conns[k].end # "up" THEN F[k - 1] \o conns[k].inbox
                          ELSE F[k - 1]]
           F == CHOOSE F : F = Loop(F)
<1>1. n \in Nat
  OBVIOUS
<1>2. OrphansIn(conns, m) = F[n]
  BY DEF OrphansIn
<1>3. f \in [0 .. n -> Seq(Request)] /\ f[0] = <<>>
      /\ \A k \in 1 .. n : f[k] = f[k - 1] \o LeftOn(conns[k], m)
  BY DEF AddsUp
<1>4. \A k \in 1 .. n : conns[k] \in AnyConn
  OBVIOUS
<1> HIDE DEF n
<1>5. f = Loop(f)
  <2>1. ASSUME NEW k \in 0 .. n
        PROVE  f[k] = Loop(f)[k]
    <3>1. CASE k = 0
      BY <1>3, <3>1
    <3>2. CASE k # 0
      <4>1. k \in 1 .. n /\ k - 1 \in 0 .. n
        BY <1>1, <3>2
      <4>2. f[k - 1] \o <<>> = f[k - 1]
        BY <1>3, <4>1, ConcatEmpty
      <4>3. f[k] = IF conns[k].who = m /\ conns[k].end # "up" THEN f[k - 1] \o conns[k].inbox
                   ELSE f[k - 1]
        BY <1>3, <4>1, <4>2 DEF LeftOn
      <4> QED BY <3>2, <4>3
    <3> QED BY <3>1, <3>2
  <2>2. f = [k \in 0 .. n |-> f[k]] /\ Loop(f) = [k \in 0 .. n |-> Loop(f)[k]]
    BY <1>3
  <2> HIDE DEF Loop
  <2> QED BY <2>1, <2>2
<1>6. F = Loop(F)
  <2> HIDE DEF Loop
  <2> QED BY <1>5
<1> HIDE DEF F
<1> DEFINE S == {k \in Nat : k <= n => F[k] = f[k]}
<1>7. 0 \in S
  <2>1. 0 \in 0 .. n
    BY <1>1
  <2>2. Loop(F)[0] = <<>>
    BY <2>1
  <2> HIDE DEF Loop
  <2> QED BY <1>3, <1>6, <2>2
<1>8. ASSUME NEW k \in Nat, k \in S PROVE k + 1 \in S
  <2> SUFFICES ASSUME k + 1 <= n PROVE F[k + 1] = f[k + 1]
    OBVIOUS
  <2>1. k <= n /\ k + 1 \in 0 .. n /\ k + 1 \in 1 .. n /\ k + 1 # 0 /\ (k + 1) - 1 = k /\ k \in 0 .. n
    BY <1>1
  <2>2. F[k] = f[k]
    BY <1>8, <2>1
  <2>3. Loop(F)[k + 1] = IF conns[k + 1].who = m /\ conns[k + 1].end # "up"
                         THEN F[k] \o conns[k + 1].inbox ELSE F[k]
    BY <2>1
  <2> HIDE DEF Loop
  <2>4. F[k + 1] = IF conns[k + 1].who = m /\ conns[k + 1].end # "up"
                   THEN f[k] \o conns[k + 1].inbox ELSE f[k]
    BY <1>6, <2>2, <2>3
  <2>5. f[k + 1] = f[k] \o LeftOn(conns[k + 1], m)
    BY <1>3, <2>1
  <2>6. f[k] \o <<>> = f[k]
    BY <1>3, <2>1, ConcatEmpty
  <2>7. f[k] \o LeftOn(conns[k + 1], m) =
           IF conns[k + 1].who = m /\ conns[k + 1].end # "up"
           THEN f[k] \o conns[k + 1].inbox ELSE f[k]
    BY <2>6, Zenon DEF LeftOn
  <2> QED BY <2>4, <2>5, <2>7, Zenon
<1> HIDE DEF S
<1>9. Nat \subseteq S
  BY <1>7, <1>8, SetInduction
<1>10. F[n] = f[n]
  <2>1. n \in Nat /\ n <= n
    BY <1>1
  <2> QED BY <1>9, <2>1 DEF S
<1>11. f[n] \in Seq(Request)
  BY <1>1, <1>3
<1> QED BY <1>2, <1>10, <1>11 DEF n

\* A connection in front comes first.
LEMMA OrphansInFront ==
    ASSUME NEW m \in Master, NEW c \in AnyConn, NEW b \in Seq(AnyConn)
    PROVE  /\ <<c>> \o b \in Seq(AnyConn)
           /\ OrphansIn(<<c>> \o b, m) = LeftOn(c, m) \o OrphansIn(b, m)
           /\ OrphansIn(b, m) \in Seq(Request)
<1> DEFINE conns == <<c>> \o b
           n == Len(b)
<1>1. /\ conns \in Seq(AnyConn) /\ n \in Nat /\ Len(conns) = n + 1
      /\ conns[1] = c /\ \A k \in 1 .. n : conns[k + 1] = b[k]
  OBVIOUS
<1>2. PICK f : AddsUp(b, m, n, f)
  BY SumsExist
<1>3. OrphansIn(b, m) = f[n] /\ f[n] \in Seq(Request)
  BY <1>2, OrphansAre
<1> DEFINE g == [k \in 0 .. (n + 1) |-> IF k = 0 THEN <<>> ELSE LeftOn(c, m) \o f[k - 1]]
<1> HIDE DEF conns, n
<1>4. f \in [0 .. n -> Seq(Request)] /\ f[0] = <<>>
      /\ \A k \in 1 .. n : f[k] = f[k - 1] \o LeftOn(b[k], m)
  BY <1>2 DEF AddsUp
<1>5. LeftOn(c, m) \in Seq(Request)
  BY LeftOnType
<1>6. /\ 0 \in 0 .. (n + 1)
      /\ \A k \in 1 .. (n + 1) : k \in 0 .. (n + 1) /\ k # 0 /\ k - 1 \in 0 .. n
                                 /\ (k = 1 \/ (k - 1 \in 1 .. n /\ k - 1 \in 1 .. (n + 1) /\ (k - 1) + 1 = k
                                               /\ k - 1 # 0 /\ (k - 1) - 1 \in 0 .. n))
      /\ \A k \in 0 .. (n + 1) : k = 0 \/ k - 1 \in 0 .. n
      /\ 1 - 1 = 0 /\ n + 1 \in 1 .. (n + 1) /\ (n + 1) - 1 = n
  BY <1>1
<1>7. g[0] = <<>> /\ \A k \in 1 .. (n + 1) : g[k] = LeftOn(c, m) \o f[k - 1]
  BY <1>6
<1>8. g \in [0 .. (n + 1) -> Seq(Request)]
  <2>1. \A k \in 0 .. (n + 1) : (IF k = 0 THEN <<>> ELSE LeftOn(c, m) \o f[k - 1]) \in Seq(Request)
    BY <1>4, <1>5, <1>6, ConcatType, ConcatEmpty
  <2> QED BY <2>1
<1> HIDE DEF g
<1>9. ASSUME NEW k \in 1 .. (n + 1)
      PROVE  g[k] = g[k - 1] \o LeftOn(conns[k], m)
  <2>1. CASE k = 1
    <3>1. g[1] = LeftOn(c, m) \o f[0] /\ g[0] = <<>>
      BY <1>6, <1>7, <2>1
    <3>2. LeftOn(c, m) \o <<>> = LeftOn(c, m) /\ <<>> \o LeftOn(c, m) = LeftOn(c, m)
      BY <1>5, ConcatEmpty
    <3> QED BY <1>1, <1>4, <1>6, <2>1, <3>1, <3>2
  <2>2. CASE k # 1
    <3> DEFINE j == k - 1
    <3>1. /\ j \in 1 .. n /\ j \in 1 .. (n + 1) /\ j + 1 = k /\ j - 1 \in 0 .. n /\ j \in 0 .. n
      BY <1>6, <2>2
    <3>2. g[k] = LeftOn(c, m) \o f[j] /\ g[j] = LeftOn(c, m) \o f[j - 1]
      BY <1>7, <3>1
    <3>3. conns[k] = b[j]
      BY <1>1, <3>1
    <3> HIDE DEF j
    <3>4. b[j] \in AnyConn
      BY <3>1 DEF n
    <3>5. f[j] = f[j - 1] \o LeftOn(b[j], m)
      BY <1>4, <3>1
    <3>6. f[j - 1] \in Seq(Request) /\ LeftOn(b[j], m) \in Seq(Request)
      BY <1>4, <3>1, <3>4, LeftOnType
    <3>7. LeftOn(c, m) \o (f[j - 1] \o LeftOn(b[j], m)) = (LeftOn(c, m) \o f[j - 1]) \o LeftOn(b[j], m)
      BY <1>5, <3>6, ConcatAssociates
    <3>8. g[k] = g[j] \o LeftOn(conns[k], m)
      BY <3>2, <3>3, <3>5, <3>7, Zenon
    <3> QED BY <3>8 DEF j
  <2> QED BY <2>1, <2>2
<1>10. AddsUp(conns, m, Len(conns), g)
  BY <1>1, <1>7, <1>8, <1>9 DEF AddsUp
<1>11. OrphansIn(conns, m) = g[n + 1]
  BY <1>1, <1>10, OrphansAre
<1>12. g[n + 1] = LeftOn(c, m) \o f[n]
  BY <1>6, <1>7
<1> QED BY <1>1, <1>3, <1>11, <1>12 DEF conns

\* A connection behind comes last.
LEMMA OrphansBehind ==
    ASSUME NEW m \in Master, NEW c \in AnyConn, NEW b \in Seq(AnyConn)
    PROVE  OrphansIn(Append(b, c), m) = OrphansIn(b, m) \o LeftOn(c, m)
<1> DEFINE conns == Append(b, c)
           n == Len(b)
<1>1. /\ conns \in Seq(AnyConn) /\ n \in Nat /\ Len(conns) = n + 1
      /\ conns[n + 1] = c /\ \A k \in 1 .. n : conns[k] = b[k]
  OBVIOUS
<1>2. PICK f : AddsUp(b, m, n, f)
  BY SumsExist
<1>3. OrphansIn(b, m) = f[n] /\ f[n] \in Seq(Request)
  BY <1>2, OrphansAre
<1> HIDE DEF conns, n
<1>4. \A k \in 1 .. n : LeftOn(conns[k], m) = LeftOn(b[k], m)
  BY <1>1
<1>5. AddsUp(conns, m, n, f)
  BY <1>2, <1>4 DEF AddsUp
<1> DEFINE last == f[n] \o LeftOn(c, m)
           g == [k \in 0 .. (n + 1) |-> IF k = n + 1 THEN last ELSE f[k]]
<1>6. /\ \A k \in 0 .. (n + 1) : k = n + 1 \/ k \in 0 .. n
      /\ \A k \in 0 .. n : k \in 0 .. (n + 1) /\ k # n + 1
      /\ n + 1 \in 0 .. (n + 1) /\ 0 \in 0 .. n /\ n \in 0 .. n /\ (n + 1) - 1 = n
      /\ \A k \in 1 .. (n + 1) : k = n + 1 \/ (k \in 1 .. n /\ k \in 0 .. n /\ k - 1 \in 0 .. n)
  BY <1>1
<1>7. (\A k \in 0 .. n : g[k] = f[k]) /\ g[n + 1] = last
  BY <1>6
<1>8. (\A k \in 0 .. n : f[k] \in Seq(Request)) /\ f[0] = <<>>
      /\ \A k \in 1 .. n : f[k] = f[k - 1] \o LeftOn(conns[k], m)
  BY <1>5 DEF AddsUp
<1>9. last \in Seq(Request)
  BY <1>3, LeftOnType, ConcatType
<1>10. g \in [0 .. (n + 1) -> Seq(Request)]
  <2> HIDE DEF last
  <2> QED BY <1>6, <1>8, <1>9
<1> HIDE DEF g
<1>11. ASSUME NEW k \in 1 .. (n + 1)
       PROVE  g[k] = g[k - 1] \o LeftOn(conns[k], m)
  <2>1. CASE k = n + 1
    BY <1>1, <1>6, <1>7, <2>1
  <2>2. CASE k \in 1 .. n /\ k \in 0 .. n /\ k - 1 \in 0 .. n
    BY <1>7, <1>8, <2>2, Zenon
  <2> QED BY <1>6, <2>1, <2>2
<1>12. AddsUp(conns, m, Len(conns), g)
  BY <1>1, <1>6, <1>7, <1>8, <1>10, <1>11 DEF AddsUp
<1>13. OrphansIn(conns, m) = g[n + 1]
  BY <1>1, <1>12, OrphansAre
<1> QED BY <1>3, <1>7, <1>13 DEF conns

\* Connections that leave the same have the same orphans.
LEMMA OrphansStay ==
    ASSUME NEW m \in Master, NEW b \in Seq(AnyConn), NEW conns \in Seq(AnyConn),
           Len(conns) = Len(b),
           \A k \in 1 .. Len(b) : LeftOn(conns[k], m) = LeftOn(b[k], m)
    PROVE  OrphansIn(conns, m) = OrphansIn(b, m)
<1>1. PICK f : AddsUp(b, m, Len(b), f)
  BY SumsExist
<1>2. AddsUp(conns, m, Len(conns), f)
  BY <1>1 DEF AddsUp
<1> QED BY <1>1, <1>2, OrphansAre

\* A connection that leaves something, where those behind it leave nothing, adds it at
\* the end.
LEMMA OrphansJoin ==
    ASSUME NEW m \in Master, NEW b \in Seq(AnyConn), NEW conns \in Seq(AnyConn),
           Len(conns) = Len(b), NEW p \in 1 .. Len(b), LeftOn(b[p], m) = <<>>,
           \A k \in 1 .. Len(b) : k # p => LeftOn(conns[k], m) = LeftOn(b[k], m),
           \A k \in 1 .. Len(b) : k > p => LeftOn(b[k], m) = <<>>
    PROVE  OrphansIn(conns, m) = OrphansIn(b, m) \o LeftOn(conns[p], m)
<1> DEFINE n == Len(b)
           q == LeftOn(conns[p], m)
<1>1. n \in Nat /\ p \in 1 .. n /\ conns[p] \in AnyConn
  OBVIOUS
<1>2. PICK f : AddsUp(b, m, n, f)
  BY SumsExist
<1>3. OrphansIn(b, m) = f[n] /\ f[n] \in Seq(Request)
  BY <1>2, OrphansAre
<1>4. q \in Seq(Request)
  BY <1>1, LeftOnType
<1> HIDE DEF n, q
<1> DEFINE g == [k \in 0 .. n |-> IF k < p THEN f[k] ELSE f[k] \o q]
<1>5. f \in [0 .. n -> Seq(Request)] /\ f[0] = <<>>
      /\ \A k \in 1 .. n : f[k] = f[k - 1] \o LeftOn(b[k], m)
  BY <1>2 DEF AddsUp
<1>6. /\ 0 \in 0 .. n /\ 0 < p /\ n \in 0 .. n /\ ~(n < p)
      /\ \A k \in 1 .. n : k \in 0 .. n /\ k - 1 \in 0 .. n
      /\ \A k \in 1 .. n : \/ k < p /\ k - 1 < p /\ k # p
                           \/ k = p /\ k - 1 < p /\ ~(k < p)
                           \/ k > p /\ k # p /\ ~(k - 1 < p) /\ ~(k < p)
  BY <1>1
<1>7. g \in [0 .. n -> Seq(Request)]
  <2>1. \A k \in 0 .. n : f[k] \o q \in Seq(Request)
    BY <1>4, <1>5, ConcatType
  <2> QED BY <1>5, <2>1
<1>8. g[0] = <<>> /\ g[n] = f[n] \o q
  BY <1>5, <1>6
<1>9. ASSUME NEW k \in 1 .. n
      PROVE  g[k] = g[k - 1] \o LeftOn(conns[k], m)
  <2>1. /\ g[k] = IF k < p THEN f[k] ELSE f[k] \o q
        /\ g[k - 1] = IF k - 1 < p THEN f[k - 1] ELSE f[k - 1] \o q
    BY <1>6
  <2> HIDE DEF g
  <2>2. f[k] = f[k - 1] \o LeftOn(b[k], m) /\ f[k - 1] \in Seq(Request) /\ f[k] \in Seq(Request)
    BY <1>5, <1>6
  <2>3. f[k - 1] \o <<>> = f[k - 1]
    BY <2>2, ConcatEmpty
  <2>4. CASE k < p /\ k - 1 < p /\ k # p
    <3>1. LeftOn(conns[k], m) = LeftOn(b[k], m)
      BY <2>4 DEF n
    <3> QED BY <2>1, <2>2, <2>4, <3>1, Zenon
  <2>5. CASE k = p /\ k - 1 < p /\ ~(k < p)
    <3>1. LeftOn(b[k], m) = <<>> /\ LeftOn(conns[k], m) = q
      BY <2>5 DEF q
    <3>2. f[k] = f[k - 1]
      BY <2>2, <2>3, <3>1, Zenon
    <3> QED BY <2>1, <2>5, <3>1, <3>2, Zenon
  <2>6. CASE k > p /\ k # p /\ ~(k - 1 < p) /\ ~(k < p)
    <3>1. LeftOn(b[k], m) = <<>> /\ LeftOn(conns[k], m) = <<>>
      BY <2>6 DEF n
    <3>2. f[k] = f[k - 1]
      BY <2>2, <2>3, <3>1, Zenon
    <3>3. f[k] \o q \in Seq(Request)
      BY <1>4, <2>2, ConcatType
    <3>4. (f[k] \o q) \o <<>> = f[k] \o q
      BY <3>3, ConcatEmpty
    <3> QED BY <2>1, <2>6, <3>1, <3>2, <3>4, Zenon
  <2> QED BY <1>6, <2>4, <2>5, <2>6, Zenon
<1> HIDE DEF g
<1>10. AddsUp(conns, m, Len(conns), g)
  BY <1>7, <1>8, <1>9 DEF AddsUp, n
<1>11. OrphansIn(conns, m) = g[Len(conns)]
  BY <1>10, OrphansAre
<1> QED BY <1>3, <1>8, <1>11 DEF n, q

-----------------------------------------------------------------------------
\* What the invariant lacks for the refinement: no connection, held or not, carries more
\* than one request, and none of a master is behind the one it holds.

Short(q) == q = <<>> \/ \E r \in Request : q = <<r>>

LiveLast(m) == \A j, k \in Place : Live(j, m) /\ At(k).who = m => k <= j

RInv == (\A k \in Place : Short(At(k).inbox)) /\ \A m \in Master : LiveLast(m)

\* Every place is 0 or a place in the backlog, and a connection or none is there.
LEMMA PlacesAre ==
    ASSUME TypeOK
    PROVE  \A k \in Place : At(k) \in AnyConn /\ k \in Nat /\ (k = 0 \/ k \in 1 .. Len(backlog))
<1>1. /\ backlog \in [1 .. Len(backlog) -> Conn] /\ Len(backlog) \in Nat /\ link \in AnyConn
  BY DEF TypeOK, AnyConn
<1>2. \A k \in Place : k \in Nat /\ (k = 0 \/ k \in 1 .. Len(backlog))
  BY <1>1 DEF Place
<1> QED BY <1>1, <1>2 DEF At, Held, AnyConn

\* Neither the end of a connection nor a request on it changes whose it is.
LEMMA WhoStays ==
    ASSUME NEW c \in AnyConn, NEW m \in Master
    PROVE  /\ \A end \in {"fin", "dead"} : Ended(c, m, end).who = c.who
           /\ \A r \in Request : Reached(c, m, r).who = c.who
<1>1. CASE c \in Conn
  BY <1>1 DEF Ended, Reached, Conn
<1>2. CASE c = NoConn
  BY <1>2, ServerAssumption DEF Ended, Reached, IsLive, NoConn
<1> QED BY <1>1, <1>2 DEF AnyConn

\* A step that keeps every connection in its place.
LEMMA InPlaceKeeps ==
    ASSUME RInv, Len(backlog') = Len(backlog),
           \A k \in Place :
              /\ Held(link', backlog', k).who \in {At(k).who, NoMaster}
              /\ Short(Held(link', backlog', k).inbox)
              /\ \A x \in Master : IsLive(Held(link', backlog', k), x) => Live(k, x)
    PROVE  RInv'
<1>1. Place' = Place
  BY DEF Place
<1>2. \A k \in Place' : Short(At(k)'.inbox)
  BY <1>1 DEF At
<1>3. ASSUME NEW m \in Master, NEW j \in Place, NEW k \in Place,
             IsLive(Held(link', backlog', j), m), Held(link', backlog', k).who = m
      PROVE  k <= j
  <2>1. At(k).who = m
    BY <1>3, ServerAssumption
  <2>2. Live(j, m)
    BY <1>3
  <2> QED BY <2>1, <2>2 DEF RInv, LiveLast
<1>4. \A m \in Master : LiveLast(m)'
  BY <1>1, <1>3 DEF LiveLast, Live, At
<1> QED BY <1>2, <1>4 DEF RInv

\* Accept: the connections move one place up.
LEMMA AcceptKeepsR ==
    ASSUME TypeOK, RInv, backlog # <<>>, link' = Head(backlog), backlog' = Tail(backlog)
    PROVE  RInv'
<1>1. Len(backlog') = Len(backlog) - 1 /\ Len(backlog) \in Nat \ {0}
      /\ link' = backlog[1] /\ \A k \in 1 .. Len(backlog') : backlog'[k] = backlog[k + 1]
  BY DEF TypeOK
<1>2. \A k \in Place' : k \in Nat /\ k + 1 \in Place /\ Held(link', backlog', k) = At(k + 1)
  BY <1>1 DEF Place, Held, At
<1>3. \A k \in Place' : Short(At(k)'.inbox)
  BY <1>2 DEF RInv, At
<1>4. ASSUME NEW m \in Master, NEW j \in Place', NEW k \in Place',
             IsLive(Held(link', backlog', j), m), Held(link', backlog', k).who = m
      PROVE  k <= j
  <2>1. k + 1 <= j + 1
    BY <1>2, <1>4 DEF RInv, LiveLast, Live
  <2> QED BY <1>2, <2>1
<1>5. \A m \in Master : LiveLast(m)'
  BY <1>4 DEF LiveLast, Live, At
<1> QED BY <1>3, <1>5 DEF RInv

\* A new connection is behind all others, and its master holds no other.
LEMMA ConnectKeepsR ==
    ASSUME IInv, RInv, NEW m \in Master, client[m] = "connect",
           link' = link, backlog' = Append(backlog, NewConn(m))
    PROVE  RInv'
<1> DEFINE n == Len(backlog) + 1
<1>1. TypeOK /\ peer[m] = "none"
  BY DEF IInv, PeerMatchesClient, TypeOK
<1>2. /\ Place' = Place \cup {n} /\ n \notin Place /\ n \in Place'
      /\ Held(link', backlog', n) = NewConn(m)
      /\ \A k \in Place : Held(link', backlog', k) = At(k) /\ k <= n
  <2>1. backlog \in Seq(Conn) /\ Len(backlog) \in Nat
    BY <1>1 DEF TypeOK
  <2>2. NewConn(m) \in Conn
    BY DEF NewConn, Conn
  <2>3. /\ Len(backlog') = n /\ backlog'[n] = NewConn(m)
        /\ \A k \in 1 .. Len(backlog) : backlog'[k] = backlog[k]
    BY <2>1, <2>2
  <2>4. Place' = Place \cup {n} /\ n \notin Place /\ n # 0 /\ \A k \in Place : k <= n
    BY <2>1, <2>3 DEF Place
  <2>5. \A k \in Place : k = 0 \/ k \in 1 .. Len(backlog)
    BY <2>1 DEF Place
  <2> QED BY <2>3, <2>4, <2>5 DEF Held, At
<1>3. NewConn(m).who = m /\ NewConn(m).inbox = <<>>
  BY DEF NewConn
<1>4. n <= n
  BY <1>1 DEF TypeOK
<1> HIDE DEF n
<1>5. \A k \in Place' : Short(At(k)'.inbox)
  BY <1>2, <1>3 DEF RInv, At, Short
<1>6. ASSUME NEW x \in Master, NEW j \in Place', NEW k \in Place',
             IsLive(Held(link', backlog', j), x), Held(link', backlog', k).who = x
      PROVE  k <= j
  <2>1. CASE j = n
    BY <1>2, <1>4, <2>1
  <2>2. CASE j \in Place
    <3>1. Live(j, x)
      BY <1>2, <1>6, <2>2 DEF Live
    <3>2. x # m
      BY <1>1, <2>2, <3>1 DEF IInv, MasterInv, LiveOnce
    <3>3. k \in Place
      BY <1>2, <1>3, <1>6, <3>2
    <3> QED BY <1>2, <1>6, <2>2, <3>1, <3>3 DEF RInv, LiveLast
  <2> QED BY <1>2, <2>1, <2>2
<1>7. \A x \in Master : LiveLast(x)'
  BY <1>6 DEF LiveLast, Live, At
<1> QED BY <1>5, <1>7 DEF RInv

\* Where one request at most is, none is left when it is taken.
LEMMA TailShort ==
    ASSUME NEW q \in Seq(Request), Short(q)
    PROVE  Tail(q) = <<>> \/ q = <<>>
<1>1. \A r : Tail(<<r>>) = <<>>
  OBVIOUS
<1> QED BY <1>1 DEF Short

LEMMA ServerTickKeepsR ==
    ASSUME IInv, RInv, ServerTick
    PROVE  RInv'
<1>0. TypeOK
  BY DEF IInv
<1>1. TypeOK /\ ServerStep /\ 0 \in Place
  <2>1. ServerStep
    BY <1>0, ServerTickSteps
  <2>2. 0 \in Place
    BY <1>0 DEF Place, TypeOK
  <2> QED BY <1>0, <2>1, <2>2
<1>2. CASE UNCHANGED <<link, backlog>>
  <2>1. \A k \in Place : Held(link', backlog', k) = At(k)
    BY <1>2 DEF Held, At
  <2> QED BY <1>2, <2>1, InPlaceKeeps DEF RInv, Live
<1>3. CASE backlog # <<>> /\ link' = Head(backlog) /\ backlog' = Tail(backlog)
  BY <1>1, <1>3, AcceptKeepsR
<1>4. CASE link' = NoConn /\ backlog' = backlog
  <2>1. \A k \in Place : Held(link', backlog', k) = At(k) \/ Held(link', backlog', k) = NoConn
    BY <1>4 DEF Held, At
  <2>2. /\ NoConn.who = NoMaster /\ Short(NoConn.inbox)
        /\ \A x \in Master : ~IsLive(NoConn, x)
    BY ServerAssumption DEF NoConn, Short, IsLive
  <2> QED BY <1>4, <2>1, <2>2, InPlaceKeeps DEF RInv, Live
<1>5. CASE /\ link.inbox # <<>>
           /\ \/ link' = Taken
              \/ link.end \in {"fin", "dead"} /\ link' = [Taken EXCEPT !.end = "fin"]
           /\ backlog' = backlog
  <2>1. /\ link'.end = "up" => link.end = "up"
        /\ link.inbox \in Seq(Request)
        /\ link'.inbox = Tail(link.inbox) /\ link'.who = link.who
    <3>1. /\ Taken = [who |-> link.who, end |-> link.end, inbox |-> Tail(link.inbox)]
          /\ [Taken EXCEPT !.end = "fin"] =
                [who |-> link.who, end |-> "fin", inbox |-> Tail(link.inbox)]
          /\ link \in Conn
      BY <1>1, <1>5, TakenType
    <3>2. link.inbox \in Seq(Request)
      BY <3>1 DEF Conn
    <3>3. CASE link' = Taken
      BY <3>1, <3>2, <3>3
    <3>4. CASE link' = [Taken EXCEPT !.end = "fin"]
      BY <3>1, <3>2, <3>4
    <3> QED BY <1>5, <3>3, <3>4
  <2>2. Short(link.inbox)
    <3>1. At(0) = link
      BY DEF At, Held
    <3> QED BY <1>1, <3>1 DEF RInv
  <2>3. Short(link'.inbox) /\ link'.who = link.who
    <3>1. Tail(link.inbox) = <<>>
      BY <1>5, <2>1, <2>2, TailShort
    <3>2. link'.inbox = <<>>
      BY <2>1, <3>1
    <3> QED BY <2>1, <3>2, Zenon DEF Short
  <2>4. \A k \in Place : k = 0 \/ Held(link', backlog', k) = At(k)
    BY <1>5 DEF Held, At
  <2>5. /\ Held(link', backlog', 0).who = At(0).who
        /\ Short(Held(link', backlog', 0).inbox)
        /\ \A x \in Master : IsLive(Held(link', backlog', 0), x) => Live(0, x)
    BY <2>1, <2>3 DEF Held, At, Live, IsLive
  <2> QED BY <1>5, <2>4, <2>5, InPlaceKeeps DEF RInv, Live
<1> QED BY <1>1, <1>2, <1>3, <1>4, <1>5 DEF ServerStep

LEMMA WorldStepKeepsR ==
    ASSUME IInv, RInv, NEW m \in Master, WorldStep(m)
    PROVE  RInv'
<1> USE DEF serverVars
<1>1. TypeOK
  BY DEF IInv
<1>2. CASE UNCHANGED <<link, backlog>>
  <2>1. \A k \in Place : Held(link', backlog', k) = At(k)
    BY <1>2 DEF Held, At
  <2> QED BY <1>2, <2>1, InPlaceKeeps DEF RInv, Live
<1>3. CASE client[m] = "connect" /\ link' = link /\ backlog' = Append(backlog, NewConn(m))
  BY <1>3, ConnectKeepsR
<1>4. ASSUME NEW r \in Request, Exec(m, r)
      PROVE  RInv'
  <2>1. /\ Len(backlog') = Len(backlog)
        /\ \A k \in Place :
              /\ Held(link', backlog', k) = Reached(At(k), m, r)
              /\ Held(link', backlog', k).inbox =
                     IF Live(k, m) THEN Append(At(k).inbox, r) ELSE At(k).inbox
              /\ \A x \in Master : IsLive(Held(link', backlog', k), x) <=> Live(k, x)
    BY <1>1, <1>4, ExecSteps
  <2>2. client[m] = "run"
    BY <1>4 DEF Exec
  <2>3. \A k \in Place : Live(k, m) => At(k).inbox = <<>>
    BY <2>2 DEF IInv, MasterInv, OneRequest
  <2>4. Append(<<>>, r) = <<r>>
    OBVIOUS
  <2>5. \A k \in Place : Short(Held(link', backlog', k).inbox)
    BY <2>1, <2>3, <2>4 DEF RInv, Short
  <2>6. \A k \in Place : Held(link', backlog', k).who = At(k).who
    BY <1>1, <2>1, PlacesAre, WhoStays
  <2> QED BY <2>1, <2>5, <2>6, InPlaceKeeps
<1>5. ASSUME NEW end \in {"fin", "dead"}, EndConnection(m, end)
      PROVE  RInv'
  <2>1. /\ Len(backlog') = Len(backlog)
        /\ \A k \in Place :
              /\ Held(link', backlog', k) = Ended(At(k), m, end)
              /\ Held(link', backlog', k).inbox = At(k).inbox
              /\ \A x \in Master : IsLive(Held(link', backlog', k), x) <=> Live(k, x) /\ x # m
    BY <1>1, <1>5, EndSteps
  <2>2. \A k \in Place : Held(link', backlog', k).who = At(k).who
    BY <1>1, <2>1, PlacesAre, WhoStays
  <2> QED BY <2>1, <2>2, InPlaceKeeps DEF RInv
<1>6. CASE Leave(m) \/ Vanish(m) \/ Break(m)
  <2>1. PICK end \in {"fin", "dead"} : EndConnection(m, end)
    BY <1>6 DEF Leave, Vanish, Break
  <2> QED BY <1>5, <2>1
<1>7. CASE ClientInit(m) \/ ClientIdle(m) \/ ClientConnect(m) \/ ClientWait(m) \/ ClientError(m)
  BY <1>2, <1>3, <1>7 DEF ClientInit, ClientIdle, ClientConnect, ClientWait, ClientError
<1> QED BY <1>4, <1>6, <1>7 DEF WorldStep

LEMMA RInvNext ==
    ASSUME IInv, RInv, [Next]_vars
    PROVE  RInv'
<1>1. CASE UNCHANGED <<link, backlog>>
  <2>1. \A k \in Place : Held(link', backlog', k) = At(k)
    BY <1>1 DEF Held, At
  <2> QED BY <1>1, <2>1, InPlaceKeeps DEF RInv, Live
<1>2. TypeOK
  BY DEF IInv
<1>3. GateStores \/ UNCHANGED vars => UNCHANGED <<link, backlog>>
  BY DEF GateStores, vars
<1> QED BY <1>1, <1>2, <1>3, NextSteps, ServerTickKeepsR, WorldStepKeepsR

\* Together with IInv it is inductive; the steps come before, this is the beginning.
LEMMA RInvInit ==
    ASSUME Init
    PROVE  RInv
<1>1. Place = {0} /\ At(0) = NoConn
  BY DEF Init, Place, At, Held
<1>2. NoConn.inbox = <<>> /\ \A m \in Master : ~IsLive(NoConn, m)
  BY ServerAssumption DEF NoConn, IsLive
<1> QED BY <1>1, <1>2 DEF RInv, LiveLast, Live, Short

-----------------------------------------------------------------------------
\* The conversation of a master, as RegisterService sees it, in terms of the places.

Asked(l, b, x) == \E k \in 0 .. Len(b) : IsLive(Held(l, b, k), x) /\ Held(l, b, k).inbox # <<>>

CallFrom(c, q, s, l, b, x) ==
    IF c # "wait" THEN Service!Idle
    ELSE IF q # <<>>
    THEN Service!Answered(Head(q).ans.fc # "error",
                          IF Head(q).ans.fc = "read" THEN Head(q).ans.data ELSE <<>>)
    ELSE IF Asked(l, b, x) THEN Service!Waiting(s)
    ELSE Service!Idle

OrphansFrom(l, b, x) == LeftOn(l, x) \o OrphansIn(b, x)

Calls == [m \in Master |-> CallOf(m)]
Lefts == [m \in Master |-> OrphansIn(Conns, m)]

\* The places and the list Conns are the same connections.
LEMMA AskedIs ==
    ASSUME NEW l, NEW b \in Seq(Conn), NEW x
    PROVE  (\E k \in DOMAIN (<<l>> \o b) :
                IsLive((<<l>> \o b)[k], x) /\ (<<l>> \o b)[k].inbox # <<>>) <=> Asked(l, b, x)
<1> DEFINE conns == <<l>> \o b
<1>1. /\ DOMAIN conns = 1 .. (Len(b) + 1) /\ conns[1] = l
      /\ \A k \in 1 .. Len(b) : conns[k + 1] = b[k]
      /\ Len(b) \in Nat
  <2>1. b \in Seq({l} \cup Conn) /\ <<l>> \in Seq({l} \cup Conn)
    OBVIOUS
  <2> QED BY <2>1
<1> HIDE DEF conns
<1>2. \A k \in 0 .. Len(b) : k + 1 \in DOMAIN conns /\ conns[k + 1] = Held(l, b, k)
  BY <1>1 DEF Held
<1>3. \A k \in DOMAIN conns : k - 1 \in 0 .. Len(b) /\ (k - 1) + 1 = k
  BY <1>1
<1>4. \A k \in DOMAIN conns : k - 1 \in 0 .. Len(b) /\ conns[k] = Held(l, b, k - 1)
  BY <1>2, <1>3
<1>5. (\E k \in DOMAIN conns : IsLive(conns[k], x) /\ conns[k].inbox # <<>>) <=> Asked(l, b, x)
  BY <1>2, <1>4 DEF Asked
<1> QED BY <1>5 DEF conns

\* What RegisterService sees of a master, before a step and after it.
LEMMA SeenNow ==
    TypeOK => \A x \in Master :
        /\ CallOf(x) = CallFrom(client[x], reply[x], stored[x], link, backlog, x)
        /\ OrphansIn(Conns, x) = OrphansFrom(link, backlog, x)
<1> SUFFICES ASSUME TypeOK, NEW x \in Master
             PROVE  /\ CallOf(x) = CallFrom(client[x], reply[x], stored[x], link, backlog, x)
                    /\ OrphansIn(Conns, x) = OrphansFrom(link, backlog, x)
  OBVIOUS
<1>1. link \in AnyConn /\ backlog \in Seq(Conn) /\ backlog \in Seq(AnyConn)
  BY DEF TypeOK, AnyConn
<1>2. (\E k \in DOMAIN Conns : IsLive(Conns[k], x) /\ Conns[k].inbox # <<>>) <=> Asked(link, backlog, x)
  BY <1>1, AskedIs DEF Conns
<1>3. CallOf(x) = CallFrom(client[x], reply[x], stored[x], link, backlog, x)
  BY <1>2, Zenon DEF CallOf, CallFrom, Service!Idle, Service!Answered, Service!Waiting
<1>4. OrphansIn(Conns, x) = OrphansFrom(link, backlog, x)
  BY <1>1, OrphansInFront DEF Conns, OrphansFrom
<1> QED BY <1>3, <1>4

LEMMA SeenNext ==
    ASSUME TypeOK', NEW x \in Master
    PROVE  /\ CallOf(x)' = CallFrom(client'[x], reply'[x], stored'[x], link', backlog', x)
           /\ OrphansIn(Conns, x)' = OrphansFrom(link', backlog', x)
<1>1. link' \in AnyConn /\ backlog' \in Seq(Conn) /\ backlog' \in Seq(AnyConn)
  BY DEF TypeOK, AnyConn
<1>2. (\E k \in DOMAIN Conns' : IsLive(Conns'[k], x) /\ Conns'[k].inbox # <<>>) <=> Asked(link', backlog', x)
  BY <1>1, AskedIs DEF Conns
<1>3. CallOf(x)' = CallFrom(client'[x], reply'[x], stored'[x], link', backlog', x)
  BY <1>2, Zenon DEF CallOf, CallFrom, Service!Idle, Service!Answered, Service!Waiting
<1>4. OrphansIn(Conns, x)' = OrphansFrom(link', backlog', x)
  BY <1>1, OrphansInFront DEF Conns, OrphansFrom
<1> QED BY <1>3, <1>4

\* Where no connection leaves anything there are no orphans.
LEMMA NoOrphans ==
    ASSUME NEW m \in Master, NEW b \in Seq(AnyConn),
           \A k \in 1 .. Len(b) : LeftOn(b[k], m) = <<>>
    PROVE  OrphansIn(b, m) = <<>>
<1> DEFINE f == [k \in 0 .. Len(b) |-> <<>>]
<1>1. \A k \in 1 .. Len(b) : k \in 0 .. Len(b) /\ k - 1 \in 0 .. Len(b)
  OBVIOUS
<1>2. 0 \in 0 .. Len(b) /\ Len(b) \in 0 .. Len(b)
  OBVIOUS
<1>3. <<>> \in Seq(Request) /\ <<>> \o <<>> = <<>>
  BY ConcatEmpty
<1>4. AddsUp(b, m, Len(b), f)
  BY <1>1, <1>2, <1>3 DEF AddsUp
<1>5. OrphansIn(b, m) = f[Len(b)]
  <2> HIDE DEF f
  <2> QED BY <1>4, OrphansAre
<1> QED BY <1>2, <1>5

-----------------------------------------------------------------------------
\* The steps of RegisterService, for one master.

OthersStay(m) ==
    \A x \in Master \ {m} : /\ CallOf(x)' = CallOf(x)
                            /\ OrphansIn(Conns, x)' = OrphansIn(Conns, x)

\* A step that only one master sees changes the two functions at that master.
LEMMA OneChanges ==
    ASSUME NEW m \in Master, OthersStay(m)
    PROVE  /\ Calls' = [Calls EXCEPT ![m] = CallOf(m)']
           /\ Lefts' = [Lefts EXCEPT ![m] = OrphansIn(Conns, m)']
           /\ Calls[m] = CallOf(m) /\ Lefts[m] = OrphansIn(Conns, m)
           /\ CallOf(m)' = CallOf(m) => Calls' = Calls
           /\ OrphansIn(Conns, m)' = OrphansIn(Conns, m) => Lefts' = Lefts
<1> DEFINE c == CallOf(m)'
           o == OrphansIn(Conns, m)'
<1>1. Calls' = [x \in Master |-> CallOf(x)'] /\ Lefts' = [x \in Master |-> OrphansIn(Conns, x)']
  BY DEF Calls, Lefts
<1>2. Calls = [x \in Master |-> CallOf(x)] /\ Lefts = [x \in Master |-> OrphansIn(Conns, x)]
  BY DEF Calls, Lefts
<1>3. \A x \in Master \ {m} : CallOf(x)' = CallOf(x) /\ OrphansIn(Conns, x)' = OrphansIn(Conns, x)
  BY DEF OthersStay
<1>4. Calls' = [Calls EXCEPT ![m] = c]
  BY <1>1, <1>2, <1>3
<1>5. Lefts' = [Lefts EXCEPT ![m] = o]
  BY <1>1, <1>2, <1>3
<1> QED BY <1>1, <1>2, <1>3, <1>4, <1>5

ServiceStep == [Service!Next]_<<regs, Calls, Lefts>>

\* One lemma for each action of RegisterService: what the step has to do to the one
\* master it is about.
LEMMA Stutters ==
    ASSUME NEW m \in Master, OthersStay(m), UNCHANGED <<regs, CallOf(m), OrphansIn(Conns, m)>>
    PROVE  ServiceStep
<1>1. Calls' = Calls /\ Lefts' = Lefts /\ regs' = regs
  BY OneChanges
<1> QED BY <1>1 DEF ServiceStep

LEMMA Calling ==
    ASSUME NEW m \in Master, OthersStay(m), NEW r \in Request,
           CallOf(m) = Service!Idle, CallOf(m)' = Service!Waiting(r),
           UNCHANGED <<regs, OrphansIn(Conns, m)>>
    PROVE  ServiceStep
<1>1. /\ Calls[m] = Service!Idle /\ Calls' = [Calls EXCEPT ![m] = Service!Waiting(r)]
      /\ Lefts' = Lefts /\ regs' = regs
  BY OneChanges
<1>2. Service!Call(m, r)
  BY <1>1 DEF Service!Call, Calls, Lefts
<1> QED BY <1>2 DEF ServiceStep, Service!Next

LEMMA Finishing ==
    ASSUME NEW m \in Master, OthersStay(m), CallOf(m)' = Service!Idle,
           UNCHANGED <<regs, OrphansIn(Conns, m)>>
    PROVE  ServiceStep
<1>1. CASE CallOf(m) = Service!Idle
  <2>1. CallOf(m)' = CallOf(m)
    BY <1>1
  <2> QED BY <2>1, Stutters
<1>2. CASE CallOf(m) # Service!Idle
  <2>1. /\ Calls[m] # Service!Idle /\ Calls' = [Calls EXCEPT ![m] = Service!Idle]
        /\ Lefts' = Lefts /\ regs' = regs
    BY <1>2, OneChanges
  <2>2. Service!Finish(m)
    BY <2>1 DEF Service!Finish, Calls, Lefts
  <2> QED BY <2>2 DEF ServiceStep, Service!Next
<1> QED BY <1>1, <1>2

LEMMA WaitingIs ==
    ASSUME NEW r
    PROVE  Service!Waiting(r).stage = "waiting" /\ Service!Waiting(r).req = r
BY DEF Service!Waiting

LEMMA Abandoning ==
    ASSUME NEW m \in Master, OthersStay(m), NEW r,
           CallOf(m) = Service!Waiting(r), CallOf(m)' = Service!Idle,
           OrphansIn(Conns, m)' = Append(OrphansIn(Conns, m), r), UNCHANGED regs
    PROVE  ServiceStep
<1>1. /\ Calls[m].stage = "waiting" /\ Calls[m].req = r
      /\ Calls' = [Calls EXCEPT ![m] = Service!Idle]
      /\ Lefts' = [Lefts EXCEPT ![m] = Append(Lefts[m], r)] /\ regs' = regs
  BY OneChanges, WaitingIs
<1>2. Service!Abandon(m)
  BY <1>1 DEF Service!Abandon, Calls, Lefts
<1> QED BY <1>2 DEF ServiceStep, Service!Next

LEMMA Performing ==
    ASSUME NEW m \in Master, OthersStay(m), NEW r,
           CallOf(m) = Service!Waiting(r), OrphansIn(Conns, m) = <<>>,
           Service!Performable(r), regs' = Service!Effect(r),
           CallOf(m)' = Service!Answered(TRUE, Service!Result(r)),
           UNCHANGED OrphansIn(Conns, m)
    PROVE  ServiceStep
<1>1. /\ Calls[m].stage = "waiting" /\ Calls[m].req = r /\ Lefts[m] = <<>>
      /\ Calls' = [Calls EXCEPT ![m] = Service!Answered(TRUE, Service!Result(r))]
      /\ Lefts' = Lefts
  BY OneChanges, WaitingIs
<1>2. Service!Perform(m)
  BY <1>1 DEF Service!Perform, Calls, Lefts
<1> QED BY <1>2 DEF ServiceStep, Service!Next

LEMMA Refusing ==
    ASSUME NEW m \in Master, OthersStay(m), NEW r, CallOf(m) = Service!Waiting(r),
           CallOf(m)' = Service!Answered(FALSE, <<>>),
           UNCHANGED <<regs, OrphansIn(Conns, m)>>
    PROVE  ServiceStep
<1>1. /\ Calls[m].stage = "waiting"
      /\ Calls' = [Calls EXCEPT ![m] = Service!Answered(FALSE, <<>>)]
      /\ Lefts' = Lefts /\ regs' = regs
  BY OneChanges, WaitingIs
<1>2. Service!Refuse(m)
  BY <1>1 DEF Service!Refuse, Calls, Lefts
<1> QED BY <1>2 DEF ServiceStep, Service!Next

LEMMA EndingOrphan ==
    ASSUME NEW m \in Master, OthersStay(m), UNCHANGED CallOf(m),
           NEW r, NEW rest \in Seq(Request),
           OrphansIn(Conns, m) = <<r>> \o rest, OrphansIn(Conns, m)' = rest,
           regs' = regs \/ (Service!Performable(r) /\ regs' = Service!Effect(r))
    PROVE  ServiceStep
<1>1. <<r>> \o rest # <<>> /\ Head(<<r>> \o rest) = r /\ Tail(<<r>> \o rest) = rest
  <2>1. <<r>> \in Seq({r} \cup Request) /\ rest \in Seq({r} \cup Request)
    OBVIOUS
  <2> QED BY <2>1
<1>2. /\ Lefts[m] = <<r>> \o rest
      /\ Lefts' = [Lefts EXCEPT ![m] = rest]
      /\ Calls' = Calls
  BY OneChanges
<1>3. /\ Lefts[m] # <<>> /\ Head(Lefts[m]) = r
      /\ Lefts' = [Lefts EXCEPT ![m] = Tail(Lefts[m])]
      /\ Calls' = Calls
  BY <1>1, <1>2, Zenon
<1>4. Service!EndOrphan(m)
  BY <1>3, Zenon DEF Service!EndOrphan, Calls, Lefts
<1> QED BY <1>4 DEF ServiceStep, Service!Next

\* What a command does is what RegisterService says of its request.
LEMMA CommandIs ==
    ASSUME regs \in Registers, NEW r \in Request
    PROVE  LET done == ProcessAdu(regs, r)
               data == IF done.ans.fc = "read" THEN done.ans.data ELSE <<>>
           IN  \/ /\ done.ans.fc # "error" /\ Service!Performable(r)
                  /\ done.regs = Service!Effect(r) /\ data = Service!Result(r)
               \/ /\ done.ans.fc = "error" /\ data = <<>> /\ done.regs = regs
<1> DEFINE done == ProcessAdu(regs, r)
           data == IF done.ans.fc = "read" THEN done.ans.data ELSE <<>>
<1>0. IsRequest(r)
  BY RequestFacts
<1> USE DEF SendError
<1>1. CASE r.fc = "read"
  <2>1. r.start \in Nat /\ r.num \in Nat
    BY <1>0, <1>1 DEF IsRequest
  <2>2. done = ReadCmd(regs, r) /\ Service!Effect(r) = regs
    BY <1>1 DEF ProcessAdu, Service!Effect
  <2>3. Service!Result(r) = [k \in 1 .. r.num |-> regs[r.start + k - 1]]
    BY <1>1 DEF Service!Result
  <2>4. ~(r.start + r.num >= NumRegs) => Service!Performable(r)
    BY <1>1, <2>1, RegisterAssumption DEF Service!Performable
  <2> QED BY <2>2, <2>3, <2>4 DEF ReadCmd
<1>2. CASE r.fc = "write"
  <2>1. r.start \in Nat
    BY <1>0, <1>2 DEF IsRequest
  <2>2. done = WriteCmd(regs, r) /\ Service!Effect(r) = [regs EXCEPT ![r.start] = r.val]
        /\ Service!Result(r) = <<>>
    BY <1>2 DEF ProcessAdu, Service!Effect, Service!Result
  <2>3. ~(r.start >= NumRegs) => Service!Performable(r)
    BY <1>2, <2>1, RegisterAssumption DEF Service!Performable, Service!Reg
  <2> QED BY <2>2, <2>3 DEF WriteCmd
<1>3. CASE r.fc = "multi"
  <2>1. r.start \in Nat /\ r.num \in Nat
    BY <1>0, <1>3 DEF IsRequest
  <2>2. done = MultiWriteCmd(regs, r) /\ Service!Result(r) = <<>>
    BY <1>3 DEF ProcessAdu, Service!Result
  <2>3. Service!Effect(r) = [i \in Reg |-> IF i \in r.start .. (r.start + r.num - 1)
                                           THEN r.vals[i - r.start + 1]
                                           ELSE regs[i]]
    BY <1>3 DEF Service!Effect, Service!Reg, Reg
  <2>4. ~(r.start + r.num >= NumRegs) => Service!Performable(r)
    BY <1>3, <2>1, RegisterAssumption DEF Service!Performable
  <2> QED BY <2>2, <2>3, <2>4 DEF MultiWriteCmd
<1>4. CASE r.fc = "other"
  BY <1>4 DEF ProcessAdu
<1> QED BY <1>0, <1>1, <1>2, <1>3, <1>4 DEF IsRequest

-----------------------------------------------------------------------------
\* The server.

\* What a tick of it does to what RegisterService sees.
ServerWork ==
    \/ UNCHANGED <<link, backlog, reply, regs>>
    \/ /\ state = "accept" /\ backlog # <<>>
       /\ link' = Head(backlog) /\ backlog' = Tail(backlog) /\ UNCHANGED <<reply, regs>>
    \/ /\ state = "process" /\ link' = NoConn /\ UNCHANGED <<backlog, reply, regs>>
    \/ /\ state = "process" /\ link.inbox # <<>> /\ link' = Taken
       /\ UNCHANGED <<backlog, reply, regs>>
    \/ /\ state = "process" /\ link.inbox # <<>> /\ link.end = "up" /\ link' = Taken
       /\ regs' = ProcessAdu(regs, Head(link.inbox)).regs
       /\ reply' = [reply EXCEPT ![link.who] =
                        Append(@, [to |-> Head(link.inbox),
                                   ans |-> ProcessAdu(regs, Head(link.inbox)).ans])]
       /\ UNCHANGED backlog
    \/ /\ state = "process" /\ link.inbox # <<>> /\ link.end \in {"fin", "dead"}
       /\ link' = [Taken EXCEPT !.end = "fin"] \/ link' = NoConn
       /\ regs' = ProcessAdu(regs, Head(link.inbox)).regs
       /\ UNCHANGED <<backlog, reply>>

LEMMA ServerTickWorks ==
    ASSUME ServerTick
    PROVE  ServerWork /\ UNCHANGED <<client, stored>>
<1> USE DEF ServerTick, clientVars
<1>1. CASE LeaveInit \/ Error
  BY <1>1 DEF LeaveInit, Error, ServerWork
<1>2. CASE Accept
  BY <1>2 DEF Accept, ServerWork
<1>3. CASE Process
  <2>1. UNCHANGED <<backlog, client, stored>> /\ state = "process"
    BY <1>3 DEF Process
  <2>2. CASE UNCHANGED <<state, link, regs, peer, reply>>
    BY <2>1, <2>2 DEF ServerWork
  <2>3. CASE Reset /\ UNCHANGED <<regs, reply>>
    BY <2>1, <2>3 DEF Reset, ServerWork
  <2>4. CASE link.inbox # <<>> /\ Execute
    <3>1. regs' = ProcessAdu(regs, Head(link.inbox)).regs
      BY <2>4 DEF Execute
    <3>2. CASE link.end = "fin" /\ Reset /\ UNCHANGED reply
      BY <2>1, <2>4, <3>1, <3>2 DEF Reset, ServerWork
    <3>3. CASE /\ link.end = "up"
               /\ reply' = [reply EXCEPT ![link.who] =
                              Append(@, [to |-> Head(link.inbox),
                                         ans |-> ProcessAdu(regs, Head(link.inbox)).ans])]
               /\ link' = Taken
      BY <2>1, <2>4, <3>1, <3>3 DEF ServerWork
    <3>4. CASE /\ link.end \in {"fin", "dead"}
               /\ link' = [Taken EXCEPT !.end = "fin"]
               /\ UNCHANGED reply
      BY <2>1, <2>4, <3>1, <3>4 DEF ServerWork
    <3> QED BY <2>4, <3>2, <3>3, <3>4 DEF Execute
  <2>5. CASE link.inbox # <<>> /\ Misread
    <3>1. CASE Reset
      BY <2>3, <2>5, <3>1 DEF Misread
    <3>2. CASE link' = Taken
      BY <2>1, <2>5, <3>2 DEF Misread, ServerWork
    <3> QED BY <2>5, <3>1, <3>2 DEF Misread
  <2> QED
    <3>1. \/ UNCHANGED <<state, link, regs, peer, reply>>
          \/ Reset /\ UNCHANGED <<regs, reply>>
          \/ link.inbox # <<>> /\ Execute
          \/ link.inbox # <<>> /\ Misread
      BY <1>3 DEF Process
    <3> QED BY <2>2, <2>3, <2>4, <2>5, <3>1
<1> QED BY <1>1, <1>2, <1>3

\* A master other than the one served sees nothing.
LEMMA OthersUnserved ==
    ASSUME TypeOK, TypeOK', UNCHANGED <<backlog, client, stored>>, NEW x \in Master,
           link.who # x, link'.who # x, reply'[x] = reply[x]
    PROVE  CallOf(x)' = CallOf(x) /\ OrphansIn(Conns, x)' = OrphansIn(Conns, x)
<1>1. Asked(link', backlog', x) <=> Asked(link, backlog, x)
  BY DEF Asked, Held, IsLive
<1>2. LeftOn(link', x) = <<>> /\ LeftOn(link, x) = <<>>
  BY DEF LeftOn
<1>3. OrphansFrom(link', backlog', x) = OrphansFrom(link, backlog, x)
  BY <1>2 DEF OrphansFrom
<1>4. CallFrom(client'[x], reply'[x], stored'[x], link', backlog', x)
         = CallFrom(client[x], reply[x], stored[x], link, backlog, x)
  BY <1>1 DEF CallFrom
<1> QED BY <1>3, <1>4, SeenNow, SeenNext

\* The connections behind the one served, if its master holds that one.
LEMMA NoneBehind ==
    ASSUME IInv, RInv, NEW m \in Master, link.who = m, link.end = "up"
    PROVE  /\ OrphansIn(backlog, m) = <<>>
           /\ \A l : Asked(l, backlog, m) <=> IsLive(l, m) /\ l.inbox # <<>>
<1>1. TypeOK /\ LiveLast(m) /\ LiveOnce(m)
  BY DEF IInv, RInv, MasterInv
<1>2. backlog \in Seq(AnyConn) /\ Len(backlog) \in Nat
  BY <1>1 DEF TypeOK, AnyConn
<1>3. Live(0, m) /\ 0 \in Place
  BY <1>2 DEF Live, At, Held, IsLive, Place
<1>4. \A k \in 1 .. Len(backlog) : k \in Place /\ k # 0 /\ ~(k <= 0)
  BY <1>2 DEF Place
<1>5. \A k \in 1 .. Len(backlog) : backlog[k].who # m
  BY <1>1, <1>3, <1>4 DEF LiveLast, At, Held
<1>6. OrphansIn(backlog, m) = <<>>
  BY <1>2, <1>5, NoOrphans DEF LeftOn
<1>7. ASSUME NEW l
      PROVE  Asked(l, backlog, m) <=> IsLive(l, m) /\ l.inbox # <<>>
  <2>1. \A k \in 0 .. Len(backlog) : k = 0 \/ k \in 1 .. Len(backlog)
    BY <1>2
  <2>2. 0 \in 0 .. Len(backlog)
    BY <1>2
  <2> QED BY <1>5, <2>1, <2>2 DEF Asked, Held, IsLive
<1> QED BY <1>6, <1>7

\* The connection served is one its master still holds.
LEMMA ServedWaits ==
    ASSUME IInv, RInv, TypeOK', NEW m \in Master, link.who = m, link.end = "up",
           UNCHANGED <<backlog, client, stored>>,
           link' = NoConn \/ (link'.who = m /\ link'.end = "up" /\ link'.inbox = <<>>),
           \A x \in Master \ {m} : reply'[x] = reply[x]
    PROVE  /\ OthersStay(m)
           /\ OrphansIn(Conns, m) = <<>> /\ OrphansIn(Conns, m)' = <<>>
           /\ link.inbox # <<>> => /\ client[m] = "wait" /\ reply[m] = <<>>
                                   /\ link.inbox = <<stored[m]>> /\ stored[m] \in Request
                                   /\ CallOf(m) = Service!Waiting(stored[m])
           /\ reply'[m] = <<>> => CallOf(m)' = Service!Idle
           /\ link.inbox = <<>> /\ reply'[m] = reply[m] => CallOf(m)' = CallOf(m)
<1>1. TypeOK /\ MasterInv(m) /\ NoConn.who \notin Master
  BY ServerAssumption DEF IInv, NoConn
<1>2. \A x \in Master \ {m} : link.who # x /\ link'.who # x
  BY <1>1
<1>3. OthersStay(m)
  <2> SUFFICES ASSUME NEW x \in Master \ {m}
               PROVE  CallOf(x)' = CallOf(x) /\ OrphansIn(Conns, x)' = OrphansIn(Conns, x)
    BY DEF OthersStay
  <2> QED BY <1>1, <1>2, OthersUnserved
<1>4. LeftOn(link, m) = <<>> /\ LeftOn(link', m) = <<>> /\ <<>> \o <<>> = <<>>
  BY <1>1 DEF LeftOn
<1>5. OrphansIn(backlog, m) = <<>>
  BY NoneBehind
<1>6. OrphansIn(Conns, m) = <<>>
  BY <1>1, <1>4, <1>5, SeenNow DEF OrphansFrom
<1>7. OrphansIn(Conns, m)' = <<>>
  BY <1>4, <1>5, SeenNext DEF OrphansFrom
<1>8. (Asked(link, backlog, m) <=> link.inbox # <<>>) /\ ~Asked(link', backlog', m)
  <2>1. IsLive(link, m) /\ ~(IsLive(link', m) /\ link'.inbox # <<>>)
    BY <1>1 DEF IsLive
  <2> QED BY <2>1, NoneBehind
<1>9. ASSUME link.inbox # <<>>
      PROVE  /\ client[m] = "wait" /\ reply[m] = <<>>
             /\ link.inbox = <<stored[m]>> /\ stored[m] \in Request
             /\ CallOf(m) = Service!Waiting(stored[m])
  <2>1. 0 \in Place /\ Live(0, m) /\ At(0) = link
    BY <1>1 DEF Place, Live, At, Held, IsLive, TypeOK
  <2>2. client[m] = "wait" /\ reply[m] = <<>> /\ link.inbox = <<stored[m]>>
    BY <1>1, <1>9, <2>1 DEF MasterInv, OneRequest
  <2>3. stored[m] \in Request
    <3>1. Head(link.inbox) \in Request
      BY <1>1, <1>9, TakenType
    <3>2. \A r : Head(<<r>>) = r
      OBVIOUS
    <3> QED BY <2>2, <3>1, <3>2
  <2>4. CallOf(m) = Service!Waiting(stored[m])
    BY <1>1, <1>8, <1>9, <2>2, SeenNow DEF CallFrom
  <2> QED BY <2>2, <2>3, <2>4
<1>10. reply'[m] = <<>> => CallOf(m)' = Service!Idle
  BY <1>8, SeenNext DEF CallFrom
<1>11. ASSUME link.inbox = <<>>, reply'[m] = reply[m]
       PROVE  CallOf(m)' = CallOf(m)
  <2>1. ~Asked(link, backlog, m)
    BY <1>8, <1>11
  <2>2. CallFrom(client'[m], reply'[m], stored'[m], link', backlog', m)
           = CallFrom(client[m], reply[m], stored[m], link, backlog, m)
    BY <1>8, <1>11, <2>1 DEF CallFrom
  <2> QED BY <1>1, <2>2, SeenNow, SeenNext
<1> QED BY <1>3, <1>6, <1>7, <1>9, <1>10, <1>11

\* The connection served is one its master has left.
LEMMA ServedLeft ==
    ASSUME IInv, RInv, TypeOK', NEW m \in Master, link.who = m, link \in Conn, link.end # "up",
           UNCHANGED <<backlog, client, stored, reply>>,
           link' = NoConn \/ (link'.who = m /\ link'.end # "up" /\ link'.inbox = <<>>)
    PROVE  /\ OthersStay(m) /\ CallOf(m)' = CallOf(m)
           /\ OrphansIn(Conns, m)' \in Seq(Request)
           /\ link.inbox = <<>> => OrphansIn(Conns, m)' = OrphansIn(Conns, m)
           /\ link.inbox # <<>> =>
                 /\ Head(link.inbox) \in Request
                 /\ OrphansIn(Conns, m) = <<Head(link.inbox)>> \o OrphansIn(Conns, m)'
<1>1. TypeOK /\ NoConn.who \notin Master
  BY ServerAssumption DEF IInv, NoConn
<1>2. \A x \in Master \ {m} : link.who # x /\ link'.who # x
  BY <1>1
<1>3. OthersStay(m)
  <2> SUFFICES ASSUME NEW x \in Master \ {m}
               PROVE  CallOf(x)' = CallOf(x) /\ OrphansIn(Conns, x)' = OrphansIn(Conns, x)
    BY DEF OthersStay
  <2> QED BY <1>1, <1>2, OthersUnserved
<1>4. CallOf(m)' = CallOf(m)
  <2>1. ~IsLive(link, m) /\ ~IsLive(link', m)
    BY <1>1 DEF IsLive
  <2>2. Asked(link', backlog', m) <=> Asked(link, backlog, m)
    BY <2>1 DEF Asked, Held
  <2>3. CallFrom(client'[m], reply'[m], stored'[m], link', backlog', m)
           = CallFrom(client[m], reply[m], stored[m], link, backlog, m)
    BY <2>2 DEF CallFrom
  <2> QED BY <1>1, <2>3, SeenNow, SeenNext
<1> DEFINE b == OrphansIn(backlog, m)
<1>5. b \in Seq(Request)
  <2>1. backlog \in Seq(AnyConn) /\ NoConn \in AnyConn
    BY <1>1 DEF TypeOK, AnyConn
  <2> QED BY <2>1, OrphansInFront
<1> HIDE DEF b
<1>6. LeftOn(link, m) = link.inbox /\ LeftOn(link', m) = <<>>
  BY <1>1 DEF LeftOn
<1>7. OrphansIn(Conns, m) = link.inbox \o b
  BY <1>1, <1>6, SeenNow DEF OrphansFrom, b
<1>8. OrphansIn(Conns, m)' = b
  <2>1. OrphansIn(Conns, m)' = <<>> \o b
    BY <1>6, SeenNext DEF OrphansFrom, b
  <2> QED BY <1>5, <2>1, ConcatEmpty
<1>9. link.inbox = <<>> => OrphansIn(Conns, m) = b
  BY <1>5, <1>7, ConcatEmpty
<1>10. link.inbox # <<>> => Head(link.inbox) \in Request /\ link.inbox = <<Head(link.inbox)>>
  <2>1. At(0) = link /\ 0 \in Place
    BY <1>1 DEF At, Held, Place, TypeOK
  <2>2. Short(link.inbox)
    BY <2>1 DEF RInv
  <2>3. \A r : Head(<<r>>) = r
    OBVIOUS
  <2> QED BY <2>2, <2>3 DEF Short
<1> QED BY <1>3, <1>4, <1>5, <1>7, <1>8, <1>9, <1>10

\* Steps that RegisterService does not see.
LEMMA Unseen ==
    ASSUME UNCHANGED <<link, backlog, client, stored, reply>>
    PROVE  Calls' = Calls /\ Lefts' = Lefts
BY DEF Calls, Lefts, CallOf, Conns

LEMMA AcceptUnseen ==
    ASSUME IInv, TypeOK', state = "accept", backlog # <<>>,
           link' = Head(backlog), backlog' = Tail(backlog), UNCHANGED <<client, stored, reply>>
    PROVE  Calls' = Calls /\ Lefts' = Lefts
<1>1. TypeOK /\ link = NoConn
  BY DEF IInv, LinkInProcess
<1>2. backlog \in Seq(Conn) /\ backlog \in Seq(AnyConn) /\ link \in AnyConn
  BY <1>1 DEF TypeOK, AnyConn
<1>3. Len(backlog') = Len(backlog) - 1 /\ Len(backlog) \in Nat \ {0}
      /\ link' = backlog[1] /\ \A k \in 1 .. Len(backlog') : backlog'[k] = backlog[k + 1]
  BY <1>2
<1>4. \A k \in 0 .. Len(backlog') : k + 1 \in 0 .. Len(backlog)
                                    /\ Held(link', backlog', k) = Held(link, backlog, k + 1)
  BY <1>3 DEF Held
<1>5. \A k \in 0 .. Len(backlog) : k = 0 \/ (k - 1 \in 0 .. Len(backlog') /\ (k - 1) + 1 = k)
  BY <1>3
<1>6. link' \in AnyConn /\ backlog' \in Seq(AnyConn) /\ <<link'>> \o backlog' = backlog
  <2>1. Head(backlog) \in AnyConn /\ Tail(backlog) \in Seq(AnyConn)
    BY <1>2
  <2>2. <<Head(backlog)>> \o Tail(backlog) = backlog
    BY <1>2
  <2> QED BY <2>1, <2>2
<1>7. ASSUME NEW x \in Master
      PROVE  CallOf(x)' = CallOf(x) /\ OrphansIn(Conns, x)' = OrphansIn(Conns, x)
  <2>1. ~IsLive(Held(link, backlog, 0), x) /\ LeftOn(link, x) = <<>>
    BY <1>1, ServerAssumption DEF Held, IsLive, LeftOn, NoConn
  <2>2. Asked(link', backlog', x) => Asked(link, backlog, x)
    BY <1>4 DEF Asked
  <2>3. ASSUME NEW k \in 0 .. Len(backlog), IsLive(Held(link, backlog, k), x),
               Held(link, backlog, k).inbox # <<>>
        PROVE  Asked(link', backlog', x)
    <3>1. k - 1 \in 0 .. Len(backlog') /\ (k - 1) + 1 = k
      BY <1>5, <2>1, <2>3
    <3>2. Held(link', backlog', k - 1) = Held(link, backlog, k)
      BY <1>4, <3>1
    <3> QED BY <2>3, <3>1, <3>2 DEF Asked
  <2>4. Asked(link', backlog', x) <=> Asked(link, backlog, x)
    BY <2>2, <2>3 DEF Asked
  <2>5. CallFrom(client'[x], reply'[x], stored'[x], link', backlog', x)
           = CallFrom(client[x], reply[x], stored[x], link, backlog, x)
    BY <2>4 DEF CallFrom
  <2>6. OrphansFrom(link, backlog, x) = OrphansIn(backlog, x)
    <3>1. OrphansIn(backlog, x) \in Seq(Request)
      BY <1>2, OrphansInFront
    <3> QED BY <2>1, <3>1, ConcatEmpty DEF OrphansFrom
  <2>7. OrphansFrom(link', backlog', x) = OrphansIn(backlog, x)
    <3>1. OrphansIn(<<link'>> \o backlog', x) = OrphansFrom(link', backlog', x)
      BY <1>6, OrphansInFront DEF OrphansFrom
    <3> QED BY <1>6, <3>1
  <2> QED BY <1>1, <2>5, <2>6, <2>7, SeenNow, SeenNext
<1> QED BY <1>7 DEF Calls, Lefts

\* Every tick of the server is a step of RegisterService: an answer performs or refuses
\* the call of the master served, a connection given up finishes it, and a frame taken
\* from a connection its master has left ends an orphan.
LEMMA ServerServes ==
    ASSUME IInv, RInv, TypeOK', ServerTick
    PROVE  ServiceStep
<1>1. TypeOK /\ UNCHANGED <<client, stored>> /\ ServerWork
  BY ServerTickWorks DEF IInv
<1>2. CASE UNCHANGED <<link, backlog, reply, regs>>
  <2>1. Calls' = Calls /\ Lefts' = Lefts
    BY <1>1, <1>2, Unseen
  <2> QED BY <1>2, <2>1 DEF ServiceStep
<1>3. CASE /\ state = "accept" /\ backlog # <<>>
           /\ link' = Head(backlog) /\ backlog' = Tail(backlog) /\ UNCHANGED <<reply, regs>>
  <2>1. Calls' = Calls /\ Lefts' = Lefts
    BY <1>1, <1>3, AcceptUnseen
  <2> QED BY <1>3, <2>1 DEF ServiceStep
<1> SUFFICES ASSUME state = "process", backlog' = backlog
             PROVE  ServiceStep
  BY <1>1, <1>2, <1>3 DEF ServerWork
<1>4. link \in Conn
  BY <1>1 DEF IInv, LinkInProcess, TypeOK
<1>5. PICK m \in Master : link.who = m
  BY <1>4 DEF Conn
<1> DEFINE r == Head(link.inbox)
           done == ProcessAdu(regs, r)
<1>6. link.inbox # <<>> =>
         /\ r \in Request
         /\ Taken.who = m /\ Taken.end = link.end /\ Taken.inbox = Tail(link.inbox)
         /\ [Taken EXCEPT !.end = "fin"].who = m /\ [Taken EXCEPT !.end = "fin"].end = "fin"
         /\ [Taken EXCEPT !.end = "fin"].inbox = Tail(link.inbox)
         /\ Tail(link.inbox) = <<>>
  <2> SUFFICES ASSUME link.inbox # <<>>
               PROVE  /\ r \in Request
                      /\ Taken.who = m /\ Taken.end = link.end /\ Taken.inbox = Tail(link.inbox)
                      /\ [Taken EXCEPT !.end = "fin"].who = m /\ [Taken EXCEPT !.end = "fin"].end = "fin"
                      /\ [Taken EXCEPT !.end = "fin"].inbox = Tail(link.inbox)
                      /\ Tail(link.inbox) = <<>>
    OBVIOUS
  <2>1. r \in Request /\ Taken = [who |-> link.who, end |-> link.end, inbox |-> Tail(link.inbox)]
        /\ [Taken EXCEPT !.end = "fin"] =
              [who |-> link.who, end |-> "fin", inbox |-> Tail(link.inbox)]
    BY <1>1, TakenType
  <2>2. Tail(link.inbox) = <<>>
    <3>1. At(0) = link /\ 0 \in Place
      BY <1>1 DEF At, Held, Place, TypeOK
    <3>2. Short(link.inbox)
      BY <3>1 DEF RInv
    <3> QED BY <1>4, <3>2, TailShort DEF Conn
  <2> QED BY <1>5, <2>1, <2>2
<1> HIDE DEF r, done
<1>7. r \in Request =>
         LET data == IF done.ans.fc = "read" THEN done.ans.data ELSE <<>>
         IN  \/ /\ done.ans.fc # "error" /\ Service!Performable(r)
                /\ done.regs = Service!Effect(r) /\ data = Service!Result(r)
             \/ /\ done.ans.fc = "error" /\ data = <<>> /\ done.regs = regs
  BY <1>1, CommandIs DEF done, TypeOK
<1>8. CASE link.end = "up"
  <2>1. ASSUME link' = NoConn \/ (link'.who = m /\ link'.end = "up" /\ link'.inbox = <<>>),
               UNCHANGED <<regs, reply>>
        PROVE  ServiceStep
    <3>1. /\ OthersStay(m)
          /\ OrphansIn(Conns, m)' = OrphansIn(Conns, m)
          /\ link.inbox # <<>> => reply[m] = <<>>
          /\ reply'[m] = <<>> => CallOf(m)' = Service!Idle
          /\ link.inbox = <<>> /\ reply'[m] = reply[m] => CallOf(m)' = CallOf(m)
      BY <1>1, <1>5, <1>8, <2>1, ServedWaits
    <3>2. CASE link.inbox = <<>>
      BY <2>1, <3>1, <3>2, Stutters
    <3>3. CASE link.inbox # <<>>
      BY <2>1, <3>1, <3>3, Finishing
    <3> QED BY <3>2, <3>3
  <2>2. ASSUME link.inbox # <<>>, link' = Taken, regs' = done.regs,
               reply' = [reply EXCEPT ![m] = Append(@, [to |-> r, ans |-> done.ans])]
        PROVE  ServiceStep
    <3>1. r \in Request /\ link'.who = m /\ link'.end = "up" /\ link'.inbox = <<>>
      BY <1>6, <1>8, <2>2
    <3>2. \A x \in Master \ {m} : reply'[x] = reply[x]
      BY <1>1, <2>2 DEF TypeOK
    <3>3. /\ OthersStay(m)
          /\ OrphansIn(Conns, m) = <<>> /\ OrphansIn(Conns, m)' = <<>>
          /\ client[m] = "wait" /\ reply[m] = <<>>
          /\ link.inbox = <<stored[m]>>
          /\ CallOf(m) = Service!Waiting(stored[m])
      BY <1>1, <1>5, <1>8, <2>2, <3>1, <3>2, ServedWaits
    <3>4. r = stored[m]
      <4>1. \A s : Head(<<s>>) = s
        OBVIOUS
      <4> QED BY <3>3, <4>1 DEF r
    <3> DEFINE a == [to |-> r, ans |-> done.ans]
               data == IF done.ans.fc = "read" THEN done.ans.data ELSE <<>>
    <3>5. reply'[m] = <<a>> /\ a.ans = done.ans
      <4>1. reply'[m] = Append(reply[m], a)
        BY <1>1, <2>2 DEF TypeOK
      <4>2. Append(<<>>, a) = <<a>>
        OBVIOUS
      <4> QED BY <3>3, <4>1, <4>2
    <3> HIDE DEF a
    <3>6. CallOf(m)' = Service!Answered(done.ans.fc # "error", data)
      <4>1. <<a>> # <<>> /\ Head(<<a>>) = a
        OBVIOUS
      <4>2. CallOf(m)' = CallFrom(client'[m], reply'[m], stored'[m], link', backlog', m)
        BY SeenNext
      <4> QED BY <1>1, <3>3, <3>5, <4>1, <4>2, Zenon DEF CallFrom
    <3> HIDE DEF data
    <3>7. CASE /\ done.ans.fc # "error" /\ Service!Performable(r)
               /\ done.regs = Service!Effect(r) /\ data = Service!Result(r)
      <4>1. CallOf(m)' = Service!Answered(TRUE, Service!Result(r))
        BY <3>6, <3>7 DEF Service!Answered
      <4> QED BY <2>2, <3>3, <3>4, <3>7, <4>1, Performing
    <3>8. CASE done.ans.fc = "error" /\ data = <<>> /\ done.regs = regs
      <4>1. CallOf(m)' = Service!Answered(FALSE, <<>>)
        BY <3>6, <3>8 DEF Service!Answered
      <4> QED BY <2>2, <3>3, <3>8, <4>1, Refusing
    <3> QED BY <1>7, <3>1, <3>7, <3>8 DEF data
  <2> QED BY <1>1, <1>2, <1>5, <1>6, <1>8, <2>1, <2>2 DEF ServerWork, r, done
<1>9. CASE link.end # "up"
  <2>1. \/ /\ link' = NoConn \/ (link'.who = m /\ link'.end # "up" /\ link'.inbox = <<>>)
           /\ reply' = reply
           /\ regs' = regs \/ (link.inbox # <<>> /\ regs' = done.regs)
        \/ UNCHANGED <<link, backlog, reply, regs>>
    BY <1>1, <1>6, <1>9 DEF ServerWork, r, done
  <2> SUFFICES ASSUME link' = NoConn \/ (link'.who = m /\ link'.end # "up" /\ link'.inbox = <<>>),
                      reply' = reply,
                      regs' = regs \/ (link.inbox # <<>> /\ regs' = done.regs)
               PROVE  ServiceStep
    BY <1>2, <2>1
  <2>2. /\ OthersStay(m) /\ CallOf(m)' = CallOf(m)
        /\ OrphansIn(Conns, m)' \in Seq(Request)
        /\ link.inbox = <<>> => OrphansIn(Conns, m)' = OrphansIn(Conns, m)
        /\ link.inbox # <<>> => OrphansIn(Conns, m) = <<r>> \o OrphansIn(Conns, m)'
    BY <1>1, <1>4, <1>5, <1>9, ServedLeft DEF r
  <2>3. CASE link.inbox = <<>>
    BY <2>2, <2>3, Stutters
  <2>4. CASE link.inbox # <<>>
    <3>1. regs' = regs \/ (Service!Performable(r) /\ regs' = Service!Effect(r))
      BY <1>6, <1>7, <2>4
    <3>2. PICK rest \in Seq(Request) : rest = OrphansIn(Conns, m)'
      BY <2>2
    <3> QED BY <2>2, <2>4, <3>1, <3>2, EndingOrphan
  <2> QED BY <2>3, <2>4
<1> QED BY <1>8, <1>9

-----------------------------------------------------------------------------
\* The masters and the world.

\* A master whose connections a step leaves as they are, in the same places.
LEMMA SeenInPlace ==
    ASSUME TypeOK, TypeOK', Len(backlog') = Len(backlog), NEW x \in Master,
           \A k \in Place : LeftOn(Held(link', backlog', k), x) = LeftOn(At(k), x)
    PROVE  OrphansIn(Conns, x)' = OrphansIn(Conns, x)
<1>1. backlog \in Seq(AnyConn) /\ backlog' \in Seq(AnyConn) /\ Len(backlog) \in Nat
  BY DEF TypeOK, AnyConn
<1>2. 0 \in Place /\ \A k \in 1 .. Len(backlog) : k \in Place /\ k # 0
  BY <1>1 DEF Place
<1>3. LeftOn(link', x) = LeftOn(link, x)
        /\ \A k \in 1 .. Len(backlog) : LeftOn(backlog'[k], x) = LeftOn(backlog[k], x)
  BY <1>2 DEF At, Held
<1>4. OrphansIn(backlog', x) = OrphansIn(backlog, x)
  BY <1>1, <1>3, OrphansStay
<1> QED BY <1>3, <1>4, SeenNow, SeenNext DEF OrphansFrom

\* A master for which nothing changes on the connections it holds.
LEMMA CallInPlace ==
    ASSUME TypeOK, TypeOK', Len(backlog') = Len(backlog), NEW x \in Master,
           client'[x] = client[x], reply'[x] = reply[x], stored'[x] = stored[x],
           \A k \in Place : /\ IsLive(Held(link', backlog', k), x) <=> Live(k, x)
                            /\ Live(k, x) => Held(link', backlog', k).inbox = At(k).inbox
    PROVE  CallOf(x)' = CallOf(x)
<1>1. Asked(link', backlog', x) <=> Asked(link, backlog, x)
  BY DEF Asked, Place, Live, At
<1>2. CallFrom(client'[x], reply'[x], stored'[x], link', backlog', x)
         = CallFrom(client[x], reply[x], stored[x], link, backlog, x)
  BY <1>1 DEF CallFrom
<1> QED BY <1>2, SeenNow, SeenNext

\* What the end of a connection, or a request on it, does to what is left on it.
LEMMA LeftStays ==
    ASSUME NEW c \in AnyConn, NEW m \in Master, NEW x \in Master
    PROVE  /\ \A r \in Request : LeftOn(Reached(c, m, r), x) = LeftOn(c, x)
           /\ \A end \in {"fin", "dead"} :
                 LeftOn(Ended(c, m, end), x) =
                    IF x = m /\ IsLive(c, m) THEN c.inbox ELSE LeftOn(c, x)
<1>1. CASE ~IsLive(c, m)
  BY <1>1 DEF Reached, Ended
<1>2. CASE IsLive(c, m)
  <2>1. c \in Conn /\ c.end = "up" /\ c.who = m
    BY <1>2, ServerAssumption DEF AnyConn, NoConn, IsLive
  <2>2. ASSUME NEW r \in Request
        PROVE  LeftOn(Reached(c, m, r), x) = LeftOn(c, x)
    <3>1. Reached(c, m, r).end = "up"
      BY <1>2, <2>1 DEF Reached, Conn
    <3> QED BY <2>1, <3>1 DEF LeftOn
  <2>3. ASSUME NEW end \in {"fin", "dead"}
        PROVE  LeftOn(Ended(c, m, end), x) = IF x = m THEN c.inbox ELSE LeftOn(c, x)
    <3>1. Ended(c, m, end).end = end /\ Ended(c, m, end).who = m /\ Ended(c, m, end).inbox = c.inbox
      BY <1>2, <2>1 DEF Ended, Conn
    <3> QED BY <2>1, <3>1 DEF LeftOn
  <2> QED BY <1>2, <2>2, <2>3
<1> QED BY <1>1, <1>2

LEMMA LiveHasNone ==
    ASSUME NEW c, NEW m, IsLive(c, m)
    PROVE  LeftOn(c, m) = <<>>
BY DEF IsLive, LeftOn

\* What a connection carries when it ends becomes the last of the orphans.
LEMMA EndLeaves ==
    ASSUME IInv, RInv, TypeOK', NEW m \in Master, NEW end \in {"fin", "dead"},
           EndConnection(m, end)
    PROVE  /\ (\A k \in Place : ~Live(k, m)) => OrphansIn(Conns, m)' = OrphansIn(Conns, m)
           /\ \A p \in Place : Live(p, m) =>
                 OrphansIn(Conns, m)' = OrphansIn(Conns, m) \o At(p).inbox
<1>1. TypeOK /\ LiveLast(m) /\ LiveOnce(m)
  BY DEF IInv, RInv, MasterInv
<1>2. Len(backlog') = Len(backlog) /\ \A k \in Place : Held(link', backlog', k) = Ended(At(k), m, end)
  BY <1>1, EndSteps
<1>3. \A k \in Place : LeftOn(Held(link', backlog', k), m) =
                           IF Live(k, m) THEN At(k).inbox ELSE LeftOn(At(k), m)
  BY <1>1, <1>2, PlacesAre, LeftStays DEF Live
<1>4. (\A k \in Place : ~Live(k, m)) => OrphansIn(Conns, m)' = OrphansIn(Conns, m)
  BY <1>1, <1>2, <1>3, SeenInPlace
<1>5. backlog \in Seq(AnyConn) /\ backlog' \in Seq(AnyConn) /\ Len(backlog) \in Nat
      /\ link \in AnyConn
  BY <1>1 DEF TypeOK, AnyConn
<1>6. 0 \in Place /\ \A k \in 1 .. Len(backlog) : k \in Place /\ k # 0 /\ k \in Nat
  BY <1>5 DEF Place
<1>7. ASSUME NEW p \in Place, Live(p, m)
      PROVE  OrphansIn(Conns, m)' = OrphansIn(Conns, m) \o At(p).inbox
  <2>1. \A k \in Place : /\ k # p => LeftOn(Held(link', backlog', k), m) = LeftOn(At(k), m)
                         /\ k > p => LeftOn(At(k), m) = <<>>
    <3>1. \A k \in Place : k # p => ~Live(k, m)
      BY <1>1, <1>7 DEF LiveOnce
    <3>2. \A k \in Place : k > p => ~(k <= p)
      BY <1>1, PlacesAre
    <3>3. \A k \in Place : k > p => At(k).who # m
      BY <1>1, <1>7, <3>2 DEF LiveLast
    <3> QED BY <1>3, <3>1, <3>3 DEF LeftOn
  <2>2. LeftOn(Held(link', backlog', p), m) = At(p).inbox /\ LeftOn(At(p), m) = <<>>
    BY <1>3, <1>7, LiveHasNone DEF Live
  <2>3. CASE p = 0
    <3>1. LeftOn(link, m) = <<>> /\ LeftOn(link', m) = link.inbox /\ At(p) = link
      BY <2>2, <2>3 DEF At, Held
    <3>2. \A k \in 1 .. Len(backlog) : LeftOn(backlog[k], m) = <<>> /\ LeftOn(backlog'[k], m) = <<>>
      <4>1. \A k \in 1 .. Len(backlog) : k > 0
        OBVIOUS
      <4> QED BY <1>6, <2>1, <2>3, <4>1 DEF At, Held
    <3>3. OrphansIn(backlog, m) = <<>> /\ OrphansIn(backlog', m) = <<>>
      BY <1>2, <1>5, <3>2, NoOrphans
    <3>4. OrphansIn(Conns, m) = <<>> \o <<>>
      BY <1>1, <3>1, <3>3, SeenNow DEF OrphansFrom
    <3>5. OrphansIn(Conns, m)' = link.inbox \o <<>>
      BY <3>1, <3>3, SeenNext DEF OrphansFrom
    <3>6. link.inbox \in Seq(Request)
      BY <1>5, LeftOnType
    <3>7. link.inbox \o <<>> = (<<>> \o <<>>) \o link.inbox
      BY <3>6, ConcatEmpty
    <3> QED BY <3>1, <3>4, <3>5, <3>7
  <2>4. CASE p # 0
    <3>1. p \in 1 .. Len(backlog)
      BY <1>1, <2>4, PlacesAre
    <3>2. LeftOn(link', m) = LeftOn(link, m)
      BY <1>6, <2>1, <2>4 DEF At, Held
    <3>3. /\ LeftOn(backlog[p], m) = <<>>
          /\ LeftOn(backlog'[p], m) = At(p).inbox
      BY <2>2, <2>4 DEF At, Held
    <3>4. \A k \in 1 .. Len(backlog) :
              /\ k # p => LeftOn(backlog'[k], m) = LeftOn(backlog[k], m)
              /\ k > p => LeftOn(backlog[k], m) = <<>>
      BY <1>6, <2>1 DEF At, Held
    <3>5. OrphansIn(backlog', m) = OrphansIn(backlog, m) \o At(p).inbox
      BY <1>2, <1>5, <3>1, <3>3, <3>4, OrphansJoin
    <3>6. /\ LeftOn(link, m) \in Seq(Request) /\ OrphansIn(backlog, m) \in Seq(Request)
          /\ At(p).inbox \in Seq(Request)
      BY <1>1, <1>5, <1>7, LeftOnType, OrphansInFront, PlacesAre
    <3>7. LeftOn(link, m) \o (OrphansIn(backlog, m) \o At(p).inbox)
             = (LeftOn(link, m) \o OrphansIn(backlog, m)) \o At(p).inbox
      BY <3>6, ConcatAssociates
    <3> QED BY <1>1, <3>2, <3>5, <3>7, SeenNow, SeenNext DEF OrphansFrom
  <2> QED BY <2>3, <2>4
<1> QED BY <1>4, <1>7

\* A master that leaves or loses its connection abandons its call, or finishes it.
LEMMA EndServes ==
    ASSUME IInv, RInv, TypeOK', NEW m \in Master, Leave(m) \/ Vanish(m) \/ Break(m)
    PROVE  ServiceStep
<1>1. TypeOK /\ MasterInv(m) /\ regs' = regs
  BY DEF IInv, Leave, Vanish, Break
<1>2. PICK end \in {"fin", "dead"} : EndConnection(m, end)
  BY DEF Leave, Vanish, Break
<1>3. /\ Len(backlog') = Len(backlog)
      /\ \A k \in Place :
            /\ Held(link', backlog', k) = Ended(At(k), m, end)
            /\ Held(link', backlog', k).inbox = At(k).inbox
            /\ \A x \in Master : IsLive(Held(link', backlog', k), x) <=> Live(k, x) /\ x # m
  BY <1>1, <1>2, EndSteps
<1>4. OthersStay(m)
  <2> SUFFICES ASSUME NEW x \in Master \ {m}
               PROVE  CallOf(x)' = CallOf(x) /\ OrphansIn(Conns, x)' = OrphansIn(Conns, x)
    BY DEF OthersStay
  <2>1. client'[x] = client[x] /\ reply'[x] = reply[x] /\ stored'[x] = stored[x]
    BY <1>1 DEF Leave, Vanish, Break, TypeOK
  <2>2. CallOf(x)' = CallOf(x)
    BY <1>1, <1>3, <2>1, CallInPlace
  <2>3. \A k \in Place : LeftOn(Held(link', backlog', k), x) = LeftOn(At(k), x)
    BY <1>1, <1>3, PlacesAre, LeftStays
  <2> QED BY <1>1, <1>3, <2>2, <2>3, SeenInPlace
<1>5. CallOf(m)' = Service!Idle
  <2>1. client'[m] # "wait" \/ reply'[m] = <<>>
    BY <1>1 DEF Leave, Vanish, Break, TypeOK
  <2>2. ~Asked(link', backlog', m)
    BY <1>3 DEF Asked, Place
  <2> QED BY <2>1, <2>2, SeenNext DEF CallFrom
<1>6. CASE \E p \in Place : Live(p, m) /\ At(p).inbox # <<>>
  <2>1. PICK p \in Place : Live(p, m) /\ At(p).inbox # <<>>
    BY <1>6
  <2>2. client[m] = "wait" /\ reply[m] = <<>> /\ At(p).inbox = <<stored[m]>>
    BY <1>1, <2>1 DEF MasterInv, OneRequest
  <2>3. Asked(link, backlog, m)
    BY <2>1 DEF Asked, Place, Live, At
  <2>4. CallOf(m) = Service!Waiting(stored[m])
    BY <1>1, <2>2, <2>3, SeenNow DEF CallFrom
  <2>5. OrphansIn(Conns, m)' = OrphansIn(Conns, m) \o <<stored[m]>>
    BY <1>2, <2>1, <2>2, EndLeaves
  <2>6. OrphansIn(Conns, m) \in Seq(Request)
    <3>1. backlog \in Seq(AnyConn) /\ link \in AnyConn
      BY <1>1 DEF TypeOK, AnyConn
    <3>2. OrphansIn(backlog, m) \in Seq(Request) /\ LeftOn(link, m) \in Seq(Request)
      BY <3>1, OrphansInFront, LeftOnType
    <3> QED BY <1>1, <3>2, SeenNow, ConcatType DEF OrphansFrom
  <2>7. OrphansIn(Conns, m)' = Append(OrphansIn(Conns, m), stored[m])
    <3>1. ASSUME NEW q \in Seq(Request), NEW r PROVE q \o <<r>> = Append(q, r)
      <4>1. q \in Seq(Request \cup {r})
        OBVIOUS
      <4> QED BY <4>1
    <3> QED BY <2>5, <2>6, <3>1
  <2> QED BY <1>1, <1>4, <1>5, <2>4, <2>7, Abandoning
<1>7. CASE ~\E p \in Place : Live(p, m) /\ At(p).inbox # <<>>
  <2>1. OrphansIn(Conns, m)' = OrphansIn(Conns, m)
    <3>1. CASE \A k \in Place : ~Live(k, m)
      BY <1>2, <3>1, EndLeaves
    <3>2. CASE \E p \in Place : Live(p, m)
      <4>1. PICK p \in Place : Live(p, m) /\ At(p).inbox = <<>>
        BY <1>7, <3>2
      <4>2. OrphansIn(Conns, m)' = OrphansIn(Conns, m) \o <<>>
        BY <1>2, <4>1, EndLeaves
      <4>3. backlog \in Seq(AnyConn) /\ link \in AnyConn
        BY <1>1 DEF TypeOK, AnyConn
      <4>4. OrphansIn(backlog, m) \in Seq(Request) /\ LeftOn(link, m) \in Seq(Request)
        BY <4>3, OrphansInFront, LeftOnType
      <4>5. OrphansIn(Conns, m) \in Seq(Request)
        BY <1>1, <4>4, SeenNow, ConcatType DEF OrphansFrom
      <4> QED BY <4>2, <4>5, ConcatEmpty
    <3> QED BY <3>1, <3>2
  <2> QED BY <1>1, <1>4, <1>5, <2>1, Finishing
<1> QED BY <1>6, <1>7

\* A request sent on an open connection is a call, on a closed one nothing.
LEMMA ExecServes ==
    ASSUME IInv, TypeOK', NEW m \in Master, NEW r \in Request, Exec(m, r)
    PROVE  ServiceStep
<1>1. TypeOK /\ MasterInv(m) /\ regs' = regs
  BY DEF IInv, Exec
<1>2. /\ Len(backlog') = Len(backlog)
      /\ \A k \in Place :
            /\ Held(link', backlog', k) = Reached(At(k), m, r)
            /\ Held(link', backlog', k).inbox =
                   IF Live(k, m) THEN Append(At(k).inbox, r) ELSE At(k).inbox
            /\ \A x \in Master : IsLive(Held(link', backlog', k), x) <=> Live(k, x)
  BY <1>1, ExecSteps
<1>3. \A x \in Master : OrphansIn(Conns, x)' = OrphansIn(Conns, x)
  <2> SUFFICES ASSUME NEW x \in Master
               PROVE  OrphansIn(Conns, x)' = OrphansIn(Conns, x)
    OBVIOUS
  <2>1. \A k \in Place : LeftOn(Held(link', backlog', k), x) = LeftOn(At(k), x)
    BY <1>1, <1>2, PlacesAre, LeftStays
  <2> QED BY <1>1, <1>2, <2>1, SeenInPlace
<1>4. OthersStay(m)
  <2> SUFFICES ASSUME NEW x \in Master \ {m}
               PROVE  CallOf(x)' = CallOf(x)
    BY <1>3 DEF OthersStay
  <2>1. client'[x] = client[x] /\ reply'[x] = reply[x] /\ stored'[x] = stored[x]
    BY <1>1 DEF Exec, TypeOK
  <2>2. \A k \in Place : Live(k, x) => ~Live(k, m)
    BY DEF Live, IsLive
  <2> QED BY <1>1, <1>2, <2>1, <2>2, CallInPlace
<1>5. client[m] = "run" /\ client'[m] = "wait" /\ stored'[m] = r /\ reply'[m] = reply[m]
  BY <1>1 DEF Exec, TypeOK
<1>6. CallOf(m) = Service!Idle
  BY <1>1, <1>5, SeenNow DEF CallFrom
<1>7. CallOf(m)' \in {Service!Waiting(r), Service!Idle}
  <2>1. reply[m] = <<>>
    BY <1>1, <1>5 DEF MasterInv, OneAnswer
  <2> QED BY <1>5, <2>1, SeenNext DEF CallFrom
<1>8. CASE CallOf(m)' = Service!Waiting(r)
  BY <1>1, <1>3, <1>4, <1>6, <1>8, Calling
<1>9. CASE CallOf(m)' = Service!Idle
  BY <1>1, <1>3, <1>4, <1>9, Finishing
<1> QED BY <1>7, <1>8, <1>9

\* A new connection carries nothing.
LEMMA ConnectUnseen ==
    ASSUME TypeOK, TypeOK', NEW m \in Master,
           link' = link, backlog' = Append(backlog, NewConn(m))
    PROVE  /\ \A x \in Master : OrphansIn(Conns, x)' = OrphansIn(Conns, x)
           /\ \A x \in Master \ {m} : Asked(link', backlog', x) <=> Asked(link, backlog, x)
<1> DEFINE n == Len(backlog) + 1
<1>1. /\ backlog \in Seq(Conn) /\ backlog \in Seq(AnyConn) /\ link \in AnyConn
      /\ NewConn(m) \in Conn /\ NewConn(m) \in AnyConn /\ Len(backlog) \in Nat
  <2>1. NewConn(m) \in Conn
    BY DEF NewConn, Conn
  <2> QED BY <2>1 DEF TypeOK, AnyConn
<1>2. NewConn(m).who = m /\ NewConn(m).end = "up" /\ NewConn(m).inbox = <<>>
  BY DEF NewConn
<1>3. ASSUME NEW x \in Master
      PROVE  OrphansIn(Conns, x)' = OrphansIn(Conns, x)
  <2>1. LeftOn(NewConn(m), x) = <<>>
    BY <1>2 DEF LeftOn
  <2>2. OrphansIn(backlog', x) = OrphansIn(backlog, x) \o <<>>
    BY <1>1, <2>1, OrphansBehind
  <2>3. OrphansIn(backlog, x) \in Seq(Request)
    BY <1>1, OrphansInFront
  <2>4. OrphansIn(backlog', x) = OrphansIn(backlog, x)
    BY <2>2, <2>3, ConcatEmpty
  <2> QED BY <2>4, SeenNow, SeenNext DEF OrphansFrom
<1>4. /\ Len(backlog') = n /\ backlog'[n] = NewConn(m)
      /\ \A k \in 1 .. Len(backlog) : backlog'[k] = backlog[k]
  BY <1>1
<1>5. /\ \A k \in 0 .. n : k = n \/ k \in 0 .. Len(backlog)
      /\ \A k \in 0 .. Len(backlog) : k \in 0 .. n /\ (k = 0 \/ k \in 1 .. Len(backlog))
      /\ n # 0
  BY <1>1
<1> HIDE DEF n
<1>6. Held(link', backlog', n) = NewConn(m)
        /\ \A k \in 0 .. Len(backlog) : Held(link', backlog', k) = Held(link, backlog, k)
  BY <1>4, <1>5 DEF Held
<1>7. ASSUME NEW x \in Master \ {m}
      PROVE  Asked(link', backlog', x) <=> Asked(link, backlog, x)
  <2>1. ~IsLive(NewConn(m), x)
    BY <1>2 DEF IsLive
  <2> QED BY <1>4, <1>5, <1>6, <2>1 DEF Asked
<1> QED BY <1>3, <1>7

\* What a master does otherwise finishes its call or changes nothing.
LEMMA ClientServes ==
    ASSUME IInv, TypeOK', NEW m \in Master,
           \/ ClientInit(m) \/ ClientIdle(m) \/ ClientConnect(m) \/ ClientWait(m) \/ ClientError(m)
    PROVE  ServiceStep
<1> USE DEF serverVars
<1>1. TypeOK
  BY DEF IInv
<1>2. /\ regs' = regs /\ link' = link
      /\ backlog' = backlog \/ backlog' = Append(backlog, NewConn(m))
      /\ client'[m] # "wait"
      /\ \A x \in Master \ {m} : client'[x] = client[x] /\ reply'[x] = reply[x] /\ stored'[x] = stored[x]
  BY <1>1 DEF ClientInit, ClientIdle, ClientConnect, ClientWait, ClientError, TypeOK
<1>3. CallOf(m)' = Service!Idle
  BY <1>2, SeenNext DEF CallFrom
<1>4. /\ \A x \in Master : OrphansIn(Conns, x)' = OrphansIn(Conns, x)
      /\ \A x \in Master \ {m} : Asked(link', backlog', x) <=> Asked(link, backlog, x)
  <2>1. CASE backlog' = backlog
    BY <1>1, <1>2, <2>1, SeenNow, SeenNext
  <2>2. CASE backlog' = Append(backlog, NewConn(m))
    BY <1>1, <1>2, <2>2, ConnectUnseen
  <2> QED BY <1>2, <2>1, <2>2
<1>5. OthersStay(m)
  <2> SUFFICES ASSUME NEW x \in Master \ {m}
               PROVE  CallOf(x)' = CallOf(x)
    BY <1>4 DEF OthersStay
  <2>1. CallFrom(client'[x], reply'[x], stored'[x], link', backlog', x)
           = CallFrom(client[x], reply[x], stored[x], link, backlog, x)
    BY <1>2, <1>4 DEF CallFrom
  <2> QED BY <1>1, <2>1, SeenNow, SeenNext
<1> QED BY <1>2, <1>3, <1>4, <1>5, Finishing

\* A store changes the registers of one parameter, its value only with its status.
LEMMA StoreServes ==
    ASSUME IInv, TypeOK', GateStores
    PROVE  ServiceStep
<1>1. regs \in Registers /\ regs' \in Registers /\ setting \in Setting
  BY DEF IInv, TypeOK
<1>2. Calls' = Calls /\ Lefts' = Lefts
  BY Unseen DEF GateStores, clientVars
<1>3. PICK e \in setting.stores :
          regs' = IF "val" \in DOMAIN e THEN setValue(regs, e.param, e.val)
                  ELSE setStatus(regs, e.param, e.status)
  BY DEF GateStores
<1>4. e.param \in Nat
  BY <1>1, ServerAssumption DEF IsStore
<1> DEFINE p == e.param
<1>5. CASE ~validateParamId(p)
  <2>1. regs' = regs
    BY <1>3, <1>5 DEF setValue, setStatus
  <2> QED BY <1>2, <2>1 DEF ServiceStep
<1>6. CASE validateParamId(p)
  <2>1. p \in Nat /\ FirstReg(p) = 4 * p /\ StatusReg(p) = 4 * p + 2 /\ 4 * p + 2 < NumRegs
    BY <1>4, <1>6 DEF validateParamId, FirstReg, StatusReg, regsPerParam, paramStatusOffset
  <2>2. 4 * p \in Reg /\ 4 * p + 1 \in Reg /\ 4 * p + 2 \in Reg
    BY <2>1, RegisterAssumption DEF Reg
  <2>3. p \in 0 .. (NumRegs \div 4)
    BY <2>1, RegisterAssumption
  <2>4. \A i \in Reg : regs'[i] # regs[i] =>
            \/ i = 4 * p + 2
            \/ i \in {4 * p, 4 * p + 1} /\ 4 * p + 2 \in Reg /\ regs'[4 * p + 2] = 3
    <3>1. CASE "val" \in DOMAIN e
      <4>1. regs' = [[[regs EXCEPT ![4 * p] = e.val[1]] EXCEPT ![4 * p + 1] = e.val[2]]
                        EXCEPT ![4 * p + 2] = 3]
        BY <1>3, <1>6, <2>1, <3>1, Zenon DEF setValue, ready
      <4> HIDE DEF p
      <4> QED BY <1>1, <2>1, <2>2, <4>1 DEF Registers
    <3>2. CASE "val" \notin DOMAIN e
      <4>1. regs' = [regs EXCEPT ![4 * p + 2] = e.status]
        BY <1>3, <1>6, <2>1, <3>2, Zenon DEF setStatus
      <4> HIDE DEF p
      <4> QED BY <1>1, <2>1, <2>2, <4>1 DEF Registers
    <3> QED BY <3>1, <3>2
  <2> HIDE DEF p
  <2>5. Service!GateStores
    BY <1>1, <1>2, <2>3, <2>4 DEF Service!GateStores, Service!Reg, Registers, Reg, Calls, Lefts
  <2> QED BY <2>5 DEF ServiceStep, Service!Next
<1> QED BY <1>5, <1>6

\* The initial states, and all steps.
LEMMA InitServes ==
    ASSUME Init
    PROVE  Service!Init
<1>1. TypeOK
  BY TypeInit
<1>2. ASSUME NEW m \in Master
      PROVE  CallOf(m) = Service!Idle /\ OrphansIn(Conns, m) = <<>>
  <2>1. client[m] = "init" /\ link = NoConn /\ backlog = <<>>
    BY DEF Init
  <2>2. CallOf(m) = Service!Idle
    BY <1>1, <2>1, SeenNow DEF CallFrom
  <2>3. LeftOn(link, m) = <<>>
    BY <2>1, ServerAssumption DEF LeftOn, NoConn
  <2>4. OrphansIn(backlog, m) = <<>>
    <3>1. backlog \in Seq(AnyConn) /\ \A k \in 1 .. Len(backlog) : FALSE
      BY <2>1
    <3> QED BY <3>1, NoOrphans
  <2>5. <<>> \o <<>> = <<>>
    OBVIOUS
  <2> QED BY <1>1, <2>2, <2>3, <2>4, <2>5, SeenNow DEF OrphansFrom
<1> QED BY <1>2 DEF Init, Service!Init, Service!Reg, Reg

LEMMA NextServes ==
    ASSUME IInv, RInv, IInv', [Next]_vars
    PROVE  ServiceStep
<1>1. TypeOK /\ TypeOK'
  BY DEF IInv
<1>2. CASE ServerTick
  BY <1>1, <1>2, ServerServes
<1>3. CASE GateStores
  BY <1>1, <1>3, StoreServes
<1>4. ASSUME NEW m \in Master, WorldStep(m)
      PROVE  ServiceStep
  BY <1>1, <1>4, ClientServes, ExecServes, EndServes DEF WorldStep
<1>5. CASE UNCHANGED vars
  <2>1. UNCHANGED <<link, backlog, client, stored, reply, regs>>
    BY <1>5 DEF vars
  <2>2. Calls' = Calls /\ Lefts' = Lefts
    BY <2>1, Unseen
  <2> QED BY <2>1, <2>2 DEF ServiceStep
<1> QED BY <1>1, <1>2, <1>3, <1>4, <1>5, NextSteps

\* The server with its masters, gates and connections implements RegisterService: every
\* request takes effect at most once, in the order its master has sent them, as a whole
\* or not at all, at one moment, and is answered with the result of that moment; what
\* was under way on a connection that ended may still take effect, but before anything
\* its master sends later.
THEOREM ServesRegisters == Safety => ImplementsRegisterService
<1>1. Init => Service!Init /\ IInv /\ RInv
  BY InitServes, InvariantInit, RInvInit
<1>2. IInv /\ RInv /\ [Next]_vars => IInv' /\ RInv'
  BY InvariantNext, RInvNext
<1>3. IInv /\ RInv /\ IInv' /\ [Next]_vars
         => [Service!Next]_<<regs, [m \in Master |-> CallOf(m)],
                             [m \in Master |-> OrphansIn(Conns, m)]>>
  BY NextServes DEF ServiceStep, Calls, Lefts
<1> QED BY <1>1, <1>2, <1>3, PTL DEF Safety, ImplementsRegisterService, Service!Spec

===============================================================================
