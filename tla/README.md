# spgate: a TLA+ verification project

spgate is a proxy on a small controller. It polls heat and gas meters over two
serial protocols (sp-bus, `sps` gates, and rs-bus, `m4` gates) that it reaches
through TCP-to-serial gateways, keeps the last value and a status of every
parameter in a file of Modbus registers, and serves that file by Modbus TCP.
A second program, ttyg, is such a TCP-to-serial gateway.

This directory holds TLA+ modules translated from the sources under `src/`, the
TLC configurations that check them on small instances, and TLAPS proofs of the
central properties for every value of the constants. `PROJECT.json` lists runs,
mutants, the source lines behind every definition, the hazards and the theorems.

## 1. The system

spgate is one thread. `spgate_main.cpp` calls `BusGate::tickInd` every 10 ms; in
state *run* that ticks every gate in the order of its index, then the Modbus
server, then the telnet CLI. Nothing is preempted: what looks like concurrency
are state machines that advance by one handler per tick, and the meters, the
network and the clients that act between any two ticks.

| component | state | operations | talks to |
|---|---|---|---|
| main loop, `BusGate.cpp` | `state`, the gates, the registers | `tickInd`, `processInit`, `shutdown` | ticks all others |
| link lock, `LinkLocker.hpp` | `busy` | `tryLock`, `unlock` | all gates share one |
| sps gate, `ClientFsm.cpp` + `SpBusClient.cpp` | machine state, three timers, `currentParamId`, socket | one handler per state | lock, registers, TCP gateway |
| m4 gate, `RsBusFsm.cpp` + `RsBusClient.cpp` | the same, `startSequenceCounter`, `deviceType` | one handler per state | lock, registers, TCP gateway |
| registers, `Buffer.hpp`, `RegAccessor.cpp` | 16384 words | `setValue`, `setStatus` | gates write, Modbus reads and writes |
| frame readers and codecs, `*Rx.cpp`, `*Codec.cpp` | position in a frame | `receive`, `decode`, `encode` | socket, clients |
| Modbus server, `ServerFsm.cpp` + `ModbusServer.cpp` | machine state, one connection, raw buffer | `accept`, `process`, `reset` | registers, masters |
| telnet console, `bg/cli` | machine state, editor state, line, last command, raw buffer | `accept`, `receive` byte by byte, commands | main loop (`shutdown`), its client |
| Modbus client, `ModbusClient.cpp` | machine state, stored request, registers | `exec`, `tickInd` | Modbus server; only the tests use it |
| ttyg, `TtyGate.cpp`, `LinkPool.cpp`, `Queue.hpp` | list of links, pool of three, serial port | `accept`, `process` | TCP clients, serial bus |
| sockets, `rlsocket.cpp` | descriptor | `connect`, `read`, `write`, `disconnect` | everything above |
| configuration, `rlinifile.cpp`, `ParamParser.cpp`, `GateStorage.cpp` | lists of the file, parsed sections, items of each gate | `read`, `parseFile`, `configure` | main loop, gates, ttyg |
| emulated meters, `bg/srv`, `SpBusServer.cpp`, `RsBusServer.cpp`, `RsBusServerFsm.cpp` | machine state, bus machine, one connection | `accept`, `process`, `reset` | a gate; a second mode of the program |

What is hard here: a lock that knows neither its holder nor its waiters; error
paths out of every state; answers that carry no usable correlation with the
request; timers that run out in the tick in which the answer comes; connections
that break between any two handlers; descriptors whose numbers the kernel gives out
again; a list that is changed while it is walked over; buffers, cursors and lines
that outlive a session; frames whose end is found by their content; mistakes in a file. The full list, line by line, is under "hazards" in
`PROJECT.json`. What makes each part correct:

- lock and main loop: one session at a time, the lock never leaks, nobody waits for
  ever, every gate goes on polling whatever the sockets do;
- gates: each session treats each parameter once or marks them all, a value marked as
  valid is the meter's and the parameter's own, and a bus that works again is read again;
- sockets: no object uses a descriptor of another, none is lost;
- Modbus: a request takes effect once, as a whole or not at all, and the answer a master
  takes is the answer to its own request;
- ttyg: each link is free or used by one client, an answer goes to the client that has
  asked, every client is served;
- console: what is executed is the line its client has typed, and no connection is
  forgotten;
- frames: a value that a reader and a codec accept is the one the other side has sent, and
  after any damage both sides find back to frames;
- configuration: what runs is what the file asks for, and a file that asks for something
  possible is accepted in whatever order it is written.

## 2. Modules

| module | models | checked by (run) | proofs |
|---|---|---|---|
| `LinkLock` | abstract: a fair lock | `gates` (refined by BusGate) | `BusGateProofs` |
| `BusGate` | main loop, both gate machines as control, lock | `gates` (`MCBusGate`) | `BusGateProofs` |
| `BusGateOrder` | BusGate plus a history of who was served | `gates` | `BusGateProofs` |
| `PollSession` | abstract: what a reader of the registers may expect of a gate | `spbus`, `rsbus` (refined by both) | `SpBusClientProofs`, `RsBusClientProofs` |
| `SpBusClient` | one sps gate with its bus, frames and registers | `spbus`, `spbus_late` | `SpBusClientProofs` |
| `RsBusClient` | one m4 gate with its bus, frames and registers | `rsbus`, `rsbus_damaged` (`MCRsBus`) | `RsBusClientProofs` |
| `RlSocket` | the socket objects of a process and the kernel's descriptors | `descriptors`, `outage` | `RlSocketProofs` |
| `RegisterService` | abstract: what a Modbus master may expect | `modbus` (refined by ModbusServer) | `ModbusServerProofs` |
| `RegAccessor` | the register file, and where a gate stores a parameter in it | `modbus` | `ModbusServerProofs` |
| `ModbusCommands` | what each Modbus command does to the registers | `modbus` | `ModbusServerProofs` |
| `ModbusServer` | server, its masters, their connections, the gates' writes | `modbus` (`MCModbus`) | `ModbusServerProofs` |
| `LinkPool` | ring queue and pool of link numbers | `tty` | `TtyGateProofs` |
| `TtyGate` | ttyg: links, walk, serial exchange, clients | `tty` | `TtyGateProofs` |
| `TelnetServer` | the console: server machine, line editor, client | `console` | `ServerFsmProofs` |
| `Checksums` | the two checksums, computed over bytes | `frames` | |
| `FloatWords` | the places of a float's bytes on the rs-bus and in registers | `frames` | `ServerFsmProofs` |
| `ByteLine` | bytes of a connection as a reader meets them | `frames` | |
| `SpBusFrames`, `RsBusFrames` | `*Rx.cpp` and `*Codec.cpp`, byte by byte | `frames` | `ServerFsmProofs` (codec of the rs-bus) |
| `RsBusServerFsm` | the two machines of an emulated meter | `frames` | `ServerFsmProofs` |
| `EmulatedMeter` | an emulated meter and the gate that reads it | `frames` (`MCEmulatedMeter`) | `ServerFsmProofs` |
| `Configuration` | the file, its reader and parser, what is built of it | `config` (`MCConfiguration`) | `ConfigurationProofs` |

`ModbusServer` composes `ModbusCommands` with the connections, `TtyGate` extends
`LinkPool`, `BusGateOrder` extends `BusGate`, and `EmulatedMeter` composes both ends of
both buses with `SpBusFrames`, `RsBusFrames` and two lines of bytes. BusGate has the gates as control only;
what happens inside a session is in the two client modules, and the reason why a
client module may look at one gate alone is `ImplementsLinkLock`.

### BusGate

A step is one call of one gate's `tickInd` with everything the handler of the
current state does; `turn` is the position of the loop in `processRun`. Socket
calls are choices over their outcomes. A timer is one flag, *expired*: setting a
timer clears it, `Expire` sets it at any moment, so no ratio of time limits is
assumed. One flag per gate is enough because no state looks at more than one
timer, and a handler that enters a timed state sets the timer of that state.
`GateTick` is the gate part of `processRun`, `ServiceTick` stands for the Modbus
server and the CLI, of which only the `shutdown` command changes this state.

### SpBusClient and RsBusClient

These look inside one session: which request is under way, which answer is on the
wire, which item it is about and where it is stored. `value[i]` is not a number but
*the item whose value stands in the registers of item i*, which is what the
properties need. `asked` and `wire` are the two directions of the connection.
Meters answer in order, late, not at all, or with something else; the gateway may
break the connection at any time; bytes nobody asked for may appear. `faulty` turns
FALSE once, at a moment of the environment's choice, and separates the safety under
every fault from the recovery afterwards. Requests and answers carry a mark, `old`, that a
successful `connect` puts on all that is under way then (`MarkOld`); a value taken from a marked
answer is recorded as `Earlier`, whatever item it is about. So `LateAnswerStaysInSession` tells an answer of
an earlier scan from one of the same scan: a ready value is one of the items up to its own, asked for
in the session that took it (on the rs-bus also `NoItem`, damaged on the way). It rests on
`disconnect`, which ends the TCP connection: a TCP-to-serial gateway that kept the answer to a closed
connection for the next one would be outside the model (`CloseLink` drops what is under way).

A frame is what the frame reader and the codec make of it; how they come to it is the
matter of `SpBusFrames` and `RsBusFrames`. The checksums matter: a damaged sp-bus frame is
dropped, a damaged short rs-bus frame makes its parameter invalid (errors that compensate
each other would pass its one-byte sum; left out here), and a damaged long one passes,
because the length its CRC is computed over is -1 (`Decodes`).

`punctual` (SpBusClient) is chosen once and for all behaviours: do the meters answer
within the receive timer, or at any time. `config` (RsBusClient) is chosen from the
configurations of the run. `legal` says of each item whether its meter has an address that
`validateNt` lets pass (0 to 99 and 255); for any other, `encode` fails and the session ends in
`reset`, in `sendSessionReq` for the first item and in `sendDataReq` for the others.

### RlSocket

One object per gate (it connects) and one per server (it is handed the descriptors of
accepted connections). `s[o]` is `rlSocket::s`; `open` is what the kernel has open for
the process. The kernel gives out the lowest free number, so a number kept after close
would soon be another object's. `connect` is taken from the code with its failure path,
which forgets the new descriptor without closing it.

### RegAccessor, ModbusCommands, ModbusServer

A parameter has four registers, as default.ini:52 has it: two for the value, the status, and one in
reserve. `setValue` writes three of them within one tick, so `RegisterService` can promise that the
value of a parameter changes only together with its status, which then is *ready*; masters may write
the same registers, and the service says nothing about that beyond each request being whole.

A request is a record with the fields its command reads; the commands decide between
answer and error by the conditions of the code. The server is `ServerFsm` with `tick`
modulo 4, its only use. A master is a `ModbusClient`: it connects, stores its request,
sends it, waits for the first frame and takes it for the answer, since every
`transactionId` is 0. `reply[..].to` is the request a frame answers, which the frame
does not say. A connection ends by `close`, by a break that the server will notice, or
silently. `setting`, chosen once and for all behaviours, says who the masters are, what they
ask and what the gates store; whether hosts may vanish without closing (`vanish`); and whether
frames come in one piece (`whole`): a pause inside one makes the bytes of its header
lost and the rest is read as a request of its own.

Left out: statistics; frames shorter than their command needs (the code would take the
missing fields from the bytes of an earlier frame); in the client, the copy of the
registers and answers with a pause of more than a second in them. The echo of a
multi-write carries `start + num`, as the code has it; no text of the repository says otherwise.

### LinkPool, TtyGate

`LinkPool` is `Queue.hpp` with its wrapping counters (`Word` is the width, 2^32 in the
program) and the pool made of it. `TtyGate` is `tickInd`: at most one `accept`, then the walk
over the list, one visit a step because clients and meters go on while the program
waits for the serial port, then the collection of the answer. An erased position
moves the iterator on twice, at the end past `end()`: that is undefined in C++, and the
model does what the ring of libstdc++ does (`After`). A request that arrives in pieces is
several requests. What a client has sent when it hangs up is dropped with its link. `Size` of the run is 2 with 3 clients, the program's
pool has 3; the difference matters where the counters run over (section 5).

An answer is a number of characters, `lengths` those of the meters on the bus. `serial->read` ends at a
silence, or with one character in hand for which rxBuf has no room (SerialPortRl.cpp:79): that one is
lost, and `LeftInPort` is what stays in the port for whoever reads it next. So `OwnAnswerOnly` has two
premises, that the meters are punctual and that each answer fits (`AnswersFit`: at most `BufSize` + 1
characters, 4097 in the program). The run has a bus on which they fit and one on which they do not; on
the second the links and the walk keep their properties, and the property about answers promises nothing.

### TelnetServer

`ServerFsm` drives `TelnetPrinter`, byte by byte: of a byte only its role is kept (text,
end of line, Ctrl-C, the bytes of telnet commands and escape sequences). There is one
line editor for all connections, and `init` resets its state but not its line, so what
one connection leaves of a line stands before what the next one types; a line left
full locks the console out, each later connection failing at its first key. The answer
of a command is written into the buffer the rest of the input is still read from.
`orderly`, chosen once and for all behaviours, says whether the clients stay clear of
this: they wait for the prompt, finish or cancel their line before they leave, keep it shorter
than the buffer, use no function keys, and have no window with a byte 27 or 255 in its width. `LineAsTyped` and `EveryLineAnswered` are
about those; `TypeOK` and `NoConnectionForgotten` about all.

A telnet client reports the size of its window by itself, and the editor, which passes over the
report, takes 255 and 27 in it for the begin of a sequence in every state (TelnetPrinter.cpp:113-122). In
the width such a byte leads to the error state, as the rest of the report is no sequence, and the
connection is closed, in mid-line if the window is resized then. In the low byte of the height it does no
harm, as the report ends behind it. Both are in the model (`SizeBegin27`, `SizeBegin255`,
`Heights`), the first for clients that are not orderly. The high byte of the height is below 27: no
window has 6912 lines. Which command a line
stands for is left open between `exit`, `shutdown` and the others; names are looked up by
their Adler-32 sum only. The up to four ticks that the server waits in `init` and
`error` are one, and clients act between two calls of `receive`: what they do during
one is read by the next.

### ByteLine, Checksums, SpBusFrames, RsBusFrames, EmulatedMeter

Here a connection is a sequence of bytes. `ByteLine` adds two marks for what `link->read`
reports besides a byte, a *Gap* (its timeout) and the *End* (it fails from there on); `receive`
of each bus is an operator that takes a line and says what it returns and what it leaves
unread. The sp-bus codec is the state machine of the source (`Take` is one byte of it); the rs-bus
codec looks at fixed places. `crcode` and the one-byte sum are computed over the bytes;
the registers of the 16-bit CRC are sets of bit numbers.

`EmulatedMeter` puts a gate and the meter that the program itself can emulate on either end. The
meter is complete: `ServerFsm` with `SpBusServer`, or with `RsBusServer` and the machine of
`RsBusServerFsm`, which has no reset of its own and must be at its start when the next
connection comes (`SessionPerConnection`). The gate is reduced to what the bytes depend on: it reads
one parameter `Items` times per session. `recvDataReqShort` of the meter is called by no state of
its machine; the setup "m4short" puts it in the place of `recvDataReqLong`, since real
meters answer so and the gate's short decoder would otherwise have nothing to read.

*Fault* changes, drops or adds a byte, puts a pause between two, breaks the connection, or lets the
gate's timer run out early; a setup allows one or two of these in a behaviour, at any
moments. `AcceptedIsOwn` leaves out long frames, whose CRC is not looked at
(finding `rsbus_damaged`), and allows one fault on short frames where two could
compensate each other. `KeepsAnswering` says that both sides find back to full sessions, if the
bus can carry the frames at all (`Readable`): an sp-bus address equal to DLE is not stuffed, and
a short frame with an end symbol in its value that makes the sum come out right is cut
there (`RsBusRx::receive`). Both kinds are in the run as setups, without the promise.
The fifth pointer of an sp-bus frame would be written behind the array of four in the codec;
no frame of the two programs has more than two, so that place is not reached.

### Configuration

A file is a sequence of lines: a header, a setting, or one that counts as a comment. Of a text
only the class matters to the parser: decimal, decimal with something behind it,
hexadecimal, an address, a word. `ReadLine` is one pass of the loop of `rlIniFile::read`, with the
lists it builds: sections in the order met, each with its entries, a comment as an entry
without a name. `ParseSection` is one pass of a loop of `parseConfig`: the sections of one
kind are looked for from number 0 up to the first that is missing or to the limit. `Names` and
`Accepts` are the names of each section and what `parseName` takes for them, with numbers
of 32 bits in the program (`UIntSize`). `CreateServers`, `CreateClient` and `CreateTtyGate` are
the ends of the three ways to start; `Items` and `Configures` are `GateStorage`: which
parameters a gate reads, by the device each names. What is wrong is said in the code by
an error code or an exception, in the module by `mode`.

The properties are not written from the parser but from the file: `Saying` is the last line
under a name in a section, wherever it stands, `Startable` what default.ini asks of a file,
`ParamsOf(g)` the parameters whose device names gate g.

### Refinements

`BusGate` implements `LinkLock` with *stage* computed from the machine states: the
lock is held by a gate exactly while it is between `connect` and `disconnect`.
`SpBusClient` and `RsBusClient` implement `PollSession`, where *left* is the set of
items from the cursor on: in each session every item gets one new status, or all
are marked "timeout" together. `ModbusServer` implements `RegisterService`: the call of a
master is what it waits for as long as the request or its answer is on a live connection,
and *orphans* are its requests on connections that have ended, which the server may still
perform, in the order they were sent, and never after a later one of the same master. The steps of all
three mappings are proved, their fairness is checked by the runs.

## 3. Runs

| run | instance | shows |
|---|---|---|
| `gates` | 3 gates, one of them m4, with 2, 2 and 1 items | one session at a time, no leak of the lock, fair service, polling never stops |
| `spbus` | 3 items, one frame of noise at a time | sessions, own values of punctual meters, recovery |
| `spbus_late` | 2 items, meters slower than the timer | a value under the wrong parameter (fails) |
| `rsbus` | 2 items, five configurations, 2 + 1 wake-up symbols | sessions, type known before it is used, recovery |
| `rsbus_damaged` | the same | a damaged value marked as valid (fails) |
| `descriptors` | 2 gates, a server, 5 descriptors | no descriptor shared, those lost are those of failed connects |
| `outage` | 1 gate, 3 descriptors | a long outage ends the service for good (fails) |
| `modbus` | the registers of one parameter; a lone master with 10 requests, or 2 masters with 2, pauses and vanishing hosts | each request as a whole or refused, own answers only, no connection forgotten, the lone master is answered |
| `tty` | 2 links, 3 clients, counters of width 4, a buffer of 1, answers of 2 or of 3 characters | links, handles, own answers, service of all |
| `console` | 1 client, line and buffer of 3 bytes, 4 bytes waiting | own lines only, prompt after each, no connection forgotten |
| `frames` | 5 setups on 3 kinds of bus, 2 reads a session, 1 or 2 faults | no damage passes for a value, a fresh start with every connection, both sides find back |
| `config` | 2 gates, 2 devices, 3 parameters; 903 files and programs | the last text under a name is found, what runs is what the file asks for |

Why the bounds are enough to be interesting:

- three gates are the least number for which a waiting gate can be overtaken by one
  while another holds; two items make the cursor move without ending the scan; a
  start sequence of length 1 takes both branches of the counter;
- with three items a late answer can be taken one or two parameters further on;
- of the five configurations of `rsbus` three have legal addresses, one of them with meters of both
  types, and two have an address that the codec refuses, of the first item or of the second;
- an answer of 2 characters is the longest that a buffer of 1 takes out of the port, one of 3 the shortest
  that leaves a character there;
- with five descriptors, one of them the listener's, two gates and a server have one
  to lose and numbers to be given out again;
- the requests of the lone master of `modbus` lie on either side of every condition of the commands:
  first and last register, number limit, byte count, unknown function;
- a second master only matters for the backlog and the reuse of the connection, so
  it makes few requests;
- counters of width 4 over a ring of 2 wrap within a run. The indices run on at the wrap only if
  `Size` divides `Word`, as 2 divides 4; 3 does not divide 2^32, so the program agrees with the
  run until 2^32 - 3 links have been released (section 5);
- one fault in a frame is the least that shows what a checksum is for, two those that meet
  in different frames of one session; the frames are those of the program, at full length;
- the files of `config` are an orderly one, its sections in other orders and taken apart,
  it with each line lost, and it with one of 20 lines too many at each place, so each name is
  once missing, once given twice and once wrong; two of each part are needed for a parameter on
  the wrong gate;
- one client that comes back meets what it has left of its line and of the buffers, as another
  would: the console does not know its clients apart;
- a line of 3 bytes can be typed, be full, and be left over; a buffer of 3 with 4
  waiting bytes shows the read that does not fit.

`MaxNoise`, `MaxBacklog`, `MaxAsked`, `MaxBytes`, `MaxPending`, `MaxWaiting`, `MaxFd` and the `faults` of a setup
are the only bounds on what the environment does; each is in the guard of the action it bounds. `MaxBacklog` (5 in the
program) and `MaxFd` are limits of the real system, made small.

The runs with `CHECK_DEADLOCK FALSE` are those in which the program may end
(`exit`, shutdown) or the environment may have nothing left to do.

### Fairness

- BusGate: the main loop goes on (every socket call has a time limit, so a tick
  returns), and every timer runs out.
- The two clients: the gate is ticked whenever its handler has something to do, which
  `ImplementsLinkLock` justifies for the wait on the lock, and timers run out. In
  SpBusClient meters answer if they are punctual; in RsBusClient each request is dealt
  with, by an answer or its loss. That faults end is never assumed: `RecoversOnSoundBus` and
  `RecoversIfConfigured` have it as a premise.
- ModbusServer: the server is ticked, and so is each master. TtyGate: the process
  runs, and a meter that answers does so. That clients leave is a premise of
  `EveryClientAccepted`.
- RlSocket: gates go on connecting (`EveryGateKeepsPolling`), servers go on serving.
- EmulatedMeter: both programs are ticked; the gate's timer runs out when nothing is under way,
  and earlier only as a fault. That the number of faults is finite is the premise of
  `KeepsAnswering`.
- TelnetServer: the console is ticked until the shutdown, and a call of `receive` ends.

## 4. Proofs

Eight modules hold the theorems; each is about every value of the constants, where a run is about
one. Assumptions are those named in the modules: finite sets of objects, at least one item
per gate, bounds that are natural numbers. Hypotheses beyond that are in the statements. About the program as it runs there are
two, `[]RunsOn` and `Punctual`, both about ttyg. Some properties have a premise of their own:
`punctual`, `orderly`, `AnswersFit`, an orderly numbering; what they leave out is said with each.

### BusGateProofs

For every number of gates, every kind and every number of items: type correctness,
`MutualExclusion`, `LockMatchesSession`, `NothingLeftBehind`, and that every step of the main loop
is a step of `LinkLock!Next` or a stutter.

The inductive invariant `IInv` is their conjunction with `ScanDone`: in state
`disconnect` the cursor is back at 0. Mutual exclusion alone is not inductive
because the lock has no owner: it needs that the flag is TRUE whenever a gate is in
a session, so that the only gate that can enter is one that found it FALSE;
and that in turn needs mutual exclusion, because the unlock at the end of one
session would otherwise free the lock under another. `NothingLeftBehind` needs
`ScanDone` since `disconnect` does not touch the cursor. The proof has one lemma per
group of handlers (`HandlerKeepsIInv`), so the main loop's part is short.

With the history of `BusGateOrder` it also proves `OvertakenOnce`, from `OrderInv`. The argument is
a distance: from the moment a gate has overtaken g, its next turn lies behind g's, because
the loop visits the gates in a circle and a gate cannot come back from a session to
`waitingForLinkLock` and `connect` within one tick.

### SpBusClientProofs, RsBusClientProofs

For every number of parameters, any amount of noise and, on the rs-bus, every configuration:

- type correctness of both, and `DeviceTypeKnown` of the m4 gate: the switch over the meter's type is
  entered with a supported one only, because each path to a data request passes the check;
- `PunctualMeansOwnValue` of the sps gate. The client compares no answer with its request, so the property rests
  on the timing alone. The invariant says it: with punctual meters at most one request or answer
  is under way (`OneExchange`), it is that of the current parameter, and none is left before
  the request is sent or once the receive timer has run out, which are the places where
  the cursor moves;
- `LateAnswerStaysInSession`, for any meters. What is under way was asked for in this session, at the
  current item or before it (`ThisScanOnly`), nothing is under way when a session begins, and
  `disconnect` drops the connection with what is left on it before the next scan. This bounds the
  finding `spbus_late`;
- each implements the safety part of `PollSession`: a session treats every item once, in
  order, or marks them all. The refinement mapping needs that the cursor is at the first item whenever
  a session starts, otherwise the items before it would be treated by none.

### RlSocketProofs

`OwnDescriptor` and `LostByFailedConnects`, for every number of gates, servers and descriptors, and
every pattern of failed connects and broken connections. The first needs that what is in use is open
and no listener's; a descriptor freshly granted is not open, so it cannot be in use; and
whatever closes a number also takes it out of its object. The second is a count: the open
descriptors nobody has are as many as connects have failed. Each action changes that set by at most one
element, and for servers one has to know that an idle server object holds no descriptor
(`IdleServersHoldNone`), since `accept` would overwrite it.

### ModbusServerProofs

For every size of the register file, every limit and every request: stores of different parameters
touch different registers, and one for which not all its registers exist changes none
(`StoresStayApart`); and a command writes the registers it names or, if
it is answered with an error, none (`CommandsWholeOrNothing`). For any number of masters:
`TypeOK`, `OwnAnswer` and `NoConnectionForgotten`, with pauses in frames, breaks and vanished hosts.
The invariant has three ideas. A live connection of a master is in one place, in the server's hands or once in the
backlog (`LiveOnce`). The server has one exactly while it processes (`LinkInProcess`). On a live
connection stands at most one request, or one answer to the request stored at its
master (`OneRequest`, `OneAnswer`), which is why the missing transaction numbers do no harm:
a master that gives up also closes, and what is left on the old connection reaches nobody.

`ServesRegisters`: each step of the server, a master or a gate is a step of `RegisterService` or a
stutter. It needs two more things of the connections (`RInv`): each carries at most one
request (`Short`), so what ends with a connection is one orphan, and no connection of a master stands
behind its live one (`LiveLast`), so what it asks now is performed after what it gave up.
Of the orphans, a recursive function of the list of connections, the lemmas say what the
steps can do to it: a connection at the front adds to them (`OrphansInFront`), so does one
behind (`OrphansBehind`), a change that ends none leaves them alone (`OrphansStay`), and a
connection that breaks moves its request to their end (`OrphansJoin`). They are proved by
induction over sets of numbers, which the library's theorem about `<` gives (`SetInduction`). There
is then one lemma per action of `RegisterService`, and one per action of the server
that says which of them it is.

### TtyGateProofs

For any number of links and clients: `TypeOK`, `EachLinkOnce` and `HandleWhileInUse` under `[]RunsOn`,
and `OwnAnswerOnly`, which itself asks for answers that fit, under `Punctual`.

`RunsOn` says that the size of the ring divides the width of its counters, or that the counter of
what is put in has not run over. It was not planned: the indices cannot be shown to
go on where they were without it, and a small instance refutes the property (section 5). A run
of ttyg satisfies it for its first 2^32 - 3 releases. The rest of the invariant is what
the walk needs: the counters agree with the list (`Counters`), a link is in the
list or in the pool, and in neither twice (`FreeOrUsed`), it has a handle exactly while in the list, each
client waits or has one link (`ClientsApart`), and the answer is collected where the
walk stopped (`CollectsAtLink`), which the erasure under the iterator does not disturb.
`EachLinkOnce` counts the places of a link; the invariant quantifies over them, and the last step of the
proof turns one into the other.

`Punctual` is a constant of the model: meters answer before the port is given up. Then a
single exchange is under way, that of the client that is visited (`OneExchange`), and if the answers fit one
read leaves nothing of it. What the pool
does plays no part in it.

### ServerFsmProofs

Both programs that `ServerFsm` drives besides the Modbus server: the console, which the module extends,
and the emulated meter, by `INSTANCE` (its machines, in which the theorem is stated, are extended too).

The console, for every size of line and buffer, every number of clients and every way the reads
end: `TypeOK`, `NoConnectionForgotten`, and `LineAsTyped` for orderly clients. For the last the
invariant follows the bytes. What is still to be treated, in the buffer and on the
connection (`Stream`), is a text of the grammar of the keys the client has, reports of a window's size
with any height among them, begun at the state the editor is in
(`Follows`); treated to its end, it makes the line as long as what the client has typed (`Grows`); an end of
line is its last byte, and the client waits after it; and where there is no connection, the
line is empty (`Nothing`, `Blank`). A read that ends within an escape sequence
moves bytes from the connection to the buffer, which leaves the stream as it was, and the
treatment of a byte takes one off its front. `Grows` is stated with a function that gives the
length at each place of the stream, so it needs no recursion. TLC has checked the invariant on two
instances (one client, line 3 and buffer 4; two clients, line 2 and backlog 2) before it was proved.

The meter: `SessionPerConnection` for every setup, whatever arrives on the lines, without opening
a reader or a codec: whichever way a call of `process` ends (`Stay`, `Answer`, `Fail`), it leaves the
two machines in step.

Also that `decodeRsBus` undoes `encodeRsBus` for each of the 2^32 patterns of four bytes,
and that the swap of words between value and registers is its own inverse.

The codec of the rs-bus, for every address that `validateNt` allows and all bytes of a frame: what `encode` and `Long` put
together, `decode` and `decodeLong` take apart again (`ShortFrameKept`, `LongFrameKept`). From it
`ShortAnswerKept`: an undamaged short answer gives the gate the number the meter holds; and
`LongRequestKept` and `LongAnswerKept` for the two long frames. The sum of a short frame stays closed, as
both sides compute the same one, and so does the CRC of a long one, which decoding does not look at. How a frame is
found in a line of bytes (`RsBusRx`) is not part of it: a short one with an end symbol in its value
may be cut there.

### ConfigurationProofs

`ReadAsWritten` for every file of any length, any sections and any names. The invariant `Holds` is
about the lists of the reader: each section met stands in them once and no
other does, each name of it once, and its text is the one the lines so far say last.
Two groups of lemmas carry it: what one line more adds to what the lines say, and
what `openSection` and `setText` do to the lists; the sections that a line is not
about keep what they had.

`StartsAsWritten` for every file, every limit and every width of a number: a program that refuses to start has no
file, or one that is not `Startable`; and a gateway that runs polls only what the file has, each gate
parameters whose device names it, once and in their order. If the numbering of the sections is orderly, as
`Startable` demands, it polls all of them and has all gates; otherwise, behind a gap, some may be missing.
That no file but a `Startable` one is accepted is not claimed, and is not so: the parser starts with such
gaps. The
invariant `PInv` follows the parser through the file: the sections of the kinds it has passed
are those that the file has from number 0 on, each with the values that its lines say
last; no section it has passed says less than it must, or something that is not accepted; a
program that was refused had a reason in the file. The items of a gate are a recursive
function of the parameters (`Gathered`), and `ItemsAre` says what it gives, by the
induction over sets of numbers. That the file is a sequence of lines is the assumption of
the module.

### Only model-checked

- Liveness, which TLAPS does not reach: the fair part of `ImplementsLinkLock` and of the other
  refinements, `EveryGateKeepsPolling`, `KeepsAnswering`, `EveryLineAnswered`, the recovery of the gates,
  the service of clients.
- `AcceptedIsOwn`, the only invariant without a theorem. It holds for a bounded number of
  faults only, by what the checksums catch of them, and what the checksums, the readers and the
  codec of the sp-bus compute is recursion over the bytes of a frame.

## 5. Findings

- `spbus_late`: with a meter slower than the receive timer, an answer is stored under
  the wrong parameter and marked ready (SpBusClient.cpp:135). `PunctualMeansOwnValue`
  shows that lateness is the only way to it.
- `rsbus_damaged`: the CRC of a long rs-bus frame is computed over -1 bytes and never
  fails (RsBusCodec.cpp:206), so a value damaged on the bus is marked ready.
- `outage`: each failed `connect` loses a descriptor (rlsocket.cpp:314).

Met while modelling, without a run of their own:

- the ring of ttyg loses its place when its counter runs over, after 2^32 - 3 releases of a link
  (Queue.hpp:27): 2^32 is no multiple of 3, so the next slot is not the one that follows. With
  `Size` = 3 and `Word` = 5 in `MCTtyGate.cfg` TLC finds `EachLinkOnce` violated at the wrap;
  it was met when the proof needed `RunsOn`;
- `rlsocket.cpp:355` splits a timeout with % 1000 but does not scale the rest to
  microseconds, where `rlsocket.h:100` and `:147` speak of milliseconds;
- `cfg/default.ini:69` gives 0x52 as the function code of the rs-bus, but meters of the types 742,
  743, 942, 943 and 9411 are refused without 0x72 (RsBusClient.cpp:216; the premise `Fits` of
  `RecoversIfConfigured`);
- `cfg/default.ini:38` calls a setting `read_period` that the parser knows as `request_periodicity`;
  the order of sections that line 17 demands is not needed (`StartsAsWritten`);
- a hexadecimal period is checked and stored as 0, hence refused (ParamParser.cpp:49); a blank behind a
  word makes it another word, which is refused, and behind a number is ignored (lines 62-100); a blank
  before a name turns the line into a comment (rlinifile.cpp:170), while a line that
  starts with `;` is a setting;
- a broken section [ttyg] keeps spgate from starting, which does not use it (ParamParser.cpp:360);
- a Modbus master whose host vanishes without closing keeps the only place at the server
  (ModbusServer.cpp:51; no property covers it: `EveryRequestAnswered` is about a setting without such hosts,
  and would not notice);
- the console keeps an unfinished line for the next connection (TelnetPrinter.cpp:74), and looks
  commands up by the Adler-32 sum of their name alone (CmdProcessor.cpp:48);
- a window 27 or 255 columns wide ends the connection to the console (TelnetPrinter.cpp:113-122);
- an answer of more than 4097 bytes on the serial bus is cut by ttyg, and its rest goes to the next
  client that asks (SerialPortRl.cpp:79-82).

## 6. Not modelled

Formatting (statistics, parameter lists, logs) and the CLI commands beyond `exit` and `shutdown`,
which only print or set the log level. The numbers themselves: the register file of `modbus` and the
items of the client modules are not joined, where a value is the item it belongs to. Durations: how
long a pause lasts, the 1000 reads a frame that stops may hold the main loop for
(SpBusRx.cpp:38), the endless retry of `bind` (rlsocket.cpp:255). Modbus frames shorter than
what they claim (ModbusServer.cpp:218). The shared memory of `common/shm`, which is pure I/O, the
third-party `rl` library beyond its sockets and ini files, the program options.

## 7. Plan

1. Proofs: the codec of the sp-bus and the readers of both buses one frame at a time, towards
   `AcceptedIsOwn` without faults.
2. The register file joined with a gate that fills it.
