----------------------------- MODULE Configuration -----------------------------
(***************************************************************************)
(* How a program starts from its file: rlIniFile reads the lines into lists *)
(* of sections and names (rlinifile.cpp), ParamParser takes the parameters  *)
(* out of them (ParamParser.cpp), and BusGate or TtyGate builds what they   *)
(* ask for (BusGate.cpp, GateStorage.cpp, TtyGate.cpp).                     *)
(***************************************************************************)
EXTENDS Integers, Sequences, FiniteSets

CONSTANTS maxNumGates, maxNumDevices, maxNumParams,
          UIntSize,    \* number of values of an unsigned, 2^32 in the program
          Start,       \* the ways it is started: with what program ("client",
                       \* "emulation" or "ttyg") and file, a sequence of lines
          NoFile       \* the file that cannot be opened

\* The text of a line is what sscanf and strcmp tell apart: a decimal, one with
\* something behind it, a number with the prefix 0x, an address with its port, a word.
Text == ({"dec", "tail", "hex"} \X Int) \cup ({"ip"} \X [1 .. 5 -> Nat]) \cup ({"word"} \X STRING)

\* A section is named by its kind and its number, 0 where the kind has none.
Line == [is : {"header"}, section : STRING \X Nat]
        \cup [is : {"setting"}, name : STRING, text : Text]
        \cup [is : {"comment"}]

ASSUME ConfigurationAssumption ==
    /\ {maxNumGates, maxNumDevices, maxNumParams} \subseteq Nat \ {0}
    /\ UIntSize \in Nat \ {0}
    /\ \A s \in Start : /\ s.program \in {"client", "emulation", "ttyg"}
                        /\ s.file = NoFile \/ s.file \in Seq(Line)

VARIABLES program,   \* the program that is started
          file,      \* its file
          place,     \* the line to be read next
          section,   \* name_section, the section the next names belong to
          ini,       \* the sections with their names, as the linked lists hold them
          phase,     \* what parseConfig looks for, after "read", before "create"
          index,     \* the number of the section or of the gate it has come to
          parsed,    \* the parameters of the sections of each kind
          storages,  \* the items of the gates that are built
          mode       \* "init", "run", "error" or "exit"

readVars == <<place, section, ini>>
vars == <<program, file, readVars, phase, index, parsed, storages, mode>>

-----------------------------------------------------------------------------
\* Lines.

Header(kind, i) == [is |-> "header", section |-> <<kind, i>>]
Setting(name, text) == [is |-> "setting", name |-> name, text |-> text]
Comment == [is |-> "comment"]   \* '#', a blank in front, or nothing

NoSection == <<"", 0>>          \* what stands before the first header
Nameless == ""                  \* the name of comments, and of a header met again

Dec(n) == <<"dec", n>>
Trailed(n) == <<"tail", n>>
Hex(n) == <<"hex", n>>
Ip(parts) == <<"ip", parts>>
Word(w) == <<"word", w>>

-----------------------------------------------------------------------------
\* rlIniFile.  Operators named Bad... are faulty variants of the definition that
\* follows them; PROJECT.json (mutants) says which property notices each.

FirstIn(S) == CHOOSE k \in S : \A j \in S : k <= j

SectionsOf(list, sec) == {k \in DOMAIN list : list[k].name = sec}
EntriesOf(entries, name) == {k \in DOMAIN entries : entries[k].name = name}

Entry(name, text) == [name |-> name, text |-> text]

\* A name that is there already gets a second place behind the first.
BadPutEntry(entries, name, text) == Append(entries, Entry(name, text))

\* The inner loop of setText: a name that is there already is given the new text.
PutEntry(entries, name, text) ==
    LET here == EntriesOf(entries, name)
    IN  IF name # Nameless /\ here # {}
        THEN [entries EXCEPT ![FirstIn(here)].text = text]
        ELSE Append(entries, Entry(name, text))

\* setText, for a line that has a name or is a comment.
setText(sec, name, text) ==
    LET here == SectionsOf(ini, sec)
    IN  IF here # {}
        THEN [ini EXCEPT ![FirstIn(here)].entries = PutEntry(@, name, text)]
        ELSE Append(ini, [name |-> sec, entries |-> <<Entry(name, text)>>])

\* setText(section, NULL, NULL): a section that is there already only gets a nameless
\* entry, and its names go on where they ended.
openSection(sec) ==
    LET here == SectionsOf(ini, sec)
    IN  IF here # {}
        THEN [ini EXCEPT ![FirstIn(here)].entries = Append(@, Entry(Nameless, Word("")))]
        ELSE Append(ini, [name |-> sec, entries |-> <<>>])

\* findSection: nextSection never comes to the first one.
findSection(sec) == \E k \in SectionsOf(ini, sec) : k > 1

\* firstName and nextName up to the name, in the first section so called; and text.
HasName(sec, name) ==
    LET here == SectionsOf(ini, sec)
    IN  here # {} /\ EntriesOf(ini[FirstIn(here)].entries, name) # {}
TextOf(sec, name) ==
    LET entries == ini[FirstIn(SectionsOf(ini, sec))].entries
    IN  entries[FirstIn(EntriesOf(entries, name))].text

-----------------------------------------------------------------------------
\* The conversions of ParamParser.

\* sscanf with "%u": what stands in front of anything else; "0x1d" begins with 0.
IsNumber(text) == text[1] # "word"
Plain(text) ==
    CASE text[1] = "hex" -> 0
      [] text[1] = "ip" -> text[2][1]
      [] OTHER -> text[2] % UIntSize
\* parseValue tries the prefix first.
Number(text) == IF text[1] = "hex" THEN text[2] % UIntSize ELSE Plain(text)

\* parseReadPeriod knows no prefix.
IsPeriod(text) == IsNumber(text) /\ Plain(text) \in 50 .. 65535

IsIp(text) ==
    /\ text[1] = "ip"
    /\ \A k \in 1 .. 4 : text[2][k] <= 255
    /\ text[2][5] <= 65535

\* What is compared with strcmp.
GateTypes == {Word("sps"), Word("m4")}
ParamTypes == {Word("float"), Word("fixed"), Word("real")}
Speeds == {Dec(2400), Dec(4800), Dec(9600), Dec(19200), Dec(38400), Dec(57600), Dec(115200)}
OnOff == {Word("on"), Word("off")}
StopBits == {Dec(1), Dec(2)}
Bits == {Dec(7), Dec(8)}
Parities == {Word("none"), Word("odd"), Word("even")}

Choice == [gateType |-> GateTypes, paramType |-> ParamTypes, speed |-> Speeds,
           onOff |-> OnOff, stopBits |-> StopBits, bits |-> Bits, parity |-> Parities]

Accepts(class, text) ==
    \/ class = "any"
    \/ class = "number" /\ IsNumber(text)
    \/ class = "period" /\ IsPeriod(text)
    \/ class = "ip" /\ IsIp(text)
    \/ class \in DOMAIN Choice /\ text \in Choice[class]

Value(class, text) ==
    CASE class = "number" -> Number(text)
      [] class = "period" -> Plain(text)
      [] OTHER -> text

\* The names each kind of section has to have, and what their texts have to be.
TtygNames == [ip_addr |-> "ip", port |-> "any", speed |-> "speed", block |-> "onOff",
              rts_cts |-> "onOff", bits |-> "bits", stop_bits |-> "stopBits",
              parity |-> "parity", start_rx_timeout |-> "number",
              end_rx_timeout |-> "number"]
CommonNames == [modbus_addr |-> "ip"]
GateNames == [gate_type |-> "gateType", gate_addr |-> "ip", addr |-> "number",
              request_periodicity |-> "period", request_timeout |-> "period"]
DeviceNames == [gate_id |-> "number", addr |-> "number"]
ParamNames == [device_id |-> "number", func |-> "number", chan |-> "number",
               addr |-> "number", type |-> "paramType"]

Names == [ttyg |-> TtygNames, common |-> CommonNames, gate |-> GateNames,
          device |-> DeviceNames, param |-> ParamNames]
Kinds == <<"ttyg", "common", "gate", "device", "param">>
Limit == [ttyg |-> 1, common |-> 1, gate |-> maxNumGates, device |-> maxNumDevices,
          param |-> maxNumParams]

-----------------------------------------------------------------------------
\* ParamParser.

\* parseName: a name that is missing or whose text is not accepted throws; the addr of
\* a gate that is no sps may be missing, and nothing else.
Optional(kind, name, type) == kind = "gate" /\ name = "addr" /\ type # Word("sps")

parseName(kind, sec, name) ==
    IF HasName(sec, name)
    THEN Accepts(Names[kind][name], TextOf(sec, name))
    ELSE Optional(kind, name, TextOf(sec, "gate_type"))

\* parseTtyg, parseCommon, parseGates, parseDevices, parseParams: do all names parse,
\* and what they give; a parameter nobody sets is 0.
Parses(kind, sec) == \A name \in DOMAIN Names[kind] : parseName(kind, sec, name)

Parameters(kind, sec) ==
    [id |-> sec[2],
     val |-> [name \in DOMAIN Names[kind] |->
                 IF HasName(sec, name) THEN Value(Names[kind][name], TextOf(sec, name))
                 ELSE 0]]

After(kind) ==
    IF kind = "param" THEN "create"
    ELSE Kinds[1 + CHOOSE k \in DOMAIN Kinds : Kinds[k] = kind]

\* TtyGate throws when its file cannot be parsed, BusGate stays without doing anything.
Refuse == mode' = IF program = "ttyg" THEN "exit" ELSE "error"

-----------------------------------------------------------------------------
Init ==
    /\ \E s \in Start : program = s.program /\ file = s.file
    /\ place = 1
    /\ section = NoSection
    /\ ini = <<[name |-> NoSection, entries |-> <<>>]>>
    /\ phase = "read"
    /\ index = 0
    /\ parsed = [kind \in DOMAIN Names |-> <<>>]
    /\ storages = <<>>
    /\ mode = "init"

Unreadable ==
    /\ phase = "read" /\ mode = "init"
    /\ file = NoFile
    /\ Refuse
    /\ UNCHANGED <<program, file, readVars, phase, index, parsed, storages>>

\* One pass of the loop of read.
ReadLine ==
    /\ phase = "read" /\ mode = "init"
    /\ file # NoFile /\ place <= Len(file)
    /\ place' = place + 1
    /\ LET line == file[place]
       IN  \/ /\ line.is = "header"
              /\ section' = line.section
              /\ ini' = openSection(line.section)
           \/ /\ line.is = "setting"
              /\ ini' = setText(section, line.name, line.text)
              /\ UNCHANGED section
           \/ /\ line.is = "comment"
              /\ ini' = setText(section, Nameless, Word(""))
              /\ UNCHANGED section
    /\ UNCHANGED <<program, file, phase, index, parsed, storages, mode>>

EndOfFile ==
    /\ phase = "read" /\ mode = "init"
    /\ file # NoFile /\ place = Len(file) + 1
    /\ phase' = "ttyg"
    /\ UNCHANGED <<program, file, readVars, index, parsed, storages, mode>>

\* while (parse...(parser, sectionName) && i < maxNum...), after i++.
More(kind, i) == i < Limit[kind]

\* One pass of a loop of parseConfig; it ends at the first number that is not there.
ParseSection ==
    /\ phase \in DOMAIN Names /\ mode = "init"
    /\ LET sec == <<phase, index>>
       IN  \/ /\ ~findSection(sec)
              /\ phase' = After(phase)
              /\ index' = 0
              /\ UNCHANGED <<parsed, mode>>
           \/ /\ findSection(sec) /\ Parses(phase, sec)
              /\ parsed' = [parsed EXCEPT ![phase] = Append(@, Parameters(phase, sec))]
              /\ IF More(phase, index + 1)
                 THEN index' = index + 1 /\ UNCHANGED phase
                 ELSE index' = 0 /\ phase' = After(phase)
              /\ UNCHANGED mode
           \/ /\ findSection(sec) /\ ~Parses(phase, sec)
              /\ Refuse
              /\ UNCHANGED <<phase, index, parsed>>
    /\ UNCHANGED <<program, file, readVars, storages>>

-----------------------------------------------------------------------------
\* What is built of it.

\* GateStorage::configure: the parameters of the devices of the gate.
DeviceKnown(prm) == prm.val.device_id < Len(parsed.device)
DeviceOf(prm) == parsed.device[prm.val.device_id + 1]

\* The loop over the parameters, which keeps those at the given places: kept[n] is what the
\* first n of them have given.
Gathered(places) ==
    LET kept[n \in 0 .. Len(parsed.param)] ==
            IF n = 0 THEN <<>>
            ELSE IF n \in places
            THEN Append(kept[n - 1], [device |-> DeviceOf(parsed.param[n]), param |-> parsed.param[n]])
            ELSE kept[n - 1]
    IN  kept[Len(parsed.param)]

\* The gate is looked for under the number of the device.
BadItems(gate) ==
    Gathered({n \in 1 .. Len(parsed.param) : parsed.param[n].val.device_id = gate.id})

Items(gate) ==
    Gathered({n \in 1 .. Len(parsed.param) : DeviceOf(parsed.param[n]).val.gate_id = gate.id})

\* The device of a parameter of any gate has to be there, and some parameter has to
\* be the gate's.
Configures(gate) ==
    /\ \A k \in DOMAIN parsed.param : DeviceKnown(parsed.param[k])
    /\ Items(gate) # <<>>

\* createGates, up to the choice of the mode.
NothingToRun ==
    parsed.common = <<>> \/ parsed.gate = <<>> \/ Len(parsed.gate) > maxNumGates

RefuseGates ==
    /\ phase = "create" /\ mode = "init" /\ program # "ttyg"
    /\ NothingToRun
    /\ mode' = "error"
    /\ UNCHANGED <<program, file, readVars, phase, index, parsed, storages>>

\* createGatesServer: an emulated meter asks for no parameters.
CreateServers ==
    /\ phase = "create" /\ mode = "init" /\ program = "emulation"
    /\ ~NothingToRun
    /\ mode' = "run"
    /\ UNCHANGED <<program, file, readVars, phase, index, parsed, storages>>

\* One pass of the loop of createGatesClient; the constructor throws out of main's loop.
CreateClient ==
    /\ phase = "create" /\ mode = "init" /\ program = "client"
    /\ ~NothingToRun
    /\ LET gate == parsed.gate[index + 1]
       IN  \/ /\ Configures(gate)
              /\ storages' = Append(storages, [gate |-> gate, items |-> Items(gate)])
              /\ index' = index + 1
              /\ mode' = IF index + 1 = Len(parsed.gate) THEN "run" ELSE "init"
           \/ /\ ~Configures(gate)
              /\ mode' = "exit"
              /\ UNCHANGED <<storages, index>>
    /\ UNCHANGED <<program, file, readVars, phase, parsed>>

\* The constructor of TtyGate.
CreateTtyGate ==
    /\ phase = "create" /\ mode = "init" /\ program = "ttyg"
    /\ mode' = IF parsed.ttyg = <<>> THEN "exit" ELSE "run"
    /\ UNCHANGED <<program, file, readVars, phase, index, parsed, storages>>

Next ==
    \/ Unreadable \/ ReadLine \/ EndOfFile \/ ParseSection
    \/ RefuseGates \/ CreateServers \/ CreateClient \/ CreateTtyGate

Safety == Init /\ [][Next]_vars

-----------------------------------------------------------------------------
\* What the first n lines of the file say: the last text written under a name, in
\* whatever place under a header of the section.

LastIn(S) == CHOOSE k \in S : \A j \in S : k >= j

HeadersUpTo(n) == {k \in 1 .. n : file[k].is = "header"}
SectionAt(n) == IF HeadersUpTo(n) = {} THEN NoSection ELSE file[LastIn(HeadersUpTo(n))].section
HeadersIn(n) == {file[k].section : k \in HeadersUpTo(n)}

WrittenAt(n, sec, name) ==
    {k \in 1 .. n : file[k].is = "setting" /\ file[k].name = name /\ SectionAt(k) = sec}
Says(n, sec, name) == WrittenAt(n, sec, name) # {}
Saying(n, sec, name) == file[LastIn(WrittenAt(n, sec, name))].text

SectionsNamed == HeadersIn(Len(file)) \cup {NoSection}
NamesGiven ==
    {file[k].name : k \in {j \in 1 .. Len(file) : file[j].is = "setting"}} \ {Nameless}

\* What the parser would find is at every moment what the lines read so far say, however
\* often sections and names have been met (setText, text, firstName, nextName).
ReadAsWritten ==
    file # NoFile =>
        LET n == place - 1
        IN  \A sec \in SectionsNamed :
                /\ sec # NoSection => (findSection(sec) <=> sec \in HeadersIn(n))
                /\ \A name \in NamesGiven :
                      /\ HasName(sec, name) <=> Says(n, sec, name)
                      /\ HasName(sec, name) => TextOf(sec, name) = Saying(n, sec, name)

\* What a file asks for.  It is orderly if its sections are numbered as default.ini
\* demands, from 0 without a gap, are no more than there may be, and say what they must.
Tells(kind, i, name) == Says(Len(file), <<kind, i>>, name)
Telling(kind, i, name) == Saying(Len(file), <<kind, i>>, name)
Declared(kind) == {sec[2] : sec \in {h \in HeadersIn(Len(file)) : h[1] = kind}}
Asked(kind, i, name) == Value(Names[kind][name], Telling(kind, i, name))

TellsAll(kind, i) ==
    \A name \in DOMAIN Names[kind] :
        IF Tells(kind, i, name)
        THEN Accepts(Names[kind][name], Telling(kind, i, name))
        ELSE kind = "gate" /\ name = "addr" /\ Telling(kind, i, "gate_type") = Word("m4")

Orderly ==
    \A kind \in DOMAIN Names :
        /\ \E n \in 0 .. Limit[kind] : Declared(kind) = 0 .. (n - 1)
        /\ \A i \in Declared(kind) : TellsAll(kind, i)

GateOfParam(p) ==
    LET d == Asked("param", p, "device_id")
    IN  IF TellsAll("param", p) /\ d \in Declared("device") /\ TellsAll("device", d)
        THEN Asked("device", d, "gate_id")
        ELSE -1
ParamsOf(g) == {p \in Declared("param") : GateOfParam(p) = g}

Startable ==
    /\ Orderly
    /\ IF program = "ttyg" THEN Declared("ttyg") # {}
       ELSE Declared("common") # {} /\ Declared("gate") # {}
    /\ program = "client" =>
          /\ ParamsOf(-1) = {}
          /\ \A g \in Declared("gate") : ParamsOf(g) # {}

AsAsked(part, kind) ==
    /\ TellsAll(kind, part.id)
    /\ \A name \in DOMAIN Names[kind] :
          Tells(kind, part.id, name) => part.val[name] = Asked(kind, part.id, name)

\* A file that asks for something the program can do is accepted, in whatever order it
\* stands; and a gateway that runs has the gates of the file, each with the parameters
\* whose device names it, every one once and as the file has it.  Of a file that is not
\* orderly some may be missing, but none is made up.
StartsAsWritten ==
    /\ mode \in {"error", "exit"} => file = NoFile \/ ~Startable
    /\ mode = "run" =>
          \A k \in DOMAIN storages :
              LET gate == storages[k].gate
                  items == storages[k].items
                  polled == {items[j].param.id : j \in DOMAIN items}
              IN  /\ gate.id = k - 1 /\ AsAsked(gate, "gate")
                  /\ \A i, j \in DOMAIN items : i < j => items[i].param.id < items[j].param.id
                  /\ polled # {} /\ polled \subseteq ParamsOf(gate.id)
                  /\ Orderly => polled = ParamsOf(gate.id)
                  /\ \A j \in DOMAIN items :
                        /\ AsAsked(items[j].param, "param")
                        /\ AsAsked(items[j].device, "device")
                        /\ items[j].device.id = items[j].param.val.device_id
    /\ mode = "run" /\ program = "client" /\ Orderly =>
          {storages[k].gate.id : k \in DOMAIN storages} = Declared("gate")
===============================================================================
