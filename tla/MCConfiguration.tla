---------------------------- MODULE MCConfiguration ----------------------------
(***************************************************************************)
(* Files for two gates, two devices and two parameters: an orderly one, the *)
(* same with its sections in other places or taken apart, and every file    *)
(* that comes of it when a line is lost or one line too many is written.    *)
(***************************************************************************)
EXTENDS Configuration, SequencesExt

Home == Ip(<<127, 0, 0, 1, 9999>>)

Ttyg == <<Header("ttyg", 0), Setting("ip_addr", Home), Setting("port", Word("/dev/rs485")),
          Setting("speed", Dec(9600)), Setting("block", Word("off")),
          Setting("rts_cts", Word("off")), Setting("bits", Dec(8)),
          Setting("stop_bits", Dec(1)), Setting("parity", Word("none")),
          Setting("start_rx_timeout", Dec(500)), Setting("end_rx_timeout", Dec(1000))>>
Common == <<Header("common", 0), Setting("modbus_addr", Home)>>
SpsGate(i) == <<Header("gate", i), Setting("gate_type", Word("sps")), Setting("gate_addr", Home),
                Setting("addr", Hex(128)), Setting("request_periodicity", Dec(1000)),
                Setting("request_timeout", Dec(10000))>>
M4Gate(i) == <<Header("gate", i), Setting("gate_type", Word("m4")), Setting("gate_addr", Home),
               Setting("request_periodicity", Dec(50)), Setting("request_timeout", Dec(65535))>>
Device(i, gate) == <<Header("device", i), Setting("gate_id", Dec(gate)), Setting("addr", Hex(i))>>
Param(i, device) == <<Header("param", i), Setting("device_id", Dec(device)),
                      Setting("func", Hex(29)), Setting("chan", Dec(1)),
                      Setting("addr", Dec(150 + i)), Setting("type", Word("fixed"))>>

\* The first parameter is on the second device, and the device on the first gate.
Sections == <<Common, SpsGate(0), M4Gate(1), Device(0, 1), Device(1, 0),
              Param(0, 1), Param(1, 0), Param(2, 1)>>
Base == FlattenSeq(Sections)

\* The sections in other orders, with [ttyg], and each taken apart in the middle.
Arranged ==
    {FlattenSeq(Reverse(Sections)), Ttyg \o Base, FlattenSeq(Tail(Sections)) \o Common, Ttyg}
    \cup {FlattenSeq(SelectSeq(Sections, LAMBDA s : s[1] # Sections[k][1])) \o Sections[k]
             : k \in DOMAIN Sections}
Apart ==
    {LET head == SubSeq(Sections[k], 1, 2)
         rest == <<Head(Sections[k])>> \o SubSeq(Sections[k], 3, Len(Sections[k]))
     IN  rest \o FlattenSeq(SelectSeq(Sections, LAMBDA s : s[1] # Sections[k][1])) \o <<Comment>> \o head
        : k \in DOMAIN Sections}

Lost == {RemoveAt(Base, k) : k \in DOMAIN Base}

\* Lines somebody may add: a header that is there, or too many, or none at all; a name
\* again, with a better or a worse text; a comment in the manner of default.ini.
Lines == {Header("common", 0), Header("gate", 0), Header("gate", 2), Header("device", 1),
          Header("param", 3), Header("", 0),
          Setting("gate_type", Word("m4")), Setting("gate_addr", Ip(<<127, 0, 0, 256, 1>>)),
          Setting("addr", Dec(7)), Setting("addr", Word("x")), Setting("gate_id", Dec(0)),
          Setting("gate_id", Dec(5)), Setting("device_id", Dec(0)), Setting("device_id", Dec(-1)),
          Setting("request_periodicity", Dec(49)), Setting("request_timeout", Hex(65535)),
          Setting("request_timeout", Trailed(65535)), Setting("type", Word("real ")),
          Setting(";", Home), Comment}
Added == {InsertAt(Base, k, line) : k \in 1 .. (Len(Base) + 1), line \in Lines}

Starts == [program : {"client"}, file : {Base, NoFile} \cup Arranged \cup Apart \cup Lost \cup Added]
          \cup [program : {"emulation"}, file : {NoFile} \cup Arranged \cup Lost]
          \cup [program : {"ttyg"},
                file : {Base, NoFile} \cup Arranged \cup {RemoveAt(Ttyg, k) : k \in DOMAIN Ttyg}
                       \cup {Ttyg \o <<line>> : line \in Lines}]
===============================================================================
