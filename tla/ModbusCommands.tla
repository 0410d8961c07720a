---------------------------- MODULE ModbusCommands ----------------------------
(***************************************************************************)
(* The commands of ModbusServer.cpp as functions of the registers: what     *)
(* each leaves in them and what it answers.  A request is what parseAdu and *)
(* the readBe calls of the command get out of a frame; a multi-write        *)
(* carries the number of bytes it claims beside the values.                 *)
(***************************************************************************)
EXTENDS RegAccessor, Sequences

CONSTANTS ReadLimit,  \* 127: from this number on a read is refused
          WriteLimit  \* 124: the largest multi-write whose frame passes for valid

ASSUME CommandAssumption == ReadLimit \in Nat /\ WriteLimit \in Nat

\* Everything the commands look at.
IsRequest(r) ==
    \/ /\ r.fc = "read"
       /\ r.start \in Nat /\ r.num \in Nat
    \/ /\ r.fc = "write"
       /\ r.start \in Nat /\ r.val \in Word
    \/ /\ r.fc = "multi"
       /\ r.start \in Nat /\ r.num \in Nat /\ r.bytes \in Nat
       /\ r.vals \in [1 .. r.num -> Word]
    \/ r.fc = "other"

\* The requests of ModbusClient: execReadCmd, processWriteCmd, processMultiWriteCmd,
\* which writes the number of bytes into one byte.
ReadRequest(start, num) == [fc |-> "read", start |-> start, num |-> num]
WriteRequest(start, val) == [fc |-> "write", start |-> start, val |-> val]
MultiWriteRequest(start, vals) ==
    [fc |-> "multi", start |-> start, num |-> Len(vals), bytes |-> (Len(vals) * 2) % 256,
     vals |-> vals]

\* sendError
SendError(regs, err) == [regs |-> regs, ans |-> [fc |-> "error", err |-> err]]

-----------------------------------------------------------------------------
\* Operators named Bad... are faulty variants of the definition that follows them;
\* PROJECT.json (mutants) says which property notices each.

ReadCmd(regs, r) ==
    IF r.num >= ReadLimit THEN SendError(regs, "IllegalDataValue")
    ELSE IF r.start + r.num >= NumRegs THEN SendError(regs, "IllegalDataAddress")
    ELSE [regs |-> regs,
          ans |-> [fc |-> "read", data |-> [k \in 1 .. r.num |-> regs[r.start + k - 1]]]]

\* No look at the size.
BadWriteCmd(regs, r) ==
    [regs |-> [i \in Reg \cup {r.start} |-> IF i = r.start THEN r.val ELSE regs[i]],
     ans |-> [fc |-> "write", start |-> r.start, val |-> r.val]]

WriteCmd(regs, r) ==
    IF r.start >= NumRegs THEN SendError(regs, "IllegalDataAddress")
    ELSE [regs |-> [regs EXCEPT ![r.start] = r.val],
          ans |-> [fc |-> "write", start |-> r.start, val |-> r.val]]

\* The range is looked at after the first value has been stored.
BadMultiWriteCmd(regs, r) ==
    IF r.bytes # r.num * 2 THEN SendError(regs, "SlaveDeviceFailure")
    ELSE IF r.start + r.num >= NumRegs
         THEN SendError(IF r.num = 0 THEN regs ELSE [regs EXCEPT ![r.start] = r.vals[1]],
                        "IllegalDataAddress")
         ELSE [regs |-> [i \in Reg |-> IF i \in r.start .. (r.start + r.num - 1)
                                       THEN r.vals[i - r.start + 1]
                                       ELSE regs[i]],
               ans |-> [fc |-> "multi", start |-> r.start + r.num, num |-> r.num]]

\* startReg has moved on when it is answered.
MultiWriteCmd(regs, r) ==
    IF r.bytes # r.num * 2 THEN SendError(regs, "SlaveDeviceFailure")
    ELSE IF r.start + r.num >= NumRegs THEN SendError(regs, "IllegalDataAddress")
    ELSE [regs |-> [i \in Reg |-> IF i \in r.start .. (r.start + r.num - 1)
                                  THEN r.vals[i - r.start + 1]
                                  ELSE regs[i]],
          ans |-> [fc |-> "multi", start |-> r.start + r.num, num |-> r.num]]

ProcessAdu(regs, r) ==
    CASE r.fc = "read" -> ReadCmd(regs, r)
      [] r.fc = "write" -> WriteCmd(regs, r)
      [] r.fc = "multi" -> MultiWriteCmd(regs, r)
      [] OTHER -> SendError(regs, "IllegalFunction")

\* A frame the server takes for one: its length is below 256.
IsValid(r) == r.fc = "multi" => r.num <= WriteLimit
===============================================================================
