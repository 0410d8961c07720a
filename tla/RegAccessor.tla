------------------------------ MODULE RegAccessor ------------------------------
(***************************************************************************)
(* The register file (Buffer.hpp), and how a gate stores a parameter in it: *)
(* four registers each, the two words of the value, the status, and one     *)
(* that is never written.  The value has its words swapped before it comes  *)
(* here (FloatWords!reverse).                                                *)
(***************************************************************************)
EXTENDS Naturals

CONSTANTS NumRegs,    \* size of the register file, 16384 in the program
          Word        \* contents of a register

regsPerParam == 4
paramStatusOffset == 2

\* RegAccessor::Status
undef == 0
timeout == 1
invalid == 2
ready == 3
Status == {undef, timeout, invalid, ready}

ASSUME RegisterAssumption == NumRegs \in Nat \ {0} /\ {undef, ready} \subseteq Word

Reg == 0 .. (NumRegs - 1)
Registers == [Reg -> Word]

FirstReg(param) == param * regsPerParam
StatusReg(param) == FirstReg(param) + paramStatusOffset

\* The status is the last register that is written.
validateParamId(param) == StatusReg(param) < NumRegs

\* memcpy over two registers, and the status.
setValue(regs, param, val) ==
    IF validateParamId(param)
    THEN [regs EXCEPT ![FirstReg(param)] = val[1], ![FirstReg(param) + 1] = val[2],
                      ![StatusReg(param)] = ready]
    ELSE regs

setStatus(regs, param, st) ==
    IF validateParamId(param) THEN [regs EXCEPT ![StatusReg(param)] = st] ELSE regs
===============================================================================
