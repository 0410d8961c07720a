---------------------------- MODULE RegisterService ----------------------------
(***************************************************************************)
(* What the Modbus server promises its masters: a request takes effect at   *)
(* most once, as a whole or not at all, at one moment, and is answered with *)
(* the result of that moment.  A request whose master has lost its          *)
(* connection may still take effect, but never after a later one of the     *)
(* same master.  The gates store parameters at any time; the value of one   *)
(* changes only together with its status, which then is ready.              *)
(***************************************************************************)
EXTENDS Naturals, Sequences

CONSTANTS Master, NumRegs, Word, Request

Reg == 0 .. (NumRegs - 1)

VARIABLES regs,     \* the registers
          call,     \* the call of each master: Idle, Waiting or Answered
          orphans   \* requests whose master no longer waits

Idle == [stage |-> "idle"]
Waiting(r) == [stage |-> "waiting", req |-> r]
Answered(ok, data) == [stage |-> "answered", ok |-> ok, data |-> data]

Init ==
    /\ regs = [i \in Reg |-> 0]
    /\ call = [m \in Master |-> Idle]
    /\ orphans = [m \in Master |-> <<>>]

\* What a request does if it is performed, and what it yields.
Effect(r) ==
    CASE r.fc = "write" -> [regs EXCEPT ![r.start] = r.val]
      [] r.fc = "multi" -> [i \in Reg |-> IF i \in r.start .. (r.start + r.num - 1)
                                          THEN r.vals[i - r.start + 1]
                                          ELSE regs[i]]
      [] OTHER -> regs
Result(r) ==
    IF r.fc = "read" THEN [k \in 1 .. r.num |-> regs[r.start + k - 1]] ELSE <<>>

\* Could it be performed: do its registers exist.
Performable(r) ==
    \/ r.fc = "write" /\ r.start \in Reg
    \/ r.fc \in {"read", "multi"} /\ r.start + r.num <= NumRegs

Call(m, r) ==
    /\ call[m] = Idle
    /\ call' = [call EXCEPT ![m] = Waiting(r)]
    /\ UNCHANGED <<regs, orphans>>

\* Nothing older of this master is left when its call takes effect.
Perform(m) ==
    /\ call[m].stage = "waiting"
    /\ orphans[m] = <<>>
    /\ Performable(call[m].req)
    /\ regs' = Effect(call[m].req)
    /\ call' = [call EXCEPT ![m] = Answered(TRUE, Result(call[m].req))]
    /\ UNCHANGED orphans

Refuse(m) ==
    /\ call[m].stage = "waiting"
    /\ call' = [call EXCEPT ![m] = Answered(FALSE, <<>>)]
    /\ UNCHANGED <<regs, orphans>>

\* The master has its answer, or will never get one.
Finish(m) ==
    /\ call[m] # Idle
    /\ call' = [call EXCEPT ![m] = Idle]
    /\ UNCHANGED <<regs, orphans>>

Abandon(m) ==
    /\ call[m].stage = "waiting"
    /\ call' = [call EXCEPT ![m] = Idle]
    /\ orphans' = [orphans EXCEPT ![m] = Append(@, call[m].req)]
    /\ UNCHANGED regs

EndOrphan(m) ==
    /\ orphans[m] # <<>>
    /\ orphans' = [orphans EXCEPT ![m] = Tail(@)]
    /\ \/ regs' = regs
       \/ Performable(Head(orphans[m])) /\ regs' = Effect(Head(orphans[m]))
    /\ UNCHANGED call

\* Parameter p has the registers from 4 * p on, the third of them is its status; 3 says
\* that the value is current.
GateStores ==
    /\ regs' \in [Reg -> Word]
    /\ \E p \in 0 .. (NumRegs \div 4) : \A i \in Reg : regs'[i] # regs[i] =>
          \/ i = 4 * p + 2
          \/ i \in {4 * p, 4 * p + 1} /\ 4 * p + 2 \in Reg /\ regs'[4 * p + 2] = 3
    /\ UNCHANGED <<call, orphans>>

Next ==
    \/ \E m \in Master : \/ \E r \in Request : Call(m, r)
                         \/ Perform(m) \/ Refuse(m) \/ Finish(m) \/ Abandon(m) \/ EndOrphan(m)
    \/ GateStores

Spec == Init /\ [][Next]_<<regs, call, orphans>>
===============================================================================
