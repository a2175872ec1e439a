---------------------------- MODULE MCVirexSession ----------------------------
(***************************************************************************)
(* The instance of VirexSession that TLC checks: two file names and five    *)
(* images, for the five ways a run may go on from what another has left.   *)
(***************************************************************************)
EXTENDS VirexSession

CONSTANTS f1, f2

I0(op) == [op |-> op, operand |-> 0, operand2 |-> 0, opr1IsReg |-> FALSE, opr2IsReg |-> FALSE]
I1(op, x) == [I0(op) EXCEPT !.operand = x]

\* Leaves a word on the stack, so that the third run finds it full.
Leaves == [entry |-> 1, insts |-> <<I0("DONOP"), I1("PUSH", 1), I0("SHUTS")>>, data |-> <<>>]
\* Stores into its own data, so that a later run finds it changed unless it loads it.
StoresData == [entry |-> 0, insts |-> <<I1("PUSH", 1), I1("PUSH", 0), I0("WRITE1"), I0("SHUTS")>>,
           data |-> <<1, 1>>]
\* Never shuts down.
Circles == [entry |-> 0, insts |-> <<I1("JMPU", 0)>>, data |-> <<>>]
\* Runs past its end.
Overshoots == [entry |-> 0, insts |-> <<I0("DONOP")>>, data |-> <<>>]

\* Sets META_HALT by storing into the flags behind the last register.
Halts == [entry |-> 0, insts |-> <<[I1("SETR", 1) EXCEPT !.operand2 = REG_COUNT], I1("JMPU", 0)>>,
          data |-> <<>>]

MCImages == {Leaves, StoresData, Circles, Overshoots, Halts}
MCPrograms == {i.insts : i \in MCImages}
MCPath == {f1, f2}
MCLimits == {-1, 1}
\* The two names play the same part.
Names == {[p \in MCPath |-> p], [p \in MCPath |-> IF p = f1 THEN f2 ELSE f1]}
=============================================================================
