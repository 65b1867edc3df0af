-------------------------- MODULE MC_CallSummaries --------------------------
(***************************************************************************)
(* Modules of two defined functions f and h (parameter %p) with up to     *)
(* MaxTotal instructions between them, a global @g, a declared malloc and *)
(* a global alias @a of h.  A call goes to h, malloc, the alias, or       *)
(* through a pointer held in a register.                                  *)
(***************************************************************************)
EXTENDS CallSummaries

MaxTotal == 3

MCExternals == {"malloc"}
MCAliasOf   == "a" :> "h"
MCParams    == {"%p"}
MCGlobals   == {"@g"}

PtrOps == {"alloca", "load", "bitcast", "getelementptr", "call"}

(* The instructions at slot k of a body of n, whose register operands    *)
(* are the slots in Refs.                                                 *)
InstrAt(Refs) ==
    LET ptrs == MCParams \cup MCGlobals \cup {SlotRef(i) : i \in Refs} IN
    {[op |-> "alloca", ptr |-> NoValue, callee |-> NoValue],
     [op |-> "other", ptr |-> NoValue, callee |-> NoValue]}
    \cup {[op |-> o, ptr |-> v, callee |-> NoValue] :
            o \in {"store", "load", "bitcast", "getelementptr"}, v \in ptrs}
    \cup {[op |-> "call", ptr |-> NoValue, callee |-> c] :
            c \in {"h", "malloc", "a"} \cup {SlotRef(i) : i \in Refs}}

(* A register operand is the result of an instruction that yields one.   *)
Operand(ins) == IF ins.op = "call" THEN ins.callee ELSE ins.ptr

WellTyped(b) ==
    \A k, i \in DOMAIN b : Operand(b[k]) = SlotRef(i) => b[i].op \in PtrOps

(* Blocks laid out in dominance order: operands are earlier slots.       *)
InOrderBodies(n) ==
    {b \in [1..n -> UNION {InstrAt(1..(k - 1)) : k \in 1..n}] :
        (\A k \in 1..n : b[k] \in InstrAt(1..(k - 1))) /\ WellTyped(b)}

ProgramsOf(Bodies(_)) ==
    {<<[name |-> "f", body |-> bf], [name |-> "h", body |-> bh]>> :
        <<bf, bh>> \in UNION {Bodies(m) \X Bodies(n) :
                                <<m, n>> \in {mn \in (0..MaxTotal) \X (0..MaxTotal) :
                                                mn[1] + mn[2] \in 1..MaxTotal}}}

MCPrograms == ProgramsOf(InOrderBodies)

=============================================================================
