------------------------------ MODULE MC_Desan ------------------------------
(***************************************************************************)
(* Model of the analysis core for TLC: every LLVM module of two functions *)
(* f and h, both taking a pointer %p, whose bodies hold MaxTotal           *)
(* instructions or fewer between them, over the pointer %p, a global @g   *)
(* and the results of earlier loads and getelementptrs.                   *)
(***************************************************************************)
EXTENDS Desan

MaxTotal == 3

MCParams       == {"%p"}
MCGlobals      == {"@g"}
MCSanGlobals   == {"@__asan_option"}
MCSanCallees   == {"__asan_load4"}
MCPlainCallees == {"foo"}
MCMaxInstrs    == MaxTotal

(* The instructions that may stand at slot k of a body.                   *)
Pointer(k) == MCParams \cup MCGlobals \cup {SlotRef(i) : i \in 1..(k - 1)}

InstrAt(k) ==
    {[op |-> "store", ptr |-> v, callee |-> NoValue, args |-> <<>>] : v \in Pointer(k)}
    \cup {[op |-> o, ptr |-> v, callee |-> NoValue, args |-> <<>>] :
            o \in {"load", "getelementptr"}, v \in Pointer(k)}
    \cup {[op |-> "call", ptr |-> NoValue, callee |-> c, args |-> a] :
            c \in MCSanCallees,
            a \in {<<v>> : v \in Pointer(k)}
                  \cup {vw \in Pointer(k) \X Pointer(k) : vw[1] # vw[2]}}
    \cup {[op |-> "call", ptr |-> NoValue, callee |-> c, args |-> <<g>>] :
            c \in MCPlainCallees, g \in MCSanGlobals}
    \cup {[op |-> "other", ptr |-> NoValue, callee |-> NoValue, args |-> <<>>]}

(* A result is used only when it is the result of a load or a gep.        *)
UsesPointers(body) ==
    \A k \in DOMAIN body :
        \A v \in ({body[k].ptr} \cup Range(body[k].args)) \cap Slots :
            body[CHOOSE i \in DOMAIN body : SlotRef(i) = v].op \in {"load", "getelementptr"}

BodiesOf(n) ==
    {b \in [1..n -> UNION {InstrAt(k) : k \in 1..n}] :
        /\ \A k \in 1..n : b[k] \in InstrAt(k)
        /\ UsesPointers(b)}

MCPrograms ==
    {<<[name |-> "f", body |-> bf], [name |-> "h", body |-> bh]>> :
        <<bf, bh>> \in UNION {BodiesOf(m) \X BodiesOf(n) :
                                <<m, n>> \in {<<m, n>> \in (0..MaxTotal) \X (0..MaxTotal) :
                                                 m + n \in 1..MaxTotal}}}

(***************************************************************************)
(* Modules in which f calls h, which the module defines, on %p; h's body  *)
(* is any body of one or two instructions.                                *)
(***************************************************************************)
MCDefinedCallees == MCPlainCallees \cup {"h"}

CallH == [op |-> "call", ptr |-> NoValue, callee |-> "h", args |-> <<"%p">>]

MCCallingPrograms ==
    {<<[name |-> "f", body |-> <<CallH>>], [name |-> "h", body |-> bh]>> :
        bh \in BodiesOf(1) \cup BodiesOf(2)}

=============================================================================
