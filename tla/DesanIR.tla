------------------------------ MODULE DesanIR ------------------------------
(***************************************************************************)
(* The LLVM module that the analysis reads, as llvmlite hands it to        *)
(* alias_analysis.py, sanitizer.py and dependency.py, and the textual form *)
(* that redundancy.py scans line by line.                                  *)
(*                                                                         *)
(* A module is a sequence of functions; a function is a name and a body,  *)
(* the instructions of its basic blocks in program order (the passes only *)
(* ever walk blocks in order, so the block boundaries are dropped).  An   *)
(* instruction keeps only the operands the passes read.  Values are       *)
(* identified, as in the code, by the text that str() renders for them.   *)
(***************************************************************************)
EXTENDS Integers, Sequences, SequencesExt, TLC

CONSTANTS
    Params,        \* parameter references ("%p"); every function has them
    Globals,       \* global references ("@g")
    SanGlobals,    \* globals whose name carries a sanitizer fragment
                   \* ("@__asan_option_detect_stack_use_after_return")
    SanCallees,    \* callees whose text contains one of SANITIZER_PREFIXES
    PlainCallees,  \* callees whose text contains none of them
    MaxInstrs      \* longest function body

ASSUME MaxInstrs \in Nat \ {0}

NoValue == ""

(* The short reference "%k" by which instruction k's result is used.      *)
SlotRef(k) == "%" \o ToString(k)

Slots == {SlotRef(k) : k \in 1..MaxInstrs}

Operands == Params \cup Globals \cup SanGlobals \cup Slots

(***************************************************************************)
(* An instruction: its opcode, the pointer operand the passes read (the   *)
(* destination operands[1] of a store, the source operands[0] of a        *)
(* load/conversion or getelementptr), and for a call the callee and the   *)
(* arguments operands[:-1].  "load" stands for the whole group load,      *)
(* bitcast, inttoptr, ptrtoint, which build_alias_graph treats alike.     *)
(***************************************************************************)
Opcodes == {"store", "load", "getelementptr", "call", "other"}

Instrs ==
    [op : Opcodes, ptr : Operands \cup {NoValue},
     callee : SanCallees \cup PlainCallees \cup {NoValue},
     args : Seq(Operands)]

(***************************************************************************)
(* sanitizer.py is_sanitizer_function: a callee is a sanitizer entry      *)
(* point when its text contains one of SANITIZER_PREFIXES; SanCallees are *)
(* exactly those texts.                                                    *)
(***************************************************************************)
IsSanitizerFunction(callee) == callee \in SanCallees

(***************************************************************************)
(* str() of an instruction: llvmlite prints the instruction's own text,   *)
(* "%k = <opcode> ..., <operand reference>".  It names neither the        *)
(* function nor the block, so equal instructions at the same slot of two  *)
(* functions print the same text.                                         *)
(***************************************************************************)
InstrStr(body, k) == <<body[k].op, body[k].ptr, k>>

(***************************************************************************)
(* str() of an operand used in body: a parameter prints as its            *)
(* declaration ("ptr %p"), a global as its definition, a result as the    *)
(* text of the instruction that defines it.                               *)
(***************************************************************************)
Str(body, v) ==
    CASE v \in Params                -> <<"arg", v>>
      [] v \in Globals \cup SanGlobals -> <<"global", v>>
      [] OTHER -> InstrStr(body, CHOOSE k \in DOMAIN body : SlotRef(k) = v)

ValueTexts ==
    {<<"arg", v>> : v \in Params}
    \cup {<<"global", v>> : v \in Globals \cup SanGlobals}
    \cup ({"load", "getelementptr"} \X Operands \X (1..MaxInstrs))

(* alias_analysis.py Pointer: a value's text and its is_write tag.       *)
Pointers == ValueTexts \X BOOLEAN

(***************************************************************************)
(* The textual IR that optimize_ir_text scans: each function is a         *)
(* "define" line followed by one line per instruction.  A line counts as  *)
(* a sanitizer call when it contains "call" and a sanitizer fragment:     *)
(* the callee's name or the name of an argument may carry the fragment.   *)
(* Labels, braces, declarations and metadata are lines that match neither *)
(* test and pass through unchanged; they are left out.                    *)
(***************************************************************************)
IsSanLine(ins) ==
    /\ ins.op = "call"
    /\ \/ IsSanitizerFunction(ins.callee)
       \/ \E i \in DOMAIN ins.args : ins.args[i] \in SanGlobals

=============================================================================
