----------------------------- MODULE MC_Strategy -----------------------------
(***************************************************************************)
(* Every dict of two or three check subgraphs whose callees are an        *)
(* asan, msan or ubsan entry point and whose operands are drawn from two  *)
(* values x and y, whose alias sets are {x}, {y} or {x, y}; a caller that *)
(* ranks or selects twice on the same CheckNodes.                          *)
(***************************************************************************)
EXTENDS Strategy

MCMaxCalls == 2

MCCallees == {"__msan", "__asan", "__ubsan"}

(* An operand's OperandInfo: its alias set always holds the operand.      *)
Info(op) == {[is_write |-> w, alias_set |-> s] :
                w \in BOOLEAN, s \in {S \in SUBSET {"x", "y"} : op \in S}}

Details ==
    UNION {[{op} -> Info(op)] : op \in {"x", "y"}}
    \cup [{"x", "y"} -> {[is_write |-> FALSE, alias_set |-> {"x", "y"}]}]

Subgraph == [callee : MCCallees, details : Details]

MCInputs == UNION {[1..n -> Subgraph] : n \in 2..3}

=============================================================================
