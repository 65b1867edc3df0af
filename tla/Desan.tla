------------------------------- MODULE Desan -------------------------------
(***************************************************************************)
(* The analysis and rewriting core of DESAN, one pass after the other as  *)
(* SubgraphBuilder and RedundancyAnalyzer.optimize_ir_file run them:      *)
(*                                                                         *)
(*   "graph"     build_alias_graph        (alias_analysis.py)             *)
(*   "calls"     find_sanitizer_calls     (sanitizer.py)                  *)
(*   "subgraphs" SubgraphBuilder.build_all (dependency.py)                *)
(*   "analyze"   RedundancyAnalyzer.analyze                               *)
(*   "rewrite"   RedundancyAnalyzer.optimize_ir_text (redundancy.py)      *)
(*                                                                         *)
(* Every loop iteration of a pass is one step.  The module under analysis *)
(* is chosen in Init from Programs and never changes.                     *)
(***************************************************************************)
EXTENDS DesanIR, FiniteSets

CONSTANT Programs   \* the LLVM modules the analysis may be handed

VARIABLES
    prog,       \* the module under analysis
    phase,      \* the pass that is running
    pos,        \* loop cursor of the running pass
    nodes,      \* AliasGraph.nodes: a set of Pointers
    edges,      \* AliasGraph.edges, as the set of <<src, dst>> pairs
    calls,      \* find_sanitizer_calls's list of SanitizerCall
    subgraphs,  \* build_all's dict of CheckSubgraph, in insertion order
    ai, aj,     \* analyze's loop indices i and j (1-based)
    redundant,  \* analyze's set of redundant keys
    curFunc,    \* optimize_ir_text's current_func
    callCount,  \* optimize_ir_text's call_count
    out         \* optimize_ir_text's optimized_lines, as line numbers

vars == <<prog, phase, pos, nodes, edges, calls, subgraphs, ai, aj,
          redundant, curFunc, callCount, out>>

(***************************************************************************)
(* Walking the module: module.functions, then func.basic_blocks, then     *)
(* block.instructions, flattened to the positions <<function, slot>>.     *)
(***************************************************************************)
Flat ==
    FlattenSeq([fi \in DOMAIN prog |->
                  [k \in DOMAIN prog[fi].body |-> <<fi, k>>]])

Body(p)  == prog[p[1]].body
Instr(p) == prog[p[1]].body[p[2]]

(* The lines of the textual IR: <<fi, 0>> is function fi's define line.  *)
Lines ==
    FlattenSeq([fi \in DOMAIN prog |->
                  [k \in 1..(Len(prog[fi].body) + 1) |-> <<fi, k - 1>>]])

-----------------------------------------------------------------------------
(***************************************************************************)
(* build_alias_graph.  A store tags its destination as written; a load or *)
(* conversion, and a getelementptr, add the edge operand -> result        *)
(* between untagged nodes (add_edge adds both ends); any other opcode is  *)
(* ignored.                                                               *)
(***************************************************************************)
GraphStep ==
    /\ phase = "graph"
    /\ pos <= Len(Flat)
    /\ pos' = pos + 1

GraphStore ==
    /\ GraphStep
    /\ LET p == Flat[pos] IN
        /\ Instr(p).op = "store"
        /\ nodes' = nodes \cup {<<Str(Body(p), Instr(p).ptr), TRUE>>}
        /\ UNCHANGED <<prog, phase, edges, calls, subgraphs, ai, aj,
                       redundant, curFunc, callCount, out>>

DeriveEdge(p) ==
    <<<<Str(Body(p), Instr(p).ptr), FALSE>>, <<InstrStr(Body(p), p[2]), FALSE>>>>

GraphDerive ==
    /\ GraphStep
    /\ LET p == Flat[pos] IN
        /\ Instr(p).op \in {"load", "getelementptr"}
        /\ nodes' = nodes \cup {DeriveEdge(p)[1], DeriveEdge(p)[2]}
        /\ edges' = edges \cup {DeriveEdge(p)}
        /\ UNCHANGED <<prog, phase, calls, subgraphs, ai, aj,
                       redundant, curFunc, callCount, out>>

GraphIgnore ==
    /\ GraphStep
    /\ LET p == Flat[pos] IN
        /\ Instr(p).op \notin {"store", "load", "getelementptr"}
        /\ UNCHANGED <<prog, phase, nodes, edges, calls, subgraphs, ai, aj,
                       redundant, curFunc, callCount, out>>

FinishGraph ==
    /\ phase = "graph"
    /\ pos > Len(Flat)
    /\ phase' = "calls"
    /\ pos' = 1
    /\ UNCHANGED <<prog, nodes, edges, calls, subgraphs, ai, aj,
                   redundant, curFunc, callCount, out>>

-----------------------------------------------------------------------------
(***************************************************************************)
(* find_sanitizer_calls: a call whose callee is a sanitizer entry point   *)
(* is recorded with its function's name and str() of every argument.      *)
(***************************************************************************)
CallStep ==
    /\ phase = "calls"
    /\ pos <= Len(Flat)
    /\ pos' = pos + 1

SanitizerCallAt(p) ==
    [function |-> prog[p[1]].name,
     callee   |-> Instr(p).callee,
     operands |-> [i \in DOMAIN Instr(p).args |-> Str(Body(p), Instr(p).args[i])]]

(***************************************************************************)
(* is_sanitizer_function(str(instr.operands[-1])): str() of a callee the  *)
(* module defines prints its whole definition, body included, so the test *)
(* also holds when some line of the callee's body mentions a sanitizer    *)
(* fragment: a sanitizer callee, or a sanitizer-named global as pointer   *)
(* or argument.                                                           *)
(***************************************************************************)
MentionsFragment(ins) ==
    \/ IsSanitizerFunction(ins.callee)
    \/ ({ins.ptr} \cup Range(ins.args)) \cap SanGlobals # {}

CalleeIsSanitizer(c) ==
    \/ IsSanitizerFunction(c)
    \/ \E fi \in DOMAIN prog :
          /\ prog[fi].name = c
          /\ \E k \in DOMAIN prog[fi].body : MentionsFragment(prog[fi].body[k])

CallRecord ==
    /\ CallStep
    /\ LET p == Flat[pos] IN
        /\ Instr(p).op = "call"
        /\ CalleeIsSanitizer(Instr(p).callee)
        /\ calls' = Append(calls, SanitizerCallAt(p))
        /\ UNCHANGED <<prog, phase, nodes, edges, subgraphs, ai, aj,
                       redundant, curFunc, callCount, out>>

CallSkip ==
    /\ CallStep
    /\ LET p == Flat[pos] IN
        /\ ~(Instr(p).op = "call" /\ CalleeIsSanitizer(Instr(p).callee))
        /\ UNCHANGED <<prog, phase, nodes, edges, calls, subgraphs, ai, aj,
                       redundant, curFunc, callCount, out>>

FinishCalls ==
    /\ phase = "calls"
    /\ pos > Len(Flat)
    /\ phase' = "subgraphs"
    /\ pos' = 1
    /\ UNCHANGED <<prog, nodes, edges, calls, subgraphs, ai, aj,
                   redundant, curFunc, callCount, out>>

-----------------------------------------------------------------------------
(***************************************************************************)
(* AliasGraph.get_aliases: the nodes reachable from node along outgoing   *)
(* edges, node included (the loop itself is checked in GetAliases.tla).   *)
(***************************************************************************)
RECURSIVE Closure(_)
Closure(S) ==
    LET S2 == S \cup {e[2] : e \in {d \in edges : d[1] \in S}}
    IN  IF S2 = S THEN S ELSE Closure(S2)

(* A slip in the loop (visited seeded with node) returns node alone.      *)
GetAliasesUnexpanded(node) == {node}

GetAliases(node) == Closure({node})

(* SubgraphBuilder.build_for_call's OperandInfo for one operand.          *)
OperandInfo(op) ==
    LET alias_nodes == GetAliases(<<op, FALSE>>)
    IN  [is_write  |-> \E n \in alias_nodes : n[2],
         alias_set |-> {n[1] : n \in alias_nodes}]

(***************************************************************************)
(* build_all: the idx-th call (counted from 0 over the whole module) gets *)
(* the key f"{call.function}:call{idx}", written here <<function, idx>>.  *)
(***************************************************************************)
(* enumerate(self.calls, start=1) would number the keys from 1.           *)
SubgraphKeyFromOne(call, idx) == <<call.function, idx + 1>>

SubgraphKey(call, idx) == <<call.function, idx>>

BuildSubgraph ==
    /\ phase = "subgraphs"
    /\ pos <= Len(calls)
    /\ LET call == calls[pos]
       IN  subgraphs' = Append(subgraphs,
              [key      |-> SubgraphKey(call, pos - 1),
               function |-> call.function,
               callee   |-> call.callee,
               operands |-> call.operands,
               details  |-> [op \in Range(call.operands) |-> OperandInfo(op)]])
    /\ pos' = pos + 1
    /\ UNCHANGED <<prog, phase, nodes, edges, calls, ai, aj,
                   redundant, curFunc, callCount, out>>

FinishSubgraphs ==
    /\ phase = "subgraphs"
    /\ pos > Len(calls)
    /\ phase' = "analyze"
    /\ ai' = 1
    /\ aj' = 2
    /\ UNCHANGED <<prog, pos, nodes, edges, calls, subgraphs,
                   redundant, curFunc, callCount, out>>


-----------------------------------------------------------------------------
(***************************************************************************)
(* RedundancyAnalyzer.is_redundant_pair: never when an operand of either  *)
(* check is written, else when an alias set of a shares a name with one   *)
(* of b's.                                                                *)
(***************************************************************************)
IsRedundantPair(a, b) ==
    /\ ~\E op \in DOMAIN a.details : a.details[op].is_write
    /\ ~\E op \in DOMAIN b.details : b.details[op].is_write
    /\ \E oa \in DOMAIN a.details, ob \in DOMAIN b.details :
          a.details[oa].alias_set \cap b.details[ob].alias_set # {}

(***************************************************************************)
(* analyze: for i < j in insertion order, a j already marked is skipped,  *)
(* otherwise j is marked when is_redundant_pair(i, j).  Every pair is one *)
(* step; NextPair is the order of the two nested range loops.             *)
(***************************************************************************)
NextPair ==
    /\ ai' = IF aj < Len(subgraphs) THEN ai ELSE ai + 1
    /\ aj' = IF aj < Len(subgraphs) THEN aj + 1 ELSE ai + 2

AnalyzeStep ==
    /\ phase = "analyze"
    /\ aj <= Len(subgraphs)
    /\ NextPair

AnalyzeSkip ==
    /\ AnalyzeStep
    /\ subgraphs[aj].key \in redundant
    /\ UNCHANGED <<prog, phase, pos, nodes, edges, calls, subgraphs,
                   redundant, curFunc, callCount, out>>

AnalyzeMark ==
    /\ AnalyzeStep
    /\ subgraphs[aj].key \notin redundant
    /\ IsRedundantPair(subgraphs[ai], subgraphs[aj])
    /\ redundant' = redundant \cup {subgraphs[aj].key}
    /\ UNCHANGED <<prog, phase, pos, nodes, edges, calls, subgraphs,
                   curFunc, callCount, out>>

AnalyzeKeep ==
    /\ AnalyzeStep
    /\ subgraphs[aj].key \notin redundant
    /\ ~IsRedundantPair(subgraphs[ai], subgraphs[aj])
    /\ UNCHANGED <<prog, phase, pos, nodes, edges, calls, subgraphs,
                   redundant, curFunc, callCount, out>>

(* optimize_ir_file hands the result of analyze to optimize_ir_text.      *)
FinishAnalyze ==
    /\ phase = "analyze"
    /\ aj > Len(subgraphs)
    /\ phase' = "rewrite"
    /\ pos' = 1
    /\ curFunc' = ""
    /\ callCount' = 0
    /\ out' = <<>>
    /\ UNCHANGED <<prog, nodes, edges, calls, subgraphs, ai, aj, redundant>>

-----------------------------------------------------------------------------
(***************************************************************************)
(* optimize_ir_text.  A define line sets current_func to its first token  *)
(* starting with "@": for "define void @f(ptr %p) {" that is "@f(ptr".    *)
(***************************************************************************)
(* Parsing the define line down to the bare name, as func.name gives it. *)
DefineTokenAsName(f) == f

DefineToken(f) == "@" \o f \o "(ptr"

RewriteStep ==
    /\ phase = "rewrite"
    /\ pos <= Len(Lines)
    /\ pos' = pos + 1

LineInstr == Instr(Lines[pos])

RewriteDefine ==
    /\ RewriteStep
    /\ Lines[pos][2] = 0
    /\ curFunc' = DefineToken(prog[Lines[pos][1]].name)
    /\ callCount' = 0
    /\ out' = Append(out, pos)
    /\ UNCHANGED <<prog, phase, nodes, edges, calls, subgraphs, ai, aj,
                   redundant>>

(* A sanitizer-call line is dropped when its key <<current_func,          *)
(* call_count>> is redundant; the counter advances either way.            *)
RewriteSanCall ==
    /\ RewriteStep
    /\ Lines[pos][2] # 0
    /\ IsSanLine(LineInstr)
    /\ callCount' = callCount + 1
    /\ out' = IF <<curFunc, callCount>> \in redundant THEN out
              ELSE Append(out, pos)
    /\ UNCHANGED <<prog, phase, nodes, edges, calls, subgraphs, ai, aj,
                   redundant, curFunc>>

RewritePass ==
    /\ RewriteStep
    /\ Lines[pos][2] # 0
    /\ ~IsSanLine(LineInstr)
    /\ out' = Append(out, pos)
    /\ UNCHANGED <<prog, phase, nodes, edges, calls, subgraphs, ai, aj,
                   redundant, curFunc, callCount>>

FinishRewrite ==
    /\ phase = "rewrite"
    /\ pos > Len(Lines)
    /\ phase' = "done"
    /\ UNCHANGED <<prog, pos, nodes, edges, calls, subgraphs, ai, aj,
                   redundant, curFunc, callCount, out>>

(* The pipeline has written the optimized IR and stops.                  *)
Terminated ==
    /\ phase = "done"
    /\ UNCHANGED vars

-----------------------------------------------------------------------------
Init ==
    /\ prog \in Programs
    /\ phase = "graph"
    /\ pos = 1
    /\ nodes = {}
    /\ edges = {}
    /\ calls = <<>>
    /\ subgraphs = <<>>
    /\ ai = 1
    /\ aj = 2
    /\ redundant = {}
    /\ curFunc = ""
    /\ callCount = 0
    /\ out = <<>>

Next ==
    \/ GraphStore \/ GraphDerive \/ GraphIgnore \/ FinishGraph
    \/ CallRecord \/ CallSkip \/ FinishCalls
    \/ BuildSubgraph \/ FinishSubgraphs
    \/ AnalyzeSkip \/ AnalyzeMark \/ AnalyzeKeep \/ FinishAnalyze
    \/ RewriteDefine \/ RewriteSanCall \/ RewritePass
    \/ FinishRewrite
    \/ Terminated

(* Every pass is a plain sequential loop: it keeps running until done.   *)
Spec == Init /\ [][Next]_vars /\ WF_vars(Next)


-----------------------------------------------------------------------------
(***************************************************************************)
(*                              Properties                                 *)
(***************************************************************************)
Phases == {"graph", "calls", "subgraphs", "analyze", "rewrite", "done"}

Keys == {f.name : f \in Range(prog)} \X (0..(MaxInstrs - 1))

TypeOK ==
    /\ phase \in Phases
    /\ pos \in 1..(Len(Lines) + 1)
    /\ nodes \subseteq Pointers
    /\ edges \subseteq nodes \X nodes
    /\ calls \in Seq([function : {f.name : f \in Range(prog)},
                      callee : SanCallees \cup PlainCallees, operands : Seq(ValueTexts)])
    /\ \A j \in DOMAIN subgraphs : subgraphs[j].key \in Keys
    /\ redundant \subseteq {subgraphs[j].key : j \in DOMAIN subgraphs}
    /\ ai \in 1..(MaxInstrs + 1) /\ aj \in 2..(MaxInstrs + 2)
    /\ curFunc \in {""} \cup {DefineToken(f.name) : f \in Range(prog)}
    /\ callCount \in 0..MaxInstrs
    /\ out \in Seq(1..Len(Lines))

Analyzed == phase \in {"rewrite", "done"}

(***************************************************************************)
(* Reference semantics, from the spec's words rather than the loops.      *)
(* The checks are the sanitizer calls in function, block, instruction     *)
(* order (§4.3); "dst is computed from src" for every load, conversion or *)
(* getelementptr anywhere in the module (§4.1); a value's aliases are     *)
(* what is derivable from it, itself included, and it counts as written  *)
(* when a write-tagged node is among them (§3, §4.4).                    *)
(***************************************************************************)
CheckPositions ==
    SelectSeq(Flat, LAMBDA p : Instr(p).op = "call"
                               /\ IsSanitizerFunction(Instr(p).callee))

Derivations ==
    {<<<<Str(Body(p), Instr(p).ptr), FALSE>>, <<InstrStr(Body(p), p[2]), FALSE>>>> :
        p \in {q \in Range(Flat) : Instr(q).op \in {"load", "getelementptr"}}}

RECURSIVE Derivable(_)
Derivable(S) ==
    IF \A d \in Derivations : d[1] \in S => d[2] \in S THEN S
    ELSE Derivable(S \cup {d[2] : d \in {e \in Derivations : e[1] \in S}})

CheckOperands(j) ==
    LET p == CheckPositions[j] IN {Str(Body(p), Instr(p).args[i]) : i \in DOMAIN Instr(p).args}

AliasNames(v) == {n[1] : n \in Derivable({<<v, FALSE>>})}

CheckWritten(j) == \E v \in CheckOperands(j) : \E n \in Derivable({<<v, FALSE>>}) : n[2]

Overlap(i, j) ==
    \E v \in CheckOperands(i), w \in CheckOperands(j) : AliasNames(v) \cap AliasNames(w) # {}

Removed(j) == subgraphs[j].key \in redundant

(* The line of the textual IR that holds check j's call.                *)
CheckLine(j) == CHOOSE l \in DOMAIN Lines : Lines[l] = CheckPositions[j]

(***************************************************************************)
(* §4.3: the extracted checks are exactly the calls whose callee name     *)
(* carries a sanitizer fragment, in function, block, instruction order,   *)
(* each with its function and its arguments.  Extraction order is the     *)
(* join key of the rewrite, so a call extracted that is not a check       *)
(* shifts the ordinal of every later one.                                 *)
(***************************************************************************)
ExtractionMatchesReference ==
    phase \notin {"graph", "calls"} =>
        calls = [j \in DOMAIN CheckPositions |-> SanitizerCallAt(CheckPositions[j])]

(***************************************************************************)
(* The redundancy decision of the whole chain (graph, extraction,         *)
(* subgraphs, the pairwise loop with its skip) is the spec's greedy rule: *)
(* check j is removed exactly when some earlier check, neither of the two *)
(* written, shares an alias name with it (§4.5).                          *)
(***************************************************************************)
AnalysisMatchesReference ==
    Analyzed =>
        {j \in DOMAIN subgraphs : Removed(j)} =
            {j \in DOMAIN CheckPositions :
                \E i \in 1..(j - 1) : ~CheckWritten(i) /\ ~CheckWritten(j) /\ Overlap(i, j)}

(***************************************************************************)
(* optimize_ir_text never deletes the call line of a check that analyze   *)
(* kept: whatever the keys of the rewrite's line scan turn out to be, no  *)
(* retained check disappears from the optimized IR.                       *)
(***************************************************************************)
RewriteKeepsRetained ==
    phase = "done" =>
        \A j \in DOMAIN subgraphs : ~Removed(j) => CheckLine(j) \in Range(out)

(***************************************************************************)
(* §8 rewrite/extraction consistency: every check analyze found redundant *)
(* has its call line removed from the optimized IR.                       *)
(***************************************************************************)
RewriteRemovesRedundant ==
    phase = "done" =>
        \A j \in DOMAIN subgraphs : Removed(j) => CheckLine(j) \notin Range(out)

(***************************************************************************)
(* §8 soundness guard: a check is removed only on the strength of an      *)
(* earlier check it shares an alias with, where no alias of either check  *)
(* is ever the destination of a store.                                    *)
(***************************************************************************)
StoreDests ==
    {Str(Body(p), Instr(p).ptr) : p \in {q \in Range(Flat) : Instr(q).op = "store"}}

NeverStored(j) == \A v \in CheckOperands(j) : AliasNames(v) \cap StoreDests = {}

SoundnessGuard ==
    Analyzed =>
        \A j \in DOMAIN subgraphs :
            Removed(j) => \E i \in 1..(j - 1) : Overlap(i, j) /\ NeverStored(i) /\ NeverStored(j)

=============================================================================
