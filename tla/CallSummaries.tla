---------------------------- MODULE CallSummaries ----------------------------
(***************************************************************************)
(* The interprocedural helpers: build_call_graph (alias_analysis.py) and   *)
(* collect_function_summaries, build_reverse_call_graph, propagate_globals *)
(* and points_to (analysis_utils.py), run one after the other over one    *)
(* module, every loop iteration one step:                                  *)
(*                                                                         *)
(*   "cg"   build_call_graph          "rc"   build_reverse_call_graph      *)
(*   "summ" collect_function_summaries "prop" propagate_globals's loop     *)
(*   "pts"  points_to                                                      *)
(***************************************************************************)
EXTENDS Integers, SequencesExt, Graphs

CONSTANTS
    Programs,   \* the modules: sequences of [name, body] for the defined functions
    Externals,  \* functions the module only declares ("malloc")
    AliasOf,    \* global aliases of functions: alias name -> function name
    Params,     \* parameter references ("%p")
    Globals     \* global variable references ("@g")

VARIABLES
    prog,      \* the module
    phase,     \* the helper that is running
    pos,       \* its loop cursor over the module's instructions
    cg,        \* CallGraph.calls as a set of <<caller, callee text>>
    summ,      \* collect_function_summaries's dict of FunctionSummary
    rc,        \* build_reverse_call_graph's dict, as <<callee text, caller>>
    uses,      \* propagate_globals's uses map
    changed,   \* its changed flag
    todo,      \* the rc keys the current sweep has still to visit
    sweeping,  \* whether a sweep over rc is under way
    pts        \* points_to's dict from value text to a set of value texts

vars == <<prog, phase, pos, cg, summ, rc, uses, changed, todo, sweeping, pts>>

NoValue == ""

Defined   == {prog[i].name : i \in DOMAIN prog}
Functions == Defined \cup Externals           \* module.functions, by name

Flat == FlattenSeq([fi \in DOMAIN prog |->
                      [k \in DOMAIN prog[fi].body |-> <<fi, k>>]])
Body(p)  == prog[p[1]].body
Instr(p) == prog[p[1]].body[p[2]]
Fn(p)    == prog[p[1]].name

SlotRef(k) == "%" \o ToString(k)

-----------------------------------------------------------------------------
(***************************************************************************)
(* str() of values.  An instruction prints as its own text; a global as   *)
(* "@g = global ..."; a parameter as "ptr %p".  A function prints as its  *)
(* whole declaration or definition, "declare ptr @malloc(i64)", so its    *)
(* text starts with "declare"/"define"; a global alias prints as          *)
(* "@a = alias ...", and only a global's or an alias's text starts with   *)
(* "@".  An instruction's text holds "@" when it names a global or calls  *)
(* a named function or alias.                                             *)
(***************************************************************************)
Named == Functions \cup DOMAIN AliasOf

InstrText(body, k) == <<body[k].op, body[k].ptr, body[k].callee, k>>

Text(body, v) ==
    CASE v \in Params  -> <<"arg", v>>
      [] v \in Globals -> <<"global", v>>
      [] OTHER -> InstrText(body, CHOOSE k \in DOMAIN body : SlotRef(k) = v)

(* The text of a called operand, a string like a function name.          *)
CalleeText(c) ==
    CASE c \in Functions     -> "define @" \o c
      [] c \in DOMAIN AliasOf -> "@" \o c \o " = alias"
      [] OTHER               -> "  " \o c

StartsWithAt(c) == c \in DOMAIN AliasOf

ContainsAt(body, v) ==
    \/ v \in Globals
    \/ /\ v \notin Params
       /\ LET ins == body[CHOOSE k \in DOMAIN body : SlotRef(k) = v]
          IN  ins.ptr \in Globals \/ ins.callee \in Named

(* A call recorded by the call graph: a direct call by the code's test.  *)
RecordedCall(ins) == ins.op = "call" /\ StartsWithAt(ins.callee)

-----------------------------------------------------------------------------
(* build_call_graph: one step per instruction; FinishCg ends the pass.   *)
CgStep ==
    /\ phase = "cg"
    /\ pos <= Len(Flat)
    /\ pos' = pos + 1
    /\ cg' = IF RecordedCall(Instr(Flat[pos]))
             THEN cg \cup {<<Fn(Flat[pos]), CalleeText(Instr(Flat[pos]).callee)>>}
             ELSE cg
    /\ UNCHANGED <<prog, phase, summ, rc, uses, changed, todo, sweeping, pts>>

EmptySummary ==
    [num_instructions |-> 0, num_calls |-> 0, num_stores |-> 0,
     num_loads |-> 0, uses_globals |-> FALSE, called_functions |-> {}]

(* collect_function_summaries makes a FunctionSummary for every function *)
FinishCg ==
    /\ phase = "cg"
    /\ pos > Len(Flat)
    /\ phase' = "summ"
    /\ pos' = 1
    /\ summ' = [f \in Functions |-> EmptySummary]
    /\ UNCHANGED <<prog, cg, rc, uses, changed, todo, sweeping, pts>>

(* FunctionSummary.update                                                *)
Update(s, body, ins) ==
    [s EXCEPT !.num_instructions = @ + 1,
              !.num_calls = IF ins.op = "call" THEN @ + 1 ELSE @,
              !.called_functions = IF RecordedCall(ins)
                                   THEN @ \cup {CalleeText(ins.callee)} ELSE @,
              !.num_stores = IF ins.op = "store" THEN @ + 1 ELSE @,
              !.num_loads = IF ins.op = "load" THEN @ + 1 ELSE @,
              !.uses_globals = @ \/ (ins.op \in {"store", "load"}
                                     /\ ContainsAt(body, ins.ptr))]

SummStep ==
    /\ phase = "summ"
    /\ pos <= Len(Flat)
    /\ pos' = pos + 1
    /\ summ' = [summ EXCEPT ![Fn(Flat[pos])] = Update(@, Body(Flat[pos]), Instr(Flat[pos]))]
    /\ UNCHANGED <<prog, phase, cg, rc, uses, changed, todo, sweeping, pts>>

FinishSumm ==
    /\ phase = "summ"
    /\ pos > Len(Flat)
    /\ phase' = "rc"
    /\ pos' = 1
    /\ UNCHANGED <<prog, cg, summ, rc, uses, changed, todo, sweeping, pts>>

(* build_reverse_call_graph: the same filter, keyed the other way.       *)
RcStep ==
    /\ phase = "rc"
    /\ pos <= Len(Flat)
    /\ pos' = pos + 1
    /\ rc' = IF RecordedCall(Instr(Flat[pos]))
             THEN rc \cup {<<CalleeText(Instr(Flat[pos]).callee), Fn(Flat[pos])>>}
             ELSE rc
    /\ UNCHANGED <<prog, phase, cg, summ, uses, changed, todo, sweeping, pts>>

(* uses = {name: summary.uses_globals}; changed = True                   *)
FinishRc ==
    /\ phase = "rc"
    /\ pos > Len(Flat)
    /\ phase' = "prop"
    /\ uses' = [f \in Functions |-> summ[f].uses_globals]
    /\ changed' = TRUE
    /\ UNCHANGED <<prog, pos, cg, summ, rc, todo, sweeping, pts>>

(***************************************************************************)
(* propagate_globals's loop: while changed, clear changed and sweep rc;   *)
(* an entry whose callee uses globals marks its callers that do not.      *)
(* uses is keyed by func.name and rc by the callee's text.                *)
(***************************************************************************)
UsesGet(c) == c \in DOMAIN uses /\ uses[c]

Callers(c) == {e[2] : e \in {x \in rc : x[1] = c}}

(* The callers that this entry newly marks.                              *)
Newly(c) == IF UsesGet(c) THEN {x \in Callers(c) : ~UsesGet(x)} ELSE {}

(* A slip: the sweep leaves changed as it was.                           *)
KeepChanged == changed' = changed

ResetChanged == changed' = FALSE

NewSweep ==
    /\ phase = "prop"
    /\ ~sweeping
    /\ changed
    /\ ResetChanged
    /\ sweeping' = TRUE
    /\ todo' = {e[1] : e \in rc}
    /\ UNCHANGED <<prog, phase, pos, cg, summ, rc, uses, pts>>

SweepEntry ==
    /\ phase = "prop"
    /\ sweeping
    /\ \E c \in todo :
          /\ uses' = [f \in DOMAIN uses |-> uses[f] \/ f \in Newly(c)]
          /\ changed' = (changed \/ Newly(c) # {})
          /\ todo' = todo \ {c}
    /\ UNCHANGED <<prog, phase, pos, cg, summ, rc, sweeping, pts>>

EndSweep ==
    /\ phase = "prop"
    /\ sweeping
    /\ todo = {}
    /\ sweeping' = FALSE
    /\ UNCHANGED <<prog, phase, pos, cg, summ, rc, uses, changed, todo, pts>>

FinishProp ==
    /\ phase = "prop"
    /\ ~sweeping
    /\ ~changed
    /\ phase' = "pts"
    /\ pos' = 1
    /\ UNCHANGED <<prog, cg, summ, rc, uses, changed, todo, sweeping, pts>>

-----------------------------------------------------------------------------
(***************************************************************************)
(* points_to: alloca, store and load give their pointer the set {itself} *)
(* unless it has one; bitcast and getelementptr do that for the result    *)
(* and the source, then add the source's current set to the result's.    *)
(***************************************************************************)
InitText(p, t) == IF t \in DOMAIN p THEN p ELSE p @@ (t :> {t})

(* A slip: pts[dst] = set(pts[src]) in place of update.                  *)
DeriveReplace(p, dst, src) ==
    LET q == InitText(InitText(p, dst), src) IN [q EXCEPT ![dst] = q[src]]

Derive(p, dst, src) ==
    LET q == InitText(InitText(p, dst), src) IN [q EXCEPT ![dst] = @ \cup q[src]]

PtsStep ==
    /\ phase = "pts"
    /\ pos <= Len(Flat)
    /\ pos' = pos + 1
    /\ UNCHANGED <<prog, phase, cg, summ, rc, uses, changed, todo, sweeping>>

PtsInit ==
    /\ PtsStep
    /\ LET p == Flat[pos] IN
        /\ Instr(p).op \in {"alloca", "store", "load"}
        /\ pts' = InitText(pts, IF Instr(p).op = "alloca" THEN InstrText(Body(p), p[2])
                                ELSE Text(Body(p), Instr(p).ptr))

PtsDerive ==
    /\ PtsStep
    /\ LET p == Flat[pos] IN
        /\ Instr(p).op \in {"bitcast", "getelementptr"}
        /\ pts' = Derive(pts, InstrText(Body(p), p[2]), Text(Body(p), Instr(p).ptr))

PtsSkip ==
    /\ PtsStep
    /\ Instr(Flat[pos]).op \in {"call", "other"}
    /\ UNCHANGED pts

FinishPts ==
    /\ phase = "pts"
    /\ pos > Len(Flat)
    /\ phase' = "done"
    /\ UNCHANGED <<prog, pos, cg, summ, rc, uses, changed, todo, sweeping, pts>>

(* Every helper has returned.                                            *)
Terminated ==
    /\ phase = "done"
    /\ UNCHANGED vars

-----------------------------------------------------------------------------
Init ==
    /\ prog \in Programs
    /\ phase = "cg"
    /\ pos = 1
    /\ cg = {}
    /\ summ = [f \in Functions |-> EmptySummary]
    /\ rc = {}
    /\ uses = [f \in Functions |-> FALSE]
    /\ changed = FALSE
    /\ todo = {}
    /\ sweeping = FALSE
    /\ pts = <<>>

Next ==
    \/ CgStep \/ FinishCg \/ SummStep \/ FinishSumm \/ RcStep \/ FinishRc
    \/ NewSweep \/ SweepEntry \/ EndSweep \/ FinishProp
    \/ PtsInit \/ PtsDerive \/ PtsSkip \/ FinishPts
    \/ Terminated

(* Sequential loops with nothing to wait for: each keeps running.        *)
Spec == Init /\ [][Next]_vars /\ WF_vars(Next)

-----------------------------------------------------------------------------
(***************************************************************************)
(*                              Properties                                 *)
(***************************************************************************)
Phases == {"cg", "summ", "rc", "prop", "pts", "done"}

TypeOK ==
    /\ phase \in Phases
    /\ pos \in 1..(Len(Flat) + 1)
    /\ cg \subseteq Defined \X {CalleeText(c) : c \in Named}
    /\ summ \in [Functions -> [num_instructions : Nat, num_calls : Nat,
                               num_stores : Nat, num_loads : Nat,
                               uses_globals : BOOLEAN,
                               called_functions : SUBSET {CalleeText(c) : c \in Named}]]
    /\ rc \subseteq {CalleeText(c) : c \in Named} \X Defined
    /\ uses \in [Functions -> BOOLEAN]
    /\ changed \in BOOLEAN /\ sweeping \in BOOLEAN
    /\ todo \subseteq {e[1] : e \in rc}
    /\ \A t \in DOMAIN pts : t \in pts[t]

Done == phase = "done"

(* propagate_globals's fixed-point loop ends, and points_to after it.    *)
PropagateTerminates == <>Done

(***************************************************************************)
(* §4.2: propagation marks a function as touching globals when any        *)
(* function it calls directly, by name or through an alias, does, and so  *)
(* on transitively.                                                       *)
(***************************************************************************)
TrueCallee(c) == IF c \in DOMAIN AliasOf THEN AliasOf[c] ELSE c

CallGraph ==
    [node |-> Functions,
     edge |-> {<<Fn(p), TrueCallee(Instr(p).callee)>> :
                 p \in {q \in Range(Flat) : Instr(q).op = "call"
                                            /\ Instr(q).callee \in Named}}]

PropagatesThroughCalls ==
    Done =>
        \A f \in Functions :
            uses[f] = (summ[f].uses_globals
                       \/ \E g \in Descendants(CallGraph, f) : summ[g].uses_globals)

=============================================================================
