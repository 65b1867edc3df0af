----------------------------- MODULE GetAliases -----------------------------
(***************************************************************************)
(* The loop of AliasGraph.get_aliases (alias_analysis.py): an explicit    *)
(* stack, a visited set, and successors pushed in whatever order the set  *)
(* self.edges[current] iterates in (string hashing makes it differ from   *)
(* run to run).  One iteration of the while loop is one step.             *)
(***************************************************************************)
EXTENDS Graphs, SequencesExt

CONSTANTS Node, None

VARIABLES graph, start, stack, visited, result

vars == <<graph, start, stack, visited, result>>

AQ == INSTANCE AliasQuery

(* A slip: visited seeded with node, so node is never expanded.          *)
InitVisitedSeeded ==
    /\ graph \in AQ!AliasGraphs
    /\ start \in Node
    /\ stack = <<start>>
    /\ visited = {start}
    /\ result = None

Init ==
    /\ graph \in AQ!AliasGraphs
    /\ start \in Node
    /\ stack = <<start>>
    /\ visited = {}
    /\ result = None

(* current = stack.pop(); if current in visited: continue                *)
PopVisited ==
    /\ stack # <<>>
    /\ Last(stack) \in visited
    /\ stack' = Front(stack)
    /\ UNCHANGED <<graph, start, visited, result>>

(* A slip: the visited test dropped, every popped node is expanded.      *)
VisitAgain ==
    /\ stack # <<>>
    /\ visited' = visited \cup {Last(stack)}
    /\ \E succs \in SetToSeqs(Successors(graph, Last(stack))) :
          stack' = Front(stack) \o succs
    /\ UNCHANGED <<graph, start, result>>

(* visited.add(current); push every successor (none when current has no  *)
(* entry in self.edges).                                                 *)
Visit ==
    /\ stack # <<>>
    /\ Last(stack) \notin visited
    /\ visited' = visited \cup {Last(stack)}
    /\ \E succs \in SetToSeqs(Successors(graph, Last(stack))) :
          stack' = Front(stack) \o succs
    /\ UNCHANGED <<graph, start, result>>

(* The stack is empty: return visited.                                    *)
Return ==
    /\ stack = <<>>
    /\ result = None
    /\ result' = visited
    /\ UNCHANGED <<graph, start, stack, visited>>

Returned ==
    /\ result # None
    /\ UNCHANGED vars

Next == PopVisited \/ Visit \/ Return \/ Returned

(* A single-threaded loop: it runs until it returns.                     *)
Spec == Init /\ [][Next]_vars /\ WF_vars(Next)

-----------------------------------------------------------------------------
(***************************************************************************)
(* Types, and the memory the loop needs: a node is expanded at most once, *)
(* so the stack never holds more than the start node plus one entry per   *)
(* edge (§4.1's O(V+E)).                                                   *)
(***************************************************************************)
TypeOK ==
    /\ graph \in AQ!AliasGraphs
    /\ start \in Node
    /\ stack \in Seq(Node)
    /\ Len(stack) <= 1 + Cardinality(graph.edge)
    /\ visited \subseteq Node
    /\ result \in {None} \cup SUBSET Node

(***************************************************************************)
(* The loop implements the query: it returns exactly once, and what it    *)
(* returns is the forward closure of start, start included, for every     *)
(* graph (cycles and self-loops too) and every order of pushing.          *)
(***************************************************************************)
ImplementsAliasQuery == AQ!Spec

=============================================================================
