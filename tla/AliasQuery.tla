----------------------------- MODULE AliasQuery -----------------------------
(***************************************************************************)
(* What AliasGraph.get_aliases promises (spec §4.1): a call on node       *)
(* returns, once, the set of nodes derivable from node along outgoing     *)
(* edges, node included, whatever cycles the graph has; it always         *)
(* returns.                                                               *)
(***************************************************************************)
EXTENDS Graphs

CONSTANTS
    Node,   \* the pointer nodes a graph may hold
    None    \* no answer yet

VARIABLES
    graph,  \* the AliasGraph queried: [node, edge]
    start,  \* the node the query is issued from (it need not be in graph)
    result  \* the answer, None until the call returns

vars == <<graph, start, result>>

(* All graphs over Node: any node set and any edges between its members. *)
AliasGraphs == DirectedSubgraph([node |-> Node, edge |-> Node \X Node])

Aliases(G, n) == {n} \cup (IF n \in G.node THEN Descendants(G, n) ELSE {})

Init ==
    /\ graph \in AliasGraphs
    /\ start \in Node
    /\ result = None

Answer ==
    /\ result = None
    /\ result' = Aliases(graph, start)
    /\ UNCHANGED <<graph, start>>

Spec == Init /\ [][Answer]_vars /\ WF_vars(Answer)

=============================================================================
