--------------------------- MODULE TopologicalSort ---------------------------
(***************************************************************************)
(* topological_sort (scripts/_helpers/dependency.py): a depth first search *)
(* that appends a node once it is through with its dependents, read        *)
(* backwards at the end.  Nodes and dependents are kept in Python sets,    *)
(* whose order differs from one process to the next: every order is        *)
(* possible.                                                               *)
(***************************************************************************)
EXTENDS Naturals, Sequences

VARIABLES
    dependencies,   \* from each node to the set of its dependents
    vis,            \* the nodes the search has entered
    calls,          \* the nodes it is in, outermost first
    stack           \* the nodes it is through with, in that order

sortVars == <<dependencies, vis, calls, stack>>

Innermost == calls[Len(calls)]

StartSort(deps) ==
    /\ dependencies' = deps
    /\ vis' = {}
    /\ calls' = <<>>
    /\ stack' = <<>>

\* The outer loop's call, or the call for a dependent not visited yet.
Enter(n) ==
    /\ n \notin vis
    /\ calls # <<>> => n \in dependencies[Innermost]
    /\ vis' = vis \cup {n}
    /\ calls' = Append(calls, n)
    /\ UNCHANGED <<dependencies, stack>>

\* A plausible fault, which the properties must reveal: one dependent is enough.
FaultyLeave ==
    /\ calls # <<>>
    /\ dependencies[Innermost] = {} \/ dependencies[Innermost] \cap vis # {}
    /\ stack' = Append(stack, Innermost)
    /\ calls' = SubSeq(calls, 1, Len(calls) - 1)
    /\ UNCHANGED <<dependencies, vis>>

\* Every dependent of the innermost node has been visited.
Leave ==
    /\ calls # <<>>
    /\ dependencies[Innermost] \subseteq vis
    /\ stack' = Append(stack, Innermost)
    /\ calls' = SubSeq(calls, 1, Len(calls) - 1)
    /\ UNCHANGED <<dependencies, vis>>

SortDone == calls = <<>> /\ vis = DOMAIN dependencies

\* A plausible fault, which the properties must reveal: dependents first.
FaultySorted == stack

Sorted == [i \in 1..Len(stack) |-> stack[Len(stack) + 1 - i]]

\* A graph without cycles: some rank grows along every edge.
Increasing(rank, deps) == \A k \in DOMAIN deps : \A d \in deps[k] : rank[k] < rank[d]
Acyclic(deps) == \E rank \in [DOMAIN deps -> Nat] : Increasing(rank, deps)
=============================================================================
