---------------------------- MODULE ReleaseProofs ----------------------------
(***************************************************************************)
(* What holds of the release scripts for every set of configurations and   *)
(* every bound.  First the order of the sort and the report of verify.py;  *)
(* then, from RecordsOK, that the file, the memory of a script and the     *)
(* chain agree in every phase of every script: what is still to be         *)
(* deployed (Ahead) is named by nothing that was deployed, what was        *)
(* deployed was built with the contracts the context names (Built), its    *)
(* links and authorisations are right but for open transactions (Settled), *)
(* and what is recorded is the newest contract unless a script was         *)
(* interrupted (Newest).  Last, what is published.                         *)
(***************************************************************************)
EXTENDS Release, SequenceTheorems, FiniteSetTheorems, TLAPS

-----------------------------------------------------------------------------
(* The sort keeps its order, for every graph without cycles and every      *)
(* order in which it takes nodes and dependents.                           *)

Nodes == DOMAIN dependencies

SortTypes ==
    /\ vis \subseteq Nodes
    /\ calls \in Seq(vis) /\ stack \in Seq(vis)
    /\ \A k \in Nodes : dependencies[k] \subseteq Nodes

\* The search is in every node it has entered, or through with it.
Accounted ==
    \A n \in vis : \/ \E i \in 1..Len(calls) : calls[i] = n
                   \/ \E i \in 1..Len(stack) : stack[i] = n

\* It is through with a node once, and never in a node it is through with.
Apart ==
    /\ \A i, j \in 1..Len(stack) : i # j => stack[i] # stack[j]
    /\ \A i \in 1..Len(calls), j \in 1..Len(stack) : calls[i] # stack[j]

\* It goes deeper along edges only, so that no call is for a node of an outer one.
Deeper ==
    \E rank \in [Nodes -> Nat] :
        /\ Increasing(rank, dependencies)
        /\ \A i, j \in 1..Len(calls) : i < j => rank[calls[i]] < rank[calls[j]]

DependentsBefore ==
    \A i \in 1..Len(stack) : \A d \in dependencies[stack[i]] :
        \E j \in 1..(i - 1) : stack[j] = d

SortInv == SortTypes /\ Accounted /\ Apart /\ Deeper /\ DependentsBefore

\* What is left of a sequence without its last element.
LEMMA WithoutLast ==
  ASSUME NEW S, NEW s \in Seq(S), s # <<>>
  PROVE  /\ Len(SubSeq(s, 1, Len(s) - 1)) = Len(s) - 1
         /\ \A i \in 1..(Len(s) - 1) : SubSeq(s, 1, Len(s) - 1)[i] = s[i]
  <1>1. Len(s) \in Nat /\ Len(s) >= 1
    OBVIOUS
  <1>2. ASSUME NEW m \in Nat, m = Len(s) - 1
        PROVE  /\ Len(SubSeq(s, 1, m)) = m
               /\ \A i \in 1..m : SubSeq(s, 1, m)[i] = s[i]
    <2>1. \A i \in 1..m : s[i] \in S
      BY <1>1, <1>2
    <2>2. /\ Len(SubSeq(s, 1, m)) = IF 1 <= m THEN m - 1 + 1 ELSE 0
          /\ \A i \in 1..(m - 1 + 1) : SubSeq(s, 1, m)[i] = s[1 + i - 1]
      BY <2>1, SubSeqProperties
    <2>3. m - 1 + 1 = m /\ \A i \in 1..m : 1 + i - 1 = i
      OBVIOUS
    <2>4. Len(SubSeq(s, 1, m)) = m
      BY <2>2, <2>3
    <2>5. \A i \in 1..m : SubSeq(s, 1, m)[i] = s[i]
      BY <2>2, <2>3
    <2> QED BY <2>4, <2>5
  <1> DEFINE n == Len(s) - 1
  <1>3. n \in Nat /\ n = Len(s) - 1
    BY <1>1
  <1> HIDE DEF n
  <1>4. /\ Len(SubSeq(s, 1, n)) = n
        /\ \A i \in 1..n : SubSeq(s, 1, n)[i] = s[i]
    BY <1>2, <1>3
  <1> QED BY <1>4 DEF n

\* A search that starts on a graph without cycles has not gone wrong yet.
LEMMA StartSortInv ==
  ASSUME NEW deps, StartSort(deps),
         \A k \in DOMAIN deps : deps[k] \subseteq DOMAIN deps, Acyclic(deps)
  PROVE  SortInv' /\ dependencies' = deps
  <1>1. /\ dependencies' = deps /\ vis' = {} /\ calls' = <<>> /\ stack' = <<>>
    BY DEF StartSort
  <1>2. SortTypes'
    BY <1>1 DEF SortTypes, Nodes
  <1>3. Accounted' /\ Apart' /\ DependentsBefore'
    BY <1>1 DEF Accounted, Apart, DependentsBefore
  <1>4. Deeper'
    BY <1>1 DEF Deeper, Acyclic, Nodes
  <1> QED BY <1>1, <1>2, <1>3, <1>4 DEF SortInv

LEMMA EnterInv ==
  ASSUME SortInv, NEW n \in Nodes, Enter(n)
  PROVE  SortInv' /\ dependencies' = dependencies
  <1> DEFINE len == Len(calls)
  <1>1. /\ n \notin vis
        /\ calls # <<>> => n \in dependencies[calls[len]]
        /\ vis' = vis \cup {n} /\ calls' = Append(calls, n)
        /\ dependencies' = dependencies /\ stack' = stack
    BY DEF Enter, Innermost
  <1>2. /\ vis \subseteq Nodes /\ calls \in Seq(vis) /\ stack \in Seq(vis)
        /\ \A k \in Nodes : dependencies[k] \subseteq Nodes
    BY DEF SortInv, SortTypes
  <1>3. /\ len \in Nat /\ Len(calls') = len + 1 /\ calls'[len + 1] = n
        /\ \A i \in 1..len : calls'[i] = calls[i] /\ calls[i] \in vis
    BY <1>1, <1>2
  <1>4. \A i \in 1..Len(stack) : stack[i] \in vis
    BY <1>2
  <1>5. SortTypes'
    <2>1. calls' \in Seq(vis') /\ stack' \in Seq(vis')
      BY <1>1, <1>2, <1>3, <1>4
    <2> QED BY <2>1, <1>1, <1>2 DEF SortTypes, Nodes
  <1>6. Accounted'
    BY <1>1, <1>3 DEF SortInv, Accounted
  <1>7. Apart'
    <2>1. ASSUME NEW i \in 1..(len + 1), NEW j \in 1..Len(stack)
          PROVE  calls'[i] # stack[j]
      <3>1. CASE i = len + 1
        BY <3>1, <1>1, <1>3, <1>4
      <3>2. CASE i \in 1..len
        BY <3>2, <1>3 DEF SortInv, Apart
      <3> QED BY <3>1, <3>2, <1>3
    <2> QED BY <2>1, <1>1, <1>3 DEF SortInv, Apart
  <1>8. Deeper'
    <2>1. PICK rank \in [Nodes -> Nat] :
            /\ Increasing(rank, dependencies)
            /\ \A i, j \in 1..len : i < j => rank[calls[i]] < rank[calls[j]]
      BY DEF SortInv, Deeper
    <2>2. ASSUME NEW i \in 1..len
          PROVE  rank[calls[i]] < rank[n]
      <3>1. calls # <<>> /\ calls[len] \in Nodes /\ calls[i] \in Nodes
        BY <1>2, <1>3
      <3>2. rank[calls[len]] < rank[n]
        BY <3>1, <2>1, <1>1 DEF Increasing, Nodes
      <3>3. i = len \/ rank[calls[i]] < rank[calls[len]]
        BY <2>1, <1>3
      <3> QED BY <3>1, <3>2, <3>3
    <2>3. \A i, j \in 1..(len + 1) : i < j => rank[calls'[i]] < rank[calls'[j]]
      <3>1. TAKE i, j \in 1..(len + 1)
      <3>2. HAVE i < j
      <3>3. CASE j = len + 1
        BY <3>2, <3>3, <2>2, <1>3
      <3>4. CASE j \in 1..len
        BY <3>2, <3>4, <2>1, <1>3
      <3> QED BY <3>3, <3>4, <1>3
    <2> QED BY <2>1, <2>3, <1>1, <1>3 DEF Deeper, Nodes
  <1>9. DependentsBefore'
    BY <1>1 DEF SortInv, DependentsBefore
  <1> QED BY <1>1, <1>5, <1>6, <1>7, <1>8, <1>9 DEF SortInv

LEMMA LeaveInv ==
  ASSUME SortInv, Leave
  PROVE  SortInv' /\ dependencies' = dependencies
  <1> DEFINE len == Len(calls)
             top == Len(stack)
             done == calls[len]
  <1>1. /\ calls # <<>> /\ dependencies[done] \subseteq vis
        /\ stack' = Append(stack, done) /\ calls' = SubSeq(calls, 1, len - 1)
        /\ dependencies' = dependencies /\ vis' = vis
    BY DEF Leave, Innermost
  <1>2. /\ vis \subseteq Nodes /\ calls \in Seq(vis) /\ stack \in Seq(vis)
        /\ \A k \in Nodes : dependencies[k] \subseteq Nodes
    BY DEF SortInv, SortTypes
  <1>3. /\ len \in Nat /\ len > 0 /\ Len(calls') = len - 1
        /\ \A i \in 1..len : calls[i] \in vis
        /\ \A i \in 1..(len - 1) : calls'[i] = calls[i]
    <2>1. len \in Nat /\ len > 0 /\ \A i \in 1..len : calls[i] \in vis
      BY <1>1, <1>2
    <2>2. \A i \in 1..(len - 1) : calls[i] \in vis
      BY <2>1
    <2>3. /\ Len(calls') = len - 1
          /\ \A i \in 1..(len - 1) : calls'[i] = calls[i]
      BY <1>1, <1>2, WithoutLast
    <2> QED BY <2>1, <2>2, <2>3
  <1>4. /\ top \in Nat /\ Len(stack') = top + 1 /\ stack'[top + 1] = done
        /\ \A i \in 1..top : stack'[i] = stack[i] /\ stack[i] \in vis
    BY <1>1, <1>2
  <1>5. done \in vis
    BY <1>3
  <1>6. PICK rank \in [Nodes -> Nat] :
          /\ Increasing(rank, dependencies)
          /\ \A i, j \in 1..len : i < j => rank[calls[i]] < rank[calls[j]]
    BY DEF SortInv, Deeper
  <1>7. \A i \in 1..(len - 1) : calls[i] # done
    <2>1. TAKE i \in 1..(len - 1)
    <2>2. rank[calls[i]] < rank[done] /\ rank[calls[i]] \in Nat /\ rank[done] \in Nat
      <3>1. len \in 1..len /\ i \in 1..len /\ i < len
        BY <1>3
      <3>2. calls[i] \in Nodes /\ done \in Nodes
        BY <3>1, <1>2, <1>3
      <3> QED BY <3>1, <3>2, <1>6
    <2> QED BY <2>2
  <1>8. SortTypes'
    <2>1. calls' \in Seq(vis') /\ stack' \in Seq(vis')
      BY <1>1, <1>2, <1>3, <1>4, <1>5, SubSeqProperties
    <2> QED BY <2>1, <1>1, <1>2 DEF SortTypes, Nodes
  <1>9. Accounted'
    <2>1. ASSUME NEW n \in vis
          PROVE  \/ \E i \in 1..(len - 1) : calls'[i] = n
                 \/ \E i \in 1..(top + 1) : stack'[i] = n
      <3>1. CASE \E i \in 1..Len(stack) : stack[i] = n
        BY <3>1, <1>4
      <3>2. CASE n = done
        BY <3>2, <1>4
      <3>3. CASE \E i \in 1..(len - 1) : calls[i] = n
        BY <3>3, <1>3
      <3>4. \E i \in 1..len : calls[i] = n => i = len \/ i \in 1..(len - 1)
        BY <1>3
      <3> QED BY <3>1, <3>2, <3>3, <1>3 DEF SortInv, Accounted
    <2> QED BY <2>1, <1>1, <1>3, <1>4 DEF Accounted
  <1>10. Apart'
    <2>1. \A j \in 1..top : done # stack[j]
      BY <1>3 DEF SortInv, Apart
    <2>2. \A i, j \in 1..(top + 1) : i # j => stack'[i] # stack'[j]
      BY <2>1, <1>4, SMTT(30) DEF SortInv, Apart
    <2>3. \A i \in 1..(len - 1), j \in 1..(top + 1) : calls'[i] # stack'[j]
      BY <1>3, <1>4, <1>7, SMTT(30) DEF SortInv, Apart
    <2> QED BY <2>2, <2>3, <1>3, <1>4 DEF Apart
  <1>11. Deeper'
    <2>1. ASSUME NEW i \in 1..(len - 1), NEW j \in 1..(len - 1), i < j
          PROVE  rank[calls'[i]] < rank[calls'[j]]
      <3>1. i \in 1..len /\ j \in 1..len
        BY <1>3
      <3>2. calls'[i] = calls[i] /\ calls'[j] = calls[j]
        BY <1>3
      <3> QED BY <2>1, <3>1, <3>2, <1>6
    <2> QED BY <2>1, <1>1, <1>3, <1>6 DEF Deeper, Nodes
  <1>12. DependentsBefore'
    <2>1. ASSUME NEW d \in dependencies[done]
          PROVE  \E j \in 1..top : stack[j] = d
      <3>1. d \in vis /\ d \in Nodes /\ done \in Nodes
        BY <1>1, <1>2, <1>5
      <3>2. rank[done] < rank[d]
        BY <3>1, <1>6 DEF Increasing, Nodes
      <3>3. ASSUME NEW i \in 1..len
            PROVE  calls[i] # d
        <4>1. i = len \/ rank[calls[i]] < rank[done]
          BY <1>3, <1>6
        <4>2. rank[calls[i]] \in Nat /\ rank[done] \in Nat
          BY <1>2, <1>3, <1>5
        <4> QED BY <4>1, <4>2, <3>1, <3>2
      <3> QED BY <3>1, <3>3 DEF SortInv, Accounted
    <2>2. ASSUME NEW i \in 1..(top + 1), NEW d \in dependencies[stack'[i]]
          PROVE  \E j \in 1..(i - 1) : stack'[j] = d
      <3>1. CASE i = top + 1
        BY <3>1, <2>1, <1>4
      <3>2. CASE i \in 1..top
        <4>1. PICK j \in 1..(i - 1) : stack[j] = d
          BY <3>2, <1>4 DEF SortInv, DependentsBefore
        <4>2. j \in 1..top
          BY <3>2, <1>4
        <4> QED BY <4>1, <4>2, <1>4
      <3> QED BY <3>1, <3>2, <1>4
    <2> QED BY <2>2, <1>1, <1>4 DEF DependentsBefore
  <1> QED BY <1>1, <1>8, <1>9, <1>10, <1>11, <1>12 DEF SortInv

LEMMA SortUnchanged ==
  ASSUME SortInv, UNCHANGED sortVars
  PROVE  SortInv' /\ dependencies' = dependencies
  <1>1. dependencies' = dependencies /\ vis' = vis /\ calls' = calls /\ stack' = stack
    BY DEF sortVars
  <1>2. SortTypes' /\ Accounted' /\ Apart' /\ DependentsBefore'
    BY <1>1 DEF SortInv, SortTypes, Accounted, Apart, DependentsBefore, Nodes
  <1>3. Deeper'
    BY <1>1 DEF SortInv, Deeper, Nodes
  <1> QED BY <1>1, <1>2, <1>3 DEF SortInv

\* Read backwards, what the search is through with has every node before its dependents.
LEMMA SortedBackwards ==
  ASSUME SortInv
  PROVE  \A i, j \in 1..Len(stack) : i < j => Sorted[i] \notin dependencies[Sorted[j]]
  <1>1. Len(stack) \in Nat
    BY DEF SortInv, SortTypes
  <1>2. SUFFICES ASSUME NEW i \in 1..Len(stack), NEW j \in 1..Len(stack), i < j,
                        Sorted[i] \in dependencies[Sorted[j]]
                 PROVE  FALSE
    OBVIOUS
  <1> DEFINE a == Len(stack) + 1 - j
             b == Len(stack) + 1 - i
  <1>3. a \in 1..Len(stack) /\ b \in 1..Len(stack) /\ a < b
    BY <1>1, <1>2
  <1>4. Sorted[i] = stack[b] /\ Sorted[j] = stack[a]
    BY <1>1, <1>2 DEF Sorted
  <1>5. PICK c \in 1..(a - 1) : stack[c] = stack[b]
    BY <1>2, <1>3, <1>4 DEF SortInv, DependentsBefore
  <1>6. c \in 1..Len(stack) /\ c # b
    BY <1>1, <1>3
  <1> QED BY <1>3, <1>5, <1>6 DEF SortInv, Apart

-----------------------------------------------------------------------------
(* The scripts.                                                            *)

\* The running sort is one of the configuration's contracts.
SortingKeys == SortInv /\ DOMAIN dependencies = Keys

\* A verification under way is that of the first contract of todo.
Polling == job # None => phase \in {"verifying", "checking"} /\ todo # <<>>

\* verify.py works on the file's addresses, and forgets none of them.
Checking ==
    phase = "checking" =>
        /\ contract = [k \in Keys |-> file[k].address]
        /\ todo \in Seq(Keys)
        /\ \A k \in DeployedFromSources :
              \/ \E i \in 1..Len(todo) : todo[i] = k
              \/ k \in failed
              \/ StatusOf(file[k].address) = "verified"

ReleaseInv == catalog \in Catalogs /\ SortingKeys /\ Polling /\ Checking
-----------------------------------------------------------------------------
\* A contract is only deployed after others that its class may name.
LEMMA DependenciesAllowed ==
  ASSUME NEW c \in Catalogs, NEW ctx, NEW k
  PROVE  DeploymentDependencies(c.entries, ctx, k) \subseteq MayDependOn(c, k)
  BY DEF DeploymentDependencies, MayDependOn, Named

LEMMA DependenciesAcyclic ==
  ASSUME NEW c \in Catalogs, NEW ctx
  PROVE  /\ DOMAIN BuildDependencies(c.entries, ctx) = DOMAIN c.entries
         /\ \A k \in DOMAIN c.entries :
               BuildDependencies(c.entries, ctx)[k] \subseteq DOMAIN c.entries
         /\ Acyclic(BuildDependencies(c.entries, ctx))
  <1> DEFINE N == DOMAIN c.entries
             deps == BuildDependencies(c.entries, ctx)
  <1>1. /\ DOMAIN deps = N
        /\ \A k \in N : deps[k] = {d \in N : k \in DeploymentDependencies(c.entries, ctx, d)}
    BY DEF BuildDependencies
  <1>2. PICK rank \in [N -> 1..Cardinality(N)] :
          \A k \in N : \A d \in MayDependOn(c, k) : rank[d] < rank[k]
    BY CatalogsAcyclic
  <1>3. rank \in [N -> Nat]
    BY <1>2
  <1>4. \A k \in N : \A d \in deps[k] : rank[k] < rank[d]
    BY <1>1, <1>2, DependenciesAllowed
  <1> QED BY <1>1, <1>3, <1>4 DEF Acyclic, Increasing

LEMMA NothingSorted ==
  ASSUME StartSort([k \in Keys |-> {}]), catalog' = catalog
  PROVE  SortingKeys'
  <1> DEFINE deps == [k \in Keys |-> {}]
             rank == [k \in Keys |-> 0]
  <1>1. DOMAIN deps = Keys /\ \A k \in DOMAIN deps : deps[k] \subseteq DOMAIN deps
    OBVIOUS
  <1>2. Acyclic(deps)
    <2>1. rank \in [DOMAIN deps -> Nat] /\ Increasing(rank, deps)
      BY DEF Increasing
    <2> QED BY <2>1 DEF Acyclic
  <1>3. SortInv' /\ dependencies' = deps
    BY <1>1, <1>2, StartSortInv
  <1> QED BY <1>1, <1>3 DEF SortingKeys, Keys, entries

LEMMA StillSorting ==
  ASSUME SortingKeys, UNCHANGED sortVars, catalog' = catalog
  PROVE  SortingKeys'
  BY SortUnchanged DEF SortingKeys, Keys, entries

\* InFileOrder leaves none of the contracts out.
LEMMA InFileOrderComplete ==
  ASSUME NEW S, IsFiniteSet(S)
  PROVE  /\ InFileOrder(S) \in Seq(S)
         /\ \A k \in S : \E i \in 1..Len(InFileOrder(S)) : InFileOrder(S)[i] = k
  <1> DEFINE n == Cardinality(S)
             s == InFileOrder(S)
  <1>1. n \in Nat
    BY FS_CardinalityType
  <1>2. \E f \in [1..n -> S] : IsInjective(f)
    <2>1. PICK f \in Bijection(1..n, S) : TRUE
      BY FS_CardinalityType DEF ExistsBijection
    <2>2. f \in [1..n -> S] /\ IsInjective(f)
      BY <2>1 DEF Bijection, Injection, IsInjective
    <2> QED BY <2>2
  <1>3. s \in [1..n -> S] /\ IsInjective(s)
    BY <1>2 DEF InFileOrder, SetToSeq
  <1>4. s \in Injection(1..n, S)
    BY <1>3 DEF Injection, IsInjective
  <1>5. s \in Surjection(1..n, S)
    <2>1. Cardinality(1..n) = n /\ IsFiniteSet(1..n)
      BY <1>1, FS_Interval
    <2> QED BY <1>4, <2>1, FS_Injection
  <1>6. \A k \in S : \E i \in 1..n : s[i] = k
    BY <1>5 DEF Surjection
  <1>7. s \in Seq(S) /\ Len(s) = n
    BY <1>1, <1>3
  <1> QED BY <1>6, <1>7
-----------------------------------------------------------------------------
\* A step that leaves verification alone, and one that ends the script or is
\* about something else.
LEMMA CheckingUntouched ==
  ASSUME Polling, Checking,
         UNCHANGED <<catalog, file, explorer, phase, contract, todo, verification>>
  PROVE  Polling' /\ Checking'
  BY DEF Polling, Checking, Keys, entries, DeployedFromSources, InScope, StatusOf, verification

LEMMA NotChecking ==
  ASSUME job' = None, phase' # "checking"
  PROVE  Polling' /\ Checking'
  BY DEF Polling, Checking

LEMMA Forgotten ==
  ASSUME Forget, catalog' = catalog
  PROVE  SortingKeys' /\ Polling' /\ Checking'
  <1>1. StartSort([k \in Keys |-> {}]) /\ job' = None /\ phase' = "idle"
    BY DEF Forget
  <1> QED BY <1>1, NothingSorted, NotChecking

\* The contracts of todo but the first one are those of its tail.
LEMMA TailOfTodo ==
  ASSUME todo \in Seq(Keys), todo # <<>>
  PROVE  /\ Head(todo) \in Keys /\ Tail(todo) \in Seq(Keys)
         /\ \A k : (\E i \in 1..Len(todo) : todo[i] = k) =>
               k = Head(todo) \/ \E i \in 1..Len(Tail(todo)) : Tail(todo)[i] = k
  <1>1. /\ Head(todo) = todo[1] /\ Len(todo) \in Nat /\ Len(Tail(todo)) = Len(todo) - 1
        /\ \A i \in 1..(Len(todo) - 1) : Tail(todo)[i] = todo[i + 1]
    OBVIOUS
  <1>2. ASSUME NEW k, NEW i \in 1..Len(todo), todo[i] = k
        PROVE  k = Head(todo) \/ \E j \in 1..Len(Tail(todo)) : Tail(todo)[j] = k
    <2>1. CASE i = 1
      BY <2>1, <1>1, <1>2
    <2>2. CASE i # 1
      <3>1. i - 1 \in 1..(Len(todo) - 1) /\ (i - 1) + 1 = i
        BY <2>2, <1>1
      <3> QED BY <3>1, <1>1, <1>2
    <2> QED BY <2>1, <2>2
  <1> QED BY <1>2

\* Going on to the next contract is right when the one before is verified or
\* reported.
LEMMA Concluded ==
  ASSUME Polling, Checking, phase = "checking", todo # <<>>, NEW success, Conclude(success),
         success => StatusOf(Current) = "verified",
         UNCHANGED <<catalog, file, explorer>>
  PROVE  Polling' /\ Checking'
  <1>1. /\ todo' = Tail(todo) /\ job' = None /\ phase' = phase /\ contract' = contract
        /\ failed' = IF success THEN failed ELSE failed \cup {Head(todo)}
    BY DEF Conclude, context
  <1>2. todo \in Seq(Keys) /\ contract = [k \in Keys |-> file[k].address]
    BY DEF Checking
  <1>3. Keys' = Keys /\ DeployedFromSources' = DeployedFromSources
    BY DEF Keys, entries, DeployedFromSources, InScope
  <1>4. ASSUME NEW k \in DeployedFromSources
        PROVE  \/ \E i \in 1..Len(Tail(todo)) : Tail(todo)[i] = k
               \/ k \in failed'
               \/ StatusOf(file[k].address) = "verified"
    <2>1. Head(todo) \in Keys
      BY <1>2, TailOfTodo
    <2>2. CASE k = Head(todo)
      <3>1. success => StatusOf(file[k].address) = "verified"
        BY <2>1, <2>2, <1>2 DEF Current
      <3> QED BY <3>1, <2>2, <1>1
    <2>3. CASE \E i \in 1..Len(todo) : todo[i] = k
      BY <2>2, <2>3, <1>2, TailOfTodo
    <2>4. CASE k \in failed \/ StatusOf(file[k].address) = "verified"
      BY <2>4, <1>1
    <2> QED BY <2>3, <2>4 DEF Checking
  <1>5. \A k : StatusOf(file[k].address)' = StatusOf(file[k].address)
    BY DEF StatusOf
  <1>6. Tail(todo) \in Seq(Keys)
    BY <1>2, TailOfTodo
  <1>7. Checking'
    BY <1>1, <1>2, <1>3, <1>4, <1>5, <1>6 DEF Checking
  <1> QED BY <1>1, <1>7 DEF Polling
-----------------------------------------------------------------------------
LEMMA DeploymentInv ==
  ASSUME ReleaseInv, DeploymentStep \/ Crash \/ \E request : StartDeployment(request)
  PROVE  ReleaseInv'
  <1> USE DEF ReleaseInv
  <1> DEFINE Quiet == SortingKeys' /\ Polling' /\ Checking' /\ catalog' = catalog
  <1>1. ASSUME NEW request, StartDeployment(request)
        PROVE  Quiet
    <2>1. /\ catalog' = catalog /\ phase = "idle" /\ phase' = "planning" /\ job' = job
          /\ StartSort(BuildDependencies(catalog.entries, contract'))
      BY <1>1 DEF StartDeployment, world, verification, entries
    <2>2. /\ SortInv' /\ dependencies' = BuildDependencies(catalog.entries, contract')
      BY <2>1, DependenciesAcyclic, StartSortInv
    <2>3. SortingKeys'
      BY <2>1, <2>2, DependenciesAcyclic DEF SortingKeys, Keys, entries
    <2> QED BY <2>1, <2>3, NotChecking DEF Polling
  <1>2. CASE Sort
    <2>1. /\ catalog' = catalog /\ phase = "planning" /\ phase' = phase /\ job' = job
          /\ Leave \/ \E k \in Keys : Enter(k)
      BY <1>2 DEF Sort, world, verification
    <2>2. SortInv' /\ dependencies' = dependencies
      BY <2>1, LeaveInv, EnterInv DEF SortingKeys, Nodes
    <2> QED BY <2>1, <2>2, NotChecking DEF SortingKeys, Polling, Keys, entries
  <1>3. CASE Plan
    <2>1. /\ catalog' = catalog /\ phase = "planning" /\ phase' = "deploying" /\ job' = job
          /\ StartSort([k \in Keys |-> {}])
      BY <1>3 DEF Plan, verification
    <2> QED BY <2>1, NothingSorted, NotChecking DEF Polling
  <1>4. CASE DryRun
    BY <1>4, Forgotten DEF DryRun, world
  <1>5. CASE Construct
    BY <1>5, StillSorting, NotChecking DEF Construct, verification, Polling
  <1>6. CASE CannotEncode
    BY <1>6, Forgotten DEF CannotEncode, world
  <1>7. CASE Save
    BY <1>7, StillSorting, NotChecking DEF Save, verification, Polling
  <1>8. CASE Execute
    BY <1>8, StillSorting, CheckingUntouched DEF Execute, context
  <1>9. CASE ExecuteFails
    BY <1>9, StillSorting, CheckingUntouched DEF ExecuteFails, context
  <1>10. CASE SaveAgain
    <2>1. catalog' = catalog /\ phase = "configuring"
      BY <1>10 DEF SaveAgain
    <2>2. CASE Forget
      BY <2>1, <2>2, Forgotten
    <2>3. CASE phase' = "verifying" /\ UNCHANGED <<verification, sortVars>>
      BY <2>1, <2>3, StillSorting, NotChecking DEF verification, Polling
    <2> QED BY <2>1, <2>2, <2>3, <1>10 DEF SaveAgain
  <1>11. ASSUME NEW tx \in txs, Configure(tx)
         PROVE  Quiet
    BY <1>11, StillSorting, NotChecking DEF Configure, world, verification, Polling
  <1>12. CASE Crash
    BY <1>12, Forgotten DEF Crash
  <1> QED BY <1>1, <1>2, <1>3, <1>4, <1>5, <1>6, <1>7, <1>8, <1>9, <1>10, <1>11, <1>12
          DEF DeploymentStep

LEMMA VerificationInv ==
  ASSUME ReleaseInv, VerificationStep \/ StartChecking
  PROVE  ReleaseInv'
  <1> USE DEF ReleaseInv
  <1> DEFINE Quiet == SortingKeys' /\ Polling' /\ Checking' /\ catalog' = catalog
  <1>1. ASSUME NEW success, Conclude(success), phase \in {"verifying", "checking"}, todo # <<>>,
               success => StatusOf(Current) = "verified", UNCHANGED <<catalog, file, explorer>>
        PROVE  Quiet
    <2>1. SortingKeys' /\ job' = None /\ phase' = phase
      BY <1>1, StillSorting DEF Conclude
    <2> QED BY <2>1, <1>1, Concluded, NotChecking
  <1>2. ASSUME Raise, phase \in {"verifying", "checking"}, todo # <<>>,
               UNCHANGED <<catalog, file, explorer>>
        PROVE  Quiet
    BY <1>1, <1>2, Forgotten DEF Raise
  <1>3. CASE StartChecking
    <2>1. /\ phase = "idle" /\ phase' = "checking" /\ catalog' = catalog /\ file' = file
          /\ contract' = [k \in Keys |-> file[k].address]
          /\ todo' = InFileOrder(DeployedFromSources)
          /\ explorer' = explorer /\ job' = job /\ failed' = failed
          /\ UNCHANGED sortVars
      BY <1>3 DEF StartChecking, world, verification
    <2>2. Keys' = Keys /\ DeployedFromSources' = DeployedFromSources
      BY <2>1 DEF Keys, entries, DeployedFromSources, InScope
    <2>3. DeployedFromSources \subseteq Keys /\ IsFiniteSet(Keys)
      BY ReleaseAssumption DEF DeployedFromSources, InScope, Keys, entries
    <2>4. /\ todo' \in Seq(DeployedFromSources)
          /\ \A k \in DeployedFromSources : \E i \in 1..Len(todo') : todo'[i] = k
      BY <2>1, <2>3, InFileOrderComplete, FS_Subset
    <2>5. todo' \in Seq(Keys)
      BY <2>3, <2>4
    <2>6. Checking'
      BY <2>1, <2>2, <2>4, <2>5 DEF Checking
    <2>7. Polling'
      BY <2>1 DEF Polling
    <2> QED BY <2>1, <2>6, <2>7, StillSorting
  <1>4. CASE AlreadyVerified
    BY <1>1, <1>4 DEF AlreadyVerified, world
  <1>5. CASE ArgumentsDiffer
    BY <1>1, <1>5 DEF ArgumentsDiffer, world
  <1>6. CASE Submit
    <2>1. /\ phase \in {"verifying", "checking"} /\ todo # <<>>
          /\ StatusOf(Current) # "verified"
          /\ explorer' = WithSubmission(Current, Abi(Head(todo)))
          /\ catalog' = catalog /\ file' = file /\ phase' = phase /\ contract' = contract
          /\ todo' = todo /\ failed' = failed /\ UNCHANGED sortVars
      BY <1>6 DEF Submit, Verifying, context
    <2>2. \A a : StatusOf(a) = "verified" => StatusOf(a)' = "verified"
      <3>1. /\ DOMAIN explorer' = DOMAIN explorer \cup {Current}
            /\ \A a \in DOMAIN explorer : a # Current => explorer'[a] = explorer[a]
        BY <2>1 DEF WithSubmission
      <3> QED BY <2>1, <3>1 DEF StatusOf
    <2>3. Keys' = Keys /\ DeployedFromSources' = DeployedFromSources
      BY <2>1 DEF Keys, entries, DeployedFromSources, InScope
    <2>4. Checking'
      BY <2>1, <2>2, <2>3 DEF Checking
    <2>5. Polling'
      BY <2>1 DEF Polling
    <2> QED BY <2>1, <2>4, <2>5, StillSorting
  <1>7. CASE Refused
    BY <1>2, <1>7 DEF Refused, world
  <1>8. CASE RequestFails
    BY <1>2, <1>8 DEF RequestFails, Verifying
  <1>9. CASE Poll
    <2>1. /\ phase \in {"verifying", "checking"} /\ todo # <<>>
          /\ UNCHANGED <<catalog, file, explorer>>
      BY <1>9 DEF Poll, Polling, world
    <2>2. CASE Conclude(FALSE)
      BY <2>1, <2>2, <1>1
    <2>3. CASE Conclude(StatusOf(Current) = "verified")
      BY <2>1, <2>3, <1>1
    <2>4. CASE job' = job + 1 /\ UNCHANGED <<phase, context, todo, failed, sortVars>>
      <3>1. Polling'
        BY <2>1, <2>4 DEF Polling
      <3>2. Checking'
        BY <2>1, <2>4 DEF Checking, Keys, entries, DeployedFromSources, InScope, StatusOf, context
      <3> QED BY <2>1, <2>4, <3>1, <3>2, StillSorting
    <2> QED BY <2>2, <2>3, <2>4, <1>9 DEF Poll
  <1>10. CASE FinishVerification
    BY <1>10, Forgotten DEF FinishVerification, world
  <1> QED BY <1>3, <1>4, <1>5, <1>6, <1>7, <1>8, <1>9, <1>10 DEF VerificationStep

LEMMA PublishingInv ==
  ASSUME ReleaseInv, PublishingStep \/ StartPublishing
  PROVE  ReleaseInv'
  <1> USE DEF ReleaseInv
  <1>1. CASE StartPublishing
    BY <1>1, StillSorting, NotChecking DEF StartPublishing, world, verification, Polling
  <1>2. CASE UpdateAbi
    BY <1>2, StillSorting, NotChecking DEF UpdateAbi, verification, Polling
  <1>3. CASE UpdateConfigs
    BY <1>3, StillSorting, NotChecking DEF UpdateConfigs, world, verification, Polling
  <1>4. CASE UpdateConfig
    BY <1>4, StillSorting, NotChecking DEF UpdateConfig, verification, Polling
  <1>5. CASE FinishPublishing
    BY <1>5, Forgotten DEF FinishPublishing, world
  <1> QED BY <1>1, <1>2, <1>3, <1>4, <1>5 DEF PublishingStep

LEMMA OutsideInv ==
  ASSUME ReleaseInv,
         (\E a \in DOMAIN explorer : ExplorerAnswers(a)) \/ (\E name : EditSources(name))
            \/ UNCHANGED vars
  PROVE  ReleaseInv'
  <1> USE DEF ReleaseInv
  <1>1. ASSUME NEW a \in DOMAIN explorer, ExplorerAnswers(a)
        PROVE  SortingKeys' /\ Polling' /\ Checking' /\ catalog' = catalog
    <2>1. /\ StatusOf(a) = "pending"
          /\ explorer' = [explorer EXCEPT ![a].status =
                             IF explorer[a].abi = At(a).abi THEN "verified" ELSE "rejected"]
          /\ catalog' = catalog /\ file' = file /\ phase' = phase /\ contract' = contract
          /\ todo' = todo /\ job' = job /\ failed' = failed /\ UNCHANGED sortVars
      BY <1>1 DEF ExplorerAnswers, script, context, verification
    <2>2. \A b : StatusOf(b) = "verified" => StatusOf(b)' = "verified"
      BY <2>1 DEF StatusOf
    <2>3. Keys' = Keys /\ DeployedFromSources' = DeployedFromSources
      BY <2>1 DEF Keys, entries, DeployedFromSources, InScope
    <2>4. Checking'
      BY <2>1, <2>2, <2>3 DEF Checking
    <2>5. Polling'
      BY <2>1 DEF Polling
    <2> QED BY <2>1, <2>4, <2>5, StillSorting
  <1>2. ASSUME NEW name, EditSources(name)
        PROVE  SortingKeys' /\ Polling' /\ Checking' /\ catalog' = catalog
    BY <1>2, StillSorting, CheckingUntouched DEF EditSources, script, context
  <1>3. CASE UNCHANGED vars
    BY <1>3, StillSorting, CheckingUntouched DEF vars, world, script, context
  <1> QED BY <1>1, <1>2, <1>3
-----------------------------------------------------------------------------
\* The invariant that the theorems below are read off.
THEOREM ReleaseInvariant == Spec => []ReleaseInv
  <1>1. Init => ReleaseInv
    <2>1. SUFFICES ASSUME Init PROVE ReleaseInv
      OBVIOUS
    <2>2. /\ catalog \in Catalogs /\ phase = "idle" /\ job = None
          /\ dependencies = [k \in Keys |-> {}] /\ vis = {} /\ calls = <<>> /\ stack = <<>>
      BY <2>1 DEF Init, InitWorld
    <2>3. SortTypes /\ Accounted /\ Apart /\ DependentsBefore
      BY <2>2 DEF SortTypes, Accounted, Apart, DependentsBefore, Nodes
    <2>4. Deeper
      <3> DEFINE rank == [k \in Keys |-> 0]
      <3>1. rank \in [Nodes -> Nat] /\ Increasing(rank, dependencies)
        BY <2>2 DEF Nodes, Increasing
      <3> QED BY <2>2, <3>1 DEF Deeper
    <2> QED BY <2>2, <2>3, <2>4 DEF ReleaseInv, SortingKeys, SortInv, Polling, Checking
  <1>2. ReleaseInv /\ [Next]_vars => ReleaseInv'
    BY DeploymentInv, VerificationInv, PublishingInv, OutsideInv DEF Next, ScriptStep
  <1> QED BY <1>1, <1>2, PTL DEF Spec

\* Whatever order the sort walks its sets in, and whatever the configuration, it
\* puts a contract before every contract that is deployed after it.
THEOREM SortedOrderHolds == Spec => []SortedOrder
  <1>1. ReleaseInv => SortedOrder
    BY SortedBackwards DEF ReleaseInv, SortingKeys, SortedOrder
  <1> QED BY <1>1, ReleaseInvariant, PTL

\* verify.py never says that all contracts are verified when one is not, however
\* late the explorer answers and whatever request or poll failed.
THEOREM ReportIsTrueHolds == Spec => []ReportIsTrue
  <1>1. ReleaseInv => ReportIsTrue
    <2>1. SUFFICES ASSUME ReleaseInv, phase = "checking", todo = <<>>, failed = {},
                          NEW k \in DeployedFromSources
                   PROVE  StatusOf(file[k].address) = "verified"
      BY DEF ReportIsTrue
    <2>2. ~ \E i \in 1..Len(todo) : todo[i] = k
      BY <2>1
    <2> QED BY <2>1, <2>2 DEF ReleaseInv, Checking
  <1> QED BY <1>1, ReleaseInvariant, PTL
-----------------------------------------------------------------------------
(* What the configurations say.                                            *)

\* What the theorems need of the classes of contracts.
LEMMA ClassFacts ==
  ASSUME NEW name \in ClassNames
  PROVE  /\ Class(name).deployable \in BOOLEAN
         /\ Class(name).deployment_args \ Settable \subseteq Class(name).deployment_deps
         /\ ~ Class(name).deployable =>
               /\ Class(name).deployment_args = {} /\ Class(name).deployment_deps = {}
               /\ Class(name).config_deps = {}
         /\ \A c \in Class(name).config_deps :
               \/ c = <<"refinance_impl_key", "set_refinance_impl">>
               \/ c = <<"liquidation_impl_key", "set_liquidation_impl">>
               \/ c = <<"vault_registrar_connector_key", "set_vault_registrar_connector">>
               \/ c = <<"key", "set_proxy_auth">> /\ name = "SecuritizeLoop"
         /\ \A c \in Class(name).config_deps :
               c[1] \in Settable => c[1] \in Class(name).deployment_args
         /\ name = "SecuritizeLoop" => "p2p_contract_key" \in Class(name).deployment_deps
  <1> USE DEF Settable
  <1> DEFINE Goal ==
        /\ Class(name).deployable \in BOOLEAN
        /\ Class(name).deployment_args \ Settable \subseteq Class(name).deployment_deps
        /\ ~ Class(name).deployable =>
              /\ Class(name).deployment_args = {} /\ Class(name).deployment_deps = {}
              /\ Class(name).config_deps = {}
        /\ \A c \in Class(name).config_deps :
              \/ c = <<"refinance_impl_key", "set_refinance_impl">>
              \/ c = <<"liquidation_impl_key", "set_liquidation_impl">>
              \/ c = <<"vault_registrar_connector_key", "set_vault_registrar_connector">>
              \/ c = <<"key", "set_proxy_auth">> /\ name = "SecuritizeLoop"
        /\ \A c \in Class(name).config_deps :
              c[1] \in Settable => c[1] \in Class(name).deployment_args
        /\ name = "SecuritizeLoop" => "p2p_contract_key" \in Class(name).deployment_deps
  <1>1. ASSUME NEW names, Class(name) = DeployedAfter(names), name # "SecuritizeLoop"
        PROVE  Goal
    <2>1. /\ Class(name).deployable = TRUE /\ Class(name).config_deps = {}
          /\ Class(name).deployment_args = names /\ Class(name).deployment_deps = names
      BY <1>1 DEF DeployedAfter
    <2> QED BY <2>1, <1>1
  <1>2. CASE Class(name) = External /\ name # "SecuritizeLoop"
    BY <1>2 DEF External, DeployedAfter
  <1>3. CASE name = "P2PLendingVaultedErc20"
    BY <1>3 DEF Class, P2PLendingVaultedErc20, SetFacetsAndRegistrar, Market, Facets
  <1>4. CASE name = "P2PLendingSecuritizeErc20"
    BY <1>4 DEF Class, P2PLendingSecuritizeErc20, SetFacetsAndRegistrar, Market, Facets
  <1>5. CASE name = "SecuritizeLoop"
    <2>1. /\ Class(name).deployable = TRUE
          /\ Class(name).config_deps = {<<"key", "set_proxy_auth">>}
          /\ Class(name).deployment_args = {"p2p_contract_key", "balancer_key"}
          /\ Class(name).deployment_deps = {"p2p_contract_key", "balancer_key"}
      BY <1>5 DEF Class, SecuritizeLoop, DeployedAfter
    <2>2. \A c \in Class(name).config_deps :
             c = <<"key", "set_proxy_auth">> /\ c[1] = "key"
      BY <2>1
    <2> QED BY <2>1, <2>2, <1>5
  <1>6. CASE name \in {"ConfigValue", "ERC20External"}
    BY <1>6, <1>2 DEF Class, ConfigValue, ERC20External
  <1>7. CASE name \notin {"ConfigValue", "ERC20External", "SecuritizeLoop",
                          "P2PLendingSecuritizeErc20", "P2PLendingVaultedErc20"}
    <2>1. \E names : Class(name) = DeployedAfter(names)
      BY <1>7 DEF ClassNames, Class, P2PLendingV0Erc20, P2PLendingV0Securitize,
       P2PLendingErc20, P2PLendingSecuritize, VaultedImplementation, SecuritizeImplementation,
       VaultSecuritizeImpl, Oracle, Balancer, KYCValidator, CentrifugeOracleAdapter,
       XPrismOracleAdapter, DSToken, VaultRegistrarV2Mock, SecuritizeRegistrarV2Connector,
       Market, Facets
    <2> QED BY <2>1, <1>1, <1>7
  <1> QED BY <1>3, <1>4, <1>5, <1>6, <1>7

PropertyOf(k, n) == entries[k].properties[n]
ConfigDeps(k) == ClassOf(entries, k).config_deps

LEMMA KeyFacts ==
  ASSUME catalog \in Catalogs, NEW k \in Keys
  PROVE  /\ Deployable(entries, k) \in BOOLEAN
         /\ \A n \in DOMAIN entries[k].properties : PropertyOf(k, n) \in Keys
         /\ \A n \in Arguments(k) \ Settable :
               PropertyOf(k, n) \in Named(entries, k, ClassOf(entries, k).deployment_deps)
         /\ ~ Deployable(entries, k) =>
               /\ Arguments(k) = {} /\ ConfigDeps(k) = {}
               /\ Named(entries, k, ClassOf(entries, k).deployment_deps) = {}
         /\ Deployable(entries, k) => k \in Stored
         /\ \A n : None # <<k, n>> \/ n \notin Nat
  <1>1. /\ entries[k].contract \in ClassNames
        /\ \A n \in DOMAIN entries[k].properties : PropertyOf(k, n) \in Keys
        /\ Deployable(entries, k) => entries[k].scope \in {"common", "p2p", "proxies"}
        /\ None \notin Keys \X Nat
    BY CatalogsConfigured DEF Keys, entries, PropertyOf
  <1>2. Arguments(k) = ClassOf(entries, k).deployment_args \cap DOMAIN entries[k].properties
    BY DEF Arguments
  <1>3. /\ Deployable(entries, k) \in BOOLEAN
        /\ ClassOf(entries, k).deployment_args \ Settable
              \subseteq ClassOf(entries, k).deployment_deps
        /\ ~ Deployable(entries, k) =>
              /\ ClassOf(entries, k).deployment_args = {}
              /\ ClassOf(entries, k).deployment_deps = {}
              /\ ConfigDeps(k) = {}
    BY <1>1, ClassFacts DEF ClassOf, Deployable, ConfigDeps
  <1>4. \A n \in Arguments(k) \ Settable :
           PropertyOf(k, n) \in Named(entries, k, ClassOf(entries, k).deployment_deps)
    BY <1>2, <1>3 DEF Named, PropertyOf
  <1>5. ~ Deployable(entries, k) =>
           Arguments(k) = {} /\ Named(entries, k, ClassOf(entries, k).deployment_deps) = {}
    BY <1>2, <1>3 DEF Named
  <1> QED BY <1>1, <1>3, <1>4, <1>5 DEF Stored, InScope

LEMMA ConfigFacts ==
  ASSUME catalog \in Catalogs, NEW k \in Keys, NEW c \in ConfigDeps(k)
  PROVE  /\ \/ c = <<"refinance_impl_key", "set_refinance_impl">>
            \/ c = <<"liquidation_impl_key", "set_liquidation_impl">>
            \/ c = <<"vault_registrar_connector_key", "set_vault_registrar_connector">>
            \/ c = <<"key", "set_proxy_auth">>
         /\ Deployable(entries, k)
         /\ c[1] \in Settable \cap DOMAIN entries[k].properties =>
               /\ c[1] \in Arguments(k) /\ PropertyOf(k, c[1]) \in Keys
               /\ Deployable(entries, PropertyOf(k, c[1]))
         /\ c[1] = "key" =>
               /\ PropertyOf(k, "p2p_contract_key") \in Keys
               /\ Deployable(entries, PropertyOf(k, "p2p_contract_key"))
               /\ "p2p_contract_key" \in DOMAIN entries[k].properties
               /\ PropertyOf(k, "p2p_contract_key")
                     \in Named(entries, k, ClassOf(entries, k).deployment_deps)
  <1>1. /\ entries[k].contract \in ClassNames
        /\ \A n \in DOMAIN entries[k].properties : PropertyOf(k, n) \in Keys
        /\ \A n \in (Settable \cup {"p2p_contract_key"}) \cap DOMAIN entries[k].properties :
              Deployable(entries, PropertyOf(k, n))
        /\ entries[k].contract = "SecuritizeLoop" =>
              "p2p_contract_key" \in DOMAIN entries[k].properties
    BY CatalogsConfigured DEF Keys, entries, PropertyOf
  <1>2. /\ \/ c = <<"refinance_impl_key", "set_refinance_impl">>
           \/ c = <<"liquidation_impl_key", "set_liquidation_impl">>
           \/ c = <<"vault_registrar_connector_key", "set_vault_registrar_connector">>
           \/ c = <<"key", "set_proxy_auth">> /\ entries[k].contract = "SecuritizeLoop"
        /\ c[1] \in Settable => c[1] \in ClassOf(entries, k).deployment_args
        /\ entries[k].contract = "SecuritizeLoop" =>
              "p2p_contract_key" \in ClassOf(entries, k).deployment_deps
        /\ Deployable(entries, k)
    BY <1>1, ClassFacts DEF ConfigDeps, ClassOf, Deployable
  <1>3. c[1] = "key" => /\ entries[k].contract = "SecuritizeLoop"
                        /\ "p2p_contract_key" \in DOMAIN entries[k].properties
    BY <1>1, <1>2
  <1>4. c[1] = "key" =>
           PropertyOf(k, "p2p_contract_key")
              \in Named(entries, k, ClassOf(entries, k).deployment_deps)
    BY <1>2, <1>3 DEF Named, PropertyOf
  <1> QED BY <1>1, <1>2, <1>3, <1>4 DEF Arguments
-----------------------------------------------------------------------------
(* The elements of a sequence that are in a set.                           *)

Selects(r, s, S) ==
    /\ \A a, b \in 1..Len(r) : a < b =>
          \E i, j \in 1..Len(s) : i < j /\ r[a] = s[i] /\ r[b] = s[j]
    /\ \A i \in 1..Len(s) : s[i] \in S => \E a \in 1..Len(r) : r[a] = s[i]

LEMMA SelectedFacts ==
  ASSUME NEW T, NEW s \in Seq(T), NEW S
  PROVE  Selected(s, S) \in Seq(T \cap S) /\ Selects(Selected(s, S), s, S)
  <1> DEFINE P == {i \in 1..Len(s) : s[i] \in S}
             Upto(i) == {j \in P : j <= i}
             Rank(i) == Cardinality(Upto(i))
             n == Cardinality(P)
             rank == [i \in P |-> Rank(i)]
             At_(m) == CHOOSE i \in P : Rank(i) = m
  <1>1. Len(s) \in Nat /\ IsFiniteSet(1..Len(s))
    BY FS_Interval
  <1>2. IsFiniteSet(P) /\ n \in Nat
    BY <1>1, FS_Subset, FS_CardinalityType
  <1>3. ASSUME NEW i \in P
        PROVE  /\ IsFiniteSet(Upto(i)) /\ Rank(i) \in 1..n
    <2>1. IsFiniteSet(Upto(i)) /\ Rank(i) <= n /\ Rank(i) \in Nat
      BY <1>2, FS_Subset, FS_CardinalityType
    <2>2. i \in Upto(i)
      BY <1>1
    <2>3. Rank(i) # 0
      BY <2>1, <2>2, FS_EmptySet
    <2> QED BY <2>1, <2>3, <1>2
  <1>4. ASSUME NEW i \in P, NEW j \in P, i < j
        PROVE  Rank(i) < Rank(j)
    <2>1. Upto(i) \subseteq Upto(j) /\ j \notin Upto(i) /\ j \in Upto(j)
      BY <1>1, <1>4
    <2>2. IsFiniteSet(Upto(j))
      BY <1>3
    <2>3. Rank(i) <= Rank(j) /\ Rank(i) # Rank(j)
      BY <2>1, <2>2, FS_Subset
    <2>4. Rank(i) \in Nat /\ Rank(j) \in Nat
      <3> HIDE DEF P, Upto, n
      <3> QED BY <1>2, <1>3
    <2> QED BY <2>3, <2>4
  <1>5. rank \in Injection(P, 1..n)
    <2>1. rank \in [P -> 1..n]
      <3> HIDE DEF P, Rank, n
      <3> QED BY <1>3
    <2>2. ASSUME NEW i \in P, NEW j \in P, rank[i] = rank[j] PROVE i = j
      <3>1. i \in Nat /\ j \in Nat /\ Rank(i) = Rank(j)
        BY <2>2, <1>1
      <3>2. Rank(i) \in Nat /\ Rank(j) \in Nat
        <4> HIDE DEF P, Upto, n
        <4> QED BY <1>2, <1>3
      <3>3. i < j => Rank(i) < Rank(j)
        BY <1>4
      <3>4. j < i => Rank(j) < Rank(i)
        BY <1>4
      <3> HIDE DEF Rank
      <3> QED BY <3>1, <3>2, <3>3, <3>4
    <2> QED BY <2>1, <2>2 DEF Injection, IsInjective
  <1>6. rank \in Surjection(P, 1..n)
    <2>1. Cardinality(1..n) = n /\ IsFiniteSet(1..n)
      BY <1>2, FS_Interval
    <2> QED BY <1>2, <1>5, <2>1, FS_Injection
  <1>7. ASSUME NEW m \in 1..n
        PROVE  At_(m) \in P /\ Rank(At_(m)) = m
    <2>1. \E i \in P : Rank(i) = m
      BY <1>6, Zenon DEF Surjection
    <2> QED BY <2>1
  <1>8. Selected(s, S) = [m \in 1..n |-> s[At_(m)]]
    BY DEF Selected
  <1>9. \A m \in 1..n : Selected(s, S)[m] = s[At_(m)] /\ Selected(s, S)[m] \in T \cap S
    <2>1. \A i \in P : s[i] \in T \cap S
      OBVIOUS
    <2> HIDE DEF P, At_, n
    <2> QED BY <1>7, <1>8, <2>1
  <1>10. Selected(s, S) \in Seq(T \cap S) /\ Len(Selected(s, S)) = n
    <2> HIDE DEF n, At_
    <2> QED BY <1>2, <1>8, <1>9
  <1>11. ASSUME NEW a \in 1..n, NEW b \in 1..n, a < b
         PROVE  At_(a) < At_(b)
    <2> HIDE DEF Rank, P, At_, n
    <2>1. /\ At_(a) \in P /\ At_(b) \in P /\ Rank(At_(a)) = a /\ Rank(At_(b)) = b
      BY <1>7
    <2>2. a \in Nat /\ b \in Nat /\ At_(a) \in Nat /\ At_(b) \in Nat
      BY <1>1, <1>2, <2>1 DEF P
    <2>3. At_(b) < At_(a) => b < a
      BY <2>1, <1>4
    <2>4. At_(b) # At_(a)
      BY <2>1, <1>11, <2>2
    <2> QED BY <2>2, <2>3, <2>4, <1>11
  <1>12. \A a, b \in 1..n : a < b =>
            \E i, j \in 1..Len(s) : i < j /\ Selected(s, S)[a] = s[i] /\ Selected(s, S)[b] = s[j]
    <2> HIDE DEF At_, n, Rank
    <2>1. ASSUME NEW a \in 1..n, NEW b \in 1..n, a < b
          PROVE  \E i, j \in 1..Len(s) :
                    i < j /\ Selected(s, S)[a] = s[i] /\ Selected(s, S)[b] = s[j]
      <3>1. At_(a) \in 1..Len(s) /\ At_(b) \in 1..Len(s) /\ At_(a) < At_(b)
        BY <1>7, <1>11, <2>1
      <3> QED BY <3>1, <1>9
    <2> QED BY <2>1
  <1>13. ASSUME NEW i \in 1..Len(s), s[i] \in S
         PROVE  \E a \in 1..n : Selected(s, S)[a] = s[i]
    <2>1. i \in P
      BY <1>13
    <2>2. Rank(i) \in 1..n
      BY <2>1, <1>3
    <2> DEFINE m == Rank(i)
    <2>3. At_(m) \in P /\ Rank(At_(m)) = m
      BY <2>2, <1>7
    <2> HIDE DEF m
    <2>4. At_(m) = i
      <3>1. rank[At_(m)] = rank[i]
        BY <2>1, <2>3 DEF m
      <3> HIDE DEF rank, P, At_
      <3> QED BY <2>1, <2>3, <3>1, <1>5 DEF Injection, IsInjective
    <2> QED BY <2>2, <2>4, <1>9 DEF m
  <1> HIDE DEF n
  <1> QED BY <1>10, <1>12, <1>13 DEF Selects
-----------------------------------------------------------------------------
(* What the scripts record and what is on chain.  The conditions take the  *)
(* chain (ch) and the addresses they speak about (ctx), which are those of *)
(* the running deployment or those of the file.                            *)

Recorded == [k \in Keys |-> file[k].address]
Addresses == (Keys \X Nat) \cup {None}
Releases(k) == {entries[k].contract} \X Nat

\* None, or a contract deployed for k.
Exists(ch, k, a) == a = None \/ \E n \in 1..Len(ch[k]) : a = <<k, n>>

Contract(k) ==
    [links : [Arguments(k) -> Addresses], authorized : SUBSET Addresses, abi : Releases(k)]

ChainOK(ch) ==
    /\ ch = [k \in Keys |-> ch[k]]
    /\ \A k \in Keys : ch[k] \in Seq(Contract(k))
    /\ \A k \in Keys : \A i \in 1..Len(ch[k]) : \A n \in Arguments(k) :
          Exists(ch, PropertyOf(k, n), ch[k][i].links[n])

ContextOK(ch, ctx) ==
    /\ ctx = [k \in Keys |-> ctx[k]]
    /\ \A k \in Keys : Exists(ch, k, ctx[k])

\* The contract of k was built with the contracts its properties name.
Built(ch, ctx, k) ==
    ctx[k] # None => \A n \in Arguments(k) \ Settable :
        ch[k][ctx[k][2]].links[n] = ctx[PropertyOf(k, n)]

Linked(ch, ctx, k, name) == ch[k][ctx[k][2]].links[name] = ctx[PropertyOf(k, name)]
Granted(ch, ctx, k, target) ==
    ctx[target] # None => ctx[k] \in ch[target][ctx[target][2]].authorized

\* The links and authorisations of k are right, but for transactions in the
\* sets: links that may still be set (L) and grants that may be missing (G).
Settled(ch, ctx, k, L, G) ==
    ctx[k] # None => \A c \in ConfigDeps(k) :
        /\ c[1] \in Settable \cap DOMAIN entries[k].properties /\ <<k, c[2]>> \notin L =>
              Linked(ch, ctx, k, c[1])
        /\ c[1] = "vault_registrar_connector_key" /\ c[1] \in DOMAIN entries[k].properties
              /\ <<k, c[2]>> \notin G /\ Linked(ch, ctx, k, c[1]) =>
              Granted(ch, ctx, k, PropertyOf(k, c[1]))
        /\ c[1] = "key" /\ <<k, c[2]>> \notin L =>
              Granted(ch, ctx, k, PropertyOf(k, "p2p_contract_key"))

\* What a local deployment works without, though the file may have an address:
\* the contracts that no script deploys.
Blanked ==
    {k \in Keys : /\ catalog.env = "local" /\ entries[k].scope # "configs"
                  /\ ~ Deployable(entries, k)}

\* No argument of the constructor of k is one of them.
Complete(k) == \A n \in Arguments(k) : PropertyOf(k, n) \notin Blanked

\* The address of k is that of the last contract deployed for it.
Newest(ch, ctx, k) == k \notin Blanked /\ Len(ch[k]) > 0 => ctx[k] = <<k, Len(ch[k])>>

\* What the deployment still deploys, and what it still configures.
InDeployment == phase \in {"deploying", "configuring"}
Ahead == {todo[i] : i \in 1..Len(todo)}
PendingLinks ==
    {pending[i].tx : i \in {j \in 1..Len(pending) : pending[j].func # "change_authorized_contract"}}
PendingGrants ==
    {pending[i].tx : i \in {j \in 1..Len(pending) : pending[j].func = "change_authorized_contract"}}
OpenLinks == unsettled \cup txs \cup PendingLinks
OpenGrants == unsettled \cup PendingGrants

\* The calls under way: the one that authorises a contract, or those of one
\* configuration transaction.
Ready(k) == k \in Keys /\ contract[k] # None
Authorising(k) ==
    /\ Ready(k) /\ HasConnector(k) /\ Ready(Connector(k))
    /\ pending = <<ChangeAuthorizedContract(k)>>
SettingConnector(k) ==
    /\ Ready(k) /\ HasConnector(k) /\ Ready(Connector(k))
    /\ pending = <<Call(k, "change_vault_registrar", Connector(k), RegistrarTx(k)),
                   ChangeAuthorizedContract(k)>>
SettingFacet(k, name, func, tx) ==
    /\ Ready(k) /\ name \in Arguments(k)
    /\ pending = <<Call(k, func, PropertyOf(k, name), <<k, tx>>)>>
AuthorisingProxy(k) ==
    /\ Ready(k) /\ "p2p_contract_key" \in DOMAIN entries[k].properties
    /\ Ready(PropertyOf(k, "p2p_contract_key"))
    /\ pending = SetProxyAuth(k, <<k, "set_proxy_auth">>)

PendingOK ==
    /\ ~InDeployment => pending = <<>>
    /\ InDeployment /\ pending # <<>> => \E k \in Keys :
          \/ Authorising(k)
          \/ phase = "configuring" /\ SettingConnector(k)
          \/ phase = "configuring"
                /\ SettingFacet(k, "refinance_impl_key", "set_refinance_addr", "set_refinance_impl")
          \/ phase = "configuring"
                /\ SettingFacet(k, "liquidation_impl_key", "set_liquidation_addr",
                                "set_liquidation_impl")
          \/ phase = "configuring" /\ AuthorisingProxy(k)

TxsOK ==
    \A tx \in txs : \E k \in Keys : \E c \in ConfigDeps(k) :
        tx = <<k, c[2]>> /\ (c[1] = "key" \/ c[1] \in DOMAIN entries[k].properties)

PhaseOK ==
    /\ phase \in Phases
    /\ job \in 0..(MaxAttempts - 1) \cup {None}
    /\ phase = "idle" => todo = <<>> /\ job = None /\ failed = {}
    /\ phase = "configuring" => todo = <<>>

Sources == {entries[k].contract : k \in Keys}

WorldOK ==
    /\ ChainOK(chain)
    /\ file = [k \in Keys |-> file[k]]
    /\ ContextOK(chain, Recorded)
    /\ source \in [Sources -> Nat]
    /\ \A a \in DOMAIN explorer : \E k \in Keys : \E n \in 1..Len(chain[k]) : a = <<k, n>>

ScriptOK ==
    /\ ContextOK(chain, contract)
    /\ contracts_to_deploy \in Seq(Keys)
    /\ Verifying => todo \in Seq(Keys) /\ \A i \in 1..Len(todo) : contract[todo[i]] # None

\* What a deployment has planned.
Planned ==
    phase = "planning" =>
        /\ contract = [k \in Keys |-> LoadedContract(k)]
        /\ dependencies = BuildDependencies(entries, contract)

\* What is still to be deployed comes after what it is deployed after, and is
\* needed by nothing that was deployed or left as it was.
AheadOK ==
    /\ todo \in Seq(Keys)
    /\ \A i, j \in 1..Len(todo) : i # j => todo[i] # todo[j]
    /\ \A i, j \in 1..Len(todo) :
          i < j => todo[j] \notin DeploymentDependencies(entries, contract, todo[i])
    /\ \A k \in Ahead : Deployable(entries, k)
    /\ \A k \in Keys \ Ahead :
          Named(entries, k, ClassOf(entries, k).deployment_deps) \cap Ahead = {}
    /\ \A k \in Keys : Deployable(entries, k) /\ contract[k] = None => k \in Ahead

\* What no transaction will set names nothing that is still to be deployed.
Untouched ==
    \A k \in Keys : \A c \in ConfigDeps(k) : <<k, c[2]>> \notin txs =>
        /\ c[1] \in Settable \cap DOMAIN entries[k].properties => PropertyOf(k, c[1]) \notin Ahead
        /\ c[1] = "key" => k \notin Ahead

ContextAgrees ==
    /\ \A k \in Keys \ Ahead :
          Built(chain, contract, k) /\ Settled(chain, contract, k, OpenLinks, OpenGrants)
    /\ \A k \in Keys : ~ Deployable(entries, k) =>
          contract[k] = IF k \in Blanked THEN None ELSE file[k].address
    /\ \A k \in Keys : contract[k] # None => Complete(k)
    /\ \A k \in Keys : file[k].address # None /\ contract[k] # None =>
          file[k].address[2] <= contract[k][2]
    /\ phase = "deploying" => Untouched
    /\ phase = "configuring" => \A k \in Keys \ Blanked : contract[k] = Recorded[k]
    /\ phase = "deploying" /\ ~interrupted => \A k \in Keys \ Ahead : Newest(chain, contract, k)

FileAgrees ==
    /\ \A k \in Keys : Built(chain, Recorded, k)
    /\ \A k \in Stored : file[k].address # None =>
          \A n \in DOMAIN file[k].properties_addresses \cap Arguments(k) :
             file[k].properties_addresses[n] = file[PropertyOf(k, n)].address
    /\ phase # "configuring" =>
          \A k \in Keys : Settled(chain, Recorded, k, unsettled, unsettled)
    /\ phase # "deploying" /\ ~interrupted => \A k \in Keys : Newest(chain, Recorded, k)

RecordsOK ==
    /\ PhaseOK /\ PendingOK /\ TxsOK /\ WorldOK /\ ScriptOK
    /\ Planned /\ FileAgrees
    /\ InDeployment => AheadOK /\ ContextAgrees

-----------------------------------------------------------------------------
(* What is published.                                                      *)

BuiltFrom(ch, ctx, k, build) == ctx[k] # None => build = ch[k][ctx[k][2]].abi

\* The key of an ABI, in the file and in the context of a deployment, is that of
\* the build deployed at the address that stands next to it.
Deploying == phase \in {"planning", "deploying", "configuring"}
BuildsMatch ==
    /\ \A k \in Keys : BuiltFrom(chain, Recorded, k, file[k].abi_key)
    /\ Deploying => /\ DOMAIN abi_key = Keys
                    /\ \A k \in Keys : BuiltFrom(chain, contract, k, abi_key[k])

\* No configuration is published before every ABI is.
AbisFirst ==
    /\ phase = "publishing abis" =>
          /\ todo \in Seq(Stored)
          /\ \A k \in Stored : Abi(k) \in abis \/ \E i \in 1..Len(todo) : todo[i] = k
    /\ phase = "publishing configs" =>
          /\ todo \in Seq(Stored)
          /\ \A k \in Stored : Abi(k) \in abis
    /\ phase \in {"publishing abis", "publishing configs"} =>
          \A k \in Stored : file[k].address # None

ConfigsExist ==
    \A k \in DOMAIN configs :
        /\ k \in Keys /\ configs[k].address # None
        /\ Exists(chain, k, configs[k].address)

PublishedOK == BuildsMatch /\ AbisFirst /\ ConfigsExist
-----------------------------------------------------------------------------
(* What a step does to the contracts that are there already.               *)

Kept(ch, ch2) ==
    \A k \in Keys :
        /\ Len(ch[k]) <= Len(ch2[k])
        /\ \A i \in 1..Len(ch[k]) :
              /\ \A n \in Arguments(k) \ Settable : ch2[k][i].links[n] = ch[k][i].links[n]
              /\ ch[k][i].authorized \subseteq ch2[k][i].authorized
              /\ ch2[k][i].abi = ch[k][i].abi

LinksKept(ch, ch2) ==
    \A k \in Keys : \A i \in 1..Len(ch[k]) : \A n \in Arguments(k) :
        ch2[k][i].links[n] = ch[k][i].links[n]

LEMMA LengthsNatural ==
  ASSUME NEW ch, ChainOK(ch), NEW k \in Keys
  PROVE  Len(ch[k]) \in Nat /\ \A i \in 1..Len(ch[k]) : ch[k][i] \in Contract(k)
  BY DEF ChainOK

LEMMA ExistsKept ==
  ASSUME NEW ch, NEW ch2, ChainOK(ch), ChainOK(ch2), Kept(ch, ch2), NEW k \in Keys, NEW a,
         Exists(ch, k, a)
  PROVE  Exists(ch2, k, a)
  <1>1. Len(ch[k]) \in Nat /\ Len(ch2[k]) \in Nat /\ Len(ch[k]) <= Len(ch2[k])
    BY LengthsNatural DEF Kept
  <1> QED BY <1>1 DEF Exists

LEMMA ExistsAddress ==
  ASSUME NEW ch, ChainOK(ch), NEW k \in Keys, NEW a, Exists(ch, k, a)
  PROVE  a \in Addresses
  <1>1. Len(ch[k]) \in Nat
    BY LengthsNatural
  <1>2. CASE a = None
    BY <1>2 DEF Addresses
  <1>3. ASSUME NEW n \in 1..Len(ch[k]), a = <<k, n>> PROVE a \in Addresses
    <2>1. n \in Nat
      BY <1>1
    <2> QED BY <2>1, <1>3 DEF Addresses
  <1> QED BY <1>2, <1>3 DEF Exists

LEMMA ContextKept ==
  ASSUME NEW ch, NEW ch2, ChainOK(ch), ChainOK(ch2), Kept(ch, ch2), NEW ctx,
         ContextOK(ch, ctx)
  PROVE  ContextOK(ch2, ctx)
  BY ExistsKept DEF ContextOK

\* Where a context has an address for k.
LEMMA Placed ==
  ASSUME NEW ch, NEW ctx, ContextOK(ch, ctx), NEW k \in Keys, ctx[k] # None
  PROVE  ctx[k] = <<k, ctx[k][2]>> /\ ctx[k][2] \in 1..Len(ch[k])
  BY DEF ContextOK, Exists

LEMMA BuiltKept ==
  ASSUME NEW ch, NEW ch2, Kept(ch, ch2), NEW ctx, ContextOK(ch, ctx), NEW k \in Keys,
         Built(ch, ctx, k)
  PROVE  Built(ch2, ctx, k)
  BY Placed DEF Built, Kept

LEMMA GrantedKept ==
  ASSUME NEW ch, NEW ch2, Kept(ch, ch2), NEW ctx, ContextOK(ch, ctx), NEW k, NEW t \in Keys,
         Granted(ch, ctx, k, t)
  PROVE  Granted(ch2, ctx, k, t)
  BY Placed DEF Granted, Kept

LEMMA SettledKept ==
  ASSUME catalog \in Catalogs,
         NEW ch, NEW ch2, Kept(ch, ch2), LinksKept(ch, ch2), NEW ctx, ContextOK(ch, ctx),
         NEW L, NEW G, NEW L2, NEW G2, L \subseteq L2, G \subseteq G2,
         NEW k \in Keys, Settled(ch, ctx, k, L, G)
  PROVE  Settled(ch2, ctx, k, L2, G2)
  <1> SUFFICES ASSUME ctx[k] # None, NEW c \in ConfigDeps(k)
               PROVE  /\ c[1] \in Settable \cap DOMAIN entries[k].properties
                            /\ <<k, c[2]>> \notin L2 => Linked(ch2, ctx, k, c[1])
                      /\ c[1] = "vault_registrar_connector_key"
                            /\ c[1] \in DOMAIN entries[k].properties
                            /\ <<k, c[2]>> \notin G2 /\ Linked(ch2, ctx, k, c[1]) =>
                            Granted(ch2, ctx, k, PropertyOf(k, c[1]))
                      /\ c[1] = "key" /\ <<k, c[2]>> \notin L2 =>
                            Granted(ch2, ctx, k, PropertyOf(k, "p2p_contract_key"))
    BY DEF Settled
  <1>1. ctx[k][2] \in 1..Len(ch[k])
    BY Placed
  <1>2. c[1] \in Settable \cap DOMAIN entries[k].properties =>
           c[1] \in Arguments(k) /\ PropertyOf(k, c[1]) \in Keys
    BY ConfigFacts
  <1>3. c[1] = "key" => PropertyOf(k, "p2p_contract_key") \in Keys
    BY ConfigFacts
  <1>4. c[1] \in Arguments(k) => (Linked(ch2, ctx, k, c[1]) <=> Linked(ch, ctx, k, c[1]))
    BY <1>1 DEF Linked, LinksKept
  <1>5. "vault_registrar_connector_key" \in Settable
    BY DEF Settable
  <1> QED BY <1>2, <1>3, <1>4, <1>5, GrantedKept DEF Settled

\* A contract is deployed for k; the contract deployed for t at m changes.
WithContract(ch, k, r) == [ch EXCEPT ![k] = Append(@, r)]
WithChange(ch, t, m, r) == [ch EXCEPT ![t] = [@ EXCEPT ![m] = r]]

LEMMA Appended ==
  ASSUME NEW ch, ChainOK(ch), NEW k \in Keys, NEW r \in Contract(k),
         \A n \in Arguments(k) : Exists(ch, PropertyOf(k, n), r.links[n]),
         catalog \in Catalogs,
         NEW ch2, ch2 = WithContract(ch, k, r)
  PROVE  /\ ChainOK(ch2) /\ Kept(ch, ch2) /\ LinksKept(ch, ch2)
         /\ Len(ch2[k]) = Len(ch[k]) + 1 /\ ch2[k][Len(ch[k]) + 1] = r
         /\ \A x \in Keys \ {k} : ch2[x] = ch[x]
  <1>1. /\ ch = [x \in Keys |-> ch[x]] /\ \A x \in Keys : ch[x] \in Seq(Contract(x))
        /\ \A x \in Keys : \A i \in 1..Len(ch[x]) : \A n \in Arguments(x) :
              Exists(ch, PropertyOf(x, n), ch[x][i].links[n])
    BY DEF ChainOK
  <1>2. /\ ch2 = [x \in Keys |-> ch2[x]]
        /\ ch2[k] = Append(ch[k], r) /\ \A x \in Keys \ {k} : ch2[x] = ch[x]
    BY <1>1 DEF WithContract
  <1> DEFINE len == Len(ch[k])
  <1>3. /\ len \in Nat /\ Len(ch2[k]) = len + 1 /\ ch2[k][len + 1] = r
        /\ ch2[k] \in Seq(Contract(k))
        /\ \A i \in 1..len : ch2[k][i] = ch[k][i]
    <2> DEFINE old == ch[k]
    <2>1. old \in Seq(Contract(k)) /\ ch2[k] = Append(old, r)
      BY <1>1, <1>2
    <2> HIDE DEF old
    <2>2. /\ Len(old) \in Nat /\ Len(ch2[k]) = Len(old) + 1 /\ ch2[k][Len(old) + 1] = r
          /\ ch2[k] \in Seq(Contract(k))
          /\ \A i \in 1..Len(old) : ch2[k][i] = old[i]
      BY <2>1
    <2> QED BY <2>2 DEF old
  <1>4. Kept(ch, ch2) /\ LinksKept(ch, ch2)
    <2>1. ASSUME NEW x \in Keys
          PROVE  Len(ch[x]) <= Len(ch2[x]) /\ \A i \in 1..Len(ch[x]) : ch2[x][i] = ch[x][i]
      <3>1. Len(ch[x]) \in Nat
        BY <1>1
      <3>2. CASE x = k
        BY <3>2, <1>3
      <3>3. CASE x # k
        BY <3>1, <3>3, <1>2
      <3> QED BY <3>2, <3>3
    <2> QED BY <2>1 DEF Kept, LinksKept
  <1>5. ASSUME NEW x \in Keys, NEW a, Exists(ch, x, a)
        PROVE  Exists(ch2, x, a)
    <2>1. Len(ch[x]) \in Nat /\ Len(ch2[x]) \in Nat /\ Len(ch[x]) <= Len(ch2[x])
      <3>1. ch2[x] \in Seq(Contract(x)) /\ ch[x] \in Seq(Contract(x))
        BY <1>1, <1>2, <1>3
      <3> QED BY <3>1, <1>4 DEF Kept
    <2> QED BY <2>1, <1>5 DEF Exists
  <1>6. ASSUME NEW x \in Keys, NEW i \in 1..Len(ch2[x]), NEW n \in Arguments(x)
        PROVE  Exists(ch2, PropertyOf(x, n), ch2[x][i].links[n])
    <2>1. PropertyOf(x, n) \in Keys
      BY KeyFacts DEF Arguments
    <2>2. CASE x = k /\ i = len + 1
      BY <2>1, <2>2, <1>3, <1>5
    <2>3. CASE ~(x = k /\ i = len + 1)
      <3>1. i \in 1..Len(ch[x]) /\ ch2[x][i] = ch[x][i]
        BY <2>3, <1>2, <1>3
      <3> QED BY <2>1, <3>1, <1>1, <1>5
    <2> QED BY <2>2, <2>3
  <1>7. ChainOK(ch2)
    <2>1. \A x \in Keys : ch2[x] \in Seq(Contract(x))
      BY <1>1, <1>2, <1>3
    <2> QED BY <2>1, <1>2, <1>6 DEF ChainOK
  <1> QED BY <1>2, <1>3, <1>4, <1>7

\* What is deployed for t at m changes, but for what it was built with.
LEMMA Changed ==
  ASSUME NEW ch, ChainOK(ch), NEW t \in Keys, NEW m \in 1..Len(ch[t]), NEW r \in Contract(t),
         \A n \in Arguments(t) : Exists(ch, PropertyOf(t, n), r.links[n]),
         \A n \in Arguments(t) \ Settable : r.links[n] = ch[t][m].links[n],
         ch[t][m].authorized \subseteq r.authorized, r.abi = ch[t][m].abi,
         catalog \in Catalogs,
         NEW ch2, ch2 = WithChange(ch, t, m, r)
  PROVE  /\ ChainOK(ch2) /\ Kept(ch, ch2)
         /\ \A k \in Keys : Len(ch2[k]) = Len(ch[k])
         /\ ch2[t][m] = r
         /\ \A k \in Keys : \A i \in 1..Len(ch[k]) : <<k, i>> # <<t, m>> => ch2[k][i] = ch[k][i]
  <1>1. /\ ch = [x \in Keys |-> ch[x]] /\ \A x \in Keys : ch[x] \in Seq(Contract(x))
        /\ \A x \in Keys : \A i \in 1..Len(ch[x]) : \A n \in Arguments(x) :
              Exists(ch, PropertyOf(x, n), ch[x][i].links[n])
    BY DEF ChainOK
  <1> DEFINE s2 == [ch[t] EXCEPT ![m] = r]
  <1>2. /\ ch2 = [x \in Keys |-> ch2[x]]
        /\ ch2[t] = s2 /\ \A x \in Keys \ {t} : ch2[x] = ch[x]
    BY <1>1 DEF WithChange
  <1>3. /\ s2 \in Seq(Contract(t)) /\ Len(s2) = Len(ch[t]) /\ s2[m] = r
        /\ \A i \in 1..Len(ch[t]) : i # m => s2[i] = ch[t][i]
    BY <1>1
  <1> HIDE DEF s2
  <1>4. \A x \in Keys : Len(ch2[x]) = Len(ch[x]) /\ Len(ch[x]) \in Nat
    BY <1>1, <1>2, <1>3
  <1>5. ASSUME NEW x \in Keys, NEW i \in 1..Len(ch[x]), <<x, i>> # <<t, m>>
        PROVE  ch2[x][i] = ch[x][i]
    BY <1>2, <1>3, <1>5
  <1>6. Kept(ch, ch2)
    <2>1. ASSUME NEW x \in Keys, NEW i \in 1..Len(ch[x])
          PROVE  /\ \A n \in Arguments(x) \ Settable : ch2[x][i].links[n] = ch[x][i].links[n]
                 /\ ch[x][i].authorized \subseteq ch2[x][i].authorized
                 /\ ch2[x][i].abi = ch[x][i].abi
      <3>1. CASE x = t /\ i = m
        BY <3>1, <1>2, <1>3
      <3>2. CASE ~(x = t /\ i = m)
        BY <3>2, <1>5
      <3> QED BY <3>1, <3>2
    <2> QED BY <2>1, <1>4 DEF Kept
  <1>7. ASSUME NEW x \in Keys, NEW i \in 1..Len(ch2[x]), NEW n \in Arguments(x)
        PROVE  Exists(ch2, PropertyOf(x, n), ch2[x][i].links[n])
    <2>1. PropertyOf(x, n) \in Keys
      BY KeyFacts DEF Arguments
    <2>2. Exists(ch, PropertyOf(x, n), ch2[x][i].links[n])
      <3>1. CASE x = t /\ i = m
        BY <3>1, <1>2, <1>3
      <3>2. CASE ~(x = t /\ i = m)
        BY <3>2, <1>1, <1>4, <1>5
      <3> QED BY <3>1, <3>2
    <2> QED BY <2>1, <2>2, <1>4 DEF Exists
  <1>8. ChainOK(ch2)
    <2>1. \A x \in Keys : ch2[x] \in Seq(Contract(x))
      BY <1>1, <1>2, <1>3
    <2> QED BY <2>1, <1>2, <1>7 DEF ChainOK
  <1> QED BY <1>2, <1>3, <1>4, <1>5, <1>6, <1>8
-----------------------------------------------------------------------------
\* No script changes the configuration, so that what is defined by it stays.
LEMMA SameCatalog ==
  ASSUME catalog' = catalog
  PROVE  /\ Keys' = Keys /\ entries' = entries /\ Stored' = Stored /\ Sources' = Sources
         /\ Blanked' = Blanked
         /\ \A k : /\ Complete(k)' <=> Complete(k)
                   /\ Arguments(k)' = Arguments(k) /\ ConfigDeps(k)' = ConfigDeps(k)
                   /\ Contract(k)' = Contract(k)
         /\ \A k, n : PropertyOf(k, n)' = PropertyOf(k, n)
  BY DEF Keys, entries, Stored, InScope, Arguments, ConfigDeps, Contract, Addresses, Releases,
         PropertyOf, Sources, Blanked, Complete

\* The conditions on two contexts that only differ in what is blanked.
LEMMA OutsideBlanked ==
  ASSUME catalog \in Catalogs, NEW ch, NEW ctx, NEW ctx2,
         \A x \in Keys \ Blanked : ctx2[x] = ctx[x], NEW k \in Keys
  PROVE  /\ Newest(ch, ctx, k) => Newest(ch, ctx2, k)
         /\ Complete(k) /\ Built(ch, ctx, k) => Built(ch, ctx2, k)
         /\ \A L, G : Settled(ch, ctx, k, L, G) => Settled(ch, ctx2, k, L, G)
  <1>1. Newest(ch, ctx, k) => Newest(ch, ctx2, k)
    BY DEF Newest
  <1>2. CASE ~ Deployable(entries, k)
    <2>1. Arguments(k) = {} /\ ConfigDeps(k) = {}
      BY <1>2, KeyFacts
    <2> QED BY <2>1, <1>1 DEF Built, Settled
  <1>3. CASE Deployable(entries, k)
    <2>1. \A x \in Keys : Deployable(entries, x) => ctx2[x] = ctx[x]
      BY DEF Blanked
    <2>2. ctx2[k] = ctx[k]
      BY <2>1, <1>3
    <2>3. Complete(k) /\ Built(ch, ctx, k) => Built(ch, ctx2, k)
      <3>1. \A n \in Arguments(k) : PropertyOf(k, n) \in Keys
        BY KeyFacts DEF Arguments
      <3> QED BY <3>1, <2>2 DEF Built, Complete
    <2>4. ASSUME NEW c \in ConfigDeps(k)
          PROVE  /\ c[1] \in Settable \cap DOMAIN entries[k].properties =>
                       ctx2[PropertyOf(k, c[1])] = ctx[PropertyOf(k, c[1])]
                 /\ c[1] = "key" =>
                       ctx2[PropertyOf(k, "p2p_contract_key")] = ctx[PropertyOf(k, "p2p_contract_key")]
      BY <2>1, ConfigFacts
    <2>5. ASSUME NEW L, NEW G, Settled(ch, ctx, k, L, G)
          PROVE  Settled(ch, ctx2, k, L, G)
      <3>1. "vault_registrar_connector_key" \in Settable
        BY DEF Settable
      <3> QED BY <3>1, <2>2, <2>4, <2>5 DEF Settled, Linked, Granted
    <2> QED BY <1>1, <2>3, <2>5
  <1> QED BY <1>2, <1>3

LEMMA SameConditions ==
  ASSUME catalog' = catalog
  PROVE  /\ ChainOK(chain)' <=> ChainOK(chain')
         /\ ContextOK(chain, contract)' <=> ContextOK(chain', contract')
         /\ file' = file => Recorded' = Recorded
         /\ ContextOK(chain, Recorded)' <=> ContextOK(chain', Recorded')
         /\ \A k : /\ Built(chain, contract, k)' <=> Built(chain', contract', k)
                   /\ Built(chain, Recorded, k)' <=> Built(chain', Recorded', k)
                   /\ Newest(chain, contract, k)' <=> Newest(chain', contract', k)
                   /\ Newest(chain, Recorded, k)' <=> Newest(chain', Recorded', k)
                   /\ Settled(chain, contract, k, OpenLinks, OpenGrants)'
                         <=> Settled(chain', contract', k, OpenLinks', OpenGrants')
                   /\ Settled(chain, Recorded, k, unsettled, unsettled)'
                         <=> Settled(chain', Recorded', k, unsettled', unsettled')
  <1> USE SameCatalog
  <1>1. ChainOK(chain)' <=> ChainOK(chain')
    BY DEF ChainOK, Exists
  <1>2. /\ ContextOK(chain, contract)' <=> ContextOK(chain', contract')
        /\ ContextOK(chain, Recorded)' <=> ContextOK(chain', Recorded')
    BY DEF ContextOK, Exists
  <1>3. file' = file => Recorded' = Recorded
    BY DEF Recorded
  <1>4. ASSUME NEW k
        PROVE  /\ Built(chain, contract, k)' <=> Built(chain', contract', k)
               /\ Built(chain, Recorded, k)' <=> Built(chain', Recorded', k)
               /\ Newest(chain, contract, k)' <=> Newest(chain', contract', k)
               /\ Newest(chain, Recorded, k)' <=> Newest(chain', Recorded', k)
    BY DEF Built, Newest
  <1>5. ASSUME NEW k
        PROVE  /\ Settled(chain, contract, k, OpenLinks, OpenGrants)'
                     <=> Settled(chain', contract', k, OpenLinks', OpenGrants')
               /\ Settled(chain, Recorded, k, unsettled, unsettled)'
                     <=> Settled(chain', Recorded', k, unsettled', unsettled')
    BY DEF Settled, Linked, Granted
  <1> QED BY <1>1, <1>2, <1>3, <1>4, <1>5

LEMMA KeptItself == ASSUME NEW ch, ChainOK(ch) PROVE Kept(ch, ch) /\ LinksKept(ch, ch)
  BY LengthsNatural DEF Kept, LinksKept

LEMMA SettledMore ==
  ASSUME catalog \in Catalogs, NEW ch, ChainOK(ch), NEW ctx, ContextOK(ch, ctx),
         NEW L, NEW G, NEW L2, NEW G2, L \subseteq L2, G \subseteq G2,
         NEW k \in Keys, Settled(ch, ctx, k, L, G)
  PROVE  Settled(ch, ctx, k, L2, G2)
  BY KeptItself, SettledKept

\* A step after which no deployment runs, and which leaves chain and file alone.
LEMMA NotDeploying ==
  ASSUME catalog \in Catalogs, RecordsOK,
         UNCHANGED <<catalog, chain, file>>, source' \in [Sources -> Nat],
         \A a \in DOMAIN explorer' : \E k \in Keys : \E n \in 1..Len(chain[k]) : a = <<k, n>>,
         ~InDeployment', phase' = "planning" => Planned', PhaseOK', pending' = <<>>,
         txs' \subseteq txs,
         ScriptOK',
         unsettled \subseteq unsettled',
         phase = "configuring" => OpenLinks \cup OpenGrants \subseteq unsettled',
         ~interrupted' => ~interrupted /\ phase # "deploying"
  PROVE  RecordsOK'
  <1> USE SameCatalog
  <1>1. PendingOK'
    BY DEF PendingOK
  <1>2. TxsOK'
    BY DEF RecordsOK, TxsOK
  <1>3. WorldOK'
    <2>1. ChainOK(chain)' /\ ContextOK(chain, Recorded)'
      BY SameConditions DEF RecordsOK, WorldOK
    <2> QED BY <2>1 DEF RecordsOK, WorldOK
  <1>4. Planned'
    BY DEF Planned
  <1>5. \A k \in Keys : Settled(chain, Recorded, k, unsettled', unsettled')
    <2>1. ChainOK(chain) /\ ContextOK(chain, Recorded)
      BY DEF RecordsOK, WorldOK
    <2>2. CASE phase = "configuring"
      <3>1. /\ InDeployment /\ Ahead = {}
            /\ \A k \in Keys \ Blanked : Recorded[k] = contract[k]
        BY <2>2 DEF RecordsOK, PhaseOK, InDeployment, Ahead, ContextAgrees
      <3>2. \A k \in Keys : Settled(chain, Recorded, k, OpenLinks, OpenGrants)
        <4>1. \A k \in Keys : Settled(chain, contract, k, OpenLinks, OpenGrants)
          BY <3>1 DEF RecordsOK, ContextAgrees
        <4> QED BY <3>1, <4>1, OutsideBlanked
      <3>3. OpenLinks \subseteq unsettled' /\ OpenGrants \subseteq unsettled'
        BY <2>2
      <3> QED BY <2>1, <3>2, <3>3, SettledMore
    <2>3. CASE phase # "configuring"
      <3>1. \A k \in Keys : Settled(chain, Recorded, k, unsettled, unsettled)
        BY <2>3 DEF RecordsOK, FileAgrees
      <3> QED BY <2>1, <3>1, SettledMore
    <2> QED BY <2>2, <2>3
  <1>6. ~interrupted' => \A k \in Keys : Newest(chain, Recorded, k)
    BY DEF RecordsOK, FileAgrees
  <1>7. \A k \in Keys : Built(chain, Recorded, k)
    BY DEF RecordsOK, FileAgrees
  <1>8. FileAgrees'
    <2>1. \A k \in Keys : /\ Built(chain, Recorded, k)'
                          /\ Settled(chain, Recorded, k, unsettled, unsettled)'
                          /\ ~interrupted' => Newest(chain, Recorded, k)'
      BY <1>5, <1>6, <1>7, SameConditions
    <2>2. \A k \in Stored : file'[k].address # None =>
            \A n \in DOMAIN file'[k].properties_addresses \cap Arguments(k) :
               file'[k].properties_addresses[n] = file'[PropertyOf(k, n)].address
      BY DEF RecordsOK, FileAgrees
    <2> QED BY <2>1, <2>2 DEF FileAgrees
  <1> QED BY <1>1, <1>2, <1>3, <1>4, <1>8 DEF RecordsOK

\* The script ends or dies.
LEMMA ForgottenRecords ==
  ASSUME catalog \in Catalogs, RecordsOK, Forget,
         UNCHANGED <<catalog, source, chain, file, explorer>>,
         unsettled \subseteq unsettled',
         phase = "configuring" => OpenLinks \cup OpenGrants \subseteq unsettled',
         ~interrupted' => ~interrupted /\ phase # "deploying"
  PROVE  RecordsOK'
  <1>1. /\ phase' = "idle" /\ contract' = [k \in Keys |-> None] /\ contracts_to_deploy' = <<>>
        /\ txs' = {} /\ pending' = <<>> /\ todo' = <<>> /\ job' = None /\ failed' = {}
    BY DEF Forget
  <1>2. ~InDeployment' /\ phase' # "planning" /\ PhaseOK'
    BY <1>1 DEF InDeployment, PhaseOK, Phases
  <1>3. ScriptOK'
    <2>1. ContextOK(chain', contract')
      BY <1>1 DEF ContextOK, Exists
    <2> QED BY <1>1, <2>1, SameConditions DEF ScriptOK, Verifying
  <1>4. source' \in [Sources -> Nat]
    BY DEF RecordsOK, WorldOK
  <1>5. \A a \in DOMAIN explorer' : \E k \in Keys : \E n \in 1..Len(chain[k]) : a = <<k, n>>
    BY DEF RecordsOK, WorldOK
  <1> QED BY <1>1, <1>2, <1>3, <1>4, <1>5, NotDeploying
-----------------------------------------------------------------------------
\* Nothing that a script works on changes.
LEMMA Aside ==
  ASSUME catalog \in Catalogs, RecordsOK,
         UNCHANGED <<catalog, chain, file, script, history>>, source' \in [Sources -> Nat],
         DOMAIN explorer' = DOMAIN explorer
  PROVE  RecordsOK'
  <1> USE SameCatalog
  <1>1. /\ catalog' = catalog /\ chain' = chain /\ file' = file /\ phase' = phase
        /\ contract' = contract /\ contracts_to_deploy' = contracts_to_deploy /\ txs' = txs
        /\ pending' = pending /\ todo' = todo /\ job' = job /\ failed' = failed
        /\ dependencies' = dependencies
        /\ unsettled' = unsettled /\ interrupted' = interrupted
    BY DEF script, history, context, plan, verification, sortVars
  <1>2. /\ Ahead' = Ahead /\ OpenLinks' = OpenLinks /\ OpenGrants' = OpenGrants
        /\ InDeployment' = InDeployment
    BY <1>1 DEF Ahead, OpenLinks, OpenGrants, PendingLinks, PendingGrants, InDeployment
  <1>3. PhaseOK'
    BY <1>1 DEF RecordsOK, PhaseOK
  <1>4. PendingOK'
    BY <1>1 DEF RecordsOK, PendingOK, InDeployment, Ready, Authorising, SettingConnector,
       SettingFacet, AuthorisingProxy, HasConnector, Connector, ChangeAuthorizedContract,
       RegistrarTx, SetProxyAuth
  <1>5. TxsOK'
    BY <1>1 DEF RecordsOK, TxsOK
  <1>6. WorldOK'
    BY <1>1, SameConditions DEF RecordsOK, WorldOK
  <1>7. ScriptOK'
    BY <1>1, SameConditions DEF RecordsOK, ScriptOK, Verifying
  <1>8. Planned'
    BY <1>1 DEF RecordsOK, Planned, LoadedContract
  <1>9. FileAgrees'
    BY <1>1, SameConditions DEF RecordsOK, FileAgrees
  <1>10. AheadOK' <=> AheadOK
    BY <1>1, <1>2 DEF AheadOK
  <1>11. ContextAgrees' <=> ContextAgrees
    <2>1. Untouched' <=> Untouched
      BY <1>1, <1>2 DEF Untouched
    <2>2. \A k : /\ Built(chain, contract, k)' <=> Built(chain, contract, k)
                 /\ Newest(chain, contract, k)' <=> Newest(chain, contract, k)
                 /\ Settled(chain, contract, k, OpenLinks, OpenGrants)'
                       <=> Settled(chain, contract, k, OpenLinks, OpenGrants)
      BY <1>1, <1>2, SameConditions
    <2>3. Recorded' = Recorded
      BY <1>1, SameConditions
    <2> QED BY <2>1, <2>2, <2>3, <1>1, <1>2 DEF ContextAgrees
  <1> QED BY <1>2, <1>3, <1>4, <1>5, <1>6, <1>7, <1>8, <1>9, <1>10, <1>11 DEF RecordsOK

LEMMA OutsideRecords ==
  ASSUME catalog \in Catalogs, RecordsOK,
         (\E a \in DOMAIN explorer : ExplorerAnswers(a)) \/ (\E name : EditSources(name))
            \/ UNCHANGED vars
  PROVE  RecordsOK'
  <1>1. ASSUME NEW a \in DOMAIN explorer, ExplorerAnswers(a)
        PROVE  RecordsOK'
    <2>1. /\ UNCHANGED <<catalog, chain, file, script, history>> /\ source' = source
          /\ DOMAIN explorer' = DOMAIN explorer
      BY <1>1 DEF ExplorerAnswers
    <2> QED BY <2>1, Aside DEF RecordsOK, WorldOK
  <1>2. ASSUME NEW name, EditSources(name)
        PROVE  RecordsOK'
    <2>1. /\ UNCHANGED <<catalog, chain, file, script, history>> /\ explorer' = explorer
          /\ source' = [source EXCEPT ![name] = @ + 1]
      BY <1>2 DEF EditSources
    <2>2. source' \in [Sources -> Nat]
      <3>1. source \in [Sources -> Nat]
        BY DEF RecordsOK, WorldOK
      <3> HIDE DEF Sources
      <3>2. CASE name \in Sources
        BY <2>1, <3>1, <3>2
      <3>3. CASE name \notin Sources
        BY <2>1, <3>1, <3>3
      <3> QED BY <3>2, <3>3
    <2> QED BY <2>1, <2>2, Aside
  <1>3. CASE UNCHANGED vars
    BY <1>3, Aside DEF vars, world, RecordsOK, WorldOK
  <1> QED BY <1>1, <1>2, <1>3

\* Verification, which makes no contract and keeps its own list.
LEMMA VerificationRecords ==
  ASSUME catalog \in Catalogs, RecordsOK, Polling, Checking, VerificationStep \/ StartChecking
  PROVE  RecordsOK'
  <1> USE SameCatalog
  <1> DEFINE Still == UNCHANGED <<catalog, source, chain, file, explorer, history>>
  <1>1. /\ source \in [Sources -> Nat]
        /\ \A a \in DOMAIN explorer : \E k \in Keys : \E n \in 1..Len(chain[k]) : a = <<k, n>>
        /\ ContextOK(chain, contract) /\ ContextOK(chain, Recorded)
        /\ contracts_to_deploy \in Seq(Keys)
    BY DEF RecordsOK, WorldOK, ScriptOK
  <1>2. /\ phase \in Phases /\ job \in 0..(MaxAttempts - 1) \cup {None}
        /\ ~InDeployment => pending = <<>>
    BY DEF RecordsOK, PhaseOK, PendingOK
  <1>3. Verifying => /\ ~InDeployment /\ phase # "configuring" /\ phase # "deploying"
                     /\ pending = <<>> /\ phase # "idle" /\ phase # "planning"
    BY <1>2 DEF Verifying, InDeployment
  <1>4. Verifying => todo \in Seq(Keys) /\ \A i \in 1..Len(todo) : contract[todo[i]] # None
    BY DEF RecordsOK, ScriptOK
  \* A step within verification.
  <1>5. ASSUME Verifying, UNCHANGED <<catalog, source, chain, file, history>>, phase' = phase,
               UNCHANGED <<contract, plan>>, todo' \in {todo, Tail(todo)}, todo # <<>>,
               job' \in 0..(MaxAttempts - 1) \cup {None},
               \A a \in DOMAIN explorer' : \E k \in Keys : \E n \in 1..Len(chain[k]) : a = <<k, n>>
        PROVE  RecordsOK'
    <2>1. ~InDeployment' /\ phase' # "planning" /\ PhaseOK' /\ pending' = <<>> /\ txs' = txs
      BY <1>2, <1>3, <1>5 DEF InDeployment, PhaseOK, plan
    <2>2. todo' \in Seq(Keys) /\ \A i \in 1..Len(todo') : contract[todo'[i]] # None
      <3>1. CASE todo' = todo
        BY <3>1, <1>4, <1>5
      <3>2. CASE todo' = Tail(todo)
        <4>1. /\ Tail(todo) \in Seq(Keys) /\ Len(Tail(todo)) = Len(todo) - 1
              /\ Len(todo) \in Nat
              /\ \A i \in 1..(Len(todo) - 1) : Tail(todo)[i] = todo[i + 1]
          BY <1>4, <1>5
        <4>2. \A i \in 1..(Len(todo) - 1) : contract[Tail(todo)[i]] # None
          BY <4>1, <1>4, <1>5
        <4> QED BY <3>2, <4>1, <4>2
      <3> QED BY <3>1, <3>2, <1>5
    <2>3. ScriptOK'
      BY <2>2, <1>1, <1>5, SameConditions DEF ScriptOK, plan
    <2> QED BY <2>1, <2>3, <1>1, <1>3, <1>5, NotDeploying DEF history
  <1>6. ASSUME NEW success, Conclude(success), Verifying, todo # <<>>, Still
        PROVE  RecordsOK'
    <2>1. /\ todo' = Tail(todo) /\ job' = None /\ phase' = phase /\ contract' = contract
          /\ UNCHANGED plan
      BY <1>6 DEF Conclude, context
    <2> QED BY <2>1, <1>1, <1>5, <1>6
  <1>7. ASSUME Forget, Verifying, Still
        PROVE  RecordsOK'
    BY <1>3, <1>7, ForgottenRecords DEF history
  <1>8. ASSUME Raise, Verifying, todo # <<>>, Still
        PROVE  RecordsOK'
    BY <1>6, <1>7, <1>8 DEF Raise
  <1>9. CASE StartChecking
    <2>1. /\ phase = "idle" /\ phase' = "checking" /\ job' = job
          /\ contract' = [k \in Keys |-> file[k].address]
          /\ todo' = InFileOrder(DeployedFromSources)
          /\ UNCHANGED <<catalog, source, chain, file, explorer, plan, history>>
      BY <1>9 DEF StartChecking, world, verification
    <2>2. /\ DeployedFromSources \subseteq Keys /\ IsFiniteSet(DeployedFromSources)
          /\ \A k \in DeployedFromSources : file[k].address # None
      <3>1. DeployedFromSources \subseteq Keys /\ IsFiniteSet(Keys)
        BY ReleaseAssumption DEF DeployedFromSources, InScope, Keys, entries
      <3> QED BY <3>1, FS_Subset DEF DeployedFromSources
    <2>3. todo' \in Seq(DeployedFromSources)
      BY <2>1, <2>2, InFileOrderComplete
    <2>4. contract' = Recorded
      BY <2>1 DEF Recorded
    <2>5. todo' \in Seq(Keys) /\ \A i \in 1..Len(todo') : contract'[todo'[i]] # None
      BY <2>1, <2>2, <2>3
    <2>6. ScriptOK'
      BY <2>1, <2>4, <2>5, <1>1, SameConditions DEF ScriptOK, plan
    <2>7. /\ ~InDeployment' /\ phase' # "planning" /\ PhaseOK' /\ pending' = <<>> /\ txs' = txs
      BY <2>1, <1>2 DEF InDeployment, PhaseOK, Phases, plan
    <2> QED BY <2>1, <2>6, <2>7, <1>1, NotDeploying DEF history
  <1>10. CASE AlreadyVerified
    BY <1>6, <1>10 DEF AlreadyVerified, world, Verifying
  <1>11. CASE ArgumentsDiffer
    BY <1>6, <1>11 DEF ArgumentsDiffer, world, Verifying
  <1>12. CASE Submit
    <2>1. /\ Verifying /\ todo # <<>> /\ job' = 0
          /\ explorer' = WithSubmission(Current, Abi(Head(todo)))
          /\ UNCHANGED <<catalog, source, file, chain, phase, contract, plan, todo, history>>
      BY <1>12 DEF Submit, context
    <2>2. DOMAIN explorer' = DOMAIN explorer \cup {Current}
      BY <2>1 DEF WithSubmission
    <2>3. Head(todo) \in Keys /\ contract[Head(todo)] # None
      BY <2>1, <1>4
    <2>4. \E n \in 1..Len(chain[Head(todo)]) : Current = <<Head(todo), n>>
      BY <2>3, <1>1 DEF Current, ContextOK, Exists
    <2>5. 0 \in 0..(MaxAttempts - 1)
      BY ReleaseAssumption
    <2> QED BY <2>1, <2>2, <2>3, <2>4, <2>5, <1>1, <1>5
  <1>13. CASE Refused
    BY <1>8, <1>13 DEF Refused, world, Verifying
  <1>14. CASE RequestFails
    BY <1>8, <1>14 DEF RequestFails
  <1>15. CASE Poll
    <2>1. /\ Verifying /\ todo # <<>> /\ job # None
          /\ UNCHANGED <<catalog, source, chain, file, explorer, history>>
      BY <1>15 DEF Poll, Polling, world
    <2>2. CASE \E success : Conclude(success)
      BY <2>1, <2>2, <1>6
    <2>3. CASE /\ job + 1 # MaxAttempts /\ job' = job + 1
               /\ UNCHANGED <<phase, context, plan, todo, failed, sortVars>>
      <3>1. job' \in 0..(MaxAttempts - 1)
        BY <2>1, <2>3, <1>2, ReleaseAssumption
      <3> QED BY <2>1, <2>3, <3>1, <1>1, <1>5 DEF context
    <2> QED BY <2>2, <2>3, <1>15 DEF Poll
  <1>16. CASE FinishVerification
    BY <1>7, <1>16 DEF FinishVerification, world
  <1> QED BY <1>9, <1>10, <1>11, <1>12, <1>13, <1>14, <1>15, <1>16 DEF VerificationStep

LEMMA PublishingRecords ==
  ASSUME catalog \in Catalogs, RecordsOK, Polling, PublishingStep \/ StartPublishing
  PROVE  RecordsOK'
  <1> USE SameCatalog
  <1>1. /\ source \in [Sources -> Nat]
        /\ \A a \in DOMAIN explorer : \E k \in Keys : \E n \in 1..Len(chain[k]) : a = <<k, n>>
        /\ ContextOK(chain, contract) /\ ContextOK(chain, Recorded)
        /\ contracts_to_deploy \in Seq(Keys) /\ job \in 0..(MaxAttempts - 1) \cup {None}
        /\ ~InDeployment => pending = <<>>
    BY DEF RecordsOK, WorldOK, ScriptOK, PhaseOK, PendingOK
  <1>2. ASSUME phase \in {"idle", "publishing abis", "publishing configs"},
               phase' \in {"publishing abis", "publishing configs"},
               contract' = contract \/ contract' = Recorded,
               UNCHANGED <<catalog, source, chain, file, explorer, plan, job, history>>
        PROVE  RecordsOK'
    <2>1. /\ ~InDeployment' /\ phase' # "planning" /\ PhaseOK' /\ pending' = <<>> /\ txs' = txs
      BY <1>1, <1>2 DEF InDeployment, PhaseOK, Phases, plan
    <2>2. ScriptOK'
      BY <1>1, <1>2, SameConditions DEF ScriptOK, Verifying, plan
    <2> QED BY <2>1, <2>2, <1>1, <1>2, NotDeploying DEF history
  <1>3. CASE StartPublishing
    BY <1>2, <1>3 DEF StartPublishing, world, verification, Recorded
  <1>4. CASE UpdateAbi
    BY <1>2, <1>4 DEF UpdateAbi, context, verification
  <1>5. CASE UpdateConfigs
    BY <1>2, <1>5 DEF UpdateConfigs, world, context, verification
  <1>6. CASE UpdateConfig
    BY <1>2, <1>6 DEF UpdateConfig, context, verification
  <1>7. CASE FinishPublishing
    BY <1>7, ForgottenRecords DEF FinishPublishing, world, history
  <1> QED BY <1>3, <1>4, <1>5, <1>6, <1>7 DEF PublishingStep
-----------------------------------------------------------------------------
(* A deployment is planned.                                                *)

LEMMA PlanningRecords ==
  ASSUME catalog \in Catalogs, RecordsOK, Polling,
         (\E request : StartDeployment(request)) \/ Sort \/ DryRun
  PROVE  RecordsOK'
  <1> USE SameCatalog
  <1>1. /\ source \in [Sources -> Nat]
        /\ \A a \in DOMAIN explorer : \E k \in Keys : \E n \in 1..Len(chain[k]) : a = <<k, n>>
        /\ ContextOK(chain, contract) /\ ContextOK(chain, Recorded)
        /\ contracts_to_deploy \in Seq(Keys) /\ job \in 0..(MaxAttempts - 1) \cup {None}
        /\ ~InDeployment => pending = <<>>
    BY DEF RecordsOK, WorldOK, ScriptOK, PhaseOK, PendingOK
  <1>2. ASSUME phase \in {"idle", "planning"}, phase' = "planning", Planned',
               ContextOK(chain, contract'),
               UNCHANGED <<catalog, source, chain, file, explorer, plan, job, history>>
        PROVE  RecordsOK'
    <2>1. /\ ~InDeployment' /\ PhaseOK' /\ pending' = <<>> /\ txs' = txs
      BY <1>1, <1>2 DEF InDeployment, PhaseOK, Phases, plan
    <2>2. ScriptOK'
      BY <1>1, <1>2, SameConditions DEF ScriptOK, Verifying, plan
    <2> QED BY <2>1, <2>2, <1>1, <1>2, NotDeploying DEF history
  <1>3. ASSUME NEW request, StartDeployment(request)
        PROVE  RecordsOK'
    <2>1. /\ phase = "idle" /\ phase' = "planning"
          /\ contract' = [k \in Keys |-> LoadedContract(k)]
          /\ dependencies' = BuildDependencies(entries, contract')
          /\ UNCHANGED <<catalog, source, chain, file, explorer, plan, job, history>>
      BY <1>3 DEF StartDeployment, StartSort, world, verification
    <2>2. ContextOK(chain, contract')
      <3>1. ASSUME NEW k \in Keys PROVE Exists(chain, k, LoadedContract(k))
        BY <1>1 DEF LoadedContract, ContextOK, Exists, Recorded
      <3> QED BY <3>1, <2>1 DEF ContextOK
    <2>3. Planned'
      BY <2>1 DEF Planned, LoadedContract
    <2> QED BY <2>1, <2>2, <2>3, <1>2
  <1>4. CASE Sort
    <2>1. /\ phase = "planning" /\ phase' = "planning" /\ contract' = contract
          /\ UNCHANGED <<catalog, source, chain, file, explorer, plan, job, history>>
      BY <1>4 DEF Sort, world, context, verification
    <2>2. dependencies' = dependencies
      BY <1>4 DEF Sort, Leave, Enter
    <2>3. Planned'
      BY <2>1, <2>2 DEF RecordsOK, Planned, LoadedContract
    <2> QED BY <2>1, <2>3, <1>1, <1>2
  <1>5. CASE DryRun
    BY <1>5, ForgottenRecords DEF DryRun, world, history
  <1> QED BY <1>3, <1>4, <1>5

\* The sort ends with every contract, each once.
LEMMA SortedFacts ==
  ASSUME SortInv, DOMAIN dependencies = Keys, SortDone
  PROVE  /\ Sorted \in Seq(Keys) /\ Len(Sorted) = Len(stack) /\ Len(stack) \in Nat
         /\ \A k \in Keys : \E i \in 1..Len(Sorted) : Sorted[i] = k
         /\ \A i, j \in 1..Len(Sorted) : i # j => Sorted[i] # Sorted[j]
  <1>1. /\ stack \in Seq(Keys) /\ Len(stack) \in Nat /\ vis = Keys /\ Len(calls) = 0
    BY DEF SortInv, SortTypes, Nodes, SortDone
  <1> DEFINE len == Len(stack)
  <1>2. \A i \in 1..len : len + 1 - i \in 1..len /\ Sorted[i] = stack[len + 1 - i]
                          /\ Sorted[i] \in Keys
    BY <1>1 DEF Sorted
  <1>3. Sorted \in Seq(Keys) /\ Len(Sorted) = len
    BY <1>1, <1>2 DEF Sorted
  <1>4. ASSUME NEW k \in Keys PROVE \E i \in 1..len : Sorted[i] = k
    <2>1. PICK j \in 1..len : stack[j] = k
      BY <1>1 DEF SortInv, Accounted
    <2>2. len + 1 - j \in 1..len /\ len + 1 - (len + 1 - j) = j
      BY <1>1
    <2> QED BY <2>1, <2>2, <1>2
  <1>5. ASSUME NEW i \in 1..len, NEW j \in 1..len, i # j PROVE Sorted[i] # Sorted[j]
    <2>1. len + 1 - i # len + 1 - j
      BY <1>1, <1>5
    <2> QED BY <2>1, <1>2 DEF SortInv, Apart
  <1> QED BY <1>1, <1>3, <1>4, <1>5

\* What is reached is closed: it has the dependents of what it has.
LEMMA ReachedClosed ==
  ASSUME NEW deps, NEW start, \A k \in DOMAIN deps : deps[k] \subseteq DOMAIN deps
  PROVE  /\ start \cap DOMAIN deps \subseteq Reached(deps, start)
         /\ Reached(deps, start) \subseteq DOMAIN deps
         /\ \A k \in Reached(deps, start) : deps[k] \subseteq Reached(deps, start)
  <1>1. start \cap DOMAIN deps \subseteq Reached(deps, start)
    BY DEF Reached
  <1>2. Reached(deps, start) \subseteq DOMAIN deps
    BY DEF Reached
  <1>3. ASSUME NEW k \in Reached(deps, start), NEW d \in deps[k]
        PROVE  d \in Reached(deps, start)
    BY <1>3 DEF Reached
  <1> QED BY <1>1, <1>2, <1>3

LEMMA PlanAhead ==
  ASSUME catalog \in Catalogs, RecordsOK, SortingKeys, Plan
  PROVE  /\ AheadOK' /\ Untouched' /\ TxsOK' /\ contracts_to_deploy' \in Seq(Keys)
         /\ contract' = contract /\ contract = [k \in Keys |-> LoadedContract(k)]
  <1> DEFINE set == DeploymentSet(entries, contract, changed)
             T == {k \in set : Deployable(entries, k)}
             Deps(k) == Named(entries, k, ClassOf(entries, k).deployment_deps)
  <1>1. /\ phase = "planning" /\ SortDone /\ contract' = contract /\ catalog' = catalog
        /\ contracts_to_deploy' = DeploymentOrder(set)
        /\ txs' = TransactionSet(entries, set \cup changed)
        /\ todo' = DeploymentOrder(T)
    BY DEF Plan, context
  <1>2. /\ contract = [k \in Keys |-> LoadedContract(k)]
        /\ dependencies = BuildDependencies(entries, contract)
    BY <1>1 DEF RecordsOK, Planned
  <1>3. /\ Sorted \in Seq(Keys) /\ Len(Sorted) = Len(stack)
        /\ \A k \in Keys : \E i \in 1..Len(Sorted) : Sorted[i] = k
        /\ \A i, j \in 1..Len(Sorted) : i # j => Sorted[i] # Sorted[j]
        /\ \A i, j \in 1..Len(Sorted) : i < j => Sorted[i] \notin dependencies[Sorted[j]]
    BY <1>1, SortedFacts, SortedBackwards DEF SortingKeys
  <1>15. ASSUME NEW i \in 1..Len(Sorted), NEW j \in 1..Len(Sorted), i < j
         PROVE  Sorted[i] # Sorted[j] /\ Sorted[i] \notin dependencies[Sorted[j]]
    <2>1. i # j
      BY <1>15
    <2> QED BY <2>1, <1>15, <1>3, Zenon
  <1>14. \A i \in 1..Len(Sorted) : Sorted[i] \in Keys
    <2>1. Sorted \in Seq(Keys)
      BY <1>3
    <2> QED BY ONLY <2>1
  <1>4. /\ \A k \in Keys : dependencies[k] =
              {c \in Keys : k \in DeploymentDependencies(entries, contract, c)}
        /\ DOMAIN dependencies = Keys
    BY <1>2 DEF BuildDependencies, Keys
  <1>5. /\ set \subseteq Keys
        /\ \A k \in Keys : Deployable(entries, k) /\ contract[k] = None => k \in set
        /\ \A k \in set : dependencies[k] \subseteq set
    <2>1. \A k \in DOMAIN dependencies : dependencies[k] \subseteq DOMAIN dependencies
      BY <1>4
    <2>2. set = Reached(dependencies, changed \cup Undeployed(entries, contract))
      BY <1>2 DEF DeploymentSet
    <2>3. \A k \in Keys : Deployable(entries, k) /\ contract[k] = None =>
             k \in Undeployed(entries, contract)
      BY DEF Undeployed, Keys
    <2> HIDE DEF set
    <2> QED BY <2>1, <2>2, <2>3, <1>4, ReachedClosed
  <1> HIDE DEF set
  <1>6. /\ todo' \in Seq(Keys \cap T)
        /\ \A a, b \in 1..Len(todo') : a < b => \E i, j \in 1..Len(Sorted) :
              i < j /\ todo'[a] = Sorted[i] /\ todo'[b] = Sorted[j]
        /\ \A k \in Keys \cap T : \E a \in 1..Len(todo') : todo'[a] = k
    <2>1. todo' = Selected(Sorted, T)
      BY <1>1 DEF DeploymentOrder
    <2> HIDE DEF T
    <2>2. Sorted \in Seq(Keys)
      BY <1>3
    <2>3. /\ Selected(Sorted, T) \in Seq(Keys \cap T)
          /\ \A a, b \in 1..Len(Selected(Sorted, T)) : a < b => \E i, j \in 1..Len(Sorted) :
                i < j /\ Selected(Sorted, T)[a] = Sorted[i] /\ Selected(Sorted, T)[b] = Sorted[j]
          /\ \A i \in 1..Len(Sorted) : Sorted[i] \in T =>
                \E a \in 1..Len(Selected(Sorted, T)) : Selected(Sorted, T)[a] = Sorted[i]
      <3>1. Selected(Sorted, T) \in Seq(Keys \cap T) /\ Selects(Selected(Sorted, T), Sorted, T)
        BY <2>2, SelectedFacts
      <3> QED BY <3>1 DEF Selects
    <2>4. ASSUME NEW k \in Keys \cap T PROVE \E a \in 1..Len(todo') : todo'[a] = k
      <3>1. PICK i \in 1..Len(Sorted) : Sorted[i] = k
        BY <1>3
      <3> QED BY <3>1, <2>1, <2>3
    <2>5. todo' \in Seq(Keys \cap T)
      BY ONLY <2>1, <2>3
    <2>6. \A a, b \in 1..Len(todo') : a < b => \E i, j \in 1..Len(Sorted) :
             i < j /\ todo'[a] = Sorted[i] /\ todo'[b] = Sorted[j]
      BY ONLY <2>1, <2>3
    <2> QED BY ONLY <2>4, <2>5, <2>6
  <1>7. Ahead' = T
    <2>1. Ahead' = {todo'[i] : i \in 1..Len(todo')}
      BY DEF Ahead
    <2>2. T \subseteq Keys
      BY <1>5
    <2> HIDE DEF T
    <2> QED BY <2>1, <2>2, <1>6
  <1>8. \A k \in Keys : /\ k \in set /\ ~ (k \in T) => Deps(k) = {}
                        /\ k \notin set => Deps(k) \cap set = {}
    <2>1. ASSUME NEW k \in Keys, k \notin set, NEW d \in Deps(k), d \in set
          PROVE  FALSE
      <3>1. d \in Keys /\ k \in dependencies[d]
        BY <2>1, <1>4, <1>5 DEF DeploymentDependencies
      <3> QED BY <3>1, <2>1, <1>5
    <2>2. ASSUME NEW k \in Keys, k \in set, k \notin T
          PROVE  Deps(k) = {}
      BY <2>2, KeyFacts
    <2> QED BY <2>1, <2>2
  <1>9. AheadOK'
    <2>1. todo' \in Seq(Keys) /\ Len(todo') \in Nat
      BY <1>6
    <2>2. ASSUME NEW a \in 1..Len(todo'), NEW b \in 1..Len(todo'), a < b
          PROVE  /\ todo'[a] # todo'[b]
                 /\ todo'[b] \notin DeploymentDependencies(entries, contract, todo'[a])
      <3>1. PICK i \in 1..Len(Sorted), j \in 1..Len(Sorted) :
               i < j /\ todo'[a] = Sorted[i] /\ todo'[b] = Sorted[j]
        BY <2>2, <1>6
      <3>2. Sorted[i] # Sorted[j] /\ Sorted[i] \notin dependencies[Sorted[j]]
        BY <3>1, <1>15
      <3>3. Sorted[i] \in Keys /\ Sorted[j] \in Keys
        BY <1>14
      <3> QED BY <3>1, <3>2, <3>3, <1>4
    <2>3. \A a, b \in 1..Len(todo') : a # b => todo'[a] # todo'[b]
      <3>1. TAKE a, b \in 1..Len(todo')
      <3>2. a < b \/ b < a \/ a = b
        BY <2>1
      <3> QED BY <3>2, <2>2
    <2>4. \A k \in Keys \ T : Deps(k) \cap T = {}
      BY <1>8
    <2>5. \A k \in Keys : Deployable(entries, k) /\ contract[k] = None => k \in T
      BY <1>5
    <2>6. Keys' = Keys /\ entries' = entries
      BY <1>1, SameCatalog
    <2>7. \A k \in T : Deployable(entries, k)
      OBVIOUS
    <2> HIDE DEF T
    <2> QED BY <2>1, <2>2, <2>3, <2>4, <2>5, <2>6, <2>7, <1>1, <1>7 DEF AheadOK
  <1>10. txs' = UNION {{<<k, c[2]>> : c \in {d \in ConfigDeps(k) :
                                Trigger(entries, k, d[1]) \cap (set \cup changed) # {}}} :
                       k \in Keys}
    BY <1>1 DEF TransactionSet, ConfigDeps, Keys
  <1>11. TxsOK'
    <2>1. ASSUME NEW tx \in txs'
          PROVE  \E k \in Keys : \E c \in ConfigDeps(k) :
                    tx = <<k, c[2]>> /\ (c[1] = "key" \/ c[1] \in DOMAIN entries[k].properties)
      <3>0. PICK k \in Keys : \E c \in ConfigDeps(k) :
               tx = <<k, c[2]>> /\ Trigger(entries, k, c[1]) # {}
        BY <2>1, <1>10
      <3>1. PICK c \in ConfigDeps(k) : tx = <<k, c[2]>> /\ Trigger(entries, k, c[1]) # {}
        BY <3>0
      <3>2. c[1] = "key" \/ c[1] \in DOMAIN entries[k].properties
        BY <3>1 DEF Trigger, Named
      <3> QED BY <3>1, <3>2
    <2> QED BY <2>1, <1>1, SameCatalog DEF TxsOK
  <1>12. Untouched'
    <2>1. ASSUME NEW k \in Keys, NEW c \in ConfigDeps(k), <<k, c[2]>> \notin txs'
          PROVE  /\ c[1] \in Settable \cap DOMAIN entries[k].properties =>
                       PropertyOf(k, c[1]) \notin T
                 /\ c[1] = "key" => k \notin T
      <3>1. Trigger(entries, k, c[1]) \cap (set \cup changed) = {}
        BY <2>1, <1>10
      <3>2. c[1] \in Settable \cap DOMAIN entries[k].properties =>
               PropertyOf(k, c[1]) \in Trigger(entries, k, c[1])
        BY DEF Trigger, Named, PropertyOf, Settable
      <3>3. c[1] = "key" => k \in Trigger(entries, k, c[1])
        BY DEF Trigger
      <3> QED BY <3>1, <3>2, <3>3
    <2> HIDE DEF T
    <2> QED BY <2>1, <1>1, <1>7, SameCatalog DEF Untouched
  <1>13. contracts_to_deploy' \in Seq(Keys)
    <2>1. contracts_to_deploy' \in Seq(Keys \cap set)
      BY <1>1, <1>3, SelectedFacts DEF DeploymentOrder
    <2> QED BY <2>1
  <1> QED BY <1>1, <1>2, <1>9, <1>11, <1>12, <1>13

LEMMA PlanRecords ==
  ASSUME catalog \in Catalogs, RecordsOK, SortingKeys, Plan
  PROVE  RecordsOK'
  <1> USE SameCatalog
  <1>1. /\ AheadOK' /\ Untouched' /\ TxsOK' /\ contracts_to_deploy' \in Seq(Keys)
        /\ contract' = contract /\ contract = [k \in Keys |-> LoadedContract(k)]
    BY PlanAhead
  <1>2. /\ phase = "planning" /\ phase' = "deploying"
        /\ UNCHANGED <<catalog, source, file, chain, explorer, pending, job, unsettled,
                       interrupted>>
    BY DEF Plan, verification, history
  <1>3. /\ ~InDeployment /\ InDeployment' /\ pending' = <<>>
        /\ phase' # "planning" /\ phase' # "configuring" /\ phase' # "idle"
    BY <1>2 DEF InDeployment, RecordsOK, PendingOK
  <1>4. ChainOK(chain) /\ ContextOK(chain, Recorded) /\ ContextOK(chain, contract)
    BY DEF RecordsOK, WorldOK, ScriptOK
  <1>5. PhaseOK' /\ PendingOK' /\ Planned'
    BY <1>2, <1>3 DEF RecordsOK, PhaseOK, PendingOK, Planned, Phases
  <1>6. WorldOK' /\ ScriptOK'
    BY <1>1, <1>2, <1>4, SameConditions DEF RecordsOK, WorldOK, ScriptOK, Verifying
  <1>7. FileAgrees'
    BY <1>2, <1>3, SameConditions DEF RecordsOK, FileAgrees
  <1>8. \A k \in Keys : /\ Built(chain, Recorded, k)
                        /\ Settled(chain, Recorded, k, unsettled, unsettled)
                        /\ ~interrupted => Newest(chain, Recorded, k)
    BY <1>2 DEF RecordsOK, FileAgrees
  <1>9. ASSUME NEW k \in Keys \ Blanked, contract[k] # None \/ k \notin Ahead'
        PROVE  /\ contract[k] = Recorded[k]
               /\ Deployable(entries, k) => catalog.env # "local" /\ contract = Recorded
    <2>0. Deployable(entries, k) => entries[k].scope # "configs"
      BY KeyFacts DEF Stored, InScope
    <2>1. ~ (catalog.env = "local" /\ Deployable(entries, k))
      <3>1. ASSUME catalog.env = "local", Deployable(entries, k) PROVE FALSE
        <4>1. contract[k] = None
          BY <1>1, <2>0, <3>1 DEF LoadedContract
        <4>2. k \in Ahead'
          BY <1>1, <1>2, <3>1, <4>1 DEF AheadOK
        <4> QED BY <4>1, <4>2, <1>9
      <3> QED BY <3>1
    <2>2. contract[k] = Recorded[k]
      BY <2>1, <1>1 DEF LoadedContract, Recorded, Blanked
    <2>3. ASSUME Deployable(entries, k) PROVE catalog.env # "local" /\ contract = Recorded
      BY <2>1, <2>3, <1>1 DEF LoadedContract, Recorded
    <2> QED BY <2>2, <2>3
  <1>10. /\ unsettled \subseteq OpenLinks' /\ unsettled \subseteq OpenGrants'
    BY <1>2 DEF OpenLinks, OpenGrants
  <1>11. ASSUME NEW k \in Keys \ Ahead'
         PROVE  /\ Built(chain, contract, k)
                /\ Settled(chain, contract, k, OpenLinks', OpenGrants')
                /\ ~interrupted => Newest(chain, contract, k)
    <2>1. k \notin Blanked => /\ contract[k] = Recorded[k]
                              /\ Deployable(entries, k) => contract = Recorded
      BY <1>9
    <2>2. ~interrupted => Newest(chain, contract, k)
      BY <2>1, <1>8 DEF Newest
    <2>3. CASE Deployable(entries, k)
      <3>1. k \notin Blanked
        BY <2>3 DEF Blanked
      <3> QED BY <2>1, <2>2, <2>3, <3>1, <1>4, <1>8, <1>10, SettledMore
    <2>4. CASE ~Deployable(entries, k)
      <3>1. Arguments(k) = {} /\ ConfigDeps(k) = {}
        BY <2>4, KeyFacts
      <3> QED BY <2>2, <3>1 DEF Built, Settled
    <2> QED BY <2>3, <2>4
  <1>12. ASSUME NEW k \in Keys, file[k].address # None, contract[k] # None
         PROVE  file[k].address[2] <= contract[k][2]
    <2>0. k \notin Blanked
      BY <1>1, <1>12 DEF Blanked, LoadedContract
    <2>1. contract[k] = Recorded[k] /\ Recorded[k] = file[k].address
      BY <2>0, <1>9, <1>12 DEF Recorded
    <2>2. contract[k][2] \in 1..Len(chain[k]) /\ Len(chain[k]) \in Nat
      BY <1>4, <1>12, Placed, LengthsNatural
    <2> QED BY <2>1, <2>2
  <1>13. \A k \in Keys : ~ Deployable(entries, k) =>
            contract[k] = IF k \in Blanked THEN None ELSE file[k].address
    BY <1>1 DEF LoadedContract, Blanked
  <1>15. ASSUME NEW k \in Keys, contract[k] # None
         PROVE  Complete(k)
    <2>1. CASE Deployable(entries, k)
      <3>1. k \notin Blanked
        BY <2>1 DEF Blanked
      <3>2. catalog.env # "local"
        BY <1>9, <1>15, <2>1, <3>1
      <3> QED BY <3>2 DEF Complete, Blanked
    <2>2. CASE ~ Deployable(entries, k)
      BY <2>2, KeyFacts DEF Complete
    <2> QED BY <2>1, <2>2
  <1>14. ContextAgrees'
    <2>1. \A k \in Keys \ Ahead' : /\ Built(chain, contract, k)'
                                   /\ Settled(chain, contract, k, OpenLinks, OpenGrants)'
                                   /\ ~interrupted' => Newest(chain, contract, k)'
      BY <1>1, <1>2, <1>11, SameConditions
    <2> QED BY <2>1, <1>1, <1>2, <1>3, <1>12, <1>13, <1>15 DEF ContextAgrees
  <1> QED BY <1>1, <1>5, <1>6, <1>7, <1>14 DEF RecordsOK
-----------------------------------------------------------------------------
(* A contract is deployed.                                                 *)

LEMMA WorldKept ==
  ASSUME catalog \in Catalogs, RecordsOK, UNCHANGED <<catalog, source, file, explorer>>,
         ChainOK(chain'), Kept(chain, chain')
  PROVE  /\ WorldOK' /\ ContextOK(chain', Recorded) /\ ContextOK(chain', contract)
         /\ \A k \in Keys : Built(chain', Recorded, k)
  <1> USE SameCatalog
  <1>1. /\ ChainOK(chain) /\ ContextOK(chain, Recorded) /\ ContextOK(chain, contract)
        /\ \A k \in Keys : Built(chain, Recorded, k)
    BY DEF RecordsOK, WorldOK, ScriptOK, FileAgrees
  <1>2. ContextOK(chain', Recorded) /\ ContextOK(chain', contract)
    BY <1>1, ContextKept
  <1>3. ASSUME NEW a \in DOMAIN explorer
        PROVE  \E k \in Keys : \E n \in 1..Len(chain'[k]) : a = <<k, n>>
    <2>1. PICK k \in Keys : \E n \in 1..Len(chain[k]) : a = <<k, n>>
      BY DEF RecordsOK, WorldOK
    <2>2. Len(chain[k]) \in Nat /\ Len(chain'[k]) \in Nat /\ Len(chain[k]) <= Len(chain'[k])
      BY <1>1, LengthsNatural DEF Kept
    <2> QED BY <2>1, <2>2
  <1>4. WorldOK'
    <2>1. /\ ChainOK(chain)' /\ ContextOK(chain, Recorded)'
      BY <1>2, SameConditions
    <2> QED BY <2>1, <1>3 DEF RecordsOK, WorldOK
  <1>5. \A k \in Keys : Built(chain', Recorded, k)
    BY <1>1, BuiltKept
  <1> QED BY <1>2, <1>4, <1>5

\* What Construct does, and what todo is before and after.
LEMMA Constructed ==
  ASSUME catalog \in Catalogs, RecordsOK, Construct, NEW k, k = Head(todo)
  PROVE  /\ phase = "deploying" /\ pending = <<>> /\ k \in Keys /\ k \in Ahead
         /\ Deployable(entries, k) /\ Encodable(k)
         /\ todo' \in Seq(Keys) /\ Len(todo') = Len(todo) - 1 /\ Len(todo) \in Nat
         /\ todo # <<>> /\ k = todo[1]
         /\ \A i \in 1..Len(todo') : todo'[i] = todo[i + 1] /\ i + 1 \in 1..Len(todo)
         /\ Ahead' = Ahead \ {k}
         /\ UNCHANGED <<catalog, source, file, explorer, phase, contracts_to_deploy, txs, job,
                        unsettled, interrupted>>
  <1>1. /\ phase = "deploying" /\ todo # <<>> /\ pending = <<>> /\ Encodable(k)
        /\ todo' = Tail(todo)
        /\ UNCHANGED <<catalog, source, file, explorer, phase, contracts_to_deploy, txs, job,
                       unsettled, interrupted>>
    BY DEF Construct, verification, history
  <1>2. AheadOK
    BY <1>1 DEF RecordsOK, InDeployment
  <1>3. todo \in Seq(Keys)
    BY <1>2 DEF AheadOK
  <1>4. /\ Len(todo) \in Nat /\ Len(todo) >= 1 /\ k = todo[1] /\ k \in Keys
        /\ todo' \in Seq(Keys) /\ Len(todo') = Len(todo) - 1
        /\ \A i \in 1..Len(todo') : todo'[i] = todo[i + 1] /\ i + 1 \in 1..Len(todo)
    BY <1>1, <1>3
  <1>5. k \in Ahead
    BY <1>4 DEF Ahead
  <1>6. Ahead' = Ahead \ {k}
    <2>1. \A i \in 1..Len(todo') : todo'[i] \in Ahead /\ todo'[i] # k
      <3>1. TAKE i \in 1..Len(todo')
      <3>2. i + 1 # 1 /\ 1 \in 1..Len(todo)
        BY <1>4
      <3> QED BY <3>2, <1>2, <1>4 DEF Ahead, AheadOK
    <2>2. ASSUME NEW x \in Ahead, x # k PROVE \E i \in 1..Len(todo') : todo'[i] = x
      <3>1. PICK j \in 1..Len(todo) : todo[j] = x
        BY <2>2 DEF Ahead
      <3>2. j - 1 \in 1..Len(todo') /\ (j - 1) + 1 = j
        BY <3>1, <2>2, <1>4
      <3> QED BY <3>1, <3>2, <1>4
    <2> QED BY <2>1, <2>2 DEF Ahead
  <1>7. Deployable(entries, k)
    BY <1>2, <1>5 DEF AheadOK
  <1> QED BY <1>1, <1>4, <1>5, <1>6, <1>7

LEMMA ConstructedContract ==
  ASSUME catalog \in Catalogs, RecordsOK, Construct, NEW k, k = Head(todo)
  PROVE  /\ ChainOK(chain') /\ Kept(chain, chain') /\ LinksKept(chain, chain')
         /\ Len(chain'[k]) = Len(chain[k]) + 1 /\ Len(chain[k]) \in Nat
         /\ \A n \in Arguments(k) : chain'[k][Len(chain[k]) + 1].links[n]
                                      = contract[PropertyOf(k, n)]
         /\ chain'[k][Len(chain[k]) + 1].abi = Abi(k)
         /\ \A x \in Keys \ {k} : chain'[x] = chain[x]
         /\ contract'[k] = <<k, Len(chain[k]) + 1>> /\ contract'[k] # None
         /\ \A x \in Keys \ {k} : contract'[x] = contract[x]
         /\ ContextOK(chain', contract')
  <1>1. k \in Keys /\ Encodable(k)
    BY Constructed
  <1>2. ChainOK(chain) /\ ContextOK(chain, contract)
    BY DEF RecordsOK, WorldOK, ScriptOK
  <1>3. /\ chain' = [chain EXCEPT ![k] =
             Append(@, [links |-> Links(k), authorized |-> {}, abi |-> Abi(k)])]
        /\ contract' = [contract EXCEPT ![k] = <<k, Len(chain[k]) + 1>>]
    BY DEF Construct
  <1> DEFINE len == Len(chain[k])
             r == [links |-> Links(k), authorized |-> {}, abi |-> Abi(k)]
  <1>4. len \in Nat
    BY <1>1, <1>2, LengthsNatural
  <1>5. \A n \in Arguments(k) :
           /\ PropertyOf(k, n) \in Keys
           /\ Links(k)[n] = contract[PropertyOf(k, n)]
           /\ Exists(chain, PropertyOf(k, n), Links(k)[n])
           /\ Links(k)[n] \in Addresses
    <2>1. TAKE n \in Arguments(k)
    <2>2. PropertyOf(k, n) \in Keys /\ Links(k)[n] = contract[PropertyOf(k, n)]
      BY <1>1, KeyFacts DEF Arguments, Links, PropertyOf
    <2>3. Exists(chain, PropertyOf(k, n), contract[PropertyOf(k, n)])
      BY <2>2, <1>2 DEF ContextOK
    <2>4. contract[PropertyOf(k, n)] \in Addresses
      BY <2>2, <2>3, <1>2, ExistsAddress
    <2> QED BY <2>2, <2>3, <2>4
  <1>6. Abi(k) \in Releases(k)
    BY <1>1 DEF Abi, Releases, RecordsOK, WorldOK, Sources
  <1>7. r \in Contract(k)
    <2> DEFINE l == Links(k)
    <2>1. l = [n \in Arguments(k) |-> l[n]] /\ \A n \in Arguments(k) : l[n] \in Addresses
      <3>1. Links(k) = [n \in Arguments(k) |-> Links(k)[n]]
        BY DEF Links
      <3> QED BY <3>1, <1>5
    <2> HIDE DEF l
    <2>2. l \in [Arguments(k) -> Addresses]
      BY <2>1
    <2> QED BY <2>2, <1>6 DEF l, Contract
  <1>8. r.links = Links(k) /\ r.abi = Abi(k)
    OBVIOUS
  <1> HIDE DEF r
  <1>9. chain' = WithContract(chain, k, r)
    BY <1>3 DEF r, WithContract
  <1>10. /\ ChainOK(chain') /\ Kept(chain, chain') /\ LinksKept(chain, chain')
         /\ Len(chain'[k]) = len + 1 /\ chain'[k][len + 1] = r
         /\ \A x \in Keys \ {k} : chain'[x] = chain[x]
    <2>1. \A n \in Arguments(k) : Exists(chain, PropertyOf(k, n), r.links[n])
      BY <1>5, <1>8
    <2> QED BY <1>1, <1>2, <1>7, <1>9, <2>1, Appended
  <1>11. contract = [x \in Keys |-> contract[x]]
    BY <1>2 DEF ContextOK
  <1>12. /\ contract' = [x \in Keys |-> contract'[x]]
         /\ contract'[k] = <<k, len + 1>> /\ \A x \in Keys \ {k} : contract'[x] = contract[x]
    BY <1>1, <1>3, <1>11
  <1>13. contract'[k] # None
    BY <1>1, <1>4, <1>12, KeyFacts
  <1>14. ContextOK(chain', contract')
    <2>1. ASSUME NEW x \in Keys PROVE Exists(chain', x, contract'[x])
      <3>1. CASE x = k
        <4>1. len + 1 \in 1..Len(chain'[k])
          BY <1>4, <1>10
        <4> QED BY <3>1, <4>1, <1>12 DEF Exists
      <3>2. CASE x # k
        <4>1. Exists(chain, x, contract[x])
          BY <1>2 DEF ContextOK
        <4> QED BY <3>2, <4>1, <1>10, <1>12 DEF Exists
      <3> QED BY <3>1, <3>2
    <2> QED BY <2>1, <1>12 DEF ContextOK
  <1> QED BY <1>4, <1>5, <1>8, <1>10, <1>12, <1>13, <1>14

LEMMA NotItself ==
  ASSUME catalog \in Catalogs, NEW k \in Keys,
         NEW d \in Named(entries, k, ClassOf(entries, k).deployment_deps)
  PROVE  d # k
  <1>1. PICK rank \in [Keys -> 1..Cardinality(Keys)] :
           \A x \in Keys : \A e \in MayDependOn(catalog, x) : rank[e] < rank[x]
    BY CatalogsAcyclic DEF Keys, entries
  <1>2. d \in MayDependOn(catalog, k)
    BY DEF MayDependOn, Named, entries
  <1>3. IsFiniteSet(Keys) /\ Cardinality(Keys) \in Nat
    BY ReleaseAssumption, FS_CardinalityType DEF Keys, entries
  <1>4. rank[k] \in Nat /\ rank[d] < rank[k]
    BY <1>1, <1>2, <1>3
  <1> QED BY <1>4

\* What is deployed after less.
LEMMA ConstructAhead ==
  ASSUME catalog \in Catalogs, RecordsOK, Construct
  PROVE  AheadOK'
  <1> USE SameCatalog
  <1> DEFINE k == Head(todo)
             Deps(x) == Named(entries, x, ClassOf(entries, x).deployment_deps)
  <1>1. /\ phase = "deploying" /\ k \in Keys /\ k \in Ahead
        /\ todo' \in Seq(Keys) /\ Len(todo') = Len(todo) - 1 /\ Len(todo) \in Nat
        /\ todo # <<>> /\ k = todo[1]
        /\ \A i \in 1..Len(todo') : todo'[i] = todo[i + 1] /\ i + 1 \in 1..Len(todo)
        /\ Ahead' = Ahead \ {k} /\ catalog' = catalog
    BY Constructed
  <1>2. contract'[k] # None /\ \A x \in Keys \ {k} : contract'[x] = contract[x]
    BY ConstructedContract
  <1> HIDE DEF k
  <1>3. AheadOK
    BY <1>1 DEF RecordsOK, InDeployment
  <1>4. \A i, j \in 1..Len(todo') : i # j => todo'[i] # todo'[j]
    <2>1. TAKE i, j \in 1..Len(todo')
    <2>2. i # j => i + 1 # j + 1
      BY <1>1
    <2> QED BY <2>2, <1>1, <1>3 DEF AheadOK
  <1>5. ASSUME NEW x \in Keys
        PROVE  DeploymentDependencies(entries, contract', x)
                  \subseteq DeploymentDependencies(entries, contract, x)
    <2>1. ASSUME NEW d \in Named(entries, x, ClassOf(entries, x).deploy_or_config_deps),
                 contract'[d] = None
          PROVE  contract[d] = None
      <3>1. d \in Keys
        BY KeyFacts DEF Named, PropertyOf
      <3> QED BY <2>1, <3>1, <1>2
    <2> QED BY <2>1 DEF DeploymentDependencies
  <1>6. \A i, j \in 1..Len(todo') :
           i < j => todo'[j] \notin DeploymentDependencies(entries, contract', todo'[i])
    <2>1. TAKE i, j \in 1..Len(todo')
    <2>2. ASSUME i < j PROVE todo'[j] \notin DeploymentDependencies(entries, contract', todo'[i])
      <3>1. i + 1 < j + 1 /\ i + 1 \in 1..Len(todo) /\ j + 1 \in 1..Len(todo)
        BY <2>2, <1>1
      <3>2. todo[j + 1] \notin DeploymentDependencies(entries, contract, todo[i + 1])
        BY <3>1, <1>3 DEF AheadOK
      <3>3. todo'[i] = todo[i + 1] /\ todo'[j] = todo[j + 1] /\ todo'[i] \in Keys
        BY <1>1
      <3> QED BY <3>2, <3>3, <1>5
    <2> QED BY <2>2
  <1>7. ASSUME NEW x \in Keys, x \notin Ahead' PROVE Deps(x) \cap Ahead' = {}
    <2>1. CASE x = k
      <3>1. ASSUME NEW y \in Ahead', y \in Deps(k) PROVE FALSE
        <4>1. PICK j \in 1..Len(todo') : todo'[j] = y
          BY <3>1 DEF Ahead
        <4>2. 1 < j + 1 /\ 1 \in 1..Len(todo) /\ j + 1 \in 1..Len(todo) /\ todo[j + 1] = y
          BY <4>1, <1>1
        <4>3. y \notin DeploymentDependencies(entries, contract, k)
          BY <4>2, <1>1, <1>3 DEF AheadOK
        <4> QED BY <3>1, <4>3 DEF DeploymentDependencies
      <3> QED BY <2>1, <3>1
    <2>2. CASE x # k
      BY <2>2, <1>1, <1>3, <1>7 DEF AheadOK
    <2> QED BY <2>1, <2>2
  <1>8. \A x \in Ahead' : Deployable(entries, x)
    BY <1>1, <1>3 DEF AheadOK
  <1>9. \A x \in Keys : Deployable(entries, x) /\ contract'[x] = None => x \in Ahead'
    BY <1>1, <1>2, <1>3 DEF AheadOK
  <1> QED BY <1>1, <1>4, <1>6, <1>7, <1>8, <1>9 DEF AheadOK

LEMMA ConstructSettled ==
  ASSUME catalog \in Catalogs, RecordsOK, Construct, NEW x \in Keys, x \notin Ahead'
  PROVE  /\ Built(chain', contract', x)
         /\ Settled(chain', contract', x, OpenLinks', OpenGrants')
         /\ ~interrupted => Newest(chain', contract', x)
  <1> DEFINE k == Head(todo)
             len == Len(chain[k])
  <1>1. /\ phase = "deploying" /\ pending = <<>> /\ k \in Keys /\ k \in Ahead
        /\ Ahead' = Ahead \ {k} /\ txs' = txs /\ unsettled' = unsettled /\ catalog' = catalog
    BY Constructed
  <1>2. /\ ChainOK(chain') /\ Kept(chain, chain') /\ LinksKept(chain, chain')
        /\ Len(chain'[k]) = len + 1 /\ len \in Nat
        /\ \A n \in Arguments(k) : chain'[k][len + 1].links[n] = contract[PropertyOf(k, n)]
        /\ \A y \in Keys \ {k} : chain'[y] = chain[y]
        /\ contract'[k] = <<k, len + 1>> /\ contract'[k] # None
        /\ \A y \in Keys \ {k} : contract'[y] = contract[y]
    BY ConstructedContract
  <1>3. pending' = IF HasConnector(k) THEN <<ChangeAuthorizedContract(k)>> ELSE <<>>
    BY DEF Construct
  <1> HIDE DEF k, len
  <1>4. /\ AheadOK /\ ContextAgrees /\ ChainOK(chain) /\ ContextOK(chain, contract)
    BY <1>1 DEF RecordsOK, InDeployment, WorldOK, ScriptOK
  <1>5. /\ OpenLinks' = unsettled \cup txs /\ OpenLinks = unsettled \cup txs
        /\ OpenGrants = unsettled /\ unsettled \subseteq OpenGrants'
        /\ HasConnector(k) => RegistrarTx(k) \in OpenGrants'
    <2>1. PendingLinks = {} /\ PendingGrants = {}
      BY <1>1 DEF PendingLinks, PendingGrants
    <2>2. /\ PendingLinks' = {} /\ (HasConnector(k) => RegistrarTx(k) \in PendingGrants')
      <3>1. CASE HasConnector(k)
        <4>1. /\ Len(pending') = 1 /\ pending'[1].func = "change_authorized_contract"
              /\ pending'[1].tx = RegistrarTx(k)
          BY <1>3, <3>1 DEF ChangeAuthorizedContract, Call
        <4> QED BY <4>1 DEF PendingLinks, PendingGrants
      <3>2. CASE ~HasConnector(k)
        BY <1>3, <3>2 DEF PendingLinks, PendingGrants
      <3> QED BY <3>1, <3>2
    <2> QED BY <2>1, <2>2, <1>1 DEF OpenLinks, OpenGrants
  <1>6. Untouched
    BY <1>1, <1>4 DEF ContextAgrees
  <1>7. Named(entries, x, ClassOf(entries, x).deployment_deps) \cap {k} = {}
    <2>1. CASE x = k
      BY <2>1, <1>1, NotItself
    <2>2. CASE x # k
      BY <2>2, <1>1, <1>4 DEF AheadOK
    <2> QED BY <2>1, <2>2
  <1>8. \A n \in Arguments(x) \ Settable :
           /\ PropertyOf(x, n) \in Keys \ {k} /\ contract'[PropertyOf(x, n)] = contract[PropertyOf(x, n)]
    <2>1. \A n \in Arguments(x) : PropertyOf(x, n) \in Keys
      BY KeyFacts DEF Arguments
    <2>2. \A n \in Arguments(x) \ Settable : PropertyOf(x, n) # k
      BY <1>7, KeyFacts
    <2> QED BY <2>1, <2>2, <1>2
  <1>9. CASE x = k
    <2>1. Built(chain', contract', x)
      BY <1>2, <1>8, <1>9 DEF Built
    <2>2. Newest(chain', contract', x)
      BY <1>2, <1>9 DEF Newest
    <2>3. ASSUME NEW c \in ConfigDeps(k)
          PROVE  /\ c[1] \in Settable \cap DOMAIN entries[k].properties
                       /\ <<k, c[2]>> \notin OpenLinks' => Linked(chain', contract', k, c[1])
                 /\ c[1] = "vault_registrar_connector_key" /\ c[1] \in DOMAIN entries[k].properties
                       /\ <<k, c[2]>> \notin OpenGrants' => FALSE
                 /\ c[1] = "key" => <<k, c[2]>> \in OpenLinks'
      <3>1. ASSUME c[1] \in Settable \cap DOMAIN entries[k].properties,
                   <<k, c[2]>> \notin OpenLinks'
            PROVE  Linked(chain', contract', k, c[1])
        <4>1. /\ c[1] \in Arguments(k) /\ PropertyOf(k, c[1]) \in Keys
              /\ PropertyOf(k, c[1]) \notin Ahead
          BY <3>1, <1>1, <1>5, <1>6, ConfigFacts DEF Untouched
        <4> QED BY <4>1, <1>1, <1>2 DEF Linked
      <3>2. ASSUME c[1] = "vault_registrar_connector_key",
                   c[1] \in DOMAIN entries[k].properties
            PROVE  <<k, c[2]>> \in OpenGrants'
        <4>1. c[1] \in Arguments(k) /\ c[2] = "set_vault_registrar_connector"
          BY <3>2, <1>1, ConfigFacts DEF Settable
        <4> QED BY <4>1, <3>2, <1>5 DEF HasConnector, RegistrarTx
      <3>3. c[1] = "key" => <<k, c[2]>> \in OpenLinks'
        BY <1>1, <1>5, <1>6 DEF Untouched
      <3> QED BY <3>1, <3>2, <3>3
    <2>4. Settled(chain', contract', x, OpenLinks', OpenGrants')
      BY <2>3, <1>9 DEF Settled
    <2> QED BY <2>1, <2>2, <2>4
  <1>10. CASE x # k
    <2>1. x \in Keys \ Ahead /\ contract'[x] = contract[x]
      BY <1>1, <1>2, <1>10
    <2>2. /\ Built(chain, contract, x) /\ Settled(chain, contract, x, OpenLinks, OpenGrants)
          /\ ~interrupted => Newest(chain, contract, x)
      BY <2>1, <1>1, <1>4 DEF ContextAgrees
    <2>3. Built(chain', contract', x)
      <3>1. Built(chain', contract, x)
        BY <2>2, <1>2, <1>4, BuiltKept
      <3> QED BY <3>1, <2>1, <1>8 DEF Built
    <2>4. ~interrupted => Newest(chain', contract', x)
      BY <2>1, <2>2, <1>2, <1>10 DEF Newest
    <2>5. ASSUME contract[x] # None, NEW c \in ConfigDeps(x)
          PROVE  /\ c[1] \in Settable \cap DOMAIN entries[x].properties
                       /\ <<x, c[2]>> \notin OpenLinks' => Linked(chain', contract', x, c[1])
                 /\ c[1] = "vault_registrar_connector_key" /\ c[1] \in DOMAIN entries[x].properties
                       /\ <<x, c[2]>> \notin OpenGrants' /\ Linked(chain', contract', x, c[1]) =>
                       Granted(chain', contract', x, PropertyOf(x, c[1]))
                 /\ c[1] = "key" /\ <<x, c[2]>> \notin OpenLinks' =>
                       Granted(chain', contract', x, PropertyOf(x, "p2p_contract_key"))
      <3>1. contract[x][2] \in 1..Len(chain[x])
        BY <2>5, <1>4, Placed
      <3>2. \A t \in Keys \ {k} : Granted(chain, contract, x, t) => Granted(chain', contract', x, t)
        BY <2>1, <1>2 DEF Granted
      <3>3. ASSUME c[1] \in Settable \cap DOMAIN entries[x].properties,
                   <<x, c[2]>> \notin OpenLinks'
            PROVE  Linked(chain', contract', x, c[1])
        <4>1. /\ PropertyOf(x, c[1]) \in Keys /\ PropertyOf(x, c[1]) \notin Ahead
              /\ Linked(chain, contract, x, c[1])
          BY <3>3, <2>2, <2>5, <1>5, <1>6, ConfigFacts DEF Untouched, Settled
        <4> QED BY <4>1, <2>1, <1>1, <1>2, <1>10 DEF Linked
      <3>4. ASSUME c[1] = "vault_registrar_connector_key", c[1] \in DOMAIN entries[x].properties,
                   <<x, c[2]>> \notin OpenGrants', Linked(chain', contract', x, c[1])
            PROVE  Granted(chain', contract', x, PropertyOf(x, c[1]))
        <4>1. c[1] \in Arguments(x) /\ PropertyOf(x, c[1]) \in Keys
          BY <3>4, ConfigFacts DEF Settable
        <4>2. chain[x][contract[x][2]].links[c[1]] = contract'[PropertyOf(x, c[1])]
          BY <3>4, <2>1, <1>2, <1>10 DEF Linked
        <4>3. PropertyOf(x, c[1]) # k
          <5>1. ASSUME PropertyOf(x, c[1]) = k PROVE FALSE
            <6>0. Exists(chain, PropertyOf(x, c[1]), chain[x][contract[x][2]].links[c[1]])
              BY <4>1, <3>1, <1>4 DEF ChainOK
            <6>1. Exists(chain, k, <<k, len + 1>>)
              BY <6>0, <5>1, <4>2, <1>2
            <6>2. <<k, len + 1>> # None
              BY <1>2
            <6> QED BY <6>1, <6>2, <1>2 DEF Exists, len
          <5> QED BY <5>1
        <4>4. Linked(chain, contract, x, c[1])
          BY <4>1, <4>2, <4>3, <1>2 DEF Linked
        <4>5. Granted(chain, contract, x, PropertyOf(x, c[1]))
          BY <4>4, <3>4, <2>2, <2>5, <1>5 DEF Settled
        <4> QED BY <4>1, <4>3, <4>5, <3>2
      <3>5. ASSUME c[1] = "key", <<x, c[2]>> \notin OpenLinks'
            PROVE  Granted(chain', contract', x, PropertyOf(x, "p2p_contract_key"))
        <4>1. /\ PropertyOf(x, "p2p_contract_key") \in Keys
              /\ PropertyOf(x, "p2p_contract_key") # k
          BY <3>5, <1>7, ConfigFacts
        <4>2. Granted(chain, contract, x, PropertyOf(x, "p2p_contract_key"))
          BY <3>5, <2>2, <2>5, <1>5 DEF Settled
        <4> QED BY <4>1, <4>2, <3>2
      <3> QED BY <3>3, <3>4, <3>5
    <2>6. Settled(chain', contract', x, OpenLinks', OpenGrants')
      BY <2>1, <2>5 DEF Settled
    <2> QED BY <2>3, <2>4, <2>6
  <1> QED BY <1>9, <1>10

LEMMA ConnectorFacts ==
  ASSUME catalog \in Catalogs, NEW k \in Keys, HasConnector(k)
  PROVE  /\ "vault_registrar_connector_key" \in Arguments(k)
         /\ "vault_registrar_connector_key" \in DOMAIN entries[k].properties
         /\ Connector(k) = PropertyOf(k, "vault_registrar_connector_key") /\ Connector(k) \in Keys
  <1>1. "vault_registrar_connector_key" \in Arguments(k)
    BY DEF HasConnector
  <1>2. "vault_registrar_connector_key" \in DOMAIN entries[k].properties
    BY <1>1 DEF Arguments
  <1>3. Connector(k) = PropertyOf(k, "vault_registrar_connector_key")
    BY DEF Connector, PropertyOf
  <1> QED BY <1>1, <1>2, <1>3, KeyFacts

LEMMA SameCalls ==
  ASSUME catalog' = catalog, NEW k
  PROVE  /\ HasConnector(k)' <=> HasConnector(k)
         /\ Connector(k)' = Connector(k)
         /\ RegistrarTx(k)' = RegistrarTx(k)
         /\ ChangeAuthorizedContract(k)' = ChangeAuthorizedContract(k)
  BY DEF HasConnector, Connector, RegistrarTx, ChangeAuthorizedContract, Arguments, entries

LEMMA EncodableFacts ==
  ASSUME catalog \in Catalogs, NEW k \in Keys, Encodable(k), NEW n \in Arguments(k)
  PROVE  contract[PropertyOf(k, n)] # None
  BY DEF Encodable, Links, PropertyOf

LEMMA ConstructRecords ==
  ASSUME catalog \in Catalogs, RecordsOK, Construct
  PROVE  RecordsOK'
  <1> USE SameCatalog
  <1> SUFFICES ASSUME NEW k, k = Head(todo) PROVE RecordsOK'
    OBVIOUS
  <1> DEFINE len == Len(chain[k])
  <1>1. /\ phase = "deploying" /\ pending = <<>> /\ k \in Keys /\ k \in Ahead
        /\ Deployable(entries, k) /\ Encodable(k) /\ Ahead' = Ahead \ {k}
        /\ UNCHANGED <<catalog, source, file, explorer, phase, contracts_to_deploy, txs, job,
                       unsettled, interrupted>>
    BY Constructed
  <1>2. /\ ChainOK(chain') /\ Kept(chain, chain') /\ LinksKept(chain, chain')
        /\ contract'[k] = <<k, len + 1>> /\ contract'[k] # None /\ len \in Nat
        /\ \A x \in Keys \ {k} : contract'[x] = contract[x]
        /\ ContextOK(chain', contract')
    BY ConstructedContract
  <1>3. pending' = IF HasConnector(k) THEN <<ChangeAuthorizedContract(k)>> ELSE <<>>
    BY DEF Construct
  <1> HIDE DEF len
  <1>4. /\ AheadOK /\ ContextAgrees /\ ContextOK(chain, Recorded) /\ InDeployment'
        /\ phase' = "deploying" /\ phase' # "configuring" /\ phase' # "planning"
    BY <1>1 DEF RecordsOK, InDeployment, WorldOK
  <1>5. PhaseOK' /\ TxsOK' /\ Planned'
    BY <1>1 DEF RecordsOK, PhaseOK, TxsOK, Planned, Phases
  <1>6. PendingOK'
    <2>1. ASSUME pending' # <<>> PROVE Authorising(k)'
      <3>1. HasConnector(k) /\ pending' = <<ChangeAuthorizedContract(k)>>
        BY <2>1, <1>3
      <3>3. Connector(k) \in Keys /\ contract[Connector(k)] # None
        BY <3>1, <1>1, ConnectorFacts, EncodableFacts
      <3>4. contract'[Connector(k)] # None
        BY <3>3, <1>2
      <3>5. /\ HasConnector(k)' /\ Connector(k)' = Connector(k)
            /\ ChangeAuthorizedContract(k)' = ChangeAuthorizedContract(k)
        BY <3>1, <1>1, SameCalls
      <3> QED BY <3>1, <3>3, <3>4, <3>5, <1>1, <1>2 DEF Authorising, Ready
    <2> QED BY <2>1, <1>1, <1>4 DEF PendingOK
  <1>7. WorldOK' /\ \A x \in Keys : Built(chain', Recorded, x)
    BY <1>1, <1>2, WorldKept
  <1>8. ScriptOK'
    <2>1. ContextOK(chain, contract)'
      BY <1>1, <1>2, SameConditions
    <2> QED BY <2>1, <1>1, <1>4 DEF RecordsOK, ScriptOK, Verifying
  <1>9. FileAgrees'
    <2>1. \A x \in Keys : Settled(chain, Recorded, x, unsettled, unsettled)
      BY <1>1 DEF RecordsOK, FileAgrees
    <2>2. \A x \in Keys : Settled(chain', Recorded, x, unsettled, unsettled)
      BY <2>1, <1>2, <1>4, SettledKept
    <2>3. \A x \in Keys : /\ Built(chain, Recorded, x)'
                          /\ Settled(chain, Recorded, x, unsettled, unsettled)'
      BY <2>2, <1>1, <1>7, SameConditions
    <2>4. \A x \in Stored : file'[x].address # None =>
            \A n \in DOMAIN file'[x].properties_addresses \cap Arguments(x) :
               file'[x].properties_addresses[n] = file'[PropertyOf(x, n)].address
      BY <1>1 DEF RecordsOK, FileAgrees
    <2> QED BY <2>3, <2>4, <1>1, <1>4 DEF FileAgrees
  <1>10. ContextAgrees'
    <2>1. \A x \in Keys \ Ahead' : /\ Built(chain', contract', x)
                                   /\ Settled(chain', contract', x, OpenLinks', OpenGrants')
                                   /\ ~interrupted => Newest(chain', contract', x)
      BY ConstructSettled
    <2>2. \A x \in Keys \ Ahead' : /\ Built(chain, contract, x)'
                                   /\ Settled(chain, contract, x, OpenLinks, OpenGrants)'
                                   /\ ~interrupted' => Newest(chain, contract, x)'
      BY <2>1, <1>1, SameConditions
    <2>3. \A x \in Keys : ~ Deployable(entries, x) =>
             contract'[x] = IF x \in Blanked THEN None ELSE file[x].address
      BY <1>1, <1>2, <1>4 DEF ContextAgrees
    <2>6. ASSUME NEW x \in Keys, contract'[x] # None PROVE Complete(x)
      <3>1. CASE x = k
        <4>1. \A y \in Blanked : contract[y] = None
          BY <1>4 DEF ContextAgrees, Blanked
        <4> QED BY <3>1, <4>1, <1>1, EncodableFacts DEF Complete
      <3>2. CASE x # k
        BY <2>6, <3>2, <1>2, <1>4 DEF ContextAgrees
      <3> QED BY <3>1, <3>2
    <2>4. ASSUME NEW x \in Keys, file[x].address # None, contract'[x] # None
          PROVE  file[x].address[2] <= contract'[x][2]
      <3>1. CASE x = k
        <4>1. file[k].address[2] \in 1..len
          BY <2>4, <3>1, <1>1, <1>4, Placed DEF Recorded, len
        <4> QED BY <4>1, <3>1, <1>2
      <3>2. CASE x # k
        BY <2>4, <3>2, <1>2, <1>4 DEF ContextAgrees
      <3> QED BY <3>1, <3>2
    <2>5. Untouched'
      BY <1>1, <1>4 DEF ContextAgrees, Untouched
    <2> QED BY <2>2, <2>3, <2>4, <2>5, <2>6, <1>1, <1>4 DEF ContextAgrees
  <1> QED BY <1>5, <1>6, <1>7, <1>8, <1>9, <1>10, ConstructAhead DEF RecordsOK
-----------------------------------------------------------------------------
(* A deployment dies or saves.                                             *)

LEMMA PendingShape ==
  ASSUME RecordsOK
  PROVE  /\ DOMAIN pending = 1..Len(pending) /\ Len(pending) \in Nat
         /\ pending = <<>> => PendingLinks = {} /\ PendingGrants = {}
  <1>1. \/ pending = <<>>
        \/ \E k : pending = <<ChangeAuthorizedContract(k)>>
        \/ \E k : pending = <<Call(k, "change_vault_registrar", Connector(k), RegistrarTx(k)),
                              ChangeAuthorizedContract(k)>>
        \/ \E k, name, func, tx : pending = <<Call(k, func, PropertyOf(k, name), <<k, tx>>)>>
        \/ \E k, tx : pending = SetProxyAuth(k, tx)
    BY DEF RecordsOK, PendingOK, Authorising, SettingConnector, SettingFacet, AuthorisingProxy
  <1>2. DOMAIN pending = 1..Len(pending) /\ Len(pending) \in Nat
    BY <1>1 DEF SetProxyAuth
  <1>3. pending = <<>> => PendingLinks = {} /\ PendingGrants = {}
    BY DEF PendingLinks, PendingGrants
  <1> QED BY <1>2, <1>3

LEMMA EndedRecords ==
  ASSUME catalog \in Catalogs, RecordsOK, CannotEncode \/ Crash
  PROVE  RecordsOK'
  <1>1. CASE CannotEncode
    BY <1>1, ForgottenRecords DEF CannotEncode, world
  <1>2. CASE Crash
    <2>1. /\ Forget /\ UNCHANGED <<catalog, source, chain, file, explorer>>
          /\ interrupted' = (interrupted \/ phase = "deploying")
          /\ unsettled' = IF phase = "configuring"
                          THEN unsettled \cup txs \cup {pending[i].tx : i \in DOMAIN pending}
                          ELSE unsettled
      BY <1>2 DEF Crash
    <2>2. phase = "configuring" => OpenLinks \cup OpenGrants \subseteq unsettled'
      BY <2>1, PendingShape DEF OpenLinks, OpenGrants, PendingLinks, PendingGrants
    <2> QED BY <2>1, <2>2, ForgottenRecords
  <1> QED BY <1>1, <1>2

\* What is stored is what the context holds; what a local deployment worked
\* without matters to none of the conditions.
LEMMA StoredContracts ==
  ASSUME catalog \in Catalogs, RecordsOK, StoreContracts, catalog' = catalog,
         AheadOK, ContextAgrees, Ahead = {}
  PROVE  /\ file' = [k \in Keys |-> file'[k]]
         /\ \A k \in Keys \ Blanked : Recorded'[k] = contract[k]
         /\ \A k \in Keys : Recorded'[k] = file'[k].address
         /\ ContextOK(chain, Recorded')
         /\ \A k \in Keys : /\ Built(chain, contract, k) => Built(chain, Recorded', k)
                            /\ Newest(chain, contract, k) => Newest(chain, Recorded', k)
                            /\ \A L, G : Settled(chain, contract, k, L, G)
                                            => Settled(chain, Recorded', k, L, G)
         /\ \A k \in Stored : \A n \in DOMAIN file'[k].properties_addresses \cap Arguments(k) :
               file'[k].properties_addresses[n] = file'[PropertyOf(k, n)].address
  <1> USE SameCatalog
  <1>1. ASSUME NEW k \in Keys
        PROVE  /\ k \in Stored => /\ file'[k].address = contract[k]
                                  /\ file'[k].properties_addresses = PropertiesAddresses(k)
               /\ k \notin Stored => file'[k] = file[k]
    <2> DEFINE build == IF abi_key[k] # None THEN abi_key[k] ELSE file[k].abi_key
               listed == PropertiesAddresses(k)
    <2>1. file'[k] = IF k \notin Stored THEN file[k]
                     ELSE [address |-> contract[k], abi_key |-> build,
                           properties_addresses |-> listed]
      BY DEF StoreContracts
    <2> HIDE DEF build, listed
    <2>2. k \in Stored => file'[k].address = contract[k] /\ file'[k].properties_addresses = listed
      BY <2>1
    <2> QED BY <2>1, <2>2 DEF listed
  <1>2. file' = [k \in Keys |-> file'[k]]
    BY DEF StoreContracts
  <1>3. ASSUME NEW k \in Keys
        PROVE  /\ k \notin Blanked => file'[k].address = contract[k]
               /\ Exists(chain, k, file'[k].address)
    <2>1. Exists(chain, k, contract[k]) /\ Exists(chain, k, file[k].address)
      BY DEF RecordsOK, ScriptOK, WorldOK, ContextOK, Recorded
    <2>2. CASE k \in Stored
      BY <2>1, <2>2, <1>1
    <2>3. CASE k \notin Stored
      <3>1. ~ Deployable(entries, k)
        BY <2>3, KeyFacts
      <3> QED BY <3>1, <2>1, <2>3, <1>1 DEF ContextAgrees
    <2> QED BY <2>2, <2>3
  <1>4. /\ Recorded' = [k \in Keys |-> file'[k].address]
        /\ \A k \in Keys : Recorded'[k] = file'[k].address
    BY DEF Recorded
  <1>5. ContextOK(chain, Recorded')
    BY <1>3, <1>4 DEF ContextOK
  <1>7. ASSUME NEW k \in Keys
        PROVE  Complete(k)
    <2>1. CASE Deployable(entries, k)
      BY <2>1 DEF AheadOK, ContextAgrees
    <2>2. CASE ~ Deployable(entries, k)
      BY <2>2, KeyFacts DEF Complete
    <2> QED BY <2>1, <2>2
  <1>8. \A k \in Keys \ Blanked : Recorded'[k] = contract[k]
    BY <1>3, <1>4
  <1>9. \A k \in Keys : /\ Built(chain, contract, k) => Built(chain, Recorded', k)
                        /\ Newest(chain, contract, k) => Newest(chain, Recorded', k)
                        /\ \A L, G : Settled(chain, contract, k, L, G)
                                        => Settled(chain, Recorded', k, L, G)
    BY <1>7, <1>8, OutsideBlanked
  <1>6. ASSUME NEW k \in Stored, NEW n \in DOMAIN file'[k].properties_addresses \cap Arguments(k)
        PROVE  file'[k].properties_addresses[n] = file'[PropertyOf(k, n)].address
    <2>1. k \in Keys /\ file'[k].properties_addresses = PropertiesAddresses(k)
      BY <1>1 DEF Stored, InScope
    <2>2. n \in DOMAIN PropertiesAddresses(k)
      BY <2>1
    <2>3. PropertiesAddresses(k)[n] = contract[PropertyOf(k, n)]
      BY <2>2 DEF PropertiesAddresses, PropertyOf
    <2>4. PropertyOf(k, n) \in Keys \ Blanked
      BY <2>1, <1>7, KeyFacts DEF Arguments, Complete
    <2> QED BY <2>1, <2>3, <2>4, <1>3
  <1> QED BY <1>2, <1>4, <1>5, <1>6, <1>8, <1>9

LEMMA SaveRecords ==
  ASSUME catalog \in Catalogs, RecordsOK, Save
  PROVE  RecordsOK'
  <1> USE SameCatalog
  <1>1. /\ phase = "deploying" /\ todo = <<>> /\ pending = <<>> /\ StoreContracts
        /\ phase' = "configuring"
        /\ UNCHANGED <<catalog, source, chain, explorer, contract, contracts_to_deploy, txs,
                       pending, todo, job, unsettled, interrupted>>
    BY DEF Save, context, plan, verification, history
  <1>2. /\ InDeployment /\ InDeployment' /\ AheadOK /\ ContextAgrees
        /\ Ahead = {} /\ Ahead' = {}
    BY <1>1 DEF RecordsOK, InDeployment, Ahead
  <1>3. /\ file' = [k \in Keys |-> file'[k]]
        /\ \A k \in Keys \ Blanked : Recorded'[k] = contract[k]
        /\ \A k \in Keys : Recorded'[k] = file'[k].address
        /\ ContextOK(chain, Recorded')
        /\ \A k \in Stored : \A n \in DOMAIN file'[k].properties_addresses \cap Arguments(k) :
              file'[k].properties_addresses[n] = file'[PropertyOf(k, n)].address
    BY <1>1, <1>2, StoredContracts
  <1>4. ChainOK(chain) /\ ContextOK(chain, contract)
    BY DEF RecordsOK, WorldOK, ScriptOK
  <1>5. \A k \in Keys : /\ Built(chain, contract, k)
                        /\ Settled(chain, contract, k, OpenLinks, OpenGrants)
                        /\ ~interrupted => Newest(chain, contract, k)
    BY <1>1, <1>2 DEF ContextAgrees
  <1>12. \A k \in Keys : /\ Built(chain, Recorded', k)
                         /\ ~interrupted => Newest(chain, Recorded', k)
    BY <1>1, <1>2, <1>5, StoredContracts
  <1>6. PhaseOK' /\ PendingOK' /\ TxsOK' /\ Planned'
    BY <1>1 DEF RecordsOK, PhaseOK, PendingOK, TxsOK, Planned, Phases
  <1>7. WorldOK'
    <2>1. ChainOK(chain)' /\ ContextOK(chain, Recorded)'
      BY <1>1, <1>3, <1>4, SameConditions
    <2> QED BY <2>1, <1>1, <1>3 DEF RecordsOK, WorldOK
  <1>8. ScriptOK'
    <2>1. ContextOK(chain, contract)'
      BY <1>1, <1>4, SameConditions
    <2> QED BY <2>1, <1>1 DEF RecordsOK, ScriptOK, Verifying
  <1>9. FileAgrees'
    <2>1. \A k \in Keys : /\ Built(chain, Recorded, k)'
                          /\ ~interrupted' => Newest(chain, Recorded, k)'
      BY <1>1, <1>12, SameConditions
    <2> QED BY <2>1, <1>1, <1>3 DEF FileAgrees
  <1>10. AheadOK'
    BY <1>1, <1>2 DEF AheadOK
  <1>11. ContextAgrees'
    <2>1. OpenLinks' = OpenLinks /\ OpenGrants' = OpenGrants
      BY <1>1 DEF OpenLinks, OpenGrants, PendingLinks, PendingGrants
    <2>2. \A k \in Keys : /\ Built(chain, contract, k)'
                          /\ Settled(chain, contract, k, OpenLinks, OpenGrants)'
      BY <1>1, <1>5, <2>1, SameConditions
    <2>3. \A k \in Keys : contract[k] # None => contract[k][2] <= contract[k][2]
      <3>1. \A k \in Keys : contract[k] # None =>
               contract[k][2] \in 1..Len(chain[k]) /\ Len(chain[k]) \in Nat
        BY <1>4, Placed, LengthsNatural
      <3> QED BY <3>1
    <2>4. \A k \in Blanked : ~ Deployable(entries, k) /\ contract[k] = None
      BY <1>2 DEF ContextAgrees, Blanked
    <2>5. ASSUME NEW k \in Keys
          PROVE  /\ ~ Deployable(entries, k) =>
                       contract[k] = IF k \in Blanked THEN None ELSE file'[k].address
                 /\ file'[k].address # None /\ contract[k] # None =>
                       file'[k].address[2] <= contract[k][2]
                 /\ contract[k] # None => Complete(k)
      <3>1. contract[k] # None => Complete(k)
        BY <1>2 DEF ContextAgrees
      <3> QED BY <3>1, <2>3, <2>4, <1>3
    <2> QED BY <2>2, <2>5, <1>1, <1>2, <1>3 DEF ContextAgrees
  <1> QED BY <1>6, <1>7, <1>8, <1>9, <1>10, <1>11 DEF RecordsOK

LEMMA SaveAgainRecords ==
  ASSUME catalog \in Catalogs, RecordsOK, SaveAgain
  PROVE  RecordsOK'
  <1> USE SameCatalog
  <1>1. /\ phase = "configuring" /\ txs = {} /\ pending = <<>> /\ StoreContracts
        /\ UNCHANGED <<catalog, source, chain, explorer, unsettled, interrupted>>
    BY DEF SaveAgain, history
  <1>2. /\ InDeployment /\ AheadOK /\ ContextAgrees /\ Ahead = {}
        /\ \A k \in Keys \ Blanked : contract[k] = Recorded[k]
    BY <1>1 DEF RecordsOK, InDeployment, Ahead, PhaseOK, ContextAgrees
  <1>3. /\ file' = [k \in Keys |-> file'[k]]
        /\ ContextOK(chain, Recorded')
        /\ \A k \in Stored : \A n \in DOMAIN file'[k].properties_addresses \cap Arguments(k) :
              file'[k].properties_addresses[n] = file'[PropertyOf(k, n)].address
    BY <1>1, <1>2, StoredContracts
  <1>4. /\ ChainOK(chain) /\ ContextOK(chain, contract) /\ contracts_to_deploy \in Seq(Keys)
        /\ job \in 0..(MaxAttempts - 1) \cup {None}
    BY DEF RecordsOK, WorldOK, ScriptOK, PhaseOK
  <1>5. OpenLinks = unsettled /\ OpenGrants = unsettled
    BY <1>1, PendingShape DEF OpenLinks, OpenGrants
  <1>6. \A k \in Keys : /\ Built(chain, contract, k)
                        /\ Settled(chain, contract, k, unsettled, unsettled)
                        /\ ~interrupted => Newest(chain, contract, k)
    <2>1. \A k \in Keys : /\ Built(chain, contract, k)
                          /\ Settled(chain, contract, k, unsettled, unsettled)
      BY <1>2, <1>5 DEF ContextAgrees
    <2>2. \A k \in Keys : ~interrupted => Newest(chain, Recorded, k)
      BY <1>1 DEF RecordsOK, FileAgrees
    <2> QED BY <2>1, <2>2, <1>2, OutsideBlanked
  <1>13. \A k \in Keys : /\ Built(chain, Recorded', k)
                         /\ Settled(chain, Recorded', k, unsettled, unsettled)
                         /\ ~interrupted => Newest(chain, Recorded', k)
    BY <1>1, <1>2, <1>6, StoredContracts
  <1>7. \/ /\ phase' = "verifying" /\ todo' = Selected(contracts_to_deploy,
                                                       {k \in Keys : contract[k] # None})
           /\ UNCHANGED <<contract, contracts_to_deploy, txs, pending, job>>
        \/ Forget
    BY DEF SaveAgain, context, plan, verification
  <1>8. /\ ~InDeployment' /\ PhaseOK' /\ pending' = <<>> /\ txs' = {}
        /\ phase' # "planning" /\ phase' # "configuring" /\ phase' # "deploying"
    BY <1>1, <1>4, <1>7 DEF InDeployment, PhaseOK, Phases, Forget
  <1>9. PendingOK' /\ TxsOK' /\ Planned'
    BY <1>8 DEF PendingOK, TxsOK, Planned
  <1>10. WorldOK'
    <2>1. ChainOK(chain)' /\ ContextOK(chain, Recorded)'
      BY <1>1, <1>3, <1>4, SameConditions
    <2> QED BY <2>1, <1>1, <1>3 DEF RecordsOK, WorldOK
  <1>11. ScriptOK'
    <2>1. CASE Forget
      <3>1. /\ contract' = [k \in Keys |-> None] /\ phase' = "idle" /\ contracts_to_deploy' = <<>>
        BY <2>1 DEF Forget
      <3>2. ContextOK(chain', contract')
        BY <3>1 DEF ContextOK, Exists
      <3>3. ContextOK(chain, contract)'
        BY <1>1, <3>2, SameConditions
      <3> QED BY <3>1, <3>3 DEF ScriptOK, Verifying
    <2>2. CASE /\ phase' = "verifying"
               /\ todo' = Selected(contracts_to_deploy, {k \in Keys : contract[k] # None})
               /\ UNCHANGED <<contract, contracts_to_deploy, txs, pending, job>>
      <3> DEFINE made == {k \in Keys : contract[k] # None}
      <3>1. todo' \in Seq(Keys \cap made)
        BY <2>2, <1>4, SelectedFacts
      <3>2. Keys \cap made \subseteq Keys /\ \A k \in Keys \cap made : contract[k] # None
        OBVIOUS
      <3> HIDE DEF made
      <3>3. todo' \in Seq(Keys) /\ \A i \in 1..Len(todo') : contract[todo'[i]] # None
        BY <3>1, <3>2
      <3>4. ContextOK(chain, contract)'
        BY <1>1, <1>4, <2>2, SameConditions
      <3> QED BY <3>3, <3>4, <2>2, <1>1, <1>4 DEF ScriptOK
    <2> QED BY <2>1, <2>2, <1>7
  <1>12. FileAgrees'
    <2>1. \A k \in Keys : /\ Built(chain, Recorded, k)'
                          /\ Settled(chain, Recorded, k, unsettled, unsettled)'
                          /\ ~interrupted' => Newest(chain, Recorded, k)'
      BY <1>1, <1>13, SameConditions
    <2> QED BY <2>1, <1>1, <1>3 DEF FileAgrees
  <1> QED BY <1>8, <1>9, <1>10, <1>11, <1>12 DEF RecordsOK
-----------------------------------------------------------------------------
(* The calls of a deployment and its configuration transactions.           *)

\* A step of a deployment that leaves the context and the file alone.
LEMMA DeploymentStepRecords ==
  ASSUME catalog \in Catalogs, RecordsOK, InDeployment,
         UNCHANGED <<catalog, source, file, explorer, phase, contract, contracts_to_deploy,
                     todo, job, interrupted>>,
         ChainOK(chain'), Kept(chain, chain'), phase = "deploying" => LinksKept(chain, chain'),
         \A k \in Keys : Len(chain'[k]) = Len(chain[k]),
         PendingOK', txs' \subseteq txs, phase = "deploying" => txs' = txs,
         unsettled \subseteq unsettled',
         \A k \in Keys \ Ahead : Settled(chain', contract, k, OpenLinks', OpenGrants')
  PROVE  RecordsOK'
  <1> USE SameCatalog
  <1>1. /\ ChainOK(chain) /\ ContextOK(chain, Recorded) /\ ContextOK(chain, contract)
        /\ AheadOK /\ ContextAgrees /\ InDeployment'
        /\ phase' # "planning" /\ phase' # "idle"
        /\ phase \in {"deploying", "configuring"}
    BY DEF RecordsOK, WorldOK, ScriptOK, InDeployment
  <1>2. PhaseOK' /\ TxsOK' /\ Planned'
    <2>1. PhaseOK' /\ Planned'
      BY <1>1 DEF RecordsOK, PhaseOK, Planned, Phases
    <2>2. TxsOK'
      BY DEF RecordsOK, TxsOK
    <2> QED BY <2>1, <2>2
  <1>3. /\ WorldOK' /\ ContextOK(chain', contract) /\ \A k \in Keys : Built(chain', Recorded, k)
    BY WorldKept
  <1>4. ScriptOK'
    <2>1. ContextOK(chain, contract)'
      BY <1>3, SameConditions
    <2> QED BY <2>1, <1>1 DEF RecordsOK, ScriptOK, Verifying
  <1>5. FileAgrees'
    <2>1. ASSUME phase # "configuring", NEW k \in Keys
          PROVE  Settled(chain', Recorded, k, unsettled', unsettled')
      <3>1. Settled(chain, Recorded, k, unsettled, unsettled)
        BY <2>1 DEF RecordsOK, FileAgrees
      <3> QED BY <3>1, <2>1, <1>1, SettledKept
    <2>2. phase # "deploying" /\ ~interrupted => \A k \in Keys : Newest(chain', Recorded, k)
      BY DEF RecordsOK, FileAgrees, Newest
    <2>3. \A k \in Keys :
             /\ Built(chain, Recorded, k)'
             /\ phase' # "configuring" => Settled(chain, Recorded, k, unsettled, unsettled)'
             /\ phase' # "deploying" /\ ~interrupted' => Newest(chain, Recorded, k)'
      BY <1>3, <2>1, <2>2, SameConditions
    <2>4. \A k \in Stored : file'[k].address # None =>
            \A n \in DOMAIN file'[k].properties_addresses \cap Arguments(k) :
               file'[k].properties_addresses[n] = file'[PropertyOf(k, n)].address
      BY DEF RecordsOK, FileAgrees
    <2> QED BY <2>3, <2>4 DEF FileAgrees
  <1>6. Ahead' = Ahead
    BY DEF Ahead
  <1>7. AheadOK'
    BY <1>1, <1>6 DEF AheadOK
  <1>8. ContextAgrees'
    <2>1. \A k \in Keys \ Ahead : Built(chain, contract, k)
      BY <1>1 DEF ContextAgrees
    <2>2. \A k \in Keys \ Ahead : Built(chain', contract, k)
      BY <2>1, <1>1, BuiltKept
    <2>3. phase = "deploying" /\ ~interrupted =>
             \A k \in Keys \ Ahead : Newest(chain', contract, k)
      BY <1>1 DEF ContextAgrees, Newest
    <2>4. \A k \in Keys \ Ahead :
             /\ Built(chain, contract, k)'
             /\ Settled(chain, contract, k, OpenLinks, OpenGrants)'
             /\ phase' = "deploying" /\ ~interrupted' => Newest(chain, contract, k)'
      BY <2>2, <2>3, SameConditions
    <2>5. phase = "deploying" => Untouched'
      BY <1>1, <1>6 DEF ContextAgrees, Untouched
    <2>6. Recorded' = Recorded
      BY SameConditions
    <2> QED BY <2>4, <2>5, <2>6, <1>1, <1>6 DEF ContextAgrees
  <1> QED BY <1>2, <1>3, <1>4, <1>5, <1>7, <1>8 DEF RecordsOK

\* While transactions run, everything is deployed and has an address.
LEMMA Configuring ==
  ASSUME catalog \in Catalogs, RecordsOK, phase = "configuring"
  PROVE  /\ InDeployment /\ Ahead = {} /\ ContextAgrees
         /\ ChainOK(chain) /\ ContextOK(chain, contract)
         /\ \A k \in Keys : Deployable(entries, k) => Ready(k)
         /\ \A k \in Keys : Settled(chain, contract, k, OpenLinks, OpenGrants)
  <1>1. InDeployment /\ Ahead = {} /\ AheadOK /\ ContextAgrees
    BY DEF RecordsOK, InDeployment, PhaseOK, Ahead
  <1>2. ChainOK(chain) /\ ContextOK(chain, contract)
    BY DEF RecordsOK, WorldOK, ScriptOK
  <1> QED BY <1>1, <1>2 DEF AheadOK, ContextAgrees, Ready

\* The calls of a transaction: those that set a link, none if it is set, or
\* the one that authorises a proxy.
SetsLink(k, c, tx) ==
    /\ c[1] \in Settable \cap DOMAIN entries[k].properties
    /\ c[1] \in Arguments(k) /\ Ready(PropertyOf(k, c[1]))
    /\ \/ CallsOf(tx) = <<>> /\ Linked(chain, contract, k, c[1])
       \/ /\ c = <<"refinance_impl_key", "set_refinance_impl">>
          /\ CallsOf(tx) = <<Call(k, "set_refinance_addr", PropertyOf(k, c[1]), tx)>>
       \/ /\ c = <<"liquidation_impl_key", "set_liquidation_impl">>
          /\ CallsOf(tx) = <<Call(k, "set_liquidation_addr", PropertyOf(k, c[1]), tx)>>
       \/ /\ c = <<"vault_registrar_connector_key", "set_vault_registrar_connector">>
          /\ HasConnector(k) /\ Connector(k) = PropertyOf(k, c[1])
          /\ CallsOf(tx) = <<Call(k, "change_vault_registrar", Connector(k), RegistrarTx(k)),
                             ChangeAuthorizedContract(k)>>

AuthorisesProxy(k, c, tx) ==
    /\ c = <<"key", "set_proxy_auth">>
    /\ "p2p_contract_key" \in DOMAIN entries[k].properties
    /\ Ready(PropertyOf(k, "p2p_contract_key"))
    /\ CallsOf(tx) = SetProxyAuth(k, tx)

LEMMA CallsFacts ==
  ASSUME catalog \in Catalogs, RecordsOK, phase = "configuring", NEW tx \in txs
  PROVE  \E k \in Keys : \E c \in ConfigDeps(k) :
            tx = <<k, c[2]>> /\ Ready(k) /\ (SetsLink(k, c, tx) \/ AuthorisesProxy(k, c, tx))
  <1>0. PICK k \in Keys : \E c \in ConfigDeps(k) :
           tx = <<k, c[2]>> /\ (c[1] = "key" \/ c[1] \in DOMAIN entries[k].properties)
    BY DEF RecordsOK, TxsOK
  <1>1. PICK c \in ConfigDeps(k) :
           tx = <<k, c[2]>> /\ (c[1] = "key" \/ c[1] \in DOMAIN entries[k].properties)
    BY <1>0
  <1>2. Ready(k) /\ contract[k][1] = k
    <2>1. Ready(k) /\ ContextOK(chain, contract)
      BY ConfigFacts, Configuring
    <2>2. contract[k] = <<k, contract[k][2]>>
      BY <2>1, Placed DEF Ready
    <2> QED BY <2>1, <2>2
  <1>3. ASSUME c[1] \in Settable, c[1] \in DOMAIN entries[k].properties
        PROVE  /\ c[1] \in Settable \cap DOMAIN entries[k].properties
               /\ c[1] \in Arguments(k) /\ Ready(PropertyOf(k, c[1]))
    BY <1>3, ConfigFacts, Configuring
  <1>4. CASE c = <<"refinance_impl_key", "set_refinance_impl">>
    <2>1. c[1] = "refinance_impl_key" /\ tx[1] = k /\ tx[2] = "set_refinance_impl"
      BY <1>1, <1>4
    <2>2. CallsOf(tx) = SetFacet(k, "refinance_impl_key", "set_refinance_addr", tx)
      BY <2>1 DEF CallsOf
    <2>3. \/ CallsOf(tx) = <<>> /\ Linked(chain, contract, k, c[1])
          \/ CallsOf(tx) = <<Call(k, "set_refinance_addr", PropertyOf(k, c[1]), tx)>>
      BY <2>1, <2>2, <1>2 DEF SetFacet, Linked, At, PropertyOf
    <2>4. c[1] \in Settable /\ c[1] \in DOMAIN entries[k].properties
      BY <1>1, <2>1 DEF Settable
    <2> QED BY <2>3, <2>4, <1>1, <1>2, <1>3, <1>4 DEF SetsLink
  <1>5. CASE c = <<"liquidation_impl_key", "set_liquidation_impl">>
    <2>1. c[1] = "liquidation_impl_key" /\ tx[1] = k /\ tx[2] = "set_liquidation_impl"
      BY <1>1, <1>5
    <2>2. CallsOf(tx) = SetFacet(k, "liquidation_impl_key", "set_liquidation_addr", tx)
      BY <2>1 DEF CallsOf
    <2>3. \/ CallsOf(tx) = <<>> /\ Linked(chain, contract, k, c[1])
          \/ CallsOf(tx) = <<Call(k, "set_liquidation_addr", PropertyOf(k, c[1]), tx)>>
      BY <2>1, <2>2, <1>2 DEF SetFacet, Linked, At, PropertyOf
    <2>4. c[1] \in Settable /\ c[1] \in DOMAIN entries[k].properties
      BY <1>1, <2>1 DEF Settable
    <2> QED BY <2>3, <2>4, <1>1, <1>2, <1>3, <1>5 DEF SetsLink
  <1>6. CASE c = <<"vault_registrar_connector_key", "set_vault_registrar_connector">>
    <2>1. /\ c[1] = "vault_registrar_connector_key" /\ tx[1] = k
          /\ tx[2] = "set_vault_registrar_connector"
      BY <1>1, <1>6
    <2>2. CallsOf(tx) = SetVaultRegistrarConnector(k)
      BY <2>1 DEF CallsOf
    <2>3. c[1] \in Settable /\ c[1] \in DOMAIN entries[k].properties
      BY <1>1, <2>1 DEF Settable
    <2>4. HasConnector(k) /\ Connector(k) = PropertyOf(k, c[1])
      BY <2>1, <2>3, <1>3 DEF HasConnector, Connector, PropertyOf
    <2>5. \/ CallsOf(tx) = <<>> /\ Linked(chain, contract, k, c[1])
          \/ CallsOf(tx) = <<Call(k, "change_vault_registrar", Connector(k), RegistrarTx(k)),
                             ChangeAuthorizedContract(k)>>
      BY <2>1, <2>2, <2>4, <1>2 DEF SetVaultRegistrarConnector, Linked, At
    <2> QED BY <2>3, <2>4, <2>5, <1>1, <1>2, <1>3, <1>6 DEF SetsLink
  <1>7. CASE c = <<"key", "set_proxy_auth">>
    <2>1. c[1] = "key" /\ tx[1] = k /\ tx[2] = "set_proxy_auth"
      BY <1>1, <1>7
    <2>2. CallsOf(tx) = SetProxyAuth(k, tx)
      BY <2>1 DEF CallsOf
    <2>3. /\ "p2p_contract_key" \in DOMAIN entries[k].properties
          /\ Ready(PropertyOf(k, "p2p_contract_key"))
      BY <2>1, ConfigFacts, Configuring
    <2> QED BY <2>2, <2>3, <1>1, <1>2, <1>7 DEF AuthorisesProxy
  <1> QED BY <1>4, <1>5, <1>6, <1>7, ConfigFacts

\* The shapes of the calls after a step that changes no address.
LEMMA SameShapes ==
  ASSUME catalog' = catalog, contract' = contract, NEW k
  PROVE  /\ Authorising(k)' <=> /\ Ready(k) /\ HasConnector(k) /\ Ready(Connector(k))
                                /\ pending' = <<ChangeAuthorizedContract(k)>>
         /\ SettingConnector(k)' <=>
               /\ Ready(k) /\ HasConnector(k) /\ Ready(Connector(k))
               /\ pending' = <<Call(k, "change_vault_registrar", Connector(k), RegistrarTx(k)),
                               ChangeAuthorizedContract(k)>>
         /\ \A name, func, tx : SettingFacet(k, name, func, tx)' <=>
               /\ Ready(k) /\ name \in Arguments(k)
               /\ pending' = <<Call(k, func, PropertyOf(k, name), <<k, tx>>)>>
         /\ AuthorisingProxy(k)' <=>
               /\ Ready(k) /\ "p2p_contract_key" \in DOMAIN entries[k].properties
               /\ Ready(PropertyOf(k, "p2p_contract_key"))
               /\ pending' = SetProxyAuth(k, <<k, "set_proxy_auth">>)
  <1>1. entries' = entries /\ Keys' = Keys /\ Arguments(k)' = Arguments(k)
    BY SameCatalog
  <1>2. /\ HasConnector(k)' <=> HasConnector(k)
        /\ Connector(k)' = Connector(k) /\ RegistrarTx(k)' = RegistrarTx(k)
        /\ ChangeAuthorizedContract(k)' = ChangeAuthorizedContract(k)
    BY SameCalls
  <1>3. /\ Authorising(k)' <=> /\ Ready(k) /\ HasConnector(k) /\ Ready(Connector(k))
                               /\ pending' = <<ChangeAuthorizedContract(k)>>
        /\ SettingConnector(k)' <=>
              /\ Ready(k) /\ HasConnector(k) /\ Ready(Connector(k))
              /\ pending' = <<Call(k, "change_vault_registrar", Connector(k), RegistrarTx(k)),
                              ChangeAuthorizedContract(k)>>
    BY <1>1, <1>2 DEF Authorising, SettingConnector, Ready
  <1>4. ASSUME NEW name, NEW func, NEW tx
        PROVE  SettingFacet(k, name, func, tx)' <=>
                  /\ Ready(k) /\ name \in Arguments(k)
                  /\ pending' = <<Call(k, func, PropertyOf(k, name), <<k, tx>>)>>
    BY <1>1 DEF SettingFacet, Ready, PropertyOf
  <1>5. AuthorisingProxy(k)' <=>
           /\ Ready(k) /\ "p2p_contract_key" \in DOMAIN entries[k].properties
           /\ Ready(PropertyOf(k, "p2p_contract_key"))
           /\ pending' = SetProxyAuth(k, <<k, "set_proxy_auth">>)
    BY <1>1 DEF AuthorisingProxy, Ready, PropertyOf, SetProxyAuth
  <1> QED BY <1>3, <1>4, <1>5

LEMMA ConfigureRecords ==
  ASSUME catalog \in Catalogs, RecordsOK, NEW tx \in txs, Configure(tx)
  PROVE  RecordsOK'
  <1> USE SameCatalog
  <1>1. /\ phase = "configuring" /\ pending = <<>> /\ pending' = CallsOf(tx)
        /\ txs' = txs \ {tx}
        /\ UNCHANGED <<catalog, source, file, chain, explorer, phase, contract,
                       contracts_to_deploy, todo, job, unsettled, interrupted>>
    BY DEF Configure, world, context, verification, history
  <1>2. /\ InDeployment /\ Ahead = {} /\ ChainOK(chain) /\ ContextOK(chain, contract)
        /\ \A k \in Keys : Settled(chain, contract, k, OpenLinks, OpenGrants)
    BY <1>1, Configuring
  <1>3. /\ OpenLinks = unsettled \cup txs /\ OpenGrants = unsettled
        /\ OpenLinks' = unsettled \cup (txs \ {tx}) \cup PendingLinks'
        /\ unsettled \subseteq OpenGrants'
    BY <1>1, PendingShape DEF OpenLinks, OpenGrants
  <1>4. PICK k \in Keys : \E c \in ConfigDeps(k) :
           tx = <<k, c[2]>> /\ Ready(k) /\ (SetsLink(k, c, tx) \/ AuthorisesProxy(k, c, tx))
    BY <1>1, CallsFacts
  <1>5. PICK c \in ConfigDeps(k) :
           tx = <<k, c[2]>> /\ Ready(k) /\ (SetsLink(k, c, tx) \/ AuthorisesProxy(k, c, tx))
    BY <1>4
  \* The transaction is still open, unless there was nothing to set.
  <1>6. \/ tx \in OpenLinks'
        \/ c[1] \in Settable \cap DOMAIN entries[k].properties /\ Linked(chain, contract, k, c[1])
    <2>1. ASSUME NEW call, pending'[1] = call, call.func # "change_authorized_contract",
                 call.tx = tx, Len(pending') \in Nat, Len(pending') >= 1
          PROVE  tx \in OpenLinks'
      <3>1. 1 \in 1..Len(pending')
        BY <2>1
      <3> QED BY <3>1, <2>1, <1>3 DEF PendingLinks
    <2>2. CASE SetsLink(k, c, tx) /\ CallsOf(tx) # <<>>
      <3>1. \E call : /\ pending'[1] = call /\ call.func # "change_authorized_contract"
                      /\ call.tx = tx /\ Len(pending') \in Nat /\ Len(pending') >= 1
        BY <2>2, <1>1, <1>5 DEF SetsLink, Call, RegistrarTx
      <3> QED BY <3>1, <2>1
    <2>3. CASE AuthorisesProxy(k, c, tx)
      <3>1. \E call : /\ pending'[1] = call /\ call.func # "change_authorized_contract"
                      /\ call.tx = tx /\ Len(pending') \in Nat /\ Len(pending') >= 1
        BY <2>3, <1>1 DEF AuthorisesProxy, SetProxyAuth, Call
      <3> QED BY <3>1, <2>1
    <2>4. CASE SetsLink(k, c, tx) /\ CallsOf(tx) = <<>>
      BY <2>4 DEF SetsLink
    <2> QED BY <2>2, <2>3, <2>4, <1>5
  <1>7. OpenLinks \subseteq OpenLinks' \cup {tx}
    BY <1>3
  <1>8. ASSUME NEW x \in Keys
        PROVE  Settled(chain, contract, x, OpenLinks', OpenGrants')
    <2>1. Settled(chain, contract, x, OpenLinks, OpenGrants)
      BY <1>2
    <2>2. ASSUME NEW d \in ConfigDeps(x), <<x, d[2]>> = tx
          PROVE  x = k /\ d[1] = c[1]
      BY <2>2, <1>5, ConfigFacts
    <2>3. "key" \notin Settable
      BY DEF Settable
    <2>4. ASSUME NEW d \in ConfigDeps(x), <<x, d[2]>> \notin OpenLinks'
          PROVE  \/ <<x, d[2]>> \notin OpenLinks
                 \/ x = k /\ d[1] = c[1] /\ d[1] # "key" /\ Linked(chain, contract, x, d[1])
      BY <2>2, <2>3, <2>4, <1>6, <1>7
    <2>5. OpenGrants \subseteq OpenGrants'
      BY <1>3
    <2> QED BY <2>1, <2>4, <2>5 DEF Settled
  <1>9. PendingOK'
    <2>1. phase' = "configuring" /\ k \in Keys'
      BY <1>1
    <2>3. CASE CallsOf(tx) = <<>>
      BY <2>3, <1>1 DEF PendingOK
    <2>4. CASE SetsLink(k, c, tx) /\ c = <<"refinance_impl_key", "set_refinance_impl">>
               /\ CallsOf(tx) = <<Call(k, "set_refinance_addr", PropertyOf(k, c[1]), tx)>>
      <3>1. SettingFacet(k, "refinance_impl_key", "set_refinance_addr", "set_refinance_impl")'
        BY <2>4, <1>1, <1>5, SameShapes DEF SetsLink
      <3> QED BY <3>1, <2>1 DEF PendingOK, InDeployment
    <2>5. CASE SetsLink(k, c, tx) /\ c = <<"liquidation_impl_key", "set_liquidation_impl">>
               /\ CallsOf(tx) = <<Call(k, "set_liquidation_addr", PropertyOf(k, c[1]), tx)>>
      <3>1. SettingFacet(k, "liquidation_impl_key", "set_liquidation_addr",
                         "set_liquidation_impl")'
        BY <2>5, <1>1, <1>5, SameShapes DEF SetsLink
      <3> QED BY <3>1, <2>1 DEF PendingOK, InDeployment
    <2>6. CASE SetsLink(k, c, tx) /\ HasConnector(k) /\ Connector(k) = PropertyOf(k, c[1])
               /\ CallsOf(tx) = <<Call(k, "change_vault_registrar", Connector(k), RegistrarTx(k)),
                                  ChangeAuthorizedContract(k)>>
      <3>1. SettingConnector(k)'
        BY <2>6, <1>1, <1>5, SameShapes DEF SetsLink
      <3> QED BY <3>1, <2>1 DEF PendingOK, InDeployment
    <2>7. CASE AuthorisesProxy(k, c, tx)
      <3>1. AuthorisingProxy(k)'
        BY <2>7, <1>1, <1>5, SameShapes DEF AuthorisesProxy
      <3> QED BY <3>1, <2>1 DEF PendingOK, InDeployment
    <2> QED BY <2>3, <2>4, <2>5, <2>6, <2>7, <1>5 DEF SetsLink
  <1>10. /\ Kept(chain, chain') /\ LinksKept(chain, chain') /\ ChainOK(chain')
         /\ \A x \in Keys : Settled(chain', contract, x, OpenLinks', OpenGrants')
    BY <1>1, <1>2, <1>8, KeptItself
  <1> QED BY <1>1, <1>2, <1>9, <1>10, DeploymentStepRecords

\* What a call does on chain.
LEMMA Granting ==
  ASSUME catalog \in Catalogs, ChainOK(chain), ContextOK(chain, contract),
         NEW k \in Keys, NEW t \in Keys, contract[k] # None, contract[t] # None,
         Grant(contract[t], contract[k])
  PROVE  /\ ChainOK(chain') /\ Kept(chain, chain') /\ LinksKept(chain, chain')
         /\ \A x \in Keys : Len(chain'[x]) = Len(chain[x])
         /\ Granted(chain', contract, k, t)
  <1> DEFINE m == contract[t][2]
             old == chain[t][m]
             r == [old EXCEPT !.authorized = @ \cup {contract[k]}]
  <1>1. contract[t] = <<t, m>> /\ m \in 1..Len(chain[t]) /\ contract[t][1] = t
    BY Placed
  <1>2. old \in Contract(t) /\ contract[k] \in Addresses
    <2>1. old \in Contract(t)
      BY <1>1, LengthsNatural
    <2>2. Exists(chain, k, contract[k])
      BY DEF ContextOK
    <2> QED BY <2>1, <2>2, ExistsAddress
  <1>3. /\ r \in Contract(t) /\ r.links = old.links
        /\ r.authorized = old.authorized \cup {contract[k]} /\ r.abi = old.abi
    <2> HIDE DEF old
    <2> QED BY <1>2 DEF Contract
  <1>4. chain' = WithChange(chain, t, m, r)
    BY <1>1 DEF Grant, WithChange
  <1>5. \A n \in Arguments(t) : Exists(chain, PropertyOf(t, n), old.links[n])
    BY <1>1 DEF ChainOK
  <1> HIDE DEF m, old, r
  <1>6. \A n \in Arguments(t) : Exists(chain, PropertyOf(t, n), r.links[n])
    BY <1>3, <1>5
  <1>7. old = chain[t][m]
    BY DEF old
  <1>8. /\ ChainOK(chain') /\ Kept(chain, chain')
        /\ \A x \in Keys : Len(chain'[x]) = Len(chain[x])
        /\ chain'[t][m] = r
        /\ \A x \in Keys : \A i \in 1..Len(chain[x]) :
              <<x, i>> # <<t, m>> => chain'[x][i] = chain[x][i]
    BY <1>1, <1>3, <1>4, <1>6, <1>7, Changed
  <1>9. LinksKept(chain, chain')
    BY <1>3, <1>7, <1>8 DEF LinksKept
  <1>10. Granted(chain', contract, k, t)
    BY <1>1, <1>3, <1>8 DEF Granted, m
  <1> QED BY <1>8, <1>9, <1>10

LEMMA Linking ==
  ASSUME catalog \in Catalogs, ChainOK(chain), ContextOK(chain, contract),
         NEW k \in Keys, contract[k] # None, NEW name \in Arguments(k), name \in Settable,
         Link(contract[k], name, contract[PropertyOf(k, name)])
  PROVE  /\ ChainOK(chain') /\ Kept(chain, chain')
         /\ \A x \in Keys : Len(chain'[x]) = Len(chain[x])
         /\ Linked(chain', contract, k, name)
         /\ \A x \in Keys : \A n \in Arguments(x) :
               contract[x] # None /\ (x # k \/ n # name) =>
                  (Linked(chain', contract, x, n) <=> Linked(chain, contract, x, n))
  <1> DEFINE m == contract[k][2]
             target == contract[PropertyOf(k, name)]
             old == chain[k][m]
             r == [old EXCEPT !.links = [@ EXCEPT ![name] = target]]
  <1>1. contract[k] = <<k, m>> /\ m \in 1..Len(chain[k]) /\ contract[k][1] = k
    BY Placed
  <1>2. /\ old \in Contract(k) /\ target \in Addresses
        /\ Exists(chain, PropertyOf(k, name), target)
    <2>1. old \in Contract(k)
      BY <1>1, LengthsNatural
    <2>2. PropertyOf(k, name) \in Keys
      BY KeyFacts DEF Arguments
    <2>3. Exists(chain, PropertyOf(k, name), target)
      BY <2>2 DEF ContextOK
    <2> QED BY <2>1, <2>2, <2>3, ExistsAddress
  <1>3. /\ r \in Contract(k) /\ r.links[name] = target /\ r.authorized = old.authorized
        /\ r.abi = old.abi
        /\ \A n \in Arguments(k) : n # name => r.links[n] = old.links[n]
    <2> HIDE DEF old, target
    <2> QED BY <1>2 DEF Contract
  <1>4. chain' = WithChange(chain, k, m, r)
    BY <1>1 DEF Link, WithChange
  <1>5. \A n \in Arguments(k) : Exists(chain, PropertyOf(k, n), old.links[n])
    BY <1>1 DEF ChainOK
  <1> HIDE DEF m, old, r, target
  <1>6. \A n \in Arguments(k) : Exists(chain, PropertyOf(k, n), r.links[n])
    BY <1>2, <1>3, <1>5
  <1>7. old = chain[k][m]
    BY DEF old
  <1>8. /\ ChainOK(chain') /\ Kept(chain, chain')
        /\ \A x \in Keys : Len(chain'[x]) = Len(chain[x])
        /\ chain'[k][m] = r
        /\ \A x \in Keys : \A i \in 1..Len(chain[x]) :
              <<x, i>> # <<k, m>> => chain'[x][i] = chain[x][i]
    BY <1>1, <1>3, <1>4, <1>6, <1>7, Changed
  <1>9. Linked(chain', contract, k, name)
    BY <1>3, <1>8 DEF Linked, m, target
  <1>10. ASSUME NEW x \in Keys, NEW n \in Arguments(x), contract[x] # None, x # k \/ n # name
         PROVE  Linked(chain', contract, x, n) <=> Linked(chain, contract, x, n)
    <2>1. contract[x][2] \in 1..Len(chain[x])
      BY <1>10, Placed
    <2>2. CASE x = k
      <3>1. chain'[x][contract[x][2]] = r /\ chain[x][contract[x][2]] = old
        BY <2>2, <1>7, <1>8 DEF m
      <3> QED BY <3>1, <2>2, <1>3, <1>10 DEF Linked
    <2>3. CASE x # k
      BY <2>1, <2>3, <1>8 DEF Linked
    <2> QED BY <2>2, <2>3
  <1> QED BY <1>8, <1>9, <1>10

\* What is settled after a call: what was, and what the call sets.
LEMMA SettledAfter ==
  ASSUME catalog \in Catalogs, NEW ch, NEW ch2, Kept(ch, ch2), NEW ctx, ContextOK(ch, ctx),
         NEW L, NEW G, NEW L2, NEW G2, NEW x \in Keys, Settled(ch, ctx, x, L, G),
         ctx[x] # None => \A d \in ConfigDeps(x) :
            /\ d[1] \in Settable \cap DOMAIN entries[x].properties /\ <<x, d[2]>> \notin L2 =>
                  \/ Linked(ch2, ctx, x, d[1])
                  \/ <<x, d[2]>> \notin L
                        /\ (Linked(ch2, ctx, x, d[1]) <=> Linked(ch, ctx, x, d[1]))
            /\ d[1] = "vault_registrar_connector_key" /\ d[1] \in DOMAIN entries[x].properties
                  /\ <<x, d[2]>> \notin G2 =>
                  \/ Granted(ch2, ctx, x, PropertyOf(x, d[1]))
                  \/ <<x, d[2]>> \notin G
                        /\ (Linked(ch2, ctx, x, d[1]) <=> Linked(ch, ctx, x, d[1]))
            /\ d[1] = "key" /\ <<x, d[2]>> \notin L2 =>
                  \/ Granted(ch2, ctx, x, PropertyOf(x, "p2p_contract_key"))
                  \/ <<x, d[2]>> \notin L
  PROVE  Settled(ch2, ctx, x, L2, G2)
  <1>1. \A d \in ConfigDeps(x) :
           /\ d[1] \in Settable \cap DOMAIN entries[x].properties => PropertyOf(x, d[1]) \in Keys
           /\ d[1] = "key" => PropertyOf(x, "p2p_contract_key") \in Keys
    BY ConfigFacts
  <1>2. "vault_registrar_connector_key" \in Settable
    BY DEF Settable
  <1>3. \A t \in Keys : Granted(ch, ctx, x, t) => Granted(ch2, ctx, x, t)
    BY GrantedKept
  <1> QED BY <1>1, <1>2, <1>3 DEF Settled

\* The transactions of the calls under way, before and after one of them.
LEMMA OneCall ==
  ASSUME NEW call, pending = <<call>>, pending' = Tail(pending)
  PROVE  /\ Head(pending) = call /\ pending' = <<>>
         /\ PendingLinks = IF call.func = "change_authorized_contract" THEN {} ELSE {call.tx}
         /\ PendingGrants = IF call.func = "change_authorized_contract" THEN {call.tx} ELSE {}
         /\ PendingLinks' = {} /\ PendingGrants' = {}
  <1>1. Head(pending) = call /\ pending' = <<>> /\ Len(pending) = 1 /\ pending[1] = call
        /\ Len(pending') = 0
    OBVIOUS
  <1>2. \A i : i \in 1..Len(pending) <=> i = 1
    BY <1>1
  <1>3. \A i : i \notin 1..Len(pending')
    BY <1>1
  <1>4. /\ PendingLinks = IF call.func = "change_authorized_contract" THEN {} ELSE {call.tx}
        /\ PendingGrants = IF call.func = "change_authorized_contract" THEN {call.tx} ELSE {}
    BY <1>1, <1>2 DEF PendingLinks, PendingGrants
  <1>5. PendingLinks' = {} /\ PendingGrants' = {}
    BY <1>3 DEF PendingLinks, PendingGrants
  <1> QED BY <1>1, <1>4, <1>5

LEMMA TwoCalls ==
  ASSUME NEW call, NEW next, pending = <<call, next>>, pending' = Tail(pending),
         call.func # "change_authorized_contract", next.func = "change_authorized_contract"
  PROVE  /\ Head(pending) = call /\ pending' = <<next>>
         /\ PendingLinks = {call.tx} /\ PendingGrants = {next.tx}
         /\ PendingLinks' = {} /\ PendingGrants' = {next.tx}
  <1>1. /\ Head(pending) = call /\ pending' = <<next>> /\ Len(pending) = 2
        /\ pending[1] = call /\ pending[2] = next /\ Len(pending') = 1 /\ pending'[1] = next
    OBVIOUS
  <1>2. \A i : /\ i \in 1..Len(pending) <=> i \in {1, 2}
               /\ i \in 1..Len(pending') <=> i = 1
    BY <1>1
  <1>3. PendingLinks = {call.tx} /\ PendingGrants = {next.tx}
    BY <1>1, <1>2 DEF PendingLinks, PendingGrants
  <1>4. PendingLinks' = {} /\ PendingGrants' = {next.tx}
    BY <1>1, <1>2 DEF PendingLinks, PendingGrants
  <1> QED BY <1>1, <1>3, <1>4

LEMMA LinkedKept ==
  ASSUME NEW ch, NEW ch2, LinksKept(ch, ch2), NEW ctx, ContextOK(ch, ctx), NEW x \in Keys,
         ctx[x] # None, NEW n \in Arguments(x)
  PROVE  Linked(ch2, ctx, x, n) <=> Linked(ch, ctx, x, n)
  BY Placed DEF Linked, LinksKept

LEMMA ExecuteFacts ==
  ASSUME catalog \in Catalogs, RecordsOK, Execute
  PROVE  /\ pending # <<>> /\ InDeployment /\ Effect(Head(pending)) /\ pending' = Tail(pending)
         /\ UNCHANGED <<catalog, source, file, explorer, phase, contract, contracts_to_deploy,
                        txs, todo, job, unsettled, interrupted>>
         /\ ChainOK(chain) /\ ContextOK(chain, contract)
         /\ \A x \in Keys \ Ahead : Settled(chain, contract, x, OpenLinks, OpenGrants)
         /\ OpenLinks = unsettled \cup txs \cup PendingLinks
         /\ OpenLinks' = unsettled \cup txs \cup PendingLinks'
         /\ OpenGrants = unsettled \cup PendingGrants
         /\ OpenGrants' = unsettled \cup PendingGrants'
  <1>1. /\ pending # <<>> /\ Effect(Head(pending)) /\ pending' = Tail(pending)
        /\ UNCHANGED <<catalog, source, file, explorer, phase, contract, contracts_to_deploy,
                       txs, todo, job, unsettled, interrupted>>
    BY DEF Execute, context, verification, history
  <1>2. InDeployment
    BY <1>1 DEF RecordsOK, PendingOK
  <1>3. /\ ChainOK(chain) /\ ContextOK(chain, contract)
        /\ \A x \in Keys \ Ahead : Settled(chain, contract, x, OpenLinks, OpenGrants)
    BY <1>2 DEF RecordsOK, WorldOK, ScriptOK, ContextAgrees
  <1>4. /\ OpenLinks = unsettled \cup txs \cup PendingLinks
        /\ OpenLinks' = unsettled \cup txs \cup PendingLinks'
        /\ OpenGrants = unsettled \cup PendingGrants
        /\ OpenGrants' = unsettled \cup PendingGrants'
    BY <1>1 DEF OpenLinks, OpenGrants
  <1> QED BY <1>1, <1>2, <1>3, <1>4

\* The call that authorises a contract with its connector.
LEMMA AuthorisedRecords ==
  ASSUME catalog \in Catalogs, RecordsOK, Execute, NEW k \in Keys, Authorising(k)
  PROVE  RecordsOK' /\ Kept(chain, chain')
  <1> DEFINE t == Connector(k)
             call == ChangeAuthorizedContract(k)
  <1>1. /\ pending # <<>> /\ InDeployment /\ Effect(Head(pending)) /\ pending' = Tail(pending)
        /\ UNCHANGED <<catalog, source, file, explorer, phase, contract, contracts_to_deploy,
                       txs, todo, job, unsettled, interrupted>>
        /\ ChainOK(chain) /\ ContextOK(chain, contract)
        /\ \A x \in Keys \ Ahead : Settled(chain, contract, x, OpenLinks, OpenGrants)
        /\ OpenLinks = unsettled \cup txs \cup PendingLinks
        /\ OpenLinks' = unsettled \cup txs \cup PendingLinks'
        /\ OpenGrants = unsettled \cup PendingGrants
        /\ OpenGrants' = unsettled \cup PendingGrants'
    BY ExecuteFacts
  <1>2. /\ HasConnector(k) /\ contract[k] # None /\ t \in Keys /\ contract[t] # None
        /\ pending = <<call>>
    BY DEF Authorising, Ready
  <1>3. /\ call.key = t /\ call.arg = k /\ call.func = "change_authorized_contract"
        /\ call.tx = RegistrarTx(k)
    BY DEF ChangeAuthorizedContract, Call
  <1>4. t = PropertyOf(k, "vault_registrar_connector_key")
    BY <1>2, ConnectorFacts
  <1> HIDE DEF t, call
  <1>5. /\ Head(pending) = call /\ pending' = <<>> /\ PendingLinks = {} /\ PendingLinks' = {}
        /\ PendingGrants = {RegistrarTx(k)} /\ PendingGrants' = {}
    BY <1>1, <1>2, <1>3, OneCall
  <1>6. Grant(contract[t], contract[k])
    BY <1>1, <1>3, <1>5 DEF Effect
  <1>7. /\ ChainOK(chain') /\ Kept(chain, chain') /\ LinksKept(chain, chain')
        /\ \A x \in Keys : Len(chain'[x]) = Len(chain[x])
        /\ Granted(chain', contract, k, t)
    BY <1>1, <1>2, <1>6, Granting
  <1>8. ASSUME NEW x \in Keys \ Ahead
        PROVE  Settled(chain', contract, x, OpenLinks', OpenGrants')
    <2>1. ASSUME contract[x] # None, NEW d \in ConfigDeps(x)
          PROVE  /\ d[1] \in Settable \cap DOMAIN entries[x].properties =>
                       (Linked(chain', contract, x, d[1]) <=> Linked(chain, contract, x, d[1]))
                 /\ d[1] = "vault_registrar_connector_key" /\ <<x, d[2]>> = RegistrarTx(k) =>
                       Granted(chain', contract, x, PropertyOf(x, d[1]))
      <3>1. d[1] \in Settable \cap DOMAIN entries[x].properties => d[1] \in Arguments(x)
        BY ConfigFacts
      <3>2. <<x, d[2]>> = RegistrarTx(k) => x = k
        BY DEF RegistrarTx
      <3> QED BY <2>1, <3>1, <3>2, <1>1, <1>4, <1>7, LinkedKept
    <2>2. "vault_registrar_connector_key" \in Settable
      BY DEF Settable
    <2> QED BY <2>1, <2>2, <1>1, <1>5, <1>7, SettledAfter
  <1>9. PendingOK'
    BY <1>5 DEF PendingOK
  <1> QED BY <1>1, <1>7, <1>8, <1>9, DeploymentStepRecords

\* The call that makes a link: what it sets is right afterwards.
LEMMA LinkedRecords ==
  ASSUME catalog \in Catalogs, RecordsOK, Execute, phase = "configuring",
         NEW k \in Keys, contract[k] # None, NEW d \in SetFacetsAndRegistrar,
         d[1] \in Arguments(k) \cap Settable,
         Link(contract[k], d[1], contract[PropertyOf(k, d[1])]),
         PendingLinks = {<<k, d[2]>>}, PendingLinks' = {}, PendingGrants' = PendingGrants,
         d[1] = "vault_registrar_connector_key" => <<k, d[2]>> \in PendingGrants,
         PendingOK'
  PROVE  RecordsOK' /\ Kept(chain, chain')
  <1>1. /\ InDeployment /\ Ahead = {}
        /\ UNCHANGED <<catalog, source, file, explorer, phase, contract, contracts_to_deploy,
                       txs, todo, job, unsettled, interrupted>>
        /\ ChainOK(chain) /\ ContextOK(chain, contract)
        /\ \A x \in Keys \ Ahead : Settled(chain, contract, x, OpenLinks, OpenGrants)
        /\ OpenLinks = unsettled \cup txs \cup PendingLinks
        /\ OpenLinks' = unsettled \cup txs \cup PendingLinks'
        /\ OpenGrants = unsettled \cup PendingGrants
        /\ OpenGrants' = unsettled \cup PendingGrants'
    BY ExecuteFacts, Configuring
  <1>2. /\ ChainOK(chain') /\ Kept(chain, chain')
        /\ \A x \in Keys : Len(chain'[x]) = Len(chain[x])
        /\ Linked(chain', contract, k, d[1])
        /\ \A x \in Keys : \A n \in Arguments(x) :
              contract[x] # None /\ (x # k \/ n # d[1]) =>
                 (Linked(chain', contract, x, n) <=> Linked(chain, contract, x, n))
    BY <1>1, Linking
  <1>3. ASSUME NEW x \in Keys
        PROVE  Settled(chain', contract, x, OpenLinks', OpenGrants')
    <2>1. ASSUME contract[x] # None, NEW e \in ConfigDeps(x)
          PROVE  /\ <<x, e[2]>> = <<k, d[2]>> => x = k /\ e[1] = d[1]
                 /\ x = k /\ e[1] = d[1] => <<x, e[2]>> = <<k, d[2]>>
                 /\ e[1] = "key" => e[1] # d[1]
                 /\ e[1] \in Settable \cap DOMAIN entries[x].properties => e[1] \in Arguments(x)
      <3>1. "key" \notin Settable
        BY DEF Settable
      <3>2. \/ d = <<"refinance_impl_key", "set_refinance_impl">>
            \/ d = <<"liquidation_impl_key", "set_liquidation_impl">>
            \/ d = <<"vault_registrar_connector_key", "set_vault_registrar_connector">>
        BY DEF SetFacetsAndRegistrar
      <3> QED BY <3>1, <3>2, ConfigFacts
    <2>2. "vault_registrar_connector_key" \in Settable
      BY DEF Settable
    <2>3. OpenGrants' = OpenGrants /\ \A tx : tx \in OpenLinks => tx \in OpenLinks' \/ tx = <<k, d[2]>>
      BY <1>1
    <2>4. d[1] = "vault_registrar_connector_key" => <<k, d[2]>> \in OpenGrants
      BY <1>1
    <2>5. Settled(chain, contract, x, OpenLinks, OpenGrants)
      BY <1>1
    <2>6. ASSUME contract[x] # None, NEW e \in ConfigDeps(x)
          PROVE  /\ e[1] \in Settable \cap DOMAIN entries[x].properties
                       /\ <<x, e[2]>> \notin OpenLinks' =>
                       \/ Linked(chain', contract, x, e[1])
                       \/ <<x, e[2]>> \notin OpenLinks
                            /\ (Linked(chain', contract, x, e[1]) <=> Linked(chain, contract, x, e[1]))
                 /\ e[1] = "vault_registrar_connector_key" /\ e[1] \in DOMAIN entries[x].properties
                       /\ <<x, e[2]>> \notin OpenGrants' =>
                       <<x, e[2]>> \notin OpenGrants
                          /\ (Linked(chain', contract, x, e[1]) <=> Linked(chain, contract, x, e[1]))
                 /\ e[1] = "key" /\ <<x, e[2]>> \notin OpenLinks' => <<x, e[2]>> \notin OpenLinks
      BY <2>1, <2>2, <2>3, <2>4, <2>6, <1>2
    <2> QED BY <2>5, <2>6, <1>1, <1>2, SettledAfter
  <1> QED BY <1>1, <1>2, <1>3, DeploymentStepRecords

\* The call that authorises a proxy.
LEMMA ProxyRecords ==
  ASSUME catalog \in Catalogs, RecordsOK, Execute, phase = "configuring", NEW k \in Keys,
         AuthorisingProxy(k)
  PROVE  RecordsOK' /\ Kept(chain, chain')
  <1> DEFINE t == PropertyOf(k, "p2p_contract_key")
             tx == <<k, "set_proxy_auth">>
             call == Call(t, "set_proxy_authorization", k, tx)
  <1>1. /\ Effect(Head(pending)) /\ pending' = Tail(pending) /\ InDeployment
        /\ UNCHANGED <<catalog, source, file, explorer, phase, contract, contracts_to_deploy,
                       txs, todo, job, unsettled, interrupted>>
        /\ ChainOK(chain) /\ ContextOK(chain, contract)
        /\ \A x \in Keys \ Ahead : Settled(chain, contract, x, OpenLinks, OpenGrants)
        /\ OpenLinks = unsettled \cup txs \cup PendingLinks
        /\ OpenLinks' = unsettled \cup txs \cup PendingLinks'
        /\ OpenGrants = unsettled \cup PendingGrants
        /\ OpenGrants' = unsettled \cup PendingGrants'
    BY ExecuteFacts
  <1>2. contract[k] # None /\ t \in Keys /\ contract[t] # None /\ pending = <<call>>
    BY DEF AuthorisingProxy, Ready, SetProxyAuth, PropertyOf
  <1>3. /\ call.key = t /\ call.arg = k /\ call.func = "set_proxy_authorization" /\ call.tx = tx
    BY DEF Call
  <1> HIDE DEF t, call, tx
  <1>4. /\ Head(pending) = call /\ pending' = <<>> /\ PendingLinks = {tx} /\ PendingLinks' = {}
        /\ PendingGrants = {} /\ PendingGrants' = {}
    <2>1. call.func # "change_authorized_contract"
      BY <1>3
    <2> QED BY <2>1, <1>1, <1>2, <1>3, OneCall
  <1>5. Grant(contract[t], contract[k])
    BY <1>1, <1>3, <1>4 DEF Effect
  <1>6. /\ ChainOK(chain') /\ Kept(chain, chain') /\ LinksKept(chain, chain')
        /\ \A x \in Keys : Len(chain'[x]) = Len(chain[x])
        /\ Granted(chain', contract, k, t)
    BY <1>1, <1>2, <1>5, Granting
  <1>7. ASSUME NEW x \in Keys \ Ahead
        PROVE  Settled(chain', contract, x, OpenLinks', OpenGrants')
    <2>1. ASSUME contract[x] # None, NEW d \in ConfigDeps(x)
          PROVE  /\ d[1] \in Settable \cap DOMAIN entries[x].properties =>
                       /\ Linked(chain', contract, x, d[1]) <=> Linked(chain, contract, x, d[1])
                       /\ <<x, d[2]>> # tx
                 /\ d[1] = "key" /\ <<x, d[2]>> = tx =>
                       Granted(chain', contract, x, PropertyOf(x, "p2p_contract_key"))
      <3>1. d[1] \in Settable \cap DOMAIN entries[x].properties =>
               d[1] \in Arguments(x) /\ d[1] # "key"
        BY ConfigFacts DEF Settable
      <3>2. <<x, d[2]>> = tx => x = k /\ d[1] = "key"
        BY ConfigFacts DEF tx
      <3> QED BY <2>1, <3>1, <3>2, <1>1, <1>6, LinkedKept DEF t
    <2>2. "vault_registrar_connector_key" \in Settable
      BY DEF Settable
    <2> QED BY <2>1, <2>2, <1>1, <1>4, <1>6, SettledAfter
  <1>8. PendingOK'
    BY <1>4 DEF PendingOK
  <1> QED BY <1>1, <1>6, <1>7, <1>8, DeploymentStepRecords

\* The call that sets a facet, and the one that sets the connector, which has
\* the contract authorised next.
LEMMA FacetRecords ==
  ASSUME catalog \in Catalogs, RecordsOK, Execute, phase = "configuring", NEW k \in Keys,
         \/ SettingFacet(k, "refinance_impl_key", "set_refinance_addr", "set_refinance_impl")
         \/ SettingFacet(k, "liquidation_impl_key", "set_liquidation_addr", "set_liquidation_impl")
  PROVE  RecordsOK' /\ Kept(chain, chain')
  <1>1. PICK name, func, tx :
           /\ SettingFacet(k, name, func, tx)
           /\ \/ /\ name = "refinance_impl_key" /\ func = "set_refinance_addr"
                 /\ tx = "set_refinance_impl"
              \/ /\ name = "liquidation_impl_key" /\ func = "set_liquidation_addr"
                 /\ tx = "set_liquidation_impl"
    OBVIOUS
  <1>2. /\ Effect(Head(pending)) /\ pending' = Tail(pending) /\ UNCHANGED <<phase, txs>>
        /\ ContextOK(chain, contract)
    BY ExecuteFacts
  <1> DEFINE call == Call(k, func, PropertyOf(k, name), <<k, tx>>)
  <1>3. contract[k] # None /\ name \in Arguments(k) /\ pending = <<call>>
    BY <1>1 DEF SettingFacet, Ready
  <1>4. /\ call.key = k /\ call.func = func /\ call.arg = PropertyOf(k, name)
        /\ call.tx = <<k, tx>> /\ func # "change_authorized_contract"
    BY <1>1 DEF Call
  <1> HIDE DEF call
  <1>5. /\ Head(pending) = call /\ pending' = <<>> /\ PendingLinks = {<<k, tx>>}
        /\ PendingLinks' = {} /\ PendingGrants = {} /\ PendingGrants' = {}
    BY <1>2, <1>3, <1>4, OneCall
  <1>6. Link(contract[k], name, contract[PropertyOf(k, name)])
    BY <1>1, <1>2, <1>4, <1>5 DEF Effect
  <1> DEFINE d == <<name, tx>>
  <1>7. d \in SetFacetsAndRegistrar /\ name \in Settable /\ d[1] = name /\ d[2] = tx
        /\ name # "vault_registrar_connector_key"
    BY <1>1 DEF Settable, SetFacetsAndRegistrar
  <1>8. PendingOK'
    BY <1>5 DEF PendingOK
  <1> QED BY <1>1, <1>2, <1>3, <1>5, <1>6, <1>7, <1>8, LinkedRecords

LEMMA ConnectorRecords ==
  ASSUME catalog \in Catalogs, RecordsOK, Execute, phase = "configuring", NEW k \in Keys,
         SettingConnector(k)
  PROVE  RecordsOK' /\ Kept(chain, chain')
  <1> DEFINE name == "vault_registrar_connector_key"
             d == <<name, "set_vault_registrar_connector">>
             call == Call(k, "change_vault_registrar", Connector(k), RegistrarTx(k))
             next == ChangeAuthorizedContract(k)
  <1>1. /\ Effect(Head(pending)) /\ pending' = Tail(pending)
        /\ UNCHANGED <<catalog, contract, phase, txs>> /\ InDeployment
    BY ExecuteFacts
  <1>2. /\ contract[k] # None /\ HasConnector(k) /\ Ready(Connector(k)) /\ Ready(k)
        /\ pending = <<call, next>>
    BY DEF SettingConnector, Ready
  <1>3. name \in Arguments(k) /\ Connector(k) = PropertyOf(k, name)
    BY <1>2, ConnectorFacts
  <1>4. /\ call.key = k /\ call.func = "change_vault_registrar" /\ call.arg = PropertyOf(k, name)
        /\ call.tx = RegistrarTx(k) /\ next.tx = RegistrarTx(k)
        /\ next.func = "change_authorized_contract"
        /\ RegistrarTx(k) = <<k, d[2]>>
    BY <1>3 DEF Call, ChangeAuthorizedContract, RegistrarTx
  <1> HIDE DEF call
  <1>5. /\ Head(pending) = call /\ pending' = <<next>>
        /\ PendingLinks = {RegistrarTx(k)} /\ PendingGrants = {RegistrarTx(k)}
        /\ PendingLinks' = {} /\ PendingGrants' = {RegistrarTx(k)}
    <2> HIDE DEF next
    <2>1. call.func # "change_authorized_contract"
      BY <1>4
    <2> QED BY <2>1, <1>1, <1>2, <1>4, TwoCalls
  <1>6. Link(contract[k], name, contract[PropertyOf(k, name)])
    BY <1>1, <1>4, <1>5 DEF Effect
  <1>7. d \in SetFacetsAndRegistrar /\ name \in Settable /\ d[1] = name
    BY DEF Settable, SetFacetsAndRegistrar
  <1>8. PendingOK'
    <2>1. Authorising(k)'
      BY <1>1, <1>2, <1>5, SameShapes
    <2>2. phase' = "configuring" /\ k \in Keys'
      BY <1>1, SameCatalog
    <2> QED BY <2>1, <2>2 DEF PendingOK, InDeployment
  <1> HIDE DEF d, next
  <1> QED BY <1>2, <1>3, <1>4, <1>5, <1>6, <1>7, <1>8, LinkedRecords

LEMMA ExecuteRecords ==
  ASSUME catalog \in Catalogs, RecordsOK, Execute
  PROVE  RecordsOK' /\ Kept(chain, chain')
  <1>1. InDeployment /\ pending # <<>>
    BY ExecuteFacts
  <1>2. PICK k \in Keys :
          \/ Authorising(k)
          \/ phase = "configuring" /\ SettingConnector(k)
          \/ phase = "configuring"
                /\ SettingFacet(k, "refinance_impl_key", "set_refinance_addr", "set_refinance_impl")
          \/ phase = "configuring"
                /\ SettingFacet(k, "liquidation_impl_key", "set_liquidation_addr",
                                "set_liquidation_impl")
          \/ phase = "configuring" /\ AuthorisingProxy(k)
    BY <1>1 DEF RecordsOK, PendingOK
  <1> QED BY <1>2, AuthorisedRecords, ConnectorRecords, FacetRecords, ProxyRecords

\* A call that fails leaves its transaction unsettled.
LEMMA ExecuteFailsRecords ==
  ASSUME catalog \in Catalogs, RecordsOK, ExecuteFails
  PROVE  RecordsOK'
  <1>1. /\ pending # <<>> /\ pending' = Tail(pending)
        /\ unsettled' = unsettled \cup {Head(pending).tx}
        /\ UNCHANGED <<catalog, source, file, chain, explorer, phase, contract,
                       contracts_to_deploy, txs, todo, job, interrupted>>
    BY DEF ExecuteFails, context, verification
  <1>2. InDeployment
    BY <1>1 DEF RecordsOK, PendingOK
  <1>3. PICK k \in Keys :
          \/ Authorising(k)
          \/ phase = "configuring" /\ SettingConnector(k)
          \/ phase = "configuring"
                /\ SettingFacet(k, "refinance_impl_key", "set_refinance_addr", "set_refinance_impl")
          \/ phase = "configuring"
                /\ SettingFacet(k, "liquidation_impl_key", "set_liquidation_addr",
                                "set_liquidation_impl")
          \/ phase = "configuring" /\ AuthorisingProxy(k)
    BY <1>1, <1>2 DEF RecordsOK, PendingOK
  <1> DEFINE Fewer == PendingLinks \cup PendingGrants \subseteq unsettled'
  <1>4. ASSUME NEW call, pending = <<call>>
        PROVE  PendingOK' /\ Fewer
    <2>1. /\ pending' = <<>> /\ Head(pending) = call
          /\ PendingLinks = IF call.func = "change_authorized_contract" THEN {} ELSE {call.tx}
          /\ PendingGrants = IF call.func = "change_authorized_contract" THEN {call.tx} ELSE {}
      BY <1>1, <1>4, OneCall
    <2> QED BY <2>1, <1>1 DEF PendingOK
  <1>5. ASSUME phase = "configuring", SettingConnector(k)
        PROVE  PendingOK' /\ Fewer
    <2> DEFINE call == Call(k, "change_vault_registrar", Connector(k), RegistrarTx(k))
               next == ChangeAuthorizedContract(k)
    <2>1. Ready(k) /\ HasConnector(k) /\ Ready(Connector(k)) /\ pending = <<call, next>>
      BY <1>5 DEF SettingConnector
    <2>2. /\ call.func # "change_authorized_contract"
          /\ next.func = "change_authorized_contract"
          /\ call.tx = RegistrarTx(k) /\ next.tx = RegistrarTx(k)
      BY DEF Call, ChangeAuthorizedContract
    <2>3. /\ Head(pending) = call /\ pending' = <<next>>
          /\ PendingLinks = {call.tx} /\ PendingGrants = {next.tx}
      <3> HIDE DEF call, next
      <3> QED BY <2>1, <2>2, <1>1, TwoCalls
    <2>4. Authorising(k)'
      BY <2>1, <2>3, <1>1, SameShapes
    <2>5. InDeployment' /\ k \in Keys'
      BY <1>1, <1>2, SameCatalog DEF InDeployment
    <2> HIDE DEF call, next
    <2>6. PendingOK'
      BY <2>4, <2>5 DEF PendingOK
    <2>7. Fewer
      BY <2>2, <2>3, <1>1
    <2> QED BY <2>6, <2>7
  <1>6. PendingOK' /\ Fewer
    <2>1. ASSUME ~ (phase = "configuring" /\ SettingConnector(k))
          PROVE  \E call : pending = <<call>>
      BY <1>3, <2>1 DEF Authorising, SettingFacet, AuthorisingProxy, SetProxyAuth
    <2>2. CASE phase = "configuring" /\ SettingConnector(k)
      BY <1>5, <2>2
    <2>3. CASE \E call : pending = <<call>>
      BY <1>4, <2>3
    <2> QED BY <2>1, <2>2, <2>3
  <1>7. OpenLinks \subseteq OpenLinks' /\ OpenGrants \subseteq OpenGrants'
    BY <1>1, <1>6 DEF OpenLinks, OpenGrants
  <1>8. /\ ChainOK(chain) /\ ContextOK(chain, contract)
        /\ \A x \in Keys \ Ahead : Settled(chain, contract, x, OpenLinks, OpenGrants)
    BY <1>2 DEF RecordsOK, WorldOK, ScriptOK, ContextAgrees
  <1>9. /\ Kept(chain, chain') /\ LinksKept(chain, chain') /\ ChainOK(chain')
        /\ \A x \in Keys \ Ahead : Settled(chain', contract, x, OpenLinks', OpenGrants')
    BY <1>1, <1>7, <1>8, KeptItself, SettledMore
  <1> QED BY <1>1, <1>2, <1>6, <1>9, DeploymentStepRecords
-----------------------------------------------------------------------------
(* From the first release on.                                              *)

\* What an earlier release deployed is recorded and linked.
LEMMA InitWorldFacts ==
  ASSUME Init
  PROVE  /\ catalog \in Catalogs
         /\ chain = [k \in Keys |->
               IF k \in catalog.deployed
               THEN <<[links |-> [n \in Arguments(k) |-> First(catalog, PropertyOf(k, n))],
                       authorized |-> FirstAuthorized(catalog, k),
                       abi |-> <<entries[k].contract, 0>>]>>
               ELSE <<>>]
         /\ file = [k \in Keys |-> file[k]]
         /\ Recorded = [k \in Keys |-> First(catalog, k)]
         /\ \A k \in Keys : file[k].abi_key = IF k \in catalog.deployed
                                              THEN <<entries[k].contract, 0>> ELSE None
         /\ \A k \in Keys : k \in catalog.deployed =>
               \A n \in DOMAIN file[k].properties_addresses :
                  file[k].properties_addresses[n] = First(catalog, PropertyOf(k, n))
         /\ source = [name \in Sources |-> 0]
         /\ explorer = <<>> /\ configs = <<>>
  <1>1. PICK c \in Catalogs : InitWorld(c)
    BY DEF Init
  <1>2. /\ catalog = c /\ entries = c.entries /\ Keys = DOMAIN c.entries
    BY <1>1 DEF InitWorld, entries, Keys
  <1>3. \A k : FirstLinks(c, k) = [n \in Arguments(k) |-> First(c, PropertyOf(k, n))]
    BY <1>2 DEF FirstLinks, Arguments, PropertyOf
  <1>4. chain = [k \in Keys |->
               IF k \in c.deployed
               THEN <<[links |-> [n \in Arguments(k) |-> First(c, PropertyOf(k, n))],
                       authorized |-> FirstAuthorized(c, k),
                       abi |-> <<entries[k].contract, 0>>]>>
               ELSE <<>>]
    BY <1>1, <1>2, <1>3 DEF InitWorld
  <1>5. /\ file = [k \in Keys |-> file[k]]
        /\ \A k \in Keys : file[k].address = First(c, k)
        /\ \A k \in Keys : file[k].abi_key = IF k \in c.deployed
                                             THEN <<entries[k].contract, 0>> ELSE None
        /\ \A k \in Keys : k \in c.deployed =>
               \A n \in DOMAIN file[k].properties_addresses :
                  file[k].properties_addresses[n] = First(c, PropertyOf(k, n))
    BY <1>1, <1>2 DEF InitWorld, PropertyOf
  <1>6. source = [name \in Sources |-> 0] /\ explorer = <<>> /\ configs = <<>>
    BY <1>1, <1>2 DEF InitWorld, Sources
  <1> QED BY <1>1, <1>2, <1>4, <1>5, <1>6 DEF Recorded

LEMMA InitChain ==
  ASSUME Init
  PROVE  /\ ChainOK(chain) /\ ContextOK(chain, Recorded)
         /\ \A k \in Keys : Len(chain[k]) = IF k \in catalog.deployed THEN 1 ELSE 0
         /\ \A k \in Keys : Built(chain, Recorded, k) /\ Newest(chain, Recorded, k)
         /\ \A k \in Keys : Settled(chain, Recorded, k, {}, {})
  <1> DEFINE Links1(k) == [n \in Arguments(k) |-> First(catalog, PropertyOf(k, n))]
             Only(k) == [links |-> Links1(k), authorized |-> FirstAuthorized(catalog, k),
                         abi |-> <<entries[k].contract, 0>>]
  <1>1. /\ catalog \in Catalogs
        /\ chain = [k \in Keys |-> IF k \in catalog.deployed THEN <<Only(k)>> ELSE <<>>]
        /\ \A k \in Keys : Recorded[k] = First(catalog, k)
        /\ Recorded = [k \in Keys |-> Recorded[k]]
    BY InitWorldFacts
  <1>2. catalog.deployed \subseteq Keys /\ None \notin Keys \X Nat
    BY <1>1, CatalogsConfigured DEF Keys, entries
  <1>3. \A k \in Keys : /\ First(catalog, k) \in Addresses
                        /\ First(catalog, k) # None <=> k \in catalog.deployed
                        /\ k \in catalog.deployed => First(catalog, k) = <<k, 1>>
    BY <1>2 DEF First, Addresses
  <1>4. ASSUME NEW k \in Keys
        PROVE  /\ Links1(k) \in [Arguments(k) -> Addresses]
               /\ FirstAuthorized(catalog, k) \subseteq Addresses
               /\ \A n \in Arguments(k) : PropertyOf(k, n) \in Keys
    <2>1. \A n \in Arguments(k) : PropertyOf(k, n) \in Keys
      BY <1>1, KeyFacts DEF Arguments
    <2>2. FirstAuthorized(catalog, k) \subseteq Addresses
      BY <1>2 DEF FirstAuthorized, Addresses
    <2> QED BY <2>1, <2>2, <1>3
  <1>5. ASSUME NEW k \in Keys
        PROVE  Only(k) \in Contract(k)
    <2>1. <<entries[k].contract, 0>> \in Releases(k)
      BY DEF Releases
    <2> HIDE DEF Links1
    <2> QED BY <2>1, <1>4 DEF Contract
  <1>6. ASSUME NEW k \in Keys
        PROVE  /\ Len(chain[k]) = IF k \in catalog.deployed THEN 1 ELSE 0
               /\ k \in catalog.deployed => chain[k][1] = Only(k)
               /\ chain[k] \in Seq(Contract(k))
    <2> HIDE DEF Only
    <2> QED BY <1>1, <1>5
  <1>7. ASSUME NEW k \in Keys
        PROVE  Exists(chain, k, First(catalog, k))
    <2>1. Len(chain[k]) = IF k \in catalog.deployed THEN 1 ELSE 0
      BY <1>6
    <2>2. CASE k \in catalog.deployed
      <3>1. First(catalog, k) = <<k, 1>> /\ 1 \in 1..Len(chain[k])
        BY <2>1, <2>2 DEF First
      <3> QED BY <3>1 DEF Exists
    <2>3. CASE k \notin catalog.deployed
      BY <2>3 DEF Exists, First
    <2> QED BY <2>2, <2>3
  <1>8. ASSUME NEW k \in Keys, k \in catalog.deployed
        PROVE  /\ \A n \in Arguments(k) : chain[k][1].links[n] = First(catalog, PropertyOf(k, n))
               /\ chain[k][1].authorized = FirstAuthorized(catalog, k)
    <2>1. chain[k][1] = Only(k)
      BY <1>6, <1>8
    <2>2. Only(k).links = Links1(k) /\ Only(k).authorized = FirstAuthorized(catalog, k)
      BY DEF Only
    <2> QED BY <2>1, <2>2
  <1>9. \A k \in Keys : \A i \in 1..Len(chain[k]) : i = 1 /\ k \in catalog.deployed
    <2>1. \A k \in Keys : Len(chain[k]) = IF k \in catalog.deployed THEN 1 ELSE 0
      BY <1>6
    <2> QED BY <2>1
  <1>10. ChainOK(chain)
    <2>1. \A k \in Keys : \A i \in 1..Len(chain[k]) : \A n \in Arguments(k) :
             Exists(chain, PropertyOf(k, n), chain[k][i].links[n])
      BY <1>4, <1>7, <1>8, <1>9
    <2>2. chain = [k \in Keys |-> chain[k]]
      BY <1>1
    <2> QED BY <1>6, <2>1, <2>2 DEF ChainOK
  <1>11. ContextOK(chain, Recorded)
    BY <1>1, <1>7 DEF ContextOK
  <1>12. \A k \in Keys : Built(chain, Recorded, k) /\ Newest(chain, Recorded, k)
    BY <1>1, <1>3, <1>4, <1>6, <1>8 DEF Built, Newest
  <1>13. ASSUME NEW k \in Keys, Recorded[k] # None, NEW c \in ConfigDeps(k)
         PROVE  /\ c[1] \in Settable \cap DOMAIN entries[k].properties =>
                      Linked(chain, Recorded, k, c[1])
                /\ c[1] = "vault_registrar_connector_key" /\ c[1] \in DOMAIN entries[k].properties
                      => Granted(chain, Recorded, k, PropertyOf(k, c[1]))
                /\ c[1] = "key" => Granted(chain, Recorded, k, PropertyOf(k, "p2p_contract_key"))
    <2>1. k \in catalog.deployed /\ Recorded[k] = <<k, 1>>
      BY <1>1, <1>3, <1>13
    <2>2. \A n \in Arguments(k) : Linked(chain, Recorded, k, n)
      BY <2>1, <1>1, <1>4, <1>8 DEF Linked
    <2>3. ASSUME NEW n \in {"vault_registrar_connector_key", "p2p_contract_key"},
                 n \in DOMAIN entries[k].properties
          PROVE  Granted(chain, Recorded, k, PropertyOf(k, n))
      <3>1. PropertyOf(k, n) \in Keys
        BY <2>3, <1>1, KeyFacts
      <3>2. PropertyOf(k, n)
               \in Named(entries, k, {"vault_registrar_connector_key", "p2p_contract_key"})
        BY <2>3 DEF Named, PropertyOf
      <3>3. <<k, 1>> \in FirstAuthorized(catalog, PropertyOf(k, n))
        BY <2>1, <3>2 DEF FirstAuthorized, entries
      <3>4. Recorded[PropertyOf(k, n)] # None =>
               /\ PropertyOf(k, n) \in catalog.deployed
               /\ Recorded[PropertyOf(k, n)] = <<PropertyOf(k, n), 1>>
        BY <3>1, <1>1, <1>3
      <3>5. Recorded[PropertyOf(k, n)] # None =>
               chain[PropertyOf(k, n)][1].authorized = FirstAuthorized(catalog, PropertyOf(k, n))
        BY <3>1, <3>4, <1>8
      <3> QED BY <2>1, <3>3, <3>4, <3>5 DEF Granted
    <2> QED BY <2>2, <2>3, <1>1, ConfigFacts
  <1>14. \A k \in Keys : Settled(chain, Recorded, k, {}, {})
    BY <1>13 DEF Settled
  <1> QED BY <1>6, <1>10, <1>11, <1>12, <1>14

LEMMA InitRecords ==
  ASSUME Init
  PROVE  RecordsOK /\ PublishedOK /\ configs = <<>>
  <1>1. /\ phase = "idle" /\ contract = [k \in Keys |-> None]
        /\ abi_key = [k \in Keys |-> None]
        /\ contracts_to_deploy = <<>> /\ txs = {} /\ pending = <<>>
        /\ todo = <<>> /\ job = None /\ failed = {}
        /\ unsettled = {} /\ interrupted = FALSE
    BY DEF Init
  <1>2. PhaseOK /\ PendingOK /\ TxsOK /\ Planned /\ ~InDeployment
    BY <1>1 DEF PhaseOK, PendingOK, TxsOK, Planned, InDeployment, Phases
  <1>3. ScriptOK
    BY <1>1 DEF ScriptOK, Verifying, ContextOK, Exists
  <1>4. WorldOK
    BY InitWorldFacts, InitChain DEF WorldOK
  <1>5. \A k \in Keys : Recorded[k] = file[k].address
    BY DEF Recorded
  <1>6. \A k \in Stored : file[k].address # None =>
          \A n \in DOMAIN file[k].properties_addresses \cap Arguments(k) :
             file[k].properties_addresses[n] = file[PropertyOf(k, n)].address
    <2>1. SUFFICES ASSUME NEW k \in Stored, file[k].address # None,
                          NEW n \in DOMAIN file[k].properties_addresses \cap Arguments(k)
                   PROVE  file[k].properties_addresses[n] = file[PropertyOf(k, n)].address
      OBVIOUS
    <2>2. k \in Keys
      BY DEF Stored, InScope
    <2>3. PropertyOf(k, n) \in Keys
      BY <2>2, InitWorldFacts, KeyFacts DEF Arguments
    <2>4. file[PropertyOf(k, n)].address = First(catalog, PropertyOf(k, n))
      BY <2>3, <1>5, InitWorldFacts
    <2>5. First(catalog, k) # None
      BY <2>1, <2>2, <1>5, InitWorldFacts
    <2>6. k \in catalog.deployed
      BY <2>5 DEF First
    <2> QED BY <2>2, <2>4, <2>6, InitWorldFacts
  <1>7. FileAgrees
    BY <1>1, <1>6, InitChain DEF FileAgrees
  <1>8. RecordsOK
    BY <1>2, <1>3, <1>4, <1>7 DEF RecordsOK
  <1>9. BuildsMatch
    <2>1. ASSUME NEW k \in Keys, Recorded[k] # None
          PROVE  file[k].abi_key = chain[k][Recorded[k][2]].abi
      <3>1. Recorded[k] = First(catalog, k)
        BY InitWorldFacts
      <3>2. k \in catalog.deployed /\ Recorded[k] = <<k, 1>>
        BY <2>1, <3>1 DEF First
      <3>3. chain[k][1].abi = <<entries[k].contract, 0>>
        BY <3>2, InitWorldFacts
      <3> QED BY <3>2, <3>3, InitWorldFacts
    <2> QED BY <2>1, <1>1 DEF BuildsMatch, BuiltFrom, Deploying
  <1>10. AbisFirst /\ ConfigsExist
    BY <1>1, InitWorldFacts DEF AbisFirst, ConfigsExist
  <1> QED BY <1>8, <1>9, <1>10, InitWorldFacts DEF PublishedOK

\* Every step keeps the records right.
LEMMA StepRecords ==
  ASSUME ReleaseInv, RecordsOK, [Next]_vars
  PROVE  RecordsOK'
  <1>1. catalog \in Catalogs /\ SortingKeys /\ Polling /\ Checking
    BY DEF ReleaseInv
  <1>2. ASSUME NEW request, StartDeployment(request) PROVE RecordsOK'
    BY <1>1, <1>2, PlanningRecords
  <1>3. CASE StartChecking
    BY <1>1, <1>3, VerificationRecords
  <1>4. CASE StartPublishing
    BY <1>1, <1>4, PublishingRecords
  <1>5. CASE DeploymentStep
    <2>1. ASSUME NEW tx \in txs, Configure(tx) PROVE RecordsOK'
      BY <1>1, <2>1, ConfigureRecords
    <2>2. CASE Sort \/ DryRun
      BY <1>1, <2>2, PlanningRecords
    <2>3. CASE Plan
      BY <1>1, <2>3, PlanRecords
    <2>4. CASE Construct
      BY <1>1, <2>4, ConstructRecords
    <2>5. CASE CannotEncode
      BY <1>1, <2>5, EndedRecords
    <2>6. CASE Save
      BY <1>1, <2>6, SaveRecords
    <2>7. CASE Execute
      BY <1>1, <2>7, ExecuteRecords
    <2>8. CASE ExecuteFails
      BY <1>1, <2>8, ExecuteFailsRecords
    <2>9. CASE SaveAgain
      BY <1>1, <2>9, SaveAgainRecords
    <2> QED BY <1>5, <2>1, <2>2, <2>3, <2>4, <2>5, <2>6, <2>7, <2>8, <2>9 DEF DeploymentStep
  <1>6. CASE VerificationStep
    BY <1>1, <1>6, VerificationRecords
  <1>7. CASE PublishingStep
    BY <1>1, <1>7, PublishingRecords
  <1>8. CASE Crash
    BY <1>1, <1>8, EndedRecords
  <1>9. CASE (\E a \in DOMAIN explorer : ExplorerAnswers(a)) \/ (\E name : EditSources(name))
                \/ UNCHANGED vars
    BY <1>1, <1>9, OutsideRecords
  <1> QED BY <1>2, <1>3, <1>4, <1>5, <1>6, <1>7, <1>8, <1>9 DEF Next, ScriptStep

LEMMA RecordsInvariant == Spec => []RecordsOK
  <1>1. Init => RecordsOK
    BY InitRecords
  <1>2. ReleaseInv /\ RecordsOK /\ [Next]_vars => RecordsOK'
    BY StepRecords
  <1> QED BY <1>1, <1>2, ReleaseInvariant, PTL DEF Spec
-----------------------------------------------------------------------------
(* What is published.                                                      *)

\* The contracts on chain and the ABIs that are published only grow.
LEMMA WorldGrows ==
  ASSUME ReleaseInv, RecordsOK, [Next]_vars
  PROVE  /\ catalog' = catalog /\ Kept(chain, chain') /\ ChainOK(chain) /\ ChainOK(chain')
         /\ abis \subseteq abis'
  <1>1. catalog \in Catalogs /\ ChainOK(chain)
    BY DEF ReleaseInv, RecordsOK, WorldOK
  <1>2. RecordsOK'
    BY StepRecords
  <1> DEFINE Still == catalog' = catalog /\ chain' = chain
  <1>3. CASE Construct
    <2>1. PICK k : k = Head(todo)
      OBVIOUS
    <2>2. Kept(chain, chain')
      BY <1>1, <1>3, <2>1, ConstructedContract
    <2> QED BY <1>1, <1>2, <1>3, <2>2, SameCatalog, SameConditions
            DEF Construct, published, RecordsOK, WorldOK
  <1>4. CASE Execute
    <2>1. Kept(chain, chain')
      BY <1>1, <1>4, ExecuteRecords
    <2> QED BY <1>1, <1>2, <1>4, <2>1, SameCatalog, SameConditions
            DEF Execute, published, RecordsOK, WorldOK
  <1>5. ASSUME NEW name, EditSources(name)
        PROVE  /\ catalog' = catalog /\ chain' = chain /\ abis' = abis
    BY <1>5 DEF EditSources, published
  <1>6. CASE ~ Construct /\ ~ Execute /\ ~ \E name : EditSources(name)
    <2>1. ASSUME DeploymentStep PROVE Still /\ abis' = abis
      BY <1>6, <2>1 DEF DeploymentStep, Sort, Plan, DryRun, CannotEncode, Save, ExecuteFails,
                        SaveAgain, Configure, world, published
    <2>2. ASSUME VerificationStep PROVE Still /\ abis' = abis
      BY <2>2 DEF VerificationStep, AlreadyVerified, ArgumentsDiffer, Submit, Refused,
                  RequestFails, Poll, FinishVerification, world, published
    <2>3. ASSUME PublishingStep PROVE Still /\ abis \subseteq abis'
      BY <2>3 DEF PublishingStep, UpdateAbi, UpdateConfigs, UpdateConfig, FinishPublishing,
                  world, published
    <2>4. ASSUME NEW request, StartDeployment(request) PROVE Still /\ abis' = abis
      BY <2>4 DEF StartDeployment, world, published
    <2>5. ASSUME StartChecking \/ StartPublishing \/ Crash PROVE Still /\ abis' = abis
      BY <2>5 DEF StartChecking, StartPublishing, Crash, world, published
    <2>6. ASSUME NEW a, ExplorerAnswers(a) PROVE Still /\ abis' = abis
      BY <2>6 DEF ExplorerAnswers, published
    <2>7. ASSUME UNCHANGED vars PROVE Still /\ abis' = abis
      BY <2>7 DEF vars, world, published
    <2>8. Still /\ abis \subseteq abis'
      BY <2>1, <2>2, <2>3, <2>4, <2>5, <2>6, <2>7, <1>6 DEF Next, ScriptStep
    <2> QED BY <2>8, <1>1, KeptItself
  <1> QED BY <1>1, <1>3, <1>4, <1>5, <1>6, KeptItself

\* No script changes what these are said of.
LEMMA SameBuilds ==
  ASSUME catalog' = catalog,
         \A k \in Keys : BuiltFrom(chain', Recorded', k, file'[k].abi_key),
         Deploying' => /\ DOMAIN abi_key' = Keys
                       /\ \A k \in Keys : BuiltFrom(chain', contract', k, abi_key'[k])
  PROVE  BuildsMatch'
  BY SameCatalog DEF BuildsMatch, BuiltFrom

LEMMA ReleasesNamed ==
  ASSUME catalog \in Catalogs, NEW k \in Keys, NEW build \in Releases(k)
  PROVE  build # None
  <1>1. entries[k].contract \in ClassNames /\ None \notin (Keys \cup ClassNames) \X Nat
    BY CatalogsConfigured DEF Keys, entries
  <1> QED BY <1>1 DEF Releases

\* What steps do to the keys of ABIs and the addresses they stand next to.
LEMMA BuildSteps ==
  ASSUME RecordsOK, [Next]_vars
  PROVE  \/ Construct \/ Save \/ SaveAgain
         \/ \E request : StartDeployment(request)
         \/ /\ file' = file
            /\ ~ Deploying' \/ (Deploying /\ contract' = contract /\ abi_key' = abi_key)
  <1> DEFINE Alone == /\ file' = file
                      /\ \/ ~ Deploying'
                         \/ Deploying /\ contract' = contract /\ abi_key' = abi_key
  <1>1. Forget => ~ Deploying'
    BY DEF Forget, Deploying
  <1>2. CASE Sort \/ Plan \/ DryRun \/ CannotEncode \/ Execute \/ ExecuteFails
                \/ \E tx \in txs : Configure(tx)
    <2>1. pending # <<>> => Deploying
      BY DEF RecordsOK, PendingOK, InDeployment, Deploying
    <2>2. Alone
      BY <1>1, <1>2, <2>1 DEF Sort, Plan, DryRun, CannotEncode, Execute, ExecuteFails, Configure,
                              world, context, Deploying
    <2> QED BY <2>2
  <1>3. CASE VerificationStep
    <2>1. Alone
      BY <1>1, <1>3 DEF VerificationStep, AlreadyVerified, ArgumentsDiffer, Submit, Refused,
                        RequestFails, Poll, FinishVerification, Conclude, Raise, Verifying,
                        world, Deploying
    <2> QED BY <2>1
  <1>4. CASE PublishingStep \/ Crash \/ StartChecking \/ StartPublishing
    <2>1. Alone
      BY <1>1, <1>4 DEF PublishingStep, UpdateAbi, UpdateConfigs, UpdateConfig,
                        FinishPublishing, Crash, StartChecking, StartPublishing, world, Deploying
    <2> QED BY <2>1
  <1>5. CASE (\E a : ExplorerAnswers(a)) \/ (\E name : EditSources(name)) \/ UNCHANGED vars
    <2>1. file' = file /\ phase' = phase /\ contract' = contract /\ abi_key' = abi_key
      BY <1>5 DEF ExplorerAnswers, EditSources, vars, world, script, context
    <2> QED BY <2>1 DEF Deploying
  <1> QED BY <1>2, <1>3, <1>4, <1>5 DEF Next, ScriptStep, DeploymentStep

\* The build of a contract that is there stays what it was.
LEMMA BuildKept ==
  ASSUME NEW ch, NEW ch2, Kept(ch, ch2), NEW ctx, ContextOK(ch, ctx), NEW k \in Keys, NEW build,
         BuiltFrom(ch, ctx, k, build)
  PROVE  BuiltFrom(ch2, ctx, k, build)
  BY Placed DEF BuiltFrom, Kept

LEMMA BuildsKept ==
  ASSUME ReleaseInv, RecordsOK, BuildsMatch, [Next]_vars
  PROVE  BuildsMatch'
  <1> DEFINE FileMatches == \A k \in Keys : BuiltFrom(chain', Recorded', k, file'[k].abi_key)
             ContextMatches == /\ DOMAIN abi_key' = Keys
                               /\ \A k \in Keys : BuiltFrom(chain', contract', k, abi_key'[k])
  <1>1. /\ catalog \in Catalogs /\ catalog' = catalog
        /\ Kept(chain, chain') /\ ChainOK(chain) /\ ChainOK(chain')
    BY WorldGrows DEF ReleaseInv
  <1>2. ContextOK(chain, contract) /\ ContextOK(chain, Recorded)
    BY DEF RecordsOK, WorldOK, ScriptOK
  <1>3. ASSUME file' = file PROVE FileMatches
    <2>1. Recorded' = Recorded
      BY <1>1, <1>3, SameConditions
    <2> QED BY <2>1, <1>1, <1>2, <1>3, BuildKept DEF BuildsMatch
  <1>4. ASSUME Deploying, contract' = contract, abi_key' = abi_key PROVE ContextMatches
    BY <1>1, <1>2, <1>4, BuildKept DEF BuildsMatch
  <1>5. ASSUME StoreContracts, contract' = contract \/ ~ Deploying', Deploying PROVE FileMatches
    <2>1. SUFFICES ASSUME NEW k \in Keys PROVE BuiltFrom(chain', Recorded', k, file'[k].abi_key)
      OBVIOUS
    <2>2. Recorded'[k] = file'[k].address
      <3>1. Keys' = Keys
        BY <1>1, SameCatalog
      <3> QED BY <3>1 DEF Recorded
    <2>3. CASE k \notin Stored
      <3>1. file'[k] = file[k]
        BY <2>3, <1>5 DEF StoreContracts
      <3>2. BuiltFrom(chain', Recorded, k, file[k].abi_key)
        BY <1>1, <1>2, BuildKept DEF BuildsMatch
      <3> QED BY <2>2, <3>1, <3>2 DEF BuiltFrom, Recorded
    <2>4. CASE k \in Stored
      <3> DEFINE build == IF abi_key[k] # None THEN abi_key[k] ELSE file[k].abi_key
                 listed == PropertiesAddresses(k)
      <3>1. file'[k] = [address |-> contract[k], abi_key |-> build,
                        properties_addresses |-> listed]
        BY <2>4, <1>5 DEF StoreContracts
      <3> HIDE DEF listed
      <3>2. file'[k].address = contract[k] /\ file'[k].abi_key = build
        <4> HIDE DEF build
        <4> QED BY <3>1
      <3>3. BuiltFrom(chain', contract, k, abi_key[k])
        BY <1>1, <1>2, <1>5, BuildKept DEF BuildsMatch
      <3>4. ASSUME contract[k] # None PROVE abi_key[k] # None
        <4>1. contract[k][2] \in 1..Len(chain[k])
          BY <3>4, <1>2, Placed
        <4>2. chain[k][contract[k][2]] \in Contract(k)
          BY <4>1, <1>1, LengthsNatural
        <4>3. chain[k][contract[k][2]].abi \in Releases(k)
          BY <4>2 DEF Contract
        <4>4. abi_key[k] = chain[k][contract[k][2]].abi
          BY <3>4, <1>5 DEF BuildsMatch, BuiltFrom
        <4> QED BY <4>3, <4>4, <1>1, ReleasesNamed
      <3> QED BY <2>2, <3>2, <3>3, <3>4 DEF BuiltFrom
    <2> QED BY <2>3, <2>4
  <1>6. CASE Construct
    <2>1. PICK k : k = Head(todo)
      OBVIOUS
    <2>2. /\ k \in Keys /\ phase = "deploying" /\ file' = file
          /\ abi_key' = [abi_key EXCEPT ![k] = Abi(k)]
      BY <1>1, <1>6, <2>1, Constructed DEF Construct
    <2>3. /\ chain'[k][Len(chain[k]) + 1].abi = Abi(k)
          /\ contract'[k] = <<k, Len(chain[k]) + 1>>
          /\ \A x \in Keys \ {k} : contract'[x] = contract[x]
      BY <1>1, <1>6, <2>1, ConstructedContract
    <2>4. /\ abi_key'[k] = Abi(k) /\ \A x \in Keys \ {k} : abi_key'[x] = abi_key[x]
          /\ DOMAIN abi_key' = Keys
      BY <2>2 DEF BuildsMatch, Deploying
    <2>5. ASSUME NEW x \in Keys PROVE BuiltFrom(chain', contract', x, abi_key'[x])
      <3>1. CASE x = k
        BY <3>1, <2>3, <2>4 DEF BuiltFrom
      <3>2. CASE x # k
        <4>1. BuiltFrom(chain', contract, x, abi_key[x])
          BY <1>1, <1>2, <2>2, BuildKept DEF BuildsMatch, Deploying
        <4> QED BY <3>2, <4>1, <2>3, <2>4 DEF BuiltFrom
      <3> QED BY <3>1, <3>2
    <2> QED BY <2>2, <2>4, <2>5, <1>1, <1>3, SameBuilds
  <1>7. CASE Save \/ SaveAgain
    <2>1. /\ StoreContracts /\ Deploying
          /\ ~ Deploying' \/ (contract' = contract /\ abi_key' = abi_key)
      BY <1>7 DEF Save, SaveAgain, Forget, context, Deploying
    <2>2. FileMatches
      BY <2>1, <1>5
    <2>3. Deploying' => ContextMatches
      BY <2>1, <1>4
    <2> QED BY <2>2, <2>3, <1>1, SameBuilds
  <1>8. ASSUME NEW request, StartDeployment(request)
        PROVE  BuildsMatch'
    <2>1. /\ file' = file /\ DOMAIN abi_key' = Keys
          /\ \A k \in Keys : /\ contract'[k] = LoadedContract(k)
                             /\ abi_key'[k] = file[k].abi_key
      BY <1>8 DEF StartDeployment, world
    <2>2. FileMatches
      BY <2>1, <1>3
    <2>3. Recorded' = Recorded
      BY <1>1, <2>1, SameConditions
    <2>4. ASSUME NEW k \in Keys PROVE BuiltFrom(chain', contract', k, abi_key'[k])
      <3>1. BuiltFrom(chain', Recorded, k, file[k].abi_key)
        BY <2>1, <2>2, <2>3
      <3>2. contract'[k] = None \/ contract'[k] = Recorded[k]
        BY <2>1 DEF LoadedContract, Recorded
      <3>3. abi_key'[k] = file[k].abi_key
        BY <2>1
      <3> QED BY <3>1, <3>2, <3>3 DEF BuiltFrom
    <2> QED BY <2>1, <2>2, <2>4, <1>1, SameBuilds
  <1>9. ASSUME file' = file,
               ~ Deploying' \/ (Deploying /\ contract' = contract /\ abi_key' = abi_key)
        PROVE  BuildsMatch'
    BY <1>9, <1>3, <1>4, <1>1, SameBuilds
  <1> QED BY <1>6, <1>7, <1>8, <1>9, BuildSteps

\* Every step but those of publishing leaves what is being published alone.
LEMMA NotPublishing ==
  ASSUME RecordsOK, [Next]_vars, ~ UpdateAbi, ~ UpdateConfigs, ~ UpdateConfig, ~ StartPublishing
  PROVE  \/ phase' \notin {"publishing abis", "publishing configs"}
         \/ UNCHANGED <<catalog, source, file, abis, phase, todo>>
  <1> DEFINE Elsewhere == phase' \notin {"publishing abis", "publishing configs"}
  <1>1. Forget => Elsewhere
    BY DEF Forget
  <1>2. CASE DeploymentStep
    <2>1. pending # <<>> => InDeployment
      BY DEF RecordsOK, PendingOK
    <2> QED BY <1>1, <1>2, <2>1 DEF DeploymentStep, Sort, Plan, DryRun, Construct, CannotEncode,
                Save, Execute, ExecuteFails, SaveAgain, Configure, InDeployment
  <1>3. CASE VerificationStep
    BY <1>1, <1>3 DEF VerificationStep, AlreadyVerified, ArgumentsDiffer, Submit, Refused,
                RequestFails, Poll, FinishVerification, Conclude, Raise, Verifying
  <1>4. CASE FinishPublishing \/ Crash \/ StartChecking \/ \E request : StartDeployment(request)
    BY <1>1, <1>4 DEF FinishPublishing, Crash, StartChecking, StartDeployment
  <1>5. CASE (\E a : ExplorerAnswers(a)) \/ (\E name : EditSources(name)) \/ UNCHANGED vars
    BY <1>5 DEF ExplorerAnswers, EditSources, vars, world, script, published
  <1> QED BY <1>2, <1>3, <1>4, <1>5 DEF Next, ScriptStep, PublishingStep

LEMMA AbisFirstKept ==
  ASSUME ReleaseInv, RecordsOK, AbisFirst, [Next]_vars
  PROVE  AbisFirst'
  <1>1. catalog \in Catalogs /\ catalog' = catalog
    BY WorldGrows DEF ReleaseInv
  <1>2. Stored' = Stored /\ entries' = entries
    BY <1>1, SameCatalog
  <1>3. IsFiniteSet(Stored) /\ \A scopes : IsFiniteSet(InScope(scopes))
    <2>1. IsFiniteSet(Keys)
      BY <1>1, ReleaseAssumption DEF Keys, entries
    <2> QED BY <2>1, FS_Subset DEF Stored, InScope
  <1>4. CASE StartPublishing
    <2>1. /\ phase' = "publishing abis" /\ todo' = InFileOrder(Stored) /\ file' = file
          /\ \A k \in Stored : file[k].address # None
      BY <1>4 DEF StartPublishing, world
    <2> QED BY <1>2, <1>3, <2>1, InFileOrderComplete DEF AbisFirst
  <1>5. CASE UpdateAbi
    <2>1. /\ phase = "publishing abis" /\ phase' = phase /\ todo # <<>> /\ todo' = Tail(todo)
          /\ abis' = abis \cup {Abi(Head(todo))} /\ file' = file /\ source' = source
      BY <1>5 DEF UpdateAbi
    <2>2. /\ todo \in Seq(Stored) /\ \A k \in Stored : file[k].address # None
          /\ \A k \in Stored : Abi(k) \in abis \/ \E i \in 1..Len(todo) : todo[i] = k
      BY <2>1 DEF AbisFirst
    <2>3. \A k : (\E i \in 1..Len(todo) : todo[i] = k) =>
                    k = Head(todo) \/ \E i \in 1..Len(todo') : todo'[i] = k
      <3>1. todo \in Seq(Keys)
        BY <2>2 DEF Stored, InScope
      <3> QED BY <2>1, <3>1, TailOfTodo
    <2>4. \A k : Abi(k)' = Abi(k)
      BY <1>2, <2>1 DEF Abi
    <2>5. todo' \in Seq(Stored)
      <3>1. todo \in Seq(Stored) /\ todo # <<>>
        BY <2>1, <2>2
      <3>2. Tail(todo) \in Seq(Stored)
        BY <3>1
      <3> QED BY <3>2, <2>1
    <2>6. \A k \in Stored : Abi(k) \in abis' \/ \E i \in 1..Len(todo') : todo'[i] = k
      BY <2>1, <2>2, <2>3
    <2> QED BY <1>2, <2>1, <2>2, <2>4, <2>5, <2>6 DEF AbisFirst
  <1>6. CASE UpdateConfigs \/ UpdateConfig
    <2>1. /\ phase' = "publishing configs" /\ file' = file /\ source' = source /\ abis' = abis
      BY <1>6 DEF UpdateConfigs, UpdateConfig, world, published
    <2>2. /\ \A k \in Stored : Abi(k) \in abis /\ file[k].address # None
      <3>1. CASE UpdateConfigs
        <4>1. phase = "publishing abis" /\ todo = <<>>
          BY <3>1 DEF UpdateConfigs
        <4>2. 1..Len(todo) = {}
          <5>1. Len(todo) = 0
            BY <4>1
          <5> QED BY <5>1
        <4> QED BY <4>1, <4>2 DEF AbisFirst
      <3>2. CASE UpdateConfig
        BY <3>2 DEF UpdateConfig, AbisFirst
      <3> QED BY <1>6, <3>1, <3>2
    <2>3. todo' \in Seq(Stored)
      <3>1. CASE UpdateConfigs
        <4>1. /\ InScope({"p2p"}) \subseteq Stored /\ InScope({"proxies"}) \subseteq Stored
          BY DEF Stored, InScope
        <4>2. /\ InFileOrder(InScope({"p2p"})) \in Seq(Stored)
              /\ InFileOrder(InScope({"proxies"})) \in Seq(Stored)
          BY <1>3, <4>1, InFileOrderComplete
        <4>3. todo' = InFileOrder(InScope({"p2p"})) \o InFileOrder(InScope({"proxies"}))
          BY <3>1 DEF UpdateConfigs
        <4> QED BY <4>2, <4>3
      <3>2. CASE UpdateConfig
        <4>1. todo \in Seq(Stored) /\ todo # <<>> /\ todo' = Tail(todo)
          BY <3>2 DEF UpdateConfig, AbisFirst
        <4>2. Tail(todo) \in Seq(Stored)
          BY <4>1
        <4> QED BY <4>1, <4>2
      <3> QED BY <1>6, <3>1, <3>2
    <2>4. \A k : Abi(k)' = Abi(k)
      BY <1>2, <2>1 DEF Abi
    <2> QED BY <1>2, <2>1, <2>2, <2>3, <2>4 DEF AbisFirst
  <1>7. CASE phase' \notin {"publishing abis", "publishing configs"}
    BY <1>7 DEF AbisFirst
  <1>8. CASE UNCHANGED <<catalog, source, file, abis, phase, todo>>
    BY <1>2, <1>8 DEF AbisFirst, Abi
  <1> QED BY <1>4, <1>5, <1>6, <1>7, <1>8, NotPublishing

\* What is published of a contract stays true.
LEMMA PublishedKept ==
  ASSUME ReleaseInv, RecordsOK, ConfigsExist, PublishedAbisAvailable, PublishedArguments,
         [Next]_vars, configs' = configs
  PROVE  ConfigsExist' /\ PublishedAbisAvailable' /\ PublishedArguments'
  <1> USE SameCatalog
  <1>1. /\ catalog' = catalog /\ Kept(chain, chain') /\ ChainOK(chain) /\ ChainOK(chain')
        /\ abis \subseteq abis'
    BY WorldGrows
  <1>2. ASSUME NEW k \in DOMAIN configs
        PROVE  /\ k \in Keys /\ configs[k].address # None
               /\ Exists(chain, k, configs[k].address) /\ Exists(chain', k, configs[k].address)
    BY <1>1, <1>2, ExistsKept DEF ConfigsExist
  <1>3. ConfigsExist'
    BY <1>1, <1>2 DEF ConfigsExist, Exists
  <1>4. PublishedAbisAvailable'
    <2>1. ASSUME NEW k \in DOMAIN configs
          PROVE  At(configs[k].address)'.abi = At(configs[k].address).abi
      <3>1. PICK m \in 1..Len(chain[k]) : configs[k].address = <<k, m>>
        BY <2>1, <1>2 DEF Exists
      <3>2. k \in Keys /\ configs'[k].address[1] = k /\ configs'[k].address[2] = m
        BY <2>1, <1>2, <3>1
      <3>3. chain'[k][m].abi = chain[k][m].abi
        BY <1>1, <3>1, <3>2 DEF Kept
      <3> QED BY <3>2, <3>3 DEF At
    <2> QED BY <1>1, <2>1 DEF PublishedAbisAvailable
  <1>5. ASSUME NEW k \in DOMAIN configs
        PROVE  \A n \in DOMAIN configs[k].properties_addresses
                           \cap DOMAIN chain'[configs[k].address[1]][configs[k].address[2]].links :
                  \/ chain'[configs[k].address[1]][configs[k].address[2]].links[n]
                        = configs[k].properties_addresses[n]
                  \/ n \in Settable
    <2>1. PICK m \in 1..Len(chain[k]) : configs[k].address = <<k, m>>
      BY <1>2 DEF Exists
    <2>2. /\ k \in Keys /\ m \in 1..Len(chain'[k])
          /\ \A n \in Arguments(k) \ Settable : chain'[k][m].links[n] = chain[k][m].links[n]
      BY <1>1, <1>2, LengthsNatural DEF Kept
    <2>3. chain[k][m] \in Contract(k) /\ chain'[k][m] \in Contract(k)
      BY <1>1, <2>2, LengthsNatural
    <2>4. DOMAIN chain[k][m].links = Arguments(k) /\ DOMAIN chain'[k][m].links = Arguments(k)
      BY <2>3 DEF Contract
    <2>5. configs[k].address[1] = k /\ configs[k].address[2] = m
      BY <2>1
    <2> QED BY <2>2, <2>4, <2>5 DEF PublishedArguments, At
  <1>6. PublishedArguments'
    BY <1>5 DEF PublishedArguments, At
  <1> QED BY <1>3, <1>4, <1>6
\* (The phase has a name of its own: a string with a space is beyond SMT.)
PublishingConfigs == phase = "publishing configs"

\* Where the file has an address for k.
LEMMA RecordedContract ==
  ASSUME RecordsOK, NEW k \in Keys, file[k].address # None
  PROVE  /\ Recorded[k] = file[k].address
         /\ file[k].address = <<k, file[k].address[2]>>
         /\ file[k].address[2] \in 1..Len(chain[k]) /\ Len(chain[k]) \in Nat
         /\ At(file[k].address) = chain[k][Recorded[k][2]]
         /\ At(file[k].address) \in Contract(k)
         /\ DOMAIN At(file[k].address).links = Arguments(k)
  <1>1. ChainOK(chain) /\ ContextOK(chain, Recorded) /\ Recorded[k] = file[k].address
    BY DEF RecordsOK, WorldOK, Recorded
  <1>2. file[k].address = <<k, file[k].address[2]>> /\ file[k].address[2] \in 1..Len(chain[k])
    BY <1>1, Placed
  <1>3. At(file[k].address) = chain[k][file[k].address[2]]
    BY <1>2 DEF At
  <1>4. Len(chain[k]) \in Nat /\ At(file[k].address) \in Contract(k)
    BY <1>1, <1>2, <1>3, LengthsNatural
  <1>5. DOMAIN At(file[k].address).links = Arguments(k)
    BY <1>4 DEF Contract
  <1> QED BY <1>1, <1>2, <1>3, <1>4, <1>5

\* A configuration that is published has its ABIs published already, and lists
\* what its contract was built with.
LEMMA PublishedItem ==
  ASSUME ReleaseInv, RecordsOK, BuildsMatch, AbisFirst, RecordedArguments,
         PublishingConfigs, NEW k \in Stored
  PROVE  LET item == Item(k) IN
         /\ item.address # None /\ Exists(chain, k, item.address)
         /\ \A n \in DOMAIN item.properties_abis :
               PropertyOf(k, n) \in Stored => item.properties_abis[n] \in abis
         /\ item.abi_key = At(item.address).abi
         /\ item.abi_key = item.compiled => item.abi_key \in abis
         /\ \A n \in DOMAIN item.properties_addresses \cap DOMAIN At(item.address).links :
               \/ At(item.address).links[n] = item.properties_addresses[n]
               \/ n \in Settable
  <1> DEFINE own == IF file[k].abi_key # None THEN file[k].abi_key ELSE Abi(k)
             abi == [n \in DOMAIN entries[k].properties |-> PropertyAbi(PropertyOf(k, n))]
  <1>1. /\ Item(k).address = file[k].address
        /\ Item(k).properties_addresses = file[k].properties_addresses
        /\ Item(k).properties_abis = abi /\ Item(k).abi_key = own /\ Item(k).compiled = Abi(k)
    <2> DEFINE address == file[k].address
               addresses == file[k].properties_addresses
               build == Abi(k)
    <2>1. Item(k) = [address |-> address, abi_key |-> own, compiled |-> build,
                     properties_addresses |-> addresses, properties_abis |-> abi]
      BY DEF Item, PropertyOf
    <2> HIDE DEF own, abi, address, addresses, build
    <2>2. /\ Item(k).address = address /\ Item(k).properties_addresses = addresses
          /\ Item(k).properties_abis = abi /\ Item(k).abi_key = own /\ Item(k).compiled = build
      BY <2>1
    <2> QED BY <2>2 DEF address, addresses, build
  <1>2. /\ k \in Keys /\ \A x \in Stored : Abi(x) \in abis
        /\ file[k].address # None
    BY DEF AbisFirst, Stored, InScope, PublishingConfigs
  <1>3. Exists(chain, k, file[k].address)
    BY <1>2 DEF RecordsOK, WorldOK, ContextOK, Recorded
  <1>4. \A n \in DOMAIN abi : PropertyOf(k, n) \in Stored => abi[n] \in abis
    BY <1>2 DEF PropertyAbi
  <1>5. own = At(file[k].address).abi
    <2>1. /\ Recorded[k] = file[k].address
          /\ At(file[k].address) = chain[k][Recorded[k][2]]
          /\ At(file[k].address) \in Contract(k)
      BY <1>2, RecordedContract
    <2>2. file[k].abi_key = At(file[k].address).abi
      BY <1>2, <2>1 DEF BuildsMatch, BuiltFrom
    <2>3. file[k].abi_key \in Releases(k)
      BY <2>1, <2>2 DEF Contract
    <2>4. file[k].abi_key # None
      BY <1>2, <2>3, ReleasesNamed DEF ReleaseInv
    <2> QED BY <2>2, <2>4
  <1>6. own = Abi(k) => own \in abis
    BY <1>2
  <1> HIDE DEF own, abi
  <1> QED BY <1>1, <1>2, <1>3, <1>4, <1>5, <1>6 DEF RecordedArguments

LEMMA UpdateConfigPublished ==
  ASSUME ReleaseInv, RecordsOK, BuildsMatch, AbisFirst, RecordedArguments,
         ConfigsExist, PublishedAbisAvailable, PublishedArguments, UpdateConfig
  PROVE  ConfigsExist' /\ PublishedAbisAvailable' /\ PublishedArguments'
  <1> SUFFICES ASSUME NEW k, k = Head(todo)
               PROVE  ConfigsExist' /\ PublishedAbisAvailable' /\ PublishedArguments'
    OBVIOUS
  <1> DEFINE item == Item(k)
  <1>1. /\ PublishingConfigs /\ todo # <<>>
        /\ configs' = WithItem(k, item)
        /\ UNCHANGED <<catalog, source, chain, abis>>
    BY DEF UpdateConfig, PublishingConfigs
  <1>2. k \in Stored /\ k \in Keys
    <2>1. todo \in Seq(Stored)
      BY <1>1 DEF AbisFirst, PublishingConfigs
    <2>2. todo # <<>>
      BY <1>1
    <2>3. Head(todo) \in Stored
      BY <2>1, <2>2
    <2> QED BY <2>3 DEF Stored, InScope
  <1>3. /\ item.address # None /\ Exists(chain, k, item.address)
        /\ \A n \in DOMAIN item.properties_abis :
              PropertyOf(k, n) \in Stored => item.properties_abis[n] \in abis
        /\ item.abi_key = At(item.address).abi
        /\ item.abi_key = item.compiled => item.abi_key \in abis
        /\ \A n \in DOMAIN item.properties_addresses \cap DOMAIN At(item.address).links :
              \/ At(item.address).links[n] = item.properties_addresses[n]
              \/ n \in Settable
    BY <1>1, <1>2, PublishedItem
  <1> HIDE DEF item
  <1>4. /\ DOMAIN configs' = DOMAIN configs \cup {k} /\ configs'[k] = item
        /\ \A x \in DOMAIN configs \ {k} : configs'[x] = configs[x]
    BY <1>1 DEF WithItem
  <1>5. /\ Keys' = Keys /\ Stored' = Stored /\ entries' = entries /\ \A a : At(a)' = At(a)
    BY <1>1, SameCatalog DEF At
  <1>6. ASSUME NEW x \in DOMAIN configs'
        PROVE  /\ x \in Keys /\ configs'[x].address # None
               /\ Exists(chain, x, configs'[x].address)
               /\ \A n \in DOMAIN configs'[x].properties_abis :
                     PropertyOf(x, n) \in Stored => configs'[x].properties_abis[n] \in abis
               /\ configs'[x].abi_key = At(configs'[x].address).abi
               /\ configs'[x].abi_key = configs'[x].compiled => configs'[x].abi_key \in abis
               /\ \A n \in DOMAIN configs'[x].properties_addresses
                              \cap DOMAIN At(configs'[x].address).links :
                     \/ At(configs'[x].address).links[n] = configs'[x].properties_addresses[n]
                     \/ n \in Settable
    <2>1. CASE x = k
      BY <2>1, <1>2, <1>3, <1>4
    <2>2. CASE x # k
      <3>1. x \in DOMAIN configs /\ configs'[x] = configs[x]
        BY <2>2, <1>4
      <3> QED BY <3>1 DEF ConfigsExist, PublishedAbisAvailable, PublishedArguments, PropertyOf
    <2> QED BY <2>1, <2>2
  <1>7. ConfigsExist'
    BY <1>1, <1>5, <1>6 DEF ConfigsExist, Exists
  <1>8. PublishedAbisAvailable'
    <2>1. abis' = abis
      BY <1>1
    <2>2. \A x, n : entries'[x].properties[n] = PropertyOf(x, n)
      BY <1>5 DEF PropertyOf
    <2> QED BY <2>1, <2>2, <1>5, <1>6 DEF PublishedAbisAvailable
  <1>9. PublishedArguments'
    BY <1>1, <1>5, <1>6 DEF PublishedArguments, At
  <1> QED BY <1>7, <1>8, <1>9

\* Only one step publishes a configuration.
LEMMA PublishedTables ==
  ASSUME [Next]_vars, ~ UpdateConfig
  PROVE  configs' = configs
  <1>1. CASE DeploymentStep
    BY <1>1 DEF DeploymentStep, Sort, Plan, DryRun, Construct, CannotEncode, Save, Execute,
                ExecuteFails, SaveAgain, Configure, world, published
  <1>2. CASE VerificationStep
    BY <1>2 DEF VerificationStep, AlreadyVerified, ArgumentsDiffer, Submit, Refused,
                RequestFails, Poll, FinishVerification, world, published
  <1>3. CASE UpdateAbi \/ UpdateConfigs \/ FinishPublishing
    BY <1>3 DEF UpdateAbi, UpdateConfigs, FinishPublishing, world, published
  <1>4. CASE StartChecking \/ StartPublishing \/ Crash \/ \E request : StartDeployment(request)
    BY <1>4 DEF StartChecking, StartPublishing, Crash, StartDeployment, world, published
  <1>5. CASE (\E a : ExplorerAnswers(a)) \/ (\E name : EditSources(name)) \/ UNCHANGED vars
    BY <1>5 DEF ExplorerAnswers, EditSources, vars, world, published
  <1> QED BY <1>1, <1>2, <1>3, <1>4, <1>5 DEF Next, ScriptStep, PublishingStep
-----------------------------------------------------------------------------
(* What the records promise, read off the invariant.                       *)

LEMMA RecordsTyped == ASSUME ReleaseInv, RecordsOK PROVE TypeOK
  <1>1. catalog \in Catalogs /\ PhaseOK /\ PendingOK /\ TxsOK /\ WorldOK /\ ScriptOK
    BY DEF ReleaseInv, RecordsOK
  <1>2. ASSUME NEW k \in Keys
        PROVE  file[k].address \in Versions(k) /\ contract[k] \in Versions(k)
    <2>1. Exists(chain, k, file[k].address) /\ Exists(chain, k, contract[k])
      BY <1>1 DEF WorldOK, ScriptOK, ContextOK, Recorded
    <2> QED BY <2>1 DEF Exists, Versions
  <1>3. job \in 0..MaxAttempts \cup {None}
    <2>1. MaxAttempts \in Nat
      BY ReleaseAssumption
    <2>2. 0..(MaxAttempts - 1) \subseteq 0..MaxAttempts
      BY <2>1
    <2> QED BY <1>1, <2>2 DEF PhaseOK
  <1>4. txs \subseteq Keys \X {"set_refinance_impl", "set_liquidation_impl",
                               "set_vault_registrar_connector", "set_proxy_auth"}
    <2>1. SUFFICES ASSUME NEW tx \in txs
                   PROVE  tx \in Keys \X {"set_refinance_impl", "set_liquidation_impl",
                                          "set_vault_registrar_connector", "set_proxy_auth"}
      OBVIOUS
    <2>2. PICK k \in Keys : \E c \in ConfigDeps(k) : tx = <<k, c[2]>>
      BY <1>1 DEF TxsOK
    <2>3. PICK c \in ConfigDeps(k) : tx = <<k, c[2]>>
      BY <2>2
    <2> QED BY <1>1, <2>3, ConfigFacts
  <1>5. phase = "idle" => todo = <<>> /\ pending = <<>> /\ job = None /\ failed = {}
    BY <1>1 DEF PhaseOK, PendingOK, InDeployment
  <1>6. ASSUME NEW a \in DOMAIN explorer
        PROVE  \E k \in Keys : a \in Versions(k) \ {None}
    <2>1. PICK k \in Keys : \E n \in 1..Len(chain[k]) : a = <<k, n>>
      BY <1>1 DEF WorldOK
    <2>0. PICK n \in 1..Len(chain[k]) : a = <<k, n>>
      BY <2>1
    <2>2. a # None
      <3>1. n \in Nat
        BY <1>1, LengthsNatural DEF WorldOK
      <3> QED BY <1>1, <2>0, <3>1, KeyFacts
    <2> QED BY <2>0, <2>2 DEF Versions
  <1>7. phase \in Phases
    BY <1>1 DEF PhaseOK
  <1> QED BY <1>2, <1>3, <1>4, <1>5, <1>6, <1>7 DEF TypeOK

LEMMA ArgumentsRecorded == ASSUME ReleaseInv, RecordsOK PROVE RecordedArguments
  <1>1. SUFFICES ASSUME NEW k \in Keys, k \in Stored, file[k].address # None,
                        NEW n \in DOMAIN file[k].properties_addresses
                                     \cap DOMAIN At(file[k].address).links,
                        n \notin Settable
                 PROVE  At(file[k].address).links[n] = file[k].properties_addresses[n]
    BY DEF RecordedArguments
  <1>2. /\ Recorded[k] = file[k].address /\ n \in Arguments(k)
        /\ At(file[k].address) = chain[k][Recorded[k][2]]
    BY <1>1, RecordedContract
  <1>3. /\ Built(chain, Recorded, k)
        /\ file[k].properties_addresses[n] = file[PropertyOf(k, n)].address
    BY <1>1, <1>2 DEF RecordsOK, FileAgrees
  <1>4. chain[k][Recorded[k][2]].links[n] = Recorded[PropertyOf(k, n)]
    BY <1>1, <1>2, <1>3 DEF Built
  <1>5. PropertyOf(k, n) \in Keys
    BY <1>2, KeyFacts DEF ReleaseInv, Arguments
  <1> QED BY <1>2, <1>3, <1>4, <1>5 DEF Recorded

LEMMA SettledInFile == ASSUME ReleaseInv, RecordsOK PROVE SettledLinksAgree
  <1>1. SUFFICES ASSUME phase # "configuring", NEW k \in Keys, k \in Stored,
                        file[k].address # None, NEW c \in ConfigDeps(k), <<k, c[2]>> \notin unsettled
                 PROVE  /\ c[1] \in Settable \cap DOMAIN entries[k].properties =>
                              At(file[k].address).links[c[1]] = file[PropertyOf(k, c[1])].address
                        /\ c[1] = "vault_registrar_connector_key"
                              /\ c[1] \in DOMAIN entries[k].properties =>
                              Authorized(k, PropertyOf(k, c[1]))
                        /\ c[1] = "key" => Authorized(k, PropertyOf(k, "p2p_contract_key"))
    BY DEF SettledLinksAgree, ConfigDeps, PropertyOf
  <1>2. /\ Recorded[k] = file[k].address
        /\ At(file[k].address) = chain[k][Recorded[k][2]]
    BY <1>1, RecordedContract
  <1>3. Settled(chain, Recorded, k, unsettled, unsettled)
    BY <1>1 DEF RecordsOK, FileAgrees
  <1>4. /\ c[1] \in Settable \cap DOMAIN entries[k].properties => Linked(chain, Recorded, k, c[1])
        /\ c[1] = "vault_registrar_connector_key" /\ c[1] \in DOMAIN entries[k].properties
              /\ Linked(chain, Recorded, k, c[1]) =>
              Granted(chain, Recorded, k, PropertyOf(k, c[1]))
        /\ c[1] = "key" => Granted(chain, Recorded, k, PropertyOf(k, "p2p_contract_key"))
    BY <1>1, <1>2, <1>3 DEF Settled
  <1>5. /\ c[1] \in Settable \cap DOMAIN entries[k].properties => PropertyOf(k, c[1]) \in Keys
        /\ c[1] = "key" => PropertyOf(k, "p2p_contract_key") \in Keys
        /\ "vault_registrar_connector_key" \in Settable
    BY <1>1, ConfigFacts DEF ReleaseInv, Settable
  <1>6. ASSUME NEW t \in Keys, Granted(chain, Recorded, k, t)
        PROVE  Authorized(k, t)
    <2>1. file[t].address # None => /\ Recorded[t] = file[t].address
                                    /\ At(file[t].address) = chain[t][Recorded[t][2]]
      BY RecordedContract
    <2> QED BY <1>2, <1>6, <2>1 DEF Granted, Authorized
  <1>7. \A t \in Keys : Recorded[t] = file[t].address
    BY DEF Recorded
  <1> QED BY <1>2, <1>4, <1>5, <1>6, <1>7 DEF Linked

\* What a deployment saves is no older than what was in the file.
LEMMA SavedForward ==
  ASSUME ReleaseInv, RecordsOK, Save \/ SaveAgain, NEW k \in Retained, file[k].address # None
  PROVE  file'[k].address # None /\ file[k].address[2] <= file'[k].address[2]
  <1>1. /\ StoreContracts /\ InDeployment /\ todo = <<>> /\ catalog' = catalog
    <2>1. CASE Save
      BY <2>1 DEF Save, InDeployment
    <2>2. CASE SaveAgain
      <3>1. phase = "configuring" /\ StoreContracts /\ catalog' = catalog
        BY <2>2 DEF SaveAgain
      <3> QED BY <3>1 DEF InDeployment, RecordsOK, PhaseOK
    <2> QED BY <2>1, <2>2
  <1>2. ContextAgrees /\ AheadOK /\ catalog \in Catalogs
    BY <1>1 DEF RecordsOK, ReleaseInv
  <1>3. Ahead = {}
    <2>1. Len(todo) = 0
      BY <1>1
    <2> QED BY <2>1 DEF Ahead
  <1>4. k \in Keys
    BY DEF Retained
  <1>5. CASE k \notin Stored
    <2>1. file[k].address[2] \in 1..Len(chain[k]) /\ Len(chain[k]) \in Nat
      BY <1>4, RecordedContract
    <2>2. file'[k] = file[k]
      BY <1>1, <1>4, <1>5 DEF StoreContracts
    <2>3. file[k].address[2] <= file[k].address[2]
      BY <2>1
    <2> QED BY <2>2, <2>3
  <1>6. CASE k \in Stored
    <2>1. k \notin Blanked
      BY <1>6 DEF Retained, Blanked
    <2>2. file'[k].address = contract[k]
      BY <2>1, <1>1, <1>2, <1>3, <1>4, StoredContracts
    <2>3. contract[k] # None
      BY <2>1, <1>2, <1>3, <1>4 DEF AheadOK, ContextAgrees
    <2> QED BY <2>2, <2>3, <1>2, <1>4 DEF ContextAgrees
  <1> QED BY <1>5, <1>6

LEMMA OnlySavesRecord ==
  ASSUME [Next]_vars, ~ Save, ~ SaveAgain
  PROVE  file' = file
  <1>1. CASE DeploymentStep
    BY <1>1 DEF DeploymentStep, Sort, Plan, DryRun, Construct, CannotEncode, Execute,
                ExecuteFails, Configure, world
  <1>2. CASE VerificationStep
    BY <1>2 DEF VerificationStep, AlreadyVerified, ArgumentsDiffer, Submit, Refused,
                RequestFails, Poll, FinishVerification, world
  <1>3. CASE PublishingStep
    BY <1>3 DEF PublishingStep, UpdateAbi, UpdateConfigs, UpdateConfig, FinishPublishing, world
  <1>4. CASE StartChecking \/ StartPublishing \/ Crash \/ \E request : StartDeployment(request)
    BY <1>4 DEF StartChecking, StartPublishing, Crash, StartDeployment, world
  <1>5. CASE (\E a : ExplorerAnswers(a)) \/ (\E name : EditSources(name)) \/ UNCHANGED vars
    BY <1>5 DEF ExplorerAnswers, EditSources, vars, world
  <1> QED BY <1>1, <1>2, <1>3, <1>4, <1>5 DEF Next, ScriptStep

MovesForward ==
    \A k \in Retained : file[k].address # None =>
        file'[k].address # None /\ file[k].address[2] <= file'[k].address[2]

LEMMA StepsMoveForward == ASSUME ReleaseInv, RecordsOK, [Next]_vars PROVE MovesForward
  <1>1. ASSUME ~ Save, ~ SaveAgain, NEW k \in Retained, file[k].address # None
        PROVE  file'[k].address # None /\ file[k].address[2] <= file'[k].address[2]
    <2>1. file[k].address[2] \in 1..Len(chain[k]) /\ Len(chain[k]) \in Nat
      BY <1>1, RecordedContract DEF Retained
    <2>2. file[k].address[2] <= file[k].address[2]
      BY <2>1
    <2> QED BY <1>1, <2>2, OnlySavesRecord
  <1> QED BY <1>1, SavedForward DEF MovesForward

\* The tables that are published, with what keeps them right.
PublishedInv ==
    PublishedOK /\ PublishedAbisAvailable /\ PublishedArguments

LEMMA PublishedInvariant == Spec => []PublishedInv
  <1>1. Init => PublishedInv
    <2>1. ASSUME Init PROVE PublishedInv
      <3>1. PublishedOK /\ configs = <<>>
        BY <2>1, InitRecords
      <3>2. DOMAIN configs = {}
        BY <3>1
      <3> QED BY <3>1, <3>2 DEF PublishedInv, PublishedAbisAvailable, PublishedArguments
    <2> QED BY <2>1
  <1>2. ReleaseInv /\ RecordsOK /\ PublishedInv /\ [Next]_vars => PublishedInv'
    <2>1. SUFFICES ASSUME ReleaseInv, RecordsOK, PublishedInv, [Next]_vars
                   PROVE  PublishedInv'
      OBVIOUS
    <2>2. /\ BuildsMatch /\ AbisFirst /\ ConfigsExist
          /\ PublishedAbisAvailable /\ PublishedArguments
      BY <2>1 DEF PublishedInv, PublishedOK
    <2>3. BuildsMatch' /\ AbisFirst'
      BY <2>1, <2>2, BuildsKept, AbisFirstKept
    <2>4. ConfigsExist' /\ PublishedAbisAvailable' /\ PublishedArguments'
      <3>1. CASE UpdateConfig
        BY <2>1, <2>2, <3>1, ArgumentsRecorded, UpdateConfigPublished
      <3>2. CASE ~ UpdateConfig
        BY <2>1, <2>2, <3>2, PublishedTables, PublishedKept
      <3> QED BY <3>1, <3>2
    <2> QED BY <2>3, <2>4 DEF PublishedInv, PublishedOK
  <1> QED BY <1>1, <1>2, ReleaseInvariant, RecordsInvariant, PTL DEF Spec
-----------------------------------------------------------------------------
(* The theorems.                                                           *)

\* Whatever script dies and when, the file, the memory of the running script
\* and the explorer speak of contracts that exist, and a script that ended has
\* left nothing in memory.
THEOREM ReleaseTypeCorrect == Spec => []TypeOK
  <1>1. ReleaseInv /\ RecordsOK => TypeOK
    BY RecordsTyped
  <1> QED BY <1>1, ReleaseInvariant, RecordsInvariant, PTL

\* A deployment never deploys a contract before one it still depends on, also
\* after contracts deployed meanwhile have changed what depends on what.
THEOREM DependenciesComeFirst == Spec => []DependenciesFirst
  <1>1. RecordsOK => DependenciesFirst
    BY DEF RecordsOK, InDeployment, AheadOK, DependenciesFirst
  <1> QED BY <1>1, RecordsInvariant, PTL

\* The constructor arguments the file lists of a contract are those the contract
\* at the recorded address was built with.
THEOREM ArgumentsAreRecorded == Spec => []RecordedArguments
  <1>1. ReleaseInv /\ RecordsOK => RecordedArguments
    BY ArgumentsRecorded
  <1> QED BY <1>1, ReleaseInvariant, RecordsInvariant, PTL

\* Whenever no configuration transactions run, also while publish.py reads the
\* file, the links and authorisations of every recorded contract are those of
\* the file, but for transactions that failed or were lost.
THEOREM LinksAreSettled == Spec => []SettledLinksAgree
  <1>1. ReleaseInv /\ RecordsOK => SettledLinksAgree
    BY SettledInFile
  <1> QED BY <1>1, ReleaseInvariant, RecordsInvariant, PTL

\* As long as every deployment reached its first save, the file names the last
\* contract deployed for every key it lists; in a local environment, for every
\* key that a script deploys.
THEOREM NothingIsForgotten == Spec => []NothingForgotten
  <1>1. RecordsOK => NothingForgotten
    <2>1. SUFFICES ASSUME RecordsOK, phase = "idle", ~ interrupted,
                          NEW k \in Stored \cap Retained, Len(chain[k]) > 0
                   PROVE  file[k].address = <<k, Len(chain[k])>>
      BY DEF NothingForgotten
    <2>2. k \in Keys /\ k \notin Blanked /\ Newest(chain, Recorded, k)
      BY <2>1 DEF RecordsOK, FileAgrees, Stored, InScope, Retained, Blanked
    <2> QED BY <2>1, <2>2 DEF Newest, Recorded
  <1> QED BY <1>1, RecordsInvariant, PTL

\* No step of any script loses an address or replaces it by an earlier one, but
\* for the listed contracts of a local environment that no script deploys: a
\* local deployment loads and saves those without an address.
THEOREM RecordsMoveForward == Spec => RecordsOnlyMoveForward
  <1>1. ReleaseInv /\ RecordsOK /\ [Next]_vars => [MovesForward]_vars
    BY StepsMoveForward
  <1>2. Spec => [][MovesForward]_vars
    BY <1>1, ReleaseInvariant, RecordsInvariant, PTL DEF Spec
  <1> QED BY <1>2 DEF RecordsOnlyMoveForward, MovesForward

\* The own ABI of a published configuration is that of the build deployed at the
\* published address; it was published too, unless the sources had changed from
\* that build when publish.py compiled them.  The ABIs of the contracts it names
\* were published before it.
THEOREM AbisArePublished == Spec => []PublishedAbisAvailable
  <1>1. PublishedInv => PublishedAbisAvailable
    BY DEF PublishedInv
  <1> QED BY <1>1, PublishedInvariant, PTL

\* A published configuration never lists the constructor arguments of another
\* deployment than the one whose address it gives.
THEOREM PublishedArgumentsAgree == Spec => []PublishedArguments
  <1>1. PublishedInv => PublishedArguments
    BY DEF PublishedInv
  <1> QED BY <1>1, PublishedInvariant, PTL
=============================================================================
