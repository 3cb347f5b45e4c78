--------------------------- MODULE LicenseGraphRead ---------------------------
(***************************************************************************)
(* What ReadLicenseGraph (tools/compliance/readgraph.go) promises its      *)
(* caller, without goroutines, channels or a task pool: one call yields    *)
(* one answer.  The answer is the graph of every license metadata file     *)
(* reachable from the root files, or an error when one of them cannot be   *)
(* read or when the call has nothing to do.                                *)
(***************************************************************************)
EXTENDS Integers, Sequences

CONSTANTS Files,              \* names of license metadata files
          DepLists,           \* dependency lists a file may hold
          RootLists,          \* `files` arguments of the call
          ConcurrentReaders   \* size of the task pool

VARIABLES deps,    \* deps[f]: the dependencies listed in file f, in order
          bad,     \* the files that do not open, read or parse
          roots,   \* lg.rootFiles
          answer   \* what the call has returned so far

avars == <<deps, bad, roots, answer>>

Elems(s) == {s[i] : i \in 1..Len(s)}

(* Waiting for the answer, or the error answer: neither carries a graph.   *)
NoGraph(kind) == [kind |-> kind, nodes |-> {}, edges |-> {}]

GraphOf(N) == [kind |-> "graph", nodes |-> N,
               edges |-> {e \in N \X Files : e[2] \in Elems(deps[e[1]])}]

Closed(S) == /\ Elems(roots) \subseteq S
             /\ \A f \in S : Elems(deps[f]) \subseteq S

(* The least set of files that holds the roots and every dependency of a   *)
(* member.                                                                 *)
Reach == {f \in Files : \A S \in SUBSET Files : Closed(S) => f \in S}

Refused == roots = <<>> \/ ConcurrentReaders < 1

Init == /\ deps \in [Files -> DepLists]
        /\ bad \in SUBSET Files
        /\ roots \in RootLists
        /\ answer = NoGraph("none")

Answer == /\ answer = NoGraph("none")
          /\ answer' = IF Refused \/ Reach \cap bad # {} THEN NoGraph("error")
                                                         ELSE GraphOf(Reach)
          /\ UNCHANGED <<deps, bad, roots>>

Spec == Init /\ [][Answer]_avars /\ WF_avars(Answer)
=============================================================================
