------------------------------ MODULE Traversal ------------------------------
(***************************************************************************)
(* What each walk of the reader promises, whatever graph a file holds: it  *)
(* hands out nodes the walk can reach, none of them twice, and it says it  *)
(* is exhausted only when it has handed out all of them; or it refuses.    *)
(* The block walks, the B-tree page walk and the folder walk are shown to  *)
(* implement this specification.                                           *)
(***************************************************************************)
EXTENDS Naturals, FiniteSets

CONSTANT Node

VARIABLES start,   \* the nodes the walk starts from (at most one)
          edges,   \* parent and child, as the file on disk has them
          seen,    \* the nodes handed out so far
          status   \* "running", "done" or "refused"

Closed(S) == /\ start \subseteq S
             /\ \A e \in edges : e[1] \in S => e[2] \in S

Reachable == LET closed == {S \in SUBSET Node : Closed(S)}
             IN {n \in Node : \A S \in closed : n \in S}

Init == /\ start \in SUBSET Node
        /\ edges \in SUBSET (Node \X Node)
        /\ seen = {}
        /\ status = "running"

(* The file is read-only: no step changes the graph. *)
ReadOnly == UNCHANGED <<start, edges>>

Visit == /\ status = "running"
         /\ \E n \in Reachable \ seen : seen' = seen \cup {n}
         /\ ReadOnly /\ UNCHANGED status

Exhaust == /\ status = "running"
           /\ seen = Reachable
           /\ status' = "done"
           /\ ReadOnly /\ UNCHANGED seen

Refuse == /\ status = "running"
          /\ status' = "refused"
          /\ ReadOnly /\ UNCHANGED seen

Next == Visit \/ Exhaust \/ Refuse

vars == <<start, edges, seen, status>>

Spec == Init /\ [][Next]_vars

=============================================================================
