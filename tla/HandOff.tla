------------------------------- MODULE HandOff -------------------------------
(***************************************************************************)
(* What the hidden-states connector promises, without its queues, copies,  *)
(* threads and locks.                                                      *)
(*                                                                         *)
(* A request's rows live in blocks while the model computes them.  They    *)
(* are promised to a client while they are still there; they are kept      *)
(* until they have been copied, the whole of them, and released once; the  *)
(* promise ends with the client holding the rows or with an error.         *)
(***************************************************************************)
CONSTANT Reqs

VARIABLES
  memory,   \* request -> "idle" "blocks" "copied" "released"
  promise   \* request -> "none" "made" "kept" "broken"

vars == <<memory, promise>>

Init == /\ memory = [r \in Reqs |-> "idle"]
        /\ promise = [r \in Reqs |-> "none"]

\* The model computes tokens of the requests T, which may have taken the
\* blocks of the requests F, none of which was promised to anybody.
Compute(T, F) ==
  /\ \A r \in T : memory[r] \in {"idle", "blocks"}
  /\ \A r \in F : memory[r] \in {"idle", "blocks"}
  /\ \A r \in T \cup F : promise[r] = "none"
  /\ memory' = [r \in Reqs |-> IF r \in T THEN "blocks"
                               ELSE IF r \in F THEN "idle" ELSE memory[r]]
  /\ UNCHANGED promise

Copy(r) ==
  /\ memory[r] = "blocks"
  /\ memory' = [memory EXCEPT ![r] = "copied"]
  /\ UNCHANGED promise

\* The requests P finish, with their rows in their blocks; the requests D are
\* forgotten and their blocks released: they have been copied, unless D was
\* given up with nothing computed.
Finish(P, D) ==
  /\ \A r \in P : promise[r] = "none" /\ memory[r] = "blocks"
  /\ \A r \in D : \/ memory[r] = "copied"
                  \/ memory[r] = "idle" /\ promise[r] = "none"
  /\ promise' = [r \in Reqs |-> IF r \in P THEN "made" ELSE promise[r]]
  /\ memory'  = [r \in Reqs |-> IF r \in D THEN "released" ELSE memory[r]]

\* The client loads the rows, which by then have left the blocks.
Keep(r) ==
  /\ promise[r] = "made" /\ memory[r] \in {"copied", "released"}
  /\ promise' = [promise EXCEPT ![r] = "kept"]
  /\ UNCHANGED memory

Break(r) ==
  /\ promise[r] = "made" /\ memory[r] \in {"copied", "released"}
  /\ promise' = [promise EXCEPT ![r] = "broken"]
  /\ UNCHANGED memory

Next ==
  \/ \E T, F \in SUBSET Reqs : Compute(T, F)
  \/ \E P, D \in SUBSET Reqs : Finish(P, D)
  \/ \E r \in Reqs : Copy(r) \/ Keep(r) \/ Break(r)

Spec == Init /\ [][Next]_vars
=============================================================================
