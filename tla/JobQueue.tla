------------------------------ MODULE JobQueue ------------------------------
(***************************************************************************)
(* What a table of jobs polled by workers promises to the rest of the      *)
(* system: a job is handed to a worker at most once, and only the worker   *)
(* that holds it gives it a verdict.  Jobs may be deleted at any time, and *)
(* a worker may let go of a job without a verdict (it crashed, or the row  *)
(* was deleted under it).                                                  *)
(***************************************************************************)
CONSTANTS Workers, Jobs

VARIABLES
    status,  \* of each job
    held     \* pairs <<w, j>>: worker w was given job j and works on it

vars == <<status, held>>

Existing == {"queued", "running", "succeeded", "failed"}

TypeOK ==
    /\ status \in [Jobs -> Existing \cup {"none", "deleted"}]
    /\ held \in SUBSET (Workers \X Jobs)

Init ==
    /\ status = [j \in Jobs |-> "none"]
    /\ held = {}

Enqueue(j) ==
    /\ status[j] = "none"
    /\ status' = [status EXCEPT ![j] = "queued"]
    /\ UNCHANGED held

Claim(w, j) ==
    /\ status[j] = "queued"
    /\ \A k \in Jobs : <<w, k>> \notin held
    /\ status' = [status EXCEPT ![j] = "running"]
    /\ held' = held \cup {<<w, j>>}

Finish(w, j, verdict) ==
    /\ <<w, j>> \in held
    /\ status[j] = "running"
    /\ status' = [status EXCEPT ![j] = verdict]
    /\ held' = held \ {<<w, j>>}

LetGo(w, j) ==
    /\ <<w, j>> \in held
    /\ held' = held \ {<<w, j>>}
    /\ UNCHANGED status

Delete(J) ==
    /\ \A j \in J : status[j] \in Existing \cup {"deleted"}
    /\ status' = [j \in Jobs |-> IF j \in J THEN "deleted" ELSE status[j]]
    /\ UNCHANGED held

Next ==
    \/ \E j \in Jobs : Enqueue(j)
    \/ \E w \in Workers, j \in Jobs :
         \/ Claim(w, j) \/ LetGo(w, j)
         \/ \E verdict \in {"succeeded", "failed"} : Finish(w, j, verdict)
    \/ \E J \in SUBSET Jobs : Delete(J)

Spec == Init /\ [][Next]_vars

\* A job is held by at most one worker, and by none before it is claimed or
\* after it has a verdict.
Exclusive ==
    /\ \A v, w \in Workers, j \in Jobs :
         <<v, j>> \in held /\ <<w, j>> \in held => v = w
    /\ \A w \in Workers, j \in Jobs :
         <<w, j>> \in held => status[j] \in {"running", "deleted"}
=============================================================================
