--------------------------- MODULE JobQueueProofs ---------------------------
(***************************************************************************)
(* What the abstract queue guarantees to whoever implements it.            *)
(***************************************************************************)
EXTENDS JobQueue, TLAPS

\* A job is never held by two workers, nor held while it is queued or after
\* it has a verdict: the promise behind FOR UPDATE SKIP LOCKED.
THEOREM Exclusion == Spec => []Exclusive
<1> DEFINE Inv == TypeOK /\ Exclusive
<1>1. Init => Inv
  BY DEF Init, TypeOK, Exclusive
<1>2. Inv /\ [Next]_vars => Inv'
  <2> SUFFICES ASSUME TypeOK, Exclusive, [Next]_vars PROVE Inv'
    OBVIOUS
  <2> USE DEF TypeOK, Exclusive, Existing
  <2>1. ASSUME NEW j \in Jobs, Enqueue(j) PROVE Inv'
    BY <2>1 DEF Enqueue
  <2>2. ASSUME NEW w \in Workers, NEW j \in Jobs, Claim(w, j) PROVE Inv'
    <3>1. \A v \in Workers : <<v, j>> \notin held
      BY <2>2 DEF Claim
    <3>2. TypeOK'
      BY <2>2 DEF Claim
    <3>3. ASSUME NEW v \in Workers, NEW k \in Jobs
          PROVE  <<v, k>> \in held' <=> \/ <<v, k>> \in held
                                        \/ v = w /\ k = j
      BY <2>2 DEF Claim
    <3>4. \A k \in Jobs \ {j} : status'[k] = status[k]
      BY <2>2 DEF Claim
    <3>5. status'[j] = "running"
      BY <2>2 DEF Claim
    <3> QED
      BY <3>1, <3>2, <3>3, <3>4, <3>5
  <2>3. ASSUME NEW w \in Workers, NEW j \in Jobs, LetGo(w, j) PROVE Inv'
    BY <2>3 DEF LetGo
  <2>4. ASSUME NEW w \in Workers, NEW j \in Jobs,
               NEW verdict \in {"succeeded", "failed"}, Finish(w, j, verdict)
        PROVE  Inv'
    BY <2>4 DEF Finish
  <2>5. ASSUME NEW J \in SUBSET Jobs, Delete(J) PROVE Inv'
    BY <2>5 DEF Delete
  <2>6. CASE UNCHANGED vars
    BY <2>6 DEF vars
  <2> QED
    BY <2>1, <2>2, <2>3, <2>4, <2>5, <2>6 DEF Next
<1> QED
  BY <1>1, <1>2, PTL DEF Spec
=============================================================================
