---------------------------- MODULE RoutingPages ----------------------------
(***************************************************************************)
(* The routing page (app/dashboard/routing/page.tsx): routing profiles,    *)
(* the review of decisions with the rules it suggests, the policy with its *)
(* builder (features/routing/components/routing-policy-builder.tsx), the   *)
(* routing test and the intake of documents.                               *)
(***************************************************************************)
EXTENDS TablePage

----------------------------------------------------------------------------
(* Profiles: a row is built (TRUE) or stale.                               *)

ProfilesUi(admin) == [admin |-> admin, rows |-> NoRows, loading |-> TRUE, computing |-> None]
ProfilesDb == [rows |-> OneRow(FALSE)]
ProfilesEffect(c) ==
    IF c.k = "recompute"
    THEN [db EXCEPT !.rows = [r \in Rows |-> IF @[r] # None /\ c.a \in {r, "all"} THEN TRUE ELSE @[r]]]
    ELSE db
ProfilesAnswer(c) == IF c.k = "list" THEN db.rows ELSE None

ProfilesRecompute(id) == Ask([ui EXCEPT !.computing = id], "recompute", id)
ProfilesUser ==
    /\ ui.admin /\ ui.computing = None
    /\ \E id \in Present(ui.rows) \cup {"all"} : ProfilesRecompute(id)

ProfilesRecomputed(s) ==
    IF Ok(s)
    THEN Resume(s, [ui EXCEPT !.loading = TRUE], Send(Rest(s), "list", "recompute"))
    ELSE Resume(s, [ui EXCEPT !.computing = None], Rest(s))

ProfilesListed(s) ==
    Resume(s, [ui EXCEPT !.rows = Got(s, @), !.loading = FALSE,
                         !.computing = IF net[s].a = "recompute" THEN None ELSE @], Rest(s))

ProfilesResume(s) ==
    \/ net[s].k = "list" /\ ProfilesListed(s)
    \/ net[s].k = "recompute" /\ ProfilesRecomputed(s)

\* Documents are added to a collection: its profile is out of date.
ProfilesWorld == \E r \in Present(db.rows) : World([db EXCEPT !.rows[r] = FALSE])

----------------------------------------------------------------------------
(* Review: a decision waits for review (TRUE) or was handled.  The rules   *)
(* suggested are computed from the reassignments (moved); the page fetches *)
(* them again when the number of waiting decisions changes.                *)

ReviewUi(admin) ==
    [admin |-> admin, rows |-> NoRows, all |-> FALSE, loading |-> TRUE, busy |-> None,
     pending |-> None, moved |-> None, applying |-> FALSE]
ReviewDb == [rows |-> OneRow(TRUE), moved |-> 0]

ReviewPending(t) == Cardinality({r \in Rows : t[r] = TRUE})
ReviewMatch(t, all) == [r \in Rows |-> IF all \/ t[r] = TRUE THEN t[r] ELSE None]

ReviewAccepts(c) == c.k = "resolve" => db.rows[c.a.id] # None
ReviewEffect(c) ==
    IF c.k = "resolve"
    THEN [db EXCEPT !.rows[c.a.id] = FALSE, !.moved = IF c.a.move THEN 1 ELSE @]
    ELSE db
ReviewAnswer(c) ==
    CASE c.k = "list"  -> [rows |-> ReviewMatch(db.rows, c.a.all), pending |-> ReviewPending(db.rows)]
      [] c.k = "rules" -> db.moved
      [] OTHER -> None

ReviewShowAll == Ask([ui EXCEPT !.all = ~@, !.loading = TRUE], "list", [all |-> ~ui.all, busy |-> FALSE])

\* Accept the decision, or move its document to another collection.
ReviewResolve(r, move) ==
    /\ ui.admin /\ ui.busy = None /\ ui.rows[r] = TRUE
    /\ Ask([ui EXCEPT !.busy = r], "resolve", [id |-> r, move |-> move, all |-> ui.all])

ReviewApply == ui.admin /\ ui.moved = 1 /\ ~ui.applying /\ Ask([ui EXCEPT !.applying = TRUE], "apply", None)

ReviewUser ==
    \/ ReviewShowAll
    \/ \E r \in Present(ui.rows), move \in BOOLEAN : ReviewResolve(r, move)
    \/ ReviewApply

ReviewListed(s) ==
    LET u == [ui EXCEPT !.loading = FALSE, !.busy = IF net[s].a.busy THEN None ELSE @]
        v == [u EXCEPT !.rows = net[s].r.rows, !.pending = net[s].r.pending]
    IN  IF ~Ok(s)
        THEN Resume(s, u, Rest(s))
        ELSE Resume(s, v, IF v.pending = ui.pending THEN Rest(s) ELSE Send(Rest(s), "rules", None))

\* reload() is the one of the render resolve was called in.
ReviewResolved(s) ==
    IF Ok(s)
    THEN Resume(s, [ui EXCEPT !.loading = TRUE], Send(Rest(s), "list", [all |-> net[s].a.all, busy |-> TRUE]))
    ELSE Resume(s, [ui EXCEPT !.busy = None], Rest(s))

ReviewRules(s) == Resume(s, [ui EXCEPT !.moved = Got(s, @), !.applying = @ /\ net[s].a = None], Rest(s))

ReviewApplied(s) ==
    IF Ok(s)
    THEN Resume(s, ui, Send(Rest(s), "rules", "apply"))
    ELSE Resume(s, [ui EXCEPT !.applying = FALSE], Rest(s))

ReviewResume(s) ==
    \/ net[s].k = "list" /\ ReviewListed(s)
    \/ net[s].k = "resolve" /\ ReviewResolved(s)
    \/ net[s].k = "rules" /\ ReviewRules(s)
    \/ net[s].k = "apply" /\ ReviewApplied(s)

----------------------------------------------------------------------------
(* The policy.  A stage is [score, weight, min]: the best confidence its   *)
(* rules give (in percent), its weight in a vote, and the confidence below *)
(* which first_match passes it over.  A decision under review_below waits  *)
(* for review.                                                             *)

MaxPolicyStages == 2    \* bound
\* What the inputs offer; a score may equal either threshold, or lie between them.
Scores  == {40, 90}
Weights == {0, 1}
Mins    == {40, 70}
Reviews == {50, 90}
NewStage == [score |-> 90, weight |-> 1, min |-> 70]
Policy0  == [mode |-> "first_match", review |-> 50, stages |-> <<NewStage>>]

PolicyUi(admin) ==
    [admin |-> admin, loading |-> TRUE, policy |-> None, draft |-> None, versions |-> 0, saving |-> FALSE]
PolicyDb == [config |-> Policy0, versions |-> <<Policy0>>]

PolicyEffect(c) ==
    CASE c.k = "save"     -> [config |-> c.a, versions |-> Append(db.versions, c.a)]
      [] c.k = "rollback" -> [config |-> db.versions[c.a], versions |-> Append(db.versions, db.versions[c.a])]
      [] OTHER -> db
PolicyAnswer(c) == IF c.k = "list" THEN [config |-> db.config, versions |-> Len(db.versions)] ELSE None

PolicyShown == ~ui.loading /\ ui.draft # None
PolicyDirty == ui.draft # ui.policy

PolicyDraft(d)     == User([ui EXCEPT !.draft = d])
PolicyPatchStage(i, st) == PolicyDraft([ui.draft EXCEPT !.stages[i] = st])
PolicyAddStage     == Len(ui.draft.stages) < MaxPolicyStages /\ PolicyDraft([ui.draft EXCEPT !.stages = Append(@, NewStage)])
PolicyRemoveStage(i) ==
    LET q == ui.draft.stages
    IN  PolicyDraft([ui.draft EXCEPT !.stages = SubSeq(q, 1, i - 1) \o SubSeq(q, i + 1, Len(q))])
PolicyMoveStage(i, j) ==
    LET q == ui.draft.stages
    IN  j \in DOMAIN q /\ PolicyDraft([ui.draft EXCEPT !.stages = [q EXCEPT ![i] = q[j], ![j] = q[i]]])
PolicyMode(m)      == PolicyDraft([ui.draft EXCEPT !.mode = m])
PolicyReview(v)    == PolicyDraft([ui.draft EXCEPT !.review = v])
PolicyDiscard      == PolicyDirty /\ ~ui.saving /\ PolicyDraft(ui.policy)
PolicySave         == PolicyDirty /\ ~ui.saving /\ Ask([ui EXCEPT !.saving = TRUE], "save", ui.draft)
PolicyRollback(v)  == Ask(ui, "rollback", v)

PolicyUser ==
    /\ ui.admin /\ PolicyShown
    /\ \/ \E i \in DOMAIN ui.draft.stages :
            \/ \E sc \in Scores : PolicyPatchStage(i, [ui.draft.stages[i] EXCEPT !.score = sc])
            \/ /\ ui.draft.mode = "weighted_vote"
               /\ \E w \in Weights : PolicyPatchStage(i, [ui.draft.stages[i] EXCEPT !.weight = w])
            \/ /\ ui.draft.mode = "first_match"
               /\ \E m \in Mins : PolicyPatchStage(i, [ui.draft.stages[i] EXCEPT !.min = m])
            \/ PolicyRemoveStage(i)
            \/ \E j \in {i - 1, i + 1} : PolicyMoveStage(i, j)
       \/ PolicyAddStage
       \/ \E m \in {"first_match", "weighted_vote"} \ {ui.draft.mode} : PolicyMode(m)
       \/ \E v \in Reviews \ {ui.draft.review} : PolicyReview(v)
       \/ PolicyDiscard \/ PolicySave
       \/ \E v \in 1..(ui.versions - 1) : PolicyRollback(v)

PolicyLoaded(s) ==
    LET u == [ui EXCEPT !.loading = FALSE]
        c == net[s].r.config
    IN  Resume(s, IF Ok(s) THEN [u EXCEPT !.policy = c, !.draft = c, !.versions = net[s].r.versions] ELSE u, Rest(s))

PolicySaved(s) ==
    IF Ok(s) THEN Refresh(s, [ui EXCEPT !.saving = FALSE]) ELSE Resume(s, [ui EXCEPT !.saving = FALSE], Rest(s))

PolicyRolledBack(s) == IF Ok(s) THEN Refresh(s, ui) ELSE Resume(s, ui, Rest(s))

PolicyResume(s) ==
    \/ net[s].k = "list" /\ PolicyLoaded(s)
    \/ net[s].k = "save" /\ PolicySaved(s)
    \/ net[s].k = "rollback" /\ PolicyRolledBack(s)

WeightSum(stages) ==
    LET sum[i \in 0..Len(stages)] == IF i = 0 THEN 0 ELSE sum[i - 1] + stages[i].weight
    IN  sum[Len(stages)]

\* stageSoloOutcome: the badge that predicts what happens to a document that
\* only this stage matches.  A confidence is a pair, numerator and denominator.
SoloConfidence(p, st) ==
    LET w == WeightSum(p.stages)
    IN  IF p.mode = "first_match" THEN <<st.score, 1>>
        ELSE IF w > 0 THEN <<st.score * st.weight, w>> ELSE <<0, 1>>

\* Mutant: a confidence equal to the threshold waits for review.
BoundaryReviewed(p, i) ==
    LET st == p.stages[i]
        c  == SoloConfidence(p, st)
    IN  IF p.mode = "first_match" /\ st.score < st.min THEN "ignored"
        ELSE IF c[1] <= p.review * c[2] THEN "review" ELSE "ok"

StageSoloOutcome(p, i) ==
    LET st == p.stages[i]
        c  == SoloConfidence(p, st)
    IN  IF p.mode = "first_match" /\ st.score < st.min THEN "ignored"
        ELSE IF c[1] < p.review * c[2] THEN "review" ELSE "ok"

\* run_policy of the server, for a document for which stage i has one candidate,
\* of its best score, and the other stages none.
RunPolicy(p, i) ==
    LET cands(j)  == IF j = i THEN {p.stages[j].score} ELSE {}
        passing   == {j \in DOMAIN p.stages : \E sc \in cands(j) : sc >= p.stages[j].min}
        w         == WeightSum(p.stages)
        vote      == p.stages[i].score * p.stages[i].weight
    IN  IF p.mode = "first_match"
        THEN IF passing = {} THEN "ignored"
             ELSE IF p.stages[i].score < p.review THEN "review" ELSE "ok"
        ELSE IF (w > 0 /\ vote < p.review * w) \/ (w = 0 /\ 0 < p.review) THEN "review" ELSE "ok"

----------------------------------------------------------------------------
(* The routing test, of a file or of a path, and the intake of one file or *)
(* of a folder.  Choosing another file or folder clears the result.        *)

RouteTestUi == [file |-> None, path |-> "", running |-> FALSE, simulating |-> FALSE, result |-> None]
RouteTestAnswer(c) == c.a

RouteTestFile(f) == User([ui EXCEPT !.file = f, !.result = None])
RouteTestPath(p) == User([ui EXCEPT !.path = p])
RouteTestRun     == ui.file # None /\ ~ui.running /\ Ask([ui EXCEPT !.running = TRUE], "preview", [file |-> ui.file])
\* Enter in the path field is not disabled while a simulation runs.
RouteTestRunPathSim == ui.path # "" /\ Ask([ui EXCEPT !.simulating = TRUE], "simulate", [path |-> ui.path])

RouteTestUser ==
    \/ \E f \in Rows : RouteTestFile(f)
    \/ \E p \in {"p", "q"} \ {ui.path} : RouteTestPath(p)
    \/ RouteTestRun \/ RouteTestRunPathSim

RouteTested(s) ==
    LET u == IF net[s].k = "preview" THEN [ui EXCEPT !.running = FALSE] ELSE [ui EXCEPT !.simulating = FALSE]
    IN  Resume(s, [u EXCEPT !.result = Got(s, @)], Rest(s))

RouteTestResume(s) == net[s].k \in {"preview", "simulate"} /\ RouteTested(s)

IntakeUi(admin) ==
    [admin |-> admin, file |-> None, running |-> FALSE, result |-> None,
     source |-> None, prefix |-> "", scanning |-> "no", report |-> None]
IntakeDb == [jobs |-> {}]

IntakeEffect(c) ==
    CASE c.k = "intake" -> [db EXCEPT !.jobs = @ \cup {c.a}]
      [] c.k = "scan" /\ ~c.a.dry -> [db EXCEPT !.jobs = @ \cup {c.a.source}]
      [] OTHER -> db
IntakeAnswer(c) == c.a

IntakeFile(f)   == User([ui EXCEPT !.file = f, !.result = None])
IntakeFinish    == ui.file # None /\ ~ui.running /\ Ask([ui EXCEPT !.running = TRUE], "intake", ui.file)
IntakeSource(r) == User([ui EXCEPT !.source = r, !.prefix = "", !.report = None])
IntakePrefix    == ui.source # None /\ User([ui EXCEPT !.prefix = "p", !.report = None])
IntakeRun(dry) ==
    /\ ui.source # None /\ ui.scanning = "no"
    /\ Ask([ui EXCEPT !.scanning = IF dry THEN "dry" ELSE "run"], "scan",
           [source |-> ui.source, prefix |-> ui.prefix, dry |-> dry])

IntakeUser ==
    /\ ui.admin
    /\ \/ \E f \in Rows : IntakeFile(f)
       \/ \E r \in Rows : IntakeSource(r)
       \/ IntakeFinish \/ IntakePrefix
       \/ \E dry \in BOOLEAN : IntakeRun(dry)

IntakeDone(s)    == Resume(s, [ui EXCEPT !.running = FALSE, !.result = Got(s, @)], Rest(s))
IntakeScanned(s) == Resume(s, [ui EXCEPT !.scanning = "no", !.report = Got(s, @)], Rest(s))
IntakeResume(s) ==
    \/ net[s].k = "intake" /\ IntakeDone(s)
    \/ net[s].k = "scan" /\ IntakeScanned(s)
=============================================================================
