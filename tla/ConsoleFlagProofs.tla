------------------------- MODULE ConsoleFlagProofs -------------------------
(***************************************************************************)
(* The rest of the pages of ConsolePageProofs, and the two theorems that   *)
(* all of them give: no page of the console is left waiting for nothing,   *)
(* and no form is sent twice at once.                                      *)
(***************************************************************************)
EXTENDS ConsolePageProofs

----------------------------------------------------------------------------
(* The list of pipelines.                                                  *)

PipelinesFlags ==
    /\ CallsIn(net) /\ DOMAIN ui = {"admin", "rows", "loading", "open", "name", "submitting"}
    /\ ui.loading => Waits("pipelines", net, {"list"})
    /\ ui.submitting <=> Waits("pipelines", net, {"create"})
    /\ Alone("pipelines", net, {"create"})

LEMMA PipelinesFlagStep ==
    ASSUME PipelinesFlags, NEW s \in Slots, PipelinesUser \/ (Busy(s) /\ PipelinesResume(s))
    PROVE  PipelinesFlags'
<1> DEFINE Sets(v0, v1) == DOMAIN ui' = DOMAIN ui /\ ui'.loading = v0 /\ ui'.submitting = v1
<1>1. CallsIn(net) /\ DOMAIN ui = {"admin", "rows", "loading", "open", "name", "submitting"}
  BY DEF PipelinesFlags
<1>2. \A a : /\ Kind("pipelines", "list", a) = "list"
             /\ Kind("pipelines", "create", a) = "create"
  BY DEF Kind, Marks
<1>3. PipelinesUser => (\E x : User([ui EXCEPT !.open = x])) \/ (\E v : User([ui EXCEPT !.name = v])) \/ (~ui.submitting /\ Ask([ui EXCEPT !.submitting = TRUE], "create", ui.name))
  BY Zenon DEF PipelinesUser
<1>4. CASE (\E x : User([ui EXCEPT !.open = x])) \/ (\E v : User([ui EXCEPT !.name = v]))
  <2>1. Sets(ui.loading, ui.submitting)
    BY <1>1, <1>4 DEF User
  <2>2. net' = net
    BY <1>4 DEF User
  <2> QED
    BY <2>1, <2>2 DEF PipelinesFlags
<1>5. CASE ~ui.submitting /\ Ask([ui EXCEPT !.submitting = TRUE], "create", ui.name)
  <2>1. Sets(ui.loading, TRUE) /\ ~ui.submitting
    BY <1>1, <1>5 DEF Ask
  <2>2. More("pipelines", net, net', "create")
    BY <1>1, <1>2, <1>5, Asking DEF Ask
  <2> QED
    BY <2>1, <2>2 DEF PipelinesFlags, More
<1>6. CASE Busy(s) /\ net[s].k = "list" /\ Listed(s)
  <2>1. Sets(FALSE, ui.submitting)
    BY <1>1, <1>6 DEF Listed, Resume
  <2>2. Less("pipelines", net, net', "list")
    BY <1>1, <1>2, <1>6, Ending DEF Listed, Resume
  <2> QED
    BY <2>1, <2>2 DEF PipelinesFlags, Less
<1>7. CASE Busy(s) /\ net[s].k = "create" /\ PipelinesCreated(s) /\ Ok(s)
  <2>0. Busy(s) /\ net[s].k = "create" /\ \E v : Refresh(s, [[ui EXCEPT !.submitting = FALSE] EXCEPT !.open = FALSE, !.name = v])
    BY <1>7, Zenon DEF PipelinesCreated
  <2>1. Sets(TRUE, FALSE)
    BY <1>1, <2>0 DEF Refresh, Resume
  <2>2. net' = Send(Rest(s), "list", None)
    BY <2>0 DEF Refresh, Resume
  <2>3. Kind("pipelines", "list", None) = "list"
    BY <2>0 DEF Kind, Marks
  <2>4. Busy(s) /\ Kind("pipelines", net[s].k, net[s].a) = "create"
    BY <1>2, <2>0
  <2>5. Swap("pipelines", net, net', "create", "list")
    BY <1>1, <2>2, <2>3, <2>4, Chaining
  <2> QED
    BY <2>1, <2>5 DEF PipelinesFlags, Swap
<1>8. CASE Busy(s) /\ net[s].k = "create" /\ PipelinesCreated(s) /\ ~Ok(s)
  <2>0. Busy(s) /\ net[s].k = "create" /\ Resume(s, [ui EXCEPT !.submitting = FALSE], Rest(s))
    BY <1>8, Zenon DEF PipelinesCreated, Refresh
  <2>1. Sets(ui.loading, FALSE)
    BY <1>1, <2>0 DEF Resume
  <2>2. Less("pipelines", net, net', "create")
    BY <1>1, <1>2, <2>0, Ending DEF Resume
  <2> QED
    BY <2>1, <2>2 DEF PipelinesFlags, Less
<1> QED
  BY <1>3, <1>4, <1>5, <1>6, <1>7, <1>8 DEF PipelinesResume

LEMMA PipelinesFlagPage ==
    ASSUME screen = "pipelines"
    PROVE  /\ Init => PipelinesFlags
           /\ PipelinesFlags /\ [Next]_vars => PipelinesFlags'
           /\ PipelinesFlags => SpinnersWaited /\ OneSubmitAtATime
<1>1. ASSUME Init PROVE PipelinesFlags
  <2> DEFINE none == ""
  <2>1. (\E a \in BOOLEAN : ui = [admin |-> a, rows |-> NoRows, loading |-> TRUE, open |-> FALSE, name |-> none, submitting |-> FALSE])
        /\ net = Send(NoCalls, "list", None)
    BY <1>1, Zenon DEF Init, PipelinesUi
  <2> HIDE DEF none
  <2>2. DOMAIN ui = {"admin", "rows", "loading", "open", "name", "submitting"} /\ ui.loading = TRUE /\ ui.submitting = FALSE
    BY <2>1
  <2>3. Kind("pipelines", "list", None) = "list"
    BY DEF Kind, Marks
  <2>4. More("pipelines", NoCalls, net, "list")
    BY <2>1, <2>3, OneYet
  <2> QED
    BY <2>2, <2>4, NoneYet DEF PipelinesFlags, More
<1>2. ASSUME PipelinesFlags, [Next]_vars PROVE PipelinesFlags'
  <2>1. CASE \E s \in Slots : Serve(s) \/ Fault(s)
    <3>1. CallsIn(net)
      BY <1>2 DEF PipelinesFlags
    <3>2. ui' = ui /\ Same("pipelines", net, net')
      BY <2>1, <3>1, ServerFlags
    <3> QED
      BY <1>2, <3>2 DEF PipelinesFlags, Same
  <2>2. ASSUME NEW s \in Slots, Act \/ Interval \/ Elsewhere \/ Continue(s)
        PROVE  PipelinesFlags'
    <3>1. PipelinesUser \/ (Busy(s) /\ PipelinesResume(s))
      BY <2>2 DEF Act, Interval, Elsewhere, Continue
    <3> QED
      BY <1>2, <3>1, PipelinesFlagStep
  <2>3. CASE UNCHANGED vars
    BY <1>2, <2>3 DEF PipelinesFlags, vars
  <2> QED
    BY <1>2, <2>1, <2>2, <2>3, SomeSlot DEF Next
<1>3. ASSUME PipelinesFlags PROVE SpinnersWaited /\ OneSubmitAtATime
  <2>1. /\ Spinners = {<<ui.loading, {"list"}>>, <<ui.submitting, {"create"}>>}
        /\ Submits = {{"create"}}
    BY DEF Spinners, Submits
  <2>2. ui.loading => InFlight({"list"}) # {}
    <3>1. \A k, a : Kind("pipelines", k, a) \in {"list"} => k \in {"list"}
      BY DEF Kind, Marks
    <3> QED
      BY <1>3, <3>1, WaitsIsInFlight DEF PipelinesFlags
  <2>3. ui.submitting => InFlight({"create"}) # {}
    <3>1. \A k, a : Kind("pipelines", k, a) \in {"create"} => k \in {"create"}
      BY DEF Kind, Marks
    <3> QED
      BY <1>3, <3>1, WaitsIsInFlight DEF PipelinesFlags
  <2>4. Cardinality(InFlight({"create"})) <= 1
    <3>1. \A k, a : k \in {"create"} => Kind("pipelines", k, a) \in {"create"}
      BY DEF Kind, Marks
    <3> QED
      BY <1>3, <3>1, AloneIsOne DEF PipelinesFlags
  <2> QED
    BY <2>1, <2>2, <2>3, <2>4 DEF SpinnersWaited, OneSubmitAtATime
<1> QED
  BY <1>1, <1>2, <1>3

----------------------------------------------------------------------------
(* A pipeline.                                                             *)

PipelineFlags ==
    /\ CallsIn(net) /\ DOMAIN ui = {"admin", "p", "cfg", "versions", "pick", "diff", "cmp", "orig", "fetching", "left"}
    /\ ui.fetching => Waits("pipeline", net, {"evidence", "image"})

LEMMA PipelineFlagStep ==
    ASSUME PipelineFlags, NEW s \in Slots, PipelineUser \/ (Busy(s) /\ PipelineResume(s))
    PROVE  PipelineFlags'
<1> DEFINE Sets(v0) == DOMAIN ui' = DOMAIN ui /\ ui'.fetching = v0
<1>1. CallsIn(net) /\ DOMAIN ui = {"admin", "p", "cfg", "versions", "pick", "diff", "cmp", "orig", "fetching", "left"}
  BY DEF PipelineFlags
<1>2. \A a : /\ Kind("pipeline", "load", a) = "load"
             /\ Kind("pipeline", "list", a) = "list"
             /\ Kind("pipeline", "save", a) = "save"
             /\ Kind("pipeline", "activate", a) = "activate"
             /\ Kind("pipeline", "patch", a) = "patch"
             /\ Kind("pipeline", "destroy", a) = "destroy"
             /\ Kind("pipeline", "diff", a) = "diff"
             /\ Kind("pipeline", "compare", a) = "compare"
             /\ Kind("pipeline", "evidence", a) = "evidence"
             /\ Kind("pipeline", "image", a) = "image"
  BY DEF Kind, Marks
<1>3. CASE (\E key \in Presets : ApplyPreset(key)) \/ SetR \/ SetModel \/ PipelineChoose \/ (ui.orig /\ User([ui EXCEPT !.orig = FALSE]))
  <2>1. Sets(ui.fetching)
    BY <1>1, <1>3 DEF ApplyPreset, SetR, SetModel, PipelineChoose, User
  <2>2. net' = net
    BY <1>3 DEF ApplyPreset, SetR, SetModel, PipelineChoose, User
  <2> QED
    BY <2>1, <2>2 DEF PipelineFlags
<1>4. CASE HandleSave
  <2>1. Sets(ui.fetching)
    BY <1>1, <1>4 DEF HandleSave, Ask
  <2>2. More("pipeline", net, net', "save")
    BY <1>1, <1>2, <1>4, Asking DEF HandleSave, Ask
  <2> QED
    BY <2>1, <2>2 DEF PipelineFlags, More
<1>5. CASE PipelineDelete
  <2>1. Sets(ui.fetching)
    BY <1>1, <1>5 DEF PipelineDelete, Ask
  <2>2. More("pipeline", net, net', "destroy")
    BY <1>1, <1>2, <1>5, Asking DEF PipelineDelete, Ask
  <2> QED
    BY <2>1, <2>2 DEF PipelineFlags, More
<1>6. CASE \E stage \in {"dev", "prod"} : HandleStageChange(stage)
  <2>1. Sets(ui.fetching)
    BY <1>1, <1>6 DEF HandleStageChange, Ask
  <2>2. More("pipeline", net, net', "patch")
    BY <1>1, <1>2, <1>6, Asking DEF HandleStageChange, Ask
  <2> QED
    BY <2>1, <2>2 DEF PipelineFlags, More
<1>7. CASE \E v \in 1..ui.versions : HandleActivate(v)
  <2>1. Sets(ui.fetching)
    BY <1>1, <1>7 DEF HandleActivate, Ask
  <2>2. More("pipeline", net, net', "activate")
    BY <1>1, <1>2, <1>7, Asking DEF HandleActivate, Ask
  <2> QED
    BY <2>1, <2>2 DEF PipelineFlags, More
<1>8. CASE HandleDiff
  <2>1. Sets(ui.fetching)
    BY <1>1, <1>8 DEF HandleDiff, Ask
  <2>2. More("pipeline", net, net', "diff")
    BY <1>1, <1>2, <1>8, Asking DEF HandleDiff, Ask
  <2> QED
    BY <2>1, <2>2 DEF PipelineFlags, More
<1>9. CASE HandleCompare
  <2>1. Sets(ui.fetching)
    BY <1>1, <1>9 DEF HandleCompare, Ask
  <2>2. More("pipeline", net, net', "compare")
    BY <1>1, <1>2, <1>9, Asking DEF HandleCompare, Ask
  <2> QED
    BY <2>1, <2>2 DEF PipelineFlags, More
<1>10. CASE ui.cmp /\ ~ui.fetching /\ ~ui.orig /\ Ask([ui EXCEPT !.fetching = TRUE], "evidence", None)
  <2>1. Sets(TRUE)
    BY <1>1, <1>10 DEF Ask
  <2>2. More("pipeline", net, net', "evidence")
    BY <1>1, <1>2, <1>10, Asking DEF Ask
  <2> QED
    BY <2>1, <2>2 DEF PipelineFlags, More
<1>11. CASE Busy(s) /\ net[s].k = "load" /\ PipelineGot(s) /\ Ok(s)
  <2>1. Sets(ui.fetching)
    BY <1>1, <1>11 DEF PipelineGot, Resume
  <2>2. Swap("pipeline", net, net', "load", "list")
    BY <1>1, <1>2, <1>11, Chaining DEF PipelineGot, Resume
  <2> QED
    BY <2>1, <2>2 DEF PipelineFlags, Swap
<1>12. CASE Busy(s) /\ net[s].k = "load" /\ PipelineGot(s) /\ ~Ok(s)
  <2>1. Sets(ui.fetching)
    BY <1>1, <1>12 DEF PipelineGot, Resume
  <2>2. Less("pipeline", net, net', "load")
    BY <1>1, <1>2, <1>12, Ending DEF PipelineGot, Resume
  <2> QED
    BY <2>1, <2>2 DEF PipelineFlags, Less
<1>13. CASE Busy(s) /\ net[s].k = "list" /\ PipelineShown(s)
  <2>1. Sets(ui.fetching)
    BY <1>1, <1>13 DEF PipelineShown, Resume
  <2>2. Less("pipeline", net, net', "list")
    BY <1>1, <1>2, <1>13, Ending DEF PipelineShown, Resume
  <2> QED
    BY <2>1, <2>2 DEF PipelineFlags, Less
<1>14. CASE Busy(s) /\ net[s].k \in {"save", "activate"} /\ PipelineSaved(s) /\ Ok(s)
  <2>1. Sets(ui.fetching)
    BY <1>1, <1>14 DEF PipelineSaved, PipelineReload, Resume
  <2>2. \E x \in {"save", "activate"} : Swap("pipeline", net, net', x, "load")
    BY <1>1, <1>2, <1>14, Chaining DEF PipelineSaved, PipelineReload, Resume
  <2> QED
    BY <2>1, <2>2 DEF PipelineFlags, Swap
<1>15. CASE Busy(s) /\ net[s].k \in {"save", "activate"} /\ PipelineSaved(s) /\ ~Ok(s)
  <2>1. Sets(ui.fetching)
    BY <1>1, <1>15 DEF PipelineSaved, PipelineReload, Resume
  <2>2. \E x \in {"save", "activate"} : Less("pipeline", net, net', x)
    BY <1>1, <1>2, <1>15, Ending DEF PipelineSaved, PipelineReload, Resume
  <2> QED
    BY <2>1, <2>2 DEF PipelineFlags, Less
<1>16. CASE Busy(s) /\ net[s].k = "patch" /\ PipelineStaged(s)
  <2>1. Sets(ui.fetching)
    BY <1>1, <1>16 DEF PipelineStaged, Resume
  <2>2. Less("pipeline", net, net', "patch")
    BY <1>1, <1>2, <1>16, Ending DEF PipelineStaged, Resume
  <2> QED
    BY <2>1, <2>2 DEF PipelineFlags, Less
<1>17. CASE Busy(s) /\ net[s].k = "destroy" /\ PipelineGone(s)
  <2>1. Sets(ui.fetching)
    BY <1>1, <1>17 DEF PipelineGone, Resume
  <2>2. Less("pipeline", net, net', "destroy")
    BY <1>1, <1>2, <1>17, Ending DEF PipelineGone, Resume
  <2> QED
    BY <2>1, <2>2 DEF PipelineFlags, Less
<1>18. CASE Busy(s) /\ net[s].k = "diff" /\ PipelineDiffed(s)
  <2>1. Sets(ui.fetching)
    BY <1>1, <1>18 DEF PipelineDiffed, Resume
  <2>2. Less("pipeline", net, net', "diff")
    BY <1>1, <1>2, <1>18, Ending DEF PipelineDiffed, Resume
  <2> QED
    BY <2>1, <2>2 DEF PipelineFlags, Less
<1>19. CASE Busy(s) /\ net[s].k = "compare" /\ PipelineCompared(s)
  <2>1. Sets(ui.fetching)
    BY <1>1, <1>19 DEF PipelineCompared, Resume
  <2>2. Less("pipeline", net, net', "compare")
    BY <1>1, <1>2, <1>19, Ending DEF PipelineCompared, Resume
  <2> QED
    BY <2>1, <2>2 DEF PipelineFlags, Less
<1>20. CASE Busy(s) /\ net[s].k = "evidence" /\ Ok(s) /\ Resume(s, ui, Send(Rest(s), "image", None))
  <2>1. Sets(ui.fetching)
    BY <1>1, <1>20 DEF Resume
  <2>2. Swap("pipeline", net, net', "evidence", "image")
    BY <1>1, <1>2, <1>20, Chaining DEF Resume
  <2> QED
    BY <2>1, <2>2 DEF PipelineFlags, Swap
<1>21. CASE Busy(s) /\ net[s].k = "evidence" /\ Resume(s, [ui EXCEPT !.fetching = FALSE], Rest(s))
  <2>1. Sets(FALSE)
    BY <1>1, <1>21 DEF Resume
  <2>2. Less("pipeline", net, net', "evidence")
    BY <1>1, <1>2, <1>21, Ending DEF Resume
  <2> QED
    BY <2>1, <2>2 DEF PipelineFlags, Less
<1>22. CASE Busy(s) /\ net[s].k = "image" /\ PipelineImage(s)
  <2>1. Sets(FALSE)
    BY <1>1, <1>22 DEF PipelineImage, Resume
  <2>2. Less("pipeline", net, net', "image")
    BY <1>1, <1>2, <1>22, Ending DEF PipelineImage, Resume
  <2> QED
    BY <2>1, <2>2 DEF PipelineFlags, Less
<1> QED
  BY <1>3, <1>4, <1>5, <1>6, <1>7, <1>8, <1>9, <1>10, <1>11, <1>12, <1>13, <1>14, <1>15, <1>16, <1>17, <1>18,
    <1>19, <1>20, <1>21, <1>22
    DEF PipelineUser, PipelineResume, OriginalViewButton, PipelineEvidence

LEMMA PipelineFlagPage ==
    ASSUME screen = "pipeline"
    PROVE  /\ Init => PipelineFlags
           /\ PipelineFlags /\ [Next]_vars => PipelineFlags'
           /\ PipelineFlags => SpinnersWaited /\ OneSubmitAtATime
<1>1. ASSUME Init PROVE PipelineFlags
  <2>1. (\E a \in BOOLEAN : ui = PipelineUi(a)) /\ net = Send(NoCalls, "load", None)
    BY <1>1, Zenon DEF Init
  <2>2. DOMAIN ui = {"admin", "p", "cfg", "versions", "pick", "diff", "cmp", "orig", "fetching", "left"} /\ ui.fetching = FALSE
    BY <2>1 DEF PipelineUi
  <2>3. Kind("pipeline", "load", None) = "load"
    BY DEF Kind, Marks
  <2>4. More("pipeline", NoCalls, net, "load")
    BY <2>1, <2>3, OneYet
  <2> QED
    BY <2>2, <2>4, NoneYet DEF PipelineFlags, More
<1>2. ASSUME PipelineFlags, [Next]_vars PROVE PipelineFlags'
  <2>1. CASE \E s \in Slots : Serve(s) \/ Fault(s)
    <3>1. CallsIn(net)
      BY <1>2 DEF PipelineFlags
    <3>2. ui' = ui /\ Same("pipeline", net, net')
      BY <2>1, <3>1, ServerFlags
    <3> QED
      BY <1>2, <3>2 DEF PipelineFlags, Same
  <2>2. ASSUME NEW s \in Slots, Act \/ Interval \/ Elsewhere \/ Continue(s)
        PROVE  PipelineFlags'
    <3>1. PipelineUser \/ (Busy(s) /\ PipelineResume(s))
      BY <2>2 DEF Act, Interval, Elsewhere, Continue
    <3> QED
      BY <1>2, <3>1, PipelineFlagStep
  <2>3. CASE UNCHANGED vars
    BY <1>2, <2>3 DEF PipelineFlags, vars
  <2> QED
    BY <1>2, <2>1, <2>2, <2>3, SomeSlot DEF Next
<1>3. ASSUME PipelineFlags PROVE SpinnersWaited /\ OneSubmitAtATime
  <2>1. /\ Spinners = {<<ui.fetching, {"evidence", "image"}>>}
        /\ Submits = {}
    BY DEF Spinners, Submits
  <2>2. ui.fetching => InFlight({"evidence", "image"}) # {}
    <3>1. \A k, a : Kind("pipeline", k, a) \in {"evidence", "image"} => k \in {"evidence", "image"}
      BY DEF Kind, Marks
    <3> QED
      BY <1>3, <3>1, WaitsIsInFlight DEF PipelineFlags
  <2> QED
    BY <2>1, <2>2 DEF SpinnersWaited, OneSubmitAtATime
<1> QED
  BY <1>1, <1>2, <1>3

----------------------------------------------------------------------------
(* The lists of fine-tuning.                                               *)

FtListFlags ==
    /\ CallsIn(net) /\ DOMAIN ui = {"admin", "rows", "loading", "open", "v", "submitting"}
    /\ ui.loading => Waits("ftlist", net, {"list", "awaited"})
    /\ ui.submitting <=> Waits("ftlist", net, {"create", "awaited"})
    /\ Alone("ftlist", net, {"create", "awaited"})

LEMMA FtListFlagStep ==
    ASSUME FtListFlags, NEW s \in Slots, FtJobsUser \/ FtDatasetsUser \/ FtModelsUser \/ (Busy(s) /\ FtListResume(s))
    PROVE  FtListFlags'
<1> DEFINE Sets(v0, v1) == DOMAIN ui' = DOMAIN ui /\ ui'.loading = v0 /\ ui'.submitting = v1
<1>1. CallsIn(net) /\ DOMAIN ui = {"admin", "rows", "loading", "open", "v", "submitting"}
  BY DEF FtListFlags
<1>2. \A a : /\ Kind("ftlist", "create", a) = "create"
  BY DEF Kind, Marks
<1>3. \A a : /\ a # None => Kind("ftlist", "list", a) = "awaited"
             /\ Kind("ftlist", "list", None) = "list"
  BY NullAssumption DEF Kind, Marks, Words
<1>4. FtJobsUser \/ FtDatasetsUser \/ FtModelsUser => (\E x : User([ui EXCEPT !.open = x])) \/ (\E v : User([ui EXCEPT !.v = v])) \/ FtSubmit
  BY Zenon DEF FtJobsUser, FtDatasetsUser, FtModelsUser, FtDialog, FtJobsSubmit, FtDatasetsSubmit, FtModelsSubmit
<1>5. CASE (\E x : User([ui EXCEPT !.open = x])) \/ (\E v : User([ui EXCEPT !.v = v]))
  <2>1. Sets(ui.loading, ui.submitting)
    BY <1>1, <1>5 DEF User
  <2>2. net' = net
    BY <1>5 DEF User
  <2> QED
    BY <2>1, <2>2 DEF FtListFlags
<1>6. CASE FtSubmit
  <2>1. Sets(ui.loading, TRUE) /\ ~ui.submitting
    BY <1>1, <1>6 DEF FtSubmit, Ask
  <2>2. More("ftlist", net, net', "create")
    BY <1>1, <1>2, <1>6, Asking DEF FtSubmit, Ask
  <2> QED
    BY <2>1, <2>2 DEF FtListFlags, More
<1>7. CASE Busy(s) /\ net[s].k = "list" /\ FtListed(s) /\ net[s].a = None
  <2>1. Sets(FALSE, ui.submitting)
    BY <1>1, <1>7 DEF FtListed, Resume
  <2>2. Less("ftlist", net, net', "list")
    BY <1>1, <1>3, <1>7, Ending DEF FtListed, Resume
  <2> QED
    BY <2>1, <2>2 DEF FtListFlags, Less
<1>8. CASE Busy(s) /\ net[s].k = "list" /\ FtListed(s) /\ net[s].a # None
  <2>1. Sets(FALSE, FALSE)
    BY <1>1, <1>8 DEF FtListed, Resume
  <2>2. Less("ftlist", net, net', "awaited")
    BY <1>1, <1>3, <1>8, Ending DEF FtListed, Resume
  <2> QED
    BY <2>1, <2>2 DEF FtListFlags, Less
<1>9. CASE Busy(s) /\ net[s].k = "create" /\ FtCreated(s) /\ Ok(s)
  <2>0. Busy(s) /\ net[s].k = "create" /\ \E v : Resume(s, [ui EXCEPT !.open = FALSE, !.v = v, !.loading = TRUE], Send(Rest(s), "list", "created"))
    BY <1>9, Zenon DEF FtCreated
  <2>1. Sets(TRUE, ui.submitting)
    BY <1>1, <2>0 DEF Resume
  <2>2. net' = Send(Rest(s), "list", "created")
    BY <2>0 DEF Resume
  <2>3. Kind("ftlist", "list", "created") = "awaited"
    BY NullAssumption, <2>0 DEF Kind, Marks, Words
  <2>4. Busy(s) /\ Kind("ftlist", net[s].k, net[s].a) = "create"
    BY <1>2, <2>0
  <2>5. Swap("ftlist", net, net', "create", "awaited")
    BY <1>1, <2>2, <2>3, <2>4, Chaining
  <2> QED
    BY <2>1, <2>5 DEF FtListFlags, Swap
<1>10. CASE Busy(s) /\ net[s].k = "create" /\ FtCreated(s) /\ ~Ok(s)
  <2>0. Busy(s) /\ net[s].k = "create" /\ Resume(s, [ui EXCEPT !.submitting = FALSE], Rest(s))
    BY <1>10, Zenon DEF FtCreated
  <2>1. Sets(ui.loading, FALSE)
    BY <1>1, <2>0 DEF Resume
  <2>2. Less("ftlist", net, net', "create")
    BY <1>1, <1>2, <2>0, Ending DEF Resume
  <2> QED
    BY <2>1, <2>2 DEF FtListFlags, Less
<1> QED
  BY <1>4, <1>5, <1>6, <1>7, <1>8, <1>9, <1>10 DEF FtListResume

LEMMA FtJobsFlagPage ==
    ASSUME screen = "ftjobs"
    PROVE  /\ Init => FtListFlags
           /\ FtListFlags /\ [Next]_vars => FtListFlags'
           /\ FtListFlags => SpinnersWaited /\ OneSubmitAtATime
<1>1. ASSUME Init PROVE FtListFlags
  <2> DEFINE none == ""
  <2>1. (\E a \in BOOLEAN : ui = [admin |-> a, rows |-> NoRows, loading |-> TRUE, open |-> FALSE, v |-> none, submitting |-> FALSE])
        /\ net = Send(NoCalls, "list", None)
    BY <1>1, Zenon DEF Init, FtListUi
  <2> HIDE DEF none
  <2>2. DOMAIN ui = {"admin", "rows", "loading", "open", "v", "submitting"} /\ ui.loading = TRUE /\ ui.submitting = FALSE
    BY <2>1
  <2>3. Kind("ftlist", "list", None) = "list"
    BY NullAssumption DEF Kind, Marks
  <2>4. More("ftlist", NoCalls, net, "list")
    BY <2>1, <2>3, OneYet
  <2> QED
    BY <2>2, <2>4, NoneYet DEF FtListFlags, More
<1>2. ASSUME FtListFlags, [Next]_vars PROVE FtListFlags'
  <2>1. CASE \E s \in Slots : Serve(s) \/ Fault(s)
    <3>1. CallsIn(net)
      BY <1>2 DEF FtListFlags
    <3>2. ui' = ui /\ Same("ftlist", net, net')
      BY <2>1, <3>1, ServerFlags
    <3> QED
      BY <1>2, <3>2 DEF FtListFlags, Same
  <2>2. ASSUME NEW s \in Slots, Act \/ Interval \/ Elsewhere \/ Continue(s)
        PROVE  FtListFlags'
    <3>1. FtJobsUser \/ FtDatasetsUser \/ FtModelsUser \/ (Busy(s) /\ FtListResume(s))
      BY <2>2 DEF Act, Interval, Elsewhere, Continue, FtJobsResume, FtDatasetsResume, FtModelsResume
    <3> QED
      BY <1>2, <3>1, FtListFlagStep
  <2>3. CASE UNCHANGED vars
    BY <1>2, <2>3 DEF FtListFlags, vars
  <2> QED
    BY <1>2, <2>1, <2>2, <2>3, SomeSlot DEF Next
<1>3. ASSUME FtListFlags PROVE SpinnersWaited /\ OneSubmitAtATime
  <2>1. /\ Spinners = {<<ui.loading, {"list"}>>, <<ui.submitting, {"create", "list"}>>}
        /\ Submits = {{"create"}}
    BY DEF Spinners, Submits
  <2>2. ui.loading => InFlight({"list"}) # {}
    <3>1. \A k, a : Kind("ftlist", k, a) \in {"list", "awaited"} => k \in {"list"}
      BY NullAssumption DEF Kind, Marks
    <3> QED
      BY <1>3, <3>1, WaitsIsInFlight DEF FtListFlags
  <2>3. ui.submitting => InFlight({"create", "list"}) # {}
    <3>1. \A k, a : Kind("ftlist", k, a) \in {"create", "awaited"} => k \in {"create", "list"}
      BY NullAssumption DEF Kind, Marks
    <3> QED
      BY <1>3, <3>1, WaitsIsInFlight DEF FtListFlags
  <2>4. Cardinality(InFlight({"create"})) <= 1
    <3>1. \A k, a : k \in {"create"} => Kind("ftlist", k, a) \in {"create", "awaited"}
      BY NullAssumption DEF Kind, Marks
    <3> QED
      BY <1>3, <3>1, AloneIsOne DEF FtListFlags
  <2> QED
    BY <2>1, <2>2, <2>3, <2>4 DEF SpinnersWaited, OneSubmitAtATime
<1> QED
  BY <1>1, <1>2, <1>3

LEMMA FtDatasetsFlagPage ==
    ASSUME screen = "ftdatasets"
    PROVE  /\ Init => FtListFlags
           /\ FtListFlags /\ [Next]_vars => FtListFlags'
           /\ FtListFlags => SpinnersWaited /\ OneSubmitAtATime
<1>1. ASSUME Init PROVE FtListFlags
  <2> DEFINE none == ""
  <2>1. (\E a \in BOOLEAN : ui = [admin |-> a, rows |-> NoRows, loading |-> TRUE, open |-> FALSE, v |-> none, submitting |-> FALSE])
        /\ net = Send(NoCalls, "list", None)
    BY <1>1, Zenon DEF Init, FtListUi
  <2> HIDE DEF none
  <2>2. DOMAIN ui = {"admin", "rows", "loading", "open", "v", "submitting"} /\ ui.loading = TRUE /\ ui.submitting = FALSE
    BY <2>1
  <2>3. Kind("ftlist", "list", None) = "list"
    BY NullAssumption DEF Kind, Marks
  <2>4. More("ftlist", NoCalls, net, "list")
    BY <2>1, <2>3, OneYet
  <2> QED
    BY <2>2, <2>4, NoneYet DEF FtListFlags, More
<1>2. ASSUME FtListFlags, [Next]_vars PROVE FtListFlags'
  <2>1. CASE \E s \in Slots : Serve(s) \/ Fault(s)
    <3>1. CallsIn(net)
      BY <1>2 DEF FtListFlags
    <3>2. ui' = ui /\ Same("ftlist", net, net')
      BY <2>1, <3>1, ServerFlags
    <3> QED
      BY <1>2, <3>2 DEF FtListFlags, Same
  <2>2. ASSUME NEW s \in Slots, Act \/ Interval \/ Elsewhere \/ Continue(s)
        PROVE  FtListFlags'
    <3>1. FtJobsUser \/ FtDatasetsUser \/ FtModelsUser \/ (Busy(s) /\ FtListResume(s))
      BY <2>2 DEF Act, Interval, Elsewhere, Continue, FtJobsResume, FtDatasetsResume, FtModelsResume
    <3> QED
      BY <1>2, <3>1, FtListFlagStep
  <2>3. CASE UNCHANGED vars
    BY <1>2, <2>3 DEF FtListFlags, vars
  <2> QED
    BY <1>2, <2>1, <2>2, <2>3, SomeSlot DEF Next
<1>3. ASSUME FtListFlags PROVE SpinnersWaited /\ OneSubmitAtATime
  <2>1. /\ Spinners = {<<ui.loading, {"list"}>>, <<ui.submitting, {"create", "list"}>>}
        /\ Submits = {{"create"}}
    BY DEF Spinners, Submits
  <2>2. ui.loading => InFlight({"list"}) # {}
    <3>1. \A k, a : Kind("ftlist", k, a) \in {"list", "awaited"} => k \in {"list"}
      BY NullAssumption DEF Kind, Marks
    <3> QED
      BY <1>3, <3>1, WaitsIsInFlight DEF FtListFlags
  <2>3. ui.submitting => InFlight({"create", "list"}) # {}
    <3>1. \A k, a : Kind("ftlist", k, a) \in {"create", "awaited"} => k \in {"create", "list"}
      BY NullAssumption DEF Kind, Marks
    <3> QED
      BY <1>3, <3>1, WaitsIsInFlight DEF FtListFlags
  <2>4. Cardinality(InFlight({"create"})) <= 1
    <3>1. \A k, a : k \in {"create"} => Kind("ftlist", k, a) \in {"create", "awaited"}
      BY NullAssumption DEF Kind, Marks
    <3> QED
      BY <1>3, <3>1, AloneIsOne DEF FtListFlags
  <2> QED
    BY <2>1, <2>2, <2>3, <2>4 DEF SpinnersWaited, OneSubmitAtATime
<1> QED
  BY <1>1, <1>2, <1>3

LEMMA FtModelsFlagPage ==
    ASSUME screen = "ftmodels"
    PROVE  /\ Init => FtListFlags
           /\ FtListFlags /\ [Next]_vars => FtListFlags'
           /\ FtListFlags => SpinnersWaited /\ OneSubmitAtATime
<1>1. ASSUME Init PROVE FtListFlags
  <2> DEFINE none == ""
  <2>1. (\E a \in BOOLEAN : ui = [admin |-> a, rows |-> NoRows, loading |-> TRUE, open |-> FALSE, v |-> none, submitting |-> FALSE])
        /\ net = Send(NoCalls, "list", None)
    BY <1>1, Zenon DEF Init, FtListUi
  <2> HIDE DEF none
  <2>2. DOMAIN ui = {"admin", "rows", "loading", "open", "v", "submitting"} /\ ui.loading = TRUE /\ ui.submitting = FALSE
    BY <2>1
  <2>3. Kind("ftlist", "list", None) = "list"
    BY NullAssumption DEF Kind, Marks
  <2>4. More("ftlist", NoCalls, net, "list")
    BY <2>1, <2>3, OneYet
  <2> QED
    BY <2>2, <2>4, NoneYet DEF FtListFlags, More
<1>2. ASSUME FtListFlags, [Next]_vars PROVE FtListFlags'
  <2>1. CASE \E s \in Slots : Serve(s) \/ Fault(s)
    <3>1. CallsIn(net)
      BY <1>2 DEF FtListFlags
    <3>2. ui' = ui /\ Same("ftlist", net, net')
      BY <2>1, <3>1, ServerFlags
    <3> QED
      BY <1>2, <3>2 DEF FtListFlags, Same
  <2>2. ASSUME NEW s \in Slots, Act \/ Interval \/ Elsewhere \/ Continue(s)
        PROVE  FtListFlags'
    <3>1. FtJobsUser \/ FtDatasetsUser \/ FtModelsUser \/ (Busy(s) /\ FtListResume(s))
      BY <2>2 DEF Act, Interval, Elsewhere, Continue, FtJobsResume, FtDatasetsResume, FtModelsResume
    <3> QED
      BY <1>2, <3>1, FtListFlagStep
  <2>3. CASE UNCHANGED vars
    BY <1>2, <2>3 DEF FtListFlags, vars
  <2> QED
    BY <1>2, <2>1, <2>2, <2>3, SomeSlot DEF Next
<1>3. ASSUME FtListFlags PROVE SpinnersWaited /\ OneSubmitAtATime
  <2>1. /\ Spinners = {<<ui.loading, {"list"}>>, <<ui.submitting, {"create", "list"}>>}
        /\ Submits = {{"create"}}
    BY DEF Spinners, Submits
  <2>2. ui.loading => InFlight({"list"}) # {}
    <3>1. \A k, a : Kind("ftlist", k, a) \in {"list", "awaited"} => k \in {"list"}
      BY NullAssumption DEF Kind, Marks
    <3> QED
      BY <1>3, <3>1, WaitsIsInFlight DEF FtListFlags
  <2>3. ui.submitting => InFlight({"create", "list"}) # {}
    <3>1. \A k, a : Kind("ftlist", k, a) \in {"create", "awaited"} => k \in {"create", "list"}
      BY NullAssumption DEF Kind, Marks
    <3> QED
      BY <1>3, <3>1, WaitsIsInFlight DEF FtListFlags
  <2>4. Cardinality(InFlight({"create"})) <= 1
    <3>1. \A k, a : k \in {"create"} => Kind("ftlist", k, a) \in {"create", "awaited"}
      BY NullAssumption DEF Kind, Marks
    <3> QED
      BY <1>3, <3>1, AloneIsOne DEF FtListFlags
  <2> QED
    BY <2>1, <2>2, <2>3, <2>4 DEF SpinnersWaited, OneSubmitAtATime
<1> QED
  BY <1>1, <1>2, <1>3

----------------------------------------------------------------------------
(* A fine-tuning job.                                                      *)

FtJobFlags ==
    /\ CallsIn(net) /\ DOMAIN ui = {"admin", "job", "loading", "left"}
    /\ ui.loading => Waits("ftjob", net, {"list"})

LEMMA FtJobFlagStep ==
    ASSUME FtJobFlags, NEW s \in Slots, FtJobUser \/ FtJobWorld \/ (Busy(s) /\ FtJobResume(s))
    PROVE  FtJobFlags'
<1> DEFINE Sets(v0) == DOMAIN ui' = DOMAIN ui /\ ui'.loading = v0
<1>1. CallsIn(net) /\ DOMAIN ui = {"admin", "job", "loading", "left"}
  BY DEF FtJobFlags
<1>2. \A a : /\ Kind("ftjob", "list", a) = "list"
             /\ Kind("ftjob", "register", a) = "register"
             /\ Kind("ftjob", "cancel", a) = "cancel"
             /\ Kind("ftjob", "delete", a) = "delete"
  BY DEF Kind, Marks
<1>3. CASE FtJobWorld
  <2>1. Sets(ui.loading)
    BY <1>1, <1>3 DEF FtJobWorld, World
  <2>2. net' = net
    BY <1>3 DEF FtJobWorld, World
  <2> QED
    BY <2>1, <2>2 DEF FtJobFlags
<1>4. CASE ui.job = "succeeded" /\ Ask(ui, "register", None)
  <2>1. Sets(ui.loading)
    BY <1>1, <1>4 DEF Ask
  <2>2. More("ftjob", net, net', "register")
    BY <1>1, <1>2, <1>4, Asking DEF Ask
  <2> QED
    BY <2>1, <2>2 DEF FtJobFlags, More
<1>5. CASE ~FtTerminal(ui.job) /\ Ask(ui, "cancel", None)
  <2>1. Sets(ui.loading)
    BY <1>1, <1>5 DEF Ask
  <2>2. More("ftjob", net, net', "cancel")
    BY <1>1, <1>2, <1>5, Asking DEF Ask
  <2> QED
    BY <2>1, <2>2 DEF FtJobFlags, More
<1>6. CASE Ask(ui, "delete", None)
  <2>1. Sets(ui.loading)
    BY <1>1, <1>6 DEF Ask
  <2>2. More("ftjob", net, net', "delete")
    BY <1>1, <1>2, <1>6, Asking DEF Ask
  <2> QED
    BY <2>1, <2>2 DEF FtJobFlags, More
<1>7. CASE Busy(s) /\ net[s].k = "list" /\ FtJobLoaded(s)
  <2>1. Sets(FALSE)
    BY <1>1, <1>7 DEF FtJobLoaded, Resume
  <2>2. Less("ftjob", net, net', "list")
    BY <1>1, <1>2, <1>7, Ending DEF FtJobLoaded, Resume
  <2> QED
    BY <2>1, <2>2 DEF FtJobFlags, Less
<1>8. CASE Busy(s) /\ net[s].k = "cancel" /\ FtJobCanceled(s)
  <2>1. Sets(ui.loading)
    BY <1>1, <1>8 DEF FtJobCanceled, Resume
  <2>2. Less("ftjob", net, net', "cancel")
    BY <1>1, <1>2, <1>8, Ending DEF FtJobCanceled, Resume
  <2> QED
    BY <2>1, <2>2 DEF FtJobFlags, Less
<1>9. CASE Busy(s) /\ net[s].k \in {"delete", "register"} /\ FtJobLeft(s)
  <2>1. Sets(ui.loading)
    BY <1>1, <1>9 DEF FtJobLeft, Resume
  <2>2. \E x \in {"delete", "register"} : Less("ftjob", net, net', x)
    BY <1>1, <1>2, <1>9, Ending DEF FtJobLeft, Resume
  <2> QED
    BY <2>1, <2>2 DEF FtJobFlags, Less
<1> QED
  BY <1>3, <1>4, <1>5, <1>6, <1>7, <1>8, <1>9 DEF FtJobUser, FtJobResume

LEMMA FtJobFlagPage ==
    ASSUME screen = "ftjob"
    PROVE  /\ Init => FtJobFlags
           /\ FtJobFlags /\ [Next]_vars => FtJobFlags'
           /\ FtJobFlags => SpinnersWaited /\ OneSubmitAtATime
<1>1. ASSUME Init PROVE FtJobFlags
  <2>1. (\E a \in BOOLEAN : ui = FtJobUi(a)) /\ net = Send(NoCalls, "list", None)
    BY <1>1, Zenon DEF Init
  <2>2. DOMAIN ui = {"admin", "job", "loading", "left"} /\ ui.loading = TRUE
    BY <2>1 DEF FtJobUi
  <2>3. Kind("ftjob", "list", None) = "list"
    BY DEF Kind, Marks
  <2>4. More("ftjob", NoCalls, net, "list")
    BY <2>1, <2>3, OneYet
  <2> QED
    BY <2>2, <2>4, NoneYet DEF FtJobFlags, More
<1>2. ASSUME FtJobFlags, [Next]_vars PROVE FtJobFlags'
  <2>1. CASE \E s \in Slots : Serve(s) \/ Fault(s)
    <3>1. CallsIn(net)
      BY <1>2 DEF FtJobFlags
    <3>2. ui' = ui /\ Same("ftjob", net, net')
      BY <2>1, <3>1, ServerFlags
    <3> QED
      BY <1>2, <3>2 DEF FtJobFlags, Same
  <2>2. ASSUME NEW s \in Slots, Act \/ Interval \/ Elsewhere \/ Continue(s)
        PROVE  FtJobFlags'
    <3>1. FtJobUser \/ FtJobWorld \/ (Busy(s) /\ FtJobResume(s))
      BY <2>2 DEF Act, Interval, Elsewhere, Continue
    <3> QED
      BY <1>2, <3>1, FtJobFlagStep
  <2>3. CASE UNCHANGED vars
    BY <1>2, <2>3 DEF FtJobFlags, vars
  <2> QED
    BY <1>2, <2>1, <2>2, <2>3, SomeSlot DEF Next
<1>3. ASSUME FtJobFlags PROVE SpinnersWaited /\ OneSubmitAtATime
  <2>1. /\ Spinners = {<<ui.loading, {"list"}>>}
        /\ Submits = {}
    BY DEF Spinners, Submits
  <2>2. ui.loading => InFlight({"list"}) # {}
    <3>1. \A k, a : Kind("ftjob", k, a) \in {"list"} => k \in {"list"}
      BY DEF Kind, Marks
    <3> QED
      BY <1>3, <3>1, WaitsIsInFlight DEF FtJobFlags
  <2> QED
    BY <2>1, <2>2 DEF SpinnersWaited, OneSubmitAtATime
<1> QED
  BY <1>1, <1>2, <1>3

----------------------------------------------------------------------------
(* A fine-tuning dataset.                                                  *)

FtDatasetFlags ==
    /\ CallsIn(net) /\ DOMAIN ui = {"admin", "rows", "count", "loading", "open", "v", "submitting", "build", "eval", "building", "mining"}
    /\ ui.loading => Waits("ftdataset", net, {"load", "list", "awaited", "later", "doc"})
    /\ ui.submitting <=> Waits("ftdataset", net, {"create", "awaited"})
    /\ Alone("ftdataset", net, {"create", "awaited"})
    /\ ui.building <=> Waits("ftdataset", net, {"build", "later"})
    /\ Alone("ftdataset", net, {"build", "later"})
    /\ ui.mining <=> Waits("ftdataset", net, {"mine", "doc"})
    /\ Alone("ftdataset", net, {"mine", "doc"})

LEMMA FtDatasetFlagStep ==
    ASSUME FtDatasetFlags, NEW s \in Slots, FtDatasetUser \/ (Busy(s) /\ FtDatasetResume(s))
    PROVE  FtDatasetFlags'
<1> DEFINE Sets(v0, v1, v2, v3) == DOMAIN ui' = DOMAIN ui /\ ui'.loading = v0 /\ ui'.submitting = v1 /\ ui'.building = v2 /\ ui'.mining = v3
<1>1. CallsIn(net) /\ DOMAIN ui = {"admin", "rows", "count", "loading", "open", "v", "submitting", "build", "eval", "building", "mining"}
  BY DEF FtDatasetFlags
<1>2. \A a : /\ Kind("ftdataset", "create", a) = "create"
             /\ Kind("ftdataset", "build", a) = "build"
             /\ Kind("ftdataset", "mine", a) = "mine"
             /\ Kind("ftdataset", "patch", a) = "patch"
             /\ Kind("ftdataset", "counts", a) = "counts"
             /\ Kind("ftdataset", "evals", a) = "evals"
             /\ Kind("ftdataset", "export", a) = "export"
  BY DEF Kind, Marks
<1>3. \A a : /\ a.done = "create" => Kind("ftdataset", "load", a) = "awaited" /\ Kind("ftdataset", "list", a) = "awaited"
             /\ a.done = "build" => Kind("ftdataset", "load", a) = "later" /\ Kind("ftdataset", "list", a) = "later"
             /\ a.done = "mine" => Kind("ftdataset", "load", a) = "doc" /\ Kind("ftdataset", "list", a) = "doc"
             /\ a.done \notin {"create", "build", "mine"} => Kind("ftdataset", "load", a) = "load" /\ Kind("ftdataset", "list", a) = "list"
  BY DEF Kind, Marks
<1>4. FtDatasetUser => (\E x : User([ui EXCEPT !.open = x]) \/ User([ui EXCEPT !.v = x])) \/ User([ui EXCEPT !.build = FALSE]) \/ User([ui EXCEPT !.eval = TRUE]) \/ FtOpenBuild \/ FtMine \/ FtAddExample \/ FtBuild \/ (\E r : FtDropExample(r)) \/ FtExport
  BY Zenon DEF FtDatasetUser
<1>5. CASE (\E x : User([ui EXCEPT !.open = x]) \/ User([ui EXCEPT !.v = x])) \/ User([ui EXCEPT !.build = FALSE]) \/ User([ui EXCEPT !.eval = TRUE])
  <2>1. Sets(ui.loading, ui.submitting, ui.building, ui.mining)
    BY <1>1, <1>5 DEF User
  <2>2. net' = net
    BY <1>5 DEF User
  <2> QED
    BY <2>1, <2>2 DEF FtDatasetFlags
<1>6. CASE FtOpenBuild
  <2>1. Sets(ui.loading, ui.submitting, ui.building, ui.mining)
    BY <1>1, <1>6 DEF FtOpenBuild, Ask
  <2>2. More("ftdataset", net, net', "evals")
    BY <1>1, <1>2, <1>6, Asking DEF FtOpenBuild, Ask
  <2> QED
    BY <2>1, <2>2 DEF FtDatasetFlags, More
<1>7. CASE FtMine
  <2>1. Sets(ui.loading, ui.submitting, ui.building, TRUE) /\ ~ui.mining
    BY <1>1, <1>7 DEF FtMine, Ask
  <2>2. More("ftdataset", net, net', "mine")
    BY <1>1, <1>2, <1>7, Asking DEF FtMine, Ask
  <2> QED
    BY <2>1, <2>2 DEF FtDatasetFlags, More
<1>8. CASE FtAddExample
  <2>0. ~ui.submitting /\ Ask([ui EXCEPT !.submitting = TRUE], "create", ui.v)
    BY <1>8, Zenon DEF FtAddExample
  <2>1. Sets(ui.loading, TRUE, ui.building, ui.mining) /\ ~ui.submitting
    BY <1>1, <2>0 DEF Ask
  <2>2. More("ftdataset", net, net', "create")
    BY <1>1, <1>2, <2>0, Asking DEF Ask
  <2> QED
    BY <2>1, <2>2 DEF FtDatasetFlags, More
<1>9. CASE FtBuild
  <2>1. Sets(ui.loading, ui.submitting, TRUE, ui.mining) /\ ~ui.building
    BY <1>1, <1>9 DEF FtBuild, Ask
  <2>2. More("ftdataset", net, net', "build")
    BY <1>1, <1>2, <1>9, Asking DEF FtBuild, Ask
  <2> QED
    BY <2>1, <2>2 DEF FtDatasetFlags, More
<1>10. CASE \E r : FtDropExample(r)
  <2>1. Sets(ui.loading, ui.submitting, ui.building, ui.mining)
    BY <1>1, <1>10 DEF FtDropExample, Ask
  <2>2. More("ftdataset", net, net', "patch")
    BY <1>1, <1>2, <1>10, Asking DEF FtDropExample, Ask
  <2> QED
    BY <2>1, <2>2 DEF FtDatasetFlags, More
<1>11. CASE FtExport
  <2>1. Sets(ui.loading, ui.submitting, ui.building, ui.mining)
    BY <1>1, <1>11 DEF FtExport, Ask
  <2>2. More("ftdataset", net, net', "export")
    BY <1>1, <1>2, <1>11, Asking DEF FtExport, Ask
  <2> QED
    BY <2>1, <2>2 DEF FtDatasetFlags, More
<1>12. CASE Busy(s) /\ net[s].k = "patch" /\ FtDropped(s) /\ Ok(s)
  <2>1. Sets(ui.loading, ui.submitting, ui.building, ui.mining)
    BY <1>1, <1>12 DEF FtDropped, Resume
  <2>2. Swap("ftdataset", net, net', "patch", "counts")
    BY <1>1, <1>2, <1>12, Chaining DEF FtDropped, Resume
  <2> QED
    BY <2>1, <2>2 DEF FtDatasetFlags, Swap
<1>13. CASE Busy(s) /\ net[s].k = "patch" /\ FtDropped(s) /\ ~Ok(s)
  <2>1. Sets(ui.loading, ui.submitting, ui.building, ui.mining)
    BY <1>1, <1>13 DEF FtDropped, Resume
  <2>2. Less("ftdataset", net, net', "patch")
    BY <1>1, <1>2, <1>13, Ending DEF FtDropped, Resume
  <2> QED
    BY <2>1, <2>2 DEF FtDatasetFlags, Less
<1>14. CASE Busy(s) /\ net[s].k = "counts" /\ FtCounted(s)
  <2>1. Sets(ui.loading, ui.submitting, ui.building, ui.mining)
    BY <1>1, <1>14 DEF FtCounted, Resume
  <2>2. Less("ftdataset", net, net', "counts")
    BY <1>1, <1>2, <1>14, Ending DEF FtCounted, Resume
  <2> QED
    BY <2>1, <2>2 DEF FtDatasetFlags, Less
<1>15. CASE Busy(s) /\ net[s].k = "evals" /\ FtBuildOpens(s)
  <2>1. Sets(ui.loading, ui.submitting, ui.building, ui.mining)
    BY <1>1, <1>15 DEF FtBuildOpens, Resume
  <2>2. Less("ftdataset", net, net', "evals")
    BY <1>1, <1>2, <1>15, Ending DEF FtBuildOpens, Resume
  <2> QED
    BY <2>1, <2>2 DEF FtDatasetFlags, Less
<1>16. CASE Busy(s) /\ net[s].k = "export" /\ Resume(s, ui, Rest(s))
  <2>1. Sets(ui.loading, ui.submitting, ui.building, ui.mining)
    BY <1>1, <1>16 DEF Resume
  <2>2. Less("ftdataset", net, net', "export")
    BY <1>1, <1>2, <1>16, Ending DEF Resume
  <2> QED
    BY <2>1, <2>2 DEF FtDatasetFlags, Less
<1>17. CASE Busy(s) /\ net[s].k = "load" /\ FtGot(s) /\ Ok(s) /\ net[s].a.done = "create"
  <2>1. Sets(ui.loading, ui.submitting, ui.building, ui.mining)
    BY <1>1, <1>17 DEF FtGot, Resume
  <2>2. net' = Send(Rest(s), "list", [done |-> net[s].a.done, n |-> net[s].r])
    BY <1>17 DEF FtGot, Resume
  <2>3. Kind("ftdataset", "list", [done |-> net[s].a.done, n |-> net[s].r]) = "awaited"
    BY <1>17 DEF Kind, Marks
  <2>4. Busy(s) /\ Kind("ftdataset", net[s].k, net[s].a) = "awaited"
    BY <1>3, <1>17
  <2>5. Swap("ftdataset", net, net', "awaited", "awaited")
    BY <1>1, <2>2, <2>3, <2>4, Chaining
  <2> QED
    BY <2>1, <2>5 DEF FtDatasetFlags, Swap
<1>18. CASE Busy(s) /\ net[s].k = "load" /\ FtGot(s) /\ ~Ok(s) /\ net[s].a.done = "create"
  <2>1. Sets(FALSE, (ui.submitting /\ net[s].a.done # "create"), (ui.building /\ net[s].a.done # "build"), (ui.mining /\ net[s].a.done # "mine")) /\ net[s].a.done = "create"
    BY <1>1, <1>18 DEF FtGot, Resume, FtLowered
  <2>2. Less("ftdataset", net, net', "awaited")
    BY <1>1, <1>3, <1>18, Ending DEF FtGot, Resume, FtLowered
  <2> QED
    BY <2>1, <2>2 DEF FtDatasetFlags, Less
<1>19. CASE Busy(s) /\ net[s].k = "list" /\ FtShown(s) /\ net[s].a.done = "create"
  <2>1. Sets(FALSE, (ui.submitting /\ net[s].a.done # "create"), (ui.building /\ net[s].a.done # "build"), (ui.mining /\ net[s].a.done # "mine")) /\ net[s].a.done = "create"
    BY <1>1, <1>19 DEF FtShown, Resume, FtLowered
  <2>2. Less("ftdataset", net, net', "awaited")
    BY <1>1, <1>3, <1>19, Ending DEF FtShown, Resume, FtLowered
  <2> QED
    BY <2>1, <2>2 DEF FtDatasetFlags, Less
<1>20. CASE Busy(s) /\ net[s].k = "load" /\ FtGot(s) /\ Ok(s) /\ net[s].a.done = "build"
  <2>1. Sets(ui.loading, ui.submitting, ui.building, ui.mining)
    BY <1>1, <1>20 DEF FtGot, Resume
  <2>2. net' = Send(Rest(s), "list", [done |-> net[s].a.done, n |-> net[s].r])
    BY <1>20 DEF FtGot, Resume
  <2>3. Kind("ftdataset", "list", [done |-> net[s].a.done, n |-> net[s].r]) = "later"
    BY <1>20 DEF Kind, Marks
  <2>4. Busy(s) /\ Kind("ftdataset", net[s].k, net[s].a) = "later"
    BY <1>3, <1>20
  <2>5. Swap("ftdataset", net, net', "later", "later")
    BY <1>1, <2>2, <2>3, <2>4, Chaining
  <2> QED
    BY <2>1, <2>5 DEF FtDatasetFlags, Swap
<1>21. CASE Busy(s) /\ net[s].k = "load" /\ FtGot(s) /\ ~Ok(s) /\ net[s].a.done = "build"
  <2>1. Sets(FALSE, (ui.submitting /\ net[s].a.done # "create"), (ui.building /\ net[s].a.done # "build"), (ui.mining /\ net[s].a.done # "mine")) /\ net[s].a.done = "build"
    BY <1>1, <1>21 DEF FtGot, Resume, FtLowered
  <2>2. Less("ftdataset", net, net', "later")
    BY <1>1, <1>3, <1>21, Ending DEF FtGot, Resume, FtLowered
  <2> QED
    BY <2>1, <2>2 DEF FtDatasetFlags, Less
<1>22. CASE Busy(s) /\ net[s].k = "list" /\ FtShown(s) /\ net[s].a.done = "build"
  <2>1. Sets(FALSE, (ui.submitting /\ net[s].a.done # "create"), (ui.building /\ net[s].a.done # "build"), (ui.mining /\ net[s].a.done # "mine")) /\ net[s].a.done = "build"
    BY <1>1, <1>22 DEF FtShown, Resume, FtLowered
  <2>2. Less("ftdataset", net, net', "later")
    BY <1>1, <1>3, <1>22, Ending DEF FtShown, Resume, FtLowered
  <2> QED
    BY <2>1, <2>2 DEF FtDatasetFlags, Less
<1>23. CASE Busy(s) /\ net[s].k = "load" /\ FtGot(s) /\ Ok(s) /\ net[s].a.done = "mine"
  <2>1. Sets(ui.loading, ui.submitting, ui.building, ui.mining)
    BY <1>1, <1>23 DEF FtGot, Resume
  <2>2. net' = Send(Rest(s), "list", [done |-> net[s].a.done, n |-> net[s].r])
    BY <1>23 DEF FtGot, Resume
  <2>3. Kind("ftdataset", "list", [done |-> net[s].a.done, n |-> net[s].r]) = "doc"
    BY <1>23 DEF Kind, Marks
  <2>4. Busy(s) /\ Kind("ftdataset", net[s].k, net[s].a) = "doc"
    BY <1>3, <1>23
  <2>5. Swap("ftdataset", net, net', "doc", "doc")
    BY <1>1, <2>2, <2>3, <2>4, Chaining
  <2> QED
    BY <2>1, <2>5 DEF FtDatasetFlags, Swap
<1>24. CASE Busy(s) /\ net[s].k = "load" /\ FtGot(s) /\ ~Ok(s) /\ net[s].a.done = "mine"
  <2>1. Sets(FALSE, (ui.submitting /\ net[s].a.done # "create"), (ui.building /\ net[s].a.done # "build"), (ui.mining /\ net[s].a.done # "mine")) /\ net[s].a.done = "mine"
    BY <1>1, <1>24 DEF FtGot, Resume, FtLowered
  <2>2. Less("ftdataset", net, net', "doc")
    BY <1>1, <1>3, <1>24, Ending DEF FtGot, Resume, FtLowered
  <2> QED
    BY <2>1, <2>2 DEF FtDatasetFlags, Less
<1>25. CASE Busy(s) /\ net[s].k = "list" /\ FtShown(s) /\ net[s].a.done = "mine"
  <2>1. Sets(FALSE, (ui.submitting /\ net[s].a.done # "create"), (ui.building /\ net[s].a.done # "build"), (ui.mining /\ net[s].a.done # "mine")) /\ net[s].a.done = "mine"
    BY <1>1, <1>25 DEF FtShown, Resume, FtLowered
  <2>2. Less("ftdataset", net, net', "doc")
    BY <1>1, <1>3, <1>25, Ending DEF FtShown, Resume, FtLowered
  <2> QED
    BY <2>1, <2>2 DEF FtDatasetFlags, Less
<1>26. CASE Busy(s) /\ net[s].k = "load" /\ FtGot(s) /\ Ok(s) /\ net[s].a.done \notin {"create", "build", "mine"}
  <2>1. Sets(ui.loading, ui.submitting, ui.building, ui.mining)
    BY <1>1, <1>26 DEF FtGot, Resume
  <2>2. net' = Send(Rest(s), "list", [done |-> net[s].a.done, n |-> net[s].r])
    BY <1>26 DEF FtGot, Resume
  <2>3. Kind("ftdataset", "list", [done |-> net[s].a.done, n |-> net[s].r]) = "list"
    BY <1>26 DEF Kind, Marks
  <2>4. Busy(s) /\ Kind("ftdataset", net[s].k, net[s].a) = "load"
    BY <1>3, <1>26
  <2>5. Swap("ftdataset", net, net', "load", "list")
    BY <1>1, <2>2, <2>3, <2>4, Chaining
  <2> QED
    BY <2>1, <2>5 DEF FtDatasetFlags, Swap
<1>27. CASE Busy(s) /\ net[s].k = "load" /\ FtGot(s) /\ ~Ok(s) /\ net[s].a.done \notin {"create", "build", "mine"}
  <2>1. Sets(FALSE, (ui.submitting /\ net[s].a.done # "create"), (ui.building /\ net[s].a.done # "build"), (ui.mining /\ net[s].a.done # "mine")) /\ net[s].a.done \notin {"create", "build", "mine"}
    BY <1>1, <1>27 DEF FtGot, Resume, FtLowered
  <2>2. Less("ftdataset", net, net', "load")
    BY <1>1, <1>3, <1>27, Ending DEF FtGot, Resume, FtLowered
  <2> QED
    BY <2>1, <2>2 DEF FtDatasetFlags, Less
<1>28. CASE Busy(s) /\ net[s].k = "list" /\ FtShown(s) /\ net[s].a.done \notin {"create", "build", "mine"}
  <2>1. Sets(FALSE, (ui.submitting /\ net[s].a.done # "create"), (ui.building /\ net[s].a.done # "build"), (ui.mining /\ net[s].a.done # "mine")) /\ net[s].a.done \notin {"create", "build", "mine"}
    BY <1>1, <1>28 DEF FtShown, Resume, FtLowered
  <2>2. Less("ftdataset", net, net', "list")
    BY <1>1, <1>3, <1>28, Ending DEF FtShown, Resume, FtLowered
  <2> QED
    BY <2>1, <2>2 DEF FtDatasetFlags, Less
<1>29. CASE Busy(s) /\ net[s].k = "create" /\ FtDone(s) /\ Ok(s)
  <2>0. Busy(s) /\ net[s].k = "create" /\ \E v : Resume(s, [[ui EXCEPT !.v = v, !.open = FALSE] EXCEPT !.loading = TRUE], Send(Rest(s), "load", [done |-> "create", n |-> 0]))
    BY <1>29, Zenon DEF FtDone, FtReload
  <2>1. Sets(TRUE, ui.submitting, ui.building, ui.mining)
    BY <1>1, <2>0 DEF Resume
  <2>2. net' = Send(Rest(s), "load", [done |-> "create", n |-> 0])
    BY <2>0 DEF Resume
  <2>3. Kind("ftdataset", "load", [done |-> "create", n |-> 0]) = "awaited"
    BY <2>0 DEF Kind, Marks
  <2>4. Busy(s) /\ Kind("ftdataset", net[s].k, net[s].a) = "create"
    BY <1>2, <2>0
  <2>5. Swap("ftdataset", net, net', "create", "awaited")
    BY <1>1, <2>2, <2>3, <2>4, Chaining
  <2> QED
    BY <2>1, <2>5 DEF FtDatasetFlags, Swap
<1>30. CASE Busy(s) /\ net[s].k = "create" /\ FtDone(s) /\ ~Ok(s)
  <2>0. Busy(s) /\ net[s].k = "create" /\ Resume(s, FtLowered(ui, "create"), Rest(s))
    BY <1>30, Zenon DEF FtDone, FtReload
  <2>1. Sets(ui.loading, (ui.submitting /\ "create" # "create"), (ui.building /\ "create" # "build"), (ui.mining /\ "create" # "mine"))
    BY <1>1, <2>0 DEF Resume, FtLowered
  <2>2. Less("ftdataset", net, net', "create")
    BY <1>1, <1>2, <2>0, Ending DEF Resume, FtLowered
  <2> QED
    BY <2>1, <2>2 DEF FtDatasetFlags, Less
<1>31. CASE Busy(s) /\ net[s].k = "build" /\ FtDone(s) /\ Ok(s)
  <2>0. Busy(s) /\ net[s].k = "build" /\ Resume(s, [[ui EXCEPT !.build = FALSE] EXCEPT !.loading = TRUE], Send(Rest(s), "load", [done |-> "build", n |-> 0]))
    BY <1>31, Zenon DEF FtDone, FtReload
  <2>1. Sets(TRUE, ui.submitting, ui.building, ui.mining)
    BY <1>1, <2>0 DEF Resume
  <2>2. net' = Send(Rest(s), "load", [done |-> "build", n |-> 0])
    BY <2>0 DEF Resume
  <2>3. Kind("ftdataset", "load", [done |-> "build", n |-> 0]) = "later"
    BY <2>0 DEF Kind, Marks
  <2>4. Busy(s) /\ Kind("ftdataset", net[s].k, net[s].a) = "build"
    BY <1>2, <2>0
  <2>5. Swap("ftdataset", net, net', "build", "later")
    BY <1>1, <2>2, <2>3, <2>4, Chaining
  <2> QED
    BY <2>1, <2>5 DEF FtDatasetFlags, Swap
<1>32. CASE Busy(s) /\ net[s].k = "build" /\ FtDone(s) /\ ~Ok(s)
  <2>0. Busy(s) /\ net[s].k = "build" /\ Resume(s, FtLowered(ui, "build"), Rest(s))
    BY <1>32, Zenon DEF FtDone, FtReload
  <2>1. Sets(ui.loading, (ui.submitting /\ "build" # "create"), (ui.building /\ "build" # "build"), (ui.mining /\ "build" # "mine"))
    BY <1>1, <2>0 DEF Resume, FtLowered
  <2>2. Less("ftdataset", net, net', "build")
    BY <1>1, <1>2, <2>0, Ending DEF Resume, FtLowered
  <2> QED
    BY <2>1, <2>2 DEF FtDatasetFlags, Less
<1>33. CASE Busy(s) /\ net[s].k = "mine" /\ FtDone(s) /\ Ok(s)
  <2>0. Busy(s) /\ net[s].k = "mine" /\ Resume(s, [ui EXCEPT !.loading = TRUE], Send(Rest(s), "load", [done |-> "mine", n |-> 0]))
    BY <1>33, Zenon DEF FtDone, FtReload
  <2>1. Sets(TRUE, ui.submitting, ui.building, ui.mining)
    BY <1>1, <2>0 DEF Resume
  <2>2. net' = Send(Rest(s), "load", [done |-> "mine", n |-> 0])
    BY <2>0 DEF Resume
  <2>3. Kind("ftdataset", "load", [done |-> "mine", n |-> 0]) = "doc"
    BY <2>0 DEF Kind, Marks
  <2>4. Busy(s) /\ Kind("ftdataset", net[s].k, net[s].a) = "mine"
    BY <1>2, <2>0
  <2>5. Swap("ftdataset", net, net', "mine", "doc")
    BY <1>1, <2>2, <2>3, <2>4, Chaining
  <2> QED
    BY <2>1, <2>5 DEF FtDatasetFlags, Swap
<1>34. CASE Busy(s) /\ net[s].k = "mine" /\ FtDone(s) /\ ~Ok(s)
  <2>0. Busy(s) /\ net[s].k = "mine" /\ Resume(s, FtLowered(ui, "mine"), Rest(s))
    BY <1>34, Zenon DEF FtDone, FtReload
  <2>1. Sets(ui.loading, (ui.submitting /\ "mine" # "create"), (ui.building /\ "mine" # "build"), (ui.mining /\ "mine" # "mine"))
    BY <1>1, <2>0 DEF Resume, FtLowered
  <2>2. Less("ftdataset", net, net', "mine")
    BY <1>1, <1>2, <2>0, Ending DEF Resume, FtLowered
  <2> QED
    BY <2>1, <2>2 DEF FtDatasetFlags, Less
<1> QED
  BY <1>4, <1>5, <1>6, <1>7, <1>8, <1>9, <1>10, <1>11, <1>12, <1>13, <1>14, <1>15, <1>16, <1>17, <1>18, <1>19,
    <1>20, <1>21, <1>22, <1>23, <1>24, <1>25, <1>26, <1>27, <1>28, <1>29, <1>30, <1>31, <1>32, <1>33, <1>34
    DEF FtDatasetResume, FtGot, FtShown

LEMMA FtDatasetFlagPage ==
    ASSUME screen = "ftdataset"
    PROVE  /\ Init => FtDatasetFlags
           /\ FtDatasetFlags /\ [Next]_vars => FtDatasetFlags'
           /\ FtDatasetFlags => SpinnersWaited /\ OneSubmitAtATime
<1>1. ASSUME Init PROVE FtDatasetFlags
  <2> DEFINE none == ""
  <2>1. /\ \E a \in BOOLEAN : ui = [admin |-> a, rows |-> NoRows, count |-> 0, loading |-> TRUE, open |-> FALSE, v |-> none,
                                    submitting |-> FALSE, build |-> FALSE, eval |-> FALSE, building |-> FALSE, mining |-> FALSE]
        /\ net = Send(NoCalls, "load", [done |-> none, n |-> 0])
    BY <1>1, Zenon DEF Init, FtDatasetUi
  <2>2. none \notin {"create", "build", "mine"}
    BY Zenon
  <2> HIDE DEF none
  <2>3. /\ DOMAIN ui = {"admin", "rows", "count", "loading", "open", "v", "submitting", "build", "eval", "building", "mining"}
        /\ ui.submitting = FALSE /\ ui.building = FALSE /\ ui.mining = FALSE
    BY <2>1
  <2>4. Kind("ftdataset", "load", [done |-> none, n |-> 0]) = "load"
    BY <2>2 DEF Kind, Marks
  <2>5. More("ftdataset", NoCalls, net, "load")
    BY <2>1, <2>4, OneYet
  <2> QED
    BY <2>3, <2>5, NoneYet DEF FtDatasetFlags, More
<1>2. ASSUME FtDatasetFlags, [Next]_vars PROVE FtDatasetFlags'
  <2>1. CASE \E s \in Slots : Serve(s) \/ Fault(s)
    <3>1. CallsIn(net)
      BY <1>2 DEF FtDatasetFlags
    <3>2. ui' = ui /\ Same("ftdataset", net, net')
      BY <2>1, <3>1, ServerFlags
    <3> QED
      BY <1>2, <3>2 DEF FtDatasetFlags, Same
  <2>2. ASSUME NEW s \in Slots, Act \/ Interval \/ Elsewhere \/ Continue(s)
        PROVE  FtDatasetFlags'
    <3>1. FtDatasetUser \/ (Busy(s) /\ FtDatasetResume(s))
      BY <2>2 DEF Act, Interval, Elsewhere, Continue
    <3> QED
      BY <1>2, <3>1, FtDatasetFlagStep
  <2>3. CASE UNCHANGED vars
    BY <1>2, <2>3 DEF FtDatasetFlags, vars
  <2> QED
    BY <1>2, <2>1, <2>2, <2>3, SomeSlot DEF Next
<1>3. ASSUME FtDatasetFlags PROVE SpinnersWaited /\ OneSubmitAtATime
  <2>1. /\ Spinners = {<<ui.loading, {"load", "list"}>>,
                        <<ui.submitting, {"create", "load", "list"}>>,
                        <<ui.building, {"build", "load", "list"}>>,
                        <<ui.mining, {"mine", "load", "list"}>>}
        /\ Submits = {{"create"}, {"build"}, {"mine"}}
    BY DEF Spinners, Submits
  <2>2. ui.loading => InFlight({"load", "list"}) # {}
    <3>1. \A k, a : Kind("ftdataset", k, a) \in {"load", "list", "awaited", "later", "doc"} => k \in {"load", "list"}
      BY DEF Kind, Marks
    <3> QED
      BY <1>3, <3>1, WaitsIsInFlight DEF FtDatasetFlags
  <2>3. ui.submitting => InFlight({"create", "load", "list"}) # {}
    <3>1. \A k, a : Kind("ftdataset", k, a) \in {"create", "awaited"} => k \in {"create", "load", "list"}
      BY DEF Kind, Marks
    <3> QED
      BY <1>3, <3>1, WaitsIsInFlight DEF FtDatasetFlags
  <2>4. ui.building => InFlight({"build", "load", "list"}) # {}
    <3>1. \A k, a : Kind("ftdataset", k, a) \in {"build", "later"} => k \in {"build", "load", "list"}
      BY DEF Kind, Marks
    <3> QED
      BY <1>3, <3>1, WaitsIsInFlight DEF FtDatasetFlags
  <2>5. ui.mining => InFlight({"mine", "load", "list"}) # {}
    <3>1. \A k, a : Kind("ftdataset", k, a) \in {"mine", "doc"} => k \in {"mine", "load", "list"}
      BY DEF Kind, Marks
    <3> QED
      BY <1>3, <3>1, WaitsIsInFlight DEF FtDatasetFlags
  <2>6. Cardinality(InFlight({"create"})) <= 1
    <3>1. \A k, a : k \in {"create"} => Kind("ftdataset", k, a) \in {"create", "awaited"}
      BY DEF Kind, Marks
    <3> QED
      BY <1>3, <3>1, AloneIsOne DEF FtDatasetFlags
  <2>7. Cardinality(InFlight({"build"})) <= 1
    <3>1. \A k, a : k \in {"build"} => Kind("ftdataset", k, a) \in {"build", "later"}
      BY DEF Kind, Marks
    <3> QED
      BY <1>3, <3>1, AloneIsOne DEF FtDatasetFlags
  <2>8. Cardinality(InFlight({"mine"})) <= 1
    <3>1. \A k, a : k \in {"mine"} => Kind("ftdataset", k, a) \in {"mine", "doc"}
      BY DEF Kind, Marks
    <3> QED
      BY <1>3, <3>1, AloneIsOne DEF FtDatasetFlags
  <2> QED
    BY <2>1, <2>2, <2>3, <2>4, <2>5, <2>6, <2>7, <2>8 DEF SpinnersWaited, OneSubmitAtATime
<1> QED
  BY <1>1, <1>2, <1>3

----------------------------------------------------------------------------
(* A fine-tuned model.                                                     *)

FtModelFlags ==
    /\ CallsIn(net) /\ DOMAIN ui = {"admin", "model", "form", "loading", "saving", "left"}
    /\ ui.loading => Waits("ftmodel", net, {"list"})
    /\ ui.saving <=> Waits("ftmodel", net, {"save"})
    /\ Alone("ftmodel", net, {"save"})

LEMMA FtModelFlagStep ==
    ASSUME FtModelFlags, NEW s \in Slots, FtModelUser \/ (Busy(s) /\ FtModelResume(s))
    PROVE  FtModelFlags'
<1> DEFINE Sets(v0, v1) == DOMAIN ui' = DOMAIN ui /\ ui'.loading = v0 /\ ui'.saving = v1
<1>1. CallsIn(net) /\ DOMAIN ui = {"admin", "model", "form", "loading", "saving", "left"}
  BY DEF FtModelFlags
<1>2. \A a : /\ Kind("ftmodel", "list", a) = "list"
             /\ Kind("ftmodel", "save", a) = "save"
             /\ Kind("ftmodel", "delete", a) = "delete"
  BY DEF Kind, Marks
<1>3. CASE \E v \in Typed : User([ui EXCEPT !.form = v])
  <2>1. Sets(ui.loading, ui.saving)
    BY <1>1, <1>3 DEF User
  <2>2. net' = net
    BY <1>3 DEF User
  <2> QED
    BY <2>1, <2>2 DEF FtModelFlags
<1>4. CASE ~ui.saving /\ Ask([ui EXCEPT !.saving = TRUE], "save", ui.form)
  <2>1. Sets(ui.loading, TRUE) /\ ~ui.saving
    BY <1>1, <1>4 DEF Ask
  <2>2. More("ftmodel", net, net', "save")
    BY <1>1, <1>2, <1>4, Asking DEF Ask
  <2> QED
    BY <2>1, <2>2 DEF FtModelFlags, More
<1>5. CASE Ask(ui, "delete", None)
  <2>1. Sets(ui.loading, ui.saving)
    BY <1>1, <1>5 DEF Ask
  <2>2. More("ftmodel", net, net', "delete")
    BY <1>1, <1>2, <1>5, Asking DEF Ask
  <2> QED
    BY <2>1, <2>2 DEF FtModelFlags, More
<1>6. CASE Busy(s) /\ net[s].k = "list" /\ FtModelLoaded(s)
  <2>1. Sets(FALSE, ui.saving)
    BY <1>1, <1>6 DEF FtModelLoaded, Resume
  <2>2. Less("ftmodel", net, net', "list")
    BY <1>1, <1>2, <1>6, Ending DEF FtModelLoaded, Resume
  <2> QED
    BY <2>1, <2>2 DEF FtModelFlags, Less
<1>7. CASE Busy(s) /\ net[s].k = "save" /\ FtModelSaved(s)
  <2>1. Sets(ui.loading, FALSE)
    BY <1>1, <1>7 DEF FtModelSaved, Resume
  <2>2. Less("ftmodel", net, net', "save")
    BY <1>1, <1>2, <1>7, Ending DEF FtModelSaved, Resume
  <2> QED
    BY <2>1, <2>2 DEF FtModelFlags, Less
<1>8. CASE Busy(s) /\ net[s].k = "delete" /\ FtJobLeft(s)
  <2>1. Sets(ui.loading, ui.saving)
    BY <1>1, <1>8 DEF FtJobLeft, Resume
  <2>2. Less("ftmodel", net, net', "delete")
    BY <1>1, <1>2, <1>8, Ending DEF FtJobLeft, Resume
  <2> QED
    BY <2>1, <2>2 DEF FtModelFlags, Less
<1> QED
  BY <1>3, <1>4, <1>5, <1>6, <1>7, <1>8 DEF FtModelUser, FtModelResume

LEMMA FtModelFlagPage ==
    ASSUME screen = "ftmodel"
    PROVE  /\ Init => FtModelFlags
           /\ FtModelFlags /\ [Next]_vars => FtModelFlags'
           /\ FtModelFlags => SpinnersWaited /\ OneSubmitAtATime
<1>1. ASSUME Init PROVE FtModelFlags
  <2> DEFINE none == ""
  <2>1. (\E a \in BOOLEAN : ui = [admin |-> a, model |-> None, form |-> none, loading |-> TRUE, saving |-> FALSE, left |-> FALSE])
        /\ net = Send(NoCalls, "list", None)
    BY <1>1, Zenon DEF Init, FtModelUi
  <2> HIDE DEF none
  <2>2. DOMAIN ui = {"admin", "model", "form", "loading", "saving", "left"} /\ ui.loading = TRUE /\ ui.saving = FALSE
    BY <2>1
  <2>3. Kind("ftmodel", "list", None) = "list"
    BY DEF Kind, Marks
  <2>4. More("ftmodel", NoCalls, net, "list")
    BY <2>1, <2>3, OneYet
  <2> QED
    BY <2>2, <2>4, NoneYet DEF FtModelFlags, More
<1>2. ASSUME FtModelFlags, [Next]_vars PROVE FtModelFlags'
  <2>1. CASE \E s \in Slots : Serve(s) \/ Fault(s)
    <3>1. CallsIn(net)
      BY <1>2 DEF FtModelFlags
    <3>2. ui' = ui /\ Same("ftmodel", net, net')
      BY <2>1, <3>1, ServerFlags
    <3> QED
      BY <1>2, <3>2 DEF FtModelFlags, Same
  <2>2. ASSUME NEW s \in Slots, Act \/ Interval \/ Elsewhere \/ Continue(s)
        PROVE  FtModelFlags'
    <3>1. FtModelUser \/ (Busy(s) /\ FtModelResume(s))
      BY <2>2 DEF Act, Interval, Elsewhere, Continue
    <3> QED
      BY <1>2, <3>1, FtModelFlagStep
  <2>3. CASE UNCHANGED vars
    BY <1>2, <2>3 DEF FtModelFlags, vars
  <2> QED
    BY <1>2, <2>1, <2>2, <2>3, SomeSlot DEF Next
<1>3. ASSUME FtModelFlags PROVE SpinnersWaited /\ OneSubmitAtATime
  <2>1. /\ Spinners = {<<ui.loading, {"list"}>>, <<ui.saving, {"save"}>>}
        /\ Submits = {{"save"}}
    BY DEF Spinners, Submits
  <2>2. ui.loading => InFlight({"list"}) # {}
    <3>1. \A k, a : Kind("ftmodel", k, a) \in {"list"} => k \in {"list"}
      BY DEF Kind, Marks
    <3> QED
      BY <1>3, <3>1, WaitsIsInFlight DEF FtModelFlags
  <2>3. ui.saving => InFlight({"save"}) # {}
    <3>1. \A k, a : Kind("ftmodel", k, a) \in {"save"} => k \in {"save"}
      BY DEF Kind, Marks
    <3> QED
      BY <1>3, <3>1, WaitsIsInFlight DEF FtModelFlags
  <2>4. Cardinality(InFlight({"save"})) <= 1
    <3>1. \A k, a : k \in {"save"} => Kind("ftmodel", k, a) \in {"save"}
      BY DEF Kind, Marks
    <3> QED
      BY <1>3, <3>1, AloneIsOne DEF FtModelFlags
  <2> QED
    BY <2>1, <2>2, <2>3, <2>4 DEF SpinnersWaited, OneSubmitAtATime
<1> QED
  BY <1>1, <1>2, <1>3

----------------------------------------------------------------------------
(* Labelling of search results.                                            *)

FtLabelFlags ==
    /\ CallsIn(net) /\ DOMAIN ui = {"admin", "lists", "col", "set", "query", "of", "searching", "pos", "neg", "saving"}
    /\ ui.searching <=> Waits("ftlabeling", net, {"search"})
    /\ Alone("ftlabeling", net, {"search"})
    /\ ui.saving <=> Waits("ftlabeling", net, {"save"})
    /\ Alone("ftlabeling", net, {"save"})

LEMMA FtLabelFlagStep ==
    ASSUME FtLabelFlags, NEW s \in Slots, FtLabelUser \/ (Busy(s) /\ FtLabelResume(s))
    PROVE  FtLabelFlags'
<1> DEFINE Sets(v0, v1) == DOMAIN ui' = DOMAIN ui /\ ui'.searching = v0 /\ ui'.saving = v1
<1>1. CallsIn(net) /\ DOMAIN ui = {"admin", "lists", "col", "set", "query", "of", "searching", "pos", "neg", "saving"}
  BY DEF FtLabelFlags
<1>2. \A a : /\ Kind("ftlabeling", "lists", a) = "lists"
             /\ Kind("ftlabeling", "search", a) = "search"
             /\ Kind("ftlabeling", "save", a) = "save"
  BY DEF Kind, Marks
<1>3. FtLabelUser => (\E x : User([ui EXCEPT !.col = x]) \/ User([ui EXCEPT !.set = x]) \/ User([ui EXCEPT !.query = x]) \/ MarkPositive(x) \/ ToggleNegative(x)) \/ OnSearch \/ OnSave
  BY Zenon DEF FtLabelUser
<1>4. CASE \E x : User([ui EXCEPT !.col = x]) \/ User([ui EXCEPT !.set = x]) \/ User([ui EXCEPT !.query = x]) \/ MarkPositive(x) \/ ToggleNegative(x)
  <2>1. Sets(ui.searching, ui.saving)
    BY <1>1, <1>4 DEF User, MarkPositive, ToggleNegative
  <2>2. net' = net
    BY <1>4 DEF User, MarkPositive, ToggleNegative
  <2> QED
    BY <2>1, <2>2 DEF FtLabelFlags
<1>5. CASE OnSearch
  <2>0. ~ui.searching /\ Ask([ui EXCEPT !.searching = TRUE, !.pos = None, !.neg = {}], "search", ui.query)
    BY <1>5, Zenon DEF OnSearch
  <2>1. Sets(TRUE, ui.saving) /\ ~ui.searching
    BY <1>1, <2>0 DEF Ask
  <2>2. More("ftlabeling", net, net', "search")
    BY <1>1, <1>2, <2>0, Asking DEF Ask
  <2> QED
    BY <2>1, <2>2 DEF FtLabelFlags, More
<1>6. CASE OnSave
  <2>1. Sets(ui.searching, TRUE) /\ ~ui.saving
    BY <1>1, <1>6 DEF OnSave, Ask
  <2>2. More("ftlabeling", net, net', "save")
    BY <1>1, <1>2, <1>6, Asking DEF OnSave, Ask
  <2> QED
    BY <2>1, <2>2 DEF FtLabelFlags, More
<1>7. CASE Busy(s) /\ net[s].k = "lists" /\ FtLabelLists(s)
  <2>1. Sets(ui.searching, ui.saving)
    BY <1>1, <1>7 DEF FtLabelLists, Resume
  <2>2. Less("ftlabeling", net, net', "lists")
    BY <1>1, <1>2, <1>7, Ending DEF FtLabelLists, Resume
  <2> QED
    BY <2>1, <2>2 DEF FtLabelFlags, Less
<1>8. CASE Busy(s) /\ net[s].k = "search" /\ FtLabelSearched(s)
  <2>1. Sets(FALSE, ui.saving)
    BY <1>1, <1>8 DEF FtLabelSearched, Resume
  <2>2. Less("ftlabeling", net, net', "search")
    BY <1>1, <1>2, <1>8, Ending DEF FtLabelSearched, Resume
  <2> QED
    BY <2>1, <2>2 DEF FtLabelFlags, Less
<1>9. CASE Busy(s) /\ net[s].k = "save" /\ FtLabelSaved(s)
  <2>1. Sets(ui.searching, FALSE)
    BY <1>1, <1>9 DEF FtLabelSaved, Resume
  <2>2. Less("ftlabeling", net, net', "save")
    BY <1>1, <1>2, <1>9, Ending DEF FtLabelSaved, Resume
  <2> QED
    BY <2>1, <2>2 DEF FtLabelFlags, Less
<1> QED
  BY <1>3, <1>4, <1>5, <1>6, <1>7, <1>8, <1>9 DEF FtLabelResume

LEMMA FtLabelFlagPage ==
    ASSUME screen = "ftlabeling"
    PROVE  /\ Init => FtLabelFlags
           /\ FtLabelFlags /\ [Next]_vars => FtLabelFlags'
           /\ FtLabelFlags => SpinnersWaited /\ OneSubmitAtATime
<1>1. ASSUME Init PROVE FtLabelFlags
  <2> DEFINE none == ""
  <2>1. (\E a \in BOOLEAN : ui = [admin |-> a, lists |-> FALSE, col |-> FALSE, set |-> FALSE, query |-> none, of |-> none, searching |-> FALSE, pos |-> None, neg |-> {}, saving |-> FALSE])
        /\ net = Send(NoCalls, "lists", None)
    BY <1>1, Zenon DEF Init, FtLabelUi
  <2> HIDE DEF none
  <2>2. DOMAIN ui = {"admin", "lists", "col", "set", "query", "of", "searching", "pos", "neg", "saving"} /\ ui.searching = FALSE /\ ui.saving = FALSE
    BY <2>1
  <2>3. Kind("ftlabeling", "lists", None) = "lists"
    BY DEF Kind, Marks
  <2>4. More("ftlabeling", NoCalls, net, "lists")
    BY <2>1, <2>3, OneYet
  <2> QED
    BY <2>2, <2>4, NoneYet DEF FtLabelFlags, More
<1>2. ASSUME FtLabelFlags, [Next]_vars PROVE FtLabelFlags'
  <2>1. CASE \E s \in Slots : Serve(s) \/ Fault(s)
    <3>1. CallsIn(net)
      BY <1>2 DEF FtLabelFlags
    <3>2. ui' = ui /\ Same("ftlabeling", net, net')
      BY <2>1, <3>1, ServerFlags
    <3> QED
      BY <1>2, <3>2 DEF FtLabelFlags, Same
  <2>2. ASSUME NEW s \in Slots, Act \/ Interval \/ Elsewhere \/ Continue(s)
        PROVE  FtLabelFlags'
    <3>1. FtLabelUser \/ (Busy(s) /\ FtLabelResume(s))
      BY <2>2 DEF Act, Interval, Elsewhere, Continue
    <3> QED
      BY <1>2, <3>1, FtLabelFlagStep
  <2>3. CASE UNCHANGED vars
    BY <1>2, <2>3 DEF FtLabelFlags, vars
  <2> QED
    BY <1>2, <2>1, <2>2, <2>3, SomeSlot DEF Next
<1>3. ASSUME FtLabelFlags PROVE SpinnersWaited /\ OneSubmitAtATime
  <2>1. /\ Spinners = {<<ui.searching, {"search"}>>, <<ui.saving, {"save"}>>}
        /\ Submits = {{"search"}, {"save"}}
    BY DEF Spinners, Submits
  <2>2. ui.searching => InFlight({"search"}) # {}
    <3>1. \A k, a : Kind("ftlabeling", k, a) \in {"search"} => k \in {"search"}
      BY DEF Kind, Marks
    <3> QED
      BY <1>3, <3>1, WaitsIsInFlight DEF FtLabelFlags
  <2>3. ui.saving => InFlight({"save"}) # {}
    <3>1. \A k, a : Kind("ftlabeling", k, a) \in {"save"} => k \in {"save"}
      BY DEF Kind, Marks
    <3> QED
      BY <1>3, <3>1, WaitsIsInFlight DEF FtLabelFlags
  <2>4. Cardinality(InFlight({"search"})) <= 1
    <3>1. \A k, a : k \in {"search"} => Kind("ftlabeling", k, a) \in {"search"}
      BY DEF Kind, Marks
    <3> QED
      BY <1>3, <3>1, AloneIsOne DEF FtLabelFlags
  <2>5. Cardinality(InFlight({"save"})) <= 1
    <3>1. \A k, a : k \in {"save"} => Kind("ftlabeling", k, a) \in {"save"}
      BY DEF Kind, Marks
    <3> QED
      BY <1>3, <3>1, AloneIsOne DEF FtLabelFlags
  <2> QED
    BY <2>1, <2>2, <2>3, <2>4, <2>5 DEF SpinnersWaited, OneSubmitAtATime
<1> QED
  BY <1>1, <1>2, <1>3

----------------------------------------------------------------------------
(* The users.                                                              *)

UsersFlags ==
    /\ CallsIn(net) /\ DOMAIN ui = {"users", "total", "at", "page", "size", "loading", "applied", "checks", "selected", "open", "row", "base", "form", "err", "typed", "timers"}
    /\ ui.loading => Waits("users", net, {"list"})

LEMMA UsersFlagStep ==
    ASSUME UsersFlags, NEW s \in Slots, UsersUser \/ UsersTimer \/ (Busy(s) /\ UsersResume(s))
    PROVE  UsersFlags'
<1> DEFINE Sets(v0) == DOMAIN ui' = DOMAIN ui /\ ui'.loading = v0
<1>1. CallsIn(net) /\ DOMAIN ui = {"users", "total", "at", "page", "size", "loading", "applied", "checks", "selected", "open", "row", "base", "form", "err", "typed", "timers"}
  BY DEF UsersFlags
<1>2. \A a : /\ Kind("users", "list", a) = "list"
             /\ Kind("users", "check", a) = "check"
             /\ Kind("users", "exists", a) = "exists"
             /\ Kind("users", "modify", a) = "modify"
             /\ Kind("users", "role", a) = "role"
             /\ Kind("users", "create", a) = "create"
             /\ Kind("users", "password", a) = "password"
             /\ Kind("users", "delete", a) = "delete"
             /\ Kind("users", "bulk", a) = "bulk"
             /\ Kind("users", "late", a) = "late"
  BY DEF Kind, Marks
<1>3. UsersUser => UsersClose \/ UsersType \/ HandleCheckUsername \/ UsersAdd \/ UsersEdit \/ UsersPassword \/ HandleDelete \/ HandleConfirm \/ (\E p : HandleSetPage(p)) \/ (\E z : HandleSetPageSize(z)) \/ (\E f : SearchUsers(f)) \/ (\E C : UsersCheck(C)) \/ (\E k : UsersOpen(k)) \/ (\E i, k : UsersOpenRow(i, k))
  BY Zenon DEF UsersUser, UsersTable
<1>4. CASE UsersClose
  <2>1. Sets(ui.loading)
    BY <1>1, <1>4 DEF UsersClose, User, UsersOpenChange
  <2>2. net' = net
    BY <1>4 DEF UsersClose, User, UsersOpenChange
  <2> QED
    BY <2>1, <2>2 DEF UsersFlags
<1>5. CASE UsersType \/ \E C : UsersCheck(C)
  <2>1. Sets(ui.loading)
    BY <1>1, <1>5 DEF UsersType, UsersCheck, User
  <2>2. net' = net
    BY <1>5 DEF UsersType, UsersCheck, User
  <2> QED
    BY <2>1, <2>2 DEF UsersFlags
<1>6. CASE (\E k : UsersOpen(k)) \/ \E i, k : UsersOpenRow(i, k)
  <2>1. Sets(ui.loading)
    BY <1>1, <1>6 DEF UsersOpen, UsersOpenRow, User
  <2>2. net' = net
    BY <1>6 DEF UsersOpen, UsersOpenRow, User
  <2> QED
    BY <2>1, <2>2 DEF UsersFlags
<1>7. CASE UsersTimer
  <2>1. Sets(ui.loading)
    BY <1>1, <1>7 DEF UsersTimer, Fire
  <2>2. net' = net
    BY <1>7 DEF UsersTimer, Fire
  <2> QED
    BY <2>1, <2>2 DEF UsersFlags
<1>8. CASE HandleCheckUsername
  <2>0. Ask(ui, "check", UsersCall(None))
    BY <1>8, Zenon DEF HandleCheckUsername
  <2>1. Sets(ui.loading)
    BY <1>1, <2>0 DEF Ask
  <2>2. More("users", net, net', "check")
    BY <1>1, <1>2, <2>0, Asking DEF Ask
  <2> QED
    BY <2>1, <2>2 DEF UsersFlags, More
<1>9. CASE UsersAdd
  <2>0. Ask(ui, "exists", UsersCall(None))
    BY <1>9, Zenon DEF UsersAdd
  <2>1. Sets(ui.loading)
    BY <1>1, <2>0 DEF Ask
  <2>2. More("users", net, net', "exists")
    BY <1>1, <1>2, <2>0, Asking DEF Ask
  <2> QED
    BY <2>1, <2>2 DEF UsersFlags, More
<1>10. CASE UsersEdit
  <2>1. Sets(ui.loading)
    BY <1>1, <1>10 DEF UsersEdit, Ask
  <2>2. More("users", net, net', "modify")
    BY <1>1, <1>2, <1>10, Asking DEF UsersEdit, Ask
  <2> QED
    BY <2>1, <2>2 DEF UsersFlags, More
<1>11. CASE UsersPassword
  <2>0. Ask(ui, "password", UsersCall(ui.row.id))
    BY <1>11, Zenon DEF UsersPassword
  <2>1. Sets(ui.loading)
    BY <1>1, <2>0 DEF Ask
  <2>2. More("users", net, net', "password")
    BY <1>1, <1>2, <2>0, Asking DEF Ask
  <2> QED
    BY <2>1, <2>2 DEF UsersFlags, More
<1>12. CASE HandleDelete
  <2>1. Sets(ui.loading)
    BY <1>1, <1>12 DEF HandleDelete, Ask
  <2>2. More("users", net, net', "delete")
    BY <1>1, <1>2, <1>12, Asking DEF HandleDelete, Ask
  <2> QED
    BY <2>1, <2>2 DEF UsersFlags, More
<1>13. CASE HandleConfirm
  <2>1. CASE ui.selected = {}
    <3>1. \E a : Ask([ui EXCEPT !.loading = TRUE], "list", a)
      BY <1>13, <2>1, Zenon DEF HandleConfirm
    <3>2. Sets(TRUE) /\ More("users", net, net', "list")
      BY <1>1, <1>2, <3>1, Asking DEF Ask
    <3> QED
      BY <3>2 DEF UsersFlags, More
  <2>2. CASE ui.selected # {}
    <3>0. UNCHANGED <<screen, ui, db, evs, mixed>>
      BY <1>13, <2>2, Zenon DEF HandleConfirm
    <3>1. \E a, b : \/ Room(1) /\ net' = Send(net, "bulk", a)
                    \/ Room(2) /\ net' = Send(Send(net, "bulk", a), "bulk", b)
      BY <1>13, <2>2, Zenon DEF HandleConfirm
    <3>2. More("users", net, net', "bulk") \/ Both("users", net, net', "bulk", "bulk")
      BY <1>1, <1>2, <3>1, Asking, AskingTwo
    <3> QED
      BY <3>0, <3>2 DEF UsersFlags, More, Both
  <2> QED
    BY <2>1, <2>2
<1>14. CASE \E p : HandleSetPage(p)
  <2>1. Sets(TRUE)
    BY <1>1, <1>14 DEF HandleSetPage, LoadUsers, Ask
  <2>2. More("users", net, net', "list")
    BY <1>1, <1>2, <1>14, Asking DEF HandleSetPage, LoadUsers, Ask
  <2> QED
    BY <2>1, <2>2 DEF UsersFlags, More
<1>15. CASE \E f : SearchUsers(f)
  <2>1. Sets(TRUE)
    BY <1>1, <1>15 DEF SearchUsers, LoadUsers, Ask
  <2>2. More("users", net, net', "list")
    BY <1>1, <1>2, <1>15, Asking DEF SearchUsers, LoadUsers, Ask
  <2> QED
    BY <2>1, <2>2 DEF UsersFlags, More
<1>16. CASE \E z : HandleSetPageSize(z)
  <2>1. \E z, a, b : Room(2) /\ ui' = [ui EXCEPT !.size = z, !.page = 1, !.loading = TRUE] /\ net' = Send(Send(net, "list", a), "list", b)
    BY <1>16, Zenon DEF HandleSetPageSize
  <2>2. Sets(TRUE) /\ Both("users", net, net', "list", "list")
    BY <1>1, <1>2, <2>1, AskingTwo
  <2> QED
    BY <2>2 DEF UsersFlags, Both
<1>17. CASE Busy(s) /\ net[s].k = "list" /\ UsersListed(s)
  <2>1. Sets(FALSE)
    BY <1>1, <1>17 DEF UsersListed, Resume, UsersOpenChange
  <2>2. Less("users", net, net', "list")
    BY <1>1, <1>2, <1>17, Ending DEF UsersListed, Resume, UsersOpenChange
  <2> QED
    BY <2>1, <2>2 DEF UsersFlags, Less
<1>18. CASE Busy(s) /\ net[s].k = "check" /\ UsersNameChecked(s)
  <2>1. Sets(ui.loading)
    BY <1>1, <1>18 DEF UsersNameChecked, Resume
  <2>2. Less("users", net, net', "check")
    BY <1>1, <1>2, <1>18, Ending DEF UsersNameChecked, Resume
  <2> QED
    BY <2>1, <2>2 DEF UsersFlags, Less
<1>19. CASE Busy(s) /\ net[s].k = "exists" /\ UsersExists(s) /\ Ok(s) /\ ~net[s].r
  <2>1. Sets(ui.loading)
    BY <1>1, <1>19 DEF UsersExists, Resume
  <2>2. Swap("users", net, net', "exists", "create")
    BY <1>1, <1>2, <1>19, Chaining DEF UsersExists, Resume
  <2> QED
    BY <2>1, <2>2 DEF UsersFlags, Swap
<1>20. CASE Busy(s) /\ net[s].k = "exists" /\ UsersExists(s) /\ ~(Ok(s) /\ ~net[s].r)
  <2>1. Sets(ui.loading)
    BY <1>1, <1>20 DEF UsersExists, Resume
  <2>2. Less("users", net, net', "exists")
    BY <1>1, <1>2, <1>20, Ending DEF UsersExists, Resume
  <2> QED
    BY <2>1, <2>2 DEF UsersFlags, Less
<1>21. CASE Busy(s) /\ net[s].k = "modify" /\ UsersModified(s) /\ Ok(s) /\ net[s].a.form.role # net[s].a.was
  <2>1. Sets(ui.loading)
    BY <1>1, <1>21 DEF UsersModified, Resume, RefreshUsers
  <2>2. Swap("users", net, net', "modify", "role")
    BY <1>1, <1>2, <1>21, Chaining DEF UsersModified, Resume, RefreshUsers
  <2> QED
    BY <2>1, <2>2 DEF UsersFlags, Swap
<1>22. CASE Busy(s) /\ net[s].k = "modify" /\ UsersModified(s) /\ Ok(s) /\ net[s].a.form.role = net[s].a.was
  <2>1. Sets(TRUE)
    BY <1>1, <1>22 DEF UsersModified, Resume, RefreshUsers
  <2>2. Swap("users", net, net', "modify", "list")
    BY <1>1, <1>2, <1>22, Chaining DEF UsersModified, Resume, RefreshUsers
  <2> QED
    BY <2>1, <2>2 DEF UsersFlags, Swap
<1>23. CASE Busy(s) /\ net[s].k = "modify" /\ UsersModified(s) /\ ~Ok(s)
  <2>1. Sets(ui.loading)
    BY <1>1, <1>23 DEF UsersModified, Resume, RefreshUsers
  <2>2. Less("users", net, net', "modify")
    BY <1>1, <1>2, <1>23, Ending DEF UsersModified, Resume, RefreshUsers
  <2> QED
    BY <2>1, <2>2 DEF UsersFlags, Less
<1>24. CASE Busy(s) /\ net[s].k = "create" /\ UsersWritten(s, "add") /\ Ok(s)
  <2>1. Sets(TRUE)
    BY <1>1, <1>24 DEF UsersWritten, RefreshUsers, Resume
  <2>2. Swap("users", net, net', "create", "list")
    BY <1>1, <1>2, <1>24, Chaining DEF UsersWritten, RefreshUsers, Resume
  <2> QED
    BY <2>1, <2>2 DEF UsersFlags, Swap
<1>25. CASE Busy(s) /\ net[s].k = "create" /\ UsersWritten(s, "add") /\ ~Ok(s)
  <2>1. Sets(ui.loading)
    BY <1>1, <1>25 DEF UsersWritten, RefreshUsers, Resume
  <2>2. Less("users", net, net', "create")
    BY <1>1, <1>2, <1>25, Ending DEF UsersWritten, RefreshUsers, Resume
  <2> QED
    BY <2>1, <2>2 DEF UsersFlags, Less
<1>26. CASE Busy(s) /\ net[s].k = "role" /\ UsersWritten(s, "edit") /\ Ok(s)
  <2>1. Sets(TRUE)
    BY <1>1, <1>26 DEF UsersWritten, RefreshUsers, Resume
  <2>2. Swap("users", net, net', "role", "list")
    BY <1>1, <1>2, <1>26, Chaining DEF UsersWritten, RefreshUsers, Resume
  <2> QED
    BY <2>1, <2>2 DEF UsersFlags, Swap
<1>27. CASE Busy(s) /\ net[s].k = "role" /\ UsersWritten(s, "edit") /\ ~Ok(s)
  <2>1. Sets(ui.loading)
    BY <1>1, <1>27 DEF UsersWritten, RefreshUsers, Resume
  <2>2. Less("users", net, net', "role")
    BY <1>1, <1>2, <1>27, Ending DEF UsersWritten, RefreshUsers, Resume
  <2> QED
    BY <2>1, <2>2 DEF UsersFlags, Less
<1>28. CASE Busy(s) /\ net[s].k \in {"password", "delete"} /\ UsersWritten(s, net[s].k) /\ Ok(s)
  <2>1. Sets(TRUE)
    BY <1>1, <1>28 DEF UsersWritten, RefreshUsers, Resume
  <2>2. \E x \in {"password", "delete"} : Swap("users", net, net', x, "list")
    BY <1>1, <1>2, <1>28, Chaining DEF UsersWritten, RefreshUsers, Resume
  <2> QED
    BY <2>1, <2>2 DEF UsersFlags, Swap
<1>29. CASE Busy(s) /\ net[s].k \in {"password", "delete"} /\ UsersWritten(s, net[s].k) /\ ~Ok(s)
  <2>1. Sets(ui.loading)
    BY <1>1, <1>29 DEF UsersWritten, RefreshUsers, Resume
  <2>2. \E x \in {"password", "delete"} : Less("users", net, net', x)
    BY <1>1, <1>2, <1>29, Ending DEF UsersWritten, RefreshUsers, Resume
  <2> QED
    BY <2>1, <2>2 DEF UsersFlags, Less
<1>30. CASE Busy(s) /\ net[s].k = "bulk" /\ UsersBulked(s)
  <2> DEFINE peers == {t \in InFlight({"bulk"}) \ {s} : net[t].a.batch = net[s].a.batch}
             cut == [t \in Slots |-> IF t \in peers THEN [net[t] EXCEPT !.k = "late"] ELSE Rest(s)[t]]
  <2>1. \/ \E d : RefreshUsers(s, d)
        \/ Resume(s, ui, Rest(s))
        \/ Resume(s, ui, cut)
    BY <1>30, Zenon DEF UsersBulked
  <2>2. CASE \E d : RefreshUsers(s, d)
    <3>1. Sets(TRUE) /\ Swap("users", net, net', "bulk", "list")
      BY <1>1, <1>2, <1>30, <2>2, Chaining DEF RefreshUsers, Resume
    <3> QED
      BY <3>1 DEF UsersFlags, Swap
  <2>3. CASE Resume(s, ui, Rest(s))
    <3>1. ui' = ui /\ Less("users", net, net', "bulk")
      BY <1>1, <1>2, <1>30, <2>3, Ending DEF Resume
    <3> QED
      BY <3>1 DEF UsersFlags, Less
  <2>4. CASE Resume(s, ui, cut)
    <3>1. ui' = ui /\ net' = cut
      BY <2>4 DEF Resume
    <3>2. peers \subseteq Slots /\ \A t \in peers : net[t] # NoCall /\ net[t].k = "bulk"
      BY DEF InFlight, Busy
    <3> HIDE DEF peers
    <3>3. CallsIn(Rest(s)) /\ \A t \in Slots \ {s} : Rest(s)[t] = net[t]
      BY <1>1, <1>30, RestFrees
    <3>4. ASSUME NEW c, IsCall(c) PROVE IsCall([c EXCEPT !.k = "late"])
      BY <3>4 DEF IsCall
    <3>5. CallsIn(net')
      BY <1>1, <3>1, <3>2, <3>3, <3>4 DEF CallsIn
    <3>6. ASSUME ui.loading PROVE Waits("users", net', {"list"})
      <4>1. PICK t \in Slots : net[t] # NoCall /\ KindOf("users", net[t]) = "list"
        BY <3>6 DEF UsersFlags, Waits
      <4>2. net[t].k # "bulk"
        BY <1>2, <4>1 DEF KindOf
      <4>3. net'[t] = net[t]
        BY <1>30, <3>1, <3>2, <3>3, <4>2
      <4> QED
        BY <4>1, <4>3 DEF Waits
    <3> QED
      BY <1>1, <3>1, <3>5, <3>6 DEF UsersFlags
  <2> QED
    BY <2>1, <2>2, <2>3, <2>4
<1>31. CASE Busy(s) /\ net[s].k = "late" /\ Resume(s, ui, Rest(s))
  <2>1. Sets(ui.loading)
    BY <1>1, <1>31 DEF Resume
  <2>2. Less("users", net, net', "late")
    BY <1>1, <1>2, <1>31, Ending DEF Resume
  <2> QED
    BY <2>1, <2>2 DEF UsersFlags, Less
<1> QED
  BY <1>3, <1>4, <1>5, <1>6, <1>7, <1>8, <1>9, <1>10, <1>11, <1>12, <1>13, <1>14, <1>15, <1>16, <1>17, <1>18,
    <1>19, <1>20, <1>21, <1>22, <1>23, <1>24, <1>25, <1>26, <1>27, <1>28, <1>29, <1>30, <1>31
    DEF UsersResume

LEMMA UsersFlagPage ==
    ASSUME screen = "users"
    PROVE  /\ Init => UsersFlags
           /\ UsersFlags /\ [Next]_vars => UsersFlags'
           /\ UsersFlags => SpinnersWaited /\ OneSubmitAtATime
<1>1. ASSUME Init PROVE UsersFlags
  <2> DEFINE none == ""
  <2>1. \E z \in {1, 2} :
            /\ ui = [users |-> <<>>, total |-> 0, at |-> UsersQuery(1, z, none), page |-> 1, size |-> z, loading |-> TRUE,
                     applied |-> none, checks |-> {}, selected |-> {}, open |-> None, row |-> None, base |-> UsersBlank,
                     form |-> UsersBlank, err |-> FALSE, typed |-> FALSE, timers |-> 0]
            /\ net = Send(NoCalls, "list", UsersQuery(1, z, none))
    BY <1>1, Zenon DEF Init, UsersUi
  <2> HIDE DEF none
  <2>2. /\ DOMAIN ui = {"users", "total", "at", "page", "size", "loading", "applied", "checks", "selected", "open",
                        "row", "base", "form", "err", "typed", "timers"}
        /\ \E a : net = Send(NoCalls, "list", a)
    BY <2>1
  <2>3. \A a : Kind("users", "list", a) = "list"
    BY DEF Kind, Marks
  <2>4. More("users", NoCalls, net, "list")
    BY <2>2, <2>3, OneYet
  <2> QED
    BY <2>2, <2>4 DEF UsersFlags, More
<1>2. ASSUME UsersFlags, [Next]_vars PROVE UsersFlags'
  <2>1. CASE \E s \in Slots : Serve(s) \/ Fault(s)
    <3>1. CallsIn(net)
      BY <1>2 DEF UsersFlags
    <3>2. ui' = ui /\ Same("users", net, net')
      BY <2>1, <3>1, ServerFlags
    <3> QED
      BY <1>2, <3>2 DEF UsersFlags, Same
  <2>2. ASSUME NEW s \in Slots, Act \/ Interval \/ Elsewhere \/ Continue(s)
        PROVE  UsersFlags'
    <3>1. UsersUser \/ UsersTimer \/ (Busy(s) /\ UsersResume(s))
      BY <2>2 DEF Act, Interval, Elsewhere, Continue
    <3> QED
      BY <1>2, <3>1, UsersFlagStep
  <2>3. CASE UNCHANGED vars
    BY <1>2, <2>3 DEF UsersFlags, vars
  <2> QED
    BY <1>2, <2>1, <2>2, <2>3, SomeSlot DEF Next
<1>3. ASSUME UsersFlags PROVE SpinnersWaited /\ OneSubmitAtATime
  <2>1. /\ Spinners = {<<ui.loading, {"list"}>>}
        /\ Submits = {}
    BY DEF Spinners, Submits
  <2>2. ui.loading => InFlight({"list"}) # {}
    <3>1. \A k, a : Kind("users", k, a) \in {"list"} => k \in {"list"}
      BY DEF Kind, Marks
    <3> QED
      BY <1>3, <3>1, WaitsIsInFlight DEF UsersFlags
  <2> QED
    BY <2>1, <2>2 DEF SpinnersWaited, OneSubmitAtATime
<1> QED
  BY <1>1, <1>2, <1>3

----------------------------------------------------------------------------
(* The labelling workspace.                                                *)

HasFlags(e) == "loading" \in DOMAIN e /\ "saving" \in DOMAIN e /\ "splitting" \in DOMAIN e /\ "detecting" \in DOMAIN e

\* The editor e has no flag up but those given.
EditorLow(e, l, v, p, d) ==
    HasFlags(e) /\ (e.loading => l) /\ (e.saving => v) /\ (e.splitting => p) /\ (e.detecting => d)

EditorKinds == {"load", "boxes", "meta", "status", "crops", "export", "detect", "later", "awaited"}

LabelingFlags ==
    /\ CallsIn(net) /\ DOMAIN ui = {"ed", "rows", "loading", "drawn"}
    /\ ui.loading => Waits("labeling", net, {"list"})
    /\ ~Waits("labeling", net, {"doc"})
    /\ (ui.ed # None \/ Waits("labeling", net, EditorKinds)) => EditorLow(ui.ed, Waits("labeling", net, {"load"}), Waits("labeling", net, {"later"}), Waits("labeling", net, {"awaited"}), Waits("labeling", net, {"detect"}))

LEMMA LabelingFlagStep ==
    ASSUME LabelingFlags, NEW s \in Slots, LabelingUser \/ EditorTimer \/ (Busy(s) /\ LabelingResume(s))
    PROVE  LabelingFlags'
<1> DEFINE Sets(v0, v1) == DOMAIN ui' = DOMAIN ui /\ ui'.ed = v0 /\ ui'.loading = v1
<1>1. CallsIn(net) /\ DOMAIN ui = {"ed", "rows", "loading", "drawn"}
  BY DEF LabelingFlags
<1>2. \A a : /\ Kind("labeling", "list", a) = "list"
  BY DEF Kind, Marks
<1>3. \A a : /\ \A k \in {"load", "boxes", "meta", "status", "crops", "export", "detect"} : ~EditorsCall(a) => Kind("labeling", k, a) = "doc"
             /\ \A k \in {"load", "boxes", "meta", "status", "crops", "export", "detect"} : (EditorsCall(a) /\ a.gone) => Kind("labeling", k, a) = "other"
             /\ \A k \in {"load", "status", "export", "detect"} : (EditorsCall(a) /\ ~a.gone) => Kind("labeling", k, a) = k
             /\ \A k \in {"boxes", "meta", "crops"} : (EditorsCall(a) /\ ~a.gone /\ a.then = "split") => Kind("labeling", k, a) = "awaited"
             /\ \A k \in {"boxes", "meta"} : (EditorsCall(a) /\ ~a.gone /\ a.then \notin {"split", "json", "completed"}) => Kind("labeling", k, a) = "later"
             /\ \A k \in {"boxes", "meta"} : (EditorsCall(a) /\ ~a.gone /\ a.then \in {"json", "completed"}) => Kind("labeling", k, a) = k
             /\ (EditorsCall(a) /\ ~a.gone /\ a.then # "split") => Kind("labeling", "crops", a) = "crops"
  <2>1. \A a : \A k \in {"load", "boxes", "meta", "status", "crops", "export", "detect"} : ~EditorsCall(a) => Kind("labeling", k, a) = "doc"
    BY DEF Kind, Marks, EditorKind
  <2>2. \A a : \A k \in {"load", "boxes", "meta", "status", "crops", "export", "detect"} : (EditorsCall(a) /\ a.gone) => Kind("labeling", k, a) = "other"
    BY DEF Kind, Marks, EditorKind
  <2>3. \A a : \A k \in {"load", "status", "export", "detect"} : (EditorsCall(a) /\ ~a.gone) => Kind("labeling", k, a) = k
    BY DEF Kind, Marks, EditorKind
  <2>4. \A a : \A k \in {"boxes", "meta", "crops"} : (EditorsCall(a) /\ ~a.gone /\ a.then = "split") => Kind("labeling", k, a) = "awaited"
    BY DEF Kind, Marks, EditorKind
  <2>5. \A a : \A k \in {"boxes", "meta"} : (EditorsCall(a) /\ ~a.gone /\ a.then \notin {"split", "json", "completed"}) => Kind("labeling", k, a) = "later"
    BY DEF Kind, Marks, EditorKind
  <2>6. \A a : \A k \in {"boxes", "meta"} : (EditorsCall(a) /\ ~a.gone /\ a.then \in {"json", "completed"}) => Kind("labeling", k, a) = k
    BY DEF Kind, Marks, EditorKind
  <2>7. \A a : (EditorsCall(a) /\ ~a.gone /\ a.then # "split") => Kind("labeling", "crops", a) = "crops"
    BY DEF Kind, Marks, EditorKind
  <2> QED
    BY <2>1, <2>2, <2>3, <2>4, <2>5, <2>6, <2>7
<1>4. (Busy(s) /\ net[s].k \in {"load", "boxes", "meta", "status", "crops", "export", "detect"}) => EditorsCall(net[s].a)
  BY <1>3 DEF LabelingFlags, Waits, KindOf, Busy
<1>5. ui.ed # None => HasFlags(ui.ed)
  BY DEF LabelingFlags, EditorLow
<1>6. EditorKinds \cap {"list", "doc", "other"} = {} /\ {"load", "boxes", "meta", "status", "crops", "export", "detect", "later", "awaited"} \subseteq EditorKinds
  BY DEF EditorKinds
<1>7. (Busy(s) /\ Kind("labeling", net[s].k, net[s].a) \in EditorKinds) => HasFlags(ui.ed)
  BY DEF LabelingFlags, EditorLow, Waits, KindOf, Busy
<1>8. (Busy(s) /\ net[s].k \in {"load", "boxes", "meta", "status", "crops", "export", "detect"} /\ ~net[s].a.gone) => HasFlags(ui.ed)
  BY <1>3, <1>4, <1>6, <1>7
<1>9. LabelingUser => (\E r \in Rows : LabelingSelect(r)) \/ (EditorReady /\ (EditorCommit \/ EditorCancel \/ EditorDraw \/ EditorAccept \/ EditorReject \/ EditorKey \/ (\E q : EditorText(q) \/ EditorBegin(q) \/ EditorSelect(q) \/ EditorDelete(q)) \/ EditorRenumber \/ EditorImport \/ EditorDetect \/ EditorSave \/ EditorSplit \/ EditorJson \/ EditorStatus("draft") \/ EditorStatus("completed")))
  BY Zenon DEF LabelingUser
<1>10. EditorTimer => (ui.ed # None /\ ui.ed.bt /\ Tick([ui EXCEPT !.ed.bt = FALSE, !.ed.saving = TRUE], "boxes", EditorCall(ui.ed.img, ui.ed.boxes, "no"))) \/ (ui.ed # None /\ ui.ed.mt /\ Tick([ui EXCEPT !.ed.mt = FALSE, !.ed.saving = TRUE], "meta", EditorCall(ui.ed.img, ui.ed.meta, "no")))
  BY Zenon DEF EditorTimer, Ed
<1>11. CASE EditorReady /\ EditorDraw
  <2>1. Sets(ui'.ed, ui.loading) /\ ui.ed # None /\ EditorLow(ui'.ed, ui.ed.loading, ui.ed.saving, ui.ed.splitting, ui.ed.detecting)
    BY <1>1, <1>11, <1>4, <1>5, <1>8
      DEF EditorDraw, EditorNew, EditorDrawn, EditorLow, HasFlags, Ed, EditorReady, EditorStamp
  <2>2. net' = net
    BY <1>11 DEF EditorDraw, EditorNew, EditorDrawn, EditorLow, HasFlags, Ed, EditorReady, EditorStamp
  <2> QED
    BY <2>1, <2>2, <1>6 DEF LabelingFlags, EditorLow
<1>12. CASE EditorReady /\ EditorAccept
  <2>1. Sets(ui'.ed, ui.loading) /\ ui.ed # None /\ EditorLow(ui'.ed, ui.ed.loading, ui.ed.saving, ui.ed.splitting, ui.ed.detecting)
    BY <1>1, <1>12, <1>4, <1>5, <1>8
      DEF EditorAccept, EditorNew, EditorDrawn, EditorLow, HasFlags, Ed, EditorReady, EditorStamp
  <2>2. net' = net
    BY <1>12 DEF EditorAccept, EditorNew, EditorDrawn, EditorLow, HasFlags, Ed, EditorReady, EditorStamp
  <2> QED
    BY <2>1, <2>2, <1>6 DEF LabelingFlags, EditorLow
<1>13. CASE EditorReady /\ EditorCommit
  <2>1. Sets(ui'.ed, ui.loading) /\ ui.ed # None /\ EditorLow(ui'.ed, ui.ed.loading, ui.ed.saving, ui.ed.splitting, ui.ed.detecting)
    BY <1>1, <1>13, <1>4, <1>5, <1>8 DEF EditorCommit, EditorDrawn, EditorLow, HasFlags, Ed, EditorReady
  <2>2. net' = net
    BY <1>13 DEF EditorCommit, EditorDrawn, EditorLow, HasFlags, Ed, EditorReady
  <2> QED
    BY <2>1, <2>2, <1>6 DEF LabelingFlags, EditorLow
<1>14. CASE EditorReady /\ EditorRenumber
  <2>1. Sets(ui'.ed, ui.loading) /\ ui.ed # None /\ EditorLow(ui'.ed, ui.ed.loading, ui.ed.saving, ui.ed.splitting, ui.ed.detecting)
    BY <1>1, <1>14, <1>4, <1>5, <1>8 DEF EditorRenumber, EditorDrawn, EditorLow, HasFlags, Ed, EditorReady
  <2>2. net' = net
    BY <1>14 DEF EditorRenumber, EditorDrawn, EditorLow, HasFlags, Ed, EditorReady
  <2> QED
    BY <2>1, <2>2, <1>6 DEF LabelingFlags, EditorLow
<1>15. CASE EditorReady /\ EditorImport
  <2>1. Sets(ui'.ed, ui.loading) /\ ui.ed # None /\ EditorLow(ui'.ed, ui.ed.loading, ui.ed.saving, ui.ed.splitting, ui.ed.detecting)
    BY <1>1, <1>15, <1>4, <1>5, <1>8 DEF EditorImport, EditorDrawn, EditorLow, HasFlags, Ed, EditorReady
  <2>2. net' = net
    BY <1>15 DEF EditorImport, EditorDrawn, EditorLow, HasFlags, Ed, EditorReady
  <2> QED
    BY <2>1, <2>2, <1>6 DEF LabelingFlags, EditorLow
<1>16. CASE EditorReady /\ (EditorKey \/ (\E q : EditorDelete(q)) \/ (\E q : EditorText(q)))
  <2>1. EditorReady /\ (\/ \E x, y : EditorDrawn([Ed EXCEPT !.boxes = x, !.sel = y])
                        \/ \E x : EditorDrawn([Ed EXCEPT !.boxes = x]))
    BY <1>16, Zenon DEF EditorKey, EditorDelete, EditorText
  <2>2. ui.ed # None /\ HasFlags(ui.ed)
    BY <1>5, <2>1, Zenon DEF EditorReady, Ed
  <2> DEFINE Like(e) == EditorLow(e, ui.ed.loading, ui.ed.saving, ui.ed.splitting, ui.ed.detecting)
  <2>3. ASSUME NEW e, Like(e) PROVE Like([e EXCEPT !.bt = TRUE])
    BY <2>3 DEF EditorLow, HasFlags
  <2>4. ASSUME NEW x PROVE Like([ui.ed EXCEPT !.boxes = x])
    BY <2>2 DEF EditorLow, HasFlags
  <2>5. ASSUME NEW x, NEW y PROVE Like([ui.ed EXCEPT !.boxes = x, !.sel = y])
    BY <2>2 DEF EditorLow, HasFlags
  <2> HIDE DEF Like
  <2>6. PICK e : EditorDrawn(e) /\ Like(e)
    BY <2>1, <2>4, <2>5, Zenon DEF Ed
  <2>7. net' = net /\ ui' = [ui EXCEPT !.ed = [e EXCEPT !.bt = TRUE], !.drawn[ui.ed.img] = e.boxes]
    BY <2>6, Zenon DEF EditorDrawn, Ed
  <2>8. Sets([e EXCEPT !.bt = TRUE], ui.loading)
    BY <1>1, <2>7
  <2>9. Like(ui'.ed)
    BY <2>3, <2>6, <2>8
  <2> QED
    BY <1>6, <2>2, <2>7, <2>8, <2>9 DEF LabelingFlags, EditorLow, Like
<1>17. CASE EditorReady /\ (EditorCancel \/ EditorReject)
  <2>1. Sets(ui'.ed, ui.loading) /\ ui.ed # None /\ EditorLow(ui'.ed, ui.ed.loading, ui.ed.saving, ui.ed.splitting, ui.ed.detecting)
    BY <1>1, <1>17, <1>4, <1>5, <1>8
      DEF EditorCancel, EditorReject, EditorSet, User, EditorLow, HasFlags, Ed, EditorReady
  <2>2. net' = net
    BY <1>17 DEF EditorCancel, EditorReject, EditorSet, User, EditorLow, HasFlags, Ed, EditorReady
  <2> QED
    BY <2>1, <2>2, <1>6 DEF LabelingFlags, EditorLow
<1>18. CASE EditorReady /\ (\E q : EditorBegin(q) \/ EditorSelect(q))
  <2>1. Sets(ui'.ed, ui.loading) /\ ui.ed # None /\ EditorLow(ui'.ed, ui.ed.loading, ui.ed.saving, ui.ed.splitting, ui.ed.detecting)
    BY <1>1, <1>18, <1>4, <1>5, <1>8
      DEF EditorBegin, EditorSelect, EditorSet, User, EditorLow, HasFlags, Ed, EditorReady
  <2>2. net' = net
    BY <1>18 DEF EditorBegin, EditorSelect, EditorSet, User, EditorLow, HasFlags, Ed, EditorReady
  <2> QED
    BY <2>1, <2>2, <1>6 DEF LabelingFlags, EditorLow
<1>19. CASE EditorReady /\ EditorDetect
  <2>1. Sets(ui'.ed, ui.loading) /\ ui.ed # None /\ EditorLow(ui'.ed, ui.ed.loading, ui.ed.saving, ui.ed.splitting, TRUE)
    BY <1>1, <1>19, <1>4, <1>5, <1>8 DEF EditorDetect, Ask, EditorLow, HasFlags, Ed, EditorReady
  <2>2. net' = Send(net, "detect", EditorCall(ui.ed.img, None, "no")) /\ Room(1)
    BY <1>19 DEF EditorDetect, Ask, EditorLow, HasFlags, Ed, EditorReady
  <2>3. Kind("labeling", "detect", EditorCall(ui.ed.img, None, "no")) = "detect"
    BY <1>19 DEF Kind, Marks, EditorCall, EditorsCall, EditorKind
  <2>4. More("labeling", net, net', "detect")
    BY <1>1, <2>2, <2>3, Asking
  <2> QED
    BY <2>1, <2>4, <1>6 DEF LabelingFlags, More, EditorLow
<1>20. CASE EditorReady /\ EditorSave
  <2>1. Sets(ui'.ed, ui.loading) /\ ui.ed # None /\ EditorLow(ui'.ed, ui.ed.loading, TRUE, ui.ed.splitting, ui.ed.detecting)
    BY <1>1, <1>20, <1>4, <1>5, <1>8 DEF EditorSave, EditorFlush, Ask, EditorLow, HasFlags, Ed, EditorReady
  <2>2. net' = Send(net, "boxes", EditorCall(ui.ed.img, ui.ed.boxes, "save")) /\ Room(1)
    BY <1>20 DEF EditorSave, EditorFlush, Ask, EditorLow, HasFlags, Ed, EditorReady
  <2>3. Kind("labeling", "boxes", EditorCall(ui.ed.img, ui.ed.boxes, "save")) = "later"
    BY <1>20 DEF Kind, Marks, EditorCall, EditorsCall, EditorKind
  <2>4. More("labeling", net, net', "later")
    BY <1>1, <2>2, <2>3, Asking
  <2> QED
    BY <2>1, <2>4, <1>6 DEF LabelingFlags, More, EditorLow
<1>21. CASE EditorReady /\ EditorSplit
  <2>1. Sets(ui'.ed, ui.loading) /\ ui.ed # None /\ EditorLow(ui'.ed, ui.ed.loading, ui.ed.saving, TRUE, ui.ed.detecting)
    BY <1>1, <1>21, <1>4, <1>5, <1>8 DEF EditorSplit, EditorFlush, Ask, EditorLow, HasFlags, Ed, EditorReady
  <2>2. net' = Send(net, "boxes", EditorCall(ui.ed.img, ui.ed.boxes, "split")) /\ Room(1)
    BY <1>21 DEF EditorSplit, EditorFlush, Ask, EditorLow, HasFlags, Ed, EditorReady
  <2>3. Kind("labeling", "boxes", EditorCall(ui.ed.img, ui.ed.boxes, "split")) = "awaited"
    BY <1>21 DEF Kind, Marks, EditorCall, EditorsCall, EditorKind
  <2>4. More("labeling", net, net', "awaited")
    BY <1>1, <2>2, <2>3, Asking
  <2> QED
    BY <2>1, <2>4, <1>6 DEF LabelingFlags, More, EditorLow
<1>22. CASE EditorReady /\ EditorJson
  <2>1. Sets(ui'.ed, ui.loading) /\ ui.ed # None /\ EditorLow(ui'.ed, ui.ed.loading, ui.ed.saving, ui.ed.splitting, ui.ed.detecting)
    BY <1>1, <1>22, <1>4, <1>5, <1>8 DEF EditorJson, EditorFlush, Ask, EditorLow, HasFlags, Ed, EditorReady
  <2>2. net' = Send(net, "boxes", EditorCall(ui.ed.img, ui.ed.boxes, "json")) /\ Room(1)
    BY <1>22 DEF EditorJson, EditorFlush, Ask, EditorLow, HasFlags, Ed, EditorReady
  <2>3. Kind("labeling", "boxes", EditorCall(ui.ed.img, ui.ed.boxes, "json")) = "boxes"
    BY <1>22 DEF Kind, Marks, EditorCall, EditorsCall, EditorKind
  <2>4. More("labeling", net, net', "boxes")
    BY <1>1, <2>2, <2>3, Asking
  <2> QED
    BY <2>1, <2>4, <1>6 DEF LabelingFlags, More, EditorLow
<1>23. CASE EditorReady /\ EditorStatus("completed")
  <2>1. Sets(ui'.ed, ui.loading) /\ ui.ed # None /\ EditorLow(ui'.ed, ui.ed.loading, ui.ed.saving, ui.ed.splitting, ui.ed.detecting)
    BY <1>1, <1>23, <1>4, <1>5, <1>8 DEF EditorStatus, EditorFlush, Ask, EditorLow, HasFlags, Ed, EditorReady
  <2>2. net' = Send(net, "boxes", EditorCall(ui.ed.img, ui.ed.boxes, "completed")) /\ Room(1)
    BY <1>23 DEF EditorStatus, EditorFlush, Ask, EditorLow, HasFlags, Ed, EditorReady
  <2>3. Kind("labeling", "boxes", EditorCall(ui.ed.img, ui.ed.boxes, "completed")) = "boxes"
    BY <1>23 DEF Kind, Marks, EditorCall, EditorsCall, EditorKind
  <2>4. More("labeling", net, net', "boxes")
    BY <1>1, <2>2, <2>3, Asking
  <2> QED
    BY <2>1, <2>4, <1>6 DEF LabelingFlags, More, EditorLow
<1>24. CASE EditorReady /\ EditorStatus("draft")
  <2>1. Sets(ui'.ed, ui.loading) /\ ui.ed # None /\ EditorLow(ui'.ed, ui.ed.loading, ui.ed.saving, ui.ed.splitting, ui.ed.detecting)
    BY <1>1, <1>24, <1>4, <1>5, <1>8 DEF EditorStatus, EditorFlush, Ask, EditorLow, HasFlags, Ed, EditorReady
  <2>2. net' = Send(net, "status", EditorCall(ui.ed.img, "draft", "no")) /\ Room(1)
    BY <1>24 DEF EditorStatus, EditorFlush, Ask, EditorLow, HasFlags, Ed, EditorReady
  <2>3. Kind("labeling", "status", EditorCall(ui.ed.img, "draft", "no")) = "status"
    BY <1>24 DEF Kind, Marks, EditorCall, EditorsCall, EditorKind
  <2>4. More("labeling", net, net', "status")
    BY <1>1, <2>2, <2>3, Asking
  <2> QED
    BY <2>1, <2>4, <1>6 DEF LabelingFlags, More, EditorLow
<1>25. CASE ui.ed # None /\ ui.ed.bt /\ Tick([ui EXCEPT !.ed.bt = FALSE, !.ed.saving = TRUE], "boxes", EditorCall(ui.ed.img, ui.ed.boxes, "no"))
  <2>1. Sets(ui'.ed, ui.loading) /\ ui.ed # None /\ EditorLow(ui'.ed, ui.ed.loading, TRUE, ui.ed.splitting, ui.ed.detecting)
    BY <1>1, <1>25, <1>4, <1>5, <1>8 DEF Tick, Fire, EditorLow, HasFlags, Ed, EditorReady
  <2>2. net' = Send(net, "boxes", EditorCall(ui.ed.img, ui.ed.boxes, "no")) /\ Room(1)
    BY <1>25 DEF Tick, Fire, EditorLow, HasFlags, Ed, EditorReady
  <2>3. Kind("labeling", "boxes", EditorCall(ui.ed.img, ui.ed.boxes, "no")) = "later"
    BY <1>25 DEF Kind, Marks, EditorCall, EditorsCall, EditorKind
  <2>4. More("labeling", net, net', "later")
    BY <1>1, <2>2, <2>3, Asking
  <2> QED
    BY <2>1, <2>4, <1>6 DEF LabelingFlags, More, EditorLow
<1>26. CASE ui.ed # None /\ ui.ed.mt /\ Tick([ui EXCEPT !.ed.mt = FALSE, !.ed.saving = TRUE], "meta", EditorCall(ui.ed.img, ui.ed.meta, "no"))
  <2>1. Sets(ui'.ed, ui.loading) /\ ui.ed # None /\ EditorLow(ui'.ed, ui.ed.loading, TRUE, ui.ed.splitting, ui.ed.detecting)
    BY <1>1, <1>26, <1>4, <1>5, <1>8 DEF Tick, Fire, EditorLow, HasFlags, Ed, EditorReady
  <2>2. net' = Send(net, "meta", EditorCall(ui.ed.img, ui.ed.meta, "no")) /\ Room(1)
    BY <1>26 DEF Tick, Fire, EditorLow, HasFlags, Ed, EditorReady
  <2>3. Kind("labeling", "meta", EditorCall(ui.ed.img, ui.ed.meta, "no")) = "later"
    BY <1>26 DEF Kind, Marks, EditorCall, EditorsCall, EditorKind
  <2>4. More("labeling", net, net', "later")
    BY <1>1, <2>2, <2>3, Asking
  <2> QED
    BY <2>1, <2>4, <1>6 DEF LabelingFlags, More, EditorLow
<1>27. CASE \E r \in Rows : LabelingSelect(r)
  <2>1. PICK r \in Rows : LabelingSelect(r)
    BY <1>27
  <2>2. Room(1) /\ ui.ed # None /\ ui' = [ui EXCEPT !.ed = EditorUi(r)] /\ net' = Send(Unmounted(net), "load", EditorCall(r, None, "no"))
    BY <2>1 DEF LabelingSelect, EditorLoad, Ed
  <2>3. Sets(EditorUi(r), ui.loading)
    BY <1>1, <2>2
  <2> DEFINE m == Unmounted(net)
             c(t) == [net[t] EXCEPT !.a.gone = TRUE, !.a.meta = ui.ed.meta]
  <2>4. m = [t \in Slots |-> IF net[t] = NoCall \/ net[t].k = "list" THEN net[t] ELSE c(t)]
    BY Zenon DEF Unmounted, Ed
  <2>5. ASSUME NEW t \in Slots, net[t] # NoCall
        PROVE  IsCall(c(t)) /\ c(t).k = net[t].k /\ (EditorsCall(net[t].a) => EditorsCall(c(t).a) /\ c(t).a.gone)
    <3>1. IsCall(net[t])
      BY <1>1, <2>5 DEF CallsIn
    <3>2. c(t) = [net[t] EXCEPT !.a = [[@ EXCEPT !.gone = TRUE] EXCEPT !.meta = ui.ed.meta]]
      BY <3>1 DEF IsCall
    <3>3. IsCall(c(t)) /\ c(t).k = net[t].k /\ c(t).a = [[net[t].a EXCEPT !.gone = TRUE] EXCEPT !.meta = ui.ed.meta]
      BY <3>1, <3>2 DEF IsCall
    <3> QED
      BY <3>3 DEF EditorsCall
  <2> HIDE DEF c, m
  <2>6. CallsIn(m)
    BY <1>1, <2>4, <2>5 DEF CallsIn
  <2>7. \E i \in Slots : m[i] = NoCall
    BY <2>2, <2>4, RoomIsIdle
  <2>8. \A t \in Slots : (m[t] # NoCall /\ KindOf("labeling", m[t]) = "doc") => KindOf("labeling", net[t]) = "doc" /\ net[t] # NoCall
    <3> SUFFICES ASSUME NEW t \in Slots, m[t] # NoCall, KindOf("labeling", m[t]) = "doc"
                 PROVE  KindOf("labeling", net[t]) = "doc" /\ net[t] # NoCall
      OBVIOUS
    <3>1. CASE m[t] = net[t]
      BY <3>1
    <3>2. CASE m[t] # net[t]
      <4>1. m[t] = c(t) /\ net[t] # NoCall /\ net[t].k # "list"
        BY <2>4, <3>2
      <4>2. IsCall(c(t)) /\ c(t).k = net[t].k /\ (EditorsCall(net[t].a) => EditorsCall(c(t).a) /\ c(t).a.gone)
        BY <2>5, <4>1
      <4>3. ~EditorsCall(net[t].a)
        <5> SUFFICES ASSUME EditorsCall(net[t].a) PROVE FALSE
          OBVIOUS
        <5>1. KindOf("labeling", m[t]) = "other"
          BY <4>1, <4>2 DEF KindOf, Kind, EditorKind
        <5> QED
          BY <5>1
      <4> QED
        BY <4>1, <4>3 DEF KindOf, Kind, EditorKind
    <3> QED
      BY <3>1, <3>2
  <2>9. ~Waits("labeling", m, {"doc"})
    BY <2>8 DEF LabelingFlags, Waits
  <2>10. ui.loading => Waits("labeling", m, {"list"})
    <3> SUFFICES ASSUME ui.loading PROVE Waits("labeling", m, {"list"})
      OBVIOUS
    <3>1. PICK t \in Slots : net[t] # NoCall /\ KindOf("labeling", net[t]) = "list"
      BY DEF LabelingFlags, Waits
    <3>2. net[t].k = "list"
      BY <3>1 DEF KindOf, Kind, EditorKind
    <3>3. m[t] = net[t]
      BY <2>4, <3>2
    <3> QED
      BY <3>1, <3>3 DEF Waits
  <2>11. Kind("labeling", "load", EditorCall(r, None, "no")) = "load"
    BY DEF Kind, EditorKind, Marks, EditorCall, EditorsCall
  <2>12. More("labeling", m, net', "load")
    BY <2>2, <2>6, <2>7, <2>11, SendMore DEF m
  <2> QED
    BY <2>3, <2>9, <2>10, <2>12 DEF LabelingFlags, More, EditorUi, EditorLow, HasFlags
<1>28. CASE Busy(s) /\ net[s].k = "list" /\ LabelingListed(s) /\ Ok(s) /\ ui.ed = None
  <2>0. Busy(s) /\ net[s].k = "list" /\ Resume(s, [[ui EXCEPT !.loading = FALSE, !.rows = Got(s, @)] EXCEPT !.ed = EditorUi(Fresh(NoRows))], EditorLoad(Rest(s), Fresh(NoRows)))
    BY <1>28, Zenon DEF LabelingListed, Ed, EditorLow, HasFlags
  <2>1. Sets(ui'.ed, FALSE) /\ EditorLow(ui'.ed, TRUE, FALSE, FALSE, FALSE)
    BY <1>1, <2>0, <1>4, <1>5, <1>8 DEF Resume, EditorLoad, EditorUi, EditorLow, HasFlags
  <2>2. net' = Send(Rest(s), "load", EditorCall(Fresh(NoRows), None, "no"))
    BY <2>0 DEF Resume, EditorLoad, EditorUi, EditorLow, HasFlags
  <2>3. Kind("labeling", "load", EditorCall(Fresh(NoRows), None, "no")) = "load"
    BY <2>0 DEF Kind, Marks, EditorCall, EditorsCall, EditorKind
  <2>4. Busy(s) /\ Kind("labeling", net[s].k, net[s].a) = "list"
    BY <1>2, <1>4, <2>0
  <2>5. Swap("labeling", net, net', "list", "load")
    BY <1>1, <2>2, <2>3, <2>4, Chaining
  <2> QED
    BY <2>1, <2>5, <1>6 DEF LabelingFlags, Swap, EditorLow
<1>29. CASE Busy(s) /\ net[s].k = "list" /\ LabelingListed(s) /\ ~(Ok(s) /\ ui.ed = None)
  <2>1. Sets(ui.ed, FALSE)
    BY <1>1, <1>29, <1>4, <1>5, <1>8 DEF LabelingListed, Resume, Ed
  <2>2. net' = Rest(s)
    BY <1>29 DEF LabelingListed, Resume, Ed
  <2>3. Busy(s) /\ Kind("labeling", net[s].k, net[s].a) = "list"
    BY <1>2, <1>4, <1>29
  <2>4. Less("labeling", net, net', "list")
    BY <1>1, <2>2, <2>3, Ending
  <2> QED
    BY <2>1, <2>4, <1>6 DEF LabelingFlags, Less, EditorLow
<1>30. CASE Busy(s) /\ net[s].k = "load" /\ EditorLoaded(s) /\ net[s].a.gone
  <2>1. Sets(ui.ed, ui.loading)
    BY <1>1, <1>30, <1>4, <1>5, <1>8 DEF EditorLoaded, Resume, EditorSets
  <2>2. net' = Rest(s)
    BY <1>30 DEF EditorLoaded, Resume, EditorSets
  <2>3. Busy(s) /\ Kind("labeling", net[s].k, net[s].a) = "other"
    BY <1>3, <1>4, <1>30
  <2>4. Less("labeling", net, net', "other")
    BY <1>1, <2>2, <2>3, Ending
  <2> QED
    BY <2>1, <2>4, <1>6 DEF LabelingFlags, Less, EditorLow
<1>31. CASE Busy(s) /\ net[s].k = "boxes" /\ EditorBoxesSaved(s) /\ net[s].a.gone /\ (net[s].a.then = "no" \/ ~Ok(s))
  <2>1. Sets(ui.ed, ui.loading)
    BY <1>1, <1>31, <1>4, <1>5, <1>8 DEF EditorBoxesSaved, Resume, EditorSets
  <2>2. net' = Rest(s)
    BY <1>31 DEF EditorBoxesSaved, Resume, EditorSets
  <2>3. Busy(s) /\ Kind("labeling", net[s].k, net[s].a) = "other"
    BY <1>3, <1>4, <1>31
  <2>4. Less("labeling", net, net', "other")
    BY <1>1, <2>2, <2>3, Ending
  <2> QED
    BY <2>1, <2>4, <1>6 DEF LabelingFlags, Less, EditorLow
<1>32. CASE Busy(s) /\ net[s].k = "meta" /\ EditorMetaSaved(s) /\ net[s].a.gone /\ (net[s].a.then \notin {"completed", "split", "json"} \/ ~Ok(s))
  <2>1. Sets(ui.ed, ui.loading)
    BY <1>1, <1>32, <1>4, <1>5, <1>8 DEF EditorMetaSaved, Resume, EditorSets
  <2>2. net' = Rest(s)
    BY <1>32 DEF EditorMetaSaved, Resume, EditorSets
  <2>3. Busy(s) /\ Kind("labeling", net[s].k, net[s].a) = "other"
    BY <1>3, <1>4, <1>32
  <2>4. Less("labeling", net, net', "other")
    BY <1>1, <2>2, <2>3, Ending
  <2> QED
    BY <2>1, <2>4, <1>6 DEF LabelingFlags, Less, EditorLow
<1>33. CASE Busy(s) /\ net[s].k = "status" /\ EditorStatusSet(s) /\ net[s].a.gone
  <2>1. Sets(ui.ed, ui.loading)
    BY <1>1, <1>33, <1>4, <1>5, <1>8 DEF EditorStatusSet, Resume, EditorSets
  <2>2. net' = Rest(s)
    BY <1>33 DEF EditorStatusSet, Resume, EditorSets
  <2>3. Busy(s) /\ Kind("labeling", net[s].k, net[s].a) = "other"
    BY <1>3, <1>4, <1>33
  <2>4. Less("labeling", net, net', "other")
    BY <1>1, <2>2, <2>3, Ending
  <2> QED
    BY <2>1, <2>4, <1>6 DEF LabelingFlags, Less, EditorLow
<1>34. CASE Busy(s) /\ net[s].k = "crops" /\ EditorExported(s) /\ net[s].a.gone
  <2>1. Sets(ui.ed, ui.loading)
    BY <1>1, <1>34, <1>4, <1>5, <1>8 DEF EditorExported, Resume, EditorSets
  <2>2. net' = Rest(s)
    BY <1>34 DEF EditorExported, Resume, EditorSets
  <2>3. Busy(s) /\ Kind("labeling", net[s].k, net[s].a) = "other"
    BY <1>3, <1>4, <1>34
  <2>4. Less("labeling", net, net', "other")
    BY <1>1, <2>2, <2>3, Ending
  <2> QED
    BY <2>1, <2>4, <1>6 DEF LabelingFlags, Less, EditorLow
<1>35. CASE Busy(s) /\ net[s].k = "export" /\ EditorExported(s) /\ net[s].a.gone
  <2>1. Sets(ui.ed, ui.loading)
    BY <1>1, <1>35, <1>4, <1>5, <1>8 DEF EditorExported, Resume, EditorSets
  <2>2. net' = Rest(s)
    BY <1>35 DEF EditorExported, Resume, EditorSets
  <2>3. Busy(s) /\ Kind("labeling", net[s].k, net[s].a) = "other"
    BY <1>3, <1>4, <1>35
  <2>4. Less("labeling", net, net', "other")
    BY <1>1, <2>2, <2>3, Ending
  <2> QED
    BY <2>1, <2>4, <1>6 DEF LabelingFlags, Less, EditorLow
<1>36. CASE Busy(s) /\ net[s].k = "detect" /\ EditorDetected(s) /\ net[s].a.gone
  <2>1. Sets(ui.ed, ui.loading)
    BY <1>1, <1>36, <1>4, <1>5, <1>8 DEF EditorDetected, Resume, EditorSets
  <2>2. net' = Rest(s)
    BY <1>36 DEF EditorDetected, Resume, EditorSets
  <2>3. Busy(s) /\ Kind("labeling", net[s].k, net[s].a) = "other"
    BY <1>3, <1>4, <1>36
  <2>4. Less("labeling", net, net', "other")
    BY <1>1, <2>2, <2>3, Ending
  <2> QED
    BY <2>1, <2>4, <1>6 DEF LabelingFlags, Less, EditorLow
<1>37. CASE Busy(s) /\ net[s].k = "boxes" /\ EditorBoxesSaved(s) /\ net[s].a.gone /\ net[s].a.then # "no" /\ Ok(s)
  <2>1. Sets(ui.ed, ui.loading)
    BY <1>1, <1>37, <1>4, <1>5, <1>8 DEF EditorBoxesSaved, Resume
  <2>2. net' = Send(Rest(s), "meta", [net[s].a EXCEPT !.val = net[s].a.meta])
    BY <1>37 DEF EditorBoxesSaved, Resume
  <2>3. Kind("labeling", "meta", [net[s].a EXCEPT !.val = net[s].a.meta]) = "other"
    BY <1>3, <1>4, <1>37 DEF EditorKind, EditorsCall
  <2>4. Busy(s) /\ Kind("labeling", net[s].k, net[s].a) = "other"
    BY <1>3, <1>4, <1>37
  <2>5. Swap("labeling", net, net', "other", "other")
    BY <1>1, <2>2, <2>3, <2>4, Chaining
  <2> QED
    BY <2>1, <2>5, <1>6 DEF LabelingFlags, Swap, EditorLow
<1>38. CASE Busy(s) /\ net[s].k = "meta" /\ EditorMetaSaved(s) /\ net[s].a.gone /\ net[s].a.then = "completed" /\ Ok(s)
  <2>1. Sets(ui.ed, ui.loading)
    BY <1>1, <1>38, <1>4, <1>5, <1>8 DEF EditorMetaSaved, Resume
  <2>2. net' = Send(Rest(s), "status", [net[s].a EXCEPT !.val = "completed"])
    BY <1>38 DEF EditorMetaSaved, Resume
  <2>3. Kind("labeling", "status", [net[s].a EXCEPT !.val = "completed"]) = "other"
    BY <1>3, <1>4, <1>38 DEF EditorKind, EditorsCall
  <2>4. Busy(s) /\ Kind("labeling", net[s].k, net[s].a) = "other"
    BY <1>3, <1>4, <1>38
  <2>5. Swap("labeling", net, net', "other", "other")
    BY <1>1, <2>2, <2>3, <2>4, Chaining
  <2> QED
    BY <2>1, <2>5, <1>6 DEF LabelingFlags, Swap, EditorLow
<1>39. CASE Busy(s) /\ net[s].k = "meta" /\ EditorMetaSaved(s) /\ ~net[s].a.gone /\ net[s].a.then = "completed" /\ Ok(s)
  <2>1. Sets(ui.ed, ui.loading)
    BY <1>1, <1>39, <1>4, <1>5, <1>8 DEF EditorMetaSaved, Resume
  <2>2. net' = Send(Rest(s), "status", [net[s].a EXCEPT !.val = "completed"])
    BY <1>39 DEF EditorMetaSaved, Resume
  <2>3. Kind("labeling", "status", [net[s].a EXCEPT !.val = "completed"]) = "status"
    BY <1>3, <1>4, <1>39 DEF EditorKind, EditorsCall
  <2>4. Busy(s) /\ Kind("labeling", net[s].k, net[s].a) = "meta"
    BY <1>3, <1>4, <1>39
  <2>5. Swap("labeling", net, net', "meta", "status")
    BY <1>1, <2>2, <2>3, <2>4, Chaining
  <2> QED
    BY <2>1, <2>5, <1>6 DEF LabelingFlags, Swap, EditorLow
<1>40. CASE Busy(s) /\ net[s].k = "meta" /\ EditorMetaSaved(s) /\ net[s].a.gone /\ net[s].a.then = "split" /\ Ok(s)
  <2>1. Sets(ui.ed, ui.loading)
    BY <1>1, <1>40, <1>4, <1>5, <1>8 DEF EditorMetaSaved, Resume
  <2>2. net' = Send(Rest(s), "crops", [net[s].a EXCEPT !.val = None])
    BY <1>40 DEF EditorMetaSaved, Resume
  <2>3. Kind("labeling", "crops", [net[s].a EXCEPT !.val = None]) = "other"
    BY <1>3, <1>4, <1>40 DEF EditorKind, EditorsCall
  <2>4. Busy(s) /\ Kind("labeling", net[s].k, net[s].a) = "other"
    BY <1>3, <1>4, <1>40
  <2>5. Swap("labeling", net, net', "other", "other")
    BY <1>1, <2>2, <2>3, <2>4, Chaining
  <2> QED
    BY <2>1, <2>5, <1>6 DEF LabelingFlags, Swap, EditorLow
<1>41. CASE Busy(s) /\ net[s].k = "meta" /\ EditorMetaSaved(s) /\ ~net[s].a.gone /\ net[s].a.then = "split" /\ Ok(s)
  <2>1. Sets(ui.ed, ui.loading)
    BY <1>1, <1>41, <1>4, <1>5, <1>8 DEF EditorMetaSaved, Resume
  <2>2. net' = Send(Rest(s), "crops", [net[s].a EXCEPT !.val = None])
    BY <1>41 DEF EditorMetaSaved, Resume
  <2>3. Kind("labeling", "crops", [net[s].a EXCEPT !.val = None]) = "awaited"
    BY <1>3, <1>4, <1>41 DEF EditorKind, EditorsCall
  <2>4. Busy(s) /\ Kind("labeling", net[s].k, net[s].a) = "awaited"
    BY <1>3, <1>4, <1>41
  <2>5. Swap("labeling", net, net', "awaited", "awaited")
    BY <1>1, <2>2, <2>3, <2>4, Chaining
  <2> QED
    BY <2>1, <2>5, <1>6 DEF LabelingFlags, Swap, EditorLow
<1>42. CASE Busy(s) /\ net[s].k = "meta" /\ EditorMetaSaved(s) /\ net[s].a.gone /\ net[s].a.then = "json" /\ Ok(s)
  <2>1. Sets(ui.ed, ui.loading)
    BY <1>1, <1>42, <1>4, <1>5, <1>8 DEF EditorMetaSaved, Resume
  <2>2. net' = Send(Rest(s), "export", [net[s].a EXCEPT !.val = None])
    BY <1>42 DEF EditorMetaSaved, Resume
  <2>3. Kind("labeling", "export", [net[s].a EXCEPT !.val = None]) = "other"
    BY <1>3, <1>4, <1>42 DEF EditorKind, EditorsCall
  <2>4. Busy(s) /\ Kind("labeling", net[s].k, net[s].a) = "other"
    BY <1>3, <1>4, <1>42
  <2>5. Swap("labeling", net, net', "other", "other")
    BY <1>1, <2>2, <2>3, <2>4, Chaining
  <2> QED
    BY <2>1, <2>5, <1>6 DEF LabelingFlags, Swap, EditorLow
<1>43. CASE Busy(s) /\ net[s].k = "meta" /\ EditorMetaSaved(s) /\ ~net[s].a.gone /\ net[s].a.then = "json" /\ Ok(s)
  <2>1. Sets(ui.ed, ui.loading)
    BY <1>1, <1>43, <1>4, <1>5, <1>8 DEF EditorMetaSaved, Resume
  <2>2. net' = Send(Rest(s), "export", [net[s].a EXCEPT !.val = None])
    BY <1>43 DEF EditorMetaSaved, Resume
  <2>3. Kind("labeling", "export", [net[s].a EXCEPT !.val = None]) = "export"
    BY <1>3, <1>4, <1>43 DEF EditorKind, EditorsCall
  <2>4. Busy(s) /\ Kind("labeling", net[s].k, net[s].a) = "meta"
    BY <1>3, <1>4, <1>43
  <2>5. Swap("labeling", net, net', "meta", "export")
    BY <1>1, <2>2, <2>3, <2>4, Chaining
  <2> QED
    BY <2>1, <2>5, <1>6 DEF LabelingFlags, Swap, EditorLow
<1>44. CASE Busy(s) /\ net[s].k = "load" /\ EditorLoaded(s) /\ ~net[s].a.gone
  <2>1. Sets(ui'.ed, ui.loading) /\ EditorLow(ui'.ed, FALSE, ui.ed.saving, ui.ed.splitting, ui.ed.detecting)
    BY <1>1, <1>44, <1>4, <1>5, <1>8 DEF EditorLoaded, Resume, EditorLow, HasFlags, Ed, EditorSets, EditorDone
  <2>2. net' = Rest(s)
    BY <1>44 DEF EditorLoaded, Resume, EditorLow, HasFlags, Ed, EditorSets, EditorDone
  <2>3. Busy(s) /\ Kind("labeling", net[s].k, net[s].a) = "load"
    BY <1>3, <1>4, <1>44
  <2>4. Less("labeling", net, net', "load")
    BY <1>1, <2>2, <2>3, Ending
  <2> QED
    BY <2>1, <2>4, <1>6 DEF LabelingFlags, Less, EditorLow
<1>45. CASE Busy(s) /\ net[s].k = "status" /\ EditorStatusSet(s) /\ ~net[s].a.gone
  <2>1. Sets(ui'.ed, ui.loading) /\ EditorLow(ui'.ed, ui.ed.loading, ui.ed.saving, ui.ed.splitting, ui.ed.detecting)
    BY <1>1, <1>45, <1>4, <1>5, <1>8
      DEF EditorStatusSet, Resume, EditorLow, HasFlags, Ed, EditorSets, EditorDone
  <2>2. net' = Rest(s)
    BY <1>45 DEF EditorStatusSet, Resume, EditorLow, HasFlags, Ed, EditorSets, EditorDone
  <2>3. Busy(s) /\ Kind("labeling", net[s].k, net[s].a) = "status"
    BY <1>3, <1>4, <1>45
  <2>4. Less("labeling", net, net', "status")
    BY <1>1, <2>2, <2>3, Ending
  <2> QED
    BY <2>1, <2>4, <1>6 DEF LabelingFlags, Less, EditorLow
<1>46. CASE Busy(s) /\ net[s].k = "export" /\ EditorExported(s) /\ ~net[s].a.gone
  <2>1. Sets(ui'.ed, ui.loading) /\ EditorLow(ui'.ed, ui.ed.loading, ui.ed.saving, ui.ed.splitting, ui.ed.detecting)
    BY <1>1, <1>46, <1>4, <1>5, <1>8
      DEF EditorExported, Resume, EditorLow, HasFlags, Ed, EditorSets, EditorDone
  <2>2. net' = Rest(s)
    BY <1>46 DEF EditorExported, Resume, EditorLow, HasFlags, Ed, EditorSets, EditorDone
  <2>3. Busy(s) /\ Kind("labeling", net[s].k, net[s].a) = "export"
    BY <1>3, <1>4, <1>46
  <2>4. Less("labeling", net, net', "export")
    BY <1>1, <2>2, <2>3, Ending
  <2> QED
    BY <2>1, <2>4, <1>6 DEF LabelingFlags, Less, EditorLow
<1>47. CASE Busy(s) /\ net[s].k = "detect" /\ EditorDetected(s) /\ ~net[s].a.gone
  <2>1. Sets(ui'.ed, ui.loading) /\ EditorLow(ui'.ed, ui.ed.loading, ui.ed.saving, ui.ed.splitting, FALSE)
    BY <1>1, <1>47, <1>4, <1>5, <1>8
      DEF EditorDetected, Resume, EditorLow, HasFlags, Ed, EditorSets, EditorDone
  <2>2. net' = Rest(s)
    BY <1>47 DEF EditorDetected, Resume, EditorLow, HasFlags, Ed, EditorSets, EditorDone
  <2>3. Busy(s) /\ Kind("labeling", net[s].k, net[s].a) = "detect"
    BY <1>3, <1>4, <1>47
  <2>4. Less("labeling", net, net', "detect")
    BY <1>1, <2>2, <2>3, Ending
  <2> QED
    BY <2>1, <2>4, <1>6 DEF LabelingFlags, Less, EditorLow
<1>48. CASE Busy(s) /\ net[s].k = "crops" /\ EditorExported(s) /\ ~net[s].a.gone /\ net[s].a.then = "split"
  <2>1. Sets(ui'.ed, ui.loading) /\ EditorLow(ui'.ed, ui.ed.loading, ui.ed.saving, FALSE, ui.ed.detecting)
    BY <1>1, <1>48, <1>4, <1>5, <1>8
      DEF EditorExported, Resume, EditorLow, HasFlags, Ed, EditorSets, EditorDone
  <2>2. net' = Rest(s)
    BY <1>48 DEF EditorExported, Resume, EditorLow, HasFlags, Ed, EditorSets, EditorDone
  <2>3. Busy(s) /\ Kind("labeling", net[s].k, net[s].a) = "awaited"
    BY <1>3, <1>4, <1>48
  <2>4. Less("labeling", net, net', "awaited")
    BY <1>1, <2>2, <2>3, Ending
  <2> QED
    BY <2>1, <2>4, <1>6 DEF LabelingFlags, Less, EditorLow
<1>49. CASE Busy(s) /\ net[s].k = "crops" /\ EditorExported(s) /\ ~net[s].a.gone /\ net[s].a.then # "split"
  <2>1. Sets(ui'.ed, ui.loading) /\ EditorLow(ui'.ed, ui.ed.loading, ui.ed.saving, ui.ed.splitting, ui.ed.detecting)
    BY <1>1, <1>49, <1>4, <1>5, <1>8
      DEF EditorExported, Resume, EditorLow, HasFlags, Ed, EditorSets, EditorDone
  <2>2. net' = Rest(s)
    BY <1>49 DEF EditorExported, Resume, EditorLow, HasFlags, Ed, EditorSets, EditorDone
  <2>3. Busy(s) /\ Kind("labeling", net[s].k, net[s].a) = "crops"
    BY <1>3, <1>4, <1>49
  <2>4. Less("labeling", net, net', "crops")
    BY <1>1, <2>2, <2>3, Ending
  <2> QED
    BY <2>1, <2>4, <1>6 DEF LabelingFlags, Less, EditorLow
<1>50. CASE Busy(s) /\ net[s].k = "boxes" /\ EditorBoxesSaved(s) /\ ~net[s].a.gone /\ net[s].a.then = "split" /\ ~Ok(s)
  <2>1. Sets(ui'.ed, ui.loading) /\ EditorLow(ui'.ed, ui.ed.loading, ui.ed.saving, FALSE, ui.ed.detecting)
    BY <1>1, <1>50, <1>4, <1>5, <1>8
      DEF EditorBoxesSaved, Resume, EditorLow, HasFlags, Ed, EditorSets, EditorDone
  <2>2. net' = Rest(s)
    BY <1>50 DEF EditorBoxesSaved, Resume, EditorLow, HasFlags, Ed, EditorSets, EditorDone
  <2>3. Busy(s) /\ Kind("labeling", net[s].k, net[s].a) = "awaited"
    BY <1>3, <1>4, <1>50
  <2>4. Less("labeling", net, net', "awaited")
    BY <1>1, <2>2, <2>3, Ending
  <2> QED
    BY <2>1, <2>4, <1>6 DEF LabelingFlags, Less, EditorLow
<1>51. CASE Busy(s) /\ net[s].k = "boxes" /\ EditorBoxesSaved(s) /\ ~net[s].a.gone /\ net[s].a.then \in {"json", "completed"} /\ ~Ok(s)
  <2>1. Sets(ui'.ed, ui.loading) /\ EditorLow(ui'.ed, ui.ed.loading, ui.ed.saving, ui.ed.splitting, ui.ed.detecting)
    BY <1>1, <1>51, <1>4, <1>5, <1>8
      DEF EditorBoxesSaved, Resume, EditorLow, HasFlags, Ed, EditorSets, EditorDone
  <2>2. net' = Rest(s)
    BY <1>51 DEF EditorBoxesSaved, Resume, EditorLow, HasFlags, Ed, EditorSets, EditorDone
  <2>3. Busy(s) /\ Kind("labeling", net[s].k, net[s].a) = "boxes"
    BY <1>3, <1>4, <1>51
  <2>4. Less("labeling", net, net', "boxes")
    BY <1>1, <2>2, <2>3, Ending
  <2> QED
    BY <2>1, <2>4, <1>6 DEF LabelingFlags, Less, EditorLow
<1>52. CASE Busy(s) /\ net[s].k = "boxes" /\ EditorBoxesSaved(s) /\ ~net[s].a.gone /\ net[s].a.then = "no" /\ Ok(s)
  <2>1. HasFlags(ui.ed)
    BY <1>8, <1>52
  <2> DEFINE e == [ui.ed EXCEPT !.saving = FALSE, !.status = net[s].r.status]
  <2>2. ui' = [ui EXCEPT !.ed = e] /\ net' = Rest(s)
    BY <1>52, Zenon DEF EditorBoxesSaved, EditorSets, Resume, Ed
  <2>3. EditorLow(e, ui.ed.loading, FALSE, ui.ed.splitting, ui.ed.detecting)
    BY <2>1 DEF EditorLow, HasFlags
  <2> HIDE DEF e
  <2>4. Sets(e, ui.loading)
    BY <1>1, <2>2
  <2>5. Busy(s) /\ Kind("labeling", net[s].k, net[s].a) = "later"
    BY <1>3, <1>4, <1>52
  <2>6. Less("labeling", net, net', "later")
    BY <1>1, <2>2, <2>5, Ending
  <2> QED
    BY <1>6, <2>3, <2>4, <2>6 DEF LabelingFlags, Less, EditorLow
<1>53. CASE Busy(s) /\ net[s].k = "boxes" /\ EditorBoxesSaved(s) /\ ~net[s].a.gone /\ net[s].a.then = "no" /\ ~Ok(s)
  <2>1. Sets(ui'.ed, ui.loading) /\ EditorLow(ui'.ed, ui.ed.loading, FALSE, ui.ed.splitting, ui.ed.detecting)
    BY <1>1, <1>53, <1>4, <1>5, <1>8
      DEF EditorBoxesSaved, Resume, EditorLow, HasFlags, Ed, EditorSets, EditorDone
  <2>2. net' = Rest(s)
    BY <1>53 DEF EditorBoxesSaved, Resume, EditorLow, HasFlags, Ed, EditorSets, EditorDone
  <2>3. Busy(s) /\ Kind("labeling", net[s].k, net[s].a) = "later"
    BY <1>3, <1>4, <1>53
  <2>4. Less("labeling", net, net', "later")
    BY <1>1, <2>2, <2>3, Ending
  <2> QED
    BY <2>1, <2>4, <1>6 DEF LabelingFlags, Less, EditorLow
<1>54. CASE Busy(s) /\ net[s].k = "boxes" /\ EditorBoxesSaved(s) /\ ~net[s].a.gone /\ net[s].a.then \notin {"split", "json", "completed"} /\ net[s].a.then # "no" /\ ~Ok(s)
  <2>1. Sets(ui'.ed, ui.loading) /\ EditorLow(ui'.ed, ui.ed.loading, FALSE, ui.ed.splitting, ui.ed.detecting)
    BY <1>1, <1>54, <1>4, <1>5, <1>8
      DEF EditorBoxesSaved, Resume, EditorLow, HasFlags, Ed, EditorSets, EditorDone
  <2>2. net' = Rest(s)
    BY <1>54 DEF EditorBoxesSaved, Resume, EditorLow, HasFlags, Ed, EditorSets, EditorDone
  <2>3. Busy(s) /\ Kind("labeling", net[s].k, net[s].a) = "later"
    BY <1>3, <1>4, <1>54
  <2>4. Less("labeling", net, net', "later")
    BY <1>1, <2>2, <2>3, Ending
  <2> QED
    BY <2>1, <2>4, <1>6 DEF LabelingFlags, Less, EditorLow
<1>55. CASE Busy(s) /\ net[s].k = "boxes" /\ EditorBoxesSaved(s) /\ ~net[s].a.gone /\ net[s].a.then = "split" /\ Ok(s)
  <2>1. Sets(ui.ed, ui.loading)
    BY <1>1, <1>55, <1>4, <1>5, <1>8 DEF EditorBoxesSaved, Resume, Ed
  <2>2. net' = Send(Rest(s), "meta", [net[s].a EXCEPT !.val = ui.ed.meta])
    BY <1>55 DEF EditorBoxesSaved, Resume, Ed
  <2>3. Kind("labeling", "meta", [net[s].a EXCEPT !.val = ui.ed.meta]) = "awaited"
    BY <1>3, <1>4, <1>55 DEF EditorKind, EditorsCall
  <2>4. Busy(s) /\ Kind("labeling", net[s].k, net[s].a) = "awaited"
    BY <1>3, <1>4, <1>55
  <2>5. Swap("labeling", net, net', "awaited", "awaited")
    BY <1>1, <2>2, <2>3, <2>4, Chaining
  <2> QED
    BY <2>1, <2>5, <1>6 DEF LabelingFlags, Swap, EditorLow
<1>56. CASE Busy(s) /\ net[s].k = "boxes" /\ EditorBoxesSaved(s) /\ ~net[s].a.gone /\ net[s].a.then \in {"json", "completed"} /\ Ok(s)
  <2>1. Sets(ui.ed, ui.loading)
    BY <1>1, <1>56, <1>4, <1>5, <1>8 DEF EditorBoxesSaved, Resume, Ed
  <2>2. net' = Send(Rest(s), "meta", [net[s].a EXCEPT !.val = ui.ed.meta])
    BY <1>56 DEF EditorBoxesSaved, Resume, Ed
  <2>3. Kind("labeling", "meta", [net[s].a EXCEPT !.val = ui.ed.meta]) = "meta"
    BY <1>3, <1>4, <1>56 DEF EditorKind, EditorsCall
  <2>4. Busy(s) /\ Kind("labeling", net[s].k, net[s].a) = "boxes"
    BY <1>3, <1>4, <1>56
  <2>5. Swap("labeling", net, net', "boxes", "meta")
    BY <1>1, <2>2, <2>3, <2>4, Chaining
  <2> QED
    BY <2>1, <2>5, <1>6 DEF LabelingFlags, Swap, EditorLow
<1>57. CASE Busy(s) /\ net[s].k = "boxes" /\ EditorBoxesSaved(s) /\ ~net[s].a.gone /\ net[s].a.then \notin {"no", "split", "json", "completed"} /\ Ok(s)
  <2>1. Sets(ui.ed, ui.loading)
    BY <1>1, <1>57, <1>4, <1>5, <1>8 DEF EditorBoxesSaved, Resume, Ed
  <2>2. net' = Send(Rest(s), "meta", [net[s].a EXCEPT !.val = ui.ed.meta])
    BY <1>57 DEF EditorBoxesSaved, Resume, Ed
  <2>3. Kind("labeling", "meta", [net[s].a EXCEPT !.val = ui.ed.meta]) = "later"
    BY <1>3, <1>4, <1>57 DEF EditorKind, EditorsCall
  <2>4. Busy(s) /\ Kind("labeling", net[s].k, net[s].a) = "later"
    BY <1>3, <1>4, <1>57
  <2>5. Swap("labeling", net, net', "later", "later")
    BY <1>1, <2>2, <2>3, <2>4, Chaining
  <2> QED
    BY <2>1, <2>5, <1>6 DEF LabelingFlags, Swap, EditorLow
<1>58. CASE Busy(s) /\ net[s].k = "meta" /\ EditorMetaSaved(s) /\ ~net[s].a.gone /\ net[s].a.then = "split" /\ ~Ok(s)
  <2>1. Sets(ui'.ed, ui.loading) /\ EditorLow(ui'.ed, ui.ed.loading, ui.ed.saving, FALSE, ui.ed.detecting)
    BY <1>1, <1>58, <1>4, <1>5, <1>8
      DEF EditorMetaSaved, Resume, EditorLow, HasFlags, Ed, EditorSets, EditorDone
  <2>2. net' = Rest(s)
    BY <1>58 DEF EditorMetaSaved, Resume, EditorLow, HasFlags, Ed, EditorSets, EditorDone
  <2>3. Busy(s) /\ Kind("labeling", net[s].k, net[s].a) = "awaited"
    BY <1>3, <1>4, <1>58
  <2>4. Less("labeling", net, net', "awaited")
    BY <1>1, <2>2, <2>3, Ending
  <2> QED
    BY <2>1, <2>4, <1>6 DEF LabelingFlags, Less, EditorLow
<1>59. CASE Busy(s) /\ net[s].k = "meta" /\ EditorMetaSaved(s) /\ ~net[s].a.gone /\ net[s].a.then \in {"json", "completed"} /\ ~Ok(s)
  <2>1. Sets(ui'.ed, ui.loading) /\ EditorLow(ui'.ed, ui.ed.loading, ui.ed.saving, ui.ed.splitting, ui.ed.detecting)
    BY <1>1, <1>59, <1>4, <1>5, <1>8
      DEF EditorMetaSaved, Resume, EditorLow, HasFlags, Ed, EditorSets, EditorDone
  <2>2. net' = Rest(s)
    BY <1>59 DEF EditorMetaSaved, Resume, EditorLow, HasFlags, Ed, EditorSets, EditorDone
  <2>3. Busy(s) /\ Kind("labeling", net[s].k, net[s].a) = "meta"
    BY <1>3, <1>4, <1>59
  <2>4. Less("labeling", net, net', "meta")
    BY <1>1, <2>2, <2>3, Ending
  <2> QED
    BY <2>1, <2>4, <1>6 DEF LabelingFlags, Less, EditorLow
<1>60. CASE Busy(s) /\ net[s].k = "meta" /\ EditorMetaSaved(s) /\ ~net[s].a.gone /\ net[s].a.then \notin {"split", "json", "completed"}
  <2>1. Sets(ui'.ed, ui.loading) /\ EditorLow(ui'.ed, ui.ed.loading, FALSE, ui.ed.splitting, ui.ed.detecting)
    BY <1>1, <1>60, <1>4, <1>5, <1>8
      DEF EditorMetaSaved, Resume, EditorLow, HasFlags, Ed, EditorSets, EditorDone
  <2>2. net' = Rest(s)
    BY <1>60 DEF EditorMetaSaved, Resume, EditorLow, HasFlags, Ed, EditorSets, EditorDone
  <2>3. Busy(s) /\ Kind("labeling", net[s].k, net[s].a) = "later"
    BY <1>3, <1>4, <1>60
  <2>4. Less("labeling", net, net', "later")
    BY <1>1, <2>2, <2>3, Ending
  <2> QED
    BY <2>1, <2>4, <1>6 DEF LabelingFlags, Less, EditorLow
<1>61. (Busy(s) /\ net[s].k = "list" /\ LabelingListed(s)) => LabelingFlags'
  BY <1>28, <1>29
<1>62. (Busy(s) /\ net[s].k = "load" /\ EditorLoaded(s)) => LabelingFlags'
  BY <1>30, <1>44
<1>63. (Busy(s) /\ net[s].k = "boxes" /\ EditorBoxesSaved(s)) => LabelingFlags'
  BY <1>31, <1>37, <1>50, <1>51, <1>52, <1>53, <1>54, <1>55, <1>56, <1>57
<1>64. (Busy(s) /\ net[s].k = "meta" /\ EditorMetaSaved(s)) => LabelingFlags'
  BY <1>32, <1>38, <1>39, <1>40, <1>41, <1>42, <1>43, <1>58, <1>59, <1>60
<1>65. (Busy(s) /\ net[s].k = "status" /\ EditorStatusSet(s)) => LabelingFlags'
  BY <1>33, <1>45
<1>66. (Busy(s) /\ net[s].k = "crops" /\ EditorExported(s)) => LabelingFlags'
  BY <1>34, <1>48, <1>49
<1>67. (Busy(s) /\ net[s].k = "export" /\ EditorExported(s)) => LabelingFlags'
  BY <1>35, <1>46
<1>68. (Busy(s) /\ net[s].k = "detect" /\ EditorDetected(s)) => LabelingFlags'
  BY <1>36, <1>47
<1> QED
  BY <1>4, <1>5, <1>6, <1>7, <1>8, <1>9, <1>10, <1>11, <1>12, <1>13, <1>14, <1>15, <1>16, <1>17, <1>18, <1>19,
    <1>20, <1>21, <1>22, <1>23, <1>24, <1>25, <1>26, <1>27, <1>61, <1>62, <1>63, <1>64, <1>65, <1>66, <1>67,
    <1>68
    DEF LabelingResume

LEMMA LabelingFlagPage ==
    ASSUME screen = "labeling"
    PROVE  /\ Init => LabelingFlags
           /\ LabelingFlags /\ [Next]_vars => LabelingFlags'
           /\ LabelingFlags => SpinnersWaited /\ OneSubmitAtATime
<1>1. ASSUME Init PROVE LabelingFlags
  <2>1. ui = LabelingUi /\ net = Send(NoCalls, "list", None)
    BY <1>1, Zenon DEF Init
  <2>2. DOMAIN ui = {"ed", "rows", "loading", "drawn"} /\ ui.ed = None /\ ui.loading = TRUE
    BY <2>1 DEF LabelingUi
  <2>3. Kind("labeling", "list", None) = "list"
    BY DEF Kind, Marks
  <2>4. More("labeling", NoCalls, net, "list")
    BY <2>1, <2>3, OneYet
  <2> QED
    BY <2>2, <2>4, NoneYet DEF LabelingFlags, More, EditorKinds
<1>2. ASSUME LabelingFlags, [Next]_vars PROVE LabelingFlags'
  <2>1. CASE \E s \in Slots : Serve(s) \/ Fault(s)
    <3>1. CallsIn(net)
      BY <1>2 DEF LabelingFlags
    <3>2. ui' = ui /\ Same("labeling", net, net')
      BY <2>1, <3>1, ServerFlags
    <3> QED
      BY <1>2, <3>2 DEF LabelingFlags, Same, EditorLow
  <2>2. ASSUME NEW s \in Slots, Act \/ Interval \/ Elsewhere \/ Continue(s)
        PROVE  LabelingFlags'
    <3>1. LabelingUser \/ EditorTimer \/ (Busy(s) /\ LabelingResume(s))
      BY <2>2 DEF Act, Interval, Elsewhere, Continue
    <3> QED
      BY <1>2, <3>1, LabelingFlagStep
  <2>3. CASE UNCHANGED vars
    BY <1>2, <2>3 DEF LabelingFlags, vars, EditorLow
  <2> QED
    BY <1>2, <2>1, <2>2, <2>3, SomeSlot DEF Next
<1>3. ASSUME LabelingFlags PROVE SpinnersWaited /\ OneSubmitAtATime
  <2> DEFINE c2 == ui.ed # None /\ ui.ed.loading
             c3 == ui.ed # None /\ ui.ed.saving
             c4 == ui.ed # None /\ ui.ed.splitting
             c5 == ui.ed # None /\ ui.ed.detecting
  <2>1. /\ Spinners = {<<ui.loading, {"list"}>>,
                        <<c2, {"load"}>>,
                        <<c3, {"boxes", "meta"}>>,
                        <<c4, {"boxes", "meta", "crops"}>>,
                        <<c5, {"detect"}>>}
        /\ Submits = {}
    BY DEF Spinners, Submits
  <2>0. /\ Waits("labeling", net, {"load"}) => InFlight({"load"}) # {}
        /\ Waits("labeling", net, {"later"}) => InFlight({"boxes", "meta"}) # {}
        /\ Waits("labeling", net, {"awaited"}) => InFlight({"boxes", "meta", "crops"}) # {}
        /\ Waits("labeling", net, {"detect"}) => InFlight({"detect"}) # {}
    <3>0. ~Waits("labeling", net, {"doc"})
      BY <1>3 DEF LabelingFlags
    <3>1. \A k, a : k # "list" => Kind("labeling", k, a) = EditorKind(k, a)
      BY DEF Kind
    <3>2. \A a : Kind("labeling", "list", a) = "list"
      BY DEF Kind, Marks
    <3>3. ASSUME NEW t \in Slots, net[t] # NoCall PROVE net[t].k = "list" \/ EditorsCall(net[t].a)
      BY <3>0, <3>1, <3>3 DEF Waits, KindOf, EditorKind
    <3>4. ASSUME NEW t \in Slots, net[t] # NoCall, KindOf("labeling", net[t]) \in {"load", "detect"}
          PROVE  net[t].k = KindOf("labeling", net[t])
      BY <3>1, <3>2, <3>3, <3>4 DEF KindOf, EditorKind
    <3>5. ASSUME NEW t \in Slots, net[t] # NoCall, KindOf("labeling", net[t]) = "later"
          PROVE  net[t].k \in {"boxes", "meta"}
      BY <3>1, <3>2, <3>3, <3>5 DEF KindOf, EditorKind, Marks
    <3>6. ASSUME NEW t \in Slots, net[t] # NoCall, KindOf("labeling", net[t]) = "awaited"
          PROVE  net[t].k \in {"boxes", "meta", "crops"}
      BY <3>1, <3>2, <3>3, <3>6 DEF KindOf, EditorKind, Marks
    <3> QED
      BY <3>4, <3>5, <3>6 DEF Waits, InFlight, Busy
  <2>2. ui.loading => InFlight({"list"}) # {}
    <3>1. \A k, a : Kind("labeling", k, a) \in {"list"} => k \in {"list"}
      BY DEF Kind, Marks, EditorKind
    <3> QED
      BY <1>3, <3>1, WaitsIsInFlight DEF LabelingFlags
  <2>3. c2 => InFlight({"load"}) # {}
    BY <1>3, <2>0 DEF LabelingFlags, EditorLow
  <2>4. c3 => InFlight({"boxes", "meta"}) # {}
    BY <1>3, <2>0 DEF LabelingFlags, EditorLow
  <2>5. c4 => InFlight({"boxes", "meta", "crops"}) # {}
    BY <1>3, <2>0 DEF LabelingFlags, EditorLow
  <2>6. c5 => InFlight({"detect"}) # {}
    BY <1>3, <2>0 DEF LabelingFlags, EditorLow
  <2> HIDE DEF c2, c3, c4, c5
  <2> QED
    BY <2>1, <2>2, <2>3, <2>4, <2>5, <2>6 DEF SpinnersWaited, OneSubmitAtATime
<1> QED
  BY <1>1, <1>2, <1>3

----------------------------------------------------------------------------
(* The playground.                                                         *)

\* The buttons of an answer wait for their rating.
Rating(b, m) ==
    b # None => /\ "fb" \in DOMAIN b /\ "key" \in DOMAIN b
                /\ b.fb = "busy" => Waits("ratings", m, {{b.key}})

PlayFlags ==
    /\ CallsIn(net) /\ DOMAIN ui = {"cols", "pipes", "col", "ids", "scope", "pipe", "rerank", "q", "loading", "hits", "answered", "grouped"}
    /\ ui.loading <=> Waits("playground", net, {"search", "answer"})
    /\ Alone("playground", net, {"search", "answer"})
    /\ ~Waits("playground", net, {"later"})
    /\ Rating(ui.answered, net)

LEMMA PlayFlagStep ==
    ASSUME PlayFlags, NEW s \in Slots, PlayUser \/ (Busy(s) /\ PlayResume(s))
    PROVE  PlayFlags'
<1> DEFINE Sets(v0, v1) == DOMAIN ui' = DOMAIN ui /\ ui'.loading = v0 /\ ui'.answered = v1
<1>1. CallsIn(net) /\ DOMAIN ui = {"cols", "pipes", "col", "ids", "scope", "pipe", "rerank", "q", "loading", "hits", "answered", "grouped"}
  BY DEF PlayFlags
<1>2. \A a : /\ Kind("playground", "search", a) = "search" /\ Kind("playground", "answer", a) = "answer"
             /\ Kind("playground", "cols", a) = "cols" /\ Kind("playground", "pipes", a) = "pipes"
             /\ a.fb # "busy" => Kind("playground", "rate", a) = "rate"
             /\ a.fb = "busy" => Kind("playground", "rate", a) = "later"
  BY DEF Kind, Marks
<1>3. \A k, a : k # "rate" => Kind("ratings", k, a) = {}
  BY DEF Kind, About
<1>4. \A a : Kind("ratings", "rate", a) = {a.key}
  BY DEF Kind, About
<1>5. ui.answered # None => "fb" \in DOMAIN ui.answered /\ "key" \in DOMAIN ui.answered
  BY DEF PlayFlags, Rating
<1>6. CASE \E k \in {"search", "answer"} : PlayRun(k)
  <2>1. PICK k \in {"search", "answer"} :
                    /\ ~ui.loading
                    /\ Ask([ui EXCEPT !.loading = TRUE, !.hits = None, !.answered = None], k, [cols |-> PlayCols, key |-> ops])
    BY <1>6, Zenon DEF PlayRun
  <2>2. Sets(TRUE, None)
    BY <1>1, <2>1 DEF Ask
  <2>3. More("playground", net, net', k)
    BY <1>1, <1>2, <2>1, Asking DEF Ask
  <2> QED
    BY <2>1, <2>2, <2>3 DEF PlayFlags, Rating, More
<1>7. CASE PlayChoose \/ User([ui EXCEPT !.q = TRUE]) \/ (ui.hits # None /\ User([ui EXCEPT !.grouped = ~@]))
  <2>1. Sets(ui.loading, ui.answered) /\ net' = net
    BY <1>1, <1>7 DEF PlayChoose, User
  <2> QED
    BY <2>1 DEF PlayFlags
<1>8. CASE PlayFeedback
  <2>1. ui.answered # None
    BY <1>8 DEF PlayFeedback
  <2>2. CASE \E v \in {"form", "no"} : User([ui EXCEPT !.answered.fb = v])
    <3>1. PICK v \in {"form", "no"} : User([ui EXCEPT !.answered.fb = v])
      BY <2>2
    <3>2. Sets(ui.loading, [ui.answered EXCEPT !.fb = v]) /\ net' = net
      BY <1>1, <3>1 DEF User
    <3>3. Rating(ui'.answered, net')
      BY <1>5, <2>1, <3>2 DEF Rating
    <3> QED
      BY <3>2, <3>3 DEF PlayFlags
  <2>3. CASE /\ FeedbackSends(ui.answered.fb)
             /\ Ask([ui EXCEPT !.answered.fb = "busy"], "rate",
                    [key |-> ui.answered.key, fb |-> ui.answered.fb, col |-> ui.col, of |-> ui.answered.cols])
    <3> DEFINE a == [key |-> ui.answered.key, fb |-> ui.answered.fb, col |-> ui.col, of |-> ui.answered.cols]
    <3>1. a.key = ui.answered.key /\ a.fb # "busy"
      BY <2>3 DEF FeedbackSends
    <3>2. Sets(ui.loading, [ui.answered EXCEPT !.fb = "busy"]) /\ Room(1) /\ net' = Send(net, "rate", a)
      BY <1>1, <2>3 DEF Ask
    <3> HIDE DEF a
    <3>3. More("playground", net, net', "rate")
      BY <1>1, <1>2, <3>1, <3>2, Asking
    <3>4. More("ratings", net, net', {ui.answered.key})
      BY <1>1, <1>4, <3>1, <3>2, Asking
    <3>5. "fb" \in DOMAIN ui'.answered /\ "key" \in DOMAIN ui'.answered /\ ui'.answered.key = ui.answered.key
      BY <1>5, <2>1, <3>2
    <3>6. Rating(ui'.answered, net')
      BY <3>4, <3>5 DEF Rating, More
    <3> QED
      BY <3>2, <3>3, <3>6 DEF PlayFlags, More
  <2> QED
    BY <1>8, <2>2, <2>3 DEF PlayFeedback
<1>9. CASE \E k \in {"cols", "pipes"} : Busy(s) /\ net[s].k = k /\ (PlayCollections(s) \/ PlayPipelines(s))
  <2>1. PICK k \in {"cols", "pipes"} : Busy(s) /\ net[s].k = k
    BY <1>9
  <2>2. Sets(ui.loading, ui.answered) /\ net' = Rest(s)
    BY <1>1, <1>9 DEF PlayCollections, PlayPipelines, Resume
  <2>3. Less("playground", net, net', k)
    BY <1>1, <1>2, <2>1, <2>2, Ending
  <2>4. Less("ratings", net, net', {})
    <3>1. Kind("ratings", net[s].k, net[s].a) = {}
      BY <1>3, <2>1
    <3> QED
      BY <1>1, <2>1, <2>2, <3>1, Ending
  <2> QED
    BY <2>2, <2>3, <2>4 DEF PlayFlags, Rating, Less
<1>10. CASE Busy(s) /\ net[s].k = "search" /\ PlaySearched(s)
  <2>1. Sets(FALSE, ui.answered) /\ net' = Rest(s)
    BY <1>1, <1>10 DEF PlaySearched, Resume
  <2>2. Less("playground", net, net', "search") /\ Less("ratings", net, net', {})
    BY <1>1, <1>2, <1>3, <1>10, <2>1, Ending
  <2> QED
    BY <2>1, <2>2 DEF PlayFlags, Rating, Less
<1>11. CASE Busy(s) /\ net[s].k = "answer" /\ PlayAnswered(s)
  <2> DEFINE b == [cols |-> net[s].a.cols, fb |-> "no", key |-> net[s].a.key]
  <2>1. /\ net' = Rest(s)
        /\ \/ ui' = [ui EXCEPT !.loading = FALSE]
           \/ ui' = [[ui EXCEPT !.loading = FALSE] EXCEPT !.hits = net[s].a.cols, !.answered = b]
    BY <1>11, Zenon DEF PlayAnswered, Resume
  <2>2. "fb" \in DOMAIN b /\ b.fb # "busy" /\ "key" \in DOMAIN b
    OBVIOUS
  <2> HIDE DEF b
  <2>3. Sets(FALSE, ui.answered) \/ Sets(FALSE, b)
    BY <1>1, <2>1
  <2>4. Less("playground", net, net', "answer")
    BY <1>1, <1>2, <1>11, <2>1, Ending
  <2>5. Less("ratings", net, net', {})
    BY <1>1, <1>3, <1>11, <2>1, Ending
  <2>6. Rating(ui'.answered, net')
    BY <2>2, <2>3, <2>5 DEF PlayFlags, Rating, Less
  <2> QED
    BY <2>3, <2>4, <2>6 DEF PlayFlags, Less
<1>12. CASE Busy(s) /\ net[s].k = "rate" /\ PlayRated(s)
  <2> DEFINE key == net[s].a.key
  <2>1. net[s].a.fb # "busy"
    BY <1>2, <1>12 DEF PlayFlags, Waits, KindOf, Busy
  <2>2. net' = Rest(s)
    BY <1>12 DEF PlayRated, Resume
  <2>3. Less("playground", net, net', "rate") /\ Less("ratings", net, net', {key})
    <3>1. Kind("playground", net[s].k, net[s].a) = "rate"
      BY <1>2, <1>12, <2>1
    <3>2. Kind("ratings", net[s].k, net[s].a) = {key}
      BY <1>4, <1>12
    <3>3. Less("playground", net, net', "rate")
      BY <1>1, <1>12, <2>2, <3>1, Ending
    <3>4. Less("ratings", net, net', {key})
      BY <1>1, <1>12, <2>2, <3>2, Ending
    <3> QED
      BY <3>3, <3>4
  <2>4. CASE ui.answered # None /\ ui.answered.key = key
    <3>1. Sets(ui.loading, [ui.answered EXCEPT !.fb = FeedbackSent(s)])
      BY <1>1, <1>12, <2>4 DEF PlayRated, Resume
    <3>2. FeedbackSent(s) # "busy"
      BY <2>1 DEF FeedbackSent
    <3>3. Rating(ui'.answered, net')
      BY <1>5, <2>4, <3>1, <3>2 DEF Rating
    <3> QED
      BY <2>3, <3>1, <3>3 DEF PlayFlags, Less
  <2>5. CASE ~(ui.answered # None /\ ui.answered.key = key)
    <3>1. ui' = ui
      BY <1>12, <2>5 DEF PlayRated, Resume
    <3>2. Rating(ui'.answered, net')
      BY <2>3, <2>5, <3>1 DEF PlayFlags, Rating, Less
    <3> QED
      BY <2>3, <3>1, <3>2 DEF PlayFlags, Less
  <2> QED
    BY <2>4, <2>5
<1> QED
  BY <1>6, <1>7, <1>8, <1>9, <1>10, <1>11, <1>12 DEF PlayUser, PlayResume

LEMMA PlayFlagPage ==
    ASSUME screen = "playground"
    PROVE  /\ Init => PlayFlags
           /\ PlayFlags /\ [Next]_vars => PlayFlags'
           /\ PlayFlags => SpinnersWaited /\ OneSubmitAtATime
<1>1. ASSUME Init PROVE PlayFlags
  <2>1. ui = PlayUi /\ net = Send(Send(NoCalls, "cols", None), "pipes", None)
    BY <1>1, Zenon DEF Init
  <2>2. DOMAIN ui = {"cols", "pipes", "col", "ids", "scope", "pipe", "rerank", "q", "loading", "hits", "answered", "grouped"} /\ ui.loading = FALSE /\ ui.answered = None
    BY <2>1 DEF PlayUi
  <2>3. Kind("playground", "cols", None) = "cols" /\ Kind("playground", "pipes", None) = "pipes"
    BY DEF Kind, Marks
  <2>4. Both("playground", NoCalls, net, "cols", "pipes")
    BY <2>1, <2>3, TwoYet
  <2> QED
    BY <2>2, <2>4, NoneYet DEF PlayFlags, Both, Rating
<1>2. ASSUME PlayFlags, [Next]_vars PROVE PlayFlags'
  <2>1. CASE \E s \in Slots : Serve(s) \/ Fault(s)
    <3>1. CallsIn(net)
      BY <1>2 DEF PlayFlags
    <3>2. ui' = ui /\ Same("playground", net, net')
      BY <2>1, <3>1, ServerFlags
    <3>3. Same("ratings", net, net')
      BY <2>1, <3>1, ServerFlags
    <3> QED
      BY <1>2, <3>2, <3>3 DEF PlayFlags, Same, Rating
  <2>2. ASSUME NEW s \in Slots, Act \/ Interval \/ Elsewhere \/ Continue(s)
        PROVE  PlayFlags'
    <3>1. PlayUser \/ (Busy(s) /\ PlayResume(s))
      BY <2>2 DEF Act, Interval, Elsewhere, Continue
    <3> QED
      BY <1>2, <3>1, PlayFlagStep
  <2>3. CASE UNCHANGED vars
    BY <1>2, <2>3 DEF PlayFlags, vars, Rating
  <2> QED
    BY <1>2, <2>1, <2>2, <2>3, SomeSlot DEF Next
<1>3. ASSUME PlayFlags PROVE SpinnersWaited /\ OneSubmitAtATime
  <2> DEFINE c2 == ui.answered # None /\ ui.answered.fb = "busy"
  <2>1. /\ Spinners = {<<ui.loading, {"search", "answer"}>>, <<c2, {"rate"}>>}
        /\ Submits = {{"search", "answer"}}
    BY DEF Spinners, Submits
  <2>2. ui.loading => InFlight({"search", "answer"}) # {}
    <3>1. \A k, a : Kind("playground", k, a) \in {"search", "answer"} => k \in {"search", "answer"}
      BY DEF Kind, Marks
    <3> QED
      BY <1>3, <3>1, WaitsIsInFlight DEF PlayFlags
  <2>3. c2 => InFlight({"rate"}) # {}
    <3>1. \A k, a : k # "rate" => Kind("ratings", k, a) = {}
      BY DEF Kind, About
    <3>2. c2 => Waits("ratings", net, {{ui.answered.key}})
      BY <1>3 DEF PlayFlags, Rating
    <3>3. ASSUME NEW x, Waits("ratings", net, {{x}}) PROVE InFlight({"rate"}) # {}
      <4>1. PICK t \in Slots : net[t] # NoCall /\ Kind("ratings", net[t].k, net[t].a) \in {{x}}
        BY <3>3 DEF Waits, KindOf
      <4>2. {x} # {}
        OBVIOUS
      <4>3. net[t].k = "rate"
        BY <3>1, <4>1, <4>2
      <4> QED
        BY <4>1, <4>3 DEF InFlight, Busy
    <3> QED
      BY <3>2, <3>3
  <2>4. Cardinality(InFlight({"search", "answer"})) <= 1
    <3>1. \A k, a : k \in {"search", "answer"} => Kind("playground", k, a) \in {"search", "answer"}
      BY DEF Kind, Marks
    <3> QED
      BY <1>3, <3>1, AloneIsOne DEF PlayFlags
  <2> HIDE DEF c2
  <2> QED
    BY <2>1, <2>2, <2>3, <2>4 DEF SpinnersWaited, OneSubmitAtATime
<1> QED
  BY <1>1, <1>2, <1>3

----------------------------------------------------------------------------
(* The chat.                                                               *)

\* Every turn has what a rating reads, and the buttons of a turn wait for its own.
Talk(q) == \E S : q \in Seq(S) /\ \A t \in S : {"text", "done", "fb", "key"} \subseteq DOMAIN t
TurnsWait(q, m) == \A i \in DOMAIN q : q[i].fb = "busy" => Waits("turns", m, {{<<i, q[i].key>>}})

\* Writing a field of a turn.
TurnPut(q, i, f, v) == [q EXCEPT ![i] = [q[i] EXCEPT ![f] = v]]
TurnIs(n, q, i, f, v) ==
    /\ Talk(n) /\ DOMAIN n = DOMAIN q
    /\ n[i].key = q[i].key
    /\ IF f = "fb" THEN n[i].fb = v ELSE n[i].fb = q[i].fb
    /\ \A j \in DOMAIN q \ {i} : n[j] = q[j]

LEMMA TalkPut ==
    ASSUME NEW q, Talk(q), NEW i \in DOMAIN q, NEW f \in {"text", "done", "fb"}, NEW v
    PROVE  TurnIs(TurnPut(q, i, f, v), q, i, f, v)
<1> DEFINE n == TurnPut(q, i, f, v)
<1>1. PICK S : q \in Seq(S) /\ \A t \in S : {"text", "done", "fb", "key"} \subseteq DOMAIN t
  BY DEF Talk
<1> DEFINE r == [q[i] EXCEPT ![f] = v]
           T == S \cup {r}
<1>2. q[i] \in S /\ DOMAIN q = 1..Len(q) /\ Len(q) \in Nat
  BY <1>1
<1>3. {"text", "done", "fb", "key"} \subseteq DOMAIN q[i]
  BY <1>1, <1>2
<1>4. /\ DOMAIN r = DOMAIN q[i] /\ r.key = q[i].key
      /\ IF f = "fb" THEN r.fb = v ELSE r.fb = q[i].fb
  BY <1>3
<1>5. n = [q EXCEPT ![i] = r]
  BY DEF TurnPut
<1> HIDE DEF r, n
<1>6. \A t \in T : {"text", "done", "fb", "key"} \subseteq DOMAIN t
  BY <1>1, <1>3, <1>4
<1>7. q \in [1..Len(q) -> T]
  BY <1>1
<1>8. n \in [1..Len(q) -> T]
  BY <1>5, <1>7
<1>9. n \in Seq(T)
  BY <1>2, <1>8
<1>10. DOMAIN n = DOMAIN q /\ n[i] = r /\ \A j \in DOMAIN q \ {i} : n[j] = q[j]
  BY <1>2, <1>5, <1>7
<1>11. Talk(n)
  BY <1>6, <1>9 DEF Talk
<1> QED
  BY <1>4, <1>10, <1>11 DEF TurnIs, n

\* A question and the answer to come.
TalkMore(n, q, a, b) ==
    /\ Talk(n)
    /\ \A i \in DOMAIN n : (i \in DOMAIN q /\ n[i] = q[i]) \/ n[i] = a \/ n[i] = b

LEMMA TalkGrows ==
    ASSUME NEW q, Talk(q), NEW a, NEW b,
           {"text", "done", "fb", "key"} \subseteq DOMAIN a, {"text", "done", "fb", "key"} \subseteq DOMAIN b
    PROVE  TalkMore(q \o <<a, b>>, q, a, b)
<1> DEFINE n == q \o <<a, b>>
<1>1. PICK S : q \in Seq(S) /\ \A t \in S : {"text", "done", "fb", "key"} \subseteq DOMAIN t
  BY DEF Talk
<1> DEFINE T == S \cup {a, b}
           p == <<a, b>>
<1>2. \A t \in T : {"text", "done", "fb", "key"} \subseteq DOMAIN t
  BY <1>1
<1>3. q \in Seq(T) /\ p \in Seq(T) /\ Len(p) = 2 /\ Len(q) \in Nat /\ DOMAIN q = 1..Len(q) /\ p[1] = a /\ p[2] = b
  BY <1>1
<1> HIDE DEF p, T
<1>4. /\ q \o p \in Seq(T) /\ Len(q \o p) = Len(q) + Len(p)
      /\ \A i \in 1..Len(q) + Len(p) : (q \o p)[i] = IF i <= Len(q) THEN q[i] ELSE p[i - Len(q)]
  BY <1>3, ConcatProperties
<1>5. n = q \o p
  BY DEF p
<1> HIDE DEF n
<1>6. n \in Seq(T) /\ DOMAIN n = 1..(Len(q) + 2)
  BY <1>3, <1>4, <1>5
<1>7. ASSUME NEW i \in DOMAIN n PROVE (i \in DOMAIN q /\ n[i] = q[i]) \/ n[i] = a \/ n[i] = b
  <2>1. i \in 1..(Len(q) + 2)
    BY <1>6
  <2>2. CASE i <= Len(q)
    BY <1>3, <1>4, <1>5, <2>1, <2>2
  <2>3. CASE ~(i <= Len(q))
    <3>1. i - Len(q) = 1 \/ i - Len(q) = 2
      BY <1>3, <2>1, <2>3
    <3>2. n[i] = p[i - Len(q)]
      BY <1>3, <1>4, <1>5, <2>1, <2>3
    <3> QED
      BY <1>3, <3>1, <3>2
  <2> QED
    BY <2>2, <2>3
<1> QED
  BY <1>2, <1>6, <1>7 DEF Talk, TalkMore, n

LEMMA TalkEmpty == Talk(<<>>) /\ \A m : TurnsWait(<<>>, m)
<1>1. <<>> \in Seq({}) /\ DOMAIN <<>> = {}
  OBVIOUS
<1> QED
  BY <1>1 DEF Talk, TurnsWait

ChatFlags ==
    /\ CallsIn(net) /\ DOMAIN ui = {"cols", "pipes", "col", "pipe", "rerank", "turns", "input", "streaming", "broken"}
    /\ ui.streaming <=> Waits("chat", net, {"hits", "token", "done"})
    /\ Alone("chat", net, {"hits", "token", "done"})
    /\ ~Waits("chat", net, {"later"})
    /\ Talk(ui.turns) /\ TurnsWait(ui.turns, net)

LEMMA ChatFlagStep ==
    ASSUME ChatFlags, NEW s \in Slots, ChatUser \/ (Busy(s) /\ ChatResume(s))
    PROVE  ChatFlags'
<1> DEFINE Sets(v0, v1) == DOMAIN ui' = DOMAIN ui /\ ui'.streaming = v0 /\ ui'.turns = v1
<1>1. /\ CallsIn(net) /\ DOMAIN ui = {"cols", "pipes", "col", "pipe", "rerank", "turns", "input", "streaming", "broken"}
      /\ Talk(ui.turns) /\ TurnsWait(ui.turns, net)
  BY DEF ChatFlags
<1>2. \A a : /\ Kind("chat", "hits", a) = "hits" /\ Kind("chat", "token", a) = "token"
             /\ Kind("chat", "done", a) = "done"
             /\ Kind("chat", "cols", a) = "cols" /\ Kind("chat", "pipes", a) = "pipes"
             /\ a.fb # "busy" => Kind("chat", "rate", a) = "rate"
             /\ a.fb = "busy" => Kind("chat", "rate", a) = "later"
  BY DEF Kind, Marks
<1>3. \A k, a : k # "rate" => Kind("turns", k, a) = {}
  BY DEF Kind, About
<1>4. \A a : Kind("turns", "rate", a) = {<<a.turn, a.key>>}
  BY DEF Kind, About
<1>5. Talk(<<>>) /\ \A m : TurnsWait(<<>>, m)
  BY TalkEmpty
<1>6. CASE ChatSend
  <2> DEFINE a == Turn("user", ui.col)
             b == Turn("assistant", ui.col)
  <2>1. /\ ~ui.streaming
        /\ Ask([ui EXCEPT !.turns = @ \o <<a, b>>, !.input = FALSE, !.streaming = TRUE], "hits", ui.col)
    BY <1>6 DEF ChatSend
  <2>2. /\ {"text", "done", "fb", "key"} \subseteq DOMAIN a /\ a.fb # "busy"
        /\ {"text", "done", "fb", "key"} \subseteq DOMAIN b /\ b.fb # "busy"
    BY DEF Turn
  <2> HIDE DEF a, b
  <2>3. Sets(TRUE, ui.turns \o <<a, b>>)
    BY <1>1, <2>1 DEF Ask
  <2>4. More("chat", net, net', "hits")
    BY <1>1, <1>2, <2>1, Asking DEF Ask
  <2>5. More("turns", net, net', {})
    <3>1. Kind("turns", "hits", ui.col) = {}
      BY <1>3
    <3> QED
      BY <1>1, <2>1, <3>1, Asking DEF Ask
  <2>6. /\ Talk(ui'.turns)
        /\ \A i \in DOMAIN ui'.turns : (i \in DOMAIN ui.turns /\ ui'.turns[i] = ui.turns[i]) \/ ui'.turns[i] = a \/ ui'.turns[i] = b
    <3>1. TalkMore(ui.turns \o <<a, b>>, ui.turns, a, b)
      BY <1>1, <2>2, TalkGrows
    <3> QED
      BY <2>3, <3>1 DEF TalkMore
  <2>7. TurnsWait(ui'.turns, net')
    BY <1>1, <2>2, <2>5, <2>6 DEF TurnsWait, More
  <2> QED
    BY <2>1, <2>3, <2>4, <2>6, <2>7 DEF ChatFlags, More
<1>7. CASE ChatClear
  <2>1. Sets(ui.streaming, <<>>) /\ net' = net
    BY <1>1, <1>7 DEF ChatClear, User
  <2> QED
    BY <1>5, <2>1 DEF ChatFlags
<1>8. ASSUME NEW i \in DOMAIN ui.turns, ChatFeedback(i) PROVE ChatFlags'
  <2> DEFINE t == ui.turns[i]
             Fb(v) == TurnPut(ui.turns, i, "fb", v)
  <2>1. CASE \E v \in {"form", "no"} : User([ui EXCEPT !.turns[i].fb = v])
    <3>1. PICK v \in {"form", "no"} : User([ui EXCEPT !.turns[i].fb = v])
      BY <2>1
    <3>2. Sets(ui.streaming, Fb(v)) /\ net' = net
      BY <1>1, <3>1 DEF User, TurnPut
    <3>3. /\ Talk(ui'.turns) /\ DOMAIN ui'.turns = DOMAIN ui.turns /\ ui'.turns[i].fb = v
          /\ \A j \in DOMAIN ui.turns \ {i} : ui'.turns[j] = ui.turns[j]
      BY <1>1, <3>2, TalkPut DEF TurnIs
    <3>4. TurnsWait(ui'.turns, net')
      BY <1>1, <3>1, <3>2, <3>3 DEF TurnsWait
    <3> QED
      BY <3>2, <3>3, <3>4 DEF ChatFlags
  <2>2. CASE /\ FeedbackSends(t.fb)
             /\ Ask([ui EXCEPT !.turns[i].fb = "busy"], "rate",
                    [turn |-> i, key |-> t.key, fb |-> t.fb, col |-> ui.col, of |-> {t.of}])
    <3> DEFINE a == [turn |-> i, key |-> t.key, fb |-> t.fb, col |-> ui.col, of |-> {t.of}]
    <3>1. a.turn = i /\ a.key = t.key /\ a.fb # "busy"
      BY <2>2 DEF FeedbackSends
    <3>2. Sets(ui.streaming, Fb("busy")) /\ Room(1) /\ net' = Send(net, "rate", a)
      BY <1>1, <2>2 DEF Ask, TurnPut
    <3> HIDE DEF a
    <3>3. More("chat", net, net', "rate")
      <4>1. Kind("chat", "rate", a) = "rate"
        BY <1>2, <3>1
      <4> QED
        BY <1>1, <3>2, <4>1, Asking
    <3>4. More("turns", net, net', {<<i, t.key>>})
      <4>1. Kind("turns", "rate", a) = {<<i, t.key>>}
        BY <1>4, <3>1
      <4> QED
        BY <1>1, <3>2, <4>1, Asking
    <3>5. /\ Talk(ui'.turns) /\ DOMAIN ui'.turns = DOMAIN ui.turns /\ ui'.turns[i].key = t.key
          /\ \A j \in DOMAIN ui.turns \ {i} : ui'.turns[j] = ui.turns[j]
      BY <1>1, <3>2, TalkPut DEF TurnIs
    <3>6. TurnsWait(ui'.turns, net')
      <4>1. \A K : Waits("turns", net, K) => Waits("turns", net', K)
        BY <3>4 DEF More
      <4>2. Waits("turns", net', {{<<i, t.key>>}})
        BY <3>4 DEF More
      <4> QED
        BY <1>1, <3>5, <4>1, <4>2 DEF TurnsWait
    <3> QED
      BY <3>2, <3>3, <3>5, <3>6 DEF ChatFlags, More
  <2> QED
    BY <1>8, <2>1, <2>2 DEF ChatFeedback
<1>9. CASE \/ User([ui EXCEPT !.input = TRUE])
           \/ \E c \in ui.cols \ {ui.col} : User([ui EXCEPT !.col = c])
           \/ ui.pipes /\ User([ui EXCEPT !.pipe = ~@])
           \/ ~ui.pipe /\ User([ui EXCEPT !.rerank = ~@])
  <2>1. Sets(ui.streaming, ui.turns) /\ net' = net
    BY <1>1, <1>9 DEF User
  <2> QED
    BY <2>1 DEF ChatFlags
<1>10. CASE \E k \in {"cols", "pipes"} : Busy(s) /\ net[s].k = k /\ (PlayCollections(s) \/ PlayPipelines(s))
  <2>1. PICK k \in {"cols", "pipes"} : Busy(s) /\ net[s].k = k
    BY <1>10
  <2>2. Sets(ui.streaming, ui.turns) /\ net' = Rest(s)
    BY <1>1, <1>10 DEF PlayCollections, PlayPipelines, Resume
  <2>3. Less("chat", net, net', k)
    BY <1>1, <1>2, <2>1, <2>2, Ending
  <2>4. Less("turns", net, net', {})
    <3>1. Kind("turns", net[s].k, net[s].a) = {}
      BY <1>3, <2>1
    <3> QED
      BY <1>1, <2>1, <2>2, <3>1, Ending
  <2> QED
    BY <2>2, <2>3, <2>4 DEF ChatFlags, TurnsWait, Less
<1>11. ASSUME NEW u, NEW k \in {"hits", "token"}, NEW j \in {"token", "done"},
              Busy(s), net[s].k = k, ChatRead(s, u, j),
              DOMAIN u = DOMAIN ui, u.streaming = ui.streaming, Talk(u.turns), TurnsWait(u.turns, net)
       PROVE  ChatFlags'
  <2>1. Kind("turns", net[s].k, net[s].a) = {} /\ Kind("turns", j, net[s].a) = {}
    BY <1>3, <1>11
  <2>2. Kind("chat", net[s].k, net[s].a) = k /\ Kind("chat", j, net[s].a) = j
    BY <1>2, <1>11
  <2>3. ui.streaming
    BY <1>11, <2>2 DEF ChatFlags, Waits, KindOf, Busy
  <2>4. CASE Ok(s)
    <3>1. ui' = u /\ net' = Send(Rest(s), j, net[s].a)
      BY <1>11, <2>4 DEF ChatRead, Resume
    <3>2. Swap("chat", net, net', k, j)
      BY <1>1, <1>11, <2>2, <3>1, Chaining
    <3>3. Swap("turns", net, net', {}, {})
      BY <1>1, <1>11, <2>1, <3>1, Chaining
    <3>4. TurnsWait(ui'.turns, net')
      BY <1>11, <3>1, <3>3 DEF TurnsWait, Swap
    <3> QED
      BY <1>1, <1>11, <2>3, <3>1, <3>2, <3>4 DEF ChatFlags, Swap
  <2>5. CASE ~Ok(s)
    <3>1. Sets(FALSE, ui.turns) /\ net' = Rest(s)
      BY <1>1, <1>11, <2>5 DEF ChatRead, ChatEnd, Resume
    <3>2. Less("chat", net, net', k)
      BY <1>1, <1>11, <2>2, <3>1, Ending
    <3>3. Less("turns", net, net', {})
      BY <1>1, <1>11, <2>1, <3>1, Ending
    <3>4. TurnsWait(ui'.turns, net')
      BY <1>1, <3>1, <3>3 DEF TurnsWait, Less
    <3> QED
      BY <1>1, <3>1, <3>2, <3>4 DEF ChatFlags, Less
  <2> QED
    BY <2>4, <2>5
<1>12. \A n : (n = Len(ui.turns) /\ n > 0) => n \in DOMAIN ui.turns
  BY <1>1 DEF Talk
<1>13. ASSUME NEW f \in {"text", "done"}, NEW n \in DOMAIN ui.turns,
              NEW q, q = TurnPut(ui.turns, n, f, TRUE)
       PROVE  Talk(q) /\ \A m : TurnsWait(ui.turns, m) => TurnsWait(q, m)
  <2>1. f \in {"text", "done", "fb"} /\ f # "fb"
    BY <1>13
  <2>2. TurnIs(TurnPut(ui.turns, n, f, TRUE), ui.turns, n, f, TRUE)
    BY <1>1, <2>1, TalkPut
  <2>3. /\ Talk(q) /\ DOMAIN q = DOMAIN ui.turns /\ q[n].key = ui.turns[n].key /\ q[n].fb = ui.turns[n].fb
        /\ \A j \in DOMAIN ui.turns \ {n} : q[j] = ui.turns[j]
    BY <1>13, <2>1, <2>2 DEF TurnIs
  <2> QED
    BY <2>3 DEF TurnsWait
<1>14. CASE Busy(s) /\ net[s].k = "hits" /\ ChatHits(s)
  BY <1>1, <1>11, <1>14 DEF ChatHits
<1>15. CASE Busy(s) /\ net[s].k = "token" /\ ChatToken(s)
  <2> DEFINE n == Len(ui.turns)
             u == IF n = 0 THEN [ui EXCEPT !.broken = TRUE] ELSE [ui EXCEPT !.turns[n].text = TRUE]
  <2>1. ChatRead(s, u, "done")
    BY <1>15 DEF ChatToken
  <2>2. CASE n = 0
    <3>1. DOMAIN u = DOMAIN ui /\ u.streaming = ui.streaming /\ u.turns = ui.turns
      BY <1>1, <2>2
    <3> HIDE DEF u
    <3> QED
      BY <1>1, <1>11, <1>15, <2>1, <3>1
  <2>3. CASE n # 0
    <3>1. n \in DOMAIN ui.turns
      BY <1>1, <2>3 DEF Talk
    <3>2. /\ DOMAIN u = DOMAIN ui /\ u.streaming = ui.streaming
          /\ u.turns = TurnPut(ui.turns, n, "text", TRUE)
      BY <1>1, <2>3 DEF TurnPut
    <3> HIDE DEF u, n
    <3>3. Talk(u.turns) /\ TurnsWait(u.turns, net)
      BY <1>1, <1>13, <3>1, <3>2
    <3> QED
      BY <1>11, <1>15, <2>1, <3>2, <3>3
  <2> QED
    BY <2>2, <2>3
<1>16. CASE Busy(s) /\ net[s].k = "done" /\ ChatDone(s)
  <2> DEFINE n == Len(ui.turns)
             q == TurnPut(ui.turns, n, "done", TRUE)
  <2>1. net' = Rest(s)
    BY <1>16 DEF ChatDone, ChatEnd, Resume
  <2>2. Less("chat", net, net', "done")
    BY <1>1, <1>2, <1>16, <2>1, Ending
  <2>3. Less("turns", net, net', {})
    <3>1. Kind("turns", net[s].k, net[s].a) = {}
      BY <1>3, <1>16
    <3> QED
      BY <1>1, <1>16, <2>1, <3>1, Ending
  <2>4. Sets(FALSE, ui.turns) \/ (n > 0 /\ Sets(FALSE, q))
    BY <1>1, <1>16 DEF ChatDone, ChatEnd, Resume, TurnPut
  <2>5. Talk(ui'.turns) /\ TurnsWait(ui'.turns, net)
    <3>1. CASE ui'.turns = ui.turns
      BY <1>1, <3>1
    <3>2. CASE n > 0 /\ ui'.turns = q
      <4>1. n \in DOMAIN ui.turns
        BY <1>12, <3>2
      <4> HIDE DEF n
      <4> QED
        BY <1>1, <1>13, <3>2, <4>1
    <3> QED
      BY <2>4, <3>1, <3>2
  <2>6. TurnsWait(ui'.turns, net')
    BY <2>3, <2>5 DEF TurnsWait, Less
  <2>7. DOMAIN ui' = DOMAIN ui /\ ui'.streaming = FALSE
    BY <2>4
  <2> QED
    BY <1>1, <2>2, <2>5, <2>6, <2>7 DEF ChatFlags, Less
<1>17. CASE Busy(s) /\ net[s].k = "rate" /\ ChatRated(s)
  <2> DEFINE i == net[s].a.turn
             key == net[s].a.key
  <2>1. net[s].a.fb # "busy"
    BY <1>2, <1>17 DEF ChatFlags, Waits, KindOf, Busy
  <2>2. net' = Rest(s)
    BY <1>17 DEF ChatRated, Resume
  <2>3. Less("chat", net, net', "rate")
    <3>1. Kind("chat", net[s].k, net[s].a) = "rate"
      BY <1>2, <1>17, <2>1
    <3> QED
      BY <1>1, <1>17, <2>2, <3>1, Ending
  <2>4. Less("turns", net, net', {<<i, key>>})
    <3>1. Kind("turns", net[s].k, net[s].a) = {<<i, key>>}
      BY <1>4, <1>17
    <3> QED
      BY <1>1, <1>17, <2>2, <3>1, Ending
  <2>5. \A j, x : (<<j, x>> # <<i, key>> /\ Waits("turns", net, {{<<j, x>>}})) => Waits("turns", net', {{<<j, x>>}})
    BY <2>4 DEF Less
  <2>6. CASE i \in DOMAIN ui.turns /\ ui.turns[i].key = key
    <3> DEFINE v == FeedbackSent(s)
               q == TurnPut(ui.turns, i, "fb", v)
    <3>1. Sets(ui.streaming, q)
      BY <1>1, <1>17, <2>6 DEF ChatRated, Resume, TurnPut
    <3>2. v # "busy"
      BY <2>1 DEF FeedbackSent
    <3> HIDE DEF v, i
    <3>3. /\ Talk(ui'.turns) /\ DOMAIN ui'.turns = DOMAIN ui.turns /\ ui'.turns[i].fb = v
          /\ \A j \in DOMAIN ui.turns \ {i} : ui'.turns[j] = ui.turns[j]
      BY <1>1, <2>6, <3>1, TalkPut DEF TurnIs
    <3>4. TurnsWait(ui'.turns, net')
      BY <1>1, <2>5, <3>2, <3>3 DEF TurnsWait
    <3> QED
      BY <1>1, <2>3, <3>1, <3>3, <3>4 DEF ChatFlags, Less
  <2>7. CASE ~(i \in DOMAIN ui.turns /\ ui.turns[i].key = key)
    <3>1. ui' = ui
      BY <1>17, <2>7 DEF ChatRated, Resume
    <3>2. TurnsWait(ui'.turns, net')
      BY <1>1, <2>5, <2>7, <3>1 DEF TurnsWait
    <3> QED
      BY <1>1, <2>3, <3>1, <3>2 DEF ChatFlags, Less
  <2> QED
    BY <2>6, <2>7
<1>18. CASE ChatUser
  BY <1>6, <1>7, <1>8, <1>9, <1>18 DEF ChatUser
<1>19. CASE Busy(s) /\ ChatResume(s)
  BY <1>10, <1>14, <1>15, <1>16, <1>17, <1>19 DEF ChatResume
<1> QED
  BY <1>18, <1>19

LEMMA ChatFlagPage ==
    ASSUME screen = "chat"
    PROVE  /\ Init => ChatFlags
           /\ ChatFlags /\ [Next]_vars => ChatFlags'
           /\ ChatFlags => SpinnersWaited /\ OneSubmitAtATime
<1>1. ASSUME Init PROVE ChatFlags
  <2>1. ui = ChatUi /\ net = Send(Send(NoCalls, "cols", None), "pipes", None)
    BY <1>1, Zenon DEF Init
  <2>2. /\ DOMAIN ui = {"cols", "pipes", "col", "pipe", "rerank", "turns", "input", "streaming", "broken"}
        /\ ui.streaming = FALSE /\ ui.turns = <<>>
    BY <2>1 DEF ChatUi
  <2>3. Kind("chat", "cols", None) = "cols" /\ Kind("chat", "pipes", None) = "pipes"
    BY DEF Kind, Marks
  <2>4. Both("chat", NoCalls, net, "cols", "pipes")
    BY <2>1, <2>3, TwoYet
  <2>5. Talk(ui.turns) /\ TurnsWait(ui.turns, net)
    BY <2>2, TalkEmpty
  <2> QED
    BY <2>2, <2>4, <2>5, NoneYet DEF ChatFlags, Both
<1>2. ASSUME ChatFlags, [Next]_vars PROVE ChatFlags'
  <2>1. CASE \E s \in Slots : Serve(s) \/ Fault(s)
    <3>1. CallsIn(net)
      BY <1>2 DEF ChatFlags
    <3>2. ui' = ui /\ Same("chat", net, net')
      BY <2>1, <3>1, ServerFlags
    <3>3. Same("turns", net, net')
      BY <2>1, <3>1, ServerFlags
    <3> QED
      BY <1>2, <3>2, <3>3 DEF ChatFlags, Same, TurnsWait
  <2>2. ASSUME NEW s \in Slots, Act \/ Interval \/ Elsewhere \/ Continue(s)
        PROVE  ChatFlags'
    <3>1. ChatUser \/ (Busy(s) /\ ChatResume(s))
      BY <2>2 DEF Act, Interval, Elsewhere, Continue
    <3> QED
      BY <1>2, <3>1, ChatFlagStep
  <2>3. CASE UNCHANGED vars
    BY <1>2, <2>3 DEF ChatFlags, vars, TurnsWait
  <2> QED
    BY <1>2, <2>1, <2>2, <2>3, SomeSlot DEF Next
<1>3. ASSUME ChatFlags PROVE SpinnersWaited /\ OneSubmitAtATime
  <2> DEFINE c2 == \E i \in DOMAIN ui.turns : ui.turns[i].fb = "busy"
  <2>1. /\ Spinners = {<<ui.streaming, {"hits", "token", "done"}>>, <<c2, {"rate"}>>}
        /\ Submits = {{"hits", "token", "done"}}
    BY DEF Spinners, Submits
  <2>2. ui.streaming => InFlight({"hits", "token", "done"}) # {}
    <3>1. \A k, a : Kind("chat", k, a) \in {"hits", "token", "done"} => k \in {"hits", "token", "done"}
      BY DEF Kind, Marks
    <3> QED
      BY <1>3, <3>1, WaitsIsInFlight DEF ChatFlags
  <2>3. c2 => InFlight({"rate"}) # {}
    <3>1. \A k, a : k # "rate" => Kind("turns", k, a) = {}
      BY DEF Kind, About
    <3>2. ASSUME NEW i \in DOMAIN ui.turns, ui.turns[i].fb = "busy" PROVE InFlight({"rate"}) # {}
      <4> DEFINE x == <<i, ui.turns[i].key>>
      <4>1. Waits("turns", net, {{x}})
        BY <1>3, <3>2 DEF ChatFlags, TurnsWait
      <4> HIDE DEF x
      <4>2. PICK t \in Slots : net[t] # NoCall /\ Kind("turns", net[t].k, net[t].a) \in {{x}}
        BY <4>1 DEF Waits, KindOf
      <4>3. {x} # {}
        OBVIOUS
      <4>4. net[t].k = "rate"
        BY <3>1, <4>2, <4>3
      <4> QED
        BY <4>2, <4>4 DEF InFlight, Busy
    <3> QED
      BY <3>2
  <2>4. Cardinality(InFlight({"hits", "token", "done"})) <= 1
    <3>1. \A k, a : k \in {"hits", "token", "done"} => Kind("chat", k, a) \in {"hits", "token", "done"}
      BY DEF Kind, Marks
    <3> QED
      BY <1>3, <3>1, AloneIsOne DEF ChatFlags
  <2> HIDE DEF c2
  <2> QED
    BY <2>1, <2>2, <2>3, <2>4 DEF SpinnersWaited, OneSubmitAtATime
<1> QED
  BY <1>1, <1>2, <1>3

----------------------------------------------------------------------------
(* The explorer of images.                                                 *)

\* The request of an operation is in flight.
Working(m) == Waits("ops", m, {{"op"}})

\* The operation b is shown as busy exactly while a request of it, or of the
\* loads it awaits, is in flight; while its own request is, nothing else of an
\* operation is.  The spinner of the images (l) waits for the load number r.
WorksWait(m, b, r, l) ==
    /\ CallsIn(m)
    /\ b \in {"no"} \cup Works
    /\ \A x \in Works : b = x <=> Waits("explorer", m, {x})
    /\ Working(m) => Alone("explorer", m, Works)
    /\ ~Waits("explorer", m, {"later"})
    /\ l => Waits("loads", m, {{r}})

\* n has the requests of m and the request k with argument a.
Adds(m, n, k, a) == CallsIn(n) /\ \A p : More(p, m, n, Kind(p, k, a))

LEMMA SendAdds ==
    ASSUME NEW m, CallsIn(m), Free(m), NEW k, NEW a
    PROVE  Adds(m, Send(m, k, a), k, a) /\ (Free2(m) => Free(Send(m, k, a)))
<1>1. PICK i \in Slots : m[i] = NoCall
  BY DEF Free
<1>2. Sends(m, Send(m, k, a), k, a)
  BY <1>1, SendFills
<1>3. \A p : More(p, m, Send(m, k, a), Kind(p, k, a))
  BY <1>1, SendMore
<1>4. Free2(m) => Free(Send(m, k, a))
  BY <1>2 DEF Sends, Free2, Free
<1> QED
  BY <1>2, <1>3, <1>4 DEF Adds, Sends

\* The kinds of the explorer's requests.
LEMMA ExplorerKinds ==
    ASSUME NEW a
    PROVE  /\ \A k \in Works : Kind("explorer", k, a) = k
           /\ \A k \in {"mkdir", "rmdir", "aborted"} : Kind("explorer", k, a) = k
           /\ \A k \in {"images", "kids"} :
                  /\ ~IsLoad(k, a) => Kind("explorer", k, a) = "later"
                  /\ (IsLoad(k, a) /\ a.fin \in Works) => Kind("explorer", k, a) = a.fin
                  /\ (IsLoad(k, a) /\ a.fin \notin Works) => Kind("explorer", k, a) = k
           /\ \A k : Kind("explorer", k, a) \in Works => k \in Works \cup {"images", "kids"}
           /\ \A k : Kind("ops", k, a) = IF k \in Works THEN {"op"} ELSE {}
           /\ \A k : Kind("loads", k, a) = IF k = "images" /\ a.page = 1 THEN {a.rid} ELSE {}
<1>1. \A k \in Works : Kind("explorer", k, a) = k
  BY DEF Kind, Marks, Works
<1>2. \A k \in {"mkdir", "rmdir", "aborted"} : Kind("explorer", k, a) = k
  BY DEF Kind, Marks
<1>3. ASSUME NEW k \in {"images", "kids"}
      PROVE  /\ ~IsLoad(k, a) => Kind("explorer", k, a) = "later"
             /\ (IsLoad(k, a) /\ a.fin \in Works) => Kind("explorer", k, a) = a.fin
             /\ (IsLoad(k, a) /\ a.fin \notin Works) => Kind("explorer", k, a) = k
  <2>0. a.fin \in Works => IsLoad("images", a) /\ IsLoad("kids", a)
    BY DEF IsLoad
  <2>1. Kind("explorer", "images", a) =
            IF ~IsLoad("images", a) THEN "later" ELSE IF a.fin \in Works THEN a.fin ELSE "images"
    BY <2>0 DEF Kind, Marks
  <2>2. Kind("explorer", "kids", a) =
            IF ~IsLoad("kids", a) THEN "later" ELSE IF a.fin \in Works THEN a.fin ELSE "kids"
    BY <2>0 DEF Kind, Marks
  <2> QED
    BY <1>3, <2>1, <2>2
<1>4. \A k : Kind("ops", k, a) = IF k \in Works THEN {"op"} ELSE {}
  BY DEF Kind, About
<1>5. \A k : Kind("loads", k, a) = IF k = "images" /\ a.page = 1 THEN {a.rid} ELSE {}
  BY DEF Kind, About
<1>6. \A k : Kind("explorer", k, a) \in Works => k \in Works \cup {"images", "kids"}
  <2>1. SUFFICES ASSUME NEW k, k \notin {"images", "kids"}, k \notin Works PROVE Kind("explorer", k, a) \notin Works
    OBVIOUS
  <2>2. Kind("explorer", k, a) \in {k, "other"}
    BY <2>1 DEF Kind
  <2> QED
    BY <2>1, <2>2 DEF Works
<1> QED
  BY <1>1, <1>2, <1>3, <1>4, <1>5, <1>6

\* A request that is not an operation's own.
LEMMA WorkingStays ==
    ASSUME NEW m, NEW n, NEW k, NEW a, Adds(m, n, k, a), k \notin Works, ~Working(m)
    PROVE  ~Working(n)
<1>1. Kind("ops", k, a) = {} /\ {} # {"op"}
  BY ExplorerKinds
<1>2. More("ops", m, n, {})
  BY <1>1 DEF Adds
<1> QED
  BY <1>1, <1>2 DEF More, Working

\* A request that starts nothing: a load of its own, or one of an operation that
\* goes on.
LEMMA WorksMore ==
    ASSUME NEW m, NEW b, NEW r, NEW l, WorksWait(m, b, r, l), NEW k, NEW a, NEW n, Adds(m, n, k, a),
           Kind("explorer", k, a) # "later", k \notin Works,
           Kind("explorer", k, a) \in Works => (b = Kind("explorer", k, a) /\ ~Working(m))
    PROVE  /\ WorksWait(n, b, r, l)
           /\ \A q : (Kind("loads", k, a) = {q}) => WorksWait(n, b, q, TRUE)
<1> DEFINE x == Kind("explorer", k, a)
           y == Kind("ops", k, a)
           z == Kind("loads", k, a)
<1>1. CallsIn(n) /\ More("explorer", m, n, x) /\ More("ops", m, n, y) /\ More("loads", m, n, z)
  BY DEF Adds
<1>2. y = {} /\ {} # {"op"}
  BY ExplorerKinds
<1>3. x # "later" /\ (x \in Works => (b = x /\ ~Working(m)))
  OBVIOUS
<1> HIDE DEF x, y, z
<1>4. Working(n) <=> Working(m)
  BY <1>1, <1>2 DEF More, Working
<1>5. b \in {"no"} \cup Works /\ \A w \in Works : b = w <=> Waits("explorer", n, {w})
  BY <1>1, <1>3 DEF More, WorksWait
<1>6. Working(n) => Alone("explorer", n, Works)
  BY <1>1, <1>3, <1>4 DEF More, WorksWait
<1>7. ~Waits("explorer", n, {"later"})
  BY <1>1, <1>3 DEF More, WorksWait
<1>8. l => Waits("loads", n, {{r}})
  BY <1>1 DEF More, WorksWait
<1>9. \A q : z = {q} => Waits("loads", n, {{q}})
  BY <1>1 DEF More
<1> QED
  BY <1>1, <1>4, <1>5, <1>6, <1>7, <1>8, <1>9 DEF WorksWait, z

\* The first request of an operation, or of the loads that end one.
LEMMA WorksStart ==
    ASSUME NEW m, NEW r, NEW l, WorksWait(m, "no", r, l), NEW k, NEW a, NEW n, Adds(m, n, k, a),
           NEW x \in Works, Kind("explorer", k, a) = x
    PROVE  /\ WorksWait(n, x, r, l)
           /\ \A q : (Kind("loads", k, a) = {q}) => WorksWait(n, x, q, TRUE)
<1> DEFINE y == Kind("ops", k, a)
           z == Kind("loads", k, a)
<1>1. CallsIn(n) /\ More("explorer", m, n, x) /\ More("ops", m, n, y) /\ More("loads", m, n, z)
  BY DEF Adds
<1>2. "no" \notin Works /\ "later" \notin Works
  BY DEF Works
<1> HIDE DEF y, z
<1>4. \A w \in Works : ~Waits("explorer", m, {w})
  BY <1>2 DEF WorksWait
<1>5. ~Waits("explorer", m, Works) /\ Alone("explorer", m, Works)
  BY <1>4 DEF Waits, Alone
<1>6. Alone("explorer", n, Works)
  BY <1>1, <1>5 DEF More
<1>7. \A w \in Works : x = w <=> Waits("explorer", n, {w})
  BY <1>1, <1>4 DEF More
<1>8. ~Waits("explorer", n, {"later"})
  BY <1>1, <1>2 DEF More, WorksWait
<1>9. l => Waits("loads", n, {{r}})
  BY <1>1 DEF More, WorksWait
<1>10. \A q : z = {q} => Waits("loads", n, {{q}})
  BY <1>1 DEF More
<1> QED
  BY <1>1, <1>6, <1>7, <1>8, <1>9, <1>10 DEF WorksWait, z

\* The request of an operation is answered.
LEMMA WorksDone ==
    ASSUME NEW b, NEW r, NEW l, WorksWait(net, b, r, l), NEW s \in Slots, Busy(s), net[s].k \in Works
    PROVE  /\ b = net[s].k
           /\ WorksWait(Rest(s), "no", r, l) /\ ~Working(Rest(s))
<1> DEFINE k == net[s].k
           m == Rest(s)
<1>1. Kind("explorer", net[s].k, net[s].a) = k /\ Kind("ops", net[s].k, net[s].a) = {"op"}
  BY ExplorerKinds
<1>2. Kind("loads", net[s].k, net[s].a) = {}
  BY ExplorerKinds DEF Works
<1>3. CallsIn(net)
  BY DEF WorksWait
<1>4. Waits("explorer", net, {k}) /\ Working(net)
  BY <1>1 DEF Waits, KindOf, Busy, Working
<1>5. b = k /\ Alone("explorer", net, Works)
  BY <1>4 DEF WorksWait
<1>6. CallsIn(m) /\ m[s] = NoCall /\ \A t \in Slots \ {s} : m[t] = net[t]
  BY <1>3, RestFrees
<1>7. Less("explorer", net, m, k)
  BY <1>1, <1>3, RestLess DEF KindOf
<1>8. Less("loads", net, m, {})
  BY <1>2, <1>3, RestLess DEF KindOf
<1> HIDE DEF m
<1>9. ~Waits("explorer", m, Works) /\ Alone("explorer", m, Works)
  BY <1>5, <1>7 DEF Less
<1>10. ~Working(m)
  <2>1. SUFFICES ASSUME NEW t \in Slots, m[t] # NoCall, Kind("ops", m[t].k, m[t].a) \in {{"op"}} PROVE FALSE
    BY DEF Waits, KindOf, Working
  <2>2. {} # {"op"}
    OBVIOUS
  <2>3. m[t].k \in Works
    BY <2>1, <2>2, ExplorerKinds
  <2>4. Kind("explorer", m[t].k, m[t].a) \in Works
    BY <2>3, ExplorerKinds
  <2> QED
    BY <1>9, <2>1, <2>4 DEF Waits, KindOf
<1>11. \A w \in Works : ~Waits("explorer", m, {w})
  BY <1>9 DEF Waits
<1>12. "no" \notin Works /\ "later" \notin Works
  BY DEF Works
<1>13. ~Waits("explorer", m, {"later"})
  BY <1>7, <1>12 DEF Less, WorksWait
<1>14. l => Waits("loads", m, {{r}})
  <2>1. {} # {r}
    OBVIOUS
  <2> QED
    BY <1>8, <2>1 DEF Less, WorksWait
<1>15. WorksWait(m, "no", r, l)
  BY <1>6, <1>9, <1>11, <1>12, <1>13, <1>14 DEF WorksWait
<1> QED
  BY <1>5, <1>10, <1>15 DEF m

\* The answer of a request that is not an operation's own: the operation that
\* awaits it ends unless another load of it is out.
LEMMA WorksLess ==
    ASSUME NEW b, NEW r, NEW l, WorksWait(net, b, r, l), NEW s \in Slots, Busy(s), net[s].k \notin Works,
           NEW x, x = Kind("explorer", net[s].k, net[s].a), NEW q, q => (l /\ Kind("loads", net[s].k, net[s].a) # {r})
    PROVE  /\ x \notin Works => WorksWait(Rest(s), b, r, q)
           /\ x \in Works =>
                 /\ b = x
                 /\ Waits("explorer", Rest(s), {x}) => WorksWait(Rest(s), b, r, q)
                 /\ ~Waits("explorer", Rest(s), {x}) => WorksWait(Rest(s), "no", r, q)
                 /\ ~Working(net)
<1> DEFINE m == Rest(s)
           z == Kind("loads", net[s].k, net[s].a)
<1>1. CallsIn(net) /\ CallsIn(m)
  BY RestFrees DEF WorksWait
<1>2. Less("explorer", net, m, x)
  BY <1>1, RestLess DEF KindOf
<1>3. Less("ops", net, m, {}) /\ Less("loads", net, m, z)
  <2>1. Kind("ops", net[s].k, net[s].a) = {}
    BY ExplorerKinds
  <2>2. Less("ops", net, m, {})
    BY <1>1, <2>1, RestLess DEF KindOf
  <2>3. Less("loads", net, m, z)
    BY <1>1, RestLess DEF KindOf
  <2> QED
    BY <2>2, <2>3
<1>4. {} # {"op"} /\ "no" \notin Works /\ "later" \notin Works
  BY DEF Works
<1> HIDE DEF m, z
<1>6. Working(m) <=> Working(net)
  BY <1>3, <1>4 DEF Less, Working
<1>7. ~Waits("explorer", m, {"later"})
  BY <1>2 DEF Less, WorksWait
<1>8. q => Waits("loads", m, {{r}})
  BY <1>3 DEF Less, WorksWait, z
<1>9. Working(m) => Alone("explorer", m, Works)
  BY <1>2, <1>6 DEF Less, WorksWait
<1>10. CASE x \notin Works
  <2>1. \A w \in Works : b = w <=> Waits("explorer", m, {w})
    BY <1>2, <1>10 DEF Less, WorksWait
  <2> QED
    BY <1>1, <1>7, <1>8, <1>9, <1>10, <2>1 DEF WorksWait, m
<1>11. CASE x \in Works
  <2>1. b = x
    BY <1>2, <1>11 DEF Less, WorksWait
  <2>2. ~Working(net)
    <3>1. SUFFICES ASSUME Working(net) PROVE FALSE
      OBVIOUS
    <3>2. PICK t \in Slots : net[t] # NoCall /\ Kind("ops", net[t].k, net[t].a) \in {{"op"}}
      BY <3>1 DEF Waits, KindOf, Working
    <3>3. net[t].k \in Works
      BY <1>4, <3>2, ExplorerKinds
    <3>4. Kind("explorer", net[t].k, net[t].a) \in Works
      BY <3>3, ExplorerKinds
    <3>5. Alone("explorer", net, Works)
      BY <3>1 DEF WorksWait
    <3>6. t = s
      BY <1>11, <3>2, <3>4, <3>5 DEF Alone, KindOf, Busy
    <3> QED
      BY <3>3, <3>6
  <2>3. \A w \in Works \ {x} : ~Waits("explorer", m, {w})
    BY <1>2, <2>1 DEF Less, WorksWait
  <2>4. CASE Waits("explorer", m, {x})
    <3>1. \A w \in Works : b = w <=> Waits("explorer", m, {w})
      BY <2>1, <2>3, <2>4
    <3>2. WorksWait(m, b, r, q)
      BY <1>1, <1>7, <1>8, <1>9, <1>11, <2>1, <3>1 DEF WorksWait
    <3> QED
      BY <1>11, <2>1, <2>2, <2>4, <3>2 DEF m
  <2>5. CASE ~Waits("explorer", m, {x})
    <3>1. \A w \in Works : ~Waits("explorer", m, {w})
      BY <2>3, <2>5
    <3>2. WorksWait(m, "no", r, q)
      BY <1>1, <1>4, <1>7, <1>8, <1>9, <3>1 DEF WorksWait
    <3> QED
      BY <1>11, <2>1, <2>2, <2>5, <3>2 DEF m
  <2> QED
    BY <2>4, <2>5
<1> QED
  BY <1>10, <1>11

\* The request of a conversion is aborted: the server may still act on it.
LEMMA WorksAborted ==
    ASSUME NEW b, NEW r, NEW l, WorksWait(net, b, r, l), NEW s \in Slots, Busy(s), net[s].k = "convert",
           NEW n, n = [net EXCEPT ![s].k = "aborted"]
    PROVE  /\ WorksWait(n, "no", r, l) /\ ~Working(n)
           /\ \A t \in Slots : net[t] = NoCall => n[t] = NoCall
<1>1. CallsIn(net)
  BY DEF WorksWait
<1>2. "convert" \in Works /\ "aborted" \notin Works
  BY DEF Works
<1>3. CallsIn(Rest(s)) /\ Rest(s)[s] = NoCall /\ \A t \in Slots \ {s} : Rest(s)[t] = net[t]
  BY <1>1, RestFrees
<1>4. WorksWait(Rest(s), "no", r, l) /\ ~Working(Rest(s))
  BY <1>2, WorksDone
<1>5. IsCall(net[s])
  BY <1>1 DEF CallsIn, Busy
<1> DEFINE c == [net[s] EXCEPT !.k = "aborted"]
<1>6. c.k = "aborted" /\ c.a = net[s].a /\ IsCall(c)
  BY <1>5 DEF IsCall
<1>7. c # NoCall
  <2> DEFINE none == ""
  <2>1. NoCall.k = none
    BY DEF NoCall
  <2>2. none # "aborted"
    BY Zenon
  <2> HIDE DEF none, c
  <2> QED
    BY <1>6, <2>1, <2>2
<1>8. n = [net EXCEPT ![s] = c]
  OBVIOUS
<1> HIDE DEF c
<1>9. n[s] = c /\ \A t \in Slots \ {s} : n[t] = net[t]
  BY <1>1, <1>8 DEF CallsIn
<1>10. CallsIn(n)
  BY <1>1, <1>6, <1>8, <1>9 DEF CallsIn
<1>11. \A p : More(p, Rest(s), n, KindOf(p, n[s]))
  BY <1>3, <1>7, <1>9, <1>10, FillMore
<1>12. Adds(Rest(s), n, "aborted", c.a)
  BY <1>6, <1>9, <1>10, <1>11 DEF Adds, KindOf
<1>13. Kind("explorer", "aborted", c.a) # "later" /\ Kind("explorer", "aborted", c.a) \notin Works
  BY <1>2, ExplorerKinds
<1>14. WorksWait(n, "no", r, l) /\ ~Working(n)
  <2> DEFINE m == Rest(s)
  <2>1. WorksWait(m, "no", r, l) /\ Adds(m, n, "aborted", c.a) /\ ~Working(m)
    BY <1>4, <1>12
  <2> HIDE DEF m
  <2>2. WorksWait(n, "no", r, l)
    BY <1>2, <1>13, <2>1, WorksMore
  <2>3. ~Working(n)
    BY <1>2, <2>1, WorkingStays
  <2> QED
    BY <2>2, <2>3
<1> QED
  BY <1>9, <1>14 DEF Busy

ExplorerFlags ==
    /\ CallsIn(net) /\ DOMAIN ui = {"cur", "back", "kids", "of", "from", "items", "total", "rid", "loading", "more", "busy", "cancel", "ids", "confirm", "dlg"}
    /\ WorksWait(net, ui.busy, ui.rid, ui.loading)
    /\ ui.confirm = "images" => ui.busy = "no"

LEMMA ExplorerFlagStep ==
    ASSUME ExplorerFlags, NEW s \in Slots, ExplorerUser \/ (Busy(s) /\ ExplorerResume(s))
    PROVE  ExplorerFlags'
<1> DEFINE Sets(v0, v1, v2, v3) ==
               DOMAIN ui' = DOMAIN ui /\ ui'.rid = v0 /\ ui'.loading = v1 /\ ui'.busy = v2 /\ ui'.confirm = v3
           none == ""
<1>1. /\ CallsIn(net) /\ WorksWait(net, ui.busy, ui.rid, ui.loading) /\ (ui.confirm = "images" => ui.busy = "no")
      /\ DOMAIN ui = {"cur", "back", "kids", "of", "from", "items", "total", "rid", "loading", "more", "busy",
                      "cancel", "ids", "confirm", "dlg"}
  BY DEF ExplorerFlags, WorksWait
<1>2. /\ {"mkdir", "rmdir", "images", "kids", "aborted", "no", "later"} \cap Works = {}
      /\ {"upload", "convert", "remove"} = Works
  BY DEF Works
<1>3. ASSUME DOMAIN ui' = DOMAIN ui, WorksWait(net', ui'.busy, ui'.rid, ui'.loading), ui'.confirm = "images" => ui'.busy = "no"
      PROVE  ExplorerFlags'
  BY <1>1, <1>3 DEF ExplorerFlags, WorksWait
<1>4. ASSUME NEW u, DOMAIN u = DOMAIN ui, u.rid = ui.rid, u.loading = ui.loading, u.busy = ui.busy,
             u.confirm = "images" => ui.busy = "no", User(u)
      PROVE  ExplorerFlags'
  <2>1. ui' = u /\ net' = net
    BY <1>4 DEF User
  <2> QED
    BY <1>1, <1>3, <1>4, <2>1
<1>5. ASSUME NEW u, NEW k, NEW a, Ask(u, k, a)
      PROVE  ui' = u /\ Adds(net, net', k, a)
  <2>1. ui' = u /\ Room(1) /\ net' = Send(net, k, a)
    BY <1>5 DEF Ask
  <2>2. Free(net)
    BY <2>1, RoomIsIdle DEF Free
  <2> QED
    BY <1>1, <2>1, <2>2, SendAdds
<1>6. ASSUME NEW u, DOMAIN u = DOMAIN ui, u.rid = ui.rid, u.loading = ui.loading, u.busy = ui.busy,
             u.confirm = "images" => ui.busy = "no",
             NEW k, NEW a, Kind("explorer", k, a) \notin Works \cup {"later"}, k \notin Works, Ask(u, k, a)
      PROVE  ExplorerFlags'
  <2>1. ui' = u /\ Adds(net, net', k, a)
    BY <1>5, <1>6
  <2>2. WorksWait(net', ui.busy, ui.rid, ui.loading)
    BY <1>1, <1>6, <2>1, WorksMore
  <2> QED
    BY <1>3, <1>6, <2>1, <2>2
<1>7. ASSUME NEW u, DOMAIN u = DOMAIN ui, u.rid = ui.rid, u.loading = ui.loading, ui.busy = "no",
             NEW k \in Works, u.busy = k, u.confirm # "images", NEW a, Ask(u, k, a)
      PROVE  ExplorerFlags'
  <2>1. ui' = u /\ Adds(net, net', k, a)
    BY <1>5, <1>7
  <2>2. Kind("explorer", k, a) = k
    BY ExplorerKinds
  <2>3. WorksWait(net', k, ui.rid, ui.loading)
    BY <1>1, <1>7, <2>1, <2>2, WorksStart
  <2> QED
    BY <1>3, <1>7, <2>1, <2>3
<1>8. ASSUME NEW u, DOMAIN u = DOMAIN ui, NEW f
      PROVE  /\ DOMAIN ExplorerReload(u, f) = DOMAIN ui /\ ExplorerReload(u, f).loading = TRUE
             /\ ExplorerReload(u, f).busy = u.busy /\ ExplorerReload(u, f).confirm = u.confirm
  BY <1>1, <1>8 DEF ExplorerReload
<1>9. ASSUME NEW u, DOMAIN u = DOMAIN ui, NEW f
      PROVE  /\ DOMAIN ExplorerSelected(u, f) = DOMAIN ui /\ ExplorerSelected(u, f).loading = TRUE
             /\ ExplorerSelected(u, f).busy = u.busy /\ ExplorerSelected(u, f).confirm = u.confirm
  <2> DEFINE w == IF f = u.cur THEN u.back ELSE u.cur
             v == [u EXCEPT !.cur = f, !.back = w]
  <2>1. ExplorerSelected(u, f) = ExplorerReload(v, f)
    BY Zenon DEF ExplorerSelected
  <2> HIDE DEF w
  <2>2. DOMAIN v = DOMAIN ui /\ v.busy = u.busy /\ v.confirm = u.confirm
    BY <1>1, <1>9
  <2> HIDE DEF v
  <2> QED
    BY <1>8, <2>1, <2>2
<1>10. ASSUME NEW m, NEW b, NEW r, NEW l, WorksWait(m, b, r, l), Free(m), NEW u, NEW fin, fin = "no" \/ (fin = b /\ ~Working(m))
       PROVE  /\ WorksWait(ExplorerImagesOf(m, u, fin), b, u.rid, TRUE)
              /\ ~Working(m) => ~Working(ExplorerImagesOf(m, u, fin))
              /\ Free2(m) => Free(ExplorerImagesOf(m, u, fin))
  <2> DEFINE a == [folder |-> u.of, page |-> 1, rid |-> u.rid, fin |-> fin]
             n == Send(m, "images", a)
  <2>1. ExplorerImagesOf(m, u, fin) = n
    BY DEF ExplorerImagesOf
  <2>2. a.page = 1 /\ a.rid = u.rid /\ a.fin = fin /\ fin \in {"no"} \cup Works
    BY <1>10 DEF WorksWait
  <2>3. IsLoad("images", a)
    BY <2>2 DEF IsLoad
  <2> HIDE DEF a
  <2>4. Kind("loads", "images", a) = {u.rid}
    BY <2>2, ExplorerKinds
  <2>5. Kind("explorer", "images", a) = IF fin \in Works THEN fin ELSE "images"
    BY <2>2, <2>3, ExplorerKinds
  <2>6. Adds(m, n, "images", a) /\ (Free2(m) => Free(n))
    BY <1>10, SendAdds DEF WorksWait
  <2> HIDE DEF n
  <2>7. /\ Kind("explorer", "images", a) # "later"
        /\ Kind("explorer", "images", a) \in Works => (b = Kind("explorer", "images", a) /\ ~Working(m))
    BY <1>2, <1>10, <2>5
  <2>8. "images" \notin Works
    BY <1>2
  <2>9. WorksWait(n, b, u.rid, TRUE)
    BY <1>10, <2>4, <2>6, <2>7, <2>8, WorksMore
  <2>10. ~Working(m) => ~Working(n)
    BY <2>6, <2>8, WorkingStays
  <2> QED
    BY <2>1, <2>6, <2>9, <2>10
<1>11. ASSUME NEW m, NEW b, NEW r, NEW l, WorksWait(m, b, r, l), Free(m), NEW f,
              NEW fin, fin \in {"no", "mkdir", "rmdir"} \/ (fin = b /\ ~Working(m))
       PROVE  WorksWait(ExplorerKidsOf(m, f, fin), b, r, l)
  <2> DEFINE a == [folder |-> f, fin |-> fin]
             n == Send(m, "kids", a)
  <2>1. ExplorerKidsOf(m, f, fin) = n
    BY DEF ExplorerKidsOf
  <2>2. a.fin = fin /\ fin \in {"no", "mkdir", "rmdir"} \cup Works
    BY <1>11 DEF WorksWait
  <2>3. IsLoad("kids", a)
    BY <2>2 DEF IsLoad
  <2> HIDE DEF a
  <2>4. Kind("explorer", "kids", a) = IF fin \in Works THEN fin ELSE "kids"
    BY <2>2, <2>3, ExplorerKinds
  <2>5. Adds(m, n, "kids", a)
    BY <1>11, SendAdds DEF WorksWait
  <2> HIDE DEF n
  <2>6. /\ Kind("explorer", "kids", a) # "later"
        /\ Kind("explorer", "kids", a) \in Works => (b = Kind("explorer", "kids", a) /\ ~Working(m))
    BY <1>2, <1>11, <2>4
  <2>7. "kids" \notin Works
    BY <1>2
  <2>8. WorksWait(n, b, r, l)
    BY <1>11, <2>5, <2>6, <2>7, WorksMore
  <2> QED
    BY <2>1, <2>8
<1>12. ASSUME NEW m, NEW b, NEW r, NEW l, WorksWait(m, b, r, l), Free(m), NEW u, NEW f, u.kids[f] # None \/ Free2(m)
       PROVE  WorksWait(ExplorerOpened(m, u, f), b, u.rid, TRUE)
  <2> DEFINE n == ExplorerImagesOf(m, u, "no")
  <2>1. WorksWait(n, b, u.rid, TRUE) /\ (Free2(m) => Free(n))
    BY <1>10, <1>12
  <2> HIDE DEF n
  <2>2. CASE u.kids[f] = None
    <3>1. ExplorerOpened(m, u, f) = ExplorerKidsOf(n, f, "no")
      BY <2>2 DEF ExplorerOpened, n
    <3> QED
      BY <1>11, <1>12, <2>1, <2>2, <3>1
  <2>3. CASE u.kids[f] # None
    <3>1. ExplorerOpened(m, u, f) = n
      BY <2>3 DEF ExplorerOpened, n
    <3> QED
      BY <2>1, <3>1
  <2> QED
    BY <2>2, <2>3
<1>13. ASSUME NEW m, NEW r, NEW l, WorksWait(m, "no", r, l), ~Working(m), Free(m), NEW u, NEW fin \in Works
       PROVE  /\ WorksWait(ExplorerImagesOf(m, u, fin), fin, u.rid, TRUE) /\ ~Working(ExplorerImagesOf(m, u, fin))
              /\ Free2(m) => Free(ExplorerImagesOf(m, u, fin))
  <2> DEFINE a == [folder |-> u.of, page |-> 1, rid |-> u.rid, fin |-> fin]
             n == Send(m, "images", a)
  <2>1. ExplorerImagesOf(m, u, fin) = n
    BY DEF ExplorerImagesOf
  <2>2. a.page = 1 /\ a.rid = u.rid /\ a.fin = fin
    OBVIOUS
  <2>3. IsLoad("images", a)
    BY <2>2 DEF IsLoad
  <2> HIDE DEF a
  <2>4. Kind("loads", "images", a) = {u.rid} /\ Kind("explorer", "images", a) = fin
    BY <2>2, <2>3, ExplorerKinds
  <2>5. Adds(m, n, "images", a) /\ (Free2(m) => Free(n))
    BY <1>13, SendAdds DEF WorksWait
  <2> HIDE DEF n
  <2>6. WorksWait(n, fin, u.rid, TRUE)
    BY <1>13, <2>4, <2>5, WorksStart
  <2>7. ~Working(n)
    BY <1>2, <1>13, <2>5, WorkingStays
  <2> QED
    BY <2>1, <2>5, <2>6, <2>7
<1>14. ASSUME NEW f, ExplorerSelect(f) PROVE ExplorerFlags'
  <2> DEFINE u == ExplorerSelected(ui, f)
  <2>1. Room(2) /\ ui' = u /\ net' = ExplorerOpened(net, u, f)
    BY <1>14 DEF ExplorerSelect
  <2>2. DOMAIN u = DOMAIN ui /\ u.loading = TRUE /\ u.busy = ui.busy /\ u.confirm = ui.confirm
    BY <1>9
  <2> HIDE DEF u
  <2>3. Free2(net) /\ Free(net)
    BY <2>1, RoomsAreIdle DEF Free2, Free
  <2>4. WorksWait(net', ui.busy, u.rid, TRUE)
    BY <1>1, <1>12, <2>1, <2>3
  <2> QED
    BY <1>1, <1>3, <2>1, <2>2, <2>4
<1>15. ASSUME NEW t \in Slots, ExplorerCancel(t) PROVE ExplorerFlags'
  <2>1. ui.busy = "convert" /\ Busy(t) /\ net[t].k = "convert"
    BY <1>15 DEF ExplorerCancel
  <2>2. CASE net[t].st = "sent"
    <3> DEFINE v == [ui EXCEPT !.cancel = TRUE]
               u == ExplorerReload(v, net[t].a.folder)
               m == [net EXCEPT ![t].k = "aborted"]
               n == ExplorerImagesOf(m, u, "convert")
    <3>1. Room(2) /\ ui' = u /\ net' = ExplorerKidsOf(n, u.of, "convert")
      BY <1>15, <2>2, Zenon DEF ExplorerCancel, Fire
    <3>2. DOMAIN v = DOMAIN ui /\ v.busy = ui.busy /\ v.confirm = ui.confirm
      BY <1>1
    <3> HIDE DEF v
    <3>3. DOMAIN u = DOMAIN ui /\ u.loading = TRUE /\ u.busy = ui.busy /\ u.confirm = ui.confirm
      BY <1>8, <3>2
    <3> HIDE DEF u
    <3>4. /\ WorksWait(m, "no", ui.rid, ui.loading) /\ ~Working(m)
          /\ \A i \in Slots : net[i] = NoCall => m[i] = NoCall
      BY <1>1, <2>1, WorksAborted
    <3> HIDE DEF m
    <3>5. Free2(m) /\ Free(m)
      BY <3>1, <3>4, RoomsAreIdle DEF Free2, Free
    <3>6. WorksWait(n, "convert", u.rid, TRUE) /\ ~Working(n) /\ Free(n)
      BY <1>2, <1>13, <3>4, <3>5
    <3> HIDE DEF n
    <3>7. WorksWait(net', "convert", u.rid, TRUE)
      BY <1>11, <3>1, <3>6
    <3> QED
      BY <1>1, <1>3, <2>1, <3>1, <3>3, <3>7
  <2>3. CASE net[t].st # "sent"
    <3> DEFINE u == [ui EXCEPT !.cancel = TRUE]
    <3>1. User(u)
      BY <1>15, <2>3 DEF ExplorerCancel
    <3>2. DOMAIN u = DOMAIN ui /\ u.rid = ui.rid /\ u.loading = ui.loading /\ u.busy = ui.busy /\ u.confirm = ui.confirm
      BY <1>1
    <3> HIDE DEF u
    <3> QED
      BY <1>1, <1>4, <3>1, <3>2
  <2> QED
    BY <2>2, <2>3
<1>16. None \notin {"images", "busy"}
  BY NullAssumption DEF Words
<1>17. ASSUME NEW x, NEW y,
              \/ User([ui EXCEPT !.cur = x, !.back = y]) \/ User([ui EXCEPT !.dlg = x]) \/ User([ui EXCEPT !.ids = x])
              \/ (x = "images" => ui.busy = "no") /\ User([ui EXCEPT !.confirm = x])
       PROVE  ExplorerFlags'
  <2> DEFINE u1 == [ui EXCEPT !.cur = x, !.back = y]
             u2 == [ui EXCEPT !.dlg = x]
             u3 == [ui EXCEPT !.ids = x]
             u4 == [ui EXCEPT !.confirm = x]
             Like(u) == DOMAIN u = DOMAIN ui /\ u.rid = ui.rid /\ u.loading = ui.loading /\ u.busy = ui.busy
  <2>1. Like(u1) /\ u1.confirm = ui.confirm
    BY <1>1
  <2>2. Like(u2) /\ u2.confirm = ui.confirm
    BY <1>1
  <2>3. Like(u3) /\ u3.confirm = ui.confirm
    BY <1>1
  <2>4. Like(u4) /\ u4.confirm = x
    BY <1>1
  <2>5. User(u1) \/ User(u2) \/ User(u3) \/ ((x = "images" => ui.busy = "no") /\ User(u4))
    BY <1>17
  <2> HIDE DEF u1, u2, u3, u4
  <2> QED
    BY <1>1, <1>4, <2>1, <2>2, <2>3, <2>4, <2>5
<1>18. ASSUME \/ \E f : ExplorerExpand(f)
              \/ ExplorerLoadMore \/ ExplorerSubmitFolder \/ ExplorerDeleteFolder
       PROVE  ExplorerFlags'
  <2> DEFINE Like(u) == DOMAIN u = DOMAIN ui /\ u.rid = ui.rid /\ u.loading = ui.loading /\ u.busy = ui.busy
  <2>1. CASE \E f : ExplorerExpand(f)
    <3>1. PICK f : Ask(ui, "kids", [folder |-> f, fin |-> "no"])
      BY <2>1 DEF ExplorerExpand
    <3> DEFINE a == [folder |-> f, fin |-> "no"]
    <3>2. a.fin = "no"
      OBVIOUS
    <3> HIDE DEF a
    <3>3. IsLoad("kids", a) /\ a.fin \notin Works
      BY <1>2, <3>2 DEF IsLoad
    <3>4. Kind("explorer", "kids", a) \notin Works \cup {"later"}
      BY <1>2, <3>3, ExplorerKinds
    <3>5. Ask(ui, "kids", a)
      BY <3>1 DEF a
    <3> QED
      BY <1>1, <1>2, <1>6, <3>4, <3>5
  <2>2. CASE ExplorerLoadMore
    <3> DEFINE a == [folder |-> ui.of, page |-> 2, rid |-> ui.rid, fin |-> "no"]
               u == [ui EXCEPT !.more = TRUE]
    <3>1. Ask(u, "images", a)
      BY <2>2, Zenon DEF ExplorerLoadMore
    <3>2. a.fin = "no" /\ Like(u) /\ u.confirm = ui.confirm
      BY <1>1
    <3> HIDE DEF a, u
    <3>3. IsLoad("images", a) /\ a.fin \notin Works
      BY <1>2, <3>2 DEF IsLoad
    <3>4. Kind("explorer", "images", a) \notin Works \cup {"later"}
      BY <1>2, <3>3, ExplorerKinds
    <3> QED
      BY <1>1, <1>2, <1>6, <3>1, <3>2, <3>4
  <2>3. CASE ExplorerSubmitFolder
    <3> DEFINE u == [ui EXCEPT !.dlg = "creating"]
    <3>1. PICK a : Ask(u, "mkdir", a)
      BY <2>3, Zenon DEF ExplorerSubmitFolder
    <3>2. Like(u) /\ u.confirm = ui.confirm
      BY <1>1
    <3> HIDE DEF u
    <3>3. Kind("explorer", "mkdir", a) \notin Works \cup {"later"}
      BY <1>2, ExplorerKinds
    <3> QED
      BY <1>1, <1>2, <1>6, <3>1, <3>2, <3>3
  <2>4. CASE ExplorerDeleteFolder
    <3> DEFINE u == [ui EXCEPT !.confirm = "busy"]
    <3>1. PICK a : Ask(u, "rmdir", a)
      BY <2>4, Zenon DEF ExplorerDeleteFolder
    <3>2. Like(u) /\ u.confirm = "busy"
      BY <1>1
    <3> HIDE DEF u
    <3>3. Kind("explorer", "rmdir", a) \notin Works \cup {"later"}
      BY <1>2, ExplorerKinds
    <3> QED
      BY <1>1, <1>2, <1>6, <3>1, <3>2, <3>3
  <2> QED
    BY <1>18, <2>1, <2>2, <2>3, <2>4
<1>19. ASSUME NEW k \in {"upload", "convert"}, NEW n, ExplorerTransfer(k, n), ui.confirm = None PROVE ExplorerFlags'
  <2> DEFINE u == [ui EXCEPT !.busy = k]
  <2>1. ui.busy = "no" /\ \E a : Ask(u, k, a)
    BY <1>19, Zenon DEF ExplorerTransfer
  <2>2. /\ DOMAIN u = DOMAIN ui /\ u.rid = ui.rid /\ u.loading = ui.loading /\ u.busy = k
        /\ u.confirm # "images" /\ k \in Works
    BY <1>1, <1>2, <1>16, <1>19
  <2> HIDE DEF u
  <2> QED
    BY <1>7, <2>1, <2>2
<1>20. CASE ExplorerDeleteImages
  <2> DEFINE u == [ui EXCEPT !.busy = "remove", !.confirm = "busy"]
  <2>1. ui.confirm = "images" /\ \E a : Ask(u, "remove", a)
    BY <1>20, Zenon DEF ExplorerDeleteImages
  <2>2. /\ DOMAIN u = DOMAIN ui /\ u.rid = ui.rid /\ u.loading = ui.loading /\ u.busy = "remove"
        /\ u.confirm # "images" /\ "remove" \in Works
    BY <1>1, <1>2
  <2> HIDE DEF u
  <2> QED
    BY <1>1, <1>7, <2>1, <2>2
<1>21. CASE ExplorerUser
  <2>1. \/ \E f : ExplorerSelect(f)
        \/ \E f : ExplorerExpand(f)
        \/ ExplorerLoadMore \/ ExplorerSubmitFolder \/ ExplorerDeleteFolder
        \/ ui.confirm = None /\ \E k \in {"upload", "convert"} : \E n : ExplorerTransfer(k, n)
        \/ \E t \in Slots : ExplorerCancel(t)
        \/ ExplorerDeleteImages
        \/ ExplorerBack \/ ExplorerNewFolder \/ ExplorerCloseFolder \/ ExplorerCloseConfirm
        \/ \E r : ExplorerToggle(r)
        \/ ui.busy = "no" /\ ExplorerAskDelete("images")
        \/ ExplorerAskDelete("folder")
    BY <1>21, Zenon DEF ExplorerUser
  <2>2. CASE \/ ExplorerBack \/ ExplorerNewFolder \/ ExplorerCloseFolder \/ ExplorerCloseConfirm
             \/ \E r : ExplorerToggle(r)
             \/ ui.busy = "no" /\ ExplorerAskDelete("images")
             \/ ExplorerAskDelete("folder")
    <3>1. \/ \E x, y : User([ui EXCEPT !.cur = x, !.back = y])
          \/ \E x : User([ui EXCEPT !.dlg = x])
          \/ \E x : User([ui EXCEPT !.ids = x])
          \/ User([ui EXCEPT !.confirm = None])
          \/ ui.busy = "no" /\ User([ui EXCEPT !.confirm = "images"])
          \/ User([ui EXCEPT !.confirm = "folder"])
      BY <2>2, Zenon
         DEF ExplorerBack, ExplorerNewFolder, ExplorerCloseFolder, ExplorerCloseConfirm, ExplorerToggle, ExplorerAskDelete
    <3>2. "folder" # "images"
      OBVIOUS
    <3> QED
      BY <1>16, <1>17, <3>1, <3>2
  <2> QED
    BY <1>14, <1>15, <1>18, <1>19, <1>20, <2>1, <2>2
<1>22. ASSUME NEW v, Busy(s), NEW k \in {"images", "kids"}, net[s].k = k, net[s].a.fin # "rmdir",
              DOMAIN v = DOMAIN ui, v.rid = ui.rid, v.busy = ui.busy, v.confirm = ui.confirm,
              v.loading => (ui.loading /\ Kind("loads", net[s].k, net[s].a) # {ui.rid}),
              ui' = ExplorerEnds(v, s), net' = Rest(s)
       PROVE  ExplorerFlags'
  <2> DEFINE fin == net[s].a.fin
             x == Kind("explorer", net[s].k, net[s].a)
             others == {t \in InFlight({"images", "kids"}) \ {s} : net[t].a.fin = fin}
             last == CASE fin = "remove" -> [v EXCEPT !.busy = "no", !.confirm = IF @ = "busy" THEN None ELSE @]
                       [] fin = "mkdir"  -> [v EXCEPT !.dlg = "no"]
                       [] OTHER -> [v EXCEPT !.busy = "no", !.cancel = FALSE]
  <2>1. ui' = IF fin = "no" \/ others # {} THEN v ELSE last
    BY <1>22, Zenon DEF ExplorerEnds
  <2>2. x # "later"
    BY <1>1, <1>22 DEF WorksWait, Waits, KindOf, Busy
  <2>3. fin \in {"no", "mkdir"} \cup Works /\ x = IF fin \in Works THEN fin ELSE k
    <3>1. IsLoad(k, net[s].a)
      BY <1>22, <2>2, ExplorerKinds
    <3>2. fin \in {"no", "mkdir"} \cup Works
      BY <1>22, <3>1 DEF IsLoad
    <3>3. x = IF fin \in Works THEN fin ELSE k
      BY <1>22, <3>1, ExplorerKinds
    <3> QED
      BY <3>2, <3>3
  <2>4. k \notin Works
    BY <1>2, <1>22
  <2>5. /\ x \notin Works => WorksWait(net', ui.busy, ui.rid, v.loading)
        /\ x \in Works =>
              /\ ui.busy = x
              /\ Waits("explorer", net', {x}) => WorksWait(net', ui.busy, ui.rid, v.loading)
              /\ ~Waits("explorer", net', {x}) => WorksWait(net', "no", ui.rid, v.loading)
              /\ ~Working(net)
    BY <1>1, <1>22, <2>4, WorksLess
  <2>6. net'[s] = NoCall /\ \A t \in Slots \ {s} : net'[t] = net[t]
    BY <1>1, <1>22, RestFrees
  <2> HIDE DEF x, last
  <2>7. CASE fin = "no"
    <3>1. ui' = v
      BY <2>1, <2>7
    <3> QED
      BY <1>1, <1>2, <1>3, <1>22, <2>3, <2>4, <2>5, <2>7, <3>1
  <2>8. CASE fin # "no" /\ others # {}
    <3>1. ui' = v
      BY <2>1, <2>8
    <3>2. CASE fin \in Works
      <4>1. PICK t \in Slots \ {s} : net[t] # NoCall /\ net[t].k \in {"images", "kids"} /\ net[t].a.fin = fin
        BY <2>8 DEF InFlight, Busy
      <4>2. IsLoad(net[t].k, net[t].a)
        BY <3>2, <4>1 DEF IsLoad
      <4>3. Kind("explorer", net[t].k, net[t].a) = fin
        BY <3>2, <4>1, <4>2, ExplorerKinds
      <4>4. Waits("explorer", net', {x})
        BY <2>3, <2>6, <3>2, <4>1, <4>3 DEF Waits, KindOf
      <4> QED
        BY <1>1, <1>3, <1>22, <2>3, <2>5, <3>1, <3>2, <4>4
    <3>3. CASE fin \notin Works
      BY <1>1, <1>3, <1>22, <2>3, <2>4, <2>5, <3>1, <3>3
    <3> QED
      BY <3>2, <3>3
  <2>9. CASE fin # "no" /\ others = {}
    <3>1. ui' = last
      BY <2>1, <2>9
    <3>2. CASE fin \in Works
      <4>1. ~Waits("explorer", net', {x})
        <5>1. SUFFICES ASSUME NEW t \in Slots, net'[t] # NoCall, Kind("explorer", net'[t].k, net'[t].a) = x PROVE FALSE
          BY DEF Waits, KindOf
        <5>2. t # s /\ net[t] # NoCall /\ Kind("explorer", net[t].k, net[t].a) = fin
          BY <2>3, <2>6, <3>2, <5>1
        <5>3. net[t].k \in Works \cup {"images", "kids"}
          BY <3>2, <5>2, ExplorerKinds
        <5>4. CASE net[t].k \in Works
          <6>1. Kind("ops", net[t].k, net[t].a) = {"op"}
            BY <5>4, ExplorerKinds
          <6>2. Working(net)
            BY <5>2, <6>1 DEF Working, Waits, KindOf
          <6> QED
            BY <2>3, <2>5, <3>2, <6>2
        <5>5. CASE net[t].k \in {"images", "kids"}
          <6>1. fin # "later" /\ fin # net[t].k
            BY <1>2, <3>2, <5>5
          <6>2. net[t].a.fin = fin
            BY <5>2, <5>5, <6>1, ExplorerKinds
          <6> QED
            BY <2>9, <5>2, <5>5, <6>2 DEF InFlight, Busy
        <5> QED
          BY <5>3, <5>4, <5>5
      <4>2. WorksWait(net', "no", ui.rid, v.loading)
        BY <2>3, <2>5, <3>2, <4>1
      <4>3. fin # "mkdir"
        BY <1>2, <3>2
      <4>4. DOMAIN ui' = DOMAIN ui /\ ui'.rid = ui.rid /\ ui'.loading = v.loading /\ ui'.busy = "no"
        BY <1>1, <1>22, <3>1, <4>3 DEF last
      <4> QED
        BY <1>3, <4>2, <4>4
    <3>3. CASE fin \notin Works
      <4>1. fin = "mkdir" /\ fin # "remove"
        BY <2>3, <2>9, <3>3
      <4>2. /\ DOMAIN ui' = DOMAIN ui /\ ui'.rid = ui.rid /\ ui'.loading = v.loading /\ ui'.busy = ui.busy
            /\ ui'.confirm = ui.confirm
        BY <1>1, <1>22, <3>1, <4>1 DEF last
      <4>3. WorksWait(net', ui.busy, ui.rid, v.loading)
        BY <2>3, <2>4, <2>5, <3>3
      <4> QED
        BY <1>1, <1>3, <4>2, <4>3
    <3> QED
      BY <3>2, <3>3
  <2> QED
    BY <2>7, <2>8, <2>9
<1>23. ASSUME Busy(s), net[s].k = "images", ExplorerLoaded(s) PROVE ExplorerFlags'
  <2> DEFINE c == net[s].a
             u == IF ~ExplorerCurrent(s) THEN ui
                  ELSE IF c.page = 1 THEN [ui EXCEPT !.loading = FALSE] ELSE [ui EXCEPT !.more = FALSE]
             v == IF ~Ok(s) \/ ~ExplorerCurrent(s) THEN u
                  ELSE [u EXCEPT !.items = IF c.page = 1 THEN net[s].r.items ELSE @ \cup net[s].r.items,
                                 !.total = net[s].r.total, !.from = c.folder]
  <2>1. ui' = ExplorerEnds(v, s) /\ net' = Rest(s)
    BY <1>23, Zenon DEF ExplorerLoaded, Resume
  <2>2. Kind("loads", net[s].k, net[s].a) = IF c.page = 1 THEN {c.rid} ELSE {}
    BY <1>23, ExplorerKinds
  <2>3. /\ DOMAIN u = DOMAIN ui /\ u.rid = ui.rid /\ u.busy = ui.busy /\ u.confirm = ui.confirm
        /\ u.loading => (ui.loading /\ ~(c.page = 1 /\ c.rid = ui.rid))
    <3>1. CASE ~ExplorerCurrent(s)
      BY <3>1 DEF ExplorerCurrent
    <3>2. CASE ExplorerCurrent(s) /\ c.page = 1
      BY <1>1, <3>2
    <3>3. CASE ExplorerCurrent(s) /\ c.page # 1
      BY <1>1, <3>3
    <3> QED
      BY <3>1, <3>2, <3>3
  <2> HIDE DEF u
  <2>4. /\ DOMAIN v = DOMAIN ui /\ v.rid = ui.rid /\ v.busy = ui.busy /\ v.confirm = ui.confirm
        /\ v.loading = u.loading
    <3>1. CASE ~Ok(s) \/ ~ExplorerCurrent(s)
      BY <2>3, <3>1
    <3>2. CASE ~(~Ok(s) \/ ~ExplorerCurrent(s))
      BY <1>1, <2>3, <3>2
    <3> QED
      BY <3>1, <3>2
  <2> HIDE DEF v
  <2>5. v.loading => (ui.loading /\ Kind("loads", net[s].k, net[s].a) # {ui.rid})
    BY <2>2, <2>3, <2>4
  <2>6. net[s].a.fin # "rmdir"
    <3>1. Kind("explorer", net[s].k, net[s].a) # "later"
      BY <1>1, <1>23 DEF WorksWait, Waits, KindOf, Busy
    <3>2. IsLoad("images", net[s].a)
      BY <1>23, <3>1, ExplorerKinds
    <3> QED
      BY <3>2 DEF IsLoad, Works
  <2> QED
    BY <1>22, <1>23, <2>1, <2>4, <2>5, <2>6
<1>24. ASSUME Busy(s), net[s].k \notin Works, Kind("explorer", net[s].k, net[s].a) \notin Works,
              Kind("loads", net[s].k, net[s].a) = {}
       PROVE  WorksWait(Rest(s), ui.busy, ui.rid, ui.loading) /\ Free(Rest(s)) /\ (Room(1) => Free2(Rest(s)))
  <2> DEFINE x == Kind("explorer", net[s].k, net[s].a)
             q == ui.loading
  <2>1. q => (q /\ Kind("loads", net[s].k, net[s].a) # {ui.rid})
    BY <1>24
  <2>2. WorksWait(Rest(s), ui.busy, ui.rid, q)
    <3>1. WorksWait(net, ui.busy, ui.rid, q) /\ x = Kind("explorer", net[s].k, net[s].a) /\ x \notin Works
      BY <1>1, <1>24
    <3> HIDE DEF x, q
    <3> QED
      BY <1>24, <2>1, <3>1, WorksLess
  <2>3. Rest(s)[s] = NoCall /\ \A t \in Slots \ {s} : Rest(s)[t] = net[t]
    BY <1>1, RestFrees
  <2>4. Room(1) => Free2(Rest(s))
    BY <1>24, <2>3, RoomIsIdle DEF Free2, Busy
  <2> QED
    BY <2>2, <2>3, <2>4 DEF Free
<1>25. ASSUME Busy(s), net[s].k = "kids", ExplorerKids(s) PROVE ExplorerFlags'
  <2> DEFINE u == IF Ok(s) THEN [ui EXCEPT !.kids[net[s].a.folder] = net[s].r] ELSE ui
             v == ExplorerSelected(u, none)
             w == [v EXCEPT !.confirm = IF @ = "busy" THEN None ELSE @]
  <2>1. IF net[s].a.fin = "rmdir"
        THEN (u.kids[none] # None \/ Room(1)) /\ ui' = w /\ net' = ExplorerOpened(Rest(s), v, none)
        ELSE ui' = ExplorerEnds(u, s) /\ net' = Rest(s)
    BY <1>25, Zenon DEF ExplorerKids, Resume
  <2> HIDE DEF none
  <2>2. /\ DOMAIN u = DOMAIN ui /\ u.rid = ui.rid /\ u.busy = ui.busy /\ u.confirm = ui.confirm
        /\ u.loading = ui.loading
    BY <1>1
  <2> HIDE DEF u
  <2>3. Kind("loads", net[s].k, net[s].a) = {} /\ {} # {ui.rid}
    BY <1>25, ExplorerKinds
  <2>4. CASE net[s].a.fin # "rmdir"
    BY <1>22, <1>25, <2>1, <2>2, <2>3, <2>4
  <2>5. CASE net[s].a.fin = "rmdir"
    <3>1. Kind("explorer", net[s].k, net[s].a) \notin Works
      <4>1. IsLoad("kids", net[s].a) /\ "rmdir" \notin Works
        BY <1>2, <2>5 DEF IsLoad
      <4> QED
        BY <1>2, <1>25, <2>5, <4>1, ExplorerKinds
    <3>2. WorksWait(Rest(s), ui.busy, ui.rid, ui.loading) /\ Free(Rest(s)) /\ (Room(1) => Free2(Rest(s)))
      BY <1>2, <1>24, <1>25, <2>3, <3>1
    <3>3. DOMAIN v = DOMAIN ui /\ v.loading = TRUE /\ v.busy = ui.busy /\ v.confirm = ui.confirm
      BY <1>9, <2>2
    <3>4. v.kids = u.kids
      BY <1>1, <2>2 DEF ExplorerSelected, ExplorerReload
    <3> HIDE DEF v
    <3>5. WorksWait(net', ui.busy, v.rid, TRUE)
      <4> DEFINE m == Rest(s)
      <4>1. /\ WorksWait(m, ui.busy, ui.rid, ui.loading) /\ Free(m) /\ (v.kids[none] # None \/ Free2(m))
            /\ net' = ExplorerOpened(m, v, none)
        BY <2>1, <2>5, <3>2, <3>4
      <4> HIDE DEF m
      <4> QED
        BY <1>12, <4>1
    <3>6. /\ DOMAIN w = DOMAIN ui /\ w.rid = v.rid /\ w.loading = TRUE /\ w.busy = ui.busy
          /\ w.confirm = ui.confirm \/ w.confirm = None
      BY <1>1, <3>3
    <3> HIDE DEF w
    <3> QED
      BY <1>1, <1>3, <1>16, <2>1, <2>5, <3>5, <3>6
  <2> QED
    BY <2>4, <2>5
<1>26. ASSUME Busy(s), net[s].k \in Works
       PROVE  /\ ui.busy = net[s].k /\ ui.confirm # "images"
              /\ WorksWait(Rest(s), "no", ui.rid, ui.loading) /\ ~Working(Rest(s))
              /\ Free(Rest(s)) /\ (Room(1) => Free2(Rest(s)))
  <2>1. ui.busy = net[s].k /\ WorksWait(Rest(s), "no", ui.rid, ui.loading) /\ ~Working(Rest(s))
    BY <1>1, <1>26, WorksDone
  <2>2. Rest(s)[s] = NoCall /\ \A t \in Slots \ {s} : Rest(s)[t] = net[t]
    BY <1>1, RestFrees
  <2>3. Free(Rest(s)) /\ (Room(1) => Free2(Rest(s)))
    BY <1>26, <2>2, RoomIsIdle DEF Free2, Free, Busy
  <2> QED
    BY <1>1, <1>2, <1>26, <2>1, <2>3
<1>27. ASSUME Busy(s), net[s].k \in Works, NEW a, ui' = ui, net' = Send(Rest(s), net[s].k, a) PROVE ExplorerFlags'
  <2> DEFINE k == net[s].k
             m == Rest(s)
  <2>1. /\ k \in Works /\ ui.busy = k /\ ui.confirm # "images" /\ WorksWait(m, "no", ui.rid, ui.loading) /\ Free(m)
        /\ net' = Send(m, k, a)
    BY <1>26, <1>27
  <2> HIDE DEF k, m
  <2>2. Adds(m, net', k, a)
    BY <2>1, SendAdds DEF WorksWait
  <2>3. Kind("explorer", k, a) = k
    BY <2>1, ExplorerKinds
  <2>4. WorksWait(net', k, ui.rid, ui.loading)
    BY <2>1, <2>2, <2>3, WorksStart
  <2> QED
    BY <1>1, <1>3, <1>27, <2>1, <2>4
<1>28. ASSUME Busy(s), NEW k \in {"upload", "convert"}, net[s].k = k, ExplorerTransferred(s) PROVE ExplorerFlags'
  <2> DEFINE c == net[s].a
             u == ExplorerReload(ui, c.folder)
             m == Rest(s)
             n == ExplorerImagesOf(m, u, k)
  <2>1. /\ k \in Works /\ ui.busy = k /\ ui.confirm # "images" /\ WorksWait(m, "no", ui.rid, ui.loading) /\ ~Working(m)
        /\ Free(m) /\ (Room(1) => Free2(m))
    BY <1>2, <1>26, <1>28
  <2>2. \/ ui' = [ui EXCEPT !.busy = "no"] /\ net' = m
        \/ ui' = ui /\ \E a : net' = Send(Rest(s), net[s].k, a)
        \/ Room(1) /\ ui' = u /\ net' = ExplorerKidsOf(n, c.folder, k)
    BY <1>28, Zenon DEF ExplorerTransferred, Resume
  <2>3. CASE ui' = [ui EXCEPT !.busy = "no"] /\ net' = m
    <3>1. DOMAIN ui' = DOMAIN ui /\ ui'.busy = "no" /\ ui'.rid = ui.rid /\ ui'.loading = ui.loading
      BY <1>1, <2>3
    <3> QED
      BY <1>3, <2>1, <2>3, <3>1
  <2>4. CASE ui' = ui /\ \E a : net' = Send(Rest(s), net[s].k, a)
    BY <1>27, <1>28, <2>1, <2>4
  <2>5. CASE Room(1) /\ ui' = u /\ net' = ExplorerKidsOf(n, c.folder, k)
    <3>1. DOMAIN u = DOMAIN ui /\ u.loading = TRUE /\ u.busy = ui.busy /\ u.confirm = ui.confirm
      BY <1>8
    <3> HIDE DEF u, m
    <3>2. WorksWait(n, k, u.rid, TRUE) /\ ~Working(n) /\ Free(n)
      BY <1>13, <2>1, <2>5
    <3> HIDE DEF n
    <3>3. WorksWait(net', k, u.rid, TRUE)
      BY <1>11, <2>5, <3>2
    <3> QED
      BY <1>3, <2>1, <2>5, <3>1, <3>3
  <2> QED
    BY <2>2, <2>3, <2>4, <2>5
<1>29. ASSUME Busy(s), net[s].k = "remove", ExplorerRemoved(s) PROVE ExplorerFlags'
  <2> DEFINE c == net[s].a
             v == [ui EXCEPT !.ids = {}]
             u == ExplorerReload(v, c.folder)
             m == Rest(s)
             w == [ui EXCEPT !.ids = {}, !.busy = "no", !.confirm = IF @ = "busy" THEN None ELSE @]
  <2>1. /\ "remove" \in Works /\ ui.busy = "remove" /\ ui.confirm # "images"
        /\ WorksWait(m, "no", ui.rid, ui.loading) /\ ~Working(m) /\ Free(m)
    BY <1>2, <1>26, <1>29
  <2>2. \/ ui' = ui /\ \E a : net' = Send(Rest(s), "remove", a)
        \/ ui' = u /\ net' = ExplorerImagesOf(m, u, "remove")
        \/ ui' = w /\ net' = m
    <3> DEFINE todo == c.ids \ {CHOOSE r \in c.ids : TRUE}
               done == c.done \/ Ok(s)
               A == Resume(s, ui, Send(Rest(s), "remove", [c EXCEPT !.ids = todo, !.done = done]))
               B == Resume(s, u, ExplorerImagesOf(Rest(s), u, "remove"))
               C == Resume(s, w, Rest(s))
    <3>1. (CASE todo # {} -> A [] todo = {} /\ done -> B [] OTHER -> C)
      BY <1>29, Zenon DEF ExplorerRemoved
    <3>2. A => (ui' = ui /\ \E a : net' = Send(Rest(s), "remove", a))
      BY Zenon DEF Resume
    <3>3. B => (ui' = u /\ net' = ExplorerImagesOf(m, u, "remove"))
      BY Zenon DEF Resume
    <3>4. C => (ui' = w /\ net' = m)
      BY Zenon DEF Resume
    <3>5. A \in BOOLEAN /\ B \in BOOLEAN /\ C \in BOOLEAN
      BY Zenon DEF Resume
    <3> HIDE DEF A, B, C, todo, done
    <3>6. A \/ B \/ C
      BY <3>1, <3>5
    <3> QED
      BY <3>2, <3>3, <3>4, <3>6
  <2>3. CASE ui' = ui /\ \E a : net' = Send(Rest(s), "remove", a)
    BY <1>27, <1>29, <2>1, <2>3
  <2>4. CASE ui' = u /\ net' = ExplorerImagesOf(m, u, "remove")
    <3>1. DOMAIN v = DOMAIN ui /\ v.busy = ui.busy /\ v.confirm = ui.confirm
      BY <1>1
    <3> HIDE DEF v
    <3>2. DOMAIN u = DOMAIN ui /\ u.loading = TRUE /\ u.busy = ui.busy /\ u.confirm = ui.confirm
      BY <1>8, <3>1
    <3> HIDE DEF u, m
    <3>3. WorksWait(net', "remove", u.rid, TRUE)
      BY <1>13, <2>1, <2>4
    <3> QED
      BY <1>3, <2>1, <2>4, <3>2, <3>3
  <2>5. CASE ui' = w /\ net' = m
    <3>1. DOMAIN ui' = DOMAIN ui /\ ui'.busy = "no" /\ ui'.rid = ui.rid /\ ui'.loading = ui.loading
      BY <1>1, <2>5
    <3> QED
      BY <1>3, <2>1, <2>5, <3>1
  <2> QED
    BY <2>2, <2>3, <2>4, <2>5
<1>30. ASSUME Busy(s), NEW k \in {"mkdir", "rmdir", "aborted"}, net[s].k = k
       PROVE  WorksWait(Rest(s), ui.busy, ui.rid, ui.loading) /\ Free(Rest(s))
  <2>1. k \notin Works
    BY <1>2, <1>30
  <2>2. Kind("explorer", net[s].k, net[s].a) \notin Works
    BY <1>30, <2>1, ExplorerKinds
  <2>3. Kind("loads", net[s].k, net[s].a) = {}
    BY <1>30, ExplorerKinds
  <2> QED
    BY <1>24, <1>30, <2>1, <2>2, <2>3
<1>31. ASSUME Busy(s), NEW k \in {"mkdir", "rmdir", "aborted"}, net[s].k = k,
              NEW v, \/ v = ui \/ v = [ui EXCEPT !.dlg = IF @ = "creating" THEN "name" ELSE @]
                     \/ v = [ui EXCEPT !.confirm = IF @ = "busy" THEN None ELSE @],
              ui' = v, net' = Rest(s) \/ \E f : \E fin \in {"mkdir", "rmdir"} : net' = ExplorerKidsOf(Rest(s), f, fin)
       PROVE  ExplorerFlags'
  <2>1. /\ DOMAIN v = DOMAIN ui /\ v.rid = ui.rid /\ v.loading = ui.loading /\ v.busy = ui.busy
        /\ v.confirm = ui.confirm \/ v.confirm = None
    BY <1>1, <1>31
  <2>2. WorksWait(Rest(s), ui.busy, ui.rid, ui.loading) /\ Free(Rest(s))
    BY <1>30, <1>31
  <2>3. WorksWait(net', ui.busy, ui.rid, ui.loading)
    BY <1>11, <1>31, <2>2
  <2> QED
    BY <1>1, <1>3, <1>16, <1>31, <2>1, <2>3
<1>32. ASSUME Busy(s), net[s].k = "mkdir", ExplorerMade(s) PROVE ExplorerFlags'
  <2> DEFINE v == [ui EXCEPT !.dlg = IF @ = "creating" THEN "name" ELSE @]
  <2>1. \/ ui' = ui /\ net' = ExplorerKidsOf(Rest(s), net[s].a.folder, "mkdir")
        \/ ui' = v /\ net' = Rest(s)
    BY <1>32, Zenon DEF ExplorerMade, Resume
  <2> QED
    BY <1>31, <1>32, <2>1
<1>33. ASSUME Busy(s), net[s].k = "rmdir", ExplorerFolderGone(s) PROVE ExplorerFlags'
  <2> DEFINE v == [ui EXCEPT !.confirm = IF @ = "busy" THEN None ELSE @]
  <2>1. \/ ui' = ui /\ net' = ExplorerKidsOf(Rest(s), none, "rmdir")
        \/ ui' = v /\ net' = Rest(s)
    BY <1>33, Zenon DEF ExplorerFolderGone, Resume
  <2> HIDE DEF none
  <2> QED
    BY <1>31, <1>33, <2>1
<1>34. ASSUME Busy(s), net[s].k = "aborted", Resume(s, ui, Rest(s)) PROVE ExplorerFlags'
  <2>1. ui' = ui /\ net' = Rest(s)
    BY <1>34 DEF Resume
  <2> QED
    BY <1>31, <1>34, <2>1
<1>35. CASE Busy(s) /\ ExplorerResume(s)
  BY <1>23, <1>25, <1>28, <1>29, <1>32, <1>33, <1>34, <1>35, Zenon DEF ExplorerResume
<1> QED
  BY <1>21, <1>35, Zenon

LEMMA ExplorerFlagPage ==
    ASSUME screen = "explorer"
    PROVE  /\ Init => ExplorerFlags
           /\ ExplorerFlags /\ [Next]_vars => ExplorerFlags'
           /\ ExplorerFlags => SpinnersWaited /\ OneSubmitAtATime
<1>1. ASSUME Init PROVE ExplorerFlags
  <2> DEFINE none == ""
             u == [cur |-> none, back |-> None, kids |-> [f \in Folders |-> None], of |-> none, from |-> None,
                   items |-> {}, total |-> 0, rid |-> 1, loading |-> TRUE, more |-> FALSE, busy |-> "no",
                   cancel |-> FALSE, ids |-> {}, confirm |-> None, dlg |-> "no"]
             a == [folder |-> ui.of, page |-> 1, rid |-> ui.rid, fin |-> "no"]
             c == [folder |-> none, fin |-> "no"]
  <2>1. ui = u /\ net = Send(Send(NoCalls, "images", a), "kids", c)
    BY <1>1, Zenon DEF Init, ExplorerUi, ExplorerKidsOf, ExplorerImagesOf
  <2> HIDE DEF none
  <2>2. /\ DOMAIN ui = {"cur", "back", "kids", "of", "from", "items", "total", "rid", "loading", "more", "busy",
                        "cancel", "ids", "confirm", "dlg"}
        /\ ui.busy = "no" /\ ui.confirm = None
    BY <2>1
  <2>3. a.page = 1 /\ a.rid = ui.rid /\ a.fin = "no" /\ c.fin = "no"
    OBVIOUS
  <2> HIDE DEF u, a, c
  <2>4. IsLoad("images", a) /\ IsLoad("kids", c) /\ "no" \notin Works /\ "later" \notin Works
    BY <2>3 DEF IsLoad, Works
  <2>5. {"images", "kids"} \cap Works = {}
    BY DEF Works
  <2>6. /\ Kind("explorer", "images", a) = "images" /\ Kind("explorer", "kids", c) = "kids"
        /\ Kind("ops", "images", a) = {} /\ Kind("ops", "kids", c) = {}
        /\ Kind("loads", "images", a) = {ui.rid}
    BY <2>3, <2>4, <2>5, ExplorerKinds
  <2>7. Both("explorer", NoCalls, net, "images", "kids")
    BY <2>1, <2>6, TwoYet
  <2>8. Both("ops", NoCalls, net, {}, {})
    BY <2>1, <2>6, TwoYet
  <2>9. Both("loads", NoCalls, net, {ui.rid}, Kind("loads", "kids", c))
    BY <2>1, <2>6, TwoYet
  <2>10. ~Working(net)
    <3>1. {} # {"op"}
      OBVIOUS
    <3> QED
      BY <2>8, <3>1, NoneYet DEF Both, Working
  <2>11. \A x \in Works : ~Waits("explorer", net, {x})
    BY <2>5, <2>7, NoneYet DEF Both
  <2>12. ~Waits("explorer", net, {"later"})
    BY <2>7, NoneYet DEF Both
  <2>13. CallsIn(net) /\ Waits("loads", net, {{ui.rid}})
    BY <2>9 DEF Both
  <2>14. WorksWait(net, ui.busy, ui.rid, ui.loading)
    BY <2>2, <2>4, <2>10, <2>11, <2>12, <2>13 DEF WorksWait
  <2> QED
    BY <2>2, <2>14 DEF ExplorerFlags, WorksWait
<1>2. ASSUME ExplorerFlags, [Next]_vars PROVE ExplorerFlags'
  <2>1. CASE \E s \in Slots : Serve(s) \/ Fault(s)
    <3>1. CallsIn(net)
      BY <1>2 DEF ExplorerFlags
    <3>2. ui' = ui /\ Same("explorer", net, net')
      BY <2>1, <3>1, ServerFlags
    <3>3. Same("ops", net, net')
      BY <2>1, <3>1, ServerFlags
    <3>4. Same("loads", net, net')
      BY <2>1, <3>1, ServerFlags
    <3> QED
      BY <1>2, <3>2, <3>3, <3>4 DEF ExplorerFlags, Same, WorksWait, Working
  <2>2. ASSUME NEW s \in Slots, Act \/ Interval \/ Elsewhere \/ Continue(s)
        PROVE  ExplorerFlags'
    <3>1. ExplorerUser \/ (Busy(s) /\ ExplorerResume(s))
      BY <2>2 DEF Act, Interval, Elsewhere, Continue
    <3> QED
      BY <1>2, <3>1, ExplorerFlagStep
  <2>3. CASE UNCHANGED vars
    BY <1>2, <2>3 DEF ExplorerFlags, vars, WorksWait, Working
  <2> QED
    BY <1>2, <2>1, <2>2, <2>3, SomeSlot DEF Next
<1>3. ASSUME ExplorerFlags PROVE SpinnersWaited /\ OneSubmitAtATime
  <2> DEFINE c2 == ui.busy # "no"
  <2>1. /\ Spinners = {<<ui.loading, {"images"}>>,
                        <<c2, {"upload", "convert", "images", "kids", "remove"}>>}
        /\ Submits = {{"upload", "convert", "remove"}}
    BY DEF Spinners, Submits
  <2>2. ui.loading => InFlight({"images"}) # {}
    <3>1. ASSUME ui.loading PROVE InFlight({"images"}) # {}
      <4>1. Waits("loads", net, {{ui.rid}})
        BY <1>3, <3>1 DEF ExplorerFlags, WorksWait
      <4>2. PICK t \in Slots : net[t] # NoCall /\ Kind("loads", net[t].k, net[t].a) \in {{ui.rid}}
        BY <4>1 DEF Waits, KindOf
      <4>3. {ui.rid} # {}
        OBVIOUS
      <4>4. net[t].k = "images"
        BY <4>2, <4>3, ExplorerKinds
      <4> QED
        BY <4>2, <4>4 DEF InFlight, Busy
    <3> QED
      BY <3>1
  <2>3. c2 => InFlight({"upload", "convert", "images", "kids", "remove"}) # {}
    <3>1. ASSUME c2 PROVE InFlight({"upload", "convert", "images", "kids", "remove"}) # {}
      <4>1. ui.busy \in Works /\ Waits("explorer", net, {ui.busy})
        BY <1>3, <3>1 DEF ExplorerFlags, WorksWait
      <4>2. PICK t \in Slots : net[t] # NoCall /\ Kind("explorer", net[t].k, net[t].a) \in Works
        BY <4>1 DEF Waits, KindOf
      <4>3. net[t].k \in Works \cup {"images", "kids"}
        BY <4>2, ExplorerKinds
      <4> QED
        BY <4>2, <4>3 DEF InFlight, Busy, Works
    <3> QED
      BY <3>1
  <2>4. Cardinality(InFlight({"upload", "convert", "remove"})) <= 1
    <3> DEFINE J == {"upload", "convert", "remove"}
    <3>1. J = Works
      BY DEF Works
    <3>2. CASE InFlight(J) = {}
      BY <3>2, FS_EmptySet
    <3>3. CASE InFlight(J) # {}
      <4>1. PICK t \in Slots : net[t] # NoCall /\ net[t].k \in Works
        BY <3>1, <3>3 DEF InFlight, Busy
      <4>2. Kind("ops", net[t].k, net[t].a) = {"op"}
        BY <4>1, ExplorerKinds
      <4>3. Working(net)
        BY <4>1, <4>2 DEF Working, Waits, KindOf
      <4>4. Alone("explorer", net, Works)
        BY <1>3, <4>3 DEF ExplorerFlags, WorksWait
      <4>5. \A k, a : k \in J => Kind("explorer", k, a) \in Works
        BY <3>1, ExplorerKinds
      <4> QED
        BY <4>4, <4>5, AloneIsOne
    <3> QED
      BY <3>2, <3>3
  <2> HIDE DEF c2
  <2> QED
    BY <2>1, <2>2, <2>3, <2>4 DEF SpinnersWaited, OneSubmitAtATime
<1> QED
  BY <1>1, <1>2, <1>3

----------------------------------------------------------------------------
(* The object browser.                                                     *)

\* A file that has no verdict yet is among those a batch has still to upload.
Pending(i) == {S \in SUBSET Nat : i \in S}
DropsWait(P, m) == \A i \in DOMAIN P : P[i] \notin {"done", "error"} => Waits("drops", m, Pending(i))

\* The order of the files is a sequence of all of them.
LEMMA FileOrderIsSeq == Len(FileOrder) \in Nat /\ DOMAIN FileOrder = 1..Len(FileOrder)
<1> DEFINE n == Cardinality(Rows)
           P(q) == \A i, j \in DOMAIN q : q[i] = q[j] => i = j
<1>1. n \in Nat /\ ExistsBijection(1..n, Rows)
  BY BrowserAssumption, FS_CardinalityType
<1>2. PICK f : f \in Bijection(1..n, Rows)
  BY <1>1 DEF ExistsBijection
<1>3. f \in [1..n -> Rows] /\ P(f)
  BY <1>2 DEF Bijection, Injection, IsInjective
<1>4. FileOrder = CHOOSE q \in [1..n -> Rows] : P(q)
  BY DEF FileOrder
<1> HIDE DEF P
<1>5. FileOrder \in [1..n -> Rows]
  BY <1>3, <1>4, Zenon
<1>6. FileOrder \in Seq(Rows)
  BY <1>1, <1>5
<1> QED
  BY <1>6

\* A batch goes on with its next file.
LEMMA BatchNext ==
    ASSUME NEW a, IsBatch(a), a.i < Len(a.q)
    PROVE  /\ IsBatch([a EXCEPT !.i = @ + 1])
           /\ Left([a EXCEPT !.i = @ + 1]) \in Pending(a.i + 1)
           /\ \A j : (j # a.i /\ Left(a) \in Pending(j)) => Left([a EXCEPT !.i = @ + 1]) \in Pending(j)
<1> DEFINE b == [a EXCEPT !.i = @ + 1]
<1>1. b.i = a.i + 1 /\ b.q = a.q /\ DOMAIN b = DOMAIN a
  BY DEF IsBatch
<1> HIDE DEF b
<1>2. IsBatch(b)
  BY <1>1 DEF IsBatch
<1>3. \A j : j \in Left(b) <=> (j \in Left(a) /\ j # a.i)
  BY <1>1 DEF Left, IsBatch
<1>4. a.i + 1 \in Left(b)
  BY <1>1 DEF Left, IsBatch
<1>5. Left(b) \subseteq Nat
  BY DEF Left
<1> QED
  BY <1>2, <1>3, <1>4, <1>5 DEF Pending, b

LEMMA BatchLast ==
    ASSUME NEW a, IsBatch(a), ~(a.i < Len(a.q)), NEW j, Left(a) \in Pending(j)
    PROVE  j = a.i
BY DEF IsBatch, Left, Pending

FilesFlags ==
    /\ CallsIn(net) /\ DOMAIN ui = {"admin", "path", "been", "shown", "of", "loading", "sel", "open", "ctx", "chosen", "busy", "prog", "refresh", "two"}
    /\ ui.busy <=> Waits("files", net, {"create", "rename", "delete", "upload", "awaited"})
    /\ Alone("files", net, {"create", "rename", "delete", "upload", "awaited"})
    /\ ui.loading => Waits("files", net, {"list", "awaited"})
    /\ ~Waits("files", net, {"later"})
    /\ DropsWait(ui.prog, net)

LEMMA FilesFlagStep ==
    ASSUME FilesFlags, NEW s \in Slots, FilesUser \/ (Busy(s) /\ FilesResume(s))
    PROVE  FilesFlags'
<1> DEFINE Sets(v0, v1, v2) == DOMAIN ui' = DOMAIN ui /\ ui'.loading = v0 /\ ui'.busy = v1 /\ ui'.prog = v2
           Keeps(u) == DOMAIN u = DOMAIN ui /\ u.busy = ui.busy /\ (u.prog = ui.prog \/ u.prog = <<>>)
           work == {"create", "rename", "delete", "upload", "awaited"}
<1>1. /\ CallsIn(net)
      /\ DOMAIN ui = {"admin", "path", "been", "shown", "of", "loading", "sel", "open", "ctx", "chosen", "busy",
                      "prog", "refresh", "two"}
      /\ DropsWait(ui.prog, net)
  BY DEF FilesFlags
<1>2. \A a : /\ Kind("files", "create", a) = "create" /\ Kind("files", "rename", a) = "rename"
             /\ Kind("files", "delete", a) = "delete" /\ Kind("files", "upload", a) = "upload"
             /\ Kind("files", "download", a) = "download"
             /\ Kind("files", "list", a) = IF a.busy THEN "awaited" ELSE "list"
             /\ Kind("files", "drop", a) = IF IsBatch(a) THEN "drop" ELSE "later"
  BY DEF Kind, Marks
<1>3. \A k, a : k # "drop" => Kind("drops", k, a) = {}
  BY DEF Kind, About
<1>4. \A a : Kind("drops", "drop", a) = Left(a)
  BY DEF Kind, About
<1>5. \A i : {} \notin Pending(i)
  BY DEF Pending
<1>6. ASSUME NEW P, P = ui.prog \/ P = <<>>, NEW m, \A i : Waits("drops", net, Pending(i)) => Waits("drops", m, Pending(i))
      PROVE  DropsWait(P, m)
  <2>1. DOMAIN <<>> = {}
    OBVIOUS
  <2> QED
    BY <1>1, <1>6, <2>1 DEF DropsWait
<1>7. ASSUME NEW u, Keeps(u), u.loading = ui.loading, User(u) PROVE FilesFlags'
  <2>1. ui' = u /\ net' = net
    BY <1>7 DEF User
  <2>2. DropsWait(ui'.prog, net')
    BY <1>6, <1>7, <2>1
  <2> QED
    BY <1>1, <1>7, <2>1, <2>2 DEF FilesFlags
<1>8. ASSUME NEW k, NEW a, k # "drop", Room(1), net' = Send(net, k, a)
      PROVE  \A i : Waits("drops", net, Pending(i)) => Waits("drops", net', Pending(i))
  <2>1. Kind("drops", k, a) = {}
    BY <1>3, <1>8
  <2>2. More("drops", net, net', {})
    BY <1>1, <1>8, <2>1, Asking
  <2> QED
    BY <2>2 DEF More
<1>9. ASSUME NEW u, Keeps(u), u.loading = TRUE, NEW p, Ask(u, "list", FilesFetch(p, FALSE)) PROVE FilesFlags'
  <2> DEFINE a == FilesFetch(p, FALSE)
  <2>1. ui' = u /\ Room(1) /\ net' = Send(net, "list", a)
    BY <1>9 DEF Ask
  <2>2. ~a.busy
    BY DEF FilesFetch
  <2> HIDE DEF a
  <2>3. Kind("files", "list", a) = "list"
    BY <1>2, <2>2
  <2>4. More("files", net, net', "list")
    BY <1>1, <2>1, <2>3, Asking
  <2>5. DropsWait(ui'.prog, net')
    BY <1>6, <1>8, <1>9, <2>1
  <2> QED
    BY <1>1, <1>9, <2>1, <2>4, <2>5 DEF FilesFlags, More
<1>10. ASSUME NEW a, Ask(ui, "download", a) PROVE FilesFlags'
  <2>1. ui' = ui /\ Room(1) /\ net' = Send(net, "download", a)
    BY <1>10 DEF Ask
  <2>2. More("files", net, net', "download")
    BY <1>1, <1>2, <2>1, Asking
  <2>3. DropsWait(ui'.prog, net')
    BY <1>6, <1>8, <2>1
  <2> QED
    BY <1>1, <2>1, <2>2, <2>3 DEF FilesFlags, More
<1>11. ASSUME NEW u, DOMAIN u = DOMAIN ui, u.loading = ui.loading, u.busy = TRUE, u.prog = ui.prog, ~ui.busy,
              NEW k \in {"create", "rename", "delete", "upload"}, NEW a, Ask(u, k, a)
       PROVE  FilesFlags'
  <2>1. ui' = u /\ Room(1) /\ net' = Send(net, k, a)
    BY <1>11 DEF Ask
  <2>2. Kind("files", k, a) = k
    BY <1>2, <1>11
  <2>3. More("files", net, net', k)
    BY <1>1, <2>1, <2>2, Asking
  <2>4. DropsWait(ui'.prog, net')
    BY <1>6, <1>8, <1>11, <2>1
  <2> QED
    BY <1>1, <1>11, <2>1, <2>3, <2>4 DEF FilesFlags, More
<1>12. CASE HandleDrop
  <2>1. PICK q \in {<<FileOrder[1]>>, FileOrder} :
            /\ Sets(ui.loading, ui.busy, [i \in DOMAIN q |-> IF i = 1 THEN "uploading" ELSE "pending"])
            /\ Room(1) /\ net' = Send(net, "drop", [dir |-> ui.path, q |-> q, i |-> 1])
    BY <1>1, <1>12 DEF HandleDrop, FilesShow, Ask
  <2> DEFINE a == [dir |-> ui.path, q |-> q, i |-> 1]
  <2>2. Len(q) \in Nat /\ DOMAIN q = 1..Len(q)
    <3>1. Len(<<FileOrder[1]>>) = 1 /\ DOMAIN <<FileOrder[1]>> = 1..1
      OBVIOUS
    <3> QED
      BY <3>1, FileOrderIsSeq
  <2>3. IsBatch(a) /\ \A i \in DOMAIN q : Left(a) \in Pending(i)
    BY <2>2 DEF IsBatch, Left, Pending
  <2>4. net' = Send(net, "drop", a)
    BY <2>1
  <2> HIDE DEF a
  <2>5. More("files", net, net', "drop")
    <3>1. Kind("files", "drop", a) = "drop"
      BY <1>2, <2>3
    <3> QED
      BY <1>1, <2>1, <2>4, <3>1, Asking
  <2>6. More("drops", net, net', Left(a))
    <3>1. Kind("drops", "drop", a) = Left(a)
      BY <1>4
    <3> QED
      BY <1>1, <2>1, <2>4, <3>1, Asking
  <2>7. DropsWait(ui'.prog, net')
    <3>1. DOMAIN ui'.prog = DOMAIN q
      BY <2>1
    <3>2. \A i \in DOMAIN q : Waits("drops", net', Pending(i))
      BY <2>3, <2>6 DEF More
    <3> QED
      BY <3>1, <3>2 DEF DropsWait
  <2>8. DOMAIN ui' = DOMAIN ui /\ ui'.loading = ui.loading /\ ui'.busy = ui.busy
    BY <2>1
  <2> QED
    BY <1>1, <2>5, <2>7, <2>8 DEF FilesFlags, More
<1>13. ASSUME NEW u, DOMAIN u = DOMAIN ui, NEW d
       PROVE  /\ DOMAIN FilesHide(u, d) = DOMAIN ui
              /\ FilesHide(u, d).loading = u.loading /\ FilesHide(u, d).busy = u.busy
              /\ FilesHide(u, d).prog = u.prog \/ FilesHide(u, d).prog = <<>>
  <2>1. CASE d \notin u.open
    BY <1>13, <2>1 DEF FilesHide
  <2>2. CASE d \in u.open
    <3> DEFINE v1 == u.open \ {d}
               v2 == IF d = "upload" THEN {} ELSE u.chosen
               v3 == IF d = "progress" THEN u.ctx ELSE None
               v4 == IF d = "progress" THEN <<>> ELSE u.prog
    <3>1. FilesHide(u, d) = [u EXCEPT !.open = v1, !.chosen = v2, !.ctx = v3, !.prog = v4]
      BY <2>2, Zenon DEF FilesHide
    <3>2. v4 = u.prog \/ v4 = <<>>
      OBVIOUS
    <3> HIDE DEF v1, v2, v3, v4
    <3> QED
      BY <1>1, <1>13, <3>1, <3>2
  <2> QED
    BY <2>1, <2>2
<1>14. ASSUME NEW p, NavigateTo(p) PROVE FilesFlags'
  <2> DEFINE u == [ui EXCEPT !.path = p, !.been = @ \cup {p}, !.sel = {}, !.loading = TRUE]
  <2>1. Ask(u, "list", FilesFetch(p, FALSE))
    BY <1>14 DEF NavigateTo
  <2>2. Keeps(u) /\ u.loading = TRUE
    BY <1>1
  <2> HIDE DEF u
  <2> QED
    BY <1>9, <2>1, <2>2
<1>15. CASE HandleUploadProgressClose
  <2>1. CASE ui.refresh
    <3> DEFINE v == FilesHide(ui, "progress")
               u == [v EXCEPT !.refresh = FALSE, !.loading = TRUE]
    <3>1. Ask(u, "list", FilesFetch(ui.path, FALSE))
      BY <1>15, <2>1 DEF HandleUploadProgressClose
    <3>2. DOMAIN v = DOMAIN ui /\ v.busy = ui.busy /\ (v.prog = ui.prog \/ v.prog = <<>>)
      BY <1>13
    <3> HIDE DEF v
    <3>3. Keeps(u) /\ u.loading = TRUE
      BY <1>1, <3>2
    <3> HIDE DEF u
    <3> QED
      BY <1>9, <3>1, <3>3
  <2>2. CASE ~ui.refresh
    <3>1. User(FilesHide(ui, "progress"))
      BY <1>15, <2>2 DEF HandleUploadProgressClose
    <3> QED
      BY <1>7, <1>13, <3>1
  <2> QED
    BY <2>1, <2>2
<1>16. ASSUME NEW k \in {"create", "rename", "delete", "upload"}, NEW a, FilesCall(k, a) PROVE FilesFlags'
  <2> DEFINE u == [ui EXCEPT !.busy = TRUE]
  <2>1. ~ui.busy /\ Ask(u, k, a)
    BY <1>16 DEF FilesCall
  <2>2. DOMAIN u = DOMAIN ui /\ u.loading = ui.loading /\ u.busy = TRUE /\ u.prog = ui.prog
    BY <1>1
  <2> HIDE DEF u
  <2> QED
    BY <1>11, <2>1, <2>2
<1>17. CASE FilesDialogs
  <2>1. CASE HandleCreateFolder
    <3>1. \E a : FilesCall("create", a)
      BY <2>1, Zenon DEF HandleCreateFolder
    <3> QED
      BY <1>16, <3>1
  <2>2. CASE HandleRename
    <3>1. \E a : FilesCall("rename", a)
      BY <2>2, Zenon DEF HandleRename
    <3> QED
      BY <1>16, <3>1
  <2>3. CASE FilesDelete
    <3>1. \E a : FilesCall("delete", a)
      BY <2>3, Zenon DEF FilesDelete
    <3> QED
      BY <1>16, <3>1
  <2>4. CASE FilesChoose
    <3>1. PICK F : User([ui EXCEPT !.chosen = F])
      BY <2>4, Zenon DEF FilesChoose
    <3>2. Keeps([ui EXCEPT !.chosen = F]) /\ [ui EXCEPT !.chosen = F].loading = ui.loading
      BY <1>1
    <3> QED
      BY <1>7, <3>1, <3>2
  <2>5. CASE HandleUpload
    <3> DEFINE u == [ui EXCEPT !.busy = TRUE, !.chosen = {}]
    <3>1. ~ui.busy /\ \E a : Ask(u, "upload", a)
      BY <2>5, Zenon DEF HandleUpload
    <3>2. DOMAIN u = DOMAIN ui /\ u.loading = ui.loading /\ u.busy = TRUE /\ u.prog = ui.prog
      BY <1>1
    <3> HIDE DEF u
    <3> QED
      BY <1>11, <3>1, <3>2
  <2>6. CASE FilesClose
    <3>1. PICK d : User(FilesHide(ui, d))
      BY <2>6, Zenon DEF FilesClose
    <3> QED
      BY <1>7, <1>13, <3>1
  <2> QED
    BY <1>17, <2>1, <2>2, <2>3, <2>4, <2>5, <2>6 DEF FilesDialogs
<1>18. ASSUME NEW c, NEW S, NEW d,
              \/ User(FilesShow(ui, d))
              \/ User(FilesShow([ui EXCEPT !.ctx = c], d))
              \/ User(FilesShow([ui EXCEPT !.ctx = c, !.sel = S], d))
              \/ User([ui EXCEPT !.sel = S])
       PROVE  FilesFlags'
  <2> DEFINE u1 == FilesShow(ui, d)
             u2 == FilesShow([ui EXCEPT !.ctx = c], d)
             u3 == FilesShow([ui EXCEPT !.ctx = c, !.sel = S], d)
             u4 == [ui EXCEPT !.sel = S]
  <2>1. Keeps(u1) /\ u1.loading = ui.loading
    BY <1>1 DEF FilesShow
  <2>2. Keeps(u2) /\ u2.loading = ui.loading
    BY <1>1 DEF FilesShow
  <2>3. Keeps(u3) /\ u3.loading = ui.loading
    BY <1>1 DEF FilesShow
  <2>4. Keeps(u4) /\ u4.loading = ui.loading
    BY <1>1
  <2>5. User(u1) \/ User(u2) \/ User(u3) \/ User(u4)
    BY <1>18
  <2> HIDE DEF u1, u2, u3, u4
  <2> QED
    BY <1>7, <2>1, <2>2, <2>3, <2>4, <2>5
<1>19. ASSUME NEW K, FilesDownload(K) PROVE FilesFlags'
  <2>1. \E a : Ask(ui, "download", a)
    BY <1>19, Zenon DEF FilesDownload
  <2> QED
    BY <1>10, <2>1
<1>20. CASE FilesToolbar
  <2> DEFINE u == [ui EXCEPT !.loading = TRUE]
  <2>1. Keeps(u) /\ u.loading = TRUE
    BY <1>1
  <2>2. \/ \E d : User(FilesShow(ui, d))
        \/ \E c, d : User(FilesShow([ui EXCEPT !.ctx = c], d))
        \/ FilesDownload(ui.sel)
        \/ Ask(u, "list", FilesFetch(ui.path, FALSE))
    BY <1>20, Zenon DEF FilesToolbar
  <2> HIDE DEF u
  <2> QED
    BY <1>9, <1>18, <1>19, <2>1, <2>2
<1>21. CASE FilesTable
  <2>1. \/ \E S : User([ui EXCEPT !.sel = S])
        \/ \E k : HandleContextAction(k)
        \/ \E p : NavigateTo(p)
    BY <1>21, Zenon DEF FilesTable, FilesToggleAll, FilesToggle
  <2>2. ASSUME NEW k, HandleContextAction(k) PROVE FilesFlags'
    <3>1. \/ User(FilesShow([ui EXCEPT !.ctx = k], "rename"))
          \/ User(FilesShow([ui EXCEPT !.ctx = k, !.sel = {k}], "ctxdelete"))
          \/ FilesDownload({k})
      BY <2>2, Zenon DEF HandleContextAction
    <3> QED
      BY <1>18, <1>19, <3>1
  <2> QED
    BY <1>14, <1>18, <2>1, <2>2
<1>22. CASE FilesUser
  BY <1>12, <1>14, <1>15, <1>17, <1>20, <1>21, <1>22 DEF FilesUser, FilesPopState
<1>23. ASSUME Busy(s), net[s].k # "drop", net' = Rest(s)
       PROVE  \A i : Waits("drops", net, Pending(i)) => Waits("drops", net', Pending(i))
  <2>1. Kind("drops", net[s].k, net[s].a) = {}
    BY <1>3, <1>23
  <2>2. Less("drops", net, net', {})
    BY <1>1, <1>23, <2>1, Ending
  <2> QED
    BY <1>5, <2>2 DEF Less
<1>24. ASSUME Busy(s), net[s].k # "drop", NEW k, k # "drop", NEW a, net' = Send(Rest(s), k, a)
       PROVE  \A i : Waits("drops", net, Pending(i)) => Waits("drops", net', Pending(i))
  <2>1. Kind("drops", net[s].k, net[s].a) = {} /\ Kind("drops", k, a) = {}
    BY <1>3, <1>24
  <2>2. Swap("drops", net, net', {}, {})
    BY <1>1, <1>24, <2>1, Chaining
  <2> QED
    BY <1>5, <2>2 DEF Swap
<1>25. CASE Busy(s) /\ net[s].k = "list" /\ FilesListed(s)
  <2> DEFINE b == ui.busy /\ ~net[s].a.busy
             u == [ui EXCEPT !.loading = FALSE, !.busy = b]
  <2>1. PICK x, y : ui' = [u EXCEPT !.shown = x, !.of = y] /\ net' = Rest(s)
    <3>1. CASE Ok(s)
      BY <1>25, <3>1, Zenon DEF FilesListed, Resume
    <3>2. CASE ~Ok(s)
      BY <1>25, <3>2, Zenon DEF FilesListed, Resume
    <3> QED
      BY <3>1, <3>2
  <2> HIDE DEF b
  <2>2. Sets(FALSE, b, ui.prog)
    BY <1>1, <2>1
  <2>3. DropsWait(ui'.prog, net')
    BY <1>6, <1>23, <1>25, <2>1, <2>2
  <2>4. CASE net[s].a.busy
    <3>1. Kind("files", net[s].k, net[s].a) = "awaited"
      BY <1>2, <1>25, <2>4
    <3>2. Less("files", net, net', "awaited")
      BY <1>1, <1>25, <2>1, <3>1, Ending
    <3>3. ~b
      BY <2>4 DEF b
    <3> QED
      BY <1>1, <2>2, <2>3, <3>2, <3>3 DEF FilesFlags, Less
  <2>5. CASE ~net[s].a.busy
    <3>1. Kind("files", net[s].k, net[s].a) = "list"
      BY <1>2, <1>25, <2>5
    <3>2. Less("files", net, net', "list")
      BY <1>1, <1>25, <2>1, <3>1, Ending
    <3>3. b <=> ui.busy
      BY <2>5 DEF b
    <3> QED
      BY <1>1, <2>2, <2>3, <3>2, <3>3 DEF FilesFlags, Less
  <2> QED
    BY <2>4, <2>5
<1>26. ASSUME NEW k \in {"create", "rename", "delete", "upload"}, Busy(s), net[s].k = k, NEW d, NEW p, FilesDone(s, d, p)
       PROVE  FilesFlags'
  <2>1. Kind("files", net[s].k, net[s].a) = k
    BY <1>2, <1>26
  <2>2. CASE Ok(s)
    <3> DEFINE u == FilesHide(ui, d)
               a == FilesFetch(p, TRUE)
    <3>1. PICK S : ui' = [u EXCEPT !.loading = TRUE, !.sel = S] /\ net' = Send(Rest(s), "list", a)
      BY <1>26, <2>2, Zenon DEF FilesDone, Resume
    <3>2. DOMAIN u = DOMAIN ui /\ u.busy = ui.busy /\ (u.prog = ui.prog \/ u.prog = <<>>)
      BY <1>13
    <3>3. a.busy = TRUE
      BY DEF FilesFetch
    <3> HIDE DEF u, a
    <3>4. DOMAIN ui' = DOMAIN ui /\ ui'.busy = ui.busy /\ ui'.loading = TRUE /\ (ui'.prog = ui.prog \/ ui'.prog = <<>>)
      BY <1>1, <3>1, <3>2
    <3>5. Kind("files", "list", a) = "awaited"
      BY <1>2, <3>3
    <3>6. Swap("files", net, net', k, "awaited")
      BY <1>1, <1>26, <2>1, <3>1, <3>5, Chaining
    <3>7. DropsWait(ui'.prog, net')
      BY <1>6, <1>24, <1>26, <3>1, <3>4
    <3> QED
      BY <1>1, <1>26, <3>4, <3>6, <3>7 DEF FilesFlags, Swap
  <2>3. CASE ~Ok(s)
    <3>1. ui' = [ui EXCEPT !.busy = FALSE] /\ net' = Rest(s)
      BY <1>26, <2>3 DEF FilesDone, Resume
    <3>2. Sets(ui.loading, FALSE, ui.prog)
      BY <1>1, <3>1
    <3>3. Less("files", net, net', k)
      BY <1>1, <1>26, <2>1, <3>1, Ending
    <3>4. DropsWait(ui'.prog, net')
      BY <1>6, <1>23, <1>26, <3>1, <3>2
    <3> QED
      BY <1>1, <1>26, <3>2, <3>3, <3>4 DEF FilesFlags, Less
  <2> QED
    BY <2>2, <2>3
<1>27. ASSUME NEW k \in {"upload", "download"}, Busy(s), net[s].k = k, ui' = ui, net' = FilesNext(s)
       PROVE  FilesFlags'
  <2> DEFINE a == [net[s].a EXCEPT !.i = @ + 1]
  <2>1. net' = Send(Rest(s), k, a)
    BY <1>27 DEF FilesNext
  <2> HIDE DEF a
  <2>2. Kind("files", net[s].k, net[s].a) = k /\ Kind("files", k, a) = k
    BY <1>2, <1>27
  <2>3. Swap("files", net, net', k, k)
    BY <1>1, <1>27, <2>1, <2>2, Chaining
  <2>4. DropsWait(ui'.prog, net')
    BY <1>6, <1>24, <1>27, <2>1
  <2> QED
    BY <1>1, <1>27, <2>3, <2>4 DEF FilesFlags, Swap
<1>28. CASE Busy(s) /\ net[s].k = "upload" /\ FilesUploaded(s)
  <2>1. CASE Ok(s) /\ FilesMore(s)
    <3>1. ui' = ui /\ net' = FilesNext(s)
      BY <1>28, <2>1 DEF FilesUploaded, Resume
    <3> QED
      BY <1>27, <1>28, <3>1
  <2>2. CASE ~(Ok(s) /\ FilesMore(s))
    <3>1. FilesDone(s, "upload", net[s].a.dir)
      BY <1>28, <2>2 DEF FilesUploaded
    <3> QED
      BY <1>26, <1>28, <3>1
  <2> QED
    BY <2>1, <2>2
<1>29. CASE Busy(s) /\ net[s].k = "download" /\ Resume(s, ui, IF Ok(s) /\ FilesMore(s) THEN FilesNext(s) ELSE Rest(s))
  <2>1. CASE Ok(s) /\ FilesMore(s)
    <3>1. ui' = ui /\ net' = FilesNext(s)
      BY <1>29, <2>1 DEF Resume
    <3> QED
      BY <1>27, <1>29, <3>1
  <2>2. CASE ~(Ok(s) /\ FilesMore(s))
    <3>1. ui' = ui /\ net' = Rest(s)
      BY <1>29, <2>2 DEF Resume
    <3>2. Kind("files", net[s].k, net[s].a) = "download"
      BY <1>2, <1>29
    <3>3. Less("files", net, net', "download")
      BY <1>1, <1>29, <3>1, <3>2, Ending
    <3>4. DropsWait(ui'.prog, net')
      BY <1>6, <1>23, <1>29, <3>1
    <3> QED
      BY <1>1, <3>1, <3>3, <3>4 DEF FilesFlags, Less
  <2> QED
    BY <2>1, <2>2
<1>30. CASE Busy(s) /\ net[s].k = "drop" /\ FilesDropped(s)
  <2> DEFINE a == net[s].a
             st == IF Ok(s) THEN "done" ELSE "error"
             P == FilesMark(ui.prog, a.i, st)
  <2>1. IsBatch(a) /\ Kind("files", net[s].k, net[s].a) = "drop"
    BY <1>2, <1>30 DEF FilesFlags, Waits, KindOf, Busy
  <2>2. Kind("drops", net[s].k, net[s].a) = Left(a)
    BY <1>4, <1>30
  <2>3. /\ DOMAIN P = DOMAIN ui.prog
        /\ \A j \in DOMAIN P : IF j = a.i THEN P[j] \in {"done", "error"} ELSE P[j] = ui.prog[j]
    BY DEF FilesMark
  <2>4. CASE FilesMore(s)
    <3> DEFINE b == [a EXCEPT !.i = @ + 1]
               Q == FilesMark(P, a.i + 1, "uploading")
    <3>1. ui' = [ui EXCEPT !.prog = Q] /\ net' = Send(Rest(s), "drop", b)
      BY <1>30, <2>4, Zenon DEF FilesDropped, FilesNext, Resume
    <3>2. a.i < Len(a.q)
      BY <2>4 DEF FilesMore
    <3>3. /\ IsBatch(b) /\ Left(b) \in Pending(a.i + 1)
          /\ \A j : (j # a.i /\ Left(a) \in Pending(j)) => Left(b) \in Pending(j)
      BY <2>1, <3>2, BatchNext
    <3> HIDE DEF b, P
    <3>4. /\ DOMAIN Q = DOMAIN ui.prog
          /\ \A j \in DOMAIN Q : \/ j = a.i + 1
                                 \/ j = a.i /\ Q[j] \in {"done", "error"}
                                 \/ j # a.i /\ Q[j] = ui.prog[j]
      BY <2>3 DEF FilesMark
    <3> HIDE DEF Q
    <3>5. Sets(ui.loading, ui.busy, Q)
      BY <1>1, <3>1
    <3>6. Kind("files", "drop", b) = "drop" /\ Kind("drops", "drop", b) = Left(b)
      BY <1>2, <1>4, <3>3
    <3>7. Swap("files", net, net', "drop", "drop")
      BY <1>1, <1>30, <2>1, <3>1, <3>6, Chaining
    <3>8. Swap("drops", net, net', Left(a), Left(b))
      BY <1>1, <1>30, <2>2, <3>1, <3>6, Chaining
    <3>9. \A j : (j # a.i /\ Waits("drops", net, Pending(j))) => Waits("drops", net', Pending(j))
      BY <3>3, <3>8 DEF Swap
    <3>10. Waits("drops", net', Pending(a.i + 1))
      BY <3>3, <3>8 DEF Swap
    <3>11. DropsWait(Q, net')
      BY <1>1, <3>4, <3>9, <3>10 DEF DropsWait
    <3> QED
      BY <1>1, <3>5, <3>7, <3>11 DEF FilesFlags, Swap
  <2>5. CASE ~FilesMore(s)
    <3>1. ui' = [ui EXCEPT !.prog = P] /\ net' = Rest(s)
      BY <1>30, <2>5, Zenon DEF FilesDropped, Resume
    <3>2. ~(a.i < Len(a.q))
      BY <2>5 DEF FilesMore
    <3> HIDE DEF P
    <3>3. Sets(ui.loading, ui.busy, P)
      BY <1>1, <3>1
    <3>4. Less("files", net, net', "drop")
      BY <1>1, <1>30, <2>1, <3>1, Ending
    <3>5. Less("drops", net, net', Left(a))
      BY <1>1, <1>30, <2>2, <3>1, Ending
    <3>6. \A j : j # a.i => Left(a) \notin Pending(j)
      BY <2>1, <3>2, BatchLast
    <3>7. \A j : (j # a.i /\ Waits("drops", net, Pending(j))) => Waits("drops", net', Pending(j))
      BY <3>5, <3>6 DEF Less
    <3>8. DropsWait(P, net')
      BY <1>1, <2>3, <3>7 DEF DropsWait
    <3> QED
      BY <1>1, <3>3, <3>4, <3>8 DEF FilesFlags, Less
  <2> QED
    BY <2>4, <2>5
<1>31. CASE Busy(s) /\ FilesResume(s)
  BY <1>25, <1>26, <1>28, <1>29, <1>30, <1>31 DEF FilesResume
<1> QED
  BY <1>22, <1>31

LEMMA FilesFlagPage ==
    ASSUME screen = "files"
    PROVE  /\ Init => FilesFlags
           /\ FilesFlags /\ [Next]_vars => FilesFlags'
           /\ FilesFlags => SpinnersWaited /\ OneSubmitAtATime
<1>1. ASSUME Init PROVE FilesFlags
  <2>1. PICK b \in BOOLEAN, p \in {"/", "d"} : ui = FilesUi(b, p) /\ net = FilesMount(p)
    BY <1>1, Zenon DEF Init
  <2>2. /\ DOMAIN ui = {"admin", "path", "been", "shown", "of", "loading", "sel", "open", "ctx", "chosen", "busy",
                        "prog", "refresh", "two"}
        /\ ui.busy = FALSE /\ ui.prog = <<>>
    BY <2>1 DEF FilesUi
  <2>3. \A q : Kind("files", "list", FilesFetch(q, FALSE)) = "list"
    <3>1. \A q : ~FilesFetch(q, FALSE).busy
      BY DEF FilesFetch
    <3> QED
      BY <3>1 DEF Kind, Marks
  <2>4. DOMAIN <<>> = {}
    OBVIOUS
  <2>5. DropsWait(ui.prog, net)
    BY <2>2, <2>4 DEF DropsWait
  <2>6. CASE p = "/"
    <3>1. net = Send(NoCalls, "list", FilesFetch("/", FALSE))
      BY <2>1, <2>6 DEF FilesMount
    <3>2. More("files", NoCalls, net, "list")
      BY <2>3, <3>1, OneYet
    <3> QED
      BY <2>2, <2>5, <3>2, NoneYet DEF FilesFlags, More
  <2>7. CASE p # "/"
    <3>1. net = Send(Send(NoCalls, "list", FilesFetch("/", FALSE)), "list", FilesFetch(p, FALSE))
      BY <2>1, <2>7 DEF FilesMount
    <3>2. Both("files", NoCalls, net, "list", "list")
      BY <2>3, <3>1, TwoYet
    <3> QED
      BY <2>2, <2>5, <3>2, NoneYet DEF FilesFlags, Both
  <2> QED
    BY <2>6, <2>7
<1>2. ASSUME FilesFlags, [Next]_vars PROVE FilesFlags'
  <2>1. CASE \E s \in Slots : Serve(s) \/ Fault(s)
    <3>1. CallsIn(net)
      BY <1>2 DEF FilesFlags
    <3>2. ui' = ui /\ Same("files", net, net')
      BY <2>1, <3>1, ServerFlags
    <3>3. Same("drops", net, net')
      BY <2>1, <3>1, ServerFlags
    <3> QED
      BY <1>2, <3>2, <3>3 DEF FilesFlags, Same, DropsWait
  <2>2. ASSUME NEW s \in Slots, Act \/ Interval \/ Elsewhere \/ Continue(s)
        PROVE  FilesFlags'
    <3>1. FilesUser \/ (Busy(s) /\ FilesResume(s))
      BY <2>2 DEF Act, Interval, Elsewhere, Continue
    <3> QED
      BY <1>2, <3>1, FilesFlagStep
  <2>3. CASE UNCHANGED vars
    BY <1>2, <2>3 DEF FilesFlags, vars, DropsWait
  <2> QED
    BY <1>2, <2>1, <2>2, <2>3, SomeSlot DEF Next
<1>3. ASSUME FilesFlags PROVE SpinnersWaited /\ OneSubmitAtATime
  <2> DEFINE c3 == "progress" \in ui.open /\ ~FilesAllDone
  <2>1. /\ Spinners = {<<ui.loading, {"list"}>>,
                        <<ui.busy, {"create", "rename", "delete", "upload", "list"}>>,
                        <<c3, {"drop"}>>}
        /\ Submits = {{"create", "rename", "delete", "upload"}}
    BY DEF Spinners, Submits
  <2>2. ui.loading => InFlight({"list"}) # {}
    <3>1. \A k, a : Kind("files", k, a) \in {"list", "awaited"} => k \in {"list"}
      BY DEF Kind, Marks
    <3> QED
      BY <1>3, <3>1, WaitsIsInFlight DEF FilesFlags
  <2>3. ui.busy => InFlight({"create", "rename", "delete", "upload", "list"}) # {}
    <3>1. \A k, a : Kind("files", k, a) \in {"create", "rename", "delete", "upload", "awaited"} => k \in {"create", "rename", "delete", "upload", "list"}
      BY DEF Kind, Marks
    <3> QED
      BY <1>3, <3>1, WaitsIsInFlight DEF FilesFlags
  <2>4. c3 => InFlight({"drop"}) # {}
    <3>1. \A k, a : k # "drop" => Kind("drops", k, a) = {}
      BY DEF Kind, About
    <3>2. SUFFICES ASSUME NEW i \in DOMAIN ui.prog, ui.prog[i] \notin {"done", "error"} PROVE InFlight({"drop"}) # {}
      BY DEF FilesAllDone
    <3>3. Waits("drops", net, Pending(i))
      BY <1>3, <3>2 DEF FilesFlags, DropsWait
    <3>4. PICK t \in Slots : net[t] # NoCall /\ Kind("drops", net[t].k, net[t].a) \in Pending(i)
      BY <3>3 DEF Waits, KindOf
    <3>5. {} \notin Pending(i)
      BY DEF Pending
    <3>6. net[t].k = "drop"
      BY <3>1, <3>4, <3>5
    <3> QED
      BY <3>4, <3>6 DEF InFlight, Busy
  <2>5. Cardinality(InFlight({"create", "rename", "delete", "upload"})) <= 1
    <3>1. \A k, a : k \in {"create", "rename", "delete", "upload"} => Kind("files", k, a) \in {"create", "rename", "delete", "upload", "awaited"}
      BY DEF Kind, Marks
    <3> QED
      BY <1>3, <3>1, AloneIsOne DEF FilesFlags
  <2> HIDE DEF c3
  <2> QED
    BY <2>1, <2>2, <2>3, <2>4, <2>5 DEF SpinnersWaited, OneSubmitAtATime
<1> QED
  BY <1>1, <1>2, <1>3

----------------------------------------------------------------------------
(* All pages.                                                              *)

FlagsInv ==
    /\ screen = "sources"       => SourcesFlags
    /\ screen = "watches"       => WatchesFlags
    /\ screen = "picker"        => PickerFlags
    /\ screen = "jobs"          => JobsFlags
    /\ screen = "polled"        => PolledFlags
    /\ screen = "servers"       => ServersFlags
    /\ screen = "models"        => ModelsFlags
    /\ screen = "evals"         => EvalsFlags
    /\ screen = "eval"          => EvalFlags
    /\ screen = "sweeps"        => SweepFlags
    /\ screen = "settings"      => SettingsFlags
    /\ screen = "apikeys"       => KeysFlags
    /\ screen = "piirules"      => RulesFlags
    /\ screen = "piifunctions"  => FunctionsFlags
    /\ screen = "feedback"      => FeedbackFlags
    /\ screen = "collections"   => CollectionsFlags
    /\ screen = "collection"    => CollectionFlags
    /\ screen = "config"        => ConfigFlags
    /\ screen = "docview"       => ViewFlags
    /\ screen = "builder"       => BuilderFlags
    /\ screen = "search"        => SearchFlags
    /\ screen = "profiles"      => ProfilesFlags
    /\ screen = "review"        => ReviewFlags
    /\ screen = "policy"        => PolicyFlags
    /\ screen = "routetest"     => RouteTestFlags
    /\ screen = "intake"        => IntakeFlags
    /\ screen = "analyze"       => AnalyzeFlags
    /\ screen = "history"       => HistoryFlags
    /\ screen = "pipelines"     => PipelinesFlags
    /\ screen = "pipeline"      => PipelineFlags
    /\ screen = "ftjobs"        => FtListFlags
    /\ screen = "ftdatasets"    => FtListFlags
    /\ screen = "ftmodels"      => FtListFlags
    /\ screen = "ftjob"         => FtJobFlags
    /\ screen = "ftdataset"     => FtDatasetFlags
    /\ screen = "ftmodel"       => FtModelFlags
    /\ screen = "ftlabeling"    => FtLabelFlags
    /\ screen = "users"         => UsersFlags
    /\ screen = "labeling"      => LabelingFlags
    /\ screen = "playground"    => PlayFlags
    /\ screen = "chat"          => ChatFlags
    /\ screen = "explorer"      => ExplorerFlags
    /\ screen = "files"         => FilesFlags

LEMMA FlagsStart == Init => FlagsInv
<1> SUFFICES ASSUME Init PROVE FlagsInv
  OBVIOUS
<1>1. screen = "sources" => SourcesFlags
  BY SourcesFlagPage
<1>2. screen = "watches" => WatchesFlags
  BY WatchesFlagPage
<1>3. screen = "picker" => PickerFlags
  BY PickerFlagPage
<1>4. screen = "jobs" => JobsFlags
  BY JobsFlagPage
<1>5. screen = "polled" => PolledFlags
  BY PolledFlagPage
<1>6. screen = "servers" => ServersFlags
  BY ServersFlagPage
<1>7. screen = "models" => ModelsFlags
  BY ModelsFlagPage
<1>8. screen = "evals" => EvalsFlags
  BY EvalsFlagPage
<1>9. screen = "eval" => EvalFlags
  BY EvalFlagPage
<1>10. screen = "sweeps" => SweepFlags
  BY SweepFlagPage
<1>11. screen = "settings" => SettingsFlags
  BY SettingsFlagPage
<1>12. screen = "apikeys" => KeysFlags
  BY KeysFlagPage
<1>13. screen = "piirules" => RulesFlags
  BY RulesFlagPage
<1>14. screen = "piifunctions" => FunctionsFlags
  BY FunctionsFlagPage
<1>15. screen = "feedback" => FeedbackFlags
  BY FeedbackFlagPage
<1>16. screen = "collections" => CollectionsFlags
  BY CollectionsFlagPage
<1>17. screen = "collection" => CollectionFlags
  BY CollectionFlagPage
<1>18. screen = "config" => ConfigFlags
  BY ConfigFlagPage
<1>19. screen = "docview" => ViewFlags
  BY ViewFlagPage
<1>20. screen = "builder" => BuilderFlags
  BY BuilderFlagPage
<1>21. screen = "search" => SearchFlags
  BY SearchFlagPage
<1>22. screen = "profiles" => ProfilesFlags
  BY ProfilesFlagPage
<1>23. screen = "review" => ReviewFlags
  BY ReviewFlagPage
<1>24. screen = "policy" => PolicyFlags
  BY PolicyFlagPage
<1>25. screen = "routetest" => RouteTestFlags
  BY RouteTestFlagPage
<1>26. screen = "intake" => IntakeFlags
  BY IntakeFlagPage
<1>27. screen = "analyze" => AnalyzeFlags
  BY AnalyzeFlagPage
<1>28. screen = "history" => HistoryFlags
  BY HistoryFlagPage
<1>29. screen = "pipelines" => PipelinesFlags
  BY PipelinesFlagPage
<1>30. screen = "pipeline" => PipelineFlags
  BY PipelineFlagPage
<1>31. screen = "ftjobs" => FtListFlags
  BY FtJobsFlagPage
<1>32. screen = "ftdatasets" => FtListFlags
  BY FtDatasetsFlagPage
<1>33. screen = "ftmodels" => FtListFlags
  BY FtModelsFlagPage
<1>34. screen = "ftjob" => FtJobFlags
  BY FtJobFlagPage
<1>35. screen = "ftdataset" => FtDatasetFlags
  BY FtDatasetFlagPage
<1>36. screen = "ftmodel" => FtModelFlags
  BY FtModelFlagPage
<1>37. screen = "ftlabeling" => FtLabelFlags
  BY FtLabelFlagPage
<1>38. screen = "users" => UsersFlags
  BY UsersFlagPage
<1>39. screen = "labeling" => LabelingFlags
  BY LabelingFlagPage
<1>40. screen = "playground" => PlayFlags
  BY PlayFlagPage
<1>41. screen = "chat" => ChatFlags
  BY ChatFlagPage
<1>42. screen = "explorer" => ExplorerFlags
  BY ExplorerFlagPage
<1>43. screen = "files" => FilesFlags
  BY FilesFlagPage
<1> QED
  BY <1>1, <1>2, <1>3, <1>4, <1>5, <1>6, <1>7, <1>8, <1>9, <1>10, <1>11, <1>12, <1>13, <1>14, <1>15, <1>16,
    <1>17, <1>18, <1>19, <1>20, <1>21, <1>22, <1>23, <1>24, <1>25, <1>26, <1>27, <1>28, <1>29, <1>30, <1>31,
    <1>32, <1>33, <1>34, <1>35, <1>36, <1>37, <1>38, <1>39, <1>40, <1>41, <1>42, <1>43 DEF FlagsInv

LEMMA FlagsStep == FlagsInv /\ [Next]_vars => FlagsInv'
<1> SUFFICES ASSUME FlagsInv, [Next]_vars PROVE FlagsInv'
  OBVIOUS
<1>0. screen' = screen
  BY PageStays
<1>1. screen' = "sources" => SourcesFlags'
  <2>1. screen = "sources" => SourcesFlags
    BY DEF FlagsInv
  <2> QED
    BY <1>0, <2>1, SourcesFlagPage
<1>2. screen' = "watches" => WatchesFlags'
  <2>1. screen = "watches" => WatchesFlags
    BY DEF FlagsInv
  <2> QED
    BY <1>0, <2>1, WatchesFlagPage
<1>3. screen' = "picker" => PickerFlags'
  <2>1. screen = "picker" => PickerFlags
    BY DEF FlagsInv
  <2> QED
    BY <1>0, <2>1, PickerFlagPage
<1>4. screen' = "jobs" => JobsFlags'
  <2>1. screen = "jobs" => JobsFlags
    BY DEF FlagsInv
  <2> QED
    BY <1>0, <2>1, JobsFlagPage
<1>5. screen' = "polled" => PolledFlags'
  <2>1. screen = "polled" => PolledFlags
    BY DEF FlagsInv
  <2> QED
    BY <1>0, <2>1, PolledFlagPage
<1>6. screen' = "servers" => ServersFlags'
  <2>1. screen = "servers" => ServersFlags
    BY DEF FlagsInv
  <2> QED
    BY <1>0, <2>1, ServersFlagPage
<1>7. screen' = "models" => ModelsFlags'
  <2>1. screen = "models" => ModelsFlags
    BY DEF FlagsInv
  <2> QED
    BY <1>0, <2>1, ModelsFlagPage
<1>8. screen' = "evals" => EvalsFlags'
  <2>1. screen = "evals" => EvalsFlags
    BY DEF FlagsInv
  <2> QED
    BY <1>0, <2>1, EvalsFlagPage
<1>9. screen' = "eval" => EvalFlags'
  <2>1. screen = "eval" => EvalFlags
    BY DEF FlagsInv
  <2> QED
    BY <1>0, <2>1, EvalFlagPage
<1>10. screen' = "sweeps" => SweepFlags'
  <2>1. screen = "sweeps" => SweepFlags
    BY DEF FlagsInv
  <2> QED
    BY <1>0, <2>1, SweepFlagPage
<1>11. screen' = "settings" => SettingsFlags'
  <2>1. screen = "settings" => SettingsFlags
    BY DEF FlagsInv
  <2> QED
    BY <1>0, <2>1, SettingsFlagPage
<1>12. screen' = "apikeys" => KeysFlags'
  <2>1. screen = "apikeys" => KeysFlags
    BY DEF FlagsInv
  <2> QED
    BY <1>0, <2>1, KeysFlagPage
<1>13. screen' = "piirules" => RulesFlags'
  <2>1. screen = "piirules" => RulesFlags
    BY DEF FlagsInv
  <2> QED
    BY <1>0, <2>1, RulesFlagPage
<1>14. screen' = "piifunctions" => FunctionsFlags'
  <2>1. screen = "piifunctions" => FunctionsFlags
    BY DEF FlagsInv
  <2> QED
    BY <1>0, <2>1, FunctionsFlagPage
<1>15. screen' = "feedback" => FeedbackFlags'
  <2>1. screen = "feedback" => FeedbackFlags
    BY DEF FlagsInv
  <2> QED
    BY <1>0, <2>1, FeedbackFlagPage
<1>16. screen' = "collections" => CollectionsFlags'
  <2>1. screen = "collections" => CollectionsFlags
    BY DEF FlagsInv
  <2> QED
    BY <1>0, <2>1, CollectionsFlagPage
<1>17. screen' = "collection" => CollectionFlags'
  <2>1. screen = "collection" => CollectionFlags
    BY DEF FlagsInv
  <2> QED
    BY <1>0, <2>1, CollectionFlagPage
<1>18. screen' = "config" => ConfigFlags'
  <2>1. screen = "config" => ConfigFlags
    BY DEF FlagsInv
  <2> QED
    BY <1>0, <2>1, ConfigFlagPage
<1>19. screen' = "docview" => ViewFlags'
  <2>1. screen = "docview" => ViewFlags
    BY DEF FlagsInv
  <2> QED
    BY <1>0, <2>1, ViewFlagPage
<1>20. screen' = "builder" => BuilderFlags'
  <2>1. screen = "builder" => BuilderFlags
    BY DEF FlagsInv
  <2> QED
    BY <1>0, <2>1, BuilderFlagPage
<1>21. screen' = "search" => SearchFlags'
  <2>1. screen = "search" => SearchFlags
    BY DEF FlagsInv
  <2> QED
    BY <1>0, <2>1, SearchFlagPage
<1>22. screen' = "profiles" => ProfilesFlags'
  <2>1. screen = "profiles" => ProfilesFlags
    BY DEF FlagsInv
  <2> QED
    BY <1>0, <2>1, ProfilesFlagPage
<1>23. screen' = "review" => ReviewFlags'
  <2>1. screen = "review" => ReviewFlags
    BY DEF FlagsInv
  <2> QED
    BY <1>0, <2>1, ReviewFlagPage
<1>24. screen' = "policy" => PolicyFlags'
  <2>1. screen = "policy" => PolicyFlags
    BY DEF FlagsInv
  <2> QED
    BY <1>0, <2>1, PolicyFlagPage
<1>25. screen' = "routetest" => RouteTestFlags'
  <2>1. screen = "routetest" => RouteTestFlags
    BY DEF FlagsInv
  <2> QED
    BY <1>0, <2>1, RouteTestFlagPage
<1>26. screen' = "intake" => IntakeFlags'
  <2>1. screen = "intake" => IntakeFlags
    BY DEF FlagsInv
  <2> QED
    BY <1>0, <2>1, IntakeFlagPage
<1>27. screen' = "analyze" => AnalyzeFlags'
  <2>1. screen = "analyze" => AnalyzeFlags
    BY DEF FlagsInv
  <2> QED
    BY <1>0, <2>1, AnalyzeFlagPage
<1>28. screen' = "history" => HistoryFlags'
  <2>1. screen = "history" => HistoryFlags
    BY DEF FlagsInv
  <2> QED
    BY <1>0, <2>1, HistoryFlagPage
<1>29. screen' = "pipelines" => PipelinesFlags'
  <2>1. screen = "pipelines" => PipelinesFlags
    BY DEF FlagsInv
  <2> QED
    BY <1>0, <2>1, PipelinesFlagPage
<1>30. screen' = "pipeline" => PipelineFlags'
  <2>1. screen = "pipeline" => PipelineFlags
    BY DEF FlagsInv
  <2> QED
    BY <1>0, <2>1, PipelineFlagPage
<1>31. screen' = "ftjobs" => FtListFlags'
  <2>1. screen = "ftjobs" => FtListFlags
    BY DEF FlagsInv
  <2> QED
    BY <1>0, <2>1, FtJobsFlagPage
<1>32. screen' = "ftdatasets" => FtListFlags'
  <2>1. screen = "ftdatasets" => FtListFlags
    BY DEF FlagsInv
  <2> QED
    BY <1>0, <2>1, FtDatasetsFlagPage
<1>33. screen' = "ftmodels" => FtListFlags'
  <2>1. screen = "ftmodels" => FtListFlags
    BY DEF FlagsInv
  <2> QED
    BY <1>0, <2>1, FtModelsFlagPage
<1>34. screen' = "ftjob" => FtJobFlags'
  <2>1. screen = "ftjob" => FtJobFlags
    BY DEF FlagsInv
  <2> QED
    BY <1>0, <2>1, FtJobFlagPage
<1>35. screen' = "ftdataset" => FtDatasetFlags'
  <2>1. screen = "ftdataset" => FtDatasetFlags
    BY DEF FlagsInv
  <2> QED
    BY <1>0, <2>1, FtDatasetFlagPage
<1>36. screen' = "ftmodel" => FtModelFlags'
  <2>1. screen = "ftmodel" => FtModelFlags
    BY DEF FlagsInv
  <2> QED
    BY <1>0, <2>1, FtModelFlagPage
<1>37. screen' = "ftlabeling" => FtLabelFlags'
  <2>1. screen = "ftlabeling" => FtLabelFlags
    BY DEF FlagsInv
  <2> QED
    BY <1>0, <2>1, FtLabelFlagPage
<1>38. screen' = "users" => UsersFlags'
  <2>1. screen = "users" => UsersFlags
    BY DEF FlagsInv
  <2> QED
    BY <1>0, <2>1, UsersFlagPage
<1>39. screen' = "labeling" => LabelingFlags'
  <2>1. screen = "labeling" => LabelingFlags
    BY DEF FlagsInv
  <2> QED
    BY <1>0, <2>1, LabelingFlagPage
<1>40. screen' = "playground" => PlayFlags'
  <2>1. screen = "playground" => PlayFlags
    BY DEF FlagsInv
  <2> QED
    BY <1>0, <2>1, PlayFlagPage
<1>41. screen' = "chat" => ChatFlags'
  <2>1. screen = "chat" => ChatFlags
    BY DEF FlagsInv
  <2> QED
    BY <1>0, <2>1, ChatFlagPage
<1>42. screen' = "explorer" => ExplorerFlags'
  <2>1. screen = "explorer" => ExplorerFlags
    BY DEF FlagsInv
  <2> QED
    BY <1>0, <2>1, ExplorerFlagPage
<1>43. screen' = "files" => FilesFlags'
  <2>1. screen = "files" => FilesFlags
    BY DEF FlagsInv
  <2> QED
    BY <1>0, <2>1, FilesFlagPage
<1> QED
  BY <1>1, <1>2, <1>3, <1>4, <1>5, <1>6, <1>7, <1>8, <1>9, <1>10, <1>11, <1>12, <1>13, <1>14, <1>15, <1>16,
    <1>17, <1>18, <1>19, <1>20, <1>21, <1>22, <1>23, <1>24, <1>25, <1>26, <1>27, <1>28, <1>29, <1>30, <1>31,
    <1>32, <1>33, <1>34, <1>35, <1>36, <1>37, <1>38, <1>39, <1>40, <1>41, <1>42, <1>43 DEF FlagsInv

LEMMA FlagsEnough == FlagsInv => SpinnersWaited /\ OneSubmitAtATime
<1> SUFFICES ASSUME FlagsInv PROVE SpinnersWaited /\ OneSubmitAtATime
  OBVIOUS
<1>1. CASE screen = "sources"
  <2>1. SourcesFlags
    BY <1>1 DEF FlagsInv
  <2> QED
    BY <1>1, <2>1, SourcesFlagPage
<1>2. CASE screen = "watches"
  <2>1. WatchesFlags
    BY <1>2 DEF FlagsInv
  <2> QED
    BY <1>2, <2>1, WatchesFlagPage
<1>3. CASE screen = "picker"
  <2>1. PickerFlags
    BY <1>3 DEF FlagsInv
  <2> QED
    BY <1>3, <2>1, PickerFlagPage
<1>4. CASE screen = "jobs"
  <2>1. JobsFlags
    BY <1>4 DEF FlagsInv
  <2> QED
    BY <1>4, <2>1, JobsFlagPage
<1>5. CASE screen = "polled"
  <2>1. PolledFlags
    BY <1>5 DEF FlagsInv
  <2> QED
    BY <1>5, <2>1, PolledFlagPage
<1>6. CASE screen = "servers"
  <2>1. ServersFlags
    BY <1>6 DEF FlagsInv
  <2> QED
    BY <1>6, <2>1, ServersFlagPage
<1>7. CASE screen = "models"
  <2>1. ModelsFlags
    BY <1>7 DEF FlagsInv
  <2> QED
    BY <1>7, <2>1, ModelsFlagPage
<1>8. CASE screen = "evals"
  <2>1. EvalsFlags
    BY <1>8 DEF FlagsInv
  <2> QED
    BY <1>8, <2>1, EvalsFlagPage
<1>9. CASE screen = "eval"
  <2>1. EvalFlags
    BY <1>9 DEF FlagsInv
  <2> QED
    BY <1>9, <2>1, EvalFlagPage
<1>10. CASE screen = "sweeps"
  <2>1. SweepFlags
    BY <1>10 DEF FlagsInv
  <2> QED
    BY <1>10, <2>1, SweepFlagPage
<1>11. CASE screen = "settings"
  <2>1. SettingsFlags
    BY <1>11 DEF FlagsInv
  <2> QED
    BY <1>11, <2>1, SettingsFlagPage
<1>12. CASE screen = "apikeys"
  <2>1. KeysFlags
    BY <1>12 DEF FlagsInv
  <2> QED
    BY <1>12, <2>1, KeysFlagPage
<1>13. CASE screen = "piirules"
  <2>1. RulesFlags
    BY <1>13 DEF FlagsInv
  <2> QED
    BY <1>13, <2>1, RulesFlagPage
<1>14. CASE screen = "piifunctions"
  <2>1. FunctionsFlags
    BY <1>14 DEF FlagsInv
  <2> QED
    BY <1>14, <2>1, FunctionsFlagPage
<1>15. CASE screen = "feedback"
  <2>1. FeedbackFlags
    BY <1>15 DEF FlagsInv
  <2> QED
    BY <1>15, <2>1, FeedbackFlagPage
<1>16. CASE screen = "collections"
  <2>1. CollectionsFlags
    BY <1>16 DEF FlagsInv
  <2> QED
    BY <1>16, <2>1, CollectionsFlagPage
<1>17. CASE screen = "collection"
  <2>1. CollectionFlags
    BY <1>17 DEF FlagsInv
  <2> QED
    BY <1>17, <2>1, CollectionFlagPage
<1>18. CASE screen = "config"
  <2>1. ConfigFlags
    BY <1>18 DEF FlagsInv
  <2> QED
    BY <1>18, <2>1, ConfigFlagPage
<1>19. CASE screen = "docview"
  <2>1. ViewFlags
    BY <1>19 DEF FlagsInv
  <2> QED
    BY <1>19, <2>1, ViewFlagPage
<1>20. CASE screen = "builder"
  <2>1. BuilderFlags
    BY <1>20 DEF FlagsInv
  <2> QED
    BY <1>20, <2>1, BuilderFlagPage
<1>21. CASE screen = "search"
  <2>1. SearchFlags
    BY <1>21 DEF FlagsInv
  <2> QED
    BY <1>21, <2>1, SearchFlagPage
<1>22. CASE screen = "profiles"
  <2>1. ProfilesFlags
    BY <1>22 DEF FlagsInv
  <2> QED
    BY <1>22, <2>1, ProfilesFlagPage
<1>23. CASE screen = "review"
  <2>1. ReviewFlags
    BY <1>23 DEF FlagsInv
  <2> QED
    BY <1>23, <2>1, ReviewFlagPage
<1>24. CASE screen = "policy"
  <2>1. PolicyFlags
    BY <1>24 DEF FlagsInv
  <2> QED
    BY <1>24, <2>1, PolicyFlagPage
<1>25. CASE screen = "routetest"
  <2>1. RouteTestFlags
    BY <1>25 DEF FlagsInv
  <2> QED
    BY <1>25, <2>1, RouteTestFlagPage
<1>26. CASE screen = "intake"
  <2>1. IntakeFlags
    BY <1>26 DEF FlagsInv
  <2> QED
    BY <1>26, <2>1, IntakeFlagPage
<1>27. CASE screen = "analyze"
  <2>1. AnalyzeFlags
    BY <1>27 DEF FlagsInv
  <2> QED
    BY <1>27, <2>1, AnalyzeFlagPage
<1>28. CASE screen = "history"
  <2>1. HistoryFlags
    BY <1>28 DEF FlagsInv
  <2> QED
    BY <1>28, <2>1, HistoryFlagPage
<1>29. CASE screen = "pipelines"
  <2>1. PipelinesFlags
    BY <1>29 DEF FlagsInv
  <2> QED
    BY <1>29, <2>1, PipelinesFlagPage
<1>30. CASE screen = "pipeline"
  <2>1. PipelineFlags
    BY <1>30 DEF FlagsInv
  <2> QED
    BY <1>30, <2>1, PipelineFlagPage
<1>31. CASE screen = "ftjobs"
  <2>1. FtListFlags
    BY <1>31 DEF FlagsInv
  <2> QED
    BY <1>31, <2>1, FtJobsFlagPage
<1>32. CASE screen = "ftdatasets"
  <2>1. FtListFlags
    BY <1>32 DEF FlagsInv
  <2> QED
    BY <1>32, <2>1, FtDatasetsFlagPage
<1>33. CASE screen = "ftmodels"
  <2>1. FtListFlags
    BY <1>33 DEF FlagsInv
  <2> QED
    BY <1>33, <2>1, FtModelsFlagPage
<1>34. CASE screen = "ftjob"
  <2>1. FtJobFlags
    BY <1>34 DEF FlagsInv
  <2> QED
    BY <1>34, <2>1, FtJobFlagPage
<1>35. CASE screen = "ftdataset"
  <2>1. FtDatasetFlags
    BY <1>35 DEF FlagsInv
  <2> QED
    BY <1>35, <2>1, FtDatasetFlagPage
<1>36. CASE screen = "ftmodel"
  <2>1. FtModelFlags
    BY <1>36 DEF FlagsInv
  <2> QED
    BY <1>36, <2>1, FtModelFlagPage
<1>37. CASE screen = "ftlabeling"
  <2>1. FtLabelFlags
    BY <1>37 DEF FlagsInv
  <2> QED
    BY <1>37, <2>1, FtLabelFlagPage
<1>38. CASE screen = "users"
  <2>1. UsersFlags
    BY <1>38 DEF FlagsInv
  <2> QED
    BY <1>38, <2>1, UsersFlagPage
<1>39. CASE screen = "labeling"
  <2>1. LabelingFlags
    BY <1>39 DEF FlagsInv
  <2> QED
    BY <1>39, <2>1, LabelingFlagPage
<1>40. CASE screen = "playground"
  <2>1. PlayFlags
    BY <1>40 DEF FlagsInv
  <2> QED
    BY <1>40, <2>1, PlayFlagPage
<1>41. CASE screen = "chat"
  <2>1. ChatFlags
    BY <1>41 DEF FlagsInv
  <2> QED
    BY <1>41, <2>1, ChatFlagPage
<1>42. CASE screen = "explorer"
  <2>1. ExplorerFlags
    BY <1>42 DEF FlagsInv
  <2> QED
    BY <1>42, <2>1, ExplorerFlagPage
<1>43. CASE screen = "files"
  <2>1. FilesFlags
    BY <1>43 DEF FlagsInv
  <2> QED
    BY <1>43, <2>1, FilesFlagPage
<1>44. CASE screen \notin {"sources", "watches", "picker", "jobs", "polled", "servers", "models",
        "evals", "eval", "sweeps", "settings", "apikeys", "piirules", "piifunctions",
        "feedback", "collections", "collection", "config", "docview", "builder", "search",
        "profiles", "review", "policy", "routetest", "intake", "analyze", "history",
        "pipelines", "pipeline", "ftjobs", "ftdatasets", "ftmodels", "ftjob", "ftdataset",
        "ftmodel", "ftlabeling", "users", "labeling", "playground", "chat", "explorer",
        "files"}
  <2>1. Spinners = {}
    BY <1>44, ZenonT(30) DEF Spinners
  <2>2. Submits = {}
    BY <1>44, ZenonT(30) DEF Submits
  <2> QED
    BY <2>1, <2>2 DEF SpinnersWaited, OneSubmitAtATime
<1> QED
  BY <1>1, <1>2, <1>3, <1>4, <1>5, <1>6, <1>7, <1>8, <1>9, <1>10, <1>11, <1>12, <1>13, <1>14, <1>15, <1>16,
    <1>17, <1>18, <1>19, <1>20, <1>21, <1>22, <1>23, <1>24, <1>25, <1>26, <1>27, <1>28, <1>29, <1>30, <1>31,
    <1>32, <1>33, <1>34, <1>35, <1>36, <1>37, <1>38, <1>39, <1>40, <1>41, <1>42, <1>43, <1>44

\* On every page, a flag that shows a spinner or disables a control is up only
\* while a request is out whose end lowers it: each early return, error path and
\* overlapping request of the handlers lowers what it raised, whatever is
\* clicked, answered, lost or changed elsewhere, in whatever order.
THEOREM SpinnersAreWaited == Spec => []SpinnersWaited
<1>1. FlagsInv => SpinnersWaited
  BY FlagsEnough
<1> QED
  BY <1>1, FlagsStart, FlagsStep, PTL DEF Spec

\* On every page, a request that must not be sent twice at once is not: the
\* flag that disables its button, or that its handler returns on, is up from the
\* moment it is sent until its handler ends, also when the dialog that sent it
\* is closed and opened again meanwhile.
THEOREM SubmitsAreSingle == Spec => []OneSubmitAtATime
<1>1. FlagsInv => OneSubmitAtATime
  BY FlagsEnough
<1> QED
  BY <1>1, FlagsStart, FlagsStep, PTL DEF Spec
=============================================================================
