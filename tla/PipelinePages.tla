--------------------------- MODULE PipelinePages ---------------------------
(***************************************************************************)
(* Pipelines and their use: the list (app/dashboard/pipelines/page.tsx), a *)
(* pipeline with its versions (pipelines/[id]/page.tsx), the playground    *)
(* (playground/page.tsx), the chat (chat/page.tsx) and the feedback        *)
(* buttons both show (features/feedback/feedback-buttons.tsx).             *)
(***************************************************************************)
EXTENDS TablePage

----------------------------------------------------------------------------
(* The list.  The name typed into the dialog outlives its closing.         *)

PipelinesUi(a) == [admin |-> a, rows |-> NoRows, loading |-> TRUE, open |-> FALSE, name |-> "", submitting |-> FALSE]
PipelinesDb    == [rows |-> OneRow("x")]
PipelinesEffect(c) == IF c.k = "create" THEN [db EXCEPT !.rows[Fresh(db.rows)] = c.a] ELSE db
PipelinesAnswer(c) == IF c.k = "list" THEN db.rows ELSE None

PipelinesUser ==
    \/ ui.admin /\ ~ui.open /\ User([ui EXCEPT !.open = TRUE])
    \/ /\ ui.open
       /\ \/ User([ui EXCEPT !.open = FALSE])
          \/ \E v \in Typed \cup {""} : User([ui EXCEPT !.name = v])
          \/ ui.name # "" /\ ~ui.submitting /\ Ask([ui EXCEPT !.submitting = TRUE], "create", ui.name)

PipelinesCreated(s) ==
    LET u == [ui EXCEPT !.submitting = FALSE]
    IN  IF Ok(s) THEN Refresh(s, [u EXCEPT !.open = FALSE, !.name = ""]) ELSE Resume(s, u, Rest(s))

PipelinesResume(s) ==
    \/ net[s].k = "list" /\ Listed(s)
    \/ net[s].k = "create" /\ PipelinesCreated(s)

----------------------------------------------------------------------------
(* A pipeline.  A configuration is [tune, model]: the values the presets   *)
(* set together ("custom" when they match none) and the model, which they  *)
(* leave alone.  The server appends a version per save and moves active.   *)
(* pick is the pair of versions chosen for the diff; the versions and the  *)
(* query of a comparison and the note of a save are left out.              *)

Presets == {"recommended", "cheap"}
MaxVersions == 3    \* bound: versions of the pipeline

PipelineDb == [cfgs |-> <<[tune |-> "recommended", model |-> ""]>>, active |-> 1, stage |-> "dev", gone |-> FALSE]
PipelineOf(d) == [active |-> d.active, stage |-> d.stage, cfg |-> d.cfgs[d.active]]
PipelineUi(a) ==
    [admin |-> a, p |-> None, cfg |-> None, versions |-> 0, pick |-> <<1, 1>>, diff |-> None,
     cmp |-> FALSE, orig |-> FALSE, fetching |-> FALSE, left |-> FALSE]

PipelineAccepts(c) ==
    /\ ~db.gone
    /\ c.k = "save" => Len(db.cfgs) < MaxVersions
    /\ c.k = "activate" => c.a \in DOMAIN db.cfgs
PipelineEffect(c) ==
    CASE c.k = "save"     -> [db EXCEPT !.cfgs = Append(@, c.a), !.active = Len(db.cfgs) + 1]
      [] c.k = "activate" -> [db EXCEPT !.active = c.a]
      [] c.k = "patch"    -> [db EXCEPT !.stage = c.a.stage]
      [] c.k = "destroy"  -> [db EXCEPT !.gone = TRUE]
      [] OTHER -> db
PipelineAnswer(c) ==
    CASE c.k = "load"  -> PipelineOf(db)
      [] c.k = "patch" -> [PipelineOf(db) EXCEPT !.stage = c.a.stage]
      [] c.k = "list"  -> Len(db.cfgs)
      [] OTHER -> None

DetectPreset(cfg) == IF cfg.tune \in Presets THEN cfg.tune ELSE "custom"
ApplyPreset(key)  == DetectPreset(ui.cfg) # key /\ User([ui EXCEPT !.cfg.tune = key])

\* The advanced table sets one value at a time.
SetR  == User([ui EXCEPT !.cfg.tune = "custom"])
SetModel == \E v \in Typed : User([ui EXCEPT !.cfg.model = v])

\* The save button is not disabled while a save is out.
HandleSave == Ask(ui, "save", ui.cfg)
HandleStageChange(stage) == stage # ui.p.stage /\ Ask(ui, "patch", [id |-> None, stage |-> stage])
HandleActivate(v) == v # ui.p.active /\ Ask(ui, "activate", v)
PipelineDelete    == Ask(ui, "destroy", None)

HandleDiff    == ui.versions >= 2 /\ Ask(ui, "diff", ui.pick)
HandleCompare == Ask(ui, "compare", None)
PipelineChoose ==
    \E v \in 1..ui.versions, side \in {1, 2} : User([ui EXCEPT !.pick[side] = v])

\* The page of the original a hit comes from: the evidence, then its image.
OriginalViewButton ==
    \/ ui.cmp /\ ~ui.fetching /\ ~ui.orig /\ Ask([ui EXCEPT !.fetching = TRUE], "evidence", None)
    \/ ui.orig /\ User([ui EXCEPT !.orig = FALSE])

PipelineUser ==
    /\ ui.p # None /\ ~ui.left
    /\ \/ /\ ui.admin
          /\ \/ \E key \in Presets : ApplyPreset(key)
             \/ SetR \/ SetModel \/ HandleSave \/ PipelineDelete
             \/ \E stage \in {"dev", "prod"} : HandleStageChange(stage)
             \/ \E v \in 1..ui.versions : HandleActivate(v)
       \/ HandleDiff \/ HandleCompare \/ PipelineChoose \/ OriginalViewButton

PipelineReload(s, u) == Resume(s, u, Send(Rest(s), "load", None))

\* refresh(): the pipeline, then its versions; only then both are shown, and
\* the oldest and the newest version are chosen for the comparisons.
PipelineGot(s) ==
    IF Ok(s) THEN Resume(s, ui, Send(Rest(s), "list", net[s].r)) ELSE Resume(s, ui, Rest(s))
PipelineShown(s) ==
    LET n == net[s].r
        u == [ui EXCEPT !.p = net[s].a, !.cfg = net[s].a.cfg, !.versions = n]
    IN  Resume(s, IF ~Ok(s) THEN ui ELSE IF n >= 2 THEN [u EXCEPT !.pick = <<1, n>>] ELSE u, Rest(s))

PipelineSaved(s)  == IF Ok(s) THEN PipelineReload(s, ui) ELSE Resume(s, ui, Rest(s))
PipelineStaged(s) == Resume(s, [ui EXCEPT !.p = Got(s, @)], Rest(s))
PipelineGone(s)   == Resume(s, [ui EXCEPT !.left = Ok(s)], Rest(s))
PipelineDiffed(s)   == Resume(s, IF Ok(s) THEN [ui EXCEPT !.diff = net[s].a] ELSE ui, Rest(s))
PipelineCompared(s) == Resume(s, [ui EXCEPT !.cmp = @ \/ Ok(s)], Rest(s))

\* A document without evidence ends the handler early.
PipelineEvidence(s) ==
    \/ Ok(s) /\ Resume(s, ui, Send(Rest(s), "image", None))
    \/ Resume(s, [ui EXCEPT !.fetching = FALSE], Rest(s))
PipelineImage(s) == Resume(s, [ui EXCEPT !.fetching = FALSE, !.orig = @ \/ Ok(s)], Rest(s))

PipelineResume(s) ==
    \/ net[s].k = "load" /\ PipelineGot(s)
    \/ net[s].k = "list" /\ PipelineShown(s)
    \/ net[s].k \in {"save", "activate"} /\ PipelineSaved(s)
    \/ net[s].k = "patch" /\ PipelineStaged(s)
    \/ net[s].k = "destroy" /\ PipelineGone(s)
    \/ net[s].k = "diff" /\ PipelineDiffed(s)
    \/ net[s].k = "compare" /\ PipelineCompared(s)
    \/ net[s].k = "evidence" /\ PipelineEvidence(s)
    \/ net[s].k = "image" /\ PipelineImage(s)

----------------------------------------------------------------------------
(* The feedback buttons: fb is "no", "form" (the dialog of a thumbs down), *)
(* "busy" and "sent".  key tells the buttons of one answer from those of a *)
(* later one, so that a late answer to buttons that are gone is ignored.   *)

FeedbackForm(fb)  == fb = "no"
FeedbackSends(fb) == fb \in {"no", "form"}
FeedbackSent(s)   == IF Ok(s) THEN "sent" ELSE net[s].a.fb

----------------------------------------------------------------------------
(* The playground.  A result is [kind, cols]: the collections it was asked *)
(* of; answered carries the feedback buttons of an answer.                 *)

PlayUi ==
    [cols |-> {}, pipes |-> FALSE, col |-> None, ids |-> {}, scope |-> "single", pipe |-> FALSE, rerank |-> FALSE,
     q |-> FALSE, loading |-> FALSE, hits |-> None, answered |-> None, grouped |-> TRUE]
PlayAnswer(c) == IF c.k = "cols" THEN Rows ELSE None

PlayCols == IF ui.scope = "single" THEN {ui.col} \ {None} ELSE ui.ids
CanRun   == PlayCols # {}

\* reset(), then the request; its arguments are those of the click.
PlayRun(k) ==
    /\ CanRun /\ ~ui.loading /\ ui.q
    /\ Ask([ui EXCEPT !.loading = TRUE, !.hits = None, !.answered = None], k, [cols |-> PlayCols, key |-> ops])

PlayChoose ==
    \/ \E x \in {"single", "federated"} : ui.scope # x /\ User([ui EXCEPT !.scope = x])
    \/ \E c \in ui.cols :
         \/ ui.scope = "single" /\ c # ui.col /\ User([ui EXCEPT !.col = c])
         \/ ui.scope = "federated" /\ User([ui EXCEPT !.ids = IF c \in @ THEN @ \ {c} ELSE @ \cup {c}])
    \/ ui.pipes /\ User([ui EXCEPT !.pipe = ~@])
    \/ ~ui.pipe /\ User([ui EXCEPT !.rerank = ~@])

\* The feedback names the collection that is selected now; of is the one that
\* was asked.
PlayFeedback ==
    /\ ui.answered # None /\ ui.scope = "single"
    /\ \/ FeedbackForm(ui.answered.fb) /\ User([ui EXCEPT !.answered.fb = "form"])
       \/ ui.answered.fb = "form" /\ User([ui EXCEPT !.answered.fb = "no"])
       \/ /\ FeedbackSends(ui.answered.fb)
          /\ Ask([ui EXCEPT !.answered.fb = "busy"], "rate",
                 [key |-> ui.answered.key, fb |-> ui.answered.fb, col |-> ui.col, of |-> ui.answered.cols])

PlayUser ==
    \/ PlayRun("search") \/ PlayRun("answer") \/ PlayChoose \/ PlayFeedback
    \/ User([ui EXCEPT !.q = TRUE])
    \/ ui.hits # None /\ User([ui EXCEPT !.grouped = ~@])

PlayCollections(s) ==
    Resume(s, IF Ok(s) THEN [ui EXCEPT !.cols = net[s].r, !.col = CHOOSE c \in Rows : TRUE] ELSE ui, Rest(s))
PlayPipelines(s) == Resume(s, [ui EXCEPT !.pipes = Ok(s)], Rest(s))
PlaySearched(s)  == Resume(s, [ui EXCEPT !.loading = FALSE, !.hits = IF Ok(s) THEN net[s].a.cols ELSE @], Rest(s))
PlayAnswered(s) ==
    LET u == [ui EXCEPT !.loading = FALSE]
        c == net[s].a
    IN  Resume(s, IF Ok(s) THEN [u EXCEPT !.hits = c.cols, !.answered = [cols |-> c.cols, fb |-> "no", key |-> c.key]] ELSE u,
               Rest(s))
PlayRated(s) ==
    LET mounted == ui.answered # None /\ ui.answered.key = net[s].a.key
    IN  Resume(s, IF mounted THEN [ui EXCEPT !.answered.fb = FeedbackSent(s)] ELSE ui, Rest(s))

PlayResume(s) ==
    \/ net[s].k = "cols" /\ PlayCollections(s)
    \/ net[s].k = "pipes" /\ PlayPipelines(s)
    \/ net[s].k = "search" /\ PlaySearched(s)
    \/ net[s].k = "answer" /\ PlayAnswered(s)
    \/ net[s].k = "rate" /\ PlayRated(s)

----------------------------------------------------------------------------
(* The chat.  A turn is [who, text, done, of, fb, key]; the events of the   *)
(* stream (hits, tokens, done) go to the last turn.  broken: the page      *)
(* crashed.                                                                *)

MaxTurns == 4   \* bound: turns of a conversation

ChatUi ==
    [cols |-> {}, pipes |-> FALSE, col |-> None, pipe |-> FALSE, rerank |-> FALSE, turns |-> <<>>, input |-> FALSE,
     streaming |-> FALSE, broken |-> FALSE]
ChatAnswer(c) == IF c.k = "cols" THEN Rows ELSE None

Turn(who, col) == [who |-> who, text |-> who = "user", done |-> FALSE, of |-> col, fb |-> "no", key |-> ops]

ChatSend ==
    /\ ui.input /\ ui.col # None /\ ~ui.streaming /\ Len(ui.turns) < MaxTurns
    /\ Ask([ui EXCEPT !.turns = @ \o <<Turn("user", ui.col), Turn("assistant", ui.col)>>,
                      !.input = FALSE, !.streaming = TRUE], "hits", ui.col)

ChatClear == ui.turns # <<>> /\ User([ui EXCEPT !.turns = <<>>])

ChatFeedback(i) ==
    LET t == ui.turns[i]
    IN  /\ t.who = "assistant" /\ t.done /\ t.text
        /\ \/ FeedbackForm(t.fb) /\ User([ui EXCEPT !.turns[i].fb = "form"])
           \/ t.fb = "form" /\ User([ui EXCEPT !.turns[i].fb = "no"])
           \/ /\ FeedbackSends(t.fb)
              /\ Ask([ui EXCEPT !.turns[i].fb = "busy"], "rate",
                     [turn |-> i, key |-> t.key, fb |-> t.fb, col |-> ui.col, of |-> {t.of}])

ChatUser ==
    /\ ~ui.broken
    /\ \/ ChatSend \/ ChatClear
       \/ \E i \in DOMAIN ui.turns : ChatFeedback(i)
       \/ User([ui EXCEPT !.input = TRUE])
       \/ \E c \in ui.cols \ {ui.col} : User([ui EXCEPT !.col = c])
       \/ ui.pipes /\ User([ui EXCEPT !.pipe = ~@])
       \/ ~ui.pipe /\ User([ui EXCEPT !.rerank = ~@])

ChatEnd(s, u) == Resume(s, [u EXCEPT !.streaming = FALSE], Rest(s))
ChatRead(s, u, k) == IF Ok(s) THEN Resume(s, u, Send(Rest(s), k, net[s].a)) ELSE ChatEnd(s, ui)

\* A spread of the missing last turn is harmless; reading its text is not.
ChatHits(s)  == ChatRead(s, ui, "token")
ChatToken(s) ==
    LET n == Len(ui.turns)
    IN  ChatRead(s, IF n = 0 THEN [ui EXCEPT !.broken = TRUE] ELSE [ui EXCEPT !.turns[n].text = TRUE], "done")
ChatDone(s) ==
    LET n == Len(ui.turns)
    IN  ChatEnd(s, IF Ok(s) /\ n > 0 THEN [ui EXCEPT !.turns[n].done = TRUE] ELSE ui)
ChatRated(s) ==
    LET i == net[s].a.turn
        mounted == i \in DOMAIN ui.turns /\ ui.turns[i].key = net[s].a.key
    IN  Resume(s, IF mounted THEN [ui EXCEPT !.turns[i].fb = FeedbackSent(s)] ELSE ui, Rest(s))

ChatResume(s) ==
    \/ net[s].k = "cols" /\ PlayCollections(s)
    \/ net[s].k = "pipes" /\ PlayPipelines(s)
    \/ net[s].k = "hits" /\ ChatHits(s)
    \/ net[s].k = "token" /\ ChatToken(s)
    \/ net[s].k = "done" /\ ChatDone(s)
    \/ net[s].k = "rate" /\ ChatRated(s)
=============================================================================
