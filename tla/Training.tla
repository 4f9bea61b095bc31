------------------------------ MODULE Training ------------------------------
(***************************************************************************)
(* ml/baseline.py: a training run that writes its evidence file by file,   *)
(* and the evaluation that later loads the selected weights.  Training may *)
(* fail or be killed at any point; an evaluation may be started at any     *)
(* time, also while the run is still going.  Both verify the release they  *)
(* take their data from (Release.tla).                                     *)
(*                                                                         *)
(* Weights are named by the optimizer steps that made them, a SHA-256 by   *)
(* the content it is taken of.  The detector is not modelled: at each      *)
(* validation it finds one of Detections.                                  *)
(***************************************************************************)
EXTENDS Matching, Release

CONSTANTS
    Configs,      \* [epochs, budget, smoke, seed, tile, overlap]
    Detections    \* [image, view, box, category, score] sequences, boxes in crop coordinates

ASSUME ConfigAssumption ==
    \A c \in Configs :
        /\ c.epochs \in Nat /\ c.budget \in Nat /\ (c.epochs = 0) # (c.budget = 0)
        /\ c.smoke \in BOOLEAN /\ c.seed \in Int
        /\ c.tile \in Nat /\ c.overlap \in Nat /\ (c.tile # 0 => c.overlap < c.tile)

\* The detector returns finite boxes and scores in per cent.
ASSUME DetectionAssumption ==
    \A found \in Detections :
        /\ found \in Seq(Range(found))
        /\ \A d \in DOMAIN found :
             /\ found[d].score \in 0..100 /\ found[d].category \in Nat
             /\ found[d].box \in Int \X Int \X Int \X Int

VARIABLES
    config,      \* config.json, written before anything else
    digest,      \* the manifest's, in config.json and checkpoint.json
    samples,     \* [train, validation] of the manifest, as BoardViews loaded them
    views,       \* train_data.views
    plan,        \* the passes training_schedule yields
    pc,          \* where train() is
    pass,        \* passes begun
    left,        \* view indices this pass has still to visit
    steps,       \* completed_steps
    epochs,      \* completed_epochs
    bestAp,      \* best_ap
    latest,      \* [score, predictions] of the last validation
    trained,     \* how often each view was trained on
    files,       \* the files of the run directory
    evaluator    \* the evaluate() under way: [pc, split, checkpoint, manifest]

trainVars == <<config, digest, samples, views, plan, pc, pass, left, steps, epochs, bestAp, latest, trained>>
runVars   == <<trainVars, files, evaluator>>
dataVars  == <<config, digest, samples, views, plan>>

-----------------------------------------------------------------------------
(* The data of a run and the validation of its weights.                    *)

TrainImages      == samples.train
ValidationImages == samples.validation

\* A view has an image of its split and one of its windows.
Seen(found) ==
    \A i \in DOMAIN found :
        /\ found[i].image \in DOMAIN ValidationImages
        /\ found[i].view \in
             DOMAIN Windows(ValidationImages[found[i].image], config.tile, config.overlap)

\* torchvision's batched_nms: the best first, nothing that covers a better one of its class.
NonMaximum(rows) ==
    LET order == ByScore(rows, DOMAIN rows)
        Covers(r, s) ==
            LET o == Overlap(r.box, s.box)
            IN  r.category = s.category /\ 2 * o.inter > o.union
        upTo[k \in 0..Len(order)] ==
            IF k = 0 THEN <<>>
            ELSE LET kept == upTo[k - 1]
                     next == rows[order[k]]
                 IN  IF \E i \in DOMAIN kept : Covers(kept[i], next) THEN kept
                     ELSE Append(kept, next)
    IN  upTo[Len(order)]

\* A box of a crop in its image, clamped to it.
InImage(image, d, window) ==
    Clip(RestoreBox(d.box, window), <<0, 0, image.width, image.height>>)

BoxesKept == 100

InferImage(index, found) ==
    LET image   == ValidationImages[index]
        windows == Windows(image, config.tile, config.overlap)
        mine    == Picked(found, {d \in DOMAIN found : found[d].image = index})
        rows    == [i \in DOMAIN mine |->
                       [image |-> index, category |-> mine[i].category, score |-> mine[i].score,
                        box |-> InImage(image, mine[i], windows[mine[i].view])]]
        usable  == {i \in DOMAIN rows : HasArea(rows[i].box) /\ rows[i].category \in 1..Classes}
    IN  Used(NonMaximum(Picked(rows, usable)), BoxesKept)

Infer(found) == FlattenSeq([i \in DOMAIN ValidationImages |-> InferImage(i, found)])

Boards(predictions) ==
    [i \in DOMAIN ValidationImages |->
        LET labels == ValidationImages[i].annotations
        IN  Board([a \in DOMAIN labels |->
                      [box |-> labels[a].box, category |-> labels[a].class + 1]],
                  Picked(predictions, {p \in DOMAIN predictions : predictions[p].image = i}))]

\* ap50_95 (pycocotools), of which only the order matters: the labels that are found.
Score(predictions) ==
    LET boards == Boards(predictions)
        Found(i) == Taken(boards[i].matches) \cap DOMAIN boards[i].truth
    IN  Cardinality(UNION {{i} \X Found(i) : i \in DOMAIN boards})

-----------------------------------------------------------------------------
(* train *)

Init ==
    /\ pc = "waiting"
    /\ config = Nothing /\ digest = Nothing
    /\ samples = [train |-> <<>>, validation |-> <<>>] /\ views = <<>> /\ plan = <<>>
    /\ pass = 0 /\ left = <<>> /\ trained = <<>>
    /\ steps = 0 /\ epochs = 0 /\ bestAp = -1 /\ latest = [score |-> Nothing]
    /\ files = [history |-> Absent, state |-> Absent, best |-> Absent, checkpoint |-> Absent,
                summary |-> Absent, failure |-> Absent, validation |-> Absent, test |-> Absent]
    /\ evaluator = [pc |-> "idle"]

\* verify_release reads the manifest twice; one change that is not undone cannot come
\* between to any effect.
Start(c) ==
    LET train      == SplitOf(disk.manifest, "train")
        validation == SplitOf(disk.manifest, "validation")
    IN  /\ pc = "waiting" /\ Verified
        \* BOUND: nobody is at work on the release, nor was its review edited during the build
        /\ builder = NoBuild /\ checker = Absent /\ disk.release.used = review
        /\ pc' = "pass" /\ config' = c /\ digest' = disk.manifest
        /\ samples' = [train      |-> Used(train, IF c.smoke THEN 4 ELSE Len(train)),
                       validation |-> Used(validation, IF c.smoke THEN 2 ELSE Len(validation))]
        /\ views' = Views(samples'.train, c.tile, c.overlap)
        /\ plan' = TrainingSchedule(c, Len(views'))
        /\ trained' = [v \in DOMAIN views' |-> 0]
        /\ UNCHANGED <<pass, left, steps, epochs, bestAp, latest, files, evaluator>>

Write(file, content) == files' = [files EXCEPT ![file] = content]

BeginPass ==
    /\ pc = "pass" /\ pass < Len(plan)
    /\ pass' = pass + 1 /\ left' = plan[pass + 1] /\ pc' = "step"
    /\ UNCHANGED <<dataVars, steps, epochs, bestAp, latest, trained, files, evaluator>>

Step ==
    /\ pc = "step"
    /\ trained' = [trained EXCEPT ![Head(left)] = @ + 1]
    /\ steps' = steps + 1 /\ left' = Tail(left)
    /\ pc' = IF Len(left) = 1 THEN "record" ELSE "step"
    /\ UNCHANGED <<dataVars, pass, epochs, bestAp, latest, files, evaluator>>

Validates == ~ByBudget(config) \/ steps = config.budget

\* Slip: a partial pass counts as an epoch.
EpochsAfterAny == epochs + 1

EpochsAfter ==
    IF ~ByBudget(config) \/ Len(plan[pass]) = Len(views) THEN epochs + 1 ELSE epochs

Selects(score) == ByBudget(config) \/ score > bestAp

\* The rows of history.json; a missing file has none.
HistoryRows == [number : Nat, indices : Seq(Nat), first : Int, last : Nat, whole : BOOLEAN,
                score : Nat \cup {Nothing}]

ASSUME HistoryAssumption == Absent \notin Seq(HistoryRows)

Row(score) ==
    [number  |-> IF ByBudget(config) THEN pass ELSE EpochsAfter,
     indices |-> plan[pass],
     first   |-> steps - Len(plan[pass]) + 1,
     last    |-> steps,
     whole   |-> Len(plan[pass]) = Len(views),
     score   |-> score]

\* Validation, history.json and the metrics of one pass.
Record(found) ==
    LET predictions == Infer(found)
        score == IF Validates THEN Score(predictions) ELSE Nothing
    IN  /\ pc = "record"
        /\ epochs' = EpochsAfter
        /\ Write("history", IF files.history = Absent THEN <<Row(score)>>
                            ELSE Append(files.history, Row(score)))
        /\ IF Validates /\ Selects(score)
           THEN /\ pc' = "state" /\ bestAp' = score
                /\ latest' = [score |-> score, predictions |-> predictions]
           ELSE /\ pc' = "pass" /\ UNCHANGED <<bestAp, latest>>
        /\ UNCHANGED <<dataVars, pass, left, steps, trained, evaluator>>

SaveState ==
    /\ pc = "state" /\ pc' = "best"
    /\ Write("state", steps)
    /\ UNCHANGED <<dataVars, pass, left, steps, epochs, bestAp, latest, trained, evaluator>>

SaveBest ==
    /\ pc = "best" /\ pc' = "checkpoint"
    /\ Write("best", latest)
    /\ UNCHANGED <<dataVars, pass, left, steps, epochs, bestAp, latest, trained, evaluator>>

SaveCheckpoint ==
    /\ pc = "checkpoint" /\ pc' = "pass"
    /\ Write("checkpoint",
             [state   |-> files.state,
              epoch   |-> IF ByBudget(config) THEN Nothing ELSE epochs,
              step    |-> steps,
              history |-> IF ByBudget(config) THEN files.history ELSE Nothing])
    /\ UNCHANGED <<dataVars, pass, left, steps, epochs, bestAp, latest, trained, evaluator>>

\* The summary hashes the saved state: without one the run fails instead.
WriteSummary ==
    /\ pc = "pass" /\ pass = Len(plan) /\ files.state # Absent
    /\ pc' = "artifacts"
    /\ Write("summary",
             [epochs |-> epochs, steps |-> steps, best |-> bestAp, state |-> files.state,
              partial |-> IF ByBudget(config) THEN steps % Len(views) ELSE 0])
    /\ UNCHANGED <<dataVars, pass, left, steps, epochs, bestAp, latest, trained, evaluator>>

LogArtifacts ==
    /\ pc = "artifacts" /\ pc' = "done"
    /\ UNCHANGED <<dataVars, pass, left, steps, epochs, bestAp, latest, trained, files, evaluator>>

Running == pc \notin {"waiting", "done", "failed", "killed"}

\* Any exception: a loss or a prediction that is not finite, a full disk, an interrupt.
Fail ==
    /\ Running /\ pc' = "failed"
    /\ Write("failure", "failed")
    /\ UNCHANGED <<dataVars, pass, left, steps, epochs, bestAp, latest, trained, evaluator>>

\* The process disappears, between two writes or in the middle of one.
Kill ==
    /\ Running /\ pc' = "killed"
    /\ \/ UNCHANGED files
       \/ pc = "record" /\ Write("history", Torn)
       \/ pc \in {"state", "best", "checkpoint"} /\ Write(pc, Torn)
       \/ pc = "pass" /\ pass = Len(plan) /\ Write("summary", Torn)
    /\ UNCHANGED <<dataVars, pass, left, steps, epochs, bestAp, latest, trained, evaluator>>

-----------------------------------------------------------------------------
(* evaluate *)

Readable(file) == files[file] \notin {Absent, Torn}

\* Slip: a run that wrote its summary is taken as it is.
AcceptedUnread(checkpoint) ==
    Readable("summary") /\ files.failure = Absent /\ Readable("state")

Accepted(checkpoint) ==
    /\ Readable("summary") /\ files.failure = Absent
    /\ Readable("history")
    /\ ValidTraining(config, Len(views), files.summary, checkpoint, files.history)
    /\ ByBudget(config) => checkpoint.history = files.history
    /\ checkpoint.state = files.state
    /\ files.summary.state = checkpoint.state

\* Slip: evaluation takes the manifest as it is.
SameReleaseUnverified == OnDisk("manifest")

\* The release verifies, and it is the one the run was trained on.
SameRelease == Verified /\ disk.manifest = digest

Idle == [pc |-> "idle"]

\* config.json and checkpoint.json are read first.
OpenRun(split) ==
    /\ evaluator = Idle /\ Readable("checkpoint")
    /\ evaluator' = [pc |-> "opened", split |-> split, checkpoint |-> files.checkpoint]
    /\ UNCHANGED <<trainVars, files>>

\* The rest is read and checked, the release once more; anything that differs ends the
\* evaluation.
VerifyRun ==
    /\ evaluator.pc = "opened"
    /\ evaluator' =
         IF /\ evaluator.split = "test" => ~config.smoke
            /\ Accepted(evaluator.checkpoint)
            /\ SameRelease
            /\ files[evaluator.split] = Absent
         THEN [pc |-> "verified", split |-> evaluator.split,
               checkpoint |-> evaluator.checkpoint, manifest |-> disk.manifest]
         ELSE Idle
    /\ UNCHANGED <<trainVars, files>>

\* The same weights may predict otherwise on another machine (here: nothing at all).
RecordEvaluation ==
    /\ evaluator.pc = "verified"
    /\ \E predictions \in {latest.predictions, <<>>} :
         Write(evaluator.split,
               [checkpoint |-> evaluator.checkpoint, state |-> files.state,
                manifest |-> evaluator.manifest,
                predictions |-> IF evaluator.split = "test" THEN Nothing ELSE predictions])
    /\ evaluator' = Idle
    /\ UNCHANGED trainVars

\* The evaluation raises or is killed before its only write, or in the middle of it: what
\* it leaves then keeps any other from being recorded.
AbandonEvaluation ==
    /\ evaluator # Idle /\ evaluator' = Idle
    /\ \/ UNCHANGED files
       \/ evaluator.pc = "verified" /\ Write(evaluator.split, Torn)
    /\ UNCHANGED trainVars

Train ==
    \/ \E c \in Configs : Start(c)
    \/ BeginPass \/ Step \/ SaveState \/ SaveBest \/ SaveCheckpoint
    \/ \E found \in Detections : Seen(found) /\ Record(found)
    \/ WriteSummary \/ LogArtifacts \/ Fail \/ Kill

Evaluate ==
    \/ \E split \in {"validation", "test"} : OpenRun(split)
    \/ VerifyRun \/ RecordEvaluation \/ AbandonEvaluation
-----------------------------------------------------------------------------
(* Properties *)

\* Training is even: however passes are shuffled, cut or interrupted, no view is ever more
\* than one visit ahead of another, no run exceeds its budget, and a run that says it is
\* complete has taken exactly the steps it was configured for (training_schedule; epoch
\* smoke runs keep two views of each pass and are exempt from evenness).
EachViewInTurn == pc # "waiting" =>
    /\ ~config.smoke \/ ByBudget(config) =>
         \A v, w \in DOMAIN trained : trained[v] <= trained[w] + 1
    /\ ByBudget(config) => steps <= config.budget
    /\ Readable("summary") =>
         steps = IF ByBudget(config) THEN config.budget
                 ELSE config.epochs * PassLength(config, Len(views), 0)

\* Tiling loses no defect: once every view was visited, each annotation that fits the
\* overlap of two tiles was shown whole, in one crop, at least once, wherever it lies
\* (starts, windows, crop_annotations together with the schedule).
DefectsShownWhole ==
    \A i \in DOMAIN TrainImages : \A a \in DOMAIN TrainImages[i].annotations :
        LET box == TrainImages[i].annotations[a].box
            fits == \/ config.tile = 0
                    \/ /\ box[3] - box[1] <= config.overlap
                       /\ box[4] - box[2] <= config.overlap
            Shows(v) ==
                LET crop == Crop(TrainImages[i].annotations, views[v].window)
                IN  /\ views[v].image = i
                    /\ \E k \in DOMAIN crop :
                           RestoreBox(crop[k].box, views[v].window) = box
        IN  fits /\ (\A v \in DOMAIN trained : trained[v] > 0)
              => \E v \in DOMAIN trained : trained[v] > 0 /\ Shows(v)

\* What a run that completed leaves behind passes every check made of it later, by code
\* written apart: validate_training recomputes the schedule and the bookkeeping, and
\* match_image and prepare refuse boxes that are empty or leave their image.
CompleteIsAccepted ==
    Readable("summary") =>
        /\ ValidTraining(config, Len(views), files.summary, files.checkpoint, files.history)
        /\ files.checkpoint.state = files.state
        /\ \A i \in DOMAIN files.best.predictions :
             LET p == files.best.predictions[i]
                 image == ValidationImages[p.image]
             IN  /\ HasArea(p.box) /\ p.category \in 1..Classes
                 /\ p.box[1] >= 0 /\ p.box[2] >= 0
                 /\ p.box[3] <= image.width /\ p.box[4] <= image.height

\* An evaluation stands for the weights the policy selects and for no others: whatever the
\* trainer was doing when the evaluation opened the run, a recorded result belongs to the
\* first best epoch, or to the end of the budget, of a run that took all its steps, and
\* the test split is never spent on a smoke run (evaluate, validate_training).
EvaluatedIsSelected ==
    \A split \in {"validation", "test"} : Readable(split) =>
        LET row == files.history[Selected(config, files.history)]
        IN  /\ pass = Len(plan) /\ left = <<>>
            /\ files[split].state = row.last
            /\ files[split].checkpoint.state = row.last
            /\ \A i \in DOMAIN files.history :
                 files.history[i].score # Nothing => files.history[i].score <= row.score
            /\ split = "test" => ~config.smoke

\* No image a result was measured on, nor any that is related to it, was ever trained on:
\* the manifest the evaluation read is the one the run was trained on, and its splits are
\* apart (train, evaluate, verify_release; "Do not reuse the test set").
EvaluatedOnUnseen ==
    \A split \in {"validation", "test"} : Readable(split) =>
        LET measured == SplitOf(files[split].manifest, split)
        IN  \A v \in DOMAIN trained : trained[v] > 0 =>
              \A k \in DOMAIN measured :
                 Unrelated(TrainImages[views[v].image].id, measured[k].id)
=============================================================================
