# PCB Inspector AI: TLA+ models, model checks and proofs

PCB Inspector AI accepts images of circuit boards, queues one inspection per
image, lets workers run a detector on them and shows the report to its owner.
The detector comes out of a second half of the repository: frozen dataset
releases, training runs, reviews of their errors and the evidence kept of them.
This directory models what is hard about both: jobs with leases and retries, an
outbox, an at-least-once queue, heartbeats, uploads that fail half way, a
browser full of late answers; and files that several tools, people and dying
processes read and write. Paths below are relative to the repository;
`pcb_inspector` stands for `src/pcb_inspector`.

Commands, in this directory: `tlc -workers 2 -config X.cfg M` for a run of the
table below, `tlapm X_proofs.tla` for the proofs about module `X`; the longest,
`tlapm Research_proofs.tla`, takes some twelve minutes from nothing.

## 1. Inventory of the system

### The service

| component | source | state | operations | what is hard |
|---|---|---|---|---|
| inspections table and repository | `pcb_inspector/repository.py`, `database.py` | `inspections` (status, attempts, lease token and expiry, available_at, report), `inspection_events` | create, claim, complete, fail, renew, get, history, message_job | the clock is read before each transaction; claim is a SELECT, then an UPDATE; the worker keeps a detached copy of its row; a commit whose acknowledgement is lost |
| polling worker (database queue) | `pcb_inspector/worker.py` | one job at a time, in memory | run_once, process, main loop | dies or stalls with a lease; slower than its lease; fail() after a lost acknowledgement |
| submission outbox and publisher | `pcb_inspector/outbox.py` | `submission_outbox` (published_at, lease, available_at, attempts) | claim, send, finish, redrive | ambiguous sends; lease takeover; redrive while a publisher is at work |
| SQS queue and worker with heartbeat | `queue.py`, `sqs_worker.py` | SQS messages and their receive counts, two threads, two events `lost` and `stopped` | receive, claim by id, pulse, process, acknowledge, delay | duplicates, dead-letter queue, a heartbeat that races the commit and the worker's own fail() |
| upload API and object storage | `api.py`, `storage.py` | objects by key | upload, results, image, ready | object and row are written in two systems |
| storage audit | `storage_audit.py` | none | inventory, audit | reads store and table at different times |
| request guards | `api.py` (body limit), `auth.py`, `images.py` | per request | limit, verify token, validate image | bounds |
| browser session | `frontend/src/auth.ts`, `api.ts`, `AuthGate.tsx` | user, revision, renewal, timer | initialize, accept, refresh, invalidate, login, logout, protectedResponse | sign-out while a renewal or a request is in flight |
| browser polling, images and workspace | `useInspection.ts`, `useInspectionImage.ts`, `App.tsx`, `HistoryPanel.tsx` | selection, job, report, image and its object URL, timers, submit lock | poll, retry, navigate, fetch image, submit, page | answers for an earlier selection; back-off; permanent errors; URLs revoked under the viewer |

### The research side

| component | source | state | operations | what is hard |
|---|---|---|---|---|
| dataset releases and manifests | `scripts/prepare_pcb_defect.py`, `pcb_inspector/datasets.py`, `ml/data.py` (verify_release) | archive, screening, `group-review.json`, the release directory (images, evidence, manifest, release, validation) | review, build, validate, verify_release | builds that die between files; files edited after they were frozen or validated; look-alikes that end up in two splits |
| training and selection | `ml/schedule.py`, `ml/data.py`, `ml/baseline.py` | the run directory: config, history, state, best, validation, checkpoint, summary, failure | train, evaluate | partial last pass; kills between two writes; an evaluation while the run still writes |
| evaluation tooling | `ml/error_analysis.py`, `ml/qualification.py`, `ml/summarize.py` | one output per run | summarize, analyze, audit | two ways to match the same predictions; ties and overlapping labels |
| review ledgers | `ml/adjudication.py` | versioned ledgers of observations and decisions, candidate manifests | import, adjudicate, candidate | decisions that are older than the observations; ledgers that branch; the manifest read twice |
| candidate datasets | `ml/candidate_manifest.py`, `candidate_decisions.py`, `candidate_derive.py`, `candidate_audit.py` | packet of cases, history of batches, derived groups | packet, record, derive | reviewers who differ or change their mind; transitive links |
| inference and decisions | `inference.py`, `research_detector.py` | none | predict, decide | numeric |
| configuration, schemas, metrics, migrations, scripts | `config.py`, `schemas.py`, `observability.py`, `aws.py`, `migrations/`, `scripts/` | none to speak of | start-up checks | - |

How they interact. The browser posts an image; `upload` stores the object, then
`Repository.create` commits row, audit event and (SQS backend) outbox record
together. With the database backend, workers poll the table. With the SQS
backend a publisher turns outbox records into messages and a worker resolves
each message against the table; the table, never the message, decides who may
run and commit a job. The browser polls the row until it is terminal. On the
research side components talk through files: `build` freezes a release,
`validate` reports on it, `train` refuses a release that does not verify and
writes a run, `evaluate`, `summarize`, the error analysis and the audit of
operating points refuse a run, or a release, that is not the one recorded, and
the reviewers' notes on a run's errors become a candidate for the next release.

What makes each correct:

- repository and worker: one owner per lease, only the current owner writes,
  the attempt budget is respected, terminal rows are final, every accepted job
  ends, row and audit trail agree;
- outbox: published implies sent since the last (re)opening, and every event is
  published in the end;
- SQS worker: a message is acknowledged only for a durably completed job, no
  job is lost between table, outbox and queues, a job either ends or its
  messages are in the dead-letter queue;
- upload: a row always has its whole object, a 202 is never wrong, orphans are
  found and uploads in flight are not mistaken for them;
- browser: nothing fetched for a session or a selection that is over is shown,
  and a sign-out is final;
- releases: whatever verifies keeps related images on one side of the split,
  and no result is taken on an image that was trained on;
- training: every view is visited evenly, a finished run can be told from one
  that died, and what is evaluated is what was selected;
- evaluation: two tools that count the same thing agree;
- reviews: no candidate rests on a decision that the reviewers have since
  contested, and no look-alikes are separated without anybody's word.

## 2. The modules

| module | models | state and actions in terms of the code |
|---|---|---|
| `Repository` | `database.py` rows, the statements of `repository.py` and `Outbox.redrive` | no variables: each UPDATE is a predicate (its WHERE) and an operator (its new row): `Eligible`, `Claimed`, `Reaped`, `Fenced`, `Completed`, `Failed`, `Renewed`, `Redriven` |
| `InspectionLifecycle` | what clients are promised | status, attempts, report of each inspection; no leases, clocks or messages |
| `JobQueue` | database backend: `worker.py` over `repository.py` | the table, the audit trail and each worker's locals; `Poll`, `Select`, then `Take`, `Reap` or `LostRace` are claim; `Infer`/`InferRaises` process; `Complete`/`Discard`, `FailJob`/`DropFailure` the two outcomes of complete and fail |
| `Publication` | what the outbox promises | pending, sent |
| `Outbox` | `outbox.py` | rows of submission_outbox and each publisher's locals; `Poll`..`Take` are claim, `Send`/`SendRaises` the call to SQS, `Finish`/`DropFinish` finish, `Redrive` redrive, `Crash` a publisher that comes back and `Stop` one that does not |
| `SqsPipeline` | `sqs_worker.py`, `queue.py`, `worker.py`, `repository.py` | table, abstract outbox (`Publication`'s actions), queue and dead-letter queue, main and heartbeat thread of every worker, the events `lost` and `stopped` |
| `Submission` | `api.py` upload, `storage.py`, `storage_audit.py` | objects, rows, each request's position, the audit's scan |
| `BrowserSession` | `auth.ts`, `api.ts` | user, revision, timer, the library's store, a renewal in flight and each protected request; one action per callback between two awaits, the wait for an answer and the wait for its body among them |
| `Polling` | `useInspection.ts`, `useInspectionImage.ts` and the selection in `App.tsx` | the hooks' states, the selection React rendered, each run of either effect with its abort signal, timer, request or object URL; `Select` renders, `RunEffect` is the cleanups and then the effects, `Serve`/`Deliver` a request and its answer, `ImageArrives` the blob |
| `Schedule` | `ml/schedule.py` | no variables: the passes of a run (`PassLength`, `Shuffled`), and `ValidBudget`, `ValidEpochs` and the like, what a finished run must look like |
| `TileViews` | `ml/data.py` | no variables: windows of an image, the labels a crop keeps, the way back |
| `Matching` | `match_image` of `ml/error_analysis.py`, `ml/qualification.py` | no variables: the two matchings, profiles, frontier and named points; the sweep sorts its rows and at each threshold takes them up to the first that is below (`SweepRows`, `RowsAt`), where the code goes on from the index it had reached |
| `UnionFind` | `find`/`union` of `candidate_manifest.py` and `prepare_pcb_defect.py` | no variables: a forest, `Join`, its groups |
| `Release` | `prepare_pcb_defect.py`, `validate_dataset`, `verify_release` | `group-review.json`, the files of the release, a `build` at work (which review it read, which file is next), a validation at work; `StartBuild`, `CheckFrozen`, `FrozenWrite`, `KillBuild`, `ReadManifest`, `Report`, and the people: `EditReview`, `EditManifest`, `DamageImage` |
| `Training` | `ml/baseline.py` train and evaluate | one action per file written or pass step: `Start`, `BeginPass`, `Step`, `Record`, `SaveState`, `SaveBest`, `SaveCheckpoint`, `WriteSummary`, `LogArtifacts`, `Fail`, `Kill`; an evaluation's reads `OpenRun`, `VerifyRun`, and its end `RecordEvaluation`, `AbandonEvaluation`, which may leave a torn result that no later evaluation replaces; one evaluation is at work at a time |
| `Evidence` | `ml/summarize.py`, `error_analysis.py`, `qualification.py` | composes `Release` and `Training` and adds `Analyze` and `Audit` |
| `ReviewLedger` | `ml/adjudication.py` | a tree of immutable ledger revisions, the manifest, an invocation at work; `Import`, `Adjudicate`, `StartCandidate`, `HashManifest`, `FinishCandidate`, `CrashCandidate`, `EditManifest` |
| `CandidateReview` | `candidate_manifest.py`, `candidate_decisions.py`, `candidate_derive.py`, the pairing of `candidate_audit.py` | inventory, packet, history of batches, derivation; `BuildPacket`, `ImportBatch`, `Derive` |
| `JobQueue_proofs`, `Outbox_proofs`, `SqsPipeline_proofs`, `Submission_proofs`, `BrowserSession_proofs`, `Polling_proofs`, `ReviewLedger_proofs` | theorems about the module of that name | section 5 |
| `Research_proofs` | theorems about `Evidence`, with `Release` and `Training` in it, about `CandidateReview`, and about the operators of `UnionFind`, `Schedule`, `TileViews` and `Matching` below them | section 5 |

`MCx` modules add the instances and symmetry sets. `JobQueue` and `SqsPipeline`
both EXTEND `Repository`, so the two backends run the same statements.
`SqsPipeline` composes with the outbox through `Publication`, which `Outbox` is
shown to implement: its `Create`, `Send`, `Publish` and `Redrive` take
`Publication`'s actions for what the outbox does. `Evidence` is the research
side in one behaviour, from the archive to the operating points: `Schedule`,
`TileViews`, `Matching` and `Release` below `Training`, and `Training` below it.

Granularity. One database statement, one SQS call, one file operation, one read
of a shared flag, one callback between two awaits is one step. A transaction of
one statement and its audit event commits at once. Where the code reads the
clock, a row or a file before the step that uses it, the value is kept in a
variable of the process and may be old by then (`now`, `beatNow`, `held`,
`builder.used`, `checker`, `evaluator`).

Data. Times are natural numbers on one clock, and time passes only while a
deadline lies ahead, so that the state space is finite. A uuid4 is a number
never used before. A report is the number of the attempt that produced it. A
checksum is the content it is taken of; a file is its content, absent or torn.
Weights are the number of optimizer steps that made them. Boxes and images are
small integer geometry, scores are percentages, overlaps are fractions compared
by cross multiplication, and a perceptual hash is the set of its bits. Owner,
sizes, image contents and licenses are left out: no decision of the modelled
code depends on them.

Faults. Crashes, raised errors and lost acknowledgements are actions of their
own, counted by `faults` where they could repeat for ever: they may strike
between any two steps, and a call may raise before or after its effect. A write
that dies may leave a torn file.

"Slip" operators are variants of a definition with a plausible bug; no
specification uses them. Each property has one that breaks it.

## 3. The runs

| run | configuration | bounds | size | what it shows |
|---|---|---|---|---|
| queue | `JobQueue.cfg` | 2 jobs, 2 workers, one of them fair, 2 attempts, 2 rounds of claim, lease 1, 1 fault | 620 thousand states | one owner per lease (`OneOwner`), no stale report, a trail that replays to the row, no early take-over, refinement of `InspectionLifecycle`, `EveryJobEnds` |
| outbox | `Outbox.cfg` | 1 event, 2 publishers, one of them fair, 2 redrives, 2 faults, lease 2 | 227 thousand | one sender per lease, refinement of `Publication`, `EveryEventPublished` |
| sqs_delivery | `SqsDelivery.cfg` | 1 job, 2 messages, 2 workers, 2 attempts, 4 receives, 1 redrive | 2.2 million | one owner per lease, no job lost, lifecycle with redrive |
| sqs_liveness | `SqsLive.cfg` | 1 job, 1 message and 1 poison message, 2 workers with heartbeats, 1 attempt, 1 fault | 295 thousand | acknowledgement only of completed jobs, `EveryJobSettles` |
| submission | `Submission.cfg` | 2 uploads, either store, 2 faults, time 4, grace 2 | 221 thousand | `RowHasObject`, `AnswersAreTrue`, `OrphansReported`, `GraceProtects` |
| browser_session | `Session.cfg` | 2 users, 2 requests, 2 session changes | 69 thousand | an ended session stays ended, nothing is sent for it, nothing is shown that was fetched for somebody else, nothing is kept in the store, expiry is noticed |
| polling | `Polling.cfg` | 2 inspections, 2 changes of them, 2 clicks, 1 failed request | 339 thousand | `ImageIsLive`, `NeverBackward`, `EndIsShown` |
| review_ledger | `ReviewLedger.cfg` | 4 revisions, 1 candidate, 1 edit of the manifest, 1 torn write | 728 thousand | `CandidateIsCurrent`, `CandidateFollowsReview`, `HistoryIsKept` |
| candidate_review | `CandidateReview.cfg` | 3 inventories, 12 batches of which 3 are imported | 72 thousand | `OnlyUncontested`, `GroupsAreComponents`, `NoSilentLeak` |
| evidence | `Evidence.cfg` | 6 images in 4 families, 4 reviews, 2 edits of the manifest; 5 configurations, 11 detections | 40 thousand | `VerifiedIsApart`, `EvaluatedOnUnseen`, `EachViewInTurn`, `DefectsShownWhole`, `CompleteIsAccepted`, `EvaluatedIsSelected`, `ThresholdsAgree`, `NamedPointsAreBest` |
| sqs_commit_after_renewal_failure | `SqsLostCommit.cfg` | 1 worker | | finding 1, a violation |
| sqs_retry_delay_skipped | `SqsRetryDelay.cfg` | 1 worker, no fault | | finding 2, a violation |

Why these bounds are enough.

- Queues. Two workers are needed for every race and suffice for them: a lease
  has one holder and one successor at a time. Two attempts reach a retry, an
  expiry and the exhausted job; lease lengths of one or two ticks let a lease
  run out between any two steps of its holder. Two iterations of claim's loop,
  instead of ten, reach both "lost a race and went on" and "gave up".
  `maxReceiveCount` is at its smallest legal value, `max_attempts + 2`, so the
  dead-letter queue is reached. One or two faults at any point cover each
  single failure and the pairs that matter (a crash after a lost
  acknowledgement). `MaxPulses` bounds the heartbeats of one delivery; each of
  them can meet every phase of the main thread. The SQS model is split in two
  runs because two attempts together with heartbeats and faults are too many
  states to search: sqs_delivery has the attempts, the duplicates and the
  redrive, sqs_liveness the heartbeats, the fault and the poison message.
- `MaxClock` of the outbox and of submission lies above every time the bounded
  faults and redrives can reach, or, in submission, above the grace period.
- Browser. Two clicks are needed to leave an inspection and come back to it,
  which is where dead URLs and late answers meet; two changes take an
  inspection to its end or back to QUEUED.
- Ledgers. Two revisions with one parent and a third on either of them are a
  branch; the fourth is the decision that the other branch does not know of.
- Candidates. A chain of three near matches is the least in which links join
  what was called unrelated; three batches let two reviewers differ and one
  change his mind.
- Evidence. Four families are the least for two holdouts, a rest and one that
  may not be held out because it lacks a class; the reviews make two families
  look alike upright or turned. The configurations cover epochs, a budget with
  a partial last pass, tiles, and the smoke variants; boxes lie at far edges
  and on tile borders; detections tie, compete for one label, and leave the
  image. Edits and builds are explored in full until a run begins; after that
  only edits of the manifest go on, since every other edit makes verify_release
  refuse (`Released`), and a run begins only on a release nobody is at work on
  (`Start`); both bounds are named where they are. `verify_release` reads the manifest twice
  (`ml/data.py:19` for its checksum, `:22` for its contents) and is one step of
  the model. The one edit that its checksums would miss is there before the first
  reading and undone before the second; the bound on `EditManifest`, which undoes
  nothing, leaves that one out.

`CHECK_DEADLOCK FALSE` in the SQS configurations: the system really stops
there, since a worker whose `receive` finds nothing changes nothing, and
messages, faults and redrives are bounded. In `Polling.cfg` polling really ends
once the selected inspection has. In `ReviewLedger.cfg`, `CandidateReview.cfg`
and `Evidence.cfg` the tools are run by hand and a review or a training run has
an end.

Fairness. `main()` in `worker.py` and in `outbox.py` loops for ever and catches
what `run_once` raises, so weak fairness of a running process's own steps is
what the code gives. In queue only one worker is fair, and in outbox only one
publisher; the other may stop anywhere for good, with a lease in hand (in
outbox that is `Stop`). Time passes (`WF(Tick)`). In outbox a publisher that
goes on answers within its lease unless a fault strikes, because `aws.py`
bounds the SDK's calls (3 attempts of at most 28 s) and the default lease is
120 s; a send that outlasts its lease is a fault of its own. With the smallest
lease `config.py` accepts, 30 s, that margin is gone and the liveness argument
does not apply. In sqs_liveness weak fairness of the abstract publisher is
`EveryEventPublished` of `Outbox`, and SQS delivers and quarantines. In
browser_session and polling the browser fires timers, React runs a pending
effect, and every request is answered or fails (`AbortSignal.timeout` in
`api.ts`); nothing is assumed of the user. No fairness is assumed of
submissions, faults, redrives, the success of an inference, or of anything on
the research side, whose runs check safety only: a run that is killed is not
resumed.

### Findings

1. `docs/cloud-integrations.md:18` says that a renewal failure prevents the
   worker from committing an unfinished result. `process()` asks `can_commit()`
   and then calls `complete()` (`worker.py:94`); a renewal that fails between
   the two sets `lost` and the result is committed. The database fence still
   admits only one writer (`OneOwner`), so what breaks is the sentence, not the
   data.
2. `docs/cloud-integrations.md:22` says that retriable failures apply the
   database's retry delay. If the heartbeat fires after the worker's own
   `fail()` and before `close()`, it finds the job QUEUED, takes that for a lost
   lease and sets `lost`; `run_once` then skips the delay (`sqs_worker.py:92`)
   and the message comes back after the ordinary visibility timeout. No fault
   is needed. The job is not lost: claim still honours `available_at`.

## 4. Properties and hazards

`PROJECT.json` lists the hazards at their lines with the properties aimed at
them. What the less obvious properties say:

- `ImplementsLifecycle`: over all interleavings and faults the row behaves as
  clients are told: attempts within the budget, only the current attempt
  publishes, failure only after the whole budget, terminal rows final.
- `EveryEventPublished`: every event owed is published in the end, also when the
  publisher that holds its lease, before or after its send, never comes back.
- `ShownIsOwn`: what the workspace shows came with a token of the person who is
  signed in. `protectedResponse` compares the revision when the headers are
  there (`api.ts:45`), and then the body is awaited (`api.ts:64`, or `blob()`):
  a session that ends in that await is not noticed again. What saves the screen
  is that invalidate unmounts the workspace for good (`unmounted`: a page has
  one session), and that a renewal for another subject is refused. Data is
  labelled with the subject of its request's token, not of the session it
  arrives in.
- `CandidateFollowsReview`: on the reviewed board a candidate differs from the
  release by its ledger's decisions only. Elsewhere in the file it differs only
  if somebody edited the manifest between its hash (`adjudication.py:509`) and
  its second reading (`:511`). In that window an edit of other boards or splits
  does reach `candidate-manifest.json`, beside a `corrections.json` that gives
  the hash from before it and says `test_split_changed: False` (`:526`). The
  property names that window (`raced`) and excludes every other way.
- `VerifiedIsApart`: whenever verify_release would accept the directory, images
  of different splits are of different families, do not look alike, or were
  called different layouts in the review the groups were made from, and every
  split has every class; whatever builds died before and whoever edited what.
- `EvaluatedOnUnseen`: no image an evaluation was recorded on is, or is related
  to, one the run trained on, though the manifest may be edited between the two.
- `EvaluatedIsSelected`: a recorded evaluation is of the first best epoch, or of
  the end of the budget, of a run that took all its steps, whatever the trainer
  was doing when the evaluation opened its files; no smoke run is tested.
- `CompleteIsAccepted`: what a completed run leaves behind passes the checks
  that other tools, written apart, make of its bookkeeping and its boxes.
- `EachViewInTurn`: no view is ever two visits ahead of another, across passes
  that are shuffled and cut.
- `ThresholdsAgree`: `qualification.py` matches once and cuts by threshold,
  `error_analysis.py` matches anew for each threshold; their counts agree, also
  with equal scores and overlapping labels.
- `CandidateIsCurrent`: in no branch of the ledger does a candidate rest on a
  decision older than an observation of its case.
- `NoSilentLeak`: images alike across splits are in one group, in a blocked
  case, or a reviewer said they are unrelated.

One hazard is listed without a property: `build` reads `group-review.json` for
its decisions (`prepare_pcb_defect.py:192`) and once more for its checksum
(line 292), so an edit in between is recorded as if the groups followed it. The
model has both readings; the properties are about the review that was used. Of
the review that is recorded, "No candidate can cross splits without a recorded
different-layout decision" (`data/releases/pcb-defect-v1/README.md:52`) does not
hold after such an edit: a build that read "different_layout" for a pair may put
it into different splits and then record a review that says "merge", and the
release verifies. `VerifiedIsApart` does not claim that sentence.

## 5. What is proved

Every theorem holds for all values of the constants that their assumptions
allow: any number of jobs, workers, users, requests, attempts and faults, any
lease length, delay and grace period. Each module of proofs goes the same way:
`IInv` is an inductive invariant, which TLC checked on the module's instance
before it was proved; one lemma per action or family of actions shows that the
action keeps it; `Invariance` is `Spec => []IInv` and `TypeCorrect` its type
part; the theorems about the runs' properties follow from `Invariance`, an
action property or a refinement by cases over the steps. On the research side
the inductive invariants are `CandidateInv` and `RunInv`, which name the types
of what they need. Every safety invariant that a run checks is proved.

| module | theorem | property | rests on |
|---|---|---|---|
| `JobQueue` | `Ownership` | `OneOwner` | `TokensSpent`, `TokensUnique` |
| | `CopiesCurrent`, `Budgets` | `CopyIsCurrent`, `BudgetRespected` | `LeaseShape` |
| | `Reports` | `ReportIsCurrent` | `CopyIsCurrent` |
| | `Trail` | `TrailReplays` | `AttemptsAppended`, `ReplaysOn` |
| | `TerminalForEver` | `TerminalIsFinal` | `LeaseShape` |
| | `ClaimsNeverEarly` | `NeverEarly` | `NowIsPast` |
| | `Refinement` | `ImplementsLifecycle` | `StepsOnTables`, `StepRefines` |
| `Outbox` | `SingleSender` | `OneSender` | `TokensSpent`, `TokensUnique` |
| | `Refinement` | `ImplementsPublication` | `SenderSent` |
| `SqsPipeline` | `Ownership` | `OneOwner` | `RowInv` |
| | `Acknowledged` | `AckOnlyCompleted` | `AckReady` |
| | `JobsKept` | `NothingLost` | `OwedOrSent`, `SentHasCopy` |
| | `Refinement` | `ImplementsLifecycle` | `RowInv` |
| `Submission` | `RowsHaveObjects`, `Answers` | `RowHasObject`, `AnswersAreTrue` | `PositionsMatch` |
| | `Complete` | `OrphansReported` | `DueIsAhead` |
| | `Grace` | `GraceProtects` | `ListedAreOld` |
| `BrowserSession` | `NoRevival`, `OwnDataOnly` | `EndedForGood`, `ShownIsOwn` | `Starting`, `RenewalSeen`, `RequestsSeen` |
| | `StoreLeftEmpty` | `NothingKept` | `StoreEmptied` |
| | `SentInTime` | `SentInSession` | `Live`, `RequestsSeen` |
| `Polling` | `LiveImage` | `ImageIsLive` | `OnePictureSpeaks`, `ImageSelected` |
| | `OnlyForward` | `NeverBackward` | `OneRunSpeaks`, `AnswersAreNewer` |
| `ReviewLedger` | `HistoryKept` | `HistoryIsKept` | `TreeOK` |
| | `Current` | `CandidateIsCurrent` | `CasesSettled` |
| | `FollowsReview` | `CandidateFollowsReview` | `CandidatesDerived`, `CasesValid` |
| `CandidateReview` | `Uncontested` | `OnlyUncontested` | `TimesRise`, `Recorded` |
| | `GroupsConnected` | `GroupsAreComponents` | `ForestConnects`, `SettledLinks` |
| | `LeaksNamed` | `NoSilentLeak` | both |
| `Release` | `SplitsApart` | `VerifiedIsApart` | `ReleaseInv`, `MergedTogether` |
| `Training` | `UnseenImages` | `EvaluatedOnUnseen` | `TrainingData`, `UnseenInv` |
| | `EvenTraining` | `EachViewInTurn` | `TurnInv`, `PlanInTurn` |
| | `DefectsShown` | `DefectsShownWhole` | `WindowsCover`, `CropShows` |
| | `CompleteRuns` | `CompleteIsAccepted` | `HistoryInv`, `RowsInv`, `MarkInv` |
| | `SelectedWeights` | `EvaluatedIsSelected` | `HistoryInv`, `SelectInv` |
| `Evidence` | `OneMatching` | `ThresholdsAgree` | `BestInv`, `AuditInv`, `MatchingCut` |
| | `BestPoints` | `NamedPointsAreBest` | the same, `NextThreshold`, `PreferredExists` |

Why the properties are not inductive, and what makes them so:

- `JobQueue`. `OneOwner` alone is not: a worker could hold a token that some
  later claim will hand out. It takes `TokensSpent` (tokens in use are below
  `nextToken`, the model of a fresh uuid4), `TokensUnique` (no two workers hold
  the same token), `LeaseShape` (a token is in the row exactly while it is
  PROCESSING) and `LocalsMatch` (a worker has a job exactly inside process()).
  `CopyIsCurrent` then says that the worker whose token is in the row made the
  last claim, so the attempt number it carries is the row's; budgets, reports
  and the branch fail() takes follow from that copy. `StepsOnTables` sorts the
  steps by what they do to the table: nothing, or one of five ways to write one
  row and its event. `TerminalForEver`, `ClaimsNeverEarly`, `Trail` and
  `Refinement` are proved by those five cases. A reading of the clock is never
  ahead of it (`NowIsPast`), so what was eligible then is eligible now. `Trail`
  needs no induction over the trail: `AttemptsAppended` says what one more
  event does to the number of attempts counted in it.
- `Outbox`. The tokens play the same part. For the refinement the publisher
  that still owns a row must have sent since the event was last opened
  (`SenderSent`): redrive takes the token out of the row, so one that sent
  before a redrive owns nothing and cannot finish.
- `SqsPipeline`. `RowInv` is the invariant of `JobQueue` over the same
  statements, with renewals and redrives, which may put a FAILED job back but
  never a COMPLETED one. `LocalsMatch` ties both threads of a worker to its
  message and its job. A job that was sent and is not COMPLETED has a copy in
  the queue or the dead-letter queue (`SentHasCopy`), since only an
  acknowledgement takes copies away and a worker that is about to acknowledge
  has seen the job COMPLETED (`AckReady`), a status that no step leaves.
- `Submission`. What a request's position says of its object and its row
  (`PositionsMatch`) gives the answers. For the audit: an object it ought to
  report belongs to a request that is over, so nothing but the operator touches
  it, and it is still unread, being looked up, or listed (`DueIsAhead`).
- `BrowserSession`. A page has one session at most, the one before its first
  invalidate: whatever waits began in it and remembers revision 0. That makes
  the comparison with `revision` decide whether the session is over. A body is
  awaited without one: for it, `TokensOwned` says that any token a request
  carries into a session that is open is of that session and its subject, and
  `Unmounted` that a page whose session ended shows nothing any more.
- `Polling`. Only the run whose cleanup has not been called may set a state.
  So between the service's answer and its display nothing else is shown, and
  what was shown before is no newer than the answer (`AnswersAreNewer`). The
  image hook's URL, if any, is the one its own run holds (`ImageSelected`).
- `ReviewLedger`. Revisions are never changed, so what is said of one is shown
  once, when it is written, from its parent (`Follows`). `Ancestry` is defined
  as what every set that has the revision and is closed under parents has,
  so that statements about a branch need no recursion. If the last decision of
  a case counted all its observations, every observation on the way was followed
  by a decision (`CasesSettled`). An invocation that has compared the hash and
  met no edit since still sees the frozen manifest (`HashHolds`), which carries
  the boards other than the reviewed one into the candidate unchanged.

- `CandidateReview`. The properties quantify over what reviewers said last by
  the times of their batches, the code goes by the order of imports. The two
  agree because a batch is imported only when it is later than its reviewer's
  earlier ones on the same case (`TimesRise`). `CandidateInv` adds that the
  packet holds the whole catalogue and that answers fit their cases.
  `JoinsOneByOne` says of any sequence of joins that it puts the ends of every
  link into one class and keeps apart whatever no link connects; so the forest
  is made of the components of its links in whatever order they come, first
  when the packet is built and again when the answers settle it.
- `Release`. A manifest is trusted if the report beside it says that it is
  clean. It also has to be the one that was built from some version of the
  reviews, through builds that died and an edited file (`ReleaseInv`): the
  report, the release file and the manifest each carry what they were made of.
- `Training`. `RunInv` has ten parts. `TrainingData`: samples, views and plan
  are those of the manifest verified at the start. `TurnInv`: in pass p, what
  is left of the pass has p - 1 visits and the rest p (`Visits`), where passes
  may be cut by the budget. `HistoryInv` and `RowsInv`: one row per pass, and
  what it says is what `validate_training` computes anew. `MarkInv`: between
  two passes, state, best, checkpoint and history belong together, so that a
  kill leaves files that are consistent or unreadable, and a summary appears
  only beside files that pass. `UnseenInv`, `SelectInv`: an evaluator's copies
  are those of the finished run, since whatever it opened before it refused.
- `Evidence`. Matching takes predictions in descending score and never revises
  a match, so the matching at a threshold is the beginning of the matching
  without one (`MatchingCut`); cutting commutes with counting (`HitsCounted`).
  A threshold between two scores retains what the next score does
  (`NextThreshold`), so the best point among the scores is the best of all. The
  theorem states that for every per cent, where the run has eight thresholds.

Recursion without induction over data. The proofs about the research side are
about what recursive functions compute: roots, passes, windows, orders by
score, matchings. `LeastOf` draws from `WFMin` that a set of naturals has a
least member; with it `RecursionExists` shows that a recursion over 0..n has a
solution, and a statement about all its values is proved from a least
counterexample (`UpTo` is the form without one). The models write their loops
as such functions (`JoinAll`, `Settled`, `Ascending`, `MatchImage`,
`NonMaximum`) and take sums as cardinalities of sets of pairs (`Counts`).

Assumptions: those on the constants, named in the modules. They mirror
`config.py` (`max_attempts > 0`, `lease_seconds > 0`, `retry_delay_seconds >= 0`
and the like) or say that a value standing for "nothing" is not one of the
things it is compared with (`NoJobAssumption`, `PollingAssumption`, that
`NoLabel` is not a reviewed label). `ExportAssumption` of `ReviewLedger` says
that a notes file has notes on the board's subjects only, which
`validate_note` enforces. On the research side: `ReleaseAssumption` says that the
annotations of the archive, which is pinned by its checksum, lie inside their
images (validate_dataset reports the others as out of bounds and verify_release
refuses such a release) and that families are numbers, as their file names are;
`ConfigAssumption` is what the argument parser of `baseline.py` and
`training_schedule` let through: epochs or steps and an overlap below the tile;
`DetectionAssumption`: the detector returns boxes of four numbers, labels that
are numbers and scores between 0 and 1, in per cent, anything else being
refused or raised; `CandidateAssumption` numbers the images and lets times be
compared; `NothingAssumption` and `HistoryAssumption` keep an absent value
apart from the numbers and lists it stands for.

Proved and not in a configuration: the `IInv` and `TypeOK` of each module,
`CandidateInv` and `RunInv`, `CopyIsCurrent`, `BudgetRespected` and
`TerminalIsFinal`; and of the operators, for all arguments: `ForestConnects`,
`PlanInTurn`, `WindowsCover`, `MatchingCut` and `NextThreshold`. TLC evaluated
`CandidateInv` and all parts of `RunInv` on the instances of the candidate_review
and evidence runs before they were proved.

Only model-checked:

- liveness (`EveryJobEnds`, `EveryEventPublished`, `EveryJobSettles`,
  `ExpiryNoticed`, `EndIsShown`): fairness and ENABLED are out of the prover's
  reach;
- the two violations, which are behaviours and need no proof.

What the proofs do not say: that the detector, pycocotools or torchvision
compute what the models take of them. The average precision that selects an
epoch is an order on results (`Score`). `random.shuffle` is the constant
`RandomOrder`, of which nothing is assumed but that it yields each view once
(`IsOrder`; an order that does not counts as the unshuffled list): the theorems
hold for every such shuffle, the evidence run takes a rotation by the seed.

## 6. State of the project

Modelled, checked and proved: the service (`Repository`, `JobQueue`, `Outbox`,
`SqsPipeline`, `Submission`), the browser (`BrowserSession`, `Polling`) and the
research side (`Release`, `Training`, `Evidence`, `ReviewLedger`,
`CandidateReview` and the algorithms below them). What would come next:

1. The dataset runner `research_dsp.py` and `probe.py`, which call `train` and
   `evaluate` in turn and keep files of their own.
2. One statement of the safety of both queue backends: `RowInv` of
   `SqsPipeline_proofs` and `IInv` of `JobQueue` agree but for renewals and
   redrives, and so do the lemmas on the statements of the repository that both
   modules of proofs begin with.

## 7. What is not modelled

- Numeric inference, the optimizer and image decoding: floating point in
  external libraries. Training takes their results from a set.
- Request guards: token signatures, body limit and image checks have no state
  beyond one request. Configuration: its bounds are the ASSUMEs.
- Rendering, `ImageViewer`, `ReportPanel`; `HistoryPanel`'s paging effect,
  which has the shape of the polling effect and keeps nothing else; the submit
  lock and previews of `App.tsx`; in `Polling` the unmounting of the workspace, whose
  cleanups are those of leaving an inspection (`BrowserSession` has it as
  `unmounted`). An answer to an upload that comes after its workspace is gone
  may still change the address bar.
- Database migrations (run once, before anything else), logging and metrics.
- On the research side: the DsPCBSD+ runner `research_dsp.py` and its error
  report, the download of weights, `probe.py`, the HTML packages of `review.py`
  and `candidate_viewer.py`, the archive readers of `candidate_audit.py` and
  `audit_dataset_archives.py`, `grouped_split`, which nothing calls, and the
  format, license and path checks of every file reader.
- `scripts/dev.py` and other operator scripts: they start processes and keep no
  state of the system.

SQS, the object stores and people are external and modelled by what the code
may rely on: SQS may deliver a message again, late and out of order, even after
its deletion, until it has been received too often.
