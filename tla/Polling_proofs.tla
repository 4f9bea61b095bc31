---------------------------- MODULE Polling_proofs ----------------------------
(***************************************************************************)
(* Theorems about Polling for any number of inspections, of runs of its    *)
(* effects, of clicks and of errors.                                       *)
(*                                                                         *)
(* The argument: only the run whose cleanup has not been called may set a  *)
(* state (OneRunSpeaks, OnePictureSpeaks), so nothing is shown between the *)
(* moment the service answers it and the moment that answer is shown, and  *)
(* what was shown before is no newer than the answer (AnswersAreNewer).    *)
(***************************************************************************)
EXTENDS Polling, TLAPS

-----------------------------------------------------------------------------
(* The inductive invariant *)

\* A run that waits has an inspection; the ones but `current` were aborted.
OneRunSpeaks ==
    \A r \in Runs :
        /\ run[r].at = "idle" => run[r].answer = None
        /\ run[r].at # "idle" => run[r].id # None
        /\ run[r].at = "report" => run[r].answer # None
        /\ run[r].at # "idle" /\ ~ run[r].aborted => r = current

\* What is shown the service has said, and not after what a run has yet to show.
AnswersAreNewer ==
    /\ state.job # None =>
          /\ state.id # None
          /\ state.job.changes <= service[state.id].changes
    /\ \A r \in Runs : run[r].answer # None =>
          /\ run[r].answer.changes <= service[run[r].id].changes
          /\ ~ run[r].aborted /\ state.job # None /\ state.id = run[r].id =>
                state.job.changes <= run[r].answer.changes

\* Only the picture whose cleanup has not been called may arrive, or has a URL.
OnePictureSpeaks ==
    \A k \in 0 .. MaxClicks :
        picture[k].at = "held" \/ (picture[k].at = "fetching" /\ ~ picture[k].aborted)
            => k = fetching

\* The image hook's state is the selected inspection's, and its URL is alive.
ImageSelected ==
    /\ image.id = selected
    /\ image.url # None =>
          image.url = fetching /\ picture[fetching].at = "held" /\ picture[fetching].id = selected

PollInv  == OneRunSpeaks /\ AnswersAreNewer
ImageInv == OnePictureSpeaks /\ ImageSelected

IInv == TypeOK /\ PollInv /\ ImageInv

LEMMA InitInv == Init => IInv
<1> SUFFICES ASSUME Init PROVE IInv
  OBVIOUS
<1>1. 0 \in Nat /\ 0 \in 0 .. MaxClicks /\ 0 \in 0 .. MaxErrors
  BY PollingAssumption
<1>2. service \in [Inspections -> Job] /\ selected \in Inspections \cup {None}
  BY <1>1 DEF Init, Job, Active
<1>3. state \in States /\ run \in [Runs -> RunStates]
  BY DEF Init, Empty, Idle, States, RunStates
<1>4. image \in Images /\ picture \in [0 .. MaxClicks -> Pictures]
  BY <1>2 DEF Init, Blank, NoPicture, Images, Pictures
<1>5. TypeOK
  BY <1>1, <1>2, <1>3, <1>4 DEF Init, TypeOK
<1>6. PollInv
  BY DEF Init, Empty, Idle, PollInv, OneRunSpeaks, AnswersAreNewer
<1>7. ImageInv
  BY DEF Init, Blank, NoPicture, ImageInv, OnePictureSpeaks, ImageSelected
<1> QED
  BY <1>5, <1>6, <1>7 DEF IInv

-----------------------------------------------------------------------------
(* What several steps have in common *)

LEMMA PollSame ==
    ASSUME PollInv, UNCHANGED polled
    PROVE  PollInv'
BY DEF PollInv, OneRunSpeaks, AnswersAreNewer, polled

LEMMA ImageSame ==
    ASSUME ImageInv, UNCHANGED <<selected, imaged>>
    PROVE  ImageInv'
BY DEF ImageInv, OnePictureSpeaks, ImageSelected, imaged

\* One run moves; if it sets the state, it is the current one.
LEMMA RunMoves ==
    ASSUME TypeOK, PollInv, NEW r \in Runs, NEW x, run' = [run EXCEPT ![r] = x],
           UNCHANGED <<service, current>>,
           x.at = "idle" => x.answer = None,
           x.at # "idle" => x.id # None,
           x.at = "report" => x.answer # None,
           x.at # "idle" /\ ~ x.aborted => r = current,
           x.answer # None =>
              /\ x.answer.changes <= service[x.id].changes
              /\ ~ x.aborted /\ state'.job # None /\ state'.id = x.id =>
                    state'.job.changes <= x.answer.changes,
           \/ state' = state
           \/ /\ r = current
              /\ state'.job # None =>
                    /\ state'.id # None
                    /\ state'.job.changes <= service[state'.id].changes
    PROVE  PollInv'
<1>1. run'[r] = x /\ \A q \in Runs \ {r} : run'[q] = run[q]
  BY DEF TypeOK
<1>2. \A q \in Runs : run[q].answer # None /\ ~ run[q].aborted => q = current
  BY DEF PollInv, OneRunSpeaks
<1>3. OneRunSpeaks'
  BY <1>1 DEF PollInv, OneRunSpeaks
<1>4. ASSUME state' = state
      PROVE  AnswersAreNewer'
  BY <1>1, <1>4 DEF PollInv, AnswersAreNewer
<1>5. ASSUME r = current,
             state'.job # None =>
                /\ state'.id # None
                /\ state'.job.changes <= service[state'.id].changes
      PROVE  AnswersAreNewer'
  <2>1. ASSUME NEW q \in Runs, run'[q].answer # None
        PROVE  /\ run'[q].answer.changes <= service'[run'[q].id].changes
               /\ ~ run'[q].aborted /\ state'.job # None /\ state'.id = run'[q].id =>
                     state'.job.changes <= run'[q].answer.changes
    <3>1. CASE q = r
      BY <1>1, <2>1, <3>1
    <3>2. CASE q # r
      <4>1. run'[q] = run[q] /\ run[q].aborted
        BY <1>1, <1>2, <1>5, <2>1, <3>2
      <4> QED
        BY <2>1, <4>1 DEF PollInv, AnswersAreNewer
    <3> QED
      BY <3>1, <3>2
  <2> QED
    BY <1>5, <2>1 DEF AnswersAreNewer
<1> QED
  BY <1>3, <1>4, <1>5 DEF PollInv

\* A run that waits, of an inspection.
LEMMA Waiting ==
    ASSUME TypeOK, PollInv, NEW r \in Runs, run[r].at # "idle"
    PROVE  /\ run[r].id \in Inspections /\ run[r].id # None
           /\ run[r].answer # None => run[r].answer \in Job
           /\ service[run[r].id] \in Job
           /\ run[r].aborted \in BOOLEAN
           /\ ~ run[r].aborted => r = current
BY PollingAssumption DEF TypeOK, RunStates, PollInv, OneRunSpeaks

-----------------------------------------------------------------------------
(* The service and the user *)

LEMMA ChangeInv ==
    ASSUME IInv, NEW i \in Inspections, Change(i)
    PROVE  IInv'
<1> USE DEF IInv, Change
<1>1. PICK next \in {"QUEUED", "PROCESSING"} \cup Terminal :
        service' = [service EXCEPT ![i] = [status |-> next, changes |-> @.changes + 1]]
  BY DEF TypeOK, Job, Active
<1>2. service[i] \in Job /\ service[i].changes \in Nat
  BY DEF TypeOK, Job
<1>3. [status |-> next, changes |-> service[i].changes + 1] \in Job
  BY <1>2 DEF Job, Active
<1>4. service' \in [Inspections -> Job]
  BY <1>1, <1>3 DEF TypeOK
<1>5. \A j \in Inspections : service[j].changes <= service'[j].changes
  BY <1>1, <1>2 DEF TypeOK, Job
<1>6. TypeOK'
  BY <1>4 DEF TypeOK, imaged
<1>7. OneRunSpeaks'
  BY DEF PollInv, OneRunSpeaks
<1>8. AnswersAreNewer'
  <2>1. ASSUME state.job # None
        PROVE  state.job.changes <= service'[state.id].changes
    <3>1. /\ state.id \in Inspections /\ state.job \in Job
          /\ state.job.changes <= service[state.id].changes
      BY <2>1 DEF TypeOK, States, PollInv, AnswersAreNewer
    <3>2. /\ state.job.changes \in Nat /\ service[state.id].changes \in Nat
          /\ service'[state.id].changes \in Nat
      BY <1>4, <3>1 DEF TypeOK, Job
    <3> QED
      BY <1>5, <3>1, <3>2
  <2>2. ASSUME NEW r \in Runs, run[r].answer # None
        PROVE  run[r].answer.changes <= service'[run[r].id].changes
    <3>1. /\ run[r].id \in Inspections /\ run[r].answer \in Job
          /\ run[r].answer.changes <= service[run[r].id].changes
      BY <2>2, Waiting DEF PollInv, OneRunSpeaks, AnswersAreNewer
    <3>2. /\ run[r].answer.changes \in Nat /\ service[run[r].id].changes \in Nat
          /\ service'[run[r].id].changes \in Nat
      BY <1>4, <3>1 DEF TypeOK, Job
    <3> QED
      BY <1>5, <3>1, <3>2
  <2> QED
    BY <2>1, <2>2 DEF PollInv, AnswersAreNewer
<1> QED
  BY <1>6, <1>7, <1>8, ImageSame DEF PollInv

LEMMA SelectInv ==
    ASSUME IInv, NEW i \in Inspections \cup {None}, Select(i)
    PROVE  IInv'
<1> USE DEF IInv, Select, Click
<1>1. Blank(i) \in Images /\ Blank(i).id = i /\ Blank(i).url = None
  BY DEF Blank, Images
<1>2. clicks' \in 0 .. MaxClicks
  BY PollingAssumption DEF TypeOK
<1>3. TypeOK'
  BY <1>1, <1>2 DEF TypeOK, polled
<1>4. ImageInv'
  BY <1>1 DEF ImageInv, OnePictureSpeaks, ImageSelected
<1> QED
  BY <1>3, <1>4, PollSame

LEMMA RetryInv ==
    ASSUME IInv, Retry
    PROVE  IInv'
<1> USE DEF IInv, Retry, Click
<1>1. clicks' \in 0 .. MaxClicks
  BY PollingAssumption DEF TypeOK
<1>2. TypeOK'
  BY <1>1 DEF TypeOK, polled, imaged
<1> QED
  BY <1>2, PollSame, ImageSame

-----------------------------------------------------------------------------
(* poll() *)

\* The types that such a step leaves to show.
LEMMA PollTypes ==
    ASSUME TypeOK, NEW r \in Runs, NEW x \in RunStates, run' = [run EXCEPT ![r] = x],
           state' \in States, errors' \in 0 .. MaxErrors,
           UNCHANGED <<service, selected, stale, current, imaged, clicks>>
    PROVE  TypeOK'
<1>1. run' \in [Runs -> RunStates]
  BY DEF TypeOK
<1> QED
  BY <1>1 DEF TypeOK, imaged

LEMMA ServeInv ==
    ASSUME IInv, NEW r \in Runs, Serve(r)
    PROVE  IInv'
<1> USE DEF IInv
<1> DEFINE x == [run[r] EXCEPT !.answer = service[run[r].id]]
<1>1. run[r] \in RunStates /\ service[run[r].id] \in Job /\ service[run[r].id] # None
  BY Waiting, PollingAssumption DEF Serve, TypeOK
<1>2. /\ x \in RunStates /\ x.answer = service[run[r].id]
      /\ x.at = run[r].at /\ x.id = run[r].id /\ x.aborted = run[r].aborted
  BY <1>1 DEF RunStates
<1>3. run' = [run EXCEPT ![r] = x] /\ state' = state
  BY DEF Serve
<1>4. x.id # None /\ (~ x.aborted => r = current)
  BY <1>2, Waiting DEF Serve
<1>5. state.job # None /\ state.id = x.id => state.job.changes <= x.answer.changes
  BY <1>2 DEF PollInv, AnswersAreNewer
<1>6. x.answer.changes <= service[x.id].changes
  BY <1>1, <1>2 DEF Job
<1>7. x.at = "inspection"
  BY <1>2 DEF Serve
<1> HIDE DEF x
<1>8. PollInv'
  BY <1>3, <1>4, <1>5, <1>6, <1>7, RunMoves DEF Serve
<1>9. TypeOK'
  BY <1>2, <1>3, PollTypes DEF Serve, TypeOK
<1> QED
  BY <1>8, <1>9, ImageSame DEF Serve

\* A run shows its answer, with or without the report, and goes on or ends.
LEMMA ShowingStep ==
    ASSUME IInv, NEW r \in Runs, run[r].at # "idle", ~ run[r].aborted,
           run[r].answer # None, NEW report \in BOOLEAN,
           state' = Shown(run[r].id, run[r].answer, report),
           NEW x \in RunStates, run' = [run EXCEPT ![r] = x],
           \/ x = Idle
           \/ /\ x.id = run[r].id /\ ~ x.aborted
              /\ \/ x.at = "report" /\ x.answer = run[r].answer
                 \/ x.at = "timer" /\ x.answer = None,
           UNCHANGED <<service, selected, stale, current, imaged, clicks, errors>>
    PROVE  IInv'
<1> USE DEF IInv
<1>1. /\ run[r].id \in Inspections /\ run[r].id # None /\ r = current
      /\ run[r].answer \in Job /\ run[r].answer.changes <= service[run[r].id].changes
  BY Waiting DEF PollInv, AnswersAreNewer
<1>2. state' \in States /\ state'.id = run[r].id /\ state'.job = run[r].answer
  BY <1>1 DEF Shown, States
<1>3. run[r].answer.changes <= run[r].answer.changes
  BY <1>1 DEF Job
<1>4. PollInv'
  BY <1>1, <1>2, <1>3, RunMoves DEF Idle
<1>5. errors' \in 0 .. MaxErrors
  BY DEF TypeOK
<1>6. TypeOK'
  BY <1>2, <1>5, PollTypes
<1> QED
  BY <1>4, <1>6, ImageSame

LEMMA DeliverInv ==
    ASSUME IInv, NEW r \in Runs, Deliver(r) \/ DeliverReport(r)
    PROVE  IInv'
<1>1. run[r] \in RunStates /\ Idle \in RunStates
  BY DEF IInv, TypeOK, RunStates, Idle
<1> DEFINE waiting == [run[r] EXCEPT !.at = "report", !.answer = run[r].answer]
           timer   == [run[r] EXCEPT !.at = "timer", !.answer = None]
<1>2. /\ waiting \in RunStates /\ waiting.id = run[r].id /\ waiting.at = "report"
      /\ waiting.answer = run[r].answer /\ waiting.aborted = run[r].aborted
      /\ timer \in RunStates /\ timer.id = run[r].id /\ timer.at = "timer"
      /\ timer.answer = None /\ timer.aborted = run[r].aborted
  BY <1>1 DEF RunStates
<1>3. CASE Deliver(r)
  <2>1. \/ run' = [run EXCEPT ![r] = waiting]
        \/ run' = [run EXCEPT ![r] = Idle]
        \/ run' = [run EXCEPT ![r] = timer]
    <3>1. CASE run[r].answer.status = "COMPLETED"
      BY <1>3, <3>1 DEF Deliver, ShowAnswer, Wait
    <3>2. CASE run[r].answer.status = "FAILED"
      BY <1>3, <3>2 DEF Deliver, ShowAnswer, End
    <3>3. CASE run[r].answer.status \notin {"COMPLETED", "FAILED"}
      BY <1>3, <3>3 DEF Deliver, ShowAnswer, Wait
    <3> QED
      BY <3>1, <3>2, <3>3
  <2>2. /\ run[r].at = "inspection" /\ run[r].answer # None /\ ~ run[r].aborted
        /\ state' = Shown(run[r].id, run[r].answer, FALSE)
        /\ UNCHANGED <<service, selected, stale, current, imaged, clicks, errors>>
    BY <1>3 DEF Deliver, ShowAnswer
  <2> HIDE DEF waiting, timer
  <2> QED
    BY <1>1, <1>2, <2>1, <2>2, ShowingStep
<1>4. CASE DeliverReport(r)
  <2>1. run[r].at = "report" /\ run[r].answer # None
    BY <1>4 DEF DeliverReport, IInv, PollInv, OneRunSpeaks
  <2> QED
    BY <1>1, <1>4, <2>1, ShowingStep DEF DeliverReport, End
<1> QED
  BY <1>3, <1>4

\* An aborted run ends, a timer fires.
LEMMA QuietRunInv ==
    ASSUME IInv, NEW r \in Runs, Dropped(r) \/ Fire(r)
    PROVE  IInv'
<1> USE DEF IInv
<1> DEFINE asking == [run[r] EXCEPT !.at = "inspection", !.answer = None]
<1>1. run[r] \in RunStates /\ Idle \in RunStates
  BY DEF TypeOK, RunStates, Idle
<1>2. /\ asking \in RunStates /\ asking.id = run[r].id /\ asking.at = "inspection"
      /\ asking.answer = None /\ asking.aborted = run[r].aborted
  BY <1>1 DEF RunStates
<1> HIDE DEF asking
<1>3. CASE Dropped(r)
  <2>1. PollInv'
    BY <1>3, RunMoves DEF Dropped, End, Idle
  <2>2. TypeOK'
    BY <1>1, <1>3, PollTypes DEF Dropped, End, TypeOK
  <2> QED
    BY <1>3, <2>1, <2>2, ImageSame DEF Dropped
<1>4. CASE Fire(r)
  <2>1. run' = [run EXCEPT ![r] = asking] /\ run[r].at = "timer"
    BY <1>4 DEF Fire, Wait, asking
  <2>2. asking.id # None /\ (~ asking.aborted => r = current)
    BY <1>2, <2>1, Waiting
  <2>3. PollInv'
    BY <1>2, <1>4, <2>1, <2>2, RunMoves DEF Fire
  <2>4. TypeOK'
    BY <1>2, <1>4, <2>1, PollTypes DEF Fire, TypeOK
  <2> QED
    BY <1>4, <2>3, <2>4, ImageSame DEF Fire
<1> QED
  BY <1>3, <1>4

\* A request fails: the error is shown beside what was known.
LEMMA FailureInv ==
    ASSUME IInv, NEW r \in Runs, FailsForNow(r) \/ FailsPermanently(r)
    PROVE  IInv'
<1> USE DEF IInv
<1> DEFINE later == [run[r] EXCEPT !.at = "timer", !.answer = None]
<1>1. PICK error \in {"passing", "permanent"} : Failure(r, error)
  BY DEF FailsForNow, FailsPermanently
<1>2. run[r] \in RunStates /\ Idle \in RunStates
  BY DEF TypeOK, RunStates, Idle
<1>3. /\ later \in RunStates /\ later.id = run[r].id /\ later.at = "timer"
      /\ later.answer = None /\ later.aborted = run[r].aborted
  BY <1>2 DEF RunStates
<1>4. run' = [run EXCEPT ![r] = later] \/ run' = [run EXCEPT ![r] = Idle]
  BY DEF FailsForNow, FailsPermanently, Wait, End
<1> HIDE DEF later
<1>5. /\ run[r].id \in Inspections /\ run[r].id # None
      /\ r = current /\ ~ run[r].aborted
  BY <1>1, Waiting DEF Failure
<1>6. /\ state' \in States /\ state'.id = run[r].id
      /\ state'.job # None => state'.job = state.job /\ state.id = run[r].id
  BY <1>1, <1>5 DEF Failure, ShowError, States, TypeOK
<1>7. state'.job # None => /\ state'.id # None
                           /\ state'.job.changes <= service[state'.id].changes
  BY <1>5, <1>6 DEF PollInv, AnswersAreNewer
<1>8. UNCHANGED <<service, selected, stale, current, imaged, clicks>>
  BY <1>1 DEF Failure
<1>9. PollInv'
  <2>1. CASE run' = [run EXCEPT ![r] = later]
    BY <1>3, <1>5, <1>7, <1>8, <2>1, RunMoves
  <2>2. CASE run' = [run EXCEPT ![r] = Idle]
    BY <1>5, <1>7, <1>8, <2>2, RunMoves DEF Idle
  <2> QED
    BY <1>4, <2>1, <2>2
<1>10. errors' \in 0 .. MaxErrors
  BY <1>1, PollingAssumption DEF Failure, TypeOK
<1>11. TypeOK'
  BY <1>2, <1>3, <1>4, <1>6, <1>8, <1>10, PollTypes
<1> QED
  BY <1>8, <1>9, <1>11, ImageSame

-----------------------------------------------------------------------------
(* The image *)

LEMMA SetImageSelects ==
    ASSUME TypeOK, NEW new \in Images, SetImage(new)
    PROVE  /\ image' \in Images /\ image'.id = selected
           /\ image'.url # None => image' = new /\ new.id = selected
BY DEF TypeOK, SetImage, Blank, Images

LEMMA ImageStepInv ==
    ASSUME IInv, NEW k \in 0 .. MaxClicks,
           ImageArrives(k) \/ ImageFails(k) \/ ImageDropped(k)
    PROVE  IInv'
<1> USE DEF IInv
<1>1. picture[k] \in Pictures /\ NoPicture \in Pictures
  BY DEF TypeOK, Pictures, NoPicture
<1>2. CASE ImageArrives(k)
  <2> DEFINE new == [id |-> picture[k].id, url |-> k, error |-> FALSE]
  <2>1. new \in Images /\ new.url = k /\ new.id = picture[k].id
    BY <1>1 DEF Images, Pictures
  <2>2. /\ image' \in Images /\ image'.id = selected
        /\ image'.url # None => image'.url = k /\ picture[k].id = selected
    BY <1>2, <2>1, SetImageSelects DEF ImageArrives
  <2>3. [picture[k] EXCEPT !.at = "held"] \in Pictures
    BY <1>1 DEF Pictures
  <2>4. picture' \in [0 .. MaxClicks -> Pictures]
    BY <1>2, <2>3 DEF ImageArrives, TypeOK
  <2>5. TypeOK'
    BY <1>2, <2>2, <2>4 DEF ImageArrives, TypeOK, polled
  <2>6. /\ picture'[k].at = "held" /\ picture'[k].id = picture[k].id
        /\ \A h \in 0 .. MaxClicks : h # k => picture'[h] = picture[h]
    BY <1>1, <1>2 DEF ImageArrives, TypeOK, Pictures
  <2>7. k = fetching /\ fetching' = fetching /\ selected' = selected
    BY <1>2 DEF ImageArrives, ImageInv, OnePictureSpeaks
  <2>8. ImageInv'
    BY <2>2, <2>6, <2>7 DEF ImageInv, OnePictureSpeaks, ImageSelected
  <2> QED
    BY <1>2, <2>5, <2>8, PollSame DEF ImageArrives
<1>3. CASE ImageFails(k)
  <2> DEFINE new == [id |-> picture[k].id, url |-> None, error |-> TRUE]
  <2>1. new \in Images /\ new.url = None
    BY <1>1 DEF Images, Pictures
  <2>2. image' \in Images /\ image'.id = selected /\ image'.url = None
    BY <1>3, <2>1, SetImageSelects DEF ImageFails
  <2>3. [picture[k] EXCEPT !.at = "ended"] \in Pictures
    BY <1>1 DEF Pictures
  <2>4. picture' \in [0 .. MaxClicks -> Pictures]
    BY <1>3, <2>3 DEF ImageFails, TypeOK
  <2>5. errors' \in 0 .. MaxErrors
    BY <1>3, PollingAssumption DEF ImageFails, TypeOK
  <2>6. TypeOK'
    BY <1>3, <2>2, <2>4, <2>5 DEF ImageFails, TypeOK, polled
  <2>7. /\ picture'[k].at = "ended"
        /\ \A h \in 0 .. MaxClicks : h # k => picture'[h] = picture[h]
    BY <1>1, <1>3 DEF ImageFails, TypeOK, Pictures
  <2>8. ImageInv'
    BY <1>3, <2>2, <2>7 DEF ImageFails, ImageInv, OnePictureSpeaks, ImageSelected
  <2> QED
    BY <1>3, <2>6, <2>8, PollSame DEF ImageFails
<1>4. CASE ImageDropped(k)
  <2>1. picture' \in [0 .. MaxClicks -> Pictures]
    BY <1>1, <1>4 DEF ImageDropped, TypeOK
  <2>2. TypeOK'
    BY <1>4, <2>1 DEF ImageDropped, TypeOK, polled
  <2>3. /\ picture[k].at = "fetching" /\ picture'[k].at = "ended"
        /\ \A h \in 0 .. MaxClicks : h # k => picture'[h] = picture[h]
    BY <1>4 DEF ImageDropped, TypeOK, NoPicture
  <2>4. image.url # None => image.url # k
    BY <2>3 DEF ImageInv, ImageSelected
  <2>5. image.url # None => fetching \in 0 .. MaxClicks /\ fetching # k
    BY <2>4 DEF ImageInv, ImageSelected, TypeOK, Images
  <2>6. ImageInv'
    BY <1>4, <2>3, <2>4, <2>5 DEF ImageDropped, ImageInv, OnePictureSpeaks, ImageSelected
  <2> QED
    BY <1>4, <2>2, <2>6, PollSame DEF ImageDropped
<1> QED
  BY <1>2, <1>3, <1>4

-----------------------------------------------------------------------------
(* The effects *)

\* After the cleanup every run that waits was aborted, and none has moved.
LEMMA AllCleaned ==
    ASSUME TypeOK, PollInv
    PROVE  /\ Cleaned \in [Runs -> RunStates]
           /\ \A r \in Runs :
                 \/ Cleaned[r] = Idle
                 \/ /\ Cleaned[r].at = run[r].at /\ Cleaned[r].id = run[r].id
                    /\ Cleaned[r].answer = run[r].answer
                    /\ Cleaned[r].at # "idle" => Cleaned[r].aborted
<1>1. Idle \in RunStates
  BY DEF Idle, RunStates
<1>2. ASSUME NEW r \in Runs
      PROVE  /\ Cleaned[r] \in RunStates
             /\ \/ Cleaned[r] = Idle
                \/ /\ Cleaned[r].at = run[r].at /\ Cleaned[r].id = run[r].id
                   /\ Cleaned[r].answer = run[r].answer
                   /\ Cleaned[r].at # "idle" => Cleaned[r].aborted
  <2>1. run[r] \in RunStates
    BY DEF TypeOK
  <2>2. CASE r # current
    <3>1. Cleaned[r] = run[r]
      BY <2>2 DEF Cleaned
    <3>2. run[r].at # "idle" => run[r].aborted
      BY <2>2 DEF PollInv, OneRunSpeaks
    <3> QED
      BY <2>1, <3>1, <3>2
  <2>3. CASE r = current /\ run[r].at = "timer"
    <3>1. Cleaned[r] = Idle
      BY <2>3 DEF Cleaned
    <3> QED
      BY <1>1, <3>1
  <2>4. CASE r = current /\ run[r].at # "timer"
    <3>1. Cleaned[r] = [run[r] EXCEPT !.aborted = run[r].at # "idle"]
      BY <2>4 DEF Cleaned
    <3>2. (run[r].at # "idle") \in BOOLEAN
      OBVIOUS
    <3> QED
      BY <2>1, <3>1, <3>2 DEF RunStates
  <2> QED
    BY <2>2, <2>3, <2>4
<1> QED
  BY <1>2 DEF Cleaned

LEMMA PollEffect ==
    ASSUME IInv, UNCHANGED <<service, state>>,
           IF selected = None THEN current' = None /\ run' = Cleaned ELSE StartPoll
    PROVE  PollInv' /\ run' \in [Runs -> RunStates] /\ current' \in Runs \cup {None}
<1> USE DEF IInv
<1> DEFINE asking == [Idle EXCEPT !.id = selected, !.at = "inspection"]
<1>1. /\ asking \in RunStates /\ asking.id = selected /\ asking.at = "inspection"
      /\ asking.answer = None
  BY DEF TypeOK, Idle, RunStates
<1>2. run' \in [Runs -> RunStates] /\ current' \in Runs \cup {None}
  BY <1>1, AllCleaned DEF StartPoll
<1>3. \A r \in Runs : \/ run'[r] = Cleaned[r]
                      \/ run'[r] = asking /\ r = current' /\ selected # None
  BY AllCleaned DEF StartPoll
<1> HIDE DEF asking
<1>4. ASSUME NEW r \in Runs
      PROVE  \/ run'[r].at = "idle" /\ run'[r].answer = None
             \/ run'[r] = asking /\ r = current' /\ selected # None
             \/ /\ run'[r].at = run[r].at /\ run'[r].id = run[r].id
                /\ run'[r].answer = run[r].answer
                /\ run'[r].at # "idle" => run'[r].aborted
  BY <1>3, AllCleaned DEF Idle
<1>5. OneRunSpeaks'
  BY <1>1, <1>4 DEF PollInv, OneRunSpeaks
<1>6. AnswersAreNewer'
  <2>1. ASSUME NEW r \in Runs, run'[r].answer # None
        PROVE  /\ run'[r].answer.changes <= service[run'[r].id].changes
               /\ run'[r].aborted
    <3>1. /\ run'[r].id = run[r].id /\ run'[r].answer = run[r].answer
          /\ run'[r].at # "idle" => run'[r].aborted
      BY <1>1, <1>4, <2>1
    <3>2. run'[r].at # "idle"
      BY <1>5, <2>1 DEF OneRunSpeaks
    <3> QED
      BY <2>1, <3>1, <3>2 DEF PollInv, AnswersAreNewer
  <2> QED
    BY <2>1 DEF PollInv, AnswersAreNewer
<1> QED
  BY <1>2, <1>5, <1>6 DEF PollInv

LEMMA ImageEffect ==
    ASSUME IInv, FetchImage, UNCHANGED <<selected, image>>
    PROVE  /\ ImageInv'
           /\ picture' \in [0 .. MaxClicks -> Pictures]
           /\ fetching' \in (0 .. MaxClicks) \cup {None}
<1> USE DEF IInv
<1> DEFINE fetched == IF fetching = None THEN None ELSE picture[fetching].id
           asking  == [id |-> selected, at |-> "fetching", aborted |-> FALSE]
<1>1. NoPicture \in Pictures /\ asking \in Pictures
  BY DEF TypeOK, NoPicture, Pictures
<1>2. /\ PictureCleaned \in [0 .. MaxClicks -> Pictures]
      /\ \A k \in 0 .. MaxClicks :
            ~ (\/ PictureCleaned[k].at = "held"
               \/ PictureCleaned[k].at = "fetching" /\ ~ PictureCleaned[k].aborted)
  <2>1. ASSUME NEW k \in 0 .. MaxClicks
        PROVE  /\ PictureCleaned[k] \in Pictures
               /\ ~ (\/ PictureCleaned[k].at = "held"
                     \/ PictureCleaned[k].at = "fetching" /\ ~ PictureCleaned[k].aborted)
    <3>1. picture[k] \in Pictures
      BY DEF TypeOK
    <3>2. CASE k # fetching
      <4>1. PictureCleaned[k] = picture[k]
        BY <3>2 DEF PictureCleaned
      <4> QED
        BY <3>1, <3>2, <4>1 DEF ImageInv, OnePictureSpeaks
    <3>3. CASE k = fetching /\ picture[k].at = "fetching"
      <4>1. PictureCleaned[k] = [picture[k] EXCEPT !.aborted = TRUE]
        BY <3>3 DEF PictureCleaned
      <4> QED
        BY <3>1, <3>3, <4>1 DEF Pictures
    <3>4. CASE k = fetching /\ picture[k].at # "fetching"
      <4>1. PictureCleaned[k] = NoPicture
        BY <3>4 DEF PictureCleaned
      <4> QED
        BY <1>1, <4>1 DEF NoPicture
    <3> QED
      BY <3>2, <3>3, <3>4
  <2> QED
    BY <2>1 DEF PictureCleaned
<1>3. CASE selected = fetched
  <2>1. UNCHANGED imaged
    BY <1>3 DEF FetchImage, imaged
  <2> QED
    BY <2>1, ImageSame DEF TypeOK, imaged
<1>4. CASE selected # fetched
  <2>1. image.url = None
    <3>1. image.url # None => fetching # None /\ picture[fetching].id = selected
      BY PollingAssumption DEF ImageInv, ImageSelected, TypeOK, Images
    <3> QED
      BY <1>4, <3>1
  <2>2. ImageSelected'
    BY <2>1 DEF ImageInv, ImageSelected
  <2>3. \/ fetching' = None /\ picture' = PictureCleaned
        \/ /\ fetching' = clicks /\ clicks \in 0 .. MaxClicks
           /\ picture' = [PictureCleaned EXCEPT ![clicks] = asking]
    BY <1>4 DEF FetchImage, TypeOK
  <2>4. \A k \in 0 .. MaxClicks :
            \/ picture'[k] = PictureCleaned[k]
            \/ k = fetching'
    BY <1>2, <2>3
  <2>5. OnePictureSpeaks'
    BY <1>2, <2>4 DEF OnePictureSpeaks
  <2>6. /\ picture' \in [0 .. MaxClicks -> Pictures]
        /\ fetching' \in (0 .. MaxClicks) \cup {None}
    BY <1>1, <1>2, <2>3
  <2> QED
    BY <2>2, <2>5, <2>6 DEF ImageInv
<1> QED
  BY <1>3, <1>4

LEMMA RunEffectInv ==
    ASSUME IInv, RunEffect
    PROVE  IInv'
<1>1. PollInv' /\ run' \in [Runs -> RunStates] /\ current' \in Runs \cup {None}
  BY PollEffect DEF RunEffect
<1>2. /\ ImageInv' /\ picture' \in [0 .. MaxClicks -> Pictures]
      /\ fetching' \in (0 .. MaxClicks) \cup {None}
  BY ImageEffect DEF RunEffect
<1>3. TypeOK'
  BY <1>1, <1>2 DEF RunEffect, IInv, TypeOK
<1> QED
  BY <1>1, <1>2, <1>3 DEF IInv

-----------------------------------------------------------------------------
LEMMA NextInv == IInv /\ [Next]_vars => IInv'
<1> SUFFICES ASSUME IInv, [Next]_vars
             PROVE  IInv'
  OBVIOUS
<1>1. CASE UNCHANGED vars
  <2>1. TypeOK'
    BY <1>1 DEF IInv, TypeOK, vars, polled, imaged
  <2> QED
    BY <1>1, <2>1, PollSame, ImageSame DEF IInv, vars
<1>2. CASE \E i \in Inspections : Change(i)
  BY <1>2, ChangeInv
<1>3. CASE \E i \in Inspections \cup {None} : Select(i)
  BY <1>3, SelectInv
<1>4. CASE Retry \/ RunEffect
  BY <1>4, RetryInv, RunEffectInv
<1>5. CASE \E r \in Runs : PollStep(r) \/ FailsForNow(r) \/ FailsPermanently(r)
  BY <1>5, ServeInv, DeliverInv, QuietRunInv, FailureInv DEF PollStep
<1>6. CASE \E k \in 0 .. MaxClicks : ImageArrives(k) \/ ImageFails(k) \/ ImageDropped(k)
  BY <1>6, ImageStepInv
<1> QED
  BY <1>1, <1>2, <1>3, <1>4, <1>5, <1>6 DEF Next

\* Only the current runs of the two effects speak, and what they are about to
\* show is no older than what is shown (useInspection.ts, useInspectionImage.ts).
THEOREM Invariance == Spec => []IInv
BY InitInv, NextInv, PTL DEF Spec

\* The hooks' states and the runs of their effects keep their types.
THEOREM TypeCorrect == Spec => []TypeOK
<1>1. IInv => TypeOK
  BY DEF IInv
<1> QED
  BY <1>1, Invariance, PTL

\* The image shown is the selected inspection's, its URL is alive, and a URL
\* that is alive will be revoked.
THEOREM LiveImage == Spec => []ImageIsLive
<1>1. IInv => ImageIsLive
  <2> SUFFICES ASSUME IInv
               PROVE  ImageIsLive
    OBVIOUS
  <2>1. VisibleImage = image
    BY DEF IInv, ImageInv, ImageSelected, VisibleImage
  <2> QED
    BY <2>1 DEF IInv, ImageInv, ImageSelected, OnePictureSpeaks, ImageIsLive
<1> QED
  BY <1>1, Invariance, PTL

\* An answer that arrives late never replaces a newer one on the screen.
THEOREM OnlyForward == Spec => NeverBackward
<1>1. IInv /\ [Next]_vars => [ShownForward]_vars
  <2> SUFFICES ASSUME IInv, [Next]_vars, state.job # None, state'.job # None,
                      state'.id = state.id
               PROVE  state'.job.changes >= state.job.changes
    BY DEF ShownForward
  <2>1. state.job \in Job /\ state.job.changes \in Nat
    BY DEF IInv, TypeOK, States, Job
  <2>2. CASE state' = state
    BY <2>1, <2>2
  <2>3. ASSUME NEW r \in Runs, Deliver(r) \/ DeliverReport(r)
        PROVE  state'.job.changes >= state.job.changes
    <3>1. /\ run[r].at # "idle" /\ ~ run[r].aborted /\ run[r].answer # None
          /\ state'.id = run[r].id /\ state'.job = run[r].answer
      BY <2>3 DEF Deliver, ShowAnswer, DeliverReport, Shown, IInv, PollInv, OneRunSpeaks
    <3>2. run[r].answer.changes \in Nat
      BY <3>1, Waiting DEF IInv, Job
    <3>3. state.job.changes <= run[r].answer.changes
      BY <3>1 DEF IInv, PollInv, AnswersAreNewer
    <3> QED
      BY <2>1, <3>1, <3>2, <3>3
  <2>4. ASSUME NEW r \in Runs, FailsForNow(r) \/ FailsPermanently(r)
        PROVE  state'.job.changes >= state.job.changes
    <3>1. PICK error \in {"passing", "permanent"} : ShowError(r, error)
      BY <2>4 DEF FailsForNow, FailsPermanently, Failure
    <3>2. state'.job = state.job
      BY <3>1 DEF ShowError
    <3> QED
      BY <2>1, <3>2
  <2>5. \/ state' = state
        \/ \E r \in Runs : \/ Deliver(r) \/ DeliverReport(r)
                           \/ FailsForNow(r) \/ FailsPermanently(r)
    <3>1. CASE UNCHANGED vars
      BY <3>1 DEF vars, polled
    <3>2. CASE \/ \E i \in Inspections : Change(i)
               \/ \E i \in Inspections \cup {None} : Select(i)
               \/ Retry \/ RunEffect
      BY <3>2 DEF Change, Select, Retry, RunEffect, polled
    <3>3. CASE \E r \in Runs : PollStep(r) \/ FailsForNow(r) \/ FailsPermanently(r)
      BY <3>3 DEF PollStep, Serve, Dropped, Fire
    <3>4. CASE \E k \in 0 .. MaxClicks :
                   ImageArrives(k) \/ ImageFails(k) \/ ImageDropped(k)
      BY <3>4 DEF ImageArrives, ImageFails, ImageDropped, polled
    <3> QED
      BY <3>1, <3>2, <3>3, <3>4 DEF Next
  <2> QED
    BY <2>2, <2>3, <2>4, <2>5
<1> QED
  BY <1>1, Invariance, PTL DEF Spec, NeverBackward
=============================================================================
