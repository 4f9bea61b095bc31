------------------------------- MODULE Polling -------------------------------
(***************************************************************************)
(* How the workspace follows one inspection (useInspection.ts) and fetches *)
(* its image (useInspectionImage.ts): an effect per selection polls the    *)
(* service, another fetches the image and wraps it in an object URL,       *)
(* answers arrive when they like, and the user selects another inspection  *)
(* or asks again meanwhile.                                                *)
(*                                                                         *)
(* Each run of the effect has a controller, a timer and at most one        *)
(* request; a run whose controller was aborted may still get the answer it *)
(* was waiting for.  React renders a new selection before it runs the      *)
(* effects' cleanups and the effects, and does so before it renders again. *)
(* The service's view of an inspection is its status and how often it has  *)
(* changed.                                                                *)
(***************************************************************************)
EXTENDS Integers, FiniteSetsExt

CONSTANTS
    Inspections,
    Runs,          \* BOUND on runs of the effect still waiting for something
    None,          \* null
    MaxChanges,    \* BOUND on changes of all inspections
    MaxClicks,     \* BOUND on selections and retries by the user
    MaxErrors      \* BOUND on failed requests

Active   == {"QUEUED", "PROCESSING"}
Terminal == {"COMPLETED", "FAILED"}
Job      == [status : Active \cup Terminal, changes : Nat]

ASSUME PollingAssumption ==
    /\ None \notin Inspections \cup Job \cup Runs
    /\ None \notin 0 .. MaxClicks
    /\ MaxChanges \in Nat /\ MaxClicks \in Nat /\ MaxErrors \in Nat

VARIABLES
    service,    \* each inspection as the service has it
    selected,   \* the id the component was rendered with
    stale,      \* rendered, but the effect has not been run again
    state,      \* the hook's state: id, job, whether the report is set, error
    current,    \* the run whose cleanup has not been called
    run,        \* each run: id, where it waits, its answer, aborted or not
    image,      \* the image hook's state: id, url, error
    fetching,   \* the run of its effect whose cleanup has not been called
    picture,    \* each of its runs, by the click that led to it
    clicks, errors

polled  == <<service, state, current, run>>
imaged  == <<image, fetching, picture>>
vars    == <<polled, selected, stale, imaged, clicks, errors>>

Idle  == [id |-> None, at |-> "idle", answer |-> None, aborted |-> FALSE]
Empty == [id |-> None, job |-> None, report |-> FALSE, error |-> None]
Shown(i, job, report) == [id |-> i, job |-> job, report |-> report, error |-> None]

\* A run of the image effect holds an object URL from "held" to its cleanup.
\* No two runs share a URL: it is named by its run.
Blank(i)  == [id |-> i, url |-> None, error |-> FALSE]
NoPicture == [id |-> None, at |-> "ended", aborted |-> FALSE]

Init ==
    /\ service  = [i \in Inspections |-> [status |-> "QUEUED", changes |-> 0]]
    /\ selected \in Inspections \cup {None}
    /\ stale = TRUE
    /\ state = Empty
    /\ current = None
    /\ run = [r \in Runs |-> Idle]
    /\ image = Blank(selected)
    /\ fetching = None
    /\ picture = [k \in 0 .. MaxClicks |-> NoPicture]
    /\ clicks = 0 /\ errors = 0

\* What the hooks return.
Visible == IF state.id = selected THEN state ELSE Empty
VisibleImage == IF image.id = selected THEN image ELSE Blank(selected)

-----------------------------------------------------------------------------
(* The service, the user and React *)

\* QUEUED -> PROCESSING -> COMPLETED, FAILED or, for a retry, QUEUED again.
Change(i) ==
    /\ MapThenSumSet(LAMBDA j : service[j].changes, Inspections) < MaxChanges
    /\ \E next \in IF service[i].status = "QUEUED" THEN {"PROCESSING"}
                   ELSE IF service[i].status = "PROCESSING"
                        THEN Terminal \cup {"QUEUED"} ELSE {} :
          service' = [service EXCEPT ![i] = [status |-> next, changes |-> @.changes + 1]]
    /\ UNCHANGED <<selected, stale, state, current, run, imaged, clicks, errors>>

Click == ~ stale /\ clicks < MaxClicks /\ clicks' = clicks + 1

\* Slip: the image stays, hidden by its id.
SelectKeepsImage(i) ==
    /\ Click
    /\ i # selected
    /\ selected' = i
    /\ stale' = TRUE
    /\ UNCHANGED <<polled, imaged, errors>>

\* App.navigate, or the browser's back button.  Rendering another id blanks
\* the image.
Select(i) ==
    /\ Click
    /\ i # selected
    /\ selected' = i
    /\ stale' = TRUE
    /\ image' = Blank(i)
    /\ UNCHANGED <<polled, fetching, picture, errors>>

\* The button next to an error.
Retry ==
    /\ Visible.error # None
    /\ Click
    /\ stale' = TRUE
    /\ UNCHANGED <<polled, selected, imaged, errors>>

\* The cleanup: abort() and clearTimeout().  A request in flight is aborted,
\* but its answer may be on its way.
Cleaned ==
    [r \in Runs |->
        IF r # current THEN run[r]
        ELSE IF run[r].at = "timer" THEN Idle
        ELSE [run[r] EXCEPT !.aborted = run[r].at # "idle"]]

StartPoll ==
    \E r \in Runs :
        /\ Cleaned[r] = Idle
        /\ current' = r
        /\ run' = [Cleaned EXCEPT ![r] = [Idle EXCEPT !.id = selected,
                                                      !.at = "inspection"]]

\* The image effect's cleanup: abort(), and the object URL is revoked.
PictureCleaned ==
    [k \in 0 .. MaxClicks |->
        IF k # fetching THEN picture[k]
        ELSE IF picture[k].at = "fetching" THEN [picture[k] EXCEPT !.aborted = TRUE]
        ELSE NoPicture]

\* The image effect depends on the id alone: a retry does not run it again.
FetchImage ==
    IF selected = (IF fetching = None THEN None ELSE picture[fetching].id)
    THEN UNCHANGED <<fetching, picture>>
    ELSE IF selected = None THEN fetching' = None /\ picture' = PictureCleaned
    ELSE /\ fetching' = clicks
         /\ picture' = [PictureCleaned EXCEPT
                ![clicks] = [id |-> selected, at |-> "fetching", aborted |-> FALSE]]

RunEffect ==
    /\ stale
    /\ stale' = FALSE
    /\ IF selected = None THEN current' = None /\ run' = Cleaned ELSE StartPoll
    /\ FetchImage
    /\ UNCHANGED <<service, selected, state, image, clicks, errors>>

-----------------------------------------------------------------------------
(* poll() *)

\* The service answers the request for the inspection.
Serve(r) ==
    /\ run[r].at = "inspection" /\ run[r].answer = None
    /\ run' = [run EXCEPT ![r].answer = service[run[r].id]]
    /\ UNCHANGED <<service, selected, stale, state, current, imaged, clicks, errors>>

End(r) == run' = [run EXCEPT ![r] = Idle]

Wait(r, at, answer) == run' = [run EXCEPT ![r].at = at, ![r].answer = answer]

\* The answer is shown; COMPLETED asks for the report, FAILED ends the polling.
ShowAnswer(r) ==
    /\ run[r].at = "inspection" /\ run[r].answer # None
    /\ state' = Shown(run[r].id, run[r].answer, FALSE)
    /\ CASE run[r].answer.status = "COMPLETED" -> Wait(r, "report", run[r].answer)
         [] run[r].answer.status = "FAILED"    -> End(r)
         [] OTHER                              -> Wait(r, "timer", None)
    /\ UNCHANGED <<service, selected, stale, current, imaged, clicks, errors>>

\* Slip: an answer is shown although its run was aborted.
DeliverLate(r) == ShowAnswer(r)

Deliver(r) == ~ run[r].aborted /\ ShowAnswer(r)

\* The report arrives and is shown with the answer it was asked for.
DeliverReport(r) ==
    /\ run[r].at = "report"
    /\ ~ run[r].aborted
    /\ state' = Shown(run[r].id, run[r].answer, TRUE)
    /\ End(r)
    /\ UNCHANGED <<service, selected, stale, current, imaged, clicks, errors>>

\* Whatever an aborted run was waiting for, it ends there.
Dropped(r) ==
    /\ run[r].aborted
    /\ End(r)
    /\ UNCHANGED <<service, selected, stale, state, current, imaged, clicks, errors>>

ShowError(r, error) ==
    state' = [id |-> run[r].id,
              job |-> IF state.id = run[r].id THEN state.job ELSE None,
              report |-> FALSE, error |-> error]

Failure(r, error) ==
    /\ run[r].at \in {"inspection", "report"}
    /\ ~ run[r].aborted
    /\ errors < MaxErrors /\ errors' = errors + 1
    /\ ShowError(r, error)
    /\ UNCHANGED <<service, selected, stale, current, imaged, clicks>>

\* Slip: the back-off timer is not set after an error.
FailsForGood(r) == Failure(r, "passing") /\ End(r)

\* No answer, or an error that may go away: again after a growing delay.
FailsForNow(r) == Failure(r, "passing") /\ Wait(r, "timer", None)

\* 400, 401, 403, 404 and 422 end the polling.
FailsPermanently(r) == Failure(r, "permanent") /\ End(r)

\* setTimeout(poll, ...)
Fire(r) ==
    /\ run[r].at = "timer"
    /\ Wait(r, "inspection", None)
    /\ UNCHANGED <<service, selected, stale, state, current, imaged, clicks, errors>>

-----------------------------------------------------------------------------
(* The image *)

\* setImage, and the rendering that follows: for another id it blanks at once.
SetImage(new) == image' = IF new.id = selected THEN new ELSE Blank(selected)

\* The blob is there: an object URL is created for it and shown.
ImageArrives(k) ==
    /\ picture[k].at = "fetching" /\ ~ picture[k].aborted
    /\ picture' = [picture EXCEPT ![k].at = "held"]
    /\ SetImage([id |-> picture[k].id, url |-> k, error |-> FALSE])
    /\ UNCHANGED <<polled, selected, stale, fetching, clicks, errors>>

ImageFails(k) ==
    /\ picture[k].at = "fetching" /\ ~ picture[k].aborted
    /\ errors < MaxErrors /\ errors' = errors + 1
    /\ picture' = [picture EXCEPT ![k].at = "ended"]
    /\ SetImage([id |-> picture[k].id, url |-> None, error |-> TRUE])
    /\ UNCHANGED <<polled, selected, stale, fetching, clicks>>

\* An aborted run ends without a URL, whatever it got.
ImageDropped(k) ==
    /\ picture[k].at = "fetching" /\ picture[k].aborted
    /\ picture' = [picture EXCEPT ![k] = NoPicture]
    /\ UNCHANGED <<polled, selected, stale, image, fetching, clicks, errors>>

-----------------------------------------------------------------------------
PollStep(r) ==
    Serve(r) \/ Deliver(r) \/ DeliverReport(r) \/ Dropped(r) \/ Fire(r)

Next ==
    \/ \E i \in Inspections : Change(i)
    \/ \E i \in Inspections \cup {None} : Select(i)
    \/ Retry \/ RunEffect
    \/ \E r \in Runs : PollStep(r) \/ FailsForNow(r) \/ FailsPermanently(r)
    \/ \E k \in 0 .. MaxClicks : ImageArrives(k) \/ ImageFails(k) \/ ImageDropped(k)

Spec == Init /\ [][Next]_vars

\* React runs effects, timers fire, and a request is answered in the end (its
\* AbortSignal.timeout turns silence into an error).
FairSpec ==
    /\ Spec
    /\ WF_vars(RunEffect)
    /\ \A r \in Runs : WF_vars(PollStep(r))

-----------------------------------------------------------------------------
(* Properties *)

States     == [id : Inspections \cup {None}, job : Job \cup {None}, report : BOOLEAN,
               error : {None, "passing", "permanent"}]
RunStates  == [id : Inspections \cup {None}, at : {"idle", "inspection", "report", "timer"},
               answer : Job \cup {None}, aborted : BOOLEAN]
Images     == [id : Inspections \cup {None}, url : (0 .. MaxClicks) \cup {None},
               error : BOOLEAN]
Pictures   == [id : Inspections \cup {None}, at : {"fetching", "held", "ended"},
               aborted : BOOLEAN]

\* The variables have their types: the hooks' states and the runs of their effects.
TypeOK ==
    /\ service  \in [Inspections -> Job]
    /\ selected \in Inspections \cup {None} /\ stale \in BOOLEAN
    /\ state    \in States
    /\ current  \in Runs \cup {None}
    /\ run      \in [Runs -> RunStates]
    /\ image    \in Images
    /\ fetching \in (0 .. MaxClicks) \cup {None}
    /\ picture  \in [0 .. MaxClicks -> Pictures]
    /\ clicks   \in 0 .. MaxClicks /\ errors \in 0 .. MaxErrors

\* What is shown of an inspection never goes back to an earlier answer, though
\* requests of several runs are answered in any order.
ShownForward ==
    state.job # None /\ state'.job # None /\ state'.id = state.id
        => state'.job.changes >= state.job.changes

NeverBackward == [][ShownForward]_vars

\* The image shown is the selected inspection's and its URL is alive, also when
\* the user leaves an inspection and comes back to it; and every URL alive is
\* held by the run whose cleanup will revoke it.
ImageIsLive ==
    /\ VisibleImage.url # None =>
          /\ picture[VisibleImage.url].at = "held"
          /\ picture[VisibleImage.url].id = selected
    /\ \A k \in 0 .. MaxClicks : picture[k].at = "held" => k = fetching

\* The end of the selected inspection is shown, with its report, whatever
\* errors came in between, unless the user turns to another inspection or an
\* error is shown that ends the polling until the user asks again.
EndIsShown ==
    \A i \in Inspections :
        (selected = i /\ service[i].status \in Terminal) ~>
            \/ selected # i
            \/ Visible.error = "permanent"
            \/ /\ Visible.job = service[i]
               /\ service[i].status = "COMPLETED" => Visible.report
=============================================================================
