--------------------------- MODULE BrowserSession ---------------------------
(***************************************************************************)
(* The browser's session (auth.ts, BrowserAuth) and the requests that use  *)
(* it (api.ts, protectedResponse).  The page runs one callback at a time;  *)
(* every `await` lets others run, so each piece of code between two awaits *)
(* is one action.  `revision` counts the sessions that ended in this page: *)
(* code that waited compares it with the one it saw before.                *)
(*                                                                         *)
(* The OIDC library (external) keeps the user in a store of the page's     *)
(* memory, fills it at sign-in and at every silent renewal, and empties it *)
(* in removeUser.  A token is known by the session it was accepted in.     *)
(***************************************************************************)
EXTENDS Integers

CONSTANTS
    Subjects,      \* the people who may sign in
    Requests,      \* calls of protectedResponse that may be in flight
    None,          \* null, undefined
    MaxRevision    \* BOUND on sign-in attempts that end a session again

Lives == {"fresh", "due", "expired"}   \* expires_in > 30, <= 30, <= 0
Users == [subject : Subjects, refreshable : BOOLEAN, life : Lives]

ASSUME SessionAssumption ==
    /\ None \notin Users /\ None \notin [session : Nat, subject : Subjects]
    /\ None \notin Subjects /\ None # "local"
    /\ MaxRevision \in Nat \ {0}

VARIABLES
    mode,        \* config.mode
    path,        \* what location.pathname was when the page was loaded
    status,      \* snapshot.status
    user,        \* this.user
    revision,    \* this.revision
    timer,       \* this.timer is armed
    start,       \* where start() waits
    arriving,    \* its `user`
    renewal,     \* where this.renewal waits, the revision it saw, its answer
    store,       \* the library's userStore
    removals,    \* removeUser() calls that have not ended
    leaving,     \* the page is about to be replaced
    request, seen, token,  \* each request: position, its revision, its token
    unmounted,   \* the workspace that made the requests (App) is no longer there
    shown        \* whose data each request brought to the workspace

session == <<status, user, revision, timer>>
library == <<store, removals>>
calls   == <<request, seen, token>>
workspace == <<unmounted, shown>>
vars    == <<mode, path, session, start, arriving, renewal, library, leaving,
             calls, workspace>>

NoRenewal == [at |-> "none", revision |-> 0, answer |-> None]

\* A page that was just loaded.
Loaded(where) ==
    /\ path' = where
    /\ status' = "loading" /\ user' = None /\ revision' = 0 /\ timer' = FALSE
    /\ start' = IF mode = "cognito" THEN "session" ELSE "identity"
    /\ arriving' = None
    /\ renewal' = NoRenewal
    /\ store' = None /\ removals' = 0
    /\ leaving' = "no"
    /\ request' = [r \in Requests |-> "idle"]
    /\ seen'    = [r \in Requests |-> 0]
    /\ token'   = [r \in Requests |-> None]
    /\ unmounted' = FALSE
    /\ shown'   = [r \in Requests |-> None]
    /\ UNCHANGED mode

Init ==
    /\ mode \in {"local", "cognito"}
    /\ path = "/"
    /\ status = "loading" /\ user = None /\ revision = 0 /\ timer = FALSE
    /\ start = IF mode = "cognito" THEN "session" ELSE "identity"
    /\ arriving = None
    /\ renewal = NoRenewal
    /\ store = None /\ removals = 0
    /\ leaving = "no"
    /\ request = [r \in Requests |-> "idle"]
    /\ seen    = [r \in Requests |-> 0]
    /\ token   = [r \in Requests |-> None]
    /\ unmounted = FALSE
    /\ shown   = [r \in Requests |-> None]

-----------------------------------------------------------------------------
(* What several callbacks do *)

\* Slip: a renewed session keeps no timer.
AcceptUntimed(u) ==
    /\ user'  = u
    /\ timer' = FALSE
    /\ status' = "ready"
    /\ UNCHANGED revision

\* accept(user), and the snapshot it leaves (start() publishes "ready").
Accept(u) ==
    /\ user'  = u
    /\ timer' = TRUE
    /\ status' = "ready"
    /\ UNCHANGED revision

\* Slip: whoever comes back from a silent renewal is taken.
AcceptableAnyone(u) == u.life # "expired"

Acceptable(u) ==
    u.life # "expired" /\ (user = None \/ u.subject = user.subject)

\* Slip: the timer of the session that ended goes on.
InvalidateTimed(message) ==
    /\ revision' = revision + 1
    /\ user'  = None
    /\ status' = message
    /\ removals' = IF mode = "cognito" THEN removals + 1 ELSE removals
    /\ unmounted' = TRUE
    /\ shown' = [r \in Requests |-> None]
    /\ UNCHANGED timer

\* invalidate(message): listeners unmount the workspace and all it shows.
Invalidate(message) ==
    /\ revision' = revision + 1
    /\ timer' = FALSE
    /\ user'  = None
    /\ status' = message
    /\ removals' = IF mode = "cognito" THEN removals + 1 ELSE removals
    /\ unmounted' = TRUE
    /\ shown' = [r \in Requests |-> None]

\* refresh() when no renewal is in flight.  Without a refresh token its body
\* throws before the first await: `finally` clears this.renewal first, and the
\* assignment then leaves the rejected promise in it for good.
BeginRenewal ==
    IF user.refreshable
    THEN /\ renewal' = [at |-> "silent", revision |-> revision, answer |-> None]
         /\ UNCHANGED <<session, removals, workspace>>
    ELSE /\ renewal' = [NoRenewal EXCEPT !.at = "stuck"]
         /\ Invalidate("error")

-----------------------------------------------------------------------------
(* start(): after each await it compares `revision` with the 0 it saw.  No  *)
(* callback of the page ends a session that start() has not yet opened, so *)
(* the comparison never fails; it is in the model because it is in the code. *)

StartOver == start' = "over" /\ arriving' = None

Superseded == revision # 0

KeepSession == UNCHANGED <<session, removals, workspace>>

\* Its catch block.
StartRaises ==
    /\ start # "over"
    /\ StartOver
    /\ IF Superseded THEN KeepSession ELSE Invalidate("error")
    /\ UNCHANGED <<mode, path, renewal, store, leaving, calls>>

\* signinRedirectCallback() on the callback page, else getUser().
SessionFound ==
    /\ start = "session"
    /\ IF path = "/auth/callback"
       THEN \E u \in Users : arriving' = u /\ store' = u
       ELSE arriving' = store /\ UNCHANGED store
    /\ start' = "stale"
    /\ UNCHANGED <<mode, path, session, renewal, removals, leaving, calls, workspace>>

\* clearStaleState() is over.
SessionChecked ==
    /\ start = "stale"
    /\ IF Superseded THEN StartOver /\ KeepSession
       ELSE IF arriving = None \/ (arriving # None /\ arriving.life = "expired")
       THEN StartOver /\ Invalidate("signed_out")
       ELSE start' = "identity" /\ UNCHANGED arriving /\ KeepSession
    /\ UNCHANGED <<mode, path, renewal, store, leaving, calls>>

\* GET /api/v1/auth/me confirms the identity.
IdentityConfirmed ==
    /\ start = "identity"
    /\ IF Superseded THEN UNCHANGED session
       ELSE \/ /\ mode = "local"
               /\ status' = "ready"
               /\ UNCHANGED <<user, revision, timer>>
            \/ /\ mode = "cognito"
               /\ \E life \in {"fresh", "due"} : Accept([arriving EXCEPT !.life = life])
    /\ StartOver
    /\ UNCHANGED <<mode, path, renewal, library, leaving, calls, workspace>>

-----------------------------------------------------------------------------
(* Time, the timer and the renewal *)

Age ==
    /\ user # None /\ user.life # "expired"
    /\ user' = [user EXCEPT !.life = IF @ = "fresh" THEN "due" ELSE "expired"]
    /\ UNCHANGED <<mode, path, status, revision, timer, start, arriving, renewal,
                   library, leaving, calls, workspace>>

\* setTimeout(..., expires_in - 30)
TimerFires ==
    /\ timer
    /\ user.life # "fresh"
    /\ \/ /\ user.refreshable
          /\ timer' = FALSE
          /\ renewal' = IF renewal.at = "none"
                        THEN [at |-> "silent", revision |-> revision, answer |-> None]
                        ELSE renewal
          /\ UNCHANGED <<status, user, revision, removals, workspace>>
       \/ /\ ~ user.refreshable
          /\ Invalidate("error")
          /\ UNCHANGED renewal
    /\ UNCHANGED <<mode, path, start, arriving, store, leaving, calls>>

\* signinSilent() ends: with a user, whom the library has stored, with null, or
\* by raising (also after its own ten seconds).
SilentAnswers ==
    /\ renewal.at = "silent"
    /\ \/ \E u \in Users :
             /\ renewal' = [renewal EXCEPT !.at = "answered", !.answer = u]
             /\ store' = u
       \/ /\ renewal' = [renewal EXCEPT !.at = "answered"]
          /\ UNCHANGED store
    /\ UNCHANGED <<mode, path, session, start, arriving, removals, leaving, calls,
                   workspace>>

\* this.renewal is settled: those who waited for it go on.
Settle(outcome) ==
    /\ renewal' = NoRenewal
    /\ request' = [r \in Requests |-> IF request[r] = "renewing" THEN outcome
                                      ELSE request[r]]

\* The session goes on, renewed or not.
RenewalEnds ==
    /\ renewal.at = "answered"
    /\ renewal.revision = revision
    /\ IF renewal.answer # None /\ Acceptable(renewal.answer)
       THEN Accept(renewal.answer) /\ Settle("renewed") /\ UNCHANGED <<removals, workspace>>
       ELSE Invalidate("error") /\ Settle("rejected")
    /\ UNCHANGED <<mode, path, start, arriving, store, leaving, seen, token>>

\* Slip: whoever ended the session has removed the user.
RenewalTooLateKeeps ==
    /\ renewal.at = "answered"
    /\ renewal.revision # revision
    /\ Settle("rejected")
    /\ UNCHANGED <<mode, path, session, start, arriving, library, leaving, seen,
                   token, workspace>>

\* The session ended meanwhile: the user the library stored goes again.
RenewalTooLate ==
    /\ renewal.at = "answered"
    /\ renewal.revision # revision
    /\ IF renewal.answer # None
       THEN renewal' = [renewal EXCEPT !.at = "removing"] /\ UNCHANGED request
       ELSE Settle("rejected")
    /\ UNCHANGED <<mode, path, session, start, arriving, library, leaving, seen,
                   token, workspace>>

RenewalRemoves ==
    /\ renewal.at = "removing"
    /\ store' = None
    /\ Settle("rejected")
    /\ UNCHANGED <<mode, path, session, start, arriving, removals, leaving, seen,
                   token, workspace>>

\* The removeUser() of an invalidate() ends.
RemovalEnds ==
    /\ removals > 0
    /\ removals' = removals - 1
    /\ store' = None
    /\ UNCHANGED <<mode, path, session, start, arriving, renewal, leaving, calls,
                   workspace>>

-----------------------------------------------------------------------------
(* The user: login, logout and reload *)

\* The button of AuthGate; in local mode it reloads the page.
Login ==
    /\ status \in {"signed_out", "error"}
    /\ IF mode = "local" THEN leaving' = "reload" /\ UNCHANGED status
                         ELSE leaving' = "login" /\ status' = "loading"
    /\ UNCHANGED <<mode, path, user, revision, timer, start, arriving, renewal,
                   library, calls, workspace>>

LoginRaises ==
    /\ leaving = "login"
    /\ revision < MaxRevision
    /\ leaving' = "no"
    /\ Invalidate("error")
    /\ UNCHANGED <<mode, path, start, arriving, renewal, store, calls>>

\* The revocation that follows is bounded, then the page is left.
Logout ==
    /\ mode = "cognito"
    /\ status = "ready"
    /\ leaving' = "logout"
    /\ Invalidate("signed_out")
    /\ UNCHANGED <<mode, path, start, arriving, renewal, store, calls>>

\* The browser loads a page: after a sign-in, a sign-out or a reload.
Load ==
    \/ leaving = "login" /\ Loaded("/auth/callback")
    \/ Loaded("/")

-----------------------------------------------------------------------------
(* protectedResponse *)

Finish(r) ==
    /\ request' = [request EXCEPT ![r] = "idle"]
    /\ seen'    = [seen EXCEPT ![r] = 0]
    /\ token'   = [token EXCEPT ![r] = None]

Goto(r, position) == request' = [request EXCEPT ![r] = position]

\* The access token of this.user, or null.
AccessToken == IF mode = "local" THEN None
               ELSE [session |-> revision, subject |-> user.subject]

\* Up to the first await that really waits: accessToken() has the token, or
\* waits for a renewal, or raises.
Begin(r) ==
    /\ request[r] = "idle"
    /\ status = "ready"
    /\ seen' = [seen EXCEPT ![r] = revision]
    /\ \/ /\ mode = "cognito" => user.life = "fresh"
          /\ token' = [token EXCEPT ![r] = AccessToken]
          /\ Goto(r, "tokened")
          /\ UNCHANGED <<renewal, session, removals, workspace>>
       \/ /\ mode = "cognito" /\ user.life # "fresh"
          /\ IF renewal.at = "none" THEN BeginRenewal
             ELSE UNCHANGED <<renewal, session, removals, workspace>>
          /\ Goto(r, IF renewal'.at = "stuck" THEN "rejected" ELSE "renewing")
          /\ UNCHANGED token
    /\ UNCHANGED <<mode, path, start, arriving, store, leaving>>

\* `await this.refresh()` is over.
Resume(r) ==
    /\ request[r] = "renewed"
    /\ IF user = None THEN Goto(r, "rejected") /\ UNCHANGED token
       ELSE Goto(r, "tokened") /\ token' = [token EXCEPT ![r] = AccessToken]
    /\ UNCHANGED <<mode, path, session, start, arriving, renewal, library, leaving,
                   seen, workspace>>

\* Slip: the revision is not compared after the token arrived.
SendUnchecked(r) ==
    /\ request[r] = "tokened"
    /\ Goto(r, "fetching")
    /\ UNCHANGED <<mode, path, session, start, arriving, renewal, library, leaving,
                   seen, token, workspace>>

Send(r) ==
    /\ request[r] = "tokened"
    /\ Goto(r, IF revision = seen[r] THEN "fetching" ELSE "rejected")
    /\ UNCHANGED <<mode, path, session, start, arriving, renewal, library, leaving,
                   seen, token, workspace>>

\* "This session has ended", "Sign in to continue", or the renewal's error.
Raise(r) ==
    /\ request[r] = "rejected"
    /\ Finish(r)
    /\ UNCHANGED <<mode, path, session, start, arriving, renewal, library, leaving,
                   workspace>>

\* A 2xx answer is there: its body is awaited next.
Receive(r) ==
    /\ request[r] = "fetching"
    /\ revision = seen[r]
    /\ Goto(r, "reading")
    /\ UNCHANGED <<mode, path, session, start, arriving, renewal, library, leaving,
                   seen, token, workspace>>

\* The service answers with what belongs to the subject of the token.
FetchedFor(r) == IF token[r] = None THEN "local" ELSE token[r].subject

\* json() or blob() ends: the component that asked shows the data, if it is
\* still there.  The revision is not compared again.
Deliver(r) ==
    /\ request[r] = "reading"
    /\ shown' = IF unmounted THEN shown ELSE [shown EXCEPT ![r] = FetchedFor(r)]
    /\ Finish(r)
    /\ UNCHANGED <<mode, path, session, start, arriving, renewal, library, leaving,
                   unmounted>>

\* A 401 ends the session, with Cognito.
Unauthorized(r) ==
    /\ request[r] = "fetching"
    /\ revision = seen[r]
    /\ mode = "cognito"
    /\ Invalidate("error")
    /\ Finish(r)
    /\ UNCHANGED <<mode, path, start, arriving, renewal, store, leaving>>

\* Any other answer, none in time, one for a session that ended, or a body
\* that breaks off (as it does when its component is unmounted and aborts it).
Refused(r) ==
    /\ request[r] \in {"fetching", "reading"}
    /\ Finish(r)
    /\ UNCHANGED <<mode, path, session, start, arriving, renewal, library, leaving,
                   workspace>>

-----------------------------------------------------------------------------
StartStep == SessionFound \/ SessionChecked \/ IdentityConfirmed \/ StartRaises

RenewalStep ==
    \/ TimerFires \/ SilentAnswers \/ RenewalEnds \/ RenewalTooLate
    \/ RenewalRemoves \/ RemovalEnds

RequestStep(r) ==
    \/ Begin(r) \/ Resume(r) \/ Send(r) \/ Raise(r) \/ Receive(r)
    \/ Deliver(r) \/ Unauthorized(r) \/ Refused(r)

UserStep == Login \/ LoginRaises \/ Logout \/ Load

Next ==
    \/ StartStep \/ RenewalStep \/ Age
    \/ UserStep
    \/ \E r \in Requests : RequestStep(r)

Spec == Init /\ [][Next]_vars

\* Timers fire, and every call of the library ends: it has a time limit of its
\* own (requestTimeoutInSeconds).
FairSpec ==
    /\ Spec
    /\ WF_vars(TimerFires) /\ WF_vars(SilentAnswers)
    /\ WF_vars(RenewalEnds) /\ WF_vars(RenewalTooLate) /\ WF_vars(RenewalRemoves)

-----------------------------------------------------------------------------
(* Properties *)

\* The variables have their types.
TypeOK ==
    /\ mode \in {"local", "cognito"}
    /\ path \in {"/", "/auth/callback"}
    /\ status \in {"loading", "ready", "signed_out", "error"}
    /\ user \in Users \cup {None} /\ arriving \in Users \cup {None}
    /\ store \in Users \cup {None}
    /\ revision \in Nat /\ removals \in Nat /\ timer \in BOOLEAN
    /\ start \in {"session", "stale", "identity", "over"}
    /\ renewal \in [at : {"none", "silent", "answered", "removing", "stuck"},
                    revision : Nat, answer : Users \cup {None}]
    /\ leaving \in {"no", "login", "reload", "logout"}
    /\ request \in [Requests -> {"idle", "renewing", "renewed", "tokened",
                                 "fetching", "reading", "rejected"}]
    /\ seen  \in [Requests -> Nat]
    /\ token \in [Requests -> [session : Nat, subject : Subjects] \cup {None}]
    /\ unmounted \in BOOLEAN
    /\ shown \in [Requests -> Subjects \cup {"local", None}]

\* A session that ended never comes back in this page ("Late [...] refresh
\* responses cannot restore a signed-out session", docs/authentication.md:87;
\* of the "identity" left out: nothing can end a session while start() waits).
EndedForGood ==
    revision > 0 => status # "ready" /\ user = None /\ ~ timer

\* Requests leave the browser only during the session they were made in, with
\* a token of that session.
LeavesInSession ==
    \A r \in Requests :
        request[r] # "fetching" /\ request'[r] = "fetching" =>
            /\ status = "ready"
            /\ mode = "cognito" => token[r].session = revision

SentInSession == [][LeavesInSession]_vars

Owner == IF mode = "local" THEN mode ELSE user.subject

\* What the workspace shows was fetched with a token of whoever is signed in,
\* though sessions are renewed and end while tokens, answers and bodies are awaited.
ShownIsOwn ==
    \A r \in Requests : shown[r] # None => status = "ready" /\ shown[r] = Owner

\* Once all calls of the library have ended, an ended session has left no user
\* behind in its store, however renewals and removals overlapped.
NothingKept ==
    (revision > 0 /\ removals = 0 /\ renewal.at \in {"none", "stuck"})
        => store = None

\* A session whose token ran out is renewed or closed; it is never just left.
ExpiryNoticed ==
    (user # None /\ user.life = "expired")
        ~> (user = None \/ user.life # "expired")
=============================================================================
