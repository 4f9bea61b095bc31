------------------------ MODULE BrowserSession_proofs ------------------------
(***************************************************************************)
(* Theorems about BrowserSession for any number of people and of requests  *)
(* in flight.                                                              *)
(*                                                                         *)
(* The argument: a page has one session at most, the one before its first  *)
(* invalidate.  Whatever waits (start, a renewal, a request) began in it,  *)
(* so it remembers revision 0 (RenewalSeen, RequestsSeen), and comparing   *)
(* that with `revision` tells a live session from one that ended.          *)
(***************************************************************************)
EXTENDS BrowserSession, TLAPS

-----------------------------------------------------------------------------
(* The inductive invariant *)

\* Until start() is over nothing else has begun.
Starting ==
    start # "over" =>
        /\ revision = 0 /\ status = "loading" /\ user = None /\ ~ timer
        /\ renewal.at = "none" /\ leaving = "no"
        /\ \A r \in Requests : request[r] = "idle" /\ shown[r] = None

\* start() confirms the identity of a user that it has.
ArrivalKnown ==
    /\ start = "identity" /\ mode = "cognito" => arriving # None
    /\ start \in {"session", "stale"} => mode = "cognito"

\* After it the page has a session until the first invalidate.
Live ==
    start = "over" /\ revision = 0 =>
        status = "ready" /\ (mode = "cognito" => user # None)

\* The timer runs for a user.
TimerHasUser == timer => user # None

\* Local mode has neither users nor renewals.
LocalMode ==
    mode = "local" => user = None /\ renewal.at = "none" /\ store = None

\* A renewal that is under way began in the page's session.
RenewalSeen ==
    renewal.at \in {"silent", "answered", "removing"} => renewal.revision = 0

\* So did every request.
RequestsSeen == \A r \in Requests : request[r] # "idle" => seen[r] = 0

\* While the session lasts, the token a request goes on with is its user's: a
\* silent renewal brings the same person back.
TokensOwned ==
    \A r \in Requests :
        revision = 0 /\ request[r] \in {"tokened", "fetching", "reading"} =>
            IF mode = "local" THEN token[r] = None
            ELSE token[r] = [session |-> 0, subject |-> user.subject]

\* The workspace goes with the session.
Unmounted == ~ unmounted => revision = 0

\* A user that is still stored when the session has ended is about to go.
StoreEmptied ==
    revision > 0 /\ store # None =>
        \/ removals > 0
        \/ renewal.at = "removing"
        \/ renewal.at = "answered" /\ renewal.answer # None

SessionInv ==
    /\ Starting /\ ArrivalKnown /\ Live /\ TimerHasUser /\ LocalMode
    /\ EndedForGood /\ ShownIsOwn /\ StoreEmptied /\ Unmounted

IInv == TypeOK /\ SessionInv /\ RenewalSeen /\ RequestsSeen /\ TokensOwned

USE DEF workspace

LEMMA InitInv == Init => IInv
<1> SUFFICES ASSUME Init PROVE IInv
  OBVIOUS
<1>1. None \notin Users
  BY SessionAssumption
<1>2. TypeOK
  BY DEF Init, TypeOK, NoRenewal
<1>3. SessionInv
  BY <1>1 DEF Init, NoRenewal, SessionInv, Starting, ArrivalKnown, Live, TimerHasUser,
              LocalMode, EndedForGood, ShownIsOwn, StoreEmptied, Unmounted
<1>4. RenewalSeen /\ RequestsSeen /\ TokensOwned
  BY DEF Init, NoRenewal, RenewalSeen, RequestsSeen, TokensOwned
<1> QED
  BY <1>2, <1>3, <1>4 DEF IInv

-----------------------------------------------------------------------------
(* What the steps of several callbacks have in common *)

LEMMA InvalidateTypes ==
    ASSUME TypeOK, NEW m \in {"error", "signed_out"}, Invalidate(m)
    PROVE  /\ status' \in {"loading", "ready", "signed_out", "error"}
           /\ user' \in Users \cup {None}
           /\ revision' \in Nat /\ removals' \in Nat /\ timer' \in BOOLEAN
           /\ shown' \in [Requests -> Subjects \cup {"local", None}]
           /\ unmounted' \in BOOLEAN
           /\ revision' # 0 /\ TokensOwned'
<1>1. revision \in Nat /\ removals \in Nat
  BY DEF TypeOK
<1>2. revision' \in Nat /\ removals' \in Nat /\ revision' # 0
  BY <1>1 DEF Invalidate
<1>3. status' \in {"loading", "ready", "signed_out", "error"}
  BY DEF Invalidate
<1>4. shown' \in [Requests -> Subjects \cup {"local", None}]
  BY DEF Invalidate
<1>5. user' \in Users \cup {None} /\ timer' \in BOOLEAN /\ unmounted' \in BOOLEAN
  BY DEF Invalidate
<1>6. TokensOwned'
  BY <1>1 DEF TokensOwned, Invalidate
<1> QED
  BY <1>2, <1>3, <1>4, <1>5, <1>6

\* Once start() is over, ending the session establishes all that is said of it.
LEMMA InvalidateKeeps ==
    ASSUME IInv, TypeOK', NEW m \in {"error", "signed_out"}, Invalidate(m),
           start' = "over", UNCHANGED <<mode, store>>,
           mode = "local" => renewal'.at = "none"
    PROVE  SessionInv'
<1> USE DEF IInv, SessionInv
<1>1. removals' > 0 \/ mode = "local"
  BY DEF TypeOK, Invalidate
<1>2. revision' > 0 /\ revision' # 0
  BY DEF TypeOK, Invalidate
<1>3. Starting' /\ ArrivalKnown' /\ Live' /\ TimerHasUser'
  BY <1>2 DEF Starting, ArrivalKnown, Live, TimerHasUser, Invalidate
<1>4. LocalMode'
  BY DEF LocalMode, Invalidate
<1>5. EndedForGood' /\ ShownIsOwn'
  BY DEF EndedForGood, ShownIsOwn, Invalidate
<1>6. StoreEmptied'
  BY <1>1, <1>4 DEF StoreEmptied, LocalMode
<1>7. Unmounted'
  BY DEF Unmounted, Invalidate
<1> QED
  BY <1>3, <1>4, <1>5, <1>6, <1>7

\* A step of a request alone.
LEMMA RequestMoves ==
    ASSUME IInv, start = "over",
           UNCHANGED <<mode, session, start, arriving, renewal, library, leaving, workspace>>
    PROVE  SessionInv' /\ RenewalSeen'
BY DEF IInv, session, library, SessionInv, RenewalSeen, Starting, ArrivalKnown, Live,
       TimerHasUser, LocalMode, EndedForGood, ShownIsOwn, Owner, StoreEmptied, Unmounted

\* Only what has begun, after start(), can go on.
LEMMA Begun ==
    ASSUME IInv
    PROVE  /\ renewal.at # "none" => start = "over"
           /\ \A r \in Requests : request[r] # "idle" => start = "over"
           /\ status # "loading" \/ leaving # "no" \/ user # None => start = "over"
           /\ status = "ready" \/ user # None => revision = 0
BY DEF IInv, SessionInv, Starting, EndedForGood, TypeOK

-----------------------------------------------------------------------------
(* start() *)

LEMMA StartStepInv ==
    ASSUME IInv, StartStep
    PROVE  IInv'
<1> USE DEF IInv, StartOver
<1>0. None \notin Users
  BY SessionAssumption
<1> USE DEF KeepSession
<1>a. start # "over" => revision = 0 /\ ~ Superseded
  BY DEF SessionInv, Starting, Superseded
<1>b. start # "over" => \A r \in Requests : request[r] = "idle"
  BY DEF SessionInv, Starting
<1>1. CASE StartRaises
  <2>1. TypeOK'
    BY <1>1, <1>a, InvalidateTypes DEF TypeOK, StartRaises, calls
  <2>2. SessionInv'
    <3>1. Invalidate("error") /\ start' = "over" /\ UNCHANGED <<mode, store>>
      BY <1>1, <1>a DEF StartRaises
    <3>2. mode = "local" => renewal'.at = "none"
      BY <1>1 DEF StartRaises, SessionInv, LocalMode
    <3> QED
      BY <2>1, <3>1, <3>2, InvalidateKeeps
  <2>3. RenewalSeen' /\ RequestsSeen' /\ TokensOwned'
    BY <1>1, <1>b DEF StartRaises, calls, RenewalSeen, RequestsSeen, TokensOwned
  <2> QED
    BY <2>1, <2>2, <2>3
<1>2. CASE SessionFound
  <2> USE DEF SessionFound, session, calls
  <2>1. TypeOK'
    BY <1>2 DEF TypeOK
  <2>2. SessionInv'
    BY <1>2, <1>0 DEF SessionInv, Starting, ArrivalKnown, Live, TimerHasUser,
                LocalMode, EndedForGood, ShownIsOwn, Owner, StoreEmptied, Unmounted
  <2>3. RenewalSeen' /\ RequestsSeen' /\ TokensOwned'
    BY <1>2 DEF RenewalSeen, RequestsSeen, TokensOwned
  <2> QED
    BY <2>1, <2>2, <2>3
<1>3. CASE SessionChecked
  <2> USE DEF SessionChecked, session, calls
  <2>1. TypeOK'
    BY <1>3, <1>a, InvalidateTypes DEF TypeOK
  <2>2. SessionInv'
    <3>1. CASE start' = "over"
      <4>1. Invalidate("signed_out")
        BY <1>3, <1>a, <3>1
      <4>2. UNCHANGED <<mode, store>> /\ (mode = "local" => renewal'.at = "none")
        BY <1>3 DEF SessionInv, LocalMode
      <4> QED
        BY <1>3, <2>1, <3>1, <4>1, <4>2, InvalidateKeeps
    <3>2. CASE start' # "over"
      BY <1>3, <1>a, <3>2 DEF SessionInv, Starting, ArrivalKnown, Live, TimerHasUser,
                LocalMode, EndedForGood, ShownIsOwn, Owner, StoreEmptied, Unmounted
    <3> QED
      BY <3>1, <3>2
  <2>3. RenewalSeen' /\ RequestsSeen' /\ TokensOwned'
    BY <1>3, <1>b DEF RenewalSeen, RequestsSeen, TokensOwned
  <2> QED
    BY <2>1, <2>2, <2>3
<1>4. CASE IdentityConfirmed
  <2> USE DEF IdentityConfirmed, library, calls
  <2>1. mode = "cognito" => \A life \in {"fresh", "due"} :
            [arriving EXCEPT !.life = life] \in Users
    BY <1>4, <1>0 DEF TypeOK, SessionInv, ArrivalKnown, Users, Lives
  <2>2. /\ status' = "ready" /\ revision' = revision
        /\ \/ mode = "local" /\ user' = user /\ timer' = timer
           \/ mode = "cognito" /\ user' \in Users /\ timer' = TRUE
    <3>1. CASE mode = "local"
      BY <1>4, <1>a, <3>1
    <3>2. CASE mode = "cognito"
      <4>1. PICK life \in {"fresh", "due"} : Accept([arriving EXCEPT !.life = life])
        BY <1>4, <1>a, <3>2
      <4> QED
        BY <2>1, <3>2, <4>1 DEF Accept
    <3> QED
      BY <3>1, <3>2 DEF TypeOK
  <2>3. TypeOK'
    BY <1>4, <2>2 DEF TypeOK
  <2>4. SessionInv'
    BY <1>4, <1>0, <2>2 DEF TypeOK, SessionInv, Starting, ArrivalKnown, Live,
            TimerHasUser, LocalMode, EndedForGood, ShownIsOwn, StoreEmptied, Unmounted
  <2>5. RenewalSeen' /\ RequestsSeen' /\ TokensOwned'
    BY <1>4, <1>b DEF RenewalSeen, RequestsSeen, TokensOwned
  <2> QED
    BY <2>3, <2>4, <2>5
<1> QED
  BY <1>1, <1>2, <1>3, <1>4 DEF StartStep

-----------------------------------------------------------------------------
(* Time, the timer and the renewal *)

LEMMA AgeInv ==
    ASSUME IInv, Age
    PROVE  IInv'
<1> USE DEF IInv
<1>0. None \notin Users
  BY SessionAssumption
<1>1. user \in Users /\ user' \in Users /\ user'.subject = user.subject
  BY DEF TypeOK, Age, Users, Lives
<1>2. UNCHANGED <<mode, path, status, revision, timer, start, arriving, renewal, store,
                  removals, leaving, request, seen, token, workspace>>
  BY DEF Age, library, calls
<1>3. TypeOK'
  BY <1>1, <1>2 DEF TypeOK
<1>4. Starting' /\ ArrivalKnown' /\ Live' /\ TimerHasUser' /\ LocalMode'
  BY <1>0, <1>1, <1>2 DEF SessionInv, Starting, ArrivalKnown, Live, TimerHasUser, LocalMode
<1>5. EndedForGood' /\ ShownIsOwn' /\ StoreEmptied' /\ Unmounted'
  BY <1>0, <1>1, <1>2 DEF SessionInv, EndedForGood, ShownIsOwn, Owner, StoreEmptied, Unmounted
<1>6. RenewalSeen' /\ RequestsSeen' /\ TokensOwned'
  BY <1>1, <1>2 DEF RenewalSeen, RequestsSeen, TokensOwned
<1> QED
  BY <1>3, <1>4, <1>5, <1>6 DEF SessionInv

LEMMA TimerFiresInv ==
    ASSUME IInv, TimerFires
    PROVE  IInv'
<1> USE DEF IInv
<1>1. user # None /\ start = "over" /\ revision = 0 /\ mode = "cognito"
  BY Begun DEF TimerFires, SessionInv, TimerHasUser, LocalMode, TypeOK
<1>2. UNCHANGED <<mode, path, start, arriving, store, leaving, request, seen, token>>
  BY DEF TimerFires, calls
<1>3. CASE /\ timer' = FALSE
           /\ renewal' = IF renewal.at = "none"
                         THEN [at |-> "silent", revision |-> revision, answer |-> None]
                         ELSE renewal
           /\ UNCHANGED <<status, user, revision, removals, workspace>>
  <2>1. TypeOK'
    <3>1. renewal' \in [at : {"none", "silent", "answered", "removing", "stuck"},
                        revision : Nat, answer : Users \cup {None}]
      BY <1>3 DEF TypeOK
    <3>2. /\ timer' \in BOOLEAN
          /\ UNCHANGED <<status, user, revision, removals, unmounted, shown>>
      BY <1>3
    <3> QED
      BY <1>2, <3>1, <3>2 DEF TypeOK
  <2>2. SessionInv'
    BY <1>1, <1>2, <1>3 DEF SessionInv, Starting, ArrivalKnown, Live, TimerHasUser,
            LocalMode, EndedForGood, ShownIsOwn, Owner, StoreEmptied, Unmounted
  <2>3. RenewalSeen' /\ RequestsSeen' /\ TokensOwned'
    BY <1>1, <1>2, <1>3 DEF RenewalSeen, RequestsSeen, TokensOwned
  <2> QED
    BY <2>1, <2>2, <2>3
<1>4. CASE Invalidate("error") /\ UNCHANGED renewal
  <2>1. TypeOK'
    BY <1>2, <1>4, InvalidateTypes DEF TypeOK
  <2>2. SessionInv'
    BY <1>1, <1>2, <1>4, <2>1, InvalidateKeeps
  <2>3. RenewalSeen' /\ RequestsSeen' /\ TokensOwned'
    BY <1>2, <1>4, InvalidateTypes DEF RenewalSeen, RequestsSeen
  <2> QED
    BY <2>1, <2>2, <2>3
<1> QED
  BY <1>3, <1>4 DEF TimerFires

LEMMA SilentAnswersInv ==
    ASSUME IInv, SilentAnswers
    PROVE  IInv'
<1> USE DEF IInv
<1>1. UNCHANGED <<mode, path, session, start, arriving, removals, leaving, calls, workspace>>
  BY DEF SilentAnswers
<1>2. /\ renewal'.at = "answered" /\ renewal'.revision = renewal.revision
      /\ renewal'.answer \in Users \cup {None}
      /\ store' # store => renewal'.answer = store' /\ store' \in Users
  BY DEF TypeOK, SilentAnswers
<1>3. renewal' \in [at : {"none", "silent", "answered", "removing", "stuck"},
                    revision : Nat, answer : Users \cup {None}]
  BY DEF TypeOK, SilentAnswers
<1> USE DEF session, calls
<1>4. TypeOK'
  BY <1>1, <1>2, <1>3 DEF TypeOK
<1>5. start = "over" /\ mode = "cognito"
  BY Begun DEF SilentAnswers, SessionInv, LocalMode, TypeOK
<1>6. Starting' /\ ArrivalKnown' /\ Live' /\ TimerHasUser' /\ LocalMode'
  BY <1>1, <1>5 DEF SessionInv, Starting, ArrivalKnown, Live, TimerHasUser, LocalMode
<1>7. EndedForGood' /\ ShownIsOwn' /\ Unmounted'
  BY <1>1 DEF SessionInv, EndedForGood, ShownIsOwn, Owner, Unmounted
<1>8. StoreEmptied'
  BY <1>1, <1>2, SessionAssumption DEF SilentAnswers, SessionInv, StoreEmptied, Unmounted
<1>9. RenewalSeen' /\ RequestsSeen' /\ TokensOwned'
  BY <1>1, <1>2 DEF SilentAnswers, RenewalSeen, RequestsSeen, TokensOwned
<1> QED
  BY <1>4, <1>6, <1>7, <1>8, <1>9 DEF SessionInv

\* Those who waited go on; nobody else moves.
LEMMA SettleMoves ==
    ASSUME IInv, NEW outcome \in {"renewed", "rejected"}, Settle(outcome),
           UNCHANGED <<mode, seen, token>>,
           revision' = 0 => revision = 0 /\ user.subject = user'.subject
    PROVE  /\ renewal' = NoRenewal
           /\ renewal' \in [at : {"none", "silent", "answered", "removing", "stuck"},
                            revision : Nat, answer : Users \cup {None}]
           /\ request' \in [Requests -> {"idle", "renewing", "renewed", "tokened",
                                         "fetching", "reading", "rejected"}]
           /\ RenewalSeen' /\ RequestsSeen' /\ TokensOwned'
<1>1. renewal' = NoRenewal /\ renewal'.at = "none"
  BY DEF Settle, NoRenewal
<1>2. renewal' \in [at : {"none", "silent", "answered", "removing", "stuck"},
                    revision : Nat, answer : Users \cup {None}]
  BY <1>1 DEF NoRenewal
<1>3. request' \in [Requests -> {"idle", "renewing", "renewed", "tokened", "fetching",
                                 "reading", "rejected"}]
  BY DEF IInv, TypeOK, Settle
<1>4. RequestsSeen'
  BY DEF IInv, TypeOK, RequestsSeen, Settle
<1>5. TokensOwned'
  BY DEF IInv, TypeOK, TokensOwned, Settle
<1> QED
  BY <1>1, <1>2, <1>3, <1>4, <1>5 DEF RenewalSeen

LEMMA RenewalEndsInv ==
    ASSUME IInv, RenewalEnds
    PROVE  IInv'
<1> USE DEF IInv
<1>1. start = "over" /\ revision = 0 /\ mode = "cognito"
  BY Begun DEF RenewalEnds, SessionInv, LocalMode, TypeOK, RenewalSeen
<1>2. UNCHANGED <<mode, path, start, arriving, store, leaving, seen, token>>
  BY DEF RenewalEnds
<1>3. CASE /\ renewal.answer # None /\ Acceptable(renewal.answer)
           /\ Accept(renewal.answer) /\ Settle("renewed") /\ UNCHANGED <<removals, workspace>>
  <2>1. renewal.answer \in Users
    BY <1>3 DEF TypeOK
  <2>2. /\ user' = renewal.answer /\ timer' = TRUE /\ status' = "ready"
        /\ revision' = revision
    BY <1>3 DEF Accept
  <2>a. user # None /\ user.subject = renewal.answer.subject
    BY <1>1, <1>3 DEF SessionInv, Live, Acceptable
  <2>b. user.subject = user'.subject /\ revision = 0
    BY <1>1, <2>2, <2>a
  <2>3. TypeOK'
    BY <1>2, <1>3, <2>1, <2>2, <2>b, SettleMoves DEF TypeOK
  <2>4. Starting' /\ ArrivalKnown' /\ Live' /\ TimerHasUser' /\ LocalMode'
    BY <1>1, <1>2, <2>1, <2>2, SessionAssumption
       DEF Starting, ArrivalKnown, Live, TimerHasUser, LocalMode
  <2>6. EndedForGood' /\ ShownIsOwn' /\ StoreEmptied' /\ Unmounted'
    BY <1>1, <1>2, <1>3, <2>2, <2>a DEF SessionInv, EndedForGood, ShownIsOwn, Owner, StoreEmptied, Unmounted
  <2>7. RenewalSeen' /\ RequestsSeen' /\ TokensOwned'
    BY <1>2, <1>3, <2>b, SettleMoves
  <2> QED
    BY <2>3, <2>4, <2>6, <2>7 DEF SessionInv
<1>4. CASE Invalidate("error") /\ Settle("rejected")
  <2>1. TypeOK'
    BY <1>2, <1>4, SettleMoves, InvalidateTypes DEF TypeOK
  <2>2. SessionInv'
    BY <1>1, <1>2, <1>4, <2>1, InvalidateKeeps
  <2>3. RenewalSeen' /\ RequestsSeen' /\ TokensOwned'
    BY <1>2, <1>4, InvalidateTypes, SettleMoves
  <2> QED
    BY <2>1, <2>2, <2>3
<1> QED
  BY <1>3, <1>4 DEF RenewalEnds

LEMMA RenewalTooLateInv ==
    ASSUME IInv, RenewalTooLate \/ RenewalRemoves
    PROVE  IInv'
<1> USE DEF IInv
<1>1. start = "over" /\ mode = "cognito"
  BY Begun DEF RenewalTooLate, RenewalRemoves, SessionInv, LocalMode, TypeOK
<1>2. /\ UNCHANGED <<mode, path, status, user, revision, timer, start, arriving,
                     removals, leaving, seen, token, workspace>>
      /\ store' \in {store, None}
  BY DEF RenewalTooLate, RenewalRemoves, session, library
<1>3. CASE /\ renewal.answer # None /\ renewal' = [renewal EXCEPT !.at = "removing"]
           /\ UNCHANGED request
  <2>1. /\ renewal'.at = "removing" /\ renewal'.revision = renewal.revision
        /\ renewal' \in [at : {"none", "silent", "answered", "removing", "stuck"},
                         revision : Nat, answer : Users \cup {None}]
    BY <1>3 DEF TypeOK
  <2>2. RenewalSeen' /\ RequestsSeen' /\ TokensOwned'
    BY <1>2, <1>3, <2>1 DEF RenewalTooLate, RenewalRemoves, RenewalSeen, RequestsSeen, TokensOwned
  <2>3. StoreEmptied'
    BY <1>2, <2>1 DEF StoreEmptied
  <2> QED
    BY <1>1, <1>2, <1>3, <2>1, <2>2, <2>3 DEF TypeOK, SessionInv, Starting, ArrivalKnown,
       Live, TimerHasUser, LocalMode, EndedForGood, ShownIsOwn, Owner, Unmounted
<1>4. CASE Settle("rejected") /\ (renewal.answer = None \/ store' = None)
  <2>1. StoreEmptied'
    BY <1>2, <1>4 DEF RenewalTooLate, RenewalRemoves, library, SessionInv, StoreEmptied, Unmounted
  <2> QED
    BY <1>1, <1>2, <1>4, <2>1, SettleMoves DEF TypeOK, SessionInv, Starting, ArrivalKnown,
       Live, TimerHasUser, LocalMode, EndedForGood, ShownIsOwn, Owner, Unmounted
<1> QED
  BY <1>3, <1>4 DEF RenewalTooLate, RenewalRemoves

LEMMA RemovalEndsInv ==
    ASSUME IInv, RemovalEnds
    PROVE  IInv'
<1> USE DEF IInv, RemovalEnds, session, calls
<1>1. TypeOK'
  BY DEF TypeOK
<1>2. SessionInv'
  BY DEF SessionInv, Starting, ArrivalKnown, Live, TimerHasUser, LocalMode,
         EndedForGood, ShownIsOwn, Owner, StoreEmptied, Unmounted
<1>3. RenewalSeen' /\ RequestsSeen' /\ TokensOwned'
  BY DEF RenewalSeen, RequestsSeen, TokensOwned
<1> QED
  BY <1>1, <1>2, <1>3

-----------------------------------------------------------------------------
(* The user *)

LEMMA LoadInv ==
    ASSUME IInv, Load
    PROVE  IInv'
<1> USE DEF NoRenewal
<1>1. PICK where \in {"/", "/auth/callback"} : Loaded(where)
  BY DEF Load
<1>2. mode \in {"local", "cognito"}
  BY DEF IInv, TypeOK
<1>3. TypeOK'
  BY <1>1, <1>2 DEF TypeOK, Loaded
<1>4. SessionInv'
  BY <1>1, <1>2, SessionAssumption DEF Loaded, SessionInv, Starting, ArrivalKnown, Live,
     TimerHasUser, LocalMode, EndedForGood, ShownIsOwn, StoreEmptied, Unmounted
<1>5. RenewalSeen' /\ RequestsSeen' /\ TokensOwned'
  BY <1>1 DEF Loaded, RenewalSeen, RequestsSeen, TokensOwned
<1> QED
  BY <1>3, <1>4, <1>5 DEF IInv

LEMMA UserStepInv ==
    ASSUME IInv, UserStep
    PROVE  IInv'
<1> USE DEF IInv
<1>1. CASE Login
  <2>1. start = "over" /\ revision # 0 /\ revision > 0
    BY <1>1 DEF Login, TypeOK, SessionInv, Starting, Live
  <2>2. UNCHANGED <<mode, path, user, revision, timer, start, arriving, renewal, store,
                    removals, request, seen, token, workspace>>
    BY <1>1 DEF Login, library, calls
  <2>3. /\ status' \in {"loading", "ready", "signed_out", "error"} /\ status' # "ready"
        /\ leaving' \in {"no", "login", "reload", "logout"}
    BY <1>1 DEF Login
  <2>4. TypeOK'
    BY <2>2, <2>3 DEF TypeOK
  <2>5. SessionInv'
    BY <2>1, <2>2, <2>3, <1>1 DEF Login, SessionInv, Starting, ArrivalKnown, Live,
       TimerHasUser, LocalMode, EndedForGood, ShownIsOwn, Owner, StoreEmptied, Unmounted
  <2>6. RenewalSeen' /\ RequestsSeen' /\ TokensOwned'
    BY <2>2 DEF RenewalSeen, RequestsSeen, TokensOwned
  <2> QED
    BY <2>4, <2>5, <2>6
<1>2. CASE LoginRaises \/ Logout
  <2>1. PICK m \in {"error", "signed_out"} : Invalidate(m)
    BY <1>2 DEF LoginRaises, Logout
  <2>2. /\ UNCHANGED <<mode, path, start, arriving, renewal, store, request, seen, token>>
        /\ leaving' \in {"no", "login", "reload", "logout"}
    BY <1>2 DEF LoginRaises, Logout, calls
  <2>3. start = "over"
    BY <1>2, Begun DEF LoginRaises, Logout
  <2>4. TypeOK'
    BY <2>1, <2>2, InvalidateTypes DEF TypeOK
  <2>5. mode = "local" => renewal'.at = "none"
    BY <2>2 DEF SessionInv, LocalMode
  <2>6. SessionInv'
    BY <2>1, <2>2, <2>3, <2>4, <2>5, InvalidateKeeps
  <2>7. RenewalSeen' /\ RequestsSeen' /\ TokensOwned'
    BY <2>1, <2>2, InvalidateTypes DEF RenewalSeen, RequestsSeen
  <2> QED
    BY <2>4, <2>6, <2>7
<1>3. CASE Load
  BY <1>3, LoadInv
<1> QED
  BY <1>1, <1>2, <1>3 DEF UserStep

-----------------------------------------------------------------------------
(* The requests *)

LEMMA RequestFinishes ==
    ASSUME IInv, NEW r \in Requests, Finish(r), UNCHANGED mode
    PROVE  /\ request' \in [Requests -> {"idle", "renewing", "renewed", "tokened",
                                         "fetching", "reading", "rejected"}]
           /\ seen' \in [Requests -> Nat]
           /\ token' \in [Requests -> [session : Nat, subject : Subjects] \cup {None}]
           /\ RequestsSeen'
           /\ UNCHANGED <<user, revision>> => TokensOwned'
BY DEF IInv, TypeOK, Finish, RequestsSeen, TokensOwned

\* accessToken() returns the token of whoever is signed in.
LEMMA TokenTaken ==
    ASSUME IInv, status = "ready" \/ user # None
    PROVE  /\ AccessToken \in [session : Nat, subject : Subjects] \cup {None}
           /\ AccessToken = IF mode = "local" THEN None
                            ELSE [session |-> 0, subject |-> user.subject]
<1>1. revision = 0 /\ start = "over"
  BY Begun
<1>2. mode = "cognito" => user \in Users
  BY <1>1 DEF IInv, SessionInv, Live, TypeOK
<1> QED
  BY <1>1, <1>2 DEF IInv, TypeOK, AccessToken, Users

LEMMA BeginInv ==
    ASSUME IInv, NEW r \in Requests, Begin(r)
    PROVE  IInv'
<1> USE DEF IInv
<1>1. start = "over" /\ revision = 0
  BY Begun DEF Begin
<1>2. /\ UNCHANGED <<mode, path, start, arriving, store, leaving>>
      /\ seen' = [seen EXCEPT ![r] = 0]
      /\ request[r] = "idle" /\ status = "ready"
  BY <1>1 DEF Begin
<1>3. seen' \in [Requests -> Nat]
  BY <1>2 DEF TypeOK
<1>4. CASE /\ token' = [token EXCEPT ![r] = AccessToken]
           /\ Goto(r, "tokened")
           /\ UNCHANGED <<renewal, session, removals, workspace>>
  <2>1. token' \in [Requests -> [session : Nat, subject : Subjects] \cup {None}]
    BY <1>2, <1>4, TokenTaken DEF TypeOK
  <2>2. TypeOK'
    BY <1>2, <1>3, <1>4, <2>1 DEF TypeOK, session, Goto
  <2>3. SessionInv' /\ RenewalSeen'
    BY <1>1, <1>2, <1>4, RequestMoves DEF library
  <2>4. RequestsSeen'
    BY <1>1, <1>2, <1>4 DEF TypeOK, RequestsSeen, Goto
  <2>5. TokensOwned'
    BY <1>2, <1>4, TokenTaken DEF TypeOK, TokensOwned, session, Goto
  <2> QED
    BY <2>2, <2>3, <2>4, <2>5
<1>5. CASE /\ mode = "cognito" /\ user.life # "fresh"
           /\ IF renewal.at = "none" THEN BeginRenewal
              ELSE UNCHANGED <<renewal, session, removals, workspace>>
           /\ Goto(r, IF renewal'.at = "stuck" THEN "rejected" ELSE "renewing")
           /\ UNCHANGED token
  <2>1. RequestsSeen'
    BY <1>1, <1>2, <1>5 DEF TypeOK, RequestsSeen, Goto
  <2>2. request' = [request EXCEPT ![r] = IF renewal'.at = "stuck" THEN "rejected"
                                          ELSE "renewing"]
    BY <1>5 DEF Goto
  <2>a. request' \in [Requests -> {"idle", "renewing", "renewed", "tokened", "fetching",
                                   "reading", "rejected"}]
    BY <2>2 DEF TypeOK
  <2>b. UNCHANGED session => TokensOwned'
    BY <1>2, <1>5, <2>2 DEF TypeOK, TokensOwned, session
  <2>3. CASE UNCHANGED <<renewal, session, removals, workspace>>
    <3>1. TypeOK'
      BY <1>2, <1>3, <1>5, <2>a, <2>3 DEF TypeOK, session
    <3>2. SessionInv' /\ RenewalSeen'
      BY <1>1, <1>2, <2>3, RequestMoves DEF library
    <3> QED
      BY <2>1, <2>3, <2>b, <3>1, <3>2
  <2>4. CASE /\ renewal' = [at |-> "silent", revision |-> revision, answer |-> None]
             /\ UNCHANGED <<session, removals, workspace>>
    <3>1. renewal' \in [at : {"none", "silent", "answered", "removing", "stuck"},
                        revision : Nat, answer : Users \cup {None}]
      BY <2>4 DEF TypeOK
    <3>2. TypeOK'
      BY <1>2, <1>3, <1>5, <2>a, <2>4, <3>1 DEF TypeOK, session
    <3>3. SessionInv' /\ RenewalSeen'
      BY <1>1, <1>2, <1>5, <2>4 DEF session, SessionInv, Starting, ArrivalKnown, Live,
         TimerHasUser, LocalMode, EndedForGood, ShownIsOwn, Owner, StoreEmptied, Unmounted, RenewalSeen
    <3> QED
      BY <2>1, <2>4, <2>b, <3>2, <3>3
  <2>5. CASE renewal' = [NoRenewal EXCEPT !.at = "stuck"] /\ Invalidate("error")
    <3>1. /\ renewal'.at = "stuck"
          /\ renewal' \in [at : {"none", "silent", "answered", "removing", "stuck"},
                           revision : Nat, answer : Users \cup {None}]
      BY <2>5 DEF NoRenewal
    <3>2. TypeOK'
      BY <1>2, <1>3, <1>5, <2>a, <2>5, <3>1, InvalidateTypes DEF TypeOK
    <3>3. SessionInv'
      BY <1>1, <1>2, <1>5, <2>5, <3>2, InvalidateKeeps
    <3>4. RenewalSeen' /\ TokensOwned'
      BY <2>5, <3>1, InvalidateTypes DEF RenewalSeen
    <3> QED
      BY <2>1, <3>2, <3>3, <3>4
  <2> QED
    BY <1>5, <2>3, <2>4, <2>5 DEF BeginRenewal
<1> QED
  BY <1>4, <1>5 DEF Begin

LEMMA RequestStepInv ==
    ASSUME IInv, NEW r \in Requests, RequestStep(r)
    PROVE  IInv'
<1> USE DEF IInv
<1>1. CASE Begin(r)
  BY <1>1, BeginInv
<1>2. CASE Resume(r) \/ Send(r) \/ Receive(r)
  <2> USE DEF Resume, Send, Receive, Goto
  <2>1. start = "over" /\ UNCHANGED <<mode, path, session, start, arriving, renewal, library,
                                      leaving, seen, workspace>>
    BY <1>2, Begun
  <2>2. request' \in [Requests -> {"idle", "renewing", "renewed", "tokened", "fetching",
                                   "reading", "rejected"}]
    BY <1>2 DEF TypeOK
  <2>3. token' = token \/ (user # None /\ token' = [token EXCEPT ![r] = AccessToken])
    BY <1>2
  <2>4. token' \in [Requests -> [session : Nat, subject : Subjects] \cup {None}]
    BY <2>3, TokenTaken DEF TypeOK
  <2>5. TypeOK'
    BY <2>1, <2>2, <2>4 DEF TypeOK, session, library
  <2>6. RequestsSeen'
    BY <1>2, <2>1 DEF TypeOK, RequestsSeen
  <2>7. TokensOwned'
    <3>1. CASE Resume(r)
      BY <2>1, <3>1, TokenTaken DEF TypeOK, TokensOwned, session
    <3>2. CASE Send(r) \/ Receive(r)
      BY <2>1, <3>2 DEF TypeOK, TokensOwned, session
    <3> QED
      BY <1>2, <3>1, <3>2
  <2>8. SessionInv' /\ RenewalSeen'
    BY <2>1, RequestMoves
  <2> QED
    BY <2>5, <2>6, <2>7, <2>8
<1>3. CASE Raise(r) \/ Refused(r)
  <2>1. /\ start = "over" /\ Finish(r)
        /\ UNCHANGED <<mode, path, session, start, arriving, renewal, library, leaving,
                       workspace>>
    BY <1>3, Begun DEF Raise, Refused
  <2>2. TypeOK'
    BY <2>1, RequestFinishes DEF TypeOK, session, library
  <2>3. RequestsSeen' /\ TokensOwned'
    BY <2>1, RequestFinishes DEF session
  <2>4. SessionInv' /\ RenewalSeen'
    BY <2>1, RequestMoves
  <2> QED
    BY <2>2, <2>3, <2>4
<1>4. CASE Deliver(r)
  <2>1. /\ start = "over" /\ Finish(r)
        /\ UNCHANGED <<mode, path, status, user, revision, timer, start, arriving, renewal,
                       store, removals, leaving, unmounted>>
        /\ shown' = IF unmounted THEN shown ELSE [shown EXCEPT ![r] = FetchedFor(r)]
    BY <1>4, Begun DEF Deliver, session, library
  <2>2. ~ unmounted => /\ revision = 0 /\ status = "ready"
                       /\ mode = "cognito" => user \in Users
    BY <2>1 DEF TypeOK, SessionInv, Live, Unmounted
  <2>3. ~ unmounted => FetchedFor(r) = Owner
    BY <1>4, <2>2, SessionAssumption
       DEF Deliver, TypeOK, Users, TokensOwned, FetchedFor, Owner
  <2>4. Owner \in Subjects \cup {"local", None} \/ unmounted
    BY <2>2 DEF TypeOK, Owner, Users
  <2>5. shown' \in [Requests -> Subjects \cup {"local", None}]
    BY <2>1, <2>3, <2>4 DEF TypeOK
  <2>6. TypeOK'
    BY <2>1, <2>5, RequestFinishes DEF TypeOK
  <2>7. RequestsSeen' /\ TokensOwned'
    BY <2>1, RequestFinishes
  <2>8. ShownIsOwn'
    <3>1. Owner' = Owner /\ (~ unmounted => status' = "ready")
      BY <2>1, <2>2 DEF Owner
    <3>2. CASE unmounted
      BY <2>1, <3>1, <3>2 DEF SessionInv, ShownIsOwn
    <3>3. CASE ~ unmounted
      BY <2>1, <2>3, <3>1, <3>3 DEF TypeOK, SessionInv, ShownIsOwn
    <3> QED
      BY <3>2, <3>3
  <2>9. SessionInv' /\ RenewalSeen'
    BY <2>1, <2>8 DEF SessionInv, RenewalSeen, Starting, ArrivalKnown, Live,
         TimerHasUser, LocalMode, EndedForGood, StoreEmptied, Unmounted
  <2> QED
    BY <2>6, <2>7, <2>9
<1>5. CASE Unauthorized(r)
  <2>1. /\ start = "over" /\ mode = "cognito" /\ Finish(r) /\ Invalidate("error")
        /\ UNCHANGED <<mode, path, start, arriving, renewal, store, leaving>>
    BY <1>5, Begun DEF Unauthorized
  <2>2. TypeOK'
    BY <2>1, RequestFinishes, InvalidateTypes DEF TypeOK
  <2>3. RequestsSeen' /\ RenewalSeen' /\ TokensOwned'
    BY <2>1, RequestFinishes, InvalidateTypes DEF RenewalSeen
  <2>4. SessionInv'
    BY <2>1, <2>2, InvalidateKeeps
  <2> QED
    BY <2>2, <2>3, <2>4
<1> QED
  BY <1>1, <1>2, <1>3, <1>4, <1>5 DEF RequestStep

-----------------------------------------------------------------------------
(* The theorems *)

LEMMA StutterInv ==
    ASSUME IInv, UNCHANGED vars
    PROVE  IInv'
BY DEF vars, session, library, calls, IInv, TypeOK, SessionInv, Starting, ArrivalKnown, Live,
       TimerHasUser, LocalMode, EndedForGood, ShownIsOwn, Owner, StoreEmptied, Unmounted, RenewalSeen,
       RequestsSeen, TokensOwned

LEMMA StepInv == IInv /\ [Next]_vars => IInv'
<1> SUFFICES ASSUME IInv, [Next]_vars PROVE IInv'
  OBVIOUS
<1>1. CASE StartStep
  BY <1>1, StartStepInv
<1>2. CASE RenewalStep
  BY <1>2, TimerFiresInv, SilentAnswersInv, RenewalEndsInv, RenewalTooLateInv, RemovalEndsInv
     DEF RenewalStep
<1>3. CASE Age
  BY <1>3, AgeInv
<1>4. CASE UserStep
  BY <1>4, UserStepInv
<1>5. CASE \E r \in Requests : RequestStep(r)
  BY <1>5, RequestStepInv
<1>6. CASE UNCHANGED vars
  BY <1>6, StutterInv
<1> QED
  BY <1>1, <1>2, <1>3, <1>4, <1>5, <1>6 DEF Next

\* Every reachable state satisfies the inductive invariant.
THEOREM Invariance == Spec => []IInv
BY InitInv, StepInv, PTL DEF Spec

\* The variables have their types.
THEOREM TypeCorrect == Spec => []TypeOK
<1>1. IInv => TypeOK
  BY DEF IInv
<1> QED
  BY <1>1, Invariance, PTL

\* No answer that comes late (of start, of a renewal or of a request) brings
\* an ended session back.
THEOREM NoRevival == Spec => []EndedForGood
<1>1. IInv => EndedForGood
  BY DEF IInv, SessionInv
<1> QED
  BY <1>1, Invariance, PTL

\* The workspace never shows one person what was fetched for another.
THEOREM OwnDataOnly == Spec => []ShownIsOwn
<1>1. IInv => ShownIsOwn
  BY DEF IInv, SessionInv
<1> QED
  BY <1>1, Invariance, PTL

\* Removals and renewals that overlap leave no user of an ended session behind.
THEOREM StoreLeftEmpty == Spec => []NothingKept
<1>1. IInv => NothingKept
  BY DEF IInv, TypeOK, SessionInv, StoreEmptied, Unmounted, NothingKept
<1> QED
  BY <1>1, Invariance, PTL

\* A request leaves the browser only in the session it was made in, and with a
\* token of that session.
THEOREM SentInTime == Spec => SentInSession
<1> DEFINE Leaves(r) == request[r] # "fetching" /\ request'[r] = "fetching"
<1>1. ASSUME IInv, Next, NEW r \in Requests, Leaves(r)
      PROVE  Send(r) /\ revision = seen[r]
  <2> USE DEF IInv, TypeOK, Goto, Finish, Settle
  <2>1. CASE StartStep
    BY <1>1, <2>1 DEF StartStep, StartRaises, SessionFound, SessionChecked,
                      IdentityConfirmed, calls
  <2>2. CASE RenewalStep
    BY <1>1, <2>2 DEF RenewalStep, TimerFires, SilentAnswers, RenewalEnds, RenewalTooLate,
                      RenewalRemoves, RemovalEnds, calls
  <2>3. CASE Age
    BY <1>1, <2>3 DEF Age, calls
  <2>4. CASE UserStep
    BY <1>1, <2>4 DEF UserStep, Login, LoginRaises, Logout, Load, Loaded, calls
  <2>5. CASE \E q \in Requests : RequestStep(q)
    <3>1. PICK q \in Requests : RequestStep(q)
      BY <2>5
    <3>2. CASE Send(q)
      BY <1>1, <3>2 DEF Send
    <3>3. CASE Begin(q)
      BY <1>1, <3>3 DEF Begin
    <3>4. CASE \/ Resume(q) \/ Raise(q) \/ Receive(q) \/ Deliver(q)
               \/ Unauthorized(q) \/ Refused(q)
      BY <1>1, <3>4 DEF Resume, Raise, Receive, Deliver, Unauthorized, Refused
    <3> QED
      BY <3>1, <3>2, <3>3, <3>4 DEF RequestStep
  <2> QED
    BY <1>1, <2>1, <2>2, <2>3, <2>4, <2>5 DEF Next
<1>2. ASSUME IInv, NEW r \in Requests, Send(r), revision = seen[r]
      PROVE  status = "ready" /\ (mode = "cognito" => token[r].session = revision)
  <2>1. request[r] = "tokened" /\ start = "over"
    BY <1>2, Begun DEF Send
  <2>2. seen[r] = 0
    BY <1>2, <2>1 DEF IInv, RequestsSeen
  <2>3. mode = "cognito" => token[r].session = 0
    BY <1>2, <2>1, <2>2 DEF IInv, TokensOwned
  <2> QED
    BY <1>2, <2>1, <2>2, <2>3 DEF IInv, SessionInv, Live
<1>3. IInv /\ [Next]_vars => [LeavesInSession]_vars
  BY <1>1, <1>2 DEF LeavesInSession
<1> QED
  BY <1>3, Invariance, PTL DEF Spec, SentInSession
=============================================================================
