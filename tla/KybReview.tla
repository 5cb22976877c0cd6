------------------------------ MODULE KybReview ------------------------------
(***************************************************************************)
(* The KYB back office: the review route, the single-use nonces of wallet  *)
(* reviews, the sanctions gate in front of an approval, the monthly        *)
(* re-screening and the Sentinel's decisions.  Every route runs on a       *)
(* serverless instance against one database: what it reads before an       *)
(* `await' may be stale after it, and the instance may die at any `await'. *)
(* A step of this module is what happens from one await to the next.       *)
(***************************************************************************)
CONSTANTS
    Applications,   \* rows kyb_applications may come to hold
    Applicants,     \* wallet and role, the key of the partial unique index
    Requests,       \* calls of the review route
    Rescreens,      \* calls of the monthly re-screening
    Nonces,         \* nonces the server issues
    Hits,           \* match ids a screening provider reports
    InitialApplications, \* the applications already under review at the start
    None

VARIABLES
    applications,   \* kyb_applications
    nonces,         \* kyb_operator_nonces
    runs,           \* sanctions_screening_runs
    matches,        \* sanctions_matches
    events,         \* kyb_review_events
    reviews,        \* the calls of the review route
    rescreens       \* the calls of the re-screening

vars == <<applications, nonces, runs, matches, events, reviews, rescreens>>

KybStatus == {"submitted", "under_review", "needs_info", "approved", "rejected"}
Active == {"submitted", "under_review", "needs_info"}
Terminal == {"approved", "rejected"}

TRANSITIONS ==
    [submitted    |-> {"under_review", "rejected", "needs_info"},
     under_review |-> {"approved", "rejected", "needs_info"},
     needs_info   |-> {"under_review", "rejected"},
     approved     |-> {},
     rejected     |-> {}]

isValidTransition(from, to) == from \in KybStatus /\ to \in TRANSITIONS[from]

Subjects == {"entity", "wallet"}
ResultCode == {"clear", "match", "error"}

NoApplication == [applicant |-> None, status |-> "none"]

Application == {NoApplication} \cup [applicant : Applicants, status : KybStatus]

ASSUME KybAssumption ==
    /\ None \notin Applications \cup Applicants \cup Nonces
    /\ InitialApplications \in
         [Applications -> {NoApplication} \cup [applicant : Applicants, status : {"under_review"}]]

\* A row of the audit log of screenings, with the matches the provider named.
Run == [app : Applications, kind : Subjects, result : ResultCode, hits : SUBSET Hits]

\* A row of the Sentinel's queue; `by' tells rows apart that name the same match.
MatchStatus == {"pending_sentinel", "false_positive", "true_match"}
Match == [by : Requests \cup Rescreens, app : Applications, hit : Hits, status : MatchStatus]

Event == [app : Applications, from : KybStatus, to : KybStatus]

-----------------------------------------------------------------------------
(* A call of the review route: where it stands and what it has read.       *)
(* `unrecorded' is the answer 500 after the update, `unscreened' the answer *)
(* 502 after a match that could not be stored, `closed' any other answer.   *)
(* An instance that dies answers nobody and logs nothing.  A call it takes  *)
(* along with a write outstanding stands at `diedAppending', `diedStoring'  *)
(* or `died', with what was in its memory: no action reads that any more,   *)
(* it is kept for the properties alone.                                     *)

ReviewStep == {"none", "nonce", "fetch", "entity", "wallet", "matches", "update", "append",
               "closed", "unrecorded", "unscreened", "diedAppending", "diedStoring"}

ReviewOver == {"none", "closed", "unrecorded", "unscreened", "diedAppending", "diedStoring"}

Review == [step : ReviewStep,
           app : Applications \cup {None},
           to : KybStatus \cup {"none"},
           from : KybStatus \cup {"none"},
           nonce : Nonces \cup {None},
           hits : SUBSET Hits]

NoReview == [step |-> "none", app |-> None, to |-> "none", from |-> "none",
             nonce |-> None, hits |-> {}]

RescreenStep == {"none", "next", "known", "insert", "closed", "died"}

Rescreen == [step : RescreenStep,
             page : SUBSET Applications,          \* approved rows still to screen
             app : Applications \cup {None},
             hits : SUBSET Hits,
             failed : SUBSET (Applications \X Hits)] \* inserts that were logged and skipped

NoRescreen == [step |-> "none", page |-> {}, app |-> None, hits |-> {}, failed |-> {}]

Init ==
    /\ applications = InitialApplications
    /\ nonces = [n \in Nonces |-> "unissued"]
    /\ runs = {}
    /\ matches = {}
    /\ events = [app : {a \in Applications : InitialApplications[a] # NoApplication},
                 from : {"submitted"}, to : {"under_review"}]
    /\ reviews = [r \in Requests |-> NoReview]
    /\ rescreens = [c \in Rescreens |-> NoRescreen]

-----------------------------------------------------------------------------
(* Applications and nonces *)

\* POST /api/kyb/applications: the index refuses a second active application.
SubmitApplication(a, w) ==
    /\ applications[a] = NoApplication
    /\ \A b \in Applications :
          applications[b].applicant = w => applications[b].status \notin Active
    /\ applications' = [applications EXCEPT ![a] = [applicant |-> w, status |-> "submitted"]]
    /\ UNCHANGED <<nonces, runs, matches, events, reviews, rescreens>>

\* POST /api/kyb/auth/nonce.
issueNonce(n) ==
    /\ nonces[n] = "unissued"
    /\ nonces' = [nonces EXCEPT ![n] = "issued"]
    /\ UNCHANGED <<applications, runs, matches, events, reviews, rescreens>>

\* expires_at passes.
NonceExpires(n) ==
    /\ nonces[n] = "issued"
    /\ nonces' = [nonces EXCEPT ![n] = "expired"]
    /\ UNCHANGED <<applications, runs, matches, events, reviews, rescreens>>

-----------------------------------------------------------------------------
(* The review route *)

Advance(r, step) == reviews' = [reviews EXCEPT ![r].step = step]

\* The route answers.  Of the call only a signature outlives its answer.
Close(r) ==
    reviews' = [reviews EXCEPT ![r] =
        IF @.nonce = None THEN [NoReview EXCEPT !.step = "closed"]
                          ELSE [@ EXCEPT !.step = "closed", !.hits = {}]]

\* A wallet review whose signature and role check passed.  The signature binds
\* application, target status and nonce, and may reach the server several times.
ReceiveWalletReview(r, n, a, to) ==
    /\ reviews[r] = NoReview
    /\ nonces[n] # "unissued"
    /\ \A q \in Requests :
          reviews[q].nonce = n => reviews[q].app = a /\ reviews[q].to = to
    /\ reviews' = [reviews EXCEPT ![r] =
          [NoReview EXCEPT !.step = "nonce", !.app = a, !.to = to, !.nonce = n]]
    /\ UNCHANGED <<applications, nonces, runs, matches, events, rescreens>>

\* A review authorised by a server-validated session: no signature, no nonce.
ReceiveEmailReview(r, a, to) ==
    /\ reviews[r] = NoReview
    /\ reviews' = [reviews EXCEPT ![r] =
          [NoReview EXCEPT !.step = "fetch", !.app = a, !.to = to]]
    /\ UNCHANGED <<applications, nonces, runs, matches, events, rescreens>>

\* Mutant: the update that consumes does not ask for `consumed_at is null'.
consumeNonceAgain(r) ==
    /\ reviews[r].step = "nonce"
    /\ nonces[reviews[r].nonce] \in {"issued", "consumed"}
    /\ nonces' = [nonces EXCEPT ![reviews[r].nonce] = "consumed"]
    /\ Advance(r, "fetch")
    /\ UNCHANGED <<applications, runs, matches, events, rescreens>>

\* One conditional update: only an issued, unexpired, unconsumed nonce is taken.
consumeNonce(r) ==
    LET n == reviews[r].nonce IN
    /\ reviews[r].step = "nonce"
    /\ IF nonces[n] = "issued"
       THEN /\ nonces' = [nonces EXCEPT ![n] = "consumed"]
            /\ Advance(r, "fetch")
       ELSE /\ Close(r)
            /\ UNCHANGED nonces
    /\ UNCHANGED <<applications, runs, matches, events, rescreens>>

\* Mutant: an application that is not there, or not in a status to leave, goes on.
FetchApplicationUnchecked(r) ==
    /\ reviews[r].step = "fetch"
    /\ reviews' = [reviews EXCEPT ![r].from = applications[reviews[r].app].status,
                                  ![r].step = "update"]
    /\ UNCHANGED <<applications, nonces, runs, matches, events, rescreens>>

FetchApplication(r) ==
    LET from == applications[reviews[r].app].status
        to   == reviews[r].to
    IN
    /\ reviews[r].step = "fetch"
    /\ IF isValidTransition(from, to)
       THEN reviews' = [reviews EXCEPT
              ![r].from = from,
              ![r].step = IF to = "approved" THEN "entity" ELSE "update"]
       ELSE Close(r)
    /\ UNCHANGED <<applications, nonces, runs, matches, events, rescreens>>

\* Mutant: a provider that cannot answer does not hold the approval up.
AfterScreeningFailOpen(kind, result) ==
    IF result = "match" THEN "matches" ELSE IF kind = "entity" THEN "wallet" ELSE "update"

\* Where a screening of `kind' leads: the entity first, then its wallet; a match
\* is stored for the Sentinel, an error ends the review.
AfterScreening(kind, result) ==
    CASE result = "match" -> "matches"
      [] result = "error" -> "closed"
      [] result = "clear" -> IF kind = "entity" THEN "wallet" ELSE "update"

\* The provider answers and its answer is logged before anything follows from it.
Screen(r, kind, result, hits) ==
    /\ reviews[r].step = kind
    /\ result = "match" <=> hits # {}
    /\ runs' = runs \cup {[app |-> reviews[r].app, kind |-> kind, result |-> result, hits |-> hits]}
    /\ IF AfterScreening(kind, result) = "closed" THEN Close(r)
       ELSE reviews' = [reviews EXCEPT ![r].step = AfterScreening(kind, result), ![r].hits = hits]
    /\ UNCHANGED <<applications, nonces, matches, events, rescreens>>

PendingRows(by, app, hits) ==
    {[by |-> by, app |-> app, hit |-> h, status |-> "pending_sentinel"] : h \in hits}

\* The rows are stored and the review is refused: the application stays as it is.
StoreMatches(r) ==
    /\ reviews[r].step = "matches"
    /\ matches' = matches \cup PendingRows(r, reviews[r].app, reviews[r].hits)
    /\ Close(r)
    /\ UNCHANGED <<applications, nonces, runs, events, rescreens>>

\* Mutants: the update does not ask for the status that was read; the route
\* answers after the update.
ApplyTransitionBlindly(r) ==
    /\ reviews[r].step = "update"
    /\ applications' = [applications EXCEPT ![reviews[r].app].status = reviews[r].to]
    /\ Advance(r, "append")
    /\ UNCHANGED <<nonces, runs, matches, events, rescreens>>

ApplyTransitionUnrecorded(r) ==
    LET a == reviews[r].app IN
    /\ reviews[r].step = "update"
    /\ applications[a].status = reviews[r].from
    /\ applications' = [applications EXCEPT ![a].status = reviews[r].to]
    /\ Close(r)
    /\ UNCHANGED <<nonces, runs, matches, events, rescreens>>

\* update ... where id = id and status = fromStatus.  How many rows it changed
\* is not asked for: the route goes on to the audit event either way.
ApplyTransition(r) ==
    LET a == reviews[r].app IN
    /\ reviews[r].step = "update"
    /\ applications' = IF applications[a].status = reviews[r].from
                       THEN [applications EXCEPT ![a].status = reviews[r].to]
                       ELSE applications
    /\ Advance(r, "append")
    /\ UNCHANGED <<nonces, runs, matches, events, rescreens>>

AppendEvent(r) ==
    /\ reviews[r].step = "append"
    /\ events' = events \cup {[app |-> reviews[r].app, from |-> reviews[r].from, to |-> reviews[r].to]}
    /\ Close(r)
    /\ UNCHANGED <<applications, nonces, runs, matches, rescreens>>

\* A call to the database or a provider fails and the route says so.  What was
\* written before stays.
ReviewFails(r) ==
    /\ reviews[r].step \notin ReviewOver
    /\ CASE reviews[r].step = "append"  -> Advance(r, "unrecorded")
         [] reviews[r].step = "matches" -> Advance(r, "unscreened")
         [] OTHER                       -> Close(r)
    /\ UNCHANGED <<applications, nonces, runs, matches, events, rescreens>>

\* The instance dies between two steps: nobody is told.
ReviewDies(r) ==
    /\ reviews[r].step \notin ReviewOver
    /\ CASE reviews[r].step = "append"  -> Advance(r, "diedAppending")
         [] reviews[r].step = "matches" -> Advance(r, "diedStoring")
         [] OTHER                       -> Close(r)
    /\ UNCHANGED <<applications, nonces, runs, matches, events, rescreens>>

-----------------------------------------------------------------------------
(* The re-screening of approved applications and the Sentinel *)

StartRescreen(c) ==
    /\ rescreens[c] = NoRescreen
    /\ rescreens' = [rescreens EXCEPT
          ![c].step = "next",
          ![c].page = {a \in Applications : applications[a].status = "approved"}]
    /\ UNCHANGED <<applications, nonces, runs, matches, events, reviews>>

\* run_insert_failed: the answer for `a' is dropped, the job goes on.
SkipApplication(c, a) ==
    /\ rescreens[c].step = "next"
    /\ a \in rescreens[c].page
    /\ rescreens' = [rescreens EXCEPT ![c].page = @ \ {a}]
    /\ UNCHANGED <<applications, nonces, runs, matches, events, reviews>>

RescreenApplication(c, a, result, hits) ==
    /\ rescreens[c].step = "next"
    /\ a \in rescreens[c].page
    /\ result = "match" <=> hits # {}
    /\ runs' = runs \cup {[app |-> a, kind |-> "entity", result |-> result, hits |-> hits]}
    /\ rescreens' = [rescreens EXCEPT
          ![c].page = @ \ {a},
          ![c].app = a,
          ![c].hits = hits,
          ![c].step = IF result = "match" THEN "known" ELSE "next"]
    /\ UNCHANGED <<applications, nonces, matches, events, reviews>>

\* Mutant: the query for known matches is not restricted to the application.
KnownHitsAnywhere(a) == {m.hit : m \in matches}

KnownHits(a) == {m.hit : m \in {x \in matches : x.app = a}}

\* Matches already stored for this application, decided or not, are left out; if
\* they cannot be read none is known, for the error is not looked at.
ReadKnownMatches(c, ok) ==
    LET known == IF ok THEN KnownHits(rescreens[c].app) ELSE {}
        fresh == rescreens[c].hits \ known
    IN
    /\ rescreens[c].step = "known"
    /\ rescreens' = [rescreens EXCEPT
          ![c].hits = fresh,
          ![c].step = IF fresh = {} THEN "next" ELSE "insert"]
    /\ UNCHANGED <<applications, nonces, runs, matches, events, reviews>>

InsertFreshMatches(c) ==
    LET this == rescreens[c] IN
    /\ this.step = "insert"
    /\ \/ /\ matches' = matches \cup PendingRows(c, this.app, this.hits)
          /\ rescreens' = [rescreens EXCEPT ![c].step = "next", ![c].hits = {}]
       \/ /\ rescreens' = [rescreens EXCEPT        \* match_insert_failed is logged
                ![c].step = "next", ![c].hits = {},
                ![c].failed = @ \cup ({this.app} \X this.hits)]
          /\ UNCHANGED matches
    /\ UNCHANGED <<applications, nonces, runs, events, reviews>>

\* Of a job that ended its log is left.
Ended(job) == [NoRescreen EXCEPT !.step = "closed", !.failed = job.failed]

\* All pages are done, or the next one cannot be listed.
EndRescreen(c) ==
    /\ rescreens[c].step = "next"
    /\ rescreens' = [rescreens EXCEPT ![c] = Ended(@)]
    /\ UNCHANGED <<applications, nonces, runs, matches, events, reviews>>

\* The instance dies; hits it was about to store are gone with it.
RescreenDies(c) ==
    /\ rescreens[c].step \in {"next", "known", "insert"}
    /\ rescreens' = [rescreens EXCEPT ![c] =
          IF @.step = "next" THEN Ended(@) ELSE [@ EXCEPT !.step = "died", !.page = {}]]
    /\ UNCHANGED <<applications, nonces, runs, matches, events, reviews>>

\* POST /api/sanctions/matches/[id]/resolve.
ResolveMatch(m, resolution) ==
    /\ m.status = "pending_sentinel"
    /\ matches' = (matches \ {m}) \cup {[m EXCEPT !.status = resolution]}
    /\ UNCHANGED <<applications, nonces, runs, events, reviews, rescreens>>

-----------------------------------------------------------------------------
\* A review may ask for `submitted' too: it is refused from every status.
ReviewNext(r) ==
    \/ \E a \in Applications, to \in KybStatus \ {"submitted"} :
          \/ ReceiveEmailReview(r, a, to)
          \/ \E n \in Nonces : ReceiveWalletReview(r, n, a, to)
    \/ consumeNonce(r)
    \/ FetchApplication(r)
    \/ \E kind \in Subjects, result \in ResultCode, hits \in SUBSET Hits :
          Screen(r, kind, result, hits)
    \/ StoreMatches(r)
    \/ ApplyTransition(r)
    \/ AppendEvent(r)
    \/ ReviewFails(r)
    \/ ReviewDies(r)

RescreenNext(c) ==
    \/ StartRescreen(c)
    \/ \E a \in Applications, result \in ResultCode, hits \in SUBSET Hits :
          RescreenApplication(c, a, result, hits)
    \/ \E a \in Applications : SkipApplication(c, a)
    \/ \E ok \in BOOLEAN : ReadKnownMatches(c, ok)
    \/ InsertFreshMatches(c)
    \/ EndRescreen(c)
    \/ RescreenDies(c)

Next ==
    \/ \E a \in Applications, w \in Applicants : SubmitApplication(a, w)
    \/ \E n \in Nonces : issueNonce(n) \/ NonceExpires(n)
    \/ \E r \in Requests : ReviewNext(r)
    \/ \E c \in Rescreens : RescreenNext(c)
    \/ \E m \in matches, resolution \in {"false_positive", "true_match"} :
          ResolveMatch(m, resolution)

Spec == Init /\ [][Next]_vars

-----------------------------------------------------------------------------
(* Properties *)

\* Every table row and every call in flight is well formed.
KybTypeOK ==
    /\ applications \in [Applications -> Application]
    /\ nonces \in [Nonces -> {"unissued", "issued", "consumed", "expired"}]
    /\ runs \subseteq Run
    /\ matches \subseteq Match
    /\ events \subseteq Event
    /\ reviews \in [Requests -> Review]
    /\ rescreens \in [Rescreens -> Rescreen]

\* The sanctions gate: nothing is approved unless both its entity and its wallet
\* were screened and the provider's "clear" is on file, whatever reviews of the
\* same application run at the same time and wherever they die.
ApprovedWereScreened ==
    \A a \in Applications : applications[a].status = "approved" =>
        \A kind \in Subjects :
            [app |-> a, kind |-> kind, result |-> "clear", hits |-> {}] \in runs

\* approved and rejected are terminal: a review that read the application before
\* another review decided it cannot overturn that decision.
DecisionsAreFinal ==
    [][\A a \in Applications : applications[a].status \in Terminal =>
           applications'[a] = applications[a]]_vars

\* A signed review that reaches the server more than once gets past the nonce once.
SignaturesAreSingleUse ==
    \A q, r \in Requests :
        /\ q # r
        /\ reviews[q].nonce # None
        /\ reviews[q].nonce = reviews[r].nonce
        /\ reviews[q].from # "none"
        => reviews[r].from = "none"

\* A review that stands at one of `steps' with the event of a's present status
\* still to be appended.
EventOutstanding(a, steps) ==
    \E r \in Requests : /\ reviews[r].app = a
                        /\ reviews[r].to = applications[a].status
                        /\ reviews[r].step \in steps

StatusOnFile(a) ==
    \/ applications[a].status \in {"none", "submitted"}
    \/ \E e \in events : e.app = a /\ e.to = applications[a].status

\* One way only to a status without a trace that nobody hears of: whatever reviews
\* race, the audit trail shows how an application came to its present status, or
\* the review that moved it there is about to append the event, or has answered
\* 500 because it could not, or its instance died exactly between its two writes.
TransitionsLeaveATrace ==
    \A a \in Applications :
        StatusOnFile(a) \/ EventOutstanding(a, {"append", "unrecorded", "diedAppending"})

\* A call that still has hit h of application a in memory, to be stored.
HeldByReview(a, h, steps) ==
    \E r \in Requests : reviews[r].app = a /\ h \in reviews[r].hits /\ reviews[r].step \in steps

HeldByRescreen(a, h, steps) ==
    \E c \in Rescreens :
        rescreens[c].app = a /\ h \in rescreens[c].hits /\ rescreens[c].step \in steps

InQueue(a, h) == \E m \in matches : m.app = a /\ m.hit = h

LoggedAsLost(a, h) ==
    HeldByReview(a, h, {"unscreened"}) \/ \E c \in Rescreens : <<a, h>> \in rescreens[c].failed

\* One way only for a hit to be lost on its way to the Sentinel in silence: a match
\* a provider reported for an application has a row of that application, or a live
\* call is about to store it, or a call said that it could not, or the instance
\* that found it died exactly between logging the screening and storing the match.
HitsReachTheSentinel ==
    \A run \in runs : \A h \in run.hits :
        \/ InQueue(run.app, h)
        \/ HeldByReview(run.app, h, {"matches"})
        \/ HeldByRescreen(run.app, h, {"known", "insert"})
        \/ LoggedAsLost(run.app, h)
        \/ HeldByReview(run.app, h, {"diedStoring"})
        \/ HeldByRescreen(run.app, h, {"died"})

(* What the repository says and the code does not do *)

\* The audit trail records the transitions: a decision it shows is the decision
\* the application carries (0001_kyb_applications.sql, the comment on
\* kyb_review_events).
TrailShowsTheDecision ==
    \A e \in events : e.to \in Terminal => applications[e.app].status = e.to

\* "a Sentinel resolves them before this endpoint will let the approve land"
\* (review/route.ts): no step approves an application over an open match.
OpenMatchesBlockApproval ==
    [][\A a \in Applications :
           applications[a].status # "approved" /\ applications'[a].status = "approved" =>
           \A m \in matches : m.app = a => m.status # "pending_sentinel"]_vars

\* "Append-only audit trail of KYB review transitions" (0001_kyb_applications.sql):
\* a status without its event is reported by the review that left it so.
EveryTransitionIsLogged ==
    \A a \in Applications : StatusOnFile(a) \/ EventOutstanding(a, {"append", "unrecorded"})

\* "any NEW match becomes a pending_sentinel row" (rescreen/route.ts): a match a
\* provider reported is in the queue, about to be, or reported as lost.
EveryHitIsQueued ==
    \A run \in runs : \A h \in run.hits :
        \/ InQueue(run.app, h)
        \/ HeldByReview(run.app, h, {"matches"})
        \/ HeldByRescreen(run.app, h, {"known", "insert"})
        \/ LoggedAsLost(run.app, h)

=============================================================================
