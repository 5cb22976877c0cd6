---------------------------- MODULE KybReviewProofs ----------------------------
(***************************************************************************)
(* Proofs about KybReview, for every number of applications, applicants,   *)
(* calls, nonces and matches.                                              *)
(***************************************************************************)
EXTENDS KybReview, TLAPS

USE DEF vars

-----------------------------------------------------------------------------
(***************************************************************************)
(* Types.  The fields of a call hold what its step relies on.              *)
(***************************************************************************)

\* Steps at which the route still holds an application and a target status.
Open == {"nonce", "fetch", "entity", "wallet", "matches", "update", "append", "unrecorded"}

ReviewOK(call) ==
    /\ call \in Review
    /\ call.step \in Open => call.app \in Applications /\ call.to \in KybStatus
    /\ call.step \in {"none", "nonce"} => call.from = "none"
    /\ call.step = "nonce" => call.nonce \in Nonces
    /\ call.step \in {"entity", "wallet", "update"} => isValidTransition(call.from, call.to)
    /\ call.step = "append" => call.from \in KybStatus

RescreenOK(call) ==
    /\ call \in Rescreen
    /\ call.step \in {"known", "insert"} => call.app \in Applications
    /\ call.step = "next" => call.hits = {}

CallsOK ==
    /\ \A r \in Requests : ReviewOK(reviews[r])
    /\ \A c \in Rescreens : RescreenOK(rescreens[c])

TypeInv == KybTypeOK /\ CallsOK

LEMMA NoReviewOK == ReviewOK(NoReview)
BY DEF ReviewOK, Review, NoReview, ReviewStep, Open, KybStatus

LEMMA InitTypes == Init => TypeInv
<1> SUFFICES ASSUME Init PROVE TypeInv
  OBVIOUS
<1>1. applications \in [Applications -> Application]
  BY KybAssumption DEF Init, Application, KybStatus
<1>2. /\ nonces \in [Nonces -> {"unissued", "issued", "consumed", "expired"}]
      /\ runs \subseteq Run
      /\ matches \subseteq Match
  BY DEF Init
<1>3. events \subseteq Event
  BY DEF Init, Event, KybStatus
<1>4. reviews \in [Requests -> Review] /\ \A r \in Requests : ReviewOK(reviews[r])
  BY NoReviewOK DEF Init, ReviewOK
<1>5. NoRescreen \in Rescreen
  BY DEF NoRescreen, Rescreen, RescreenStep
<1>6. rescreens \in [Rescreens -> Rescreen] /\ \A c \in Rescreens : RescreenOK(rescreens[c])
  BY <1>5 DEF Init, RescreenOK, NoRescreen
<1> QED BY <1>1, <1>2, <1>3, <1>4, <1>6 DEF TypeInv, KybTypeOK, CallsOK

\* Writing one call, well formed, leaves all calls well formed.
LEMMA WriteReview ==
    ASSUME TypeInv, NEW r \in Requests, NEW new, ReviewOK(new),
           reviews' = [reviews EXCEPT ![r] = new]
    PROVE  /\ reviews' \in [Requests -> Review]
           /\ \A q \in Requests : ReviewOK(reviews'[q])
BY DEF TypeInv, KybTypeOK, CallsOK, ReviewOK

LEMMA WriteRescreen ==
    ASSUME TypeInv, NEW c \in Rescreens, NEW new, RescreenOK(new),
           rescreens' = [rescreens EXCEPT ![c] = new]
    PROVE  /\ rescreens' \in [Rescreens -> Rescreen]
           /\ \A d \in Rescreens : RescreenOK(rescreens'[d])
BY DEF TypeInv, KybTypeOK, CallsOK, RescreenOK

LEMMA EndedOK ==
    ASSUME NEW job \in Rescreen
    PROVE  RescreenOK(Ended(job)) /\ Ended(job).hits = {} /\ Ended(job).failed = job.failed
BY DEF Ended, NoRescreen, RescreenOK, Rescreen, RescreenStep

\* The route's answer leaves a call well formed.
LEMMA CloseTypes ==
    ASSUME TypeInv, NEW r \in Requests, Close(r)
    PROVE  /\ reviews' \in [Requests -> Review]
           /\ \A q \in Requests : ReviewOK(reviews'[q])
<1> DEFINE new == IF reviews[r].nonce = None THEN [NoReview EXCEPT !.step = "closed"]
                  ELSE [reviews[r] EXCEPT !.step = "closed", !.hits = {}]
<1>0. reviews[r] \in Review /\ ReviewOK(reviews[r])
  BY DEF TypeInv, KybTypeOK, CallsOK
<1>1. ReviewOK(new)
  <2>1. CASE reviews[r].nonce = None
    <3>1. new = [NoReview EXCEPT !.step = "closed"]
      BY <2>1
    <3> QED BY <3>1 DEF ReviewOK, Review, NoReview, ReviewStep, Open
  <2>2. CASE reviews[r].nonce # None
    <3>1. new = [reviews[r] EXCEPT !.step = "closed", !.hits = {}]
      BY <2>2
    <3> HIDE DEF new
    <3> QED BY <1>0, <3>1 DEF ReviewOK, Review, ReviewStep, Open
  <2> QED BY <2>1, <2>2
<1>2. reviews' = [reviews EXCEPT ![r] = new]
  BY DEF Close
<1> HIDE DEF new
<1> QED BY <1>1, <1>2, WriteReview

\* So does a step to `step', if that step relies on nothing more.
LEMMA AdvanceTypes ==
    ASSUME TypeInv, NEW r \in Requests, NEW step, Advance(r, step),
           \/ step = "fetch" /\ reviews[r].step = "nonce"
           \/ step = "append" /\ reviews[r].step = "update"
           \/ step = "unrecorded" /\ reviews[r].step = "append"
           \/ step = "unscreened" /\ reviews[r].step = "matches"
           \/ step = "diedAppending" /\ reviews[r].step = "append"
           \/ step = "diedStoring" /\ reviews[r].step = "matches"
    PROVE  /\ reviews' \in [Requests -> Review]
           /\ \A q \in Requests : ReviewOK(reviews'[q])
<1> DEFINE new == [reviews[r] EXCEPT !.step = step]
<1>1. ReviewOK(new)
  BY DEF TypeInv, CallsOK, ReviewOK, Review, ReviewStep, Open, isValidTransition
<1>2. reviews' = [reviews EXCEPT ![r] = new]
  BY DEF Advance
<1> HIDE DEF new
<1> QED BY <1>1, <1>2, WriteReview

LEMMA ReviewStepTypes ==
    ASSUME TypeInv, NEW r \in Requests, ReviewNext(r)
    PROVE  TypeInv'
<1>0. /\ reviews[r] \in Review
      /\ ReviewOK(reviews[r])
  BY DEF TypeInv, KybTypeOK, CallsOK
<1> USE DEF TypeInv, KybTypeOK, CallsOK
<1>1. ASSUME NEW a \in Applications, NEW to \in KybStatus, ReceiveEmailReview(r, a, to)
      PROVE  TypeInv'
  <2> DEFINE new == [NoReview EXCEPT !.step = "fetch", !.app = a, !.to = to]
  <2>1. ReviewOK(new)
    BY DEF ReviewOK, Review, NoReview, ReviewStep, Open
  <2>2. reviews' = [reviews EXCEPT ![r] = new]
    BY <1>1 DEF ReceiveEmailReview
  <2> HIDE DEF new
  <2> QED BY <1>1, <2>1, <2>2, WriteReview DEF ReceiveEmailReview
<1>2. ASSUME NEW a \in Applications, NEW to \in KybStatus, NEW n \in Nonces,
             ReceiveWalletReview(r, n, a, to)
      PROVE  TypeInv'
  <2> DEFINE new == [NoReview EXCEPT !.step = "nonce", !.app = a, !.to = to, !.nonce = n]
  <2>1. ReviewOK(new)
    BY DEF ReviewOK, Review, NoReview, ReviewStep, Open
  <2>2. reviews' = [reviews EXCEPT ![r] = new]
    BY <1>2 DEF ReceiveWalletReview
  <2> HIDE DEF new
  <2> QED BY <1>2, <2>1, <2>2, WriteReview DEF ReceiveWalletReview
<1>3. ASSUME consumeNonce(r) PROVE TypeInv'
  BY <1>3, CloseTypes, AdvanceTypes DEF consumeNonce
<1>4. ASSUME FetchApplication(r) PROVE TypeInv'
  <2> DEFINE from == applications[reviews[r].app].status
             to == reviews[r].to
             new == [reviews[r] EXCEPT !.from = from,
                                       !.step = IF to = "approved" THEN "entity" ELSE "update"]
  <2>1. CASE ~isValidTransition(from, to)
    BY <1>4, <2>1, CloseTypes DEF FetchApplication
  <2>2. CASE isValidTransition(from, to)
    <3>1. from \in KybStatus
      BY <2>2 DEF isValidTransition
    <3>2. ReviewOK(new)
      BY <1>0, <1>4, <2>2, <3>1 DEF FetchApplication, ReviewOK, Review, ReviewStep, Open
    <3>3. reviews' = [reviews EXCEPT ![r] = new]
      BY <1>4, <2>2 DEF FetchApplication
    <3> HIDE DEF new
    <3> QED BY <1>4, <3>2, <3>3, WriteReview DEF FetchApplication
  <2> QED BY <2>1, <2>2
<1>5. ASSUME NEW kind \in Subjects, NEW result \in ResultCode, NEW hits \in SUBSET Hits,
             Screen(r, kind, result, hits)
      PROVE  TypeInv'
  <2> DEFINE step == AfterScreening(kind, result)
             new == [reviews[r] EXCEPT !.step = step, !.hits = hits]
  <2>0. step \in {"matches", "closed", "wallet", "update"}
    BY DEF AfterScreening, ResultCode, Subjects
  <2>1. runs' \subseteq Run
    <3>1. reviews[r].app \in Applications
      BY <1>0, <1>5 DEF Screen, ReviewOK, Open, Subjects
    <3> QED BY <1>5, <3>1 DEF Screen, Run
  <2>2. CASE step = "closed"
    BY <1>5, <2>1, <2>2, CloseTypes DEF Screen
  <2>3. CASE step # "closed"
    <3>1. reviews' = [reviews EXCEPT ![r] = new]
      BY <1>5, <2>3 DEF Screen
    <3>2. ReviewOK(new)
      BY <1>0, <1>5, <2>0, <2>3 DEF Screen, ReviewOK, Review, ReviewStep, Open, Subjects
    <3> HIDE DEF new
    <3> QED BY <1>5, <2>1, <3>1, <3>2, WriteReview DEF Screen
  <2> QED BY <2>2, <2>3
<1>6. ASSUME StoreMatches(r) PROVE TypeInv'
  <2>1. matches' \subseteq Match
    BY <1>0, <1>6 DEF StoreMatches, PendingRows, Match, MatchStatus, ReviewOK, Review, Open
  <2> QED BY <1>6, <2>1, CloseTypes DEF StoreMatches
<1>7. ASSUME ApplyTransition(r) PROVE TypeInv'
  <2> DEFINE a == reviews[r].app
  <2>1. applications' \in [Applications -> Application]
    <3>1. CASE applications[a].status = reviews[r].from
      <4>1. /\ a \in Applications
            /\ reviews[r].to \in KybStatus
            /\ reviews[r].from \in KybStatus
        BY <1>0, <1>7 DEF ApplyTransition, ReviewOK, Open, isValidTransition
      <4>2. applications[a] \in [applicant : Applicants, status : KybStatus]
        BY <3>1, <4>1 DEF Application, NoApplication, KybStatus
      <4>3. [applications[a] EXCEPT !.status = reviews[r].to] \in Application
        BY <4>1, <4>2 DEF Application
      <4> QED BY <1>7, <3>1, <4>1, <4>3 DEF ApplyTransition
    <3> QED BY <1>7, <3>1 DEF ApplyTransition
  <2> QED BY <1>7, <2>1, AdvanceTypes DEF ApplyTransition
<1>8. ASSUME AppendEvent(r) PROVE TypeInv'
  <2>1. events' \subseteq Event
    BY <1>0, <1>8 DEF AppendEvent, Event, ReviewOK, Open
  <2> QED BY <1>8, <2>1, CloseTypes DEF AppendEvent
<1>9. ASSUME ReviewFails(r) \/ ReviewDies(r) PROVE TypeInv'
  BY <1>9, CloseTypes, AdvanceTypes DEF ReviewFails, ReviewDies
<1> QED
  BY <1>1, <1>2, <1>3, <1>4, <1>5, <1>6, <1>7, <1>8, <1>9 DEF ReviewNext

LEMMA RescreenStepTypes ==
    ASSUME TypeInv, NEW c \in Rescreens, RescreenNext(c)
    PROVE  TypeInv'
<1>0. /\ rescreens[c] \in Rescreen
      /\ RescreenOK(rescreens[c])
  BY DEF TypeInv, KybTypeOK, CallsOK
<1> USE DEF TypeInv, KybTypeOK, CallsOK
<1>1. ASSUME StartRescreen(c) PROVE TypeInv'
  <2> DEFINE page == {a \in Applications : applications[a].status = "approved"}
             new == [rescreens[c] EXCEPT !.step = "next", !.page = page]
  <2>1. RescreenOK(new)
    <3>1. page \in SUBSET Applications
      OBVIOUS
    <3>2. rescreens[c].hits = {}
      BY <1>1 DEF StartRescreen, NoRescreen
    <3> HIDE DEF page
    <3> QED BY <1>0, <3>1, <3>2 DEF RescreenOK, Rescreen, RescreenStep
  <2>2. rescreens' = [rescreens EXCEPT ![c] = new]
    BY <1>1 DEF StartRescreen
  <2> HIDE DEF new
  <2> QED BY <1>1, <2>1, <2>2, WriteRescreen DEF StartRescreen
<1>2. ASSUME NEW a \in Applications, NEW result \in ResultCode, NEW hits \in SUBSET Hits,
             RescreenApplication(c, a, result, hits)
      PROVE  TypeInv'
  <2> DEFINE step == IF result = "match" THEN "known" ELSE "next"
             new == [rescreens[c] EXCEPT !.page = @ \ {a}, !.app = a, !.hits = hits, !.step = step]
  <2>1. RescreenOK(new)
    BY <1>0, <1>2 DEF RescreenApplication, RescreenOK, Rescreen, RescreenStep
  <2>2. rescreens' = [rescreens EXCEPT ![c] = new]
    BY <1>2 DEF RescreenApplication
  <2>3. runs' \subseteq Run
    BY <1>2 DEF RescreenApplication, Run, Subjects
  <2> HIDE DEF new
  <2> QED BY <1>2, <2>1, <2>2, <2>3, WriteRescreen DEF RescreenApplication
<1>3. ASSUME NEW ok \in BOOLEAN, ReadKnownMatches(c, ok) PROVE TypeInv'
  <2> DEFINE known == IF ok THEN KnownHits(rescreens[c].app) ELSE {}
             fresh == rescreens[c].hits \ known
             new == [rescreens[c] EXCEPT !.hits = fresh,
                                         !.step = IF fresh = {} THEN "next" ELSE "insert"]
  <2>1. RescreenOK(new)
    BY <1>0, <1>3 DEF ReadKnownMatches, RescreenOK, Rescreen, RescreenStep
  <2>2. rescreens' = [rescreens EXCEPT ![c] = new]
    BY <1>3 DEF ReadKnownMatches
  <2> HIDE DEF new
  <2> QED BY <1>3, <2>1, <2>2, WriteRescreen DEF ReadKnownMatches
<1>4. ASSUME InsertFreshMatches(c) PROVE TypeInv'
  <2> DEFINE stored == [rescreens[c] EXCEPT !.step = "next", !.hits = {}]
             skipped == [rescreens[c] EXCEPT
                !.step = "next", !.hits = {},
                !.failed = @ \cup ({rescreens[c].app} \X rescreens[c].hits)]
  <2>1. rescreens[c].app \in Applications
    BY <1>0, <1>4 DEF InsertFreshMatches, RescreenOK
  <2>2. RescreenOK(stored) /\ RescreenOK(skipped)
    BY <1>0, <2>1 DEF RescreenOK, Rescreen, RescreenStep
  <2>3. /\ UNCHANGED <<applications, nonces, runs, events, reviews>>
        /\ \/ /\ matches' = matches \cup PendingRows(c, rescreens[c].app, rescreens[c].hits)
              /\ rescreens' = [rescreens EXCEPT ![c] = stored]
           \/ /\ matches' = matches
              /\ rescreens' = [rescreens EXCEPT ![c] = skipped]
    BY <1>4 DEF InsertFreshMatches
  <2>4. matches' \subseteq Match
    <3>1. PendingRows(c, rescreens[c].app, rescreens[c].hits) \subseteq Match
      BY <1>0, <2>1 DEF PendingRows, Match, MatchStatus, Rescreen
    <3> HIDE DEF stored, skipped
    <3> QED BY <2>3, <3>1
  <2> HIDE DEF stored, skipped
  <2>5. CASE rescreens' = [rescreens EXCEPT ![c] = stored]
    BY <2>2, <2>3, <2>4, <2>5, WriteRescreen
  <2>6. CASE rescreens' = [rescreens EXCEPT ![c] = skipped]
    BY <2>2, <2>3, <2>4, <2>6, WriteRescreen
  <2> QED BY <2>3, <2>5, <2>6
<1>5. ASSUME EndRescreen(c) PROVE TypeInv'
  <2>1. RescreenOK(Ended(rescreens[c]))
    BY <1>0, EndedOK
  <2>2. rescreens' = [rescreens EXCEPT ![c] = Ended(rescreens[c])]
    BY <1>5 DEF EndRescreen
  <2> QED BY <1>5, <2>1, <2>2, WriteRescreen DEF EndRescreen
<1>6. ASSUME NEW a \in Applications, SkipApplication(c, a) PROVE TypeInv'
  <2> DEFINE new == [rescreens[c] EXCEPT !.page = @ \ {a}]
  <2>1. RescreenOK(new)
    BY <1>0, <1>6 DEF SkipApplication, RescreenOK, Rescreen
  <2>2. rescreens' = [rescreens EXCEPT ![c] = new]
    BY <1>6 DEF SkipApplication
  <2> HIDE DEF new
  <2> QED BY <1>6, <2>1, <2>2, WriteRescreen DEF SkipApplication
<1>7. ASSUME RescreenDies(c) PROVE TypeInv'
  <2> DEFINE dead == [rescreens[c] EXCEPT !.step = "died", !.page = {}]
  <2>1. RescreenOK(Ended(rescreens[c])) /\ RescreenOK(dead)
    BY <1>0, EndedOK DEF RescreenOK, Rescreen, RescreenStep
  <2>2. \/ rescreens' = [rescreens EXCEPT ![c] = Ended(rescreens[c])]
        \/ rescreens' = [rescreens EXCEPT ![c] = dead]
    BY <1>7 DEF RescreenDies
  <2> HIDE DEF dead
  <2> QED BY <1>7, <2>1, <2>2, WriteRescreen DEF RescreenDies
<1> QED
  BY <1>1, <1>2, <1>3, <1>4, <1>5, <1>6, <1>7 DEF RescreenNext

LEMMA StepTypes == TypeInv /\ [Next]_vars => TypeInv'
<1> SUFFICES ASSUME TypeInv, [Next]_vars PROVE TypeInv'
  OBVIOUS
<1>1. ASSUME NEW a \in Applications, NEW w \in Applicants, SubmitApplication(a, w)
      PROVE  TypeInv'
  BY <1>1 DEF SubmitApplication, TypeInv, KybTypeOK, CallsOK, Application, KybStatus
<1>2. ASSUME NEW n \in Nonces, issueNonce(n) \/ NonceExpires(n)
      PROVE  TypeInv'
  BY <1>2 DEF issueNonce, NonceExpires, TypeInv, KybTypeOK, CallsOK
<1>3. ASSUME NEW m \in matches, NEW resolution \in {"false_positive", "true_match"},
             ResolveMatch(m, resolution)
      PROVE  TypeInv'
  <2>1. [m EXCEPT !.status = resolution] \in Match
    BY DEF TypeInv, KybTypeOK, Match, MatchStatus
  <2> QED BY <1>3, <2>1 DEF ResolveMatch, TypeInv, KybTypeOK, CallsOK
<1>4. ASSUME UNCHANGED vars PROVE TypeInv'
  BY <1>4 DEF TypeInv, KybTypeOK, CallsOK
<1> QED
  BY <1>1, <1>2, <1>3, <1>4, ReviewStepTypes, RescreenStepTypes DEF Next

LEMMA TypesHold == Spec => []TypeInv
BY InitTypes, StepTypes, PTL DEF Spec

\* Every row and every call in flight of the KYB back office is well formed,
\* whatever calls race and wherever they die.
THEOREM KybTypeCorrect == Spec => []KybTypeOK
<1>1. TypeInv => KybTypeOK
  BY DEF TypeInv
<1> QED BY <1>1, TypesHold, PTL

-----------------------------------------------------------------------------
(***************************************************************************)
(* What a step may write.                                                  *)
(***************************************************************************)

LEMMA StatusWriters ==
    ASSUME [Next]_vars
    PROVE  \/ \E a \in Applications, w \in Applicants : SubmitApplication(a, w)
           \/ \E r \in Requests : ApplyTransition(r)
           \/ UNCHANGED applications
<1>1. ASSUME NEW r \in Requests, ReviewNext(r)
      PROVE  ApplyTransition(r) \/ UNCHANGED applications
  BY <1>1 DEF ReviewNext, ReceiveEmailReview, ReceiveWalletReview, consumeNonce,
              FetchApplication, Screen, StoreMatches, AppendEvent,
              ReviewFails, ReviewDies
<1>2. ASSUME NEW c \in Rescreens, RescreenNext(c)
      PROVE  UNCHANGED applications
  BY <1>2 DEF RescreenNext, StartRescreen, SkipApplication, RescreenApplication,
              ReadKnownMatches, InsertFreshMatches, EndRescreen, RescreenDies
<1> QED
  BY <1>1, <1>2 DEF Next, issueNonce, NonceExpires, ResolveMatch

LEMMA ReviewWriters ==
    ASSUME [Next]_vars
    PROVE  \/ \E r \in Requests : ReviewNext(r)
           \/ UNCHANGED reviews
<1>1. ASSUME NEW c \in Rescreens, RescreenNext(c)
      PROVE  UNCHANGED reviews
  BY <1>1 DEF RescreenNext, StartRescreen, SkipApplication, RescreenApplication,
              ReadKnownMatches, InsertFreshMatches, EndRescreen, RescreenDies
<1> QED
  BY <1>1 DEF Next, SubmitApplication, issueNonce, NonceExpires, ResolveMatch

\* A step of one call leaves the other calls alone.
LEMMA OtherReviews ==
    ASSUME TypeInv, NEW r \in Requests, ReviewNext(r), NEW q \in Requests, q # r
    PROVE  reviews'[q] = reviews[q]
BY DEF TypeInv, KybTypeOK, ReviewNext, ReceiveEmailReview, ReceiveWalletReview, consumeNonce,
       FetchApplication, Screen, StoreMatches, ApplyTransition, AppendEvent,
       ReviewFails, ReviewDies, Close, Advance

\* What an answered call leaves behind.
LEMMA Answered ==
    ASSUME TypeInv, NEW r \in Requests, Close(r)
    PROVE  /\ reviews'[r].step = "closed"
           /\ reviews'[r].nonce = reviews[r].nonce
           /\ reviews[r].nonce # None => reviews'[r].app = reviews[r].app
           /\ reviews[r].nonce # None => reviews'[r].from = reviews[r].from
<1> DEFINE closed == [NoReview EXCEPT !.step = "closed"]
           signed == [reviews[r] EXCEPT !.step = "closed", !.hits = {}]
<1>1. /\ reviews[r] \in Review
      /\ reviews'[r] = IF reviews[r].nonce = None THEN closed ELSE signed
  BY DEF TypeInv, KybTypeOK, Close
<1>2. closed.step = "closed" /\ closed.nonce = None
  BY DEF NoReview
<1>3. /\ signed.step = "closed" /\ signed.nonce = reviews[r].nonce
      /\ signed.app = reviews[r].app /\ signed.from = reviews[r].from
  BY <1>1 DEF Review
<1> HIDE DEF closed, signed
<1> QED BY <1>1, <1>2, <1>3

\* What a call carries over to its next step.
LEMMA Advanced ==
    ASSUME TypeInv, NEW r \in Requests, NEW step, Advance(r, step)
    PROVE  /\ reviews'[r].step = step
           /\ reviews'[r].app = reviews[r].app
           /\ reviews'[r].to = reviews[r].to
           /\ reviews'[r].from = reviews[r].from
           /\ reviews'[r].nonce = reviews[r].nonce
           /\ reviews'[r].hits = reviews[r].hits
BY DEF TypeInv, KybTypeOK, Advance, Review

LEMMA RunsAreKept ==
    ASSUME [Next]_vars
    PROVE  runs \subseteq runs'
<1>1. ASSUME NEW r \in Requests, ReviewNext(r)
      PROVE  runs \subseteq runs'
  BY <1>1 DEF ReviewNext, ReceiveEmailReview, ReceiveWalletReview, consumeNonce,
              FetchApplication, Screen, StoreMatches, ApplyTransition, AppendEvent,
              ReviewFails, ReviewDies
<1>2. ASSUME NEW c \in Rescreens, RescreenNext(c)
      PROVE  runs \subseteq runs'
  BY <1>2 DEF RescreenNext, StartRescreen, SkipApplication, RescreenApplication,
              ReadKnownMatches, InsertFreshMatches, EndRescreen, RescreenDies
<1> QED
  BY <1>1, <1>2 DEF Next, SubmitApplication, issueNonce, NonceExpires, ResolveMatch

-----------------------------------------------------------------------------
(***************************************************************************)
(* Decisions are final: a call only asks for a transition that was valid   *)
(* from the status it read, and the update insists on that status.         *)
(***************************************************************************)

LEMMA DecisionStep ==
    ASSUME TypeInv, [Next]_vars, NEW a \in Applications, applications[a].status \in Terminal
    PROVE  applications'[a] = applications[a]
<1>1. ASSUME NEW b \in Applications, NEW w \in Applicants, SubmitApplication(b, w)
      PROVE  applications'[a] = applications[a]
  <2>1. a # b
    BY <1>1 DEF SubmitApplication, NoApplication, Terminal
  <2> QED BY <1>1, <2>1 DEF SubmitApplication, TypeInv, KybTypeOK
<1>2. ASSUME NEW r \in Requests, ApplyTransition(r)
      PROVE  applications'[a] = applications[a]
  <2>1. isValidTransition(reviews[r].from, reviews[r].to)
    BY <1>2 DEF ApplyTransition, TypeInv, CallsOK, ReviewOK
  <2>2. reviews[r].from \notin Terminal
    BY <2>1 DEF isValidTransition, TRANSITIONS, Terminal
  <2> QED BY <1>2, <2>2 DEF ApplyTransition, TypeInv, KybTypeOK
<1> QED BY <1>1, <1>2, StatusWriters

\* A decided application stays decided, for every interleaving of the calls.
THEOREM DecisionsStand == Spec => DecisionsAreFinal
<1>1. TypeInv /\ [Next]_vars =>
        [\A a \in Applications : applications[a].status \in Terminal =>
             applications'[a] = applications[a]]_vars
  BY DecisionStep
<1> QED BY <1>1, TypesHold, PTL DEF Spec, DecisionsAreFinal

-----------------------------------------------------------------------------
(***************************************************************************)
(* The sanctions gate.  A call that will approve carries the proof of both *)
(* screenings with it: the runs that its steps have left behind.           *)
(***************************************************************************)

Cleared(a, kind, logged) ==
    [app |-> a, kind |-> kind, result |-> "clear", hits |-> {}] \in logged

CallScreened(call, logged) ==
    /\ call.step = "wallet" => Cleared(call.app, "entity", logged)
    /\ call.step = "update" /\ call.to = "approved" =>
          Cleared(call.app, "entity", logged) /\ Cleared(call.app, "wallet", logged)

CallsWereScreened == \A r \in Requests : CallScreened(reviews[r], runs)

ScreenInv == CallsWereScreened /\ ApprovedWereScreened

LEMMA InitScreened == Init => ScreenInv
<1> SUFFICES ASSUME Init PROVE ScreenInv
  OBVIOUS
<1>1. \A a \in Applications : applications[a].status # "approved"
  BY KybAssumption DEF Init, NoApplication
<1> QED
  BY <1>1 DEF Init, ScreenInv, CallsWereScreened, CallScreened, ApprovedWereScreened, NoReview

LEMMA CallStepScreened ==
    ASSUME TypeInv, CallsWereScreened, NEW r \in Requests, ReviewNext(r), runs \subseteq runs'
    PROVE  CallsWereScreened'
<1> SUFFICES CallScreened(reviews'[r], runs')
  BY OtherReviews DEF CallsWereScreened, CallScreened, Cleared
<1> USE DEF CallScreened
<1>0. reviews[r] \in Review /\ reviews \in [Requests -> Review]
  BY DEF TypeInv, KybTypeOK
<1>1. ASSUME NEW a \in Applications, NEW to \in KybStatus, ReceiveEmailReview(r, a, to)
      PROVE  reviews'[r].step = "fetch"
  BY <1>0, <1>1 DEF ReceiveEmailReview, NoReview
<1>2. ASSUME NEW a \in Applications, NEW to \in KybStatus, NEW n \in Nonces,
             ReceiveWalletReview(r, n, a, to)
      PROVE  reviews'[r].step = "nonce"
  BY <1>0, <1>2 DEF ReceiveWalletReview, NoReview
<1>3. ASSUME consumeNonce(r) PROVE reviews'[r].step \in {"fetch", "closed"}
  BY <1>3, Answered, Advanced DEF consumeNonce
<1>4. ASSUME FetchApplication(r)
      PROVE  \/ reviews'[r].step \in {"entity", "closed"}
             \/ reviews'[r].step = "update" /\ reviews'[r].to # "approved"
  <2>1. CASE isValidTransition(applications[reviews[r].app].status, reviews[r].to)
    BY <1>0, <1>4, <2>1 DEF FetchApplication, Review
  <2>2. CASE ~isValidTransition(applications[reviews[r].app].status, reviews[r].to)
    BY <1>4, <2>2, Answered DEF FetchApplication
  <2> QED BY <2>1, <2>2
<1>5. ASSUME NEW kind \in Subjects, NEW result \in ResultCode, NEW hits \in SUBSET Hits,
             Screen(r, kind, result, hits)
      PROVE  CallScreened(reviews'[r], runs')
  <2> DEFINE step == AfterScreening(kind, result)
  <2>1. CASE result = "error"
    <3>1. step = "closed"
      BY <2>1 DEF AfterScreening
    <3> QED BY <1>5, <3>1, Answered DEF Screen
  <2>2. CASE result = "match"
    <3>1. step = "matches"
      BY <2>2 DEF AfterScreening
    <3> QED BY <1>0, <1>5, <3>1 DEF Screen, Review
  <2>3. CASE result = "clear"
    <3>1. step = IF kind = "entity" THEN "wallet" ELSE "update"
      BY <2>3 DEF AfterScreening
    <3>2. \/ kind = "entity" /\ step = "wallet"
          \/ kind = "wallet" /\ step = "update"
      BY <3>1 DEF Subjects
    <3>3. reviews'[r].step = step /\ reviews'[r].app = reviews[r].app
      BY <1>0, <1>5, <3>2 DEF Screen, Review
    <3>4. Cleared(reviews[r].app, kind, runs')
      BY <1>5, <2>3 DEF Screen, Cleared
    <3>5. kind = "wallet" => Cleared(reviews[r].app, "entity", runs')
      BY <1>5 DEF Screen, CallsWereScreened, Cleared
    <3> QED BY <3>2, <3>3, <3>4, <3>5
  <2> QED BY <2>1, <2>2, <2>3 DEF ResultCode
<1>6. ASSUME \/ StoreMatches(r) \/ ApplyTransition(r) \/ AppendEvent(r)
             \/ ReviewFails(r) \/ ReviewDies(r)
      PROVE  reviews'[r].step \in {"closed", "append", "unrecorded", "unscreened",
                                  "diedAppending", "diedStoring"}
  BY <1>6, Answered, Advanced
     DEF StoreMatches, ApplyTransition, AppendEvent,
              ReviewFails, ReviewDies
<1> QED
  BY <1>1, <1>2, <1>3, <1>4, <1>5, <1>6 DEF ReviewNext

LEMMA ScreenStep == TypeInv /\ ScreenInv /\ [Next]_vars => ScreenInv'
<1> SUFFICES ASSUME TypeInv, ScreenInv, [Next]_vars PROVE ScreenInv'
  OBVIOUS
<1> USE DEF ScreenInv
<1>1. runs \subseteq runs'
  BY RunsAreKept
<1>2. CallsWereScreened'
  <2>1. CASE UNCHANGED reviews
    BY <1>1, <2>1 DEF CallsWereScreened, CallScreened, Cleared
  <2> QED BY <1>1, <2>1, CallStepScreened, ReviewWriters
<1>3. ASSUME NEW a \in Applications, applications'[a].status = "approved",
             applications[a].status # "approved"
      PROVE  Cleared(a, "entity", runs) /\ Cleared(a, "wallet", runs)
  <2>1. ~\E b \in Applications, w \in Applicants : SubmitApplication(b, w)
    BY <1>3 DEF SubmitApplication, TypeInv, KybTypeOK
  <2>2. PICK r \in Requests : ApplyTransition(r)
    BY <1>3, <2>1, StatusWriters
  <2>3. reviews[r].app = a /\ reviews[r].to = "approved" /\ reviews[r].step = "update"
    <3>1. /\ applications' = [applications EXCEPT ![reviews[r].app].status = reviews[r].to]
          /\ reviews[r].step = "update"
      BY <1>3, <2>2 DEF ApplyTransition
    <3>2. reviews[r].app = a
      BY <1>3, <3>1 DEF TypeInv, KybTypeOK
    <3> QED BY <1>3, <3>1, <3>2, StepTypes DEF TypeInv, KybTypeOK, Application, NoApplication
  <2> QED BY <2>3 DEF CallsWereScreened, CallScreened
<1>4. ApprovedWereScreened'
  BY <1>1, <1>3 DEF ApprovedWereScreened, Cleared, Subjects
<1> QED BY <1>2, <1>4

\* Nothing is approved without a clear screening of its entity and its wallet.
THEOREM ApprovalsWereScreened == Spec => []ApprovedWereScreened
<1>1. Spec => []ScreenInv
  BY InitScreened, ScreenStep, TypesHold, PTL DEF Spec
<1>2. ScreenInv => ApprovedWereScreened
  BY DEF ScreenInv
<1> QED BY <1>1, <1>2, PTL

-----------------------------------------------------------------------------
(***************************************************************************)
(* Single use.  A call that got past the nonce has marked it consumed, and *)
(* no other call with the same nonce has got past it.                      *)
(***************************************************************************)

Passed(call) ==
    /\ call.nonce # None
    /\ call.from # "none" \/ call.step \notin {"nonce", "closed"}

NonceInv ==
    \A r \in Requests : Passed(reviews[r]) =>
        /\ nonces[reviews[r].nonce] = "consumed"
        /\ \A q \in Requests \ {r} : reviews[q].nonce = reviews[r].nonce => ~Passed(reviews[q])

LEMMA InitSingleUse == Init => NonceInv
BY DEF Init, NonceInv, Passed, NoReview

\* A step other than the consumption makes no call pass, and binds no passed call anew.
LEMMA PassedBefore ==
    ASSUME TypeInv, NEW r \in Requests, ReviewNext(r), ~consumeNonce(r), Passed(reviews'[r])
    PROVE  Passed(reviews[r]) /\ reviews'[r].nonce = reviews[r].nonce
<1>0. /\ reviews[r] \in Review /\ reviews \in [Requests -> Review]
      /\ reviews[r].step = "none" => reviews[r] = NoReview
  <2>1. reviews[r] \in Review /\ reviews \in [Requests -> Review]
    BY DEF TypeInv, KybTypeOK
  <2>2. \/ reviews[r] = NoReview
        \/ reviews[r].step # "none"
    BY <2>1 DEF ReviewNext, ReceiveEmailReview, ReceiveWalletReview, consumeNonce,
                FetchApplication, Screen, StoreMatches, ApplyTransition, AppendEvent,
                ReviewFails, ReviewDies, ReviewOver, Subjects
  <2> QED BY <2>1, <2>2
<1>1. ASSUME NEW a \in Applications, NEW to \in KybStatus, ReceiveEmailReview(r, a, to)
      PROVE  FALSE
  BY <1>0, <1>1 DEF ReceiveEmailReview, Passed, NoReview
<1>2. ASSUME NEW a \in Applications, NEW to \in KybStatus, NEW n \in Nonces,
             ReceiveWalletReview(r, n, a, to)
      PROVE  FALSE
  BY <1>0, <1>2 DEF ReceiveWalletReview, Passed, NoReview
<1>3. ASSUME reviews[r].step \in {"fetch", "entity", "wallet", "matches", "update", "append"},
             reviews'[r].nonce = reviews[r].nonce
      PROVE  Passed(reviews[r]) /\ reviews'[r].nonce = reviews[r].nonce
  BY <1>3 DEF Passed
<1>4. ASSUME FetchApplication(r)
      PROVE  reviews'[r].nonce = reviews[r].nonce /\ reviews[r].step = "fetch"
  <2>1. CASE isValidTransition(applications[reviews[r].app].status, reviews[r].to)
    BY <1>0, <1>4, <2>1 DEF FetchApplication, Review
  <2>2. CASE ~isValidTransition(applications[reviews[r].app].status, reviews[r].to)
    BY <1>4, <2>2, Answered DEF FetchApplication
  <2> QED BY <2>1, <2>2
<1>5. ASSUME NEW kind \in Subjects, NEW result \in ResultCode, NEW hits \in SUBSET Hits,
             Screen(r, kind, result, hits)
      PROVE  reviews'[r].nonce = reviews[r].nonce /\ reviews[r].step \in {"entity", "wallet"}
  <2>1. CASE AfterScreening(kind, result) = "closed"
    BY <1>5, <2>1, Answered DEF Screen, Subjects
  <2>2. CASE AfterScreening(kind, result) # "closed"
    BY <1>0, <1>5, <2>2 DEF Screen, Review, Subjects
  <2> QED BY <2>1, <2>2
<1>6. ASSUME StoreMatches(r) \/ ApplyTransition(r) \/ AppendEvent(r)
      PROVE  /\ reviews'[r].nonce = reviews[r].nonce
             /\ reviews[r].step \in {"matches", "update", "append"}
  BY <1>6, Answered, Advanced DEF StoreMatches, ApplyTransition, AppendEvent
<1>7. ASSUME ReviewFails(r) \/ ReviewDies(r)
      PROVE  Passed(reviews[r]) /\ reviews'[r].nonce = reviews[r].nonce
  <2>1. reviews'[r].nonce = reviews[r].nonce
    BY <1>7, Answered, Advanced DEF ReviewFails, ReviewDies
  <2>2. CASE reviews[r].step = "nonce"
    <3>1. Close(r)
      BY <1>7, <2>2 DEF ReviewFails, ReviewDies
    <3>2. reviews'[r].step = "closed" /\ reviews'[r].nonce = reviews[r].nonce
      BY <3>1, Answered
    <3>3. reviews'[r].from = "none"
      BY <2>2, <3>1, <3>2, Answered DEF Passed, TypeInv, CallsOK, ReviewOK
    <3> QED BY <3>2, <3>3 DEF Passed
  <2>3. CASE reviews[r].step # "nonce"
    BY <1>7, <2>1, <2>3 DEF ReviewFails, ReviewDies, ReviewOver, Passed
  <2> QED BY <2>2, <2>3
<1> QED
  BY <1>1, <1>2, <1>3, <1>4, <1>5, <1>6, <1>7 DEF ReviewNext

LEMMA NonceStep == TypeInv /\ NonceInv /\ [Next]_vars => NonceInv'
<1> SUFFICES ASSUME TypeInv, NonceInv, [Next]_vars PROVE NonceInv'
  OBVIOUS
<1>1. ASSUME NEW n \in Nonces, issueNonce(n) \/ NonceExpires(n)
      PROVE  NonceInv'
  <2>1. /\ reviews' = reviews
        /\ \A m \in Nonces : nonces[m] = "consumed" => nonces'[m] = "consumed"
    BY <1>1 DEF issueNonce, NonceExpires, TypeInv, KybTypeOK
  <2>2. \A r \in Requests : Passed(reviews[r]) => reviews[r].nonce \in Nonces
    BY DEF Passed, TypeInv, KybTypeOK, Review
  <2> QED BY <2>1, <2>2 DEF NonceInv
<1>2. ASSUME NEW r \in Requests, consumeNonce(r)
      PROVE  NonceInv'
  <2> DEFINE n == reviews[r].nonce
  <2>1. n \in Nonces /\ n # None /\ reviews[r].from = "none"
    BY <1>2, KybAssumption DEF consumeNonce, TypeInv, CallsOK, ReviewOK
  <2>2. \A q \in Requests \ {r} : reviews'[q] = reviews[q]
    BY <1>2, OtherReviews DEF ReviewNext
  <2>3. CASE nonces[n] = "issued"
    <3>1. /\ nonces' = [nonces EXCEPT ![n] = "consumed"]
          /\ Advance(r, "fetch")
      BY <1>2, <2>3 DEF consumeNonce
    <3>2. \A q \in Requests : reviews[q].nonce = n => ~Passed(reviews[q])
      BY <2>3 DEF NonceInv
    <3>3. nonces'[n] = "consumed" /\ \A m \in Nonces : m # n => nonces'[m] = nonces[m]
      BY <2>1, <3>1 DEF TypeInv, KybTypeOK
    <3>4. reviews'[r].nonce = n
      BY <3>1, Advanced
    <3>5. \A q \in Requests \ {r} : Passed(reviews[q]) =>
              reviews[q].nonce \in Nonces /\ reviews[q].nonce # n
      BY <3>2 DEF Passed, TypeInv, KybTypeOK, Review
    <3> QED BY <2>2, <3>2, <3>3, <3>4, <3>5 DEF NonceInv
  <2>4. CASE nonces[n] # "issued"
    <3>1. Close(r) /\ nonces' = nonces
      BY <1>2, <2>4 DEF consumeNonce
    <3>2. ~Passed(reviews'[r])
      BY <2>1, <3>1, Answered DEF Passed
    <3> QED BY <2>2, <3>1, <3>2 DEF NonceInv
  <2> QED BY <2>3, <2>4
<1>3. ASSUME NEW r \in Requests, ReviewNext(r), ~consumeNonce(r)
      PROVE  NonceInv'
  <2>1. nonces' = nonces
    BY <1>3 DEF ReviewNext, ReceiveEmailReview, ReceiveWalletReview, FetchApplication, Screen,
                StoreMatches, ApplyTransition, AppendEvent,
              ReviewFails, ReviewDies
  <2>2. \A q \in Requests \ {r} : reviews'[q] = reviews[q]
    BY <1>3, OtherReviews
  <2>3. Passed(reviews'[r]) => Passed(reviews[r]) /\ reviews'[r].nonce = reviews[r].nonce
    BY <1>3, PassedBefore
  <2> QED BY <2>1, <2>2, <2>3 DEF NonceInv
<1>4. ASSUME UNCHANGED <<nonces, reviews>> PROVE NonceInv'
  BY <1>4 DEF NonceInv
<1>5. ASSUME NEW c \in Rescreens, RescreenNext(c)
      PROVE  UNCHANGED <<nonces, reviews>>
  BY <1>5 DEF RescreenNext, StartRescreen, SkipApplication, RescreenApplication,
              ReadKnownMatches, InsertFreshMatches, EndRescreen, RescreenDies
<1> QED
  BY <1>1, <1>2, <1>3, <1>4, <1>5 DEF Next, SubmitApplication, ResolveMatch

\* A signed review takes effect once, however often it is delivered.
THEOREM SignaturesUsedOnce == Spec => []SignaturesAreSingleUse
<1>1. Spec => []NonceInv
  BY InitSingleUse, NonceStep, TypesHold, PTL DEF Spec
<1>2. NonceInv => SignaturesAreSingleUse
  BY DEF NonceInv, SignaturesAreSingleUse, Passed
<1> QED BY <1>1, <1>2, PTL

-----------------------------------------------------------------------------
(***************************************************************************)
(* The audit trail and the Sentinel's queue.  Both invariants are inductive*)
(* with the types: the call that owes a row holds it until it has written  *)
(* it or has failed.                                                       *)
(***************************************************************************)

\* Calls that have yet to append their event, or never will.
Owes(call, a, to) ==
    call.app = a /\ call.to = to /\ call.step \in {"append", "unrecorded", "diedAppending"}

LEMMA InitTrace == Init => TransitionsLeaveATrace
<1> SUFFICES ASSUME Init PROVE TransitionsLeaveATrace
  OBVIOUS
<1>1. \A a \in Applications : applications[a].status \notin {"none", "submitted"} =>
         /\ applications[a] # NoApplication
         /\ applications[a].status = "under_review"
  BY KybAssumption DEF Init, NoApplication
<1>2. ASSUME NEW a \in Applications, InitialApplications[a] # NoApplication
      PROVE  [app |-> a, from |-> "submitted", to |-> "under_review"] \in events
  BY <1>2 DEF Init
<1> QED BY <1>1, <1>2 DEF Init, TransitionsLeaveATrace, StatusOnFile

\* An event stays in the trail, and a debt is settled by the event it is about.
LEMMA DebtsAreKept ==
    ASSUME TypeInv, [Next]_vars
    PROVE  /\ events \subseteq events'
           /\ \A r \in Requests, a \in Applications, to \in KybStatus :
                 Owes(reviews[r], a, to) =>
                    \/ Owes(reviews'[r], a, to)
                    \/ \E e \in events' : e.app = a /\ e.to = to
<1>1. ASSUME NEW c \in Rescreens, RescreenNext(c)
      PROVE  UNCHANGED events
  BY <1>1 DEF RescreenNext, StartRescreen, SkipApplication, RescreenApplication,
              ReadKnownMatches, InsertFreshMatches, EndRescreen, RescreenDies
<1>2. ASSUME NEW r \in Requests, ReviewNext(r)
      PROVE  events \subseteq events'
  BY <1>2 DEF ReviewNext, ReceiveEmailReview, ReceiveWalletReview, consumeNonce,
              FetchApplication, Screen, StoreMatches, ApplyTransition, AppendEvent,
              ReviewFails, ReviewDies
<1>3. events \subseteq events'
  BY <1>1, <1>2 DEF Next, SubmitApplication, issueNonce, NonceExpires, ResolveMatch
<1>4. ASSUME NEW r \in Requests, NEW a \in Applications, NEW to \in KybStatus,
             Owes(reviews[r], a, to), ReviewNext(r)
      PROVE  Owes(reviews'[r], a, to) \/ \E e \in events' : e.app = a /\ e.to = to
  <2>1. reviews[r].step \in {"append", "unrecorded", "diedAppending"}
    BY <1>4 DEF Owes
  <2>2. AppendEvent(r) \/ ReviewFails(r) \/ ReviewDies(r)
    <3>1. ASSUME NEW b \in Applications, NEW s \in KybStatus,
                 \/ ReceiveEmailReview(r, b, s)
                 \/ \E n \in Nonces : ReceiveWalletReview(r, n, b, s)
          PROVE  FALSE
      <4>1. reviews[r] = NoReview
        BY <3>1 DEF ReceiveEmailReview, ReceiveWalletReview
      <4>2. NoReview.step = "none"
        BY DEF NoReview
      <4> QED BY <2>1, <4>1, <4>2
    <3>2. ASSUME \/ consumeNonce(r) \/ FetchApplication(r) \/ StoreMatches(r)
                 \/ ApplyTransition(r)
          PROVE  FALSE
      BY <2>1, <3>2 DEF consumeNonce, FetchApplication, StoreMatches, ApplyTransition
    <3>3. ASSUME NEW kind \in Subjects, NEW result \in ResultCode, NEW hits \in SUBSET Hits,
                 Screen(r, kind, result, hits)
          PROVE  FALSE
      BY <2>1, <3>3 DEF Screen, Subjects
    <3> QED BY <1>4, <3>1, <3>2, <3>3 DEF ReviewNext
  <2>3. CASE AppendEvent(r)
    <3> DEFINE event == [app |-> reviews[r].app, from |-> reviews[r].from, to |-> reviews[r].to]
    <3>1. event \in events'
      BY <2>3 DEF AppendEvent
    <3>2. event.app = a /\ event.to = to
      BY <1>4 DEF Owes
    <3> QED BY <3>1, <3>2
  <2>4. CASE ReviewFails(r) \/ ReviewDies(r)
    <3>1. Advance(r, "unrecorded") \/ Advance(r, "diedAppending")
      BY <2>1, <2>4 DEF ReviewFails, ReviewDies, ReviewOver
    <3> QED BY <1>4, <3>1, Advanced DEF Owes
  <2> QED BY <2>2, <2>3, <2>4
<1>5. ASSUME NEW r \in Requests, NEW a \in Applications, NEW to \in KybStatus,
             Owes(reviews[r], a, to)
      PROVE  Owes(reviews'[r], a, to) \/ \E e \in events' : e.app = a /\ e.to = to
  <2>1. CASE UNCHANGED reviews
    BY <1>5, <2>1
  <2>2. ASSUME NEW q \in Requests, ReviewNext(q), q # r
        PROVE  Owes(reviews'[r], a, to)
    BY <1>5, <2>2, OtherReviews
  <2> QED BY <1>4, <1>5, <2>1, <2>2, ReviewWriters
<1> QED BY <1>3, <1>5

LEMMA TraceStep == TypeInv /\ TransitionsLeaveATrace /\ [Next]_vars => TransitionsLeaveATrace'
<1> SUFFICES ASSUME TypeInv, TransitionsLeaveATrace, [Next]_vars,
                    NEW a \in Applications, applications'[a].status \notin {"none", "submitted"}
             PROVE  \/ \E e \in events' : e.app = a /\ e.to = applications'[a].status
                    \/ \E r \in Requests : Owes(reviews'[r], a, applications'[a].status)
  BY DEF TransitionsLeaveATrace, StatusOnFile, EventOutstanding, Owes
<1>1. CASE applications'[a].status = applications[a].status
  <2>1. applications[a].status \in KybStatus
    BY <1>1 DEF TypeInv, KybTypeOK, Application, NoApplication
  <2>2. \/ \E e \in events : e.app = a /\ e.to = applications[a].status
        \/ \E r \in Requests : Owes(reviews[r], a, applications[a].status)
    BY <1>1 DEF TransitionsLeaveATrace, StatusOnFile, EventOutstanding, Owes
  <2> QED BY <1>1, <2>1, <2>2, DebtsAreKept
<1>2. CASE applications'[a].status # applications[a].status
  <2>1. ASSUME NEW b \in Applications, NEW w \in Applicants, SubmitApplication(b, w)
        PROVE  FALSE
    <3>1. applications' = [applications EXCEPT ![b] = [applicant |-> w, status |-> "submitted"]]
      BY <2>1 DEF SubmitApplication
    <3>2. CASE a = b
      BY <3>1, <3>2 DEF TypeInv, KybTypeOK
    <3>3. CASE a # b
      BY <1>2, <3>1, <3>3 DEF TypeInv, KybTypeOK
    <3> QED BY <3>2, <3>3
  <2>2. PICK r \in Requests : ApplyTransition(r)
    BY <1>2, <2>1, StatusWriters
  <2>3. reviews[r].app = a /\ applications'[a].status = reviews[r].to
    <3>1. applications' = [applications EXCEPT ![reviews[r].app].status = reviews[r].to]
      BY <1>2, <2>2 DEF ApplyTransition
    <3>2. reviews[r].app = a
      BY <1>2, <3>1 DEF TypeInv, KybTypeOK
    <3>3. applications[a] \in Application
      BY DEF TypeInv, KybTypeOK
    <3> QED BY <3>1, <3>2, <3>3 DEF TypeInv, KybTypeOK, Application, NoApplication
  <2>4. Advance(r, "append")
    BY <2>2 DEF ApplyTransition
  <2>5. Owes(reviews'[r], a, applications'[a].status)
    BY <2>3, <2>4, Advanced DEF Owes
  <2> QED BY <2>5
<1> QED BY <1>1, <1>2

\* An application changes its status behind the back of the audit trail only with
\* the instance of the review that changes it: by its death exactly between the
\* update and the event.  Every other way ends in the event or in the answer 500.
THEOREM StatusesAreTraced == Spec => []TransitionsLeaveATrace
BY InitTrace, TraceStep, TypesHold, PTL DEF Spec

-----------------------------------------------------------------------------
\* Calls that hold a hit the Sentinel has not been shown.
Keeps(call, a, h) ==
    call.app = a /\ h \in call.hits /\ call.step \in {"matches", "unscreened", "diedStoring"}
Carries(call, a, h) ==
    \/ call.app = a /\ h \in call.hits /\ call.step \in {"known", "insert", "died"}
    \/ <<a, h>> \in call.failed

Queued(a, h, rows) == \E m \in rows : m.app = a /\ m.hit = h

Reached(a, h) ==
    \/ Queued(a, h, matches)
    \/ \E r \in Requests : Keeps(reviews[r], a, h)
    \/ \E c \in Rescreens : Carries(rescreens[c], a, h)

HitInv == \A run \in runs : \A h \in run.hits : Reached(run.app, h)

LEMMA RowsQueue ==
    ASSUME NEW by, NEW a, NEW hits, NEW h \in hits, NEW rows, PendingRows(by, a, hits) \subseteq rows
    PROVE  Queued(a, h, rows)
<1> DEFINE row == [by |-> by, app |-> a, hit |-> h, status |-> "pending_sentinel"]
<1>1. row \in rows /\ row.app = a /\ row.hit = h
  BY DEF PendingRows
<1> QED BY <1>1 DEF Queued

\* The Sentinel decides a match, nobody takes it away.
LEMMA QueuedIsKept ==
    ASSUME TypeInv, [Next]_vars, NEW a, NEW h, Queued(a, h, matches)
    PROVE  Queued(a, h, matches')
<1>1. ASSUME NEW r \in Requests, ReviewNext(r)
      PROVE  matches \subseteq matches'
  BY <1>1 DEF ReviewNext, ReceiveEmailReview, ReceiveWalletReview, consumeNonce,
              FetchApplication, Screen, StoreMatches, ApplyTransition, AppendEvent,
              ReviewFails, ReviewDies
<1>2. ASSUME NEW c \in Rescreens, RescreenNext(c)
      PROVE  matches \subseteq matches'
  BY <1>2 DEF RescreenNext, StartRescreen, SkipApplication, RescreenApplication,
              ReadKnownMatches, InsertFreshMatches, EndRescreen, RescreenDies
<1>3. ASSUME NEW m \in matches, NEW resolution \in {"false_positive", "true_match"},
             ResolveMatch(m, resolution)
      PROVE  Queued(a, h, matches')
  <2> DEFINE decided == [m EXCEPT !.status = resolution]
  <2>1. /\ matches' = (matches \ {m}) \cup {decided}
        /\ decided.app = m.app /\ decided.hit = m.hit
    BY <1>3 DEF ResolveMatch, TypeInv, KybTypeOK, Match
  <2> HIDE DEF decided
  <2> QED BY <2>1 DEF Queued
<1>4. matches \subseteq matches' => Queued(a, h, matches')
  BY DEF Queued
<1> QED
  BY <1>1, <1>2, <1>3, <1>4 DEF Next, SubmitApplication, issueNonce, NonceExpires

LEMMA RescreenWriters ==
    ASSUME [Next]_vars
    PROVE  \/ \E c \in Rescreens : RescreenNext(c)
           \/ UNCHANGED rescreens
<1>1. ASSUME NEW r \in Requests, ReviewNext(r)
      PROVE  UNCHANGED rescreens
  BY <1>1 DEF ReviewNext, ReceiveEmailReview, ReceiveWalletReview, consumeNonce,
              FetchApplication, Screen, StoreMatches, ApplyTransition, AppendEvent,
              ReviewFails, ReviewDies
<1> QED
  BY <1>1 DEF Next, SubmitApplication, issueNonce, NonceExpires, ResolveMatch

\* A review lets go of a hit by storing it or by failing with it.
LEMMA KeptHits ==
    ASSUME TypeInv, [Next]_vars, NEW r \in Requests, NEW a, NEW h, Keeps(reviews[r], a, h)
    PROVE  Keeps(reviews'[r], a, h) \/ Queued(a, h, matches')
<1>1. CASE UNCHANGED reviews
  BY <1>1
<1>2. ASSUME NEW q \in Requests, ReviewNext(q), q # r
      PROVE  Keeps(reviews'[r], a, h)
  BY <1>2, OtherReviews
<1>3. ASSUME ReviewNext(r)
      PROVE  Keeps(reviews'[r], a, h) \/ Queued(a, h, matches')
  <2>1. reviews[r].step \in {"matches", "unscreened", "diedStoring"}
    BY DEF Keeps
  <2>2. StoreMatches(r) \/ ReviewFails(r) \/ ReviewDies(r)
    <3>1. ASSUME NEW b \in Applications, NEW s \in KybStatus,
                 \/ ReceiveEmailReview(r, b, s)
                 \/ \E n \in Nonces : ReceiveWalletReview(r, n, b, s)
          PROVE  FALSE
      <4>1. reviews[r] = NoReview
        BY <3>1 DEF ReceiveEmailReview, ReceiveWalletReview
      <4>2. NoReview.step = "none"
        BY DEF NoReview
      <4> QED BY <2>1, <4>1, <4>2
    <3>2. ASSUME \/ consumeNonce(r) \/ FetchApplication(r) \/ ApplyTransition(r)
                 \/ AppendEvent(r)
          PROVE  FALSE
      BY <2>1, <3>2 DEF consumeNonce, FetchApplication, ApplyTransition, AppendEvent
    <3>3. ASSUME NEW kind \in Subjects, NEW result \in ResultCode, NEW hits \in SUBSET Hits,
                 Screen(r, kind, result, hits)
          PROVE  FALSE
      BY <2>1, <3>3 DEF Screen, Subjects
    <3> QED BY <1>3, <3>1, <3>2, <3>3 DEF ReviewNext
  <2>3. CASE StoreMatches(r)
    <3>1. PendingRows(r, a, reviews[r].hits) \subseteq matches'
      BY <2>3 DEF StoreMatches, Keeps
    <3> QED BY <3>1, RowsQueue DEF Keeps
  <2>4. CASE ReviewFails(r) \/ ReviewDies(r)
    <3>1. Advance(r, "unscreened") \/ Advance(r, "diedStoring")
      BY <2>1, <2>4 DEF ReviewFails, ReviewDies, ReviewOver
    <3> QED BY <3>1, Advanced DEF Keeps
  <2> QED BY <2>2, <2>3, <2>4
<1> QED BY <1>1, <1>2, <1>3, ReviewWriters

\* So does a re-screening, or by finding the hit in the queue.
LEMMA CarriedHits ==
    ASSUME TypeInv, [Next]_vars, NEW c \in Rescreens, NEW a, NEW h, Carries(rescreens[c], a, h)
    PROVE  Carries(rescreens'[c], a, h) \/ Queued(a, h, matches')
<1>0. /\ rescreens[c] \in Rescreen /\ rescreens \in [Rescreens -> Rescreen]
      /\ RescreenOK(rescreens[c])
  BY DEF TypeInv, KybTypeOK, CallsOK
<1>1. CASE UNCHANGED rescreens
  BY <1>1
<1>2. ASSUME NEW d \in Rescreens, RescreenNext(d), d # c
      PROVE  rescreens'[c] = rescreens[c]
  BY <1>0, <1>2 DEF RescreenNext, StartRescreen, SkipApplication, RescreenApplication,
                    ReadKnownMatches, InsertFreshMatches, EndRescreen, RescreenDies
<1>3. ASSUME StartRescreen(c) PROVE FALSE
  BY <1>3 DEF StartRescreen, NoRescreen, Carries
<1>4. ASSUME NEW b \in Applications, NEW result \in ResultCode, NEW hits \in SUBSET Hits,
             RescreenApplication(c, b, result, hits)
      PROVE  Carries(rescreens'[c], a, h)
  <2>1. rescreens[c].hits = {}
    BY <1>0, <1>4 DEF RescreenApplication, RescreenOK
  <2>2. rescreens'[c].failed = rescreens[c].failed
    BY <1>0, <1>4 DEF RescreenApplication, Rescreen
  <2> QED BY <2>1, <2>2 DEF Carries
<1>5. ASSUME NEW ok \in BOOLEAN, ReadKnownMatches(c, ok)
      PROVE  Carries(rescreens'[c], a, h) \/ Queued(a, h, matches')
  <2> DEFINE known == IF ok THEN KnownHits(rescreens[c].app) ELSE {}
  <2>1. /\ rescreens'[c].app = rescreens[c].app
        /\ rescreens'[c].hits = rescreens[c].hits \ known
        /\ rescreens'[c].failed = rescreens[c].failed
        /\ rescreens'[c].hits # {} => rescreens'[c].step = "insert"
    BY <1>0, <1>5 DEF ReadKnownMatches, Rescreen
  <2>2. h \in known /\ rescreens[c].app = a => Queued(a, h, matches)
    BY DEF KnownHits, Queued
  <2> HIDE DEF known
  <2> QED BY <2>1, <2>2, QueuedIsKept DEF Carries
<1>6. ASSUME InsertFreshMatches(c)
      PROVE  Carries(rescreens'[c], a, h) \/ Queued(a, h, matches')
  <2> DEFINE pairs == {rescreens[c].app} \X rescreens[c].hits
  <2>1. \/ /\ PendingRows(c, rescreens[c].app, rescreens[c].hits) \subseteq matches'
           /\ rescreens' = [rescreens EXCEPT ![c].step = "next", ![c].hits = {}]
        \/ rescreens' = [rescreens EXCEPT ![c].step = "next", ![c].hits = {},
                                          ![c].failed = @ \cup pairs]
    BY <1>6 DEF InsertFreshMatches
  <2>2. rescreens[c].failed \subseteq rescreens'[c].failed
    BY <1>0, <2>1 DEF Rescreen
  <2>3. CASE <<a, h>> \in rescreens[c].failed
    BY <2>2, <2>3 DEF Carries
  <2>4. CASE rescreens[c].app = a /\ h \in rescreens[c].hits
    <3>1. CASE PendingRows(c, rescreens[c].app, rescreens[c].hits) \subseteq matches'
      BY <2>4, <3>1, RowsQueue
    <3>2. CASE rescreens' = [rescreens EXCEPT ![c].step = "next", ![c].hits = {},
                                              ![c].failed = @ \cup pairs]
      <4>1. <<a, h>> \in pairs
        BY <2>4
      <4>2. rescreens'[c].failed = rescreens[c].failed \cup pairs
        BY <1>0, <3>2 DEF Rescreen
      <4> QED BY <4>1, <4>2 DEF Carries
    <3> QED BY <2>1, <3>1, <3>2
  <2> QED BY <2>3, <2>4 DEF Carries
<1>7. ASSUME EndRescreen(c)
      PROVE  Carries(rescreens'[c], a, h)
  BY <1>0, <1>7, EndedOK DEF EndRescreen, Carries
<1>8. ASSUME NEW b \in Applications, SkipApplication(c, b)
      PROVE  Carries(rescreens'[c], a, h)
  BY <1>0, <1>8 DEF SkipApplication, Rescreen, Carries
<1>9. ASSUME RescreenDies(c)
      PROVE  Carries(rescreens'[c], a, h)
  <2>1. CASE rescreens[c].step = "next"
    BY <1>0, <1>9, <2>1, EndedOK DEF RescreenDies, Carries
  <2>2. CASE rescreens[c].step # "next"
    BY <1>0, <1>9, <2>2 DEF RescreenDies, Rescreen, Carries
  <2> QED BY <2>1, <2>2
<1>10. ASSUME RescreenNext(c)
      PROVE  Carries(rescreens'[c], a, h) \/ Queued(a, h, matches')
  BY <1>3, <1>4, <1>5, <1>6, <1>7, <1>8, <1>9, <1>10 DEF RescreenNext
<1> QED BY <1>1, <1>2, <1>10, RescreenWriters

LEMMA ReachedStays ==
    ASSUME TypeInv, [Next]_vars, NEW a, NEW h, Reached(a, h)
    PROVE  Reached(a, h)'
BY QueuedIsKept, KeptHits, CarriedHits DEF Reached

LEMMA HitStep == TypeInv /\ HitInv /\ [Next]_vars => HitInv'
<1> SUFFICES ASSUME TypeInv, HitInv, [Next]_vars, NEW run \in runs', NEW h \in run.hits
             PROVE  Reached(run.app, h)'
  BY DEF HitInv
<1>1. CASE run \in runs
  BY <1>1, ReachedStays DEF HitInv
<1>2. ASSUME NEW r \in Requests, NEW kind \in Subjects, NEW result \in ResultCode,
             NEW hits \in SUBSET Hits, Screen(r, kind, result, hits), run \notin runs
      PROVE  Reached(run.app, h)'
  <2>1. run = [app |-> reviews[r].app, kind |-> kind, result |-> result, hits |-> hits]
    BY <1>2 DEF Screen
  <2>2. run.app = reviews[r].app /\ run.hits = hits
    BY <2>1
  <2>3. AfterScreening(kind, result) = "matches"
    BY <1>2, <2>2 DEF Screen, AfterScreening
  <2>4. reviews' = [reviews EXCEPT ![r].step = "matches", ![r].hits = hits]
    BY <1>2, <2>3 DEF Screen
  <2>5. Keeps(reviews'[r], run.app, h)
    BY <2>2, <2>4 DEF Keeps, TypeInv, KybTypeOK, Review
  <2> QED BY <2>5 DEF Reached
<1>3. ASSUME NEW c \in Rescreens, NEW a \in Applications, NEW result \in ResultCode,
             NEW hits \in SUBSET Hits, RescreenApplication(c, a, result, hits), run \notin runs
      PROVE  Reached(run.app, h)'
  <2>1. run = [app |-> a, kind |-> "entity", result |-> result, hits |-> hits]
    BY <1>3 DEF RescreenApplication
  <2>2. run.app = a /\ run.hits = hits
    BY <2>1
  <2>3. /\ rescreens'[c].app = a /\ rescreens'[c].hits = hits
        /\ rescreens'[c].step = "known"
    BY <1>3, <2>2 DEF RescreenApplication, TypeInv, KybTypeOK, Rescreen
  <2> QED BY <2>2, <2>3 DEF Reached, Carries
<1>4. ASSUME NEW r \in Requests, ReviewNext(r), run \notin runs
      PROVE  \E kind \in Subjects, result \in ResultCode, hits \in SUBSET Hits :
                Screen(r, kind, result, hits)
  BY <1>4 DEF ReviewNext, ReceiveEmailReview, ReceiveWalletReview, consumeNonce,
              FetchApplication, StoreMatches, ApplyTransition, AppendEvent,
              ReviewFails, ReviewDies
<1>5. ASSUME NEW c \in Rescreens, RescreenNext(c), run \notin runs
      PROVE  \E a \in Applications, result \in ResultCode, hits \in SUBSET Hits :
                RescreenApplication(c, a, result, hits)
  BY <1>5 DEF RescreenNext, StartRescreen, SkipApplication, ReadKnownMatches,
              InsertFreshMatches, EndRescreen, RescreenDies
<1> QED
  BY <1>1, <1>2, <1>3, <1>4, <1>5
     DEF Next, SubmitApplication, issueNonce, NonceExpires, ResolveMatch

\* A match a provider has reported is in the Sentinel's queue, on its way there in a
\* live call, reported as lost, or gone with an instance that died exactly between
\* logging the screening and storing the match: there is no other way to lose one.
THEOREM HitsAreNotLost == Spec => []HitsReachTheSentinel
<1>1. Init => HitInv
  BY DEF Init, HitInv
<1>2. Spec => []HitInv
  BY <1>1, HitStep, TypesHold, PTL DEF Spec
<1>3. HitInv => HitsReachTheSentinel
  BY DEF HitInv, HitsReachTheSentinel, Reached, Queued, Keeps, Carries, InQueue, LoggedAsLost,
         HeldByReview, HeldByRescreen
<1> QED BY <1>2, <1>3, PTL

=============================================================================
