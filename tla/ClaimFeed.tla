------------------------------- MODULE ClaimFeed -------------------------------
(***************************************************************************)
(* The off-chain mirror of the claim lifecycle and what is driven by it:   *)
(* the cron job that copies the logs of ClaimManager and ClaimReceipt into *)
(* claim_audit_trail, and the one that drafts an AI assessment for every   *)
(* ClaimSubmitted row.  Invocations overlap (a schedule, a manual trigger, *)
(* a retry of curl), die at any `await', and read a chain whose last       *)
(* REORG_SAFETY blocks may still change.                                   *)
(* A step of this module is what happens from one await to the next.       *)
(***************************************************************************)
EXTENDS Integers, Sequences, FiniteSets, FiniteSetsExt

CONSTANTS
    Claims,             \* claims that may come to exist on chain
    Refreshes,          \* invocations of the audit refresh that may overlap
    Assessors,          \* invocations of the AI refresh that may overlap
    Calls,              \* invocations of the operator's assess route
    Deployments,        \* sets of the above that may be at work together
    REORG_SAFETY,       \* 5 in the code: no reorganisation goes deeper
    MAX_BLOCK_RANGE_PER_RUN,  \* 5000 in the code
    Window,             \* blocks a first scan looks back: 50000 in the code
    MAX_CLAIMS_PER_RUN, \* 25 in the code
    Overfetch,          \* trail rows read per claim assessed: 4 in the code
    LinkRows,           \* trail rows the receipt link is built from: 500 in the code
    MaxHeight,          \* bound: blocks of the chain
    MaxDrafts,          \* bound: assessments of one claim awaiting publication
    MaxBlind,           \* bound: draft runs that could not read the assessments
    None

ASSUME FeedAssumption ==
    /\ REORG_SAFETY \in Nat /\ Window \in Nat /\ MaxHeight \in Nat
    /\ MaxDrafts \in Nat /\ MaxBlind \in Nat
    /\ MAX_BLOCK_RANGE_PER_RUN \in Nat \ {0}
    /\ MAX_CLAIMS_PER_RUN \in Nat /\ Overfetch \in Nat /\ LinkRows \in Nat
    /\ None \notin Claims \cup Int
    /\ IsFiniteSet(Assessors)
    /\ Deployments \subseteq SUBSET (Refreshes \cup Assessors \cup Calls)

VARIABLES
    chain,      \* the claim event, if any, of each block above the genesis block
    final,      \* blocks no reorganisation can reach any more
    trail,      \* claim_audit_trail
    cursor,     \* audit_cursor
    reported,   \* rows the trail lacks because an insert failed, which is logged
    skipped,    \* history: logs a scan without a cursor began above, read by no action
    refreshes,  \* the audit refreshes in flight
    pending,    \* ai_assessments_pending: rows of a claim awaiting publication
    published,  \* claims with a row marked published
    drafted,    \* rows the cron job has stored for a claim so far
    blind,      \* draft runs so far that could not read the assessments
    assessors,  \* the AI refreshes in flight: submissions still to draft
    calls,      \* the assess calls in flight: the claim about to be stored
    armed       \* the invocations that are made and carry CRON_SECRET

feedVars == <<trail, cursor, reported, skipped, refreshes>>
draftVars == <<pending, published, drafted, blind, assessors, calls, armed>>
vars == <<chain, final, trail, cursor, reported, skipped, refreshes,
          pending, published, drafted, blind, assessors, calls, armed>>

-----------------------------------------------------------------------------
(* The chain *)

Quiet == [claim |-> None, event |-> "none"]
Block == {Quiet} \cup [claim : Claims, event : {"ClaimSubmitted", "ClaimApproved", "ClaimPaid"}]

Targets == {"claimManager", "claimReceipt"}

\* The log each contract emits in the transaction of a claim event.
Emits(event, target) ==
    CASE target = "claimManager"                            -> event
      [] target = "claimReceipt" /\ event = "ClaimApproved" -> "ReceiptMinted"
      [] target = "claimReceipt" /\ event = "ClaimPaid"     -> "ReceiptExercised"
      [] OTHER                                              -> "none"

Logs(target, from, to) ==
    {[event |-> Emits(chain[b].event, target), claim |-> chain[b].claim, block |-> b] :
        b \in {n \in (from..to) \cap DOMAIN chain : Emits(chain[n].event, target) # "none"}}

Happened(c, event) == \E b \in DOMAIN chain : chain[b] = [claim |-> c, event |-> event]

\* The claim lifecycle of ClaimManager, reduced to the events that link it to a receipt.
MayHappen(c, event) ==
    /\ ~Happened(c, event)
    /\ event = "ClaimApproved" => Happened(c, "ClaimSubmitted")
    /\ event = "ClaimPaid" => Happened(c, "ClaimApproved")

Mine(block) ==
    /\ Len(chain) < MaxHeight
    /\ block # Quiet => MayHappen(block.claim, block.event)
    /\ chain' = Append(chain, block)
    /\ final' = Max({final, Len(chain) + 1 - REORG_SAFETY})
    /\ UNCHANGED <<feedVars, draftVars>>

Reorganise(height) ==
    /\ height \in final..(Len(chain) - 1)
    /\ chain' = SubSeq(chain, 1, height)
    /\ UNCHANGED <<final, feedVars, draftVars>>

-----------------------------------------------------------------------------
(* The audit refresh *)

Row == [event : {"ClaimSubmitted", "ClaimApproved", "ClaimPaid", "ReceiptMinted", "ReceiptExercised"},
        claim : Claims, block : Nat]

Refresh == [step : {"idle", "link", "cursor", "logs", "insert", "advance"},
            safeTo : Nat,
            link : SUBSET Claims,           \* claims whose receipt id the trail gave away
            target : Targets,
            from : Nat,                     \* first block of the chunk
            rows : SUBSET Row]              \* decoded logs about to be stored

Idle == [step |-> "idle", safeTo |-> 0, link |-> {}, target |-> "claimManager",
         from |-> 0, rows |-> {}]

\* The next contract, or the answer of the route.
NextTarget(u) ==
    refreshes' = [refreshes EXCEPT ![u] =
        IF @.target = "claimManager"
        THEN [@ EXCEPT !.step = "cursor", !.target = "claimReceipt", !.from = 0, !.rows = {}]
        ELSE Idle]

\* Mutants: the margin is subtracted from a chain shorter than it; the scan goes
\* up to the latest block.
SafeToUnguarded(latest) == latest - REORG_SAFETY

SafeToLatest(latest) == latest

SafeTo(latest) == IF latest > REORG_SAFETY THEN latest - REORG_SAFETY ELSE 0

ReadLatest(u) ==
    /\ u \in armed
    /\ refreshes[u].step = "idle"
    /\ refreshes' = [refreshes EXCEPT ![u].step = "link", ![u].safeTo = SafeTo(Len(chain))]
    /\ UNCHANGED <<chain, final, trail, cursor, reported, skipped, draftVars>>

\* The last `limit' of some rows, in the order of their blocks.
Newest(rows, limit) ==
    {row \in rows : Cardinality({t \in rows : t.block > row.block}) < limit}

\* The link from receipts to claims is what the newest rows of the trail give before
\* this scan, or nothing when they cannot be read: the error is not looked at.
ReadReceiptLink(u, ok) ==
    LET linked == Newest({t \in trail : t.event \in {"ClaimApproved", "ClaimPaid"}}, LinkRows) IN
    /\ refreshes[u].step = "link"
    /\ refreshes' = [refreshes EXCEPT
          ![u].step = "cursor",
          ![u].link = IF ok THEN {row.claim : row \in linked} ELSE {}]
    /\ UNCHANGED <<chain, final, trail, cursor, reported, skipped, draftVars>>

\* A cursor that is absent, or cannot be read, starts the scan `Window' blocks back,
\* and what lies below that start is left to whoever has read it before.
ReadCursor(u, ok) ==
    LET this  == refreshes[u]
        known == ok /\ cursor[this.target] # None
        from  == IF known THEN cursor[this.target] + 1
                 ELSE IF this.safeTo > Window THEN this.safeTo - Window ELSE 0
    IN
    /\ this.step = "cursor"
    /\ IF from > this.safeTo THEN NextTarget(u)
       ELSE refreshes' = [refreshes EXCEPT ![u].step = "logs", ![u].from = from]
    /\ skipped' = IF known THEN skipped
                  ELSE skipped \cup (Logs(this.target, 0, from - 1) \ (trail \cup reported))
    /\ UNCHANGED <<chain, final, trail, cursor, reported, draftVars>>

ChunkEnd(u) == Min({refreshes[u].from + MAX_BLOCK_RANGE_PER_RUN - 1, refreshes[u].safeTo})

\* A receipt log is decoded only if its claim is known.
Decode(u, logs) ==
    {log \in logs : refreshes[u].target = "claimReceipt" => log.claim \in refreshes[u].link}

\* Mutant: a chunk that cannot be read is skipped, the scan goes on.
GetLogsSkips(u, ok) ==
    LET this == refreshes[u]
        rows == Decode(u, Logs(this.target, this.from, ChunkEnd(u)))
    IN
    /\ this.step = "logs"
    /\ IF ok THEN refreshes' = [refreshes EXCEPT
                      ![u].step = IF rows = {} THEN "advance" ELSE "insert", ![u].rows = rows]
       ELSE IF ChunkEnd(u) < this.safeTo
            THEN refreshes' = [refreshes EXCEPT ![u].from = ChunkEnd(u) + 1]
            ELSE NextTarget(u)
    /\ UNCHANGED <<chain, final, trail, cursor, reported, skipped, draftVars>>

GetLogs(u, ok) ==
    LET this == refreshes[u]
        rows == Decode(u, Logs(this.target, this.from, ChunkEnd(u)))
    IN
    /\ this.step = "logs"
    /\ IF ok THEN refreshes' = [refreshes EXCEPT
                      ![u].step = IF rows = {} THEN "advance" ELSE "insert", ![u].rows = rows]
             ELSE NextTarget(u)          \* get_logs_failed: break
    /\ UNCHANGED <<chain, final, trail, cursor, reported, skipped, draftVars>>

\* onConflict tx_hash, log_index, ignoreDuplicates.  A failure is logged, no more.
InsertRows(u, ok) ==
    LET fresh == {row \in refreshes[u].rows :
                    ~\E t \in trail : t.event = row.event /\ t.claim = row.claim}
    IN
    /\ refreshes[u].step = "insert"
    /\ trail' = IF ok THEN trail \cup fresh ELSE trail
    /\ reported' = IF ok THEN reported \ refreshes[u].rows
                   ELSE reported \cup (refreshes[u].rows \ trail)
    /\ refreshes' = [refreshes EXCEPT ![u].step = "advance", ![u].rows = {}]
    /\ UNCHANGED <<chain, final, cursor, skipped, draftVars>>

\* Mutant: the cursor is set to the end of the whole scan.
UpsertCursorEarly(u, ok) ==
    LET this == refreshes[u] IN
    /\ this.step = "advance"
    /\ cursor' = IF ok THEN [cursor EXCEPT ![this.target] = this.safeTo] ELSE cursor
    /\ IF ChunkEnd(u) < this.safeTo
       THEN refreshes' = [refreshes EXCEPT ![u].step = "logs", ![u].from = ChunkEnd(u) + 1]
       ELSE NextTarget(u)
    /\ UNCHANGED <<chain, final, trail, reported, skipped, draftVars>>

UpsertCursor(u, ok) ==
    LET this == refreshes[u] IN
    /\ this.step = "advance"
    /\ cursor' = IF ok THEN [cursor EXCEPT ![this.target] = ChunkEnd(u)] ELSE cursor
    /\ IF ChunkEnd(u) < this.safeTo
       THEN refreshes' = [refreshes EXCEPT ![u].step = "logs", ![u].from = ChunkEnd(u) + 1]
       ELSE NextTarget(u)
    /\ UNCHANGED <<chain, final, trail, reported, skipped, draftVars>>

\* The invocation dies, or runs into the time limit of its platform.
AbandonRefresh(u) ==
    /\ refreshes[u].step # "idle"
    /\ refreshes' = [refreshes EXCEPT ![u] = Idle]
    /\ UNCHANGED <<chain, final, trail, cursor, reported, skipped, draftVars>>

-----------------------------------------------------------------------------
(* Draft assessments *)

\* The first `limit' of some rows, in the order of their blocks.
Oldest(rows, limit) ==
    {row \in rows : Cardinality({t \in rows : t.block < row.block}) < limit}

OldestSubmitted ==
    Oldest({t \in trail : t.event = "ClaimSubmitted"}, MAX_CLAIMS_PER_RUN * Overfetch)

\* Mutant: only a row still awaiting publication counts.
HasPendingAssessment(c) == pending[c] > 0

\* Any row counts, whatever its status.
HasAssessment(c) == pending[c] > 0 \/ c \in published

Undrafted(ok) ==
    Oldest({row \in OldestSubmitted : ~(ok /\ HasAssessment(row.claim))}, MAX_CLAIMS_PER_RUN)

\* If the assessments cannot be read, none is seen: the error is not looked at.
StartAssessor(a, ok) ==
    /\ a \in armed
    /\ assessors[a] = {}
    /\ Undrafted(ok) # {}
    /\ ~ok => blind < MaxBlind
    /\ assessors' = [assessors EXCEPT ![a] = Undrafted(ok)]
    /\ blind' = IF ok THEN blind ELSE blind + 1
    /\ UNCHANGED <<chain, final, feedVars, pending, published, drafted, calls, armed>>

\* The provider answers and the draft is stored, or one of the two fails: the
\* claim is passed over until the next run.
DraftNext(a, row, ok) ==
    LET c == row.claim IN
    /\ row \in Oldest(assessors[a], 1)
    /\ ok => pending[c] < MaxDrafts
    /\ pending' = IF ok THEN [pending EXCEPT ![c] = @ + 1] ELSE pending
    /\ drafted' = IF ok THEN [drafted EXCEPT ![c] = @ + 1] ELSE drafted
    /\ assessors' = [assessors EXCEPT ![a] = @ \ {row}]
    /\ UNCHANGED <<chain, final, feedVars, published, blind, calls, armed>>

AbandonAssessor(a) ==
    /\ assessors[a] # {}
    /\ assessors' = [assessors EXCEPT ![a] = {}]
    /\ UNCHANGED <<chain, final, feedVars, pending, published, drafted, blind, calls, armed>>

\* POST /api/ai/assess, up to its look for a pending row: a single one is a 409.
\* Any claim id will do, one the chain has not seen yet too.
\* maybeSingle() answers nothing when there are several or when it fails, and its
\* error is not looked at.
AssessClaim(q, c, ok) ==
    /\ q \in armed
    /\ calls[q] = None
    /\ ok => pending[c] # 1
    /\ calls' = [calls EXCEPT ![q] = c]
    /\ UNCHANGED <<chain, final, feedVars, pending, published, drafted, blind, assessors, armed>>

\* Its insert, or its failure.
StoreAssessment(q, ok) ==
    /\ calls[q] # None
    /\ ok => pending[calls[q]] < MaxDrafts
    /\ pending' = IF ok THEN [pending EXCEPT ![calls[q]] = @ + 1] ELSE pending
    /\ calls' = [calls EXCEPT ![q] = None]
    /\ UNCHANGED <<chain, final, feedVars, published, drafted, blind, assessors, armed>>

\* POST /api/ai/pending/[id]/published.
PublishDraft(c) ==
    /\ pending[c] > 0
    /\ pending' = [pending EXCEPT ![c] = @ - 1]
    /\ published' = published \cup {c}
    /\ UNCHANGED <<chain, final, feedVars, drafted, blind, assessors, calls, armed>>

-----------------------------------------------------------------------------
Init ==
    /\ chain = <<>>
    /\ final = 0
    /\ trail = {}
    /\ cursor = [t \in Targets |-> None]
    /\ reported = {}
    /\ skipped = {}
    /\ refreshes = [u \in Refreshes |-> Idle]
    /\ pending = [c \in Claims |-> 0]
    /\ published = {}
    /\ drafted = [c \in Claims |-> 0]
    /\ blind = 0
    /\ assessors = [a \in Assessors |-> {}]
    /\ calls = [q \in Calls |-> None]
    /\ armed \in Deployments

RefreshNext(u) ==
    \/ ReadLatest(u)
    \/ \E ok \in BOOLEAN :
          \/ ReadReceiptLink(u, ok) \/ ReadCursor(u, ok)
          \/ GetLogs(u, ok) \/ InsertRows(u, ok) \/ UpsertCursor(u, ok)
    \/ AbandonRefresh(u)

DraftNextStep ==
    \/ \E a \in Assessors, ok \in BOOLEAN :
          \/ StartAssessor(a, ok)
          \/ \E row \in assessors[a] : DraftNext(a, row, ok)
    \/ \E a \in Assessors : AbandonAssessor(a)
    \/ \E q \in Calls, c \in Claims, ok \in BOOLEAN : AssessClaim(q, c, ok)
    \/ \E q \in Calls, ok \in BOOLEAN : StoreAssessment(q, ok)
    \/ \E c \in Claims : PublishDraft(c)

Next ==
    \/ \E block \in Block : Mine(block)
    \/ \E height \in 0..MaxHeight : Reorganise(height)
    \/ \E u \in Refreshes : RefreshNext(u)
    \/ DraftNextStep

Spec == Init /\ [][Next]_vars

-----------------------------------------------------------------------------
(* Properties *)

\* Every row, cursor and invocation in flight is well formed.
FeedTypeOK ==
    /\ chain \in Seq(Block) /\ Len(chain) <= MaxHeight
    /\ final \in 0..Len(chain)
    /\ trail \subseteq Row /\ reported \subseteq Row /\ skipped \subseteq Row
    /\ cursor \in [Targets -> Nat \cup {None}]
    /\ refreshes \in [Refreshes -> Refresh]
    /\ pending \in [Claims -> 0..MaxDrafts]
    /\ published \subseteq Claims
    /\ drafted \in [Claims -> Nat] /\ blind \in 0..MaxBlind
    /\ assessors \in [Assessors -> SUBSET Row]
    /\ calls \in [Calls -> Claims \cup {None}]
    /\ armed \in Deployments

ManagerLogs(to) == Logs("claimManager", 0, to)

\* Nothing up to block `to' is lost in silence: a ClaimManager log has its row, or
\* its insert failed and was logged, or it lay more than `Window' blocks below the
\* final ones when a scan had to start without a cursor.
Accounted(to) ==
    \A row \in ManagerLogs(to) :
        \/ row \in trail \cup reported
        \/ row \in skipped /\ row.block + Window < final

\* The mirror is complete as far as its cursor says, whatever invocations overlap,
\* die between two chunks, or lose a call to the chain or the database: no log at or
\* below the cursor is missing but for the two reasons of Accounted.
TrailMirrorsClaimManager ==
    cursor["claimManager"] # None => Accounted(cursor["claimManager"])

\* A reader of the trail never sees a claim's later event without the earlier ones,
\* but for the same two reasons.
TrailHasNoGaps ==
    \A row \in trail : row.event \in {"ClaimSubmitted", "ClaimApproved", "ClaimPaid"} =>
        Accounted(row.block)

\* The trail is immutable, so what it says must not be undone by a reorganisation:
\* every row is a log of the chain as it stands.
TrailSurvivesReorganisation ==
    \A row \in trail : \E target \in Targets : row \in Logs(target, row.block, row.block)

Assessed(c) == pending[c] > 0 \/ c \in published

\* The draft runs that still have claim c before them.
Drafting(c) == {a \in Assessors : \E row \in assessors[a] : row.claim = c}

\* "a late or duplicate call never double-processes" (scheduled-jobs.yml), as far
\* as it holds: once a claim has an assessment, the operator's or the cron job's,
\* awaiting publication or published, the drafts the cron job has stored of it and
\* those it has still to store grow no more, but by one for a run that could not
\* read the assessments.  Only a run that had taken the claim up before it was
\* assessed may still store one.
AssessedClaimsGainNoDrafts ==
    [][\A c \in Claims : Assessed(c) =>
           drafted'[c] + Cardinality(Drafting(c)') - blind'
             <= drafted[c] + Cardinality(Drafting(c)) - blind]_vars

(* What the repository says and the code does not do *)

\* "mirror of every claim-lifecycle log emitted by ClaimManager and ClaimReceipt"
\* (0006_claim_audit_trail.sql): receipt logs up to the cursor have their rows.
TrailMirrorsClaimReceipt ==
    cursor["claimReceipt"] # None =>
        Logs("claimReceipt", 0, cursor["claimReceipt"]) \subseteq trail \cup reported

\* "mirror of every claim-lifecycle log" again, of ClaimManager: a first scan, or one
\* that could not read the cursor, leaves no log out.
TrailMirrorsEveryLog ==
    cursor["claimManager"] # None =>
        ManagerLogs(cursor["claimManager"]) \subseteq trail \cup reported

\* "last fully-scanned block ... upserts on success" (0006_claim_audit_trail.sql):
\* the cursor passes a log only when the log is stored.
CursorMovesOnSuccess ==
    cursor["claimManager"] # None => ManagerLogs(cursor["claimManager"]) \subseteq trail

\* "refuse to overwrite an already-pending assessment for the same claim"
\* (ai/assess/route.ts): a claim has one draft awaiting publication.
OnePendingDraft == \A c \in Claims : pending[c] <= 1

\* "a late or duplicate call never double-processes" (scheduled-jobs.yml), as it
\* stands: the cron job drafts a claim once.
DraftedOnce == \A c \in Claims : drafted[c] <= 1

\* "oldest first so the cron eventually catches up if it falls behind"
\* (ai/refresh/route.ts): a claim on the trail that nobody drafted is work to do.
DraftRunsCatchUp ==
    Undrafted(TRUE) = {} =>
        \A row \in trail : row.event = "ClaimSubmitted" => HasAssessment(row.claim)

=============================================================================
