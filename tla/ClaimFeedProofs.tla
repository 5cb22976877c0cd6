---------------------------- MODULE ClaimFeedProofs ----------------------------
(***************************************************************************)
(* Proofs about ClaimFeed: the audit trail says only what no               *)
(* reorganisation can undo, and says all of it up to its cursor, for any   *)
(* number of claims, blocks, contracts' logs and overlapping refreshes.    *)
(***************************************************************************)
EXTENDS ClaimFeed, FiniteSetTheorems, TLAPS

USE DEF feedVars, draftVars, vars

-----------------------------------------------------------------------------
(***************************************************************************)
(* Numbers and sequences.                                                  *)
(***************************************************************************)

LEMMA Bounds ==
    /\ REORG_SAFETY \in Nat /\ Window \in Nat /\ MaxHeight \in Nat
    /\ MAX_BLOCK_RANGE_PER_RUN \in Nat \ {0}
    /\ None \notin Claims /\ None \notin Nat
BY FeedAssumption

LEMMA MinOfTwo ==
    ASSUME NEW a \in Int, NEW b \in Int
    PROVE  Min({a, b}) = IF a <= b THEN a ELSE b
BY DEF Min

LEMMA MaxOfTwo ==
    ASSUME NEW a \in Int, NEW b \in Int
    PROVE  Max({a, b}) = IF a <= b THEN b ELSE a
BY DEF Max

LEMMA Grown ==
    ASSUME NEW block \in Block, NEW s \in Seq(Block)
    PROVE  /\ Append(s, block) \in Seq(Block)
           /\ Len(Append(s, block)) = Len(s) + 1
           /\ Append(s, block)[Len(s) + 1] = block
           /\ \A b \in 1..Len(s) : Append(s, block)[b] = s[b]
OBVIOUS

LEMMA Cut ==
    ASSUME NEW height \in Nat, NEW s \in Seq(Block), height <= Len(s)
    PROVE  /\ SubSeq(s, 1, height) \in Seq(Block)
           /\ Len(SubSeq(s, 1, height)) = height
           /\ \A b \in 1..height : SubSeq(s, 1, height)[b] = s[b]
OBVIOUS

-----------------------------------------------------------------------------
(***************************************************************************)
(* The chain: what is final stays, and an event happens once.              *)
(***************************************************************************)

ChainOK ==
    /\ chain \in Seq(Block) /\ Len(chain) <= MaxHeight
    /\ final \in Nat /\ final <= Len(chain) /\ Len(chain) <= final + REORG_SAFETY

EventsOnce ==
    \A b, d \in 1..Len(chain) : chain[b] = chain[d] /\ chain[b] # Quiet => b = d

ChainInv == ChainOK /\ EventsOnce

FinalKept ==
    /\ final <= final'
    /\ \A b \in 1..final : b <= Len(chain') /\ chain'[b] = chain[b]

LEMMA StepKinds ==
    ASSUME [Next]_vars
    PROVE  \/ UNCHANGED <<chain, final, feedVars>>
           \/ \E block \in Block : Mine(block)
           \/ \E height \in 0..MaxHeight : Reorganise(height)
           \/ \E u \in Refreshes : RefreshNext(u)
<1>1. DraftNextStep => UNCHANGED <<chain, final, feedVars>>
  BY DEF DraftNextStep, StartAssessor, DraftNext, AbandonAssessor, AssessClaim,
         StoreAssessment, PublishDraft
<1> QED BY <1>1 DEF Next

LEMMA RefreshKeepsChain ==
    ASSUME NEW u \in Refreshes, RefreshNext(u)
    PROVE  UNCHANGED <<chain, final>>
BY DEF RefreshNext, ReadLatest, ReadReceiptLink, ReadCursor, GetLogs, InsertRows,
       UpsertCursor, AbandonRefresh

LEMMA MineStep ==
    ASSUME ChainInv, NEW block \in Block, Mine(block)
    PROVE  ChainInv' /\ FinalKept
<1> USE DEF ChainInv, ChainOK
<1>1. /\ chain' \in Seq(Block) /\ Len(chain') = Len(chain) + 1
      /\ chain'[Len(chain) + 1] = block
      /\ \A b \in 1..Len(chain) : chain'[b] = chain[b]
  BY Grown DEF Mine
<1>2. final' = IF final <= Len(chain) + 1 - REORG_SAFETY
               THEN Len(chain) + 1 - REORG_SAFETY ELSE final
  BY Bounds, MaxOfTwo DEF Mine
<1>3. ChainOK'
  BY <1>1, <1>2, Bounds DEF Mine
<1>4. EventsOnce'
  <2> SUFFICES ASSUME NEW b \in 1..(Len(chain) + 1), NEW d \in 1..(Len(chain) + 1),
                      chain'[b] = chain'[d], chain'[b] # Quiet, b < d
               PROVE  FALSE
    BY <1>1 DEF EventsOnce
  <2>1. CASE d \in 1..Len(chain)
    BY <1>1, <2>1 DEF EventsOnce
  <2>2. CASE d = Len(chain) + 1
    <3>1. b \in DOMAIN chain /\ chain[b] = block /\ block # Quiet
      BY <1>1, <2>2
    <3>2. block = [claim |-> block.claim, event |-> block.event]
      BY <3>1 DEF Block
    <3>3. ~Happened(block.claim, block.event)
      BY <3>1 DEF Mine, MayHappen
    <3> QED BY <3>1, <3>2, <3>3 DEF Happened
  <2> QED BY <2>1, <2>2
<1>5. FinalKept
  BY <1>1, <1>2, Bounds DEF FinalKept
<1> QED BY <1>3, <1>4, <1>5

LEMMA ReorganiseStep ==
    ASSUME ChainInv, NEW height \in 0..MaxHeight, Reorganise(height)
    PROVE  ChainInv' /\ FinalKept
<1> USE DEF ChainInv, ChainOK
<1>1. height \in Nat /\ final <= height /\ height <= Len(chain)
  BY Bounds DEF Reorganise
<1>2. /\ chain' \in Seq(Block) /\ Len(chain') = height
      /\ \A b \in 1..height : chain'[b] = chain[b]
  BY <1>1, Cut DEF Reorganise
<1>3. final' = final
  BY DEF Reorganise
<1>4. ChainOK'
  BY <1>1, <1>2, <1>3, Bounds
<1>5. EventsOnce'
  BY <1>1, <1>2 DEF EventsOnce
<1>6. FinalKept
  BY <1>1, <1>2, <1>3 DEF FinalKept
<1> QED BY <1>4, <1>5, <1>6

LEMMA ChainStep ==
    ASSUME ChainInv, [Next]_vars
    PROVE  ChainInv' /\ FinalKept
<1>1. CASE UNCHANGED <<chain, final>>
  BY <1>1 DEF ChainInv, ChainOK, EventsOnce, FinalKept
<1> QED BY <1>1, StepKinds, MineStep, ReorganiseStep, RefreshKeepsChain

LEMMA ChainInit == Init => ChainInv
BY Bounds DEF Init, ChainInv, ChainOK, EventsOnce

-----------------------------------------------------------------------------
(***************************************************************************)
(* The logs of a chain, as a function of its blocks.                       *)
(***************************************************************************)

LogsOf(blocks, target, from, to) ==
    {[event |-> Emits(blocks[b].event, target), claim |-> blocks[b].claim, block |-> b] :
        b \in {n \in (from..to) \cap DOMAIN blocks : Emits(blocks[n].event, target) # "none"}}

Once(blocks) ==
    \A b, d \in 1..Len(blocks) : blocks[b] = blocks[d] /\ blocks[b] # Quiet => b = d

SameUpTo(limit, blocks, later) ==
    /\ limit <= Len(blocks) /\ limit <= Len(later)
    /\ \A b \in 1..limit : later[b] = blocks[b]

LEMMA LogsAre ==
    ASSUME NEW blocks \in Seq(Block), NEW target, NEW from \in Nat, NEW to \in Int, NEW row
    PROVE  row \in LogsOf(blocks, target, from, to) <=>
              \E b \in 1..Len(blocks) :
                 /\ from <= b /\ b <= to
                 /\ Emits(blocks[b].event, target) # "none"
                 /\ row = [event |-> Emits(blocks[b].event, target), claim |-> blocks[b].claim, block |-> b]
BY DEF LogsOf

\* A log of any range is a row, and the log of its own block.
LEMMA LogFacts ==
    ASSUME NEW blocks \in Seq(Block), NEW target \in Targets, NEW from \in Nat, NEW to \in Int,
           NEW row \in LogsOf(blocks, target, from, to)
    PROVE  /\ row \in Row
           /\ row.block \in Nat /\ from <= row.block /\ row.block <= to
           /\ row \in LogsOf(blocks, target, row.block, row.block)
<1>1. PICK b \in 1..Len(blocks) :
         /\ from <= b /\ b <= to
         /\ Emits(blocks[b].event, target) # "none"
         /\ row = [event |-> Emits(blocks[b].event, target), claim |-> blocks[b].claim, block |-> b]
  BY LogsAre
<1>2. row.block = b /\ b \in Nat
  BY <1>1
<1>3. row \in LogsOf(blocks, target, row.block, row.block)
  BY <1>1, <1>2, LogsAre
<1>4. blocks[b] \in Block
  OBVIOUS
<1>5. row \in Row
  BY <1>1, <1>2, <1>4 DEF Block, Quiet, Row, Emits, Targets
<1> QED BY <1>1, <1>2, <1>3, <1>5

LEMMA LogsStay ==
    ASSUME NEW blocks \in Seq(Block), NEW later \in Seq(Block), NEW limit \in Nat,
           SameUpTo(limit, blocks, later),
           NEW target, NEW from \in Nat, NEW to \in Int, to <= limit
    PROVE  LogsOf(later, target, from, to) = LogsOf(blocks, target, from, to)
<1>1. \A b \in from..to : b \in DOMAIN blocks => b \in DOMAIN later /\ later[b] = blocks[b]
  BY DEF SameUpTo
<1>2. \A b \in from..to : b \in DOMAIN later => b \in DOMAIN blocks
  BY DEF SameUpTo
<1> QED BY <1>1, <1>2, Zenon DEF LogsOf

LEMMA LogsSplit ==
    ASSUME NEW blocks \in Seq(Block), NEW target, NEW from \in Nat, NEW to \in Nat,
           NEW row \in LogsOf(blocks, target, 0, to)
    PROVE  row \in LogsOf(blocks, target, 0, from - 1) \/ row \in LogsOf(blocks, target, from, to)
<1>1. PICK b \in 1..Len(blocks) :
         /\ b <= to
         /\ Emits(blocks[b].event, target) # "none"
         /\ row = [event |-> Emits(blocks[b].event, target), claim |-> blocks[b].claim, block |-> b]
  BY LogsAre
<1>2. b <= from - 1 \/ from <= b
  OBVIOUS
<1> QED BY <1>1, <1>2, LogsAre

LEMMA LogsWithin ==
    ASSUME NEW blocks \in Seq(Block), NEW target, NEW low \in Int, NEW high \in Int, low <= high
    PROVE  LogsOf(blocks, target, 0, low) \subseteq LogsOf(blocks, target, 0, high)
BY LogsAre

\* The conflict target of the insert, a transaction and the index of its log, is
\* event and claim here: no two logs share both.
LEMMA SameLog ==
    ASSUME NEW blocks \in Seq(Block), Once(blocks),
           NEW s \in Targets, NEW a \in Nat, NEW b \in Int, NEW one \in LogsOf(blocks, s, a, b),
           NEW t \in Targets, NEW c \in Nat, NEW d \in Int, NEW other \in LogsOf(blocks, t, c, d),
           one.event = other.event, one.claim = other.claim
    PROVE  one = other
<1>1. PICK m \in 1..Len(blocks) :
         /\ Emits(blocks[m].event, s) # "none"
         /\ one = [event |-> Emits(blocks[m].event, s), claim |-> blocks[m].claim, block |-> m]
  BY LogsAre
<1>2. PICK n \in 1..Len(blocks) :
         /\ Emits(blocks[n].event, t) # "none"
         /\ other = [event |-> Emits(blocks[n].event, t), claim |-> blocks[n].claim, block |-> n]
  BY LogsAre
<1>3. blocks[m] \in Block /\ blocks[n] \in Block
  OBVIOUS
<1>4. blocks[m].event = blocks[n].event /\ blocks[m].event # "none"
  BY <1>1, <1>2, <1>3 DEF Emits, Targets, Block, Quiet
<1>5. blocks[m].claim = blocks[n].claim
  BY <1>1, <1>2
<1>6. blocks[m] = blocks[n] /\ blocks[m] # Quiet
  BY <1>3, <1>4, <1>5 DEF Block, Quiet
<1>7. m = n
  BY <1>6 DEF Once
<1> QED BY <1>1, <1>2, <1>7

LEMMA OnThisChain ==
    /\ \A target, from, to : Logs(target, from, to) = LogsOf(chain, target, from, to)
    /\ EventsOnce = Once(chain)
BY DEF Logs, LogsOf, EventsOnce, Once

LEMMA FinalPart ==
    ASSUME ChainInv, ChainInv', FinalKept
    PROVE  /\ chain \in Seq(Block) /\ chain' \in Seq(Block)
           /\ final \in Nat /\ final' \in Nat /\ final <= final'
           /\ SameUpTo(final, chain, chain')
BY DEF ChainInv, ChainOK, FinalKept, SameUpTo
-----------------------------------------------------------------------------
(***************************************************************************)
(* What the refreshes hold is well formed.                                 *)
(***************************************************************************)

FeedTypes ==
    /\ trail \subseteq Row
    /\ cursor \in [Targets -> Nat \cup {None}]
    /\ refreshes \in [Refreshes -> Refresh]

\* The last block of a chunk, as ChunkEnd has it, of any call.
End(call) == Min({call.from + MAX_BLOCK_RANGE_PER_RUN - 1, call.safeTo})

LEMMA EndFacts ==
    ASSUME NEW call \in Refresh
    PROVE  /\ End(call) \in Int /\ End(call) <= call.safeTo
           /\ call.from <= call.safeTo => End(call) \in Nat /\ call.from <= End(call)
BY Bounds, MinOfTwo DEF End, Refresh

LEMMA ChunkEnds == \A u : ChunkEnd(u) = End(refreshes[u])
BY DEF ChunkEnd, End

LEMMA WriteRefresh ==
    ASSUME FeedTypes, NEW u \in Refreshes, NEW new \in Refresh, refreshes' = [refreshes EXCEPT ![u] = new]
    PROVE  /\ refreshes' \in [Refreshes -> Refresh]
           /\ refreshes'[u] = new
           /\ \A v \in Refreshes \ {u} : refreshes'[v] = refreshes[v]
BY DEF FeedTypes

\* The next contract, or none: either way nothing is left to store.
LEMMA NextTargetWrites ==
    ASSUME FeedTypes, NEW u \in Refreshes, NextTarget(u)
    PROVE  /\ refreshes' \in [Refreshes -> Refresh]
           /\ refreshes'[u].step \in {"idle", "cursor"} /\ refreshes'[u].rows = {}
           /\ refreshes'[u].step = "cursor" => refreshes'[u].safeTo = refreshes[u].safeTo
           /\ refreshes'[u].target = "claimManager" => refreshes'[u].step = "idle"
           /\ \A v \in Refreshes \ {u} : refreshes'[v] = refreshes[v]
<1> DEFINE this == refreshes[u]
           new == IF this.target = "claimManager"
                  THEN [this EXCEPT !.step = "cursor", !.target = "claimReceipt", !.from = 0, !.rows = {}]
                  ELSE Idle
<1>1. this \in Refresh
  BY DEF FeedTypes
<1>2. /\ new \in Refresh
      /\ new.step \in {"idle", "cursor"} /\ new.rows = {}
      /\ new.step = "cursor" => new.safeTo = this.safeTo
      /\ new.target = "claimManager" => new.step = "idle"
  BY <1>1 DEF Refresh, Idle, Targets
<1>3. refreshes' = [refreshes EXCEPT ![u] = new]
  BY DEF NextTarget
<1> HIDE DEF new, this
<1> QED BY <1>2, <1>3, WriteRefresh DEF this

LEMMA ReadLatestWrites ==
    ASSUME FeedTypes, ChainOK, NEW u \in Refreshes, ReadLatest(u)
    PROVE  /\ refreshes' \in [Refreshes -> Refresh]
           /\ refreshes[u].step = "idle"
           /\ refreshes'[u] = [refreshes[u] EXCEPT !.step = "link", !.safeTo = SafeTo(Len(chain))]
           /\ \A v \in Refreshes \ {u} : refreshes'[v] = refreshes[v]
<1> DEFINE new == [refreshes[u] EXCEPT !.step = "link", !.safeTo = SafeTo(Len(chain))]
<1>1. SafeTo(Len(chain)) \in Nat
  BY Bounds DEF SafeTo, ChainOK
<1>2. new \in Refresh
  BY <1>1 DEF FeedTypes, Refresh
<1>3. refreshes' = [refreshes EXCEPT ![u] = new]
  BY DEF ReadLatest, FeedTypes
<1> HIDE DEF new
<1>4. /\ refreshes' \in [Refreshes -> Refresh]
      /\ refreshes'[u] = new
      /\ \A v \in Refreshes \ {u} : refreshes'[v] = refreshes[v]
  BY <1>2, <1>3, WriteRefresh
<1> QED BY <1>4 DEF new, ReadLatest

LEMMA ReadReceiptLinkWrites ==
    ASSUME FeedTypes, NEW u \in Refreshes, NEW ok \in BOOLEAN, ReadReceiptLink(u, ok)
    PROVE  /\ refreshes' \in [Refreshes -> Refresh]
           /\ refreshes[u].step = "link"
           /\ \E link \in SUBSET Claims :
                 refreshes'[u] = [refreshes[u] EXCEPT !.step = "cursor", !.link = link]
           /\ \A v \in Refreshes \ {u} : refreshes'[v] = refreshes[v]
<1> DEFINE linked == Newest({t \in trail : t.event \in {"ClaimApproved", "ClaimPaid"}}, LinkRows)
           link == IF ok THEN {row.claim : row \in linked} ELSE {}
           new == [refreshes[u] EXCEPT !.step = "cursor", !.link = link]
<1>0. linked \subseteq trail
  BY DEF Newest
<1>2. refreshes' = [refreshes EXCEPT ![u] = new]
  BY DEF ReadReceiptLink, FeedTypes
<1> HIDE DEF linked
<1>1. link \in SUBSET Claims
  BY <1>0 DEF FeedTypes, Row
<1> HIDE DEF link
<1>3. new \in Refresh
  BY <1>1 DEF FeedTypes, Refresh
<1> HIDE DEF new
<1>4. /\ refreshes' \in [Refreshes -> Refresh]
      /\ refreshes'[u] = new
      /\ \A v \in Refreshes \ {u} : refreshes'[v] = refreshes[v]
  BY <1>2, <1>3, WriteRefresh
<1> QED BY <1>1, <1>4 DEF new, ReadReceiptLink

\* Where a scan starts.
Start(u, ok) ==
    LET this == refreshes[u] IN
    IF ok /\ cursor[this.target] # None THEN cursor[this.target] + 1
    ELSE IF this.safeTo > Window THEN this.safeTo - Window ELSE 0

LEMMA ReadCursorWrites ==
    ASSUME FeedTypes, NEW u \in Refreshes, NEW ok \in BOOLEAN, ReadCursor(u, ok)
    PROVE  /\ refreshes[u].step = "cursor" /\ Start(u, ok) \in Nat
           /\ \/ NextTarget(u)
              \/ /\ refreshes' \in [Refreshes -> Refresh]
                 /\ Start(u, ok) <= refreshes[u].safeTo
                 /\ refreshes'[u] = [refreshes[u] EXCEPT !.step = "logs", !.from = Start(u, ok)]
                 /\ \A v \in Refreshes \ {u} : refreshes'[v] = refreshes[v]
<1> DEFINE from == Start(u, ok)
           new == [refreshes[u] EXCEPT !.step = "logs", !.from = from]
<1>1. refreshes[u] \in Refresh
  BY DEF FeedTypes
<1>2. cursor[refreshes[u].target] \in Nat \cup {None}
  BY <1>1 DEF FeedTypes, Refresh
<1>3. from \in Nat
  BY <1>1, <1>2, Bounds DEF Start, Refresh
<1>4. refreshes[u].step = "cursor"
  BY DEF ReadCursor
<1>5. CASE from > refreshes[u].safeTo
  BY <1>3, <1>4, <1>5 DEF ReadCursor, Start
<1>6. CASE ~(from > refreshes[u].safeTo)
  <2>1. refreshes' = [refreshes EXCEPT ![u] = new]
    BY <1>6 DEF ReadCursor, Start, FeedTypes
  <2>2. from <= refreshes[u].safeTo
    BY <1>1, <1>3, <1>6 DEF Refresh
  <2> HIDE DEF from
  <2>3. new \in Refresh
    BY <1>1, <1>3 DEF Refresh
  <2> HIDE DEF new
  <2>4. /\ refreshes' \in [Refreshes -> Refresh]
        /\ refreshes'[u] = new
        /\ \A v \in Refreshes \ {u} : refreshes'[v] = refreshes[v]
    BY <2>1, <2>3, WriteRefresh
  <2> QED BY <1>3, <1>4, <2>2, <2>4 DEF new, from
<1> QED BY <1>5, <1>6

\* What a chunk yields: logs of its blocks, and all of them for ClaimManager.
Chunk(call) == LogsOf(chain, call.target, call.from, End(call))

LEMMA GetLogsWrites ==
    ASSUME FeedTypes, ChainOK, NEW u \in Refreshes, NEW ok \in BOOLEAN, GetLogs(u, ok)
    PROVE  /\ refreshes[u].step = "logs"
           /\ \/ NextTarget(u)
              \/ /\ refreshes' \in [Refreshes -> Refresh]
                 /\ \E rows \in SUBSET Chunk(refreshes[u]) :
                       /\ refreshes[u].target = "claimManager" => rows = Chunk(refreshes[u])
                       /\ refreshes'[u] = [refreshes[u] EXCEPT
                             !.step = IF rows = {} THEN "advance" ELSE "insert", !.rows = rows]
                 /\ \A v \in Refreshes \ {u} : refreshes'[v] = refreshes[v]
<1> DEFINE this == refreshes[u]
           rows == Decode(u, Logs(this.target, this.from, ChunkEnd(u)))
           step == IF rows = {} THEN "advance" ELSE "insert"
           new == [this EXCEPT !.step = step, !.rows = rows]
<1>1. this \in Refresh /\ this.target \in Targets /\ this.from \in Nat
  BY DEF FeedTypes, Refresh
<1>2. this.step = "logs"
  BY DEF GetLogs
<1>3. CASE ~ok
  BY <1>2, <1>3 DEF GetLogs
<1>4. CASE ok
  <2>1. Logs(this.target, this.from, ChunkEnd(u)) = Chunk(this)
    BY OnThisChain, ChunkEnds DEF Chunk
  <2>2. rows \in SUBSET Chunk(this) /\ (this.target = "claimManager" => rows = Chunk(this))
    BY <2>1 DEF Decode
  <2>3. Chunk(this) \subseteq Row
    BY <1>1, EndFacts, LogFacts DEF Chunk, ChainOK
  <2>4. refreshes' = [refreshes EXCEPT ![u] = new]
    BY <1>4 DEF GetLogs, FeedTypes
  <2> HIDE DEF rows
  <2>5. new \in Refresh
    BY <1>1, <2>2, <2>3 DEF Refresh
  <2> HIDE DEF new
  <2>6. /\ refreshes' \in [Refreshes -> Refresh]
        /\ refreshes'[u] = new
        /\ \A v \in Refreshes \ {u} : refreshes'[v] = refreshes[v]
    BY <2>4, <2>5, WriteRefresh
  <2> QED BY <1>2, <2>2, <2>6 DEF new
<1> QED BY <1>3, <1>4

LEMMA InsertRowsWrites ==
    ASSUME FeedTypes, NEW u \in Refreshes, NEW ok \in BOOLEAN, InsertRows(u, ok)
    PROVE  /\ refreshes' \in [Refreshes -> Refresh]
           /\ refreshes[u].step = "insert"
           /\ refreshes'[u] = [refreshes[u] EXCEPT !.step = "advance", !.rows = {}]
           /\ \A v \in Refreshes \ {u} : refreshes'[v] = refreshes[v]
<1> DEFINE new == [refreshes[u] EXCEPT !.step = "advance", !.rows = {}]
<1>1. new \in Refresh
  BY DEF FeedTypes, Refresh
<1>2. refreshes' = [refreshes EXCEPT ![u] = new]
  BY DEF InsertRows, FeedTypes
<1> HIDE DEF new
<1>3. /\ refreshes' \in [Refreshes -> Refresh]
      /\ refreshes'[u] = new
      /\ \A v \in Refreshes \ {u} : refreshes'[v] = refreshes[v]
  BY <1>1, <1>2, WriteRefresh
<1> QED BY <1>3 DEF new, InsertRows

LEMMA UpsertCursorWrites ==
    ASSUME FeedTypes, NEW u \in Refreshes, NEW ok \in BOOLEAN, UpsertCursor(u, ok),
           refreshes[u].from <= refreshes[u].safeTo
    PROVE  /\ refreshes[u].step = "advance"
           /\ cursor' \in [Targets -> Nat \cup {None}]
           /\ \A t \in Targets : cursor'[t] # cursor[t] => t = refreshes[u].target /\ cursor'[t] = End(refreshes[u])
           /\ \/ NextTarget(u)
              \/ /\ refreshes' \in [Refreshes -> Refresh]
                 /\ End(refreshes[u]) < refreshes[u].safeTo
                 /\ refreshes'[u] = [refreshes[u] EXCEPT !.step = "logs", !.from = End(refreshes[u]) + 1]
                 /\ \A v \in Refreshes \ {u} : refreshes'[v] = refreshes[v]
<1> DEFINE this == refreshes[u]
           last == End(this)
           next == last + 1
           new == [this EXCEPT !.step = "logs", !.from = next]
<1>1. this \in Refresh /\ this.target \in Targets
  BY DEF FeedTypes, Refresh
<1>2. last \in Nat /\ last <= this.safeTo
  BY <1>1, EndFacts
<1>3. ChunkEnd(u) = last
  BY ChunkEnds
<1> HIDE DEF last
<1>4. /\ this.step = "advance"
      /\ cursor' = IF ok THEN [cursor EXCEPT ![this.target] = last] ELSE cursor
  BY <1>3 DEF UpsertCursor
<1>5. /\ cursor' \in [Targets -> Nat \cup {None}]
      /\ \A t \in Targets : cursor'[t] # cursor[t] => t = this.target /\ cursor'[t] = last
  BY <1>1, <1>2, <1>4 DEF FeedTypes
<1>6. CASE ~(last < this.safeTo)
  BY <1>3, <1>4, <1>5, <1>6 DEF UpsertCursor, last
<1>7. CASE last < this.safeTo
  <2>1. refreshes' = [refreshes EXCEPT ![u] = new]
    BY <1>3, <1>7 DEF UpsertCursor, FeedTypes
  <2>2. next \in Nat
    BY <1>2
  <2> HIDE DEF next
  <2>3. new \in Refresh
    BY <1>1, <2>2 DEF Refresh
  <2> HIDE DEF new
  <2>4. /\ refreshes' \in [Refreshes -> Refresh]
        /\ refreshes'[u] = new
        /\ \A v \in Refreshes \ {u} : refreshes'[v] = refreshes[v]
    BY <2>1, <2>3, WriteRefresh
  <2> QED BY <1>4, <1>5, <1>7, <2>4 DEF new, next, last
<1> QED BY <1>6, <1>7

LEMMA AbandonRefreshWrites ==
    ASSUME FeedTypes, NEW u \in Refreshes, AbandonRefresh(u)
    PROVE  /\ refreshes' \in [Refreshes -> Refresh]
           /\ refreshes'[u] = Idle
           /\ \A v \in Refreshes \ {u} : refreshes'[v] = refreshes[v]
<1>1. Idle \in Refresh
  BY DEF Idle, Refresh, Targets
<1> QED BY <1>1, WriteRefresh DEF AbandonRefresh

\* An insert adds rows of its chunk, reports those it could not add, and takes
\* from the report only rows the trail has by then.
LEMMA InsertedRows ==
    ASSUME NEW u \in Refreshes, NEW ok \in BOOLEAN, InsertRows(u, ok),
           \A row \in refreshes[u].rows, t \in trail :
               t.event = row.event /\ t.claim = row.claim => t = row
    PROVE  /\ trail \subseteq trail' /\ trail' \subseteq trail \cup refreshes[u].rows
           /\ reported \subseteq trail' \cup reported'
           /\ refreshes[u].rows \subseteq trail' \cup reported'
<1> DEFINE rows == refreshes[u].rows
           fresh == {row \in rows : ~\E t \in trail : t.event = row.event /\ t.claim = row.claim}
<1>0. fresh \subseteq rows /\ rows \subseteq trail \cup fresh
  OBVIOUS
<1>1. /\ trail' = IF ok THEN trail \cup fresh ELSE trail
      /\ reported' = IF ok THEN reported \ rows ELSE reported \cup (rows \ trail)
  BY DEF InsertRows
<1> HIDE DEF fresh, rows
<1>2. /\ trail \subseteq trail' /\ trail' \subseteq trail \cup rows
      /\ reported \subseteq trail' \cup reported'
      /\ rows \subseteq trail' \cup reported'
  BY <1>0, <1>1
<1> QED BY <1>2 DEF rows
-----------------------------------------------------------------------------
(***************************************************************************)
(* The trail stays true: rows, and the logs about to become rows, are of   *)
(* blocks that are final already, for a scan ends at a margin below the    *)
(* latest block and what is final only grows.                              *)
(***************************************************************************)

OfBlocks(row, blocks, limit) ==
    /\ row.block <= limit
    /\ \E target \in Targets : row \in LogsOf(blocks, target, row.block, row.block)

CallFinal(call, blocks, limit) ==
    /\ call.step # "idle" => call.safeTo <= limit
    /\ call.step \in {"logs", "insert", "advance"} => call.from <= call.safeTo
    /\ call.step # "insert" => call.rows = {}
    /\ call.step = "insert" => call.rows \subseteq LogsOf(blocks, call.target, call.from, End(call))

TrailFinal(rows, blocks, limit) == \A row \in rows : OfBlocks(row, blocks, limit)

RefreshesFinal(inFlight, blocks, limit) == \A u \in Refreshes : CallFinal(inFlight[u], blocks, limit)

StayInv ==
    /\ ChainInv
    /\ FeedTypes
    /\ TrailFinal(trail, chain, final)
    /\ RefreshesFinal(refreshes, chain, final)

LEMMA OfBlocksStays ==
    ASSUME NEW blocks \in Seq(Block), NEW later \in Seq(Block),
           NEW limit \in Nat, NEW more \in Nat, limit <= more, SameUpTo(limit, blocks, later),
           NEW row \in Row, OfBlocks(row, blocks, limit)
    PROVE  OfBlocks(row, later, more)
<1>1. row.block \in Nat /\ row.block <= limit
  BY DEF OfBlocks, Row
<1>2. PICK target \in Targets : row \in LogsOf(blocks, target, row.block, row.block)
  BY DEF OfBlocks
<1>3. LogsOf(later, target, row.block, row.block) = LogsOf(blocks, target, row.block, row.block)
  BY <1>1, LogsStay
<1>4. row.block <= more
  BY <1>1
<1> QED BY <1>2, <1>3, <1>4 DEF OfBlocks

LEMMA CallFinalStays ==
    ASSUME NEW blocks \in Seq(Block), NEW later \in Seq(Block),
           NEW limit \in Nat, NEW more \in Nat, limit <= more, SameUpTo(limit, blocks, later),
           NEW call \in Refresh, CallFinal(call, blocks, limit)
    PROVE  CallFinal(call, later, more)
<1>1. /\ call.safeTo \in Nat /\ call.from \in Nat
      /\ End(call) \in Int /\ End(call) <= call.safeTo
  BY EndFacts DEF Refresh
<1>2. call.step = "insert" =>
         LogsOf(later, call.target, call.from, End(call)) = LogsOf(blocks, call.target, call.from, End(call))
  <2> SUFFICES ASSUME call.step = "insert"
               PROVE  LogsOf(later, call.target, call.from, End(call)) = LogsOf(blocks, call.target, call.from, End(call))
    OBVIOUS
  <2>1. End(call) <= limit
    BY <1>1 DEF CallFinal
  <2> QED BY <1>1, <2>1, LogsStay
<1>3. call.step # "idle" => call.safeTo <= more
  BY <1>1 DEF CallFinal
<1> QED BY <1>2, <1>3 DEF CallFinal

LEMMA RefreshStays ==
    ASSUME StayInv, NEW u \in Refreshes, RefreshNext(u)
    PROVE  /\ FeedTypes'
           /\ TrailFinal(trail', chain, final)
           /\ CallFinal(refreshes'[u], chain, final)
           /\ \A v \in Refreshes \ {u} : refreshes'[v] = refreshes[v]
<1> DEFINE this == refreshes[u]
           next == refreshes'[u]
<1>0. /\ this \in Refresh /\ this.target \in Targets /\ this.from \in Nat /\ this.safeTo \in Nat
      /\ CallFinal(this, chain, final)
      /\ FeedTypes /\ ChainOK /\ chain \in Seq(Block) /\ final \in Nat
      /\ TrailFinal(trail, chain, final)
  BY DEF StayInv, ChainInv, ChainOK, FeedTypes, RefreshesFinal, Refresh
<1>N. ASSUME NextTarget(u), this.step # "idle"
      PROVE  /\ refreshes' \in [Refreshes -> Refresh]
             /\ CallFinal(next, chain, final)
             /\ \A v \in Refreshes \ {u} : refreshes'[v] = refreshes[v]
  BY <1>0, <1>N, NextTargetWrites DEF CallFinal
<1>1. CASE ReadLatest(u)
  <2>1. SafeTo(Len(chain)) \in Nat /\ SafeTo(Len(chain)) <= final
    BY <1>0, Bounds DEF SafeTo, ChainOK
  <2>a. /\ this.step = "idle"
        /\ next = [this EXCEPT !.step = "link", !.safeTo = SafeTo(Len(chain))]
    BY <1>0, <1>1, ReadLatestWrites
  <2>b. this.rows = {}
    BY <1>0, <2>a DEF CallFinal
  <2>2. next.step = "link" /\ next.safeTo = SafeTo(Len(chain)) /\ next.rows = {}
    BY <1>0, <2>a, <2>b DEF Refresh
  <2>3. CallFinal(next, chain, final)
    BY <2>1, <2>2 DEF CallFinal
  <2> QED BY <1>0, <1>1, <2>3, ReadLatestWrites DEF ReadLatest, FeedTypes
<1>2. CASE \E ok \in BOOLEAN : ReadReceiptLink(u, ok)
  <2>1. PICK ok \in BOOLEAN : ReadReceiptLink(u, ok)
    BY <1>2
  <2>0. PICK link \in SUBSET Claims :
           next = [this EXCEPT !.step = "cursor", !.link = link] /\ this.step = "link"
    BY <1>0, <2>1, ReadReceiptLinkWrites
  <2>2. next.step = "cursor" /\ next.safeTo = this.safeTo /\ next.rows = {} /\ this.step = "link"
    BY <1>0, <2>0 DEF Refresh, CallFinal
  <2>3. CallFinal(next, chain, final)
    BY <1>0, <2>2 DEF CallFinal
  <2> QED BY <1>0, <2>1, <2>3, ReadReceiptLinkWrites DEF ReadReceiptLink, FeedTypes
<1>3. CASE \E ok \in BOOLEAN : ReadCursor(u, ok)
  <2>1. PICK ok \in BOOLEAN : ReadCursor(u, ok)
    BY <1>3
  <2>2. CASE NextTarget(u)
    BY <1>0, <1>N, <2>1, <2>2 DEF ReadCursor, FeedTypes
  <2>3. CASE ~NextTarget(u)
    <3>0. PICK from \in Nat :
             /\ from <= this.safeTo /\ this.step = "cursor"
             /\ next = [this EXCEPT !.step = "logs", !.from = from]
      BY <1>0, <2>1, <2>3, ReadCursorWrites
    <3>1. /\ next.step = "logs" /\ next.safeTo = this.safeTo /\ next.rows = {}
          /\ next.from <= next.safeTo /\ this.step = "cursor"
      BY <1>0, <3>0 DEF Refresh, CallFinal
    <3>2. CallFinal(next, chain, final)
      BY <1>0, <3>1 DEF CallFinal
    <3> QED BY <1>0, <2>1, <2>3, <3>2, ReadCursorWrites DEF ReadCursor, FeedTypes
  <2> QED BY <2>2, <2>3
<1>4. CASE \E ok \in BOOLEAN : GetLogs(u, ok)
  <2>1. PICK ok \in BOOLEAN : GetLogs(u, ok)
    BY <1>4
  <2>2. CASE NextTarget(u)
    BY <1>0, <1>N, <2>1, <2>2 DEF GetLogs, FeedTypes
  <2>3. CASE ~NextTarget(u)
    <3>1. PICK rows \in SUBSET Chunk(this) :
             next = [this EXCEPT !.step = IF rows = {} THEN "advance" ELSE "insert", !.rows = rows]
      BY <1>0, <2>1, <2>3, GetLogsWrites
    <3>2. /\ next.step = (IF rows = {} THEN "advance" ELSE "insert") /\ next.rows = rows
          /\ next.safeTo = this.safeTo /\ next.from = this.from /\ next.target = this.target
      BY <1>0, <3>1 DEF Refresh
    <3>3. this.step = "logs" /\ End(next) = End(this)
      BY <2>1, <3>2 DEF GetLogs, End
    <3>4. CallFinal(next, chain, final)
      BY <1>0, <3>2, <3>3 DEF CallFinal, Chunk
    <3> QED BY <1>0, <2>1, <2>3, <3>4, GetLogsWrites DEF GetLogs, FeedTypes
  <2> QED BY <2>2, <2>3
<1>5. CASE \E ok \in BOOLEAN : InsertRows(u, ok)
  <2>1. PICK ok \in BOOLEAN : InsertRows(u, ok)
    BY <1>5
  <2>0. next = [this EXCEPT !.step = "advance", !.rows = {}] /\ this.step = "insert"
    BY <1>0, <2>1, InsertRowsWrites
  <2>2. /\ next.step = "advance" /\ next.rows = {} /\ next.safeTo = this.safeTo
        /\ next.from = this.from /\ this.step = "insert"
    BY <1>0, <2>0 DEF Refresh
  <2>3. CallFinal(next, chain, final)
    BY <1>0, <2>2 DEF CallFinal
  <2>4. \A row \in this.rows : row \in Row /\ OfBlocks(row, chain, final)
    <3> SUFFICES ASSUME NEW row \in this.rows PROVE row \in Row /\ OfBlocks(row, chain, final)
      OBVIOUS
    <3>1. row \in LogsOf(chain, this.target, this.from, End(this))
      BY <1>0, <2>2 DEF CallFinal
    <3>2. End(this) \in Int /\ End(this) <= this.safeTo
      BY <1>0, EndFacts
    <3>3. /\ row \in Row /\ row.block \in Nat /\ row.block <= End(this)
          /\ row \in LogsOf(chain, this.target, row.block, row.block)
      BY <1>0, <3>1, <3>2, LogFacts
    <3>4. row.block <= final
      BY <1>0, <2>2, <3>2, <3>3 DEF CallFinal
    <3> QED BY <1>0, <3>3, <3>4 DEF OfBlocks
  <2>5. trail' \subseteq trail \cup this.rows
    BY <2>1 DEF InsertRows
  <2>6. TrailFinal(trail', chain, final) /\ trail' \subseteq Row
    BY <1>0, <2>4, <2>5 DEF TrailFinal, FeedTypes
  <2> QED BY <1>0, <2>1, <2>3, <2>6, InsertRowsWrites DEF InsertRows, FeedTypes
<1>6. CASE \E ok \in BOOLEAN : UpsertCursor(u, ok)
  <2>1. PICK ok \in BOOLEAN : UpsertCursor(u, ok)
    BY <1>6
  <2>2. this.step = "advance" /\ this.from <= this.safeTo /\ this.rows = {}
    BY <1>0, <2>1 DEF UpsertCursor, CallFinal
  <2>3. cursor' \in [Targets -> Nat \cup {None}]
    BY <1>0, <2>1, <2>2, UpsertCursorWrites
  <2>4. CASE NextTarget(u)
    BY <1>0, <1>N, <2>1, <2>2, <2>3, <2>4 DEF UpsertCursor, FeedTypes
  <2>5. CASE ~NextTarget(u)
    <3>1. /\ End(this) < this.safeTo
          /\ next = [this EXCEPT !.step = "logs", !.from = End(this) + 1]
      BY <1>0, <2>1, <2>2, <2>5, UpsertCursorWrites
    <3>2. /\ next.step = "logs" /\ next.from = End(this) + 1 /\ next.rows = {}
          /\ next.safeTo = this.safeTo
      BY <1>0, <2>2, <3>1 DEF Refresh
    <3>3. End(this) \in Int
      BY <1>0, EndFacts
    <3>4. CallFinal(next, chain, final)
      BY <1>0, <2>2, <3>1, <3>2, <3>3 DEF CallFinal
    <3> QED BY <1>0, <2>1, <2>2, <2>3, <2>5, <3>4, UpsertCursorWrites DEF UpsertCursor, FeedTypes
  <2> QED BY <2>4, <2>5
<1>7. CASE AbandonRefresh(u)
  <2>1. CallFinal(Idle, chain, final)
    BY DEF CallFinal, Idle
  <2> QED BY <1>0, <1>7, <2>1, AbandonRefreshWrites DEF AbandonRefresh, FeedTypes
<1> QED BY <1>1, <1>2, <1>3, <1>4, <1>5, <1>6, <1>7 DEF RefreshNext

LEMMA StayInvInit == Init => StayInv
<1> SUFFICES ASSUME Init PROVE StayInv
  OBVIOUS
<1>1. FeedTypes
  BY DEF Init, FeedTypes, Idle, Refresh, Targets
<1>2. TrailFinal(trail, chain, final) /\ RefreshesFinal(refreshes, chain, final)
  BY DEF Init, TrailFinal, RefreshesFinal, CallFinal, Idle
<1> QED BY <1>1, <1>2, ChainInit DEF StayInv

LEMMA StayInvNext == StayInv /\ [Next]_vars => StayInv'
<1> SUFFICES ASSUME StayInv, [Next]_vars PROVE StayInv'
  OBVIOUS
<1>1. ChainInv' /\ FinalKept
  BY ChainStep DEF StayInv
<1>2. /\ chain \in Seq(Block) /\ chain' \in Seq(Block)
      /\ final \in Nat /\ final' \in Nat /\ final <= final'
      /\ SameUpTo(final, chain, chain')
  BY <1>1, FinalPart DEF StayInv
<1>3. CASE UNCHANGED feedVars
  <2>1. FeedTypes'
    BY <1>3 DEF StayInv, FeedTypes
  <2>2. TrailFinal(trail, chain', final')
    BY <1>2, OfBlocksStays DEF StayInv, FeedTypes, TrailFinal
  <2>3. RefreshesFinal(refreshes, chain', final')
    BY <1>2, CallFinalStays DEF StayInv, FeedTypes, RefreshesFinal
  <2> QED BY <1>1, <1>3, <2>1, <2>2, <2>3 DEF StayInv
<1>4. CASE \E u \in Refreshes : RefreshNext(u)
  <2>1. PICK u \in Refreshes : RefreshNext(u)
    BY <1>4
  <2>2. /\ FeedTypes' /\ TrailFinal(trail', chain, final)
        /\ CallFinal(refreshes'[u], chain, final)
        /\ \A v \in Refreshes \ {u} : refreshes'[v] = refreshes[v]
    BY <2>1, RefreshStays
  <2>3. RefreshesFinal(refreshes', chain, final)
    BY <2>2 DEF RefreshesFinal, StayInv
  <2>4. chain' = chain /\ final' = final
    BY <2>1, RefreshKeepsChain
  <2> QED BY <1>1, <2>2, <2>3, <2>4 DEF StayInv
<1>5. (\E block \in Block : Mine(block)) \/ (\E height \in 0..MaxHeight : Reorganise(height))
         => UNCHANGED feedVars
  BY DEF Mine, Reorganise
<1> QED BY <1>3, <1>4, <1>5, StepKinds

THEOREM StayInvHolds == Spec => []StayInv
<1>1. Init => StayInv
  BY StayInvInit
<1>2. StayInv /\ [Next]_vars => StayInv'
  BY StayInvNext
<1> QED BY <1>1, <1>2, PTL DEF Spec

\* No reorganisation undoes what the trail says, however invocations of the
\* audit refresh overlap, fail and die.
THEOREM TrailStaysTrue == Spec => []TrailSurvivesReorganisation
<1>1. StayInv => TrailSurvivesReorganisation
  BY OnThisChain DEF StayInv, TrailFinal, OfBlocks, TrailSurvivesReorganisation
<1> QED BY <1>1, StayInvHolds, PTL

-----------------------------------------------------------------------------
(***************************************************************************)
(* The trail is complete up to its cursor.  A block is mirrored when its   *)
(* logs have their rows, or are on the list of failed inserts, or on that  *)
(* of the logs a scan without a cursor left below its start.  A call that  *)
(* holds a chunk has the blocks below it mirrored; an insert mirrors its   *)
(* chunk or reports it; so the cursor, set at the end of a chunk, passes   *)
(* mirrored blocks only.  What is mirrored stays so: rows are not removed, *)
(* and a chunk ends below what is final.  And what is skipped was old when *)
(* it was: more than Window below the end of its scan, hence below final.  *)
(***************************************************************************)

ManagerEvents == {"ClaimSubmitted", "ClaimApproved", "ClaimPaid"}

Mirrored(to, blocks, held) == LogsOf(blocks, "claimManager", 0, to) \subseteq held

CursorMirrored(marks, blocks, limit, held) ==
    marks["claimManager"] # None =>
        marks["claimManager"] <= limit /\ Mirrored(marks["claimManager"], blocks, held)

CallMirrored(call, blocks, held) ==
    call.target = "claimManager" =>
        /\ call.step \in {"logs", "insert"} => Mirrored(call.from - 1, blocks, held)
        /\ call.step = "insert" => LogsOf(blocks, "claimManager", call.from, End(call)) \subseteq call.rows
        /\ call.step = "advance" => Mirrored(End(call), blocks, held)

TrailMirrored(rows, blocks, held) ==
    \A row \in rows : row.event \in ManagerEvents => Mirrored(row.block, blocks, held)

Held == trail \cup reported \cup skipped

SkippedOld(rows, limit) == \A row \in rows : row \in Row /\ row.block + Window < limit

MirrorInv ==
    /\ StayInv
    /\ SkippedOld(skipped, final)
    /\ CursorMirrored(cursor, chain, final, Held)
    /\ \A u \in Refreshes : CallMirrored(refreshes[u], chain, Held)
    /\ TrailMirrored(trail, chain, Held)

LEMMA MirroredStays ==
    ASSUME NEW blocks \in Seq(Block), NEW later \in Seq(Block), NEW limit \in Nat,
           SameUpTo(limit, blocks, later),
           NEW to \in Int, to <= limit, NEW held, NEW more, held \subseteq more,
           Mirrored(to, blocks, held)
    PROVE  Mirrored(to, later, more)
<1>1. LogsOf(later, "claimManager", 0, to) = LogsOf(blocks, "claimManager", 0, to)
  BY LogsStay
<1> QED BY <1>1 DEF Mirrored

LEMMA CallMirroredStays ==
    ASSUME NEW blocks \in Seq(Block), NEW later \in Seq(Block), NEW limit \in Nat,
           SameUpTo(limit, blocks, later), NEW held, NEW more, held \subseteq more,
           NEW call \in Refresh, CallFinal(call, blocks, limit), CallMirrored(call, blocks, held)
    PROVE  CallMirrored(call, later, more)
<1>1. /\ call.from \in Nat /\ call.safeTo \in Nat /\ End(call) \in Int /\ End(call) <= call.safeTo
      /\ call.from - 1 \in Int
  BY EndFacts DEF Refresh
<1> SUFFICES ASSUME call.target = "claimManager" PROVE CallMirrored(call, later, more)
  BY DEF CallMirrored
<1>2. CASE call.step \in {"logs", "insert"}
  <2>1. Mirrored(call.from - 1, blocks, held) /\ call.from - 1 <= limit /\ End(call) <= limit
    BY <1>1, <1>2 DEF CallMirrored, CallFinal
  <2>2. Mirrored(call.from - 1, later, more)
    BY <1>1, <2>1, MirroredStays
  <2>3. LogsOf(later, "claimManager", call.from, End(call)) = LogsOf(blocks, "claimManager", call.from, End(call))
    BY <1>1, <2>1, LogsStay
  <2> QED BY <1>2, <2>2, <2>3 DEF CallMirrored
<1>3. CASE call.step = "advance"
  <2>1. Mirrored(End(call), blocks, held) /\ End(call) <= limit
    BY <1>1, <1>3 DEF CallMirrored, CallFinal
  <2>2. Mirrored(End(call), later, more)
    BY <1>1, <2>1, MirroredStays
  <2> QED BY <1>3, <2>2 DEF CallMirrored
<1> QED BY <1>2, <1>3 DEF CallMirrored

LEMMA CursorMirroredStays ==
    ASSUME NEW blocks \in Seq(Block), NEW later \in Seq(Block),
           NEW limit \in Nat, NEW further \in Nat, limit <= further,
           SameUpTo(limit, blocks, later), NEW held, NEW more, held \subseteq more,
           NEW marks \in [Targets -> Nat \cup {None}], CursorMirrored(marks, blocks, limit, held)
    PROVE  CursorMirrored(marks, later, further, more)
<1> SUFFICES ASSUME marks["claimManager"] # None
             PROVE  marks["claimManager"] <= further /\ Mirrored(marks["claimManager"], later, more)
  BY DEF CursorMirrored
<1>1. marks["claimManager"] \in Nat
  BY DEF Targets
<1>2. marks["claimManager"] <= limit /\ Mirrored(marks["claimManager"], blocks, held)
  BY DEF CursorMirrored
<1>3. Mirrored(marks["claimManager"], later, more)
  BY <1>1, <1>2, MirroredStays
<1> QED BY <1>1, <1>2, <1>3

LEMMA TrailMirroredStays ==
    ASSUME NEW blocks \in Seq(Block), NEW later \in Seq(Block), NEW limit \in Nat,
           SameUpTo(limit, blocks, later), NEW held, NEW more, held \subseteq more,
           NEW rows \in SUBSET Row, TrailFinal(rows, blocks, limit), TrailMirrored(rows, blocks, held)
    PROVE  TrailMirrored(rows, later, more)
<1> SUFFICES ASSUME NEW row \in rows, row.event \in ManagerEvents
             PROVE  Mirrored(row.block, later, more)
  BY DEF TrailMirrored
<1>1. row.block \in Int /\ row.block <= limit
  BY DEF TrailFinal, OfBlocks, Row
<1>2. Mirrored(row.block, blocks, held)
  BY DEF TrailMirrored
<1> QED BY <1>1, <1>2, MirroredStays

\* Two halves of a range mirrored are the range mirrored.
LEMMA MirroredJoin ==
    ASSUME NEW blocks \in Seq(Block), NEW from \in Nat, NEW to \in Nat, NEW held,
           Mirrored(from - 1, blocks, held), LogsOf(blocks, "claimManager", from, to) \subseteq held
    PROVE  Mirrored(to, blocks, held)
BY LogsSplit DEF Mirrored

LEMMA SameChain ==
    ASSUME ChainInv
    PROVE  SameUpTo(final, chain, chain) /\ chain \in Seq(Block) /\ final \in Nat
BY DEF ChainInv, ChainOK, SameUpTo

\* Rows of a refresh join the trail only if none of the same log is there.
LEMMA RowsAreNew ==
    ASSUME StayInv, NEW u \in Refreshes, refreshes[u].step = "insert"
    PROVE  \A row \in refreshes[u].rows, t \in trail :
               t.event = row.event /\ t.claim = row.claim => t = row
<1> SUFFICES ASSUME NEW row \in refreshes[u].rows, NEW t \in trail,
                    t.event = row.event, t.claim = row.claim
             PROVE  t = row
  OBVIOUS
<1>1. /\ chain \in Seq(Block) /\ Once(chain)
      /\ refreshes[u] \in Refresh /\ refreshes[u].target \in Targets /\ refreshes[u].from \in Nat
      /\ CallFinal(refreshes[u], chain, final)
      /\ t \in Row /\ OfBlocks(t, chain, final)
  BY OnThisChain DEF StayInv, ChainInv, ChainOK, FeedTypes, RefreshesFinal, TrailFinal, Refresh
<1>2. /\ row \in LogsOf(chain, refreshes[u].target, refreshes[u].from, End(refreshes[u]))
      /\ End(refreshes[u]) \in Int
  BY <1>1, EndFacts DEF CallFinal
<1>3. PICK target \in Targets : t \in LogsOf(chain, target, t.block, t.block)
  BY <1>1 DEF OfBlocks
<1>4. t.block \in Nat
  BY <1>1 DEF Row
<1> QED BY <1>1, <1>2, <1>3, <1>4, SameLog

\* A scan without a cursor leaves out logs more than `Window' below the final blocks,
\* and writes down every one of them that is not held.
LEMMA CursorSkips ==
    ASSUME StayInv, NEW u \in Refreshes, NEW ok \in BOOLEAN, ReadCursor(u, ok)
    PROVE  /\ skipped \subseteq skipped'
           /\ UNCHANGED <<trail, reported>>
           /\ \A row \in skipped' \ skipped : row \in Row /\ row.block + Window < final
           /\ ~(ok /\ cursor[refreshes[u].target] # None) =>
                 LogsOf(chain, refreshes[u].target, 0, Start(u, ok) - 1) \subseteq Held'
<1> DEFINE this == refreshes[u]
           known == ok /\ cursor[this.target] # None
           below == LogsOf(chain, this.target, 0, Start(u, ok) - 1)
<1>1. /\ this.safeTo \in Nat /\ this.safeTo <= final /\ this.target \in Targets
      /\ chain \in Seq(Block) /\ final \in Nat
  BY DEF ReadCursor, StayInv, ChainInv, ChainOK, FeedTypes, RefreshesFinal, CallFinal, Refresh
<1>2. CASE known
  BY <1>2 DEF ReadCursor
<1>3. CASE ~known
  <2>1. Start(u, ok) = IF this.safeTo > Window THEN this.safeTo - Window ELSE 0
    BY <1>3 DEF Start
  <2>2. skipped' = skipped \cup (below \ (trail \cup reported)) /\ UNCHANGED <<trail, reported>>
    BY <1>3, OnThisChain DEF ReadCursor, Start
  <2>3. ASSUME NEW row \in below
        PROVE  row \in Row /\ row.block + Window < final
    <3>1. Start(u, ok) \in Nat
      BY <1>1, <2>1, Bounds
    <3>2. row \in Row /\ row.block \in Nat /\ row.block <= Start(u, ok) - 1
      BY <1>1, <3>1, LogFacts
    <3> QED BY <1>1, <2>1, <3>2, Bounds
  <2> HIDE DEF below
  <2>4. below \subseteq Held'
    BY <2>2 DEF Held
  <2> QED BY <2>2, <2>3, <2>4 DEF below
<1> QED BY <1>2, <1>3

LEMMA SkipStep ==
    ASSUME MirrorInv, [Next]_vars
    PROVE  SkippedOld(skipped', final')
<1>0. final \in Nat /\ final' \in Nat /\ final <= final'
  BY ChainStep, FinalPart DEF MirrorInv, StayInv
<1>1. SkippedOld(skipped, final')
  BY <1>0, Bounds DEF MirrorInv, SkippedOld, Row
<1>2. ASSUME NEW u \in Refreshes, RefreshNext(u) PROVE SkippedOld(skipped', final')
  <2>1. CASE \E ok \in BOOLEAN : ReadCursor(u, ok)
    <3>1. \A row \in skipped' \ skipped : row \in Row /\ row.block + Window < final
      BY <2>1, CursorSkips DEF MirrorInv
    <3>2. final' = final
      BY <1>2, RefreshKeepsChain
    <3> QED BY <1>1, <3>1, <3>2 DEF SkippedOld
  <2>2. CASE ~ \E ok \in BOOLEAN : ReadCursor(u, ok)
    <3>1. skipped' = skipped
      BY <1>2, <2>2 DEF RefreshNext, ReadLatest, ReadReceiptLink, GetLogs, InsertRows,
         UpsertCursor, AbandonRefresh
    <3> QED BY <1>1, <3>1
  <2> QED BY <2>1, <2>2
<1>3. (\E block \in Block : Mine(block)) \/ (\E height \in 0..MaxHeight : Reorganise(height))
         => UNCHANGED feedVars
  BY DEF Mine, Reorganise
<1> QED BY <1>1, <1>2, <1>3, StepKinds

LEMMA HeldGrows ==
    ASSUME StayInv, NEW u \in Refreshes, RefreshNext(u)
    PROVE  Held \subseteq Held' /\ trail \subseteq trail'
<1>1. CASE \E ok \in BOOLEAN : InsertRows(u, ok)
  <2>1. PICK ok \in BOOLEAN : InsertRows(u, ok)
    BY <1>1
  <2>2. refreshes[u].step = "insert" /\ skipped' = skipped
    BY <2>1 DEF InsertRows
  <2> QED BY <2>1, <2>2, RowsAreNew, InsertedRows DEF Held
<1>2. CASE \E ok \in BOOLEAN : ReadCursor(u, ok)
  <2>1. skipped \subseteq skipped' /\ UNCHANGED <<trail, reported>>
    BY <1>2, CursorSkips
  <2> QED BY <2>1 DEF Held
<1>3. CASE ~ \E ok \in BOOLEAN : InsertRows(u, ok) \/ ReadCursor(u, ok)
  <2>1. UNCHANGED <<trail, reported, skipped>>
    BY <1>3 DEF RefreshNext, ReadLatest, ReadReceiptLink, GetLogs,
       UpsertCursor, AbandonRefresh
  <2> QED BY <2>1 DEF Held
<1> QED BY <1>1, <1>2, <1>3

\* What lies below the start of a scan is mirrored up to the cursor, or written down
\* as skipped where there is none.
LEMMA StartMirrored ==
    ASSUME MirrorInv, NEW u \in Refreshes, NEW ok \in BOOLEAN,
           ReadCursor(u, ok), refreshes[u].target = "claimManager"
    PROVE  Mirrored(Start(u, ok) - 1, chain, Held')
<1> DEFINE mark == cursor["claimManager"]
<1>1. mark \in Nat \cup {None} /\ StayInv
  BY DEF MirrorInv, StayInv, FeedTypes, Targets
<1>2. CASE ok /\ mark # None
  <2>1. Start(u, ok) = mark + 1 /\ mark \in Nat
    BY <1>1, <1>2 DEF Start
  <2>2. Start(u, ok) - 1 = mark
    BY <2>1
  <2>3. Mirrored(mark, chain, Held)
    BY <1>2 DEF MirrorInv, CursorMirrored
  <2>4. Held \subseteq Held'
    BY <1>1, CursorSkips DEF Held
  <2> QED BY <2>2, <2>3, <2>4 DEF Mirrored
<1>3. CASE ~(ok /\ mark # None)
  BY <1>1, <1>3, CursorSkips DEF Mirrored
<1> QED BY <1>2, <1>3

LEMMA RefreshMirrorsCall ==
    ASSUME MirrorInv, NEW u \in Refreshes, RefreshNext(u)
    PROVE  CallMirrored(refreshes'[u], chain, Held')
<1> DEFINE this == refreshes[u]
           next == refreshes'[u]
<1>0. /\ StayInv /\ FeedTypes /\ ChainOK /\ chain \in Seq(Block) /\ Held \subseteq Held'
      /\ this \in Refresh /\ this.target \in Targets /\ this.from \in Nat /\ this.safeTo \in Nat
      /\ this.step # "idle" => this.safeTo <= final
      /\ CallFinal(this, chain, final) /\ CallMirrored(this, chain, Held)
  BY HeldGrows DEF MirrorInv, StayInv, ChainInv, ChainOK, FeedTypes, RefreshesFinal, Refresh, CallFinal
<1>1. \A to : Mirrored(to, chain, Held) => Mirrored(to, chain, Held')
  BY <1>0 DEF Mirrored
<1>N. NextTarget(u) => CallMirrored(next, chain, Held')
  BY <1>0, NextTargetWrites DEF CallMirrored
<1> SUFFICES ASSUME next.target = "claimManager", ~NextTarget(u)
             PROVE  CallMirrored(next, chain, Held')
  BY <1>N DEF CallMirrored
<1>2. CASE ReadLatest(u)
  <2>1. next.step = "link"
    BY <1>0, <1>2, ReadLatestWrites DEF Refresh
  <2> QED BY <2>1 DEF CallMirrored
<1>3. CASE \E ok \in BOOLEAN : ReadReceiptLink(u, ok)
  <2>1. PICK link \in SUBSET Claims : next = [this EXCEPT !.step = "cursor", !.link = link]
    BY <1>0, <1>3, ReadReceiptLinkWrites
  <2>2. next.step = "cursor"
    BY <1>0, <2>1 DEF Refresh
  <2> QED BY <2>2 DEF CallMirrored
<1>4. CASE \E ok \in BOOLEAN : ReadCursor(u, ok)
  <2>1. PICK ok \in BOOLEAN : ReadCursor(u, ok)
    BY <1>4
  <2>2. /\ this.step = "cursor" /\ Start(u, ok) \in Nat
        /\ next = [this EXCEPT !.step = "logs", !.from = Start(u, ok)]
    BY <1>0, <2>1, ReadCursorWrites
  <2>3. next.step = "logs" /\ next.from = Start(u, ok) /\ this.target = "claimManager"
    BY <1>0, <2>2 DEF Refresh
  <2>4. Mirrored(Start(u, ok) - 1, chain, Held')
    BY <2>1, <2>3, StartMirrored
  <2> QED BY <2>3, <2>4 DEF CallMirrored
<1>5. CASE \E ok \in BOOLEAN : GetLogs(u, ok)
  <2>1. PICK ok \in BOOLEAN : GetLogs(u, ok)
    BY <1>5
  <2>2. PICK rows \in SUBSET Chunk(this) :
           /\ this.target = "claimManager" => rows = Chunk(this)
           /\ next = [this EXCEPT !.step = IF rows = {} THEN "advance" ELSE "insert", !.rows = rows]
    BY <1>0, <2>1, GetLogsWrites
  <2>3. /\ next.step = (IF rows = {} THEN "advance" ELSE "insert") /\ next.rows = rows
        /\ next.safeTo = this.safeTo /\ next.from = this.from /\ this.target = "claimManager"
    BY <1>0, <2>2 DEF Refresh
  <2>4. this.step = "logs" /\ End(next) = End(this)
    BY <2>1, <2>3 DEF GetLogs, End
  <2>5. Mirrored(this.from - 1, chain, Held') /\ rows = LogsOf(chain, "claimManager", this.from, End(this))
    BY <1>0, <1>1, <2>2, <2>3, <2>4 DEF CallMirrored, Chunk
  <2>6. rows = {} => Mirrored(End(this), chain, Held')
    BY <1>0, <2>4, <2>5, EndFacts, MirroredJoin DEF CallFinal
  <2> QED BY <2>3, <2>4, <2>5, <2>6 DEF CallMirrored
<1>6. CASE \E ok \in BOOLEAN : InsertRows(u, ok)
  <2>1. PICK ok \in BOOLEAN : InsertRows(u, ok)
    BY <1>6
  <2>2. /\ this.step = "insert"
        /\ next = [this EXCEPT !.step = "advance", !.rows = {}]
    BY <1>0, <2>1, InsertRowsWrites
  <2>3. /\ next.step = "advance" /\ next.safeTo = this.safeTo /\ next.from = this.from
        /\ this.target = "claimManager"
    BY <1>0, <2>2 DEF Refresh
  <2>4. End(next) = End(this)
    BY <2>3 DEF End
  <2>5. this.rows \subseteq Held'
    BY <1>0, <2>1, <2>2, RowsAreNew, InsertedRows DEF Held
  <2>6. /\ Mirrored(this.from - 1, chain, Held')
        /\ LogsOf(chain, "claimManager", this.from, End(this)) \subseteq Held'
    BY <1>0, <1>1, <2>2, <2>3, <2>5 DEF CallMirrored
  <2>7. Mirrored(End(this), chain, Held')
    BY <1>0, <2>2, <2>6, EndFacts, MirroredJoin DEF CallFinal
  <2> QED BY <2>3, <2>4, <2>7 DEF CallMirrored
<1>7. CASE \E ok \in BOOLEAN : UpsertCursor(u, ok)
  <2>1. PICK ok \in BOOLEAN : UpsertCursor(u, ok)
    BY <1>7
  <2>2. this.step = "advance" /\ this.from <= this.safeTo
    BY <1>0, <2>1 DEF UpsertCursor, CallFinal
  <2>3. next = [this EXCEPT !.step = "logs", !.from = End(this) + 1]
    BY <1>0, <2>1, <2>2, UpsertCursorWrites
  <2>4. next.step = "logs" /\ next.from = End(this) + 1 /\ this.target = "claimManager"
    BY <1>0, <2>3 DEF Refresh
  <2>5. next.from - 1 = End(this)
    BY <1>0, <2>4, EndFacts
  <2>6. Mirrored(End(this), chain, Held')
    BY <1>0, <1>1, <2>2, <2>4 DEF CallMirrored
  <2> QED BY <2>4, <2>5, <2>6 DEF CallMirrored
<1>8. CASE AbandonRefresh(u)
  <2>1. next.step = "idle"
    BY <1>0, <1>8, AbandonRefreshWrites DEF Idle
  <2> QED BY <2>1 DEF CallMirrored
<1> QED BY <1>2, <1>3, <1>4, <1>5, <1>6, <1>7, <1>8 DEF RefreshNext

LEMMA RefreshMirrorsCursor ==
    ASSUME MirrorInv, NEW u \in Refreshes, RefreshNext(u)
    PROVE  CursorMirrored(cursor', chain, final, Held')
<1> DEFINE this == refreshes[u]
<1>0. /\ StayInv /\ FeedTypes /\ chain \in Seq(Block) /\ Held \subseteq Held' /\ final \in Nat
      /\ SameUpTo(final, chain, chain) /\ ChainOK
      /\ this \in Refresh /\ CallFinal(this, chain, final) /\ CallMirrored(this, chain, Held)
      /\ CursorMirrored(cursor, chain, final, Held)
  BY HeldGrows, SameChain DEF MirrorInv, StayInv, ChainInv, FeedTypes, RefreshesFinal
<1>1. CursorMirrored(cursor, chain, final, Held')
  BY <1>0, CursorMirroredStays DEF FeedTypes
<1>2. CASE \E ok \in BOOLEAN : UpsertCursor(u, ok)
  <2>1. PICK ok \in BOOLEAN : UpsertCursor(u, ok)
    BY <1>2
  <2>2. this.step = "advance" /\ this.from <= this.safeTo /\ this.safeTo <= final
    BY <1>0, <2>1 DEF UpsertCursor, CallFinal
  <2>3. \A t \in Targets : cursor'[t] # cursor[t] => t = this.target /\ cursor'[t] = End(this)
    BY <1>0, <2>1, <2>2, UpsertCursorWrites
  <2>4. CASE cursor'["claimManager"] = cursor["claimManager"]
    BY <1>1, <2>4 DEF CursorMirrored
  <2>5. CASE cursor'["claimManager"] # cursor["claimManager"]
    <3>1. this.target = "claimManager" /\ cursor'["claimManager"] = End(this)
      BY <2>3, <2>5 DEF Targets
    <3>2. Mirrored(End(this), chain, Held')
      BY <1>0, <2>2, <3>1 DEF CallMirrored, Mirrored
    <3>3. End(this) <= final
      BY <1>0, <2>2, EndFacts DEF Refresh
    <3> QED BY <3>1, <3>2, <3>3 DEF CursorMirrored
  <2> QED BY <2>4, <2>5
<1>3. CASE ~ \E ok \in BOOLEAN : UpsertCursor(u, ok)
  <2>1. cursor' = cursor
    BY <1>3 DEF RefreshNext, ReadLatest, ReadReceiptLink, ReadCursor, GetLogs, InsertRows, AbandonRefresh
  <2> QED BY <1>1, <2>1
<1> QED BY <1>2, <1>3

\* A row that joins the trail comes with its chunk, above blocks that are mirrored.
LEMMA RefreshMirrorsTrail ==
    ASSUME MirrorInv, NEW u \in Refreshes, RefreshNext(u)
    PROVE  TrailMirrored(trail', chain, Held')
<1> DEFINE this == refreshes[u]
<1>0. /\ StayInv /\ FeedTypes /\ chain \in Seq(Block) /\ Held \subseteq Held' /\ final \in Nat
      /\ SameUpTo(final, chain, chain) /\ TrailFinal(trail, chain, final) /\ trail \in SUBSET Row
      /\ this \in Refresh /\ this.target \in Targets /\ this.from \in Nat
      /\ CallFinal(this, chain, final) /\ CallMirrored(this, chain, Held)
  BY HeldGrows, SameChain DEF MirrorInv, StayInv, ChainInv, FeedTypes, RefreshesFinal, Refresh
<1>1. TrailMirrored(trail, chain, Held')
  BY <1>0, TrailMirroredStays DEF MirrorInv
<1>2. CASE \E ok \in BOOLEAN : InsertRows(u, ok)
  <2>1. PICK ok \in BOOLEAN : InsertRows(u, ok)
    BY <1>2
  <2>2. this.step = "insert" /\ this.from <= this.safeTo
    BY <1>0, <2>1 DEF InsertRows, CallFinal
  <2>3. trail' \subseteq trail \cup this.rows /\ this.rows \subseteq Held'
    BY <1>0, <2>1, <2>2, RowsAreNew, InsertedRows DEF Held
  <2>4. this.rows \subseteq LogsOf(chain, this.target, this.from, End(this))
    BY <1>0, <2>2 DEF CallFinal
  <2>5. ASSUME NEW row \in this.rows, row.event \in ManagerEvents
        PROVE  Mirrored(row.block, chain, Held')
    <3>1. End(this) \in Nat
      BY <1>0, <2>2, EndFacts
    <3>2. row.block \in Nat /\ row.block <= End(this)
      BY <1>0, <2>4, <2>5, <3>1, LogFacts
    <3>3. this.target = "claimManager"
      BY <1>0, <2>4, <2>5, <3>1, LogsAre DEF ManagerEvents, Emits, Targets
    <3>4. /\ Mirrored(this.from - 1, chain, Held')
          /\ LogsOf(chain, "claimManager", this.from, End(this)) \subseteq Held'
      BY <1>0, <2>2, <2>3, <3>3 DEF CallMirrored, Mirrored
    <3>5. Mirrored(End(this), chain, Held')
      BY <1>0, <3>1, <3>4, MirroredJoin
    <3> QED BY <1>0, <3>1, <3>2, <3>5, LogsWithin DEF Mirrored
  <2> QED BY <1>1, <2>3, <2>5 DEF TrailMirrored
<1>3. CASE ~ \E ok \in BOOLEAN : InsertRows(u, ok)
  <2>1. trail' = trail
    BY <1>3 DEF RefreshNext, ReadLatest, ReadReceiptLink, ReadCursor, GetLogs, UpsertCursor, AbandonRefresh
  <2> QED BY <1>1, <2>1
<1> QED BY <1>2, <1>3

LEMMA MirrorInvInit == Init => MirrorInv
<1> SUFFICES ASSUME Init PROVE MirrorInv
  OBVIOUS
<1>1. /\ CursorMirrored(cursor, chain, final, Held)
      /\ \A u \in Refreshes : CallMirrored(refreshes[u], chain, Held)
      /\ TrailMirrored(trail, chain, Held)
      /\ SkippedOld(skipped, final)
  BY DEF Init, CursorMirrored, CallMirrored, TrailMirrored, SkippedOld, Idle, Targets
<1> QED BY <1>1, StayInvInit DEF MirrorInv

LEMMA MirrorInvNext ==
    ASSUME MirrorInv, [Next]_vars
    PROVE  MirrorInv'
<1>1. StayInv /\ StayInv'
  BY StayInvNext DEF MirrorInv
<1>2. /\ chain \in Seq(Block) /\ chain' \in Seq(Block)
      /\ final \in Nat /\ final' \in Nat /\ final <= final'
      /\ SameUpTo(final, chain, chain')
  BY <1>1, ChainStep, FinalPart DEF StayInv
<1>0. SkippedOld(skipped', final')
  BY SkipStep
<1>3. CASE UNCHANGED feedVars
  <2>1. Held' = Held
    BY <1>3 DEF Held
  <2>2. CursorMirrored(cursor, chain', final', Held)
    BY <1>1, <1>2, CursorMirroredStays DEF MirrorInv, StayInv, FeedTypes
  <2>3. \A u \in Refreshes : CallMirrored(refreshes[u], chain', Held)
    BY <1>1, <1>2, CallMirroredStays DEF MirrorInv, StayInv, FeedTypes, RefreshesFinal
  <2>4. TrailMirrored(trail, chain', Held)
    BY <1>1, <1>2, TrailMirroredStays DEF MirrorInv, StayInv, FeedTypes
  <2> QED BY <1>0, <1>1, <1>3, <2>1, <2>2, <2>3, <2>4 DEF MirrorInv
<1>4. CASE \E u \in Refreshes : RefreshNext(u)
  <2>1. PICK u \in Refreshes : RefreshNext(u)
    BY <1>4
  <2>2. chain' = chain /\ final' = final
    BY <2>1, RefreshKeepsChain
  <2>3. CursorMirrored(cursor', chain, final, Held') /\ TrailMirrored(trail', chain, Held')
    BY <2>1, RefreshMirrorsCursor, RefreshMirrorsTrail
  <2>4. ASSUME NEW v \in Refreshes PROVE CallMirrored(refreshes'[v], chain, Held')
    <3>1. CASE v = u
      BY <2>1, <3>1, RefreshMirrorsCall
    <3>2. CASE v # u
      <4>1. refreshes'[v] = refreshes[v]
        BY <1>1, <2>1, <3>2, RefreshStays
      <4>2. Held \subseteq Held' /\ SameUpTo(final, chain, chain)
        BY <1>1, <2>1, HeldGrows, SameChain DEF StayInv
      <4>3. refreshes[v] \in Refresh /\ CallFinal(refreshes[v], chain, final) /\ CallMirrored(refreshes[v], chain, Held)
        BY DEF MirrorInv, StayInv, FeedTypes, RefreshesFinal
      <4> QED BY <1>2, <4>1, <4>2, <4>3, CallMirroredStays
    <3> QED BY <3>1, <3>2
  <2> QED BY <1>0, <1>1, <2>2, <2>3, <2>4 DEF MirrorInv
<1>5. (\E block \in Block : Mine(block)) \/ (\E height \in 0..MaxHeight : Reorganise(height))
         => UNCHANGED feedVars
  BY DEF Mine, Reorganise
<1> QED BY <1>3, <1>4, <1>5, StepKinds

LEMMA MirroredIsAccounted ==
    ASSUME MirrorInv, NEW to, Mirrored(to, chain, Held)
    PROVE  Accounted(to)
BY OnThisChain DEF MirrorInv, SkippedOld, Mirrored, Held, Accounted, ManagerLogs

THEOREM MirrorInvHolds == Spec => []MirrorInv
<1>1. Init => MirrorInv
  BY MirrorInvInit
<1>2. MirrorInv /\ [Next]_vars => MirrorInv'
  BY MirrorInvNext
<1> QED BY <1>1, <1>2, PTL DEF Spec

\* The mirror of ClaimManager is complete up to its cursor, but for the inserts
\* that failed and were logged, and for the logs that lay more than `Window' below
\* the final blocks when a scan started without a cursor: for a chain of any height.
THEOREM MirrorIsComplete == Spec => []TrailMirrorsClaimManager
<1>1. MirrorInv => TrailMirrorsClaimManager
  BY MirroredIsAccounted DEF MirrorInv, CursorMirrored, TrailMirrorsClaimManager
<1> QED BY <1>1, MirrorInvHolds, PTL

\* A claim's later event is not on the trail without the earlier ones, but for the
\* same two reasons.
THEOREM MirrorHasNoGaps == Spec => []TrailHasNoGaps
<1>1. MirrorInv => TrailHasNoGaps
  BY MirroredIsAccounted DEF MirrorInv, TrailMirrored, ManagerEvents, TrailHasNoGaps
<1> QED BY <1>1, MirrorInvHolds, PTL

-----------------------------------------------------------------------------
(***************************************************************************)
(* Drafts.  A run that reads the assessments passes over a claim that has  *)
(* one, and a claim keeps what it has; so only what was read before the    *)
(* first, by one invocation each, or blindly, is drafted after it.         *)
(***************************************************************************)

LEMMA OldestAreSome ==
    ASSUME NEW rows, NEW limit
    PROVE  Oldest(rows, limit) \subseteq rows
BY DEF Oldest

\* A draft run works on submissions of the trail, none of a claim it saw a draft of.
LEMMA UndraftedAre ==
    ASSUME NEW ok \in BOOLEAN
    PROVE  /\ Undrafted(ok) \subseteq trail
           /\ \A row \in Undrafted(ok) : row.event = "ClaimSubmitted"
           /\ ok => \A row \in Undrafted(ok) : ~HasAssessment(row.claim)
<1>1. OldestSubmitted \subseteq {t \in trail : t.event = "ClaimSubmitted"}
  BY OldestAreSome DEF OldestSubmitted
<1>2. Undrafted(ok) \subseteq {row \in OldestSubmitted : ~(ok /\ HasAssessment(row.claim))}
  BY OldestAreSome DEF Undrafted
<1> QED BY <1>1, <1>2

DraftTypes ==
    /\ pending \in [Claims -> 0..MaxDrafts] /\ published \subseteq Claims
    /\ drafted \in [Claims -> Nat] /\ blind \in 0..MaxBlind
    /\ calls \in [Calls -> Claims \cup {None}]
    /\ armed \in Deployments

\* The submissions a run holds are rows of the trail, which never loses one.
WorkOnTrail ==
    /\ assessors \in [Assessors -> SUBSET trail]
    /\ \A a \in Assessors : \A row \in assessors[a] : row.event = "ClaimSubmitted"

FeedInv == StayInv /\ reported \subseteq Row /\ skipped \subseteq Row /\ DraftTypes /\ WorkOnTrail

LEMMA FeedIsTyped == FeedInv => FeedTypeOK
<1> SUFFICES ASSUME FeedInv PROVE FeedTypeOK
  OBVIOUS
<1>1. trail \subseteq Row /\ assessors \in [Assessors -> SUBSET Row]
  BY DEF FeedInv, StayInv, FeedTypes, WorkOnTrail
<1>2. final \in 0..Len(chain)
  BY DEF FeedInv, StayInv, ChainInv, ChainOK
<1> QED BY <1>1, <1>2 DEF FeedInv, StayInv, ChainInv, ChainOK, FeedTypes, DraftTypes, FeedTypeOK

LEMMA FeedInvInit == Init => FeedInv
<1> SUFFICES ASSUME Init PROVE FeedInv
  OBVIOUS
<1>1. DraftTypes
  BY FeedAssumption DEF Init, DraftTypes
<1>2. reported \subseteq Row /\ skipped \subseteq Row /\ WorkOnTrail
  BY DEF Init, WorkOnTrail
<1> QED BY <1>1, <1>2, StayInvInit DEF FeedInv

LEMMA DraftsTyped ==
    ASSUME FeedInv, DraftNextStep
    PROVE  DraftTypes' /\ WorkOnTrail'
<1>1. /\ DraftTypes /\ WorkOnTrail /\ trail' = trail
      /\ MaxDrafts \in Nat /\ MaxBlind \in Nat
  BY FeedAssumption DEF FeedInv, DraftNextStep, StartAssessor, DraftNext, AbandonAssessor,
     AssessClaim, StoreAssessment, PublishDraft
<1>2. ASSUME NEW a \in Assessors, NEW ok \in BOOLEAN, StartAssessor(a, ok)
      PROVE  DraftTypes' /\ WorkOnTrail'
  <2>1. DraftTypes'
    BY <1>1, <1>2 DEF StartAssessor, DraftTypes
  <2>2. /\ assessors' = [assessors EXCEPT ![a] = Undrafted(ok)]
        /\ Undrafted(ok) \subseteq trail
        /\ \A row \in Undrafted(ok) : row.event = "ClaimSubmitted"
    BY <1>2, UndraftedAre DEF StartAssessor
  <2> QED BY <1>1, <2>1, <2>2 DEF WorkOnTrail
<1>3. ASSUME NEW a \in Assessors, NEW ok \in BOOLEAN, NEW row \in assessors[a], DraftNext(a, row, ok)
      PROVE  DraftTypes' /\ WorkOnTrail'
  <2>1. row.claim \in Claims
    BY <1>1, <1>3 DEF FeedInv, StayInv, FeedTypes, WorkOnTrail, Row
  <2>2. DraftTypes'
    BY <1>1, <1>3, <2>1 DEF DraftNext, DraftTypes
  <2>3. assessors' = [assessors EXCEPT ![a] = @ \ {row}]
    BY <1>3 DEF DraftNext
  <2> QED BY <1>1, <2>2, <2>3 DEF WorkOnTrail
<1>4. ASSUME NEW a \in Assessors, AbandonAssessor(a)
      PROVE  DraftTypes' /\ WorkOnTrail'
  BY <1>1, <1>4 DEF AbandonAssessor, DraftTypes, WorkOnTrail
<1>5. ASSUME NEW q \in Calls, NEW c \in Claims, NEW ok \in BOOLEAN, AssessClaim(q, c, ok)
      PROVE  DraftTypes' /\ WorkOnTrail'
  BY <1>1, <1>5 DEF AssessClaim, DraftTypes, WorkOnTrail
<1>6. ASSUME NEW q \in Calls, NEW ok \in BOOLEAN, StoreAssessment(q, ok)
      PROVE  DraftTypes' /\ WorkOnTrail'
  <2>1. calls[q] \in Claims
    BY <1>1, <1>6 DEF StoreAssessment, DraftTypes
  <2> QED BY <1>1, <1>6, <2>1 DEF StoreAssessment, DraftTypes, WorkOnTrail
<1>7. ASSUME NEW c \in Claims, PublishDraft(c)
      PROVE  DraftTypes' /\ WorkOnTrail'
  BY <1>1, <1>7 DEF PublishDraft, DraftTypes, WorkOnTrail
<1> QED BY <1>2, <1>3, <1>4, <1>5, <1>6, <1>7 DEF DraftNextStep

LEMMA FeedInvNext == FeedInv /\ [Next]_vars => FeedInv'
<1> SUFFICES ASSUME FeedInv, [Next]_vars PROVE FeedInv'
  OBVIOUS
<1>1. StayInv /\ StayInv'
  BY StayInvNext DEF FeedInv
<1>2. CASE DraftNextStep
  <2>1. reported' = reported /\ skipped' = skipped
    BY <1>2 DEF DraftNextStep, StartAssessor, DraftNext, AbandonAssessor, AssessClaim,
       StoreAssessment, PublishDraft
  <2> QED BY <1>1, <1>2, <2>1, DraftsTyped DEF FeedInv
<1>3. CASE UNCHANGED draftVars /\ trail \subseteq trail' /\ reported' \subseteq Row /\ skipped' \subseteq Row
  <2>1. DraftTypes' /\ WorkOnTrail'
    BY <1>3 DEF FeedInv, DraftTypes, WorkOnTrail
  <2> QED BY <1>1, <1>3, <2>1 DEF FeedInv
<1>4. ASSUME NEW u \in Refreshes, RefreshNext(u)
      PROVE  UNCHANGED draftVars /\ trail \subseteq trail' /\ reported' \subseteq Row /\ skipped' \subseteq Row
  <2>1. UNCHANGED draftVars
    BY <1>4 DEF RefreshNext, ReadLatest, ReadReceiptLink, ReadCursor, GetLogs,
       InsertRows, UpsertCursor, AbandonRefresh
  <2>2. trail \subseteq trail'
    BY <1>1, <1>4, HeldGrows
  <2>3. reported' \subseteq reported \cup refreshes[u].rows
    BY <1>4 DEF RefreshNext, ReadLatest, ReadReceiptLink, ReadCursor, GetLogs,
       InsertRows, UpsertCursor, AbandonRefresh
  <2>4. refreshes[u].rows \subseteq Row
    BY <1>1 DEF StayInv, FeedTypes, Refresh
  <2>5. skipped' \subseteq Row
    <3>1. CASE \E ok \in BOOLEAN : ReadCursor(u, ok)
      BY <1>1, <3>1, CursorSkips DEF FeedInv
    <3>2. CASE ~ \E ok \in BOOLEAN : ReadCursor(u, ok)
      BY <1>4, <3>2 DEF RefreshNext, ReadLatest, ReadReceiptLink, GetLogs,
         InsertRows, UpsertCursor, AbandonRefresh, FeedInv
    <3> QED BY <3>1, <3>2
  <2> QED BY <2>1, <2>2, <2>3, <2>4, <2>5 DEF FeedInv
<1>5. CASE \/ \E block \in Block : Mine(block)
           \/ \E height \in 0..MaxHeight : Reorganise(height)
           \/ UNCHANGED vars
  BY <1>3, <1>5 DEF Mine, Reorganise, FeedInv
<1> QED BY <1>2, <1>3, <1>4, <1>5 DEF Next

\* Rows, cursors, drafts and the work of every invocation stay well formed.
THEOREM FeedTypesHold == Spec => []FeedTypeOK
BY FeedInvInit, FeedInvNext, FeedIsTyped, PTL DEF Spec

\* An event of a claim is one log of the chain, hence one row of the trail.
LEMMA RowsAreSingle ==
    ASSUME StayInv, NEW one \in trail, NEW other \in trail,
           one.event = other.event, one.claim = other.claim
    PROVE  one = other
<1>1. /\ chain \in Seq(Block) /\ Once(chain)
      /\ one \in Row /\ OfBlocks(one, chain, final)
      /\ other \in Row /\ OfBlocks(other, chain, final)
  BY OnThisChain DEF StayInv, ChainInv, ChainOK, FeedTypes, TrailFinal
<1>2. one.block \in Nat /\ other.block \in Nat
  BY <1>1 DEF Row
<1>3. PICK s \in Targets : one \in LogsOf(chain, s, one.block, one.block)
  BY <1>1 DEF OfBlocks
<1>4. PICK t \in Targets : other \in LogsOf(chain, t, other.block, other.block)
  BY <1>1 DEF OfBlocks
<1> QED BY <1>1, <1>2, <1>3, <1>4, SameLog

LEMMA DraftingCounted == \A c : IsFiniteSet(Drafting(c)) /\ Cardinality(Drafting(c)) \in Nat
<1>1. IsFiniteSet(Assessors)
  BY FeedAssumption
<1>2. \A c : Drafting(c) \subseteq Assessors
  BY DEF Drafting
<1> QED BY <1>1, <1>2, FS_Subset, FS_CardinalityType

LEMMA JoinCounts ==
    ASSUME NEW S, IsFiniteSet(S), NEW x, NEW T, T \subseteq S \cup {x}
    PROVE  Cardinality(T) \in Nat /\ Cardinality(T) <= Cardinality(S) + 1
<1>1. IsFiniteSet(S \cup {x}) /\ Cardinality(S \cup {x}) <= Cardinality(S) + 1
      /\ Cardinality(S) \in Nat
  BY FS_AddElement, FS_CardinalityType
<1>2. IsFiniteSet(T) /\ Cardinality(T) <= Cardinality(S \cup {x})
  BY <1>1, FS_Subset
<1>3. Cardinality(T) \in Nat /\ Cardinality(S \cup {x}) \in Nat
  BY <1>1, <1>2, FS_CardinalityType
<1> QED BY <1>1, <1>2, <1>3

LEMMA LeaveCounts ==
    ASSUME NEW S, IsFiniteSet(S), NEW x \in S, NEW T, T \subseteq S \ {x}
    PROVE  Cardinality(T) \in Nat /\ Cardinality(T) + 1 <= Cardinality(S)
<1>1. IsFiniteSet(S \ {x}) /\ Cardinality(S \ {x}) = Cardinality(S) - 1
      /\ Cardinality(S) \in Nat
  BY FS_RemoveElement, FS_CardinalityType
<1>2. IsFiniteSet(T) /\ Cardinality(T) <= Cardinality(S \ {x})
  BY <1>1, FS_Subset
<1>3. Cardinality(T) \in Nat
  BY <1>2, FS_CardinalityType
<1> QED BY <1>1, <1>2, <1>3

LEMMA FewerCount ==
    ASSUME NEW S, IsFiniteSet(S), NEW T, T \subseteq S
    PROVE  Cardinality(T) \in Nat /\ Cardinality(S) \in Nat /\ Cardinality(T) <= Cardinality(S)
BY FS_Subset, FS_CardinalityType

GainsNoDrafts(c) ==
    drafted'[c] + Cardinality(Drafting(c)') - blind'
      <= drafted[c] + Cardinality(Drafting(c)) - blind

LEMMA DraftNumbers ==
    ASSUME FeedInv, NEW c \in Claims
    PROVE  /\ blind \in Nat /\ drafted[c] \in Nat
           /\ IsFiniteSet(Drafting(c)) /\ Cardinality(Drafting(c)) \in Nat
<1>1. blind \in Nat /\ drafted \in [Claims -> Nat]
  BY FeedAssumption DEF FeedInv, DraftTypes
<1> QED BY <1>1, DraftingCounted

\* A run that reads the assessments takes up no claim that has one; a blind run
\* takes it up once.
LEMMA StartGainsNoDrafts ==
    ASSUME FeedInv, NEW a \in Assessors, NEW ok \in BOOLEAN, StartAssessor(a, ok),
           NEW c \in Claims, HasAssessment(c)
    PROVE  GainsNoDrafts(c)
<1>1. /\ assessors[a] = {}
      /\ assessors' = [assessors EXCEPT ![a] = Undrafted(ok)]
      /\ assessors \in [Assessors -> SUBSET trail]
      /\ drafted' = drafted
      /\ blind' = IF ok THEN blind ELSE blind + 1
  BY DEF StartAssessor, FeedInv, WorkOnTrail
<1>2. /\ blind \in Nat /\ drafted[c] \in Nat
      /\ IsFiniteSet(Drafting(c)) /\ Cardinality(Drafting(c)) \in Nat
  BY DraftNumbers
<1>3. CASE ~ok
  <2>1. Drafting(c)' \subseteq Drafting(c) \cup {a}
    BY <1>1 DEF Drafting
  <2>2. Cardinality(Drafting(c)') \in Nat /\ Cardinality(Drafting(c)') <= Cardinality(Drafting(c)) + 1
    BY <1>2, <2>1, JoinCounts
  <2> QED BY <1>1, <1>2, <1>3, <2>2 DEF GainsNoDrafts
<1>4. CASE ok
  <2>1. Drafting(c)' \subseteq Drafting(c)
    BY <1>1, <1>4, UndraftedAre DEF Drafting
  <2>2. Cardinality(Drafting(c)') \in Nat /\ Cardinality(Drafting(c)') <= Cardinality(Drafting(c))
    BY <1>2, <2>1, FewerCount
  <2> QED BY <1>1, <1>2, <1>4, <2>2 DEF GainsNoDrafts
<1> QED BY <1>3, <1>4

\* A run that stores a draft had the claim before it, once, and no more.
LEMMA DraftGainsNoDrafts ==
    ASSUME FeedInv, NEW a \in Assessors, NEW ok \in BOOLEAN,
           NEW row \in assessors[a], DraftNext(a, row, ok), NEW c \in Claims
    PROVE  GainsNoDrafts(c)
<1>1. /\ assessors' = [assessors EXCEPT ![a] = @ \ {row}]
      /\ assessors \in [Assessors -> SUBSET trail]
      /\ blind' = blind /\ drafted \in [Claims -> Nat]
      /\ drafted' = IF ok THEN [drafted EXCEPT ![row.claim] = @ + 1] ELSE drafted
  BY DEF DraftNext, FeedInv, WorkOnTrail, DraftTypes
<1>2. /\ blind \in Nat /\ drafted[c] \in Nat
      /\ IsFiniteSet(Drafting(c)) /\ Cardinality(Drafting(c)) \in Nat
  BY DraftNumbers
<1>3. CASE c = row.claim
  <2>1. a \in Drafting(c)
    BY <1>3 DEF Drafting
  <2>2. \A other \in assessors[a] : other.claim = c => other = row
    BY <1>1, <1>3, RowsAreSingle DEF FeedInv, WorkOnTrail
  <2>3. Drafting(c)' \subseteq Drafting(c) \ {a}
    BY <1>1, <2>2 DEF Drafting
  <2>4. Cardinality(Drafting(c)') \in Nat
        /\ Cardinality(Drafting(c)') + 1 <= Cardinality(Drafting(c))
    BY <1>2, <2>1, <2>3, LeaveCounts
  <2>5. drafted'[c] = drafted[c] \/ drafted'[c] = drafted[c] + 1
    BY <1>1, <1>3
  <2> QED BY <1>1, <1>2, <2>4, <2>5 DEF GainsNoDrafts
<1>4. CASE c # row.claim
  <2>1. Drafting(c)' \subseteq Drafting(c)
    BY <1>1 DEF Drafting
  <2>2. Cardinality(Drafting(c)') \in Nat /\ Cardinality(Drafting(c)') <= Cardinality(Drafting(c))
    BY <1>2, <2>1, FewerCount
  <2>3. drafted'[c] = drafted[c]
    BY <1>1, <1>4
  <2> QED BY <1>1, <1>2, <2>2, <2>3 DEF GainsNoDrafts
<1> QED BY <1>3, <1>4

\* Any other step starts no work.
LEMMA OthersGainNoDrafts ==
    ASSUME FeedInv, UNCHANGED <<drafted, blind>>, NEW c \in Claims,
           \A b \in Assessors : assessors'[b] \subseteq assessors[b]
    PROVE  GainsNoDrafts(c)
<1>1. /\ blind \in Nat /\ drafted[c] \in Nat
      /\ IsFiniteSet(Drafting(c)) /\ Cardinality(Drafting(c)) \in Nat
  BY DraftNumbers
<1>2. Drafting(c)' \subseteq Drafting(c)
  BY DEF Drafting
<1>3. Cardinality(Drafting(c)') \in Nat /\ Cardinality(Drafting(c)') <= Cardinality(Drafting(c))
  BY <1>1, <1>2, FewerCount
<1> QED BY <1>1, <1>3 DEF GainsNoDrafts

LEMMA StepGainsNoDrafts ==
    ASSUME FeedInv, [Next]_vars, NEW c \in Claims, HasAssessment(c)
    PROVE  GainsNoDrafts(c)
<1>1. CASE UNCHANGED <<drafted, blind, assessors>>
  BY <1>1, OthersGainNoDrafts
<1>2. ASSUME NEW a \in Assessors, AbandonAssessor(a) PROVE GainsNoDrafts(c)
  <2>1. UNCHANGED <<drafted, blind>> /\ \A b \in Assessors : assessors'[b] \subseteq assessors[b]
    BY <1>2 DEF AbandonAssessor, FeedInv, WorkOnTrail
  <2> QED BY <2>1, OthersGainNoDrafts
<1>3. CASE DraftNextStep
  <2>1. ASSUME \/ \E q \in Calls, d \in Claims, ok \in BOOLEAN : AssessClaim(q, d, ok)
               \/ \E q \in Calls, ok \in BOOLEAN : StoreAssessment(q, ok)
               \/ \E d \in Claims : PublishDraft(d)
        PROVE  GainsNoDrafts(c)
    BY <1>1, <2>1 DEF AssessClaim, StoreAssessment, PublishDraft
  <2> QED BY <1>2, <1>3, <2>1, StartGainsNoDrafts, DraftGainsNoDrafts DEF DraftNextStep
<1>4. ASSUME NEW u \in Refreshes, RefreshNext(u) PROVE GainsNoDrafts(c)
  <2>1. UNCHANGED draftVars
    BY <1>4 DEF RefreshNext, ReadLatest, ReadReceiptLink, ReadCursor, GetLogs,
       InsertRows, UpsertCursor, AbandonRefresh
  <2> QED BY <1>1, <2>1
<1>5. CASE \/ \E block \in Block : Mine(block)
           \/ \E height \in 0..MaxHeight : Reorganise(height)
           \/ UNCHANGED vars
  BY <1>1, <1>5 DEF Mine, Reorganise
<1> QED BY <1>3, <1>4, <1>5 DEF Next

\* Once a claim has an assessment, whoever drafted it and whatever became of it, the
\* cron job's drafts of it and those it has still to store grow no more, but by one
\* for each run that could not read the assessments: for any number of claims,
\* invocations and drafts.
THEOREM AssessedClaimsAreLeftAlone == Spec => AssessedClaimsGainNoDrafts
<1>1. FeedInv /\ [Next]_vars => \A c \in Claims : Assessed(c) => GainsNoDrafts(c)
  BY StepGainsNoDrafts DEF Assessed, HasAssessment
<1>2. FeedInv /\ [Next]_vars =>
         [\A c \in Claims : Assessed(c) =>
             drafted'[c] + Cardinality(Drafting(c)') - blind'
               <= drafted[c] + Cardinality(Drafting(c)) - blind]_vars
  BY <1>1 DEF GainsNoDrafts
<1> QED BY <1>2, FeedInvInit, FeedInvNext, PTL DEF Spec, AssessedClaimsGainNoDrafts

=============================================================================
