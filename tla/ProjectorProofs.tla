-------------------------- MODULE ProjectorProofs ---------------------------
(***************************************************************************)
(* Theorems about the projector loop over poll(), for chains of any        *)
(* height, any number of reorganisations and faults, any finality depth    *)
(* and any chunk size: the archive is a chain, nothing is announced twice, *)
(* and the projection state and the open availabilities are canonical.     *)
(***************************************************************************)
EXTENDS ProjectorLoop, ChainLogProofs, FiniteSetTheorems

-----------------------------------------------------------------------------
(* Types *)

Entry      == [seq : Nat, act : {"available", "withdrawn"}, block : Block]
CursorType == [live : Block, finalized : Block, sequence : Nat, state : SUBSET Block]
TickType   == [pc : {"none", "correct", "correctHead", "publish", "publishHead", "write"},
               batch : BatchType, rebuild : BOOLEAN, displaced : SUBSET Block,
               recovered : SUBSET Entry, base : SUBSET Block, prior : Nat,
               priors : SUBSET Block, fresh : SUBSET Block, emitted : SUBSET Entry,
               seeded : BOOLEAN, failed : BOOLEAN]

LoopType ==
  /\ cursor \in CursorType
  /\ journal \subseteq Block /\ orphaned \subseteq Block
  /\ active \subseteq Block /\ retracted \subseteq Block
  /\ pages \in [DOMAIN pages -> SUBSET Entry] /\ pageCount \in Nat /\ head \in Nat
  /\ everPublished \subseteq Block \X Nat
  /\ tick \in TickType /\ missed \in BOOLEAN /\ origin \in Nat

\* What the parts of a step leave alone.
SourceKept == UNCHANGED <<chain, abandoned, forks, fin, row, scanned, orphans, poll, batch>>
LoopKept   == UNCHANGED <<cursor, journal, orphaned, active, retracted>>
ArchKept   == UNCHANGED <<pages, pageCount, head, everPublished>>

\* The fields a tick settles when it folds the batch.
TickKept ==
  /\ tick' \in TickType
  /\ tick'.batch = tick.batch /\ tick'.rebuild = tick.rebuild
  /\ tick'.displaced = tick.displaced /\ tick'.recovered = tick.recovered
  /\ tick'.base = tick.base /\ tick'.priors = tick.priors /\ tick'.fresh = tick.fresh

\* The steps of the chain and of the source, as the loop sees them.
ChainStep ==
  /\ ChainNext
  /\ missed' = \/ missed
               \/ fin' # fin /\ Started /\ ~OnChain(cursor.live)
               \/ forks' # forks /\ "rewound" \in met
  /\ UNCHANGED <<loopVars, archVars, tick, dropped, origin>>

SrcStep ==
  /\ tick.pc = "none" /\ SourceStep
  /\ origin' = IF Polled THEN origin ELSE row'.finalized[1]
  /\ UNCHANGED <<loopVars, archVars, tick, missed, dropped>>

\* The types of the fields.
LEMMA LoopFields ==
  ASSUME LoopType
  PROVE  /\ cursor.live \in Block /\ cursor.finalized \in Block /\ cursor.sequence \in Nat
         /\ cursor.state \subseteq Block /\ cursor.live[1] \in Nat
         /\ tick.batch \in BatchType /\ tick.batch.logs \subseteq Block
         /\ tick.displaced \subseteq Block /\ tick.recovered \subseteq Entry
         /\ tick.base \subseteq Block /\ tick.prior \in Nat /\ tick.priors \subseteq Block
         /\ tick.fresh \subseteq Block /\ tick.emitted \subseteq Entry
         /\ tick.rebuild \in BOOLEAN /\ tick.seeded \in BOOLEAN /\ tick.failed \in BOOLEAN
         /\ tick.batch.cursor \in Block /\ tick.batch.finalized \in Block
<1>1. /\ cursor.live \in Block /\ cursor.finalized \in Block /\ cursor.sequence \in Nat
      /\ cursor.state \subseteq Block
  BY DEF LoopType, CursorType
<1>2. cursor.live[1] \in Nat
  BY <1>1 DEF Block
<1>3. /\ tick.batch \in BatchType /\ tick.displaced \subseteq Block
      /\ tick.recovered \subseteq Entry
      /\ tick.base \subseteq Block /\ tick.prior \in Nat /\ tick.priors \subseteq Block
      /\ tick.fresh \subseteq Block /\ tick.emitted \subseteq Entry
      /\ tick.rebuild \in BOOLEAN /\ tick.seeded \in BOOLEAN /\ tick.failed \in BOOLEAN
  BY DEF LoopType, TickType
<1>4. /\ tick.batch.logs \subseteq Block /\ tick.batch.cursor \in Block
      /\ tick.batch.finalized \in Block
  BY <1>3 DEF BatchType
<1> QED BY <1>1, <1>2, <1>3, <1>4

\* The batch that is pending.
LEMMA BatchFields ==
  ASSUME PollInv
  PROVE  /\ batch.logs \subseteq Block /\ batch.cursor \in Block /\ batch.finalized \in Block
         /\ batch.finalized[1] \in Nat /\ batch.displaced \subseteq Block
         /\ batch.reorg \in BOOLEAN
<1>1. /\ batch.logs \subseteq Block /\ batch.cursor \in Block /\ batch.finalized \in Block
      /\ batch.displaced \subseteq Block /\ batch.reorg \in BOOLEAN
  BY DEF PollInv, TypeOK, BatchType
<1> QED BY <1>1 DEF Block

\* No tick, no cursor.
LEMMA NoTickIs ==
  /\ NoTick \in TickType /\ NoTick.pc = "none" /\ NoTick.batch = NoBatch /\ NoTick.rebuild = FALSE
  /\ NoTick.displaced = {} /\ NoTick.recovered = {} /\ NoTick.base = {} /\ NoTick.prior = 0
  /\ NoTick.priors = {} /\ NoTick.fresh = {} /\ NoTick.emitted = {}
  /\ NoTick.seeded = FALSE /\ NoTick.failed = FALSE
  /\ NoCursor \in CursorType /\ NoCursor.live = NoBlock /\ NoCursor.sequence = 0
  /\ NoCursor.state = {} /\ NoTick.batch.logs = {}
<1>1. NoBatch \in BatchType /\ NoBatch.logs = {} /\ NoBlock \in Block
  BY EmptyTypes
<1> HIDE DEF NoBatch, NoBlock
<1> QED BY <1>1 DEF NoTick, TickType, NoCursor, CursorType

\* Entries of an archive.
LEMMA EntryFields ==
  /\ \A e \in Entry : e.seq \in Nat /\ e.act \in {"available", "withdrawn"} /\ e.block \in Block
  /\ \A S, act : S \subseteq Entry => Blocks(S, act) \subseteq Block
  /\ \A act : Blocks({}, act) = {}
  /\ \A S, T, act : Blocks(S \cup T, act) = Blocks(S, act) \cup Blocks(T, act)
  /\ \A S, T, act : S \subseteq T => Blocks(S, act) \subseteq Blocks(T, act)
BY DEF Entry, Blocks

\* The pages on disk hold entries.
LEMMA ArchiveType ==
  ASSUME LoopType
  PROVE  Archive \subseteq Entry /\ Recovered \subseteq Entry
<1>1. Archive \subseteq Entry
  BY DEF LoopType, Archive
<1> QED BY <1>1 DEF Recovered

-----------------------------------------------------------------------------
(* The steps of a tick, field by field *)

\* A step of the running tick that leaves the source and the cursor alone.
InTick ==
  /\ SourceKept /\ LoopKept /\ TickKept
  /\ met' = met /\ missed' = missed /\ dropped' = dropped /\ origin' = origin

\* What a fold retracts.
Retracts ==
  IF batch.reorg \/ Diverged
  THEN (active \cap (batch.displaced \cup orphans)) \ Blocks(Recovered, "withdrawn") ELSE {}

\* The batch is folded, with the logs that were kept of it.
LEMMA FoldIs ==
  ASSUME PollInv, LoopType, Fold
  PROVE  /\ UNCHANGED <<chain, abandoned, forks, fin, row, scanned, orphans, poll>>
         /\ UNCHANGED <<met, missed, origin>> /\ LoopKept /\ ArchKept
         /\ batch # NoBatch /\ batch' = NoBatch /\ tick.pc = "none"
         /\ ~batch.reorg /\ Started => cursor.live[1] <= Len(chain)
         /\ tick' \in TickType
         /\ tick'.batch.logs \subseteq batch.logs
         /\ tick'.batch.cursor = batch.cursor /\ tick'.batch.finalized = batch.finalized
         /\ dropped' = dropped \cup (batch.logs \ tick'.batch.logs)
         /\ tick'.pc = IF Retracts # {} THEN "correct"
                       ELSE IF Fresh(tick'.batch.logs) # {} THEN "publish" ELSE "write"
         /\ tick'.rebuild = (batch.reorg \/ Diverged)
         /\ tick'.displaced = batch.displaced \cup orphans
         /\ tick'.recovered = Recovered /\ tick'.base = BaseState
         /\ tick'.prior = Larger(head, cursor.sequence) /\ tick'.priors = Retracts
         /\ tick'.fresh = Fresh(tick'.batch.logs)
         /\ tick'.emitted = {} /\ ~tick'.seeded /\ ~tick'.failed
<1> DEFINE pc(S) == IF Retracts # {} THEN "correct" ELSE IF S # {} THEN "publish" ELSE "write"
           rebuild == batch.reorg \/ Diverged
           gone == batch.displaced \cup orphans
           prior == Larger(head, cursor.sequence)
<1>1. /\ UNCHANGED <<chain, abandoned, forks, fin, row, scanned, orphans, poll>>
      /\ UNCHANGED <<met, missed, origin>> /\ LoopKept /\ ArchKept
      /\ batch # NoBatch /\ batch' = NoBatch /\ tick.pc = "none"
      /\ ~batch.reorg /\ Started => cursor.live[1] <= Len(chain)
  <2>1. met' = met
    BY DEF Fold, Fault
  <2> QED BY <2>1 DEF Fold, chainVars, rowVars, loopVars, archVars, LoopKept, ArchKept
<1>2. PICK kept \in SUBSET batch.logs :
        /\ tick' = [NoTick EXCEPT
             !.pc = pc(Fresh(kept)), !.batch = [batch EXCEPT !.logs = kept],
             !.rebuild = rebuild, !.displaced = gone,
             !.recovered = Recovered, !.base = BaseState, !.prior = prior,
             !.priors = Retracts, !.fresh = Fresh(kept)]
        /\ dropped' = dropped \cup (batch.logs \ kept)
  BY DEF Fold, Retracts
<1> DEFINE handed == [batch EXCEPT !.logs = kept]
           new == Fresh(kept)
<1>3. /\ pc(new) \in {"none", "correct", "correctHead", "publish", "publishHead", "write"}
      /\ handed \in BatchType /\ rebuild \in BOOLEAN /\ gone \subseteq Block
      /\ Recovered \subseteq Entry /\ BaseState \subseteq Block /\ prior \in Nat
      /\ Retracts \subseteq Block /\ new \subseteq Block
      /\ handed.logs = kept /\ handed.cursor = batch.cursor
      /\ handed.finalized = batch.finalized
  <2>1. batch \in BatchType /\ orphans \subseteq Block /\ batch.displaced \subseteq Block
    BY BatchFields DEF PollInv, TypeOK
  <2>2. BaseState \subseteq Block /\ Retracts \subseteq Block
    BY LoopFields DEF LoopType, BaseState, Retracts
  <2>3. new \subseteq Block /\ kept \subseteq Block
    BY BatchFields DEF Fresh
  <2>4. prior \in Nat
    BY LoopFields DEF LoopType, Larger
  <2>5. /\ handed \in BatchType /\ handed.logs = kept /\ handed.cursor = batch.cursor
        /\ handed.finalized = batch.finalized
    BY <2>1, <2>3 DEF BatchType
  <2> HIDE DEF handed, new
  <2> QED BY <2>1, <2>2, <2>3, <2>4, <2>5, ArchiveType DEF Diverged
<1>4. /\ tick' = [NoTick EXCEPT
             !.pc = pc(new), !.batch = handed, !.rebuild = rebuild, !.displaced = gone,
             !.recovered = Recovered, !.base = BaseState, !.prior = prior,
             !.priors = Retracts, !.fresh = new]
  BY <1>2
<1> HIDE DEF pc, rebuild, gone, prior, handed, new
<1>5. /\ tick' \in TickType /\ tick'.pc = pc(new) /\ tick'.batch = handed
      /\ tick'.rebuild = rebuild
      /\ tick'.displaced = gone /\ tick'.recovered = Recovered /\ tick'.base = BaseState
      /\ tick'.prior = prior /\ tick'.priors = Retracts /\ tick'.fresh = new
      /\ tick'.emitted = NoTick.emitted /\ tick'.seeded = NoTick.seeded
      /\ tick'.failed = NoTick.failed
  <2>1. NoTick \in TickType
    BY NoTickIs
  <2> HIDE DEF NoTick
  <2> QED BY <1>3, <1>4, <2>1 DEF TickType
<1>6. /\ tick'.batch.logs = kept /\ tick'.batch.cursor = batch.cursor
      /\ tick'.batch.finalized = batch.finalized
  BY <1>3, <1>5
<1>7. /\ tick'.fresh = Fresh(tick'.batch.logs)
      /\ tick'.pc = IF Retracts # {} THEN "correct"
                    ELSE IF Fresh(tick'.batch.logs) # {} THEN "publish" ELSE "write"
  BY <1>5, <1>6 DEF new, pc
<1> QED BY <1>1, <1>2, <1>5, <1>6, <1>7, NoTickIs DEF rebuild, gone, prior

\* The cursor is above the chain: the batch is dropped.
LEMMA FoldThrowsIs ==
  ASSUME FoldThrows
  PROVE  /\ UNCHANGED <<chain, abandoned, forks, fin, row, scanned, orphans, poll>>
         /\ UNCHANGED <<tick, met, missed, dropped, origin>> /\ LoopKept /\ ArchKept
         /\ batch # NoBatch /\ batch' = NoBatch /\ tick.pc = "none"
         /\ ~batch.reorg /\ Started /\ cursor.live[1] > Len(chain)
BY DEF FoldThrows, chainVars, rowVars, loopVars, archVars, LoopKept, ArchKept

\* The entries that are written.
LEMMA EntriesType ==
  ASSUME NEW S \in SUBSET Block, NEW act \in {"available", "withdrawn"}, NEW n \in Nat,
         IsFiniteSet(S)
  PROVE  /\ Entries(S, act, n) \subseteq Entry
         /\ Blocks(Entries(S, act, n), act) = S
         /\ \A other : other # act => Blocks(Entries(S, act, n), other) = {}
<1>1. ASSUME NEW b \in S PROVE n + 1 + Cardinality({a \in S : Before(a, b)}) \in Nat
  <2>1. IsFiniteSet({a \in S : Before(a, b)})
    BY FS_Subset
  <2> QED BY <2>1, FS_CardinalityType
<1>2. ASSUME NEW e \in Entries(S, act, n)
      PROVE  \E b \in S : \E k \in Nat : e = [seq |-> k, act |-> act, block |-> b]
  <2>1. PICK b \in S :
          e = [seq |-> n + 1 + Cardinality({a \in S : Before(a, b)}), act |-> act, block |-> b]
    BY DEF Entries
  <2>2. PICK k \in Nat : k = n + 1 + Cardinality({a \in S : Before(a, b)})
    BY <1>1
  <2> QED BY <2>1, <2>2
<1>3. ASSUME NEW e \in Entries(S, act, n)
      PROVE  e \in Entry /\ e.act = act /\ e.block \in S
  <2>1. PICK b \in S, k \in Nat : e = [seq |-> k, act |-> act, block |-> b]
    BY <1>2
  <2> QED BY <2>1 DEF Entry
<1>4. ASSUME NEW b \in S PROVE \E e \in Entries(S, act, n) : e.block = b
  <2> DEFINE e == [seq |-> n + 1 + Cardinality({a \in S : Before(a, b)}), act |-> act, block |-> b]
  <2>1. e \in Entries(S, act, n)
    BY DEF Entries
  <2>2. e.block = b
    OBVIOUS
  <2> QED BY <2>1, <2>2
<1> QED BY <1>3, <1>4 DEF Blocks

\* The page of withdrawals.
LEMMA CorrectPageIs ==
  ASSUME PollInv, LoopType, IsFiniteSet(tick.priors), CorrectPage
  PROVE  LET new == Entries(tick.priors, "withdrawn", tick.prior) IN
         /\ InTick /\ head' = head /\ everPublished' = everPublished /\ tick.pc = "correct"
         /\ WritePage(new) /\ new \subseteq Entry
         /\ tick'.pc = "correctHead" /\ tick'.emitted = new
         /\ tick'.prior = tick.prior /\ tick'.seeded = tick.seeded /\ tick'.failed = tick.failed
<1> DEFINE new == Entries(tick.priors, "withdrawn", tick.prior)
<1>1. /\ SourceKept /\ LoopKept /\ UNCHANGED <<met, missed, dropped, origin>>
      /\ head' = head /\ everPublished' = everPublished /\ tick.pc = "correct"
      /\ WritePage(new) /\ tick' = [tick EXCEPT !.pc = "correctHead", !.emitted = new]
  BY DEF CorrectPage, SourceKept, LoopKept, logVars, loopVars, chainVars, rowVars
<1>2. new \subseteq Entry /\ tick \in TickType
  BY LoopFields, EntriesType DEF LoopType
<1> HIDE DEF new
<1>3. /\ TickKept /\ tick'.pc = "correctHead" /\ tick'.emitted = new
      /\ tick'.prior = tick.prior /\ tick'.seeded = tick.seeded /\ tick'.failed = tick.failed
  BY <1>1, <1>2 DEF TickKept, TickType
<1> QED BY <1>1, <1>2, <1>3 DEF InTick, new

\* The head of the withdrawals.
LEMMA CorrectHeadIs ==
  ASSUME PollInv, LoopType, IsFiniteSet(tick.priors), CorrectHead
  PROVE  /\ InTick /\ pages' = pages /\ pageCount' = pageCount /\ tick.pc = "correctHead"
         /\ everPublished' = everPublished
         /\ head' = tick.prior + Cardinality(tick.priors) /\ head' \in Nat
         /\ tick'.prior = head'
         /\ tick'.pc = IF tick.fresh # {} THEN "publish" ELSE "write"
         /\ tick'.emitted = tick.emitted
         /\ tick'.seeded = tick.seeded /\ tick'.failed = tick.failed
<1> DEFINE pc == IF tick.fresh # {} THEN "publish" ELSE "write"
<1>1. /\ SourceKept /\ LoopKept /\ UNCHANGED <<met, missed, dropped, origin>>
      /\ pages' = pages /\ pageCount' = pageCount /\ tick.pc = "correctHead"
      /\ everPublished' = everPublished
      /\ head' = tick.prior + Cardinality(tick.priors)
      /\ tick' = [tick EXCEPT !.prior = head', !.pc = pc]
  BY DEF CorrectHead, SourceKept, LoopKept, logVars, loopVars, chainVars, rowVars
<1>2. head' \in Nat /\ tick \in TickType /\ pc \in {"publish", "write"}
  BY <1>1, LoopFields, FS_CardinalityType DEF LoopType
<1> HIDE DEF pc
<1>3. /\ TickKept /\ tick'.pc = pc /\ tick'.emitted = tick.emitted
      /\ tick'.prior = head' /\ tick'.seeded = tick.seeded /\ tick'.failed = tick.failed
  <2>1. PICK n \in Nat : n = head'
    BY <1>2
  <2> QED BY <1>1, <1>2, <2>1 DEF TickKept, TickType
<1> QED BY <1>1, <1>2, <1>3 DEF InTick, pc

\* The page of availabilities.
LEMMA PublishPageIs ==
  ASSUME PollInv, LoopType, IsFiniteSet(tick.fresh), PublishPage
  PROVE  LET new == Entries(tick.fresh, "available", tick.prior) IN
         /\ InTick /\ head' = head /\ tick.pc = "publish"
         /\ everPublished' = everPublished \cup {<<b, Times(b)>> : b \in tick.fresh}
         /\ WritePage(new) /\ new \subseteq Entry
         /\ tick'.pc = "publishHead" /\ tick'.emitted = tick.emitted \cup new
         /\ tick'.seeded = (cursor.sequence = 0)
         /\ tick'.prior = tick.prior /\ tick'.failed = tick.failed
<1> DEFINE new == Entries(tick.fresh, "available", tick.prior)
           seeded == cursor.sequence = 0
<1>1. /\ SourceKept /\ LoopKept /\ UNCHANGED <<met, missed, dropped, origin>>
      /\ head' = head /\ tick.pc = "publish" /\ WritePage(new)
      /\ everPublished' = everPublished \cup {<<b, Times(b)>> : b \in tick.fresh}
      /\ tick' = [tick EXCEPT !.pc = "publishHead", !.emitted = tick.emitted \cup new,
                              !.seeded = seeded]
  BY DEF PublishPage, SourceKept, LoopKept, logVars, loopVars, chainVars, rowVars
<1>2. /\ new \subseteq Entry /\ tick \in TickType /\ tick.emitted \subseteq Entry
      /\ seeded \in BOOLEAN
  BY LoopFields, EntriesType DEF LoopType
<1> HIDE DEF new, seeded
<1>3. /\ TickKept /\ tick'.pc = "publishHead" /\ tick'.emitted = tick.emitted \cup new
      /\ tick'.prior = tick.prior /\ tick'.seeded = seeded /\ tick'.failed = tick.failed
  BY <1>1, <1>2 DEF TickKept, TickType
<1> QED BY <1>1, <1>2, <1>3 DEF InTick, new, seeded

\* The head of the availabilities.
LEMMA PublishHeadIs ==
  ASSUME PollInv, LoopType, IsFiniteSet(tick.fresh), PublishHead
  PROVE  /\ InTick /\ pages' = pages /\ pageCount' = pageCount /\ tick.pc = "publishHead"
         /\ everPublished' = everPublished
         /\ head' = tick.prior + Cardinality(tick.fresh) /\ head' \in Nat
         /\ tick'.prior = head' /\ tick'.pc = "write" /\ tick'.emitted = tick.emitted
         /\ tick'.seeded = tick.seeded /\ tick'.failed = tick.failed
<1>1. /\ SourceKept /\ LoopKept /\ UNCHANGED <<met, missed, dropped, origin>>
      /\ pages' = pages /\ pageCount' = pageCount /\ tick.pc = "publishHead"
      /\ everPublished' = everPublished
      /\ head' = tick.prior + Cardinality(tick.fresh)
      /\ tick' = [tick EXCEPT !.pc = "write", !.prior = head']
  BY DEF PublishHead, SourceKept, LoopKept, logVars, loopVars, chainVars, rowVars
<1>2. head' \in Nat /\ tick \in TickType
  BY <1>1, LoopFields, FS_CardinalityType DEF LoopType
<1>3. /\ TickKept /\ tick'.pc = "write" /\ tick'.emitted = tick.emitted
      /\ tick'.prior = head' /\ tick'.seeded = tick.seeded /\ tick'.failed = tick.failed
  <2>1. PICK n \in Nat : n = head'
    BY <1>2
  <2> QED BY <1>1, <1>2, <2>1 DEF TickKept, TickType
<1> QED BY <1>1, <1>2, <1>3 DEF InTick

\* The publication fails.
LEMMA PublishFailsIs ==
  ASSUME LoopType, PublishFails
  PROVE  /\ InTick /\ ArchKept /\ tick.pc = "publish"
         /\ tick'.pc = "write" /\ tick'.emitted = tick.emitted /\ tick'.prior = tick.prior
         /\ tick'.seeded = tick.seeded /\ tick'.failed
<1>1. /\ SourceKept /\ LoopKept /\ ArchKept /\ UNCHANGED <<met, missed, dropped, origin>>
      /\ tick.pc = "publish"
      /\ tick' = [tick EXCEPT !.pc = "write", !.failed = TRUE]
  BY DEF PublishFails, Fault, SourceKept, LoopKept, ArchKept, chainVars, rowVars, loopVars, archVars
<1>2. tick \in TickType
  BY DEF LoopType
<1>3. /\ TickKept /\ tick'.pc = "write" /\ tick'.emitted = tick.emitted
      /\ tick'.prior = tick.prior /\ tick'.seeded = tick.seeded /\ tick'.failed = TRUE
  BY <1>1, <1>2 DEF TickKept, TickType
<1> QED BY <1>1, <1>3 DEF InTick

\* The page counter stays a number when its write is lost.
LEMMA CountersType ==
  ASSUME LoopType
  PROVE  Counters \subseteq Nat
BY DEF LoopType, Counters

\* The head is not written after the page.
LEMMA HeadFailsIs ==
  ASSUME LoopType, HeadFails
  PROVE  /\ SourceKept /\ LoopKept /\ TickKept
         /\ UNCHANGED <<pages, head, everPublished, missed, dropped, origin>>
         /\ pageCount' \in Nat /\ met' = met \cup {"halfway"} /\ tick.pc = "publishHead"
         /\ tick'.pc = "write" /\ tick'.emitted = tick.emitted /\ tick'.prior = tick.prior
         /\ ~tick'.seeded /\ tick'.failed
<1>1. /\ SourceKept /\ LoopKept
      /\ UNCHANGED <<pages, head, everPublished, missed, dropped, origin>>
      /\ pageCount' \in Counters /\ met' = met \cup {"halfway"} /\ tick.pc = "publishHead"
      /\ tick' = [tick EXCEPT !.pc = "write", !.failed = TRUE, !.seeded = FALSE]
  BY DEF HeadFails, Fault, SourceKept, LoopKept, chainVars, rowVars, loopVars
<1>2. tick \in TickType
  BY DEF LoopType
<1>3. /\ TickKept /\ tick'.pc = "write" /\ tick'.emitted = tick.emitted
      /\ tick'.prior = tick.prior /\ tick'.seeded = FALSE /\ tick'.failed = TRUE
  BY <1>1, <1>2 DEF TickKept, TickType
<1> QED BY <1>1, <1>3, CountersType

\* The tick dies.
LEMMA TickDiesIs ==
  ASSUME LoopType, TickDies
  PROVE  /\ UNCHANGED <<chain, abandoned, forks, fin, row, scanned, orphans, poll>>
         /\ UNCHANGED <<missed, dropped, origin, pages, head, everPublished>> /\ LoopKept
         /\ pageCount' \in Nat
         /\ batch' = NoBatch /\ tick' = NoTick
         /\ met \subseteq met' /\ "lost" \in met'
         /\ Announced => "unjournalled" \in met'
         /\ \A m \in met' : m \in met \/ m \in {"lost", "unjournalled"}
BY CountersType DEF TickDies, Fault, LoopKept, chainVars, rowVars, loopVars

\* The transaction that ends a tick.
Outs   == IF tick.rebuild THEN tick.displaced ELSE {}
Events == tick.batch.logs \ tick.base
Entered == tick.recovered \cup {e \in tick.emitted : tick.failed => e.act = "withdrawn"}

\* Cursor, state and journals after the transaction.
LEMMA WriteIs ==
  ASSUME PollInv, LoopType, Write
  PROVE  /\ SourceKept /\ UNCHANGED <<met, missed, dropped, origin, pages, head, everPublished>>
         /\ tick.pc = "write" /\ tick' = NoTick
         /\ cursor' \in CursorType
         /\ cursor'.live = tick.batch.cursor /\ cursor'.finalized = tick.batch.finalized
         /\ cursor'.sequence = IF tick.failed /\ tick.priors = {} THEN cursor.sequence
                               ELSE tick.prior
         /\ cursor'.state = tick.base \cup Events
         /\ orphaned' = orphaned \cup (journal \cap Outs)
         /\ journal' = (journal \ Outs) \cup (Events \ orphaned')
         /\ retracted' = retracted \cup Blocks(Entered, "withdrawn")
         /\ active' = StillActive(Entered)
         /\ pageCount' = IF tick.seeded THEN pageCount + 1 ELSE pageCount
<1> DEFINE seq == IF tick.failed /\ tick.priors = {} THEN cursor.sequence ELSE tick.prior
           state == tick.base \cup Events
<1>1. /\ SourceKept /\ UNCHANGED <<met, missed, dropped, origin, pages, head, everPublished>>
      /\ tick.pc = "write" /\ tick' = NoTick
      /\ orphaned' = orphaned \cup (journal \cap Outs)
      /\ journal' = (journal \ Outs) \cup (Events \ orphaned')
      /\ retracted' = retracted \cup Blocks(Entered, "withdrawn")
      /\ active' = StillActive(Entered)
      /\ pageCount' = IF tick.seeded THEN pageCount + 1 ELSE pageCount
      /\ cursor' = [live |-> tick.batch.cursor, finalized |-> tick.batch.finalized,
                    sequence |-> seq, state |-> state]
  BY DEF Write, Outs, Events, Entered, SourceKept, logVars, chainVars, rowVars
<1>2. /\ seq \in Nat /\ state \subseteq Block /\ tick.batch.cursor \in Block
      /\ tick.batch.finalized \in Block
  BY LoopFields DEF Events
<1> HIDE DEF seq, state
<1>3. /\ cursor' \in CursorType /\ cursor'.live = tick.batch.cursor
      /\ cursor'.finalized = tick.batch.finalized
      /\ cursor'.sequence = seq /\ cursor'.state = state
  BY <1>1, <1>2 DEF CursorType
<1> QED BY <1>1, <1>3 DEF seq, state

\* The operator rewinds the marks.
LEMMA RewindIs ==
  ASSUME PollInv, LoopType, Rewind
  PROVE  /\ UNCHANGED <<chain, abandoned, forks, fin, scanned, orphans, poll, batch, tick>>
         /\ LoopKept /\ ArchKept /\ dropped' = dropped /\ origin' = origin
         /\ poll.pc = "idle" /\ batch = NoBatch /\ tick.pc = "none" /\ Polled
         /\ met' = met \cup {"rewound"}
         /\ missed' = (missed \/ ~On(chain, row.live))
         /\ \E h \in origin..(row.finalized[1] - 1) : row' = [live |-> At(h), finalized |-> At(h)]
<1>1. OnChain(row.live) <=> On(chain, row.live)
  BY FieldTypes, OnChainIs DEF PollInv
<1> QED BY <1>1 DEF Rewind, Fault, LoopKept, ArchKept, chainVars, loopVars, archVars

-----------------------------------------------------------------------------
(* Numbering the entries of a page *)

\* The blocks of a page are in a strict total order.
LEMMA BeforeIs ==
  /\ \A a, b \in Block : a # b => Before(a, b) \/ Before(b, a)
  /\ \A a \in Block : ~Before(a, a)
  /\ \A a, b, c \in Block : Before(a, b) /\ Before(b, c) => Before(a, c)
<1>1. ASSUME NEW a \in Block, NEW b \in Block, a # b PROVE Before(a, b) \/ Before(b, a)
  BY <1>1 DEF Before, Block
<1>2. ASSUME NEW a \in Block PROVE ~Before(a, a)
  BY DEF Before, Block
<1>3. ASSUME NEW a \in Block, NEW b \in Block, NEW c \in Block, Before(a, b), Before(b, c)
      PROVE  Before(a, c)
  BY <1>3 DEF Before, Block
<1> QED BY <1>1, <1>2, <1>3

\* The ranks in a set of k blocks are 0 .. k-1, each once.
Rank(S) == [b \in S |-> Cardinality({a \in S : Before(a, b)})]

\* The ranks of the blocks of a page are 0 .. n - 1, each used once.
LEMMA RankIs ==
  ASSUME NEW S \in SUBSET Block, IsFiniteSet(S)
  PROVE  /\ Cardinality(S) \in Nat
         /\ Rank(S) \in [S -> 0..(Cardinality(S) - 1)]
         /\ \A b, c \in S : Rank(S)[b] = Rank(S)[c] => b = c
         /\ \A i \in 0..(Cardinality(S) - 1) : \E b \in S : Rank(S)[b] = i
<1> DEFINE low(b) == {a \in S : Before(a, b)}
           k == Cardinality(S)
<1>1. k \in Nat
  BY FS_CardinalityType
<1>2. ASSUME NEW b \in S
      PROVE  /\ IsFiniteSet(low(b)) /\ Cardinality(low(b)) \in Nat
             /\ Cardinality(low(b)) < k
  <2>1. low(b) \in SUBSET S /\ b \notin low(b)
    BY BeforeIs
  <2>2. IsFiniteSet(low(b)) /\ Cardinality(low(b)) <= k /\ Cardinality(low(b)) # k
    <3> HIDE DEF low
    <3> QED BY <2>1, FS_Subset
  <2>3. Cardinality(low(b)) \in Nat
    BY <2>2, FS_CardinalityType
  <2> QED BY <1>1, <2>2, <2>3
<1>3. ASSUME NEW b \in S, NEW c \in S, Before(b, c)
      PROVE  Cardinality(low(b)) < Cardinality(low(c))
  <2>1. b \in low(c) /\ b \notin low(b)
    BY <1>3, BeforeIs
  <2>2. low(b) \in SUBSET low(c)
    BY <1>3, BeforeIs
  <2>3. /\ IsFiniteSet(low(c)) /\ Cardinality(low(b)) \in Nat /\ Cardinality(low(c)) \in Nat
    BY <1>2
  <2>4. Cardinality(low(b)) <= Cardinality(low(c)) /\ Cardinality(low(c)) # Cardinality(low(b))
    <3> HIDE DEF low
    <3> QED BY <2>1, <2>2, <2>3, FS_Subset
  <2> QED BY <2>3, <2>4
<1>4. \A b \in S : Rank(S)[b] = Cardinality(low(b))
  BY DEF Rank
<1> HIDE DEF low
<1>5. Rank(S) \in [S -> 0..(k - 1)]
  <2>1. \A b \in S : Rank(S)[b] \in 0..(k - 1)
    BY <1>1, <1>2, <1>4
  <2> QED BY <2>1 DEF Rank
<1>6. ASSUME NEW b \in S, NEW c \in S, Rank(S)[b] = Rank(S)[c] PROVE b = c
  <2>1. Cardinality(low(b)) = Cardinality(low(c)) /\ Cardinality(low(b)) \in Nat
    BY <1>2, <1>4, <1>6
  <2>2. ~Before(b, c) /\ ~Before(c, b)
    BY <1>3, <2>1
  <2> QED BY <2>2, BeforeIs
<1>7. Rank(S) \in Surjection(S, 0..(k - 1))
  <2>1. Rank(S) \in Injection(S, 0..(k - 1))
    BY <1>5, <1>6 DEF Injection, IsInjective
  <2>2. IsFiniteSet(0..(k - 1)) /\ Cardinality(0..(k - 1)) = k
    <3>1. PICK j \in Int : j = k - 1
      BY <1>1
    <3>2. IsFiniteSet(0..j) /\ Cardinality(0..j) = IF 0 > j THEN 0 ELSE j - 0 + 1
      BY FS_Interval
    <3> QED BY <1>1, <3>1, <3>2
  <2> HIDE DEF k
  <2>3. PICK T : T = 0..(k - 1)
    OBVIOUS
  <2>4. Rank(S) \in Injection(S, T) /\ IsFiniteSet(T) /\ Cardinality(S) = Cardinality(T)
    BY <2>1, <2>2, <2>3 DEF k
  <2>5. Rank(S) \in Surjection(S, T)
    BY <2>4, FS_Injection
  <2> QED BY <2>3, <2>5
<1>8. \A i \in 0..(k - 1) : \E b \in S : Rank(S)[b] = i
  BY <1>7 DEF Surjection
<1> QED BY <1>1, <1>5, <1>6, <1>8

\* A page has one entry per block, numbered without a gap after n.
LEMMA EntriesNumbered ==
  ASSUME NEW S \in SUBSET Block, IsFiniteSet(S), NEW act, NEW n \in Nat
  PROVE  /\ IsFiniteSet(Entries(S, act, n)) /\ Cardinality(Entries(S, act, n)) = Cardinality(S)
         /\ Cardinality(S) \in Nat
         /\ {e.seq : e \in Entries(S, act, n)} = (n + 1)..(n + Cardinality(S))
<1> DEFINE k == Cardinality(S)
           E == Entries(S, act, n)
           f == [b \in S |-> [seq |-> n + 1 + Rank(S)[b], act |-> act, block |-> b]]
<1>1. /\ k \in Nat /\ Rank(S) \in [S -> 0..(k - 1)]
      /\ \A i \in 0..(k - 1) : \E b \in S : Rank(S)[b] = i
  BY RankIs
<1>2. E = {f[b] : b \in S}
  BY DEF Entries, Rank
<1>3. \A b \in S : f[b].block = b /\ f[b].seq = n + 1 + Rank(S)[b]
  OBVIOUS
<1>4. f \in [S -> E] /\ DOMAIN f = S
  BY <1>2
<1> HIDE DEF f, E
<1>5. f \in Surjection(S, E) /\ f \in Injection(S, E)
  BY <1>2, <1>3, <1>4 DEF Surjection, Injection, IsInjective
<1>6. IsFiniteSet(E) /\ Cardinality(E) = k
  BY <1>5, FS_Surjection
<1>7. ASSUME NEW e \in E PROVE e.seq \in (n + 1)..(n + k)
  <2>1. PICK b \in S : e = f[b]
    BY <1>2
  <2>2. Rank(S)[b] \in 0..(k - 1)
    BY <1>1
  <2> HIDE DEF k
  <2> QED BY <1>1, <1>3, <2>1, <2>2
<1>8. ASSUME NEW i \in (n + 1)..(n + k) PROVE \E e \in E : e.seq = i
  <2>1. i - (n + 1) \in 0..(k - 1)
    BY <1>1
  <2>2. PICK b \in S : Rank(S)[b] = i - (n + 1)
    BY <1>1, <2>1
  <2>3. f[b] \in E /\ f[b].seq = n + 1 + (i - (n + 1))
    BY <1>2, <1>3, <2>2
  <2>4. n + 1 + (i - (n + 1)) = i
    BY <1>1
  <2> QED BY <2>3, <2>4
<1> QED BY <1>1, <1>6, <1>7, <1>8 DEF E

\* Finite sets of entries name finitely many blocks.
LEMMA BlocksFinite ==
  ASSUME NEW S, IsFiniteSet(S), NEW act
  PROVE  IsFiniteSet(Blocks(S, act))
<1> DEFINE T == {x \in S : x.act = act}
           f == [x \in T |-> x.block]
<1>1. T \in SUBSET S
  OBVIOUS
<1>2. IsFiniteSet(T)
  <2> HIDE DEF T
  <2> QED BY <1>1, FS_Subset
<1>3. f \in Surjection(T, Blocks(S, act))
  BY DEF Surjection, Blocks
<1> HIDE DEF f, T
<1> QED BY <1>2, <1>3, FS_Surjection

\* A run of blocks is finite.
LEMMA RangedFinite ==
  ASSUME NEW lo \in Int, NEW hi \in Int
  PROVE  IsFiniteSet({At(h) : h \in lo..hi})
<1> DEFINE I == lo..hi
           f == [h \in I |-> At(h)]
           R == {At(h) : h \in I}
<1>1. IsFiniteSet(I)
  BY FS_Interval
<1>2. f \in Surjection(I, R)
  <2> HIDE DEF I
  <2> QED BY DEF Surjection
<1> HIDE DEF f, I, R
<1>3. IsFiniteSet(R)
  BY <1>1, <1>2, FS_Surjection
<1> QED BY <1>3 DEF R, I

-----------------------------------------------------------------------------
(* The invariant of the tick's own variables *)

\* The fields of a running tick, whatever died before it.
TickOK ==
  /\ tick.pc \in {"correct", "correctHead"} => tick.priors # {}
  /\ tick.pc \in {"publish", "publishHead"} => tick.fresh # {}
  /\ tick.priors \subseteq active
  /\ tick.pc \in {"none", "correct"} => tick.emitted = {}
  /\ tick.pc \in {"correct", "correctHead", "publish"} => Blocks(tick.emitted, "available") = {}
  /\ Blocks(tick.emitted, "available") \subseteq tick.fresh
  /\ tick.fresh \subseteq (tick.batch.logs \ tick.base) \ journal
  /\ tick.pc \notin {"none", "correct"} => Blocks(tick.emitted, "withdrawn") = tick.priors
  /\ tick.pc \notin {"publishHead", "write"} => ~tick.seeded
  /\ tick.pc = "none" => tick = NoTick
  /\ tick.pc # "none" => /\ poll.pc = "idle" /\ batch = NoBatch /\ Polled
                         /\ tick.batch.cursor = row.live /\ tick.batch.finalized = row.finalized
                         /\ tick.displaced = orphans

\* Where the projection starts, and what there is before the first poll and
\* before the first write.
OriginOK ==
  /\ Polled => 1 <= origin /\ origin <= row.finalized[1]
  /\ ~Polled => origin = 0 /\ ~Started /\ tick.pc = "none" /\ everPublished = {}
  /\ ~Started => journal = {} /\ cursor.state = {}
  /\ batch.displaced \subseteq orphans /\ orphaned \subseteq orphans

\* Everything that is counted is finite.
Paged == UNION {pages[p] : p \in DOMAIN pages}

FiniteOK ==
  /\ IsFiniteSet(poll.logs) /\ IsFiniteSet(batch.logs) /\ IsFiniteSet(tick.batch.logs)
  /\ IsFiniteSet(active) /\ IsFiniteSet(tick.recovered) /\ IsFiniteSet(tick.emitted)
  /\ IsFiniteSet(Paged)

BaseInv == PollInv /\ LoopType /\ TickOK /\ OriginOK /\ FiniteOK

\* No tick is running.
LEMMA TickNone == (tick = NoTick => TickOK) /\ (tick' = NoTick => TickOK')
<1>1. Blocks({}, "available") = {} /\ Blocks({}, "withdrawn") = {}
  BY EntryFields
<1> QED BY <1>1, NoTickIs DEF TickOK

\* What a running tick may announce and retract is finite.
LEMMA TickFinite ==
  ASSUME BaseInv
  PROVE  /\ IsFiniteSet(tick.priors) /\ IsFiniteSet(tick.fresh)
         /\ Cardinality(tick.priors) \in Nat /\ Cardinality(tick.fresh) \in Nat
         /\ tick.priors \subseteq Block /\ tick.fresh \subseteq Block /\ tick.prior \in Nat
<1>1. /\ tick.priors \in SUBSET active /\ tick.fresh \in SUBSET tick.batch.logs
      /\ IsFiniteSet(active) /\ IsFiniteSet(tick.batch.logs)
  BY DEF BaseInv, TickOK, FiniteOK
<1>2. IsFiniteSet(tick.priors) /\ IsFiniteSet(tick.fresh)
  BY <1>1, FS_Subset
<1> QED BY <1>2, FS_CardinalityType, LoopFields DEF BaseInv

\* A step within a tick keeps the source and where the projection starts.
LEMMA InTickBase ==
  ASSUME BaseInv, SourceKept, LoopKept, TickKept, origin' = origin, tick.pc # "none",
         tick'.pc # "none"
  PROVE  /\ PollInv' /\ OriginOK' /\ Polled /\ Polled'
         /\ IsFiniteSet(poll'.logs) /\ IsFiniteSet(batch'.logs)
         /\ IsFiniteSet(tick'.batch.logs)
         /\ IsFiniteSet(active') /\ IsFiniteSet(tick'.recovered)
<1>1. Polled /\ Polled' = Polled /\ batch = NoBatch
  BY DEF BaseInv, TickOK, SourceKept, Polled
<1>2. PollInv'
  BY <1>1, PollTaken DEF BaseInv, SourceKept
<1>3. OriginOK'
  BY <1>1 DEF BaseInv, OriginOK, SourceKept, LoopKept, Started
<1> QED BY <1>1, <1>2, <1>3 DEF BaseInv, FiniteOK, SourceKept, LoopKept, TickKept

\* The pages after one is written.
LEMMA WritePageIs ==
  ASSUME LoopType, NEW new \in SUBSET Entry, WritePage(new)
  PROVE  /\ pages' \in [DOMAIN pages' -> SUBSET Entry] /\ pageCount' \in Nat
         /\ Paged' \subseteq Paged \cup new
<1> DEFINE page == IF tick.prior = 0 THEN 1 ELSE pageCount + 1
<1>1. /\ pages' = [p \in DOMAIN pages \cup {page} |-> IF p = page THEN new ELSE pages[p]]
      /\ pageCount' = IF tick.prior = 0 THEN pageCount ELSE pageCount + 1
  BY DEF WritePage
<1>2. pages \in [DOMAIN pages -> SUBSET Entry] /\ pageCount \in Nat
  BY DEF LoopType
<1> HIDE DEF page
<1>3. /\ DOMAIN pages' = DOMAIN pages \cup {page}
      /\ \A p \in DOMAIN pages' : pages'[p] = IF p = page THEN new ELSE pages[p]
  BY <1>1
<1>4. pages' \in [DOMAIN pages' -> SUBSET Entry]
  BY <1>1, <1>2, <1>3
<1>5. Paged' \subseteq Paged \cup new
  BY <1>3 DEF Paged
<1> QED BY <1>1, <1>2, <1>4, <1>5

\* The page of withdrawals keeps the types.
LEMMA BaseCorrectPage ==
  ASSUME BaseInv, CorrectPage
  PROVE  BaseInv'
<1> DEFINE new == Entries(tick.priors, "withdrawn", tick.prior)
<1>1. /\ InTick /\ head' = head /\ everPublished' = everPublished /\ tick.pc = "correct"
      /\ WritePage(new) /\ new \subseteq Entry
      /\ tick'.pc = "correctHead" /\ tick'.emitted = new
      /\ tick'.prior = tick.prior /\ tick'.seeded = tick.seeded /\ tick'.failed = tick.failed
  BY TickFinite, CorrectPageIs DEF BaseInv
<1>2. /\ Blocks(new, "withdrawn") = tick.priors /\ Blocks(new, "available") = {}
      /\ IsFiniteSet(new)
  BY TickFinite, EntriesType, EntriesNumbered
<1> HIDE DEF new
<1>3. /\ PollInv' /\ OriginOK' /\ Polled'
      /\ IsFiniteSet(poll'.logs) /\ IsFiniteSet(batch'.logs) /\ IsFiniteSet(tick'.batch.logs)
      /\ IsFiniteSet(active') /\ IsFiniteSet(tick'.recovered)
  BY <1>1, InTickBase DEF InTick
<1>4. /\ pages' \in [DOMAIN pages' -> SUBSET Entry] /\ pageCount' \in Nat
      /\ Paged' \in SUBSET (Paged \cup new)
  BY <1>1, WritePageIs DEF BaseInv
<1>5. IsFiniteSet(Paged')
  <2>1. IsFiniteSet(Paged \cup new)
    BY <1>2, FS_Union DEF BaseInv, FiniteOK
  <2> QED BY <1>4, <2>1, FS_Subset
<1>6. LoopType'
  BY <1>1, <1>4 DEF BaseInv, LoopType, InTick, LoopKept, TickKept
<1>7. TickOK'
  <2>1. TickOK
    BY DEF BaseInv
  <2> QED BY <1>1, <1>2, <1>3, <2>1 DEF TickOK, InTick, TickKept, LoopKept, SourceKept
<1> QED BY <1>1, <1>2, <1>3, <1>5, <1>6, <1>7 DEF BaseInv, FiniteOK

\* So does their head.
LEMMA BaseCorrectHead ==
  ASSUME BaseInv, CorrectHead
  PROVE  BaseInv'
<1>1. /\ InTick /\ pages' = pages /\ pageCount' = pageCount /\ tick.pc = "correctHead"
      /\ everPublished' = everPublished /\ head' \in Nat
      /\ tick'.pc = IF tick.fresh # {} THEN "publish" ELSE "write"
      /\ tick'.emitted = tick.emitted /\ tick'.seeded = tick.seeded
  BY TickFinite, CorrectHeadIs DEF BaseInv
<1>2. /\ PollInv' /\ OriginOK' /\ Polled'
      /\ IsFiniteSet(poll'.logs) /\ IsFiniteSet(batch'.logs) /\ IsFiniteSet(tick'.batch.logs)
      /\ IsFiniteSet(active') /\ IsFiniteSet(tick'.recovered)
  BY <1>1, InTickBase DEF InTick
<1>3. LoopType'
  BY <1>1 DEF BaseInv, LoopType, InTick, LoopKept, TickKept
<1>4. TickOK'
  <2>1. TickOK
    BY DEF BaseInv
  <2> QED BY <1>1, <1>2, <2>1 DEF TickOK, InTick, TickKept, LoopKept, SourceKept
<1> QED BY <1>1, <1>2, <1>3, <1>4 DEF BaseInv, FiniteOK, Paged

\* The page of availabilities keeps the types.
LEMMA BasePublishPage ==
  ASSUME BaseInv, PublishPage
  PROVE  BaseInv'
<1> DEFINE new == Entries(tick.fresh, "available", tick.prior)
<1>1. /\ InTick /\ head' = head /\ tick.pc = "publish"
      /\ everPublished' = everPublished \cup {<<b, Times(b)>> : b \in tick.fresh}
      /\ WritePage(new) /\ new \subseteq Entry
      /\ tick'.pc = "publishHead" /\ tick'.emitted = tick.emitted \cup new
  BY TickFinite, PublishPageIs DEF BaseInv
<1>2. /\ Blocks(new, "available") = tick.fresh /\ Blocks(new, "withdrawn") = {}
      /\ IsFiniteSet(new)
  BY TickFinite, EntriesType, EntriesNumbered
<1> HIDE DEF new
<1>3. /\ PollInv' /\ OriginOK' /\ Polled'
      /\ IsFiniteSet(poll'.logs) /\ IsFiniteSet(batch'.logs) /\ IsFiniteSet(tick'.batch.logs)
      /\ IsFiniteSet(active') /\ IsFiniteSet(tick'.recovered)
  BY <1>1, InTickBase DEF InTick
<1>4. /\ pages' \in [DOMAIN pages' -> SUBSET Entry] /\ pageCount' \in Nat
      /\ Paged' \in SUBSET (Paged \cup new)
  BY <1>1, WritePageIs DEF BaseInv
<1>5. IsFiniteSet(Paged') /\ IsFiniteSet(tick'.emitted)
  <2>1. IsFiniteSet(Paged \cup new) /\ IsFiniteSet(tick.emitted \cup new)
    BY <1>2, FS_Union DEF BaseInv, FiniteOK
  <2> QED BY <1>1, <1>4, <2>1, FS_Subset
<1>6. LoopType'
  <2>1. everPublished' \subseteq Block \X Nat
    BY <1>1, TickFinite DEF BaseInv, LoopType, Times
  <2> QED BY <1>1, <1>4, <2>1 DEF BaseInv, LoopType, InTick, LoopKept, TickKept
<1>7. /\ Blocks(tick'.emitted, "available") = tick.fresh
      /\ Blocks(tick'.emitted, "withdrawn") = Blocks(tick.emitted, "withdrawn")
  <2>1. Blocks(tick.emitted, "available") = {}
    BY <1>1 DEF BaseInv, TickOK
  <2>2. ASSUME NEW act
        PROVE  Blocks(tick.emitted \cup new, act) = Blocks(tick.emitted, act) \cup Blocks(new, act)
    BY EntryFields
  <2> QED BY <1>1, <1>2, <2>1, <2>2
<1>8. TickOK'
  <2>1. TickOK
    BY DEF BaseInv
  <2> QED BY <1>1, <1>3, <1>7, <2>1 DEF TickOK, InTick, TickKept, LoopKept, SourceKept
<1> QED BY <1>1, <1>3, <1>5, <1>6, <1>8 DEF BaseInv, FiniteOK

\* So does their head.
LEMMA BasePublishHead ==
  ASSUME BaseInv, PublishHead
  PROVE  BaseInv'
<1>1. /\ InTick /\ pages' = pages /\ pageCount' = pageCount /\ tick.pc = "publishHead"
      /\ everPublished' = everPublished /\ head' \in Nat
      /\ tick'.pc = "write"
      /\ tick'.emitted = tick.emitted /\ tick'.seeded = tick.seeded
  BY TickFinite, PublishHeadIs DEF BaseInv
<1>2. /\ PollInv' /\ OriginOK' /\ Polled'
      /\ IsFiniteSet(poll'.logs) /\ IsFiniteSet(batch'.logs) /\ IsFiniteSet(tick'.batch.logs)
      /\ IsFiniteSet(active') /\ IsFiniteSet(tick'.recovered)
  BY <1>1, InTickBase DEF InTick
<1>3. LoopType'
  BY <1>1 DEF BaseInv, LoopType, InTick, LoopKept, TickKept
<1>4. TickOK'
  <2>1. TickOK
    BY DEF BaseInv
  <2> QED BY <1>1, <1>2, <2>1 DEF TickOK, InTick, TickKept, LoopKept, SourceKept
<1> QED BY <1>1, <1>2, <1>3, <1>4 DEF BaseInv, FiniteOK, Paged

\* And a publication that fails.
LEMMA BasePublishFails ==
  ASSUME BaseInv, PublishFails
  PROVE  BaseInv'
<1>1. /\ InTick /\ ArchKept /\ tick.pc = "publish" /\ tick'.pc = "write"
      /\ tick'.emitted = tick.emitted /\ tick'.seeded = tick.seeded
  BY PublishFailsIs DEF BaseInv
<1>2. /\ PollInv' /\ OriginOK' /\ Polled'
      /\ IsFiniteSet(poll'.logs) /\ IsFiniteSet(batch'.logs) /\ IsFiniteSet(tick'.batch.logs)
      /\ IsFiniteSet(active') /\ IsFiniteSet(tick'.recovered)
  BY <1>1, InTickBase DEF InTick
<1>3. LoopType'
  BY <1>1 DEF BaseInv, LoopType, InTick, LoopKept, TickKept, ArchKept
<1>4. TickOK'
  <2>1. TickOK
    BY DEF BaseInv
  <2> QED BY <1>1, <1>2, <2>1 DEF TickOK, InTick, TickKept, LoopKept, SourceKept
<1> QED BY <1>1, <1>2, <1>3, <1>4 DEF BaseInv, FiniteOK, Paged, ArchKept

\* And one whose head is not written.
LEMMA BaseHeadFails ==
  ASSUME BaseInv, HeadFails
  PROVE  BaseInv'
<1>1. /\ SourceKept /\ LoopKept /\ TickKept
      /\ UNCHANGED <<pages, head, everPublished, missed, dropped, origin>>
      /\ pageCount' \in Nat /\ tick.pc = "publishHead"
      /\ tick'.pc = "write" /\ tick'.emitted = tick.emitted /\ ~tick'.seeded
  BY HeadFailsIs DEF BaseInv
<1>2. /\ PollInv' /\ OriginOK' /\ Polled'
      /\ IsFiniteSet(poll'.logs) /\ IsFiniteSet(batch'.logs) /\ IsFiniteSet(tick'.batch.logs)
      /\ IsFiniteSet(active') /\ IsFiniteSet(tick'.recovered)
  BY <1>1, InTickBase
<1>3. LoopType'
  BY <1>1 DEF BaseInv, LoopType, LoopKept, TickKept
<1>4. TickOK'
  <2>1. TickOK
    BY DEF BaseInv
  <2> QED BY <1>1, <1>2, <2>1 DEF TickOK, TickKept, LoopKept, SourceKept
<1> QED BY <1>1, <1>2, <1>3, <1>4 DEF BaseInv, FiniteOK, Paged

\* The pages that are read back.
LEMMA ArchiveFinite ==
  ASSUME BaseInv
  PROVE  IsFiniteSet(Archive) /\ IsFiniteSet(Recovered)
<1>1. Archive \in SUBSET Paged /\ Recovered \in SUBSET Paged
  BY DEF Archive, Recovered, Paged
<1> QED BY <1>1, FS_Subset DEF BaseInv, FiniteOK

\* The batch is folded into a tick.
LEMMA BaseFold ==
  ASSUME BaseInv, Fold
  PROVE  BaseInv'
<1>1. /\ UNCHANGED <<chain, abandoned, forks, fin, row, scanned, orphans, poll>>
      /\ UNCHANGED <<met, missed, origin>> /\ LoopKept /\ ArchKept
      /\ batch # NoBatch /\ batch' = NoBatch /\ tick.pc = "none"
      /\ tick' \in TickType
      /\ tick'.pc = IF Retracts # {} THEN "correct"
                    ELSE IF Fresh(tick'.batch.logs) # {} THEN "publish" ELSE "write"
      /\ tick'.batch.logs \subseteq batch.logs
      /\ tick'.batch.cursor = batch.cursor /\ tick'.batch.finalized = batch.finalized
      /\ tick'.displaced = batch.displaced \cup orphans
      /\ tick'.recovered = Recovered /\ tick'.base = BaseState
      /\ tick'.priors = Retracts
      /\ tick'.fresh = Fresh(tick'.batch.logs) /\ tick'.emitted = {} /\ ~tick'.seeded
  BY FoldIs DEF BaseInv
<1>2. Polled /\ Polled' = Polled /\ batch.finalized = row.finalized /\ batch.cursor = row.live
      /\ poll.pc = "idle" /\ batch.displaced \subseteq orphans
  BY <1>1 DEF BaseInv, PollInv, RowOK, PollOK, OriginOK, Polled
<1>3. PollInv'
  BY <1>1, PollTaken DEF BaseInv
<1>4. LoopType'
  BY <1>1 DEF BaseInv, LoopType, LoopKept, ArchKept
<1>5. OriginOK'
  <2>1. NoBatch.displaced = {}
    BY DEF NoBatch
  <2>2. Started' = Started
    BY <1>1 DEF LoopKept, Started
  <2> QED BY <1>1, <1>2, <2>1, <2>2 DEF BaseInv, OriginOK, LoopKept
<1>6. FiniteOK'
  <2>1. NoBatch.logs = {} /\ IsFiniteSet({})
    BY EmptyTypes, FS_EmptySet
  <2>2. IsFiniteSet(tick'.batch.logs)
    BY <1>1, FS_Subset DEF BaseInv, FiniteOK
  <2> QED BY <1>1, <2>1, <2>2, ArchiveFinite DEF BaseInv, FiniteOK, LoopKept, ArchKept, Paged
<1>7. TickOK'
  <2>1. /\ Retracts \subseteq active
        /\ Fresh(tick'.batch.logs) \subseteq (tick'.batch.logs \ BaseState) \ journal
    BY DEF Retracts, Fresh
  <2>2. Blocks({}, "available") = {} /\ Blocks({}, "withdrawn") = {}
    BY EntryFields
  <2>3. tick'.displaced = orphans
    BY <1>1, <1>2
  <2>4. /\ tick'.pc \in {"correct", "publish", "write"}
        /\ tick'.pc = "correct" <=> Retracts # {}
        /\ tick'.pc = "publish" => Fresh(tick'.batch.logs) # {}
    BY <1>1
  <2> QED BY <1>1, <1>2, <2>1, <2>2, <2>3, <2>4 DEF TickOK, LoopKept
<1> QED BY <1>3, <1>4, <1>5, <1>6, <1>7 DEF BaseInv

\* The batch is dropped.
LEMMA BaseDropped ==
  ASSUME BaseInv, batch' = NoBatch, tick' = NoTick, LoopKept, pageCount' \in Nat,
         UNCHANGED <<chain, abandoned, forks, fin, row, scanned, orphans, poll>>,
         UNCHANGED <<missed, origin, pages, head, everPublished>>
  PROVE  BaseInv'
<1>1. PollInv'
  BY PollTaken DEF BaseInv
<1>2. LoopType'
  BY NoTickIs DEF BaseInv, LoopType, LoopKept
<1>3. OriginOK'
  <2>1. NoBatch.displaced = {}
    BY DEF NoBatch
  <2>2. Started' = Started /\ Polled' = Polled
    BY DEF LoopKept, Started, Polled
  <2> QED BY <2>1, <2>2, NoTickIs DEF BaseInv, OriginOK, LoopKept
<1>4. FiniteOK'
  BY EmptyTypes, NoTickIs, FS_EmptySet DEF BaseInv, FiniteOK, LoopKept, Paged
<1> QED BY <1>1, <1>2, <1>3, <1>4, TickNone DEF BaseInv

\* The transaction that ends a tick.
LEMMA BaseWrite ==
  ASSUME BaseInv, Write
  PROVE  BaseInv'
<1>1. /\ SourceKept /\ UNCHANGED <<met, missed, dropped, origin, pages, head, everPublished>>
      /\ tick.pc = "write" /\ tick' = NoTick
      /\ cursor' \in CursorType
      /\ cursor'.live = tick.batch.cursor /\ cursor'.finalized = tick.batch.finalized
      /\ orphaned' = orphaned \cup (journal \cap Outs)
      /\ journal' = (journal \ Outs) \cup (Events \ orphaned')
      /\ retracted' = retracted \cup Blocks(Entered, "withdrawn")
      /\ active' = StillActive(Entered)
      /\ pageCount' = IF tick.seeded THEN pageCount + 1 ELSE pageCount
  BY WriteIs DEF BaseInv
<1>2. Polled /\ Polled' = Polled /\ batch = NoBatch /\ tick.batch.cursor = row.live
      /\ tick.displaced = orphans
  BY <1>1 DEF BaseInv, TickOK, SourceKept, Polled
<1>3. PollInv'
  BY <1>1, <1>2, PollTaken DEF BaseInv, SourceKept
<1>4. Entered \subseteq Entry /\ Events \subseteq Block /\ Outs \subseteq orphans
  BY <1>2, LoopFields DEF BaseInv, Entered, Events, Outs
<1>5. LoopType'
  <2>1. /\ Blocks(Entered, "withdrawn") \subseteq Block
        /\ Blocks(Entered, "available") \subseteq Block
    BY <1>4, EntryFields
  <2>2. pageCount' \in Nat
    BY <1>1, LoopFields DEF BaseInv, LoopType
  <2>3. /\ orphaned' \subseteq Block /\ journal' \subseteq Block /\ retracted' \subseteq Block
        /\ active' \subseteq Block
    BY <1>1, <1>4, <2>1 DEF BaseInv, LoopType, StillActive
  <2> QED BY <1>1, <2>2, <2>3, NoTickIs DEF BaseInv, LoopType
<1>6. OriginOK'
  <2>1. Started'
    <3>1. row.live[1] >= 1 /\ NoBlock[1] = 0
      BY <1>2, EmptyTypes, FieldTypes, SMTT(20) DEF BaseInv, PollInv, RowOK, Final, On
    <3> QED BY <1>1, <1>2, <3>1 DEF Started
  <2> QED BY <1>1, <1>2, <1>4, <2>1 DEF BaseInv, OriginOK, SourceKept
<1>7. FiniteOK'
  <2>1. IsFiniteSet(Entered)
    <3>1. {e \in tick.emitted : tick.failed => e.act = "withdrawn"} \in SUBSET tick.emitted
      OBVIOUS
    <3> QED BY <3>1, FS_Subset, FS_Union DEF BaseInv, FiniteOK, Entered
  <2>2. IsFiniteSet(active \cup Blocks(Entered, "available"))
    BY <2>1, BlocksFinite, FS_Union DEF BaseInv, FiniteOK
  <2>3. active' \in SUBSET (active \cup Blocks(Entered, "available"))
    BY <1>1 DEF StillActive
  <2>4. IsFiniteSet(active')
    BY <2>2, <2>3, FS_Subset
  <2> QED BY <1>1, <2>4, NoTickIs, FS_EmptySet DEF BaseInv, FiniteOK, SourceKept, Paged
<1> QED BY <1>1, <1>3, <1>5, <1>6, <1>7, TickNone DEF BaseInv

\* A rewind puts the marks on a final block.
LEMMA RewoundTo ==
  ASSUME BaseInv, Rewind
  PROVE  \E h \in Nat :
           /\ origin <= h /\ h < row.finalized[1] /\ 1 <= h /\ h \in 1..Len(chain)
           /\ row' \in RowType /\ row'.live = At(h) /\ row'.finalized = At(h)
           /\ At(h) \in Block /\ At(h)[1] = h /\ Final(At(h)) /\ Known(At(h)) /\ Polled'
<1>1. PICK h \in origin..(row.finalized[1] - 1) : row' = [live |-> At(h), finalized |-> At(h)]
  BY RewindIs DEF BaseInv
<1>2. Polled /\ origin \in Nat /\ 1 <= origin /\ row.finalized[1] \in Nat
      /\ row.finalized[1] <= fin /\ fin <= Len(chain) /\ fin \in Nat /\ Len(chain) \in Nat
  BY RewindIs, FieldTypes DEF BaseInv, OriginOK, LoopType, PollInv, RowOK, Final, ChainOK
<1>3. h \in Nat /\ origin <= h /\ h < row.finalized[1] /\ 1 <= h /\ h <= fin /\ h \in 1..Len(chain)
  BY <1>2
<1>4. At(h) \in Block /\ At(h)[1] = h /\ Final(At(h)) /\ Known(At(h))
  BY <1>3, AtIs DEF BaseInv
<1> HIDE DEF At
<1>5. row' \in RowType /\ row'.live = At(h) /\ row'.finalized = At(h)
  BY <1>1, <1>4 DEF RowType
<1>6. row' # NoRow
  BY <1>3, <1>4, <1>5, PolledIs
<1> QED BY <1>3, <1>4, <1>5, <1>6 DEF Polled

\* A rewind keeps the types: the marks are final blocks.
LEMMA BaseRewind ==
  ASSUME BaseInv, Rewind
  PROVE  BaseInv'
<1>1. /\ UNCHANGED <<chain, abandoned, forks, fin, scanned, orphans, poll, batch, tick>>
      /\ LoopKept /\ ArchKept /\ origin' = origin
      /\ poll.pc = "idle" /\ batch = NoBatch /\ tick.pc = "none" /\ Polled
      /\ missed' = (missed \/ ~On(chain, row.live))
  BY RewindIs DEF BaseInv
<1>2. PICK h \in Nat :
           /\ origin <= h /\ h < row.finalized[1] /\ 1 <= h
           /\ row' \in RowType /\ row'.live = At(h) /\ row'.finalized = At(h)
           /\ At(h) \in Block /\ At(h)[1] = h /\ Final(At(h)) /\ Known(At(h)) /\ Polled'
  BY RewoundTo
<1> HIDE DEF At
<1>3. TypeOK' /\ ChainOK' /\ PollOK' /\ RowOK'
  <2>1. TypeOK'
    BY <1>1, <1>2 DEF BaseInv, PollInv, TypeOK
  <2>2. ChainOK'
    BY <1>1 DEF BaseInv, PollInv, ChainOK, Same
  <2>3. PollOK'
    BY <1>1 DEF PollOK, Fetches
  <2>4. RowOK'
    BY <1>1, <1>2 DEF RowOK, Final, On, Known
  <2> QED BY <2>1, <2>2, <2>3, <2>4
<1>4. tick = NoTick
  BY <1>1 DEF BaseInv, TickOK
<1>5. TickOK'
  BY <1>1, <1>4, TickNone
<1>6. OriginOK'
  BY <1>1, <1>2 DEF BaseInv, OriginOK, LoopKept, ArchKept, Started
<1>7. LoopType'
  BY <1>1 DEF BaseInv, LoopType, LoopKept, ArchKept
<1>8. FiniteOK'
  BY <1>1 DEF BaseInv, FiniteOK, LoopKept, ArchKept, Paged
<1> QED BY <1>3, <1>5, <1>6, <1>7, <1>8 DEF BaseInv, PollInv

\* A step of the chain.
LEMMA ChainStepIs ==
  ASSUME BaseInv, ChainStep
  PROVE  /\ ChainMove /\ UNCHANGED <<row, scanned, orphans, poll, batch>>
         /\ LoopKept /\ ArchKept /\ tick' = tick /\ dropped' = dropped /\ origin' = origin
         /\ missed' = \/ missed
                      \/ fin' # fin /\ Started /\ ~On(chain, cursor.live)
                      \/ forks' # forks /\ "rewound" \in met
         /\ met' \subseteq met \cup {"torn", "returned", "passed"}
         /\ forks <= forks'
         /\ forks' = forks => Len(chain) <= Len(chain') /\ Same(chain', chain, Len(chain))
<1>1. ChainMove /\ UNCHANGED <<row, scanned, orphans, poll, batch>>
  BY ChainMoves DEF BaseInv, ChainStep, ChainMove, Grows
<1>2. OnChain(cursor.live) <=> On(chain, cursor.live)
  BY LoopFields, OnChainIs DEF BaseInv, PollInv
<1>3. /\ LoopKept /\ ArchKept /\ tick' = tick /\ dropped' = dropped /\ origin' = origin
      /\ missed' = \/ missed
                   \/ fin' # fin /\ Started /\ ~On(chain, cursor.live)
                   \/ forks' # forks /\ "rewound" \in met
  BY <1>2 DEF ChainStep, loopVars, archVars, LoopKept, ArchKept
<1>4. met' \subseteq met \cup {"torn", "returned", "passed"}
  BY DEF ChainStep, ChainNext, Mine, Reorg, Return, Finalize, Meeting
<1>5. /\ forks <= forks'
      /\ forks' = forks => Len(chain) <= Len(chain') /\ Same(chain', chain, Len(chain))
  <2>1. forks \in Nat /\ chain \in Seq(Nat) /\ Len(chain) \in Nat
    BY FieldTypes DEF BaseInv, PollInv, TypeOK
  <2>2. CASE Mine
    <3>1. chain' = Append(chain, forks) /\ forks' = forks
      BY <2>2 DEF Mine
    <3>2. Len(chain') = Len(chain) + 1 /\ \A g \in 1..Len(chain) : chain'[g] = chain[g]
      BY <2>1, <3>1
    <3> QED BY <2>1, <3>1, <3>2 DEF Same
  <2>3. CASE Reorg \/ Return
    BY <2>1, <2>3 DEF Reorg, Return
  <2>4. CASE Finalize
    BY <2>1, <2>4 DEF Finalize, Same
  <2> QED BY <2>2, <2>3, <2>4 DEF ChainStep, ChainNext
<1> QED BY <1>1, <1>3, <1>4, <1>5

\* A step of the source.
LEMMA SrcStepIs ==
  ASSUME BaseInv, SrcStep
  PROVE  /\ tick = NoTick /\ tick' = tick /\ LoopKept /\ ArchKept /\ missed' = missed
         /\ dropped' = dropped
         /\ UNCHANGED <<chain, abandoned, forks, fin, met>>
         /\ Polled => origin' = origin
         /\ ~Polled => origin' = row'.finalized[1]
         /\ \/ /\ \/ ReadLatest \/ ReadFinalized \/ CheckReorg \/ CheckAdvance
                  \/ FetchChunk \/ ScanBlock \/ CheckMissing \/ PollFails
               /\ OnlyPoll
            \/ CheckNoProgress \/ Commit
<1>1. /\ tick = NoTick /\ tick' = tick /\ LoopKept /\ ArchKept /\ missed' = missed
      /\ dropped' = dropped
      /\ Polled => origin' = origin
      /\ ~Polled => origin' = row'.finalized[1]
  BY DEF SrcStep, BaseInv, TickOK, loopVars, archVars, LoopKept, ArchKept
<1>2. \/ /\ \/ ReadLatest \/ ReadFinalized \/ CheckReorg \/ CheckAdvance
            \/ FetchChunk \/ ScanBlock \/ CheckMissing \/ PollFails
         /\ OnlyPoll
      \/ CheckNoProgress \/ Commit
  BY ReadLatestIs, ReadFinalizedIs, CheckReorgIs,
             CheckAdvanceIs, FetchChunkIs, ScanBlockIs, IdleIs
     DEF SrcStep, SourceStep, PollStep, BaseInv
<1>3. UNCHANGED <<chain, abandoned, forks, fin, met>>
  BY <1>2, NoProgressIs, CommitIs DEF OnlyPoll, BaseInv
<1> QED BY <1>1, <1>2, <1>3

\* A running poll has read finitely many logs.
LEMMA LogsFinite ==
  ASSUME BaseInv, ReadLatest \/ ReadFinalized \/ CheckReorg \/ CheckAdvance \/ FetchChunk
                  \/ ScanBlock \/ CheckMissing \/ PollFails
  PROVE  IsFiniteSet(poll'.logs)
<1>1. IsFiniteSet(poll.logs) /\ PollInv
  BY DEF BaseInv, FiniteOK
<1>2. IsFiniteSet({}) /\ Idle.logs = {}
  BY FS_EmptySet DEF Idle
<1>3. CASE ReadLatest
  BY <1>1, <1>2, <1>3, ReadLatestIs
<1>4. CASE ReadFinalized \/ CheckReorg \/ CheckAdvance
  BY <1>1, <1>4, ReadFinalizedIs, CheckReorgIs, CheckAdvanceIs DEF Begins
<1>5. CASE FetchChunk
  <2>1. PICK n \in Nat : poll'.logs = poll.logs \cup Ranged(poll.next, n)
    BY <1>1, <1>5, FetchChunkIs
  <2>2. poll.next \in Int /\ Smaller(n, Len(chain)) \in Int
    BY <1>1, FieldTypes DEF Smaller, PollInv
  <2>3. IsFiniteSet(Ranged(poll.next, n))
    BY <2>2, RangedFinite DEF Ranged
  <2> QED BY <1>1, <2>1, <2>3, FS_Union
<1>6. CASE ScanBlock
  BY <1>1, <1>2, <1>6, ScanBlockIs
<1>7. CASE CheckMissing \/ PollFails
  BY <1>2, <1>7, IdleIs
<1> QED BY <1>3, <1>4, <1>5, <1>6, <1>7

\* The steps of the chain and of the source keep the types.
LEMMA BaseChain ==
  ASSUME BaseInv, ChainStep
  PROVE  BaseInv'
<1>1. /\ UNCHANGED <<row, scanned, orphans, poll, batch>>
      /\ LoopKept /\ ArchKept /\ tick' = tick /\ origin' = origin /\ missed' \in BOOLEAN
  BY ChainStepIs DEF BaseInv, LoopType
<1>2. PollInv'
  BY PollNext DEF BaseInv, ChainStep
<1>3. Polled' = Polled /\ Started' = Started
  BY <1>1 DEF Polled, Started, LoopKept
<1>4. LoopType'
  BY <1>1 DEF BaseInv, LoopType, LoopKept, ArchKept
<1>5. TickOK'
  BY <1>1, <1>3 DEF BaseInv, TickOK, LoopKept
<1>6. OriginOK'
  BY <1>1, <1>3 DEF BaseInv, OriginOK, LoopKept, ArchKept
<1>7. FiniteOK'
  BY <1>1 DEF BaseInv, FiniteOK, LoopKept, ArchKept, Paged
<1> QED BY <1>2, <1>4, <1>5, <1>6, <1>7 DEF BaseInv

\* A step of the source keeps the types, and settles where the projection starts.
LEMMA BaseSource ==
  ASSUME BaseInv, SrcStep
  PROVE  BaseInv'
<1>1. /\ tick = NoTick /\ tick' = tick /\ LoopKept /\ ArchKept /\ missed' = missed
      /\ Polled => origin' = origin
      /\ ~Polled => origin' = row'.finalized[1]
  BY SrcStepIs
<1>2. PollInv'
  BY PollNext DEF BaseInv, SrcStep, SourceStep
<1>3. TickOK' /\ tick.pc = "none" /\ Started' = Started
  BY <1>1, TickNone, NoTickIs DEF Started, LoopKept
<1>4. FiniteOK' /\ OriginOK'
  <2>1. CASE OnlyPoll /\ (ReadLatest \/ ReadFinalized \/ CheckReorg \/ CheckAdvance \/ FetchChunk
                          \/ ScanBlock \/ CheckMissing \/ PollFails)
    <3>1. IsFiniteSet(poll'.logs) /\ row' = row /\ batch' = batch /\ orphans' = orphans
          /\ Polled' = Polled
      BY <2>1, LogsFinite DEF OnlyPoll, Polled
    <3>2. FiniteOK'
      BY <1>1, <3>1 DEF BaseInv, FiniteOK, LoopKept, ArchKept, Paged
    <3>3. ~Polled => origin' = 0
      BY <1>1, <3>1, EmptyTypes DEF Polled
    <3>4. OriginOK'
      BY <1>1, <1>3, <3>1, <3>3 DEF BaseInv, OriginOK, LoopKept, ArchKept
    <3> QED BY <3>2, <3>4
  <2>2. CASE CheckNoProgress
    <3>1. /\ row' = row /\ orphans' = orphans /\ poll' = Idle /\ batch'.logs = {}
          /\ batch'.displaced = {} /\ poll.pc = "check"
      BY <2>2, NoProgressIs DEF BaseInv
    <3>2. Polled' = Polled /\ Polled
      BY <3>1 DEF Polled, BaseInv, PollInv, PollOK
    <3>3. FiniteOK'
      <4>1. Idle.logs = {}
        BY DEF Idle
      <4> QED BY <1>1, <3>1, <4>1, FS_EmptySet DEF BaseInv, FiniteOK, LoopKept, ArchKept, Paged
    <3>4. OriginOK'
      BY <1>1, <1>3, <3>1, <3>2 DEF BaseInv, OriginOK, LoopKept, ArchKept
    <3> QED BY <3>3, <3>4
  <2>3. CASE Commit
    <3>1. /\ poll' = Idle /\ batch'.logs = poll.logs /\ poll.pc = "commit"
          /\ row'.finalized = Checkpoint /\ orphans \subseteq orphans'
          /\ batch'.displaced \subseteq orphans'
      BY <2>3, CommitIs DEF BaseInv
    <3>2. Polled' /\ Checkpoint[1] \in Nat /\ Checkpoint[1] >= 1
          /\ (Polled => row.finalized[1] <= Checkpoint[1])
      BY <2>3, <3>1, PollCommit, CheckpointIs DEF BaseInv
    <3>3. FiniteOK'
      <4>1. Idle.logs = {}
        BY DEF Idle
      <4> QED BY <1>1, <3>1, <4>1, FS_EmptySet DEF BaseInv, FiniteOK, LoopKept, ArchKept, Paged
    <3>4. 1 <= origin' /\ origin' <= row'.finalized[1]
      <4>1. CASE Polled
        <5>1. 1 <= origin /\ origin <= row.finalized[1] /\ origin \in Nat /\ row.finalized[1] \in Nat
          BY <4>1, FieldTypes DEF BaseInv, OriginOK, LoopType, PollInv
        <5> QED BY <1>1, <3>1, <3>2, <4>1, <5>1
      <4>2. CASE ~Polled
        BY <1>1, <3>1, <3>2, <4>2
      <4> QED BY <4>1, <4>2
    <3>5. OriginOK'
      BY <1>1, <1>3, <3>1, <3>2, <3>4 DEF BaseInv, OriginOK, LoopKept
    <3> QED BY <3>3, <3>5
  <2> QED BY <2>1, <2>2, <2>3, SrcStepIs
<1>5. origin' \in Nat
  <2>1. row'.finalized[1] \in Nat
    BY <1>2 DEF PollInv, TypeOK, RowType, Block
  <2> QED BY <1>1, <2>1 DEF BaseInv, LoopType
<1>6. LoopType'
  BY <1>1, <1>5 DEF BaseInv, LoopType, LoopKept, ArchKept
<1> QED BY <1>2, <1>3, <1>4, <1>6 DEF BaseInv

\* Every step keeps the types.
LEMMA BaseNext == BaseInv /\ [Next]_vars => BaseInv'
<1> SUFFICES ASSUME BaseInv, [Next]_vars PROVE BaseInv'
  OBVIOUS
<1>1. CASE FoldThrows
  <2>1. tick' = NoTick
    BY <1>1, FoldThrowsIs DEF BaseInv, TickOK
  <2>2. UNCHANGED <<pages, head, everPublished>> /\ pageCount' \in Nat
    BY <1>1, FoldThrowsIs DEF ArchKept, BaseInv, LoopType
  <2> QED BY <1>1, <2>1, <2>2, FoldThrowsIs, BaseDropped
<1>2. CASE UNCHANGED vars
  <2>1. UNCHANGED logVars /\ LoopKept /\ ArchKept /\ UNCHANGED <<tick, missed, origin>>
    BY <1>2 DEF vars, loopVars, archVars, LoopKept, ArchKept
  <2>2. PollInv' /\ UNCHANGED <<row, poll, batch, orphans>>
    BY <2>1, PollStutter DEF BaseInv, logVars, rowVars
  <2> QED BY <2>1, <2>2 DEF BaseInv, LoopType, TickOK, OriginOK, FiniteOK, Paged, LoopKept,
             ArchKept, Polled, Started
<1>3. CASE TickDies
  BY <1>3, TickDiesIs, BaseDropped DEF BaseInv
<1> QED BY <1>1, <1>2, <1>3, BaseChain, BaseSource, BaseFold, BaseCorrectPage, BaseCorrectHead,
           BasePublishPage, BasePublishHead, BaseWrite, BasePublishFails, BaseHeadFails,
           BaseRewind
    DEF Next, TickStep, ChainStep, SrcStep

\* The types hold before the first step.
LEMMA BaseStart == Init => BaseInv
<1> SUFFICES ASSUME Init PROVE BaseInv
  OBVIOUS
<1>1. /\ LogInit /\ cursor = NoCursor /\ journal = {} /\ orphaned = {} /\ active = {}
      /\ retracted = {} /\ pages = << >> /\ pageCount = 0 /\ head = 0 /\ everPublished = {}
      /\ tick = NoTick /\ missed = FALSE /\ origin = 0
  BY DEF Init
<1>2. /\ ~Polled /\ poll.logs = {} /\ batch = NoBatch /\ batch.displaced = {} /\ ~Started
  BY <1>1, NoTickIs DEF LogInit, Polled, Idle, NoBatch, Started
<1>3. pages \in [DOMAIN pages -> SUBSET Entry] /\ Paged = {}
  BY <1>1 DEF Paged
<1>4. LoopType
  BY <1>1, <1>3, NoTickIs DEF LoopType
<1>5. OriginOK
  BY <1>1, <1>2, NoTickIs DEF OriginOK
<1>6. FiniteOK
  BY <1>1, <1>2, <1>3, NoTickIs, EmptyTypes, FS_EmptySet DEF FiniteOK
<1> QED BY <1>1, <1>4, <1>5, <1>6, TickNone, PollInit DEF BaseInv

\* The types hold throughout.
LEMMA BaseInvariant == Spec => []BaseInv
BY BaseStart, BaseNext, PTL DEF Spec

-----------------------------------------------------------------------------
(* The archive *)

\* The pages written: the counter is one behind while the first one waits for it.
Written == pageCount + (IF tick.seeded THEN 1 ELSE 0)

\* The last sequence in the archive: past the head between a page and its head.
Top == head + (IF tick.pc = "correctHead" THEN Cardinality(tick.priors)
               ELSE IF tick.pc = "publishHead" THEN Cardinality(tick.fresh) ELSE 0)

\* Entries that are numbered 1 .. n, each number once.
Numbered(S, n) == IsFiniteSet(S) /\ Cardinality(S) = n /\ {e.seq : e \in S} = 1..n

\* No tick has died, and none has gone on from a page without its head.
Whole(m) == m \cap {"lost", "halfway"} = {}

\* Head, cursor and tick agree on the last sequence, while that is so.
SequenceOK ==
  /\ tick.pc # "none" => head = tick.prior /\ tick.recovered = {}
  /\ tick.pc \in {"none", "correct", "correctHead"} => head = cursor.sequence
  /\ tick.pc \in {"publish", "publishHead"} /\ tick.priors = {} => head = cursor.sequence
  /\ tick.pc = "write" /\ tick.failed /\ tick.priors = {} => head = cursor.sequence
  /\ active # {} => cursor.sequence > 0
  /\ tick.pc = "write" /\ tick.emitted # {} => head > 0
  /\ head >= cursor.sequence
  /\ tick.seeded => tick.emitted # {}
  /\ tick.pc # "write" => ~tick.failed
  /\ tick.failed => Blocks(tick.emitted, "available") = {}

ArchiveOK ==
  /\ DOMAIN pages = 1..Written
  /\ head = 0 /\ ~tick.seeded => pageCount = 0
  /\ Numbered(Archive, Top)

ArchiveInv == BaseInv /\ (Whole(met) => SequenceOK /\ ArchiveOK)

\* A page that is appended.
LEMMA NumberedAppend ==
  ASSUME NEW S, NEW T, NEW n \in Nat, NEW k \in Nat, Numbered(S, n),
         IsFiniteSet(T), Cardinality(T) = k, {e.seq : e \in T} = (n + 1)..(n + k)
  PROVE  Numbered(S \cup T, n + k)
<1>1. IsFiniteSet(S) /\ Cardinality(S) = n /\ {e.seq : e \in S} = 1..n
  BY DEF Numbered
<1>2. S \cap T = {}
  <2> SUFFICES ASSUME NEW e \in S, e \in T PROVE FALSE
    OBVIOUS
  <2>1. e.seq \in 1..n /\ e.seq \in (n + 1)..(n + k)
    BY <1>1
  <2> QED BY <2>1
<1>3. IsFiniteSet(S \cup T) /\ Cardinality(S \cup T) = n + k
  <2>1. Cardinality(S \cap T) = 0
    BY <1>2, FS_EmptySet
  <2>2. IsFiniteSet(S \cup T)
        /\ Cardinality(S \cup T) = Cardinality(S) + Cardinality(T) - Cardinality(S \cap T)
    BY <1>1, FS_Union
  <2> QED BY <1>1, <2>1, <2>2
<1>4. {e.seq : e \in S \cup T} = 1..(n + k)
  <2>1. {e.seq : e \in S \cup T} = {e.seq : e \in S} \cup {e.seq : e \in T}
    OBVIOUS
  <2>2. (1..n) \cup ((n + 1)..(n + k)) = 1..(n + k)
    OBVIOUS
  <2> QED BY <1>1, <2>1, <2>2
<1> QED BY <1>3, <1>4 DEF Numbered

\* When no page is missing, all of them are read.
LEMMA ArchiveIs ==
  /\ \A n \in Nat : DOMAIN pages = 1..n => Archive = Paged
  /\ \A n \in Nat : DOMAIN pages' = 1..n => Archive' = Paged'
<1>1. ASSUME NEW n \in Nat, NEW q \in 1..n PROVE 1..q \subseteq 1..n
  OBVIOUS
<1> QED BY <1>1 DEF Archive, Paged

\* A page with new entries extends the archive and the count of pages.
LEMMA PageAppended ==
  ASSUME BaseInv, SequenceOK, ArchiveOK, ~tick.seeded, head = tick.prior,
         NEW new \in SUBSET Entry, WritePage(new)
  PROVE  /\ DOMAIN pages' = 1..(Written + 1) /\ Written \in Nat
         /\ Archive' = Archive \cup new
         /\ pageCount' = IF head = 0 THEN pageCount ELSE pageCount + 1
<1> DEFINE W == pageCount
<1>1. W \in Nat /\ Written = W /\ (head = 0 => W = 0) /\ DOMAIN pages = 1..W /\ head \in Nat
  BY DEF BaseInv, LoopType, ArchiveOK, Written
<1>2. /\ pages' = [p \in DOMAIN pages \cup {W + 1} |-> IF p = W + 1 THEN new ELSE pages[p]]
      /\ pageCount' = IF head = 0 THEN pageCount ELSE pageCount + 1
  BY <1>1 DEF WritePage
<1>3. DOMAIN pages' = 1..(W + 1)
  <2>1. (1..W) \cup {W + 1} = 1..(W + 1)
    BY <1>1
  <2>2. DOMAIN pages' = DOMAIN pages \cup {W + 1}
    BY <1>2
  <2> QED BY <1>1, <2>1, <2>2
<1>4. Paged' = Paged \cup new
  <2>1. ASSUME NEW p \in DOMAIN pages PROVE p # W + 1 /\ p \in DOMAIN pages' /\ pages'[p] = pages[p]
    <3>1. p # W + 1
      BY <1>1
    <3> QED BY <1>2, <3>1
  <2>2. W + 1 \in DOMAIN pages' /\ pages'[W + 1] = new
    BY <1>2
  <2>3. \A p \in DOMAIN pages' : p \in DOMAIN pages \/ p = W + 1
    BY <1>2
  <2> HIDE DEF W
  <2> QED BY <2>1, <2>2, <2>3 DEF Paged
<1>5. Archive = Paged /\ Archive' = Paged'
  <2>1. PICK n \in Nat : n = W + 1
    BY <1>1
  <2>2. DOMAIN pages' = 1..n
    BY <1>3, <2>1
  <2> QED BY <1>1, <2>2, ArchiveIs
<1> QED BY <1>1, <1>2, <1>3, <1>4, <1>5

\* The page of withdrawals.
LEMMA ArchiveCorrectPage ==
  ASSUME BaseInv, SequenceOK, ArchiveOK, CorrectPage
  PROVE  SequenceOK' /\ ArchiveOK'
<1> DEFINE new == Entries(tick.priors, "withdrawn", tick.prior)
<1>1. /\ InTick /\ head' = head /\ tick.pc = "correct" /\ WritePage(new) /\ new \subseteq Entry
      /\ tick'.pc = "correctHead" /\ tick'.emitted = new
      /\ tick'.prior = tick.prior /\ tick'.seeded = tick.seeded /\ tick'.failed = tick.failed
  BY TickFinite, CorrectPageIs DEF BaseInv
<1>2. /\ ~tick.seeded /\ tick.priors # {} /\ tick.priors \subseteq active /\ ~tick.failed
      /\ head = tick.prior /\ head > 0 /\ head \in Nat
  BY <1>1, LoopFields DEF BaseInv, TickOK, SequenceOK, LoopType
<1>3. /\ IsFiniteSet(new) /\ Cardinality(new) = Cardinality(tick.priors)
      /\ Cardinality(tick.priors) \in Nat
      /\ {e.seq : e \in new} = (head + 1)..(head + Cardinality(tick.priors))
  BY <1>2, TickFinite, EntriesNumbered
<1> HIDE DEF new
<1>4. /\ DOMAIN pages' = 1..(Written + 1) /\ Written \in Nat /\ Archive' = Archive \cup new
      /\ pageCount' = pageCount + 1
  BY <1>1, <1>2, PageAppended
<1>5. Top = head /\ Top' = head + Cardinality(tick.priors)
  BY <1>1, <1>2 DEF Top, InTick, TickKept
<1>6. Numbered(Archive', Top')
  BY <1>2, <1>3, <1>4, <1>5, NumberedAppend DEF ArchiveOK
<1>7. Written' = Written + 1
  BY <1>1, <1>2, <1>4 DEF Written, BaseInv, LoopType
<1>8. ArchiveOK'
  BY <1>1, <1>2, <1>4, <1>6, <1>7 DEF ArchiveOK
<1>9. SequenceOK'
  BY <1>1, <1>2 DEF SequenceOK, InTick, LoopKept, TickKept
<1> QED BY <1>8, <1>9

\* The head of the withdrawals.
LEMMA ArchiveCorrectHead ==
  ASSUME BaseInv, SequenceOK, ArchiveOK, CorrectHead
  PROVE  SequenceOK' /\ ArchiveOK'
<1>1. /\ InTick /\ pages' = pages /\ pageCount' = pageCount /\ tick.pc = "correctHead"
      /\ head' = tick.prior + Cardinality(tick.priors) /\ tick'.prior = head'
      /\ tick'.pc = IF tick.fresh # {} THEN "publish" ELSE "write"
      /\ tick'.emitted = tick.emitted
      /\ tick'.seeded = tick.seeded /\ tick'.failed = tick.failed
  BY TickFinite, CorrectHeadIs DEF BaseInv
<1>2. /\ tick.priors # {} /\ head = tick.prior /\ ~tick.failed /\ head \in Nat
      /\ cursor.sequence \in Nat /\ head = cursor.sequence /\ ~tick.seeded
  BY <1>1, LoopFields DEF BaseInv, TickOK, SequenceOK, LoopType
<1>3. PICK k \in Nat : k = Cardinality(tick.priors) /\ k > 0
  <2>1. Cardinality(tick.priors) # 0 /\ Cardinality(tick.priors) \in Nat
    BY <1>2, TickFinite, FS_EmptySet
  <2> QED BY <2>1
<1>4. head' = head + k /\ head' > 0 /\ head' >= cursor.sequence
  BY <1>1, <1>2, <1>3
<1>5. Top = head + k /\ Top' = head'
  BY <1>1, <1>2, <1>3, <1>4 DEF Top
<1>6. Archive' = Archive /\ Written' = Written
  BY <1>1 DEF Archive, Written
<1>7. ArchiveOK'
  BY <1>1, <1>4, <1>5, <1>6 DEF ArchiveOK
<1>8. SequenceOK'
  BY <1>1, <1>2, <1>4 DEF SequenceOK, InTick, LoopKept, TickKept
<1> QED BY <1>7, <1>8

\* The page of availabilities.
LEMMA ArchivePublishPage ==
  ASSUME BaseInv, SequenceOK, ArchiveOK, PublishPage
  PROVE  SequenceOK' /\ ArchiveOK'
<1> DEFINE new == Entries(tick.fresh, "available", tick.prior)
<1>1. /\ InTick /\ head' = head /\ tick.pc = "publish" /\ WritePage(new) /\ new \subseteq Entry
      /\ tick'.pc = "publishHead" /\ tick'.emitted = tick.emitted \cup new
      /\ tick'.prior = tick.prior /\ tick'.seeded = (cursor.sequence = 0)
      /\ tick'.failed = tick.failed
  BY TickFinite, PublishPageIs DEF BaseInv
<1>2. /\ ~tick.seeded /\ tick.fresh # {} /\ ~tick.failed /\ tick.priors \subseteq active
      /\ head = tick.prior /\ head \in Nat /\ cursor.sequence \in Nat
      /\ cursor.sequence = 0 <=> head = 0
  BY <1>1, LoopFields DEF BaseInv, TickOK, SequenceOK, LoopType
<1>3. /\ IsFiniteSet(new) /\ Cardinality(new) = Cardinality(tick.fresh)
      /\ Cardinality(tick.fresh) \in Nat
      /\ {e.seq : e \in new} = (head + 1)..(head + Cardinality(tick.fresh))
  BY <1>2, TickFinite, EntriesNumbered
<1>4. new # {}
  <2>1. Blocks(new, "available") = tick.fresh /\ Blocks({}, "available") = {}
    BY TickFinite, EntriesType, EntryFields
  <2> QED BY <1>2, <2>1
<1> HIDE DEF new
<1>5. /\ DOMAIN pages' = 1..(Written + 1) /\ Written \in Nat /\ Archive' = Archive \cup new
      /\ pageCount' = IF head = 0 THEN pageCount ELSE pageCount + 1
  BY <1>1, <1>2, PageAppended
<1>6. Top = head /\ Top' = head + Cardinality(tick.fresh)
  BY <1>1, <1>2 DEF Top, InTick, TickKept
<1>7. Numbered(Archive', Top')
  BY <1>2, <1>3, <1>5, <1>6, NumberedAppend DEF ArchiveOK
<1>8. Written' = Written + 1
  <2>1. pageCount \in Nat /\ Written = pageCount + 0
    BY <1>2 DEF Written, BaseInv, LoopType
  <2>2. CASE head = 0
    <3>1. tick'.seeded = TRUE /\ pageCount' = pageCount
      BY <1>1, <1>2, <1>5, <2>2
    <3> QED BY <2>1, <3>1 DEF Written
  <2>3. CASE head # 0
    <3>1. tick'.seeded = FALSE /\ pageCount' = pageCount + 1
      BY <1>1, <1>2, <1>5, <2>3
    <3> QED BY <2>1, <3>1 DEF Written
  <2> QED BY <2>2, <2>3
<1>9. ArchiveOK'
  BY <1>1, <1>2, <1>5, <1>7, <1>8 DEF ArchiveOK
<1>10. SequenceOK'
  BY <1>1, <1>2, <1>4 DEF SequenceOK, InTick, LoopKept, TickKept
<1> QED BY <1>9, <1>10

\* The head of the availabilities.
LEMMA ArchivePublishHead ==
  ASSUME BaseInv, SequenceOK, ArchiveOK, PublishHead
  PROVE  SequenceOK' /\ ArchiveOK'
<1>1. /\ InTick /\ pages' = pages /\ pageCount' = pageCount /\ tick.pc = "publishHead"
      /\ head' = tick.prior + Cardinality(tick.fresh) /\ tick'.prior = head'
      /\ tick'.pc = "write" /\ tick'.emitted = tick.emitted
      /\ tick'.seeded = tick.seeded /\ tick'.failed = tick.failed
  BY TickFinite, PublishHeadIs DEF BaseInv
<1>2. /\ tick.fresh # {} /\ head = tick.prior /\ ~tick.failed /\ head \in Nat
      /\ cursor.sequence \in Nat /\ head >= cursor.sequence
  BY <1>1, LoopFields DEF BaseInv, TickOK, SequenceOK, LoopType
<1>3. PICK k \in Nat : k = Cardinality(tick.fresh) /\ k > 0
  <2>1. Cardinality(tick.fresh) # 0 /\ Cardinality(tick.fresh) \in Nat
    BY <1>2, TickFinite, FS_EmptySet
  <2> QED BY <2>1
<1>4. head' = head + k /\ head' > 0 /\ head' >= cursor.sequence
  BY <1>1, <1>2, <1>3
<1>5. Top = head + k /\ Top' = head'
  BY <1>1, <1>2, <1>3, <1>4 DEF Top
<1>6. Archive' = Archive /\ Written' = Written
  BY <1>1 DEF Archive, Written
<1>7. ArchiveOK'
  BY <1>1, <1>4, <1>5, <1>6 DEF ArchiveOK
<1>8. SequenceOK'
  BY <1>1, <1>2, <1>4 DEF SequenceOK, InTick, LoopKept, TickKept
<1> QED BY <1>7, <1>8

\* The fold, and a publication that fails.
LEMMA ArchiveFold ==
  ASSUME BaseInv, SequenceOK, ArchiveOK, Fold
  PROVE  SequenceOK' /\ ArchiveOK'
<1>1. /\ LoopKept /\ ArchKept /\ tick.pc = "none"
      /\ tick'.pc \in {"correct", "publish", "write"}
      /\ tick'.recovered = Recovered /\ tick'.prior = Larger(head, cursor.sequence)
      /\ tick'.emitted = {} /\ ~tick'.seeded /\ ~tick'.failed
  BY FoldIs DEF BaseInv
<1>2. head = cursor.sequence /\ head \in Nat /\ ~tick.seeded
  BY <1>1, LoopFields DEF BaseInv, TickOK, SequenceOK, LoopType
<1>3. tick'.recovered = {} /\ tick'.prior = head
  BY <1>1, <1>2 DEF Recovered, Larger
<1>4. SequenceOK'
  BY <1>1, <1>2, <1>3 DEF SequenceOK, LoopKept, ArchKept
<1>5. Top' = Top /\ Archive' = Archive /\ Written' = Written
  BY <1>1, <1>2 DEF Top, Archive, Written, ArchKept
<1> QED BY <1>1, <1>2, <1>4, <1>5 DEF ArchiveOK, ArchKept

\* A publication that fails leaves the archive as it is.
LEMMA ArchivePublishFails ==
  ASSUME BaseInv, SequenceOK, ArchiveOK, PublishFails
  PROVE  SequenceOK' /\ ArchiveOK'
<1>1. /\ InTick /\ ArchKept /\ tick.pc = "publish"
      /\ tick'.pc = "write" /\ tick'.emitted = tick.emitted /\ tick'.prior = tick.prior
      /\ tick'.seeded = tick.seeded /\ tick'.failed
  BY PublishFailsIs DEF BaseInv
<1>2. tick.emitted # {} => head > 0
  <2>1. ASSUME tick.emitted # {} PROVE tick.priors # {}
    <3>1. PICK e \in tick.emitted : e \in Entry
      BY <2>1, LoopFields DEF BaseInv
    <3>2. e.act = "available" \/ e.act = "withdrawn"
      BY <3>1, EntryFields
    <3>3. Blocks(tick.emitted, "available") = {} /\ Blocks(tick.emitted, "withdrawn") = tick.priors
      BY <1>1 DEF BaseInv, TickOK
    <3>4. e.block \in Blocks(tick.emitted, e.act)
      BY DEF Blocks
    <3> QED BY <3>2, <3>3, <3>4
  <2>2. tick.priors \subseteq active /\ cursor.sequence \in Nat /\ head \in Nat
    BY LoopFields DEF BaseInv, TickOK, LoopType
  <2> QED BY <2>1, <2>2 DEF SequenceOK
<1>3. SequenceOK'
  <2>1. Blocks(tick.emitted, "available") = {}
    BY <1>1 DEF BaseInv, TickOK
  <2> QED BY <1>1, <1>2, <2>1 DEF SequenceOK, InTick, LoopKept, TickKept, ArchKept
<1>4. Top' = Top /\ Archive' = Archive /\ Written' = Written
  BY <1>1 DEF Top, Archive, Written, ArchKept
<1> QED BY <1>1, <1>3, <1>4 DEF ArchiveOK, ArchKept

\* The transaction that ends a tick.
LEMMA ArchiveWrite ==
  ASSUME BaseInv, SequenceOK, ArchiveOK, Write
  PROVE  SequenceOK' /\ ArchiveOK'
<1>1. /\ UNCHANGED <<pages, head>> /\ tick.pc = "write" /\ tick' = NoTick
      /\ cursor'.sequence = IF tick.failed /\ tick.priors = {} THEN cursor.sequence ELSE tick.prior
      /\ active' = StillActive(Entered)
      /\ pageCount' = IF tick.seeded THEN pageCount + 1 ELSE pageCount
  BY WriteIs DEF BaseInv
<1>2. /\ head = tick.prior /\ head \in Nat /\ tick.recovered = {} /\ cursor.sequence \in Nat
      /\ pageCount \in Nat
  BY <1>1, LoopFields DEF BaseInv, SequenceOK, LoopType
<1>3. cursor'.sequence = head
  BY <1>1, <1>2 DEF SequenceOK
<1>4. active' # {} => head > 0
  <2>1. CASE active # {}
    BY <1>2, <2>1 DEF SequenceOK
  <2>2. CASE tick.emitted # {}
    BY <1>1, <2>2 DEF SequenceOK
  <2>3. CASE active = {} /\ tick.emitted = {}
    BY <1>1, <1>2, <2>3, EntryFields DEF StillActive, Entered
  <2> QED BY <2>1, <2>2, <2>3
<1>5. SequenceOK'
  BY <1>1, <1>2, <1>3, <1>4, NoTickIs DEF SequenceOK
<1>6. Top' = Top /\ Archive' = Archive /\ Written' = Written
  BY <1>1, <1>2, NoTickIs DEF Top, Archive, Written
<1>7. head = 0 => pageCount' = 0
  BY <1>1, <1>2 DEF ArchiveOK, SequenceOK
<1> QED BY <1>1, <1>5, <1>6, <1>7, NoTickIs DEF ArchiveOK

\* Every step keeps the archive a chain.
LEMMA ArchiveNext == ArchiveInv /\ [Next]_vars => ArchiveInv'
<1> SUFFICES ASSUME ArchiveInv, [Next]_vars, Whole(met') PROVE SequenceOK' /\ ArchiveOK'
  BY BaseNext DEF ArchiveInv
<1>1. BaseInv
  BY DEF ArchiveInv
<1>2. ASSUME met \subseteq met' PROVE SequenceOK /\ ArchiveOK
  BY <1>2 DEF ArchiveInv, Whole
<1>3. ASSUME met \subseteq met', LoopKept, ArchKept, tick' = tick PROVE SequenceOK' /\ ArchiveOK'
  <2>1. Top' = Top /\ Archive' = Archive /\ Written' = Written
    BY <1>3 DEF Top, Archive, Written, ArchKept
  <2> QED BY <1>2, <1>3, <2>1 DEF SequenceOK, ArchiveOK, LoopKept, ArchKept
<1>4. CASE ChainStep
  BY <1>1, <1>3, <1>4, ChainStepIs DEF ChainMove, Grows
<1>5. CASE SrcStep
  BY <1>1, <1>3, <1>5, SrcStepIs
<1>6. CASE FoldThrows
  BY <1>3, <1>6, FoldThrowsIs
<1>7. CASE Rewind
  BY <1>1, <1>3, <1>7, RewindIs DEF BaseInv
<1>8. CASE TickDies
  BY <1>1, <1>8, TickDiesIs DEF Whole, BaseInv
<1>9. CASE UNCHANGED vars
  BY <1>3, <1>9 DEF vars, loopVars, archVars, logVars, LoopKept, ArchKept
<1>10. CASE Fold
  BY <1>1, <1>2, <1>10, FoldIs, ArchiveFold DEF BaseInv
<1>11. CASE CorrectPage
  BY <1>1, <1>2, <1>11, TickFinite, CorrectPageIs, ArchiveCorrectPage DEF BaseInv, InTick
<1>12. CASE CorrectHead
  BY <1>1, <1>2, <1>12, TickFinite, CorrectHeadIs, ArchiveCorrectHead DEF BaseInv, InTick
<1>13. CASE PublishPage
  BY <1>1, <1>2, <1>13, TickFinite, PublishPageIs, ArchivePublishPage DEF BaseInv, InTick
<1>14. CASE PublishHead
  BY <1>1, <1>2, <1>14, TickFinite, PublishHeadIs, ArchivePublishHead DEF BaseInv, InTick
<1>15. CASE PublishFails
  BY <1>1, <1>2, <1>15, PublishFailsIs, ArchivePublishFails DEF BaseInv, InTick
<1>16. CASE Write
  BY <1>1, <1>2, <1>16, WriteIs, ArchiveWrite DEF BaseInv
<1>17. CASE HeadFails
  BY <1>1, <1>17, HeadFailsIs DEF Whole, BaseInv
<1> QED BY <1>4, <1>5, <1>6, <1>7, <1>8, <1>9, <1>10, <1>11, <1>12, <1>13, <1>14, <1>15, <1>16,
           <1>17
    DEF Next, TickStep, ChainStep, SrcStep

\* The archive is numbered throughout; it starts empty.
LEMMA ArchiveInvariant == Spec => []ArchiveInv
<1>1. Init => ArchiveInv
  <2> SUFFICES ASSUME Init PROVE ArchiveInv
    OBVIOUS
  <2>1. /\ cursor = NoCursor /\ active = {} /\ pages = << >> /\ pageCount = 0 /\ head = 0
        /\ tick = NoTick
    BY DEF Init
  <2>2. SequenceOK
    BY <2>1, NoTickIs DEF SequenceOK
  <2>3. Written = 0 /\ Top = 0 /\ 1..0 = {} /\ DOMAIN pages = {}
    BY <2>1, NoTickIs DEF Written, Top
  <2>4. Archive = {} /\ Numbered({}, 0)
    BY <2>3, FS_EmptySet DEF Archive, Numbered
  <2> QED BY <2>1, <2>2, <2>3, <2>4, BaseStart DEF ArchiveInv, ArchiveOK
<1> QED BY <1>1, ArchiveNext, PTL DEF Spec

\* The published archive is append-only and complete: between ticks its entries
\* are numbered 1 .. head, each number used once and none lost, whatever the
\* chain does and however often a publication fails before its page, for every
\* finality depth and chunk size, as long as no tick died half way and none went
\* on from a page without its head.
THEOREM ArchiveStaysAChain == Spec => []ArchiveIsAChain
<1>1. ArchiveInv => ArchiveIsAChain
  <2> SUFFICES ASSUME ArchiveInv, AtRest, Whole(met)
               PROVE  Sequences = 1..head /\ Cardinality(Archive) = head
    BY DEF ArchiveIsAChain, Whole
  <2>1. Numbered(Archive, Top) /\ tick.pc = "none" /\ head \in Nat
    BY DEF ArchiveInv, ArchiveOK, AtRest, BaseInv, LoopType
  <2>2. Top = head
    BY <2>1 DEF Top
  <2> QED BY <2>1, <2>2 DEF Numbered, Sequences
<1> QED BY <1>1, ArchiveInvariant, PTL

-----------------------------------------------------------------------------
(* What a source that was not torn has read *)

\* No poll was torn and no fork came back.
Stable(m) == m \cap {"torn", "returned"} = {}

\* Blocks that the projector or the source remembers.
Remembered == scanned \cup journal \cup {row.live, cursor.live}

\* What was displaced stays off the chain, and all the others were canonical once.
OrphansOK ==
  /\ \A b \in orphans : Known(b) /\ ~On(chain, b)
  /\ \A b \in scanned \cup journal : Known(b)
  /\ Started => Known(cursor.live)

\* What a poll has read is canonical: the head, the logs, the hashes.
PolledOK ==
  /\ poll.pc # "idle" =>
       /\ On(chain, poll.latest)
       /\ \A b \in Remembered : On(chain, b) => b[1] <= poll.latest[1]
  /\ Fetches =>
       /\ poll.logs = Run(chain, poll.from, Upto)
       /\ poll.blocks = Run(chain, poll.from, Scanned)
       /\ poll.mode = "reorg" =>
            ~On(chain, row.live) /\ poll.prior = {b \in scanned : b[1] > poll.finalized[1]}
       /\ poll.mode \in {"steady", "catchup"} => On(chain, row.live)

\* A batch holds no displaced block, and nothing below the origin.
HandedOK ==
  /\ \A b \in batch.logs \cup tick.batch.logs :
       b \notin orphans /\ Known(b) /\ b[1] <= row.live[1]
  /\ \A b \in journal \cup batch.logs \cup tick.batch.logs : b[1] >= origin

StableOK == OrphansOK /\ PolledOK /\ HandedOK

StableInv == BaseInv /\ (Stable(met) => StableOK)

\* A block of a run, and a block of the chain in its range.
LEMMA RunIs ==
  ASSUME NEW C \in Seq(Nat), NEW lo \in Int, NEW hi \in Int, 1 <= lo
  PROVE  /\ hi <= Len(C) => \A b \in Run(C, lo, hi) :
              On(C, b) /\ b \in Block /\ b[1] \in Nat /\ lo <= b[1] /\ b[1] <= hi
         /\ \A b \in Block : On(C, b) /\ lo <= b[1] /\ b[1] <= hi => b \in Run(C, lo, hi)
<1>1. ASSUME hi <= Len(C), NEW b \in Run(C, lo, hi)
      PROVE  On(C, b) /\ b \in Block /\ b[1] \in Nat /\ lo <= b[1] /\ b[1] <= hi
  <2>1. PICK h \in lo..hi : b = <<h, C[h]>>
    BY DEF Run
  <2>2. h \in Nat /\ h \in 1..Len(C) /\ C[h] \in Nat
    BY <1>1, <2>1
  <2>3. b[1] = h /\ b[2] = C[h]
    BY <2>1
  <2> QED BY <2>1, <2>2, <2>3 DEF On, Block
<1>2. ASSUME NEW b \in Block, On(C, b), lo <= b[1], b[1] <= hi PROVE b \in Run(C, lo, hi)
  <2>1. b = <<b[1], C[b[1]]>> /\ b[1] \in lo..hi
    BY <1>2 DEF On, Block
  <2> QED BY <2>1 DEF Run
<1> QED BY <1>1, <1>2

\* A canonical block is known.
LEMMA KnownOn ==
  ASSUME PollInv, NEW b, On(chain, b)
  PROVE  Known(b)
BY DEF PollInv, ChainOK, On, Known

\* A change of the chain keeps what is known off the chain when it is not on it.
LEMMA OffStays ==
  ASSUME BaseInv, ChainMove, "returned" \notin met', NEW b \in Block, Known(b)
  PROVE  Known(b)' /\ (On(chain', b) => On(chain, b) /\ Same(chain, chain', b[1]))
BY DEF ChainMove, Ancestry

\* What is remembered was canonical once, or is no block.
LEMMA RememberedIs ==
  ASSUME BaseInv, OrphansOK, NEW b \in Remembered
  PROVE  b \in Block /\ b[1] \in Nat /\ (Known(b) \/ (\A C : ~On(C, b)))
<1>1. b \in Block
  BY LoopFields, FieldTypes DEF Remembered, BaseInv, LoopType, PollInv, TypeOK
<1>2. ASSUME b = NoBlock PROVE \A C : ~On(C, b)
  BY <1>2, EmptyTypes DEF On
<1>3. CASE b = row.live
  <2>1. ~Polled => row.live = NoBlock
    BY EmptyTypes DEF Polled
  <2> QED BY <1>1, <1>2, <1>3, <2>1 DEF BaseInv, PollInv, RowOK, Block
<1>4. CASE b = cursor.live
  BY <1>1, <1>2, <1>4 DEF Started, OrphansOK, Block
<1>5. CASE b \in scanned \cup journal
  BY <1>1, <1>5 DEF OrphansOK, Block
<1> QED BY <1>3, <1>4, <1>5 DEF Remembered

\* A change of the chain.
LEMMA StableChain ==
  ASSUME BaseInv, StableOK, ChainStep, Stable(met')
  PROVE  StableOK'
<1>1. /\ ChainMove /\ UNCHANGED <<row, scanned, orphans, poll, batch>>
      /\ LoopKept /\ tick' = tick /\ origin' = origin
  BY ChainStepIs
<1>2. "returned" \notin met' /\ "torn" \notin met'
  BY DEF Stable
<1>3. OrphansOK /\ PolledOK /\ HandedOK
  BY DEF StableOK
<1>4. /\ orphans \subseteq Block /\ scanned \subseteq Block /\ journal \subseteq Block
      /\ batch.logs \subseteq Block /\ tick.batch.logs \subseteq Block /\ cursor.live \in Block
      /\ row.live \in Block
  BY LoopFields, BatchFields, FieldTypes DEF BaseInv, PollInv, TypeOK, LoopType
<1>5. \A b \in Block : Known(b) => Known(b)' /\ (On(chain', b) => On(chain, b))
  BY <1>1, <1>2, OffStays
<1>6. OrphansOK'
  <2>1. \A b \in orphans' : Known(b)' /\ ~On(chain', b)
    BY <1>1, <1>3, <1>4, <1>5 DEF OrphansOK
  <2>2. \A b \in scanned' \cup journal' : Known(b)'
    BY <1>1, <1>3, <1>4, <1>5 DEF OrphansOK, LoopKept
  <2>3. Started' => Known(cursor.live)'
    BY <1>1, <1>3, <1>4, <1>5 DEF OrphansOK, LoopKept, Started, Known
  <2> QED BY <2>1, <2>2, <2>3 DEF OrphansOK
<1>7. HandedOK'
  BY <1>1, <1>3, <1>4, <1>5 DEF HandedOK, LoopKept
<1>8. ASSUME poll.pc # "idle" PROVE PolledOK'
  <2>1. /\ Len(chain) <= Len(chain') /\ Same(chain', chain, Len(chain))
        /\ Len(chain) \in Nat /\ Len(chain') \in Nat
    BY <1>1, <1>2, <1>8, FieldTypes DEF ChainMove, Sees, Grows, BaseInv, PollInv
  <2>2. ASSUME NEW b \in Block, On(chain, b) PROVE On(chain', b)
    BY <2>1, <2>2 DEF On, Same, Block
  <2>3. On(chain', poll.latest) /\ poll.latest[1] <= Len(chain) /\ poll.latest[1] \in Nat
    BY <1>3, <1>8, <2>2, FieldTypes DEF PolledOK, On, BaseInv, PollInv
  <2>4. ASSUME NEW b \in Remembered', On(chain', b) PROVE b[1] <= poll.latest[1]
    <3>1. b \in Remembered
      BY <1>1 DEF Remembered, LoopKept
    <3>2. b \in Block /\ Known(b)
      BY <1>3, <2>4, <3>1, RememberedIs
    <3> QED BY <1>3, <1>5, <1>8, <2>4, <3>1, <3>2 DEF PolledOK
  <2>5. ASSUME Fetches
        PROVE  /\ poll.logs = Run(chain', poll.from, Upto)
               /\ poll.blocks = Run(chain', poll.from, Scanned)
               /\ poll.mode = "reorg" => /\ ~On(chain', row.live)
                                         /\ poll.prior = {b \in scanned : b[1] > poll.finalized[1]}
               /\ poll.mode \in {"steady", "catchup"} => On(chain', row.live)
    <3>1. /\ Upto \in Int /\ poll.from \in Int /\ 1 <= poll.from /\ Upto <= poll.to
          /\ poll.to \in Int /\ poll.to <= poll.latest[1] /\ Scanned \in Int /\ Scanned <= poll.to
      BY <2>5, RangeIs, ScannedIs DEF BaseInv
    <3>2. Upto <= Len(chain) /\ Scanned <= Len(chain)
      BY <2>1, <2>3, <3>1
    <3>3. Same(chain, chain', Len(chain))
      BY <2>1 DEF Same
    <3>4. /\ Run(chain, poll.from, Upto) = Run(chain', poll.from, Upto)
          /\ Run(chain, poll.from, Scanned) = Run(chain', poll.from, Scanned)
      BY <2>1, <3>1, <3>2, <3>3, RunSame
    <3>5. Polled /\ ~On(chain, row.live) => ~On(chain', row.live)
      BY <1>4, <1>5 DEF BaseInv, PollInv, RowOK
    <3>6. poll.mode = "reorg" => Polled
      BY <2>5 DEF BaseInv, PollInv, PollOK, Aimed
    <3>7. poll.mode \in {"steady", "catchup"} => On(chain', row.live)
      BY <1>3, <1>4, <2>2, <2>5 DEF PolledOK
    <3> QED BY <1>3, <2>5, <3>4, <3>5, <3>6, <3>7 DEF PolledOK
  <2>6. Upto' = Upto /\ Scanned' = Scanned /\ Fetches' = Fetches
    BY <1>1 DEF Upto, Scanned, Fetches
  <2> QED BY <1>1, <2>3, <2>4, <2>5, <2>6 DEF PolledOK
<1>9. ASSUME poll.pc = "idle" PROVE PolledOK'
  BY <1>1, <1>9 DEF PolledOK, Fetches
<1> QED BY <1>6, <1>7, <1>8, <1>9 DEF StableOK

\* A step of the poll that leaves the rows alone.
LEMMA StablePoll ==
  ASSUME BaseInv, StableOK, OnlyPoll, LoopKept, tick' = tick,
         Polled => origin' = origin, PolledOK', ~Polled => origin' = row'.finalized[1]
  PROVE  StableOK'
<1>1. OrphansOK'
  BY DEF StableOK, OrphansOK, OnlyPoll, LoopKept, Known, On, Started
<1>2. origin' = origin
  BY EmptyTypes DEF OnlyPoll, Polled, BaseInv, OriginOK
<1>3. HandedOK'
  BY <1>2 DEF StableOK, HandedOK, OnlyPoll, LoopKept, Known, On
<1> QED BY <1>1, <1>3 DEF StableOK

\* A poll that is idle has read nothing.
LEMMA IdleReads == (poll.pc = "idle" => PolledOK) /\ (poll'.pc = "idle" => PolledOK')
BY DEF PolledOK, Fetches

\* The head that was read stays.
LEMMA LatestRead ==
  ASSUME StableOK, OnlyPoll, LoopKept, poll.pc # "idle", poll'.latest = poll.latest
  PROVE  /\ On(chain', poll'.latest)
         /\ \A b \in Remembered' : On(chain', b) => b[1] <= poll'.latest[1]
<1>1. Remembered' = Remembered
  BY DEF Remembered, OnlyPoll, LoopKept
<1> QED BY <1>1 DEF StableOK, PolledOK, OnlyPoll

\* poll() begins to fetch: nothing is read yet.
LEMMA PolledBegins ==
  ASSUME BaseInv, StableOK, OnlyPoll, LoopKept, PollInv', poll.pc \in {"finalized", "check"},
         NEW mode, NEW final, NEW from, NEW to, NEW prior,
         Begins(mode, final, from, to, prior),
         mode = "reorg" => ~On(chain, row.live) /\ prior = {b \in scanned : b[1] > final[1]},
         mode \in {"steady", "catchup"} => On(chain, row.live)
  PROVE  PolledOK'
<1>1. /\ poll'.mode = mode /\ poll'.latest = poll.latest /\ poll'.finalized = final
      /\ poll'.from = from /\ poll'.next = from /\ poll'.to = to /\ poll'.prior = prior
      /\ poll'.pc = IF from > to THEN "commit" ELSE "logs"
      /\ poll'.logs = {} /\ poll'.blocks = {}
  BY DEF Begins, BaseInv, PollInv, PollOK
<1>2. from \in Nat /\ to \in Nat
  BY <1>1, FieldTypes DEF PollInv, TypeOK, PollType
<1>3. Upto' \in Int /\ Upto' < from /\ Scanned' \in Int /\ Scanned' < from
  BY <1>1, <1>2 DEF Upto, Scanned
<1>4. Run(chain', from, Upto') = {} /\ Run(chain', from, Scanned') = {}
  BY <1>2, <1>3, RunEmpty
<1>5. chain' = chain /\ row' = row /\ scanned' = scanned
  BY DEF OnlyPoll
<1>6. /\ On(chain', poll'.latest)
      /\ \A b \in Remembered' : On(chain', b) => b[1] <= poll'.latest[1]
  BY <1>1, LatestRead
<1> QED BY <1>1, <1>4, <1>5, <1>6 DEF PolledOK

\* The first steps of a poll.
LEMMA PolledStarts ==
  ASSUME BaseInv, StableOK, OnlyPoll, LoopKept, PollInv',
         ReadLatest \/ ReadFinalized \/ CheckReorg \/ CheckAdvance
  PROVE  PolledOK'
<1>1. CASE ReadLatest
  <2>1. poll'.pc = "finalized" /\ poll'.latest = At(Len(chain)) /\ chain' = chain
    BY <1>1, ReadLatestIs DEF BaseInv, OnlyPoll
  <2>2. Len(chain) \in 1..Len(chain)
    BY FieldTypes DEF BaseInv, PollInv, ChainOK
  <2>3. On(chain, At(Len(chain))) /\ At(Len(chain))[1] = Len(chain)
    BY <2>2, AtIs DEF BaseInv
  <2>4. ASSUME NEW b, On(chain, b) PROVE b[1] <= Len(chain)
    BY <2>4 DEF On
  <2> QED BY <2>1, <2>3, <2>4 DEF PolledOK, Fetches
<1>2. CASE ReadFinalized
  <2>1. poll.pc = "finalized"
    BY <1>2, ReadFinalizedIs DEF BaseInv
  <2>2. CASE poll'.pc = "check" /\ poll'.latest = poll.latest
    BY <2>1, <2>2, LatestRead DEF PolledOK, Fetches
  <2>3. CASE \E f \in 1..fin : Begins("first", At(f), f, poll.latest[1], poll.prior)
    <3>1. PICK mode, f : /\ mode = "first"
                         /\ Begins(mode, At(f), f, poll.latest[1], poll.prior)
      BY <2>3
    <3> QED BY <2>1, <3>1, PolledBegins
  <2> QED BY <1>2, <2>2, <2>3, ReadFinalizedIs DEF BaseInv
<1>3. CASE CheckReorg
  <2>1. poll.pc = "check" /\ ~On(chain, row.live)
    BY <1>3, CheckReorgIs DEF BaseInv
  <2>2. PICK r \in Block :
          Begins("reorg", r, r[1] + 1, poll.latest[1], {b \in scanned : b[1] > r[1]})
    BY <1>3, CheckReorgIs DEF BaseInv
  <2> QED BY <2>1, <2>2, PolledBegins
<1>4. CASE CheckAdvance
  <2>1. poll.pc = "check" /\ On(chain, row.live)
    BY <1>4, CheckAdvanceIs DEF BaseInv
  <2>2. PICK mode, to : mode \in {"catchup", "steady"}
                    /\ Begins(mode, poll.finalized, row.live[1] + 1, to, poll.prior)
    BY <1>4, CheckAdvanceIs DEF BaseInv
  <2> QED BY <2>1, <2>2, PolledBegins
<1> QED BY <1>1, <1>2, <1>3, <1>4

\* What a poll keeps while it fetches.
LEMMA PolledFetches ==
  ASSUME BaseInv, StableOK, OnlyPoll, LoopKept, KeepsAim, Fetches,
         poll'.logs = Run(chain, poll.from, Upto'),
         poll'.blocks = Run(chain, poll.from, Scanned')
  PROVE  PolledOK'
<1>1. /\ On(chain', poll'.latest)
      /\ \A b \in Remembered' : On(chain', b) => b[1] <= poll'.latest[1]
  BY LatestRead DEF Fetches, KeepsAim
<1> QED BY <1>1 DEF StableOK, PolledOK, KeepsAim, OnlyPoll

\* The range of a fetch is on the chain.
LEMMA RangeOn ==
  ASSUME BaseInv, StableOK, Fetches
  PROVE  /\ poll.to <= Len(chain) /\ poll.from \in Int /\ poll.to \in Int /\ 1 <= poll.from
         /\ Len(chain) \in Nat /\ poll.to <= poll.latest[1] /\ poll.latest[1] \in Nat
<1>1. /\ poll.from \in Int /\ poll.to \in Int /\ 1 <= poll.from
      /\ poll.to <= poll.latest[1] /\ poll.latest[1] \in Nat /\ Len(chain) \in Nat
  BY RangeIs, FieldTypes DEF BaseInv, PollInv
<1>2. poll.latest[1] <= Len(chain)
  BY DEF StableOK, PolledOK, On, Fetches
<1> QED BY <1>1, <1>2

\* One chunk of logs.
LEMMA PolledFetchChunk ==
  ASSUME BaseInv, StableOK, OnlyPoll, LoopKept, FetchChunk
  PROVE  PolledOK'
<1>1. KeepsAim /\ poll.pc = "logs" /\ poll'.blocks = poll.blocks /\ Fetches
  BY FetchChunkIs DEF BaseInv, Fetches
<1>2. PICK n \in Nat :
        /\ poll.next <= n /\ n <= poll.to
        /\ poll'.logs = poll.logs \cup Ranged(poll.next, n)
        /\ \/ n < poll.to /\ poll'.pc = "logs" /\ poll'.next = n + 1
           \/ /\ n = poll.to /\ poll'.next = poll.from
              /\ poll'.pc = IF poll.mode = "catchup" THEN "commit" ELSE "scan"
  BY FetchChunkIs DEF BaseInv
<1>3. /\ poll.to <= Len(chain) /\ poll.to \in Int /\ Len(chain) \in Nat
  BY <1>1, RangeOn
<1>4. PICK a \in Int, m \in Int : a = poll.from /\ m = poll.next /\ a <= m /\ m <= n + 1
  BY <1>1, <1>2, FieldTypes DEF BaseInv, PollInv, PollOK
<1>5. Ranged(poll.next, n) = Run(chain, m, n)
  <2>1. Smaller(n, Len(chain)) = n
    BY <1>2, <1>3 DEF Smaller
  <2> QED BY <1>4, <2>1 DEF Ranged, Run, At
<1>6. Upto = m - 1 /\ Upto' = n
  BY <1>1, <1>2, <1>3, <1>4 DEF Upto, KeepsAim
<1>7. Run(chain, a, m - 1) \cup Run(chain, m, n) = Run(chain, a, n)
  <2>1. PICK l \in Int : l = m - 1 /\ a <= m /\ m <= l + 1 /\ l <= n /\ n \in Int
    BY <1>4
  <2>2. Run(chain, a, l) \cup Run(chain, m, n) = Run(chain, a, n)
    BY <2>1, RunJoin
  <2> QED BY <2>1, <2>2
<1>8. poll'.logs = Run(chain, poll.from, Upto')
  BY <1>1, <1>2, <1>4, <1>5, <1>6, <1>7 DEF StableOK, PolledOK
<1>9. Scanned' = poll.from - 1 /\ Scanned = poll.from - 1
  <2>1. \/ poll'.pc = "logs"
        \/ poll'.pc = "commit" /\ poll.mode = "catchup"
        \/ poll'.pc = "scan" /\ poll'.next = poll.from
    BY <1>2
  <2> QED BY <1>1, <2>1 DEF Scanned, KeepsAim
<1>10. poll'.blocks = Run(chain, poll.from, Scanned')
  BY <1>1, <1>9 DEF StableOK, PolledOK
<1> QED BY <1>1, <1>8, <1>10, PolledFetches

\* One block hash.
LEMMA PolledScanBlock ==
  ASSUME BaseInv, StableOK, OnlyPoll, LoopKept, ScanBlock
  PROVE  PolledOK'
<1>1. poll.pc = "scan" /\ Fetches
  BY ScanBlockIs DEF Fetches, BaseInv
<1>2. CASE poll' = Idle
  BY <1>2, EmptyTypes, IdleReads
<1>3. CASE /\ KeepsAim /\ poll'.logs = poll.logs /\ poll.next \in 1..Len(chain)
           /\ poll'.blocks = poll.blocks \cup {At(poll.next)} /\ poll'.next = poll.next + 1
           /\ poll'.pc = IF poll.next < poll.to THEN "scan" ELSE "commit"
  <2>1. PICK a \in Int, m \in Int :
          /\ a = poll.from /\ m = poll.next /\ a <= m /\ m <= m + 1 /\ m <= poll.to
          /\ poll.mode # "catchup" /\ poll.to \in Int
    BY <1>1, FieldTypes DEF BaseInv, PollInv, PollOK
  <2>2. Scanned = m - 1 /\ Scanned' = m
    BY <1>1, <1>3, <2>1 DEF Scanned, KeepsAim
  <2>3. Run(chain, a, m - 1) \cup Run(chain, m, m) = Run(chain, a, m)
    <3>1. PICK l \in Int : l = m - 1 /\ a <= m /\ m <= l + 1 /\ l <= m
      BY <2>1
    <3>2. Run(chain, a, l) \cup Run(chain, m, m) = Run(chain, a, m)
      BY <3>1, RunJoin
    <3> QED BY <3>1, <3>2
  <2>4. Run(chain, m, m) = {At(m)}
    <3>1. m..m = {m}
      BY <2>1
    <3> QED BY <3>1 DEF Run, At
  <2>5. poll'.blocks = Run(chain, poll.from, Scanned')
    BY <1>1, <1>3, <2>1, <2>2, <2>3, <2>4 DEF StableOK, PolledOK
  <2>6. Upto' = Upto
    BY <1>1, <1>3 DEF Upto, KeepsAim
  <2>7. poll'.logs = Run(chain, poll.from, Upto')
    BY <1>1, <1>3, <2>6 DEF StableOK, PolledOK
  <2> QED BY <1>1, <1>3, <2>5, <2>7, PolledFetches
<1> QED BY <1>2, <1>3, ScanBlockIs DEF BaseInv

\* What a commit hands over is the canonical range, and what it displaces is
\* no longer on the chain.
LEMMA CommitReads ==
  ASSUME BaseInv, StableOK, Commit
  PROVE  LET out == IF poll.mode = "reorg" THEN Displaced ELSE {} IN
         /\ poll.logs = Run(chain, poll.from, poll.to)
         /\ poll.blocks = IF poll.mode = "catchup" THEN {} ELSE poll.logs
         /\ \A b \in poll.logs : /\ b \in Block /\ On(chain, b) /\ b[1] \in Nat
                                 /\ poll.from <= b[1] /\ b[1] <= poll.to
         /\ \A b \in out : b \in Block /\ Known(b) /\ ~On(chain, b)
         /\ On(chain, row'.live) /\ poll.to = row'.live[1]
<1> DEFINE out == IF poll.mode = "reorg" THEN Displaced ELSE {}
<1>1. /\ poll.pc = "commit" /\ Fetches
      /\ row'.live = IF poll.mode = "catchup" THEN poll.finalized ELSE poll.latest
  BY CommitIs DEF BaseInv, Fetches
<1>2. /\ poll.to <= Len(chain) /\ poll.from \in Int /\ poll.to \in Int /\ 1 <= poll.from
      /\ Len(chain) \in Nat /\ poll.latest[1] \in Nat
  BY <1>1, RangeOn
<1>3. Upto = poll.to /\ Scanned = IF poll.mode = "catchup" THEN poll.from - 1 ELSE poll.to
  BY <1>1 DEF Upto, Scanned
<1>4. poll.logs = Run(chain, poll.from, poll.to)
  BY <1>1, <1>3 DEF StableOK, PolledOK
<1>5. poll.blocks = IF poll.mode = "catchup" THEN {} ELSE poll.logs
  <2>1. Run(chain, poll.from, poll.from - 1) = {}
    BY <1>2, RunEmpty
  <2> QED BY <1>1, <1>3, <1>4, <2>1 DEF StableOK, PolledOK
<1>6. \A b \in poll.logs : /\ b \in Block /\ On(chain, b) /\ b[1] \in Nat
                           /\ poll.from <= b[1] /\ b[1] <= poll.to
  BY <1>2, <1>4, RunIs DEF BaseInv, PollInv, TypeOK
<1>7. On(chain, row'.live) /\ poll.to = row'.live[1]
  <2>1. On(chain, poll.latest) /\ On(chain, poll.finalized)
    BY <1>1 DEF StableOK, PolledOK, BaseInv, PollInv, PollOK, Final, Fetches
  <2>2. poll.to = IF poll.mode = "catchup" THEN poll.finalized[1] ELSE poll.latest[1]
    BY <1>1 DEF BaseInv, PollInv, PollOK, Aimed
  <2> QED BY <1>1, <2>1, <2>2
<1>8. ASSUME poll.mode = "reorg", NEW b \in Displaced PROVE b \in Block /\ Known(b) /\ ~On(chain, b)
  <2>1. /\ Polled /\ poll.from = poll.finalized[1] + 1 /\ poll.to = poll.latest[1]
        /\ ~On(chain, row.live) /\ Known(row.live) /\ row.live \in Block
        /\ poll.prior = {c \in scanned : c[1] > poll.finalized[1]} /\ scanned \subseteq Block
        /\ \A c \in Remembered : On(chain, c) => c[1] <= poll.latest[1]
        /\ poll.finalized[1] \in Nat
    BY <1>1, <1>8, FieldTypes DEF BaseInv, PollInv, PollOK, Aimed, RowOK, StableOK, PolledOK,
       Fetches, TypeOK
  <2>2. CASE b = row.live
    BY <2>1, <2>2
  <2>3. CASE b \in poll.prior \ poll.blocks
    <3>1. b \in scanned /\ b \in Block /\ b[1] > poll.finalized[1] /\ Known(b) /\ b \in Remembered
      BY <2>1, <2>3 DEF StableOK, OrphansOK, Remembered
    <3>2. ASSUME On(chain, b) PROVE FALSE
      <4>1. b[1] <= poll.to /\ poll.from <= b[1]
        <5>1. b[1] \in Nat
          BY <3>1 DEF Block
        <5> QED BY <2>1, <3>1, <3>2, <5>1
      <4>2. b \in Run(chain, poll.from, poll.to)
        BY <1>2, <3>1, <3>2, <4>1, RunIs DEF BaseInv, PollInv, TypeOK
      <4> QED BY <1>4, <1>5, <1>8, <2>3, <4>2
    <3> QED BY <3>1, <3>2
  <2> QED BY <1>8, <2>2, <2>3 DEF Displaced
<1> QED BY <1>4, <1>5, <1>6, <1>7, <1>8

\* The final transaction.
LEMMA StableCommit ==
  ASSUME BaseInv, StableOK, Commit, SrcStep
  PROVE  StableOK'
<1> DEFINE out == IF poll.mode = "reorg" THEN Displaced ELSE {}
<1>1. /\ UNCHANGED <<chain, abandoned, forks, fin, met>> /\ poll.pc = "commit" /\ poll' = Idle
      /\ scanned' = Pruned((scanned \ out) \cup poll.blocks, Checkpoint[1])
      /\ orphans' = orphans \cup out /\ batch'.logs = poll.logs
      /\ row'.finalized = Checkpoint
  BY CommitIs DEF BaseInv
<1>2. /\ tick = NoTick /\ tick' = tick /\ LoopKept
      /\ Polled => origin' = origin
      /\ ~Polled => origin' = row'.finalized[1]
  BY SrcStepIs
<1>3. /\ poll.blocks \subseteq poll.logs
      /\ \A b \in poll.logs : /\ b \in Block /\ On(chain, b) /\ b[1] \in Nat
                              /\ poll.from <= b[1] /\ b[1] <= poll.to
      /\ \A b \in out : b \in Block /\ Known(b) /\ ~On(chain, b)
      /\ poll.to = row'.live[1]
  BY CommitReads
<1> HIDE DEF out
<1>4. \A b : On(chain', b) = On(chain, b) /\ Known(b)' = Known(b)
  BY <1>1 DEF Known, On
<1>5. \A b \in poll.logs : Known(b)
  BY <1>3, KnownOn DEF BaseInv
<1>6. OrphansOK'
  <2>1. scanned' \subseteq scanned \cup poll.logs /\ journal' = journal /\ cursor' = cursor
    BY <1>1, <1>2, <1>3 DEF Pruned, LoopKept
  <2>2. Started' = Started /\ Known(cursor.live)' = Known(cursor.live)
    BY <1>1, <2>1 DEF Started, Known, On
  <2>3. \A b \in scanned' \cup journal' : Known(b)'
    BY <1>4, <1>5, <2>1 DEF StableOK, OrphansOK
  <2>4. \A b \in orphans' : Known(b)' /\ ~On(chain', b)
    BY <1>1, <1>3, <1>4 DEF StableOK, OrphansOK
  <2> QED BY <2>2, <2>3, <2>4 DEF StableOK, OrphansOK
<1>7. tick'.batch.logs = {}
  BY <1>2, NoTickIs
<1>8. \A b \in poll.logs : b[1] >= origin'
  <2>1. /\ Aimed /\ poll.finalized[1] \in Nat /\ row.live[1] \in Nat /\ row.finalized[1] \in Nat
        /\ origin \in Nat /\ Checkpoint[1] \in Nat
    BY <1>1, FieldTypes, CheckpointIs DEF BaseInv, PollInv, PollOK, Fetches, LoopType
  <2>2. CASE Polled
    <3>1. origin <= row.finalized[1] /\ row.finalized[1] <= row.live[1]
      BY <2>2 DEF BaseInv, OriginOK, PollInv, RowOK
    <3>2. poll.from >= origin /\ poll.from \in Nat
      BY <2>1, <2>2, <3>1 DEF Aimed
    <3> QED BY <1>2, <1>3, <2>1, <2>2, <3>2
  <2>3. CASE ~Polled
    <3>1. Checkpoint = poll.finalized /\ poll.from = poll.finalized[1]
      BY <2>1, <2>3 DEF Checkpoint, Aimed
    <3> QED BY <1>1, <1>2, <1>3, <2>1, <2>3, <3>1
  <2> QED BY <2>2, <2>3
<1>9. \A b \in journal : b[1] >= origin'
  <2>1. CASE Polled
    BY <1>2, <2>1 DEF StableOK, HandedOK
  <2>2. CASE ~Polled
    BY <2>2 DEF BaseInv, OriginOK
  <2> QED BY <2>1, <2>2
<1>10. HandedOK'
  <2>1. \A b \in poll.logs : b \notin orphans'
    BY <1>1, <1>3 DEF StableOK, OrphansOK
  <2> QED BY <1>1, <1>2, <1>3, <1>4, <1>5, <1>7, <1>8, <1>9, <2>1 DEF HandedOK, LoopKept
<1> QED BY <1>1, <1>6, <1>10, IdleReads, EmptyTypes DEF StableOK

\* A step of the source.
LEMMA StableSource ==
  ASSUME BaseInv, BaseInv', StableOK, SrcStep
  PROVE  StableOK'
<1>1. /\ tick = NoTick /\ tick' = tick /\ LoopKept
      /\ Polled => origin' = origin
      /\ ~Polled => origin' = row'.finalized[1]
      /\ \/ /\ \/ ReadLatest \/ ReadFinalized \/ CheckReorg \/ CheckAdvance
               \/ FetchChunk \/ ScanBlock \/ CheckMissing \/ PollFails
            /\ OnlyPoll
         \/ CheckNoProgress \/ Commit
  BY SrcStepIs
<1>2. CASE OnlyPoll /\ (ReadLatest \/ ReadFinalized \/ CheckReorg \/ CheckAdvance)
  BY <1>1, <1>2, PolledStarts, StablePoll DEF BaseInv
<1>3. CASE OnlyPoll /\ FetchChunk
  BY <1>1, <1>3, PolledFetchChunk, StablePoll
<1>4. CASE OnlyPoll /\ ScanBlock
  BY <1>1, <1>4, PolledScanBlock, StablePoll
<1>5. CASE OnlyPoll /\ (CheckMissing \/ PollFails)
  BY <1>1, <1>5, IdleIs, IdleReads, EmptyTypes, StablePoll
<1>6. CASE CheckNoProgress
  <2>1. /\ UNCHANGED <<chain, abandoned, forks, fin, row, scanned, orphans, met>>
        /\ poll' = Idle /\ poll.pc = "check" /\ batch'.logs = {}
    BY <1>6, NoProgressIs DEF BaseInv
  <2>2. PolledOK' /\ Polled
    BY <2>1, IdleReads, EmptyTypes DEF BaseInv, PollInv, PollOK
  <2>3. OrphansOK'
    BY <1>1, <2>1 DEF StableOK, OrphansOK, LoopKept, Known, On, Started
  <2>4. HandedOK'
    BY <1>1, <2>1, <2>2 DEF StableOK, HandedOK, LoopKept, Known, On
  <2> QED BY <2>2, <2>3, <2>4 DEF StableOK
<1>7. CASE Commit
  BY <1>7, StableCommit
<1> QED BY <1>1, <1>2, <1>3, <1>4, <1>5, <1>6, <1>7

\* A step of the loop that leaves the source and the journal alone, and adds no
\* batch.
LEMMA StableLoop ==
  ASSUME BaseInv, StableOK, LoopKept, origin' = origin, poll.pc = "idle",
         UNCHANGED <<chain, abandoned, forks, fin, scanned, orphans, poll>>,
         batch'.logs \cup tick'.batch.logs \subseteq batch.logs \cup tick.batch.logs,
         row' = row \/ batch'.logs \cup tick'.batch.logs = {}
  PROVE  StableOK'
<1>1. OrphansOK'
  BY DEF StableOK, OrphansOK, LoopKept, Known, On, Started
<1>2. HandedOK'
  BY DEF StableOK, HandedOK, LoopKept, Known, On
<1> QED BY <1>1, <1>2, IdleReads DEF StableOK

\* While a batch waits or a tick runs, no poll does.
LEMMA NoPoll ==
  ASSUME BaseInv, batch # NoBatch \/ tick.pc # "none"
  PROVE  poll.pc = "idle"
BY DEF BaseInv, TickOK, PollInv, PollOK

\* The transaction that ends a tick.
LEMMA StableWrite ==
  ASSUME BaseInv, StableOK, Write
  PROVE  StableOK'
<1>1. /\ SourceKept /\ UNCHANGED <<met, missed, dropped, origin, pages, head, everPublished>>
      /\ tick.pc = "write" /\ tick' = NoTick
      /\ cursor'.live = tick.batch.cursor
      /\ journal' = (journal \ Outs) \cup (Events \ orphaned')
  BY WriteIs DEF BaseInv
<1>2. /\ batch.logs = {} /\ tick.batch.cursor = row.live /\ poll.pc = "idle" /\ Polled
      /\ tick'.batch.logs = {}
  BY <1>1, EmptyTypes, NoTickIs DEF BaseInv, TickOK
<1>3. journal' \subseteq journal \cup tick.batch.logs
  BY <1>1 DEF Events
<1>4. OrphansOK'
  <2>1. Known(cursor.live)'
    BY <1>1, <1>2 DEF BaseInv, PollInv, RowOK, SourceKept, Known, On
  <2> QED BY <1>1, <1>3, <2>1 DEF StableOK, OrphansOK, HandedOK, SourceKept, Known, On
<1>5. HandedOK'
  BY <1>1, <1>2, <1>3 DEF StableOK, HandedOK, SourceKept
<1> QED BY <1>1, <1>2, <1>4, <1>5, IdleReads DEF StableOK, SourceKept

\* Every step keeps it.
LEMMA StableNext == StableInv /\ [Next]_vars => StableInv'
<1> SUFFICES ASSUME StableInv, [Next]_vars, Stable(met') PROVE StableOK'
  BY BaseNext DEF StableInv
<1>1. BaseInv /\ BaseInv'
  BY BaseNext DEF StableInv
<1>2. ASSUME met \subseteq met' PROVE StableOK
  BY <1>2 DEF StableInv, Stable
<1>3. ASSUME SourceKept, LoopKept, TickKept, met \subseteq met', origin' = origin,
             tick.pc # "none"
      PROVE  StableOK'
  BY <1>1, <1>2, <1>3, NoPoll, StableLoop DEF SourceKept, TickKept
<1>4. CASE ChainStep
  BY <1>1, <1>2, <1>4, ChainStepIs, StableChain DEF ChainMove, Grows
<1>5. CASE SrcStep
  BY <1>1, <1>2, <1>5, SrcStepIs, StableSource
<1>6. CASE FoldThrows
  <2>1. batch'.logs = {} /\ tick' = tick
    BY <1>6, FoldThrowsIs, EmptyTypes
  <2> QED BY <1>1, <1>2, <1>6, <2>1, FoldThrowsIs, NoPoll, StableLoop
<1>7. CASE Rewind
  <2>1. /\ UNCHANGED <<chain, abandoned, forks, fin, scanned, orphans, poll, batch, tick>>
        /\ LoopKept /\ origin' = origin /\ met \subseteq met' /\ poll.pc = "idle"
        /\ batch = NoBatch /\ tick.pc = "none"
    BY <1>1, <1>7, RewindIs DEF BaseInv
  <2>2. batch.logs = {} /\ tick.batch.logs = {}
    BY <1>1, <2>1, EmptyTypes, NoTickIs DEF BaseInv, TickOK
  <2> QED BY <1>1, <1>2, <2>1, <2>2, StableLoop
<1>8. CASE TickDies
  <2>1. batch'.logs = {} /\ tick'.batch.logs = {} /\ poll.pc = "idle"
    BY <1>1, <1>8, TickDiesIs, EmptyTypes, NoTickIs, NoPoll DEF TickDies, BaseInv
  <2> QED BY <1>1, <1>2, <1>8, <2>1, TickDiesIs, StableLoop DEF BaseInv
<1>9. CASE UNCHANGED vars
  <2>1. /\ UNCHANGED <<chain, abandoned, forks, fin, row, scanned, orphans, poll, batch, met>>
        /\ UNCHANGED <<cursor, journal, tick, origin>>
    BY <1>9 DEF vars, logVars, chainVars, rowVars, loopVars
  <2> QED BY <1>2, <2>1 DEF StableOK, OrphansOK, PolledOK, HandedOK, Known, On, Started,
             Remembered, Fetches, Upto, Scanned
<1>10. CASE Fold
  <2>1. batch'.logs = {} /\ tick'.batch.logs \subseteq batch.logs
    BY <1>1, <1>10, FoldIs, EmptyTypes DEF BaseInv
  <2> QED BY <1>1, <1>2, <1>10, <2>1, FoldIs, NoPoll, StableLoop DEF BaseInv
<1>11. CASE CorrectPage
  BY <1>1, <1>3, <1>11, TickFinite, CorrectPageIs DEF BaseInv, InTick
<1>12. CASE CorrectHead
  BY <1>1, <1>3, <1>12, TickFinite, CorrectHeadIs DEF BaseInv, InTick
<1>13. CASE PublishPage
  BY <1>1, <1>3, <1>13, TickFinite, PublishPageIs DEF BaseInv, InTick
<1>14. CASE PublishHead
  BY <1>1, <1>3, <1>14, TickFinite, PublishHeadIs DEF BaseInv, InTick
<1>15. CASE PublishFails
  BY <1>1, <1>3, <1>15, PublishFailsIs DEF BaseInv, InTick
<1>16. CASE Write
  BY <1>1, <1>2, <1>16, WriteIs, StableWrite DEF BaseInv
<1>17. CASE HeadFails
  BY <1>1, <1>3, <1>17, HeadFailsIs DEF BaseInv
<1> QED BY <1>4, <1>5, <1>6, <1>7, <1>8, <1>9, <1>10, <1>11, <1>12, <1>13, <1>14, <1>15, <1>16,
           <1>17
    DEF Next, TickStep, ChainStep, SrcStep

\* Nothing was read before the first poll.
LEMMA StableStart == Init => StableInv
<1> SUFFICES ASSUME Init PROVE StableInv
  OBVIOUS
<1>1. /\ LogInit /\ cursor = NoCursor /\ journal = {} /\ tick = NoTick /\ BaseInv
  BY BaseStart DEF Init
<1>2. /\ orphans = {} /\ scanned = {} /\ poll.pc = "idle" /\ batch.logs = {} /\ ~Started
      /\ tick.batch.logs = {}
  BY <1>1, EmptyTypes, NoTickIs DEF LogInit, Started
<1> QED BY <1>1, <1>2, IdleReads DEF StableInv, StableOK, OrphansOK, HandedOK

\* What a source that was not torn has read stays canonical or known.
LEMMA StableInvariant == Spec => []StableInv
BY StableStart, StableNext, PTL DEF Spec

-----------------------------------------------------------------------------
(* Announcements *)

Published == {e[1] : e \in everPublished}

\* The tick is about to announce.
Announces == tick.pc \in {"correct", "correctHead", "publish"}

\* What was announced is journalled, or will be when the tick writes.
Journalled ==
  "unjournalled" \notin met =>
    /\ Published \subseteq journal \cup orphaned \cup Blocks(tick.emitted, "available")
    /\ Announces => tick.fresh \cap Published = {}

\* While the chain only grows, the batches do.
Unforked ==
  forks = 0 /\ "rewound" \notin met =>
    /\ \A b \in Published : b[1] <= row.live[1]
    /\ \A b \in Published : \A l \in batch.logs : b[1] < l[1]
    /\ Announces => tick.fresh \cap Published = {}

OnceInv == StableInv /\ (Stable(met) => Journalled /\ Unforked) /\ AnnouncedOnce

\* What is announced has a height.
LEMMA PublishedType ==
  ASSUME BaseInv
  PROVE  Published \subseteq Block /\ \A b \in Published : b[1] \in Nat
<1>1. Published \subseteq Block
  BY DEF BaseInv, LoopType, Published
<1> QED BY <1>1 DEF Block

\* A batch without events, and the same announcements.
LEMMA OnceKept ==
  ASSUME Journalled, Unforked, UNCHANGED <<everPublished, journal, orphaned, row>>,
         batch'.logs = {} \/ batch' = batch, met \subseteq met', forks' = 0 => forks = 0,
         Announces' => Announces /\ tick'.fresh = tick.fresh,
         "unjournalled" \in met' \/
           Blocks(tick.emitted, "available") \subseteq Blocks(tick'.emitted, "available")
  PROVE  Journalled' /\ Unforked'
<1>1. Published' = Published
  BY DEF Published
<1>2. Journalled'
  BY <1>1 DEF Journalled
<1>3. Unforked'
  BY <1>1 DEF Unforked
<1> QED BY <1>2, <1>3

\* The batch of a chain that only grew is above all that was announced.
LEMMA OnceCommit ==
  ASSUME BaseInv, StableOK, Journalled, Unforked, Commit, SrcStep
  PROVE  Journalled' /\ Unforked'
<1>1. /\ UNCHANGED <<chain, abandoned, forks, fin, met>> /\ poll.pc = "commit"
      /\ batch'.logs = poll.logs /\ Fetches
  BY CommitIs DEF BaseInv, Fetches
<1>2. /\ tick' = tick /\ LoopKept /\ ArchKept /\ tick = NoTick
  BY SrcStepIs
<1>3. Published' = Published /\ ~Announces' /\ Blocks(tick'.emitted, "available")
        = Blocks(tick.emitted, "available")
  BY <1>2, NoTickIs DEF Published, ArchKept, Announces
<1>4. Journalled'
  BY <1>1, <1>2, <1>3 DEF Journalled, LoopKept
<1>5. ASSUME forks = 0, "rewound" \notin met, NEW b \in Published
      PROVE  b[1] <= row'.live[1] /\ \A l \in poll.logs : b[1] < l[1]
  <2>1. Polled
    BY <1>5 DEF BaseInv, OriginOK, Published
  <2>2. On(chain, row.live)
    <3>1. Known(row.live) /\ row.live[2] \in Nat
      BY <2>1, FieldTypes DEF BaseInv, PollInv, RowOK, Block
    <3> QED BY <1>5, <3>1 DEF Known
  <2>3. /\ poll.mode # "reorg" /\ Aimed
    BY <1>1, <2>2 DEF StableOK, PolledOK, BaseInv, PollInv, PollOK
  <2>4. poll.from = row.live[1] + 1 /\ poll.from <= poll.to
    BY <2>1, <2>3 DEF Aimed
  <2>5. /\ b[1] \in Nat /\ b[1] <= row.live[1] /\ row.live[1] \in Nat /\ poll.to \in Int
    BY <1>1, <1>5, PublishedType, FieldTypes, RangeOn DEF Unforked, BaseInv, PollInv
  <2>6. /\ poll.to = row'.live[1]
        /\ \A l \in poll.logs : l[1] \in Nat /\ poll.from <= l[1]
    BY CommitReads
  <2> QED BY <2>4, <2>5, <2>6
<1>6. Unforked'
  BY <1>1, <1>3, <1>5 DEF Unforked
<1> QED BY <1>4, <1>6

\* The source.
LEMMA OnceSource ==
  ASSUME BaseInv, StableOK, Journalled, Unforked, SrcStep
  PROVE  Journalled' /\ Unforked'
<1>1. /\ tick' = tick /\ LoopKept /\ ArchKept /\ UNCHANGED <<forks, met>>
      /\ OnlyPoll \/ CheckNoProgress \/ Commit
  BY SrcStepIs
<1>2. Announces' = Announces
  BY <1>1 DEF Announces
<1>3. CASE OnlyPoll
  BY <1>1, <1>2, <1>3, OnceKept DEF OnlyPoll, LoopKept, ArchKept
<1>4. CASE CheckNoProgress
  BY <1>1, <1>2, <1>4, NoProgressIs, OnceKept DEF BaseInv, LoopKept, ArchKept
<1> QED BY <1>1, <1>3, <1>4, OnceCommit

\* The fold drops what was announced before.
LEMMA OnceFold ==
  ASSUME BaseInv, StableOK, Journalled, Unforked, Fold
  PROVE  Journalled' /\ Unforked'
<1>1. /\ UNCHANGED <<forks, row, met>> /\ LoopKept /\ ArchKept
      /\ batch'.logs = {} /\ tick.pc = "none" /\ tick'.emitted = {}
      /\ tick'.batch.logs \subseteq batch.logs /\ tick'.fresh = Fresh(tick'.batch.logs)
  BY FoldIs, EmptyTypes DEF BaseInv
<1>2. Published' = Published /\ tick.emitted = {}
  BY <1>1 DEF Published, ArchKept, BaseInv, TickOK
<1>3. tick'.fresh \subseteq batch.logs \ journal /\ tick'.fresh \cap orphaned = {}
  <2>1. batch.logs \cap orphaned = {}
    BY DEF StableOK, HandedOK, BaseInv, OriginOK
  <2> QED BY <1>1, <2>1 DEF Fresh
<1>4. Journalled'
  <2>1. Blocks({}, "available") = {}
    BY EntryFields
  <2> QED BY <1>1, <1>2, <1>3, <2>1 DEF Journalled, LoopKept
<1>5. Unforked'
  <2>1. ASSUME forks = 0, "rewound" \notin met, NEW b \in tick'.fresh, b \in Published PROVE FALSE
    <3>1. b[1] < b[1] /\ b[1] \in Nat
      BY <1>3, <2>1, PublishedType DEF Unforked
    <3> QED BY <3>1
  <2> QED BY <1>1, <1>2, <2>1 DEF Unforked
<1> QED BY <1>4, <1>5

\* The announcement.
LEMMA OncePublish ==
  ASSUME BaseInv, BaseInv', StableOK, Journalled, Unforked, PublishPage
  PROVE  Journalled' /\ Unforked' /\ Published' = Published \cup tick.fresh
<1> DEFINE new == Entries(tick.fresh, "available", tick.prior)
<1>1. /\ InTick /\ tick.pc = "publish" /\ tick'.emitted = tick.emitted \cup new
      /\ everPublished' = everPublished \cup {<<b, Times(b)>> : b \in tick.fresh}
      /\ tick'.pc = "publishHead"
  BY TickFinite, PublishPageIs DEF BaseInv
<1>2. Published' = Published \cup tick.fresh
  <2>1. ASSUME NEW b \in tick.fresh
        PROVE  <<b, Times(b)>> \in everPublished' /\ <<b, Times(b)>>[1] = b
    BY <1>1
  <2>2. ASSUME NEW e \in everPublished' PROVE e \in everPublished \/ e[1] \in tick.fresh
    BY <1>1
  <2>3. everPublished \subseteq everPublished'
    BY <1>1
  <2> QED BY <2>1, <2>2, <2>3 DEF Published
<1>3. tick.fresh \subseteq Blocks(tick'.emitted, "available") /\ Blocks(tick.emitted, "available") = {}
  <2>1. Blocks(new, "available") = tick.fresh
    BY TickFinite, EntriesType
  <2>2. Blocks(tick.emitted \cup new, "available")
          = Blocks(tick.emitted, "available") \cup Blocks(new, "available")
    BY EntryFields
  <2> QED BY <1>1, <2>1, <2>2 DEF BaseInv, TickOK
<1>4. Journalled'
  BY <1>1, <1>2, <1>3 DEF Journalled, InTick, LoopKept, Announces
<1>5. Unforked'
  <2>1. \A b \in tick.fresh : b[1] <= row.live[1]
    BY DEF BaseInv, TickOK, StableOK, HandedOK
  <2>2. batch'.logs = {}
    BY <1>1, EmptyTypes DEF BaseInv, TickOK, InTick, SourceKept
  <2> QED BY <1>1, <1>2, <2>1, <2>2 DEF Unforked, InTick, SourceKept, Announces
<1> QED BY <1>2, <1>4, <1>5

\* The write journals what was announced.
LEMMA OnceWrite ==
  ASSUME BaseInv, Journalled, Unforked, Write
  PROVE  Journalled' /\ Unforked'
<1>1. /\ SourceKept /\ UNCHANGED <<met, everPublished>>
      /\ tick.pc = "write" /\ tick' = NoTick
      /\ orphaned' = orphaned \cup (journal \cap Outs)
      /\ journal' = (journal \ Outs) \cup (Events \ orphaned')
  BY WriteIs DEF BaseInv
<1>2. Published' = Published /\ ~Announces'
  BY <1>1, NoTickIs DEF Published, Announces
<1>3. Blocks(tick.emitted, "available") \subseteq Events
  BY DEF BaseInv, TickOK, Events
<1>4. journal \cup orphaned \cup Events \subseteq journal' \cup orphaned'
  BY <1>1
<1>5. Journalled'
  BY <1>1, <1>2, <1>3, <1>4 DEF Journalled
<1>6. Unforked'
  BY <1>1, <1>2 DEF Unforked, SourceKept
<1> QED BY <1>5, <1>6

\* A tick that dies after announcing is remembered.
LEMMA OnceDies ==
  ASSUME BaseInv, Journalled, Unforked, TickDies
  PROVE  Journalled' /\ Unforked'
<1>1. /\ UNCHANGED <<forks, row, everPublished>> /\ LoopKept /\ batch'.logs = {}
      /\ tick' = NoTick /\ met \subseteq met' /\ (Announced => "unjournalled" \in met')
  BY TickDiesIs, EmptyTypes DEF BaseInv
<1>2. Announced \/ Blocks(tick.emitted, "available") = {}
  <2>1. Blocks({}, "available") = {}
    BY EntryFields
  <2> QED BY <2>1 DEF Announced, BaseInv, TickOK, LoopType, TickType
<1>3. ~Announces'
  BY <1>1, NoTickIs DEF Announces
<1> QED BY <1>1, <1>2, <1>3, OnceKept DEF LoopKept

\* Every step of the loop keeps what was announced once.
LEMMA OnceNext == OnceInv /\ [Next]_vars => OnceInv'
<1> SUFFICES ASSUME OnceInv, [Next]_vars
             PROVE  (Stable(met') => Journalled' /\ Unforked') /\ AnnouncedOnce'
  BY StableNext DEF OnceInv
<1>1. BaseInv /\ BaseInv' /\ StableInv /\ AnnouncedOnce
  BY BaseNext DEF OnceInv, StableInv
<1>2. ASSUME met \subseteq met', Stable(met') PROVE StableOK /\ Journalled /\ Unforked
  BY <1>1, <1>2 DEF OnceInv, Stable, StableInv
<1>3. ASSUME met \subseteq met', everPublished' = everPublished, forks' = 0 => forks = 0
      PROVE  AnnouncedOnce'
  BY <1>1, <1>3 DEF AnnouncedOnce
<1>4. ASSUME SourceKept, LoopKept, TickKept, met \subseteq met', everPublished' = everPublished,
             Announces' => Announces,
             Blocks(tick.emitted, "available") \subseteq Blocks(tick'.emitted, "available")
      PROVE  (Stable(met') => Journalled' /\ Unforked') /\ AnnouncedOnce'
  BY <1>2, <1>3, <1>4, OnceKept DEF SourceKept, LoopKept, TickKept
<1>5. CASE ChainStep
  <2>1. /\ UNCHANGED <<row, batch, tick, everPublished, journal, orphaned>> /\ met \subseteq met'
        /\ forks <= forks' /\ forks \in Nat /\ forks' \in Nat
    BY <1>1, <1>5, ChainStepIs, FieldTypes
       DEF ChainMove, Grows, LoopKept, ArchKept, BaseInv, PollInv, TypeOK
  <2>2. Announces' = Announces
    BY <2>1 DEF Announces
  <2>3. forks' = 0 => forks = 0
    BY <2>1
  <2> QED BY <1>2, <1>3, <2>1, <2>2, <2>3, OnceKept
<1>6. CASE SrcStep
  BY <1>1, <1>2, <1>3, <1>6, SrcStepIs, OnceSource DEF ArchKept
<1>7. CASE FoldThrows
  <2>1. /\ UNCHANGED <<row, forks, tick, everPublished, journal, orphaned, met>> /\ batch'.logs = {}
    BY <1>7, FoldThrowsIs, EmptyTypes DEF LoopKept, ArchKept
  <2>2. Announces' = Announces
    BY <2>1 DEF Announces
  <2> QED BY <1>2, <1>3, <2>1, <2>2, OnceKept
<1>8. CASE Rewind
  <2>1. /\ UNCHANGED <<batch, forks, tick, everPublished, journal, orphaned>>
        /\ met \subseteq met' /\ "rewound" \in met'
    BY <1>1, <1>8, RewindIs DEF LoopKept, ArchKept, BaseInv
  <2>2. Announces' = Announces /\ Published' = Published
    BY <2>1 DEF Announces, Published
  <2>3. Stable(met') => Journalled'
    BY <1>2, <2>1, <2>2 DEF Journalled
  <2> QED BY <1>3, <2>1, <2>3 DEF Unforked
<1>9. CASE TickDies
  BY <1>1, <1>2, <1>3, <1>9, TickDiesIs, OnceDies DEF BaseInv
<1>10. CASE UNCHANGED vars
  <2>1. UNCHANGED <<row, batch, forks, tick, everPublished, journal, orphaned, met>>
    BY <1>10 DEF vars, logVars, chainVars, rowVars, loopVars, archVars
  <2>2. Announces' = Announces
    BY <2>1 DEF Announces
  <2> QED BY <1>2, <1>3, <2>1, <2>2, OnceKept
<1>11. CASE Fold
  BY <1>1, <1>2, <1>3, <1>11, FoldIs, OnceFold DEF BaseInv, ArchKept
<1>12. CASE CorrectPage
  <2>1. /\ InTick /\ everPublished' = everPublished /\ tick.pc = "correct"
    BY <1>1, <1>12, TickFinite, CorrectPageIs DEF BaseInv
  <2>2. Blocks(tick.emitted, "available") = {} /\ Announces
    BY <1>1, <2>1 DEF BaseInv, TickOK, Announces
  <2> QED BY <1>4, <2>1, <2>2 DEF InTick
<1>13. CASE CorrectHead
  <2>1. /\ InTick /\ everPublished' = everPublished /\ tick.pc = "correctHead"
        /\ tick'.emitted = tick.emitted
    BY <1>1, <1>13, TickFinite, CorrectHeadIs DEF BaseInv
  <2> QED BY <1>4, <2>1 DEF Announces, InTick
<1>14. CASE PublishPage
  <2>1. /\ UNCHANGED <<met, forks>> /\ tick.pc = "publish"
        /\ everPublished' = everPublished \cup {<<b, Times(b)>> : b \in tick.fresh}
    BY <1>1, <1>14, TickFinite, PublishPageIs DEF BaseInv, InTick, SourceKept
  <2>2. Stable(met') => Journalled' /\ Unforked'
    BY <1>1, <1>2, <1>14, <2>1, OncePublish
  <2>3. ASSUME Stable(met), "unjournalled" \in met => forks = 0 /\ "rewound" \notin met
        PROVE  tick.fresh \cap Published = {} /\ \A e, f \in everPublished : e[1] = f[1] => e = f
    BY <1>1, <1>2, <2>1, <2>3 DEF AnnouncedOnce, Stable, Journalled, Unforked, Announces
  <2>4. AnnouncedOnce'
    <3> SUFFICES ASSUME Stable(met), "unjournalled" \in met => forks = 0 /\ "rewound" \notin met,
                        NEW e \in everPublished', NEW f \in everPublished', e[1] = f[1]
                 PROVE  e = f
      BY <2>1 DEF AnnouncedOnce, Stable
    <3>1. /\ tick.fresh \cap Published = {}
          /\ \A c, d \in everPublished : c[1] = d[1] => c = d
      BY <2>3
    <3>2. ASSUME NEW d \in everPublished', d \notin everPublished
          PROVE  d = <<d[1], Times(d[1])>> /\ d[1] \in tick.fresh
      BY <2>1, <3>2
    <3>3. \A d \in everPublished : d[1] \in Published
      BY DEF Published
    <3> QED BY <3>1, <3>2, <3>3
  <2> QED BY <2>2, <2>4
<1>15. CASE PublishHead
  <2>1. /\ InTick /\ everPublished' = everPublished /\ tick'.pc = "write"
        /\ tick'.emitted = tick.emitted
    BY <1>1, <1>15, TickFinite, PublishHeadIs DEF BaseInv
  <2> QED BY <1>4, <2>1 DEF Announces, InTick
<1>16. CASE PublishFails
  <2>1. /\ InTick /\ everPublished' = everPublished /\ tick'.pc = "write"
        /\ tick'.emitted = tick.emitted
    BY <1>1, <1>16, PublishFailsIs DEF BaseInv, ArchKept
  <2> QED BY <1>4, <2>1 DEF Announces, InTick
<1>17. CASE Write
  BY <1>1, <1>2, <1>3, <1>17, WriteIs, OnceWrite DEF BaseInv, SourceKept
<1>18. CASE HeadFails
  <2>1. /\ SourceKept /\ LoopKept /\ TickKept /\ met \subseteq met'
        /\ everPublished' = everPublished /\ tick'.pc = "write" /\ tick'.emitted = tick.emitted
    BY <1>1, <1>18, HeadFailsIs DEF BaseInv
  <2> QED BY <1>4, <2>1 DEF Announces
<1> QED BY <1>5, <1>6, <1>7, <1>8, <1>9, <1>10, <1>11, <1>12, <1>13, <1>14, <1>15, <1>16, <1>17,
           <1>18
    DEF Next, TickStep, ChainStep, SrcStep

\* No event is announced as available twice, whatever a reorganisation or a
\* rewind replays and wherever a tick dies, for every finality depth and chunk
\* size and any number of forks, on the conditions AnnouncedOnce names.
THEOREM AnnouncedAtMostOnce == Spec => []AnnouncedOnce
<1>1. Init => OnceInv
  <2> SUFFICES ASSUME Init PROVE OnceInv
    OBVIOUS
  <2>1. everPublished = {} /\ tick.pc = "none"
    BY NoTickIs DEF Init
  <2>2. Published = {}
    BY <2>1 DEF Published
  <2> QED BY <2>1, <2>2, StableStart DEF OnceInv, Journalled, Unforked, AnnouncedOnce, Announces
<1>2. OnceInv => AnnouncedOnce
  BY DEF OnceInv
<1> QED BY <1>1, <1>2, OnceNext, PTL DEF Spec

-----------------------------------------------------------------------------
(* The state and the chain *)

Rewound == "rewound" \in met

\* The events that the loop holds or was handed.
Handed == journal \cup batch.logs \cup tick.batch.logs

\* The rows of the source: canonical as far as the cursor is, and every event
\* handed over is reported as displaced, still on record, or final.
RowsOK ==
  /\ \A b \in scanned : /\ On(chain, row.live) => On(chain, b)
                        /\ b[1] <= fin => On(chain, b)
                        /\ ~Rewound => b[1] <= row.live[1]
  /\ \A b \in Handed : b \in orphans \/ b \in scanned \/ Final(b)
  /\ ~Rewound => \A b \in Handed : b \in orphans \/ b[1] <= row.live[1]
  /\ Polled /\ row.live[1] <= fin => On(chain, row.live)
  /\ Polled /\ Rewound => On(chain, row.live)

\* The journal is canonical when the projector's cursor is, and the state is
\* part of it.
JournalOK ==
  /\ Started /\ cursor.live[1] <= fin => On(chain, cursor.live)
  /\ Started /\ On(chain, cursor.live) => \A b \in journal : On(chain, b)
  /\ ~Rewound => \A b \in journal : b \in orphans \/ b[1] <= cursor.live[1]
  /\ \A b \in journal : b[1] <= fin => On(chain, b)
  /\ cursor.state \subseteq journal
  /\ tick.base \subseteq journal
  /\ tick.rebuild => \A b \in tick.base : Final(b)
  /\ tick.pc # "none" /\ ~tick.rebuild /\ On(chain, row.live) => \A b \in journal : On(chain, b)

StateInv == StableInv /\ (Seen => RowsOK /\ JournalOK)

\* What was seen was stable.
LEMMA SeenIs ==
  /\ Seen => Stable(met) /\ "passed" \notin met /\ ~missed
  /\ Seen' => Stable(met') /\ "passed" \notin met' /\ "returned" \notin met' /\ ~missed'
  /\ met \subseteq met' /\ (missed => missed') /\ Seen' => Seen
BY DEF Seen, Stable

\* The blocks that the loop holds have their type, and were canonical once.
LEMMA HeldType ==
  ASSUME BaseInv, StableOK
  PROVE  /\ \A b \in Handed \cup scanned \cup orphans : b \in Block /\ b[1] \in Nat /\ Known(b)
         /\ \A b \in orphans : ~On(chain, b)
<1>1. Handed \cup scanned \cup orphans \subseteq Block
  BY LoopFields, BatchFields DEF BaseInv, LoopType, PollInv, TypeOK, Handed
<1>2. \A b \in Handed \cup scanned \cup orphans : Known(b)
  BY DEF StableOK, OrphansOK, HandedOK, Handed
<1> QED BY <1>1, <1>2 DEF Block, StableOK, OrphansOK

\* A change of the chain that was seen: the chain grew under a rewound cursor,
\* and what became final had been read.
LEMMA SeenChain ==
  ASSUME BaseInv, ChainStep, Seen', NEW b \in Block, Known(b)
  PROVE  /\ On(chain', b) => On(chain, b)
         /\ On(chain', b) => \A c \in Block : c[1] <= b[1] /\ On(chain, c) => On(chain', c)
         /\ Rewound /\ On(chain, b) => On(chain', b)
         /\ Final(b) => Final(b)'
         /\ fin' # fin => chain' = chain /\ (Polled => On(chain, row.live))
                          /\ (Started => On(chain, cursor.live))
<1>1. ChainMove /\ "returned" \notin met' /\ "passed" \notin met'
  BY ChainStepIs, SeenIs
<1>2. On(chain', b) => On(chain, b) /\ Same(chain, chain', b[1])
  BY <1>1, OffStays
<1>3. ASSUME On(chain', b), NEW c \in Block, c[1] <= b[1], On(chain, c) PROVE On(chain', c)
  <2>1. Same(chain, chain', b[1]) /\ b[1] \in 1..Len(chain') /\ c[1] \in Nat /\ c[1] >= 1
        /\ b[1] \in Nat /\ Len(chain') \in Nat
    BY <1>1, <1>2, <1>3 DEF On, Block, ChainMove, Grows
  <2>2. c[1] \in 1..b[1] /\ c[1] \in 1..Len(chain')
    BY <1>3, <2>1
  <2> QED BY <1>3, <2>1, <2>2 DEF On, Same
<1>4. ASSUME Rewound, On(chain, b) PROVE On(chain', b)
  <2>1. forks' = forks
    BY <1>4, ChainStepIs, SeenIs DEF Rewound
  <2>2. /\ Len(chain) <= Len(chain') /\ Same(chain', chain, Len(chain))
        /\ Len(chain) \in Nat /\ Len(chain') \in Nat
    BY <1>1, <2>1, ChainStepIs, FieldTypes DEF ChainMove, Grows, BaseInv, PollInv
  <2> QED BY <1>4, <2>2 DEF On, Same, Block
<1>5. Final(b) => Final(b)'
  BY <1>1, FinalStays DEF BaseInv
<1>6. fin' # fin => chain' = chain /\ (Polled => On(chain, row.live))
                    /\ (Started => On(chain, cursor.live))
  BY <1>1, ChainStepIs, SeenIs DEF ChainMove, Sees
<1> QED BY <1>2, <1>3, <1>4, <1>5, <1>6

\* A change of the chain keeps rows and journal.
LEMMA StateChain ==
  ASSUME BaseInv, StableOK, RowsOK, JournalOK, ChainStep, Seen'
  PROVE  RowsOK' /\ JournalOK'
<1>1. /\ UNCHANGED <<row, scanned, orphans, poll, batch>>
      /\ LoopKept /\ tick' = tick /\ fin <= fin' /\ fin \in Nat /\ fin' \in Nat
      /\ met \subseteq met' /\ met' \subseteq met \cup {"torn", "returned", "passed"}
  BY ChainStepIs, FieldTypes DEF ChainMove, Grows, BaseInv, PollInv
<1>2. Rewound' = Rewound /\ Handed' = Handed /\ Polled' = Polled /\ Started' = Started
  BY <1>1 DEF Rewound, Handed, LoopKept, Polled, Started
<1>3. /\ \A b \in Handed \cup scanned \cup orphans : b \in Block /\ b[1] \in Nat /\ Known(b)
      /\ \A b \in orphans : ~On(chain, b)
  BY HeldType
<1>4. /\ row.live \in Block /\ row.live[1] \in Nat /\ cursor.live \in Block
      /\ cursor.live[1] \in Nat
      /\ Polled => Known(row.live)
      /\ Started => Known(cursor.live)
      /\ scanned # {} => Polled
      /\ journal # {} => Started
  BY FieldTypes, LoopFields
     DEF BaseInv, PollInv, RowOK, StableOK, OrphansOK, OriginOK
<1>5. Polled \/ ~\E C \in Seq(Nat) : On(C, row.live)
  <2>1. ~Polled => row.live = NoBlock
    BY EmptyTypes DEF Polled
  <2> QED BY <2>1, EmptyTypes DEF On
<1>6. chain' \in Seq(Nat)
  BY ChainStepIs DEF ChainMove, Grows
<1>7. ASSUME NEW b \in Block, Known(b), b[1] \in Nat,
             b[1] <= fin => On(chain, b), fin' # fin => On(chain, b), b[1] <= fin'
      PROVE  On(chain', b)
  <2>1. CASE fin' = fin
    BY <1>1, <1>7, <2>1, SeenChain DEF Final
  <2>2. CASE fin' # fin
    BY <1>7, <2>2, SeenChain
  <2> QED BY <2>1, <2>2
<1>8. RowsOK'
  <2>1. ASSUME NEW b \in scanned, On(chain', row.live) PROVE On(chain', b)
    <3>1. On(chain, row.live) /\ On(chain, b) /\ Known(row.live)
      BY <1>4, <2>1, SeenChain DEF RowsOK
    <3>2. CASE Rewound
      BY <1>3, <3>1, <3>2, SeenChain
    <3>3. CASE ~Rewound
      <4>1. b[1] <= row.live[1]
        BY <3>3 DEF RowsOK
      <4> QED BY <1>3, <1>4, <2>1, <3>1, <4>1, SeenChain
    <3> QED BY <3>2, <3>3
  <2>2. ASSUME NEW b \in scanned, b[1] <= fin' PROVE On(chain', b)
    <3>1. b \in Block /\ Known(b) /\ b[1] \in Nat /\ (b[1] <= fin => On(chain, b)) /\ Polled
      BY <1>3, <1>4 DEF RowsOK
    <3>2. fin' # fin => On(chain, b)
      BY <3>1, SeenChain DEF RowsOK
    <3> QED BY <1>7, <2>2, <3>1, <3>2
  <2>3. \A b \in Handed : b \in orphans \/ b \in scanned \/ Final(b)'
    BY <1>3, SeenChain DEF RowsOK
  <2>4. Polled /\ row.live[1] <= fin' => On(chain', row.live)
    BY <1>4, <1>7, SeenChain DEF RowsOK
  <2>5. Polled /\ Rewound => On(chain', row.live)
    BY <1>4, SeenChain DEF RowsOK
  <2> QED BY <1>1, <1>2, <2>1, <2>2, <2>3, <2>4, <2>5 DEF RowsOK
<1>9. JournalOK'
  <2>1. ASSUME Started, cursor.live[1] <= fin' PROVE On(chain', cursor.live)
    BY <1>4, <1>7, <2>1, SeenChain DEF JournalOK
  <2>2. ASSUME Started, On(chain', cursor.live), NEW b \in journal PROVE On(chain', b)
    <3>1. /\ On(chain, cursor.live) /\ On(chain, b) /\ Known(cursor.live)
          /\ b \in Block /\ Known(b)
      BY <1>3, <1>4, <2>2, SeenChain DEF JournalOK, Handed
    <3>2. CASE Rewound
      BY <3>1, <3>2, SeenChain
    <3>3. CASE ~Rewound
      <4>1. b[1] <= cursor.live[1]
        BY <1>3, <3>1, <3>3 DEF JournalOK
      <4> QED BY <1>4, <2>2, <3>1, <4>1, SeenChain
    <3> QED BY <3>2, <3>3
  <2>3. ASSUME NEW b \in journal, b[1] <= fin' PROVE On(chain', b)
    <3>1. /\ b \in Block /\ Known(b) /\ b[1] \in Nat /\ (b[1] <= fin => On(chain, b))
          /\ Started
      BY <1>3, <1>4 DEF JournalOK, Handed
    <3>2. fin' # fin => On(chain, b)
      BY <3>1, SeenChain DEF JournalOK
    <3> QED BY <1>7, <2>3, <3>1, <3>2
  <2>4. ASSUME tick.rebuild, NEW b \in tick.base PROVE Final(b)'
    <3>1. b \in journal /\ b \in Block /\ Known(b) /\ Final(b)
      BY <1>3, <2>4 DEF JournalOK, Handed
    <3> QED BY <3>1, SeenChain
  <2>5. ASSUME tick.pc # "none", ~tick.rebuild, On(chain', row.live), NEW b \in journal
        PROVE  On(chain', b)
    <3>1. Polled /\ Known(row.live)
      BY <1>4, <1>5, <1>6, <2>5
    <3>2. On(chain, row.live) /\ On(chain, b) /\ b \in Block /\ Known(b) /\ b \in Handed
      BY <1>3, <1>4, <2>5, <3>1, SeenChain DEF JournalOK, Handed
    <3>3. CASE Rewound
      BY <3>2, <3>3, SeenChain
    <3>4. CASE ~Rewound
      <4>1. b[1] <= row.live[1]
        BY <1>3, <3>2, <3>4 DEF RowsOK
      <4> QED BY <1>4, <2>5, <3>1, <3>2, <4>1, SeenChain
    <3> QED BY <3>3, <3>4
  <2> QED BY <1>1, <1>2, <2>1, <2>2, <2>3, <2>4, <2>5 DEF JournalOK, LoopKept
<1> QED BY <1>8, <1>9

\* What a commit keeps or adds is canonical.
LEMMA KeptIs ==
  ASSUME BaseInv, StableOK, RowsOK, Commit
  PROVE  LET out == IF poll.mode = "reorg" THEN Displaced ELSE {} IN
         /\ \A b \in (scanned \ out) \cup poll.blocks :
              On(chain, b) /\ (~Rewound => b[1] <= row'.live[1])
         /\ \A b \in poll.logs : b \in poll.blocks \/ Final(b)
         /\ poll.mode \in {"steady", "catchup"} => row.live[1] < row'.live[1]
         /\ poll.mode = "reorg" => ~Rewound /\ Polled
         /\ poll.mode = "first" => ~Polled
         /\ poll.mode \in {"first", "reorg", "steady", "catchup"}
<1> DEFINE out == IF poll.mode = "reorg" THEN Displaced ELSE {}
<1>1. /\ poll.pc = "commit" /\ Fetches /\ Aimed /\ PollInv
      /\ row'.live = IF poll.mode = "catchup" THEN poll.finalized ELSE poll.latest
  BY CommitIs DEF BaseInv, Fetches, PollInv, PollOK
<1>2. /\ poll.blocks = IF poll.mode = "catchup" THEN {} ELSE poll.logs
      /\ \A b \in poll.logs : /\ b \in Block /\ On(chain, b) /\ b[1] \in Nat
                              /\ poll.from <= b[1] /\ b[1] <= poll.to
      /\ poll.to = row'.live[1]
  BY CommitReads
<1>3. /\ poll.finalized[1] \in Nat /\ poll.finalized[1] <= fin /\ fin \in Nat
      /\ row.live[1] \in Nat /\ scanned \subseteq Block /\ poll.to \in Int
      /\ poll.finalized[1] <= poll.latest[1] /\ poll.latest[1] \in Nat
      /\ poll.mode = "catchup" => poll.to <= fin
  BY <1>1, FieldTypes, RangeIs DEF PollInv, TypeOK, PollOK, Final
<1>4. /\ poll.mode \in {"steady", "catchup"} => row.live[1] < row'.live[1]
      /\ poll.mode = "first" => ~Polled
      /\ poll.mode \in {"first", "reorg", "steady", "catchup"}
  BY <1>1, <1>2, <1>3 DEF Aimed
<1>5. poll.mode = "reorg" => ~Rewound /\ Polled
  BY <1>1 DEF Aimed, RowsOK, StableOK, PolledOK
<1>6. ASSUME NEW b \in poll.logs PROVE b \in poll.blocks \/ Final(b)
  <2>1. CASE poll.mode = "catchup"
    <3>1. On(chain, b) /\ b[1] <= fin
      BY <1>2, <1>3, <2>1
    <3> QED BY <3>1 DEF Final
  <2> QED BY <1>2, <2>1
<1>7. ASSUME NEW b \in poll.blocks PROVE On(chain, b) /\ b[1] <= row'.live[1]
  BY <1>2
<1>8. ASSUME NEW b \in scanned \ out PROVE On(chain, b) /\ (~Rewound => b[1] <= row'.live[1])
  <2>1. b \in Block /\ b[1] \in Nat /\ Polled
    BY <1>1, <1>3 DEF Block, PollInv, RowOK
  <2>2. CASE poll.mode \in {"steady", "catchup"}
    <3>1. On(chain, row.live) /\ row.live[1] < row'.live[1]
      BY <1>1, <1>4, <2>2 DEF StableOK, PolledOK
    <3>2. PICK n \in Int : n = row'.live[1]
      BY <1>2, <1>3
    <3> QED BY <1>3, <2>1, <3>1, <3>2 DEF RowsOK
  <2>3. CASE poll.mode = "reorg"
    <3>1. /\ poll.prior = {c \in scanned : c[1] > poll.finalized[1]} /\ out = Displaced
          /\ row'.live[1] = poll.latest[1]
      BY <1>1, <2>3 DEF StableOK, PolledOK
    <3>2. CASE b[1] > poll.finalized[1]
      <4>1. b \in poll.prior
        BY <3>1, <3>2
      <4>2. b \in poll.blocks
        BY <3>1, <4>1 DEF Displaced
      <4> QED BY <1>7, <4>2
    <3>3. CASE b[1] <= poll.finalized[1]
      <4>1. b[1] <= fin /\ b[1] <= row'.live[1]
        BY <1>3, <2>1, <3>1, <3>3
      <4> QED BY <4>1 DEF RowsOK
    <3> QED BY <1>3, <2>1, <3>2, <3>3
  <2> QED BY <1>4, <2>1, <2>2, <2>3
<1> QED BY <1>4, <1>5, <1>6, <1>7, <1>8

\* The journal does not depend on the source's rows.
LEMMA JournalKept ==
  ASSUME JournalOK, LoopKept, UNCHANGED <<chain, fin>>, orphans \subseteq orphans',
         met \subseteq met', tick' = NoTick
  PROVE  JournalOK'
<1>1. tick'.base = {} /\ ~tick'.rebuild /\ tick'.pc = "none"
  BY NoTickIs
<1> QED BY <1>1 DEF JournalOK, LoopKept, Started, Rewound

\* The final transaction keeps the rows, or reports what it drops.
LEMMA StateCommit ==
  ASSUME BaseInv, StableOK, RowsOK, JournalOK, Commit, SrcStep
  PROVE  RowsOK' /\ JournalOK'
<1> DEFINE out == IF poll.mode = "reorg" THEN Displaced ELSE {}
           K == Checkpoint[1]
<1>1. /\ UNCHANGED <<chain, abandoned, forks, fin, met>> /\ poll.pc = "commit"
      /\ scanned' = Pruned((scanned \ out) \cup poll.blocks, K)
      /\ orphans' = orphans \cup out /\ batch'.logs = poll.logs
      /\ row' \in RowType
  BY CommitIs DEF BaseInv
<1>2. tick' = NoTick /\ LoopKept
  BY SrcStepIs
<1>3. /\ \A b \in (scanned \ out) \cup poll.blocks :
           On(chain, b) /\ (~Rewound => b[1] <= row'.live[1])
      /\ \A b \in poll.logs : b \in poll.blocks \/ Final(b)
      /\ poll.mode \in {"steady", "catchup"} => row.live[1] < row'.live[1]
      /\ poll.mode = "first" => ~Polled
      /\ poll.mode \in {"first", "reorg", "steady", "catchup"}
  BY KeptIs
<1>4. /\ On(chain, row'.live) /\ poll.to = row'.live[1]
      /\ \A b \in poll.logs : b \in Block /\ b[1] \in Nat /\ b[1] <= poll.to
  BY CommitReads
<1>5. poll.mode = "reorg" => row'.live[1] = poll.latest[1]
  BY CommitIs DEF BaseInv
<1> HIDE DEF out
<1>6. /\ K \in Nat /\ K <= fin /\ row'.live \in Block /\ row'.live[1] \in Nat
      /\ scanned \subseteq Block /\ fin \in Nat /\ row.live[1] \in Nat /\ poll.blocks \subseteq Block
  <2>1. K \in Nat /\ K <= fin
    BY <1>1, CheckpointIs DEF Final, BaseInv
  <2>2. row'.live \in Block /\ row'.live[1] \in Nat
    BY <1>1 DEF RowType, Block
  <2> QED BY <2>1, <2>2, FieldTypes DEF PollInv, TypeOK, BaseInv
<1>7. Handed' = journal \cup poll.logs /\ Rewound' = Rewound /\ tick'.batch.logs = {}
  BY <1>1, <1>2, NoTickIs DEF Handed, LoopKept, Rewound
<1>8. ASSUME NEW b \in (scanned \ out) \cup poll.blocks PROVE b \in scanned' \/ Final(b)
  <2>1. On(chain, b) /\ b[1] \in Nat
    BY <1>3, <1>6 DEF Block
  <2>2. CASE b[1] >= K
    BY <1>1, <2>2 DEF Pruned
  <2>3. CASE ~(b[1] >= K)
    BY <1>6, <2>1, <2>3 DEF Final
  <2> QED BY <2>2, <2>3
<1>9. ASSUME NEW b \in Handed' PROVE b \in orphans' \/ b \in scanned' \/ Final(b)
  <2>1. CASE b \in poll.logs
    BY <1>3, <1>8, <2>1
  <2>2. CASE b \in journal
    <3>1. b \in orphans \/ b \in scanned \/ Final(b)
      BY <2>2 DEF RowsOK, Handed
    <3> QED BY <1>1, <1>8, <3>1
  <2> QED BY <1>7, <2>1, <2>2
<1>10. ASSUME ~Rewound, NEW b \in Handed' PROVE b \in orphans' \/ b[1] <= row'.live[1]
  <2>1. CASE b \in poll.logs
    BY <1>4, <2>1
  <2>2. CASE b \in journal
    <3>1. b \in Handed /\ b \in Remembered /\ b[1] \in Nat
      BY <2>2, HeldType DEF Handed, Remembered
    <3>2. CASE poll.mode \in {"steady", "catchup"}
      <4>1. b \in orphans \/ b[1] <= row.live[1]
        BY <1>10, <3>1 DEF RowsOK
      <4> QED BY <1>1, <1>3, <1>6, <3>1, <3>2, <4>1
    <3>3. CASE poll.mode = "reorg"
      <4>1. b \in orphans \/ b \in scanned \/ On(chain, b)
        BY <3>1 DEF RowsOK, Final
      <4>2. On(chain, b) => b[1] <= poll.latest[1]
        BY <1>1, <3>1 DEF StableOK, PolledOK
      <4> QED BY <1>1, <1>3, <1>5, <1>10, <3>3, <4>1, <4>2
    <3>4. CASE poll.mode = "first"
      BY <1>3, <2>2, <3>4 DEF BaseInv, OriginOK
    <3> QED BY <1>3, <3>2, <3>3, <3>4
  <2> QED BY <1>7, <2>1, <2>2
<1>11. RowsOK'
  <2>1. \A b \in scanned' : On(chain, b) /\ (~Rewound => b[1] <= row'.live[1])
    BY <1>1, <1>3 DEF Pruned
  <2> QED BY <1>1, <1>4, <1>7, <1>9, <1>10, <2>1 DEF RowsOK, Final, On
<1>12. JournalOK'
  BY <1>1, <1>2, JournalKept
<1> QED BY <1>11, <1>12

\* Nothing new is handed over.
LEMMA RowsKept ==
  ASSUME RowsOK, Handed' \subseteq Handed, UNCHANGED <<chain, fin, row, scanned, orphans, met>>
  PROVE  RowsOK'
<1>1. Rewound' = Rewound /\ Polled' = Polled
  BY DEF Rewound, Polled
<1> QED BY <1>1 DEF RowsOK, Final, On

\* A step of the source.
LEMMA StateSource ==
  ASSUME BaseInv, StableOK, RowsOK, JournalOK, SrcStep
  PROVE  RowsOK' /\ JournalOK'
<1>1. /\ tick = NoTick /\ tick' = tick /\ LoopKept
      /\ OnlyPoll \/ CheckNoProgress \/ Commit
  BY SrcStepIs
<1>2. CASE OnlyPoll
  <2>1. Handed' = Handed
    BY <1>1, <1>2 DEF Handed, LoopKept, OnlyPoll
  <2> QED BY <1>1, <1>2, <2>1, RowsKept, JournalKept DEF OnlyPoll
<1>3. CASE CheckNoProgress
  <2>1. UNCHANGED <<chain, fin, row, scanned, orphans, met>> /\ batch'.logs = {}
    BY <1>3, NoProgressIs DEF BaseInv
  <2>2. Handed' \subseteq Handed
    BY <1>1, <2>1 DEF Handed, LoopKept
  <2> QED BY <1>1, <2>1, <2>2, RowsKept, JournalKept
<1> QED BY <1>1, <1>2, <1>3, StateCommit

\* The batch is folded: over the state when the cursor is canonical, over the
\* final part of the journal when it is not.
LEMMA StateFold ==
  ASSUME BaseInv, StableOK, RowsOK, JournalOK, Fold
  PROVE  RowsOK' /\ JournalOK'
<1>1. /\ UNCHANGED <<chain, abandoned, forks, fin, row, scanned, orphans, poll, met>>
      /\ LoopKept /\ batch # NoBatch /\ batch'.logs = {} /\ tick.pc = "none"
      /\ tick'.batch.logs \subseteq batch.logs /\ tick'.rebuild = (batch.reorg \/ Diverged)
      /\ tick'.base = BaseState
  BY FoldIs, EmptyTypes DEF BaseInv
<1>2. Handed' \subseteq Handed
  <2>1. tick.batch.logs = {}
    BY <1>1, NoTickIs DEF BaseInv, TickOK
  <2> QED BY <1>1, <2>1 DEF Handed, LoopKept
<1>3. RowsOK'
  BY <1>1, <1>2, RowsKept
<1>4. tick'.base \subseteq journal
  BY <1>1 DEF BaseState, JournalOK
<1>5. ASSUME tick'.rebuild, NEW b \in tick'.base PROVE Final(b)
  <2>1. b \in journal /\ b[1] <= batch.finalized[1] /\ b[1] \in Nat
    <3>1. b \in journal /\ b[1] <= batch.finalized[1]
      BY <1>1, <1>5 DEF BaseState
    <3> QED BY <3>1, HeldType DEF Handed
  <2>2. batch.finalized = row.finalized /\ row.finalized[1] <= fin /\ row.finalized[1] \in Nat
        /\ fin \in Nat
    BY <1>1, FieldTypes DEF BaseInv, PollInv, RowOK, Final
  <2>3. b[1] <= fin
    BY <2>1, <2>2
  <2> QED BY <2>1, <2>3 DEF JournalOK, Final
<1>6. ASSUME ~tick'.rebuild, NEW b \in journal PROVE On(chain, b)
  <2>1. Started
    BY <1>6 DEF BaseInv, OriginOK
  <2>2. On(chain, cursor.live)
    <3>1. OnChain(cursor.live)
      BY <1>1, <1>6, <2>1 DEF Diverged
    <3> QED BY <3>1, LoopFields, OnChainIs DEF BaseInv, PollInv
  <2> QED BY <2>1, <2>2 DEF JournalOK
<1>7. Started' = Started /\ Rewound' = Rewound
  BY <1>1 DEF Started, LoopKept, Rewound
<1>8. JournalOK'
  BY <1>1, <1>4, <1>5, <1>6, <1>7 DEF JournalOK, LoopKept, Final, On
<1> QED BY <1>3, <1>8

\* A step within a tick.
LEMMA StateInTick ==
  ASSUME RowsOK, JournalOK, SourceKept, LoopKept, TickKept, Rewound' = Rewound,
         tick.pc # "none"
  PROVE  RowsOK' /\ JournalOK'
<1>1. Handed' = Handed
  BY DEF Handed, SourceKept, LoopKept, TickKept
<1>2. Started' = Started /\ Polled' = Polled
  BY DEF Started, Polled, LoopKept, SourceKept
<1>3. RowsOK'
  BY <1>1, <1>2 DEF RowsOK, SourceKept, Final, On
<1> QED BY <1>2, <1>3 DEF JournalOK, SourceKept, LoopKept, TickKept, Final, On

\* The tick writes: the events it keeps are canonical when its cursor is.
LEMMA StateWrite ==
  ASSUME BaseInv, StableOK, RowsOK, JournalOK, Write
  PROVE  RowsOK' /\ JournalOK'
<1>1. /\ SourceKept /\ UNCHANGED met /\ tick.pc = "write" /\ tick' = NoTick
      /\ cursor'.live = tick.batch.cursor /\ cursor'.state = tick.base \cup Events
      /\ orphaned' = orphaned \cup (journal \cap Outs)
      /\ journal' = (journal \ Outs) \cup (Events \ orphaned')
  BY WriteIs DEF BaseInv
<1>2. /\ tick.batch.cursor = row.live /\ tick.displaced = orphans /\ Polled
      /\ Outs = IF tick.rebuild THEN orphans ELSE {}
  BY <1>1 DEF BaseInv, TickOK, Outs
<1>3. orphaned' \subseteq orphans
  BY <1>1, <1>2 DEF BaseInv, OriginOK
<1>4. Events \subseteq tick.batch.logs /\ Events \cap orphans = {}
  BY DEF Events, StableOK, HandedOK
<1>5. journal' = (journal \ Outs) \cup Events
  BY <1>1, <1>3, <1>4
<1>6. Handed' \subseteq Handed /\ Rewound' = Rewound /\ Events \subseteq Handed
      /\ journal' \subseteq Handed
  <2>1. batch' = batch /\ tick'.batch.logs = {}
    BY <1>1, NoTickIs DEF SourceKept
  <2> QED BY <1>1, <1>4, <1>5, <2>1 DEF Handed, Rewound
<1>7. RowsOK'
  BY <1>1, <1>6, RowsKept DEF SourceKept
<1>8. ASSUME NEW b \in Events PROVE b \in scanned \/ Final(b)
  BY <1>4, <1>6 DEF RowsOK
<1>9. ASSUME On(chain, row.live), NEW b \in journal' PROVE On(chain, b)
  <2>1. CASE b \in Events
    BY <1>8, <1>9, <2>1 DEF RowsOK, Final
  <2>2. CASE b \in journal \ Outs
    <3>1. CASE tick.rebuild
      BY <1>2, <1>9, <2>2, <3>1 DEF RowsOK, Final, Handed
    <3>2. CASE ~tick.rebuild
      BY <1>1, <1>9, <2>2, <3>2 DEF JournalOK
    <3> QED BY <3>1, <3>2
  <2> QED BY <1>5, <2>1, <2>2
<1>10. ASSUME NEW b \in journal', b[1] <= fin PROVE On(chain, b)
  BY <1>5, <1>8, <1>10 DEF RowsOK, JournalOK, Final
<1>11. tick.base \subseteq journal'
  <2>1. CASE tick.rebuild
    <3>1. \A b \in tick.base : b \notin orphans
      BY <2>1, HeldType DEF JournalOK, Final
    <3> QED BY <1>2, <1>5, <3>1 DEF JournalOK
  <2>2. CASE ~tick.rebuild
    BY <1>2, <1>5, <2>2 DEF JournalOK
  <2> QED BY <2>1, <2>2
<1>12. tick'.base = {} /\ ~tick'.rebuild /\ tick'.pc = "none" /\ cursor'.live = row.live
  BY <1>1, <1>2, NoTickIs
<1>13. cursor'.state \subseteq journal'
  BY <1>1, <1>5, <1>11
<1>14. ~Rewound => \A b \in journal' : b \in orphans \/ b[1] <= row.live[1]
  BY <1>6 DEF RowsOK
<1>15. row.live[1] <= fin => On(chain, row.live)
  BY <1>2 DEF RowsOK
<1>16. JournalOK'
  BY <1>1, <1>6, <1>9, <1>10, <1>12, <1>13, <1>14, <1>15 DEF JournalOK, SourceKept
<1> QED BY <1>7, <1>16

\* The marks go back to a final block.
LEMMA StateRewind ==
  ASSUME BaseInv, RowsOK, JournalOK, Rewind, Seen'
  PROVE  RowsOK' /\ JournalOK'
<1>1. /\ UNCHANGED <<chain, abandoned, forks, fin, scanned, orphans, poll, batch, tick>>
      /\ LoopKept /\ tick.pc = "none" /\ Polled /\ met' = met \cup {"rewound"}
      /\ missed' = (missed \/ ~On(chain, row.live))
  BY RewindIs DEF BaseInv
<1>2. On(chain, row.live) /\ Rewound' /\ tick' = NoTick
  BY <1>1, SeenIs DEF Rewound, BaseInv, TickOK
<1>3. Final(row'.live)
  BY RewoundTo
<1>4. Handed' = Handed
  BY <1>1 DEF Handed, LoopKept
<1>5. \A b \in scanned : On(chain, b)
  BY <1>2 DEF RowsOK
<1>6. RowsOK'
  BY <1>1, <1>2, <1>3, <1>4, <1>5 DEF RowsOK, Final, On
<1>7. JournalOK'
  BY <1>1, <1>2, JournalKept
<1> QED BY <1>6, <1>7

\* Every step keeps rows and journal.
LEMMA StateNext == StateInv /\ [Next]_vars => StateInv'
<1> SUFFICES ASSUME StateInv, [Next]_vars, Seen' PROVE RowsOK' /\ JournalOK'
  BY StableNext DEF StateInv
<1>1. BaseInv
  BY DEF StateInv, StableInv
<1>2. ASSUME met \subseteq met', missed => missed' PROVE StableOK /\ RowsOK /\ JournalOK
  BY <1>2, SeenIs DEF StateInv, StableInv
<1>3. ASSUME SourceKept, LoopKept, TickKept, missed' = missed, Rewound' = Rewound,
             met \subseteq met', tick.pc # "none"
      PROVE  RowsOK' /\ JournalOK'
  BY <1>2, <1>3, StateInTick
<1>4. CASE ChainStep
  BY <1>1, <1>2, <1>4, ChainStepIs, StateChain DEF ChainMove, Grows
<1>5. CASE SrcStep
  BY <1>1, <1>2, <1>5, SrcStepIs, StateSource
<1>6. CASE FoldThrows \/ TickDies
  <2>1. /\ UNCHANGED <<chain, abandoned, forks, fin, row, scanned, orphans>>
        /\ UNCHANGED missed /\ met \subseteq met' /\ LoopKept
        /\ batch'.logs = {} /\ tick' = NoTick
        /\ Rewound' = Rewound
    BY <1>1, <1>6, FoldThrowsIs, TickDiesIs, EmptyTypes DEF BaseInv, TickOK, Rewound
  <2>2. Handed' \subseteq Handed /\ Polled' = Polled
    BY <2>1, NoTickIs DEF Handed, LoopKept, Polled
  <2>3. StableOK /\ RowsOK /\ JournalOK
    BY <1>2, <2>1
  <2>4. RowsOK'
    BY <2>1, <2>2, <2>3 DEF RowsOK, Final, On
  <2> QED BY <2>1, <2>3, <2>4, JournalKept
<1>7. CASE Rewind
  BY <1>1, <1>2, <1>7, RewindIs, StateRewind DEF BaseInv
<1>8. CASE UNCHANGED vars
  <2>1. /\ UNCHANGED <<chain, abandoned, forks, fin, row, scanned, orphans, poll, batch, met>>
        /\ UNCHANGED <<cursor, journal, tick, missed>>
    BY <1>8 DEF vars, logVars, chainVars, rowVars, loopVars
  <2>2. RowsOK /\ JournalOK
    BY <1>2, <2>1
  <2> QED BY <2>1, <2>2 DEF RowsOK, JournalOK, Handed, Rewound, Final, On, Started, Polled
<1>9. CASE Fold
  BY <1>1, <1>2, <1>9, FoldIs, StateFold DEF BaseInv
<1>10. CASE CorrectPage
  BY <1>1, <1>3, <1>10, TickFinite, CorrectPageIs DEF BaseInv, InTick, Rewound
<1>11. CASE CorrectHead
  BY <1>1, <1>3, <1>11, TickFinite, CorrectHeadIs DEF BaseInv, InTick, Rewound
<1>12. CASE PublishPage
  BY <1>1, <1>3, <1>12, TickFinite, PublishPageIs DEF BaseInv, InTick, Rewound
<1>13. CASE PublishHead
  BY <1>1, <1>3, <1>13, TickFinite, PublishHeadIs DEF BaseInv, InTick, Rewound
<1>14. CASE PublishFails
  BY <1>1, <1>3, <1>14, PublishFailsIs DEF BaseInv, InTick, Rewound
<1>15. CASE Write
  BY <1>1, <1>2, <1>15, WriteIs, StateWrite DEF BaseInv
<1>16. CASE HeadFails
  BY <1>1, <1>3, <1>16, HeadFailsIs DEF BaseInv, Rewound
<1> QED BY <1>4, <1>5, <1>6, <1>7, <1>8, <1>9, <1>10, <1>11, <1>12, <1>13, <1>14, <1>15,
           <1>16
    DEF Next, TickStep, ChainStep, SrcStep

\* Nothing was handed over before the first poll.
LEMMA StateStart == Init => StateInv
<1> SUFFICES ASSUME Init PROVE StateInv
  OBVIOUS
<1>1. /\ LogInit /\ cursor = NoCursor /\ journal = {} /\ tick = NoTick /\ StableInv
  BY StableStart DEF Init
<1>2. /\ scanned = {} /\ batch.logs = {} /\ ~Started /\ ~Polled /\ Handed = {}
      /\ tick.base = {} /\ ~tick.rebuild /\ tick.pc = "none" /\ cursor.state = {}
  BY <1>1, EmptyTypes, NoTickIs DEF LogInit, Started, Polled, Handed
<1> QED BY <1>1, <1>2 DEF StateInv, RowsOK, JournalOK

\* Rows and journal agree with the chain throughout.
LEMMA StateInvariant == Spec => []StateInv
BY StateStart, StateNext, PTL DEF Spec

\* The journal under a canonical cursor is canonical.
LEMMA JournalCanonical ==
  ASSUME BaseInv, StableOK, JournalOK, Started, On(chain, cursor.live), NEW b \in journal
  PROVE  b \in Canonical(Len(chain))
<1>1. On(chain, b) /\ b \in Block
  BY HeldType DEF JournalOK, Handed
<1>2. b[1] >= origin /\ origin \in Nat /\ Len(chain) \in Nat
  BY FieldTypes DEF StableOK, HandedOK, BaseInv, LoopType, PollInv
<1>3. b = At(b[1]) /\ b[1] \in origin..Len(chain)
  BY <1>1, <1>2 DEF On, At, Block
<1> QED BY <1>3 DEF Canonical

\* Even when ticks die half way and the marks are rewound: when the projector's
\* cursor is canonical, every event in its state is canonical, for every
\* finality depth and chunk size and any number of forks, on the conditions
\* NoStaleState names.
THEOREM StateIsCanonical == Spec => []NoStaleState
<1>1. StateInv => NoStaleState
  <2> SUFFICES ASSUME StateInv, AtRest, OnChain(cursor.live), Seen, NEW b \in cursor.state
               PROVE  b \in Canonical(Len(chain))
    BY DEF NoStaleState
  <2>1. BaseInv /\ StableOK /\ JournalOK
    BY SeenIs DEF StateInv, StableInv
  <2>2. On(chain, cursor.live) /\ Started
    BY <2>1, LoopFields, OnChainIs DEF BaseInv, PollInv, AtRest
  <2>3. b \in journal
    BY <2>1 DEF JournalOK
  <2> QED BY <2>1, <2>2, <2>3, JournalCanonical
<1> QED BY <1>1, StateInvariant, PTL

-----------------------------------------------------------------------------
(* The open availabilities *)

\* The availabilities an archive leaves open.
Open(entries) == Blocks(entries, "available") \ Blocks(entries, "withdrawn")

\* While no tick died or went on without its head, what the archive leaves open
\* is what the journal has open, plus what the running tick announced, less what
\* it withdrew.
AvailableOK ==
  /\ active \subseteq journal
  /\ retracted \subseteq orphans
  /\ tick.pc # "none" => tick.priors = IF tick.rebuild THEN active \cap orphans ELSE {}
  /\ Open(Archive) \subseteq StillActive(tick.emitted)

AvailableInv ==
  ArchiveInv /\ StableInv /\ (Whole(met) /\ Stable(met) => AvailableOK)

\* Nothing is announced, and the tick holds what it held.
LEMMA AvailableKept ==
  ASSUME AvailableOK, LoopKept, pages' = pages, orphans \subseteq orphans',
         tick'.emitted = tick.emitted, tick'.priors = tick.priors,
         tick'.rebuild = tick.rebuild,
         tick'.pc # "none" => tick.pc # "none" /\ orphans' = orphans
  PROVE  AvailableOK'
<1>1. Archive' = Archive /\ StillActive(tick.emitted)' = StillActive(tick.emitted)
  BY DEF Archive, StillActive, LoopKept
<1> QED BY <1>1 DEF AvailableOK, LoopKept

\* The batch is folded.
LEMMA AvailableFold ==
  ASSUME BaseInv, SequenceOK, AvailableOK, Fold
  PROVE  AvailableOK'
<1>1. /\ LoopKept /\ ArchKept /\ tick.pc = "none" /\ orphans' = orphans
      /\ tick'.rebuild = (batch.reorg \/ Diverged) /\ tick'.priors = Retracts
      /\ tick'.emitted = {} /\ tick' \in TickType
  BY FoldIs DEF BaseInv
<1>2. Recovered = {} /\ batch.displaced \subseteq orphans /\ tick.emitted = {}
  <2>1. head = cursor.sequence /\ head \in Nat
    BY <1>1 DEF SequenceOK, BaseInv, LoopType
  <2> QED BY <1>1, <2>1 DEF Recovered, BaseInv, OriginOK, TickOK
<1>3. Retracts = IF batch.reorg \/ Diverged THEN active \cap orphans ELSE {}
  BY <1>2, EntryFields DEF Retracts
<1>4. Archive' = Archive /\ StillActive(tick.emitted)' = StillActive(tick.emitted)
  BY <1>1, <1>2 DEF Archive, StillActive, LoopKept, ArchKept
<1> QED BY <1>1, <1>3, <1>4 DEF AvailableOK, LoopKept

\* The page of withdrawals closes what the tick retracts.
LEMMA AvailableCorrectPage ==
  ASSUME BaseInv, SequenceOK, ArchiveOK, AvailableOK, CorrectPage
  PROVE  AvailableOK'
<1> DEFINE new == Entries(tick.priors, "withdrawn", tick.prior)
<1>1. /\ InTick /\ tick.pc = "correct" /\ WritePage(new) /\ new \subseteq Entry
      /\ tick'.pc = "correctHead" /\ tick'.emitted = new
  BY TickFinite, CorrectPageIs DEF BaseInv
<1>2. ~tick.seeded /\ head = tick.prior /\ tick.emitted = {}
  BY <1>1 DEF BaseInv, TickOK, SequenceOK
<1>3. Blocks(new, "withdrawn") = tick.priors /\ Blocks(new, "available") = {}
  BY TickFinite, EntriesType
<1> HIDE DEF new
<1>4. Archive' = Archive \cup new
  BY <1>1, <1>2, PageAppended
<1>5. Open(Archive') = Open(Archive) \ tick.priors
  <2>1. \A act : Blocks(Archive \cup new, act) = Blocks(Archive, act) \cup Blocks(new, act)
    BY EntryFields
  <2> QED BY <1>3, <1>4, <2>1 DEF Open
<1>6. StillActive(tick.emitted)' = StillActive(tick.emitted) \ tick.priors
  BY <1>1, <1>2, <1>3, EntryFields DEF StillActive, InTick, LoopKept
<1> QED BY <1>1, <1>5, <1>6 DEF AvailableOK, InTick, SourceKept, LoopKept, TickKept

\* The page of availabilities opens blocks that were never displaced.
LEMMA AvailablePublishPage ==
  ASSUME BaseInv, StableOK, SequenceOK, ArchiveOK, AvailableOK, PublishPage
  PROVE  AvailableOK'
<1> DEFINE new == Entries(tick.fresh, "available", tick.prior)
<1>1. /\ InTick /\ tick.pc = "publish" /\ WritePage(new) /\ new \subseteq Entry
      /\ tick'.pc = "publishHead" /\ tick'.emitted = tick.emitted \cup new
  BY TickFinite, PublishPageIs DEF BaseInv
<1>2. /\ ~tick.seeded /\ head = tick.prior
      /\ Blocks(tick.emitted, "withdrawn") = tick.priors
      /\ Blocks(tick.emitted, "available") = {}
  BY <1>1 DEF BaseInv, TickOK, SequenceOK
<1>3. Blocks(new, "available") = tick.fresh /\ Blocks(new, "withdrawn") = {}
  BY TickFinite, EntriesType
<1>4. tick.fresh \cap (retracted \cup tick.priors) = {}
  <2>1. tick.fresh \cap orphans = {}
    BY DEF BaseInv, TickOK, StableOK, HandedOK
  <2>2. retracted \cup tick.priors \subseteq orphans
    BY <1>1 DEF AvailableOK
  <2> QED BY <2>1, <2>2
<1> HIDE DEF new
<1>5. Archive' = Archive \cup new
  BY <1>1, <1>2, PageAppended
<1>6. Open(Archive') \subseteq Open(Archive) \cup tick.fresh
  <2>1. \A act : Blocks(Archive \cup new, act) = Blocks(Archive, act) \cup Blocks(new, act)
    BY EntryFields
  <2> QED BY <1>3, <1>5, <2>1 DEF Open
<1>7. StillActive(tick.emitted)' = StillActive(tick.emitted) \cup tick.fresh
  <2>1. \A act : Blocks(tick.emitted \cup new, act)
                   = Blocks(tick.emitted, act) \cup Blocks(new, act)
    BY EntryFields
  <2>2. /\ Blocks(tick.emitted \cup new, "available") = tick.fresh
        /\ Blocks(tick.emitted \cup new, "withdrawn") = tick.priors
    BY <1>2, <1>3, <2>1
  <2>3. tick'.emitted = tick.emitted \cup new /\ active' = active /\ retracted' = retracted
    BY <1>1 DEF InTick, LoopKept
  <2> QED BY <1>2, <1>4, <2>2, <2>3 DEF StillActive
<1> QED BY <1>1, <1>6, <1>7 DEF AvailableOK, InTick, SourceKept, LoopKept, TickKept

\* The transaction takes over what the tick announced and withdrew.
LEMMA AvailableWrite ==
  ASSUME BaseInv, StableOK, SequenceOK, AvailableOK, Write
  PROVE  AvailableOK'
<1>1. /\ SourceKept /\ pages' = pages /\ tick.pc = "write" /\ tick' = NoTick
      /\ orphaned' = orphaned \cup (journal \cap Outs)
      /\ journal' = (journal \ Outs) \cup (Events \ orphaned')
      /\ retracted' = retracted \cup Blocks(Entered, "withdrawn")
      /\ active' = StillActive(Entered)
  BY WriteIs DEF BaseInv
<1>2. /\ Blocks(Entered, "withdrawn") = tick.priors
      /\ Blocks(tick.emitted, "withdrawn") = tick.priors
      /\ Blocks(Entered, "available") = Blocks(tick.emitted, "available")
      /\ Blocks(Entered, "available") \subseteq tick.fresh
      /\ tick.fresh \subseteq Events \ journal
      /\ Outs = IF tick.rebuild THEN orphans ELSE {}
      /\ tick.priors = IF tick.rebuild THEN active \cap orphans ELSE {}
      /\ orphans' = orphans /\ orphaned \subseteq orphans
  <2>1. /\ Blocks(Entered, "withdrawn") = Blocks(tick.emitted, "withdrawn")
        /\ Blocks(Entered, "available") = Blocks(tick.emitted, "available")
    <3>1. Entered = {e \in tick.emitted : tick.failed => e.act = "withdrawn"}
      BY <1>1 DEF SequenceOK, Entered
    <3>2. CASE ~tick.failed
      <4>1. Entered = tick.emitted
        BY <3>1, <3>2
      <4> QED BY <4>1
    <3>3. CASE tick.failed
      <4>1. Blocks(tick.emitted, "available") = {}
        BY <3>3 DEF SequenceOK
      <4> QED BY <3>1, <3>3, <4>1 DEF Blocks
    <3> QED BY <3>2, <3>3
  <2> QED BY <1>1, <2>1 DEF BaseInv, TickOK, OriginOK, AvailableOK, Events, Outs, SourceKept
<1>3. tick.fresh \cap orphaned' = {}
  <2>1. Events \cap orphans = {}
    BY DEF Events, StableOK, HandedOK
  <2> QED BY <1>1, <1>2, <2>1
<1>4. active' \subseteq journal'
  <2>1. active \ tick.priors \subseteq journal \ Outs
    BY <1>2 DEF AvailableOK
  <2>2. tick.fresh \subseteq journal'
    BY <1>1, <1>2, <1>3
  <2> QED BY <1>1, <1>2, <2>1, <2>2 DEF StillActive
<1>5. retracted' \subseteq orphans'
  BY <1>1, <1>2 DEF AvailableOK
<1>6. StillActive(tick.emitted)' = active'
  <2>1. active' \cap retracted' = {}
    BY <1>1, <1>2 DEF StillActive
  <2>2. StillActive(tick.emitted)' = active' \ retracted'
    BY <1>1, NoTickIs, EntryFields DEF StillActive
  <2> QED BY <2>1, <2>2
<1>7. Archive' = Archive
  BY <1>1 DEF Archive
<1>8. StillActive(Entered) = StillActive(tick.emitted)
  BY <1>2 DEF StillActive
<1>9. Open(Archive') \subseteq StillActive(tick.emitted)'
  BY <1>1, <1>6, <1>7, <1>8 DEF AvailableOK
<1> QED BY <1>1, <1>4, <1>5, <1>9, NoTickIs DEF AvailableOK

\* Every step keeps the open availabilities and the journal together.
LEMMA AvailableNext == AvailableInv /\ [Next]_vars => AvailableInv'
<1> SUFFICES ASSUME AvailableInv, [Next]_vars, Whole(met'), Stable(met')
             PROVE  AvailableOK'
  BY ArchiveNext, StableNext DEF AvailableInv
<1>1. BaseInv
  BY DEF AvailableInv, ArchiveInv
<1>2. ASSUME met \subseteq met'
      PROVE  StableOK /\ SequenceOK /\ ArchiveOK /\ AvailableOK
  BY <1>2 DEF AvailableInv, ArchiveInv, StableInv, Stable, Whole
<1>3. ASSUME met \subseteq met', LoopKept, pages' = pages, orphans \subseteq orphans',
             tick' = tick, tick.pc # "none" => orphans' = orphans
      PROVE  AvailableOK'
  BY <1>2, <1>3, AvailableKept
<1>4. ASSUME InTick, pages' = pages, tick.pc # "none", tick'.emitted = tick.emitted
      PROVE  AvailableOK'
  BY <1>2, <1>4, AvailableKept DEF InTick, SourceKept, TickKept
<1>5. CASE ChainStep
  BY <1>1, <1>3, <1>5, ChainStepIs DEF ChainMove, Grows, ArchKept
<1>6. CASE SrcStep
  <2>1. tick = NoTick /\ tick' = tick /\ LoopKept /\ ArchKept /\ met' = met
    BY <1>1, <1>6, SrcStepIs
  <2>2. orphans \subseteq orphans'
    BY <1>1, <1>6, SrcStepIs, NoProgressIs, CommitIs DEF OnlyPoll, BaseInv
  <2> QED BY <1>3, <2>1, <2>2, NoTickIs DEF ArchKept
<1>7. CASE FoldThrows
  BY <1>3, <1>7, FoldThrowsIs DEF ArchKept
<1>8. CASE TickDies
  BY <1>1, <1>8, TickDiesIs DEF Whole, BaseInv
<1>9. CASE Rewind
  BY <1>1, <1>3, <1>9, RewindIs DEF BaseInv, ArchKept
<1>10. CASE UNCHANGED vars
  BY <1>3, <1>10 DEF vars, logVars, rowVars, loopVars, archVars, LoopKept
<1>11. CASE Fold
  BY <1>1, <1>2, <1>11, FoldIs, AvailableFold DEF BaseInv
<1>12. CASE CorrectPage
  BY <1>1, <1>2, <1>12, TickFinite, CorrectPageIs, AvailableCorrectPage DEF BaseInv, InTick
<1>13. CASE CorrectHead
  BY <1>1, <1>4, <1>13, TickFinite, CorrectHeadIs DEF BaseInv
<1>14. CASE PublishPage
  BY <1>1, <1>2, <1>14, TickFinite, PublishPageIs, AvailablePublishPage DEF BaseInv, InTick
<1>15. CASE PublishHead
  BY <1>1, <1>4, <1>15, TickFinite, PublishHeadIs DEF BaseInv
<1>16. CASE PublishFails
  BY <1>1, <1>4, <1>16, PublishFailsIs DEF BaseInv, ArchKept
<1>17. CASE Write
  BY <1>1, <1>2, <1>17, WriteIs, AvailableWrite DEF BaseInv
<1>18. CASE HeadFails
  BY <1>1, <1>18, HeadFailsIs DEF Whole, BaseInv
<1> QED BY <1>5, <1>6, <1>7, <1>8, <1>9, <1>10, <1>11, <1>12, <1>13, <1>14, <1>15, <1>16, <1>17,
           <1>18
    DEF Next, TickStep, ChainStep, SrcStep

\* An empty archive leaves nothing open.
LEMMA AvailableInvariant == Spec => []AvailableInv
<1>1. Init => AvailableOK
  <2> SUFFICES ASSUME Init PROVE AvailableOK
    OBVIOUS
  <2>1. active = {} /\ retracted = {} /\ pages = << >> /\ tick = NoTick
    BY DEF Init
  <2>2. Archive = {}
    BY <2>1 DEF Archive
  <2> QED BY <2>1, <2>2, NoTickIs, EntryFields DEF AvailableOK, Open
<1>2. Spec => [](ArchiveInv /\ StableInv)
  BY ArchiveInvariant, StableInvariant, PTL
<1>3. Init /\ ArchiveInv /\ StableInv => AvailableInv
  BY <1>1 DEF AvailableInv
<1> QED BY <1>2, <1>3, AvailableNext, PTL DEF Spec

\* When the cursor is canonical, every availability that is still open in the
\* published archive names a canonical block: what a reorganisation displaced
\* was withdrawn, for every finality depth and chunk size and any number of
\* forks, on the conditions NoStaleAvailability names.
THEOREM AvailabilitiesAreCanonical == Spec => []NoStaleAvailability
<1>1. StateInv /\ AvailableInv => NoStaleAvailability
  <2> SUFFICES ASSUME StateInv, AvailableInv, AtRest, OnChain(cursor.live), Seen,
                      Whole(met), NEW b \in Open(Archive)
               PROVE  b \in Canonical(Len(chain))
    BY DEF NoStaleAvailability, Open, Whole
  <2>1. BaseInv /\ StableOK /\ JournalOK /\ AvailableOK
    BY SeenIs DEF StateInv, StableInv, AvailableInv
  <2>2. On(chain, cursor.live) /\ Started
    BY <2>1, LoopFields, OnChainIs DEF BaseInv, PollInv, AtRest
  <2>3. b \in journal
    <3>1. tick.emitted = {}
      BY <2>1 DEF AtRest, BaseInv, TickOK
    <3>2. b \in active
      BY <2>1, <3>1, EntryFields DEF AvailableOK, StillActive
    <3> QED BY <2>1, <3>2 DEF AvailableOK
  <2> QED BY <2>1, <2>2, <2>3, JournalCanonical
<1> QED BY <1>1, StateInvariant, AvailableInvariant, PTL

-----------------------------------------------------------------------------
(* While no tick dies *)

\* Nothing is pending.
AtEase == tick.pc = "none" /\ batch = NoBatch

\* The state as the pending batch will leave it.
Content == IF tick.pc # "none" THEN tick.base \cup tick.batch.logs
           ELSE (IF batch.reorg THEN Below(journal, batch.finalized[1]) ELSE cursor.state)
                  \cup batch.logs

\* A run without some of the events that were dropped.
Fits(S, run) == S \subseteq run /\ run \subseteq S \cup dropped

\* That is the canonical run up to the source's cursor, or further after a rewind.
WholeOK ==
  Polled /\ On(chain, row.live) =>
    \E h \in row.live[1]..Len(chain) :
      /\ Fits(Content, Run(chain, origin, h))
      /\ ~Rewound => h = row.live[1]
      /\ AtEase => cursor.live[1] <= h

\* The projector's cursor follows the source's.
FollowOK ==
  /\ On(chain, row.live) /\ Started /\ ~batch.reorg /\ tick.pc = "none" =>
       On(chain, cursor.live) /\ (~Rewound => cursor.live[1] <= row.live[1])
  /\ AtEase /\ Polled =>
       /\ Started
       /\ On(chain, row.live) /\ ~Rewound => cursor.live = row.live
       /\ On(chain, cursor.live) => On(chain, row.live)

\* J holds the final part of the chain up to a cursor, and all of it when the
\* cursor is canonical.
Complete(C, lo, f, J, b) ==
  /\ Run(C, lo, Smaller(f, b[1])) \subseteq J
  /\ On(C, b) => Run(C, lo, b[1]) \subseteq J

\* Only dropped events are missing in the journal, and in what is about to enter it.
CompleteOK ==
  /\ Started => Complete(chain, origin, fin, journal \cup dropped, cursor.live)
  /\ ~AtEase => Complete(chain, origin, fin, Handed \cup dropped, row.live)

LiveOK == WholeOK /\ FollowOK /\ CompleteOK

LiveInv == StateInv /\ (Seen /\ "lost" \notin met => LiveOK)

\* A shorter run is part of a longer one.
LEMMA RunWithin ==
  ASSUME NEW C, NEW lo \in Int, NEW a \in Int, NEW h \in Int, a <= h
  PROVE  Run(C, lo, a) \subseteq Run(C, lo, h)
<1>1. \A g \in lo..a : g \in lo..h
  OBVIOUS
<1> QED BY <1>1 DEF Run

\* Two runs, the second of which starts no later than the first one ends.
LEMMA RunsOverlap ==
  ASSUME NEW C, NEW lo \in Int, NEW mid \in Int, NEW h \in Int, NEW r \in Int, NEW k \in Int,
         lo <= mid, mid <= h + 1, h <= k, r <= k, k = h \/ k = r
  PROVE  Run(C, lo, h) \cup Run(C, mid, r) = Run(C, lo, k)
<1>1. \A g : g \in lo..k <=> g \in lo..h \/ g \in mid..r
  OBVIOUS
<1> QED BY <1>1 DEF Run

\* What is complete for a run up to the cursor.
LEMMA CompleteRun ==
  ASSUME NEW C, NEW lo \in Int, NEW f \in Int, NEW J, NEW b \in Block,
         Run(C, lo, b[1]) \subseteq J
  PROVE  Complete(C, lo, f, J, b)
<1>1. b[1] \in Int /\ Smaller(f, b[1]) \in Int /\ Smaller(f, b[1]) <= b[1]
  BY DEF Block, Smaller
<1>2. Run(C, lo, Smaller(f, b[1])) \subseteq Run(C, lo, b[1])
  BY <1>1, RunWithin
<1> QED BY <1>2 DEF Complete

\* A change of the chain that was seen keeps the run up to a canonical block,
\* and what is complete.
LEMMA CompleteChain ==
  ASSUME BaseInv, ChainStep, Seen', Polled, NEW b \in Block, Known(b)
  PROVE  /\ On(chain', b) => Run(chain', origin, b[1]) = Run(chain, origin, b[1])
         /\ \A J : Complete(chain, origin, fin, J, b) /\ (fin' # fin => On(chain, b))
                     => Complete(chain', origin, fin', J, b)
<1>1. /\ ChainMove /\ "returned" \notin met' /\ b[1] \in Nat /\ origin \in Nat /\ 1 <= origin
      /\ fin \in Nat /\ fin' \in Nat /\ Same(chain', chain, fin)
  BY ChainStepIs, SeenIs, FieldTypes
     DEF ChainMove, Grows, BaseInv, LoopType, OriginOK, PollInv, Block
<1>2. On(chain', b) => On(chain, b) /\ Same(chain, chain', b[1])
  BY <1>1, OffStays
<1>3. ASSUME On(chain', b) PROVE Run(chain', origin, b[1]) = Run(chain, origin, b[1])
  <2>1. PICK n \in Int : n = b[1]
    BY <1>1
  <2>2. Same(chain, chain', n)
    BY <1>2, <1>3, <2>1
  <2>3. Run(chain, origin, n) = Run(chain', origin, n)
    BY <1>1, <2>2, RunSame
  <2> QED BY <2>1, <2>3
<1>4. ASSUME NEW J, Complete(chain, origin, fin, J, b), fin' # fin => On(chain, b)
      PROVE  Complete(chain', origin, fin', J, b)
  <2>1. On(chain', b) => Run(chain', origin, b[1]) \subseteq J
    BY <1>2, <1>3, <1>4 DEF Complete
  <2>2. CASE fin' = fin
    <3>1. PICK n \in Int : n = Smaller(fin, b[1]) /\ n <= fin
      BY <1>1 DEF Smaller
    <3>2. Run(chain', origin, n) = Run(chain, origin, n)
      BY <1>1, <3>1, RunSame
    <3> QED BY <1>4, <2>1, <2>2, <3>1, <3>2 DEF Complete
  <2>3. CASE fin' # fin
    <3>1. chain' = chain /\ On(chain, b)
      BY <1>4, <2>3, SeenChain
    <3>2. Run(chain, origin, b[1]) \subseteq J
      BY <1>4, <3>1 DEF Complete
    <3>3. Complete(chain, origin, fin', J, b)
      BY <1>1, <3>2, CompleteRun
    <3> QED BY <3>1, <3>3
  <2> QED BY <2>2, <2>3
<1> QED BY <1>3, <1>4

\* A change of the chain.
LEMMA LiveChain ==
  ASSUME BaseInv, StableOK, LiveOK, ChainStep, Seen'
  PROVE  LiveOK'
<1>1. /\ UNCHANGED <<row, scanned, orphans, poll, batch>> /\ LoopKept /\ tick' = tick
      /\ dropped' = dropped /\ origin' = origin /\ met \subseteq met'
      /\ met' \subseteq met \cup {"torn", "returned", "passed"}
  BY ChainStepIs DEF ChainMove, Grows
<1>2. /\ Rewound' = Rewound /\ Handed' = Handed /\ Polled' = Polled /\ Started' = Started
      /\ AtEase' = AtEase /\ Content' = Content
  BY <1>1 DEF Rewound, Handed, LoopKept, Polled, Started, AtEase, Content
<1>3. /\ row.live \in Block /\ row.live[1] \in Nat /\ cursor.live \in Block
      /\ cursor.live[1] \in Nat
      /\ Polled => Known(row.live)
      /\ Started => Known(cursor.live) /\ Polled
      /\ ~AtEase => Polled
  BY FieldTypes, LoopFields
     DEF BaseInv, PollInv, RowOK, StableOK, OrphansOK, OriginOK, AtEase
<1>4. On(chain', row.live) => Polled
  <2>1. ~Polled => row.live[1] = 0
    BY EmptyTypes DEF Polled
  <2>2. Len(chain') \in Nat
    BY ChainStepIs DEF ChainMove, Grows
  <2> QED BY <2>1, <2>2 DEF On
<1>5. WholeOK'
  <2> SUFFICES ASSUME Polled, On(chain', row.live)
               PROVE  \E h \in row.live[1]..Len(chain') :
                        /\ Fits(Content, Run(chain', origin, h))
                        /\ ~Rewound => h = row.live[1]
                        /\ AtEase => cursor.live[1] <= h
    BY <1>1, <1>2 DEF WholeOK, LoopKept, Fits
  <2>1. On(chain, row.live)
    BY <1>3, SeenChain
  <2>2. PICK h \in row.live[1]..Len(chain) :
               /\ Fits(Content, Run(chain, origin, h))
               /\ ~Rewound => h = row.live[1]
               /\ AtEase => cursor.live[1] <= h
    BY <2>1 DEF LiveOK, WholeOK
  <2>3. CASE ~Rewound
    <3>1. Run(chain', origin, h) = Run(chain, origin, h) /\ h = row.live[1]
      BY <1>3, <2>2, <2>3, CompleteChain
    <3>2. h \in row.live[1]..Len(chain')
      BY <1>3, <3>1 DEF On
    <3> QED BY <2>2, <3>1, <3>2
  <2>4. CASE Rewound
    <3>1. forks' = forks
      BY <2>4, ChainStepIs, SeenIs DEF Rewound
    <3>2. /\ Len(chain) <= Len(chain') /\ Same(chain', chain, Len(chain))
          /\ Len(chain) \in Nat /\ Len(chain') \in Nat /\ origin \in Nat /\ 1 <= origin
      <4>1. Len(chain) <= Len(chain') /\ Same(chain', chain, Len(chain))
        BY <3>1, ChainStepIs
      <4>2. Len(chain) \in Nat /\ Len(chain') \in Nat
        BY ChainStepIs, FieldTypes DEF ChainMove, Grows, BaseInv, PollInv
      <4> QED BY <4>1, <4>2 DEF BaseInv, LoopType, OriginOK
    <3>3. h \in Int /\ h <= Len(chain) /\ h \in row.live[1]..Len(chain')
      BY <1>3, <2>2, <3>2
    <3>4. Run(chain', origin, h) = Run(chain, origin, h)
      BY <3>2, <3>3, RunSame
    <3> QED BY <2>2, <2>4, <3>3, <3>4
  <2> QED BY <2>3, <2>4
<1>6. FollowOK'
  <2>1. ASSUME On(chain', row.live), Started, ~batch.reorg, tick.pc = "none"
        PROVE  On(chain', cursor.live) /\ (~Rewound => cursor.live[1] <= row.live[1])
    <3>1. On(chain, row.live) /\ On(chain, cursor.live)
          /\ (~Rewound => cursor.live[1] <= row.live[1])
      BY <1>3, <1>4, <2>1, SeenChain DEF LiveOK, FollowOK
    <3>2. CASE Rewound
      BY <1>3, <2>1, <3>1, <3>2, SeenChain
    <3>3. CASE ~Rewound
      BY <1>3, <1>4, <2>1, <3>1, <3>3, SeenChain
    <3> QED BY <3>2, <3>3
  <2>2. ASSUME AtEase, Polled, On(chain', row.live), ~Rewound PROVE cursor.live = row.live
    BY <1>3, <2>2, SeenChain DEF LiveOK, FollowOK
  <2>3. ASSUME AtEase, Polled, On(chain', cursor.live) PROVE On(chain', row.live)
    <3>1. Started
      BY <2>3 DEF LiveOK, FollowOK
    <3>2. On(chain, cursor.live) /\ On(chain, row.live)
      BY <1>3, <2>3, <3>1, SeenChain DEF LiveOK, FollowOK
    <3>3. CASE Rewound
      BY <1>3, <2>3, <3>2, <3>3, SeenChain
    <3>4. CASE ~Rewound
      BY <2>3, <3>2, <3>4 DEF LiveOK, FollowOK
    <3> QED BY <3>3, <3>4
  <2>4. AtEase /\ Polled => Started
    BY DEF LiveOK, FollowOK
  <2> QED BY <1>1, <1>2, <2>1, <2>2, <2>3, <2>4 DEF FollowOK, LoopKept
<1>7. CompleteOK'
  <2>1. ASSUME Started PROVE Complete(chain', origin, fin', journal \cup dropped, cursor.live)
    <3>1. Complete(chain, origin, fin, journal \cup dropped, cursor.live) /\ Polled /\ Known(cursor.live)
      BY <1>3, <2>1 DEF LiveOK, CompleteOK
    <3>2. fin' # fin => On(chain, cursor.live)
      BY <1>3, <2>1, <3>1, SeenChain
    <3> QED BY <1>3, <3>1, <3>2, CompleteChain
  <2>2. ASSUME ~AtEase PROVE Complete(chain', origin, fin', Handed \cup dropped, row.live)
    <3>1. Complete(chain, origin, fin, Handed \cup dropped, row.live) /\ Polled /\ Known(row.live)
      BY <1>3, <2>2 DEF LiveOK, CompleteOK
    <3>2. fin' # fin => On(chain, row.live)
      BY <1>3, <3>1, SeenChain
    <3> QED BY <1>3, <3>1, <3>2, CompleteChain
  <2> QED BY <1>1, <1>2, <2>1, <2>2 DEF CompleteOK, LoopKept
<1> QED BY <1>5, <1>6, <1>7 DEF LiveOK

\* A step that leaves chain, marks, batch, cursor and journal alone.
LEMMA LiveKept ==
  ASSUME LiveOK, UNCHANGED <<chain, fin, row, batch, cursor, journal, dropped, origin>>,
         Rewound' = Rewound, tick'.pc = "none" <=> tick.pc = "none",
         tick'.base = tick.base, tick'.batch = tick.batch
  PROVE  LiveOK'
<1>1. Handed' = Handed /\ Polled' = Polled /\ Started' = Started /\ AtEase' = AtEase
      /\ Content' = Content
  BY DEF Handed, Polled, Started, AtEase, Content
<1>2. WholeOK'
  BY <1>1 DEF LiveOK, WholeOK, Fits
<1>3. FollowOK'
  BY <1>1 DEF LiveOK, FollowOK
<1>4. CompleteOK'
  BY <1>1 DEF LiveOK, CompleteOK
<1> QED BY <1>2, <1>3, <1>4 DEF LiveOK

\* While nothing is pending the content is the state.
LEMMA AtEaseIs ==
  ASSUME BaseInv, tick.pc = "none", batch = NoBatch
  PROVE  AtEase /\ Content = cursor.state /\ ~batch.reorg /\ batch.logs = {}
<1>1. batch.reorg = FALSE /\ batch.logs = {}
  BY DEF NoBatch
<1> QED BY <1>1 DEF AtEase, Content

\* A batch is pending.
LEMMA PendingIs ==
  ASSUME BaseInv', batch'.cursor = row'.live, On(chain', row'.live)
  PROVE  batch' # NoBatch /\ ~AtEase' /\ Polled'
<1>1. row'.live[1] >= 1
  BY DEF On
<1>2. NoBatch.cursor[1] = 0 /\ NoRow.live[1] = 0
  BY DEF NoBatch, NoRow, NoBlock
<1>3. batch' # NoBatch /\ row' # NoRow
  BY <1>1, <1>2
<1> QED BY <1>3 DEF AtEase, Polled

\* Nothing new: the empty batch changes nothing.
LEMMA LiveNoProgress ==
  ASSUME BaseInv, BaseInv', JournalOK, LiveOK, SrcStep, CheckNoProgress
  PROVE  LiveOK'
<1>1. /\ UNCHANGED <<chain, abandoned, forks, fin, row, scanned, orphans, met>>
      /\ poll.pc = "check" /\ On(chain, row.live)
      /\ batch'.logs = {} /\ ~batch'.reorg /\ batch'.cursor = row.live
  BY NoProgressIs DEF BaseInv
<1>2. /\ tick = NoTick /\ tick' = tick /\ LoopKept /\ tick.pc = "none" /\ tick'.pc = "none"
      /\ Polled /\ batch = NoBatch /\ origin' = origin /\ dropped' = dropped
  BY <1>1, SrcStepIs, NoTickIs DEF BaseInv, PollInv, PollOK
<1>3. AtEase /\ Content = cursor.state /\ ~batch.reorg
  BY <1>2, AtEaseIs
<1>4. batch' # NoBatch /\ ~AtEase' /\ Polled'
  BY <1>1, PendingIs
<1>5. Content' = cursor.state /\ Rewound' = Rewound /\ Started' = Started /\ Handed' = journal
  BY <1>1, <1>2, NoTickIs DEF Content, LoopKept, Rewound, Started, Handed
<1>6. PICK h \in row.live[1]..Len(chain) :
        Fits(cursor.state, Run(chain, origin, h)) /\ (~Rewound => h = row.live[1])
  BY <1>1, <1>2, <1>3 DEF LiveOK, WholeOK
<1>7. WholeOK'
  BY <1>1, <1>2, <1>4, <1>5, <1>6 DEF WholeOK, Fits
<1>8. FollowOK'
  BY <1>1, <1>2, <1>3, <1>4, <1>5 DEF LiveOK, FollowOK, LoopKept
<1>9. CompleteOK'
  <2>1. Complete(chain, origin, fin, journal \cup dropped, row.live)
    <3>1. /\ row.live \in Block /\ row.live[1] \in Int /\ h \in Int /\ row.live[1] <= h
          /\ origin \in Int /\ fin \in Int
      BY <1>6, FieldTypes, SMTT(20) DEF BaseInv, PollInv, LoopType
    <3>2. Run(chain, origin, row.live[1]) \subseteq Run(chain, origin, h)
      BY <3>1, RunWithin
    <3>3. Run(chain, origin, row.live[1]) \subseteq journal \cup dropped
      BY <1>6, <3>2 DEF JournalOK, Fits
    <3> QED BY <3>1, <3>3, CompleteRun
  <2>2. Started => Complete(chain, origin, fin, journal \cup dropped, cursor.live)
    BY DEF LiveOK, CompleteOK
  <2> QED BY <1>1, <1>2, <1>5, <2>1, <2>2 DEF CompleteOK, LoopKept
<1> QED BY <1>7, <1>8, <1>9 DEF LiveOK

\* What the loop holds for a batch: the state, or the final part of the journal
\* when the source reports a reorganisation.
Held == IF poll.mode = "reorg" THEN Below(journal, poll.finalized[1]) ELSE cursor.state

\* With the new range it is the canonical run up to the new cursor.
LEMMA CommitJoins ==
  ASSUME BaseInv, StableOK, RowsOK, JournalOK, LiveOK, SrcStep, Commit
  PROVE  /\ \E h \in row'.live[1]..Len(chain) :
              Fits(Held \cup poll.logs, Run(chain, origin', h)) /\ (~Rewound => h = row'.live[1])
         /\ Started /\ poll.mode # "reorg" =>
              On(chain, cursor.live) /\ (~Rewound => cursor.live[1] <= row'.live[1])
<1>1. /\ poll.pc = "commit" /\ Fetches /\ Aimed /\ row' \in RowType
      /\ row'.finalized = Checkpoint
  BY CommitIs DEF BaseInv, PollInv, PollOK, Fetches
<1>2. /\ poll.logs = Run(chain, poll.from, poll.to) /\ On(chain, row'.live)
      /\ poll.to = row'.live[1]
  BY CommitReads
<1>3. /\ poll.mode \in {"steady", "catchup"} => row.live[1] < row'.live[1]
      /\ poll.mode = "reorg" => ~Rewound /\ Polled
      /\ poll.mode = "first" => ~Polled
      /\ poll.mode \in {"first", "reorg", "steady", "catchup"}
  BY KeptIs
<1>4. PICK r \in Nat : r = row'.live[1] /\ r <= Len(chain) /\ Len(chain) \in Nat
  <2>1. row'.live[1] \in 1..Len(chain) /\ Len(chain) \in Nat
    BY <1>2, FieldTypes DEF On, BaseInv, PollInv
  <2> QED BY <2>1
<1>5. /\ tick.pc = "none" /\ batch = NoBatch /\ (Polled => origin' = origin)
      /\ (~Polled => origin' = Checkpoint[1]) /\ origin \in Nat
  BY <1>1, SrcStepIs, NoTickIs DEF BaseInv, PollInv, PollOK, LoopType
<1>6. AtEase /\ Content = cursor.state /\ ~batch.reorg
  BY <1>5, AtEaseIs
<1>7. CASE poll.mode = "first"
  <2>1. ~Polled /\ ~Started /\ cursor.state = {}
    BY <1>3, <1>7 DEF BaseInv, OriginOK
  <2>2. poll.from = poll.finalized[1] /\ Checkpoint = poll.finalized
    BY <1>1, <1>7, <2>1, CheckpointIs DEF Aimed, BaseInv
  <2>3. Fits(Held \cup poll.logs, Run(chain, origin', r))
    BY <1>2, <1>4, <1>5, <1>7, <2>1, <2>2 DEF Held, Fits
  <2>4. r \in row'.live[1]..Len(chain)
    BY <1>4
  <2> QED BY <1>4, <1>7, <2>1, <2>3, <2>4
<1>8. CASE poll.mode \in {"steady", "catchup"}
  <2>1. /\ Polled /\ On(chain, row.live) /\ poll.from = row.live[1] + 1 /\ row.live[1] < r
        /\ row.live[1] \in Nat
    BY <1>1, <1>3, <1>4, <1>8, FieldTypes DEF StableOK, PolledOK, Aimed, BaseInv, PollInv
  <2>2. PICK h \in row.live[1]..Len(chain) :
          Fits(cursor.state, Run(chain, origin, h)) /\ (~Rewound => h = row.live[1])
    BY <1>6, <2>1 DEF LiveOK, WholeOK
  <2>3. PICK m \in Int, k \in Int : /\ m = row.live[1] + 1 /\ k = Larger(h, r)
                                    /\ k >= r /\ k >= h /\ k <= Len(chain)
                                    /\ (~Rewound => k = r) /\ m <= h + 1 /\ h \in Int
                                    /\ m <= r + 1 /\ origin <= m
    <3>1. origin <= row.live[1] + 1
      <4>1. origin <= row.finalized[1] /\ row.finalized[1] <= row.live[1]
            /\ row.finalized[1] \in Nat
        BY <2>1, FieldTypes DEF BaseInv, OriginOK, PollInv, RowOK
      <4> QED BY <1>5, <2>1, <4>1
    <3> QED BY <1>4, <2>1, <2>2, <3>1 DEF Larger
  <2>4. Run(chain, origin, h) \cup Run(chain, m, r) = Run(chain, origin, k)
    <3>1. k = h \/ k = r
      BY <2>3 DEF Larger
    <3>2. origin \in Int /\ r \in Int
      BY <1>4, <1>5
    <3> QED BY <2>3, <3>1, <3>2, RunsOverlap
  <2>5. Fits(Held \cup poll.logs, Run(chain, origin', k))
    <3>1. Held = cursor.state /\ poll.logs = Run(chain, m, r) /\ origin' = origin
      BY <1>2, <1>4, <1>5, <1>8, <2>1, <2>3 DEF Held
    <3> QED BY <2>2, <2>4, <3>1 DEF Fits
  <2>6. k \in row'.live[1]..Len(chain) /\ (~Rewound => k = row'.live[1])
    BY <1>4, <2>3
  <2>7. Started => On(chain, cursor.live) /\ (~Rewound => cursor.live[1] <= row'.live[1])
    <3>1. Started => On(chain, cursor.live) /\ (~Rewound => cursor.live[1] <= row.live[1])
      BY <1>5, <1>6, <2>1 DEF LiveOK, FollowOK
    <3>2. cursor.live[1] \in Nat
      BY LoopFields DEF BaseInv
    <3> QED BY <1>4, <2>1, <3>1, <3>2
  <2> QED BY <2>5, <2>6, <2>7
<1>9. CASE poll.mode = "reorg"
  <2>1. /\ Polled /\ ~Rewound /\ ~On(chain, row.live) /\ row.finalized[1] <= poll.finalized[1]
        /\ poll.from = poll.finalized[1] + 1
    BY <1>1, <1>3, <1>9 DEF StableOK, PolledOK, Aimed
  <2>2. Started /\ ~On(chain, cursor.live)
    BY <1>6, <2>1 DEF LiveOK, FollowOK
  <2>3. PICK m \in Int : /\ m = poll.finalized[1] + 1 /\ m - 1 <= fin /\ fin \in Nat
                         /\ origin <= m /\ m <= r + 1 /\ m - 1 < cursor.live[1] /\ 1 <= origin
                         /\ m - 1 <= Len(chain) /\ m - 1 \in Int
    <3>1. /\ poll.finalized[1] \in Nat /\ poll.finalized[1] <= fin /\ fin \in Nat
          /\ row.finalized[1] \in Nat /\ cursor.live[1] \in Nat /\ fin <= Len(chain)
          /\ origin <= row.finalized[1] /\ 1 <= origin
      BY <1>1, <2>1, FieldTypes, LoopFields
         DEF BaseInv, PollInv, PollOK, Final, OriginOK, ChainOK
    <3>2. fin < cursor.live[1]
      BY <2>2, <3>1 DEF JournalOK
    <3>3. poll.finalized[1] <= r
      BY <1>1, <1>4, <1>9, CommitIs DEF BaseInv, PollInv, PollOK
    <3>4. origin \in Int /\ r \in Int /\ Len(chain) \in Int
      BY <1>4, <1>5
    <3>5. PICK f \in Nat : f = poll.finalized[1]
      BY <3>1
    <3>6. f <= fin /\ f <= Len(chain) /\ origin <= f + 1 /\ f + 1 <= r + 1 /\ f < cursor.live[1]
      <4>1. PICK v \in Nat, g \in Nat, d \in Nat, o \in Int, top \in Int, n \in Int :
              /\ v = cursor.live[1] /\ g = row.finalized[1] /\ d = fin
              /\ o = origin /\ top = r /\ n = Len(chain)
        BY <3>1, <3>4
      <4>2. g <= f /\ f <= d /\ d <= n /\ o <= g /\ d < v /\ f <= top
        BY <2>1, <3>1, <3>2, <3>3, <3>5, <4>1
      <4>3. f <= d /\ f <= n /\ o <= f + 1 /\ f + 1 <= top + 1 /\ f < v
        BY <4>2
      <4> QED BY <4>1, <4>3
    <3>7. PICK m \in Int : m = f + 1 /\ m - 1 = f
      BY <3>5
    <3> QED BY <3>1, <3>5, <3>6, <3>7
  <2>4. Fits(Below(journal, m - 1), Run(chain, origin, m - 1))
    <3>1. ASSUME NEW b \in Below(journal, m - 1) PROVE b \in Run(chain, origin, m - 1)
      <4>1. b \in journal /\ b[1] <= m - 1 /\ b \in Block /\ b[1] \in Nat /\ origin <= b[1]
        BY HeldType DEF Below, Handed, StableOK, HandedOK
      <4>2. b[1] <= fin
        BY <2>3, <4>1
      <4>3. On(chain, b)
        BY <4>1, <4>2 DEF JournalOK
      <4> QED BY <1>5, <2>3, <4>1, <4>3, RunIs DEF BaseInv, PollInv, TypeOK
    <3>2. ASSUME NEW b \in Run(chain, origin, m - 1)
          PROVE  b \in Below(journal, m - 1) \cup dropped
      <4>1. b[1] <= m - 1
        <5>1. PICK l \in Int : l = m - 1 /\ l <= Len(chain) /\ origin \in Int /\ 1 <= origin
          BY <1>5, <2>3
        <5>2. chain \in Seq(Nat) /\ b \in Run(chain, origin, l)
          BY <3>2, <5>1 DEF BaseInv, PollInv, TypeOK
        <5>3. b[1] <= l
          BY <5>1, <5>2, RunIs
        <5> QED BY <5>1, <5>3
      <4>2. PICK n \in Int : n = Smaller(fin, cursor.live[1]) /\ m - 1 <= n
        <5>1. cursor.live[1] \in Nat
          BY LoopFields DEF BaseInv
        <5> QED BY <2>3, <5>1 DEF Smaller
      <4>3. Run(chain, origin, n) \subseteq journal \cup dropped
        BY <2>2, <4>2 DEF LiveOK, CompleteOK, Complete
      <4>4. Run(chain, origin, m - 1) \subseteq Run(chain, origin, n)
        BY <1>5, <2>3, <4>2, RunWithin
      <4> QED BY <4>1, <4>3, <4>4 DEF Below
    <3> QED BY <3>1, <3>2 DEF Fits
  <2>5. Run(chain, origin, m - 1) \cup Run(chain, m, r) = Run(chain, origin, r)
    <3>1. PICK o \in Int, l \in Int, top \in Int :
            o = origin /\ l = m - 1 /\ top = r /\ o <= m /\ m <= l + 1 /\ l <= top
      <4>1. PICK o \in Int, top \in Int : o = origin /\ top = r /\ o <= m /\ m <= top + 1
        BY <1>4, <1>5, <2>3
      <4>2. PICK l \in Int : l = m - 1 /\ m <= l + 1 /\ l <= top
        BY <4>1
      <4> QED BY <4>1, <4>2
    <3>2. Run(chain, o, l) \cup Run(chain, m, top) = Run(chain, o, top)
      BY <3>1, RunJoin
    <3> QED BY <3>1, <3>2
  <2>6. poll.finalized[1] = m - 1
    <3>1. poll.finalized[1] \in Nat
      BY FieldTypes DEF BaseInv, PollInv
    <3> QED BY <2>3, <3>1
  <2>7. Fits(Held \cup poll.logs, Run(chain, origin', r))
    <3>1. Held = Below(journal, m - 1) /\ poll.logs = Run(chain, m, r) /\ origin' = origin
      BY <1>2, <1>4, <1>5, <1>9, <2>1, <2>3, <2>6 DEF Held
    <3> QED BY <2>4, <2>5, <3>1 DEF Fits
  <2>8. r \in row'.live[1]..Len(chain)
    BY <1>4
  <2> QED BY <1>4, <1>9, <2>7, <2>8
<1> QED BY <1>3, <1>7, <1>8, <1>9

\* The final transaction of a poll hands a batch over.
LEMMA LiveCommit ==
  ASSUME BaseInv, BaseInv', StableOK, RowsOK, JournalOK, LiveOK, SrcStep, Commit
  PROVE  LiveOK'
<1>1. /\ UNCHANGED <<chain, abandoned, forks, fin, met>> /\ poll.pc = "commit"
      /\ batch'.logs = poll.logs /\ batch'.finalized = Checkpoint /\ batch'.cursor = row'.live
      /\ batch'.reorg = (poll.mode = "reorg") /\ row' \in RowType
  BY CommitIs DEF BaseInv
<1>2. /\ tick' = NoTick /\ LoopKept /\ tick'.pc = "none" /\ (Polled => origin' = origin)
      /\ tick'.batch.logs = {} /\ dropped' = dropped
  BY SrcStepIs, NoTickIs
<1>3. On(chain, row'.live)
  BY CommitReads
<1>4. batch' # NoBatch /\ ~AtEase' /\ Polled'
  BY <1>1, <1>3, PendingIs
<1>5. Content' = Held \cup poll.logs
  <2>1. poll.mode = "reorg" => Checkpoint[1] = poll.finalized[1]
    BY <1>1, CheckpointIs DEF BaseInv
  <2> QED BY <1>1, <1>2, <2>1 DEF Content, Held, LoopKept
<1>6. PICK h \in row'.live[1]..Len(chain) :
        Fits(Held \cup poll.logs, Run(chain, origin', h)) /\ (~Rewound => h = row'.live[1])
  BY CommitJoins
<1>7. Rewound' = Rewound /\ Started' = Started /\ Handed' = journal \cup poll.logs
  BY <1>1, <1>2 DEF Rewound, Started, LoopKept, Handed
<1>8. WholeOK'
  BY <1>1, <1>2, <1>4, <1>5, <1>6, <1>7 DEF WholeOK, Fits
<1>9. FollowOK'
  <2>1. Started /\ poll.mode # "reorg" =>
          On(chain, cursor.live) /\ (~Rewound => cursor.live[1] <= row'.live[1])
    BY CommitJoins
  <2> QED BY <1>1, <1>2, <1>4, <1>7, <2>1 DEF FollowOK, LoopKept
<1>10. CompleteOK'
  <2>1. Complete(chain, origin', fin, journal \cup poll.logs \cup dropped, row'.live)
    <3>1. row'.live \in Block /\ row'.live[1] \in Int /\ origin' \in Int /\ fin \in Int
      BY <1>1, FieldTypes DEF RowType, Block, BaseInv, LoopType, PollInv
    <3>2. h \in Int /\ row'.live[1] <= h
      BY <1>6, <3>1
    <3>3. Run(chain, origin', row'.live[1]) \subseteq Run(chain, origin', h)
      BY <3>1, <3>2, RunWithin
    <3>4. Held \subseteq journal
      BY DEF Held, Below, JournalOK
    <3>5. Run(chain, origin', row'.live[1]) \subseteq journal \cup poll.logs \cup dropped
      BY <1>6, <3>3, <3>4 DEF Fits
    <3> QED BY <3>1, <3>5, CompleteRun
  <2>2. Started => Polled /\ Complete(chain, origin, fin, journal \cup dropped, cursor.live)
    BY DEF LiveOK, CompleteOK, BaseInv, OriginOK
  <2> QED BY <1>1, <1>2, <1>7, <2>1, <2>2 DEF CompleteOK, LoopKept
<1> QED BY <1>8, <1>9, <1>10 DEF LiveOK

\* What is complete stays so.
LEMMA CompleteMore ==
  ASSUME NEW C, NEW lo, NEW f, NEW J, NEW K, NEW b, Complete(C, lo, f, J, b), J \subseteq K
  PROVE  Complete(C, lo, f, K, b)
BY DEF Complete

\* The batch is folded over the state, unless the cursor left the chain; then
\* so did the source's.
LEMMA LiveFold ==
  ASSUME BaseInv, LiveOK, Fold
  PROVE  LiveOK'
<1>1. /\ UNCHANGED <<chain, abandoned, forks, fin, row, scanned, orphans, poll, met, origin>>
      /\ LoopKept /\ batch # NoBatch /\ batch'.logs = {} /\ tick.pc = "none"
      /\ tick'.batch.logs \subseteq batch.logs /\ tick'.base = BaseState
      /\ dropped' = dropped \cup (batch.logs \ tick'.batch.logs)
      /\ tick'.pc # "none"
  BY FoldIs, EmptyTypes DEF BaseInv
<1>2. tick.batch.logs = {} /\ batch.reorg \in BOOLEAN
  BY <1>1, NoTickIs, BatchFields DEF BaseInv, TickOK
<1>3. /\ Handed \cup dropped \subseteq Handed' \cup dropped'
      /\ ~AtEase /\ ~AtEase' /\ Rewound' = Rewound /\ Started' = Started
      /\ Polled' = Polled
  BY <1>1, <1>2 DEF Handed, LoopKept, AtEase, Rewound, Started, Polled
<1>4. ASSUME On(chain, row.live)
      PROVE  Content' \subseteq Content /\ Content \cup dropped \subseteq Content' \cup dropped'
  <2>1. ~Diverged
    <3>1. ~batch.reorg /\ Started => On(chain, cursor.live)
      BY <1>1, <1>4 DEF LiveOK, FollowOK
    <3> QED BY <3>1, LoopFields, OnChainIs DEF Diverged, BaseInv, PollInv
  <2>2. Content = BaseState \cup batch.logs
    BY <1>1, <2>1 DEF BaseState, Content, Below
  <2>3. Content' = BaseState \cup tick'.batch.logs
    BY <1>1 DEF Content
  <2> QED BY <1>1, <2>2, <2>3
<1>5. WholeOK'
  <2> SUFFICES ASSUME Polled, On(chain, row.live)
               PROVE  \E h \in row.live[1]..Len(chain) :
                        Fits(Content, Run(chain, origin, h))' /\ (~Rewound => h = row.live[1])
    BY <1>1, <1>3 DEF WholeOK
  <2>1. PICK h \in row.live[1]..Len(chain) :
          Fits(Content, Run(chain, origin, h)) /\ (~Rewound => h = row.live[1])
    BY DEF LiveOK, WholeOK
  <2>2. Fits(Content, Run(chain, origin, h))'
    BY <1>1, <1>4, <2>1 DEF Fits
  <2> QED BY <2>1, <2>2
<1>6. FollowOK'
  BY <1>1, <1>3 DEF FollowOK
<1>7. CompleteOK'
  <2>1. Complete(chain, origin, fin, Handed' \cup dropped', row.live)
    BY <1>3, CompleteMore DEF LiveOK, CompleteOK
  <2>2. Started => Complete(chain, origin, fin, journal \cup dropped', cursor.live)
    <3>1. journal \cup dropped \subseteq journal \cup dropped'
      BY <1>1
    <3> QED BY <3>1, CompleteMore DEF LiveOK, CompleteOK
  <2> QED BY <1>1, <1>3, <2>1, <2>2 DEF CompleteOK, LoopKept
<1> QED BY <1>5, <1>6, <1>7 DEF LiveOK

\* The batch is dropped when the cursor is above the chain: the source's own
\* cursor is not canonical either, so a later poll reports it.
LEMMA LiveThrows ==
  ASSUME BaseInv, LiveOK, FoldThrows
  PROVE  LiveOK'
<1>1. /\ UNCHANGED <<chain, abandoned, forks, fin, row, scanned, orphans, poll, tick, met, origin>>
      /\ dropped' = dropped /\ LoopKept /\ batch' = NoBatch /\ tick.pc = "none"
      /\ ~batch.reorg /\ Started /\ cursor.live[1] > Len(chain)
  BY FoldThrowsIs
<1>2. ~On(chain, cursor.live)
  <2>1. cursor.live[1] \in Nat /\ Len(chain) \in Nat
    BY LoopFields, FieldTypes DEF BaseInv, PollInv
  <2> QED BY <1>1, <2>1 DEF On
<1>3. ~On(chain, row.live)
  BY <1>1, <1>2 DEF LiveOK, FollowOK
<1>4. AtEase' /\ Started' /\ Rewound' = Rewound
  BY <1>1 DEF AtEase, Started, LoopKept, Rewound
<1>5. WholeOK' /\ FollowOK'
  BY <1>1, <1>2, <1>3, <1>4 DEF WholeOK, FollowOK, LoopKept
<1>6. CompleteOK'
  BY <1>1, <1>4 DEF LiveOK, CompleteOK, LoopKept
<1> QED BY <1>5, <1>6 DEF LiveOK

\* The tick writes: cursor, state and journal take over what was pending.
LEMMA LiveWrite ==
  ASSUME BaseInv, StableOK, JournalOK, LiveOK, Write
  PROVE  LiveOK'
<1>1. /\ SourceKept /\ UNCHANGED <<met, dropped, origin>> /\ tick.pc = "write" /\ tick' = NoTick
      /\ cursor'.live = tick.batch.cursor /\ cursor'.state = tick.base \cup Events
      /\ orphaned' = orphaned \cup (journal \cap Outs)
      /\ journal' = (journal \ Outs) \cup (Events \ orphaned')
  BY WriteIs DEF BaseInv
<1>2. /\ tick.batch.cursor = row.live /\ tick.displaced = orphans /\ Polled /\ batch = NoBatch
      /\ Outs \subseteq orphans /\ orphaned \subseteq orphans
  BY <1>1 DEF BaseInv, TickOK, Outs, OriginOK
<1>3. NoBatch.reorg = FALSE /\ NoBatch.logs = {}
  BY DEF NoBatch
<1>4. /\ tick'.pc = "none" /\ batch' = NoBatch /\ AtEase' /\ ~AtEase /\ Rewound' = Rewound
      /\ Polled' = Polled /\ cursor'.live = row.live
  BY <1>1, <1>2, NoTickIs DEF SourceKept, AtEase, Rewound, Polled
<1>5. Started'
  <2>1. row.live[1] >= 1 /\ NoBlock[1] = 0
    BY <1>2, EmptyTypes, FieldTypes, SMTT(20) DEF BaseInv, PollInv, RowOK, Final, On
  <2> QED BY <1>4, <2>1 DEF Started
<1>6. Content' = Content
  <2>1. Content = tick.base \cup tick.batch.logs
    BY <1>1 DEF Content
  <2>2. Content' = cursor'.state
    BY <1>3, <1>4 DEF Content
  <2> QED BY <1>1, <2>1, <2>2 DEF Events
<1>7. WholeOK'
  <2> SUFFICES ASSUME On(chain, row.live)
               PROVE  \E h \in row.live[1]..Len(chain) :
                        /\ Fits(Content, Run(chain, origin, h))
                        /\ ~Rewound => h = row.live[1]
                        /\ row.live[1] <= h
    BY <1>1, <1>4, <1>6 DEF WholeOK, SourceKept, Fits
  <2>1. PICK h \in row.live[1]..Len(chain) :
          Fits(Content, Run(chain, origin, h)) /\ (~Rewound => h = row.live[1])
    BY <1>2 DEF LiveOK, WholeOK
  <2>2. row.live[1] <= h
    BY <2>1
  <2> QED BY <2>1, <2>2
<1>8. FollowOK'
  <2>1. row.live[1] \in Nat
    BY FieldTypes DEF BaseInv, PollInv
  <2> QED BY <1>1, <1>4, <1>5, <2>1 DEF FollowOK, SourceKept
<1>9. CompleteOK'
  <2>1. Complete(chain, origin, fin, Handed \cup dropped, row.live)
    BY <1>4 DEF LiveOK, CompleteOK
  <2>2. ASSUME NEW b \in Handed, On(chain, b) PROVE b \in journal'
    <3>1. b \notin orphans
      BY <2>2, HeldType
    <3>2. b \notin Outs /\ b \notin orphaned'
      BY <1>1, <1>2, <3>1
    <3>3. b \in journal \/ b \in tick.batch.logs
      BY <1>2, <1>3, <2>2 DEF Handed
    <3>4. b \in journal \/ b \in Events
      BY <3>3 DEF Events, JournalOK
    <3> QED BY <1>1, <3>2, <3>4
  <2>3. ASSUME NEW n \in Int, n <= Len(chain),
               Run(chain, origin, n) \subseteq Handed \cup dropped
        PROVE  Run(chain, origin, n) \subseteq journal' \cup dropped
    <3>1. chain \in Seq(Nat) /\ origin \in Int /\ 1 <= origin
      BY <1>2 DEF BaseInv, PollInv, TypeOK, LoopType, OriginOK
    <3>2. \A b \in Run(chain, origin, n) : On(chain, b)
      BY <2>3, <3>1, RunIs
    <3> QED BY <2>2, <2>3, <3>2
  <2>4. Complete(chain, origin, fin, journal' \cup dropped, row.live)
    <3>1. row.live[1] \in Nat /\ fin \in Nat /\ Len(chain) \in Nat /\ fin <= Len(chain)
      BY FieldTypes DEF BaseInv, PollInv, ChainOK
    <3>2. PICK n \in Int : n = Smaller(fin, row.live[1]) /\ n <= Len(chain)
      BY <3>1 DEF Smaller
    <3>3. Run(chain, origin, n) \subseteq journal' \cup dropped
      BY <2>1, <2>3, <3>2 DEF Complete
    <3>4. ASSUME On(chain, row.live)
          PROVE  Run(chain, origin, row.live[1]) \subseteq journal' \cup dropped
      <4>1. PICK k \in Int : k = row.live[1] /\ k <= Len(chain)
        BY <3>1, <3>4 DEF On
      <4>2. Run(chain, origin, k) \subseteq Handed \cup dropped
        BY <2>1, <3>4, <4>1 DEF Complete
      <4>3. Run(chain, origin, k) \subseteq journal' \cup dropped
        BY <2>3, <4>1, <4>2
      <4> QED BY <4>1, <4>3
    <3> QED BY <3>2, <3>3, <3>4 DEF Complete
  <2> QED BY <1>1, <1>4, <2>4 DEF CompleteOK, SourceKept
<1> QED BY <1>7, <1>8, <1>9 DEF LiveOK

\* The marks go back under a cursor that is canonical and that stays.
LEMMA LiveRewind ==
  ASSUME BaseInv, LiveOK, Rewind, Seen'
  PROVE  LiveOK'
<1>1. /\ UNCHANGED <<chain, abandoned, forks, fin, scanned, orphans, poll, batch, tick>>
      /\ LoopKept /\ UNCHANGED <<dropped, origin>> /\ batch = NoBatch /\ tick.pc = "none" /\ Polled
      /\ met' = met \cup {"rewound"} /\ missed' = (missed \/ ~On(chain, row.live))
  BY RewindIs DEF BaseInv
<1>2. On(chain, row.live) /\ Rewound'
  BY <1>1, SeenIs DEF Rewound
<1>3. PICK n \in Nat : n < row.finalized[1] /\ row'.live = At(n) /\ At(n)[1] = n /\ Final(At(n))
  BY RewoundTo
<1> HIDE DEF At
<1>4. AtEase /\ AtEase' /\ ~batch.reorg /\ Content' = Content /\ Started' = Started
  BY <1>1, AtEaseIs DEF AtEase, Content, LoopKept, Started
<1>5. Started /\ On(chain, cursor.live)
  BY <1>1, <1>2, <1>4 DEF LiveOK, FollowOK
<1>6. WholeOK'
  <2>1. PICK h \in row.live[1]..Len(chain) :
          Fits(Content, Run(chain, origin, h)) /\ cursor.live[1] <= h
    BY <1>1, <1>2, <1>4 DEF LiveOK, WholeOK
  <2>2. /\ row.finalized[1] <= row.live[1] /\ row.finalized[1] \in Nat /\ row.live[1] \in Nat
        /\ Len(chain) \in Nat
    BY <1>1, FieldTypes DEF BaseInv, PollInv, RowOK
  <2>3. h \in n..Len(chain)
    BY <1>3, <2>1, <2>2
  <2> QED BY <1>1, <1>2, <1>3, <1>4, <2>1, <2>3 DEF WholeOK, LoopKept, Fits
<1>7. FollowOK'
  BY <1>1, <1>2, <1>3, <1>4, <1>5 DEF FollowOK, LoopKept, Final
<1>8. CompleteOK'
  BY <1>1, <1>4 DEF LiveOK, CompleteOK, LoopKept
<1> QED BY <1>6, <1>7, <1>8 DEF LiveOK

\* Every step keeps the content whole.
LEMMA LiveNext == LiveInv /\ [Next]_vars => LiveInv'
<1> SUFFICES ASSUME LiveInv, [Next]_vars, StateInv', Seen', "lost" \notin met' PROVE LiveOK'
  BY StateNext DEF LiveInv
<1>1. BaseInv /\ BaseInv'
  BY DEF LiveInv, StateInv, StableInv
<1>2. ASSUME met \subseteq met', missed => missed'
      PROVE  StableOK /\ RowsOK /\ JournalOK /\ LiveOK
  BY <1>2, SeenIs DEF LiveInv, StateInv, StableInv
<1>3. ASSUME SourceKept, LoopKept, TickKept, UNCHANGED <<missed, dropped, origin>>,
             Rewound' = Rewound, met \subseteq met', tick.pc # "none", tick'.pc # "none"
      PROVE  LiveOK'
  BY <1>2, <1>3, LiveKept DEF SourceKept, LoopKept, TickKept
<1>4. CASE ChainStep
  BY <1>1, <1>2, <1>4, ChainStepIs, LiveChain DEF ChainMove, Grows
<1>5. CASE SrcStep
  <2>1. /\ tick' = tick /\ LoopKept /\ UNCHANGED <<missed, dropped, met>>
        /\ UNCHANGED <<chain, fin>> /\ (Polled => origin' = origin)
        /\ (~Polled => origin' = row'.finalized[1])
        /\ OnlyPoll \/ CheckNoProgress \/ Commit
    BY <1>1, <1>5, SrcStepIs
  <2>2. StableOK /\ RowsOK /\ JournalOK /\ LiveOK
    BY <1>2, <2>1
  <2>3. CASE OnlyPoll
    <3>1. row' = row /\ batch' = batch
      BY <2>3 DEF OnlyPoll
    <3>2. origin' = origin
      BY <1>1, <2>1, <3>1, EmptyTypes DEF Polled, BaseInv, OriginOK
    <3> QED BY <2>1, <2>2, <3>1, <3>2, LiveKept DEF LoopKept, Rewound
  <2> QED BY <1>1, <1>5, <2>1, <2>2, <2>3, LiveNoProgress, LiveCommit
<1>6. CASE FoldThrows
  BY <1>1, <1>2, <1>6, FoldThrowsIs, LiveThrows
<1>7. CASE Rewind
  BY <1>1, <1>2, <1>7, RewindIs, LiveRewind DEF BaseInv
<1>8. CASE UNCHANGED vars
  BY <1>2, <1>8, LiveKept DEF vars, logVars, chainVars, rowVars, loopVars, Rewound
<1>9. CASE Fold
  BY <1>1, <1>2, <1>9, FoldIs, LiveFold DEF BaseInv
<1>10. CASE CorrectPage
  BY <1>1, <1>3, <1>10, TickFinite, CorrectPageIs DEF BaseInv, InTick, Rewound
<1>11. CASE CorrectHead
  BY <1>1, <1>3, <1>11, TickFinite, CorrectHeadIs DEF BaseInv, InTick, Rewound
<1>12. CASE PublishPage
  BY <1>1, <1>3, <1>12, TickFinite, PublishPageIs DEF BaseInv, InTick, Rewound
<1>13. CASE PublishHead
  BY <1>1, <1>3, <1>13, TickFinite, PublishHeadIs DEF BaseInv, InTick, Rewound
<1>14. CASE PublishFails
  BY <1>1, <1>3, <1>14, PublishFailsIs DEF BaseInv, InTick, Rewound
<1>15. CASE Write
  BY <1>1, <1>2, <1>15, WriteIs, LiveWrite DEF BaseInv
<1>16. CASE TickDies
  BY <1>1, <1>16, TickDiesIs DEF BaseInv
<1>17. CASE HeadFails
  BY <1>1, <1>3, <1>17, HeadFailsIs DEF BaseInv, Rewound
<1> QED BY <1>4, <1>5, <1>6, <1>7, <1>8, <1>9, <1>10, <1>11, <1>12, <1>13, <1>14, <1>15, <1>16,
           <1>17
    DEF Next, TickStep, ChainStep, SrcStep

\* Before the first poll there is nothing to follow.
LEMMA LiveInvariant == Spec => []LiveInv
<1>1. Init => LiveInv
  <2> SUFFICES ASSUME Init PROVE LiveInv
    OBVIOUS
  <2>1. /\ cursor = NoCursor /\ tick = NoTick /\ batch = NoBatch /\ row = NoRow /\ StateInv
    BY StateStart DEF Init, LogInit
  <2>2. ~Polled /\ ~Started /\ AtEase
    BY <2>1, NoTickIs DEF Polled, Started, AtEase
  <2> QED BY <2>1, <2>2 DEF LiveInv, LiveOK, WholeOK, FollowOK, CompleteOK
<1> QED BY <1>1, LiveNext, PTL DEF Spec

\* When the projector's cursor is canonical, its state holds the events of the
\* canonical chain from the first block polled, all but those that enrich or
\* the reducer dropped: a reorganisation, a rewind, a catch-up or a batch that
\* is thrown away loses no other event and leaves none of an abandoned fork, for
\* every finality depth and chunk size and any number of forks, on the
\* conditions ProjectionMatchesChain names.
THEOREM ProjectionIsExact == Spec => []ProjectionMatchesChain
<1>1. LiveInv => ProjectionMatchesChain
  <2> SUFFICES ASSUME LiveInv, AtRest, OnChain(cursor.live), Seen, "lost" \notin met
               PROVE  \E h \in cursor.live[1]..Len(chain) : Fits(cursor.state, Canonical(h))
    BY DEF ProjectionMatchesChain, Fits
  <2>1. BaseInv /\ LiveOK
    BY DEF LiveInv, StateInv, StableInv
  <2>2. On(chain, cursor.live) /\ Started /\ Polled
    BY <2>1, LoopFields, OnChainIs DEF BaseInv, PollInv, AtRest, OriginOK
  <2>3. AtEase /\ Content = cursor.state
    BY <2>1, AtEaseIs DEF AtRest
  <2>4. On(chain, row.live)
    BY <2>1, <2>2, <2>3 DEF LiveOK, FollowOK
  <2>5. PICK h \in row.live[1]..Len(chain) :
          Fits(cursor.state, Run(chain, origin, h)) /\ cursor.live[1] <= h
    BY <2>1, <2>2, <2>3, <2>4 DEF LiveOK, WholeOK
  <2>6. h \in cursor.live[1]..Len(chain)
    BY <2>1, <2>5, LoopFields, FieldTypes DEF BaseInv, PollInv
  <2>7. Canonical(h) = Run(chain, origin, h)
    BY DEF Canonical, Run, At
  <2> QED BY <2>5, <2>6, <2>7
<1> QED BY <1>1, LiveInvariant, PTL

=============================================================================
