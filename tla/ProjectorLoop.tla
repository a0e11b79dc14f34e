---------------------------- MODULE ProjectorLoop ----------------------------
(***************************************************************************)
(* operator/src/daemon/projector-loop.ts over the log source: one tick polls *)
(* a batch, folds it into the projection state, retracts what a              *)
(* reorganisation displaced, announces what is new in the signed archive,    *)
(* and writes cursor, state and journals in one transaction.                 *)
(*                                                                           *)
(* The source committed its own cursor before the batch was returned, and    *)
(* the archive is files: a tick that dies half way leaves three stores that  *)
(* disagree.  That is what is checked here.                                  *)
(*                                                                           *)
(* Data.  The log of a block is one TaskCreated event, announced as one      *)
(* availability; event keys and announcement ids contain the block hash, so  *)
(* the block names them.  The projection state is the set of events folded.  *)
(***************************************************************************)
EXTENDS ChainLogSource, FiniteSets

VARIABLES
  cursor,     \* projector_cursor: live, finalized, sequence of the last entry, state
  journal,    \* projector_canonical_events with orphaned_at null
  orphaned,   \* projector_canonical_events with orphaned_at set
  active,     \* projector_availability_journal with retracted_at null
  retracted,  \* projector_availability_journal with retracted_at set
  pages,      \* archive pages on disk: page number -> set of entries
  pageCount,  \* the page counter kept in the daemon's configuration
  head,       \* sequence of the published source head, 0 before the first
  tick,       \* the local variables of the running tick
  missed,     \* history: a change was final, or the marks rewound, before the projector saw it
  dropped,    \* history: logs that were not resolved, or not accepted, when they were folded
  origin, everPublished   \* history: first block polled, blocks ever announced

loopVars  == <<cursor, journal, orphaned, active, retracted>>
archVars  == <<pages, pageCount, head, everPublished>>
vars == <<logVars, loopVars, archVars, tick, missed, dropped, origin>>

NoCursor == [live |-> NoBlock, finalized |-> NoBlock, sequence |-> 0, state |-> {}]
Started  == cursor.live # NoBlock
NoTick   == [pc |-> "none", batch |-> NoBatch, rebuild |-> FALSE, displaced |-> {},
             recovered |-> {}, base |-> {}, prior |-> 0, priors |-> {}, fresh |-> {},
             emitted |-> {}, seeded |-> FALSE, failed |-> FALSE]

Blocks(entries, act) == {e.block : e \in {x \in entries : x.act = act}}

\* readPublishedArchive reads pages 1, 2, ... until one is missing.
Archive == UNION {pages[p] : p \in {q \in DOMAIN pages : 1..q \subseteq DOMAIN pages}}

\* The entries that follow sequence n, one per block, in block order.
Before(a, b) == a[1] < b[1] \/ (a[1] = b[1] /\ a[2] < b[2])
Entries(blocks, act, n) ==
  {[seq |-> n + 1 + Cardinality({a \in blocks : Before(a, b)}), act |-> act, block |-> b]
     : b \in blocks}

\* One of the faults a run allows, and what it is remembered as.
Fault(names) == faults < MaxFaults /\ faults' = faults + 1 /\ met' = met \cup names

-----------------------------------------------------------------------------
\* What a crashed tick had already announced: the entries past the cursor's
\* sequence, if the published head is past it too.
Recovered == IF head > cursor.sequence
             THEN {e \in Archive : e.seq > cursor.sequence} ELSE {}

\* Mutant: no crash-recovery guard.
Diverged_Trusting == FALSE

\* The crash-recovery guard: the source reports no reorganisation but the
\* projector's own cursor is no longer canonical.
Diverged == ~batch.reorg /\ Started /\ ~OnChain(cursor.live)

\* Mutant: a reorganisation folds over the stored state.
BaseState_NotRebuilt == cursor.state

\* rebuildCanonicalStateThrough(boundary), or the parsed state of the cursor.
BaseState == IF batch.reorg \/ Diverged
             THEN {b \in journal : b[1] <= batch.finalized[1]} ELSE cursor.state

\* Mutant: the journal is not consulted.
Fresh_NoJournal(kept) == (kept \ BaseState) \ {e.block : e \in Recovered}

\* The events to announce: not yet journalled, not announced by a dead tick.
Fresh(kept) == ((kept \ BaseState) \ journal) \ {e.block : e \in Recovered}

\* The tick up to its first write to the archive: read back the cursor and the
\* archive, compare the cursor's hash, enrich and fold the batch.  Of the logs
\* some are kept: enrich returns undefined for a record it cannot resolve, the
\* reducer refuses an event it cannot place.
Fold ==
  /\ batch # NoBatch /\ tick.pc = "none"
  /\ ~batch.reorg /\ Started => cursor.live[1] <= Len(chain)
  /\ \E kept \in SUBSET batch.logs :
       LET rebuild == batch.reorg \/ Diverged
           gone    == batch.displaced \cup orphans
           priors  == IF rebuild
                      THEN (active \cap gone) \ Blocks(Recovered, "withdrawn") ELSE {}
       IN  /\ tick' = [NoTick EXCEPT
                !.pc = IF priors # {} THEN "correct"
                       ELSE IF Fresh(kept) # {} THEN "publish" ELSE "write",
                !.batch = [batch EXCEPT !.logs = kept], !.rebuild = rebuild,
                !.displaced = gone, !.recovered = Recovered, !.base = BaseState,
                !.prior = Larger(head, cursor.sequence),
                !.priors = priors, !.fresh = Fresh(kept)]
           /\ dropped' = dropped \cup (batch.logs \ kept)
           /\ \/ kept = batch.logs /\ UNCHANGED <<faults, met>>
              \/ kept # batch.logs /\ Fault({})
  /\ batch' = NoBatch
  /\ UNCHANGED <<chainVars, rowVars, poll, loopVars, archVars, missed, origin>>

\* readCanonicalBlockHash throws on a height the chain no longer has.
FoldThrows ==
  /\ batch # NoBatch /\ tick.pc = "none"
  /\ ~batch.reorg /\ Started /\ cursor.live[1] > Len(chain)
  /\ batch' = NoBatch
  /\ UNCHANGED <<chainVars, rowVars, poll, faults, met, loopVars, archVars, tick, missed, dropped,
                 origin>>

\* Mutant: a page is written at the counter, not after it.
WritePage_LastPage(entries) ==
  LET page == IF pageCount = 0 THEN 1 ELSE pageCount
  IN  /\ pages' = [p \in DOMAIN pages \cup {page} |-> IF p = page THEN entries ELSE pages[p]]
      /\ UNCHANGED pageCount

\* The archive writer: the first page ever is page 1 and leaves the counter
\* to the end of the tick; later pages follow the counter.
WritePage(entries) ==
  LET page == IF tick.prior = 0 THEN 1 ELSE pageCount + 1
  IN  /\ pages' = [p \in DOMAIN pages \cup {page} |-> IF p = page THEN entries ELSE pages[p]]
      /\ pageCount' = IF tick.prior = 0 THEN pageCount ELSE pageCount + 1

\* Mutant: nothing is retracted.
CorrectPage_Forgets ==
  /\ tick.pc = "correct"
  /\ tick' = [tick EXCEPT !.pc = IF tick.fresh # {} THEN "publish" ELSE "write"]
  /\ UNCHANGED <<logVars, loopVars, archVars, missed, dropped, origin>>

\* appendSignedReorgCorrections: the page of withdrawals, then the head.
CorrectPage ==
  /\ tick.pc = "correct"
  /\ LET new == Entries(tick.priors, "withdrawn", tick.prior)
     IN  WritePage(new) /\ tick' = [tick EXCEPT !.pc = "correctHead", !.emitted = new]
  /\ UNCHANGED <<logVars, loopVars, head, everPublished, missed, dropped, origin>>

CorrectHead ==
  /\ tick.pc = "correctHead"
  /\ head' = tick.prior + Cardinality(tick.priors)
  /\ tick' = [tick EXCEPT !.prior = head',
                          !.pc = IF tick.fresh # {} THEN "publish" ELSE "write"]
  /\ UNCHANGED <<logVars, loopVars, pages, pageCount, everPublished, missed, dropped, origin>>

\* 1 for the first announcement of a block, 2 for a later one.
Times(b) == IF \E e \in everPublished : e[1] = b THEN 2 ELSE 1

\* projectAnnouncements: the page of availabilities, then the head.
PublishPage ==
  /\ tick.pc = "publish"
  /\ LET new == Entries(tick.fresh, "available", tick.prior)
     IN  /\ WritePage(new)
         /\ tick' = [tick EXCEPT !.pc = "publishHead", !.emitted = @ \cup new,
                                 !.seeded = cursor.sequence = 0]
         /\ everPublished' = everPublished \cup {<<b, Times(b)>> : b \in tick.fresh}
  /\ UNCHANGED <<logVars, loopVars, head, missed, dropped, origin>>

PublishHead ==
  /\ tick.pc = "publishHead"
  /\ head' = tick.prior + Cardinality(tick.fresh)
  /\ tick' = [tick EXCEPT !.pc = "write", !.prior = head']
  /\ UNCHANGED <<logVars, loopVars, pages, pageCount, everPublished, missed, dropped, origin>>

\* The publication throws before it wrote a page: the announcements are
\* dropped, the tick goes on.
PublishFails ==
  /\ tick.pc = "publish" /\ Fault({})
  /\ tick' = [tick EXCEPT !.pc = "write", !.failed = TRUE]
  /\ UNCHANGED <<chainVars, rowVars, poll, batch, loopVars, archVars, missed, dropped, origin>>

\* The page counter is written after the page: what fails in between, or
\* later, leaves either value.
Counters ==
  {pageCount} \cup {n \in 0..pageCount : /\ tick.pc \in {"correctHead", "publishHead"}
                                         /\ tick.prior # 0 /\ n + 1 = pageCount}

\* It throws after the page, before the head: the page stays on disk, the tick
\* goes on as if nothing had been announced and the counter is not seeded.
HeadFails ==
  /\ tick.pc = "publishHead" /\ Fault({"halfway"})
  /\ tick' = [tick EXCEPT !.pc = "write", !.failed = TRUE, !.seeded = FALSE]
  /\ pageCount' \in Counters
  /\ UNCHANGED <<chainVars, rowVars, poll, batch, loopVars, pages, head, everPublished,
                 missed, dropped, origin>>

\* The availabilities left open after these entries.
StillActive(entries) ==
  (active \cup Blocks(entries, "available"))
    \ (retracted \cup Blocks(entries, "withdrawn"))

\* The page counter is seeded after the first publication; then
\* cursorStore.write: cursor, state, orphaned and new events, availabilities.
\* INSERT ... ON CONFLICT DO NOTHING leaves an orphaned row orphaned.
Write ==
  /\ tick.pc = "write"
  /\ LET out     == IF tick.rebuild THEN tick.displaced ELSE {}
         events  == tick.batch.logs \ tick.base
         entries == tick.recovered \cup {e \in tick.emitted : tick.failed => e.act = "withdrawn"}
         seq     == IF tick.failed /\ tick.priors = {} THEN cursor.sequence ELSE tick.prior
     IN  /\ cursor' = [live |-> tick.batch.cursor, finalized |-> tick.batch.finalized,
                       sequence |-> seq, state |-> tick.base \cup events]
         /\ orphaned' = orphaned \cup (journal \cap out)
         /\ journal' = (journal \ out) \cup (events \ orphaned')
         /\ retracted' = retracted \cup Blocks(entries, "withdrawn")
         /\ active' = StillActive(entries)
  /\ pageCount' = IF tick.seeded THEN pageCount + 1 ELSE pageCount
  /\ tick' = NoTick
  /\ UNCHANGED <<logVars, pages, head, everPublished, missed, dropped, origin>>

\* The running tick has announced events.
Announced == tick.pc \in {"publishHead", "write"} /\ Blocks(tick.emitted, "available") # {}

\* The process dies, or a step of the tick throws: the batch is gone, the
\* source's cursor and the archive stay as they are.
TickDies ==
  /\ batch # NoBatch \/ tick.pc # "none"
  /\ Fault({"lost"} \cup (IF Announced THEN {"unjournalled"} ELSE {}))
  /\ batch' = NoBatch /\ tick' = NoTick
  /\ pageCount' \in Counters
  /\ UNCHANGED <<chainVars, rowVars, poll, loopVars, pages, head, everPublished,
                 missed, dropped, origin>>

\* projector-replay.ts, run by the operator while the daemon is down: both
\* marks go back to a block below the checkpoint.
Rewind ==
  /\ Fault({"rewound"})
  /\ poll.pc = "idle" /\ batch = NoBatch /\ tick.pc = "none" /\ Polled
  /\ \E h \in origin..(row.finalized[1] - 1) : row' = [live |-> At(h), finalized |-> At(h)]
  /\ missed' = (missed \/ ~OnChain(row.live))
  /\ UNCHANGED <<chainVars, scanned, orphans, poll, batch, loopVars, archVars, tick, dropped,
                 origin>>

-----------------------------------------------------------------------------
Init ==
  /\ LogInit
  /\ cursor = NoCursor /\ journal = {} /\ orphaned = {} /\ active = {} /\ retracted = {}
  /\ pages = << >> /\ pageCount = 0 /\ head = 0 /\ everPublished = {}
  /\ tick = NoTick /\ missed = FALSE /\ dropped = {} /\ origin = 0

TickStep == Fold \/ FoldThrows \/ CorrectPage \/ CorrectHead \/ PublishPage \/ PublishHead
            \/ Write

SourceStep == PollStep \/ PollFails

Next ==
  \/ /\ ChainNext
     /\ missed' = \/ missed
                  \/ fin' # fin /\ Started /\ ~OnChain(cursor.live)
                  \/ forks' # forks /\ "rewound" \in met
     /\ UNCHANGED <<loopVars, archVars, tick, dropped, origin>>
  \/ /\ tick.pc = "none" /\ SourceStep
     /\ origin' = IF Polled THEN origin ELSE row'.finalized[1]
     /\ UNCHANGED <<loopVars, archVars, tick, missed, dropped>>
  \/ TickStep \/ PublishFails \/ HeadFails \/ TickDies \/ Rewind

Spec == Init /\ [][Next]_vars

-----------------------------------------------------------------------------
AtRest == poll.pc = "idle" /\ batch = NoBatch /\ tick.pc = "none" /\ Started

Canonical(h) == {At(n) : n \in origin..h}

\* The sequences of an archive are a chain: the head's predecessors are all
\* there, each once.
Sequences == {e.seq : e \in Archive}

\* The chain changed only between polls, never back to an abandoned fork, and
\* every change was seen before it was final and before any rewind.
Seen == met \cap {"torn", "returned", "passed"} = {} /\ ~missed

\* When the projector's cursor is canonical, its state holds events of the
\* canonical chain up to the cursor, or up to where the cursor stood before a
\* rewind, and of those it holds every one that enrich resolved and the reducer
\* accepted: source and loop lose no other fact, and none of an abandoned fork
\* is left.  (No tick died after poll() returned its batch.)
ProjectionMatchesChain ==
  AtRest /\ OnChain(cursor.live) /\ Seen /\ "lost" \notin met =>
    \E h \in cursor.live[1]..Len(chain) :
      /\ cursor.state \subseteq Canonical(h)
      /\ Canonical(h) \subseteq cursor.state \cup dropped

\* Even when ticks die half way: when the cursor is canonical, every event in
\* the state is canonical.
NoStaleState ==
  AtRest /\ OnChain(cursor.live) /\ Seen => cursor.state \subseteq Canonical(Len(chain))

\* When the cursor is canonical, every availability that is still open in the
\* published archive names a canonical block.  (No tick died, and no publication
\* failed between its page and its head.)
NoStaleAvailability ==
  AtRest /\ OnChain(cursor.live) /\ Seen /\ met \cap {"lost", "halfway"} = {} =>
    Blocks(Archive, "available") \ Blocks(Archive, "withdrawn")
      \subseteq Canonical(Len(chain))

\* The archive is append-only: its entries are numbered 1 .. head, each number
\* used once, none lost.  (No tick died, and no publication failed between its
\* page and its head.)
ArchiveIsAChain ==
  AtRest /\ met \cap {"lost", "halfway"} = {} =>
    /\ Sequences = 1..head
    /\ Cardinality(Archive) = head

\* No event is announced as available twice, whatever a reorganisation or a
\* rewind replays.  (The chain did not change under a poll or back to an
\* abandoned fork, and no replay followed a tick that died after announcing.)
AnnouncedOnce ==
  /\ met \cap {"torn", "returned"} = {}
  /\ "unjournalled" \in met => forks = 0 /\ "rewound" \notin met
  =>
    \A e, f \in everPublished : e[1] = f[1] => e = f
=============================================================================
