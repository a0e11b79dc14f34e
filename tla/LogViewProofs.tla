--------------------------- MODULE LogViewProofs ----------------------------
(***************************************************************************)
(* Theorems about the batches of poll(), for chains of any height, any     *)
(* number of reorganisations, any finality depth and any chunk size: the   *)
(* checkpoint is canonical, the batches add up to the canonical chain, and *)
(* what they displaced is reported.                                        *)
(***************************************************************************)
EXTENDS LogView, ChainLogProofs

-----------------------------------------------------------------------------
(* The consumer *)

\* What the consumer will hold, and from where, once it takes the batch.
Held  == (IF batch.reorg THEN {b \in view : b[1] <= batch.finalized[1]} ELSE view)
           \cup batch.logs
Start == IF origin = 0 THEN batch.finalized[1] ELSE origin

\* The consumer takes the batch.
LEMMA TakeIs ==
  ASSUME PollInv, Take
  PROVE  /\ UNCHANGED <<chain, abandoned, forks, fin, row, scanned, orphans, poll, met>>
         /\ view' = Held /\ told' = told \cup batch.logs /\ origin' = Start
         /\ batch' = NoBatch /\ batch # NoBatch
         /\ Held' = Held
BY EmptyTypes DEF Take, Held, Start, chainVars, rowVars

\* The types of the view, and what it is before the first poll has ended.
ViewOK ==
  /\ view \subseteq Block /\ told \subseteq Block /\ origin \in Nat
  /\ Polled => origin # 0 \/ batch # NoBatch
  /\ ~Polled => view = {} /\ told = {} /\ origin = 0

\* Taking the batch keeps the marks, and where the view starts.
LEMMA PollTake ==
  ASSUME PollInv, ViewOK, Take
  PROVE  PollInv' /\ ViewOK' /\ Start' = Start
<1>1. /\ UNCHANGED <<chain, abandoned, forks, fin, row, scanned, orphans, poll, met>>
      /\ view' = Held /\ told' = told \cup batch.logs /\ origin' = Start
      /\ batch' = NoBatch /\ batch # NoBatch
  BY TakeIs
<1>2. /\ batch.finalized \in Block /\ batch.logs \subseteq Block /\ Polled
      /\ batch.finalized = row.finalized
  BY <1>1 DEF PollInv, TypeOK, BatchType, RowOK
<1>3. batch.finalized[1] \in Nat /\ Start \in Nat /\ Start # 0
  BY <1>1, <1>2 DEF Block, Start, ViewOK, PollInv, RowOK, Final, On
<1>4. Held \subseteq Block /\ told \cup batch.logs \subseteq Block
  BY <1>2 DEF Held, ViewOK
<1>5. ViewOK'
  BY <1>1, <1>2, <1>3, <1>4 DEF ViewOK, Polled
<1> QED BY <1>1, <1>3, <1>5, PollTaken DEF Start

\* Every step keeps the marks and these types.
LEMMA ViewTypes == PollInv /\ ViewOK /\ [Next]_vars => PollInv' /\ ViewOK'
<1> SUFFICES ASSUME PollInv, ViewOK, [Next]_vars PROVE PollInv' /\ ViewOK'
  OBVIOUS
<1>1. ASSUME OnlyPoll, UNCHANGED <<view, told, origin>> PROVE ViewOK'
  BY <1>1 DEF OnlyPoll, ViewOK, Polled
<1>2. CASE ChainNext /\ UNCHANGED <<view, told, origin>>
  <2>1. row' = row /\ batch' = batch
    BY <1>2, ChainMoves DEF ChainMove, Grows
  <2> QED BY <1>2, <2>1, PollNext DEF ViewOK, Polled
<1>3. CASE PollStep /\ UNCHANGED <<view, told, origin>>
  <2>1. PollInv'
    BY <1>3, PollNext
  <2>2. CASE Commit
    BY <1>3, <2>1, <2>2, PollCommit DEF ViewOK
  <2>3. CASE CheckNoProgress
    <3>1. row' = row /\ Polled /\ batch = NoBatch
      BY <2>3, NoProgressIs DEF PollInv, PollOK
    <3> QED BY <1>3, <2>1, <3>1 DEF ViewOK, Polled
  <2>4. CASE OnlyPoll
    BY <1>1, <1>3, <2>1, <2>4
  <2> QED BY <1>3, <2>2, <2>3, <2>4, ReadLatestIs, ReadFinalizedIs, CheckReorgIs,
             CheckAdvanceIs, FetchChunkIs, ScanBlockIs, IdleIs DEF PollStep
<1>4. CASE PollFails /\ UNCHANGED <<view, told, origin>>
  BY <1>1, <1>4, PollNext, IdleIs
<1>5. CASE Take
  BY <1>5, PollTake
<1>6. CASE UNCHANGED vars
  <2>1. UNCHANGED logVars /\ UNCHANGED <<view, told, origin>> /\ OnlyPoll
    BY <1>6 DEF vars, logVars, chainVars, rowVars, OnlyPoll
  <2> QED BY <1>1, <2>1, PollStutter
<1> QED BY <1>2, <1>3, <1>4, <1>5, <1>6 DEF Next

\* They hold before the first step.
LEMMA ViewStart == Init => PollInv /\ ViewOK
<1> SUFFICES ASSUME Init PROVE PollInv /\ ViewOK
  OBVIOUS
<1>1. LogInit /\ view = {} /\ told = {} /\ origin = 0
  BY DEF Init
<1>2. ~Polled
  BY <1>1 DEF LogInit, Polled
<1> QED BY <1>1, <1>2, PollInit DEF ViewOK

\* The marks are what they should be at all times.
LEMMA PollInvariant == Spec => [](PollInv /\ ViewOK)
BY ViewStart, ViewTypes, PTL DEF Spec

\* The checkpoint that poll() persists is canonical and can no longer be
\* displaced, whatever tags the provider serves and however the chain changes
\* between the calls of a poll, for every finality depth and chunk size.
THEOREM CheckpointIsCanonical == Spec => []CheckpointCanonical
<1>1. PollInv => CheckpointCanonical
  <2> SUFFICES ASSUME PollInv, Polled
               PROVE  OnChain(row.finalized) /\ row.finalized[1] <= fin
    BY DEF CheckpointCanonical
  <2> QED BY FieldTypes, OnChainIs DEF PollInv, RowOK, Final
<1> QED BY <1>1, PollInvariant, PTL

-----------------------------------------------------------------------------

-----------------------------------------------------------------------------
(* What the consumer holds *)


\* While the cursor is canonical, on the chain or on the fork that may come
\* back, the consumer holds that chain.  What is final it holds in any case.
HeldOK ==
  Polled =>
    /\ 1 <= Start /\ Start <= row.finalized[1]
    /\ On(chain, row.live) => Held = Run(chain, Start, row.live[1])
    /\ "torn" \notin met /\ On(abandoned, row.live) =>
         Held = Run(abandoned, Start, row.live[1])
    /\ Below(Held, fin) = Run(chain, Start, Smaller(row.live[1], fin))
    /\ row.live[1] <= fin => On(chain, row.live)

\* While the head that was read is canonical, so are the logs read after it.
ReadOK ==
  poll.pc # "idle" =>
    /\ "torn" \notin met => On(chain, poll.latest)
    /\ poll.latest[1] <= fin => On(chain, poll.latest)
    /\ Fetches =>
         /\ On(chain, poll.latest) \/ poll.mode = "catchup" =>
              poll.logs = Run(chain, poll.from, Upto)
         /\ Below(poll.logs, fin) = Run(chain, poll.from, Smaller(Upto, fin))
         /\ poll.mode = "steady" /\ On(chain, poll.latest) => On(chain, row.live)
         /\ poll.mode = "reorg" => poll.finalized[1] <= row.live[1]

ViewInv == PollInv /\ ViewOK /\ (Safe(met) => HeldOK /\ ReadOK)


\* The two forks have one ancestry.
LEMMA TreeSame ==
  ASSUME PollInv, NEW b \in Block, On(chain, b), On(abandoned, b)
  PROVE  Same(chain, abandoned, b[1])
<1>1. b[1] \in 1..Len(chain) /\ b[1] <= Len(abandoned) /\ chain[b[1]] = abandoned[b[1]]
  <2>1. b[1] \in 1..Len(chain) /\ b[1] \in 1..Len(abandoned)
    BY DEF On
  <2>2. chain[b[1]] = b[2] /\ abandoned[b[1]] = b[2]
    BY DEF On
  <2>3. Len(abandoned) \in Nat
    BY DEF PollInv, TypeOK
  <2> QED BY <2>1, <2>2, <2>3
<1> QED BY <1>1 DEF PollInv, ChainOK

\* A change of the chain keeps what is held.
LEMMA HeldChain ==
  ASSUME ViewInv, ChainMove, UNCHANGED <<view, told, origin>>, Safe(met')
  PROVE  HeldOK'
<1>1. /\ UNCHANGED <<row, poll, batch>> /\ Held' = Held /\ Start' = Start /\ Polled' = Polled
      /\ met \subseteq met' /\ Safe(met) /\ PollInv
  BY DEF ChainMove, Grows, Held, Start, Polled, Safe, ViewInv
<1> SUFFICES ASSUME Polled PROVE HeldOK'
  BY <1>1 DEF HeldOK
<1> DEFINE L == row.live[1]
<1>2. /\ 1 <= Start /\ Start <= row.finalized[1]
      /\ On(chain, row.live) => Held = Run(chain, Start, L)
      /\ "torn" \notin met /\ On(abandoned, row.live) => Held = Run(abandoned, Start, L)
      /\ Below(Held, fin) = Run(chain, Start, Smaller(L, fin))
      /\ L <= fin => On(chain, row.live)
  BY <1>1 DEF ViewInv, HeldOK
<1>3. /\ row.live \in Block /\ L \in Nat /\ Known(row.live) /\ fin \in Nat /\ fin' \in Nat
      /\ Start \in Nat /\ fin <= fin'
  <2>1. batch.finalized[1] \in Nat /\ origin \in Nat
    BY <1>1 DEF PollInv, TypeOK, BatchType, Block, ViewInv, ViewOK
  <2> QED BY <1>1, <2>1, FieldTypes DEF PollInv, RowOK, ChainMove, Grows, Start
<1>4. ASSUME NEW D, Descends(D, row.live) PROVE Held = Run(D, Start, L)
  <2>1. \/ Held = Run(chain, Start, L) /\ Same(chain, D, L)
        \/ Held = Run(abandoned, Start, L) /\ Same(abandoned, D, L)
    BY <1>1, <1>2, <1>4 DEF Descends
  <2>2. L <= L
    BY <1>3
  <2> QED BY <1>2, <1>3, <2>1, <2>2, RunSame
<1>5. On(chain', row.live) => Held = Run(chain', Start, L)
  BY <1>3, <1>4 DEF ChainMove, Ancestry
<1>6. "torn" \notin met' /\ On(abandoned', row.live) => Held = Run(abandoned', Start, L)
  BY <1>3, <1>4 DEF ChainMove, Ancestry
<1>7. /\ Below(Held, fin') = Run(chain', Start, Smaller(L, fin'))
      /\ L <= fin' => On(chain', row.live)
  <2>1. CASE fin' = fin
    <3>1. Same(chain, chain', fin)
      BY DEF ChainMove, Grows, Same
    <3>2. Smaller(L, fin) \in Int /\ Smaller(L, fin) <= fin
      BY <1>3 DEF Smaller
    <3>3. Run(chain, Start, Smaller(L, fin)) = Run(chain', Start, Smaller(L, fin))
      BY <1>2, <1>3, <3>1, <3>2, RunSame
    <3>4. L <= fin => On(chain', row.live)
      BY <1>1, <1>2, <1>3, FinalStays DEF Final, On
    <3> QED BY <1>2, <2>1, <3>3, <3>4
  <2>2. CASE fin' # fin
    <3>1. chain' = chain /\ On(chain, row.live)
      BY <2>2 DEF ChainMove, Sees, Safe
    <3> QED BY <1>2, <1>3, <3>1, RunBelow
  <2> QED BY <2>1, <2>2
<1> QED BY <1>1, <1>2, <1>5, <1>6, <1>7 DEF HeldOK

\* A change of the chain keeps what the running poll has read.
LEMMA ReadChain ==
  ASSUME ViewInv, ChainMove, UNCHANGED <<view, told, origin>>, Safe(met')
  PROVE  ReadOK'
<1>1. /\ UNCHANGED <<row, poll, batch>> /\ met \subseteq met' /\ Safe(met) /\ PollInv
      /\ Upto' = Upto /\ Fetches' = Fetches
  BY DEF ChainMove, Grows, Safe, ViewInv, Upto, Fetches
<1> SUFFICES ASSUME poll.pc # "idle" PROVE ReadOK'
  BY <1>1 DEF ReadOK
<1> DEFINE b == poll.latest
<1>2. ReadOK
  BY <1>1 DEF ViewInv
<1>3. /\ b \in Block /\ b[1] \in Nat /\ Known(b) /\ fin \in Nat /\ fin' \in Nat /\ fin <= fin'
      /\ Len(chain) \in Nat /\ row.live \in Block /\ row.live[1] \in Nat
      /\ Len(chain') \in Nat
  BY <1>1, FieldTypes DEF PollInv, PollOK, ChainMove, Grows
<1>4. ASSUME "torn" \notin met' PROVE On(chain', b)
  <2>1. On(chain, b) /\ Len(chain) <= Len(chain') /\ Same(chain', chain, Len(chain))
    BY <1>1, <1>2, <1>4 DEF ReadOK, ChainMove, Sees
  <2> QED BY <1>3, <2>1 DEF On, Same
<1>5. ASSUME b[1] <= fin' PROVE On(chain', b)
  <2>1. CASE fin' = fin
    <3>1. Final(b)
      BY <1>2, <1>5, <2>1 DEF ReadOK, Final
    <3> QED BY <1>1, <1>3, <3>1, FinalStays DEF Final, On
  <2>2. CASE fin' # fin
    BY <2>2 DEF ChainMove, Sees, Safe
  <2> QED BY <2>1, <2>2
<1>6. On(chain', b) => On(chain, b) /\ Same(chain, chain', b[1])
  BY <1>3 DEF ChainMove, Ancestry
<1>7. ASSUME Fetches
      PROVE  /\ On(chain', b) \/ poll.mode = "catchup" => poll.logs = Run(chain', poll.from, Upto)
             /\ Below(poll.logs, fin') = Run(chain', poll.from, Smaller(Upto, fin'))
             /\ poll.mode = "steady" /\ On(chain', b) => On(chain', row.live)
  <2>1. /\ Upto \in Int /\ poll.from \in Int /\ 1 <= poll.from /\ Upto <= poll.to
        /\ poll.to \in Int /\ poll.to <= b[1]
        /\ poll.mode = "catchup" => poll.to <= fin
        /\ poll.mode = "steady" => row.live[1] < b[1]
    BY <1>1, <1>7, RangeIs
  <2>2. /\ On(chain, b) \/ poll.mode = "catchup" => poll.logs = Run(chain, poll.from, Upto)
        /\ Below(poll.logs, fin) = Run(chain, poll.from, Smaller(Upto, fin))
        /\ poll.mode = "steady" /\ On(chain, b) => On(chain, row.live)
    BY <1>2, <1>7 DEF ReadOK
  <2>3. Same(chain, chain', fin)
    BY DEF ChainMove, Grows, Same
  <2>4. ASSUME On(chain', b) PROVE poll.logs = Run(chain', poll.from, Upto)
    <3>1. On(chain, b) /\ Same(chain, chain', b[1]) /\ Upto <= b[1]
      BY <1>3, <1>6, <2>1, <2>4
    <3>2. Run(chain, poll.from, Upto) = Run(chain', poll.from, Upto)
      BY <1>3, <2>1, <3>1, RunSame
    <3> QED BY <2>2, <3>1, <3>2
  <2>5. ASSUME poll.mode = "catchup" PROVE poll.logs = Run(chain', poll.from, Upto)
    <3>1. Upto <= fin
      BY <1>3, <2>1, <2>5
    <3>2. Run(chain, poll.from, Upto) = Run(chain', poll.from, Upto)
      BY <1>3, <2>1, <2>3, <3>1, RunSame
    <3> QED BY <2>2, <2>5, <3>2
  <2>6. Below(poll.logs, fin') = Run(chain', poll.from, Smaller(Upto, fin'))
    <3>1. CASE fin' = fin
      <4>1. Smaller(Upto, fin) \in Int /\ Smaller(Upto, fin) <= fin
        BY <1>3, <2>1 DEF Smaller
      <4>2. Run(chain, poll.from, Smaller(Upto, fin)) = Run(chain', poll.from, Smaller(Upto, fin))
        BY <1>3, <2>1, <2>3, <4>1, RunSame
      <4> QED BY <2>2, <3>1, <4>2
    <3>2. CASE fin' # fin
      <4>1. chain' = chain /\ On(chain, b)
        BY <3>2 DEF ChainMove, Sees, Safe
      <4> QED BY <1>3, <2>1, <2>2, <4>1, RunBelow
    <3> QED BY <3>1, <3>2
  <2>7. ASSUME poll.mode = "steady", On(chain', b) PROVE On(chain', row.live)
    <3>1. /\ Same(chain, chain', b[1]) /\ On(chain, row.live) /\ row.live[1] < b[1]
          /\ b[1] <= Len(chain')
      BY <1>6, <2>1, <2>2, <2>7 DEF On
    <3> QED BY <1>3, <3>1 DEF On, Same
  <2> QED BY <2>4, <2>5, <2>6, <2>7
<1> QED BY <1>1, <1>2, <1>4, <1>5, <1>7 DEF ReadOK

\* A step of the poll that commits nothing keeps what is held.
LEMMA HeldKept ==
  ASSUME HeldOK, OnlyPoll, UNCHANGED <<view, told, origin>>
  PROVE  HeldOK'
<1>1. /\ Held' = Held /\ Start' = Start /\ Polled' = Polled
      /\ UNCHANGED <<chain, abandoned, fin, row, met>>
  BY DEF OnlyPoll, Held, Start, Polled
<1> QED BY <1>1 DEF HeldOK

\* The head that was read, in the steps after it.
LEMMA HeadKept ==
  ASSUME ViewInv, Safe(met), OnlyPoll, poll.pc # "idle", poll'.latest = poll.latest
  PROVE  /\ "torn" \notin met' => On(chain', poll'.latest)
         /\ poll'.latest[1] <= fin' => On(chain', poll'.latest)
BY DEF ViewInv, ReadOK, OnlyPoll

\* poll() begins to fetch: nothing is read yet.
LEMMA ReadBegins ==
  ASSUME ViewInv, Safe(met), OnlyPoll, poll.pc \in {"finalized", "check"}, PollInv',
         NEW mode, NEW final, NEW from, NEW to, NEW prior,
         Begins(mode, final, from, to, prior),
         mode = "steady" => On(chain, row.live),
         mode = "reorg" => final[1] <= row.live[1]
  PROVE  ReadOK'
<1>1. /\ poll'.mode = mode /\ poll'.latest = poll.latest /\ poll'.finalized = final
      /\ poll'.from = from /\ poll'.next = from /\ poll'.to = to
      /\ poll'.pc = IF from > to THEN "commit" ELSE "logs"
      /\ poll'.logs = {}
  BY DEF Begins, ViewInv, PollInv, PollOK
<1>2. /\ from \in Nat /\ to \in Nat /\ fin' \in Nat /\ Fetches'
  BY <1>1, FieldTypes DEF PollInv, TypeOK, PollType, Fetches
<1>3. Upto' \in Int /\ Upto' < from
  BY <1>1, <1>2 DEF Upto
<1>4. Smaller(Upto, fin)' \in Int /\ Smaller(Upto, fin)' < from
  BY <1>2, <1>3 DEF Smaller
<1>5. /\ Run(chain', from, Upto') = {}
      /\ Run(chain', from, Smaller(Upto, fin)') = {} /\ Below({}, fin') = {}
  <2>1. Below({}, fin') = {}
    BY DEF Below
  <2> QED BY <1>2, <1>3, <1>4, <2>1, RunEmpty
<1>6. chain' = chain /\ row' = row
  BY DEF OnlyPoll
<1> QED BY <1>1, <1>5, <1>6, HeadKept DEF ReadOK

\* The first three steps of a poll.
LEMMA ReadStarts ==
  ASSUME ViewInv, Safe(met), PollInv', ReadLatest \/ ReadFinalized \/ CheckReorg \/ CheckAdvance
  PROVE  ReadOK'
<1>1. CASE ReadLatest
  <2>1. /\ OnlyPoll /\ poll'.pc = "finalized" /\ poll'.latest = At(Len(chain))
    BY <1>1, ReadLatestIs DEF ViewInv
  <2>2. On(chain, At(Len(chain)))
    <3>1. Len(chain) \in 1..Len(chain)
      BY FieldTypes DEF ViewInv, PollInv, ChainOK
    <3> QED BY <3>1, AtIs DEF ViewInv
  <2>3. On(chain', poll'.latest)
    BY <2>1, <2>2 DEF OnlyPoll
  <2> QED BY <2>1, <2>3 DEF ReadOK, Fetches
<1>2. CASE ReadFinalized
  <2>1. OnlyPoll /\ poll.pc = "finalized"
    BY <1>2, ReadFinalizedIs DEF ViewInv
  <2>2. \/ poll'.pc = "check" /\ poll'.latest = poll.latest
        \/ \E f \in 1..fin : Begins("first", At(f), f, poll.latest[1], poll.prior)
    BY <1>2, ReadFinalizedIs DEF ViewInv
  <2>3. CASE poll'.pc = "check" /\ poll'.latest = poll.latest
    BY <2>1, <2>3, HeadKept DEF ReadOK, Fetches
  <2>4. CASE \E f \in 1..fin : Begins("first", At(f), f, poll.latest[1], poll.prior)
    <3>1. PICK f \in 1..fin : Begins("first", At(f), f, poll.latest[1], poll.prior)
      BY <2>4
    <3>2. PICK mode : mode = "first"
      OBVIOUS
    <3>3. Begins(mode, At(f), f, poll.latest[1], poll.prior)
      BY <3>1, <3>2
    <3> QED BY <2>1, <3>2, <3>3, ReadBegins
  <2> QED BY <2>2, <2>3, <2>4
<1>3. CASE CheckReorg
  <2>1. OnlyPoll /\ poll.pc = "check" /\ ~On(chain, row.live)
    BY <1>3, CheckReorgIs DEF ViewInv
  <2>2. PICK r \in Block :
        /\ r = row.finalized \/ r = poll.finalized
        /\ Begins("reorg", r, r[1] + 1, poll.latest[1], {b \in scanned : b[1] > r[1]})
    BY <1>3, CheckReorgIs DEF ViewInv
  <2>3. Polled /\ Final(r)
    BY <2>1, <2>2 DEF ViewInv, PollInv, PollOK, RowOK
  <2>4. ~(row.live[1] <= fin)
    BY <2>1, <2>3 DEF ViewInv, HeldOK
  <2>5. r[1] <= row.live[1]
    <3>1. r[1] \in Nat /\ r[1] <= fin
      BY <2>3 DEF Final, Block
    <3> QED BY <2>4, <3>1, FieldTypes DEF ViewInv, PollInv
  <2>6. PICK mode : mode = "reorg"
    OBVIOUS
  <2>7. Begins(mode, r, r[1] + 1, poll.latest[1], {b \in scanned : b[1] > r[1]})
    BY <2>2, <2>6
  <2> QED BY <2>1, <2>5, <2>6, <2>7, ReadBegins
<1>4. CASE CheckAdvance
  <2>1. /\ OnlyPoll /\ poll.pc = "check" /\ On(chain, row.live)
        /\ \/ Begins("catchup", poll.finalized, row.live[1] + 1, poll.finalized[1], poll.prior)
           \/ Begins("steady", poll.finalized, row.live[1] + 1, poll.latest[1], poll.prior)
    BY <1>4, CheckAdvanceIs DEF ViewInv
  <2>2. PICK mode, to : mode \in {"catchup", "steady"}
                    /\ Begins(mode, poll.finalized, row.live[1] + 1, to, poll.prior)
    BY <2>1
  <2> QED BY <2>1, <2>2, ReadBegins
<1> QED BY <1>1, <1>2, <1>3, <1>4

\* A fetch that keeps its logs.
LEMMA ReadScans ==
  ASSUME ViewInv, Safe(met), ScanBlock
  PROVE  ReadOK'
<1>1. OnlyPoll /\ poll.pc = "scan" /\ Fetches /\ PollInv
  BY ScanBlockIs DEF ViewInv, Fetches
<1>2. CASE poll' = Idle
  BY <1>2, EmptyTypes DEF ReadOK
<1>3. CASE /\ KeepsAim /\ poll'.logs = poll.logs
           /\ poll'.pc = IF poll.next < poll.to THEN "scan" ELSE "commit"
  <2>1. Upto' = Upto
    BY <1>1, <1>3 DEF Upto, KeepsAim
  <2>2. Smaller(Upto, fin)' = Smaller(Upto, fin)
    BY <1>1, <2>1 DEF OnlyPoll, Smaller
  <2>3. ReadOK /\ chain' = chain /\ row' = row /\ fin' = fin
    BY <1>1 DEF ViewInv, OnlyPoll
  <2>4. /\ "torn" \notin met' => On(chain', poll'.latest)
        /\ poll'.latest[1] <= fin' => On(chain', poll'.latest)
    BY <1>1, <1>3, HeadKept DEF KeepsAim
  <2> QED BY <1>1, <1>3, <2>1, <2>2, <2>3, <2>4 DEF ReadOK, KeepsAim
<1> QED BY <1>2, <1>3, ScanBlockIs DEF ViewInv

\* One more chunk of logs.
LEMMA ReadFetchChunk ==
  ASSUME ViewInv, Safe(met), FetchChunk
  PROVE  ReadOK'
<1>1. OnlyPoll /\ KeepsAim /\ poll.pc = "logs" /\ Fetches /\ PollInv
  BY FetchChunkIs DEF ViewInv, Fetches
<1>2. PICK n \in Nat :
        /\ poll.next <= n /\ n <= poll.to
        /\ poll'.logs = poll.logs \cup Ranged(poll.next, n)
        /\ \/ n < poll.to /\ poll'.pc = "logs" /\ poll'.next = n + 1
           \/ /\ n = poll.to /\ poll'.next = poll.from
              /\ poll'.pc = IF poll.mode = "catchup" THEN "commit" ELSE "scan"
  BY <1>1, FetchChunkIs
<1>3. /\ chain' = chain /\ row' = row /\ fin' = fin /\ poll'.from = poll.from
      /\ poll'.to = poll.to /\ poll'.mode = poll.mode /\ poll'.latest = poll.latest
      /\ poll'.finalized = poll.finalized
  BY <1>1 DEF OnlyPoll, KeepsAim
<1>4. /\ poll.from \in Nat /\ poll.next \in Nat /\ poll.to \in Nat /\ poll.from <= poll.next
      /\ Len(chain) \in Nat /\ fin \in Nat /\ fin <= Len(chain)
      /\ Upto = poll.next - 1 /\ poll.to <= poll.latest[1]
      /\ poll.mode = "catchup" => poll.to <= fin
      /\ poll.latest[1] \in Nat
  BY <1>1, RangeIs, FieldTypes DEF PollInv, PollOK, ChainOK, Upto
<1>5. Upto' = n
  BY <1>2, <1>3, <1>4 DEF Upto
<1>6. Ranged(poll.next, n) = Run(chain, poll.next, Smaller(n, Len(chain)))
  BY DEF Ranged, Run, At
<1>7. /\ On(chain, poll.latest) \/ poll.mode = "catchup" =>
           poll.logs = Run(chain, poll.from, poll.next - 1)
      /\ Below(poll.logs, fin) = Run(chain, poll.from, Smaller(poll.next - 1, fin))
      /\ poll.mode = "steady" /\ On(chain, poll.latest) => On(chain, row.live)
      /\ poll.mode = "reorg" => poll.finalized[1] <= row.live[1]
  BY <1>1, <1>4 DEF ViewInv, ReadOK
<1>8. ASSUME On(chain, poll.latest) \/ poll.mode = "catchup"
      PROVE  poll'.logs = Run(chain, poll.from, n)
  <2>1. n <= Len(chain)
    BY <1>2, <1>4, <1>8 DEF On
  <2>2. Smaller(n, Len(chain)) = n
    BY <1>4, <2>1 DEF Smaller
  <2>3. poll.next <= n + 1
    BY <1>2, <1>4
  <2>4. Run(chain, poll.from, poll.next - 1) \cup Run(chain, poll.next, n)
          = Run(chain, poll.from, n)
    <3>1. PICK a \in Int, l \in Int, m \in Int, top \in Int :
            /\ a = poll.from /\ l = poll.next - 1 /\ m = poll.next /\ top = n
            /\ a <= m /\ m <= l + 1 /\ l <= top
      BY <1>4, <2>3
    <3>2. Run(chain, a, l) \cup Run(chain, m, top) = Run(chain, a, top)
      BY <3>1, RunJoin
    <3> QED BY <3>1, <3>2
  <2> QED BY <1>2, <1>6, <1>7, <1>8, <2>2, <2>4
<1>9. Below(poll'.logs, fin) = Run(chain, poll.from, Smaller(n, fin))
  <2>1. /\ Smaller(n, Len(chain)) \in Int
        /\ Smaller(Smaller(n, Len(chain)), fin) = Smaller(n, fin)
    BY <1>4 DEF Smaller
  <2>2. Below(Ranged(poll.next, n), fin) = Run(chain, poll.next, Smaller(n, fin))
    <3>1. PICK top \in Int : top = Smaller(n, Len(chain))
      BY <2>1
    <3>2. Below(Run(chain, poll.next, top), fin) = Run(chain, poll.next, Smaller(top, fin))
      BY <1>4, RunBelow
    <3> QED BY <1>6, <2>1, <3>1, <3>2
  <2>3. poll.next <= n + 1
    BY <1>2, <1>4
  <2> QED BY <1>2, <1>4, <1>7, <2>2, <2>3, RunsJoin
<1>10. /\ "torn" \notin met' => On(chain', poll'.latest)
       /\ poll'.latest[1] <= fin' => On(chain', poll'.latest)
  BY <1>1, <1>3, HeadKept
<1>11. Smaller(Upto, fin)' = Smaller(n, fin)
  BY <1>3, <1>5 DEF Smaller
<1> QED BY <1>3, <1>5, <1>7, <1>8, <1>9, <1>10, <1>11 DEF ReadOK

\* What a commit keeps of the view, below the range it fetched.
LEMMA BaseIs ==
  ASSUME ViewInv, Safe(met), Commit, UNCHANGED <<view, told, origin>>
  PROVE  \E Base : \E s \in Nat :
           /\ Held' = Base \cup poll.logs /\ Start' = s
           /\ 1 <= s /\ s <= Checkpoint[1] /\ s <= poll.from
           /\ Below(Base, fin) = Run(chain, s, Smaller(poll.from - 1, fin))
           /\ On(chain, row'.live) => Base = Run(chain, s, poll.from - 1)
<1>1. /\ PollInv /\ HeldOK /\ ReadOK /\ Fetches /\ poll.pc = "commit"
      /\ batch = NoBatch /\ Aimed /\ Final(poll.finalized)
  BY CommitIs DEF ViewInv, PollInv, PollOK, Fetches
<1>2. /\ batch'.logs = poll.logs /\ batch'.finalized = Checkpoint
      /\ batch'.reorg = (poll.mode = "reorg")
      /\ row'.live = IF poll.mode = "catchup" THEN poll.finalized ELSE poll.latest
  BY <1>1, CommitIs
<1>3. /\ Checkpoint[1] \in Nat /\ Checkpoint[1] >= 1 /\ (Polled => row.finalized[1] <= Checkpoint[1])
      /\ Checkpoint = poll.finalized \/ (Polled /\ Checkpoint = row.finalized)
      /\ poll.mode = "reorg" => Checkpoint[1] = poll.finalized[1]
      /\ poll.mode = "catchup" => row.live[1] < poll.finalized[1]
  BY <1>1, CheckpointIs
<1>4. /\ poll.finalized[1] \in Nat /\ row.live[1] \in Nat /\ row.finalized[1] \in Nat
      /\ fin \in Nat /\ origin \in Nat /\ poll.finalized[1] <= fin /\ view \subseteq Block
  BY <1>1, FieldTypes DEF PollInv, Final, ViewInv, ViewOK
<1>5. Held' = (IF poll.mode = "reorg" THEN Below(view, Checkpoint[1]) ELSE view) \cup poll.logs
  BY <1>2 DEF Held, Below
<1>6. CASE poll.mode = "first"
  <2>1. /\ ~Polled /\ poll.from = poll.finalized[1] /\ Checkpoint = poll.finalized
    BY <1>1, <1>3, <1>6 DEF Aimed
  <2>2. view = {} /\ origin = 0
    BY <1>1, <2>1 DEF ViewInv, ViewOK
  <2>3. PICK s \in Nat : s = poll.finalized[1] /\ 1 <= s
    BY <1>3, <2>1
  <2>4. Start' = s
    BY <1>2, <2>1, <2>2, <2>3 DEF Start
  <2>5. Smaller(s - 1, fin) \in Int /\ Smaller(s - 1, fin) < s /\ s - 1 < s
    BY <1>4 DEF Smaller
  <2>6. Run(chain, s, Smaller(s - 1, fin)) = {} /\ Run(chain, s, s - 1) = {}
    BY <2>5, RunEmpty
  <2>7. Below({}, fin) = {} /\ Held' = {} \cup poll.logs
    BY <1>5, <1>6, <2>2 DEF Below
  <2>8. s <= Checkpoint[1] /\ s <= poll.from
    BY <2>1, <2>3
  <2> QED BY <2>1, <2>3, <2>4, <2>6, <2>7, <2>8
<1>7. ASSUME Polled
      PROVE  /\ origin # 0 /\ Start = origin /\ Start' = origin /\ Held = view
             /\ 1 <= origin /\ origin <= row.finalized[1] /\ row.finalized[1] <= row.live[1]
             /\ Below(view, fin) = Run(chain, origin, Smaller(row.live[1], fin))
             /\ On(chain, row.live) => view = Run(chain, origin, row.live[1])
             /\ row.live[1] <= fin => On(chain, row.live)
  <2>1. origin # 0 /\ Start = origin /\ Start' = origin
    BY <1>1, <1>7 DEF ViewInv, ViewOK, Start
  <2>2. Held = view
    BY <1>1, EmptyTypes DEF Held
  <2>3. row.finalized[1] <= row.live[1]
    BY <1>1, <1>7 DEF PollInv, RowOK
  <2> QED BY <1>1, <1>7, <2>1, <2>2, <2>3 DEF HeldOK
<1>8. CASE poll.mode \in {"steady", "catchup"}
  <2>1. Polled /\ poll.from = row.live[1] + 1
    BY <1>1, <1>8 DEF Aimed
  <2>2. Held' = view \cup poll.logs /\ poll.from - 1 = row.live[1]
    BY <1>4, <1>5, <1>8, <2>1
  <2>3. On(chain, row'.live) => On(chain, row.live)
    <3>1. CASE poll.mode = "steady"
      BY <1>1, <1>2, <3>1 DEF ReadOK
    <3>2. CASE poll.mode = "catchup"
      BY <1>3, <1>4, <1>7, <2>1, <3>2
    <3> QED BY <1>8, <3>1, <3>2
  <2>4. origin <= Checkpoint[1] /\ origin <= poll.from
    BY <1>3, <1>4, <1>7, <2>1
  <2> QED BY <1>4, <1>7, <2>1, <2>2, <2>3, <2>4
<1>9. CASE poll.mode = "reorg"
  <2>1. /\ Polled /\ poll.from = poll.finalized[1] + 1 /\ row.finalized[1] <= poll.finalized[1]
        /\ poll.finalized[1] <= row.live[1] /\ Checkpoint[1] = poll.finalized[1]
    BY <1>1, <1>3, <1>9 DEF Aimed, ReadOK
  <2>2. PICK r \in Nat, L \in Nat : r = poll.finalized[1] /\ L = row.live[1]
    BY <1>4
  <2>3. /\ poll.from - 1 = r /\ Smaller(r, fin) = r /\ Smaller(L, fin) \in Int
        /\ Smaller(Smaller(L, fin), r) = r
    BY <1>4, <2>1, <2>2 DEF Smaller
  <2>4. Below(Run(chain, origin, Smaller(L, fin)), r) = Run(chain, origin, r)
    BY <1>4, <2>3, RunBelow
  <2>5. Below(Below(view, fin), r) = Below(view, r) /\ Below(Below(view, r), fin) = Below(view, r)
    BY <1>4, <2>2, BelowIs
  <2>6. Below(view, r) = Run(chain, origin, r)
    BY <1>7, <2>1, <2>2, <2>4, <2>5
  <2>7. Held' = Below(view, r) \cup poll.logs
    BY <1>5, <1>9, <2>1, <2>2
  <2>8. origin <= Checkpoint[1] /\ origin <= poll.from
    BY <1>4, <1>7, <2>1
  <2> QED BY <1>4, <1>7, <2>1, <2>3, <2>5, <2>6, <2>7, <2>8
<1> QED BY <1>1, <1>6, <1>8, <1>9 DEF Aimed

\* The batch joins on to what the consumer holds.
LEMMA HeldCommit ==
  ASSUME ViewInv, Safe(met), Commit, UNCHANGED <<view, told, origin>>
  PROVE  HeldOK' /\ ReadOK'
<1>1. /\ PollInv /\ ReadOK /\ Fetches /\ poll.pc = "commit" /\ Final(poll.finalized)
      /\ UNCHANGED <<chain, abandoned, fin, met>> /\ poll' = Idle
      /\ row'.live = (IF poll.mode = "catchup" THEN poll.finalized ELSE poll.latest)
      /\ row'.finalized = Checkpoint
  BY CommitIs DEF ViewInv, PollInv, PollOK, Fetches
<1>2. PICK Base : \E s \in Nat :
           /\ Held' = Base \cup poll.logs /\ Start' = s
           /\ 1 <= s /\ s <= Checkpoint[1] /\ s <= poll.from
           /\ Below(Base, fin) = Run(chain, s, Smaller(poll.from - 1, fin))
           /\ On(chain, row'.live) => Base = Run(chain, s, poll.from - 1)
  BY BaseIs
<1>3. PICK s \in Nat :
           /\ Held' = Base \cup poll.logs /\ Start' = s
           /\ 1 <= s /\ s <= Checkpoint[1] /\ s <= poll.from
           /\ Below(Base, fin) = Run(chain, s, Smaller(poll.from - 1, fin))
           /\ On(chain, row'.live) => Base = Run(chain, s, poll.from - 1)
  BY <1>2
<1>4. PICK b \in Block, m \in Nat, T \in Nat :
        /\ b = row'.live /\ m = poll.from /\ T = b[1] /\ T = poll.to /\ m <= T + 1
        /\ Upto = T
  <2>1. /\ poll.from \in Nat /\ poll.to \in Nat /\ poll.from <= Upto + 1 /\ Upto = poll.to
        /\ poll.mode # "catchup" => poll.to = poll.latest[1]
    BY <1>1, RangeIs DEF Upto
  <2>2. poll.mode = "catchup" => poll.to = poll.finalized[1]
    BY <1>1 DEF PollInv, PollOK, Aimed
  <2>3. row'.live \in Block
    BY <1>1, FieldTypes DEF PollInv
  <2> QED BY <1>1, <2>1, <2>2, <2>3
<1>5. fin \in Nat
  BY <1>1, FieldTypes DEF PollInv
<1>6. /\ "torn" \notin met => On(chain, b)
      /\ T <= fin => On(chain, b)
      /\ On(chain, b) => poll.logs = Run(chain, m, T)
      /\ Below(poll.logs, fin) = Run(chain, m, Smaller(T, fin))
  <2>1. CASE poll.mode = "catchup"
    BY <1>1, <1>4, <2>1 DEF ReadOK, Final
  <2>2. CASE poll.mode # "catchup"
    BY <1>1, <1>4, <2>2 DEF ReadOK
  <2> QED BY <2>1, <2>2
<1>7. ASSUME On(chain, b) PROVE Held' = Run(chain, s, T)
  <2>1. Run(chain, s, m - 1) \cup Run(chain, m, T) = Run(chain, s, T)
    <3>1. PICK a \in Int, l \in Int, mid \in Int, top \in Int :
            /\ a = s /\ l = m - 1 /\ mid = m /\ top = T
            /\ a <= mid /\ mid <= l + 1 /\ l <= top
      BY <1>3, <1>4
    <3>2. Run(chain, a, l) \cup Run(chain, mid, top) = Run(chain, a, top)
      BY <3>1, RunJoin
    <3> QED BY <3>1, <3>2
  <2> QED BY <1>3, <1>4, <1>6, <1>7, <2>1
<1>8. ASSUME "torn" \notin met, On(abandoned, b) PROVE Held' = Run(abandoned, s, T)
  <2>1. On(chain, b) /\ Same(chain, abandoned, T)
    BY <1>1, <1>4, <1>6, <1>8, TreeSame
  <2>2. T <= T
    OBVIOUS
  <2>3. Run(chain, s, T) = Run(abandoned, s, T)
    BY <1>3, <2>1, <2>2, RunSame
  <2> QED BY <1>7, <2>1, <2>3
<1>9. Below(Held', fin) = Run(chain, s, Smaller(T, fin))
  <2>1. Below(Base, fin) = Run(chain, s, Smaller(m - 1, fin)) /\ s <= m
    BY <1>3, <1>4
  <2>2. Below(Base \cup poll.logs, fin) = Run(chain, s, Smaller(T, fin))
    BY <1>4, <1>5, <1>6, <2>1, RunsJoin
  <2> QED BY <1>3, <2>2
<1>10. Smaller(row.live[1], fin)' = Smaller(T, fin)
  BY <1>1, <1>4 DEF Smaller
<1>11. HeldOK'
  BY <1>1, <1>3, <1>4, <1>6, <1>7, <1>8, <1>9, <1>10 DEF HeldOK
<1> QED BY <1>1, <1>11, EmptyTypes DEF ReadOK

\* Nothing new, and the batch that says so.
LEMMA HeldNoProgress ==
  ASSUME ViewInv, Safe(met), CheckNoProgress, UNCHANGED <<view, told, origin>>
  PROVE  HeldOK' /\ ReadOK'
<1>1. /\ UNCHANGED <<chain, abandoned, fin, row, met>> /\ poll' = Idle /\ poll.pc = "check"
      /\ batch'.logs = {} /\ ~batch'.reorg /\ PollInv /\ HeldOK
  BY NoProgressIs DEF ViewInv
<1>2. batch = NoBatch /\ Polled
  BY <1>1 DEF PollInv, PollOK
<1>3. Held' = view /\ Held = view
  BY <1>1, <1>2, EmptyTypes DEF Held
<1>4. Start' = Start
  BY <1>1, <1>2 DEF Start, ViewInv, ViewOK
<1>5. Polled' = Polled
  BY <1>1 DEF Polled
<1> QED BY <1>1, <1>3, <1>4, <1>5, EmptyTypes DEF HeldOK, ReadOK

\* Every step keeps what is promised of the view.
LEMMA ViewNext == ViewInv /\ [Next]_vars => ViewInv'
<1> SUFFICES ASSUME ViewInv, [Next]_vars, Safe(met)' PROVE HeldOK' /\ ReadOK'
  BY ViewTypes DEF ViewInv
<1>1. PollInv /\ PollInv'
  BY ViewTypes DEF ViewInv
<1>2. ASSUME OnlyPoll, UNCHANGED <<view, told, origin>> PROVE Safe(met) /\ HeldOK'
  <2>1. Safe(met)
    BY <1>2 DEF OnlyPoll
  <2> QED BY <1>2, <2>1, HeldKept DEF ViewInv
<1>3. CASE ChainNext /\ UNCHANGED <<view, told, origin>>
  BY <1>1, <1>3, ChainMoves, HeldChain, ReadChain
<1>4. CASE /\ ReadLatest \/ ReadFinalized \/ CheckReorg \/ CheckAdvance
           /\ UNCHANGED <<view, told, origin>>
  <2>1. OnlyPoll
    BY <1>1, <1>4, ReadLatestIs, ReadFinalizedIs, CheckReorgIs, CheckAdvanceIs
  <2> QED BY <1>1, <1>2, <1>4, <2>1, ReadStarts
<1>5. CASE (CheckMissing \/ PollFails) /\ UNCHANGED <<view, told, origin>>
  <2>1. OnlyPoll /\ poll' = Idle
    BY <1>5, IdleIs
  <2> QED BY <1>2, <1>5, <2>1, EmptyTypes DEF ReadOK
<1>6. CASE CheckNoProgress /\ UNCHANGED <<view, told, origin>>
  <2>1. Safe(met)
    BY <1>1, <1>6, NoProgressIs
  <2> QED BY <1>6, <2>1, HeldNoProgress
<1>7. CASE FetchChunk /\ UNCHANGED <<view, told, origin>>
  BY <1>1, <1>2, <1>7, FetchChunkIs, ReadFetchChunk
<1>8. CASE ScanBlock /\ UNCHANGED <<view, told, origin>>
  BY <1>1, <1>2, <1>8, ScanBlockIs, ReadScans
<1>9. CASE Commit /\ UNCHANGED <<view, told, origin>>
  <2>1. Safe(met)
    BY <1>1, <1>9, CommitIs
  <2> QED BY <1>9, <2>1, HeldCommit
<1>10. CASE Take
  <2>1. /\ UNCHANGED <<chain, abandoned, fin, row, poll, met>> /\ Held' = Held /\ Start' = Start
    BY <1>1, <1>10, TakeIs, PollTake DEF ViewInv
  <2>2. Safe(met) /\ HeldOK /\ ReadOK
    BY <2>1 DEF ViewInv
  <2> QED BY <2>1, <2>2 DEF HeldOK, ReadOK, Polled, Fetches, Upto
<1>11. CASE UNCHANGED vars
  <2>1. /\ OnlyPoll /\ UNCHANGED <<view, told, origin>> /\ poll' = poll
    BY <1>11 DEF vars, logVars, chainVars, rowVars, OnlyPoll
  <2>2. Safe(met) /\ HeldOK'
    BY <1>2, <2>1
  <2>3. ReadOK
    BY <2>2 DEF ViewInv
  <2> QED BY <2>1, <2>2, <2>3 DEF ReadOK, OnlyPoll, Fetches, Upto
<1> QED BY <1>3, <1>4, <1>5, <1>6, <1>7, <1>8, <1>9, <1>10, <1>11 DEF Next, PollStep

\* ViewInv is an invariant.
LEMMA ViewInvariant == Spec => []ViewInv
<1>1. Init => ViewInv
  <2> SUFFICES ASSUME Init PROVE ViewInv
    OBVIOUS
  <2>1. ~Polled /\ poll.pc = "idle"
    BY EmptyTypes DEF Init, LogInit, Polled
  <2> QED BY <2>1, ViewStart DEF ViewInv, HeldOK, ReadOK
<1> QED BY <1>1, ViewNext, PTL DEF Spec

\* When the cursor is a canonical block, what the consumer holds is the
\* canonical chain from the first block polled to the cursor, whatever the
\* chain did between the calls of a poll, on the conditions ViewMatchesChain
\* names, for every finality depth and chunk size and any number of forks.
THEOREM ViewIsTheChain == Spec => []ViewMatchesChain
<1>1. ViewInv => ViewMatchesChain
  <2> SUFFICES ASSUME ViewInv, AtRest, OnChain(row.live), Safe(met)
               PROVE  view = {At(h) : h \in origin..row.live[1]}
    BY DEF ViewMatchesChain, Safe
  <2>1. PollInv /\ HeldOK /\ Polled /\ batch = NoBatch
    BY DEF ViewInv, AtRest
  <2>2. On(chain, row.live)
    BY <2>1, FieldTypes, OnChainIs DEF PollInv
  <2>3. Held = view /\ Start = origin
    BY <2>1, EmptyTypes DEF Held, Start, ViewInv, ViewOK
  <2>4. view = Run(chain, origin, row.live[1])
    BY <2>1, <2>2, <2>3 DEF HeldOK
  <2> QED BY <2>4 DEF Run, At
<1> QED BY <1>1, ViewInvariant, PTL

-----------------------------------------------------------------------------
(* What the rows remember *)

\* The conditions under which displaced blocks are promised to be reported.
Untorn(m) == m \cap {"passed", "torn"} = {}


\* The rows are of the chain the cursor is on, below it, and canonical where
\* that is final.  A block that was handed over is in them, was reported, or
\* can no longer be displaced.
RowsOK ==
  /\ \A b \in scanned :
       /\ On(chain, row.live) => On(chain, b)
       /\ On(abandoned, row.live) => On(abandoned, b)
       /\ b[1] <= row.live[1]
       /\ b[1] <= fin => On(chain, b)
  /\ \A b \in told \cup batch.logs : b \in orphans \/ b \in scanned \/ Final(b)

\* The hashes that the poll has read, and the rows it set out to compare.
HashesOK ==
  Fetches =>
    /\ poll.blocks = Run(chain, poll.from, Scanned)
    /\ poll.mode = "reorg" => poll.prior = {b \in scanned : b[1] > poll.finalized[1]}

ScanInv == ViewInv /\ (Untorn(met) => RowsOK /\ HashesOK)


\* A change of the chain keeps the rows.
LEMMA RowsChain ==
  ASSUME ScanInv, ChainMove, UNCHANGED <<view, told, origin>>, Untorn(met')
  PROVE  RowsOK'
<1>1. /\ UNCHANGED <<row, scanned, orphans, poll, batch>> /\ met \subseteq met'
      /\ PollInv /\ RowsOK /\ Safe(met') /\ "torn" \notin met' /\ "passed" \notin met'
  BY DEF ChainMove, Grows, ScanInv, ViewInv, Untorn, Safe
<1>2. /\ row.live \in Block /\ row.live[1] \in Nat /\ scanned \subseteq Block /\ fin \in Nat
      /\ told \subseteq Block /\ batch.logs \subseteq Block
      /\ Len(chain') \in Nat /\ Len(abandoned') \in Nat
  <2>1. /\ row.live \in Block /\ row.live[1] \in Nat /\ fin \in Nat
    BY <1>1, FieldTypes DEF PollInv
  <2>2. scanned \subseteq Block /\ told \subseteq Block /\ batch.logs \subseteq Block
    BY <1>1 DEF PollInv, TypeOK, BatchType, ScanInv, ViewInv, ViewOK
  <2>3. Len(chain') \in Nat /\ Len(abandoned') \in Nat
    BY DEF ChainMove, Grows
  <2> QED BY <2>1, <2>2, <2>3
<1>3. \A b \in Block : Final(b) => Final(b)'
  BY <1>1, FinalStays
<1>4. ASSUME NEW b \in told \cup batch.logs
      PROVE  b \in orphans \/ b \in scanned \/ Final(b)'
  BY <1>1, <1>2, <1>3 DEF RowsOK
<1>5. ASSUME NEW b \in scanned
      PROVE  /\ On(chain', row.live) => On(chain', b)
             /\ On(abandoned', row.live) => On(abandoned', b)
             /\ b[1] <= row.live[1]
             /\ b[1] <= fin' => On(chain', b)
  <2>1. /\ b \in Block /\ b[1] \in Nat
        /\ On(chain, row.live) => On(chain, b)
        /\ On(abandoned, row.live) => On(abandoned, b)
        /\ b[1] <= row.live[1] /\ (b[1] <= fin => On(chain, b))
    BY <1>1, <1>2 DEF RowsOK, Block
  <2>2. Polled /\ Known(row.live)
    BY <1>1 DEF PollInv, RowOK
  <2>3. ASSUME NEW D, Len(D) \in Nat, Descends(D, row.live), On(D, row.live) PROVE On(D, b)
    <3>1. \/ On(chain, b) /\ Same(chain, D, row.live[1])
          \/ On(abandoned, b) /\ Same(abandoned, D, row.live[1])
      BY <2>1, <2>3 DEF Descends
    <3>2. b[1] \in 1..row.live[1] /\ b[1] \in 1..Len(D)
      BY <1>2, <2>1, <2>3, <3>1 DEF On
    <3> QED BY <3>1, <3>2 DEF On, Same
  <2>4. /\ On(chain', row.live) => Descends(chain', row.live)
        /\ On(abandoned', row.live) => Descends(abandoned', row.live)
    BY <1>1, <1>2, <2>2 DEF ChainMove, Ancestry
  <2>5. ASSUME b[1] <= fin' PROVE On(chain', b)
    <3>1. CASE fin' = fin
      <4>1. Final(b)
        BY <2>1, <2>5, <3>1 DEF Final
      <4>2. Final(b)'
        BY <1>3, <2>1, <4>1
      <4> QED BY <4>2 DEF Final
    <3>2. CASE fin' # fin
      BY <1>1, <2>1, <2>2, <3>2 DEF ChainMove, Sees
    <3> QED BY <3>1, <3>2
  <2> QED BY <1>2, <2>1, <2>3, <2>4, <2>5
<1> QED BY <1>1, <1>4, <1>5 DEF RowsOK

\* A change of the chain keeps the hashes: a poll that is not torn sees it grow.
LEMMA HashesChain ==
  ASSUME ScanInv, ChainMove, Untorn(met')
  PROVE  HashesOK'
<1>1. /\ UNCHANGED <<row, scanned, poll>> /\ PollInv /\ HashesOK /\ ReadOK
      /\ "torn" \notin met' /\ "torn" \notin met /\ Fetches' = Fetches /\ Scanned' = Scanned
  BY DEF ChainMove, Grows, ScanInv, ViewInv, Untorn, Safe, Fetches, Scanned
<1> SUFFICES ASSUME Fetches PROVE HashesOK'
  BY <1>1 DEF HashesOK
<1>2. /\ On(chain, poll.latest) /\ Same(chain', chain, Len(chain))
  BY <1>1 DEF ReadOK, Fetches, ChainMove, Sees
<1>3. /\ Scanned \in Int /\ Scanned <= poll.to /\ poll.to <= poll.latest[1] /\ poll.to \in Nat
      /\ poll.from \in Int /\ 1 <= poll.from /\ Len(chain) \in Nat /\ poll.latest[1] \in Nat
  BY <1>1, ScannedIs, RangeIs, FieldTypes DEF PollInv
<1>4. PICK a \in Int, top \in Int, n \in Int :
        a = poll.from /\ top = Scanned /\ n = Len(chain) /\ 1 <= a /\ top <= n
  BY <1>2, <1>3 DEF On
<1>5. Run(chain', a, top) = Run(chain, a, top)
  BY <1>2, <1>4, RunSame
<1> QED BY <1>1, <1>4, <1>5 DEF HashesOK

\* Steps of the poll that commit nothing keep the rows.
LEMMA RowsKept ==
  ASSUME RowsOK, OnlyPoll, UNCHANGED <<view, told, origin>>
  PROVE  RowsOK'
BY DEF RowsOK, OnlyPoll, Final, On

\* poll() begins to fetch: no hash is read yet.
LEMMA HashesBegin ==
  ASSUME PollInv, OnlyPoll, poll.pc \in {"finalized", "check"}, PollInv',
         NEW mode, NEW final, NEW from, NEW to, NEW prior,
         Begins(mode, final, from, to, prior),
         mode = "reorg" => prior = {b \in scanned : b[1] > final[1]}
  PROVE  HashesOK'
<1>1. /\ poll'.mode = mode /\ poll'.finalized = final /\ poll'.prior = prior
      /\ poll'.from = from /\ poll'.next = from /\ poll'.to = to
      /\ poll'.pc = IF from > to THEN "commit" ELSE "logs"
      /\ poll'.blocks = {}
  BY DEF Begins, PollInv, PollOK
<1>2. from \in Nat /\ to \in Nat
  BY <1>1, FieldTypes DEF PollInv, TypeOK, PollType
<1>3. Scanned' \in Int /\ Scanned' < from
  BY <1>1, <1>2 DEF Scanned
<1>4. Run(chain', from, Scanned') = {}
  BY <1>2, <1>3, RunEmpty
<1> QED BY <1>1, <1>4 DEF HashesOK, OnlyPoll

\* The first steps of a poll.
LEMMA HashesStart ==
  ASSUME PollInv, PollInv', ReadLatest \/ ReadFinalized \/ CheckReorg \/ CheckAdvance
  PROVE  HashesOK'
<1>1. CASE ReadLatest
  BY <1>1, ReadLatestIs DEF HashesOK, Fetches
<1>2. CASE ReadFinalized
  <2>1. /\ OnlyPoll /\ poll.pc = "finalized"
        /\ \/ poll'.pc = "check"
           \/ \E f \in 1..fin : Begins("first", At(f), f, poll.latest[1], poll.prior)
    BY <1>2, ReadFinalizedIs
  <2>2. CASE \E f \in 1..fin : Begins("first", At(f), f, poll.latest[1], poll.prior)
    <3>1. PICK mode, f : /\ mode = "first"
                         /\ Begins(mode, At(f), f, poll.latest[1], poll.prior)
      BY <2>2
    <3> QED BY <2>1, <3>1, HashesBegin
  <2> QED BY <2>1, <2>2 DEF HashesOK, Fetches
<1>3. CASE CheckReorg
  <2>1. OnlyPoll /\ poll.pc = "check"
    BY <1>3, CheckReorgIs
  <2>2. PICK r \in Block :
          Begins("reorg", r, r[1] + 1, poll.latest[1], {b \in scanned : b[1] > r[1]})
    BY <1>3, CheckReorgIs
  <2> QED BY <2>1, <2>2, HashesBegin
<1>4. CASE CheckAdvance
  <2>1. OnlyPoll /\ poll.pc = "check"
    BY <1>4, CheckAdvanceIs
  <2>2. PICK mode, to : mode \in {"catchup", "steady"}
                    /\ Begins(mode, poll.finalized, row.live[1] + 1, to, poll.prior)
    BY <1>4, CheckAdvanceIs
  <2> QED BY <2>1, <2>2, HashesBegin
<1> QED BY <1>1, <1>2, <1>3, <1>4

\* Logs are read before hashes.
LEMMA HashesFetchChunk ==
  ASSUME PollInv, HashesOK, FetchChunk
  PROVE  HashesOK'
<1>1. OnlyPoll /\ KeepsAim /\ poll.pc = "logs" /\ poll'.blocks = poll.blocks
  BY FetchChunkIs
<1>2. \/ poll'.pc = "logs"
      \/ poll'.pc = "commit" /\ poll.mode = "catchup"
      \/ poll'.pc = "scan" /\ poll'.next = poll.from
  BY FetchChunkIs
<1>3. Scanned' = poll.from - 1 /\ Scanned = poll.from - 1
  BY <1>1, <1>2 DEF Scanned, KeepsAim
<1> QED BY <1>1, <1>3 DEF HashesOK, KeepsAim, OnlyPoll, Fetches

\* One more hash.
LEMMA HashesScanBlock ==
  ASSUME PollInv, HashesOK, ScanBlock
  PROVE  HashesOK'
<1>1. OnlyPoll /\ poll.pc = "scan" /\ Fetches
  BY ScanBlockIs DEF Fetches
<1>2. CASE poll' = Idle
  BY <1>2, EmptyTypes DEF HashesOK, Fetches
<1>3. CASE /\ KeepsAim /\ poll.next \in 1..Len(chain)
           /\ poll'.blocks = poll.blocks \cup {At(poll.next)} /\ poll'.next = poll.next + 1
           /\ poll'.pc = IF poll.next < poll.to THEN "scan" ELSE "commit"
  <2>1. PICK a \in Int, m \in Int :
          /\ a = poll.from /\ m = poll.next /\ a <= m /\ m <= m + 1 /\ m <= poll.to
          /\ poll.mode # "catchup" /\ poll.to \in Int
    BY <1>1, FieldTypes DEF PollInv, PollOK
  <2>2. Scanned = m - 1 /\ Scanned' = m
    BY <1>1, <1>3, <2>1 DEF Scanned, KeepsAim
  <2>3. Run(chain, a, m - 1) \cup Run(chain, m, m) = Run(chain, a, m)
    <3>1. PICK l \in Int : l = m - 1 /\ a <= m /\ m <= l + 1 /\ l <= m
      BY <2>1
    <3>2. Run(chain, a, l) \cup Run(chain, m, m) = Run(chain, a, m)
      BY <3>1, RunJoin
    <3> QED BY <3>1, <3>2
  <2>4. Run(chain, m, m) = {At(m)}
    <3>1. m..m = {m}
      BY <2>1
    <3> QED BY <3>1 DEF Run, At
  <2>5. poll'.blocks = Run(chain, a, m)
    BY <1>1, <1>3, <2>1, <2>2, <2>3, <2>4 DEF HashesOK
  <2> QED BY <1>1, <1>3, <2>1, <2>2, <2>5 DEF HashesOK, KeepsAim, OnlyPoll
<1> QED BY <1>2, <1>3, ScanBlockIs

\* The rows that a commit keeps or adds are canonical and not above the cursor.
LEMMA KeptIs ==
  ASSUME ScanInv, Untorn(met), Commit
  PROVE  LET out == IF poll.mode = "reorg" THEN Displaced ELSE {} IN
         /\ On(chain, row'.live)
         /\ \A b \in (scanned \ out) \cup poll.blocks :
              On(chain, b) /\ b[1] <= row'.live[1]
         /\ \A b \in poll.logs : On(chain, b) /\ (b \in poll.blocks \/ Final(b))
<1> DEFINE out == IF poll.mode = "reorg" THEN Displaced ELSE {}
           live == IF poll.mode = "catchup" THEN poll.finalized ELSE poll.latest
<1>1. /\ PollInv /\ HeldOK /\ ReadOK /\ RowsOK /\ HashesOK /\ "torn" \notin met
      /\ poll.pc = "commit" /\ Fetches /\ row'.live = live
      /\ Aimed /\ Final(poll.finalized) /\ poll.finalized[1] <= poll.latest[1]
  BY CommitIs DEF ScanInv, ViewInv, PollInv, PollOK, Fetches, Untorn, Safe
<1>2. On(chain, poll.latest) /\ On(chain, live)
  BY <1>1 DEF ReadOK, Final
<1>3. /\ poll.from \in Nat /\ poll.to \in Nat /\ 1 <= poll.from /\ poll.to <= poll.latest[1]
      /\ poll.latest[1] \in Nat /\ poll.finalized[1] \in Nat /\ poll.finalized[1] <= fin
      /\ poll.latest[1] <= Len(chain) /\ Len(chain) \in Nat /\ fin \in Nat
      /\ row.live[1] \in Nat /\ scanned \subseteq Block
      /\ poll.mode # "catchup" => poll.to = poll.latest[1]
      /\ poll.mode = "catchup" => poll.to <= fin
  <2>1. /\ poll.from \in Nat /\ poll.to \in Nat /\ 1 <= poll.from /\ poll.to <= poll.latest[1]
        /\ poll.mode # "catchup" => poll.to = poll.latest[1]
        /\ poll.mode = "catchup" => poll.to <= fin
    BY <1>1, RangeIs
  <2>2. poll.finalized[1] <= fin /\ poll.latest[1] \in 1..Len(chain) /\ scanned \subseteq Block
    BY <1>1, <1>2 DEF On, Final, PollInv, TypeOK
  <2> QED BY <1>1, <2>1, <2>2, FieldTypes DEF PollInv
<1>4. Upto = poll.to /\ (poll.mode # "catchup" => Scanned = poll.to)
  BY <1>1 DEF Upto, Scanned
<1>5. /\ poll.logs = Run(chain, poll.from, poll.to)
      /\ poll.mode # "catchup" => poll.blocks = poll.logs
  BY <1>1, <1>2, <1>4 DEF ReadOK, HashesOK
<1>6. ASSUME NEW b \in poll.logs PROVE On(chain, b) /\ b[1] <= poll.to
  <2>1. PICK h \in poll.from..poll.to : b = <<h, chain[h]>>
    BY <1>5 DEF Run
  <2>2. b[1] = h /\ b[2] = chain[h] /\ h \in 1..Len(chain) /\ h <= poll.to
    BY <1>3, <2>1
  <2> QED BY <2>2 DEF On
<1>7. \A b \in poll.logs : On(chain, b) /\ (b \in poll.blocks \/ Final(b))
  <2>1. CASE poll.mode = "catchup"
    <3>1. ASSUME NEW b \in poll.logs PROVE Final(b)
      <4>1. On(chain, b) /\ b[1] <= poll.to /\ b[1] \in Int
        BY <1>6 DEF On
      <4> QED BY <1>3, <2>1, <4>1 DEF Final
    <3> QED BY <1>6, <3>1
  <2>2. CASE poll.mode # "catchup"
    BY <1>5, <1>6, <2>2
  <2> QED BY <2>1, <2>2
<1>8. ASSUME NEW b \in poll.blocks PROVE On(chain, b) /\ b[1] <= live[1]
  <2>1. CASE poll.mode = "catchup"
    <3>1. poll.blocks = Run(chain, poll.from, poll.from - 1)
      BY <1>1, <2>1 DEF HashesOK, Scanned
    <3>2. Run(chain, poll.from, poll.from - 1) = {}
      BY <1>3, RunEmpty
    <3> QED BY <3>1, <3>2
  <2>2. CASE poll.mode # "catchup"
    BY <1>3, <1>5, <1>6, <2>2
  <2> QED BY <2>1, <2>2
<1>9. ASSUME NEW b \in scanned \ out PROVE On(chain, b) /\ b[1] <= live[1]
  <2>1. /\ b[1] \in Nat /\ b[1] <= row.live[1] /\ (b[1] <= fin => On(chain, b))
        /\ On(chain, row.live) => On(chain, b)
        /\ Polled
    BY <1>1, <1>3 DEF RowsOK, Block, PollInv, RowOK
  <2>2. CASE poll.mode = "steady"
    <3>1. On(chain, row.live) /\ row.live[1] < poll.latest[1] /\ live = poll.latest
      BY <1>1, <1>2, <2>2, RangeIs DEF ReadOK
    <3> QED BY <1>3, <2>1, <3>1
  <2>3. CASE poll.mode = "catchup"
    <3>1. row.live[1] < poll.finalized[1] /\ live = poll.finalized
      BY <1>1, <2>3, CheckpointIs
    <3>2. On(chain, row.live)
      BY <1>1, <1>3, <2>1, <3>1 DEF HeldOK
    <3> QED BY <1>3, <2>1, <3>1, <3>2
  <2>4. CASE poll.mode = "reorg"
    <3>1. /\ poll.prior = {c \in scanned : c[1] > poll.finalized[1]} /\ out = Displaced
          /\ live = poll.latest
      BY <1>1, <2>4 DEF HashesOK
    <3>2. b[1] > poll.finalized[1] => b \in poll.blocks
      <4>1. b[1] > poll.finalized[1] => b \in poll.prior
        BY <3>1
      <4> QED BY <3>1, <4>1 DEF Displaced
    <3>3. CASE b[1] > poll.finalized[1]
      BY <1>8, <3>2, <3>3
    <3>4. CASE b[1] <= poll.finalized[1]
      BY <1>1, <1>3, <2>1, <3>1, <3>4
    <3> QED BY <1>3, <2>1, <3>3, <3>4
  <2> QED BY <1>1, <2>1, <2>2, <2>3, <2>4 DEF Aimed
<1> QED BY <1>1, <1>2, <1>7, <1>8, <1>9

\* The final transaction keeps the rows, or reports what it drops.
LEMMA RowsCommit ==
  ASSUME ScanInv, Untorn(met), Commit, UNCHANGED <<view, told, origin>>
  PROVE  RowsOK' /\ HashesOK'
<1> DEFINE out == IF poll.mode = "reorg" THEN Displaced ELSE {}
           K == Checkpoint[1]
<1>1. /\ UNCHANGED <<chain, abandoned, fin>> /\ poll' = Idle /\ poll.pc = "commit"
      /\ scanned' = Pruned((scanned \ out) \cup poll.blocks, K)
      /\ orphans' = orphans \cup out /\ batch'.logs = poll.logs
      /\ row' \in RowType /\ out \subseteq Block
      /\ PollInv /\ RowsOK /\ batch = NoBatch
  BY CommitIs DEF ScanInv, ViewInv, PollInv, PollOK
<1>2. /\ On(chain, row'.live)
      /\ \A b \in (scanned \ out) \cup poll.blocks : On(chain, b) /\ b[1] <= row'.live[1]
      /\ \A b \in poll.logs : On(chain, b) /\ (b \in poll.blocks \/ Final(b))
  BY KeptIs
<1> HIDE DEF out
<1>3. /\ K \in Nat /\ K <= fin /\ row'.live \in Block /\ row'.live[1] \in Nat
      /\ scanned \subseteq Block /\ poll.blocks \subseteq Block /\ fin \in Nat
      /\ Len(abandoned) \in Nat
  <2>1. K \in Nat /\ K <= fin
    BY <1>1, CheckpointIs DEF Final
  <2>2. row'.live \in Block /\ row'.live[1] \in Nat
    BY <1>1 DEF RowType, Block
  <2> QED BY <1>1, <2>1, <2>2, FieldTypes DEF PollInv, TypeOK
<1>4. ASSUME NEW b \in (scanned \ out) \cup poll.blocks PROVE b \in scanned' \/ Final(b)
  <2>1. On(chain, b) /\ b[1] \in Nat
    BY <1>2, <1>3 DEF Block
  <2>2. CASE b[1] >= K
    BY <1>1, <2>2 DEF Pruned
  <2>3. CASE ~(b[1] >= K)
    BY <1>3, <2>1, <2>3 DEF Final
  <2> QED BY <2>2, <2>3
<1>5. ASSUME NEW b \in told' \cup batch'.logs
      PROVE  b \in orphans' \/ b \in scanned' \/ Final(b)
  <2>1. CASE b \in poll.logs
    BY <1>2, <1>4, <2>1
  <2>2. CASE b \in told
    <3>1. b \in orphans \/ b \in scanned \/ Final(b)
      BY <1>1, <2>2 DEF RowsOK
    <3> QED BY <1>1, <1>4, <3>1
  <2> QED BY <1>1, <2>1, <2>2
<1>6. ASSUME NEW b \in scanned'
      PROVE  /\ On(chain, b) /\ b[1] <= row'.live[1]
             /\ On(abandoned, row'.live) => On(abandoned, b)
  <2>1. On(chain, b) /\ b[1] <= row'.live[1] /\ b[1] \in Nat
    BY <1>1, <1>2, <1>3 DEF Pruned, Block
  <2>2. ASSUME On(abandoned, row'.live) PROVE On(abandoned, b)
    <3>1. PICK c \in Block : c = row'.live /\ On(chain, c) /\ On(abandoned, c)
      BY <1>2, <1>3, <2>2
    <3>2. Same(chain, abandoned, c[1])
      BY <1>1, <3>1, TreeSame
    <3>3. b[1] \in 1..c[1] /\ b[1] \in 1..Len(abandoned)
      BY <1>3, <2>1, <3>1 DEF On
    <3> QED BY <2>1, <3>2, <3>3 DEF On, Same
  <2> QED BY <2>1, <2>2
<1>7. RowsOK'
  BY <1>1, <1>5, <1>6 DEF RowsOK, Final, On
<1>8. HashesOK'
  BY <1>1, EmptyTypes DEF HashesOK, Fetches
<1> QED BY <1>7, <1>8

\* Every step keeps the rows and the hashes.
LEMMA ScanNext == ScanInv /\ [Next]_vars => ScanInv'
<1> SUFFICES ASSUME ScanInv, [Next]_vars, Untorn(met)' PROVE RowsOK' /\ HashesOK'
  BY ViewNext DEF ScanInv
<1>1. PollInv /\ PollInv'
  BY ViewTypes DEF ScanInv, ViewInv
<1>2. ASSUME UNCHANGED met PROVE Untorn(met) /\ RowsOK /\ HashesOK
  BY <1>2 DEF ScanInv
<1>3. ASSUME OnlyPoll, UNCHANGED <<view, told, origin>> PROVE HashesOK /\ RowsOK'
  BY <1>2, <1>3, RowsKept DEF OnlyPoll
<1>4. CASE ChainNext /\ UNCHANGED <<view, told, origin>>
  BY <1>1, <1>4, ChainMoves, RowsChain, HashesChain
<1>5. CASE /\ ReadLatest \/ ReadFinalized \/ CheckReorg \/ CheckAdvance
           /\ UNCHANGED <<view, told, origin>>
  <2>1. OnlyPoll
    BY <1>1, <1>5, ReadLatestIs, ReadFinalizedIs, CheckReorgIs, CheckAdvanceIs
  <2> QED BY <1>1, <1>3, <1>5, <2>1, HashesStart
<1>6. CASE (CheckMissing \/ PollFails) /\ UNCHANGED <<view, told, origin>>
  <2>1. OnlyPoll /\ poll' = Idle
    BY <1>6, IdleIs
  <2> QED BY <1>3, <1>6, <2>1, EmptyTypes DEF HashesOK, Fetches
<1>7. CASE CheckNoProgress /\ UNCHANGED <<view, told, origin>>
  <2>1. /\ UNCHANGED <<chain, abandoned, fin, row, scanned, orphans, met>>
        /\ poll' = Idle /\ poll.pc = "check" /\ batch'.logs = {}
    BY <1>1, <1>7, NoProgressIs
  <2>2. RowsOK
    BY <1>2, <2>1
  <2> QED BY <1>7, <2>1, <2>2, EmptyTypes DEF RowsOK, HashesOK, Fetches, Final, On
<1>8. CASE FetchChunk /\ UNCHANGED <<view, told, origin>>
  BY <1>1, <1>3, <1>8, FetchChunkIs, HashesFetchChunk
<1>9. CASE ScanBlock /\ UNCHANGED <<view, told, origin>>
  BY <1>1, <1>3, <1>9, ScanBlockIs, HashesScanBlock
<1>10. CASE Commit /\ UNCHANGED <<view, told, origin>>
  <2>1. UNCHANGED met
    BY <1>1, <1>10, CommitIs
  <2> QED BY <1>2, <1>10, <2>1, RowsCommit
<1>11. CASE Take
  <2>1. /\ UNCHANGED <<chain, abandoned, fin, row, scanned, orphans, poll, met>>
        /\ told' = told \cup batch.logs /\ batch' = NoBatch
    BY <1>1, <1>11, TakeIs
  <2>2. RowsOK /\ HashesOK /\ told' \cup batch'.logs = told \cup batch.logs
    BY <1>2, <2>1, EmptyTypes
  <2> QED BY <2>1, <2>2 DEF RowsOK, HashesOK, Fetches, Scanned, Final, On
<1>12. CASE UNCHANGED vars
  <2>1. /\ OnlyPoll /\ UNCHANGED <<view, told, origin>> /\ poll' = poll
    BY <1>12 DEF vars, logVars, chainVars, rowVars, OnlyPoll
  <2>2. RowsOK' /\ HashesOK
    BY <1>3, <2>1
  <2> QED BY <2>1, <2>2 DEF HashesOK, OnlyPoll, Fetches, Scanned
<1> QED BY <1>4, <1>5, <1>6, <1>7, <1>8, <1>9, <1>10, <1>11, <1>12 DEF Next, PollStep

\* ScanInv is an invariant.
LEMMA ScanInvariant == Spec => []ScanInv
<1>1. Init => ScanInv
  <2> SUFFICES ASSUME Init PROVE ScanInv
    OBVIOUS
  <2>1. /\ ~Polled /\ poll.pc = "idle" /\ scanned = {} /\ told = {} /\ batch.logs = {}
    BY EmptyTypes DEF Init, LogInit, Polled
  <2>2. ViewInv
    BY <2>1, ViewStart DEF ViewInv, HeldOK, ReadOK
  <2> QED BY <2>1, <2>2 DEF ScanInv, RowsOK, HashesOK, Fetches
<1> QED BY <1>1, ScanNext, PTL DEF Spec

\* When the cursor is a canonical block, every block that a batch handed over
\* and that is not canonical any more has been reported as displaced, on the
\* conditions DisplacedReported names, for every finality depth and chunk size
\* and any number of forks: pruning the rows below the checkpoint loses none.
THEOREM DisplacedIsReported == Spec => []DisplacedReported
<1>1. ScanInv => DisplacedReported
  <2> SUFFICES ASSUME ScanInv, OnChain(row.live), Untorn(met), NEW b \in told
               PROVE  OnChain(b) \/ b \in orphans
    BY DEF DisplacedReported, Untorn
  <2>1. PollInv /\ RowsOK /\ b \in Block
    BY DEF ScanInv, ViewInv, ViewOK
  <2>2. On(chain, row.live)
    BY <2>1, FieldTypes, OnChainIs DEF PollInv
  <2>3. b \in orphans \/ On(chain, b)
    BY <2>1, <2>2 DEF RowsOK, Final
  <2> QED BY <2>1, <2>3, OnChainIs DEF PollInv
<1> QED BY <1>1, ScanInvariant, PTL

=============================================================================
