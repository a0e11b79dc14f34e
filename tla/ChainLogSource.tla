--------------------------- MODULE ChainLogSource ---------------------------
(***************************************************************************)
(* packages/marketplace/venue-base/src/log-source: the reader that turns a  *)
(* JSON-RPC provider into batches of marketplace logs, and the SQLite rows  *)
(* it keeps (log_cursors, scanned_block_hashes, orphaned_blocks).           *)
(*                                                                          *)
(* One poll() is a sequence of awaited RPC calls: the head, the finalized   *)
(* tag, the hash at the cursor, one getLogs per chunk, one getBlock per     *)
(* height, and a final SQLite transaction.  The chain may change between    *)
(* any two of them, so each call is an action of its own.                   *)
(*                                                                          *)
(* Data.  A block is <<number, fork>>: every reorganisation opens a fork    *)
(* with a fresh identity, so the pair stands for (blockNumber, blockHash).  *)
(* Every block carries one marketplace log, which is named by its block.    *)
(***************************************************************************)
EXTENDS Integers, Sequences

CONSTANTS
  MaxHeight,   \* bound: the height at which the chain stops growing
  MaxForks,    \* bound: how many reorganisations happen
  MaxFaults,   \* bound: how many faults happen (here: an RPC error or a restart)
  Depth,       \* finalityDepthFallback
  Chunk,       \* chunkBlocks
  StaleTags    \* the provider may serve a `finalized' tag that lags or equals `latest'

ASSUME LogAssumption ==
  /\ MaxHeight \in Nat /\ MaxForks \in Nat /\ MaxFaults \in Nat
  /\ Depth \in Nat \ {0} /\ Chunk \in Nat \ {0} /\ MaxHeight > Depth + 2
  /\ StaleTags \in BOOLEAN

VARIABLES
  \* the chain, as the provider serves it
  chain,      \* chain[h] is the fork the canonical block of height h was mined on
  abandoned,  \* the chain before the last reorganisation
  forks,      \* forks opened so far
  fin,        \* the height below which the chain no longer changes
  \* the SQLite rows of this stream
  row,        \* log_cursors: [live, finalized], or NoRow
  scanned,    \* scanned_block_hashes: blocks whose orphaned_at_ms is null
  orphans,    \* orphaned_blocks
  \* the running poll
  poll,       \* its local variables
  batch,      \* what the last poll returned, until the caller takes it
  \* history
  faults,     \* how many faults happened
  met         \* the conditions met so far that a guarantee may depend on

chainVars == <<chain, abandoned, forks, fin>>
rowVars   == <<row, scanned, orphans>>
logVars   == <<chainVars, rowVars, poll, batch, faults, met>>

Larger(m, n)  == IF m > n THEN m ELSE n
Smaller(m, n) == IF m < n THEN m ELSE n

NoBlock == <<0, 0>>
NoRow   == [live |-> NoBlock, finalized |-> NoBlock]
NoBatch == [logs |-> {}, cursor |-> NoBlock, finalized |-> NoBlock,
            reorg |-> FALSE, displaced |-> {}]
Idle    == [pc |-> "idle", mode |-> "none", latest |-> NoBlock,
            finalized |-> NoBlock, from |-> 0, next |-> 0, to |-> 0,
            logs |-> {}, blocks |-> {}, prior |-> {}]

At(h)      == <<h, chain[h]>>
Latest     == At(Len(chain))
OnChain(b) == b[1] \in 1..Len(chain) /\ b = At(b[1])
Polled     == row # NoRow

-----------------------------------------------------------------------------
(* The provider.  A block Depth below the head no longer changes: that is   *)
(* what the depth fallback of poll() takes for granted.                     *)

Mine ==
  /\ Len(chain) < MaxHeight
  /\ Len(chain) + 1 - Depth <= fin
  /\ chain' = Append(chain, forks)
  /\ UNCHANGED <<abandoned, forks, fin, rowVars, poll, batch, faults, met>>

\* Conditions the guarantees of the batches are stated under: no chain change
\* between two RPC calls of a poll ("torn"), none that restores an abandoned
\* fork ("returned"), none that becomes final unseen ("passed").
Meeting(condition, name) == met' = IF condition THEN met \cup {name} ELSE met

\* The fork that was left, as long as it can come back.
MayReturn(fork) ==
  IF /\ forks' < MaxForks /\ Len(fork) >= fin'
     /\ SubSeq(fork, 1, fin') = SubSeq(chain', 1, fin')
  THEN fork ELSE << >>

Reorg ==
  /\ forks < MaxForks
  /\ \E keep \in fin..(Len(chain) - 1) :
       chain' = Append(SubSeq(chain, 1, keep), forks + 1)
  /\ forks' = forks + 1
  /\ Meeting(poll.pc # "idle", "torn")
  /\ UNCHANGED <<fin, rowVars, poll, batch, faults>>
  /\ abandoned' = MayReturn(chain)

\* The provider falls back to the fork it had left.
Return ==
  /\ abandoned # << >>
  /\ chain' = abandoned
  /\ forks' = forks + 1
  /\ met' = met \cup {"returned"} \cup (IF poll.pc = "idle" THEN {} ELSE {"torn"})
  /\ UNCHANGED <<fin, rowVars, poll, batch, faults>>
  /\ abandoned' = MayReturn(chain)

Finalize ==
  /\ \E h \in (fin + 1)..Len(chain) : fin' = h
  /\ Meeting(\/ Polled /\ ~OnChain(row.live)
             \/ poll.pc # "idle" /\ ~OnChain(poll.latest), "passed")
  /\ UNCHANGED <<chain, forks, rowVars, poll, batch, faults>>
  /\ abandoned' = MayReturn(abandoned)

\* getBlock({blockTag: "finalized"}).  A stale tag lags, or names the head; a
\* head that went back since `latest' was read is not served as final.
FinalizedTags ==
  IF StaleTags
  THEN (1..fin) \cup {h \in {Len(chain)} : h >= poll.latest[1]}
  ELSE {fin}

-----------------------------------------------------------------------------
(* poll() *)

\* headAt("latest").
ReadLatest ==
  /\ poll.pc = "idle" /\ batch = NoBatch
  /\ poll' = [Idle EXCEPT !.pc = "finalized", !.latest = Latest]
  /\ UNCHANGED <<chainVars, rowVars, batch, faults, met>>

\* Mutant: the finalized tag is taken as it is served.
FinalizedHeight_TagTrusted(latest, tag) == tag

\* The height taken as final: the tag, or Depth below the head when the tag
\* is stale.
FinalizedHeight(latest, tag) ==
  IF \/ tag >= latest /\ latest > Depth
     \/ latest > tag + Depth
  THEN (IF latest > Depth THEN latest - Depth ELSE 0)
  ELSE tag

\* What the rest of the poll will fetch: logs of from..to, then their hashes.
Fetching(mode, from, to) ==
  [poll EXCEPT !.pc = IF from > to THEN "commit" ELSE "logs",
               !.mode = mode, !.from = from, !.next = from, !.to = to]

\* headAt("finalized"), the depth fallback and the read of the persisted row.
\* A first poll starts at the finalized block.
ReadFinalized ==
  /\ poll.pc = "finalized"
  /\ \E tag \in FinalizedTags :
       LET f == FinalizedHeight(poll.latest[1], tag)
       IN  poll' = IF Polled
                   THEN [poll EXCEPT !.pc = "check", !.finalized = At(f)]
                   ELSE [Fetching("first", f, poll.latest[1])
                           EXCEPT !.finalized = At(f)]
  /\ UNCHANGED <<chainVars, rowVars, batch, faults, met>>

\* hashAt(persisted.live.blockNumber) throws when the chain is now shorter.
CheckMissing ==
  /\ poll.pc = "check"
  /\ row.live[1] > Len(chain)
  /\ poll' = Idle
  /\ UNCHANGED <<chainVars, rowVars, batch, faults, met>>

\* Mutant: a reorganisation resumes at the cursor.
RolledBackTo_Live == row.live

\* Where a reorganisation rolls back to, and the suffix known before it.
RolledBackTo ==
  IF row.finalized[1] > poll.finalized[1] THEN row.finalized ELSE poll.finalized

\* The rows still canonical above a boundary, and what pruning leaves.
DisplacedSince(height) == {b \in scanned : b[1] > height}
Pruned(blocks, height) == {b \in blocks : b[1] >= height}

CheckReorg ==
  /\ poll.pc = "check"
  /\ row.live[1] <= Len(chain) /\ ~OnChain(row.live)
  /\ poll' = [Fetching("reorg", RolledBackTo[1] + 1, poll.latest[1])
                EXCEPT !.finalized = RolledBackTo,
                       !.prior = DisplacedSince(RolledBackTo[1])]
  /\ UNCHANGED <<chainVars, rowVars, batch, faults, met>>

\* No new block: the persisted marks are returned and nothing is written.
CheckNoProgress ==
  /\ poll.pc = "check"
  /\ OnChain(row.live) /\ poll.latest[1] <= row.live[1]
  /\ batch' = [NoBatch EXCEPT !.cursor = row.live, !.finalized = row.finalized]
  /\ poll' = Idle
  /\ UNCHANGED <<chainVars, rowVars, faults, met>>

\* Mutant: a reader level with the finalized block still catches up.
FarBehind_Sticky == poll.finalized[1] - row.live[1] >= 0

\* More than a chunk below the finalized block: catch up to it, no hashes.
\* Otherwise advance to the head and sample every hash.
FarBehind == poll.finalized[1] - row.live[1] > Chunk
CheckAdvance ==
  /\ poll.pc = "check"
  /\ OnChain(row.live) /\ poll.latest[1] > row.live[1]
  /\ poll' = IF FarBehind
             THEN Fetching("catchup", row.live[1] + 1, poll.finalized[1])
             ELSE Fetching("steady", row.live[1] + 1, poll.latest[1])
  /\ UNCHANGED <<chainVars, rowVars, batch, faults, met>>

\* getLogs({fromBlock, toBlock}): what the provider has of the range now.
Logs(from, to) == {At(h) : h \in from..Smaller(to, Len(chain))}

\* One call of fetchChunked.  Catching up needs no hashes.
FetchChunk ==
  /\ poll.pc = "logs"
  /\ LET end == Smaller(poll.next + Chunk - 1, poll.to)
     IN  poll' = [poll EXCEPT
                    !.logs = @ \cup Logs(poll.next, end),
                    !.next = IF end < poll.to THEN end + 1 ELSE poll.from,
                    !.pc   = IF end < poll.to THEN "logs"
                             ELSE IF poll.mode = "catchup" THEN "commit" ELSE "scan"]
  /\ UNCHANGED <<chainVars, rowVars, batch, faults, met>>

\* One getBlock call of scanBlockHashes; a missing block makes the poll throw.
ScanBlock ==
  /\ poll.pc = "scan"
  /\ poll' = IF poll.next > Len(chain) THEN Idle
             ELSE [poll EXCEPT !.blocks = @ \cup {At(poll.next)},
                               !.next = @ + 1,
                               !.pc = IF poll.next < poll.to THEN "scan" ELSE "commit"]
  /\ UNCHANGED <<chainVars, rowVars, batch, faults, met>>

\* The blocks a reorganisation displaced: prior rows that the new scan does
\* not confirm, or the cursor itself when no row survives to name them.
Displaced ==
  IF poll.prior = {} /\ row.live[1] > poll.finalized[1]
  THEN {row.live}
  ELSE poll.prior \ poll.blocks

\* The final transaction.  The checkpoint only moves forward; rows below it
\* are pruned, the row at the checkpoint is kept.
Checkpoint == IF Polled /\ row.finalized[1] >= poll.finalized[1]
              THEN row.finalized ELSE poll.finalized

\* Mutant: displaced blocks are neither recorded nor reported.
Commit_DropsOrphans ==
  /\ poll.pc = "commit"
  /\ row' = [live |-> IF poll.mode = "catchup" THEN poll.finalized ELSE poll.latest,
             finalized |-> Checkpoint]
  /\ scanned' = poll.blocks
  /\ batch' = [logs |-> poll.logs, cursor |-> row'.live, finalized |-> Checkpoint,
               reorg |-> poll.mode = "reorg", displaced |-> {}]
  /\ poll' = Idle
  /\ UNCHANGED <<chainVars, orphans, faults, met>>

Commit ==
  /\ poll.pc = "commit"
  /\ LET live == IF poll.mode = "catchup" THEN poll.finalized ELSE poll.latest
         out  == IF poll.mode = "reorg" THEN Displaced ELSE {}
     IN  /\ row' = [live |-> live, finalized |-> Checkpoint]
         /\ scanned' = Pruned((scanned \ out) \cup poll.blocks, Checkpoint[1])
         /\ orphans' = orphans \cup out
         /\ batch' = [logs |-> poll.logs, cursor |-> live, finalized |-> Checkpoint,
                      reorg |-> poll.mode = "reorg", displaced |-> out]
  /\ poll' = Idle
  /\ UNCHANGED <<chainVars, faults, met>>

\* An RPC call rejects, or the process restarts: nothing was persisted.
PollFails ==
  /\ poll.pc # "idle" /\ faults < MaxFaults
  /\ faults' = faults + 1
  /\ poll' = Idle
  /\ UNCHANGED <<chainVars, rowVars, batch, met>>

-----------------------------------------------------------------------------
\* The first poll of an installation finds a chain whose final part is already
\* longer than Depth.
LogInit ==
  /\ chain = [h \in 1..(Depth + 2) |-> 0]
  /\ abandoned = << >> /\ forks = 0 /\ fin = Depth + 1
  /\ row = NoRow /\ scanned = {} /\ orphans = {}
  /\ poll = Idle /\ batch = NoBatch /\ faults = 0 /\ met = {}

ChainNext == Mine \/ Reorg \/ Return \/ Finalize

PollStep ==
  \/ ReadLatest \/ ReadFinalized
  \/ CheckMissing \/ CheckReorg \/ CheckNoProgress \/ CheckAdvance
  \/ FetchChunk \/ ScanBlock \/ Commit

=============================================================================
