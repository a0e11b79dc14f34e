--------------------------- MODULE ChainLogProofs ---------------------------
(***************************************************************************)
(* What every consumer of poll() may rely on, for chains of any height,    *)
(* any number of reorganisations, any finality depth and any chunk size:   *)
(* how the chain may change, what each step of a poll does to its          *)
(* variables, and that the persisted marks are canonical and final.        *)
(*                                                                         *)
(* A block <<h, f>> has one ancestry: blocks of fork f are added while f   *)
(* is the newest fork, and only on top of each other.  So a cursor that is *)
(* canonical now was canonical when its logs were read, on this chain or   *)
(* on the one that may come back.                                          *)
(***************************************************************************)
EXTENDS ChainLogSource, SequenceTheorems, TLAPS

Block == Nat \X Nat

RowType   == [live : Block, finalized : Block]
BatchType == [logs : SUBSET Block, cursor : Block, finalized : Block,
              reorg : BOOLEAN, displaced : SUBSET Block]
PollType  == [pc : {"idle", "finalized", "check", "logs", "scan", "commit"},
              mode : {"none", "first", "reorg", "steady", "catchup"},
              latest : Block, finalized : Block, from : Nat, next : Nat, to : Nat,
              logs : SUBSET Block, blocks : SUBSET Block, prior : SUBSET Block]

TypeOK ==
  /\ chain \in Seq(Nat) /\ abandoned \in Seq(Nat) /\ forks \in Nat /\ fin \in Nat
  /\ row \in RowType /\ scanned \subseteq Block /\ orphans \subseteq Block
  /\ poll \in PollType /\ batch \in BatchType

\* b is the block of its height on chain C.
On(C, b) == b[1] \in 1..Len(C) /\ b[2] = C[b[1]]

\* Two chains agree up to a height.
Same(C, D, h) == \A g \in 1..h : C[g] = D[g]

\* The block is canonical for good.
Final(b) == On(chain, b) /\ b[1] <= fin

\* A block that was canonical once: one of the newest fork still is.
Known(b) == b[2] <= forks /\ (b[2] = forks => On(chain, b))

\* The chain reaches past its final part by Depth at most, and so does the
\* fork that may come back.  Two blocks that are one have the same ancestors.
ChainOK ==
  /\ Depth + 1 <= fin /\ fin <= Len(chain) /\ Len(chain) <= fin + Depth
  /\ \A h \in 1..Len(chain) : chain[h] <= forks
  /\ abandoned # << >> =>
       /\ fin <= Len(abandoned) /\ Len(abandoned) <= fin + Depth
       /\ Same(abandoned, chain, fin)
       /\ \A h \in 1..Len(abandoned) : abandoned[h] < forks
  /\ \A h \in 1..Len(chain) :
       h <= Len(abandoned) /\ chain[h] = abandoned[h] => Same(chain, abandoned, h)

-----------------------------------------------------------------------------
(* The chain *)

\* The conditions under which the view is promised.
Safe(m) == "passed" \notin m /\ ~({"torn", "returned"} \subseteq m)

\* Where a block that is on chain D after a step was before it: on the same
\* chain or, as long as no poll was torn, on the fork that may come back.
Descends(D, b) ==
  \/ On(chain, b) /\ Same(chain, D, b[1])
  \/ On(abandoned, b) /\ Same(abandoned, D, b[1]) /\ "torn" \notin met'

\* What a change of the chain may do: the final part stays, what is final was
\* seen, a poll that is not torn sees the chain grow.
Grows ==
  /\ chain' \in Seq(Nat) /\ abandoned' \in Seq(Nat) /\ forks' \in Nat /\ fin' \in Nat
  /\ ChainOK' /\ fin <= fin' /\ Same(chain', chain, fin) /\ met \subseteq met'
  /\ UNCHANGED <<row, scanned, orphans, poll, batch>>

Ancestry ==
  \A b \in Block : Known(b) =>
    /\ Known(b)'
    /\ Safe(met') /\ On(chain', b) => Descends(chain', b)
    /\ Safe(met') /\ "torn" \notin met' /\ On(abandoned', b) => Descends(abandoned', b)
    /\ Safe(met') /\ poll.pc # "idle" /\ On(chain', b) =>
         On(chain, b) /\ Same(chain, chain', b[1])
    /\ "returned" \notin met' /\ On(chain', b) => On(chain, b) /\ Same(chain, chain', b[1])

Sees ==
  /\ poll.pc # "idle" /\ "torn" \notin met' =>
       Len(chain) <= Len(chain') /\ Same(chain', chain, Len(chain))
  /\ fin' # fin /\ "passed" \notin met' =>
       /\ chain' = chain
       /\ Polled => On(chain, row.live)
       /\ poll.pc # "idle" => On(chain, poll.latest)

ChainMove == Grows /\ Ancestry /\ Sees

\* A block is canonical when it is on the chain.
LEMMA OnChainIs ==
  ASSUME TypeOK, NEW b \in Block
  PROVE  OnChain(b) <=> On(chain, b)
BY DEF OnChain, On, At, Block

\* The first blocks of a chain.
LEMMA PrefixIs ==
  ASSUME NEW s \in Seq(Nat), NEW n \in Nat, n <= Len(s)
  PROVE  /\ SubSeq(s, 1, n) \in Seq(Nat) /\ Len(SubSeq(s, 1, n)) = n
         /\ \A i \in 1..n : SubSeq(s, 1, n)[i] = s[i]
<1>1. Len(s) \in Nat /\ \A i \in 1..n : s[i] \in Nat
  BY LenProperties
<1>2. /\ SubSeq(s, 1, n) \in Seq(Nat)
      /\ Len(SubSeq(s, 1, n)) = IF 1 <= n THEN n - 1 + 1 ELSE 0
      /\ \A i \in 1..(n - 1 + 1) : SubSeq(s, 1, n)[i] = s[1 + i - 1]
  BY <1>1, SubSeqProperties
<1>3. \A i \in 1..n : i \in 1..(n - 1 + 1) /\ 1 + i - 1 = i
  OBVIOUS
<1> QED BY <1>2, <1>3

\* The fork that was left, when it is kept, agrees with the chain where that
\* is final.
LEMMA MayReturnIs ==
  ASSUME NEW fork \in Seq(Nat), chain' \in Seq(Nat), fin' \in Nat, fin' >= 1,
         fin' <= Len(chain'), abandoned' = MayReturn(fork)
  PROVE  /\ abandoned' \in Seq(Nat)
         /\ \/ abandoned' = << >> /\ Len(abandoned') = 0
            \/ abandoned' = fork /\ fin' <= Len(fork) /\ Same(fork, chain', fin')
<1>1. << >> \in Seq(Nat) /\ Len(<< >>) = 0 /\ Len(fork) \in Nat
  BY EmptySeq
<1>2. CASE /\ Len(fork) >= fin' /\ SubSeq(fork, 1, fin') = SubSeq(chain', 1, fin')
           /\ abandoned' = fork
  <2>1. /\ \A i \in 1..fin' : SubSeq(fork, 1, fin')[i] = fork[i]
        /\ \A i \in 1..fin' : SubSeq(chain', 1, fin')[i] = chain'[i]
    BY <1>1, <1>2, PrefixIs
  <2> QED BY <1>1, <1>2, <2>1 DEF Same
<1> QED BY <1>1, <1>2 DEF MayReturn

\* A block is mined on top of the chain.
LEMMA MineMove ==
  ASSUME TypeOK, ChainOK, Mine
  PROVE  ChainMove
<1>1. /\ chain \in Seq(Nat) /\ Len(chain) \in Nat /\ forks \in Nat /\ fin \in Nat
      /\ abandoned \in Seq(Nat) /\ Len(abandoned) \in Nat /\ Depth \in Nat
  BY LogAssumption DEF TypeOK
<1>2. /\ chain' \in Seq(Nat) /\ Len(chain') = Len(chain) + 1
      /\ chain'[Len(chain) + 1] = forks
      /\ \A h \in 1..Len(chain) : chain'[h] = chain[h]
  BY <1>1, AppendProperties DEF Mine
<1>3. /\ UNCHANGED <<abandoned, forks, fin, row, scanned, orphans, poll, batch, met>>
      /\ Len(chain) + 1 - Depth <= fin
  BY DEF Mine, rowVars
<1>4. ChainOK'
  <2>1. Depth + 1 <= fin' /\ fin' <= Len(chain') /\ Len(chain') <= fin' + Depth
    BY <1>1, <1>2, <1>3 DEF ChainOK
  <2>2. ASSUME NEW h \in 1..Len(chain') PROVE chain'[h] <= forks'
    <3>1. h \in 1..Len(chain) \/ h = Len(chain) + 1
      BY <1>1, <1>2
    <3>2. CASE h \in 1..Len(chain)
      BY <1>2, <1>3, <3>2 DEF ChainOK
    <3>3. CASE h = Len(chain) + 1
      <4>1. chain'[h] = forks' /\ forks' \in Nat
        BY <1>1, <1>2, <1>3, <3>3
      <4> QED BY <4>1
    <3> QED BY <3>1, <3>2, <3>3
  <2>3. ASSUME abandoned' # << >>
        PROVE  /\ fin' <= Len(abandoned') /\ Len(abandoned') <= fin' + Depth
               /\ Same(abandoned', chain', fin')
               /\ \A h \in 1..Len(abandoned') : abandoned'[h] < forks'
    BY <1>1, <1>2, <1>3, <2>3 DEF ChainOK, Same
  <2>4. ASSUME NEW h \in 1..Len(chain'), h <= Len(abandoned'), chain'[h] = abandoned'[h]
        PROVE  Same(chain', abandoned', h)
    <3>1. CASE h \in 1..Len(chain)
      <4>1. Same(chain, abandoned, h)
        BY <1>2, <1>3, <2>4, <3>1 DEF ChainOK
      <4>2. \A g \in 1..h : g \in 1..Len(chain)
        BY <1>1, <3>1
      <4> QED BY <1>2, <1>3, <4>1, <4>2 DEF Same
    <3>2. CASE h = Len(chain) + 1
      <4>1. abandoned # << >>
        BY <1>1, <1>3, <2>4, <3>2, EmptySeq
      <4>2. h \in 1..Len(abandoned)
        BY <1>1, <1>3, <2>4, <3>2
      <4>3. abandoned[h] < forks
        BY <4>1, <4>2 DEF ChainOK
      <4>4. chain'[h] = forks
        BY <1>1, <1>2, <3>2
      <4> QED BY <1>1, <1>3, <2>4, <4>3, <4>4
    <3> QED BY <1>1, <1>2, <3>1, <3>2
  <2> QED BY <2>1, <2>2, <2>3, <2>4 DEF ChainOK
<1>5. Grows
  BY <1>1, <1>2, <1>3, <1>4 DEF Grows, Same, ChainOK
<1>6. ASSUME NEW b \in Block, Known(b)
      PROVE  /\ Known(b)'
             /\ On(chain', b) => On(chain, b) /\ Same(chain, chain', b[1])
             /\ On(abandoned', b) => On(abandoned, b) /\ Same(abandoned, abandoned', b[1])
  <2>1. b[1] \in Nat /\ b[2] \in Nat
    BY DEF Block
  <2>2. ASSUME On(chain, b) PROVE On(chain', b)
    <3>1. b[1] \in 1..Len(chain) /\ chain'[b[1]] = b[2]
      BY <1>2, <2>2 DEF On
    <3>2. b[1] \in 1..Len(chain')
      BY <1>1, <1>2, <3>1
    <3> QED BY <3>1, <3>2 DEF On
  <2>3. ASSUME On(chain', b) PROVE On(chain, b)
    <3>1. b[1] \in 1..Len(chain) \/ (b[1] = Len(chain) + 1 /\ b[2] = forks)
      BY <1>1, <1>2, <2>1, <2>3 DEF On
    <3>2. CASE b[1] \in 1..Len(chain)
      BY <1>2, <2>3, <3>2 DEF On
    <3> QED BY <1>6, <3>1, <3>2 DEF Known
  <2>4. On(chain, b) => Same(chain, chain', b[1])
    BY <1>1, <1>2, <2>1 DEF On, Same
  <2> QED BY <1>3, <1>6, <2>2, <2>3, <2>4 DEF Known, On, Same
<1>7. Ancestry
  BY <1>6 DEF Ancestry, Descends
<1>8. Sees
  BY <1>1, <1>2, <1>3 DEF Sees, Same
<1> QED BY <1>5, <1>7, <1>8 DEF ChainMove

\* A fork opens above the final part: its first block is of a new fork.
LEMMA ReorgMove ==
  ASSUME TypeOK, ChainOK, Reorg
  PROVE  ChainMove
<1>1. /\ chain \in Seq(Nat) /\ Len(chain) \in Nat /\ forks \in Nat /\ fin \in Nat
      /\ Depth \in Nat /\ Depth + 1 <= fin
      /\ \A h \in 1..Len(chain) : chain[h] \in Nat /\ chain[h] <= forks
  BY LogAssumption, ElementOfSeq DEF TypeOK, ChainOK
<1>2. PICK keep \in fin..(Len(chain) - 1) : chain' = Append(SubSeq(chain, 1, keep), forks + 1)
  BY DEF Reorg
<1>3. /\ UNCHANGED <<fin, row, scanned, orphans, poll, batch>> /\ forks' = forks + 1
      /\ abandoned' = MayReturn(chain)
      /\ met' = IF poll.pc # "idle" THEN met \cup {"torn"} ELSE met
  BY DEF Reorg, rowVars, Meeting
<1>4. keep \in Nat /\ fin <= keep /\ keep < Len(chain)
  BY <1>1
<1>5. /\ chain' \in Seq(Nat) /\ Len(chain') = keep + 1 /\ chain'[keep + 1] = forks + 1
      /\ \A h \in 1..keep : chain'[h] = chain[h]
  <2>1. /\ SubSeq(chain, 1, keep) \in Seq(Nat) /\ Len(SubSeq(chain, 1, keep)) = keep
        /\ \A h \in 1..keep : SubSeq(chain, 1, keep)[h] = chain[h]
    BY <1>1, <1>4, PrefixIs
  <2> QED BY <1>1, <1>2, <2>1, AppendProperties
<1>6. /\ abandoned' \in Seq(Nat)
      /\ \/ abandoned' = << >> /\ Len(abandoned') = 0
         \/ abandoned' = chain /\ Same(chain, chain', fin)
  <2>1. fin' \in Nat /\ fin' >= 1 /\ fin' <= Len(chain')
    BY <1>1, <1>3, <1>4, <1>5
  <2> QED BY <1>1, <1>3, <1>5, <2>1, MayReturnIs
<1>7. ASSUME NEW h \in 1..Len(chain'), h <= Len(abandoned'), chain'[h] = abandoned'[h]
      PROVE  h \in 1..keep /\ abandoned' = chain
  <2>1. abandoned' = chain
    BY <1>1, <1>5, <1>6, <1>7
  <2>2. h \in 1..keep \/ h = keep + 1
    BY <1>4, <1>5
  <2>3. CASE h = keep + 1
    <3>1. chain'[h] = forks + 1 /\ chain[h] \in Nat /\ chain[h] <= forks
      BY <1>1, <1>4, <1>5, <2>3
    <3> QED BY <1>1, <1>7, <2>1, <3>1
  <2> QED BY <2>1, <2>2, <2>3
<1>8. ChainOK'
  <2>1. Depth + 1 <= fin' /\ fin' <= Len(chain') /\ Len(chain') <= fin' + Depth
    <3>1. Len(chain) <= fin + Depth
      BY DEF ChainOK
    <3> QED BY <1>1, <1>3, <1>4, <1>5, <3>1
  <2>2. ASSUME NEW h \in 1..Len(chain') PROVE chain'[h] <= forks'
    <3>1. h \in 1..keep \/ h = keep + 1
      BY <1>4, <1>5
    <3>2. CASE h \in 1..keep
      <4>1. h \in 1..Len(chain) /\ chain'[h] = chain[h]
        BY <1>1, <1>4, <1>5, <3>2
      <4> QED BY <1>1, <1>3, <4>1
    <3>3. CASE h = keep + 1
      BY <1>1, <1>3, <1>5, <3>3
    <3> QED BY <3>1, <3>2, <3>3
  <2>3. ASSUME abandoned' # << >>
        PROVE  /\ fin' <= Len(abandoned') /\ Len(abandoned') <= fin' + Depth
               /\ Same(abandoned', chain', fin')
               /\ \A h \in 1..Len(abandoned') : abandoned'[h] < forks'
    <3>1. abandoned' = chain /\ Same(chain, chain', fin)
      BY <1>6, <2>3
    <3>2. \A h \in 1..Len(chain) : chain[h] < forks + 1
      BY <1>1
    <3> QED BY <1>3, <3>1, <3>2 DEF ChainOK
  <2>4. ASSUME NEW h \in 1..Len(chain'), h <= Len(abandoned'), chain'[h] = abandoned'[h]
        PROVE  Same(chain', abandoned', h)
    <3>1. h \in 1..keep /\ abandoned' = chain
      BY <1>7, <2>4
    <3>2. \A g \in 1..h : g \in 1..keep
      BY <1>4, <3>1
    <3> QED BY <1>5, <3>1, <3>2 DEF Same
  <2> QED BY <2>1, <2>2, <2>3, <2>4 DEF ChainOK
<1>9. Grows
  <2>1. \A h \in 1..fin : h \in 1..keep
    BY <1>1, <1>4
  <2> QED BY <1>1, <1>3, <1>5, <1>6, <1>8, <2>1 DEF Grows, Same
<1>10. ASSUME NEW b \in Block, Known(b)
       PROVE  /\ Known(b)'
              /\ On(chain', b) => On(chain, b) /\ Same(chain, chain', b[1])
              /\ On(abandoned', b) => On(chain, b) /\ Same(chain, abandoned', b[1])
  <2>1. b[1] \in Nat /\ b[2] \in Nat /\ b[2] <= forks
    BY <1>10 DEF Block, Known
  <2>2. b[2] < forks' /\ b[2] <= forks' /\ b[2] # forks'
    BY <1>1, <1>3, <2>1
  <2>3. ASSUME On(chain', b) PROVE On(chain, b) /\ Same(chain, chain', b[1])
    <3>1. b[1] \in 1..keep \/ b[1] = keep + 1
      BY <1>4, <1>5, <2>1, <2>3 DEF On
    <3>2. b[1] # keep + 1
      BY <1>3, <1>5, <2>2, <2>3 DEF On
    <3>3. b[1] \in 1..Len(chain) /\ \A g \in 1..b[1] : g \in 1..keep
      <4>1. b[1] \in 1..keep
        BY <3>1, <3>2
      <4> QED BY <1>1, <1>4, <2>1, <4>1
    <3> QED BY <1>5, <2>3, <3>1, <3>2, <3>3 DEF On, Same
  <2>4. On(abandoned', b) => On(chain, b) /\ Same(chain, abandoned', b[1])
    BY <1>6, <2>1 DEF On, Same
  <2> QED BY <2>2, <2>3, <2>4 DEF Known
<1>11. Ancestry
  BY <1>10 DEF Ancestry, Descends
<1>12. Sees
  BY <1>3 DEF Sees
<1> QED BY <1>9, <1>11, <1>12 DEF ChainMove

\* The fork that was left comes back.
LEMMA ReturnMove ==
  ASSUME TypeOK, ChainOK, Return
  PROVE  ChainMove
<1>1. /\ chain \in Seq(Nat) /\ Len(chain) \in Nat /\ forks \in Nat /\ fin \in Nat
      /\ abandoned \in Seq(Nat) /\ Len(abandoned) \in Nat /\ abandoned # << >>
      /\ Depth \in Nat /\ Depth + 1 <= fin /\ fin <= Len(abandoned)
      /\ Len(abandoned) <= fin + Depth /\ Same(abandoned, chain, fin)
      /\ \A h \in 1..Len(chain) : chain[h] \in Nat /\ chain[h] <= forks
      /\ \A h \in 1..Len(abandoned) : abandoned[h] \in Nat /\ abandoned[h] < forks
  BY LogAssumption, ElementOfSeq, SMTT(20) DEF TypeOK, ChainOK, Return
<1>2. /\ UNCHANGED <<fin, row, scanned, orphans, poll, batch>> /\ forks' = forks + 1
      /\ chain' = abandoned /\ abandoned' = MayReturn(chain)
      /\ met' = met \cup {"returned"} \cup (IF poll.pc = "idle" THEN {} ELSE {"torn"})
  BY DEF Return, rowVars
<1>3. /\ abandoned' \in Seq(Nat)
      /\ \/ abandoned' = << >> /\ Len(abandoned') = 0
         \/ abandoned' = chain /\ fin <= Len(chain)
  <2>1. fin' \in Nat /\ fin' >= 1 /\ fin' <= Len(chain')
    BY <1>1, <1>2
  <2> QED BY <1>1, <1>2, <2>1, MayReturnIs
<1>4. ChainOK'
  <2>1. Depth + 1 <= fin' /\ fin' <= Len(chain') /\ Len(chain') <= fin' + Depth
    BY <1>1, <1>2
  <2>2. ASSUME NEW h \in 1..Len(chain') PROVE chain'[h] <= forks'
    BY <1>1, <1>2
  <2>3. ASSUME abandoned' # << >>
        PROVE  /\ fin' <= Len(abandoned') /\ Len(abandoned') <= fin' + Depth
               /\ Same(abandoned', chain', fin')
               /\ \A h \in 1..Len(abandoned') : abandoned'[h] < forks'
    <3>1. abandoned' = chain /\ Same(chain, abandoned, fin)
      BY <1>1, <1>3, <2>3 DEF Same
    <3>2. \A h \in 1..Len(chain) : chain[h] < forks + 1
      BY <1>1
    <3> QED BY <1>2, <3>1, <3>2 DEF ChainOK
  <2>4. ASSUME NEW h \in 1..Len(chain'), h <= Len(abandoned'), chain'[h] = abandoned'[h]
        PROVE  Same(chain', abandoned', h)
    <3>1. abandoned' = chain
      BY <1>1, <1>2, <1>3, <2>4
    <3>2. h \in 1..Len(chain) /\ h <= Len(abandoned)
      BY <1>1, <1>2, <2>4, <3>1
    <3>3. Same(chain, abandoned, h)
      BY <1>2, <2>4, <3>1, <3>2 DEF ChainOK
    <3> QED BY <1>2, <3>1, <3>3 DEF Same
  <2> QED BY <2>1, <2>2, <2>3, <2>4 DEF ChainOK
<1>5. Grows
  BY <1>1, <1>2, <1>3, <1>4 DEF Grows, Same
<1>6. ASSUME NEW b \in Block, Known(b)
      PROVE  /\ Known(b)'
             /\ On(chain', b) => On(abandoned, b) /\ Same(abandoned, chain', b[1])
             /\ On(abandoned', b) => On(chain, b) /\ Same(chain, abandoned', b[1])
  <2>1. b[2] \in Nat /\ b[1] \in Nat /\ b[2] <= forks
    BY <1>6 DEF Block, Known
  <2>2. b[2] <= forks' /\ b[2] # forks'
    BY <1>1, <1>2, <2>1
  <2> QED BY <1>2, <1>3, <2>1, <2>2 DEF Known, On, Same
<1>7. Safe(met') => poll.pc = "idle" /\ "torn" \notin met'
  BY <1>2 DEF Safe
<1>8. Ancestry
  BY <1>2, <1>6, <1>7 DEF Ancestry, Descends
<1>9. Sees
  BY <1>2 DEF Sees
<1> QED BY <1>5, <1>8, <1>9 DEF ChainMove

\* More of the chain becomes final.
LEMMA FinalizeMove ==
  ASSUME TypeOK, ChainOK, Finalize
  PROVE  ChainMove
<1>1. /\ chain \in Seq(Nat) /\ Len(chain) \in Nat /\ forks \in Nat /\ fin \in Nat
      /\ abandoned \in Seq(Nat) /\ Len(abandoned) \in Nat
      /\ Depth \in Nat /\ Depth + 1 <= fin /\ Len(chain) <= fin + Depth
  BY LogAssumption DEF TypeOK, ChainOK
<1>2. /\ UNCHANGED <<chain, forks, row, scanned, orphans, poll, batch>>
      /\ abandoned' = MayReturn(abandoned)
      /\ fin' \in (fin + 1)..Len(chain)
      /\ \/ met' = met \cup {"passed"}
         \/ /\ met' = met
            /\ ~(Polled /\ ~OnChain(row.live)) /\ ~(poll.pc # "idle" /\ ~OnChain(poll.latest))
  BY DEF Finalize, rowVars, Meeting
<1>3. fin' \in Nat /\ fin < fin' /\ fin' <= Len(chain')
  BY <1>1, <1>2
<1>4. /\ abandoned' \in Seq(Nat)
      /\ \/ abandoned' = << >> /\ Len(abandoned') = 0
         \/ abandoned' = abandoned /\ fin' <= Len(abandoned) /\ Same(abandoned, chain', fin')
  <2>1. fin' \in Nat /\ fin' >= 1 /\ fin' <= Len(chain')
    BY <1>1, <1>3
  <2> QED BY <1>1, <1>2, <2>1, MayReturnIs
<1>5. ChainOK'
  <2>1. Depth + 1 <= fin' /\ fin' <= Len(chain') /\ Len(chain') <= fin' + Depth
    BY <1>1, <1>2, <1>3
  <2>2. \A h \in 1..Len(chain') : chain'[h] <= forks'
    BY <1>2 DEF ChainOK
  <2>3. ASSUME abandoned' # << >>
        PROVE  /\ fin' <= Len(abandoned') /\ Len(abandoned') <= fin' + Depth
               /\ Same(abandoned', chain', fin')
               /\ \A h \in 1..Len(abandoned') : abandoned'[h] < forks'
    <3>1. abandoned' = abandoned /\ fin' <= Len(abandoned) /\ Same(abandoned, chain', fin')
      BY <1>4, <2>3
    <3>2. /\ Len(abandoned) <= fin + Depth
          /\ \A h \in 1..Len(abandoned) : abandoned[h] < forks
      BY <2>3, <3>1 DEF ChainOK
    <3> QED BY <1>1, <1>2, <1>3, <3>1, <3>2
  <2>4. ASSUME NEW h \in 1..Len(chain'), h <= Len(abandoned'), chain'[h] = abandoned'[h]
        PROVE  Same(chain', abandoned', h)
    <3>1. abandoned' = abandoned
      BY <1>1, <1>2, <1>4, <2>4
    <3> QED BY <1>2, <2>4, <3>1 DEF ChainOK
  <2> QED BY <2>1, <2>2, <2>3, <2>4 DEF ChainOK
<1>6. Grows
  <2>1. fin <= fin' /\ fin' \in Nat /\ forks' \in Nat
    BY <1>1, <1>2, <1>3
  <2>2. Same(chain', chain, fin) /\ met \subseteq met'
    BY <1>2 DEF Same
  <2> QED BY <1>1, <1>2, <1>4, <1>5, <2>1, <2>2 DEF Grows
<1>7. ASSUME NEW b \in Block, Known(b)
      PROVE  /\ Known(b)'
             /\ On(chain', b) => On(chain, b) /\ Same(chain, chain', b[1])
             /\ On(abandoned', b) => On(abandoned, b) /\ Same(abandoned, abandoned', b[1])
  BY <1>2, <1>4, <1>7 DEF Known, On, Same, Block
<1>8. Ancestry
  BY <1>7 DEF Ancestry, Descends
<1>9. Sees
  <2>1. row.live \in Block /\ poll.latest \in Block
    BY DEF TypeOK, RowType, PollType
  <2> QED BY <1>1, <1>2, <2>1, OnChainIs DEF Sees, Same
<1> QED BY <1>6, <1>8, <1>9 DEF ChainMove

-----------------------------------------------------------------------------
(* The steps of poll(), field by field *)

Fetches == poll.pc \in {"logs", "scan", "commit"}

\* The range a poll fetches.
Aimed ==
  \/ /\ poll.mode = "first" /\ ~Polled
     /\ poll.from = poll.finalized[1] /\ poll.to = poll.latest[1]
  \/ /\ poll.mode = "reorg" /\ Polled /\ row.finalized[1] <= poll.finalized[1]
     /\ poll.from = poll.finalized[1] + 1 /\ poll.to = poll.latest[1]
  \/ /\ poll.mode = "steady" /\ Polled
     /\ poll.from = row.live[1] + 1 /\ poll.to = poll.latest[1] /\ poll.from <= poll.to
  \/ /\ poll.mode = "catchup" /\ Polled
     /\ poll.from = row.live[1] + 1 /\ poll.to = poll.finalized[1] /\ poll.from <= poll.to

\* The local variables of a running poll.
PollOK ==
  /\ poll.pc # "idle" =>
       /\ Depth < poll.latest[1] /\ poll.latest[1] <= fin + Depth /\ Known(poll.latest)
       /\ row.finalized[1] <= poll.latest[1] /\ batch = NoBatch
  /\ poll.pc \in {"finalized", "check"} => poll.logs = {} /\ poll.blocks = {}
  /\ poll.pc = "check" \/ Fetches =>
       Final(poll.finalized) /\ poll.finalized[1] <= poll.latest[1]
  /\ poll.pc = "check" => Polled
  /\ Fetches => Aimed
  /\ poll.pc = "scan" => poll.mode # "catchup"
  /\ poll.pc \in {"logs", "scan"} => poll.from <= poll.next /\ poll.next <= poll.to

\* The persisted marks, and what is there before the first of them.
RowOK ==
  /\ Polled => /\ Final(row.finalized) /\ row.finalized[1] <= row.live[1]
               /\ Known(row.live)
  /\ ~Polled => batch = NoBatch /\ scanned = {}
  /\ batch # NoBatch => batch.finalized = row.finalized /\ batch.cursor = row.live

PollInv == TypeOK /\ ChainOK /\ PollOK /\ RowOK

\* poll() goes on: what it fetches was settled before.
KeepsAim ==
  /\ poll' \in PollType
  /\ poll'.mode = poll.mode /\ poll'.latest = poll.latest /\ poll'.finalized = poll.finalized
  /\ poll'.from = poll.from /\ poll'.to = poll.to /\ poll'.prior = poll.prior

\* poll() begins to fetch.
Begins(mode, final, from, to, prior) ==
  /\ poll' \in PollType
  /\ poll'.mode = mode /\ poll'.latest = poll.latest /\ poll'.finalized = final
  /\ poll'.from = from /\ poll'.next = from /\ poll'.to = to /\ poll'.prior = prior
  /\ poll'.logs = poll.logs /\ poll'.blocks = poll.blocks
  /\ poll'.pc = IF from > to THEN "commit" ELSE "logs"

\* Nothing but the poll's own variables changes.
OnlyPoll == UNCHANGED <<chain, abandoned, forks, fin, row, scanned, orphans, batch, met>>

\* The types of the fields.
LEMMA FieldTypes ==
  ASSUME TypeOK
  PROVE  /\ poll.latest \in Block /\ poll.finalized \in Block
         /\ poll.latest[1] \in Nat /\ poll.finalized[1] \in Nat
         /\ poll.from \in Nat /\ poll.next \in Nat /\ poll.to \in Nat
         /\ poll.logs \subseteq Block /\ poll.blocks \subseteq Block /\ poll.prior \subseteq Block
         /\ row.live \in Block /\ row.finalized \in Block
         /\ row.live[1] \in Nat /\ row.finalized[1] \in Nat
         /\ Len(chain) \in Nat /\ fin \in Nat /\ forks \in Nat
         /\ Depth \in Nat /\ Depth >= 1 /\ Chunk \in Nat /\ Chunk >= 1
         /\ \A h \in 1..Len(chain) : At(h) \in Block /\ At(h)[1] = h /\ At(h)[2] = chain[h]
<1>1. /\ poll.latest \in Block /\ poll.finalized \in Block
      /\ poll.from \in Nat /\ poll.next \in Nat /\ poll.to \in Nat
      /\ poll.logs \subseteq Block /\ poll.blocks \subseteq Block /\ poll.prior \subseteq Block
  BY DEF TypeOK, PollType
<1>2. row.live \in Block /\ row.finalized \in Block
  BY DEF TypeOK, RowType
<1>3. \A b \in Block : b[1] \in Nat
  BY DEF Block
<1>4. \A h \in 1..Len(chain) : chain[h] \in Nat
  BY ElementOfSeq DEF TypeOK
<1>5. \A h \in 1..Len(chain) : At(h) \in Block /\ At(h)[1] = h /\ At(h)[2] = chain[h]
  BY <1>4 DEF At, Block, TypeOK
<1>6. Len(chain) \in Nat /\ fin \in Nat /\ forks \in Nat
  BY DEF TypeOK
<1>7. Depth \in Nat /\ Depth >= 1 /\ Chunk \in Nat /\ Chunk >= 1
  BY LogAssumption
<1> QED BY <1>1, <1>2, <1>3, <1>5, <1>6, <1>7

\* The empty values have their types.
LEMMA EmptyTypes ==
  /\ NoBlock \in Block /\ NoRow \in RowType /\ NoBatch \in BatchType /\ Idle \in PollType
  /\ NoBlock[1] = 0 /\ Idle.pc = "idle" /\ NoRow.finalized = NoBlock /\ NoRow.live = NoBlock
  /\ NoBatch.logs = {} /\ NoBatch.reorg = FALSE /\ NoBatch.finalized = NoBlock
<1>1. NoBlock \in Block /\ NoBlock[1] = 0
  BY DEF NoBlock, Block
<1> HIDE DEF NoBlock
<1> QED BY <1>1 DEF NoRow, NoBatch, Idle, RowType, BatchType, PollType

\* headAt("latest").
LEMMA ReadLatestIs ==
  ASSUME PollInv, ReadLatest
  PROVE  /\ OnlyPoll /\ poll' \in PollType /\ poll.pc = "idle" /\ batch = NoBatch
         /\ poll'.pc = "finalized" /\ poll'.latest = At(Len(chain))
         /\ poll'.logs = {} /\ poll'.blocks = {}
<1>1. Latest \in Block
  <2>1. Len(chain) \in 1..Len(chain)
    BY FieldTypes DEF PollInv, ChainOK
  <2> QED BY <2>1, FieldTypes DEF PollInv, Latest
<1>2. /\ OnlyPoll /\ poll.pc = "idle" /\ batch = NoBatch
      /\ poll' = [Idle EXCEPT !.pc = "finalized", !.latest = Latest]
  BY DEF ReadLatest, OnlyPoll, chainVars, rowVars
<1> HIDE DEF Latest
<1>3. /\ poll' \in PollType /\ poll'.pc = "finalized" /\ poll'.latest = Latest
      /\ poll'.logs = {} /\ poll'.blocks = {}
  BY <1>1, <1>2, EmptyTypes DEF Idle, PollType
<1> QED BY <1>2, <1>3 DEF Latest

\* The fields that Fetching sets.
LEMMA FetchingIs ==
  ASSUME TypeOK, NEW final \in Block, NEW from \in Nat, NEW to \in Nat,
         NEW mode \in {"first", "reorg", "steady", "catchup"}, NEW prior \in SUBSET Block,
         poll' = [Fetching(mode, from, to) EXCEPT !.finalized = final, !.prior = prior]
  PROVE  Begins(mode, final, from, to, prior)
<1>1. poll \in PollType
  BY DEF TypeOK
<1> QED BY <1>1 DEF Begins, Fetching, PollType

\* The height taken as final is one that is, below the head that was read:
\* the tag where it is fresh, Depth below that head where it is not.
LEMMA FinalizedHeightIs ==
  ASSUME PollInv, poll.pc = "finalized", NEW tag \in FinalizedTags
  PROVE  FinalizedHeight(poll.latest[1], tag) \in 1..fin
         /\ FinalizedHeight(poll.latest[1], tag) <= poll.latest[1]
<1> DEFINE l == poll.latest[1]
<1>1. /\ l \in Nat /\ fin \in Nat /\ Depth \in Nat /\ Len(chain) \in Nat
      /\ Depth < l /\ l <= fin + Depth /\ 1 <= fin
  <2>1. l \in Nat /\ fin \in Nat /\ Depth \in Nat /\ Len(chain) \in Nat
    BY FieldTypes DEF PollInv
  <2>2. Depth < l /\ l <= fin + Depth
    BY DEF PollInv, PollOK
  <2>3. 1 <= fin
    BY <2>1, FieldTypes DEF PollInv, ChainOK
  <2> QED BY <2>1, <2>2, <2>3
<1>2. tag \in Nat /\ 1 <= tag /\ (tag <= fin \/ tag >= l)
  BY <1>1 DEF FinalizedTags
<1> HIDE DEF l
<1>3. FinalizedHeight(l, tag) \in 1..fin /\ FinalizedHeight(l, tag) <= l
  BY <1>1, <1>2 DEF FinalizedHeight
<1> QED BY <1>3 DEF l

\* headAt("finalized") and the read of the row.
LEMMA ReadFinalizedIs ==
  ASSUME PollInv, ReadFinalized
  PROVE  /\ OnlyPoll /\ poll.pc = "finalized"
         /\ \E f \in 1..fin :
              /\ f <= poll.latest[1] /\ f <= Len(chain)
              /\ \/ /\ Polled /\ poll' \in PollType /\ poll'.pc = "check"
                    /\ poll'.latest = poll.latest /\ poll'.finalized = At(f)
                    /\ poll'.logs = poll.logs /\ poll'.blocks = poll.blocks
                 \/ /\ ~Polled
                    /\ Begins("first", At(f), f, poll.latest[1], poll.prior)
<1>1. OnlyPoll /\ poll.pc = "finalized" /\ poll \in PollType
  BY DEF ReadFinalized, OnlyPoll, chainVars, rowVars, PollInv, TypeOK
<1>2. PICK tag \in FinalizedTags :
        LET f == FinalizedHeight(poll.latest[1], tag)
        IN  poll' = IF Polled
                    THEN [poll EXCEPT !.pc = "check", !.finalized = At(f)]
                    ELSE [Fetching("first", f, poll.latest[1]) EXCEPT !.finalized = At(f)]
  BY DEF ReadFinalized
<1>3. PICK f \in 1..fin :
        /\ f <= poll.latest[1]
        /\ poll' = IF Polled
                   THEN [poll EXCEPT !.pc = "check", !.finalized = At(f)]
                   ELSE [Fetching("first", f, poll.latest[1]) EXCEPT !.finalized = At(f)]
  BY <1>1, <1>2, FinalizedHeightIs
<1>4. /\ f \in Nat /\ f <= Len(chain) /\ At(f) \in Block /\ poll.latest[1] \in Nat
      /\ poll.prior \in SUBSET Block
  <2>1. f \in Nat /\ f <= Len(chain) /\ f \in 1..Len(chain)
    BY FieldTypes DEF PollInv, ChainOK
  <2> QED BY <2>1, FieldTypes DEF PollInv
<1> DEFINE b == At(f)
           q == Fetching("first", f, poll.latest[1])
<1>5. CASE Polled
  <2>1. poll' = [poll EXCEPT !.pc = "check", !.finalized = b] /\ b \in Block
    BY <1>3, <1>4, <1>5
  <2> HIDE DEF b
  <2>2. /\ poll' \in PollType /\ poll'.pc = "check"
        /\ poll'.latest = poll.latest /\ poll'.finalized = b
        /\ poll'.logs = poll.logs /\ poll'.blocks = poll.blocks
    BY <1>1, <2>1 DEF PollType
  <2> QED BY <1>1, <1>3, <1>4, <1>5, <2>2 DEF b
<1>6. CASE ~Polled
  <2>1. poll' = [q EXCEPT !.finalized = b] /\ b \in Block
    BY <1>3, <1>4, <1>6
  <2> HIDE DEF b
  <2>2. Begins("first", b, f, poll.latest[1], poll.prior)
    BY <1>1, <1>4, <2>1 DEF Fetching, Begins, PollType
  <2> QED BY <1>1, <1>3, <1>4, <1>6, <2>2 DEF b
<1> QED BY <1>5, <1>6

\* A reorganisation: from above the later of the two boundaries.
LEMMA CheckReorgIs ==
  ASSUME PollInv, CheckReorg
  PROVE  /\ OnlyPoll /\ poll.pc = "check" /\ ~On(chain, row.live)
         /\ \E r \in Block :
              /\ r = row.finalized \/ r = poll.finalized
              /\ row.finalized[1] <= r[1] /\ poll.finalized[1] <= r[1]
              /\ Begins("reorg", r, r[1] + 1, poll.latest[1], {b \in scanned : b[1] > r[1]})
<1>1. /\ OnlyPoll /\ poll.pc = "check" /\ ~On(chain, row.live)
      /\ poll' = [Fetching("reorg", RolledBackTo[1] + 1, poll.latest[1])
                    EXCEPT !.finalized = RolledBackTo,
                           !.prior = DisplacedSince(RolledBackTo[1])]
  BY FieldTypes, OnChainIs DEF CheckReorg, OnlyPoll, chainVars, rowVars, PollInv
<1>2. /\ RolledBackTo \in Block /\ RolledBackTo[1] \in Nat
      /\ RolledBackTo = row.finalized \/ RolledBackTo = poll.finalized
      /\ row.finalized[1] <= RolledBackTo[1] /\ poll.finalized[1] <= RolledBackTo[1]
  BY FieldTypes DEF RolledBackTo, PollInv
<1> DEFINE r == RolledBackTo
<1>3. DisplacedSince(r[1]) \in SUBSET Block /\ DisplacedSince(r[1]) = {b \in scanned : b[1] > r[1]}
  BY DEF DisplacedSince, PollInv, TypeOK
<1>4. poll.latest[1] \in Nat /\ r[1] + 1 \in Nat
  BY <1>2, FieldTypes DEF PollInv
<1>5. Begins("reorg", r, r[1] + 1, poll.latest[1], DisplacedSince(r[1]))
  BY <1>1, <1>2, <1>3, <1>4, FetchingIs DEF PollInv
<1> QED BY <1>1, <1>2, <1>3, <1>5

\* No reorganisation: up to the head, or up to the final block when far behind.
LEMMA CheckAdvanceIs ==
  ASSUME PollInv, CheckAdvance
  PROVE  /\ OnlyPoll /\ poll.pc = "check" /\ On(chain, row.live)
         /\ poll.latest[1] > row.live[1]
         /\ \/ /\ poll.finalized[1] > row.live[1]
               /\ Begins("catchup", poll.finalized, row.live[1] + 1, poll.finalized[1], poll.prior)
            \/ Begins("steady", poll.finalized, row.live[1] + 1, poll.latest[1], poll.prior)
<1>1. /\ OnlyPoll /\ poll.pc = "check" /\ On(chain, row.live)
      /\ poll.latest[1] > row.live[1]
      /\ poll' = IF FarBehind
                 THEN Fetching("catchup", row.live[1] + 1, poll.finalized[1])
                 ELSE Fetching("steady", row.live[1] + 1, poll.latest[1])
  BY FieldTypes, OnChainIs DEF CheckAdvance, OnlyPoll, chainVars, rowVars, PollInv
<1>2. /\ poll \in PollType /\ row.live[1] \in Nat /\ row.live[1] + 1 \in Nat
      /\ poll.latest[1] \in Nat /\ poll.finalized[1] \in Nat /\ Chunk \in Nat
  BY FieldTypes DEF PollInv, TypeOK
<1>3. ASSUME NEW from \in Nat, NEW to \in Nat, NEW mode \in {"steady", "catchup"},
             poll' = Fetching(mode, from, to)
      PROVE  Begins(mode, poll.finalized, from, to, poll.prior)
  BY <1>2, <1>3 DEF Begins, Fetching, PollType
<1>4. CASE FarBehind
  <2>1. poll.finalized[1] > row.live[1]
    BY <1>2, <1>4 DEF FarBehind
  <2>2. PICK n \in Nat : n = row.live[1] + 1
    BY <1>2
  <2>3. Begins("catchup", poll.finalized, n, poll.finalized[1], poll.prior)
    BY <1>1, <1>2, <1>3, <1>4, <2>2
  <2> QED BY <1>1, <2>1, <2>2, <2>3
<1>5. CASE ~FarBehind
  <2>2. PICK n \in Nat : n = row.live[1] + 1
    BY <1>2
  <2>3. Begins("steady", poll.finalized, n, poll.latest[1], poll.prior)
    BY <1>1, <1>2, <1>3, <1>5, <2>2
  <2> QED BY <1>1, <2>2, <2>3
<1> QED BY <1>4, <1>5

\* A poll never asks for the block before the first.
LEMMA AimedFrom ==
  ASSUME TypeOK, Aimed, 1 <= poll.finalized[1]
  PROVE  1 <= poll.from
<1>1. PICK f \in Nat, v \in Nat : f = poll.finalized[1] /\ v = row.live[1]
  BY FieldTypes
<1>2. poll.from = f \/ poll.from = f + 1 \/ poll.from = v + 1
  BY <1>1 DEF Aimed
<1>3. 1 <= f
  BY <1>1
<1> QED BY <1>2, <1>3

\* What the provider has of a range.
Ranged(from, to) == {At(h) : h \in from..Smaller(to, Len(chain))}

\* One chunk of logs, ending at n: more of them, or the range is done.
LEMMA FetchChunkIs ==
  ASSUME PollInv, FetchChunk
  PROVE  /\ OnlyPoll /\ KeepsAim /\ poll.pc = "logs" /\ poll'.blocks = poll.blocks
         /\ \E n \in Nat :
              /\ poll.next <= n /\ n <= poll.to
              /\ poll'.logs = poll.logs \cup Ranged(poll.next, n)
              /\ \/ n < poll.to /\ poll'.pc = "logs" /\ poll'.next = n + 1
                 \/ /\ n = poll.to /\ poll'.next = poll.from
                    /\ poll'.pc = IF poll.mode = "catchup" THEN "commit" ELSE "scan"
<1> DEFINE n == Smaller(poll.next + Chunk - 1, poll.to)
<1>1. /\ poll \in PollType /\ OnlyPoll /\ poll.pc = "logs" /\ poll.next <= poll.to
      /\ poll.from <= poll.next
      /\ poll' = [poll EXCEPT
                    !.logs = @ \cup Logs(poll.next, n),
                    !.next = IF n < poll.to THEN n + 1 ELSE poll.from,
                    !.pc   = IF n < poll.to THEN "logs"
                             ELSE IF poll.mode = "catchup" THEN "commit" ELSE "scan"]
  BY DEF FetchChunk, OnlyPoll, chainVars, rowVars, PollInv, TypeOK, PollOK
<1>2. n \in Nat /\ poll.next <= n /\ n <= poll.to
  BY <1>1, FieldTypes DEF PollInv, Smaller
<1> HIDE DEF n
<1>3. Logs(poll.next, n) = Ranged(poll.next, n) /\ Ranged(poll.next, n) \subseteq Block
  <2>1. 1 <= poll.next
    <3>1. Aimed
      BY <1>1 DEF PollInv, PollOK, Fetches
    <3>2. 1 <= poll.finalized[1]
      BY <1>1 DEF PollInv, PollOK, Fetches, Final, On
    <3>3. 1 <= poll.from
      BY <3>1, <3>2, AimedFrom DEF PollInv
    <3>4. poll.from \in Nat /\ poll.next \in Nat
      BY FieldTypes DEF PollInv
    <3> QED BY <1>1, <3>3, <3>4
  <2>2. \A h \in poll.next..Smaller(n, Len(chain)) : h \in 1..Len(chain)
    BY <1>2, <2>1, FieldTypes DEF PollInv, Smaller
  <2> QED BY <2>2, FieldTypes DEF PollInv, Logs, Ranged
<1> DEFINE more == Ranged(poll.next, n)
<1>4. more \subseteq Block /\ poll.logs \cup more \subseteq Block
  BY <1>3, FieldTypes DEF PollInv
<1> DEFINE all == poll.logs \cup more
           next == IF n < poll.to THEN n + 1 ELSE poll.from
           at == IF n < poll.to THEN "logs"
                 ELSE IF poll.mode = "catchup" THEN "commit" ELSE "scan"
<1>5. /\ poll' = [poll EXCEPT !.logs = all, !.next = next, !.pc = at]
      /\ all \in SUBSET Block /\ next \in Nat /\ at \in {"logs", "commit", "scan"}
  BY <1>1, <1>2, <1>3, <1>4, FieldTypes DEF PollInv
<1> HIDE DEF more, all, next, at
<1>6. /\ KeepsAim /\ poll'.blocks = poll.blocks /\ poll'.logs = poll.logs \cup more
      /\ poll'.next = IF n < poll.to THEN n + 1 ELSE poll.from
      /\ poll'.pc = IF n < poll.to THEN "logs"
                    ELSE IF poll.mode = "catchup" THEN "commit" ELSE "scan"
  <2>1. KeepsAim /\ poll'.blocks = poll.blocks
    BY <1>1, <1>5 DEF KeepsAim, PollType
  <2>2. poll'.logs = all /\ poll'.next = next /\ poll'.pc = at
    BY <1>1, <1>5 DEF PollType
  <2> QED BY <2>1, <2>2 DEF all, next, at
<1>7. n < poll.to \/ n = poll.to
  BY <1>2, FieldTypes DEF PollInv
<1> QED BY <1>1, <1>2, <1>6, <1>7 DEF more

\* One block hash: the poll throws, or has it.
LEMMA ScanBlockIs ==
  ASSUME PollInv, ScanBlock
  PROVE  /\ OnlyPoll /\ poll.pc = "scan"
         /\ \/ poll' = Idle
            \/ /\ KeepsAim /\ poll'.logs = poll.logs /\ poll.next \in 1..Len(chain)
               /\ poll'.blocks = poll.blocks \cup {At(poll.next)} /\ poll'.next = poll.next + 1
               /\ poll'.pc = IF poll.next < poll.to THEN "scan" ELSE "commit"
<1>1. /\ poll \in PollType /\ OnlyPoll /\ poll.pc = "scan" /\ poll.from <= poll.next
      /\ poll' = IF poll.next > Len(chain) THEN Idle
                 ELSE [poll EXCEPT !.blocks = @ \cup {At(poll.next)},
                                   !.next = @ + 1,
                                   !.pc = IF poll.next < poll.to THEN "scan" ELSE "commit"]
  BY DEF ScanBlock, OnlyPoll, chainVars, rowVars, PollInv, TypeOK, PollOK
<1>2. CASE poll.next <= Len(chain)
  <2>1. 1 <= poll.next
    <3>1. Aimed
      BY <1>1 DEF PollInv, PollOK, Fetches
    <3>2. 1 <= poll.finalized[1]
      BY <1>1 DEF PollInv, PollOK, Fetches, Final, On
    <3>3. 1 <= poll.from
      BY <3>1, <3>2, AimedFrom DEF PollInv
    <3>4. poll.from \in Nat /\ poll.next \in Nat
      BY FieldTypes DEF PollInv
    <3> QED BY <1>1, <3>3, <3>4
  <2>2. poll.next \in 1..Len(chain) /\ poll.next \in Nat /\ ~(poll.next > Len(chain))
    BY <1>2, <2>1, FieldTypes DEF PollInv
  <2> DEFINE more == poll.blocks \cup {At(poll.next)}
  <2>3. more \subseteq Block
    BY <2>2, FieldTypes DEF PollInv
  <2> DEFINE next == poll.next + 1
             at == IF poll.next < poll.to THEN "scan" ELSE "commit"
  <2>4. /\ poll' = [poll EXCEPT !.blocks = more, !.next = next, !.pc = at]
        /\ next \in Nat /\ at \in {"scan", "commit"}
    BY <1>1, <2>2
  <2> HIDE DEF more, next, at
  <2>5. /\ KeepsAim /\ poll'.logs = poll.logs /\ poll'.blocks = more
        /\ poll'.next = poll.next + 1
        /\ poll'.pc = IF poll.next < poll.to THEN "scan" ELSE "commit"
    <3>1. KeepsAim /\ poll'.logs = poll.logs
      <4>1. poll \in PollType /\ more \in SUBSET Block
        BY <1>1, <2>3
      <4>2. poll' \in PollType
        BY <2>4, <4>1 DEF PollType
      <4>3. /\ poll'.mode = poll.mode /\ poll'.latest = poll.latest
            /\ poll'.finalized = poll.finalized /\ poll'.from = poll.from
            /\ poll'.to = poll.to /\ poll'.prior = poll.prior /\ poll'.logs = poll.logs
        BY <2>4, <4>1 DEF PollType
      <4> QED BY <4>2, <4>3 DEF KeepsAim
    <3>2. poll'.blocks = more /\ poll'.next = next /\ poll'.pc = at
      BY <1>1, <2>4 DEF PollType
    <3> QED BY <3>1, <3>2 DEF next, at
  <2> QED BY <1>1, <2>2, <2>5 DEF more
<1>3. CASE poll.next > Len(chain)
  BY <1>1, <1>3
<1> QED BY <1>2, <1>3, FieldTypes DEF PollInv

\* The final transaction, and the batch that is returned.
LEMMA CommitIs ==
  ASSUME PollInv, Commit
  PROVE  LET out == IF poll.mode = "reorg" THEN Displaced ELSE {} IN
         /\ UNCHANGED <<chain, abandoned, forks, fin, met>> /\ poll.pc = "commit" /\ poll' = Idle
         /\ row' \in RowType /\ batch' \in BatchType /\ out \subseteq Block
         /\ row'.live = IF poll.mode = "catchup" THEN poll.finalized ELSE poll.latest
         /\ row'.finalized = Checkpoint
         /\ scanned' = Pruned((scanned \ out) \cup poll.blocks, Checkpoint[1])
         /\ orphans' = orphans \cup out
         /\ batch'.logs = poll.logs /\ batch'.finalized = Checkpoint
         /\ batch'.cursor = row'.live /\ batch'.displaced = out
         /\ batch'.reorg = (poll.mode = "reorg")
         /\ Checkpoint \in Block
<1> DEFINE out == IF poll.mode = "reorg" THEN Displaced ELSE {}
           live == IF poll.mode = "catchup" THEN poll.finalized ELSE poll.latest
<1>1. /\ UNCHANGED <<chain, abandoned, forks, fin, met>> /\ poll.pc = "commit" /\ poll' = Idle
      /\ row' = [live |-> live, finalized |-> Checkpoint]
      /\ scanned' = Pruned((scanned \ out) \cup poll.blocks, Checkpoint[1])
      /\ orphans' = orphans \cup out
      /\ batch' = [logs |-> poll.logs, cursor |-> live, finalized |-> Checkpoint,
                   reorg |-> poll.mode = "reorg", displaced |-> out]
  BY DEF Commit, chainVars
<1>2. /\ out \subseteq Block /\ live \in Block /\ Checkpoint \in Block
      /\ poll.logs \subseteq Block
  BY FieldTypes DEF Displaced, Checkpoint, PollInv
<1> HIDE DEF out, live
<1>3. /\ row' \in RowType /\ row'.live = live /\ row'.finalized = Checkpoint
  BY <1>1, <1>2 DEF RowType
<1>4. /\ batch' \in BatchType /\ batch'.logs = poll.logs /\ batch'.finalized = Checkpoint
      /\ batch'.cursor = live /\ batch'.displaced = out
      /\ batch'.reorg = (poll.mode = "reorg")
  BY <1>1, <1>2 DEF BatchType
<1> QED BY <1>1, <1>2, <1>3, <1>4 DEF out, live

-----------------------------------------------------------------------------
(* The invariant of the marks *)

\* Every change of the chain is one of the moves.
LEMMA ChainMoves ==
  ASSUME PollInv, ChainNext
  PROVE  ChainMove
BY MineMove, ReorgMove, ReturnMove, FinalizeMove DEF ChainNext, PollInv

\* What is final stays so.
LEMMA FinalStays ==
  ASSUME PollInv, ChainMove, NEW b \in Block, Final(b)
  PROVE  Final(b)'
<1>1. /\ b[1] \in 1..Len(chain) /\ b[2] = chain[b[1]] /\ b[1] <= fin /\ b[1] \in Nat
      /\ fin \in Nat /\ fin' \in Nat /\ fin <= fin' /\ fin' <= Len(chain')
      /\ chain' \in Seq(Nat)
  BY DEF Final, On, ChainMove, Grows, ChainOK, PollInv, TypeOK, Block
<1>2. b[1] \in 1..fin /\ b[1] \in 1..Len(chain') /\ b[1] <= fin'
  BY <1>1
<1>3. chain'[b[1]] = chain[b[1]]
  BY <1>2 DEF ChainMove, Grows, Same
<1> QED BY <1>1, <1>2, <1>3 DEF Final, On

\* A change of the chain keeps the marks.
LEMMA PollChain ==
  ASSUME PollInv, ChainMove
  PROVE  PollInv'
<1>1. /\ TypeOK' /\ ChainOK' /\ UNCHANGED <<row, scanned, orphans, poll, batch>>
  BY DEF PollInv, TypeOK, ChainMove, Grows
<1>2. /\ poll.latest \in Block /\ poll.finalized \in Block /\ row.live \in Block
      /\ row.finalized \in Block /\ poll.latest[1] \in Nat /\ fin \in Nat /\ Depth \in Nat
  BY FieldTypes DEF PollInv
<1>3. fin' \in Nat /\ fin <= fin' /\ \A b \in Block : Known(b) => Known(b)'
  BY DEF ChainMove, Grows, Ancestry
<1>4. /\ Final(poll.finalized) => Final(poll.finalized)'
      /\ Final(row.finalized) => Final(row.finalized)'
      /\ Known(poll.latest) => Known(poll.latest)'
      /\ Known(row.live) => Known(row.live)'
  <2>1. \A b \in Block : Final(b) => Final(b)'
    BY FinalStays
  <2> QED BY <1>1, <1>2, <1>3, <2>1 DEF Final, Known
<1>5. poll.latest[1] <= fin + Depth => poll.latest[1] <= fin' + Depth
  BY <1>2, <1>3
<1>6. PollOK'
  BY <1>1, <1>4, <1>5 DEF PollInv, PollOK, Fetches, Aimed, Polled
<1>7. RowOK'
  BY <1>1, <1>4 DEF PollInv, RowOK, Polled
<1> QED BY <1>1, <1>6, <1>7 DEF PollInv

\* Steps that leave the rows and the chain alone.
LEMMA PollKept ==
  ASSUME PollInv, OnlyPoll
  PROVE  /\ RowOK' /\ ChainOK' /\ (poll' \in PollType => TypeOK')
         /\ \A b \in Block : (Final(b) => Final(b)') /\ (Known(b) => Known(b)')
         /\ Polled' = Polled
BY DEF PollInv, OnlyPoll, RowOK, ChainOK, TypeOK, Final, Known, On, Same, Polled

\* The block of a height of the chain.
LEMMA AtIs ==
  ASSUME PollInv, NEW h \in 1..Len(chain)
  PROVE  /\ At(h) \in Block /\ At(h)[1] = h /\ On(chain, At(h)) /\ Known(At(h))
         /\ h <= fin => Final(At(h))
<1>1. At(h) \in Block /\ At(h)[1] = h /\ At(h)[2] = chain[h]
  BY FieldTypes DEF PollInv
<1>2. chain[h] <= forks
  BY DEF PollInv, ChainOK
<1> QED BY <1>1, <1>2 DEF On, Known, Final

\* A poll that is idle again keeps the invariant.
LEMMA PollIdle ==
  ASSUME PollInv, OnlyPoll, poll' = Idle
  PROVE  PollInv'
<1>1. poll'.pc = "idle" /\ poll' \in PollType
  BY EmptyTypes
<1>2. PollOK'
  BY <1>1 DEF PollOK, Fetches
<1> QED BY <1>1, <1>2, PollKept DEF PollInv

\* The first read of a poll.
LEMMA PollReadLatest ==
  ASSUME PollInv, ReadLatest
  PROVE  PollInv'
<1>1. /\ OnlyPoll /\ poll' \in PollType /\ batch' = NoBatch
      /\ poll'.pc = "finalized" /\ poll'.latest = At(Len(chain))
      /\ poll'.logs = {} /\ poll'.blocks = {}
  BY ReadLatestIs DEF OnlyPoll
<1>2. /\ Len(chain) \in Nat /\ fin \in Nat /\ Depth \in Nat /\ Len(chain) <= fin + Depth
      /\ Depth + 1 <= fin /\ fin <= Len(chain)
  BY FieldTypes DEF PollInv, ChainOK
<1>3. poll'.latest \in Block /\ poll'.latest[1] = Len(chain) /\ Known(poll'.latest)
  BY <1>1, <1>2, AtIs
<1>4. row.finalized[1] <= Len(chain)
  BY <1>2, EmptyTypes DEF PollInv, RowOK, Final, On, Polled
<1>5. PollOK'
  <2>1. Depth < poll'.latest[1] /\ poll'.latest[1] <= fin' + Depth /\ row'.finalized[1] <= poll'.latest[1]
    BY <1>1, <1>2, <1>3, <1>4 DEF OnlyPoll
  <2>2. Known(poll.latest)'
    BY <1>1, <1>3 DEF Known, On, OnlyPoll
  <2> QED BY <1>1, <2>1, <2>2 DEF PollOK, Fetches
<1> QED BY <1>1, <1>5, PollKept DEF PollInv

\* A poll that keeps what it read and was to fetch.
LEMMA LatestKept ==
  ASSUME PollInv, OnlyPoll, poll.pc # "idle", poll'.latest = poll.latest
  PROVE  /\ Depth < poll'.latest[1] /\ poll'.latest[1] <= fin' + Depth /\ Known(poll.latest)'
         /\ row'.finalized[1] <= poll'.latest[1] /\ batch' = NoBatch
BY DEF PollInv, PollOK, OnlyPoll, Known, On

\* The beginning of a fetch that is aimed right.
LEMMA PollBegins ==
  ASSUME PollInv, OnlyPoll, poll.pc \in {"finalized", "check"},
         NEW mode, NEW final \in Block, NEW from \in Nat, NEW to \in Nat, NEW prior,
         Begins(mode, final, from, to, prior), Final(final), final[1] <= poll.latest[1], Aimed'
  PROVE  PollInv'
<1>1. /\ poll' \in PollType /\ poll'.latest = poll.latest /\ poll'.finalized = final
      /\ poll'.from = from /\ poll'.next = from /\ poll'.to = to
      /\ poll'.pc = IF from > to THEN "commit" ELSE "logs"
  BY DEF Begins
<1>2. Final(poll.finalized)'
  BY <1>1 DEF Final, On, OnlyPoll
<1>3. from <= from /\ (poll'.pc = "logs" => from <= to)
  BY <1>1
<1>4. PollOK'
  BY <1>1, <1>2, <1>3, LatestKept DEF PollOK, Fetches
<1> QED BY <1>1, <1>4, PollKept DEF PollInv

\* The finalized block is read.
LEMMA PollReadFinalized ==
  ASSUME PollInv, ReadFinalized
  PROVE  PollInv'
<1>1. OnlyPoll /\ poll.pc = "finalized"
  BY ReadFinalizedIs
<1>2. PICK f \in 1..fin :
              /\ f <= poll.latest[1] /\ f <= Len(chain)
              /\ \/ /\ Polled /\ poll' \in PollType /\ poll'.pc = "check"
                    /\ poll'.latest = poll.latest /\ poll'.finalized = At(f)
                    /\ poll'.logs = poll.logs /\ poll'.blocks = poll.blocks
                 \/ /\ ~Polled
                    /\ Begins("first", At(f), f, poll.latest[1], poll.prior)
  BY ReadFinalizedIs
<1>3. At(f) \in Block /\ Final(At(f)) /\ At(f)[1] = f /\ f \in Nat /\ poll.latest[1] \in Nat
  <2>1. f \in 1..Len(chain) /\ f <= fin /\ f \in Nat
    BY <1>2, FieldTypes DEF PollInv
  <2> QED BY <2>1, AtIs, FieldTypes DEF PollInv
<1>4. CASE /\ Polled /\ poll' \in PollType /\ poll'.pc = "check"
           /\ poll'.latest = poll.latest /\ poll'.finalized = At(f)
           /\ poll'.logs = poll.logs /\ poll'.blocks = poll.blocks
  <2>1. Final(poll.finalized)' /\ poll'.finalized[1] <= poll'.latest[1]
    BY <1>1, <1>2, <1>3, <1>4 DEF Final, On, OnlyPoll
  <2>2. poll'.logs = {} /\ poll'.blocks = {}
    BY <1>1, <1>4 DEF PollInv, PollOK
  <2>3. PollOK'
    BY <1>1, <1>4, <2>1, <2>2, LatestKept, PollKept DEF PollOK, Fetches
  <2> QED BY <1>1, <1>4, <2>3, PollKept DEF PollInv
<1>5. CASE ~Polled /\ Begins("first", At(f), f, poll.latest[1], poll.prior)
  <2>1. Aimed'
    BY <1>1, <1>3, <1>5, PollKept DEF Aimed, Begins
  <2> QED BY <1>1, <1>2, <1>3, <1>5, <2>1, PollBegins
<1> QED BY <1>2, <1>4, <1>5

\* A reorganisation is found.
LEMMA PollCheckReorg ==
  ASSUME PollInv, CheckReorg
  PROVE  PollInv'
<1>1. OnlyPoll /\ poll.pc = "check"
  BY CheckReorgIs
<1>2. PICK r \in Block :
        /\ r = row.finalized \/ r = poll.finalized
        /\ row.finalized[1] <= r[1] /\ poll.finalized[1] <= r[1]
        /\ Begins("reorg", r, r[1] + 1, poll.latest[1], {b \in scanned : b[1] > r[1]})
  BY CheckReorgIs
<1>3. Final(r) /\ r[1] <= poll.latest[1] /\ Polled
  BY <1>1, <1>2 DEF PollInv, PollOK, RowOK
<1>4. r[1] + 1 \in Nat /\ poll.latest[1] \in Nat
  <2>1. r[1] \in Nat
    BY DEF Block
  <2> QED BY <2>1, FieldTypes DEF PollInv
<1>5. Aimed'
  <2>1. row' = row
    BY <1>1 DEF OnlyPoll
  <2> QED BY <1>1, <1>2, <1>3, <2>1, PollKept DEF Aimed, Begins
<1> QED BY <1>1, <1>2, <1>3, <1>4, <1>5, PollBegins

\* No reorganisation is found.
LEMMA PollCheckAdvance ==
  ASSUME PollInv, CheckAdvance
  PROVE  PollInv'
<1>1. OnlyPoll /\ poll.pc = "check" /\ poll.latest[1] > row.live[1] /\ row' = row
  BY CheckAdvanceIs DEF OnlyPoll
<1>2. /\ Final(poll.finalized) /\ poll.finalized[1] <= poll.latest[1] /\ Polled
      /\ poll.finalized \in Block /\ poll.finalized[1] \in Nat /\ poll.latest[1] \in Nat
      /\ row.live[1] \in Nat /\ row.live[1] + 1 \in Nat
  <2>1. /\ poll.finalized \in Block /\ poll.finalized[1] \in Nat /\ poll.latest[1] \in Nat
        /\ row.live[1] \in Nat
    BY FieldTypes DEF PollInv
  <2>2. Final(poll.finalized) /\ poll.finalized[1] <= poll.latest[1] /\ Polled
    BY <1>1 DEF PollInv, PollOK
  <2> QED BY <2>1, <2>2
<1>3. CASE /\ poll.finalized[1] > row.live[1]
           /\ Begins("catchup", poll.finalized, row.live[1] + 1, poll.finalized[1], poll.prior)
  <2>1. row.live[1] + 1 <= poll.finalized[1]
    BY <1>2, <1>3
  <2>2. Aimed'
    BY <1>1, <1>2, <1>3, <2>1, PollKept DEF Aimed, Begins
  <2> QED BY <1>1, <1>2, <1>3, <2>2, PollBegins
<1>4. CASE Begins("steady", poll.finalized, row.live[1] + 1, poll.latest[1], poll.prior)
  <2>1. row.live[1] + 1 <= poll.latest[1]
    BY <1>1, <1>2
  <2>2. Aimed'
    BY <1>1, <1>2, <1>4, <2>1, PollKept DEF Aimed, Begins
  <2> QED BY <1>1, <1>2, <1>4, <2>2, PollBegins
<1> QED BY <1>3, <1>4, CheckAdvanceIs

\* A chunk or a hash is fetched.
LEMMA PollFetches ==
  ASSUME PollInv, OnlyPoll, KeepsAim, Fetches, Fetches',
         poll'.pc = "scan" => poll.mode # "catchup",
         poll'.pc \in {"logs", "scan"} => poll.from <= poll'.next /\ poll'.next <= poll.to
  PROVE  PollInv'
<1>1. Final(poll.finalized)' /\ poll'.finalized[1] <= poll'.latest[1] /\ Aimed'
  BY PollKept DEF KeepsAim, PollInv, PollOK, Final, On, OnlyPoll, Aimed
<1>2. PollOK'
  <2>1. /\ Depth < poll'.latest[1] /\ poll'.latest[1] <= fin' + Depth /\ Known(poll.latest)'
        /\ row'.finalized[1] <= poll'.latest[1] /\ batch' = NoBatch
    BY LatestKept DEF Fetches, KeepsAim
  <2> QED BY <1>1, <2>1 DEF PollOK, Fetches, KeepsAim
<1> QED BY <1>2, PollKept DEF PollInv, KeepsAim

\* One chunk of logs keeps the marks.
LEMMA PollFetchChunk ==
  ASSUME PollInv, FetchChunk
  PROVE  PollInv'
<1>1. OnlyPoll /\ KeepsAim /\ poll.pc = "logs"
  BY FetchChunkIs
<1>2. PICK n \in Nat :
        /\ poll.next <= n /\ n <= poll.to
        /\ \/ n < poll.to /\ poll'.pc = "logs" /\ poll'.next = n + 1
           \/ /\ n = poll.to /\ poll'.next = poll.from
              /\ poll'.pc = IF poll.mode = "catchup" THEN "commit" ELSE "scan"
  BY FetchChunkIs
<1>3. poll.from <= poll.next /\ poll.from \in Nat /\ poll.next \in Nat /\ poll.to \in Nat
  BY <1>1, FieldTypes DEF PollInv, PollOK
<1>4. poll'.pc \in {"logs", "scan"} => poll.from <= poll'.next /\ poll'.next <= poll.to
  BY <1>2, <1>3
<1> QED BY <1>1, <1>2, <1>4, PollFetches DEF Fetches

\* One block hash keeps the marks, or ends the poll.
LEMMA PollScanBlock ==
  ASSUME PollInv, ScanBlock
  PROVE  PollInv'
<1>1. OnlyPoll /\ poll.pc = "scan"
  BY ScanBlockIs
<1>2. CASE /\ KeepsAim /\ poll'.next = poll.next + 1
           /\ poll'.pc = IF poll.next < poll.to THEN "scan" ELSE "commit"
  <2>1. /\ poll.from <= poll.next /\ poll.from \in Nat /\ poll.next \in Nat /\ poll.to \in Nat
        /\ poll.mode # "catchup"
    BY <1>1, FieldTypes DEF PollInv, PollOK
  <2>2. poll'.pc \in {"logs", "scan"} => poll.from <= poll'.next /\ poll'.next <= poll.to
    BY <1>2, <2>1
  <2> QED BY <1>1, <1>2, <2>1, <2>2, PollFetches DEF Fetches
<1> QED BY <1>1, <1>2, ScanBlockIs, PollIdle

\* The checkpoint that is written is final and not above the new cursor.
LEMMA CheckpointIs ==
  ASSUME PollInv, poll.pc = "commit"
  PROVE  /\ Final(Checkpoint) /\ Checkpoint \in Block /\ Checkpoint[1] \in Nat
         /\ Checkpoint[1] >= 1
         /\ Checkpoint[1] <= (IF poll.mode = "catchup" THEN poll.finalized ELSE poll.latest)[1]
         /\ Polled => row.finalized[1] <= Checkpoint[1]
         /\ Checkpoint = poll.finalized \/ (Polled /\ Checkpoint = row.finalized)
         /\ poll.mode = "reorg" => Checkpoint[1] = poll.finalized[1]
         /\ poll.mode = "catchup" => row.live[1] < poll.finalized[1]
<1>1. /\ Final(poll.finalized) /\ poll.finalized[1] <= poll.latest[1] /\ Aimed
      /\ row.finalized[1] <= poll.latest[1]
      /\ Polled => Final(row.finalized) /\ row.finalized[1] <= row.live[1]
  BY DEF PollInv, PollOK, RowOK, Fetches
<1>2. /\ poll.finalized \in Block /\ row.finalized \in Block /\ poll.finalized[1] \in Nat
      /\ row.finalized[1] \in Nat /\ poll.latest[1] \in Nat /\ row.live[1] \in Nat
      /\ poll.from \in Nat /\ poll.to \in Nat
  BY FieldTypes DEF PollInv
<1>3. /\ Final(Checkpoint) /\ Checkpoint \in Block /\ Checkpoint[1] \in Nat
      /\ Polled => row.finalized[1] <= Checkpoint[1]
      /\ Checkpoint = poll.finalized \/ (Polled /\ Checkpoint = row.finalized)
  BY <1>1, <1>2 DEF Checkpoint
<1>4. Checkpoint[1] >= 1
  BY <1>2, <1>3 DEF Final, On
<1>5. poll.mode = "catchup" => Polled /\ row.live[1] + 1 <= poll.finalized[1]
  BY <1>1 DEF Aimed
<1>6. Checkpoint[1] <= (IF poll.mode = "catchup" THEN poll.finalized ELSE poll.latest)[1]
  <2>1. CASE poll.mode = "catchup"
    BY <1>1, <1>2, <1>3, <1>5, <2>1
  <2>2. CASE poll.mode # "catchup"
    BY <1>1, <1>2, <1>3, <2>2
  <2> QED BY <2>1, <2>2
<1>7. poll.mode = "reorg" => Checkpoint[1] = poll.finalized[1]
  BY <1>1, <1>2 DEF Aimed, Checkpoint
<1>8. poll.mode = "catchup" => row.live[1] < poll.finalized[1]
  BY <1>2, <1>5
<1> QED BY <1>3, <1>4, <1>6, <1>7, <1>8

\* A row that names a block is not the empty one.
LEMMA PolledIs ==
  ASSUME NEW r \in RowType, r.finalized[1] >= 1
  PROVE  r # NoRow
BY EmptyTypes

\* The final transaction.
LEMMA PollCommit ==
  ASSUME PollInv, Commit
  PROVE  PollInv' /\ Polled' /\ batch' # NoBatch
<1> DEFINE live == IF poll.mode = "catchup" THEN poll.finalized ELSE poll.latest
           out == IF poll.mode = "reorg" THEN Displaced ELSE {}
<1>1. /\ UNCHANGED <<chain, abandoned, forks, fin, met>> /\ poll.pc = "commit" /\ poll' = Idle
      /\ row' \in RowType /\ batch' \in BatchType /\ out \subseteq Block
      /\ row'.live = live /\ row'.finalized = Checkpoint
      /\ scanned' = Pruned((scanned \ out) \cup poll.blocks, Checkpoint[1])
      /\ orphans' = orphans \cup out /\ batch'.finalized = Checkpoint
      /\ batch'.cursor = row'.live
  BY CommitIs
<1>2. /\ Final(Checkpoint) /\ Checkpoint[1] >= 1 /\ Checkpoint[1] <= live[1] /\ Checkpoint \in Block
  BY <1>1, CheckpointIs
<1>3. Known(live)
  <2>1. Known(poll.latest) /\ Final(poll.finalized) /\ poll.finalized \in Block
    BY <1>1, FieldTypes DEF PollInv, PollOK, Fetches
  <2>2. Known(poll.finalized)
    <3>1. poll.finalized[2] <= forks
      BY <2>1 DEF Final, On, PollInv, ChainOK
    <3> QED BY <2>1, <3>1 DEF Known, Final
  <2> QED BY <2>1, <2>2
<1> HIDE DEF live, out
<1>4. /\ poll'.pc = "idle" /\ poll' \in PollType
  BY <1>1, EmptyTypes
<1>5. TypeOK'
  <2>1. scanned' \subseteq Block
    BY <1>1, FieldTypes DEF PollInv, TypeOK, Pruned
  <2> QED BY <1>1, <1>4, <2>1 DEF PollInv, TypeOK
<1>6. ChainOK'
  BY <1>1 DEF PollInv, ChainOK, Same
<1>7. Polled' /\ batch' # NoBatch
  BY <1>1, <1>2, EmptyTypes, PolledIs DEF Polled
<1>8. Final(row.finalized)' /\ Known(row.live)' /\ row'.finalized[1] <= row'.live[1]
  BY <1>1, <1>2, <1>3 DEF Final, Known, On
<1>9. PollOK' /\ RowOK'
  BY <1>1, <1>2, <1>4, <1>7, <1>8 DEF PollOK, RowOK, Fetches
<1> QED BY <1>5, <1>6, <1>7, <1>9 DEF PollInv

\* Nothing new: the marks are handed over again.
LEMMA NoProgressIs ==
  ASSUME PollInv, CheckNoProgress
  PROVE  /\ UNCHANGED <<chain, abandoned, forks, fin, row, scanned, orphans, met>>
         /\ poll' = Idle /\ poll.pc = "check" /\ batch' \in BatchType
         /\ On(chain, row.live) /\ poll.latest[1] <= row.live[1]
         /\ batch'.logs = {} /\ ~batch'.reorg /\ batch'.finalized = row.finalized
         /\ batch'.cursor = row.live /\ batch'.displaced = {}
<1>1. /\ UNCHANGED <<chain, abandoned, forks, fin, row, scanned, orphans, met>>
      /\ poll' = Idle /\ poll.pc = "check" /\ OnChain(row.live)
      /\ poll.latest[1] <= row.live[1]
      /\ batch' = [NoBatch EXCEPT !.cursor = row.live, !.finalized = row.finalized]
  BY DEF CheckNoProgress, chainVars, rowVars
<1>2. row.live \in Block /\ row.finalized \in Block
  BY FieldTypes DEF PollInv
<1>3. /\ batch' \in BatchType
      /\ batch'.logs = {} /\ ~batch'.reorg /\ batch'.finalized = row.finalized
      /\ batch'.cursor = row.live /\ batch'.displaced = {}
  BY <1>1, <1>2, EmptyTypes DEF NoBatch, BatchType
<1>4. On(chain, row.live)
  BY <1>1, <1>2, OnChainIs DEF PollInv
<1> QED BY <1>1, <1>3, <1>4

\* A poll that finds nothing new keeps the marks.
LEMMA PollNoProgress ==
  ASSUME PollInv, CheckNoProgress
  PROVE  PollInv'
<1>1. /\ UNCHANGED <<chain, abandoned, forks, fin, row, scanned, orphans, met>>
      /\ poll' = Idle /\ poll.pc = "check" /\ batch' \in BatchType
  BY NoProgressIs
<1>2. poll'.pc = "idle" /\ poll' \in PollType
  BY <1>1, EmptyTypes
<1>3. TypeOK' /\ ChainOK'
  BY <1>1, <1>2 DEF PollInv, TypeOK, ChainOK, Same
<1>4. /\ Polled /\ Polled' = Polled /\ batch'.finalized = row.finalized
      /\ batch'.cursor = row.live
  BY <1>1, NoProgressIs DEF PollInv, PollOK, Polled
<1>5. PollOK' /\ RowOK'
  BY <1>1, <1>2, <1>4 DEF PollInv, PollOK, RowOK, Fetches, Final, Known, On
<1> QED BY <1>3, <1>5 DEF PollInv

\* The first poll has not begun.
LEMMA PollInit == LogInit => PollInv
<1> SUFFICES ASSUME LogInit PROVE PollInv
  OBVIOUS
<1>1. /\ chain = [h \in 1..(Depth + 2) |-> 0] /\ abandoned = << >> /\ forks = 0
      /\ fin = Depth + 1 /\ row = NoRow /\ scanned = {} /\ orphans = {} /\ poll = Idle
      /\ batch = NoBatch /\ met = {}
  BY DEF LogInit
<1>2. Depth \in Nat
  BY LogAssumption
<1>3. /\ chain \in Seq(Nat) /\ Len(chain) = Depth + 2
      /\ \A h \in 1..Len(chain) : chain[h] = 0
  BY <1>1, <1>2
<1>4. abandoned \in Seq(Nat) /\ Len(abandoned) = 0
  BY <1>1, EmptySeq
<1>5. TypeOK
  BY <1>1, <1>2, <1>3, <1>4, EmptyTypes DEF TypeOK
<1>6. ChainOK
  <2>1. Depth + 1 <= fin /\ fin <= Len(chain) /\ Len(chain) <= fin + Depth
    BY <1>1, <1>2, <1>3, LogAssumption
  <2>2. \A h \in 1..Len(chain) : chain[h] <= forks /\ ~(h <= Len(abandoned))
    BY <1>1, <1>2, <1>3, <1>4
  <2> QED BY <1>1, <2>1, <2>2 DEF ChainOK
<1>7. ~Polled /\ poll.pc = "idle"
  BY <1>1, EmptyTypes DEF Polled
<1>8. PollOK /\ RowOK
  BY <1>1, <1>7 DEF PollOK, RowOK, Fetches
<1> QED BY <1>5, <1>6, <1>8 DEF PollInv

\* The caller takes the batch, or it is lost.
LEMMA PollTaken ==
  ASSUME PollInv, batch' = NoBatch,
         UNCHANGED <<chain, abandoned, forks, fin, row, scanned, orphans, poll>>
  PROVE  PollInv'
<1>1. TypeOK' /\ ChainOK'
  BY EmptyTypes DEF PollInv, TypeOK, ChainOK, Same
<1>2. PollOK' /\ RowOK'
  BY DEF PollInv, PollOK, RowOK, Fetches, Aimed, Final, Known, On, Polled
<1> QED BY <1>1, <1>2 DEF PollInv

\* A step that changes nothing here.
LEMMA PollStutter ==
  ASSUME PollInv, UNCHANGED logVars
  PROVE  PollInv'
<1>1. OnlyPoll /\ poll' = poll
  BY DEF logVars, chainVars, rowVars, OnlyPoll
<1>2. PollOK'
  BY <1>1, PollKept DEF PollInv, PollOK, OnlyPoll, Fetches, Aimed, Final, Known, On
<1> QED BY <1>1, <1>2, PollKept DEF PollInv, TypeOK

\* A poll that ends with nothing: the chain is shorter now, or a call failed.
LEMMA IdleIs ==
  ASSUME CheckMissing \/ PollFails
  PROVE  OnlyPoll /\ poll' = Idle
BY DEF CheckMissing, PollFails, OnlyPoll, chainVars, rowVars

\* Every step of the source keeps the marks.
LEMMA PollNext ==
  ASSUME PollInv, ChainNext \/ PollStep \/ PollFails
  PROVE  PollInv'
<1>1. CASE ChainNext
  BY <1>1, ChainMoves, PollChain
<1>2. CASE PollStep
  BY <1>2, PollReadLatest, PollReadFinalized, PollCheckReorg, PollNoProgress, PollCheckAdvance,
     PollFetchChunk, PollScanBlock, PollCommit, PollIdle, IdleIs DEF PollStep
<1>3. CASE PollFails
  BY <1>3, PollIdle, IdleIs
<1> QED BY <1>1, <1>2, <1>3

(* Runs of blocks *)

\* The blocks of a chain between two heights, and those of a set up to one.
Run(C, lo, hi) == {<<h, C[h]>> : h \in lo..hi}
Below(S, m)    == {b \in S : b[1] <= m}

\* Chains that agree have the same run.
LEMMA RunSame ==
  ASSUME NEW C, NEW D, NEW m \in Int, NEW lo \in Int, NEW hi \in Int,
         1 <= lo, hi <= m, Same(C, D, m)
  PROVE  Run(C, lo, hi) = Run(D, lo, hi)
<1>1. \A h \in lo..hi : C[h] = D[h]
  BY DEF Same
<1> QED BY <1>1 DEF Run

\* A run that is cut.
LEMMA RunBelow ==
  ASSUME NEW C, NEW m \in Int, NEW lo \in Int, NEW hi \in Int
  PROVE  Below(Run(C, lo, hi), m) = Run(C, lo, Smaller(hi, m))
<1>1. \A h \in Int : h \in lo..hi /\ h <= m <=> h \in lo..Smaller(hi, m)
  BY DEF Smaller
<1>2. \A h : <<h, C[h]>>[1] = h
  OBVIOUS
<1>3. ASSUME NEW b \in Below(Run(C, lo, hi), m) PROVE b \in Run(C, lo, Smaller(hi, m))
  <2>1. PICK h \in lo..hi : b = <<h, C[h]>>
    BY <1>3 DEF Below, Run
  <2>2. h <= m
    BY <1>2, <1>3, <2>1 DEF Below
  <2> QED BY <1>1, <2>1, <2>2 DEF Run
<1>4. ASSUME NEW b \in Run(C, lo, Smaller(hi, m)) PROVE b \in Below(Run(C, lo, hi), m)
  <2>1. PICK h \in lo..Smaller(hi, m) : b = <<h, C[h]>>
    BY <1>4 DEF Run
  <2>2. h \in Int
    BY <2>1
  <2> QED BY <1>1, <1>2, <2>1, <2>2 DEF Run, Below
<1> QED BY <1>3, <1>4

\* A run is the sum of its parts, which meet or overlap.
LEMMA RunJoin ==
  ASSUME NEW C, NEW lo \in Int, NEW last \in Int, NEW mid \in Int, NEW hi \in Int,
         lo <= mid, mid <= last + 1, last <= hi
  PROVE  Run(C, lo, last) \cup Run(C, mid, hi) = Run(C, lo, hi)
<1>1. \A h : h \in lo..hi <=> h \in lo..last \/ h \in mid..hi
  OBVIOUS
<1> QED BY <1>1 DEF Run

\* There is nothing in an empty one.
LEMMA RunEmpty ==
  ASSUME NEW C, NEW lo \in Int, NEW hi \in Int, hi < lo
  PROVE  Run(C, lo, hi) = {}
<1>1. lo..hi = {}
  OBVIOUS
<1> QED BY <1>1 DEF Run

\* Cutting a sum, and cutting twice.
LEMMA BelowIs ==
  /\ \A S, T, m : Below(S \cup T, m) = Below(S, m) \cup Below(T, m)
  /\ \A S : \A m, n \in Int : S \subseteq Block /\ n <= m => Below(Below(S, m), n) = Below(S, n)
  /\ \A S : \A m, n \in Int : S \subseteq Block /\ n <= m => Below(Below(S, n), m) = Below(S, n)
<1>1. ASSUME NEW S, NEW m \in Int, NEW n \in Int, S \subseteq Block, n <= m
      PROVE  Below(Below(S, m), n) = Below(S, n) /\ Below(Below(S, n), m) = Below(S, n)
  <2>1. \A b \in S : b[1] \in Nat
    BY <1>1 DEF Block
  <2>2. \A b \in S : b[1] <= n => b[1] <= m
    BY <1>1, <2>1
  <2> QED BY <2>2 DEF Below
<1>2. \A S, T, m : Below(S \cup T, m) = Below(S, m) \cup Below(T, m)
  BY DEF Below
<1> QED BY <1>1, <1>2

\* Two sets that are a run, one above the other, and that are one below f at
\* least, make such a set.
LEMMA RunsJoin ==
  ASSUME NEW C, NEW S, NEW T, NEW lo \in Int, NEW mid \in Int, NEW hi \in Int, NEW f \in Int,
         lo <= mid, mid <= hi + 1,
         Below(S, f) = Run(C, lo, Smaller(mid - 1, f)),
         Below(T, f) = Run(C, mid, Smaller(hi, f))
  PROVE  Below(S \cup T, f) = Run(C, lo, Smaller(hi, f))
<1>1. Below(S \cup T, f) = Below(S, f) \cup Below(T, f)
  BY BelowIs
<1>2. CASE f >= mid - 1
  <2>1. Smaller(mid - 1, f) = mid - 1 /\ Smaller(hi, f) \in Int /\ mid <= Smaller(hi, f) + 1
    BY <1>2 DEF Smaller
  <2>2. PICK top \in Int, last \in Int :
          top = Smaller(hi, f) /\ last = mid - 1 /\ mid <= last + 1 /\ last <= top
    BY <2>1
  <2>3. Run(C, lo, last) \cup Run(C, mid, top) = Run(C, lo, top)
    BY <2>2, RunJoin
  <2> QED BY <1>1, <2>1, <2>2, <2>3
<1>3. CASE f < mid - 1
  <2>1. Smaller(mid - 1, f) = f /\ Smaller(hi, f) = f
    BY <1>3 DEF Smaller
  <2>2. Run(C, mid, f) = {}
    BY <1>3, RunEmpty
  <2> QED BY <1>1, <2>1, <2>2
<1> QED BY <1>2, <1>3
-----------------------------------------------------------------------------
(* How far a poll has read *)

\* The height up to which the running poll has its logs.
Upto == IF poll.pc = "logs" THEN poll.next - 1 ELSE poll.to

\* The range of a fetch.
LEMMA RangeIs ==
  ASSUME PollInv, Fetches
  PROVE  /\ Upto \in Int /\ poll.from \in Nat /\ poll.to \in Nat /\ 1 <= poll.from
         /\ poll.from <= Upto + 1 /\ Upto <= poll.to /\ poll.to <= poll.latest[1]
         /\ poll.mode = "catchup" => poll.to <= fin
         /\ poll.mode # "catchup" => poll.to = poll.latest[1]
         /\ poll.mode = "steady" => row.live[1] < poll.latest[1]
<1>1. /\ Final(poll.finalized) /\ poll.finalized[1] <= poll.latest[1] /\ Aimed
  BY DEF PollInv, PollOK
<1>2. /\ poll.finalized[1] \in Nat /\ poll.latest[1] \in Nat /\ row.live[1] \in Nat
      /\ poll.from \in Nat /\ poll.to \in Nat /\ poll.next \in Nat /\ fin \in Nat
  BY FieldTypes DEF PollInv
<1>3. 1 <= poll.finalized[1] /\ poll.finalized[1] <= fin
  BY <1>1, <1>2 DEF Final, On
<1>4. /\ 1 <= poll.from /\ poll.from <= poll.to + 1 /\ poll.to <= poll.latest[1]
      /\ poll.mode = "catchup" => poll.to <= fin
      /\ poll.mode # "catchup" => poll.to = poll.latest[1]
      /\ poll.mode = "steady" => row.live[1] < poll.latest[1]
  BY <1>1, <1>2, <1>3 DEF Aimed
<1>5. Upto \in Int /\ poll.from <= Upto + 1 /\ Upto <= poll.to
  <2>1. CASE poll.pc = "logs"
    <3>1. poll.from <= poll.next /\ poll.next <= poll.to
      BY <2>1 DEF PollInv, PollOK
    <3> QED BY <1>2, <2>1, <3>1 DEF Upto
  <2>2. CASE poll.pc # "logs"
    BY <1>2, <1>4, <2>2 DEF Upto
  <2> QED BY <2>1, <2>2
<1> QED BY <1>2, <1>4, <1>5

\* The height up to which the running poll has its hashes.
Scanned == IF poll.pc = "scan" THEN poll.next - 1
           ELSE IF poll.pc = "commit" /\ poll.mode # "catchup" THEN poll.to
           ELSE poll.from - 1

\* The hashes are within the range of the fetch.
LEMMA ScannedIs ==
  ASSUME PollInv, Fetches
  PROVE  Scanned \in Int /\ Scanned <= poll.to /\ poll.from \in Nat /\ 1 <= poll.from
<1>1. /\ poll.from \in Nat /\ poll.to \in Nat /\ poll.next \in Nat /\ 1 <= poll.from
      /\ poll.from <= poll.to + 1
      /\ poll.pc = "scan" => poll.next <= poll.to
  <2>1. poll.next \in Nat /\ (poll.pc = "scan" => poll.next <= poll.to)
    BY FieldTypes DEF PollInv, PollOK
  <2>2. /\ poll.from \in Nat /\ poll.to \in Nat /\ 1 <= poll.from /\ Upto \in Int
        /\ poll.from <= Upto + 1 /\ Upto <= poll.to
    BY RangeIs
  <2> QED BY <2>1, <2>2
<1> QED BY <1>1 DEF Scanned

=============================================================================
