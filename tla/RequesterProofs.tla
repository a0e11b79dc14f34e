--------------------------- MODULE RequesterProofs ---------------------------
(***************************************************************************)
(* Posting for any number of keys, Submissions, terms, attempts and        *)
(* concurrent or repeated calls of submit(), with calls dying anywhere:    *)
(* once for each Submission, and once more for each answer that was lost.  *)
(***************************************************************************)
EXTENDS RequesterProperties, SequenceTheorems, TLAPS

\* A call of submit() that has bound its Submission to the scope of its key.
Bound == {"join", "again", "reclaim", "intent", "upload", "fence", "await", "resolve", "finish",
          "accepted"}

\* A call that owns its intent, whose broadcast is before it, and any.
Owning == {"upload", "fence", "await", "resolve"}

\* The scope of a key is bound to one Submission for good, and only its own
\* calls go on.
ScopeBinds ==
  \A c \in Calls :
    /\ pc[c] \in Bound => scopes[Key(c)] # NoScope /\ scopes[Key(c)].sub = Sub(c)
    /\ pc[c] = "again" => scopes[Key(c)].done

\* An intent belongs to the Submission its key is bound to.
IntentBinds ==
  \A x \in Subs : intents[x] # NoIntent =>
    scopes[x[1]] # NoScope /\ scopes[x[1]].sub = x

\* Only the owner of the intent is between its claim and its resolution, has
\* a transaction under way or sent one again; before its fence it sent none.
OwnerAlone ==
  \A c \in Calls :
    /\ pc[c] \in Owning \/ c \in sent \/ resent[c] # 0 =>
         intents[Sub(c)] # NoIntent /\ intents[Sub(c)].owner = c
    /\ pc[c] \in {"upload", "fence"} =>
         c \notin sent /\ resent[c] = 0 /\ created[Sub(c)] = << >>

\* What is created was intended, and its owner knows of all but the last.
CreatedOnce ==
  /\ \A x \in Subs : /\ created[x] # << >> => intents[x] # NoIntent
                     /\ intents[x] # NoIntent => Sub(intents[x].owner) = x
  /\ \A c \in Calls : intents[Sub(c)] # NoIntent /\ intents[Sub(c)].owner = c =>
       /\ \A i \in 1..Len(created[Sub(c)]) : created[Sub(c)][i] = Cmd(c)
       /\ Len(created[Sub(c)]) <= resent[c] + 1
  /\ \A c \in Calls : /\ c \in sent => Len(created[Sub(c)]) = resent[c]
                      /\ pc[c] = "await" /\ c \notin sent =>
                           Len(created[Sub(c)]) = resent[c] + 1
                      /\ pc[c] \in {"resolve", "finish"} => created[Sub(c)] # << >>

\* What is recorded as done, or answered as accepted, was created.
DoneIsCreated ==
  /\ \A x \in Subs : intents[x].done => created[x] # << >>
  /\ \A k \in Keys : scopes[k].done => created[scopes[k].sub] # << >>
  /\ \A c \in Calls : pc[c] = "accepted" => created[Sub(c)] # << >>

USE DEF chain

PostingInv == TypeOK /\ ScopeBinds /\ IntentBinds /\ OwnerAlone /\ CreatedOnce /\ DoneIsCreated

\* A Submission is never the empty tuple that stands for none.
LEMMA PairsAreNotEmpty == \A x \in Subs : x # <<>>
<1> SUFFICES ASSUME NEW x \in Subs, x = <<>> PROVE FALSE
  OBVIOUS
<1>1. PICK k \in Keys, v \in Versions : x = <<k, v>>
  BY DEF Subs
<1>2. Len(<<k, v>>) = 2 /\ Len(<<>>) = 0
  OBVIOUS
<1> QED
  BY <1>1, <1>2

\* Nor is a call of submit().
LEMMA CallsAreNotEmpty == \A c \in Calls : c # NoCall
<1> SUFFICES ASSUME NEW c \in Calls, c = <<>> PROVE FALSE
  BY DEF NoCall
<1>1. PICK x \in Subs, t \in Terms, i \in 1..Tries : c = <<x, t, i>>
  BY DEF Calls
<1>2. Len(<<x, t, i>>) = 3 /\ Len(<<>>) = 0
  OBVIOUS
<1> QED
  BY <1>1, <1>2

\* The parts of a call, and the key a Submission is sealed under.
LEMMA CallType ==
  /\ \A c \in Calls : Sub(c) \in Subs /\ Cmd(c) \in Terms /\ Key(c) \in Keys /\ Sub(c)[1] = Key(c)
  /\ \A x \in Subs : x[1] \in Keys
  BY DEF Calls, Subs, Sub, Cmd, Key

\* The invariant holds before the first call.
LEMMA PostingInitInv == Init => PostingInv
<1> SUFFICES ASSUME Init PROVE PostingInv
  OBVIOUS
<1>1. TypeOK
  BY EmptySeq DEF Init, TypeOK
<1> QED
  BY <1>1, CallType
  DEF Init, PostingInv, ScopeBinds, IntentBinds, OwnerAlone, CreatedOnce, DoneIsCreated,
      Bound, Owning, NoScope, NoIntent

-----------------------------------------------------------------------------
(* The steps fall into three kinds: those that change a scope, those that   *)
(* change an intent, and those that touch neither record.                   *)

\* claimSubmissionScope.
LEMMA ClaimScopeInv ==
  ASSUME PostingInv, NEW c \in Calls, ClaimScope(c)
  PROVE  PostingInv'
<1> USE CallType DEF PostingInv
<1>1. CASE scopes[Key(c)] = NoScope
  <2>1. /\ scopes' = [scopes EXCEPT ![Key(c)] =
               [sub |-> Sub(c), terms |-> Cmd(c), owner |-> c, done |-> FALSE]]
        /\ pc[c] = "idle" /\ pc' = [pc EXCEPT ![c] = "intent"]
        /\ UNCHANGED <<intents, chain>>
    BY <1>1 DEF ClaimScope, OwnScope, At, Goto
  <2>2. TypeOK'
    BY <2>1 DEF TypeOK, Active
  <2>3. ScopeBinds'
    <3>1. scopes'[Key(c)] # NoScope /\ scopes'[Key(c)].sub = Sub(c)
      BY <2>1, PairsAreNotEmpty DEF TypeOK, NoScope
    <3>2. \A d \in Calls : d # c /\ pc'[d] \in Bound => Key(d) # Key(c)
      BY <1>1, <2>1 DEF TypeOK, ScopeBinds
    <3> QED
      BY <2>1, <3>1, <3>2 DEF TypeOK, ScopeBinds, Bound
  <2>4. IntentBinds'
    BY <1>1, <2>1 DEF TypeOK, IntentBinds
  <2>5. OwnerAlone' /\ CreatedOnce'
    BY <2>1 DEF TypeOK, OwnerAlone, CreatedOnce, Owning
  <2>6. DoneIsCreated'
    BY <2>1 DEF TypeOK, DoneIsCreated
  <2> QED
    BY <2>2, <2>3, <2>4, <2>5, <2>6
<1>2. CASE scopes[Key(c)] # NoScope
  <2>1. /\ UNCHANGED <<scopes, intents, chain>>
        /\ pc[c] = "idle"
        /\ \/ pc' = [pc EXCEPT ![c] = "conflict"]
           \/ pc' = [pc EXCEPT ![c] = "accepted"] /\ scopes[Key(c)].done /\ scopes[Key(c)].sub = Sub(c)
           \/ pc' = [pc EXCEPT ![c] = "join"] /\ scopes[Key(c)].sub = Sub(c)
    BY <1>2 DEF ClaimScope, At, Goto
  <2>2. TypeOK'
    BY <2>1 DEF TypeOK, Active, Answers
  <2>3. ScopeBinds'
    BY <1>2, <2>1 DEF TypeOK, ScopeBinds, Bound
  <2>4. IntentBinds' /\ OwnerAlone' /\ CreatedOnce'
    BY <2>1 DEF TypeOK, IntentBinds, OwnerAlone, CreatedOnce, Owning
  <2>5. DoneIsCreated'
    BY <2>1 DEF TypeOK, DoneIsCreated
  <2> QED
    BY <2>2, <2>3, <2>4, <2>5
<1> QED
  BY <1>1, <1>2

\* A scope whose Submission was created may be marked done.
LEMMA DoneKeeps ==
  ASSUME PostingInv, NEW k \in Keys, scopes[k] # NoScope, created[scopes[k].sub] # << >>,
         scopes' = [scopes EXCEPT ![k].done = TRUE], UNCHANGED <<intents, chain>>
  PROVE  /\ scopes' \in [Keys -> {NoScope} \cup
              [sub : Subs, terms : Terms, owner : Calls, done : BOOLEAN]]
         /\ \A l \in Keys : /\ scopes[l] # NoScope => scopes'[l] # NoScope
                            /\ scopes'[l].sub = scopes[l].sub
                            /\ scopes[l].done => scopes'[l].done
         /\ scopes'[k].done
         /\ \A l \in Keys : scopes'[l].done => created'[scopes'[l].sub] # << >>
<1> USE DEF PostingInv
<1>1. scopes[k] \in [sub : Subs, terms : Terms, owner : Calls, done : BOOLEAN]
  BY DEF TypeOK
<1>2. \A l \in Keys : scopes'[l] = IF l = k THEN [scopes[k] EXCEPT !.done = TRUE] ELSE scopes[l]
  BY DEF TypeOK
<1>3. scopes'[k].done /\ scopes'[k].sub = scopes[k].sub
  BY <1>1, <1>2
<1>4. ~NoScope.done
  BY DEF NoScope
<1>5. \A l \in Keys : scopes[l] # NoScope => scopes'[l] # NoScope
  BY <1>2, <1>3, <1>4
<1>6. scopes' \in [Keys -> {NoScope} \cup
         [sub : Subs, terms : Terms, owner : Calls, done : BOOLEAN]]
  BY <1>1 DEF TypeOK
<1> QED
  BY <1>2, <1>3, <1>5, <1>6 DEF DoneIsCreated

\* A pending scope whose intent is resolved names what was created.
LEMMA JoinedIsCreated ==
  ASSUME PostingInv, NEW k \in Keys, Joined(k)
  PROVE  scopes[k] # NoScope /\ created[scopes[k].sub] # << >>
<1>1. /\ scopes[k] \in [sub : Subs, terms : Terms, owner : Calls, done : BOOLEAN]
      /\ scopes[k] # NoScope /\ intents[scopes[k].sub].done
  BY DEF PostingInv, Joined, TypeOK
<1> QED
  BY <1>1 DEF PostingInv, DoneIsCreated

\* resolveRecoveredSubmissionScope.
LEMMA JoinInv ==
  ASSUME PostingInv, NEW c \in Calls, Join(c)
  PROVE  PostingInv'
<1> USE CallType DEF PostingInv
<1> DEFINE next == Resolution(c)
<1>1. /\ UNCHANGED <<intents, chain>> /\ pc[c] = "join" /\ pc' = [pc EXCEPT ![c] = next]
      /\ next \in {"conflict", "again", "reclaim", "unavailable"}
      /\ next = "again" => /\ scopes[Key(c)].terms = Cmd(c)
                           /\ scopes[Key(c)].done \/ Joined(Key(c))
  BY DEF Join, At, Goto, Resolution
<1>2. /\ scopes' \in [Keys -> {NoScope} \cup
           [sub : Subs, terms : Terms, owner : Calls, done : BOOLEAN]]
      /\ \A l \in Keys : /\ scopes[l] # NoScope => scopes'[l] # NoScope
                         /\ scopes'[l].sub = scopes[l].sub
                         /\ scopes[l].done => scopes'[l].done
      /\ \A l \in Keys : scopes'[l].done => created'[scopes'[l].sub] # << >>
      /\ next = "again" => scopes'[Key(c)].done
  <2>1. CASE scopes[Key(c)].terms = Cmd(c) /\ Joined(Key(c))
    BY <1>1, <2>1, JoinedIsCreated, DoneKeeps DEF Join
  <2>2. CASE ~(scopes[Key(c)].terms = Cmd(c) /\ Joined(Key(c)))
    BY <1>1, <2>2 DEF Join, TypeOK, DoneIsCreated
  <2> QED
    BY <2>1, <2>2
<1> HIDE DEF next
<1>3. TypeOK'
  BY <1>1, <1>2 DEF TypeOK, Active, Answers
<1>4. ScopeBinds' /\ IntentBinds'
  BY <1>1, <1>2 DEF TypeOK, ScopeBinds, IntentBinds, Bound
<1>5. OwnerAlone' /\ CreatedOnce'
  BY <1>1 DEF TypeOK, OwnerAlone, CreatedOnce, Owning
<1>6. DoneIsCreated'
  BY <1>1, <1>2 DEF TypeOK, DoneIsCreated
<1> QED
  BY <1>3, <1>4, <1>5, <1>6

\* recoverPosting.
LEMMA RecoverInv ==
  ASSUME PostingInv, NEW k \in Keys, Recover(k)
  PROVE  PostingInv'
<1> USE CallType DEF PostingInv
<1>1. /\ scopes' \in [Keys -> {NoScope} \cup
           [sub : Subs, terms : Terms, owner : Calls, done : BOOLEAN]]
      /\ \A l \in Keys : /\ scopes[l] # NoScope => scopes'[l] # NoScope
                         /\ scopes'[l].sub = scopes[l].sub
                         /\ scopes[l].done => scopes'[l].done
      /\ \A l \in Keys : scopes'[l].done => created'[scopes'[l].sub] # << >>
  BY JoinedIsCreated, DoneKeeps DEF Recover
<1>2. UNCHANGED <<intents, chain, pc>>
  BY DEF Recover
<1>3. TypeOK' /\ ScopeBinds' /\ IntentBinds'
  BY <1>1, <1>2 DEF TypeOK, ScopeBinds, IntentBinds
<1>4. OwnerAlone' /\ CreatedOnce' /\ DoneIsCreated'
  BY <1>1, <1>2 DEF OwnerAlone, CreatedOnce, DoneIsCreated
<1> QED
  BY <1>3, <1>4

\* reclaimSubmissionScope: the scope stays bound to the same Submission.
LEMMA ReclaimInv ==
  ASSUME PostingInv, NEW c \in Calls, Reclaim(c)
  PROVE  PostingInv'
<1> USE CallType DEF PostingInv
<1>1. /\ UNCHANGED <<intents, chain>> /\ pc[c] = "reclaim"
      /\ scopes[Key(c)] # NoScope /\ scopes[Key(c)].sub = Sub(c)
  BY DEF Reclaim, At, ScopeBinds, Bound
<1>2. CASE scopes[Key(c)].done
  <2>1. scopes' = scopes /\ pc' = [pc EXCEPT ![c] = "accepted"]
    BY <1>2 DEF Reclaim, Goto
  <2>2. TypeOK' /\ ScopeBinds' /\ IntentBinds'
    BY <1>1, <2>1 DEF TypeOK, ScopeBinds, IntentBinds, Bound, Answers
  <2>3. OwnerAlone' /\ CreatedOnce' /\ DoneIsCreated'
    BY <1>1, <1>2, <2>1 DEF TypeOK, OwnerAlone, CreatedOnce, DoneIsCreated, Owning
  <2> QED
    BY <2>2, <2>3
<1>3. CASE ~scopes[Key(c)].done
  <2>1. /\ scopes' = [scopes EXCEPT ![Key(c)] =
               [sub |-> Sub(c), terms |-> Cmd(c), owner |-> c, done |-> FALSE]]
        /\ pc' = [pc EXCEPT ![c] = "intent"]
    BY <1>3 DEF Reclaim, Goto, OwnScope
  <2>2. TypeOK'
    BY <1>1, <2>1 DEF TypeOK, Active
  <2>3. \A k \in Keys : /\ scopes[k] # NoScope => scopes'[k] # NoScope
                        /\ scopes'[k].sub = scopes[k].sub
    BY <1>1, <2>1, PairsAreNotEmpty DEF TypeOK, NoScope
  <2>4. \A d \in Calls : pc'[d] = "again" => scopes'[Key(d)].done
    BY <1>1, <1>3, <2>1 DEF TypeOK, ScopeBinds
  <2>5. ScopeBinds' /\ IntentBinds'
    BY <1>1, <2>1, <2>3, <2>4 DEF TypeOK, ScopeBinds, IntentBinds, Bound
  <2>6. OwnerAlone' /\ CreatedOnce'
    BY <1>1, <2>1 DEF TypeOK, OwnerAlone, CreatedOnce, Owning
  <2>7. DoneIsCreated'
    BY <1>1, <2>1 DEF TypeOK, DoneIsCreated
  <2> QED
    BY <2>2, <2>5, <2>6, <2>7
<1> QED
  BY <1>2, <1>3

\* resolveSubmissionScope.
LEMMA ResolveScopeInv ==
  ASSUME PostingInv, NEW c \in Calls, ResolveScope(c)
  PROVE  PostingInv'
<1> USE CallType DEF PostingInv
<1>1. /\ UNCHANGED <<intents, chain>> /\ pc[c] = "finish"
      /\ scopes[Key(c)] # NoScope /\ scopes[Key(c)].sub = Sub(c)
      /\ created[Sub(c)] # << >>
  BY DEF ResolveScope, At, ScopeBinds, CreatedOnce, Bound
<1>2. CASE scopes' = scopes /\ pc' = [pc EXCEPT ![c] = "error"]
  <2>1. TypeOK' /\ ScopeBinds' /\ IntentBinds'
    BY <1>1, <1>2 DEF TypeOK, ScopeBinds, IntentBinds, Bound, Answers
  <2>2. OwnerAlone' /\ CreatedOnce' /\ DoneIsCreated'
    BY <1>1, <1>2 DEF TypeOK, OwnerAlone, CreatedOnce, DoneIsCreated, Owning
  <2> QED
    BY <2>1, <2>2
<1>3. CASE /\ scopes' = [scopes EXCEPT ![Key(c)].done = TRUE]
           /\ pc' = [pc EXCEPT ![c] = "accepted"]
  <2>1. /\ scopes' \in [Keys -> {NoScope} \cup
             [sub : Subs, terms : Terms, owner : Calls, done : BOOLEAN]]
        /\ \A l \in Keys : /\ scopes[l] # NoScope => scopes'[l] # NoScope
                           /\ scopes'[l].sub = scopes[l].sub
                           /\ scopes[l].done => scopes'[l].done
        /\ \A l \in Keys : scopes'[l].done => created'[scopes'[l].sub] # << >>
    BY <1>1, <1>3, DoneKeeps
  <2>2. TypeOK'
    BY <1>1, <1>3, <2>1 DEF TypeOK, Answers
  <2>3. ScopeBinds' /\ IntentBinds'
    BY <1>1, <1>3, <2>1 DEF TypeOK, ScopeBinds, IntentBinds, Bound
  <2>4. OwnerAlone' /\ CreatedOnce'
    BY <1>1, <1>3 DEF TypeOK, OwnerAlone, CreatedOnce, Owning
  <2>5. DoneIsCreated'
    BY <1>1, <1>3, <2>1 DEF TypeOK, DoneIsCreated
  <2> QED
    BY <2>2, <2>3, <2>4, <2>5
<1> QED
  BY <1>2, <1>3 DEF ResolveScope, Goto

-----------------------------------------------------------------------------
(* The intent and the broadcast.                                            *)

\* claimPostingIntent: the first claim of a Submission owns it for good.
LEMMA ClaimIntentInv ==
  ASSUME PostingInv, NEW c \in Calls, ClaimIntent(c)
  PROVE  PostingInv'
<1> USE CallType DEF PostingInv
<1>1. /\ UNCHANGED <<scopes, chain>> /\ pc[c] = "intent"
      /\ scopes[Key(c)] # NoScope /\ scopes[Key(c)].sub = Sub(c)
  BY DEF ClaimIntent, At, ScopeBinds, Bound
<1>2. CASE intents[Sub(c)] = NoIntent
  <2>1. /\ intents' = [intents EXCEPT ![Sub(c)] =
               [terms |-> Cmd(c), owner |-> c, done |-> FALSE]]
        /\ pc' = [pc EXCEPT ![c] = "upload"]
    BY <1>2 DEF ClaimIntent, Goto, OwnIntent
  <2>2. TypeOK'
    BY <1>1, <2>1 DEF TypeOK, Active
  <2>3. ScopeBinds' /\ IntentBinds'
    BY <1>1, <2>1 DEF TypeOK, ScopeBinds, IntentBinds, Bound
  <2>4. created[Sub(c)] = << >> /\ \A d \in Calls : Sub(d) = Sub(c) =>
          d \notin sent /\ pc[d] \notin Owning /\ resent[d] = 0
    BY <1>2 DEF CreatedOnce, OwnerAlone
  <2>5. intents'[Sub(c)] # NoIntent /\ intents'[Sub(c)].owner = c /\ ~intents'[Sub(c)].done
    BY <2>1, CallsAreNotEmpty DEF TypeOK, NoIntent
  <2>6. OwnerAlone'
    BY <1>1, <2>1, <2>4, <2>5 DEF TypeOK, OwnerAlone, Owning
  <2>7. CreatedOnce'
    <3>1. Len(created[Sub(c)]) = 0
      BY <2>4
    <3>2. \A x \in Subs : x # Sub(c) => intents'[x] = intents[x]
      BY <2>1 DEF TypeOK
    <3>3. \A x \in Subs : /\ created'[x] # << >> => intents'[x] # NoIntent
                          /\ intents'[x] # NoIntent => Sub(intents'[x].owner) = x
      BY <1>1, <2>5, <3>2 DEF CreatedOnce
    <3>4. ASSUME NEW d \in Calls, intents'[Sub(d)] # NoIntent, intents'[Sub(d)].owner = d
          PROVE  /\ \A i \in 1..Len(created[Sub(d)]) : created[Sub(d)][i] = Cmd(d)
                 /\ Len(created[Sub(d)]) <= resent[d] + 1
      <4>1. CASE Sub(d) = Sub(c)
        BY <2>4, <2>5, <3>1, <3>4, <4>1 DEF TypeOK
      <4>2. CASE Sub(d) # Sub(c)
        BY <3>2, <3>4, <4>2 DEF CreatedOnce
      <4> QED
        BY <4>1, <4>2
    <3>5. \A d \in Calls : /\ d \in sent => Len(created[Sub(d)]) = resent[d]
                           /\ pc'[d] = "await" /\ d \notin sent =>
                                Len(created[Sub(d)]) = resent[d] + 1
                           /\ pc'[d] \in {"resolve", "finish"} => created[Sub(d)] # << >>
      BY <1>1, <2>1 DEF TypeOK, CreatedOnce
    <3> QED
      BY <1>1, <3>3, <3>4, <3>5 DEF CreatedOnce
  <2>8. DoneIsCreated'
    BY <1>1, <2>1, <2>5 DEF TypeOK, DoneIsCreated
  <2> QED
    BY <2>2, <2>3, <2>6, <2>7, <2>8
<1>3. CASE intents[Sub(c)] # NoIntent
  <2>1. /\ UNCHANGED intents
        /\ \/ pc' = [pc EXCEPT ![c] = "conflict"]
           \/ pc' = [pc EXCEPT ![c] = "finish"] /\ intents[Sub(c)].done
           \/ pc' = [pc EXCEPT ![c] = "unavailable"]
    BY <1>3 DEF ClaimIntent, Goto
  <2>2. TypeOK'
    BY <1>1, <2>1 DEF TypeOK, Active, Answers
  <2>3. ScopeBinds' /\ IntentBinds'
    BY <1>1, <2>1 DEF TypeOK, ScopeBinds, IntentBinds, Bound
  <2>4. OwnerAlone'
    BY <1>1, <2>1 DEF TypeOK, OwnerAlone, Owning
  <2>5. CreatedOnce' /\ DoneIsCreated'
    BY <1>1, <2>1 DEF TypeOK, CreatedOnce, DoneIsCreated
  <2> QED
    BY <2>2, <2>3, <2>4, <2>5
<1> QED
  BY <1>2, <1>3

\* A call that moves on, or ends, without touching a record or the chain.
\* Where it may go: from its fence on it has to show what was created.
LEMMA MoveInv ==
  ASSUME PostingInv, NEW c \in Calls, NEW next, UNCHANGED <<scopes, intents, chain>>,
         pc' = [pc EXCEPT ![c] = next],
         \/ pc[c] = "upload" /\ next = "fence"
         \/ pc[c] = "await" /\ c \notin sent /\ next = "resolve"
         \/ pc[c] = "again" /\ next = "accepted"
         \/ next \in {"dead", "error", "unavailable"}
  PROVE  PostingInv'
<1> USE CallType DEF PostingInv
<1>1. TypeOK'
  BY DEF TypeOK, Active, Answers
<1>2. ScopeBinds' /\ IntentBinds'
  BY DEF TypeOK, ScopeBinds, IntentBinds, Bound
<1>3. OwnerAlone'
  BY DEF TypeOK, OwnerAlone, Owning
<1>4. CreatedOnce'
  <2>1. pc[c] = "await" /\ c \notin sent => created[Sub(c)] # << >>
    <3>1. ASSUME pc[c] = "await", c \notin sent, created[Sub(c)] = << >> PROVE FALSE
      <4>1. Len(created[Sub(c)]) = resent[c] + 1 /\ resent[c] \in Nat
        BY <3>1 DEF TypeOK, CreatedOnce
      <4>2. Len(created[Sub(c)]) = 0
        BY <3>1
      <4> QED
        BY <4>1, <4>2
    <3> QED
      BY <3>1
  <2> QED
    BY <2>1 DEF TypeOK, CreatedOnce
<1>5. DoneIsCreated'
  BY DEF TypeOK, DoneIsCreated, ScopeBinds, Bound
<1> QED
  BY <1>1, <1>2, <1>3, <1>4, <1>5

\* assertPostingIntentOwner and the broadcast in the same turn.
LEMMA FenceInv ==
  ASSUME PostingInv, NEW c \in Calls, Fence(c)
  PROVE  PostingInv'
<1> USE CallType DEF PostingInv
<1>1. UNCHANGED <<scopes, intents, created, resent>> /\ pc[c] = "fence"
  BY DEF Fence, At
<1>2. CASE sent' = sent /\ pc' = [pc EXCEPT ![c] = "unavailable"]
  BY <1>1, <1>2, MoveInv
<1>3. CASE sent' = sent \cup {c} /\ pc' = [pc EXCEPT ![c] = "await"]
  <2>1. TypeOK' /\ ScopeBinds' /\ IntentBinds'
    BY <1>1, <1>3 DEF TypeOK, ScopeBinds, IntentBinds, Bound, Active
  <2>2. OwnerAlone'
    BY <1>1, <1>3 DEF TypeOK, OwnerAlone, Owning
  <2>3. Len(created[Sub(c)]) = resent[c]
    <3>1. created[Sub(c)] = << >> /\ resent[c] = 0
      BY <1>1 DEF OwnerAlone
    <3> QED
      BY <3>1
  <2>4. CreatedOnce' /\ DoneIsCreated'
    BY <1>1, <1>3, <2>3 DEF TypeOK, CreatedOnce, DoneIsCreated
  <2> QED
    BY <2>1, <2>2, <2>4
<1> QED
  BY <1>2, <1>3 DEF Fence, Goto

\* The chain executes the only transaction of the Submission that is under
\* way: all that were executed before it were sent by the same call.
LEMMA LandInv ==
  ASSUME PostingInv, NEW c \in Calls, Land(c)
  PROVE  /\ PostingInv'
         /\ Len(created[Sub(c)]) = resent[c]
         /\ \A i \in 1..Len(created[Sub(c)]) : created[Sub(c)][i] = Cmd(c)
         /\ intents[Sub(c)] # NoIntent /\ intents[Sub(c)].owner = c
<1> USE CallType DEF PostingInv
<1> DEFINE s == created[Sub(c)]
           t == Append(s, Cmd(c))
<1>1. /\ c \in sent /\ sent' = sent \ {c} /\ UNCHANGED <<scopes, intents, resent, pc>>
      /\ intents[Sub(c)] # NoIntent /\ intents[Sub(c)].owner = c
      /\ created' = [created EXCEPT ![Sub(c)] = t]
  BY DEF Land, OwnerAlone
<1>2. /\ s \in Seq(Terms) /\ Len(s) = resent[c] /\ resent[c] \in Nat
      /\ \A i \in 1..Len(s) : s[i] = Cmd(c)
  BY <1>1 DEF TypeOK, CreatedOnce
<1>3. /\ t \in Seq(Terms) /\ Len(t) = Len(s) + 1
      /\ t[Len(s) + 1] = Cmd(c) /\ \A i \in 1..Len(s) : t[i] = s[i]
  BY <1>2, AppendProperties
<1>4. /\ t # << >> /\ Len(t) = resent[c] + 1
      /\ \A i \in 1..Len(t) : t[i] = Cmd(c)
  <2>1. Len(t) = resent[c] + 1 /\ t # << >>
    <3>1. Len(t) = resent[c] + 1 /\ Len(t) # 0
      BY <1>2, <1>3
    <3>2. Len(<< >>) = 0
      OBVIOUS
    <3> HIDE DEF t
    <3> QED
      BY <3>1, <3>2
  <2>2. ASSUME NEW i \in 1..Len(t) PROVE t[i] = Cmd(c)
    <3>1. i \in 1..Len(s) \/ i = Len(s) + 1
      BY <1>2, <1>3
    <3> QED
      BY <1>2, <1>3, <3>1
  <2> QED
    BY <2>1, <2>2
<1> HIDE DEF t
<1>5. \A x \in Subs : created'[x] = IF x = Sub(c) THEN t ELSE created[x]
  BY <1>1 DEF TypeOK
<1>6. TypeOK'
  BY <1>1, <1>3 DEF TypeOK
<1>7. ScopeBinds' /\ IntentBinds'
  BY <1>1 DEF ScopeBinds, IntentBinds
<1>8. \A d \in Calls : d # c /\ Sub(d) = Sub(c) =>
        d \notin sent /\ pc[d] \notin Owning /\ intents[Sub(d)].owner # d
  BY <1>1 DEF OwnerAlone
<1>9. pc[c] \notin {"upload", "fence"}
  BY <1>1 DEF OwnerAlone
<1>10. OwnerAlone'
  BY <1>1, <1>5, <1>8, <1>9 DEF TypeOK, OwnerAlone, Owning
<1>11. CreatedOnce'
  <2>1. \A x \in Subs : /\ created'[x] # << >> => intents'[x] # NoIntent
                        /\ intents'[x] # NoIntent => Sub(intents'[x].owner) = x
    BY <1>1, <1>5 DEF CreatedOnce
  <2>2. ASSUME NEW d \in Calls
        PROVE  /\ intents'[Sub(d)] # NoIntent /\ intents'[Sub(d)].owner = d =>
                   /\ \A i \in 1..Len(created'[Sub(d)]) : created'[Sub(d)][i] = Cmd(d)
                   /\ Len(created'[Sub(d)]) <= resent'[d] + 1
               /\ d \in sent' => Len(created'[Sub(d)]) = resent'[d]
               /\ pc'[d] = "await" /\ d \notin sent' =>
                    Len(created'[Sub(d)]) = resent'[d] + 1
               /\ pc'[d] \in {"resolve", "finish"} => created'[Sub(d)] # << >>
    <3>1. CASE d = c
      BY <1>1, <1>2, <1>4, <1>5, <3>1
    <3>2. CASE d # c /\ Sub(d) = Sub(c)
      BY <1>1, <1>4, <1>5, <1>8, <3>2 DEF Owning
    <3>3. CASE Sub(d) # Sub(c)
      BY <1>1, <1>5, <3>3 DEF CreatedOnce
    <3> QED
      BY <3>1, <3>2, <3>3
  <2> QED
    BY <2>1, <2>2 DEF CreatedOnce
<1>12. \A k \in Keys : scopes[k].done => scopes[k].sub \in Subs
  BY DEF TypeOK, NoScope
<1>13. DoneIsCreated'
  BY <1>1, <1>4, <1>5, <1>12 DEF TypeOK, DoneIsCreated
<1> QED
  BY <1>1, <1>2, <1>6, <1>7, <1>10, <1>11, <1>13

\* The broadcaster sends again what was executed without its knowing.
LEMMA ResendInv ==
  ASSUME PostingInv, NEW c \in Calls, Resend(c)
  PROVE  /\ PostingInv'
         /\ Len(created[Sub(c)]) = resent[c] + 1
         /\ intents[Sub(c)] # NoIntent /\ intents[Sub(c)].owner = c
<1> USE CallType DEF PostingInv
<1>1. /\ pc[c] = "await" /\ c \notin sent /\ sent' = sent \cup {c}
      /\ resent' = [resent EXCEPT ![c] = @ + 1]
      /\ UNCHANGED <<scopes, intents, created, pc>>
  BY DEF Resend, At
<1>2. /\ intents[Sub(c)] # NoIntent /\ intents[Sub(c)].owner = c
      /\ Len(created[Sub(c)]) = resent[c] + 1 /\ resent[c] \in Nat
  BY <1>1 DEF TypeOK, OwnerAlone, CreatedOnce, Owning
<1>3. resent'[c] = resent[c] + 1 /\ \A d \in Calls : d # c => resent'[d] = resent[d]
  BY <1>1 DEF TypeOK
<1>4. TypeOK'
  BY <1>1, <1>2 DEF TypeOK
<1>5. ScopeBinds' /\ IntentBinds' /\ DoneIsCreated'
  BY <1>1 DEF ScopeBinds, IntentBinds, DoneIsCreated
<1>6. OwnerAlone'
  BY <1>1, <1>2, <1>3 DEF OwnerAlone, Owning
<1>7. Len(created[Sub(c)]) <= resent'[c] + 1
  BY <1>2, <1>3
<1>8. CreatedOnce'
  BY <1>1, <1>2, <1>3, <1>7 DEF CreatedOnce
<1> QED
  BY <1>2, <1>4, <1>5, <1>6, <1>8

\* resolvePostingIntent.
LEMMA ResolveIntentInv ==
  ASSUME PostingInv, NEW c \in Calls, ResolveIntent(c)
  PROVE  PostingInv'
<1> USE CallType DEF PostingInv
<1>1. /\ UNCHANGED <<scopes, chain>> /\ pc[c] = "resolve"
      /\ intents[Sub(c)] # NoIntent /\ intents[Sub(c)].owner = c /\ created[Sub(c)] # << >>
  BY DEF ResolveIntent, At, OwnerAlone, CreatedOnce, Owning
<1>2. intents' = [intents EXCEPT ![Sub(c)].done = TRUE] /\ pc' = [pc EXCEPT ![c] = "finish"]
  BY <1>1 DEF ResolveIntent, Goto
<1>3. intents[Sub(c)] \in [terms : Terms, owner : Calls, done : BOOLEAN]
  BY <1>1 DEF TypeOK
<1>4. \A x \in Subs : intents'[x] = IF x = Sub(c) THEN [intents[Sub(c)] EXCEPT !.done = TRUE]
                                                  ELSE intents[x]
  BY <1>2 DEF TypeOK
<1>5. intents'[Sub(c)].done /\ intents'[Sub(c)].owner = c
  BY <1>1, <1>3, <1>4
<1>6. \A x \in Subs : /\ intents[x] # NoIntent <=> intents'[x] # NoIntent
                      /\ intents'[x].owner = intents[x].owner
  BY <1>1, <1>4, <1>5 DEF NoIntent
<1>7. TypeOK'
  BY <1>1, <1>2, <1>3 DEF TypeOK, Active
<1>8. ScopeBinds' /\ IntentBinds'
  BY <1>1, <1>2, <1>6 DEF TypeOK, ScopeBinds, IntentBinds, Bound
<1>9. OwnerAlone'
  BY <1>1, <1>2, <1>6 DEF TypeOK, OwnerAlone, Owning
<1>10. CreatedOnce'
  BY <1>1, <1>2, <1>6 DEF TypeOK, CreatedOnce
<1>11. DoneIsCreated'
  BY <1>1, <1>2, <1>4 DEF TypeOK, DoneIsCreated
<1> QED
  BY <1>7, <1>8, <1>9, <1>10, <1>11

\* Every step keeps the invariant.
LEMMA PostingStepInv ==
  ASSUME PostingInv, [Next]_vars
  PROVE  PostingInv'
<1>1. ASSUME NEW c \in Calls, SubmitStep(c) PROVE PostingInv'
  <2>1. CASE Again(c)
    BY <2>1, MoveInv DEF Again, At, Goto
  <2>2. CASE Upload(c)
    BY <2>2, MoveInv DEF Upload, At, Goto
  <2>3. CASE Confirm(c)
    BY <2>3, MoveInv DEF Confirm, At, Goto
  <2> QED
    BY <1>1, <2>1, <2>2, <2>3, ClaimScopeInv, JoinInv, ReclaimInv, ClaimIntentInv, FenceInv,
       ResolveIntentInv, ResolveScopeInv
    DEF SubmitStep
<1>2. ASSUME NEW c \in Calls, Dies(c) PROVE PostingInv'
  BY <1>2, MoveInv DEF Dies, Goto
<1>3. CASE UNCHANGED vars
  BY <1>3 DEF vars, PostingInv, TypeOK, ScopeBinds, IntentBinds, OwnerAlone, CreatedOnce,
              DoneIsCreated, Joined
<1> QED
  BY <1>1, <1>2, <1>3, LandInv, ResendInv, RecoverInv DEF Next

\* The invariant of the requester backend.
THEOREM PostingInvariant == Spec => []PostingInv
<1>1. Init => PostingInv
  BY PostingInitInv
<1>2. PostingInv /\ [Next]_vars => PostingInv'
  BY PostingStepInv
<1> QED
  BY <1>1, <1>2, PTL DEF Spec

\* createTask is executed at most once for a sealed Submission unless the
\* broadcaster sent it again, and then under the same terms: the first claim
\* owns the intent for good, and only its owner broadcasts.
THEOREM PostedAtMostOnce == Spec => []PostedOnce
<1>1. PostingInv => PostedOnce
  <2> SUFFICES ASSUME PostingInv, NEW x \in Subs
               PROVE  /\ \A i, j \in 1..Len(created[x]) : created[x][i] = created[x][j]
                      /\ (\A c \in Calls : Sub(c) = x => resent[c] = 0) => Len(created[x]) <= 1
    BY DEF PostedOnce
  <2>1. CASE created[x] = << >>
    <3>1. Len(created[x]) = 0
      BY <2>1
    <3> QED
      BY <3>1
  <2>2. CASE created[x] # << >>
    <3>1. PICK c \in Calls : intents[x].owner = c /\ intents[x] # NoIntent /\ Sub(c) = x
      BY <2>2 DEF PostingInv, TypeOK, CreatedOnce
    <3>2. /\ \A i \in 1..Len(created[x]) : created[x][i] = Cmd(c)
          /\ Len(created[x]) <= resent[c] + 1
      BY <3>1 DEF PostingInv, CreatedOnce
    <3> QED
      BY <3>1, <3>2
  <2> QED
    BY <2>1, <2>2
<1> QED
  BY <1>1, PostingInvariant, PTL

\* Two Submissions sealed under one idempotency key are never both posted:
\* an intent is claimed only for the Submission the scope is bound to.
THEOREM KeyPostsOneSubmission == Spec => []OnePerKey
<1>1. PostingInv => OnePerKey
  <2> SUFFICES ASSUME PostingInv, NEW x \in Subs, NEW y \in Subs, x[1] = y[1],
                      created[x] # << >>, created[y] # << >>
               PROVE  x = y
    BY DEF OnePerKey
  <2>1. intents[x] # NoIntent /\ intents[y] # NoIntent
    BY DEF PostingInv, CreatedOnce
  <2> QED
    BY <2>1 DEF PostingInv, IntentBinds
<1> QED
  BY <1>1, PostingInvariant, PTL

\* A Submission that a caller was told is accepted was executed on chain.
THEOREM AcceptanceIsPosted == Spec => []AcceptedIsPosted
<1>1. PostingInv => AcceptedIsPosted
  BY DEF PostingInv, DoneIsCreated, AcceptedIsPosted
<1> QED
  BY <1>1, PostingInvariant, PTL

-----------------------------------------------------------------------------
(* The refinement.                                                          *)

\* The Submissions some caller was told are accepted.
Acked == {x \in Subs : \E c \in Calls : Sub(c) = x /\ pc[c] = "accepted"}

\* The answers that were lost of each Submission.
Doubts == [x \in Subs |-> IF intents[x] = NoIntent THEN 0 ELSE resent[intents[x].owner]]

\* A step that does not execute createTask moves one call at most, and no
\* call leaves its acceptance.
LEMMA QuietStep ==
  ASSUME PostingInv, NEW c \in Calls, SubmitStep(c) \/ Dies(c)
  PROVE  /\ created' = created /\ pc[c] # "accepted"
         /\ pc' = [pc EXCEPT ![c] = pc'[c]] /\ resent' = resent
<1>1. \A next : pc' = [pc EXCEPT ![c] = next] => pc' = [pc EXCEPT ![c] = pc'[c]]
  BY DEF PostingInv, TypeOK
<1>2. CASE ClaimScope(c) \/ Join(c) \/ Again(c) \/ Reclaim(c)
  BY <1>1, <1>2 DEF ClaimScope, Join, Again, Reclaim, At, Goto
<1>3. CASE ClaimIntent(c) \/ Upload(c) \/ Fence(c) \/ Confirm(c)
  BY <1>1, <1>3 DEF ClaimIntent, Upload, Fence, Confirm, At, Goto
<1>4. CASE ResolveIntent(c) \/ ResolveScope(c)
  BY <1>1, <1>4 DEF ResolveIntent, ResolveScope, At, Goto
<1>5. CASE Dies(c)
  BY <1>1, <1>5, PostingAssumption DEF Dies, Goto, Active
<1> QED
  BY <1>2, <1>3, <1>4, <1>5 DEF SubmitStep

\* An intent that is claimed was not sent again yet, and its owner stays.
LEMMA DoubtsStay ==
  ASSUME PostingInv, NEW c \in Calls, SubmitStep(c) \/ Dies(c)
  PROVE  Doubts' = Doubts
<1>1. resent' = resent
  BY QuietStep
<1>2. CASE intents' = intents
  BY <1>1, <1>2 DEF Doubts
<1>3. CASE ClaimIntent(c) /\ intents[Sub(c)] = NoIntent
  <2>1. intents' = [intents EXCEPT ![Sub(c)] = [terms |-> Cmd(c), owner |-> c, done |-> FALSE]]
    BY <1>3 DEF ClaimIntent, OwnIntent
  <2>2. \A x \in Subs : intents'[x] = IF x = Sub(c) THEN [terms |-> Cmd(c), owner |-> c, done |-> FALSE]
                                     ELSE intents[x]
    BY <2>1 DEF PostingInv, TypeOK
  <2>3. intents'[Sub(c)].owner = c /\ resent[c] = 0 /\ Sub(c) \in Subs
    BY <1>3, <2>2, CallType DEF PostingInv, OwnerAlone
  <2>4. ASSUME NEW x \in Subs
        PROVE  (IF intents'[x] = NoIntent THEN 0 ELSE resent[intents'[x].owner])
                 = (IF intents[x] = NoIntent THEN 0 ELSE resent[intents[x].owner])
    BY <1>3, <2>2, <2>3
  <2> QED
    BY <1>1, <2>4 DEF Doubts
<1>4. CASE ResolveIntent(c) /\ intents[Sub(c)].owner = c
  <2>1. intents' = [intents EXCEPT ![Sub(c)].done = TRUE]
    BY <1>4 DEF ResolveIntent
  <2>2. Sub(c) \in Subs /\ intents[Sub(c)] # NoIntent
    BY <1>4, CallType, CallsAreNotEmpty DEF NoIntent
  <2>3. intents[Sub(c)] \in [terms : Terms, owner : Calls, done : BOOLEAN]
    BY <2>2 DEF PostingInv, TypeOK
  <2>4. /\ intents'[Sub(c)].owner = c /\ intents'[Sub(c)] # NoIntent
        /\ \A x \in Subs : x # Sub(c) => intents'[x] = intents[x]
    BY <1>4, <2>1, <2>2, <2>3, CallsAreNotEmpty DEF PostingInv, TypeOK, NoIntent
  <2>5. ASSUME NEW x \in Subs
        PROVE  (IF intents'[x] = NoIntent THEN 0 ELSE resent[intents'[x].owner])
                 = (IF intents[x] = NoIntent THEN 0 ELSE resent[intents[x].owner])
    BY <1>4, <2>2, <2>4
  <2> QED
    BY <1>1, <2>5 DEF Doubts
<1>5. intents' = intents \/ ClaimIntent(c) \/ ResolveIntent(c)
  BY DEF SubmitStep, ClaimScope, Join, Again, Reclaim, Upload, Fence, Confirm, ResolveScope, Dies
<1> QED
  BY <1>2, <1>3, <1>4, <1>5 DEF ClaimIntent, ResolveIntent

\* submit() over its two records implements the posting promised: executing
\* createTask is Post, sending it again is Doubt, the step that answers
\* "accepted" is Ack, and every other step, a crash and a recovery included,
\* is a stutter.
THEOREM PostingRefinement == Spec => ImplementsPosting
<1>1. Init => Posting!PostingInit
  BY DEF Init, Posting!PostingInit
<1>2. PostingInv /\ PostingInv' /\ [Next]_vars
        => [Posting!PostingNext]_<<created, Doubts, Acked>>
  <2> SUFFICES ASSUME PostingInv, PostingInv', [Next]_vars
               PROVE  Posting!PostingNext \/ UNCHANGED <<created, Doubts, Acked>>
    OBVIOUS
  <2>1. ASSUME NEW c \in Calls, SubmitStep(c) \/ Dies(c)
        PROVE  Posting!PostingNext \/ UNCHANGED <<created, Doubts, Acked>>
    <3>1. created' = created /\ pc[c] # "accepted" /\ pc' = [pc EXCEPT ![c] = pc'[c]]
      BY <2>1, QuietStep
    <3>2. \A d \in Calls : d # c => pc'[d] = pc[d]
      BY <3>1 DEF PostingInv, TypeOK
    <3>3. Doubts' = Doubts
      BY <2>1, DoubtsStay
    <3>4. CASE pc'[c] # "accepted"
      BY <3>1, <3>2, <3>3, <3>4 DEF Acked
    <3>5. CASE pc'[c] = "accepted"
      <4>1. created[Sub(c)] # << >> /\ Sub(c) \in Subs
        BY <3>1, <3>5, CallType DEF PostingInv, DoneIsCreated
      <4>2. Acked' = Acked \cup {Sub(c)}
        BY <3>1, <3>2, <3>5, <4>1 DEF Acked
      <4>3. Posting!Ack(Sub(c))
        BY <3>1, <3>3, <4>1, <4>2 DEF Posting!Ack, Acked, Doubts
      <4> QED
        BY <4>1, <4>3 DEF Posting!PostingNext
    <3> QED
      BY <3>4, <3>5
  <2>2. ASSUME NEW c \in Calls, Land(c) PROVE Posting!PostingNext
    <3>1. /\ Len(created[Sub(c)]) = resent[c]
          /\ \A i \in 1..Len(created[Sub(c)]) : created[Sub(c)][i] = Cmd(c)
          /\ intents[Sub(c)] # NoIntent /\ intents[Sub(c)].owner = c
      BY <2>2, LandInv
    <3>2. /\ created' = [created EXCEPT ![Sub(c)] = Append(@, Cmd(c))]
          /\ UNCHANGED <<pc, intents, resent>> /\ Sub(c) \in Subs /\ Cmd(c) \in Terms
      BY <2>2, CallType DEF Land
    <3>3. Doubts[Sub(c)] = resent[c] /\ UNCHANGED <<Doubts, Acked>>
      BY <3>1, <3>2 DEF Doubts, Acked
    <3>4. Posting!Post(Sub(c), Cmd(c))
      BY <3>1, <3>2, <3>3 DEF Posting!Post, Doubts, Acked
    <3> QED
      BY <3>2, <3>4 DEF Posting!PostingNext
  <2>3. ASSUME NEW c \in Calls, Resend(c) PROVE Posting!PostingNext
    <3>1. /\ Len(created[Sub(c)]) = resent[c] + 1 /\ Sub(c) \in Subs
          /\ intents[Sub(c)] # NoIntent /\ intents[Sub(c)].owner = c
      BY <2>3, ResendInv, CallType
    <3>2. /\ resent[c] + 1 < MaxAttempts /\ UNCHANGED <<created, intents, pc>>
          /\ resent' = [resent EXCEPT ![c] = @ + 1]
      BY <2>3 DEF Resend
    <3>3. resent'[c] = resent[c] + 1 /\ \A d \in Calls : d # c => resent'[d] = resent[d]
      BY <3>2 DEF PostingInv, TypeOK
    <3>4. ASSUME NEW x \in Subs
          PROVE  (IF intents[x] = NoIntent THEN 0 ELSE resent'[intents[x].owner])
                   = IF x = Sub(c) THEN Doubts[x] + 1 ELSE Doubts[x]
      <4>1. CASE x = Sub(c)
        BY <3>1, <3>3, <4>1 DEF Doubts
      <4>2. CASE x # Sub(c) /\ intents[x] # NoIntent
        <5>1. intents[x].owner \in Calls /\ Sub(intents[x].owner) = x
          BY <4>2 DEF PostingInv, TypeOK, CreatedOnce
        <5> QED
          BY <3>3, <4>2, <5>1 DEF Doubts
      <4>3. CASE x # Sub(c) /\ intents[x] = NoIntent
        BY <4>3 DEF Doubts
      <4> QED
        BY <4>1, <4>2, <4>3
    <3>5. Doubts' = [Doubts EXCEPT ![Sub(c)] = @ + 1]
      BY <3>1, <3>2, <3>4 DEF Doubts
    <3>6. Doubts[Sub(c)] = resent[c] /\ Acked' = Acked
      BY <3>1, <3>2 DEF Doubts, Acked
    <3>7. Posting!Doubt(Sub(c))
      BY <3>1, <3>2, <3>5, <3>6 DEF Posting!Doubt, Doubts, Acked
    <3> QED
      BY <3>1, <3>7 DEF Posting!PostingNext
  <2>4. ASSUME NEW k \in Keys, Recover(k) PROVE UNCHANGED <<created, Doubts, Acked>>
    BY <2>4 DEF Recover, Acked, Doubts
  <2>5. CASE UNCHANGED vars
    BY <2>5 DEF vars, Acked, Doubts
  <2> QED
    BY <2>1, <2>2, <2>3, <2>4, <2>5 DEF Next
<1> QED
  BY <1>1, <1>2, PostingInvariant, PTL
  DEF Spec, ImplementsPosting, Posting!PostingSpec, Acked, Doubts
=============================================================================
