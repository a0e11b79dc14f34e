-------------------------- MODULE RequesterBackend --------------------------
(***************************************************************************)
(* packages/marketplace/binding/src/backend.ts and posting.ts over the      *)
(* SQLite tables of packages/marketplace/venue-base: how submit() binds a   *)
(* sealed Submission to one createTask transaction.                         *)
(*                                                                          *)
(* Two durable records take part.  The scope (submission_scopes) is claimed *)
(* per (requester, idempotencyKey); the posting intent (posting_intents) is *)
(* a write-ahead record per Submission, claimed before the upload and the   *)
(* broadcast and resolved after them.  Calls of submit() run concurrently,  *)
(* in one process or in several, and may die between any two awaits.        *)
(*                                                                          *)
(* Data.  A Submission is <<idempotency key, version>>: two versions are    *)
(* two byte strings sealed under one key.  The terms stand for the prepared *)
(* command (commandDigest).  An owner token is random, so it is named by    *)
(* the call that drew it.  The admission checks of submit() that precede    *)
(* the first claim depend on the documents alone and are left out.          *)
(***************************************************************************)
EXTENDS Integers, Sequences

CONSTANTS
  Keys, Versions, Terms,
  Tries,        \* bound: calls with the same Submission and terms
  MaxAttempts,  \* maxAttempts of the broadcaster
  FaultAt       \* where a call may die or fail: values of pc

Subs  == Keys \X Versions
Calls == Subs \X Terms \X (1..Tries)

Active   == {"join", "again", "reclaim", "intent", "upload", "fence", "await", "resolve", "finish"}
Answers  == {"accepted", "conflict", "unavailable", "error"}

ASSUME PostingAssumption ==
  /\ Tries \in Nat /\ MaxAttempts \in Nat /\ FaultAt \subseteq Active

VARIABLES
  scopes,   \* submission_scopes
  intents,  \* posting_intents
  created,  \* the createTask transactions executed for each Submission
  sent,     \* calls whose transaction was handed to the broadcaster and may still be executed
  resent,   \* how often a call's broadcast was sent again after it had been executed
  pc        \* where each call of submit() is

chain == <<created, sent, resent>>
vars  == <<scopes, intents, chain, pc>>

NoCall   == <<>>
NoScope  == [sub |-> <<>>, terms |-> <<>>, owner |-> NoCall, done |-> FALSE]
NoIntent == [terms |-> <<>>, owner |-> NoCall, done |-> FALSE]

Sub(c) == c[1]
Cmd(c) == c[2]
Key(c) == Sub(c)[1]

Init ==
  /\ scopes = [k \in Keys |-> NoScope]
  /\ intents = [x \in Subs |-> NoIntent]
  /\ created = [x \in Subs |-> << >>]
  /\ sent = {} /\ resent = [c \in Calls |-> 0]
  /\ pc = [c \in Calls |-> "idle"]

At(c, here)   == pc[c] = here
Goto(c, next) == pc' = [pc EXCEPT ![c] = next]

-----------------------------------------------------------------------------
(* submit(): the scope.                                                     *)

OwnScope(c) == scopes' = [scopes EXCEPT ![Key(c)] =
                 [sub |-> Sub(c), terms |-> Cmd(c), owner |-> c, done |-> FALSE]]

\* Mutant: a scope is overwritten by another Submission.
ClaimScope_Upserts(c) ==
  LET row == scopes[Key(c)] IN
  /\ At(c, "idle")
  /\ IF row.sub # Sub(c) THEN OwnScope(c) /\ Goto(c, "intent")
     ELSE UNCHANGED scopes /\ Goto(c, IF row.done THEN "accepted" ELSE "join")
  /\ UNCHANGED <<intents, chain>>

\* claimSubmissionScope: the exact bytes are bound before any effect.
ClaimScope(c) ==
  LET row == scopes[Key(c)] IN
  /\ At(c, "idle")
  /\ IF row = NoScope THEN OwnScope(c) /\ Goto(c, "intent")
     ELSE /\ UNCHANGED scopes
          /\ Goto(c, IF row.sub # Sub(c) THEN "conflict"
                     ELSE IF row.done THEN "accepted" ELSE "join")
  /\ UNCHANGED <<intents, chain>>

\* Mutant: a resolved intent is not joined to its scope.
Joined_Never(k) == FALSE

\* The scope of key k is pending and its intent is resolved under the same
\* command: the join that resolveRecoveredSubmissionScope makes.
Joined(k) ==
  LET row == scopes[k] IN
  /\ row # NoScope /\ ~row.done
  /\ intents[row.sub].done /\ intents[row.sub].terms = row.terms

\* Mutant: a pending scope is never reclaimed.
Resolution_Waits(c) ==
  LET row == scopes[Key(c)] intent == intents[Sub(c)] IN
  IF row.terms # Cmd(c) THEN "conflict"
  ELSE IF row.done \/ Joined(Key(c)) THEN "again"
  ELSE "unavailable"

\* What the answer of resolveRecoveredSubmissionScope makes submit() do.
Resolution(c) ==
  LET row == scopes[Key(c)] intent == intents[Sub(c)] IN
  IF row.terms # Cmd(c) THEN "conflict"
  ELSE IF row.done \/ Joined(Key(c)) THEN "again"
  ELSE IF intent = NoIntent THEN "reclaim"
  ELSE IF intent.terms # Cmd(c) THEN "conflict"
  ELSE "unavailable"

Join(c) ==
  /\ At(c, "join")
  /\ Goto(c, Resolution(c))
  /\ scopes' = IF scopes[Key(c)].terms = Cmd(c) /\ Joined(Key(c))
               THEN [scopes EXCEPT ![Key(c)].done = TRUE] ELSE scopes
  /\ UNCHANGED <<intents, chain>>

\* The scope is resolved now; a second claim reads its record.
Again(c) ==
  /\ At(c, "again") /\ scopes[Key(c)].done
  /\ Goto(c, "accepted")
  /\ UNCHANGED <<scopes, intents, chain>>

\* reclaimSubmissionScope: a new owner for a scope that has no intent yet.
Reclaim(c) ==
  /\ At(c, "reclaim")
  /\ IF scopes[Key(c)].done THEN UNCHANGED scopes /\ Goto(c, "accepted")
     ELSE OwnScope(c) /\ Goto(c, "intent")
  /\ UNCHANGED <<intents, chain>>

-----------------------------------------------------------------------------
(* postTask(): the intent, the upload, the fence and the broadcast.         *)

OwnIntent(c) == intents' = [intents EXCEPT ![Sub(c)] =
                  [terms |-> Cmd(c), owner |-> c, done |-> FALSE]]

\* Mutant: a pending intent is taken over.
ClaimIntent_TakesOver(c) ==
  LET row == intents[Sub(c)] IN
  /\ At(c, "intent")
  /\ IF ~row.done THEN OwnIntent(c) /\ Goto(c, "upload")
     ELSE UNCHANGED intents /\ Goto(c, IF row.terms # Cmd(c) THEN "conflict" ELSE "finish")
  /\ UNCHANGED <<scopes, chain>>

ClaimIntent(c) ==
  LET row == intents[Sub(c)] IN
  /\ At(c, "intent")
  /\ IF row = NoIntent THEN OwnIntent(c) /\ Goto(c, "upload")
     ELSE /\ UNCHANGED intents
          /\ Goto(c, IF row.terms # Cmd(c) THEN "conflict"
                     ELSE IF row.done THEN "finish" ELSE "unavailable")
  /\ UNCHANGED <<scopes, chain>>

\* Both documents are uploaded.
Upload(c) ==
  /\ At(c, "upload")
  /\ Goto(c, "fence")
  /\ UNCHANGED <<scopes, intents, chain>>

\* The owner still holds the pending intent; the wallet is invoked in the
\* same turn.
Fence(c) ==
  LET held == intents[Sub(c)].owner = c /\ ~intents[Sub(c)].done IN
  /\ At(c, "fence")
  /\ sent' = IF held THEN sent \cup {c} ELSE sent
  /\ Goto(c, IF held THEN "await" ELSE "unavailable")
  /\ UNCHANGED <<scopes, intents, created, resent>>

(* broadcastCreateTask() is one execute() of SafeBroadcaster.  Of what it has *)
(* submitted at most one transaction can still be executed: the others were *)
(* replaced, or are signed for a Safe nonce that is gone.                   *)

\* The chain executes the transaction, whether or not its call still waits.
Land(c) ==
  /\ c \in sent
  /\ sent' = sent \ {c}
  /\ created' = [created EXCEPT ![Sub(c)] = Append(@, Cmd(c))]
  /\ UNCHANGED <<scopes, intents, resent, pc>>

\* The answer to a submission that was executed is lost: the ledger has no row
\* to adopt, and the next turn of the retry loop signs for the next Safe nonce.
Resend(c) ==
  /\ At(c, "await") /\ c \notin sent
  /\ resent[c] + 1 < MaxAttempts
  /\ resent' = [resent EXCEPT ![c] = @ + 1]
  /\ sent' = sent \cup {c}
  /\ UNCHANGED <<scopes, intents, created, pc>>

\* broadcastCreateTask returns the TaskCreated of the receipt.
Confirm(c) ==
  /\ At(c, "await") /\ c \notin sent
  /\ Goto(c, "resolve")
  /\ UNCHANGED <<scopes, intents, chain>>

ResolveIntent(c) ==
  /\ At(c, "resolve")
  /\ IF intents[Sub(c)].owner = c
     THEN intents' = [intents EXCEPT ![Sub(c)].done = TRUE] /\ Goto(c, "finish")
     ELSE UNCHANGED intents /\ Goto(c, "error")
  /\ UNCHANGED <<scopes, chain>>

\* resolveSubmissionScope: for the owner of the scope only.
ResolveScope(c) ==
  LET row == scopes[Key(c)] IN
  /\ At(c, "finish")
  /\ IF row.owner = c /\ ~row.done
     THEN scopes' = [scopes EXCEPT ![Key(c)].done = TRUE] /\ Goto(c, "accepted")
     ELSE UNCHANGED scopes /\ Goto(c, "error")
  /\ UNCHANGED <<intents, chain>>

-----------------------------------------------------------------------------
\* An await throws, or the process dies: the call ends, its records stay.
\* The last call for a Submission is spared, so that a retry can be judged.
Dies(c) ==
  /\ pc[c] \in FaultAt /\ c[3] < Tries
  /\ Goto(c, "dead")
  /\ UNCHANGED <<scopes, intents, chain>>

\* recoverPosting(): after a restart every pending scope is joined with its
\* intent.  An intent that is pending itself is reported, never resolved.
Recover(k) ==
  /\ Joined(k)
  /\ scopes' = [scopes EXCEPT ![k].done = TRUE]
  /\ UNCHANGED <<intents, chain, pc>>

SubmitStep(c) ==
  \/ ClaimScope(c) \/ Join(c) \/ Again(c) \/ Reclaim(c)
  \/ ClaimIntent(c) \/ Upload(c) \/ Fence(c) \/ Confirm(c)
  \/ ResolveIntent(c) \/ ResolveScope(c)

Next == \/ \E c \in Calls : SubmitStep(c) \/ Land(c) \/ Resend(c) \/ Dies(c)
        \/ \E k \in Keys : Recover(k)

\* A caller goes on with its call, and with another one after a failure; the
\* chain executes what a live call broadcast; the host runs recoverPosting().
Spec == /\ Init /\ [][Next]_vars
        /\ \A c \in Calls : WF_vars(SubmitStep(c) \/ (At(c, "await") /\ Land(c)))
        /\ \A k \in Keys : WF_vars(Recover(k))
=============================================================================
