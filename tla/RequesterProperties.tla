------------------------ MODULE RequesterProperties ------------------------
(***************************************************************************)
(* What the requester backend must guarantee.                               *)
(***************************************************************************)
EXTENDS RequesterBackend

\* Every variable has the shape of its table or of its local.
TypeOK ==
  /\ scopes \in [Keys -> {NoScope} \cup
       [sub : Subs, terms : Terms, owner : Calls, done : BOOLEAN]]
  /\ intents \in [Subs -> {NoIntent} \cup [terms : Terms, owner : Calls, done : BOOLEAN]]
  /\ created \in [Subs -> Seq(Terms)]
  /\ sent \subseteq Calls /\ resent \in [Calls -> Nat]
  /\ pc \in [Calls -> Active \cup Answers \cup {"idle", "dead"}]

\* createTask is executed at most once for a sealed Submission, whoever calls
\* submit() with it and whenever a call dies, unless the broadcaster sent it
\* again: then once more for each time, and under the same terms.
PostedOnce ==
  \A x \in Subs :
    /\ \A i, j \in 1..Len(created[x]) : created[x][i] = created[x][j]
    /\ (\A c \in Calls : Sub(c) = x => resent[c] = 0) => Len(created[x]) <= 1

\* Of the Submissions sealed under one idempotency key at most one is posted.
OnePerKey ==
  \A x, y \in Subs : x[1] = y[1] /\ created[x] # << >> /\ created[y] # << >> => x = y

\* An accepted Submission is on chain.
AcceptedIsPosted == \A c \in Calls : pc[c] = "accepted" => created[Sub(c)] # << >>

Posting == INSTANCE AtMostOncePosting WITH
  posted <- created,
  doubts <- [x \in Subs |-> IF intents[x] = NoIntent THEN 0 ELSE resent[intents[x].owner]],
  acked <- {x \in Subs : \E c \in Calls : Sub(c) = x /\ pc[c] = "accepted"}

\* submit() over its two records implements at-most-once posting: whatever is
\* executed again is owed to an answer that the intent's owner lost.
ImplementsPosting == Posting!PostingSpec

\* A resolved intent reaches the scope, even when the call that resolved it
\* died or had lost the scope to another owner.
OutcomeJoined ==
  \A k \in Keys : (\E v \in Versions : intents[<<k, v>>].done)
                     ~> (scopes[k].done /\ intents[scopes[k].sub].done)

\* A Submission is posted in the end, by the first call or by a later one,
\* unless a call died that had claimed the intent: nobody posts in its place.
RetriesPost ==
  <>(\E x \in Subs : \/ created[x] # << >>
                     \/ intents[x] # NoIntent /\ pc[intents[x].owner] = "dead")
=============================================================================
