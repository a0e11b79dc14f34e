-------------------------- MODULE AtMostOncePosting --------------------------
(***************************************************************************)
(* What the requester backend promises about a sealed Submission: createTask*)
(* is executed once for it, and again only when the answer to the execution *)
(* before was lost, under the same terms and a limited number of times; it  *)
(* is acknowledged only after it was executed.                              *)
(***************************************************************************)
EXTENDS Integers, Sequences

CONSTANTS Subs, Terms, MaxAttempts
VARIABLES
  posted,   \* the createTask transactions executed for each Submission
  doubts,   \* how many of them were executed without the caller learning it
  acked     \* the Submissions some caller was told are accepted

PostingInit == /\ posted = [x \in Subs |-> << >>]
               /\ doubts = [x \in Subs |-> 0]
               /\ acked = {}

Post(x, t) ==
  /\ Len(posted[x]) = doubts[x]
  /\ \A i \in 1..Len(posted[x]) : posted[x][i] = t
  /\ posted' = [posted EXCEPT ![x] = Append(@, t)]
  /\ UNCHANGED <<doubts, acked>>

\* The caller is not told of the last execution.
Doubt(x) ==
  /\ Len(posted[x]) = doubts[x] + 1 /\ Len(posted[x]) < MaxAttempts
  /\ doubts' = [doubts EXCEPT ![x] = @ + 1]
  /\ UNCHANGED <<posted, acked>>

Ack(x) ==
  /\ posted[x] # << >>
  /\ acked' = acked \cup {x}
  /\ UNCHANGED <<posted, doubts>>

PostingNext == \E x \in Subs : Doubt(x) \/ Ack(x) \/ \E t \in Terms : Post(x, t)
PostingSpec == PostingInit /\ [][PostingNext]_<<posted, doubts, acked>>
=============================================================================
