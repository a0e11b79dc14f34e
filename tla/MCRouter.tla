------------------------------ MODULE MCRouter ------------------------------
(***************************************************************************)
(* Small instances of the marketplace contracts for TLC.                   *)
(***************************************************************************)
EXTENDS RouterProperties, TLC

CONSTANTS requester, op1, op2

\* A Mech is named after the account that operates it at first. The requester
\* operates none.
MCMechs == {op1, op2}
MCFirstOperator == [m \in MCMechs |-> m]

Policy(total, concurrent, submitBy, close, timeout, quorum) ==
  [maxTotal |-> total, maxConcurrent |-> concurrent,
   submissionDeadline |-> submitBy, closeAt |-> close,
   responseTimeout |-> timeout, minVerdicts |-> quorum]

\* One attempt, one verdict.
MCSingle == {Policy(1, 1, 2, 0, 1, 1)}
\* Two attempts at a time; or one, to which the creator may add a second.
MCAttempts == {Policy(2, 2, 2, 2, 1, 1), Policy(1, 1, 1, 0, 1, 1)}
\* One attempt with a quorum of two verdicts; claims close at time 1.
MCQuorum == {Policy(1, 1, 1, 1, 1, 2)}

\* The operators are interchangeable, each with the Mech named after it.
MCSymmetry == Permutations({op1, op2})
=============================================================================
