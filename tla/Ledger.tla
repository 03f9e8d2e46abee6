------------------------------- MODULE Ledger -------------------------------
(***************************************************************************)
(* What the replicas of an RBFT cluster promise together: one ledger.      *)
(* Each replica holds a sequence of batches and appends batches at heights *)
(* at which no replica holds another one, several at once if they are      *)
(* ready.  A replica that lags may also take over the ledger of another up *)
(* to some height (state transfer).  How batches are chosen, voted on or   *)
(* carried over from view to view is not said here: NormalCase implements  *)
(* it within one view, and ViewChange over several.                        *)
(***************************************************************************)
EXTENDS Integers, Sequences

CONSTANTS
  Replica,      \* the replicas that run the code
  Batch,        \* batches, the no-op batch included
  MaxRun        \* bound on the batches appended at once

VARIABLE ledger      \* ledger[r]: the batches r has executed, in order

Init == ledger = [r \in Replica |-> <<>>]

\* Batches that may be appended at once, in order.
Runs == UNION {[1 .. k -> Batch] : k \in 1 .. MaxRun}

\* r appends bs: a replica that is ahead holds the same at those heights.
Execute(r, bs) ==
  /\ \A s \in Replica : \A i \in 1 .. Len(bs) :
       Len(ledger[r]) + i <= Len(ledger[s]) => ledger[s][Len(ledger[r]) + i] = bs[i]
  /\ ledger' = [ledger EXCEPT ![r] = @ \o bs]

\* r takes over the ledger of s up to height n.
CatchUp(r, s, n) ==
  /\ n > Len(ledger[r]) /\ n <= Len(ledger[s])
  /\ ledger' = [ledger EXCEPT ![r] = SubSeq(ledger[s], 1, n)]

Next ==
  \/ \E r \in Replica, bs \in Runs : Execute(r, bs)
  \/ \E r, s \in Replica : \E n \in 1 .. Len(ledger[s]) : CatchUp(r, s, n)

Spec == Init /\ [][Next]_ledger

(***************************************************************************)
(* Two replicas never hold different batches at one height (the blocks     *)
(* commitPendingBlocks executes and StateUpdate installs).                 *)
(***************************************************************************)
Consistent ==
  \A r, s \in Replica : \A n \in 1 .. Len(ledger[r]) :
    n <= Len(ledger[s]) => ledger[r][n] = ledger[s][n]
=============================================================================
