----------------------------- MODULE RbftQuorum -----------------------------
(***************************************************************************)
(* The sizes every RBFT replica derives from the validator set of its      *)
(* epoch: N and F (chain_config.go, updateDerivedData) and the three       *)
(* quorums of helper.go.                                                   *)
(***************************************************************************)
EXTENDS Integers, FiniteSets

CONSTANT Validator      \* the validators of the current epoch

\* updateDerivedData refuses an epoch with fewer than 4 validators.
ASSUME ValidatorAssumption ==
  /\ IsFiniteSet(Validator)
  /\ Cardinality(Validator) >= 4

N == Cardinality(Validator)

F == (N - 1) \div 3

(***************************************************************************)
(* commonCaseQuorum is int(math.Ceil(float64(N+F+1) / float64(2))); the    *)
(* ceiling of x/2 is (x+1) \div 2.                                         *)
(***************************************************************************)
CommonCaseQuorum == (N + F + 2) \div 2

AllCorrectReplicasQuorum == N - F

OneCorrectQuorum == F + 1
=============================================================================
