----------------------------- MODULE Transactions -----------------------------
(***************************************************************************)
(* What the requests of the API server have in common, whatever they are   *)
(* about: each is handled in a goroutine of its own and runs transactions  *)
(* (RunInTx) on the tables; sizes are added in 32 bits.                    *)
(***************************************************************************)
EXTENDS Integers, FiniteSetsExt

CONSTANTS
  Requests,   \* requests under way at the same time
  Idle,       \* what a request does that is not under way, and who holds a free lock
  NoRow,      \* NULL: a row that has not been inserted
  Keep,       \* a field that the body of the request leaves out
  W           \* sizes are uint32: 2^32

\* What the constants are.
ASSUME TransactionsAssumption ==
  /\ IsFiniteSet(Requests) /\ Requests # {} /\ Idle \notin Requests
  /\ NoRow \notin {Keep, Idle} /\ W \in Nat \ {0}
=============================================================================
