------------------------------- MODULE AiUsage -------------------------------
(***************************************************************************)
(* The monthly usage buckets of the AI features (table ai_usage_bucket):   *)
(* the owner's request quota (ai-reports/quota.ts) and the deployment's    *)
(* monetary budget (ai-reports/budget.ts).                                 *)
(*                                                                         *)
(* A bucket is a record; each operator is the row one SQL UPDATE leaves    *)
(* behind, given how many requests the statement is about.  Token counts   *)
(* are not kept: no decision reads them.                                   *)
(***************************************************************************)
EXTENDS Integers

AtLeastZero(n) == IF n > 0 THEN n ELSE 0

-----------------------------------------------------------------------------
(* The owner's bucket: requests only.                                      *)

UserBucket == [reserved : Nat, consumed : Nat, released : Nat, unknown : Nat]

EmptyUserBucket == [reserved |-> 0, consumed |-> 0, released |-> 0, unknown |-> 0]

HasUserQuota(b, quota) == b.reserved + b.consumed < quota

ReserveUserQuota(b) == [b EXCEPT !.reserved = @ + 1]

\* greatest(0, ...): the owner's bucket never refuses a release
ReleaseUserQuota(b, n) == [b EXCEPT !.reserved = AtLeastZero(@ - n), !.released = @ + n]

ConsumeUserQuota(b) == [b EXCEPT !.reserved = AtLeastZero(@ - 1), !.consumed = @ + 1]

RecordUnknownUserUsage(b, n) == [b EXCEPT !.unknown = @ + n]

-----------------------------------------------------------------------------
(* The deployment's bucket: requests and cents.                            *)

GlobalBucket == [reserved : Int, reservedCost : Int, consumed : Nat,
                 estimated : Int, released : Nat, unknown : Nat]

EmptyGlobalBucket == [reserved |-> 0, reservedCost |-> 0, consumed |-> 0,
                      estimated |-> 0, released |-> 0, unknown |-> 0]

\* mutant: open reservations are not counted
HasUnspentBudget(b, cost, budget) == b.estimated + cost <= budget

HasGlobalBudget(b, cost, budget) == b.estimated + b.reservedCost + cost <= budget

ReserveGlobalBudget(b, cost) ==
  [b EXCEPT !.reserved = @ + 1, !.reservedCost = @ + cost]

ReleaseGlobalBudget(b, n, cost) ==
  [b EXCEPT !.reserved = @ - n, !.reservedCost = @ - n * cost, !.released = @ + n]

\* mutant: the bound is not committed before the call
ConsumeWithoutBound(b, cost) ==
  [b EXCEPT !.reserved = @ - 1, !.reservedCost = @ - cost, !.consumed = @ + 1]

ConsumeGlobalBudget(b, cost) ==
  [b EXCEPT !.reserved = @ - 1, !.reservedCost = @ - cost,
            !.consumed = @ + 1, !.estimated = @ + cost]

\* an unknown cost keeps the conservative bound that ConsumeGlobalBudget committed
SettleUnknownGlobalBudget(b, n) == [b EXCEPT !.unknown = @ + n]

\* mutant: the settled cost comes on top of the bound
SettleOnTop(b, cost, actual) == [b EXCEPT !.estimated = @ + actual]

SettleKnownGlobalBudget(b, cost, actual) == [b EXCEPT !.estimated = @ + (actual - cost)]

\* budget.ts throws AI_BUDGET_RESERVATION_MISSING, and the transaction rolls back,
\* when a release or a consume finds no reservation or a settlement finds no
\* consumed request; the table's CHECK constraints refuse a negative amount too
BudgetStands(b) ==
  /\ b.reserved >= 0
  /\ b.reservedCost >= 0
  /\ b.estimated >= 0
  /\ b.unknown > 0 => b.consumed > 0
=============================================================================
