-------------------------- MODULE ApprovalPromise --------------------------
(***************************************************************************)
(* What an approval promises its reader, however the requests that decide  *)
(* it interleave: the steps are decided from the first to the last without *)
(* a gap, a decided step stays decided, the approval does not end before a *)
(* step was decided, and it ends approved only when every step was.        *)
(***************************************************************************)
EXTENDS Naturals

CONSTANT Entities

VARIABLES exists,   \* the approvals created so far
          total,    \* how many steps each has
          decided,  \* how many leading steps were decided
          outcome   \* "pending", "approved" or "rejected"

promiseVars == <<exists, total, decided, outcome>>

PromiseInit ==
    /\ exists = {}
    /\ total = [e \in Entities |-> 0]
    /\ decided = [e \in Entities |-> 0]
    /\ outcome = [e \in Entities |-> "pending"]

Create(e) ==
    /\ e \notin exists
    /\ exists' = exists \cup {e}
    /\ total'[e] \in Nat /\ total' = [total EXCEPT ![e] = total'[e]]
    /\ UNCHANGED <<decided, outcome>>

DecideNext(e) ==
    /\ decided[e] < total[e]
    /\ decided' = [decided EXCEPT ![e] = @ + 1]
    /\ UNCHANGED <<exists, total, outcome>>

End(e, how) ==
    /\ decided[e] > 0
    /\ how = "approved" => decided[e] = total[e]
    /\ outcome' = [outcome EXCEPT ![e] = how]
    /\ UNCHANGED <<exists, total, decided>>

PromiseNext ==
    \E e \in Entities :
        \/ Create(e)
        \/ DecideNext(e)
        \/ \E how \in {"approved", "rejected"} : End(e, how)

PromiseSpec == PromiseInit /\ [][PromiseNext]_promiseVars
=============================================================================
