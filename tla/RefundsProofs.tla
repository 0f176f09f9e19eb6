---------------------------- MODULE RefundsProofs ----------------------------
(***************************************************************************)
(* Proofs about Refunds, for any set of jobs, tasks and tokens and any     *)
(* number of faults; and, for MCDaily, what WorkProofs shows of the jobs.  *)
(***************************************************************************)
EXTENDS MCDaily, TLAPS

(* The inductive invariant *)

\* No two tasks hold the same lease token.
TokensDistinct ==
    \A t, u \in Tasks :
        t # u /\ task[t].token # NoToken => task[t].token # task[u].token

\* What a task at each place of its program knows.
TaskKnows(t) ==
    LET j == task[t].job pc == task[t].pc IN
    /\ pc # "idle" => j \in Jobs
    /\ pc \in {"refund_tx", "revoke", "close"} => j \in PaidOrders
    /\ pc \notin {"idle", "refund_tx"} => row[j].status # "absent"
    /\ pc = "refund_tx" /\ task[t].seen = "refund_pending" => row[j].status # "absent"
    /\ pc = "rpc" => task[t].token # NoToken
    /\ pc = "rpc" /\ Request(t) \notin wire => money[j] = "returned"
    /\ pc = "complete" => money[j] = "returned"
    /\ pc \in {"manual_read", "manual_claim", "manual_mark"} => byHand[j]
    /\ pc \in {"revoke", "close"} => row[j].status = "completed"
    /\ pc = "close" => reversed[j]

\* Requests and returned money belong to recorded obligations.
MoneyRecorded ==
    /\ \A q \in wire : row[q.job].status # "absent"
    /\ \A j \in Jobs : money[j] = "returned" => row[j].status # "absent"

\* How an order, its access and its refund row go together.
OrderInv(o) ==
    /\ order[o] = "paid" <=> row[o].status = "absent"
    /\ reversed[o] \/ access[o] = "revoked" => row[o].status = "completed"
    /\ reversed[o] => access[o] # "granted"
    /\ order[o] = "refunded" => reversed[o]

IInv ==
    /\ TypeOK
    /\ TokensDistinct
    /\ \A t \in Tasks : TaskKnows(t)
    /\ MoneyRecorded
    /\ CompletionIsBacked
    /\ \A o \in PaidOrders : OrderInv(o)

-----------------------------------------------------------------------------
(* Facts about the values the actions write *)

\* What the rows the code writes look like: each is a row of the table, and
\* only a row that was never written is absent.
LEMMA RowFacts ==
    /\ NoRow \in Row /\ NoRow.status = "absent"
    /\ PendingRow \in Row /\ PendingRow.status = "pending"
    /\ PendingRow.token = NoToken
    /\ \A tok \in Tokens :
         [status |-> "processing", token |-> tok, live |-> TRUE,
          resolution |-> "none"] \in Row
    /\ \A how \in {"telegram", "manual"} :
         LET d == [NoRow EXCEPT !.status = "completed", !.resolution = how] IN
         d \in Row /\ d.status = "completed" /\ d.resolution = how
    /\ \A r \in Row : r.status = "absent" <=> r = NoRow
    /\ \A r \in Row : r.status = "processing" =>
         LET e == [r EXCEPT !.live = FALSE] IN
         e \in Row /\ e.status = "processing" /\ e.token = r.token
    /\ \A r \in Row : /\ r.status \in {"absent", "pending", "processing", "completed"}
                      /\ r.status = "processing" => r.token \in Tokens
  <1>1. NoRow \in IdleRow /\ NoRow.status = "absent"
    BY DEF IdleRow, NoRow
  <1>2. /\ PendingRow \in IdleRow
        /\ PendingRow.status = "pending" /\ PendingRow.token = NoToken
    BY DEF IdleRow, NoRow, PendingRow
  <1>3. \A tok \in Tokens :
          [status |-> "processing", token |-> tok, live |-> TRUE,
           resolution |-> "none"] \in LeasedRow
    BY DEF LeasedRow
  <1>4. ASSUME NEW how \in {"telegram", "manual"}
        PROVE  LET d == [NoRow EXCEPT !.status = "completed", !.resolution = how] IN
               d \in DoneRow /\ d.status = "completed" /\ d.resolution = how
    BY DEF NoRow, DoneRow
  <1>5. \A r \in Row : r.status = "absent" <=> r = NoRow
    <2>1. NoRow.status = "absent"
      BY DEF NoRow
    <2>2. ASSUME NEW r \in Row, r.status = "absent" PROVE r = NoRow
      <3>1. r \in IdleRow
        BY <2>2 DEF Row, LeasedRow, DoneRow
      <3>2. r = [status |-> r.status, token |-> r.token, live |-> r.live,
                 resolution |-> r.resolution]
        BY <3>1 DEF IdleRow
      <3>3. r.token = NoToken /\ r.live = FALSE /\ r.resolution = "none"
        BY <3>1 DEF IdleRow
      <3>4. QED
        BY <2>2, <3>2, <3>3 DEF NoRow
    <2>3. QED
      BY <2>1, <2>2
  <1>6. ASSUME NEW r \in Row, r.status = "processing"
        PROVE  LET e == [r EXCEPT !.live = FALSE] IN
               e \in LeasedRow /\ e.status = "processing" /\ e.token = r.token
    <2>1. r \in LeasedRow
      BY <1>6 DEF Row, IdleRow, DoneRow
    <2>2. QED
      BY <2>1 DEF LeasedRow
  <1>7. \A r \in Row : /\ r.status \in {"absent", "pending", "processing", "completed"}
                       /\ r.status = "processing" => r.token \in Tokens
    BY DEF Row, IdleRow, LeasedRow, DoneRow
  <1>8. QED
    BY <1>1, <1>2, <1>3, <1>4, <1>5, <1>6, <1>7 DEF Row

\* A fresh token is one nothing uses.
LEMMA Fresh ==
    HasFreshToken => FreshToken \in Tokens /\ FreshToken \notin UsedTokens
  BY DEF HasFreshToken, FreshToken

LEMMA IdleType == Idle \in Task /\ Idle.pc = "idle" /\ Idle.token = NoToken
  BY DEF Idle, Task, Pc, OrderStatus

-----------------------------------------------------------------------------
(* Type correctness *)

LEMMA TypeInit == Init => TypeOK
  <1> SUFFICES ASSUME Init PROVE TypeOK
    OBVIOUS
  <1>1. row \in [Jobs -> Row] /\ task \in [Tasks -> Task]
    BY RowFacts, IdleType DEF Init
  <1>2. QED
    BY <1>1, RefundsAssumption DEF Init, TypeOK, OrderStatus, Access

\* Each helper keeps the type of what it writes.
LEMMA TaskMoves ==
    ASSUME TypeOK, NEW t \in Tasks
    PROVE  /\ \A pc \in Pc : Goto(t, pc) => task' \in [Tasks -> Task]
           /\ Finish(t) => task' \in [Tasks -> Task]
           /\ Returned(t) => task' \in [Tasks -> Task]
           /\ \A pc \in Pc, j \in Jobs, seen \in OrderStatus :
                Begin(t, pc, j, seen) => task' \in [Tasks -> Task]
  <1>1. ASSUME NEW pc \in Pc, Goto(t, pc) PROVE task' \in [Tasks -> Task]
    BY <1>1 DEF Goto, TypeOK, Task
  <1>2. ASSUME Finish(t) PROVE task' \in [Tasks -> Task]
    BY <1>2, IdleType DEF Finish, TypeOK
  <1>3. ASSUME Returned(t) PROVE task' \in [Tasks -> Task]
    BY <1>1, <1>2, <1>3 DEF Returned, Pc
  <1>4. ASSUME NEW pc \in Pc, NEW j \in Jobs, NEW seen \in OrderStatus,
               Begin(t, pc, j, seen)
        PROVE  task' \in [Tasks -> Task]
    BY <1>4, IdleType DEF Begin, TypeOK, Task, Idle
  <1>5. QED
    BY <1>1, <1>2, <1>3, <1>4

LEMMA LeaseMoves ==
    ASSUME TypeOK, NEW t \in Tasks, NEW pc \in Pc, task[t].job \in Jobs, Lease(t, pc)
    PROVE  task' \in [Tasks -> Task] /\ row' \in [Jobs -> Row]
  <1>1. row' \in [Jobs -> Row]
    BY RowFacts, Fresh DEF Lease, TypeOK
  <1>2. task' \in [Tasks -> Task]
    <2> DEFINE leased == [task[t] EXCEPT !.token = FreshToken, !.pc = pc]
    <2>1. task \in [Tasks -> Task]
      BY DEF TypeOK
    <2>2. FreshToken \in Tokens
      BY Fresh DEF Lease
    <2>3. leased \in Task
      BY <2>1, <2>2 DEF Task
    <2>4. task' = [task EXCEPT ![t] = leased]
      BY DEF Lease
    <2> HIDE DEF leased
    <2>5. QED
      BY <2>1, <2>3, <2>4
  <1>3. QED
    BY <1>1, <1>2

LEMMA TypeStep == IInv /\ [Next]_vars => TypeOK'
  <1> SUFFICES ASSUME IInv, [Next]_vars PROVE TypeOK'
    OBVIOUS
  <1> USE DEF dbVars, worldVars
  <1>0. TypeOK /\ \A t \in Tasks : task[t].pc # "idle" => task[t].job \in Jobs
    BY DEF IInv, TaskKnows
  <1>1. ASSUME NEW t \in Tasks, ClaimRefund(t) PROVE TypeOK'
    <2>1. task[t].job \in PaidOrders
      BY <1>1 DEF ClaimRefund, IInv, TaskKnows
    <2>2. task' \in [Tasks -> Task]
      BY <1>0, <1>1, TaskMoves DEF ClaimRefund, Pc
    <2>3. row' \in [Jobs -> Row] /\ order' \in [PaidOrders -> OrderStatus]
      BY <1>0, <1>1, <2>1, RowFacts DEF ClaimRefund, TypeOK, OrderStatus
    <2>4. QED
      BY <1>0, <1>1, <2>2, <2>3 DEF ClaimRefund, TypeOK
  <1>2. ASSUME NEW t \in Tasks, ReadRow(t) \/ Recheck(t) \/ Answer(t) \/ ManualRead(t)
        PROVE  TypeOK'
    <2>1. task' \in [Tasks -> Task]
      BY <1>0, <1>2, TaskMoves DEF ReadRow, Recheck, Answer, ManualRead, Pc
    <2>2. QED
      BY <1>0, <1>2, <2>1 DEF ReadRow, Recheck, Answer, ManualRead, TypeOK
  <1>3. ASSUME NEW t \in Tasks, ClaimLease(t) PROVE TypeOK'
    <2>1. task[t].job \in Jobs
      BY <1>0, <1>3 DEF ClaimLease
    <2>2. task' \in [Tasks -> Task] /\ row' \in [Jobs -> Row]
      BY <1>0, <1>3, <2>1, TaskMoves, LeaseMoves DEF ClaimLease, TypeOK, Pc
    <2>3. wire' \subseteq [job : Jobs, token : Tokens]
      BY <1>0, <1>3, <2>1, Fresh DEF ClaimLease, Lease, TypeOK
    <2>4. QED
      BY <1>0, <1>3, <2>2, <2>3 DEF ClaimLease, TypeOK
  <1>4. ASSUME NEW t \in Tasks, RecordReturn(t) \/ RecordManual(t) PROVE TypeOK'
    <2>1. task' \in [Tasks -> Task]
      BY <1>0, <1>4, TaskMoves DEF RecordReturn, RecordManual, MarkCompleted
    <2>2. row' \in [Jobs -> Row]
      BY <1>0, <1>4, RowFacts DEF RecordReturn, RecordManual, MarkCompleted, TypeOK
    <2>3. QED
      BY <1>0, <1>4, <2>1, <2>2 DEF RecordReturn, RecordManual, MarkCompleted, TypeOK
  <1>5. ASSUME NEW t \in Tasks, MarkFailed(t) PROVE TypeOK'
    <2>1. task' \in [Tasks -> Task]
      BY <1>0, <1>5, TaskMoves DEF MarkFailed
    <2>2. QED
      BY <1>0, <1>5, <2>1, RowFacts DEF MarkFailed, TypeOK
  <1>6. ASSUME NEW t \in Tasks, ManualClaim(t) PROVE TypeOK'
    <2>1. task[t].job \in Jobs
      BY <1>0, <1>6 DEF ManualClaim
    <2>2. task' \in [Tasks -> Task] /\ row' \in [Jobs -> Row]
      BY <1>0, <1>6, <2>1, TaskMoves, LeaseMoves DEF ManualClaim, TypeOK, Pc
    <2>3. QED
      BY <1>0, <1>6, <2>2 DEF ManualClaim, TypeOK
  <1>7. ASSUME NEW t \in Tasks, Revoke(t) \/ CloseOrder(t) PROVE TypeOK'
    <2>1. task' \in [Tasks -> Task]
      BY <1>0, <1>7, TaskMoves DEF Revoke, CloseOrder, Pc
    <2>2. CASE Revoke(t)
      BY <1>0, <2>1, <2>2 DEF Revoke, TypeOK, Access
    <2>3. CASE CloseOrder(t)
      BY <1>0, <2>1, <2>3 DEF CloseOrder, TypeOK, OrderStatus
    <2>4. QED
      BY <1>7, <2>2, <2>3
  <1>8. ASSUME NEW t \in Tasks, RpcFails(t) PROVE TypeOK'
    <2>1. task' \in [Tasks -> Task]
      BY <1>0, <1>8, TaskMoves DEF RpcFails, Pc
    <2>2. wire' \subseteq wire
      BY <1>8 DEF RpcFails
    <2>3. faults' \in 0..MaxFaults
      BY <1>0, <1>8, RefundsAssumption DEF RpcFails, TypeOK
    <2>4. QED
      BY <1>0, <1>8, <2>1, <2>2, <2>3 DEF RpcFails, TypeOK
  <1>9. ASSUME NEW t \in Tasks, NEW o \in PaidOrders, RefundOrder(t, o) PROVE TypeOK'
    <2>1. task' \in [Tasks -> Task]
      BY <1>0, <1>9, TaskMoves DEF RefundOrder, Pc, Jobs, TypeOK
    <2>2. QED
      BY <1>0, <1>9, <2>1 DEF RefundOrder, TypeOK
  <1>10. ASSUME NEW t \in Tasks, NEW j \in Jobs,
                RefuseCharge(t, j) \/ RetryRefund(t, j) \/ ReturnByHand(t, j)
         PROVE  TypeOK'
    <2>1. task' \in [Tasks -> Task]
      BY <1>0, <1>10, TaskMoves
         DEF RefuseCharge, RetryRefund, ReturnByHand, Pc, OrderStatus
    <2>2. row' \in [Jobs -> Row] /\ byHand' \in [Jobs -> BOOLEAN]
      <3>1. CASE RefuseCharge(t, j)
        BY <1>0, <3>1, RowFacts DEF RefuseCharge, TypeOK
      <3>2. CASE RetryRefund(t, j) \/ ReturnByHand(t, j)
        BY <1>0, <3>2 DEF RetryRefund, ReturnByHand, TypeOK
      <3>3. QED
        BY <1>10, <3>1, <3>2
    <2>3. QED
      BY <1>0, <1>10, <2>1, <2>2
         DEF RefuseCharge, RetryRefund, ReturnByHand, TypeOK
  <1>11. ASSUME NEW o \in PaidOrders, ApplyPayment(o) PROVE TypeOK'
    BY <1>0, <1>11 DEF ApplyPayment, TypeOK, Access
  <1>12. ASSUME NEW q \in wire, Execute(q) PROVE TypeOK'
    BY <1>0, <1>12 DEF Execute, TypeOK
  <1>13. ASSUME NEW j \in Jobs, ExpireLease(j) PROVE TypeOK'
    <2>1. row' \in [Jobs -> Row]
      BY <1>0, <1>13, RowFacts DEF ExpireLease, TypeOK
    <2>2. faults' \in 0..MaxFaults
      BY <1>0, <1>13, RefundsAssumption DEF ExpireLease, TypeOK
    <2>3. QED
      BY <1>0, <1>13, <2>1, <2>2 DEF ExpireLease, TypeOK
  <1>14. ASSUME Restart PROVE TypeOK'
    BY <1>0, <1>14, IdleType, RefundsAssumption DEF Restart, TypeOK
  <1>15. ASSUME UNCHANGED vars PROVE TypeOK'
    BY <1>0, <1>15 DEF vars, TypeOK
  <1>16. Refused \subseteq Jobs
    BY DEF Jobs
  <1>17. QED
    BY <1>1, <1>2, <1>3, <1>4, <1>5, <1>6, <1>7, <1>8, <1>9, <1>10, <1>11,
       <1>12, <1>13, <1>14, <1>15, <1>16 DEF Next, Step

-----------------------------------------------------------------------------
(* What no step ever undoes *)

Monotone ==
    /\ \A j \in Jobs : row[j].status # "absent" => row'[j].status # "absent"
    /\ \A j \in Jobs : row[j].status = "completed" => row'[j] = row[j]
    /\ \A j \in Jobs : money[j] = "returned" => money'[j] = "returned"
    /\ \A j \in Jobs : byHand[j] => byHand'[j]
    /\ \A o \in PaidOrders : reversed[o] => reversed'[o]

\* A recorded obligation is never forgotten, a completed one never reopened,
\* and what happened in the world has happened.
LEMMA MonotoneStep == IInv /\ [Next]_vars => Monotone
  <1> SUFFICES ASSUME IInv, [Next]_vars PROVE Monotone
    OBVIOUS
  <1> USE DEF dbVars, worldVars
  <1>0. TypeOK /\ \A t \in Tasks : task[t].pc # "idle" => task[t].job \in Jobs
    BY DEF IInv, TaskKnows
  <1>1. ASSUME NEW t \in Tasks, ClaimRefund(t) PROVE Monotone
    BY <1>0, <1>1, RowFacts DEF ClaimRefund, Monotone, TypeOK, Jobs
  <1>2. ASSUME NEW t \in Tasks,
               \/ ReadRow(t) \/ Recheck(t) \/ Answer(t) \/ ManualRead(t)
               \/ CloseOrder(t) \/ RpcFails(t)
        PROVE  Monotone
    BY <1>0, <1>2
       DEF ReadRow, Recheck, Answer, ManualRead, CloseOrder, RpcFails, Monotone
  <1>3. ASSUME NEW t \in Tasks, ClaimLease(t) \/ ManualClaim(t) PROVE Monotone
    <2>1. task[t].job \in Jobs
      BY <1>0, <1>3 DEF ClaimLease, ManualClaim
    <2>2. UNCHANGED <<money, byHand, reversed>>
      BY <1>3 DEF ClaimLease, ManualClaim
    <2>3. CASE row' = row
      BY <2>2, <2>3 DEF Monotone
    <2>4. CASE row' # row
      <3>1. PICK pc \in Pc : Lease(t, pc)
        BY <1>3, <2>4 DEF ClaimLease, ManualClaim, Pc
      <3>2. QED
        BY <1>0, <2>1, <2>2, <3>1 DEF Lease, Claimable, Monotone, TypeOK
    <2>5. QED
      BY <2>3, <2>4
  <1>4. ASSUME NEW t \in Tasks, RecordReturn(t) \/ RecordManual(t) PROVE Monotone
    <2>1. PICK how \in {"telegram", "manual"} :
            \/ row' = row
            \/ /\ row[task[t].job].status = "processing"
               /\ row' = [row EXCEPT ![task[t].job] =
                            [NoRow EXCEPT !.status = "completed", !.resolution = how]]
      BY <1>4 DEF RecordReturn, RecordManual, MarkCompleted, OwnsLease
    <2>2. UNCHANGED <<money, byHand, reversed>>
      BY <1>4 DEF RecordReturn, RecordManual, MarkCompleted
    <2>3. QED
      BY <1>0, <2>1, <2>2, RowFacts DEF Monotone, TypeOK
  <1>5. ASSUME NEW t \in Tasks, MarkFailed(t) PROVE Monotone
    BY <1>0, <1>5, RowFacts DEF MarkFailed, OwnsLease, Monotone, TypeOK
  <1>6. ASSUME NEW t \in Tasks, Revoke(t) PROVE Monotone
    <2>1. UNCHANGED <<row, money, byHand>>
      BY <1>6 DEF Revoke
    <2>2. \A o \in PaidOrders : reversed[o] => reversed'[o]
      BY <1>0, <1>6 DEF Revoke, TypeOK
    <2>3. QED
      BY <2>1, <2>2 DEF Monotone
  <1>7. ASSUME NEW t \in Tasks, NEW o \in PaidOrders, RefundOrder(t, o) PROVE Monotone
    BY <1>7 DEF RefundOrder, Monotone
  <1>8. ASSUME NEW t \in Tasks, NEW j \in Jobs, RefuseCharge(t, j) PROVE Monotone
    BY <1>0, <1>8, RowFacts DEF RefuseCharge, Monotone, TypeOK
  <1>9. ASSUME NEW t \in Tasks, NEW j \in Jobs, RetryRefund(t, j) \/ ReturnByHand(t, j)
        PROVE  Monotone
    BY <1>0, <1>9 DEF RetryRefund, ReturnByHand, Monotone, TypeOK
  <1>10. ASSUME NEW o \in PaidOrders, ApplyPayment(o) PROVE Monotone
    BY <1>10 DEF ApplyPayment, Monotone
  <1>11. ASSUME NEW q \in wire, Execute(q) PROVE Monotone
    BY <1>0, <1>11 DEF Execute, Monotone, TypeOK
  <1>12. ASSUME NEW j \in Jobs, ExpireLease(j) PROVE Monotone
    BY <1>0, <1>12, RowFacts DEF ExpireLease, Monotone, TypeOK
  <1>13. ASSUME Restart \/ UNCHANGED vars PROVE Monotone
    BY <1>13 DEF Restart, vars, Monotone
  <1>14. Refused \subseteq Jobs
    BY DEF Jobs
  <1>15. QED
    BY <1>1, <1>2, <1>3, <1>4, <1>5, <1>6, <1>7, <1>8, <1>9, <1>10, <1>11,
       <1>12, <1>13, <1>14 DEF Next, Step

-----------------------------------------------------------------------------
(* Tokens *)

\* Everything but a lease leaves a task with the token it had, or with none.
KeepsToken(t) == task'[t].token \in {task[t].token, NoToken}
Alone(t) == \A u \in Tasks \ {t} : task'[u] = task[u]

LEMMA PlainMoves ==
    ASSUME TypeOK, NEW t \in Tasks,
           \/ \E pc \in Pc : Goto(t, pc)
           \/ Finish(t)
           \/ Returned(t)
           \/ \E pc \in Pc, j \in Jobs, seen \in OrderStatus : Begin(t, pc, j, seen)
    PROVE  Alone(t) /\ KeepsToken(t)
  <1>1. ASSUME NEW pc, Goto(t, pc) PROVE Alone(t) /\ KeepsToken(t)
    BY <1>1 DEF Goto, Alone, KeepsToken, TypeOK, Task
  <1>2. ASSUME Finish(t) PROVE Alone(t) /\ KeepsToken(t)
    BY <1>2, IdleType DEF Finish, Alone, KeepsToken, TypeOK
  <1>3. ASSUME Returned(t) PROVE Alone(t) /\ KeepsToken(t)
    BY <1>1, <1>2, <1>3 DEF Returned
  <1>4. ASSUME NEW pc, NEW j, NEW seen, Begin(t, pc, j, seen)
        PROVE Alone(t) /\ KeepsToken(t)
    BY <1>4 DEF Begin, Alone, KeepsToken, TypeOK, Idle
  <1>5. QED
    BY <1>1, <1>2, <1>3, <1>4

LEMMA TokensKept ==
    ASSUME TypeOK, TokensDistinct, NEW t \in Tasks, Alone(t), KeepsToken(t)
    PROVE  TokensDistinct'
  BY DEF TokensDistinct, Alone, KeepsToken

LEMMA LeaseTokens ==
    ASSUME TypeOK, TokensDistinct, NEW t \in Tasks, NEW pc \in Pc, Lease(t, pc)
    PROVE  /\ Alone(t) /\ TokensDistinct'
           /\ task'[t] = [task[t] EXCEPT !.token = FreshToken, !.pc = pc]
  <1>1. task'[t] = [task[t] EXCEPT !.token = FreshToken, !.pc = pc]
    BY DEF Lease, TypeOK
  <1>2. task'[t].token = FreshToken
    BY <1>1 DEF TypeOK, Task
  <1>3. \A u \in Tasks : task[u].token # FreshToken
    BY Fresh DEF Lease, UsedTokens
  <1>4. Alone(t)
    BY DEF Lease, Alone, TypeOK
  <1>5. TokensDistinct'
    BY <1>2, <1>3, <1>4 DEF TokensDistinct, Alone
  <1>6. QED
    BY <1>1, <1>4, <1>5

\* Who moves in a step: one task at most, except in a restart.
LEMMA WhoMoves ==
    ASSUME IInv, [Next]_vars
    PROVE  \/ \E t \in Tasks : Alone(t) /\ TokensDistinct'
           \/ Restart
           \/ UNCHANGED task
  <1> USE DEF dbVars, worldVars
  <1>0. TypeOK /\ TokensDistinct
    BY DEF IInv
  <1>1. ASSUME NEW t \in Tasks, Step(t) \/ RpcFails(t) PROVE Alone(t) /\ TokensDistinct'
    <2>1. CASE \E pc \in Pc : Lease(t, pc)
      BY <1>0, <2>1, LeaseTokens
    <2>2. CASE \/ \E pc \in Pc : Goto(t, pc)
               \/ Finish(t) \/ Returned(t)
      BY <1>0, <2>2, PlainMoves, TokensKept
    <2>3. QED
      BY <1>1, <2>1, <2>2
         DEF Step, ClaimRefund, ReadRow, ClaimLease, Recheck, Answer, RecordReturn,
             RecordManual, MarkCompleted, MarkFailed, ManualRead, ManualClaim,
             Revoke, CloseOrder, RpcFails, Pc
  <1>2. ASSUME NEW t \in Tasks, NEW j \in Jobs,
               RefuseCharge(t, j) \/ RetryRefund(t, j) \/ ReturnByHand(t, j)
        PROVE  Alone(t) /\ TokensDistinct'
    <2>1. \E pc \in Pc, k \in Jobs, seen \in OrderStatus : Begin(t, pc, k, seen)
      BY <1>2 DEF RefuseCharge, RetryRefund, ReturnByHand, Pc, OrderStatus
    <2>2. QED
      BY <1>0, <2>1, PlainMoves, TokensKept
  <1>3. ASSUME NEW t \in Tasks, NEW o \in PaidOrders, RefundOrder(t, o)
        PROVE  Alone(t) /\ TokensDistinct'
    <2>1. \E pc \in Pc, k \in Jobs, seen \in OrderStatus : Begin(t, pc, k, seen)
      BY <1>0, <1>3 DEF RefundOrder, Pc, TypeOK, Jobs
    <2>2. QED
      BY <1>0, <2>1, PlainMoves, TokensKept
  <1>4. Refused \subseteq Jobs
    BY DEF Jobs
  <1>5. QED
    BY <1>1, <1>2, <1>3, <1>4
       DEF Next, ApplyPayment, Execute, ExpireLease, vars

LEMMA TokensStep == IInv /\ [Next]_vars => TokensDistinct'
  BY WhoMoves, RefundsAssumption, IdleType DEF Restart, TokensDistinct, IInv

-----------------------------------------------------------------------------
(* What the tasks know *)

\* A task that does not move keeps what it knows: rows, money and revocations
\* only ever advance, and nobody else takes its request off the wire unless
\* Telegram carried it out.
LEMMA OthersKnow ==
    ASSUME IInv, Monotone, NEW u \in Tasks, task'[u] = task[u],
           task[u].pc = "rpc" /\ Request(u) \notin wire' => money'[task[u].job] = "returned"
    PROVE  TaskKnows(u)'
  <1>1. TaskKnows(u)
    BY DEF IInv
  <1>2. Request(u)' = Request(u)
    BY DEF Request
  <1>3. task[u].pc \in {"revoke", "close"} => row'[task[u].job].status = "completed"
    BY <1>1 DEF TaskKnows, Monotone, Jobs
  <1>4. QED
    BY <1>1, <1>2, <1>3 DEF TaskKnows, Monotone, Jobs

\* Nobody else's request leaves the wire unless it was carried out.
LEMMA WireKept ==
    ASSUME IInv, [Next]_vars, NEW u \in Tasks, task'[u] = task[u], task[u].pc = "rpc",
           Request(u) \notin wire'
    PROVE  money'[task[u].job] = "returned"
  <1> USE DEF dbVars, worldVars
  <1>0. TypeOK /\ TaskKnows(u)
    BY DEF IInv
  <1>1. task[u].job \in Jobs
    BY <1>0 DEF TaskKnows
  <1>2. Monotone
    BY MonotoneStep
  <1>3. CASE Request(u) \notin wire
    BY <1>0, <1>1, <1>2, <1>3 DEF TaskKnows, Monotone
  <1>4. CASE Request(u) \in wire
    <2>1. ASSUME NEW q \in wire, Execute(q) PROVE money'[task[u].job] = "returned"
      <3>1. Request(u) = q
        BY <1>4, <2>1 DEF Execute
      <3>2. q.job = task[u].job
        BY <3>1 DEF Request
      <3>3. QED
        BY <1>0, <1>1, <2>1, <3>2 DEF Execute, TypeOK
    <2>2. ASSUME NEW t \in Tasks, RpcFails(t) PROVE FALSE
      <3>1. t # u
        BY <1>0, <2>2 DEF RpcFails, Goto, TypeOK, Task
      <3>2. task[t].token # NoToken
        BY <2>2 DEF RpcFails, IInv, TaskKnows
      <3>3. task[t].token # task[u].token
        BY <3>1, <3>2 DEF IInv, TokensDistinct
      <3>4. Request(t) # Request(u)
        BY <3>3 DEF Request
      <3>5. QED
        BY <1>4, <2>2, <3>4 DEF RpcFails
    <2>3. ASSUME NEW t \in Tasks, Step(t) PROVE wire \subseteq wire'
      BY <2>3
         DEF Step, ClaimRefund, ReadRow, ClaimLease, Recheck, Answer, RecordReturn,
             RecordManual, MarkCompleted, MarkFailed, ManualRead, ManualClaim,
             Revoke, CloseOrder
    <2>4. QED
      BY <1>4, <2>1, <2>2, <2>3
         DEF Next, RefundOrder, RefuseCharge, RetryRefund, ReturnByHand,
             ApplyPayment, ExpireLease, Restart, vars
  <1>5. QED
    BY <1>3, <1>4

LEMMA IdleKnows ==
    ASSUME NEW t \in Tasks, task'[t] = Idle
    PROVE  TaskKnows(t)'
  BY DEF TaskKnows, Idle

\* A task that only changes its place keeps its job and what it saw.
LEMMA GotoFields ==
    ASSUME TypeOK, NEW t \in Tasks, NEW pc \in Pc, Goto(t, pc)
    PROVE  /\ task'[t].pc = pc
           /\ task'[t].job = task[t].job
           /\ task'[t].token = task[t].token
           /\ task'[t].seen = task[t].seen
  BY DEF Goto, TypeOK, Task

LEMMA BeginFields ==
    ASSUME TypeOK, NEW t \in Tasks, NEW pc \in Pc, NEW j \in Jobs,
           NEW seen \in OrderStatus, Begin(t, pc, j, seen)
    PROVE  task'[t].pc = pc /\ task'[t].job = j /\ task'[t].seen = seen
  BY DEF Begin, TypeOK, Idle

LEMMA FinishFields ==
    ASSUME TypeOK, NEW t \in Tasks, Finish(t)
    PROVE  task'[t] = Idle
  BY DEF Finish, TypeOK

\* After a confirmed return the row is completed, which is all that the closing
\* of the order relies on.
LEMMA ReturnedKnows ==
    ASSUME IInv, NEW t \in Tasks, task[t].job \in Jobs, Returned(t),
           row'[task[t].job].status = "completed"
    PROVE  TaskKnows(t)'
  <1>0. TypeOK
    BY DEF IInv
  <1>1. CASE task[t].job \in PaidOrders
    <2>1. Goto(t, "revoke")
      BY <1>1 DEF Returned
    <2>2. task'[t].pc = "revoke" /\ task'[t].job = task[t].job
      BY <1>0, <2>1, GotoFields DEF Pc
    <2>3. QED
      BY <1>1, <2>2 DEF TaskKnows
  <1>2. CASE task[t].job \notin PaidOrders
    BY <1>0, <1>2, FinishFields, IdleKnows DEF Returned
  <1>3. QED
    BY <1>1, <1>2

LEMMA MoverKnows ==
    ASSUME IInv, [Next]_vars, NEW t \in Tasks, Step(t) \/ RpcFails(t)
    PROVE  TaskKnows(t)'
  <1> USE DEF dbVars, worldVars
  <1>0. TypeOK /\ TaskKnows(t) /\ Monotone
    BY MonotoneStep DEF IInv
  <1>1. task[t].pc # "idle" => task[t].job \in Jobs
    BY <1>0 DEF TaskKnows
  <1>2. ASSUME ClaimRefund(t) PROVE TaskKnows(t)'
    <2>1. task[t].job \in PaidOrders
      BY <1>0, <1>2 DEF ClaimRefund, TaskKnows
    <2>2. CASE Finish(t)
      BY <1>0, <2>2, FinishFields, IdleKnows
    <2>3. CASE Goto(t, "process") /\ row'[task[t].job].status # "absent"
      <3>1. task'[t].pc = "process" /\ task'[t].job = task[t].job
        BY <1>0, <2>3, GotoFields DEF Pc
      <3>2. QED
        BY <2>1, <2>3, <3>1 DEF TaskKnows, Jobs
    <2>4. row'[task[t].job].status # "absent" \/ Finish(t)
      <3>1. CASE task[t].seen = "refund_pending"
        BY <1>0, <1>2, <3>1 DEF ClaimRefund, TaskKnows
      <3>2. CASE order[task[t].job] = "paid" /\ task[t].seen # "refund_pending"
        BY <1>0, <1>2, <2>1, <3>2, RowFacts DEF ClaimRefund, TypeOK, Jobs
      <3>3. QED
        BY <1>2, <3>1, <3>2 DEF ClaimRefund
    <2>5. QED
      BY <1>2, <2>2, <2>3, <2>4 DEF ClaimRefund
  <1>3. ASSUME ReadRow(t) \/ Recheck(t) \/ ManualRead(t) PROVE TaskKnows(t)'
    <2>1. task[t].job \in Jobs /\ row' = row
      BY <1>1, <1>3 DEF ReadRow, Recheck, ManualRead
    <2>2. CASE row[task[t].job].status = "completed"
      BY <1>3, <2>1, <2>2, ReturnedKnows DEF ReadRow, Recheck, ManualRead
    <2>3. CASE row[task[t].job].status # "completed"
      <3>1. CASE Finish(t)
        BY <1>0, <3>1, FinishFields, IdleKnows
      <3>2. CASE ReadRow(t) /\ Goto(t, "claim")
        <4>1. task'[t].pc = "claim" /\ task'[t].job = task[t].job
          BY <1>0, <3>2, GotoFields DEF Pc
        <4>2. QED
          BY <1>0, <2>1, <3>2, <4>1 DEF TaskKnows, ReadRow
      <3>3. CASE ManualRead(t) /\ Goto(t, "manual_claim")
        <4>1. task'[t].pc = "manual_claim" /\ task'[t].job = task[t].job
          BY <1>0, <3>3, GotoFields DEF Pc
        <4>2. QED
          BY <1>0, <2>1, <3>3, <4>1 DEF TaskKnows, ManualRead
      <3>4. QED
        BY <1>3, <2>3, <3>1, <3>2, <3>3 DEF ReadRow, Recheck, ManualRead
    <2>4. QED
      BY <2>2, <2>3
  <1>4. ASSUME ClaimLease(t) PROVE TaskKnows(t)'
    <2>1. task[t].job \in Jobs /\ row[task[t].job].status # "absent"
      BY <1>0, <1>1, <1>4 DEF ClaimLease, TaskKnows
    <2>2. row'[task[t].job].status # "absent"
      BY <1>0, <2>1 DEF Monotone
    <2>3. CASE Goto(t, "recheck")
      <3>1. task'[t].pc = "recheck" /\ task'[t].job = task[t].job
        BY <1>0, <2>3, GotoFields DEF Pc
      <3>2. QED
        BY <2>1, <2>2, <3>1 DEF TaskKnows
    <2>4. ASSUME NEW pc \in {"rpc", "fail"}, Lease(t, pc), pc = "rpc" => task[t].job \in Stars,
                 task[t].job \in Stars =>
                    wire' = wire \cup {[job |-> task[t].job, token |-> FreshToken]}
          PROVE  TaskKnows(t)'
      <3>1. task'[t] = [task[t] EXCEPT !.token = FreshToken, !.pc = pc]
        <4>1. task \in [Tasks -> Task]
          BY <1>0 DEF TypeOK
        <4>2. QED
          BY <2>4, <4>1 DEF Lease
      <3>2. /\ task'[t].pc = pc /\ task'[t].job = task[t].job
            /\ task'[t].token = FreshToken
        <4>1. task[t] \in Task
          BY <1>0 DEF TypeOK
        <4>2. QED
          BY <3>1, <4>1 DEF Task
      <3>3. FreshToken # NoToken
        BY <2>4, Fresh, RefundsAssumption DEF Lease
      <3>4. pc = "rpc" => Request(t)' \in wire'
        BY <2>4, <3>2 DEF Request
      <3>5. QED
        BY <2>1, <2>2, <2>4, <3>2, <3>3, <3>4 DEF TaskKnows
    <2>5. QED
      BY <1>4, <2>3, <2>4 DEF ClaimLease
  <1>5. ASSUME Answer(t) PROVE TaskKnows(t)'
    <2>1. task'[t].pc = "complete" /\ task'[t].job = task[t].job
      BY <1>0, <1>5, GotoFields DEF Answer, Pc
    <2>2. QED
      BY <1>0, <1>5, <2>1 DEF Answer, TaskKnows
  <1>6. ASSUME RpcFails(t) PROVE TaskKnows(t)'
    <2>1. task'[t].pc = "fail" /\ task'[t].job = task[t].job
      BY <1>0, <1>6, GotoFields DEF RpcFails, Pc
    <2>2. QED
      BY <1>0, <1>6, <2>1 DEF RpcFails, TaskKnows
  <1>7. ASSUME RecordReturn(t) \/ RecordManual(t) PROVE TaskKnows(t)'
    <2>1. task[t].job \in Jobs
      BY <1>1, <1>7 DEF RecordReturn, RecordManual, MarkCompleted
    <2>2. CASE OwnsLease(t)
      <3>1. row'[task[t].job].status = "completed" /\ Returned(t)
        <4>1. PICK how \in {"telegram", "manual"} :
                row' = [row EXCEPT ![task[t].job] =
                          [NoRow EXCEPT !.status = "completed", !.resolution = how]]
          BY <1>7, <2>2 DEF RecordReturn, RecordManual, MarkCompleted
        <4>2. Returned(t)
          BY <1>7, <2>2 DEF RecordReturn, RecordManual, MarkCompleted
        <4>3. row \in [Jobs -> Row]
          BY <1>0 DEF TypeOK
        <4>4. row'[task[t].job] = [NoRow EXCEPT !.status = "completed", !.resolution = how]
          BY <2>1, <4>1, <4>3
        <4>5. QED
          BY <4>2, <4>4, RowFacts
      <3>2. QED
        BY <2>1, <3>1, ReturnedKnows
    <2>3. CASE ~OwnsLease(t)
      BY <1>0, <1>7, <2>3, FinishFields, IdleKnows
         DEF RecordReturn, RecordManual, MarkCompleted
    <2>4. QED
      BY <2>2, <2>3
  <1>8. ASSUME MarkFailed(t) \/ CloseOrder(t) PROVE TaskKnows(t)'
    BY <1>0, <1>8, FinishFields, IdleKnows DEF MarkFailed, CloseOrder
  <1>9. ASSUME ManualClaim(t) PROVE TaskKnows(t)'
    <2>1. /\ task[t].job \in Jobs /\ row[task[t].job].status # "absent"
          /\ byHand[task[t].job] /\ byHand' = byHand
      BY <1>0, <1>1, <1>9 DEF ManualClaim, TaskKnows
    <2>2. row'[task[t].job].status # "absent"
      BY <1>0, <2>1 DEF Monotone
    <2>3. CASE Finish(t)
      BY <1>0, <2>3, FinishFields, IdleKnows
    <2>4. CASE Lease(t, "manual_mark")
      <3>1. task'[t] = [task[t] EXCEPT !.token = FreshToken, !.pc = "manual_mark"]
        BY <1>0, <2>4, LeaseTokens DEF IInv, Pc
      <3>2. task'[t].pc = "manual_mark" /\ task'[t].job = task[t].job
        BY <1>0, <3>1 DEF TypeOK, Task
      <3>3. QED
        BY <2>1, <2>2, <3>2 DEF TaskKnows
    <2>5. QED
      BY <1>9, <2>3, <2>4 DEF ManualClaim
  <1>10. ASSUME Revoke(t) PROVE TaskKnows(t)'
    <2>1. task'[t].pc = "close" /\ task'[t].job = task[t].job
      BY <1>0, <1>10, GotoFields DEF Revoke, Pc
    <2>2. task[t].job \in PaidOrders /\ row[task[t].job].status = "completed"
      BY <1>0, <1>10 DEF Revoke, TaskKnows
    <2>3. reversed'[task[t].job]
      BY <1>0, <1>10, <2>2 DEF Revoke, TypeOK
    <2>4. QED
      BY <1>10, <2>1, <2>2, <2>3 DEF Revoke, TaskKnows, Jobs
  <1>11. QED
    BY <1>2, <1>3, <1>4, <1>5, <1>6, <1>7, <1>8, <1>9, <1>10 DEF Step

LEMMA StarterKnows ==
    ASSUME IInv, [Next]_vars, NEW t \in Tasks,
           \/ \E o \in PaidOrders : RefundOrder(t, o)
           \/ \E j \in Refused : RefuseCharge(t, j)
           \/ \E j \in Jobs : RetryRefund(t, j) \/ ReturnByHand(t, j)
    PROVE  Alone(t) /\ TaskKnows(t)'
  <1> USE DEF dbVars, worldVars
  <1>0. TypeOK
    BY DEF IInv
  <1>1. ASSUME NEW o \in PaidOrders, RefundOrder(t, o) PROVE Alone(t) /\ TaskKnows(t)'
    <2>1. o \in Jobs /\ order[o] \in OrderStatus /\ Begin(t, "refund_tx", o, order[o])
      BY <1>0, <1>1 DEF RefundOrder, Jobs, TypeOK
    <2>2. /\ task'[t].pc = "refund_tx" /\ task'[t].job = o /\ task'[t].seen = order[o]
          /\ Alone(t)
      BY <1>0, <2>1, BeginFields, PlainMoves DEF Pc
    <2>3. order[o] = "refund_pending" => row'[o].status # "absent"
      BY <1>1 DEF RefundOrder, IInv, OrderInv
    <2>4. QED
      BY <2>2, <2>3 DEF TaskKnows, Jobs
  <1>2. ASSUME NEW j \in Jobs, RefuseCharge(t, j) PROVE Alone(t) /\ TaskKnows(t)'
    <2>1. "paid" \in OrderStatus /\ Begin(t, "process", j, "paid")
      BY <1>2 DEF RefuseCharge, OrderStatus
    <2>2. task'[t].pc = "process" /\ task'[t].job = j /\ Alone(t)
      BY <1>0, <2>1, BeginFields, PlainMoves DEF Pc
    <2>3. row'[j].status # "absent"
      BY <1>0, <1>2, RowFacts DEF RefuseCharge, TypeOK
    <2>4. QED
      BY <2>2, <2>3 DEF TaskKnows
  <1>3. ASSUME NEW j \in Jobs, RetryRefund(t, j) PROVE Alone(t) /\ TaskKnows(t)'
    <2>1. "paid" \in OrderStatus /\ Begin(t, "process", j, "paid")
      BY <1>3 DEF RetryRefund, OrderStatus
    <2>2. task'[t].pc = "process" /\ task'[t].job = j /\ Alone(t)
      BY <1>0, <2>1, BeginFields, PlainMoves DEF Pc
    <2>3. QED
      BY <1>3, <2>2 DEF TaskKnows, RetryRefund
  <1>4. ASSUME NEW j \in Jobs, ReturnByHand(t, j) PROVE Alone(t) /\ TaskKnows(t)'
    <2>1. "paid" \in OrderStatus /\ Begin(t, "manual_read", j, "paid")
      BY <1>4 DEF ReturnByHand, OrderStatus
    <2>2. task'[t].pc = "manual_read" /\ task'[t].job = j /\ Alone(t)
      BY <1>0, <2>1, BeginFields, PlainMoves DEF Pc
    <2>3. byHand'[j]
      BY <1>0, <1>4 DEF ReturnByHand, TypeOK
    <2>4. QED
      BY <1>4, <2>2, <2>3 DEF TaskKnows, ReturnByHand
  <1>5. QED
    BY <1>1, <1>2, <1>3, <1>4 DEF Jobs

LEMMA KnowsStep == IInv /\ [Next]_vars => \A u \in Tasks : TaskKnows(u)'
  <1> SUFFICES ASSUME IInv, [Next]_vars, NEW u \in Tasks PROVE TaskKnows(u)'
    OBVIOUS
  <1>1. ASSUME task'[u] = task[u] PROVE TaskKnows(u)'
    BY <1>1, OthersKnow, WireKept, MonotoneStep
  <1>2. ASSUME NEW t \in Tasks, Alone(t), TaskKnows(t)' PROVE TaskKnows(u)'
    BY <1>1, <1>2 DEF Alone
  <1>3. ASSUME NEW t \in Tasks, Step(t) \/ RpcFails(t) PROVE TaskKnows(u)'
    <2>1. TaskKnows(t)'
      BY <1>3, MoverKnows
    <2>2. Alone(t)
      <3>1. TypeOK /\ TokensDistinct
        BY DEF IInv
      <3>2. CASE \E pc \in Pc : Lease(t, pc)
        BY <3>1, <3>2, LeaseTokens
      <3>3. CASE \/ \E pc \in Pc : Goto(t, pc)
                 \/ Finish(t) \/ Returned(t)
        BY <3>1, <3>3, PlainMoves
      <3>4. QED
        BY <1>3, <3>2, <3>3
           DEF Step, ClaimRefund, ReadRow, ClaimLease, Recheck, Answer, RecordReturn,
               RecordManual, MarkCompleted, MarkFailed, ManualRead, ManualClaim,
               Revoke, CloseOrder, RpcFails, Pc
    <2>3. QED
      BY <1>2, <2>1, <2>2
  <1>4. ASSUME NEW t \in Tasks,
               \/ \E o \in PaidOrders : RefundOrder(t, o)
               \/ \E j \in Refused : RefuseCharge(t, j)
               \/ \E j \in Jobs : RetryRefund(t, j) \/ ReturnByHand(t, j)
        PROVE  TaskKnows(u)'
    BY <1>2, <1>4, StarterKnows
  <1>5. ASSUME Restart PROVE TaskKnows(u)'
    <2>1. task'[u] = Idle
      BY <1>5 DEF Restart
    <2>2. QED
      BY <2>1, IdleKnows
  <1>6. QED
    BY <1>1, <1>3, <1>4, <1>5 DEF Next, ApplyPayment, Execute, ExpireLease, vars

-----------------------------------------------------------------------------
(* Money, completion, orders *)

LEMMA MoneyStep == IInv /\ [Next]_vars => MoneyRecorded'
  <1> SUFFICES ASSUME IInv, [Next]_vars PROVE MoneyRecorded'
    OBVIOUS
  <1> USE DEF dbVars, worldVars
  <1>0. TypeOK /\ MoneyRecorded /\ Monotone
    BY MonotoneStep DEF IInv
  <1>1. ASSUME NEW q \in wire, Execute(q) PROVE MoneyRecorded'
    BY <1>0, <1>1 DEF Execute, MoneyRecorded, TypeOK
  <1>2. ASSUME NEW t \in Tasks, ClaimLease(t) PROVE MoneyRecorded'
    <2>1. task[t].job \in Jobs /\ row[task[t].job].status # "absent"
      BY <1>2 DEF ClaimLease, IInv, TaskKnows
    <2>2. \A q \in wire' : q \in wire \/ q.job = task[t].job
      BY <1>2 DEF ClaimLease
    <2>3. QED
      BY <1>0, <1>2, <2>1, <2>2 DEF ClaimLease, MoneyRecorded, Monotone, TypeOK
  <1>3. ASSUME wire' \subseteq wire, money' = money PROVE MoneyRecorded'
    BY <1>0, <1>3 DEF MoneyRecorded, Monotone, TypeOK
  <1>4. QED
    BY <1>1, <1>2, <1>3
       DEF Next, Step, ClaimRefund, ReadRow, Recheck, Answer, RecordReturn,
           RecordManual, MarkCompleted, MarkFailed, ManualRead, ManualClaim, Revoke,
           CloseOrder, RpcFails, RefundOrder, RefuseCharge, RetryRefund, ReturnByHand,
           ApplyPayment, ExpireLease, Restart, vars

\* The only steps that complete a row are the two recordings.
LEMMA BackedStep == IInv /\ [Next]_vars => CompletionIsBacked'
  <1> SUFFICES ASSUME IInv, [Next]_vars, NEW j \in Jobs, row'[j].status = "completed"
               PROVE  \/ row'[j].resolution = "telegram" /\ money'[j] = "returned"
                      \/ row'[j].resolution = "manual" /\ byHand'[j]
    BY DEF CompletionIsBacked
  <1> USE DEF dbVars, worldVars
  <1>0. TypeOK /\ CompletionIsBacked /\ Monotone
    BY MonotoneStep DEF IInv
  <1>1. CASE row[j].status = "completed"
    BY <1>0, <1>1 DEF CompletionIsBacked, Monotone
  <1>2. CASE row[j].status # "completed"
    <2>1. ASSUME NEW t \in Tasks, RecordReturn(t) \/ RecordManual(t)
          PROVE  \/ row'[j].resolution = "telegram" /\ money'[j] = "returned"
                 \/ row'[j].resolution = "manual" /\ byHand'[j]
      <3>1. TaskKnows(t) /\ task[t].job = j /\ task[t].job \in Jobs
        BY <1>0, <1>2, <2>1
           DEF RecordReturn, RecordManual, MarkCompleted, IInv, TaskKnows, TypeOK
      <3>0. ASSUME NEW from, NEW how \in {"telegram", "manual"}, MarkCompleted(t, from, how)
            PROVE  /\ row'[j].resolution = how
                   /\ money' = money /\ byHand' = byHand
        <4> DEFINE done == [NoRow EXCEPT !.status = "completed", !.resolution = how]
        <4>1. done.resolution = how
          BY RowFacts
        <4>2. row'[j] = row[j] \/ row' = [row EXCEPT ![j] = done]
          BY <3>0, <3>1 DEF MarkCompleted
        <4>3. row' = [row EXCEPT ![j] = done]
          BY <1>2, <4>2
        <4> HIDE DEF done
        <4>4. row'[j] = done
          BY <1>0, <4>3 DEF TypeOK
        <4> QED
          BY <3>0, <4>1, <4>4 DEF MarkCompleted
      <3>2. CASE RecordReturn(t)
        BY <3>0, <3>1, <3>2 DEF RecordReturn, MarkCompleted, TaskKnows
      <3>3. CASE RecordManual(t)
        BY <3>0, <3>1, <3>3 DEF RecordManual, MarkCompleted, TaskKnows
      <3>4. QED
        BY <2>1, <3>2, <3>3
    <2>2. ASSUME NEW t \in Tasks, ClaimLease(t) \/ ManualClaim(t) PROVE FALSE
      BY <1>0, <1>2, <2>2 DEF ClaimLease, ManualClaim, Lease, TypeOK
    <2>3. ASSUME NEW t \in Tasks, MarkFailed(t) \/ ClaimRefund(t) PROVE FALSE
      BY <1>0, <1>2, <2>3, RowFacts DEF MarkFailed, ClaimRefund, TypeOK
    <2>4. ASSUME NEW t \in Tasks, NEW k \in Jobs, RefuseCharge(t, k) PROVE FALSE
      BY <1>0, <1>2, <2>4, RowFacts DEF RefuseCharge, TypeOK
    <2>5. ASSUME NEW k \in Jobs, ExpireLease(k) PROVE FALSE
      BY <1>0, <1>2, <2>5, RowFacts DEF ExpireLease, TypeOK
    <2>6. CASE row' = row
      BY <1>2, <2>6
    <2>7. Refused \subseteq Jobs
      BY DEF Jobs
    <2>8. QED
      BY <2>1, <2>2, <2>3, <2>4, <2>5, <2>6, <2>7
         DEF Next, Step, ReadRow, Recheck, Answer, ManualRead, Revoke, CloseOrder,
             RpcFails, RefundOrder, RetryRefund, ReturnByHand, ApplyPayment, Execute,
             Restart, vars
  <1>3. QED
    BY <1>1, <1>2

LEMMA OrderStep == IInv /\ [Next]_vars => \A o \in PaidOrders : OrderInv(o)'
  <1> SUFFICES ASSUME IInv, [Next]_vars, NEW o \in PaidOrders PROVE OrderInv(o)'
    OBVIOUS
  <1> USE DEF dbVars, worldVars
  <1>0. TypeOK /\ OrderInv(o) /\ Monotone /\ o \in Jobs
    BY MonotoneStep DEF IInv, Jobs
  <1>1. ASSUME UNCHANGED <<order, access, reversed>>,
               row'[o].status = "absent" <=> row[o].status = "absent"
        PROVE  OrderInv(o)'
    BY <1>0, <1>1 DEF OrderInv, Monotone
  <1>2. ASSUME NEW t \in Tasks, ClaimRefund(t) PROVE OrderInv(o)'
    <2>1. task[t].job \in PaidOrders
      BY <1>2 DEF ClaimRefund, IInv, TaskKnows
    <2>2. CASE UNCHANGED <<order, row>>
      BY <1>1, <1>2, <2>2 DEF ClaimRefund
    <2>3. CASE /\ order[task[t].job] = "paid"
               /\ order' = [order EXCEPT ![task[t].job] = "refund_pending"]
               /\ row' = [row EXCEPT ![task[t].job] = IF @ = NoRow THEN PendingRow ELSE @]
      <3>1. CASE task[t].job = o
        <4>1. order'[o] = "refund_pending"
          BY <1>0, <2>1, <2>3, <3>1 DEF TypeOK
        <4>2. row[o] = NoRow /\ row'[o] = PendingRow
          BY <1>0, <2>1, <2>3, <3>1, RowFacts DEF OrderInv, TypeOK
        <4>3. UNCHANGED <<access, reversed>>
          BY <1>2 DEF ClaimRefund
        <4>4. QED
          BY <1>0, <4>1, <4>2, <4>3, RowFacts DEF OrderInv
      <3>2. CASE task[t].job # o
        <4>1. order'[o] = order[o] /\ row'[o] = row[o]
          BY <1>0, <2>1, <2>3, <3>2 DEF TypeOK
        <4>2. UNCHANGED <<access, reversed>>
          BY <1>2 DEF ClaimRefund
        <4>3. QED
          BY <1>0, <4>1, <4>2 DEF OrderInv
      <3>3. QED
        BY <3>1, <3>2
    <2>4. QED
      BY <1>2, <2>2, <2>3 DEF ClaimRefund
  <1>3. ASSUME NEW t \in Tasks, ClaimLease(t) \/ ManualClaim(t) PROVE OrderInv(o)'
    <2>1. row'[o].status = "absent" <=> row[o].status = "absent"
      BY <1>0, <1>3 DEF ClaimLease, ManualClaim, Lease, Claimable, TypeOK
    <2>2. QED
      BY <1>1, <1>3, <2>1 DEF ClaimLease, ManualClaim
  <1>4. ASSUME NEW t \in Tasks, RecordReturn(t) \/ RecordManual(t) \/ MarkFailed(t)
        PROVE  OrderInv(o)'
    <2>1. row'[o].status = "absent" <=> row[o].status = "absent"
      <3>1. PICK r \in Row :
              /\ r.status # "absent"
              /\ \/ row' = row
                 \/ /\ row[task[t].job].status = "processing"
                    /\ row' = [row EXCEPT ![task[t].job] = r]
        BY <1>4, RowFacts
           DEF RecordReturn, RecordManual, MarkCompleted, MarkFailed, OwnsLease
      <3>2. QED
        BY <1>0, <3>1 DEF TypeOK
    <2>2. QED
      BY <1>1, <1>4, <2>1 DEF RecordReturn, RecordManual, MarkCompleted, MarkFailed
  <1>5. ASSUME NEW t \in Tasks, Revoke(t) PROVE OrderInv(o)'
    <2>1. /\ task[t].job \in PaidOrders /\ row[task[t].job].status = "completed"
          /\ UNCHANGED <<order, row>>
      BY <1>5 DEF Revoke, IInv, TaskKnows
    <2>2. reversed'[o] = (reversed[o] \/ task[t].job = o)
      BY <1>0, <1>5, <2>1 DEF Revoke, TypeOK
    <2>3. CASE task[t].job = o
      <3>1. access'[o] # "granted"
        BY <1>0, <1>5, <2>1, <2>3 DEF Revoke, OrderInv, TypeOK
      <3>2. QED
        BY <1>0, <2>1, <2>2, <2>3, <3>1 DEF OrderInv
    <2>4. CASE task[t].job # o
      <3>1. access'[o] = access[o]
        BY <1>0, <1>5, <2>4 DEF Revoke, TypeOK
      <3>2. QED
        BY <1>0, <2>1, <2>2, <2>4, <3>1 DEF OrderInv
    <2>5. QED
      BY <2>3, <2>4
  <1>6. ASSUME NEW t \in Tasks, CloseOrder(t) PROVE OrderInv(o)'
    <2>1. /\ task[t].job \in PaidOrders /\ reversed[task[t].job]
          /\ UNCHANGED <<access, reversed, row>>
      BY <1>6 DEF CloseOrder, IInv, TaskKnows
    <2>2. \/ order'[o] = order[o]
          \/ order[o] = "refund_pending" /\ order'[o] = "refunded" /\ task[t].job = o
      BY <1>0, <1>6, <2>1 DEF CloseOrder, TypeOK
    <2>3. QED
      BY <1>0, <2>1, <2>2 DEF OrderInv
  <1>7. ASSUME NEW t \in Tasks, NEW j \in Refused, RefuseCharge(t, j) PROVE OrderInv(o)'
    <2>1. j # o /\ j \in Jobs
      BY RefundsAssumption DEF Jobs
    <2>2. row'[o] = row[o]
      BY <1>0, <1>7, <2>1 DEF RefuseCharge, TypeOK
    <2>3. QED
      BY <1>1, <1>7, <2>2 DEF RefuseCharge
  <1>8. ASSUME NEW p \in PaidOrders, ApplyPayment(p) PROVE OrderInv(o)'
    <2>1. \/ access'[o] = access[o]
          \/ access'[o] = "granted" /\ ~reversed[o]
      BY <1>0, <1>8 DEF ApplyPayment, TypeOK
    <2>2. QED
      BY <1>0, <1>8, <2>1 DEF ApplyPayment, OrderInv
  <1>9. ASSUME NEW j \in Jobs, ExpireLease(j) PROVE OrderInv(o)'
    <2>1. row'[o].status = "absent" <=> row[o].status = "absent"
      BY <1>0, <1>9, RowFacts DEF ExpireLease, TypeOK
    <2>2. QED
      BY <1>1, <1>9, <2>1 DEF ExpireLease
  <1>10. CASE UNCHANGED dbVars
    BY <1>1, <1>10
  <1>11. QED
    BY <1>2, <1>3, <1>4, <1>5, <1>6, <1>7, <1>8, <1>9, <1>10
       DEF Next, Step, ReadRow, Recheck, Answer, ManualRead, RpcFails, RefundOrder,
           RetryRefund, ReturnByHand, Execute, Restart, vars

LEMMA InvInit == Init => IInv
  <1> SUFFICES ASSUME Init PROVE IInv
    OBVIOUS
  <1>1. TypeOK
    BY TypeInit
  <1>2. \A t \in Tasks : task[t] = Idle
    BY DEF Init
  <1>3. TokensDistinct /\ \A t \in Tasks : TaskKnows(t)
    BY <1>2 DEF TokensDistinct, TaskKnows, Idle
  <1>4. MoneyRecorded /\ CompletionIsBacked /\ \A o \in PaidOrders : OrderInv(o)
    BY RowFacts DEF Init, MoneyRecorded, CompletionIsBacked, OrderInv, Jobs
  <1>5. QED
    BY <1>1, <1>3, <1>4 DEF IInv

\* The inductive invariant holds in every reachable state.
THEOREM Invariance == Spec => []IInv
  <1>1. IInv /\ [Next]_vars => IInv'
    BY TypeStep, TokensStep, KnowsStep, MoneyStep, BackedStep, OrderStep DEF IInv
  <1>2. QED
    BY InvInit, <1>1, PTL DEF Spec

-----------------------------------------------------------------------------
(* The properties of Refunds *)

\* Every column of every row, order and task has a value the schema allows; a
\* lease exists exactly while a row is being processed.
THEOREM TypeCorrect == Spec => []TypeOK
  <1>1. IInv => TypeOK
    BY DEF IInv
  <1>2. QED
    BY Invariance, <1>1, PTL

\* A completed refund is backed by money that really went back.
THEOREM CompletionBacked == Spec => []CompletionIsBacked
  <1>1. IInv => CompletionIsBacked
    BY DEF IInv
  <1>2. QED
    BY Invariance, <1>1, PTL

\* At most one task owns the lease of a job.
THEOREM LeaseIsExclusive == Spec => []OneOwner
  <1>1. IInv => OneOwner
    <2> SUFFICES ASSUME IInv, NEW t \in Tasks, NEW u \in Tasks,
                        task[t].job # NoJob, task[t].job = task[u].job,
                        OwnsLease(t), OwnsLease(u)
                 PROVE  t = u
      BY DEF OneOwner
    <2>1. task[t].job \in Jobs
      BY DEF IInv, TypeOK, Task
    <2>2. row[task[t].job] \in Row /\ row[task[t].job].status = "processing"
      BY <2>1 DEF IInv, TypeOK, OwnsLease
    <2>3. task[t].token \in Tokens /\ task[u].token = task[t].token
      BY <2>2, RowFacts DEF OwnsLease
    <2>4. QED
      BY <2>3, RefundsAssumption DEF IInv, TokensDistinct
  <1>2. QED
    BY Invariance, <1>1, PTL

\* Access and revenue stay as they are until the return is confirmed.
THEOREM AccessKept == Spec => []AccessKeptUntilReturned
  <1>1. IInv => AccessKeptUntilReturned
    BY DEF IInv, OrderInv, AccessKeptUntilReturned
  <1>2. QED
    BY Invariance, <1>1, PTL

\* A refunded order leaves no access behind.
THEOREM NoAccessLeft == Spec => []RefundedOrderHasNoAccess
  <1>1. IInv => RefundedOrderHasNoAccess
    BY DEF IInv, OrderInv, RefundedOrderHasNoAccess
  <1>2. QED
    BY Invariance, <1>1, PTL

\* Access goes with the money, neither before it nor after.
THEOREM AccessFollows == Spec => []AccessFollowsMoney
  BY AccessKept, NoAccessLeft, PTL DEF AccessFollowsMoney

\* Returned money stays in the staff queue until its order is closed.
THEOREM MoneyTraceable == Spec => []ReturnedMoneyIsTraceable
  <1>1. IInv => ReturnedMoneyIsTraceable
    <2> SUFFICES ASSUME IInv, NEW j \in Jobs, money[j] = "returned", j \notin Unresolved
                 PROVE  /\ row[j].status = "completed"
                        /\ j \in PaidOrders => order[j] = "refunded"
      BY DEF ReturnedMoneyIsTraceable
    <2>1. row[j].status \in {"absent", "pending", "processing", "completed"}
      BY RowFacts DEF IInv, TypeOK
    <2>2. row[j].status = "completed"
      BY <2>1 DEF IInv, MoneyRecorded, Unresolved
    <2>3. j \in PaidOrders => order[j] = "refunded"
      BY <2>2 DEF IInv, TypeOK, OrderInv, OrderStatus, Unresolved
    <2>4. QED
      BY <2>2, <2>3
  <1>2. QED
    BY Invariance, <1>1, PTL

\* A completed refund is never reopened or rewritten.
THEOREM CompletedStays == Spec => CompletedIsFinal
  <1>1. IInv /\ [Next]_vars =>
          [\A j \in Jobs : row[j].status = "completed" => row'[j] = row[j]]_vars
    BY MonotoneStep DEF Monotone
  <1>2. QED
    BY Invariance, <1>1, PTL DEF Spec, CompletedIsFinal

-----------------------------------------------------------------------------
(***************************************************************************)
(* The refinement: every step of the lease protocol is one step of         *)
(* RefundPromise or changes nothing it speaks of.                          *)
(***************************************************************************)

Stages == [j \in Jobs |-> StageOf(j)]
Given == {j \in Jobs : money[j] = "returned" \/ byHand[j]}
Entitled == {o \in PaidOrders : access[o] = "granted"}

\* The stage of a job is a function of its row's status and its order's end.
LEMMA StageSame ==
    ASSUME NEW j \in Jobs, row'[j].status = row[j].status,
           j \in PaidOrders => order'[j] = order[j] /\ reversed'[j] = reversed[j]
    PROVE  StageOf(j)' = StageOf(j)
  BY DEF StageOf

\* The stage of a row that is still being worked on is "owed".
LEMMA StageOwed ==
    ASSUME NEW j \in Jobs, row[j].status \in {"pending", "processing"}
    PROVE  StageOf(j) = "owed"
  BY DEF StageOf

LEMMA StageOwedNext ==
    ASSUME NEW j \in Jobs, row'[j].status \in {"pending", "processing"}
    PROVE  StageOf(j)' = "owed"
  BY DEF StageOf

LEMMA StageNone ==
    ASSUME NEW j \in Jobs
    PROVE  StageOf(j) = "none" <=> row[j].status = "absent"
  BY DEF StageOf

\* A step that moves one job changes the mapped function at that job only.
LEMMA StagesMove ==
    ASSUME NEW j \in Jobs, \A k \in Jobs \ {j} : StageOf(k)' = StageOf(k)
    PROVE  Stages' = [Stages EXCEPT ![j] = StageOf(j)']
  BY DEF Stages

LEMMA StagesSame ==
    ASSUME \A k \in Jobs : StageOf(k)' = StageOf(k)
    PROVE  Stages' = Stages
  BY DEF Stages

LEMMA GivenSame == UNCHANGED <<money, byHand>> => Given' = Given
  BY DEF Given

LEMMA EntitledSame == UNCHANGED access => Entitled' = Entitled
  BY DEF Entitled

\* The steps of the promise, written with the mapped variables.
LEMMA PromiseSteps ==
    /\ Promise!PromiseInit <=>
         Stages = [j \in Jobs |-> "none"] /\ Given = {} /\ Entitled = {}
    /\ \A j \in Jobs :
         /\ /\ Stages[j] = "none" /\ Entitled' = Entitled \cup {j}
            /\ Stages' = Stages /\ Given' = Given
            => Promise!PromiseNext
         /\ /\ Stages[j] = "none" /\ Stages' = [Stages EXCEPT ![j] = "owed"]
            /\ Given' = Given /\ Entitled' = Entitled
            => Promise!PromiseNext
         /\ /\ Stages[j] # "none" /\ Given' = Given \cup {j}
            /\ Stages' = Stages /\ Entitled' = Entitled
            => Promise!PromiseNext
         /\ /\ j \in Given /\ Stages[j] = "owed"
            /\ Stages' = [Stages EXCEPT ![j] = "confirmed"]
            /\ Given' = Given /\ Entitled' = Entitled
            => Promise!PromiseNext
         /\ /\ Stages[j] = "confirmed" /\ Stages' = [Stages EXCEPT ![j] = "withdrawn"]
            /\ Entitled' = Entitled \ {j} /\ Given' = Given
            => Promise!PromiseNext
         /\ /\ Stages[j] = "withdrawn" /\ Stages' = [Stages EXCEPT ![j] = "closed"]
            /\ Given' = Given /\ Entitled' = Entitled
            => Promise!PromiseNext
    /\ Stages' = Stages /\ Given' = Given /\ Entitled' = Entitled
         => UNCHANGED Promise!promiseVars
  <1> USE DEF Stages, Given, Entitled
  <1>1. Promise!PromiseInit <=>
          Stages = [j \in Jobs |-> "none"] /\ Given = {} /\ Entitled = {}
    BY DEF Promise!PromiseInit
  <1>2. ASSUME NEW j \in Jobs, Stages[j] = "none", Entitled' = Entitled \cup {j},
               Stages' = Stages, Given' = Given
        PROVE  Promise!PromiseNext
    BY <1>2 DEF Promise!PromiseNext, Promise!Grant
  <1>3. ASSUME NEW j \in Jobs, Stages[j] = "none",
               Stages' = [Stages EXCEPT ![j] = "owed"],
               Given' = Given, Entitled' = Entitled
        PROVE  Promise!PromiseNext
    BY <1>3 DEF Promise!PromiseNext, Promise!Oblige, Promise!Advance
  <1>4. ASSUME NEW j \in Jobs, Stages[j] # "none", Given' = Given \cup {j},
               Stages' = Stages, Entitled' = Entitled
        PROVE  Promise!PromiseNext
    BY <1>4 DEF Promise!PromiseNext, Promise!GiveBack
  <1>5. ASSUME NEW j \in Jobs, j \in Given, Stages[j] = "owed",
               Stages' = [Stages EXCEPT ![j] = "confirmed"],
               Given' = Given, Entitled' = Entitled
        PROVE  Promise!PromiseNext
    BY <1>5 DEF Promise!PromiseNext, Promise!Confirm, Promise!Advance
  <1>6. ASSUME NEW j \in Jobs, Stages[j] = "confirmed",
               Stages' = [Stages EXCEPT ![j] = "withdrawn"],
               Entitled' = Entitled \ {j}, Given' = Given
        PROVE  Promise!PromiseNext
    BY <1>6 DEF Promise!PromiseNext, Promise!Withdraw, Promise!Advance
  <1>7. ASSUME NEW j \in Jobs, Stages[j] = "withdrawn",
               Stages' = [Stages EXCEPT ![j] = "closed"],
               Given' = Given, Entitled' = Entitled
        PROVE  Promise!PromiseNext
    BY <1>7 DEF Promise!PromiseNext, Promise!Close, Promise!Advance
  <1>8. ASSUME Stages' = Stages, Given' = Given, Entitled' = Entitled
        PROVE  UNCHANGED Promise!promiseVars
    BY <1>8 DEF Promise!promiseVars
  <1>9. QED
    BY <1>1, <1>2, <1>3, <1>4, <1>5, <1>6, <1>7, <1>8

PromiseStep == Promise!PromiseNext \/ UNCHANGED Promise!promiseVars

\* Work on a row that stays unfinished, and everything that touches neither a
\* status nor an order, is invisible to the promise.
LEMMA Invisible ==
    ASSUME IInv, IInv', UNCHANGED <<order, access, reversed, money, byHand>>,
           \A j \in Jobs :
             \/ row'[j].status = row[j].status
             \/ /\ row[j].status \in {"pending", "processing"}
                /\ row'[j].status \in {"pending", "processing"}
    PROVE  PromiseStep
  <1>1. ASSUME NEW j \in Jobs PROVE StageOf(j)' = StageOf(j)
    <2>1. CASE row'[j].status = row[j].status
      BY <2>1, StageSame
    <2>2. CASE /\ row[j].status \in {"pending", "processing"}
               /\ row'[j].status \in {"pending", "processing"}
      BY <2>2, StageOwed, StageOwedNext
    <2>3. QED
      BY <2>1, <2>2
  <1>2. Stages' = Stages /\ Given' = Given /\ Entitled' = Entitled
    BY <1>1, StagesSame, GivenSame, EntitledSame
  <1>3. QED
    BY <1>2, PromiseSteps DEF PromiseStep

\* A new row is a new obligation.
LEMMA NewRow ==
    ASSUME IInv, IInv', NEW j \in Jobs, UNCHANGED <<access, reversed, money, byHand>>,
           row[j] = NoRow, row' = [row EXCEPT ![j] = PendingRow],
           \A o \in PaidOrders \ {j} : order'[o] = order[o]
    PROVE  PromiseStep
  <1>1. row[j].status = "absent" /\ row'[j].status = "pending"
    BY RowFacts DEF IInv, TypeOK
  <1>2. \A k \in Jobs \ {j} : row'[k] = row[k]
    BY DEF IInv, TypeOK
  <1>3. \A k \in Jobs \ {j} : StageOf(k)' = StageOf(k)
    BY <1>2, StageSame
  <1>4. StageOf(j) = "none" /\ StageOf(j)' = "owed"
    BY <1>1, StageNone, StageOwedNext
  <1>5. Stages' = [Stages EXCEPT ![j] = "owed"] /\ Stages[j] = "none"
    BY <1>3, <1>4, StagesMove DEF Stages
  <1>6. Given' = Given /\ Entitled' = Entitled
    BY GivenSame, EntitledSame
  <1>7. QED
    BY <1>5, <1>6, PromiseSteps DEF PromiseStep

\* A recorded return confirms the obligation: the order was not reversed yet,
\* and the money is already on its way back.
LEMMA NewCompletion ==
    ASSUME IInv, IInv', NEW j \in Jobs, UNCHANGED <<order, access, reversed, money, byHand>>,
           row[j].status = "processing", row'[j].status = "completed",
           \A k \in Jobs \ {j} : row'[k] = row[k]
    PROVE  PromiseStep
  <1>1. StageOf(j) = "owed"
    BY StageOwed
  <1>2. j \in PaidOrders => ~reversed[j]
    BY DEF IInv, OrderInv
  <1>3. StageOf(j)' = "confirmed"
    BY <1>2 DEF StageOf
  <1>4. j \in Given
    BY DEF IInv, CompletionIsBacked, Given
  <1>5. \A k \in Jobs \ {j} : StageOf(k)' = StageOf(k)
    BY StageSame
  <1>6. Stages' = [Stages EXCEPT ![j] = "confirmed"] /\ Stages[j] = "owed"
    BY <1>1, <1>3, <1>5, StagesMove DEF Stages
  <1>7. Given' = Given /\ Entitled' = Entitled
    BY GivenSame, EntitledSame
  <1>8. QED
    BY <1>4, <1>6, <1>7, PromiseSteps DEF PromiseStep

\* revoke_payment: the first one withdraws the access, the next ones change
\* nothing.
LEMMA RevokeKeeps ==
    ASSUME IInv, IInv', NEW t \in Tasks, Revoke(t)
    PROVE  PromiseStep
  <1> USE DEF dbVars, worldVars
  <1>p. PICK o \in PaidOrders : o = task[t].job
    BY DEF Revoke, IInv, TaskKnows
  <1>0. /\ TypeOK /\ o \in PaidOrders /\ o \in Jobs /\ OrderInv(o)
        /\ row[o].status = "completed"
        /\ UNCHANGED <<order, row, money, byHand>>
    BY <1>p DEF Revoke, IInv, TaskKnows, Jobs
  <1>1. /\ reversed'[o] = TRUE
        /\ \A p \in PaidOrders \ {o} : reversed'[p] = reversed[p] /\ access'[p] = access[p]
    BY <1>0, <1>p DEF Revoke, TypeOK
  <1>2. \A k \in Jobs \ {o} : StageOf(k)' = StageOf(k)
    BY <1>0, <1>1, StageSame
  <1>3. Given' = Given
    BY <1>0, GivenSame
  <1>4. CASE reversed[o]
    <2>1. StageOf(o)' = StageOf(o)
      BY <1>0, <1>1, <1>4, StageSame
    <2>2. Stages' = Stages
      BY <1>2, <2>1, StagesSame
    <2>3. access'[o] = access[o]
      BY <1>0, <1>4, <1>p DEF Revoke, TypeOK
    <2>4. Entitled' = Entitled
      BY <1>1, <2>3 DEF Entitled
    <2>5. QED
      BY <1>3, <2>2, <2>4, PromiseSteps DEF PromiseStep
  <1>5. CASE ~reversed[o]
    <2>1. StageOf(o) = "confirmed"
      BY <1>0, <1>5 DEF StageOf
    <2>2. order[o] # "refunded"
      BY <1>0, <1>5 DEF OrderInv
    <2>3. StageOf(o)' = "withdrawn"
      BY <1>0, <1>1, <2>2 DEF StageOf
    <2>4. Stages' = [Stages EXCEPT ![o] = "withdrawn"] /\ Stages[o] = "confirmed"
      BY <1>0, <1>2, <2>1, <2>3, StagesMove DEF Stages
    <2>5. access'[o] # "granted"
      BY <1>0, <1>5, <1>p DEF Revoke, TypeOK
    <2>6. Entitled' = Entitled \ {o}
      BY <1>1, <2>5 DEF Entitled
    <2>7. QED
      BY <1>0, <1>3, <2>4, <2>6, PromiseSteps DEF PromiseStep
  <1>6. QED
    BY <1>4, <1>5

\* The order is closed once, after its access was withdrawn.
LEMMA CloseKeeps ==
    ASSUME IInv, IInv', NEW t \in Tasks, CloseOrder(t)
    PROVE  PromiseStep
  <1> USE DEF dbVars, worldVars
  <1>p. PICK o \in PaidOrders : o = task[t].job
    BY DEF CloseOrder, IInv, TaskKnows
  <1>0. /\ TypeOK /\ o \in PaidOrders /\ o \in Jobs /\ reversed[o]
        /\ row[o].status = "completed"
        /\ UNCHANGED <<access, reversed, row, money, byHand>>
    BY <1>p DEF CloseOrder, IInv, TaskKnows, Jobs
  <1>1. \A p \in PaidOrders \ {o} : order'[p] = order[p]
    BY <1>0, <1>p DEF CloseOrder, TypeOK
  <1>2. \A k \in Jobs \ {o} : StageOf(k)' = StageOf(k)
    BY <1>0, <1>1, StageSame
  <1>3. Given' = Given /\ Entitled' = Entitled
    BY <1>0, GivenSame, EntitledSame
  <1>4. CASE order[o] = "refund_pending"
    <2>1. order'[o] = "refunded"
      BY <1>0, <1>4, <1>p DEF CloseOrder, TypeOK
    <2>2. StageOf(o) = "withdrawn" /\ StageOf(o)' = "closed"
      BY <1>0, <1>4, <2>1 DEF StageOf
    <2>3. Stages' = [Stages EXCEPT ![o] = "closed"] /\ Stages[o] = "withdrawn"
      BY <1>0, <1>2, <2>2, StagesMove DEF Stages
    <2>4. QED
      BY <1>0, <1>3, <2>3, PromiseSteps DEF PromiseStep
  <1>5. CASE order[o] # "refund_pending"
    <2>1. order'[o] = order[o]
      BY <1>0, <1>5, <1>p DEF CloseOrder, TypeOK
    <2>2. StageOf(o)' = StageOf(o)
      BY <1>0, <2>1, StageSame
    <2>3. Stages' = Stages
      BY <1>2, <2>2, StagesSame
    <2>4. QED
      BY <1>3, <2>3, PromiseSteps DEF PromiseStep
  <1>6. QED
    BY <1>4, <1>5

LEMMA StepKeeps ==
    ASSUME IInv, IInv', [Next]_vars
    PROVE  PromiseStep
  <1> USE DEF dbVars, worldVars
  <1>0. TypeOK /\ Monotone
    BY MonotoneStep DEF IInv
  <1>1. ASSUME NEW t \in Tasks, ClaimRefund(t) PROVE PromiseStep
    <2>1. task[t].job \in PaidOrders /\ task[t].job \in Jobs
      BY <1>1 DEF ClaimRefund, IInv, TaskKnows, Jobs
    <2>2. CASE UNCHANGED <<order, row>>
      BY <1>1, <2>2, Invisible DEF ClaimRefund
    <2>3. CASE /\ order[task[t].job] = "paid"
               /\ order' = [order EXCEPT ![task[t].job] = "refund_pending"]
               /\ row' = [row EXCEPT ![task[t].job] = IF @ = NoRow THEN PendingRow ELSE @]
      <3>1. row[task[t].job] = NoRow
        BY <1>0, <2>1, <2>3, RowFacts DEF IInv, OrderInv, TypeOK
      <3>2. row' = [row EXCEPT ![task[t].job] = PendingRow]
        BY <2>3, <3>1
      <3>3. \A o \in PaidOrders \ {task[t].job} : order'[o] = order[o]
        BY <1>0, <2>3 DEF TypeOK
      <3>4. QED
        BY <1>1, <2>1, <3>1, <3>2, <3>3, NewRow DEF ClaimRefund
    <2>4. QED
      BY <1>1, <2>2, <2>3 DEF ClaimRefund
  <1>2. ASSUME NEW j \in Jobs, NEW t \in Tasks, RefuseCharge(t, j)
        PROVE  PromiseStep
    <2>1. /\ row' = [row EXCEPT ![j] = IF @ = NoRow THEN PendingRow ELSE @]
          /\ UNCHANGED <<order, access, reversed, money, byHand>>
      BY <1>2 DEF RefuseCharge
    <2>2. CASE row[j] = NoRow
      <3>1. row' = [row EXCEPT ![j] = PendingRow]
        BY <2>1, <2>2
      <3>2. QED
        BY <2>1, <2>2, <3>1, NewRow
    <2>3. CASE row[j] # NoRow
      <3>1. \A k \in Jobs : row'[k] = row[k]
        BY <1>0, <2>1, <2>3 DEF TypeOK
      <3>2. QED
        BY <2>1, <3>1, Invisible
    <2>4. QED
      BY <2>2, <2>3
  <1>3. ASSUME NEW t \in Tasks, ClaimLease(t) \/ ManualClaim(t) PROVE PromiseStep
    <2>1. \A j \in Jobs :
             \/ row'[j].status = row[j].status
             \/ /\ row[j].status \in {"pending", "processing"}
                /\ row'[j].status \in {"pending", "processing"}
      BY <1>0, <1>3 DEF ClaimLease, ManualClaim, Lease, Claimable, TypeOK
    <2>2. QED
      BY <1>3, <2>1, Invisible DEF ClaimLease, ManualClaim
  <1>4. ASSUME NEW t \in Tasks, RecordReturn(t) \/ RecordManual(t) PROVE PromiseStep
    <2>1. UNCHANGED <<order, access, reversed, money, byHand>>
      BY <1>4 DEF RecordReturn, RecordManual, MarkCompleted
    <2>2. task[t].job \in Jobs
      BY <1>4 DEF RecordReturn, RecordManual, MarkCompleted, IInv, TaskKnows
    <2>3. CASE row' = row
      BY <2>1, <2>3, Invisible
    <2>4. CASE row' # row
      <3>1. PICK how \in {"telegram", "manual"} :
              /\ row[task[t].job].status = "processing"
              /\ row' = [row EXCEPT ![task[t].job] =
                           [NoRow EXCEPT !.status = "completed", !.resolution = how]]
        BY <1>4, <2>4 DEF RecordReturn, RecordManual, MarkCompleted, OwnsLease
      <3>2. /\ row'[task[t].job].status = "completed"
            /\ \A k \in Jobs \ {task[t].job} : row'[k] = row[k]
        BY <1>0, <2>2, <3>1, RowFacts DEF TypeOK
      <3>3. QED
        BY <2>1, <2>2, <3>1, <3>2, NewCompletion
    <2>5. QED
      BY <2>3, <2>4
  <1>5. ASSUME NEW t \in Tasks, MarkFailed(t) PROVE PromiseStep
    <2>1. \A j \in Jobs :
             \/ row'[j].status = row[j].status
             \/ /\ row[j].status \in {"pending", "processing"}
                /\ row'[j].status \in {"pending", "processing"}
      BY <1>0, <1>5, RowFacts DEF MarkFailed, OwnsLease, TypeOK
    <2>2. QED
      BY <1>5, <2>1, Invisible DEF MarkFailed
  <1>6. ASSUME NEW j \in Jobs, ExpireLease(j) PROVE PromiseStep
    <2>1. \A k \in Jobs : row'[k].status = row[k].status
      BY <1>0, <1>6, RowFacts DEF ExpireLease, TypeOK
    <2>2. QED
      BY <1>6, <2>1, Invisible DEF ExpireLease
  <1>7. ASSUME NEW o \in PaidOrders, ApplyPayment(o) PROVE PromiseStep
    <2>1. o \in Jobs /\ StageOf(o) = "none"
      BY <1>7, StageNone DEF ApplyPayment, IInv, OrderInv, Jobs
    <2>2. Stages' = Stages /\ Given' = Given
      <3>1. \A k \in Jobs : StageOf(k)' = StageOf(k)
        BY <1>7, StageSame DEF ApplyPayment
      <3>2. QED
        BY <1>7, <3>1, StagesSame, GivenSame DEF ApplyPayment
    <2>3. Entitled' = Entitled \cup {o}
      BY <1>0, <1>7 DEF ApplyPayment, Entitled, TypeOK
    <2>4. QED
      BY <2>1, <2>2, <2>3, PromiseSteps DEF PromiseStep, Stages
  <1>8. ASSUME NEW j \in Jobs, row[j].status # "absent",
               UNCHANGED dbVars,
               \/ money' = [money EXCEPT ![j] = "returned"] /\ byHand' = byHand
               \/ byHand' = [byHand EXCEPT ![j] = TRUE] /\ money' = money
        PROVE  PromiseStep
    <2>1. Stages' = Stages /\ Entitled' = Entitled
      <3>1. \A k \in Jobs : StageOf(k)' = StageOf(k)
        BY <1>8, StageSame
      <3>2. QED
        BY <1>8, <3>1, StagesSame, EntitledSame
    <2>2. Given' = Given \cup {j}
      <3>1. \A k \in Jobs : (money'[k] = "returned" \/ byHand'[k]) <=>
                            (money[k] = "returned" \/ byHand[k] \/ k = j)
        BY <1>0, <1>8 DEF TypeOK
      <3>2. QED
        BY <3>1 DEF Given
    <2>3. Stages[j] # "none"
      BY <1>8, StageNone DEF Stages
    <2>4. QED
      BY <2>1, <2>2, <2>3, PromiseSteps DEF PromiseStep
  <1>9. ASSUME NEW q \in wire, Execute(q) PROVE PromiseStep
    <2>1. q.job \in Jobs /\ row[q.job].status # "absent"
      BY <1>0 DEF TypeOK, IInv, MoneyRecorded
    <2>2. QED
      BY <1>8, <1>9, <2>1 DEF Execute
  <1>10. ASSUME NEW t \in Tasks, NEW j \in Jobs, ReturnByHand(t, j) PROVE PromiseStep
    BY <1>8, <1>10 DEF ReturnByHand
  <1>11. CASE UNCHANGED <<dbVars, money, byHand>>
    BY <1>11, Invisible
  <1>12. Refused \subseteq Jobs
    BY DEF Jobs
  <1>13. QED
    BY <1>1, <1>2, <1>3, <1>4, <1>5, <1>6, <1>7, <1>9, <1>10, <1>11, <1>12,
       RevokeKeeps, CloseKeeps
       DEF Next, Step, ReadRow, Recheck, Answer, ManualRead, RpcFails, RefundOrder,
           RetryRefund, Restart, vars

\* The lease protocol keeps the promise of RefundPromise.
THEOREM Implements == Spec => KeepsPromise
  <1>1. Init => Promise!PromiseInit
    <2> SUFFICES ASSUME Init PROVE Promise!PromiseInit
      OBVIOUS
    <2>1. \A j \in Jobs : StageOf(j) = "none"
      BY StageNone, RowFacts DEF Init
    <2>2. Stages = [j \in Jobs |-> "none"] /\ Given = {} /\ Entitled = {}
      BY <2>1 DEF Stages, Given, Entitled, Init, Jobs
    <2>3. QED
      BY <2>2, PromiseSteps
  <1>2. IInv /\ IInv' /\ [Next]_vars => [Promise!PromiseNext]_Promise!promiseVars
    BY StepKeeps DEF PromiseStep
  <1>3. QED
    BY <1>1, <1>2, Invariance, PTL DEF Spec, KeepsPromise, Promise!PromiseSpec

-----------------------------------------------------------------------------
(* The jobs of MCDaily *)

JP == INSTANCE WorkProofs WITH
    HoursPerDay <- 2, DaysPerMonth <- 2, ReportDay <- 2, MaxClock <- 5, MaxStarts <- 2,
    MaxSaves <- 2, MaxFailures <- 1, phase <- j1, online <- j2, clock <- j3, hour <- j4,
    trigger <- j5, due <- j6, run <- j7, holder <- j8, stamp <- j9, saving <- j10,
    starts <- j11, saves <- j12, failures <- j13, sent <- j14, cut <- j15,
    lastCheck <- j16, shifted <- j17, skipped <- j18,
    Profiles <- {}, Accounts <- {}, Staff <- {}, Gifted <- {}, Nobody <- Rest,
    NoTask <- Rest, MaxCalls <- 0, MaxCancels <- 0, MaxRestarts <- 0, Before <- 0,
    Periods <- {}, LastDay <- 0, MaxRenewals <- 0, MaxDoubts <- 0, MaxKills <- 0,
    Refunds <- TRUE, Legacy <- {}, MaxCrashes <- 0, MaxErrors <- 0,
                                                        \* of the others, which are not here
    account <- j1, used <- j1, names <- j1, onDuty <- j1, queue <- j1, task <- j1,
    disk <- j1, conn <- j1, up <- j1, lock <- j1, owner <- j1, at <- j1, seen <- j1,
    acks <- j1, calls <- j1, cancels <- j1, restarts <- j1, sub <- j1, added <- j1,
    renewals <- j1, now <- j1, job <- j1, told <- j1, moved <- j1, unsure <- j1,
    broken <- j1, kills <- j1, file <- j1, first <- j1, crashes <- j1, errors <- j1

\* What WorkProofs shows of the jobs, for the instance in MCDaily.
LEMMA OfJobs ==
    ASSUME J!JobsAssumption
    PROVE  J!Spec => []J!JobsKeepTheirDays
<1>1. JP!J!JobsAssumption
  BY DEF J!JobsAssumption, JP!J!JobsAssumption
<1>2. J!Init => JP!J!Init
  BY
     DEF J!Init, JP!J!Init, J!NotSaving, JP!J!NotSaving, J!AllDone, JP!J!AllDone,
         J!NoRun, JP!J!NoRun, J!Runs, JP!J!Runs, J!Scheduled, JP!J!Scheduled, J!Months,
         JP!J!Months, J!Month, JP!J!Month
<1>3. J!Next => JP!J!Next
  BY
     DEF J!time, JP!J!time, J!changed, JP!J!changed, J!schedule, JP!J!schedule,
         J!report, JP!J!report, J!HourOf, JP!J!HourOf, J!Month, JP!J!Month, J!DayOf,
         JP!J!DayOf, J!Months, JP!J!Months, J!Scheduled, JP!J!Scheduled, J!Checks,
         JP!J!Checks, J!Runs, JP!J!Runs, J!NotSaving, JP!J!NotSaving, J!NoRun,
         JP!J!NoRun, J!At, JP!J!At, J!AllDone, JP!J!AllDone, J!Running, JP!J!Running,
         J!Acquire, JP!J!Acquire, J!Ends, JP!J!Ends, J!Work, JP!J!Work, J!Due, JP!J!Due,
         J!Send, JP!J!Send, J!Stamp, JP!J!Stamp, J!FireDaily, JP!J!FireDaily,
         J!FireHourly, JP!J!FireHourly, J!Tick, JP!J!Tick, J!Save, JP!J!Save,
         J!Rescheduled, JP!J!Rescheduled, J!Reschedule, JP!J!Reschedule, J!JournalFails,
         JP!J!JournalFails, J!Boot, JP!J!Boot, J!Sigterm, JP!J!Sigterm, J!StopBegins,
         JP!J!StopBegins, J!GraceEnds, JP!J!GraceEnds, J!Cancelled, JP!J!Cancelled,
         J!Closes, JP!J!Closes, J!ProcessEnds, JP!J!ProcessEnds, J!TaskStep,
         JP!J!TaskStep, J!Next, JP!J!Next
<1>4. JP!J!JobsKeepTheirDays => J!JobsKeepTheirDays
  BY
     DEF J!TypeOK, JP!J!TypeOK, J!ReportedOnce, JP!J!ReportedOnce,
         J!TriggerFollowsSettings, JP!J!TriggerFollowsSettings, J!NothingAfterClose,
         JP!J!NothingAfterClose, J!CheckedEveryDay, JP!J!CheckedEveryDay,
         J!JobsKeepTheirDays, JP!J!JobsKeepTheirDays, J!NotSaving, JP!J!NotSaving,
         J!NoRun, JP!J!NoRun, J!Runs, JP!J!Runs, J!Scheduled, JP!J!Scheduled, J!Checks,
         JP!J!Checks, J!Months, JP!J!Months, J!Month, JP!J!Month, J!Running,
         JP!J!Running
<1>5. [J!Next]_(J!vars) => [JP!J!Next]_(JP!J!vars)
  BY <1>3 DEF J!vars, JP!J!vars
<1>6. QED
  BY <1>1, <1>2, <1>4, <1>5, JP!DaysAreKept, PTL DEF J!Spec, JP!J!Spec

\* Over restarts, misfires and two ways to start the checks: a month is reported once, the
\* scheduler has the hour of the settings, no job outlives the database, and a bot that is up
\* was checked within the day, beside the refunds that the jobs retry.
THEOREM JobsKept == DailySpec => []JobsKeepTheirDays
  <1> DEFINE Here == part = "jobs"
  <1>1. DailyInit => (Here => J!Init)
    BY DEF DailyInit
  <1>2. [DailyNext]_dailyVars => (Here => Here' /\ [J!Next]_(J!vars)) /\ (~Here => ~Here')
    BY DEF DailyNext, dailyVars, jobVars, J!vars
  <1>3. J!Spec => []J!JobsKeepTheirDays
    BY OfJobs, DailyAssumption
  <1>4. QED
    BY <1>1, <1>2, <1>3, PTL DEF DailySpec, J!Spec, JobsKeepTheirDays
=============================================================================
