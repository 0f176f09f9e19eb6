---------------------------- MODULE RefundPromise ----------------------------
(***************************************************************************)
(* What a refund promises, without leases, tasks, requests or restarts:    *)
(* an obligation is recorded, the money goes back, only then is the refund *)
(* confirmed, only then does the access it paid for end, and only then is  *)
(* the order closed.  Refunds implements this specification.               *)
(***************************************************************************)
CONSTANTS Jobs

VARIABLES
    stage,    \* how far each job is
    given,    \* jobs whose money left the shop
    entitled  \* jobs whose customer holds the access that was paid for

promiseVars == <<stage, given, entitled>>

Stage == {"none", "owed", "confirmed", "withdrawn", "closed"}

PromiseInit ==
    /\ stage = [j \in Jobs |-> "none"]
    /\ given = {}
    /\ entitled = {}

Advance(j, from, to) ==
    /\ stage[j] = from
    /\ stage' = [stage EXCEPT ![j] = to]

\* Access is granted only while no refund is owed.
Grant(j) ==
    /\ stage[j] = "none"
    /\ entitled' = entitled \cup {j}
    /\ UNCHANGED <<stage, given>>

Oblige(j) == Advance(j, "none", "owed") /\ UNCHANGED <<given, entitled>>

\* A late request may still be carried out after a manual confirmation.
GiveBack(j) ==
    /\ stage[j] # "none"
    /\ given' = given \cup {j}
    /\ UNCHANGED <<stage, entitled>>

Confirm(j) ==
    /\ j \in given
    /\ Advance(j, "owed", "confirmed")
    /\ UNCHANGED <<given, entitled>>

Withdraw(j) ==
    /\ Advance(j, "confirmed", "withdrawn")
    /\ entitled' = entitled \ {j}
    /\ UNCHANGED given

Close(j) == Advance(j, "withdrawn", "closed") /\ UNCHANGED <<given, entitled>>

PromiseNext ==
    \E j \in Jobs : \/ Grant(j) \/ Oblige(j) \/ GiveBack(j)
                    \/ Confirm(j) \/ Withdraw(j) \/ Close(j)

PromiseSpec == PromiseInit /\ [][PromiseNext]_promiseVars
=============================================================================
