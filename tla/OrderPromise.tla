---------------------------- MODULE OrderPromise ----------------------------
(***************************************************************************)
(* What an order promises to the customer, whoever handles it and when:    *)
(* it is sold once or refused, for good; access is given once, for an      *)
(* order that is sold, and never once its money is owed; what is owed is   *)
(* returned and nothing else becomes of it.  Fulfilment implements this    *)
(* specification.                                                          *)
(***************************************************************************)
CONSTANTS Orders

VARIABLES
    stage,      \* how far the money of each order is
    holds       \* whether the customer holds the access that an order gave

promiseVars == <<stage, holds>>

PromiseInit ==
    /\ stage = [o \in Orders |-> "none"]
    /\ holds = [o \in Orders |-> "none"]

Advance(o, from, to) ==
    /\ stage[o] \in from /\ stage' = [stage EXCEPT ![o] = to]
    /\ UNCHANGED holds

Place(o) == Advance(o, {"none"}, "open")
Refuse(o) == Advance(o, {"open"}, "refused")

\* Money was recorded: a transfer's, or with the order that of Stars.
Sell(o) == Advance(o, {"none", "open"}, "sold")

Owe(o) == Advance(o, {"sold"}, "owed")
Return(o) == Advance(o, {"owed"}, "returned")

Serve(o) ==
    /\ stage[o] = "sold" /\ holds[o] = "none"
    /\ holds' = [holds EXCEPT ![o] = "active"] /\ UNCHANGED stage

\* The time is up, staff close it, or the order is taken back.
EndAccess(o) ==
    /\ holds[o] = "active"
    /\ holds' = [holds EXCEPT ![o] = "closed"] /\ UNCHANGED stage

PromiseNext ==
    \E o \in Orders : \/ Place(o) \/ Refuse(o) \/ Sell(o) \/ Owe(o) \/ Return(o)
                      \/ Serve(o) \/ EndAccess(o)

PromiseSpec == PromiseInit /\ [][PromiseNext]_promiseVars
=============================================================================
