-------------------------------- MODULE Store --------------------------------
(***************************************************************************)
(* What db/connection.py promises to the tasks that call it, without a     *)
(* connection, a lock or open transactions: each call takes effect once,   *)
(* at one moment between the call and its end, or not at all, and a task   *)
(* is told of no effect that did not happen.  Transactions implements it.  *)
(***************************************************************************)
EXTENDS Naturals

CONSTANTS Tasks

VARIABLES
    store,      \* the rows
    asked,      \* the call that each task waits for
    answer,     \* what each task read last
    acks        \* writes that were told, by kind, and ends that nobody was told of

storeVars == <<store, asked, answer, acks>>

Calls == {"transaction", "execute", "fetch"}
NoRows == [pair |-> [i \in {1, 2} |-> 0], single |-> 0]

StoreInit ==
    /\ store = NoRows
    /\ asked = [t \in Tasks |-> "nothing"]
    /\ answer = [t \in Tasks |-> NoRows]
    /\ acks = [transaction |-> 0, execute |-> 0, doubtful |-> {}]

\* A doubt is one more than there were.
InDoubt ==
    /\ acks' = [acks EXCEPT !.doubtful = acks'.doubtful]
    /\ acks.doubtful \subseteq acks'.doubtful /\ acks.doubtful # acks'.doubtful

Ask(t) ==
    /\ UNCHANGED <<store, answer, acks>>
    /\ asked[t] = "nothing" /\ \E call \in Calls : asked' = [asked EXCEPT ![t] = call]

Ends(t, call) == asked[t] = call /\ asked' = [asked EXCEPT ![t] = "nothing"]

\* Both writes of a transaction at once, and the one of execute().
Both == store' = [store EXCEPT !.pair[1] = @ + 1, !.pair[2] = @ + 1]
One == store' = [store EXCEPT !.single = @ + 1]

Transact(t) ==
    /\ Both /\ UNCHANGED answer
    /\ acks' = [acks EXCEPT !.transaction = @ + 1] \/ InDoubt
    /\ Ends(t, "transaction")

Write(t) ==
    /\ One /\ UNCHANGED answer
    /\ acks' = [acks EXCEPT !.execute = @ + 1] \/ InDoubt
    /\ Ends(t, "execute")

Read(t) ==
    /\ UNCHANGED <<store, acks>>
    /\ answer' = [answer EXCEPT ![t] = store]
    /\ Ends(t, "fetch")

\* An error, or a cancellation before the commit.
Fail(t) ==
    /\ UNCHANGED <<store, answer, acks>>
    /\ asked[t] # "nothing" /\ Ends(t, asked[t])

\* The process ends.  What was asked is not done, or one of the writes is.
Stop ==
    /\ asked' = [t \in Tasks |-> "nothing"] /\ InDoubt
    /\ \/ UNCHANGED store
       \/ (\E t \in Tasks : asked[t] = "transaction") /\ Both
       \/ (\E t \in Tasks : asked[t] = "execute") /\ One
    /\ UNCHANGED answer

StoreNext ==
    \/ \E t \in Tasks :
          \/ Ask(t) \/ Transact(t) \/ Write(t) \/ Read(t) \/ Fail(t)
    \/ Stop

StoreSpec == StoreInit /\ [][StoreNext]_storeVars
=============================================================================
