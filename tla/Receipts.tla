------------------------------ MODULE Receipts ------------------------------
(***************************************************************************)
(* The receipts of one customer: files beside the database, each pointed   *)
(* at by an order.  handlers/checkout.py, handle_receipt, writes them;     *)
(* services/scheduler.py, prune_receipts, and handlers/admin/people.py,    *)
(* erase_go, remove them.                                                  *)
(*                                                                         *)
(* A file and its pointer change in two steps, in an order chosen for a    *)
(* process that ends in between.                                           *)
(***************************************************************************)
EXTENDS Naturals, FiniteSets, Sequences, SequencesExt

CONSTANTS
    Orders,
    Uploads,        \* messages with a document; each is saved under a name of its own
    None,
    MaxCrashes,     \* bound on restarts
    MaxErrors,      \* bound on operations on files and writes of pointers that fail
    MaxMoves        \* bound on changes of status by others

ReceiptsAssumption ==
    /\ IsFiniteSet(Orders) /\ None \notin Orders \cup Uploads
    /\ MaxCrashes \in Nat /\ MaxErrors \in Nat /\ MaxMoves \in Nat

VARIABLES
    order,      \* status, receipt_file and the age of updated_at
    disk,       \* files in RECEIPTS_DIR, and partial downloads
    erased,     \* the profile is erased
    upload,     \* where handle_receipt stands
    prune,      \* the receipts that a run of prune_receipts still removes
    erase,      \* the receipts that erase_go still removes
    crashes, errors, moves

vars == <<order, disk, erased, upload, prune, erase, crashes, errors, moves>>
bounds == <<crashes, errors, moves>>

Statuses == {"unopened", "pending_receipt", "payment_expired", "pending_review", "problem",
             "paid", "delivered", "completed", "closed"}
\* Within the days a late receipt has, past them, and past retention.
Ages == 0..2

\* What customer, staff and scheduler do to an order without a receipt in hand,
\* whether it was paid or not.
Moves ==
    {<<"unopened", "pending_receipt">>,
     <<"pending_receipt", "payment_expired">>, <<"pending_receipt", "closed">>,
     <<"pending_review", "problem">>, <<"pending_review", "paid">>,
     <<"pending_review", "closed">>, <<"problem", "paid">>, <<"problem", "completed">>,
     <<"problem", "closed">>, <<"paid", "delivered">>, <<"paid", "closed">>,
     <<"delivered", "completed">>, <<"delivered", "problem">>, <<"delivered", "closed">>,
     <<"completed", "problem">>, <<"completed", "closed">>}
Retained == {"delivered", "completed", "closed", "payment_expired"}
ErasureBlocked == {"pending_review", "paid", "delivered", "problem"}

Pointed(o) == order[o].receipt # None
InUse(f) == \E o \in Orders : order[o].receipt = f
\* A removal: the list it has read, and whether the file of its head is unlinked.
Idle == [list |-> <<>>, unlinked |-> FALSE]
Listed(S) == [list |-> SetToSeq({[order |-> o, file |-> order[o].receipt] : o \in S}),
              unlinked |-> FALSE]
Rest(r) == [list |-> Tail(r.list), unlinked |-> FALSE]

-----------------------------------------------------------------------------
(* handle_receipt *)

Goes(u, place) == upload' = [upload EXCEPT ![u].at = place]

Awaits(o) == \/ order[o].status = "pending_receipt"
             \/ order[o].status = "payment_expired" /\ order[o].age = 0

\* A bare file carries no order id: there must be one destination.
Candidate(u) ==
    /\ upload[u].at = "sent"
    /\ IF ~erased /\ Cardinality({o \in Orders : Awaits(o)}) = 1
       THEN \E o \in Orders : Awaits(o) /\ upload' = [upload EXCEPT ![u] =
                                                         [at |-> "download", order |-> o]]
       ELSE Goes(u, "done")
    /\ UNCHANGED <<order, disk, erased, prune, erase, bounds>>

\* The download takes a while; what a failed one left is cleaned up.
Download(u) ==
    /\ upload[u].at = "download"
    /\ \/ disk' = [disk EXCEPT !.partial = @ \cup {u}] /\ Goes(u, "check")
       \/ Goes(u, "done") /\ UNCHANGED disk
    /\ UNCHANGED <<order, erased, prune, erase, bounds>>

\* Size and first bytes are checked, and the file gets its name.
Check(u) ==
    /\ upload[u].at = "check"
    /\ \/ Goes(u, "attach") /\ disk' = [partial |-> disk.partial \ {u},
                                        files |-> disk.files \cup {u}]
       \/ Goes(u, "done") /\ disk' = [disk EXCEPT !.partial = @ \ {u}]
    /\ UNCHANGED <<order, erased, prune, erase, bounds>>

Attaches(u, o) == order' = [order EXCEPT ![o] =
                               [status |-> "pending_review", receipt |-> u, age |-> 0]]

\* Mutant: the claim does not look at the profile again.
AttachToAnybody(u) ==
    /\ upload[u].at = "attach"
    /\ LET o == upload[u].order IN
       IF ~Pointed(o) /\ Awaits(o) THEN Attaches(u, o) /\ Goes(u, "done")
       ELSE Goes(u, "unclaimed") /\ UNCHANGED order
    /\ UNCHANGED <<disk, erased, prune, erase, bounds>>

\* attach_receipt, one compare-and-swap.
Attach(u) ==
    /\ upload[u].at = "attach"
    /\ LET o == upload[u].order IN
       IF ~Pointed(o) /\ Awaits(o) /\ ~erased THEN Attaches(u, o) /\ Goes(u, "done")
       ELSE Goes(u, "unclaimed") /\ UNCHANGED order
    /\ UNCHANGED <<disk, erased, prune, erase, bounds>>

\* Mutant: the file of a refused receipt stays.
UnclaimedStays(u) ==
    /\ upload[u].at = "unclaimed" /\ Goes(u, "done")
    /\ UNCHANGED <<order, disk, erased, prune, erase, bounds>>

\* Nothing points at the file any more.
Unclaimed(u) ==
    /\ upload[u].at = "unclaimed" /\ Goes(u, "done")
    /\ disk' = [disk EXCEPT !.files = @ \ {u}]
    /\ UNCHANGED <<order, erased, prune, erase, bounds>>

\* The claim, or removing a file that is not wanted, raises, and ends the handler.
UploadFails(u) ==
    /\ upload[u].at \in {"check", "attach", "unclaimed"} /\ Goes(u, "cut")
    /\ errors < MaxErrors /\ errors' = errors + 1
    /\ UNCHANGED <<order, disk, erased, prune, erase, crashes, moves>>

-----------------------------------------------------------------------------
(* prune_receipts *)

Unlinked(r) == disk' = [disk EXCEPT !.files = @ \ {Head(r.list).file}]

\* forget_receipt clears the pointer whose file was removed, and no other.
Forgets(r) ==
    LET o == Head(r.list).order IN
    order' = IF order[o].receipt = Head(r.list).file
             THEN [order EXCEPT ![o].receipt = None, ![o].age = 0] ELSE order


\* receipts_to_forget, when the daily maintenance comes.
StartPrune ==
    /\ prune = Idle
    /\ LET due == {o \in Orders : Pointed(o) /\ order[o].status \in Retained
                                  /\ order[o].age = 2} IN
       due # {} /\ prune' = Listed(due)
    /\ UNCHANGED <<order, disk, erased, upload, erase, bounds>>

PruneUnlink ==
    /\ prune.list # <<>> /\ ~prune.unlinked
    /\ Unlinked(prune) /\ prune' = [prune EXCEPT !.unlinked = TRUE]
    /\ UNCHANGED <<order, erased, upload, erase, bounds>>

\* A file that cannot be removed, or a pointer that cannot be cleared, ends the run, and all
\* after it wait for the next.
PruneFails ==
    /\ prune.list # <<>> /\ errors < MaxErrors /\ errors' = errors + 1
    /\ prune' = Idle
    /\ UNCHANGED <<order, disk, erased, upload, erase, crashes, moves>>

PruneForget ==
    /\ prune.list # <<>> /\ prune.unlinked /\ Forgets(prune)
    /\ prune' = Rest(prune)
    /\ UNCHANGED <<disk, erased, upload, erase, bounds>>

\* A shutdown cancels the run.  The pointer of a removed file is still cleared.
PruneCancelled ==
    /\ prune.list # <<>> /\ crashes < MaxCrashes /\ crashes' = crashes + 1
    /\ prune' = Idle
    /\ IF prune.unlinked THEN Forgets(prune) ELSE UNCHANGED order
    /\ UNCHANGED <<disk, erased, upload, erase, errors, moves>>

-----------------------------------------------------------------------------
(* erase_go *)

\* erase is one transaction.  It closes what waits for a receipt, and hands out the
\* receipts, whose pointers stay until the files are gone.
Erase ==
    /\ ~erased /\ erased' = TRUE
    /\ \A o \in Orders : order[o].status \notin ErasureBlocked
    /\ order' = [o \in Orders |-> IF order[o].status = "pending_receipt"
                                  THEN [order[o] EXCEPT !.status = "closed", !.age = 0]
                                  ELSE order[o]]
    /\ erase' = Listed({o \in Orders : Pointed(o)})
    /\ UNCHANGED <<disk, upload, prune, bounds>>

EraseUnlink ==
    /\ erase.list # <<>> /\ ~erase.unlinked
    /\ \/ Unlinked(erase) /\ erase' = [erase EXCEPT !.unlinked = TRUE] /\ UNCHANGED errors
       \/ /\ errors < MaxErrors /\ errors' = errors + 1
          /\ erase' = Rest(erase) /\ UNCHANGED disk
    /\ UNCHANGED <<order, erased, upload, prune, crashes, moves>>

EraseForget ==
    /\ erase.list # <<>> /\ erase.unlinked /\ erase' = Rest(erase)
    /\ \/ Forgets(erase) /\ UNCHANGED errors
       \/ errors < MaxErrors /\ errors' = errors + 1 /\ UNCHANGED order
    /\ UNCHANGED <<disk, erased, upload, prune, crashes, moves>>

-----------------------------------------------------------------------------
(* The rest of the bot, time, and the process *)

\* A customer whose profile is erased moves no order.
Move(o) ==
    /\ moves < MaxMoves /\ moves' = moves + 1
    /\ \E status \in Statuses :
          /\ <<order[o].status, status>> \in Moves
          /\ erased => status \notin {"pending_receipt", "problem"}
          /\ order' = [order EXCEPT ![o].status = status, ![o].age = 0]
    /\ UNCHANGED <<disk, erased, upload, prune, erase, crashes, errors>>

Age(o) ==
    /\ order[o].age < 2 /\ order' = [order EXCEPT ![o].age = @ + 1]
    /\ UNCHANGED <<disk, erased, upload, prune, erase, bounds>>

Crash ==
    /\ crashes < MaxCrashes /\ crashes' = crashes + 1
    /\ upload' = [u \in Uploads |-> IF upload[u].at \in {"sent", "done"} THEN upload[u]
                                    ELSE [upload[u] EXCEPT !.at = "cut"]]
    /\ prune' = Idle /\ erase' = Idle
    /\ UNCHANGED <<order, disk, erased, errors, moves>>

Init ==
    /\ order \in [Orders -> [status : {"unopened", "payment_expired"},
                             receipt : {None}, age : {0}]]
    /\ disk = [partial |-> {}, files |-> {}] /\ erased = FALSE
    /\ upload = [u \in Uploads |-> [at |-> "sent", order |-> None]]
    /\ prune = Idle /\ erase = Idle
    /\ crashes = 0 /\ errors = 0 /\ moves = 0

Removal == StartPrune \/ PruneUnlink \/ PruneForget
Next ==
    \/ \E u \in Uploads :
          Candidate(u) \/ Download(u) \/ Check(u) \/ Attach(u) \/ Unclaimed(u) \/ UploadFails(u)
    \/ Removal \/ PruneFails \/ PruneCancelled
    \/ Erase \/ EraseUnlink \/ EraseForget
    \/ \E o \in Orders : Move(o) \/ Age(o)
    \/ Crash

Spec == Init /\ [][Next]_vars

\* Days pass, and each has its maintenance.
FairSpec == Spec /\ WF_vars(Removal) /\ \A o \in Orders : WF_vars(Age(o))

-----------------------------------------------------------------------------
(* Properties *)

Removals == [list : Seq([order : Orders, file : Uploads]), unlinked : BOOLEAN]

\* Types; a receipt is of one order.
TypeOK ==
    /\ order \in [Orders -> [status : Statuses, receipt : Uploads \cup {None}, age : Ages]]
    /\ disk \in [partial : SUBSET Uploads, files : SUBSET Uploads] /\ erased \in BOOLEAN
    /\ \A u \in Uploads : /\ upload[u].at \in {"sent", "download", "check", "attach",
                                               "unclaimed", "done", "cut"}
                          /\ upload[u].order \in Orders \cup {None}
    /\ prune \in Removals /\ erase \in Removals
    /\ \A o, p \in Orders : order[o].receipt = order[p].receipt => o = p \/ ~Pointed(o)

\* "staff never see an order under review without the file that belongs to it".
ReviewHasItsFile ==
    \A o \in Orders : order[o].status = "pending_review" => order[o].receipt \in disk.files

\* A file that no order points at is being saved, or its upload was cut off: by a crash, or
\* by a claim or an unlink that raised.  A receipt that was refused is gone, and a cleanup
\* never forgets a file that it has not removed, over crashes and errors of its own.
NoOrphans ==
    \A f \in disk.files : InUse(f) \/ upload[f].at \in {"attach", "unclaimed", "cut"}

\* A crash between removing a file and clearing its pointer leaves the pointer, so that
\* the removal is seen and taken up again: no pointer is cleared while its file is there.
ForgottenIsGoneStep ==
    \A o \in Orders : Pointed(o) /\ order'[o].receipt # order[o].receipt =>
         order'[o].receipt = None /\ order[o].receipt \notin disk.files

\* Nothing of a person whose data is erased comes back: a receipt that was under way is
\* attached to no order, also not to one that timed out a few days ago.
NothingAfterErasureStep ==
    erased => \A o \in Orders : order'[o].receipt \in {order[o].receipt, None}

NothingComesBackStep == ForgottenIsGoneStep /\ NothingAfterErasureStep

\* What is erased does not come back and is not forgotten before it is gone: nothing is
\* attached to an order of an erased person, and the pointer of a receipt is cleared only
\* when its file is off the disk, so that a crash between the two is seen and made up for.
NothingComesBack == [][NothingComesBackStep]_vars

\* After an erasure the receipts go, if not at once then with the daily maintenance,
\* whatever failed or crashed in between.
ErasureDone == erased => \A o \in Orders : ~Pointed(o)
ErasedReceiptsGo == []<>ErasureDone

\* "pending reviews and problems stay put".
\* The code does not keep it: see Disagreements in README.md.
ProblemsKeepTheirFile ==
    [][\A o \in Orders :
            /\ order[o].status \in {"pending_review", "problem"}
            /\ order[o].receipt \in disk.files
            => order[o].receipt \in disk'.files]_vars

\* An order under review has its receipt on the disk, and a file on the disk has its order or
\* is of an upload under way or cut off (by a crash, or a claim or an unlink that raised),
\* whatever download, cleanup, erasure or staff did in between and wherever one failed.
FilesFollowTheirOrders ==
    /\ TypeOK /\ ReviewHasItsFile /\ NoOrphans
=============================================================================
