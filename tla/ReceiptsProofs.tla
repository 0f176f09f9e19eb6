--------------------------- MODULE ReceiptsProofs ---------------------------
(***************************************************************************)
(* Proofs about Receipts, for any finite set of orders, any uploads and    *)
(* any bounds; and, at the end, what WorkProofs shows of the migrations    *)
(* for the start in MCProgress.                                            *)
(***************************************************************************)
EXTENDS MCProgress, FiniteSetTheorems, SequenceTheorems, TLAPS

(* The strengthening: what an operation knows of its file between two steps. *)

Uploading == [at : {"sent", "download", "check", "attach", "unclaimed", "done", "cut"},
              order : Orders \cup {None}]

Types ==
    /\ order \in [Orders -> [status : Statuses, receipt : Uploads \cup {None}, age : Ages]]
    /\ disk \in [partial : SUBSET Uploads, files : SUBSET Uploads] /\ erased \in BOOLEAN
    /\ upload \in [Uploads -> Uploading]
    /\ prune \in Removals /\ erase \in Removals

Bounded == crashes \in Nat /\ errors \in Nat /\ moves \in Nat

OneOrderEach ==
    \A o, p \in Orders : order[o].receipt = order[p].receipt => o = p \/ ~Pointed(o)

\* A file is there before it is attached, and an order points at it only afterwards.
Uploaded ==
    /\ \A u \in Uploads :
          upload[u].at \in {"download", "check", "attach"} => upload[u].order \in Orders
    /\ \A u \in Uploads : upload[u].at = "attach" => u \in disk.files
    /\ \A o \in Orders : Pointed(o) => upload[order[o].receipt].at = "done"

\* A file that may be removed: its upload is over, so that it does not come back, and
\* whatever order points at it is not under review and never will be with it.
Removable(f) ==
    /\ upload[f].at = "done"
    /\ \A o \in Orders : order[o].receipt = f => order[o].status # "pending_review"

\* A removal names such files only, and its pointer is cleared behind the file.
Removing(r) ==
    /\ \A i \in 1..Len(r.list) : Removable(r.list[i].file)
    /\ r.unlinked => r.list # <<>> /\ Head(r.list).file \notin disk.files

IInv ==
    /\ Types /\ Bounded /\ OneOrderEach /\ Uploaded
    /\ Removing(prune) /\ Removing(erase)
    /\ ReviewHasItsFile /\ NoOrphans

-----------------------------------------------------------------------------
(* Lists of what is to be removed *)

Entry == [order : Orders, file : Uploads]

LEMMA SetToSeqListsTheSet ==
    ASSUME NEW S, IsFiniteSet(S)
    PROVE  /\ SetToSeq(S) \in Seq(S)
           /\ \A i \in 1..Len(SetToSeq(S)) : SetToSeq(S)[i] \in S
  <1>1. Cardinality(S) \in Nat /\ ExistsBijection(1..Cardinality(S), S)
    BY FS_CardinalityType
  <1>2. \E f \in [1..Cardinality(S) -> S] : IsInjective(f)
    BY <1>1 DEF ExistsBijection, Bijection, Injection
  <1>3. SetToSeq(S) \in [1..Cardinality(S) -> S]
    BY <1>2 DEF SetToSeq
  <1>4. SetToSeq(S) \in Seq(S)
    BY <1>1, <1>3, SeqDef
  <1>5. QED
    BY <1>4, ElementOfSeq

LEMMA ListedIsRemoval ==
    ASSUME Types, IsFiniteSet(Orders), NEW S \in SUBSET Orders, \A o \in S : Pointed(o)
    PROVE  /\ Listed(S) \in Removals /\ ~Listed(S).unlinked
           /\ \A i \in 1..Len(Listed(S).list) :
                 \E o \in S : Listed(S).list[i].file = order[o].receipt
  <1> DEFINE T == {[order |-> o, file |-> order[o].receipt] : o \in S}
             g == [o \in S |-> [order |-> o, file |-> order[o].receipt]]
  <1>1. IsFiniteSet(S)
    BY FS_Subset
  <1>2. g \in Surjection(S, T)
    BY DEF Surjection
  <1>3. IsFiniteSet(T)
    BY <1>1, <1>2, FS_Surjection
  <1>4. T \subseteq Entry
    BY DEF Types, Pointed, Entry
  <1> HIDE DEF T, g
  <1>5. /\ SetToSeq(T) \in Seq(T)
        /\ \A i \in 1..Len(SetToSeq(T)) : SetToSeq(T)[i] \in T
    BY <1>3, SetToSeqListsTheSet
  <1>6. SetToSeq(T) \in Seq(Entry)
    BY <1>4, <1>5, SeqMonotonic
  <1>7. Listed(S) = [list |-> SetToSeq(T), unlinked |-> FALSE]
    BY DEF Listed, T
  <1>8. Listed(S).list = SetToSeq(T) /\ Listed(S).unlinked = FALSE
    BY <1>7
  <1>9. Listed(S) \in Removals
    BY <1>6, <1>7 DEF Removals, Entry
  <1>10. \A e \in T : \E o \in S : e.file = order[o].receipt
    BY DEF T
  <1>11. QED
    BY <1>5, <1>8, <1>9, <1>10

LEMMA EntriesAreOrdersAndFiles ==
    ASSUME NEW r \in Removals
    PROVE  /\ \A i \in 1..Len(r.list) : r.list[i] \in Entry /\ r.list[i].file \in Uploads
           /\ r.list # <<>> => /\ Head(r.list) = r.list[1] /\ 1 \in 1..Len(r.list)
                               /\ Head(r.list) \in Entry /\ Head(r.list).file \in Uploads
                               /\ Head(r.list).order \in Orders
  <1>1. r.list \in Seq(Entry)
    BY DEF Removals, Entry
  <1>2. \A i \in 1..Len(r.list) : r.list[i] \in Entry
    BY <1>1, ElementOfSeq
  <1>3. \A e \in Entry : e.file \in Uploads /\ e.order \in Orders
    BY DEF Entry
  <1>4. r.list # <<>> => Head(r.list) = r.list[1] /\ 1 \in 1..Len(r.list)
    BY <1>1
  <1>5. QED
    BY <1>2, <1>3, <1>4

LEMMA RestIsRemoval ==
    ASSUME NEW r \in Removals, r.list # <<>>
    PROVE  /\ Rest(r) \in Removals /\ ~Rest(r).unlinked
           /\ \A i \in 1..Len(Rest(r).list) :
                 i + 1 \in 1..Len(r.list) /\ Rest(r).list[i] = r.list[i + 1]
  <1>1. r.list \in Seq(Entry)
    BY DEF Removals, Entry
  <1>2. /\ Tail(r.list) \in Seq(Entry) /\ Len(Tail(r.list)) = Len(r.list) - 1
        /\ \A i \in 1..Len(Tail(r.list)) : Tail(r.list)[i] = r.list[i + 1]
    BY <1>1
  <1>3. Len(r.list) \in Nat
    BY <1>1
  <1>4. Rest(r) = [list |-> Tail(r.list), unlinked |-> FALSE]
    BY DEF Rest
  <1>5. Rest(r).list = Tail(r.list) /\ Rest(r).unlinked = FALSE
    BY <1>4
  <1>6. Rest(r) \in Removals
    BY <1>2, <1>4 DEF Removals, Entry
  <1>7. QED
    BY <1>2, <1>3, <1>5, <1>6

LEMMA IdleIsRemoval == Idle \in Removals /\ Idle.list = <<>> /\ ~Idle.unlinked
  <1>1. Idle = [list |-> <<>>, unlinked |-> FALSE]
    BY DEF Idle
  <1>2. <<>> \in Seq([order : Orders, file : Uploads])
    OBVIOUS
  <1>3. QED
    BY <1>1, <1>2 DEF Removals
-----------------------------------------------------------------------------
(* What a step does to the removals under way *)

RemovableNext(f) ==
    /\ upload'[f].at = "done"
    /\ \A o \in Orders : order'[o].receipt = f => order'[o].status # "pending_review"

RemovingNext(r) ==
    /\ \A i \in 1..Len(r.list) : RemovableNext(r.list[i].file)
    /\ r.unlinked => r.list # <<>> /\ Head(r.list).file \notin disk'.files

\* The step makes no file that may be removed worth keeping, and none come back.
Spared ==
    \A f \in Uploads : Removable(f) =>
        RemovableNext(f) /\ (f \notin disk.files => f \notin disk'.files)

LEMMA SameRemoval ==
    ASSUME NEW r \in Removals, Removing(r), Spared
    PROVE  RemovingNext(r)
  <1>1. \A i \in 1..Len(r.list) : r.list[i].file \in Uploads
    BY EntriesAreOrdersAndFiles
  <1>2. r.list # <<>> => /\ Head(r.list) = r.list[1] /\ 1 \in 1..Len(r.list)
                         /\ Head(r.list).file \in Uploads
    BY EntriesAreOrdersAndFiles
  <1>3. \A i \in 1..Len(r.list) : RemovableNext(r.list[i].file)
    BY <1>1 DEF Removing, Spared
  <1>4. r.unlinked => r.list # <<>> /\ Head(r.list).file \notin disk'.files
    BY <1>2 DEF Removing, Spared
  <1>5. QED
    BY <1>3, <1>4 DEF RemovingNext

LEMMA HeadUnlinked ==
    ASSUME NEW r \in Removals, Removing(r), Spared, r.list # <<>>,
           Head(r.list).file \notin disk'.files,
           NEW next, next = [r EXCEPT !.unlinked = TRUE]
    PROVE  next \in Removals /\ RemovingNext(next)
  <1>1. next.list = r.list /\ next \in Removals
    BY DEF Removals
  <1>2. \A i \in 1..Len(r.list) : RemovableNext(r.list[i].file)
    BY EntriesAreOrdersAndFiles DEF Removing, Spared
  <1>3. QED
    BY <1>1, <1>2 DEF RemovingNext

LEMMA HeadOver ==
    ASSUME NEW r \in Removals, Removing(r), Spared, r.list # <<>>
    PROVE  Rest(r) \in Removals /\ RemovingNext(Rest(r))
  <1>1. /\ Rest(r) \in Removals /\ ~Rest(r).unlinked
        /\ \A i \in 1..Len(Rest(r).list) :
              i + 1 \in 1..Len(r.list) /\ Rest(r).list[i] = r.list[i + 1]
    BY RestIsRemoval
  <1>2. \A i \in 1..Len(r.list) : RemovableNext(r.list[i].file)
    BY EntriesAreOrdersAndFiles DEF Removing, Spared
  <1>3. QED
    BY <1>1, <1>2 DEF RemovingNext

LEMMA NoRemoval == Idle \in Removals /\ RemovingNext(Idle)
  BY IdleIsRemoval DEF RemovingNext

LEMMA NewRemoval ==
    ASSUME IInv, IsFiniteSet(Orders), Spared, NEW S \in SUBSET Orders,
           \A o \in S : Pointed(o) /\ order[o].status # "pending_review"
    PROVE  Listed(S) \in Removals /\ RemovingNext(Listed(S))
  <1>1. /\ Listed(S) \in Removals /\ ~Listed(S).unlinked
        /\ \A i \in 1..Len(Listed(S).list) :
              \E o \in S : Listed(S).list[i].file = order[o].receipt
    BY ListedIsRemoval DEF IInv
  <1>2. \A o \in S : order[o].receipt \in Uploads /\ Removable(order[o].receipt)
    BY DEF IInv, Types, Uploaded, OneOrderEach, Pointed, Removable
  <1>3. \A o \in S : RemovableNext(order[o].receipt)
    BY <1>2 DEF Spared
  <1>4. QED
    BY <1>1, <1>3 DEF RemovingNext

LEMMA BothRemovals ==
    ASSUME IInv, Spared
    PROVE  RemovingNext(prune) /\ RemovingNext(erase)
  BY SameRemoval DEF IInv, Types

LEMMA Assembled ==
    ASSUME Types', Bounded', OneOrderEach', Uploaded',
           RemovingNext(prune'), RemovingNext(erase'), ReviewHasItsFile', NoOrphans'
    PROVE  IInv'
  <1>1. Removing(prune)' /\ Removing(erase)'
    BY DEF RemovingNext, RemovableNext, Removing, Removable
  <1>2. QED
    BY <1>1 DEF IInv

-----------------------------------------------------------------------------
(* handle_receipt *)

\* A step of an upload changes nothing of the others and of the removals.
UploadMoves(u) ==
    /\ upload' \in [Uploads -> Uploading]
    /\ \A v \in Uploads \ {u} : upload'[v] = upload[v]
    /\ UNCHANGED <<erased, prune, erase>> /\ Bounded'

LEMMA GoesMoves ==
    ASSUME Types, NEW u \in Uploads,
           NEW place \in {"sent", "download", "check", "attach", "unclaimed", "done", "cut"},
           Goes(u, place), UNCHANGED <<erased, prune, erase>>, Bounded'
    PROVE  UploadMoves(u) /\ upload'[u].at = place /\ upload'[u].order = upload[u].order
  BY DEF Types, Uploading, Goes, UploadMoves

\* Where an upload may stand when its file has its name and no order.
Loose == {"attach", "unclaimed", "cut"}

\* The steps before the file is attached leave the orders alone.
LEMMA SavingKeeps ==
    ASSUME ReceiptsAssumption, IInv, NEW u \in Uploads, UploadMoves(u), UNCHANGED order,
           upload[u].at # "done",
           upload'[u].at \in {"download", "check", "attach"} => upload'[u].order \in Orders,
           disk' \in [partial : SUBSET Uploads, files : SUBSET Uploads],
           disk'.files \ {u} = disk.files \ {u},
           upload'[u].at = "attach" => u \in disk'.files,
           upload'[u].at \notin Loose /\ u \in disk'.files => u \in disk.files,
           upload'[u].at \notin Loose /\ u \in disk'.files => upload[u].at \notin Loose
    PROVE  IInv'
  <1>1. Types' /\ Bounded' /\ OneOrderEach'
    BY DEF IInv, Types, UploadMoves, OneOrderEach, Pointed
  <1>2. \A o \in Orders : order[o].receipt # u
    BY DEF ReceiptsAssumption, IInv, Uploaded, Pointed
  <1>3. Uploaded'
    BY <1>2 DEF IInv, Types, Uploaded, UploadMoves, Pointed
  <1>4. Spared
    BY DEF UploadMoves, Spared, Removable, RemovableNext
  <1>5. ReviewHasItsFile'
    BY <1>2 DEF IInv, Types, ReviewHasItsFile
  <1>6. NoOrphans'
    BY DEF IInv, Types, NoOrphans, UploadMoves, Loose, InUse
  <1>7. RemovingNext(prune') /\ RemovingNext(erase')
    BY <1>4, BothRemovals DEF UploadMoves
  <1>8. QED
    BY <1>1, <1>3, <1>5, <1>6, <1>7, Assembled

LEMMA UploadKeeps ==
    ASSUME ReceiptsAssumption, IInv, NEW u \in Uploads,
           Candidate(u) \/ Download(u) \/ Check(u) \/ Unclaimed(u) \/ UploadFails(u)
    PROVE  IInv'
  <1>0. Types /\ disk \in [partial : SUBSET Uploads, files : SUBSET Uploads] /\ Bounded'
    BY DEF IInv, Types, Bounded, bounds, Candidate, Download, Check, Unclaimed, UploadFails
  <1>1. CASE Candidate(u)
    <2>1. upload[u].at = "sent" /\ UNCHANGED <<order, disk, erased, prune, erase, bounds>>
      BY <1>1 DEF Candidate
    <2>2. /\ UploadMoves(u) /\ upload'[u].at \in {"download", "done"}
          /\ upload'[u].at = "download" => upload'[u].order \in Orders
      <3>1. CASE Goes(u, "done")
        BY <1>0, <2>1, <3>1, GoesMoves
      <3>2. CASE \E o \in Orders :
                    upload' = [upload EXCEPT ![u] = [at |-> "download", order |-> o]]
        <4>1. PICK o \in Orders :
                 upload' = [upload EXCEPT ![u] = [at |-> "download", order |-> o]]
          BY <3>2
        <4>2. PICK v : v = [at |-> "download", order |-> o]
          OBVIOUS
        <4>3. v \in Uploading /\ v.at = "download" /\ v.order = o
          BY <4>2 DEF Uploading
        <4>4. upload' = [upload EXCEPT ![u] = v]
          BY <4>1, <4>2
        <4>5. QED
          BY <1>0, <2>1, <4>3, <4>4 DEF UploadMoves, Types
      <3>3. QED
        BY <1>1, <3>1, <3>2 DEF Candidate
    <2>3. QED
      BY <1>0, <2>1, <2>2, SavingKeeps DEF Loose
  <1>2. CASE Download(u)
    <2>1. /\ upload[u].at = "download" /\ UNCHANGED <<order, erased, prune, erase, bounds>>
          /\ disk'.files = disk.files
          /\ disk' \in [partial : SUBSET Uploads, files : SUBSET Uploads]
      BY <1>0, <1>2 DEF Download
    <2>2. UploadMoves(u) /\ upload'[u].at \in {"check", "done"} /\ upload'[u].order \in Orders
      BY <1>0, <1>2, <2>1, GoesMoves DEF Download, IInv, Uploaded
    <2>3. QED
      BY <2>1, <2>2, SavingKeeps DEF Loose
  <1>3. CASE Check(u)
    <2>1. /\ upload[u].at = "check" /\ UNCHANGED <<order, erased, prune, erase, bounds>>
          /\ disk' \in [partial : SUBSET Uploads, files : SUBSET Uploads]
      BY <1>0, <1>3 DEF Check
    <2>2. CASE Goes(u, "attach") /\ disk'.files = disk.files \cup {u}
      <3>1. UploadMoves(u) /\ upload'[u].at = "attach" /\ upload'[u].order \in Orders
        BY <1>0, <2>1, <2>2, GoesMoves DEF IInv, Uploaded
      <3>2. QED
        BY <2>1, <2>2, <3>1, SavingKeeps DEF Loose
    <2>3. CASE Goes(u, "done") /\ disk'.files = disk.files
      <3>1. UploadMoves(u) /\ upload'[u].at = "done"
        BY <1>0, <2>1, <2>3, GoesMoves
      <3>2. QED
        BY <2>1, <2>3, <3>1, SavingKeeps DEF Loose
    <2>4. QED
      BY <1>0, <1>3, <2>2, <2>3 DEF Check
  <1>4. CASE Unclaimed(u)
    <2>1. /\ upload[u].at = "unclaimed" /\ UNCHANGED <<order, erased, prune, erase, bounds>>
          /\ disk' \in [partial : SUBSET Uploads, files : SUBSET Uploads]
          /\ disk'.files = disk.files \ {u}
      BY <1>0, <1>4 DEF Unclaimed
    <2>2. UploadMoves(u) /\ upload'[u].at = "done"
      BY <1>0, <1>4, <2>1, GoesMoves DEF Unclaimed
    <2>3. QED
      BY <2>1, <2>2, SavingKeeps DEF Loose
  <1>5. CASE UploadFails(u)
    <2>1. upload[u].at \in {"check", "attach", "unclaimed"}
          /\ UNCHANGED <<order, disk, erased, prune, erase>>
      BY <1>5 DEF UploadFails
    <2>2. UploadMoves(u) /\ upload'[u].at = "cut"
      BY <1>0, <1>5, <2>1, GoesMoves DEF UploadFails
    <2>3. QED
      BY <1>0, <2>1, <2>2, SavingKeeps DEF Loose
  <1>6. QED
    BY <1>1, <1>2, <1>3, <1>4, <1>5

LEMMA AttachKeeps ==
    ASSUME ReceiptsAssumption, IInv, NEW u \in Uploads, Attach(u)
    PROVE  IInv'
  <1>0. /\ Types /\ upload[u].at = "attach" /\ u \in disk.files
        /\ UNCHANGED <<disk, erased, prune, erase>> /\ Bounded'
    BY DEF IInv, Types, Uploaded, Attach, Bounded, bounds
  <1>1. \A o \in Orders : order[o].receipt # u
    BY <1>0 DEF ReceiptsAssumption, IInv, Uploaded, Pointed
  <1>2. CASE Goes(u, "unclaimed") /\ UNCHANGED order
    <2>1. UploadMoves(u) /\ upload'[u].at = "unclaimed"
      BY <1>0, <1>2, GoesMoves
    <2>2. QED
      BY <1>0, <1>2, <2>1, SavingKeeps DEF Types, Loose
  <1>3. ASSUME NEW o \in Orders, ~Pointed(o), Attaches(u, o), Goes(u, "done")
        PROVE  IInv'
    <2>1. UploadMoves(u) /\ upload'[u].at = "done"
      BY <1>0, <1>3, GoesMoves
    <2>2. /\ order' \in [Orders -> [status : Statuses, receipt : Uploads \cup {None}, age : Ages]]
          /\ order'[o].receipt = u
          /\ \A p \in Orders \ {o} : order'[p] = order[p]
      <3>1. PICK v : v = [status |-> "pending_review", receipt |-> u, age |-> 0]
        OBVIOUS
      <3>2. /\ v \in [status : Statuses, receipt : Uploads \cup {None}, age : Ages]
            /\ v.receipt = u
        BY <3>1 DEF Statuses, Ages
      <3>3. order' = [order EXCEPT ![o] = v]
        BY <1>3, <3>1 DEF Attaches
      <3>4. QED
        BY <1>0, <3>2, <3>3 DEF Types
    <2>3. Types' /\ Bounded'
      BY <1>0, <2>1, <2>2 DEF IInv, Types, UploadMoves
    <2>4. OneOrderEach'
      BY <1>1, <2>2 DEF IInv, OneOrderEach, Pointed
    <2>5. Uploaded'
      <3>1. \A v \in Uploads \ {u} : upload'[v] = upload[v]
        BY <2>1 DEF UploadMoves
      <3>2. \A v \in Uploads :
               upload'[v].at \in {"download", "check", "attach"} => upload'[v].order \in Orders
        BY <2>1, <3>1 DEF IInv, Uploaded
      <3>3. \A v \in Uploads : upload'[v].at = "attach" => v \in disk'.files
        BY <1>0, <2>1, <3>1 DEF IInv, Uploaded
      <3>4. ASSUME NEW p \in Orders, Pointed(p)'
            PROVE  upload'[order'[p].receipt].at = "done"
        <4>1. CASE p = o
          BY <2>1, <2>2, <4>1
        <4>2. CASE p # o
          <5>1. order'[p] = order[p] /\ Pointed(p) /\ order[p].receipt # u
            BY <1>1, <2>2, <3>4, <4>2 DEF Pointed
          <5>2. order[p].receipt \in Uploads \ {u}
            BY <1>0, <5>1 DEF Types, Pointed
          <5>3. QED
            BY <3>1, <5>1, <5>2 DEF IInv, Uploaded
        <4>3. QED
          BY <4>1, <4>2
      <3>5. QED
        BY <3>2, <3>3, <3>4 DEF Uploaded
    <2>6. Spared
      BY <1>0, <2>1, <2>2 DEF Spared, Removable, RemovableNext, UploadMoves
    <2>7. ReviewHasItsFile'
      BY <1>0, <2>2 DEF IInv, ReviewHasItsFile
    <2>8. NoOrphans'
      <3>1. \A f \in Uploads : InUse(f) => InUse(f)'
        BY <1>3, <2>2 DEF ReceiptsAssumption, InUse, Pointed
      <3>2. InUse(u)'
        BY <2>2 DEF InUse
      <3>3. QED
        BY <1>0, <2>1, <3>1, <3>2 DEF IInv, Types, NoOrphans, UploadMoves
    <2>9. QED
      BY <1>0, <2>3, <2>4, <2>5, <2>6, <2>7, <2>8, BothRemovals, Assembled
  <1>4. upload[u].order \in Orders
    BY <1>0 DEF IInv, Uploaded
  <1>5. QED
    BY <1>2, <1>3, <1>4 DEF Attach

-----------------------------------------------------------------------------
(* prune_receipts and erase_go *)

\* The first file of a removal goes.
LEMMA UnlinkKeeps ==
    ASSUME IInv, NEW r \in Removals, Removing(r), r.list # <<>>, Unlinked(r),
           UNCHANGED <<order, erased, upload, bounds>>
    PROVE  /\ disk' \in [partial : SUBSET Uploads, files : SUBSET Uploads]
           /\ Head(r.list).file \notin disk'.files
           /\ Spared /\ Bounded' /\ OneOrderEach' /\ Uploaded' /\ ReviewHasItsFile' /\ NoOrphans'
  <1> DEFINE f == Head(r.list).file
  <1>1. f \in Uploads /\ Removable(f)
    BY EntriesAreOrdersAndFiles DEF Removing
  <1>2. /\ disk' \in [partial : SUBSET Uploads, files : SUBSET Uploads]
        /\ disk'.files = disk.files \ {f}
    BY DEF Unlinked, IInv, Types
  <1> HIDE DEF f
  <1>3. Spared
    BY <1>2 DEF Spared, Removable, RemovableNext
  <1>4. Bounded' /\ OneOrderEach'
    BY DEF IInv, Bounded, bounds, OneOrderEach, Pointed
  <1>5. Uploaded'
    BY <1>1, <1>2 DEF IInv, Uploaded, Pointed, Removable
  <1>6. ReviewHasItsFile'
    BY <1>1, <1>2 DEF IInv, ReviewHasItsFile, Removable
  <1>7. NoOrphans'
    BY <1>2 DEF IInv, NoOrphans, bounds, InUse
  <1>8. QED
    BY <1>2, <1>3, <1>4, <1>5, <1>6, <1>7 DEF f

LEMMA RowForgotten ==
    ASSUME NEW S, NEW R, NEW A, NEW n \in R, 0 \in A,
           NEW w \in [status : S, receipt : R, age : A],
           NEW v, v = [w EXCEPT !.receipt = n, !.age = 0]
    PROVE  v \in [status : S, receipt : R, age : A] /\ v.status = w.status /\ v.receipt = n
  OBVIOUS

LEMMA RowMoved ==
    ASSUME NEW S, NEW R, NEW A, NEW s \in S, 0 \in A,
           NEW w \in [status : S, receipt : R, age : A],
           NEW v, v = [w EXCEPT !.status = s, !.age = 0]
    PROVE  v \in [status : S, receipt : R, age : A] /\ v.receipt = w.receipt /\ v.status = s
  OBVIOUS

\* The pointer of the first file is cleared once the file is gone.
LEMMA ForgetKeeps ==
    ASSUME ReceiptsAssumption, IInv, NEW r \in Removals, Removing(r), r.unlinked, Forgets(r),
           UNCHANGED <<disk, erased, upload>>
    PROVE  /\ order' \in
                 [Orders -> [status : Statuses, receipt : Uploads \cup {None}, age : Ages]]
           /\ \A o \in Orders : Pointed(o) /\ order'[o].receipt # order[o].receipt =>
                 order'[o].receipt = None /\ order[o].receipt \notin disk.files
           /\ \A o \in Orders : order'[o].receipt \in {order[o].receipt, None}
           /\ Spared /\ OneOrderEach' /\ Uploaded' /\ ReviewHasItsFile' /\ NoOrphans'
  <1> DEFINE f == Head(r.list).file
             o == Head(r.list).order
  <1>1. /\ f \in Uploads /\ o \in Orders /\ f # None
        /\ Removable(f) /\ f \notin disk.files
    BY EntriesAreOrdersAndFiles DEF Removing, ReceiptsAssumption
  <1>2. order' = IF order[o].receipt = f
                 THEN [order EXCEPT ![o].receipt = None, ![o].age = 0] ELSE order
    BY DEF Forgets
  <1> HIDE DEF f, o
  <1>3. /\ order' \in [Orders -> [status : Statuses, receipt : Uploads \cup {None}, age : Ages]]
        /\ \A p \in Orders : order'[p].status = order[p].status
        /\ \A p \in Orders \ {o} : order'[p].receipt = order[p].receipt
        /\ order'[o].receipt = order[o].receipt
           \/ (order[o].receipt = f /\ order'[o].receipt = None)
    <2>1. CASE order[o].receipt = f
      <3>1. order[o] \in [status : Statuses, receipt : Uploads \cup {None}, age : Ages]
        BY <1>1 DEF IInv, Types
      <3>2. PICK v : v = [order[o] EXCEPT !.receipt = None, !.age = 0]
        OBVIOUS
      <3>3. /\ v \in [status : Statuses, receipt : Uploads \cup {None}, age : Ages]
            /\ v.status = order[o].status /\ v.receipt = None
        <4>1. 0 \in Ages /\ None \in Uploads \cup {None}
          BY DEF Ages
        <4>2. QED
          BY ONLY <3>1, <3>2, <4>1, RowForgotten
      <3>4. order' = [order EXCEPT ![o] = v]
        BY <1>1, <1>2, <2>1, <3>1, <3>2 DEF IInv, Types
      <3>5. QED
        BY <1>1, <2>1, <3>3, <3>4 DEF IInv, Types
    <2>2. CASE order[o].receipt # f
      BY <1>2, <2>2 DEF IInv, Types
    <2>3. QED
      BY <2>1, <2>2
  <1>4. Spared
    BY <1>1, <1>3 DEF Spared, Removable, RemovableNext, ReceiptsAssumption
  <1>5. OneOrderEach'
    BY <1>3 DEF IInv, OneOrderEach, Pointed
  <1>6. Uploaded'
    BY <1>3 DEF IInv, Uploaded, Pointed
  <1>7. ReviewHasItsFile'
    BY <1>1, <1>3 DEF IInv, ReviewHasItsFile, Removable
  <1>8. NoOrphans'
    <2>1. \A g \in disk.files : InUse(g) => InUse(g)'
      BY <1>1, <1>3 DEF InUse
    <2>2. QED
      BY <2>1 DEF IInv, NoOrphans
  <1>9. \A p \in Orders : Pointed(p) /\ order'[p].receipt # order[p].receipt =>
            order'[p].receipt = None /\ order[p].receipt \notin disk.files
    BY <1>1, <1>3
  <1>10. \A p \in Orders : order'[p].receipt \in {order[p].receipt, None}
    BY <1>3
  <1>11. QED
    BY <1>3, <1>4, <1>5, <1>6, <1>7, <1>8, <1>9, <1>10

\* Files and receipts stay; an order may move on, but not under review.
LEMMA OrdersMove ==
    ASSUME IInv, UNCHANGED <<disk, upload>>,
           order' \in [Orders -> [status : Statuses, receipt : Uploads \cup {None}, age : Ages]],
           \A o \in Orders : /\ order'[o].receipt = order[o].receipt
                             /\ order'[o].status \in {order[o].status} \cup
                                   (Statuses \ {"pending_review"})
    PROVE  Spared /\ OneOrderEach' /\ Uploaded' /\ ReviewHasItsFile' /\ NoOrphans'
  <1>1. Spared
    BY DEF Spared, Removable, RemovableNext
  <1>2. OneOrderEach' /\ Uploaded'
    BY DEF IInv, OneOrderEach, Uploaded, Pointed
  <1>3. ReviewHasItsFile'
    BY DEF IInv, ReviewHasItsFile
  <1>4. NoOrphans'
    BY DEF IInv, NoOrphans, InUse
  <1>5. QED
    BY <1>1, <1>2, <1>3, <1>4

LEMMA PruneKeeps ==
    ASSUME ReceiptsAssumption, IInv,
           StartPrune \/ PruneUnlink \/ PruneFails \/ PruneForget \/ PruneCancelled
    PROVE  IInv'
  <1>0. prune \in Removals /\ Removing(prune) /\ erase \in Removals /\ Removing(erase) /\ Bounded
    BY DEF IInv, Types
  <1>1. CASE StartPrune
    <2>1. PICK due \in SUBSET Orders :
             /\ \A o \in due : Pointed(o) /\ order[o].status \in Retained
             /\ prune' = Listed(due)
      BY <1>1 DEF StartPrune
    <2>2. UNCHANGED <<order, disk, erased, upload, erase, bounds>>
      BY <1>1 DEF StartPrune
    <2>3. /\ Spared /\ OneOrderEach' /\ Uploaded' /\ ReviewHasItsFile' /\ NoOrphans' /\ Bounded'
      BY <2>2 DEF IInv, Bounded, bounds, Spared, Removable, RemovableNext, OneOrderEach, Uploaded,
                  Pointed, ReviewHasItsFile, NoOrphans, InUse
    <2>4. \A o \in due : Pointed(o) /\ order[o].status # "pending_review"
      BY <2>1 DEF Retained
    <2>5. prune' \in Removals /\ RemovingNext(prune') /\ RemovingNext(erase')
      BY <2>1, <2>2, <2>3, <2>4, NewRemoval, BothRemovals DEF ReceiptsAssumption
    <2>6. Types'
      BY <2>2, <2>5 DEF IInv, Types
    <2>7. QED
      BY <2>3, <2>5, <2>6, Assembled
  <1>2. CASE PruneUnlink
    <2>1. /\ prune.list # <<>> /\ Unlinked(prune) /\ prune' = [prune EXCEPT !.unlinked = TRUE]
          /\ UNCHANGED <<order, erased, upload, erase, bounds>>
      BY <1>2 DEF PruneUnlink
    <2>2. /\ disk' \in [partial : SUBSET Uploads, files : SUBSET Uploads]
          /\ Head(prune.list).file \notin disk'.files /\ Spared
          /\ Bounded' /\ OneOrderEach' /\ Uploaded' /\ ReviewHasItsFile' /\ NoOrphans'
      BY <1>0, <2>1, UnlinkKeeps
    <2>3. prune' \in Removals /\ RemovingNext(prune') /\ RemovingNext(erase')
      BY <1>0, <2>1, <2>2, HeadUnlinked, BothRemovals
    <2>4. Types'
      BY <2>1, <2>2, <2>3 DEF IInv, Types
    <2>5. QED
      BY <2>2, <2>3, <2>4, Assembled
  <1>3. CASE PruneFails
    <2>1. /\ prune' = Idle /\ Bounded'
          /\ UNCHANGED <<order, disk, erased, upload, erase, crashes>>
      BY <1>0, <1>3 DEF PruneFails, Bounded
    <2>2. /\ Spared /\ OneOrderEach' /\ Uploaded' /\ ReviewHasItsFile' /\ NoOrphans'
      BY <2>1 DEF IInv, Spared, Removable, RemovableNext, OneOrderEach, Uploaded,
                  Pointed, ReviewHasItsFile, NoOrphans, InUse
    <2>3. prune' \in Removals /\ RemovingNext(prune') /\ RemovingNext(erase')
      BY <2>1, <2>2, NoRemoval, BothRemovals
    <2>4. Types'
      BY <2>1, <2>3 DEF IInv, Types
    <2>5. QED
      BY <2>1, <2>2, <2>3, <2>4, Assembled
  <1>4. CASE PruneForget
    <2>1. /\ prune.list # <<>> /\ prune.unlinked /\ Forgets(prune) /\ prune' = Rest(prune)
          /\ UNCHANGED <<disk, erased, upload, erase, bounds>>
      BY <1>4 DEF PruneForget
    <2>2. /\ order' \in [Orders -> [status : Statuses, receipt : Uploads \cup {None}, age : Ages]]
          /\ Spared /\ OneOrderEach' /\ Uploaded' /\ ReviewHasItsFile' /\ NoOrphans'
      BY <1>0, <2>1, ForgetKeeps DEF bounds
    <2>3. prune' \in Removals /\ RemovingNext(prune') /\ RemovingNext(erase')
      BY <1>0, <2>1, <2>2, HeadOver, BothRemovals
    <2>4. Types' /\ Bounded'
      BY <1>0, <2>1, <2>2, <2>3 DEF IInv, Types, Bounded, bounds
    <2>5. QED
      BY <2>2, <2>3, <2>4, Assembled
  <1>5. CASE PruneCancelled
    <2>1. /\ prune' = Idle /\ UNCHANGED <<disk, erased, upload, erase>>
          /\ crashes' = crashes + 1 /\ Bounded'
      BY <1>0, <1>5 DEF PruneCancelled, Bounded
    <2>2. CASE prune.unlinked /\ Forgets(prune)
      <3>1. /\ order' \in
                  [Orders -> [status : Statuses, receipt : Uploads \cup {None}, age : Ages]]
            /\ Spared /\ OneOrderEach' /\ Uploaded' /\ ReviewHasItsFile' /\ NoOrphans'
        BY <1>0, <2>1, <2>2, ForgetKeeps
      <3>2. prune' \in Removals /\ RemovingNext(prune') /\ RemovingNext(erase')
        BY <2>1, <3>1, NoRemoval, BothRemovals
      <3>3. Types'
        BY <2>1, <3>1, <3>2 DEF IInv, Types
      <3>4. QED
        BY <2>1, <3>1, <3>2, <3>3, Assembled
    <2>3. CASE UNCHANGED order
      <3>1. /\ Spared /\ OneOrderEach' /\ Uploaded' /\ ReviewHasItsFile' /\ NoOrphans'
        BY <2>1, <2>3 DEF IInv, Spared, Removable, RemovableNext, OneOrderEach, Uploaded,
                    Pointed, ReviewHasItsFile, NoOrphans, InUse
      <3>2. prune' \in Removals /\ RemovingNext(prune') /\ RemovingNext(erase')
        BY <2>1, <3>1, NoRemoval, BothRemovals
      <3>3. Types'
        BY <2>1, <2>3, <3>2 DEF IInv, Types
      <3>4. QED
        BY <2>1, <3>1, <3>2, <3>3, Assembled
    <2>4. QED
      BY <1>5, <2>2, <2>3 DEF PruneCancelled
  <1>6. QED
    BY <1>1, <1>2, <1>3, <1>4, <1>5

LEMMA EraseKeeps ==
    ASSUME ReceiptsAssumption, IInv, Erase \/ EraseUnlink \/ EraseForget
    PROVE  IInv'
  <1>0. prune \in Removals /\ Removing(prune) /\ erase \in Removals /\ Removing(erase) /\ Bounded
    BY DEF IInv, Types
  <1>1. CASE Erase
    <2>1. /\ erased' = TRUE /\ UNCHANGED <<disk, upload, prune, bounds>> /\ Bounded'
          /\ erase' = Listed({o \in Orders : Pointed(o)})
          /\ \A o \in Orders : order[o].status \notin ErasureBlocked
      BY <1>0, <1>1 DEF Erase, Bounded, bounds
    <2>2. order' = [o \in Orders |-> IF order[o].status = "pending_receipt"
                                     THEN [order[o] EXCEPT !.status = "closed", !.age = 0]
                                     ELSE order[o]]
      BY <1>1 DEF Erase
    <2>3. ASSUME NEW o \in Orders
          PROVE  /\ order'[o] \in [status : Statuses, receipt : Uploads \cup {None}, age : Ages]
                 /\ order'[o].receipt = order[o].receipt
                 /\ order'[o].status \in {order[o].status, "closed"}
      <3>1. order[o] \in [status : Statuses, receipt : Uploads \cup {None}, age : Ages]
        BY DEF IInv, Types
      <3>2. CASE order[o].status = "pending_receipt"
        <4>1. order'[o] = [order[o] EXCEPT !.status = "closed", !.age = 0]
          BY <2>2, <3>2
        <4>2. "closed" \in Statuses /\ 0 \in Ages
          BY DEF Statuses, Ages
        <4>3. QED
          BY <3>1, <4>1, <4>2, RowMoved
      <3>3. CASE order[o].status # "pending_receipt"
        BY <2>2, <3>1, <3>3
      <3>4. QED
        BY <3>2, <3>3
    <2>4. order' \in [Orders -> [status : Statuses, receipt : Uploads \cup {None}, age : Ages]]
      BY <2>2, <2>3
    <2>5. \A o \in Orders : order'[o].status \in {order[o].status} \cup
                                                    (Statuses \ {"pending_review"})
      BY <2>3 DEF Statuses
    <2>6. /\ Spared /\ OneOrderEach' /\ Uploaded' /\ ReviewHasItsFile' /\ NoOrphans'
      BY <2>1, <2>3, <2>4, <2>5, OrdersMove DEF bounds
    <2>7. \A o \in {o \in Orders : Pointed(o)} : Pointed(o) /\ order[o].status # "pending_review"
      BY <2>1 DEF ErasureBlocked
    <2>8. erase' \in Removals /\ RemovingNext(erase') /\ RemovingNext(prune')
      BY <2>1, <2>6, <2>7, NewRemoval, BothRemovals DEF ReceiptsAssumption
    <2>9. Types'
      BY <2>1, <2>4, <2>8 DEF IInv, Types
    <2>10. QED
      BY <2>1, <2>6, <2>8, <2>9, Assembled
  <1>2. CASE EraseUnlink
    <2>0. erase.list # <<>> /\ UNCHANGED <<order, erased, upload, prune, crashes, moves>>
      BY <1>2 DEF EraseUnlink
    <2>1. CASE Unlinked(erase) /\ erase' = [erase EXCEPT !.unlinked = TRUE] /\ UNCHANGED errors
      <3>1. UNCHANGED <<order, erased, upload, bounds>>
        BY <2>0, <2>1 DEF bounds
      <3>2. /\ disk' \in [partial : SUBSET Uploads, files : SUBSET Uploads]
            /\ Head(erase.list).file \notin disk'.files /\ Spared
            /\ Bounded' /\ OneOrderEach' /\ Uploaded' /\ ReviewHasItsFile' /\ NoOrphans'
        BY <1>0, <2>0, <2>1, <3>1, UnlinkKeeps
      <3>3. erase' \in Removals /\ RemovingNext(erase') /\ RemovingNext(prune')
        BY <1>0, <2>0, <2>1, <3>2, HeadUnlinked, BothRemovals
      <3>4. Types'
        BY <2>0, <3>2, <3>3 DEF IInv, Types
      <3>5. QED
        BY <3>2, <3>3, <3>4, Assembled
    <2>2. CASE errors' = errors + 1 /\ erase' = Rest(erase) /\ UNCHANGED disk
      <3>1. /\ Spared /\ OneOrderEach' /\ Uploaded' /\ ReviewHasItsFile' /\ NoOrphans'
        BY <2>0, <2>2 DEF IInv, Spared, Removable, RemovableNext, OneOrderEach, Uploaded,
                    Pointed, ReviewHasItsFile, NoOrphans, InUse
      <3>2. erase' \in Removals /\ RemovingNext(erase') /\ RemovingNext(prune')
        BY <1>0, <2>0, <2>2, <3>1, HeadOver, BothRemovals
      <3>3. Types' /\ Bounded'
        BY <1>0, <2>0, <2>2, <3>2 DEF IInv, Types, Bounded
      <3>4. QED
        BY <3>1, <3>2, <3>3, Assembled
    <2>3. QED
      BY <1>2, <2>1, <2>2 DEF EraseUnlink
  <1>3. CASE EraseForget
    <2>1. /\ erase.list # <<>> /\ erase.unlinked /\ erase' = Rest(erase)
          /\ UNCHANGED <<disk, erased, upload, prune>> /\ Bounded'
      BY <1>0, <1>3 DEF EraseForget, Bounded
    <2>2. /\ order' \in [Orders -> [status : Statuses, receipt : Uploads \cup {None}, age : Ages]]
          /\ Spared /\ OneOrderEach' /\ Uploaded' /\ ReviewHasItsFile' /\ NoOrphans'
      <3>1. CASE Forgets(erase)
        BY <1>0, <2>1, <3>1, ForgetKeeps
      <3>2. CASE UNCHANGED order
        BY <2>1, <3>2 DEF IInv, Types, Spared, Removable, RemovableNext, OneOrderEach, Uploaded,
                    Pointed, ReviewHasItsFile, NoOrphans, InUse
      <3>3. QED
        BY <1>3, <3>1, <3>2 DEF EraseForget
    <2>3. erase' \in Removals /\ RemovingNext(erase') /\ RemovingNext(prune')
      BY <1>0, <2>1, <2>2, HeadOver, BothRemovals
    <2>4. Types'
      BY <2>1, <2>2, <2>3 DEF IInv, Types
    <2>5. QED
      BY <2>1, <2>2, <2>3, <2>4, Assembled
  <1>4. QED
    BY <1>1, <1>2, <1>3

-----------------------------------------------------------------------------
(* The rest of the bot, time, and the process *)

LEMMA OthersKeep ==
    ASSUME ReceiptsAssumption, IInv, \E o \in Orders : Move(o) \/ Age(o)
    PROVE  IInv'
  <1>1. PICK o \in Orders : Move(o) \/ Age(o)
    OBVIOUS
  <1>2. UNCHANGED <<disk, erased, upload, prune, erase, crashes>> /\ Bounded'
    BY <1>1 DEF IInv, Move, Age, Bounded, bounds
  <1>3. order[o] \in [status : Statuses, receipt : Uploads \cup {None}, age : Ages]
    BY DEF IInv, Types
  <1>4. PICK v : /\ v \in [status : Statuses, receipt : Uploads \cup {None}, age : Ages]
                 /\ v.receipt = order[o].receipt
                 /\ v.status \in {order[o].status} \cup (Statuses \ {"pending_review"})
                 /\ order' = [order EXCEPT ![o] = v]
    <2>1. CASE Move(o)
      <3>1. PICK status \in Statuses :
               /\ <<order[o].status, status>> \in Moves
               /\ order' = [order EXCEPT ![o].status = status, ![o].age = 0]
        BY <2>1 DEF Move
      <3>2. status # "pending_review"
        BY <3>1 DEF Moves
      <3>3. PICK v : v = [order[o] EXCEPT !.status = status, !.age = 0]
        OBVIOUS
      <3>4. /\ v \in [status : Statuses, receipt : Uploads \cup {None}, age : Ages]
            /\ v.receipt = order[o].receipt /\ v.status = status
        <4>1. 0 \in Ages
          BY DEF Ages
        <4>2. QED
          BY ONLY <1>3, <3>1, <3>3, <4>1, RowMoved
      <3>5. order' = [order EXCEPT ![o] = v]
        BY <3>1, <3>3 DEF IInv, Types
      <3>6. QED
        BY <3>2, <3>4, <3>5
    <2>2. CASE Age(o)
      <3>1. order[o].age < 2 /\ order' = [order EXCEPT ![o].age = @ + 1]
        BY <2>2 DEF Age
      <3>2. PICK v : v = [order[o] EXCEPT !.age = @ + 1]
        OBVIOUS
      <3>3. order[o].age + 1 \in Ages
        BY <1>3, <3>1 DEF Ages
      <3>4. /\ v \in [status : Statuses, receipt : Uploads \cup {None}, age : Ages]
            /\ v.receipt = order[o].receipt /\ v.status = order[o].status
        BY <1>3, <3>2, <3>3
      <3>5. order' = [order EXCEPT ![o] = v]
        BY <3>1, <3>2 DEF IInv, Types
      <3>6. QED
        BY <3>4, <3>5
    <2>3. QED
      BY <1>1, <2>1, <2>2
  <1>5. order' \in [Orders -> [status : Statuses, receipt : Uploads \cup {None}, age : Ages]]
    BY <1>4 DEF IInv, Types
  <1>6. \A p \in Orders : /\ order'[p].receipt = order[p].receipt
                          /\ order'[p].status \in {order[p].status} \cup
                                (Statuses \ {"pending_review"})
    BY <1>4 DEF IInv, Types
  <1>7. /\ Spared /\ OneOrderEach' /\ Uploaded' /\ ReviewHasItsFile' /\ NoOrphans'
    BY <1>2, <1>5, <1>6, OrdersMove
  <1>8. RemovingNext(prune') /\ RemovingNext(erase') /\ Types'
    BY <1>2, <1>5, <1>7, BothRemovals DEF IInv, Types
  <1>9. QED
    BY <1>2, <1>7, <1>8, Assembled

LEMMA CrashKeeps ==
    ASSUME ReceiptsAssumption, IInv, Crash
    PROVE  IInv'
  <1>1. /\ UNCHANGED <<order, disk, erased>> /\ Bounded'
        /\ prune' = Idle /\ erase' = Idle
    BY DEF IInv, Crash, Bounded
  <1>2. ASSUME NEW u \in Uploads
        PROVE  /\ upload'[u] \in Uploading /\ upload'[u].at \in {"sent", "done", "cut"}
               /\ upload[u].at = "done" => upload'[u].at = "done"
               /\ upload[u].at \in Loose => upload'[u].at = "cut"
    <2>1. upload[u] \in Uploading
      BY DEF IInv, Types
    <2>2. upload'[u] = IF upload[u].at \in {"sent", "done"} THEN upload[u]
                       ELSE [upload[u] EXCEPT !.at = "cut"]
      BY DEF Crash
    <2>3. QED
      BY <2>1, <2>2 DEF Uploading, Loose
  <1>3. upload' \in [Uploads -> Uploading]
    BY <1>2 DEF Crash
  <1>4. prune' \in Removals /\ erase' \in Removals /\ RemovingNext(prune') /\ RemovingNext(erase')
    BY <1>1, NoRemoval
  <1>5. Types' /\ OneOrderEach' /\ ReviewHasItsFile'
    BY <1>1, <1>3, <1>4 DEF IInv, Types, OneOrderEach, Pointed, ReviewHasItsFile
  <1>6. Uploaded'
    BY <1>1, <1>2 DEF IInv, Types, Uploaded, Pointed
  <1>7. NoOrphans'
    BY <1>1, <1>2 DEF IInv, Types, NoOrphans, InUse, Loose
  <1>8. QED
    BY <1>1, <1>4, <1>5, <1>6, <1>7, Assembled

-----------------------------------------------------------------------------
(* Theorems *)

LEMMA Beginning ==
    ASSUME Init
    PROVE  IInv
  <1>1. \A o \in Orders : order[o].receipt = None
    BY DEF Init
  <1>2. \A u \in Uploads : upload[u].at = "sent"
    BY DEF Init
  <1>3. Types
    <2>1. order \in [Orders -> [status : Statuses, receipt : Uploads \cup {None}, age : Ages]]
      <3>1. [status : {"unopened", "payment_expired"}, receipt : {None}, age : {0}]
            \subseteq [status : Statuses, receipt : Uploads \cup {None}, age : Ages]
        BY DEF Statuses, Ages
      <3>2. QED
        BY <3>1 DEF Init
    <2>2. upload \in [Uploads -> Uploading]
      BY DEF Init, Uploading
    <2>3. prune \in Removals /\ erase \in Removals
      BY IdleIsRemoval DEF Init
    <2>4. disk \in [partial : SUBSET Uploads, files : SUBSET Uploads] /\ erased \in BOOLEAN
      BY DEF Init
    <2>5. QED
      BY <2>1, <2>2, <2>3, <2>4 DEF Types
  <1>4. Bounded /\ OneOrderEach /\ Uploaded
    BY <1>1, <1>2 DEF Init, Bounded, OneOrderEach, Uploaded, Pointed
  <1>5. Removing(prune) /\ Removing(erase)
    BY IdleIsRemoval DEF Init, Removing
  <1>6. ReviewHasItsFile
    BY DEF Init, ReviewHasItsFile
  <1>7. NoOrphans
    BY DEF Init, NoOrphans
  <1>8. QED
    BY <1>3, <1>4, <1>5, <1>6, <1>7 DEF IInv

LEMMA Inductive ==
    ASSUME ReceiptsAssumption, IInv, [Next]_vars
    PROVE  IInv'
  <1>1. CASE UNCHANGED vars
    BY <1>1 DEF vars, bounds, IInv, Types, Bounded, OneOrderEach, Uploaded, Pointed, Removing,
                Removable, ReviewHasItsFile, NoOrphans, InUse
  <1>2. CASE Next
    BY <1>2, UploadKeeps, AttachKeeps, PruneKeeps, EraseKeeps, OthersKeep, CrashKeeps
       DEF Next, Removal
  <1>3. QED
    BY <1>1, <1>2

\* What an operation knows of its file between two steps stays true while others work on the
\* orders, the files and the profile.
THEOREM Invariance ==
    ASSUME ReceiptsAssumption
    PROVE  Spec => []IInv
  <1>1. Init => IInv
    BY Beginning
  <1>2. IInv /\ [Next]_vars => IInv'
    BY Inductive
  <1>3. QED
    BY <1>1, <1>2, PTL DEF Spec

\* Staff never see an order under review without its receipt, and a file without an order is one
\* that an upload under way holds, or that a crash, or a claim or an unlink that raised, cut off
\* from its order: whatever download, cleanup, erasure or staff do in between, wherever one
\* fails.
THEOREM FilesFollow ==
    ASSUME ReceiptsAssumption
    PROVE  Spec => []FilesFollowTheirOrders
  <1>1. IInv => FilesFollowTheirOrders
    <2> SUFFICES ASSUME IInv PROVE FilesFollowTheirOrders
      OBVIOUS
    <2>1. TypeOK
      BY DEF IInv, Types, Uploading, OneOrderEach, TypeOK
    <2>2. QED
      BY <2>1 DEF IInv, FilesFollowTheirOrders
  <1>2. QED
    BY <1>1, Invariance, PTL

\* A pointer is cleared only behind its file, and nothing is attached to an order of an erased
\* person.
THEOREM ErasedStaysErased ==
    ASSUME ReceiptsAssumption
    PROVE  Spec => NothingComesBack
  <1>1. IInv /\ [Next]_vars => [NothingComesBackStep]_vars
    <2> SUFFICES ASSUME IInv, Next PROVE NothingComesBackStep
      OBVIOUS
    <2>0. prune \in Removals /\ Removing(prune) /\ erase \in Removals /\ Removing(erase)
      BY DEF IInv, Types
    <2>1. CASE \A o \in Orders : order'[o].receipt = order[o].receipt
      BY <2>1 DEF NothingComesBackStep, ForgottenIsGoneStep, NothingAfterErasureStep
    <2>2. CASE \E u \in Uploads : Attach(u)
      <3>1. PICK u \in Uploads : Attach(u)
        BY <2>2
      <3>2. upload[u].order \in Orders
        BY <3>1 DEF IInv, Uploaded, Attach
      <3>3. CASE UNCHANGED order
        BY <2>1, <3>3
      <3>4. CASE ~Pointed(upload[u].order) /\ ~erased /\ Attaches(u, upload[u].order)
        BY <3>2, <3>4 DEF IInv, Types, Attaches, NothingComesBackStep, ForgottenIsGoneStep,
                          NothingAfterErasureStep
      <3>5. QED
        BY <3>1, <3>3, <3>4 DEF Attach
    <2>3. CASE \E r \in {prune, erase} :
                  r.unlinked /\ Forgets(r) /\ UNCHANGED <<disk, erased, upload>>
      <3>1. /\ \A o \in Orders : Pointed(o) /\ order'[o].receipt # order[o].receipt =>
                  order'[o].receipt = None /\ order[o].receipt \notin disk.files
            /\ \A o \in Orders : order'[o].receipt \in {order[o].receipt, None}
        BY <2>0, <2>3, ForgetKeeps
      <3>2. QED
        BY <3>1 DEF NothingComesBackStep, ForgottenIsGoneStep, NothingAfterErasureStep
    <2>4. CASE UNCHANGED order
      BY <2>1, <2>4
    <2>5. CASE \E u \in Uploads :
                  Candidate(u) \/ Download(u) \/ Check(u) \/ Unclaimed(u) \/ UploadFails(u)
      BY <2>4, <2>5 DEF Candidate, Download, Check, Unclaimed, UploadFails
    <2>6. CASE PruneForget \/ PruneCancelled
      BY <2>3, <2>4, <2>6 DEF PruneForget, PruneCancelled
    <2>7. CASE EraseForget
      BY <2>3, <2>4, <2>7 DEF EraseForget
    <2>8. CASE StartPrune \/ PruneUnlink \/ PruneFails \/ EraseUnlink \/ Crash
      BY <2>4, <2>8 DEF StartPrune, PruneUnlink, PruneFails, EraseUnlink, Crash
    <2>9. CASE Erase \/ \E o \in Orders : Move(o) \/ Age(o)
      <3>1. CASE Erase
        BY <2>1, <3>1 DEF Erase, IInv, Types
      <3>2. ASSUME NEW o \in Orders, Move(o) \/ Age(o)
            PROVE  NothingComesBackStep
        <4>1. CASE \E status \in Statuses :
                      order' = [order EXCEPT ![o].status = status, ![o].age = 0]
          BY <2>1, <4>1 DEF IInv, Types
        <4>2. CASE order' = [order EXCEPT ![o].age = @ + 1]
          BY <2>1, <4>2 DEF IInv, Types
        <4>3. QED
          BY <3>2, <4>1, <4>2 DEF Move, Age
      <3>3. QED
        BY <2>9, <3>1, <3>2
    <2>10. QED
      BY <2>2, <2>5, <2>6, <2>7, <2>8, <2>9 DEF Next, Removal
  <1>2. QED
    BY <1>1, Invariance, PTL DEF Spec, NothingComesBack

-----------------------------------------------------------------------------
(* The start of MCProgress *)

UP == INSTANCE WorkProofs WITH
    Legacy <- Legacy, MaxCrashes <- 2, MaxErrors <- 1, file <- x1, conn <- x2, at <- x3,
    first <- x4, crashes <- x5, errors <- x6,
    Profiles <- Profiles, Accounts <- Accounts, Staff <- Staff, Gifted <- Gifted,
    Tasks <- Tasks, Nobody <- Nobody, NoTask <- Nobody, MaxCalls <- 0, MaxCancels <- 0,
    MaxRestarts <- 0, Before <- 0, Periods <- {}, LastDay <- 0, MaxRenewals <- 0,
    MaxDoubts <- 0, MaxKills <- 0, Refunds <- TRUE, Admins <- {}, HoursPerDay <- 1,
    DaysPerMonth <- 1, ReportDay <- 1, MaxClock <- 0, MaxStarts <- 0, MaxSaves <- 0,
    MaxFailures <- 0,                                   \* of the others, which are not here
    account <- x1, used <- x1, names <- x1, onDuty <- x1, queue <- x1, task <- x1,
    disk <- x1, up <- x1, lock <- x1, owner <- x1, seen <- x1, acks <- x1, calls <- x1,
    cancels <- x1, restarts <- x1, sub <- x1, added <- x1, renewals <- x1, now <- x1,
    job <- x1, told <- x1, moved <- x1, unsure <- x1, broken <- x1, kills <- x1,
    phase <- x1, online <- x1, clock <- x1, hour <- x1, trigger <- x1, due <- x1, run <- x1,
    holder <- x1, stamp <- x1, saving <- x1, starts <- x1, saves <- x1, failures <- x1,
    sent <- x1, cut <- x1, lastCheck <- x1, shifted <- x1, skipped <- x1

\* What WorkProofs shows of the start, for the instance in MCProgress.
LEMMA OfMigrations ==
    ASSUME M!MigrationsAssumption
    PROVE  M!Spec => []M!UpgradeIsFaithful
  <1>1. /\ M!Latest = UP!U!Latest /\ M!Objects = UP!U!Objects /\ M!Indexes = UP!U!Indexes
        /\ M!Adding = UP!U!Adding /\ M!Ids = UP!U!Ids /\ M!Confirmed = UP!U!Confirmed
    BY
       DEF M!Latest, UP!U!Latest, M!Objects, UP!U!Objects, M!Indexes, UP!U!Indexes,
           M!Adding, UP!U!Adding, M!Ids, UP!U!Ids, M!Confirmed, UP!U!Confirmed
  <1>2. M!Files = UP!U!Files
    BY <1>1
       DEF M!OrderRows, UP!U!OrderRows, M!SubRows, UP!U!SubRows, M!InvoiceRows,
           UP!U!InvoiceRows, M!RefundRows, UP!U!RefundRows, M!Files, UP!U!Files,
           M!Charges, UP!U!Charges, M!Statuses, UP!U!Statuses
  <1>3. \A S : M!Cardinality(S) = UP!U!Cardinality(S)
    BY DEF M!Cardinality, UP!U!Cardinality
  <1>4. ASSUME NEW db, NEW i
        PROVE  M!Unique(db, i) <=> UP!U!Unique(db, i)
    BY <1>1, <1>3 DEF M!Unique, UP!U!Unique
  <1>5. ASSUME NEW v, NEW db
        PROVE  M!RowsOf(v, db) <=> UP!U!RowsOf(v, db)
    BY <1>1 DEF M!RowsOf, UP!U!RowsOf
  <1>6. UP!U!MigrationsAssumption
    BY <1>1, <1>2, <1>4, <1>5 DEF M!MigrationsAssumption, UP!U!MigrationsAssumption
  <1>7. M!Init => UP!U!Init
    BY <1>1 DEF M!Init, UP!U!Init, M!NoRow, UP!U!NoRow, M!NoFile, UP!U!NoFile
  <1>8. ASSUME NEW db, NEW i
        PROVE  M!Migrated(db, i) = UP!U!Migrated(db, i)
    BY
       DEF M!Adding, UP!U!Adding, M!Ids, UP!U!Ids, M!Confirmed, UP!U!Confirmed,
           M!TaggedDuplicates, UP!U!TaggedDuplicates, M!KeptLongest, UP!U!KeptLongest,
           M!Repaired, UP!U!Repaired, M!WithPayments, UP!U!WithPayments, M!WithReversals,
           UP!U!WithReversals, M!WithTerms, UP!U!WithTerms, M!WithoutIds, UP!U!WithoutIds,
           M!WithRecipients, UP!U!WithRecipients, M!WithUsers, UP!U!WithUsers, M!Changed,
           UP!U!Changed, M!Migrated, UP!U!Migrated
  <1>9. ASSUME NEW db
        PROVE  M!Repaired(db) = UP!U!Repaired(db)
    BY
       DEF M!Ids, UP!U!Ids, M!TaggedDuplicates, UP!U!TaggedDuplicates, M!KeptLongest,
           UP!U!KeptLongest, M!Repaired, UP!U!Repaired
  <1>10. ASSUME NEW db, NEW object
         PROVE  M!Created(db, object) = UP!U!Created(db, object)
    BY <1>1 DEF M!Created, UP!U!Created
  <1>11. M!Next => UP!U!Next
    BY <1>1, <1>4, <1>8, <1>9, <1>10, Zenon
       DEF M!Goes, UP!U!Goes, M!Writes, UP!U!Writes, M!InTransaction, UP!U!InTransaction,
           M!Open, UP!U!Open, M!Schema, UP!U!Schema, M!Stamp, UP!U!Stamp, M!ReadVersion,
           UP!U!ReadVersion, M!Migrate, UP!U!Migrate, M!CommitMigration,
           UP!U!CommitMigration, M!Constrain, UP!U!Constrain, M!Repair, UP!U!Repair,
           M!Error, UP!U!Error, M!Crash, UP!U!Crash, M!Start, UP!U!Start, M!Next,
           UP!U!Next
  <1>12. UP!U!TypeOK => M!TypeOK
    BY <1>2, Zenon DEF M!TypeOK, UP!U!TypeOK
  <1>13. UP!U!ServesCurrentSchema /\ UP!U!StampIsTrue => M!ServesCurrentSchema /\ M!StampIsTrue
    BY <1>1, <1>4
       DEF M!Serving, UP!U!Serving, M!ServesCurrentSchema, UP!U!ServesCurrentSchema,
           M!StampIsTrue, UP!U!StampIsTrue
  <1>14. UP!U!PaymentsAreDated /\ UP!U!ChargesAreKept => M!PaymentsAreDated /\ M!ChargesAreKept
    BY <1>1
       DEF M!Serving, UP!U!Serving, M!PaymentsAreDated, UP!U!PaymentsAreDated,
           M!ChargesAreKept, UP!U!ChargesAreKept
  <1>15. UP!U!LongestIsKept /\ UP!U!OldInvoicesAreClosed /\ UP!U!RecipientsAreKnown
         => M!LongestIsKept /\ M!OldInvoicesAreClosed /\ M!RecipientsAreKnown
    BY <1>1
       DEF M!Serving, UP!U!Serving, M!LongestIsKept, UP!U!LongestIsKept,
           M!OldInvoicesAreClosed, UP!U!OldInvoicesAreClosed, M!RecipientsAreKnown,
           UP!U!RecipientsAreKnown
  <1>16. UP!U!UpgradeIsFaithful => M!UpgradeIsFaithful
    BY <1>12, <1>13, <1>14, <1>15 DEF M!UpgradeIsFaithful, UP!U!UpgradeIsFaithful
  <1>17. [M!Next]_(M!vars) => [UP!U!Next]_(UP!U!vars)
    BY <1>11 DEF M!vars, UP!U!vars
  <1>18. M!Spec => UP!U!Spec
    BY <1>7, <1>17, PTL DEF M!Spec, UP!U!Spec
  <1>19. QED
    BY <1>6, <1>16, <1>18, UP!UpgradeKept, PTL

\* The file of every earlier version comes to the current schema without losing a charge, a
\* date of a payment, a recipient or a running term, whatever may crash or fail on the way.
THEOREM UpgradesKept == ProgressSpec => []UpgradeIsFaithful
  <1> DEFINE Here == part = "migrations"
  <1>1. ProgressInit => (Here => M!Init)
    BY DEF ProgressInit
  <1>2. [ProgressNext]_progressVars => (Here => Here' /\ [M!Next]_(M!vars)) /\ (~Here => ~Here')
    BY DEF ProgressNext, progressVars, others, M!vars
  <1>3. M!Spec => []M!UpgradeIsFaithful
    BY OfMigrations, ProgressAssumption
  <1>4. QED
    BY <1>1, <1>2, <1>3, PTL DEF ProgressSpec, M!Spec, UpgradeIsFaithful
=============================================================================
