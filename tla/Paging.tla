------------------------------- MODULE Paging -------------------------------
(***************************************************************************)
(* Lists in pages: the customer's catalog (handlers/catalog.py,            *)
(* keyboards.catalog) and the lists of the panel (base.page_slice and      *)
(* base.paged_rows, here the products and the orders waiting for staff).   *)
(*                                                                         *)
(* A screen stays in the chat, with its buttons, while products are added, *)
(* moved and removed and the size of a page is changed in the settings; a  *)
(* button asks for the page it was made for.                               *)
(***************************************************************************)
EXTENDS Integers, FiniteSets, SequencesExt

CONSTANTS
    Ids,            \* what may be listed
    PageSize,       \* PAGE_SIZE of the panel
    QueueLimit,     \* QUEUE_LIMIT of the orders waiting for staff
    MaxRows,        \* MAX_ROWS of the catalog
    PerPage         \* values catalog_per_page may have, two and more

PagingAssumption ==
    /\ {PageSize, QueueLimit, MaxRows} \subseteq Nat \ {0} /\ PerPage \subseteq Nat
    /\ MaxRows > 1

VARIABLES
    items,      \* the list, in its order
    perPage,    \* the setting
    screen,     \* the screen last shown
    buttons     \* the pages asked for by buttons in the chat, of each kind of list

vars == <<items, perPage, screen, buttons>>

Kinds == {"catalog", "products", "queue"}
NoScreen == [kind |-> "none", list |-> <<>>, page |-> 0, total |-> 1, body |-> <<>>,
             rows |-> <<>>, nav |-> {}, size |-> 1]

AtLeast(a, b) == IF a >= b THEN a ELSE b
AtMost(a, b) == IF a <= b THEN a ELSE b

-----------------------------------------------------------------------------
(* The arithmetic *)

TotalPages(n, size) == AtLeast(1, (n + size - 1) \div size)

\* clamp_page.
Clamp(n, size, page) == AtLeast(0, AtMost(page, TotalPages(n, size) - 1))

\* items[start : start + size], as Python slices: what is beyond the end is left out.
Slice(list, start, size) ==
    SubSeq(list, start + 1, AtMost(Len(list), start + size))

\* page_slice: the text of a screen of the panel.
PageSlice(list, page) == Slice(list, Clamp(Len(list), PageSize, page) * PageSize, PageSize)

\* Mutant: the last page has no way to it.
NavShort(page, total) ==
    {p \in {page - 1} : page > 0} \cup {p \in {page + 1} : page < total - 2}

\* The arrows of paginate.
Nav(page, total) ==
    {p \in {page - 1} : page > 0} \cup {p \in {page + 1} : page < total - 1}

\* paginate: the buttons of a screen, of items and of pages.
Paginate(list, page, size) ==
    LET total == TotalPages(Len(list), size)
        here == Clamp(Len(list), size, page) IN
    [page |-> here, total |-> total, rows |-> Slice(list, here * size, size),
     nav |-> IF total > 1 THEN Nav(here, total) ELSE {}]

-----------------------------------------------------------------------------
(* Screens *)

CatalogSize == AtMost(MaxRows, AtLeast(2, perPage))

\* keyboards.catalog, whose text lists nothing.
CatalogScreen(page) ==
    LET shown == Paginate(items, page, CatalogSize) IN
    [kind |-> "catalog", list |-> items, page |-> shown.page, total |-> shown.total,
     body |-> shown.rows, rows |-> shown.rows, nav |-> shown.nav, size |-> CatalogSize]

\* A screen of the panel: the lines and the buttons are made apart, of one list.
PanelScreen(kind, list, page) ==
    LET shown == Paginate(list, page, PageSize) IN
    [kind |-> kind, list |-> list, page |-> shown.page, total |-> shown.total,
     body |-> PageSlice(list, page), rows |-> shown.rows, nav |-> shown.nav,
     size |-> PageSize]

\* product_list_view.
ProductsScreen(page) == PanelScreen("products", items, page)

\* orders_list shows the oldest QUEUE_LIMIT.
QueueScreen(page) == PanelScreen("queue", Slice(items, 0, QueueLimit), page)

Screen(kind, page) ==
    CASE kind = "catalog" -> CatalogScreen(page)
      [] kind = "products" -> ProductsScreen(page)
      [] kind = "queue" -> QueueScreen(page)

\* A button of any age is tapped, or the list opened anew.
Show(kind, page) ==
    /\ page \in buttons[kind] \cup {0}
    /\ screen' = Screen(kind, page)
    /\ buttons' = [buttons EXCEPT ![kind] = @ \cup screen'.nav]
    /\ UNCHANGED <<items, perPage>>

Add(id, i) ==
    /\ id \notin ToSet(items) /\ items' = InsertAt(items, i, id)
    /\ UNCHANGED <<perPage, screen, buttons>>

Drop(i) ==
    /\ items' = RemoveAt(items, i)
    /\ UNCHANGED <<perPage, screen, buttons>>

SetPerPage(n) ==
    /\ perPage' = n
    /\ UNCHANGED <<items, screen, buttons>>

Init ==
    /\ items = <<>> /\ perPage \in PerPage
    /\ screen = NoScreen /\ buttons = [k \in Kinds |-> {}]

Next ==
    \/ \E k \in Kinds, p \in 0..Cardinality(Ids) : Show(k, p)
    \/ \E id \in Ids, i \in 1..(Len(items) + 1) : Add(id, i)
    \/ \E i \in DOMAIN items : Drop(i)
    \/ \E n \in PerPage : SetPerPage(n)

Spec == Init /\ [][Next]_vars

-----------------------------------------------------------------------------
(* Properties *)

Shown == screen.kind # "none"

\* Types; the page shown is one of the pages there are.
TypeOK ==
    /\ IsInjective(items) /\ ToSet(items) \subseteq Ids /\ perPage \in PerPage
    /\ screen.kind \in Kinds \cup {"none"} /\ screen.page \in 0..(screen.total - 1)
    /\ screen.nav \subseteq 0..(screen.total - 1)
    /\ buttons \in [Kinds -> SUBSET Nat]

\* A stale button never renders a header over an empty body: a list that has items shows
\* some, and the lines are those of the buttons under them.
LinesAreTheButtons ==
    Shown => /\ screen.body = screen.rows
             /\ screen.list # <<>> => screen.body # <<>>

\* The pages of the list that is on the screen, and those its arrows lead to.
Pages == [p \in 1..screen.total |-> Paginate(screen.list, p - 1, screen.size)]

Reached ==
    LET step[n \in Nat] ==
           IF n = 0 THEN {screen.page}
           ELSE step[n - 1] \cup UNION {Pages[p + 1].nav : p \in step[n - 1]}
    IN step[screen.total]

\* The pages of a list, one after the other, are the list: by the arrows of a screen
\* every item of it can be reached, and none is on two pages.
EverythingIsReached ==
    Shown => /\ FlattenSeq([p \in 1..screen.total |-> Pages[p].rows]) = screen.list
             /\ Reached = 0..(screen.total - 1)

\* Whatever page an old button asks for, the screen shows lines if there are any, its buttons
\* are those lines, and its arrows lead through the whole list, each item once.
PagesAreTheList ==
    /\ TypeOK /\ LinesAreTheButtons /\ EverythingIsReached
=============================================================================
