------------------------------ MODULE Catalog ------------------------------
(***************************************************************************)
(* The catalog: products and personal offers (db/products.py), the staff   *)
(* dialogues that create, copy, enable and delete them                     *)
(* (handlers/admin/catalog.py, handlers/admin/offers.py), what a client is *)
(* shown (handlers/catalog.py), and the orders, subscriptions and grants   *)
(* that point at products by id and by slug.                               *)
(*                                                                         *)
(* A product is known by two names.  Its id is never given again; its slug *)
(* is free again once the product is deleted, and an offer copied from the *)
(* catalog keeps the slug of its source.  Renewals go by slug.             *)
(***************************************************************************)
EXTENDS Naturals, FiniteSets

CONSTANTS
    Clients,
    Names,          \* what slugify makes of the names staff type
    Staff,
    MaxProducts,    \* bound on rows of products
    MaxBought,      \* bound on orders
    MaxSubs         \* bound on subscriptions

CatalogAssumption ==
    /\ "public" \notin Clients    \* Public, below
    /\ MaxProducts \in Nat /\ MaxBought \in Nat /\ MaxSubs \in Nat

VARIABLES
    product,    \* the rows
    lastProduct,
    order,      \* transfer orders; an open one blocks another of its slug
    lastOrder,
    sub,        \* subscriptions
    lastSub,
    task        \* what a member of staff has read and is about to write

salesVars == <<order, lastOrder, sub, lastSub>>
vars == <<product, lastProduct, salesVars, task>>

Products == 1..MaxProducts
Orders == 1..MaxBought
Subs == 1..MaxSubs
Public == "public"
Owners == Clients \cup {Public}
Slugs == Names \X (1..MaxProducts)

NoProduct == [slug |-> <<>>, owner |-> Public, active |-> FALSE, live |-> FALSE]
NoOrder == [client |-> Public, slug |-> <<>>, product |-> 0, open |-> FALSE]
NoSub == [client |-> Public, slug |-> <<>>, product |-> 0, active |-> FALSE, periods |-> 0]
Idle == [op |-> "idle"]

Live == {p \in 1..lastProduct : product[p].live}
Holding(slug, o) == {p \in Live : product[p].slug = slug /\ product[p].owner = o}
ActiveFor(c, slug) == {s \in Subs : sub[s].active /\ sub[s].client = c /\ sub[s].slug = slug}

-----------------------------------------------------------------------------
(* What a client is shown *)

ListPersonal(c) == {p \in Live : product[p].owner = c /\ product[p].active}

ListPublic == {p \in Live : product[p].owner = Public /\ product[p].active}

\* public_catalog_for: without the products a personal offer stands in for.
PublicCatalogFor(c) ==
    {p \in ListPublic : \A q \in ListPersonal(c) : product[q].slug # product[p].slug}

\* Mutant: an offer that is switched off still stands in for the product.
ResolveDisabled(c, p) ==
    IF ~(p \in Live /\ product[p].active /\ product[p].owner \in {Public, c}) THEN {}
    ELSE LET own == Holding(product[p].slug, c) IN
         IF product[p].owner = Public /\ own # {} THEN own ELSE {p}

\* resolve_visible_product, as a set of at most one product: p, the offer that stands in
\* for it, or none.
Resolve(c, p) ==
    IF ~(p \in Live /\ product[p].active /\ product[p].owner \in {Public, c}) THEN {}
    ELSE LET own == {q \in Holding(product[p].slug, c) : product[q].active} IN
         IF product[p].owner = Public /\ own # {} THEN own ELSE {p}

-----------------------------------------------------------------------------
(* Staff: a handler reads, and writes what it read into a later statement *)

\* unique_slug: the first of name, name-2, name-3 ... that its owner does not have.
NewRead(s, n, o) ==
    /\ task[s] = Idle
    /\ \E k \in 1..MaxProducts :
          /\ Holding(<<n, k>>, o) = {}
          /\ \A j \in 1..(k - 1) : Holding(<<n, j>>, o) # {}
          /\ task' = [task EXCEPT ![s] = [op |-> "insert", slug |-> <<n, k>>,
                                          owner |-> o, active |-> FALSE]]
    /\ UNCHANGED <<product, lastProduct, salesVars>>

\* offer_clone finds the source, and that the client has no offer with its slug.
CloneRead(s, p, c) ==
    /\ task[s] = Idle /\ p \in Live /\ Holding(product[p].slug, c) = {}
    /\ task' = [task EXCEPT ![s] = [op |-> "insert", slug |-> product[p].slug,
                                    owner |-> c, active |-> TRUE]]
    /\ UNCHANGED <<product, lastProduct, salesVars>>

\* create: the database refuses a slug that was taken meanwhile.
Insert(s) ==
    /\ task[s].op = "insert" /\ lastProduct < MaxProducts
    /\ task' = [task EXCEPT ![s] = Idle]
    /\ IF Holding(task[s].slug, task[s].owner) = {}
       THEN /\ lastProduct' = lastProduct + 1
            /\ product' = [product EXCEPT ![lastProduct'] =
                              [slug |-> task[s].slug, owner |-> task[s].owner,
                               active |-> task[s].active, live |-> TRUE]]
       ELSE UNCHANGED <<product, lastProduct>>
    /\ UNCHANGED salesVars

\* product_toggle: the button names the state it asks for.
Toggle(p, on) ==
    /\ p \in Live
    /\ product' = [product EXCEPT ![p].active = on]
    /\ UNCHANGED <<lastProduct, salesVars, task>>

\* delete of db/products.py, for a table that refers to products.
Detached(rows, p) ==
    [x \in DOMAIN rows |-> IF rows[x].product = p THEN [rows[x] EXCEPT !.product = 0]
                           ELSE rows[x]]

\* product_delete: subscriptions and orders stay, without their product.
Delete(p) ==
    /\ p \in Live
    /\ product' = [product EXCEPT ![p] = NoProduct]
    /\ sub' = Detached(sub, p) /\ order' = Detached(order, p)
    /\ UNCHANGED <<lastProduct, lastOrder, lastSub, task>>

\* grant_days looks at the product, which need not be on sale.
GrantRead(s, p, c) ==
    /\ task[s] = Idle /\ p \in Live /\ product[p].owner \in {Public, c}
    /\ task' = [task EXCEPT ![s] = [op |-> "grant", client |-> c, product |-> p,
                                    slug |-> product[p].slug]]
    /\ UNCHANGED <<product, lastProduct, salesVars>>

\* grant_subscription: none for a client who has it running, and a product that was
\* deleted meanwhile fails the foreign key.
Grant(s) ==
    /\ task[s].op = "grant" /\ lastSub < MaxSubs
    /\ task' = [task EXCEPT ![s] = Idle]
    /\ LET g == task[s] IN
       IF g.product \in Live /\ ActiveFor(g.client, g.slug) = {}
       THEN /\ lastSub' = lastSub + 1
            /\ sub' = [sub EXCEPT ![lastSub'] = [client |-> g.client, slug |-> g.slug,
                            product |-> g.product, active |-> TRUE, periods |-> 1]]
       ELSE UNCHANGED <<sub, lastSub>>
    /\ UNCHANGED <<product, lastProduct, order, lastOrder>>

-----------------------------------------------------------------------------
(* Clients *)

\* start_transfer, in one transaction: what the button resolves to now, unless an order
\* for that slug is open.
Buy(c, p) ==
    /\ lastOrder < MaxBought
    /\ \E q \in Resolve(c, p) :
          /\ \A x \in Orders : order[x].open => <<order[x].client, order[x].slug>>
                                                # <<c, product[q].slug>>
          /\ lastOrder' = lastOrder + 1
          /\ order' = [order EXCEPT ![lastOrder'] = [client |-> c, slug |-> product[q].slug,
                                                     product |-> q, open |-> TRUE]]
    /\ UNCHANGED <<product, lastProduct, sub, lastSub, task>>

\* apply_payment: the order extends the running subscription of its slug, or opens one.
Pay(x) ==
    /\ order[x].open
    /\ order' = [order EXCEPT ![x].open = FALSE]
    /\ LET running == ActiveFor(order[x].client, order[x].slug) IN
       \/ /\ \E s \in running : sub' = [sub EXCEPT ![s].periods = @ + 1]
          /\ UNCHANGED lastSub
       \/ /\ running = {} /\ lastSub < MaxSubs
          /\ lastSub' = lastSub + 1
          /\ sub' = [sub EXCEPT ![lastSub'] = [client |-> order[x].client,
                          slug |-> order[x].slug, product |-> order[x].product,
                          active |-> TRUE, periods |-> 1]]
    /\ UNCHANGED <<product, lastProduct, lastOrder, task>>

\* cancel_order, or a refusal by staff.
CancelOrder(x) ==
    /\ order[x].open
    /\ order' = [order EXCEPT ![x].open = FALSE]
    /\ UNCHANGED <<product, lastProduct, lastOrder, sub, lastSub, task>>

\* close_subscription, and the expiry of one.
Close(s) ==
    /\ sub[s].active
    /\ sub' = [sub EXCEPT ![s].active = FALSE]
    /\ UNCHANGED <<product, lastProduct, order, lastOrder, lastSub, task>>

-----------------------------------------------------------------------------

Init ==
    /\ product = [p \in Products |-> NoProduct] /\ lastProduct = 0
    /\ order = [x \in Orders |-> NoOrder] /\ lastOrder = 0
    /\ sub = [s \in Subs |-> NoSub] /\ lastSub = 0
    /\ task = [s \in Staff |-> Idle]

Next ==
    \/ \E s \in Staff : Insert(s) \/ Grant(s)
    \/ \E s \in Staff, n \in Names, o \in Owners : NewRead(s, n, o)
    \/ \E s \in Staff, p \in Products, c \in Clients : CloneRead(s, p, c) \/ GrantRead(s, p, c)
    \/ \E p \in Products, on \in BOOLEAN : Toggle(p, on)
    \/ \E p \in Products : Delete(p) \/ \E c \in Clients : Buy(c, p)
    \/ \E x \in Orders : Pay(x) \/ CancelOrder(x)
    \/ \E s \in Subs : Close(s)

Spec == Init /\ [][Next]_vars

-----------------------------------------------------------------------------
(* Properties *)

\* Types; rows that were never written are empty, and a task's product was once created.
TypeOK ==
    /\ lastProduct \in 0..MaxProducts /\ lastOrder \in 0..MaxBought /\ lastSub \in 0..MaxSubs
    /\ \A p \in Products : \/ product[p] = NoProduct
                           \/ p <= lastProduct /\ product[p] \in
                                [slug : Slugs, owner : Owners, active : BOOLEAN, live : {TRUE}]
    /\ \A x \in Orders : IF x > lastOrder THEN order[x] = NoOrder
                         ELSE order[x] \in [client : Clients, slug : Slugs,
                                            product : 0..lastProduct, open : BOOLEAN]
    /\ \A s \in Subs : IF s > lastSub THEN sub[s] = NoSub
                       ELSE sub[s] \in [client : Clients, slug : Slugs, product : 0..lastProduct,
                                        active : BOOLEAN, periods : 1..(MaxBought + 1)]
    /\ \A s \in Staff : task[s] \in {Idle}
          \cup [op : {"insert"}, slug : Slugs, owner : Owners, active : BOOLEAN]
          \cup [op : {"grant"}, client : Clients, product : 1..lastProduct, slug : Slugs]

\* What a client is listed and what the buttons open are found by different queries.  They
\* agree: every listed product opens as itself, everything that opens is listed, and a
\* client is never offered one slug twice (two cards would share one subscription).
CardsMatchLists ==
    \A c \in Clients :
       LET listed == ListPersonal(c) \cup PublicCatalogFor(c) IN
       /\ UNION {Resolve(c, p) : p \in Products} = listed
       /\ \A p, q \in listed : product[p].slug = product[q].slug => p = q

\* Nobody has bought or been given an offer made for another client.
OffersStayPrivate ==
    /\ \A s \in Subs : sub[s].product # 0 => product[sub[s].product].owner
                                             \in {Public, sub[s].client}
    /\ \A x \in Orders : order[x].product # 0 => product[order[x].product].owner
                                                 \in {Public, order[x].client}

\* No order or subscription points at a product that is gone, though an order may be paid
\* and a grant written after its product was deleted.
LinksAreLive ==
    /\ \A s \in Subs : sub[s].product # 0 => sub[s].product \in Live
    /\ \A x \in Orders : order[x].product # 0 => order[x].product \in Live

\* "Existing subscriptions stay, but they can no longer be renewed from the catalog."
\* The code does not keep it: see Disagreements in README.md.
DeletedIsNotRenewed ==
    [][\A x \in Orders, s \in Subs :
          Pay(x) /\ order[x].product # 0 /\ sub[s].active /\ sub[s].product = 0
             => sub'[s].periods = sub[s].periods]_vars

\* While staff add, hide and delete products, a client's list and the cards behind it agree,
\* offers stay with the client they were made for, and no order or term points at a product
\* that is gone.
OffersAreConsistent ==
    /\ TypeOK /\ CardsMatchLists /\ OffersStayPrivate /\ LinksAreLive
=============================================================================
