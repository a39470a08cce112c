------------------------------- MODULE Catalog -------------------------------
(***************************************************************************)
(* The product catalog and everything that writes it: the dashboard's      *)
(* create, edit, delete and CSV import, the sync with Bumpa or Paystack    *)
(* (scheduler, Bumpa webhook, dashboard import) with the update check that *)
(* precedes the scheduled one, and the stock taken for a paid order.       *)
(*                                                                         *)
(* A request is a slot that reads rows at one await and commits at a later *)
(* one; work[h] holds what it has read and been asked.  A commit writes    *)
(* only the columns that differ from what was read, and an UPDATE of a row *)
(* that is gone fails the whole transaction.  The database is PostgreSQL,  *)
(* as in the compose files: ids are never reused, foreign keys cascade.    *)
(*                                                                         *)
(* Two history variables record what the code does not: stale[h] is what   *)
(* others have committed since h read it, blind what has been written by a *)
(* request that was stale about it.  The invariants say that only a blind  *)
(* write can break them.                                                   *)
(***************************************************************************)
EXTENDS Integers, FiniteSets

CONSTANTS
    Handlers,      \* request slots
    Loads,         \* what the slots may serve: functions from slots to sets of kinds
    Externals,     \* external_id values of the connected store
    AlwaysListed,  \* Paystack products that do not ship: in stock at any quantity
    Versions,      \* release versions the update endpoint may report
    Setups,        \* how the connection may be set up (see setup)
    Limit,         \* PLAN_MAX_PRODUCTS (0: unlimited)
    MaxStock,      \* bound on stock quantities
    InitialRows,   \* the rows of the catalog at the start
    InitialOwners, \* the products their variants belong to
    InitialSources,\* what the connected store may sell at the start
    MaxRows,       \* bound on rows ever inserted
    MaxVariants,   \* bound on variants ever inserted
    MaxBatch,      \* bound on the rows of a CSV file
    MaxChanges,    \* bound on changes in the connected store
    MaxFaults,     \* bound on failed fetches and failed requests
    Local,         \* no external_id: a local product
    None

Stocks == 0..MaxStock
Kinds == {"create", "csv", "edit", "delete", "sale", "import", "manual", "job"}
Ids == 1..MaxRows
VariantIds == 1..MaxVariants

\* The columns of catalog_items the handlers read or write; flag is
\* has_variants.
Rows == [ext: Externals \union {Local}, stock: Stocks, listed: BOOLEAN, flag: BOOLEAN]
\* A product as fetch_products reports it.
Offers == [stock: Stocks, listed: BOOLEAN]
OffersOf(e) == {[stock |-> q, listed |-> q > 0 \/ e \in AlwaysListed] : q \in Stocks}
\* An update request: the stock and in_stock fields, and the variants list:
\* absent, or the ids it keeps (touch: with new values) and its rows without id.
Edits == [item: Ids, stock: Stocks \union {None}, listed: BOOLEAN,
          given: BOOLEAN, keep: SUBSET VariantIds, touch: BOOLEAN, fresh: 0..1]
Works == [ask: Edits \union {None}, held: [Ids -> Rows \union {None}],
          marked: SUBSET VariantIds, shelf: [Externals -> Offers \union {None}],
          todo: SUBSET Externals, missing: SUBSET Versions, broken: BOOLEAN,
          keyed: BOOLEAN]
\* What stale and blind speak of: a product's variants or stock, the
\* existence of a row for an external id, the number of products.
Keys == ({"variants", "stock"} \X Ids) \union ({"row"} \X Externals) \union {<<"count", 0>>}

ASSUME SlotAssumption == Loads \subseteq [Handlers -> SUBSET Kinds]
ASSUME StoreAssumption ==
    /\ IsFiniteSet(Externals) /\ AlwaysListed \subseteq Externals
    /\ Setups \subseteq [keyed: BOOLEAN, page: Nat]
    /\ None \notin Edits \union Rows \union Offers \union Stocks \union Ids
    /\ Local \notin Externals
ASSUME InitialAssumption ==
    /\ InitialRows \in [Ids -> Rows \union {None}]
    /\ \A i, j \in Ids : InitialRows[j] # None /\ i < j => InitialRows[i] # None
    /\ InitialOwners \in [VariantIds -> {0} \union {i \in Ids : InitialRows[i] # None}]
    /\ \A v, u \in VariantIds : InitialOwners[u] # 0 /\ v < u => InitialOwners[v] # 0
    /\ \A i \in Ids : InitialRows[i] # None =>
          InitialRows[i].flag = \E v \in VariantIds : InitialOwners[v] = i
    /\ \A i, j \in Ids :
          /\ InitialRows[i] # None /\ InitialRows[j] # None
          /\ InitialRows[i].ext = InitialRows[j].ext /\ InitialRows[i].ext # Local
          => i = j
    /\ InitialSources \subseteq [Externals -> Offers \union {None}]
    /\ Limit > 0 => Cardinality({i \in Ids : InitialRows[i] # None}) <= Limit
ASSUME BoundAssumption ==
    {Limit, MaxStock, MaxRows, MaxVariants, MaxBatch, MaxChanges, MaxFaults} \subseteq Nat

----------------------------------------------------------------------------

VARIABLES
    products,   \* catalog_items: row or None, by id
    owner,      \* product_variants: the product of a variant, 0 for no row
    lastRow,    \* the id sequences
    lastVariant,
    releases,   \* versions in release_notes
    source,     \* what the connected store sells
    setup,      \* whether the environment names the store and holds its key, which
                \* the scheduled sync needs; how many products one fetch asks for
    serves,     \* what each slot may serve
    pc,         \* where each slot's request stands
    work,       \* what it was asked and has read
    stale,      \* history: what was committed over its reads
    blind,      \* history: what was written by a stale request
    imported,   \* history: rows inserted by imports and syncs
    changes,    \* changes in the store so far
    faults      \* failures so far

db == <<products, owner, lastRow, lastVariant, releases>>
history == <<stale, blind, imported>>
vars == <<products, owner, lastRow, lastVariant, releases, source, setup, serves, pc, work,
          stale, blind, imported, changes, faults>>

Stages == {"idle", "insert", "variants", "save", "remove", "sale", "releases",
           "upsert", "fetch", "lookup", "done"}
Resting == {"idle", "done"}

TypeOK ==
    /\ products \in [Ids -> Rows \union {None}]
    /\ owner \in [VariantIds -> Ids \union {0}]
    /\ lastRow \in 0..MaxRows
    /\ lastVariant \in 0..MaxVariants
    /\ releases \subseteq Versions
    /\ source \in [Externals -> Offers \union {None}]
    /\ setup \in Setups
    /\ serves \in Loads
    /\ pc \in [Handlers -> Stages]
    /\ work \in [Handlers -> Works]
    /\ stale \in [Handlers -> SUBSET Keys]
    /\ blind \subseteq Keys
    /\ imported \in 0..MaxRows
    /\ changes \in 0..MaxChanges
    /\ faults \in 0..MaxFaults

Live == {i \in Ids : products[i] # None}
RowsOf(e) == {i \in Live : products[i].ext = e}
VariantsOf(i) == {v \in VariantIds : owner[v] = i}

Idle == [ask |-> None, held |-> [i \in Ids |-> None], marked |-> {},
         shelf |-> [e \in Externals |-> None], todo |-> {}, missing |-> {},
         broken |-> FALSE, keyed |-> FALSE]

Init ==
    /\ products = InitialRows
    /\ owner = InitialOwners
    /\ lastRow = Cardinality(Live)
    /\ lastVariant = Cardinality({v \in VariantIds : owner[v] # 0})
    /\ releases = {}
    /\ source \in InitialSources
    /\ setup \in Setups
    /\ serves \in Loads
    /\ pc = [h \in Handlers |-> "idle"]
    /\ work = [h \in Handlers |-> Idle]
    /\ stale = [h \in Handlers |-> {}]
    /\ blind = {}
    /\ imported = 0
    /\ changes = 0
    /\ faults = 0

----------------------------------------------------------------------------
(***************************************************************************)
(* Requests.                                                               *)
(***************************************************************************)

\* A request of kind k reaches slot h, and goes to stage s holding w.
Serve(h, k, s, w) ==
    /\ pc[h] = "idle"
    /\ k \in serves[h]
    /\ pc' = [pc EXCEPT ![h] = s]
    /\ work' = [work EXCEPT ![h] = w]
    /\ UNCHANGED <<db, source, setup, serves, history, changes, faults>>

Goes(h, s, w) ==
    /\ pc' = [pc EXCEPT ![h] = s]
    /\ work' = [work EXCEPT ![h] = w]

\* What a request for product i holds once it has selected it by its id.
Loaded(ask, i) ==
    [Idle EXCEPT !.ask = ask,
                 !.held = [j \in Ids |-> IF j = i THEN products[i] ELSE None]]

\* The request is over; the scheduler's slot waits for the next interval.
Ends(h) == Goes(h, IF "job" \in serves[h] THEN "idle" ELSE "done", Idle)

\* A commit by h of what it decided from reads of relied; it changes changed.
Commits(h, changed, relied) ==
    /\ stale' = [k \in Handlers |->
                    IF k = h \/ pc[k] \in Resting THEN {} ELSE stale[k] \union changed]
    /\ blind' = blind \union (stale[h] \intersect relied)
    /\ Ends(h)

\* A commit writes a column only if the handler changed it in memory.
Kept(stored, loaded, new) == IF new = loaded THEN stored ELSE new
Flushed(row, old, new) ==
    [ext    |-> row.ext,
     stock  |-> Kept(row.stock, old.stock, new.stock),
     listed |-> Kept(row.listed, old.listed, new.listed),
     flag   |-> Kept(row.flag, old.flag, new.flag)]

\* Any exception at an await: get_db rolls back, the request is answered 500
\* or the job logs it.  A crash of the process is one of these per request.
Fails(h) ==
    /\ pc[h] \notin Resting
    /\ faults < MaxFaults
    /\ faults' = faults + 1
    /\ stale' = [stale EXCEPT ![h] = {}]
    /\ Ends(h)
    /\ UNCHANGED <<db, source, setup, serves, blind, imported, changes>>

\* The transaction of h fails on a row that is gone; nothing of it is kept.
RollsBack(h) ==
    /\ stale' = [stale EXCEPT ![h] = {}]
    /\ Ends(h)
    /\ UNCHANGED <<db, source, setup, serves, blind, imported, changes, faults>>

----------------------------------------------------------------------------
(***************************************************************************)
(* The dashboard.                                                          *)
(***************************************************************************)

\* create_catalog_item counts the products and asks the plan.
HasRoomLeft(n) == Limit <= 0 \/ n <= Limit     \* mutant: off by one
HasRoom(n) == Limit <= 0 \/ n < Limit
CreateCounts(h) ==
    /\ HasRoom(Cardinality(Live))
    /\ Serve(h, "create", "insert", Idle)

\* It inserts the product and, once the flush has given it an id, n variants.
CreateCommits(h) ==
    /\ pc[h] = "insert"
    /\ lastRow < MaxRows
    /\ \E n \in 0..(MaxVariants - lastVariant), q \in Stocks, listed \in BOOLEAN :
         /\ n <= 1
         /\ lastRow' = lastRow + 1
         /\ lastVariant' = lastVariant + n
         /\ products' = [products EXCEPT ![lastRow + 1] =
                [ext |-> Local, stock |-> q, listed |-> listed, flag |-> n > 0]]
         /\ owner' = [v \in VariantIds |->
                IF v \in lastVariant + 1 .. lastVariant + n THEN lastRow + 1 ELSE owner[v]]
    /\ Commits(h, {<<"count", 0>>}, {<<"count", 0>>})
    /\ UNCHANGED <<releases, source, setup, serves, imported, changes, faults>>

\* import_catalog_csv: its n readable rows become new products in stock, in
\* one transaction and without a question to the plan.
ImportsCsv(h) ==
    /\ pc[h] = "idle"
    /\ "csv" \in serves[h]
    /\ \E n \in 1..MaxBatch, q \in Stocks :
         /\ lastRow + n <= MaxRows
         /\ lastRow' = lastRow + n
         /\ imported' = imported + n
         /\ products' = [i \in Ids |->
                IF i \in lastRow + 1 .. lastRow + n
                THEN [ext |-> Local, stock |-> q, listed |-> TRUE, flag |-> FALSE]
                ELSE products[i]]
    /\ Commits(h, {}, {})
    /\ UNCHANGED <<owner, lastVariant, releases, source, setup, serves, changes, faults>>

\* update_catalog_item loads the product; a request that names variants keeps
\* some of those its form showed.  (A request for both is not considered.)
StockEdits(i) ==
    [item: {i}, stock: Stocks, listed: BOOLEAN, given: {FALSE}, keep: {{}},
     touch: {FALSE}, fresh: {0}]
VariantEdits(i) ==
    {ask \in [item: {i}, stock: {None}, listed: {FALSE}, given: {TRUE},
              keep: SUBSET VariantsOf(i), touch: BOOLEAN, fresh: 0..1] :
        ask.touch => ask.keep # {}}
EditLoads(h) ==
    \E i \in Live : \E ask \in StockEdits(i) \union VariantEdits(i) :
        Serve(h, "edit", IF ask.given THEN "variants" ELSE "save", Loaded(ask, i))

\* _replace_variants selects the product's variants.
EditReadsVariants(h) ==
    /\ pc[h] = "variants"
    /\ Goes(h, "save", [work[h] EXCEPT !.marked = VariantsOf(work[h].ask.item)])
    /\ UNCHANGED <<db, source, setup, serves, history, changes, faults>>

\* has_variants follows the list; without one it is left alone.
FlagSetOnly(ask, old) == IF ask.keep # {} \/ ask.fresh > 0 THEN TRUE ELSE old  \* mutant: never reset
FlagAfter(ask, old) == IF ask.given THEN ask.keep # {} \/ ask.fresh > 0 ELSE old
Edited(ask, row) ==
    [row EXCEPT !.stock = IF ask.stock = None THEN @ ELSE ask.stock,
                !.listed = IF ask.stock = None THEN @ ELSE ask.listed,
                !.flag = FlagAfter(ask, @)]

\* Rows of the list whose id is not there (any more) are inserted anew.
Inserted(w) == Cardinality(w.ask.keep \ w.marked) + w.ask.fresh
EditPossible(w) ==
    LET i == w.ask.item
    IN  /\ Edited(w.ask, w.held[i]) # w.held[i] \/ (w.ask.given /\ Inserted(w) > 0)
              => products[i] # None
        /\ w.ask.given /\ w.ask.touch =>
              \A v \in w.ask.keep \intersect w.marked : owner[v] # 0

EditCommits(h) ==
    LET w == work[h]
        i == w.ask.item
        n == IF w.ask.given THEN Inserted(w) ELSE 0
        gone == IF w.ask.given THEN w.marked \ w.ask.keep ELSE {}
    IN  /\ pc[h] = "save"
        /\ EditPossible(w)
        /\ lastVariant + n <= MaxVariants
        /\ lastVariant' = lastVariant + n
        /\ products' = [products EXCEPT ![i] =
               IF @ = None THEN None ELSE Flushed(@, w.held[i], Edited(w.ask, w.held[i]))]
        /\ owner' = [v \in VariantIds |->
               IF v \in lastVariant + 1 .. lastVariant + n THEN i
               ELSE IF v \in gone THEN 0 ELSE owner[v]]
        /\ LET touched == (IF w.ask.given THEN {<<"variants", i>>} ELSE {})
                          \union (IF w.ask.stock # None THEN {<<"stock", i>>} ELSE {})
           IN Commits(h, touched, touched)
        /\ UNCHANGED <<lastRow, releases, source, setup, serves, imported, changes, faults>>

EditFails(h) == pc[h] = "save" /\ ~EditPossible(work[h]) /\ RollsBack(h)

\* delete_catalog_item; a second delete of the row matches nothing.
DeleteLoads(h) ==
    \E i \in Live :
        Serve(h, "delete", "remove", Loaded(None, i))
DeleteCommits(h) ==
    /\ pc[h] = "remove"
    /\ LET i == CHOOSE j \in Ids : work[h].held[j] # None
       IN  /\ products' = [products EXCEPT ![i] = None]
           /\ owner' = [v \in VariantIds |-> IF owner[v] = i THEN 0 ELSE owner[v]]
           /\ Commits(h, {<<"variants", i>>, <<"stock", i>>}
                         \union ({"row"} \X ({work[h].held[i].ext} \ {Local})), {})
    /\ UNCHANGED <<lastRow, lastVariant, releases, source, setup, serves, imported, changes, faults>>

----------------------------------------------------------------------------
(***************************************************************************)
(* A paid order takes one piece of a product from stock.                   *)
(***************************************************************************)

SaleLoads(h) ==
    \E i \in Live :
        Serve(h, "sale", "sale", Loaded(None, i))
SoldBelowZero(row) == [row EXCEPT !.stock = @ - 1, !.listed = @ /\ row.stock > 1]  \* mutant: no clamp
Sold(row) ==
    LET left == IF row.stock > 0 THEN row.stock - 1 ELSE 0
    IN  [row EXCEPT !.stock = left, !.listed = @ /\ left > 0]
SaleCommits(h) ==
    /\ pc[h] = "sale"
    /\ LET i == CHOOSE j \in Ids : work[h].held[j] # None
           new == Sold(work[h].held[i])
       IN  /\ products[i] # None
           /\ products' = [products EXCEPT ![i] = Flushed(@, work[h].held[i], new)]
           /\ Commits(h, {<<"stock", i>>}, {<<"stock", i>>})
    /\ UNCHANGED <<owner, lastRow, lastVariant, releases, source, setup, serves, imported,
                   changes, faults>>
SaleFails(h) ==
    /\ pc[h] = "sale"
    /\ \A i \in Ids : work[h].held[i] # None => products[i] = None
    /\ RollsBack(h)

----------------------------------------------------------------------------
(***************************************************************************)
(* The sync.                                                               *)
(***************************************************************************)

\* The connected store changes, on its own or for an order of ours.
SourceChanges ==
    /\ changes < MaxChanges
    /\ changes' = changes + 1
    /\ \E e \in Externals : \E o \in (OffersOf(e) \union {None}) \ {source[e]} :
          source' = [source EXCEPT ![e] = o]
    /\ UNCHANGED <<db, setup, serves, pc, work, history, faults>>

\* perform_remote_sync, of the scheduler or asked for (at startup, POST /sync,
\* the update page), starts with the update check: the versions reported by
\* the public endpoint or, when it has none, by CommB Cloud.  It syncs the
\* store the environment names, with the key it finds there.
SyncStarts(h, k) ==
    \E reported \in SUBSET Versions :
        Serve(h, k, IF reported = {} THEN "fetch" ELSE "releases",
              [Idle EXCEPT !.missing = reported, !.keyed = setup.keyed])

\* _upsert_releases looks the versions up and inserts those it did not find;
\* one that was inserted meanwhile fails the commit and, as nothing rolls it
\* back, the session.
EveryVersion(reported) == reported     \* mutant: known versions are inserted again
NewVersions(reported) == reported \ releases
LooksUpReleases(h) ==
    /\ pc[h] = "releases"
    /\ Goes(h, "upsert", [work[h] EXCEPT !.missing = NewVersions(@)])
    /\ UNCHANGED <<db, source, setup, serves, history, changes, faults>>
UpsertsReleases(h) ==
    /\ pc[h] = "upsert"
    /\ LET taken == work[h].missing \intersect releases # {}
       IN  /\ releases' = IF taken THEN releases ELSE releases \union work[h].missing
           /\ Goes(h, "fetch", [work[h] EXCEPT !.missing = {}, !.broken = taken])
    /\ UNCHANGED <<products, owner, lastRow, lastVariant, source, setup, serves, history, changes,
                   faults>>

\* The Bumpa webhook and the dashboard's import go straight to the sync, the
\* import with a key of its own, the webhook with one only if there is one.
ImportStarts(h) ==
    \E keyed \in BOOLEAN : Serve(h, "import", "fetch", [Idle EXCEPT !.keyed = keyed])

\* fetch_products: the first page of the store's products as they are now.
\* Which ones come first is the store's affair, and there is no second page.
\* Without a key, or with the local catalog alone, nothing is fetched.
ForSale == {e \in Externals : source[e] # None}
FirstPages ==
    IF Cardinality(ForSale) <= setup.page THEN {ForSale}
    ELSE {p \in SUBSET ForSale : Cardinality(p) = setup.page}
Fetches(h) ==
    /\ pc[h] = "fetch"
    /\ ~work[h].broken
    /\ \E p \in IF work[h].keyed THEN FirstPages ELSE {{}} :
         Goes(h, "lookup", [work[h] EXCEPT
                              !.shelf = [e \in Externals |-> IF e \in p THEN source[e] ELSE None],
                              !.todo = p])
    /\ UNCHANGED <<db, source, setup, serves, history, changes, faults>>

\* With the session in need of a rollback the sync raises.
BrokenSync(h) == pc[h] = "fetch" /\ work[h].broken /\ RollsBack(h)

\* It selects the row of one fetched product; of several, any.
FoundInStock(e) == {i \in RowsOf(e) : products[i].listed}   \* mutant: sold out, not found
Found(e) == RowsOf(e)
LooksUp(h) ==
    /\ pc[h] = "lookup"
    /\ \E e \in work[h].todo : \E i \in IF Found(e) = {} THEN {None} ELSE Found(e) :
         /\ work' = [work EXCEPT ![h].todo = @ \ {e},
                ![h].held = IF i = None THEN @ ELSE [@ EXCEPT ![i] = products[i]]]
         /\ stale' = [stale EXCEPT ![h] = @ \ {<<"row", e>>, <<"stock", i>>}]
    /\ UNCHANGED <<db, source, setup, serves, pc, blind, imported, changes, faults>>

Matched(w) == {i \in Ids : w.held[i] # None}
Fetched(w) == {e \in Externals : w.shelf[e] # None}
New(w) == {e \in Fetched(w) : \A i \in Matched(w) : w.held[i].ext # e}
SyncedOnce(row, offer) == row         \* mutant: an existing row keeps its stock
Synced(row, offer) == [row EXCEPT !.stock = offer.stock, !.listed = offer.listed]
Update(w, i) == Synced(w.held[i], w.shelf[w.held[i].ext])
SyncPossible(w) ==
    \A i \in Matched(w) : Update(w, i) # w.held[i] => products[i] # None

SyncCommits(h) ==
    LET w == work[h]
        n == Cardinality(New(w))
        ids == lastRow + 1 .. lastRow + n
        nth == CHOOSE f \in [ids -> New(w)] : \A e \in New(w) : \E i \in ids : f[i] = e
    IN  /\ pc[h] = "lookup"
        /\ w.todo = {}
        /\ SyncPossible(w)
        /\ lastRow + n <= MaxRows
        /\ lastRow' = lastRow + n
        /\ imported' = imported + n
        /\ products' = [i \in Ids |->
               IF i \in ids
               THEN [ext |-> nth[i], stock |-> w.shelf[nth[i]].stock,
                     listed |-> w.shelf[nth[i]].listed, flag |-> FALSE]
               ELSE IF i \in Matched(w) /\ products[i] # None
               THEN Flushed(products[i], w.held[i], Update(w, i))
               ELSE products[i]]
        /\ Commits(h, ({"row"} \X New(w)) \union ({"stock"} \X Matched(w)),
                      ({"row"} \X New(w)) \union ({"stock"} \X Matched(w)))
        /\ UNCHANGED <<owner, lastVariant, releases, source, setup, serves, changes, faults>>

SyncFails(h) ==
    /\ pc[h] = "lookup"
    /\ work[h].todo = {}
    /\ ~SyncPossible(work[h])
    /\ RollsBack(h)

----------------------------------------------------------------------------

Arrives(h) ==
    \/ CreateCounts(h) \/ ImportsCsv(h) \/ EditLoads(h) \/ DeleteLoads(h)
    \/ SaleLoads(h) \/ ImportStarts(h) \/ SyncStarts(h, "manual")

Step(h) ==
    \/ SyncStarts(h, "job")
    \/ CreateCommits(h)
    \/ EditReadsVariants(h) \/ EditCommits(h) \/ EditFails(h)
    \/ DeleteCommits(h)
    \/ SaleCommits(h) \/ SaleFails(h)
    \/ LooksUpReleases(h) \/ UpsertsReleases(h)
    \/ Fetches(h) \/ BrokenSync(h) \/ LooksUp(h) \/ SyncCommits(h) \/ SyncFails(h)

Next ==
    \/ \E h \in Handlers : Arrives(h) \/ Step(h) \/ Fails(h)
    \/ SourceChanges

\* The event loop runs every coroutine that can go on, and the scheduler
\* starts its job at every interval.  Nobody need use the dashboard.
Spec == Init /\ [][Next]_vars /\ \A h \in Handlers : WF_vars(Step(h))

----------------------------------------------------------------------------
(***************************************************************************)
(* Properties.                                                             *)
(***************************************************************************)

\* has_variants is "kept in sync whenever variants are added/removed"
\* (models/catalog.py): it disagrees with the variant rows only for a product
\* whose variants an edit replaced without having seen another's edit.
FlagAgrees ==
    \A i \in Live :
        <<"variants", i>> \notin blind => products[i].flag = (VariantsOf(i) # {})

\* The sync creates a product once and updates it afterwards: two rows of one
\* external id come only from syncs that both looked before either committed.
OneRowPerExternalId ==
    \A e \in Externals : <<"row", e>> \notin blind => Cardinality(RowsOf(e)) <= 1

\* The plan's product limit is exceeded only by what imports and syncs bring,
\* which do not ask, or by products created over each other.
PlanLimitHolds ==
    Limit > 0 /\ <<"count", 0>> \notin blind => Cardinality(Live) <= Limit + imported

\* A sync is all or nothing: if it writes anything, then every product it
\* fetched is in the catalog as it was fetched, but for rows that others
\* changed or deleted since it looked.
Agrees(row, offer) == row.stock = offer.stock /\ row.listed = offer.listed
SyncMirrors ==
    [][\A h \in Handlers :
         pc[h] = "lookup" /\ pc'[h] # "lookup" /\ products' # products =>
            \A e \in Fetched(work[h]) : <<"row", e>> \notin stale[h] =>
               \E i \in Ids :
                  /\ products'[i] # None /\ products'[i].ext = e
                  /\ <<"stock", i>> \notin stale[h] => Agrees(products'[i], work[h].shelf[e])]_vars

\* Whatever sales, edits, deletes, failed update checks and failed syncs did,
\* once they stop the scheduled job brings the catalog to what the store says,
\* if the environment connects it and all the store sells fits in one page.
Scheduled == setup.keyed /\ \E h \in Handlers : "job" \in serves[h]
Mirrors ==
    \A e \in ForSale : \E i \in Live : products[i].ext = e /\ Agrees(products[i], source[e])
CatalogConverges ==
    Scheduled => <>[](Cardinality(ForSale) <= setup.page => Mirrors)

=============================================================================
