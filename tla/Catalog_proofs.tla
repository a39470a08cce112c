---------------------------- MODULE Catalog_proofs ----------------------------
(***************************************************************************)
(* Proofs about Catalog, for any number of request slots, rows, variants,  *)
(* products of the store, faults and changes: its type correctness, that   *)
(* has_variants agrees with the variants, that the sync does not duplicate *)
(* a product and writes all of what it fetched, and the plan's limit.      *)
(***************************************************************************)
EXTENDS Catalog, FiniteSetTheorems, TLAPS

(***************************************************************************)
(* The inductive invariant.  TypeOK is not inductive: a request holds rows *)
(* that depend on where it stands.                                         *)
(***************************************************************************)
DataOK ==
    /\ products \in [Ids -> Rows \union {None}]
    /\ owner \in [VariantIds -> Ids \union {0}]
    /\ lastRow \in 0..MaxRows
    /\ lastVariant \in 0..MaxVariants
    /\ releases \subseteq Versions
    /\ source \in [Externals -> Offers \union {None}]
    /\ setup \in Setups
    /\ serves \in Loads
    /\ stale \in [Handlers -> SUBSET Keys]
    /\ blind \subseteq Keys
    /\ imported \in 0..MaxRows
    /\ changes \in 0..MaxChanges
    /\ faults \in 0..MaxFaults

WorkOK(s, w) ==
    /\ s \in Resting => w = Idle
    /\ s \in {"variants", "save"} =>
          w.ask \in Edits /\ w.held[w.ask.item] # None /\ (s = "variants" => w.ask.given)
    /\ s \in {"remove", "sale"} => \E i \in Ids : w.held[i] # None
    /\ s \in {"releases", "upsert", "fetch"} => w.held = [i \in Ids |-> None]
    /\ s = "lookup" =>
          /\ w.todo \subseteq Fetched(w)
          /\ \A i \in Matched(w) : w.held[i].ext \in Fetched(w) \ w.todo

TypeInv ==
    /\ DataOK
    /\ pc \in [Handlers -> Stages]
    /\ work \in [Handlers -> Works]
    /\ \A h \in Handlers : WorkOK(pc[h], work[h])

\* Ids are handed out in order, and foreign keys hold.
LiveInv ==
    /\ imported <= lastRow
    /\ \A i \in Live : i <= lastRow
    /\ \A v \in VariantIds : owner[v] # 0 => owner[v] \in Live /\ v <= lastVariant

\* One row for an external id.
RowInv == \A e \in Externals : <<"row", e>> \notin blind => \A i, j \in RowsOf(e) : i = j

TableInv == LiveInv /\ FlagAgrees /\ RowInv /\ PlanLimitHolds

\* What a request at stage s that holds w and has missed the commits in
\* missed may rely on.
HeldRows(w) ==
    \A i \in Matched(w) :
        i <= lastRow /\ (products[i] # None => products[i].ext = w.held[i].ext)

HeldEdit(s, w, missed) ==
    s \in {"variants", "save"} /\ w.ask.given =>
        LET i == w.ask.item
        IN  /\ \/ <<"variants", i>> \in missed
               \/ products[i] # None /\ products[i].flag = w.held[i].flag
            /\ s = "save" =>
                  /\ \A v \in w.marked : owner[v] \in {i, 0} /\ v <= lastVariant
                  /\ <<"variants", i>> \in missed \/ w.marked = VariantsOf(i)

HeldSync(s, w, missed) ==
    s = "lookup" =>
        /\ \A i \in Matched(w) :
              /\ <<"row", w.held[i].ext>> \in missed \/ products[i] # None
              /\ \/ <<"stock", i>> \in missed
                 \/ products[i] # None /\ Agrees(products[i], w.held[i])
        /\ \A e \in New(w) \ w.todo : <<"row", e>> \in missed \/ RowsOf(e) = {}

HeldCount(s, missed) ==
    s = "insert" /\ Limit > 0 =>
        <<"count", 0>> \in missed \/ Cardinality(Live) < Limit + imported

Held(s, w, missed) ==
    HeldRows(w) /\ HeldEdit(s, w, missed) /\ HeldSync(s, w, missed) /\ HeldCount(s, missed)

Inv == TypeInv /\ TableInv /\ \A h \in Handlers : Held(pc[h], work[h], stale[h])

----------------------------------------------------------------------------
(***************************************************************************)
(* How requests move.                                                      *)
(***************************************************************************)

LEMMA Types ==
    ASSUME DataOK
    PROVE  /\ MaxRows \in Nat /\ MaxVariants \in Nat /\ MaxStock \in Nat /\ Limit \in Nat
           /\ lastRow \in Nat /\ lastVariant \in Nat /\ imported \in Nat
           /\ Ids \subseteq Nat \ {0} /\ VariantIds \subseteq Nat \ {0} /\ Stocks \subseteq Nat
           /\ \A i \in Live : i \in Ids /\ products[i] \in Rows
           /\ None \notin Rows /\ None \notin Ids /\ None \notin Edits
           /\ IsFiniteSet(Ids) /\ IsFiniteSet(VariantIds) /\ IsFiniteSet(Live)
<1>1. MaxRows \in Nat /\ MaxVariants \in Nat /\ MaxStock \in Nat /\ Limit \in Nat
  BY BoundAssumption
<1>2. IsFiniteSet(Ids) /\ IsFiniteSet(VariantIds)
  <2>1. 1 \in Int /\ MaxRows \in Int /\ MaxVariants \in Int
    BY <1>1
  <2>2. QED
    BY <2>1, FS_Interval DEF Ids, VariantIds
<1>3. Live \in SUBSET Ids
  BY DEF Live
<1>4. IsFiniteSet(Live)
  BY <1>2, <1>3, FS_Subset
<1>5. None \notin Rows /\ None \notin Ids /\ None \notin Edits
  BY StoreAssumption
<1>6. QED
  BY <1>1, <1>2, <1>4, <1>5 DEF DataOK, Ids, VariantIds, Stocks, Live

LEMMA IdleOK ==
    ASSUME NEW s \in Resting
    PROVE  /\ Idle \in Works /\ WorkOK(s, Idle) /\ Matched(Idle) = {} /\ s \in Stages
           /\ \A missed : DataOK => Held(s, Idle, missed)
<1>1. Idle \in Works
  BY DEF Idle, Works
<1>2. Matched(Idle) = {}
  BY DEF Idle, Matched
<1>3. QED
  BY <1>1, <1>2 DEF WorkOK, Resting, Stages, Held, HeldRows, HeldEdit, HeldSync, HeldCount

\* h goes to stage s holding w; changed is committed, and missed by others.
Moves(h, s, w, changed) ==
    /\ pc' = [pc EXCEPT ![h] = s]
    /\ work' = [work EXCEPT ![h] = w]
    /\ \A k \in Handlers \ {h} : pc[k] \notin Resting => stale'[k] = stale[k] \union changed

LEMMA MovesType ==
    ASSUME TypeInv, NEW h \in Handlers, NEW s \in Stages, NEW w \in Works, WorkOK(s, w),
           NEW changed, Moves(h, s, w, changed), DataOK'
    PROVE  TypeInv'
<1>1. pc' \in [Handlers -> Stages] /\ work' \in [Handlers -> Works]
  BY DEF TypeInv, Moves
<1>2. \A k \in Handlers : WorkOK(pc'[k], work'[k])
  BY DEF TypeInv, Moves
<1>3. QED
  BY <1>1, <1>2 DEF TypeInv, WorkOK

\* A step keeps what the others rely on, or they miss the commit.
LEMMA MovesHeld ==
    ASSUME Inv, NEW h \in Handlers, NEW s \in Stages, NEW w \in Works, WorkOK(s, w),
           NEW changed, Moves(h, s, w, changed), DataOK', TableInv',
           NEW missed, missed = stale'[h], Held(s, w, missed)',
           \A s2 \in Stages, w2 \in Works : \A missed2 :
              WorkOK(s2, w2) /\ Held(s2, w2, missed2) => Held(s2, w2, missed2 \union changed)'
    PROVE  Inv'
<1> USE DEF Inv
<1>1. TypeInv'
  BY MovesType
<1>2. ASSUME NEW k \in Handlers, NEW s2, s2 = pc'[k], NEW w2, w2 = work'[k],
             NEW missed2, missed2 = stale'[k]
      PROVE  Held(s2, w2, missed2)'
  <2>1. CASE k = h
    BY <1>2, <2>1 DEF Moves, TypeInv
  <2>2. CASE k # h
    <3>1. s2 = pc[k] /\ w2 = work[k] /\ s2 \in Stages /\ w2 \in Works /\ WorkOK(s2, w2)
      BY <1>2, <2>2 DEF Moves, TypeInv
    <3>2. Held(s2, w2, stale[k])
      BY <3>1
    <3>3. CASE s2 \in Resting
      <4>1. Matched(w2) = {}
        BY <3>1, <3>3, IdleOK DEF WorkOK
      <4>2. QED
        BY <3>3, <4>1 DEF Held, HeldRows, HeldEdit, HeldSync, HeldCount, Resting
    <3>4. CASE s2 \notin Resting
      <4>1. missed2 = stale[k] \union changed
        BY <1>2, <2>2, <3>1, <3>4 DEF Moves
      <4>2. QED
        BY <3>1, <3>2, <4>1
    <3>5. QED
      BY <3>3, <3>4
  <2>3. QED
    BY <2>1, <2>2
<1>3. ASSUME NEW k \in Handlers
      PROVE  Held(pc[k], work[k], stale[k])'
  <2>1. PICK s2, w2, missed2 : s2 = pc'[k] /\ w2 = work'[k] /\ missed2 = stale'[k]
    OBVIOUS
  <2>2. Held(s2, w2, missed2)'
    BY <1>2, <2>1
  <2>3. HeldRows(work[k])'
    BY <2>1, <2>2 DEF Held, HeldRows
  <2>4. HeldEdit(pc[k], work[k], stale[k])'
    BY <2>1, <2>2 DEF Held, HeldEdit
  <2>5. HeldSync(pc[k], work[k], stale[k])'
    BY <2>1, <2>2 DEF Held, HeldSync
  <2>6. HeldCount(pc[k], stale[k])'
    BY <2>1, <2>2 DEF Held, HeldCount
  <2>7. QED
    BY <2>3, <2>4, <2>5, <2>6 DEF Held
<1>4. QED
  BY <1>1, <1>3

\* What a step does to the tables, and tells the others of.
Effects(changed) ==
    /\ lastRow <= lastRow' /\ lastVariant <= lastVariant'
    /\ \A i \in Live' :
          \/ /\ i \in Live
             /\ products'[i].ext = products[i].ext
             /\ <<"stock", i>> \notin changed => Agrees(products'[i], products[i])
             /\ <<"variants", i>> \notin changed =>
                   products'[i].flag = products[i].flag /\ VariantsOf(i)' = VariantsOf(i)
          \/ /\ i \notin Live /\ i > lastRow
             /\ products'[i].ext # Local => <<"row", products'[i].ext>> \in changed
    /\ \A i \in Live \ Live' :
          /\ <<"variants", i>> \in changed /\ <<"stock", i>> \in changed
          /\ products[i].ext # Local => <<"row", products[i].ext>> \in changed
    /\ \A v \in VariantIds : v <= lastVariant => owner'[v] \in {owner[v], 0}
    /\ \/ <<"count", 0>> \in changed
       \/ Cardinality(Live') - imported' <= Cardinality(Live) - imported

LEMMA HeldKept ==
    ASSUME Inv, DataOK', NEW changed, Effects(changed),
           NEW s \in Stages, NEW w \in Works, NEW missed, WorkOK(s, w), Held(s, w, missed)
    PROVE  Held(s, w, missed \union changed)'
<1> USE DEF Inv, TypeInv
<1> DEFINE more == missed \union changed
<1>a. /\ lastRow \in Nat /\ lastRow' \in Nat /\ lastVariant \in Nat /\ lastVariant' \in Nat
      /\ Ids \subseteq Nat /\ VariantIds \subseteq Nat
  BY Types DEF DataOK
<1>b. /\ \A i : i \in Live <=> i \in Ids /\ products[i] # None
      /\ \A i : i \in Live' <=> i \in Ids /\ products'[i] # None
  BY DEF Live
<1>1. HeldRows(w)'
  <2> SUFFICES ASSUME NEW i \in Matched(w)
               PROVE  i <= lastRow' /\ (products'[i] # None => products'[i].ext = w.held[i].ext)
    BY DEF HeldRows
  <2>1. /\ i \in Ids /\ i <= lastRow
        /\ products[i] # None => products[i].ext = w.held[i].ext
    BY DEF Held, HeldRows, Matched
  <2>2. i <= lastRow'
    BY <1>a, <2>1 DEF Effects
  <2>3. ASSUME products'[i] # None
        PROVE  products'[i].ext = w.held[i].ext
    <3>1. i \in Live'
      BY <1>b, <2>1, <2>3
    <3>2. ~(i > lastRow)
      <4>1. i \in Nat /\ lastRow \in Nat /\ i <= lastRow
        BY <1>a, <2>1
      <4>2. QED
        BY ONLY <4>1, SMT
    <3>3. i \in Live /\ products'[i].ext = products[i].ext
      BY <3>1, <3>2 DEF Effects
    <3>4. QED
      BY <1>b, <2>1, <3>3
  <2>4. QED
    BY <2>2, <2>3
<1>2. HeldEdit(s, w, more)'
  <2> SUFFICES ASSUME s \in {"variants", "save"}, w.ask.given, NEW i \in Ids, i = w.ask.item
               PROVE  /\ \/ <<"variants", i>> \in more
                         \/ products'[i] # None /\ products'[i].flag = w.held[i].flag
                      /\ s = "save" =>
                            /\ \A v \in w.marked : owner'[v] \in {i, 0} /\ v <= lastVariant'
                            /\ <<"variants", i>> \in more \/ w.marked = VariantsOf(i)'
    BY DEF HeldEdit, WorkOK, Edits, VariantsOf
  <2>1. /\ \/ <<"variants", i>> \in missed
           \/ products[i] # None /\ products[i].flag = w.held[i].flag
        /\ s = "save" =>
              /\ \A v \in w.marked : owner[v] \in {i, 0} /\ v <= lastVariant
              /\ <<"variants", i>> \in missed \/ w.marked = VariantsOf(i)
    BY DEF Held, HeldEdit
  <2>2. <<"variants", i>> \in changed \/ i \notin Live
        \/ (i \in Live' /\ products'[i].flag = products[i].flag /\ VariantsOf(i)' = VariantsOf(i))
    <3>1. CASE i \in Live /\ i \in Live'
      BY <3>1 DEF Effects
    <3>2. CASE i \in Live \ Live'
      BY <3>2 DEF Effects
    <3>3. QED
      BY <3>1, <3>2
  <2>3. s = "save" => \A v \in w.marked : owner'[v] \in {i, 0} /\ v <= lastVariant'
    <3>1. w.marked \subseteq VariantIds
      BY DEF Works
    <3>2. ASSUME s = "save", NEW v \in w.marked
          PROVE  owner'[v] \in {i, 0} /\ v <= lastVariant'
      <4>1. v \in VariantIds /\ v \in Nat /\ owner[v] \in {i, 0} /\ v <= lastVariant
        BY <1>a, <2>1, <3>1, <3>2
      <4>2. owner'[v] \in {owner[v], 0} /\ lastVariant <= lastVariant'
        BY <4>1 DEF Effects
      <4>3. v <= lastVariant'
        BY <1>a, <4>1, <4>2
      <4>4. QED
        BY <4>1, <4>2, <4>3
    <3>3. QED
      BY <3>2
  <2>4. i \notin Live => <<"variants", i>> \in missed
    BY <1>b, <2>1
  <2>5. QED
    BY <1>b, <2>1, <2>2, <2>3, <2>4
<1>3. HeldSync(s, w, more)'
  <2> SUFFICES ASSUME s = "lookup"
               PROVE  /\ \A i \in Matched(w) :
                            /\ <<"row", w.held[i].ext>> \in more \/ products'[i] # None
                            /\ \/ <<"stock", i>> \in more
                               \/ products'[i] # None /\ Agrees(products'[i], w.held[i])
                      /\ \A e \in New(w) \ w.todo : <<"row", e>> \in more \/ RowsOf(e)' = {}
    BY DEF HeldSync, Agrees
  <2>1. ASSUME NEW i \in Matched(w)
        PROVE  /\ <<"row", w.held[i].ext>> \in more \/ products'[i] # None
               /\ \/ <<"stock", i>> \in more
                  \/ products'[i] # None /\ Agrees(products'[i], w.held[i])
    <3>1. /\ i \in Ids /\ i <= lastRow
          /\ products[i] # None => products[i].ext = w.held[i].ext
          /\ <<"row", w.held[i].ext>> \in missed \/ products[i] # None
          /\ \/ <<"stock", i>> \in missed
             \/ products[i] # None /\ Agrees(products[i], w.held[i])
      BY DEF Held, HeldRows, HeldSync, Matched
    <3>2. w.held[i].ext # Local
      BY StoreAssumption DEF WorkOK, Fetched
    <3>3. CASE products[i] = None
      BY <3>1, <3>3
    <3>4. CASE products[i] # None /\ products'[i] = None
      BY <1>b, <3>1, <3>2, <3>4 DEF Effects
    <3>5. CASE products[i] # None /\ products'[i] # None
      <4>1. <<"stock", i>> \notin changed => Agrees(products'[i], products[i])
        BY <1>b, <3>1, <3>5 DEF Effects
      <4>2. QED
        BY <3>1, <3>5, <4>1 DEF Agrees
    <3>6. QED
      BY <3>3, <3>4, <3>5
  <2>2. ASSUME NEW e \in New(w) \ w.todo
        PROVE  <<"row", e>> \in more \/ RowsOf(e)' = {}
    <3>1. <<"row", e>> \in missed \/ RowsOf(e) = {}
      BY DEF Held, HeldSync
    <3>2. e # Local
      BY StoreAssumption DEF New, Fetched
    <3>3. QED
      BY <3>1, <3>2 DEF Effects, RowsOf
  <2>3. QED
    BY <2>1, <2>2
<1>4. HeldCount(s, more)'
  <2>1. Cardinality(Live) \in Int /\ Cardinality(Live') \in Int /\ imported \in Int /\ imported' \in Int
        /\ Limit \in Int
    <3>1. IsFiniteSet(Live) /\ IsFiniteSet(Live')
      <4>1. Live' \in SUBSET Ids
        BY DEF Live
      <4>2. QED
        BY <4>1, Types, FS_Subset
    <3>2. QED
      BY <3>1, Types, FS_CardinalityType DEF DataOK
  <2>2. QED
    BY <2>1 DEF Held, HeldCount, Effects
<1>5. QED
  BY <1>1, <1>2, <1>3, <1>4 DEF Held

\* A step that leaves the tables alone: a request comes in, reads or gives up.
LEMMA ReadsInv ==
    ASSUME Inv, NEW h \in Handlers, NEW s \in Stages, NEW w \in Works, WorkOK(s, w),
           Moves(h, s, w, {}), DataOK',
           UNCHANGED <<products, owner, lastRow, lastVariant, blind, imported>>,
           NEW missed, missed = stale'[h], Held(s, w, missed)
    PROVE  Inv'
<1>1. /\ products' = products /\ owner' = owner /\ lastRow' = lastRow
      /\ lastVariant' = lastVariant /\ blind' = blind /\ imported' = imported
  OBVIOUS
<1>2. Live' = Live /\ (\A i : VariantsOf(i)' = VariantsOf(i)) /\ (\A e : RowsOf(e)' = RowsOf(e))
  BY <1>1 DEF Live, VariantsOf, RowsOf
<1>3. TableInv'
  BY <1>1, <1>2 DEF Inv, TableInv, LiveInv, FlagAgrees, RowInv, PlanLimitHolds
<1>4. Held(s, w, missed)'
  BY <1>1, <1>2 DEF Held, HeldRows, HeldEdit, HeldSync, HeldCount
<1>5. ASSUME NEW s2 \in Stages, NEW w2 \in Works, NEW missed2, Held(s2, w2, missed2)'
      PROVE  Held(s2, w2, missed2 \union {})'
  <2>1. missed2 \union {} = missed2
    OBVIOUS
  <2>2. QED
    BY <1>5, <2>1
<1>6. \A s2 \in Stages, w2 \in Works : \A missed2 :
         WorkOK(s2, w2) /\ Held(s2, w2, missed2) => Held(s2, w2, missed2 \union {})'
  <2>1. ASSUME NEW s2 \in Stages, NEW w2 \in Works, NEW missed2, Held(s2, w2, missed2)
        PROVE  Held(s2, w2, missed2)'
    BY <1>1, <1>2, <2>1 DEF Held, HeldRows, HeldEdit, HeldSync, HeldCount
  <2>2. QED
    BY <1>5, <2>1
<1>7. QED
  BY <1>3, <1>4, <1>6, MovesHeld

\* A request that ends holds nothing more.
LEMMA EndsIdle ==
    ASSUME Inv, NEW h \in Handlers, Ends(h)
    PROVE  \E s \in Resting : pc' = [pc EXCEPT ![h] = s] /\ work' = [work EXCEPT ![h] = Idle]
BY DEF Ends, Goes, Resting

\* A commit that keeps the tables and tells the others what it changed.
LEMMA CommitsInv ==
    ASSUME Inv, NEW h \in Handlers, NEW changed, NEW relied, Commits(h, changed, relied),
           DataOK', TableInv', Effects(changed)
    PROVE  Inv'
<1>1. PICK s \in Resting : pc' = [pc EXCEPT ![h] = s] /\ work' = [work EXCEPT ![h] = Idle]
  BY EndsIdle DEF Commits
<1>2. /\ Idle \in Works /\ WorkOK(s, Idle) /\ Matched(Idle) = {} /\ s \in Stages
      /\ s \notin {"insert", "variants", "save", "lookup"}
  BY <1>1, IdleOK DEF Resting
<1>3. Moves(h, s, Idle, changed)
  BY <1>1 DEF Moves, Commits
<1>4. ASSUME NEW missed
      PROVE  Held(s, Idle, missed)'
  BY <1>2 DEF Held, HeldRows, HeldEdit, HeldSync, HeldCount
<1>5. \A s2 \in Stages, w2 \in Works : \A missed2 :
         WorkOK(s2, w2) /\ Held(s2, w2, missed2) => Held(s2, w2, missed2 \union changed)'
  BY HeldKept
<1>6. QED
  BY <1>2, <1>3, <1>4, <1>5, MovesHeld

LEMMA CommitsData ==
    ASSUME Inv, NEW h \in Handlers, NEW changed, changed \subseteq Keys, NEW relied,
           Commits(h, changed, relied)
    PROVE  stale' \in [Handlers -> SUBSET Keys] /\ blind' \subseteq Keys
BY DEF Commits, Inv, TypeInv, DataOK

\* A request that gives up.
LEMMA EndsInv ==
    ASSUME Inv, NEW h \in Handlers, Ends(h), stale' = [stale EXCEPT ![h] = {}],
           UNCHANGED <<db, source, setup, serves, blind, imported, changes>>,
           faults' \in 0..MaxFaults
    PROVE  Inv'
<1>1. PICK s \in Resting : pc' = [pc EXCEPT ![h] = s] /\ work' = [work EXCEPT ![h] = Idle]
  BY EndsIdle
<1>2. /\ Idle \in Works /\ WorkOK(s, Idle) /\ Matched(Idle) = {} /\ s \in Stages
      /\ s \notin {"insert", "variants", "save", "lookup"}
  BY <1>1, IdleOK DEF Resting
<1>3. /\ DataOK' /\ UNCHANGED <<products, owner, lastRow, lastVariant, blind, imported>>
      /\ stale'[h] = {}
  BY DEF Inv, TypeInv, DataOK, db
<1>4. Moves(h, s, Idle, {})
  BY <1>1 DEF Moves, Inv, TypeInv, DataOK
<1>5. Held(s, Idle, {})
  BY <1>2 DEF Held, HeldRows, HeldEdit, HeldSync, HeldCount
<1>6. QED
  BY <1>2, <1>3, <1>4, <1>5, ReadsInv

----------------------------------------------------------------------------
(***************************************************************************)
(* The steps that only read.                                               *)
(***************************************************************************)

LEMMA ServesInv ==
    ASSUME Inv, NEW h \in Handlers, NEW k, NEW s \in Stages, NEW w \in Works, WorkOK(s, w),
           Serve(h, k, s, w), Held(s, w, stale[h])
    PROVE  Inv'
<1>1. DataOK' /\ UNCHANGED <<products, owner, lastRow, lastVariant, blind, imported>>
  BY DEF Inv, TypeInv, DataOK, Serve, db, history
<1>2. Moves(h, s, w, {}) /\ stale'[h] = stale[h]
  BY DEF Moves, Serve, history
<1>3. QED
  BY <1>1, <1>2, ReadsInv

LEMMA GoesInv ==
    ASSUME Inv, NEW h \in Handlers, NEW s \in Stages, NEW w \in Works, WorkOK(s, w),
           Goes(h, s, w), releases' \subseteq Versions,
           UNCHANGED <<products, owner, lastRow, lastVariant, source, setup, serves, history, changes,
                       faults>>,
           Held(s, w, stale[h])
    PROVE  Inv'
<1>1. DataOK' /\ UNCHANGED <<products, owner, lastRow, lastVariant, blind, imported>>
  BY DEF Inv, TypeInv, DataOK, history
<1>2. Moves(h, s, w, {}) /\ stale'[h] = stale[h]
  BY DEF Moves, Goes, history
<1>3. QED
  BY <1>1, <1>2, ReadsInv

LEMMA CreateCountsInv ==
    ASSUME Inv, NEW h \in Handlers, CreateCounts(h)
    PROVE  Inv'
<1>1. Idle \in Works /\ Matched(Idle) = {} /\ WorkOK("insert", Idle)
  BY IdleOK DEF WorkOK, Resting
<1>2. imported \in Nat /\ Limit \in Nat /\ Cardinality(Live) \in Nat
  BY Types, FS_CardinalityType DEF Inv, TypeInv
<1>3. HeldCount("insert", stale[h])
  BY <1>2 DEF HeldCount, CreateCounts, HasRoom
<1>4. Held("insert", Idle, stale[h])
  BY <1>1, <1>3 DEF Held, HeldRows, HeldEdit, HeldSync
<1>5. QED
  BY <1>1, <1>4, ServesInv DEF CreateCounts, Stages

\* What a request for one product holds after it has loaded it.
LEMMA LoadedOK ==
    ASSUME Inv, NEW i \in Live, NEW ask \in Edits \union {None}, NEW w, w = Loaded(ask, i)
    PROVE  w \in Works /\ w.ask = ask /\ w.held[i] = products[i] /\ Matched(w) = {i} /\ HeldRows(w)
<1>1. i \in Ids /\ products[i] # None /\ products[i] \in Rows /\ i <= lastRow
  BY Types DEF Inv, TypeInv, TableInv, LiveInv, Live
<1>2. w = [ask |-> ask, held |-> [j \in Ids |-> IF j = i THEN products[i] ELSE None],
           marked |-> {}, shelf |-> [e \in Externals |-> None], todo |-> {},
           missing |-> {}, broken |-> FALSE, keyed |-> FALSE]
  BY DEF Idle, Loaded
<1>3. w \in Works
  BY <1>1, <1>2 DEF Works
<1>4. w.ask = ask /\ w.held = [j \in Ids |-> IF j = i THEN products[i] ELSE None]
  BY <1>2
<1>5. Matched(w) = {i} /\ w.held[i] = products[i]
  BY <1>1, <1>4 DEF Matched
<1>6. HeldRows(w)
  BY <1>1, <1>5 DEF HeldRows
<1>7. QED
  BY <1>3, <1>4, <1>5, <1>6

LEMMA EditLoadsInv ==
    ASSUME Inv, NEW h \in Handlers, EditLoads(h)
    PROVE  Inv'
<1>1. PICK i \in Live : \E ask \in StockEdits(i) \union VariantEdits(i) :
        Serve(h, "edit", IF ask.given THEN "variants" ELSE "save", Loaded(ask, i))
  BY DEF EditLoads
<1>2. PICK ask \in StockEdits(i) \union VariantEdits(i) :
        Serve(h, "edit", IF ask.given THEN "variants" ELSE "save", Loaded(ask, i))
  BY <1>1
<1>3. i \in Ids /\ products[i] # None
  BY DEF Live
<1>4. ask \in Edits /\ ask.item = i
  <2>1. CASE ask \in StockEdits(i)
    <3>1. ask \in [item: {i}, stock: Stocks, listed: BOOLEAN, given: {FALSE}, keep: {{}},
                   touch: {FALSE}, fresh: {0}]
      BY <2>1 DEF StockEdits
    <3>2. ask.keep \in SUBSET VariantIds /\ ask.fresh \in 0..1
      BY <3>1
    <3>3. ask \in [item: Ids, stock: Stocks \union {None}, listed: BOOLEAN, given: BOOLEAN,
                   keep: SUBSET VariantIds, touch: BOOLEAN, fresh: 0..1]
      BY <1>3, <3>1, <3>2
    <3>4. QED
      BY <3>1, <3>3 DEF Edits
  <2>2. CASE ask \in VariantEdits(i)
    <3>1. ask \in [item: {i}, stock: {None}, listed: {FALSE}, given: {TRUE},
                   keep: SUBSET VariantsOf(i), touch: BOOLEAN, fresh: 0..1]
      BY <2>2 DEF VariantEdits
    <3>2. ask \in [item: Ids, stock: Stocks \union {None}, listed: BOOLEAN, given: BOOLEAN,
                   keep: SUBSET VariantIds, touch: BOOLEAN, fresh: 0..1]
      BY <1>3, <3>1 DEF VariantsOf
    <3>3. QED
      BY <3>1, <3>2 DEF Edits
  <2>3. QED
    BY <1>2, <2>1, <2>2
<1>5. PICK w : w = Loaded(ask, i)
  OBVIOUS
<1>6. PICK s : s = IF ask.given THEN "variants" ELSE "save"
  OBVIOUS
<1>7. w \in Works /\ w.ask = ask /\ w.held[i] = products[i] /\ Matched(w) = {i} /\ HeldRows(w)
  BY <1>4, <1>5, LoadedOK
<1>8. s \in Stages /\ WorkOK(s, w)
  BY <1>3, <1>4, <1>6, <1>7 DEF Stages, WorkOK, Resting
<1>9. Held(s, w, stale[h])
  <2>1. HeldEdit(s, w, stale[h])
    BY <1>3, <1>4, <1>6, <1>7 DEF HeldEdit
  <2>2. QED
    BY <1>6, <1>7, <2>1 DEF Held, HeldSync, HeldCount
<1>10. Serve(h, "edit", s, w)
  BY <1>2, <1>5, <1>6
<1>11. QED
  BY <1>7, <1>8, <1>9, <1>10, ServesInv

LEMMA DeleteLoadsInv ==
    ASSUME Inv, NEW h \in Handlers, DeleteLoads(h) \/ SaleLoads(h)
    PROVE  Inv'
<1>1. PICK s \in {"remove", "sale"}, k \in {"delete", "sale"}, i \in Live :
        Serve(h, k, s, Loaded(None, i))
  BY DEF DeleteLoads, SaleLoads
<1>2. i \in Ids /\ products[i] # None
  BY DEF Live
<1>3. PICK w : w = Loaded(None, i)
  OBVIOUS
<1>4. w \in Works /\ w.held[i] = products[i] /\ Matched(w) = {i} /\ HeldRows(w)
  BY <1>3, LoadedOK
<1>5. s \in Stages /\ WorkOK(s, w)
  BY <1>1, <1>2, <1>4 DEF Stages, WorkOK, Resting
<1>6. Held(s, w, stale[h])
  BY <1>1, <1>4 DEF Held, HeldEdit, HeldSync, HeldCount
<1>7. QED
  BY <1>1, <1>3, <1>4, <1>5, <1>6, ServesInv

LEMMA EditReadsVariantsInv ==
    ASSUME Inv, NEW h \in Handlers, EditReadsVariants(h)
    PROVE  Inv'
<1>1. PICK u \in Works : u = work[h] /\ WorkOK("variants", u) /\ Held("variants", u, stale[h])
  BY DEF EditReadsVariants, Inv, TypeInv
<1>2. u.ask \in Edits /\ u.held[u.ask.item] # None /\ u.ask.given
  BY <1>1 DEF WorkOK
<1>3. PICK i \in Ids : i = u.ask.item
  BY <1>2 DEF Edits
<1>4. PICK w : w = [u EXCEPT !.marked = VariantsOf(i)]
  OBVIOUS
<1>5. w \in Works /\ w.ask = u.ask /\ w.held = u.held /\ w.marked = VariantsOf(i)
  <2>1. VariantsOf(i) \subseteq VariantIds
    BY DEF VariantsOf
  <2>2. QED
    BY <1>4, <2>1 DEF Works
<1>6. WorkOK("save", w)
  BY <1>2, <1>3, <1>5 DEF WorkOK, Resting
<1>7. HeldEdit("save", w, stale[h])
  <2>1. \A v \in VariantsOf(i) : owner[v] = i /\ owner[v] # 0 /\ v <= lastVariant
    BY Types DEF Inv, TypeInv, TableInv, LiveInv, VariantsOf
  <2>2. <<"variants", i>> \in stale[h] \/ (products[i] # None /\ products[i].flag = u.held[i].flag)
    BY <1>1, <1>2, <1>3 DEF Held, HeldEdit
  <2>3. QED
    BY <1>3, <1>5, <2>1, <2>2 DEF HeldEdit
<1>8. HeldRows(w)
  BY <1>1, <1>5 DEF Held, HeldRows, Matched
<1>9. Held("save", w, stale[h])
  BY <1>7, <1>8 DEF Held, HeldSync, HeldCount
<1>10. Goes(h, "save", w) /\ UNCHANGED <<db, source, setup, serves, history, changes, faults>>
  BY <1>1, <1>3, <1>4 DEF EditReadsVariants
<1>11. releases' \subseteq Versions
         /\ UNCHANGED <<products, owner, lastRow, lastVariant, source, setup, serves, history, changes,
                        faults>>
  BY <1>10 DEF Inv, TypeInv, DataOK, db
<1>12. QED
  BY <1>5, <1>6, <1>9, <1>10, <1>11, GoesInv DEF Stages

\* Before the fetch a sync holds no row.
LEMMA EmptyOK ==
    ASSUME NEW w \in Works, w.held = [i \in Ids |-> None],
           NEW s \in {"releases", "upsert", "fetch"}, NEW missed
    PROVE  WorkOK(s, w) /\ Held(s, w, missed) /\ s \in Stages
<1>1. Matched(w) = {}
  BY DEF Matched
<1>2. QED
  BY <1>1 DEF WorkOK, Resting, Held, HeldRows, HeldEdit, HeldSync, HeldCount, Stages

LEMMA SyncStartsInv ==
    ASSUME Inv, NEW h \in Handlers, NEW k, SyncStarts(h, k) \/ ImportStarts(h)
    PROVE  Inv'
<1>1. Idle \in Works /\ Idle.held = [i \in Ids |-> None]
  BY DEF Idle, Works
<1>2. CASE ImportStarts(h)
  <2>1. PICK keyed \in BOOLEAN : Serve(h, "import", "fetch", [Idle EXCEPT !.keyed = keyed])
    BY <1>2 DEF ImportStarts
  <2>2. PICK w : w = [Idle EXCEPT !.keyed = keyed]
    OBVIOUS
  <2>3. w \in Works /\ w.held = [i \in Ids |-> None]
    BY <1>1, <2>2 DEF Works
  <2>4. QED
    BY <2>1, <2>2, <2>3, EmptyOK, ServesInv
<1>3. CASE SyncStarts(h, k)
  <2>1. PICK reported \in SUBSET Versions :
           Serve(h, k, IF reported = {} THEN "fetch" ELSE "releases",
                 [Idle EXCEPT !.missing = reported, !.keyed = setup.keyed])
    BY <1>3 DEF SyncStarts
  <2>2. PICK w : w = [Idle EXCEPT !.missing = reported, !.keyed = setup.keyed]
    OBVIOUS
  <2>3. w \in Works /\ w.held = [i \in Ids |-> None]
    <3>1. setup.keyed \in BOOLEAN
      BY StoreAssumption DEF Inv, TypeInv, DataOK
    <3>2. QED
      BY <1>1, <2>2, <3>1 DEF Works
  <2>4. PICK s \in {"releases", "upsert", "fetch"} :
           s = IF reported = {} THEN "fetch" ELSE "releases"
    OBVIOUS
  <2>5. Serve(h, k, s, w)
    BY <2>1, <2>2, <2>4
  <2>6. QED
    BY <2>3, <2>5, EmptyOK, ServesInv
<1>4. QED
  BY <1>2, <1>3

LEMMA LooksUpReleasesInv ==
    ASSUME Inv, NEW h \in Handlers, LooksUpReleases(h)
    PROVE  Inv'
<1>a. pc[h] = "releases"
  BY DEF LooksUpReleases
<1>1. PICK u \in Works : u = work[h] /\ u.held = [i \in Ids |-> None]
  BY <1>a DEF Inv, TypeInv, WorkOK
<1>2. PICK w : w = [u EXCEPT !.missing = NewVersions(@)]
  OBVIOUS
<1>3. w \in Works /\ w.held = [i \in Ids |-> None]
  BY <1>1, <1>2 DEF Works, NewVersions
<1>4. Goes(h, "upsert", w) /\ UNCHANGED <<db, source, setup, serves, history, changes, faults>>
  BY <1>1, <1>2 DEF LooksUpReleases
<1>5. releases' \subseteq Versions
        /\ UNCHANGED <<products, owner, lastRow, lastVariant, source, setup, serves, history, changes,
                       faults>>
  BY <1>4 DEF Inv, TypeInv, DataOK, db
<1>6. QED
  BY <1>3, <1>4, <1>5, EmptyOK, GoesInv

LEMMA UpsertsReleasesInv ==
    ASSUME Inv, NEW h \in Handlers, UpsertsReleases(h)
    PROVE  Inv'
<1>a. pc[h] = "upsert"
  BY DEF UpsertsReleases
<1>1. PICK u \in Works : u = work[h] /\ u.held = [i \in Ids |-> None]
  BY <1>a DEF Inv, TypeInv, WorkOK
<1>b. PICK taken \in BOOLEAN : taken = (u.missing \intersect releases # {})
  OBVIOUS
<1>c. PICK t \in Works : t = [u EXCEPT !.missing = {}]
  BY DEF Works
<1>2. PICK w : w = [t EXCEPT !.broken = taken]
  OBVIOUS
<1>3. w \in Works /\ w.held = [i \in Ids |-> None]
  BY <1>1, <1>c, <1>2 DEF Works
<1>4. Goes(h, "fetch", w)
        /\ UNCHANGED <<products, owner, lastRow, lastVariant, source, setup, serves, history, changes,
                       faults>>
  BY <1>1, <1>b, <1>c, <1>2 DEF UpsertsReleases
<1>5. releases' \subseteq Versions
  <2>1. u.missing \subseteq Versions /\ releases \subseteq Versions
    BY DEF Works, Inv, TypeInv, DataOK
  <2>2. releases' \in {releases, releases \union u.missing}
    BY <1>1 DEF UpsertsReleases
  <2>3. QED
    BY <2>1, <2>2
<1>6. QED
  BY <1>3, <1>4, <1>5, EmptyOK, GoesInv

LEMMA FetchesInv ==
    ASSUME Inv, NEW h \in Handlers, Fetches(h)
    PROVE  Inv'
<1>1. PICK u \in Works : u = work[h] /\ u.held = [i \in Ids |-> None]
  BY DEF Fetches, Inv, TypeInv, WorkOK
<1>a. PICK p : /\ p \subseteq ForSale
               /\ Goes(h, "lookup", [u EXCEPT
                     !.shelf = [e \in Externals |-> IF e \in p THEN source[e] ELSE None],
                     !.todo = p])
  BY <1>1 DEF Fetches, FirstPages
<1>b. PICK shelf : shelf = [e \in Externals |-> IF e \in p THEN source[e] ELSE None]
  OBVIOUS
<1>c. shelf \in [Externals -> Offers \union {None}] /\ p \in SUBSET Externals
  BY <1>a, <1>b DEF ForSale, Inv, TypeInv, DataOK
<1>2. PICK w : w = [u EXCEPT !.shelf = shelf, !.todo = p]
  OBVIOUS
<1>3. w \in Works /\ w.held = u.held /\ w.shelf = shelf /\ w.todo = p
  BY <1>1, <1>c, <1>2 DEF Works
<1>4. Matched(w) = {} /\ Fetched(w) = w.todo
  BY <1>1, <1>3, <1>a, <1>b DEF Matched, Fetched, ForSale
<1>5. WorkOK("lookup", w)
  BY <1>4 DEF WorkOK, Resting
<1>6. Held("lookup", w, stale[h])
  BY <1>4 DEF Held, HeldRows, HeldEdit, HeldSync, HeldCount, New
<1>7. Goes(h, "lookup", w) /\ UNCHANGED <<db, source, setup, serves, history, changes, faults>>
  BY <1>1, <1>a, <1>b, <1>2 DEF Fetches
<1>8. releases' \subseteq Versions
        /\ UNCHANGED <<products, owner, lastRow, lastVariant, source, setup, serves, history, changes,
                       faults>>
  BY <1>7 DEF Inv, TypeInv, DataOK, db
<1>9. QED
  BY <1>3, <1>5, <1>6, <1>7, <1>8, GoesInv DEF Stages

\* A looked-up product is held as it is, and nothing about it is missed.
LEMMA LooksUpInv ==
    ASSUME Inv, NEW h \in Handlers, LooksUp(h)
    PROVE  Inv'
<1>a. pc[h] = "lookup" /\ pc \in [Handlers -> Stages]
  BY DEF LooksUp, Inv, TypeInv
<1>1. PICK u \in Works : u = work[h] /\ WorkOK("lookup", u) /\ Held("lookup", u, stale[h])
  BY <1>a DEF Inv, TypeInv
<1>2. PICK e \in u.todo : \E i \in IF Found(e) = {} THEN {None} ELSE Found(e) :
         /\ work' = [work EXCEPT ![h].todo = @ \ {e},
                ![h].held = IF i = None THEN @ ELSE [@ EXCEPT ![i] = products[i]]]
         /\ stale' = [stale EXCEPT ![h] = @ \ {<<"row", e>>, <<"stock", i>>}]
  BY <1>1 DEF LooksUp
<1>3. PICK i \in IF Found(e) = {} THEN {None} ELSE Found(e) :
         /\ work' = [work EXCEPT ![h].todo = @ \ {e},
                ![h].held = IF i = None THEN @ ELSE [@ EXCEPT ![i] = products[i]]]
         /\ stale' = [stale EXCEPT ![h] = @ \ {<<"row", e>>, <<"stock", i>>}]
  BY <1>2
<1>4. UNCHANGED <<db, source, setup, serves, pc, blind, imported, changes, faults>>
  BY DEF LooksUp
<1>b. None \notin Ids
  BY StoreAssumption
<1>c. /\ e \in Externals /\ e \in Fetched(u) /\ u.todo \subseteq Fetched(u)
      /\ \A j \in Matched(u) : u.held[j].ext \in Fetched(u) \ u.todo
  BY <1>1 DEF WorkOK, Fetched
<1>5. PICK held : held = IF i = None THEN u.held ELSE [u.held EXCEPT ![i] = products[i]]
  OBVIOUS
<1>6. PICK t : t = [u EXCEPT !.todo = @ \ {e}]
  OBVIOUS
<1>7. PICK w : w = [t EXCEPT !.held = held]
  OBVIOUS
<1>8. work' = [work EXCEPT ![h] = w]
  BY <1>1, <1>3, <1>5, <1>6, <1>7 DEF Inv, TypeInv, Works
<1>9. PICK missed : missed = stale[h] \ {<<"row", e>>, <<"stock", i>>}
  OBVIOUS
<1>10. missed \subseteq stale[h] /\ stale' = [stale EXCEPT ![h] = missed]
  BY <1>3, <1>9 DEF Inv, TypeInv, DataOK
<1>11. held \in [Ids -> Rows \union {None}]
       /\ \A j \in Ids : held[j] = IF j = i THEN products[i] ELSE u.held[j]
  <2>1. u.held \in [Ids -> Rows \union {None}] /\ products \in [Ids -> Rows \union {None}]
    BY DEF Works, Inv, TypeInv, DataOK
  <2>2. i = None \/ i \in Ids
    BY DEF Found, RowsOf, Live
  <2>3. QED
    BY <1>5, <1>b, <2>1, <2>2
<1>12. w \in Works /\ w.held = held /\ w.todo = u.todo \ {e} /\ w.shelf = u.shelf
  <2>1. t \in Works /\ t.todo = u.todo \ {e} /\ t.shelf = u.shelf
    BY <1>6 DEF Works
  <2>2. QED
    BY <1>7, <1>11, <2>1 DEF Works
<1>13. i \in Ids => i \in Live /\ products[i] # None /\ products[i].ext = e /\ i <= lastRow
  BY <1>b DEF Found, RowsOf, Live, Inv, TableInv, LiveInv
<1>14. i \notin Ids => RowsOf(e) = {}
  BY DEF Found, RowsOf, Live
<1>15. ASSUME NEW j \in Matched(w), j # i
       PROVE  j \in Matched(u) /\ w.held[j] = u.held[j] /\ u.held[j].ext # e
  <2>1. j \in Matched(u) /\ w.held[j] = u.held[j]
    BY <1>11, <1>12, <1>15 DEF Matched
  <2>2. QED
    BY <1>c, <2>1
<1>16. ASSUME NEW j \in Matched(w), j = i
       PROVE  i \in Ids /\ w.held[j] = products[i]
  BY <1>11, <1>12, <1>16 DEF Matched
<1>17. Fetched(w) = Fetched(u)
  BY <1>12 DEF Fetched
<1>18. WorkOK("lookup", w)
  <2>1. w.todo \subseteq Fetched(w)
    BY <1>c, <1>12, <1>17
  <2>2. ASSUME NEW j \in Matched(w)
        PROVE  w.held[j].ext \in Fetched(w) \ w.todo
    BY <1>c, <1>12, <1>13, <1>15, <1>16, <1>17
  <2>3. QED
    BY <2>1, <2>2 DEF WorkOK, Resting
<1>19. HeldRows(w)
  <2> SUFFICES ASSUME NEW j \in Matched(w)
               PROVE  j <= lastRow /\ (products[j] # None => products[j].ext = w.held[j].ext)
    BY DEF HeldRows
  <2>1. CASE j = i
    BY <1>13, <1>16, <2>1
  <2>2. CASE j # i
    BY <1>1, <1>15, <2>2 DEF Held, HeldRows
  <2>3. QED
    BY <2>1, <2>2
<1>20. ASSUME NEW j \in Matched(w)
       PROVE  /\ <<"row", w.held[j].ext>> \in missed \/ products[j] # None
              /\ \/ <<"stock", j>> \in missed
                 \/ products[j] # None /\ Agrees(products[j], w.held[j])
  <2>1. CASE j = i
    BY <1>13, <1>16, <2>1 DEF Agrees
  <2>2. CASE j # i
    <3>1. j \in Matched(u) /\ w.held[j] = u.held[j] /\ u.held[j].ext # e
      BY <1>15, <2>2
    <3>2. /\ <<"row", u.held[j].ext>> \in stale[h] \/ products[j] # None
          /\ \/ <<"stock", j>> \in stale[h]
             \/ products[j] # None /\ Agrees(products[j], u.held[j])
      BY <1>1, <3>1 DEF Held, HeldSync
    <3>3. /\ <<"row", u.held[j].ext>> \notin {<<"row", e>>, <<"stock", i>>}
          /\ <<"stock", j>> \notin {<<"row", e>>, <<"stock", i>>}
      BY <2>2, <3>1
    <3>4. QED
      BY <1>9, <3>1, <3>2, <3>3
  <2>3. QED
    BY <2>1, <2>2
<1>21. ASSUME NEW e2 \in New(w) \ w.todo
       PROVE  <<"row", e2>> \in missed \/ RowsOf(e2) = {}
  <2>1. CASE e2 = e
    <3>1. i \notin Ids
      <4> SUFFICES ASSUME i \in Ids
                   PROVE  FALSE
        OBVIOUS
      <4>1. i \in Matched(w) /\ w.held[i].ext = e
        BY <1>11, <1>12, <1>13 DEF Matched
      <4>2. QED
        BY <2>1, <4>1 DEF New
    <3>2. QED
      BY <1>14, <2>1, <3>1
  <2>2. CASE e2 # e
    <3>1. \A j \in Matched(u) : j = i \/ (j \in Matched(w) /\ w.held[j] = u.held[j])
      BY <1>11, <1>12 DEF Matched
    <3>2. i \in Matched(u) => FALSE
      BY <1>1, <1>13, <1>c DEF Held, HeldRows, Matched
    <3>3. e2 \in New(u) \ u.todo
      BY <1>12, <1>17, <2>2, <3>1, <3>2 DEF New
    <3>4. <<"row", e2>> \in stale[h] \/ RowsOf(e2) = {}
      BY <1>1, <3>3 DEF Held, HeldSync
    <3>5. <<"row", e2>> \notin {<<"row", e>>, <<"stock", i>>}
      BY <2>2
    <3>6. QED
      BY <1>9, <3>4, <3>5
  <2>3. QED
    BY <2>1, <2>2
<1>22. Held("lookup", w, missed)
  <2>1. HeldSync("lookup", w, missed)
    BY <1>20, <1>21 DEF HeldSync
  <2>2. QED
    BY <1>19, <2>1 DEF Held, HeldEdit, HeldCount
<1>23. DataOK' /\ UNCHANGED <<products, owner, lastRow, lastVariant, blind, imported>>
  BY <1>4, <1>10 DEF Inv, TypeInv, DataOK, db
<1>24. Moves(h, "lookup", w, {}) /\ missed = stale'[h]
  BY <1>a, <1>4, <1>8, <1>10 DEF Moves, Inv, TypeInv, DataOK
<1>25. "lookup" \in Stages
  BY DEF Stages
<1>26. QED
  BY <1>12, <1>18, <1>22, <1>23, <1>24, <1>25, ReadsInv

LEMMA FailsInv ==
    ASSUME Inv, NEW h \in Handlers,
           Fails(h) \/ EditFails(h) \/ SaleFails(h) \/ BrokenSync(h) \/ SyncFails(h)
    PROVE  Inv'
<1>1. /\ Ends(h) /\ stale' = [stale EXCEPT ![h] = {}]
      /\ UNCHANGED <<db, source, setup, serves, blind, imported, changes>>
      /\ faults' \in 0..MaxFaults
  <2>1. faults \in 0..MaxFaults /\ MaxFaults \in Nat
    BY BoundAssumption DEF Inv, TypeInv, DataOK
  <2>2. CASE Fails(h)
    BY <2>1, <2>2 DEF Fails
  <2>3. CASE EditFails(h) \/ SaleFails(h) \/ BrokenSync(h) \/ SyncFails(h)
    BY <2>1, <2>3 DEF EditFails, SaleFails, BrokenSync, SyncFails, RollsBack
  <2>4. QED
    BY <2>2, <2>3
<1>2. QED
  BY <1>1, EndsInv

\* What no request does: the store changes, or nothing happens.
LEMMA OthersInv ==
    ASSUME Inv, SourceChanges \/ UNCHANGED vars
    PROVE  Inv'
<1>1. UNCHANGED <<products, owner, lastRow, lastVariant, releases, setup, serves, pc, work, stale, blind,
                  imported, faults>>
  BY DEF SourceChanges, vars, db, history
<1>2. source' \in [Externals -> Offers \union {None}] /\ changes' \in 0..MaxChanges
  <2>1. CASE SourceChanges
    <3>1. changes' \in 0..MaxChanges
      BY <2>1, BoundAssumption DEF SourceChanges, Inv, TypeInv, DataOK
    <3>2. \A e \in Externals : OffersOf(e) \subseteq Offers
      <4> SUFFICES ASSUME NEW e \in Externals, NEW o \in OffersOf(e)
                   PROVE  o \in Offers
        OBVIOUS
      <4>1. PICK q \in Stocks : o = [stock |-> q, listed |-> q > 0 \/ e \in AlwaysListed]
        BY Zenon DEF OffersOf
      <4>2. PICK l \in BOOLEAN : l = (q > 0 \/ e \in AlwaysListed)
        OBVIOUS
      <4>3. o = [stock |-> q, listed |-> l]
        BY <4>1, <4>2, Zenon
      <4>4. QED
        BY <4>3 DEF Offers
    <3>3. QED
      BY <2>1, <3>1, <3>2 DEF SourceChanges, Inv, TypeInv, DataOK
  <2>2. CASE UNCHANGED vars
    BY <2>2 DEF vars, Inv, TypeInv, DataOK
  <2>3. QED
    BY <2>1, <2>2
<1>3. TypeInv'
  BY <1>1, <1>2 DEF Inv, TypeInv, DataOK, WorkOK, Idle, Matched, Fetched
<1>4. Live' = Live /\ (\A i : VariantsOf(i)' = VariantsOf(i)) /\ (\A e : RowsOf(e)' = RowsOf(e))
  BY <1>1 DEF Live, VariantsOf, RowsOf
<1>5. TableInv'
  BY <1>1, <1>4 DEF Inv, TableInv, LiveInv, FlagAgrees, RowInv, PlanLimitHolds
<1>6. \A h \in Handlers : Held(pc[h], work[h], stale[h])'
  BY <1>1, <1>4 DEF Inv, Held, HeldRows, HeldEdit, HeldSync, HeldCount, Agrees
<1>7. QED
  BY <1>3, <1>5, <1>6 DEF Inv

----------------------------------------------------------------------------
(***************************************************************************)
(* What the commits have in common, and the commits.                       *)
(***************************************************************************)

\* The next n ids are free.
LEMMA FreshRows ==
    ASSUME Inv, NEW n \in Nat, NEW ids, ids = lastRow + 1 .. lastRow + n
    PROVE  /\ ids \intersect Live = {} /\ ids \subseteq Nat \ {0} /\ IsFiniteSet(ids)
           /\ \A i \in ids : i > lastRow /\ i <= lastRow + n /\ VariantsOf(i) = {}
           /\ lastRow + n <= MaxRows => ids \subseteq Ids
           /\ Cardinality(ids) = n
           /\ Cardinality(Live \union ids) = Cardinality(Live) + n
<1>1. lastRow \in Nat /\ MaxRows \in Nat /\ IsFiniteSet(Live) /\ Live \subseteq Nat
  BY Types DEF Inv, TypeInv
<1>2. \A i \in ids : i \in Nat \ {0} /\ i > lastRow /\ i <= lastRow + n
  BY <1>1
<1>3. lastRow + n <= MaxRows => ids \subseteq Ids
  BY <1>1 DEF Ids
<1>4. \A i \in Live : i \in Nat /\ i <= lastRow
  BY <1>1 DEF Inv, TableInv, LiveInv
<1>5. ids \intersect Live = {}
  BY <1>1, <1>2, <1>4
<1>6. \A i \in ids : VariantsOf(i) = {}
  <2> SUFFICES ASSUME NEW i \in ids, NEW v \in VariantIds, owner[v] = i
               PROVE  FALSE
    BY DEF VariantsOf
  <2>1. i # 0
    BY <1>2
  <2>2. i \in Live
    BY <2>1 DEF Inv, TableInv, LiveInv
  <2>3. QED
    BY <1>5, <2>2
<1>7. IsFiniteSet(ids) /\ Cardinality(ids) = n
  <2>1. PICK a \in Int, b \in Int : a = lastRow + 1 /\ b = lastRow + n
    BY <1>1
  <2>2. IsFiniteSet(a .. b) /\ Cardinality(a .. b) = IF a > b THEN 0 ELSE b - a + 1
    BY FS_Interval
  <2>3. QED
    BY <1>1, <2>1, <2>2
<1>8. Cardinality(Live \union ids) = Cardinality(Live) + n
  <2>1. Cardinality(Live \union ids)
           = Cardinality(Live) + Cardinality(ids) - Cardinality(Live \intersect ids)
    BY <1>1, <1>7, FS_Union
  <2>2. Cardinality(Live \intersect ids) = 0 /\ Cardinality(Live) \in Nat
    BY <1>1, <1>5, FS_EmptySet, FS_CardinalityType
  <2>3. QED
    BY <1>7, <2>1, <2>2
<1>9. QED
  BY <1>2, <1>3, <1>5, <1>6, <1>7, <1>8

LEMMA FlagsKept ==
    ASSUME Inv, blind \subseteq blind',
           \A i \in Live' :
              \/ i \in Live /\ products'[i].flag = products[i].flag
                    /\ VariantsOf(i)' = VariantsOf(i)
              \/ <<"variants", i>> \in blind'
              \/ products'[i].flag = (VariantsOf(i)' # {})
    PROVE  FlagAgrees'
BY DEF Inv, TableInv, FlagAgrees

LEMMA RowsKept ==
    ASSUME Inv, blind \subseteq blind',
           \A i \in Live' : \/ i \in Live /\ products'[i].ext = products[i].ext
                            \/ products'[i].ext = Local
    PROVE  RowInv'
<1> SUFFICES ASSUME NEW e \in Externals, <<"row", e>> \notin blind', NEW i \in RowsOf(e)',
                    NEW j \in RowsOf(e)'
             PROVE  i = j
  BY DEF RowInv
<1>1. i \in RowsOf(e) /\ j \in RowsOf(e)
  BY StoreAssumption DEF RowsOf
<1>2. QED
  BY <1>1 DEF Inv, TableInv, RowInv

LEMMA PlanKept ==
    ASSUME Inv, DataOK', blind \subseteq blind',
           Cardinality(Live') - imported' <= Cardinality(Live) - imported
    PROVE  PlanLimitHolds'
<1>1. Live' \in SUBSET Ids
  BY DEF Live
<1>2. IsFiniteSet(Live) /\ IsFiniteSet(Live')
  BY <1>1, Types, FS_Subset DEF Inv, TypeInv
<1>3. /\ Cardinality(Live) \in Nat /\ Cardinality(Live') \in Nat /\ Limit \in Nat
      /\ imported \in Nat /\ imported' \in Nat
  BY <1>2, Types, FS_CardinalityType DEF Inv, TypeInv, DataOK
<1>4. QED
  BY <1>3 DEF Inv, TableInv, PlanLimitHolds

\* The variants that a commit appends to product i, and those it drops.
LEMMA VariantsAppended ==
    ASSUME Inv, NEW n \in Nat, lastVariant + n <= MaxVariants, NEW i \in Ids,
           NEW gone \in SUBSET VariantIds,
           owner' = [v \in VariantIds |-> IF v \in lastVariant + 1 .. lastVariant + n THEN i
                                          ELSE IF v \in gone THEN 0 ELSE owner[v]]
    PROVE  /\ \A v \in VariantIds : v <= lastVariant =>
                 owner'[v] = IF v \in gone THEN 0 ELSE owner[v]
           /\ \A v \in VariantIds : owner'[v] # 0 =>
                 v <= lastVariant + n /\ (owner'[v] = i \/ owner'[v] = owner[v])
           /\ \A j \in Ids \ {i} : VariantsOf(j)' = VariantsOf(j) \ gone
           /\ VariantsOf(i)' = (VariantsOf(i) \ gone) \union (lastVariant + 1 .. lastVariant + n)
           /\ owner' \in [VariantIds -> Ids \union {0}]
<1>1. /\ lastVariant \in Nat /\ MaxVariants \in Nat
      /\ \A v \in VariantIds : v \in Nat /\ v # 0 /\ (owner[v] # 0 => v <= lastVariant)
      /\ i \in Nat /\ i # 0 /\ \A j \in Ids : j # 0
  BY Types DEF Inv, TypeInv, TableInv, LiveInv
<1>2. \A v : v \in lastVariant + 1 .. lastVariant + n <=>
                v \in VariantIds /\ v > lastVariant /\ v <= lastVariant + n
  BY <1>1 DEF VariantIds
<1>3. \A v \in VariantIds : v <= lastVariant => ~(v > lastVariant)
  BY <1>1
<1>4. \A v \in VariantIds : v <= lastVariant => owner'[v] = IF v \in gone THEN 0 ELSE owner[v]
  BY <1>2, <1>3
<1>5. \A v \in VariantIds : v > lastVariant => owner[v] = 0
  BY <1>1, <1>3
<1>6. \A v \in VariantIds : v <= lastVariant => v <= lastVariant + n
  BY <1>1
<1>7. \A v \in VariantIds : owner'[v] # 0 =>
         v <= lastVariant + n /\ (owner'[v] = i \/ owner'[v] = owner[v])
  BY <1>1, <1>2, <1>5, <1>6
<1>8. \A j \in Ids \ {i} : VariantsOf(j)' = VariantsOf(j) \ gone
  BY <1>1, <1>2, <1>5 DEF VariantsOf
<1>9. VariantsOf(i)' = (VariantsOf(i) \ gone) \union (lastVariant + 1 .. lastVariant + n)
  BY <1>1, <1>2, <1>5 DEF VariantsOf
<1>10. owner' \in [VariantIds -> Ids \union {0}]
  BY DEF Inv, TypeInv, DataOK
<1>11. QED
  BY <1>4, <1>7, <1>8, <1>9, <1>10

LEMMA CreateCommitsInv ==
    ASSUME Inv, NEW h \in Handlers, CreateCommits(h)
    PROVE  Inv'
<1>a. /\ pc[h] = "insert" /\ lastRow < MaxRows
      /\ Commits(h, {<<"count", 0>>}, {<<"count", 0>>})
      /\ UNCHANGED <<releases, source, setup, serves, imported, changes, faults>>
  BY DEF CreateCommits
<1>b. /\ lastRow \in Nat /\ MaxRows \in Nat /\ lastVariant \in Nat /\ MaxVariants \in Nat
      /\ lastVariant <= MaxVariants
  BY Types DEF Inv, TypeInv, DataOK
<1>1. PICK n \in 0..(MaxVariants - lastVariant), q \in Stocks, listed \in BOOLEAN :
         /\ n <= 1
         /\ lastRow' = lastRow + 1
         /\ lastVariant' = lastVariant + n
         /\ products' = [products EXCEPT ![lastRow + 1] =
                [ext |-> Local, stock |-> q, listed |-> listed, flag |-> n > 0]]
         /\ owner' = [v \in VariantIds |->
                IF v \in lastVariant + 1 .. lastVariant + n THEN lastRow + 1 ELSE owner[v]]
  BY DEF CreateCommits
<1>2. n \in Nat /\ lastVariant + n <= MaxVariants
  BY <1>b
<1>3. PICK i : i = lastRow + 1
  OBVIOUS
<1>c. PICK one \in Nat : one = 1
  OBVIOUS
<1>4. PICK ids : one = 1 /\ ids = lastRow + 1 .. lastRow + one
  BY <1>c
<1>5. ids = {i}
  BY <1>b, <1>3, <1>4
<1>6. /\ i \in Ids /\ i \notin Live /\ i # 0 /\ i > lastRow /\ VariantsOf(i) = {}
      /\ Cardinality(Live \union {i}) = Cardinality(Live) + 1
  <2>1. lastRow + one <= MaxRows
    BY <1>a, <1>b, <1>4
  <2>2. ids = lastRow + 1 .. lastRow + one
    BY <1>4
  <2>3. /\ ids \intersect Live = {} /\ ids \subseteq Nat \ {0} /\ IsFiniteSet(ids)
        /\ \A j \in ids : j > lastRow /\ j <= lastRow + one /\ VariantsOf(j) = {}
        /\ lastRow + one <= MaxRows => ids \subseteq Ids
        /\ Cardinality(ids) = one
        /\ Cardinality(Live \union ids) = Cardinality(Live) + one
    BY <2>2, FreshRows, ZenonT(30)
  <2>4. QED
    BY <1>4, <1>5, <2>1, <2>3
<1>7. PICK flag \in BOOLEAN : flag = (n > 0)
  <2>1. (n > 0) \in BOOLEAN
    BY SMT
  <2>2. QED
    BY <2>1
<1>8. PICK row : row = [ext |-> Local, stock |-> q, listed |-> listed, flag |-> flag]
  OBVIOUS
<1>9. row \in Rows /\ row.ext = Local /\ row.flag = flag /\ row # None
  <2>1. row \in Rows
    BY <1>8 DEF Rows
  <2>2. QED
    BY <1>8, <2>1, StoreAssumption
<1>10. products' = [products EXCEPT ![i] = row]
  BY <1>1, <1>3, <1>7, <1>8, Zenon
<1>11. products' \in [Ids -> Rows \union {None}] /\ products'[i] = row
       /\ \A j \in Ids \ {i} : products'[j] = products[j]
  BY <1>6, <1>9, <1>10 DEF Inv, TypeInv, DataOK
<1>12. Live' = Live \union {i} /\ Cardinality(Live') = Cardinality(Live) + 1
  BY <1>6, <1>9, <1>11 DEF Live
<1>13. owner' = [v \in VariantIds |-> IF v \in lastVariant + 1 .. lastVariant + n THEN i
                                      ELSE IF v \in {} THEN 0 ELSE owner[v]]
  BY <1>1, <1>3
<1>14. /\ \A v \in VariantIds : v <= lastVariant =>
             owner'[v] = IF v \in {} THEN 0 ELSE owner[v]
       /\ \A v \in VariantIds : owner'[v] # 0 =>
             v <= lastVariant + n /\ (owner'[v] = i \/ owner'[v] = owner[v])
       /\ \A j \in Ids \ {i} : VariantsOf(j)' = VariantsOf(j) \ {}
       /\ VariantsOf(i)' = (VariantsOf(i) \ {}) \union (lastVariant + 1 .. lastVariant + n)
       /\ owner' \in [VariantIds -> Ids \union {0}]
  <2>1. {} \in SUBSET VariantIds
    OBVIOUS
  <2>2. QED
    BY <1>2, <1>6, <1>13, <2>1, VariantsAppended
<1>15. stale' \in [Handlers -> SUBSET Keys] /\ blind' \subseteq Keys /\ blind \subseteq blind'
  <2>1. {<<"count", 0>>} \subseteq Keys
    BY DEF Keys
  <2>2. QED
    BY <1>a, <2>1, CommitsData DEF Commits
<1>16. lastRow' \in 0..MaxRows /\ lastVariant' \in 0..MaxVariants
  BY <1>a, <1>b, <1>1, <1>2
<1>17. DataOK'
  BY <1>a, <1>11, <1>14, <1>15, <1>16 DEF DataOK, Inv, TypeInv
<1>18. LiveInv'
  <2>1. ASSUME NEW j \in Live'
        PROVE  j <= lastRow'
    <3>1. j \in Ids /\ (j \in Live => j <= lastRow) /\ j \in Nat
      BY <1>b DEF Inv, TableInv, LiveInv, Live, Ids
    <3>2. QED
      BY <1>b, <1>1, <1>3, <1>12, <3>1
  <2>2. ASSUME NEW v \in VariantIds, owner'[v] # 0
        PROVE  owner'[v] \in Live' /\ v <= lastVariant'
    BY <1>1, <1>12, <1>14, <2>2 DEF Inv, TableInv, LiveInv
  <2>3. imported' <= lastRow'
    BY <1>a, <1>b, <1>1, Types DEF Inv, TypeInv, TableInv, LiveInv
  <2>4. QED
    BY <2>1, <2>2, <2>3 DEF LiveInv
<1>19. FlagAgrees'
  <2>1. ASSUME NEW j \in Live'
        PROVE  \/ j \in Live /\ products'[j].flag = products[j].flag
                    /\ VariantsOf(j)' = VariantsOf(j)
               \/ products'[j].flag = (VariantsOf(j)' # {})
    <3>1. CASE j = i
      <4>1. VariantsOf(i)' = lastVariant + 1 .. lastVariant + n
        BY <1>6, <1>14
      <4>2. CASE n > 0
        <5>1. lastVariant + 1 \in VariantsOf(i)'
          BY <1>b, <1>2, <4>1, <4>2
        <5>2. QED
          BY <1>7, <1>9, <1>11, <3>1, <4>2, <5>1, Zenon
      <4>3. CASE ~(n > 0)
        <5>1. VariantsOf(i)' = {}
          BY <1>b, <1>2, <4>1, <4>3
        <5>2. QED
          BY <1>7, <1>9, <1>11, <3>1, <4>3, <5>1, Zenon
      <4>4. QED
        BY <4>2, <4>3
    <3>2. CASE j # i
      BY <1>11, <1>12, <1>14, <3>2 DEF Live
    <3>3. QED
      BY <3>1, <3>2
  <2>2. QED
    BY <1>15, <2>1, FlagsKept
<1>20. RowInv'
  BY <1>9, <1>11, <1>12, <1>15, RowsKept DEF Live
<1>21. PlanLimitHolds'
  <2> SUFFICES ASSUME Limit > 0, <<"count", 0>> \notin blind'
               PROVE  Cardinality(Live') <= Limit + imported'
    BY DEF PlanLimitHolds
  <2>1. <<"count", 0>> \notin stale[h]
    BY <1>a DEF Commits
  <2>2. Cardinality(Live) < Limit + imported
    BY <1>a, <2>1 DEF Inv, Held, HeldCount
  <2>3. Cardinality(Live) \in Nat /\ imported \in Nat /\ Limit \in Nat /\ imported' = imported
    BY <1>a, Types, FS_CardinalityType DEF Inv, TypeInv
  <2>4. QED
    BY <1>12, <2>2, <2>3
<1>22. Effects({<<"count", 0>>})
  <2>1. ASSUME NEW j \in Live'
        PROVE  \/ /\ j \in Live
                  /\ products'[j].ext = products[j].ext
                  /\ Agrees(products'[j], products[j])
                  /\ products'[j].flag = products[j].flag /\ VariantsOf(j)' = VariantsOf(j)
               \/ /\ j \notin Live /\ j > lastRow
                  /\ products'[j].ext = Local
    BY <1>6, <1>9, <1>11, <1>12, <1>14 DEF Live, Agrees
  <2>2. Live \ Live' = {}
    BY <1>12
  <2>3. \A v \in VariantIds : v <= lastVariant => owner'[v] \in {owner[v], 0}
    BY <1>14
  <2>4. lastRow <= lastRow' /\ lastVariant <= lastVariant'
    BY <1>b, <1>1, <1>2
  <2>5. QED
    BY <2>1, <2>2, <2>3, <2>4 DEF Effects
<1>23. QED
  BY <1>a, <1>17, <1>18, <1>19, <1>20, <1>21, <1>22, CommitsInv DEF TableInv

LEMMA ImportsCsvInv ==
    ASSUME Inv, NEW h \in Handlers, ImportsCsv(h)
    PROVE  Inv'
<1>a. /\ Commits(h, {}, {})
      /\ UNCHANGED <<owner, lastVariant, releases, source, setup, serves, changes, faults>>
  BY DEF ImportsCsv
<1>b. /\ lastRow \in Nat /\ MaxRows \in Nat /\ MaxBatch \in Nat /\ imported \in Nat
      /\ imported <= lastRow /\ lastVariant \in Nat
  BY Types, BoundAssumption DEF Inv, TypeInv, TableInv, LiveInv
<1>1. PICK n \in 1..MaxBatch, q \in Stocks :
         /\ lastRow + n <= MaxRows
         /\ lastRow' = lastRow + n
         /\ imported' = imported + n
         /\ products' = [i \in Ids |->
                IF i \in lastRow + 1 .. lastRow + n
                THEN [ext |-> Local, stock |-> q, listed |-> TRUE, flag |-> FALSE]
                ELSE products[i]]
  BY DEF ImportsCsv
<1>2. n \in Nat
  BY <1>b
<1>3. PICK ids : ids = lastRow + 1 .. lastRow + n
  OBVIOUS
<1>4. /\ ids \intersect Live = {} /\ ids \subseteq Nat \ {0} /\ IsFiniteSet(ids)
      /\ \A i \in ids : i > lastRow /\ i <= lastRow + n /\ VariantsOf(i) = {}
      /\ lastRow + n <= MaxRows => ids \subseteq Ids
      /\ Cardinality(ids) = n
      /\ Cardinality(Live \union ids) = Cardinality(Live) + n
  BY <1>2, <1>3, FreshRows, ZenonT(30)
<1>5. PICK row : row = [ext |-> Local, stock |-> q, listed |-> TRUE, flag |-> FALSE]
  OBVIOUS
<1>6. row \in Rows /\ row.ext = Local /\ row.flag = FALSE /\ row # None
  <2>1. row \in Rows
    BY <1>5 DEF Rows
  <2>2. QED
    BY <1>5, <2>1, StoreAssumption
<1>7. products' = [i \in Ids |-> IF i \in ids THEN row ELSE products[i]]
  BY <1>1, <1>3, <1>5
<1>8. /\ products' \in [Ids -> Rows \union {None}]
      /\ \A i \in ids : i \in Ids /\ products'[i] = row
      /\ \A i \in Ids \ ids : products'[i] = products[i]
  BY <1>1, <1>4, <1>6, <1>7 DEF Inv, TypeInv, DataOK
<1>9. Live' = Live \union ids
  BY <1>6, <1>8 DEF Live
<1>10. \A i : VariantsOf(i)' = VariantsOf(i)
  BY <1>a DEF VariantsOf
<1>11. stale' \in [Handlers -> SUBSET Keys] /\ blind' \subseteq Keys /\ blind \subseteq blind'
  <2>1. {} \subseteq Keys
    OBVIOUS
  <2>2. QED
    BY <1>a, <2>1, CommitsData DEF Commits
<1>12. lastRow' \in 0..MaxRows /\ imported' \in 0..MaxRows /\ imported' <= lastRow'
       /\ lastRow <= lastRow'
  BY <1>b, <1>1, <1>2
<1>13. DataOK'
  BY <1>a, <1>8, <1>11, <1>12 DEF DataOK, Inv, TypeInv
<1>14. LiveInv'
  <2>1. ASSUME NEW j \in Live'
        PROVE  j <= lastRow'
    <3>1. j \in Nat /\ (j \in Live => j <= lastRow)
      BY <1>b DEF Inv, TableInv, LiveInv, Live, Ids
    <3>2. QED
      BY <1>b, <1>1, <1>2, <1>4, <1>9, <3>1
  <2>2. ASSUME NEW v \in VariantIds, owner'[v] # 0
        PROVE  owner'[v] \in Live' /\ v <= lastVariant'
    BY <1>a, <1>9, <2>2 DEF Inv, TableInv, LiveInv
  <2>3. QED
    BY <1>12, <2>1, <2>2 DEF LiveInv
<1>15. FlagAgrees'
  <2>1. ASSUME NEW j \in Live'
        PROVE  \/ j \in Live /\ products'[j].flag = products[j].flag
                    /\ VariantsOf(j)' = VariantsOf(j)
               \/ products'[j].flag = (VariantsOf(j)' # {})
    <3>1. CASE j \in ids
      <4>1. VariantsOf(j)' = {} /\ products'[j].flag = FALSE
        BY <1>4, <1>6, <1>8, <1>10, <3>1
      <4>2. QED
        BY <4>1, Zenon
    <3>2. CASE j \notin ids
      BY <1>8, <1>9, <1>10, <3>2 DEF Live
    <3>3. QED
      BY <3>1, <3>2
  <2>2. QED
    BY <1>11, <2>1, FlagsKept
<1>16. RowInv'
  BY <1>6, <1>8, <1>9, <1>11, RowsKept DEF Live
<1>17. Cardinality(Live') - imported' <= Cardinality(Live) - imported
  <2>1. Cardinality(Live) \in Nat
    BY Types, FS_CardinalityType DEF Inv, TypeInv
  <2>2. Cardinality(Live') = Cardinality(Live) + n
    BY <1>4, <1>9
  <2>3. QED
    BY <1>b, <1>1, <1>2, <2>1, <2>2
<1>18. PlanLimitHolds'
  BY <1>11, <1>13, <1>17, PlanKept
<1>19. Effects({})
  <2>1. ASSUME NEW j \in Live'
        PROVE  \/ /\ j \in Live
                  /\ products'[j].ext = products[j].ext
                  /\ Agrees(products'[j], products[j])
                  /\ products'[j].flag = products[j].flag /\ VariantsOf(j)' = VariantsOf(j)
               \/ /\ j \notin Live /\ j > lastRow
                  /\ products'[j].ext = Local
    BY <1>4, <1>6, <1>8, <1>9, <1>10 DEF Live, Agrees
  <2>2. Live \ Live' = {}
    BY <1>9
  <2>3. \A v \in VariantIds : v <= lastVariant => owner'[v] \in {owner[v], 0}
    BY <1>a
  <2>4. lastRow <= lastRow' /\ lastVariant <= lastVariant'
    BY <1>a, <1>b, <1>12
  <2>5. QED
    BY <1>17, <2>1, <2>2, <2>3, <2>4 DEF Effects
<1>20. QED
  BY <1>a, <1>13, <1>14, <1>15, <1>16, <1>18, <1>19, CommitsInv DEF TableInv

LEMMA FlushedOK ==
    ASSUME NEW row \in Rows, NEW old \in Rows, NEW new \in Rows, NEW out,
           out = Flushed(row, old, new)
    PROVE  /\ out \in Rows /\ out.ext = row.ext
           /\ out.stock = Kept(row.stock, old.stock, new.stock)
           /\ out.listed = Kept(row.listed, old.listed, new.listed)
           /\ out.flag = Kept(row.flag, old.flag, new.flag)
<1>1. PICK stock \in Stocks : stock = Kept(row.stock, old.stock, new.stock)
  BY DEF Rows, Kept
<1>2. PICK listed \in BOOLEAN : listed = Kept(row.listed, old.listed, new.listed)
  BY DEF Rows, Kept
<1>3. PICK flag \in BOOLEAN : flag = Kept(row.flag, old.flag, new.flag)
  BY DEF Rows, Kept
<1>4. PICK ext \in Externals \union {Local} : ext = row.ext
  BY DEF Rows
<1>5. out = [ext |-> ext, stock |-> stock, listed |-> listed, flag |-> flag]
  BY <1>1, <1>2, <1>3, <1>4 DEF Flushed
<1>6. QED
  BY <1>1, <1>2, <1>3, <1>4, <1>5 DEF Rows

LEMMA EditedOK ==
    ASSUME NEW ask \in Edits, NEW row \in Rows, NEW new, new = Edited(ask, row)
    PROVE  /\ new \in Rows
           /\ ask.stock = None => new.stock = row.stock /\ new.listed = row.listed
           /\ ask.given => new.flag = (ask.keep # {} \/ ask.fresh > 0)
           /\ ~ask.given => new.flag = row.flag
<1>1. PICK stock \in Stocks : stock = IF ask.stock = None THEN row.stock ELSE ask.stock
  BY DEF Rows, Edits
<1>2. PICK listed \in BOOLEAN : listed = IF ask.stock = None THEN row.listed ELSE ask.listed
  BY DEF Rows, Edits
<1>3. PICK flag \in BOOLEAN : flag = FlagAfter(ask, row.flag)
  <2>1. (ask.keep # {} \/ ask.fresh > 0) \in BOOLEAN /\ row.flag \in BOOLEAN
    BY DEF Rows
  <2>2. QED
    BY <2>1, Zenon DEF FlagAfter
<1>4. PICK r1 : r1 = [row EXCEPT !.stock = stock]
  OBVIOUS
<1>5. r1 \in Rows /\ r1.stock = stock /\ r1.listed = row.listed /\ r1.flag = row.flag
  BY <1>4 DEF Rows
<1>6. PICK r2 : r2 = [r1 EXCEPT !.listed = listed]
  OBVIOUS
<1>7. r2 \in Rows /\ r2.stock = stock /\ r2.listed = listed /\ r2.flag = row.flag
  BY <1>5, <1>6 DEF Rows
<1>8. PICK r3 : r3 = [r2 EXCEPT !.flag = flag]
  OBVIOUS
<1>9. r3 \in Rows /\ r3.stock = stock /\ r3.listed = listed /\ r3.flag = flag
  BY <1>7, <1>8 DEF Rows
<1>10. new = [[[row EXCEPT !.stock = IF ask.stock = None THEN row.stock ELSE ask.stock]
                   EXCEPT !.listed = IF ask.stock = None THEN r1.listed ELSE ask.listed]
                   EXCEPT !.flag = FlagAfter(ask, r2.flag)]
  BY <1>1, <1>2, <1>4, <1>5, <1>6, <1>7, Zenon DEF Edited
<1>11. new = r3
  BY <1>1, <1>2, <1>3, <1>4, <1>5, <1>6, <1>7, <1>8, <1>10, Zenon
<1>12. new.stock = stock /\ new.listed = listed /\ new.flag = FlagAfter(ask, row.flag)
  BY <1>3, <1>9, <1>11
<1>13. ask.given => new.flag = (ask.keep # {} \/ ask.fresh > 0)
  BY <1>12, Zenon DEF FlagAfter
<1>14. ~ask.given => new.flag = row.flag
  BY <1>12, Zenon DEF FlagAfter
<1>15. QED
  BY <1>1, <1>2, <1>9, <1>11, <1>12, <1>13, <1>14

LEMMA EditCommitsInv ==
    ASSUME Inv, NEW h \in Handlers, EditCommits(h)
    PROVE  Inv'
<1>a. pc[h] = "save" /\ work[h] \in Works /\ WorkOK("save", work[h])
      /\ Held("save", work[h], stale[h])
  BY DEF EditCommits, Inv, TypeInv
<1>c. PICK w \in Works, ask \in Edits, i \in Ids :
         w = work[h] /\ ask = w.ask /\ i = ask.item /\ w.held[i] # None
  BY <1>a DEF WorkOK, Edits
<1>1. PICK n, gone, touched :
         /\ w = work[h] /\ ask = w.ask /\ i = ask.item /\ w.held[i] # None
         /\ n = IF ask.given THEN Inserted(w) ELSE 0
         /\ gone = IF ask.given THEN w.marked \ ask.keep ELSE {}
         /\ touched = (IF ask.given THEN {<<"variants", i>>} ELSE {})
                       \union (IF ask.stock # None THEN {<<"stock", i>>} ELSE {})
  BY <1>c
<1>2. /\ EditPossible(w)
      /\ lastVariant + n <= MaxVariants
      /\ lastVariant' = lastVariant + n
      /\ products' = [products EXCEPT ![i] =
             IF @ = None THEN None ELSE Flushed(@, w.held[i], Edited(ask, w.held[i]))]
      /\ owner' = [v \in VariantIds |->
             IF v \in lastVariant + 1 .. lastVariant + n THEN i
             ELSE IF v \in gone THEN 0 ELSE owner[v]]
      /\ Commits(h, touched, touched)
      /\ UNCHANGED <<lastRow, releases, source, setup, serves, imported, changes, faults>>
  BY <1>1 DEF EditCommits
<1>b. /\ lastVariant \in Nat /\ MaxVariants \in Nat /\ lastRow \in Nat /\ imported \in Nat
      /\ i # 0 /\ i # None /\ 0 \notin Ids
  BY Types DEF Inv, TypeInv
<1>3. w.held[i] \in Rows
  BY <1>1 DEF Works
<1>4. /\ ask.keep \subseteq VariantIds /\ w.marked \subseteq VariantIds
      /\ gone \in SUBSET VariantIds
  BY <1>1 DEF Works, Edits
<1>5. /\ Cardinality(ask.keep \ w.marked) \in Nat
      /\ Cardinality(ask.keep \ w.marked) = 0 <=> ask.keep \ w.marked = {}
  <2>1. ask.keep \ w.marked \in SUBSET VariantIds
    BY <1>4
  <2>2. IsFiniteSet(ask.keep \ w.marked)
    BY <2>1, Types, FS_Subset DEF Inv, TypeInv
  <2>3. QED
    BY <2>2, FS_CardinalityType, FS_EmptySet
<1>6. n \in Nat /\ (ask.given => (n > 0 <=> ask.keep \ w.marked # {} \/ ask.fresh > 0))
      /\ (~ask.given => n = 0)
  <2>1. ask.fresh \in 0..1
    BY DEF Edits
  <2>2. QED
    BY <1>1, <1>5, <2>1 DEF Inserted
\* The variants.
<1>7. /\ \A v \in VariantIds : v <= lastVariant =>
            owner'[v] = IF v \in gone THEN 0 ELSE owner[v]
      /\ \A v \in VariantIds : owner'[v] # 0 =>
            v <= lastVariant + n /\ (owner'[v] = i \/ owner'[v] = owner[v])
      /\ \A j \in Ids \ {i} : VariantsOf(j)' = VariantsOf(j) \ gone
      /\ VariantsOf(i)' = (VariantsOf(i) \ gone) \union (lastVariant + 1 .. lastVariant + n)
      /\ owner' \in [VariantIds -> Ids \union {0}]
  BY <1>2, <1>4, <1>6, VariantsAppended
<1>8. ask.given =>
         /\ \/ <<"variants", i>> \in stale[h]
            \/ products[i] # None /\ products[i].flag = w.held[i].flag
         /\ \A v \in w.marked : owner[v] \in {i, 0}
         /\ <<"variants", i>> \in stale[h] \/ w.marked = VariantsOf(i)
  BY <1>a, <1>1 DEF Held, HeldEdit
<1>9. \A j \in Ids \ {i} : VariantsOf(j)' = VariantsOf(j)
  BY <1>b, <1>1, <1>7, <1>8 DEF VariantsOf
<1>10. ~ask.given => VariantsOf(i)' = VariantsOf(i)
  <2>1. n = 0 => lastVariant + 1 .. lastVariant + n = {}
    BY <1>b
  <2>2. QED
    BY <1>1, <1>6, <1>7, <2>1
<1>11. ask.given /\ w.marked = VariantsOf(i) =>
          (VariantsOf(i)' # {} <=> ask.keep # {} \/ ask.fresh > 0)
  <2>1. lastVariant + 1 .. lastVariant + n # {} <=> n > 0
    BY <1>b, <1>6
  <2>2. SUFFICES ASSUME ask.given, w.marked = VariantsOf(i)
                 PROVE  VariantsOf(i)' # {} <=> ask.keep # {} \/ ask.fresh > 0
    OBVIOUS
  <2>3. VariantsOf(i)' = (w.marked \intersect ask.keep) \union (lastVariant + 1 .. lastVariant + n)
    BY <1>1, <1>7, <2>2
  <2>4. QED
    BY <1>6, <2>1, <2>2, <2>3
\* The product.
<1>12. PICK new : new = Edited(ask, w.held[i])
  OBVIOUS
<1>13. /\ new \in Rows
       /\ ask.stock = None => new.stock = w.held[i].stock /\ new.listed = w.held[i].listed
       /\ ask.given => new.flag = (ask.keep # {} \/ ask.fresh > 0)
       /\ ~ask.given => new.flag = w.held[i].flag
  BY <1>3, <1>12, EditedOK
<1>14. products[i] # None =>
          /\ products'[i] \in Rows /\ products'[i].ext = products[i].ext
          /\ products'[i].stock = Kept(products[i].stock, w.held[i].stock, new.stock)
          /\ products'[i].listed = Kept(products[i].listed, w.held[i].listed, new.listed)
          /\ products'[i].flag = Kept(products[i].flag, w.held[i].flag, new.flag)
  <2>1. SUFFICES ASSUME products[i] # None
                 PROVE  /\ products'[i] \in Rows /\ products'[i].ext = products[i].ext
                        /\ products'[i].stock = Kept(products[i].stock, w.held[i].stock, new.stock)
                        /\ products'[i].listed = Kept(products[i].listed, w.held[i].listed, new.listed)
                        /\ products'[i].flag = Kept(products[i].flag, w.held[i].flag, new.flag)
    OBVIOUS
  <2>2. products[i] \in Rows
    BY <2>1 DEF Inv, TypeInv, DataOK
  <2>3. PICK out : out = products'[i]
    OBVIOUS
  <2>4. out = Flushed(products[i], w.held[i], new)
    BY <1>2, <1>12, <2>1, <2>3 DEF Inv, TypeInv, DataOK
  <2>5. QED
    BY <1>3, <1>13, <2>2, <2>3, <2>4, FlushedOK
<1>15. products[i] = None => products'[i] = None
  BY <1>2 DEF Inv, TypeInv, DataOK
<1>16. \A j \in Ids \ {i} : products'[j] = products[j]
  BY <1>2 DEF Inv, TypeInv, DataOK
<1>17. Live' = Live /\ products' \in [Ids -> Rows \union {None}]
  <2>1. None \notin Rows
    BY StoreAssumption
  <2>2. \A j \in Ids : products'[j] \in Rows \union {None}
                       /\ (products'[j] = None <=> products[j] = None)
    BY <1>14, <1>15, <1>16, <2>1 DEF Inv, TypeInv, DataOK
  <2>3. PICK row : products' = [products EXCEPT ![i] = row]
    BY <1>2
  <2>4. products' \in [Ids -> Rows \union {None}]
    BY <2>2, <2>3 DEF Inv, TypeInv, DataOK
  <2>5. QED
    BY <2>2, <2>4 DEF Live
<1>18. \A j \in Live : products'[j].ext = products[j].ext
  BY <1>14, <1>16 DEF Live
<1>19. n > 0 => i \in Live
  BY <1>1, <1>2, <1>6 DEF EditPossible, Live
<1>20. stale' \in [Handlers -> SUBSET Keys] /\ blind' \subseteq Keys /\ blind \subseteq blind'
       /\ stale[h] \intersect touched \subseteq blind'
  <2>1. touched \subseteq Keys
    BY <1>1 DEF Keys
  <2>2. QED
    BY <1>2, <2>1, CommitsData DEF Commits
<1>21. DataOK'
  BY <1>b, <1>2, <1>6, <1>7, <1>17, <1>20 DEF DataOK, Inv, TypeInv
<1>22. LiveInv'
  <2>1. ASSUME NEW v \in VariantIds, owner'[v] # 0
        PROVE  owner'[v] \in Live' /\ v <= lastVariant'
    <3>1. v \in Nat
      BY DEF VariantIds
    <3>2. CASE v <= lastVariant
      <4>1. owner'[v] = owner[v] /\ owner[v] # 0
        BY <1>7, <2>1, <3>2
      <4>2. v <= lastVariant'
        BY <1>2, <1>7, <2>1
      <4>3. QED
        BY <1>17, <4>1, <4>2 DEF Inv, TableInv, LiveInv
    <3>3. CASE ~(v <= lastVariant)
      <4>1. owner[v] = 0
        BY <3>3 DEF Inv, TableInv, LiveInv
      <4>2. owner'[v] = i /\ v <= lastVariant + n
        BY <1>7, <2>1, <4>1
      <4>3. n > 0
        BY <1>b, <1>6, <3>1, <3>3, <4>2
      <4>4. QED
        BY <1>2, <1>17, <1>19, <4>2, <4>3
    <3>4. QED
      BY <3>2, <3>3
  <2>2. QED
    BY <1>2, <1>17, <2>1 DEF Inv, TableInv, LiveInv
<1>23. FlagAgrees'
  <2>1. ASSUME NEW j \in Live', <<"variants", j>> \notin blind', j = i
        PROVE  products'[j].flag = (VariantsOf(j)' # {})
               \/ (products'[j].flag = products[j].flag /\ VariantsOf(j)' = VariantsOf(j))
    <3>1. products[i] # None
      BY <1>17, <2>1 DEF Live
    <3>2. CASE ask.given
      <4>1. <<"variants", i>> \notin stale[h]
        BY <1>1, <1>20, <2>1, <3>2
      <4>2. products[i].flag = w.held[i].flag /\ w.marked = VariantsOf(i)
        BY <1>8, <3>2, <4>1
      <4>3. products'[i].flag = new.flag
        BY <1>14, <3>1, <4>2 DEF Kept
      <4>4. (VariantsOf(i)' # {}) = (ask.keep # {} \/ ask.fresh > 0)
        BY <1>11, <3>2, <4>2, Zenon
      <4>5. QED
        BY <1>13, <2>1, <3>2, <4>3, <4>4, Zenon
    <3>3. CASE ~ask.given
      <4>1. products'[i].flag = products[i].flag
        BY <1>13, <1>14, <3>1, <3>3 DEF Kept
      <4>2. QED
        BY <1>10, <2>1, <3>3, <4>1
    <3>4. QED
      BY <3>2, <3>3
  <2>2. ASSUME NEW j \in Live', j # i
        PROVE  j \in Live /\ products'[j].flag = products[j].flag /\ VariantsOf(j)' = VariantsOf(j)
    BY <1>9, <1>16, <1>17, <2>2 DEF Live
  <2>3. QED
    BY <1>17, <1>20, <2>1, <2>2, FlagsKept, ZenonT(30)
<1>24. RowInv'
  BY <1>17, <1>18, <1>20, RowsKept
<1>25. Cardinality(Live') - imported' <= Cardinality(Live) - imported
  <2>1. Cardinality(Live) \in Nat
    BY Types, FS_CardinalityType DEF Inv, TypeInv
  <2>2. QED
    BY <1>b, <1>2, <1>17, <2>1
<1>26. PlanLimitHolds'
  BY <1>20, <1>21, <1>25, PlanKept
<1>27. Effects(touched)
  <2>1. ASSUME NEW j \in Live'
        PROVE  /\ j \in Live
               /\ products'[j].ext = products[j].ext
               /\ <<"stock", j>> \notin touched => Agrees(products'[j], products[j])
               /\ <<"variants", j>> \notin touched =>
                     products'[j].flag = products[j].flag /\ VariantsOf(j)' = VariantsOf(j)
    <3>1. CASE j = i
      <4>1. i \in Live /\ products[i] # None
        BY <1>17, <3>1 DEF Live
      <4>2. <<"stock", i>> \notin touched => Agrees(products'[i], products[i])
        BY <1>1, <1>13, <1>14, <4>1 DEF Agrees, Kept
      <4>3. <<"variants", i>> \notin touched => ~ask.given
        BY <1>1
      <4>4. ~ask.given => products'[i].flag = products[i].flag
        BY <1>13, <1>14, <4>1 DEF Kept
      <4>5. QED
        BY <1>10, <1>18, <3>1, <4>1, <4>2, <4>3, <4>4
    <3>2. CASE j # i
      BY <1>9, <1>16, <1>17, <3>2 DEF Live, Agrees
    <3>3. QED
      BY <3>1, <3>2
  <2>2. Live \ Live' = {}
    BY <1>17
  <2>3. \A v \in VariantIds : v <= lastVariant => owner'[v] \in {owner[v], 0}
    BY <1>7
  <2>4. lastRow <= lastRow' /\ lastVariant <= lastVariant'
    BY <1>b, <1>2, <1>6
  <2>5. QED
    BY <1>25, <2>1, <2>2, <2>3, <2>4 DEF Effects
<1>28. QED
  BY <1>2, <1>21, <1>22, <1>23, <1>24, <1>26, <1>27, CommitsInv DEF TableInv

LEMMA DeleteCommitsInv ==
    ASSUME Inv, NEW h \in Handlers, DeleteCommits(h)
    PROVE  Inv'
<1>a. pc[h] = "remove" /\ work[h] \in Works /\ WorkOK("remove", work[h])
      /\ Held("remove", work[h], stale[h])
  BY DEF DeleteCommits, Inv, TypeInv
<1>1. PICK i : i = CHOOSE j \in Ids : work[h].held[j] # None
  OBVIOUS
<1>2. i \in Ids /\ work[h].held[i] # None
  BY <1>a, <1>1 DEF WorkOK
<1>3. PICK row \in Rows : row = work[h].held[i]
  BY <1>a, <1>2 DEF Works
<1>4. PICK changed : changed = {<<"variants", i>>, <<"stock", i>>}
                         \union ({"row"} \X ({row.ext} \ {Local}))
  OBVIOUS
<1>5. /\ products' = [products EXCEPT ![i] = None]
      /\ owner' = [v \in VariantIds |-> IF owner[v] = i THEN 0 ELSE owner[v]]
      /\ Commits(h, changed, {})
      /\ UNCHANGED <<lastRow, lastVariant, releases, source, setup, serves, imported, changes, faults>>
  BY <1>1, <1>3, <1>4 DEF DeleteCommits
<1>b. /\ lastVariant \in Nat /\ lastRow \in Nat /\ imported \in Nat /\ i # 0
  BY <1>2, Types DEF Inv, TypeInv
<1>6. /\ products'[i] = None /\ \A j \in Ids \ {i} : products'[j] = products[j]
      /\ products' \in [Ids -> Rows \union {None}]
  BY <1>2, <1>5 DEF Inv, TypeInv, DataOK
<1>7. Live' = Live \ {i}
  BY <1>6 DEF Live
<1>8. /\ \A j \in Ids \ {i} : VariantsOf(j)' = VariantsOf(j)
      /\ owner' \in [VariantIds -> Ids \union {0}]
      /\ \A v \in VariantIds : owner'[v] \in {owner[v], 0} /\ owner'[v] # i
  <2>1. 0 \notin Ids
    BY Types DEF Inv, TypeInv
  <2>2. \A v \in VariantIds : owner'[v] = IF owner[v] = i THEN 0 ELSE owner[v]
    BY <1>5
  <2>3. \A v \in VariantIds : owner'[v] \in {owner[v], 0} /\ owner'[v] # i
    BY <1>b, <2>2
  <2>4. \A j \in Ids \ {i} : \A v \in VariantIds : owner'[v] = j <=> owner[v] = j
    BY <2>1, <2>2
  <2>5. owner' \in [VariantIds -> Ids \union {0}]
    BY <1>5 DEF Inv, TypeInv, DataOK
  <2>6. QED
    BY <2>3, <2>4, <2>5 DEF VariantsOf
<1>9. stale' \in [Handlers -> SUBSET Keys] /\ blind' \subseteq Keys /\ blind \subseteq blind'
  <2>1. changed \subseteq Keys
    BY <1>2, <1>4 DEF Keys, Rows
  <2>2. QED
    BY <1>5, <2>1, CommitsData DEF Commits
<1>10. DataOK'
  BY <1>5, <1>6, <1>8, <1>9 DEF DataOK, Inv, TypeInv
<1>11. LiveInv'
  <2>1. ASSUME NEW v \in VariantIds, owner'[v] # 0
        PROVE  owner'[v] \in Live' /\ v <= lastVariant'
    BY <1>5, <1>7, <1>8, <2>1 DEF Inv, TableInv, LiveInv
  <2>2. QED
    BY <1>5, <1>7, <2>1 DEF Inv, TableInv, LiveInv
<1>12. FlagAgrees'
  BY <1>6, <1>7, <1>8, <1>9, FlagsKept DEF Live
<1>13. RowInv'
  BY <1>6, <1>7, <1>9, RowsKept DEF Live
<1>14. Cardinality(Live') - imported' <= Cardinality(Live) - imported
  <2>1. IsFiniteSet(Live) /\ Cardinality(Live) \in Nat
    BY Types, FS_CardinalityType DEF Inv, TypeInv
  <2>2. Cardinality(Live \ {i}) = IF i \in Live THEN Cardinality(Live) - 1 ELSE Cardinality(Live)
    BY <2>1, FS_RemoveElement
  <2>3. QED
    BY <1>b, <1>5, <1>7, <2>1, <2>2
<1>15. PlanLimitHolds'
  BY <1>9, <1>10, <1>14, PlanKept
<1>16. Effects(changed)
  <2>1. ASSUME NEW j \in Live'
        PROVE  /\ j \in Live
               /\ products'[j].ext = products[j].ext
               /\ Agrees(products'[j], products[j])
               /\ products'[j].flag = products[j].flag /\ VariantsOf(j)' = VariantsOf(j)
    BY <1>6, <1>7, <1>8 DEF Live, Agrees
  <2>2. ASSUME NEW j \in Live \ Live'
        PROVE  /\ <<"variants", j>> \in changed /\ <<"stock", j>> \in changed
               /\ products[j].ext # Local => <<"row", products[j].ext>> \in changed
    <3>1. j = i /\ products[i] # None
      BY <1>7, <2>2 DEF Live
    <3>2. products[i].ext = row.ext
      BY <1>a, <1>2, <1>3, <3>1 DEF Held, HeldRows, Matched
    <3>3. QED
      BY <1>4, <3>1, <3>2
  <2>3. \A v \in VariantIds : v <= lastVariant => owner'[v] \in {owner[v], 0}
    BY <1>8
  <2>4. lastRow <= lastRow' /\ lastVariant <= lastVariant'
    BY <1>b, <1>5
  <2>5. QED
    BY <1>14, <2>1, <2>2, <2>3, <2>4 DEF Effects
<1>17. QED
  BY <1>5, <1>10, <1>11, <1>12, <1>13, <1>15, <1>16, CommitsInv DEF TableInv

\* A sale writes only the stock of the row it loaded.
LEMMA SoldOK ==
    ASSUME NEW row \in Rows, NEW new, new = Sold(row), DataOK
    PROVE  new \in Rows /\ new.flag = row.flag
<1>1. PICK left : left = IF row.stock > 0 THEN row.stock - 1 ELSE 0
  OBVIOUS
<1>2. left \in Stocks
  BY <1>1, BoundAssumption DEF Stocks, Rows
<1>3. PICK listed \in BOOLEAN : listed = (row.listed /\ left > 0)
  OBVIOUS
<1>4. PICK r1 : r1 = [row EXCEPT !.stock = left]
  OBVIOUS
<1>5. r1 \in Rows /\ r1.listed = row.listed /\ r1.flag = row.flag
  BY <1>2, <1>4 DEF Rows
<1>6. PICK r2 : r2 = [r1 EXCEPT !.listed = listed]
  OBVIOUS
<1>7. r2 \in Rows /\ r2.flag = row.flag
  BY <1>5, <1>6 DEF Rows
<1>8. new = [[row EXCEPT !.stock = left] EXCEPT !.listed = (r1.listed /\ left > 0)]
  BY <1>1, <1>4, Zenon DEF Sold
<1>9. new = r2
  BY <1>3, <1>4, <1>5, <1>6, <1>8, Zenon
<1>10. QED
  BY <1>7, <1>9

LEMMA SaleCommitsInv ==
    ASSUME Inv, NEW h \in Handlers, SaleCommits(h)
    PROVE  Inv'
<1>a. pc[h] = "sale" /\ work[h] \in Works /\ WorkOK("sale", work[h])
  BY DEF SaleCommits, Inv, TypeInv
<1>1. PICK i : i = CHOOSE j \in Ids : work[h].held[j] # None
  OBVIOUS
<1>2. i \in Ids /\ work[h].held[i] # None
  BY <1>a, <1>1 DEF WorkOK
<1>c. PICK old \in Rows : old = work[h].held[i]
  BY <1>a, <1>2 DEF Works
<1>3. PICK new, touched :
        old = work[h].held[i] /\ new = Sold(old) /\ touched = {<<"stock", i>>}
  BY <1>c
<1>4. new \in Rows /\ new.flag = old.flag
  BY <1>3, SoldOK DEF Inv, TypeInv
<1>5. /\ products[i] # None
      /\ products' = [products EXCEPT ![i] = Flushed(@, old, new)]
      /\ Commits(h, touched, touched)
      /\ UNCHANGED <<owner, lastRow, lastVariant, releases, source, setup, serves, imported, changes,
                     faults>>
  BY <1>1, <1>3 DEF SaleCommits
<1>6. products[i] \in Rows
  BY <1>2, <1>5 DEF Inv, TypeInv, DataOK
<1>7. PICK out : out = Flushed(products[i], old, new)
  OBVIOUS
<1>8. out \in Rows /\ out.ext = products[i].ext /\ out.flag = products[i].flag
  BY <1>4, <1>6, <1>7, FlushedOK DEF Kept
<1>9. /\ products'[i] = out /\ \A j \in Ids \ {i} : products'[j] = products[j]
      /\ products' \in [Ids -> Rows \union {None}]
  BY <1>2, <1>5, <1>7, <1>8 DEF Inv, TypeInv, DataOK
<1>10. Live' = Live
  <2>1. out # None
    BY <1>8, StoreAssumption
  <2>2. QED
    BY <1>5, <1>9, <2>1 DEF Live
<1>11. \A j \in Live : products'[j].ext = products[j].ext /\ products'[j].flag = products[j].flag
  BY <1>8, <1>9 DEF Live
<1>12. \A j : VariantsOf(j)' = VariantsOf(j)
  BY <1>5 DEF VariantsOf
<1>13. stale' \in [Handlers -> SUBSET Keys] /\ blind' \subseteq Keys /\ blind \subseteq blind'
  <2>1. touched \subseteq Keys
    BY <1>2, <1>3 DEF Keys
  <2>2. QED
    BY <1>5, <2>1, CommitsData DEF Commits
<1>14. DataOK'
  BY <1>5, <1>9, <1>13 DEF DataOK, Inv, TypeInv
<1>15. LiveInv'
  BY <1>5, <1>10 DEF Inv, TableInv, LiveInv
<1>16. FlagAgrees'
  BY <1>10, <1>11, <1>12, <1>13, FlagsKept
<1>17. RowInv'
  BY <1>10, <1>11, <1>13, RowsKept
<1>b. lastVariant \in Nat /\ lastRow \in Nat /\ imported \in Nat
  BY Types DEF Inv, TypeInv
<1>18. Cardinality(Live') - imported' <= Cardinality(Live) - imported
  <2>1. Cardinality(Live) \in Nat
    BY Types, FS_CardinalityType DEF Inv, TypeInv
  <2>2. QED
    BY <1>b, <1>5, <1>10, <2>1
<1>19. PlanLimitHolds'
  BY <1>13, <1>14, <1>18, PlanKept
<1>20. Effects(touched)
  <2>1. ASSUME NEW j \in Live'
        PROVE  /\ j \in Live
               /\ products'[j].ext = products[j].ext
               /\ <<"stock", j>> \notin touched => Agrees(products'[j], products[j])
               /\ products'[j].flag = products[j].flag /\ VariantsOf(j)' = VariantsOf(j)
    BY <1>3, <1>9, <1>10, <1>11, <1>12 DEF Live, Agrees
  <2>2. Live \ Live' = {}
    BY <1>10
  <2>3. \A v \in VariantIds : v <= lastVariant => owner'[v] \in {owner[v], 0}
    BY <1>5
  <2>4. lastRow <= lastRow' /\ lastVariant <= lastVariant'
    BY <1>b, <1>5
  <2>5. QED
    BY <1>18, <2>1, <2>2, <2>3, <2>4 DEF Effects
<1>21. QED
  BY <1>5, <1>14, <1>15, <1>16, <1>17, <1>19, <1>20, CommitsInv DEF TableInv

LEMMA SyncedOK ==
    ASSUME NEW row \in Rows, NEW offer \in Offers, NEW new, new = Synced(row, offer)
    PROVE  /\ new \in Rows /\ new.stock = offer.stock /\ new.listed = offer.listed
           /\ new.flag = row.flag
<1>1. PICK r1 : r1 = [row EXCEPT !.stock = offer.stock]
  OBVIOUS
<1>2. r1 \in Rows /\ r1.stock = offer.stock /\ r1.flag = row.flag
  BY <1>1 DEF Rows, Offers
<1>3. PICK r2 : r2 = [r1 EXCEPT !.listed = offer.listed]
  OBVIOUS
<1>4. r2 \in Rows /\ r2.stock = offer.stock /\ r2.listed = offer.listed /\ r2.flag = row.flag
  BY <1>2, <1>3 DEF Rows, Offers
<1>5. new = [[row EXCEPT !.stock = offer.stock] EXCEPT !.listed = offer.listed]
  BY DEF Synced
<1>6. QED
  BY <1>1, <1>3, <1>4, <1>5, Zenon

\* The products a sync found no row for get the next ids, one each.
LEMMA NthExists ==
    ASSUME NEW S, IsFiniteSet(S), NEW ids, IsFiniteSet(ids), Cardinality(ids) = Cardinality(S)
    PROVE  \E f \in [ids -> S] : \A e \in S : \E i \in ids : f[i] = e
<1>1. ExistsBijection(ids, S)
  BY FS_SameCardinalityBij
<1>2. QED
  BY <1>1 DEF ExistsBijection, Bijection, Surjection

LEMMA NthOnce ==
    ASSUME NEW S, NEW ids, IsFiniteSet(ids), Cardinality(ids) = Cardinality(S),
           NEW nth \in [ids -> S], \A e \in S : \E i \in ids : nth[i] = e
    PROVE  \A i, j \in ids : nth[i] = nth[j] => i = j
<1>1. nth \in Surjection(ids, S)
  BY DEF Surjection
<1>2. nth \in Injection(ids, S)
  BY <1>1, FS_SurjSameCardinalityImpliesInj
<1>3. QED
  BY <1>2 DEF Injection, IsInjective

\* What the commit of a sync does, row by row.
SyncWrote(w, n, ids, nth) ==
    /\ lastRow + n <= MaxRows /\ lastRow' = lastRow + n /\ imported' = imported + n
    /\ \A e \in New(w) : \E i \in ids : nth[i] = e
    /\ \A i, j \in ids : nth[i] = nth[j] => i = j
    /\ products' \in [Ids -> Rows \union {None}] /\ Live' = Live \union ids
    /\ \A i \in ids :
          /\ i \notin Live /\ i > lastRow /\ i <= lastRow + n
          /\ VariantsOf(i) = {}
          /\ products'[i].ext = nth[i] /\ products'[i].flag = FALSE
          /\ Agrees(products'[i], w.shelf[nth[i]])
    /\ \A i \in Live :
          /\ products'[i].ext = products[i].ext /\ products'[i].flag = products[i].flag
          /\ i \notin Matched(w) => products'[i] = products[i]
          /\ i \in Matched(w) =>
                LET offer == w.shelf[w.held[i].ext]
                IN  /\ products'[i].stock
                          = Kept(products[i].stock, w.held[i].stock, offer.stock)
                    /\ products'[i].listed
                          = Kept(products[i].listed, w.held[i].listed, offer.listed)
    /\ Cardinality(Live') = Cardinality(Live) + n

LEMMA SyncWrites ==
    ASSUME Inv, NEW h \in Handlers, SyncCommits(h), NEW w, w = work[h]
    PROVE  \E n \in Nat, ids \in SUBSET Nat : \E nth \in [ids -> New(w)] : SyncWrote(w, n, ids, nth)
<1>a. pc[h] = "lookup" /\ w \in Works /\ WorkOK("lookup", w) /\ Held("lookup", w, stale[h])
  BY DEF SyncCommits, Inv, TypeInv
<1>1. PICK n, ids, nth :
        /\ n = Cardinality(New(w)) /\ ids = lastRow + 1 .. lastRow + n
        /\ nth = CHOOSE f \in [ids -> New(w)] : \A e \in New(w) : \E i \in ids : f[i] = e
  OBVIOUS
<1>2. /\ lastRow + n <= MaxRows /\ lastRow' = lastRow + n /\ imported' = imported + n
      /\ products' = [i \in Ids |->
             IF i \in ids
             THEN [ext |-> nth[i], stock |-> w.shelf[nth[i]].stock,
                   listed |-> w.shelf[nth[i]].listed, flag |-> FALSE]
             ELSE IF i \in Matched(w) /\ products[i] # None
             THEN Flushed(products[i], w.held[i], Update(w, i))
             ELSE products[i]]
  BY <1>1 DEF SyncCommits
<1>3. IsFiniteSet(New(w)) /\ n \in Nat /\ New(w) \subseteq Fetched(w)
  <2>1. New(w) \in SUBSET Externals /\ New(w) \subseteq Fetched(w)
    BY DEF New, Fetched
  <2>2. IsFiniteSet(New(w))
    BY <2>1, StoreAssumption, FS_Subset
  <2>3. QED
    BY <1>1, <2>1, <2>2, FS_CardinalityType
<1>4. /\ ids \intersect Live = {} /\ ids \subseteq Nat \ {0} /\ IsFiniteSet(ids)
      /\ \A i \in ids : i > lastRow /\ i <= lastRow + n /\ VariantsOf(i) = {}
      /\ lastRow + n <= MaxRows => ids \subseteq Ids
      /\ Cardinality(ids) = n
      /\ Cardinality(Live \union ids) = Cardinality(Live) + n
  <2>1. n \in Nat
    BY <1>3
  <2>2. ids = lastRow + 1 .. lastRow + n
    BY <1>1
  <2>3. QED
    BY <2>1, <2>2, FreshRows, ZenonT(30)
<1>5. /\ nth \in [ids -> New(w)]
      /\ \A e \in New(w) : \E i \in ids : nth[i] = e
      /\ \A i, j \in ids : nth[i] = nth[j] => i = j
  <2>1. IsFiniteSet(New(w)) /\ IsFiniteSet(ids) /\ Cardinality(ids) = Cardinality(New(w))
    BY <1>1, <1>3, <1>4
  <2>2. \E f \in [ids -> New(w)] : \A e \in New(w) : \E i \in ids : f[i] = e
    BY <2>1, NthExists
  <2>3. nth \in [ids -> New(w)] /\ \A e \in New(w) : \E i \in ids : nth[i] = e
    BY <1>1, <2>2, Zenon
  <2>4. QED
    BY <2>1, <2>3, NthOnce
<1>6. \A e \in Fetched(w) : w.shelf[e] \in Offers /\ e \in Externals
  BY <1>a DEF Works, Fetched
<1>b. None \notin Rows /\ \A i \in Live : i \in Ids /\ products[i] \in Rows
  BY Types DEF Inv, TypeInv
<1>7. ASSUME NEW i \in ids
      PROVE  /\ i \in Ids /\ products'[i] \in Rows
             /\ products'[i].ext = nth[i] /\ products'[i].flag = FALSE
             /\ Agrees(products'[i], w.shelf[nth[i]])
  <2>1. i \in Ids /\ nth[i] \in Fetched(w)
    BY <1>2, <1>3, <1>4, <1>5
  <2>2. products'[i] = [ext |-> nth[i], stock |-> w.shelf[nth[i]].stock,
                        listed |-> w.shelf[nth[i]].listed, flag |-> FALSE]
    BY <1>2, <2>1
  <2>3. w.shelf[nth[i]] \in Offers /\ nth[i] \in Externals
    BY <1>6, <2>1
  <2>4. QED
    BY <2>1, <2>2, <2>3 DEF Offers, Rows, Agrees
<1>8. ASSUME NEW i \in Live
      PROVE  /\ products'[i] \in Rows
             /\ products'[i].ext = products[i].ext /\ products'[i].flag = products[i].flag
             /\ i \notin Matched(w) => products'[i] = products[i]
             /\ i \in Matched(w) =>
                   LET offer == w.shelf[w.held[i].ext]
                   IN  /\ products'[i].stock
                             = Kept(products[i].stock, w.held[i].stock, offer.stock)
                       /\ products'[i].listed
                             = Kept(products[i].listed, w.held[i].listed, offer.listed)
  <2>1. i \in Ids /\ i \notin ids /\ products[i] # None /\ products[i] \in Rows
    BY <1>4, <1>b DEF Live
  <2>2. CASE i \notin Matched(w)
    <3>1. products'[i] = products[i]
      BY <1>2, <2>1, <2>2
    <3>2. QED
      BY <2>1, <2>2, <3>1
  <2>3. CASE i \in Matched(w)
    <3>1. products'[i] = Flushed(products[i], w.held[i], Update(w, i))
      BY <1>2, <2>1, <2>3
    <3>2. w.held[i] \in Rows /\ w.held[i].ext \in Fetched(w)
      BY <1>a, <2>3 DEF Works, WorkOK, Matched
    <3>3. PICK offer \in Offers : offer = w.shelf[w.held[i].ext]
      BY <1>6, <3>2
    <3>4. PICK new, out : new = Update(w, i) /\ out = products'[i]
      OBVIOUS
    <3>5. new = Synced(w.held[i], offer)
      BY <3>3, <3>4 DEF Update
    <3>6. /\ new \in Rows /\ new.stock = offer.stock /\ new.listed = offer.listed
          /\ new.flag = w.held[i].flag
      BY <3>2, <3>5, SyncedOK
    <3>7. out = Flushed(products[i], w.held[i], new)
      BY <3>1, <3>4
    <3>8. /\ out \in Rows /\ out.ext = products[i].ext
          /\ out.stock = Kept(products[i].stock, w.held[i].stock, new.stock)
          /\ out.listed = Kept(products[i].listed, w.held[i].listed, new.listed)
          /\ out.flag = Kept(products[i].flag, w.held[i].flag, new.flag)
      BY <2>1, <3>2, <3>6, <3>7, FlushedOK
    <3>9. out.flag = products[i].flag
      BY <3>6, <3>8 DEF Kept
    <3>10. QED
      BY <2>3, <3>3, <3>4, <3>6, <3>8, <3>9
  <2>4. QED
    BY <2>2, <2>3
<1>9. \A i \in Ids : i \notin ids /\ i \notin Live => products'[i] = None
  BY <1>2 DEF Live
<1>10. products' \in [Ids -> Rows \union {None}]
  <2>1. \A i \in Ids : products'[i] \in Rows \union {None}
    BY <1>7, <1>8, <1>9
  <2>2. PICK f : f = products'
    OBVIOUS
  <2>3. f = [i \in Ids |-> f[i]]
    BY <1>2, <2>2
  <2>4. QED
    BY <2>1, <2>2, <2>3
<1>11. Live' = Live \union ids
  BY <1>7, <1>8, <1>9, <1>b DEF Live
<1>12. Cardinality(Live') = Cardinality(Live) + n
  BY <1>4, <1>11
<1>13. \A i \in ids :
          /\ i \notin Live /\ i > lastRow /\ i <= lastRow + n
          /\ VariantsOf(i) = {}
          /\ products'[i].ext = nth[i] /\ products'[i].flag = FALSE
          /\ Agrees(products'[i], w.shelf[nth[i]])
  BY <1>4, <1>7
<1>14. SyncWrote(w, n, ids, nth)
  BY <1>2, <1>5, <1>8, <1>10, <1>11, <1>12, <1>13 DEF SyncWrote
<1>15. ids \in SUBSET Nat
  BY <1>4
<1>16. QED
  BY <1>3, <1>5, <1>14, <1>15

LEMMA SyncCommitsInv ==
    ASSUME Inv, NEW h \in Handlers, SyncCommits(h)
    PROVE  Inv'
<1>1. PICK w \in Works : w = work[h]
  BY DEF Inv, TypeInv
<1>a. /\ pc[h] = "lookup" /\ w.todo = {} /\ WorkOK("lookup", w)
      /\ Held("lookup", w, stale[h])
  BY <1>1 DEF SyncCommits, Inv, TypeInv
<1>2. \E n \in Nat, ids \in SUBSET Nat : \E nth \in [ids -> New(w)] : SyncWrote(w, n, ids, nth)
  BY <1>1, SyncWrites
<1>3. PICK n \in Nat, ids \in SUBSET Nat : \E nth \in [ids -> New(w)] : SyncWrote(w, n, ids, nth)
  BY <1>2
<1>4. PICK nth \in [ids -> New(w)] : SyncWrote(w, n, ids, nth)
  BY <1>3
<1>5. PICK changed : changed = ({"row"} \X New(w)) \union ({"stock"} \X Matched(w))
  OBVIOUS
<1>6. /\ Commits(h, changed, changed)
      /\ UNCHANGED <<owner, lastVariant, releases, source, setup, serves, changes, faults>>
  BY <1>1, <1>5 DEF SyncCommits
<1>b. /\ lastVariant \in Nat /\ lastRow \in Nat /\ imported \in Nat /\ imported <= lastRow
      /\ MaxRows \in Nat /\ \A i \in Live : i \in Ids /\ products[i] # None /\ i \in Nat
  BY Types DEF Inv, TypeInv, TableInv, LiveInv, Live
<1>7. /\ New(w) \subseteq Externals /\ Local \notin New(w)
      /\ Matched(w) \subseteq Ids
  BY StoreAssumption DEF New, Fetched, Matched
<1>8. \A i \in ids : nth[i] \in New(w)
  OBVIOUS
<1>9. \A i : VariantsOf(i)' = VariantsOf(i)
  BY <1>6 DEF VariantsOf
<1>10. stale' \in [Handlers -> SUBSET Keys] /\ blind' \subseteq Keys /\ blind \subseteq blind'
       /\ stale[h] \intersect changed \subseteq blind'
  <2>1. changed \subseteq Keys
    BY <1>5, <1>7 DEF Keys
  <2>2. QED
    BY <1>6, <2>1, CommitsData DEF Commits
<1>11. lastRow' \in 0..MaxRows /\ imported' \in 0..MaxRows /\ imported' <= lastRow'
       /\ lastRow <= lastRow'
  BY <1>b, <1>4 DEF SyncWrote
<1>12. DataOK'
  BY <1>4, <1>6, <1>10, <1>11 DEF SyncWrote, DataOK, Inv, TypeInv
<1>13. LiveInv'
  <2>1. ASSUME NEW j \in Live'
        PROVE  j <= lastRow'
    <3>1. CASE j \in ids
      BY <1>4, <3>1 DEF SyncWrote
    <3>2. CASE j \in Live
      BY <1>b, <1>11, <3>2, Types DEF Inv, TableInv, LiveInv, DataOK
    <3>3. QED
      BY <1>4, <3>1, <3>2 DEF SyncWrote
  <2>2. ASSUME NEW v \in VariantIds, owner'[v] # 0
        PROVE  owner'[v] \in Live' /\ v <= lastVariant'
    BY <1>4, <1>6, <2>2 DEF SyncWrote, Inv, TableInv, LiveInv
  <2>3. QED
    BY <1>11, <2>1, <2>2 DEF LiveInv
<1>14. FlagAgrees'
  <2>1. ASSUME NEW j \in Live'
        PROVE  \/ j \in Live /\ products'[j].flag = products[j].flag
                    /\ VariantsOf(j)' = VariantsOf(j)
               \/ products'[j].flag = (VariantsOf(j)' # {})
    <3>1. CASE j \in ids
      <4>1. VariantsOf(j)' = {} /\ products'[j].flag = FALSE
        BY <1>4, <1>9, <3>1 DEF SyncWrote
      <4>2. QED
        BY <4>1, Zenon
    <3>2. CASE j \in Live
      BY <1>4, <1>9, <3>2 DEF SyncWrote
    <3>3. QED
      BY <1>4, <3>1, <3>2 DEF SyncWrote
  <2>2. QED
    BY <1>10, <2>1, FlagsKept
<1>15. RowInv'
  <2> SUFFICES ASSUME NEW e \in Externals, <<"row", e>> \notin blind', NEW i \in RowsOf(e)',
                      NEW j \in RowsOf(e)'
               PROVE  i = j
    BY DEF RowInv
  <2>1. i \in Live' /\ j \in Live' /\ products'[i].ext = e /\ products'[j].ext = e
    BY DEF RowsOf
  <2>2. CASE i \in Live /\ j \in Live
    <3>1. i \in RowsOf(e) /\ j \in RowsOf(e)
      BY <1>4, <2>1, <2>2 DEF SyncWrote, RowsOf
    <3>2. QED
      BY <1>10, <3>1 DEF Inv, TableInv, RowInv
  <2>3. CASE i \in ids /\ j \in ids
    BY <1>4, <2>1, <2>3 DEF SyncWrote
  <2>4. ASSUME NEW k \in ids, NEW l \in Live, products'[k].ext = e, products'[l].ext = e
        PROVE  FALSE
    <3>1. e \in New(w) /\ l \in RowsOf(e)
      BY <1>4, <1>8, <2>4 DEF SyncWrote, RowsOf
    <3>2. <<"row", e>> \notin stale[h]
      BY <1>5, <1>10, <3>1
    <3>3. QED
      BY <1>a, <3>1, <3>2 DEF Held, HeldSync
  <2>5. QED
    BY <1>4, <2>1, <2>2, <2>3, <2>4 DEF SyncWrote
<1>16. Cardinality(Live') - imported' <= Cardinality(Live) - imported
  <2>1. Cardinality(Live) \in Nat
    BY Types, FS_CardinalityType DEF Inv, TypeInv
  <2>2. QED
    BY <1>b, <1>4, <2>1 DEF SyncWrote
<1>17. PlanLimitHolds'
  BY <1>10, <1>12, <1>16, PlanKept
<1>18. Effects(changed)
  <2>1. ASSUME NEW j \in Live'
        PROVE  \/ /\ j \in Live
                  /\ products'[j].ext = products[j].ext
                  /\ <<"stock", j>> \notin changed => Agrees(products'[j], products[j])
                  /\ products'[j].flag = products[j].flag /\ VariantsOf(j)' = VariantsOf(j)
               \/ /\ j \notin Live /\ j > lastRow
                  /\ <<"row", products'[j].ext>> \in changed
    <3>1. CASE j \in ids
      BY <1>4, <1>5, <1>8, <3>1 DEF SyncWrote
    <3>2. CASE j \in Live
      <4>1. <<"stock", j>> \notin changed => j \notin Matched(w)
        BY <1>5
      <4>2. QED
        BY <1>4, <1>9, <3>2, <4>1 DEF SyncWrote, Agrees
    <3>3. QED
      BY <1>4, <3>1, <3>2 DEF SyncWrote
  <2>2. Live \ Live' = {}
    BY <1>4 DEF SyncWrote
  <2>3. \A v \in VariantIds : v <= lastVariant => owner'[v] \in {owner[v], 0}
    BY <1>6
  <2>4. lastRow <= lastRow' /\ lastVariant <= lastVariant'
    BY <1>b, <1>6, <1>11
  <2>5. QED
    BY <1>16, <2>1, <2>2, <2>3, <2>4 DEF Effects
<1>19. QED
  BY <1>6, <1>12, <1>13, <1>14, <1>15, <1>17, <1>18, CommitsInv DEF TableInv

----------------------------------------------------------------------------

LEMMA NextInv ==
    ASSUME Inv, [Next]_vars
    PROVE  Inv'
<1>1. ASSUME NEW h \in Handlers, Arrives(h)
      PROVE  Inv'
  BY <1>1, CreateCountsInv, ImportsCsvInv, EditLoadsInv, DeleteLoadsInv, SyncStartsInv
     DEF Arrives
<1>2. ASSUME NEW h \in Handlers, Step(h)
      PROVE  Inv'
  BY <1>2, SyncStartsInv, CreateCommitsInv, EditReadsVariantsInv, EditCommitsInv,
     DeleteCommitsInv, SaleCommitsInv, FailsInv, LooksUpReleasesInv, UpsertsReleasesInv,
     FetchesInv, LooksUpInv, SyncCommitsInv
     DEF Step
<1>3. QED
  BY <1>1, <1>2, FailsInv, OthersInv DEF Next

\* A set of ids handed out in order is as large as its greatest member.
LEMMA InOrder ==
    ASSUME NEW n \in Nat, NEW S \in SUBSET (1..n), \A i, j \in 1..n : j \in S /\ i < j => i \in S
    PROVE  /\ IsFiniteSet(S) /\ Cardinality(S) \in 0..n
           /\ \A j \in S : j <= Cardinality(S)
<1>1. PICK one \in Int : one = 1
  OBVIOUS
<1>2. IsFiniteSet(one .. n) /\ Cardinality(one .. n) = IF one > n THEN 0 ELSE n - one + 1
  BY FS_Interval
<1>3. IsFiniteSet(S) /\ Cardinality(S) <= n
  <2>1. PICK U : U = one .. n
    OBVIOUS
  <2>2. S \in SUBSET U /\ IsFiniteSet(U) /\ Cardinality(U) = n
    BY <1>1, <1>2, <2>1
  <2>3. IsFiniteSet(S) /\ Cardinality(S) <= Cardinality(U)
    BY <2>2, FS_Subset
  <2>4. QED
    BY <2>2, <2>3
<1>4. ASSUME NEW j \in S
      PROVE  j <= Cardinality(S)
  <2>1. j \in 1..n /\ j \in Int
    OBVIOUS
  <2>2. PICK T : T = one .. j
    OBVIOUS
  <2>3. Cardinality(T) = IF one > j THEN 0 ELSE j - one + 1
    BY <2>1, <2>2, FS_Interval
  <2>4. T \in SUBSET S
    BY <1>1, <2>1, <2>2
  <2>5. Cardinality(T) <= Cardinality(S)
    BY <1>3, <2>4, FS_Subset
  <2>6. Cardinality(T) = j
    BY <1>1, <2>1, <2>3
  <2>7. QED
    BY <2>5, <2>6
<1>5. QED
  BY <1>3, <1>4, FS_CardinalityType

LEMMA InitInv == Init => Inv
<1> SUFFICES ASSUME Init
             PROVE  Inv
  OBVIOUS
<1>a. MaxRows \in Nat /\ MaxVariants \in Nat /\ MaxChanges \in Nat /\ MaxFaults \in Nat
      /\ Limit \in Nat
  BY BoundAssumption
<1>1. Live = {i \in Ids : InitialRows[i] # None}
  BY DEF Init, Live
<1>2. /\ IsFiniteSet(Live) /\ Cardinality(Live) \in 0..MaxRows
      /\ \A i \in Live : i <= Cardinality(Live)
  <2>1. Live \in SUBSET (1..MaxRows)
    BY <1>1 DEF Ids
  <2>2. \A i, j \in 1..MaxRows : j \in Live /\ i < j => i \in Live
    BY <1>1, InitialAssumption DEF Ids
  <2>3. QED
    BY <1>a, <2>1, <2>2, InOrder
<1>3. PICK S : S = {v \in VariantIds : InitialOwners[v] # 0}
  OBVIOUS
<1>4. Cardinality(S) \in 0..MaxVariants /\ \A v \in S : v <= Cardinality(S)
  <2>1. S \in SUBSET (1..MaxVariants)
    BY <1>3 DEF VariantIds
  <2>2. \A v, u \in 1..MaxVariants : u \in S /\ v < u => v \in S
    BY <1>3, InitialAssumption DEF VariantIds
  <2>3. QED
    BY <1>a, <2>1, <2>2, InOrder
<1>5. lastRow = Cardinality(Live) /\ lastVariant = Cardinality(S)
  BY <1>3 DEF Init
<1>6. DataOK
  <2>1. products \in [Ids -> Rows \union {None}] /\ source \in [Externals -> Offers \union {None}]
    BY InitialAssumption DEF Init
  <2>2. owner \in [VariantIds -> Ids \union {0}]
    BY InitialAssumption DEF Init
  <2>3. stale \in [Handlers -> SUBSET Keys] /\ blind \subseteq Keys /\ releases \subseteq Versions
    BY DEF Init
  <2>4. lastRow \in 0..MaxRows /\ lastVariant \in 0..MaxVariants
    BY <1>2, <1>4, <1>5
  <2>5. imported \in 0..MaxRows /\ changes \in 0..MaxChanges /\ faults \in 0..MaxFaults
        /\ setup \in Setups
        /\ serves \in Loads
    BY <1>a DEF Init
  <2>6. QED
    BY <2>1, <2>2, <2>3, <2>4, <2>5 DEF DataOK
<1>7. TypeInv
  <2>1. Idle \in Works /\ WorkOK("idle", Idle) /\ "idle" \in Stages
    BY IdleOK DEF Resting
  <2>2. QED
    BY <1>6, <2>1 DEF TypeInv, Init
<1>8. LiveInv
  <2>1. imported <= lastRow
    BY <1>2, <1>5 DEF Init
  <2>2. \A v \in VariantIds : owner[v] # 0 => owner[v] \in Live /\ v <= lastVariant
    BY <1>1, <1>3, <1>4, <1>5, InitialAssumption DEF Init
  <2>3. QED
    BY <1>2, <1>5, <2>1, <2>2 DEF LiveInv
<1>9. FlagAgrees
  <2> SUFFICES ASSUME NEW i \in Live
               PROVE  products[i].flag = (VariantsOf(i) # {})
    BY DEF FlagAgrees
  <2>1. i \in Ids /\ InitialRows[i] # None
    BY <1>1
  <2>2. InitialRows[i].flag = \E v \in VariantIds : InitialOwners[v] = i
    BY <2>1, InitialAssumption, Zenon
  <2>3. (\E v \in VariantIds : InitialOwners[v] = i) <=> VariantsOf(i) # {}
    BY DEF Init, VariantsOf
  <2>4. QED
    BY <2>2, <2>3, Zenon DEF Init
<1>10. RowInv
  BY <1>1, StoreAssumption, InitialAssumption DEF RowInv, RowsOf, Init
<1>11. PlanLimitHolds
  <2>1. Limit > 0 => Cardinality(Live) <= Limit
    BY <1>1, InitialAssumption
  <2>2. imported = 0
    BY DEF Init
  <2>3. QED
    BY <1>a, <2>1, <2>2 DEF PlanLimitHolds
<1>12. ASSUME NEW h \in Handlers
       PROVE  Held(pc[h], work[h], stale[h])
  <2>1. pc[h] = "idle" /\ work[h] = Idle
    BY DEF Init
  <2>2. QED
    BY <1>6, <2>1, IdleOK DEF Resting
<1>13. QED
  BY <1>7, <1>8, <1>9, <1>10, <1>11, <1>12 DEF Inv, TableInv

LEMMA InvHolds == Spec => []Inv
<1>1. Init => Inv
  BY InitInv
<1>2. Inv /\ [Next]_vars => Inv'
  BY NextInv
<1>3. QED
  BY <1>1, <1>2, PTL DEF Spec

\* Type correctness of the catalog and of its requests.
THEOREM CatalogTypeCorrect == Spec => []TypeOK
<1>1. Inv => TypeOK
  BY DEF Inv, TypeInv, DataOK, TypeOK
<1>2. QED
  BY <1>1, InvHolds, PTL

\* has_variants agrees with the variant rows unless an edit replaced variants
\* without having seen another's edit of them (_replace_variants).
THEOREM FlagsAgree == Spec => []FlagAgrees
<1>1. Inv => FlagAgrees
  BY DEF Inv, TableInv
<1>2. QED
  BY <1>1, InvHolds, PTL

\* No external id has two rows unless two syncs both looked it up before
\* either committed (sync_catalog).
THEOREM ExternalIdsOnce == Spec => []OneRowPerExternalId
<1>1. Inv => OneRowPerExternalId
  <2> SUFFICES ASSUME Inv, NEW e \in Externals, <<"row", e>> \notin blind
               PROVE  Cardinality(RowsOf(e)) <= 1
    BY DEF OneRowPerExternalId
  <2>1. \A i, j \in RowsOf(e) : i = j
    BY DEF Inv, TableInv, RowInv
  <2>2. CASE RowsOf(e) = {}
    <3>1. Cardinality(RowsOf(e)) = 0
      BY <2>2, FS_EmptySet, Zenon
    <3>2. QED
      BY <3>1
  <2>3. CASE RowsOf(e) # {}
    <3>1. PICK i : i \in RowsOf(e)
      BY <2>3
    <3>2. RowsOf(e) = {i}
      BY <2>1, <3>1
    <3>3. Cardinality(RowsOf(e)) = 1
      BY <3>2, FS_Singleton, Zenon
    <3>4. QED
      BY <3>3
  <2>4. QED
    BY <2>2, <2>3
<1>2. QED
  BY <1>1, InvHolds, PTL

\* The plan's product limit holds but for what imports and syncs bring and for
\* products created over each other (create_catalog_item).
THEOREM PlanLimitKept == Spec => []PlanLimitHolds
<1>1. Inv => PlanLimitHolds
  BY DEF Inv, TableInv
<1>2. QED
  BY <1>1, InvHolds, PTL

\* A request's step moves no other request.
OthersStay(h) == \A k \in Handlers \ {h} : pc'[k] = pc[k]

LEMMA OneMoves ==
    ASSUME NEW h \in Handlers, Arrives(h) \/ Step(h) \/ Fails(h), pc \in [Handlers -> Stages]
    PROVE  OthersStay(h)
<1>1. \A k, s, w : Serve(h, k, s, w) => OthersStay(h)
  BY DEF Serve, OthersStay
<1>2. \A s, w : Goes(h, s, w) => OthersStay(h)
  BY DEF Goes, OthersStay
<1>3. Ends(h) => OthersStay(h)
  BY <1>2 DEF Ends
<1>4. \A changed, relied : Commits(h, changed, relied) => OthersStay(h)
  BY <1>3 DEF Commits
<1>5. ImportsCsv(h) \/ CreateCounts(h) \/ ImportStarts(h) => OthersStay(h)
  BY <1>1, <1>4, Zenon DEF ImportsCsv, CreateCounts, ImportStarts
<1>6. EditLoads(h) \/ DeleteLoads(h) \/ SaleLoads(h) => OthersStay(h)
  BY <1>1, Zenon DEF EditLoads, DeleteLoads, SaleLoads
<1>7. \A k : SyncStarts(h, k) => OthersStay(h)
  BY <1>1, Zenon DEF SyncStarts
<1>8. CreateCommits(h) => OthersStay(h)
  BY <1>4, Zenon DEF CreateCommits
<1>9. EditCommits(h) => OthersStay(h)
  BY <1>4, Zenon DEF EditCommits
<1>10. DeleteCommits(h) \/ SaleCommits(h) => OthersStay(h)
  BY <1>4, Zenon DEF DeleteCommits, SaleCommits
<1>11. SyncCommits(h) => OthersStay(h)
  BY <1>4, Zenon DEF SyncCommits
<1>12. EditReadsVariants(h) \/ LooksUpReleases(h) \/ UpsertsReleases(h) \/ Fetches(h)
          => OthersStay(h)
  BY <1>2, Zenon DEF EditReadsVariants, LooksUpReleases, UpsertsReleases, Fetches
<1>13. LooksUp(h) => OthersStay(h)
  BY DEF LooksUp, OthersStay
<1>14. Fails(h) \/ EditFails(h) \/ SaleFails(h) \/ BrokenSync(h) \/ SyncFails(h)
          => OthersStay(h)
  BY <1>3 DEF Fails, EditFails, SaleFails, BrokenSync, SyncFails, RollsBack
<1>15. QED
  BY <1>5, <1>6, <1>7, <1>8, <1>9, <1>10, <1>11, <1>12, <1>13, <1>14 DEF Arrives, Step

\* Only the commit of its sync takes h from its lookups and changes products.
LEMMA LookupEnds ==
    ASSUME Inv, Next, NEW h \in Handlers, pc[h] = "lookup", pc'[h] # "lookup",
           products' # products
    PROVE  SyncCommits(h)
<1>1. ~SourceChanges
  BY DEF SourceChanges, db
<1>2. Arrives(h) \/ Step(h) \/ Fails(h)
  BY <1>1, OneMoves DEF Next, Inv, TypeInv, OthersStay
<1>3. ~Fails(h)
  BY DEF Fails, db
<1>4. ~Arrives(h) /\ ~SyncStarts(h, "job")
  BY DEF Arrives, CreateCounts, ImportsCsv, EditLoads, DeleteLoads, SaleLoads, ImportStarts,
     SyncStarts, Serve
<1>5. ~CreateCommits(h) /\ ~EditReadsVariants(h) /\ ~EditCommits(h) /\ ~EditFails(h)
      /\ ~DeleteCommits(h) /\ ~SaleCommits(h) /\ ~SaleFails(h)
  BY DEF CreateCommits, EditReadsVariants, EditCommits, EditFails, DeleteCommits, SaleCommits,
     SaleFails
<1>6. ~LooksUpReleases(h) /\ ~UpsertsReleases(h) /\ ~Fetches(h) /\ ~BrokenSync(h)
      /\ ~LooksUp(h) /\ ~SyncFails(h)
  BY DEF LooksUpReleases, UpsertsReleases, Fetches, BrokenSync, LooksUp, SyncFails, RollsBack, db
<1>7. QED
  BY <1>2, <1>3, <1>4, <1>5, <1>6 DEF Step

\* A sync that writes anything leaves every product it fetched in the catalog
\* as it was fetched, but for rows that others changed or deleted since it
\* looked (sync_catalog).
THEOREM SyncsMirror == Spec => SyncMirrors
<1>1. ASSUME Inv, Next, NEW h \in Handlers, pc[h] = "lookup", pc'[h] # "lookup",
             products' # products, NEW e \in Fetched(work[h]), <<"row", e>> \notin stale[h]
      PROVE  \E i \in Ids :
                /\ products'[i] # None /\ products'[i].ext = e
                /\ <<"stock", i>> \notin stale[h] => Agrees(products'[i], work[h].shelf[e])
  <2>1. SyncCommits(h)
    BY <1>1, LookupEnds
  <2>2. PICK w \in Works : w = work[h]
    BY <1>1 DEF Inv, TypeInv
  <2>3. Held("lookup", w, stale[h])
    BY <1>1, <2>2 DEF Inv
  <2>a. w.todo = {}
    BY <2>1, <2>2 DEF SyncCommits
  <2>4. \E n \in Nat, ids \in SUBSET Nat : \E nth \in [ids -> New(w)] : SyncWrote(w, n, ids, nth)
    BY <1>1, <2>1, <2>2, SyncWrites
  <2>5. PICK n \in Nat, ids \in SUBSET Nat : \E nth \in [ids -> New(w)] : SyncWrote(w, n, ids, nth)
    BY <2>4
  <2>6. PICK nth \in [ids -> New(w)] : SyncWrote(w, n, ids, nth)
    BY <2>5
  <2>7. \A i \in Live \union ids : i \in Ids /\ products'[i] # None
    <3>1. \A i \in Live' : i \in Ids /\ products'[i] # None
      BY DEF Live
    <3>2. QED
      BY <2>6, <3>1 DEF SyncWrote
  <2>8. CASE e \in New(w)
    <3>1. PICK i \in ids : nth[i] = e
      BY <2>6, <2>8 DEF SyncWrote
    <3>2. products'[i].ext = e /\ Agrees(products'[i], w.shelf[e])
      BY <2>6, <3>1 DEF SyncWrote
    <3>3. QED
      BY <2>2, <2>7, <3>2
  <2>9. CASE e \notin New(w)
    <3>1. PICK i \in Matched(w) : w.held[i].ext = e
      BY <1>1, <2>2, <2>9 DEF New, Fetched
    <3>2. /\ products[i] # None /\ i \in Ids /\ products[i].ext = e
          /\ <<"stock", i>> \notin stale[h] => Agrees(products[i], w.held[i])
      BY <1>1, <2>3, <3>1 DEF Held, HeldSync, HeldRows, Matched
    <3>3. i \in Live
      BY <3>2 DEF Live
    <3>4. /\ products'[i].ext = e
          /\ products'[i].stock = Kept(products[i].stock, w.held[i].stock, w.shelf[e].stock)
          /\ products'[i].listed = Kept(products[i].listed, w.held[i].listed, w.shelf[e].listed)
      BY <2>6, <3>1, <3>2, <3>3 DEF SyncWrote
    <3>5. <<"stock", i>> \notin stale[h] => Agrees(products'[i], w.shelf[e])
      BY <3>2, <3>4 DEF Agrees, Kept
    <3>6. QED
      BY <2>2, <2>7, <3>3, <3>4, <3>5
  <2>10. QED
    BY <2>8, <2>9
<1>2. Inv /\ [Next]_vars =>
        [\A h \in Handlers :
           pc[h] = "lookup" /\ pc'[h] # "lookup" /\ products' # products =>
              \A e \in Fetched(work[h]) : <<"row", e>> \notin stale[h] =>
                 \E i \in Ids :
                    /\ products'[i] # None /\ products'[i].ext = e
                    /\ <<"stock", i>> \notin stale[h] => Agrees(products'[i], work[h].shelf[e])]_vars
  BY <1>1
<1>3. QED
  BY <1>2, InvHolds, PTL DEF Spec, SyncMirrors

=============================================================================
