---------------------- MODULE SettlementPromise_proofs ----------------------
(***************************************************************************)
(* The handlers of PaymentSettlement implement SettlementPromise: every    *)
(* step is a step of the promise or leaves its view of the system alone.   *)
(***************************************************************************)
EXTENDS PaymentSettlement_proofs

\* The refinement mapping, as Promise substitutes it.
ClaimedSet == {o \in Orders : Claimed(o)}
PaidSet == {o \in Orders : Paid(o)}
Done == [o \in Orders |-> UNION {did[h] : h \in {g \in Handlers : OrderOf(g) = o}}]
HandledSet == {o \in Orders : orders[o].fulfil # "none"}
View == <<ClaimedSet, PaidSet, Done, HandledSet>>

\* An order has e done when some handler of it has done e.
LEMMA DoneHas ==
    ASSUME NEW o \in Orders, NEW e
    PROVE  e \in Done[o] <=> HasDone(o, e)
  BY DEF Done, HasDone

\* What a step of slot h that does D makes of the view.
LEMMA DoneStep ==
    ASSUME TypeOK, NEW h \in Handlers, NEW D, req' = req,
           did'[h] = did[h] \union D,
           \A g \in Handlers \ {h} : did'[g] = did[g]
    PROVE  Done' = [Done EXCEPT ![OrderOf(h)] = @ \union D]
<1>1. OrderOf(h) \in Orders /\ \A g \in Handlers : OrderOf(g)' = OrderOf(g)
  BY LinkTypes DEF TypeOK, OrderOf
<1>2. ASSUME NEW o \in Orders
      PROVE  Done'[o] = IF o = OrderOf(h) THEN Done[o] \union D ELSE Done[o]
  <2>1. Done'[o] = UNION {did'[g] : g \in {k \in Handlers : OrderOf(k) = o}}
    BY <1>1 DEF Done
  <2>2. Done[o] = UNION {did[g] : g \in {k \in Handlers : OrderOf(k) = o}}
    BY DEF Done
  <2>3. CASE o = OrderOf(h)
    BY <2>1, <2>2, <2>3
  <2>4. CASE o # OrderOf(h)
    BY <2>1, <2>2, <2>4
  <2>5. QED
    BY <2>3, <2>4
<1>3. Done \in [Orders -> {Done[o] : o \in Orders}]
  BY DEF Done
<1>4. Done' = [o \in Orders |-> Done'[o]]
  BY DEF Done
<1>5. QED
  BY <1>1, <1>2, <1>3, <1>4

LEMMA InitPromise == Init => Promise!Init
<1> SUFFICES ASSUME Init PROVE Promise!Init
  OBVIOUS
<1>1. \A o \in Orders : ~Claimed(o)
  BY DEF Init, Claimed, Charged, Trusted
<1>2. \A o \in Orders : ~Paid(o) /\ orders[o].fulfil = "none"
  BY DEF Init, InitialRow, Paid
<1>3. \A h \in Handlers : did[h] = {}
  BY DEF Init
<1>4. QED
  BY <1>1, <1>2, <1>3 DEF Promise!Init

----------------------------------------------------------------------------

\* No order is paid or handled by the step.
RowsKept ==
    \A o \in Orders : /\ orders'[o].status = orders[o].status
                      /\ orders'[o].fulfil = orders[o].fulfil

\* No slot is given a request by the step.
SameSlots ==
    \A h \in Handlers :
        /\ pc'[h] = "idle" <=> pc[h] = "idle"
        /\ pc[h] # "idle" => kind'[h] = kind[h] /\ req'[h] = req[h]

LEMMA StepSlots ==
    ASSUME TypeOK, NEW h \in Handlers, Step(h)
    PROVE  SameSlots
<1>1. UNCHANGED <<kind, req>>
  BY DEF Step, VerifySucceeds, VerifyFails, Refresh, Commit, Receipt, Finalize, StockStarts,
         StockCommit, StockRead, Push, Digital, Settle, Alert, Relink, RelinkFails, locals
<1>2. AfterStock(h) # "idle"
  BY DEF AfterStock, FirstGroup
<1>3. pc[h] # "idle" /\ pc'[h] # "idle"
  BY <1>2 DEF Step, VerifySucceeds, VerifyFails, Refresh, Commit, Receipt, Finalize, StockStarts,
         StockCommit, StockRead, Push, Digital, Settle, Alert, Relink, RelinkFails, Attempt,
         Move, TypeOK
<1>4. \A g \in Handlers \ {h} : pc'[g] = pc[g]
  BY StepLocal
<1>5. QED
  BY <1>1, <1>3, <1>4 DEF SameSlots

\* Then, unless somebody pays, nobody else is taken to have paid.
LEMMA ClaimsKept ==
    ASSUME SameSlots, charges' = charges
    PROVE  ClaimedSet' = ClaimedSet
<1>1. ASSUME NEW o \in Orders
      PROVE  Claimed(o)' <=> Claimed(o)
  <2>1. Charged(o)' <=> Charged(o)
    BY DEF Charged
  <2>2. Trusted(o)' <=> Trusted(o)
    BY DEF Trusted, SameSlots, OrderOf, Signer
  <2>3. QED
    BY <2>1, <2>2 DEF Claimed
<1>2. QED
  BY <1>1 DEF ClaimedSet

LEMMA RowsKeptView ==
    ASSUME RowsKept
    PROVE  PaidSet' = PaidSet /\ HandledSet' = HandledSet
  BY DEF RowsKept, PaidSet, HandledSet, Paid

LEMMA DoneKept ==
    ASSUME TypeOK, SettlementInv, did' = did,
           \A h \in Handlers : pc[h] # "idle" => req'[h] = req[h]
    PROVE  Done' = Done
<1>3. ASSUME NEW o \in Orders
      PROVE  UNION {did'[h] : h \in {g \in Handlers : OrderOf(g)' = o}}
             = UNION {did[h] : h \in {g \in Handlers : OrderOf(g) = o}}
  <2>1. \A h \in Handlers : did[h] # {} => OrderOf(h)' = OrderOf(h)
    BY DEF SettlementInv, HandlerOK, OrderOf
  <2>2. QED
    BY <2>1
<1>4. QED
  BY <1>3 DEF Done

\* Steps that do nothing and make nobody believe anything are invisible.
LEMMA Invisible ==
    ASSUME TypeOK, SettlementInv, RowsKept, ClaimedSet' = ClaimedSet, did' = did,
           \A h \in Handlers : pc[h] # "idle" => req'[h] = req[h]
    PROVE  UNCHANGED View
  BY RowsKeptView, DoneKept DEF View

\* A part of _notify_customer_payment_success performs e.
LEMMA Performs ==
    ASSUME TypeOK, SettlementInv, RowsKept, NEW h \in Handlers,
           NEW e \in Promise!Performed,
           ClaimedSet' = ClaimedSet, req' = req, pc[h] \in Notifying,
           did'[h] = did[h] \union {e},
           \A g \in Handlers \ {h} : did'[g] = did[g],
           e = "alert" => orders[OrderOf(h)].fulfil # "none" \/ "raised" \in did[h]
    PROVE  Promise!Next
<1>1. OrderOf(h) \in Orders
  BY LinkTypes DEF TypeOK, OrderOf
<1>2. Paid(OrderOf(h)) /\ HasDone(OrderOf(h), "log")
  BY DEF SettlementInv, HandlerOK, HasDone
<1>3. OrderOf(h) \in PaidSet /\ "log" \in Done[OrderOf(h)]
  BY <1>1, <1>2, DoneHas DEF PaidSet
<1>4. Done' = [Done EXCEPT ![OrderOf(h)] = @ \union {e}]
  BY DoneStep
<1>6. e = "alert" => OrderOf(h) \in HandledSet \/ "raised" \in Done[OrderOf(h)]
  BY <1>1, DoneHas DEF HandledSet, HasDone
<1>7. Promise!Perform(OrderOf(h), e)
  BY <1>3, <1>4, <1>6, RowsKeptView
     DEF Promise!Perform, ClaimedSet, PaidSet, HandledSet, Done
<1>8. QED
  BY <1>7, <1>1 DEF Promise!Next, Promise!Perform

LEMMA CommitConfirms ==
    ASSUME TypeOK, SettlementInv, NEW h \in Handlers, Commit(h)
    PROVE  Promise!Next
<1> DEFINE o == OrderOf(h)
           row == Flushed(orders[o], seen[h], Confirmed(h))
<1>1. o \in Orders /\ SeenOK(h) /\ HandlerOK(h) /\ pc[h] = "commit"
      /\ orders[o] \in OrderRows /\ seen[h] \in OrderRows
  BY LinkTypes DEF TypeOK, OrderOf, SettlementInv, Commit
<1>2. /\ orders' = [orders EXCEPT ![o] = row]
      /\ charges' = charges /\ req' = req
  BY DEF Commit, Save, world, locals
<1>3. row.status = "paid" /\ row.fulfil = orders[o].fulfil
  BY <1>1 DEF Flushed, Kept, Confirmed, OrderRows, SeenOK, Paid
<1> HIDE DEF row
<1>4. PaidSet' = PaidSet \union {o}
  BY <1>1, <1>2, <1>3 DEF PaidSet, Paid, TypeOK
<1>5. HandledSet' = HandledSet /\ ClaimedSet' = ClaimedSet
  BY <1>1, <1>2, <1>3, StepSlots, ClaimsKept DEF HandledSet, TypeOK, Step
<1>6. o \in ClaimedSet
  BY <1>1 DEF ClaimedSet, HandlerOK
<1>7. Done' = Done \/ Done' = [Done EXCEPT ![o] = @ \union {"log"}]
  <2>1. CASE kind[h] = "manual"
    <3>1. did' = did
      BY <2>1 DEF Commit
    <3>2. QED
      BY <1>2, <3>1 DEF Done, OrderOf
  <2>2. CASE kind[h] # "manual"
    <3>1. did'[h] = did[h] \union {"log"} /\ \A g \in Handlers \ {h} : did'[g] = did[g]
      BY <2>2 DEF Commit, TypeOK
    <3>2. QED
      BY <1>2, <3>1, DoneStep
  <2>3. QED
    BY <2>1, <2>2
<1>8. Promise!Confirm(OrderOf(h))
  BY <1>4, <1>5, <1>6, <1>7 DEF Promise!Confirm, ClaimedSet, PaidSet, HandledSet, Done
<1>9. QED
  BY <1>8, <1>1 DEF Promise!Next, Promise!Confirm

LEMMA SettleHandles ==
    ASSUME TypeOK, SettlementInv, NEW h \in Handlers, Settle(h)
    PROVE  Promise!Next
<1> DEFINE o == OrderOf(h)
           new == [seen[h] EXCEPT !.fulfil = Outcome(results[h])]
           row == [Flushed(orders[o], seen[h], new) EXCEPT !.counted = new.counted]
<1>1. o \in Orders /\ SeenOK(h) /\ HandlerOK(h) /\ pc[h] = "settle"
      /\ orders[o] \in OrderRows /\ seen[h] \in OrderRows
  BY LinkTypes DEF TypeOK, OrderOf, SettlementInv, Settle
<1>2. /\ orders' = [orders EXCEPT ![o] = row]
      /\ charges' = charges /\ req' = req
  BY DEF Settle, world
<1>3. row.status = orders[o].status /\ row.fulfil # "none"
  <2>1. Outcome(results[h]) # "none"
    BY DEF Outcome
  <2>2. new.status = seen[h].status /\ new.fulfil # "none"
    BY <1>1, <2>1 DEF OrderRows
  <2> HIDE DEF new
  <2>3. QED
    BY <1>1, <2>2 DEF Flushed, Kept, SeenOK
<1> HIDE DEF row
<1>4. HandledSet' = HandledSet \union {o}
  BY <1>1, <1>2, <1>3 DEF HandledSet, TypeOK
<1>5. PaidSet' = PaidSet /\ ClaimedSet' = ClaimedSet
  BY <1>1, <1>2, <1>3, StepSlots, ClaimsKept DEF PaidSet, Paid, TypeOK, Step
<1>6. o \in PaidSet /\ "log" \in Done[o]
  <2>1. Paid(o) /\ HasDone(o, "log")
    BY <1>1 DEF HandlerOK, Notifying, HasDone
  <2>2. QED
    BY <1>1, <2>1, DoneHas DEF PaidSet
<1>7. Done' = Done \/ Done' = [Done EXCEPT ![o] = @ \union {"spill"}]
  <2>1. CASE dirty[h] = {}
    <3>1. did' = did
      BY <2>1 DEF Settle, TypeOK
    <3>2. QED
      BY <1>2, <3>1 DEF Done, OrderOf
  <2>2. CASE dirty[h] # {}
    <3>1. did'[h] = did[h] \union {"spill"} /\ \A g \in Handlers \ {h} : did'[g] = did[g]
      BY <2>2 DEF Settle, TypeOK
    <3>2. QED
      BY <1>2, <3>1, DoneStep
  <2>3. QED
    BY <2>1, <2>2
<1>8. Promise!Handle(OrderOf(h))
  BY <1>4, <1>5, <1>6, <1>7 DEF Promise!Handle, ClaimedSet, PaidSet, HandledSet, Done
<1>9. QED
  BY <1>8, <1>1 DEF Promise!Next, Promise!Handle

----------------------------------------------------------------------------

\* A commit that leaves status and fulfilment as loaded keeps the stored ones.
LEMMA FlushKeeps ==
    ASSUME NEW row, NEW old, NEW new, new.status = old.status, new.fulfil = old.fulfil
    PROVE  /\ Flushed(row, old, new).status = row.status
           /\ Flushed(row, old, new).fulfil = row.fulfil
  BY DEF Flushed, Kept

LEMMA ChargeClaims ==
    ASSUME TypeOK, NEW l \in links, Charge(l)
    PROVE  Promise!Next
<1>1. /\ charges' = charges \union {l} /\ UNCHANGED <<orders, did, req, kind, pc>>
      /\ l.order \in Orders
  BY LinkTypes DEF Charge, db, locals, TypeOK
<1>2. ClaimedSet' = ClaimedSet \union {l.order}
  <2>1. ASSUME NEW o \in Orders
        PROVE  Claimed(o)' <=> Claimed(o) \/ o = l.order
    <3>1. Trusted(o)' <=> Trusted(o)
      BY <1>1 DEF Trusted, OrderOf, Signer
    <3>2. Charged(o)' <=> Charged(o) \/ o = l.order
      BY <1>1 DEF Charged
    <3>3. QED
      BY <3>1, <3>2 DEF Claimed
  <2>2. QED
    BY <1>1, <2>1 DEF ClaimedSet
<1>3. PaidSet' = PaidSet /\ HandledSet' = HandledSet /\ Done' = Done
  BY <1>1 DEF PaidSet, Paid, HandledSet, Done, OrderOf
<1>4. Promise!Claim(l.order)
  BY <1>2, <1>3 DEF Promise!Claim, ClaimedSet, PaidSet, HandledSet, Done
<1>5. QED
  BY <1>4, <1>1 DEF Promise!Next, Promise!Claim

LEMMA StockCommitCounts ==
    ASSUME TypeOK, SettlementInv, NEW h \in Handlers, StockCommit(h)
    PROVE  Promise!Next
<1> DEFINE new == [seen[h] EXCEPT !.counted = TRUE]
<1>1. OrderOf(h) \in Orders /\ seen[h] \in OrderRows
  BY LinkTypes DEF TypeOK, OrderOf
<1>2. new.status = seen[h].status /\ new.fulfil = seen[h].fulfil
  BY <1>1 DEF OrderRows
<1>3. orders' = [orders EXCEPT ![OrderOf(h)] = Flushed(@, seen[h], new)]
  BY DEF StockCommit, Save
<1> HIDE DEF new
<1>4. RowsKept
  BY <1>1, <1>2, <1>3, FlushKeeps DEF RowsKept, TypeOK
<1>5. /\ charges' = charges /\ req' = req /\ pc[h] \in Notifying
      /\ did'[h] = did[h] \union {"count"}
      /\ \A g \in Handlers \ {h} : did'[g] = did[g]
  BY DEF StockCommit, Attempt, Notifying, TypeOK, world
<1>7. ClaimedSet' = ClaimedSet
  BY <1>5, StepSlots, ClaimsKept DEF Step
<1>6. QED
  BY <1>4, <1>5, <1>7, Performs DEF Promise!Performed

LEMMA RelinkIsInvisible ==
    ASSUME TypeOK, SettlementInv, NEW h \in Handlers, Relink(h)
    PROVE  UNCHANGED View
<1>1. OrderOf(h) \in Orders /\ seen[h] \in OrderRows
  BY LinkTypes DEF TypeOK, OrderOf
<1>2. PICK l \in Links :
         LET new == Relinked(h, l)
             row == Flushed(orders[OrderOf(h)], seen[h], new)
         IN orders' = [orders EXCEPT ![OrderOf(h)] =
                         IF l.gateway = "bumpa"
                         THEN [row EXCEPT !.counted = new.counted] ELSE row]
  BY DEF Relink
<1> DEFINE new == Relinked(h, l)
           base == Flushed(orders[OrderOf(h)], seen[h], new)
           row == IF l.gateway = "bumpa" THEN [base EXCEPT !.counted = new.counted] ELSE base
<1>3. new.status = seen[h].status /\ new.fulfil = seen[h].fulfil
  BY <1>1 DEF Relinked, OrderRows
<1>4. orders' = [orders EXCEPT ![OrderOf(h)] = row]
  BY <1>2
<1> HIDE DEF new
<1>5. base.status = orders[OrderOf(h)].status /\ base.fulfil = orders[OrderOf(h)].fulfil
  BY <1>3, FlushKeeps
<1>6. row.status = base.status /\ row.fulfil = base.fulfil
  BY DEF Flushed
<1> HIDE DEF base, row
<1>7. RowsKept
  BY <1>1, <1>4, <1>5, <1>6 DEF RowsKept, TypeOK
<1>8. ClaimedSet' = ClaimedSet
  BY StepSlots, ClaimsKept DEF Relink, Step
<1>9. QED
  BY <1>7, <1>8, Invisible DEF Relink, locals

\* A request claims nothing, or, when nobody checked the event that it is,
\* that its order was paid for.
LEMMA ArriveClaims ==
    ASSUME TypeOK, SettlementInv, NEW h \in Handlers, Arrive(h)
    PROVE  Promise!Next \/ UNCHANGED View
<1>1. PICK k, r, s : Serve(h, k, r, s) /\ r.order \in Orders
  <2>1. \A l \in links : l \in Links
    BY DEF TypeOK
  <2>2. \A o, g : OwnLink(o, g).order = o
    BY DEF OwnLink
  <2>3. QED
    BY <2>1, <2>2, LinkTypes DEF Arrive, HookArrives, PlainArrives, CallbackArrives,
                                 ManualArrives, RelinkArrives
<1>2. RowsKept /\ charges' = charges /\ did' = did
  BY <1>1 DEF Serve, RowsKept, db, world
<1>3. \A g \in Handlers : pc[g] # "idle" => req'[g] = req[g]
  BY <1>1 DEF Serve, TypeOK
<1>4. \A o \in Orders : Claimed(o) => Claimed(o)'
  <2>1. Grows
    BY <1>1, <1>2, <1>3 DEF Grows, RowsKept, Paid, Serve, TypeOK
  <2>2. QED
    BY <2>1, ClaimGrows
<1>5. ASSUME NEW o \in Orders, o # r.order, Claimed(o)'
      PROVE  Claimed(o)
  <2>1. CASE Charged(o)'
    BY <1>2, <2>1 DEF Charged, Claimed
  <2>2. CASE Trusted(o)'
    <3>1. PICK g \in Handlers :
             /\ pc'[g] # "idle" /\ kind'[g] \in {"hook", "plain"}
             /\ req'[g].order = o /\ Signer(req'[g]) \notin Checked
      BY <2>2 DEF Trusted, OrderOf, Signer
    <3>2. g # h
      BY <1>1, <1>5, <3>1 DEF Serve, TypeOK
    <3>3. pc'[g] = pc[g] /\ kind'[g] = kind[g] /\ req'[g] = req[g]
      BY <1>1, <3>2 DEF Serve, TypeOK
    <3>4. QED
      BY <3>1, <3>3 DEF Claimed, Trusted, OrderOf
  <2>3. QED
    BY <1>5, <2>1, <2>2 DEF Claimed
<1>6. ClaimedSet' = ClaimedSet \/ ClaimedSet' = ClaimedSet \union {r.order}
  BY <1>1, <1>4, <1>5 DEF ClaimedSet
<1>7. CASE ClaimedSet' = ClaimedSet
  BY <1>2, <1>3, <1>7, Invisible
<1>8. CASE ClaimedSet' = ClaimedSet \union {r.order}
  <2>1. PaidSet' = PaidSet /\ HandledSet' = HandledSet
    BY <1>2, RowsKeptView
  <2>2. Done' = Done
    BY <1>2, <1>3, DoneKept
  <2>3. Promise!Claim(r.order)
    BY <1>8, <2>1, <2>2 DEF Promise!Claim, ClaimedSet, PaidSet, HandledSet, Done
  <2>4. QED
    BY <1>1, <2>3 DEF Promise!Next, Promise!Claim
<1>9. QED
  BY <1>6, <1>7, <1>8

LEMMA StepKeepsPromise ==
    ASSUME TypeOK, SettlementInv, NEW h \in Handlers, Step(h)
    PROVE  Promise!Next \/ UNCHANGED View
<1>0. OrderOf(h) \in Orders
  BY LinkTypes DEF TypeOK, OrderOf
<1>c. charges' = charges => ClaimedSet' = ClaimedSet
  BY StepSlots, ClaimsKept
<1>a. ASSUME NEW e \in Promise!Performed, NEW s, Attempt(h, e, s), UNCHANGED <<orders, charges, req>>,
             pc[h] \in Notifying,
             e = "alert" => orders[OrderOf(h)].fulfil # "none" \/ "raised" \in did[h]
      PROVE  Promise!Next
  <2>1. did'[h] = did[h] \union {e} /\ \A g \in Handlers \ {h} : did'[g] = did[g]
    BY <1>a DEF Attempt, TypeOK
  <2>2. RowsKept
    BY <1>a DEF RowsKept
  <2>3. QED
    BY <1>0, <1>a, <1>c, <2>1, <2>2, Performs
<1>b. ASSUME UNCHANGED <<orders, charges, req, did>>
      PROVE  UNCHANGED View
  BY <1>b, <1>c, Invisible DEF RowsKept
<1>1. CASE VerifySucceeds(h) \/ VerifyFails(h) \/ Refresh(h) \/ RelinkFails(h)
  BY <1>b, <1>1 DEF VerifySucceeds, VerifyFails, Refresh, RelinkFails, db, world, locals
<1>2. CASE Commit(h)
  BY <1>0, <1>2, CommitConfirms
<1>3. CASE Receipt(h)
  <2>1. PICK s : Attempt(h, "receipt", s)
    BY <1>3 DEF Receipt
  <2>2. "receipt" \in Promise!Performed /\ pc[h] \in Notifying
        /\ UNCHANGED <<orders, charges, req>>
    BY <1>3 DEF Receipt, Promise!Performed, Notifying, db, world, locals
  <2>3. QED
    BY <1>a, <2>1, <2>2
<1>4. CASE Finalize(h)
  <2>1. Attempt(h, "finalize", "stock")
    BY <1>4 DEF Finalize
  <2>2. "finalize" \in Promise!Performed /\ pc[h] \in Notifying
        /\ UNCHANGED <<orders, charges, req>>
    BY <1>4 DEF Finalize, Promise!Performed, Notifying, db, world, locals
  <2>3. QED
    BY <1>a, <2>1, <2>2
<1>5. CASE StockStarts(h) \/ \E u \in Units : StockRead(h, u)
  BY <1>b, <1>5 DEF StockStarts, StockRead, db, world, locals
<1>6. CASE StockCommit(h)
  <2>1. "count" \in Promise!Performed
    BY DEF Promise!Performed
  <2>2. QED
    BY <1>0, <1>6, <2>1, StockCommitCounts
<1>7. CASE Push(h)
  <2>1. PICK s : Attempt(h, "push", s)
    BY <1>7 DEF Push
  <2>2. "push" \in Promise!Performed /\ pc[h] \in Notifying
        /\ UNCHANGED <<orders, charges, req>>
    BY <1>7 DEF Push, Promise!Performed, Notifying, db, world
  <2>3. QED
    BY <1>a, <2>1, <2>2
<1>8. CASE Digital(h)
  <2>1. "digital" \in Promise!Performed /\ pc[h] \in Notifying
        /\ UNCHANGED <<orders, charges, req>>
    BY <1>8 DEF Digital, Promise!Performed, Notifying, db, world
  <2>2. Attempt(h, "digital", "settle") \/ did' = did
    BY <1>8 DEF Digital
  <2>3. QED
    BY <1>a, <1>b, <2>1, <2>2
<1>9. CASE Settle(h)
  BY <1>0, <1>9, SettleHandles
<1>10. CASE Alert(h)
  <2>1. Attempt(h, "alert", "done")
    BY <1>10 DEF Alert
  <2>2. "alert" \in Promise!Performed /\ pc[h] \in Notifying
        /\ UNCHANGED <<orders, charges, req>>
    BY <1>10 DEF Alert, Promise!Performed, Notifying, db, world, locals
  <2>3. orders[OrderOf(h)].fulfil # "none" \/ "raised" \in did[h]
    BY <1>10 DEF Alert, SettlementInv, AlertOK
  <2>4. QED
    BY <1>a, <2>1, <2>2, <2>3
<1>11. CASE Relink(h)
  BY <1>11, RelinkIsInvisible
<1>12. QED
  BY <1>1, <1>2, <1>3, <1>4, <1>5, <1>6, <1>7, <1>8, <1>9, <1>10, <1>11 DEF Step

\* KeepsPromise: every behaviour of the handlers, with stale rows, failures,
\* crashes and events nobody checks, is a behaviour of SettlementPromise.
THEOREM SettlementImplementsPromise == Spec => KeepsPromise
<1>1. TypeOK /\ SettlementInv /\ [Next]_vars => [Promise!Next]_(Promise!vars)
  <2> SUFFICES ASSUME TypeOK, SettlementInv, [Next]_vars
               PROVE  Promise!Next \/ UNCHANGED View
    BY DEF View, Promise!vars, ClaimedSet, PaidSet, Done, HandledSet
  <2>1. ASSUME NEW l \in links, Charge(l)
        PROVE  Promise!Next
    <3>1. l.order \in Orders
      BY LinkTypes DEF TypeOK
    <3>2. QED
      BY <2>1, <3>1, ChargeClaims
  <2>2. ASSUME NEW h \in Handlers, Arrive(h)
        PROVE  Promise!Next \/ UNCHANGED View
    BY <2>2, ArriveClaims
  <2>3. ASSUME NEW h \in Handlers, Step(h)
        PROVE  Promise!Next \/ UNCHANGED View
    BY <2>3, StepKeepsPromise
  <2>4. ASSUME SameSlots, UNCHANGED <<orders, charges, req, did>>
        PROVE  UNCHANGED View
    BY <2>4, ClaimsKept, Invisible DEF RowsKept
  <2>5. ASSUME NEW h \in Handlers, StockFails(h) \/ CommitFails(h)
        PROVE  UNCHANGED View
    <3>1. AfterStock(h) # "idle"
      BY DEF AfterStock, FirstGroup
    <3>2. SameSlots
      BY <2>5, <3>1 DEF StockFails, CommitFails, Move, TypeOK, SameSlots, locals
    <3>3. QED
      BY <2>4, <2>5, <3>2 DEF StockFails, CommitFails, db, world, locals
  <2>9. ASSUME NEW h \in Handlers, DigitalFails(h)
        PROVE  Promise!Next
    <3>1. RowsKept /\ charges' = charges /\ req' = req /\ pc[h] \in Notifying
      BY <2>9 DEF DigitalFails, RowsKept, Notifying, db, world
    <3>2. did'[h] = did[h] \union {"raised"} /\ \A g \in Handlers \ {h} : did'[g] = did[g]
      BY <2>9 DEF DigitalFails, Attempt, TypeOK
    <3>3. SameSlots
      BY <2>9 DEF DigitalFails, Attempt, Move, TypeOK, SameSlots
    <3>4. "raised" \in Promise!Performed
      BY DEF Promise!Performed
    <3>5. QED
      BY <3>1, <3>2, <3>3, <3>4, ClaimsKept, Performs
  <2>6. CASE Crash
    <3>1. SameSlots
      BY <2>6 DEF Crash, TypeOK, SameSlots, Resting, locals
    <3>2. QED
      BY <2>4, <2>6, <3>1 DEF Crash, db, world, locals
  <2>7. CASE UNCHANGED vars
    BY <2>4, <2>7 DEF vars, SameSlots
  <2>8. QED
    BY <2>1, <2>2, <2>3, <2>5, <2>6, <2>7, <2>9 DEF Next
<1>2. QED
  BY InitPromise, <1>1, TypeCorrect, InvariantHolds, PTL DEF Spec, KeepsPromise, Promise!Spec

============================================================================
