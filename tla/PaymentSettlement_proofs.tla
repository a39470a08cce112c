---------------------- MODULE PaymentSettlement_proofs ----------------------
(***************************************************************************)
(* Proofs about PaymentSettlement, for any orders, units, slots, links and *)
(* number of faults.                                                      *)
(***************************************************************************)
EXTENDS PaymentSettlement, FiniteSetTheorems, TLAPS

\* The rows commits build are rows.
LEMMA FlushedType ==
    ASSUME NEW row \in OrderRows, NEW old \in OrderRows, NEW new \in OrderRows
    PROVE  Flushed(row, old, new) \in OrderRows
  BY DEF Flushed, Kept, OrderRows

LEMMA InitialRowType ==
    ASSUME NEW o \in Orders, NEW s \in {"pending", "failed"}
    PROVE  InitialRow(o, s) \in OrderRows
<1>1. InitialRef(o) \in References
  <2> DEFINE refs == {l.intent : l \in {k \in InitialLinks : k.order = o /\ k.gateway = "bumpa"}}
  <2>1. refs \subseteq References
    BY GatewayAssumption DEF Links, References
  <2>2. CASE refs = {}
    BY <2>2 DEF InitialRef, References
  <2>3. CASE refs # {}
    BY <2>1, <2>3 DEF InitialRef
  <2>4. QED
    BY <2>2, <2>3
<1>2. InitialGateway[o] \in GatewayColumn
  BY OrderAssumption DEF GatewayColumn, LinkGateways, PlainGateways
<1>3. QED
  BY <1>1, <1>2 DEF InitialRow, OrderRows, FulfilColumn

LEMMA BlankType == Blank \in Requests /\ Blank.order \in Orders
<1>1. (CHOOSE o \in Orders : TRUE) \in Orders
  BY OrderAssumption
<1>2. QED
  BY <1>1 DEF Blank, OwnLink, Requests, GatewayColumn, LinkGateways

LEMMA InitTypeOK == Init => TypeOK
<1> SUFFICES ASSUME Init PROVE TypeOK
  OBVIOUS
<1>1. orders \in [Orders -> OrderRows]
  <2>1. PICK s \in [Orders -> {"pending", "failed"}] :
           orders = [o \in Orders |-> InitialRow(o, s[o])]
    BY DEF Init
  <2>2. \A o \in Orders : InitialRow(o, s[o]) \in OrderRows
    BY InitialRowType
  <2>3. QED
    BY <2>1, <2>2
<1>2. stock \in [Units -> Nat] /\ listed \in [Units -> BOOLEAN]
  BY OrderAssumption DEF Init
<1>3. links \subseteq Links /\ charges \subseteq links
  BY GatewayAssumption DEF Init
<1>4. /\ pc \in [Handlers -> Stages]
      /\ kind \in [Handlers -> Kinds]
      /\ req \in [Handlers -> Requests]
  BY BlankType DEF Init, Stages, Kinds
<1>5. seen \in [Handlers -> OrderRows]
  BY BlankType, InitialRowType DEF Init
<1>6. /\ dirty \in [Handlers -> SUBSET Units]
      /\ shelf \in [Handlers -> [Units -> Nat]]
      /\ results \in [Handlers -> SUBSET {"dispatched", "delivered_digital", "failed"}]
      /\ did \in [Handlers -> SUBSET Effects]
      /\ faults \in Nat
  BY DEF Init
<1>7. QED
  BY <1>1, <1>2, <1>3, <1>4, <1>5, <1>6 DEF TypeOK

----------------------------------------------------------------------------

\* Links and the requests made from them.
LEMMA LinkTypes ==
    /\ Links \subseteq Requests
    /\ \A l \in Links : l.order \in Orders
    /\ \A r \in Requests : r.order \in Orders
    /\ \A o \in Orders, g \in GatewayColumn : OwnLink(o, g) \in Requests
  BY DEF Links, Requests, GatewayColumn, OwnLink

\* An arriving request loads a row and remembers what it was asked about.
LEMMA ServeType ==
    ASSUME TypeOK, NEW h \in Handlers, NEW k \in Kinds, NEW r \in Requests,
           NEW s \in Stages, Serve(h, k, r, s)
    PROVE  TypeOK'
<1>1. orders[r.order] \in OrderRows
  BY LinkTypes DEF TypeOK
<1>2. QED
  BY <1>1 DEF TypeOK, Serve, db, world

LEMMA ArriveType ==
    ASSUME TypeOK, NEW h \in Handlers, Arrive(h)
    PROVE  TypeOK'
<1> USE DEF Kinds, Stages
<1>1. ASSUME NEW c \in Links, HookArrives(h, c)
      PROVE  TypeOK'
  <2>1. c \in Requests
    BY LinkTypes DEF TypeOK
  <2>2. PICK s \in {"commit", "done"} : Serve(h, "hook", c, s)
    BY <1>1 DEF HookArrives
  <2>3. QED
    BY <2>1, <2>2, ServeType
<1>2. ASSUME NEW c \in Links, PlainArrives(h, c)
      PROVE  TypeOK'
  <2>1. c \in Requests
    BY LinkTypes DEF TypeOK
  <2>2. QED
    BY <1>2, <2>1, ServeType DEF PlainArrives
<1>3. ASSUME NEW l \in links, CallbackArrives(h, l)
      PROVE  TypeOK'
  <2>1. l \in Requests
    BY LinkTypes DEF TypeOK
  <2>2. PICK s \in {"verify", "done"} : Serve(h, "callback", l, s)
    BY <1>3 DEF CallbackArrives
  <2>3. QED
    BY <2>1, <2>2, ServeType
<1>4. ASSUME NEW o \in Orders, ManualArrives(h, o)
      PROVE  TypeOK'
  <2>1. OwnLink(o, "paystack") \in Requests
    BY LinkTypes DEF GatewayColumn, LinkGateways
  <2>2. PICK s \in {"verify", "done"} : Serve(h, "manual", OwnLink(o, "paystack"), s)
    BY <1>4 DEF ManualArrives
  <2>3. QED
    BY <2>1, <2>2, ServeType
<1>5. ASSUME NEW o \in Orders, NEW g \in RelinkGateways, RelinkArrives(h, o, g)
      PROVE  TypeOK'
  <2>1. OwnLink(o, g) \in Requests
    BY LinkTypes, GatewayAssumption DEF GatewayColumn, LinkGateways
  <2>2. QED
    BY <1>5, <2>1, ServeType DEF RelinkArrives
<1>6. QED
  BY <1>1, <1>2, <1>3, <1>4, <1>5 DEF Arrive

\* The rows the handlers make up in memory.
LEMMA ConfirmedType ==
    ASSUME TypeOK, NEW h \in Handlers
    PROVE  Confirmed(h) \in OrderRows
<1>1. seen[h] \in OrderRows /\ req[h] \in Requests
  BY DEF TypeOK
<1>2. req[h].intent \in References /\ req[h].gateway \in GatewayColumn
  BY <1>1 DEF Requests, References
<1>3. QED
  BY <1>1, <1>2 DEF Confirmed, OrderRows, References, GatewayColumn, LinkGateways

LEMMA RelinkedType ==
    ASSUME TypeOK, NEW h \in Handlers, NEW l \in Links
    PROVE  Relinked(h, l) \in OrderRows
<1>1. seen[h] \in OrderRows
  BY DEF TypeOK
<1>2. l.intent \in References /\ l.gateway \in GatewayColumn
  BY DEF Links, References, GatewayColumn
<1>3. QED
  BY <1>1, <1>2 DEF Relinked, OrderRows, GatewayColumn

\* A commit of a well-formed row keeps the table and the copy well-formed.
LEMMA SaveType ==
    ASSUME TypeOK, NEW h \in Handlers, NEW new \in OrderRows, Save(h, new)
    PROVE  orders' \in [Orders -> OrderRows] /\ seen' \in [Handlers -> OrderRows]
<1>1. OrderOf(h) \in Orders
  BY LinkTypes DEF TypeOK, OrderOf
<1>2. Flushed(orders[OrderOf(h)], seen[h], new) \in OrderRows
  BY <1>1, FlushedType DEF TypeOK
<1>3. QED
  BY <1>1, <1>2 DEF TypeOK, Save

\* Writing the quantities left over keeps the stock table well-formed.
LEMMA FlushStockType ==
    ASSUME TypeOK, NEW h \in Handlers, FlushStock(h)
    PROVE  /\ stock' \in [Units -> Nat]
           /\ listed' \in [Units -> BOOLEAN]
           /\ dirty' \in [Handlers -> SUBSET Units]
           /\ shelf' \in [Handlers -> [Units -> Nat]]
<1>1. OrderOf(h) \in Orders
  BY LinkTypes DEF TypeOK, OrderOf
<1>2. \A u \in Units : LeftOver(h, u) \in Nat
  BY <1>1, OrderAssumption DEF LeftOver, TypeOK
<1>3. stock' \in [Units -> Nat]
  BY <1>2 DEF FlushStock, Kept, TypeOK
<1>4. listed' \in [Units -> BOOLEAN]
  BY DEF FlushStock, TypeOK
<1>5. dirty' \in [Handlers -> SUBSET Units] /\ shelf' \in [Handlers -> [Units -> Nat]]
  BY DEF FlushStock, TypeOK
<1>6. QED
  BY <1>3, <1>4, <1>5

LEMMA StepType ==
    ASSUME TypeOK, NEW h \in Handlers, Step(h)
    PROVE  TypeOK'
<1> DEFINE o == OrderOf(h)
<1>0. o \in Orders /\ orders[o] \in OrderRows /\ seen[h] \in OrderRows
  BY LinkTypes DEF TypeOK, OrderOf
<1> HIDE DEF o
<1>a. AfterStock(h) \in Stages
  BY DEF AfterStock, FirstGroup, Stages
<1>1. CASE VerifySucceeds(h)
  BY <1>1 DEF VerifySucceeds, Move, TypeOK, db, world, locals, Stages
<1>2. CASE VerifyFails(h)
  BY <1>2 DEF VerifyFails, Move, TypeOK, db, world, locals, Stages
<1>3. CASE Refresh(h)
  BY <1>0, <1>3 DEF Refresh, Move, TypeOK, db, world, locals, Stages, o
<1>4. CASE Commit(h)
  <2>1. orders' \in [Orders -> OrderRows] /\ seen' \in [Handlers -> OrderRows]
    BY <1>4, ConfirmedType, SaveType DEF Commit
  <2>2. pc' \in [Handlers -> Stages]
    BY <1>4 DEF Commit, Move, TypeOK, Stages
  <2>3. did' \in [Handlers -> SUBSET Effects]
    BY <1>4 DEF Commit, TypeOK, Effects
  <2>4. QED
    BY <1>4, <2>1, <2>2, <2>3 DEF Commit, TypeOK, world, locals
<1>5. CASE Receipt(h)
  BY <1>5 DEF Receipt, Attempt, Move, TypeOK, db, world, locals, Stages, Effects
<1>6. CASE Finalize(h)
  BY <1>6 DEF Finalize, Attempt, Move, TypeOK, db, world, locals, Stages, Effects
<1>7. CASE StockStarts(h)
  <2>1. "count" \in Stages
    BY DEF Stages
  <2>2. QED
    BY <1>7, <1>a, <2>1 DEF StockStarts, Move, TypeOK, db, world, locals
<1>8. CASE StockCommit(h)
  <2>1. FlushStock(h)
    BY <1>8 DEF StockCommit
  <2>2. [seen[h] EXCEPT !.counted = TRUE] \in OrderRows
    BY <1>0 DEF OrderRows
  <2>3. orders' \in [Orders -> OrderRows] /\ seen' \in [Handlers -> OrderRows]
    BY <1>8, <2>2, SaveType DEF StockCommit
  <2>4. pc' \in [Handlers -> Stages] /\ did' \in [Handlers -> SUBSET Effects]
    BY <1>8, <1>a DEF StockCommit, Attempt, Move, TypeOK, Effects
  <2>5. QED
    BY <1>8, <2>1, <2>3, <2>4, FlushStockType DEF StockCommit, TypeOK, world
<1>9. ASSUME NEW u \in Units, StockRead(h, u)
      PROVE  TypeOK'
  <2>1. stock[u] \in Nat
    BY DEF TypeOK
  <2>2. shelf' \in [Handlers -> [Units -> Nat]]
    BY <1>9, <2>1 DEF StockRead, TypeOK
  <2>3. QED
    BY <1>9, <2>2 DEF StockRead, TypeOK, db, world
<1>10. CASE Push(h)
  <2>1. results' \in [Handlers -> SUBSET {"dispatched", "delivered_digital", "failed"}]
    BY <1>10 DEF Push, TypeOK
  <2>2. pc' \in [Handlers -> Stages] /\ did' \in [Handlers -> SUBSET Effects]
    BY <1>10 DEF Push, Attempt, Move, TypeOK, Stages, Effects
  <2>3. QED
    BY <1>10, <2>1, <2>2 DEF Push, TypeOK, db, world
<1>11. CASE Digital(h)
  <2>1. results' \in [Handlers -> SUBSET {"dispatched", "delivered_digital", "failed"}]
    BY <1>11 DEF Digital, TypeOK
  <2>2. pc' \in [Handlers -> Stages]
    BY <1>11 DEF Digital, Attempt, Move, TypeOK, Stages
  <2>3. did' \in [Handlers -> SUBSET Effects]
    BY <1>11 DEF Digital, Attempt, TypeOK, Effects
  <2>4. QED
    BY <1>11, <2>1, <2>2, <2>3 DEF Digital, TypeOK, db, world
<1>12. CASE Settle(h)
  <2> DEFINE new == [seen[h] EXCEPT !.fulfil = Outcome(results[h])]
  <2>1. new \in OrderRows
    BY <1>0 DEF OrderRows, Outcome, FulfilColumn, Fulfilled
  <2>2. Flushed(orders[o], seen[h], new) \in OrderRows
    BY <1>0, <2>1, FlushedType
  <2>3. new.counted \in BOOLEAN
    BY <2>1 DEF OrderRows
  <2> HIDE DEF new
  <2>4. [Flushed(orders[o], seen[h], new) EXCEPT !.counted = new.counted] \in OrderRows
    BY <2>2, <2>3 DEF OrderRows
  <2>5. orders' \in [Orders -> OrderRows] /\ seen' \in [Handlers -> OrderRows]
    BY <1>12, <2>1, <2>4 DEF Settle, TypeOK, new, o
  <2>6. /\ pc' \in [Handlers -> Stages]
        /\ results' \in [Handlers -> SUBSET {"dispatched", "delivered_digital", "failed"}]
    BY <1>12 DEF Settle, Move, TypeOK, Stages
  <2>7. did' \in [Handlers -> SUBSET Effects]
    BY <1>12 DEF Settle, TypeOK, Effects
  <2>8. FlushStock(h)
    BY <1>12 DEF Settle
  <2>9. QED
    BY <1>12, <2>5, <2>6, <2>7, <2>8, FlushStockType DEF Settle, TypeOK, world
<1>13. CASE Alert(h)
  BY <1>13 DEF Alert, Attempt, Move, TypeOK, db, world, locals, Stages, Effects
<1>14. CASE Relink(h)
  <2>1. PICK l \in Links :
           /\ links' = links \union {l}
           /\ LET new == Relinked(h, l)
                  row == Flushed(orders[OrderOf(h)], seen[h], new)
              IN /\ orders' = [orders EXCEPT ![OrderOf(h)] =
                                 IF l.gateway = "bumpa"
                                 THEN [row EXCEPT !.counted = new.counted] ELSE row]
                 /\ seen' = [seen EXCEPT ![h] = new]
    BY <1>14 DEF Relink
  <2> DEFINE new == Relinked(h, l)
             row == Flushed(orders[OrderOf(h)], seen[h], new)
  <2>2. new \in OrderRows
    BY RelinkedType
  <2>3. row \in OrderRows
    BY <1>0, <2>2, FlushedType DEF o
  <2>4. new.counted \in BOOLEAN
    BY <2>2 DEF OrderRows
  <2> HIDE DEF new, row
  <2>5. [row EXCEPT !.counted = new.counted] \in OrderRows
    BY <2>3, <2>4 DEF OrderRows
  <2>6. orders' \in [Orders -> OrderRows] /\ seen' \in [Handlers -> OrderRows]
    BY <2>1, <2>2, <2>3, <2>5 DEF TypeOK, new, row
  <2>7. links' \subseteq Links /\ charges \subseteq links'
    BY <2>1 DEF TypeOK
  <2>8. QED
    BY <1>14, <2>6, <2>7 DEF Relink, Move, TypeOK, locals, Stages
<1>15. CASE RelinkFails(h)
  BY <1>15 DEF RelinkFails, Move, TypeOK, db, world, locals, Stages
<1>16. QED
  BY <1>1, <1>2, <1>3, <1>4, <1>5, <1>6, <1>7, <1>8, <1>9, <1>10, <1>11, <1>12,
     <1>13, <1>14, <1>15 DEF Step

\* TypeOK: every reachable state of every instance is well-formed; the stock
\* in particular never falls below zero (decrement_stock_for_order's clamp).
THEOREM TypeCorrect == Spec => []TypeOK
<1>1. TypeOK /\ [Next]_vars => TypeOK'
  <2> SUFFICES ASSUME TypeOK, [Next]_vars PROVE TypeOK'
    OBVIOUS
  <2>1. ASSUME NEW l \in links, Charge(l)
        PROVE  TypeOK'
    BY <2>1 DEF Charge, TypeOK, db, locals
  <2>2. ASSUME NEW h \in Handlers, Arrive(h)
        PROVE  TypeOK'
    BY <2>2, ArriveType
  <2>3. ASSUME NEW h \in Handlers, Step(h)
        PROVE  TypeOK'
    BY <2>3, StepType
  <2>4. ASSUME NEW h \in Handlers, StockFails(h) \/ DigitalFails(h) \/ CommitFails(h)
        PROVE  TypeOK'
    <3>1. AfterStock(h) \in Stages /\ "crashed" \in Stages
      BY DEF AfterStock, FirstGroup, Stages
    <3>2. CASE DigitalFails(h)
      <4>1. pc' \in [Handlers -> Stages] /\ did' \in [Handlers -> SUBSET Effects] /\ faults' \in Nat
        BY <3>2 DEF DigitalFails, Attempt, Move, TypeOK, Stages, Effects
      <4>2. results' \in [Handlers -> SUBSET {"dispatched", "delivered_digital", "failed"}]
        BY <3>2 DEF DigitalFails, TypeOK
      <4>3. QED
        BY <3>2, <4>1, <4>2 DEF DigitalFails, TypeOK, db, world
    <3>3. CASE StockFails(h) \/ CommitFails(h)
      BY <3>1, <3>3 DEF StockFails, CommitFails, Move, TypeOK, db, world, locals
    <3>4. QED
      BY <2>4, <3>2, <3>3
  <2>5. CASE Crash
    BY <2>5 DEF Crash, TypeOK, db, world, locals, Stages
  <2>6. CASE UNCHANGED vars
    BY <2>6 DEF vars, TypeOK
  <2>7. QED
    BY <2>1, <2>2, <2>3, <2>4, <2>5, <2>6 DEF Next
<1>2. QED
  BY InitTypeOK, <1>1, PTL DEF Spec

----------------------------------------------------------------------------

\* What no step takes back.  An idle slot may be given another order, but it
\* has done nothing yet.
Grows ==
    /\ charges \subseteq charges'
    /\ \A o \in Orders : Paid(o) => Paid(o)'
    /\ \A o \in Orders : orders[o].fulfil # "none" => orders'[o].fulfil # "none"
    /\ \A h \in Handlers : did[h] \subseteq did'[h]
    /\ \A h \in Handlers :
         pc[h] # "idle" => pc'[h] # "idle" /\ kind'[h] = kind[h] /\ req'[h] = req[h]

\* Slot g takes no part in the step.
Rests(g) == /\ pc'[g] = pc[g]
            /\ kind'[g] = kind[g]
            /\ req'[g] = req[g]
            /\ seen'[g] = seen[g]
            /\ did'[g] = did[g]

LEMMA DoneGrows ==
    ASSUME SettlementInv, Grows, NEW o \in Orders, NEW e, HasDone(o, e)
    PROVE  HasDone(o, e)'
<1>1. PICK h \in Handlers : OrderOf(h) = o /\ e \in did[h]
  BY DEF HasDone
<1>2. pc[h] # "idle"
  BY <1>1 DEF SettlementInv, HandlerOK
<1>3. QED
  BY <1>1, <1>2 DEF HasDone, Grows, OrderOf

\* What speaks for a charge goes on speaking for it.
LEMMA ClaimGrows ==
    ASSUME Grows, NEW o, Claimed(o)
    PROVE  Claimed(o)'
<1>1. CASE Charged(o)
  BY <1>1 DEF Claimed, Charged, Grows
<1>2. CASE Trusted(o)
  <2>1. PICK h \in Handlers :
           /\ pc[h] # "idle" /\ kind[h] \in {"hook", "plain"}
           /\ OrderOf(h) = o /\ Signer(req[h]) \notin Checked
    BY <1>2 DEF Trusted
  <2>2. pc'[h] # "idle" /\ kind'[h] = kind[h] /\ req'[h] = req[h]
    BY <2>1 DEF Grows
  <2>3. QED
    BY <2>1, <2>2 DEF Claimed, Trusted, OrderOf, Signer
<1>3. QED
  BY <1>1, <1>2 DEF Claimed

\* What holds of a resting slot keeps holding.
LEMMA RestingKept ==
    ASSUME TypeOK, SettlementInv, Grows, NEW g \in Handlers, Rests(g)
    PROVE  (HandlerOK(g) /\ SeenOK(g) /\ AlertOK(g))'
<1>1. OrderOf(g) \in Orders /\ OrderOf(g)' = OrderOf(g)
  BY LinkTypes DEF TypeOK, OrderOf, Rests
<1>2. HandlerOK(g) /\ SeenOK(g) /\ AlertOK(g)
  BY DEF SettlementInv
<1>3. Claimed(OrderOf(g)) => Claimed(OrderOf(g))'
  BY <1>1, ClaimGrows
<1>4. Paid(OrderOf(g)) => Paid(OrderOf(g))'
  BY <1>1 DEF Grows, Paid
<1>5. HasDone(OrderOf(g), "count") => HasDone(OrderOf(g), "count")'
  BY <1>1, DoneGrows DEF HasDone
<1>6. orders[OrderOf(g)].fulfil # "none" => (orders[OrderOf(g)].fulfil # "none")'
  BY <1>1 DEF Grows
<1>7. HandlerOK(g)'
  BY <1>1, <1>2, <1>3, <1>4 DEF HandlerOK, Rests
<1>8. SeenOK(g)'
  BY <1>1, <1>2, <1>4, <1>5, <1>6 DEF SeenOK, Rests
<1>9. AlertOK(g)'
  BY <1>1, <1>2, <1>6 DEF AlertOK, Rests
<1>10. QED
  BY <1>7, <1>8, <1>9

\* A row keeps its part of the invariant unless it is paid or counted now.
LEMMA RowKept ==
    ASSUME SettlementInv, Grows, NEW o \in Orders,
           Paid(o)' => Paid(o) \/ Claimed(o),
           orders'[o].counted => orders[o].counted \/ HasDone(o, "count")'
    PROVE  RowOK(o)'
<1>1. RowOK(o)
  BY DEF SettlementInv
<1>2. Claimed(o) => Claimed(o)'
  BY ClaimGrows
<1>3. HasDone(o, "count") => HasDone(o, "count")'
  BY DoneGrows
<1>4. QED
  BY <1>1, <1>2, <1>3 DEF RowOK

\* A step of slot h is safe when it grows, and keeps h's part and the rows'.
LEMMA OneSlot ==
    ASSUME TypeOK, SettlementInv, Grows, NEW h \in Handlers,
           \A g \in Handlers \ {h} : Rests(g),
           (HandlerOK(h) /\ SeenOK(h) /\ AlertOK(h))',
           \A o \in Orders : RowOK(o)'
    PROVE  SettlementInv'
<1>1. ASSUME NEW g \in Handlers
      PROVE  (HandlerOK(g) /\ SeenOK(g) /\ AlertOK(g))'
  BY RestingKept
<1>2. QED
  BY <1>1 DEF SettlementInv

\* A step that leaves the tables and the loaded row alone: slot h goes to
\* stage s after doing D.
LEMMA QuietStep ==
    ASSUME TypeOK, SettlementInv, NEW h \in Handlers, NEW s, NEW D,
           pc[h] # "idle", s # "idle",
           pc' = [pc EXCEPT ![h] = s],
           did'[h] = did[h] \union D,
           \A g \in Handlers \ {h} : did'[g] = did[g],
           UNCHANGED <<orders, charges, kind, req, seen>>,
           s \in {"commit", "refresh"} => Claimed(OrderOf(h)),
           s \in Notifying \/ D # {} => pc[h] \in Notifying,
           kind[h] = "hook" => s \notin {"verify", "refresh", "link"},
           s = "done" => kind[h] # "hook" \/ pc[h] \in Notifying,
           s = "alert" \/ "alert" \in D =>
               orders[OrderOf(h)].fulfil # "none" \/ "raised" \in did[h] \union D
    PROVE  SettlementInv'
<1>1. Grows
  BY DEF Grows, Paid, TypeOK
<1>2. \A g \in Handlers \ {h} : Rests(g)
  BY DEF Rests, TypeOK
<1>3. pc'[h] = s /\ OrderOf(h) \in Orders /\ OrderOf(h)' = OrderOf(h)
  BY LinkTypes DEF TypeOK, OrderOf
<1>4. HandlerOK(h) /\ SeenOK(h) /\ AlertOK(h)
  BY DEF SettlementInv
<1>5. HandlerOK(h)'
  <2>1. Claimed(OrderOf(h)) => Claimed(OrderOf(h))'
    BY <1>1, <1>3, ClaimGrows
  <2>2. QED
    BY <1>3, <1>4, <2>1 DEF HandlerOK, Paid
<1>6. SeenOK(h)'
  <2>1. HasDone(OrderOf(h), "count") => HasDone(OrderOf(h), "count")'
    BY <1>1, <1>3, DoneGrows DEF HasDone
  <2>2. QED
    BY <1>3, <1>4, <2>1 DEF SeenOK, Paid
<1>7. AlertOK(h)'
  BY <1>3, <1>4 DEF AlertOK
<1>8. \A o \in Orders : RowOK(o)'
  BY <1>1, RowKept DEF Paid
<1>9. QED
  BY <1>1, <1>2, <1>5, <1>6, <1>7, <1>8, OneSlot

----------------------------------------------------------------------------

LEMMA InitInv == TypeOK /\ Init => SettlementInv
<1> SUFFICES ASSUME TypeOK, Init PROVE SettlementInv
  OBVIOUS
<1>1. \A o \in Orders : orders[o].status # "paid" /\ ~orders[o].counted
  BY DEF Init, InitialRow
<1>2. \A h \in Handlers : HandlerOK(h) /\ SeenOK(h) /\ AlertOK(h)
  BY DEF Init, HandlerOK, SeenOK, AlertOK, Notifying
<1>3. QED
  BY <1>1, <1>2 DEF SettlementInv, RowOK, Paid

\* A request that is let in holds the row it has just read; a handler that
\* will confirm without asking the gateway was sent by a charge.
LEMMA ServeInv ==
    ASSUME TypeOK, SettlementInv, NEW h \in Handlers, NEW k, NEW r \in Requests,
           NEW s \in {"commit", "verify", "link", "done"}, Serve(h, k, r, s),
           s = "commit" => Charged(r.order) \/ (k \in {"hook", "plain"} /\ Signer(r) \notin Checked),
           k = "hook" => s \notin {"verify", "link"},
           k = "hook" /\ s = "done" /\ r.intent = "own" => Paid(r.order)
    PROVE  SettlementInv'
<1> USE DEF Serve, db, world
<1>1. Grows
  BY DEF Grows, Paid, TypeOK
<1>2. \A g \in Handlers \ {h} : Rests(g)
  BY DEF Rests, TypeOK
<1>3. /\ pc'[h] = s /\ kind'[h] = k /\ req'[h] = r
      /\ seen'[h] = orders[r.order]
      /\ did'[h] = {}
      /\ OrderOf(h)' = r.order
      /\ r.order \in Orders
  BY LinkTypes DEF TypeOK, OrderOf, SettlementInv, HandlerOK
<1>4. HandlerOK(h)'
  <2>1. s = "commit" => Claimed(r.order)'
    BY <1>3 DEF Claimed, Charged, Trusted, Signer, OrderOf
  <2>2. QED
    BY <1>3, <2>1 DEF HandlerOK, Notifying, Paid
<1>5. SeenOK(h)'
  <2>1. orders[r.order].counted => HasDone(r.order, "count")'
    BY <1>1, <1>3, DoneGrows DEF SettlementInv, RowOK
  <2>2. QED
    BY <1>3, <2>1 DEF SeenOK, Paid
<1>6. AlertOK(h)'
  BY <1>3 DEF AlertOK
<1>7. \A o \in Orders : RowOK(o)'
  BY <1>1, RowKept DEF Paid
<1>8. QED
  BY <1>1, <1>2, <1>4, <1>5, <1>6, <1>7, OneSlot

LEMMA ArriveInv ==
    ASSUME TypeOK, SettlementInv, NEW h \in Handlers, Arrive(h)
    PROVE  SettlementInv'
<1>1. ASSUME NEW c \in Links, HookArrives(h, c)
      PROVE  SettlementInv'
  <2>1. c \in Requests /\ (Charged(c.order) \/ Signer(c) \notin Checked)
    BY <1>1, LinkTypes DEF HookArrives, Heard, Charged
  <2>2. CASE Matches(c, orders[c.order]) /\ HookPasses(orders[c.order])
    BY <1>1, <2>1, <2>2, ServeInv DEF HookArrives
  <2>3. CASE ~(Matches(c, orders[c.order]) /\ HookPasses(orders[c.order]))
    <3>1. Serve(h, "hook", c, "done")
      BY <1>1, <2>3 DEF HookArrives
    <3>2. c.intent = "own" => Paid(c.order)
      BY <2>3 DEF Matches, HookPasses, Paid
    <3>3. QED
      BY <2>1, <3>1, <3>2, ServeInv
  <2>4. QED
    BY <2>2, <2>3
<1>2. ASSUME NEW c \in Links, PlainArrives(h, c)
      PROVE  SettlementInv'
  <2>1. c \in Requests /\ (Charged(c.order) \/ Signer(c) \notin Checked)
    BY <1>2, LinkTypes DEF PlainArrives, Heard, Charged
  <2>2. QED
    BY <1>2, <2>1, ServeInv DEF PlainArrives
<1>3. ASSUME NEW l \in links, CallbackArrives(h, l)
      PROVE  SettlementInv'
  <2>1. l \in Requests
    BY LinkTypes DEF TypeOK
  <2>2. PICK s \in {"verify", "done"} : Serve(h, "callback", l, s)
    BY <1>3 DEF CallbackArrives
  <2>3. QED
    BY <2>1, <2>2, ServeInv
<1>4. ASSUME NEW o \in Orders, ManualArrives(h, o)
      PROVE  SettlementInv'
  <2>1. OwnLink(o, "paystack") \in Requests
    BY LinkTypes DEF GatewayColumn, LinkGateways
  <2>2. PICK s \in {"verify", "done"} : Serve(h, "manual", OwnLink(o, "paystack"), s)
    BY <1>4 DEF ManualArrives
  <2>3. QED
    BY <2>1, <2>2, ServeInv
<1>5. ASSUME NEW o \in Orders, NEW g \in RelinkGateways, RelinkArrives(h, o, g)
      PROVE  SettlementInv'
  <2>1. OwnLink(o, g) \in Requests
    BY LinkTypes, GatewayAssumption DEF GatewayColumn, LinkGateways
  <2>2. QED
    BY <1>5, <2>1, ServeInv DEF RelinkArrives
<1>6. QED
  BY <1>1, <1>2, <1>3, <1>4, <1>5 DEF Arrive

----------------------------------------------------------------------------

\* What a commit of row new makes of the order: it may become paid, counted
\* or handled, and never goes back to unpaid or unhandled.
LEMMA CommittedRow ==
    ASSUME TypeOK, SettlementInv, NEW h \in Handlers, pc[h] # "idle",
           NEW new \in OrderRows,
           new.status \in {seen[h].status, "paid"},
           new.fulfil = seen[h].fulfil \/ new.fulfil # "none"
    PROVE  LET row == Flushed(orders[OrderOf(h)], seen[h], new)
           IN /\ Paid(OrderOf(h)) => row.status = "paid"
              /\ row.status = "paid" => Paid(OrderOf(h)) \/ new.status = "paid"
              /\ new.status = "paid" => row.status = "paid"
              /\ orders[OrderOf(h)].fulfil # "none" => row.fulfil # "none"
              /\ new.fulfil # "none" => row.fulfil # "none"
              /\ row.counted => orders[OrderOf(h)].counted \/ new.counted
<1>1. OrderOf(h) \in Orders /\ SeenOK(h)
  BY LinkTypes DEF TypeOK, OrderOf, SettlementInv
<1>2. orders[OrderOf(h)] \in OrderRows /\ seen[h] \in OrderRows
  BY <1>1 DEF TypeOK
<1>3. QED
  BY <1>1, <1>2 DEF Flushed, Kept, SeenOK, Paid, OrderRows

\* A step that writes slot h's order and keeps every other slot's part.
LEMMA WritingStep ==
    ASSUME TypeOK, SettlementInv, NEW h \in Handlers, NEW row, NEW new, NEW s, NEW D,
           pc[h] # "idle", s # "idle",
           orders' = [orders EXCEPT ![OrderOf(h)] = row],
           seen' = [seen EXCEPT ![h] = new],
           pc' = [pc EXCEPT ![h] = s],
           did'[h] = did[h] \union D,
           \A g \in Handlers \ {h} : did'[g] = did[g],
           UNCHANGED <<charges, kind, req>>,
           Paid(OrderOf(h)) => row.status = "paid",
           row.status = "paid" => Claimed(OrderOf(h)),
           orders[OrderOf(h)].fulfil # "none" => row.fulfil # "none",
           row.counted => HasDone(OrderOf(h), "count") \/ "count" \in D,
           new.status = "paid" => row.status = "paid",
           new.counted => HasDone(OrderOf(h), "count") \/ "count" \in D,
           new.fulfil # "none" => row.fulfil # "none",
           s \notin {"commit", "refresh", "verify", "link"},
           s \in Notifying \/ D # {} =>
               row.status = "paid" /\ "log" \in did[h] \union D,
           s = "done" => kind[h] # "hook" \/ row.status = "paid",
           s = "alert" \/ "alert" \in D => row.fulfil # "none" \/ "raised" \in did[h] \union D
    PROVE  SettlementInv'
<1> DEFINE o == OrderOf(h)
<1>1. /\ o \in Orders /\ o' = o /\ pc'[h] = s
      /\ orders'[o] = row /\ seen'[h] = new
      /\ kind'[h] = kind[h] /\ req'[h] = req[h]
      /\ \A p \in Orders \ {o} : orders'[p] = orders[p]
  BY LinkTypes DEF TypeOK, OrderOf
<1> HIDE DEF o
<1>2. Grows
  <2>1. \A p \in Orders : Paid(p) => Paid(p)'
    BY <1>1 DEF Paid, o
  <2>2. \A p \in Orders : orders[p].fulfil # "none" => orders'[p].fulfil # "none"
    BY <1>1 DEF o
  <2>3. QED
    BY <2>1, <2>2 DEF Grows, TypeOK
<1>3. \A g \in Handlers \ {h} : Rests(g)
  BY DEF Rests, TypeOK
<1>4. HandlerOK(h) /\ AlertOK(h)
  BY DEF SettlementInv
<1>5. HandlerOK(h)'
  <2>1. Paid(o) => Paid(o)'
    BY <1>1 DEF Paid, o
  <2>2. row.status = "paid" => Paid(o)'
    BY <1>1 DEF Paid
  <2>3. did'[h] # {} => D # {} \/ did[h] # {}
    OBVIOUS
  <2>4. QED
    BY <1>1, <1>4, <2>1, <2>2, <2>3 DEF HandlerOK, o
<1>6. HasDone(o, "count") \/ "count" \in D => HasDone(o, "count")'
  <2>1. CASE "count" \in D
    BY <1>1, <2>1 DEF HasDone, o
  <2>2. CASE HasDone(o, "count")
    BY <1>1, <1>2, <2>2, DoneGrows
  <2>3. QED
    BY <2>1, <2>2
<1>7. SeenOK(h)'
  BY <1>1, <1>6 DEF SeenOK, Paid, o
<1>8. AlertOK(h)'
  BY <1>1, <1>4 DEF AlertOK, o
<1>9. ASSUME NEW p \in Orders
      PROVE  RowOK(p)'
  <2>1. CASE p = o
    <3>1. Claimed(p) => Claimed(p)'
      BY <1>2, ClaimGrows
    <3>2. QED
      BY <1>1, <1>6, <2>1, <3>1 DEF RowOK, Paid, o
  <2>2. CASE p # o
    BY <1>1, <1>2, <2>2, RowKept DEF Paid
  <2>3. QED
    BY <2>1, <2>2
<1>10. QED
  BY <1>2, <1>3, <1>5, <1>7, <1>8, <1>9, OneSlot

LEMMA CommitInv ==
    ASSUME TypeOK, SettlementInv, NEW h \in Handlers, Commit(h)
    PROVE  SettlementInv'
<1> DEFINE new == Confirmed(h)
           row == Flushed(orders[OrderOf(h)], seen[h], new)
           D == IF kind[h] = "manual" THEN {} ELSE {"log"}
           s == IF kind[h] = "manual" THEN "done" ELSE "receipt"
<1>0. /\ OrderOf(h) \in Orders /\ seen[h] \in OrderRows /\ pc[h] = "commit"
      /\ HandlerOK(h) /\ SeenOK(h)
  BY LinkTypes DEF TypeOK, OrderOf, SettlementInv, Commit
<1>1. new \in OrderRows /\ new.status = "paid" /\ new.fulfil = seen[h].fulfil
      /\ new.counted = seen[h].counted
  BY <1>0, ConfirmedType DEF Confirmed, OrderRows
<1>2. /\ orders' = [orders EXCEPT ![OrderOf(h)] = row]
      /\ seen' = [seen EXCEPT ![h] = new]
      /\ UNCHANGED <<charges, kind, req>>
  BY DEF Commit, Save, world, locals
<1>3. pc' = [pc EXCEPT ![h] = s]
  BY DEF Commit, Move
<1>4. did'[h] = did[h] \union D /\ \A g \in Handlers \ {h} : did'[g] = did[g]
  BY DEF Commit, TypeOK
<1> HIDE DEF new
<1>5. /\ Paid(OrderOf(h)) => row.status = "paid"
      /\ row.status = "paid"
      /\ orders[OrderOf(h)].fulfil # "none" => row.fulfil # "none"
      /\ new.fulfil # "none" => row.fulfil # "none"
      /\ row.counted => orders[OrderOf(h)].counted \/ new.counted
  BY <1>0, <1>1, CommittedRow
<1>6. Claimed(OrderOf(h))
  BY <1>0 DEF HandlerOK
<1>7. (row.counted \/ new.counted) => HasDone(OrderOf(h), "count")
  BY <1>0, <1>1, <1>5 DEF SeenOK, SettlementInv, RowOK
<1>8. /\ "alert" \notin D /\ s \in {"done", "receipt"}
      /\ s \in Notifying \/ D # {} => "log" \in did[h] \union D
  BY DEF Notifying
<1> HIDE DEF row, D, s
<1>9. QED
  BY <1>0, <1>2, <1>3, <1>4, <1>5, <1>6, <1>7, <1>8, WritingStep

LEMMA StockCommitInv ==
    ASSUME TypeOK, SettlementInv, NEW h \in Handlers, StockCommit(h)
    PROVE  SettlementInv'
<1> DEFINE new == [seen[h] EXCEPT !.counted = TRUE]
           row == Flushed(orders[OrderOf(h)], seen[h], new)
           D == {"count"}
           s == AfterStock(h)
<1>0. /\ OrderOf(h) \in Orders /\ seen[h] \in OrderRows /\ pc[h] = "count"
      /\ HandlerOK(h) /\ SeenOK(h)
  BY LinkTypes DEF TypeOK, OrderOf, SettlementInv, StockCommit
<1>1. new \in OrderRows /\ new.status = seen[h].status /\ new.fulfil = seen[h].fulfil
  BY <1>0 DEF OrderRows
<1>2. /\ orders' = [orders EXCEPT ![OrderOf(h)] = row]
      /\ seen' = [seen EXCEPT ![h] = new]
      /\ UNCHANGED <<charges, kind, req>>
  BY DEF StockCommit, Save, world
<1>3. pc' = [pc EXCEPT ![h] = s]
  BY DEF StockCommit, Attempt, Move
<1>4. did'[h] = did[h] \union D /\ \A g \in Handlers \ {h} : did'[g] = did[g]
  BY DEF StockCommit, Attempt, TypeOK
<1> HIDE DEF new
<1>5. /\ Paid(OrderOf(h)) => row.status = "paid"
      /\ new.status = "paid" => row.status = "paid"
      /\ orders[OrderOf(h)].fulfil # "none" => row.fulfil # "none"
      /\ new.fulfil # "none" => row.fulfil # "none"
  BY <1>0, <1>1, CommittedRow
<1>6. Claimed(OrderOf(h)) /\ Paid(OrderOf(h)) /\ "log" \in did[h]
  BY <1>0 DEF HandlerOK, Notifying, SettlementInv, RowOK
<1>7. /\ s \in {"alert", "push", "digital", "settle"}
      /\ s = "alert" => seen[h].fulfil # "none"
  BY DEF AfterStock, FirstGroup, Fulfilled
<1>8. s = "alert" => row.fulfil # "none"
  BY <1>0, <1>5, <1>7 DEF SeenOK
<1>9. "alert" \notin D /\ "count" \in D
  OBVIOUS
<1> HIDE DEF row, D, s
<1>10. QED
  BY <1>0, <1>2, <1>3, <1>4, <1>5, <1>6, <1>7, <1>8, <1>9, WritingStep

LEMMA SettleInv ==
    ASSUME TypeOK, SettlementInv, NEW h \in Handlers, Settle(h)
    PROVE  SettlementInv'
<1> DEFINE new == [seen[h] EXCEPT !.fulfil = Outcome(results[h])]
           base == Flushed(orders[OrderOf(h)], seen[h], new)
           row == [base EXCEPT !.counted = new.counted]
           D == IF dirty[h] = {} THEN {} ELSE {"spill"}
<1>0. /\ OrderOf(h) \in Orders /\ seen[h] \in OrderRows /\ pc[h] = "settle"
      /\ HandlerOK(h) /\ SeenOK(h)
  BY LinkTypes DEF TypeOK, OrderOf, SettlementInv, Settle
<1>1. /\ new \in OrderRows /\ new.status = seen[h].status
      /\ new.counted = seen[h].counted /\ new.fulfil # "none"
  BY <1>0 DEF OrderRows, Outcome, FulfilColumn, Fulfilled
<1>2. /\ orders' = [orders EXCEPT ![OrderOf(h)] = row]
      /\ seen' = [seen EXCEPT ![h] = new]
      /\ UNCHANGED <<charges, kind, req>>
  BY DEF Settle, world
<1>3. pc' = [pc EXCEPT ![h] = "alert"]
  BY DEF Settle, Move
<1>4. did'[h] = did[h] \union D /\ \A g \in Handlers \ {h} : did'[g] = did[g]
  BY DEF Settle, TypeOK
<1> HIDE DEF new
<1>5. /\ Paid(OrderOf(h)) => base.status = "paid"
      /\ new.status = "paid" => base.status = "paid"
      /\ base.fulfil # "none"
  BY <1>0, <1>1, CommittedRow
<1>6. row.status = base.status /\ row.fulfil = base.fulfil /\ row.counted = new.counted
  BY DEF Flushed
<1>7. Claimed(OrderOf(h)) /\ Paid(OrderOf(h)) /\ "log" \in did[h]
  BY <1>0 DEF HandlerOK, Notifying, SettlementInv, RowOK
<1>8. new.counted => HasDone(OrderOf(h), "count")
  BY <1>0, <1>1 DEF SeenOK
<1>9. "alert" \notin D
  OBVIOUS
<1> HIDE DEF base, row, D
<1>10. QED
  BY <1>0, <1>2, <1>3, <1>4, <1>5, <1>6, <1>7, <1>8, <1>9, WritingStep

LEMMA RelinkInv ==
    ASSUME TypeOK, SettlementInv, NEW h \in Handlers, Relink(h)
    PROVE  SettlementInv'
<1>0. /\ OrderOf(h) \in Orders /\ seen[h] \in OrderRows /\ pc[h] = "link"
      /\ HandlerOK(h) /\ SeenOK(h)
  BY LinkTypes DEF TypeOK, OrderOf, SettlementInv, Relink
<1>1. PICK l \in Links :
         LET new == Relinked(h, l)
             row == Flushed(orders[OrderOf(h)], seen[h], new)
         IN /\ orders' = [orders EXCEPT ![OrderOf(h)] =
                            IF l.gateway = "bumpa"
                            THEN [row EXCEPT !.counted = new.counted] ELSE row]
            /\ seen' = [seen EXCEPT ![h] = new]
  BY DEF Relink
<1> DEFINE new == Relinked(h, l)
           base == Flushed(orders[OrderOf(h)], seen[h], new)
           row == IF l.gateway = "bumpa" THEN [base EXCEPT !.counted = new.counted] ELSE base
<1>2. /\ new \in OrderRows /\ new.status = seen[h].status
      /\ new.counted = seen[h].counted /\ new.fulfil = seen[h].fulfil
  BY <1>0, RelinkedType DEF Relinked, OrderRows
<1>3. /\ orders' = [orders EXCEPT ![OrderOf(h)] = row]
      /\ seen' = [seen EXCEPT ![h] = new]
  BY <1>1
<1>4. /\ pc' = [pc EXCEPT ![h] = "done"]
      /\ UNCHANGED <<charges, kind, req>>
      /\ did'[h] = did[h] \union {} /\ \A g \in Handlers \ {h} : did'[g] = did[g]
  BY DEF Relink, Move, locals, TypeOK
<1> HIDE DEF new
<1>5. /\ Paid(OrderOf(h)) => base.status = "paid"
      /\ base.status = "paid" => Paid(OrderOf(h)) \/ new.status = "paid"
      /\ new.status = "paid" => base.status = "paid"
      /\ orders[OrderOf(h)].fulfil # "none" => base.fulfil # "none"
      /\ new.fulfil # "none" => base.fulfil # "none"
      /\ base.counted => orders[OrderOf(h)].counted \/ new.counted
  BY <1>0, <1>2, CommittedRow
<1>6. /\ row.status = base.status /\ row.fulfil = base.fulfil
      /\ row.counted => base.counted \/ new.counted
  BY DEF Flushed
<1>7. row.status = "paid" => Claimed(OrderOf(h))
  BY <1>0, <1>2, <1>5, <1>6 DEF SeenOK, SettlementInv, RowOK
<1>8. (row.counted \/ new.counted) => HasDone(OrderOf(h), "count")
  BY <1>0, <1>2, <1>5, <1>6 DEF SeenOK, SettlementInv, RowOK
<1>9. kind[h] # "hook" /\ "done" \notin Notifying
  BY <1>0 DEF HandlerOK, Notifying
<1> HIDE DEF base, row
<1>10. QED
  BY <1>0, <1>3, <1>4, <1>5, <1>6, <1>7, <1>8, <1>9, WritingStep

LEMMA RefreshInv ==
    ASSUME TypeOK, SettlementInv, NEW h \in Handlers, Refresh(h)
    PROVE  SettlementInv'
<1> DEFINE o == OrderOf(h)
<1>0. /\ o \in Orders /\ pc[h] = "refresh" /\ HandlerOK(h) /\ AlertOK(h) /\ RowOK(o)
  BY LinkTypes DEF TypeOK, OrderOf, SettlementInv, Refresh
<1>1. /\ pc'[h] \in {"done", "commit"}
      /\ seen'[h] = orders[o]
      /\ UNCHANGED <<orders, charges, kind, req, did>>
      /\ o' = o
  BY DEF Refresh, Move, TypeOK, db, world, locals, OrderOf
<1>2. Grows
  BY <1>1 DEF Grows, Paid, Refresh, Move, TypeOK
<1>3. \A g \in Handlers \ {h} : Rests(g)
  BY <1>1 DEF Rests, TypeOK, Refresh, Move
<1>4. HandlerOK(h)'
  <2>1. Claimed(o)'
    BY <1>0, <1>1, <1>2, ClaimGrows DEF HandlerOK, OrderOf
  <2>2. QED
    BY <1>0, <1>1, <2>1 DEF HandlerOK, Notifying, Paid
<1>5. SeenOK(h)' /\ AlertOK(h)'
  BY <1>0, <1>1 DEF SeenOK, AlertOK, RowOK, HasDone, Paid, OrderOf
<1>6. \A p \in Orders : RowOK(p)'
  BY <1>1, <1>2, RowKept DEF Paid
<1>7. QED
  BY <1>2, <1>3, <1>4, <1>5, <1>6, OneSlot

LEMMA StepInv ==
    ASSUME TypeOK, SettlementInv, NEW h \in Handlers, Step(h)
    PROVE  SettlementInv'
<1>0. /\ HandlerOK(h) /\ SeenOK(h) /\ AlertOK(h)
  BY DEF SettlementInv
<1>a. AfterStock(h) \in {"alert", "push", "digital", "settle"}
  BY DEF AfterStock, FirstGroup
<1>b. pc[h] # "idle" /\ AfterStock(h) = "alert" => orders[OrderOf(h)].fulfil # "none"
  BY <1>0 DEF AfterStock, FirstGroup, Fulfilled, SeenOK
<1>c. ASSUME UNCHANGED did
      PROVE  did'[h] = did[h] \union {} /\ \A g \in Handlers \ {h} : did'[g] = did[g]
  BY <1>c
<1>d. ASSUME NEW e, NEW s, Attempt(h, e, s)
      PROVE  /\ pc' = [pc EXCEPT ![h] = s]
             /\ did'[h] = did[h] \union {e} /\ \A g \in Handlers \ {h} : did'[g] = did[g]
  BY <1>d DEF Attempt, Move, TypeOK
<1>1. CASE VerifySucceeds(h)
  <2>1. Claimed(OrderOf(h))
    BY <1>1 DEF VerifySucceeds, ChargeFound, Claimed, Charged, OwnLink
  <2>2. PICK s \in {"refresh", "commit"} :
           /\ pc' = [pc EXCEPT ![h] = s]
           /\ kind[h] # "hook"
    BY <1>0, <1>1 DEF VerifySucceeds, Move, HandlerOK
  <2>3. QED
    BY <1>1, <1>c, <2>1, <2>2, QuietStep DEF VerifySucceeds, Notifying, db, world, locals
<1>2. CASE VerifyFails(h)
  <2>1. kind[h] # "hook"
    BY <1>0, <1>2 DEF VerifyFails, HandlerOK
  <2>2. QED
    BY <1>2, <1>c, <2>1, QuietStep DEF VerifyFails, Move, Notifying, db, world, locals
<1>3. CASE Refresh(h)
  BY <1>3, RefreshInv
<1>4. CASE Commit(h)
  BY <1>4, CommitInv
<1>5. CASE Receipt(h)
  <2>1. PICK s \in {"finalize", "stock"} : Attempt(h, "receipt", s)
    BY <1>5 DEF Receipt
  <2>2. /\ pc' = [pc EXCEPT ![h] = s]
        /\ did'[h] = did[h] \union {"receipt"} /\ \A g \in Handlers \ {h} : did'[g] = did[g]
    BY <1>d, <2>1
  <2>3. QED
    BY <1>5, <2>2, QuietStep DEF Receipt, Notifying, db, world, locals
<1>6. CASE Finalize(h)
  <2>1. Attempt(h, "finalize", "stock")
    BY <1>6 DEF Finalize
  <2>2. /\ pc' = [pc EXCEPT ![h] = "stock"]
        /\ did'[h] = did[h] \union {"finalize"} /\ \A g \in Handlers \ {h} : did'[g] = did[g]
    BY <1>d, <2>1
  <2>3. QED
    BY <1>6, <2>2, QuietStep DEF Finalize, Notifying, db, world, locals
<1>7. CASE StockStarts(h)
  <2>1. PICK s \in {AfterStock(h), "count"} : pc' = [pc EXCEPT ![h] = s]
    BY <1>7 DEF StockStarts, Move
  <2>2. QED
    BY <1>7, <1>a, <1>b, <1>c, <2>1, QuietStep DEF StockStarts, Notifying, db, world, locals
<1>8. CASE StockCommit(h)
  BY <1>8, StockCommitInv
<1>9. ASSUME NEW u \in Units, StockRead(h, u)
      PROVE  SettlementInv'
  <2>1. pc' = [pc EXCEPT ![h] = "count"]
    BY <1>9 DEF StockRead, TypeOK
  <2>2. QED
    BY <1>9, <1>c, <2>1, QuietStep DEF StockRead, Notifying, db, world
<1>10. CASE Push(h)
  <2>1. PICK s \in {"digital", "settle"} : Attempt(h, "push", s)
    BY <1>10 DEF Push
  <2>2. /\ pc' = [pc EXCEPT ![h] = s]
        /\ did'[h] = did[h] \union {"push"} /\ \A g \in Handlers \ {h} : did'[g] = did[g]
    BY <1>d, <2>1
  <2>3. QED
    BY <1>10, <2>2, QuietStep DEF Push, Notifying, db, world
<1>11. CASE Digital(h)
  <2>1. PICK D \in {{}, {"digital"}} :
           did'[h] = did[h] \union D /\ \A g \in Handlers \ {h} : did'[g] = did[g]
    BY <1>11, <1>c, <1>d DEF Digital
  <2>2. pc' = [pc EXCEPT ![h] = "settle"] /\ pc[h] = "digital"
    BY <1>11 DEF Digital, Attempt, Move
  <2>3. QED
    BY <1>11, <2>1, <2>2, QuietStep DEF Digital, Notifying, db, world
<1>12. CASE Settle(h)
  BY <1>12, SettleInv
<1>13. CASE Alert(h)
  <2>1. Attempt(h, "alert", "done")
    BY <1>13 DEF Alert
  <2>2. orders[OrderOf(h)].fulfil # "none" \/ "raised" \in did[h]
    BY <1>0, <1>13 DEF Alert, AlertOK
  <2>3. /\ pc' = [pc EXCEPT ![h] = "done"]
        /\ did'[h] = did[h] \union {"alert"} /\ \A g \in Handlers \ {h} : did'[g] = did[g]
    BY <1>d, <2>1
  <2>4. QED
    BY <1>13, <2>2, <2>3, QuietStep DEF Alert, Notifying, db, world, locals
<1>14. CASE Relink(h)
  BY <1>14, RelinkInv
<1>15. CASE RelinkFails(h)
  <2>1. kind[h] # "hook"
    BY <1>0, <1>15 DEF RelinkFails, HandlerOK
  <2>2. QED
    BY <1>15, <1>c, <2>1, QuietStep DEF RelinkFails, Move, Notifying, db, world, locals
<1>16. QED
  BY <1>1, <1>2, <1>3, <1>4, <1>5, <1>6, <1>7, <1>8, <1>9, <1>10, <1>11, <1>12,
     <1>13, <1>14, <1>15 DEF Step

LEMMA FailureInv ==
    ASSUME TypeOK, SettlementInv, NEW h \in Handlers,
           StockFails(h) \/ DigitalFails(h) \/ CommitFails(h)
    PROVE  SettlementInv'
<1>0. ASSUME UNCHANGED did
      PROVE  did'[h] = did[h] \union {} /\ \A g \in Handlers \ {h} : did'[g] = did[g]
  BY <1>0
<1>1. CASE StockFails(h)
  <2>1. AfterStock(h) \in {"alert", "push", "digital", "settle"}
    BY DEF AfterStock, FirstGroup
  <2>2. pc[h] = "count" /\ pc' = [pc EXCEPT ![h] = AfterStock(h)]
    BY <1>1 DEF StockFails, Move
  <2>3. AfterStock(h) = "alert" => orders[OrderOf(h)].fulfil # "none"
    BY <2>2 DEF AfterStock, FirstGroup, Fulfilled, SeenOK, SettlementInv
  <2>4. QED
    BY <1>0, <1>1, <2>1, <2>2, <2>3, QuietStep DEF StockFails, Notifying, db, world, locals
<1>2. CASE CommitFails(h)
  <2>1. pc[h] # "idle" /\ pc' = [pc EXCEPT ![h] = "crashed"]
    BY <1>2 DEF CommitFails, Move
  <2>2. QED
    BY <1>0, <1>2, <2>1, QuietStep DEF CommitFails, Notifying, db, world, locals
<1>3. CASE DigitalFails(h)
  <2>1. /\ pc[h] = "digital" /\ pc' = [pc EXCEPT ![h] = "alert"]
        /\ did'[h] = did[h] \union {"raised"} /\ \A g \in Handlers \ {h} : did'[g] = did[g]
    BY <1>3 DEF DigitalFails, Attempt, Move, TypeOK
  <2>2. QED
    BY <1>3, <2>1, QuietStep DEF DigitalFails, Notifying, db, world
<1>4. QED
  BY <1>1, <1>2, <1>3

LEMMA CrashInv ==
    ASSUME TypeOK, SettlementInv, Crash
    PROVE  SettlementInv'
<1>1. /\ UNCHANGED <<orders, charges, kind, req, seen, did>>
      /\ \A h \in Handlers : pc'[h] = pc[h] \/ (pc[h] \notin Resting /\ pc'[h] = "crashed")
  BY DEF Crash, db, world, locals, TypeOK
<1>2. Grows
  BY <1>1 DEF Grows, Paid, Resting
<1>3. ASSUME NEW h \in Handlers, pc'[h] # pc[h]
      PROVE  (HandlerOK(h) /\ SeenOK(h) /\ AlertOK(h))'
  <2>1. HandlerOK(h) /\ SeenOK(h) /\ AlertOK(h) /\ pc'[h] = "crashed" /\ pc[h] # "idle"
    BY <1>1, <1>3 DEF SettlementInv, Resting
  <2>2. HandlerOK(h)'
    BY <1>1, <2>1 DEF HandlerOK, Notifying, Paid, OrderOf
  <2>3. SeenOK(h)' /\ AlertOK(h)'
    BY <1>1, <2>1 DEF SeenOK, AlertOK, Paid, HasDone, OrderOf
  <2>4. QED
    BY <2>2, <2>3
<1>4. ASSUME NEW h \in Handlers, pc'[h] = pc[h]
      PROVE  (HandlerOK(h) /\ SeenOK(h) /\ AlertOK(h))'
  BY <1>1, <1>2, <1>4, RestingKept DEF Rests
<1>5. \A o \in Orders : RowOK(o)'
  BY <1>1, <1>2, RowKept DEF Paid
<1>6. QED
  BY <1>3, <1>4, <1>5 DEF SettlementInv

LEMMA ChargeInv ==
    ASSUME TypeOK, SettlementInv, NEW l \in links, Charge(l)
    PROVE  SettlementInv'
<1>1. /\ UNCHANGED <<orders, pc, kind, req, seen, did>>
      /\ charges \subseteq charges'
  BY DEF Charge, db, locals
<1>2. Grows
  BY <1>1 DEF Grows, Paid
<1>3. \A h \in Handlers : (HandlerOK(h) /\ SeenOK(h) /\ AlertOK(h))'
  BY <1>1, <1>2, RestingKept DEF Rests
<1>4. \A o \in Orders : RowOK(o)'
  BY <1>1, <1>2, RowKept DEF Paid
<1>5. QED
  BY <1>3, <1>4 DEF SettlementInv

\* The inductive invariant holds of every reachable state.
THEOREM InvariantHolds == Spec => []SettlementInv
<1>1. TypeOK /\ SettlementInv /\ [Next]_vars => SettlementInv'
  <2> SUFFICES ASSUME TypeOK, SettlementInv, [Next]_vars PROVE SettlementInv'
    OBVIOUS
  <2>1. ASSUME NEW l \in links, Charge(l)
        PROVE  SettlementInv'
    BY <2>1, ChargeInv
  <2>2. ASSUME NEW h \in Handlers, Arrive(h)
        PROVE  SettlementInv'
    BY <2>2, ArriveInv
  <2>3. ASSUME NEW h \in Handlers, Step(h)
        PROVE  SettlementInv'
    BY <2>3, StepInv
  <2>4. ASSUME NEW h \in Handlers, StockFails(h) \/ DigitalFails(h) \/ CommitFails(h)
        PROVE  SettlementInv'
    BY <2>4, FailureInv
  <2>5. CASE Crash
    BY <2>5, CrashInv
  <2>6. CASE UNCHANGED vars
    BY <2>6 DEF vars, SettlementInv, HandlerOK, SeenOK, AlertOK, RowOK, HasDone,
                Claimed, Charged, Trusted, Signer, Paid, OrderOf
  <2>7. QED
    BY <2>1, <2>2, <2>3, <2>4, <2>5, <2>6 DEF Next
<1>2. QED
  BY InitInv, InitTypeOK, <1>1, TypeCorrect, PTL DEF Spec

----------------------------------------------------------------------------

\* PaidOnlyIfCharged: whatever handlers overlap, fail or work on stale rows,
\* an order whose status is "paid" has a charge behind it, or an event of a
\* gateway whose webhook checks none.
THEOREM PaidIsCharged == Spec => []PaidOnlyIfCharged
<1>1. SettlementInv => PaidOnlyIfCharged
  BY DEF SettlementInv, RowOK, PaidOnlyIfCharged, Claimed
<1>2. QED
  BY <1>1, InvariantHolds, PTL

\* EffectsFollowPayment: receipts, logs, stock, fulfilment and alerts only
\* ever concern orders the table shows as paid, and they stay paid.
THEOREM EffectsArePaid == Spec => []EffectsFollowPayment
<1>1. SettlementInv => EffectsFollowPayment
  BY DEF SettlementInv, HandlerOK, EffectsFollowPayment
<1>2. QED
  BY <1>1, InvariantHolds, PTL

\* AlertFollowsFulfilment: the merchant is alerted after the fulfilment
\* status of the order was committed, and no stale commit erases it; only a
\* dispatch that raised is reported without one.
THEOREM AlertsAreSettled == Spec => []AlertFollowsFulfilment
<1>1. SettlementInv => AlertFollowsFulfilment
  BY DEF SettlementInv, AlertOK, AlertFollowsFulfilment
<1>2. QED
  BY <1>1, InvariantHolds, PTL

\* AcknowledgedIsPaid: the Paystack webhook never answers 200 to a charge
\* under the order's own reference and leaves the order unpaid.
THEOREM AcknowledgedOrdersArePaid == Spec => []AcknowledgedIsPaid
<1>1. SettlementInv => AcknowledgedIsPaid
  BY DEF SettlementInv, HandlerOK, AcknowledgedIsPaid
<1>2. QED
  BY <1>1, InvariantHolds, PTL

----------------------------------------------------------------------------

\* SoldOutIsHidden: a unit whose stock reaches 0 is off sale, also when
\* overlapping commits write quantities computed from the same stale row.
THEOREM SoldOutStaysHidden == Spec => []SoldOutIsHidden
<1>1. TypeOK /\ Init => SoldOutIsHidden
  <2> SUFFICES ASSUME Init PROVE SoldOutIsHidden
    OBVIOUS
  <2>1. stock = InitialStock /\ listed = [u \in Units |-> InitialStock[u] > 0]
    BY DEF Init
  <2>2. \A u \in Units : listed[u] <=> stock[u] > 0
    BY <2>1
  <2>3. ~(0 > 0)
    OBVIOUS
  <2>4. QED
    BY <2>2, <2>3 DEF SoldOutIsHidden
<1>2. TypeOK /\ SoldOutIsHidden /\ [Next]_vars => SoldOutIsHidden'
  <2> SUFFICES ASSUME TypeOK, SoldOutIsHidden, [Next]_vars PROVE SoldOutIsHidden'
    OBVIOUS
  <2>1. ASSUME NEW h \in Handlers, FlushStock(h)
        PROVE  SoldOutIsHidden'
    BY <2>1 DEF FlushStock, Kept, SellsOut, SoldOutIsHidden, TypeOK
  <2>2. ASSUME UNCHANGED <<stock, listed>>
        PROVE  SoldOutIsHidden'
    BY <2>2 DEF SoldOutIsHidden
  <2>3. CASE \E l \in links : Charge(l)
    BY <2>2, <2>3 DEF Charge, db
  <2>4. ASSUME NEW h \in Handlers, Arrive(h)
        PROVE  SoldOutIsHidden'
    BY <2>2, <2>4 DEF Arrive, HookArrives, PlainArrives, CallbackArrives, ManualArrives,
                      RelinkArrives, Serve, db
  <2>5. ASSUME NEW h \in Handlers, Step(h)
        PROVE  SoldOutIsHidden'
    <3>1. CASE StockCommit(h) \/ Settle(h)
      BY <2>1, <3>1 DEF StockCommit, Settle
    <3>2. CASE Commit(h) \/ Relink(h)
      BY <2>2, <3>2 DEF Commit, Relink
    <3>3. CASE VerifySucceeds(h) \/ VerifyFails(h) \/ Refresh(h) \/ RelinkFails(h)
      BY <2>2, <3>3 DEF VerifySucceeds, VerifyFails, Refresh, RelinkFails, db
    <3>4. CASE Receipt(h) \/ Finalize(h) \/ StockStarts(h) \/ \E u \in Units : StockRead(h, u)
      BY <2>2, <3>4 DEF Receipt, Finalize, StockStarts, StockRead, db
    <3>5. CASE Push(h) \/ Digital(h) \/ Alert(h)
      BY <2>2, <3>5 DEF Push, Digital, Alert, db
    <3>6. QED
      BY <2>5, <3>1, <3>2, <3>3, <3>4, <3>5 DEF Step
  <2>6. ASSUME NEW h \in Handlers, StockFails(h) \/ DigitalFails(h) \/ CommitFails(h)
        PROVE  SoldOutIsHidden'
    BY <2>2, <2>6 DEF StockFails, DigitalFails, CommitFails, db
  <2>7. CASE Crash
    BY <2>2, <2>7 DEF Crash, db
  <2>8. CASE UNCHANGED vars
    BY <2>2, <2>8 DEF vars
  <2>9. QED
    BY <2>3, <2>4, <2>5, <2>6, <2>7, <2>8 DEF Next
<1>3. QED
  BY InitTypeOK, <1>1, <1>2, TypeCorrect, PTL DEF Spec

----------------------------------------------------------------------------

\* What holds of a resting slot's memory keeps holding.
LEMMA GuardKept ==
    ASSUME TypeOK, GuardInv, NEW g \in Handlers, Rests(g), faults' \in {faults, faults + 1}
    PROVE  (GuardOK(g) /\ GatewayOK(g))'
<1>1. GuardOK(g) /\ GatewayOK(g)
  BY DEF GuardInv
<1>2. faults > 0 => faults' > 0
  BY DEF TypeOK
<1>3. GuardOK(g)'
  BY <1>1, <1>2 DEF GuardOK, Rests
<1>4. GatewayOK(g)'
  BY <1>1 DEF GatewayOK, OrderOf, Rests
<1>5. QED
  BY <1>3, <1>4

\* A step of slot h that keeps h's memory honest and makes no Bumpa order.
LEMMA GuardStep ==
    ASSUME TypeOK, GuardInv, NEW h \in Handlers,
           \A g \in Handlers \ {h} : Rests(g),
           faults' \in {faults, faults + 1},
           (GuardOK(h) /\ GatewayOK(h))',
           \A o \in Orders : InitialGateway[o] # "bumpa" => orders'[o].gateway # "bumpa"
    PROVE  GuardInv'
<1>1. \A g \in Handlers : (GuardOK(g) /\ GatewayOK(g))'
  BY GuardKept
<1>2. QED
  BY <1>1 DEF GuardInv

\* Slot h goes to stage s with the tables and its copy of the row untouched.
LEMMA QuietGuard ==
    ASSUME TypeOK, GuardInv, NEW h \in Handlers, NEW s,
           pc[h] # "idle", s # "link",
           pc' = [pc EXCEPT ![h] = s],
           did' = did \/ \A g \in Handlers \ {h} : did'[g] = did[g],
           UNCHANGED <<orders, kind, req, seen>>,
           faults' \in {faults, faults + 1},
           s = "commit" => kind[h] \notin {"hook", "callback"},
           s = "count" => ~seen[h].counted,
           s \in {"push", "digital"} => seen[h].fulfil \notin Fulfilled,
           s \in {"push", "digital", "settle"} => seen[h].counted \/ faults' > 0
    PROVE  GuardInv'
<1>1. \A g \in Handlers \ {h} : Rests(g)
  BY DEF Rests, TypeOK
<1>2. pc'[h] = s
  BY DEF TypeOK
<1>3. GuardOK(h)'
  BY <1>2 DEF GuardOK
<1>4. GatewayOK(h)'
  BY <1>2 DEF GatewayOK, OrderOf, GuardInv
<1>5. \A o \in Orders : InitialGateway[o] # "bumpa" => orders'[o].gateway # "bumpa"
  BY DEF GuardInv
<1>6. QED
  BY <1>1, <1>3, <1>4, <1>5, GuardStep

\* Slot h writes its order from row new and goes to stage s.
LEMMA WritingGuard ==
    ASSUME TypeOK, GuardInv, NEW h \in Handlers, NEW row, NEW new, NEW s,
           pc[h] # "idle", s \notin {"commit", "count", "link"},
           orders' = [orders EXCEPT ![OrderOf(h)] = row],
           seen' = [seen EXCEPT ![h] = new],
           pc' = [pc EXCEPT ![h] = s],
           \A g \in Handlers \ {h} : did'[g] = did[g],
           UNCHANGED <<kind, req, faults>>,
           row.gateway \in {orders[OrderOf(h)].gateway, new.gateway},
           InitialGateway[OrderOf(h)] # "bumpa" => new.gateway # "bumpa",
           s \in {"push", "digital"} => new.fulfil \notin Fulfilled,
           s \in {"push", "digital", "settle"} => new.counted \/ faults > 0
    PROVE  GuardInv'
<1>1. \A g \in Handlers \ {h} : Rests(g)
  BY DEF Rests, TypeOK
<1>2. /\ pc'[h] = s /\ seen'[h] = new /\ OrderOf(h)' = OrderOf(h)
      /\ OrderOf(h) \in Orders
      /\ orders'[OrderOf(h)] = row
      /\ \A o \in Orders \ {OrderOf(h)} : orders'[o] = orders[o]
  BY LinkTypes DEF TypeOK, OrderOf
<1>3. GuardOK(h)'
  BY <1>2 DEF GuardOK
<1>4. GatewayOK(h)'
  BY <1>2 DEF GatewayOK, GuardInv
<1>5. ASSUME NEW o \in Orders, InitialGateway[o] # "bumpa"
      PROVE  orders'[o].gateway # "bumpa"
  BY <1>2, <1>5 DEF GuardInv
<1>6. QED
  BY <1>1, <1>3, <1>4, <1>5, GuardStep

LEMMA GuardInit == Init => GuardInv
<1> SUFFICES ASSUME Init PROVE GuardInv
  OBVIOUS
<1>1. \A h \in Handlers : GuardOK(h) /\ GatewayOK(h)
  BY DEF Init, GuardOK, GatewayOK
<1>2. \A o \in Orders : orders[o].gateway = InitialGateway[o]
  BY DEF Init, InitialRow
<1>3. QED
  BY <1>1, <1>2 DEF GuardInv

LEMMA GuardServe ==
    ASSUME TypeOK, GuardInv, NEW h \in Handlers, NEW k, NEW r \in Requests,
           NEW s \in {"commit", "verify", "link", "done"}, Serve(h, k, r, s),
           s = "commit" /\ k \in {"hook", "callback"} => orders[r.order].status # "paid",
           k = "plain" => r.gateway \in PlainGateways,
           s = "link" => r.gateway \in RelinkGateways
    PROVE  GuardInv'
<1> USE DEF Serve, db, world
<1>1. \A g \in Handlers \ {h} : Rests(g)
  BY DEF Rests, TypeOK
<1>2. /\ pc'[h] = s /\ kind'[h] = k /\ req'[h] = r
      /\ seen'[h] = orders[r.order]
      /\ OrderOf(h)' = r.order
      /\ r.order \in Orders
  BY LinkTypes DEF TypeOK, OrderOf
<1>3. GuardOK(h)'
  BY <1>2 DEF GuardOK
<1>4. GatewayOK(h)'
  BY <1>2 DEF GatewayOK, GuardInv
<1>5. \A o \in Orders : InitialGateway[o] # "bumpa" => orders'[o].gateway # "bumpa"
  BY DEF GuardInv
<1>6. faults' = faults
  OBVIOUS
<1>7. QED
  BY <1>1, <1>3, <1>4, <1>5, <1>6, GuardStep

LEMMA GuardArrive ==
    ASSUME TypeOK, GuardInv, NEW h \in Handlers, Arrive(h)
    PROVE  GuardInv'
<1>1. ASSUME NEW c \in Links, HookArrives(h, c)
      PROVE  GuardInv'
  <2>1. c \in Requests
    BY LinkTypes DEF TypeOK
  <2>2. PICK s \in {"commit", "done"} :
           Serve(h, "hook", c, s) /\ (s = "commit" => orders[c.order].status # "paid")
    BY <1>1 DEF HookArrives, HookPasses
  <2>3. QED
    BY <2>1, <2>2, GuardServe
<1>2. ASSUME NEW c \in Links, PlainArrives(h, c)
      PROVE  GuardInv'
  <2>1. c \in Requests /\ c.gateway \in PlainGateways
    BY <1>2, LinkTypes DEF TypeOK, PlainArrives
  <2>2. QED
    BY <1>2, <2>1, GuardServe DEF PlainArrives
<1>3. ASSUME NEW l \in links, CallbackArrives(h, l)
      PROVE  GuardInv'
  <2>1. l \in Requests
    BY LinkTypes DEF TypeOK
  <2>2. PICK s \in {"verify", "done"} : Serve(h, "callback", l, s)
    BY <1>3 DEF CallbackArrives
  <2>3. QED
    BY <2>1, <2>2, GuardServe
<1>4. ASSUME NEW o \in Orders, ManualArrives(h, o)
      PROVE  GuardInv'
  <2>1. OwnLink(o, "paystack") \in Requests
    BY LinkTypes DEF GatewayColumn, LinkGateways
  <2>2. PICK s \in {"verify", "done"} : Serve(h, "manual", OwnLink(o, "paystack"), s)
    BY <1>4 DEF ManualArrives
  <2>3. QED
    BY <2>1, <2>2, GuardServe
<1>5. ASSUME NEW o \in Orders, NEW g \in RelinkGateways, RelinkArrives(h, o, g)
      PROVE  GuardInv'
  <2>1. OwnLink(o, g) \in Requests /\ OwnLink(o, g).gateway = g
    BY LinkTypes, GatewayAssumption DEF GatewayColumn, LinkGateways, OwnLink
  <2>2. QED
    BY <1>5, <2>1, GuardServe DEF RelinkArrives
<1>6. QED
  BY <1>1, <1>2, <1>3, <1>4, <1>5 DEF Arrive

LEMMA GuardOfStep ==
    ASSUME TypeOK, SettlementInv, GuardInv, NEW h \in Handlers, Step(h)
    PROVE  GuardInv'
<1>0. /\ OrderOf(h) \in Orders /\ seen[h] \in OrderRows /\ orders[OrderOf(h)] \in OrderRows
      /\ GuardOK(h) /\ GatewayOK(h)
  BY LinkTypes DEF TypeOK, OrderOf, GuardInv
<1>a. /\ AfterStock(h) \in {"alert", "push", "digital", "settle"}
      /\ AfterStock(h) \in {"push", "digital"} => seen[h].fulfil \notin Fulfilled
  BY DEF AfterStock, FirstGroup
<1>b. ASSUME NEW e, NEW s, Attempt(h, e, s)
      PROVE  /\ pc' = [pc EXCEPT ![h] = s]
             /\ \A g \in Handlers \ {h} : did'[g] = did[g]
  BY <1>b DEF Attempt, Move, TypeOK
<1>1. CASE VerifySucceeds(h)
  <2>1. kind[h] # "hook"
    BY <1>1 DEF VerifySucceeds, SettlementInv, HandlerOK
  <2>2. PICK s \in {"refresh", "commit"} :
           pc' = [pc EXCEPT ![h] = s] /\ (s = "commit" => kind[h] # "callback")
    BY <1>1 DEF VerifySucceeds, Move
  <2>3. QED
    BY <1>1, <2>1, <2>2, QuietGuard DEF VerifySucceeds, db, world, locals
<1>2. CASE VerifyFails(h)
  BY <1>2, QuietGuard DEF VerifyFails, Move, db, world, locals
<1>3. CASE Refresh(h)
  <2>1. /\ pc'[h] \in {"done", "commit"}
        /\ pc'[h] = "commit" => orders[OrderOf(h)].status # "paid"
        /\ seen'[h] = orders[OrderOf(h)]
        /\ UNCHANGED <<orders, kind, req, did, faults>>
        /\ OrderOf(h)' = OrderOf(h)
    BY <1>3 DEF Refresh, Move, TypeOK, Paid, db, world, locals, OrderOf
  <2>2. \A g \in Handlers \ {h} : Rests(g)
    BY <1>3, <2>1 DEF Rests, TypeOK, Refresh, Move
  <2>3. GuardOK(h)'
    BY <2>1 DEF GuardOK
  <2>4. GatewayOK(h)'
    BY <1>0, <2>1 DEF GatewayOK, GuardInv
  <2>5. \A o \in Orders : InitialGateway[o] # "bumpa" => orders'[o].gateway # "bumpa"
    BY <2>1 DEF GuardInv
  <2>6. QED
    BY <2>1, <2>2, <2>3, <2>4, <2>5, GuardStep
<1>4. CASE Commit(h)
  <2> DEFINE new == Confirmed(h)
             row == Flushed(orders[OrderOf(h)], seen[h], new)
  <2>1. PICK s \in {"done", "receipt"} : pc' = [pc EXCEPT ![h] = s]
    BY <1>4 DEF Commit, Move
  <2>2. /\ orders' = [orders EXCEPT ![OrderOf(h)] = row]
        /\ seen' = [seen EXCEPT ![h] = new]
        /\ UNCHANGED <<kind, req, faults>>
        /\ pc[h] = "commit"
        /\ \A g \in Handlers \ {h} : did'[g] = did[g]
    BY <1>4 DEF Commit, Save, world, locals, TypeOK
  <2>3. row.gateway \in {orders[OrderOf(h)].gateway, new.gateway}
    BY DEF Flushed, Kept
  <2>4. InitialGateway[OrderOf(h)] # "bumpa" => new.gateway # "bumpa"
    BY <1>0, <2>2 DEF Confirmed, GatewayOK, PlainGateways, OrderRows
  <2> HIDE DEF new, row
  <2>5. QED
    BY <2>1, <2>2, <2>3, <2>4, WritingGuard
<1>5. CASE Receipt(h)
  <2>1. PICK s \in {"finalize", "stock"} : Attempt(h, "receipt", s)
    BY <1>5 DEF Receipt
  <2>2. QED
    BY <1>b, <1>5, <2>1, QuietGuard DEF Receipt, db, world, locals
<1>6. CASE Finalize(h)
  <2>1. Attempt(h, "finalize", "stock")
    BY <1>6 DEF Finalize
  <2>2. QED
    BY <1>b, <1>6, <2>1, QuietGuard DEF Finalize, db, world, locals
<1>7. CASE StockStarts(h)
  <2>1. UNCHANGED <<orders, kind, req, seen, did, faults>> /\ pc[h] = "stock"
    BY <1>7 DEF StockStarts, db, world, locals
  <2>2. CASE seen[h].counted
    <3>1. pc' = [pc EXCEPT ![h] = AfterStock(h)]
      BY <1>7, <2>2 DEF StockStarts, Move
    <3>2. QED
      BY <1>a, <2>1, <2>2, <3>1, QuietGuard
  <2>3. CASE ~seen[h].counted
    <3>1. pc' = [pc EXCEPT ![h] = "count"]
      BY <1>7, <2>3 DEF StockStarts, Move
    <3>2. QED
      BY <2>1, <2>3, <3>1, QuietGuard
  <2>4. QED
    BY <2>2, <2>3
<1>8. CASE StockCommit(h)
  <2> DEFINE new == [seen[h] EXCEPT !.counted = TRUE]
             row == Flushed(orders[OrderOf(h)], seen[h], new)
  <2>1. /\ pc' = [pc EXCEPT ![h] = AfterStock(h)]
        /\ \A g \in Handlers \ {h} : did'[g] = did[g]
    BY <1>b, <1>8 DEF StockCommit
  <2>2. /\ orders' = [orders EXCEPT ![OrderOf(h)] = row]
        /\ seen' = [seen EXCEPT ![h] = new]
        /\ UNCHANGED <<kind, req, faults>>
        /\ pc[h] = "count"
    BY <1>8 DEF StockCommit, Save, world
  <2>3. row.gateway \in {orders[OrderOf(h)].gateway, new.gateway}
    BY DEF Flushed, Kept
  <2>4. /\ InitialGateway[OrderOf(h)] # "bumpa" => new.gateway # "bumpa"
        /\ new.fulfil = seen[h].fulfil
        /\ new.counted
    BY <1>0, <2>2 DEF GatewayOK, OrderRows
  <2> HIDE DEF new, row
  <2>5. QED
    BY <1>a, <2>1, <2>2, <2>3, <2>4, WritingGuard
<1>9. ASSUME NEW u \in Units, StockRead(h, u)
      PROVE  GuardInv'
  <2>1. pc' = [pc EXCEPT ![h] = "count"] /\ pc[h] = "count"
    BY <1>9 DEF StockRead, TypeOK
  <2>2. QED
    BY <1>0, <1>9, <2>1, QuietGuard DEF StockRead, GuardOK, db, world
<1>10. CASE Push(h)
  <2>1. PICK s \in {"digital", "settle"} : Attempt(h, "push", s)
    BY <1>10 DEF Push
  <2>2. QED
    BY <1>0, <1>b, <1>10, <2>1, QuietGuard DEF Push, GuardOK, db, world
<1>11. CASE Digital(h)
  <2>1. \A g \in Handlers \ {h} : did'[g] = did[g]
    BY <1>b, <1>11 DEF Digital
  <2>2. pc' = [pc EXCEPT ![h] = "settle"] /\ pc[h] = "digital"
    BY <1>11 DEF Digital, Attempt, Move
  <2>3. QED
    BY <1>0, <1>11, <2>1, <2>2, QuietGuard DEF Digital, GuardOK, db, world
<1>12. CASE Settle(h)
  <2> DEFINE new == [seen[h] EXCEPT !.fulfil = Outcome(results[h])]
             base == Flushed(orders[OrderOf(h)], seen[h], new)
             row == [base EXCEPT !.counted = new.counted]
  <2>1. /\ orders' = [orders EXCEPT ![OrderOf(h)] = row]
        /\ seen' = [seen EXCEPT ![h] = new]
        /\ UNCHANGED <<kind, req, faults>>
        /\ pc[h] = "settle"
        /\ \A g \in Handlers \ {h} : did'[g] = did[g]
    BY <1>12 DEF Settle, world, TypeOK
  <2>2. pc' = [pc EXCEPT ![h] = "alert"]
    BY <1>12 DEF Settle, Move
  <2>3. row.gateway \in {orders[OrderOf(h)].gateway, new.gateway}
    BY DEF Flushed, Kept
  <2>4. InitialGateway[OrderOf(h)] # "bumpa" => new.gateway # "bumpa"
    BY <1>0, <2>1 DEF GatewayOK, OrderRows
  <2> HIDE DEF new, row
  <2>5. QED
    BY <2>1, <2>2, <2>3, <2>4, WritingGuard
<1>13. CASE Alert(h)
  <2>1. Attempt(h, "alert", "done")
    BY <1>13 DEF Alert
  <2>2. QED
    BY <1>b, <1>13, <2>1, QuietGuard DEF Alert, db, world, locals
<1>14. CASE Relink(h)
  <2>1. PICK l \in Links :
           /\ l.gateway = LinkGateway(h)
           /\ LET new == Relinked(h, l)
                  row == Flushed(orders[OrderOf(h)], seen[h], new)
              IN /\ orders' = [orders EXCEPT ![OrderOf(h)] =
                                 IF l.gateway = "bumpa"
                                 THEN [row EXCEPT !.counted = new.counted] ELSE row]
                 /\ seen' = [seen EXCEPT ![h] = new]
    BY <1>14 DEF Relink
  <2> DEFINE new == Relinked(h, l)
             base == Flushed(orders[OrderOf(h)], seen[h], new)
             row == IF l.gateway = "bumpa" THEN [base EXCEPT !.counted = new.counted] ELSE base
  <2>2. orders' = [orders EXCEPT ![OrderOf(h)] = row] /\ seen' = [seen EXCEPT ![h] = new]
    BY <2>1
  <2>3. /\ pc' = [pc EXCEPT ![h] = "done"] /\ pc[h] = "link"
        /\ UNCHANGED <<kind, req, faults>>
        /\ \A g \in Handlers \ {h} : did'[g] = did[g]
    BY <1>14 DEF Relink, Move, locals
  <2>4. row.gateway \in {orders[OrderOf(h)].gateway, new.gateway}
    BY DEF Flushed, Kept
  <2>5. seen[h].gateway # "bumpa" => LinkGateway(h) # "bumpa"
    BY <1>0, <2>3, GatewayAssumption DEF LinkGateway, GatewayOK, PlainGateways
  <2>6. InitialGateway[OrderOf(h)] # "bumpa" => new.gateway # "bumpa"
    BY <1>0, <2>1, <2>3, <2>5 DEF Relinked, GatewayOK, OrderRows
  <2> HIDE DEF new, row
  <2>7. QED
    BY <2>2, <2>3, <2>4, <2>6, WritingGuard
<1>15. CASE RelinkFails(h)
  BY <1>15, QuietGuard DEF RelinkFails, Move, db, world, locals
<1>16. QED
  BY <1>1, <1>2, <1>3, <1>4, <1>5, <1>6, <1>7, <1>8, <1>9, <1>10, <1>11, <1>12,
     <1>13, <1>14, <1>15 DEF Step

LEMMA GuardNext == TypeOK /\ SettlementInv /\ GuardInv /\ [Next]_vars => GuardInv'
<1> SUFFICES ASSUME TypeOK, SettlementInv, GuardInv, [Next]_vars PROVE GuardInv'
  OBVIOUS
<1>0. ASSUME UNCHANGED <<orders, pc, kind, req, seen, faults>>
      PROVE  GuardInv'
  BY <1>0 DEF GuardInv, GuardOK, GatewayOK, OrderOf
<1>1. ASSUME NEW l \in links, Charge(l)
      PROVE  GuardInv'
  BY <1>0, <1>1 DEF Charge, db, locals
<1>2. ASSUME NEW h \in Handlers, Arrive(h)
      PROVE  GuardInv'
  BY <1>2, GuardArrive
<1>3. ASSUME NEW h \in Handlers, Step(h)
      PROVE  GuardInv'
  BY <1>3, GuardOfStep
<1>4. ASSUME NEW h \in Handlers, StockFails(h)
      PROVE  GuardInv'
  <2>1. /\ AfterStock(h) \in {"alert", "push", "digital", "settle"}
        /\ AfterStock(h) \in {"push", "digital"} => seen[h].fulfil \notin Fulfilled
    BY DEF AfterStock, FirstGroup
  <2>2. faults' = faults + 1 /\ faults' > 0
    BY <1>4 DEF StockFails, TypeOK
  <2>3. pc[h] = "count" /\ pc' = [pc EXCEPT ![h] = AfterStock(h)]
    BY <1>4 DEF StockFails, Move
  <2>4. QED
    BY <1>4, <2>1, <2>2, <2>3, QuietGuard DEF StockFails, db, world, locals
<1>9. ASSUME NEW h \in Handlers, DigitalFails(h)
      PROVE  GuardInv'
  <2>1. faults' = faults + 1 /\ faults' > 0
    BY <1>9 DEF DigitalFails, TypeOK
  <2>2. /\ pc[h] = "digital" /\ pc' = [pc EXCEPT ![h] = "alert"]
        /\ \A g \in Handlers \ {h} : did'[g] = did[g]
    BY <1>9 DEF DigitalFails, Attempt, Move, TypeOK
  <2>3. QED
    BY <1>9, <2>1, <2>2, QuietGuard DEF DigitalFails, db, world
<1>5. ASSUME NEW h \in Handlers, CommitFails(h)
      PROVE  GuardInv'
  <2>1. pc[h] # "idle" /\ pc' = [pc EXCEPT ![h] = "crashed"]
    BY <1>5 DEF CommitFails, Move
  <2>2. QED
    BY <1>5, <2>1, QuietGuard DEF CommitFails, db, world, locals
<1>6. CASE Crash
  <2>1. /\ UNCHANGED <<orders, kind, req, seen>>
        /\ \A h \in Handlers : pc'[h] = pc[h] \/ (pc[h] \notin Resting /\ pc'[h] = "crashed")
    BY <1>6 DEF Crash, db, locals, TypeOK
  <2>2. faults' > 0
    BY <1>6 DEF Crash, TypeOK
  <2>3. ASSUME NEW h \in Handlers
        PROVE  (GuardOK(h) /\ GatewayOK(h))'
    <3>1. GuardOK(h) /\ GatewayOK(h)
      BY DEF GuardInv
    <3>2. GuardOK(h)'
      BY <2>1, <2>2, <3>1 DEF GuardOK
    <3>3. GatewayOK(h)'
      BY <2>1, <3>1 DEF GatewayOK, OrderOf, Resting
    <3>4. QED
      BY <3>2, <3>3
  <2>4. QED
    BY <2>1, <2>3 DEF GuardInv
<1>7. CASE UNCHANGED vars
  BY <1>0, <1>7 DEF vars
<1>8. QED
  BY <1>1, <1>2, <1>3, <1>4, <1>5, <1>6, <1>7, <1>9 DEF Next

\* GuardInv holds of every reachable state.
THEOREM GuardsHold == Spec => []GuardInv
<1>1. QED
  BY GuardInit, GuardNext, TypeCorrect, InvariantHolds, PTL DEF Spec

----------------------------------------------------------------------------

\* What slot h does in a step is what its stage allows: a log row at "commit",
\* a count at "count", a push at "push", a digital delivery at "digital".
Does(h) == did'[h] \ did[h]
Allowed(h) ==
    /\ "log" \in Does(h) => pc[h] = "commit"
    /\ "count" \in Does(h) => pc[h] = "count"
    /\ "push" \in Does(h) => pc[h] = "push"
    /\ "digital" \in Does(h) => pc[h] = "digital"

LEMMA StepAllowed ==
    ASSUME TypeOK, NEW h \in Handlers, Step(h)
    PROVE  Allowed(h) /\ \A g \in Handlers \ {h} : did'[g] = did[g]
<1> USE DEF Allowed, Does
<1>a. ASSUME NEW e, NEW s, Attempt(h, e, s)
      PROVE  did'[h] = did[h] \union {e} /\ \A g \in Handlers \ {h} : did'[g] = did[g]
  BY <1>a DEF Attempt, TypeOK
<1>1. CASE VerifySucceeds(h) \/ VerifyFails(h) \/ Refresh(h) \/ RelinkFails(h)
  BY <1>1 DEF VerifySucceeds, VerifyFails, Refresh, RelinkFails
<1>2. CASE StockStarts(h) \/ (\E u \in Units : StockRead(h, u)) \/ Relink(h)
  BY <1>2 DEF StockStarts, StockRead, Relink
<1>3. CASE Commit(h)
  BY <1>3 DEF Commit, TypeOK
<1>4. CASE Receipt(h)
  <2>1. PICK s : Attempt(h, "receipt", s)
    BY <1>4 DEF Receipt
  <2>2. QED
    BY <1>a, <2>1
<1>5. CASE Finalize(h)
  BY <1>a, <1>5 DEF Finalize
<1>6. CASE StockCommit(h)
  BY <1>a, <1>6 DEF StockCommit
<1>7. CASE Push(h)
  <2>1. PICK s : Attempt(h, "push", s)
    BY <1>7 DEF Push
  <2>2. QED
    BY <1>a, <1>7, <2>1 DEF Push
<1>8. CASE Digital(h)
  BY <1>a, <1>8 DEF Digital
<1>9. CASE Settle(h)
  BY <1>9 DEF Settle, TypeOK
<1>10. CASE Alert(h)
  BY <1>a, <1>10 DEF Alert
<1>11. QED
  BY <1>1, <1>2, <1>3, <1>4, <1>5, <1>6, <1>7, <1>8, <1>9, <1>10 DEF Step

LEMMA NextAllowed ==
    ASSUME TypeOK, [Next]_vars, NEW h \in Handlers
    PROVE  Allowed(h)
<1>1. ASSUME did' = did
      PROVE  Allowed(h)
  BY <1>1 DEF Allowed, Does
<1>2. ASSUME NEW g \in Handlers, Step(g)
      PROVE  Allowed(h)
  BY <1>2, StepAllowed DEF Allowed, Does
<1>3. ASSUME NEW l \in links, Charge(l)
      PROVE  did' = did
  BY <1>3 DEF Charge
<1>4. ASSUME NEW g \in Handlers, Arrive(g)
      PROVE  did' = did
  BY <1>4 DEF Arrive, HookArrives, PlainArrives, CallbackArrives, ManualArrives,
              RelinkArrives, Serve
<1>5. ASSUME NEW g \in Handlers, StockFails(g) \/ CommitFails(g)
      PROVE  did' = did
  BY <1>5 DEF StockFails, CommitFails
<1>6. CASE Crash
  BY <1>1, <1>6 DEF Crash
<1>7. CASE UNCHANGED vars
  BY <1>1, <1>7 DEF vars
<1>8. ASSUME NEW g \in Handlers, DigitalFails(g)
      PROVE  Allowed(h)
  BY <1>8 DEF DigitalFails, Attempt, Allowed, Does, TypeOK
<1>9. QED
  BY <1>1, <1>2, <1>3, <1>4, <1>5, <1>6, <1>7, <1>8 DEF Next

\* No slot forgets what it did.
LEMMA DidGrows ==
    ASSUME TypeOK, [Next]_vars, NEW h \in Handlers
    PROVE  did[h] \subseteq did'[h]
<1>1. ASSUME NEW g \in Handlers, Step(g), did' # did
      PROVE  did[h] \subseteq did'[h]
  <2>1. CASE Commit(g) \/ Settle(g)
    <3>1. PICK D : did' = [did EXCEPT ![g] = D] /\ did[g] \subseteq D
      BY <1>1, <2>1 DEF Commit, Settle
    <3>2. QED
      BY <3>1 DEF TypeOK
  <2>2. ASSUME NEW e, NEW s, Attempt(g, e, s)
        PROVE  did[h] \subseteq did'[h]
    BY <2>2 DEF Attempt, TypeOK
  <2>3. CASE Receipt(g) \/ Finalize(g) \/ StockCommit(g)
    BY <2>2, <2>3 DEF Receipt, Finalize, StockCommit
  <2>4. CASE Push(g) \/ Digital(g) \/ Alert(g)
    BY <1>1, <2>2, <2>4 DEF Push, Digital, Alert
  <2>5. QED
    BY <1>1, <2>1, <2>3, <2>4 DEF Step, VerifySucceeds, VerifyFails, Refresh, StockStarts,
                                  StockRead, Relink, RelinkFails
<1>2. ASSUME NEW g \in Handlers, Arrive(g)
      PROVE  did' = did
  BY <1>2 DEF Arrive, HookArrives, PlainArrives, CallbackArrives, ManualArrives,
              RelinkArrives, Serve
<1>3. ASSUME NEW g \in Handlers, DigitalFails(g)
      PROVE  did[h] \subseteq did'[h]
  BY <1>3 DEF DigitalFails, Attempt, TypeOK
<1>4. QED
  BY <1>1, <1>2, <1>3 DEF Next, Charge, StockFails, CommitFails, Crash, vars

\* A slot that has its request keeps it, and its kind.
LEMMA RequestKept ==
    ASSUME TypeOK, [Next]_vars, NEW h \in Handlers, pc[h] # "idle"
    PROVE  req'[h] = req[h] /\ kind'[h] = kind[h]
<1>1. ASSUME UNCHANGED <<kind, req>>
      PROVE  req'[h] = req[h] /\ kind'[h] = kind[h]
  BY <1>1
<1>2. ASSUME NEW g \in Handlers, Arrive(g)
      PROVE  req'[h] = req[h] /\ kind'[h] = kind[h]
  <2>1. PICK k, r, s : Serve(g, k, r, s)
    BY <1>2 DEF Arrive, HookArrives, PlainArrives, CallbackArrives, ManualArrives, RelinkArrives
  <2>2. QED
    BY <2>1 DEF Serve, TypeOK
<1>3. ASSUME NEW g \in Handlers, Step(g)
      PROVE  UNCHANGED <<kind, req>>
  BY <1>3 DEF Step, VerifySucceeds, VerifyFails, Refresh, Commit, Receipt, Finalize,
              StockStarts, StockCommit, StockRead, Push, Digital, Settle, Alert, Relink,
              RelinkFails, locals
<1>4. ASSUME NEW l \in links, Charge(l)
      PROVE  UNCHANGED <<kind, req>>
  BY <1>4 DEF Charge, locals
<1>5. ASSUME NEW g \in Handlers, StockFails(g) \/ DigitalFails(g) \/ CommitFails(g)
      PROVE  UNCHANGED <<kind, req>>
  BY <1>5 DEF StockFails, DigitalFails, CommitFails, locals
<1>6. CASE Crash \/ UNCHANGED vars
  BY <1>1, <1>6 DEF Crash, vars, locals
<1>7. QED
  BY <1>1, <1>2, <1>3, <1>4, <1>5, <1>6 DEF Next

\* RetriesAreSilent: once the table shows an order as paid and no handler
\* that saw it unpaid is about to commit, no redelivered Paystack event and
\* no late callback confirms it again, whatever overlaps.
THEOREM PaidOrdersStaySilent == Spec => RetriesAreSilent
<1>1. ASSUME TypeOK, SettlementInv, GuardInv, [Next]_vars, NEW o \in Orders,
             Paid(o), Confirming(o) = {}
      PROVE  ConfirmedBy(o)' = ConfirmedBy(o)
  <2>1. ASSUME NEW h \in Handlers, pc[h] # "idle"
        PROVE  h \in ConfirmedBy(o)' <=> h \in ConfirmedBy(o)
    <3>1. OrderOf(h)' = OrderOf(h) /\ kind'[h] = kind[h]
      BY <1>1, <2>1, RequestKept DEF OrderOf
    <3>2. did[h] \subseteq did'[h]
      BY <1>1, DidGrows
    <3>3. ASSUME OrderOf(h) = o, kind[h] \in {"hook", "callback"}, "log" \in did'[h],
                 "log" \notin did[h]
          PROVE  FALSE
      <4>1. pc[h] = "commit"
        BY <1>1, <3>3, NextAllowed DEF Allowed, Does
      <4>2. seen[h].status # "paid"
        BY <1>1, <3>3, <4>1 DEF GuardInv, GuardOK
      <4>3. QED
        BY <1>1, <3>3, <4>1, <4>2 DEF Confirming
    <3>4. QED
      BY <3>1, <3>2, <3>3 DEF ConfirmedBy
  <2>2. ASSUME NEW h \in Handlers, pc[h] = "idle"
        PROVE  h \notin ConfirmedBy(o)' /\ h \notin ConfirmedBy(o)
    <3>1. did[h] = {}
      BY <1>1, <2>2 DEF SettlementInv, HandlerOK
    <3>2. "log" \notin did'[h]
      BY <1>1, <2>2, <3>1, NextAllowed DEF Allowed, Does
    <3>3. QED
      BY <3>1, <3>2 DEF ConfirmedBy
  <2>3. ConfirmedBy(o) \subseteq Handlers /\ ConfirmedBy(o)' \subseteq Handlers
    BY DEF ConfirmedBy
  <2>4. QED
    BY <2>1, <2>2, <2>3
<1>2. TypeOK /\ SettlementInv /\ GuardInv /\ [Next]_vars =>
        [\A o \in Orders : Paid(o) /\ Confirming(o) = {}
                              => ConfirmedBy(o)' = ConfirmedBy(o)]_vars
  BY <1>1
<1>3. QED
  BY <1>2, TypeCorrect, InvariantHolds, GuardsHold, PTL DEF Spec, RetriesAreSilent

\* FulfilledStaysFulfilled: an order the table shows as dispatched or
\* delivered is not pushed to Bumpa or sent out again by handlers that loaded
\* it afterwards, for every gateway.
THEOREM FulfilledOrdersRest == Spec => FulfilledStaysFulfilled
<1>1. ASSUME TypeOK, GuardInv, [Next]_vars, NEW h \in Handlers,
             orders[OrderOf(h)].fulfil \in Fulfilled,
             \A g \in Acting(OrderOf(h)) : seen[g].fulfil \in Fulfilled
      PROVE  did'[h] \intersect {"push", "digital"} = did[h] \intersect {"push", "digital"}
  <2>1. did[h] \subseteq did'[h]
    BY <1>1, DidGrows
  <2>2. ASSUME NEW e \in {"push", "digital"}, e \in did'[h], e \notin did[h]
        PROVE  FALSE
    <3>1. pc[h] = e
      BY <1>1, <2>2, NextAllowed DEF Allowed, Does
    <3>2. seen[h].fulfil \notin Fulfilled
      BY <1>1, <2>2, <3>1 DEF GuardInv, GuardOK
    <3>3. h \in Acting(OrderOf(h))
      BY <2>2, <3>1 DEF Acting, Resting
    <3>4. QED
      BY <1>1, <3>2, <3>3
  <2>3. QED
    BY <2>1, <2>2
<1>2. TypeOK /\ GuardInv /\ [Next]_vars =>
        [\A h \in Handlers :
            /\ orders[OrderOf(h)].fulfil \in Fulfilled
            /\ \A g \in Acting(OrderOf(h)) : seen[g].fulfil \in Fulfilled
            => did'[h] \intersect {"push", "digital"}
                 = did[h] \intersect {"push", "digital"}]_vars
  BY <1>1
<1>3. QED
  BY <1>2, TypeCorrect, GuardsHold, PTL DEF Spec, FulfilledStaysFulfilled

\* A counted order that is not a Bumpa one stays counted while nothing fails.
LEMMA CountKept ==
    ASSUME TypeOK, GuardInv, [Next]_vars, NEW o \in Orders,
           orders[o].counted, InitialGateway[o] # "bumpa", faults = 0
    PROVE  orders'[o].counted
<1>0. orders \in [Orders -> OrderRows]
  BY DEF TypeOK
<1>1. ASSUME orders' = orders
      PROVE  orders'[o].counted
  BY <1>1
<1>2. ASSUME NEW h \in Handlers, NEW row,
             orders' = [orders EXCEPT ![OrderOf(h)] = row],
             OrderOf(h) = o => row.counted
      PROVE  orders'[o].counted
  BY <1>0, <1>2
<1>3. ASSUME NEW h \in Handlers, NEW new, Save(h, new),
             new.counted \in {seen[h].counted, TRUE}
      PROVE  orders'[o].counted
  <2> DEFINE row == Flushed(orders[OrderOf(h)], seen[h], new)
  <2>1. OrderOf(h) = o => row.counted
    BY <1>3 DEF Flushed, Kept
  <2>2. orders' = [orders EXCEPT ![OrderOf(h)] = row]
    BY <1>3 DEF Save
  <2> HIDE DEF row
  <2>3. QED
    BY <1>2, <2>1, <2>2
<1>4. ASSUME NEW h \in Handlers, Commit(h)
      PROVE  orders'[o].counted
  <2>1. Save(h, Confirmed(h))
    BY <1>4 DEF Commit
  <2>2. seen[h] \in OrderRows
    BY DEF TypeOK
  <2>3. Confirmed(h).counted = seen[h].counted
    BY <2>2 DEF Confirmed, OrderRows
  <2>4. QED
    BY <1>3, <2>1, <2>3
<1>5. ASSUME NEW h \in Handlers, StockCommit(h)
      PROVE  orders'[o].counted
  <2>1. Save(h, [seen[h] EXCEPT !.counted = TRUE])
    BY <1>5 DEF StockCommit
  <2>2. seen[h] \in OrderRows
    BY DEF TypeOK
  <2>3. [seen[h] EXCEPT !.counted = TRUE].counted = TRUE
    BY <2>2 DEF OrderRows
  <2>4. QED
    BY <1>3, <2>1, <2>3
<1>6. ASSUME NEW h \in Handlers, Settle(h)
      PROVE  orders'[o].counted
  <2> DEFINE new == [seen[h] EXCEPT !.fulfil = Outcome(results[h])]
             base == Flushed(orders[OrderOf(h)], seen[h], new)
             row == [base EXCEPT !.counted = new.counted]
  <2>1. orders' = [orders EXCEPT ![OrderOf(h)] = row] /\ pc[h] = "settle"
    BY <1>6 DEF Settle
  <2>2. seen[h].counted /\ seen[h] \in OrderRows
    BY <2>1 DEF GuardInv, GuardOK, TypeOK
  <2>3. new.counted
    BY <2>2 DEF OrderRows
  <2>4. row.counted
    BY <2>3 DEF Flushed
  <2> HIDE DEF row
  <2>5. QED
    BY <1>2, <2>1, <2>4
<1>7. ASSUME NEW h \in Handlers, Relink(h)
      PROVE  orders'[o].counted
  <2>1. PICK l \in Links :
           /\ l.gateway = LinkGateway(h)
           /\ orders' = [orders EXCEPT ![OrderOf(h)] =
                           IF l.gateway = "bumpa"
                           THEN [Flushed(orders[OrderOf(h)], seen[h], Relinked(h, l))
                                   EXCEPT !.counted = Relinked(h, l).counted]
                           ELSE Flushed(orders[OrderOf(h)], seen[h], Relinked(h, l))]
    BY <1>7 DEF Relink
  <2> DEFINE base == Flushed(orders[OrderOf(h)], seen[h], Relinked(h, l))
             row == IF l.gateway = "bumpa"
                    THEN [base EXCEPT !.counted = Relinked(h, l).counted] ELSE base
  <2>2. seen[h] \in OrderRows /\ pc[h] = "link"
    BY <1>7 DEF TypeOK, Relink
  <2>3. Relinked(h, l).counted = seen[h].counted
    BY <2>2 DEF Relinked, OrderRows
  <2>4. OrderOf(h) = o => base.counted
    BY <2>3 DEF Flushed, Kept
  <2>5. OrderOf(h) = o => l.gateway # "bumpa"
    <3>1. OrderOf(h) = o => seen[h].gateway # "bumpa"
      BY <2>2 DEF GuardInv, GatewayOK
    <3>2. seen[h].gateway # "bumpa" => LinkGateway(h) # "bumpa"
      BY <2>2, GatewayAssumption DEF LinkGateway, GuardInv, GatewayOK, PlainGateways
    <3>3. QED
      BY <2>1, <3>1, <3>2
  <2>6. OrderOf(h) = o => row.counted
    BY <2>4, <2>5
  <2>7. orders' = [orders EXCEPT ![OrderOf(h)] = row]
    BY <2>1
  <2> HIDE DEF row
  <2>8. QED
    BY <1>2, <2>6, <2>7
<1>8. ASSUME NEW h \in Handlers, Step(h)
      PROVE  orders'[o].counted
  <2>1. CASE VerifySucceeds(h) \/ VerifyFails(h) \/ Refresh(h) \/ RelinkFails(h)
    BY <1>1, <2>1 DEF VerifySucceeds, VerifyFails, Refresh, RelinkFails, db
  <2>2. CASE Receipt(h) \/ Finalize(h) \/ StockStarts(h) \/ \E u \in Units : StockRead(h, u)
    BY <1>1, <2>2 DEF Receipt, Finalize, StockStarts, StockRead, db
  <2>3. CASE Push(h) \/ Digital(h) \/ Alert(h)
    BY <1>1, <2>3 DEF Push, Digital, Alert, db
  <2>4. QED
    BY <1>4, <1>5, <1>6, <1>7, <1>8, <2>1, <2>2, <2>3 DEF Step
<1>9. ASSUME NEW h \in Handlers, Arrive(h)
      PROVE  orders'[o].counted
  BY <1>1, <1>9 DEF Arrive, HookArrives, PlainArrives, CallbackArrives, ManualArrives,
                    RelinkArrives, Serve, db
<1>10. ASSUME NEW h \in Handlers, StockFails(h) \/ DigitalFails(h) \/ CommitFails(h)
       PROVE  orders'[o].counted
  BY <1>1, <1>10 DEF StockFails, DigitalFails, CommitFails, db
<1>11. CASE (\E l \in links : Charge(l)) \/ Crash \/ UNCHANGED vars
  BY <1>1, <1>11 DEF Charge, Crash, vars, db
<1>12. QED
  BY <1>8, <1>9, <1>10, <1>11 DEF Next

\* CountedStaysCounted: handlers that loaded an order after its count was
\* committed leave stock alone, and while nothing fails no stale commit
\* unsets the flag, for every order that is not a Bumpa one.
THEOREM CountedOrdersStayCounted == Spec => CountedStaysCounted
<1>1. ASSUME TypeOK, GuardInv, [Next]_vars, NEW o \in Orders,
             \A g \in Acting(o) : seen[g].counted,
             NEW h \in Handlers, OrderOf(h) = o, "count" \in did'[h]
      PROVE  "count" \in did[h]
  <2>1. SUFFICES ASSUME "count" \notin did[h] PROVE FALSE
    OBVIOUS
  <2>2. pc[h] = "count"
    BY <1>1, <2>1, NextAllowed DEF Allowed, Does
  <2>3. ~seen[h].counted
    BY <1>1, <2>2 DEF GuardInv, GuardOK
  <2>4. h \in Acting(o)
    BY <1>1, <2>2 DEF Acting, Resting
  <2>5. QED
    BY <1>1, <2>3, <2>4
<1>2. TypeOK /\ GuardInv /\ [Next]_vars =>
        [\A o \in Orders :
            /\ orders[o].counted /\ InitialGateway[o] # "bumpa"
            => /\ faults = 0 => orders'[o].counted
               /\ (\A g \in Acting(o) : seen[g].counted) =>
                     \A h \in Handlers : OrderOf(h) = o =>
                        ("count" \in did'[h] => "count" \in did[h])]_vars
  BY <1>1, CountKept
<1>3. QED
  BY <1>2, TypeCorrect, GuardsHold, PTL DEF Spec, CountedStaysCounted

----------------------------------------------------------------------------
(***************************************************************************)
(* Sums.  SumFunctionOnSet folds over a finite set, an element at a time.  *)
(* What it computes is shown by the least subset on which it would not:    *)
(* the sum of w over s is the number of elements of Pile(w, s), which has  *)
(* w[x] of them for each x.                                                *)
(***************************************************************************)

Some(s) == CHOOSE x \in s : TRUE
Pile(w, s) == {p \in s \X Nat : p[2] \in 1..w[p[1]]}

\* The fold behind SumFunctionOnSet.
IsFold(w, S, it) ==
    it = [s \in SUBSET S |-> IF s = {} THEN 0 ELSE w[Some(s)] + it[s \ {Some(s)}]]

LEMMA SumIsFold ==
    ASSUME NEW w, NEW S
    PROVE  SumFunctionOnSet(w, S) = (CHOOSE it : IsFold(w, S, it))[S]
  BY DEF SumFunctionOnSet, FoldFunctionOnSet, MapThenFoldSet, IsFold, Some

\* Induction over the subsets of a finite set: G holds the good ones.
LEMMA SubsetInduction ==
    ASSUME NEW S, IsFiniteSet(S), NEW G, {} \in G,
           \A s \in SUBSET S : s # {} /\ s \ {Some(s)} \in G => s \in G
    PROVE  SUBSET S \subseteq G
<1> DEFINE Bad == {s \in SUBSET S : s \notin G}
<1>1. SUFFICES ASSUME Bad # {} PROVE FALSE
  OBVIOUS
<1>2. Bad \subseteq FiniteSubsetsOf(S)
  BY FS_FiniteSubsetsOfFinite
<1>3. PICK s \in Bad : \A t \in Bad : ~(<<t, s>> \in StrictSubsetOrdering(S))
  <2> HIDE DEF Bad
  <2>1. IsWellFoundedOn(StrictSubsetOrdering(S), FiniteSubsetsOf(S))
    BY FS_StrictSubsetOrderingWellFounded
  <2>2. QED
    BY <1>1, <1>2, <2>1, WFMin
<1>4. s # {} /\ s \ {Some(s)} \notin G
  OBVIOUS
<1>5. Some(s) \in s
  BY <1>4 DEF Some
<1>6. s \ {Some(s)} \in Bad
  BY <1>4
<1>7. <<s \ {Some(s)}, s>> \in StrictSubsetOrdering(S)
  BY <1>5 DEF StrictSubsetOrdering
<1>8. QED
  BY <1>3, <1>6, <1>7

\* One element's part of the pile.
LEMMA PileGrows ==
    ASSUME NEW s, NEW w, NEW x \in s, w[x] \in Nat
    PROVE  /\ Pile(w, s) = Pile(w, s \ {x}) \union ({x} \X (1..w[x]))
           /\ Pile(w, s \ {x}) \intersect ({x} \X (1..w[x])) = {}
           /\ IsFiniteSet({x} \X (1..w[x])) /\ Cardinality({x} \X (1..w[x])) = w[x]
<1>1. Pile(w, s) = Pile(w, s \ {x}) \union ({x} \X (1..w[x]))
  BY DEF Pile
<1>2. Pile(w, s \ {x}) \intersect ({x} \X (1..w[x])) = {}
  BY DEF Pile
<1>3. PICK n \in Nat : n = w[x]
  OBVIOUS
<1>4. IsFiniteSet(1..n) /\ Cardinality(1..n) = n
  BY FS_Interval
<1>5. IsFiniteSet({x}) /\ Cardinality({x}) = 1
  BY FS_Singleton
<1>6. IsFiniteSet({x} \X (1..n)) /\ Cardinality({x} \X (1..n)) = 1 * n
  BY <1>4, <1>5, FS_Product
<1>7. IsFiniteSet({x} \X (1..w[x])) /\ Cardinality({x} \X (1..w[x])) = w[x]
  BY <1>3, <1>6
<1>8. QED
  BY <1>1, <1>2, <1>7

LEMMA PileFinite ==
    ASSUME NEW S, IsFiniteSet(S), NEW w, \A x \in S : w[x] \in Nat
    PROVE  \A s \in SUBSET S : IsFiniteSet(Pile(w, s))
<1> DEFINE G == {s \in SUBSET S : IsFiniteSet(Pile(w, s))}
<1>1. {} \in G
  <2>1. Pile(w, {}) = {}
    BY DEF Pile
  <2>2. QED
    BY <2>1, FS_EmptySet
<1>2. ASSUME NEW s \in SUBSET S, s # {}, s \ {Some(s)} \in G
      PROVE  s \in G
  <2>1. Some(s) \in s /\ w[Some(s)] \in Nat
    BY <1>2 DEF Some
  <2>2. IsFiniteSet(Pile(w, s \ {Some(s)}))
    BY <1>2
  <2>3. /\ Pile(w, s) = Pile(w, s \ {Some(s)}) \union ({Some(s)} \X (1..w[Some(s)]))
        /\ IsFiniteSet({Some(s)} \X (1..w[Some(s)]))
    BY <2>1, PileGrows
  <2> DEFINE A == Pile(w, s \ {Some(s)})
             B == {Some(s)} \X (1..w[Some(s)])
  <2>4. IsFiniteSet(A) /\ IsFiniteSet(B) /\ Pile(w, s) = A \union B
    BY <2>2, <2>3
  <2> HIDE DEF A, B
  <2>5. IsFiniteSet(Pile(w, s))
    BY <2>4, FS_Union
  <2>6. QED
    BY <2>5
<1> HIDE DEF G
<1>3. SUBSET S \subseteq G
  BY <1>1, <1>2, SubsetInduction
<1>4. QED
  BY <1>3 DEF G

LEMMA PileStep ==
    ASSUME NEW S, IsFiniteSet(S), NEW w, \A x \in S : w[x] \in Nat,
           NEW s \in SUBSET S, NEW x \in s
    PROVE  /\ Cardinality(Pile(w, s \ {x})) \in Nat
           /\ Cardinality(Pile(w, s)) = w[x] + Cardinality(Pile(w, s \ {x}))
<1>1. w[x] \in Nat /\ s \ {x} \in SUBSET S
  OBVIOUS
<1>2. IsFiniteSet(Pile(w, s \ {x}))
  BY <1>1, PileFinite
<1>3. Cardinality(Pile(w, s \ {x})) \in Nat
  BY <1>2, FS_CardinalityType
<1> DEFINE A == Pile(w, s \ {x})
           B == {x} \X (1..w[x])
<1>4. Pile(w, s) = A \union B /\ A \intersect B = {} /\ IsFiniteSet(B) /\ Cardinality(B) = w[x]
  BY <1>1, PileGrows
<1> HIDE DEF A, B
<1>5. Cardinality(A \union B) = Cardinality(A) + Cardinality(B) - Cardinality(A \intersect B)
  BY <1>2, <1>4, FS_Union DEF A
<1>6. Cardinality(A \intersect B) = 0
  BY <1>4, FS_EmptySet
<1>7. QED
  BY <1>1, <1>3, <1>4, <1>5, <1>6 DEF A

\* The sum is the size of the pile.
LEMMA SumIsPile ==
    ASSUME NEW S, IsFiniteSet(S), NEW w, \A x \in S : w[x] \in Nat
    PROVE  SumFunctionOnSet(w, S) = Cardinality(Pile(w, S))
<1> DEFINE it0 == [s \in SUBSET S |-> Cardinality(Pile(w, s))]
           it == CHOOSE f : IsFold(w, S, f)
<1>1. Cardinality(Pile(w, {})) = 0
  <2>1. Pile(w, {}) = {}
    BY DEF Pile
  <2>2. QED
    BY <2>1, FS_EmptySet
<1>2. IsFold(w, S, it0)
  <2>1. ASSUME NEW s \in SUBSET S, s # {}
        PROVE  it0[s] = w[Some(s)] + it0[s \ {Some(s)}]
    <3>1. Some(s) \in s /\ s \ {Some(s)} \in SUBSET S
      BY <2>1 DEF Some
    <3>2. QED
      BY <3>1, PileStep
  <2>2. it0[{}] = 0
    BY <1>1
  <2>3. it0 = [s \in SUBSET S |-> it0[s]]
    OBVIOUS
  <2> HIDE DEF it0
  <2>4. [s \in SUBSET S |-> it0[s]]
          = [s \in SUBSET S |-> IF s = {} THEN 0 ELSE w[Some(s)] + it0[s \ {Some(s)}]]
    BY <2>1, <2>2
  <2>5. QED
    BY <2>3, <2>4 DEF IsFold
<1>3. IsFold(w, S, it)
  <2> HIDE DEF it0
  <2>1. QED
    BY <1>2
<1> DEFINE G == {s \in SUBSET S : it[s] = Cardinality(Pile(w, s))}
<1> HIDE DEF it
<1>4. {} \in G
  BY <1>1, <1>3 DEF IsFold
<1>5. ASSUME NEW s \in SUBSET S, s # {}, s \ {Some(s)} \in G
      PROVE  s \in G
  <2>1. Some(s) \in s
    BY <1>5 DEF Some
  <2>2. it[s] = w[Some(s)] + it[s \ {Some(s)}]
    BY <1>3, <1>5 DEF IsFold
  <2>3. Cardinality(Pile(w, s)) = w[Some(s)] + Cardinality(Pile(w, s \ {Some(s)}))
    BY <2>1, PileStep
  <2>4. QED
    BY <1>5, <2>2, <2>3
<1> HIDE DEF G
<1>6. SUBSET S \subseteq G
  BY <1>4, <1>5, SubsetInduction
<1>7. S \in G
  BY <1>6
<1>8. it[S] = Cardinality(Pile(w, S))
  BY <1>7 DEF G
<1>9. QED
  BY <1>8, SumIsFold DEF it

\* What the sums below need: their type, one summand taken out, and growth.
LEMMA SumType ==
    ASSUME NEW S, IsFiniteSet(S), NEW w, \A x \in S : w[x] \in Nat
    PROVE  SumFunctionOnSet(w, S) \in Nat
<1>1. IsFiniteSet(Pile(w, S))
  BY PileFinite
<1>2. QED
  BY <1>1, SumIsPile, FS_CardinalityType

LEMMA SumSplit ==
    ASSUME NEW S, IsFiniteSet(S), NEW w, \A x \in S : w[x] \in Nat, NEW x \in S
    PROVE  SumFunctionOnSet(w, S) = w[x] + SumFunctionOnSet(w, S \ {x})
<1>1. IsFiniteSet(S \ {x}) /\ \A y \in S \ {x} : w[y] \in Nat
  BY FS_RemoveElement
<1>2. SumFunctionOnSet(w, S \ {x}) = Cardinality(Pile(w, S \ {x}))
  BY <1>1, SumIsPile
<1>3. Cardinality(Pile(w, S)) = w[x] + Cardinality(Pile(w, S \ {x}))
  BY PileStep
<1>4. QED
  BY <1>2, <1>3, SumIsPile

LEMMA SumMonotone ==
    ASSUME NEW S, IsFiniteSet(S), NEW v, NEW w,
           \A x \in S : v[x] \in Nat /\ w[x] \in Nat /\ v[x] <= w[x]
    PROVE  SumFunctionOnSet(v, S) <= SumFunctionOnSet(w, S)
<1>1. Pile(v, S) \subseteq Pile(w, S)
  <2>1. ASSUME NEW x \in S, NEW n \in 1..v[x]
        PROVE  n \in 1..w[x]
    OBVIOUS
  <2>2. QED
    BY <2>1 DEF Pile
<1>2. IsFiniteSet(Pile(w, S))
  BY PileFinite
<1>3. Cardinality(Pile(v, S)) <= Cardinality(Pile(w, S))
  BY <1>1, <1>2, FS_Subset
<1>4. QED
  BY <1>3, SumIsPile

----------------------------------------------------------------------------

\* What a slot has taken is a quantity, and grows.
LEMMA TakenGrows ==
    ASSUME TypeOK, TypeOK', SettlementInv, [Next]_vars, NEW u \in Units, NEW h \in Handlers
    PROVE  /\ Taken(u)[h] = TakenBy(h, u) /\ Taken(u)[h] \in Nat
           /\ Taken(u)'[h] = TakenBy(h, u)' /\ Taken(u)'[h] \in Nat
           /\ Taken(u)[h] <= Taken(u)'[h]
<1>1. OrderOf(h) \in Orders /\ OrderOf(h)' \in Orders
  BY LinkTypes DEF TypeOK, OrderOf
<1>2. Lines[OrderOf(h)][u] \in Nat /\ Lines[OrderOf(h)'][u] \in Nat
  BY <1>1, OrderAssumption
<1>3. TakenBy(h, u) \in Nat /\ TakenBy(h, u)' \in Nat
  BY <1>2 DEF TakenBy
<1>4. TakenBy(h, u) <= TakenBy(h, u)'
  <2>1. CASE pc[h] = "idle"
    <3>1. did[h] = {}
      BY <2>1 DEF SettlementInv, HandlerOK
    <3>2. TakenBy(h, u) = 0
      BY <3>1 DEF TakenBy
    <3>3. QED
      BY <1>3, <3>2
  <2>2. CASE pc[h] # "idle"
    <3>1. OrderOf(h)' = OrderOf(h)
      BY <2>2, RequestKept DEF OrderOf
    <3>2. did[h] \subseteq did'[h]
      BY DidGrows
    <3>3. {"count", "spill"} \intersect did[h] # {} => {"count", "spill"} \intersect did'[h] # {}
      BY <3>2
    <3>4. TakenBy(h, u) \in {0, TakenBy(h, u)'}
      BY <3>1, <3>3 DEF TakenBy
    <3>5. QED
      BY <1>3, <3>4
  <2>3. QED
    BY <2>1, <2>2
<1>5. Taken(u)[h] = TakenBy(h, u) /\ Taken(u)'[h] = TakenBy(h, u)'
  BY DEF Taken
<1>6. QED
  BY <1>3, <1>4, <1>5

LEMMA SumGrows ==
    ASSUME TypeOK, TypeOK', SettlementInv, [Next]_vars, NEW u \in Units,
           NEW S \in SUBSET Handlers
    PROVE  /\ SumFunctionOnSet(Taken(u), S) \in Nat
           /\ SumFunctionOnSet(Taken(u)', S) \in Nat
           /\ SumFunctionOnSet(Taken(u), S) <= SumFunctionOnSet(Taken(u)', S)
<1>1. IsFiniteSet(S)
  BY SlotAssumption, FS_Subset
<1>2. \A h \in S : /\ Taken(u)[h] \in Nat /\ Taken(u)'[h] \in Nat
                   /\ Taken(u)[h] <= Taken(u)'[h]
  BY TakenGrows
<1>3. QED
  BY <1>1, <1>2, SumType, SumMonotone

\* One slot's share of the whole sum, now and after the step.
LEMMA SumShare ==
    ASSUME TypeOK, TypeOK', SettlementInv, [Next]_vars, NEW u \in Units, NEW h \in Handlers
    PROVE  /\ SumFunctionOnSet(Taken(u), Handlers)
                = Taken(u)[h] + SumFunctionOnSet(Taken(u), Handlers \ {h})
           /\ SumFunctionOnSet(Taken(u)', Handlers)
                = Taken(u)'[h] + SumFunctionOnSet(Taken(u)', Handlers \ {h})
<1>1. IsFiniteSet(Handlers)
  BY SlotAssumption
<1>2. \A g \in Handlers : Taken(u)[g] \in Nat /\ Taken(u)'[g] \in Nat
  BY TakenGrows
<1>3. QED
  BY <1>1, <1>2, SumSplit

Early == {"idle", "verify", "refresh", "commit", "receipt", "finalize", "stock", "count", "link"}

\* SpentOK of one slot.
LEMMA SpentKept ==
    ASSUME TypeOK, NEW h \in Handlers, SpentOK(h),
           {"count", "spill"} \intersect did'[h] \subseteq did[h],
           pc'[h] \in Early => pc[h] \in Early,
           dirty'[h] # {} => dirty[h] # {} \/ pc[h] \in Early
    PROVE  SpentOK(h)'
  BY DEF SpentOK, Early

LEMMA SpentStep ==
    ASSUME TypeOK, NEW h \in Handlers, SpentOK(h), Step(h)
    PROVE  SpentOK(h)'
<1>a. AfterStock(h) \in {"alert", "push", "digital", "settle"}
  BY DEF AfterStock, FirstGroup
<1>b. ASSUME NEW e \in {"log", "receipt", "finalize", "push", "digital", "alert"}, NEW s,
             Attempt(h, e, s)
      PROVE  {"count", "spill"} \intersect did'[h] \subseteq did[h] /\ pc'[h] = s
  BY <1>b DEF Attempt, Move, TypeOK
<1>1. CASE VerifySucceeds(h) \/ VerifyFails(h) \/ RelinkFails(h)
  BY <1>1, SpentKept DEF VerifySucceeds, VerifyFails, RelinkFails, Move, TypeOK, locals, Early
<1>2. CASE Refresh(h) \/ Relink(h)
  BY <1>2, SpentKept DEF Refresh, Relink, Move, TypeOK, locals, Early
<1>3. CASE Commit(h)
  <2>1. {"count", "spill"} \intersect did'[h] \subseteq did[h]
    BY <1>3 DEF Commit, TypeOK
  <2>2. QED
    BY <1>3, <2>1, SpentKept DEF Commit, locals, Early
<1>4. CASE Receipt(h)
  <2>1. PICK s : Attempt(h, "receipt", s)
    BY <1>4 DEF Receipt
  <2>2. QED
    BY <1>4, <1>b, <2>1, SpentKept DEF Receipt, locals, Early
<1>5. CASE Finalize(h)
  BY <1>5, <1>b, SpentKept DEF Finalize, locals, Early
<1>6. CASE StockStarts(h)
  BY <1>6, SpentKept DEF StockStarts, locals, Early
<1>7. ASSUME NEW u \in Units, StockRead(h, u)
      PROVE  SpentOK(h)'
  BY <1>7, SpentKept DEF StockRead, Early
<1>8. CASE StockCommit(h)
  <2>1. pc'[h] = AfterStock(h) /\ dirty'[h] = {}
    BY <1>8 DEF StockCommit, Attempt, Move, FlushStock, TypeOK
  <2>2. QED
    BY <1>a, <2>1 DEF SpentOK
<1>9. CASE Settle(h)
  <2>1. pc'[h] = "alert" /\ dirty'[h] = {}
    BY <1>9 DEF Settle, Move, FlushStock, TypeOK
  <2>2. QED
    BY <2>1 DEF SpentOK
<1>10. CASE Push(h)
  <2>1. PICK s \in {"digital", "settle"} : Attempt(h, "push", s)
    BY <1>10 DEF Push
  <2>2. QED
    BY <1>10, <1>b, <2>1, SpentKept DEF Push, Early
<1>11. CASE Digital(h)
  <2>1. pc'[h] = "settle" /\ {"count", "spill"} \intersect did'[h] \subseteq did[h]
    BY <1>11, <1>b DEF Digital, Move, TypeOK
  <2>2. QED
    BY <1>11, <2>1, SpentKept DEF Digital, Early
<1>12. CASE Alert(h)
  BY <1>12, <1>b, SpentKept DEF Alert, locals, Early
<1>13. QED
  BY <1>1, <1>2, <1>3, <1>4, <1>5, <1>6, <1>7, <1>8, <1>9, <1>10, <1>11, <1>12
     DEF Step

\* A step of slot h leaves the other slots' memory alone.
LEMMA StepLocal ==
    ASSUME TypeOK, NEW h \in Handlers, Step(h), NEW g \in Handlers, g # h
    PROVE  /\ pc'[g] = pc[g] /\ did'[g] = did[g]
           /\ dirty'[g] = dirty[g] /\ shelf'[g] = shelf[g]
<1>1. did'[g] = did[g]
  BY StepAllowed
<1>2. pc'[g] = pc[g]
  BY DEF Step, VerifySucceeds, VerifyFails, Refresh, Commit, Receipt, Finalize, StockStarts,
         StockCommit, StockRead, Push, Digital, Settle, Alert, Relink, RelinkFails, Attempt,
         Move, TypeOK
<1>3. dirty'[g] = dirty[g] /\ shelf'[g] = shelf[g]
  <2>1. CASE UNCHANGED <<dirty, shelf>>
    BY <2>1
  <2>2. CASE FlushStock(h)
    BY <2>2 DEF FlushStock, TypeOK
  <2>3. ASSUME NEW u \in Units, StockRead(h, u)
        PROVE  dirty'[g] = dirty[g] /\ shelf'[g] = shelf[g]
    BY <2>3 DEF StockRead, TypeOK
  <2>4. QED
    BY <2>1, <2>2, <2>3 DEF Step, VerifySucceeds, VerifyFails, Refresh, Commit, Receipt,
         Finalize, StockStarts, StockCommit, Push, Digital, Settle, Alert, Relink,
         RelinkFails, locals
<1>4. QED
  BY <1>1, <1>2, <1>3

LEMMA SpentNext ==
    ASSUME TypeOK, [Next]_vars, NEW h \in Handlers, SpentOK(h)
    PROVE  SpentOK(h)'
<1>1. ASSUME NEW g \in Handlers, Step(g)
      PROVE  SpentOK(h)'
  <2>1. CASE g = h
    BY <1>1, <2>1, SpentStep
  <2>2. CASE g # h
    BY <1>1, <2>2, StepLocal DEF SpentOK
  <2>3. QED
    BY <2>1, <2>2
<1>2. ASSUME NEW g \in Handlers, Arrive(g)
      PROVE  SpentOK(h)'
  <2>1. PICK k, r, s : Serve(g, k, r, s)
    BY <1>2 DEF Arrive, HookArrives, PlainArrives, CallbackArrives, ManualArrives, RelinkArrives
  <2>2. QED
    BY <2>1, SpentKept DEF Serve, TypeOK, Early
<1>3. ASSUME NEW g \in Handlers, StockFails(g)
      PROVE  SpentOK(h)'
  <2>1. AfterStock(g) \in {"alert", "push", "digital", "settle"}
    BY DEF AfterStock, FirstGroup
  <2>2. QED
    BY <1>3, <2>1, SpentKept DEF StockFails, Move, TypeOK, Early, locals
<1>8. ASSUME NEW g \in Handlers, DigitalFails(g)
      PROVE  SpentOK(h)'
  <2>1. {"count", "spill"} \intersect did'[h] \subseteq did[h] /\ dirty' = dirty
    BY <1>8 DEF DigitalFails, Attempt, TypeOK
  <2>2. QED
    BY <1>8, <2>1, SpentKept DEF DigitalFails, Attempt, Move, TypeOK, Early
<1>4. ASSUME NEW g \in Handlers, CommitFails(g)
      PROVE  SpentOK(h)'
  BY <1>4, SpentKept DEF CommitFails, Move, TypeOK, Early, locals
<1>5. CASE Crash
  BY <1>5, SpentKept DEF Crash, TypeOK, Early, locals
<1>6. CASE (\E l \in links : Charge(l)) \/ UNCHANGED vars
  BY <1>6, SpentKept DEF Charge, vars, locals
<1>7. QED
  BY <1>1, <1>2, <1>3, <1>4, <1>5, <1>6, <1>8 DEF Next

\* The books are kept by a step that neither loads nor writes stock ...
LEMMA BooksKept ==
    ASSUME TypeOK, TypeOK', SettlementInv, StockInv, [Next]_vars, NEW u \in Units
    PROVE  /\ stock'[u] = stock[u] =>
                InitialStock[u] - stock'[u] <= SumFunctionOnSet(Taken(u)', Handlers)
           /\ \A h \in Handlers :
                u \in dirty[h] /\ shelf'[h][u] = shelf[h][u] =>
                InitialStock[u] - shelf'[h][u] <= SumFunctionOnSet(Taken(u)', Handlers \ {h})
<1>1. InitialStock[u] \in Nat /\ stock[u] \in Nat
  BY OrderAssumption DEF TypeOK
<1>2. InitialStock[u] - stock[u] <= SumFunctionOnSet(Taken(u), Handlers)
  BY DEF StockInv, StockIsNotOverdrawn
<1>3. /\ SumFunctionOnSet(Taken(u), Handlers) \in Nat
      /\ SumFunctionOnSet(Taken(u)', Handlers) \in Nat
      /\ SumFunctionOnSet(Taken(u), Handlers) <= SumFunctionOnSet(Taken(u)', Handlers)
  BY SumGrows
<1>4. ASSUME NEW h \in Handlers, u \in dirty[h], shelf'[h][u] = shelf[h][u]
      PROVE  InitialStock[u] - shelf'[h][u] <= SumFunctionOnSet(Taken(u)', Handlers \ {h})
  <2>1. InitialStock[u] - shelf[h][u] <= SumFunctionOnSet(Taken(u), Handlers \ {h})
    BY <1>4 DEF StockInv
  <2>2. /\ SumFunctionOnSet(Taken(u), Handlers \ {h}) \in Nat
        /\ SumFunctionOnSet(Taken(u)', Handlers \ {h}) \in Nat
        /\ SumFunctionOnSet(Taken(u), Handlers \ {h})
             <= SumFunctionOnSet(Taken(u)', Handlers \ {h})
    BY SumGrows
  <2>3. shelf[h][u] \in Nat
    BY DEF TypeOK
  <2>4. QED
    BY <1>1, <1>4, <2>1, <2>2, <2>3
<1>5. QED
  BY <1>1, <1>2, <1>3, <1>4

\* ... by one that loads it: the slot that loads has taken nothing yet ...
LEMMA BooksRead ==
    ASSUME TypeOK, TypeOK', SettlementInv, StockInv, [Next]_vars,
           NEW h \in Handlers, NEW u \in Units, StockRead(h, u)
    PROVE  InitialStock[u] - shelf'[h][u] <= SumFunctionOnSet(Taken(u)', Handlers \ {h})
<1>1. shelf'[h][u] = stock[u]
  BY DEF StockRead, TypeOK
<1>2. {"count", "spill"} \intersect did[h] = {}
  BY DEF StockRead, StockInv, SpentOK
<1>3. Taken(u)[h] = 0
  BY <1>2 DEF Taken, TakenBy
<1>4. /\ SumFunctionOnSet(Taken(u), Handlers)
           = Taken(u)[h] + SumFunctionOnSet(Taken(u), Handlers \ {h})
      /\ SumFunctionOnSet(Taken(u), Handlers \ {h}) \in Nat
      /\ SumFunctionOnSet(Taken(u)', Handlers \ {h}) \in Nat
      /\ SumFunctionOnSet(Taken(u), Handlers \ {h})
           <= SumFunctionOnSet(Taken(u)', Handlers \ {h})
  BY SumGrows, SumShare
<1>5. InitialStock[u] - stock[u] <= SumFunctionOnSet(Taken(u), Handlers)
  BY DEF StockInv, StockIsNotOverdrawn
<1>6. InitialStock[u] \in Nat /\ stock[u] \in Nat
  BY OrderAssumption DEF TypeOK
<1>7. QED
  BY <1>1, <1>3, <1>4, <1>5, <1>6

\* ... and by one that writes it: the slot has taken its own lines with this step.
LEMMA BooksWritten ==
    ASSUME TypeOK, TypeOK', SettlementInv, StockInv, [Next]_vars,
           NEW h \in Handlers, FlushStock(h), req'[h] = req[h], NEW u \in dirty[h],
           {"count", "spill"} \intersect did'[h] # {}
    PROVE  InitialStock[u] - stock'[u] <= SumFunctionOnSet(Taken(u)', Handlers)
<1>0. u \in Units
  BY DEF TypeOK
<1>1. CASE stock'[u] = stock[u]
  BY <1>0, <1>1, BooksKept
<1>2. CASE stock'[u] = LeftOver(h, u)
  <2>1. InitialStock[u] - shelf[h][u] <= SumFunctionOnSet(Taken(u), Handlers \ {h})
    BY DEF StockInv
  <2>2. /\ SumFunctionOnSet(Taken(u)', Handlers)
             = Taken(u)'[h] + SumFunctionOnSet(Taken(u)', Handlers \ {h})
        /\ SumFunctionOnSet(Taken(u), Handlers \ {h}) \in Nat
        /\ SumFunctionOnSet(Taken(u)', Handlers \ {h}) \in Nat
        /\ SumFunctionOnSet(Taken(u), Handlers \ {h})
             <= SumFunctionOnSet(Taken(u)', Handlers \ {h})
    BY <1>0, SumGrows, SumShare
  <2>3. Taken(u)'[h] = Lines[OrderOf(h)][u]
    BY DEF Taken, TakenBy, OrderOf
  <2>4. PICK q \in Nat : q = Lines[OrderOf(h)][u]
    <3>1. OrderOf(h) \in Orders
      BY LinkTypes DEF TypeOK, OrderOf
    <3>2. QED
      BY <1>0, <3>1, OrderAssumption
  <2>5. PICK s \in Nat : s = shelf[h][u]
    BY <1>0 DEF TypeOK
  <2>6. LeftOver(h, u) = IF s > q THEN s - q ELSE 0
    BY <2>4, <2>5 DEF LeftOver
  <2>7. InitialStock[u] \in Nat
    BY <1>0, OrderAssumption
  <2>8. QED
    BY <1>2, <2>1, <2>2, <2>3, <2>4, <2>5, <2>6, <2>7
<1>3. QED
  BY <1>0, <1>1, <1>2 DEF FlushStock, Kept

LEMMA StockFlushed ==
    ASSUME TypeOK, TypeOK', SettlementInv, StockInv, [Next]_vars,
           NEW h \in Handlers, FlushStock(h), req'[h] = req[h],
           dirty[h] # {} => {"count", "spill"} \intersect did'[h] # {}
    PROVE  StockInv'
<1>1. ASSUME NEW u \in Units
      PROVE  InitialStock[u] - stock'[u] <= SumFunctionOnSet(Taken(u)', Handlers)
  <2>1. CASE u \in dirty[h]
    BY <2>1, BooksWritten
  <2>2. CASE u \notin dirty[h]
    <3>1. stock'[u] = stock[u]
      BY <2>2 DEF FlushStock
    <3>2. QED
      BY <3>1, BooksKept
  <2>3. QED
    BY <2>1, <2>2
<1>2. \A g \in Handlers : SpentOK(g)'
  BY SpentNext DEF StockInv
<1>3. ASSUME NEW g \in Handlers, NEW u \in dirty'[g]
      PROVE  InitialStock[u] - shelf'[g][u] <= SumFunctionOnSet(Taken(u)', Handlers \ {g})
  <2>1. g # h /\ u \in dirty[g] /\ shelf'[g] = shelf[g]
    BY <1>3 DEF FlushStock, TypeOK
  <2>2. u \in Units
    BY <2>1 DEF TypeOK
  <2>3. QED
    BY <2>1, <2>2, BooksKept
<1>4. QED
  BY <1>1, <1>2, <1>3 DEF StockInv, StockIsNotOverdrawn

LEMMA StockUntouched ==
    ASSUME TypeOK, TypeOK', SettlementInv, StockInv, [Next]_vars, UNCHANGED <<stock, dirty, shelf>>
    PROVE  StockInv'
<1>1. \A u \in Units : InitialStock[u] - stock'[u] <= SumFunctionOnSet(Taken(u)', Handlers)
  BY BooksKept
<1>2. \A g \in Handlers : SpentOK(g)'
  BY SpentNext DEF StockInv
<1>3. ASSUME NEW g \in Handlers, NEW u \in dirty'[g]
      PROVE  InitialStock[u] - shelf'[g][u] <= SumFunctionOnSet(Taken(u)', Handlers \ {g})
  <2>1. u \in Units /\ u \in dirty[g] /\ shelf'[g][u] = shelf[g][u]
    BY <1>3 DEF TypeOK
  <2>2. QED
    BY <2>1, BooksKept
<1>4. QED
  BY <1>1, <1>2, <1>3 DEF StockInv, StockIsNotOverdrawn

LEMMA StockLoaded ==
    ASSUME TypeOK, TypeOK', SettlementInv, StockInv, [Next]_vars,
           NEW h \in Handlers, NEW v \in Units, StockRead(h, v)
    PROVE  StockInv'
<1>1. \A u \in Units : InitialStock[u] - stock'[u] <= SumFunctionOnSet(Taken(u)', Handlers)
  BY BooksKept DEF StockRead, db
<1>2. \A g \in Handlers : SpentOK(g)'
  BY SpentNext DEF StockInv
<1>3. ASSUME NEW g \in Handlers, NEW u \in dirty'[g]
      PROVE  InitialStock[u] - shelf'[g][u] <= SumFunctionOnSet(Taken(u)', Handlers \ {g})
  <2>1. CASE g = h /\ u = v
    BY <2>1, BooksRead
  <2>2. CASE ~(g = h /\ u = v)
    <3>1. u \in dirty[g] /\ u \in Units
      BY <1>3, <2>2 DEF StockRead, TypeOK
    <3>2. shelf'[g][u] = shelf[g][u]
      BY <2>2, <3>1 DEF StockRead, TypeOK
    <3>3. QED
      BY <3>1, <3>2, BooksKept
  <2>3. QED
    BY <2>1, <2>2
<1>4. QED
  BY <1>1, <1>2, <1>3 DEF StockInv, StockIsNotOverdrawn

LEMMA StockNext == TypeOK /\ TypeOK' /\ SettlementInv /\ StockInv /\ [Next]_vars => StockInv'
<1> SUFFICES ASSUME TypeOK, TypeOK', SettlementInv, StockInv, [Next]_vars PROVE StockInv'
  OBVIOUS
<1>1. CASE UNCHANGED <<stock, dirty, shelf>>
  BY <1>1, StockUntouched
<1>2. ASSUME NEW h \in Handlers, StockCommit(h)
      PROVE  StockInv'
  <2>1. FlushStock(h) /\ req'[h] = req[h] /\ "count" \in did'[h]
    BY <1>2 DEF StockCommit, Attempt, TypeOK
  <2>2. QED
    BY <2>1, StockFlushed
<1>3. ASSUME NEW h \in Handlers, Settle(h)
      PROVE  StockInv'
  <2>1. FlushStock(h) /\ req'[h] = req[h] /\ (dirty[h] # {} => "spill" \in did'[h])
    BY <1>3 DEF Settle, TypeOK
  <2>2. QED
    BY <2>1, StockFlushed
<1>4. ASSUME NEW h \in Handlers, NEW u \in Units, StockRead(h, u)
      PROVE  StockInv'
  BY <1>4, StockLoaded
<1>5. ASSUME NEW h \in Handlers, Arrive(h)
      PROVE  UNCHANGED <<stock, dirty, shelf>>
  BY <1>5 DEF Arrive, HookArrives, PlainArrives, CallbackArrives, ManualArrives,
              RelinkArrives, Serve, db
<1>6. ASSUME NEW h \in Handlers, Step(h)
      PROVE  StockInv'
  <2>1. CASE VerifySucceeds(h) \/ VerifyFails(h) \/ Refresh(h) \/ RelinkFails(h)
    BY <1>1, <2>1 DEF VerifySucceeds, VerifyFails, Refresh, RelinkFails, db, locals
  <2>2. CASE Receipt(h) \/ Finalize(h) \/ StockStarts(h) \/ Commit(h)
    BY <1>1, <2>2 DEF Receipt, Finalize, StockStarts, Commit, db, locals
  <2>3. CASE Push(h) \/ Digital(h) \/ Alert(h) \/ Relink(h)
    BY <1>1, <2>3 DEF Push, Digital, Alert, Relink, db, locals
  <2>4. QED
    BY <1>2, <1>3, <1>4, <1>6, <2>1, <2>2, <2>3 DEF Step
<1>7. ASSUME NEW h \in Handlers, StockFails(h) \/ DigitalFails(h) \/ CommitFails(h)
      PROVE  UNCHANGED <<stock, dirty, shelf>>
  BY <1>7 DEF StockFails, DigitalFails, CommitFails, db, locals
<1>8. CASE (\E l \in links : Charge(l)) \/ Crash \/ UNCHANGED vars
  BY <1>1, <1>8 DEF Charge, Crash, vars, db, locals
<1>9. QED
  BY <1>1, <1>5, <1>6, <1>7, <1>8 DEF Next

LEMMA StockInit == Init => StockInv
<1> SUFFICES ASSUME Init PROVE StockInv
  OBVIOUS
<1>1. ASSUME NEW u \in Units
      PROVE  InitialStock[u] - stock[u] <= SumFunctionOnSet(Taken(u), Handlers)
  <2>1. \A h \in Handlers : Taken(u)[h] = 0
    BY DEF Init, Taken, TakenBy
  <2>2. SumFunctionOnSet(Taken(u), Handlers) \in Nat
    BY <2>1, SlotAssumption, SumType
  <2>3. stock[u] = InitialStock[u] /\ InitialStock[u] \in Nat
    BY OrderAssumption DEF Init
  <2>4. QED
    BY <2>2, <2>3
<1>2. \A h \in Handlers : SpentOK(h) /\ dirty[h] = {}
  BY DEF Init, SpentOK
<1>3. QED
  BY <1>1, <1>2 DEF StockInv, StockIsNotOverdrawn

\* StockIsNotOverdrawn: what is missing from a unit is at most what the
\* handlers that wrote it had to take, whatever they overwrote on each other,
\* for any number of orders, units and requests.
THEOREM StockStaysInBooks == Spec => []StockIsNotOverdrawn
<1>1. StockInv => StockIsNotOverdrawn
  BY DEF StockInv
<1>2. QED
  BY <1>1, StockInit, StockNext, TypeCorrect, InvariantHolds, PTL DEF Spec

=============================================================================
