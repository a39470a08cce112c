------------------------- MODULE PaymentSettlement -------------------------
(***************************************************************************)
(* How a charge turns an order into a paid, counted, fulfilled order.      *)
(*                                                                         *)
(* Every request runs as a coroutine of one asyncio process with its own   *)
(* database session.  The session hands out in-memory rows (seen[h]); it   *)
(* never re-reads a row it holds, and a commit writes only the columns     *)
(* that differ from what was loaded.  Requests interleave at every await,  *)
(* so an action below is the code between two awaits.                      *)
(*                                                                         *)
(* Requests are carried by a finite set of slots, each used once; kind[h]  *)
(* says which handler the slot runs:                                       *)
(*   "hook"      the Paystack webhook                                      *)
(*   "callback"  the Paystack browser redirect                             *)
(*   "plain"     the Flutterwave, Monnify and Stripe webhooks              *)
(*   "manual"    the "I've Paid" button of the flow engine                 *)
(*   "relink"    the assistant's generate_payment_link tool                *)
(***************************************************************************)
EXTENDS Integers, FiniteSets, Functions

CONSTANTS
    Orders,          \* order rows, already created by checkout
    Units,           \* stock-tracked products or variants
    Handlers,        \* request slots, each serving one request
    Intents,         \* references of Bumpa payment intents
    Accepts,         \* Accepts[h]: the kinds of request slot h may serve
    Lines,           \* Lines[o][u]: quantity of unit u on order o (0: none)
    Groups,          \* Groups[o]: fulfilment groups of the order's items
    InitialGateway,  \* InitialGateway[o]: payment_gateway set at checkout
    InitialLinks,    \* payment links handed out at checkout
    InitialStock,    \* InitialStock[u]
    DefaultGateway,  \* settings.DEFAULT_PAYMENT_GATEWAY
    RelinkGateways,  \* gateways the assistant may ask for ("none": unset)
    Checked,         \* gateways whose webhooks check a signature before acting
    MaxFaults        \* bound on process crashes and failing database calls

Kinds == {"hook", "callback", "plain", "manual", "relink"}
PlainGateways == {"flutterwave", "monnify", "stripe"}
LinkGateways == PlainGateways \union {"paystack", "bumpa"}
GatewayColumn == LinkGateways \union {"none", "default"}
GroupNames == {"bumpa", "other", "digital", "service"}

\* A payment link, and the charge made through it.  The reference a gateway
\* reports back is the order's own reference, except for Bumpa, whose
\* payment intent has a reference of its own.
Links == [order: Orders, gateway: LinkGateways, intent: Intents \union {"own"}]
OwnLink(o, g) == [order |-> o, gateway |-> g, intent |-> "own"]
Requests ==
    [order: Orders, gateway: GatewayColumn, intent: Intents \union {"own"}]

\* Links a webhook event may speak of.  The events of a Bumpa link are
\* Paystack's, which makes the charge behind it.
Events == {l \in Links : l.gateway = "bumpa" <=> l.intent \in Intents}
Signer(l) == IF l.gateway = "bumpa" THEN "paystack" ELSE l.gateway

ASSUME SlotAssumption ==
    /\ IsFiniteSet(Handlers)
    /\ Accepts \in [Handlers -> SUBSET Kinds]
ASSUME OrderAssumption ==
    /\ Orders # {}
    /\ Lines \in [Orders -> [Units -> Nat]]
    /\ Groups \in [Orders -> SUBSET GroupNames]
    /\ InitialGateway \in [Orders -> {"none", "bumpa"} \union PlainGateways
                                      \union {"paystack"}]
    /\ InitialStock \in [Units -> Nat]
ASSUME GatewayAssumption ==
    /\ InitialLinks \subseteq Links
    /\ \A l \in InitialLinks : (l.gateway = "bumpa") <=> (l.intent \in Intents)
    /\ DefaultGateway \in PlainGateways \union {"paystack"}
    /\ RelinkGateways \subseteq PlainGateways \union {"none", "paystack"}
    /\ Checked \subseteq {"paystack", "flutterwave", "stripe"}
    /\ Intents \intersect {"own", "none", "txn"} = {}
ASSUME FaultAssumption == MaxFaults \in Nat

----------------------------------------------------------------------------

VARIABLES
    orders,   \* committed order rows
    stock,    \* committed stock_quantity of each unit
    listed,   \* committed in_stock flag of each unit
    links,    \* payment links a customer may hold
    charges,  \* links a customer has paid through
    pc,       \* where each slot's handler stands
    kind,     \* which handler it runs
    req,      \* what it was asked about
    seen,     \* its in-memory copy of the order row
    dirty,    \* units whose rows it has changed in memory only
    shelf,    \* the stock it loaded for them
    results,  \* outcomes of its fulfilment groups
    did,      \* external effects and log rows it has produced
    faults    \* crashes and database failures so far

db == <<orders, stock, listed>>
world == <<links, charges>>
locals == <<kind, req, dirty, shelf, results>>
vars == <<orders, stock, listed, links, charges, pc, kind, req, seen, dirty,
          shelf, results, did, faults>>

\* fulfillment_status values dispatch_order treats as already fulfilled
Fulfilled == {"dispatched", "delivered_digital"}
FulfilColumn == Fulfilled \union {"none", "failed", "manual"}
References == Intents \union {"none", "own", "txn"}

\* The columns of an order row that its handlers read or write; counted is
\* metadata_json["stock_decremented"].
OrderRows == [status: {"pending", "failed", "paid"}, gateway: GatewayColumn,
              payref: References, counted: BOOLEAN, fulfil: FulfilColumn]

Stages == {"idle", "verify", "refresh", "commit", "receipt", "finalize",
           "stock", "count", "push", "digital", "settle", "alert", "link", "done",
           "crashed"}
Resting == {"idle", "done", "crashed"}
Effects == {"log", "receipt", "finalize", "count", "spill", "push", "digital",
            "raised", "alert"}

TypeOK ==
    /\ orders \in [Orders -> OrderRows]
    /\ stock \in [Units -> Nat]
    /\ listed \in [Units -> BOOLEAN]
    /\ links \subseteq Links
    /\ charges \subseteq links
    /\ pc \in [Handlers -> Stages]
    /\ kind \in [Handlers -> Kinds]
    /\ req \in [Handlers -> Requests]
    /\ seen \in [Handlers -> OrderRows]
    /\ dirty \in [Handlers -> SUBSET Units]
    /\ shelf \in [Handlers -> [Units -> Nat]]
    /\ results \in [Handlers -> SUBSET {"dispatched", "delivered_digital", "failed"}]
    /\ did \in [Handlers -> SUBSET Effects]
    /\ faults \in Nat

Tracked(o) == {u \in Units : Lines[o][u] > 0}
OrderOf(h) == req[h].order
Charged(o) == \E c \in charges : c.order = o

\* A webhook took order o to be charged from an event of a gateway whose
\* events are not checked; Claimed: from that, or from a charge.
Trusted(o) ==
    \E h \in Handlers :
        /\ pc[h] # "idle" /\ kind[h] \in {"hook", "plain"}
        /\ OrderOf(h) = o /\ Signer(req[h]) \notin Checked
Claimed(o) == Charged(o) \/ Trusted(o)
Paid(o) == orders[o].status = "paid"

\* A commit writes a column only if the handler changed it in memory.
Kept(stored, loaded, new) == IF new = loaded THEN stored ELSE new
FlushedWhole(row, old, new) == new    \* mutant: the commit writes the whole row
Flushed(row, old, new) ==
    [status  |-> Kept(row.status, old.status, new.status),
     gateway |-> Kept(row.gateway, old.gateway, new.gateway),
     payref  |-> Kept(row.payref, old.payref, new.payref),
     counted |-> Kept(row.counted, old.counted, new.counted),
     fulfil  |-> Kept(row.fulfil, old.fulfil, new.fulfil)]

----------------------------------------------------------------------------

\* A Bumpa order waits for the reference of the payment intent behind its link.
InitialRef(o) ==
    LET refs == {l.intent : l \in {k \in InitialLinks : k.order = o /\ k.gateway = "bumpa"}}
    IN IF refs = {} THEN "none" ELSE CHOOSE r \in refs : TRUE
InitialRow(o, s) ==
    [status |-> s, gateway |-> InitialGateway[o], payref |-> InitialRef(o),
     counted |-> FALSE, fulfil |-> "none"]

\* What an idle slot holds; no handler reads it.
Blank == OwnLink(CHOOSE o \in Orders : TRUE, "paystack")

\* An order with a link is pending; without one it is pending (the assistant
\* has yet to make the link) or failed (checkout could not make it).
Init ==
    /\ \E s \in [Orders -> {"pending", "failed"}] :
         /\ \A l \in InitialLinks : s[l.order] = "pending"
         /\ orders = [o \in Orders |-> InitialRow(o, s[o])]
    /\ stock = InitialStock
    /\ listed = [u \in Units |-> InitialStock[u] > 0]
    /\ links = InitialLinks
    /\ charges = {}
    /\ pc = [h \in Handlers |-> "idle"]
    /\ kind = [h \in Handlers |-> "hook"]
    /\ req = [h \in Handlers |-> Blank]
    /\ seen = [h \in Handlers |-> InitialRow(Blank.order, "pending")]
    /\ dirty = [h \in Handlers |-> {}]
    /\ shelf = [h \in Handlers |-> [u \in Units |-> 0]]
    /\ results = [h \in Handlers |-> {}]
    /\ did = [h \in Handlers |-> {}]
    /\ faults = 0

----------------------------------------------------------------------------
(***************************************************************************)
(* The customer and the gateways.                                          *)
(***************************************************************************)

\* The customer pays through a link she was given, old or new.
Charge(l) ==
    /\ l \in links \ charges
    /\ charges' = charges \union {l}
    /\ UNCHANGED <<db, links, locals, pc, seen, did, faults>>

\* A request for r.order reaches slot h, loads the order row, and goes to
\* stage s.  A Paystack reference matches the order whose own reference it
\* is, or whose payment_reference column holds it.
MatchesPaymentReference(r, row) == r.intent = row.payref    \* mutant: one column only
Matches(r, row) == r.intent \in {"own", row.payref}
Serve(h, k, r, s) ==
    /\ pc[h] = "idle"
    /\ k \in Accepts[h]
    /\ pc' = [pc EXCEPT ![h] = s]
    /\ kind' = [kind EXCEPT ![h] = k]
    /\ req' = [req EXCEPT ![h] = r]
    /\ seen' = [seen EXCEPT ![h] = orders[r.order]]
    /\ UNCHANGED <<db, world, dirty, shelf, results, did, faults>>

\* What a webhook believes: a charge that was made, or, from a gateway whose
\* events are not checked, anything an event says.  Monnify's never are; the
\* others' verify_* functions pass every event while their secret is not set.
Heard(c) == c \in charges \/ (c \in Events /\ Signer(c) \notin Checked)

\* handle_paystack_webhook up to the commit: an unmatched reference and an
\* order that is already paid are acknowledged without effect.
HookAlwaysPasses(row) == TRUE                        \* mutant: no idempotency guard
HookPassesPending(row) == row.status = "pending"     \* mutant: "failed" is final
HookPasses(row) == row.status # "paid"
HookArrives(h, c) ==
    /\ Heard(c)
    /\ c.gateway \in {"paystack", "bumpa"}
    /\ Serve(h, "hook", c,
             IF Matches(c, orders[c.order]) /\ HookPasses(orders[c.order])
             THEN "commit" ELSE "done")

\* The other gateways' webhooks match on the order's own reference alone and
\* do not look at its status.
PlainArrives(h, c) ==
    /\ Heard(c)
    /\ c.gateway \in PlainGateways
    /\ Serve(h, "plain", c, "commit")

\* The browser comes back from a link Paystack issued for this order, paid
\* or not.
CallbackArrives(h, l) ==
    /\ l \in links
    /\ l.gateway = "paystack"
    /\ Serve(h, "callback", l, IF Paid(l.order) THEN "done" ELSE "verify")

\* The customer taps "I've Paid" for order o.
ManualArrives(h, o) ==
    Serve(h, "manual", OwnLink(o, "paystack"), IF Paid(o) THEN "done" ELSE "verify")

\* The assistant asks for a link to order o, whatever its status.
RelinkArrives(h, o, g) ==
    Serve(h, "relink", OwnLink(o, g), "link")

----------------------------------------------------------------------------
(***************************************************************************)
(* Confirming the charge.                                                  *)
(***************************************************************************)

Move(h, s) == pc' = [pc EXCEPT ![h] = s]

\* verify_payment asks the gateway: the callback always asks Paystack, the
\* button asks the gateway in the order row, "paystack" when it is empty.
\* UnifiedPaymentManager cannot verify "bumpa" and "default".
VerifiedAt(h) ==
    IF kind[h] = "callback" \/ seen[h].gateway = "none" THEN "paystack" ELSE seen[h].gateway
GatewayAsked(h) == VerifiedAt(h) \in LinkGateways \ {"bumpa"}    \* mutant: its answer is ignored
ChargeFound(h) ==
    /\ VerifiedAt(h) \in LinkGateways \ {"bumpa"}
    /\ OwnLink(OrderOf(h), VerifiedAt(h)) \in charges

VerifySucceeds(h) ==
    /\ pc[h] = "verify"
    /\ ChargeFound(h)
    /\ Move(h, IF kind[h] = "callback" THEN "refresh" ELSE "commit")
    /\ UNCHANGED <<db, world, locals, seen, did, faults>>

\* Not paid, unsupported, or the call to the gateway raised.
VerifyFails(h) ==
    /\ pc[h] = "verify"
    /\ Move(h, "done")
    /\ UNCHANGED <<db, world, locals, seen, did, faults>>

\* The callback re-reads the row after the verification call.
Refresh(h) ==
    /\ pc[h] = "refresh"
    /\ seen' = [seen EXCEPT ![h] = orders[OrderOf(h)]]
    /\ Move(h, IF Paid(OrderOf(h)) THEN "done" ELSE "commit")
    /\ UNCHANGED <<db, world, locals, did, faults>>

\* The row as the handler leaves it in memory.  Paystack keeps "bumpa" as
\* the gateway of record; the others overwrite it.  The button records no
\* gateway.
Confirmed(h) ==
    [seen[h] EXCEPT
        !.status = "paid",
        !.payref = CASE kind[h] = "plain" -> "txn"
                     [] kind[h] = "manual" -> "own"
                     [] OTHER -> req[h].intent,
        !.gateway = CASE kind[h] = "plain" -> req[h].gateway
                      [] kind[h] = "manual" -> seen[h].gateway
                      [] OTHER -> IF seen[h].gateway = "bumpa" THEN "bumpa" ELSE "paystack"]

Save(h, new) ==
    /\ orders' = [orders EXCEPT ![OrderOf(h)] = Flushed(@, seen[h], new)]
    /\ seen' = [seen EXCEPT ![h] = new]

\* One transaction: the order row and, for a gateway's handler, a PaymentLog.
\* The button stops here: no log, no stock, no fulfilment, no alert.
Commit(h) ==
    /\ pc[h] = "commit"
    /\ Save(h, Confirmed(h))
    /\ IF kind[h] = "manual"
       THEN Move(h, "done") /\ UNCHANGED did
       ELSE Move(h, "receipt") /\ did' = [did EXCEPT ![h] = @ \union {"log"}]
    /\ UNCHANGED <<stock, listed, world, locals, faults>>

----------------------------------------------------------------------------
(***************************************************************************)
(* _notify_customer_payment_success.  Each part runs in its own            *)
(* try/except: a failing call never stops the next part.                   *)
(***************************************************************************)

Attempt(h, e, s) ==
    /\ did' = [did EXCEPT ![h] = @ \union {e}]
    /\ Move(h, s)

\* dispatch_order's guard and its first group, read from the in-memory row.
FirstGroup(o) ==
    IF "bumpa" \in Groups[o] THEN "push"
    ELSE IF "digital" \in Groups[o] THEN "digital" ELSE "settle"
DispatchAlways(h) == FirstGroup(OrderOf(h))    \* mutant: no guard on fulfillment_status
DispatchUnlessManual(h) ==                     \* mutant: returns when nothing is automatic
    IF FirstGroup(OrderOf(h)) = "settle" THEN "done" ELSE FirstGroup(OrderOf(h))
AfterStock(h) ==
    IF seen[h].fulfil \in Fulfilled THEN "alert" ELSE FirstGroup(OrderOf(h))

Receipt(h) ==
    /\ pc[h] = "receipt"
    /\ Attempt(h, "receipt", IF seen[h].gateway = "bumpa" THEN "finalize" ELSE "stock")
    /\ UNCHANGED <<db, world, locals, seen, faults>>

\* BumpaClient.finalize_checkout, with the ids stored beside the reference.
Finalize(h) ==
    /\ pc[h] = "finalize"
    /\ Attempt(h, "finalize", "stock")
    /\ UNCHANGED <<db, world, locals, seen, faults>>

\* decrement_stock_for_order's guard.
StockStartsAlways(h) ==    \* mutant: the flag is not looked at
    /\ pc[h] = "stock"
    /\ Move(h, "count")
    /\ UNCHANGED <<db, world, locals, seen, did, faults>>
StockStarts(h) ==
    /\ pc[h] = "stock"
    /\ IF seen[h].counted
       THEN Move(h, AfterStock(h)) ELSE Move(h, "count")
    /\ UNCHANGED <<db, world, locals, seen, did, faults>>

\* It loads the products one line at a time and changes them in memory ...
StockRead(h, u) ==
    /\ pc[h] = "count"
    /\ u \in Tracked(OrderOf(h)) \ dirty[h]
    /\ shelf' = [shelf EXCEPT ![h][u] = stock[u]]
    /\ dirty' = [dirty EXCEPT ![h] = @ \union {u}]
    /\ UNCHANGED <<db, world, kind, req, results, pc, seen, did, faults>>

\* ... and commits the absolute new quantities, clamped at 0, together with
\* the stock_decremented flag.
LeftOverUnclamped(h, u) == shelf[h][u] - Lines[OrderOf(h)][u]    \* mutant: below zero
LeftOverTwice(h, u) ==    \* mutant: the line is taken twice
    IF shelf[h][u] > 2 * Lines[OrderOf(h)][u] THEN shelf[h][u] - 2 * Lines[OrderOf(h)][u] ELSE 0
LeftOver(h, u) ==
    IF shelf[h][u] > Lines[OrderOf(h)][u] THEN shelf[h][u] - Lines[OrderOf(h)][u] ELSE 0
SoldExactly(h, u) == shelf[h][u] = Lines[OrderOf(h)][u]    \* mutant: misses oversold units
SellsOut(h, u) == LeftOver(h, u) = 0
FlushStock(h) ==
    /\ stock' = [u \in Units |-> IF u \in dirty[h]
                                 THEN Kept(stock[u], shelf[h][u], LeftOver(h, u))
                                 ELSE stock[u]]
    /\ listed' = [u \in Units |-> listed[u] /\ ~(u \in dirty[h] /\ SellsOut(h, u))]
    /\ dirty' = [dirty EXCEPT ![h] = {}]
    /\ shelf' = [shelf EXCEPT ![h] = [u \in Units |-> 0]]
StockCommit(h) ==
    /\ pc[h] = "count"
    /\ dirty[h] = Tracked(OrderOf(h))
    /\ FlushStock(h)
    /\ Save(h, [seen[h] EXCEPT !.counted = TRUE])
    /\ Attempt(h, "count", AfterStock(h))
    /\ UNCHANGED <<world, kind, req, results, faults>>

\* Loading a line's product raises: the except clause logs it and fulfilment
\* goes on; the rows changed so far stay changed in the session.
StockFails(h) ==
    /\ pc[h] = "count"
    /\ faults < MaxFaults
    /\ faults' = faults + 1
    /\ Move(h, AfterStock(h))
    /\ UNCHANGED <<db, world, locals, seen, did>>

\* _push_to_bumpa: create_order succeeds or raises.
Push(h) ==
    /\ pc[h] = "push"
    /\ \E r \in {"dispatched", "failed"} :
         results' = [results EXCEPT ![h] = @ \union {r}]
    /\ Attempt(h, "push", IF "digital" \in Groups[OrderOf(h)] THEN "digital" ELSE "settle")
    /\ UNCHANGED <<db, world, kind, req, dirty, shelf, seen, faults>>

\* _dispatch_digital: some asset links go out (a failed send is swallowed),
\* or no item has one.
Digital(h) ==
    /\ pc[h] = "digital"
    /\ \/ /\ results' = [results EXCEPT ![h] = @ \union {"delivered_digital"}]
          /\ Attempt(h, "digital", "settle")
       \/ /\ results' = [results EXCEPT ![h] = @ \union {"failed"}]
          /\ Move(h, "settle") /\ UNCHANGED did
    /\ UNCHANGED <<db, world, kind, req, dirty, shelf, seen, faults>>

\* Looking up an item's asset link raises, out of dispatch_order: the group's
\* results are lost, no status is set, and the merchant is alerted next.
DigitalFails(h) ==
    /\ pc[h] = "digital"
    /\ faults < MaxFaults
    /\ faults' = faults + 1
    /\ results' = [results EXCEPT ![h] = {}]
    /\ Attempt(h, "raised", "alert")
    /\ UNCHANGED <<db, world, kind, req, dirty, shelf, seen>>

\* A failure wins, then dispatch, then digital delivery, else manual.
Outcome(rs) ==
    IF "failed" \in rs THEN "failed"
    ELSE IF "dispatched" \in rs THEN "dispatched"
    ELSE IF "delivered_digital" \in rs THEN "delivered_digital"
    ELSE "manual"

\* fulfillment_groups goes into the in-memory metadata, so the whole column
\* is written, the stock_decremented flag of this copy included; so is any
\* stock a failed count left changed in the session.
Settle(h) ==
    LET o == OrderOf(h)
        new == [seen[h] EXCEPT !.fulfil = Outcome(results[h])]
    IN /\ pc[h] = "settle"
       /\ orders' = [orders EXCEPT
                       ![o] = [Flushed(@, seen[h], new) EXCEPT !.counted = new.counted]]
       /\ seen' = [seen EXCEPT ![h] = new]
       /\ results' = [results EXCEPT ![h] = {}]
       /\ FlushStock(h)
       /\ did' = [did EXCEPT ![h] = IF dirty[h] = {} THEN @ ELSE @ \union {"spill"}]
       /\ Move(h, "alert")
       /\ UNCHANGED <<world, kind, req, faults>>

\* notify_merchant_new_order; then the handler answers 200.
Alert(h) ==
    /\ pc[h] = "alert"
    /\ Attempt(h, "alert", "done")
    /\ UNCHANGED <<db, world, locals, seen, faults>>

----------------------------------------------------------------------------
(***************************************************************************)
(* generate_payment_link on an existing order, and faults.                *)
(***************************************************************************)

\* A Bumpa order keeps its gateway; any other takes the one asked for, and
\* the row says "default" when none was.
LinkGateway(h) ==
    IF seen[h].gateway = "bumpa" THEN "bumpa"
    ELSE IF req[h].gateway = "none" THEN DefaultGateway ELSE req[h].gateway
Relinked(h, l) ==
    [seen[h] EXCEPT
        !.gateway = IF seen[h].gateway # "bumpa" /\ req[h].gateway = "none"
                    THEN "default" ELSE l.gateway,
        !.payref = IF l.gateway = "bumpa" THEN l.intent ELSE seen[h].payref]

\* The gateway makes the link and the row is committed.  For a Bumpa order
\* the whole metadata column is rewritten from the row loaded before the
\* gateway was called.
Relink(h) ==
    /\ pc[h] = "link"
    /\ \E l \in Links :
         /\ l.order = OrderOf(h)
         /\ l.gateway = LinkGateway(h)
         /\ IF l.gateway = "bumpa"
            THEN l.intent \in Intents /\ \A k \in links : k.intent # l.intent
            ELSE l.intent = "own"
         /\ links' = links \union {l}
         /\ LET new == Relinked(h, l)
                row == Flushed(orders[OrderOf(h)], seen[h], new)
            IN /\ orders' = [orders EXCEPT ![OrderOf(h)] =
                               IF l.gateway = "bumpa"
                               THEN [row EXCEPT !.counted = new.counted] ELSE row]
               /\ seen' = [seen EXCEPT ![h] = new]
    /\ Move(h, "done")
    /\ UNCHANGED <<stock, listed, charges, locals, did, faults>>

\* create_payment_link raises.
RelinkFails(h) ==
    /\ pc[h] = "link"
    /\ Move(h, "done")
    /\ UNCHANGED <<db, world, locals, seen, did, faults>>

\* The process dies: every request in flight is lost, committed rows stay.
Crash ==
    /\ faults < MaxFaults
    /\ \E h \in Handlers : pc[h] \notin Resting
    /\ faults' = faults + 1
    /\ pc' = [h \in Handlers |-> IF pc[h] \in Resting THEN pc[h] ELSE "crashed"]
    /\ UNCHANGED <<db, world, locals, seen, did>>

\* A commit fails: the session is rolled back and its rows are expired, the
\* next attribute read raises, also in the except clauses of
\* _notify_customer_payment_success, and the request does nothing more.
CommitFails(h) ==
    /\ pc[h] \in {"commit", "count", "settle", "link"}
    /\ faults < MaxFaults
    /\ faults' = faults + 1
    /\ Move(h, "crashed")
    /\ UNCHANGED <<db, world, locals, seen, did>>

----------------------------------------------------------------------------

Arrive(h) ==
    \/ \E c \in Links : HookArrives(h, c) \/ PlainArrives(h, c)
    \/ \E l \in links : CallbackArrives(h, l)
    \/ \E o \in Orders : ManualArrives(h, o)
    \/ \E o \in Orders, g \in RelinkGateways : RelinkArrives(h, o, g)

\* The steps a running handler takes by itself.
Step(h) ==
    \/ VerifySucceeds(h) \/ VerifyFails(h) \/ Refresh(h) \/ Commit(h)
    \/ Receipt(h) \/ Finalize(h)
    \/ StockStarts(h) \/ StockCommit(h)
    \/ \E u \in Units : StockRead(h, u)
    \/ Push(h) \/ Digital(h) \/ Settle(h) \/ Alert(h)
    \/ Relink(h) \/ RelinkFails(h)

Next ==
    \/ \E l \in links : Charge(l)
    \/ \E h \in Handlers : Arrive(h) \/ Step(h) \/ StockFails(h) \/ DigitalFails(h) \/ CommitFails(h)
    \/ Crash

Spec == Init /\ [][Next]_vars

\* A gateway redelivers an event until some delivery of it was answered.
Answered(c) == \E h \in Handlers : kind[h] = "hook" /\ req[h] = c /\ pc[h] = "done"
Redeliver(h) == \E c \in charges : ~Answered(c) /\ HookArrives(h, c)

\* The event loop runs every coroutine that can go on, the gateways retry.
\* Customers need not pay, tap or come back, and nothing need fail.
FairSpec ==
    /\ Spec
    /\ \A h \in Handlers : WF_vars(Step(h)) /\ WF_vars(Redeliver(h))

----------------------------------------------------------------------------
(***************************************************************************)
(* Properties.                                                             *)
(***************************************************************************)

\* No order becomes paid without a charge through one of its own links, or
\* a webhook of a gateway whose events are not checked that said so, whichever
\* handler confirms it and however stale the row it holds: the callback and
\* the button pay nothing on their own, and no event pays another order.
PaidOnlyIfCharged == \A o \in Orders : Paid(o) => Charged(o) \/ Trusted(o)

\* Receipts, log rows, stock, fulfilment and alerts never run ahead of the
\* committed "paid", and nothing sets a paid order back: a customer is not
\* told of a payment the orders table does not show.
EffectsFollowPayment == \A h \in Handlers : did[h] # {} => Paid(OrderOf(h))

\* When the merchant's alert goes out, the fulfilment attempt it reports on
\* is committed, whatever other handlers wrote to the row in between.  Only a
\* product lookup that raises out of dispatch_order lets the alert go out
\* over an order without a fulfilment status.
AlertFollowsFulfilment ==
    \A h \in Handlers :
        "alert" \in did[h] => orders[OrderOf(h)].fulfil # "none" \/ "raised" \in did[h]

\* A unit whose stock reaches 0 is taken off sale, also when the last two
\* orders for it are counted from the same stale quantity.
SoldOutIsHidden == \A u \in Units : stock[u] = 0 => ~listed[u]

\* A webhook that was answered 200 left its order paid, so the gateway may
\* stop retrying (references that are the order's own).
AcknowledgedIsPaid ==
    \A h \in Handlers :
        pc[h] = "done" /\ kind[h] = "hook" /\ req[h].intent = "own" => Paid(OrderOf(h))

\* Handlers of order o that are past their guards and will act on the row
\* they hold.
Acting(o) ==
    {h \in Handlers : OrderOf(h) = o /\ pc[h] \notin Resting \union {"verify", "refresh"}}

\* What the guards on "paid" promise: once an order is paid and nobody who saw
\* it unpaid is about to confirm it, no redelivered Paystack event and no late
\* browser callback confirms it again (and with that, notifies again).
Confirming(o) ==
    {h \in Handlers : OrderOf(h) = o /\ pc[h] = "commit" /\ seen[h].status # "paid"}
ConfirmedBy(o) ==
    {h \in Handlers : OrderOf(h) = o /\ kind[h] \in {"hook", "callback"} /\ "log" \in did[h]}
RetriesAreSilent ==
    [][\A o \in Orders :
          Paid(o) /\ Confirming(o) = {} => ConfirmedBy(o)' = ConfirmedBy(o)]_vars

\* What dispatch_order's guard promises, for every gateway: an order that
\* reached "dispatched" or "delivered_digital" is not pushed to Bumpa or sent
\* out again by a handler that loaded it afterwards.
FulfilledStaysFulfilled ==
    [][\A h \in Handlers :
          /\ orders[OrderOf(h)].fulfil \in Fulfilled
          /\ \A g \in Acting(OrderOf(h)) : seen[g].fulfil \in Fulfilled
          => did'[h] \intersect {"push", "digital"} = did[h] \intersect {"push", "digital"}]_vars

\* What the stock_decremented flag promises, for every gateway: once it is
\* committed, a handler that loaded the row afterwards leaves stock alone.
\* Without database failures it is never unset.  (Bumpa orders are out:
\* generate_payment_link may write the flag back.)
CountedStaysCounted ==
    [][\A o \in Orders :
          /\ orders[o].counted /\ InitialGateway[o] # "bumpa"
          => /\ faults = 0 => orders'[o].counted
             /\ (\A g \in Acting(o) : seen[g].counted) =>
                   \A h \in Handlers : OrderOf(h) = o =>
                      ("count" \in did'[h] => "count" \in did[h])]_vars

\* Stock is never taken for goods nobody was charged for: what is missing
\* from a unit is at most what the handlers that wrote it had to take,
\* whatever quantities they overwrote on each other.
TakenBy(h, u) == IF {"count", "spill"} \intersect did[h] # {} THEN Lines[OrderOf(h)][u] ELSE 0
Taken(u) == [h \in Handlers |-> TakenBy(h, u)]
StockIsNotOverdrawn ==
    \A u \in Units : InitialStock[u] - stock[u] <= SumFunctionOnSet(Taken(u), Handlers)

----------------------------------------------------------------------------
(***************************************************************************)
(* The inductive invariant behind the safety properties.                   *)
(***************************************************************************)

\* Some handler has done e for order o.
HasDone(o, e) == \E h \in Handlers : OrderOf(h) = o /\ e \in did[h]

Notifying == {"receipt", "finalize", "stock", "count", "push", "digital", "settle", "alert"}

\* Nothing is done by a slot before its request; a handler about to confirm
\* has a charge or an unchecked event behind it; one that notifies has logged
\* a paid order; the webhook leaves no order of its own unpaid.
HandlerOK(h) ==
    /\ pc[h] = "idle" => did[h] = {}
    /\ pc[h] \in {"commit", "refresh"} => Claimed(OrderOf(h))
    /\ pc[h] \in Notifying \/ did[h] # {} => Paid(OrderOf(h)) /\ "log" \in did[h]
    /\ kind[h] = "hook" => pc[h] \notin {"verify", "refresh", "link"}
    /\ kind[h] = "hook" /\ pc[h] = "done" /\ req[h].intent = "own" => Paid(OrderOf(h))

\* A stale row is never ahead of the tables: what it says has happened.
SeenOK(h) ==
    pc[h] # "idle" =>
        /\ seen[h].status = "paid" => Paid(OrderOf(h))
        /\ seen[h].counted => HasDone(OrderOf(h), "count")
        /\ seen[h].fulfil # "none" => orders[OrderOf(h)].fulfil # "none"

\* The alert waits for the fulfilment status, or for dispatch_order to raise.
AlertOK(h) ==
    pc[h] = "alert" \/ "alert" \in did[h] =>
        orders[OrderOf(h)].fulfil # "none" \/ "raised" \in did[h]

RowOK(o) ==
    /\ Paid(o) => Claimed(o)
    /\ orders[o].counted => HasDone(o, "count")

SettlementInv ==
    /\ \A h \in Handlers : HandlerOK(h) /\ SeenOK(h) /\ AlertOK(h)
    /\ \A o \in Orders : RowOK(o)

\* What a handler past a guard still knows of the row in its memory, however
\* the table has moved on: the guard it passed holds of that copy, and
\* without faults nothing after the count runs on an uncounted copy.
GuardOK(h) ==
    /\ pc[h] = "commit" /\ kind[h] \in {"hook", "callback"} => seen[h].status # "paid"
    /\ pc[h] = "count" => ~seen[h].counted
    /\ pc[h] \in {"push", "digital"} => seen[h].fulfil \notin Fulfilled
    /\ pc[h] \in {"push", "digital", "settle"} => seen[h].counted \/ faults > 0

\* No handler makes a Bumpa order of one that checkout did not.
GatewayOK(h) ==
    /\ kind[h] = "plain" => req[h].gateway \in PlainGateways
    /\ pc[h] = "link" => req[h].gateway \in RelinkGateways
    /\ pc[h] # "idle" /\ InitialGateway[OrderOf(h)] # "bumpa" => seen[h].gateway # "bumpa"

GuardInv ==
    /\ \A h \in Handlers : GuardOK(h) /\ GatewayOK(h)
    /\ \A o \in Orders : InitialGateway[o] # "bumpa" => orders[o].gateway # "bumpa"

\* A slot writes stock once: what it holds unwritten, or has yet to count, it
\* has not taken.
SpentOK(h) ==
    dirty[h] # {} \/ pc[h] \in {"idle", "verify", "refresh", "commit", "receipt",
                               "finalize", "stock", "count", "link"}
        => {"count", "spill"} \intersect did[h] = {}

\* A quantity loaded for later is short of the initial one by no more than
\* what the other slots have taken: writing it back less the slot's own lines
\* keeps the books.
StockInv ==
    /\ StockIsNotOverdrawn
    /\ \A h \in Handlers :
         /\ SpentOK(h)
         /\ \A u \in dirty[h] :
              InitialStock[u] - shelf[h][u] <= SumFunctionOnSet(Taken(u), Handlers \ {h})

----------------------------------------------------------------------------
(***************************************************************************)
(* What every interleaving keeps is the promise of SettlementPromise.      *)
(***************************************************************************)

Promise == INSTANCE SettlementPromise WITH
    claimed <- {o \in Orders : Claimed(o)},
    paid <- {o \in Orders : Paid(o)},
    done <- [o \in Orders |-> UNION {did[h] : h \in {g \in Handlers : OrderOf(g) = o}}],
    handled <- {o \in Orders : orders[o].fulfil # "none"}

\* The handlers, faults and stale rows included, implement the promise.
KeepsPromise == Promise!Spec

----------------------------------------------------------------------------
(***************************************************************************)
(* Liveness, under FairSpec.                                               *)
(***************************************************************************)

\* A charge under the order's own reference is recorded, however often the
\* process dies, as long as the gateway has a delivery left (the slots are a
\* bound of the model).
Exhausted ==
    \A h \in Handlers : "hook" \in Accepts[h] =>
        pc[h] = "crashed" \/ (pc[h] = "done" /\ kind[h] # "hook")
ChargeIsHonoured ==
    \A o \in Orders : OwnLink(o, "paystack") \in charges ~> (Paid(o) \/ Exhausted)

\* An order a gateway's handler has confirmed gets its fulfilment status,
\* unless the process dies on the way.
ConfirmedIsHandled ==
    \A o \in Orders :
        (\E h \in Handlers : OrderOf(h) = o /\ "log" \in did[h])
            ~> (orders[o].fulfil # "none" \/ faults > 0)

----------------------------------------------------------------------------
(***************************************************************************)
(* What the repository says and the code does not keep.                    *)
(***************************************************************************)

\* The idempotency comment in handle_paystack_webhook: duplicate deliveries
\* and the racing callback do not send a duplicate receipt.
OneReceiptPerOrder ==
    \A h, g \in Handlers :
        "receipt" \in did[h] \intersect did[g] /\ OrderOf(h) = OrderOf(g) => h = g

\* The docstring of decrement_stock_for_order names one payment-success path:
\* an order that is paid, with no handler at work and no crash so far, has
\* been counted.
PaidIsCounted ==
    \A o \in Orders :
        Paid(o) /\ Acting(o) = {} /\ faults = 0 => orders[o].counted

\* generate_payment_link: Paystack's webhook matches a Bumpa order by its
\* payment_reference "so this order gets marked paid correctly": a charge
\* whose webhook was answered is a paid order.
EveryChargeIsPaid ==
    \A h \in Handlers :
        pc[h] = "done" /\ kind[h] = "hook" => Paid(OrderOf(h))

============================================================================
