------------------------- MODULE SettlementPromise -------------------------
(***************************************************************************)
(* What settling a payment promises for each order, with no handlers and   *)
(* no sessions: a charge, or the claim of one in an event nobody checks,   *)
(* comes first, then the orders table, then the payment log, then receipt, *)
(* stock and goods, then the fulfilment status or a dispatch that raised,  *)
(* then the merchant.  Nothing is ever taken back.                         *)
(***************************************************************************)
CONSTANT Orders
VARIABLES
    claimed,  \* orders charged for, or said to be by an unchecked event
    paid,     \* orders recorded as paid
    done,     \* done[o]: what has been done for order o, at least once
    handled   \* orders with a fulfilment status

vars == <<claimed, paid, done, handled>>

\* What follows the payment log.
Performed == {"receipt", "finalize", "count", "push", "digital", "raised", "alert"}

Init ==
    /\ claimed = {}
    /\ paid = {}
    /\ done = [o \in Orders |-> {}]
    /\ handled = {}

Claim(o) ==
    /\ claimed' = claimed \union {o}
    /\ UNCHANGED <<paid, done, handled>>

\* Recorded as paid, with a payment log or (the manual button) without one.
Confirm(o) ==
    /\ o \in claimed
    /\ paid' = paid \union {o}
    /\ \/ done' = [done EXCEPT ![o] = @ \union {"log"}]
       \/ done' = done
    /\ UNCHANGED <<claimed, handled>>

Perform(o, e) ==
    /\ o \in paid
    /\ "log" \in done[o]
    /\ e = "alert" => o \in handled \/ "raised" \in done[o]
    /\ done' = [done EXCEPT ![o] = @ \union {e}]
    /\ UNCHANGED <<claimed, paid, handled>>

\* The fulfilment status is set; stock changed on the way may be written with it.
Handle(o) ==
    /\ o \in paid
    /\ "log" \in done[o]
    /\ handled' = handled \union {o}
    /\ \/ done' = done
       \/ done' = [done EXCEPT ![o] = @ \union {"spill"}]
    /\ UNCHANGED <<claimed, paid>>

Next ==
    \E o \in Orders :
        \/ Claim(o) \/ Confirm(o) \/ Handle(o)
        \/ \E e \in Performed : Perform(o, e)

Spec == Init /\ [][Next]_vars

============================================================================
