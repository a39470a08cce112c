------------------------ MODULE MCPaymentSettlement ------------------------
(***************************************************************************)
(* Instances of PaymentSettlement for TLC.                                 *)
(***************************************************************************)
EXTENDS PaymentSettlement, TLC

CONSTANTS o1, o2, u1, h1, h2, h3, i1, i2

\* o1 is a normal order with a physical and a digital item, o2 a Bumpa order;
\* they share one unit of stock.
MCLines == [o \in Orders |-> IF o = o1 THEN u1 :> 1 ELSE u1 :> 2]
MCGroups == [o \in Orders |-> IF o = o1 THEN {"other", "digital"} ELSE {"bumpa"}]
MCServiceOnly == [o \in Orders |-> {"service"}]
MCInitialGateway == [o \in Orders |-> IF o = o1 THEN "none" ELSE "bumpa"]
MCInitialLinks ==
    {OwnLink(o1, "paystack"), [order |-> o2, gateway |-> "bumpa", intent |-> i1]}
MCInitialStock == u1 :> 3
\* Which requests a slot may carry: two of Paystack's webhooks, or one and the
\* assistant, meet on one order or on two, and with them another gateway's
\* webhook, the browser's callback or the button.
MCAccepts ==
    [h \in {h1, h2} |-> {"hook", "relink"}] @@ (h3 :> {"plain", "callback", "manual"})
MCSlots == Permutations({h1, h2})

\* Liveness: one order without a link yet, three deliveries, one crash.
MCRetries == (h1 :> {"hook", "relink"}) @@ (h2 :> {"hook", "callback"}) @@ (h3 :> {"hook"})
MCNoLinks == {}

\* Only Paystack's own deliveries; deliveries and the button; deliveries and
\* the assistant.
MCPaystackOnly == [h \in Handlers |-> {"hook", "callback"}]
MCWithButton == [h \in Handlers |-> {"hook", "manual"}]
MCWithRelink == [h \in Handlers |-> {"hook", "relink"}]

============================================================================
