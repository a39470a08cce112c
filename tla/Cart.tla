-------------------------------- MODULE Cart --------------------------------
(***************************************************************************)
(* The cart a conversation keeps in state_data["cart"], and the split of a *)
(* cart into orders.  A line is keyed by its product (variants are lines   *)
(* of their own in the code; one line per product is kept here).           *)
(*                                                                         *)
(* A line remembers how it was made, because that decides what it knows:   *)
(*   "full"    by add_item: price, source, external id, shipping flag      *)
(*   "priced"  by a quantity button for a product not in the cart: price,  *)
(*             but no source, external id or shipping flag                 *)
(*   "free"    by a typed number, likewise: not even a price (0.0)         *)
(***************************************************************************)
EXTENDS Naturals, FiniteSets

CONSTANTS
    Products,     \* catalog items
    Delivered,    \* those with requires_shipping
    BumpaGoods    \* those imported from Bumpa, with an external id

ASSUME ProductAssumption ==
    /\ Products # {}
    /\ Delivered \subseteq Products
    /\ BumpaGoods \subseteq Products

LineKinds == {"full", "priced", "free"}
NoLine == [qty |-> 0, made |-> "full"]
CartLines == {NoLine} \union [qty: Nat \ {0}, made: LineKinds]
Carts == [Products -> CartLines]
EmptyCart == [p \in Products |-> NoLine]

InCart(cart) == {p \in Products : cart[p].qty > 0}

\* add_item: one more of what is there, or a new line that knows everything.
AddItem(cart, p) ==
    [cart EXCEPT ![p] = IF p \in InCart(cart) THEN [qty |-> @.qty + 1, made |-> @.made]
                        ELSE [qty |-> 1, made |-> "full"]]

\* set_item_quantity: a line found keeps what it knows, and 0 removes it; a
\* line not found is made from the arguments.
SetQuantityKeepsZero(cart, p, q, made) ==       \* mutant: 0 leaves the line
    [cart EXCEPT ![p] = [qty |-> q, made |-> IF p \in InCart(cart) THEN @.made ELSE made]]
SetQuantity(cart, p, q, made) ==
    [cart EXCEPT ![p] = IF q = 0 THEN NoLine
                        ELSE [qty  |-> q,
                              made |-> IF p \in InCart(cart) THEN @.made ELSE made]]

\* A line without the flag counts as delivered.
Ships(cart, p) == cart[p].made # "full" \/ p \in Delivered
RequiresShippingOfAll(cart) ==                  \* mutant: all() for any()
    InCart(cart) # {} /\ \A p \in InCart(cart) : Ships(cart, p)
RequiresShipping(cart) == \E p \in InCart(cart) : Ships(cart, p)

\* create_checkout_orders: the Bumpa group holds the lines that know they
\* are Bumpa's, the other group holds the rest; empty groups are left out.
BumpaGroup(cart) ==
    {p \in InCart(cart) : cart[p].made = "full" /\ p \in BumpaGoods}
OtherGroup(cart) == InCart(cart) \ BumpaGroup(cart)
GroupOf(cart, g) == IF g = "bumpa" THEN BumpaGroup(cart) ELSE OtherGroup(cart)
GroupsOf(cart) == {g \in {"bumpa", "paystack"} : GroupOf(cart, g) # {}}

=============================================================================
