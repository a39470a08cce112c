---------------------------- MODULE Conversation ----------------------------
(***************************************************************************)
(* One customer's conversation: the session row that holds the flow, its   *)
(* step, the cart and the drafts, and the handlers that each message or    *)
(* button starts on it, up to the orders and payment links of a checkout.  *)
(*                                                                         *)
(* A handler loads the session row (seen[w]) when its message arrives,     *)
(* works on that copy, and every commit writes the columns it changed: the *)
(* flow, the step, and state_data, which holds the cart, the drafts and    *)
(* the widget's forms together and is written whole.  Messages of one      *)
(* customer may be handled at the same time (slots in Workers, each reused *)
(* when its handler has ended); an action is the code between two awaits.  *)
(***************************************************************************)
EXTENDS Cart, CustomerForms

CONSTANTS
    Workers,      \* handler slots
    Channels,     \* channels the conversation may be on
    Scripts,      \* which messages each slot may get
    Filled,       \* the fields a widget's address form may come with
    NoProduct,    \* "no product selected"
    MaxQty,       \* bound on the quantity of a line
    MaxOrders,    \* bound on the orders made
    MaxFaults     \* bound on process crashes

\* What a customer sends.  Words are typed, the others are buttons; the two
\* forms exist on the widget only.
Words == {"menu", "cancel", "skip", "yes", "no", "text", "reference", "number"}
Buttons == {"home", "browse", "add", "qty", "view", "clear", "checkout", "track",
            "purchases", "profile", "edit", "update_address", "keep_name",
            "change_name", "confirm", "edit_field"}
WidgetForms == {"profile_form", "address_form"}
Kinds == Words \union Buttons \union WidgetForms

\* A message, with the arguments its kind takes.
Arguments == [do: Kinds, item: Products \union {NoProduct}, qty: 0..MaxQty,
              field: Fields \union {"none"}]
Messages ==
    {m \in Arguments :
       /\ m.item = NoProduct <=> m.do \notin {"add", "qty"}
       /\ m.qty = 0 \/ m.do \in {"qty", "number"}
       /\ m.field = "none" <=> m.do # "edit_field"}

ASSUME ConversationAssumption ==
    /\ Channels \subseteq {"telegram", "whatsapp", "widget"}
    /\ Scripts \subseteq [Workers -> SUBSET Messages]
    /\ Filled \subseteq SUBSET Fields
    /\ NoProduct \notin Products
    /\ MaxQty \in Nat /\ MaxOrders \in Nat /\ MaxFaults \in Nat

VARIABLES
    channel,     \* where the conversation is held
    accepts,     \* messages each slot may get
    session,     \* the committed session row
    customer,    \* the committed customer row: profile fields, saved address
    orders,      \* orders made by checkouts
    pc,          \* where each slot's handler stands
    msg,         \* the message it handles
    seen,        \* its copy of the session row
    task,        \* its local variables: the form it completed, the checkout it runs
    overlap,     \* two messages have been handled at the same time
    faults       \* crashes so far

vars == <<channel, accepts, session, customer, orders, pc, msg, seen, task, overlap, faults>>

Flows == {"none", "main_menu", "catalog", "quantity_select", "track_order",
          "profile_view", "profile_collect", "address_collect"}
ProfileSteps == {"confirm_prefill", "ask_name", "ask_email", "ask_phone"}
\* qty_<product> is written as the product, ask_missing_<field> as the field.
Steps == {"none", "root", "viewing", "overview", "awaiting_reference",
          "ask_address", "confirm_address"} \union ProfileSteps \union Fields \union Products

StateData == [cart: Carts, selected: Products \union {NoProduct},
              profile: ProfileDrafts, address: AddressDrafts,
              wprofile: SUBSET Contact, waddress: Addresses]
Rows == [flow: Flows, step: Steps, data: StateData]
FreshRow ==
    [flow |-> "none", step |-> "none",
     data |-> [cart |-> EmptyCart, selected |-> NoProduct, profile |-> NoProfileDraft,
               address |-> NoAddressDraft, wprofile |-> {}, waddress |-> NoAddress]]

OrderRows == [lines: Carts, gateway: {"bumpa", "paystack"}, status: {"pending", "failed"},
              link: BOOLEAN, contact: SUBSET Contact, address: Addresses]

\* What a completed form resumes, whom and where the checkout bills, the
\* groups it has left and the orders it has made.
Tasks == [resume: Resumes, contact: SUBSET Contact, address: Addresses,
          left: SUBSET {"bumpa", "paystack"}, made: SUBSET (1..MaxOrders)]
NoTask == [resume |-> "none", contact |-> {}, address |-> NoAddress, left |-> {}, made |-> {}]
Nothing == [do |-> "menu", item |-> NoProduct, qty |-> 0, field |-> "none"]

Stages == {"idle", "act", "select", "profile_saved", "ask_address", "address_saved",
           "order", "link", "clear"}

TypeOK ==
    /\ channel \in Channels
    /\ accepts \in Scripts
    /\ session \in Rows
    /\ customer \in [profile: SUBSET Contact, address: Addresses]
    /\ orders \in Seq(OrderRows) /\ Len(orders) <= MaxOrders
    /\ pc \in [Workers -> Stages]
    /\ msg \in [Workers -> Messages]
    /\ seen \in [Workers -> Rows]
    /\ task \in [Workers -> Tasks]
    /\ overlap \in BOOLEAN
    /\ faults \in Nat

Init ==
    /\ channel \in Channels
    /\ accepts \in Scripts
    /\ session = FreshRow
    /\ customer = [profile |-> {}, address |-> NoAddress]
    /\ orders = << >>
    /\ pc = [w \in Workers |-> "idle"]
    /\ msg = [w \in Workers |-> Nothing]
    /\ seen = [w \in Workers |-> FreshRow]
    /\ task = [w \in Workers |-> NoTask]
    /\ overlap = FALSE
    /\ faults = 0

----------------------------------------------------------------------------
(***************************************************************************)
(* The session row.                                                        *)
(***************************************************************************)

\* update_flow_state: a column is written only if the handler changed it.
Kept(stored, loaded, new) == IF new = loaded THEN stored ELSE new
Flushed(row, old, new) ==
    [flow |-> Kept(row.flow, old.flow, new.flow),
     step |-> Kept(row.step, old.step, new.step),
     data |-> Kept(row.data, old.data, new.data)]

\* The handler of w goes on to stage s with row and task t in memory; when it
\* ends, what it held is gone.
Goes(w, s, row, t) ==
    /\ pc' = [pc EXCEPT ![w] = s]
    /\ seen' = [seen EXCEPT ![w] = IF s = "idle" THEN FreshRow ELSE row]
    /\ msg' = [msg EXCEPT ![w] = IF s = "idle" THEN Nothing ELSE @]
    /\ task' = [task EXCEPT ![w] = IF s = "idle" THEN NoTask ELSE t]
    /\ UNCHANGED <<channel, accepts, overlap, faults>>

\* update_flow_state with a state_data argument, and without one.  The model
\* does not tell every key of state_data apart: when nothing it knows has
\* changed, the code may have written the column or not.
Rewritten(row, old, new) == [Flushed(row, old, new) EXCEPT !.data = new.data]
Commit(w, new, s, t) ==
    /\ session' \in {Flushed(session, seen[w], new), Rewritten(session, seen[w], new)}
    /\ Goes(w, s, new, t)
    /\ UNCHANGED <<customer, orders>>
Update(w, new, s) == Commit(w, new, s, task[w])

At(w, flow, step) == [seen[w] EXCEPT !.flow = flow, !.step = step]
Enter(w, flow, step) ==
    /\ session' = Flushed(session, seen[w], At(w, flow, step))
    /\ Goes(w, "idle", seen[w], task[w])
    /\ UNCHANGED <<customer, orders>>
Stay(w) == Goes(w, "idle", seen[w], task[w]) /\ UNCHANGED <<session, customer, orders>>

\* get_or_create_session.  A session that has expired starts anew; it can
\* expire only when nothing has touched it for hours.  The widget sends typed
\* messages to the flow engine only in flows that wait for an answer.
Busy == {w \in Workers : pc[w] # "idle"}
Awaiting == {"profile_collect", "quantity_select", "address_collect", "track_order"}
Reaches(m, row) ==
    /\ m.do \in WidgetForms => channel = "widget"
    /\ channel = "widget" /\ m.do \in Words \ {"menu"} => row.flow \in Awaiting
Arrive(w, m, expired) ==
    /\ pc[w] = "idle"
    /\ expired => Busy = {} /\ session # FreshRow
    /\ session' = IF expired THEN FreshRow ELSE session
    /\ Reaches(m, session')
    /\ seen' = [seen EXCEPT ![w] = session']
    /\ msg' = [msg EXCEPT ![w] = m]
    /\ task' = [task EXCEPT ![w] = NoTask]
    /\ pc' = [pc EXCEPT ![w] = "act"]
    /\ overlap' = (overlap \/ Busy # {})
    /\ UNCHANGED <<channel, accepts, customer, orders, faults>>

\* A message being handled, and the button or word it is.
Handling(w) == pc[w] = "act"
Says(w, kinds) == Handling(w) /\ msg[w].do \in kinds
Data(w) == seen[w].data

\* cancel words leave a form: its draft goes, and the same message is then
\* handled as if the form had not been open.  The timeout that should do the
\* same is never exceeded: the arrival has just set last_active_at.
Forms == {"profile_collect", "address_collect"}
InForm(w) == Handling(w) /\ seen[w].flow \in Forms
WithoutDraftWhole(row) == FreshRow             \* mutant: the state is dropped whole
WithDraft(row) ==                              \* mutant: the draft is left behind
    [row EXCEPT !.flow = "none", !.step = "none"]
WithoutDraft(row) ==
    [flow |-> "none", step |-> "none",
     data |-> [row.data EXCEPT
                 !.profile = IF row.flow = "profile_collect" THEN NoProfileDraft ELSE @,
                 !.address = IF row.flow = "address_collect" THEN NoAddressDraft ELSE @]]
CancelForm(w) ==
    /\ InForm(w)
    /\ msg[w].do \in {"menu", "cancel"}
    /\ Update(w, WithoutDraft(seen[w]), "act")

\* Free handles a message outside the forms, Answer one inside.
Free(w, kinds) == Says(w, kinds) /\ seen[w].flow \notin Forms
Answer(w, flow) ==
    Handling(w) /\ seen[w].flow = flow /\ msg[w].do \notin {"menu", "cancel"} \union WidgetForms

----------------------------------------------------------------------------
(***************************************************************************)
(* Menus and the cart.                                                     *)
(***************************************************************************)

MainMenu(w) == Free(w, {"menu", "home"}) /\ Enter(w, "main_menu", "root")
BrowseCatalog(w) == Free(w, {"browse"}) /\ Enter(w, "catalog", "viewing")

SaveCart(w, cart, s) == Update(w, [seen[w] EXCEPT !.data.cart = cart], s)

\* add_item and a quantity button commit the cart first and the selection at
\* a second commit.
CartAdd(w) ==
    /\ Free(w, {"add"})
    /\ Data(w).cart[msg[w].item].qty < MaxQty
    /\ SaveCart(w, AddItem(Data(w).cart, msg[w].item), "select")
QuantityButton(w) ==
    /\ Free(w, {"qty"})
    /\ SaveCart(w, SetQuantity(Data(w).cart, msg[w].item, msg[w].qty, "priced"), "select")
Select(w) ==
    /\ pc[w] = "select"
    /\ Update(w, [At(w, "quantity_select", msg[w].item) EXCEPT !.data.selected = msg[w].item],
              "idle")

\* A number typed while a quantity is asked for sets it.
TypedQuantity(w) ==
    /\ Free(w, {"number"})
    /\ seen[w].flow = "quantity_select"
    /\ Data(w).selected # NoProduct
    /\ msg[w].qty >= 1
    /\ SaveCart(w, SetQuantity(Data(w).cart, Data(w).selected, msg[w].qty, "free"), "idle")

ViewCart(w) == Free(w, {"view"}) /\ Stay(w)
ClearCart(w) == Free(w, {"clear"}) /\ SaveCart(w, EmptyCart, "idle")

\* An order reference ends tracking, or any other flow.  While one is awaited,
\* whatever is not handled above asks for it again.
Tracking(w) == seen[w].flow = "track_order"
TrackOrder(w) ==
    \/ Free(w, {"track"}) /\ Enter(w, "track_order", "awaiting_reference")
    \/ Free(w, {"reference"}) /\ Enter(w, "none", "none")
    \/ Free(w, {"purchases", "profile", "edit", "update_address"}) /\ Tracking(w) /\ Stay(w)

\* The customer's orders, support, "I've Paid": a reply that ends any flow.
MyPurchases(w) == Free(w, {"purchases"}) /\ ~Tracking(w) /\ Enter(w, "none", "none")
MyProfile(w) ==
    /\ Free(w, {"profile"})
    /\ ~Tracking(w)
    /\ IF channel = "widget" THEN Enter(w, "main_menu", "root")
       ELSE Enter(w, "profile_view", "overview")

\* Whatever is left gets a reply and changes nothing.
Unmatched(w) ==
    /\ Free(w, {"cancel", "skip", "yes", "no", "text", "number", "keep_name", "change_name",
                "confirm", "edit_field"})
    /\ msg[w].do = "number" =>
         \/ seen[w].flow # "quantity_select"
         \/ Data(w).selected = NoProduct
         \/ msg[w].qty = 0
    /\ Stay(w)

\* The widget's own forms store what was submitted, or that it was skipped.
\* Every field is optional and none is checked: a profile that lacks a field
\* counts as none, but an address form without a single value is an address
\* that has been given.
SubmitWidgetForm(w) ==
    \/ /\ Says(w, {"profile_form"})
       /\ \E p \in {{}, Contact} : Update(w, [seen[w] EXCEPT !.data.wprofile = p], "idle")
    \/ /\ Says(w, {"address_form"})
       /\ \E has \in Filled :
            Update(w, [seen[w] EXCEPT !.data.waddress = [given |-> TRUE, has |-> has]], "idle")

----------------------------------------------------------------------------
(***************************************************************************)
(* The profile form.                                                       *)
(***************************************************************************)

\* _start_profile_collect.  From the profile screen every field is asked
\* again, the saved values being what "skip" keeps; before a checkout only
\* what is missing is asked, and a name known or sent by the channel is
\* offered first.  A WhatsApp identifier is a phone number.
KnownProfile == IF channel = "widget" THEN {} ELSE customer.profile
OwnPhone == IF channel = "whatsapp" THEN {"phone"} ELSE {}
StartProfile(w, resume) ==
    \E prefill \in BOOLEAN :
      LET full == resume = "profile_view"
          have == IF full THEN OwnPhone ELSE KnownProfile \union OwnPhone
          offered == ~full /\ channel # "widget" /\ ("name" \in have \/ prefill)
          draft == [resume |-> resume,
                    have |-> IF offered THEN have \union {"name"} ELSE have,
                    saved |-> IF full THEN KnownProfile \union OwnPhone ELSE {}]
          step == IF offered THEN "confirm_prefill" ELSE "ask_name"
      IN Update(w, [At(w, "profile_collect", step) EXCEPT !.data.profile = draft], "idle")

EditProfile(w) ==
    /\ Free(w, {"edit"})
    /\ ~Tracking(w)
    /\ IF channel = "widget" THEN Enter(w, "main_menu", "root")
       ELSE StartProfile(w, "profile_view")

\* _advance_profile_collect: ask for the next missing field, or save a
\* complete profile (upsert_customer; the widget has no customer row) and
\* go on in FinishProfile.
AdvanceProfile(w, draft) ==
    IF NextMissing(draft.have) # "complete"
    THEN Update(w, [At(w, "profile_collect", NextMissing(draft.have))
                      EXCEPT !.data.profile = draft], "idle")
    ELSE /\ customer' = IF channel = "widget" THEN customer
                        ELSE [customer EXCEPT !.profile = @ \union draft.have]
         /\ Goes(w, "profile_saved", seen[w],
                 [NoTask EXCEPT !.resume = draft.resume, !.contact = draft.have,
                                !.address = customer.address])
         /\ UNCHANGED <<session, orders>>

\* WhatsApp passes a button's caption where the others pass its id, so a
\* handler that compares the reply with an id never sees it there.
Tapped(w, button) == msg[w].do = button /\ channel # "whatsapp"

ConfirmName(w) ==
    /\ Answer(w, "profile_collect")
    /\ seen[w].step = "confirm_prefill"
    /\ LET draft == Data(w).profile
       IN IF msg[w].do = "no" \/ Tapped(w, "change_name")
          THEN Update(w, [At(w, "profile_collect", "ask_name")
                            EXCEPT !.data.profile = [draft EXCEPT !.have = draft.have \ {"name"}]],
                      "idle")
          ELSE AdvanceProfile(w, draft)

\* A field is asked for: anything is a name, only a typed text can be a valid
\* email or phone number; "skip" keeps a saved or drafted value.
AnswerField(w) ==
    /\ Answer(w, "profile_collect")
    /\ seen[w].step \in ProfileSteps \ {"confirm_prefill"}
    /\ LET draft == Data(w).profile
           f == Asked(seen[w].step)
           skip == msg[w].do = "skip"
           taken == AdvanceProfile(w, [draft EXCEPT !.have = @ \union {f}])
       IN \/ skip /\ f \in draft.saved \union draft.have /\ taken
          \/ skip /\ f \notin draft.saved \union draft.have /\ Stay(w)
          \/ ~skip /\ (f = "name" \/ msg[w].do = "text") /\ taken
          \/ ~skip /\ f # "name" /\ Stay(w)

\* A form whose step is not one of its own ends; an address form with no
\* step at all raises instead.
UnknownStep(w) ==
    \/ /\ Answer(w, "profile_collect")
       /\ seen[w].step \notin ProfileSteps
       /\ Enter(w, "none", "none")
    \/ /\ Answer(w, "address_collect")
       /\ seen[w].step \notin {"ask_address", "confirm_address"} \union Fields
       /\ IF seen[w].step = "none" THEN Stay(w) ELSE Enter(w, "none", "none")

----------------------------------------------------------------------------
(***************************************************************************)
(* The address form.                                                       *)
(***************************************************************************)

StartAddress(w, resume, who, address) ==
    Update(w, [At(w, "address_collect", "ask_address")
                 EXCEPT !.data.address = [resume |-> resume, who |-> who,
                                          address |-> address, missing |-> {}]], "idle")

UpdateAddress(w) ==
    /\ Free(w, {"update_address"})
    /\ ~Tracking(w)
    /\ IF channel = "widget" THEN Enter(w, "main_menu", "root")
       ELSE StartAddress(w, "profile_view", {}, customer.address)

\* _advance_address_collect
AdvanceAddress(w, draft) ==
    LET step == IF draft.missing = {} THEN "confirm_address" ELSE FirstMissing(draft.missing)
    IN Update(w, [At(w, "address_collect", step) EXCEPT !.data.address = draft], "idle")

GiveAddress(w) ==
    /\ Answer(w, "address_collect")
    /\ seen[w].step = "ask_address"
    /\ LET draft == Data(w).address
       IN IF msg[w].do = "skip" /\ draft.address.given THEN AdvanceAddress(w, draft)
          ELSE \E has \in Parses(msg[w].do = "text") : AdvanceAddress(w, Parsed(draft, has))

\* One missing field: a listed one must be recognised, any text will do for
\* the others.
GiveMissing(w) ==
    /\ Answer(w, "address_collect")
    /\ seen[w].step \in Fields
    /\ LET f == seen[w].step
       IN \/ /\ f \notin Listed \/ msg[w].do = "text"
             /\ AdvanceAddress(w, Supplied(Data(w).address, f))
          \/ f \in Listed /\ Stay(w)

\* Confirmed: the address is saved on the customer row, and the handler goes
\* on in FinishAddress.
SaveAddress(w) ==
    /\ LET draft == Data(w).address
       IN /\ customer' = [customer EXCEPT !.address = draft.address]
          /\ Goes(w, "address_saved", seen[w],
                  [NoTask EXCEPT !.resume = draft.resume, !.address = draft.address,
                                 !.contact = draft.who \union customer.profile])
    /\ UNCHANGED <<session, orders>>

Confirms(w) == msg[w].do = "yes" \/ Tapped(w, "confirm")
ConfirmAddress(w) ==
    /\ Answer(w, "address_collect")
    /\ seen[w].step = "confirm_address"
    /\ \/ Confirms(w) /\ SaveAddress(w)
       \/ /\ Tapped(w, "edit_field")
          /\ Update(w, [At(w, "address_collect", msg[w].field)
                          EXCEPT !.data.address.missing = {msg[w].field}], "idle")
       \/ ~Confirms(w) /\ ~Tapped(w, "edit_field") /\ Stay(w)

----------------------------------------------------------------------------
(***************************************************************************)
(* Checkout.                                                               *)
(***************************************************************************)

\* Delivery is needed and there is no address: the widget's handler asks the
\* page for its form, the others start the address form.
LacksAddress(w, address) ==
    /\ RequiresShipping(Data(w).cart)
    /\ IF channel = "widget" THEN ~Data(w).waddress.given ELSE ~address.given

\* Where the cart is delivered to: on the widget, whatever its form has sent.
Delivery(w, address) ==
    IF channel # "widget" THEN address
    ELSE IF RequiresShipping(Data(w).cart) THEN Data(w).waddress ELSE NoAddress

\* Whom a checkout of w's cart bills, and where it ships.
Billed(w, contact, address) ==
    [NoTask EXCEPT !.contact = contact, !.address = address, !.left = GroupsOf(Data(w).cart)]

Checkout(w) ==
    /\ Free(w, {"checkout"})
    /\ LET empty == InCart(Data(w).cart) = {}
           known == (IF channel = "widget" THEN Data(w).wprofile ELSE customer.profile) = Contact
           lacks == LacksAddress(w, customer.address)
       IN \/ empty /\ Stay(w)
          \/ ~empty /\ ~known /\ StartProfile(w, "cart")
          \/ /\ ~empty /\ known /\ lacks
             /\ IF channel = "widget" THEN Stay(w)
                ELSE StartAddress(w, "cart", {}, customer.address)
          \/ /\ ~empty /\ known /\ ~lacks
             /\ Goes(w, "order", seen[w], Billed(w, Contact, Delivery(w, customer.address)))
             /\ UNCHANGED <<session, customer, orders>>

\* A completed form commits new, and the handler goes on to stage s with the
\* checkout it has resumed, if any, which ships to address.
Resume(w, new, s, address) ==
    Commit(w, new, s, IF s = "order" THEN Billed(w, task[w].contact, address) ELSE task[w])

\* _complete_profile_collect, after the profile is saved: the draft goes, and
\* a checkout that was waiting resumes.
FinishProfile(w) ==
    /\ pc[w] = "profile_saved"
    /\ LET resumes == task[w].resume = "cart"
           lacks == LacksAddress(w, task[w].address)
           orders_now == resumes /\ ~lacks /\ InCart(Data(w).cart) # {}
           next == IF resumes /\ lacks /\ channel # "widget" THEN "ask_address"
                   ELSE IF orders_now THEN "order" ELSE "idle"
           data == [Data(w) EXCEPT
                      !.profile = NoProfileDraft,
                      !.wprofile = IF channel = "widget" THEN task[w].contact ELSE @]
       IN Resume(w, [flow |-> "none", step |-> "none", data |-> data], next,
                 Delivery(w, task[w].address))
AskAddress(w) ==
    /\ pc[w] = "ask_address"
    /\ StartAddress(w, "cart", task[w].contact, task[w].address)

\* _complete_address_collect, after the address is saved.
FinishAddress(w) ==
    /\ pc[w] = "address_saved"
    /\ LET orders_now == task[w].resume = "cart" /\ InCart(Data(w).cart) # {}
       IN Resume(w, [At(w, "none", "none") EXCEPT !.data.address = NoAddressDraft],
                 IF orders_now THEN "order" ELSE "idle", task[w].address)

\* create_checkout_orders: the next group's order is committed before its
\* link is asked for; Bumpa's group comes first.
NextGroup(w) == IF "bumpa" \in task[w].left THEN "bumpa" ELSE "paystack"
OrderOf(w, g) ==
    [lines |-> [p \in Products |-> IF p \in GroupOf(Data(w).cart, g)
                                   THEN Data(w).cart[p] ELSE NoLine],
     gateway |-> g, status |-> "pending", link |-> FALSE,
     contact |-> task[w].contact, address |-> task[w].address]
CreateOrder(w) ==
    /\ pc[w] = "order"
    /\ Len(orders) < MaxOrders
    /\ orders' = Append(orders, OrderOf(w, NextGroup(w)))
    /\ Goes(w, "link", seen[w], [task[w] EXCEPT !.left = @ \ {NextGroup(w)},
                                                !.made = @ \union {Len(orders) + 1}])
    /\ UNCHANGED <<session, customer>>

\* The link is made, or could not be: the order is failed, and the other
\* group goes on.
Latest(w) == CHOOSE i \in task[w].made : \A j \in task[w].made : j <= i
AfterFailureStops(w) == "clear"                \* mutant: the first failure ends the loop
AfterFailure(w) == IF task[w].left = {} THEN "clear" ELSE "order"
FailedUnmarked(o) == o                         \* mutant: the error is only logged
Failed(o) == [o EXCEPT !.status = "failed"]
MakeLink(w) ==
    /\ pc[w] = "link"
    /\ orders' = [orders EXCEPT ![Latest(w)].link = TRUE]
    /\ Goes(w, IF task[w].left = {} THEN "clear" ELSE "order", seen[w], task[w])
    /\ UNCHANGED <<session, customer>>
LinkFails(w) ==
    /\ pc[w] = "link"
    /\ orders' = [orders EXCEPT ![Latest(w)] = Failed(@)]
    /\ Goes(w, AfterFailure(w), seen[w], task[w])
    /\ UNCHANGED <<session, customer>>

\* The cart the handler holds is cleared, whatever became of the links.
ClearAfterCheckout(w) == pc[w] = "clear" /\ SaveCart(w, EmptyCart, "idle")

\* The process stops: what its handlers were doing is gone.
Crash ==
    /\ faults < MaxFaults
    /\ Busy # {}
    /\ faults' = faults + 1
    /\ pc' = [w \in Workers |-> "idle"]
    /\ msg' = [w \in Workers |-> Nothing]
    /\ seen' = [w \in Workers |-> FreshRow]
    /\ task' = [w \in Workers |-> NoTask]
    /\ UNCHANGED <<channel, accepts, session, customer, orders, overlap>>

----------------------------------------------------------------------------

Handle(w) ==
    \/ CancelForm(w) \/ MainMenu(w) \/ BrowseCatalog(w)
    \/ CartAdd(w) \/ QuantityButton(w) \/ Select(w) \/ TypedQuantity(w)
    \/ ViewCart(w) \/ ClearCart(w) \/ Checkout(w)
    \/ TrackOrder(w) \/ MyPurchases(w) \/ MyProfile(w) \/ Unmatched(w)
    \/ SubmitWidgetForm(w)
    \/ EditProfile(w) \/ ConfirmName(w) \/ AnswerField(w) \/ UnknownStep(w)
    \/ UpdateAddress(w) \/ GiveAddress(w) \/ GiveMissing(w) \/ ConfirmAddress(w)
    \/ FinishProfile(w) \/ AskAddress(w) \/ FinishAddress(w)
    \/ CreateOrder(w) \/ MakeLink(w) \/ LinkFails(w) \/ ClearAfterCheckout(w)

Next ==
    \/ \E w \in Workers : \E m \in accepts[w], expired \in BOOLEAN : Arrive(w, m, expired)
    \/ \E w \in Workers : Handle(w)
    \/ Crash

Spec == Init /\ [][Next]_vars

----------------------------------------------------------------------------
(***************************************************************************)
(* What must hold.                                                         *)
(***************************************************************************)

\* Every order knows whom it bills: name, email and phone, however the
\* checkout was reached (saved profile, chat form, widget form, resumed
\* after the address form) and whatever else was handled meanwhile:
\* "a resolved customer profile instead of a synthetic placeholder email"
\* (engine.py:1254-1255).
OrdersHaveContact == \A i \in DOMAIN orders : orders[i].contact = Contact

\* If no two messages were ever handled together, an order with a line to
\* deliver has an address: a whole one where the address is asked for in the
\* chat, and on the widget one that its form has sent, which may lack any
\* field.  (When messages overlap, a form may be confirmed whose draft another
\* handler has started anew.)
Deliverable(address) ==
    IF channel = "widget" THEN address.given ELSE address = WholeAddress
OrdersHaveAddress ==
    ~overlap =>
      \A i \in DOMAIN orders :
        RequiresShipping(orders[i].lines) => Deliverable(orders[i].address)

\* If no two messages were ever handled together, the flow, its step and its
\* draft agree: a form has its draft, asks for what is missing, and confirms
\* only what is complete.  They are columns written independently.
ProfileFits(row) ==
    /\ row.data.profile.resume # "none"
    /\ IF row.step = "confirm_prefill" THEN "name" \in row.data.profile.have
       ELSE row.step = NextMissing(row.data.profile.have) /\ row.step # "complete"
AddressFits(row) ==
    LET d == row.data.address
    IN /\ d.resume # "none"
       /\ \/ row.step = "ask_address" /\ d.missing = {} /\ d.address \in {NoAddress, WholeAddress}
          \/ d.missing # {} /\ row.step = FirstMissing(d.missing)
             /\ d.address.has \union d.missing = Fields
          \/ row.step = "confirm_address" /\ d.missing = {} /\ d.address = WholeAddress
FormFitsDraft ==
    ~overlap =>
      /\ session.flow = "profile_collect" => ProfileFits(session)
      /\ session.flow = "address_collect" => AddressFits(session)
      /\ session.flow \notin Forms =>
           session.data.profile = NoProfileDraft /\ session.data.address = NoAddressDraft

\* If no two messages were ever handled together, a saved address is whole.
SavedAddressIsWhole ==
    ~overlap => customer.address \in {NoAddress, WholeAddress}

\* When a checkout is about to clear its cart, each line of that cart is on
\* exactly one of the orders it made, as it was in the cart, whether or not
\* their links could be made.
CheckoutCoversCart ==
    \A w \in Workers : pc[w] = "clear" =>
      \A p \in InCart(Data(w).cart) :
        \E i \in task[w].made :
          /\ orders[i].lines[p] = Data(w).cart[p]
          /\ \A j \in task[w].made \ {i} : p \notin InCart(orders[j].lines)

\* An order that waits for payment can be paid: it has a link, unless its
\* handler is about to make one or was stopped by a crash.
PendingIsPayable ==
    \A i \in DOMAIN orders :
      orders[i].status = "pending" /\ ~orders[i].link =>
        faults > 0 \/ \E w \in Workers : pc[w] = "link" /\ Latest(w) = i

\* If no two messages were ever handled together, a line leaves the cart, or
\* shrinks, only because the customer said so, because it is on an order, or
\* because the session expired: the forms leave the cart alone
\* (engine.py:123-124, 760-763).
Ordered(w, p) ==
    \E i \in task[w].made : orders[i].lines[p] = session.data.cart[p]
Shrinks(p) == session'.data.cart[p].qty < session.data.cart[p].qty
NothingIsLost ==
    [][\A p \in Products :
         ~overlap /\ Shrinks(p) =>
           \/ \E w \in Workers : Says(w, {"qty", "number", "clear"})
           \/ \E w \in Workers : pc[w] = "clear" /\ Ordered(w, p)
           \/ \E w \in Workers : pc[w] = "idle" /\ pc'[w] = "act"]_vars

----------------------------------------------------------------------------
(***************************************************************************)
(* What the comments say and the code does not do.                         *)
(***************************************************************************)

\* engine.py:760-763: the draft is "kept as a sibling to cart so an
\* in-progress cart is never disturbed by an interrupting profile-collection
\* turn".
CartSurvivesForms ==
    [][\A w \in Workers :
         \/ InForm(w)
         \/ Says(w, {"edit", "update_address", "checkout"})
         => session'.data.cart = session.data.cart \/ pc'[w] = pc[w]]_vars

\* engine.py:1127: "Please confirm your address, or tap a field to change it."
TapIsObeyed ==
    [][\A w \in Workers :
         /\ Answer(w, "address_collect")
         /\ seen[w].step = "confirm_address"
         /\ msg[w].do \in {"confirm", "edit_field"}
         /\ pc'[w] # pc[w]
         => \/ pc'[w] = "address_saved"
            \/ session'.step = msg[w].field
            \/ faults' > faults]_vars

=============================================================================
