------------------------ MODULE Conversation_proofs ------------------------
(***************************************************************************)
(* Proofs about Conversation, for any products, address fields, channels,  *)
(* scripts, number of slots and bounds.                                    *)
(***************************************************************************)
EXTENDS Conversation, TLAPS

(***************************************************************************)
(* Type correctness.  TypeOK is not inductive: a handler that is about to  *)
(* select a product must have one.                                         *)
(***************************************************************************)
TypeInv ==
    /\ TypeOK
    /\ \A w \in Workers : pc[w] = "select" => msg[w].item \in Products

\* The cart's operations make carts.
LEMMA CartTypes ==
    /\ EmptyCart \in Carts
    /\ \A cart \in Carts, p \in Products : AddItem(cart, p) \in Carts
    /\ \A cart \in Carts, p \in Products, q \in Nat, made \in LineKinds :
         SetQuantity(cart, p, q, made) \in Carts
  BY DEF EmptyCart, Carts, CartLines, NoLine, LineKinds, AddItem, SetQuantity, InCart

\* The first missing field is a field that is missing.
LEMMA FirstMissingType ==
    ASSUME NEW missing \in SUBSET Fields, missing # {}
    PROVE  FirstMissing(missing) \in missing
<1> DEFINE T == {i \in DOMAIN FieldOrder : FieldOrder[i] \in missing}
           n == Len(FieldOrder)
<1>1. n \in Nat /\ DOMAIN FieldOrder = 1..n
  BY FieldAssumption
<1>2. n <= 5   \* there are five fields, each listed once
  <2>1. \A i \in 1..n : FieldOrder[i] \in {"country", "state", "zip", "city", "street"}
    BY <1>1, FieldAssumption
  <2>2. \A i, j \in 1..n : i # j => FieldOrder[i] # FieldOrder[j]
    BY <1>1, FieldAssumption
  <2>3. QED
    BY <1>1, <2>1, <2>2
<1>3. T # {} /\ T \subseteq 1..5
  <2>1. T # {}
    BY <1>1 DEF Fields
  <2>2. QED
    BY <1>1, <1>2, <2>1
<1>4. \E i \in T : \A j \in T : i <= j
  <2>1. CASE 1 \in T
    BY <1>3, <2>1
  <2>2. CASE 1 \notin T /\ 2 \in T
    BY <1>3, <2>2
  <2>3. CASE 1 \notin T /\ 2 \notin T /\ 3 \in T
    BY <1>3, <2>3
  <2>4. CASE 1 \notin T /\ 2 \notin T /\ 3 \notin T
    BY <1>3, <2>4
  <2>5. QED
    BY <2>1, <2>2, <2>3, <2>4
<1>5. \E k \in DOMAIN FieldOrder :
         /\ FieldOrder[k] \in missing
         /\ \A j \in DOMAIN FieldOrder : FieldOrder[j] \in missing => k <= j
  BY <1>4
<1>6. QED
  BY <1>5 DEF FirstMissing

\* The drafts stay drafts.
LEMMA DraftTypes ==
    /\ NoProfileDraft \in ProfileDrafts
    /\ NoAddressDraft \in AddressDrafts
    /\ NoAddress \in Addresses
    /\ WholeAddress \in Addresses
    /\ \A d \in AddressDrafts, has \in SUBSET Fields : Parsed(d, has) \in AddressDrafts
    /\ \A d \in AddressDrafts, f \in Fields : Supplied(d, f) \in AddressDrafts
    /\ \A free \in BOOLEAN : Parses(free) \subseteq SUBSET Fields
    /\ \A has \in Filled : [given |-> TRUE, has |-> has] \in Addresses
  BY ConversationAssumption
     DEF NoProfileDraft, ProfileDrafts, NoAddressDraft, AddressDrafts, NoAddress,
         WholeAddress, Addresses, Resumes, Parsed, Supplied, Parses

LEMMA RowTypes ==
    /\ FreshRow \in Rows
    /\ NoTask \in Tasks
    /\ Nothing \in Messages
<1>1. FreshRow.data \in StateData
  BY CartTypes, DraftTypes DEF FreshRow, StateData
<1>2. FreshRow \in Rows
  BY <1>1 DEF FreshRow, Rows, Flows, Steps
<1>3. NoTask \in Tasks
  BY DraftTypes DEF NoTask, Tasks, Resumes
<1>4. Nothing \in Messages
  BY ConversationAssumption DEF Nothing, Messages, Arguments, Kinds, Words
<1>5. QED
  BY <1>2, <1>3, <1>4

LEMMA InitType == Init => TypeInv
<1> SUFFICES ASSUME Init PROVE TypeInv
  OBVIOUS
<1>1. /\ channel \in Channels /\ accepts \in Scripts
      /\ session \in Rows
      /\ customer \in [profile: SUBSET Contact, address: Addresses]
  BY RowTypes, DraftTypes DEF Init
<1>2. orders \in Seq(OrderRows) /\ Len(orders) <= MaxOrders
  BY ConversationAssumption DEF Init
<1>3. pc \in [Workers -> Stages] /\ \A w \in Workers : pc[w] # "select"
  BY DEF Init, Stages
<1>4. /\ msg \in [Workers -> Messages]
      /\ seen \in [Workers -> Rows]
      /\ task \in [Workers -> Tasks]
      /\ overlap \in BOOLEAN /\ faults \in Nat
  BY RowTypes DEF Init
<1>5. QED
  BY <1>1, <1>2, <1>3, <1>4 DEF TypeInv, TypeOK

----------------------------------------------------------------------------

\* What a commit writes is a row again.
LEMMA FlushedType ==
    ASSUME NEW row \in Rows, NEW old \in Rows, NEW new \in Rows
    PROVE  Flushed(row, old, new) \in Rows /\ Rewritten(row, old, new) \in Rows
  BY DEF Flushed, Rewritten, Kept, Rows

\* A handler goes on, with tables that are well typed.
LEMMA GoesType ==
    ASSUME TypeInv, NEW w \in Workers, NEW s \in Stages, NEW row \in Rows, NEW t \in Tasks,
           s = "select" => msg[w].item \in Products,
           Goes(w, s, row, t),
           session' \in Rows,
           customer' \in [profile: SUBSET Contact, address: Addresses],
           orders' \in Seq(OrderRows), Len(orders') <= MaxOrders
    PROVE  TypeInv'
<1>1. pc' \in [Workers -> Stages] /\ msg' \in [Workers -> Messages]
  BY RowTypes DEF Goes, TypeInv, TypeOK
<1>2. seen' \in [Workers -> Rows] /\ task' \in [Workers -> Tasks]
  BY RowTypes DEF Goes, TypeInv, TypeOK
<1>3. \A v \in Workers : pc'[v] = "select" => msg'[v].item \in Products
  BY DEF Goes, TypeInv, TypeOK
<1>4. UNCHANGED <<channel, accepts, overlap, faults>>
  BY DEF Goes
<1>5. QED
  BY <1>1, <1>2, <1>3, <1>4 DEF TypeInv, TypeOK

LEMMA CommitType ==
    ASSUME TypeInv, NEW w \in Workers, NEW new \in Rows, NEW s \in Stages, NEW t \in Tasks,
           s = "select" => msg[w].item \in Products,
           Commit(w, new, s, t)
    PROVE  TypeInv'
<1>1. session' \in Rows
  BY FlushedType DEF Commit, TypeInv, TypeOK
<1>2. QED
  BY <1>1, GoesType DEF Commit, TypeInv, TypeOK

LEMMA UpdateType ==
    ASSUME TypeInv, NEW w \in Workers, NEW new \in Rows, NEW s \in Stages,
           s = "select" => msg[w].item \in Products,
           Update(w, new, s)
    PROVE  TypeInv'
  BY CommitType DEF Update, TypeInv, TypeOK

LEMMA EnterType ==
    ASSUME TypeInv, NEW w \in Workers, NEW flow \in Flows, NEW step \in Steps,
           Enter(w, flow, step)
    PROVE  TypeInv'
<1>1. At(w, flow, step) \in Rows
  BY DEF At, TypeInv, TypeOK, Rows
<1>2. session' \in Rows
  BY <1>1, FlushedType DEF Enter, TypeInv, TypeOK
<1>3. QED
  BY <1>2, GoesType DEF Enter, Stages, TypeInv, TypeOK

LEMMA StayType ==
    ASSUME TypeInv, NEW w \in Workers, Stay(w)
    PROVE  TypeInv'
  BY GoesType DEF Stay, Stages, TypeInv, TypeOK

LEMMA ArriveType ==
    ASSUME TypeInv, NEW w \in Workers, NEW m \in accepts[w], NEW expired \in BOOLEAN,
           Arrive(w, m, expired)
    PROVE  TypeInv'
<1>1. m \in Messages
  BY ConversationAssumption DEF TypeInv, TypeOK
<1>2. session' \in Rows
  BY RowTypes DEF Arrive, TypeInv, TypeOK
<1>3. /\ pc' \in [Workers -> Stages]
      /\ msg' \in [Workers -> Messages]
      /\ seen' \in [Workers -> Rows]
      /\ task' \in [Workers -> Tasks]
      /\ overlap' \in BOOLEAN
  BY <1>1, <1>2, RowTypes DEF Arrive, TypeInv, TypeOK, Stages
<1>4. \A v \in Workers : pc'[v] = "select" => msg'[v].item \in Products
  BY DEF Arrive, TypeInv, TypeOK
<1>5. QED
  BY <1>2, <1>3, <1>4 DEF Arrive, TypeInv, TypeOK

LEMMA CrashType ==
    ASSUME TypeInv, Crash
    PROVE  TypeInv'
<1>1. /\ pc' \in [Workers -> Stages]
      /\ msg' \in [Workers -> Messages]
      /\ seen' \in [Workers -> Rows]
      /\ task' \in [Workers -> Tasks]
      /\ faults' \in Nat
  BY RowTypes DEF Crash, Stages, TypeInv, TypeOK
<1>2. QED
  BY <1>1 DEF Crash, TypeInv, TypeOK

----------------------------------------------------------------------------

\* What a handler holds, and the row it may write back.
LEMMA HeldTypes ==
    ASSUME TypeInv, NEW w \in Workers
    PROVE  /\ seen[w] \in Rows /\ msg[w] \in Messages /\ task[w] \in Tasks
           /\ Data(w) \in StateData
           /\ Data(w).cart \in Carts
           /\ Data(w).profile \in ProfileDrafts
           /\ Data(w).address \in AddressDrafts
           /\ Data(w).selected \in Products \union {NoProduct}
           /\ msg[w].do \in {"add", "qty"} => msg[w].item \in Products
           /\ msg[w].do = "edit_field" => msg[w].field \in Fields
           /\ msg[w].qty \in 0..MaxQty
<1>1. seen[w] \in Rows /\ msg[w] \in Messages /\ task[w] \in Tasks
  BY DEF TypeInv, TypeOK
<1>2. Data(w) \in StateData
  BY <1>1 DEF Data, Rows
<1>3. QED
  BY <1>1, <1>2 DEF StateData, Messages, Arguments

LEMMA AtType ==
    ASSUME TypeInv, NEW w \in Workers, NEW flow \in Flows, NEW step \in Steps
    PROVE  At(w, flow, step) \in Rows
  BY HeldTypes DEF At, Rows

LEMMA RowUpdates ==
    ASSUME NEW row \in Rows
    PROVE  /\ \A cart \in Carts : [row EXCEPT !.data.cart = cart] \in Rows
           /\ \A p \in Products : [row EXCEPT !.data.selected = p] \in Rows
           /\ \A d \in ProfileDrafts : [row EXCEPT !.data.profile = d] \in Rows
           /\ \A d \in AddressDrafts : [row EXCEPT !.data.address = d] \in Rows
           /\ \A c \in SUBSET Contact : [row EXCEPT !.data.wprofile = c] \in Rows
           /\ \A a \in Addresses : [row EXCEPT !.data.waddress = a] \in Rows
  BY DEF Rows, StateData

LEMMA SaveCartType ==
    ASSUME TypeInv, NEW w \in Workers, NEW cart \in Carts, NEW s \in Stages,
           s = "select" => msg[w].item \in Products, SaveCart(w, cart, s)
    PROVE  TypeInv'
  BY HeldTypes, RowUpdates, UpdateType DEF SaveCart

\* Menus and the cart.
LEMMA CartHandlersType ==
    ASSUME TypeInv, NEW w \in Workers,
           \/ CancelForm(w) \/ MainMenu(w) \/ BrowseCatalog(w)
           \/ CartAdd(w) \/ QuantityButton(w) \/ Select(w) \/ TypedQuantity(w)
           \/ ViewCart(w) \/ ClearCart(w) \/ TrackOrder(w) \/ MyPurchases(w)
           \/ MyProfile(w) \/ Unmatched(w) \/ SubmitWidgetForm(w)
    PROVE  TypeInv'
<1> USE DEF Stages
<1>1. CASE CancelForm(w)
  <2>1. WithoutDraft(seen[w]) \in Rows
    <3>1. WithoutDraft(seen[w]).data \in StateData
      <4>1. seen[w].data \in StateData
        BY HeldTypes DEF Data
      <4>2. NoProfileDraft \in ProfileDrafts /\ NoAddressDraft \in AddressDrafts
        BY DraftTypes
      <4>3. \A q \in ProfileDrafts, b \in AddressDrafts :
              [seen[w].data EXCEPT !.profile = q, !.address = b] \in StateData
        BY <4>1 DEF StateData
      <4>4. QED
        BY <4>1, <4>2, <4>3 DEF WithoutDraft, StateData
    <3>2. QED
      BY <3>1 DEF WithoutDraft, Rows, Flows, Steps
  <2>2. QED
    BY <1>1, <2>1, UpdateType DEF CancelForm
<1>2. CASE MainMenu(w) \/ BrowseCatalog(w) \/ TrackOrder(w) \/ MyPurchases(w) \/ MyProfile(w)
  BY <1>2, EnterType, StayType
     DEF MainMenu, BrowseCatalog, TrackOrder, MyPurchases, MyProfile, Flows, Steps
<1>3. CASE CartAdd(w)
  <2>1. msg[w].item \in Products
    BY <1>3, HeldTypes DEF CartAdd, Free, Says
  <2>2. AddItem(Data(w).cart, msg[w].item) \in Carts
    BY <2>1, HeldTypes, CartTypes
  <2>3. QED
    BY <1>3, <2>1, <2>2, SaveCartType DEF CartAdd
<1>4. CASE QuantityButton(w)
  <2>1. msg[w].item \in Products /\ msg[w].qty \in Nat
    BY <1>4, HeldTypes, ConversationAssumption DEF QuantityButton, Free, Says
  <2>2. SetQuantity(Data(w).cart, msg[w].item, msg[w].qty, "priced") \in Carts
    BY <2>1, HeldTypes, CartTypes DEF LineKinds
  <2>3. QED
    BY <1>4, <2>1, <2>2, SaveCartType DEF QuantityButton
<1>5. CASE Select(w)
  <2>1. msg[w].item \in Products
    BY <1>5 DEF Select, TypeInv
  <2>2. At(w, "quantity_select", msg[w].item) \in Rows
    BY <2>1, AtType DEF Flows, Steps
  <2>3. QED
    BY <1>5, <2>1, <2>2, RowUpdates, UpdateType DEF Select
<1>6. CASE TypedQuantity(w)
  <2>1. Data(w).selected \in Products /\ msg[w].qty \in Nat
    BY <1>6, HeldTypes, ConversationAssumption DEF TypedQuantity
  <2>2. SetQuantity(Data(w).cart, Data(w).selected, msg[w].qty, "free") \in Carts
    BY <2>1, HeldTypes, CartTypes DEF LineKinds
  <2>3. QED
    BY <1>6, <2>2, SaveCartType DEF TypedQuantity
<1>7. CASE ViewCart(w) \/ Unmatched(w)
  BY <1>7, StayType DEF ViewCart, Unmatched
<1>8. CASE ClearCart(w)
  BY <1>8, CartTypes, SaveCartType DEF ClearCart
<1>9. CASE SubmitWidgetForm(w)
  BY <1>9, HeldTypes, RowUpdates, DraftTypes, UpdateType DEF SubmitWidgetForm
<1>10. QED
  BY <1>1, <1>2, <1>3, <1>4, <1>5, <1>6, <1>7, <1>8, <1>9

\* The profile form.
LEMMA StartProfileType ==
    ASSUME TypeInv, NEW w \in Workers, NEW resume \in Resumes, StartProfile(w, resume)
    PROVE  TypeInv'
<1> DEFINE full == resume = "profile_view"
           have == IF full THEN OwnPhone ELSE KnownProfile \union OwnPhone
           saved == IF full THEN KnownProfile \union OwnPhone ELSE {}
<1>1. KnownProfile \subseteq Contact /\ OwnPhone \subseteq Contact
  BY DEF KnownProfile, OwnPhone, Contact, TypeInv, TypeOK
<1>2. have \subseteq Contact /\ saved \subseteq Contact
  BY <1>1
<1>3. PICK offered \in BOOLEAN :
         Update(w, [At(w, "profile_collect", IF offered THEN "confirm_prefill" ELSE "ask_name")
                      EXCEPT !.data.profile =
                        [resume |-> resume,
                         have |-> IF offered THEN have \union {"name"} ELSE have,
                         saved |-> saved]], "idle")
  <2>1. PICK prefill \in BOOLEAN : StartProfile(w, resume)!(prefill)
    BY DEF StartProfile
  <2>2. (~full /\ channel # "widget" /\ ("name" \in have \/ prefill)) \in BOOLEAN
    OBVIOUS
  <2>3. QED
    BY <2>1, <2>2
<1>4. [resume |-> resume, have |-> IF offered THEN have \union {"name"} ELSE have,
       saved |-> saved] \in ProfileDrafts
  BY <1>2 DEF ProfileDrafts, Contact
<1>5. At(w, "profile_collect", IF offered THEN "confirm_prefill" ELSE "ask_name") \in Rows
  BY AtType DEF Flows, Steps, ProfileSteps
<1>6. QED
  BY <1>3, <1>4, <1>5, RowUpdates, UpdateType DEF Stages

LEMMA AdvanceProfileType ==
    ASSUME TypeInv, NEW w \in Workers, NEW draft \in ProfileDrafts, AdvanceProfile(w, draft)
    PROVE  TypeInv'
<1>1. CASE NextMissing(draft.have) # "complete"
  <2>1. At(w, "profile_collect", NextMissing(draft.have)) \in Rows
    BY <1>1, AtType DEF NextMissing, Flows, Steps, ProfileSteps
  <2>2. QED
    BY <1>1, <2>1, RowUpdates, UpdateType DEF AdvanceProfile, Stages
<1>2. CASE NextMissing(draft.have) = "complete"
  <2>1. customer' \in [profile: SUBSET Contact, address: Addresses]
    BY <1>2 DEF AdvanceProfile, ProfileDrafts, TypeInv, TypeOK
  <2>2. [NoTask EXCEPT !.resume = draft.resume, !.contact = draft.have,
                       !.address = customer.address] \in Tasks
    BY RowTypes DEF ProfileDrafts, Tasks, TypeInv, TypeOK
  <2>3. QED
    BY <1>2, <2>1, <2>2, HeldTypes, GoesType DEF AdvanceProfile, Stages, TypeInv, TypeOK
<1>3. QED
  BY <1>1, <1>2

LEMMA ProfileHandlersType ==
    ASSUME TypeInv, NEW w \in Workers,
           EditProfile(w) \/ ConfirmName(w) \/ AnswerField(w) \/ UnknownStep(w)
    PROVE  TypeInv'
<1>1. CASE EditProfile(w)
  BY <1>1, EnterType, StartProfileType DEF EditProfile, Flows, Steps, Resumes
<1>2. CASE ConfirmName(w)
  <2> DEFINE d == Data(w).profile
             renamed == [d EXCEPT !.have = d.have \ {"name"}]
  <2>1. d \in ProfileDrafts /\ renamed \in ProfileDrafts
    BY HeldTypes DEF ProfileDrafts
  <2>2. \/ Update(w, [At(w, "profile_collect", "ask_name") EXCEPT !.data.profile = renamed], "idle")
        \/ AdvanceProfile(w, d)
    BY <1>2 DEF ConfirmName
  <2>3. At(w, "profile_collect", "ask_name") \in Rows
    BY AtType DEF Flows, Steps, ProfileSteps
  <2>4. QED
    BY <2>1, <2>2, <2>3, RowUpdates, UpdateType, AdvanceProfileType DEF Stages
<1>3. CASE AnswerField(w)
  <2> DEFINE d == Data(w).profile
             f == Asked(seen[w].step)
             answered == [d EXCEPT !.have = @ \union {f}]
  <2>1. answered \in ProfileDrafts
    BY HeldTypes DEF ProfileDrafts, Asked, Contact
  <2>2. AdvanceProfile(w, answered) \/ Stay(w)
    BY <1>3 DEF AnswerField
  <2>3. QED
    BY <2>1, <2>2, AdvanceProfileType, StayType
<1>4. CASE UnknownStep(w)
  BY <1>4, EnterType, StayType DEF UnknownStep, Flows, Steps
<1>5. QED
  BY <1>1, <1>2, <1>3, <1>4

\* The address form.
LEMMA StartAddressType ==
    ASSUME TypeInv, NEW w \in Workers, NEW resume \in Resumes, NEW who \in SUBSET Contact,
           NEW address \in Addresses, StartAddress(w, resume, who, address)
    PROVE  TypeInv'
<1>1. [resume |-> resume, who |-> who, address |-> address, missing |-> {}] \in AddressDrafts
  BY DEF AddressDrafts
<1>2. At(w, "address_collect", "ask_address") \in Rows
  BY AtType DEF Flows, Steps
<1>3. QED
  BY <1>1, <1>2, RowUpdates, UpdateType DEF StartAddress, Stages

LEMMA AdvanceAddressType ==
    ASSUME TypeInv, NEW w \in Workers, NEW draft \in AddressDrafts, AdvanceAddress(w, draft)
    PROVE  TypeInv'
<1> DEFINE step == IF draft.missing = {} THEN "confirm_address" ELSE FirstMissing(draft.missing)
<1>1. step \in Steps
  BY FirstMissingType DEF AddressDrafts, Steps
<1>2. At(w, "address_collect", step) \in Rows
  BY <1>1, AtType DEF Flows
<1>3. QED
  BY <1>2, RowUpdates, UpdateType DEF AdvanceAddress, Stages

LEMMA AddressHandlersType ==
    ASSUME TypeInv, NEW w \in Workers,
           UpdateAddress(w) \/ GiveAddress(w) \/ GiveMissing(w) \/ ConfirmAddress(w)
    PROVE  TypeInv'
<1>1. CASE UpdateAddress(w)
  BY <1>1, EnterType, StartAddressType DEF UpdateAddress, Flows, Steps, Resumes, TypeInv, TypeOK
<1>2. CASE GiveAddress(w)
  BY <1>2, HeldTypes, DraftTypes, AdvanceAddressType DEF GiveAddress
<1>3. CASE GiveMissing(w)
  BY <1>3, HeldTypes, DraftTypes, AdvanceAddressType, StayType DEF GiveMissing
<1>4. CASE ConfirmAddress(w)
  <2>1. CASE SaveAddress(w)
    <3> DEFINE d == Data(w).address
               t == [NoTask EXCEPT !.resume = d.resume, !.address = d.address,
                                   !.contact = d.who \union customer.profile]
    <3>1. d \in AddressDrafts
      BY HeldTypes
    <3>2. t \in Tasks
      BY <3>1, RowTypes DEF AddressDrafts, Tasks, TypeInv, TypeOK
    <3>3. customer' \in [profile: SUBSET Contact, address: Addresses]
      BY <2>1, <3>1 DEF SaveAddress, AddressDrafts, TypeInv, TypeOK
    <3>4. QED
      BY <2>1, <3>2, <3>3, HeldTypes, GoesType DEF SaveAddress, Stages, TypeInv, TypeOK
  <2>2. CASE Tapped(w, "edit_field") /\ ~SaveAddress(w) /\ ~Stay(w)
    <3>1. msg[w].field \in Fields
      BY <2>2, HeldTypes DEF Tapped
    <3>2. At(w, "address_collect", msg[w].field) \in Rows
      BY <3>1, AtType DEF Flows, Steps
    <3>3. [At(w, "address_collect", msg[w].field)
             EXCEPT !.data.address.missing = {msg[w].field}] \in Rows
      BY <3>1, <3>2 DEF Rows, StateData, AddressDrafts
    <3>4. QED
      BY <1>4, <2>2, <3>3, UpdateType DEF ConfirmAddress, Stages
  <2>3. QED
    BY <1>4, <2>1, <2>2, StayType DEF ConfirmAddress
<1>5. QED
  BY <1>1, <1>2, <1>3, <1>4

\* Checkout.
LEMMA BilledType ==
    ASSUME TypeInv, NEW w \in Workers, NEW contact \in SUBSET Contact, NEW address \in Addresses
    PROVE  Billed(w, contact, address) \in Tasks
<1>1. GroupsOf(Data(w).cart) \subseteq {"bumpa", "paystack"}
  BY DEF GroupsOf
<1>2. QED
  BY <1>1, RowTypes, DraftTypes DEF Billed, Tasks

LEMMA DeliveryType ==
    ASSUME TypeInv, NEW w \in Workers, NEW address \in Addresses
    PROVE  Delivery(w, address) \in Addresses
  BY HeldTypes, DraftTypes DEF Delivery, StateData

LEMMA CheckoutType ==
    ASSUME TypeInv, NEW w \in Workers, Checkout(w)
    PROVE  TypeInv'
<1>1. CASE Stay(w)
  BY <1>1, StayType
<1>2. CASE StartProfile(w, "cart")
  BY <1>2, StartProfileType DEF Resumes
<1>3. CASE StartAddress(w, "cart", {}, customer.address)
  BY <1>3, StartAddressType DEF Resumes, TypeInv, TypeOK
<1>4. CASE /\ Goes(w, "order", seen[w], Billed(w, Contact, Delivery(w, customer.address)))
           /\ UNCHANGED <<session, customer, orders>>
  <2>1. Billed(w, Contact, Delivery(w, customer.address)) \in Tasks
    BY BilledType, DeliveryType DEF TypeInv, TypeOK
  <2>2. QED
    BY <1>4, <2>1, HeldTypes, GoesType DEF Stages, TypeInv, TypeOK
<1>5. QED
  BY <1>1, <1>2, <1>3, <1>4 DEF Checkout

LEMMA ResumeType ==
    ASSUME TypeInv, NEW w \in Workers, NEW new \in Rows,
           NEW s \in {"ask_address", "order", "idle"}, NEW address \in Addresses,
           Resume(w, new, s, address)
    PROVE  TypeInv'
<1> DEFINE t == IF s = "order" THEN Billed(w, task[w].contact, address) ELSE task[w]
<1>1. task[w] \in Tasks /\ task[w].contact \in SUBSET Contact
  BY HeldTypes DEF Tasks
<1>2. t \in Tasks
  BY <1>1, BilledType
<1>3. QED
  BY <1>2, CommitType DEF Resume, Stages

LEMMA OrderOfType ==
    ASSUME TypeInv, NEW w \in Workers, NEW g \in {"bumpa", "paystack"}
    PROVE  OrderOf(w, g) \in OrderRows
<1>1. [p \in Products |-> IF p \in GroupOf(Data(w).cart, g) THEN Data(w).cart[p] ELSE NoLine]
        \in Carts
  BY HeldTypes DEF Carts, CartLines
<1>2. task[w].contact \in SUBSET Contact /\ task[w].address \in Addresses
  BY HeldTypes DEF Tasks
<1>3. QED
  BY <1>1, <1>2 DEF OrderOf, OrderRows

\* One order changes; the others, and how many there are, stay.
LEMMA OrderUpdate ==
    ASSUME NEW q \in Seq(OrderRows), NEW i, NEW o, i \in DOMAIN q => o \in OrderRows
    PROVE  /\ [q EXCEPT ![i] = o] \in Seq(OrderRows)
           /\ Len([q EXCEPT ![i] = o]) = Len(q)
<1> DEFINE r == [q EXCEPT ![i] = o]
           n == Len(q)
<1>1. n \in Nat /\ DOMAIN q = 1..n /\ q \in [1..n -> OrderRows]
  OBVIOUS
<1>2. r \in [1..n -> OrderRows]
  BY <1>1
<1>3. QED
  BY <1>1, <1>2

LEMMA CheckoutHandlersType ==
    ASSUME TypeInv, NEW w \in Workers,
           \/ FinishProfile(w) \/ AskAddress(w) \/ FinishAddress(w)
           \/ CreateOrder(w) \/ MakeLink(w) \/ LinkFails(w) \/ ClearAfterCheckout(w)
    PROVE  TypeInv'
<1>1. CASE FinishProfile(w)
  <2> DEFINE data == [Data(w) EXCEPT
                        !.profile = NoProfileDraft,
                        !.wprofile = IF channel = "widget" THEN task[w].contact ELSE @]
             new == [flow |-> "none", step |-> "none", data |-> data]
  <2>1. data \in StateData
    <3>1. task[w].contact \in SUBSET Contact
      BY HeldTypes DEF Tasks
    <3>2. QED
      BY <3>1, HeldTypes, DraftTypes DEF StateData
  <2>2. new \in Rows
    BY <2>1 DEF Rows, Flows, Steps
  <2>3. \E s \in {"ask_address", "order", "idle"} :
          Resume(w, new, s, Delivery(w, task[w].address))
    BY <1>1 DEF FinishProfile
  <2>4. Delivery(w, task[w].address) \in Addresses
    BY HeldTypes, DeliveryType DEF Tasks
  <2>5. QED
    BY <2>2, <2>3, <2>4, ResumeType
<1>2. CASE AskAddress(w)
  <2>1. task[w].contact \in SUBSET Contact /\ task[w].address \in Addresses
    BY HeldTypes DEF Tasks
  <2>2. QED
    BY <1>2, <2>1, StartAddressType DEF AskAddress, Resumes
<1>3. CASE FinishAddress(w)
  <2>1. [At(w, "none", "none") EXCEPT !.data.address = NoAddressDraft] \in Rows
    BY AtType, RowUpdates, DraftTypes DEF Flows, Steps
  <2>2. task[w].address \in Addresses
    BY HeldTypes DEF Tasks
  <2>3. QED
    BY <1>3, <2>1, <2>2, ResumeType DEF FinishAddress
<1>4. CASE CreateOrder(w)
  <2>1. OrderOf(w, NextGroup(w)) \in OrderRows
    BY OrderOfType DEF NextGroup
  <2>2. orders \in Seq(OrderRows) /\ Len(orders) < MaxOrders /\ MaxOrders \in Nat
    BY <1>4, ConversationAssumption DEF CreateOrder, TypeInv, TypeOK
  <2>3. orders' \in Seq(OrderRows) /\ Len(orders') <= MaxOrders
    BY <1>4, <2>1, <2>2 DEF CreateOrder
  <2>4. Len(orders) + 1 \in 1..MaxOrders
    BY <2>2
  <2>5. [task[w] EXCEPT !.left = @ \ {NextGroup(w)},
                        !.made = @ \union {Len(orders) + 1}] \in Tasks
    BY <2>4, HeldTypes DEF Tasks
  <2>6. QED
    BY <1>4, <2>3, <2>5, HeldTypes, GoesType DEF CreateOrder, Stages, TypeInv, TypeOK
<1>5. CASE MakeLink(w)
  <2>1. orders \in Seq(OrderRows) /\ Len(orders) <= MaxOrders
    BY DEF TypeInv, TypeOK
  <2>2. orders' \in Seq(OrderRows) /\ Len(orders') = Len(orders)
    <3>1. orders' = [orders EXCEPT ![Latest(w)] = [orders[Latest(w)] EXCEPT !.link = TRUE]]
      BY <1>5 DEF MakeLink
    <3>2. \A o \in OrderRows : [o EXCEPT !.link = TRUE] \in OrderRows
      BY DEF OrderRows
    <3>3. \A i \in DOMAIN orders : orders[i] \in OrderRows
      BY <2>1
    <3>4. QED
      BY <2>1, <3>1, <3>2, <3>3, OrderUpdate
  <2>3. QED
    BY <1>5, <2>1, <2>2, HeldTypes, GoesType DEF MakeLink, Stages, TypeInv, TypeOK
<1>6. CASE LinkFails(w)
  <2>1. orders \in Seq(OrderRows) /\ Len(orders) <= MaxOrders
    BY DEF TypeInv, TypeOK
  <2>2. orders' \in Seq(OrderRows) /\ Len(orders') = Len(orders)
    <3>1. orders' = [orders EXCEPT ![Latest(w)] = Failed(orders[Latest(w)])]
      BY <1>6 DEF LinkFails
    <3>2. \A o \in OrderRows : Failed(o) \in OrderRows
      BY DEF Failed, OrderRows
    <3>3. \A i \in DOMAIN orders : orders[i] \in OrderRows
      BY <2>1
    <3>4. QED
      BY <2>1, <3>1, <3>2, <3>3, OrderUpdate
  <2>3. QED
    BY <1>6, <2>1, <2>2, HeldTypes, GoesType
       DEF LinkFails, AfterFailure, Stages, TypeInv, TypeOK
<1>7. CASE ClearAfterCheckout(w)
  BY <1>7, CartTypes, SaveCartType DEF ClearAfterCheckout, Stages
<1>8. QED
  BY <1>1, <1>2, <1>3, <1>4, <1>5, <1>6, <1>7

LEMMA NextType == TypeInv /\ [Next]_vars => TypeInv'
<1> SUFFICES ASSUME TypeInv, [Next]_vars PROVE TypeInv'
  OBVIOUS
<1>1. ASSUME NEW w \in Workers, NEW m \in accepts[w], NEW expired \in BOOLEAN,
             Arrive(w, m, expired)
      PROVE  TypeInv'
  BY <1>1, ArriveType
<1>2. ASSUME NEW w \in Workers, Handle(w)
      PROVE  TypeInv'
  BY <1>2, CartHandlersType, ProfileHandlersType, AddressHandlersType, CheckoutType,
     CheckoutHandlersType DEF Handle
<1>3. CASE Crash
  BY <1>3, CrashType
<1>4. CASE UNCHANGED vars
  BY <1>4 DEF vars, TypeInv, TypeOK
<1>5. QED
  BY <1>1, <1>2, <1>3, <1>4 DEF Next

\* Whatever messages arrive and however they overlap, the session row, the
\* customer row, the orders and every handler stay well typed; in particular
\* no line of a cart or order has quantity 0 (engine.py, cart.py:121-131).
THEOREM ConversationTypeCorrect == Spec => []TypeOK
<1>1. TypeInv => TypeOK
  BY DEF TypeInv
<1>2. QED
  BY <1>1, InitType, NextType, PTL DEF Spec

----------------------------------------------------------------------------
(***************************************************************************)
(* Orders have a contact.  The argument: wherever a checkout may resume    *)
(* from, either it carries a whole contact or the customer row has a whole *)
(* profile, and a profile never loses a field.                             *)
(***************************************************************************)
BillsContact(row) ==
    row.data.address.resume = "cart" =>
      row.data.address.who = Contact \/ customer.profile = Contact
CarriesContact(w) ==
    /\ pc[w] \in {"profile_saved", "ask_address", "order", "link"} => task[w].contact = Contact
    /\ pc[w] = "address_saved" /\ task[w].resume = "cart" => task[w].contact = Contact
ContactInv ==
    /\ OrdersHaveContact
    /\ BillsContact(session)
    /\ \A w \in Workers : BillsContact(seen[w]) /\ CarriesContact(w)

\* What a handler must show when it goes on to stage s with task t.
Carries(s, t) ==
    /\ s \in {"profile_saved", "ask_address", "order", "link"} => t.contact = Contact
    /\ s = "address_saved" /\ t.resume = "cart" => t.contact = Contact

LEMMA GoesContact ==
    ASSUME TypeInv, ContactInv, NEW w \in Workers, NEW s, NEW row, NEW t,
           Goes(w, s, row, t), Carries(s, t), BillsContact(row),
           session'.data.address \in {session.data.address, row.data.address},
           customer.profile = Contact => customer'.profile = Contact,
           OrdersHaveContact'
    PROVE  ContactInv'
<1>1. BillsContact(session)'
  BY DEF ContactInv, BillsContact
<1>2. ASSUME NEW v \in Workers
      PROVE  BillsContact(seen[v])' /\ CarriesContact(v)'
  <2>1. CASE v = w /\ s = "idle"
    <3>1. seen'[v] = FreshRow /\ pc'[v] = "idle"
      BY <2>1 DEF Goes, TypeInv, TypeOK
    <3>2. QED
      BY <3>1 DEF BillsContact, FreshRow, NoAddressDraft, CarriesContact
  <2>2. CASE v = w /\ s # "idle"
    <3>1. seen'[v] = row /\ pc'[v] = s /\ task'[v] = t
      BY <2>2 DEF Goes, TypeInv, TypeOK
    <3>2. QED
      BY <3>1 DEF BillsContact, CarriesContact, Carries
  <2>3. CASE v # w
    <3>1. seen'[v] = seen[v] /\ pc'[v] = pc[v] /\ task'[v] = task[v]
      BY <2>3 DEF Goes, TypeInv, TypeOK
    <3>2. QED
      BY <3>1 DEF BillsContact, CarriesContact, ContactInv
  <2>4. QED
    BY <2>1, <2>2, <2>3
<1>3. QED
  BY <1>1, <1>2 DEF ContactInv

LEMMA CommitContact ==
    ASSUME TypeInv, ContactInv, NEW w \in Workers, NEW new, NEW s, NEW t,
           Commit(w, new, s, t), Carries(s, t), BillsContact(new)
    PROVE  ContactInv'
<1>1. session'.data \in {session.data, new.data}
  BY DEF Commit, Flushed, Rewritten, Kept, TypeInv, TypeOK, Rows
<1>2. OrdersHaveContact'
  BY DEF Commit, ContactInv, OrdersHaveContact
<1>3. QED
  BY <1>1, <1>2, GoesContact DEF Commit

\* A commit that ends a handler and leaves the address draft alone.
LEMMA UpdateContact ==
    ASSUME TypeInv, ContactInv, NEW w \in Workers, NEW new, NEW s \in {"idle", "act", "select"},
           Update(w, new, s),
           new.data.address = seen[w].data.address \/ new.data.address = NoAddressDraft
    PROVE  ContactInv'
<1>1. BillsContact(new)
  BY DEF ContactInv, BillsContact, NoAddressDraft
<1>2. QED
  BY <1>1, CommitContact DEF Update, Carries

LEMMA EnterContact ==
    ASSUME TypeInv, ContactInv, NEW w \in Workers, NEW flow, NEW step,
           Enter(w, flow, step)
    PROVE  ContactInv'
<1>1. session'.data = session.data
  BY HeldTypes DEF Enter, At, Flushed, Kept, TypeInv, TypeOK, Rows
<1>2. OrdersHaveContact' /\ BillsContact(seen[w])
  BY DEF Enter, ContactInv, OrdersHaveContact
<1>3. QED
  BY <1>1, <1>2, GoesContact DEF Enter, Carries

LEMMA StayContact ==
    ASSUME TypeInv, ContactInv, NEW w \in Workers, Stay(w)
    PROVE  ContactInv'
<1>1. OrdersHaveContact' /\ BillsContact(seen[w])
  BY DEF Stay, ContactInv, OrdersHaveContact
<1>2. QED
  BY <1>1, GoesContact DEF Stay, Carries

\* A row written without its address draft being touched.
LEMMA KeepsAddress ==
    ASSUME NEW row \in Rows
    PROVE  /\ \A cart : [row EXCEPT !.data.cart = cart].data.address = row.data.address
           /\ \A p : [row EXCEPT !.data.selected = p].data.address = row.data.address
           /\ \A d : [row EXCEPT !.data.profile = d].data.address = row.data.address
           /\ \A c : [row EXCEPT !.data.wprofile = c].data.address = row.data.address
           /\ \A a : [row EXCEPT !.data.waddress = a].data.address = row.data.address
           /\ \A f \in Flows, t \in Steps :
                [row EXCEPT !.flow = f, !.step = t].data = row.data
  BY DEF Rows, StateData

LEMMA SaveCartContact ==
    ASSUME TypeInv, ContactInv, NEW w \in Workers, NEW cart,
           NEW s \in {"idle", "select"}, SaveCart(w, cart, s)
    PROVE  ContactInv'
  BY HeldTypes, KeepsAddress, UpdateContact DEF SaveCart

LEMMA CartHandlersContact ==
    ASSUME TypeInv, ContactInv, NEW w \in Workers,
           \/ CancelForm(w) \/ MainMenu(w) \/ BrowseCatalog(w)
           \/ CartAdd(w) \/ QuantityButton(w) \/ Select(w) \/ TypedQuantity(w)
           \/ ViewCart(w) \/ ClearCart(w) \/ TrackOrder(w) \/ MyPurchases(w)
           \/ MyProfile(w) \/ Unmatched(w) \/ SubmitWidgetForm(w)
    PROVE  ContactInv'
<1>1. CASE CancelForm(w)
  <2>1. \/ WithoutDraft(seen[w]).data.address = seen[w].data.address
        \/ WithoutDraft(seen[w]).data.address = NoAddressDraft
    BY HeldTypes DEF WithoutDraft, Data, StateData
  <2>2. QED
    BY <1>1, <2>1, UpdateContact DEF CancelForm
<1>2. CASE MainMenu(w) \/ BrowseCatalog(w) \/ TrackOrder(w) \/ MyPurchases(w) \/ MyProfile(w)
  BY <1>2, EnterContact, StayContact
     DEF MainMenu, BrowseCatalog, TrackOrder, MyPurchases, MyProfile
<1>3. CASE CartAdd(w) \/ QuantityButton(w) \/ TypedQuantity(w) \/ ClearCart(w)
  BY <1>3, SaveCartContact DEF CartAdd, QuantityButton, TypedQuantity, ClearCart
<1>4. CASE Select(w)
  <2>1. msg[w].item \in Products
    BY <1>4 DEF Select, TypeInv
  <2>2. At(w, "quantity_select", msg[w].item) \in Rows
    BY <2>1, AtType DEF Flows, Steps
  <2>3. At(w, "quantity_select", msg[w].item).data = seen[w].data
    BY HeldTypes DEF At, Rows
  <2>4. QED
    BY <1>4, <2>2, <2>3, KeepsAddress, UpdateContact DEF Select
<1>5. CASE ViewCart(w) \/ Unmatched(w)
  BY <1>5, StayContact DEF ViewCart, Unmatched
<1>6. CASE SubmitWidgetForm(w)
  BY <1>6, HeldTypes, KeepsAddress, UpdateContact DEF SubmitWidgetForm
<1>7. QED
  BY <1>1, <1>2, <1>3, <1>4, <1>5, <1>6

LEMMA ProfileDraftContact ==
    ASSUME TypeInv, ContactInv, NEW w \in Workers, NEW step \in Steps, NEW draft,
           Update(w, [At(w, "profile_collect", step) EXCEPT !.data.profile = draft], "idle")
    PROVE  ContactInv'
<1> DEFINE row == At(w, "profile_collect", step)
           new == [row EXCEPT !.data.profile = draft]
<1>1. row \in Rows
  BY AtType DEF Flows
<1>2. row.data = seen[w].data
  BY HeldTypes DEF At, Rows
<1>3. new.data.address = row.data.address
  <2> HIDE DEF row
  <2>1. QED
    BY <1>1 DEF Rows, StateData
<1>4. QED
  BY <1>2, <1>3, UpdateContact

LEMMA StartProfileContact ==
    ASSUME TypeInv, ContactInv, NEW w \in Workers, NEW resume, StartProfile(w, resume)
    PROVE  ContactInv'
<1>1. \E step \in {"confirm_prefill", "ask_name"} : \E draft :
         Update(w, [At(w, "profile_collect", step) EXCEPT !.data.profile = draft], "idle")
  BY DEF StartProfile
<1>2. {"confirm_prefill", "ask_name"} \subseteq Steps
  BY DEF Steps, ProfileSteps
<1>3. QED
  BY <1>1, <1>2, ProfileDraftContact

LEMMA AdvanceProfileContact ==
    ASSUME TypeInv, ContactInv, NEW w \in Workers, NEW draft \in ProfileDrafts,
           AdvanceProfile(w, draft)
    PROVE  ContactInv'
<1>1. CASE NextMissing(draft.have) # "complete"
  <2>1. NextMissing(draft.have) \in Steps
    BY <1>1 DEF NextMissing, Steps, ProfileSteps
  <2>2. QED
    BY <1>1, <2>1, ProfileDraftContact DEF AdvanceProfile
<1>2. CASE NextMissing(draft.have) = "complete"
  <2> DEFINE t == [NoTask EXCEPT !.resume = draft.resume, !.contact = draft.have,
                                 !.address = customer.address]
  <2>1. draft.have = Contact
    BY <1>2 DEF NextMissing, ProfileDrafts, Contact
  <2>2. t.contact = Contact
    BY <2>1 DEF NoTask
  <2>3. customer.profile = Contact => customer'.profile = Contact
    BY <1>2, <2>1 DEF AdvanceProfile, TypeInv, TypeOK
  <2>4. OrdersHaveContact' /\ BillsContact(seen[w])
    BY <1>2 DEF AdvanceProfile, ContactInv, OrdersHaveContact
  <2>5. Goes(w, "profile_saved", seen[w], t) /\ session' = session
    BY <1>2 DEF AdvanceProfile
  <2>6. QED
    BY <2>2, <2>3, <2>4, <2>5, GoesContact DEF Carries
<1>3. QED
  BY <1>1, <1>2

LEMMA ProfileHandlersContact ==
    ASSUME TypeInv, ContactInv, NEW w \in Workers,
           EditProfile(w) \/ ConfirmName(w) \/ AnswerField(w) \/ UnknownStep(w)
    PROVE  ContactInv'
<1>1. CASE EditProfile(w)
  BY <1>1, EnterContact, StartProfileContact DEF EditProfile
<1>2. CASE ConfirmName(w)
  <2> DEFINE d == Data(w).profile
             renamed == [d EXCEPT !.have = d.have \ {"name"}]
  <2>1. d \in ProfileDrafts
    BY HeldTypes
  <2>2. \/ Update(w, [At(w, "profile_collect", "ask_name") EXCEPT !.data.profile = renamed], "idle")
        \/ AdvanceProfile(w, d)
    BY <1>2 DEF ConfirmName
  <2>3. "ask_name" \in Steps
    BY DEF Steps, ProfileSteps
  <2>4. QED
    BY <2>1, <2>2, <2>3, ProfileDraftContact, AdvanceProfileContact
<1>3. CASE AnswerField(w)
  <2> DEFINE d == Data(w).profile
             answered == [d EXCEPT !.have = @ \union {Asked(seen[w].step)}]
  <2>1. answered \in ProfileDrafts
    BY HeldTypes DEF ProfileDrafts, Asked, Contact
  <2>2. AdvanceProfile(w, answered) \/ Stay(w)
    BY <1>3 DEF AnswerField
  <2>3. QED
    BY <2>1, <2>2, AdvanceProfileContact, StayContact
<1>4. CASE UnknownStep(w)
  BY <1>4, EnterContact, StayContact DEF UnknownStep
<1>5. QED
  BY <1>1, <1>2, <1>3, <1>4

\* A commit that writes an address draft: one that resumes a checkout has a
\* whole contact, or needs none.
LEMMA AddressDraftContact ==
    ASSUME TypeInv, ContactInv, NEW w \in Workers, NEW step \in Steps, NEW draft,
           draft.resume = "cart" => draft.who = Contact \/ customer.profile = Contact,
           Update(w, [At(w, "address_collect", step) EXCEPT !.data.address = draft], "idle")
    PROVE  ContactInv'
<1> DEFINE row == At(w, "address_collect", step)
           new == [row EXCEPT !.data.address = draft]
<1>1. row \in Rows
  BY AtType DEF Flows
<1>2. new.data.address = draft
  <2> HIDE DEF row
  <2>1. QED
    BY <1>1 DEF Rows, StateData
<1>3. BillsContact(new)
  BY <1>2 DEF BillsContact
<1>4. QED
  BY <1>3, CommitContact DEF Update, Carries

LEMMA StartAddressContact ==
    ASSUME TypeInv, ContactInv, NEW w \in Workers, NEW resume, NEW who, NEW address,
           resume = "cart" => who = Contact \/ customer.profile = Contact,
           StartAddress(w, resume, who, address)
    PROVE  ContactInv'
<1> DEFINE draft == [resume |-> resume, who |-> who, address |-> address, missing |-> {}]
<1>1. "ask_address" \in Steps
  BY DEF Steps
<1>2. draft.resume = resume /\ draft.who = who
  OBVIOUS
<1>3. Update(w, [At(w, "address_collect", "ask_address") EXCEPT !.data.address = draft], "idle")
  BY DEF StartAddress
<1>4. QED
  <2> HIDE DEF draft
  <2>1. QED
    BY <1>1, <1>2, <1>3, AddressDraftContact

LEMMA AdvanceAddressContact ==
    ASSUME TypeInv, ContactInv, NEW w \in Workers, NEW draft \in AddressDrafts,
           draft.resume = Data(w).address.resume, draft.who = Data(w).address.who,
           AdvanceAddress(w, draft)
    PROVE  ContactInv'
<1> DEFINE step == IF draft.missing = {} THEN "confirm_address" ELSE FirstMissing(draft.missing)
<1>1. step \in Steps
  BY FirstMissingType DEF AddressDrafts, Steps
<1>2. draft.resume = "cart" => draft.who = Contact \/ customer.profile = Contact
  BY DEF ContactInv, BillsContact, Data
<1>3. QED
  BY <1>1, <1>2, AddressDraftContact DEF AdvanceAddress

\* What is read from a message changes neither whom a draft bills nor what it
\* resumes.
LEMMA DraftsKeep ==
    ASSUME NEW d \in AddressDrafts
    PROVE  /\ \A has : Parsed(d, has).resume = d.resume /\ Parsed(d, has).who = d.who
           /\ \A f : Supplied(d, f).resume = d.resume /\ Supplied(d, f).who = d.who
  BY DEF AddressDrafts, Parsed, Supplied

LEMMA AddressHandlersContact ==
    ASSUME TypeInv, ContactInv, NEW w \in Workers,
           UpdateAddress(w) \/ GiveAddress(w) \/ GiveMissing(w) \/ ConfirmAddress(w)
    PROVE  ContactInv'
<1> DEFINE d == Data(w).address
<1>1. CASE UpdateAddress(w)
  BY <1>1, EnterContact, StartAddressContact DEF UpdateAddress
<1>2. CASE GiveAddress(w)
  BY <1>2, HeldTypes, DraftTypes, DraftsKeep, AdvanceAddressContact DEF GiveAddress
<1>3. CASE GiveMissing(w)
  BY <1>3, HeldTypes, DraftTypes, DraftsKeep, AdvanceAddressContact, StayContact
     DEF GiveMissing
<1>4. CASE ConfirmAddress(w)
  <2>1. CASE SaveAddress(w)
    <3> DEFINE t == [NoTask EXCEPT !.resume = d.resume, !.address = d.address,
                                   !.contact = d.who \union customer.profile]
    <3>1. d.who \subseteq Contact /\ customer.profile \subseteq Contact
      BY HeldTypes DEF AddressDrafts, TypeInv, TypeOK
    <3>2. Carries("address_saved", t)
      BY <3>1 DEF Carries, NoTask, ContactInv, BillsContact, Data
    <3>3. customer'.profile = customer.profile
      BY <2>1 DEF SaveAddress, TypeInv, TypeOK
    <3>4. Goes(w, "address_saved", seen[w], t) /\ session' = session
      BY <2>1 DEF SaveAddress
    <3>5. OrdersHaveContact' /\ BillsContact(seen[w])
      BY <2>1 DEF SaveAddress, ContactInv, OrdersHaveContact
    <3>6. QED
      BY <3>2, <3>3, <3>4, <3>5, GoesContact
  <2>2. CASE Tapped(w, "edit_field") /\ ~SaveAddress(w) /\ ~Stay(w)
    <3> DEFINE row == At(w, "address_collect", msg[w].field)
               new == [row EXCEPT !.data.address.missing = {msg[w].field}]
    <3>1. msg[w].field \in Fields
      BY <2>2, HeldTypes DEF Tapped
    <3>2. row \in Rows
      BY <3>1, AtType DEF Flows, Steps
    <3>3. /\ new.data.address.resume = row.data.address.resume
          /\ new.data.address.who = row.data.address.who
      <4> HIDE DEF row
      <4>1. QED
        BY <3>2 DEF Rows, StateData, AddressDrafts
    <3>4. row.data = seen[w].data
      BY HeldTypes DEF At, Rows
    <3>5. BillsContact(new)
      BY <3>3, <3>4 DEF ContactInv, BillsContact
    <3>6. Update(w, new, "idle")
      BY <1>4, <2>2 DEF ConfirmAddress
    <3>7. QED
      BY <3>5, <3>6, CommitContact DEF Update, Carries
  <2>3. QED
    BY <1>4, <2>1, <2>2, StayContact DEF ConfirmAddress
<1>5. QED
  BY <1>1, <1>2, <1>3, <1>4

LEMMA BilledContact ==
    ASSUME NEW w, NEW contact, NEW address
    PROVE  Billed(w, contact, address).contact = contact
  BY DEF Billed, NoTask

LEMMA CheckoutContact ==
    ASSUME TypeInv, ContactInv, NEW w \in Workers, Checkout(w)
    PROVE  ContactInv'
<1>1. CASE Stay(w)
  BY <1>1, StayContact
<1>2. CASE StartProfile(w, "cart")
  BY <1>2, StartProfileContact
<1>3. CASE /\ ~Stay(w) /\ ~StartProfile(w, "cart")
           /\ StartAddress(w, "cart", {}, customer.address)
  <2>1. channel # "widget" => customer.profile = Contact
    BY <1>3 DEF Checkout
  <2>2. CASE channel = "widget"
    <3>1. /\ Goes(w, "order", seen[w], Billed(w, Contact, Delivery(w, customer.address)))
          /\ UNCHANGED <<session, customer, orders>>
      BY <1>3, <2>2 DEF Checkout
    <3>2. OrdersHaveContact' /\ BillsContact(seen[w])
      BY <3>1 DEF ContactInv, OrdersHaveContact
    <3>3. QED
      BY <3>1, <3>2, BilledContact, GoesContact DEF Carries
  <2>3. CASE channel # "widget"
    BY <1>3, <2>1, <2>3, StartAddressContact
  <2>4. QED
    BY <2>2, <2>3
<1>4. CASE /\ Goes(w, "order", seen[w], Billed(w, Contact, Delivery(w, customer.address)))
           /\ UNCHANGED <<session, customer, orders>>
  <2>1. OrdersHaveContact' /\ BillsContact(seen[w])
    BY <1>4 DEF ContactInv, OrdersHaveContact
  <2>2. QED
    BY <1>4, <2>1, BilledContact, GoesContact DEF Carries
<1>5. QED
  BY <1>1, <1>2, <1>3, <1>4 DEF Checkout

\* A form that resumes a checkout has a whole contact.
LEMMA ResumeContact ==
    ASSUME TypeInv, ContactInv, NEW w \in Workers, NEW new,
           NEW s \in {"ask_address", "order", "idle"},
           s # "idle" => task[w].contact = Contact,
           new.data.address \in {seen[w].data.address, NoAddressDraft},
           NEW address, Resume(w, new, s, address)
    PROVE  ContactInv'
<1> DEFINE t == IF s = "order" THEN Billed(w, task[w].contact, address) ELSE task[w]
<1>1. Carries(s, t)
  BY BilledContact DEF Carries
<1>2. BillsContact(new)
  BY DEF ContactInv, BillsContact, NoAddressDraft
<1>3. QED
  BY <1>1, <1>2, CommitContact DEF Resume

LEMMA CheckoutHandlersContact ==
    ASSUME TypeInv, ContactInv, NEW w \in Workers,
           \/ FinishProfile(w) \/ AskAddress(w) \/ FinishAddress(w)
           \/ CreateOrder(w) \/ MakeLink(w) \/ LinkFails(w) \/ ClearAfterCheckout(w)
    PROVE  ContactInv'
<1>1. CASE FinishProfile(w)
  <2> DEFINE data == [Data(w) EXCEPT
                        !.profile = NoProfileDraft,
                        !.wprofile = IF channel = "widget" THEN task[w].contact ELSE @]
             new == [flow |-> "none", step |-> "none", data |-> data]
  <2>1. new.data.address = seen[w].data.address
    BY HeldTypes DEF Data, StateData
  <2>2. task[w].contact = Contact
    BY <1>1 DEF FinishProfile, ContactInv, CarriesContact
  <2>3. \E s \in {"ask_address", "order", "idle"} :
          Resume(w, new, s, Delivery(w, task[w].address))
    BY <1>1 DEF FinishProfile
  <2>4. QED
    BY <2>1, <2>2, <2>3, ResumeContact
<1>2. CASE AskAddress(w)
  <2>1. task[w].contact = Contact
    BY <1>2 DEF AskAddress, ContactInv, CarriesContact
  <2>2. QED
    BY <1>2, <2>1, StartAddressContact DEF AskAddress
<1>3. CASE FinishAddress(w)
  <2> DEFINE row == At(w, "none", "none")
             new == [row EXCEPT !.data.address = NoAddressDraft]
             s == IF task[w].resume = "cart" /\ InCart(Data(w).cart) # {} THEN "order" ELSE "idle"
  <2>1. new.data.address = NoAddressDraft
    <3>1. row \in Rows
      BY AtType DEF Flows, Steps
    <3>2. QED
      <4> HIDE DEF row
      <4>1. QED
        BY <3>1 DEF Rows, StateData
  <2>2. s # "idle" => task[w].contact = Contact
    BY <1>3 DEF FinishAddress, ContactInv, CarriesContact
  <2>3. Resume(w, new, s, task[w].address)
    BY <1>3 DEF FinishAddress
  <2>4. QED
    BY <2>1, <2>2, <2>3, ResumeContact
<1>4. CASE CreateOrder(w)
  <2> DEFINE o == OrderOf(w, NextGroup(w))
             t == [task[w] EXCEPT !.left = @ \ {NextGroup(w)},
                                  !.made = @ \union {Len(orders) + 1}]
  <2>1. task[w].contact = Contact
    BY <1>4 DEF CreateOrder, ContactInv, CarriesContact
  <2>2. t.contact = Contact /\ o.contact = Contact
    BY <2>1, HeldTypes DEF Tasks, OrderOf
  <2>3. OrdersHaveContact'
    <3>1. orders \in Seq(OrderRows) /\ orders' = Append(orders, o)
      BY <1>4 DEF CreateOrder, TypeInv, TypeOK
    <3>2. QED
      BY <2>2, <3>1 DEF ContactInv, OrdersHaveContact
  <2>4. Goes(w, "link", seen[w], t) /\ session' = session /\ customer' = customer
    BY <1>4 DEF CreateOrder
  <2>5. QED
    BY <2>2, <2>3, <2>4, GoesContact DEF Carries, ContactInv
<1>5. CASE MakeLink(w) \/ LinkFails(w)
  <2>1. task[w].contact = Contact
    BY <1>5 DEF MakeLink, LinkFails, ContactInv, CarriesContact
  <2>2. \A o \in OrderRows : /\ Failed(o).contact = o.contact
                             /\ [o EXCEPT !.link = TRUE].contact = o.contact
    BY DEF Failed, OrderRows
  <2>3. \A i \in DOMAIN orders : orders[i] \in OrderRows
    BY DEF TypeInv, TypeOK
  <2>4. PICK o : /\ orders' = [orders EXCEPT ![Latest(w)] = o]
                 /\ Latest(w) \in DOMAIN orders => o.contact = orders[Latest(w)].contact
    BY <1>5, <2>2, <2>3 DEF MakeLink, LinkFails
  <2>5. OrdersHaveContact'
    BY <2>4 DEF ContactInv, OrdersHaveContact, TypeInv, TypeOK
  <2>6. PICK s \in {"clear", "order"} : Goes(w, s, seen[w], task[w])
    BY <1>5 DEF MakeLink, LinkFails, AfterFailure
  <2>7. session' = session /\ customer' = customer
    BY <1>5 DEF MakeLink, LinkFails
  <2>8. QED
    BY <2>1, <2>5, <2>6, <2>7, GoesContact DEF Carries, ContactInv
<1>6. CASE ClearAfterCheckout(w)
  BY <1>6, SaveCartContact DEF ClearAfterCheckout
<1>7. QED
  BY <1>1, <1>2, <1>3, <1>4, <1>5, <1>6

LEMMA InitContact == Init => ContactInv
  BY DEF Init, ContactInv, OrdersHaveContact, BillsContact, CarriesContact, FreshRow,
         NoAddressDraft

LEMMA ArriveContact ==
    ASSUME TypeInv, ContactInv, NEW w \in Workers, NEW m, NEW expired, Arrive(w, m, expired)
    PROVE  ContactInv'
<1>1. BillsContact(session)'
  BY DEF Arrive, ContactInv, BillsContact, FreshRow, NoAddressDraft
<1>2. ASSUME NEW v \in Workers
      PROVE  BillsContact(seen[v])' /\ CarriesContact(v)'
  <2>1. CASE v = w
    <3>1. seen'[v] = session' /\ pc'[v] = "act"
      BY <2>1 DEF Arrive, TypeInv, TypeOK
    <3>2. QED
      BY <1>1, <3>1 DEF BillsContact, CarriesContact
  <2>2. CASE v # w
    <3>1. /\ seen'[v] = seen[v] /\ pc'[v] = pc[v] /\ task'[v] = task[v]
          /\ customer' = customer
      BY <2>2 DEF Arrive, TypeInv, TypeOK
    <3>2. QED
      BY <3>1 DEF BillsContact, CarriesContact, ContactInv
  <2>3. QED
    BY <2>1, <2>2
<1>3. OrdersHaveContact'
  BY DEF Arrive, ContactInv, OrdersHaveContact
<1>4. QED
  BY <1>1, <1>2, <1>3 DEF ContactInv

LEMMA CrashContact ==
    ASSUME ContactInv, Crash
    PROVE  ContactInv'
  BY DEF Crash, ContactInv, OrdersHaveContact, BillsContact, CarriesContact, FreshRow,
         NoAddressDraft

LEMMA NextContact == TypeInv /\ ContactInv /\ [Next]_vars => ContactInv'
<1> SUFFICES ASSUME TypeInv, ContactInv, [Next]_vars PROVE ContactInv'
  OBVIOUS
<1>1. ASSUME NEW w \in Workers, NEW m \in accepts[w], NEW expired \in BOOLEAN,
             Arrive(w, m, expired)
      PROVE  ContactInv'
  BY <1>1, ArriveContact
<1>2. ASSUME NEW w \in Workers, Handle(w)
      PROVE  ContactInv'
  BY <1>2, CartHandlersContact, ProfileHandlersContact, AddressHandlersContact,
     CheckoutContact, CheckoutHandlersContact DEF Handle
<1>3. CASE Crash
  BY <1>3, CrashContact
<1>4. CASE UNCHANGED vars
  BY <1>4 DEF vars, ContactInv, OrdersHaveContact, BillsContact, CarriesContact
<1>5. QED
  BY <1>1, <1>2, <1>3, <1>4 DEF Next

\* Every order knows whom it bills, name, email and phone, however the
\* checkout was reached and whatever was handled meanwhile: no order is ever
\* made for a placeholder contact (engine.py:1254-1255), for any number of
\* overlapping handlers and crashes.
THEOREM OrdersCarryContact == Spec => []OrdersHaveContact
<1>1. TypeInv /\ ContactInv => OrdersHaveContact
  BY DEF ContactInv
<1>2. QED
  BY <1>1, InitType, InitContact, NextType, NextContact, PTL DEF Spec

----------------------------------------------------------------------------
(***************************************************************************)
(* A checkout puts its cart on its orders, and leaves none that cannot be  *)
(* paid.  The argument: while a checkout runs, the lines of a group that   *)
(* is left are on none of its orders, and those of a group that is done    *)
(* are on exactly one.                                                     *)
(***************************************************************************)
TakingOrders == {"order", "link", "clear"}
Absent(w, p) == \A i \in task[w].made : p \notin InCart(orders[i].lines)
Placed(w, p) ==
    \E i \in task[w].made :
      /\ orders[i].lines[p] = Data(w).cart[p]
      /\ \A j \in task[w].made \ {i} : p \notin InCart(orders[j].lines)
Covers(w) ==
    /\ task[w].made \subseteq 1..Len(orders)
    /\ pc[w] = "order" => task[w].left # {}
    /\ pc[w] = "clear" => task[w].left = {}
    /\ \A g \in {"bumpa", "paystack"} : \A p \in GroupOf(Data(w).cart, g) :
         IF g \in task[w].left THEN Absent(w, p) ELSE Placed(w, p)
CheckoutInv ==
    /\ \A w \in Workers : pc[w] \in TakingOrders => Covers(w)
    /\ PendingIsPayable

\* The groups split the cart.
LEMMA GroupsSplit ==
    ASSUME NEW cart
    PROVE  /\ InCart(cart) = GroupOf(cart, "bumpa") \union GroupOf(cart, "paystack")
           /\ GroupOf(cart, "bumpa") \intersect GroupOf(cart, "paystack") = {}
           /\ InCart(cart) # {} => GroupsOf(cart) # {}
  BY DEF GroupOf, GroupsOf, OtherGroup, BumpaGroup, InCart

\* The other handlers do not notice: orders are only added, and keep their
\* lines.
LEMMA CoversFrame ==
    ASSUME TypeInv, NEW v \in Workers, pc[v] \in TakingOrders => Covers(v),
           pc'[v] = pc[v], seen'[v] = seen[v], task'[v] = task[v],
           Len(orders) <= Len(orders'), Len(orders') \in Nat,
           \A i \in 1..Len(orders) : orders'[i].lines = orders[i].lines
    PROVE  (pc[v] \in TakingOrders => Covers(v))'
<1> SUFFICES ASSUME pc[v] \in TakingOrders PROVE Covers(v)'
  OBVIOUS
<1>1. task[v].made \subseteq 1..Len(orders) /\ Len(orders) \in Nat
  BY DEF Covers, TypeInv, TypeOK
<1>2. task'[v].made \subseteq 1..Len(orders')
  BY <1>1
<1>3. Data(v)' = Data(v)
  BY DEF Data
<1>4. ASSUME NEW p
      PROVE  (Absent(v, p) => Absent(v, p)') /\ (Placed(v, p) => Placed(v, p)')
  BY <1>1, <1>3 DEF Absent, Placed
<1>5. QED
  BY <1>2, <1>3, <1>4 DEF Covers

LEMMA GoesCovers ==
    ASSUME TypeInv, CheckoutInv, NEW w \in Workers, NEW s, NEW row, NEW t,
           Goes(w, s, row, t), s \in TakingOrders => Covers(w)',
           Len(orders) <= Len(orders'), Len(orders') \in Nat,
           \A i \in 1..Len(orders) : orders'[i].lines = orders[i].lines
    PROVE  \A v \in Workers : (pc[v] \in TakingOrders => Covers(v))'
<1> SUFFICES ASSUME NEW v \in Workers PROVE (pc[v] \in TakingOrders => Covers(v))'
  OBVIOUS
<1>1. CASE v = w
  <2>1. pc'[v] = s
    BY <1>1 DEF Goes, TypeInv, TypeOK
  <2>2. QED
    BY <1>1, <2>1
<1>2. CASE v # w
  <2>1. pc'[v] = pc[v] /\ seen'[v] = seen[v] /\ task'[v] = task[v]
    BY <1>2 DEF Goes, TypeInv, TypeOK
  <2>2. QED
    BY <2>1, CoversFrame DEF CheckoutInv
<1>3. QED
  BY <1>1, <1>2

\* A handler that was not making a link goes on; no order changes.
LEMMA QuietCheckout ==
    ASSUME TypeInv, CheckoutInv, NEW w \in Workers, NEW s, NEW row, NEW t,
           Goes(w, s, row, t), s \in TakingOrders => Covers(w)',
           orders' = orders, pc[w] # "link"
    PROVE  CheckoutInv'
<1>1. Len(orders) \in Nat
  BY DEF TypeInv, TypeOK
<1>2. \A v \in Workers : (pc[v] \in TakingOrders => Covers(v))'
  BY <1>1, GoesCovers
<1>3. ASSUME NEW i \in DOMAIN orders, orders[i].status = "pending", ~orders[i].link, faults = 0
      PROVE  \E v \in Workers : pc'[v] = "link" /\ Latest(v)' = i
  <2>1. PICK v \in Workers : pc[v] = "link" /\ Latest(v) = i
    BY <1>3 DEF CheckoutInv, PendingIsPayable
  <2>2. pc'[v] = pc[v] /\ task'[v] = task[v]
    BY <2>1 DEF Goes, TypeInv, TypeOK
  <2>3. QED
    BY <2>1, <2>2 DEF Latest
<1>4. faults' = faults /\ faults \in Nat
  BY DEF Goes, TypeInv, TypeOK
<1>5. PendingIsPayable'
  BY <1>3, <1>4 DEF PendingIsPayable
<1>6. QED
  BY <1>2, <1>5 DEF CheckoutInv

\* Steps that neither start nor run a checkout.
LEMMA QuietSteps ==
    ASSUME TypeInv, CheckoutInv, NEW w \in Workers, pc[w] # "link"
    PROVE  /\ \A new, s : s \notin TakingOrders /\ Update(w, new, s) => CheckoutInv'
           /\ \A flow, step : Enter(w, flow, step) => CheckoutInv'
           /\ Stay(w) => CheckoutInv'
<1>1. ASSUME NEW new, NEW s, s \notin TakingOrders, Update(w, new, s)
      PROVE  CheckoutInv'
  BY <1>1, QuietCheckout DEF Update, Commit
<1>2. ASSUME NEW flow, NEW step, Enter(w, flow, step)
      PROVE  CheckoutInv'
  BY <1>2, QuietCheckout DEF Enter, TakingOrders
<1>3. ASSUME Stay(w)
      PROVE  CheckoutInv'
  BY <1>3, QuietCheckout DEF Stay, TakingOrders
<1>4. QED
  BY <1>1, <1>2, <1>3

LEMMA CartHandlersCheckout ==
    ASSUME TypeInv, CheckoutInv, NEW w \in Workers,
           \/ CancelForm(w) \/ MainMenu(w) \/ BrowseCatalog(w)
           \/ CartAdd(w) \/ QuantityButton(w) \/ Select(w) \/ TypedQuantity(w)
           \/ ViewCart(w) \/ ClearCart(w) \/ TrackOrder(w) \/ MyPurchases(w)
           \/ MyProfile(w) \/ Unmatched(w) \/ SubmitWidgetForm(w)
    PROVE  CheckoutInv'
<1>1. pc[w] \in {"act", "select"}
  BY DEF CancelForm, InForm, MainMenu, BrowseCatalog, CartAdd, QuantityButton, Select,
         TypedQuantity, ViewCart, ClearCart, TrackOrder, MyPurchases, MyProfile, Unmatched,
         SubmitWidgetForm, Free, Says, Handling
<1>2. \/ \E new, s : s \in {"idle", "act", "select"} /\ Update(w, new, s)
      \/ \E flow, step : Enter(w, flow, step)
      \/ Stay(w)
  BY DEF CancelForm, MainMenu, BrowseCatalog, CartAdd, QuantityButton, Select,
         TypedQuantity, ViewCart, ClearCart, TrackOrder, MyPurchases, MyProfile, Unmatched,
         SubmitWidgetForm, SaveCart
<1>3. QED
  BY <1>1, <1>2, QuietSteps DEF TakingOrders

LEMMA FormHandlersCheckout ==
    ASSUME TypeInv, CheckoutInv, NEW w \in Workers,
           \/ EditProfile(w) \/ ConfirmName(w) \/ AnswerField(w) \/ UnknownStep(w)
           \/ UpdateAddress(w) \/ GiveAddress(w) \/ GiveMissing(w) \/ ConfirmAddress(w)
    PROVE  CheckoutInv'
<1>1. pc[w] = "act"
  BY DEF EditProfile, ConfirmName, AnswerField, UnknownStep, UpdateAddress, GiveAddress,
         GiveMissing, ConfirmAddress, Free, Says, Answer, Handling
<1>2. ASSUME NEW draft, AdvanceProfile(w, draft)
      PROVE  CheckoutInv'
  <2>1. CASE NextMissing(draft.have) # "complete"
    BY <1>1, <1>2, <2>1, QuietSteps DEF AdvanceProfile, TakingOrders
  <2>2. CASE NextMissing(draft.have) = "complete"
    <3>1. (\E t : Goes(w, "profile_saved", seen[w], t)) /\ orders' = orders
      BY <1>2, <2>2 DEF AdvanceProfile
    <3>2. QED
      BY <1>1, <3>1, QuietCheckout DEF TakingOrders
  <2>3. QED
    BY <2>1, <2>2
<1>3. ASSUME SaveAddress(w)
      PROVE  CheckoutInv'
  <2>1. (\E t : Goes(w, "address_saved", seen[w], t)) /\ orders' = orders
    BY <1>3 DEF SaveAddress
  <2>2. QED
    BY <1>1, <2>1, QuietCheckout DEF TakingOrders
<1>4. \/ \E new : Update(w, new, "idle")
      \/ \E flow, step : Enter(w, flow, step)
      \/ Stay(w) \/ SaveAddress(w)
      \/ \E draft : AdvanceProfile(w, draft)
  BY DEF EditProfile, ConfirmName, AnswerField, UnknownStep, UpdateAddress, GiveAddress,
         GiveMissing, ConfirmAddress, StartProfile, StartAddress, AdvanceAddress
<1>5. QED
  BY <1>1, <1>2, <1>3, <1>4, QuietSteps DEF TakingOrders

\* A checkout begins: every group of its cart is left, and it has made no
\* order.
LEMMA StartCovers ==
    ASSUME TypeInv, NEW w \in Workers, NEW row, NEW contact, NEW address,
           Goes(w, "order", row, Billed(w, contact, address)),
           row.data.cart = Data(w).cart, InCart(Data(w).cart) # {}
    PROVE  Covers(w)'
<1>1. /\ pc'[w] = "order" /\ seen'[w] = row
      /\ task'[w] = Billed(w, contact, address)
  BY DEF Goes, TypeInv, TypeOK
<1>2. task'[w].made = {} /\ task'[w].left = GroupsOf(Data(w).cart)
  BY <1>1 DEF Billed, NoTask
<1>3. Data(w)'.cart = Data(w).cart
  BY <1>1 DEF Data
<1>4. GroupsOf(Data(w).cart) # {}
  BY GroupsSplit
<1>5. ASSUME NEW g \in {"bumpa", "paystack"}, NEW p \in GroupOf(Data(w).cart, g)
      PROVE  g \in task'[w].left
  BY <1>2, <1>5 DEF GroupsOf
<1>6. \A p : Absent(w, p)'
  BY <1>2 DEF Absent
<1>7. \A g : GroupOf(Data(w).cart, g)' = GroupOf(Data(w).cart, g)
  BY <1>3 DEF GroupOf, BumpaGroup, OtherGroup, InCart
<1>8. QED
  BY <1>1, <1>2, <1>4, <1>5, <1>6, <1>7 DEF Covers

LEMMA CheckoutStarts ==
    ASSUME TypeInv, CheckoutInv, NEW w \in Workers, Checkout(w)
    PROVE  CheckoutInv'
<1>1. pc[w] = "act"
  BY DEF Checkout, Free, Says, Handling
<1>2. CASE (\E new : Update(w, new, "idle")) \/ Stay(w)
  BY <1>1, <1>2, QuietSteps DEF TakingOrders
<1>3. CASE /\ InCart(Data(w).cart) # {}
           /\ Goes(w, "order", seen[w], Billed(w, Contact, Delivery(w, customer.address)))
           /\ orders' = orders
  <2>1. Covers(w)'
    BY <1>3, StartCovers DEF Data
  <2>2. QED
    BY <1>1, <1>3, <2>1, QuietCheckout
<1>4. QED
  BY <1>2, <1>3 DEF Checkout, StartProfile, StartAddress

\* One group's order is made: its lines are placed, the other group's stay
\* as they were.
LEMMA CreateCovers ==
    ASSUME TypeInv, NEW w \in Workers, Covers(w), CreateOrder(w)
    PROVE  Covers(w)'
<1> DEFINE g == NextGroup(w)
           n == Len(orders) + 1
           cart == Data(w).cart
<1>1. /\ pc[w] = "order" /\ pc'[w] = "link" /\ seen'[w] = seen[w]
      /\ task'[w] = [task[w] EXCEPT !.left = @ \ {g}, !.made = @ \union {n}]
      /\ orders' = Append(orders, OrderOf(w, g))
  BY DEF CreateOrder, Goes, TypeInv, TypeOK
<1>2. task'[w].left = task[w].left \ {g} /\ task'[w].made = task[w].made \union {n}
  BY <1>1, HeldTypes DEF Tasks
<1>3. /\ task[w].made \subseteq 1..Len(orders)
      /\ task[w].left # {} /\ task[w].left \subseteq {"bumpa", "paystack"}
      /\ orders \in Seq(OrderRows)
  BY <1>1, HeldTypes DEF Covers, Tasks, TypeInv, TypeOK
<1>4. g \in task[w].left
  BY <1>3 DEF NextGroup
<1>5. /\ n \in Nat /\ n \notin task[w].made /\ Len(orders') = n
      /\ \A i \in task[w].made : orders'[i] = orders[i]
      /\ orders'[n] = OrderOf(w, g)
  <2>1. OrderOf(w, g) \in OrderRows
    BY OrderOfType DEF NextGroup
  <2>2. QED
    BY <1>1, <1>3, <2>1
<1>6. /\ \A p \in GroupOf(cart, g) : orders'[n].lines[p] = cart[p]
      /\ \A p \in Products \ GroupOf(cart, g) : p \notin InCart(orders'[n].lines)
  <2>1. \A p \in GroupOf(cart, g) : p \in Products
    BY DEF GroupOf, OtherGroup, BumpaGroup, InCart
  <2>2. QED
    BY <1>5, <2>1 DEF OrderOf, InCart, NoLine
<1>7. ASSUME NEW h \in {"bumpa", "paystack"}, NEW p \in GroupOf(cart, h)
      PROVE  IF h \in task'[w].left THEN Absent(w, p)' ELSE Placed(w, p)'
  <2>1. IF h \in task[w].left THEN Absent(w, p) ELSE Placed(w, p)
    BY <1>7 DEF Covers
  <2>2. Data(w)' = Data(w)
    BY <1>1 DEF Data
  <2>3. CASE h = g
    <3>1. Absent(w, p)
      BY <1>4, <2>1, <2>3
    <3>2. orders'[n].lines[p] = Data(w)'.cart[p]
      BY <1>6, <1>7, <2>2, <2>3
    <3>3. \A j \in task'[w].made \ {n} : p \notin InCart(orders'[j].lines)
      BY <1>2, <1>5, <3>1 DEF Absent
    <3>4. Placed(w, p)'
      BY <1>2, <3>2, <3>3 DEF Placed
    <3>5. QED
      BY <1>2, <2>3, <3>4
  <2>4. CASE h # g
    <3>1. p \notin InCart(orders'[n].lines)
      <4>1. p \in Products /\ p \notin GroupOf(cart, g)
        BY <1>7, <2>4, GroupsSplit DEF NextGroup, InCart
      <4>2. QED
        BY <1>6, <4>1
    <3>2. CASE h \in task[w].left
      <4>1. Absent(w, p)'
        BY <1>2, <1>5, <2>1, <3>1, <3>2 DEF Absent
      <4>2. QED
        BY <1>2, <2>4, <3>2, <4>1
    <3>3. CASE h \notin task[w].left
      <4>1. PICK i \in task[w].made :
              /\ orders[i].lines[p] = Data(w).cart[p]
              /\ \A j \in task[w].made \ {i} : p \notin InCart(orders[j].lines)
        BY <2>1, <3>3 DEF Placed
      <4>2. Placed(w, p)'
        BY <1>2, <1>5, <2>2, <3>1, <4>1 DEF Placed
      <4>3. QED
        BY <1>2, <3>3, <4>2
    <3>4. QED
      BY <3>2, <3>3
  <2>5. QED
    BY <2>3, <2>4
<1>8. task'[w].made \subseteq 1..Len(orders')
  BY <1>2, <1>3, <1>5
<1>9. Data(w)'.cart = cart
  BY <1>1 DEF Data
<1>10. \A h : GroupOf(Data(w).cart, h)' = GroupOf(cart, h)
  BY <1>9 DEF GroupOf, BumpaGroup, OtherGroup, InCart
<1>11. QED
  BY <1>1, <1>7, <1>8, <1>10 DEF Covers

LEMMA CreateCheckout ==
    ASSUME TypeInv, CheckoutInv, NEW w \in Workers, CreateOrder(w)
    PROVE  CheckoutInv'
<1> DEFINE n == Len(orders) + 1
<1>1. pc[w] = "order" /\ Covers(w)
  BY DEF CreateOrder, CheckoutInv, TakingOrders
<1>2. Covers(w)'
  BY <1>1, CreateCovers
<1>3. orders \in Seq(OrderRows) /\ OrderOf(w, NextGroup(w)) \in OrderRows
  BY OrderOfType DEF NextGroup, TypeInv, TypeOK
<1>4. /\ Len(orders) \in Nat /\ Len(orders') = n
      /\ \A i \in 1..Len(orders) : orders'[i] = orders[i]
  BY <1>3 DEF CreateOrder
<1>5. \A v \in Workers : (pc[v] \in TakingOrders => Covers(v))'
  BY <1>2, <1>4, GoesCovers DEF CreateOrder
<1>6. ASSUME NEW i \in DOMAIN orders', orders'[i].status = "pending", ~orders'[i].link,
             faults' = 0
      PROVE  \E v \in Workers : pc'[v] = "link" /\ Latest(v)' = i
  <2>1. CASE i = n
    <3>1. pc'[w] = "link" /\ task'[w].made = task[w].made \union {n}
      BY HeldTypes DEF CreateOrder, Goes, Tasks, TypeInv, TypeOK
    <3>2. task[w].made \subseteq 1..Len(orders)
      BY <1>1 DEF Covers
    <3>3. n \in task'[w].made /\ \A j \in task'[w].made : j <= n /\ j \in Nat
      BY <1>4, <3>1, <3>2
    <3>4. \A k \in task'[w].made : (\A j \in task'[w].made : j <= k) => k = n
      BY <1>4, <3>3
    <3>5. Latest(w)' = n
      BY <3>3, <3>4 DEF Latest
    <3>6. QED
      BY <2>1, <3>1, <3>5
  <2>2. CASE i # n
    <3>1. i \in DOMAIN orders /\ orders'[i] = orders[i] /\ faults = 0
      BY <1>3, <1>4, <1>6, <2>2 DEF CreateOrder, Goes
    <3>2. PICK v \in Workers : pc[v] = "link" /\ Latest(v) = i
      BY <1>6, <3>1 DEF CheckoutInv, PendingIsPayable
    <3>3. pc'[v] = pc[v] /\ task'[v] = task[v]
      BY <1>1, <3>2 DEF CreateOrder, Goes, TypeInv, TypeOK
    <3>4. QED
      BY <3>2, <3>3 DEF Latest
  <2>3. QED
    BY <2>1, <2>2
<1>7. faults' \in Nat
  BY DEF CreateOrder, Goes, TypeInv, TypeOK
<1>8. QED
  BY <1>5, <1>6, <1>7 DEF CheckoutInv, PendingIsPayable

\* The link of the latest order is made, or that order is failed.
LEMMA LinkCheckout ==
    ASSUME TypeInv, CheckoutInv, NEW w \in Workers, MakeLink(w) \/ LinkFails(w)
    PROVE  CheckoutInv'
<1> DEFINE last == Latest(w)
           s == IF task[w].left = {} THEN "clear" ELSE "order"
<1>1. pc[w] = "link" /\ Covers(w)
  BY DEF MakeLink, LinkFails, CheckoutInv, TakingOrders
<1>2. Goes(w, s, seen[w], task[w])
  BY DEF MakeLink, LinkFails, AfterFailure
<1>3. PICK o : /\ orders' = [orders EXCEPT ![last] = o]
               /\ last \in DOMAIN orders =>
                    /\ o.lines = orders[last].lines
                    /\ ~(o.status = "pending" /\ ~o.link)
  <2>1. \A q \in OrderRows : /\ Failed(q).lines = q.lines /\ Failed(q).status = "failed"
                             /\ [q EXCEPT !.link = TRUE].lines = q.lines
                             /\ [q EXCEPT !.link = TRUE].link = TRUE
    BY DEF Failed, OrderRows
  <2>2. \A i \in DOMAIN orders : orders[i] \in OrderRows
    BY DEF TypeInv, TypeOK
  <2>3. QED
    BY <2>1, <2>2 DEF MakeLink, LinkFails
<1>4. /\ Len(orders') = Len(orders) /\ Len(orders) \in Nat /\ DOMAIN orders' = DOMAIN orders
      /\ \A i \in 1..Len(orders) : orders'[i].lines = orders[i].lines
      /\ \A i \in 1..Len(orders) : i # last => orders'[i] = orders[i]
  BY <1>3 DEF TypeInv, TypeOK
<1>5. Covers(w)'
  <2>1. pc'[w] = s /\ seen'[w] = seen[w] /\ task'[w] = task[w]
    BY <1>2 DEF Goes, TypeInv, TypeOK
  <2>2. Data(w)' = Data(w)
    BY <2>1 DEF Data
  <2>3. task[w].made \subseteq 1..Len(orders)
    BY <1>1 DEF Covers
  <2>4. ASSUME NEW p
        PROVE  (Absent(w, p) => Absent(w, p)') /\ (Placed(w, p) => Placed(w, p)')
    BY <1>4, <2>1, <2>2, <2>3 DEF Absent, Placed
  <2>5. QED
    BY <1>1, <1>4, <2>1, <2>2, <2>3, <2>4 DEF Covers
<1>6. \A v \in Workers : (pc[v] \in TakingOrders => Covers(v))'
  BY <1>2, <1>4, <1>5, GoesCovers
<1>7. ASSUME NEW i \in DOMAIN orders', orders'[i].status = "pending", ~orders'[i].link,
             faults' = 0
      PROVE  \E v \in Workers : pc'[v] = "link" /\ Latest(v)' = i
  <2>1. i # last /\ i \in DOMAIN orders /\ i \in 1..Len(orders)
    BY <1>3, <1>4, <1>7 DEF TypeInv, TypeOK
  <2>2. orders'[i] = orders[i] /\ faults = 0
    BY <1>2, <1>4, <1>7, <2>1 DEF Goes
  <2>3. PICK v \in Workers : pc[v] = "link" /\ Latest(v) = i
    BY <1>7, <2>1, <2>2 DEF CheckoutInv, PendingIsPayable
  <2>4. pc'[v] = pc[v] /\ task'[v] = task[v]
    BY <1>2, <2>1, <2>3 DEF Goes, TypeInv, TypeOK
  <2>5. QED
    BY <2>3, <2>4 DEF Latest
<1>8. faults' \in Nat
  BY <1>2 DEF Goes, TypeInv, TypeOK
<1>9. QED
  BY <1>6, <1>7, <1>8 DEF CheckoutInv, PendingIsPayable

LEMMA CheckoutHandlersCheckout ==
    ASSUME TypeInv, CheckoutInv, NEW w \in Workers,
           \/ FinishProfile(w) \/ AskAddress(w) \/ FinishAddress(w)
           \/ CreateOrder(w) \/ MakeLink(w) \/ LinkFails(w) \/ ClearAfterCheckout(w)
    PROVE  CheckoutInv'
<1>1. ASSUME NEW new, NEW s, NEW address, Resume(w, new, s, address), pc[w] # "link",
             s \in {"idle", "ask_address", "order"},
             s = "order" => new.data.cart = Data(w).cart /\ InCart(Data(w).cart) # {}
      PROVE  CheckoutInv'
  <2> DEFINE t == IF s = "order" THEN Billed(w, task[w].contact, address) ELSE task[w]
  <2>1. Goes(w, s, new, t) /\ orders' = orders
    BY <1>1 DEF Resume, Commit
  <2>2. s \in TakingOrders => Covers(w)'
    BY <1>1, <2>1, StartCovers DEF TakingOrders
  <2>3. QED
    BY <1>1, <2>1, <2>2, QuietCheckout
<1>2. CASE FinishProfile(w)
  <2> DEFINE data == [Data(w) EXCEPT
                        !.profile = NoProfileDraft,
                        !.wprofile = IF channel = "widget" THEN task[w].contact ELSE @]
             new == [flow |-> "none", step |-> "none", data |-> data]
  <2>1. new.data.cart = Data(w).cart
    BY HeldTypes DEF StateData
  <2>2. \E s \in {"idle", "ask_address", "order"} :
          /\ Resume(w, new, s, Delivery(w, task[w].address))
          /\ s = "order" => InCart(Data(w).cart) # {}
    BY <1>2 DEF FinishProfile
  <2>3. pc[w] # "link"
    BY <1>2 DEF FinishProfile
  <2>4. QED
    BY <1>1, <2>1, <2>2, <2>3
<1>3. CASE AskAddress(w)
  BY <1>3, QuietSteps DEF AskAddress, StartAddress, TakingOrders
<1>4. CASE FinishAddress(w)
  <2> DEFINE row == At(w, "none", "none")
             new == [row EXCEPT !.data.address = NoAddressDraft]
             s == IF task[w].resume = "cart" /\ InCart(Data(w).cart) # {} THEN "order" ELSE "idle"
  <2>1. row \in Rows /\ row.data = Data(w)
    <3>1. row \in Rows
      BY AtType DEF Flows, Steps
    <3>2. row.data = Data(w)
      BY HeldTypes DEF At, Rows, Data
    <3>3. QED
      BY <3>1, <3>2
  <2>2. new.data.cart = Data(w).cart
    <3>1. new.data.cart = row.data.cart
      <4> HIDE DEF row
      <4>1. QED
        BY <2>1 DEF Rows, StateData
    <3>2. QED
      BY <2>1, <3>1
  <2>3. Resume(w, new, s, task[w].address) /\ pc[w] # "link"
    BY <1>4 DEF FinishAddress
  <2>4. QED
    BY <1>1, <2>2, <2>3
<1>5. CASE CreateOrder(w)
  BY <1>5, CreateCheckout
<1>6. CASE MakeLink(w) \/ LinkFails(w)
  BY <1>6, LinkCheckout
<1>7. CASE ClearAfterCheckout(w)
  BY <1>7, QuietSteps DEF ClearAfterCheckout, SaveCart, TakingOrders
<1>8. QED
  BY <1>2, <1>3, <1>4, <1>5, <1>6, <1>7

LEMMA InitCheckout == Init => CheckoutInv
  BY DEF Init, CheckoutInv, PendingIsPayable, TakingOrders

LEMMA ArriveCheckout ==
    ASSUME TypeInv, CheckoutInv, NEW w \in Workers, NEW m, NEW expired, Arrive(w, m, expired)
    PROVE  CheckoutInv'
<1>1. /\ pc[w] = "idle" /\ pc'[w] = "act" /\ orders' = orders /\ faults' = faults
      /\ \A v \in Workers \ {w} :
           pc'[v] = pc[v] /\ seen'[v] = seen[v] /\ task'[v] = task[v]
  BY DEF Arrive, TypeInv, TypeOK
<1>2. Len(orders) \in Nat
  BY DEF TypeInv, TypeOK
<1>3. ASSUME NEW v \in Workers
      PROVE  (pc[v] \in TakingOrders => Covers(v))'
  <2>1. CASE v = w
    BY <1>1, <2>1 DEF TakingOrders
  <2>2. CASE v # w
    BY <1>1, <1>2, <2>2, CoversFrame DEF CheckoutInv
  <2>3. QED
    BY <2>1, <2>2
<1>4. PendingIsPayable'
  <2>1. \A v \in Workers : pc[v] = "link" => pc'[v] = "link" /\ Latest(v)' = Latest(v)
    BY <1>1 DEF Latest
  <2>2. QED
    BY <1>1, <2>1 DEF CheckoutInv, PendingIsPayable
<1>5. QED
  BY <1>3, <1>4 DEF CheckoutInv

LEMMA CrashCheckout ==
    ASSUME TypeInv, Crash
    PROVE  CheckoutInv'
<1>1. faults' > 0
  BY DEF Crash, TypeInv, TypeOK
<1>2. \A v \in Workers : pc'[v] = "idle"
  BY DEF Crash
<1>3. QED
  BY <1>1, <1>2 DEF CheckoutInv, PendingIsPayable, TakingOrders

LEMMA NextCheckout == TypeInv /\ CheckoutInv /\ [Next]_vars => CheckoutInv'
<1> SUFFICES ASSUME TypeInv, CheckoutInv, [Next]_vars PROVE CheckoutInv'
  OBVIOUS
<1>1. ASSUME NEW w \in Workers, NEW m \in accepts[w], NEW expired \in BOOLEAN,
             Arrive(w, m, expired)
      PROVE  CheckoutInv'
  BY <1>1, ArriveCheckout
<1>2. ASSUME NEW w \in Workers, Handle(w)
      PROVE  CheckoutInv'
  BY <1>2, CartHandlersCheckout, FormHandlersCheckout, CheckoutStarts,
     CheckoutHandlersCheckout DEF Handle
<1>3. CASE Crash
  BY <1>3, CrashCheckout
<1>4. CASE UNCHANGED vars
  BY <1>4 DEF vars, CheckoutInv, PendingIsPayable, Latest, Covers, Absent, Placed, Data
<1>5. QED
  BY <1>1, <1>2, <1>3, <1>4 DEF Next

\* When a checkout clears its cart, each line of that cart is on exactly one
\* of the orders it made, as it was in the cart: the split into a Bumpa order
\* and another loses and doubles nothing, whichever links failed
\* (checkout.py:60-144, engine.py:1245-1289).
THEOREM CheckoutIsComplete == Spec => []CheckoutCoversCart
<1>1. CheckoutInv => CheckoutCoversCart
  <2> SUFFICES ASSUME CheckoutInv, NEW w \in Workers, pc[w] = "clear",
                      NEW p \in InCart(Data(w).cart)
               PROVE  Placed(w, p)
    BY DEF CheckoutCoversCart, Placed
  <2>1. Covers(w) /\ task[w].left = {}
    BY DEF CheckoutInv, TakingOrders, Covers
  <2>2. PICK g \in {"bumpa", "paystack"} : p \in GroupOf(Data(w).cart, g)
    BY GroupsSplit
  <2>3. QED
    BY <2>1, <2>2 DEF Covers
<1>2. QED
  BY <1>1, InitType, InitCheckout, NextType, NextCheckout, PTL DEF Spec

\* An order that waits for payment has a payment link, is about to get one,
\* or was cut short by a crash of the process: a link that could not be made
\* leaves no order pending (checkout.py:98-144).
THEOREM PendingOrdersArePayable == Spec => []PendingIsPayable
<1>1. CheckoutInv => PendingIsPayable
  BY DEF CheckoutInv
<1>2. QED
  BY <1>1, InitType, InitCheckout, NextType, NextCheckout, PTL DEF Spec

----------------------------------------------------------------------------
(***************************************************************************)
(* Forms and addresses, while no two messages have been handled together.  *)
(* The argument: the one handler that runs holds the row as it is in the   *)
(* table, so that what it commits is the table's row; the row's flow, its  *)
(* step and its drafts agree; and a checkout that is being made has an     *)
(* address for what it has to deliver.                                     *)
(***************************************************************************)
Known == {NoAddress, WholeAddress}
Fits(row) ==
    /\ row.flow = "profile_collect" =>
         ProfileFits(row) /\ row.data.address = NoAddressDraft
    /\ row.flow = "address_collect" =>
         AddressFits(row) /\ row.data.profile = NoProfileDraft
    /\ row.flow \notin Forms =>
         row.data.profile = NoProfileDraft /\ row.data.address = NoAddressDraft

\* What a handler at stage s holds: row, and its local variables t.
Holds(s, row, t) ==
    /\ s \in {"select", "ask_address", "order", "link", "clear"} => row.flow \notin Forms
    /\ s = "profile_saved" => row.flow = "profile_collect" /\ t.address \in Known
    /\ s = "ask_address" => t.address \in Known
    /\ s = "address_saved" => row.flow = "address_collect" /\ t.address = WholeAddress
    /\ s \in {"order", "link"} =>
         (RequiresShipping(row.data.cart) => Deliverable(t.address))
OneBusy == \A v, w \in Workers : pc[v] # "idle" /\ pc[w] # "idle" => v = w
Current(w) == seen[w] = session /\ Holds(pc[w], seen[w], task[w])
Shipped(o) == RequiresShipping(o.lines) => Deliverable(o.address)
SoloInv ==
    ~overlap =>
      /\ OneBusy
      /\ Fits(session)
      /\ customer.address \in Known
      /\ \A w \in Workers : pc[w] # "idle" => Current(w)
      /\ \A i \in DOMAIN orders : Shipped(orders[i])

\* Two rows with the same form.
SameForm(row, old) ==
    /\ row.flow = old.flow /\ row.step = old.step
    /\ row.data.profile = old.data.profile /\ row.data.address = old.data.address

LEMMA RowFields ==
    ASSUME NEW row \in Rows
    PROVE  /\ \A cart : /\ SameForm([row EXCEPT !.data.cart = cart], row)
                        /\ [row EXCEPT !.data.cart = cart].data.cart = cart
           /\ \A c : /\ SameForm([row EXCEPT !.data.wprofile = c], row)
                     /\ [row EXCEPT !.data.wprofile = c].data.cart = row.data.cart
           /\ \A a : /\ SameForm([row EXCEPT !.data.waddress = a], row)
                     /\ [row EXCEPT !.data.waddress = a].data.cart = row.data.cart
  BY DEF Rows, StateData, SameForm

\* A row with another selection or draft.
LEMMA DraftFields ==
    ASSUME NEW row \in Rows
    PROVE  /\ \A p : /\ SameForm([row EXCEPT !.data.selected = p], row)
                     /\ [row EXCEPT !.data.selected = p].data.cart = row.data.cart
           /\ \A d : /\ [row EXCEPT !.data.profile = d].flow = row.flow
                     /\ [row EXCEPT !.data.profile = d].step = row.step
                     /\ [row EXCEPT !.data.profile = d].data.profile = d
                     /\ [row EXCEPT !.data.profile = d].data.address = row.data.address
                     /\ [row EXCEPT !.data.profile = d].data.cart = row.data.cart
           /\ \A d : /\ [row EXCEPT !.data.address = d].flow = row.flow
                     /\ [row EXCEPT !.data.address = d].step = row.step
                     /\ [row EXCEPT !.data.address = d].data.address = d
                     /\ [row EXCEPT !.data.address = d].data.profile = row.data.profile
                     /\ [row EXCEPT !.data.address = d].data.cart = row.data.cart
  BY DEF Rows, StateData, SameForm

LEMMA AtFields ==
    ASSUME TypeInv, NEW w \in Workers, NEW flow, NEW step
    PROVE  /\ At(w, flow, step).flow = flow /\ At(w, flow, step).step = step
           /\ At(w, flow, step).data = seen[w].data
  BY HeldTypes DEF At, Rows

LEMMA FitsSame ==
    ASSUME NEW row, NEW old, SameForm(row, old), Fits(old)
    PROVE  Fits(row)
  BY DEF SameForm, Fits, ProfileFits, AddressFits

\* Where the one handler stands.
LEMMA SoloHolds ==
    ASSUME SoloInv, ~overlap, NEW w \in Workers, pc[w] # "idle"
    PROVE  /\ seen[w] = session /\ Fits(seen[w]) /\ Holds(pc[w], seen[w], task[w])
           /\ customer.address \in Known
           /\ \A i \in DOMAIN orders : Shipped(orders[i])
           /\ \A v \in Workers : v # w => pc[v] = "idle"
<1>1. Current(w) /\ OneBusy /\ Fits(session)
  BY DEF SoloInv
<1>2. QED
  BY <1>1 DEF Current, OneBusy, SoloInv

LEMMA SoloGoes ==
    ASSUME TypeInv, SoloInv, ~overlap, NEW w \in Workers, pc[w] # "idle",
           NEW s, NEW row, NEW t, Goes(w, s, row, t),
           s # "idle" => session' = row /\ Holds(s, row, t),
           Fits(session'), customer'.address \in Known,
           \A i \in DOMAIN orders' : Shipped(orders'[i])
    PROVE  SoloInv'
<1>1. \A v \in Workers : v # w => pc'[v] = "idle"
  BY SoloHolds DEF Goes, TypeInv, TypeOK
<1>2. OneBusy'
  BY <1>1 DEF OneBusy
<1>3. ASSUME NEW v \in Workers, pc'[v] # "idle"
      PROVE  Current(v)'
  <2>1. v = w
    BY <1>1, <1>3
  <2>2. pc'[v] = s /\ s # "idle"
    BY <1>3, <2>1 DEF Goes, TypeInv, TypeOK
  <2>3. seen'[v] = row /\ task'[v] = t
    BY <2>1, <2>2 DEF Goes, TypeInv, TypeOK
  <2>4. QED
    BY <2>2, <2>3 DEF Current, Holds, Deliverable, Goes
<1>4. QED
  BY <1>2, <1>3 DEF SoloInv, Shipped, Deliverable, Goes

LEMMA SoloCommit ==
    ASSUME TypeInv, SoloInv, ~overlap, NEW w \in Workers, pc[w] # "idle",
           NEW new \in Rows, NEW s, NEW t, Commit(w, new, s, t),
           Fits(new), s # "idle" => Holds(s, new, t)
    PROVE  SoloInv' /\ session' = new
<1>1. seen[w] = session /\ seen[w] \in Rows
  BY SoloHolds, HeldTypes
<1>2. session' = new
  BY <1>1 DEF Commit, Flushed, Rewritten, Kept, Rows
<1>3. customer'.address \in Known /\ \A i \in DOMAIN orders' : Shipped(orders'[i])
  BY SoloHolds DEF Commit
<1>4. Goes(w, s, new, t)
  BY DEF Commit
<1>5. QED
  BY <1>2, <1>3, <1>4, SoloGoes

LEMMA SoloUpdate ==
    ASSUME TypeInv, SoloInv, ~overlap, NEW w \in Workers, pc[w] # "idle",
           NEW new \in Rows, NEW s \in {"idle", "act", "select"}, Update(w, new, s),
           Fits(new), s = "select" => new.flow \notin Forms
    PROVE  SoloInv' /\ session' = new
<1>1. s # "idle" => Holds(s, new, task[w])
  BY DEF Holds
<1>2. QED
  BY <1>1, SoloCommit DEF Update

LEMMA SoloEnter ==
    ASSUME TypeInv, SoloInv, ~overlap, NEW w \in Workers, pc[w] # "idle",
           seen[w].flow \notin Forms,
           NEW flow \in Flows \ Forms, NEW step \in Steps, Enter(w, flow, step)
    PROVE  SoloInv' /\ session'.data.cart = session.data.cart
<1>1. seen[w] = session /\ seen[w] \in Rows /\ Fits(seen[w])
  BY SoloHolds, HeldTypes
<1>2. session'.flow = flow /\ session'.data = seen[w].data
  BY <1>1 DEF Enter, At, Flushed, Kept, Rows
<1>3. Fits(session')
  BY <1>1, <1>2 DEF Fits, Forms
<1>4. customer'.address \in Known /\ \A i \in DOMAIN orders' : Shipped(orders'[i])
  BY SoloHolds DEF Enter
<1>5. QED
  BY <1>1, <1>2, <1>3, <1>4, SoloGoes DEF Enter

LEMMA SoloStay ==
    ASSUME TypeInv, SoloInv, ~overlap, NEW w \in Workers, pc[w] # "idle", Stay(w)
    PROVE  SoloInv' /\ session' = session
<1>1. Fits(session') /\ customer'.address \in Known
      /\ \A i \in DOMAIN orders' : Shipped(orders'[i])
  BY SoloHolds DEF Stay
<1>2. QED
  BY <1>1, SoloGoes DEF Stay

----------------------------------------------------------------------------

\* A line that shrinks is accounted for.
Accounted ==
    \A p \in Products :
      Shrinks(p) =>
        \/ \E w \in Workers : Says(w, {"qty", "number", "clear"})
        \/ \E w \in Workers : pc[w] = "clear" /\ Ordered(w, p)
        \/ \E w \in Workers : pc[w] = "idle" /\ pc'[w] = "act"

LEMMA KeptAccounted ==
    ASSUME TypeInv, session'.data.cart = session.data.cart
    PROVE  Accounted
<1>1. \A p \in Products : session.data.cart[p].qty \in Nat
  BY DEF TypeInv, TypeOK, Rows, StateData, Carts, CartLines, NoLine
<1>2. QED
  BY <1>1 DEF Accounted, Shrinks

LEMMA SoloSaveCart ==
    ASSUME TypeInv, SoloInv, ~overlap, NEW w \in Workers, pc[w] # "idle",
           NEW cart \in Carts, NEW s \in {"idle", "select"},
           s = "select" => seen[w].flow \notin Forms, SaveCart(w, cart, s)
    PROVE  SoloInv' /\ session'.data.cart = cart
<1> DEFINE new == [seen[w] EXCEPT !.data.cart = cart]
<1>1. new \in Rows /\ SameForm(new, seen[w]) /\ new.data.cart = cart
  BY HeldTypes, RowUpdates, RowFields
<1>2. Fits(new) /\ new.flow = seen[w].flow
  BY <1>1, SoloHolds, FitsSame DEF SameForm
<1>3. Update(w, new, s)
  BY DEF SaveCart
<1> HIDE DEF new
<1>4. QED
  BY <1>1, <1>2, <1>3, SoloUpdate

\* Messages that open and close screens and change the cart.
LEMMA CartHandlersSolo ==
    ASSUME TypeInv, SoloInv, ~overlap, NEW w \in Workers, pc[w] # "idle",
           \/ CancelForm(w) \/ MainMenu(w) \/ BrowseCatalog(w)
           \/ CartAdd(w) \/ QuantityButton(w) \/ Select(w) \/ TypedQuantity(w)
           \/ ViewCart(w) \/ ClearCart(w) \/ TrackOrder(w) \/ MyPurchases(w)
           \/ MyProfile(w) \/ Unmatched(w) \/ SubmitWidgetForm(w)
    PROVE  SoloInv' /\ Accounted
<1>0. /\ seen[w] = session /\ seen[w] \in Rows /\ Fits(seen[w])
      /\ Holds(pc[w], seen[w], task[w])
      /\ Data(w).cart \in Carts
  BY SoloHolds, HeldTypes
<1>1. CASE CancelForm(w)
  <2> DEFINE new == WithoutDraft(seen[w])
  <2>1. /\ new.flow = "none" /\ new.data.cart = seen[w].data.cart
        /\ new.data.profile = IF seen[w].flow = "profile_collect" THEN NoProfileDraft
                              ELSE seen[w].data.profile
        /\ new.data.address = IF seen[w].flow = "address_collect" THEN NoAddressDraft
                              ELSE seen[w].data.address
    BY <1>0 DEF WithoutDraft, Rows, StateData
  <2>2. new \in Rows
    BY <1>0, DraftTypes DEF WithoutDraft, Rows, Flows, Steps, StateData
  <2>3. Fits(new)
    BY <1>0, <2>1 DEF Fits, Forms
  <2>4. Update(w, new, "act")
    BY <1>1 DEF CancelForm
  <2> HIDE DEF new
  <2>5. SoloInv' /\ session' = new
    BY <2>2, <2>3, <2>4, SoloUpdate
  <2>6. QED
    BY <1>0, <2>1, <2>5, KeptAccounted
<1>2. CASE MainMenu(w) \/ BrowseCatalog(w) \/ TrackOrder(w) \/ MyPurchases(w) \/ MyProfile(w)
  <2>1. seen[w].flow \notin Forms
    BY <1>2 DEF MainMenu, BrowseCatalog, TrackOrder, MyPurchases, MyProfile, Free
  <2>2. \/ Stay(w)
        \/ \E flow \in Flows \ Forms, step \in Steps : Enter(w, flow, step)
    BY <1>2 DEF MainMenu, BrowseCatalog, TrackOrder, MyPurchases, MyProfile, Flows, Forms, Steps
  <2>3. SoloInv' /\ session'.data.cart = session.data.cart
    BY <2>1, <2>2, SoloEnter, SoloStay
  <2>4. QED
    BY <2>3, KeptAccounted
<1>3. CASE ViewCart(w) \/ Unmatched(w)
  <2>1. SoloInv' /\ session' = session
    BY <1>3, SoloStay DEF ViewCart, Unmatched
  <2>2. QED
    BY <2>1, KeptAccounted
<1>4. CASE CartAdd(w)
  <2>1. seen[w].flow \notin Forms /\ msg[w].item \in Products
    BY <1>4, HeldTypes DEF CartAdd, Free, Says
  <2>2. AddItem(Data(w).cart, msg[w].item) \in Carts
    BY <1>0, <2>1, CartTypes
  <2>3. SoloInv' /\ session'.data.cart = AddItem(Data(w).cart, msg[w].item)
    BY <1>4, <2>1, <2>2, SoloSaveCart DEF CartAdd
  <2>4. \A p \in Products : ~Shrinks(p)
    BY <1>0, <2>1, <2>3 DEF Shrinks, AddItem, InCart, Data, Carts, CartLines, NoLine
  <2>5. QED
    BY <2>3, <2>4 DEF Accounted
<1>5. CASE QuantityButton(w)
  <2>1. /\ seen[w].flow \notin Forms /\ msg[w].item \in Products /\ msg[w].qty \in 0..MaxQty
        /\ Says(w, {"qty"})
    BY <1>5, HeldTypes DEF QuantityButton, Free, Says
  <2>2. SetQuantity(Data(w).cart, msg[w].item, msg[w].qty, "priced") \in Carts
    BY <1>0, <2>1, CartTypes, ConversationAssumption DEF LineKinds
  <2>3. SoloInv'
    BY <1>5, <2>1, <2>2, SoloSaveCart DEF QuantityButton
  <2>4. QED
    BY <2>1, <2>3 DEF Accounted, Says
<1>6. CASE TypedQuantity(w)
  <2>1. /\ seen[w].flow \notin Forms /\ Data(w).selected \in Products /\ msg[w].qty \in 0..MaxQty
        /\ Says(w, {"number"})
    BY <1>6, HeldTypes DEF TypedQuantity, Free
  <2>2. SetQuantity(Data(w).cart, Data(w).selected, msg[w].qty, "free") \in Carts
    BY <1>0, <2>1, CartTypes, ConversationAssumption DEF LineKinds
  <2>3. SoloInv'
    BY <1>6, <2>1, <2>2, SoloSaveCart DEF TypedQuantity
  <2>4. QED
    BY <2>1, <2>3 DEF Accounted, Says
<1>7. CASE ClearCart(w)
  <2>1. Says(w, {"clear"}) /\ EmptyCart \in Carts
    BY <1>7, CartTypes DEF ClearCart, Free
  <2>2. SoloInv'
    BY <1>7, <2>1, SoloSaveCart DEF ClearCart
  <2>3. QED
    BY <2>1, <2>2 DEF Accounted, Says
<1>8. CASE Select(w)
  <2> DEFINE row == At(w, "quantity_select", msg[w].item)
             new == [row EXCEPT !.data.selected = msg[w].item]
  <2>1. msg[w].item \in Products /\ seen[w].flow \notin Forms
    BY <1>0, <1>8 DEF Select, TypeInv, Holds
  <2>2. row \in Rows
    BY <2>1, AtType DEF Flows, Steps
  <2>3. row.flow = "quantity_select" /\ row.data = seen[w].data
    BY AtFields
  <2>4. Update(w, new, "idle")
    BY <1>8 DEF Select
  <2> HIDE DEF row
  <2>5. new \in Rows /\ SameForm(new, row) /\ new.data.cart = row.data.cart
    BY <2>1, <2>2, RowUpdates, DraftFields
  <2>6. Fits(row)
    BY <1>0, <2>1, <2>3 DEF Fits, Forms
  <2>7. Fits(new)
    BY <2>5, <2>6, FitsSame
  <2> HIDE DEF new
  <2>8. SoloInv' /\ session' = new
    BY <2>4, <2>5, <2>7, SoloUpdate
  <2>9. QED
    BY <1>0, <2>3, <2>5, <2>8, KeptAccounted
<1>9. CASE SubmitWidgetForm(w)
  <2>1. PICK new \in Rows : /\ SameForm(new, seen[w]) /\ new.data.cart = seen[w].data.cart
                            /\ Update(w, new, "idle")
    BY <1>0, <1>9, RowUpdates, RowFields, DraftTypes DEF SubmitWidgetForm
  <2>2. SoloInv' /\ session' = new
    BY <1>0, <2>1, FitsSame, SoloUpdate
  <2>3. QED
    BY <1>0, <2>1, <2>2, KeptAccounted
<1>10. QED
  BY <1>1, <1>2, <1>3, <1>4, <1>5, <1>6, <1>7, <1>8, <1>9

----------------------------------------------------------------------------

\* A commit that opens or advances the profile form.
LEMMA SoloProfileDraft ==
    ASSUME TypeInv, SoloInv, ~overlap, NEW w \in Workers, pc[w] # "idle",
           NEW step \in Steps, NEW d \in ProfileDrafts,
           seen[w].data.address = NoAddressDraft, d.resume # "none",
           IF step = "confirm_prefill" THEN "name" \in d.have
           ELSE step = NextMissing(d.have) /\ step # "complete",
           Update(w, [At(w, "profile_collect", step) EXCEPT !.data.profile = d], "idle")
    PROVE  SoloInv' /\ Accounted
<1> DEFINE row == At(w, "profile_collect", step)
           new == [row EXCEPT !.data.profile = d]
<1>1. row \in Rows
  BY AtType DEF Flows
<1>2. row.flow = "profile_collect" /\ row.step = step /\ row.data = seen[w].data
  BY AtFields
<1>3. Update(w, new, "idle")
  OBVIOUS
<1> HIDE DEF row
<1>4. /\ new \in Rows /\ new.flow = "profile_collect" /\ new.step = step
      /\ new.data.profile = d /\ new.data.address = NoAddressDraft
      /\ new.data.cart = seen[w].data.cart
  <2>1. new \in Rows
    BY <1>1, RowUpdates
  <2>2. /\ new.flow = row.flow /\ new.step = row.step /\ new.data.profile = d
        /\ new.data.address = row.data.address /\ new.data.cart = row.data.cart
    BY <1>1, DraftFields
  <2> HIDE DEF new
  <2>3. QED
    BY <1>2, <2>1, <2>2
<1> HIDE DEF new
<1>5. Fits(new)
  BY <1>4 DEF Fits, ProfileFits, Forms
<1>6. SoloInv' /\ session' = new
  BY <1>3, <1>4, <1>5, SoloUpdate
<1>7. QED
  BY <1>4, <1>6, SoloHolds, KeptAccounted

LEMMA SoloStartProfile ==
    ASSUME TypeInv, SoloInv, ~overlap, NEW w \in Workers, pc[w] # "idle",
           seen[w].flow \notin Forms,
           NEW resume \in Resumes, resume # "none", StartProfile(w, resume)
    PROVE  SoloInv' /\ Accounted
<1> DEFINE full == resume = "profile_view"
           have == IF full THEN OwnPhone ELSE KnownProfile \union OwnPhone
           saved == IF full THEN KnownProfile \union OwnPhone ELSE {}
<1>1. KnownProfile \subseteq Contact /\ OwnPhone \subseteq {"phone"}
      /\ (channel = "widget" => KnownProfile = {})
  BY DEF KnownProfile, OwnPhone, TypeInv, TypeOK
<1>2. have \subseteq Contact /\ saved \subseteq Contact
  BY <1>1 DEF Contact
<1>3. PICK offered \in BOOLEAN :
         /\ ~offered => "name" \notin have
         /\ Update(w, [At(w, "profile_collect", IF offered THEN "confirm_prefill" ELSE "ask_name")
                         EXCEPT !.data.profile =
                           [resume |-> resume,
                            have |-> IF offered THEN have \union {"name"} ELSE have,
                            saved |-> saved]], "idle")
  <2>1. PICK prefill \in BOOLEAN : StartProfile(w, resume)!(prefill)
    BY DEF StartProfile
  <2>2. PICK offered \in BOOLEAN :
          offered = (~full /\ channel # "widget" /\ ("name" \in have \/ prefill))
    OBVIOUS
  <2>3. ~offered => "name" \notin have
    BY <1>1, <2>2
  <2>4. QED
    BY <2>1, <2>2, <2>3
<1> DEFINE d == [resume |-> resume, have |-> IF offered THEN have \union {"name"} ELSE have,
                 saved |-> saved]
           step == IF offered THEN "confirm_prefill" ELSE "ask_name"
<1>4. d \in ProfileDrafts
  BY <1>2 DEF ProfileDrafts, Contact
<1>5. IF step = "confirm_prefill" THEN "name" \in d.have
      ELSE step = NextMissing(d.have) /\ step # "complete"
  BY <1>3 DEF NextMissing
<1>6. step \in Steps /\ d.resume # "none"
  BY DEF Steps, ProfileSteps
<1>7. seen[w].data.address = NoAddressDraft
  BY SoloHolds DEF Fits
<1>8. Update(w, [At(w, "profile_collect", step) EXCEPT !.data.profile = d], "idle")
  BY <1>3
<1> HIDE DEF d, step
<1>9. QED
  BY <1>4, <1>5, <1>6, <1>7, <1>8, SoloProfileDraft

LEMMA SoloAdvanceProfile ==
    ASSUME TypeInv, SoloInv, ~overlap, NEW w \in Workers, pc[w] = "act",
           seen[w].flow = "profile_collect",
           NEW d \in ProfileDrafts, d.resume # "none", AdvanceProfile(w, d)
    PROVE  SoloInv' /\ Accounted
<1>1. /\ Fits(seen[w]) /\ seen[w] = session /\ customer.address \in Known
      /\ \A i \in DOMAIN orders : Shipped(orders[i])
  BY SoloHolds
<1>2. CASE NextMissing(d.have) # "complete"
  <2>1. NextMissing(d.have) \in Steps /\ NextMissing(d.have) # "confirm_prefill"
    BY <1>2 DEF NextMissing, Steps, ProfileSteps
  <2>2. seen[w].data.address = NoAddressDraft
    BY <1>1 DEF Fits
  <2>3. QED
    BY <1>2, <2>1, <2>2, SoloProfileDraft DEF AdvanceProfile
<1>3. CASE NextMissing(d.have) = "complete"
  <2> DEFINE t == [NoTask EXCEPT !.resume = d.resume, !.contact = d.have,
                                 !.address = customer.address]
  <2>1. t.address = customer.address
    BY DEF NoTask
  <2>2. Holds("profile_saved", seen[w], t)
    BY <1>1, <2>1 DEF Holds
  <2>3. customer'.address = customer.address
    BY <1>3 DEF AdvanceProfile, TypeInv, TypeOK
  <2>4. Goes(w, "profile_saved", seen[w], t) /\ UNCHANGED <<session, orders>>
    BY <1>3 DEF AdvanceProfile
  <2> HIDE DEF t
  <2>5. SoloInv'
    BY <1>1, <2>2, <2>3, <2>4, SoloGoes
  <2>6. QED
    BY <2>4, <2>5, KeptAccounted
<1>4. QED
  BY <1>2, <1>3

LEMMA ProfileHandlersSolo ==
    ASSUME TypeInv, SoloInv, ~overlap, NEW w \in Workers, pc[w] # "idle",
           EditProfile(w) \/ ConfirmName(w) \/ AnswerField(w) \/ UnknownStep(w)
    PROVE  SoloInv' /\ Accounted
<1>0. seen[w] = session /\ Fits(seen[w]) /\ seen[w] \in Rows
  BY SoloHolds, HeldTypes
<1>1. CASE EditProfile(w)
  <2>1. seen[w].flow \notin Forms
    BY <1>1 DEF EditProfile, Free
  <2>2. CASE Enter(w, "main_menu", "root")
    <3>1. SoloInv' /\ session'.data.cart = session.data.cart
      BY <2>1, <2>2, SoloEnter DEF Flows, Forms, Steps
    <3>2. QED
      BY <3>1, KeptAccounted
  <2>3. CASE StartProfile(w, "profile_view")
    BY <2>1, <2>3, SoloStartProfile DEF Resumes
  <2>4. QED
    BY <1>1, <2>2, <2>3 DEF EditProfile
<1>2. CASE ConfirmName(w)
  <2> DEFINE d == Data(w).profile
             renamed == [d EXCEPT !.have = d.have \ {"name"}]
  <2>1. /\ pc[w] = "act" /\ seen[w].flow = "profile_collect"
        /\ \/ Update(w, [At(w, "profile_collect", "ask_name")
                           EXCEPT !.data.profile = renamed], "idle")
           \/ AdvanceProfile(w, d)
    BY <1>2 DEF ConfirmName, Answer, Handling
  <2>2. ProfileFits(seen[w]) /\ seen[w].data.address = NoAddressDraft
    BY <1>0, <2>1 DEF Fits
  <2>3. d \in ProfileDrafts /\ d.resume # "none"
    BY <2>2, HeldTypes DEF ProfileFits, Data
  <2>4. /\ renamed \in ProfileDrafts /\ renamed.resume # "none"
        /\ NextMissing(renamed.have) = "ask_name"
    BY <2>3 DEF ProfileDrafts, NextMissing
  <2>5. "ask_name" \in Steps
    BY DEF Steps, ProfileSteps
  <2> HIDE DEF d, renamed
  <2>6. CASE Update(w, [At(w, "profile_collect", "ask_name")
                          EXCEPT !.data.profile = renamed], "idle")
    BY <2>2, <2>4, <2>5, <2>6, SoloProfileDraft
  <2>7. CASE AdvanceProfile(w, d)
    BY <2>1, <2>3, <2>7, SoloAdvanceProfile
  <2>8. QED
    BY <2>1, <2>6, <2>7
<1>3. CASE AnswerField(w)
  <2> DEFINE d == Data(w).profile
             answered == [d EXCEPT !.have = @ \union {Asked(seen[w].step)}]
  <2>1. /\ pc[w] = "act" /\ seen[w].flow = "profile_collect"
        /\ AdvanceProfile(w, answered) \/ Stay(w)
    BY <1>3 DEF AnswerField, Answer, Handling
  <2>2. ProfileFits(seen[w])
    BY <1>0, <2>1 DEF Fits
  <2>3. answered \in ProfileDrafts /\ answered.resume # "none"
    BY <2>2, HeldTypes DEF ProfileFits, Data, ProfileDrafts, Asked, Contact
  <2> HIDE DEF answered
  <2>4. CASE AdvanceProfile(w, answered)
    BY <2>1, <2>3, <2>4, SoloAdvanceProfile
  <2>5. CASE Stay(w)
    <3>1. SoloInv' /\ session' = session
      BY <2>5, SoloStay
    <3>2. QED
      BY <3>1, KeptAccounted
  <2>6. QED
    BY <2>1, <2>4, <2>5
<1>4. CASE UnknownStep(w)
  <2>1. CASE seen[w].flow = "profile_collect"
    <3>1. seen[w].step \in ProfileSteps
      BY <1>0, <2>1 DEF Fits, ProfileFits, NextMissing, ProfileSteps
    <3>2. QED
      BY <1>4, <2>1, <3>1 DEF UnknownStep, Answer
  <2>2. CASE seen[w].flow = "address_collect"
    <3>1. AddressFits(seen[w]) /\ seen[w].data.address \in AddressDrafts
      BY <1>0, <2>2, HeldTypes DEF Fits, Data
    <3>2. seen[w].step \in {"ask_address", "confirm_address"} \union Fields
      BY <3>1, FirstMissingType DEF AddressFits, AddressDrafts
    <3>3. QED
      BY <1>4, <2>2, <3>2 DEF UnknownStep, Answer
  <2>3. QED
    BY <1>4, <2>1, <2>2 DEF UnknownStep, Answer
<1>5. QED
  BY <1>1, <1>2, <1>3, <1>4

----------------------------------------------------------------------------

\* A commit that opens or advances the address form.
LEMMA SoloAddressDraft ==
    ASSUME TypeInv, SoloInv, ~overlap, NEW w \in Workers, pc[w] # "idle",
           NEW step \in Steps, NEW d \in AddressDrafts,
           seen[w].data.profile = NoProfileDraft, d.resume # "none",
           \/ step = "ask_address" /\ d.missing = {} /\ d.address \in Known
           \/ d.missing # {} /\ step = FirstMissing(d.missing)
              /\ d.address.has \union d.missing = Fields
           \/ step = "confirm_address" /\ d.missing = {} /\ d.address = WholeAddress,
           Update(w, [At(w, "address_collect", step) EXCEPT !.data.address = d], "idle")
    PROVE  SoloInv' /\ Accounted
<1> DEFINE row == At(w, "address_collect", step)
           new == [row EXCEPT !.data.address = d]
<1>1. row \in Rows
  BY AtType DEF Flows
<1>2. row.flow = "address_collect" /\ row.step = step /\ row.data = seen[w].data
  BY AtFields
<1>3. Update(w, new, "idle")
  OBVIOUS
<1> HIDE DEF row
<1>4. new \in Rows
  BY <1>1, RowUpdates
<1>5. /\ new.flow = row.flow /\ new.step = row.step /\ new.data.address = d
      /\ new.data.profile = row.data.profile /\ new.data.cart = row.data.cart
  BY <1>1, DraftFields
<1> HIDE DEF new
<1>6. Fits(new)
  BY <1>2, <1>5 DEF Fits, AddressFits, Forms, Known
<1>7. SoloInv' /\ session' = new
  BY <1>3, <1>4, <1>6, SoloUpdate
<1>8. QED
  BY <1>2, <1>5, <1>7, SoloHolds, KeptAccounted

LEMMA SoloStartAddress ==
    ASSUME TypeInv, SoloInv, ~overlap, NEW w \in Workers, pc[w] # "idle",
           seen[w].flow \notin Forms, NEW resume \in Resumes, resume # "none",
           NEW who \in SUBSET Contact, NEW address \in Addresses, address \in Known,
           StartAddress(w, resume, who, address)
    PROVE  SoloInv' /\ Accounted
<1> DEFINE d == [resume |-> resume, who |-> who, address |-> address, missing |-> {}]
<1>1. /\ d \in AddressDrafts /\ d.resume # "none" /\ d.missing = {} /\ d.address \in Known
      /\ "ask_address" \in Steps
  BY DEF AddressDrafts, Steps
<1>2. seen[w].data.profile = NoProfileDraft
  BY SoloHolds DEF Fits
<1>3. Update(w, [At(w, "address_collect", "ask_address") EXCEPT !.data.address = d], "idle")
  BY DEF StartAddress
<1> HIDE DEF d
<1>4. QED
  BY <1>1, <1>2, <1>3, SoloAddressDraft

LEMMA SoloAdvanceAddress ==
    ASSUME TypeInv, SoloInv, ~overlap, NEW w \in Workers, pc[w] # "idle",
           seen[w].data.profile = NoProfileDraft,
           NEW d \in AddressDrafts, d.resume # "none",
           d.address.has \union d.missing = Fields, d.address.given,
           AdvanceAddress(w, d)
    PROVE  SoloInv' /\ Accounted
<1> DEFINE step == IF d.missing = {} THEN "confirm_address" ELSE FirstMissing(d.missing)
<1>1. step \in Steps
  BY FirstMissingType DEF AddressDrafts, Steps
<1>2. d.missing = {} => d.address = WholeAddress
  BY DEF AddressDrafts, Addresses, WholeAddress
<1>3. Update(w, [At(w, "address_collect", step) EXCEPT !.data.address = d], "idle")
  BY DEF AdvanceAddress
<1>4. \/ d.missing # {} /\ step = FirstMissing(d.missing)
         /\ d.address.has \union d.missing = Fields
      \/ step = "confirm_address" /\ d.missing = {} /\ d.address = WholeAddress
  BY <1>2
<1> HIDE DEF step
<1>5. QED
  BY <1>1, <1>3, <1>4, SoloAddressDraft

\* Every draft the form makes out of what was typed has, with what it still
\* asks for, every field.
LEMMA DraftsComplete ==
    ASSUME NEW d \in AddressDrafts
    PROVE  /\ \A has \in SUBSET Fields :
                /\ Parsed(d, has).address.has \union Parsed(d, has).missing = Fields
                /\ Parsed(d, has).address.given /\ Parsed(d, has).resume = d.resume
           /\ d.address.has \union d.missing = Fields =>
                \A f \in Fields :
                  /\ Supplied(d, f).address.has \union Supplied(d, f).missing = Fields
                  /\ Supplied(d, f).address.given /\ Supplied(d, f).resume = d.resume
  BY DEF AddressDrafts, Addresses, Parsed, Supplied

\* A field is no other step of the address form.
LEMMA FieldNames == "ask_address" \notin Fields /\ "confirm_address" \notin Fields
  BY FieldAssumption DEF Fields

LEMMA FirstOfOne ==
    ASSUME NEW f \in Fields
    PROVE  FirstMissing({f}) = f
  BY FirstMissingType

LEMMA AddressHandlersSolo ==
    ASSUME TypeInv, SoloInv, ~overlap, NEW w \in Workers, pc[w] # "idle",
           UpdateAddress(w) \/ GiveAddress(w) \/ GiveMissing(w) \/ ConfirmAddress(w)
    PROVE  SoloInv' /\ Accounted
<1> DEFINE d == Data(w).address
<1>0. /\ seen[w] = session /\ Fits(seen[w]) /\ seen[w] \in Rows /\ d \in AddressDrafts
      /\ customer.address \in Known /\ \A i \in DOMAIN orders : Shipped(orders[i])
  BY SoloHolds, HeldTypes
<1>1. CASE Stay(w)
  <2>1. SoloInv' /\ session' = session
    BY <1>1, SoloStay
  <2>2. QED
    BY <2>1, KeptAccounted
<1>2. CASE UpdateAddress(w)
  <2>1. seen[w].flow \notin Forms
    BY <1>2 DEF UpdateAddress, Free
  <2>2. CASE Enter(w, "main_menu", "root")
    <3>1. SoloInv' /\ session'.data.cart = session.data.cart
      BY <2>1, <2>2, SoloEnter DEF Flows, Forms, Steps
    <3>2. QED
      BY <3>1, KeptAccounted
  <2>3. CASE StartAddress(w, "profile_view", {}, customer.address)
    <3>1. customer.address \in Addresses
      BY DEF TypeInv, TypeOK
    <3>2. QED
      BY <1>0, <2>1, <2>3, <3>1, SoloStartAddress DEF Resumes
  <2>4. QED
    BY <1>2, <2>2, <2>3 DEF UpdateAddress
<1>3. CASE (GiveAddress(w) \/ GiveMissing(w) \/ ConfirmAddress(w)) /\ ~Stay(w)
  <2>1. seen[w].flow = "address_collect" /\ pc[w] = "act"
    BY <1>3 DEF GiveAddress, GiveMissing, ConfirmAddress, Answer, Handling
  <2>2. AddressFits(seen[w]) /\ seen[w].data.profile = NoProfileDraft
    BY <1>0, <2>1 DEF Fits
  <2>3. d.resume # "none"
    BY <2>2 DEF AddressFits, Data
  <2>4. CASE GiveAddress(w)
    <3>1. seen[w].step = "ask_address"
      BY <2>4 DEF GiveAddress
    <3>2. d.missing = {} => d.address \in Known
      BY <2>2, <3>1, FieldNames DEF AddressFits, Data, Known
    <3>3. d.missing = {}
      BY <1>0, <2>2, <3>1, FieldNames, FirstMissingType DEF AddressFits, Data, AddressDrafts
    <3>4. CASE AdvanceAddress(w, d) /\ d.address.given
      <4>1. d.address.has \union d.missing = Fields
        BY <3>2, <3>3, <3>4 DEF Known, NoAddress, WholeAddress
      <4>2. QED
        BY <1>0, <2>2, <2>3, <3>4, <4>1, SoloAdvanceAddress
    <3>5. CASE \E has \in SUBSET Fields : AdvanceAddress(w, Parsed(d, has))
      <4>1. PICK has \in SUBSET Fields : AdvanceAddress(w, Parsed(d, has))
        BY <3>5
      <4>2. Parsed(d, has) \in AddressDrafts
        BY <1>0, DraftTypes
      <4>3. /\ Parsed(d, has).address.has \union Parsed(d, has).missing = Fields
            /\ Parsed(d, has).address.given /\ Parsed(d, has).resume # "none"
        BY <1>0, <2>3, DraftsComplete
      <4>4. QED
        BY <2>2, <4>1, <4>2, <4>3, SoloAdvanceAddress
    <3>6. QED
      BY <2>4, <3>4, <3>5, DraftTypes DEF GiveAddress
  <2>5. CASE GiveMissing(w)
    <3>1. PICK f \in Fields : f = seen[w].step /\ AdvanceAddress(w, Supplied(d, f))
      BY <1>3, <2>5 DEF GiveMissing
    <3>2. d.address.has \union d.missing = Fields
      BY <2>2, <3>1, FieldNames DEF AddressFits, Data
    <3>3. Supplied(d, f) \in AddressDrafts
      BY <1>0, DraftTypes
    <3>4. /\ Supplied(d, f).address.has \union Supplied(d, f).missing = Fields
          /\ Supplied(d, f).address.given /\ Supplied(d, f).resume # "none"
      BY <1>0, <2>3, <3>2, DraftsComplete
    <3>5. QED
      BY <2>2, <3>1, <3>3, <3>4, SoloAdvanceAddress
  <2>6. CASE ConfirmAddress(w)
    <3>1. seen[w].step = "confirm_address"
      BY <2>6 DEF ConfirmAddress
    <3>2. d.missing = {} /\ d.address = WholeAddress
      BY <1>0, <2>2, <3>1, FieldNames, FirstMissingType DEF AddressFits, Data, AddressDrafts
    <3>3. CASE SaveAddress(w)
      <4> DEFINE t == [NoTask EXCEPT !.resume = d.resume, !.address = d.address,
                                     !.contact = d.who \union customer.profile]
      <4>1. t.address = WholeAddress
        BY <3>2 DEF NoTask
      <4>2. Holds("address_saved", seen[w], t)
        BY <2>1, <4>1 DEF Holds
      <4>3. customer'.address \in Known
        BY <3>2, <3>3 DEF SaveAddress, Known, TypeInv, TypeOK
      <4>4. Goes(w, "address_saved", seen[w], t) /\ UNCHANGED <<session, orders>>
        BY <3>3 DEF SaveAddress
      <4> HIDE DEF t
      <4>5. SoloInv'
        BY <1>0, <4>2, <4>3, <4>4, SoloGoes
      <4>6. QED
        BY <4>4, <4>5, KeptAccounted
    <3>4. CASE Tapped(w, "edit_field") /\ ~SaveAddress(w)
      <4> DEFINE f == msg[w].field
                 e == [d EXCEPT !.missing = {f}]
                 row == At(w, "address_collect", f)
      <4>1. f \in Fields
        BY <3>4, HeldTypes DEF Tapped
      <4>2. /\ e \in AddressDrafts /\ e.missing = {f} /\ e.resume # "none"
            /\ e.address.has \union e.missing = Fields
        BY <1>0, <2>3, <3>2, <4>1 DEF AddressDrafts, WholeAddress
      <4>3. Update(w, [row EXCEPT !.data.address.missing = {f}], "idle")
        BY <1>3, <2>6, <3>4 DEF ConfirmAddress
      <4>4. row \in Rows /\ row.data.address = d
        <5>1. row \in Rows
          BY <4>1, AtType DEF Flows, Steps
        <5>2. row.data = seen[w].data
          BY AtFields
        <5>3. QED
          BY <5>1, <5>2 DEF Data
      <4>5. [row EXCEPT !.data.address.missing = {f}] = [row EXCEPT !.data.address = e]
        <5>1. \A r \in Rows :
                [r EXCEPT !.data.address.missing = {f}]
                  = [r EXCEPT !.data.address = [r.data.address EXCEPT !.missing = {f}]]
          BY DEF Rows, StateData, AddressDrafts
        <5> HIDE DEF row, d
        <5>2. QED
          BY <4>4, <5>1
      <4>6. f \in Steps /\ f = FirstMissing(e.missing)
        BY <4>1, <4>2, FirstOfOne DEF Steps
      <4> HIDE DEF e, f
      <4>7. QED
        BY <2>2, <4>2, <4>3, <4>5, <4>6, SoloAddressDraft
    <3>5. QED
      BY <1>3, <2>6, <3>3, <3>4 DEF ConfirmAddress
  <2>7. QED
    BY <1>3, <2>4, <2>5, <2>6
<1>4. QED
  BY <1>1, <1>2, <1>3

----------------------------------------------------------------------------

\* Goods that are split off a cart are delivered only if some of the cart are.
LEMMA SplitShips ==
    ASSUME NEW cart \in Carts, NEW g, NEW lines,
           lines = [p \in Products |-> IF p \in GroupOf(cart, g) THEN cart[p] ELSE NoLine],
           RequiresShipping(lines)
    PROVE  RequiresShipping(cart)
<1>1. PICK p \in Products : lines[p].qty > 0 /\ Ships(lines, p)
  BY DEF RequiresShipping, InCart
<1>2. p \in GroupOf(cart, g) /\ lines[p] = cart[p]
  BY <1>1 DEF NoLine
<1>3. p \in InCart(cart) /\ Ships(cart, p)
  BY <1>1, <1>2 DEF InCart, Ships
<1>4. QED
  BY <1>3 DEF RequiresShipping

\* A checkout that lacks no address has one to deliver to.
LEMMA LacksNone ==
    ASSUME NEW w, NEW address \in Known, ~LacksAddress(w, address)
    PROVE  RequiresShipping(Data(w).cart) => Deliverable(Delivery(w, address))
  BY DEF Delivery, Deliverable, LacksAddress, Known, NoAddress, WholeAddress

LEMMA BilledAddress ==
    ASSUME NEW w, NEW contact, NEW address
    PROVE  Billed(w, contact, address).address = address
  BY DEF Billed, NoTask

LEMMA SoloBills ==
    ASSUME TypeInv, SoloInv, ~overlap, NEW w \in Workers, pc[w] # "idle",
           seen[w].flow \notin Forms, NEW contact,
           ~LacksAddress(w, customer.address),
           Goes(w, "order", seen[w], Billed(w, contact, Delivery(w, customer.address))),
           UNCHANGED <<session, customer, orders>>
    PROVE  SoloInv' /\ Accounted
<1> DEFINE t == Billed(w, contact, Delivery(w, customer.address))
<1>1. /\ seen[w] = session /\ Fits(seen[w]) /\ customer.address \in Known
      /\ \A i \in DOMAIN orders : Shipped(orders[i])
  BY SoloHolds
<1>2. Holds("order", seen[w], t)
  BY <1>1, LacksNone, BilledAddress DEF Holds, Data
<1>3. Goes(w, "order", seen[w], t)
  OBVIOUS
<1> HIDE DEF t
<1>4. SoloInv'
  BY <1>1, <1>2, <1>3, SoloGoes
<1>5. QED
  BY <1>4, KeptAccounted

LEMMA CheckoutSolo ==
    ASSUME TypeInv, SoloInv, ~overlap, NEW w \in Workers, pc[w] # "idle", Checkout(w)
    PROVE  SoloInv' /\ Accounted
<1>1. seen[w].flow \notin Forms /\ customer.address \in Known /\ customer.address \in Addresses
  BY SoloHolds DEF Checkout, Free, TypeInv, TypeOK
<1>2. CASE Stay(w)
  <2>1. SoloInv' /\ session' = session
    BY <1>2, SoloStay
  <2>2. QED
    BY <2>1, KeptAccounted
<1>3. CASE StartProfile(w, "cart")
  BY <1>1, <1>3, SoloStartProfile DEF Resumes
<1>4. CASE StartAddress(w, "cart", {}, customer.address)
  BY <1>1, <1>4, SoloStartAddress DEF Resumes
<1>5. CASE /\ ~LacksAddress(w, customer.address)
           /\ Goes(w, "order", seen[w], Billed(w, Contact, Delivery(w, customer.address)))
           /\ UNCHANGED <<session, customer, orders>>
  BY <1>1, <1>5, SoloBills
<1>6. QED
  BY <1>2, <1>3, <1>4, <1>5 DEF Checkout

\* A completed form ends, and the checkout it interrupted goes on.
LEMMA SoloResume ==
    ASSUME TypeInv, SoloInv, ~overlap, NEW w \in Workers, pc[w] # "idle",
           NEW new \in Rows, new.flow = "none", new.data.cart = seen[w].data.cart,
           new.data.profile = NoProfileDraft, new.data.address = NoAddressDraft,
           NEW s \in {"ask_address", "order", "idle"}, NEW address,
           s # "idle" => task[w].address \in Known,
           s = "order" /\ RequiresShipping(Data(w).cart) => Deliverable(address),
           Resume(w, new, s, address)
    PROVE  SoloInv' /\ Accounted
<1> DEFINE t == IF s = "order" THEN Billed(w, task[w].contact, address) ELSE task[w]
<1>1. Fits(new)
  BY DEF Fits, Forms
<1>2. CASE s = "order"
  <2>1. RequiresShipping(new.data.cart) => Deliverable(t.address)
    BY <1>2, BilledAddress DEF Data
  <2>2. QED
    BY <1>1, <1>2, <2>1, SoloCommit, SoloHolds, KeptAccounted DEF Resume, Holds, Forms
<1>3. CASE s # "order"
  <2>1. s # "idle" => Holds(s, new, t)
    BY <1>3 DEF Holds, Forms
  <2>2. Commit(w, new, s, t)
    BY DEF Resume
  <2> HIDE DEF t
  <2>3. SoloInv' /\ session' = new
    BY <1>1, <2>1, <2>2, SoloCommit
  <2>4. QED
    BY <2>3, SoloHolds, KeptAccounted
<1>4. QED
  BY <1>2, <1>3

LEMMA CheckoutHandlersSolo ==
    ASSUME TypeInv, SoloInv, ~overlap, NEW w \in Workers, pc[w] # "idle",
           CheckoutCoversCart,
           \/ FinishProfile(w) \/ AskAddress(w) \/ FinishAddress(w)
           \/ CreateOrder(w) \/ MakeLink(w) \/ LinkFails(w) \/ ClearAfterCheckout(w)
    PROVE  SoloInv' /\ Accounted
<1>0. /\ seen[w] = session /\ seen[w] \in Rows /\ Data(w) \in StateData /\ task[w] \in Tasks
      /\ Fits(seen[w]) /\ Holds(pc[w], seen[w], task[w]) /\ customer.address \in Known
      /\ \A i \in DOMAIN orders : Shipped(orders[i])
  BY SoloHolds, HeldTypes
<1>1. CASE FinishProfile(w)
  <2> DEFINE resumes == task[w].resume = "cart"
             lacks == LacksAddress(w, task[w].address)
             orders_now == resumes /\ ~lacks /\ InCart(Data(w).cart) # {}
             s == IF resumes /\ lacks /\ channel # "widget" THEN "ask_address"
                  ELSE IF orders_now THEN "order" ELSE "idle"
             data == [Data(w) EXCEPT
                        !.profile = NoProfileDraft,
                        !.wprofile = IF channel = "widget" THEN task[w].contact ELSE @]
             new == [flow |-> "none", step |-> "none", data |-> data]
  <2>1. seen[w].flow = "profile_collect" /\ task[w].address \in Known
    BY <1>0, <1>1 DEF FinishProfile, Holds
  <2>2. seen[w].data.address = NoAddressDraft
    BY <1>0, <2>1 DEF Fits
  <2>3. /\ data \in StateData /\ data.profile = NoProfileDraft
        /\ data.address = Data(w).address /\ data.cart = Data(w).cart
    BY <1>0, DraftTypes DEF StateData, Tasks
  <2>4. /\ new \in Rows /\ new.flow = "none" /\ new.data.cart = seen[w].data.cart
        /\ new.data.profile = NoProfileDraft /\ new.data.address = NoAddressDraft
    BY <2>2, <2>3 DEF Rows, Flows, Steps, Data
  <2>5. s \in {"ask_address", "order", "idle"} /\ (s = "order" => ~lacks)
    OBVIOUS
  <2>6. s = "order" /\ RequiresShipping(Data(w).cart) => Deliverable(Delivery(w, task[w].address))
    BY <2>1, <2>5, LacksNone
  <2>7. Resume(w, new, s, Delivery(w, task[w].address))
    BY <1>1 DEF FinishProfile
  <2> HIDE DEF s, new
  <2>8. QED
    BY <2>1, <2>4, <2>5, <2>6, <2>7, SoloResume
<1>2. CASE AskAddress(w)
  <2>1. /\ seen[w].flow \notin Forms /\ task[w].address \in Known
        /\ task[w].address \in Addresses /\ task[w].contact \in SUBSET Contact
    BY <1>0, <1>2 DEF AskAddress, Holds, Tasks
  <2>2. QED
    BY <1>2, <2>1, SoloStartAddress DEF AskAddress, Resumes
<1>3. CASE FinishAddress(w)
  <2> DEFINE row == At(w, "none", "none")
             new == [row EXCEPT !.data.address = NoAddressDraft]
             s == IF task[w].resume = "cart" /\ InCart(Data(w).cart) # {} THEN "order" ELSE "idle"
  <2>1. seen[w].flow = "address_collect" /\ task[w].address = WholeAddress
    BY <1>0, <1>3 DEF FinishAddress, Holds
  <2>2. seen[w].data.profile = NoProfileDraft
    BY <1>0, <2>1 DEF Fits
  <2>3. row \in Rows
    BY AtType DEF Flows, Steps
  <2>4. row.flow = "none" /\ row.data = seen[w].data
    BY AtFields
  <2>5. Resume(w, new, s, task[w].address)
    BY <1>3 DEF FinishAddress
  <2> HIDE DEF row
  <2>6. new \in Rows
    BY <2>3, RowUpdates, DraftTypes
  <2>7. /\ new.flow = row.flow /\ new.data.address = NoAddressDraft
        /\ new.data.profile = row.data.profile /\ new.data.cart = row.data.cart
    BY <2>3, DraftFields
  <2>8. s \in {"ask_address", "order", "idle"} /\ task[w].address \in Known
        /\ Deliverable(task[w].address)
    BY <2>1 DEF Known, Deliverable, WholeAddress
  <2> HIDE DEF s, new
  <2>9. QED
    BY <2>2, <2>4, <2>5, <2>6, <2>7, <2>8, SoloResume
<1>4. CASE CreateOrder(w)
  <2> DEFINE o == OrderOf(w, NextGroup(w))
             t == [task[w] EXCEPT !.left = @ \ {NextGroup(w)},
                                  !.made = @ \union {Len(orders) + 1}]
  <2>1. t.address = task[w].address /\ o.address = task[w].address
    BY <1>0 DEF Tasks, OrderOf
  <2>2. /\ seen[w].flow \notin Forms
        /\ RequiresShipping(Data(w).cart) => Deliverable(task[w].address)
    BY <1>0, <1>4 DEF CreateOrder, Holds, Data
  <2>3. Shipped(o)
    <3>1. o.lines = [p \in Products |-> IF p \in GroupOf(Data(w).cart, NextGroup(w))
                                        THEN Data(w).cart[p] ELSE NoLine]
      BY DEF OrderOf
    <3>2. RequiresShipping(o.lines) => RequiresShipping(Data(w).cart)
      BY <3>1, HeldTypes, SplitShips
    <3>3. QED
      BY <2>1, <2>2, <3>2 DEF Shipped
  <2>4. Goes(w, "link", seen[w], t) /\ UNCHANGED <<session, customer>>
        /\ orders' = Append(orders, o)
    BY <1>4 DEF CreateOrder
  <2> HIDE DEF o
  <2>5. \A i \in DOMAIN orders' : Shipped(orders'[i])
    BY <1>0, <2>3, <2>4 DEF TypeInv, TypeOK
  <2>6. Holds("link", seen[w], t)
    BY <2>1, <2>2 DEF Holds, Data
  <2> HIDE DEF t
  <2>7. SoloInv'
    BY <1>0, <2>4, <2>5, <2>6, SoloGoes
  <2>8. QED
    BY <2>4, <2>7, KeptAccounted
<1>5. CASE MakeLink(w) \/ LinkFails(w)
  <2>1. \A o \in OrderRows : /\ Failed(o).lines = o.lines
                             /\ Failed(o).address = o.address
                             /\ [o EXCEPT !.link = TRUE].lines = o.lines
                             /\ [o EXCEPT !.link = TRUE].address = o.address
    BY DEF Failed, OrderRows
  <2>2. \A i \in DOMAIN orders : orders[i] \in OrderRows
    BY DEF TypeInv, TypeOK
  <2>3. PICK o : /\ orders' = [orders EXCEPT ![Latest(w)] = o]
                 /\ Latest(w) \in DOMAIN orders =>
                      /\ o.lines = orders[Latest(w)].lines
                      /\ o.address = orders[Latest(w)].address
    BY <1>5, <2>1, <2>2 DEF MakeLink, LinkFails
  <2>4. \A i \in DOMAIN orders' : Shipped(orders'[i])
    BY <1>0, <2>3 DEF Shipped, TypeInv, TypeOK
  <2>5. PICK s \in {"clear", "order"} : Goes(w, s, seen[w], task[w])
    BY <1>5 DEF MakeLink, LinkFails, AfterFailure
  <2>6. Holds(s, seen[w], task[w])
    BY <1>0, <1>5 DEF MakeLink, LinkFails, Holds
  <2>7. UNCHANGED <<session, customer>>
    BY <1>5 DEF MakeLink, LinkFails
  <2>8. SoloInv'
    BY <1>0, <2>4, <2>5, <2>6, <2>7, SoloGoes
  <2>9. QED
    BY <2>7, <2>8, KeptAccounted
<1>6. CASE ClearAfterCheckout(w)
  <2>1. SoloInv' /\ session'.data.cart = EmptyCart
    BY <1>6, CartTypes, SoloSaveCart DEF ClearAfterCheckout
  <2>2. ASSUME NEW p \in Products, Shrinks(p)
        PROVE  pc[w] = "clear" /\ Ordered(w, p)
    <3>1. pc[w] = "clear"
      BY <1>6 DEF ClearAfterCheckout
    <3>2. session.data.cart[p].qty \in Nat
      BY <1>0 DEF Rows, StateData, Carts, CartLines, NoLine
    <3>3. session.data.cart[p].qty > 0
      BY <2>1, <2>2, <3>2 DEF Shrinks, EmptyCart, NoLine
    <3>4. p \in InCart(Data(w).cart)
      BY <1>0, <3>3 DEF InCart, Data
    <3>5. QED
      BY <1>0, <3>1, <3>4 DEF CheckoutCoversCart, Ordered, Data
  <2>3. QED
    BY <2>1, <2>2 DEF Accounted
<1>7. QED
  BY <1>1, <1>2, <1>3, <1>4, <1>5, <1>6

----------------------------------------------------------------------------

\* A handler that takes a step is not idle, and no step of it makes or unmakes
\* an overlap.
LEMMA HandleRuns ==
    ASSUME NEW w \in Workers, Handle(w)
    PROVE  pc[w] # "idle"
<1> USE DEF Free, Answer, InForm, Says, Handling
<1>1. CASE \/ CancelForm(w) \/ MainMenu(w) \/ BrowseCatalog(w)
           \/ CartAdd(w) \/ QuantityButton(w) \/ Select(w) \/ TypedQuantity(w)
           \/ ViewCart(w) \/ ClearCart(w) \/ Checkout(w)
  BY <1>1 DEF CancelForm, MainMenu, BrowseCatalog, CartAdd, QuantityButton, Select,
              TypedQuantity, ViewCart, ClearCart, Checkout
<1>2. CASE \/ TrackOrder(w) \/ MyPurchases(w) \/ MyProfile(w) \/ Unmatched(w)
           \/ SubmitWidgetForm(w)
           \/ EditProfile(w) \/ ConfirmName(w) \/ AnswerField(w) \/ UnknownStep(w)
  BY <1>2 DEF TrackOrder, MyPurchases, MyProfile, Unmatched, SubmitWidgetForm, EditProfile,
              ConfirmName, AnswerField, UnknownStep
<1>3. CASE \/ UpdateAddress(w) \/ GiveAddress(w) \/ GiveMissing(w) \/ ConfirmAddress(w)
           \/ FinishProfile(w) \/ AskAddress(w) \/ FinishAddress(w)
           \/ CreateOrder(w) \/ MakeLink(w) \/ LinkFails(w) \/ ClearAfterCheckout(w)
  BY <1>3 DEF UpdateAddress, GiveAddress, GiveMissing, ConfirmAddress, FinishProfile, AskAddress,
              FinishAddress, CreateOrder, MakeLink, LinkFails, ClearAfterCheckout
<1>4. QED
  BY <1>1, <1>2, <1>3 DEF Handle

LEMMA HandleOverlap ==
    ASSUME NEW w \in Workers, Handle(w)
    PROVE  overlap' = overlap
<1> USE DEF Update, Commit, Enter, Stay, Goes, SaveCart, StartProfile, StartAddress
<1>1. CASE \/ CancelForm(w) \/ MainMenu(w) \/ BrowseCatalog(w)
           \/ CartAdd(w) \/ QuantityButton(w) \/ Select(w) \/ TypedQuantity(w)
           \/ ViewCart(w) \/ ClearCart(w) \/ Checkout(w)
  BY <1>1 DEF CancelForm, MainMenu, BrowseCatalog, CartAdd, QuantityButton, Select,
              TypedQuantity, ViewCart, ClearCart, Checkout
<1>2. CASE \/ TrackOrder(w) \/ MyPurchases(w) \/ MyProfile(w) \/ Unmatched(w)
           \/ SubmitWidgetForm(w)
           \/ EditProfile(w) \/ ConfirmName(w) \/ AnswerField(w) \/ UnknownStep(w)
  BY <1>2 DEF TrackOrder, MyPurchases, MyProfile, Unmatched, SubmitWidgetForm, EditProfile,
              ConfirmName, AnswerField, UnknownStep, AdvanceProfile
<1>3. CASE \/ UpdateAddress(w) \/ GiveAddress(w) \/ GiveMissing(w) \/ ConfirmAddress(w)
           \/ FinishProfile(w) \/ AskAddress(w) \/ FinishAddress(w)
           \/ CreateOrder(w) \/ MakeLink(w) \/ LinkFails(w) \/ ClearAfterCheckout(w)
  BY <1>3 DEF UpdateAddress, GiveAddress, GiveMissing, ConfirmAddress, FinishProfile, AskAddress,
              FinishAddress, CreateOrder, MakeLink, LinkFails, ClearAfterCheckout,
              AdvanceAddress, SaveAddress, Resume
<1>4. QED
  BY <1>1, <1>2, <1>3 DEF Handle

LEMMA InitSolo == Init => SoloInv
  BY DEF Init, SoloInv, OneBusy, Fits, FreshRow, Known, Forms

LEMMA ArriveSolo ==
    ASSUME TypeInv, SoloInv, NEW w \in Workers, NEW m, NEW expired, Arrive(w, m, expired),
           ~overlap'
    PROVE  SoloInv'
<1>1. ~overlap /\ \A v \in Workers : pc[v] = "idle"
  BY DEF Arrive, Busy, TypeInv, TypeOK
<1>2. pc[w] = "idle" /\ pc'[w] = "act" /\ \A v \in Workers : v # w => pc'[v] = "idle"
  BY <1>1 DEF Arrive, TypeInv, TypeOK
<1>3. OneBusy'
  BY <1>2 DEF OneBusy
<1>4. Fits(session')
  BY <1>1 DEF Arrive, SoloInv, Fits, FreshRow, Forms
<1>5. seen'[w] = session'
  BY DEF Arrive, TypeInv, TypeOK
<1>6. customer'.address \in Known /\ \A i \in DOMAIN orders' : Shipped(orders'[i])
  BY <1>1 DEF Arrive, SoloInv, Shipped, Deliverable
<1>7. \A v \in Workers : pc'[v] # "idle" => Current(v)'
  BY <1>2, <1>5 DEF Current, Holds
<1>8. channel' = channel
  BY DEF Arrive
<1>9. QED
  BY <1>3, <1>4, <1>6, <1>7, <1>8 DEF SoloInv, Shipped, Deliverable

LEMMA NextSolo ==
    ASSUME TypeInv, SoloInv, CheckoutCoversCart, [Next]_vars
    PROVE  SoloInv' /\ (~overlap => Accounted)
<1>1. ASSUME NEW w \in Workers, NEW m \in accepts[w], NEW expired \in BOOLEAN,
             Arrive(w, m, expired)
      PROVE  SoloInv' /\ (~overlap => Accounted)
  <2>1. pc[w] = "idle" /\ pc'[w] = "act"
    BY <1>1 DEF Arrive, TypeInv, TypeOK
  <2>2. Accounted
    BY <2>1 DEF Accounted
  <2>3. CASE overlap'
    BY <2>2, <2>3 DEF SoloInv
  <2>4. CASE ~overlap'
    BY <1>1, <2>2, <2>4, ArriveSolo
  <2>5. QED
    BY <2>3, <2>4
<1>2. ASSUME NEW w \in Workers, Handle(w)
      PROVE  SoloInv' /\ (~overlap => Accounted)
  <2>1. pc[w] # "idle" /\ overlap' = overlap
    BY <1>2, HandleRuns, HandleOverlap
  <2>2. CASE overlap
    BY <2>1, <2>2 DEF SoloInv
  <2>3. CASE ~overlap
    BY <1>2, <2>1, <2>3, CartHandlersSolo, ProfileHandlersSolo, AddressHandlersSolo,
       CheckoutSolo, CheckoutHandlersSolo DEF Handle
  <2>4. QED
    BY <2>2, <2>3
<1>3. CASE Crash
  <2>1. \A v \in Workers : pc'[v] = "idle"
    BY <1>3 DEF Crash
  <2>2. UNCHANGED <<channel, session, customer, orders, overlap>>
    BY <1>3 DEF Crash
  <2>3. SoloInv'
    BY <2>1, <2>2 DEF SoloInv, OneBusy, Shipped, Deliverable
  <2>4. QED
    BY <2>2, <2>3, KeptAccounted
<1>4. CASE UNCHANGED vars
  <2>1. UNCHANGED <<channel, session, customer, orders, overlap, pc, seen, task>>
    BY <1>4 DEF vars
  <2>2. SoloInv'
    BY <2>1 DEF SoloInv, OneBusy, Current, Holds, Shipped, Deliverable
  <2>3. QED
    BY <2>1, <2>2, KeptAccounted
<1>5. QED
  BY <1>1, <1>2, <1>3, <1>4 DEF Next

LEMMA SoloInvHolds == Spec => []SoloInv
<1>1. TypeInv /\ SoloInv /\ CheckoutCoversCart /\ [Next]_vars => SoloInv'
  BY NextSolo
<1>2. QED
  BY <1>1, InitType, InitSolo, NextType, CheckoutIsComplete, PTL DEF Spec

\* While no two messages are handled together, the flow, its step and its
\* draft agree, though they are columns written by different handlers: a form
\* has a draft to resume, the question asked is the first unanswered one, an
\* address is confirmed only when whole, and outside the forms no draft is left.
THEOREM FormsFitDrafts == Spec => []FormFitsDraft
<1>1. SoloInv => FormFitsDraft
  BY DEF SoloInv, Fits, FormFitsDraft
<1>2. QED
  BY <1>1, SoloInvHolds, PTL

\* While no two messages are handled together, the address saved on the
\* customer row is whole, for any set of address fields the shop asks for.
THEOREM SavedAddressesAreWhole == Spec => []SavedAddressIsWhole
<1>1. SoloInv => SavedAddressIsWhole
  BY DEF SoloInv, Known, SavedAddressIsWhole
<1>2. QED
  BY <1>1, SoloInvHolds, PTL

\* While no two messages are handled together, every order with a line to
\* deliver has an address, whichever way its checkout went: with a saved
\* address, through the address form or after the profile form a whole one,
\* on the widget whatever its form has sent, and never none.
THEOREM OrdersCarryAddress == Spec => []OrdersHaveAddress
<1>1. SoloInv => OrdersHaveAddress
  BY DEF SoloInv, Shipped, OrdersHaveAddress
<1>2. QED
  BY <1>1, SoloInvHolds, PTL

\* While no two messages are handled together, no step takes a line off the
\* cart, or makes it smaller, unless the customer said so, the line is on an
\* order the same checkout has made, or the session had expired: the forms
\* leave the cart alone (engine.py:123-124, 760-763).
THEOREM CartIsKept == Spec => NothingIsLost
<1>1. TypeInv /\ SoloInv /\ CheckoutCoversCart /\ [Next]_vars
        => [\A p \in Products :
              ~overlap /\ Shrinks(p) =>
                \/ \E w \in Workers : Says(w, {"qty", "number", "clear"})
                \/ \E w \in Workers : pc[w] = "clear" /\ Ordered(w, p)
                \/ \E w \in Workers : pc[w] = "idle" /\ pc'[w] = "act"]_vars
  BY NextSolo DEF Accounted
<1>2. QED
  BY <1>1, InitType, NextType, SoloInvHolds, CheckoutIsComplete, PTL DEF Spec, NothingIsLost

=============================================================================
