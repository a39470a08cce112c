------------------------------ MODULE Assistant ------------------------------
(***************************************************************************)
(* One customer's messages to the assistant: the choice of the agent, the  *)
(* route to the flow engine or the language model, the tool loop, and what *)
(* a turn leaves behind: the sliding memory, the permanent log, orders.    *)
(*                                                                         *)
(* The flow engine is module Conversation's subject; here its profile form *)
(* is one that asks for more, completes or is cancelled, and its other     *)
(* flows are two: a screen shown, an answer awaited.  Messages may be      *)
(* handled at the same time (slots in Workers); an action is the code      *)
(* between two awaits.  work[w].row is the handler's copy of the session   *)
(* row, re-read whenever the code calls get_or_create_session again; a     *)
(* commit writes the columns it changed.                                   *)
(*                                                                         *)
(* stale, blind and halved are history: the columns others have committed  *)
(* over w's copy, those then written from such a copy, and whether a       *)
(* handler died between its two entries.                                   *)
(***************************************************************************)
EXTENDS Integers, Sequences, FiniteSets

CONSTANTS
    Workers,      \* handler slots
    Agents,       \* agent ids
    Scenes,       \* what the conversation may be: see SceneRows
    Window,       \* MEMORY_WINDOW_SIZE, in turns
    MaxRounds,    \* max_tool_iterations
    MaxCalls,     \* bound on the tool calls of one response
    MaxMessages,  \* bound on messages
    MaxDemands,   \* bound on create_order calls
    MaxExpiries,  \* bound on expiries of the session
    MaxFaults,    \* bound on crashes and failed statements
    None

Channels == {"telegram", "whatsapp", "widget"}
\* Typed text, a typed command, a button.
Kinds == {"text", "menu", "click"}
\* An agent's is_active, widget_enabled, whether it has a bot token, and the
\* WhatsApp number it has been given (numbers are named for their agents).
AgentRows == [active: BOOLEAN, widget: BOOLEAN, bot: BOOLEAN, phone: Agents \union {None}]
\* The channel, the agents, the one the message was sent to (in the webhook's
\* URL, by its number or the page's bot_id; None if it does not say), what
\* and how many messages the customer sends, how many before an answer, and
\* the tools the model calls.
Tools == {"read", "cart", "order", "link"}
SceneRows == [channel: Channels, agents: [Agents -> AgentRows], sentTo: Agents \union {None},
              says: SUBSET Kinds, most: 0..MaxMessages, atOnce: 0..Cardinality(Workers),
              tools: SUBSET Tools]

\* An item of a create_order call as the call names it: Bumpa's if it carries
\* source "bumpa" and an external_id.  The tool's schema has neither field,
\* search_catalog returns neither and the product is not looked up, so this is
\* the model's word: an item of Bumpa's it does not name so is among the others.
Goods == {"other", "bumpa"}
Entries == [turn: 1..MaxMessages, role: {"user", "assistant"}]
\* resume_intent of a form the assistant opened: the create_order call it
\* interrupted; 0 for a form with another purpose.
Data == [cart: BOOLEAN, known: BOOLEAN, intent: 0..MaxDemands]
\* "awaiting" is quantity_select, address_collect and track_order, whose next
\* message is an answer; "screen" is the rest, which only say what was shown.
Flows == {"none", "screen", "awaiting", "profile_collect"}
Rows == [memory: Seq(Entries), flow: Flows, data: Data, started: Nat, expired: BOOLEAN]
Columns == {"memory", "flow", "data", "started", "expired"}

ASSUME SceneAssumption == Scenes \subseteq SceneRows
ASSUME BoundAssumption ==
    /\ {Window, MaxRounds, MaxCalls} \subseteq Nat \ {0}
    /\ {MaxMessages, MaxDemands, MaxExpiries, MaxFaults} \subseteq Nat
    /\ None \notin Agents \union Rows

VARIABLES
    scene,      \* the scene played
    session,    \* the conversation_sessions row, None before the first message
    log,        \* message_logs
    customer,   \* the customers row has name, email and phone
    orders,     \* orders made by the assistant
    demands,    \* the goods each create_order call named
    told,       \* calls whose result has been given to the model or customer
    pc, work,   \* where each handler stands, and its local state
    sent,       \* messages sent
    expiries, faults,
    stale, blind, halved

store == <<session, log, customer, orders>>
counters == <<scene, sent, expiries, faults>>
history == <<stale, blind, halved>>
vars == <<scene, session, log, customer, orders, demands, told, pc, work, sent, expiries,
          faults, stale, blind, halved>>

Stages == {"idle", "open", "reopen", "think", "tool", "cart", "collect", "order",
           "user", "act", "close", "reply"}
\* round and left: iterations done, tool calls left; call and make: the
\* create_order being carried out; flow: the flow engine has the message.
Works == [turn: 0..MaxMessages, kind: Kinds, agent: Agents \union {None},
          row: Rows \union {None}, round: 0..MaxRounds, left: 0..MaxCalls,
          call: 0..MaxDemands, make: SUBSET Goods, flow: BOOLEAN, reply: {"text", "prompt"}]
Orders == [call: 1..MaxDemands, goods: Goods, contact: BOOLEAN,
           gateway: {None, "bumpa", "paystack", "default"}, link: BOOLEAN]

TypeOK ==
    /\ scene \in Scenes
    /\ session \in Rows \union {None}
    /\ log \in Seq(Entries)
    /\ customer \in BOOLEAN
    /\ orders \in Seq(Orders)
    /\ demands \in Seq((SUBSET Goods) \ {{}}) /\ Len(demands) <= MaxDemands
    /\ told \subseteq 1..Len(demands)
    /\ pc \in [Workers -> Stages]
    /\ work \in [Workers -> Works]
    /\ sent \in 0..MaxMessages
    /\ expiries \in 0..MaxExpiries
    /\ faults \in 0..MaxFaults
    /\ stale \in [Workers -> SUBSET Columns]
    /\ blind \subseteq Columns
    /\ halved \in BOOLEAN

Idle == [turn |-> 0, kind |-> "text", agent |-> None, row |-> None, round |-> 0, left |-> 0,
         call |-> 0, make |-> {}, flow |-> FALSE, reply |-> "text"]
FreshData == [cart |-> FALSE, known |-> FALSE, intent |-> 0]
NewRow == [memory |-> << >>, flow |-> "none", data |-> FreshData, started |-> Len(log),
           expired |-> FALSE]

Init ==
    /\ scene \in Scenes
    /\ session = None
    /\ log = << >>
    /\ customer = FALSE
    /\ orders = << >>
    /\ demands = << >>
    /\ told = {}
    /\ pc = [w \in Workers |-> "idle"]
    /\ work = [w \in Workers |-> Idle]
    /\ sent = 0
    /\ expiries = 0
    /\ faults = 0
    /\ stale = [w \in Workers |-> {}]
    /\ blind = {}
    /\ halved = FALSE

----------------------------------------------------------------------------
(***************************************************************************)
(* The agent.                                                              *)
(***************************************************************************)

Active == {a \in Agents : scene.agents[a].active}
Bots == {a \in Active : scene.agents[a].bot}
AnyOf(group) == IF group = {} THEN {None} ELSE group

\* Telegram: the agent of the URL; without one the only agent with a bot, or
\* nobody (the update is dropped) when several have one.  Who is first among
\* the active agents is the database's choice.
TelegramAgents ==
    IF scene.sentTo \in Active THEN {scene.sentTo}
    ELSE IF Cardinality(Bots) > 1 THEN {}
    ELSE IF Bots # {} THEN Bots ELSE AnyOf(Active)

\* WhatsApp compares the number with Agent.whatsapp_phone_id, which on the
\* class is a Python property and equal to no number.
WhatsAppAgents == AnyOf(Active)

WidgetAgents ==
    IF scene.sentTo \in Active THEN {scene.sentTo}
    ELSE LET shown == {a \in Active : scene.agents[a].widget}
         IN IF shown # {} THEN shown ELSE AnyOf(Active)

Resolved ==
    CASE scene.channel = "telegram" -> TelegramAgents
      [] scene.channel = "whatsapp" -> WhatsAppAgents
      [] scene.channel = "widget" -> WidgetAgents

----------------------------------------------------------------------------
(***************************************************************************)
(* The session row.                                                        *)
(***************************************************************************)

Goes(w, s, new) ==
    /\ pc' = [pc EXCEPT ![w] = s]
    /\ work' = [work EXCEPT ![w] = IF s = "idle" THEN Idle ELSE new]

\* A commit writes a column only if the handler changed it in memory.
Changed(old, new) == {c \in Columns : old[c] # new[c]}
Kept(column, old, new) == IF old = new THEN column ELSE new
Flushed(row, old, new) ==
    [memory |-> Kept(row.memory, old.memory, new.memory),
     flow |-> Kept(row.flow, old.flow, new.flow), data |-> Kept(row.data, old.data, new.data),
     started |-> Kept(row.started, old.started, new.started),
     expired |-> Kept(row.expired, old.expired, new.expired)]

\* The others have missed what w, which goes on to stage s, changed.
Misses(w, s, changed) ==
    stale' = [v \in Workers |->
        IF (v = w /\ s = "idle") \/ pc[v] = "idle" THEN {}
        ELSE IF v = w THEN stale[v] ELSE stale[v] \union changed]

\* w commits new, its row as changed in memory, having relied on columns
\* relied; it goes on to stage s with new in hand.
Commits(w, new, relied, s, after) ==
    /\ session' = Flushed(session, work[w].row, new)
    /\ Misses(w, s, Changed(work[w].row, new))
    /\ blind' = blind \union (stale[w] \intersect relied)
    /\ Goes(w, s, [after EXCEPT !.row = new])

\* get_or_create_session for a handler that has the row already: the commit
\* changes only its times, and the refresh reads it anew.
Rereads(w, s, after) ==
    /\ Goes(w, s, [after EXCEPT !.row = session])
    /\ stale' = [stale EXCEPT ![w] = {}]

Ends(w) ==
    /\ Goes(w, "idle", Idle)
    /\ stale' = [stale EXCEPT ![w] = {}]

\* Nobody has written for SESSION_EXPIRY_HOURS.
Expires ==
    /\ session # None
    /\ expiries < MaxExpiries
    /\ ~session.expired
    /\ \A w \in Workers : pc[w] = "idle"
    /\ expiries' = expiries + 1
    /\ session' = [session EXCEPT !.expired = TRUE]
    /\ UNCHANGED <<log, customer, orders, demands, told, pc, work, scene, sent, faults, history>>

----------------------------------------------------------------------------
(***************************************************************************)
(* A message arrives.                                                      *)
(***************************************************************************)

\* The webhook or endpoint resolves the agent and selects the session row.
Arrives(w) ==
    /\ pc[w] = "idle"
    /\ sent < scene.most
    /\ Cardinality({v \in Workers : pc[v] # "idle"}) < scene.atOnce
    /\ sent' = sent + 1
    /\ \/ /\ Resolved = {}
          /\ UNCHANGED <<pc, work>>
       \/ \E k \in scene.says, a \in Resolved :
             Goes(w, "open", [Idle EXCEPT !.turn = sent + 1, !.kind = k, !.agent = a,
                                          !.row = session])
    /\ UNCHANGED <<store, demands, told, scene, expiries, faults, history>>

\* Buttons and commands go to the flow engine, and so does text while it
\* waits for an answer or, on Telegram and WhatsApp, has any screen open.
Intercepted(row) ==
    row.flow \notin (IF scene.channel = "widget" THEN {"none", "screen"} ELSE {"none"})
Routed(w, row) ==
    IF work[w].kind # "text" \/ Intercepted(row)
    THEN Goes(w, "user", [work[w] EXCEPT !.row = row, !.flow = TRUE])
    ELSE Goes(w, "reopen", [work[w] EXCEPT !.row = row])

\* get_or_create_session makes the row; session_key is unique, so the second
\* of two first messages is refused with the transaction.
Creates(w) ==
    /\ pc[w] = "open"
    /\ work[w].row = None
    /\ IF session = None
       THEN session' = NewRow /\ Routed(w, NewRow) /\ UNCHANGED stale
       ELSE Ends(w) /\ UNCHANGED session
    /\ UNCHANGED <<log, customer, orders, demands, told, counters, blind, halved>>

\* It resets a row that had expired when it was selected, and refreshes it.
KeptStart(row) == [NewRow EXCEPT !.started = row.started]  \* mutant: the start is left behind
Reset(row) == NewRow
Opens(w) ==
    LET old == work[w].row
        row == IF old # None /\ old.expired
               THEN Flushed(session, old, Reset(old)) ELSE session
    IN  /\ pc[w] = "open"
        /\ old # None
        /\ session' = row
        /\ stale' = [v \in Workers |->
               IF v = w \/ pc[v] = "idle" THEN {}
               ELSE IF old.expired THEN stale[v] \union Columns ELSE stale[v]]
        /\ blind' = IF old.expired THEN blind \union stale[w] ELSE blind
        /\ Routed(w, row)
        /\ UNCHANGED <<log, customer, orders, demands, told, counters, halved>>

----------------------------------------------------------------------------
(***************************************************************************)
(* The language model and its tools.                                       *)
(***************************************************************************)

\* process_message opens the session again, then builds its prompt.
Reopens(w) ==
    /\ pc[w] = "reopen"
    /\ Rereads(w, "think", work[w])
    /\ UNCHANGED <<store, demands, told, counters, blind, halved>>

\* The model answers or calls tools; when the rounds are used up, whatever
\* text there is (none, for process_message) is the reply.
MoreRoundsPast(n) == n <= MaxRounds             \* mutant: off by one
MoreRounds(n) == n < MaxRounds
NextRoundStuck(n) == n                         \* mutant: rounds are not counted
NextRound(n) == n + 1
Thinks(w) ==
    /\ pc[w] = "think"
    /\ \/ Goes(w, "user", work[w])
       \/ /\ MoreRounds(work[w].round)
          /\ \E n \in 1..MaxCalls :
                Goes(w, "tool", [work[w] EXCEPT !.round = NextRound(@), !.left = n])
    /\ UNCHANGED <<store, demands, told, counters, history>>

\* The provider raises: the customer gets the menu, and nothing is recorded,
\* whatever the tools have done.
FallsBack(w) ==
    /\ pc[w] = "think"
    /\ Ends(w)
    /\ UNCHANGED <<store, demands, told, counters, blind, halved>>

\* The next of the response's calls, or the next round.
Called(w) == [work[w] EXCEPT !.left = @ - 1, !.call = 0]
AfterCall(w) == IF work[w].left > 1 THEN "tool" ELSE "think"

\* search_catalog, get_order_status, escalate_to_human, calls refused for
\* their arguments; view_cart also re-reads the session.
Calls(w, tool) == pc[w] = "tool" /\ tool \in scene.tools
ToolReads(w) ==
    /\ pc[w] = "tool"
    /\ \/ Goes(w, AfterCall(w), Called(w)) /\ UNCHANGED stale
       \/ Calls(w, "read") /\ Rereads(w, AfterCall(w), Called(w))
    /\ UNCHANGED <<store, demands, told, counters, blind, halved>>

\* add_to_cart, clear_cart: state_data is written whole.
ToolOpensCart(w) ==
    /\ Calls(w, "cart")
    /\ Rereads(w, "cart", work[w])
    /\ UNCHANGED <<store, demands, told, counters, blind, halved>>
ToolWritesCart(w) ==
    /\ pc[w] = "cart"
    /\ \E full \in BOOLEAN :
          Commits(w, [work[w].row EXCEPT !.data.cart = full], {"data"}, AfterCall(w), Called(w))
    /\ UNCHANGED <<log, customer, orders, demands, told, counters, halved>>

\* create_order.  The call itself (in arguments its schema does not have), the
\* customer's row or, in the widget, the session (which is re-read) gives name,
\* email and phone, or else the profile form is opened for this call.
Known == IF scene.channel = "widget" THEN session.data.known ELSE customer
ToolCreatesOrder(w) ==
    /\ Calls(w, "order")
    /\ Len(demands) < MaxDemands
    /\ \E goods \in (SUBSET Goods) \ {{}}, given \in BOOLEAN :
         /\ demands' = Append(demands, goods)
         /\ LET new == [work[w] EXCEPT !.call = Len(demands) + 1]
            IN IF ~Known /\ ~given THEN Rereads(w, "collect", new)
               ELSE IF scene.channel = "widget"
                    THEN Rereads(w, "order", [new EXCEPT !.make = goods])
                    ELSE Goes(w, "order", [new EXCEPT !.make = goods]) /\ UNCHANGED stale
    /\ UNCHANGED <<store, told, counters, blind, halved>>

\* _start_profile_collect; its prompt ends the loop and is the reply.
AfterPromptLoops(w) == AfterCall(w)            \* mutant: the loop goes on
AfterPrompt(w) == "user"
Asks(w) ==
    /\ pc[w] = "collect"
    /\ Commits(w, [work[w].row EXCEPT !.flow = "profile_collect", !.data.intent = work[w].call],
               {"flow", "data"}, AfterPrompt(w), [work[w] EXCEPT !.reply = "prompt"])
    /\ UNCHANGED <<log, customer, orders, demands, told, counters, halved>>

\* _create_order_with_profile: one order and one commit per group, those named
\* Bumpa's last; then the call's result is known.
RestNone(make, g) == {}                        \* mutant: told after the first
Rest(make, g) == make \ {g}
MakesOrder(w) ==
    LET make == work[w].make
        g == IF "other" \in make THEN "other" ELSE "bumpa"
        rest == Rest(make, g)
    IN  /\ pc[w] = "order"
        /\ orders' = Append(orders,
               [call |-> work[w].call, goods |-> g, contact |-> TRUE,
                gateway |-> IF g = "bumpa" THEN "bumpa" ELSE None, link |-> FALSE])
        /\ IF rest # {}
           THEN Goes(w, "order", [work[w] EXCEPT !.make = rest]) /\ UNCHANGED told
           ELSE /\ told' = told \union {work[w].call}
                /\ IF work[w].flow THEN Goes(w, "reply", [work[w] EXCEPT !.make = {}])
                   ELSE Goes(w, AfterCall(w), [Called(w) EXCEPT !.make = {}])
        /\ UNCHANGED <<session, log, customer, demands, counters, history>>

\* generate_payment_link for an order the model knows the reference of: of a
\* call's two orders only the first is in its result, in spite of the
\* additional_order_references collected for it.
Named(o) == o.call \in told /\ (o.goods = "other" \/ demands[o.call] = {"bumpa"})
Gateway(order, asked) ==
    IF order.gateway = "bumpa" THEN "bumpa" ELSE IF asked = None THEN "default" ELSE asked
ToolLinks(w) ==
    /\ Calls(w, "link")
    /\ \E i \in DOMAIN orders, asked \in {None, "paystack", "bumpa"} :
         /\ Named(orders[i])
         /\ orders' = [orders EXCEPT ![i].gateway = Gateway(orders[i], asked), ![i].link = TRUE]
    /\ Goes(w, AfterCall(w), Called(w))
    /\ UNCHANGED <<session, log, customer, demands, told, counters, history>>

----------------------------------------------------------------------------
(***************************************************************************)
(* The flow engine: handle_action records the message, processes it, and   *)
(* records the reply.                                                      *)
(***************************************************************************)

Acting(w, form) == pc[w] = "act" /\ (work[w].row.flow = "profile_collect") = form

\* A command leaves the form, and is then handled as outside.
CancelsForm(w) ==
    /\ Acting(w, TRUE)
    /\ work[w].kind = "menu"
    /\ Commits(w, [work[w].row EXCEPT !.flow = "none", !.data.intent = 0], {}, "act", work[w])
    /\ UNCHANGED <<log, customer, orders, demands, told, counters, halved>>

\* An answer is refused, or leaves the form with another question: the draft,
\* and with it the whole of state_data, is written.
AnswersForm(w) ==
    /\ Acting(w, TRUE)
    /\ work[w].kind # "menu"
    /\ Goes(w, "reply", work[w])
    /\ \/ UNCHANGED <<session, history>>
       \/ /\ session' = [session EXCEPT !.data = work[w].row.data]
          /\ Misses(w, "reply", {"data"})
          /\ blind' = blind \union (stale[w] \intersect {"data"})
          /\ UNCHANGED halved
    /\ UNCHANGED <<log, customer, orders, demands, told, counters>>

\* The last answer: upsert_customer commits, then the form is closed and the
\* interrupted call carried out (_resume_ai_checkout_intent).
CompletesForm(w) ==
    /\ Acting(w, TRUE)
    /\ work[w].kind # "menu"
    /\ customer' = (customer \/ scene.channel # "widget")
    /\ Goes(w, "close", work[w])
    /\ UNCHANGED <<session, log, orders, demands, told, counters, history>>
StillOpen(row) == [row EXCEPT !.data.known = @ \/ scene.channel = "widget"]  \* mutant: not closed
Closed(row) ==
    [row EXCEPT !.flow = "none", !.data.intent = 0, !.data.known = @ \/ scene.channel = "widget"]
ClosesForm(w) ==
    LET call == work[w].row.data.intent
    IN  /\ pc[w] = "close"
        /\ IF call = 0
           THEN Commits(w, Closed(work[w].row), {"data"}, "reply", work[w])
           ELSE Commits(w, Closed(work[w].row), {"data"}, "order",
                        [work[w] EXCEPT !.call = call, !.make = demands[call]])
        /\ UNCHANGED <<log, customer, orders, demands, told, counters, halved>>

\* Outside the form: a command shows the menu; a button, or text (an answer
\* awaited, or a button's id typed), may show or leave a screen, ask for an
\* answer, change the cart or open the form.
ActsOutside(w) ==
    /\ Acting(w, FALSE)
    /\ \E flow \in Flows, cart \in BOOLEAN :
         LET row == work[w].row
             new == IF work[w].kind = "menu" THEN [row EXCEPT !.flow = "screen"]
                    ELSE [row EXCEPT !.flow = flow, !.data.cart = cart,
                            !.data.intent = IF flow = "profile_collect" THEN 0 ELSE @]
         IN Commits(w, new, Changed(row, new) \intersect {"data"}, "reply", work[w])
    /\ UNCHANGED <<log, customer, orders, demands, told, counters, halved>>

----------------------------------------------------------------------------
(***************************************************************************)
(* The memory.                                                             *)
(***************************************************************************)

\* add_message: one commit inserts the log entry and writes the window, cut
\* from the handler's copy.
LastOf(n, s) == IF Len(s) <= n THEN s ELSE SubSeq(s, Len(s) - n + 1, Len(s))
TrimmedOdd(entries) == LastOf(2 * Window - 1, entries)       \* mutant: off by one
Trimmed(entries) == LastOf(2 * Window, entries)
Records(w, role, s) ==
    LET entry == [turn |-> work[w].turn, role |-> role]
        row == work[w].row
    IN  /\ log' = Append(log, entry)
        /\ Commits(w, [row EXCEPT !.memory = Trimmed(Append(@, entry))], {"memory"}, s, work[w])

RecordsUser(w) ==
    /\ pc[w] = "user"
    /\ Records(w, "user", IF work[w].flow THEN "act" ELSE "reply")
    /\ UNCHANGED <<customer, orders, demands, told, counters, halved>>

\* The reply is recorded, then sent.
RecordsReply(w) ==
    /\ pc[w] = "reply"
    /\ Records(w, "assistant", "idle")
    /\ UNCHANGED <<customer, orders, demands, told, counters, halved>>

\* A crash, or an exception outside the model's answer (an item's price that
\* is no number, in a call's second group, is one): the request is over.
Halfway(w) == pc[w] \in {"act", "close", "reply"} \/ (pc[w] = "order" /\ work[w].flow)
Fails(w) ==
    /\ pc[w] # "idle"
    /\ faults < MaxFaults
    /\ faults' = faults + 1
    /\ halved' = (halved \/ Halfway(w))
    /\ Ends(w)
    /\ UNCHANGED <<store, demands, told, scene, sent, expiries, blind>>

----------------------------------------------------------------------------

Step(w) ==
    \/ Creates(w) \/ Opens(w) \/ Reopens(w)
    \/ Thinks(w) \/ FallsBack(w)
    \/ ToolReads(w) \/ ToolOpensCart(w) \/ ToolWritesCart(w)
    \/ ToolCreatesOrder(w) \/ Asks(w) \/ MakesOrder(w) \/ ToolLinks(w)
    \/ CancelsForm(w) \/ AnswersForm(w) \/ CompletesForm(w) \/ ClosesForm(w) \/ ActsOutside(w)
    \/ RecordsUser(w) \/ RecordsReply(w)

Next ==
    \/ \E w \in Workers : Arrives(w) \/ Step(w) \/ Fails(w)
    \/ Expires

\* The event loop runs every handler that can go on, and calls to providers
\* return or time out.
Spec == Init /\ [][Next]_vars /\ \A w \in Workers : WF_vars(Step(w))

----------------------------------------------------------------------------
(***************************************************************************)
(* Properties.                                                             *)
(***************************************************************************)

\* The memory the model is given is the end of the permanent log since the
\* conversation began, which is also what the widget replays: they part only
\* when a handler writes a window cut from a copy others have written over.
MemoryIsLogTail ==
    session # None /\ "memory" \notin blind =>
        session.memory = LastOf(2 * Window, SubSeq(log, session.started + 1, Len(log)))

\* Between messages the memory holds whole turns, each message with its own
\* reply after it, unless handlers overlapped or one died halfway.
TurnsAreWhole ==
    session # None /\ "memory" \notin blind /\ ~halved /\ (\A w \in Workers : ~Halfway(w)) =>
        \A i \in DOMAIN session.memory :
            IF i % 2 = 1 THEN session.memory[i].role = "user"
            ELSE session.memory[i] = [turn |-> session.memory[i - 1].turn, role |-> "assistant"]

\* Whoever is told of a create_order call has all it named on order: what it
\* named Bumpa's on an order of its own, which stays Bumpa's to settle whatever
\* gateway is asked for, the rest on another, wherever the call was interrupted.
\* (An item is whose the call says, and only the first order can be paid for
\* in the chat: the second's reference is told to nobody.)
OrdersAreWhole ==
    /\ \A call \in told : {orders[i].goods : i \in {j \in DOMAIN orders : orders[j].call = call}}
                            = demands[call]
    /\ \A i \in DOMAIN orders : orders[i].goods = "bumpa" => orders[i].gateway = "bumpa"

\* A call interrupted by the profile form is carried out once, however often
\* its last answer is sent, unless a stale handler closes the form again or
\* writes a cart, and with it the intent, over the closing.
OrderedOnce ==
    "data" \notin blind =>
        \A i, j \in DOMAIN orders :
            orders[i].call = orders[j].call /\ orders[i].goods = orders[j].goods => i = j

\* The question put to the customer is the one whose answer is awaited.
PromptMatchesForm ==
    \A w \in Workers :
        /\ pc[w] \in {"user", "reply"}
        /\ work[w].reply = "prompt"
        /\ stale[w] \intersect {"flow", "data"} = {}
        => session.flow = "profile_collect" /\ session.data.intent = work[w].call

\* Every message's handling ends, whatever tools the model keeps calling.
TurnEnds == \A w \in Workers : pc[w] # "idle" ~> pc[w] = "idle"

\* A message sent to one agent's bot or number is answered as that agent, or
\* by none.
AnsweredAsAddressed ==
    \A w \in Workers :
        pc[w] # "idle" /\ scene.sentTo \in Active => work[w].agent = scene.sentTo

=============================================================================
