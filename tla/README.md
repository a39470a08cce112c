# CommB: a verification project

CommB is a commerce bot platform: a FastAPI application that talks to customers
over Telegram, WhatsApp and a web widget, sells the items of a catalog, takes
payments through five gateways, and passes paid orders on to fulfilment. This
directory holds TLA+ models of it, TLC configurations that check them on small
instances, and TLAPS proofs about them for all instances. All paths below are
relative to the repository root (`src/` in `PROJECT.json`).

## The system

One asyncio process serves every HTTP request and webhook as a coroutine.
Requests share nothing in memory except a few caches; they meet in the database
(SQLAlchemy, SQLite by default). Four facts about the session decide what can
go wrong, and every model here is built on them:

* each request has its own session (`app/core/database.py:37-45`), which keeps
  the rows it has loaded and does not re-read them (`expire_on_commit=False`);
* a commit writes only the columns whose value in memory differs from what was
  loaded, so a stale row does not overwrite what it did not change;
* there are no row locks, version columns or conditional updates;
* coroutines interleave at every `await`, so the code between two awaits is
  atomic and nothing else is.

| Component | State | Operations | Talks to | What makes it correct |
|---|---|---|---|---|
| Payment confirmation (`commerce/payments/`) | order rows, payment log | 4 webhooks, browser callback, verification | gateways, fulfilment, stock | no order paid without a charge, or an event nobody checks that says so; a charge is honoured; a retry has no effect |
| Stock (`commerce/catalog_provider.py`) | `stock_quantity`, `in_stock`, flag in the order's metadata | decrement, external sync | payment confirmation | each paid order is counted once; sold-out items are hidden |
| Fulfilment (`commerce/fulfillment.py`, `notifications.py`) | `fulfillment_status` | dispatch, digital delivery, merchant alert | Bumpa, channels | once fulfilled, never again; every confirmed order gets a status |
| Flow engine (`flows/engine.py`) | `active_flow`, `current_step`, `state_data` of the session row | one handler per button or text | cart, checkout, profile, verification | a flow ends; what the customer picked is what is ordered |
| Cart and memory (`commerce/cart.py`, `ai/memory.py`) | JSON columns of the session row | add, set, remove, clear; append, trim, expire, reset | flow engine, assistant | no lost items or turns; the window is bounded |
| Checkout (`commerce/checkout.py`) | order rows | split by settlement, create rows, make links | gateways | every item is on exactly one order; a failed link leaves a failed order |
| Assistant (`ai/orchestrator.py`, `ai/tools.py`) | session memory, orders | tool loop, 10 tools | providers, checkout, payment links | bounded rounds; a link belongs to one order |
| Profile, address (`commerce/customer_profile.py`, `address.py`) | customer row, draft in `state_data` | collect, parse, save | flow engine | collects what is missing, misattributes nothing |
| Channels (`channels/`) | - | one webhook per channel | flow engine, assistant | each bot answers as its own agent |
| Catalog (`api/catalog.py`, sync in `catalog_provider.py`) | catalog rows | create, import, sync, delete | Bumpa, Paystack | one row per external product; limits hold |
| Agents and access (`core/access.py`, `api/agents.py`, `api/access_groups.py`, `api/knowledge.py`) | agents, groups with names and tags, documents | tag matching, administration | catalog, assistant | an agent sees exactly its items |
| Admin accounts (`core/security.py`, `api/auth.py`, `users.py`, `setup.py`, `sso.py`) | account rows, links | setup, sign-on, team, passwords | settings (email) | setup runs once; a reset link works once; somebody can administer |
| Settings (`api/settings.py`, `services/`) | profile row with one JSON column | nine writers, a secret made on a read | agents (bots) | one save does not undo another; no key is presented to another provider |
| Cloud sync, updates (`cloud_sync/sync_worker.py`) | release rows | periodic sync | catalog | the catalog is repaired by the next interval, as far as one page reaches |
| Read-only administration | - | reports, CSV, lists | - | - |

What is hard here: webhooks are retried, duplicated and race the browser
callback and the customer's own button; every handler works on a row it loaded
some awaits ago; the notification after a payment is a chain of six steps, each
of which may fail alone; a restart forgets what is in flight and nothing
resumes it; several writers rewrite whole JSON columns; counts and lookups decide
about inserts that come awaits later. `PROJECT.json` lists each hazard at its line.

How the modules depend on each other:

```
PaymentSettlement --refines--> SettlementPromise
Conversation  -> Cart, CustomerForms
Assistant                        (the conversation seen from the tool loop)
Catalog                          (products, variants, releases)
Administration -> Accounts -> Settings -> Scopes -> Requests
Edits_proofs -> Accounts_proofs -> Administration_proofs -> Administration
SettlementPromise_proofs -> PaymentSettlement_proofs -> PaymentSettlement
```

An arrow is EXTENDS. `Administration` is one state machine over the variables of its
four parts, because they share rows: setup writes accounts, settings and agents; an
invitation needs email to be configured; an order alert needs an agent with a bot; an
agent with a bot makes a webhook secret in the settings.

## What is modelled

### PaymentSettlement - from a charge to a fulfilled order

`PaymentSettlement.tla` follows an order row from checkout on. A finite set of
request slots (`Handlers`) each serve one request of a kind they accept:

| Kind | Code |
|---|---|
| `hook` | `handle_paystack_webhook`, `payments/webhooks.py:94-176` |
| `callback` | `handle_paystack_callback`, `webhooks.py:182-310` |
| `plain` | the Flutterwave, Monnify and Stripe webhooks, `webhooks.py:379-552` |
| `manual` | the "I've Paid" button, `flows/engine.py:487-562` |
| `relink` | `generate_payment_link`, `ai/tools.py:547-671` |

| Variable | Code |
|---|---|
| `orders` | committed order row: `status`, `payment_gateway`, `payment_reference`, `metadata_json["stock_decremented"]` (`counted`), `fulfillment_status` (`fulfil`) |
| `stock`, `listed` | `stock_quantity`, `in_stock` of a product or variant with `track_stock` |
| `links`, `charges` | payment links handed out; those a customer has paid through |
| `pc`, `kind`, `req` | where a request stands, which handler it runs, what it was asked |
| `seen`, `dirty`, `shelf` | the request's session: its copy of the order row, the stock rows it changed, the quantities it loaded |
| `results` | `fulfillment_groups` being built |
| `did` | what the request has done outside the order row: log row, receipt, finalize, stock commit (`count`), a later flush of a failed count (`spill`), push, digital delivery, alert |
| `faults` | crashes and failing database calls so far |

Actions are the code between two awaits that matter. `Flushed` is the
unit-of-work rule: a column is written only if it differs from the loaded value.
`Commit`, `StockCommit`, `Settle` and `Relink` are the commits; `Settle`
and (for Bumpa) `Relink` write the whole metadata column, which is why they
write `counted` even when it did not change. Several database reads in a row
whose results only feed one decision on the in-memory row are one step: nothing
the model tells apart happens between them.

What an event says is taken for a charge (`Heard`): the webhooks do not ask the gateway.
Monnify's checks no signature (`webhooks.py:439-488`), and the other checks pass every
event while their secret is not set (`core/security.py:48-90`). `Checked` is the set of
gateways whose events are checked; an event of another may speak of any link, charged
or not, and the order it names is then paid. The Flutterwave, Monnify and Stripe webhooks
differ in that and in the gateway they write.

Besides a crash (`Crash`) and a failing commit (`CommitFails`), two failures have actions of
their own: `StockFails`, whose changed rows stay in the session, and `DigitalFails`, a
product lookup that raises out of `dispatch_order` (`fulfillment.py:157`): the group's
results are lost and no status is set, `webhooks.py:81-82` swallows the exception, and
the merchant is alerted all the same.

Abstractions: amounts, currencies and message texts are left out (the code does
not compare the amount charged with the order's total, and neither does the
model); a reference is `"own"` (the order's reference), an intent of Bumpa, or
`"txn"` (the transaction id the plain webhooks store). Charges are made by
customers, at will, through any link ever handed out: a gateway does not revoke a
link when a new one is made.

`SettlementPromise.tla` is what this machinery promises, with no requests, sessions or
crashes: an order is charged, or said to be by an event nobody checks (`claimed`), then
paid, then logged, then its effects happen, then its fulfilment status is set or its
dispatch has raised, then the merchant is told, and nothing is taken back.
`PaymentSettlement` refines it (`KeepsPromise`), the mapping at the end of the module.

### Conversation - one customer, from a button to orders

`Conversation.tla` follows one session row (and the customer row beside it)
through every message the flow engine handles. A slot in `Workers` handles one
message: it loads the row when the message arrives (`Arrive`, which is
`get_or_create_session`, expiry included), works on that copy and commits, and is
free again when its handler ends. `Cart.tla` holds the cart's operations and
the split into orders, `CustomerForms.tla` the drafts of the two forms and the
question that comes next.

| Variable | Code |
|---|---|
| `session` | committed session row: `active_flow`, `current_step`, `state_data` (cart, selected product, the two drafts, the widget's two forms) |
| `customer` | committed customer row: which of name, email, phone it has, its delivery address |
| `orders` | orders made by checkouts: lines, gateway, `pending` or `failed`, whether there is a link, whom they bill, where they ship |
| `pc`, `msg`, `seen`, `task` | where a handler stands, its message, its copy of the row, its local variables |
| `channel`, `accepts` | where the conversation is held; which messages each slot may get |
| `overlap`, `faults` | two messages have been handled together; crashes so far |

| Actions | Code |
|---|---|
| `CancelForm`, then any other action | `flows/engine.py:111-164` |
| `MainMenu`, `BrowseCatalog`, `CartAdd`, `QuantityButton`, `Select`, `TypedQuantity`, `ViewCart`, `ClearCart`, `TrackOrder`, `MyPurchases`, `MyProfile`, `Unmatched` | the branches of `_process_action`, `engine.py:166-756`, and `commerce/cart.py` |
| `EditProfile`, `ConfirmName`, `AnswerField`, `UnknownStep`, `FinishProfile` | the profile form, `engine.py:794-1047` |
| `UpdateAddress`, `GiveAddress`, `GiveMissing`, `ConfirmAddress`, `AskAddress`, `FinishAddress` | the address form, `engine.py:1060-1218` |
| `SubmitWidgetForm` | the widget's forms, `channels/widget/endpoints.py:93-132` |
| `Checkout`, `CreateOrder`, `MakeLink`, `LinkFails`, `ClearAfterCheckout` | `engine.py:448-484`, `1245-1289`, `commerce/checkout.py` |

A commit writes a column only if the handler changed it (`Flushed`), and
`state_data` is one column: cart and drafts are written together. Where the code
assigns the column and the model cannot tell whether the text differs (it does
not keep every key), the write may or may not happen (`Rewritten`). A handler
with several commits has one action per commit (`CartAdd` then `Select`;
`SaveAddress` then `FinishAddress`; per order `CreateOrder` then its link).

The widget's two forms are what the page sends, whole or not: every field of
`POST /widget/address` is optional and none is checked (`endpoints.py:111-132`), and a
form without a single value is stored and, being a dictionary, is an address to the
checkout (`engine.py:464-465`). `Filled` says which fields a form may come with;
`Delivery` is where a checkout ships to, `Deliverable` what can be said of it.

Abstractions. A name, an email, a phone number or an address field is there or not
there; the parser may find any set of fields that it could find in some
text (`Parses`). Step `qty_<p>` is written as the product, `ask_missing_<f>` as
the field; one line per product. Left out: variants and deleted products, the
message history, the assistant, the row insert of a first message, amounts. The
form timeout is left out because it cannot happen: `engine.py:118,151`
compare `last_active_at` with now after `memory.py:71` and `:141` have set it in the
same request, so the ten minutes of `engine.py:49-53` never pass. `Tapped` is what
`engine.py:109` does to a WhatsApp button: the caption replaces the id.

### Catalog - products, variants, stock and the sync

`Catalog.tla` is the `catalog_items` table and everything that writes it. A slot in
`Handlers` serves one request: it reads rows at one await (`work[h].held`, `marked`,
`shelf`), decides, and commits at a later one.

| Actions | Code |
|---|---|
| `CreateCounts`, `CreateCommits` | `api/catalog.py:270-363`, the plan's limit at 354-357 |
| `EditLoads`, `EditReadsVariants`, `EditCommits`, `EditFails` | `update_catalog_item` and `_replace_variants`, `api/catalog.py:140-172`, `387-448` |
| `DeleteLoads`, `DeleteCommits`; `ImportsCsv` | `api/catalog.py:451-466`; `683-792` |
| `SaleLoads`, `SaleCommits`, `SaleFails` | `decrement_stock_for_order`, `catalog_provider.py:187-239` |
| `SyncStarts`, `LooksUpReleases`, `UpsertsReleases`, `BrokenSync` | `perform_remote_sync`, `_upsert_releases`, `sync_worker.py:37-182` |
| `ImportStarts`, `Fetches`, `LooksUp`, `SyncCommits`, `SyncFails` | `sync_external_catalog`, `catalog_provider.py:252-327`, reached from the job, the Bumpa webhook and the dashboard |
| `SourceChanges`, `Fails` | the merchant's store (external); any exception, rolled back by `get_db` |

A commit writes the columns that differ from what was loaded (`Flushed`); an UPDATE of
a row that is gone fails the transaction (`EditFails`, `SaleFails`, `SyncFails`). The
failed commit in `_upsert_releases` is caught but not rolled back
(`sync_worker.py:107-113`), so the session refuses the catalog sync that follows in
the same interval: `broken`. The comment at line 112 says an update check must never
break the rest of the sync; `CatalogConverges` says what does hold, that the next
interval makes up for it.

A sync sees the first page of the store, 50 products of either source
(`bumpa/client.py:55-65`, `paystack.py:92-94`), and there is no second one; which products
come first is the store's affair (`FirstPages`). The scheduled sync uses the source and the
keys of the environment only (`catalog_provider.py:270-285`): with the default source
`local`, or without a key, it fetches nothing, and so does a webhook; the dashboard's import
brings a key. `setup` holds both, the page's size and whether the environment connects the
store. `CatalogConverges` is stated where they let it: once requests and changes stop, the
job of a connected store brings in everything the store sells, if that fits in one page.

Left out: prices, titles and pictures, the parser of CSV rows (one refused row poisons
the whole transaction, `api/catalog.py:778`, though the docstring allows partial
success), orphaned variants on a database that does not enforce foreign keys
(`api/catalog.py:463`; the model is PostgreSQL's, as in the compose files).

### Assistant - the tool loop and what a turn leaves behind

`Assistant.tla` follows one customer's messages from the webhook to the recorded
reply. The flow engine is there only as far as it shares the row with the
language model: a form that asks, completes or is cancelled, and a screen.

| Variable | Code |
|---|---|
| `session` | the `conversation_sessions` row: `memory_json`, `active_flow`, `state_data` (cart, known contact, `resume_intent`), `session_started_at`, whether it has expired |
| `log`, `customer`, `orders` | `message_logs`; the customer row has a contact; orders the assistant made |
| `demands`, `told` | what each `create_order` call named; calls whose result was told |
| `pc`, `work` | where each handler stands; its copy of the row, round, calls left, the call being carried out |
| `stale`, `blind`, `halved` | history variables, below |

| Actions | Code |
|---|---|
| `Arrives` (with `TelegramAgents`, `WhatsAppAgents`, `WidgetAgents`) | the three webhooks' choice of an agent, `telegram/webhook.py:67-105`, `whatsapp/webhook.py:84-96`, `widget/endpoints.py` |
| `Creates`, `Opens`, `Reopens`, `Expires` | `get_or_create_session`, `ai/memory.py:15-75` |
| `Thinks`, `FallsBack` | one round of `process_message`, `ai/orchestrator.py:133-200`, and its `except` |
| `ToolReads`, `ToolOpensCart`, `ToolWritesCart`, `ToolCreatesOrder`, `Asks`, `MakesOrder`, `ToolLinks` | `ToolExecutor`, `ai/tools.py` |
| `CancelsForm`, `AnswersForm`, `CompletesForm`, `ClosesForm` | the profile form in `handle_action`, `flows/engine.py` |
| `ActsOutside` | its other branches, a typed quantity, address or tracking reference included (`engine.py:166-200`): any of them may change the cart, show a screen, await an answer or open the form |
| `Intercepted` | which text goes to the flow engine: in the widget that of the four flows of `endpoints.py:174`, elsewhere that of any flow |
| `RecordsUser`, `RecordsReply` | `add_message`, `ai/memory.py:77-143` |

The model is any source of text and tool calls, with arguments its schema declares or
not: a contact (`given`), and for each item of an order whether it is Bumpa's. That is
what the code goes by (`tools.py:503-504`), although the schema (`88-110`) has no `source`
and no `external_id`, `search_catalog` returns neither (`210-215`) and nothing is looked up:
`Goods` is an item as the call names it, and a product of Bumpa's that is not named so is
on the other order. What the tools may be asked is in the
scene, so that one run holds several conversations without their product.

### Administration - the dashboard

`Requests.tla` is how a request of the dashboard runs (read, commit, refused,
rolled back). On it: `Scopes.tla` (agents, groups, documents and who sees what),
`Settings.tla` (the profile row and its JSON column), `Accounts.tla` (the team, links,
passwords, SSO sign-on), `Administration.tla` (setup, and `Next` over all).

| Variable | Code |
|---|---|
| `groups`, `agents`, `docs` | a group's name and `tags_json`; an agent's `group_id` (`first`), `group_ids_json`, `access_tags_json`, bot token; a document's or product's `access_group_ids_json` and `access_tags_json` (`marks`: the mirror of the groups beside the tags) |
| `profiles` | the `metadata_json` of each `business_profile` row, by section; a key is stood for by the provider it was entered for, or is a mask that was sent back; a webhook secret is a number |
| `users`, `links` | `admin_users`; a password is a number and a link the number of the password whose digest it carries |
| `primary` | the agent with the slug `primary-agent` |
| `agentAsked`, `docAsked`, `saved`, `outlived`, `demoted`, `founders`, `halved` | history: what was asked for, saved, or done |

| Actions | Code |
|---|---|
| `AgentCounted` .. `AgentDeleted` | `api/agents.py:145-225`, `269-392` |
| `GroupCreated`, `GroupUpdated`, `GroupDeleted` | `api/access_groups.py:83-171` |
| `DocCreated`, `DocLoaded`, `DocSaved`, `DocDeleted` | `api/knowledge.py:98-205`, `api/catalog.py:426-434` |
| `Shown` (an operator) | `core/access.py:50-100` |
| `SettingLoaded`, `SettingSaved`, `SettingRefused` | the `save_config`s of `services/`, behind `api/settings.py` |
| `ProfileLoaded`, `ProfileSaved` | `api/settings.py:25-105` |
| `ConfigLoaded`, `SecretMade` | `ChannelService.get_config`, `services/channels.py:34-74`, also reached when an agent with a bot is saved |
| `UserCounted` .. `UserDeleted`; `SignOnRead`, `SignedOn` | `api/users.py:56-222`; `api/sso.py:42-103` |
| `LinkSent`, `PasswordLoaded`, `PasswordSaved` | `api/auth.py:122-250` |
| `SetupBegun` .. `SetupEnds` | `api/setup.py:61-162`; `SetupMailed` is the commit inside `EmailService.save_config` |

Abstractions: the actor of a request and the row it concerns are read together;
super_admin and admin are one role, those below them another; ids are not reused
(PostgreSQL); group names are compared in lower case, as tags are; keys from the
environment are left out; links do not expire and log-in changes nothing.

What an agent may see is decided in one namespace (`core/access.py:58-98`): ids of groups as
numbers, the name and tags of the agent's first group, and free tags are one set of
`Marks`. A tag may be a number, and then opens what the group of that number does; a tag may
be the name of a group. `Meant` is what was asked for in that namespace. `ScopeHolds` leaves
out what the code is known to lose: numeric tags, dropped beside groups
(`catalog.py:433`, `knowledge.py:18-26`), and the tags of a product that an empty list sent
with groups was to clear (`catalog.py:429`, `unheard`).

A key sent back masked stands for the stored one if the provider is the same. If it is
not, the email, SMS, storage and payment services keep the mask itself as the new
provider's key (`email.py:71-74`, `sms.py:76-80`, `storage.py:81-82,106-107`,
`payments.py:176-180`): `KeyOf` says so, and `KeysFit` says what is left: a provider in use
has its own key or a mask, never none and never the one entered for another.

### History variables and "blind" writes

Most properties of these three models are of the form "this holds unless somebody wrote
over what he had not seen". That is made precise once: `stale[h]` is what others have
committed since h read it, and a commit that relied on a stale read puts it in
`blind`. A property then names the one piece of state whose blind write would excuse
it, and everything else must be right: an excuse is never "two requests overlapped".
Each excuse is needed: without it TLC finds the overlap that breaks the property in
the code.

### Runs

The `MC` modules give the instances. All settlement runs disable the
deadlock check: the slots are a bound of the model, and when each has served its
request nothing need happen any more.

| Run | Instance | Shows |
|---|---|---|
| `settlement_safety` | two orders (normal with a physical and a digital item; Bumpa) sharing a unit with stock 3 for demands 1 and 2; three slots, two for Paystack's webhook and the assistant and one for another gateway's webhook, the callback or the button; two payment intents; Monnify's events unchecked; one fault | type correctness, seven state invariants, three action properties, refinement |
| `settlement_liveness` | one order without a link, three slots that may serve the webhook, one fault, fairness | a charge is honoured, a confirmed order is handled |
| `settlement_duplicate` | two Paystack deliveries | violated: `OneReceiptPerOrder` |
| `settlement_button` | a webhook and the button | violated: `PaidIsCounted` |
| `settlement_relink` | a webhook and the assistant | violated: `EveryChargeIsPaid` |
| `conversation_safety` | two products (one of Bumpa's to deliver, one digital), two address fields, three channels, nine scripts (below), a widget form with every field or none, two orders, one crash | type correctness, six state invariants, one action property |
| `conversation_overlap` | an item added while a form is opened | violated: `CartSurvivesForms` |
| `conversation_whatsapp` | editing an address on WhatsApp | violated: `TapIsObeyed` |
| `catalog_safety` | two products of the store (one that stays listed at any quantity), plan limit 2, stock 0 or 1, up to five rows and four variants, six mixes of three requests, a page of both products or of one, or no key; one change in the store, one failure | type correctness, three invariants, one action property, convergence |
| `assistant_safety` | four scenes: a long talk in the widget, overlapping text and buttons on Telegram, overlapping text about an order on WhatsApp, several bots; a window of two turns, two rounds of up to two calls, three messages, one expiry, one crash | type correctness, five invariants, every turn ends |
| `assistant_numbers` | two agents with a WhatsApp number each | violated: `AnsweredAsAddressed` |
| `administration_safety` | three slots in nine scenes: edits of agents, groups and documents; settings; team; passwords; setup and sign-on; two groups, agents, documents, providers; two names, tags in words and numbers; three accounts; one failure | type correctness, five invariants |

Why these bounds: every hazard in the list is a matter of two requests on one order,
or of two orders that share a unit; the third slot lets a retry come after an
overlapping pair, or makes two writers overlap around a reader. Stock 3 makes
both orders together reach exactly 0, and a double count overshoot it. One
fault is enough to cut any chain at any step; the properties do not compare
two faults. Slots that accept the same kinds are interchangeable, which is the symmetry
`settlement_safety` uses; its properties name no slot and none is a liveness property.

The conversation runs disable the deadlock check too: once `MaxOrders` orders are made a
script may have nothing left to send. A script says which messages each slot may get, so
that one run holds several conversations without their product: five let one slot handle
one message at a time, in any order and any number (shopping, ordering, editing,
wandering, the widget's page with its forms), and four let two slots handle messages
together (checkout twice, the widget's forms against a checkout, adding against editing,
two edits). Together they fire every disjunct. Two address fields are enough for "one
missing", "both missing" and an order between them, one of them from a fixed list; two
products give every split of a checkout; quantity 2 makes a line grow and shrink.
`MaxQty` and `MaxOrders` stop a handler that would go beyond them, which only cuts
behaviours off.

What two overlapping messages may still not break is `OrdersHaveContact`,
`CheckoutCoversCart` and `PendingIsPayable`. The other properties say `overlap` is
needed to break them: one message at a time, the forms keep the cart
(`NothingIsLost`), flow, step and draft agree (`FormFitsDraft`), a saved address is
whole, and an order to be delivered has one, or on the widget what its form sent
(`OrdersHaveAddress`). With two
messages at a time each of these can fail in the code: a handler that opens the
address form anew leaves an empty draft under the confirmation another handler has
reached, and confirming it makes an order without an address.

Why the bounds of the three newer runs. `catalog_safety`: the hazards are two requests
on one product, and a third one that sees or repairs the result; a window of stock 0..1
has both sides of "sold out"; a limit of 2 over one initial row is reached by one
creation and passed by two; a page of one product shows a store of two half, one of two
shows it whole. `assistant_safety`: a window of two turns with three messages makes it
slide; two rounds make the loop's bound bite; two calls in a round let one open a form
before the other is made; a call that names goods of both sellers makes two orders.
`administration_safety`: every pair of kinds of request that touch the same rows is in
some scene, with a third slot for the one that reads the result, arrives late or
retries; the third account is the one added or signed on; the lists of tags hold a word,
a number or nothing; five passwords allow a change after an invitation, a reset and an
update. The scenes keep unrelated requests apart, whose product says nothing new.
Counters (`MaxSecrets`, `MaxPasswords`, `MaxRows` ...) only cut behaviours off. The
deadlock check is off in all of them: when every slot has served its request nothing
need happen.

The violated runs are disagreements between the code and its own comments, docs or
replies; `PROJECT.json` quotes the lines. `settlement_duplicate` has its cause in the
guards on `status` and `stock_decremented`, which are read before the commit that sets
them, with awaits in between (the same race takes stock twice). What remains true is in
the passing run: once the order is paid and nobody who saw it unpaid is about to confirm
it, retries are silent (`RetriesAreSilent`); a handler that loads the row after it was
counted or fulfilled does not count or fulfil again (`CountedStaysCounted`,
`FulfilledStaysFulfilled`); stock lost to overwriting never exceeds what the handlers
had to take (`StockIsNotOverdrawn`).

### Fairness

`FairSpec` assumes weak fairness of each running handler's own steps (the event
loop runs every coroutine that can go on; HTTP calls return or time out, which
the failing branches model) and of redelivery while an event is unanswered
(Paystack retries until it gets a 2xx). Customers are not fair: nobody need pay, come
back or tap. Faults are not fair. `ChargeIsHonoured` is stated up to the
exhaustion of the slots that may still serve a delivery; `ConfirmedIsHandled` up
to a fault, because the code has nothing that resumes a lost notification.

`Conversation` and `Administration` have no fairness: they state what must never
happen, and a customer or an administrator may stop at any time.

`Catalog` and `Assistant` assume weak fairness of each slot's `Step`: every coroutine
that can go on does, and provider calls return or raise. In `Catalog` the
scheduler's slot is served again at every interval (`sync_loop`), so its start is part of
`Step`; requests to the dashboard and changes in the store are not fair, and are
bounded: `CatalogConverges` says what is true once they stop. In `Assistant`
messages, faults and expiries are not fair.

## What is proved

Every safety invariant and every action property that a passing run checks is also a
theorem, proved for all values of the constants that satisfy the named assumptions of
the modules. TLC evaluates these assumptions on the passing runs.

| Proof module | About | For any |
|---|---|---|
| `PaymentSettlement_proofs`, then `SettlementPromise_proofs` | `PaymentSettlement` | orders, units, links, intents, lines, groups, stock, checked gateways, number of faults; any finite set of slots |
| `Conversation_proofs` | `Conversation`, `Cart`, `CustomerForms` | products, address fields, widget forms, channels, scripts, slots, bounds |
| `Administration_proofs`, then `Accounts_proofs`, then `Edits_proofs` | `Administration` and its parts | scenes, ids, names, tags, providers, roles, plan limit, slots, bounds |
| `Catalog_proofs` | `Catalog` | slots, mixes of requests, store and its page, initial rows, plan limit, bounds |
| `Assistant_proofs` | `Assistant` | scenes, agents, slots, window, rounds, bounds |

| Theorem | Statement |
|---|---|
| `TypeCorrect` | settlement: `Spec => []TypeOK`, stock in `Nat` included |
| `PaidIsCharged` | no order is paid without a charge, or an unchecked event for that order |
| `EffectsArePaid` | effects only for paid orders |
| `AlertsAreSettled` | alert only after a committed fulfilment status, unless dispatching raised |
| `AcknowledgedOrdersArePaid` | an answered webhook for the order's own reference left it paid |
| `SoldOutStaysHidden` | stock 0 implies off sale |
| `InvariantHolds`, `GuardsHold` | the inductive invariants |
| `PaidOrdersStaySilent` | `Spec => RetriesAreSilent`: once paid, redeliveries of Paystack's events and its callback do nothing |
| `FulfilledOrdersRest` | `Spec => FulfilledStaysFulfilled` |
| `CountedOrdersStayCounted` | `Spec => CountedStaysCounted` |
| `StockStaysInBooks` | what is missing from a unit's stock is at most the sum of what the slots that wrote it had to take |
| `SettlementImplementsPromise` | `Spec => KeepsPromise`, the refinement |
| `ConversationTypeCorrect` | conversation: types; no line has quantity 0 |
| `OrdersCarryContact` | every order bills a whole contact |
| `CheckoutIsComplete` | a checkout that clears its cart has each line on exactly one of its orders |
| `PendingOrdersArePayable` | a pending order has a link, is about to get one, or was cut short by a crash |
| `FormsFitDrafts`, `SavedAddressesAreWhole`, `OrdersCarryAddress` | one message at a time: flow, step and draft agree; a saved address is whole; an order to be delivered has one, or on the widget what its form sent |
| `CartIsKept` | one message at a time: `NothingIsLost`, an action property |
| `AdministrationTypeCorrect` | types of all four parts |
| `PasswordsSpentOnce` | a password that was changed is spent, and so is every link sent while it held |
| `AdminsRemain` | a team keeps an administrator |
| `SetupHappensOnce` | one founder, one profile, an agent for them |
| `SettingsStayKept` | each section holds what was last saved in it; a provider in use has its own key or a mask, never another's |
| `ScopesHold` | an agent is shown what was scoped to it, ids, names and tags in one namespace |
| `CatalogTypeCorrect`, `FlagsAgree`, `ExternalIdsOnce`, `PlanLimitKept` | the four invariants of the catalog |
| `SyncsMirror` | a sync leaves every product as it fetched it, an action property |
| `AssistantTypeCorrect`, `PromptsMatch`, `OrdersWhole`, `OrderedOnceHolds`, `MemoryFollowsLog`, `TurnsWhole` | the six invariants of the assistant |

The excuses in these statements ("unless overlapping handlers ...") are part of the properties,
not of the proofs; see the comment on each property.

### The argument for PaymentSettlement

None of the safety properties is inductive alone: a handler about to commit acts on what
it checked awaits ago, and a stale row may be written back. `SettlementInv` says, per
slot, that a handler which reached the confirming stage has a charge or an unchecked
event behind it (`Claimed`) and one that notifies has logged a paid order (`HandlerOK`);
that a stale row never claims more than the tables or the other handlers' actions
(`SeenOK`: paid in memory means paid in the table, and so on), so that writing it back
takes nothing back; that the alert waits for the status, or for a dispatch that raised
(`AlertOK`); and, per order, that paid means claimed and counted means somebody counted
(`RowOK`). With it, each commit is shown to keep "paid" and "has a status"
(`CommittedRow`, `WritingStep`), and each action is shown to be a step of the promise or
invisible to it. `SoldOutStaysHidden` needs only the type invariant and that stock and
flag are written together (`FlushStock`).

The action properties speak of handlers that loaded the row after it was paid, counted
or fulfilled. `GuardInv` is what turns this into "they pass no guard": a handler past a
guard saw the row on the near side of it (`GuardOK`: one that commits a payment saw it
unpaid, one that counts saw it uncounted, one that pushes or delivers saw it
unfulfilled), and no order becomes Bumpa's meanwhile (`GatewayOK`), so that the branch a
handler took is still the one its row calls for.

`StockInv` bounds what is missing from a unit not only in the table but in every quantity
a handler has loaded: a stale quantity is short of the initial one by at most what the
*other* slots have taken, and a slot takes once (`SpentOK`). Writing a stale quantity back
then loses what others took in between and overdraws nothing. The bound is a fold over
the slots. What a fold computes is proved without induction over an operator: the
smallest bad subset of the slots (well-foundedness of the strict subset order) is the
contradiction (`SubsetInduction`, `SumIsPile`, `SumSplit`, `SumMonotone`).

### The argument for Conversation

A checkout may be interrupted by two forms and resumed from what a draft carried, and a
draft may come from a stale copy of the row. `ContactInv` says of every copy, committed
or held, that an address draft which resumes a checkout carries a whole contact or the
customer row has a whole profile (`BillsContact`), and of every handler past its form
that it holds a whole contact (`CarriesContact`). It is inductive because no step takes
a field from a customer's profile: what a stale copy relied on is still there.
`CheckoutInv` says what a checkout has done so far: lines of a group that is left are on
none of its orders (`Absent`), lines of a group that is done are on exactly one
(`Placed`). It is about the cart the handler holds, so the other handlers disturb
nothing (`CoversFrame`). `PendingIsPayable` is proved with it, because "the order whose
link is being made" is the latest the handler made.

`SoloInv` is the invariant of one message at a time: the only busy handler holds the row
as it is in the table (`OneBusy`, `Current`), flow, step and drafts agree in it
(`Fits`), and a checkout with something to deliver has a `Deliverable` address at hand
(`Holds`, `Shipped`). `CartIsKept` follows from it and from `CheckoutInv`: but for an
expired session, the only step that empties a cart unasked is the one after a checkout,
and then each line is on an order.

### The argument for Administration, Catalog and Assistant

The three are proved alike. A request that has read something and not committed yet
either finds it as it was or has the change in its `stale`; with this statement beside
the property, a commit that was not blind has the effect it would have had alone, and a
blind one puts its excuse in `blind`.

* `AccountInv`: a request about to change a password finds the password it read
  (`PasswordInv`); one about to delete an account finds its actor an administrator, and
  is not its own victim (`AdminInv`); once there is a founder, a setup that has not
  committed yet is stale, and so is a request that found no profile once there is one
  (`FoundersInv`, `ProfilesInv`); a founder whose setup is over has an agent
  (`SeedsInv`).
* `KeptInv`: the copy of the settings column a request holds agrees with the row in each
  section (`Current`), and a key in it is its provider's or a mask (`Fits`). A save of the whole
  column then undoes only sections it is stale in.
* `ScopeInv`: the two ways an agent's groups are stored agree with what was asked for,
  for all groups that exist or may yet be made, and so do its first group and its tags
  (`AgentsInv`); a document's marks are the tags asked for and no groups
  but those it is scoped to (`DocsInv`). Whatever the agent's marks are, the two sides then meet in
  the same ones.
* Catalog, `Held`: an edit finds the flag and the variants it read (`HeldEdit`), a sync
  the rows it matched and no row for those it will add (`HeldSync`), a creation the count
  it made (`HeldCount`). The limit is counted as a cardinality of a finite set.
* Assistant, `FreshInv`: a column not in `stale` is the column in the table, and no one is
  past its opening while the row is expired. `WholeInv`: what a call still has to make and
  what it has made are what it named. `OnceInv`: a call is waiting in the form, held by
  one handler, or carried out, and never two of these. `LogInv`: memory is the end
  of the log since the session started, an equality of sequences through
  the trimming. `TurnsInv`: the log since then is a sequence of whole turns, or one handler's
  reply is awaited, or a handler halfway has missed what was written since.

### What the proofs turned up

Proof attempts that failed for a reason TLC's instances had not shown:

* Setup can happen twice without two setups overlapping. Two administrators who delete
  each other at once (`api/users.py:203-222`) leave no account, `setup.py`'s count is
  zero again, and setup makes a second founder. `SetupOnce` now names it as an excuse.
* `create_order`'s intent lives in the same column as the cart. A handler of a stale row
  that only writes the cart writes the intent back too, so a call the form interrupted
  can be carried out twice. `OrderedOnce` excuses it as a blind write of `"data"`.
* Assumptions the models had used without saying so: slots are finitely many, rows are
  numbered in the order they are made, `None` is none of the ids, and the store offers
  finitely many products. They hold of any deployment and are now stated.

### What is only model-checked

The liveness properties (`ChargeIsHonoured`, `ConfirmedIsHandled`, `CatalogConverges`,
`TurnEnds`): fairness and `ENABLED` are out of the prover's reach. The runs that
expect a violation are counterexamples on an instance and need no proof.

## Not modelled, and the plan

`PROJECT.json` gives the status of every component. Left out for good:
message rendering, HTTP clients, prompts and model providers, retrieval scores
(floating point), reports and CSV export, start-up and the CLI.

Left out of modelled components, with the reason, in the notes there. Seen while
modelling and stated by no property:

* `ai/memory.py:71,141` set `last_active_at` before `flows/engine.py:118,151` compare
  it with now, so the forms' ten-minute timeout never fires.
* A quantity typed for a product that is no longer in the cart makes a line
  without source or external id (`commerce/cart.py:134`), which checkout sends to the
  default gateway even if the product is Bumpa's.
* `main.py:271` awaits `get_effective_agent_tags`, which is not a coroutine and takes one
  argument: that branch always raises.
* `channels.py:156` registers the stored webhook secret with Telegram, while
  `core/security.py:39-45` compares the header with the environment's only.
* `settings.py:458-463,496-499` always pass `share_for_payments`, so leaving the toggle out
  turns sharing off, against the default in `store_connections.py:110`.
* `api/catalog.py:429` treats an empty list of tags sent with groups as "keep the tags",
  and numbers among the tags are dropped beside groups (`catalog.py:433`) but kept without.
* A tag of an agent that is a number (`agents.py:355-357`) opens what the group of that
  number is shown, whether or not the agent is in it.
* The email, SMS, storage and payment services accept a masked key for a newly chosen
  provider and store the mask (lines above): sending mail then fails, not the save.
* `_create_order_with_profile` says the first order it returns is the larger one and the
  other's reference is surfaced (`tools.py:494-499`). It returns the one that is not
  Bumpa's, and both callers drop `additional_order_references` (`tools.py:332-338`,
  `engine.py:1386-1404`): the second order is made and nobody is told its reference.
* `create_order` goes by `source` and `external_id` (`tools.py:503-504`), which its schema
  does not declare and `search_catalog` does not return.
* The widget accepts an address without any value (`endpoints.py:111-132`), and checkout
  ships to it.
* The scheduled sync never sees a store beyond its first 50 products, nor a store whose
  key is kept in the dashboard only.
* A deleted group's id stays in the JSON lists (`access_groups.py:169`); where ids are
  reused (SQLite) a new group would inherit its scopes.
* `widget/endpoints.py:80-85` replays the oldest fifty messages, not the latest.
* An SSO sign-on before setup (`sso.py:84-97`) makes an account, after which setup is
  locked and nobody makes the profile or the first agent.

The plan, in this order:

1. `Conversation`: an abstract cart that is filled, ordered and emptied, and the handlers
   as its refinement while messages do not overlap, with `SoloInv` behind the proof.
2. The catalog as the synchronised copy of a store: an abstract specification that
   `SyncMirrors` and `CatalogConverges` are two halves of.
3. `AddressParser`: pure operators against a reference definition, over all small
   inputs.
