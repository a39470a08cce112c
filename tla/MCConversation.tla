--------------------------- MODULE MCConversation ---------------------------
(***************************************************************************)
(* Instances of Conversation for TLC.                                      *)
(***************************************************************************)
EXTENDS Conversation

CONSTANTS mug, ebook, none

MCProducts == {mug, ebook}
MCDelivered == {mug}
MCBumpaGoods == {mug}
MCFieldOrder == <<"state", "city">>
MCFilled == {{}, {"state", "city"}}

Of(kinds) == {m \in Messages : m.do \in kinds}
About(kinds, p) == {m \in Of(kinds) : m.item \in {p, none}}
Alone(messages) == [w \in Workers |-> IF w = 1 THEN messages ELSE {}]
Together(first, second) == [w \in Workers |-> IF w = 1 THEN first ELSE second]

\* One customer, one message at a time: shopping, ordering through the forms,
\* editing the profile and address, wandering about.
Shopping == Of({"menu", "browse", "add", "qty", "number", "clear", "checkout"})
Ordering == Of({"add", "checkout", "cancel", "skip", "text", "yes", "change_name",
                "confirm", "edit_field"})
Editing == Of({"edit", "update_address", "cancel", "skip", "text", "yes", "no",
               "keep_name", "confirm", "edit_field"})
Wandering == Of({"home", "view", "track", "purchases", "profile", "reference", "edit",
                 "text", "menu"})

\* The widget's page: its two forms, one request at a time.
OnPage == About({"add", "checkout"}, mug) \union Of(WidgetForms)

\* Messages handled at the same time.
OrderingTwice == Together(About({"add", "checkout"}, mug), Of({"text", "yes"}))
WidgetTwice == Together(About({"add", "checkout"}, ebook), Of(WidgetForms))
AddingMeanwhile == Together(Of({"add"}), Of({"edit", "skip"}))
EditingTwice == Together(Of({"update_address", "edit", "skip"}), Of({"text", "yes"}))

MCScripts == {Alone(Shopping), Alone(Ordering), Alone(Editing), Alone(Wandering),
              Alone(OnPage), OrderingTwice, WidgetTwice, AddingMeanwhile, EditingTwice}

\* The violated runs: a form opened while something is added to the cart; the
\* address form alone.
MCInterrupted == {Together(About({"add"}, mug), Of({"edit"}))}
MCEditing == {Alone(Editing)}
=============================================================================
