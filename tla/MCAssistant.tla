----------------------------- MODULE MCAssistant -----------------------------
(***************************************************************************)
(* Instances of Assistant for TLC.                                         *)
(***************************************************************************)
EXTENDS Assistant

CONSTANTS shop, support, none

\* One active agent with a bot; a second one with a bot and a number.
Row(active, bot, phone) == [active |-> active, widget |-> TRUE, bot |-> bot, phone |-> phone]
OneAgent ==
    [a \in {shop, support} |-> Row(a = shop, a = shop, none)]
TwoAgents ==
    [a \in {shop, support} |-> Row(TRUE, TRUE, a)]

Scene(channel, says, most, atOnce, tools) ==
    [channel |-> channel, agents |-> OneAgent, sentTo |-> shop, says |-> says, most |-> most,
     atOnce |-> atOnce, tools |-> tools]

\* A long talk, one message at a time; overlapping messages and buttons;
\* overlapping text about an order; updates nobody can be found for.
MCScenes ==
    {Scene("widget", {"text", "menu"}, 3, 1, Tools),
     Scene("telegram", {"text", "click"}, 2, 2, {"cart"}),
     Scene("whatsapp", {"text"}, 3, 2, {"order"}),
     [Scene("telegram", {"text"}, 1, 1, {"read"})
        EXCEPT !.agents = TwoAgents, !.sentTo = none]}

\* Each agent has a number, and the message was sent to one of them.
MCNumbers ==
    {[Scene("whatsapp", {"text"}, 1, 1, Tools) EXCEPT !.agents = TwoAgents, !.sentTo = support]}
=============================================================================
