-------------------------- MODULE MCAdministration --------------------------
(***************************************************************************)
(* Instances of Administration for TLC.                                    *)
(***************************************************************************)
EXTENDS Administration

CONSTANTS vip, staff, resend, brevo, none

\* No tags, a word (which may be a group's name), a number (which may be its id).
MCTagLists == {{}, {vip}, {2}}

Mailer == [NoEntry EXCEPT !.on = resend, !.key = resend]
Scene(ready, n, email, first, second, third) ==
    [ready |-> ready, groups |-> n, email |-> email, faults |-> 1,
     serves |-> <<first, second, third>>]

\* Edits of agents, of groups and of documents over each other; overlapping
\* saves of the settings; the team's accounts; forgotten and changed passwords;
\* setups that overlap, with somebody logged in to the first already; and an
\* operator who signs on before the setup or instead of it.
MCScenes ==
    {Scene(TRUE, 1, NoEntry, {"agent"}, {"agent", "group"}, {"doc"}),
     Scene(TRUE, 2, NoEntry, {"agent"}, {"doc"}, {"group"}),
     Scene(TRUE, 1, NoEntry, {"doc"}, {"doc", "group"}, {}),
     Scene(TRUE, 2, NoEntry, {"save"}, {"save", "config"}, {"config"}),
     Scene(TRUE, 2, Mailer, {"newUser", "user", "dropUser"}, {"user", "dropUser"}, {}),
     Scene(TRUE, 2, Mailer, {"forgot", "newUser"}, {"reset", "password"}, {"reset", "user", "dropUser"}),
     Scene(FALSE, 0, NoEntry, {"setup"}, {"setup"}, {"config", "profile", "agent"}),
     Scene(FALSE, 0, NoEntry, {"sso"}, {"setup", "profile"}, {"config", "profile"}),
     Scene(FALSE, 0, NoEntry, {"sso"}, {"save"}, {"save", "sso", "profile"})}

=============================================================================
