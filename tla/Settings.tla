------------------------------ MODULE Settings ------------------------------
(***************************************************************************)
(* The business profile and its metadata_json column.  Every settings      *)
(* service keeps its own section there: it loads the row, replaces its     *)
(* section in a copy of the column, and writes the whole column.           *)
(*                                                                         *)
(* A key is stood for by the provider it was entered for, since what a     *)
(* section must not do is to present one provider's key to another.  The   *)
(* dashboard is shown keys masked, and may send the mask back.             *)
(***************************************************************************)
EXTENDS Scopes

CONSTANTS
    Keyed,        \* sections with a provider and its key: email, sms, storage
    Providers,    \* the providers of such a section
    EnvSecret,    \* TELEGRAM_WEBHOOK_SECRET is set
    MaxSecrets    \* bound on webhook secrets ever generated

ASSUME SettingsAssumption ==
    /\ "email" \in Keyed /\ Keyed \subseteq {"email", "sms", "storage"}
    /\ EnvSecret \in BOOLEAN /\ MaxSecrets \in Nat

Gateways == {"paystack", "bumpa"}
\* The store connections are sections by the name of their gateway.
Sections == Keyed \union Gateways \union {"payments", "recipients", "alerts", "channels"}

\* on: provider chosen, or that there is something; shared: share_for_payments.
Entries == [on: Providers \union Gateways \union {"set", None},
            key: Providers \union Gateways \union {"mask", None}, shared: BOOLEAN,
            secret: 0..MaxSecrets]
NoEntry == [on |-> None, key |-> None, shared |-> FALSE, secret |-> 0]

ASSUME EntryAssumption ==
    /\ None \notin 1..2 /\ None \notin Providers \union Gateways \union {"set", "mask"}
    /\ None \notin [Sections -> Entries]
    /\ \A sc \in Scenes : sc.email \in Entries /\ (sc.email.on # None => sc.email.key = sc.email.on)

\* What a request may ask of a section; key: what its key field holds.  A
\* store connection's is emptied only by an empty one ("clear"): none, or the
\* mask, leaves it ("empty").
Asks(s) ==
    [on: CASE s \in Keyed -> Providers \union {None}
           [] s = "payments" -> Gateways \union {None}
           [] s \in Gateways -> {s}
           [] s \in {"recipients", "alerts"} -> {"set", None}
           [] s = "channels" -> {"set"},
     key: CASE s \in Gateways -> {"new", "empty", "clear"}
            [] s \in {"recipients", "alerts"} -> {"empty"}
            [] s = "channels" -> {"new", "empty"}
            [] s \in Keyed \union {"payments"} -> {"new", "empty", "mask"},
     shared: IF s \in Gateways THEN BOOLEAN ELSE {FALSE}]

VARIABLES
    profiles,     \* the metadata_json of each business_profile row
    lastSecret,
    saved         \* history: what was last saved in each section

settings == <<profiles, lastSecret, saved>>

ProfileIds == 1..2
Metas == [Sections -> Entries]
Profiles == {p \in ProfileIds : profiles[p] # None}

SettingsTypeOK ==
    /\ profiles \in [ProfileIds -> Metas \union {None}]
    /\ lastSecret \in 0..MaxSecrets
    /\ saved \in [ProfileIds -> Metas \union {None}]

SettingsInit ==
    /\ profiles = [p \in ProfileIds |->
                      IF scene.ready /\ p = 1 THEN [s \in Sections |->
                          IF s = "email" THEN scene.email ELSE NoEntry] ELSE None]
    /\ lastSecret = 0
    /\ saved = profiles

----------------------------------------------------------------------------

\* An empty or masked key keeps the stored one if the provider is the same;
\* otherwise it is taken for the key, and only the empty one is none.
KeyOf(old, ask) ==
    CASE ask.key = "new" -> ask.on
      [] ask.key = "clear" -> None
      [] ask.key \in {"empty", "mask"} ->
            IF old.on = ask.on THEN old.key ELSE IF ask.key = "mask" THEN "mask" ELSE None

\* The section's new entry; a new webhook secret is given when one was
\* entered or there is none.
Resolved(copy, s, ask) ==
    CASE s = "channels" ->
            [NoEntry EXCEPT !.on = "set",
                !.secret = IF ask.key = "new" \/ copy[s].secret = 0 THEN lastSecret + 1
                           ELSE copy[s].secret]
      [] ask.on = None \/ s \in {"recipients", "alerts"} -> [NoEntry EXCEPT !.on = ask.on]
      [] s = "payments" /\ ask.on = "bumpa" -> [NoEntry EXCEPT !.on = ask.on]
      [] OTHER -> [NoEntry EXCEPT !.on = ask.on, !.key = KeyOf(copy[s], ask),
                                  !.shared = ask.shared]

\* A store connection's key, when it is shared with payments.
SharedKey(copy, g) == copy[g].shared /\ copy[g].key # None

\* The ValueErrors.  Order alerts over Telegram need an agent with a bot.
Acceptable(copy, s, ask) ==
    /\ ask.on # None /\ (s \in Keyed \/ (s = "payments" /\ ask.on = "paystack"))
          => KeyOf(copy[s], ask) # None
    /\ s = "payments" /\ ask.on = "paystack" => ~SharedKey(copy, "paystack")
    /\ s = "payments" /\ ask.on = "bumpa" => SharedKey(copy, "bumpa")
    /\ s = "alerts" /\ ask.on = "set" => \E a \in Agents : agents[a].bot

\* The column as the service writes it.
WrittenAlone(copy, s, entry) ==                \* mutant: the section alone
    [t \in Sections |-> IF t = s THEN entry ELSE NoEntry]
Written(copy, s, entry) == [copy EXCEPT ![s] = entry]

\* The row read: any of them, or a new one that is added with the commit.
Blank == [s \in Sections |-> NoEntry]
Found == IF Profiles = {} THEN {None} ELSE Profiles
ColumnOf(p) == IF p = None THEN Blank ELSE profiles[p]
Row(p) == IF p = None THEN {<<"profile", 0>>} ELSE Sections \X {p}

\* Column, copy with the sections in saves replaced, is written to p.
Puts(p, copy, column, saves) ==
    LET q == IF p = None THEN CHOOSE r \in ProfileIds \ Profiles : TRUE ELSE p
    IN  /\ p = None => Profiles # ProfileIds
        /\ profiles' = [profiles EXCEPT ![q] = IF p = None THEN column ELSE Kept(@, copy, column)]
        /\ saved' = [saved EXCEPT ![q] = [s \in Sections |->
               IF p = None \/ s \in saves THEN column[s] ELSE @[s]]]

\* h commits section s of p as entry.
Stores(h, p, copy, s, entry, next) ==
    LET column == Written(copy, s, entry)
    IN  /\ Puts(p, copy, column, {s})
        /\ Commits(h, IF p # None /\ column = copy THEN {} ELSE Row(p), Row(p), next, None)

SettingLoaded(h) ==
    /\ Serves(h, "save")
    /\ \E p \in Found, s \in Sections : \E ask \in Asks(s) :
          Reads(h, "save",
                [profile |-> p, copy |-> ColumnOf(p), section |-> s, ask |-> ask])
    /\ UNCHANGED <<scopes, settings>>
SettingSaved(h) ==
    LET w == work[h]
        entry == Resolved(w.copy, w.section, w.ask)
    IN  /\ stage[h] = "save"
        /\ Acceptable(w.copy, w.section, w.ask)
        /\ entry.secret <= MaxSecrets
        /\ lastSecret' = IF entry.secret > lastSecret THEN entry.secret ELSE lastSecret
        /\ \E bot \in BOOLEAN :      \* a bot token came with the channels' settings
             /\ bot => w.section = "channels"
             /\ Stores(h, w.profile, w.copy, w.section, entry, IF bot THEN "register" ELSE "done")
        /\ UNCHANGED scopes
SettingRefused(h) ==
    /\ stage[h] = "save"
    /\ ~Acceptable(work[h].copy, work[h].section, work[h].ask)
    /\ Refused(h)
    /\ UNCHANGED <<scopes, settings>>

\* The profile itself, read or updated, is added when there is none; its own
\* columns are left out.
ProfileLoaded(h) ==
    /\ Serves(h, "profile")
    /\ \E p \in Found : Reads(h, "profile", [profile |-> p])
    /\ UNCHANGED <<scopes, settings>>
ProfileSaved(h) ==
    LET p == work[h].profile
    IN  /\ stage[h] = "profile"
        /\ IF p = None
           THEN Puts(p, Blank, Blank, {}) /\ Commits(h, Row(p), Row(p), "done", None)
           ELSE Commits(h, {}, {}, "done", None) /\ UNCHANGED <<profiles, saved>>
        /\ UNCHANGED <<scopes, lastSecret>>

\* ChannelService.get_config, from the settings page or with an agent whose
\* bot is registered with Telegram: the first to find no webhook secret makes
\* one and commits it, if there is a profile to keep it.
SecretMissing(p) == ~EnvSecret /\ p # None /\ ColumnOf(p)["channels"].secret = 0
ConfigLoaded(h) ==
    /\ Serves(h, "config") \/ stage[h] = "register"
    /\ \E p \in Found :
         LET w == [profile |-> p, copy |-> ColumnOf(p)]
         IN  Goes(h, IF SecretMissing(p) THEN "secret" ELSE "done", w)
    /\ stale' = [stale EXCEPT ![h] = {}]
    /\ UNCHANGED <<scene, blind, faults>>
    /\ UNCHANGED <<scopes, settings>>
SecretMade(h) ==
    LET w == work[h]
        old == w.copy["channels"]
    IN  /\ stage[h] = "secret"
        /\ lastSecret < MaxSecrets
        /\ lastSecret' = lastSecret + 1
        /\ Stores(h, w.profile, w.copy, "channels",
                  [old EXCEPT !.on = "set", !.secret = lastSecret + 1], "done")
        /\ UNCHANGED scopes

SettingsNext(h) ==
    \/ SettingLoaded(h) \/ SettingSaved(h) \/ SettingRefused(h)
    \/ ProfileLoaded(h) \/ ProfileSaved(h)
    \/ ConfigLoaded(h) \/ SecretMade(h)

----------------------------------------------------------------------------

\* Email can be sent.
MailerOf(p) == profiles[p]["email"].on # None

\* A provider in use has a key, its own or a mask, and never another's.
KeysFit(p) ==
    /\ \A s \in Keyed :
          profiles[p][s].on # None => profiles[p][s].key \in {profiles[p][s].on, "mask"}
    /\ profiles[p]["payments"].on = "paystack"
          => profiles[p]["payments"].key \in {"paystack", "mask"}

\* Every section holds what was last saved in it, whatever other services
\* saved since: a section is lost only to a save that had loaded the column
\* before it.  And no provider is left without a key, or with the key entered
\* for another, through all changes of provider and overlapping saves.  (It
\* may be left with a mask: sent back with another provider chosen, it is kept
\* by the email, SMS, storage and payments services as that provider's key.)
SettingsKept ==
    \A p \in Profiles :
        /\ KeysFit(p)
        /\ \A s \in Sections : <<s, p>> \notin blind => profiles[p][s] = saved[p][s]

=============================================================================
