--------------------------- MODULE Administration ---------------------------
(***************************************************************************)
(* The dashboard as a whole: the first-run setup, and the requests of      *)
(* Accounts, Settings and Scopes that share its database.                  *)
(***************************************************************************)
EXTENDS Accounts

VARIABLES
    primary,       \* the agent with the slug "primary-agent"
    founders,      \* history: accounts made by setup
    halved         \* history: a setup stopped after its early commit

setup == <<primary, founders, halved>>
vars == <<requests, scopes, settings, accounts, setup>>

----------------------------------------------------------------------------

\* initialize_instance is refused once there is an account.
Unlocked0 == TRUE                              \* mutant: as often as one likes
Unlocked == Users = {}
SetupBegun(h) ==
    /\ Serves(h, "setup")
    /\ Unlocked
    /\ \E address \in Addresses, email \in Asks("email") :
          Reads(h, "setup", [address |-> address, email |-> email])
    /\ UNCHANGED <<scopes, settings, accounts, setup>>

\* It inserts the administrator, and reads the profile or adds one; nothing
\* is committed.
SetupFlushed(h) ==
    LET w == work[h]
    IN  /\ stage[h] = "setup"
        /\ IF Taken(w.address, None)
           THEN Refused(h)
           ELSE \E p \in Found :
                   Reads(h, "flushed",
                         [address |-> w.address, email |-> w.email, profile |-> p,
                          copy |-> ColumnOf(p), founded |-> FALSE, seed |-> FALSE])
        /\ UNCHANGED <<scopes, settings, accounts, setup>>

\* The account and the profile of h are committed, the latter with column.
SetupKey == {<<"setup", 0>>}
SetupRows(h, column, saves, next, then) ==
    LET w == work[h]
        row == [address |-> w.address, role |-> "admin", active |-> TRUE,
                password |-> lastPassword + 1]
        changed == IF w.profile # None /\ column = w.copy THEN {} ELSE Row(w.profile)
    IN  /\ nextUser \in UserIds /\ lastPassword < MaxPasswords
        /\ users' = [users EXCEPT ![nextUser] = row]
        /\ founders' = founders \union {nextUser}
        /\ nextUser' = nextUser + 1
        /\ lastPassword' = lastPassword + 1
        /\ Puts(w.profile, w.copy, column, saves)
        /\ Commits(h, SetupKey \union changed, SetupKey \union Row(w.profile), next, then)
        /\ UNCHANGED <<lastSecret, links, outlived, demoted>>

\* With email settings, EmailService.save_config commits what there is so far.
SetupMailed(h) ==
    LET w == work[h]
        entry == Resolved(w.copy, "email", w.email)
    IN  /\ stage[h] = "flushed" /\ w.email.on # None
        /\ IF Taken(w.address, None) \/ ~Acceptable(w.copy, "email", w.email)
           THEN Refused(h) /\ UNCHANGED <<settings, accounts, founders>>
           ELSE SetupRows(h, Written(w.copy, "email", entry), {"email"},
                          "founded", [w EXCEPT !.founded = TRUE])
        /\ UNCHANGED <<scopes, primary, halved>>

\* It counts the agents.
SetupCounted(h) ==
    /\ \/ stage[h] = "founded"
       \/ stage[h] = "flushed" /\ work[h].email.on = None
    /\ Reads(h, "seed", [work[h] EXCEPT !.seed = (Agents = {})])
    /\ UNCHANGED <<scopes, settings, accounts, setup>>

\* The last commit, refused when the slug or the address is taken.
SetupEnds(h) ==
    LET w == work[h]
        slugTaken == primary # None /\ agents[primary] # None
    IN  /\ stage[h] = "seed"
        /\ IF (w.seed /\ slugTaken) \/ (~w.founded /\ Taken(w.address, None))
           THEN Refused(h) /\ UNCHANGED <<scopes, settings, accounts, primary, founders>>
           ELSE /\ IF w.seed
                   THEN /\ nextAgent \in AgentIds
                        /\ agents' = [agents EXCEPT ![nextAgent] =
                               [first |-> None, groups |-> << >>, tags |-> {}, bot |-> FALSE]]
                        /\ agentAsked' = [agentAsked EXCEPT ![nextAgent] =
                               [first |-> None, groups |-> {}, tags |-> {}]]
                        /\ nextAgent' = nextAgent + 1
                        /\ primary' = nextAgent
                        /\ UNCHANGED <<groups, docs, nextGroup, docAsked>>
                   ELSE UNCHANGED <<scopes, primary>>
                /\ IF w.founded
                   THEN Commits(h, {}, {}, "done", None) /\ UNCHANGED <<settings, accounts, founders>>
                   ELSE SetupRows(h, w.copy, {}, "done", None)
        /\ UNCHANGED halved

SetupNext(h) ==
    \/ SetupBegun(h) \/ SetupFlushed(h) \/ SetupMailed(h) \/ SetupCounted(h) \/ SetupEnds(h)

\* A request fails: a setup that had committed its account keeps it.
RequestFails(h) ==
    /\ Fails(h)
    /\ halved' = (halved \/ stage[h] = "founded" \/ (stage[h] = "seed" /\ work[h].founded))
    /\ UNCHANGED <<scopes, settings, accounts, primary, founders>>

----------------------------------------------------------------------------

Init ==
    /\ RequestsInit
    /\ ScopesInit
    /\ SettingsInit
    /\ AccountsInit
    /\ primary = None
    /\ founders = {}
    /\ halved = FALSE

\* The dashboard's requests arrive from somebody who is logged in.
LoggedIn(h) == stage[h] = "idle" => ActiveUsers # {}

Next ==
    \E h \in Handlers :
        \/ LoggedIn(h) /\ ScopesNext(h) /\ UNCHANGED <<settings, accounts, setup>>
        \/ LoggedIn(h) /\ SettingsNext(h) /\ UNCHANGED <<accounts, setup>>
        \/ AccountsNext(h) /\ UNCHANGED setup
        \/ SetupNext(h)
        \/ RequestFails(h)

Spec == Init /\ [][Next]_vars

----------------------------------------------------------------------------

\* Every row, and everything a request holds, is of its type.
TypeOK ==
    /\ scene \in Scenes
    /\ stage \in [Handlers -> Resting \union
            {"newAgent", "agent", "register", "doc", "save", "profile", "secret", "newUser",
             "sso", "user", "dropUser", "password", "setup", "flushed", "founded", "seed"}]
    /\ \A h \in Handlers : stage[h] \in Resting => work[h] = None /\ stale[h] = {}
    /\ faults \in 0..scene.faults
    /\ ScopesTypeOK
    /\ SettingsTypeOK
    /\ AccountsTypeOK
    /\ primary \in AgentIds \union {None}
    /\ founders \subseteq UserIds
    /\ halved \in BOOLEAN

\* An instance is set up once, however setups run into each other's commits,
\* crash or are refused half-way: it has one founder, unless two setups had
\* both counted no accounts, or an account was changed by somebody whose own
\* account had meanwhile changed (two administrators who delete each other at
\* once leave none, and setup is open again); one profile, unless two
\* requests had both found none; and when no setup is in progress, a founder
\* has an agent, unless a setup was stopped after saving its email settings.
SetupOnce ==
    /\ SetupKey \intersect blind = {} /\ (\A u \in UserIds : Authority(u) \notin blind)
          => Cardinality(founders) <= 1
    /\ Row(None) \intersect blind = {} => Cardinality(Profiles) <= 1
    /\ (\A h \in Handlers : stage[h] \notin {"founded", "seed"}) /\ founders # {} /\ ~halved
          => nextAgent > 1

=============================================================================
