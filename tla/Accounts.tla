------------------------------ MODULE Accounts ------------------------------
(***************************************************************************)
(* The accounts of the dashboard's team: how they are added, invited,      *)
(* changed and deleted, and how a password is changed by its owner or      *)
(* through an emailed link.                                                *)
(*                                                                         *)
(* A request's actor is loaded by get_current_admin_user and its authority *)
(* is decided then; the rows it concerns are loaded with it.  Passwords    *)
(* are numbered: each hash is salted, so none recurs, and a link carries   *)
(* the digest of one.                                                      *)
(***************************************************************************)
EXTENDS Settings

CONSTANTS
    UserIds,       \* 1..n: ids are handed out in order
    Addresses,     \* email addresses
    MaxPasswords   \* bound on passwords ever set

ASSUME AccountAssumption ==
    /\ Numbered(UserIds) /\ MaxPasswords \in Nat
    /\ \A sc \in Scenes : sc.ready =>
          2 \in UserIds /\ 2 <= MaxPasswords /\ \E a, b \in Addresses : a # b

VARIABLES
    users,         \* admin_users, None for no row
    nextUser, lastPassword,
    links,         \* <<user, password>>: reset links and invitations sent
    outlived,      \* history: users whose password a former one's link changed
    demoted        \* history: an update left no administrator

accounts == <<users, nextUser, lastPassword, links, outlived, demoted>>

\* super_admin and admin may do the same; so may the roles below them.
Roles == {"admin", "operator"}
Passwords == 1..MaxPasswords
UserRows == [address: Addresses, role: Roles, active: BOOLEAN, password: Passwords]

ASSUME RowAssumption == None \notin UserRows

AccountsTypeOK ==
    /\ users \in [UserIds -> UserRows \union {None}]
    /\ nextUser \in UserIds \union {Cardinality(UserIds) + 1}
    /\ lastPassword \in 0..MaxPasswords
    /\ links \subseteq UserIds \X Passwords
    /\ outlived \subseteq UserIds
    /\ demoted \in BOOLEAN

Users == {u \in UserIds : users[u] # None}
ActiveUsers == {u \in Users : users[u].active}
Admins == {u \in ActiveUsers : users[u].role = "admin"}
\* The unique constraint on email, for a row of u.
Taken(address, u) == \E v \in Users \ {u} : users[v].address = address

\* After setup: the first two accounts are administrators.
AccountsInit ==
    LET there == IF scene.ready THEN {1, 2} ELSE {}
        address == CHOOSE f \in [{1, 2} -> Addresses] : f[1] # f[2]
    IN  /\ users = [u \in UserIds |-> IF u \notin there THEN None
               ELSE [address |-> address[u], role |-> "admin", active |-> TRUE, password |-> u]]
        /\ nextUser = Cardinality(there) + 1
        /\ lastPassword = Cardinality(there)
        /\ links = {}
        /\ outlived = {}
        /\ demoted = FALSE

EmailWorks == \E p \in Profiles : MailerOf(p)

----------------------------------------------------------------------------
(***************************************************************************)
(* The team: users.py.                                                     *)
(***************************************************************************)

\* create_user: the address is free and, to invite, email is configured.
UserCounted(h) ==
    /\ Serves(h, "newUser")
    /\ Admins # {}
    /\ \E address \in Addresses, role \in Roles, invited \in BOOLEAN :
         /\ ~Taken(address, None)
         /\ invited => EmailWorks
         /\ Reads(h, "newUser",
                  [address |-> address, role |-> role, invited |-> invited])
    /\ UNCHANGED <<scopes, settings, accounts>>
UserInserted(h) ==
    LET w == work[h]
        row == [address |-> w.address, role |-> w.role, active |-> TRUE,
                password |-> lastPassword + 1]
    IN  /\ stage[h] = "newUser"
        /\ IF Taken(w.address, None)
           THEN Refused(h) /\ UNCHANGED accounts
           ELSE /\ nextUser \in UserIds /\ lastPassword < MaxPasswords
                /\ users' = [users EXCEPT ![nextUser] = row]
                /\ nextUser' = nextUser + 1
                /\ lastPassword' = lastPassword + 1
                /\ links' = IF w.invited THEN links \union {<<nextUser, row.password>>} ELSE links
                /\ Commits(h, {}, {}, "done", None)
                /\ UNCHANGED <<outlived, demoted>>
        /\ UNCHANGED <<scopes, settings>>

\* sso_login: CommB Cloud's operator gets an account with the first visit, on
\* an instance that is set up or not.  (A later one only notes the time.)
SignOnRead(h) ==
    /\ Serves(h, "sso")
    /\ \E address \in Addresses :
         ~Taken(address, None) /\ Reads(h, "sso", [address |-> address])
    /\ UNCHANGED <<scopes, settings, accounts>>
SignedOn(h) ==
    LET address == work[h].address
    IN  /\ stage[h] = "sso"
        /\ IF Taken(address, None)
           THEN Refused(h) /\ UNCHANGED accounts
           ELSE /\ nextUser \in UserIds /\ lastPassword < MaxPasswords
                /\ users' = [users EXCEPT ![nextUser] =
                       [address |-> address, role |-> "admin", active |-> TRUE,
                        password |-> lastPassword + 1]]
                /\ nextUser' = nextUser + 1
                /\ lastPassword' = lastPassword + 1
                /\ Commits(h, {}, {}, "done", None)
                /\ UNCHANGED <<links, outlived, demoted>>
        /\ UNCHANGED <<scopes, settings>>

\* What an update asks for; None for what was not sent.
UserAsks == [address: Addresses \union {None}, role: Roles \union {None},
             active: BOOLEAN \union {None}, password: BOOLEAN]
May(actor, user) == users[actor].role = "admin" \/ actor = user
Sent(asked, old) == IF asked = None THEN old ELSE asked
\* The row in memory.  Only an administrator's request changes the role or
\* deactivates; an administrator's own role is changed before it is asked
\* whether the account may be deactivated.
UserUpdated(row, own, admin, ask, password) ==
    LET role == IF admin THEN Sent(ask.role, row.role) ELSE row.role
        still == admin /\ (own => role = "admin")
    IN  [address  |-> Sent(ask.address, row.address),
         role     |-> role,
         active   |-> IF still THEN Sent(ask.active, row.active) ELSE row.active,
         password |-> IF ask.password THEN password ELSE row.password]

UserLoaded(h) ==
    /\ Serves(h, "user")
    /\ \E actor \in ActiveUsers, u \in Users, ask \in UserAsks :
         /\ May(actor, u)
         /\ Reads(h, "user",
                  [actor |-> actor, admin |-> actor \in Admins, user |-> u,
                   row |-> users[u], ask |-> ask])
    /\ UNCHANGED <<scopes, settings, accounts>>
Authority(u) == <<"user", u>>
PasswordOf(u) == <<"password", u>>
UserSaved(h) ==
    LET w == work[h]
        new == UserUpdated(w.row, w.actor = w.user, w.admin, w.ask, lastPassword + 1)
    IN  /\ stage[h] = "user"
        /\ IF users[w.user] = None \/ (new.address # w.row.address /\ Taken(new.address, w.user))
           THEN Refused(h) /\ UNCHANGED accounts
           ELSE /\ new.password <= MaxPasswords
                /\ users' = [users EXCEPT ![w.user] =
                       [address  |-> Kept(@.address, w.row.address, new.address),
                        role     |-> Kept(@.role, w.row.role, new.role),
                        active   |-> Kept(@.active, w.row.active, new.active),
                        password |-> Kept(@.password, w.row.password, new.password)]]
                /\ lastPassword' = IF w.ask.password THEN new.password ELSE lastPassword
                /\ demoted' = (demoted \/ (Admins # {} /\ Admins' = {}))
                /\ Commits(h, {Authority(w.user)}
                                  \union (IF w.ask.password THEN {PasswordOf(w.user)} ELSE {}),
                           {Authority(w.actor)}, "done", None)
                /\ UNCHANGED <<nextUser, links, outlived>>
        /\ UNCHANGED <<scopes, settings>>

\* delete_user; a second delete of the row matches nothing.
MayDeleteAny(actor, u) == actor \in Admins                  \* mutant: oneself too
MayDelete(actor, u) == actor \in Admins /\ actor # u
UserChosen(h) ==
    /\ Serves(h, "dropUser")
    /\ \E actor, u \in Users :
         /\ MayDelete(actor, u)
         /\ Reads(h, "dropUser", [actor |-> actor, user |-> u])
    /\ UNCHANGED <<scopes, settings, accounts>>
UserDeleted(h) ==
    LET w == work[h]
    IN  /\ stage[h] = "dropUser"
        /\ users' = [users EXCEPT ![w.user] = None]
        /\ Commits(h, {Authority(w.user)}, {Authority(w.actor)}, "done", None)
        /\ UNCHANGED <<scopes, settings, nextUser, lastPassword, links, outlived, demoted>>

----------------------------------------------------------------------------
(***************************************************************************)
(* Passwords: auth.py.                                                     *)
(***************************************************************************)

\* forgot_password, once email is configured.  (A link may be used long
\* after; that it expires is left out.)
LinkSent(h) ==
    /\ EmailWorks
    /\ Serves(h, "forgot")
    /\ \E u \in ActiveUsers : links' = links \union {<<u, users[u].password>>}
    /\ Goes(h, "done", None)
    /\ UNCHANGED <<scene, history, faults>>
    /\ UNCHANGED <<scopes, settings, users, nextUser, lastPassword, outlived, demoted>>

\* reset_password and change_password: the link's digest, or the password
\* given, is that of the row as loaded.
OpensAny(link, row) == row.active                          \* mutant: any link does
Opens(link, row) == row.active /\ link[2] = row.password
PasswordLoaded(h) ==
    /\ \/ /\ Serves(h, "reset")
          /\ \E link \in links :
               /\ users[link[1]] # None
               /\ Opens(link, users[link[1]])
               /\ Reads(h, "password", [user |-> link[1], by |-> link[2]])
       \/ /\ Serves(h, "password")
          /\ \E u \in ActiveUsers :
               Reads(h, "password", [user |-> u, by |-> users[u].password])
    /\ UNCHANGED <<scopes, settings, accounts>>
PasswordSaved(h) ==
    LET w == work[h]
        key == {PasswordOf(w.user)}
    IN  /\ stage[h] = "password"
        /\ IF users[w.user] = None
           THEN Refused(h) /\ UNCHANGED accounts
           ELSE /\ lastPassword < MaxPasswords
                /\ lastPassword' = lastPassword + 1
                /\ users' = [users EXCEPT ![w.user].password = lastPassword + 1]
                /\ outlived' = IF users[w.user].password = w.by THEN outlived
                               ELSE outlived \union {w.user}
                /\ Commits(h, key, key, "done", None)
                /\ UNCHANGED <<nextUser, links, demoted>>
        /\ UNCHANGED <<scopes, settings>>

AccountsNext(h) ==
    \/ UserCounted(h) \/ UserInserted(h) \/ SignOnRead(h) \/ SignedOn(h) \/ UserLoaded(h) \/ UserSaved(h)
    \/ UserChosen(h) \/ UserDeleted(h)
    \/ LinkSent(h) \/ PasswordLoaded(h) \/ PasswordSaved(h)

----------------------------------------------------------------------------

\* Once an instance is set up somebody can administer it: no sequence of
\* deletions, new passwords and updates takes the last administrator away,
\* except one update that demotes or deactivates the last one, which nothing
\* in update_user forbids, and requests of administrators whose own account
\* was changed or deleted while they ran.
AdminRemains ==
    (Admins = {} /\ Users # {}) => demoted \/ \E u \in UserIds : Authority(u) \in blind

\* A password, and every link sent while it was one's password, changes the
\* password once and is then spent, whoever changed it and how, unless two
\* changes ran over each other.
PasswordSpentOnce ==
    \A u \in outlived : PasswordOf(u) \in blind

=============================================================================
