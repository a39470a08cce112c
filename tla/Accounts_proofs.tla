--------------------------- MODULE Accounts_proofs ---------------------------
(***************************************************************************)
(* Proofs about the accounts of Administration: what becomes of passwords, *)
(* that an administrator remains, and that an instance is set up once.     *)
(***************************************************************************)
EXTENDS Administration_proofs

(***************************************************************************)
(* The inductive invariants.  A request that has read a row and not        *)
(* committed yet finds it as it was, or the change is in its stale.        *)
(***************************************************************************)
PasswordInv ==
    /\ PasswordSpentOnce
    /\ \A u \in Users : u < nextUser
    /\ \A h \in Handlers :
          stage[h] = "password" =>
              LET u == work[h].user
              IN  /\ u < nextUser
                  /\ \/ users[u] = None \/ users[u].password = work[h].by
                     \/ PasswordOf(u) \in stale[h]

Usurped == \E u \in UserIds : Authority(u) \in blind

AdminInv ==
    /\ Admins = {} => demoted \/ Usurped \/ nextUser = 1
    /\ \A h \in Handlers :
          /\ stage[h] = "newUser" => nextUser > 1
          /\ stage[h] = "dropUser" =>
                /\ work[h].actor # work[h].user
                /\ work[h].actor \in Admins \/ Authority(work[h].actor) \in stale[h]

\* A setup that has committed its account, and one that has not.
Founding(s, w) == s \in {"founded", "seed"} /\ w.founded
Beginning(s, w) == s = "setup" \/ (s \in {"flushed", "seed"} /\ ~w.founded)

FoundersInv ==
    founders # {} /\ ~Usurped =>
        /\ Users # {}
        /\ SetupKey \intersect blind = {} => \E u \in UserIds : founders = {u}
        /\ \A h \in Handlers : Beginning(stage[h], work[h]) => SetupKey \subseteq stale[h]

ProfilesInv ==
    /\ Row(None) \intersect blind = {} => \A p, q \in Profiles : p = q
    /\ \A h \in Handlers :
          /\ stage[h] \in ProfileStages /\ ~Founding(stage[h], work[h])
          /\ work[h].profile = None
          => Profiles = {} \/ Row(None) \subseteq stale[h]

SeedsInv ==
    /\ \A a \in Agents : a < nextAgent
    /\ \A h \in Handlers :
          /\ stage[h] = "flushed" => ~work[h].founded
          /\ stage[h] = "founded" => work[h].founded
          /\ stage[h] = "seed" /\ ~work[h].seed => nextAgent > 1
    /\ founders # {} /\ ~halved =>
          nextAgent > 1 \/ \E h \in Handlers : Founding(stage[h], work[h])

SetupInv == FoundersInv /\ ProfilesInv /\ SeedsInv

AccountInv == PasswordInv /\ AdminInv /\ SetupInv

----------------------------------------------------------------------------
(***************************************************************************)
(* Steps, by what they do to the accounts.                                 *)
(***************************************************************************)
Watched == {"newUser", "dropUser", "password"}
Elsewhere(h) == \E s \in Stages \ Watched : \E w : Moves(h, s, w)
Quiet(h) == Elsewhere(h) /\ UNCHANGED <<users, nextUser, outlived, demoted>>
\* An account is added.
Joins(h) ==
    /\ Elsewhere(h)
    /\ nextUser \in UserIds
    /\ \E row \in UserRows :
          /\ users' = [users EXCEPT ![nextUser] = row]
          /\ stage[h] = "newUser" \/ (row.role = "admin" /\ row.active)
    /\ nextUser' = nextUser + 1
    /\ UNCHANGED <<outlived, demoted>>

LEMMA Landed ==
    ASSUME NEW h, NEW S \in SUBSET Stages, S \intersect Watched = {}, Lands(h, S)
    PROVE  Elsewhere(h)
  BY DEF Lands, Elsewhere

\* The first part of a dashboard's request, or of the setup, and its failure.
LEMMA QuietSteps ==
    ASSUME TypeInv, NEW h \in Handlers,
           \/ ScopesNext(h) /\ UNCHANGED <<settings, accounts, setup>>
           \/ SettingsNext(h) /\ UNCHANGED <<accounts, setup>>
           \/ SetupBegun(h) \/ SetupFlushed(h) \/ SetupCounted(h)
           \/ RequestFails(h)
    PROVE  Quiet(h)
<1> USE DEF TypeInv
<1>1. UNCHANGED accounts
  BY DEF SetupBegun, SetupFlushed, SetupCounted, RequestFails
<1>2. \E S \in SUBSET Stages : S \intersect Watched = {} /\ Lands(h, S)
  <2>1. /\ ScopeStages \in SUBSET Stages /\ ScopeStages \intersect Watched = {}
        /\ SettingStages \in SUBSET Stages /\ SettingStages \intersect Watched = {}
        /\ SetupLands \in SUBSET Stages /\ SetupLands \intersect Watched = {}
        /\ {"done"} \in SUBSET Stages /\ {"done"} \intersect Watched = {}
    BY DEF ScopeStages, SettingStages, SetupLands, Stages, Resting, Watched
  <2>2. CASE ScopesNext(h)
    BY <2>1, <2>2, ScopesStepType
  <2>3. CASE SettingsNext(h)
    BY <2>1, <2>3, SettingsStepType
  <2>4. CASE SetupBegun(h) \/ SetupFlushed(h) \/ SetupCounted(h)
    BY <2>1, <2>4, SetupReadsType
  <2>5. CASE RequestFails(h)
    BY <2>1, <2>5, Landing DEF RequestFails
  <2>6. QED
    BY <2>2, <2>3, <2>4, <2>5
<1>3. QED
  BY <1>1, <1>2, Landed DEF Quiet, accounts

\* The setup's commit of its account.
Founds(h) ==
    /\ nextUser \in UserIds
    /\ \E row \in UserRows :
          users' = [users EXCEPT ![nextUser] = row] /\ row.role = "admin" /\ row.active
    /\ nextUser' = nextUser + 1
    /\ founders' = founders \union {nextUser}
    /\ UNCHANGED <<outlived, demoted>>

LEMMA RowsFound ==
    ASSUME TypeInv, NEW h \in Handlers, stage[h] \in SetupStages, NEW column, NEW saves,
           NEW next, NEW then, SetupRows(h, column, saves, next, then)
    PROVE  Founds(h)
<1> DEFINE row == [address |-> work[h].address, role |-> "admin", active |-> TRUE,
                   password |-> lastPassword + 1]
<1>1. work[h].address \in Addresses
  BY SetupHolds DEF SetupWork
<1>2. row \in UserRows
  BY <1>1, NewRowType DEF SetupRows, Roles, TypeInv
<1>3. QED
  BY <1>2 DEF SetupRows, Founds

LEMMA SetupCommits ==
    ASSUME TypeInv, NEW h \in Handlers, SetupMailed(h) \/ SetupEnds(h)
    PROVE  /\ Elsewhere(h)
           /\ \/ Quiet(h) /\ founders' = founders
              \/ Joins(h) /\ Founds(h)
<1>1. Elsewhere(h)
  <2>1. SetupLands \in SUBSET Stages /\ SetupLands \intersect Watched = {}
    BY DEF SetupLands, Stages, Resting, Watched
  <2>2. Lands(h, SetupLands)
    BY SetupMailedType, SetupEndsType
  <2>3. QED
    BY <2>1, <2>2, Landed
<1>2. stage[h] \in SetupStages
  BY DEF SetupMailed, SetupEnds, SetupStages
<1>3. \/ UNCHANGED <<accounts, founders>>
      \/ \E column, saves, next, then : SetupRows(h, column, saves, next, then)
  BY DEF SetupMailed, SetupEnds
<1>4. UNCHANGED <<accounts, founders>> \/ Founds(h)
  BY <1>2, <1>3, RowsFound
<1>5. QED
  BY <1>1, <1>4 DEF Quiet, Joins, Founds, accounts

LEMMA AccountKinds ==
    ASSUME TypeInv, NEW h \in Handlers, AccountsNext(h)
    PROVE  \/ Quiet(h) \/ Joins(h)
           \/ UserCounted(h) \/ UserSaved(h) \/ UserChosen(h) \/ UserDeleted(h)
           \/ PasswordLoaded(h) \/ PasswordSaved(h)
<1> USE DEF TypeInv
<1>1. CASE UserInserted(h)
  <2>1. work[h] \in [address: Addresses, role: Roles, invited: BOOLEAN]
    BY <1>1 DEF UserInserted, RequestsInv, Holds
  <2>2. Lands(h, {"done"})
    BY <1>1, Landing DEF UserInserted
  <2>3. Elsewhere(h)
    BY <2>2, Landed DEF Stages, Resting, Watched
  <2>4. CASE Taken(work[h].address, None)
    BY <1>1, <2>3, <2>4 DEF UserInserted, Quiet, accounts
  <2>5. CASE ~Taken(work[h].address, None)
    <3> DEFINE row == [address |-> work[h].address, role |-> work[h].role, active |-> TRUE,
                       password |-> lastPassword + 1]
    <3>1. row \in UserRows
      BY <1>1, <2>1, <2>5, NewRowType DEF UserInserted
    <3>2. QED
      BY <1>1, <2>3, <2>5, <3>1 DEF UserInserted, Joins
  <2>6. QED
    BY <2>4, <2>5
<1>2. CASE SignedOn(h)
  <2>1. work[h].address \in Addresses
    BY <1>2 DEF SignedOn, RequestsInv, Holds
  <2>2. Lands(h, {"done"})
    BY <1>2, Landing DEF SignedOn
  <2>3. Elsewhere(h)
    BY <2>2, Landed DEF Stages, Resting, Watched
  <2>4. CASE Taken(work[h].address, None)
    BY <1>2, <2>3, <2>4 DEF SignedOn, Quiet, accounts
  <2>5. CASE ~Taken(work[h].address, None)
    <3> DEFINE row == [address |-> work[h].address, role |-> "admin", active |-> TRUE,
                       password |-> lastPassword + 1]
    <3>1. row \in UserRows
      BY <1>2, <2>1, <2>5, NewRowType DEF SignedOn, Roles
    <3>2. QED
      BY <1>2, <2>3, <2>5, <3>1 DEF SignedOn, Joins
  <2>6. QED
    BY <2>4, <2>5
<1>3. CASE SignOnRead(h)
  <2>1. \E w : Moves(h, "sso", w)
    BY <1>3, ReadsMove DEF SignOnRead, Stages, Resting
  <2>2. QED
    BY <1>3, <2>1 DEF SignOnRead, Quiet, accounts, Elsewhere, Stages, Watched
<1>4. CASE UserLoaded(h)
  <2>1. \E w : Moves(h, "user", w)
    BY <1>4, ReadsMove DEF UserLoaded, Stages, Resting
  <2>2. QED
    BY <1>4, <2>1 DEF UserLoaded, Quiet, accounts, Elsewhere, Stages, Watched
<1>5. CASE LinkSent(h)
  <2>1. Moves(h, "done", None)
    BY <1>5 DEF LinkSent, Serves, Goes, history, Moves, RequestsInv, Resting
  <2>2. QED
    BY <1>5, <2>1 DEF LinkSent, Quiet, Elsewhere, Stages, Resting, Watched
<1>6. QED
  BY <1>1, <1>2, <1>3, <1>4, <1>5 DEF AccountsNext

----------------------------------------------------------------------------
(***************************************************************************)
(* Passwords.                                                              *)
(***************************************************************************)
NextUserKept == nextUser \in Nat /\ nextUser' \in {nextUser, nextUser + 1}

\* Row u has the password it had, or has gone, or the others know.
SamePassword(h, u) ==
    \/ users'[u] = None
    \/ users[u] # None /\ users'[u].password = users[u].password
    \/ \A k \in Handlers \ {h} : stage[k] \notin Resting => PasswordOf(u) \in stale'[k]

LEMMA PasswordFrame ==
    ASSUME TypeInv, PasswordInv, NEW h \in Handlers, NEW s \in Stages, NEW w,
           Moves(h, s, w), NextUserKept,
           \A u \in outlived' : PasswordOf(u) \in blind',
           \A u \in Users' : u < nextUser',
           s = "password" =>
               w.user < nextUser' /\ users'[w.user] # None /\ users'[w.user].password = w.by,
           \A u \in UserIds : u < nextUser => SamePassword(h, u)
    PROVE  PasswordInv'
<1>1. ASSUME NEW k \in Handlers, stage'[k] = "password"
      PROVE  LET u == work'[k].user
             IN  /\ u < nextUser'
                 /\ \/ users'[u] = None \/ users'[u].password = work'[k].by
                    \/ PasswordOf(u) \in stale'[k]
  <2>1. CASE k = h
    BY <1>1, <2>1 DEF TypeInv, RequestsInv, Moves
  <2>2. CASE k # h
    <3> DEFINE u == work[k].user
    <3>1. stage[k] = "password" /\ work'[k] = work[k] /\ stale[k] \subseteq stale'[k]
      BY <1>1, <2>2 DEF TypeInv, RequestsInv, Moves, Resting
    <3>2. u \in UserIds /\ u \in Nat
      BY <3>1, AccountAssumption, Sequels DEF TypeInv, RequestsInv, Holds
    <3>3. /\ u < nextUser
          /\ users[u] = None \/ users[u].password = work[k].by \/ PasswordOf(u) \in stale[k]
      BY <3>1 DEF PasswordInv
    <3>4. u < nextUser'
      BY <3>2, <3>3 DEF NextUserKept
    <3>5. SamePassword(h, u)
      BY <3>2, <3>3
    <3>6. users'[u] = None \/ users'[u].password = work[k].by \/ PasswordOf(u) \in stale'[k]
      BY <2>2, <3>1, <3>3, <3>5 DEF SamePassword, Resting
    <3>7. QED
      BY <3>1, <3>4, <3>6
  <2>3. QED
    BY <2>1, <2>2
<1>2. QED
  BY <1>1 DEF PasswordInv, PasswordSpentOnce

LEMMA PasswordSavedOnce ==
    ASSUME TypeInv, PasswordInv, NEW h \in Handlers, PasswordSaved(h)
    PROVE  PasswordInv'
<1> DEFINE w == work[h]
<1>1. stage[h] = "password" /\ w \in [user: UserIds, by: Passwords] /\ w.user \in UserIds
  BY DEF PasswordSaved, TypeInv, RequestsInv, Holds
<1>2. nextUser' = nextUser /\ NextUserKept
  BY AccountAssumption, Sequels
     DEF PasswordSaved, accounts, TypeInv, AccountsTypeOK, NextUserKept
<1>3. CASE users[w.user] = None
  <2>1. UNCHANGED accounts /\ Moves(h, "done", None) /\ blind' = blind
    BY <1>3, RefusedMoves DEF PasswordSaved, TypeInv
  <2>2. \A u \in UserIds : SamePassword(h, u)
    BY <2>1 DEF SamePassword, accounts
  <2>3. "done" \in Stages
    BY DEF Stages, Resting
  <2>4. QED
    BY <1>2, <2>1, <2>2, <2>3, PasswordFrame DEF PasswordInv, PasswordSpentOnce, Users, accounts
<1>4. CASE users[w.user] # None
  <2>1. /\ Commits(h, {PasswordOf(w.user)}, {PasswordOf(w.user)}, "done", None)
        /\ users' = [users EXCEPT ![w.user].password = lastPassword + 1]
        /\ outlived' = IF users[w.user].password = w.by THEN outlived
                       ELSE outlived \union {w.user}
    BY <1>4 DEF PasswordSaved
  <2>2. /\ Moves(h, "done", None)
        /\ \A k \in Handlers \ {h} : stage[k] \notin Resting => PasswordOf(w.user) \in stale'[k]
        /\ blind' = blind \union (stale[h] \intersect {PasswordOf(w.user)})
    BY <2>1, Ending DEF TypeInv
  <2>3. \A u \in outlived' : PasswordOf(u) \in blind'
    BY <1>1, <1>4, <2>1, <2>2 DEF PasswordInv, PasswordSpentOnce
  <2>4. \A u \in UserIds : SamePassword(h, u)
    BY <1>1, <2>1, <2>2 DEF SamePassword, TypeInv, AccountsTypeOK
  <2>5. \A u \in Users' : u < nextUser'
    BY <1>1, <1>2, <1>4, <2>1 DEF PasswordInv, Users, TypeInv, AccountsTypeOK
  <2>6. "done" \in Stages
    BY DEF Stages, Resting
  <2>7. QED
    BY <1>2, <2>2, <2>3, <2>4, <2>5, <2>6, PasswordFrame
<1>5. QED
  BY <1>3, <1>4

LEMMA NextUserType ==
    ASSUME TypeInv
    PROVE  nextUser \in Nat /\ nextUser > 0 /\ \A u \in UserIds : u \in Nat /\ u > 0
  BY AccountAssumption, Sequels DEF TypeInv, AccountsTypeOK, Numbered

LEMMA PasswordsElsewhere ==
    ASSUME TypeInv, PasswordInv, NEW h \in Handlers, Quiet(h) \/ Joins(h)
    PROVE  PasswordInv'
<1>1. PICK s \in Stages \ Watched : \E w : Moves(h, s, w)
  BY DEF Quiet, Joins, Elsewhere
<1>2. PICK w : Moves(h, s, w)
  BY <1>1
<1>3. NextUserKept
  BY NextUserType DEF Quiet, Joins, NextUserKept
<1>4. \A u \in outlived' : PasswordOf(u) \in blind'
  BY <1>2 DEF Quiet, Joins, Moves, PasswordInv, PasswordSpentOnce
<1>5. /\ \A u \in Users' : u < nextUser'
      /\ \A u \in UserIds : u < nextUser => SamePassword(h, u)
  <2>1. CASE Quiet(h)
    BY <2>1 DEF Quiet, PasswordInv, Users, SamePassword
  <2>2. CASE Joins(h)
    <3>1. PICK row : users' = [users EXCEPT ![nextUser] = row]
      BY <2>2 DEF Joins
    <3>2. nextUser' = nextUser + 1 /\ nextUser \in UserIds
      BY <2>2 DEF Joins
    <3>3. \A u \in UserIds : u # nextUser => users'[u] = users[u]
      BY <3>1 DEF TypeInv, AccountsTypeOK
    <3>4. QED
      BY <3>2, <3>3, NextUserType DEF PasswordInv, Users, SamePassword
  <2>3. QED
    BY <2>1, <2>2
<1>6. QED
  BY <1>2, <1>3, <1>4, <1>5, PasswordFrame DEF Watched

LEMMA PasswordStep ==
    ASSUME TypeInv, PasswordInv, NEW h \in Handlers, AccountsNext(h)
    PROVE  PasswordInv'
<1> USE DEF TypeInv
<1>a. NextUserKept <=> nextUser' \in {nextUser, nextUser + 1}
  BY NextUserType DEF NextUserKept
<1>1. CASE UserCounted(h) \/ UserChosen(h) \/ PasswordLoaded(h)
  <2>1. UNCHANGED accounts
    BY <1>1 DEF UserCounted, UserChosen, PasswordLoaded
  <2>2. PICK s \in {"newUser", "dropUser", "password"} : \E w : Reads(h, s, w) /\
           (s = "password" => w.user \in Users /\ users[w.user].password = w.by)
    <3>1. CASE UserCounted(h)
      BY <3>1 DEF UserCounted
    <3>2. CASE UserChosen(h)
      BY <3>2 DEF UserChosen
    <3>3. CASE PasswordLoaded(h)
      <4>1. CASE \E link \in links : /\ users[link[1]] # None
                                     /\ Opens(link, users[link[1]])
                                     /\ Reads(h, "password", [user |-> link[1], by |-> link[2]])
        BY <4>1 DEF Opens, Users, AccountsTypeOK
      <4>2. CASE \E u \in ActiveUsers :
                    Reads(h, "password", [user |-> u, by |-> users[u].password])
        BY <4>2 DEF ActiveUsers
      <4>3. QED
        BY <3>3, <4>1, <4>2 DEF PasswordLoaded
    <3>4. QED
      BY <1>1, <3>1, <3>2, <3>3
  <2>3. PICK w : Reads(h, s, w) /\
           (s = "password" => w.user \in Users /\ users[w.user].password = w.by)
    BY <2>2
  <2>4. s \in Stages \ Resting /\ Moves(h, s, w) /\ blind' = blind
    BY <2>2, <2>3, ReadsMove DEF Stages, Resting
  <2>5. \A u \in UserIds : SamePassword(h, u)
    BY <2>1 DEF SamePassword, accounts
  <2>6. /\ nextUser' = nextUser /\ users' = users /\ outlived' = outlived /\ Users' = Users
    BY <2>1 DEF accounts, Users
  <2>7. QED
    BY <1>a, <2>3, <2>4, <2>5, <2>6, PasswordFrame DEF PasswordInv, PasswordSpentOnce, Users
<1>2. CASE UserSaved(h)
  <2> DEFINE w == work[h]
             new == UserUpdated(w.row, w.actor = w.user, w.admin, w.ask, lastPassword + 1)
             changed == {Authority(w.user)}
                          \union (IF w.ask.password THEN {PasswordOf(w.user)} ELSE {})
  <2>1. w \in UserWork /\ w.user \in UserIds
    BY <1>2 DEF UserSaved, RequestsInv, Holds, UserWork
  <2>2. CASE Refused(h) /\ UNCHANGED accounts
    <3>1. Moves(h, "done", None) /\ blind' = blind /\ "done" \in Stages
      BY <2>2, RefusedMoves DEF Stages, Resting
    <3>2. \A u \in UserIds : SamePassword(h, u)
      BY <2>2 DEF SamePassword, accounts
    <3>3. QED
      BY <1>a, <2>2, <3>1, <3>2, PasswordFrame DEF PasswordInv, PasswordSpentOnce, Users, accounts
  <2>3. CASE ~(Refused(h) /\ UNCHANGED accounts)
    <3>1. /\ users[w.user] # None
          /\ \E row : users' = [users EXCEPT ![w.user] = row]
          /\ users'[w.user].password = Kept(users[w.user].password, w.row.password, new.password)
          /\ Commits(h, changed, {Authority(w.actor)}, "done", None)
          /\ nextUser' = nextUser /\ outlived' = outlived
      <4> DEFINE old == users[w.user]
                 row == [address  |-> Kept(old.address, w.row.address, new.address),
                         role     |-> Kept(old.role, w.row.role, new.role),
                         active   |-> Kept(old.active, w.row.active, new.active),
                         password |-> Kept(old.password, w.row.password, new.password)]
      <4>1. /\ old # None
            /\ users' = [users EXCEPT ![w.user] = row]
            /\ Commits(h, changed, {Authority(w.actor)}, "done", None)
            /\ nextUser' = nextUser /\ outlived' = outlived
        BY <1>2, <2>1, <2>3 DEF UserSaved, AccountsTypeOK
      <4>2. row.password = Kept(old.password, w.row.password, new.password)
        OBVIOUS
      <4> HIDE DEF row
      <4>3. users'[w.user] = row
        BY <2>1, <4>1 DEF AccountsTypeOK
      <4>4. QED
        BY <4>1, <4>2, <4>3
    <3>2. ~w.ask.password => new.password = w.row.password
      BY DEF UserUpdated
    <3>3. /\ Moves(h, "done", None) /\ "done" \in Stages
          /\ \A k \in Handlers : k # h /\ stage[k] \notin Resting => stale'[k] = stale[k] \union changed
          /\ blind \subseteq blind'
      BY <3>1, Ending
    <3>4. \A u \in UserIds : SamePassword(h, u)
      <4>1. \A u \in UserIds : u # w.user => users'[u] = users[u]
        BY <3>1 DEF AccountsTypeOK
      <4>2. CASE w.ask.password
        BY <3>3, <4>1, <4>2 DEF SamePassword
      <4>3. CASE ~w.ask.password
        BY <3>1, <3>2, <4>1, <4>3 DEF SamePassword, Kept
      <4>4. QED
        BY <4>2, <4>3
    <3>5. \A u \in Users' : u < nextUser'
      BY <2>1, <3>1 DEF PasswordInv, Users, AccountsTypeOK
    <3>6. QED
      BY <1>a, <3>1, <3>3, <3>4, <3>5, PasswordFrame DEF PasswordInv, PasswordSpentOnce
  <2>4. QED
    BY <2>2, <2>3
<1>3. CASE UserDeleted(h)
  <2> DEFINE w == work[h]
  <2>1. /\ users' = [users EXCEPT ![w.user] = None]
        /\ \E changed, relied : Commits(h, changed, relied, "done", None)
        /\ nextUser' = nextUser /\ outlived' = outlived
    BY <1>3 DEF UserDeleted
  <2>2. Moves(h, "done", None) /\ "done" \in Stages /\ blind \subseteq blind'
    BY <2>1, Ending
  <2>3. \A u \in UserIds : SamePassword(h, u)
    BY <2>1 DEF SamePassword, AccountsTypeOK
  <2>4. Users' \subseteq Users
    BY <2>1 DEF Users, AccountsTypeOK
  <2>5. QED
    BY <1>a, <2>1, <2>2, <2>3, <2>4, PasswordFrame DEF PasswordInv, PasswordSpentOnce
<1>4. QED
  BY <1>1, <1>2, <1>3, AccountKinds, PasswordsElsewhere, PasswordSavedOnce

----------------------------------------------------------------------------
(***************************************************************************)
(* Administrators.                                                         *)
(***************************************************************************)

\* A new password leaves the rest of the account.
LEMMA PasswordSavedKeeps ==
    ASSUME TypeInv, NEW h \in Handlers, PasswordSaved(h)
    PROVE  /\ Users' = Users /\ Admins' = Admins /\ nextUser' = nextUser /\ demoted' = demoted
           /\ Moves(h, "done", None) /\ "done" \in Stages /\ blind \subseteq blind'
<1> USE DEF TypeInv
<1>1. work[h].user \in UserIds
  BY DEF PasswordSaved, RequestsInv, Holds
<1>2. CASE users[work[h].user] = None
  BY <1>2, RefusedMoves
     DEF PasswordSaved, accounts, Admins, ActiveUsers, Users, Stages, Resting
<1>3. CASE users[work[h].user] # None
  <2>1. /\ users' = [users EXCEPT ![work[h].user].password = lastPassword + 1]
        /\ \E key : Commits(h, key, key, "done", None)
        /\ nextUser' = nextUser /\ demoted' = demoted
    BY <1>3 DEF PasswordSaved
  <2>2. Moves(h, "done", None) /\ "done" \in Stages /\ blind \subseteq blind'
    BY <2>1, Ending
  <2> DEFINE new == [users[work[h].user] EXCEPT !.password = lastPassword + 1]
  <2>3. /\ users[work[h].user] \in UserRows
        /\ new.role = users[work[h].user].role /\ new.active = users[work[h].user].active
    BY <1>1, <1>3 DEF AccountsTypeOK, UserRows
  <2>4. new # None
    <3>1. lastPassword + 1 \in Passwords
      BY <1>3, AccountAssumption DEF PasswordSaved, AccountsTypeOK, Passwords
    <3>2. new \in UserRows
      BY <2>3, <3>1 DEF UserRows
    <3>3. QED
      BY <3>2, RowAssumption
  <2>5. \A u \in UserIds : users'[u] = IF u = work[h].user THEN new ELSE users[u]
    BY <1>1, <2>1 DEF AccountsTypeOK
  <2>6. Users' = Users /\ Admins' = Admins
    <3> HIDE DEF new
    <3>1. QED
      BY <1>1, <1>3, <2>3, <2>4, <2>5 DEF Admins, ActiveUsers, Users
  <2>7. QED
    BY <2>1, <2>2, <2>6
<1>4. QED
  BY <1>2, <1>3

LEMMA AdminFrame ==
    ASSUME TypeInv, AdminInv, NEW h \in Handlers, NEW s \in Stages, NEW w,
           Moves(h, s, w), NextUserKept,
           Admins' = {} => demoted' \/ Usurped' \/ nextUser' = 1,
           s = "newUser" => nextUser' > 1,
           s = "dropUser" => w.actor # w.user /\ w.actor \in Admins',
           \A u \in Admins \ Admins' : \A k \in Handlers \ {h} :
               stage[k] \notin Resting => Authority(u) \in stale'[k]
    PROVE  AdminInv'
<1>1. ASSUME NEW k \in Handlers
      PROVE  /\ stage'[k] = "newUser" => nextUser' > 1
             /\ stage'[k] = "dropUser" =>
                   /\ work'[k].actor # work'[k].user
                   /\ work'[k].actor \in Admins' \/ Authority(work'[k].actor) \in stale'[k]
  <2>1. CASE k = h
    BY <2>1 DEF TypeInv, RequestsInv, Moves
  <2>2. CASE k # h
    <3>1. /\ stage'[k] = stage[k] /\ work'[k] = work[k]
          /\ stage[k] \notin Resting => stale[k] \subseteq stale'[k]
      BY <2>2 DEF TypeInv, RequestsInv, Moves
    <3>2. stage[k] = "newUser" => nextUser' > 1
      BY DEF AdminInv, NextUserKept
    <3>3. stage[k] = "dropUser" =>
             /\ work[k].actor # work[k].user
             /\ work[k].actor \in Admins' \/ Authority(work[k].actor) \in stale'[k]
      BY <2>2, <3>1 DEF AdminInv, Resting
    <3>4. QED
      BY <3>1, <3>2, <3>3
  <2>3. QED
    BY <2>1, <2>2
<1>2. QED
  BY <1>1 DEF AdminInv

\* What was true of the administrators stays: nothing else is ever undone.
LEMMA AdminlessKept ==
    ASSUME AdminInv, Admins = {}, nextUser' = nextUser, blind \subseteq blind', demoted => demoted'
    PROVE  demoted' \/ Usurped' \/ nextUser' = 1
  BY DEF AdminInv, Usurped

LEMMA AdminsElsewhere ==
    ASSUME TypeInv, PasswordInv, AdminInv, NEW h \in Handlers, Quiet(h) \/ Joins(h)
    PROVE  AdminInv'
<1>1. PICK s \in Stages \ Watched : \E w : Moves(h, s, w)
  BY DEF Quiet, Joins, Elsewhere
<1>2. PICK w : Moves(h, s, w)
  BY <1>1
<1>3. NextUserKept /\ blind \subseteq blind'
  BY <1>2, NextUserType DEF Quiet, Joins, NextUserKept, Moves
<1>4. /\ Admins \subseteq Admins'
      /\ Admins' = {} => demoted' \/ Usurped' \/ nextUser' = 1
  <2>1. CASE Quiet(h)
    <3>1. Admins' = Admins /\ nextUser' = nextUser /\ demoted' = demoted
      BY <2>1 DEF Quiet, Admins, ActiveUsers, Users
    <3>2. QED
      BY <1>3, <3>1, AdminlessKept
  <2>2. CASE Joins(h)
    <3>1. PICK row \in UserRows : /\ users' = [users EXCEPT ![nextUser] = row]
                                  /\ stage[h] = "newUser" \/ (row.role = "admin" /\ row.active)
      BY <2>2 DEF Joins
    <3>2. /\ nextUser \in UserIds /\ row # None
          /\ \A u \in UserIds : users'[u] = IF u = nextUser THEN row ELSE users[u]
          /\ demoted' = demoted
      BY <2>2, <3>1, RowAssumption DEF Joins, TypeInv, AccountsTypeOK
    <3>3. nextUser \notin Users
      BY NextUserType DEF PasswordInv
    <3>4. Admins \subseteq Admins'
      BY <3>2, <3>3 DEF Admins, ActiveUsers, Users
    <3>5. CASE stage[h] = "newUser"
      <4>1. Admins = {} => demoted \/ Usurped
        BY <3>5, NextUserType DEF AdminInv
      <4>2. QED
        BY <1>3, <3>2, <3>4, <4>1 DEF Usurped
    <3>6. CASE row.role = "admin" /\ row.active
      BY <3>2, <3>4, <3>6 DEF Admins, ActiveUsers, Users
    <3>7. QED
      BY <3>1, <3>4, <3>5, <3>6
  <2>3. QED
    BY <2>1, <2>2
<1>5. QED
  BY <1>2, <1>3, <1>4, AdminFrame DEF Watched

LEMMA AdminStep ==
    ASSUME TypeInv, PasswordInv, AdminInv, NEW h \in Handlers, AccountsNext(h)
    PROVE  AdminInv'
<1> USE DEF TypeInv
<1>a. NextUserKept <=> nextUser' \in {nextUser, nextUser + 1}
  BY NextUserType DEF NextUserKept
<1>1. CASE UserCounted(h) \/ UserChosen(h) \/ PasswordLoaded(h)
  <2>1. UNCHANGED accounts
    BY <1>1 DEF UserCounted, UserChosen, PasswordLoaded
  <2>2. Admins' = Admins /\ nextUser' = nextUser /\ demoted' = demoted
    BY <2>1 DEF accounts, Admins, ActiveUsers, Users
  <2>3. PICK s \in {"newUser", "dropUser", "password"} : \E w : Reads(h, s, w) /\
           (s = "newUser" => Admins # {}) /\
           (s = "dropUser" => w.actor # w.user /\ w.actor \in Admins)
    <3>1. CASE UserCounted(h)
      BY <3>1 DEF UserCounted
    <3>2. CASE UserChosen(h)
      BY <3>2 DEF UserChosen, MayDelete
    <3>3. CASE PasswordLoaded(h)
      BY <3>3 DEF PasswordLoaded
    <3>4. QED
      BY <1>1, <3>1, <3>2, <3>3
  <2>4. PICK w : Reads(h, s, w) /\ (s = "newUser" => Admins # {}) /\
           (s = "dropUser" => w.actor # w.user /\ w.actor \in Admins)
    BY <2>3
  <2>5. s \in Stages \ Resting /\ Moves(h, s, w) /\ blind' = blind
    BY <2>3, <2>4, ReadsMove DEF Stages, Resting
  <2>6. s = "newUser" => nextUser' > 1
    <3>1. \A u \in Admins : u < nextUser /\ u > 0 /\ u \in Nat
      BY NextUserType DEF PasswordInv, Admins, ActiveUsers, Users
    <3>2. QED
      BY <2>2, <2>4, <3>1, NextUserType
  <2>7. Admins' = {} => demoted' \/ Usurped' \/ nextUser' = 1
    BY <2>2, <2>5, AdminlessKept
  <2>8. QED
    BY <1>a, <2>2, <2>4, <2>5, <2>6, <2>7, AdminFrame
<1>2. CASE PasswordSaved(h)
  <2>2. /\ Admins' = Admins /\ nextUser' = nextUser /\ demoted' = demoted
        /\ Moves(h, "done", None) /\ "done" \in Stages /\ blind \subseteq blind'
    BY <1>2, PasswordSavedKeeps
  <2>3. Admins' = {} => demoted' \/ Usurped' \/ nextUser' = 1
    BY <2>2, AdminlessKept
  <2>4. QED
    BY <1>a, <2>2, <2>3, AdminFrame
<1>3. CASE UserSaved(h)
  <2> DEFINE w == work[h]
  <2>1. w.user \in UserIds
    BY <1>3 DEF UserSaved, RequestsInv, Holds, UserWork
  <2>2. CASE Refused(h) /\ UNCHANGED accounts
    <3>1. Moves(h, "done", None) /\ blind' = blind /\ "done" \in Stages
      BY <2>2, RefusedMoves DEF Stages, Resting
    <3>2. Admins' = Admins /\ nextUser' = nextUser /\ demoted' = demoted
      BY <2>2 DEF accounts, Admins, ActiveUsers, Users
    <3>3. Admins' = {} => demoted' \/ Usurped' \/ nextUser' = 1
      BY <3>1, <3>2, AdminlessKept
    <3>4. QED
      BY <1>a, <3>1, <3>2, <3>3, AdminFrame
  <2>3. CASE ~(Refused(h) /\ UNCHANGED accounts)
    <3>1. /\ \A u \in UserIds : u # w.user => users'[u] = users[u]
          /\ \E changed : Authority(w.user) \in changed
                            /\ Commits(h, changed, {Authority(w.actor)}, "done", None)
          /\ demoted' = (demoted \/ (Admins # {} /\ Admins' = {}))
          /\ nextUser' = nextUser
      BY <1>3, <2>1, <2>3 DEF UserSaved, AccountsTypeOK
    <3>2. PICK changed : Authority(w.user) \in changed
                            /\ Commits(h, changed, {Authority(w.actor)}, "done", None)
      BY <3>1
    <3>3. /\ Moves(h, "done", None) /\ "done" \in Stages /\ blind \subseteq blind'
          /\ \A k \in Handlers : k # h /\ stage[k] \notin Resting => Authority(w.user) \in stale'[k]
      BY <3>2, Ending
    <3>4. Admins \ Admins' \subseteq {w.user}
      BY <3>1 DEF Admins, ActiveUsers, Users
    <3>5. Admins' = {} => demoted' \/ Usurped' \/ nextUser' = 1
      BY <3>1, <3>3, AdminlessKept
    <3>6. QED
      BY <1>a, <3>1, <3>3, <3>4, <3>5, AdminFrame
  <2>4. QED
    BY <2>2, <2>3
<1>4. CASE UserDeleted(h)
  <2> DEFINE w == work[h]
  <2>1. stage[h] = "dropUser" /\ w.actor \in UserIds /\ w.user \in UserIds
    BY <1>4 DEF UserDeleted, RequestsInv, Holds
  <2>2. /\ users' = [users EXCEPT ![w.user] = None]
        /\ Commits(h, {Authority(w.user)}, {Authority(w.actor)}, "done", None)
        /\ nextUser' = nextUser /\ demoted' = demoted
    BY <1>4 DEF UserDeleted
  <2>3. /\ Moves(h, "done", None) /\ "done" \in Stages
        /\ blind' = blind \union (stale[h] \intersect {Authority(w.actor)})
        /\ \A k \in Handlers : k # h /\ stage[k] \notin Resting => Authority(w.user) \in stale'[k]
    BY <2>2, Ending
  <2>4. Admins' = Admins \ {w.user}
    BY <2>1, <2>2 DEF Admins, ActiveUsers, Users, AccountsTypeOK
  <2>5. Admins' = {} => demoted' \/ Usurped' \/ nextUser' = 1
    <3>1. CASE Admins = {}
      BY <2>2, <2>3, <3>1, AdminlessKept
    <3>2. CASE w.actor \in Admins
      BY <2>1, <2>4, <3>2 DEF AdminInv
    <3>3. CASE Authority(w.actor) \in stale[h]
      BY <2>1, <2>3, <3>3 DEF Usurped
    <3>4. QED
      BY <2>1, <3>1, <3>2, <3>3 DEF AdminInv
  <2>6. QED
    BY <1>a, <2>2, <2>3, <2>4, <2>5, AdminFrame
<1>5. QED
  BY <1>1, <1>2, <1>3, <1>4, AccountKinds, AdminsElsewhere

----------------------------------------------------------------------------
(***************************************************************************)
(* The setup: its founders.                                                *)
(***************************************************************************)

LEMMA FoundersFrame ==
    ASSUME TypeInv, FoundersInv, NEW h \in Handlers, NEW s \in Stages, NEW w, Moves(h, s, w),
           founders' = founders,
           founders # {} /\ ~Usurped' /\ Users # {} => Users' # {},
           Beginning(s, w) => founders = {} \/ Usurped' \/ SetupKey \subseteq stale'[h]
    PROVE  FoundersInv'
<1> SUFFICES ASSUME founders # {}, ~Usurped'
             PROVE  /\ Users' # {}
                    /\ SetupKey \intersect blind' = {} => \E u \in UserIds : founders = {u}
                    /\ \A k \in Handlers :
                          Beginning(stage'[k], work'[k]) => SetupKey \subseteq stale'[k]
  BY DEF FoundersInv, Beginning, SetupKey
<1>1. ~Usurped /\ blind \subseteq blind'
  BY DEF Moves, Usurped
<1>2. ASSUME NEW k \in Handlers, Beginning(stage'[k], work'[k])
      PROVE  SetupKey \subseteq stale'[k]
  <2>1. CASE k = h
    BY <1>2, <2>1 DEF TypeInv, RequestsInv, Moves
  <2>2. CASE k # h
    <3>1. stage'[k] = stage[k] /\ work'[k] = work[k]
      BY <2>2 DEF TypeInv, RequestsInv, Moves
    <3>2. SetupKey \subseteq stale[k]
      BY <1>1, <1>2, <3>1 DEF FoundersInv
    <3>3. stage[k] \notin Resting
      BY <1>2, <3>1 DEF Beginning, Resting
    <3>4. QED
      BY <2>2, <3>2, <3>3 DEF Moves
  <2>3. QED
    BY <2>1, <2>2
<1>3. QED
  BY <1>1, <1>2 DEF FoundersInv

\* A step of anything but the setup.
LEMMA FoundersElsewhere ==
    ASSUME TypeInv, FoundersInv, NEW h \in Handlers, NEW S \in SUBSET Stages,
           S \intersect {"setup", "flushed", "seed"} = {}, Lands(h, S), founders' = founders,
           founders # {} /\ ~Usurped' /\ Users # {} => Users' # {}
    PROVE  FoundersInv'
<1>1. PICK s \in S : \E w : Moves(h, s, w)
  BY DEF Lands
<1>2. PICK w : Moves(h, s, w)
  BY <1>1
<1>3. QED
  BY <1>2, FoundersFrame DEF Beginning

\* No account is lost but by a deletion, and that leaves the one who asked.
LEMMA UsersRemain ==
    ASSUME TypeInv, PasswordInv, AdminInv, NEW h \in Handlers, AccountsNext(h), ~Usurped',
           Users # {}
    PROVE  Users' # {}
<1> USE DEF TypeInv
<1>1. CASE Quiet(h)
  BY <1>1 DEF Quiet, Users
<1>2. CASE Joins(h)
  <2>1. PICK row \in UserRows : users' = [users EXCEPT ![nextUser] = row]
    BY <1>2 DEF Joins
  <2>2. nextUser \in UserIds /\ users'[nextUser] # None
    BY <1>2, <2>1, RowAssumption DEF Joins, AccountsTypeOK
  <2>3. QED
    BY <2>2 DEF Users
<1>3. CASE UserCounted(h) \/ UserChosen(h) \/ PasswordLoaded(h)
  BY <1>3 DEF UserCounted, UserChosen, PasswordLoaded, accounts, Users
<1>4. CASE UserSaved(h)
  BY <1>4, UserSavedType
<1>5. CASE PasswordSaved(h)
  BY <1>5, PasswordSavedKeeps
<1>6. CASE UserDeleted(h)
  <2> DEFINE w == work[h]
  <2>1. stage[h] = "dropUser" /\ w.actor \in UserIds /\ w.user \in UserIds
    BY <1>6 DEF UserDeleted, RequestsInv, Holds
  <2>2. /\ users' = [users EXCEPT ![w.user] = None]
        /\ Commits(h, {Authority(w.user)}, {Authority(w.actor)}, "done", None)
    BY <1>6 DEF UserDeleted
  <2>3. blind' = blind \union (stale[h] \intersect {Authority(w.actor)})
    BY <2>2, Ending
  <2>4. w.actor # w.user /\ w.actor \in Users
    BY <2>1, <2>3 DEF AdminInv, Usurped, Admins, ActiveUsers
  <2>5. users'[w.actor] # None
    BY <2>1, <2>2, <2>4 DEF Users, AccountsTypeOK
  <2>6. QED
    BY <2>1, <2>5 DEF Users
<1>7. QED
  BY <1>1, <1>2, <1>3, <1>4, <1>5, <1>6, AccountKinds

\* The setup's commit: there is no founder yet, or its count was stale.
LEMMA FoundersFound ==
    ASSUME TypeInv, FoundersInv, NEW h \in Handlers, Beginning(stage[h], work[h]),
           stage[h] \in SetupStages, NEW column, NEW saves, NEW next \in {"founded", "done"},
           NEW then, SetupRows(h, column, saves, next, then)
    PROVE  FoundersInv'
<1>1. Founds(h)
  BY RowsFound
<1>2. PICK changed, relied : /\ SetupKey \subseteq changed /\ SetupKey \subseteq relied
                             /\ Commits(h, changed, relied, next, then)
  BY DEF SetupRows
<1> DEFINE w == IF next \in Resting THEN None ELSE then
<1>3. /\ Moves(h, next, w)
      /\ \A k \in Handlers : k # h /\ stage[k] \notin Resting => stale'[k] = stale[k] \union changed
      /\ blind' = blind \union (stale[h] \intersect relied)
  <2>1. next \in Stages \ {"idle"}
    BY DEF Stages, Resting
  <2>2. QED
    BY <1>2, <2>1, CommitsMove DEF TypeInv
<1> SUFFICES ASSUME ~Usurped'
             PROVE  /\ Users' # {}
                    /\ SetupKey \intersect blind' = {} => \E u \in UserIds : founders' = {u}
                    /\ \A k \in Handlers :
                          Beginning(stage'[k], work'[k]) => SetupKey \subseteq stale'[k]
  BY DEF FoundersInv, Beginning, SetupKey
<1>4. Users' # {}
  <2>1. PICK row \in UserRows : users' = [users EXCEPT ![nextUser] = row]
    BY <1>1 DEF Founds
  <2>2. nextUser \in UserIds /\ users'[nextUser] # None
    BY <1>1, <2>1, RowAssumption DEF Founds, TypeInv, AccountsTypeOK
  <2>3. QED
    BY <2>2 DEF Users
<1>5. SetupKey \intersect blind' = {} => \E u \in UserIds : founders' = {u}
  <2>1. CASE founders = {}
    BY <1>1, <2>1 DEF Founds
  <2>2. CASE founders # {}
    <3>1. ~Usurped
      BY <1>3 DEF Usurped
    <3>2. SetupKey \subseteq stale[h]
      BY <2>2, <3>1 DEF FoundersInv
    <3>3. QED
      BY <1>2, <1>3, <3>2 DEF SetupKey
  <2>3. QED
    BY <2>1, <2>2
<1>6. ASSUME NEW k \in Handlers, Beginning(stage'[k], work'[k])
      PROVE  SetupKey \subseteq stale'[k]
  <2>1. k # h
    BY <1>3, <1>6 DEF Moves, TypeInv, RequestsInv, Beginning
  <2>2. stage'[k] = stage[k]
    BY <1>3, <2>1 DEF Moves, TypeInv, RequestsInv
  <2>3. stage[k] \notin Resting
    BY <1>6, <2>2 DEF Beginning, Resting
  <2>4. QED
    BY <1>2, <1>3, <2>1, <2>3
<1>7. QED
  BY <1>4, <1>5, <1>6

LEMMA FoundersStep ==
    ASSUME TypeInv, AccountInv, [Next]_vars
    PROVE  FoundersInv'
<1> USE DEF AccountInv, SetupInv
<1>a. /\ ScopeStages \in SUBSET Stages /\ SettingStages \in SUBSET Stages
      /\ AccountStages \in SUBSET Stages /\ {"done"} \in SUBSET Stages
      /\ ScopeStages \intersect {"setup", "flushed", "seed"} = {}
      /\ SettingStages \intersect {"setup", "flushed", "seed"} = {}
      /\ AccountStages \intersect {"setup", "flushed", "seed"} = {}
      /\ {"done"} \intersect {"setup", "flushed", "seed"} = {}
  BY DEF ScopeStages, SettingStages, AccountStages, Stages, Resting
<1>1. CASE UNCHANGED vars
  BY <1>1 DEF vars, requests, history, accounts, setup, FoundersInv, Users, Usurped, Beginning
<1>2. ASSUME NEW h \in Handlers, ScopesNext(h), UNCHANGED <<settings, accounts, setup>>
      PROVE  FoundersInv'
  BY <1>a, <1>2, ScopesStepType, FoundersElsewhere DEF accounts, setup, Users
<1>3. ASSUME NEW h \in Handlers, SettingsNext(h), UNCHANGED <<accounts, setup>>
      PROVE  FoundersInv'
  BY <1>a, <1>3, SettingsStepType, FoundersElsewhere DEF accounts, setup, Users
<1>4. ASSUME NEW h \in Handlers, AccountsNext(h), UNCHANGED setup
      PROVE  FoundersInv'
  BY <1>a, <1>4, AccountsStepType, UsersRemain, FoundersElsewhere DEF setup
<1>5. ASSUME NEW h \in Handlers, RequestFails(h)
      PROVE  FoundersInv'
  <2>1. Lands(h, {"done"}) /\ UNCHANGED <<accounts, founders>>
    BY <1>5, Landing DEF RequestFails, TypeInv
  <2>2. QED
    BY <1>a, <2>1, FoundersElsewhere DEF accounts, Users
<1>6. ASSUME NEW h \in Handlers, SetupNext(h)
      PROVE  FoundersInv'
  <2> DEFINE w == work[h]
             refused == Refused(h) /\ UNCHANGED <<accounts, founders>>
  <2>1. CASE refused
    <3>1. Lands(h, {"done"})
      BY <2>1, Landing DEF TypeInv
    <3>2. QED
      BY <1>a, <2>1, <3>1, FoundersElsewhere DEF accounts, Users
  <2>2. CASE SetupBegun(h)
    <3>1. PICK v : Reads(h, "setup", v)
      BY <2>2 DEF SetupBegun
    <3>2. Moves(h, "setup", v) /\ "setup" \in Stages /\ blind' = blind
      BY <3>1, ReadsMove DEF TypeInv, Stages, Resting
    <3>3. founders = {} \/ Usurped'
      BY <2>2, <3>2 DEF SetupBegun, Unlocked, FoundersInv, Usurped
    <3>4. QED
      BY <2>2, <3>2, <3>3, FoundersFrame DEF SetupBegun, accounts, setup, Users
  <2>3. CASE (SetupFlushed(h) \/ SetupCounted(h)) /\ ~refused
    <3>1. PICK s \in {"flushed", "seed"} : \E v : Reads(h, s, v) /\
             (Beginning(s, v) => Beginning(stage[h], w))
      <4>1. CASE SetupFlushed(h)
        BY <2>3, <4>1 DEF SetupFlushed, Beginning, setup
      <4>2. CASE SetupCounted(h)
        <5> DEFINE v == [w EXCEPT !.seed = (Agents = {})]
        <5>1. w \in SetupWork
          BY <4>2, SetupHolds DEF SetupCounted, SetupStages
        <5>2. v.founded = w.founded
          BY <5>1 DEF SetupWork
        <5>3. Reads(h, "seed", v)
          BY <4>2 DEF SetupCounted
        <5>4. Beginning("seed", v) => Beginning(stage[h], w)
          BY <4>2, <5>2 DEF SetupCounted, Beginning, SeedsInv
        <5>5. QED
          BY <5>3, <5>4
      <4>3. QED
        BY <2>3, <4>1, <4>2
    <3>2. PICK v : Reads(h, s, v) /\ (Beginning(s, v) => Beginning(stage[h], w))
      BY <3>1
    <3>3. Moves(h, s, v) /\ s \in Stages /\ blind' = blind /\ stale' = stale
      BY <3>1, <3>2, ReadsMove DEF TypeInv, Stages, Resting
    <3>4. UNCHANGED <<accounts, setup>>
      BY <2>3 DEF SetupFlushed, SetupCounted
    <3>5. Beginning(s, v) => founders = {} \/ Usurped' \/ SetupKey \subseteq stale'[h]
      BY <3>2, <3>3 DEF FoundersInv, Usurped
    <3>6. QED
      BY <3>3, <3>4, <3>5, FoundersFrame DEF accounts, setup, Users
  <2>4. CASE SetupMailed(h) /\ ~refused
    <3>1. stage[h] \in SetupStages /\ Beginning(stage[h], w)
      BY <2>4 DEF SetupMailed, SetupStages, Beginning, SeedsInv
    <3>2. \E column, saves, then : SetupRows(h, column, saves, "founded", then)
      BY <2>4 DEF SetupMailed
    <3>3. QED
      BY <3>1, <3>2, FoundersFound
  <2>5. CASE SetupEnds(h) /\ ~refused
    <3>1. stage[h] = "seed" /\ stage[h] \in SetupStages
      BY <2>5 DEF SetupEnds, SetupStages
    <3>2. CASE w.founded
      <4>1. Commits(h, {}, {}, "done", None) /\ UNCHANGED <<accounts, founders>>
        BY <2>5, <3>2 DEF SetupEnds
      <4>2. Lands(h, {"done"})
        BY <4>1, Landing DEF TypeInv
      <4>3. QED
        BY <1>a, <4>1, <4>2, FoundersElsewhere DEF accounts, Users
    <3>3. CASE ~w.founded
      <4>1. SetupRows(h, w.copy, {}, "done", None)
        BY <2>5, <3>3 DEF SetupEnds
      <4>2. QED
        BY <3>1, <3>3, <4>1, FoundersFound DEF Beginning
    <3>4. QED
      BY <3>2, <3>3
  <2>6. QED
    BY <1>6, <2>1, <2>2, <2>3, <2>4, <2>5
       DEF SetupNext, SetupFlushed, SetupMailed, SetupCounted, SetupEnds, setup
<1>7. QED
  BY <1>1, <1>2, <1>3, <1>4, <1>5, <1>6 DEF Next

----------------------------------------------------------------------------
(***************************************************************************)
(* The setup: the profile.                                                 *)
(***************************************************************************)

LEMMA ProfilesFrame ==
    ASSUME TypeInv, ProfilesInv, NEW h \in Handlers, NEW s \in Stages, NEW w, Moves(h, s, w),
           Profiles' = Profiles,
           s \in ProfileStages /\ ~Founding(s, w) /\ w.profile = None =>
               Profiles = {} \/ Row(None) \subseteq stale'[h]
    PROVE  ProfilesInv'
<1>1. ASSUME NEW k \in Handlers, stage'[k] \in ProfileStages,
             ~Founding(stage'[k], work'[k]), work'[k].profile = None
      PROVE  Profiles' = {} \/ Row(None) \subseteq stale'[k]
  <2>1. CASE k = h
    BY <1>1, <2>1 DEF TypeInv, RequestsInv, Moves
  <2>2. CASE k # h
    <3>1. stage'[k] = stage[k] /\ work'[k] = work[k]
      BY <2>2 DEF TypeInv, RequestsInv, Moves
    <3>2. Profiles = {} \/ Row(None) \subseteq stale[k]
      BY <1>1, <3>1 DEF ProfilesInv
    <3>3. stage[k] \notin Resting
      BY <1>1, <3>1 DEF ProfileStages, SetupStages, Resting
    <3>4. QED
      BY <2>2, <3>2, <3>3 DEF Moves
  <2>3. QED
    BY <2>1, <2>2
<1>2. Row(None) \intersect blind' = {} => \A p, q \in Profiles' : p = q
  <2>1. blind \subseteq blind'
    BY DEF Moves
  <2>2. QED
    BY <2>1 DEF ProfilesInv
<1>3. Row(None)' = Row(None)
  BY DEF Row
<1>4. QED
  BY <1>1, <1>2, <1>3 DEF ProfilesInv

LEMMA ProfilesElsewhere ==
    ASSUME TypeInv, ProfilesInv, NEW h \in Handlers, NEW S \in SUBSET Stages,
           S \intersect ProfileStages = {}, Lands(h, S), UNCHANGED settings
    PROVE  ProfilesInv'
<1>1. PICK s \in S : \E w : Moves(h, s, w)
  BY DEF Lands
<1>2. PICK w : Moves(h, s, w)
  BY <1>1
<1>3. Profiles' = Profiles
  BY DEF settings, Profiles
<1>4. QED
  BY <1>2, <1>3, ProfilesFrame

LEMMA PutsProfiles ==
    ASSUME TypeInv, NEW p \in Profiles \union {None}, NEW copy \in Metas, NEW column \in Metas,
           NEW saves, Puts(p, copy, column, saves)
    PROVE  IF p = None THEN \E q : Profiles' = Profiles \union {q} ELSE Profiles' = Profiles
<1> DEFINE q == IF p = None THEN CHOOSE r \in ProfileIds \ Profiles : TRUE ELSE p
           kept == IF p = None THEN column ELSE Kept(profiles[q], copy, column)
<1>1. q \in ProfileIds /\ (p # None => q \in Profiles)
  <2>1. CASE p = None
    BY <2>1 DEF Puts, Profiles
  <2>2. CASE p # None
    BY <2>2 DEF Profiles
  <2>3. QED
    BY <2>1, <2>2
<1>2. kept \in Metas /\ kept # None
  BY <1>1, EntryAssumption DEF TypeInv, SettingsInv, SettingsTypeOK, Profiles, Kept, Metas
<1>3. profiles' = [profiles EXCEPT ![q] = kept]
  BY <1>1 DEF Puts, TypeInv, SettingsInv, SettingsTypeOK
<1>4. Profiles' = Profiles \union {q}
  <2> HIDE DEF q, kept
  <2>1. QED
    BY <1>1, <1>2, <1>3 DEF TypeInv, SettingsInv, SettingsTypeOK, Profiles
<1>5. CASE p = None
  BY <1>4, <1>5
<1>6. CASE p # None
  BY <1>1, <1>4, <1>6
<1>7. QED
  BY <1>5, <1>6

\* A commit that writes the profile, from a request that had read it.
LEMMA ProfilesWritten ==
    ASSUME TypeInv, ProfilesInv, NEW h \in Handlers,
           stage[h] \in ProfileStages, ~Founding(stage[h], work[h]),
           NEW copy \in Metas, NEW column \in Metas, NEW saves,
           Puts(work[h].profile, copy, column, saves),
           NEW changed, NEW relied, NEW next \in {"done", "register", "founded"}, NEW then,
           Commits(h, changed, relied, next, then), next = "founded" => then.founded,
           work[h].profile = None => Row(None) \subseteq changed /\ Row(None) \subseteq relied
    PROVE  ProfilesInv'
<1> DEFINE p == work[h].profile
           w == IF next \in Resting THEN None ELSE then
<1>1. p \in Profiles \union {None}
  BY DEF TypeInv, SettingsInv
<1>2. next \in Stages \ {"idle"}
  BY DEF Stages, Resting
<1>3. /\ Moves(h, next, w)
      /\ \A k \in Handlers : k # h /\ stage[k] \notin Resting => stale'[k] = stale[k] \union changed
      /\ blind' = blind \union (stale[h] \intersect relied)
  BY <1>2, CommitsMove DEF TypeInv
<1>4. next \in ProfileStages => Founding(next, w)
  BY DEF ProfileStages, SetupStages, Founding, Resting
<1>5. CASE p # None
  <2>1. Profiles' = Profiles
    BY <1>1, <1>5, PutsProfiles
  <2>2. QED
    BY <1>2, <1>3, <1>4, <2>1, ProfilesFrame
<1>6. CASE p = None
  <2>1. PICK q : Profiles' = Profiles \union {q}
    BY <1>1, <1>6, PutsProfiles
  <2>2. Row(None) \intersect blind' = {} => \A r, t \in Profiles' : r = t
    <3>1. CASE Profiles = {}
      BY <2>1, <3>1
    <3>2. CASE Row(None) \subseteq stale[h]
      BY <1>3, <1>6, <3>2 DEF Row
    <3>3. QED
      BY <1>6, <3>1, <3>2 DEF ProfilesInv
  <2>3. ASSUME NEW k \in Handlers, stage'[k] \in ProfileStages, ~Founding(stage'[k], work'[k])
        PROVE  Row(None) \subseteq stale'[k]
    <3>1. k # h
      BY <1>3, <1>4, <2>3 DEF TypeInv, RequestsInv, Moves
    <3>2. stage'[k] = stage[k]
      BY <1>3, <3>1 DEF TypeInv, RequestsInv, Moves
    <3>3. stage[k] \notin Resting
      BY <2>3, <3>2 DEF ProfileStages, SetupStages, Resting
    <3>4. QED
      BY <1>3, <1>6, <3>1, <3>3
  <2>4. Row(None)' = Row(None)
    BY DEF Row
  <2>5. QED
    BY <2>2, <2>3, <2>4 DEF ProfilesInv
<1>7. QED
  BY <1>5, <1>6

LEMMA ProfilesSettings ==
    ASSUME TypeInv, ProfilesInv, NEW h \in Handlers, SettingsNext(h)
    PROVE  ProfilesInv'
<1> USE DEF TypeInv
<1>1. CASE SettingLoaded(h) \/ ProfileLoaded(h) \/ ConfigLoaded(h)
  <2>1. UNCHANGED settings
    BY <1>1 DEF SettingLoaded, ProfileLoaded, ConfigLoaded
  <2>2. Profiles' = Profiles
    BY <2>1 DEF settings, Profiles
  <2>3. PICK s \in SettingStages : \E w : Moves(h, s, w) /\
           (s \in ProfileStages => w.profile \in Found)
    <3>1. CASE SettingLoaded(h)
      <4>1. PICK w : Reads(h, "save", w) /\ w.profile \in Found
        BY <3>1 DEF SettingLoaded
      <4>2. QED
        BY <4>1, ReadsMove DEF Stages, Resting, SettingStages
    <3>2. CASE ProfileLoaded(h)
      <4>1. PICK w : Reads(h, "profile", w) /\ w.profile \in Found
        BY <3>2 DEF ProfileLoaded
      <4>2. QED
        BY <4>1, ReadsMove DEF Stages, Resting, SettingStages
    <3>3. CASE ConfigLoaded(h)
      <4>1. PICK p \in Found :
              Goes(h, IF SecretMissing(p) THEN "secret" ELSE "done",
                   [profile |-> p, copy |-> ColumnOf(p)])
        BY <3>3 DEF ConfigLoaded
      <4> DEFINE s == IF SecretMissing(p) THEN "secret" ELSE "done"
                 w == IF SecretMissing(p) THEN [profile |-> p, copy |-> ColumnOf(p)] ELSE None
      <4>2. Moves(h, s, w)
        BY <3>3, <4>1 DEF ConfigLoaded, Goes, Moves, RequestsInv, Resting
      <4>3. s \in ProfileStages => w.profile \in Found
        BY DEF ProfileStages, SetupStages
      <4>4. s \in SettingStages
        BY DEF SettingStages
      <4> HIDE DEF s, w
      <4>5. QED
        BY <4>2, <4>3, <4>4
    <3>4. QED
      BY <1>1, <3>1, <3>2, <3>3
  <2>4. PICK w : Moves(h, s, w) /\ (s \in ProfileStages => w.profile \in Found)
    BY <2>3
  <2>5. w.profile \in Found /\ w.profile = None => Profiles = {}
    BY EntryAssumption DEF Found, Profiles, ProfileIds
  <2>6. s \in Stages
    BY DEF SettingStages, Stages, Resting
  <2>7. QED
    BY <2>2, <2>4, <2>5, <2>6, ProfilesFrame
<1>2. CASE SettingSaved(h) \/ SecretMade(h)
  <2> DEFINE w == work[h]
  <2>1. stage[h] \in ProfileStages /\ ~Founding(stage[h], w)
    BY <1>2 DEF SettingSaved, SecretMade, ProfileStages, Founding
  <2>2. \E s, entry : \E next \in {"done", "register"} :
           Written(w.copy, s, entry) \in Metas /\ w.copy \in Metas
           /\ Stores(h, w.profile, w.copy, s, entry, next)
    <3>1. CASE SettingSaved(h)
      <4>1. w \in SaveWork
        BY <3>1 DEF SettingSaved, RequestsInv, Holds
      <4>2. w.copy \in Metas /\ w.section \in Sections /\ w.ask \in Asks(w.section)
        BY <4>1 DEF SaveWork
      <4>3. Resolved(w.copy, w.section, w.ask) \in Entries
        BY <3>1, <4>2, ResolvedType DEF SettingSaved, SettingsInv
      <4>4. Written(w.copy, w.section, Resolved(w.copy, w.section, w.ask)) \in Metas
        BY <4>2, <4>3, EntryTypes
      <4>5. \E bot \in BOOLEAN :
               Stores(h, w.profile, w.copy, w.section, Resolved(w.copy, w.section, w.ask),
                      IF bot THEN "register" ELSE "done")
        BY <3>1 DEF SettingSaved
      <4>6. QED
        BY <4>2, <4>4, <4>5
    <3>2. CASE SecretMade(h)
      <4> DEFINE entry == [w.copy["channels"] EXCEPT !.on = "set", !.secret = lastSecret + 1]
      <4>1. w.copy \in Metas
        BY <3>2 DEF SecretMade, RequestsInv, Holds
      <4>2. lastSecret + 1 \in 0..MaxSecrets
        BY <3>2, SettingsAssumption DEF SecretMade, SettingsInv, SettingsTypeOK
      <4>3. "channels" \in Sections /\ w.copy["channels"] \in Entries
        BY <4>1, SectionNames DEF Metas
      <4>4. entry \in Entries
        BY <4>2, <4>3 DEF Entries
      <4>5. Written(w.copy, "channels", entry) \in Metas
        BY <4>1, <4>3, <4>4, EntryTypes
      <4>6. Stores(h, w.profile, w.copy, "channels", entry, "done")
        BY <3>2 DEF SecretMade
      <4>7. QED
        BY <4>1, <4>5, <4>6
    <3>3. QED
      BY <1>2, <3>1, <3>2
  <2>3. PICK s, entry : \E next \in {"done", "register"} :
           Written(w.copy, s, entry) \in Metas /\ w.copy \in Metas
           /\ Stores(h, w.profile, w.copy, s, entry, next)
    BY <2>2
  <2>4. PICK next \in {"done", "register"} : Stores(h, w.profile, w.copy, s, entry, next)
    BY <2>3
  <2> DEFINE column == Written(w.copy, s, entry)
             changed == IF w.profile # None /\ column = w.copy THEN {} ELSE Row(w.profile)
  <2>5. /\ Puts(w.profile, w.copy, column, {s})
        /\ Commits(h, changed, Row(w.profile), next, None)
    BY <2>4 DEF Stores
  <2>6. w.profile = None => Row(None) \subseteq changed /\ Row(None) \subseteq Row(w.profile)
    OBVIOUS
  <2>7. column \in Metas /\ w.copy \in Metas
    BY <2>3
  <2>8. next \in {"done", "register", "founded"} /\ next # "founded"
    BY <2>4
  <2> HIDE DEF column, changed
  <2>9. QED
    BY <2>1, <2>5, <2>6, <2>7, <2>8, ProfilesWritten
<1>3. CASE SettingRefused(h)
  <2>1. Lands(h, {"done"}) /\ UNCHANGED settings
    BY <1>3, Landing DEF SettingRefused
  <2>2. {"done"} \in SUBSET Stages /\ {"done"} \intersect ProfileStages = {}
    BY DEF Stages, Resting, ProfileStages, SetupStages
  <2>3. QED
    BY <2>1, <2>2, ProfilesElsewhere
<1>4. CASE ProfileSaved(h)
  <2>1. stage[h] \in ProfileStages /\ ~Founding(stage[h], work[h])
    BY <1>4 DEF ProfileSaved, ProfileStages, Founding
  <2>2. CASE work[h].profile = None
    <3>1. /\ Puts(work[h].profile, Blank, Blank, {})
          /\ Commits(h, Row(None), Row(None), "done", None)
      BY <1>4, <2>2 DEF ProfileSaved
    <3>2. Blank \in Metas
      BY EntryTypes
    <3>3. QED
      BY <2>1, <3>1, <3>2, ProfilesWritten
  <2>3. CASE work[h].profile # None
    <3>1. /\ Commits(h, {}, {}, "done", None) /\ UNCHANGED settings
      BY <1>4, <2>3 DEF ProfileSaved, settings
    <3>2. Lands(h, {"done"})
      BY <3>1, Landing
    <3>3. {"done"} \in SUBSET Stages /\ {"done"} \intersect ProfileStages = {}
      BY DEF Stages, Resting, ProfileStages, SetupStages
    <3>4. QED
      BY <3>1, <3>2, <3>3, ProfilesElsewhere
  <2>4. QED
    BY <2>2, <2>3
<1>5. QED
  BY <1>1, <1>2, <1>3, <1>4 DEF SettingsNext

\* The setup's own: what it reads and what it writes of the profile.
LEMMA ProfilesSetup ==
    ASSUME TypeInv, ProfilesInv, SeedsInv, NEW h \in Handlers, SetupNext(h)
    PROVE  ProfilesInv'
<1> USE DEF TypeInv
<1> DEFINE w == work[h]
           refused == Refused(h) /\ UNCHANGED settings
<1>a. /\ {"done"} \in SUBSET Stages /\ {"done"} \intersect ProfileStages = {}
      /\ {"setup"} \in SUBSET Stages /\ {"setup"} \intersect ProfileStages = {}
  BY DEF Stages, Resting, ProfileStages, SetupStages
<1>1. CASE refused
  <2>1. Lands(h, {"done"})
    BY <1>1, Landing
  <2>2. QED
    BY <1>a, <1>1, <2>1, ProfilesElsewhere
<1>2. CASE SetupBegun(h)
  <2>1. PICK v : Reads(h, "setup", v)
    BY <1>2 DEF SetupBegun
  <2>2. Moves(h, "setup", v)
    BY <2>1, ReadsMove DEF Stages, Resting
  <2>3. Profiles' = Profiles
    BY <1>2 DEF SetupBegun, settings, Profiles
  <2>4. QED
    BY <1>a, <2>2, <2>3, ProfilesFrame
<1>3. CASE SetupFlushed(h) /\ ~refused
  <2>1. PICK p \in Found : \E v : Reads(h, "flushed", v) /\ v.profile = p
    BY <1>3 DEF SetupFlushed
  <2>2. PICK v : Reads(h, "flushed", v) /\ v.profile = p
    BY <2>1
  <2>3. Moves(h, "flushed", v) /\ "flushed" \in Stages
    BY <2>2, ReadsMove DEF Stages, Resting
  <2>4. Profiles' = Profiles
    BY <1>3 DEF SetupFlushed, settings, Profiles
  <2>5. v.profile = None => Profiles = {}
    BY <2>1, <2>2, EntryAssumption DEF Found, Profiles, ProfileIds
  <2>6. QED
    BY <2>3, <2>4, <2>5, ProfilesFrame
<1>4. CASE SetupCounted(h)
  <2> DEFINE v == [w EXCEPT !.seed = (Agents = {})]
  <2>1. w \in SetupWork /\ stage[h] \in ProfileStages
    BY <1>4, SetupHolds DEF SetupCounted, SetupStages, ProfileStages
  <2>2. v.founded = w.founded /\ v.profile = w.profile
    BY <2>1 DEF SetupWork
  <2>3. Moves(h, "seed", v) /\ "seed" \in Stages /\ stale' = stale
    BY <1>4, ReadsMove DEF SetupCounted, Stages, Resting
  <2>4. Profiles' = Profiles
    BY <1>4 DEF SetupCounted, settings, Profiles
  <2>5. ~Founding("seed", v) => ~Founding(stage[h], w)
    BY <2>2 DEF Founding
  <2> HIDE DEF v
  <2>6. QED
    BY <2>1, <2>2, <2>3, <2>4, <2>5, ProfilesFrame DEF ProfilesInv
<1>5. CASE \/ SetupMailed(h) /\ ~refused
           \/ SetupEnds(h) /\ ~refused /\ ~w.founded
  <2>1. /\ stage[h] \in SetupStages /\ stage[h] \in ProfileStages
        /\ ~Founding(stage[h], w)
    BY <1>5 DEF SetupMailed, SetupEnds, SetupStages, ProfileStages, Founding
  <2>2. w \in SetupWork /\ w.copy \in Metas
    BY <2>1, SetupHolds DEF SetupWork
  <2>3. \E column \in Metas, next \in {"done", "founded"} : \E saves, then :
           SetupRows(h, column, saves, next, then) /\ (next = "founded" => then.founded)
    <3>1. CASE SetupMailed(h)
      <4> DEFINE entry == Resolved(w.copy, "email", w.email)
                 then == [w EXCEPT !.founded = TRUE]
      <4>1. w.email \in Asks("email") /\ "email" \in Sections
        BY <2>2, SectionNames DEF SetupWork
      <4>2. entry.secret <= MaxSecrets
        BY <4>1, SettingsAssumption DEF Resolved, NoEntry
      <4>3. entry \in Entries
        BY <2>2, <4>1, <4>2, ResolvedType DEF SettingsInv
      <4>4. Written(w.copy, "email", entry) \in Metas
        BY <2>2, <4>1, <4>3, EntryTypes
      <4>5. then.founded
        BY <2>2 DEF SetupWork
      <4>6. SetupRows(h, Written(w.copy, "email", entry), {"email"}, "founded", then)
        <5>1. SetupMailed(h) /\ ~refused
          BY <1>5, <3>1
        <5>2. QED
          BY <5>1 DEF SetupMailed
      <4> HIDE DEF entry, then
      <4>7. QED
        BY <4>4, <4>5, <4>6
    <3>2. CASE SetupEnds(h) /\ ~refused /\ ~w.founded
      <4>1. SetupRows(h, w.copy, {}, "done", None)
        BY <3>2 DEF SetupEnds
      <4>2. QED
        BY <2>2, <4>1
    <3>3. QED
      BY <1>5, <3>1, <3>2
  <2>4. PICK column \in Metas, next \in {"done", "founded"} : \E saves, then :
           SetupRows(h, column, saves, next, then) /\ (next = "founded" => then.founded)
    BY <2>3
  <2>5. PICK saves, then :
           SetupRows(h, column, saves, next, then) /\ (next = "founded" => then.founded)
    BY <2>4
  <2> DEFINE changed == IF w.profile # None /\ column = w.copy THEN {} ELSE Row(w.profile)
  <2>6. /\ Puts(w.profile, w.copy, column, saves)
        /\ Commits(h, SetupKey \union changed, SetupKey \union Row(w.profile), next, then)
    BY <2>5 DEF SetupRows
  <2>7. w.profile = None => /\ Row(None) \subseteq SetupKey \union changed
                            /\ Row(None) \subseteq SetupKey \union Row(w.profile)
    OBVIOUS
  <2>8. next \in {"done", "register", "founded"}
    BY <2>4
  <2> HIDE DEF changed
  <2>9. QED
    BY <2>1, <2>2, <2>5, <2>6, <2>7, <2>8, ProfilesWritten
<1>6. CASE SetupEnds(h) /\ ~refused /\ w.founded
  <2>1. Commits(h, {}, {}, "done", None) /\ UNCHANGED settings
    BY <1>6 DEF SetupEnds
  <2>2. Lands(h, {"done"})
    BY <2>1, Landing
  <2>3. QED
    BY <1>a, <2>1, <2>2, ProfilesElsewhere
<1>7. QED
  BY <1>1, <1>2, <1>3, <1>4, <1>5, <1>6 DEF SetupNext

LEMMA ProfilesStep ==
    ASSUME TypeInv, AccountInv, [Next]_vars
    PROVE  ProfilesInv'
<1> USE DEF AccountInv, SetupInv
<1>a. /\ ScopeStages \in SUBSET Stages /\ ScopeStages \intersect ProfileStages = {}
      /\ AccountStages \in SUBSET Stages /\ AccountStages \intersect ProfileStages = {}
      /\ {"done"} \in SUBSET Stages /\ {"done"} \intersect ProfileStages = {}
  BY DEF ScopeStages, AccountStages, Stages, Resting, ProfileStages, SetupStages
<1>1. CASE UNCHANGED vars
  BY <1>1 DEF vars, requests, history, settings, ProfilesInv, Profiles, Row, Founding
<1>2. ASSUME NEW h \in Handlers, ScopesNext(h), UNCHANGED <<settings, accounts, setup>>
      PROVE  ProfilesInv'
  BY <1>a, <1>2, ScopesStepType, ProfilesElsewhere
<1>3. ASSUME NEW h \in Handlers, AccountsNext(h), UNCHANGED setup
      PROVE  ProfilesInv'
  <2>1. UNCHANGED settings
    BY <1>3 DEF AccountsNext, UserCounted, UserInserted, SignOnRead, SignedOn, UserLoaded,
                UserSaved, UserChosen, UserDeleted, LinkSent, PasswordLoaded, PasswordSaved
  <2>2. QED
    BY <1>a, <1>3, <2>1, AccountsStepType, ProfilesElsewhere
<1>4. ASSUME NEW h \in Handlers, RequestFails(h)
      PROVE  ProfilesInv'
  <2>1. Lands(h, {"done"}) /\ UNCHANGED settings
    BY <1>4, Landing DEF RequestFails, TypeInv
  <2>2. QED
    BY <1>a, <2>1, ProfilesElsewhere
<1>5. QED
  BY <1>1, <1>2, <1>3, <1>4, ProfilesSettings, ProfilesSetup DEF Next

----------------------------------------------------------------------------
(***************************************************************************)
(* The setup: the first agent.                                             *)
(***************************************************************************)

LEMMA SeedsFrame ==
    ASSUME TypeInv, SeedsInv, NEW h \in Handlers, NEW s \in Stages, NEW w, Moves(h, s, w),
           nextAgent' \in Nat, nextAgent <= nextAgent',
           \A a \in Agents' : a < nextAgent',
           s = "flushed" => ~w.founded, s = "founded" => w.founded,
           s = "seed" /\ ~w.seed => nextAgent' > 1,
           halved => halved',
           founders' # {} /\ ~halved' => \/ nextAgent' > 1 \/ Founding(s, w)
                                         \/ founders # {} /\ ~Founding(stage[h], work[h])
    PROVE  SeedsInv'
<1>1. nextAgent \in Nat
  BY ScopeAssumption, Sequels DEF TypeInv, ScopesInv, ScopesTypeOK
<1>2. \A k \in Handlers : IF k = h THEN stage'[k] = s /\ work'[k] = w
                          ELSE stage'[k] = stage[k] /\ work'[k] = work[k]
  BY DEF TypeInv, RequestsInv, Moves
<1>3. \A k \in Handlers :
          /\ stage'[k] = "flushed" => ~work'[k].founded
          /\ stage'[k] = "founded" => work'[k].founded
          /\ stage'[k] = "seed" /\ ~work'[k].seed => nextAgent' > 1
  BY <1>1, <1>2 DEF SeedsInv
<1>4. ASSUME founders' # {}, ~halved'
      PROVE  nextAgent' > 1 \/ \E k \in Handlers : Founding(stage'[k], work'[k])
  <2>1. CASE Founding(s, w)
    BY <1>2, <2>1
  <2>2. CASE founders # {} /\ ~Founding(stage[h], work[h])
    <3>1. nextAgent > 1 \/ \E k \in Handlers \ {h} : Founding(stage[k], work[k])
      BY <1>4, <2>2 DEF SeedsInv
    <3>2. QED
      BY <1>1, <1>2, <3>1
  <2>3. QED
    BY <1>4, <2>1, <2>2
<1>5. QED
  BY <1>3, <1>4 DEF SeedsInv, Founding

LEMMA SeedsElsewhere ==
    ASSUME TypeInv, SeedsInv, NEW h \in Handlers, NEW S \in SUBSET Stages,
           S \intersect SetupStages = {}, Lands(h, S), UNCHANGED <<founders, halved>>,
           stage[h] \notin SetupStages,
           nextAgent' \in Nat, nextAgent <= nextAgent', \A a \in Agents' : a < nextAgent'
    PROVE  SeedsInv'
<1>1. PICK s \in S : \E w : Moves(h, s, w)
  BY DEF Lands
<1>2. PICK w : Moves(h, s, w)
  BY <1>1
<1>3. s \notin {"flushed", "founded", "seed"} /\ ~Founding(stage[h], work[h])
  BY <1>1 DEF SetupStages, Founding
<1>4. QED
  BY <1>2, <1>3, SeedsFrame

LEMMA AgentsNumbered ==
    ASSUME TypeInv, SeedsInv, NEW h \in Handlers, ScopesNext(h)
    PROVE  nextAgent' \in Nat /\ nextAgent <= nextAgent' /\ \A a \in Agents' : a < nextAgent'
<1> USE DEF TypeInv, ScopesInv, ScopesTypeOK
<1>1. nextAgent \in Nat /\ \A a \in AgentIds : a \in Nat
  BY ScopeAssumption, Sequels
<1>2. CASE AgentInserted(h)
  <2>1. nextAgent' = nextAgent + 1 /\ \A a \in AgentIds : a # nextAgent => agents'[a] = agents[a]
    BY <1>2 DEF AgentInserted
  <2>2. QED
    BY <1>1, <2>1 DEF SeedsInv, Agents
<1>3. CASE ~AgentInserted(h)
  <2>1. nextAgent' = nextAgent
    BY <1>3 DEF ScopesNext, AgentCounted, AgentLoaded, AgentSaved, AgentDeleted, GroupCreated,
                GroupUpdated, GroupDeleted, DocLoaded, DocSaved, DocDeleted, DocCreated, scopes
  <2>2. Agents' \subseteq Agents
    <3>1. CASE AgentSaved(h)
      BY <3>1 DEF AgentSaved, AgentRefused, Agents, scopes
    <3>2. CASE AgentDeleted(h)
      BY <3>2 DEF AgentDeleted, Agents
    <3>3. CASE GroupDeleted(h)
      BY <3>3 DEF GroupDeleted, Agents
    <3>4. CASE UNCHANGED agents
      BY <3>4 DEF Agents
    <3>5. QED
      BY <1>3, <3>1, <3>2, <3>3, <3>4
         DEF ScopesNext, AgentCounted, AgentLoaded, GroupCreated, GroupUpdated,
             DocLoaded, DocSaved, DocDeleted, DocCreated, scopes
  <2>3. QED
    BY <1>1, <2>1, <2>2 DEF SeedsInv
<1>4. QED
  BY <1>2, <1>3

LEMMA SeedsSetup ==
    ASSUME TypeInv, SeedsInv, NEW h \in Handlers, SetupNext(h)
    PROVE  SeedsInv'
<1> USE DEF TypeInv
<1> DEFINE w == work[h]
           refused == Refused(h) /\ UNCHANGED <<scopes, setup>>
<1>a. nextAgent \in Nat /\ \A a \in AgentIds : a \in Nat /\ a > 0
  BY ScopeAssumption, Sequels DEF ScopesInv, ScopesTypeOK, Numbered
<1>b. UNCHANGED scopes =>
         nextAgent' \in Nat /\ nextAgent <= nextAgent' /\ \A a \in Agents' : a < nextAgent'
  BY <1>a DEF scopes, SeedsInv, Agents
<1>c. Agents # {} => nextAgent > 1
  <2>1. \A a \in Agents : a < nextAgent /\ a \in Nat /\ a > 0
    BY <1>a DEF SeedsInv, Agents
  <2>2. QED
    BY <1>a, <2>1
\* Refused before the account is committed, or for a slug that is taken.
<1>1. CASE refused
  <2>1. Moves(h, "done", None) /\ "done" \in Stages
    BY <1>1, RefusedMoves DEF Stages, Resting
  <2>2. Founding(stage[h], w) => nextAgent > 1
    <3>1. CASE SetupEnds(h) /\ w.founded
      <4>1. (w.seed /\ primary # None /\ agents[primary] # None) \/ ~w.seed
        BY <1>a, <1>1, <3>1 DEF SetupEnds, scopes
      <4>2. w.seed => primary \in Agents
        BY <4>1 DEF SetupTypeOK, Agents
      <4>3. QED
        BY <1>c, <3>1, <4>1, <4>2 DEF SetupEnds, SeedsInv
    <3>2. CASE ~(SetupEnds(h) /\ w.founded)
      <4>1. CASE SetupCounted(h)
        BY <1>1, <4>1 DEF SetupCounted, Reads, Refused, Goes, RequestsInv
      <4>2. CASE ~SetupCounted(h)
        BY <1>1, <3>2, <4>2
           DEF SetupNext, SetupBegun, SetupFlushed, SetupMailed, SetupEnds, Founding, Serves,
               SeedsInv
      <4>3. QED
        BY <4>1, <4>2
    <3>3. QED
      BY <3>1, <3>2
  <2>3. UNCHANGED <<scopes, setup>>
    BY <1>1
  <2>4. nextAgent' = nextAgent /\ founders' = founders /\ halved' = halved
    BY <2>3 DEF scopes, setup
  <2>5. QED
    BY <1>b, <2>1, <2>2, <2>3, <2>4, SeedsFrame
<1>2. CASE SetupBegun(h)
  <2>1. PICK v : Reads(h, "setup", v)
    BY <1>2 DEF SetupBegun
  <2>2. Moves(h, "setup", v) /\ "setup" \in Stages
    BY <2>1, ReadsMove DEF Stages, Resting
  <2>3. ~Founding(stage[h], w) /\ UNCHANGED <<scopes, setup>>
    BY <1>2 DEF SetupBegun, Serves, Founding
  <2>4. QED
    BY <1>b, <2>2, <2>3, SeedsFrame DEF setup
<1>3. CASE SetupFlushed(h) /\ ~refused
  <2>0. ~Refused(h)
    BY <1>3 DEF SetupFlushed
  <2> DEFINE held(p) == [address |-> w.address, email |-> w.email, profile |-> p,
                         copy |-> ColumnOf(p), founded |-> FALSE, seed |-> FALSE]
  <2>a. PICK p \in Found : Reads(h, "flushed", held(p))
    BY <1>3, <2>0 DEF SetupFlushed
  <2>b. ~held(p).founded
    OBVIOUS
  <2>1. PICK v : Reads(h, "flushed", v) /\ ~v.founded
    BY <2>a, <2>b
  <2>2. Moves(h, "flushed", v) /\ "flushed" \in Stages
    BY <2>1, ReadsMove DEF Stages, Resting
  <2>3. ~Founding(stage[h], w) /\ UNCHANGED <<scopes, setup>>
    BY <1>3 DEF SetupFlushed, Founding
  <2>4. QED
    BY <1>b, <2>1, <2>2, <2>3, SeedsFrame DEF setup
<1>4. CASE SetupCounted(h)
  <2> DEFINE v == [w EXCEPT !.seed = (Agents = {})]
  <2>1. w \in SetupWork
    BY <1>4, SetupHolds DEF SetupCounted, SetupStages
  <2>2. v.founded = w.founded /\ (~v.seed => Agents # {})
    BY <2>1 DEF SetupWork
  <2>3. Moves(h, "seed", v) /\ "seed" \in Stages
    BY <1>4, ReadsMove DEF SetupCounted, Stages, Resting
  <2>4. UNCHANGED <<scopes, setup>>
    BY <1>4 DEF SetupCounted
  <2>5. nextAgent' = nextAgent /\ founders' = founders /\ halved' = halved
    BY <2>4 DEF scopes, setup
  <2>6. ~v.seed => nextAgent' > 1
    BY <1>c, <2>2, <2>5
  <2>7. Founding(stage[h], w) => Founding("seed", v)
    BY <2>2 DEF Founding
  <2> HIDE DEF v
  <2>8. QED
    BY <1>b, <2>3, <2>4, <2>5, <2>6, <2>7, SeedsFrame
<1>5. CASE SetupMailed(h) /\ ~refused
  <2> DEFINE then == [w EXCEPT !.founded = TRUE]
  <2>1. CASE Refused(h)
    BY <1>5, <2>1 DEF SetupMailed, setup, SetupRows, Commits, Goes, Refused, RequestsInv
  <2>2. CASE ~Refused(h)
    <3>1. \E column, saves : SetupRows(h, column, saves, "founded", then)
      BY <1>5, <2>2 DEF SetupMailed
    <3>2. \E changed, relied : Commits(h, changed, relied, "founded", then)
      BY <3>1 DEF SetupRows
    <3>3. Moves(h, "founded", then) /\ "founded" \in Stages
      BY <3>2, CommitsMove DEF Stages, Resting
    <3>4. w \in SetupWork
      BY <1>5, SetupHolds DEF SetupMailed, SetupStages
    <3>5. then.founded
      BY <3>4 DEF SetupWork
    <3>6. UNCHANGED <<scopes, halved>>
      BY <1>5 DEF SetupMailed
    <3>7. Founding("founded", then)
      BY <3>5 DEF Founding
    <3> HIDE DEF then
    <3>8. QED
      BY <1>b, <3>3, <3>5, <3>6, <3>7, SeedsFrame
  <2>3. QED
    BY <2>1, <2>2
<1>6. CASE SetupEnds(h) /\ ~refused
  <2>1. stage[h] = "seed" /\ halved' = halved
    BY <1>6 DEF SetupEnds
  <2>2. Moves(h, "done", None) /\ "done" \in Stages
    <3>1. \/ Refused(h)
          \/ \E changed, relied : Commits(h, changed, relied, "done", None)
      BY <1>6 DEF SetupEnds, SetupRows
    <3>2. QED
      BY <3>1, RefusedMoves, Ending DEF Stages, Resting
  <2>3. \/ w.seed /\ /\ nextAgent \in AgentIds /\ nextAgent' = nextAgent + 1
                     /\ \A a \in AgentIds : a # nextAgent => agents'[a] = agents[a]
        \/ ~w.seed /\ UNCHANGED scopes
    BY <1>6 DEF SetupEnds, setup, ScopesInv, ScopesTypeOK
  <2>4. CASE w.seed
    <3>1. nextAgent' \in Nat /\ nextAgent <= nextAgent' /\ \A a \in Agents' : a < nextAgent'
      BY <1>a, <2>3, <2>4 DEF SeedsInv, Agents
    <3>2. nextAgent' > 1
      BY <1>a, <2>3, <2>4
    <3>3. QED
      BY <2>1, <2>2, <3>1, <3>2, SeedsFrame
  <2>5. CASE ~w.seed
    <3>1. UNCHANGED scopes /\ nextAgent' > 1
      BY <2>1, <2>3, <2>5 DEF SeedsInv, scopes
    <3>2. QED
      BY <1>b, <2>1, <2>2, <3>1, SeedsFrame
  <2>6. QED
    BY <2>4, <2>5
<1>7. QED
  BY <1>1, <1>2, <1>3, <1>4, <1>5, <1>6 DEF SetupNext

LEMMA SeedsStep ==
    ASSUME TypeInv, AccountInv, [Next]_vars
    PROVE  SeedsInv'
<1> USE DEF AccountInv, SetupInv
<1>a. /\ ScopeStages \in SUBSET Stages /\ ScopeStages \intersect SetupStages = {}
      /\ SettingStages \in SUBSET Stages /\ SettingStages \intersect SetupStages = {}
      /\ AccountStages \in SUBSET Stages /\ AccountStages \intersect SetupStages = {}
  BY DEF ScopeStages, SettingStages, AccountStages, Stages, Resting, SetupStages
<1>b. UNCHANGED scopes =>
         nextAgent' \in Nat /\ nextAgent <= nextAgent' /\ \A a \in Agents' : a < nextAgent'
  <2>1. nextAgent \in Nat
    BY ScopeAssumption, Sequels DEF TypeInv, ScopesInv, ScopesTypeOK
  <2>2. QED
    BY <2>1 DEF scopes, SeedsInv, Agents
<1>1. CASE UNCHANGED vars
  BY <1>1 DEF vars, requests, scopes, setup, SeedsInv, Agents, Founding
<1>2. ASSUME NEW h \in Handlers, ScopesNext(h), UNCHANGED <<settings, accounts, setup>>
      PROVE  SeedsInv'
  <2>1. stage[h] \notin SetupStages
    BY <1>2 DEF ScopesNext, AgentCounted, AgentInserted, AgentLoaded, AgentSaved, AgentDeleted,
                GroupCreated, GroupUpdated, GroupDeleted, DocLoaded, DocSaved, DocDeleted,
                DocCreated, Serves, SetupStages
  <2>2. QED
    BY <1>a, <1>2, <2>1, ScopesStepType, AgentsNumbered, SeedsElsewhere DEF setup
<1>3. ASSUME NEW h \in Handlers, SettingsNext(h), UNCHANGED <<accounts, setup>>
      PROVE  SeedsInv'
  <2>1. stage[h] \notin SetupStages /\ UNCHANGED scopes
    BY <1>3 DEF SettingsNext, SettingLoaded, SettingSaved, SettingRefused, ProfileLoaded,
                ProfileSaved, ConfigLoaded, SecretMade, Serves, SetupStages, scopes
  <2>2. QED
    BY <1>a, <1>b, <1>3, <2>1, SettingsStepType, SeedsElsewhere DEF setup
<1>4. ASSUME NEW h \in Handlers, AccountsNext(h), UNCHANGED setup
      PROVE  SeedsInv'
  <2>1. stage[h] \notin SetupStages /\ UNCHANGED scopes
    BY <1>4 DEF AccountsNext, UserCounted, UserInserted, SignOnRead, SignedOn, UserLoaded,
                UserSaved, UserChosen, UserDeleted, LinkSent, PasswordLoaded, PasswordSaved,
                Serves, SetupStages
  <2>2. QED
    BY <1>a, <1>b, <1>4, <2>1, AccountsStepType, SeedsElsewhere DEF setup
<1>5. ASSUME NEW h \in Handlers, RequestFails(h)
      PROVE  SeedsInv'
  <2>1. Moves(h, "done", None) /\ "done" \in Stages
    BY <1>5, FailsMoves DEF RequestFails, TypeInv, Stages, Resting
  <2>2. /\ UNCHANGED <<scopes, founders>>
        /\ halved' = (halved \/ stage[h] = "founded" \/ (stage[h] = "seed" /\ work[h].founded))
    BY <1>5 DEF RequestFails
  <2>3. (halved => halved') /\ (Founding(stage[h], work[h]) => halved')
    BY <2>2 DEF Founding
  <2>4. QED
    BY <1>b, <2>1, <2>2, <2>3, SeedsFrame
<1>6. QED
  BY <1>1, <1>2, <1>3, <1>4, <1>5, SeedsSetup DEF Next

----------------------------------------------------------------------------
(***************************************************************************)
(* What holds in every state.                                              *)
(***************************************************************************)

LEMMA InitAccounts == Init => AccountInv
<1> SUFFICES ASSUME Init PROVE AccountInv
  OBVIOUS
<1> USE InitType
<1>a. \A h \in Handlers : stage[h] = "idle"
  BY DEF Init, RequestsInit
<1>b. founders = {} /\ outlived = {} /\ blind = {}
  BY DEF Init, RequestsInit, AccountsInit
<1>c. IF scene.ready THEN nextUser = 3 /\ 1 \in UserIds /\ 2 \in UserIds ELSE nextUser = 1
  <2>1. Cardinality({}) = 0
    BY FS_EmptySet
  <2>2. Cardinality({1, 2}) = 2
    <3>1. {1, 2} = 1..2
      OBVIOUS
    <3>2. Cardinality(1..2) = IF 1 > 2 THEN 0 ELSE 2 - 1 + 1
      <4>1. 1 \in Int /\ 2 \in Int
        OBVIOUS
      <4>2. QED
        BY <4>1, FS_Interval, Zenon
    <3>3. QED
      BY <3>1, <3>2
  <2>3. scene \in Scenes /\ (scene.ready => 2 \in UserIds)
    BY AccountAssumption DEF Init, RequestsInit
  <2>4. 1 \in UserIds
    BY AccountAssumption, Sequels
  <2>5. QED
    BY <2>1, <2>2, <2>3, <2>4 DEF Init, AccountsInit
<1>1. PasswordInv
  <2>1. \A u \in Users : u < nextUser
    BY <1>c, NextUserType DEF Init, AccountsInit, Users
  <2>2. QED
    BY <1>a, <1>b, <2>1 DEF PasswordInv, PasswordSpentOnce
<1>2. AdminInv
  <2>1. CASE ~scene.ready
    BY <1>a, <1>c, <2>1 DEF AdminInv
  <2>2. CASE scene.ready
    <3>1. users[1].role = "admin" /\ users[1].active /\ 1 \in UserIds
      BY <1>c, <2>2 DEF Init, AccountsInit
    <3>2. users[1] # None
      <4> DEFINE there == {1, 2}
                 address == CHOOSE f \in [{1, 2} -> Addresses] : f[1] # f[2]
                 row(u) == [address |-> address[u], role |-> "admin", active |-> TRUE,
                            password |-> u]
      <4>1. users = [u \in UserIds |-> IF u \notin there THEN None ELSE row(u)]
        BY <2>2 DEF Init, AccountsInit
      <4>2. \E f \in [{1, 2} -> Addresses] : f[1] # f[2]
        <5>1. scene \in Scenes
          BY DEF Init, RequestsInit
        <5>2. PICK a \in Addresses, b \in Addresses : a # b
          BY <2>2, <5>1, AccountAssumption
        <5> DEFINE f == [i \in {1, 2} |-> IF i = 1 THEN a ELSE b]
        <5>3. f \in [{1, 2} -> Addresses] /\ f[1] # f[2]
          BY <5>2
        <5> HIDE DEF f
        <5>4. QED
          BY <5>3
      <4>3. address \in [{1, 2} -> Addresses]
        BY <4>2
      <4>4. 1 \in Passwords
        <5>1. scene \in Scenes
          BY DEF Init, RequestsInit
        <5>2. QED
          BY <2>2, <5>1, AccountAssumption DEF Passwords
      <4>5. row(1) \in UserRows
        BY <4>3, <4>4 DEF UserRows, Roles
      <4>6. users[1] = row(1)
        BY <3>1, <4>1
      <4>7. QED
        BY <4>5, <4>6, RowAssumption
    <3>3. 1 \in Admins
      BY <3>1, <3>2 DEF Admins, ActiveUsers, Users
    <3>4. QED
      BY <1>a, <3>3 DEF AdminInv
  <2>3. QED
    BY <2>1, <2>2
<1>3. SetupInv
  <2>1. \A p, q \in Profiles : p = q
    BY DEF Init, SettingsInit, Profiles
  <2>2. \A a \in Agents : a < nextAgent
    <3>1. \A a \in AgentIds : a \in Nat
      BY ScopeAssumption, Sequels
    <3>2. QED
      BY <3>1 DEF Init, ScopesInit, Agents
  <2>3. QED
    BY <1>a, <1>b, <2>1, <2>2
       DEF SetupInv, FoundersInv, ProfilesInv, SeedsInv, Beginning, Founding, ProfileStages,
           SetupStages
<1>4. QED
  BY <1>1, <1>2, <1>3 DEF AccountInv

LEMMA NextAccounts == TypeInv /\ AccountInv /\ [Next]_vars => AccountInv'
<1> SUFFICES ASSUME TypeInv, AccountInv, [Next]_vars PROVE AccountInv'
  OBVIOUS
<1>1. SetupInv'
  BY FoundersStep, ProfilesStep, SeedsStep DEF SetupInv
<1>2. PasswordInv' /\ AdminInv'
  <2>1. CASE UNCHANGED vars
    BY <2>1 DEF vars, requests, history, accounts, AccountInv, PasswordInv, PasswordSpentOnce,
                AdminInv, Usurped, Admins, ActiveUsers, Users
  <2>2. ASSUME NEW h \in Handlers, Quiet(h) \/ Joins(h)
        PROVE  PasswordInv' /\ AdminInv'
    BY <2>2, PasswordsElsewhere, AdminsElsewhere DEF AccountInv
  <2>3. ASSUME NEW h \in Handlers, AccountsNext(h)
        PROVE  PasswordInv' /\ AdminInv'
    BY <2>3, PasswordStep, AdminStep DEF AccountInv
  <2>4. QED
    BY <2>1, <2>2, <2>3, QuietSteps, SetupCommits DEF Next, SetupNext
<1>3. QED
  BY <1>1, <1>2 DEF AccountInv

LEMMA AccountsInvariant == Spec => [](TypeInv /\ AccountInv)
<1>1. Init => TypeInv /\ AccountInv
  BY InitType, InitAccounts
<1>2. TypeInv /\ AccountInv /\ [Next]_vars => (TypeInv /\ AccountInv)'
  BY NextType, NextAccounts
<1>3. QED
  BY <1>1, <1>2, PTL DEF Spec

\* No password, and no link sent while it was one's password, opens an
\* account twice, unless two changes ran over each other.
THEOREM PasswordsSpentOnce == Spec => []PasswordSpentOnce
<1>1. AccountInv => PasswordSpentOnce
  BY DEF AccountInv, PasswordInv
<1>2. QED
  BY <1>1, AccountsInvariant, PTL

\* An instance that has accounts has an administrator, unless an update
\* demoted the last one or administrators deleted each other at once.
THEOREM AdminsRemain == Spec => []AdminRemains
<1>1. TypeInv /\ AccountInv => AdminRemains
  <2> SUFFICES ASSUME TypeInv, AccountInv, Admins = {}, Users # {}
               PROVE  demoted \/ Usurped
    BY DEF AdminRemains, Usurped
  <2>1. nextUser # 1
    BY NextUserType DEF AccountInv, PasswordInv, Users
  <2>2. QED
    BY <2>1 DEF AccountInv, AdminInv
<1>2. QED
  BY <1>1, AccountsInvariant, PTL

\* One founder, one profile, and an agent for the founder, but for requests
\* that decided on stale reads and setups that stopped half-way.
THEOREM SetupHappensOnce == Spec => []SetupOnce
<1>1. TypeInv /\ AccountInv => SetupOnce
  <2> SUFFICES ASSUME TypeInv, AccountInv PROVE SetupOnce
    OBVIOUS
  <2> USE DEF AccountInv, SetupInv
  <2>1. ASSUME SetupKey \intersect blind = {}, \A u \in UserIds : Authority(u) \notin blind
        PROVE  Cardinality(founders) <= 1
    <3>1. CASE founders = {}
      BY <3>1, FS_EmptySet
    <3>2. CASE founders # {}
      <4>1. PICK u \in UserIds : founders = {u}
        BY <2>1, <3>2 DEF FoundersInv, Usurped
      <4>2. Cardinality(founders) = 1
        BY <4>1, FS_Singleton
      <4>3. QED
        BY <4>2
    <3>3. QED
      BY <3>1, <3>2
  <2>2. ASSUME Row(None) \intersect blind = {}
        PROVE  Cardinality(Profiles) <= 1
    <3>1. CASE Profiles = {}
      BY <3>1, FS_EmptySet
    <3>2. CASE Profiles # {}
      <4>1. PICK p \in Profiles : Profiles = {p}
        BY <2>2, <3>2 DEF ProfilesInv
      <4>2. Cardinality(Profiles) = 1
        BY <4>1, FS_Singleton
      <4>3. QED
        BY <4>2
    <3>3. QED
      BY <3>1, <3>2
  <2>3. (\A h \in Handlers : stage[h] \notin {"founded", "seed"}) /\ founders # {} /\ ~halved
           => nextAgent > 1
    BY DEF SeedsInv, Founding
  <2>4. QED
    BY <2>1, <2>2, <2>3 DEF SetupOnce
<1>2. QED
  BY <1>1, AccountsInvariant, PTL

=============================================================================
