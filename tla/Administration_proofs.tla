----------------------- MODULE Administration_proofs -----------------------
(***************************************************************************)
(* Proofs about Administration, for any number of requests, accounts,      *)
(* groups, agents, documents, settings sections and failures: its type     *)
(* correctness, and lemmas on how its requests move.  What it promises is  *)
(* proved from them in Accounts_proofs and Edits_proofs.                   *)
(***************************************************************************)
EXTENDS Administration, FiniteSetTheorems, TLAPS

(***************************************************************************)
(* Type correctness.  TypeOK is not inductive: what a request holds must   *)
(* be of the type that its stage calls for.                                *)
(***************************************************************************)
Stages ==
    Resting \union
        {"newAgent", "agent", "register", "doc", "save", "profile", "secret", "newUser",
         "sso", "user", "dropUser", "password", "setup", "flushed", "founded", "seed"}
SetupStages == {"flushed", "founded", "seed"}
ProfileRefs == ProfileIds \union {None}

AgentWork == [agent: AgentIds, row: AgentRows, ask: AgentAsks]
DocWork == [doc: DocIds, row: DocRows, ask: DocAsks]
SaveWork == {w \in [profile: ProfileRefs, copy: Metas, section: Sections,
                    ask: UNION {Asks(s) : s \in Sections}] : w.ask \in Asks(w.section)}
UserWork == [actor: UserIds, admin: BOOLEAN, user: UserIds, row: UserRows, ask: UserAsks]
SetupWork == [address: Addresses, email: Asks("email"), profile: ProfileRefs, copy: Metas,
              founded: BOOLEAN, seed: BOOLEAN]

Holds(s, w) ==
    /\ s = "agent" => w \in AgentWork
    /\ s = "doc" => w \in DocWork
    /\ s = "save" => w \in SaveWork
    /\ s = "profile" => w \in [profile: ProfileRefs]
    /\ s = "secret" => w \in [profile: ProfileIds, copy: Metas]
    /\ s = "newUser" => w \in [address: Addresses, role: Roles, invited: BOOLEAN]
    /\ s = "sso" => w \in [address: Addresses]
    /\ s = "user" => w \in UserWork
    /\ s = "dropUser" => w \in [actor: UserIds, user: UserIds]
    /\ s = "password" => w \in [user: UserIds, by: Passwords]
    /\ s = "setup" => w \in [address: Addresses, email: Asks("email")]
    /\ s \in SetupStages => w \in SetupWork

RequestsInv ==
    /\ scene \in Scenes
    /\ stage \in [Handlers -> Stages]
    /\ DOMAIN work = Handlers /\ DOMAIN stale = Handlers
    /\ \A h \in Handlers :
          /\ Holds(stage[h], work[h])
          /\ stage[h] \in Resting => work[h] = None /\ stale[h] = {}
    /\ faults \in 0..scene.faults

SetupTypeOK ==
    /\ primary \in AgentIds \union {None}
    /\ founders \subseteq UserIds
    /\ halved \in BOOLEAN

\* A row that is there was asked for.
ScopesInv ==
    /\ ScopesTypeOK
    /\ \A a \in Agents : agentAsked[a] \in AgentScopes
    /\ \A d \in Docs : docAsked[d] \in DocScopes

\* So was the profile that a request refers to, and what is saved in it.
ProfileStages == {"save", "profile", "secret"} \union SetupStages
SettingsInv ==
    /\ SettingsTypeOK
    /\ \A p \in Profiles : saved[p] \in Metas
    /\ \A h \in Handlers :
          stage[h] \in ProfileStages => work[h].profile \in Profiles \union {None}

TypeInv == RequestsInv /\ ScopesInv /\ SettingsInv /\ AccountsTypeOK /\ SetupTypeOK

LEMMA TypeInvIsTypeOK == TypeInv => TypeOK
  BY DEF TypeInv, TypeOK, RequestsInv, ScopesInv, SettingsInv, SetupTypeOK, Stages

\* What every step of a request does to the other requests and to the
\* histories: it goes to stage s holding w, the others are at most staler.
Moves(h, s, w) ==
    /\ stage' = [stage EXCEPT ![h] = s]
    /\ work' = [work EXCEPT ![h] = w]
    /\ DOMAIN stale' = Handlers
    /\ \A k \in Handlers :
          IF k # h /\ stage[k] \notin Resting THEN stale[k] \subseteq stale'[k]
          ELSE k # h \/ s \in Resting => stale'[k] = {}
    /\ blind \subseteq blind'
    /\ scene' = scene
    /\ faults' \in 0..scene.faults

LEMMA ReadsMove ==
    ASSUME RequestsInv, NEW h \in Handlers, NEW s \in Stages \ Resting, NEW w, Reads(h, s, w)
    PROVE  Moves(h, s, w) /\ stale' = stale /\ blind' = blind
  BY DEF RequestsInv, Reads, Goes, Moves, history

LEMMA CommitsMove ==
    ASSUME RequestsInv, NEW h \in Handlers, NEW s \in Stages \ {"idle"}, NEW w,
           NEW changed, NEW relied, Commits(h, changed, relied, s, w)
    PROVE  /\ Moves(h, s, IF s \in Resting THEN None ELSE w)
           /\ s \notin Resting => stale'[h] = stale[h]
           /\ \A k \in Handlers : k # h /\ stage[k] \notin Resting =>
                 stale'[k] = stale[k] \union changed
           /\ blind' = blind \union (stale[h] \intersect relied)
  BY DEF RequestsInv, Commits, Goes, Moves, Stages, Resting

LEMMA RefusedMoves ==
    ASSUME RequestsInv, NEW h \in Handlers, Refused(h)
    PROVE  /\ Moves(h, "done", None) /\ blind' = blind
           /\ \A k \in Handlers : k # h => stale'[k] = stale[k]
  BY DEF RequestsInv, Refused, Goes, Moves, Resting

LEMMA FailsMoves ==
    ASSUME RequestsInv, NEW h \in Handlers, Fails(h)
    PROVE  /\ Moves(h, "done", None) /\ blind' = blind
           /\ \A k \in Handlers : k # h => stale'[k] = stale[k]
  BY SceneAssumption DEF RequestsInv, Fails, Goes, Moves, Resting

LEMMA MovesType ==
    ASSUME RequestsInv, NEW h \in Handlers, NEW s \in Stages, NEW w, Moves(h, s, w),
           Holds(s, w), s \in Resting => w = None
    PROVE  RequestsInv'
<1>1. stage' \in [Handlers -> Stages] /\ DOMAIN work' = Handlers /\ DOMAIN stale' = Handlers
  BY DEF RequestsInv, Moves
<1>2. ASSUME NEW k \in Handlers
      PROVE  /\ Holds(stage'[k], work'[k])
             /\ stage'[k] \in Resting => work'[k] = None /\ stale'[k] = {}
  <2>1. CASE k = h
    BY <2>1 DEF RequestsInv, Moves
  <2>2. CASE k # h
    <3>1. stage'[k] = stage[k] /\ work'[k] = work[k]
      BY <2>2 DEF RequestsInv, Moves
    <3>2. QED
      BY <2>2, <3>1 DEF RequestsInv, Moves
  <2>3. QED
    BY <2>1, <2>2
<1>3. QED
  BY <1>1, <1>2 DEF RequestsInv, Moves, Holds

----------------------------------------------------------------------------

\* Agents, groups and documents.
LEMMA Sequels ==
    \A S : Numbered(S) =>
        /\ Cardinality(S) \in Nat /\ 1 \in S
        /\ \A n \in S : n \in Nat /\ n + 1 \in S \union {Cardinality(S) + 1}
<1> SUFFICES ASSUME NEW S, Numbered(S)
             PROVE  /\ Cardinality(S) \in Nat /\ 1 \in S
                    /\ \A n \in S : n \in Nat /\ n + 1 \in S \union {Cardinality(S) + 1}
  OBVIOUS
<1>1. Cardinality(S) \in Nat
  BY FS_CardinalityType DEF Numbered
<1>2. QED
  BY <1>1 DEF Numbered

LEMMA AgentTypes ==
    /\ \A list \in Lists : FirstOf(list) \in GroupIds \union {None} /\ Range(list) \subseteq GroupIds
    /\ \A row \in AgentRows, ask \in AgentAsks :
          /\ AgentUpdated(row, ask) \in AgentRows
          /\ AskedGroups(ask) \subseteq GroupIds
    /\ \A scope \in AgentScopes, ask \in AgentAsks : AgentScope(scope, ask) \in AgentScopes
<1>1. ASSUME NEW list \in Lists
      PROVE  FirstOf(list) \in GroupIds \union {None} /\ Range(list) \subseteq GroupIds
  BY DEF FirstOf, Lists, Range
<1>2. ASSUME NEW ask \in AgentAsks
      PROVE  AskedGroups(ask) \subseteq GroupIds
  BY <1>1 DEF AgentAsks, AskedGroups
<1>3. ASSUME NEW row \in AgentRows, NEW ask \in AgentAsks
      PROVE  AgentUpdated(row, ask) \in AgentRows
  <2>1. CASE ask \in [form: {"list"}, list: Lists]
    BY <1>1, <2>1 DEF AgentUpdated, AgentRows
  <2>2. CASE ask \in [form: {"one"}, one: GroupIds \union {0}]
    <3>1. ListOfOne(ask.one) \in Lists /\ OneOf(ask.one) \in GroupIds \union {None}
      BY <2>2 DEF ListOfOne, OneOf, Lists
    <3>2. QED
      BY <2>2, <3>1 DEF AgentUpdated, AgentRows
  <2>3. CASE ask \in [form: {"tags"}, tags: TagLists]
    BY <2>3 DEF AgentUpdated, AgentRows
  <2>4. QED
    BY <2>1, <2>2, <2>3 DEF AgentAsks
<1>4. ASSUME NEW scope \in AgentScopes, NEW ask \in AgentAsks
      PROVE  AgentScope(scope, ask) \in AgentScopes
  BY <1>1, <1>2 DEF AgentScope, AgentAsks, AgentScopes
<1>5. QED
  BY <1>1, <1>2, <1>3, <1>4

LEMMA DocTypes ==
    /\ \A row \in DocRows, ask \in DocAsks : DocUpdated(row, ask) \in DocRows
    /\ \A scope \in DocScopes, row \in DocRows, ask \in DocAsks :
          DocScope(scope, row, ask) \in DocScopes
<1>1. ASSUME NEW row \in DocRows, NEW ask \in DocAsks
      PROVE  DocUpdated(row, ask) \in DocRows
  <2> DEFINE sent == IF row.kind = "item" /\ ask.tags = {} THEN None ELSE ask.tags
             gids == SideKept(ask.groups, row.groups)
  <2>1. /\ gids \in SUBSET GroupIds /\ row.marks \in SUBSET Marks
        /\ ask.tags # None => ask.tags \in SUBSET Marks
    BY ScopeAssumption DEF SideKept, DocRows, DocAsks
  <2>2. gids \union Words(SideKept(sent, row.marks)) \in SUBSET Marks
    BY <2>1 DEF Words, Marks
  <2>3. CASE ask.groups = None /\ ask.tags = None
    BY <2>3 DEF DocUpdated
  <2>4. CASE ~(ask.groups = None /\ ask.tags = None) /\ row.kind = "item" /\ ask.groups = None
    <3>1. DocUpdated(row, ask) = [row EXCEPT !.marks = ask.tags]
      BY <2>4 DEF DocUpdated
    <3>2. QED
      BY <2>1, <2>4, <3>1 DEF DocRows
  <2>5. CASE ~(ask.groups = None /\ ask.tags = None) /\ ~(row.kind = "item" /\ ask.groups = None)
    <3>1. DocUpdated(row, ask) = [row EXCEPT !.groups = gids,
                                     !.marks = gids \union Words(SideKept(sent, row.marks))]
      BY <2>5 DEF DocUpdated
    <3> HIDE DEF sent, gids
    <3>2. QED
      BY <2>1, <2>2, <3>1 DEF DocRows
  <2>6. QED
    BY <2>3, <2>4, <2>5
<1>2. ASSUME NEW scope \in DocScopes, NEW row \in DocRows, NEW ask \in DocAsks
      PROVE  DocScope(scope, row, ask) \in DocScopes
  <2>1. Unheard(row, ask) \in BOOLEAN
    BY DEF Unheard
  <2>2. QED
    BY <2>1 DEF DocScope, SideKept, DocAsks, DocScopes
<1>3. QED
  BY <1>1, <1>2

LEMMA ScopesInitType == scene \in Scenes /\ ScopesInit => ScopesInv
<1> SUFFICES ASSUME scene \in Scenes, ScopesInit PROVE ScopesInv
  OBVIOUS
<1> USE DEF ScopesInit
<1>1. /\ 1 \in GroupIds /\ 1 \in AgentIds /\ 1 \in DocIds
      /\ Cardinality(GroupIds) \in Nat /\ Cardinality(AgentIds) \in Nat
      /\ scene.groups \in 0..Cardinality(GroupIds)
  BY SceneAssumption, ScopeAssumption, Sequels
<1>2. [name |-> CHOOSE n \in Names : TRUE, tags |-> {}] \in GroupRows
  BY ScopeAssumption DEF GroupRows
<1>3. groups \in [GroupIds -> GroupRows \union {None}]
  BY <1>2
<1>4. /\ [first |-> 1, groups |-> <<1>>, tags |-> {}, bot |-> TRUE] \in AgentRows
      /\ [first |-> 1, groups |-> {1}, tags |-> {}] \in AgentScopes
      /\ [groups |-> {1}, tags |-> {}, unheard |-> FALSE] \in DocScopes
  BY <1>1, ScopeAssumption DEF AgentRows, Lists, AgentScopes, DocScopes
<1>5. agents \in [AgentIds -> AgentRows \union {None}]
  BY <1>4
<1>6. docs \in [DocIds -> DocRows \union {None}]
  BY <1>1 DEF DocRows, Marks
<1>7. /\ nextGroup \in GroupIds \union {Cardinality(GroupIds) + 1}
      /\ nextAgent \in AgentIds \union {Cardinality(AgentIds) + 1}
  BY <1>1, ScopeAssumption DEF Numbered
<1>8. /\ agentAsked \in [AgentIds -> AgentScopes \union {None}]
      /\ docAsked \in [DocIds -> DocScopes \union {None}]
  BY <1>4
<1>9. /\ \A a \in Agents : agentAsked[a] \in AgentScopes
      /\ \A d \in Docs : docAsked[d] \in DocScopes
  <2>1. \A d \in DocIds : d <= Cardinality(DocIds)
    <3>1. Cardinality(DocIds) \in Nat
      BY ScopeAssumption, Sequels
    <3>2. QED
      BY <3>1, ScopeAssumption DEF Numbered
  <2>2. QED
    BY <1>4, <2>1 DEF Agents, Docs
<1>10. QED
  BY <1>3, <1>5, <1>6, <1>7, <1>8, <1>9 DEF ScopesTypeOK, ScopesInv

\* The step of h ends at one of the stages in S, holding what is held there.
Lands(h, S) ==
    \E s \in S : \E w : Moves(h, s, w) /\ Holds(s, w) /\ (s \in Resting => w = None)

LEMMA LandsType ==
    ASSUME RequestsInv, NEW h \in Handlers, NEW S \in SUBSET Stages, Lands(h, S)
    PROVE  RequestsInv' /\ stage'[h] \in S
<1>0. PICK s \in S : \E w : Moves(h, s, w) /\ Holds(s, w) /\ (s \in Resting => w = None)
  BY DEF Lands
<1>1. PICK w : Moves(h, s, w) /\ Holds(s, w) /\ (s \in Resting => w = None)
  BY <1>0
<1>2. RequestsInv'
  BY <1>1, MovesType
<1>3. QED
  BY <1>1, <1>2 DEF RequestsInv, Moves

\* The requests' steps land; those that hold nothing afterwards at once.
LEMMA ReadsLand ==
    ASSUME RequestsInv, NEW h \in Handlers, NEW s \in Stages \ Resting, NEW w, Reads(h, s, w),
           Holds(s, w)
    PROVE  Lands(h, {s})
  BY ReadsMove DEF Lands

LEMMA Landing ==
    ASSUME RequestsInv, NEW h \in Handlers
    PROVE  /\ Refused(h) => Lands(h, {"done"})
           /\ Fails(h) => Lands(h, {"done"})
           /\ \A changed, relied :
                 /\ Commits(h, changed, relied, "done", None) => Lands(h, {"done"})
                 /\ Commits(h, changed, relied, "register", None) => Lands(h, {"register"})
<1>1. Holds("done", None) /\ Holds("register", None)
  BY DEF Holds, SetupStages
<1>2. Refused(h) => Lands(h, {"done"})
  BY <1>1, RefusedMoves DEF Lands
<1>3. Fails(h) => Lands(h, {"done"})
  BY <1>1, FailsMoves DEF Lands
<1>4. ASSUME NEW changed, NEW relied, Commits(h, changed, relied, "done", None)
      PROVE  Lands(h, {"done"})
  <2>1. Moves(h, "done", None)
    BY <1>4, CommitsMove DEF Stages, Resting
  <2>2. QED
    BY <1>1, <2>1 DEF Lands
<1>5. ASSUME NEW changed, NEW relied, Commits(h, changed, relied, "register", None)
      PROVE  Lands(h, {"register"})
  <2>1. Moves(h, "register", None)
    BY <1>5, CommitsMove DEF Stages, Resting
  <2>2. QED
    BY <1>1, <2>1 DEF Lands, Resting
<1>6. QED
  BY <1>2, <1>3, <1>4, <1>5

\* A request's last commit.
LEMMA Ending ==
    ASSUME RequestsInv, NEW h \in Handlers, NEW changed, NEW relied,
           Commits(h, changed, relied, "done", None)
    PROVE  /\ "done" \in Stages /\ Moves(h, "done", None)
           /\ blind' = blind \union (stale[h] \intersect relied)
           /\ \A k \in Handlers :
                 k # h /\ stage[k] \notin Resting => stale'[k] = stale[k] \union changed
<1>1. "done" \in Stages \ {"idle"} /\ "done" \in Resting
  BY DEF Stages, Resting
<1>2. QED
  BY <1>1, CommitsMove

LEMMA LandsWider ==
    ASSUME NEW h, NEW S, NEW T, S \subseteq T, Lands(h, S)
    PROVE  Lands(h, T)
  BY DEF Lands

----------------------------------------------------------------------------

ScopeStages == {"newAgent", "agent", "register", "doc", "done"}

LEMMA AgentStepsType ==
    ASSUME TypeInv, NEW h \in Handlers,
           \/ AgentCounted(h) \/ AgentInserted(h) \/ AgentLoaded(h) \/ AgentSaved(h)
           \/ AgentDeleted(h)
    PROVE  Lands(h, ScopeStages) /\ ScopesInv'
<1> USE DEF TypeInv, ScopesInv, Agents, Docs
<1>a. ScopeStages \subseteq Stages /\ (ScopeStages \ {"done"}) \intersect Resting = {}
  BY DEF ScopeStages, Stages, Resting
<1>1. CASE AgentCounted(h)
  <2>1. Holds("newAgent", [read |-> "agents"])
    BY DEF Holds, SetupStages
  <2>2. Lands(h, {"newAgent"})
    BY <1>1, <2>1, ReadsLand DEF AgentCounted, Stages, Resting
  <2>3. QED
    BY <1>1, <2>2, LandsWider DEF AgentCounted, scopes, ScopesTypeOK, ScopeStages
<1>2. CASE AgentInserted(h)
  <2>1. PICK first \in Groups \union {None}, list \in Lists, tags \in TagLists, bot \in BOOLEAN :
          /\ Range(list) \subseteq Groups
          /\ agents' = [agents EXCEPT ![nextAgent] =
                [first |-> first, groups |-> list, tags |-> tags, bot |-> bot]]
          /\ agentAsked' = [agentAsked EXCEPT ![nextAgent] =
                [first |-> first, groups |-> Range(list) \union ({first} \ {None}),
                 tags |-> tags]]
          /\ Commits(h, {}, {}, IF bot THEN "register" ELSE "done", None)
    BY <1>2 DEF AgentInserted
  <2>2. first \in GroupIds \union {None} /\ Range(list) \subseteq GroupIds
    BY <2>1 DEF Groups
  <2>3. /\ [first |-> first, groups |-> list, tags |-> tags, bot |-> bot] \in AgentRows
        /\ [first |-> first, groups |-> Range(list) \union ({first} \ {None}),
            tags |-> tags] \in AgentScopes
    BY <2>2 DEF AgentRows, AgentScopes
  <2>4. nextAgent' \in AgentIds \union {Cardinality(AgentIds) + 1}
    BY <1>2, ScopeAssumption, Sequels DEF AgentInserted
  <2>5. Lands(h, ScopeStages)
    BY <2>1, Landing, LandsWider DEF ScopeStages
  <2>6. QED
    BY <1>2, <2>1, <2>3, <2>4, <2>5 DEF AgentInserted, ScopesTypeOK
<1>3. CASE AgentLoaded(h)
  <2>1. PICK a \in Agents, ask \in AgentAsks :
          Reads(h, "agent", [agent |-> a, row |-> agents[a], ask |-> ask])
    BY <1>3 DEF AgentLoaded
  <2>2. Holds("agent", [agent |-> a, row |-> agents[a], ask |-> ask])
    BY DEF Holds, SetupStages, AgentWork, Agents, ScopesTypeOK
  <2>3. Lands(h, {"agent"})
    BY <2>1, <2>2, ReadsLand DEF Stages, Resting
  <2>4. QED
    BY <1>3, <2>3, LandsWider DEF AgentLoaded, scopes, ScopesTypeOK, ScopeStages
<1>4. CASE AgentSaved(h)
  <2>1. CASE AgentRefused(work[h])
    BY <1>4, <2>1, Landing, LandsWider DEF AgentSaved, scopes, ScopesTypeOK, ScopeStages
  <2>2. CASE ~AgentRefused(work[h])
    <3> DEFINE w == work[h]
               new == AgentUpdated(w.row, w.ask)
               old == agents[w.agent]
    <3>1. w \in AgentWork
      BY <1>4 DEF AgentSaved, RequestsInv, Holds
    <3>2. new \in AgentRows /\ w.row \in AgentRows /\ w.agent \in AgentIds /\ w.ask \in AgentAsks
      BY <3>1, AgentTypes DEF AgentWork
    <3>3. old \in AgentRows /\ agentAsked[w.agent] \in AgentScopes
      BY <2>2, <3>2 DEF AgentRefused, ScopesTypeOK
    <3>4. PICK bot \in BOOLEAN :
            /\ agents' = [agents EXCEPT ![w.agent] =
                  [first |-> Kept(old.first, w.row.first, new.first),
                   groups |-> Kept(old.groups, w.row.groups, new.groups),
                   tags |-> Kept(old.tags, w.row.tags, new.tags),
                   bot |-> bot]]
            /\ \E key : Commits(h, key, key, IF bot THEN "register" ELSE "done", None)
      BY <1>4, <2>2, <3>2 DEF AgentSaved, ScopesTypeOK
    <3>5. /\ [first |-> Kept(old.first, w.row.first, new.first),
              groups |-> Kept(old.groups, w.row.groups, new.groups),
              tags |-> Kept(old.tags, w.row.tags, new.tags),
              bot |-> bot] \in AgentRows
          /\ agentAsked' = [agentAsked EXCEPT ![w.agent] = AgentScope(agentAsked[w.agent], w.ask)]
          /\ UNCHANGED <<groups, docs, nextGroup, nextAgent, docAsked>>
      <4>1. /\ agentAsked' = [agentAsked EXCEPT ![w.agent] = AgentScope(agentAsked[w.agent], w.ask)]
            /\ UNCHANGED <<groups, docs, nextGroup, nextAgent, docAsked>>
        BY <1>4, <2>2, <3>2 DEF AgentSaved, ScopesTypeOK
      <4>2. QED
        BY <3>2, <3>3, <4>1 DEF AgentRows, Kept
    <3>6. Lands(h, ScopeStages)
      BY <3>4, Landing, LandsWider DEF ScopeStages
    <3>7. agents' \in [AgentIds -> AgentRows \union {None}]
      BY <3>2, <3>4, <3>5 DEF ScopesTypeOK
    <3>8. AgentScope(agentAsked[w.agent], w.ask) \in AgentScopes
      BY <3>2, <3>3, AgentTypes
    <3>9. agentAsked' \in [AgentIds -> AgentScopes \union {None}]
      BY <3>2, <3>5, <3>8 DEF ScopesTypeOK
    <3>10. \A a \in AgentIds : agents'[a] # None => agentAsked'[a] \in AgentScopes
      BY <3>2, <3>3, <3>4, <3>5, <3>8 DEF ScopesTypeOK
    <3>11. QED
      BY <3>5, <3>6, <3>7, <3>9, <3>10 DEF ScopesTypeOK
  <2>3. QED
    BY <2>1, <2>2
<1>5. CASE AgentDeleted(h)
  <2>1. Lands(h, ScopeStages)
    BY <1>5, Landing, LandsWider DEF AgentDeleted, ScopeStages
  <2>2. QED
    BY <1>5, <2>1 DEF AgentDeleted, ScopesTypeOK, Agents
<1>6. QED
  BY <1>1, <1>2, <1>3, <1>4, <1>5

LEMMA GroupStepsType ==
    ASSUME TypeInv, NEW h \in Handlers, GroupCreated(h) \/ GroupUpdated(h) \/ GroupDeleted(h)
    PROVE  Lands(h, ScopeStages) /\ ScopesInv'
<1> USE DEF TypeInv, ScopesInv, ScopesTypeOK, Agents, Docs
<1>1. Lands(h, ScopeStages)
  BY Landing, LandsWider DEF GroupCreated, GroupUpdated, GroupDeleted, ScopeStages
<1>2. CASE GroupCreated(h)
  <2>1. nextGroup' \in GroupIds \union {Cardinality(GroupIds) + 1}
    BY <1>2, ScopeAssumption, Sequels DEF GroupCreated
  <2>2. QED
    BY <1>1, <1>2, <2>1 DEF GroupCreated
<1>3. CASE GroupUpdated(h)
  BY <1>1, <1>3 DEF GroupUpdated, Groups
<1>4. CASE GroupDeleted(h)
  <2>1. groups' \in [GroupIds -> GroupRows \union {None}]
    BY <1>4 DEF GroupDeleted, Groups
  <2>2. \A a \in Agents : [agents[a] EXCEPT !.first = None] \in AgentRows
    BY DEF AgentRows
  <2>3. agents' \in [AgentIds -> AgentRows \union {None}]
    BY <1>4, <2>2 DEF GroupDeleted
  <2>4. \A a \in AgentIds : agents'[a] # None => agents[a] # None
    BY <1>4 DEF GroupDeleted
  <2>5. QED
    BY <1>1, <1>4, <2>1, <2>3, <2>4 DEF GroupDeleted
<1>5. QED
  BY <1>2, <1>3, <1>4

LEMMA DocStepsType ==
    ASSUME TypeInv, NEW h \in Handlers,
           DocLoaded(h) \/ DocSaved(h) \/ DocDeleted(h) \/ DocCreated(h)
    PROVE  Lands(h, ScopeStages) /\ ScopesInv'
<1> USE DEF TypeInv, ScopesInv, ScopesTypeOK, Agents, Docs
<1>1. CASE DocLoaded(h)
  <2>1. PICK d \in Docs, ask \in DocAsks :
          Reads(h, "doc", [doc |-> d, row |-> docs[d], ask |-> ask])
    BY <1>1 DEF DocLoaded
  <2>2. Holds("doc", [doc |-> d, row |-> docs[d], ask |-> ask])
    BY DEF Holds, SetupStages, DocWork
  <2>3. Lands(h, {"doc"})
    BY <2>1, <2>2, ReadsLand DEF Stages, Resting
  <2>4. QED
    BY <1>1, <2>3, LandsWider DEF DocLoaded, scopes, ScopeStages
<1>2. CASE DocSaved(h)
  <2> DEFINE w == work[h]
             new == DocUpdated(w.row, w.ask)
             old == docs[w.doc]
             row == [kind |-> old.kind,
                     groups |-> Kept(old.groups, w.row.groups, new.groups),
                     marks |-> Kept(old.marks, w.row.marks, new.marks)]
  <2>1. CASE old = None
    BY <1>2, <2>1, Landing, LandsWider DEF DocSaved, scopes, ScopeStages
  <2>2. CASE old # None
    <3>1. w \in DocWork
      BY <1>2 DEF DocSaved, RequestsInv, Holds
    <3>2. w.doc \in DocIds /\ new \in DocRows
      BY <3>1, DocTypes DEF DocWork
    <3>3. old \in DocRows /\ docAsked[w.doc] \in DocScopes
      BY <2>2, <3>2
    <3>4. row \in DocRows
      BY <3>2, <3>3 DEF DocRows, Kept
    <3>5. DocScope(docAsked[w.doc], w.row, w.ask) \in DocScopes
      BY <3>1, <3>3, DocTypes DEF DocWork
    <3>6. /\ docs' = [docs EXCEPT ![w.doc] = row]
          /\ docAsked' = [docAsked EXCEPT ![w.doc] = DocScope(docAsked[w.doc], w.row, w.ask)]
          /\ UNCHANGED <<groups, agents, nextGroup, nextAgent, agentAsked>>
      BY <1>2, <2>2, <3>2 DEF DocSaved
    <3>10. Lands(h, ScopeStages)
      BY <1>2, <2>2, Landing, LandsWider DEF DocSaved, ScopeStages
    <3>7. /\ docs' \in [DocIds -> DocRows \union {None}]
          /\ docAsked' \in [DocIds -> DocScopes \union {None}]
      BY <3>2, <3>4, <3>5, <3>6
    <3>8. \A d \in DocIds : docs'[d] # None => docAsked'[d] \in DocScopes
      BY <3>2, <3>5, <3>6
    <3>9. QED
      <4> HIDE DEF w, row
      <4>1. QED
        BY <3>6, <3>7, <3>8, <3>10
  <2>3. QED
    BY <2>1, <2>2
<1>3. CASE DocDeleted(h)
  <2>1. Lands(h, ScopeStages)
    BY <1>3, Landing, LandsWider DEF DocDeleted, ScopeStages
  <2>2. QED
    BY <1>3, <2>1 DEF DocDeleted
<1>4. CASE DocCreated(h)
  <2>1. PICK d \in DocIds, gids \in SUBSET GroupIds, tags \in TagLists,
             kind \in {"knowledge", "item"} :
          /\ docs' = [docs EXCEPT ![d] =
                 [kind |-> kind, groups |-> gids,
                  marks |-> gids \union (IF kind = "item" THEN tags ELSE Words(tags))]]
          /\ docAsked' = [docAsked EXCEPT ![d] =
                 [groups |-> gids, tags |-> tags, unheard |-> FALSE]]
          /\ Commits(h, {}, {}, "done", None)
    BY <1>4 DEF DocCreated
  <2>2. /\ [kind |-> kind, groups |-> gids,
            marks |-> gids \union (IF kind = "item" THEN tags ELSE Words(tags))] \in DocRows
        /\ [groups |-> gids, tags |-> tags, unheard |-> FALSE] \in DocScopes
    <3>1. gids \union (IF kind = "item" THEN tags ELSE Words(tags)) \in SUBSET Marks
      BY ScopeAssumption DEF Marks, Words
    <3>2. QED
      BY <3>1 DEF DocRows, DocScopes
  <2>3. Lands(h, ScopeStages)
    BY <2>1, Landing, LandsWider DEF ScopeStages
  <2>4. QED
    BY <1>4, <2>1, <2>2, <2>3 DEF DocCreated
<1>5. QED
  BY <1>1, <1>2, <1>3, <1>4

LEMMA ScopesStepType ==
    ASSUME TypeInv, NEW h \in Handlers, ScopesNext(h)
    PROVE  Lands(h, ScopeStages) /\ ScopesInv'
  BY AgentStepsType, GroupStepsType, DocStepsType DEF ScopesNext

----------------------------------------------------------------------------

\* Settings.
LEMMA SectionNames ==
    /\ {"email", "payments", "channels"} \subseteq Sections
    /\ Sections \subseteq {"email", "sms", "storage", "paystack", "bumpa", "payments",
                           "recipients", "alerts", "channels"}
    /\ Keyed \intersect {"paystack", "bumpa", "payments", "recipients", "alerts", "channels"} = {}
  BY SettingsAssumption DEF Sections, Gateways

LEMMA AskTypes ==
    ASSUME NEW s \in Sections, NEW ask \in Asks(s)
    PROVE  /\ ask.on \in Providers \union Gateways \union {"set", None}
           /\ ask.shared \in BOOLEAN
           /\ s = "channels" => ask.on = "set"
  BY SectionNames DEF Asks, Sections, Gateways

LEMMA EntryTypes ==
    /\ NoEntry \in Entries /\ Blank \in Metas
    /\ \A copy \in Metas, s \in Sections, e \in Entries : Written(copy, s, e) \in Metas
    /\ \A p \in Found : SettingsTypeOK => ColumnOf(p) \in Metas /\ p \in ProfileRefs
<1>1. NoEntry \in Entries
  BY SettingsAssumption DEF NoEntry, Entries
<1>2. QED
  BY <1>1 DEF Blank, Metas, Written, ColumnOf, Found, Profiles, SettingsTypeOK, ProfileRefs

\* A new entry is one, and holds a secret only if it is the channels'.
LEMMA ResolvedType ==
    ASSUME SettingsTypeOK, NEW copy \in Metas, NEW s \in Sections, NEW ask \in Asks(s),
           Resolved(copy, s, ask).secret <= MaxSecrets
    PROVE  /\ Resolved(copy, s, ask) \in Entries
           /\ s # "channels" => Resolved(copy, s, ask).secret = 0
<1> DEFINE e == Resolved(copy, s, ask)
<1>1. copy[s] \in Entries
  BY DEF Metas
<1>a. /\ ask.on \in Providers \union Gateways \union {"set", None}
      /\ ask.shared \in BOOLEAN
  BY AskTypes
<1>2. CASE s = "channels"
  <2>1. e = [NoEntry EXCEPT !.on = "set",
                !.secret = IF ask.key = "new" \/ copy[s].secret = 0 THEN lastSecret + 1
                           ELSE copy[s].secret]
    BY <1>2, AskTypes, EntryAssumption DEF Resolved
  <2>2. e.secret \in 0..MaxSecrets
    BY <1>1, <2>1, SettingsAssumption DEF NoEntry, Entries, SettingsTypeOK
  <2>3. QED
    BY <1>2, <2>1, <2>2 DEF NoEntry, Entries
<1>3. CASE s # "channels" /\ (ask.on = None \/ s \in {"recipients", "alerts"})
  <2>1. e = [NoEntry EXCEPT !.on = ask.on]
    BY <1>3 DEF Resolved
  <2>2. 0 \in 0..MaxSecrets
    BY SettingsAssumption
  <2>3. e = [on |-> ask.on, key |-> None, shared |-> FALSE, secret |-> 0]
    BY <2>1 DEF NoEntry
  <2>4. QED
    BY <1>3, <1>a, <2>2, <2>3 DEF Entries
<1>4. CASE s = "payments" /\ ask.on = "bumpa"
  <2>1. e = [NoEntry EXCEPT !.on = ask.on]
    BY <1>4 DEF Resolved
  <2>2. 0 \in 0..MaxSecrets
    BY SettingsAssumption
  <2>3. e = [on |-> ask.on, key |-> None, shared |-> FALSE, secret |-> 0]
    BY <2>1 DEF NoEntry
  <2>4. QED
    <3>1. e \in Entries /\ e.secret = 0
      BY <1>a, <2>2, <2>3 DEF Entries
    <3>2. QED
      BY <3>1
<1>5. CASE /\ s \notin {"channels", "recipients", "alerts"} /\ ask.on # None
           /\ ~(s = "payments" /\ ask.on = "bumpa")
  <2>1. e = [NoEntry EXCEPT !.on = ask.on, !.key = KeyOf(copy[s], ask), !.shared = ask.shared]
    BY <1>5 DEF Resolved
  <2>2. KeyOf(copy[s], ask) \in Providers \union Gateways \union {"mask", None}
    BY <1>1, <1>5, SectionNames DEF KeyOf, Entries, Asks, Sections, Gateways
  <2>3. 0 \in 0..MaxSecrets
    BY SettingsAssumption
  <2>4. e = [on |-> ask.on, key |-> KeyOf(copy[s], ask), shared |-> ask.shared, secret |-> 0]
    BY <2>1 DEF NoEntry
  <2>5. QED
    BY <1>5, <1>a, <2>2, <2>3, <2>4 DEF Entries
<1>6. QED
  BY <1>2, <1>3, <1>4, <1>5

\* What a write of the profile leaves: no profile is lost.
LEMMA PutsType ==
    ASSUME SettingsInv, NEW p \in Profiles \union {None}, NEW copy \in Metas,
           NEW column \in Metas, NEW saves, Puts(p, copy, column, saves)
    PROVE  /\ profiles' \in [ProfileIds -> Metas \union {None}]
           /\ saved' \in [ProfileIds -> Metas \union {None}]
           /\ Profiles \subseteq Profiles'
           /\ \A r \in Profiles' : saved'[r] \in Metas
<1> DEFINE q == IF p = None THEN CHOOSE r \in ProfileIds \ Profiles : TRUE ELSE p
           new == [s \in Sections |-> IF p = None \/ s \in saves THEN column[s] ELSE saved[q][s]]
           kept == IF p = None THEN column ELSE Kept(profiles[q], copy, column)
<1>1. q \in ProfileIds /\ (p = None => q \notin Profiles) /\ (p # None => q \in Profiles)
  <2>1. CASE p = None
    <3>1. ProfileIds \ Profiles # {}
      BY <2>1 DEF Puts, Profiles
    <3>2. QED
      BY <2>1, <3>1
  <2>2. CASE p # None
    BY <2>2 DEF Profiles
  <2>3. QED
    BY <2>1, <2>2
<1>2. new \in Metas
  BY <1>1 DEF SettingsInv, Metas
<1>3. kept \in Metas
  BY <1>1 DEF SettingsInv, SettingsTypeOK, Profiles, Kept
<1>4. profiles' = [profiles EXCEPT ![q] = kept] /\ saved' = [saved EXCEPT ![q] = new]
  BY <1>1 DEF Puts, SettingsInv, SettingsTypeOK
<1>5. new # None /\ kept # None
  BY <1>2, <1>3, EntryAssumption DEF Metas
<1>6. QED
  <2> HIDE DEF q, new, kept
  <2>1. QED
    BY <1>1, <1>2, <1>3, <1>4, <1>5 DEF SettingsInv, SettingsTypeOK, Profiles

\* The profiles referred to stay.
LEMMA RefsKept ==
    ASSUME RequestsInv, SettingsInv, NEW h \in Handlers, NEW s, NEW w, Moves(h, s, w),
           s \in ProfileStages => w.profile \in Profiles' \union {None},
           Profiles \subseteq Profiles'
    PROVE  \A k \in Handlers :
              stage'[k] \in ProfileStages => work'[k].profile \in Profiles' \union {None}
<1> SUFFICES ASSUME NEW k \in Handlers, stage'[k] \in ProfileStages
             PROVE  work'[k].profile \in Profiles' \union {None}
  OBVIOUS
<1>1. CASE k = h
  BY <1>1 DEF RequestsInv, Moves
<1>2. CASE k # h
  <2>1. stage[k] \in ProfileStages /\ work'[k] = work[k]
    BY <1>2 DEF RequestsInv, Moves
  <2>2. QED
    BY <2>1 DEF SettingsInv
<1>3. QED
  BY <1>1, <1>2

LEMMA SettingsKeptType ==
    ASSUME RequestsInv, SettingsInv, NEW h \in Handlers, NEW S, Lands(h, S),
           S \intersect ProfileStages = {}, UNCHANGED settings
    PROVE  SettingsInv'
<1>0. PICK s \in S : \E w : Moves(h, s, w)
  BY DEF Lands
<1>1. PICK w : Moves(h, s, w)
  BY <1>0
<1>2. Profiles' = Profiles
  BY DEF Profiles, settings
<1>3. \A k \in Handlers :
         stage'[k] \in ProfileStages => work'[k].profile \in Profiles' \union {None}
  BY <1>1, <1>2, RefsKept
<1>4. QED
  BY <1>2, <1>3 DEF SettingsInv, SettingsTypeOK, settings

\* A write of the profile that ends at a stage with no profile.
LEMMA StoredType ==
    ASSUME RequestsInv, SettingsInv, NEW h \in Handlers, NEW S, Lands(h, S),
           S \intersect ProfileStages = {},
           NEW p \in Profiles \union {None}, NEW copy \in Metas, NEW column \in Metas,
           NEW saves, Puts(p, copy, column, saves), lastSecret' \in 0..MaxSecrets
    PROVE  SettingsInv'
<1>0. PICK s \in S : \E w : Moves(h, s, w)
  BY DEF Lands
<1>1. PICK w : Moves(h, s, w)
  BY <1>0
<1>2. /\ profiles' \in [ProfileIds -> Metas \union {None}]
      /\ saved' \in [ProfileIds -> Metas \union {None}]
      /\ Profiles \subseteq Profiles'
      /\ \A r \in Profiles' : saved'[r] \in Metas
  BY PutsType
<1>3. \A k \in Handlers :
         stage'[k] \in ProfileStages => work'[k].profile \in Profiles' \union {None}
  BY <1>1, <1>2, RefsKept
<1>4. QED
  BY <1>2, <1>3 DEF SettingsInv, SettingsTypeOK

\* A request that has read profile p.
LEMMA ProfileReadType ==
    ASSUME RequestsInv, SettingsInv, NEW h \in Handlers, NEW s, NEW w, Moves(h, s, w),
           s \in ProfileStages => w.profile \in Found, UNCHANGED settings
    PROVE  SettingsInv'
<1>1. Profiles' = Profiles
  BY DEF Profiles, settings
<1>2. \A k \in Handlers :
         stage'[k] \in ProfileStages => work'[k].profile \in Profiles' \union {None}
  BY <1>1, RefsKept DEF Found
<1>3. QED
  BY <1>1, <1>2 DEF SettingsInv, SettingsTypeOK, settings

SettingStages == {"save", "profile", "secret", "register", "done"}
Settled == {"register", "done"}

LEMMA SettingSavedType ==
    ASSUME TypeInv, NEW h \in Handlers, SettingSaved(h)
    PROVE  Lands(h, Settled) /\ SettingsInv'
<1> DEFINE w == work[h]
           entry == Resolved(w.copy, w.section, w.ask)
           column == Written(w.copy, w.section, entry)
<1>1. w \in SaveWork /\ w.profile \in Profiles \union {None}
  BY DEF SettingSaved, TypeInv, RequestsInv, SettingsInv, Holds, ProfileStages
<1>2. w.copy \in Metas /\ w.section \in Sections /\ w.ask \in Asks(w.section)
  BY <1>1 DEF SaveWork
<1>3. entry \in Entries /\ column \in Metas
  BY <1>2, ResolvedType, EntryTypes DEF SettingSaved, TypeInv, SettingsInv
<1>4. lastSecret' \in 0..MaxSecrets
  BY <1>3 DEF SettingSaved, Entries, TypeInv, SettingsInv, SettingsTypeOK
<1>5. PICK bot \in BOOLEAN :
         Stores(h, w.profile, w.copy, w.section, entry, IF bot THEN "register" ELSE "done")
  BY DEF SettingSaved
<1>6. Lands(h, Settled)
  BY <1>5, Landing, LandsWider DEF Stores, Settled, TypeInv
<1>7. Puts(w.profile, w.copy, column, {w.section})
  BY <1>5 DEF Stores
<1>8. Settled \intersect ProfileStages = {}
  BY DEF Settled, ProfileStages, SetupStages
<1>9. QED
  <2> HIDE DEF w, entry, column
  <2>1. QED
    BY <1>1, <1>2, <1>3, <1>4, <1>6, <1>7, <1>8, StoredType DEF TypeInv

LEMMA SecretMadeType ==
    ASSUME TypeInv, NEW h \in Handlers, SecretMade(h)
    PROVE  Lands(h, Settled) /\ SettingsInv'
<1> DEFINE w == work[h]
           old == w.copy["channels"]
           entry == [old EXCEPT !.on = "set", !.secret = lastSecret + 1]
           column == Written(w.copy, "channels", entry)
<1>1. w \in [profile: ProfileIds, copy: Metas] /\ w.profile \in Profiles \union {None}
  BY DEF SecretMade, TypeInv, RequestsInv, SettingsInv, Holds, ProfileStages
<1>2. w.copy \in Metas /\ old \in Entries
  BY <1>1, SectionNames DEF Metas
<1>3. lastSecret + 1 \in 0..MaxSecrets
  BY SettingsAssumption DEF SecretMade, TypeInv, SettingsInv, SettingsTypeOK
<1>4. entry \in Entries
  BY <1>2, <1>3 DEF Entries
<1>5. column \in Metas
  BY <1>2, <1>4, EntryTypes, SectionNames
<1>6. Stores(h, w.profile, w.copy, "channels", entry, "done") /\ lastSecret' = lastSecret + 1
  BY DEF SecretMade
<1>7. Lands(h, Settled)
  BY <1>6, Landing, LandsWider DEF Stores, Settled, TypeInv
<1>8. Puts(w.profile, w.copy, column, {"channels"})
  BY <1>6 DEF Stores
<1>9. Settled \intersect ProfileStages = {}
  BY DEF Settled, ProfileStages, SetupStages
<1>10. QED
  <2> HIDE DEF w, old, entry, column
  <2>1. QED
    BY <1>1, <1>2, <1>3, <1>5, <1>6, <1>7, <1>8, <1>9, StoredType DEF TypeInv

LEMMA ProfileSavedType ==
    ASSUME TypeInv, NEW h \in Handlers, ProfileSaved(h)
    PROVE  Lands(h, Settled) /\ SettingsInv'
<1>1. Lands(h, Settled)
  BY Landing, LandsWider DEF ProfileSaved, Settled, TypeInv
<1>2. Settled \intersect ProfileStages = {}
  BY DEF Settled, ProfileStages, SetupStages
<1>3. lastSecret' \in 0..MaxSecrets
  BY DEF ProfileSaved, TypeInv, SettingsInv, SettingsTypeOK
<1>4. CASE work[h].profile = None
  <2>1. Puts(None, Blank, Blank, {})
    BY <1>4 DEF ProfileSaved
  <2>2. QED
    BY <1>1, <1>2, <1>3, <2>1, EntryTypes, StoredType DEF TypeInv
<1>5. CASE work[h].profile # None
  <2>1. UNCHANGED settings
    BY <1>5 DEF ProfileSaved, settings
  <2>2. QED
    BY <1>1, <1>2, <2>1, SettingsKeptType DEF TypeInv
<1>6. QED
  BY <1>4, <1>5

LEMMA SettingsStepType ==
    ASSUME TypeInv, NEW h \in Handlers, SettingsNext(h)
    PROVE  Lands(h, SettingStages) /\ SettingsInv'
<1> USE DEF TypeInv
<1>a. Settled \subseteq SettingStages
  BY DEF Settled, SettingStages
<1>1. CASE SettingLoaded(h)
  <2>0. PICK p \in Found, s \in Sections : \E ask \in Asks(s) :
          Reads(h, "save", [profile |-> p, copy |-> ColumnOf(p), section |-> s, ask |-> ask])
    BY <1>1 DEF SettingLoaded
  <2>1. PICK ask \in Asks(s) :
          Reads(h, "save", [profile |-> p, copy |-> ColumnOf(p), section |-> s, ask |-> ask])
    BY <2>0
  <2> DEFINE w == [profile |-> p, copy |-> ColumnOf(p), section |-> s, ask |-> ask]
  <2>2. Holds("save", w)
    BY EntryTypes DEF Holds, SetupStages, SaveWork, SettingsInv
  <2>3. Lands(h, {"save"}) /\ Moves(h, "save", w)
    BY <2>1, <2>2, ReadsLand, ReadsMove DEF Stages, Resting
  <2>4. SettingsInv'
    BY <1>1, <2>3, ProfileReadType DEF SettingLoaded
  <2>5. QED
    BY <2>3, <2>4, LandsWider DEF SettingStages
<1>2. CASE SettingSaved(h)
  BY <1>2, <1>a, SettingSavedType, LandsWider
<1>3. CASE SettingRefused(h)
  <2>1. Lands(h, {"done"})
    BY <1>3, Landing DEF SettingRefused
  <2>2. {"done"} \intersect ProfileStages = {}
    BY DEF ProfileStages, SetupStages
  <2>3. SettingsInv'
    BY <1>3, <2>1, <2>2, SettingsKeptType DEF SettingRefused
  <2>4. QED
    BY <2>1, <2>3, LandsWider DEF SettingStages
<1>4. CASE ProfileLoaded(h)
  <2>1. PICK p \in Found : Reads(h, "profile", [profile |-> p])
    BY <1>4 DEF ProfileLoaded
  <2>2. Holds("profile", [profile |-> p])
    BY EntryTypes DEF Holds, SetupStages, SettingsInv
  <2>3. Lands(h, {"profile"}) /\ Moves(h, "profile", [profile |-> p])
    BY <2>1, <2>2, ReadsLand, ReadsMove DEF Stages, Resting
  <2>4. SettingsInv'
    BY <1>4, <2>3, ProfileReadType DEF ProfileLoaded
  <2>5. QED
    BY <2>3, <2>4, LandsWider DEF SettingStages
<1>5. CASE ProfileSaved(h)
  BY <1>5, <1>a, ProfileSavedType, LandsWider
<1>6. CASE ConfigLoaded(h)
  <2>1. PICK p \in Found :
          Goes(h, IF SecretMissing(p) THEN "secret" ELSE "done",
               [profile |-> p, copy |-> ColumnOf(p)])
    BY <1>6 DEF ConfigLoaded
  <2> DEFINE s == IF SecretMissing(p) THEN "secret" ELSE "done"
             w == IF SecretMissing(p) THEN [profile |-> p, copy |-> ColumnOf(p)] ELSE None
  <2>2. Moves(h, s, w)
    BY <1>6, <2>1 DEF ConfigLoaded, Goes, Moves, RequestsInv, Resting
  <2>3. Holds(s, w)
    BY EntryTypes DEF Holds, SetupStages, SettingsInv, SecretMissing, ProfileRefs
  <2>4. Lands(h, SettingStages)
    BY <2>2, <2>3 DEF Lands, SettingStages, Resting
  <2>5. s \in ProfileStages => w.profile \in Found
    BY DEF ProfileStages, SetupStages
  <2>6. UNCHANGED settings
    BY <1>6 DEF ConfigLoaded
  <2>7. SettingsInv'
    <3> HIDE DEF s, w
    <3>1. QED
      BY <2>2, <2>5, <2>6, ProfileReadType
  <2>8. QED
    BY <2>4, <2>7
<1>7. CASE SecretMade(h)
  BY <1>7, <1>a, SecretMadeType, LandsWider
<1>8. QED
  BY <1>1, <1>2, <1>3, <1>4, <1>5, <1>6, <1>7 DEF SettingsNext

----------------------------------------------------------------------------

\* Accounts.
AccountStages == {"newUser", "sso", "user", "dropUser", "password", "done"}

LEMMA AccountsKept ==
    ASSUME AccountsTypeOK, UNCHANGED accounts
    PROVE  AccountsTypeOK'
  BY DEF AccountsTypeOK, accounts

\* A new row, with the next id and the next password.
LEMMA NewRowType ==
    ASSUME AccountsTypeOK, NEW address \in Addresses, NEW role \in Roles,
           nextUser \in UserIds, lastPassword < MaxPasswords
    PROVE  /\ [address |-> address, role |-> role, active |-> TRUE,
               password |-> lastPassword + 1] \in UserRows
           /\ nextUser + 1 \in UserIds \union {Cardinality(UserIds) + 1}
           /\ lastPassword + 1 \in Passwords
           /\ lastPassword + 1 \in 0..MaxPasswords
<1>1. lastPassword + 1 \in Passwords
  BY AccountAssumption DEF AccountsTypeOK, Passwords
<1>2. nextUser + 1 \in UserIds \union {Cardinality(UserIds) + 1}
  BY AccountAssumption, Sequels
<1>3. QED
  BY <1>1, <1>2 DEF UserRows, Passwords

LEMMA UpdatedType ==
    ASSUME NEW row \in UserRows, NEW own \in BOOLEAN, NEW admin \in BOOLEAN,
           NEW ask \in UserAsks, NEW password \in Nat,
           ask.password => password \in Passwords
    PROVE  UserUpdated(row, own, admin, ask, password) \in UserRows
<1>1. /\ Sent(ask.address, row.address) \in Addresses
      /\ Sent(ask.role, row.role) \in Roles
      /\ Sent(ask.active, row.active) \in BOOLEAN
  BY DEF Sent, UserAsks, UserRows
<1>2. QED
  BY <1>1 DEF UserUpdated, UserRows

LEMMA NewUserType ==
    ASSUME TypeInv, NEW h \in Handlers,
           UserCounted(h) \/ UserInserted(h) \/ SignOnRead(h) \/ SignedOn(h)
    PROVE  Lands(h, AccountStages) /\ AccountsTypeOK'
<1> USE DEF TypeInv
<1>1. CASE UserCounted(h)
  <2>1. PICK address \in Addresses, role \in Roles, invited \in BOOLEAN :
          Reads(h, "newUser", [address |-> address, role |-> role, invited |-> invited])
    BY <1>1 DEF UserCounted
  <2>2. Lands(h, {"newUser"})
    BY <2>1, ReadsLand DEF Stages, Resting, Holds, SetupStages
  <2>3. QED
    BY <1>1, <2>2, LandsWider, AccountsKept DEF UserCounted, AccountStages
<1>2. CASE UserInserted(h)
  <2> DEFINE w == work[h]
             row == [address |-> w.address, role |-> w.role, active |-> TRUE,
                     password |-> lastPassword + 1]
  <2>1. w \in [address: Addresses, role: Roles, invited: BOOLEAN]
    BY <1>2 DEF UserInserted, RequestsInv, Holds
  <2>2. CASE Taken(w.address, None)
    BY <1>2, <2>2, Landing, LandsWider, AccountsKept DEF UserInserted, AccountStages
  <2>3. CASE ~Taken(w.address, None)
    <3>1. Lands(h, AccountStages)
      BY <1>2, <2>3, Landing, LandsWider DEF UserInserted, AccountStages
    <3>2. /\ nextUser \in UserIds /\ lastPassword < MaxPasswords
          /\ users' = [users EXCEPT ![nextUser] = row]
          /\ nextUser' = nextUser + 1 /\ lastPassword' = lastPassword + 1
          /\ links' \subseteq links \union {<<nextUser, lastPassword + 1>>}
          /\ UNCHANGED <<outlived, demoted>>
      BY <1>2, <2>3 DEF UserInserted
    <3>3. /\ row \in UserRows /\ nextUser + 1 \in UserIds \union {Cardinality(UserIds) + 1}
          /\ lastPassword + 1 \in Passwords /\ lastPassword + 1 \in 0..MaxPasswords
      BY <2>1, <3>2, NewRowType
    <3>4. QED
      BY <3>1, <3>2, <3>3 DEF AccountsTypeOK
  <2>4. QED
    BY <2>2, <2>3
<1>3. CASE SignOnRead(h)
  <2>1. PICK address \in Addresses : Reads(h, "sso", [address |-> address])
    BY <1>3 DEF SignOnRead
  <2>2. Lands(h, {"sso"})
    BY <2>1, ReadsLand DEF Stages, Resting, Holds, SetupStages
  <2>3. QED
    BY <1>3, <2>2, LandsWider, AccountsKept DEF SignOnRead, AccountStages
<1>4. CASE SignedOn(h)
  <2>1. work[h].address \in Addresses
    BY <1>4 DEF SignedOn, RequestsInv, Holds
  <2>2. CASE Taken(work[h].address, None)
    BY <1>4, <2>2, Landing, LandsWider, AccountsKept DEF SignedOn, AccountStages
  <2>3. CASE ~Taken(work[h].address, None)
    <3>1. Lands(h, AccountStages)
      BY <1>4, <2>3, Landing, LandsWider DEF SignedOn, AccountStages
    <3>2. QED
      BY <1>4, <2>1, <2>3, <3>1, NewRowType DEF SignedOn, AccountsTypeOK, Roles
  <2>4. QED
    BY <2>2, <2>3
<1>5. QED
  BY <1>1, <1>2, <1>3, <1>4

LEMMA UserSavedType ==
    ASSUME TypeInv, NEW h \in Handlers, UserSaved(h)
    PROVE  Lands(h, AccountStages) /\ AccountsTypeOK' /\ Users' = Users
<1> USE DEF TypeInv
<1> DEFINE w == work[h]
           new == UserUpdated(w.row, w.actor = w.user, w.admin, w.ask, lastPassword + 1)
           old == users[w.user]
           row == [address  |-> Kept(old.address, w.row.address, new.address),
                   role     |-> Kept(old.role, w.row.role, new.role),
                   active   |-> Kept(old.active, w.row.active, new.active),
                   password |-> Kept(old.password, w.row.password, new.password)]
<1>1. w \in UserWork
  BY DEF UserSaved, RequestsInv, Holds
<1>2. w.row \in UserRows /\ w.ask \in UserAsks /\ w.admin \in BOOLEAN /\ w.user \in UserIds
  BY <1>1 DEF UserWork
<1>3. CASE old = None \/ (new.address # w.row.address /\ Taken(new.address, w.user))
  BY <1>3, Landing, LandsWider, AccountsKept DEF UserSaved, AccountStages, accounts, Users
<1>4. CASE ~(old = None \/ (new.address # w.row.address /\ Taken(new.address, w.user)))
  <2>1. Lands(h, AccountStages)
    BY <1>4, Landing, LandsWider DEF UserSaved, AccountStages
  <2>2. /\ new.password <= MaxPasswords
        /\ users' = [users EXCEPT ![w.user] = row]
        /\ lastPassword' = IF w.ask.password THEN new.password ELSE lastPassword
        /\ demoted' = (demoted \/ (Admins # {} /\ Admins' = {}))
        /\ UNCHANGED <<nextUser, links, outlived>>
    BY <1>2, <1>4 DEF UserSaved, AccountsTypeOK
  <2>3. w.ask.password => new.password = lastPassword + 1
    BY DEF UserUpdated
  <2>4. lastPassword \in Nat /\ (w.ask.password => lastPassword + 1 \in Passwords)
    BY <2>2, <2>3, AccountAssumption DEF AccountsTypeOK, Passwords
  <2>5. new \in UserRows
    <3>1. (w.actor = w.user) \in BOOLEAN /\ lastPassword + 1 \in Nat
      BY <2>4
    <3>2. QED
      BY <1>2, <2>4, <3>1, UpdatedType, Zenon
  <2>6. row \in UserRows
    BY <1>2, <1>4, <2>5 DEF UserRows, Kept, AccountsTypeOK
  <2>7. lastPassword' \in 0..MaxPasswords
    BY <2>2, <2>3, <2>4, AccountAssumption DEF AccountsTypeOK, Passwords
  <2>8. users' \in [UserIds -> UserRows \union {None}]
    BY <1>2, <2>2, <2>6 DEF AccountsTypeOK
  <2>9. demoted' \in BOOLEAN
    BY <2>2 DEF AccountsTypeOK
  <2>10. Users' = Users
    <3>1. row # None
      BY <2>6, RowAssumption
    <3> HIDE DEF row
    <3>2. QED
      BY <1>2, <1>4, <2>2, <3>1 DEF Users, AccountsTypeOK
  <2>11. QED
    BY <2>1, <2>2, <2>7, <2>8, <2>9, <2>10 DEF AccountsTypeOK
<1>5. QED
  BY <1>3, <1>4

LEMMA AccountsStepType ==
    ASSUME TypeInv, NEW h \in Handlers, AccountsNext(h)
    PROVE  Lands(h, AccountStages) /\ AccountsTypeOK'
<1> USE DEF TypeInv
<1>1. CASE UserLoaded(h)
  <2>1. PICK actor \in ActiveUsers, u \in Users, ask \in UserAsks :
          Reads(h, "user", [actor |-> actor, admin |-> actor \in Admins, user |-> u,
                            row |-> users[u], ask |-> ask])
    BY <1>1 DEF UserLoaded
  <2>2. [actor |-> actor, admin |-> actor \in Admins, user |-> u, row |-> users[u], ask |-> ask]
            \in UserWork
    BY DEF UserWork, ActiveUsers, Users, AccountsTypeOK
  <2>3. Lands(h, {"user"})
    BY <2>1, <2>2, ReadsLand DEF Stages, Resting, Holds, SetupStages
  <2>4. QED
    BY <1>1, <2>3, LandsWider, AccountsKept DEF UserLoaded, AccountStages
<1>2. CASE UserChosen(h)
  <2>1. PICK actor \in UserIds, u \in UserIds :
          Reads(h, "dropUser", [actor |-> actor, user |-> u])
    BY <1>2 DEF UserChosen, Users
  <2>2. Lands(h, {"dropUser"})
    BY <2>1, ReadsLand DEF Stages, Resting, Holds, SetupStages
  <2>3. QED
    BY <1>2, <2>2, LandsWider, AccountsKept DEF UserChosen, AccountStages
<1>3. CASE UserDeleted(h)
  <2>1. Lands(h, AccountStages)
    BY <1>3, Landing, LandsWider DEF UserDeleted, AccountStages
  <2>2. QED
    BY <1>3, <2>1 DEF UserDeleted, AccountsTypeOK
<1>4. CASE LinkSent(h)
  <2>1. Moves(h, "done", None)
    BY <1>4 DEF LinkSent, Serves, Goes, history, Moves, RequestsInv, Resting
  <2>2. Lands(h, AccountStages)
    BY <2>1 DEF Lands, AccountStages, Holds, SetupStages
  <2>3. \A u \in ActiveUsers : <<u, users[u].password>> \in UserIds \X Passwords
    BY DEF ActiveUsers, Users, AccountsTypeOK, UserRows
  <2>4. QED
    BY <1>4, <2>2, <2>3 DEF LinkSent, AccountsTypeOK
<1>5. CASE PasswordLoaded(h)
  <2>1. \E u \in UserIds, by \in Passwords : Reads(h, "password", [user |-> u, by |-> by])
    <3>1. CASE \E link \in links : Reads(h, "password", [user |-> link[1], by |-> link[2]])
      BY <3>1 DEF AccountsTypeOK
    <3>2. CASE \E u \in ActiveUsers : Reads(h, "password", [user |-> u, by |-> users[u].password])
      BY <3>2 DEF ActiveUsers, Users, AccountsTypeOK, UserRows
    <3>3. QED
      BY <1>5, <3>1, <3>2 DEF PasswordLoaded
  <2>2. Lands(h, {"password"})
    BY <2>1, ReadsLand DEF Stages, Resting, Holds, SetupStages
  <2>3. QED
    BY <1>5, <2>2, LandsWider, AccountsKept DEF PasswordLoaded, AccountStages
<1>6. CASE PasswordSaved(h)
  <2>1. work[h].user \in UserIds
    BY <1>6 DEF PasswordSaved, RequestsInv, Holds
  <2>2. CASE users[work[h].user] = None
    BY <1>6, <2>2, Landing, LandsWider, AccountsKept DEF PasswordSaved, AccountStages
  <2>3. CASE users[work[h].user] # None
    <3>1. Lands(h, AccountStages)
      BY <1>6, <2>3, Landing, LandsWider DEF PasswordSaved, AccountStages
    <3>2. lastPassword + 1 \in Passwords /\ lastPassword + 1 \in 0..MaxPasswords
      BY <1>6, <2>3, AccountAssumption DEF PasswordSaved, AccountsTypeOK, Passwords
    <3>3. [users[work[h].user] EXCEPT !.password = lastPassword + 1] \in UserRows
      BY <2>1, <2>3, <3>2 DEF AccountsTypeOK, UserRows
    <3>4. users' \in [UserIds -> UserRows \union {None}]
      BY <1>6, <2>1, <2>3, <3>3 DEF PasswordSaved, AccountsTypeOK
    <3>5. outlived' \subseteq UserIds
      BY <1>6, <2>1, <2>3 DEF PasswordSaved, AccountsTypeOK
    <3>6. QED
      BY <1>6, <2>3, <3>1, <3>2, <3>4, <3>5 DEF PasswordSaved, AccountsTypeOK
  <2>4. QED
    BY <2>2, <2>3
<1>7. QED
  BY <1>1, <1>2, <1>3, <1>4, <1>5, <1>6, NewUserType, UserSavedType DEF AccountsNext

----------------------------------------------------------------------------

\* Setup.
SetupLands == {"setup", "flushed", "founded", "seed", "done"}

LEMMA SetupHolds ==
    ASSUME TypeInv, NEW h \in Handlers, stage[h] \in SetupStages
    PROVE  /\ work[h] \in SetupWork
           /\ work[h].profile \in Profiles \union {None}
  BY DEF TypeInv, RequestsInv, Holds, SettingsInv, ProfileStages

\* The commit of the account and of the profile.
LEMMA SetupRowsType ==
    ASSUME TypeInv, NEW h \in Handlers, stage[h] \in SetupStages, NEW column \in Metas,
           NEW saves, NEW next \in {"founded", "done"}, NEW then,
           next = "founded" => then = [work[h] EXCEPT !.founded = TRUE],
           next = "done" => then = None,
           SetupRows(h, column, saves, next, then)
    PROVE  /\ Lands(h, {next}) /\ UNCHANGED lastSecret
           /\ SettingsInv' /\ AccountsTypeOK' /\ founders' \subseteq UserIds
<1> USE DEF TypeInv
<1> DEFINE w == work[h]
           row == [address |-> w.address, role |-> "admin", active |-> TRUE,
                   password |-> lastPassword + 1]
<1>1. w \in SetupWork /\ w.profile \in Profiles \union {None}
  BY SetupHolds
<1>2. /\ nextUser \in UserIds /\ lastPassword < MaxPasswords
      /\ users' = [users EXCEPT ![nextUser] = row]
      /\ founders' = founders \union {nextUser}
      /\ nextUser' = nextUser + 1
      /\ lastPassword' = lastPassword + 1
      /\ Puts(w.profile, w.copy, column, saves)
      /\ UNCHANGED <<lastSecret, links, outlived, demoted>>
      /\ \E changed, relied : Commits(h, changed, relied, next, then)
  BY DEF SetupRows
<1>3. AccountsTypeOK'
  <2>1. /\ row \in UserRows /\ nextUser + 1 \in UserIds \union {Cardinality(UserIds) + 1}
        /\ lastPassword + 1 \in Passwords /\ lastPassword + 1 \in 0..MaxPasswords
    BY <1>1, <1>2, NewRowType DEF SetupWork, Roles
  <2>2. QED
    BY <1>2, <2>1 DEF AccountsTypeOK
<1>4. CASE next = "done"
  <2>1. Lands(h, {next})
    BY <1>2, <1>4, Landing
  <2>2. {next} \intersect ProfileStages = {}
    BY <1>4 DEF ProfileStages, SetupStages
  <2>3. lastSecret' \in 0..MaxSecrets
    BY <1>2 DEF SettingsInv, SettingsTypeOK
  <2>4. w.copy \in Metas
    BY <1>1 DEF SetupWork
  <2>5. SettingsInv'
    BY <1>1, <1>2, <2>1, <2>2, <2>3, <2>4, StoredType
  <2>6. QED
    BY <1>2, <1>3, <2>1, <2>5 DEF SetupTypeOK
<1>5. CASE next = "founded"
  <2>1. Moves(h, "founded", then)
    BY <1>2, <1>5, CommitsMove DEF Stages, Resting
  <2>2. then \in SetupWork /\ then.profile = w.profile
    BY <1>1, <1>5 DEF SetupWork
  <2>3. Holds("founded", then)
    BY <2>2 DEF Holds, SetupStages
  <2>4. Lands(h, {next})
    BY <1>5, <2>1, <2>3 DEF Lands, Resting
  <2>5. /\ profiles' \in [ProfileIds -> Metas \union {None}]
        /\ saved' \in [ProfileIds -> Metas \union {None}]
        /\ Profiles \subseteq Profiles'
        /\ \A r \in Profiles' : saved'[r] \in Metas
    BY <1>1, <1>2, PutsType DEF SetupWork
  <2>6. \A k \in Handlers :
           stage'[k] \in ProfileStages => work'[k].profile \in Profiles' \union {None}
    BY <1>1, <2>1, <2>2, <2>5, RefsKept
  <2>7. SettingsInv'
    BY <1>2, <2>5, <2>6 DEF SettingsInv, SettingsTypeOK
  <2>8. QED
    BY <1>2, <1>3, <2>4, <2>7 DEF SetupTypeOK
<1>6. QED
  BY <1>4, <1>5

LEMMA ScopesKept ==
    ASSUME ScopesInv, UNCHANGED scopes
    PROVE  ScopesInv'
  BY DEF ScopesInv, ScopesTypeOK, Agents, Docs, scopes

LEMMA SetupReadsType ==
    ASSUME TypeInv, NEW h \in Handlers,
           SetupBegun(h) \/ SetupFlushed(h) \/ SetupCounted(h)
    PROVE  Lands(h, SetupLands) /\ SettingsInv'
<1> USE DEF TypeInv
<1>1. CASE SetupBegun(h)
  <2>1. PICK address \in Addresses, email \in Asks("email") :
          Reads(h, "setup", [address |-> address, email |-> email])
    BY <1>1 DEF SetupBegun
  <2>2. Lands(h, {"setup"})
    BY <2>1, ReadsLand DEF Stages, Resting, Holds, SetupStages
  <2>3. {"setup"} \intersect ProfileStages = {}
    BY DEF ProfileStages, SetupStages
  <2>4. QED
    BY <1>1, <2>2, <2>3, SettingsKeptType, LandsWider DEF SetupBegun, SetupLands
<1>2. CASE SetupFlushed(h)
  <2>1. work[h] \in [address: Addresses, email: Asks("email")]
    BY <1>2 DEF SetupFlushed, RequestsInv, Holds
  <2>2. CASE Taken(work[h].address, None)
    <3>1. Lands(h, {"done"})
      BY <1>2, <2>2, Landing DEF SetupFlushed
    <3>2. {"done"} \intersect ProfileStages = {}
      BY DEF ProfileStages, SetupStages
    <3>3. QED
      BY <1>2, <3>1, <3>2, SettingsKeptType, LandsWider DEF SetupFlushed, SetupLands
  <2>3. CASE ~Taken(work[h].address, None)
    <3> DEFINE held(p) == [address |-> work[h].address, email |-> work[h].email, profile |-> p,
                           copy |-> ColumnOf(p), founded |-> FALSE, seed |-> FALSE]
    <3>1. PICK p \in Found : Reads(h, "flushed", held(p))
      BY <1>2, <2>3 DEF SetupFlushed
    <3>2. held(p) \in SetupWork
      BY <2>1, EntryTypes DEF SetupWork, SettingsInv
    <3>3. Lands(h, {"flushed"}) /\ Moves(h, "flushed", held(p))
      BY <3>1, <3>2, ReadsLand, ReadsMove DEF Stages, Resting, Holds, SetupStages
    <3>4. SettingsInv'
      BY <1>2, <3>3, ProfileReadType DEF SetupFlushed
    <3>5. QED
      BY <3>3, <3>4, LandsWider DEF SetupLands
  <2>4. QED
    BY <2>2, <2>3
<1>3. CASE SetupCounted(h)
  <2> DEFINE new == [work[h] EXCEPT !.seed = (Agents = {})]
  <2>1. work[h] \in SetupWork /\ work[h].profile \in Profiles \union {None}
    BY <1>3, SetupHolds DEF SetupCounted, SetupStages
  <2>2. (Agents = {}) \in BOOLEAN
    OBVIOUS
  <2>3. new \in SetupWork /\ new.profile = work[h].profile
    BY <2>1, <2>2 DEF SetupWork
  <2>4. Reads(h, "seed", new)
    BY <1>3 DEF SetupCounted
  <2>5. Lands(h, {"seed"}) /\ Moves(h, "seed", new)
    BY <2>3, <2>4, ReadsLand, ReadsMove DEF Stages, Resting, Holds, SetupStages
  <2>6. Profiles' = Profiles /\ UNCHANGED settings
    BY <1>3 DEF SetupCounted, Profiles, settings
  <2>7. \A k \in Handlers :
           stage'[k] \in ProfileStages => work'[k].profile \in Profiles' \union {None}
    BY <2>1, <2>3, <2>5, <2>6, RefsKept
  <2>8. SettingsInv'
    BY <2>6, <2>7 DEF SettingsInv, SettingsTypeOK, settings
  <2>9. QED
    BY <2>5, <2>8, LandsWider DEF SetupLands
<1>4. QED
  BY <1>1, <1>2, <1>3

LEMMA SetupMailedType ==
    ASSUME TypeInv, NEW h \in Handlers, SetupMailed(h)
    PROVE  Lands(h, SetupLands) /\ SettingsInv' /\ AccountsTypeOK' /\ founders' \subseteq UserIds
<1> USE DEF TypeInv
<1> DEFINE w == work[h]
           entry == Resolved(w.copy, "email", w.email)
           refused == Taken(w.address, None) \/ ~Acceptable(w.copy, "email", w.email)
<1>1. stage[h] \in SetupStages /\ w \in SetupWork
  BY SetupHolds DEF SetupMailed, SetupStages
<1>2. CASE refused
  <2>1. Refused(h) /\ UNCHANGED <<settings, accounts, founders>>
    BY <1>2 DEF SetupMailed
  <2>2. Lands(h, {"done"})
    BY <2>1, Landing
  <2>3. {"done"} \intersect ProfileStages = {}
    BY DEF ProfileStages, SetupStages
  <2>4. Lands(h, SetupLands)
    BY <2>2, LandsWider DEF SetupLands
  <2>5. QED
    BY <2>1, <2>2, <2>3, <2>4, SettingsKeptType, AccountsKept DEF SetupTypeOK
<1>3. CASE ~refused
  <2>1. SetupRows(h, Written(w.copy, "email", entry), {"email"}, "founded",
                  [w EXCEPT !.founded = TRUE])
    BY <1>3 DEF SetupMailed
  <2>2. w.copy \in Metas /\ w.email \in Asks("email") /\ "email" \in Sections
    BY <1>1, SectionNames DEF SetupWork
  <2>3. entry.secret <= MaxSecrets
    BY <2>2, SettingsAssumption DEF Resolved, NoEntry
  <2>4. entry \in Entries
    BY <2>2, <2>3, ResolvedType DEF SettingsInv
  <2>5. Written(w.copy, "email", entry) \in Metas
    BY <2>2, <2>4, EntryTypes
  <2> HIDE DEF w, entry
  <2>6. /\ Lands(h, {"founded"}) /\ SettingsInv' /\ AccountsTypeOK' /\ founders' \subseteq UserIds
    BY <1>1, <2>1, <2>5, SetupRowsType DEF w
  <2>7. QED
    BY <2>6, LandsWider DEF SetupLands
<1>4. QED
  BY <1>2, <1>3

LEMMA SetupEndsType ==
    ASSUME TypeInv, NEW h \in Handlers, SetupEnds(h)
    PROVE  /\ Lands(h, SetupLands) /\ ScopesInv' /\ SettingsInv' /\ AccountsTypeOK'
           /\ SetupTypeOK'
<1> USE DEF TypeInv
<1> DEFINE w == work[h]
           refused == \/ w.seed /\ primary # None /\ agents[primary] # None
                      \/ ~w.founded /\ Taken(w.address, None)
<1>1. stage[h] \in SetupStages /\ w \in SetupWork
  BY SetupHolds DEF SetupEnds, SetupStages
<1>a. {"done"} \intersect ProfileStages = {}
  BY DEF ProfileStages, SetupStages
<1>2. CASE refused
  <2>1. Refused(h) /\ UNCHANGED <<scopes, settings, accounts, setup>>
    BY <1>2 DEF SetupEnds, setup
  <2>2. Lands(h, {"done"})
    BY <2>1, Landing
  <2>3. Lands(h, SetupLands)
    BY <2>2, LandsWider DEF SetupLands
  <2>4. QED
    BY <1>a, <2>1, <2>2, <2>3, SettingsKeptType, AccountsKept, ScopesKept DEF SetupTypeOK, setup
<1>3. CASE ~refused
  <2>1. ScopesInv' /\ primary' \in AgentIds \union {None}
    <3>1. CASE w.seed
      <4> DEFINE row == [first |-> None, groups |-> << >>, tags |-> {}, bot |-> FALSE]
                 scope == [first |-> None, groups |-> {}, tags |-> {}]
      <4>1. /\ nextAgent \in AgentIds
            /\ agents' = [agents EXCEPT ![nextAgent] = row]
            /\ agentAsked' = [agentAsked EXCEPT ![nextAgent] = scope]
            /\ nextAgent' = nextAgent + 1
            /\ primary' = nextAgent
            /\ UNCHANGED <<groups, docs, nextGroup, docAsked>>
        BY <1>3, <3>1 DEF SetupEnds
      <4>2. row \in AgentRows /\ scope \in AgentScopes
        BY ScopeAssumption DEF AgentRows, Lists, AgentScopes
      <4>3. nextAgent' \in AgentIds \union {Cardinality(AgentIds) + 1}
        BY <4>1, ScopeAssumption, Sequels
      <4> HIDE DEF row, scope
      <4>4. QED
        BY <4>1, <4>2, <4>3 DEF ScopesInv, ScopesTypeOK, Agents, Docs
    <3>2. CASE ~w.seed
      BY <1>3, <3>2, ScopesKept DEF SetupEnds, SetupTypeOK
    <3>3. QED
      BY <3>1, <3>2
  <2>2. CASE w.founded
    <3>1. /\ Commits(h, {}, {}, "done", None)
          /\ UNCHANGED <<settings, accounts, founders, halved>>
      BY <1>3, <2>2 DEF SetupEnds
    <3>2. Lands(h, {"done"})
      BY <3>1, Landing
    <3>3. Lands(h, SetupLands)
      BY <3>2, LandsWider DEF SetupLands
    <3>4. QED
      BY <1>a, <2>1, <3>1, <3>2, <3>3, SettingsKeptType, AccountsKept DEF SetupTypeOK
  <2>3. CASE ~w.founded
    <3>1. SetupRows(h, w.copy, {}, "done", None) /\ UNCHANGED halved
      BY <1>3, <2>3 DEF SetupEnds
    <3>2. w.copy \in Metas
      BY <1>1 DEF SetupWork
    <3>3. /\ Lands(h, {"done"}) /\ SettingsInv' /\ AccountsTypeOK' /\ founders' \subseteq UserIds
      BY <1>1, <3>1, <3>2, SetupRowsType
    <3>4. Lands(h, SetupLands)
      BY <3>3, LandsWider DEF SetupLands
    <3>5. QED
      BY <2>1, <3>1, <3>3, <3>4 DEF SetupTypeOK
  <2>4. QED
    BY <2>2, <2>3
<1>4. QED
  BY <1>2, <1>3

LEMMA InitType == Init => TypeInv
<1> SUFFICES ASSUME Init PROVE TypeInv
  OBVIOUS
<1>1. RequestsInv
  BY SceneAssumption DEF Init, RequestsInit, RequestsInv, Stages, Resting, Holds, SetupStages
<1>2. ScopesInv
  BY <1>1, ScopesInitType DEF Init, RequestsInv
<1>3. SettingsInv
  <2> DEFINE column == [s \in Sections |-> IF s = "email" THEN scene.email ELSE NoEntry]
  <2>1. column \in Metas
    BY <1>1, EntryTypes, EntryAssumption DEF RequestsInv, Metas
  <2>2. profiles = [p \in ProfileIds |-> IF scene.ready /\ p = 1 THEN column ELSE None]
    BY DEF Init, SettingsInit
  <2>3. saved = profiles /\ lastSecret = 0 /\ 0 \in 0..MaxSecrets
    BY SettingsAssumption DEF Init, SettingsInit
  <2>4. \A h \in Handlers : stage[h] \notin ProfileStages
    BY DEF Init, RequestsInit, ProfileStages, SetupStages
  <2> HIDE DEF column
  <2>5. QED
    BY <2>1, <2>2, <2>3, <2>4 DEF SettingsInv, SettingsTypeOK, Profiles
<1>4. AccountsTypeOK
  <2>1. Cardinality(UserIds) \in Nat /\ 1 \in UserIds /\ UserIds = 1..Cardinality(UserIds)
    BY AccountAssumption, Sequels DEF Numbered
  <2>2. CASE ~scene.ready
    <3>1. Cardinality({}) = 0
      BY FS_EmptySet
    <3>2. /\ users = [u \in UserIds |-> None] /\ nextUser = 1 /\ lastPassword = 0
          /\ links = {} /\ outlived = {} /\ demoted = FALSE
      BY <2>2, <3>1 DEF Init, AccountsInit
    <3>3. 0 \in 0..MaxPasswords
      BY AccountAssumption
    <3>4. QED
      BY <2>1, <3>2, <3>3 DEF AccountsTypeOK
  <2>3. CASE scene.ready
    <3> DEFINE address == CHOOSE f \in [{1, 2} -> Addresses] : f[1] # f[2]
               row(u) == [address |-> address[u], role |-> "admin", active |-> TRUE, password |-> u]
    <3>1. 2 \in UserIds /\ 2 <= MaxPasswords /\ \E a, b \in Addresses : a # b
      BY <1>1, <2>3, AccountAssumption DEF RequestsInv
    <3>2. \E f \in [{1, 2} -> Addresses] : f[1] # f[2]
      <4>1. PICK a \in Addresses, b \in Addresses : a # b
        BY <3>1
      <4> DEFINE f == [i \in {1, 2} |-> IF i = 1 THEN a ELSE b]
      <4>2. f \in [{1, 2} -> Addresses] /\ f[1] # f[2]
        BY <4>1
      <4> HIDE DEF f
      <4>3. QED
        BY <4>2
    <3>3. address \in [{1, 2} -> Addresses]
      BY <3>2
    <3>4. Cardinality({1, 2}) = 2
      <4>1. {1, 2} = 1..2
        OBVIOUS
      <4>2. Cardinality(1..2) = IF 1 > 2 THEN 0 ELSE 2 - 1 + 1
        <5>1. 1 \in Int /\ 2 \in Int
          OBVIOUS
        <5>2. QED
          BY <5>1, FS_Interval, Zenon
      <4>3. QED
        BY <4>1, <4>2
    <3>5. row(1) \in UserRows /\ row(2) \in UserRows
      BY <3>1, <3>3, AccountAssumption DEF UserRows, Roles, Passwords
    <3>6. users = [u \in UserIds |-> IF u \notin {1, 2} THEN None ELSE row(u)]
      BY <2>3 DEF Init, AccountsInit
    <3> HIDE DEF row
    <3>7. users \in [UserIds -> UserRows \union {None}]
      BY <3>5, <3>6
    <3>8. nextUser = 3 /\ lastPassword = 2
      BY <2>3, <3>4 DEF Init, AccountsInit
    <3>9. nextUser \in UserIds \union {Cardinality(UserIds) + 1} /\ lastPassword \in 0..MaxPasswords
      BY <2>1, <3>1, <3>8, AccountAssumption
    <3>10. QED
      BY <3>7, <3>9 DEF Init, AccountsInit, AccountsTypeOK
  <2>4. QED
    BY <2>2, <2>3
<1>5. SetupTypeOK
  BY DEF Init, SetupTypeOK
<1>6. QED
  BY <1>1, <1>2, <1>3, <1>4, <1>5 DEF TypeInv

LEMMA NextType == TypeInv /\ [Next]_vars => TypeInv'
<1> SUFFICES ASSUME TypeInv, [Next]_vars PROVE TypeInv'
  OBVIOUS
<1> USE DEF TypeInv
<1>a. /\ ScopeStages \in SUBSET Stages /\ SettingStages \in SUBSET Stages
      /\ AccountStages \in SUBSET Stages /\ SetupLands \in SUBSET Stages
      /\ {"done"} \in SUBSET Stages
      /\ ScopeStages \intersect ProfileStages = {} /\ AccountStages \intersect ProfileStages = {}
      /\ {"done"} \intersect ProfileStages = {}
  BY DEF ScopeStages, SettingStages, AccountStages, SetupLands, Stages, Resting, ProfileStages,
         SetupStages
<1>1. CASE UNCHANGED vars
  BY <1>1 DEF vars, requests, history, scopes, settings, accounts, setup, RequestsInv, ScopesInv,
              ScopesTypeOK, Agents, Docs, SettingsInv, SettingsTypeOK, Profiles, AccountsTypeOK,
              SetupTypeOK
<1>2. ASSUME NEW h \in Handlers, ScopesNext(h), UNCHANGED <<settings, accounts, setup>>
      PROVE  TypeInv'
  <2>1. Lands(h, ScopeStages) /\ ScopesInv'
    BY <1>2, ScopesStepType
  <2>2. RequestsInv' /\ SettingsInv'
    BY <1>a, <1>2, <2>1, LandsType, SettingsKeptType
  <2>3. QED
    BY <1>2, <2>1, <2>2, AccountsKept DEF SetupTypeOK, setup
<1>3. ASSUME NEW h \in Handlers, SettingsNext(h), UNCHANGED <<accounts, setup>>
      PROVE  TypeInv'
  <2>1. Lands(h, SettingStages) /\ SettingsInv'
    BY <1>3, SettingsStepType
  <2>2. RequestsInv'
    BY <1>a, <2>1, LandsType
  <2>3. UNCHANGED scopes
    BY <1>3 DEF SettingsNext, SettingLoaded, SettingSaved, SettingRefused, ProfileLoaded,
                ProfileSaved, ConfigLoaded, SecretMade, scopes
  <2>4. QED
    BY <1>3, <2>1, <2>2, <2>3, AccountsKept, ScopesKept DEF SetupTypeOK, setup
<1>4. ASSUME NEW h \in Handlers, AccountsNext(h), UNCHANGED setup
      PROVE  TypeInv'
  <2>1. Lands(h, AccountStages) /\ AccountsTypeOK'
    BY <1>4, AccountsStepType
  <2>2. UNCHANGED <<scopes, settings>>
    BY <1>4 DEF AccountsNext, UserCounted, UserInserted, SignOnRead, SignedOn, UserLoaded,
                UserSaved, UserChosen, UserDeleted, LinkSent, PasswordLoaded, PasswordSaved
  <2>3. RequestsInv' /\ SettingsInv'
    BY <1>a, <2>1, <2>2, LandsType, SettingsKeptType
  <2>4. QED
    BY <1>4, <2>1, <2>2, <2>3, ScopesKept DEF SetupTypeOK, setup
<1>5. ASSUME NEW h \in Handlers, SetupNext(h)
      PROVE  TypeInv'
  <2>1. CASE SetupBegun(h) \/ SetupFlushed(h) \/ SetupCounted(h)
    <3>1. Lands(h, SetupLands) /\ SettingsInv'
      BY <2>1, SetupReadsType
    <3>2. UNCHANGED <<scopes, accounts, setup>>
      BY <2>1 DEF SetupBegun, SetupFlushed, SetupCounted
    <3>3. RequestsInv'
      BY <1>a, <3>1, LandsType
    <3>4. QED
      BY <3>1, <3>2, <3>3, AccountsKept, ScopesKept DEF SetupTypeOK, setup
  <2>2. CASE SetupMailed(h)
    <3>1. Lands(h, SetupLands) /\ SettingsInv' /\ AccountsTypeOK' /\ founders' \subseteq UserIds
      BY <2>2, SetupMailedType
    <3>2. UNCHANGED <<scopes, primary, halved>>
      BY <2>2 DEF SetupMailed
    <3>3. RequestsInv'
      BY <1>a, <3>1, LandsType
    <3>4. QED
      BY <3>1, <3>2, <3>3, ScopesKept DEF SetupTypeOK
  <2>3. CASE SetupEnds(h)
    BY <1>a, <2>3, SetupEndsType, LandsType
  <2>4. QED
    BY <1>5, <2>1, <2>2, <2>3 DEF SetupNext
<1>6. ASSUME NEW h \in Handlers, RequestFails(h)
      PROVE  TypeInv'
  <2>1. Lands(h, {"done"})
    BY <1>6, Landing DEF RequestFails
  <2>2. /\ UNCHANGED <<scopes, settings, accounts, primary, founders>>
        /\ halved' = (halved \/ stage[h] = "founded" \/ (stage[h] = "seed" /\ work[h].founded))
    BY <1>6 DEF RequestFails
  <2>3. RequestsInv' /\ SettingsInv'
    BY <1>a, <2>1, <2>2, LandsType, SettingsKeptType
  <2>4. SetupTypeOK'
    BY <1>6, SetupHolds, <2>2 DEF SetupTypeOK, SetupWork, SetupStages
  <2>5. QED
    BY <2>2, <2>3, <2>4, AccountsKept, ScopesKept
<1>7. QED
  BY <1>1, <1>2, <1>3, <1>4, <1>5, <1>6 DEF Next

\* Every row, and everything a request holds, is of its type.
THEOREM AdministrationTypeCorrect == Spec => []TypeOK
<1>1. Init => TypeInv
  BY InitType
<1>2. TypeInv /\ [Next]_vars => TypeInv'
  BY NextType
<1>3. TypeInv => TypeOK
  BY TypeInvIsTypeOK
<1>4. QED
  BY <1>1, <1>2, <1>3, PTL DEF Spec

=============================================================================
