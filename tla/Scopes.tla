------------------------------- MODULE Scopes -------------------------------
(***************************************************************************)
(* Agents, access groups, and the documents and products scoped to them.   *)
(*                                                                         *)
(* A scope is stored twice.  An agent has group_id and group_ids_json; a   *)
(* document or product has access_group_ids_json and, mirrored among its   *)
(* tags, access_tags_json.  The two columns are written separately, each   *)
(* only when it changed, and deleting a group clears the one and not the   *)
(* other.  What an agent may see is decided from both.                     *)
(*                                                                         *)
(* Group ids, group names and tags are one namespace, of marks: a tag may  *)
(* be a number or a group's name, and then opens what that group does.     *)
(***************************************************************************)
EXTENDS Requests, Sequences, Functions

CONSTANTS
    GroupIds, AgentIds, DocIds,   \* 1..n: ids are handed out in order
    Tags,                         \* marks that are no number
    TagLists,                     \* the lists of tags a request may carry
    Names,                        \* what a group may be called, in lower case
    AgentLimit                    \* PLAN_MAX_AGENTS (0: unlimited)

Marks == GroupIds \union Tags
Numbered(S) == IsFiniteSet(S) /\ S # {} /\ S = 1..Cardinality(S)
ASSUME ScopeAssumption ==
    /\ Numbered(GroupIds) /\ Numbered(AgentIds) /\ Numbered(DocIds)
    /\ TagLists \subseteq SUBSET Marks /\ Names \subseteq Marks
    /\ {} \in TagLists /\ Names # {} /\ GroupIds \intersect Tags = {} /\ AgentLimit \in Nat
    /\ None \notin GroupIds \union AgentIds \union Tags
    /\ \A sc \in Scenes : sc.groups <= Cardinality(GroupIds)

VARIABLES
    groups,      \* access_groups, None for no row
    agents,      \* agents
    docs,        \* knowledge_docs and catalog_items
    nextGroup,   \* the id sequences
    nextAgent,
    agentAsked,  \* history: the scope last asked for, as the request had it
    docAsked

scopes == <<groups, agents, docs, nextGroup, nextAgent, agentAsked, docAsked>>

Lists == {<< >>} \union {<<g>> : g \in GroupIds}
         \union {<<p[1], p[2]>> : p \in {q \in GroupIds \X GroupIds : q[1] # q[2]}}
GroupRows == [name: Names, tags: TagLists]
AgentRows == [first: GroupIds \union {None}, groups: Lists, tags: TagLists, bot: BOOLEAN]
\* marks is access_tags_json: the mirror of the groups and the tags.
DocRows == [kind: {"knowledge", "item"}, groups: SUBSET GroupIds, marks: SUBSET Marks]
AgentScopes == [first: GroupIds \union {None}, groups: SUBSET GroupIds, tags: TagLists]
\* unheard: a product kept its tags although an empty list was sent.
DocScopes == [groups: SUBSET GroupIds, tags: TagLists, unheard: BOOLEAN]

\* What an update of an agent asks: the list of groups, one group or 0 for
\* none, or the tags; and of a document: groups, tags or both.
AgentAsks == [form: {"list"}, list: Lists] \union [form: {"one"}, one: GroupIds \union {0}]
             \union [form: {"tags"}, tags: TagLists]
DocAsks == [groups: (SUBSET GroupIds) \union {None}, tags: TagLists \union {None}]

ScopesTypeOK ==
    /\ groups \in [GroupIds -> GroupRows \union {None}]
    /\ agents \in [AgentIds -> AgentRows \union {None}]
    /\ docs \in [DocIds -> DocRows \union {None}]
    /\ nextGroup \in GroupIds \union {Cardinality(GroupIds) + 1}
    /\ nextAgent \in AgentIds \union {Cardinality(AgentIds) + 1}
    /\ agentAsked \in [AgentIds -> AgentScopes \union {None}]
    /\ docAsked \in [DocIds -> DocScopes \union {None}]

Groups == {g \in GroupIds : groups[g] # None}
Agents == {a \in AgentIds : agents[a] # None}
Docs == {d \in DocIds : docs[d] # None}

\* Before setup there is nothing; after it a scene has one or two groups, an
\* agent of the first one, a document and a product of the same group.
ScopesInit ==
    LET there(S, n, row) == [i \in S |-> IF scene.ready /\ i <= n THEN row ELSE None]
        group == [name |-> CHOOSE n \in Names : TRUE, tags |-> {}]
    IN  /\ groups = [g \in GroupIds |-> IF g > scene.groups THEN None ELSE group]
        /\ agents = there(AgentIds, 1, [first |-> 1, groups |-> <<1>>, tags |-> {}, bot |-> TRUE])
        /\ docs = [d \in DocIds |-> IF ~scene.ready THEN None
               ELSE [kind |-> IF d = 1 THEN "knowledge" ELSE "item",
                     groups |-> {1}, marks |-> {1}]]
        /\ nextGroup = scene.groups + 1
        /\ nextAgent = IF scene.ready THEN 2 ELSE 1
        /\ agentAsked = there(AgentIds, 1, [first |-> 1, groups |-> {1}, tags |-> {}])
        /\ docAsked = there(DocIds, Cardinality(DocIds),
                            [groups |-> {1}, tags |-> {}, unheard |-> FALSE])

----------------------------------------------------------------------------
(***************************************************************************)
(* Agents.                                                                 *)
(***************************************************************************)

FirstOf(list) == IF list = << >> THEN None ELSE list[1]
\* group_id 0, "no group", is stored as NULL.
OneOf0(g) == g                                 \* mutant: stored as it comes
OneOf(g) == IF g = 0 THEN None ELSE g

\* The columns an update of an agent leaves in memory.
ListOfOne(g) == IF g = 0 THEN << >> ELSE <<g>>
AgentUpdated(row, ask) ==
    CASE ask.form = "list" -> [row EXCEPT !.groups = ask.list, !.first = FirstOf(ask.list)]
      [] ask.form = "one"  -> [row EXCEPT !.groups = ListOfOne(ask.one), !.first = OneOf(ask.one)]
      [] ask.form = "tags" -> [row EXCEPT !.tags = ask.tags]
AskedGroups(ask) ==
    CASE ask.form = "list" -> Range(ask.list)
      [] ask.form = "one"  -> {ask.one} \ {0}
      [] ask.form = "tags" -> {}
AgentScope(scope, ask) ==
    IF ask.form = "tags" THEN [scope EXCEPT !.tags = ask.tags]
    ELSE [scope EXCEPT !.groups = AskedGroups(ask),
                       !.first = IF ask.form = "list" THEN FirstOf(ask.list)
                                 ELSE IF ask.one = 0 THEN None ELSE ask.one]

HasRoomForAgent == AgentLimit = 0 \/ Cardinality(Agents) < AgentLimit

\* create_agent counts, then inserts.  A group given as group_id becomes the
\* first group and not a member of the (empty) list.
AgentCounted(h) ==
    /\ HasRoomForAgent
    /\ Serves(h, "agent")
    /\ Reads(h, "newAgent", [read |-> "agents"])
    /\ UNCHANGED scopes
AgentInserted(h) ==
    /\ stage[h] = "newAgent"
    /\ nextAgent \in AgentIds
    /\ \E first \in Groups \union {None}, list \in Lists, tags \in TagLists, bot \in BOOLEAN :
         /\ Range(list) \subseteq Groups
         /\ list # << >> => first = FirstOf(list)
         /\ agents' = [agents EXCEPT ![nextAgent] =
                [first |-> first, groups |-> list, tags |-> tags, bot |-> bot]]
         /\ agentAsked' = [agentAsked EXCEPT ![nextAgent] =
                [first |-> first, groups |-> Range(list) \union ({first} \ {None}),
                 tags |-> tags]]
         /\ Commits(h, {}, {}, IF bot THEN "register" ELSE "done", None)
    /\ nextAgent' = nextAgent + 1
    /\ UNCHANGED <<groups, docs, nextGroup, docAsked>>

\* update_agent: group_ids, or else group_id; the bot's token is left, set or
\* cleared, and if there is one its webhook is set again.
AgentLoaded(h) ==
    /\ Serves(h, "agent")
    /\ \E a \in Agents, ask \in {k \in AgentAsks : AskedGroups(k) \subseteq Groups} :
          Reads(h, "agent", [agent |-> a, row |-> agents[a], ask |-> ask])
    /\ UNCHANGED scopes
\* The agent is gone, or group_id would refer to a group that is.
AgentRefused(w) ==
    LET new == AgentUpdated(w.row, w.ask)
    IN  \/ agents[w.agent] = None
        \/ new.first # w.row.first /\ new.first \in GroupIds \ Groups
AgentSaved(h) ==
    LET w == work[h]
        new == AgentUpdated(w.row, w.ask)
        key == {<<"agent", w.agent>>}
    IN  /\ stage[h] = "agent"
        /\ IF AgentRefused(w)
           THEN Refused(h) /\ UNCHANGED scopes
           ELSE /\ \E bot \in BOOLEAN :
                     /\ agents' = [agents EXCEPT ![w.agent] =
                           [first  |-> Kept(@.first, w.row.first, new.first),
                            groups |-> Kept(@.groups, w.row.groups, new.groups),
                            tags   |-> Kept(@.tags, w.row.tags, new.tags),
                            bot    |-> bot]]
                     /\ Commits(h, key, key, IF bot THEN "register" ELSE "done", None)
                /\ agentAsked' = [agentAsked EXCEPT ![w.agent] = AgentScope(@, w.ask)]
                /\ UNCHANGED <<groups, docs, nextGroup, nextAgent, docAsked>>

\* delete_agent; a second delete of the row matches nothing.
AgentDeleted(h) ==
    /\ Serves(h, "agent")
    /\ \E a \in Agents :
         /\ agents' = [agents EXCEPT ![a] = None]
         /\ agentAsked' = [agentAsked EXCEPT ![a] = None]
         /\ Commits(h, {<<"agent", a>>}, {}, "done", None)
    /\ UNCHANGED <<groups, docs, nextGroup, nextAgent, docAsked>>

----------------------------------------------------------------------------
(***************************************************************************)
(* Access groups.  (The database keeps names unique as they are spelled;   *)
(* they are compared with tags in lower case.)                             *)
(***************************************************************************)

GroupCreated(h) ==
    /\ Serves(h, "group")
    /\ nextGroup \in GroupIds
    /\ \E row \in GroupRows : groups' = [groups EXCEPT ![nextGroup] = row]
    /\ nextGroup' = nextGroup + 1
    /\ Commits(h, {}, {}, "done", None)
    /\ UNCHANGED <<agents, docs, nextAgent, agentAsked, docAsked>>

GroupUpdated(h) ==
    /\ Serves(h, "group")
    /\ \E g \in Groups, row \in GroupRows : groups' = [groups EXCEPT ![g] = row]
    /\ Commits(h, {}, {}, "done", None)
    /\ UNCHANGED <<agents, docs, nextGroup, nextAgent, agentAsked, docAsked>>

\* The foreign key clears group_id (ON DELETE SET NULL); ids in JSON stay.
GroupDeleted(h) ==
    /\ Serves(h, "group")
    /\ \E g \in Groups :
         /\ groups' = [groups EXCEPT ![g] = None]
         /\ agents' = [a \in AgentIds |->
                IF a \in Agents /\ agents[a].first = g
                THEN [agents[a] EXCEPT !.first = None] ELSE agents[a]]
    /\ Commits(h, {}, {}, "done", None)
    /\ UNCHANGED <<docs, nextGroup, nextAgent, agentAsked, docAsked>>

----------------------------------------------------------------------------
(***************************************************************************)
(* Documents and products.                                                 *)
(***************************************************************************)

SideKept(asked, old) == IF asked = None THEN old ELSE asked
Words(marks) == marks \intersect Tags

\* update_knowledge_doc keeps the side that was not sent; update_catalog_item
\* takes tags as they come when no groups do, losing the mirror, and takes no
\* tags sent with groups for none sent.  Groups are mirrored among the tags,
\* whose numbers are then dropped.
\* mutant: an update of the groups leaves the mirror alone
DocUpdatedHalf(row, ask) ==
    [row EXCEPT !.groups = SideKept(ask.groups, @), !.marks = SideKept(ask.tags, @)]
DocUpdated(row, ask) ==
    LET gids == SideKept(ask.groups, row.groups)
        sent == IF row.kind = "item" /\ ask.tags = {} THEN None ELSE ask.tags
    IN  IF ask.groups = None /\ ask.tags = None THEN row
        ELSE IF row.kind = "item" /\ ask.groups = None THEN [row EXCEPT !.marks = ask.tags]
        ELSE [row EXCEPT !.groups = gids,
                        !.marks = gids \union Words(SideKept(sent, row.marks))]

Unheard(row, ask) ==
    row.kind = "item" /\ ask.groups # None /\ ask.tags = {} /\ Words(row.marks) # {}
DocScope(scope, row, ask) ==
    [groups  |-> SideKept(ask.groups, scope.groups), tags |-> SideKept(ask.tags, scope.tags),
     unheard |-> IF ask.tags = None THEN scope.unheard ELSE Unheard(row, ask)]

DocLoaded(h) ==
    /\ Serves(h, "doc")
    /\ \E d \in Docs, ask \in DocAsks :
          Reads(h, "doc", [doc |-> d, row |-> docs[d], ask |-> ask])
    /\ UNCHANGED scopes
DocSaved(h) ==
    LET w == work[h]
        new == DocUpdated(w.row, w.ask)
        key == {<<"doc", w.doc>>}
    IN  /\ stage[h] = "doc"
        /\ IF docs[w.doc] = None
           THEN Refused(h) /\ UNCHANGED scopes
           ELSE /\ docs' = [docs EXCEPT ![w.doc] =
                      [kind   |-> @.kind,
                       groups |-> Kept(@.groups, w.row.groups, new.groups),
                       marks  |-> Kept(@.marks, w.row.marks, new.marks)]]
                /\ docAsked' = [docAsked EXCEPT ![w.doc] = DocScope(@, w.row, w.ask)]
                /\ Commits(h, key, key, "done", None)
                /\ UNCHANGED <<groups, agents, nextGroup, nextAgent, agentAsked>>

DocDeleted(h) ==
    /\ Serves(h, "doc")
    /\ \E d \in Docs :
         /\ docs' = [docs EXCEPT ![d] = None]
         /\ docAsked' = [docAsked EXCEPT ![d] = None]
         /\ Commits(h, {<<"doc", d>>}, {}, "done", None)
    /\ UNCHANGED <<groups, agents, nextGroup, nextAgent, agentAsked>>

\* A new document or product takes the place of a deleted one that no request
\* holds.  (Ids are not reused, and nothing else refers to a document's.)
DocCreated(h) ==
    /\ Serves(h, "doc")
    /\ \E d \in DocIds \ Docs, gids \in SUBSET GroupIds, tags \in TagLists,
          kind \in {"knowledge", "item"} :
         /\ \A k \in Handlers : stage[k] = "doc" => work[k].doc # d
         /\ docs' = [docs EXCEPT ![d] =
                [kind |-> kind, groups |-> gids,
                 marks |-> gids \union (IF kind = "item" THEN tags ELSE Words(tags))]]
         /\ docAsked' = [docAsked EXCEPT ![d] =
                [groups |-> gids, tags |-> tags, unheard |-> FALSE]]
         /\ Commits(h, {}, {}, "done", None)
    /\ UNCHANGED <<groups, agents, nextGroup, nextAgent, agentAsked>>

----------------------------------------------------------------------------

ScopesNext(h) ==
    \/ AgentCounted(h) \/ AgentInserted(h) \/ AgentLoaded(h) \/ AgentSaved(h) \/ AgentDeleted(h)
    \/ GroupCreated(h) \/ GroupUpdated(h) \/ GroupDeleted(h)
    \/ DocLoaded(h) \/ DocSaved(h) \/ DocDeleted(h) \/ DocCreated(h)

----------------------------------------------------------------------------

\* What belonging to a first group adds, if there is that group.
MarksOfFirst(g) == IF g \in Groups THEN groups[g].tags \union {groups[g].name} ELSE {}

\* get_effective_agent_tags and filter_items_by_access_tags.
AgentGroups(a) == Range(agents[a].groups) \union ({agents[a].first} \ {None})
AgentMarks(a) == agents[a].tags \union AgentGroups(a) \union MarksOfFirst(agents[a].first)
Shown(a, d) ==
    LET marks == docs[d].groups \union docs[d].marks
    IN  marks = {} \/ marks \intersect AgentMarks(a) # {}

\* What was asked for: nothing means everybody; otherwise a group or tag of
\* the agent, or the name or a tag of its first group.
Meant(a, d) ==
    LET wanted == docAsked[d].groups \union docAsked[d].tags
        held == agentAsked[a].groups \union agentAsked[a].tags
                    \union MarksOfFirst(agentAsked[a].first)
    IN  wanted = {} \/ wanted \intersect held # {}

\* An agent is shown what was scoped to it and nothing else, through every
\* edit and deletion of agents, groups, documents and products: for scopes
\* whose groups exist and whose tags are no numbers (which are dropped beside
\* groups), not edited over each other, and not those of a product that an
\* empty list of tags, sent with groups, did not free of its tags.
ScopeHolds ==
    \A a \in Agents, d \in Docs :
        /\ <<"agent", a>> \notin blind
        /\ <<"doc", d>> \notin blind
        /\ docAsked[d].groups \subseteq Groups
        /\ docAsked[d].tags \subseteq Tags
        /\ ~docAsked[d].unheard
        => (Shown(a, d) <=> Meant(a, d))

=============================================================================
