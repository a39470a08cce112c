---------------------------- MODULE Edits_proofs ----------------------------
(***************************************************************************)
(* Proofs about the edits of Administration: what is stored in the         *)
(* settings, and whom an agent is shown to, is what was asked for.         *)
(***************************************************************************)
EXTENDS Accounts_proofs

(***************************************************************************)
(* The settings.  The copy of the column that a request holds agrees with  *)
(* the row in every section, or the section is in its stale.               *)
(***************************************************************************)
Fits(copy) ==
    /\ \A s \in Keyed : copy[s].on # None => copy[s].key \in {copy[s].on, "mask"}
    /\ copy["payments"].on = "paystack" => copy["payments"].key \in {"paystack", "mask"}

HoldsCopy(s, w) == s \in {"save", "secret", "flushed"} \/ (s = "seed" /\ ~w.founded)
Current(w, rows, missed) ==
    /\ Fits(w.copy)
    /\ IF w.profile = None THEN w.copy = Blank
       ELSE \A s \in Sections :
               w.copy[s] = rows[w.profile][s] \/ <<s, w.profile>> \in missed

KeptInv ==
    /\ \A p \in Profiles :
          /\ Fits(profiles[p])
          /\ \A s \in Sections : <<s, p>> \notin blind => profiles[p][s] = saved[p][s]
    /\ \A h \in Handlers : HoldsCopy(stage[h], work[h]) => Current(work[h], profiles, stale[h])

(***************************************************************************)
(* The scopes.  An agent belongs to the groups that it was asked to, of    *)
(* those that there are (or may yet be), through either column, and its    *)
(* first group is the one asked for or was deleted.  A document keeps the  *)
(* groups asked for; its other marks are the tags asked for, or mirror its *)
(* groups.                                                                 *)
(***************************************************************************)
There(g) == g \in Groups \/ g >= nextGroup

AgentKept(a) ==
    /\ agents[a].tags = agentAsked[a].tags
    /\ \A g \in GroupIds : There(g) => (g \in AgentGroups(a) <=> g \in agentAsked[a].groups)
    /\ \/ agents[a].first = agentAsked[a].first
       \/ agents[a].first = None /\ agentAsked[a].first \in GroupIds /\ ~There(agentAsked[a].first)
Keeps(row, asked) ==
    /\ row.groups = asked.groups
    /\ ~asked.unheard => Words(row.marks) = Words(asked.tags)
    /\ asked.tags \subseteq Tags => row.marks \ Tags \subseteq row.groups
DocKept(d) == Keeps(docs[d], docAsked[d])

\* The row that a request has loaded, if nobody changed it since.  The group
\* that it belonged to may have been deleted.
AgentLoadedStill(w) ==
    agents[w.agent] # None =>
        /\ agents[w.agent].groups = w.row.groups /\ agents[w.agent].tags = w.row.tags
        /\ \/ agents[w.agent].first = w.row.first
           \/ agents[w.agent].first = None /\ w.row.first \in GroupIds /\ ~There(w.row.first)

AgentsInv ==
    /\ \A g \in Groups : g < nextGroup
    /\ \A a \in Agents : <<"agent", a>> \notin blind => AgentKept(a)
    /\ \A h \in Handlers :
          stage[h] = "agent" => /\ work[h].agent < nextAgent
                                /\ \/ <<"agent", work[h].agent>> \in stale[h]
                                   \/ AgentLoadedStill(work[h])

DocsInv ==
    /\ \A d \in Docs : <<"doc", d>> \notin blind => DocKept(d)
    /\ \A h \in Handlers :
          stage[h] = "doc" => \/ <<"doc", work[h].doc>> \in stale[h]
                              \/ docs[work[h].doc] \in {work[h].row, None}

ScopeInv == AgentsInv /\ DocsInv

----------------------------------------------------------------------------
(***************************************************************************)
(* Settings: what a service writes fits, if what it read did.              *)
(***************************************************************************)

LEMMA ResolvedFits ==
    ASSUME NEW copy \in Metas, Fits(copy), NEW s \in Sections, NEW ask \in Asks(s),
           Acceptable(copy, s, ask)
    PROVE  Fits(Written(copy, s, Resolved(copy, s, ask)))
<1> DEFINE entry == Resolved(copy, s, ask)
<1>1. \A t \in Sections : Written(copy, s, entry)[t] = IF t = s THEN entry ELSE copy[t]
  BY DEF Written, Metas
<1>2. "payments" \in Sections /\ Keyed \subseteq Sections /\ "payments" \notin Keyed
  BY SectionNames DEF Sections
<1>a. KeyOf(copy[s], ask) # None /\ ask.key \in {"new", "clear", "empty", "mask"}
      => \/ KeyOf(copy[s], ask) \in {ask.on, "mask"}
         \/ copy[s].on = ask.on /\ KeyOf(copy[s], ask) = copy[s].key
  BY DEF KeyOf
<1>b. ask.key \in {"new", "clear", "empty", "mask"}
  BY SectionNames DEF Asks, Sections
<1>3. s \in Keyed /\ entry.on # None => entry.key \in {entry.on, "mask"}
  <2> SUFFICES ASSUME s \in Keyed, entry.on # None PROVE entry.key \in {entry.on, "mask"}
    OBVIOUS
  <2>1. s \notin {"channels", "recipients", "alerts", "payments"}
    BY SectionNames
  <2>2. ask.on # None
    BY <2>1 DEF Resolved, NoEntry
  <2>3. entry.on = ask.on /\ entry.key = KeyOf(copy[s], ask)
    BY <2>1, <2>2 DEF Resolved, NoEntry
  <2>4. KeyOf(copy[s], ask) # None
    BY <2>2 DEF Acceptable
  <2>5. QED
    BY <1>a, <1>b, <2>2, <2>3, <2>4 DEF Fits
<1>4. s = "payments" /\ entry.on = "paystack" => entry.key \in {"paystack", "mask"}
  <2> SUFFICES ASSUME s = "payments", entry.on = "paystack"
               PROVE  entry.key \in {"paystack", "mask"}
    OBVIOUS
  <2>1. ask.on = "paystack"
    BY DEF Resolved, NoEntry
  <2>2. None # "paystack"
    BY EntryAssumption DEF Gateways
  <2>3. entry.key = KeyOf(copy[s], ask)
    BY <2>1, <2>2 DEF Resolved, NoEntry
  <2>4. KeyOf(copy[s], ask) # None
    BY <2>1, <2>2 DEF Acceptable
  <2>5. QED
    BY <1>a, <1>b, <2>1, <2>3, <2>4 DEF Fits
<1>5. QED
  BY <1>1, <1>2, <1>3, <1>4 DEF Fits

LEMMA SecretFits ==
    ASSUME NEW copy \in Metas, Fits(copy), NEW entry
    PROVE  Fits(Written(copy, "channels", entry))
<1>1. "channels" \in Sections /\ "channels" \notin Keyed /\ "payments" \in Sections
      /\ Keyed \subseteq Sections
  BY SectionNames DEF Sections
<1>2. \A t \in Sections : t # "channels" => Written(copy, "channels", entry)[t] = copy[t]
  BY DEF Written, Metas
<1>3. QED
  BY <1>1, <1>2 DEF Fits

LEMMA BlankFits == Blank \in Metas /\ Fits(Blank)
<1>1. "payments" \in Sections /\ Keyed \subseteq Sections /\ None # "paystack"
  BY SectionNames, EntryAssumption DEF Sections, Gateways
<1>2. QED
  BY <1>1, EntryTypes DEF Blank, NoEntry, Fits

\* The profile is not written, or what h has read of it.
LEMMA KeptFrame ==
    ASSUME TypeInv, KeptInv, NEW h \in Handlers, NEW s \in Stages, NEW w, Moves(h, s, w),
           UNCHANGED <<profiles, saved>>,
           HoldsCopy(s, w) => Current(w, profiles', stale'[h])
    PROVE  KeptInv'
<1>1. Profiles' = Profiles /\ blind \subseteq blind'
  BY DEF Profiles, Moves
<1>2. ASSUME NEW k \in Handlers, HoldsCopy(stage'[k], work'[k])
      PROVE  Current(work'[k], profiles', stale'[k])
  <2>1. CASE k = h
    BY <1>2, <2>1 DEF TypeInv, RequestsInv, Moves
  <2>2. CASE k # h
    <3>1. stage'[k] = stage[k] /\ work'[k] = work[k]
      BY <2>2 DEF TypeInv, RequestsInv, Moves
    <3>2. Current(work[k], profiles, stale[k])
      BY <1>2, <3>1 DEF KeptInv
    <3>3. stale[k] \subseteq stale'[k]
      BY <1>2, <2>2, <3>1 DEF HoldsCopy, Resting, Moves
    <3>4. QED
      BY <3>1, <3>2, <3>3 DEF Current
  <2>3. QED
    BY <2>1, <2>2
<1>3. QED
  BY <1>1, <1>2 DEF KeptInv, HoldsCopy

LEMMA KeptElsewhere ==
    ASSUME TypeInv, KeptInv, NEW h \in Handlers, NEW S \in SUBSET Stages,
           S \intersect {"save", "secret", "flushed", "seed"} = {}, Lands(h, S),
           UNCHANGED <<profiles, saved>>
    PROVE  KeptInv'
<1>1. PICK s \in S : \E w : Moves(h, s, w)
  BY DEF Lands
<1>2. PICK w : Moves(h, s, w)
  BY <1>1
<1>3. QED
  BY <1>2, KeptFrame DEF HoldsCopy

\* The one row that a write changes, or adds.
LEMMA PutsRow ==
    ASSUME TypeInv, NEW p \in Profiles \union {None}, NEW copy \in Metas, NEW column \in Metas,
           NEW saves, Puts(p, copy, column, saves)
    PROVE  \E q \in ProfileIds :
              /\ IF p = None THEN q \notin Profiles ELSE q = p
              /\ Profiles' = Profiles \union {q}
              /\ profiles'[q] = IF p = None THEN column ELSE Kept(profiles[q], copy, column)
              /\ \A s \in Sections :
                    saved'[q][s] = IF p = None \/ s \in saves THEN column[s] ELSE saved[q][s]
              /\ \A r \in ProfileIds \ {q} : profiles'[r] = profiles[r] /\ saved'[r] = saved[r]
<1> DEFINE q == IF p = None THEN CHOOSE r \in ProfileIds \ Profiles : TRUE ELSE p
           new == [s \in Sections |-> IF p = None \/ s \in saves THEN column[s] ELSE saved[q][s]]
           kept == IF p = None THEN column ELSE Kept(profiles[q], copy, column)
<1>1. q \in ProfileIds /\ IF p = None THEN q \notin Profiles ELSE q = p
  <2>1. CASE p = None
    <3>1. ProfileIds \ Profiles # {}
      BY <2>1 DEF Puts, Profiles
    <3>2. QED
      BY <2>1, <3>1
  <2>2. CASE p # None
    BY <2>2 DEF Profiles
  <2>3. QED
    BY <2>1, <2>2
<1>2. kept # None
  <2>1. kept \in Metas
    BY <1>1 DEF TypeInv, SettingsInv, SettingsTypeOK, Profiles, Kept
  <2>2. QED
    BY <2>1, EntryAssumption DEF Metas
<1>3. profiles' = [profiles EXCEPT ![q] = kept] /\ saved' = [saved EXCEPT ![q] = new]
  BY <1>1 DEF Puts, TypeInv, SettingsInv, SettingsTypeOK
<1>4. \A s \in Sections : new[s] = IF p = None \/ s \in saves THEN column[s] ELSE saved[q][s]
  OBVIOUS
<1>5. kept = IF p = None THEN column ELSE Kept(profiles[q], copy, column)
  OBVIOUS
<1> HIDE DEF q, new, kept
<1>6. /\ profiles'[q] = kept /\ saved'[q] = new
      /\ \A r \in ProfileIds \ {q} : profiles'[r] = profiles[r] /\ saved'[r] = saved[r]
  BY <1>1, <1>3 DEF TypeInv, SettingsInv, SettingsTypeOK
<1>7. Profiles' = Profiles \union {q}
  BY <1>1, <1>2, <1>6 DEF Profiles
<1>8. QED
  BY <1>1, <1>4, <1>5, <1>6, <1>7

\* A commit that writes the profile: the sections not asked for are written
\* as they were read, and where that is not what they were, it shows in blind.
LEMMA KeptWritten ==
    ASSUME TypeInv, KeptInv, NEW h \in Handlers,
           NEW p \in Profiles \union {None}, NEW copy \in Metas, NEW column \in Metas, NEW saves,
           p # None => \A s \in Sections : copy[s] = profiles[p][s] \/ <<s, p>> \in stale[h],
           Fits(column), \A s \in Sections \ saves : column[s] = copy[s],
           Puts(p, copy, column, saves),
           NEW changed, NEW relied, Row(p) \subseteq relied,
           p # None /\ column # copy => Row(p) \subseteq changed,
           NEW next \in {"done", "register", "founded"}, NEW then,
           Commits(h, changed, relied, next, then)
    PROVE  KeptInv'
<1>1. PICK q \in ProfileIds :
              /\ IF p = None THEN q \notin Profiles ELSE q = p
              /\ Profiles' = Profiles \union {q}
              /\ profiles'[q] = IF p = None THEN column ELSE Kept(profiles[q], copy, column)
              /\ \A s \in Sections :
                    saved'[q][s] = IF p = None \/ s \in saves THEN column[s] ELSE saved[q][s]
              /\ \A r \in ProfileIds \ {q} : profiles'[r] = profiles[r] /\ saved'[r] = saved[r]
  BY PutsRow
<1>2. /\ Moves(h, next, IF next \in Resting THEN None ELSE then)
      /\ \A k \in Handlers : k # h /\ stage[k] \notin Resting => stale'[k] = stale[k] \union changed
      /\ blind' = blind \union (stale[h] \intersect relied)
  <2>1. next \in Stages \ {"idle"}
    BY DEF Stages, Resting
  <2>2. QED
    BY <2>1, CommitsMove DEF TypeInv
<1>3. ASSUME NEW r \in Profiles'
      PROVE  /\ Fits(profiles'[r])
             /\ \A s \in Sections : <<s, r>> \notin blind' => profiles'[r][s] = saved'[r][s]
  <2>1. CASE r # q
    BY <1>1, <1>2, <1>3, <2>1 DEF KeptInv, Profiles
  <2>2. CASE r = q /\ p = None
    BY <1>1, <2>2
  <2>3. CASE r = q /\ p # None
    <3>1. r = p /\ r \in Profiles
      BY <1>1, <2>3
    <3>2. Fits(profiles'[r])
      BY <1>1, <2>3, <3>1 DEF KeptInv, Kept
    <3>3. ASSUME NEW s \in Sections, <<s, r>> \notin blind'
          PROVE  profiles'[r][s] = saved'[r][s]
      <4>1. <<s, r>> \notin blind /\ <<s, r>> \notin stale[h]
        BY <1>2, <2>3, <3>1, <3>3 DEF Row
      <4>2. copy[s] = profiles[r][s] /\ profiles[r][s] = saved[r][s]
        BY <2>3, <3>1, <4>1 DEF KeptInv
      <4>3. QED
        BY <1>1, <2>3, <3>1, <4>2 DEF Kept
    <3>4. QED
      BY <3>2, <3>3
  <2>4. QED
    BY <2>1, <2>2, <2>3
<1>4. ASSUME NEW k \in Handlers, HoldsCopy(stage'[k], work'[k])
      PROVE  Current(work'[k], profiles', stale'[k])
  <2>1. k # h
    BY <1>2, <1>4 DEF TypeInv, RequestsInv, Moves, HoldsCopy
  <2>2. stage'[k] = stage[k] /\ work'[k] = work[k]
    BY <1>2, <2>1 DEF TypeInv, RequestsInv, Moves
  <2>3. Current(work[k], profiles, stale[k]) /\ stage[k] \in ProfileStages
    BY <1>4, <2>2 DEF KeptInv, HoldsCopy, ProfileStages, SetupStages
  <2>4. work[k].profile \in Profiles \union {None} /\ stage[k] \notin Resting
    BY <2>3 DEF TypeInv, SettingsInv, ProfileStages, SetupStages, Resting
  <2>5. stale'[k] = stale[k] \union changed
    BY <1>2, <2>1, <2>4
  <2>6. CASE work[k].profile = q /\ p # None
    <3>1. p = q
      BY <1>1, <2>6
    <3>2. CASE column = copy
      BY <1>1, <2>2, <2>3, <2>5, <2>6, <3>1, <3>2 DEF Current, Kept
    <3>3. CASE column # copy
      BY <2>2, <2>3, <2>5, <2>6, <3>1, <3>3 DEF Current, Row
    <3>4. QED
      BY <3>2, <3>3
  <2>7. CASE ~(work[k].profile = q /\ p # None)
    <3>1. CASE work[k].profile = None
      BY <2>2, <2>3, <3>1 DEF Current
    <3>2. CASE work[k].profile # None
      <4>1. work[k].profile \in ProfileIds \ {q}
        BY <1>1, <2>4, <2>7, <3>2 DEF Profiles
      <4>2. QED
        BY <1>1, <2>2, <2>3, <2>5, <3>2, <4>1 DEF Current
    <3>3. QED
      BY <3>1, <3>2
  <2>8. QED
    BY <2>6, <2>7
<1>5. QED
  BY <1>3, <1>4 DEF KeptInv, HoldsCopy

\* What is read of the profile is current.
LEMMA ReadCurrent ==
    ASSUME TypeInv, KeptInv, NEW p \in Found, NEW missed,
           NEW w, w.profile = p, w.copy = ColumnOf(p)
    PROVE  Current(w, profiles, missed)
<1>1. CASE p = None
  BY <1>1, BlankFits DEF Current, ColumnOf
<1>2. CASE p # None
  BY <1>2 DEF Current, ColumnOf, KeptInv, Found
<1>3. QED
  BY <1>1, <1>2

LEMMA KeptSettings ==
    ASSUME TypeInv, KeptInv, NEW h \in Handlers, SettingsNext(h)
    PROVE  KeptInv'
<1> USE DEF TypeInv
<1> DEFINE v == work[h]
<1>a. {"done"} \in SUBSET Stages /\ {"done"} \intersect {"save", "secret", "flushed", "seed"} = {}
  BY DEF Stages, Resting
<1>1. CASE SettingLoaded(h)
  <2> DEFINE read(p, s, ask) ==
               [profile |-> p, copy |-> ColumnOf(p), section |-> s, ask |-> ask]
  <2>0. PICK p \in Found, s \in Sections : \E ask \in Asks(s) : Reads(h, "save", read(p, s, ask))
    BY <1>1 DEF SettingLoaded
  <2>00. PICK ask \in Asks(s) : Reads(h, "save", read(p, s, ask))
    BY <2>0
  <2>01. read(p, s, ask).profile = p /\ read(p, s, ask).copy = ColumnOf(p)
    OBVIOUS
  <2> DEFINE w == read(p, s, ask)
  <2>1. Reads(h, "save", w) /\ w.profile = p /\ w.copy = ColumnOf(p)
    BY <2>00, <2>01
  <2> HIDE DEF w, read
  <2>2. Moves(h, "save", w) /\ "save" \in Stages
    BY <2>1, ReadsMove DEF Stages, Resting
  <2>3. UNCHANGED <<profiles, saved>>
    BY <1>1 DEF SettingLoaded, settings
  <2>4. Current(w, profiles', stale'[h])
    BY <2>1, <2>3, ReadCurrent
  <2>5. QED
    BY <2>2, <2>3, <2>4, KeptFrame
<1>2. CASE SettingSaved(h)
  <2> DEFINE entry == Resolved(v.copy, v.section, v.ask)
             column == Written(v.copy, v.section, entry)
             changed == IF v.profile # None /\ column = v.copy THEN {} ELSE Row(v.profile)
  <2>1. v \in SaveWork /\ v.profile \in Profiles \union {None} /\ stage[h] = "save"
    BY <1>2 DEF SettingSaved, RequestsInv, SettingsInv, Holds, ProfileStages
  <2>2. v.copy \in Metas /\ v.section \in Sections /\ v.ask \in Asks(v.section)
    BY <2>1 DEF SaveWork
  <2>3. entry \in Entries /\ column \in Metas
    BY <1>2, <2>2, ResolvedType, EntryTypes DEF SettingSaved, SettingsInv
  <2>4. Current(v, profiles, stale[h])
    BY <2>1 DEF KeptInv, HoldsCopy
  <2>5. Fits(column)
    BY <1>2, <2>2, <2>4, ResolvedFits DEF Current, SettingSaved
  <2>6. \A s \in Sections \ {v.section} : column[s] = v.copy[s]
    BY <2>2 DEF Written, Metas
  <2>7. PICK next \in {"done", "register"} : Stores(h, v.profile, v.copy, v.section, entry, next)
    BY <1>2 DEF SettingSaved
  <2>8. /\ Puts(v.profile, v.copy, column, {v.section})
        /\ Commits(h, changed, Row(v.profile), next, None)
    BY <2>7 DEF Stores
  <2>9. v.profile # None /\ column # v.copy => Row(v.profile) \subseteq changed
    OBVIOUS
  <2>10. v.profile # None =>
            \A s \in Sections : v.copy[s] = profiles[v.profile][s] \/ <<s, v.profile>> \in stale[h]
    BY <2>4 DEF Current
  <2>11. next \in {"done", "register", "founded"}
    BY <2>7
  <2> HIDE DEF v, entry, column, changed
  <2>12. QED
    BY <2>1, <2>2, <2>3, <2>5, <2>6, <2>8, <2>9, <2>10, <2>11, KeptWritten
<1>3. CASE SettingRefused(h)
  <2>1. Lands(h, {"done"}) /\ UNCHANGED <<profiles, saved>>
    BY <1>3, Landing DEF SettingRefused, settings
  <2>2. QED
    BY <1>a, <2>1, KeptElsewhere
<1>4. CASE ProfileLoaded(h)
  <2>1. PICK w : Reads(h, "profile", w)
    BY <1>4 DEF ProfileLoaded
  <2>2. Moves(h, "profile", w) /\ "profile" \in Stages
    BY <2>1, ReadsMove DEF Stages, Resting
  <2>3. QED
    BY <1>4, <2>2, KeptFrame DEF ProfileLoaded, settings, HoldsCopy
<1>5. CASE ProfileSaved(h)
  <2>1. CASE v.profile = None
    <3>1. Puts(None, Blank, Blank, {}) /\ Commits(h, Row(None), Row(None), "done", None)
      BY <1>5, <2>1 DEF ProfileSaved
    <3>2. QED
      BY <3>1, BlankFits, KeptWritten
  <2>2. CASE v.profile # None
    <3>1. Commits(h, {}, {}, "done", None) /\ UNCHANGED <<profiles, saved>>
      BY <1>5, <2>2 DEF ProfileSaved
    <3>2. Lands(h, {"done"})
      BY <3>1, Landing
    <3>3. QED
      BY <1>a, <3>1, <3>2, KeptElsewhere
  <2>3. QED
    BY <2>1, <2>2
<1>6. CASE ConfigLoaded(h)
  <2>1. PICK p \in Found :
          Goes(h, IF SecretMissing(p) THEN "secret" ELSE "done",
               [profile |-> p, copy |-> ColumnOf(p)])
    BY <1>6 DEF ConfigLoaded
  <2> DEFINE s == IF SecretMissing(p) THEN "secret" ELSE "done"
             w == IF SecretMissing(p) THEN [profile |-> p, copy |-> ColumnOf(p)] ELSE None
  <2>2. Moves(h, s, w) /\ s \in Stages
    BY <1>6, <2>1 DEF ConfigLoaded, Goes, Moves, RequestsInv, Stages, Resting
  <2>3. UNCHANGED <<profiles, saved>>
    BY <1>6 DEF ConfigLoaded, settings
  <2>4. HoldsCopy(s, w) => w.profile = p /\ w.copy = ColumnOf(p)
    BY DEF HoldsCopy
  <2> HIDE DEF s, w
  <2>5. HoldsCopy(s, w) => Current(w, profiles', stale'[h])
    BY <2>1, <2>3, <2>4, ReadCurrent
  <2>6. QED
    BY <2>2, <2>3, <2>5, KeptFrame
<1>7. CASE SecretMade(h)
  <2> DEFINE entry == [v.copy["channels"] EXCEPT !.on = "set", !.secret = lastSecret + 1]
             column == Written(v.copy, "channels", entry)
             changed == IF v.profile # None /\ column = v.copy THEN {} ELSE Row(v.profile)
  <2>1. /\ v \in [profile: ProfileIds, copy: Metas] /\ v.profile \in Profiles \union {None}
        /\ stage[h] = "secret" /\ v.copy \in Metas
    BY <1>7 DEF SecretMade, RequestsInv, SettingsInv, Holds, ProfileStages
  <2>2. lastSecret + 1 \in 0..MaxSecrets
    BY <1>7, SettingsAssumption DEF SecretMade, SettingsInv, SettingsTypeOK
  <2>3. "channels" \in Sections /\ v.copy["channels"] \in Entries
    BY <2>1, SectionNames DEF Metas
  <2>4. entry \in Entries
    BY <2>2, <2>3 DEF Entries
  <2>5. column \in Metas
    BY <2>1, <2>3, <2>4, EntryTypes
  <2>6. Current(v, profiles, stale[h])
    BY <2>1 DEF KeptInv, HoldsCopy
  <2>7. Fits(column)
    BY <2>1, <2>6, SecretFits DEF Current
  <2>8. \A s \in Sections \ {"channels"} : column[s] = v.copy[s]
    BY <2>1 DEF Written, Metas
  <2>9. /\ Puts(v.profile, v.copy, column, {"channels"})
        /\ Commits(h, changed, Row(v.profile), "done", None)
    BY <1>7 DEF SecretMade, Stores
  <2>10. v.profile # None =>
            \A s \in Sections : v.copy[s] = profiles[v.profile][s] \/ <<s, v.profile>> \in stale[h]
    BY <2>6 DEF Current
  <2>11. v.profile # None /\ column # v.copy => Row(v.profile) \subseteq changed
    OBVIOUS
  <2> HIDE DEF v, entry, column, changed
  <2>12. QED
    BY <2>1, <2>5, <2>7, <2>8, <2>9, <2>10, <2>11, KeptWritten
<1>8. QED
  BY <1>1, <1>2, <1>3, <1>4, <1>5, <1>6, <1>7 DEF SettingsNext

LEMMA KeptSetup ==
    ASSUME TypeInv, SeedsInv, KeptInv, NEW h \in Handlers, SetupNext(h)
    PROVE  KeptInv'
<1> USE DEF TypeInv
<1> DEFINE v == work[h]
           refused == Refused(h) /\ UNCHANGED <<profiles, saved>>
<1>a. /\ {"done"} \in SUBSET Stages
      /\ {"done"} \intersect {"save", "secret", "flushed", "seed"} = {}
  BY DEF Stages, Resting
<1>1. CASE refused
  <2>1. Lands(h, {"done"})
    BY <1>1, Landing
  <2>2. QED
    BY <1>a, <1>1, <2>1, KeptElsewhere
<1>2. CASE SetupBegun(h)
  <2>1. PICK w : Reads(h, "setup", w)
    BY <1>2 DEF SetupBegun
  <2>2. Moves(h, "setup", w) /\ "setup" \in Stages
    BY <2>1, ReadsMove DEF Stages, Resting
  <2>3. QED
    BY <1>2, <2>2, KeptFrame DEF SetupBegun, settings, HoldsCopy
<1>3. CASE SetupFlushed(h) /\ ~refused
  <2> DEFINE held(p) == [address |-> v.address, email |-> v.email, profile |-> p,
                         copy |-> ColumnOf(p), founded |-> FALSE, seed |-> FALSE]
  <2>0. ~Refused(h)
    BY <1>3 DEF SetupFlushed, settings
  <2>00. PICK p \in Found : Reads(h, "flushed", held(p))
    BY <1>3, <2>0 DEF SetupFlushed
  <2>01. held(p).profile = p /\ held(p).copy = ColumnOf(p)
    OBVIOUS
  <2> DEFINE w == held(p)
  <2>1. Reads(h, "flushed", w) /\ w.profile = p /\ w.copy = ColumnOf(p)
    BY <2>00, <2>01
  <2> HIDE DEF w, held
  <2>2. Moves(h, "flushed", w) /\ "flushed" \in Stages
    BY <2>1, ReadsMove DEF Stages, Resting
  <2>3. UNCHANGED <<profiles, saved>>
    BY <1>3 DEF SetupFlushed, settings
  <2>4. Current(w, profiles', stale'[h])
    BY <2>1, <2>3, ReadCurrent
  <2>5. QED
    BY <2>2, <2>3, <2>4, KeptFrame
<1>4. CASE SetupCounted(h)
  <2> DEFINE w == [v EXCEPT !.seed = (Agents = {})]
  <2>1. v \in SetupWork
    BY <1>4, SetupHolds DEF SetupCounted, SetupStages
  <2>2. w.founded = v.founded /\ w.profile = v.profile /\ w.copy = v.copy
    BY <2>1 DEF SetupWork
  <2>3. Moves(h, "seed", w) /\ "seed" \in Stages /\ stale' = stale
    BY <1>4, ReadsMove DEF SetupCounted, Stages, Resting
  <2>4. UNCHANGED <<profiles, saved>>
    BY <1>4 DEF SetupCounted, settings
  <2> HIDE DEF w
  <2>5. HoldsCopy("seed", w) => HoldsCopy(stage[h], v)
    BY <1>4, <2>2 DEF SetupCounted, HoldsCopy, SeedsInv
  <2>6. HoldsCopy("seed", w) => Current(w, profiles', stale'[h])
    BY <2>2, <2>3, <2>4, <2>5 DEF KeptInv, Current
  <2>7. QED
    BY <2>3, <2>4, <2>6, KeptFrame
<1>5. CASE \/ SetupMailed(h) /\ ~refused
           \/ SetupEnds(h) /\ ~refused /\ ~v.founded
  <2>1. /\ stage[h] \in SetupStages /\ v \in SetupWork /\ v.profile \in Profiles \union {None}
        /\ HoldsCopy(stage[h], v)
    BY <1>5, SetupHolds DEF SetupMailed, SetupEnds, SetupStages, HoldsCopy
  <2>2. v.copy \in Metas /\ v.email \in Asks("email") /\ "email" \in Sections
    BY <2>1, SectionNames DEF SetupWork
  <2>3. Current(v, profiles, stale[h])
    BY <2>1 DEF KeptInv
  <2>4. \E column \in Metas, next \in {"done", "founded"} : \E saves, then :
           /\ SetupRows(h, column, saves, next, then)
           /\ Fits(column) /\ \A s \in Sections \ saves : column[s] = v.copy[s]
    <3>1. CASE SetupMailed(h) /\ ~refused
      <4> DEFINE entry == Resolved(v.copy, "email", v.email)
                 column == Written(v.copy, "email", entry)
      <4>1. ~(Taken(v.address, None) \/ ~Acceptable(v.copy, "email", v.email))
        BY <3>1 DEF SetupMailed, settings
      <4>2. entry.secret <= MaxSecrets
        BY <2>2, SettingsAssumption DEF Resolved, NoEntry
      <4>3. entry \in Entries
        BY <2>2, <4>2, ResolvedType DEF SettingsInv
      <4>4. column \in Metas
        BY <2>2, <4>3, EntryTypes
      <4>5. Fits(column)
        BY <2>2, <2>3, <4>1, ResolvedFits DEF Current
      <4>6. \A s \in Sections \ {"email"} : column[s] = v.copy[s]
        BY <2>2 DEF Written, Metas
      <4>7. \E then : SetupRows(h, column, {"email"}, "founded", then)
        BY <3>1, <4>1 DEF SetupMailed
      <4> HIDE DEF column
      <4>8. QED
        BY <4>4, <4>5, <4>6, <4>7
    <3>2. CASE SetupEnds(h) /\ ~refused /\ ~v.founded
      <4>1. SetupRows(h, v.copy, {}, "done", None)
        BY <3>2 DEF SetupEnds, settings
      <4>2. QED
        BY <2>2, <2>3, <4>1 DEF Current
    <3>3. QED
      BY <1>5, <3>1, <3>2
  <2>5. PICK column \in Metas, next \in {"done", "founded"} : \E saves, then :
           /\ SetupRows(h, column, saves, next, then)
           /\ Fits(column) /\ \A s \in Sections \ saves : column[s] = v.copy[s]
    BY <2>4
  <2>6. PICK saves, then :
           /\ SetupRows(h, column, saves, next, then)
           /\ Fits(column) /\ \A s \in Sections \ saves : column[s] = v.copy[s]
    BY <2>5
  <2> DEFINE changed == SetupKey \union
                           IF v.profile # None /\ column = v.copy THEN {} ELSE Row(v.profile)
  <2>7. /\ Puts(v.profile, v.copy, column, saves)
        /\ Commits(h, changed, SetupKey \union Row(v.profile), next, then)
    BY <2>6 DEF SetupRows
  <2>8. /\ v.profile # None /\ column # v.copy => Row(v.profile) \subseteq changed
        /\ Row(v.profile) \subseteq SetupKey \union Row(v.profile)
    OBVIOUS
  <2>9. v.profile # None =>
            \A s \in Sections : v.copy[s] = profiles[v.profile][s] \/ <<s, v.profile>> \in stale[h]
    BY <2>3 DEF Current
  <2>10. next \in {"done", "register", "founded"}
    BY <2>5
  <2> DEFINE relied == SetupKey \union Row(v.profile)
  <2>11. Row(v.profile) \subseteq relied /\ Commits(h, changed, relied, next, then)
    BY <2>7
  <2>12. column \in Metas /\ Fits(column) /\ \A s \in Sections \ saves : column[s] = v.copy[s]
    BY <2>5, <2>6
  <2>13. v.profile \in Profiles \union {None} /\ v.copy \in Metas
    BY <2>1, <2>2
  <2> HIDE DEF v, changed, relied
  <2>14. QED
    <3>1. Puts(v.profile, v.copy, column, saves)
      BY <2>7
    <3>2. v.profile # None /\ column # v.copy => Row(v.profile) \subseteq changed
      BY <2>8
    <3>3. QED
      BY <3>1, <3>2, <2>9, <2>10, <2>11, <2>12, <2>13, KeptWritten, ZenonT(60)
<1>6. CASE SetupEnds(h) /\ ~refused /\ v.founded
  <2>1. Commits(h, {}, {}, "done", None) /\ UNCHANGED <<profiles, saved>>
    BY <1>6 DEF SetupEnds, settings
  <2>2. Lands(h, {"done"})
    BY <2>1, Landing
  <2>3. QED
    BY <1>a, <2>1, <2>2, KeptElsewhere
<1>7. QED
  BY <1>1, <1>2, <1>3, <1>4, <1>5, <1>6 DEF SetupNext

LEMMA KeptStep ==
    ASSUME TypeInv, AccountInv, KeptInv, [Next]_vars
    PROVE  KeptInv'
<1> DEFINE held == {"save", "secret", "flushed", "seed"}
<1>a. /\ ScopeStages \in SUBSET Stages /\ ScopeStages \intersect held = {}
      /\ AccountStages \in SUBSET Stages /\ AccountStages \intersect held = {}
      /\ {"done"} \in SUBSET Stages /\ {"done"} \intersect held = {}
  BY DEF ScopeStages, AccountStages, Stages, Resting
<1>1. CASE UNCHANGED vars
  BY <1>1 DEF vars, requests, history, settings, KeptInv, Profiles, HoldsCopy, Current
<1>2. ASSUME NEW h \in Handlers, ScopesNext(h), UNCHANGED <<settings, accounts, setup>>
      PROVE  KeptInv'
  BY <1>a, <1>2, ScopesStepType, KeptElsewhere DEF settings
<1>3. ASSUME NEW h \in Handlers, AccountsNext(h), UNCHANGED setup
      PROVE  KeptInv'
  <2>1. UNCHANGED <<profiles, saved>>
    BY <1>3 DEF AccountsNext, UserCounted, UserInserted, SignOnRead, SignedOn, UserLoaded,
                UserSaved, UserChosen, UserDeleted, LinkSent, PasswordLoaded, PasswordSaved,
                settings
  <2>2. QED
    BY <1>a, <1>3, <2>1, AccountsStepType, KeptElsewhere
<1>4. ASSUME NEW h \in Handlers, RequestFails(h)
      PROVE  KeptInv'
  <2>1. Lands(h, {"done"}) /\ UNCHANGED <<profiles, saved>>
    BY <1>4, Landing DEF RequestFails, TypeInv, settings
  <2>2. QED
    BY <1>a, <2>1, KeptElsewhere
<1>5. SeedsInv
  BY DEF AccountInv, SetupInv
<1>6. QED
  BY <1>1, <1>2, <1>3, <1>4, <1>5, KeptSettings, KeptSetup DEF Next

LEMMA InitKept == Init => KeptInv
<1> SUFFICES ASSUME Init PROVE KeptInv
  OBVIOUS
<1>1. ASSUME NEW p \in Profiles
      PROVE  Fits(profiles[p]) /\ saved = profiles
  <2>1. profiles[p] = [s \in Sections |-> IF s = "email" THEN scene.email ELSE NoEntry]
    BY DEF Init, SettingsInit, Profiles
  <2>2. scene.email.on # None => scene.email.key = scene.email.on
    BY EntryAssumption DEF Init, RequestsInit
  <2>3. /\ "payments" \in Sections /\ "payments" # "email" /\ Keyed \subseteq Sections
        /\ NoEntry.on = None /\ None # "paystack"
    BY SectionNames, EntryAssumption DEF Sections, Gateways, NoEntry
  <2>4. QED
    BY <2>1, <2>2, <2>3 DEF Fits, Init, SettingsInit
<1>2. \A h \in Handlers : ~HoldsCopy(stage[h], work[h])
  BY DEF Init, RequestsInit, HoldsCopy
<1>3. QED
  BY <1>1, <1>2 DEF KeptInv

\* Every section holds what was last saved in it, unless a save wrote over a
\* column that had changed since it was loaded; and a provider in use has a
\* key, the one entered for it or a mask that was sent back, and never the
\* one entered for another provider.
THEOREM SettingsStayKept == Spec => []SettingsKept
<1>1. Init => TypeInv /\ AccountInv /\ KeptInv
  BY InitType, InitAccounts, InitKept
<1>2. TypeInv /\ AccountInv /\ KeptInv /\ [Next]_vars => (TypeInv /\ AccountInv /\ KeptInv)'
  BY NextType, NextAccounts, KeptStep
<1>3. KeptInv => SettingsKept
  BY DEF KeptInv, SettingsKept, KeysFit, Fits
<1>4. QED
  BY <1>1, <1>2, <1>3, PTL DEF Spec

----------------------------------------------------------------------------
(***************************************************************************)
(* Scopes: documents and products.                                         *)
(***************************************************************************)

LEMMA DocsFrame ==
    ASSUME TypeInv, DocsInv, NEW h \in Handlers, NEW s \in Stages, NEW w, Moves(h, s, w),
           \A d \in Docs' : <<"doc", d>> \notin blind' => DocKept(d)',
           s = "doc" => docs'[w.doc] \in {w.row, None},
           \A k \in Handlers :
              k # h /\ stage[k] = "doc" => \/ docs'[work[k].doc] \in {docs[work[k].doc], None}
                                           \/ <<"doc", work[k].doc>> \in stale'[k]
    PROVE  DocsInv'
<1>1. ASSUME NEW k \in Handlers, stage'[k] = "doc"
      PROVE  \/ <<"doc", work'[k].doc>> \in stale'[k]
             \/ docs'[work'[k].doc] \in {work'[k].row, None}
  <2>1. CASE k = h
    BY <1>1, <2>1 DEF TypeInv, RequestsInv, Moves
  <2>2. CASE k # h
    <3>1. stage'[k] = stage[k] /\ work'[k] = work[k]
      BY <2>2 DEF TypeInv, RequestsInv, Moves
    <3>2. stale[k] \subseteq stale'[k]
      BY <1>1, <2>2, <3>1 DEF Moves, Resting
    <3>3. QED
      BY <1>1, <2>2, <3>1, <3>2 DEF DocsInv
  <2>3. QED
    BY <2>1, <2>2
<1>2. QED
  BY <1>1 DEF DocsInv

LEMMA DocsElsewhere ==
    ASSUME TypeInv, DocsInv, NEW h \in Handlers, NEW S \in SUBSET Stages, "doc" \notin S,
           Lands(h, S), UNCHANGED <<docs, docAsked>>
    PROVE  DocsInv'
<1>1. PICK s \in S : \E w : Moves(h, s, w)
  BY DEF Lands
<1>2. PICK w : Moves(h, s, w)
  BY <1>1
<1>3. \A d \in Docs' : <<"doc", d>> \notin blind' => DocKept(d)'
  BY <1>2 DEF DocsInv, Docs, DocKept, Keeps, Moves
<1>4. QED
  BY <1>2, <1>3, DocsFrame

\* What an update leaves in the columns, and what it asked for.
LEMMA DocUpdatedKept ==
    ASSUME NEW row \in DocRows, NEW scope \in DocScopes, NEW ask \in DocAsks, Keeps(row, scope)
    PROVE  Keeps(DocUpdated(row, ask), DocScope(scope, row, ask))
<1> DEFINE new == DocUpdated(row, ask)
           asked == DocScope(scope, row, ask)
           gids == SideKept(ask.groups, row.groups)
           sent == IF row.kind = "item" /\ ask.tags = {} THEN None ELSE ask.tags
           free == SideKept(sent, row.marks)
<1> USE DEF DocRows, DocScopes
<1>1. /\ asked.groups = gids /\ asked.tags = SideKept(ask.tags, scope.tags)
      /\ asked.unheard = IF ask.tags = None THEN scope.unheard ELSE Unheard(row, ask)
  BY DEF DocScope, Keeps
<1>2. gids \in SUBSET GroupIds /\ gids \intersect Tags = {}
  BY ScopeAssumption DEF SideKept, DocAsks
<1>3. CASE ask.groups = None /\ ask.tags = None
  <2>1. new = row
    BY <1>3 DEF DocUpdated
  <2>2. asked.groups = scope.groups /\ asked.tags = scope.tags /\ asked.unheard = scope.unheard
    BY <1>1, <1>3 DEF SideKept, Keeps
  <2>3. QED
    BY <2>1, <2>2 DEF Keeps
<1>4. CASE ask.groups = None /\ ask.tags # None /\ row.kind = "item"
  <2>1. new = [row EXCEPT !.marks = ask.tags]
    BY <1>4 DEF DocUpdated
  <2>2. new.groups = row.groups /\ new.marks = ask.tags
    BY <2>1
  <2>3. asked.groups = row.groups /\ asked.tags = ask.tags
    BY <1>1, <1>4 DEF SideKept
  <2>4. QED
    BY <2>2, <2>3 DEF Keeps
<1>5. CASE ~(ask.groups = None /\ ask.tags = None) /\ ~(ask.groups = None /\ row.kind = "item")
  <2>1. new = [row EXCEPT !.groups = gids, !.marks = gids \union Words(free)]
    BY <1>5 DEF DocUpdated
  <2>2. new.groups = gids /\ new.marks = gids \union Words(free)
    BY <2>1
  <2>3. Words(new.marks) = Words(free) /\ new.marks \ Tags \subseteq gids
    BY <1>2, <2>2 DEF Words
  <2>4. ~asked.unheard => Words(free) = Words(asked.tags)
    <3>1. CASE ask.tags = None
      <4>1. free = row.marks /\ asked.tags = scope.tags /\ asked.unheard = scope.unheard
        BY <1>1, <3>1 DEF SideKept
      <4>2. QED
        BY <4>1 DEF Keeps
    <3>2. CASE ask.tags # None /\ row.kind = "item" /\ ask.tags = {}
      <4>1. free = row.marks /\ asked.tags = {}
        BY <1>1, <3>2 DEF SideKept
      <4>2. ~asked.unheard => Words(row.marks) = {}
        BY <1>1, <1>5, <3>2 DEF Unheard
      <4>3. QED
        BY <4>1, <4>2 DEF Words
    <3>3. CASE ask.tags # None /\ ~(row.kind = "item" /\ ask.tags = {})
      BY <1>1, <3>3 DEF SideKept
    <3>4. QED
      BY <3>1, <3>2, <3>3
  <2>5. QED
    BY <1>1, <2>2, <2>3, <2>4 DEF Keeps
<1>6. QED
  BY <1>3, <1>4, <1>5

LEMMA DocsSaved ==
    ASSUME TypeInv, DocsInv, NEW h \in Handlers, DocSaved(h)
    PROVE  DocsInv'
<1> USE DEF TypeInv
<1> DEFINE v == work[h]
           d == v.doc
           new == DocUpdated(v.row, v.ask)
           key == {<<"doc", d>>}
           row == [kind   |-> docs[d].kind,
                   groups |-> Kept(docs[d].groups, v.row.groups, new.groups),
                   marks  |-> Kept(docs[d].marks, v.row.marks, new.marks)]
           scope == DocScope(docAsked[d], v.row, v.ask)
<1>1. v \in DocWork /\ d \in DocIds /\ v.row \in DocRows /\ v.ask \in DocAsks /\ stage[h] = "doc"
  BY DEF DocSaved, RequestsInv, Holds, DocWork
<1>2. CASE docs[d] = None
  <2>1. Lands(h, {"done"}) /\ UNCHANGED <<docs, docAsked>>
    BY <1>2, Landing DEF DocSaved, scopes
  <2>2. {"done"} \in SUBSET Stages /\ "doc" \notin {"done"}
    BY DEF Stages, Resting
  <2>3. QED
    BY <2>1, <2>2, DocsElsewhere
<1>3. CASE docs[d] # None
  <2>1. /\ docs' = [docs EXCEPT ![d] = row] /\ docAsked' = [docAsked EXCEPT ![d] = scope]
        /\ Commits(h, key, key, "done", None)
    BY <1>1, <1>3 DEF DocSaved, ScopesInv, ScopesTypeOK
  <2>2. /\ "done" \in Stages /\ Moves(h, "done", None)
        /\ blind' = blind \union (stale[h] \intersect key)
        /\ \A k \in Handlers : k # h /\ stage[k] \notin Resting => stale'[k] = stale[k] \union key
    BY <2>1, Ending
  <2>3. ASSUME <<"doc", d>> \notin blind'
        PROVE  Keeps(row, scope)
    <3>1. docs[d] = v.row
      BY <1>1, <1>3, <2>2, <2>3 DEF DocsInv
    <3>2. DocKept(d) /\ docAsked[d] \in DocScopes
      BY <1>1, <1>3, <2>2, <2>3 DEF DocsInv, Docs, ScopesInv
    <3>3. Keeps(new, scope)
      BY <1>1, <3>1, <3>2, DocUpdatedKept DEF DocKept
    <3>4. row.groups = new.groups /\ row.marks = new.marks
      BY <3>1 DEF Kept
    <3> HIDE DEF row, scope, new
    <3>5. QED
      BY <3>3, <3>4 DEF Keeps
  <2> HIDE DEF row, scope
  <2>4. docs'[d] = row /\ docAsked'[d] = scope
    BY <1>1, <2>1 DEF ScopesInv, ScopesTypeOK
  <2>5. \A e \in DocIds : e # d => docs'[e] = docs[e] /\ docAsked'[e] = docAsked[e]
    BY <1>1, <2>1 DEF ScopesInv, ScopesTypeOK
  <2>6. ASSUME NEW e \in Docs', <<"doc", e>> \notin blind'
        PROVE  DocKept(e)'
    <3>1. CASE e = d
      BY <2>3, <2>4, <2>6, <3>1 DEF DocKept, Keeps
    <3>2. CASE e # d
      BY <2>2, <2>5, <2>6, <3>2 DEF DocsInv, DocKept, Keeps, Docs
    <3>3. QED
      BY <3>1, <3>2
  <2>7. ASSUME NEW k \in Handlers, k # h, stage[k] = "doc"
        PROVE  \/ docs'[work[k].doc] \in {docs[work[k].doc], None}
               \/ <<"doc", work[k].doc>> \in stale'[k]
    <3>1. work[k].doc \in DocIds /\ stage[k] \notin Resting
      BY <2>7 DEF RequestsInv, Holds, DocWork, Resting
    <3>2. QED
      BY <2>2, <2>5, <2>7, <3>1
  <2> HIDE DEF v, d, key
  <2>8. QED
    BY <2>2, <2>6, <2>7, DocsFrame
<1>4. QED
  BY <1>2, <1>3

LEMMA DocsStep ==
    ASSUME TypeInv, DocsInv, NEW h \in Handlers,
           DocLoaded(h) \/ DocDeleted(h) \/ DocCreated(h)
    PROVE  DocsInv'
<1> USE DEF TypeInv, ScopesInv, ScopesTypeOK
<1>1. CASE DocLoaded(h)
  <2> DEFINE read(d, ask) == [doc |-> d, row |-> docs[d], ask |-> ask]
  <2>1. PICK d \in Docs, ask \in DocAsks : Reads(h, "doc", read(d, ask))
    BY <1>1 DEF DocLoaded
  <2>2. Moves(h, "doc", read(d, ask)) /\ "doc" \in Stages /\ blind' = blind
    BY <2>1, ReadsMove DEF Stages, Resting
  <2>3. read(d, ask).doc = d /\ read(d, ask).row = docs[d]
    OBVIOUS
  <2>4. UNCHANGED <<docs, docAsked>>
    BY <1>1 DEF DocLoaded, scopes
  <2>5. \A e \in Docs' : <<"doc", e>> \notin blind' => DocKept(e)'
    BY <2>2, <2>4 DEF DocsInv, Docs, DocKept, Keeps
  <2> HIDE DEF read
  <2>6. QED
    BY <2>2, <2>3, <2>4, <2>5, DocsFrame
<1>2. CASE DocDeleted(h)
  <2>1. PICK d \in Docs : /\ docs' = [docs EXCEPT ![d] = None]
                          /\ docAsked' = [docAsked EXCEPT ![d] = None]
                          /\ Commits(h, {<<"doc", d>>}, {}, "done", None)
    BY <1>2 DEF DocDeleted
  <2>2. "done" \in Stages /\ Moves(h, "done", None)
    BY <2>1, Ending
  <2>3. \A e \in DocIds : e # d => docs'[e] = docs[e] /\ docAsked'[e] = docAsked[e]
    BY <2>1
  <2>4. docs'[d] = None
    BY <2>1 DEF Docs
  <2>5. \A e \in Docs' : <<"doc", e>> \notin blind' => DocKept(e)'
    BY <2>2, <2>3, <2>4 DEF DocsInv, Docs, DocKept, Keeps, Moves
  <2>6. \A k \in Handlers : stage[k] = "doc" => work[k].doc \in DocIds
    BY DEF RequestsInv, Holds, DocWork
  <2>7. QED
    BY <2>2, <2>3, <2>4, <2>5, <2>6, DocsFrame
<1>3. CASE DocCreated(h)
  <2> DEFINE row(gids, tags, kind) ==
               [kind |-> kind, groups |-> gids,
                marks |-> gids \union (IF kind = "item" THEN tags ELSE Words(tags))]
             asks(gids, tags) == [groups |-> gids, tags |-> tags, unheard |-> FALSE]
  <2>1. PICK d \in DocIds \ Docs, gids \in SUBSET GroupIds, tags \in TagLists,
             kind \in {"knowledge", "item"} :
          /\ \A k \in Handlers : stage[k] = "doc" => work[k].doc # d
          /\ docs' = [docs EXCEPT ![d] = row(gids, tags, kind)]
          /\ docAsked' = [docAsked EXCEPT ![d] = asks(gids, tags)]
          /\ Commits(h, {}, {}, "done", None)
    BY <1>3 DEF DocCreated
  <2>2. "done" \in Stages /\ Moves(h, "done", None)
    BY <2>1, Ending
  <2>3. \A e \in DocIds : e # d => docs'[e] = docs[e] /\ docAsked'[e] = docAsked[e]
    BY <2>1
  <2>4. docs'[d] = row(gids, tags, kind) /\ docAsked'[d] = asks(gids, tags)
    BY <2>1
  <2>a. gids \intersect Tags = {}
    BY ScopeAssumption
  <2>b. Keeps(row(gids, tags, kind), asks(gids, tags))
    BY <2>a DEF Keeps, Words
  <2> HIDE DEF row, asks
  <2>5. ASSUME NEW e \in Docs', <<"doc", e>> \notin blind' PROVE DocKept(e)'
    <3>1. CASE e = d
      BY <2>4, <2>b, <3>1 DEF DocKept, Keeps
    <3>2. CASE e # d
      BY <2>2, <2>3, <2>5, <3>2 DEF DocsInv, Docs, DocKept, Keeps, Moves
    <3>3. QED
      BY <3>1, <3>2
  <2>6. \A k \in Handlers : stage[k] = "doc" => work[k].doc \in DocIds \ {d}
    BY <2>1 DEF RequestsInv, Holds, DocWork
  <2>7. QED
    BY <2>2, <2>3, <2>5, <2>6, DocsFrame
<1>4. QED
  BY <1>1, <1>2, <1>3

----------------------------------------------------------------------------
(***************************************************************************)
(* Scopes: agents and groups.                                              *)
(***************************************************************************)

\* The groups that there are, or may yet be, are the same or fewer; and of
\* the agents that requests hold, none changed, or they hold it stale.
LEMMA AgentsFrame ==
    ASSUME TypeInv, AgentsInv, NEW h \in Handlers, NEW s \in Stages, NEW w, Moves(h, s, w),
           nextAgent' \in Nat, nextAgent <= nextAgent',
           \A g \in Groups' : g < nextGroup',
           \A a \in Agents' : <<"agent", a>> \notin blind' => AgentKept(a)',
           s = "agent" => w.agent < nextAgent' /\ AgentLoadedStill(w)',
           \A held \in AgentWork, k \in Handlers :
              /\ k # h /\ stage[k] = "agent"
              /\ held.agent < nextAgent /\ AgentLoadedStill(held)
              => AgentLoadedStill(held)' \/ <<"agent", held.agent>> \in stale'[k]
    PROVE  AgentsInv'
<1>1. ASSUME NEW k \in Handlers, stage'[k] = "agent"
      PROVE  /\ work'[k].agent < nextAgent'
             /\ \/ <<"agent", work'[k].agent>> \in stale'[k]
                \/ \A held : held = work'[k] => AgentLoadedStill(held)'
  <2>1. CASE k = h
    BY <1>1, <2>1 DEF TypeInv, RequestsInv, Moves
  <2>2. CASE k # h
    <3>1. stage'[k] = stage[k] /\ work'[k] = work[k]
      BY <2>2 DEF TypeInv, RequestsInv, Moves
    <3>2. stale[k] \subseteq stale'[k]
      BY <1>1, <2>2, <3>1 DEF Moves, Resting
    <3>3. work[k] \in AgentWork /\ work[k].agent \in Nat /\ nextAgent \in Nat
      BY <1>1, <3>1, ScopeAssumption, Sequels
         DEF TypeInv, RequestsInv, Holds, AgentWork, ScopesInv, ScopesTypeOK
    <3>4. /\ work[k].agent < nextAgent
          /\ <<"agent", work[k].agent>> \in stale[k] \/ AgentLoadedStill(work[k])
      BY <1>1, <3>1 DEF AgentsInv
    <3>5. work'[k].agent < nextAgent'
      BY <3>1, <3>3, <3>4
    <3>6. ASSUME AgentLoadedStill(work[k])
          PROVE  \A held : held = work[k] =>
                    AgentLoadedStill(held)' \/ <<"agent", held.agent>> \in stale'[k]
      BY <1>1, <2>2, <3>1, <3>3, <3>4, <3>6
    <3>7. QED
      BY <3>1, <3>2, <3>4, <3>5, <3>6
  <2>3. QED
    BY <2>1, <2>2
<1>2. \A k \in Handlers : AgentLoadedStill(work[k])' <=>
          \A held : held = work'[k] => AgentLoadedStill(held)'
  BY DEF AgentLoadedStill, There, Groups
<1>3. QED
  BY <1>1, <1>2 DEF AgentsInv

LEMMA NextAgentType ==
    TypeInv => nextAgent \in Nat /\ AgentIds \subseteq Nat /\ GroupIds \subseteq Nat
               /\ nextGroup \in Nat /\ 0 \notin GroupIds
<1>1. \A S : Numbered(S) => 0 \notin S
  BY Sequels DEF Numbered
<1>2. QED
  BY <1>1, ScopeAssumption, Sequels DEF TypeInv, ScopesInv, ScopesTypeOK

LEMMA AgentsElsewhere ==
    ASSUME TypeInv, AgentsInv, NEW h \in Handlers, NEW S \in SUBSET Stages, "agent" \notin S,
           Lands(h, S), UNCHANGED <<agents, nextAgent, agentAsked>>,
           \A g \in Groups' : g < nextGroup', \A g \in GroupIds : There(g)' => There(g)
    PROVE  AgentsInv'
<1>1. PICK s \in S : \E w : Moves(h, s, w)
  BY DEF Lands
<1>2. PICK w : Moves(h, s, w)
  BY <1>1
<1>3. \A a \in Agents' : <<"agent", a>> \notin blind' => AgentKept(a)'
  BY <1>2 DEF AgentsInv, Agents, AgentKept, AgentGroups, Moves
<1>4. \A held \in AgentWork : AgentLoadedStill(held) => AgentLoadedStill(held)'
  BY DEF AgentLoadedStill
<1>5. nextAgent \in Nat
  BY NextAgentType
<1>6. nextAgent <= nextAgent'
  BY <1>5
<1>7. QED
  BY <1>2, <1>3, <1>4, <1>5, <1>6, AgentsFrame

\* A new agent, made by a request or by the setup.
LEMMA AgentAdded ==
    ASSUME TypeInv, AgentsInv, NEW h \in Handlers, NEW S \in SUBSET Stages, "agent" \notin S,
           Lands(h, S), nextAgent \in AgentIds, nextAgent' = nextAgent + 1,
           NEW row \in AgentRows, NEW scope \in AgentScopes,
           agents' = [agents EXCEPT ![nextAgent] = row],
           agentAsked' = [agentAsked EXCEPT ![nextAgent] = scope],
           row.tags = scope.tags, row.first = scope.first,
           scope.groups = Range(row.groups) \union ({row.first} \ {None}),
           UNCHANGED <<groups, nextGroup>>
    PROVE  AgentsInv'
<1> USE DEF TypeInv, ScopesInv, ScopesTypeOK
<1>1. PICK s \in S : \E w : Moves(h, s, w)
  BY DEF Lands
<1>2. PICK w : Moves(h, s, w)
  BY <1>1
<1>3. nextAgent \in Nat /\ nextAgent <= nextAgent' /\ AgentIds \subseteq Nat
  BY NextAgentType
<1>4. /\ agents'[nextAgent] = row /\ agentAsked'[nextAgent] = scope
      /\ \A a \in AgentIds \ {nextAgent} : agents'[a] = agents[a] /\ agentAsked'[a] = agentAsked[a]
  OBVIOUS
<1>5. Groups' = Groups /\ \A g : There(g)' <=> There(g)
  BY DEF Groups, There
<1>6. \A g \in Groups' : g < nextGroup'
  BY <1>5 DEF AgentsInv
<1>7. ASSUME NEW a \in Agents', <<"agent", a>> \notin blind' PROVE AgentKept(a)'
  <2>1. CASE a = nextAgent
    BY <1>4, <2>1 DEF AgentKept, AgentGroups
  <2>2. CASE a # nextAgent
    BY <1>2, <1>4, <1>5, <1>7, <2>2 DEF AgentsInv, Agents, AgentKept, AgentGroups, Moves
  <2>3. QED
    BY <2>1, <2>2
<1>8. ASSUME NEW held \in AgentWork, held.agent < nextAgent, AgentLoadedStill(held)
      PROVE  AgentLoadedStill(held)'
  <2>1. held.agent \in AgentIds \ {nextAgent}
    BY <1>3, <1>8 DEF AgentWork
  <2>2. agents'[held.agent] = agents[held.agent]
    BY <1>4, <2>1
  <2>3. QED
    BY <1>5, <1>8, <2>2 DEF AgentLoadedStill
<1>9. nextAgent' \in Nat
  BY <1>3
<1>10. QED
  BY <1>2, <1>3, <1>6, <1>7, <1>8, <1>9, AgentsFrame

\* What an update leaves in an agent's columns, and what it asked for.
LEMMA AgentUpdatedKept ==
    ASSUME NEW row \in AgentRows, NEW ask \in AgentAsks, NEW scope \in AgentScopes,
           0 \notin GroupIds, NEW first, first \in {AgentUpdated(row, ask).first, None}
    PROVE  LET new == AgentUpdated(row, ask)
               asked == AgentScope(scope, ask)
               held == Range(new.groups) \union ({first} \ {None})
           IN  IF ask.form = "tags"
               THEN /\ new.first = row.first /\ new.groups = row.groups
                    /\ asked.groups = scope.groups /\ asked.tags = new.tags
                    /\ asked.first = scope.first
               ELSE /\ held = asked.groups /\ new.first = asked.first
                    /\ new.tags = row.tags /\ asked.tags = scope.tags
<1> DEFINE new == AgentUpdated(row, ask)
           asked == AgentScope(scope, ask)
           held == Range(new.groups) \union ({first} \ {None})
<1> USE DEF AgentRows, AgentScopes
<1>1. CASE ask \in [form: {"tags"}, tags: TagLists]
  <2>1. new = [row EXCEPT !.tags = ask.tags] /\ asked = [scope EXCEPT !.tags = ask.tags]
    BY <1>1 DEF AgentUpdated, AgentScope
  <2>2. QED
    BY <1>1, <2>1
<1>2. CASE ask \in [form: {"list"}, list: Lists]
  <2>1. /\ new = [row EXCEPT !.groups = ask.list, !.first = FirstOf(ask.list)]
        /\ asked = [scope EXCEPT !.groups = Range(ask.list), !.first = FirstOf(ask.list)]
    BY <1>2 DEF AgentUpdated, AgentScope, AskedGroups
  <2>2. FirstOf(ask.list) \in Range(ask.list) \union {None}
    BY <1>2 DEF FirstOf, Range, Lists
  <2>3. first \in Range(ask.list) \union {None}
    BY <2>1, <2>2
  <2>4. new.groups = ask.list /\ asked.groups = Range(ask.list)
    BY <2>1
  <2>5. held = asked.groups
    <3>1. None \notin Range(ask.list)
      BY <1>2, AgentTypes, ScopeAssumption
    <3>2. QED
      BY <2>3, <2>4, <3>1
  <2>6. /\ new.tags = row.tags /\ asked.tags = scope.tags /\ ask.form # "tags"
        /\ new.first = asked.first
    BY <1>2, <2>1
  <2>7. QED
    BY <2>5, <2>6
<1>3. CASE ask \in [form: {"one"}, one: GroupIds \union {0}]
  <2>1. /\ new = [row EXCEPT !.groups = ListOfOne(ask.one), !.first = OneOf(ask.one)]
        /\ asked = [scope EXCEPT !.groups = {ask.one} \ {0}, !.first = OneOf(ask.one)]
    BY <1>3 DEF AgentUpdated, AgentScope, AskedGroups, OneOf
  <2>2. Range(ListOfOne(ask.one)) = {ask.one} \ {0}
    BY DEF ListOfOne, Range
  <2>3. first \in {ask.one, None} /\ (ask.one = 0 => first = None)
    BY <2>1 DEF OneOf
  <2>4. None \notin GroupIds
    BY ScopeAssumption
  <2>5. new.groups = ListOfOne(ask.one) /\ asked.groups = {ask.one} \ {0}
    BY <2>1
  <2>6. held = asked.groups
    BY <2>2, <2>3, <2>5
  <2>7. /\ new.tags = row.tags /\ asked.tags = scope.tags /\ ask.form # "tags"
        /\ new.first = asked.first
    BY <1>3, <2>1
  <2>8. QED
    BY <2>6, <2>7
<1>4. QED
  BY <1>1, <1>2, <1>3 DEF AgentAsks

LEMMA AgentsSaved ==
    ASSUME TypeInv, AgentsInv, NEW h \in Handlers, AgentSaved(h)
    PROVE  AgentsInv'
<1> USE DEF TypeInv
<1> DEFINE v == work[h]
           a == v.agent
           new == AgentUpdated(v.row, v.ask)
           key == {<<"agent", a>>}
           saves(bot) == [first  |-> Kept(agents[a].first, v.row.first, new.first),
                          groups |-> Kept(agents[a].groups, v.row.groups, new.groups),
                          tags   |-> Kept(agents[a].tags, v.row.tags, new.tags),
                          bot    |-> bot]
           scope == AgentScope(agentAsked[a], v.ask)
<1>1. /\ v \in AgentWork /\ a \in AgentIds /\ v.row \in AgentRows /\ v.ask \in AgentAsks
      /\ stage[h] = "agent"
  BY DEF AgentSaved, RequestsInv, Holds, AgentWork
<1>2. CASE AgentRefused(v)
  <2>1. Lands(h, {"done"}) /\ UNCHANGED scopes
    BY <1>2, Landing DEF AgentSaved
  <2>2. {"done"} \in SUBSET Stages /\ "agent" \notin {"done"}
    BY DEF Stages, Resting
  <2>3. /\ UNCHANGED <<agents, nextAgent, agentAsked>>
        /\ \A g \in Groups' : g < nextGroup'
        /\ \A g \in GroupIds : There(g)' <=> There(g)
    BY <2>1 DEF AgentsInv, scopes, Groups, There
  <2>4. QED
    BY <2>1, <2>2, <2>3, AgentsElsewhere
<1>3. CASE ~AgentRefused(v)
  <2>0. PICK bot \in BOOLEAN :
          /\ agents' = [agents EXCEPT ![a] = saves(bot)]
          /\ Commits(h, key, key, IF bot THEN "register" ELSE "done", None)
    BY <1>1, <1>3 DEF AgentSaved, ScopesInv, ScopesTypeOK
  <2> DEFINE row == saves(bot)
             next == IF bot THEN "register" ELSE "done"
  <2>1. /\ agents' = [agents EXCEPT ![a] = row] /\ agentAsked' = [agentAsked EXCEPT ![a] = scope]
        /\ Commits(h, key, key, next, None)
        /\ UNCHANGED <<groups, docs, nextGroup, nextAgent, docAsked>>
    BY <1>1, <1>3, <2>0 DEF AgentSaved, ScopesInv, ScopesTypeOK
  <2>2. /\ next \in Stages /\ Moves(h, next, None)
        /\ blind' = blind \union (stale[h] \intersect key)
        /\ \A k \in Handlers : k # h /\ stage[k] \notin Resting => stale'[k] = stale[k] \union key
    <3>1. next \in Stages \ {"idle"}
      BY DEF Stages, Resting
    <3>2. QED
      BY <2>1, <3>1, CommitsMove
  <2>3. agents[a] # None
    BY <1>3 DEF AgentRefused
  <2>4. ASSUME <<"agent", a>> \notin blind'
        PROVE  /\ row.tags = scope.tags
               /\ \/ row.first = scope.first
                  \/ row.first = None /\ scope.first \in GroupIds /\ ~There(scope.first)
               /\ \A g \in GroupIds : There(g) =>
                     (g \in Range(row.groups) \union ({row.first} \ {None}) <=> g \in scope.groups)
    <3>1. AgentLoadedStill(v) /\ AgentKept(a) /\ agentAsked[a] \in AgentScopes
      BY <1>1, <2>2, <2>3, <2>4 DEF AgentsInv, Agents, ScopesInv
    <3>2. /\ row.groups = new.groups /\ row.tags = new.tags
          /\ agents[a].groups = v.row.groups /\ agents[a].tags = v.row.tags
      BY <2>3, <3>1 DEF AgentLoadedStill, Kept
    <3>3. /\ row.first \in {new.first, None} /\ (new.first = v.row.first => row.first = agents[a].first)
          /\ \/ row.first = new.first
             \/ row.first = None /\ new.first \in GroupIds /\ ~There(new.first)
      BY <2>3, <3>1 DEF AgentLoadedStill, Kept
    <3>4. 0 \notin GroupIds
      BY NextAgentType
    <3>5. IF v.ask.form = "tags"
          THEN /\ new.first = v.row.first /\ new.groups = v.row.groups
               /\ scope.groups = agentAsked[a].groups /\ scope.tags = new.tags
               /\ scope.first = agentAsked[a].first
          ELSE /\ Range(new.groups) \union ({row.first} \ {None}) = scope.groups
               /\ new.first = scope.first
               /\ new.tags = v.row.tags /\ scope.tags = agentAsked[a].tags
      <4>1. row.first \in {AgentUpdated(v.row, v.ask).first, None} /\ agentAsked[a] \in AgentScopes
        BY <3>1, <3>3
      <4>2. v.row \in AgentRows /\ v.ask \in AgentAsks
        BY <1>1
      <4> HIDE DEF row, v, a
      <4>3. QED
        BY <3>4, <4>1, <4>2, AgentUpdatedKept
    <3>6. /\ agents[a].tags = agentAsked[a].tags
          /\ \/ agents[a].first = agentAsked[a].first
             \/ /\ agents[a].first = None
                /\ agentAsked[a].first \in GroupIds /\ ~There(agentAsked[a].first)
          /\ \A g \in GroupIds : There(g) =>
                (g \in Range(agents[a].groups) \union ({agents[a].first} \ {None})
                    <=> g \in agentAsked[a].groups)
      BY <3>1 DEF AgentKept, AgentGroups
    <3> HIDE DEF v, a, new, row, scope
    <3>7. QED
      BY <3>2, <3>3, <3>5, <3>6
  <2> HIDE DEF row, saves, scope
  <2>5. agents'[a] = row /\ agentAsked'[a] = scope
    BY <1>1, <2>1 DEF ScopesInv, ScopesTypeOK
  <2>6. \A b \in AgentIds : b # a => agents'[b] = agents[b] /\ agentAsked'[b] = agentAsked[b]
    BY <1>1, <2>1 DEF ScopesInv, ScopesTypeOK
  <2>7. Groups' = Groups /\ \A g : There(g)' <=> There(g)
    BY <2>1 DEF Groups, There
  <2>8. ASSUME NEW b \in Agents', <<"agent", b>> \notin blind' PROVE AgentKept(b)'
    <3>1. CASE b = a
      BY <2>4, <2>5, <2>7, <2>8, <3>1 DEF AgentKept, AgentGroups
    <3>2. CASE b # a
      BY <2>2, <2>6, <2>7, <2>8, <3>2 DEF AgentsInv, AgentKept, AgentGroups, Agents
    <3>3. QED
      BY <3>1, <3>2
  <2>9. ASSUME NEW held \in AgentWork, NEW k \in Handlers, k # h, stage[k] = "agent",
               AgentLoadedStill(held)
        PROVE  AgentLoadedStill(held)' \/ <<"agent", held.agent>> \in stale'[k]
    <3>1. CASE held.agent = a
      BY <2>2, <2>9, <3>1 DEF Resting
    <3>2. CASE held.agent # a
      <4>1. agents'[held.agent] = agents[held.agent]
        BY <2>6, <3>2 DEF AgentWork
      <4>2. QED
        BY <2>7, <2>9, <4>1 DEF AgentLoadedStill
    <3>3. QED
      BY <3>1, <3>2
  <2>10. nextAgent' \in Nat /\ nextAgent <= nextAgent' /\ \A g \in Groups' : g < nextGroup'
    BY <2>1, <2>7, NextAgentType DEF AgentsInv
  <2> HIDE DEF v, a, key
  <2>11. QED
    BY <2>2, <2>8, <2>9, <2>10, AgentsFrame
<1>4. QED
  BY <1>2, <1>3

LEMMA AgentsRead ==
    ASSUME TypeInv, SeedsInv, AgentsInv, NEW h \in Handlers, AgentLoaded(h)
    PROVE  AgentsInv'
<1> USE DEF TypeInv
<1> DEFINE read(a, ask) == [agent |-> a, row |-> agents[a], ask |-> ask]
<1>1. PICK a \in Agents : \E ask : Reads(h, "agent", read(a, ask))
  BY DEF AgentLoaded
<1>2. PICK ask : Reads(h, "agent", read(a, ask))
  BY <1>1
<1>3. Moves(h, "agent", read(a, ask)) /\ "agent" \in Stages /\ blind' = blind
  BY <1>2, ReadsMove DEF Stages, Resting
<1>4. read(a, ask).agent = a /\ read(a, ask).row = agents[a]
  OBVIOUS
<1>5. UNCHANGED scopes
  BY DEF AgentLoaded
<1>6. Groups' = Groups /\ Agents' = Agents /\ \A g : There(g)' <=> There(g)
  BY <1>5 DEF scopes, Groups, Agents, There
<1>7. \A b \in Agents' : <<"agent", b>> \notin blind' => AgentKept(b)'
  BY <1>3, <1>5, <1>6 DEF AgentsInv, AgentKept, AgentGroups, scopes
<1>8. \A held \in AgentWork : AgentLoadedStill(held) => AgentLoadedStill(held)'
  BY <1>5, <1>6 DEF AgentLoadedStill, scopes
<1>9. /\ nextAgent' \in Nat /\ nextAgent <= nextAgent' /\ \A g \in Groups' : g < nextGroup'
      /\ a < nextAgent'
  <2>1. a < nextAgent
    BY DEF SeedsInv
  <2>2. QED
    BY <1>5, <1>6, <2>1, NextAgentType DEF AgentsInv, scopes
<1> HIDE DEF read
<1>10. \A held : held = read(a, ask) => held.agent < nextAgent' /\ AgentLoadedStill(held)'
  BY <1>4, <1>5, <1>9 DEF AgentLoadedStill, scopes
<1>11. PICK held : held = read(a, ask)
  OBVIOUS
<1>12. Moves(h, "agent", held) /\ held.agent < nextAgent' /\ AgentLoadedStill(held)'
  BY <1>3, <1>10, <1>11
<1>13. QED
  BY <1>3, <1>7, <1>8, <1>9, <1>12, AgentsFrame

LEMMA AgentsDropped ==
    ASSUME TypeInv, AgentsInv, NEW h \in Handlers, AgentDeleted(h)
    PROVE  AgentsInv'
<1> USE DEF TypeInv, ScopesInv, ScopesTypeOK
<1>1. PICK a \in Agents : /\ agents' = [agents EXCEPT ![a] = None]
                          /\ agentAsked' = [agentAsked EXCEPT ![a] = None]
                          /\ Commits(h, {<<"agent", a>>}, {}, "done", None)
  BY DEF AgentDeleted
<1>2. "done" \in Stages /\ Moves(h, "done", None)
  BY <1>1, Ending
<1>3. /\ agents'[a] = None
      /\ \A b \in AgentIds : b # a => agents'[b] = agents[b] /\ agentAsked'[b] = agentAsked[b]
  BY <1>1 DEF Agents
<1>4. Groups' = Groups /\ \A g : There(g)' <=> There(g)
  BY DEF AgentDeleted, Groups, There
<1>5. \A b \in Agents' : <<"agent", b>> \notin blind' => AgentKept(b)'
  BY <1>2, <1>3, <1>4 DEF AgentsInv, AgentKept, AgentGroups, Agents, Moves
<1>6. \A held \in AgentWork : AgentLoadedStill(held) => AgentLoadedStill(held)'
  BY <1>3, <1>4 DEF AgentLoadedStill, AgentWork
<1>7. nextAgent' \in Nat /\ nextAgent <= nextAgent' /\ \A g \in Groups' : g < nextGroup'
  BY <1>4, NextAgentType DEF AgentsInv, AgentDeleted
<1>8. QED
  BY <1>2, <1>5, <1>6, <1>7, AgentsFrame

\* A group that is deleted was there, and never will be again.
LEMMA AgentsGroups ==
    ASSUME TypeInv, AgentsInv, NEW h \in Handlers,
           GroupCreated(h) \/ GroupUpdated(h) \/ GroupDeleted(h)
    PROVE  AgentsInv'
<1> USE DEF TypeInv, ScopesInv, ScopesTypeOK
<1>a. {"done"} \in SUBSET Stages /\ "agent" \notin {"done"} /\ Lands(h, {"done"})
  BY Landing DEF Stages, Resting, GroupCreated, GroupUpdated, GroupDeleted
<1>b. nextGroup \in Nat /\ GroupIds \subseteq Nat
  BY NextAgentType
<1>1. CASE GroupCreated(h)
  <2>1. PICK row \in GroupRows : groups' = [groups EXCEPT ![nextGroup] = row]
    BY <1>1 DEF GroupCreated
  <2>2. nextGroup \in GroupIds /\ nextGroup' = nextGroup + 1
    BY <1>1 DEF GroupCreated
  <2>3. Groups' \subseteq Groups \union {nextGroup}
    BY <1>b, <2>1, <2>2 DEF Groups
  <2>4. /\ \A g \in Groups' : g < nextGroup'
        /\ \A g \in GroupIds : There(g)' => There(g)
    BY <1>b, <2>2, <2>3 DEF AgentsInv, There, Groups
  <2>5. QED
    BY <1>a, <1>1, <2>4, AgentsElsewhere DEF GroupCreated
<1>2. CASE GroupUpdated(h)
  <2>1. PICK g \in Groups, row \in GroupRows : groups' = [groups EXCEPT ![g] = row]
    BY <1>2 DEF GroupUpdated
  <2>2. Groups' \subseteq Groups /\ nextGroup' = nextGroup
    BY <1>b, <1>2, <2>1 DEF Groups, GroupUpdated
  <2>3. /\ \A f \in Groups' : f < nextGroup'
        /\ \A f \in GroupIds : There(f)' => There(f)
    BY <2>2 DEF AgentsInv, There
  <2>4. QED
    BY <1>a, <1>2, <2>3, AgentsElsewhere DEF GroupUpdated
<1>3. CASE GroupDeleted(h)
  <2>1. PICK g \in Groups :
           /\ groups' = [groups EXCEPT ![g] = None]
           /\ agents' = [a \in AgentIds |->
                  IF a \in Agents /\ agents[a].first = g
                  THEN [agents[a] EXCEPT !.first = None] ELSE agents[a]]
    BY <1>3 DEF GroupDeleted
  <2>2. Groups' = Groups \ {g} /\ nextGroup' = nextGroup /\ g < nextGroup /\ g \in GroupIds
    BY <1>3, <2>1 DEF Groups, GroupDeleted, AgentsInv
  <2>3. \A f \in GroupIds : There(f)' <=> There(f) /\ f # g
    BY <1>b, <2>2 DEF There
  <2>4. ASSUME NEW a \in AgentIds, agents'[a] # None
        PROVE  /\ agents[a] # None
               /\ agents'[a].groups = agents[a].groups /\ agents'[a].tags = agents[a].tags
               /\ agents'[a].first = IF agents[a].first = g THEN None ELSE agents[a].first
    <3>1. agents[a] # None
      BY <2>1, <2>4 DEF Agents
    <3>2. agents[a] \in AgentRows
      BY <3>1
    <3>3. agents'[a] = IF agents[a].first = g THEN [agents[a] EXCEPT !.first = None]
                       ELSE agents[a]
      BY <2>1, <3>1 DEF Agents
    <3>4. QED
      BY <3>1, <3>2, <3>3 DEF AgentRows
  <2>5. Agents' \subseteq Agents
    BY <2>4 DEF Agents
  <2>6. ASSUME NEW a \in Agents', <<"agent", a>> \notin blind'
        PROVE  AgentKept(a)'
    <3>1. a \in AgentIds /\ agents'[a] # None /\ agents[a] # None /\ AgentKept(a)
      BY <1>3, <2>5, <2>6 DEF Agents, AgentsInv, GroupDeleted, Commits
    <3>2. \A f \in GroupIds : f # g => (f \in AgentGroups(a)' <=> f \in AgentGroups(a))
      BY <2>4, <3>1, ScopeAssumption DEF AgentGroups
    <3>3. QED
      BY <1>3, <2>2, <2>3, <2>4, <3>1, <3>2 DEF AgentKept, GroupDeleted
  <2>7. ASSUME NEW held \in AgentWork, AgentLoadedStill(held)
        PROVE  AgentLoadedStill(held)'
    <3>1. held.agent \in AgentIds /\ held.row.first \in GroupIds \union {None}
      BY DEF AgentWork, AgentRows
    <3>2. CASE agents'[held.agent] = None
      BY <3>2 DEF AgentLoadedStill
    <3>3. CASE agents'[held.agent] # None
      BY <2>2, <2>3, <2>4, <2>7, <3>1, <3>3, ScopeAssumption DEF AgentLoadedStill
    <3>4. QED
      BY <3>2, <3>3
  <2>8. "done" \in Stages /\ Moves(h, "done", None)
    BY <1>3, Ending DEF GroupDeleted
  <2>9. nextAgent' \in Nat /\ nextAgent <= nextAgent' /\ \A f \in Groups' : f < nextGroup'
    BY <1>3, <2>2, NextAgentType DEF AgentsInv, GroupDeleted
  <2>10. QED
    BY <2>6, <2>7, <2>8, <2>9, AgentsFrame
<1>4. QED
  BY <1>1, <1>2, <1>3

LEMMA AgentsInserted ==
    ASSUME TypeInv, AgentsInv, NEW h \in Handlers, AgentInserted(h)
    PROVE  AgentsInv'
<1> DEFINE row(first, list, tags, bot) ==
               [first |-> first, groups |-> list, tags |-> tags, bot |-> bot]
           scope(first, list, tags) ==
               [first |-> first, groups |-> Range(list) \union ({first} \ {None}), tags |-> tags]
<1>1. PICK first \in Groups \union {None}, list \in Lists, tags \in TagLists, bot \in BOOLEAN :
         /\ Range(list) \subseteq Groups
         /\ agents' = [agents EXCEPT ![nextAgent] = row(first, list, tags, bot)]
         /\ agentAsked' = [agentAsked EXCEPT ![nextAgent] = scope(first, list, tags)]
         /\ Commits(h, {}, {}, IF bot THEN "register" ELSE "done", None)
  BY DEF AgentInserted
<1>2. Lands(h, {"done"}) \/ Lands(h, {"register"})
  BY <1>1, Landing DEF TypeInv
<1>3. PICK S \in SUBSET Stages : "agent" \notin S /\ Lands(h, S)
  BY <1>2 DEF Stages, Resting
<1>4. row(first, list, tags, bot) \in AgentRows /\ scope(first, list, tags) \in AgentScopes
  BY <1>1 DEF AgentRows, AgentScopes, Groups
<1>5. /\ row(first, list, tags, bot).first = first /\ row(first, list, tags, bot).groups = list
      /\ row(first, list, tags, bot).tags = tags
      /\ scope(first, list, tags).groups = Range(list) \union ({first} \ {None})
      /\ scope(first, list, tags).tags = tags /\ scope(first, list, tags).first = first
  OBVIOUS
<1>6. /\ nextAgent \in AgentIds /\ nextAgent' = nextAgent + 1
      /\ UNCHANGED <<groups, nextGroup>>
  BY DEF AgentInserted
<1> HIDE DEF row, scope
<1>7. QED
  BY <1>1, <1>3, <1>4, <1>5, <1>6, AgentAdded

LEMMA AgentsSetup ==
    ASSUME TypeInv, AgentsInv, NEW h \in Handlers, SetupNext(h)
    PROVE  AgentsInv'
<1> DEFINE row == [first |-> None, groups |-> << >>, tags |-> {}, bot |-> FALSE]
           scope == [first |-> None, groups |-> {}, tags |-> {}]
           added == /\ nextAgent \in AgentIds /\ nextAgent' = nextAgent + 1
                    /\ agents' = [agents EXCEPT ![nextAgent] = row]
                    /\ agentAsked' = [agentAsked EXCEPT ![nextAgent] = scope]
                    /\ UNCHANGED <<groups, nextGroup>>
<1>1. SetupLands \in SUBSET Stages /\ "agent" \notin SetupLands /\ Lands(h, SetupLands)
  BY SetupReadsType, SetupMailedType, SetupEndsType DEF SetupLands, Stages, Resting, SetupNext
<1>2. UNCHANGED scopes \/ added
  BY DEF SetupNext, SetupBegun, SetupFlushed, SetupMailed, SetupCounted, SetupEnds
<1>3. CASE UNCHANGED scopes
  <2>1. /\ UNCHANGED <<agents, nextAgent, agentAsked>>
        /\ \A g \in Groups' : g < nextGroup'
        /\ \A g \in GroupIds : There(g)' => There(g)
    BY <1>3 DEF AgentsInv, scopes, Groups, There
  <2>2. QED
    BY <1>1, <2>1, AgentsElsewhere
<1>4. CASE added
  <2>1. row \in AgentRows /\ scope \in AgentScopes
    BY ScopeAssumption DEF AgentRows, AgentScopes, Lists
  <2>2. row.tags = scope.tags /\ row.first = scope.first /\ scope.groups = Range(row.groups) \union ({row.first} \ {None})
    BY DEF Range
  <2> HIDE DEF row, scope
  <2>3. QED
    BY <1>1, <1>4, <2>1, <2>2, AgentAdded
<1>5. QED
  BY <1>2, <1>3, <1>4

LEMMA LandsAt ==
    ASSUME RequestsInv, NEW h \in Handlers, NEW S \in SUBSET Stages, Lands(h, S)
    PROVE  /\ {stage'[h]} \in SUBSET Stages /\ Lands(h, {stage'[h]})
           /\ stage' = [stage EXCEPT ![h] = stage'[h]]
<1>1. PICK s \in S : \E w : Moves(h, s, w) /\ Holds(s, w) /\ (s \in Resting => w = None)
  BY DEF Lands
<1>2. stage' = [stage EXCEPT ![h] = s] /\ stage'[h] = s
  BY <1>1 DEF Moves, RequestsInv
<1>3. QED
  BY <1>1, <1>2 DEF Lands

LEMMA ScopeStep ==
    ASSUME TypeInv, AccountInv, ScopeInv, [Next]_vars
    PROVE  ScopeInv'
<1> USE DEF ScopeInv
<1>a. /\ \A S \in {SettingStages, AccountStages, SetupLands, {"done"}} :
            S \in SUBSET Stages /\ "agent" \notin S /\ "doc" \notin S
      /\ ScopeStages \in SUBSET Stages
  BY DEF SettingStages, AccountStages, SetupLands, ScopeStages, Stages, Resting
<1>b. UNCHANGED scopes =>
         /\ UNCHANGED <<agents, nextAgent, agentAsked, docs, docAsked>>
         /\ \A g \in Groups' : g < nextGroup'
         /\ \A g \in GroupIds : There(g)' => There(g)
  BY DEF AgentsInv, scopes, Groups, There
<1>c. SeedsInv
  BY DEF AccountInv, SetupInv
<1>1. CASE UNCHANGED vars
  BY <1>1 DEF vars, requests, history, scopes, AgentsInv, DocsInv, AgentKept, AgentGroups, DocKept,
              AgentLoadedStill, There, Groups, Agents, Docs
<1>2. ASSUME NEW h \in Handlers, ScopesNext(h)
      PROVE  ScopeInv'
  <2> DEFINE S == {stage'[h]}
  <2>0. S \in SUBSET Stages /\ Lands(h, S) /\ stage' = [stage EXCEPT ![h] = stage'[h]]
    BY <1>a, <1>2, ScopesStepType, LandsAt DEF TypeInv
  <2>1. CASE AgentCounted(h)
    <3>1. UNCHANGED scopes /\ "agent" \notin S /\ "doc" \notin S
      BY <2>1 DEF AgentCounted, Reads, Goes, TypeInv, RequestsInv
    <3> HIDE DEF S
    <3>2. QED
      BY <1>b, <2>0, <3>1, AgentsElsewhere, DocsElsewhere
  <2>2. CASE \/ AgentInserted(h) \/ AgentDeleted(h) \/ AgentLoaded(h) \/ AgentSaved(h)
             \/ GroupCreated(h) \/ GroupUpdated(h) \/ GroupDeleted(h)
    <3>1. AgentsInv'
      BY <1>c, <2>2, AgentsInserted, AgentsDropped, AgentsRead, AgentsSaved, AgentsGroups
    <3>2. UNCHANGED <<docs, docAsked>>
      BY <2>2 DEF AgentInserted, AgentDeleted, AgentLoaded, AgentSaved, GroupCreated,
                  GroupUpdated, GroupDeleted, scopes
    <3>3. "doc" \notin S
      BY <2>2 DEF AgentInserted, AgentDeleted, AgentLoaded, AgentSaved, GroupCreated, GroupUpdated,
                  GroupDeleted, Reads, Commits, Refused, Goes, TypeInv, RequestsInv
    <3> HIDE DEF S
    <3>4. QED
      BY <2>0, <3>1, <3>2, <3>3, DocsElsewhere
  <2>3. CASE DocLoaded(h) \/ DocSaved(h) \/ DocDeleted(h) \/ DocCreated(h)
    <3>1. DocsInv'
      BY <2>3, DocsStep, DocsSaved
    <3>2. "agent" \notin S
      BY <2>3 DEF DocLoaded, DocSaved, DocDeleted, DocCreated, Reads, Commits, Refused, Goes,
                  TypeInv, RequestsInv
    <3>3. UNCHANGED <<agents, nextAgent, agentAsked, groups, nextGroup>>
      BY <2>3 DEF DocLoaded, DocSaved, DocDeleted, DocCreated, scopes
    <3>4. /\ \A g \in Groups' : g < nextGroup'
          /\ \A g \in GroupIds : There(g)' => There(g)
      BY <3>3 DEF AgentsInv, Groups, There
    <3> HIDE DEF S
    <3>5. QED
      BY <2>0, <3>1, <3>2, <3>3, <3>4, AgentsElsewhere
  <2>4. QED
    BY <1>2, <2>1, <2>2, <2>3 DEF ScopesNext
<1>3. ASSUME NEW h \in Handlers, SettingsNext(h)
      PROVE  ScopeInv'
  <2>1. UNCHANGED scopes
    BY <1>3 DEF SettingsNext, SettingLoaded, SettingSaved, SettingRefused, ProfileLoaded,
                ProfileSaved, ConfigLoaded, SecretMade, scopes
  <2>2. QED
    BY <1>a, <1>b, <1>3, <2>1, SettingsStepType, AgentsElsewhere, DocsElsewhere
<1>4. ASSUME NEW h \in Handlers, AccountsNext(h)
      PROVE  ScopeInv'
  <2>1. UNCHANGED scopes
    BY <1>4 DEF AccountsNext, UserCounted, UserInserted, SignOnRead, SignedOn, UserLoaded,
                UserSaved, UserChosen, UserDeleted, LinkSent, PasswordLoaded, PasswordSaved
  <2>2. QED
    BY <1>a, <1>b, <1>4, <2>1, AccountsStepType, AgentsElsewhere, DocsElsewhere
<1>5. ASSUME NEW h \in Handlers, SetupNext(h)
      PROVE  ScopeInv'
  <2>1. Lands(h, SetupLands)
    BY <1>5, SetupReadsType, SetupMailedType, SetupEndsType DEF SetupNext
  <2>2. UNCHANGED <<docs, docAsked>>
    BY <1>5 DEF SetupNext, SetupBegun, SetupFlushed, SetupMailed, SetupCounted, SetupEnds, scopes
  <2>3. QED
    BY <1>a, <1>5, <2>1, <2>2, AgentsSetup, DocsElsewhere
<1>6. ASSUME NEW h \in Handlers, RequestFails(h)
      PROVE  ScopeInv'
  <2>1. Lands(h, {"done"}) /\ UNCHANGED scopes
    BY <1>6, Landing DEF RequestFails, TypeInv
  <2>2. QED
    BY <1>a, <1>b, <2>1, AgentsElsewhere, DocsElsewhere
<1>7. QED
  BY <1>1, <1>2, <1>3, <1>4, <1>5, <1>6 DEF Next

LEMMA InitScope == Init => ScopeInv
<1> SUFFICES ASSUME Init PROVE ScopeInv
  OBVIOUS
<1> USE DEF Init, RequestsInit, ScopesInit, TypeInv, ScopesInv, ScopesTypeOK
<1>a. TypeInv
  BY InitType
<1>b. scene.groups \in Nat /\ 1 \in AgentIds /\ 1 \in GroupIds
  BY SceneAssumption, ScopeAssumption, Sequels
<1>1. \A g \in Groups : g < nextGroup
  BY <1>a, <1>b, NextAgentType DEF Groups
<1>2. ASSUME NEW a \in Agents PROVE AgentKept(a)
  <2> DEFINE row == [first |-> 1, groups |-> <<1>>, tags |-> {}, bot |-> TRUE]
             scope == [first |-> 1, groups |-> {1}, tags |-> {}]
  <2>1. agents[a] = row /\ agentAsked[a] = scope
    BY DEF Agents
  <2>2. /\ row.tags = scope.tags /\ row.first = scope.first
        /\ Range(row.groups) \union ({row.first} \ {None}) = scope.groups
    BY DEF Range
  <2> HIDE DEF row, scope
  <2>3. QED
    BY <2>1, <2>2 DEF AgentKept, AgentGroups
<1>3. ASSUME NEW d \in Docs PROVE DocKept(d)
  <2>1. d \in Nat /\ d <= Cardinality(DocIds)
    <3>1. Cardinality(DocIds) \in Nat
      BY ScopeAssumption, Sequels
    <3>2. QED
      BY <3>1, ScopeAssumption DEF Numbered, Docs
  <2>2. QED
    BY <1>b, <2>1, ScopeAssumption DEF Docs, DocKept, Keeps, Words
<1>4. \A h \in Handlers : stage[h] # "agent" /\ stage[h] # "doc"
  OBVIOUS
<1>5. QED
  BY <1>1, <1>2, <1>3, <1>4 DEF ScopeInv, AgentsInv, DocsInv

\* What a document wants of an agent is what was asked for it, if its tags
\* are no numbers and were heard; and what an agent has of what may be wanted
\* of it, groups that exist and tags, is what was asked for it.
LEMMA ScopeInvHolds == TypeInv /\ ScopeInv => ScopeHolds
<1> SUFFICES ASSUME TypeInv, ScopeInv, NEW a \in Agents, NEW d \in Docs,
                    <<"agent", a>> \notin blind, <<"doc", d>> \notin blind,
                    docAsked[d].groups \subseteq Groups, docAsked[d].tags \subseteq Tags,
                    ~docAsked[d].unheard
             PROVE  Shown(a, d) <=> Meant(a, d)
  BY DEF ScopeHolds
<1> DEFINE wanted == docAsked[d].groups \union docAsked[d].tags
           held == agentAsked[a].groups \union agentAsked[a].tags
                       \union MarksOfFirst(agentAsked[a].first)
<1>1. /\ AgentKept(a) /\ DocKept(d) /\ agents[a] \in AgentRows /\ agentAsked[a] \in AgentScopes
      /\ docs[d] \in DocRows
  BY DEF ScopeInv, AgentsInv, DocsInv, TypeInv, ScopesInv, ScopesTypeOK, Agents, Docs
<1>2. docs[d].groups \union docs[d].marks = wanted
  BY <1>1 DEF DocKept, Keeps, Words
<1>3. MarksOfFirst(agents[a].first) = MarksOfFirst(agentAsked[a].first)
  BY <1>1, ScopeAssumption DEF AgentKept, MarksOfFirst, There, Groups
<1>4. \A m \in wanted : m \in AgentMarks(a) <=> m \in held
  <2>1. AgentGroups(a) \subseteq GroupIds /\ agentAsked[a].groups \subseteq GroupIds
    BY <1>1, AgentTypes DEF AgentGroups, AgentRows, AgentScopes
  <2>2. \A g \in docAsked[d].groups : g \in AgentGroups(a) <=> g \in agentAsked[a].groups
    BY <1>1 DEF AgentKept, There, Groups
  <2>3. \A m \in docAsked[d].tags : m \notin GroupIds
    BY ScopeAssumption
  <2>4. agents[a].tags = agentAsked[a].tags
    BY <1>1 DEF AgentKept
  <2>5. QED
    BY <1>3, <2>1, <2>2, <2>3, <2>4 DEF AgentMarks
<1> HIDE DEF wanted, held
<1>5. Shown(a, d) <=> wanted = {} \/ wanted \intersect AgentMarks(a) # {}
  BY <1>2 DEF Shown
<1>6. Meant(a, d) <=> wanted = {} \/ wanted \intersect held # {}
  BY DEF Meant, wanted, held
<1>7. QED
  BY <1>4, <1>5, <1>6

\* An agent is shown what was scoped to it and nothing else, through every
\* edit of agents, groups, documents and products, ids, names and tags of
\* groups being matched together: for scopes whose groups exist and whose tags
\* are no numbers, that were not edited over each other, and not of a product
\* that an empty list of tags, sent with groups, did not free of its tags.
THEOREM ScopesHold == Spec => []ScopeHolds
<1>1. Init => TypeInv /\ AccountInv /\ ScopeInv
  BY InitType, InitAccounts, InitScope
<1>2. TypeInv /\ AccountInv /\ ScopeInv /\ [Next]_vars => (TypeInv /\ AccountInv /\ ScopeInv)'
  BY NextType, NextAccounts, ScopeStep
<1>3. QED
  BY <1>1, <1>2, ScopeInvHolds, PTL DEF Spec

=============================================================================
