--------------------------- MODULE Assistant_proofs ---------------------------
(***************************************************************************)
(* Proofs about the assistant: types, orders, prompts, memory and turns,   *)
(* for any number of handler slots and agents, any scenes and bounds.      *)
(*                                                                         *)
(* A handler acts on the row it read some awaits ago.  What it may rely on *)
(* is FreshOK: a column that is not in stale is the one in the table.      *)
(***************************************************************************)
EXTENDS Assistant, TLAPS

----------------------------------------------------------------------------
(***************************************************************************)
(* The inductive invariant.                                                *)
(***************************************************************************)

DataOK ==
    /\ scene \in Scenes
    /\ session \in Rows \union {None}
    /\ log \in Seq(Entries)
    /\ customer \in BOOLEAN
    /\ orders \in Seq(Orders)
    /\ demands \in Seq((SUBSET Goods) \ {{}}) /\ Len(demands) <= MaxDemands
    /\ told \subseteq 1..Len(demands)
    /\ sent \in 0..MaxMessages
    /\ expiries \in 0..MaxExpiries
    /\ faults \in 0..MaxFaults
    /\ stale \in [Workers -> SUBSET Columns]
    /\ blind \subseteq Columns
    /\ halved \in BOOLEAN
    /\ session # None => session.data.intent <= Len(demands)

\* What a handler at stage s holds.
WorkOK(s, n) ==
    /\ s # "idle" => n.turn >= 1
    /\ s \notin {"idle", "open"} => n.row # None
    /\ s \in {"open", "reopen", "think", "tool", "cart", "collect"} => n.flow = FALSE
    /\ s \in {"act", "close"} => n.flow = TRUE
    /\ s \in {"tool", "cart", "collect"} \/ (s = "order" /\ n.flow = FALSE) => n.left >= 1
    /\ s \in {"collect", "order"} => n.call >= 1
    /\ s = "order" => n.make # {}
    /\ n.reply = "prompt" =>
          /\ s \in {"user", "reply"} /\ n.flow = FALSE /\ n.row # None
          /\ n.row.flow = "profile_collect" /\ n.row.data.intent = n.call

\* The calls it knows of have been made.
CallOK(n, d) ==
    /\ n.call <= d
    /\ n.row # None => n.row.data.intent <= d

TypeInv ==
    /\ DataOK
    /\ pc \in [Workers -> Stages]
    /\ work \in [Workers -> Works]
    /\ \A w \in Workers : WorkOK(pc[w], work[w]) /\ CallOK(work[w], Len(demands))
    /\ session = None => \A w \in Workers : work[w].row = None

----------------------------------------------------------------------------
(***************************************************************************)
(* Types.                                                                  *)
(***************************************************************************)

LEMMA Bounds ==
    /\ Window \in Nat \ {0} /\ MaxRounds \in Nat \ {0} /\ MaxCalls \in Nat \ {0}
    /\ MaxMessages \in Nat /\ MaxDemands \in Nat /\ MaxExpiries \in Nat /\ MaxFaults \in Nat
    /\ None \notin Agents /\ None \notin Rows
BY BoundAssumption

LEMMA IdleOK == Idle \in Works /\ WorkOK("idle", Idle) /\ \A d \in Nat : CallOK(Idle, d)
<1>1. Idle \in Works
  BY Bounds DEF Idle, Works, Kinds
<1>2. WorkOK("idle", Idle)
  BY DEF Idle, WorkOK
<1>3. QED
  BY <1>1, <1>2 DEF Idle, CallOK

\* w goes to stage s and holds n.
Moves(w, s, n) ==
    /\ pc' = [pc EXCEPT ![w] = s]
    /\ work' = [work EXCEPT ![w] = n]

LEMMA MovesType ==
    ASSUME TypeInv, NEW w \in Workers, NEW s \in Stages, NEW n \in Works,
           WorkOK(s, n), CallOK(n, Len(demands')), Moves(w, s, n), DataOK',
           Len(demands) <= Len(demands'), session # None => session' # None,
           n.row # None => session' # None
    PROVE  TypeInv'
<1>1. pc' \in [Workers -> Stages] /\ work' \in [Workers -> Works]
  BY DEF TypeInv, Moves
<1>2. ASSUME NEW v \in Workers
      PROVE  WorkOK(pc'[v], work'[v]) /\ CallOK(work'[v], Len(demands'))
  <2>1. CASE v = w
    BY <2>1 DEF TypeInv, Moves
  <2>2. CASE v # w
    <3>1. pc'[v] = pc[v] /\ work'[v] = work[v] /\ work[v] \in Works
      BY <2>2 DEF TypeInv, Moves
    <3>2. WorkOK(pc[v], work[v]) /\ CallOK(work[v], Len(demands))
      BY DEF TypeInv
    <3>3. Len(demands) \in Nat /\ Len(demands') \in Nat
      BY DEF TypeInv, DataOK
    <3>4. CallOK(work[v], Len(demands'))
      <4> DEFINE n2 == work[v]
      <4>1. PICK a, b : a = Len(demands) /\ b = Len(demands')
        OBVIOUS
      <4>2. n2 \in Works /\ CallOK(n2, a) /\ a \in Nat /\ b \in Nat /\ a <= b
        BY <3>1, <3>2, <3>3, <4>1
      <4> HIDE DEF n2
      <4>3. CallOK(n2, b)
        BY <4>2, Bounds DEF CallOK, Works, Rows, Data
      <4>4. QED
        BY <4>1, <4>3 DEF n2
    <3>5. QED
      BY <3>1, <3>2, <3>4
  <2>3. QED
    BY <2>1, <2>2
<1>3. ASSUME session' = None, NEW v \in Workers
      PROVE  work'[v].row = None
  BY <1>3 DEF TypeInv, Moves
<1>4. QED
  BY <1>1, <1>2, <1>3 DEF TypeInv, WorkOK, CallOK

LEMMA Holds ==
    ASSUME TypeInv, NEW w \in Workers
    PROVE  /\ pc[w] \in Stages /\ work[w] \in Works /\ WorkOK(pc[w], work[w])
           /\ CallOK(work[w], Len(demands)) /\ Len(demands) \in Nat
           /\ work[w].row # None => work[w].row \in Rows /\ session \in Rows
BY DEF TypeInv, DataOK, Works

LEMMA GoesMoves ==
    ASSUME NEW w \in Workers, NEW s, NEW n, Goes(w, s, n)
    PROVE  /\ s # "idle" => Moves(w, s, n)
           /\ s = "idle" => Moves(w, "idle", Idle)
BY DEF Goes, Moves

LEMMA FlushedType ==
    ASSUME NEW row \in Rows, NEW old \in Rows, NEW new \in Rows, NEW r, r = Flushed(row, old, new)
    PROVE  /\ r \in Rows
           /\ r.memory = Kept(row.memory, old.memory, new.memory)
           /\ r.flow = Kept(row.flow, old.flow, new.flow)
           /\ r.data = Kept(row.data, old.data, new.data)
           /\ r.started = Kept(row.started, old.started, new.started)
           /\ r.expired = Kept(row.expired, old.expired, new.expired)
<1>1. /\ r.memory = Kept(row.memory, old.memory, new.memory)
      /\ r.flow = Kept(row.flow, old.flow, new.flow)
      /\ r.data = Kept(row.data, old.data, new.data)
      /\ r.started = Kept(row.started, old.started, new.started)
      /\ r.expired = Kept(row.expired, old.expired, new.expired)
  BY DEF Flushed
<1>2. r \in Rows
  BY DEF Flushed, Kept, Rows
<1>3. QED
  BY <1>1, <1>2

\* w commits its copy as changed to new; others miss the columns changed.
Writes(w, s, new, changed) ==
    LET old == work[w].row
    IN  /\ old \in Rows /\ new \in Rows /\ session \in Rows /\ session' \in Rows
        /\ changed \subseteq {"memory", "flow", "data"}
        /\ session'.memory = IF "memory" \in changed THEN new.memory ELSE session.memory
        /\ session'.flow = IF "flow" \in changed THEN new.flow ELSE session.flow
        /\ session'.data = IF "data" \in changed THEN new.data ELSE session.data
        /\ session'.started = session.started /\ session'.expired = session.expired
        /\ "memory" \notin changed => new.memory = old.memory
        /\ "flow" \notin changed => new.flow = old.flow
        /\ "data" \notin changed => new.data = old.data
        /\ new.started = old.started /\ new.expired = old.expired
        /\ Misses(w, s, changed)

LEMMA ChangedColumns ==
    ASSUME NEW old \in Rows, NEW new \in Rows
    PROVE  /\ "memory" \in Changed(old, new) <=> old.memory # new.memory
           /\ "flow" \in Changed(old, new) <=> old.flow # new.flow
           /\ "data" \in Changed(old, new) <=> old.data # new.data
           /\ "started" \in Changed(old, new) <=> old.started # new.started
           /\ "expired" \in Changed(old, new) <=> old.expired # new.expired
           /\ Changed(old, new) \subseteq Columns
BY DEF Changed, Columns, Rows

LEMMA CommitsWrites ==
    ASSUME TypeInv, NEW w \in Workers, NEW new \in Rows, NEW relied, NEW s, NEW after,
           Commits(w, new, relied, s, after), work[w].row \in Rows, session \in Rows,
           new.started = work[w].row.started, new.expired = work[w].row.expired
    PROVE  /\ Writes(w, s, new, Changed(work[w].row, new))
           /\ blind' = blind \union (stale[w] \intersect relied)
           /\ Goes(w, s, [after EXCEPT !.row = new])
<1>1. PICK old, row, r, changed :
          /\ old = work[w].row /\ old \in Rows /\ row = session /\ row \in Rows /\ r = session'
          /\ changed = Changed(work[w].row, new)
  OBVIOUS
<1>2. r = Flushed(row, old, new)
  BY <1>1 DEF Commits
<1>3. /\ r \in Rows
      /\ r.memory = Kept(row.memory, old.memory, new.memory)
      /\ r.flow = Kept(row.flow, old.flow, new.flow)
      /\ r.data = Kept(row.data, old.data, new.data)
      /\ r.started = Kept(row.started, old.started, new.started)
      /\ r.expired = Kept(row.expired, old.expired, new.expired)
  BY <1>1, <1>2, FlushedType
<1>4. /\ "memory" \in changed <=> old.memory # new.memory
      /\ "flow" \in changed <=> old.flow # new.flow
      /\ "data" \in changed <=> old.data # new.data
      /\ "started" \notin changed /\ "expired" \notin changed
      /\ changed \subseteq Columns
  BY <1>1, ChangedColumns
<1>5. changed \subseteq {"memory", "flow", "data"}
  BY <1>4 DEF Columns
<1>6. Misses(w, s, changed)
  BY <1>1 DEF Commits
<1>7. Writes(w, s, new, changed)
  BY <1>1, <1>3, <1>4, <1>5, <1>6 DEF Writes, Kept
<1>8. QED
  BY <1>1, <1>7 DEF Commits

LEMMA WritesType ==
    ASSUME TypeInv, NEW w \in Workers, NEW new, NEW s \in Stages, NEW changed, NEW n \in Works,
           WorkOK(s, n), CallOK(n, Len(demands)), Writes(w, s, new, changed), Moves(w, s, n),
           new.data.intent <= Len(demands), NEW relied, blind' = blind \union (stale[w] \intersect relied),
           log' \in Seq(Entries), UNCHANGED <<customer, orders, demands, told, counters, halved>>
    PROVE  TypeInv'
<1>1. session' \in Rows /\ session \in Rows /\ session # None /\ session' # None
  BY Bounds DEF Writes
<1>2. session'.data.intent <= Len(demands)
  <2>1. session.data.intent <= Len(demands)
    BY <1>1 DEF TypeInv, DataOK
  <2>2. session'.data = new.data \/ session'.data = session.data
    BY DEF Writes
  <2>3. QED
    BY <2>1, <2>2
<1>3. changed \subseteq Columns
  BY DEF Writes, Columns
<1>4. stale' \in [Workers -> SUBSET Columns]
  BY <1>3 DEF Writes, Misses, TypeInv, DataOK
<1>5. blind' \subseteq Columns
  BY DEF TypeInv, DataOK
<1>6. DataOK'
  BY <1>1, <1>2, <1>4, <1>5 DEF TypeInv, DataOK, counters
<1>7. QED
  <2>1. Len(demands') = Len(demands) /\ Len(demands) \in Nat
    BY DEF TypeInv, DataOK
  <2>2. CallOK(n, Len(demands')) /\ Len(demands) <= Len(demands')
    BY <2>1
  <2>3. QED
    BY <1>1, <1>6, <2>2, MovesType

\* The steps that read, and leave the tables as they are.
Reads(w, n) ==
    /\ session' = session /\ log' = log /\ blind' = blind
    /\ \A v \in Workers : \/ stale'[v] = stale[v]
                          \/ stale'[v] = {} /\ (v = w \/ pc[v] = "idle")
    /\ \/ n.row = work[w].row /\ stale'[w] = stale[w]
       \/ n.row \in {session, None}

LEMMA ReadsType ==
    ASSUME TypeInv, NEW w \in Workers, NEW s \in Stages, NEW n \in Works,
           WorkOK(s, n), CallOK(n, Len(demands')), Reads(w, n), Moves(w, s, n), 
           DataOK => DataOK'
    PROVE  /\ Len(demands) <= Len(demands') => TypeInv'
           /\ demands' = demands => TypeInv'
<1>1. DataOK'
  BY DEF TypeInv
<1>2. n.row # None => session' # None
  BY DEF TypeInv, Reads
<1>3. Len(demands) \in Nat
  BY DEF TypeInv, DataOK
<1>4. Len(demands) <= Len(demands') => TypeInv'
  BY <1>1, <1>2, MovesType DEF Reads
<1>5. demands' = demands => Len(demands) <= Len(demands')
  BY <1>3
<1>6. QED
  BY <1>4, <1>5

\* The message has been recorded and its reply has not.
Half(s, n) == s \in {"act", "close", "reply"} \/ (s = "order" /\ n.flow = TRUE)

\* w reads at most, and stays on its side of the recording.
Glances(w) ==
    \E s \in Stages : \E n \in Works :
        /\ WorkOK(s, n) /\ Reads(w, n) /\ Moves(w, s, n)
        /\ Half(s, n) = Half(pc[w], work[w])

LEMMA ResolvedAgents ==
    ASSUME DataOK
    PROVE  Resolved \subseteq Agents \union {None}
<1>1. scene.sentTo \in Agents \union {None} /\ scene.channel \in {"telegram", "whatsapp", "widget"}
  BY SceneAssumption DEF DataOK, SceneRows, Channels
<1>2. Active \subseteq Agents
  BY DEF Active
<1>3. Bots \subseteq Agents
  BY <1>2 DEF Bots
<1>4. \A G \in SUBSET Agents : AnyOf(G) \subseteq Agents \union {None}
  BY DEF AnyOf
<1>5. TelegramAgents \subseteq Agents \union {None}
  BY <1>1, <1>2, <1>3, <1>4 DEF TelegramAgents
<1>6. WhatsAppAgents \subseteq Agents \union {None}
  BY <1>2, <1>4 DEF WhatsAppAgents
<1>7. WidgetAgents \subseteq Agents \union {None}
  <2>1. PICK shown : shown = {a \in Active : scene.agents[a].widget}
    OBVIOUS
  <2>2. WidgetAgents = IF scene.sentTo \in Active THEN {scene.sentTo}
                       ELSE IF shown # {} THEN shown ELSE AnyOf(Active)
    BY <2>1 DEF WidgetAgents
  <2>3. shown \subseteq Agents
    BY <1>2, <2>1
  <2>4. QED
    BY <1>1, <1>2, <1>4, <2>2, <2>3
<1>8. QED
  BY <1>1, <1>5, <1>6, <1>7 DEF Resolved

LEMMA EndsGlances ==
    ASSUME TypeInv, NEW w \in Workers, Ends(w), UNCHANGED <<session, log, blind>>
    PROVE  Reads(w, Idle) /\ Moves(w, "idle", Idle)
<1>1. \A v \in Workers : stale'[v] = stale[v] \/ (stale'[v] = {} /\ v = w)
  BY DEF Ends, TypeInv, DataOK
<1>2. Moves(w, "idle", Idle)
  BY GoesMoves DEF Ends
<1>3. QED
  BY <1>1, <1>2 DEF Reads, Idle

LEMMA ArrivesStep ==
    ASSUME TypeInv, NEW w \in Workers, Arrives(w)
    PROVE  /\ TypeInv' /\ Glances(w) /\ pc[w] = "idle"
           /\ \/ UNCHANGED <<pc, work, session, stale>>
              \/ \E n \in Works : Reads(w, n) /\ Moves(w, "open", n) /\ n.row = session
<1>1. sent < MaxMessages /\ sent \in Nat /\ sent' = sent + 1
  <2>1. scene.most \in 0..MaxMessages
    BY SceneAssumption DEF TypeInv, DataOK, SceneRows
  <2>2. sent < scene.most /\ sent' = sent + 1 /\ sent \in 0..MaxMessages
    BY DEF Arrives, TypeInv, DataOK
  <2>3. QED
    BY <2>1, <2>2, Bounds
<1>2. DataOK'
  <2>1. sent' \in 0..MaxMessages
    BY <1>1, Bounds
  <2>2. UNCHANGED <<session, log, customer, orders, demands, told, scene, expiries, faults,
                    stale, blind, halved>>
    BY DEF Arrives, store, history
  <2>3. QED
    BY <2>1, <2>2 DEF TypeInv, DataOK
<1>3. session' = session /\ log' = log /\ blind' = blind /\ stale' = stale /\ demands' = demands
  BY DEF Arrives, store, history
<1>4. CASE UNCHANGED <<pc, work>>
  <2>1. Moves(w, pc[w], work[w])
    BY <1>4 DEF Moves, TypeInv
  <2>2. Reads(w, work[w])
    BY <1>3 DEF Reads
  <2>3. QED
    BY <1>2, <1>3, <1>4, <2>1, <2>2, Holds, ReadsType DEF Glances, Arrives
<1>5. CASE ~ UNCHANGED <<pc, work>>
  <2>1. PICK k \in scene.says, a \in Resolved :
           Goes(w, "open", [Idle EXCEPT !.turn = sent + 1, !.kind = k, !.agent = a,
                                        !.row = session])
    BY <1>5 DEF Arrives
  <2>2. PICK n : n = [Idle EXCEPT !.turn = sent + 1, !.kind = k, !.agent = a, !.row = session]
    OBVIOUS
  <2>3. k \in Kinds /\ a \in Agents \union {None}
    BY ResolvedAgents, SceneAssumption DEF TypeInv, DataOK, SceneRows
  <2>4. sent + 1 \in 0..MaxMessages /\ sent + 1 >= 1
    BY <1>1, Bounds
  <2>5. session \in Rows \union {None}
    BY DEF TypeInv, DataOK
  <2>6. n \in Works
    BY <2>2, <2>3, <2>4, <2>5, IdleOK DEF Works
  <2>7. n.turn = sent + 1 /\ n.row = session /\ n.flow = FALSE /\ n.reply = "text" /\ n.call = 0
    BY <2>2 DEF Idle
  <2>8. WorkOK("open", n)
    BY <2>4, <2>7 DEF WorkOK
  <2>9. CallOK(n, Len(demands'))
    BY <1>3, <2>7 DEF CallOK, TypeInv, DataOK
  <2>10. Moves(w, "open", n)
    BY <2>1, <2>2, GoesMoves
  <2>11. Reads(w, n)
    BY <1>3, <2>7 DEF Reads, TypeInv, DataOK
  <2>12. Half("open", n) = Half(pc[w], work[w])
    BY DEF Half, Arrives
  <2>13. TypeInv' /\ Glances(w)
    BY <1>2, <1>3, <2>6, <2>8, <2>9, <2>10, <2>11, <2>12, ReadsType DEF Glances, Stages
  <2>14. pc[w] = "idle"
    BY DEF Arrives
  <2>15. QED
    BY <2>6, <2>7, <2>10, <2>11, <2>13, <2>14
<1>6. QED
  BY <1>4, <1>5

LEMMA RoutedMoves ==
    ASSUME TypeInv, NEW w \in Workers, pc[w] = "open", NEW row \in Rows, Routed(w, row),
           row.data.intent <= Len(demands)
    PROVE  \E s \in {"user", "reopen"} : \E n \in Works :
              n.row = row /\ WorkOK(s, n) /\ CallOK(n, Len(demands)) /\ Moves(w, s, n)
<1>1. PICK old : old = work[w]
  OBVIOUS
<1>2. old \in Works /\ WorkOK("open", old) /\ CallOK(old, Len(demands))
  BY <1>1, Holds
<1>3. row # None
  BY Bounds
<1>4. CASE Goes(w, "user", [old EXCEPT !.row = row, !.flow = TRUE])
  <2>1. PICK n : n = [old EXCEPT !.row = row, !.flow = TRUE]
    OBVIOUS
  <2>2. n \in Works /\ n.row = row /\ n.flow = TRUE /\ n.turn = old.turn /\ n.reply = old.reply
        /\ n.call = old.call
    BY <1>2, <2>1 DEF Works
  <2>3. WorkOK("user", n)
    BY <1>2, <1>3, <2>2 DEF WorkOK
  <2>4. CallOK(n, Len(demands))
    BY <1>2, <2>2 DEF CallOK
  <2>5. Moves(w, "user", n)
    BY <1>4, <2>1, GoesMoves
  <2>6. QED
    BY <2>2, <2>3, <2>4, <2>5
<1>5. CASE Goes(w, "reopen", [old EXCEPT !.row = row])
  <2>1. PICK n : n = [old EXCEPT !.row = row]
    OBVIOUS
  <2>2. n \in Works /\ n.row = row /\ n.flow = old.flow /\ n.turn = old.turn
        /\ n.reply = old.reply /\ n.call = old.call
    BY <1>2, <2>1 DEF Works
  <2>3. WorkOK("reopen", n)
    BY <1>2, <1>3, <2>2 DEF WorkOK
  <2>4. CallOK(n, Len(demands))
    BY <1>2, <2>2 DEF CallOK
  <2>5. Moves(w, "reopen", n)
    BY <1>5, <2>1, GoesMoves
  <2>6. QED
    BY <2>2, <2>3, <2>4, <2>5
<1>6. QED
  BY <1>1, <1>4, <1>5 DEF Routed

LEMMA NewRowType ==
    ASSUME DataOK
    PROVE  /\ NewRow \in Rows /\ NewRow.data.intent = 0 /\ NewRow.memory = << >>
           /\ NewRow.started = Len(log) /\ NewRow.expired = FALSE /\ NewRow.flow = "none"
<1>1. Len(log) \in Nat /\ << >> \in Seq(Entries)
  BY DEF DataOK
<1>2. FreshData \in Data /\ FreshData.intent = 0
  BY Bounds DEF FreshData, Data
<1>3. QED
  BY <1>1, <1>2 DEF NewRow, Rows, Flows

\* The row is made, by the one whose insert comes first.
Makes(w) ==
    /\ session = None /\ session' = NewRow
    /\ UNCHANGED <<log, stale, blind>>
    /\ pc[w] = "open" /\ work[w].row = None
    /\ \E s \in {"user", "reopen"} : \E n \in Works : Moves(w, s, n) /\ n.row = NewRow

LEMMA CreatesStep ==
    ASSUME TypeInv, NEW w \in Workers, Creates(w)
    PROVE  TypeInv' /\ (Glances(w) \/ Makes(w))
<1>0. DataOK /\ Len(demands) \in Nat
  BY DEF TypeInv, DataOK
<1>1. UNCHANGED <<log, customer, orders, demands, told, scene, sent, expiries, faults, blind,
                  halved>>
  BY DEF Creates, counters
<1>2. CASE session = None
  <2>1. session' = NewRow /\ Routed(w, NewRow) /\ UNCHANGED stale
    BY <1>2 DEF Creates
  <2>2. NewRow \in Rows /\ NewRow.data.intent = 0 /\ NewRow # None
    BY <1>0, NewRowType, Bounds
  <2>3. PICK s \in {"user", "reopen"}, n \in Works :
           n.row = NewRow /\ WorkOK(s, n) /\ CallOK(n, Len(demands)) /\ Moves(w, s, n)
    BY <1>0, <2>1, <2>2, RoutedMoves DEF Creates
  <2>4. DataOK'
    BY <1>0, <1>1, <2>1, <2>2 DEF DataOK
  <2>5. TypeInv'
    BY <1>0, <1>1, <2>1, <2>2, <2>3, <2>4, MovesType DEF Stages
  <2>6. Makes(w)
    BY <1>1, <1>2, <2>1, <2>3 DEF Makes, Creates
  <2>7. QED
    BY <2>5, <2>6
<1>3. CASE session # None
  <2>1. Ends(w) /\ UNCHANGED session /\ pc[w] = "open"
    BY <1>3 DEF Creates
  <2>2. stale' = [stale EXCEPT ![w] = {}]
    BY <2>1 DEF Ends
  <2>3. DataOK'
    BY <1>0, <1>1, <2>1, <2>2 DEF DataOK
  <2>4. Reads(w, Idle) /\ Moves(w, "idle", Idle)
    BY <1>1, <2>1, EndsGlances
  <2>5. Half("idle", Idle) = Half(pc[w], work[w])
    BY <2>1 DEF Half
  <2>6. QED
    BY <1>0, <1>1, <2>3, <2>4, <2>5, IdleOK, ReadsType DEF Glances, Stages
<1>4. QED
  BY <1>2, <1>3

\* w resets a row that had expired.
Resets(w) ==
    LET old == work[w].row
    IN  /\ pc[w] = "open" /\ old \in Rows /\ old.expired = TRUE /\ session \in Rows
        /\ session' \in Rows
        /\ session'.memory = Kept(session.memory, old.memory, << >>)
        /\ session'.flow = Kept(session.flow, old.flow, "none")
        /\ session'.data = Kept(session.data, old.data, FreshData)
        /\ session'.started = Kept(session.started, old.started, Len(log))
        /\ session'.expired = FALSE
        /\ UNCHANGED log
        /\ blind' = blind \union stale[w]
        /\ stale' = [v \in Workers |-> IF v = w \/ pc[v] = "idle" THEN {} ELSE Columns]
        /\ \E s \in {"user", "reopen"} : \E n \in Works : Moves(w, s, n) /\ n.row = session'

LEMMA OpensStep ==
    ASSUME TypeInv, NEW w \in Workers, Opens(w)
    PROVE  TypeInv' /\ ((work[w].row.expired = FALSE /\ Glances(w)) \/ Resets(w))
<1>0. DataOK /\ Len(demands) \in Nat /\ stale \in [Workers -> SUBSET Columns]
  BY DEF TypeInv, DataOK
<1>1. UNCHANGED <<log, customer, orders, demands, told, scene, sent, expiries, faults, halved>>
  BY DEF Opens, counters
<1>2. PICK old, row : /\ old = work[w].row
                      /\ row = IF old # None /\ old.expired
                               THEN Flushed(session, old, Reset(old)) ELSE session
  OBVIOUS
<1>3. /\ pc[w] = "open" /\ old # None /\ session' = row
      /\ stale' = [v \in Workers |->
             IF v = w \/ pc[v] = "idle" THEN {}
             ELSE IF old.expired THEN stale[v] \union Columns ELSE stale[v]]
      /\ blind' = IF old.expired THEN blind \union stale[w] ELSE blind
      /\ Routed(w, row)
  BY <1>2 DEF Opens
<1>4. old \in Rows /\ session \in Rows /\ old.expired \in BOOLEAN /\ session # None
  BY <1>2, <1>3, Holds, Bounds DEF Rows
<1>5. session.data.intent <= Len(demands)
  BY <1>0, <1>4 DEF DataOK
<1>6. CASE old.expired = FALSE
  <2>1. row = session /\ session' = session /\ blind' = blind
    BY <1>2, <1>3, <1>6
  <2>2. \A v \in Workers : \/ stale'[v] = stale[v]
                           \/ stale'[v] = {} /\ (v = w \/ pc[v] = "idle")
    BY <1>3, <1>6
  <2>3. PICK s \in {"user", "reopen"}, n \in Works :
           n.row = session /\ WorkOK(s, n) /\ CallOK(n, Len(demands)) /\ Moves(w, s, n)
    BY <1>3, <1>4, <1>5, <2>1, RoutedMoves
  <2>4. stale' \in [Workers -> SUBSET Columns]
    BY <1>0, <1>3, <1>6
  <2>5. DataOK'
    BY <1>0, <1>1, <2>1, <2>4 DEF DataOK
  <2>6. Reads(w, n)
    BY <1>1, <2>1, <2>2, <2>3 DEF Reads
  <2>7. Half(s, n) = Half(pc[w], work[w])
    BY <1>3 DEF Half
  <2>8. QED
    BY <1>0, <1>1, <1>2, <1>6, <2>3, <2>5, <2>6, <2>7, ReadsType DEF Glances, Stages
<1>7. CASE old.expired = TRUE
  <2>1. PICK fresh : fresh = NewRow
    OBVIOUS
  <2>2. /\ fresh \in Rows /\ fresh.data = FreshData /\ fresh.memory = << >> /\ fresh.flow = "none"
        /\ fresh.started = Len(log) /\ fresh.expired = FALSE
    BY <1>0, <2>1, NewRowType DEF NewRow
  <2>3. row = Flushed(session, old, fresh)
    BY <1>2, <1>3, <1>7, <2>1 DEF Reset
  <2>4. /\ row \in Rows
        /\ row.memory = Kept(session.memory, old.memory, << >>)
        /\ row.flow = Kept(session.flow, old.flow, "none")
        /\ row.data = Kept(session.data, old.data, FreshData)
        /\ row.started = Kept(session.started, old.started, Len(log))
    <3>1. /\ row \in Rows
          /\ row.memory = Kept(session.memory, old.memory, fresh.memory)
          /\ row.flow = Kept(session.flow, old.flow, fresh.flow)
          /\ row.data = Kept(session.data, old.data, fresh.data)
          /\ row.started = Kept(session.started, old.started, fresh.started)
      BY <1>4, <2>2, <2>3, FlushedType
    <3>2. QED
      BY <2>2, <3>1
  <2>5. row.expired = FALSE
    <3>1. row.expired = Kept(session.expired, old.expired, fresh.expired)
      BY <1>4, <2>2, <2>3, FlushedType
    <3>2. QED
      BY <1>7, <2>2, <3>1 DEF Kept
  <2>6. row.data.intent <= Len(demands) /\ row # None
    BY <1>0, <1>5, <2>4, Bounds DEF Kept, FreshData
  <2>7. PICK s \in {"user", "reopen"}, n \in Works :
           n.row = row /\ WorkOK(s, n) /\ CallOK(n, Len(demands)) /\ Moves(w, s, n)
    BY <1>3, <2>4, <2>6, RoutedMoves
  <2>8. stale' = [v \in Workers |-> IF v = w \/ pc[v] = "idle" THEN {} ELSE Columns]
    BY <1>0, <1>3, <1>7
  <2>9. blind' = blind \union stale[w]
    BY <1>3, <1>7
  <2>10. DataOK'
    <3>1. stale' \in [Workers -> SUBSET Columns] /\ blind' \subseteq Columns
      BY <1>0, <2>8, <2>9 DEF DataOK
    <3>2. session' \in Rows /\ session'.data.intent <= Len(demands)
      BY <1>3, <2>4, <2>6
    <3>3. QED
      BY <1>0, <1>1, <3>1, <3>2 DEF DataOK
  <2>11. TypeInv'
    BY <1>0, <1>1, <1>3, <2>6, <2>7, <2>10, MovesType DEF Stages
  <2>12. Resets(w)
    BY <1>1, <1>2, <1>3, <1>4, <1>7, <2>4, <2>5, <2>7, <2>8, <2>9 DEF Resets
  <2>13. QED
    BY <2>11, <2>12
<1>8. QED
  BY <1>4, <1>6, <1>7

LEMMA RereadsStep ==
    ASSUME TypeInv, NEW w \in Workers, NEW s \in Stages \ {"idle"}, NEW after \in Works,
           Rereads(w, s, after), UNCHANGED <<session, log, blind>>, session # None,
           after.call <= Len(demands')
    PROVE  \E n \in Works :
              /\ n = [after EXCEPT !.row = session]
              /\ Reads(w, n) /\ Moves(w, s, n)
              /\ Len(demands) <= Len(demands') /\ Len(demands') \in Nat => CallOK(n, Len(demands'))
<1>1. PICK n : n = [after EXCEPT !.row = session]
  OBVIOUS
<1>2. session \in Rows /\ session.data.intent <= Len(demands) /\ Len(demands) \in Nat
      /\ session.data.intent \in Nat
  BY Bounds DEF TypeInv, DataOK, Rows, Data
<1>3. n \in Works /\ n.row = session /\ n.call = after.call
  BY <1>1, <1>2 DEF Works
<1>4. Moves(w, s, n)
  BY <1>1, GoesMoves DEF Rereads
<1>5. \A v \in Workers : stale'[v] = stale[v] \/ (stale'[v] = {} /\ v = w)
  BY DEF Rereads, TypeInv, DataOK
<1>6. Reads(w, n)
  BY <1>3, <1>5 DEF Reads
<1>7. ASSUME Len(demands) <= Len(demands'), Len(demands') \in Nat
      PROVE  CallOK(n, Len(demands'))
  <2>1. session.data.intent <= Len(demands')
    BY <1>2, <1>7
  <2>2. QED
    BY <1>3, <2>1 DEF CallOK
<1>8. QED
  BY <1>1, <1>3, <1>4, <1>6, <1>7

\* The tables are as they were, but for what others have missed.
LEMMA SameData ==
    ASSUME TypeInv, stale' \in [Workers -> SUBSET Columns],
           UNCHANGED <<session, log, customer, orders, demands, told, scene, sent, expiries, faults,
                       blind, halved>>
    PROVE  DataOK'
BY DEF TypeInv, DataOK

LEMMA StaleTyped ==
    ASSUME TypeInv, NEW w \in Workers, stale' = [stale EXCEPT ![w] = {}] \/ stale' = stale
    PROVE  stale' \in [Workers -> SUBSET Columns]
BY DEF TypeInv, DataOK

\* What w holds once it is not opening the row any more.
LEMMA Opened ==
    ASSUME TypeInv, NEW w \in Workers, pc[w] \notin {"idle", "open"}
    PROVE  /\ work[w] \in Works /\ WorkOK(pc[w], work[w]) /\ CallOK(work[w], Len(demands))
           /\ work[w].row \in Rows /\ session \in Rows /\ session # None /\ work[w].row # None
           /\ Len(demands) \in Nat /\ work[w].turn \in 1..MaxMessages
           /\ session.data.intent <= Len(demands) /\ work[w].row.data.intent <= Len(demands)
<1>1. /\ pc[w] \in Stages /\ work[w] \in Works /\ WorkOK(pc[w], work[w])
      /\ CallOK(work[w], Len(demands)) /\ Len(demands) \in Nat
      /\ work[w].row # None => work[w].row \in Rows /\ session \in Rows
  BY Holds
<1>2. work[w].row # None /\ work[w].turn >= 1
  BY <1>1 DEF WorkOK
<1>3. work[w].turn \in 0..MaxMessages
  BY <1>1 DEF Works
<1>4. work[w].turn \in 1..MaxMessages
  BY <1>2, <1>3, Bounds
<1>5. work[w].row \in Rows /\ session \in Rows /\ session # None
  BY <1>1, <1>2, Bounds
<1>6. session.data.intent <= Len(demands)
  BY <1>5 DEF TypeInv, DataOK
<1>7. work[w].row.data.intent <= Len(demands)
  BY <1>1, <1>2 DEF CallOK
<1>8. QED
  BY <1>1, <1>2, <1>4, <1>5, <1>6, <1>7

LEMMA ReopensStep ==
    ASSUME TypeInv, NEW w \in Workers, Reopens(w)
    PROVE  TypeInv' /\ Glances(w)
<1>1. /\ pc[w] = "reopen" /\ Rereads(w, "think", work[w])
      /\ UNCHANGED <<session, log, customer, orders, demands, told, scene, sent, expiries, faults,
                     blind, halved>>
  BY DEF Reopens, store, counters
<1>2. PICK old : old = work[w]
  OBVIOUS
<1>3. old \in Works /\ WorkOK("reopen", old) /\ CallOK(old, Len(demands)) /\ session # None
      /\ Len(demands) \in Nat
  BY <1>1, <1>2, Opened
<1>4. PICK n \in Works : n = [old EXCEPT !.row = session] /\ Reads(w, n) /\ Moves(w, "think", n)
                         /\ CallOK(n, Len(demands'))
  BY <1>1, <1>2, <1>3, RereadsStep DEF Stages, CallOK
<1>5. WorkOK("think", n)
  BY <1>3, <1>4 DEF WorkOK, Works
<1>6. DataOK'
  BY <1>1, SameData, StaleTyped DEF Rereads
<1>7. Half("think", n) = Half(pc[w], work[w])
  BY <1>1 DEF Half
<1>8. QED
  BY <1>1, <1>4, <1>5, <1>6, <1>7, ReadsType DEF Glances, Stages

LEMMA ThinksStep ==
    ASSUME TypeInv, NEW w \in Workers, Thinks(w)
    PROVE  TypeInv' /\ Glances(w)
<1>1. /\ pc[w] = "think"
      /\ UNCHANGED <<session, log, customer, orders, demands, told, scene, sent, expiries, faults,
                     stale, blind, halved>>
  BY DEF Thinks, store, counters, history
<1>2. PICK old : old = work[w]
  OBVIOUS
<1>3. old \in Works /\ WorkOK("think", old) /\ CallOK(old, Len(demands)) /\ old.row # None
  BY <1>1, <1>2, Opened
<1>4. DataOK'
  BY <1>1, SameData DEF TypeInv, DataOK
<1>5. ASSUME NEW s \in Stages, NEW n \in Works, WorkOK(s, n), CallOK(n, Len(demands)),
             n.row = old.row, Moves(w, s, n), s \in {"user", "tool"}
      PROVE  TypeInv' /\ Glances(w)
  <2>1. Reads(w, n)
    BY <1>1, <1>2, <1>5 DEF Reads
  <2>2. Half(s, n) = Half(pc[w], work[w])
    BY <1>1, <1>5 DEF Half
  <2>3. QED
    BY <1>1, <1>4, <1>5, <2>1, <2>2, ReadsType DEF Glances
<1>6. CASE Goes(w, "user", old)
  <2>1. Moves(w, "user", old) /\ "user" \in Stages
    BY <1>6, GoesMoves DEF Stages
  <2>2. WorkOK("user", old)
    BY <1>3 DEF WorkOK
  <2>3. QED
    BY <1>3, <1>5, <2>1, <2>2
<1>7. ASSUME MoreRounds(old.round), NEW k \in 1..MaxCalls,
             Goes(w, "tool", [old EXCEPT !.round = NextRound(@), !.left = k])
      PROVE  TypeInv' /\ Glances(w)
  <2>1. PICK n : n = [old EXCEPT !.round = NextRound(@), !.left = k]
    OBVIOUS
  <2>2. old.round + 1 \in 0..MaxRounds /\ k \in 0..MaxCalls /\ k >= 1
    BY <1>3, <1>7, Bounds DEF MoreRounds, Works
  <2>3. /\ n \in Works /\ n.row = old.row /\ n.left = k /\ n.turn = old.turn /\ n.flow = old.flow
        /\ n.reply = old.reply /\ n.call = old.call
    BY <1>3, <2>1, <2>2 DEF Works, NextRound
  <2>4. WorkOK("tool", n)
    BY <1>3, <2>2, <2>3 DEF WorkOK
  <2>5. CallOK(n, Len(demands))
    BY <1>3, <2>3 DEF CallOK
  <2>6. Moves(w, "tool", n) /\ "tool" \in Stages
    BY <1>7, <2>1, GoesMoves DEF Stages
  <2>7. QED
    BY <1>5, <2>3, <2>4, <2>5, <2>6
<1>8. QED
  BY <1>2, <1>6, <1>7 DEF Thinks

LEMMA FallsBackStep ==
    ASSUME TypeInv, NEW w \in Workers, FallsBack(w)
    PROVE  TypeInv' /\ Glances(w)
<1>1. /\ pc[w] = "think" /\ Ends(w)
      /\ UNCHANGED <<session, log, customer, orders, demands, told, scene, sent, expiries, faults,
                     blind, halved>>
  BY DEF FallsBack, store, counters
<1>2. DataOK'
  BY <1>1, SameData, StaleTyped DEF Ends
<1>3. Reads(w, Idle) /\ Moves(w, "idle", Idle)
  BY <1>1, EndsGlances
<1>4. Half("idle", Idle) = Half(pc[w], work[w])
  BY <1>1 DEF Half
<1>5. Len(demands) \in Nat
  BY DEF TypeInv, DataOK
<1>6. QED
  BY <1>1, <1>2, <1>3, <1>4, <1>5, IdleOK, ReadsType DEF Glances, Stages

\* After a call the response's next one is made, or the next round begins.
LEMMA CalledWork ==
    ASSUME TypeInv, NEW w \in Workers, pc[w] \in {"tool", "cart", "order"}, work[w].flow = FALSE,
           NEW n, n = Called(w)
    PROVE  /\ n \in Works /\ WorkOK(AfterCall(w), n) /\ CallOK(n, Len(demands))
           /\ n.row = work[w].row /\ n.reply = "text" /\ n.flow = FALSE /\ n.call = 0
           /\ n.turn = work[w].turn
           /\ AfterCall(w) \in {"tool", "think"} /\ (AfterCall(w) = "tool" => n.left >= 1)
<1>1. PICK old : old = work[w]
  OBVIOUS
<1>2. /\ old \in Works /\ WorkOK(pc[w], old) /\ CallOK(old, Len(demands)) /\ Len(demands) \in Nat
      /\ old.row # None /\ old.turn >= 1
  <2>1. old.turn \in 1..MaxMessages
    BY <1>1, Opened
  <2>2. QED
    BY <1>1, <2>1, Opened, Bounds
<1>3. old.left >= 1 /\ old.left \in 0..MaxCalls /\ old.flow = FALSE
  BY <1>1, <1>2 DEF WorkOK, Works
<1>4. n = [old EXCEPT !.left = @ - 1, !.call = 0]
  BY <1>1 DEF Called
<1>5. old.left - 1 \in 0..MaxCalls
  BY <1>3, Bounds
<1>6. /\ n \in Works /\ n.row = old.row /\ n.left = old.left - 1 /\ n.turn = old.turn
      /\ n.flow = old.flow /\ n.reply = old.reply /\ n.call = 0
  <2>1. PICK k, zero : k = old.left - 1 /\ zero = 0
    OBVIOUS
  <2>2. n = [old EXCEPT !.left = k, !.call = zero]
    BY <1>4, <2>1
  <2>3. k \in 0..MaxCalls /\ zero \in 0..MaxDemands
    BY <1>5, <2>1, Bounds
  <2>4. /\ n \in Works /\ n.row = old.row /\ n.left = k /\ n.turn = old.turn
        /\ n.flow = old.flow /\ n.reply = old.reply /\ n.call = zero
    BY <1>2, <2>2, <2>3 DEF Works
  <2>5. QED
    BY <2>1, <2>4
<1>7. n.reply = "text"
  <2>1. n.reply \in {"text", "prompt"}
    BY <1>6 DEF Works
  <2>2. QED
    BY <1>2, <1>6, <2>1 DEF WorkOK
<1>8. AfterCall(w) \in {"tool", "think"} /\ (AfterCall(w) = "tool" => n.left >= 1)
  <2>1. AfterCall(w) = IF old.left > 1 THEN "tool" ELSE "think"
    BY <1>1 DEF AfterCall
  <2>2. old.left > 1 => n.left >= 1
    BY <1>3, <1>6
  <2>3. QED
    BY <2>1, <2>2
<1>9. WorkOK(AfterCall(w), n)
  BY <1>2, <1>3, <1>6, <1>7, <1>8 DEF WorkOK
<1>10. CallOK(n, Len(demands))
  BY <1>2, <1>6 DEF CallOK
<1>11. QED
  BY <1>1, <1>3, <1>6, <1>7, <1>8, <1>9, <1>10

LEMMA ToolReadsStep ==
    ASSUME TypeInv, NEW w \in Workers, ToolReads(w)
    PROVE  TypeInv' /\ Glances(w)
<1>1. /\ pc[w] = "tool"
      /\ UNCHANGED <<session, log, customer, orders, demands, told, scene, sent, expiries, faults,
                     blind, halved>>
  BY DEF ToolReads, store, counters
<1>2. PICK next, s : next = Called(w) /\ s = AfterCall(w)
  OBVIOUS
<1>3. work[w].flow = FALSE /\ session # None /\ Len(demands) \in Nat
  BY <1>1, Opened DEF WorkOK
<1>4. /\ next \in Works /\ WorkOK(s, next) /\ CallOK(next, Len(demands))
      /\ next.row = work[w].row /\ s \in {"tool", "think"}
      /\ next.reply = "text"
  BY <1>1, <1>2, <1>3, CalledWork
<1>5. \A n : Half(s, n) = Half(pc[w], work[w])
  BY <1>1, <1>4 DEF Half
<1>6. CASE Goes(w, s, next) /\ UNCHANGED stale
  <2>1. Moves(w, s, next) /\ s \in Stages
    BY <1>4, <1>6, GoesMoves DEF Stages
  <2>2. Reads(w, next)
    BY <1>1, <1>4, <1>6 DEF Reads
  <2>3. DataOK'
    BY <1>1, <1>6, SameData, StaleTyped
  <2>4. QED
    BY <1>1, <1>4, <1>5, <2>1, <2>2, <2>3, ReadsType DEF Glances
<1>7. CASE Rereads(w, s, next)
  <2>1. s \in Stages \ {"idle"} /\ next.call <= Len(demands')
    BY <1>1, <1>4 DEF Stages, CallOK
  <2>2. PICK n \in Works : n = [next EXCEPT !.row = session] /\ Reads(w, n) /\ Moves(w, s, n)
                           /\ CallOK(n, Len(demands'))
    BY <1>1, <1>3, <1>4, <1>7, <2>1, RereadsStep
  <2>3. WorkOK(s, n)
    BY <1>3, <1>4, <2>2 DEF WorkOK, Works
  <2>4. DataOK'
    BY <1>1, <1>7, SameData, StaleTyped DEF Rereads
  <2>5. QED
    BY <1>1, <1>5, <2>1, <2>2, <2>3, <2>4, ReadsType DEF Glances
<1>8. QED
  BY <1>2, <1>6, <1>7 DEF ToolReads

LEMMA ToolOpensCartStep ==
    ASSUME TypeInv, NEW w \in Workers, ToolOpensCart(w)
    PROVE  TypeInv' /\ Glances(w)
<1>1. /\ pc[w] = "tool" /\ Rereads(w, "cart", work[w])
      /\ UNCHANGED <<session, log, customer, orders, demands, told, scene, sent, expiries, faults,
                     blind, halved>>
  BY DEF ToolOpensCart, Calls, store, counters
<1>2. PICK old : old = work[w]
  OBVIOUS
<1>3. old \in Works /\ WorkOK("tool", old) /\ CallOK(old, Len(demands)) /\ session # None
      /\ Len(demands) \in Nat
  BY <1>1, <1>2, Opened
<1>4. PICK n \in Works : n = [old EXCEPT !.row = session] /\ Reads(w, n) /\ Moves(w, "cart", n)
                         /\ CallOK(n, Len(demands'))
  BY <1>1, <1>2, <1>3, RereadsStep DEF Stages, CallOK
<1>5. WorkOK("cart", n)
  BY <1>3, <1>4 DEF WorkOK, Works
<1>6. DataOK'
  BY <1>1, SameData, StaleTyped DEF Rereads
<1>7. Half("cart", n) = Half(pc[w], work[w])
  BY <1>1 DEF Half
<1>8. QED
  BY <1>1, <1>4, <1>5, <1>6, <1>7, ReadsType DEF Glances, Stages

LEMMA FailsStep ==
    ASSUME TypeInv, NEW w \in Workers, Fails(w)
    PROVE  /\ TypeInv' /\ Reads(w, Idle) /\ Moves(w, "idle", Idle)
           /\ Half(pc[w], work[w]) => halved' = TRUE
           /\ halved = TRUE => halved' = TRUE
<1>1. /\ Ends(w) /\ faults < MaxFaults /\ faults' = faults + 1
      /\ halved' = (halved \/ Halfway(w))
      /\ UNCHANGED <<session, log, customer, orders, demands, told, scene, sent, expiries, blind>>
  BY DEF Fails, store
<1>2. Reads(w, Idle) /\ Moves(w, "idle", Idle)
  BY <1>1, EndsGlances
<1>3. halved' \in BOOLEAN /\ (halved = TRUE => halved' = TRUE)
  BY <1>1 DEF TypeInv, DataOK
<1>4. ASSUME Half(pc[w], work[w])
      PROVE  halved' = TRUE
  <2>1. Halfway(w)
    BY <1>4 DEF Half, Halfway
  <2>2. QED
    BY <1>1, <2>1
<1>5. faults' \in 0..MaxFaults
  BY <1>1, Bounds DEF TypeInv, DataOK
<1>6. stale' \in [Workers -> SUBSET Columns]
  BY <1>1, StaleTyped DEF Ends
<1>7. DataOK'
  BY <1>1, <1>3, <1>5, <1>6 DEF TypeInv, DataOK
<1>8. QED
  <2>1. demands' = demands /\ Len(demands) \in Nat
    BY <1>1 DEF TypeInv, DataOK
  <2>2. QED
    BY <1>2, <1>3, <1>4, <1>7, <2>1, IdleOK, ReadsType DEF Stages

LEMMA CompletesFormStep ==
    ASSUME TypeInv, NEW w \in Workers, CompletesForm(w)
    PROVE  TypeInv' /\ Glances(w)
<1>1. /\ pc[w] = "act" /\ Goes(w, "close", work[w]) /\ customer' = (customer \/ scene.channel # "widget")
      /\ UNCHANGED <<session, log, orders, demands, told, scene, sent, expiries, faults,
                     stale, blind, halved>>
  BY DEF CompletesForm, Acting, counters, history
<1>2. PICK old : old = work[w]
  OBVIOUS
<1>3. old \in Works /\ WorkOK("act", old) /\ CallOK(old, Len(demands))
  BY <1>1, <1>2, Opened
<1>4. WorkOK("close", old)
  BY <1>3 DEF WorkOK
<1>5. customer' \in BOOLEAN
  BY <1>1
<1>6. DataOK'
  BY <1>1, <1>5 DEF TypeInv, DataOK
<1>7. Moves(w, "close", old) /\ "close" \in Stages
  BY <1>1, <1>2, GoesMoves DEF Stages
<1>8. Reads(w, old) /\ Half("close", old) = Half(pc[w], work[w])
  BY <1>1, <1>2 DEF Reads, Half
<1>9. QED
  BY <1>1, <1>3, <1>4, <1>6, <1>7, <1>8, ReadsType DEF Glances

LEMMA ToolLinksStep ==
    ASSUME TypeInv, NEW w \in Workers, ToolLinks(w)
    PROVE  /\ TypeInv' /\ Glances(w)
           /\ \E i \in DOMAIN orders : \E g \in {"bumpa", "default", "paystack"} :
                 /\ orders' = [orders EXCEPT ![i].gateway = g, ![i].link = TRUE]
                 /\ orders[i].gateway = "bumpa" => g = "bumpa"
<1>1. PICK i \in DOMAIN orders, asked \in {None, "paystack", "bumpa"} :
         orders' = [orders EXCEPT ![i].gateway = Gateway(orders[i], asked), ![i].link = TRUE]
  BY DEF ToolLinks
<1>2. /\ pc[w] = "tool" /\ Goes(w, AfterCall(w), Called(w))
      /\ UNCHANGED <<session, log, customer, demands, told, scene, sent, expiries, faults,
                     stale, blind, halved>>
  BY DEF ToolLinks, Calls, counters, history
<1>3. PICK g : g = Gateway(orders[i], asked)
  OBVIOUS
<1>4. g \in {"bumpa", "default", "paystack"} /\ (orders[i].gateway = "bumpa" => g = "bumpa")
  BY <1>3 DEF Gateway
<1>5. orders' = [orders EXCEPT ![i].gateway = g, ![i].link = TRUE]
  BY <1>1, <1>3
<1>6. orders' \in Seq(Orders)
  <2>1. orders \in Seq(Orders)
    BY DEF TypeInv, DataOK
  <2>2. PICK o : o = [orders[i] EXCEPT !.gateway = g, !.link = TRUE]
    OBVIOUS
  <2>3. orders[i] \in Orders
    BY <2>1
  <2>4. o \in Orders
    BY <1>4, <2>2, <2>3 DEF Orders
  <2>5. orders' = [orders EXCEPT ![i] = o]
    BY <1>5, <2>2
  <2>6. QED
    BY <2>1, <2>4, <2>5
<1>7. DataOK'
  BY <1>2, <1>6 DEF TypeInv, DataOK
<1>8. PICK next, s : next = Called(w) /\ s = AfterCall(w)
  OBVIOUS
<1>9. work[w].flow = FALSE
  BY <1>2, Opened DEF WorkOK
<1>10. /\ next \in Works /\ WorkOK(s, next) /\ CallOK(next, Len(demands))
       /\ next.row = work[w].row /\ s \in {"tool", "think"}
  BY <1>2, <1>8, <1>9, CalledWork
<1>11. Moves(w, s, next) /\ s \in Stages
  BY <1>2, <1>8, <1>10, GoesMoves DEF Stages
<1>12. Reads(w, next)
  BY <1>2, <1>10 DEF Reads
<1>13. Half(s, next) = Half(pc[w], work[w])
  BY <1>2, <1>10 DEF Half
<1>14. TypeInv' /\ Glances(w)
  BY <1>2, <1>7, <1>10, <1>11, <1>12, <1>13, ReadsType DEF Glances
<1>15. QED
  BY <1>4, <1>5, <1>14

\* A call of create_order is noted, and its handler sets out to do it.
Begins(w) ==
    /\ UNCHANGED <<session, orders, told, blind>>
    /\ \E goods \in (SUBSET Goods) \ {{}}, s \in {"collect", "order"}, n \in Works :
          /\ demands' = Append(demands, goods) /\ Moves(w, s, n)
          /\ n.call = Len(demands) + 1 /\ (s = "order" => n.make = goods)

LEMMA ToolCreatesOrderStep ==
    ASSUME TypeInv, NEW w \in Workers, ToolCreatesOrder(w)
    PROVE  TypeInv' /\ Glances(w) /\ Begins(w)
<1>1. /\ pc[w] = "tool" /\ Len(demands) < MaxDemands
      /\ UNCHANGED <<session, log, customer, orders, told, scene, sent, expiries, faults,
                     blind, halved>>
  BY DEF ToolCreatesOrder, Calls, store, counters
<1>2. PICK old, c : old = work[w] /\ c = Len(demands) + 1
  OBVIOUS
<1>3. /\ old \in Works /\ WorkOK("tool", old) /\ session # None /\ Len(demands) \in Nat
      /\ old.row # None /\ old.row.data.intent <= Len(demands)
  BY <1>1, <1>2, Opened
<1>4. c \in 1..MaxDemands /\ c \in 0..MaxDemands /\ c >= 1 /\ c \in Nat
  BY <1>1, <1>2, <1>3, Bounds
<1>5. PICK goods \in (SUBSET Goods) \ {{}}, given \in BOOLEAN :
         /\ demands' = Append(demands, goods)
         /\ LET new == [old EXCEPT !.call = c]
            IN IF ~Known /\ ~given THEN Rereads(w, "collect", new)
               ELSE IF scene.channel = "widget"
                    THEN Rereads(w, "order", [new EXCEPT !.make = goods])
                    ELSE Goes(w, "order", [new EXCEPT !.make = goods]) /\ UNCHANGED stale
  BY <1>2 DEF ToolCreatesOrder
<1>6. PICK new, made : new = [old EXCEPT !.call = c] /\ made = [new EXCEPT !.make = goods]
  OBVIOUS
<1>7. /\ new \in Works /\ new.call = c /\ new.row = old.row /\ new.flow = old.flow
      /\ new.turn = old.turn /\ new.left = old.left /\ new.reply = old.reply
  BY <1>3, <1>4, <1>6 DEF Works
<1>8. /\ made \in Works /\ made.call = c /\ made.row = old.row /\ made.flow = old.flow
      /\ made.turn = old.turn /\ made.left = old.left /\ made.reply = old.reply
      /\ made.make = goods
  BY <1>6, <1>7 DEF Works
<1>9. Len(demands') = c /\ Len(demands) <= Len(demands') /\ Len(demands') \in Nat
  <2>1. demands \in Seq((SUBSET Goods) \ {{}})
    BY DEF TypeInv, DataOK
  <2>2. Len(demands') = c
    BY <1>2, <1>5, <2>1
  <2>3. QED
    BY <1>2, <1>3, <1>4, <2>2
<1>10. stale' \in [Workers -> SUBSET Columns] => DataOK'
  <2>1. demands' \in Seq((SUBSET Goods) \ {{}})
    BY <1>5 DEF TypeInv, DataOK
  <2>2. Len(demands') <= MaxDemands
    BY <1>4, <1>9
  <2>3. told' \subseteq 1..Len(demands')
    <3>1. told \subseteq 1..Len(demands) /\ told' = told
      BY <1>1 DEF TypeInv, DataOK
    <3>2. 1..Len(demands) \subseteq 1..Len(demands')
      BY <1>3, <1>9
    <3>3. QED
      BY <3>1, <3>2
  <2>4. session' # None => session'.data.intent <= Len(demands')
    <3>1. session.data.intent \in Nat /\ session.data.intent <= Len(demands) /\ session' = session
      BY <1>1, Opened DEF Rows, Data
    <3>2. QED
      BY <1>3, <1>9, <3>1
  <2>5. QED
    BY <1>1, <2>1, <2>2, <2>3, <2>4 DEF TypeInv, DataOK
<1>11. ASSUME NEW s \in {"collect", "order"}, NEW n \in Works, WorkOK(s, n), CallOK(n, Len(demands')),
              Reads(w, n), Moves(w, s, n), stale' \in [Workers -> SUBSET Columns],
              n.call = c, s = "order" => n.make = goods, n.flow = FALSE
       PROVE  TypeInv' /\ Glances(w) /\ Begins(w)
  <2>1. s \in Stages
    BY <1>11 DEF Stages
  <2>2. TypeInv'
    BY <1>9, <1>10, <1>11, <2>1, ReadsType
  <2>3. Half(s, n) = Half(pc[w], work[w])
    BY <1>1, <1>11 DEF Half
  <2>4. Glances(w)
    BY <1>11, <2>1, <2>3 DEF Glances
  <2>5. Begins(w)
    BY <1>1, <1>2, <1>5, <1>11 DEF Begins
  <2>6. QED
    BY <2>2, <2>4, <2>5
<1>12. old.flow = FALSE
  BY <1>3 DEF WorkOK
<1>13. CASE Rereads(w, "collect", new)
  <2>1. PICK n \in Works : n = [new EXCEPT !.row = session] /\ Reads(w, n) /\ Moves(w, "collect", n)
                           /\ CallOK(n, Len(demands'))
    BY <1>1, <1>3, <1>4, <1>7, <1>9, <1>13, RereadsStep DEF Stages
  <2>2. n.call = c /\ n.flow = FALSE
    BY <1>7, <1>12, <2>1 DEF Works
  <2>3. WorkOK("collect", n)
    BY <1>3, <1>4, <1>7, <2>1 DEF WorkOK, Works
  <2>4. stale' \in [Workers -> SUBSET Columns]
    BY <1>13, StaleTyped DEF Rereads
  <2>5. QED
    BY <1>11, <2>1, <2>2, <2>3, <2>4
<1>14. CASE Rereads(w, "order", made)
  <2>1. PICK n \in Works : n = [made EXCEPT !.row = session] /\ Reads(w, n) /\ Moves(w, "order", n)
                           /\ CallOK(n, Len(demands'))
    BY <1>1, <1>3, <1>4, <1>8, <1>9, <1>14, RereadsStep DEF Stages
  <2>2. n.call = c /\ n.flow = FALSE /\ n.make = goods
    BY <1>8, <1>12, <2>1 DEF Works
  <2>3. WorkOK("order", n)
    BY <1>3, <1>4, <1>5, <1>8, <2>1, <2>2 DEF WorkOK, Works
  <2>4. stale' \in [Workers -> SUBSET Columns]
    BY <1>14, StaleTyped DEF Rereads
  <2>5. QED
    BY <1>11, <2>1, <2>2, <2>3, <2>4
<1>15. CASE Goes(w, "order", made) /\ UNCHANGED stale
  <2>1. Moves(w, "order", made)
    BY <1>15, GoesMoves
  <2>2. Reads(w, made)
    BY <1>1, <1>2, <1>8, <1>15 DEF Reads
  <2>3. WorkOK("order", made)
    BY <1>3, <1>4, <1>5, <1>8 DEF WorkOK
  <2>4. stale' \in [Workers -> SUBSET Columns]
    BY <1>15, StaleTyped
  <2>5. CallOK(made, Len(demands'))
    <3>1. old.row \in Rows /\ old.row.data.intent <= Len(demands) /\ old.row.data.intent \in Nat
      BY <1>1, <1>2, Opened DEF Rows, Data
    <3>2. QED
      BY <1>3, <1>4, <1>8, <1>9, <3>1 DEF CallOK
  <2>6. QED
    BY <1>8, <1>11, <1>12, <2>1, <2>2, <2>3, <2>4, <2>5
<1>16. QED
  BY <1>5, <1>6, <1>13, <1>14, <1>15

\* w makes the order for goods g of its call; the call's result is known with the last.
Delivers(w) ==
    /\ UNCHANGED <<session, demands, blind>>
    /\ pc[w] = "order"
    /\ \E g \in work[w].make, o \in Orders :
          /\ orders' = Append(orders, o) /\ o.call = work[w].call /\ o.goods = g
          /\ g = "bumpa" => o.gateway = "bumpa"
          /\ \/ /\ work[w].make \ {g} # {} /\ told' = told
                /\ \E n \in Works : Moves(w, "order", n) /\ n.call = work[w].call
                                    /\ n.make = work[w].make \ {g}
             \/ /\ work[w].make = {g} /\ told' = told \union {work[w].call}
                /\ \E n \in Works, s \in {"reply", "tool", "think"} : Moves(w, s, n)

LEMMA MakesOrderStep ==
    ASSUME TypeInv, NEW w \in Workers, MakesOrder(w)
    PROVE  TypeInv' /\ Glances(w) /\ Delivers(w)
<1>1. PICK old, make, g, rest :
         /\ old = work[w] /\ make = work[w].make /\ rest = Rest(make, g)
         /\ g = IF "other" \in make THEN "other" ELSE "bumpa"
  <2>1. PICK make, g : make = work[w].make /\ g = IF "other" \in make THEN "other" ELSE "bumpa"
    OBVIOUS
  <2>2. QED
    BY <2>1
<1>2. /\ pc[w] = "order"
      /\ orders' = Append(orders,
             [call |-> work[w].call, goods |-> g, contact |-> TRUE,
              gateway |-> IF g = "bumpa" THEN "bumpa" ELSE None, link |-> FALSE])
      /\ IF rest # {}
         THEN Goes(w, "order", [old EXCEPT !.make = rest]) /\ UNCHANGED told
         ELSE /\ told' = told \union {old.call}
              /\ IF old.flow THEN Goes(w, "reply", [old EXCEPT !.make = {}])
                 ELSE Goes(w, AfterCall(w), [Called(w) EXCEPT !.make = {}])
      /\ UNCHANGED <<session, log, customer, demands, scene, sent, expiries, faults,
                     stale, blind, halved>>
  BY <1>1 DEF MakesOrder, counters, history
<1>3. /\ old \in Works /\ WorkOK("order", old) /\ CallOK(old, Len(demands)) /\ Len(demands) \in Nat
      /\ old.row # None
  BY <1>1, <1>2, Opened
<1>4. make # {} /\ make \subseteq Goods /\ make = old.make /\ old.call \in 1..Len(demands)
      /\ old.call \in 1..MaxDemands
  <2>1. old.call \in 0..MaxDemands /\ old.call >= 1 /\ old.call <= Len(demands)
    BY <1>3 DEF WorkOK, CallOK, Works
  <2>2. make # {} /\ make \subseteq Goods
    BY <1>1, <1>3 DEF WorkOK, Works
  <2>3. QED
    BY <1>1, <1>3, <2>1, <2>2, Bounds
<1>5. g \in make /\ g \in Goods /\ rest = make \ {g} /\ rest \subseteq Goods
  BY <1>1, <1>4 DEF Goods, Rest
<1>6. PICK o : o = [call |-> work[w].call, goods |-> g, contact |-> TRUE,
                    gateway |-> IF g = "bumpa" THEN "bumpa" ELSE None, link |-> FALSE]
  OBVIOUS
<1>7. o \in Orders /\ o.call = work[w].call /\ o.goods = g /\ (g = "bumpa" => o.gateway = "bumpa")
      /\ orders' = Append(orders, o)
  BY <1>1, <1>2, <1>4, <1>5, <1>6 DEF Orders
<1>8. orders' \in Seq(Orders)
  BY <1>7 DEF TypeInv, DataOK
<1>9. told' \subseteq 1..Len(demands') => DataOK'
  BY <1>2, <1>8 DEF TypeInv, DataOK
<1>10. told \subseteq 1..Len(demands)
  BY DEF TypeInv, DataOK
<1>11. ASSUME NEW s \in Stages, NEW n \in Works, WorkOK(s, n), CallOK(n, Len(demands)),
              n.row = old.row, Moves(w, s, n), Half(s, n) <=> old.flow = TRUE,
              told' \subseteq 1..Len(demands)
       PROVE  TypeInv' /\ Glances(w)
  <2>1. DataOK'
    BY <1>2, <1>9, <1>11
  <2>2. Reads(w, n)
    BY <1>1, <1>2, <1>11 DEF Reads
  <2>3. Half(pc[w], work[w]) <=> old.flow = TRUE
    BY <1>1, <1>2 DEF Half
  <2>4. Half(s, n) = Half(pc[w], work[w])
    BY <1>11, <2>3, Zenon DEF Half
  <2>5. QED
    BY <1>2, <1>11, <2>1, <2>2, <2>4, ReadsType DEF Glances
<1>12. CASE rest # {}
  <2>1. Goes(w, "order", [old EXCEPT !.make = rest]) /\ told' = told
    BY <1>2, <1>12
  <2>2. PICK n : n = [old EXCEPT !.make = rest]
    OBVIOUS
  <2>3. /\ n \in Works /\ n.row = old.row /\ n.left = old.left /\ n.turn = old.turn
        /\ n.flow = old.flow /\ n.reply = old.reply /\ n.call = old.call /\ n.make = rest
    BY <1>3, <1>5, <2>2 DEF Works
  <2>4. WorkOK("order", n)
    BY <1>3, <1>12, <2>3 DEF WorkOK
  <2>5. CallOK(n, Len(demands))
    BY <1>3, <2>3 DEF CallOK
  <2>6. Moves(w, "order", n) /\ "order" \in Stages
    BY <2>1, <2>2, GoesMoves DEF Stages
  <2>7. Half("order", n) <=> old.flow = TRUE
    BY <2>3 DEF Half
  <2>8. TypeInv' /\ Glances(w)
    BY <1>10, <1>11, <2>1, <2>3, <2>4, <2>5, <2>6, <2>7
  <2>9. Delivers(w)
    BY <1>1, <1>2, <1>5, <1>7, <1>12, <2>1, <2>3, <2>6 DEF Delivers
  <2>10. QED
    BY <2>8, <2>9
<1>13. CASE rest = {}
  <2>1. told' = told \union {old.call} /\ told' \subseteq 1..Len(demands)
    BY <1>2, <1>4, <1>10, <1>13
  <2>2. IF old.flow THEN Goes(w, "reply", [old EXCEPT !.make = {}])
        ELSE Goes(w, AfterCall(w), [Called(w) EXCEPT !.make = {}])
    BY <1>2, <1>13
  <2>3. work[w].make = {g}
    BY <1>1, <1>5, <1>13
  <2>4. ASSUME NEW s \in {"reply", "tool", "think"}, NEW n \in Works, WorkOK(s, n),
               CallOK(n, Len(demands)), n.row = old.row, Moves(w, s, n),
               Half(s, n) <=> old.flow = TRUE
        PROVE  TypeInv' /\ Glances(w) /\ Delivers(w)
    <3>1. TypeInv' /\ Glances(w)
      BY <1>11, <2>1, <2>4 DEF Stages
    <3>2. Delivers(w)
      BY <1>1, <1>2, <1>5, <1>7, <2>1, <2>3, <2>4 DEF Delivers
    <3>3. QED
      BY <3>1, <3>2
  <2>5. CASE old.flow = TRUE
    <3>1. PICK n : n = [old EXCEPT !.make = {}]
      OBVIOUS
    <3>2. /\ n \in Works /\ n.row = old.row /\ n.turn = old.turn /\ n.flow = old.flow
          /\ n.reply = old.reply /\ n.call = old.call
      BY <1>3, <3>1 DEF Works
    <3>3. WorkOK("reply", n)
      BY <1>3, <3>2 DEF WorkOK
    <3>4. CallOK(n, Len(demands))
      BY <1>3, <3>2 DEF CallOK
    <3>5. Moves(w, "reply", n)
      BY <2>2, <2>5, <3>1, GoesMoves
    <3>6. Half("reply", n) <=> old.flow = TRUE
      BY <2>5 DEF Half
    <3>7. QED
      BY <2>4, <3>2, <3>3, <3>4, <3>5, <3>6
  <2>6. CASE old.flow = FALSE
    <3>1. PICK next, s : next = Called(w) /\ s = AfterCall(w)
      OBVIOUS
    <3>2. PICK n : n = [next EXCEPT !.make = {}]
      OBVIOUS
    <3>3. /\ next \in Works /\ WorkOK(s, next) /\ CallOK(next, Len(demands))
          /\ next.row = old.row /\ s \in {"tool", "think"}
      BY <1>1, <1>2, <2>6, <3>1, CalledWork
    <3>4. /\ n \in Works /\ n.row = next.row /\ n.turn = next.turn /\ n.flow = next.flow
          /\ n.reply = next.reply /\ n.call = next.call /\ n.left = next.left
      BY <3>2, <3>3 DEF Works
    <3>5. WorkOK(s, n)
      BY <3>3, <3>4 DEF WorkOK
    <3>6. CallOK(n, Len(demands))
      BY <3>3, <3>4 DEF CallOK
    <3>7. Moves(w, s, n)
      BY <2>2, <2>6, <3>1, <3>2, <3>3, GoesMoves
    <3>8. Half(s, n) <=> old.flow = TRUE
      BY <2>6, <3>3 DEF Half
    <3>9. QED
      BY <2>4, <3>3, <3>4, <3>5, <3>6, <3>7, <3>8
  <2>7. old.flow \in BOOLEAN
    BY <1>3 DEF Works
  <2>8. QED
    BY <2>5, <2>6, <2>7
<1>14. QED
  BY <1>12, <1>13

\* w commits to its row what is not the memory, and holds the row as committed.
Alters(w, s, n, new, changed) ==
    /\ s \in Stages \ {"idle"} /\ n \in Works /\ new \in Rows /\ WorkOK(s, n)
    /\ Writes(w, s, new, changed) /\ Moves(w, s, n) /\ n.row = new
    /\ "memory" \notin changed /\ log' = log /\ blind \subseteq blind'
    /\ Half(s, n) = Half(pc[w], work[w])

LEMMA CommitsAlters ==
    ASSUME TypeInv, NEW w \in Workers, pc[w] \notin {"idle", "open"}, NEW old, old = work[w].row,
           NEW new \in Rows, new.memory = old.memory, new.started = old.started,
           new.expired = old.expired, new.data.intent <= Len(demands),
           NEW relied, NEW s \in Stages \ {"idle"}, NEW after \in Works,
           Commits(w, new, relied, s, after), NEW n, n = [after EXCEPT !.row = new],
           WorkOK(s, n), after.call <= Len(demands), Half(s, n) = Half(pc[w], work[w]),
           UNCHANGED <<log, customer, orders, demands, told, counters, halved>>
    PROVE  /\ TypeInv' /\ Alters(w, s, n, new, Changed(old, new))
           /\ blind' = blind \union (stale[w] \intersect relied)
<1>1. old \in Rows /\ session \in Rows /\ Len(demands) \in Nat /\ new # None
  BY Opened, Bounds
<1>2. n \in Works /\ n.row = new /\ n.call = after.call
  BY DEF Works
<1>3. /\ Writes(w, s, new, Changed(old, new))
      /\ blind' = blind \union (stale[w] \intersect relied)
      /\ Goes(w, s, n)
  BY <1>1, CommitsWrites
<1>4. Moves(w, s, n)
  BY <1>3, GoesMoves
<1>5. CallOK(n, Len(demands))
  BY <1>2 DEF CallOK
<1>6. TypeInv'
  <2>1. log' \in Seq(Entries)
    BY DEF TypeInv, DataOK
  <2>2. QED
    BY <1>2, <1>3, <1>4, <1>5, <2>1, WritesType
<1>7. "memory" \notin Changed(old, new)
  BY <1>1, ChangedColumns
<1>8. QED
  BY <1>2, <1>3, <1>4, <1>6, <1>7 DEF Alters

\* Everything w has not missed is in its row as it is in the table.
LEMMA ToolWritesCartStep ==
    ASSUME TypeInv, NEW w \in Workers, ToolWritesCart(w)
    PROVE  /\ TypeInv'
           /\ \E s, n, new, changed :
                 /\ Alters(w, s, n, new, changed) /\ s \in {"tool", "think"}
                 /\ new.data.intent = work[w].row.data.intent
                 /\ "data" \in stale[w] => "data" \in blind'
<1>1. PICK full \in BOOLEAN :
         Commits(w, [work[w].row EXCEPT !.data.cart = full], {"data"}, AfterCall(w), Called(w))
  BY DEF ToolWritesCart
<1>2. pc[w] = "cart" /\ UNCHANGED <<log, customer, orders, demands, told, counters, halved>>
  BY DEF ToolWritesCart
<1>3. PICK old, new, s, next :
         /\ old = work[w].row /\ new = [work[w].row EXCEPT !.data.cart = full]
         /\ s = AfterCall(w) /\ next = Called(w)
  OBVIOUS
<1>4. old \in Rows /\ work[w].flow = FALSE /\ old.data.intent <= Len(demands) /\ Len(demands) \in Nat
  BY <1>2, <1>3, Opened DEF WorkOK
<1>5. /\ new \in Rows /\ new.memory = old.memory /\ new.started = old.started
      /\ new.expired = old.expired /\ new.data.intent = old.data.intent
  BY <1>3, <1>4 DEF Rows, Data
<1>6. /\ next \in Works /\ WorkOK(s, next) /\ next.reply = "text" /\ s \in {"tool", "think"}
      /\ CallOK(next, Len(demands))
  BY <1>2, <1>3, <1>4, CalledWork
<1>7. PICK n : n = [next EXCEPT !.row = new]
  OBVIOUS
<1>8. /\ n \in Works /\ n.row = new /\ n.flow = next.flow /\ n.turn = next.turn
      /\ n.left = next.left /\ n.reply = next.reply
  BY <1>5, <1>6, <1>7 DEF Works
<1>9. WorkOK(s, n)
  BY <1>5, <1>6, <1>8, Bounds DEF WorkOK
<1>10. Half(s, n) = Half(pc[w], work[w])
  BY <1>2, <1>6 DEF Half
<1>11. Commits(w, new, {"data"}, s, next)
  BY <1>1, <1>3
<1>12. s \in Stages \ {"idle"} /\ next.call <= Len(demands) /\ new.data.intent <= Len(demands)
  BY <1>4, <1>5, <1>6 DEF Stages, CallOK
<1>13. /\ TypeInv' /\ Alters(w, s, n, new, Changed(old, new))
       /\ blind' = blind \union (stale[w] \intersect {"data"})
  <2>1. pc[w] \notin {"idle", "open"}
    BY <1>2
  <2>2. old = work[w].row /\ next \in Works
    BY <1>3, <1>6
  <2>3. new.data.intent <= Len(demands) /\ s \in Stages \ {"idle"} /\ next.call <= Len(demands)
    BY <1>12
  <2>4. QED
    BY <1>2, <1>5, <1>7, <1>9, <1>10, <1>11, <2>1, <2>2, <2>3, CommitsAlters, ZenonT(30)
<1>14. QED
  BY <1>3, <1>5, <1>6, <1>13

LEMMA AsksStep ==
    ASSUME TypeInv, NEW w \in Workers, Asks(w)
    PROVE  /\ TypeInv'
           /\ \E n, new, changed :
                 /\ Alters(w, "user", n, new, changed) /\ pc[w] = "collect"
                 /\ new.data.intent = work[w].call
                 /\ "data" \in stale[w] => "data" \in blind'
<1>1. PICK wk, old, call, new, after :
         /\ wk = work[w] /\ old = work[w].row /\ call = work[w].call
         /\ new = [work[w].row EXCEPT !.flow = "profile_collect", !.data.intent = work[w].call]
         /\ after = [work[w] EXCEPT !.reply = "prompt"]
  OBVIOUS
<1>2. /\ pc[w] = "collect" /\ Commits(w, new, {"flow", "data"}, "user", after)
      /\ UNCHANGED <<log, customer, orders, demands, told, counters, halved>>
  BY <1>1 DEF Asks, AfterPrompt
<1>3. /\ wk \in Works /\ WorkOK("collect", wk) /\ old \in Rows /\ CallOK(wk, Len(demands))
      /\ Len(demands) \in Nat /\ call \in 0..MaxDemands
  BY <1>1, <1>2, Opened DEF Works
<1>4. /\ new \in Rows /\ new.memory = old.memory /\ new.started = old.started
      /\ new.expired = old.expired /\ new.flow = "profile_collect" /\ new.data.intent = call
  <2>1. new = [old EXCEPT !.flow = "profile_collect", !.data.intent = call]
    BY <1>1
  <2>2. QED
    BY <1>3, <2>1 DEF Rows, Data, Flows
<1>5. /\ after \in Works /\ after.row = old /\ after.flow = wk.flow /\ after.turn = wk.turn
      /\ after.reply = "prompt" /\ after.call = call
  <2>1. after = [wk EXCEPT !.reply = "prompt"]
    BY <1>1
  <2>2. QED
    BY <1>1, <1>3, <2>1 DEF Works
<1>6. PICK n : n = [after EXCEPT !.row = new]
  OBVIOUS
<1>7. /\ n \in Works /\ n.row = new /\ n.flow = after.flow /\ n.turn = after.turn
      /\ n.reply = after.reply /\ n.call = after.call
  BY <1>4, <1>5, <1>6 DEF Works
<1>8. WorkOK("user", n)
  BY <1>3, <1>4, <1>5, <1>7, Bounds DEF WorkOK
<1>9. Half("user", n) = Half(pc[w], work[w])
  BY <1>2 DEF Half
<1>10. call <= Len(demands)
  BY <1>1, <1>3 DEF CallOK
<1>11. /\ TypeInv' /\ Alters(w, "user", n, new, Changed(old, new))
       /\ blind' = blind \union (stale[w] \intersect {"flow", "data"})
  <2>1. pc[w] \notin {"idle", "open"} /\ "user" \in Stages \ {"idle"}
    BY <1>2 DEF Stages
  <2>2. old = work[w].row /\ new.data.intent <= Len(demands) /\ after.call <= Len(demands)
    BY <1>1, <1>4, <1>5, <1>10
  <2>3. QED
    BY <1>2, <1>4, <1>5, <1>6, <1>8, <1>9, <2>1, <2>2, CommitsAlters, ZenonT(30)
<1>12. QED
  BY <1>1, <1>2, <1>4, <1>11

LEMMA CancelsFormStep ==
    ASSUME TypeInv, NEW w \in Workers, CancelsForm(w)
    PROVE  /\ TypeInv'
           /\ \E n, new, changed : Alters(w, "act", n, new, changed) /\ new.data.intent = 0
<1>1. PICK wk, old, new :
         /\ wk = work[w] /\ old = work[w].row
         /\ new = [work[w].row EXCEPT !.flow = "none", !.data.intent = 0]
  OBVIOUS
<1>2. /\ pc[w] = "act" /\ Commits(w, new, {}, "act", wk)
      /\ UNCHANGED <<log, customer, orders, demands, told, counters, halved>>
  BY <1>1 DEF CancelsForm, Acting
<1>3. /\ wk \in Works /\ WorkOK("act", wk) /\ old \in Rows /\ CallOK(wk, Len(demands))
      /\ Len(demands) \in Nat
  BY <1>1, <1>2, Opened
<1>4. /\ new \in Rows /\ new.memory = old.memory /\ new.started = old.started
      /\ new.expired = old.expired /\ new.data.intent = 0
  <2>1. PICK zero : zero = 0 /\ zero \in 0..MaxDemands
    BY Bounds
  <2>2. new = [old EXCEPT !.flow = "none", !.data.intent = zero]
    BY <1>1, <2>1
  <2>3. /\ new \in Rows /\ new.memory = old.memory /\ new.started = old.started
        /\ new.expired = old.expired /\ new.data.intent = zero
    BY <1>3, <2>1, <2>2 DEF Rows, Data, Flows
  <2>4. QED
    BY <2>1, <2>3
<1>5. PICK n : n = [wk EXCEPT !.row = new]
  OBVIOUS
<1>6. /\ n \in Works /\ n.row = new /\ n.flow = wk.flow /\ n.turn = wk.turn /\ n.reply = wk.reply
  BY <1>3, <1>4, <1>5 DEF Works
<1>7. WorkOK("act", n)
  BY <1>3, <1>4, <1>6, Bounds DEF WorkOK
<1>8. Half("act", n) = Half(pc[w], work[w])
  BY <1>2 DEF Half
<1>9. /\ TypeInv' /\ Alters(w, "act", n, new, Changed(old, new))
  <2>1. pc[w] \notin {"idle", "open"} /\ "act" \in Stages \ {"idle"}
    BY <1>2 DEF Stages
  <2>2. old = work[w].row /\ new.data.intent <= Len(demands) /\ wk.call <= Len(demands)
    BY <1>1, <1>3, <1>4 DEF CallOK
  <2>3. QED
    BY <1>2, <1>3, <1>4, <1>5, <1>7, <1>8, <2>1, <2>2, CommitsAlters, ZenonT(30)
<1>10. QED
  BY <1>4, <1>9

LEMMA ClosesFormStep ==
    ASSUME TypeInv, NEW w \in Workers, ClosesForm(w)
    PROVE  /\ TypeInv'
           /\ \E s, n, new, changed :
                 /\ Alters(w, s, n, new, changed) /\ new.data.intent = 0
                 /\ "data" \in stale[w] => "data" \in blind'
                 /\ \/ s = "reply"
                    \/ /\ s = "order" /\ n.call = work[w].row.data.intent
                       /\ n.call \in 1..Len(demands) /\ n.make = demands[n.call]
<1>1. PICK wk, old, new, call :
         /\ wk = work[w] /\ old = work[w].row /\ new = Closed(work[w].row)
         /\ call = work[w].row.data.intent
  OBVIOUS
<1>2. /\ pc[w] = "close"
      /\ IF call = 0 THEN Commits(w, new, {"data"}, "reply", wk)
         ELSE Commits(w, new, {"data"}, "order", [wk EXCEPT !.call = call, !.make = demands[call]])
      /\ UNCHANGED <<log, customer, orders, demands, told, counters, halved>>
  BY <1>1 DEF ClosesForm
<1>3. /\ wk \in Works /\ WorkOK("close", wk) /\ old \in Rows /\ CallOK(wk, Len(demands))
      /\ Len(demands) \in Nat /\ call <= Len(demands) /\ call \in 0..MaxDemands
      /\ wk.row # None
  <2>1. /\ wk \in Works /\ WorkOK("close", wk) /\ old \in Rows /\ CallOK(wk, Len(demands))
        /\ Len(demands) \in Nat /\ call <= Len(demands) /\ wk.row # None
    BY <1>1, <1>2, Opened
  <2>2. call \in 0..MaxDemands
    BY <1>1, <2>1 DEF Rows, Data
  <2>3. QED
    BY <2>1, <2>2
<1>4. /\ new \in Rows /\ new.memory = old.memory /\ new.started = old.started
      /\ new.expired = old.expired /\ new.data.intent = 0
  <2>1. PICK zero, known : /\ zero = 0 /\ zero \in 0..MaxDemands
                           /\ known = (old.data.known \/ scene.channel = "widget")
    BY Bounds
  <2>2. known \in BOOLEAN
    BY <2>1
  <2>3. new = [old EXCEPT !.flow = "none", !.data.intent = zero, !.data.known = known]
    BY <1>1, <2>1 DEF Closed
  <2>4. /\ new \in Rows /\ new.memory = old.memory /\ new.started = old.started
        /\ new.expired = old.expired /\ new.data.intent = zero
    BY <1>3, <2>1, <2>2, <2>3 DEF Rows, Data, Flows
  <2>5. QED
    BY <2>1, <2>4
<1>5. wk.reply = "text" /\ wk.flow = TRUE
  <2>1. wk.reply \in {"text", "prompt"}
    BY <1>3 DEF Works
  <2>2. QED
    BY <1>3, <2>1 DEF WorkOK
<1>6. ASSUME NEW s \in {"reply", "order"}, NEW after \in Works, Commits(w, new, {"data"}, s, after),
             after.call <= Len(demands), after.reply = "text", after.flow = TRUE,
             after.turn = wk.turn, NEW n, n = [after EXCEPT !.row = new],
             s = "order" => after.call >= 1 /\ after.make # {}
      PROVE  /\ TypeInv' /\ Alters(w, s, n, new, Changed(old, new)) /\ n.call = after.call
             /\ n.make = after.make
             /\ "data" \in stale[w] => "data" \in blind'
  <2>1. /\ n \in Works /\ n.row = new /\ n.flow = TRUE /\ n.turn = wk.turn /\ n.reply = "text"
        /\ n.call = after.call /\ n.make = after.make
    BY <1>4, <1>6 DEF Works
  <2>2. WorkOK(s, n)
    BY <1>3, <1>4, <1>6, <2>1, Bounds DEF WorkOK
  <2>3. Half(s, n) = Half(pc[w], work[w])
    BY <1>2, <1>6, <2>1 DEF Half
  <2>4. pc[w] \notin {"idle", "open"} /\ s \in Stages \ {"idle"}
    BY <1>2 DEF Stages
  <2>5. old = work[w].row /\ new.data.intent <= Len(demands)
    BY <1>1, <1>3, <1>4
  <2>6. /\ TypeInv' /\ Alters(w, s, n, new, Changed(old, new))
        /\ blind' = blind \union (stale[w] \intersect {"data"})
    BY <1>2, <1>4, <1>6, <2>2, <2>3, <2>4, <2>5, CommitsAlters, ZenonT(30)
  <2>7. QED
    BY <2>1, <2>6
<1>7. CASE call = 0
  <2>1. Commits(w, new, {"data"}, "reply", wk)
    BY <1>2, <1>7
  <2>2. PICK n : n = [wk EXCEPT !.row = new]
    OBVIOUS
  <2>3. wk.call <= Len(demands)
    BY <1>3 DEF CallOK
  <2>4. QED
    BY <1>3, <1>4, <1>5, <1>6, <2>1, <2>2, <2>3
<1>8. CASE call # 0
  <2>1. PICK make, after : make = demands[call] /\ after = [wk EXCEPT !.call = call, !.make = make]
    OBVIOUS
  <2>2. Commits(w, new, {"data"}, "order", after)
    BY <1>2, <1>8, <2>1
  <2>3. call >= 1 /\ call \in 1..Len(demands)
    BY <1>3, <1>8, Bounds
  <2>4. make # {} /\ make \subseteq Goods
    <3>1. demands \in Seq((SUBSET Goods) \ {{}})
      BY DEF TypeInv, DataOK
    <3>2. QED
      BY <2>1, <2>3, <3>1
  <2>5. /\ after \in Works /\ after.call = call /\ after.make = make /\ after.reply = "text"
        /\ after.flow = TRUE /\ after.turn = wk.turn
    BY <1>3, <1>5, <2>1, <2>4 DEF Works
  <2>6. PICK n : n = [after EXCEPT !.row = new]
    OBVIOUS
  <2>7. /\ TypeInv' /\ Alters(w, "order", n, new, Changed(old, new)) /\ n.call = call
        /\ n.make = make /\ ("data" \in stale[w] => "data" \in blind')
    BY <1>3, <1>6, <2>2, <2>3, <2>4, <2>5, <2>6
  <2>8. QED
    BY <1>1, <1>4, <2>1, <2>3, <2>7
<1>9. QED
  BY <1>7, <1>8

LEMMA ActsOutsideStep ==
    ASSUME TypeInv, NEW w \in Workers, ActsOutside(w)
    PROVE  /\ TypeInv'
           /\ \E n, new, changed :
                 /\ Alters(w, "reply", n, new, changed)
                 /\ new.data.intent \in {0, work[w].row.data.intent}
                 /\ "data" \in changed /\ "data" \in stale[w] => "data" \in blind'
<1>1. PICK wk, old : wk = work[w] /\ old = work[w].row
  OBVIOUS
<1>2. /\ pc[w] = "act"
      /\ UNCHANGED <<log, customer, orders, demands, told, counters, halved>>
  BY DEF ActsOutside, Acting
<1>3. PICK flow \in Flows, cart \in BOOLEAN :
         LET new == IF wk.kind = "menu" THEN [old EXCEPT !.flow = "screen"]
                    ELSE [old EXCEPT !.flow = flow, !.data.cart = cart,
                             !.data.intent = IF flow = "profile_collect" THEN 0 ELSE @]
         IN Commits(w, new, Changed(old, new) \intersect {"data"}, "reply", wk)
  BY <1>1 DEF ActsOutside
<1>3a. PICK new :
         /\ new = IF wk.kind = "menu" THEN [old EXCEPT !.flow = "screen"]
                  ELSE [old EXCEPT !.flow = flow, !.data.cart = cart,
                           !.data.intent = IF flow = "profile_collect" THEN 0 ELSE @]
         /\ Commits(w, new, Changed(old, new) \intersect {"data"}, "reply", wk)
  BY <1>3
<1>4. /\ wk \in Works /\ WorkOK("act", wk) /\ old \in Rows /\ CallOK(wk, Len(demands))
      /\ Len(demands) \in Nat /\ old.data.intent <= Len(demands) /\ old.data.intent \in 0..MaxDemands
  <2>1. /\ wk \in Works /\ WorkOK("act", wk) /\ old \in Rows /\ CallOK(wk, Len(demands))
        /\ Len(demands) \in Nat /\ old.data.intent <= Len(demands)
    BY <1>1, <1>2, Opened
  <2>2. old.data.intent \in 0..MaxDemands
    BY <2>1 DEF Rows, Data
  <2>3. QED
    BY <2>1, <2>2
<1>5. /\ new \in Rows /\ new.memory = old.memory /\ new.started = old.started
      /\ new.expired = old.expired /\ new.data.intent \in {0, old.data.intent}
  <2>1. CASE wk.kind = "menu"
    <3>1. new = [old EXCEPT !.flow = "screen"]
      BY <1>3a, <2>1
    <3>2. QED
      BY <1>4, <3>1 DEF Rows, Flows, Data
  <2>2. CASE wk.kind # "menu"
    <3>1. PICK intent : intent = IF flow = "profile_collect" THEN 0 ELSE old.data.intent
      OBVIOUS
    <3>2. intent \in {0, old.data.intent} /\ intent \in 0..MaxDemands
      BY <1>4, <3>1, Bounds
    <3>3. new = [old EXCEPT !.flow = flow, !.data.cart = cart, !.data.intent = intent]
      <4>1. new = [old EXCEPT !.flow = flow, !.data.cart = cart,
                              !.data.intent = IF flow = "profile_collect" THEN 0 ELSE @]
        BY <1>3a, <2>2
      <4>2. QED
        BY <1>4, <3>1, <4>1 DEF Rows, Data
    <3>4. /\ new \in Rows /\ new.memory = old.memory /\ new.started = old.started
          /\ new.expired = old.expired /\ new.data.intent = intent
      BY <1>4, <3>2, <3>3 DEF Rows, Data
    <3>5. QED
      BY <3>2, <3>4
  <2>3. QED
    BY <2>1, <2>2
<1>6. wk.reply = "text"
  <2>1. wk.reply \in {"text", "prompt"}
    BY <1>4 DEF Works
  <2>2. QED
    BY <1>4, <2>1 DEF WorkOK
<1>7. PICK n : n = [wk EXCEPT !.row = new]
  OBVIOUS
<1>8. /\ n \in Works /\ n.row = new /\ n.flow = wk.flow /\ n.turn = wk.turn /\ n.reply = wk.reply
  BY <1>4, <1>5, <1>7 DEF Works
<1>9. WorkOK("reply", n)
  BY <1>4, <1>5, <1>6, <1>8, Bounds DEF WorkOK
<1>10. Half("reply", n) = Half(pc[w], work[w])
  BY <1>2 DEF Half
<1>11. PICK changed, relied : changed = Changed(old, new) /\ relied = changed \intersect {"data"}
  OBVIOUS
<1>12. /\ TypeInv' /\ Alters(w, "reply", n, new, changed)
       /\ blind' = blind \union (stale[w] \intersect relied)
  <2>1. pc[w] \notin {"idle", "open"} /\ "reply" \in Stages \ {"idle"}
    BY <1>2 DEF Stages
  <2>2. old = work[w].row /\ new.data.intent <= Len(demands) /\ wk.call <= Len(demands)
    BY <1>1, <1>4, <1>5 DEF CallOK
  <2>3. Commits(w, new, relied, "reply", wk)
    BY <1>3a, <1>11
  <2>4. new.memory = old.memory /\ new.started = old.started /\ new.expired = old.expired
    BY <1>5
  <2>5. /\ TypeInv' /\ Alters(w, "reply", n, new, Changed(old, new))
        /\ blind' = blind \union (stale[w] \intersect relied)
    BY <1>2, <1>4, <1>5, <1>7, <1>9, <1>10, <2>1, <2>2, <2>3, <2>4, CommitsAlters, ZenonT(60)
  <2>6. QED
    BY <1>11, <2>5
<1>13. QED
  BY <1>1, <1>5, <1>11, <1>12

LEMMA AnswersFormStep ==
    ASSUME TypeInv, NEW w \in Workers, AnswersForm(w)
    PROVE  /\ TypeInv'
           /\ \/ Glances(w) /\ pc' = [pc EXCEPT ![w] = "reply"]
              \/ \E n, new, changed :
                    /\ Alters(w, "reply", n, new, changed)
                    /\ new.data.intent = work[w].row.data.intent
                    /\ "data" \in stale[w] => "data" \in blind'
<1>1. PICK wk, old : wk = work[w] /\ old = work[w].row
  OBVIOUS
<1>2. /\ pc[w] = "act" /\ Goes(w, "reply", wk)
      /\ UNCHANGED <<log, customer, orders, demands, told, scene, sent, expiries, faults>>
  BY <1>1 DEF AnswersForm, Acting, counters
<1>3. /\ wk \in Works /\ WorkOK("act", wk) /\ old \in Rows /\ CallOK(wk, Len(demands))
      /\ Len(demands) \in Nat /\ old.data.intent <= Len(demands) /\ session \in Rows
      /\ session # None /\ old # None
  BY <1>1, <1>2, Opened
<1>4. wk.reply = "text"
  <2>1. wk.reply \in {"text", "prompt"}
    BY <1>3 DEF Works
  <2>2. QED
    BY <1>3, <2>1 DEF WorkOK
<1>5. WorkOK("reply", wk) /\ Half("reply", wk) = Half(pc[w], work[w])
  BY <1>2, <1>3, <1>4 DEF WorkOK, Half
<1>6. Moves(w, "reply", wk) /\ "reply" \in Stages
  BY <1>2, GoesMoves DEF Stages
<1>7. CASE UNCHANGED <<session, history>>
  <2>1. UNCHANGED <<session, stale, blind, halved>>
    BY <1>7 DEF history
  <2>2. DataOK'
    BY <1>2, <2>1, SameData, StaleTyped
  <2>3. Reads(w, wk)
    BY <1>1, <1>2, <2>1 DEF Reads
  <2>4. TypeInv' /\ Glances(w)
    BY <1>2, <1>3, <1>5, <1>6, <2>2, <2>3, ReadsType DEF Glances
  <2>5. QED
    BY <1>6, <2>4 DEF Moves
<1>8. CASE /\ session' = [session EXCEPT !.data = work[w].row.data]
           /\ Misses(w, "reply", {"data"})
           /\ blind' = blind \union (stale[w] \intersect {"data"})
           /\ UNCHANGED halved
  <2>1. session' = [session EXCEPT !.data = old.data] /\ old.data \in Data
    BY <1>1, <1>3, <1>8 DEF Rows
  <2>2. /\ session' \in Rows /\ session'.memory = session.memory /\ session'.flow = session.flow
        /\ session'.data = old.data /\ session'.started = session.started
        /\ session'.expired = session.expired
    BY <1>3, <2>1 DEF Rows
  <2>3. Writes(w, "reply", old, {"data"})
    BY <1>1, <1>3, <1>8, <2>2 DEF Writes
  <2>4. TypeInv'
    <3>1. log' \in Seq(Entries)
      BY <1>2 DEF TypeInv, DataOK
    <3>2. PICK changed : changed = {"data"}
      OBVIOUS
    <3>3. UNCHANGED <<customer, orders, demands, told, counters, halved>>
      BY <1>2, <1>8 DEF counters
    <3>4. blind' = blind \union (stale[w] \intersect changed) /\ Writes(w, "reply", old, changed)
      BY <1>8, <2>3, <3>2
    <3>5. QED
      BY <1>3, <1>5, <1>6, <3>1, <3>3, <3>4, WritesType
  <2>5. Alters(w, "reply", wk, old, {"data"})
    BY <1>1, <1>2, <1>3, <1>5, <1>6, <1>8, <2>3 DEF Alters
  <2>6. QED
    BY <1>1, <1>8, <2>4, <2>5
<1>9. QED
  BY <1>7, <1>8 DEF AnswersForm

LEMMA TrimmedType ==
    ASSUME NEW m \in Seq(Entries)
    PROVE  Trimmed(m) \in Seq(Entries)
<1>1. PICK k : k = 2 * Window /\ k \in Nat
  BY Bounds
<1>2. CASE Len(m) <= k
  BY <1>1, <1>2 DEF Trimmed, LastOf
<1>3. CASE ~(Len(m) <= k)
  <2>1. Trimmed(m) = SubSeq(m, Len(m) - k + 1, Len(m))
    BY <1>1, <1>3 DEF Trimmed, LastOf
  <2>2. PICK i, j : i = Len(m) - k + 1 /\ j = Len(m)
    OBVIOUS
  <2>3. Len(m) \in Nat /\ i \in 1..Len(m) + 1 /\ j \in Nat /\ j <= Len(m)
    BY <1>1, <1>3, <2>2
  <2>4. SubSeq(m, i, j) \in Seq(Entries)
    BY <2>3
  <2>5. QED
    BY <2>1, <2>2, <2>4
<1>4. QED
  BY <1>2, <1>3

\* w records a message of its turn, in the log and at the end of the window it holds.
Notes(w, role, s) ==
    LET entry == [turn |-> work[w].turn, role |-> role]
    IN  \E new, changed :
          /\ Writes(w, s, new, changed) /\ changed \subseteq {"memory"}
          /\ entry \in Entries /\ log' = Append(log, entry)
          /\ new.memory = Trimmed(Append(work[w].row.memory, entry))
          /\ "memory" \in changed <=> new.memory # work[w].row.memory
          /\ blind' = blind \union (stale[w] \intersect {"memory"})
          /\ s = "idle" => Moves(w, "idle", Idle)
          /\ s # "idle" => Moves(w, s, [work[w] EXCEPT !.row = new])

LEMMA RecordsStep ==
    ASSUME TypeInv, NEW w \in Workers, pc[w] \in {"user", "reply"}, NEW role \in {"user", "assistant"},
           NEW s \in {"act", "reply", "idle"}, s = "act" <=> work[w].flow = TRUE /\ s # "idle",
           Records(w, role, s), UNCHANGED <<customer, orders, demands, told, counters, halved>>
    PROVE  TypeInv' /\ Notes(w, role, s)
<1>1. PICK wk, old, entry, m :
         /\ wk = work[w] /\ old = work[w].row
         /\ entry = [turn |-> work[w].turn, role |-> role]
         /\ m = Trimmed(Append(work[w].row.memory, [turn |-> work[w].turn, role |-> role]))
  OBVIOUS
<1>2. /\ wk \in Works /\ WorkOK(pc[w], wk) /\ old \in Rows /\ CallOK(wk, Len(demands))
      /\ Len(demands) \in Nat /\ old.data.intent <= Len(demands) /\ session \in Rows
      /\ session # None /\ old # None /\ wk.turn \in 1..MaxMessages
  BY <1>1, Opened
<1>3. entry \in Entries /\ log \in Seq(Entries)
  BY <1>1, <1>2 DEF Entries, TypeInv, DataOK
<1>4. m \in Seq(Entries) /\ m = Trimmed(Append(old.memory, entry))
  <2>1. old.memory \in Seq(Entries)
    BY <1>2 DEF Rows
  <2>2. Append(old.memory, entry) \in Seq(Entries)
    BY <1>3, <2>1
  <2>3. QED
    BY <1>1, <2>2, TrimmedType
<1>5. PICK new : new = [old EXCEPT !.memory = m]
  OBVIOUS
<1>6. /\ new \in Rows /\ new.memory = m /\ new.flow = old.flow /\ new.data = old.data
      /\ new.started = old.started /\ new.expired = old.expired
  BY <1>2, <1>4, <1>5 DEF Rows
<1>7. log' = Append(log, entry) /\ Commits(w, new, {"memory"}, s, wk)
  BY <1>1, <1>5 DEF Records
<1>8. PICK n : n = [wk EXCEPT !.row = new]
  OBVIOUS
<1>9. /\ n \in Works /\ n.row = new /\ n.flow = wk.flow /\ n.turn = wk.turn /\ n.reply = wk.reply
      /\ n.call = wk.call
  BY <1>2, <1>6, <1>8 DEF Works
<1>10. PICK changed, relied : changed = Changed(old, new) /\ relied = {"memory"}
  OBVIOUS
<1>11. /\ Writes(w, s, new, changed) /\ blind' = blind \union (stale[w] \intersect relied)
       /\ Goes(w, s, n)
  <2>1. old = work[w].row /\ Commits(w, new, relied, s, wk)
    BY <1>1, <1>7, <1>10
  <2>2. new.started = work[w].row.started /\ work[w].row \in Rows
    BY <1>1, <1>2, <1>6
  <2>3. new.expired = work[w].row.expired
    BY <1>1, <1>6
  <2>4. /\ Writes(w, s, new, Changed(work[w].row, new))
        /\ blind' = blind \union (stale[w] \intersect relied)
        /\ Goes(w, s, [wk EXCEPT !.row = new])
    BY <1>2, <1>6, <2>1, <2>2, <2>3, CommitsWrites
  <2>5. QED
    BY <1>8, <1>10, <2>1, <2>4
<1>12. changed \subseteq {"memory"} /\ ("memory" \in changed <=> new.memory # old.memory)
  <2>1. /\ "memory" \in changed <=> old.memory # new.memory
        /\ "flow" \notin changed /\ "data" \notin changed /\ changed \subseteq {"memory", "flow", "data"}
    BY <1>2, <1>6, <1>10, <1>11, ChangedColumns DEF Writes
  <2>2. QED
    BY <2>1
<1>13. /\ s = "idle" => Moves(w, "idle", Idle)
       /\ s # "idle" => Moves(w, s, n)
  BY <1>11, GoesMoves
<1>14. Notes(w, role, s)
  BY <1>1, <1>3, <1>4, <1>6, <1>7, <1>8, <1>10, <1>11, <1>12, <1>13 DEF Notes
<1>15. log' \in Seq(Entries)
  BY <1>3, <1>7
<1>16. new.data.intent <= Len(demands)
  BY <1>2, <1>6
<1>17. s \in Stages
  BY DEF Stages
<1>18. TypeInv'
  <2>1. CASE s = "idle"
    <3>1. WorkOK(s, Idle) /\ CallOK(Idle, Len(demands)) /\ Moves(w, s, Idle) /\ Idle \in Works
      BY <1>2, <1>13, <2>1, IdleOK
    <3>2. QED
      BY <1>11, <1>15, <1>16, <1>17, <3>1, WritesType
  <2>2. CASE s # "idle"
    <3>1. WorkOK(s, n)
      <4>1. wk.flow = TRUE => s = "act"
        BY <1>1, <2>2
      <4>2. wk.flow = FALSE => s = "reply"
        BY <1>1, <2>2
      <4>3. wk.flow \in BOOLEAN
        BY <1>2 DEF Works
      <4>4. n.reply \in {"text", "prompt"}
        BY <1>9 DEF Works
      <4>5. n.turn >= 1 /\ n.row # None
        BY <1>2, <1>6, <1>9, Bounds
      <4>6. n.reply = "prompt" => wk.flow = FALSE /\ n.row.flow = "profile_collect"
                                  /\ n.row.data.intent = n.call
        BY <1>1, <1>2, <1>6, <1>9 DEF WorkOK
      <4>7. QED
        BY <1>9, <2>2, <4>1, <4>2, <4>3, <4>4, <4>5, <4>6 DEF WorkOK
    <3>2. CallOK(n, Len(demands))
      BY <1>2, <1>9, <1>16 DEF CallOK
    <3>3. QED
      BY <1>9, <1>11, <1>13, <1>15, <1>16, <1>17, <2>2, <3>1, <3>2, WritesType
  <2>3. QED
    BY <2>1, <2>2
<1>19. QED
  BY <1>14, <1>18

LEMMA RecordsUserStep ==
    ASSUME TypeInv, NEW w \in Workers, RecordsUser(w)
    PROVE  /\ TypeInv' /\ pc[w] = "user"
           /\ UNCHANGED <<customer, orders, demands, told, counters, halved>>
           /\ \E s \in {"act", "reply"} : Notes(w, "user", s) /\ (s = "act" <=> work[w].flow = TRUE)
<1>1. PICK s : s = IF work[w].flow THEN "act" ELSE "reply"
  OBVIOUS
<1>2. /\ pc[w] = "user" /\ Records(w, "user", s)
      /\ UNCHANGED <<customer, orders, demands, told, counters, halved>>
  BY <1>1 DEF RecordsUser
<1>3. work[w].flow \in BOOLEAN
  BY Holds DEF Works
<1>4. s \in {"act", "reply"} /\ (s = "act" <=> work[w].flow = TRUE)
  BY <1>1, <1>3
<1>5. TypeInv' /\ Notes(w, "user", s)
  BY <1>2, <1>4, RecordsStep
<1>6. QED
  BY <1>2, <1>4, <1>5

LEMMA RecordsReplyStep ==
    ASSUME TypeInv, NEW w \in Workers, RecordsReply(w)
    PROVE  /\ TypeInv' /\ pc[w] = "reply" /\ Notes(w, "assistant", "idle")
           /\ UNCHANGED <<customer, orders, demands, told, counters, halved>>
<1>1. /\ pc[w] = "reply" /\ Records(w, "assistant", "idle")
      /\ UNCHANGED <<customer, orders, demands, told, counters, halved>>
  BY DEF RecordsReply
<1>2. QED
  BY <1>1, RecordsStep

LEMMA ExpiresStep ==
    ASSUME TypeInv, Expires
    PROVE  /\ TypeInv'
           /\ session \in Rows /\ session' \in Rows /\ session'.memory = session.memory
           /\ session'.started = session.started /\ session'.data = session.data
<1>1. /\ session # None /\ expiries < MaxExpiries /\ expiries' = expiries + 1
      /\ session' = [session EXCEPT !.expired = TRUE]
      /\ UNCHANGED <<log, customer, orders, demands, told, pc, work, scene, sent, faults,
                     stale, blind, halved>>
  BY DEF Expires, history
<1>2. session \in Rows
  BY <1>1 DEF TypeInv, DataOK
<1>3. /\ session' \in Rows /\ session'.memory = session.memory
      /\ session'.started = session.started /\ session'.data = session.data
  BY <1>1, <1>2 DEF Rows
<1>4. expiries' \in 0..MaxExpiries
  BY <1>1, Bounds DEF TypeInv, DataOK
<1>5. DataOK'
  BY <1>1, <1>3, <1>4 DEF TypeInv, DataOK
<1>6. session' # None
  BY <1>3, Bounds
<1>7. QED
  BY <1>1, <1>2, <1>3, <1>5, <1>6 DEF TypeInv, WorkOK, CallOK

LEMMA StutterKeeps ==
    ASSUME TypeInv, UNCHANGED vars
    PROVE  TypeInv'
<1>1. UNCHANGED <<scene, session, log, customer, orders, demands, told, pc, work, sent, expiries,
                  faults, stale, blind, halved>>
  BY DEF vars
<1>2. DataOK'
  BY <1>1 DEF TypeInv, DataOK
<1>3. QED
  BY <1>1, <1>2 DEF TypeInv, WorkOK, CallOK

LEMMA TypeInit == Init => TypeInv
<1> SUFFICES ASSUME Init PROVE TypeInv
  OBVIOUS
<1>1. session = None /\ log = << >> /\ orders = << >> /\ demands = << >> /\ told = {} /\ blind = {}
      /\ scene \in Scenes /\ customer = FALSE /\ sent = 0 /\ expiries = 0 /\ faults = 0
      /\ halved = FALSE
  BY DEF Init
<1>2. Len(demands) = 0 /\ demands \in Seq((SUBSET Goods) \ {{}}) /\ log \in Seq(Entries)
      /\ orders \in Seq(Orders)
  BY <1>1
<1>3. stale \in [Workers -> SUBSET Columns]
  BY DEF Init
<1>4. DataOK
  <2>1. Len(demands) <= MaxDemands /\ sent \in 0..MaxMessages /\ expiries \in 0..MaxExpiries
        /\ faults \in 0..MaxFaults
    BY <1>1, <1>2, Bounds
  <2>2. told \subseteq 1..Len(demands) /\ blind \subseteq Columns /\ session = None
    BY <1>1
  <2>3. scene \in Scenes /\ customer \in BOOLEAN /\ halved \in BOOLEAN
    BY <1>1
  <2>4. QED
    BY <1>2, <1>3, <2>1, <2>2, <2>3 DEF DataOK
<1>5. pc \in [Workers -> Stages] /\ work \in [Workers -> Works]
  BY IdleOK DEF Init, Stages
<1>6. \A w \in Workers : pc[w] = "idle" /\ work[w] = Idle
  BY DEF Init
<1>7. \A w \in Workers : WorkOK(pc[w], work[w]) /\ CallOK(work[w], Len(demands))
  BY <1>2, <1>6, IdleOK
<1>8. \A w \in Workers : work[w].row = None
  BY <1>6 DEF Idle
<1>9. QED
  BY <1>4, <1>5, <1>7, <1>8 DEF TypeInv

LEMMA TypeNext ==
    ASSUME TypeInv, [Next]_vars
    PROVE  TypeInv'
<1>1. CASE UNCHANGED vars
  BY <1>1, StutterKeeps
<1>2. CASE Expires
  BY <1>2, ExpiresStep
<1>3. ASSUME NEW w \in Workers, Arrives(w) \/ Step(w) \/ Fails(w)
      PROVE  TypeInv'
  <2>1. CASE Arrives(w) \/ Fails(w)
    BY <2>1, ArrivesStep, FailsStep
  <2>2. CASE Creates(w) \/ Opens(w) \/ Reopens(w) \/ Thinks(w) \/ FallsBack(w)
    BY <2>2, CreatesStep, OpensStep, ReopensStep, ThinksStep, FallsBackStep
  <2>3. CASE ToolReads(w) \/ ToolOpensCart(w) \/ ToolWritesCart(w) \/ ToolCreatesOrder(w)
    BY <2>3, ToolReadsStep, ToolOpensCartStep, ToolWritesCartStep, ToolCreatesOrderStep
  <2>4. CASE Asks(w) \/ MakesOrder(w) \/ ToolLinks(w)
    BY <2>4, AsksStep, MakesOrderStep, ToolLinksStep
  <2>5. CASE CancelsForm(w) \/ AnswersForm(w) \/ CompletesForm(w) \/ ClosesForm(w) \/ ActsOutside(w)
    BY <2>5, CancelsFormStep, AnswersFormStep, CompletesFormStep, ClosesFormStep, ActsOutsideStep
  <2>6. CASE RecordsUser(w) \/ RecordsReply(w)
    BY <2>6, RecordsUserStep, RecordsReplyStep
  <2>7. QED
    BY <1>3, <2>1, <2>2, <2>3, <2>4, <2>5, <2>6 DEF Step
<1>4. QED
  BY <1>1, <1>2, <1>3 DEF Next

LEMMA TypesHold == Spec => []TypeInv
<1>1. TypeInv /\ [Next]_vars => TypeInv'
  BY TypeNext
<1>2. QED
  BY TypeInit, <1>1, PTL DEF Spec

\* Every reachable state is well typed: what a handler holds is always a row
\* that could be in the table, and a call it carries out has been made.
THEOREM AssistantTypeCorrect == Spec => []TypeOK
<1>1. TypeInv => TypeOK
  BY DEF TypeInv, DataOK, TypeOK
<1>2. QED
  BY TypesHold, <1>1, PTL

----------------------------------------------------------------------------
(***************************************************************************)
(* Fresh copies.                                                           *)
(***************************************************************************)

\* What w has not missed of the row is as in the table.
FreshOK(s, row, missed) ==
    /\ missed \intersect {"started", "expired"} # {} => "memory" \in missed
    /\ s # "idle" /\ row # None =>
          /\ "memory" \notin missed => row.memory = session.memory
          /\ "flow" \notin missed => row.flow = session.flow
          /\ "data" \notin missed => row.data = session.data
          /\ "started" \notin missed => row.started = session.started
          /\ "expired" \notin missed => row.expired = session.expired

\* While the row is expired nobody has got beyond selecting it.
ExpiredOK ==
    session # None /\ session.expired = TRUE =>
        \A w \in Workers : /\ pc[w] \in {"idle", "open"}
                           /\ pc[w] = "open" => work[w].row # None /\ work[w].row.expired = TRUE

FreshInv == ExpiredOK /\ \A w \in Workers : FreshOK(pc[w], work[w].row, stale[w])

LEMMA FreshFrame ==
    ASSUME TypeInv, FreshInv, NEW w \in Workers, NEW s, NEW n \in Works, Moves(w, s, n),
           NEW changed, changed \subseteq {"memory", "flow", "data"},
           \A v \in Workers \ {w} : pc[v] # "idle" =>
              /\ stale'[v] = stale[v] \union changed
              /\ work[v].row # None => "memory" \in changed \/ session'.memory = session.memory
              /\ work[v].row # None => "flow" \in changed \/ session'.flow = session.flow
              /\ work[v].row # None => "data" \in changed \/ session'.data = session.data
              /\ work[v].row # None => session'.started = session.started
              /\ work[v].row # None => session'.expired = session.expired,
           \A v \in Workers \ {w} : pc[v] = "idle" => stale'[v] \in {stale[v], {}},
           NEW missed, missed = stale'[w], NEW row, row = n.row, FreshOK(s, row, missed)'
    PROVE  \A v \in Workers : FreshOK(pc[v], work[v].row, stale[v])'
<1> TAKE v \in Workers
<1>1. CASE v = w
  <2>1. pc'[v] = s /\ work'[v] = n
    BY <1>1 DEF Moves, TypeInv
  <2>2. QED
    BY <1>1, <2>1 DEF FreshOK
<1>2. CASE v # w
  <2>1. pc'[v] = pc[v] /\ work'[v] = work[v]
    BY <1>2 DEF Moves, TypeInv
  <2>2. FreshOK(pc[v], work[v].row, stale[v])
    BY DEF FreshInv
  <2>3. CASE pc[v] = "idle"
    <3>1. stale'[v] \intersect {"started", "expired"} # {} => "memory" \in stale'[v]
      BY <1>2, <2>2, <2>3 DEF FreshOK
    <3>2. pc'[v] = "idle"
      BY <2>1, <2>3
    <3>3. QED
      BY <3>1, <3>2 DEF FreshOK
  <2>4. CASE pc[v] # "idle"
    <3>1. stale'[v] = stale[v] \union changed
      BY <1>2, <2>4
    <3>2. CASE work[v].row = None
      BY <2>1, <2>2, <3>1, <3>2 DEF FreshOK
    <3>3. CASE work[v].row # None
      <4>1. "expired" \in stale'[v] <=> "expired" \in stale[v]
        BY <3>1
      <4>2. "started" \in stale'[v] <=> "started" \in stale[v]
        BY <3>1
      <4>3. "expired" \notin stale'[v] => work[v].row.expired = session'.expired
        BY <1>2, <2>2, <2>4, <3>3, <4>1 DEF FreshOK
      <4>4. /\ "memory" \notin stale'[v] => work[v].row.memory = session'.memory
            /\ "flow" \notin stale'[v] => work[v].row.flow = session'.flow
            /\ "data" \notin stale'[v] => work[v].row.data = session'.data
            /\ "started" \notin stale'[v] => work[v].row.started = session'.started
        BY <1>2, <2>2, <2>4, <3>1, <3>3 DEF FreshOK
      <4>5. stale'[v] \intersect {"started", "expired"} # {} => "memory" \in stale'[v]
        BY <2>2, <3>1, <4>1, <4>2 DEF FreshOK
      <4>6. QED
        BY <2>1, <4>3, <4>4, <4>5 DEF FreshOK
    <3>4. QED
      BY <3>2, <3>3
  <2>5. QED
    BY <2>3, <2>4
<1>3. QED
  BY <1>1, <1>2

\* Whatever w does, it reads, makes or resets the row, writes other columns
\* than the memory, or records a message.
LEMMA StepShapes ==
    ASSUME TypeInv, NEW w \in Workers, Step(w)
    PROVE  /\ pc[w] # "idle"
           /\ \/ Glances(w) \/ Makes(w) \/ Resets(w)
              \/ \E s, n, new, changed : Alters(w, s, n, new, changed)
              \/ /\ RecordsUser(w) \/ RecordsReply(w)
                 /\ \E s : \E role \in {"user", "assistant"} : Notes(w, role, s)
<1>1. pc[w] # "idle"
  <2>1. CASE Creates(w) \/ Opens(w) \/ Reopens(w) \/ Thinks(w) \/ FallsBack(w)
    BY <2>1, Zenon DEF Creates, Opens, Reopens, Thinks, FallsBack
  <2>2. CASE ToolReads(w) \/ ToolOpensCart(w) \/ ToolWritesCart(w) \/ ToolCreatesOrder(w)
             \/ ToolLinks(w)
    BY <2>2, Zenon DEF ToolReads, ToolOpensCart, ToolWritesCart, ToolCreatesOrder, ToolLinks, Calls
  <2>3. CASE Asks(w) \/ MakesOrder(w) \/ RecordsUser(w) \/ RecordsReply(w) \/ ClosesForm(w)
    BY <2>3, Zenon DEF Asks, MakesOrder, RecordsUser, RecordsReply, ClosesForm
  <2>4. CASE CancelsForm(w) \/ AnswersForm(w) \/ CompletesForm(w) \/ ActsOutside(w)
    BY <2>4, Zenon DEF CancelsForm, AnswersForm, CompletesForm, ActsOutside, Acting
  <2>5. QED
    BY <2>1, <2>2, <2>3, <2>4, Zenon DEF Step
<1>2. CASE Creates(w) \/ Opens(w) \/ Reopens(w) \/ Thinks(w) \/ FallsBack(w)
  BY <1>1, <1>2, CreatesStep, OpensStep, ReopensStep, ThinksStep, FallsBackStep, Zenon
<1>3. CASE ToolReads(w) \/ ToolOpensCart(w) \/ ToolCreatesOrder(w) \/ ToolLinks(w)
           \/ MakesOrder(w) \/ CompletesForm(w)
  BY <1>1, <1>3, ToolReadsStep, ToolOpensCartStep, ToolCreatesOrderStep, ToolLinksStep,
     MakesOrderStep, CompletesFormStep, Zenon
<1>4. CASE ToolWritesCart(w) \/ Asks(w) \/ CancelsForm(w)
  BY <1>1, <1>4, ToolWritesCartStep, AsksStep, CancelsFormStep, Zenon
<1>5. CASE AnswersForm(w) \/ ClosesForm(w) \/ ActsOutside(w)
  BY <1>1, <1>5, AnswersFormStep, ClosesFormStep, ActsOutsideStep, Zenon
<1>6. CASE RecordsUser(w) \/ RecordsReply(w)
  BY <1>1, <1>6, RecordsUserStep, RecordsReplyStep, Zenon
<1>7. QED
  BY <1>2, <1>3, <1>4, <1>5, <1>6, Zenon DEF Step

LEMMA FreshReads ==
    ASSUME TypeInv, FreshInv, NEW w \in Workers, NEW s, NEW n \in Works, Reads(w, n), Moves(w, s, n),
           s = "idle" \/ pc[w] # "idle" \/ n.row = session
    PROVE  \A v \in Workers : FreshOK(pc[v], work[v].row, stale[v])'
<1>1. PICK missed, row : missed = stale'[w] /\ row = n.row
  OBVIOUS
<1>2. stale[w] \intersect {"started", "expired"} # {} => "memory" \in stale[w]
  BY DEF FreshInv, FreshOK
<1>3. stale'[w] = stale[w] \/ stale'[w] = {}
  BY DEF Reads
<1>4. session' = session
  BY DEF Reads
<1>5. FreshOK(s, row, missed)'
  <2>1. missed \intersect {"started", "expired"} # {} => "memory" \in missed
    BY <1>1, <1>2, <1>3
  <2>2. CASE s = "idle" \/ row = None
    BY <2>1, <2>2 DEF FreshOK
  <2>3. CASE row = session
    BY <1>4, <2>1, <2>3 DEF FreshOK
  <2>4. CASE pc[w] # "idle" /\ row = work[w].row /\ stale'[w] = stale[w]
    <3>1. FreshOK(pc[w], work[w].row, stale[w])
      BY DEF FreshInv
    <3>2. QED
      BY <1>1, <1>4, <2>1, <2>4, <3>1 DEF FreshOK
  <2>5. QED
    BY <1>1, <2>2, <2>3, <2>4 DEF Reads
<1>6. \A v \in Workers \ {w} : pc[v] # "idle" =>
              /\ stale'[v] = stale[v] \union {}
              /\ work[v].row # None => "memory" \in {} \/ session'.memory = session.memory
              /\ work[v].row # None => "flow" \in {} \/ session'.flow = session.flow
              /\ work[v].row # None => "data" \in {} \/ session'.data = session.data
              /\ work[v].row # None => session'.started = session.started
              /\ work[v].row # None => session'.expired = session.expired
  BY <1>4 DEF Reads
<1>7. \A v \in Workers \ {w} : pc[v] = "idle" => stale'[v] \in {stale[v], {}}
  BY DEF Reads
<1>8. QED
  BY <1>1, <1>5, <1>6, <1>7, FreshFrame

LEMMA FreshWrites ==
    ASSUME TypeInv, FreshInv, NEW w \in Workers, NEW s, NEW n \in Works, NEW new, NEW changed,
           Writes(w, s, new, changed), Moves(w, s, n), pc[w] # "idle", s = "idle" \/ n.row = new
    PROVE  \A v \in Workers : FreshOK(pc[v], work[v].row, stale[v])'
<1>1. PICK missed, row : missed = stale'[w] /\ row = n.row
  OBVIOUS
<1>2. changed \subseteq {"memory", "flow", "data"}
  BY DEF Writes
<1>3. missed = IF s = "idle" THEN {} ELSE stale[w]
  BY <1>1 DEF Writes, Misses
<1>4. FreshOK(s, row, missed)'
  <2>1. FreshOK(pc[w], work[w].row, stale[w])
    BY DEF FreshInv
  <2>2. missed \intersect {"started", "expired"} # {} => "memory" \in missed
    BY <1>3, <2>1 DEF FreshOK
  <2>3. CASE s = "idle"
    BY <2>2, <2>3 DEF FreshOK
  <2>4. CASE s # "idle"
    <3>1. work[w].row # None
      BY Bounds DEF Writes
    <3>2. missed = stale[w] /\ row = new
      BY <1>1, <1>3, <2>4
    <3>3. /\ "memory" \notin missed => row.memory = session'.memory
          /\ "flow" \notin missed => row.flow = session'.flow
          /\ "data" \notin missed => row.data = session'.data
          /\ "started" \notin missed => row.started = session'.started
          /\ "expired" \notin missed => row.expired = session'.expired
      BY <2>1, <3>1, <3>2 DEF FreshOK, Writes
    <3>4. QED
      BY <2>2, <3>3 DEF FreshOK
  <2>5. QED
    BY <2>3, <2>4
<1>5. \A v \in Workers \ {w} : pc[v] # "idle" =>
              /\ stale'[v] = stale[v] \union changed
              /\ work[v].row # None => "memory" \in changed \/ session'.memory = session.memory
              /\ work[v].row # None => "flow" \in changed \/ session'.flow = session.flow
              /\ work[v].row # None => "data" \in changed \/ session'.data = session.data
              /\ work[v].row # None => session'.started = session.started
              /\ work[v].row # None => session'.expired = session.expired
  BY DEF Writes, Misses
<1>6. \A v \in Workers \ {w} : pc[v] = "idle" => stale'[v] \in {stale[v], {}}
  BY DEF Writes, Misses
<1>7. QED
  BY <1>1, <1>2, <1>4, <1>5, <1>6, FreshFrame

LEMMA FreshResets ==
    ASSUME TypeInv, NEW w \in Workers, Resets(w)
    PROVE  \A v \in Workers : FreshOK(pc[v], work[v].row, stale[v])'
<1> TAKE v \in Workers
<1>1. PICK s, n : n \in Works /\ Moves(w, s, n) /\ n.row = session'
  BY DEF Resets
<1>2. CASE v = w
  <2>1. stale'[v] = {} /\ work'[v].row = session'
    BY <1>1, <1>2 DEF Resets, Moves, TypeInv
  <2>2. QED
    BY <2>1 DEF FreshOK
<1>3. CASE v # w /\ pc[v] = "idle"
  <2>1. stale'[v] = {} /\ pc'[v] = "idle"
    BY <1>1, <1>3 DEF Resets, Moves, TypeInv
  <2>2. QED
    BY <2>1 DEF FreshOK
<1>4. CASE v # w /\ pc[v] # "idle"
  <2>1. stale'[v] = Columns
    BY <1>4 DEF Resets
  <2>2. QED
    BY <2>1 DEF FreshOK, Columns
<1>5. QED
  BY <1>2, <1>3, <1>4

LEMMA FreshMakes ==
    ASSUME TypeInv, FreshInv, NEW w \in Workers, Makes(w)
    PROVE  \A v \in Workers : FreshOK(pc[v], work[v].row, stale[v])'
<1> TAKE v \in Workers
<1>1. PICK s, n : n \in Works /\ Moves(w, s, n) /\ n.row = NewRow
  BY DEF Makes
<1>2. session' = NewRow /\ stale' = stale
  BY DEF Makes
<1>3. stale'[v] \intersect {"started", "expired"} # {} => "memory" \in stale'[v]
  BY <1>2 DEF FreshInv, FreshOK
<1>4. work'[v].row = session' \/ work'[v].row = None
  <2>1. CASE v = w
    BY <1>1, <1>2, <2>1 DEF Moves, TypeInv
  <2>2. CASE v # w
    BY <1>1, <2>2 DEF Moves, TypeInv, Makes
  <2>3. QED
    BY <2>1, <2>2
<1>5. CASE work'[v].row = None
  BY <1>3, <1>5 DEF FreshOK
<1>6. CASE work'[v].row = session'
  BY <1>3, <1>6 DEF FreshOK
<1>7. QED
  BY <1>4, <1>5, <1>6

LEMMA FreshExpires ==
    ASSUME TypeInv, FreshInv, Expires
    PROVE  FreshInv'
<1>1. \A v \in Workers : pc'[v] = "idle" /\ stale'[v] = stale[v] /\ FreshOK(pc[v], work[v].row, stale[v])
  BY DEF Expires, history, FreshInv
<1>2. \A v \in Workers : FreshOK(pc[v], work[v].row, stale[v])'
  BY <1>1 DEF FreshOK
<1>3. QED
  BY <1>1, <1>2 DEF FreshInv, ExpiredOK

LEMMA ExpiredStep ==
    ASSUME TypeInv, ExpiredOK, NEW w \in Workers, Step(w)
    PROVE  ExpiredOK'
<1> SUFFICES ASSUME session' # None, session'.expired = TRUE
             PROVE  FALSE
  BY DEF ExpiredOK
<1>1. pc[w] # "idle"
  BY StepShapes
<1>2. CASE session # None /\ session.expired = TRUE
  <2>1. pc[w] = "open" /\ work[w].row # None /\ work[w].row.expired = TRUE
    BY <1>1, <1>2 DEF ExpiredOK
  <2>2. Opens(w)
    <3>1. ~Creates(w)
      BY <2>1, Zenon DEF Creates
    <3>2. ~(Reopens(w) \/ Thinks(w) \/ FallsBack(w))
      BY <2>1, Zenon DEF Reopens, Thinks, FallsBack
    <3>3. ~(ToolReads(w) \/ ToolOpensCart(w) \/ ToolWritesCart(w) \/ ToolCreatesOrder(w) \/ ToolLinks(w))
      BY <2>1, Zenon DEF ToolReads, ToolOpensCart, ToolWritesCart, ToolCreatesOrder, ToolLinks, Calls
    <3>4. ~(Asks(w) \/ MakesOrder(w) \/ RecordsUser(w) \/ RecordsReply(w) \/ ClosesForm(w))
      BY <2>1, Zenon DEF Asks, MakesOrder, RecordsUser, RecordsReply, ClosesForm
    <3>5. ~(CancelsForm(w) \/ AnswersForm(w) \/ CompletesForm(w) \/ ActsOutside(w))
      BY <2>1, Zenon DEF CancelsForm, AnswersForm, CompletesForm, ActsOutside, Acting
    <3>6. QED
      BY <3>1, <3>2, <3>3, <3>4, <3>5, Zenon DEF Step
  <2>3. Resets(w)
    BY <2>1, <2>2, OpensStep
  <2>4. QED
    BY <2>3 DEF Resets
<1>3. CASE ~(session # None /\ session.expired = TRUE)
  <2>1. CASE Glances(w)
    BY <1>3, <2>1 DEF Glances, Reads
  <2>2. CASE Makes(w)
    BY <2>2, NewRowType DEF Makes, TypeInv
  <2>3. CASE Resets(w)
    BY <2>3 DEF Resets
  <2>4. ASSUME NEW s, NEW n, NEW new, NEW changed, Alters(w, s, n, new, changed)
        PROVE  FALSE
    BY <1>3, <2>4, Bounds DEF Alters, Writes
  <2>5. ASSUME NEW s, NEW role \in {"user", "assistant"}, Notes(w, role, s)
        PROVE  FALSE
    BY <1>3, <2>5, Bounds DEF Notes, Writes
  <2>6. QED
    BY <2>1, <2>2, <2>3, <2>4, <2>5, StepShapes
<1>4. QED
  BY <1>2, <1>3

LEMMA FreshStep ==
    ASSUME TypeInv, FreshInv, NEW w \in Workers, Step(w)
    PROVE  \A v \in Workers : FreshOK(pc[v], work[v].row, stale[v])'
<1>1. pc[w] # "idle"
  BY StepShapes
<1>2. CASE Glances(w)
  BY <1>1, <1>2, FreshReads DEF Glances
<1>3. CASE Makes(w) \/ Resets(w)
  BY <1>3, FreshMakes, FreshResets
<1>4. ASSUME NEW s, NEW n, NEW new, NEW changed, Alters(w, s, n, new, changed)
      PROVE  \A v \in Workers : FreshOK(pc[v], work[v].row, stale[v])'
  <2>1. n \in Works /\ Writes(w, s, new, changed) /\ Moves(w, s, n) /\ n.row = new
    BY <1>4 DEF Alters
  <2>2. QED
    BY <1>1, <2>1, FreshWrites
<1>5. ASSUME NEW s, NEW role \in {"user", "assistant"}, Notes(w, role, s)
      PROVE  \A v \in Workers : FreshOK(pc[v], work[v].row, stale[v])'
  <2>1. PICK new, changed :
           /\ Writes(w, s, new, changed)
           /\ s = "idle" => Moves(w, "idle", Idle)
           /\ s # "idle" => Moves(w, s, [work[w] EXCEPT !.row = new])
    BY <1>5 DEF Notes
  <2>2. CASE s = "idle"
    BY <1>1, <2>1, <2>2, IdleOK, FreshWrites
  <2>3. CASE s # "idle"
    <3>1. PICK n, m : n = [m EXCEPT !.row = new] /\ m = work[w]
      OBVIOUS
    <3>2. m \in Works /\ new \in Rows
      BY <2>1, <3>1 DEF TypeInv, Writes
    <3>3. n \in Works /\ n.row = new
      BY <3>1, <3>2 DEF Works
    <3>4. QED
      BY <1>1, <2>1, <2>3, <3>1, <3>3, FreshWrites
  <2>4. QED
    BY <2>2, <2>3
<1>6. QED
  BY <1>2, <1>3, <1>4, <1>5, StepShapes

LEMMA FreshNext ==
    ASSUME TypeInv, FreshInv, [Next]_vars
    PROVE  FreshInv'
<1>1. CASE UNCHANGED vars
  <2>1. session' = session /\ pc' = pc /\ work' = work /\ stale' = stale
    BY <1>1 DEF vars
  <2>2. QED
    BY <2>1 DEF FreshInv, FreshOK, ExpiredOK
<1>2. CASE Expires
  BY <1>2, FreshExpires
<1>3. ASSUME NEW w \in Workers, Step(w)
      PROVE  FreshInv'
  BY <1>3, FreshStep, ExpiredStep DEF FreshInv
<1>4. ASSUME NEW w \in Workers, Fails(w)
      PROVE  FreshInv'
  <2>1. Reads(w, Idle) /\ Moves(w, "idle", Idle)
    BY <1>4, FailsStep
  <2>2. \A v \in Workers : FreshOK(pc[v], work[v].row, stale[v])'
    BY <2>1, IdleOK, FreshReads
  <2>3. ExpiredOK'
    BY <2>1 DEF FreshInv, ExpiredOK, Reads, Moves, TypeInv
  <2>4. QED
    BY <2>2, <2>3 DEF FreshInv
<1>5. ASSUME NEW w \in Workers, Arrives(w)
      PROVE  FreshInv'
  <2>1. CASE UNCHANGED <<pc, work, session, stale>>
    BY <2>1 DEF FreshInv, FreshOK, ExpiredOK
  <2>2. ASSUME NEW n \in Works, Reads(w, n), Moves(w, "open", n), n.row = session
        PROVE  FreshInv'
    <3>1. \A v \in Workers : FreshOK(pc[v], work[v].row, stale[v])'
      BY <2>2, FreshReads
    <3>2. ExpiredOK'
      BY <2>2 DEF FreshInv, ExpiredOK, Reads, Moves, TypeInv
    <3>3. QED
      BY <3>1, <3>2 DEF FreshInv
  <2>3. QED
    BY <1>5, <2>1, <2>2, ArrivesStep
<1>6. QED
  BY <1>1, <1>2, <1>3, <1>4, <1>5 DEF Next

LEMMA FreshHolds == Spec => []FreshInv
<1>1. Init => FreshInv
  BY DEF Init, FreshInv, FreshOK, ExpiredOK
<1>2. TypeInv /\ FreshInv /\ [Next]_vars => FreshInv'
  BY FreshNext
<1>3. QED
  BY <1>1, <1>2, TypesHold, PTL DEF Spec

\* The question a handler has for the customer is the one the form in the
\* table waits to have answered, unless another handler has written the form
\* since: what process_message returns and what it has committed agree.
THEOREM PromptsMatch == Spec => []PromptMatchesForm
<1>1. ASSUME TypeInv, FreshInv
      PROVE  PromptMatchesForm
  <2> SUFFICES ASSUME NEW w \in Workers, pc[w] \in {"user", "reply"}, work[w].reply = "prompt",
                      stale[w] \intersect {"flow", "data"} = {}
               PROVE  session.flow = "profile_collect" /\ session.data.intent = work[w].call
    BY DEF PromptMatchesForm
  <2>1. work[w].row # None /\ work[w].row.flow = "profile_collect"
        /\ work[w].row.data.intent = work[w].call
    BY <1>1 DEF TypeInv, WorkOK
  <2>2. FreshOK(pc[w], work[w].row, stale[w])
    BY <1>1 DEF FreshInv
  <2>3. session.flow = work[w].row.flow /\ session.data = work[w].row.data
    BY <2>1, <2>2 DEF FreshOK
  <2>4. QED
    BY <2>1, <2>3
<1>2. QED
  BY <1>1, TypesHold, FreshHolds, PTL

----------------------------------------------------------------------------
(***************************************************************************)
(* Orders.                                                                 *)
(***************************************************************************)

LEMMA GoesTo ==
    ASSUME TypeInv, NEW w \in Workers, NEW s, NEW n, Goes(w, s, n)
    PROVE  pc'[w] = s
BY DEF Goes, TypeInv

\* The other handlers stay where they are.
LEMMA OthersStay ==
    ASSUME TypeInv, NEW w \in Workers, Arrives(w) \/ Step(w) \/ Fails(w)
    PROVE  \A v \in Workers : v # w => pc'[v] = pc[v] /\ work'[v] = work[v]
<1>1. ASSUME NEW s, NEW n, Moves(w, s, n)
      PROVE  \A v \in Workers : v # w => pc'[v] = pc[v] /\ work'[v] = work[v]
  BY <1>1 DEF Moves, TypeInv
<1>2. CASE Arrives(w) \/ Fails(w)
  BY <1>1, <1>2, ArrivesStep, FailsStep DEF Glances
<1>3. CASE Glances(w) \/ Makes(w) \/ Resets(w)
  BY <1>1, <1>3 DEF Glances, Makes, Resets
<1>4. ASSUME NEW s, NEW n, NEW new, NEW changed, Alters(w, s, n, new, changed)
      PROVE  \A v \in Workers : v # w => pc'[v] = pc[v] /\ work'[v] = work[v]
  BY <1>1, <1>4 DEF Alters
<1>5. ASSUME NEW s, NEW role \in {"user", "assistant"}, Notes(w, role, s)
      PROVE  \A v \in Workers : v # w => pc'[v] = pc[v] /\ work'[v] = work[v]
  BY <1>1, <1>5, Zenon DEF Notes
<1>6. QED
  BY <1>2, <1>3, <1>4, <1>5, StepShapes

\* No other step begins to carry out a call, asks for one or makes an order.
LEMMA Unordered ==
    ASSUME TypeInv, NEW w \in Workers, Arrives(w) \/ Step(w) \/ Fails(w),
           ~ToolCreatesOrder(w), ~MakesOrder(w), ~ClosesForm(w)
    PROVE  /\ pc'[w] \in {"collect", "order"} => pc'[w] = pc[w] /\ work'[w] = work[w]
           /\ UNCHANGED <<demands, told>>
           /\ ~ToolLinks(w) => UNCHANGED orders
<1>1. CASE Arrives(w)
  <2>1. UNCHANGED <<pc, work>> \/ pc'[w] = "open"
    BY <1>1, GoesTo, Zenon DEF Arrives
  <2>2. UNCHANGED <<demands, told, orders>>
    BY <1>1 DEF Arrives, store
  <2>3. QED
    BY <2>1, <2>2
<1>2. CASE Fails(w) \/ FallsBack(w)
  <2>1. pc'[w] = "idle"
    BY <1>2, GoesTo, Zenon DEF Fails, FallsBack, Ends
  <2>2. UNCHANGED <<demands, told, orders>>
    BY <1>2 DEF Fails, FallsBack, store
  <2>3. QED
    BY <2>1, <2>2
<1>3. CASE Creates(w) \/ Opens(w)
  <2>1. ASSUME NEW row, Routed(w, row)
        PROVE  pc'[w] \in {"user", "reopen"}
    BY <2>1, GoesTo, Zenon DEF Routed
  <2>2. pc'[w] \in {"user", "reopen", "idle"}
    BY <1>3, <2>1, GoesTo, Zenon DEF Creates, Opens, Ends
  <2>3. UNCHANGED <<demands, told, orders>>
    BY <1>3, Zenon DEF Creates, Opens, counters
  <2>4. QED
    BY <2>2, <2>3
<1>4. CASE Reopens(w) \/ Thinks(w) \/ ToolReads(w) \/ ToolOpensCart(w)
  <2>1. pc'[w] \in {"user", "think", "tool", "cart"}
    BY <1>4, GoesTo, Zenon DEF Reopens, Thinks, ToolReads, ToolOpensCart, Rereads, AfterCall
  <2>2. UNCHANGED <<demands, told, orders>>
    BY <1>4 DEF Reopens, Thinks, ToolReads, ToolOpensCart, store
  <2>3. QED
    BY <2>1, <2>2
<1>5. CASE ToolLinks(w)
  <2>1. pc'[w] \in {"think", "tool"}
    BY <1>5, GoesTo, Zenon DEF ToolLinks, AfterCall
  <2>2. UNCHANGED <<demands, told>>
    BY <1>5 DEF ToolLinks
  <2>3. QED
    BY <1>5, <2>1, <2>2
<1>6. CASE ToolWritesCart(w) \/ Asks(w) \/ CancelsForm(w) \/ ActsOutside(w)
  <2>1. pc'[w] \in {"user", "think", "tool", "act", "reply"}
    BY <1>6, GoesTo, Zenon
       DEF ToolWritesCart, Asks, CancelsForm, ActsOutside, Commits, AfterCall, AfterPrompt
  <2>2. UNCHANGED <<demands, told, orders>>
    BY <1>6, Zenon DEF ToolWritesCart, Asks, CancelsForm, ActsOutside
  <2>3. QED
    BY <2>1, <2>2
<1>7. CASE AnswersForm(w) \/ CompletesForm(w)
  <2>1. pc'[w] \in {"reply", "close"}
    BY <1>7, GoesTo, Zenon DEF AnswersForm, CompletesForm
  <2>2. UNCHANGED <<demands, told, orders>>
    BY <1>7, Zenon DEF AnswersForm, CompletesForm
  <2>3. QED
    BY <2>1, <2>2
<1>8. CASE RecordsUser(w) \/ RecordsReply(w)
  <2>1. pc'[w] \in {"act", "reply", "idle"}
    BY <1>8, GoesTo, Zenon DEF RecordsUser, RecordsReply, Records, Commits
  <2>2. UNCHANGED <<demands, told, orders>>
    BY <1>8, Zenon DEF RecordsUser, RecordsReply
  <2>3. QED
    BY <2>1, <2>2
<1>9. QED
  BY <1>1, <1>2, <1>3, <1>4, <1>5, <1>6, <1>7, <1>8, Zenon DEF Step

\* The order for goods g of a call has been made.
Made(call, g) == \E i \in DOMAIN orders : orders[i].call = call /\ orders[i].goods = g

OrderOK(o) ==
    /\ o.call \in 1..Len(demands) /\ o.goods \in demands[o.call]
    /\ o.goods = "bumpa" => o.gateway = "bumpa"

\* What a handler carrying out a call has not got left to make, is made.
MakeOK(s, n) ==
    s = "order" => /\ n.make \subseteq demands[n.call]
                   /\ \A g \in demands[n.call] \ n.make : Made(n.call, g)

WholeInv ==
    /\ \A i \in DOMAIN orders : OrderOK(orders[i])
    /\ \A c \in told : \A g \in demands[c] : Made(c, g)
    /\ \A w \in Workers : MakeOK(pc[w], work[w])

LEMMA CallMade ==
    ASSUME TypeInv, NEW w \in Workers, pc[w] \in {"collect", "order"}
    PROVE  work[w].call \in 1..Len(demands)
<1>1. PICK n : n = work[w]
  OBVIOUS
<1>2. n \in Works /\ WorkOK(pc[w], n) /\ CallOK(n, Len(demands)) /\ Len(demands) \in Nat
  BY <1>1, Holds
<1>3. n.call \in 0..MaxDemands /\ n.call >= 1 /\ n.call <= Len(demands)
  BY <1>2 DEF Works, WorkOK, CallOK
<1>4. QED
  BY <1>1, <1>2, <1>3, Bounds

LEMMA WholeFrame ==
    ASSUME TypeInv, WholeInv, NEW w \in Workers,
           \A v \in Workers : v # w => pc'[v] = pc[v] /\ work'[v] = work[v],
           UNCHANGED <<orders, demands, told>>, MakeOK(pc[w], work[w])'
    PROVE  WholeInv'
<1>1. ASSUME NEW v \in Workers
      PROVE  MakeOK(pc[v], work[v])'
  <2>1. CASE v = w
    BY <2>1
  <2>2. CASE v # w
    BY <2>2 DEF WholeInv, MakeOK, Made
  <2>3. QED
    BY <2>1, <2>2
<1>2. QED
  BY <1>1 DEF WholeInv, OrderOK, Made

LEMMA WholeBegins ==
    ASSUME TypeInv, WholeInv, NEW w \in Workers, ToolCreatesOrder(w)
    PROVE  WholeInv'
<1>1. PICK goods \in (SUBSET Goods) \ {{}}, s \in {"collect", "order"}, n \in Works :
          /\ demands' = Append(demands, goods) /\ Moves(w, s, n)
          /\ n.call = Len(demands) + 1 /\ (s = "order" => n.make = goods)
  BY ToolCreatesOrderStep DEF Begins
<1>2. orders' = orders /\ told' = told
  BY ToolCreatesOrderStep DEF Begins
<1>3. PICK d : d = Len(demands)
  OBVIOUS
<1>4. d \in Nat /\ demands \in Seq((SUBSET Goods) \ {{}}) /\ told \subseteq 1..d
  BY <1>3 DEF TypeInv, DataOK
<1>5. Len(demands') = d + 1 /\ demands'[d + 1] = goods /\ \A c \in 1..d : demands'[c] = demands[c]
  BY <1>1, <1>3, <1>4
<1>6. \A i \in DOMAIN orders : OrderOK(orders[i])'
  <2> TAKE i \in DOMAIN orders
  <2>1. OrderOK(orders[i]) /\ orders'[i] = orders[i]
    BY <1>2 DEF WholeInv
  <2>2. PICK c : c = orders[i].call
    OBVIOUS
  <2>3. c \in 1..d /\ c \in 1..(d + 1)
    BY <1>3, <1>4, <2>1, <2>2 DEF OrderOK
  <2>4. demands'[c] = demands[c]
    BY <1>5, <2>3
  <2>5. QED
    BY <1>5, <2>1, <2>2, <2>3, <2>4 DEF OrderOK
<1>7. \A c, g : Made(c, g) <=> Made(c, g)'
  BY <1>2 DEF Made
<1>8. ASSUME NEW v \in Workers
      PROVE  MakeOK(pc[v], work[v])'
  <2>1. CASE v = w
    <3>1. pc'[v] = s /\ work'[v] = n
      BY <1>1, <2>1 DEF Moves, TypeInv
    <3>2. QED
      BY <1>1, <1>3, <1>5, <3>1 DEF MakeOK
  <2>2. CASE v # w
    <3>1. pc'[v] = pc[v] /\ work'[v] = work[v]
      BY <1>1, <2>2 DEF Moves, TypeInv
    <3>2. CASE pc[v] = "order"
      <4>1. work[v].call \in 1..d
        BY <1>3, <1>4, <3>2, CallMade
      <4>2. demands'[work[v].call] = demands[work[v].call]
        BY <1>5, <4>1
      <4>3. QED
        BY <1>7, <3>1, <4>2 DEF MakeOK, WholeInv
    <3>3. QED
      BY <3>1, <3>2 DEF MakeOK
  <2>3. QED
    BY <2>1, <2>2
<1>9. QED
  BY <1>2, <1>4, <1>5, <1>6, <1>7, <1>8 DEF WholeInv

LEMMA WholeDelivers ==
    ASSUME TypeInv, WholeInv, NEW w \in Workers, MakesOrder(w)
    PROVE  WholeInv'
<1>1. PICK make, call : make = work[w].make /\ call = work[w].call
  OBVIOUS
<1>2. PICK g \in make, o \in Orders :
          /\ orders' = Append(orders, o) /\ o.call = call /\ o.goods = g
          /\ g = "bumpa" => o.gateway = "bumpa"
          /\ \/ /\ make \ {g} # {} /\ told' = told
                /\ \E n \in Works : Moves(w, "order", n) /\ n.call = call /\ n.make = make \ {g}
             \/ /\ make = {g} /\ told' = told \union {call}
                /\ \E n \in Works : \E s \in {"reply", "tool", "think"} : Moves(w, s, n)
  BY <1>1, MakesOrderStep DEF Delivers
<1>3. pc[w] = "order" /\ demands' = demands
  BY MakesOrderStep DEF Delivers
<1>4. call \in 1..Len(demands)
  BY <1>1, <1>3, CallMade
<1>5. make \subseteq demands[call] /\ \A h \in demands[call] \ make : Made(call, h)
  BY <1>1, <1>3 DEF WholeInv, MakeOK
<1>6. orders \in Seq(Orders) /\ Len(orders) \in Nat
  BY DEF TypeInv, DataOK
<1>7. /\ \A i \in DOMAIN orders : i \in DOMAIN orders' /\ orders'[i] = orders[i]
      /\ \A i \in DOMAIN orders' : i \in DOMAIN orders \/ orders'[i] = o
      /\ Len(orders) + 1 \in DOMAIN orders' /\ orders'[Len(orders) + 1] = o
  BY <1>2, <1>6
<1>8. \A c, h : Made(c, h) => Made(c, h)'
  BY <1>7 DEF Made
<1>9. Made(call, g)'
  BY <1>2, <1>7 DEF Made
<1>10. \A h \in demands[call] : h \notin make \/ h = g => Made(call, h)'
  BY <1>5, <1>8, <1>9
<1>11. OrderOK(o)'
  BY <1>2, <1>3, <1>4, <1>5 DEF OrderOK
<1>12. \A i \in DOMAIN orders' : OrderOK(orders[i])'
  <2> TAKE i \in DOMAIN orders'
  <2>1. CASE orders'[i] = o
    BY <1>11, <2>1 DEF OrderOK
  <2>2. CASE i \in DOMAIN orders
    BY <1>3, <1>7, <2>2 DEF WholeInv, OrderOK
  <2>3. QED
    BY <1>7, <2>1, <2>2
<1>13. \A c \in told' : \A h \in demands[c] : Made(c, h)'
  <2> TAKE c \in told'
  <2>1. CASE c \in told
    BY <1>8, <2>1 DEF WholeInv
  <2>2. CASE c \notin told
    <3>1. c = call /\ make = {g}
      BY <1>2, <2>2
    <3>2. QED
      BY <1>10, <3>1
  <2>3. QED
    BY <2>1, <2>2
<1>14. ASSUME NEW v \in Workers
       PROVE  MakeOK(pc[v], work[v])'
  <2>1. CASE v = w
    <3>1. ASSUME NEW n \in Works, Moves(w, "order", n), n.call = call, n.make = make \ {g}
          PROVE  MakeOK(pc[v], work[v])'
      <4>1. work'[v] = n
        BY <2>1, <3>1 DEF Moves, TypeInv
      <4>2. n.make \subseteq demands'[n.call]
        BY <1>3, <1>5, <3>1
      <4>3. \A h \in demands'[n.call] \ n.make : Made(n.call, h)'
        BY <1>3, <1>10, <3>1
      <4>4. QED
        BY <4>1, <4>2, <4>3 DEF MakeOK
    <3>2. ASSUME NEW n \in Works, NEW s \in {"reply", "tool", "think"}, Moves(w, s, n)
          PROVE  MakeOK(pc[v], work[v])'
      BY <2>1, <3>2 DEF Moves, TypeInv, MakeOK
    <3>3. QED
      BY <1>2, <3>1, <3>2
  <2>2. CASE v # w
    <3>1. pc'[v] = pc[v] /\ work'[v] = work[v]
      BY <2>2, OthersStay DEF Step
    <3>2. QED
      BY <1>3, <1>8, <3>1 DEF WholeInv, MakeOK
  <2>3. QED
    BY <2>1, <2>2
<1>15. QED
  BY <1>3, <1>12, <1>13, <1>14 DEF WholeInv

LEMMA WholeLinks ==
    ASSUME TypeInv, WholeInv, NEW w \in Workers, ToolLinks(w)
    PROVE  WholeInv'
<1>1. PICK i \in DOMAIN orders, g \in {"bumpa", "default", "paystack"} :
          /\ orders' = [orders EXCEPT ![i].gateway = g, ![i].link = TRUE]
          /\ orders[i].gateway = "bumpa" => g = "bumpa"
  BY ToolLinksStep
<1>2. UNCHANGED <<demands, told>>
  BY DEF ToolLinks
<1>3. /\ DOMAIN orders' = DOMAIN orders
      /\ \A j \in DOMAIN orders :
            /\ orders'[j].call = orders[j].call /\ orders'[j].goods = orders[j].goods
            /\ orders[j].gateway = "bumpa" => orders'[j].gateway = "bumpa"
  <2>1. PICK o : o = orders[i]
    OBVIOUS
  <2>2. o \in Orders /\ orders \in Seq(Orders)
    BY <2>1 DEF TypeInv, DataOK
  <2>3. PICK p : p = [o EXCEPT !.gateway = g, !.link = TRUE]
    OBVIOUS
  <2>4. p.call = o.call /\ p.goods = o.goods /\ p.gateway = g
    BY <2>2, <2>3 DEF Orders
  <2>5. orders' = [orders EXCEPT ![i] = p]
    BY <1>1, <2>1, <2>3
  <2>6. QED
    BY <1>1, <2>1, <2>2, <2>4, <2>5
<1>4. \A c, h : Made(c, h) => Made(c, h)'
  BY <1>3 DEF Made
<1>5. \A j \in DOMAIN orders' : OrderOK(orders[j])'
  BY <1>2, <1>3 DEF WholeInv, OrderOK
<1>6. ASSUME NEW v \in Workers
      PROVE  MakeOK(pc[v], work[v])'
  <2>1. CASE v = w
    <3>1. pc'[v] # "order"
      BY <2>1, GoesTo, Zenon DEF ToolLinks, AfterCall
    <3>2. QED
      BY <3>1 DEF MakeOK
  <2>2. CASE v # w
    BY <1>2, <1>4, <2>2, OthersStay DEF Step, WholeInv, MakeOK
  <2>3. QED
    BY <2>1, <2>2
<1>7. QED
  BY <1>2, <1>4, <1>5, <1>6 DEF WholeInv

LEMMA WholeCloses ==
    ASSUME TypeInv, WholeInv, NEW w \in Workers, ClosesForm(w)
    PROVE  WholeInv'
<1>1. UNCHANGED <<orders, demands, told>>
  BY DEF ClosesForm
<1>2. PICK s, n, new, changed :
         /\ Alters(w, s, n, new, changed)
         /\ \/ s = "reply"
            \/ s = "order" /\ n.call \in 1..Len(demands) /\ n.make = demands[n.call]
  BY ClosesFormStep
<1>3. pc'[w] = s /\ work'[w] = n
  BY <1>2 DEF Alters, Moves, TypeInv
<1>4. MakeOK(pc[w], work[w])'
  BY <1>1, <1>2, <1>3 DEF MakeOK
<1>5. \A v \in Workers : v # w => pc'[v] = pc[v] /\ work'[v] = work[v]
  BY OthersStay DEF Step
<1>6. QED
  BY <1>1, <1>4, <1>5, WholeFrame

LEMMA WholeNext ==
    ASSUME TypeInv, WholeInv, [Next]_vars
    PROVE  WholeInv'
<1>1. CASE UNCHANGED vars
  BY <1>1 DEF vars, WholeInv, OrderOK, MakeOK, Made
<1>2. CASE Expires
  BY <1>2 DEF Expires, WholeInv, OrderOK, MakeOK, Made
<1>3. ASSUME NEW w \in Workers, Arrives(w) \/ Step(w) \/ Fails(w)
      PROVE  WholeInv'
  <2>1. CASE ToolCreatesOrder(w) \/ MakesOrder(w) \/ ToolLinks(w) \/ ClosesForm(w)
    BY <2>1, WholeBegins, WholeDelivers, WholeLinks, WholeCloses
  <2>2. CASE ~(ToolCreatesOrder(w) \/ MakesOrder(w) \/ ToolLinks(w) \/ ClosesForm(w))
    <3>1. UNCHANGED <<orders, demands, told>>
      BY <1>3, <2>2, Unordered
    <3>2. pc'[w] = "order" => pc[w] = "order" /\ work'[w] = work[w]
      BY <1>3, <2>2, Unordered
    <3>3. MakeOK(pc[w], work[w])'
      BY <3>1, <3>2 DEF WholeInv, MakeOK, Made
    <3>4. \A v \in Workers : v # w => pc'[v] = pc[v] /\ work'[v] = work[v]
      BY <1>3, OthersStay
    <3>5. QED
      BY <3>1, <3>3, <3>4, WholeFrame
  <2>3. QED
    BY <2>1, <2>2
<1>4. QED
  BY <1>1, <1>2, <1>3 DEF Next

LEMMA WholeHolds == Spec => []WholeInv
<1>1. Init => WholeInv
  BY DEF Init, WholeInv, MakeOK
<1>2. TypeInv /\ WholeInv /\ [Next]_vars => WholeInv'
  BY WholeNext
<1>3. QED
  BY <1>1, <1>2, TypesHold, PTL DEF Spec

\* When the result of a create_order call is given to the model or to the
\* customer, each of the two groups the call itself sorted its items into has
\* its order and no other has, and the group it named Bumpa's is on an order
\* that stays Bumpa's to settle, whatever gateway is asked for.
THEOREM OrdersWhole == Spec => []OrdersAreWhole
<1>1. ASSUME WholeInv
      PROVE  OrdersAreWhole
  <2>1. ASSUME NEW call \in told
        PROVE  {orders[i].goods : i \in {j \in DOMAIN orders : orders[j].call = call}} = demands[call]
    BY <1>1, <2>1 DEF WholeInv, OrderOK, Made
  <2>2. QED
    BY <1>1, <2>1 DEF WholeInv, OrderOK, OrdersAreWhole
<1>2. QED
  BY <1>1, WholeHolds, PTL

----------------------------------------------------------------------------
(***************************************************************************)
(* A call is carried out once.                                             *)
(***************************************************************************)

\* Blind writes are never forgotten.
LEMMA BlindGrows ==
    ASSUME TypeInv, NEW w \in Workers, Arrives(w) \/ Step(w) \/ Fails(w)
    PROVE  blind \subseteq blind'
<1>1. CASE Arrives(w) \/ Fails(w)
  BY <1>1, ArrivesStep, FailsStep DEF Glances, Reads
<1>2. CASE Glances(w) \/ Makes(w) \/ Resets(w)
  BY <1>2 DEF Glances, Reads, Makes, Resets
<1>3. ASSUME NEW s, NEW n, NEW new, NEW changed, Alters(w, s, n, new, changed)
      PROVE  blind \subseteq blind'
  BY <1>3 DEF Alters
<1>4. ASSUME NEW s, NEW role \in {"user", "assistant"}, Notes(w, role, s)
      PROVE  blind \subseteq blind'
  <2>1. blind' = blind \union (stale[w] \intersect {"memory"})
    BY <1>4 DEF Notes
  <2>2. QED
    BY <2>1
<1>5. QED
  BY <1>1, <1>2, <1>3, <1>4, StepShapes

\* The intent in the table is the one there was, unless it is put there by Asks.
KeepsIntent ==
    "data" \notin blind' /\ session' # None /\ session'.data.intent # 0 =>
        session # None /\ session'.data.intent = session.data.intent

LEMMA AltersIntent ==
    ASSUME TypeInv, FreshInv, NEW w \in Workers, pc[w] # "idle", NEW s, NEW n, NEW new, NEW changed,
           Alters(w, s, n, new, changed), new.data.intent \in {0, work[w].row.data.intent},
           "data" \in changed /\ "data" \in stale[w] => "data" \in blind'
    PROVE  KeepsIntent
<1> SUFFICES ASSUME "data" \notin blind', session' # None, session'.data.intent # 0
             PROVE  session # None /\ session'.data.intent = session.data.intent
  BY DEF KeepsIntent
<1>1. Writes(w, s, new, changed)
  BY DEF Alters
<1>2. session # None /\ work[w].row # None
  BY <1>1, Bounds DEF Writes
<1>3. CASE "data" \notin changed
  BY <1>1, <1>2, <1>3 DEF Writes
<1>4. CASE "data" \in changed
  <2>1. FreshOK(pc[w], work[w].row, stale[w])
    BY DEF FreshInv
  <2>2. work[w].row.data = session.data
    BY <1>2, <1>4, <2>1 DEF FreshOK
  <2>3. session'.data = new.data
    BY <1>1, <1>4 DEF Writes
  <2>4. QED
    BY <1>2, <2>2, <2>3
<1>5. QED
  BY <1>3, <1>4

LEMMA IntentKept ==
    ASSUME TypeInv, FreshInv, NEW w \in Workers, Arrives(w) \/ Step(w) \/ Fails(w), ~Asks(w)
    PROVE  KeepsIntent
<1>1. CASE Arrives(w) \/ Fails(w)
  BY <1>1, ArrivesStep, FailsStep DEF Glances, Reads, KeepsIntent
<1>2. CASE Glances(w)
  BY <1>2 DEF Glances, Reads, KeepsIntent
<1>3. CASE Makes(w)
  BY <1>3, NewRowType DEF Makes, TypeInv, KeepsIntent
<1>4. CASE Resets(w)
  <2>1. session'.data = session.data \/ session'.data = FreshData
    BY <1>4 DEF Resets, Kept
  <2>2. session # None
    BY <1>4, Bounds DEF Resets
  <2>3. QED
    BY <2>1, <2>2 DEF KeepsIntent, FreshData
<1>5. ASSUME Step(w)
      PROVE  pc[w] # "idle"
  BY <1>5, StepShapes
<1>6. CASE ToolWritesCart(w)
  <2>1. PICK s, n, new, changed :
           /\ Alters(w, s, n, new, changed) /\ new.data.intent = work[w].row.data.intent
           /\ "data" \in stale[w] => "data" \in blind'
    BY <1>6, ToolWritesCartStep
  <2>2. pc[w] # "idle"
    BY <1>5, <1>6 DEF Step
  <2>3. QED
    BY <2>1, <2>2, AltersIntent
<1>7. CASE CancelsForm(w)
  <2>1. PICK n, new, changed : Alters(w, "act", n, new, changed) /\ new.data.intent = 0
    BY <1>7, CancelsFormStep
  <2>2. Writes(w, "act", new, changed)
    BY <2>1 DEF Alters
  <2>3. session # None /\ (session'.data = session.data \/ session'.data = new.data)
    BY <2>2, Bounds DEF Writes
  <2>4. QED
    BY <2>1, <2>3 DEF KeepsIntent
<1>8. CASE AnswersForm(w)
  <2>1. CASE Glances(w)
    BY <1>2, <2>1
  <2>2. ASSUME NEW n, NEW new, NEW changed, Alters(w, "reply", n, new, changed),
               new.data.intent = work[w].row.data.intent, "data" \in stale[w] => "data" \in blind'
        PROVE  KeepsIntent
    <3>1. pc[w] # "idle"
      BY <1>5, <1>8 DEF Step
    <3>2. QED
      BY <2>2, <3>1, AltersIntent
  <2>3. QED
    BY <1>8, <2>1, <2>2, AnswersFormStep
<1>9. CASE ClosesForm(w)
  <2>1. PICK s, n, new, changed :
           /\ Alters(w, s, n, new, changed) /\ new.data.intent = 0
           /\ "data" \in stale[w] => "data" \in blind'
    BY <1>9, ClosesFormStep
  <2>2. pc[w] # "idle"
    BY <1>5, <1>9 DEF Step
  <2>3. QED
    BY <2>1, <2>2, AltersIntent
<1>10. CASE ActsOutside(w)
  <2>1. PICK n, new, changed :
           /\ Alters(w, "reply", n, new, changed)
           /\ new.data.intent \in {0, work[w].row.data.intent}
           /\ "data" \in changed /\ "data" \in stale[w] => "data" \in blind'
    BY <1>10, ActsOutsideStep
  <2>2. pc[w] # "idle"
    BY <1>5, <1>10 DEF Step
  <2>3. QED
    BY <2>1, <2>2, AltersIntent
<1>11. ASSUME NEW s, NEW role, Notes(w, role, s)
       PROVE  KeepsIntent
  BY <1>11, Bounds DEF Notes, Writes, KeepsIntent
<1>12. CASE Creates(w) \/ Opens(w)
  BY <1>2, <1>3, <1>4, <1>12, CreatesStep, OpensStep
<1>13. CASE \/ Reopens(w) \/ Thinks(w) \/ FallsBack(w) \/ ToolReads(w) \/ ToolOpensCart(w)
            \/ ToolCreatesOrder(w) \/ ToolLinks(w) \/ MakesOrder(w) \/ CompletesForm(w)
  BY <1>2, <1>13, ReopensStep, ThinksStep, FallsBackStep, ToolReadsStep, ToolOpensCartStep,
     ToolCreatesOrderStep, ToolLinksStep, MakesOrderStep, CompletesFormStep
<1>14. CASE RecordsUser(w) \/ RecordsReply(w)
  BY <1>11, <1>14, RecordsUserStep, RecordsReplyStep
<1>15. QED
  BY <1>1, <1>6, <1>7, <1>8, <1>9, <1>10, <1>12, <1>13, <1>14, Zenon DEF Step

\* A call that is being carried out, and one that is or has been.
Holding(v) == pc[v] \in {"collect", "order"}
Ordered(c) == \E i \in DOMAIN orders : orders[i].call = c
Spent(c) == Ordered(c) \/ \E v \in Workers : Holding(v) /\ work[v].call = c

OnceOK ==
    /\ session # None /\ session.data.intent # 0 => ~Spent(session.data.intent)
    /\ \A v, w \in Workers : Holding(v) /\ Holding(w) /\ work[v].call = work[w].call => v = w
    /\ \A v \in Workers : pc[v] = "collect" => ~Ordered(work[v].call)
    /\ \A v \in Workers : pc[v] = "order" =>
          \A i \in DOMAIN orders :
             orders[i].call = work[v].call => orders[i].goods \notin work[v].make
    /\ \A i, j \in DOMAIN orders :
          orders[i].call = orders[j].call /\ orders[i].goods = orders[j].goods => i = j

OnceInv == "data" \notin blind => OnceOK

\* The steps that take up no call and make no order.
LEMMA OnceFrame ==
    ASSUME TypeInv, OnceOK, NEW w \in Workers, "data" \notin blind',
           \/ KeepsIntent
           \/ session'.data.intent = work[w].call /\ pc[w] = "collect" /\ pc'[w] = "user",
           \A v \in Workers : v # w => pc'[v] = pc[v] /\ work'[v] = work[v],
           pc'[w] \in {"collect", "order"} => pc'[w] = pc[w] /\ work'[w] = work[w],
           DOMAIN orders' = DOMAIN orders,
           \A i \in DOMAIN orders : orders'[i].call = orders[i].call /\ orders'[i].goods = orders[i].goods
    PROVE  OnceOK'
<1>1. \A v \in Workers : Holding(v)' => Holding(v) /\ pc'[v] = pc[v] /\ work'[v] = work[v]
  BY DEF Holding
<1>2. \A c : Ordered(c)' <=> Ordered(c)
  BY DEF Ordered
<1>3. \A c : Spent(c)' => Spent(c)
  BY <1>1, <1>2 DEF Spent
<1>4. (session # None /\ session.data.intent # 0 => ~Spent(session.data.intent))'
  <2>1. ASSUME session' # None, session'.data.intent # 0, NEW c, c = session'.data.intent
        PROVE  ~Spent(c)'
    <3>1. CASE KeepsIntent
      <4>1. ~Spent(c)
        BY <2>1, <3>1 DEF KeepsIntent, OnceOK
      <4>2. QED
        BY <1>3, <4>1
    <3>2. CASE c = work[w].call /\ pc[w] = "collect" /\ pc'[w] = "user"
      <4>1. ~Ordered(c)'
        BY <1>2, <3>2 DEF OnceOK
      <4>2. \A v \in Workers : Holding(v)' => work'[v].call # c
        BY <1>1, <3>2 DEF OnceOK, Holding
      <4>3. QED
        BY <4>1, <4>2 DEF Spent
    <3>3. QED
      BY <2>1, <3>1, <3>2
  <2>2. QED
    BY <2>1
<1>5. (\A v, x \in Workers : Holding(v) /\ Holding(x) /\ work[v].call = work[x].call => v = x)'
  BY <1>1 DEF OnceOK
<1>6. (\A v \in Workers : pc[v] = "collect" => ~Ordered(work[v].call))'
  <2>1. ASSUME NEW v \in Workers, pc'[v] = "collect", NEW c, c = work'[v].call
        PROVE  ~Ordered(c)'
    BY <1>1, <1>2, <2>1 DEF OnceOK, Holding
  <2>2. QED
    BY <2>1
<1>7. (\A v \in Workers : pc[v] = "order" =>
          \A i \in DOMAIN orders :
             orders[i].call = work[v].call => orders[i].goods \notin work[v].make)'
  BY <1>1 DEF OnceOK, Holding
<1>8. (\A i, j \in DOMAIN orders :
          orders[i].call = orders[j].call /\ orders[i].goods = orders[j].goods => i = j)'
  BY DEF OnceOK
<1>9. QED
  BY <1>4, <1>5, <1>6, <1>7, <1>8 DEF OnceOK

\* One handler takes up a call nobody holds and no order is made for yet.
LEMMA OnceTakes ==
    ASSUME TypeInv, OnceOK, NEW w \in Workers, NEW s \in {"collect", "order"}, NEW n, Moves(w, s, n),
           ~Spent(n.call), orders' = orders,
           session' # None /\ session'.data.intent # 0 =>
              session'.data.intent # n.call /\ ~Spent(session'.data.intent)
    PROVE  OnceOK'
<1>1. pc'[w] = s /\ work'[w] = n
  BY DEF Moves, TypeInv
<1>2. \A v \in Workers : v # w => pc'[v] = pc[v] /\ work'[v] = work[v]
  BY DEF Moves, TypeInv
<1>3. \A v \in Workers : v # w => (Holding(v)' <=> Holding(v))
  BY <1>2 DEF Holding
<1>4. \A c : Ordered(c)' <=> Ordered(c)
  BY DEF Ordered
<1>5. ~Ordered(n.call) /\ \A v \in Workers : Holding(v) => work[v].call # n.call
  BY DEF Spent
<1>6. (session # None /\ session.data.intent # 0 => ~Spent(session.data.intent))'
  <2>1. ASSUME session' # None, session'.data.intent # 0, NEW c, c = session'.data.intent
        PROVE  ~Spent(c)'
    <3>1. c # n.call /\ ~Spent(c)
      BY <2>1
    <3>2. QED
      BY <1>1, <1>2, <1>3, <1>4, <3>1 DEF Spent
  <2>2. QED
    BY <2>1
<1>7. (\A v, x \in Workers : Holding(v) /\ Holding(x) /\ work[v].call = work[x].call => v = x)'
  <2>1. \A v, x \in Workers : Holding(v)' /\ Holding(x)' /\ work'[v].call = work'[x].call => v = x
    <3> TAKE v, x \in Workers
    <3>1. CASE v # w /\ x # w
      BY <1>2, <1>3, <3>1 DEF OnceOK
    <3>2. CASE v = w \/ x = w
      BY <1>1, <1>2, <1>3, <1>5, <3>2
    <3>3. QED
      BY <3>1, <3>2
  <2>2. QED
    BY <2>1
<1>8. (\A v \in Workers : pc[v] = "collect" => ~Ordered(work[v].call))'
  <2>1. ASSUME NEW v \in Workers, pc'[v] = "collect", NEW c, c = work'[v].call
        PROVE  ~Ordered(c)'
    <3>1. CASE v = w
      BY <1>1, <1>4, <1>5, <2>1, <3>1
    <3>2. CASE v # w
      BY <1>2, <1>4, <2>1, <3>2 DEF OnceOK
    <3>3. QED
      BY <3>1, <3>2
  <2>2. QED
    BY <2>1
<1>9. (\A v \in Workers : pc[v] = "order" =>
          \A i \in DOMAIN orders :
             orders[i].call = work[v].call => orders[i].goods \notin work[v].make)'
  <2>1. ASSUME NEW v \in Workers, pc'[v] = "order", NEW i \in DOMAIN orders,
               orders[i].call = work'[v].call
        PROVE  orders[i].goods \notin work'[v].make
    <3>1. CASE v = w
      BY <1>1, <1>5, <2>1, <3>1 DEF Ordered
    <3>2. CASE v # w
      BY <1>2, <2>1, <3>2 DEF OnceOK
    <3>3. QED
      BY <3>1, <3>2
  <2>2. QED
    BY <2>1
<1>10. QED
  BY <1>6, <1>7, <1>8, <1>9 DEF OnceOK

LEMMA OnceBegins ==
    ASSUME TypeInv, WholeInv, OnceOK, NEW w \in Workers, ToolCreatesOrder(w)
    PROVE  OnceOK'
<1>1. PICK goods \in (SUBSET Goods) \ {{}}, s \in {"collect", "order"}, n \in Works :
          Moves(w, s, n) /\ n.call = Len(demands) + 1
  BY ToolCreatesOrderStep DEF Begins
<1>2. orders' = orders /\ session' = session
  BY ToolCreatesOrderStep DEF Begins
<1>3. Len(demands) \in Nat
  BY DEF TypeInv, DataOK
<1>4. ~Ordered(n.call)
  BY <1>1, <1>3 DEF WholeInv, OrderOK, Ordered
<1>5. \A v \in Workers : Holding(v) => work[v].call # n.call
  BY <1>1, <1>3, CallMade DEF Holding
<1>6. ~Spent(n.call)
  BY <1>4, <1>5 DEF Spent
<1>7. ASSUME session' # None, session'.data.intent # 0
      PROVE  session'.data.intent # n.call /\ ~Spent(session'.data.intent)
  <2>1. session.data.intent <= Len(demands)
    BY <1>2, <1>7 DEF TypeInv, DataOK
  <2>2. session.data.intent # Len(demands) + 1
    <3>1. session \in Rows
      BY <1>2, <1>7 DEF TypeInv, DataOK
    <3>2. PICK k : k = session.data.intent
      OBVIOUS
    <3>3. k \in 0..MaxDemands
      BY <3>1, <3>2 DEF Rows, Data
    <3>4. QED
      BY <1>3, <2>1, <3>2, <3>3, Bounds
  <2>3. QED
    BY <1>1, <1>2, <1>7, <2>2 DEF OnceOK
<1>8. QED
  BY <1>1, <1>2, <1>6, <1>7, OnceTakes

LEMMA OnceDelivers ==
    ASSUME TypeInv, OnceOK, NEW w \in Workers, MakesOrder(w)
    PROVE  OnceOK'
<1>1. PICK make, call : make = work[w].make /\ call = work[w].call
  OBVIOUS
<1>2. PICK g \in make, o \in Orders :
          /\ orders' = Append(orders, o) /\ o.call = call /\ o.goods = g
          /\ \/ \E n \in Works : Moves(w, "order", n) /\ n.call = call /\ n.make = make \ {g}
             \/ \E n \in Works : \E s \in {"reply", "tool", "think"} : Moves(w, s, n)
  BY <1>1, MakesOrderStep DEF Delivers
<1>3. pc[w] = "order" /\ session' = session
  BY MakesOrderStep DEF Delivers
<1>4. \A v \in Workers : v # w => pc'[v] = pc[v] /\ work'[v] = work[v]
  BY OthersStay DEF Step
<1>5. \/ pc'[w] = "order" /\ work'[w].call = call /\ work'[w].make = make \ {g}
      \/ pc'[w] \in {"reply", "tool", "think"}
  BY <1>2 DEF Moves, TypeInv
<1>6. orders \in Seq(Orders) /\ Len(orders) \in Nat
  BY DEF TypeInv, DataOK
<1>7. /\ \A i \in DOMAIN orders' : (i \in DOMAIN orders /\ orders'[i] = orders[i])
                                   \/ (i = Len(orders) + 1 /\ i \notin DOMAIN orders /\ orders'[i] = o)
  BY <1>2, <1>6
<1>8. Holding(w) /\ \A v \in Workers : v # w /\ Holding(v) => work[v].call # call
  BY <1>1, <1>3 DEF OnceOK, Holding
<1>9. \A v \in Workers : Holding(v)' => Holding(v) /\ work'[v].call = work[v].call
  BY <1>1, <1>3, <1>4, <1>5 DEF Holding
<1>10. \A c : Ordered(c)' => Ordered(c) \/ c = call
  BY <1>2, <1>7 DEF Ordered
<1>11. \A c : Spent(c)' => Spent(c)
  BY <1>1, <1>8, <1>9, <1>10 DEF Spent
<1>12. (session # None /\ session.data.intent # 0 => ~Spent(session.data.intent))'
  <2>1. ASSUME session' # None, session'.data.intent # 0, NEW c, c = session'.data.intent
        PROVE  ~Spent(c)'
    <3>1. ~Spent(c)
      BY <1>3, <2>1 DEF OnceOK
    <3>2. QED
      BY <1>11, <3>1
  <2>2. QED
    BY <2>1
<1>13. (\A v, x \in Workers : Holding(v) /\ Holding(x) /\ work[v].call = work[x].call => v = x)'
  BY <1>9 DEF OnceOK
<1>14. (\A v \in Workers : pc[v] = "collect" => ~Ordered(work[v].call))'
  <2>1. ASSUME NEW v \in Workers, pc'[v] = "collect", NEW c, c = work'[v].call
        PROVE  ~Ordered(c)'
    <3>1. v # w
      BY <1>5, <2>1
    <3>2. pc[v] = "collect" /\ c = work[v].call
      BY <1>4, <2>1, <3>1
    <3>3. c # call /\ ~Ordered(c)
      BY <1>8, <3>1, <3>2 DEF OnceOK, Holding
    <3>4. QED
      BY <1>10, <3>3
  <2>2. QED
    BY <2>1
<1>15. (\A v \in Workers : pc[v] = "order" =>
          \A i \in DOMAIN orders :
             orders[i].call = work[v].call => orders[i].goods \notin work[v].make)'
  <2>1. ASSUME NEW v \in Workers, pc'[v] = "order", NEW i \in DOMAIN orders',
               orders'[i].call = work'[v].call
        PROVE  orders'[i].goods \notin work'[v].make
    <3>1. CASE v = w
      <4>1. work'[v].call = call /\ work'[v].make = make \ {g}
        BY <1>5, <2>1, <3>1
      <4>2. CASE i \in DOMAIN orders /\ orders'[i] = orders[i]
        BY <1>1, <1>3, <2>1, <4>1, <4>2 DEF OnceOK
      <4>3. CASE orders'[i] = o
        BY <1>2, <4>1, <4>3
      <4>4. QED
        BY <1>7, <4>2, <4>3
    <3>2. CASE v # w
      <4>1. pc[v] = "order" /\ work'[v] = work[v] /\ work[v].call # call
        BY <1>4, <1>8, <2>1, <3>2 DEF Holding
      <4>2. i \in DOMAIN orders /\ orders'[i] = orders[i]
        BY <1>2, <1>7, <2>1, <4>1
      <4>3. QED
        BY <2>1, <4>1, <4>2 DEF OnceOK
    <3>3. QED
      BY <3>1, <3>2
  <2>2. QED
    BY <2>1
<1>16. (\A i, j \in DOMAIN orders :
          orders[i].call = orders[j].call /\ orders[i].goods = orders[j].goods => i = j)'
  <2>1. ASSUME NEW i \in DOMAIN orders, orders[i].call = call
        PROVE  orders[i].goods # g
    BY <1>1, <1>2, <1>3, <2>1 DEF OnceOK
  <2>2. \A i, j \in DOMAIN orders' :
           orders'[i].call = orders'[j].call /\ orders'[i].goods = orders'[j].goods => i = j
    BY <1>2, <1>7, <2>1 DEF OnceOK
  <2>3. QED
    BY <2>2
<1>17. QED
  BY <1>12, <1>13, <1>14, <1>15, <1>16 DEF OnceOK

LEMMA OnceCloses ==
    ASSUME TypeInv, FreshInv, OnceOK, NEW w \in Workers, ClosesForm(w), "data" \notin blind'
    PROVE  OnceOK'
<1>1. PICK s, n, new, changed :
         /\ Alters(w, s, n, new, changed) /\ new.data.intent = 0
         /\ "data" \in stale[w] => "data" \in blind'
         /\ \/ s = "reply"
            \/ s = "order" /\ n.call = work[w].row.data.intent /\ n.call \in 1..Len(demands)
  BY ClosesFormStep
<1>2. orders' = orders
  BY DEF ClosesForm
<1>3. Writes(w, s, new, changed) /\ Moves(w, s, n)
  BY <1>1 DEF Alters
<1>4. pc[w] = "close"
  BY DEF ClosesForm
<1>5. CASE s = "reply"
  <2>1. KeepsIntent
    BY IntentKept, <1>4, Zenon DEF Step, Asks
  <2>2. pc'[w] = "reply"
    BY <1>3, <1>5 DEF Moves, TypeInv
  <2>3. \A v \in Workers : v # w => pc'[v] = pc[v] /\ work'[v] = work[v]
    BY <1>3 DEF Moves, TypeInv
  <2>4. QED
    BY <1>2, <2>1, <2>2, <2>3, OnceFrame
<1>6. CASE s = "order" /\ n.call = work[w].row.data.intent /\ n.call \in 1..Len(demands)
  <2>1. n.call # 0
    BY <1>6 DEF TypeInv, DataOK
  <2>2. "data" \in changed
    BY <1>1, <1>3, <1>6, <2>1 DEF Writes
  <2>3. session'.data.intent = 0
    BY <1>1, <1>3, <2>2 DEF Writes
  <2>4. session # None /\ work[w].row # None
    BY <1>3, Bounds DEF Writes
  <2>5. FreshOK(pc[w], work[w].row, stale[w])
    BY DEF FreshInv
  <2>6. work[w].row.data = session.data
    BY <1>1, <1>4, <2>4, <2>5 DEF FreshOK
  <2>7. ~Spent(n.call)
    BY <1>6, <2>1, <2>4, <2>6 DEF OnceOK
  <2>8. QED
    BY <1>2, <1>3, <1>6, <2>3, <2>7, OnceTakes
<1>7. QED
  BY <1>1, <1>5, <1>6

LEMMA OnceAsks ==
    ASSUME TypeInv, FreshInv, OnceOK, NEW w \in Workers, Asks(w), "data" \notin blind'
    PROVE  OnceOK'
<1>1. PICK n, new, changed :
         /\ Alters(w, "user", n, new, changed) /\ pc[w] = "collect"
         /\ new.data.intent = work[w].call
  BY AsksStep
<1>2. orders' = orders
  BY DEF Asks
<1>3. Writes(w, "user", new, changed) /\ Moves(w, "user", n)
  BY <1>1 DEF Alters
<1>4. pc'[w] = "user" /\ \A v \in Workers : v # w => pc'[v] = pc[v] /\ work'[v] = work[v]
  BY <1>3 DEF Moves, TypeInv
<1>5. CASE "data" \in changed
  <2>1. session'.data.intent = work[w].call
    BY <1>1, <1>3, <1>5 DEF Writes
  <2>2. QED
    BY <1>1, <1>2, <1>4, <2>1, OnceFrame
<1>6. CASE "data" \notin changed
  <2>1. KeepsIntent
    BY <1>3, <1>6, Bounds DEF Writes, KeepsIntent
  <2>2. QED
    BY <1>2, <1>4, <2>1, OnceFrame
<1>7. QED
  BY <1>5, <1>6

LEMMA OnceLinks ==
    ASSUME TypeInv, FreshInv, OnceOK, NEW w \in Workers, ToolLinks(w), "data" \notin blind'
    PROVE  OnceOK'
<1>1. PICK i \in DOMAIN orders, g \in {"bumpa", "default", "paystack"} :
          orders' = [orders EXCEPT ![i].gateway = g, ![i].link = TRUE]
  BY ToolLinksStep
<1>2. /\ DOMAIN orders' = DOMAIN orders
      /\ \A j \in DOMAIN orders : orders'[j].call = orders[j].call /\ orders'[j].goods = orders[j].goods
  <2>1. PICK o : o = orders[i]
    OBVIOUS
  <2>2. o \in Orders /\ orders \in Seq(Orders)
    BY <2>1 DEF TypeInv, DataOK
  <2>3. PICK p : p = [o EXCEPT !.gateway = g, !.link = TRUE]
    OBVIOUS
  <2>4. p.call = o.call /\ p.goods = o.goods
    BY <2>2, <2>3 DEF Orders
  <2>5. orders' = [orders EXCEPT ![i] = p]
    BY <1>1, <2>1, <2>3
  <2>6. QED
    BY <2>1, <2>2, <2>4, <2>5
<1>3. pc'[w] \in {"think", "tool"}
  BY GoesTo, Zenon DEF ToolLinks, AfterCall
<1>4. KeepsIntent
  BY DEF ToolLinks, KeepsIntent
<1>5. \A v \in Workers : v # w => pc'[v] = pc[v] /\ work'[v] = work[v]
  BY OthersStay DEF Step
<1>6. QED
  BY <1>2, <1>3, <1>4, <1>5, OnceFrame

LEMMA OnceNext ==
    ASSUME TypeInv, FreshInv, WholeInv, OnceInv, [Next]_vars
    PROVE  OnceInv'
<1> SUFFICES ASSUME "data" \notin blind'
             PROVE  OnceOK'
  BY DEF OnceInv
<1>1. CASE UNCHANGED vars
  BY <1>1 DEF vars, OnceInv, OnceOK, Spent, Holding, Ordered
<1>2. CASE Expires
  <2>1. session # None /\ session'.data = session.data /\ blind' = blind
    BY <1>2, ExpiresStep DEF Expires, history
  <2>2. UNCHANGED <<orders, pc, work>>
    BY <1>2 DEF Expires
  <2>3. QED
    BY <2>1, <2>2 DEF OnceInv, OnceOK, Spent, Holding, Ordered
<1>3. ASSUME NEW w \in Workers, Arrives(w) \/ Step(w) \/ Fails(w)
      PROVE  OnceOK'
  <2>1. OnceOK
    BY <1>3, BlindGrows DEF OnceInv
  <2>2. CASE ToolCreatesOrder(w) \/ MakesOrder(w) \/ ClosesForm(w) \/ Asks(w) \/ ToolLinks(w)
    BY <2>1, <2>2, OnceBegins, OnceDelivers, OnceCloses, OnceAsks, OnceLinks
  <2>3. CASE ~(ToolCreatesOrder(w) \/ MakesOrder(w) \/ ClosesForm(w) \/ Asks(w) \/ ToolLinks(w))
    <3>1. UNCHANGED orders
      BY <1>3, <2>3, Unordered
    <3>2. pc'[w] \in {"collect", "order"} => pc'[w] = pc[w] /\ work'[w] = work[w]
      BY <1>3, <2>3, Unordered
    <3>3. KeepsIntent
      BY <1>3, <2>3, IntentKept
    <3>4. \A v \in Workers : v # w => pc'[v] = pc[v] /\ work'[v] = work[v]
      BY <1>3, OthersStay
    <3>5. QED
      BY <2>1, <3>1, <3>2, <3>3, <3>4, OnceFrame
  <2>4. QED
    BY <2>2, <2>3
<1>4. QED
  BY <1>1, <1>2, <1>3 DEF Next

LEMMA OnceHolds == Spec => []OnceInv
<1>1. Init => OnceInv
  BY DEF Init, OnceInv, OnceOK, Holding
<1>2. TypeInv /\ FreshInv /\ WholeInv /\ OnceInv /\ [Next]_vars => OnceInv'
  BY OnceNext
<1>3. QED
  BY <1>1, <1>2, TypesHold, FreshHolds, WholeHolds, PTL DEF Spec

\* A call of create_order makes at most one order for each group of its goods,
\* at once or after the form, however many handlers answer the form at the same
\* time, unless one of them wrote state_data from a copy others had overtaken.
THEOREM OrderedOnceHolds == Spec => []OrderedOnce
<1>1. OnceInv => OrderedOnce
  BY DEF OnceInv, OnceOK, OrderedOnce
<1>2. QED
  BY <1>1, OnceHolds, PTL

----------------------------------------------------------------------------
(***************************************************************************)
(* The memory and the log.                                                 *)
(***************************************************************************)

LEMMA SameSeq ==
    ASSUME NEW S, NEW s \in Seq(S), NEW t \in Seq(S), Len(s) = Len(t),
           \A i \in 1..Len(s) : s[i] = t[i]
    PROVE  s = t
OBVIOUS

LEMMA SubSeqIs ==
    ASSUME NEW S, NEW s \in Seq(S), NEW m \in Nat, NEW n \in Nat, 1 <= m,
           n <= Len(s), m <= n + 1, NEW r, r = SubSeq(s, m, n)
    PROVE  /\ r \in Seq(S) /\ Len(r) = n - m + 1
           /\ \A i \in 1..(n - m + 1) : r[i] = s[m + i - 1]
OBVIOUS

LEMMA AppendIs ==
    ASSUME NEW S, NEW s \in Seq(S), NEW e \in S, NEW r, r = Append(s, e)
    PROVE  /\ r \in Seq(S) /\ Len(r) = Len(s) + 1
           /\ \A i \in 1..Len(s) : r[i] = s[i]
           /\ r[Len(s) + 1] = e
OBVIOUS

LastLen(k, s) == IF Len(s) <= k THEN Len(s) ELSE k
LEMMA LastOfIs ==
    ASSUME NEW S, NEW s \in Seq(S), NEW k \in Nat
    PROVE  /\ LastOf(k, s) \in Seq(S)
           /\ Len(LastOf(k, s)) = LastLen(k, s)
           /\ \A i \in 1..LastLen(k, s) : LastOf(k, s)[i] = s[(Len(s) - LastLen(k, s)) + i]
<1>1. PICK r, l, c : r = LastOf(k, s) /\ l = Len(s) /\ c = LastLen(k, s)
  OBVIOUS
<1>2. l \in Nat /\ ((l <= k /\ c = l) \/ (l > k /\ c = k))
  BY <1>1 DEF LastLen
<1>3. r \in Seq(S) /\ Len(r) = c /\ \A i \in 1..c : r[i] = s[(l - c) + i]
  <2>1. CASE l <= k
    <3>1. r = s /\ c = l
      BY <1>1, <1>2, <2>1 DEF LastOf
    <3>2. \A i \in 1..c : (l - c) + i = i
      BY <1>2, <3>1
    <3>3. QED
      BY <1>1, <3>1, <3>2
  <2>2. CASE l > k
    <3>1. r = SubSeq(s, Len(s) - k + 1, Len(s))
      BY <1>1, <1>2, <2>2 DEF LastOf
    <3>2. PICK m : m = l - k + 1
      OBVIOUS
    <3>3. m \in Nat /\ 1 <= m /\ l <= Len(s) /\ m <= l + 1 /\ l - m + 1 = k /\ c = k /\ c \in Nat
      BY <1>1, <1>2, <2>2, <3>2
    <3>4. r = SubSeq(s, m, l)
      BY <1>1, <3>1, <3>2
    <3>5. r \in Seq(S) /\ Len(r) = l - m + 1 /\ \A i \in 1..(l - m + 1) : r[i] = s[m + i - 1]
      BY <1>2, <3>3, <3>4, SubSeqIs
    <3>6. \A i \in 1..c : m + i - 1 = (l - c) + i
      BY <1>2, <3>2, <3>3
    <3>7. Len(r) = c /\ \A i \in 1..c : r[i] = s[m + i - 1]
      BY <3>3, <3>5
    <3>8. QED
      BY <3>5, <3>6, <3>7
  <2>3. QED
    BY <1>2, <2>1, <2>2
<1>4. QED
  BY <1>1, <1>3

\* To cut before appending comes to the same as to cut only after it.
LEMMA LastOfAppend ==
    ASSUME NEW S, NEW s \in Seq(S), NEW e \in S, NEW k \in Nat \ {0}
    PROVE  LastOf(k, Append(LastOf(k, s), e)) = LastOf(k, Append(s, e))
<1>1. PICK r, l, c : r = LastOf(k, s) /\ l = Len(s) /\ c = (IF l <= k THEN l ELSE k)
  OBVIOUS
<1>2. l \in Nat /\ k \in Nat /\ k >= 1 /\ c \in Nat
  BY <1>1
<1>3. r \in Seq(S) /\ Len(r) = c /\ \A i \in 1..c : r[i] = s[(l - c) + i]
  <2>1. r = LastOf(k, s) /\ l = Len(s) /\ c = LastLen(k, s)
    BY <1>1, <1>2 DEF LastLen
  <2>2. LastOf(k, s) \in Seq(S) /\ Len(LastOf(k, s)) = LastLen(k, s)
        /\ \A i \in 1..LastLen(k, s) : LastOf(k, s)[i] = s[(Len(s) - LastLen(k, s)) + i]
    BY <1>2, LastOfIs, Zenon
  <2>3. QED
    BY <2>1, <2>2
<1>4. PICK x, y : x = Append(r, e) /\ y = Append(s, e)
  OBVIOUS
<1>5. x \in Seq(S) /\ Len(x) = c + 1 /\ (\A i \in 1..c : x[i] = r[i]) /\ x[c + 1] = e
  <2>1. x \in Seq(S) /\ Len(x) = Len(r) + 1 /\ (\A i \in 1..Len(r) : x[i] = r[i])
        /\ x[Len(r) + 1] = e
    BY <1>3, <1>4, AppendIs
  <2>2. QED
    BY <1>3, <2>1
<1>6. y \in Seq(S) /\ Len(y) = l + 1 /\ (\A i \in 1..l : y[i] = s[i]) /\ y[l + 1] = e
  <2>1. y \in Seq(S) /\ Len(y) = Len(s) + 1 /\ (\A i \in 1..Len(s) : y[i] = s[i])
        /\ y[Len(s) + 1] = e
    BY <1>4, AppendIs
  <2>2. QED
    BY <1>1, <2>1
<1>7. PICK a, b, ca, cb : /\ a = LastOf(k, x) /\ b = LastOf(k, y)
                          /\ ca = (IF c + 1 <= k THEN c + 1 ELSE k)
                          /\ cb = (IF l + 1 <= k THEN l + 1 ELSE k)
  OBVIOUS
<1>8. a \in Seq(S) /\ Len(a) = ca /\ \A i \in 1..ca : a[i] = x[((c + 1) - ca) + i]
  <2>1. PICK m : m = c + 1
    OBVIOUS
  <2>2. m = Len(x) /\ ((m <= k /\ ca = m) \/ (m > k /\ ca = k))
    BY <1>2, <1>5, <1>7, <2>1
  <2>3. a \in Seq(S) /\ Len(a) = ca /\ \A i \in 1..ca : a[i] = x[(m - ca) + i]
    <3>1. x \in Seq(S)
      BY <1>5
    <3>2. a = LastOf(k, x)
      BY <1>7
    <3>3. m = Len(x) /\ ca = LastLen(k, x)
      BY <1>2, <2>1, <2>2 DEF LastLen
    <3>4. k \in Nat
      BY <1>2
    <3>5. LastOf(k, x) \in Seq(S) /\ Len(LastOf(k, x)) = LastLen(k, x)
          /\ \A i \in 1..LastLen(k, x) : LastOf(k, x)[i] = x[(Len(x) - LastLen(k, x)) + i]
      BY <3>1, <3>4, LastOfIs, Zenon
    <3>6. QED
      BY <3>2, <3>3, <3>5
  <2>4. QED
    BY <2>1, <2>3
<1>9. b \in Seq(S) /\ Len(b) = cb /\ \A i \in 1..cb : b[i] = y[((l + 1) - cb) + i]
  <2>1. PICK m : m = l + 1
    OBVIOUS
  <2>2. m = Len(y) /\ ((m <= k /\ cb = m) \/ (m > k /\ cb = k))
    BY <1>2, <1>6, <1>7, <2>1
  <2>3. b \in Seq(S) /\ Len(b) = cb /\ \A i \in 1..cb : b[i] = y[(m - cb) + i]
    <3>1. y \in Seq(S)
      BY <1>6
    <3>2. b = LastOf(k, y)
      BY <1>7
    <3>3. m = Len(y) /\ cb = LastLen(k, y)
      BY <1>2, <2>1, <2>2 DEF LastLen
    <3>4. k \in Nat
      BY <1>2
    <3>5. LastOf(k, y) \in Seq(S) /\ Len(LastOf(k, y)) = LastLen(k, y)
          /\ \A i \in 1..LastLen(k, y) : LastOf(k, y)[i] = y[(Len(y) - LastLen(k, y)) + i]
      BY <3>1, <3>4, LastOfIs, Zenon
    <3>6. QED
      BY <3>2, <3>3, <3>5
  <2>4. QED
    BY <2>1, <2>3
<1>10. cb = ca /\ ((c = l /\ ca = l + 1) \/ (c = k /\ ca = k /\ k <= l))
  BY <1>1, <1>2, <1>7
<1>11. ASSUME NEW i \in 1..ca
       PROVE  a[i] = b[i]
  <2>1. PICK p, q : p = ((c + 1) - ca) + i /\ q = ((l + 1) - cb) + i
    OBVIOUS
  <2>2. a[i] = x[p] /\ b[i] = y[q]
    BY <1>8, <1>9, <1>10, <2>1
  <2>3. \/ p = c + 1 /\ q = l + 1
        \/ p \in 1..c /\ q \in 1..l /\ q = (l - c) + p
    BY <1>2, <1>10, <2>1
  <2>4. CASE p = c + 1 /\ q = l + 1
    BY <1>5, <1>6, <2>2, <2>4
  <2>5. CASE p \in 1..c /\ q \in 1..l /\ q = (l - c) + p
    BY <1>3, <1>5, <1>6, <2>2, <2>5
  <2>6. QED
    BY <2>3, <2>4, <2>5
<1>12. a = b
  BY <1>8, <1>9, <1>10, <1>11, SameSeq
<1>13. QED
  BY <1>1, <1>4, <1>7, <1>12

LEMMA SubSeqAppend ==
    ASSUME NEW S, NEW s \in Seq(S), NEW e \in S, NEW a \in Nat, a <= Len(s)
    PROVE  SubSeq(Append(s, e), a + 1, Len(s) + 1) = Append(SubSeq(s, a + 1, Len(s)), e)
<1>1. PICK l, y, r, u, v : /\ l = Len(s) /\ y = Append(s, e) /\ r = SubSeq(s, a + 1, l) 
                           /\ u = SubSeq(y, a + 1, l + 1) /\ v = Append(r, e)
  OBVIOUS
<1>2. l \in Nat /\ a \in Nat /\ a <= l /\ a + 1 \in Nat /\ l + 1 \in Nat
  BY <1>1
<1>3. y \in Seq(S) /\ Len(y) = l + 1 /\ (\A i \in 1..l : y[i] = s[i]) /\ y[l + 1] = e
  BY <1>1, AppendIs
<1>4. r \in Seq(S) /\ Len(r) = l - a /\ \A i \in 1..(l - a) : r[i] = s[a + i]
  <2>1. r \in Seq(S) /\ Len(r) = l - (a + 1) + 1 /\ \A i \in 1..(l - (a + 1) + 1) : r[i] = s[(a + 1) + i - 1]
    BY <1>1, <1>2, SubSeqIs
  <2>2. QED
    BY <1>2, <2>1
<1>5. u \in Seq(S) /\ Len(u) = l - a + 1 /\ \A i \in 1..(l - a + 1) : u[i] = y[a + i]
  <2>1. u \in Seq(S) /\ Len(u) = (l + 1) - (a + 1) + 1
        /\ \A i \in 1..((l + 1) - (a + 1) + 1) : u[i] = y[(a + 1) + i - 1]
    BY <1>1, <1>2, <1>3, SubSeqIs
  <2>2. QED
    BY <1>2, <2>1
<1>6. v \in Seq(S) /\ Len(v) = l - a + 1 /\ (\A i \in 1..(l - a) : v[i] = r[i]) /\ v[l - a + 1] = e
  BY <1>1, <1>2, <1>4, AppendIs
<1>7. ASSUME NEW i \in 1..(l - a + 1)
      PROVE  u[i] = v[i]
  <2>1. u[i] = y[a + i]
    BY <1>5
  <2>2. CASE i = l - a + 1
    BY <1>2, <1>3, <1>6, <2>1, <2>2
  <2>3. CASE i \in 1..(l - a)
    <3>1. a + i \in 1..l
      BY <1>2, <2>3
    <3>2. QED
      BY <1>3, <1>4, <1>6, <2>1, <2>3, <3>1
  <2>4. QED
    BY <1>2, <2>2, <2>3
<1>8. QED
  BY <1>1, <1>5, <1>6, <1>7, SameSeq

\* The window kept of the log since the conversation began.
Recent(start) == LastOf(2 * Window, SubSeq(log, start + 1, Len(log)))

LogInv ==
    session # None =>
       /\ session.started <= Len(log)
       /\ "memory" \notin blind => session.memory = Recent(session.started)

LEMMA LogTyped ==
    ASSUME TypeInv
    PROVE  /\ log \in Seq(Entries) /\ Len(log) \in Nat /\ 2 * Window \in Nat \ {0}
           /\ session # None => session \in Rows /\ session.started \in Nat
                                /\ session.memory \in Seq(Entries)
BY Bounds DEF TypeInv, DataOK, Rows

LEMMA NothingRecent ==
    ASSUME TypeInv
    PROVE  Recent(Len(log)) = << >>
<1>1. PICK l, k, e : l = Len(log) /\ k = 2 * Window /\ e = SubSeq(log, l + 1, l)
  OBVIOUS
<1>2. l \in Nat /\ k \in Nat /\ log \in Seq(Entries)
  BY <1>1, LogTyped
<1>3. e = << >>
  BY <1>1, <1>2
<1>4. Len(e) = 0 /\ Len(e) <= k
  BY <1>2, <1>3
<1>5. QED
  BY <1>1, <1>3, <1>4 DEF Recent, LastOf

LEMMA RecentGrows ==
    ASSUME TypeInv, NEW e \in Entries, log' = Append(log, e), NEW a \in Nat, a <= Len(log)
    PROVE  /\ Len(log') = Len(log) + 1
           /\ Trimmed(Append(Recent(a), e)) = LastOf(2 * Window, SubSeq(log', a + 1, Len(log')))
<1>1. PICK k, t, l : k = 2 * Window /\ t = SubSeq(log, a + 1, l) /\ l = Len(log)
  OBVIOUS
<1>2. log \in Seq(Entries) /\ k \in Nat \ {0} /\ l \in Nat
  BY <1>1, LogTyped
<1>3. Len(log') = l + 1
  BY <1>1, <1>2
<1>4. t \in Seq(Entries)
  <2>1. a + 1 \in Nat /\ 1 <= a + 1 /\ l <= Len(log) /\ a + 1 <= l + 1
    BY <1>1, <1>2
  <2>2. QED
    BY <1>1, <1>2, <2>1, SubSeqIs
<1>5. SubSeq(log', a + 1, l + 1) = Append(t, e)
  BY <1>1, <1>2, SubSeqAppend
<1>6. LastOf(k, Append(LastOf(k, t), e)) = LastOf(k, Append(t, e))
  BY <1>2, <1>4, LastOfAppend
<1>7. QED
  BY <1>1, <1>3, <1>5, <1>6 DEF Recent, Trimmed

\* The steps that leave the log, and the memory and its start, as they are.
LEMMA LogFrame ==
    ASSUME LogInv, blind \subseteq blind', log' = log,
           session' # None => /\ session # None /\ session'.memory = session.memory
                              /\ session'.started = session.started
    PROVE  LogInv'
BY DEF LogInv, Recent

LEMMA LogNotes ==
    ASSUME TypeInv, FreshInv, LogInv, NEW w \in Workers, NEW role, NEW s, pc[w] # "idle", Notes(w, role, s)
    PROVE  LogInv'
<1>1. PICK new, changed, entry :
          /\ Writes(w, s, new, changed) /\ entry \in Entries /\ log' = Append(log, entry)
          /\ new.memory = Trimmed(Append(work[w].row.memory, entry))
          /\ "memory" \in changed <=> new.memory # work[w].row.memory
          /\ blind' = blind \union (stale[w] \intersect {"memory"})
  BY DEF Notes
<1>2. session # None /\ work[w].row # None /\ session'.started = session.started
  BY <1>1, Bounds DEF Writes
<1>3. session.started \in Nat /\ session.started <= Len(log)
  BY <1>2, LogTyped DEF LogInv
<1>4. PICK a, m : a = session.started /\ m = Recent(a)
  OBVIOUS
<1>5. /\ Len(log') = Len(log) + 1
      /\ Trimmed(Append(m, entry)) = LastOf(2 * Window, SubSeq(log', a + 1, Len(log')))
  BY <1>1, <1>3, <1>4, RecentGrows
<1>6. session'.started <= Len(log')
  BY <1>2, <1>3, <1>5, LogTyped
<1>7. ASSUME "memory" \notin blind'
      PROVE  session'.memory = LastOf(2 * Window, SubSeq(log', a + 1, Len(log')))
  <2>1. "memory" \notin blind /\ "memory" \notin stale[w]
    BY <1>1, <1>7
  <2>2. work[w].row.memory = session.memory
    BY <1>2, <2>1 DEF FreshInv, FreshOK
  <2>3. session.memory = m
    BY <1>2, <1>4, <2>1 DEF LogInv
  <2>4. session'.memory = new.memory
    BY <1>1, <2>2 DEF Writes
  <2>5. QED
    BY <1>1, <1>5, <2>2, <2>3, <2>4
<1>8. QED
  BY <1>2, <1>4, <1>6, <1>7 DEF LogInv, Recent

LEMMA LogResets ==
    ASSUME TypeInv, FreshInv, LogInv, NEW w \in Workers, Resets(w)
    PROVE  LogInv'
<1>1. PICK old : old = work[w].row
  OBVIOUS
<1>2. /\ pc[w] = "open" /\ old \in Rows /\ session \in Rows
      /\ session'.memory = Kept(session.memory, old.memory, << >>)
      /\ session'.started = Kept(session.started, old.started, Len(log))
      /\ log' = log /\ blind' = blind \union stale[w]
  BY <1>1 DEF Resets
<1>3. session # None /\ old # None
  BY <1>2, Bounds
<1>4. session'.started <= Len(log')
  BY <1>2, <1>3, LogTyped DEF LogInv, Kept
<1>5. ASSUME "memory" \notin blind'
      PROVE  session'.memory = << >> /\ session'.started = Len(log)
  <2>1. "memory" \notin stale[w] /\ FreshOK(pc[w], old, stale[w])
    BY <1>1, <1>2, <1>5 DEF FreshInv
  <2>2. "started" \notin stale[w]
    BY <2>1 DEF FreshOK
  <2>3. old.memory = session.memory /\ old.started = session.started
    BY <1>2, <1>3, <2>1, <2>2 DEF FreshOK
  <2>4. QED
    BY <1>2, <2>3 DEF Kept
<1>6. (Recent(Len(log)) = << >>)'
  BY <1>2, NothingRecent DEF Recent
<1>7. QED
  BY <1>2, <1>4, <1>5, <1>6 DEF LogInv

LEMMA LogMakes ==
    ASSUME TypeInv, NEW w \in Workers, Makes(w)
    PROVE  LogInv'
<1>1. session' = NewRow /\ log' = log
  BY DEF Makes
<1>2. session'.memory = << >> /\ session'.started = Len(log)
  BY <1>1, NewRowType DEF TypeInv
<1>3. (Recent(Len(log)) = << >>)'
  BY <1>1, NothingRecent DEF Recent
<1>4. QED
  BY <1>1, <1>2, <1>3, LogTyped DEF LogInv

LEMMA LogStep ==
    ASSUME TypeInv, FreshInv, LogInv, NEW w \in Workers, Step(w)
    PROVE  LogInv'
<1>1. pc[w] # "idle" /\ blind \subseteq blind'
  BY StepShapes, BlindGrows
<1>2. CASE Glances(w)
  BY <1>1, <1>2, LogFrame DEF Glances, Reads
<1>3. CASE Makes(w) \/ Resets(w)
  BY <1>3, LogMakes, LogResets
<1>4. ASSUME NEW s, NEW n, NEW new, NEW changed, Alters(w, s, n, new, changed)
      PROVE  LogInv'
  <2>1. Writes(w, s, new, changed) /\ "memory" \notin changed /\ log' = log
    BY <1>4 DEF Alters
  <2>2. session # None /\ session'.memory = session.memory /\ session'.started = session.started
    BY <2>1, Bounds DEF Writes
  <2>3. QED
    BY <1>1, <2>1, <2>2, LogFrame
<1>5. ASSUME NEW s, NEW role \in {"user", "assistant"}, Notes(w, role, s)
      PROVE  LogInv'
  BY <1>1, <1>5, LogNotes
<1>6. QED
  BY <1>2, <1>3, <1>4, <1>5, StepShapes

LEMMA LogNext ==
    ASSUME TypeInv, FreshInv, LogInv, [Next]_vars
    PROVE  LogInv'
<1>1. CASE UNCHANGED vars
  BY <1>1, LogFrame DEF vars
<1>2. CASE Expires
  BY <1>2, LogFrame, ExpiresStep DEF Expires, history
<1>3. ASSUME NEW w \in Workers, Step(w)
      PROVE  LogInv'
  BY <1>3, LogStep
<1>4. ASSUME NEW w \in Workers, Arrives(w) \/ Fails(w)
      PROVE  LogInv'
  <2>1. session' = session /\ log' = log
    BY <1>4, ArrivesStep, FailsStep DEF Glances, Reads
  <2>2. QED
    BY <1>4, <2>1, BlindGrows, LogFrame
<1>5. QED
  BY <1>1, <1>2, <1>3, <1>4 DEF Next

LEMMA LogHolds == Spec => []LogInv
<1>1. Init => LogInv
  BY DEF Init, LogInv
<1>2. TypeInv /\ FreshInv /\ LogInv /\ [Next]_vars => LogInv'
  BY LogNext
<1>3. QED
  BY <1>1, <1>2, TypesHold, FreshHolds, PTL DEF Spec

\* The memory given to the model is the end of the permanent log since the
\* conversation began, though every handler cuts it from its own copy of the
\* row: add_message's trimming, the reset of an expired session and whatever
\* else is written to the row never part the two, whatever the window's size.
THEOREM MemoryFollowsLog == Spec => []MemoryIsLogTail
<1>1. LogInv => MemoryIsLogTail
  BY DEF LogInv, MemoryIsLogTail, Recent
<1>2. QED
  BY <1>1, LogHolds, PTL

----------------------------------------------------------------------------
(***************************************************************************)
(* Whole turns.                                                            *)
(***************************************************************************)

\* From place a on the log alternates, each reply with its message's turn.
Paired(a) ==
    \A i \in 1..(Len(log) - a) :
       IF i % 2 = 1 THEN log[a + i].role = "user"
       ELSE log[a + i] = [turn |-> log[a + i - 1].turn, role |-> "assistant"]

\* The last turn has its reply, or is turn t and awaits it.
Complete(a) == Paired(a) /\ (Len(log) - a) % 2 = 0
Awaits(a, t) == Paired(a) /\ (Len(log) - a) % 2 = 1 /\ log[Len(log)].turn = t

LEMMA TurnOpens ==
    ASSUME TypeInv, NEW a \in Nat, a <= Len(log), Complete(a), NEW e \in Entries,
           log' = Append(log, e), e.role = "user", NEW t, e.turn = t
    PROVE  Awaits(a, t)'
<1>1. PICK l, n : l = Len(log) /\ n = l - a
  OBVIOUS
<1>2. l \in Nat /\ n \in Nat /\ l = a + n /\ log \in Seq(Entries)
  BY <1>1, LogTyped
<1>3. Len(log') = l + 1 /\ log'[l + 1] = e /\ \A i \in 1..l : log'[i] = log[i]
  BY <1>1, <1>2
<1>4. n % 2 = 0 /\ (n + 1) % 2 = 1
  BY <1>1, <1>2 DEF Complete
<1>5. ASSUME NEW i \in 1..(n + 1)
      PROVE  IF i % 2 = 1 THEN log'[a + i].role = "user"
             ELSE log'[a + i] = [turn |-> log'[a + i - 1].turn, role |-> "assistant"]
  <2>1. CASE i = n + 1
    <3>1. a + i = l + 1
      BY <1>2, <2>1
    <3>2. QED
      BY <1>3, <1>4, <2>1, <3>1
  <2>2. CASE i \in 1..n
    <3>1. IF i % 2 = 1 THEN log[a + i].role = "user"
          ELSE log[a + i] = [turn |-> log[a + i - 1].turn, role |-> "assistant"]
      BY <1>1, <2>2 DEF Complete, Paired
    <3>2. a + i \in 1..l /\ log'[a + i] = log[a + i]
      BY <1>2, <1>3, <2>2
    <3>3. CASE i % 2 = 1
      BY <3>1, <3>2, <3>3
    <3>4. CASE i % 2 # 1
      <4>1. i # 1
        BY <3>4
      <4>2. a + i - 1 \in 1..l /\ log'[a + i - 1] = log[a + i - 1]
        BY <1>2, <1>3, <2>2, <4>1
      <4>3. QED
        BY <3>1, <3>2, <3>4, <4>2
    <3>5. QED
      BY <3>3, <3>4
  <2>3. i = n + 1 \/ i \in 1..n
    BY <1>2
  <2>4. QED
    BY <2>1, <2>2, <2>3, Zenon
<1>6. Len(log') - a = n + 1
  BY <1>2, <1>3
<1>7. QED
  BY <1>3, <1>4, <1>5, <1>6 DEF Awaits, Paired

LEMMA TurnCloses ==
    ASSUME TypeInv, NEW a \in Nat, a <= Len(log), NEW t, Awaits(a, t), NEW e \in Entries,
           log' = Append(log, e), e = [turn |-> t, role |-> "assistant"]
    PROVE  Complete(a)'
<1>1. PICK l, n : l = Len(log) /\ n = l - a
  OBVIOUS
<1>2. l \in Nat /\ n \in Nat /\ l = a + n /\ log \in Seq(Entries)
  BY <1>1, LogTyped
<1>3. Len(log') = l + 1 /\ log'[l + 1] = e /\ \A i \in 1..l : log'[i] = log[i]
  BY <1>1, <1>2
<1>4. n % 2 = 1 /\ (n + 1) % 2 = 0 /\ n >= 1
  BY <1>1, <1>2 DEF Awaits
<1>5. ASSUME NEW i \in 1..(n + 1)
      PROVE  IF i % 2 = 1 THEN log'[a + i].role = "user"
             ELSE log'[a + i] = [turn |-> log'[a + i - 1].turn, role |-> "assistant"]
  <2>1. CASE i = n + 1
    <3>1. a + i = l + 1 /\ a + i - 1 = l /\ l \in 1..l /\ i % 2 = 0
      BY <1>2, <1>4, <2>1
    <3>2. log'[l] = log[l] /\ log[l].turn = t
      BY <1>1, <1>3, <3>1 DEF Awaits
    <3>3. log'[a + i] = e /\ log'[a + i - 1].turn = t
      BY <1>3, <3>1, <3>2
    <3>4. [turn |-> log'[a + i - 1].turn, role |-> "assistant"] = e
      BY <3>3
    <3>5. i % 2 # 1
      BY <3>1
    <3>6. QED
      BY <3>3, <3>4, <3>5, Zenon
  <2>2. CASE i \in 1..n
    <3>1. IF i % 2 = 1 THEN log[a + i].role = "user"
          ELSE log[a + i] = [turn |-> log[a + i - 1].turn, role |-> "assistant"]
      BY <1>1, <2>2 DEF Awaits, Paired
    <3>2. a + i \in 1..l /\ log'[a + i] = log[a + i]
      BY <1>2, <1>3, <2>2
    <3>3. CASE i % 2 = 1
      BY <3>1, <3>2, <3>3
    <3>4. CASE i % 2 # 1
      <4>1. i # 1
        BY <3>4
      <4>2. a + i - 1 \in 1..l /\ log'[a + i - 1] = log[a + i - 1]
        BY <1>2, <1>3, <2>2, <4>1
      <4>3. QED
        BY <3>1, <3>2, <3>4, <4>2
    <3>5. QED
      BY <3>3, <3>4
  <2>3. i = n + 1 \/ i \in 1..n
    BY <1>2
  <2>4. QED
    BY <2>1, <2>2, <2>3, Zenon
<1>6. Len(log') - a = n + 1
  BY <1>2, <1>3
<1>7. QED
  BY <1>3, <1>4, <1>5, <1>6 DEF Complete, Paired

\* What the window shows of the log.
LEMMA RecentIs ==
    ASSUME TypeInv, NEW a \in Nat, a <= Len(log), NEW n, n = Len(log) - a, NEW k, k = 2 * Window,
           NEW c, (n <= k /\ c = n) \/ (n > k /\ c = k), NEW m, m = Recent(a)
    PROVE  m \in Seq(Entries) /\ Len(m) = c /\ \A i \in 1..c : m[i] = log[a + ((n - c) + i)]
<1>1. PICK l, s : l = Len(log) /\ s = SubSeq(log, a + 1, l)
  OBVIOUS
<1>2. l \in Nat /\ n \in Nat /\ l = a + n /\ log \in Seq(Entries) /\ k \in Nat /\ c \in Nat /\ c <= n
  BY <1>1, LogTyped
<1>3. s \in Seq(Entries) /\ Len(s) = n /\ \A i \in 1..n : s[i] = log[a + i]
  <2>1. a + 1 \in Nat /\ 1 <= a + 1 /\ l <= Len(log) /\ a + 1 <= l + 1 /\ l - (a + 1) + 1 = n
    BY <1>1, <1>2
  <2>2. s \in Seq(Entries) /\ Len(s) = l - (a + 1) + 1
        /\ \A i \in 1..(l - (a + 1) + 1) : s[i] = log[(a + 1) + i - 1]
    BY <1>1, <1>2, <2>1, SubSeqIs
  <2>3. \A i \in 1..n : (a + 1) + i - 1 = a + i
    BY <1>2
  <2>4. QED
    BY <2>1, <2>2, <2>3
<1>4. m = LastOf(k, s)
  BY <1>1 DEF Recent
<1>5. n = Len(s)
  BY <1>3
<1>6. m \in Seq(Entries) /\ Len(m) = c /\ \A i \in 1..c : m[i] = s[(n - c) + i]
  <2>1. c = LastLen(k, s)
    BY <1>2, <1>5 DEF LastLen
  <2>2. LastOf(k, s) \in Seq(Entries) /\ Len(LastOf(k, s)) = LastLen(k, s)
        /\ \A i \in 1..LastLen(k, s) : LastOf(k, s)[i] = s[(Len(s) - LastLen(k, s)) + i]
    BY <1>2, <1>3, LastOfIs, Zenon
  <2>3. QED
    BY <1>4, <1>5, <2>1, <2>2
<1>7. ASSUME NEW i \in 1..c
      PROVE  m[i] = log[a + ((n - c) + i)]
  <2>1. (n - c) + i \in 1..n
    BY <1>2
  <2>2. QED
    BY <1>3, <1>6, <2>1
<1>8. QED
  BY <1>6, <1>7

\* A message recorded after a message moves the window.
LEMMA WindowMoves ==
    ASSUME TypeInv, NEW a \in Nat, a <= Len(log), NEW t, Awaits(a, t), NEW m, m = Recent(a),
           NEW e \in Entries, e.role = "user"
    PROVE  Trimmed(Append(m, e)) # m
<1>1. PICK n, k : n = Len(log) - a /\ k = 2 * Window
  OBVIOUS
<1>2. PICK c : (n <= k /\ c = n) \/ (n > k /\ c = k)
  <2>1. n <= k \/ n > k
    BY <1>1, LogTyped
  <2>2. QED
    BY <2>1
<1>3. n \in Nat /\ k \in Nat /\ k >= 2 /\ c \in Nat /\ c <= n /\ c <= k /\ n % 2 = 1 /\ k % 2 = 0
  BY <1>1, <1>2, LogTyped, Bounds DEF Awaits
<1>4. m \in Seq(Entries) /\ Len(m) = c /\ \A i \in 1..c : m[i] = log[a + ((n - c) + i)]
  BY <1>1, <1>2, RecentIs
<1>5. PICK x : x = Append(m, e)
  OBVIOUS
<1>6. x \in Seq(Entries) /\ Len(x) = c + 1 /\ (\A i \in 1..c : x[i] = m[i]) /\ x[c + 1] = e
  BY <1>3, <1>4, <1>5
<1>7. CASE c < k
  <2>1. Trimmed(x) = x
    BY <1>1, <1>3, <1>6, <1>7 DEF Trimmed, LastOf
  <2>2. QED
    BY <1>3, <1>4, <1>5, <1>6, <2>1
<1>8. CASE c = k
  <2>1. c > 1 /\ n > 1 /\ c = k /\ n - 1 \in 1..n /\ (n - 1) % 2 = 0 /\ n % 2 = 1
    BY <1>3, <1>8
  <2>2. log[a + n].role = "user"
    <3>1. n \in 1..(Len(log) - a) /\ n % 2 = 1
      BY <1>1, <1>3, <2>1
    <3>2. Paired(a)
      BY DEF Awaits
    <3>3. QED
      BY <3>1, <3>2, Zenon DEF Paired
  <2>3. log[a + (n - 1)] = [turn |-> log[a + (n - 1) - 1].turn, role |-> "assistant"]
    <3>1. PICK j : j = n - 1
      OBVIOUS
    <3>2. j \in 1..n /\ j % 2 # 1
      BY <2>1, <3>1
    <3>3. log[a + j] = [turn |-> log[a + j - 1].turn, role |-> "assistant"]
      BY <1>1, <3>2 DEF Awaits, Paired
    <3>4. QED
      BY <3>1, <3>3
  <2>4. m[c].role = "user" /\ m[c - 1].role = "assistant"
    <3>1. c \in 1..c /\ c - 1 \in 1..c /\ (n - c) + c = n /\ (n - c) + (c - 1) = n - 1
      BY <1>3, <2>1
    <3>2. m[c] = log[a + n] /\ m[c - 1] = log[a + (n - 1)]
      BY <1>4, <3>1
    <3>3. QED
      BY <2>2, <2>3, <3>2
  <2>5. PICK y : y = Trimmed(x)
    OBVIOUS
  <2>6. y \in Seq(Entries) /\ Len(y) = k /\ \A i \in 1..k : y[i] = x[((c + 1) - k) + i]
    <3>1. PICK q : q = c + 1
      OBVIOUS
    <3>2. q = Len(x) /\ ((q <= k /\ k = q) \/ (q > k /\ k = k))
      BY <1>3, <1>6, <1>8, <3>1
    <3>3. y = LastOf(k, x)
      BY <1>1, <2>5 DEF Trimmed
    <3>4. y \in Seq(Entries) /\ Len(y) = k /\ \A i \in 1..k : y[i] = x[(q - k) + i]
      <4>1. q = Len(x) /\ k = LastLen(k, x)
        BY <1>3, <3>1, <3>2 DEF LastLen
      <4>2. k \in Nat /\ x \in Seq(Entries)
        BY <1>3, <1>6
      <4>3. LastOf(k, x) \in Seq(Entries) /\ Len(LastOf(k, x)) = LastLen(k, x)
            /\ \A i \in 1..LastLen(k, x) : LastOf(k, x)[i] = x[(Len(x) - LastLen(k, x)) + i]
        BY <4>2, LastOfIs, Zenon
      <4>4. QED
        BY <3>3, <4>1, <4>3
    <3>5. QED
      BY <3>1, <3>4
  <2>7. y[c - 1] = m[c]
    <3>1. c - 1 \in 1..k /\ ((c + 1) - k) + (c - 1) = c /\ c \in 1..c
      BY <1>3, <1>8, <2>1
    <3>2. QED
      BY <1>6, <2>6, <3>1
  <2>8. QED
    BY <1>5, <2>4, <2>5, <2>7
<1>9. QED
  BY <1>3, <1>7, <1>8

\* w has recorded its message and not its reply.
HalfAt(w) == Half(pc[w], work[w])

LEMMA HalfIs ==
    ASSUME TypeInv, NEW w \in Workers
    PROVE  HalfAt(w) <=> Halfway(w)
<1>1. work[w].flow \in BOOLEAN
  BY Holds DEF Works
<1>2. QED
  BY <1>1 DEF HalfAt, Half, Halfway

LEMMA HalvedKept ==
    ASSUME NEW w \in Workers, Step(w)
    PROVE  halved' = halved
<1>1. CASE Creates(w) \/ Opens(w) \/ Reopens(w) \/ FallsBack(w)
  BY <1>1, Zenon DEF Creates, Opens, Reopens, FallsBack
<1>2. CASE Thinks(w) \/ MakesOrder(w) \/ ToolLinks(w) \/ CompletesForm(w)
  <2>1. UNCHANGED history
    BY <1>2, Zenon DEF Thinks, MakesOrder, ToolLinks, CompletesForm
  <2>2. QED
    BY <2>1 DEF history
<1>3. CASE ToolReads(w) \/ ToolOpensCart(w) \/ ToolCreatesOrder(w)
  BY <1>3, Zenon DEF ToolReads, ToolOpensCart, ToolCreatesOrder
<1>4. CASE ToolWritesCart(w) \/ Asks(w) \/ CancelsForm(w) \/ ClosesForm(w) \/ ActsOutside(w)
  BY <1>4, Zenon DEF ToolWritesCart, Asks, CancelsForm, ClosesForm, ActsOutside
<1>5. CASE AnswersForm(w)
  BY <1>5 DEF AnswersForm, history
<1>6. CASE RecordsUser(w) \/ RecordsReply(w)
  BY <1>6, Zenon DEF RecordsUser, RecordsReply
<1>7. QED
  BY <1>1, <1>2, <1>3, <1>4, <1>5, <1>6, Zenon DEF Step

LEMMA GoesWith ==
    ASSUME TypeInv, NEW w \in Workers, NEW s, s # "idle", NEW n, Goes(w, s, n)
    PROVE  work'[w] = n
BY DEF Goes, TypeInv

LEMMA CommitsTurn ==
    ASSUME TypeInv, NEW w \in Workers, NEW s, s # "idle", NEW new, NEW relied, NEW after \in Works,
           Commits(w, new, relied, s, after)
    PROVE  work'[w].turn = after.turn
<1>1. PICK n : n = [after EXCEPT !.row = new]
  OBVIOUS
<1>2. work'[w] = n
  BY <1>1, GoesWith DEF Commits
<1>3. n.turn = after.turn
  BY <1>1 DEF Works
<1>4. QED
  BY <1>2, <1>3

\* A handler that is halfway keeps its turn, and what it has missed.
LEMMA HalfStays ==
    ASSUME TypeInv, NEW w \in Workers, HalfAt(w), Step(w), ~RecordsReply(w)
    PROVE  work'[w].turn = work[w].turn /\ stale'[w] = stale[w] /\ HalfAt(w)'
<1>1. PICK m : m = work[w]
  OBVIOUS
<1>2. m \in Works /\ pc[w] \in {"act", "close", "reply", "order"}
  BY <1>1, Holds DEF HalfAt, Half
<1>3. ASSUME NEW s, NEW n, Moves(w, s, n), Half(s, n) = Half(pc[w], work[w])
      PROVE  HalfAt(w)'
  BY <1>3 DEF Moves, TypeInv, HalfAt
<1>4. ASSUME Glances(w)
      PROVE  HalfAt(w)'
  BY <1>3, <1>4, Zenon DEF Glances
<1>5. ASSUME NEW s, NEW n, NEW new, NEW changed, Alters(w, s, n, new, changed)
      PROVE  HalfAt(w)' /\ stale'[w] = stale[w]
  <2>1. HalfAt(w)'
    BY <1>3, <1>5 DEF Alters
  <2>2. s # "idle" /\ Misses(w, s, changed) /\ pc[w] # "idle"
    BY <1>2, <1>5 DEF Alters, Writes
  <2>3. QED
    BY <2>1, <2>2 DEF Misses
<1>6. CASE MakesOrder(w)
  <2>1. HalfAt(w)'
    BY <1>4, <1>6, MakesOrderStep
  <2>2. stale' = stale
    BY <1>6 DEF MakesOrder, history
  <2>3. m.flow = TRUE
    BY <1>1, <1>6 DEF HalfAt, Half, MakesOrder
  <2>4. \E make : Goes(w, "order", [m EXCEPT !.make = make])
                  \/ Goes(w, "reply", [m EXCEPT !.make = make])
    BY <1>1, <1>6, <2>3, Zenon DEF MakesOrder
  <2>5. PICK make, n : n = [m EXCEPT !.make = make] /\ (Goes(w, "order", n) \/ Goes(w, "reply", n))
    BY <2>4
  <2>6. n.turn = m.turn /\ work'[w] = n
    <3>1. work'[w] = n
      BY <2>5, GoesWith
    <3>2. n.turn = m.turn
      BY <1>2, <2>5 DEF Works
    <3>3. QED
      BY <3>1, <3>2
  <2>7. QED
    BY <1>1, <2>1, <2>2, <2>6
<1>7. CASE CompletesForm(w)
  <2>1. HalfAt(w)'
    BY <1>4, <1>7, CompletesFormStep
  <2>2. stale' = stale /\ work'[w] = work[w]
    BY <1>7, GoesWith DEF CompletesForm, history
  <2>3. QED
    BY <2>1, <2>2
<1>8. CASE AnswersForm(w)
  <2>1. HalfAt(w)'
    BY <1>4, <1>5, <1>8, AnswersFormStep
  <2>2. work'[w] = work[w]
    BY <1>8, GoesWith DEF AnswersForm
  <2>3. stale'[w] = stale[w]
    BY <1>2, <1>8 DEF AnswersForm, history, Misses
  <2>4. QED
    BY <2>1, <2>2, <2>3
<1>9. CASE CancelsForm(w)
  <2>1. HalfAt(w)' /\ stale'[w] = stale[w]
    BY <1>5, <1>9, CancelsFormStep
  <2>2. \E new : Commits(w, new, {}, "act", m)
    BY <1>1, <1>9, Zenon DEF CancelsForm
  <2>3. QED
    BY <1>1, <1>2, <2>1, <2>2, CommitsTurn
<1>10. CASE ActsOutside(w)
  <2>1. HalfAt(w)' /\ stale'[w] = stale[w]
    BY <1>5, <1>10, ActsOutsideStep
  <2>2. \E new, relied : Commits(w, new, relied, "reply", m)
    BY <1>1, <1>10, Zenon DEF ActsOutside
  <2>3. QED
    BY <1>1, <1>2, <2>1, <2>2, CommitsTurn
<1>11. CASE ClosesForm(w)
  <2>1. HalfAt(w)' /\ stale'[w] = stale[w]
    BY <1>5, <1>11, ClosesFormStep
  <2>2. PICK call : call = m.row.data.intent
    OBVIOUS
  <2>3. \/ \E new : Commits(w, new, {"data"}, "reply", m)
        \/ call # 0 /\ \E new : Commits(w, new, {"data"}, "order",
                                        [m EXCEPT !.call = call, !.make = demands[call]])
    BY <1>1, <1>11, <2>2, Zenon DEF ClosesForm
  <2>4. PICK n : n = [m EXCEPT !.call = call, !.make = demands[call]]
    OBVIOUS
  <2>5. pc[w] = "close"
    BY <1>11 DEF ClosesForm
  <2>6. call # 0 => n \in Works /\ n.turn = m.turn
    <3>1. call <= Len(demands) /\ m.row \in Rows /\ Len(demands) \in Nat
      BY <1>1, <2>2, <2>5, Opened
    <3>2. call \in 0..MaxDemands
      BY <2>2, <3>1 DEF Rows, Data
    <3>3. call # 0 => demands[call] \in SUBSET Goods
      BY <3>1, <3>2, Bounds DEF TypeInv, DataOK
    <3>4. QED
      BY <1>2, <2>4, <3>2, <3>3 DEF Works
  <2>7. CASE \E new : Commits(w, new, {"data"}, "reply", m)
    BY <1>1, <1>2, <2>1, <2>7, CommitsTurn
  <2>8. CASE call # 0 /\ \E new : Commits(w, new, {"data"}, "order", n)
    BY <1>1, <2>1, <2>6, <2>8, CommitsTurn
  <2>9. QED
    BY <2>3, <2>4, <2>7, <2>8
<1>12. ~(Creates(w) \/ Opens(w) \/ Reopens(w) \/ Thinks(w) \/ FallsBack(w))
  BY <1>2, Zenon DEF Creates, Opens, Reopens, Thinks, FallsBack
<1>13. ~(ToolReads(w) \/ ToolOpensCart(w) \/ ToolWritesCart(w) \/ ToolCreatesOrder(w) \/ ToolLinks(w))
  BY <1>2, Zenon DEF ToolReads, ToolOpensCart, ToolWritesCart, ToolCreatesOrder, ToolLinks, Calls
<1>14. ~(Asks(w) \/ RecordsUser(w))
  BY <1>2, Zenon DEF Asks, RecordsUser
<1>15. QED
  BY <1>6, <1>7, <1>8, <1>9, <1>10, <1>11, <1>12, <1>13, <1>14, Zenon DEF Step

\* The conversation since place a: either somebody halfway has missed what was
\* written since, or all turns are complete, or one handler's is awaited.
TurnsOK(a) ==
    \/ \E u \in Workers : HalfAt(u) /\ "memory" \in stale[u]
    \/ Complete(a) /\ \A u \in Workers : ~HalfAt(u)
    \/ \E u \in Workers : /\ HalfAt(u) /\ \A v \in Workers : HalfAt(v) => v = u
                          /\ Awaits(a, work[u].turn)

TurnsInv == session # None /\ "memory" \notin blind /\ halved = FALSE => TurnsOK(session.started)

LEMMA OthersMiss ==
    ASSUME TypeInv, NEW w \in Workers, Arrives(w) \/ Step(w) \/ Fails(w),
           NEW u \in Workers, u # w, pc[u] # "idle"
    PROVE  stale[u] \subseteq stale'[u]
<1>1. CASE Arrives(w) \/ Fails(w)
  BY <1>1, ArrivesStep, FailsStep DEF Glances, Reads
<1>2. CASE Glances(w)
  BY <1>2 DEF Glances, Reads
<1>3. CASE Makes(w)
  BY <1>3 DEF Makes
<1>4. CASE Resets(w)
  BY <1>4 DEF Resets, TypeInv, DataOK
<1>5. ASSUME NEW s, NEW new, NEW changed, Writes(w, s, new, changed)
      PROVE  stale[u] \subseteq stale'[u]
  BY <1>5 DEF Writes, Misses
<1>6. ASSUME NEW s, NEW n, NEW new, NEW changed, Alters(w, s, n, new, changed)
      PROVE  stale[u] \subseteq stale'[u]
  BY <1>5, <1>6 DEF Alters
<1>7. ASSUME NEW s, NEW role \in {"user", "assistant"}, Notes(w, role, s)
      PROVE  stale[u] \subseteq stale'[u]
  BY <1>5, <1>7, Zenon DEF Notes
<1>8. QED
  BY <1>1, <1>2, <1>3, <1>4, <1>6, <1>7, StepShapes

LEMMA TurnsFrame ==
    ASSUME TypeInv, NEW w \in Workers, Arrives(w) \/ Step(w) \/ Fails(w), NEW a, TurnsOK(a), log' = log,
           HalfAt(w)' <=> HalfAt(w),
           HalfAt(w) => work'[w].turn = work[w].turn /\ stale'[w] = stale[w]
    PROVE  TurnsOK(a)'
<1>1. \A u \in Workers : u # w => pc'[u] = pc[u] /\ work'[u] = work[u]
  BY OthersStay
<1>2. \A u \in Workers : HalfAt(u)' <=> HalfAt(u)
  BY <1>1 DEF HalfAt
<1>3. \A u \in Workers : HalfAt(u) => work'[u].turn = work[u].turn /\ stale[u] \subseteq stale'[u]
  <2> SUFFICES ASSUME NEW u \in Workers, HalfAt(u)
               PROVE  work'[u].turn = work[u].turn /\ stale[u] \subseteq stale'[u]
    OBVIOUS
  <2>1. pc[u] # "idle"
    BY DEF HalfAt, Half
  <2>2. CASE u = w
    BY <2>2
  <2>3. CASE u # w
    BY <1>1, <2>1, <2>3, OthersMiss
  <2>4. QED
    BY <2>2, <2>3
<1>4. \A t : Awaits(a, t) => Awaits(a, t)'
  BY DEF Awaits, Paired
<1>5. Complete(a) => Complete(a)'
  BY DEF Complete, Paired
<1>6. CASE \E u \in Workers : HalfAt(u) /\ "memory" \in stale[u]
  BY <1>2, <1>3, <1>6 DEF TurnsOK
<1>7. CASE Complete(a) /\ \A u \in Workers : ~HalfAt(u)
  BY <1>2, <1>5, <1>7 DEF TurnsOK
<1>8. ASSUME NEW u \in Workers, HalfAt(u), \A v \in Workers : HalfAt(v) => v = u,
             Awaits(a, work[u].turn)
      PROVE  TurnsOK(a)'
  <2>1. PICK t : t = work[u].turn
    OBVIOUS
  <2>2. work'[u].turn = t /\ Awaits(a, t)'
    BY <1>3, <1>4, <1>8, <2>1
  <2>3. HalfAt(u)' /\ \A v \in Workers : HalfAt(v)' => v = u
    BY <1>2, <1>8
  <2>4. Awaits(a, work[u].turn)'
    BY <2>2 DEF Awaits, Paired
  <2>5. QED
    BY <2>3, <2>4 DEF TurnsOK
<1>9. QED
  BY <1>6, <1>7, <1>8 DEF TurnsOK

LEMMA TurnsUser ==
    ASSUME TypeInv, FreshInv, LogInv, NEW w \in Workers, RecordsUser(w), "memory" \notin blind',
           TurnsOK(session.started)
    PROVE  TurnsOK(session.started)'
<1>1. PICK s \in {"act", "reply"} : Notes(w, "user", s) /\ (s = "act" <=> work[w].flow = TRUE)
  BY RecordsUserStep
<1>2. pc[w] = "user"
  BY RecordsUserStep
<1>3. PICK e, t : t = work[w].turn /\ e = [turn |-> t, role |-> "user"]
  OBVIOUS
<1>4. PICK new, changed :
          /\ Writes(w, s, new, changed) /\ e \in Entries /\ log' = Append(log, e)
          /\ new.memory = Trimmed(Append(work[w].row.memory, e))
          /\ "memory" \in changed <=> new.memory # work[w].row.memory
          /\ blind' = blind \union (stale[w] \intersect {"memory"})
          /\ Moves(w, s, [work[w] EXCEPT !.row = new])
  BY <1>1, <1>3 DEF Notes
<1>5. session # None /\ work[w].row # None /\ session'.started = session.started
  BY <1>4, Bounds DEF Writes
<1>6. PICK a : a = session.started /\ a = session'.started
  BY <1>5
<1>7. a \in Nat /\ a <= Len(log)
  BY <1>5, <1>6, LogTyped DEF LogInv
<1>8. work'[w].turn = t /\ pc'[w] = s
  <2>1. PICK m, n : m = work[w] /\ n = [m EXCEPT !.row = new]
    OBVIOUS
  <2>2. work'[w] = n /\ pc'[w] = s /\ m \in Works
    BY <1>4, <2>1 DEF Moves, TypeInv
  <2>3. n.turn = m.turn
    BY <2>1, <2>2 DEF Works
  <2>4. QED
    BY <1>3, <2>1, <2>2, <2>3
<1>9. \A u \in Workers : u # w => pc'[u] = pc[u] /\ work'[u] = work[u] /\ (HalfAt(u)' <=> HalfAt(u))
  BY OthersStay DEF Step, HalfAt
<1>10. ~HalfAt(w) /\ HalfAt(w)'
  BY <1>2, <1>8 DEF HalfAt, Half
<1>11. CASE \E u \in Workers : HalfAt(u) /\ "memory" \in stale[u]
  <2>1. PICK u \in Workers : HalfAt(u) /\ "memory" \in stale[u]
    BY <1>11
  <2>2. u # w /\ pc[u] # "idle"
    BY <1>10, <2>1 DEF HalfAt, Half
  <2>3. "memory" \in stale'[u] /\ HalfAt(u)'
    BY <1>9, <2>1, <2>2, OthersMiss DEF Step
  <2>4. QED
    BY <2>3 DEF TurnsOK
<1>12. CASE Complete(a) /\ \A u \in Workers : ~HalfAt(u)
  <2>1. Awaits(a, t)'
    BY <1>3, <1>4, <1>7, <1>12, TurnOpens
  <2>2. Awaits(session.started, work[w].turn)'
    BY <1>6, <1>8, <2>1 DEF Awaits, Paired
  <2>3. \A v \in Workers : HalfAt(v)' => v = w
    BY <1>9, <1>12
  <2>4. QED
    BY <1>10, <2>2, <2>3 DEF TurnsOK
<1>13. ASSUME NEW u \in Workers, HalfAt(u), Awaits(a, work[u].turn)
       PROVE  TurnsOK(session.started)'
  <2>1. PICK m : m = Recent(a)
    OBVIOUS
  <2>2. Trimmed(Append(m, e)) # m
    BY <1>3, <1>4, <1>7, <1>13, <2>1, WindowMoves
  <2>3. "memory" \notin blind /\ "memory" \notin stale[w]
    BY <1>4
  <2>4. work[w].row.memory = m
    <3>1. session.memory = m
      BY <1>5, <1>6, <2>1, <2>3 DEF LogInv
    <3>2. FreshOK(pc[w], work[w].row, stale[w])
      BY DEF FreshInv
    <3>3. QED
      BY <1>2, <1>5, <2>3, <3>1, <3>2 DEF FreshOK
  <2>5. "memory" \in changed
    BY <1>4, <2>2, <2>4
  <2>6. u # w /\ pc[u] # "idle"
    BY <1>10, <1>13 DEF HalfAt, Half
  <2>7. "memory" \in stale'[u]
    BY <1>4, <2>5, <2>6 DEF Writes, Misses
  <2>8. QED
    BY <1>9, <1>13, <2>6, <2>7 DEF TurnsOK
<1>14. TurnsOK(a)
  BY <1>6
<1>15. QED
  BY <1>11, <1>12, <1>13, <1>14 DEF TurnsOK

LEMMA TurnsReply ==
    ASSUME TypeInv, FreshInv, LogInv, NEW w \in Workers, RecordsReply(w), "memory" \notin blind',
           TurnsOK(session.started)
    PROVE  TurnsOK(session.started)'
<1>1. Notes(w, "assistant", "idle") /\ pc[w] = "reply"
  BY RecordsReplyStep
<1>2. PICK e, t : t = work[w].turn /\ e = [turn |-> t, role |-> "assistant"]
  OBVIOUS
<1>3. PICK new, changed :
          /\ Writes(w, "idle", new, changed) /\ e \in Entries /\ log' = Append(log, e)
          /\ blind' = blind \union (stale[w] \intersect {"memory"})
          /\ Moves(w, "idle", Idle)
  BY <1>1, <1>2 DEF Notes
<1>4. session # None /\ session'.started = session.started
  BY <1>3, Bounds DEF Writes
<1>5. PICK a : a = session.started /\ a = session'.started
  BY <1>4
<1>6. a \in Nat /\ a <= Len(log)
  BY <1>4, <1>5, LogTyped DEF LogInv
<1>7. \A u \in Workers : u # w => pc'[u] = pc[u] /\ work'[u] = work[u] /\ (HalfAt(u)' <=> HalfAt(u))
  BY OthersStay DEF Step, HalfAt
<1>8. HalfAt(w) /\ ~HalfAt(w)'
  <2>1. pc'[w] = "idle"
    BY <1>3 DEF Moves, TypeInv
  <2>2. QED
    BY <1>1, <2>1 DEF HalfAt, Half
<1>9. CASE \E u \in Workers : HalfAt(u) /\ "memory" \in stale[u]
  <2>1. PICK u \in Workers : HalfAt(u) /\ "memory" \in stale[u]
    BY <1>9
  <2>2. u # w /\ pc[u] # "idle"
    BY <1>3, <2>1 DEF HalfAt, Half
  <2>3. "memory" \in stale'[u] /\ HalfAt(u)'
    BY <1>7, <2>1, <2>2, OthersMiss DEF Step
  <2>4. QED
    BY <2>3 DEF TurnsOK
<1>10. ASSUME NEW u \in Workers, \A v \in Workers : HalfAt(v) => v = u, Awaits(a, work[u].turn)
       PROVE  TurnsOK(session.started)'
  <2>1. u = w /\ Awaits(a, t)
    BY <1>2, <1>8, <1>10
  <2>2. Complete(a)'
    BY <1>2, <1>3, <1>6, <2>1, TurnCloses
  <2>3. \A v \in Workers : ~HalfAt(v)'
    BY <1>7, <1>8, <1>10, <2>1
  <2>4. Complete(session.started)'
    BY <1>5, <2>2 DEF Complete, Paired
  <2>5. QED
    BY <2>3, <2>4 DEF TurnsOK
<1>11. TurnsOK(a)
  BY <1>5
<1>12. QED
  BY <1>8, <1>9, <1>10, <1>11 DEF TurnsOK

\* A conversation that has just begun has no turns.
LEMMA TurnsBegin ==
    ASSUME TypeInv, NEW w \in Workers, Makes(w) \/ Resets(w), log' = log, session'.started = Len(log),
           \A u \in Workers : pc[u] \in {"idle", "open"}
    PROVE  TurnsOK(session.started)'
<1>1. PICK s \in {"user", "reopen"}, n \in Works : Moves(w, s, n)
  <2>1. CASE Makes(w)
    BY <2>1 DEF Makes
  <2>2. CASE Resets(w)
    BY <2>2 DEF Resets
  <2>3. QED
    BY <2>1, <2>2
<1>2. \A u \in Workers : pc'[u] \in {"idle", "open", "user", "reopen"}
  BY <1>1 DEF Moves, TypeInv
<1>3. \A u \in Workers : ~HalfAt(u)'
  BY <1>2 DEF HalfAt, Half
<1>4. PICK l : l = Len(log)
  OBVIOUS
<1>5. l \in Nat /\ Len(log') = l /\ session'.started = l
  BY <1>4, LogTyped
<1>6. l - l = 0 /\ 1..(l - l) = {} /\ (l - l) % 2 = 0
  BY <1>5
<1>7. Complete(session.started)'
  BY <1>5, <1>6 DEF Complete, Paired
<1>8. QED
  BY <1>3, <1>7 DEF TurnsOK

LEMMA TurnsResets ==
    ASSUME TypeInv, FreshInv, NEW w \in Workers, Resets(w), "memory" \notin blind'
    PROVE  TurnsOK(session.started)'
<1>1. PICK old : old = work[w].row
  OBVIOUS
<1>2. /\ pc[w] = "open" /\ old \in Rows /\ old.expired = TRUE /\ session \in Rows
      /\ session'.started = Kept(session.started, old.started, Len(log))
      /\ log' = log /\ blind' = blind \union stale[w]
  BY <1>1 DEF Resets
<1>3. session # None /\ old # None
  BY <1>2, Bounds
<1>4. "memory" \notin stale[w] /\ FreshOK(pc[w], old, stale[w])
  BY <1>1, <1>2 DEF FreshInv
<1>5. "started" \notin stale[w] /\ "expired" \notin stale[w]
  BY <1>4 DEF FreshOK
<1>6. old.started = session.started /\ old.expired = session.expired
  BY <1>2, <1>3, <1>4, <1>5 DEF FreshOK
<1>7. session'.started = Len(log)
  BY <1>2, <1>6 DEF Kept
<1>8. \A u \in Workers : pc[u] \in {"idle", "open"}
  BY <1>2, <1>3, <1>6 DEF FreshInv, ExpiredOK
<1>9. QED
  BY <1>2, <1>7, <1>8, TurnsBegin

LEMMA TurnsMakes ==
    ASSUME TypeInv, NEW w \in Workers, Makes(w)
    PROVE  TurnsOK(session.started)'
<1>1. session = None /\ session' = NewRow /\ log' = log
  BY DEF Makes
<1>2. session'.started = Len(log)
  BY <1>1, NewRowType DEF TypeInv
<1>3. \A u \in Workers : pc[u] \in {"idle", "open"}
  BY <1>1 DEF TypeInv, WorkOK
<1>4. QED
  BY <1>1, <1>2, <1>3, TurnsBegin

LEMMA TurnsStep ==
    ASSUME TypeInv, FreshInv, LogInv, TurnsInv, NEW w \in Workers, Step(w)
    PROVE  TurnsInv'
<1> SUFFICES ASSUME session' # None, "memory" \notin blind', halved' = FALSE
             PROVE  TurnsOK(session.started)'
  BY DEF TurnsInv
<1>1. "memory" \notin blind /\ halved = FALSE
  BY BlindGrows, HalvedKept
<1>2. session # None => TurnsOK(session.started)
  BY <1>1 DEF TurnsInv
<1>3. CASE Makes(w) \/ Resets(w)
  BY <1>3, TurnsMakes, TurnsResets
<1>4. CASE RecordsUser(w) \/ RecordsReply(w)
  <2>1. session # None
    <3>1. pc[w] \in {"user", "reply"}
      BY <1>4 DEF RecordsUser, RecordsReply
    <3>2. QED
      BY <3>1, Opened
  <2>2. QED
    BY <1>2, <1>4, <2>1, TurnsUser, TurnsReply
<1>5. ASSUME ~(RecordsUser(w) \/ RecordsReply(w)), session # None, session'.started = session.started,
             log' = log, HalfAt(w)' <=> HalfAt(w)
      PROVE  TurnsOK(session.started)'
  <2>1. HalfAt(w) => work'[w].turn = work[w].turn /\ stale'[w] = stale[w]
    BY <1>5, HalfStays
  <2>2. PICK a : a = session.started /\ a = session'.started
    BY <1>5
  <2>3. TurnsOK(a)'
    BY <1>2, <1>5, <2>1, <2>2, TurnsFrame
  <2>4. QED
    BY <2>2, <2>3 DEF TurnsOK, Complete, Awaits, Paired
<1>6. ASSUME NEW s, NEW n, Moves(w, s, n), Half(s, n) = Half(pc[w], work[w])
      PROVE  HalfAt(w)' <=> HalfAt(w)
  BY <1>6 DEF Moves, TypeInv, HalfAt
<1>7. ASSUME Glances(w), ~(RecordsUser(w) \/ RecordsReply(w))
      PROVE  TurnsOK(session.started)'
  <2>1. HalfAt(w)' <=> HalfAt(w)
    BY <1>6, <1>7, Zenon DEF Glances
  <2>2. session' = session /\ log' = log
    BY <1>7 DEF Glances, Reads
  <2>3. QED
    BY <1>5, <1>7, <2>1, <2>2
<1>8. ASSUME NEW s, NEW n, NEW new, NEW changed, Alters(w, s, n, new, changed),
             ~(RecordsUser(w) \/ RecordsReply(w))
      PROVE  TurnsOK(session.started)'
  <2>1. HalfAt(w)' <=> HalfAt(w)
    BY <1>6, <1>8 DEF Alters
  <2>2. session # None /\ session'.started = session.started /\ log' = log
    BY <1>8, Bounds DEF Alters, Writes
  <2>3. QED
    BY <1>5, <1>8, <2>1, <2>2
<1>9. QED
  BY <1>3, <1>4, <1>7, <1>8, StepShapes

LEMMA TurnsNext ==
    ASSUME TypeInv, FreshInv, LogInv, TurnsInv, [Next]_vars
    PROVE  TurnsInv'
<1>1. CASE UNCHANGED vars
  BY <1>1 DEF vars, TurnsInv, TurnsOK, Complete, Awaits, Paired, HalfAt
<1>2. CASE Expires
  <2>1. session # None /\ session'.started = session.started
    BY <1>2, ExpiresStep DEF Expires
  <2>2. UNCHANGED <<log, pc, work, stale, blind, halved>>
    BY <1>2 DEF Expires, history
  <2>3. QED
    BY <2>1, <2>2 DEF TurnsInv, TurnsOK, Complete, Awaits, Paired, HalfAt
<1>3. ASSUME NEW w \in Workers, Step(w)
      PROVE  TurnsInv'
  BY <1>3, TurnsStep
<1>4. ASSUME NEW w \in Workers, Arrives(w) \/ Fails(w), session' # None, "memory" \notin blind',
             halved' = FALSE
      PROVE  TurnsOK(session.started)'
  <2>1. session' = session /\ log' = log
    BY <1>4, ArrivesStep, FailsStep DEF Glances, Reads
  <2>2. ~HalfAt(w) /\ halved = FALSE
    <3>1. CASE Arrives(w)
      BY <1>4, <3>1, ArrivesStep DEF Arrives, history, HalfAt, Half
    <3>2. CASE Fails(w)
      BY <1>4, <3>2, FailsStep DEF HalfAt, TypeInv, DataOK
    <3>3. QED
      BY <1>4, <3>1, <3>2
  <2>3. ~HalfAt(w)'
    <3>1. CASE Arrives(w)
      <4>1. UNCHANGED <<pc, work>> \/ pc'[w] = "open"
        BY <3>1, GoesTo, Zenon DEF Arrives
      <4>2. QED
        BY <2>2, <4>1 DEF HalfAt, Half
    <3>2. CASE Fails(w)
      <4>1. pc'[w] = "idle"
        BY <3>2, GoesTo, Zenon DEF Fails, Ends
      <4>2. QED
        BY <4>1 DEF HalfAt, Half
    <3>3. QED
      BY <1>4, <3>1, <3>2
  <2>4. TurnsOK(session.started)
    BY <1>4, <2>1, <2>2, BlindGrows DEF TurnsInv
  <2>5. PICK a : a = session.started
    OBVIOUS
  <2>6. TurnsOK(a)'
    BY <1>4, <2>1, <2>2, <2>3, <2>4, <2>5, TurnsFrame
  <2>7. QED
    BY <2>1, <2>5, <2>6 DEF TurnsOK, Complete, Awaits, Paired
<1>5. QED
  BY <1>1, <1>2, <1>3, <1>4 DEF Next, TurnsInv

LEMMA TurnsHold == Spec => []TurnsInv
<1>1. Init => TurnsInv
  BY DEF Init, TurnsInv
<1>2. TypeInv /\ FreshInv /\ LogInv /\ TurnsInv /\ [Next]_vars => TurnsInv'
  BY TurnsNext
<1>3. QED
  BY <1>1, <1>2, TypesHold, FreshHolds, LogHolds, PTL DEF Spec

LEMMA WindowIsWhole ==
    ASSUME TypeInv, LogInv, session # None, "memory" \notin blind, Complete(session.started)
    PROVE  \A i \in DOMAIN session.memory :
              IF i % 2 = 1 THEN session.memory[i].role = "user"
              ELSE session.memory[i] = [turn |-> session.memory[i - 1].turn, role |-> "assistant"]
<1>1. PICK a, m, n, k : /\ a = session.started /\ m = session.memory /\ n = Len(log) - a
                        /\ k = 2 * Window
  OBVIOUS
<1>2. a \in Nat /\ a <= Len(log) /\ m = Recent(a) /\ Complete(a)
  BY <1>1, LogTyped DEF LogInv
<1>3. n \in Nat /\ k \in Nat /\ n % 2 = 0 /\ k % 2 = 0
  BY <1>1, <1>2, LogTyped, Bounds DEF Complete
<1>4. PICK c : (n <= k /\ c = n) \/ (n > k /\ c = k)
  <2>1. n <= k \/ n > k
    BY <1>3
  <2>2. QED
    BY <2>1
<1>5. m \in Seq(Entries) /\ Len(m) = c /\ \A i \in 1..c : m[i] = log[a + ((n - c) + i)]
  <2>1. n = Len(log) - a /\ k = 2 * Window
    BY <1>1
  <2>2. a \in Nat /\ a <= Len(log) /\ m = Recent(a)
    BY <1>2
  <2>3. QED
    BY <1>4, <2>1, <2>2, RecentIs, SMTT(60)
<1>6. c \in Nat /\ c <= n /\ (n - c) % 2 = 0
  <2>1. CASE n <= k /\ c = n
    <3>1. n - c = 0
      BY <1>3, <2>1
    <3>2. QED
      BY <1>3, <2>1, <3>1
  <2>2. CASE n > k /\ c = k
    <3>1. PICK p \in Nat : n = 2 * p
      BY <1>3
    <3>2. n - c = 2 * (p - Window)
      BY <1>1, <2>2, <3>1, Bounds
    <3>3. PICK d \in Nat : d = p - Window
      BY <1>1, <2>2, <3>1, Bounds
    <3>4. (2 * d) % 2 = 0
      OBVIOUS
    <3>5. QED
      BY <1>3, <2>2, <3>2, <3>3, <3>4
  <2>3. QED
    BY <1>4, <2>1, <2>2
<1>7. ASSUME NEW i \in 1..c
      PROVE  IF i % 2 = 1 THEN m[i].role = "user"
             ELSE m[i] = [turn |-> m[i - 1].turn, role |-> "assistant"]
  <2>1. PICK j : j = (n - c) + i
    OBVIOUS
  <2>2. j \in 1..n /\ j % 2 = i % 2
    BY <1>3, <1>6, <2>1
  <2>3. IF j % 2 = 1 THEN log[a + j].role = "user"
        ELSE log[a + j] = [turn |-> log[a + j - 1].turn, role |-> "assistant"]
    <3>1. j \in 1..(Len(log) - a) /\ Paired(a)
      BY <1>1, <1>2, <2>2 DEF Complete
    <3>2. QED
      BY <3>1, Zenon DEF Paired
  <2>4. m[i] = log[a + j]
    BY <1>5, <2>1
  <2>5. CASE i % 2 = 1
    BY <2>2, <2>3, <2>4, <2>5
  <2>6. CASE i % 2 # 1
    <3>1. i - 1 \in 1..c /\ a + ((n - c) + (i - 1)) = a + j - 1
      BY <1>2, <1>3, <1>6, <2>1, <2>6
    <3>2. m[i - 1] = log[a + j - 1]
      <4>1. m[i - 1] = log[a + ((n - c) + (i - 1))]
        BY <1>5, <3>1
      <4>2. QED
        BY <3>1, <4>1
    <3>3. m[i] = [turn |-> m[i - 1].turn, role |-> "assistant"]
      BY <2>2, <2>3, <2>4, <2>6, <3>2
    <3>4. QED
      BY <2>6, <3>3, Zenon
  <2>7. QED
    BY <2>5, <2>6
<1>8. DOMAIN m = 1..c
  BY <1>5, <1>6
<1>9. QED
  BY <1>1, <1>7, <1>8

\* Between messages the model's memory holds whole turns, each message with
\* its own reply after it: handlers that overlap can only spoil it by writing
\* a window cut from a copy that others have overtaken, and a trimmed window
\* never begins with a reply.
THEOREM TurnsWhole == Spec => []TurnsAreWhole
<1>1. ASSUME TypeInv, LogInv, TurnsInv
      PROVE  TurnsAreWhole
  <2> SUFFICES ASSUME session # None, "memory" \notin blind, ~halved, \A w \in Workers : ~Halfway(w)
               PROVE  \A i \in DOMAIN session.memory :
                         IF i % 2 = 1 THEN session.memory[i].role = "user"
                         ELSE session.memory[i] = [turn |-> session.memory[i - 1].turn,
                                                   role |-> "assistant"]
    BY DEF TurnsAreWhole
  <2>1. \A w \in Workers : ~HalfAt(w)
    BY <1>1, HalfIs
  <2>2. halved = FALSE
    BY <1>1 DEF TypeInv, DataOK
  <2>3. Complete(session.started)
    BY <1>1, <2>1, <2>2 DEF TurnsInv, TurnsOK
  <2>4. QED
    BY <1>1, <2>3, WindowIsWhole
<1>2. QED
  BY <1>1, TypesHold, LogHolds, TurnsHold, PTL

=============================================================================
