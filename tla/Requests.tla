------------------------------ MODULE Requests ------------------------------
(***************************************************************************)
(* How the dashboard's requests run: each has a database session of its    *)
(* own, reads rows at one await and commits at a later one, and is rolled  *)
(* back whole when it is refused or fails.  The modules of the             *)
(* administration extend this one and say what is read and written.        *)
(*                                                                         *)
(* stale[h] is what others have committed since h arrived; blind is what   *)
(* has been decided, by anyone, on reads that were stale.                  *)
(***************************************************************************)
EXTENDS Integers, FiniteSets

CONSTANTS
    Handlers,      \* request slots; each serves one request
    Scenes,        \* what is played: the kinds of request each slot may serve
                   \* (serves), what there is to begin with (ready, groups,
                   \* email), and how many requests may fail (faults)
    None

ASSUME SceneAssumption ==
    \A sc \in Scenes : sc.faults \in Nat /\ sc.ready \in BOOLEAN /\ sc.groups \in Nat

VARIABLES
    scene,         \* the scene played
    stage,         \* the await at which each slot's request stands
    work,          \* what the request was asked and has read
    stale, blind,  \* history
    faults         \* failures so far

history == <<stale, blind>>
requests == <<scene, stage, work, stale, blind, faults>>

Resting == {"idle", "done"}

RequestsInit ==
    /\ scene \in Scenes
    /\ stage = [h \in Handlers |-> "idle"]
    /\ work = [h \in Handlers |-> None]
    /\ stale = [h \in Handlers |-> {}]
    /\ blind = {}
    /\ faults = 0

Goes(h, s, w) ==
    /\ stage' = [stage EXCEPT ![h] = s]
    /\ work' = [work EXCEPT ![h] = IF s \in Resting THEN None ELSE w]

\* h is free, and may serve a request of kind k.
Serves(h, k) == stage[h] = "idle" /\ k \in scene.serves[h]

\* The request has read what w holds, and goes on to stage s.
Reads(h, s, w) ==
    /\ Goes(h, s, w)
    /\ UNCHANGED <<scene, history, faults>>

\* A commit of changed, decided from what was read of relied.
Commits(h, changed, relied, s, w) ==
    /\ Goes(h, s, w)
    /\ stale' = [k \in Handlers |->
           IF k = h THEN IF s = "done" THEN {} ELSE stale[h]
           ELSE IF stage[k] \in Resting THEN {} ELSE stale[k] \union changed]
    /\ blind' = blind \union (stale[h] \intersect relied)
    /\ UNCHANGED <<scene, faults>>

\* An HTTPException, or a constraint of the database at the commit.
Refused(h) ==
    /\ Goes(h, "done", None)
    /\ stale' = [stale EXCEPT ![h] = {}]
    /\ UNCHANGED <<scene, blind, faults>>

\* Any other exception, or a crash of the process: get_db rolls back.
Fails(h) ==
    /\ stage[h] \notin Resting
    /\ faults < scene.faults
    /\ faults' = faults + 1
    /\ Goes(h, "done", None)
    /\ stale' = [stale EXCEPT ![h] = {}]
    /\ UNCHANGED <<scene, blind>>

\* A commit writes a column only if the request changed it in memory.
Kept(stored, loaded, new) == IF new = loaded THEN stored ELSE new

=============================================================================
