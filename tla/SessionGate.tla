----------------------------- MODULE SessionGate -----------------------------
(* How runs enter and leave a session (internal/session/concurrent.go and     *)
(* internal/agents/exec/steerWait.go).  A session runs MaxTasks requests at a *)
(* time and queues the rest; what is sent to a session that IsRunning is not  *)
(* a run but steers one; a subagent leg runs in a temp- session that FindTemp *)
(* claims as idle, or a new one.  Each map is guarded by a lock of its own,   *)
(* so a request passes the gate in many steps.                                *)
(*                                                                            *)
(* A request stands for the goroutine that serves it, for the runningEntry or *)
(* steerEntry it may create, and for the text it carries.                     *)

EXTENDS Naturals, Sequences, FiniteSets

CONSTANTS
    Requests,
    Legs,       \* requests that are subagent legs without a session of their own
    Sends,      \* POST /v1/send: asks IsRunning first
    Steers,     \* FrameSteer of the TUI: appended whatever runs
    Target,     \* the session of a request that is not a leg
    Sessions,
    Temps,      \* the temp- sessions there are or will be
    Found0,     \* the temp- sessions whose directories exist at the start
    MaxTasks,   \* configs.MAX_SESSION_TASKS
    None

ASSUME GateAssumption ==
    /\ IsFiniteSet(Requests)
    /\ Legs \subseteq Requests /\ Sends \subseteq Requests /\ Steers \subseteq Requests
    /\ Legs \cap (Sends \cup Steers) = {} /\ Sends \cap Steers = {}
    /\ Found0 \subseteq Temps /\ Temps \subseteq Sessions
    /\ Target \in [Requests -> Sessions]
    /\ MaxTasks \in Nat \ {0}
    /\ None \notin Requests \cup Sessions

VARIABLES
    pc,        \* where each request stands
    home,      \* its session
    (* concurrent.go *)
    dirs,      \* the temp- sessions with a directory
    todo,      \* what a leg's FindTemp has listed and not yet tried
    claimed,   \* concurrentMap
    slots,     \* tokens in each session's channel concurrentSlots
    (* steerWait.go *)
    runMap,    \* runningMap: the request whose entry a session has
    ent,       \* the entry a request works on
    count,     \* the count of the entry each request may have created
    last,      \* done: its count-- left none
    steerMap,  \* the request whose steerEntry a session has
    note,      \* the steerEntry a request works on
    list,      \* the texts in the entry each request may have created
    inbox,     \* the texts injected into each run, in order
    cleared    \* entries that ClearSteer removed

gate  == <<dirs, todo, claimed, slots>>
marks == <<runMap, ent, count, last>>
steer == <<steerMap, note, list, inbox, cleared>>
vars  == <<pc, home, gate, marks, steer>>

Init ==
    /\ pc = [r \in Requests |-> "idle"]
    /\ home = [r \in Requests |-> IF r \in Legs THEN None ELSE Target[r]]
    /\ dirs = Found0 /\ todo = [r \in Requests |-> {}]
    /\ claimed = {} /\ slots = [s \in Sessions |-> 0]
    /\ runMap = [s \in Sessions |-> None]
    /\ ent = [r \in Requests |-> None]
    /\ count = [r \in Requests |-> 0] /\ last = [r \in Requests |-> FALSE]
    /\ steerMap = [s \in Sessions |-> None]
    /\ note = [r \in Requests |-> None]
    /\ list = [r \in Requests |-> << >>] /\ inbox = [r \in Requests |-> << >>]
    /\ cleared = {}

GoTo(r, from, to) ==
    /\ pc[r] = from
    /\ pc' = [pc EXCEPT ![r] = to]

(* LoadOrStore: the entry a map has for session s, or r's own, stored. *)
EntryFor(map, s, r) == IF map[s] = None THEN r ELSE map[s]

-----------------------------------------------------------------------------
(* Before the run *)

(* A request that neither asks nor steers. *)
Arrive(r) ==
    /\ r \notin Legs \cup Sends \cup Steers
    /\ GoTo(r, "idle", "ready")
    /\ UNCHANGED <<home, gate, marks, steer>>

(* IsRunning loads the session's entry, and then reads its count.             *)
IsRunningLoad(r) ==
    /\ r \in Sends
    /\ IF runMap[home[r]] = None
       THEN GoTo(r, "idle", "ready") /\ UNCHANGED ent
       ELSE GoTo(r, "idle", "look") /\ ent' = [ent EXCEPT ![r] = runMap[home[r]]]
    /\ UNCHANGED <<home, gate, runMap, count, last, steer>>

IsRunningCount(r) ==
    /\ GoTo(r, "look", IF count[ent[r]] > 0 THEN "steer" ELSE "ready")
    /\ UNCHANGED <<home, gate, marks, steer>>

(* AppendSteer, its first line; mutant: Store for LoadOrStore. *)
SteerStore(r) ==
    /\ GoTo(r, IF r \in Steers THEN "idle" ELSE "steer", "append")
    /\ note' = [note EXCEPT ![r] = r]
    /\ steerMap' = [steerMap EXCEPT ![home[r]] = r]
    /\ UNCHANGED <<home, gate, marks, list, inbox, cleared>>

SteerEntry(r) ==
    /\ GoTo(r, IF r \in Steers THEN "idle" ELSE "steer", "append")
    /\ note' = [note EXCEPT ![r] = EntryFor(steerMap, home[r], r)]
    /\ steerMap' = [steerMap EXCEPT ![home[r]] = EntryFor(steerMap, home[r], r)]
    /\ UNCHANGED <<home, gate, marks, list, inbox, cleared>>

SteerAppend(r) ==
    /\ GoTo(r, "append", "steered")
    /\ list' = [list EXCEPT ![note[r]] = Append(@, r)]
    /\ UNCHANGED <<home, gate, marks, steerMap, note, inbox, cleared>>

(* FindTemp lists the directories and tries to claim one after the other.     *)
FindTemp(r) ==
    /\ r \in Legs /\ GoTo(r, "idle", "scan")
    /\ todo' = [todo EXCEPT ![r] = dirs]
    /\ UNCHANGED <<home, dirs, claimed, slots, marks, steer>>

(* Mutant: a claim does not look at the slots. *)
ClaimUnused(s) == s \notin claimed

(* ClaimIdle's two conditions *)
Idle(s) == s \notin claimed /\ slots[s] = 0

ClaimIdle(r) ==
    \E s \in todo[r] :
        /\ todo' = [todo EXCEPT ![r] = @ \ {s}]
        /\ IF Idle(s)
           THEN /\ GoTo(r, "scan", "ready")
                /\ claimed' = claimed \cup {s}
                /\ home' = [home EXCEPT ![r] = s]
           ELSE GoTo(r, "scan", "scan") /\ UNCHANGED <<claimed, home>>
        /\ UNCHANGED <<dirs, slots, marks, steer>>

(* session.New: the directory of the new session appears, unclaimed.          *)
NewTemp(r) ==
    /\ todo[r] = {} /\ GoTo(r, "scan", "ready")
    /\ \E s \in Temps \ dirs : dirs' = dirs \cup {s} /\ home' = [home EXCEPT ![r] = s]
    /\ UNCHANGED <<todo, claimed, slots, marks, steer>>

(* An error between there and AddConcurrent; nobody withdraws the claim.      *)
Fail(r) ==
    /\ GoTo(r, "ready", "done")
    /\ UNCHANGED <<home, gate, marks, steer>>

-----------------------------------------------------------------------------
(* The run: AddConcurrent, markRunning, and the deferred calls in reverse     *)

Unclaim(s) == claimed' = claimed \ {s}

AddConcurrent(r) ==
    /\ GoTo(r, "ready", "queued") /\ Unclaim(home[r])
    /\ UNCHANGED <<home, dirs, todo, slots, marks, steer>>

TakeSlot(r) ==
    /\ GoTo(r, "queued", "admitted")
    /\ slots[home[r]] < MaxTasks
    /\ slots' = [slots EXCEPT ![home[r]] = @ + 1]
    /\ UNCHANGED <<home, dirs, todo, claimed, marks, steer>>

(* Mutant: the deferred RemoveConcurrent runs although AddConcurrent failed.  *)
CancelAndRemove(r) ==
    /\ GoTo(r, "queued", "unlisted")
    /\ UNCHANGED <<home, gate, marks, steer>>

(* ctx.Done: nothing is deferred yet. *)
CancelQueued(r) ==
    /\ GoTo(r, "queued", "done")
    /\ UNCHANGED <<home, gate, marks, steer>>

MarkEntry(r) ==
    /\ GoTo(r, "admitted", "marking")
    /\ ent' = [ent EXCEPT ![r] = EntryFor(runMap, home[r], r)]
    /\ runMap' = [runMap EXCEPT ![home[r]] = EntryFor(runMap, home[r], r)]
    /\ UNCHANGED <<home, gate, count, last, steer>>

MarkCount(r) ==
    /\ GoTo(r, "marking", "running")
    /\ count' = [count EXCEPT ![ent[r]] = @ + 1]
    /\ UNCHANGED <<home, gate, runMap, ent, last, steer>>

(* getSteer, before each call of the model and after its last answer. *)
SteerLoad(r) ==
    /\ GoTo(r, "running", "drain")
    /\ steerMap[home[r]] # None
    /\ note' = [note EXCEPT ![r] = steerMap[home[r]]]
    /\ UNCHANGED <<home, gate, marks, steerMap, list, inbox, cleared>>

(* Mutant: the list is read and not reset. *)
SteerCopy(r) ==
    /\ GoTo(r, "drain", "running")
    /\ inbox' = [inbox EXCEPT ![r] = @ \o list[note[r]]]
    /\ UNCHANGED <<home, gate, marks, steerMap, note, list, cleared>>

SteerDrain(r) ==
    /\ GoTo(r, "drain", "running")
    /\ inbox' = [inbox EXCEPT ![r] = @ \o list[note[r]]]
    /\ list' = [list EXCEPT ![note[r]] = << >>]
    /\ UNCHANGED <<home, gate, marks, steerMap, note, cleared>>

ClearSteer(s) ==
    /\ steerMap' = [steerMap EXCEPT ![s] = None]
    /\ cleared' = cleared \cup ({steerMap[s]} \ {None})
    /\ UNCHANGED <<note, list, inbox>>

Finish(r) ==
    /\ GoTo(r, "running", "leaving") /\ ClearSteer(home[r])
    /\ UNCHANGED <<home, gate, marks>>

Unmark(r) ==
    /\ GoTo(r, "leaving", "unmarked")
    /\ count' = [count EXCEPT ![ent[r]] = @ - 1]
    /\ last' = [last EXCEPT ![r] = count'[ent[r]] = 0]
    /\ UNCHANGED <<home, gate, runMap, ent, steer>>

(* Mutant: the entry stays. *)
KeepEntry(r) ==
    /\ GoTo(r, "unmarked", "unlisted")
    /\ UNCHANGED <<home, gate, marks, steer>>

DeleteEntry(r) ==
    /\ GoTo(r, "unmarked", "unlisted")
    /\ runMap' = [runMap EXCEPT ![home[r]] = IF last[r] THEN None ELSE @]
    /\ UNCHANGED <<home, gate, ent, count, last, steer>>

RemoveClaim(r) ==
    /\ GoTo(r, "unlisted", "release") /\ Unclaim(home[r])
    /\ UNCHANGED <<home, dirs, todo, slots, marks, steer>>

(* The receive does not block: with no token there is nothing to take.        *)
ReleaseSlot(r) ==
    /\ GoTo(r, "release", "done")
    /\ slots' = [slots EXCEPT ![home[r]] = IF @ > 0 THEN @ - 1 ELSE @]
    /\ UNCHANGED <<home, dirs, todo, claimed, marks, steer>>

(* A session is reset or deleted while requests are under way. *)
Reset(s) ==
    /\ steerMap[s] # None /\ ClearSteer(s)
    /\ UNCHANGED <<pc, home, gate, marks>>

-----------------------------------------------------------------------------
Enter(r) ==
    \/ Arrive(r) \/ IsRunningLoad(r) \/ IsRunningCount(r)
    \/ SteerEntry(r) \/ SteerAppend(r)
    \/ FindTemp(r) \/ ClaimIdle(r) \/ NewTemp(r) \/ Fail(r) \/ AddConcurrent(r)
    \/ TakeSlot(r) \/ CancelQueued(r)

Proceed(r) ==
    \/ MarkEntry(r) \/ MarkCount(r) \/ SteerLoad(r) \/ SteerDrain(r)
    \/ Finish(r) \/ Unmark(r) \/ DeleteEntry(r) \/ RemoveClaim(r) \/ ReleaseSlot(r)

Next ==
    \/ \E r \in Requests : Enter(r) \/ Proceed(r)
    \/ \E s \in Sessions : Reset(s)

Spec == Init /\ [][Next]_vars

-----------------------------------------------------------------------------
(* Properties *)

PCs == {"idle", "look", "steer", "append", "steered", "scan", "ready", "queued",
        "admitted", "marking", "running", "drain", "leaving", "unmarked",
        "unlisted", "release", "done"}

(* A request inside the gate, from TakeSlot to ReleaseSlot. *)
Holding == {"admitted", "marking", "running", "drain", "leaving", "unmarked",
            "unlisted", "release"}
Holders(s) == {r \in Requests : pc[r] \in Holding /\ home[r] = s}

(* Types; in particular a request that runs or waits has a session, and no    *)
(* run's entry is ever missing.                                               *)
TypeOK ==
    /\ pc \in [Requests -> PCs]
    /\ home \in [Requests -> Sessions \cup {None}]
    /\ \A r \in Requests : home[r] = None => pc[r] \in {"idle", "scan"}
    /\ dirs \subseteq Temps /\ todo \in [Requests -> SUBSET Temps]
    /\ claimed \subseteq Temps /\ slots \in [Sessions -> 0..MaxTasks]
    /\ runMap \in [Sessions -> Requests \cup {None}]
    /\ ent \in [Requests -> Requests \cup {None}]
    /\ \A r \in Requests :
        pc[r] \in {"look", "marking", "running", "drain", "leaving"} => ent[r] # None
    /\ count \in [Requests -> Nat] /\ last \in [Requests -> BOOLEAN]
    /\ steerMap \in [Sessions -> Requests \cup {None}]
    /\ note \in [Requests -> Requests \cup {None}]
    /\ \A r \in Requests : pc[r] \in {"append", "drain"} => note[r] # None
    /\ list \in [Requests -> Seq(Requests)] /\ inbox \in [Requests -> Seq(Requests)]
    /\ cleared \subseteq Requests

(* The tokens of a session are those of the runs inside it: every way in and  *)
(* out of the gate, also a cancelled wait, takes and returns exactly one.     *)
SlotsMatchHolders == \A s \in Sessions : slots[s] = Cardinality(Holders(s))

(* FindTemp never hands out a session that a run is inside of. *)
ClaimsIdleOnly == [][\A s \in claimed' \ claimed : Holders(s) = {}]_vars

(* When the last run is gone the session is not running: an entry left behind *)
(* would make every later /v1/send a steer that nobody reads.                 *)
NeverStuckRunning ==
    \A s \in Sessions :
        runMap[s] # None => \E r \in Holders(s) : pc[r] \notin {"admitted", "unlisted", "release"}

(* The places of m in the sequences of seqOf. *)
Occurrences(seqOf, m) ==
    UNION {{r} \X {i \in DOMAIN seqOf[r] : seqOf[r][i] = m} : r \in Requests}

(* A steer is injected into one run at most, and not kept for a second time,  *)
(* although three runs of a session may drain its list.                       *)
SteeredOnce ==
    \A m \in Requests :
        Cardinality(Occurrences(inbox, m)) + Cardinality(Occurrences(list, m)) <= 1

Holds(seq, m) == \E i \in DOMAIN seq : seq[i] = m

(* A steer that was accepted has reached a run of its session, or it is in    *)
(* the list where that session's runs look, unless its session was cleared.   *)
LostOnlyWhenCleared ==
    \A m \in Requests :
        pc[m] = "steered"
            => \/ \E r \in Requests : home[r] = home[m] /\ Holds(inbox[r], m)
               \/ /\ Holds(list[note[m]], m)
                  /\ note[m] \in cleared \/ steerMap[home[m]] = note[m]

=============================================================================
