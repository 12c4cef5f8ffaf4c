------------------------------ MODULE Scheduler ------------------------------
(* The scheduler of the daemon (internal/runtime/scheduler.go) and those who  *)
(* change what it reads: the schedules tool (internal/tools/scheduler), the   *)
(* /v1/schedule routes (routes/handler/automation.go) and its own callbacks,  *)
(* through task.go and cron.go.                                               *)
(*                                                                            *)
(* tasks.json holds the one-shot entries, crons.json the recurring ones.      *)
(* Nobody locks them: each change reads the file, changes the copy and writes *)
(* it back, and the watcher reads them again when it hears of a write, unless *)
(* it did so less than 200 ms ago.  A timer that fires runs the skill, leaves *)
(* the map of timers, takes its entry out of the file, and moves the skill to *)
(* the trash when no other task needs it.                                     *)

EXTENDS Naturals, FiniteSets

CONSTANTS
    Skills,
    Times,       \* when tasks are due
    Writers,     \* requests and tool calls that change schedules
    MaxOps,      \* changes they make
    MaxRuns,     \* how often an entry is seen to fire
    MaxCrashes

(* There are finitely many names and times a file can hold.                   *)
ASSUME SchedulerAssumption ==
    /\ Times \subseteq Nat \ {0} /\ IsFiniteSet(Times) /\ IsFiniteSet(Skills)
    /\ MaxOps \in Nat /\ MaxRuns \in Nat /\ MaxCrashes \in Nat

Entry == [skill : Skills, at : Times]

VARIABLES
    now,
    tasks, crons,  \* tasks.json; the skills that crons.json binds
    skills,        \* scheduler skills that exist
    up,            \* "down", "boot" while the watcher is not there yet, or "up"
    timers,        \* st.timers: for each entry the timer under its key, or 0
    cronIDs,       \* st.cronIDs
    shots,         \* the timers that may still fire and the callbacks at work
    watcher,       \* "idle" or "loaded"
    copy,          \* what reload has read
    recent,        \* lastReload is less than 200 ms ago
    events,        \* file events the watcher has not taken
    missed,        \* it has dropped one, or was not there, since it last read
    writer,        \* what each writer is doing
    ops, crashes,
    ran            \* how often each entry has fired

files    == <<tasks, crons, skills>>
memory   == <<timers, cronIDs, shots>>
watching == <<watcher, copy, recent, events, missed>>
counts   == <<ops, crashes, ran>>

schedulerVars == <<now, files, up, memory, watching, writer, counts>>

AtRest == [step |-> "idle"]
NoCopy == [tasks |-> {}, crons |-> {}]

(* The files are as an earlier process left them.                             *)
SchedulerInit ==
    /\ now = 0 /\ tasks \in SUBSET Entry /\ crons \in SUBSET Skills /\ skills = Skills
    /\ up = "down" /\ timers = [e \in Entry |-> 0] /\ cronIDs = {} /\ shots = {}
    /\ watcher = "idle" /\ copy = NoCopy /\ recent = FALSE /\ events = 0 /\ missed = FALSE
    /\ writer = [w \in Writers |-> AtRest]
    /\ ops = 0 /\ crashes = 0 /\ ran = [e \in Entry |-> 0]

TimePasses ==
    /\ \E t \in Times : now < t
    /\ now' = now + 1
    /\ UNCHANGED <<files, up, memory, watching, writer, counts>>

(* fsnotify reports the write, if somebody listens.                           *)
Written ==
    IF up = "up" THEN events' = events + 1 /\ UNCHANGED missed
    ELSE missed' = TRUE /\ UNCHANGED events

-----------------------------------------------------------------------------
(* reload: timers of entries that are gone are stopped, new entries get one.  *)
(* Stop does nothing to a callback that has begun.                            *)

Shot(e, id, step) == [entry |-> e, id |-> id, step |-> step, copy |-> {}]

FreshId(e) ==
    CHOOSE n \in 1..(Cardinality(shots) + 1) : \A s \in shots : s.entry = e => s.id # n

ApplyAdds(c) ==
    LET new == {e \in c.tasks : timers[e] = 0}
    IN  /\ timers' = [e \in Entry |-> IF e \in new THEN FreshId(e) ELSE timers[e]]
        /\ shots' = shots \cup {Shot(e, FreshId(e), "armed") : e \in new}
        /\ cronIDs' = cronIDs \cup c.crons

Apply(c) ==
    LET new  == {e \in c.tasks : timers[e] = 0}
        Stopped(s) == /\ s.step = "armed" /\ s.entry \notin c.tasks
                      /\ s.id = timers[s.entry]
    IN  /\ timers' = [e \in Entry |-> IF e \notin c.tasks THEN 0
                                      ELSE IF e \in new THEN FreshId(e) ELSE timers[e]]
        /\ shots' = {s \in shots : ~Stopped(s)} \cup {Shot(e, FreshId(e), "armed") : e \in new}
        /\ cronIDs' = c.crons

OnDisk == [tasks |-> tasks, crons |-> crons]

BootEmpty ==
    /\ up = "down" /\ up' = "boot" /\ Apply(NoCopy) /\ missed' = FALSE
    /\ UNCHANGED <<now, files, watcher, copy, recent, events, writer, counts>>

(* NewScheduler; the watcher starts later (cmd/app/daemon.go).                *)
Boot ==
    /\ up = "down" /\ up' = "boot" /\ Apply(OnDisk) /\ missed' = FALSE
    /\ UNCHANGED <<now, files, watcher, copy, recent, events, writer, counts>>

StartWatcher ==
    /\ up = "boot" /\ up' = "up"
    /\ UNCHANGED <<now, files, memory, watching, writer, counts>>

(* The process ends; an event nobody took is gone with it.                    *)
Crash ==
    /\ up # "down" /\ crashes < MaxCrashes /\ crashes' = crashes + 1
    /\ up' = "down" /\ timers' = [e \in Entry |-> 0] /\ cronIDs' = {} /\ shots' = {}
    /\ watcher' = "idle" /\ copy' = NoCopy /\ recent' = FALSE /\ events' = 0 /\ missed' = FALSE
    /\ writer' = [w \in Writers |-> AtRest]
    /\ UNCHANGED <<now, files, ops, ran>>

-----------------------------------------------------------------------------
(* SchedulerWatcher *)

DropEvent ==
    /\ up = "up" /\ watcher = "idle" /\ events > 0 /\ recent
    /\ events' = events - 1 /\ missed' = TRUE
    /\ UNCHANGED <<now, files, up, memory, watcher, copy, recent, writer, counts>>

Load ==
    /\ up = "up" /\ watcher = "idle" /\ events > 0 /\ ~recent
    /\ events' = events - 1 /\ recent' = TRUE /\ missed' = FALSE
    /\ watcher' = "loaded" /\ copy' = OnDisk
    /\ UNCHANGED <<now, files, up, memory, writer, counts>>

Reload ==
    /\ watcher = "loaded" /\ watcher' = "idle" /\ Apply(copy) /\ copy' = NoCopy
    /\ UNCHANGED <<now, files, up, recent, events, missed, writer, counts>>

Settle ==
    /\ recent /\ recent' = FALSE
    /\ UNCHANGED <<now, files, up, memory, watcher, copy, events, missed, writer, counts>>

-----------------------------------------------------------------------------
(* A timer and its callback *)

ShotBecomes(s, step, held) ==
    shots' = (shots \ {s}) \cup {[s EXCEPT !.step = step, !.copy = held]}

Fire(s) ==
    /\ s.step = "armed" /\ s.entry.at <= now /\ ran[s.entry] < MaxRuns
    /\ ShotBecomes(s, "running", {})
    /\ ran' = [ran EXCEPT ![s.entry] = @ + 1]
    /\ UNCHANGED <<now, files, up, timers, cronIDs, watching, writer, ops, crashes>>

KeepsTimer(s) ==
    /\ s.step = "running" /\ ShotBecomes(s, "remove", {})
    /\ UNCHANGED <<now, files, up, timers, cronIDs, watching, writer, counts>>

(* The skill has run; whatever timer is under the key leaves the map.         *)
Unmap(s) ==
    /\ s.step = "running" /\ ShotBecomes(s, "remove", {})
    /\ timers' = [timers EXCEPT ![s.entry] = 0]
    /\ UNCHANGED <<now, files, up, cronIDs, watching, writer, counts>>

(* RemoveTaskByTimeSkill.                                                     *)
RemoveLoad(s) ==
    /\ s.step = "remove" /\ ShotBecomes(s, "removing", tasks)
    /\ UNCHANGED <<now, files, up, timers, cronIDs, watching, writer, counts>>

RemoveSave(s) ==
    /\ s.step = "removing" /\ ShotBecomes(s, "check", {})
    /\ IF s.entry \in s.copy
       THEN tasks' = s.copy \ {s.entry} /\ Written
       ELSE UNCHANGED <<tasks, events, missed>>
    /\ UNCHANGED <<now, crons, skills, up, timers, cronIDs, watcher, copy, recent, writer, counts>>

(* HasTaskForSkill, and TrashSchedule when there is none.                     *)
CheckMore(s) ==
    /\ s.step = "check"
    /\ IF \E e \in tasks : e.skill = s.entry.skill
       THEN shots' = shots \ {s}
       ELSE ShotBecomes(s, "trash", {})
    /\ UNCHANGED <<now, files, up, timers, cronIDs, watching, writer, counts>>

Trash(s) ==
    /\ s.step = "trash" /\ shots' = shots \ {s} /\ skills' = skills \ {s.entry.skill}
    /\ UNCHANGED <<now, tasks, crons, up, timers, cronIDs, watching, writer, counts>>

-----------------------------------------------------------------------------
(* Those who change the schedules *)

Changes ==
    [op : {"append", "patch", "set"}, skill : Skills, at : Times]
        \cup [op : {"remove", "unbind", "delete", "bind", "rebind"}, skill : Skills, at : {0}]

Doing(step, c, held, freed) == [step |-> step, change |-> c, tasks |-> held, freed |-> freed]

(* A write or a patch is for later, and its skill must exist.                 *)
Allowed(c) ==
    /\ c.op \in {"append", "patch", "set"} => c.at > now
    /\ c.op \in {"append", "bind"} => c.skill \in skills

(* What is done to the skill and to crons.json first; then tasks.json is read *)
(* by whoever changes it: the tool does so for task entries (append, patch,   *)
(* remove), not for recurring ones (bind, unbind); the routes set a schedule  *)
(* to times (set) or to expressions (rebind) or delete it of either kind.     *)
LoadTasks(w, c) ==
    /\ up # "down" /\ writer[w] = AtRest /\ ops < MaxOps /\ ops' = ops + 1 /\ Allowed(c)
    /\ skills' = IF c.op \in {"set", "rebind"} THEN skills \cup {c.skill} ELSE skills
    /\ crons' = CASE c.op = "bind" -> crons \cup {c.skill}
                  [] c.op \in {"set", "delete", "unbind"} -> crons \ {c.skill}
                  [] OTHER -> crons
    /\ IF crons' # crons THEN Written ELSE UNCHANGED <<events, missed>>
    /\ writer' = [writer EXCEPT ![w] =
          CASE c.op = "bind"   -> AtRest
            [] c.op = "unbind" -> IF crons' = crons THEN AtRest ELSE Doing("trash", c, {}, TRUE)
            [] OTHER           -> Doing("save", c, tasks, crons' # crons)]
    /\ UNCHANGED <<now, tasks, up, memory, watcher, copy, recent, crashes, ran>>

Of(c, list) == {e \in list : e.skill = c.skill}

Changed(c, list) ==
    LET new == {[skill |-> c.skill, at |-> c.at]}
    IN  CASE c.op = "append" -> list \cup new
          [] c.op = "patch"  -> IF Of(c, list) = {} THEN list ELSE (list \ Of(c, list)) \cup new
          [] c.op = "set"    -> (list \ Of(c, list)) \cup new
          [] OTHER           -> list \ Of(c, list)

(* Nothing is written when no entry was touched, but by SetTasks.             *)
Touches(c, list) == \/ c.op = "set" \/ Changed(c, list) # list
                    \/ c.op = "patch" /\ Of(c, list) # {}

SaveTasks(w) ==
    LET c     == writer[w].change
        list  == writer[w].tasks
        freed == writer[w].freed \/ Changed(c, list) # list
    IN  /\ writer[w].step = "save"
        /\ IF Touches(c, list)
           THEN tasks' = Changed(c, list) /\ Written
           ELSE UNCHANGED <<tasks, events, missed>>
        /\ writer' = [writer EXCEPT ![w] =
              CASE c.op \in {"remove", "delete"} /\ freed -> Doing("trash", c, {}, TRUE)
                [] c.op = "rebind"                       -> Doing("bind", c, {}, FALSE)
                [] OTHER                                 -> AtRest]
        /\ UNCHANGED <<now, crons, skills, up, memory, watcher, copy, recent, counts>>

SetCrons(w) ==
    /\ writer[w].step = "bind" /\ writer' = [writer EXCEPT ![w] = AtRest]
    /\ crons' = crons \cup {writer[w].change.skill} /\ Written
    /\ UNCHANGED <<now, tasks, skills, up, memory, watcher, copy, recent, counts>>

(* The tool trashes the skill of what it removed, the route only when nothing *)
(* binds it (scheduleBound).                                                  *)
TrashSkill(w) ==
    LET c     == writer[w].change
        bound == c.skill \in crons \/ \E e \in tasks : e.skill = c.skill
    IN  /\ writer[w].step = "trash" /\ writer' = [writer EXCEPT ![w] = AtRest]
        /\ skills' = IF c.op = "delete" /\ bound THEN skills ELSE skills \ {c.skill}
        /\ UNCHANGED <<now, tasks, crons, up, memory, watching, counts>>

-----------------------------------------------------------------------------
Watch == DropEvent \/ Load \/ Reload \/ Settle

Callback(s) ==
    Fire(s) \/ Unmap(s) \/ RemoveLoad(s) \/ RemoveSave(s) \/ CheckMore(s) \/ Trash(s)

Write(w) ==
    (\E c \in Changes : LoadTasks(w, c)) \/ SaveTasks(w) \/ SetCrons(w) \/ TrashSkill(w)

SchedulerNext ==
    \/ TimePasses \/ Boot \/ StartWatcher \/ Crash \/ Watch
    \/ \E s \in shots : Callback(s)
    \/ \E w \in Writers : Write(w)

SchedulerSpec == SchedulerInit /\ [][SchedulerNext]_schedulerVars

(* Time passes, the daemon is started again, and its goroutines go on.        *)
SchedulerFairSpec ==
    /\ SchedulerSpec
    /\ WF_schedulerVars(TimePasses) /\ WF_schedulerVars(Boot) /\ WF_schedulerVars(StartWatcher)
    /\ WF_schedulerVars(Load \/ Reload \/ DropEvent)
    /\ WF_schedulerVars(\E s \in shots : Callback(s))

-----------------------------------------------------------------------------
Steps == {"armed", "running", "remove", "removing", "check", "trash"}

(* Every variable keeps to its kind, and a timer of the map is one that may   *)
(* fire or whose callback runs.                                               *)
SchedulerTypeOK ==
    /\ now \in Nat /\ tasks \subseteq Entry /\ crons \subseteq Skills /\ skills \subseteq Skills
    /\ up \in {"down", "boot", "up"} /\ timers \in [Entry -> Nat] /\ cronIDs \subseteq Skills
    /\ shots \subseteq [entry : Entry, id : Nat, step : Steps, copy : SUBSET Entry]
    /\ \A e \in Entry : timers[e] # 0 =>
           \E s \in shots : s.entry = e /\ s.id = timers[e] /\ s.step \in {"armed", "running"}
    /\ watcher \in {"idle", "loaded"} /\ recent \in BOOLEAN /\ events \in Nat /\ missed \in BOOLEAN
    /\ ops \in Nat /\ crashes \in Nat /\ ran \in [Entry -> Nat]

UpToDate == up # "down" /\ watcher = "idle" /\ events = 0 /\ ~missed

(* Once the watcher has nothing left to read, and has dropped nothing, the    *)
(* timers of the tasks to come are those of tasks.json, one for each, however *)
(* the changes, the firings and the reloads were interleaved; crons likewise. *)
TimersFollowFile ==
    UpToDate =>
        /\ cronIDs = crons
        /\ \A e \in Entry : e.at > now =>
               Cardinality({s \in shots : s.entry = e /\ s.step = "armed"})
                   = IF e \in tasks THEN 1 ELSE 0

(* An entry of tasks.json fires, over crashes and restarts, unless it is      *)
(* taken out before, or the watcher has dropped the event of a write.         *)
DueTaskFires ==
    \A e \in Entry : e \in tasks ~> (ran[e] > 0 \/ e \notin tasks \/ missed)

(* The schedules tool calls a task a one-shot fire time, doc.md a one-shot    *)
(* entry: without a crash no entry fires twice.                               *)
FiresOnce == crashes = 0 => \A e \in Entry : ran[e] <= 1
=============================================================================
