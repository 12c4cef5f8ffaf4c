----------------------------- MODULE PendingTask -----------------------------
(* One task and its file pending/<task_hash>.json                             *)
(* (internal/tools/interactive/askUser.go, online.go, writeTodo.go, the       *)
(* deferred calls of internal/agents/exec/execute.go and run.go, cancel.go).  *)
(* The file is what a task survives on: a run writes its tool results there,  *)
(* stops when it asks a question in the background, and whoever answers       *)
(* resumes the task in a new run, as does a user after a timeout, a closed    *)
(* window or a crash.  An online marker hides the task while a run is live    *)
(* and cancelFnMap finds that run.  pendingMu guards a single read or write,  *)
(* never the steps from one to the next.                                      *)
(*                                                                            *)
(* An attempt is one run of the task, First the one that creates it; it also  *)
(* names the question it may end with, and its calls name the tool results.   *)

EXTENDS Naturals, FiniteSets

CONSTANTS
    Attempts,
    First,
    None,
    MaxCalls,    \* tool calls of a run, configs.MAX_TOOL_ITERATIONS
    MaxCrashes,
    Foreground,  \* the TUI answers ask_user inline, so a run never ends with it
    Overlap      \* whether a task is resumed while an attempt is under way

ASSUME TaskAssumption ==
    /\ First \in Attempts /\ None \notin Attempts
    /\ MaxCalls \in Nat /\ MaxCrashes \in Nat
    /\ Foreground \in BOOLEAN /\ Overlap \in BOOLEAN

Calls == Attempts \X (1..MaxCalls)

VARIABLES
    disk,      \* pendingMeta: whose question it holds, and the tool results
    archive,   \* action_history: whether the task has a row, and its results
    pc,        \* where each attempt stands
    cause,     \* context.Cause of its context
    calls,     \* the tool calls it has made
    mem,       \* sessionData.ToolResults
    appends,   \* goroutines in AppendToolResult
    copy,      \* what an attempt, or the cleanup of its task, has read
    tidy,      \* ~keepPending
    hand,      \* askUserInBackground, and the prompt it opens
    sweep,     \* CleanupPending, called by an attempt or for its prompt
    fn,        \* cancelFnMap: the attempt whose cancel function is stored
    marker,    \* the key action:<session>:<task> in ToriiDB
    beat,      \* attempts whose KeepOnline goroutine runs
    crashes,
    discarded  \* the user has cancelled or dropped the task

run    == <<pc, cause, calls, mem, tidy>>
files  == <<disk, archive, appends, copy, hand, sweep, discarded>>
online == <<fn, marker, beat>>
vars   == <<run, files, online, crashes>>

Absent == [present |-> FALSE, asked |-> None, results |-> {}]
File(q, results) == [present |-> TRUE, asked |-> q, results |-> results]

Init ==
    /\ disk = Absent /\ archive = [written |-> FALSE, results |-> {}]
    /\ pc = [a \in Attempts |-> "idle"]
    /\ cause = [a \in Attempts |-> "none"]
    /\ calls = [a \in Attempts |-> 0] /\ mem = [a \in Attempts |-> {}]
    /\ appends = {}
    /\ copy = [a \in Attempts |-> Absent]
    /\ tidy = [a \in Attempts |-> FALSE]
    /\ hand = [a \in Attempts |-> "none"]
    /\ sweep = [a \in Attempts |-> "no"]
    /\ fn = None /\ marker = FALSE /\ beat = {}
    /\ crashes = 0 /\ discarded = FALSE

Set(f, a, to) == f' = [f EXCEPT ![a] = to]

GoTo(a, from, to) == pc[a] = from /\ pc' = [pc EXCEPT ![a] = to]

At(f, a, from, to) == f[a] = from /\ f' = [f EXCEPT ![a] = to]

-----------------------------------------------------------------------------
(* How an attempt starts *)

Resting == {"idle", "gone"}

(* Nothing that an attempt left running has still to reach the file.          *)
Settled ==
    /\ \A a \in Attempts : pc[a] \in Resting /\ hand[a] # "save" /\ sweep[a] = "no"
    /\ appends = {}

MayStart == Overlap \/ Settled

StartFirst ==
    /\ GoTo(First, "idle", "entered") /\ fn' = First
    /\ UNCHANGED <<cause, calls, mem, tidy, files, marker, beat, crashes>>

Listed == disk.present /\ ~marker

(* A user picks the task in a list, and LoadPendingInfo finds its file.  The  *)
(* TUI puts the question first, the REST endpoint brings the answers.         *)
Resume(a) ==
    /\ a # First /\ MayStart /\ disk.present /\ (Listed \/ Overlap)
    /\ \/ GoTo(a, "idle", "load")
       \/ disk.asked # None /\ GoTo(a, "idle", "asking")
    /\ UNCHANGED <<cause, calls, mem, tidy, files, online, crashes>>

AnsweredInTui(a) ==
    /\ GoTo(a, "asking", "load")
    /\ UNCHANGED <<cause, calls, mem, tidy, files, online, crashes>>

(* The window is closed, or the user cancels the question.                    *)
LeftInTui(a) ==
    /\ GoTo(a, "asking", "gone")
    /\ UNCHANGED <<cause, calls, mem, tidy, files, online, crashes>>

CanceledInTui(a) ==
    /\ GoTo(a, "asking", "gone") /\ At(sweep, a, "no", "read")
    /\ UNCHANGED <<cause, calls, mem, tidy, disk, archive, appends, copy, hand,
                   discarded, online, crashes>>

(* LoadResumeMessage reads without the lock; with no file the task is         *)
(* "already resolved in another session".                                     *)
LoadRead(a) ==
    /\ GoTo(a, "load", IF ~disk.present THEN "gone"
                       ELSE IF disk.asked # None THEN "writeback" ELSE "drop")
    /\ Set(copy, a, IF disk.asked # None THEN disk ELSE Absent)
    /\ UNCHANGED <<cause, calls, mem, tidy, disk, archive, appends, hand, sweep,
                   discarded, online, crashes>>

(* The questions become answers, in the copy that was read.                   *)
LoadWrite(a) ==
    /\ GoTo(a, "writeback", "drop")
    /\ disk' = File(None, copy[a].results)
    /\ Set(copy, a, Absent)
    /\ UNCHANGED <<cause, calls, mem, tidy, archive, appends, hand, sweep, discarded,
                   online, crashes>>

(* DropTask takes the task's prompts out of the registry; Run starts.         *)
LoadDrop(a) ==
    /\ GoTo(a, "drop", "entered") /\ fn' = a
    /\ hand' = [q \in Attempts |-> IF hand[q] = "open" THEN "closed" ELSE hand[q]]
    /\ UNCHANGED <<cause, calls, mem, tidy, disk, archive, appends, copy, sweep,
                   discarded, marker, beat, crashes>>
-----------------------------------------------------------------------------
(* The run *)

(* No such Skill, no model, cancelled in the session's queue.                 *)
Abandon(a) ==
    /\ GoTo(a, "entered", "leave")
    /\ UNCHANGED <<cause, calls, mem, tidy, files, online, crashes>>

CreateExecPending(a) ==
    /\ GoTo(a, "entered", "created")
    /\ disk' = IF a = First THEN File(None, {}) ELSE disk
    /\ UNCHANGED <<cause, calls, mem, tidy, archive, appends, copy, hand, sweep,
                   discarded, online, crashes>>

(* Mutant: the key is left to the first tick. *)
KeepOnlineLate(a) ==
    /\ GoTo(a, "created", "marked") /\ beat' = beat \cup {a}
    /\ UNCHANGED <<cause, calls, mem, tidy, files, fn, marker, crashes>>

KeepOnline(a) ==
    /\ GoTo(a, "created", "marked")
    /\ marker' = TRUE /\ beat' = beat \cup {a}
    /\ UNCHANGED <<cause, calls, mem, tidy, files, fn, crashes>>

(* Mutant: unregisterCancel is called, not deferred. *)
RegisterAndDrop(a) ==
    /\ GoTo(a, "marked", "thinking") /\ fn' = None
    /\ UNCHANGED <<cause, calls, mem, tidy, files, marker, beat, crashes>>

Register(a) ==
    /\ GoTo(a, "marked", "thinking") /\ fn' = a
    /\ UNCHANGED <<cause, calls, mem, tidy, files, marker, beat, crashes>>

CallTool(a) ==
    /\ calls[a] < MaxCalls /\ GoTo(a, "thinking", "tooling")
    /\ calls' = [calls EXCEPT ![a] = @ + 1]
    /\ UNCHANGED <<cause, mem, tidy, files, online, crashes>>

Result(a) == <<a, calls[a]>>

(* toolCall returns ctx.Err after the tools, and Execute returns that error.  *)
AfterTool(a) ==
    \/ /\ cause[a] = "none" /\ GoTo(a, "tooling", "thinking")
       /\ mem' = [mem EXCEPT ![a] = @ \cup {Result(a)}]
    \/ /\ cause[a] # "none" /\ GoTo(a, "tooling", "unhook")
       /\ UNCHANGED mem

ToolReturns(a) ==
    /\ AfterTool(a)
    /\ appends' = appends \cup {Result(a)}
    /\ UNCHANGED <<cause, calls, tidy, disk, archive, copy, hand, sweep, discarded,
                   online, crashes>>

(* write_todo: no result is appended, and a missing file is made anew.        *)
WriteTodos(a) ==
    /\ AfterTool(a)
    /\ disk' = File(disk.asked, disk.results)
    /\ UNCHANGED <<cause, calls, tidy, archive, appends, copy, hand, sweep, discarded,
                   online, crashes>>

(* Mutant: the file is written from what the tool knows of the task. *)
AppendRebuilds(r) ==
    /\ r \in appends /\ appends' = appends \ {r}
    /\ disk' = IF disk.present THEN File(None, disk.results \cup {r}) ELSE disk
    /\ UNCHANGED <<run, archive, copy, hand, sweep, discarded, online, crashes>>

AppendToolResult(r) ==
    /\ r \in appends /\ appends' = appends \ {r}
    /\ disk' = IF disk.present THEN [disk EXCEPT !.results = @ \cup {r}] ELSE disk
    /\ UNCHANGED <<run, archive, copy, hand, sweep, discarded, online, crashes>>

(* ask_user ends the run; askUserInBackground goes on with it.                *)
Ask(a) ==
    /\ ~Foreground /\ GoTo(a, "thinking", "unhook") /\ At(hand, a, "none", "save")
    /\ UNCHANGED <<cause, calls, mem, tidy, disk, archive, appends, copy, sweep,
                   discarded, online, crashes>>

(* The final answer; FinalizePending adds it to the file.                     *)
Finish(a) ==
    /\ GoTo(a, "thinking", "unhook") /\ tidy' = [tidy EXCEPT ![a] = TRUE]
    /\ UNCHANGED <<cause, calls, mem, files, online, crashes>>

(* Upstream errors, iterations used up, a confirmation that timed out.        *)
Fail(a) ==
    /\ cause[a] = "none" /\ GoTo(a, "thinking", "unhook")
    /\ UNCHANGED <<cause, calls, mem, tidy, files, online, crashes>>

DeletePending == disk' = Absent /\ discarded' = TRUE

(* The context is done: at the top of the loop, while the model answers, in a *)
(* confirmation.                                                              *)
SeeCancel(a) ==
    /\ cause[a] # "none" /\ GoTo(a, "thinking", "unhook")
    /\ IF cause[a] = "user" THEN DeletePending ELSE UNCHANGED <<disk, discarded>>
    /\ UNCHANGED <<cause, calls, mem, tidy, archive, appends, copy, hand, sweep,
                   online, crashes>>

(* Abort task, in a confirmation. *)
AbortTask(a) ==
    /\ GoTo(a, "thinking", "unhook") /\ DeletePending
    /\ UNCHANGED <<cause, calls, mem, tidy, archive, appends, copy, hand, sweep,
                   online, crashes>>

-----------------------------------------------------------------------------
(* The deferred calls, in reverse *)

(* unregisterCancel deletes whatever function the task has by then.           *)
Unregister(a) ==
    /\ GoTo(a, "unhook", "offline") /\ fn' = None
    /\ UNCHANGED <<cause, calls, mem, tidy, files, marker, beat, crashes>>

(* done is closed and the key deleted.                                        *)
StopOnline(a) ==
    /\ GoTo(a, "offline", "leave") /\ marker' = FALSE
    /\ sweep' = [sweep EXCEPT ![a] = IF tidy[a] THEN "read" ELSE @]
    /\ UNCHANGED <<cause, calls, mem, tidy, disk, archive, appends, copy, hand,
                   discarded, fn, beat, crashes>>

(* The first defer of Run, after CleanupPending; its variables end with it.   *)
Leave(a) ==
    /\ tidy[a] => sweep[a] = "no"
    /\ GoTo(a, "leave", "gone") /\ fn' = None
    /\ Set(cause, a, "none") /\ Set(calls, a, 0) /\ Set(tidy, a, FALSE)
    /\ UNCHANGED <<mem, files, marker, beat, crashes>>

(* CleanupPending: the file is read, written to action_history, removed.      *)
SweepRead(a) ==
    /\ At(sweep, a, "read", IF disk.present THEN "write" ELSE "no")
    /\ Set(copy, a, disk)
    /\ UNCHANGED <<run, disk, archive, appends, hand, discarded, online, crashes>>

SweepWrite(a) ==
    /\ At(sweep, a, "write", "remove")
    /\ archive' = [written |-> TRUE, results |-> copy[a].results]
    /\ Set(copy, a, Absent)
    /\ UNCHANGED <<run, disk, appends, hand, discarded, online, crashes>>

(* Mutant: the file is removed whatever WriteAction says. *)
SweepRegardless(a) ==
    /\ At(sweep, a, "write", "remove") /\ Set(copy, a, Absent)
    /\ UNCHANGED <<run, disk, archive, appends, hand, discarded, online, crashes>>

(* WriteAction fails: the file stays. *)
SweepFails(a) ==
    /\ At(sweep, a, "write", "no") /\ Set(copy, a, Absent)
    /\ UNCHANGED <<run, disk, archive, appends, hand, discarded, online, crashes>>

SweepRemove(a) ==
    /\ At(sweep, a, "remove", "no") /\ disk' = Absent
    /\ UNCHANGED <<run, archive, appends, copy, hand, discarded, online, crashes>>

-----------------------------------------------------------------------------
(* The question *)

(* Mutant: only the results of this run. *)
SaveOwn(a) ==
    /\ At(hand, a, "save", "enqueue") /\ disk' = File(a, mem[a])
    /\ UNCHANGED <<run, archive, appends, copy, sweep, discarded, online, crashes>>

(* Mutant: only the results the file has. *)
SaveFound(a) ==
    /\ At(hand, a, "save", "enqueue") /\ disk' = File(a, disk.results)
    /\ UNCHANGED <<run, archive, appends, copy, sweep, discarded, online, crashes>>

(* SaveAndEnqueueAskUser under pendingMu: the results of the run and those    *)
(* the file has, and the question in place of an earlier one.                 *)
Save(a) ==
    /\ At(hand, a, "save", "enqueue")
    /\ disk' = File(a, mem[a] \cup disk.results)
    /\ UNCHANGED <<run, archive, appends, copy, sweep, discarded, online, crashes>>

Enqueue(a) ==
    /\ At(hand, a, "enqueue", "open")
    /\ UNCHANGED <<run, disk, archive, appends, copy, sweep, discarded, online, crashes>>

(* onResolve: the answers go to the resume handler of the channel, if the     *)
(* session's prefix has one; an error that is no cancel ends here.            *)
Answer(q, a) ==
    /\ MayStart /\ a # First
    /\ At(hand, q, "open", "closed") /\ GoTo(a, "idle", "load")
    /\ UNCHANGED <<cause, calls, mem, tidy, disk, archive, appends, copy, sweep,
                   discarded, online, crashes>>

NoResume(q) ==
    /\ At(hand, q, "open", "closed")
    /\ UNCHANGED <<run, disk, archive, appends, copy, sweep, discarded, online, crashes>>

CancelPrompt(q) ==
    /\ At(hand, q, "open", "closed") /\ At(sweep, q, "no", "read")
    /\ UNCHANGED <<run, disk, archive, appends, copy, discarded, online, crashes>>

-----------------------------------------------------------------------------
(* What else happens to a task *)

(* DELETE /v1/session/:id/task/:task_hash, and d in /pending. *)
Discard ==
    /\ disk.present /\ DeletePending
    /\ UNCHANGED <<run, archive, appends, copy, hand, sweep, online, crashes>>

Running == {"entered", "created", "marked", "thinking", "tooling"}

(* POST .../cancel/:task_hash and FrameCancel: the stored function is called. *)
(* The first cause stays; a run that is leaving no longer looks at it.        *)
Cancel ==
    /\ fn # None /\ pc[fn] \in Running /\ cause[fn] = "none"
    /\ cause' = [cause EXCEPT ![fn] = "user"]
    /\ UNCHANGED <<pc, calls, mem, tidy, files, online, crashes>>

(* The window is closed and the connection's context ends; a pause looks the  *)
(* same to the run.                                                           *)
Disconnect(a) ==
    /\ pc[a] \in Running /\ cause[a] = "none"
    /\ cause' = [cause EXCEPT ![a] = "other"]
    /\ UNCHANGED <<pc, calls, mem, tidy, files, online, crashes>>

(* The KeepOnline goroutine: a tick and done may come together, so that one   *)
(* more tick sets the key after StopOnline deleted it.                        *)
Beat(a) ==
    /\ a \in beat /\ ~marker /\ marker' = TRUE
    /\ UNCHANGED <<run, files, fn, beat, crashes>>

OnlinePCs == {"marked", "thinking", "tooling", "unhook", "offline"}

(* Mutant: done is never closed. *)
BeatGoesOn(a) ==
    /\ a \in beat /\ pc[a] \notin OnlinePCs
    /\ UNCHANGED vars

BeatStops(a) ==
    /\ a \in beat /\ pc[a] \notin OnlinePCs
    /\ beat' = beat \ {a}
    /\ UNCHANGED <<run, files, fn, marker, crashes>>

(* The TTL is longer than a tick. *)
Expire ==
    /\ marker /\ beat = {} /\ marker' = FALSE
    /\ UNCHANGED <<run, files, fn, beat, crashes>>

(* The daemon is killed and starts again; ClearOnline deletes the markers.    *)
Crash ==
    /\ crashes < MaxCrashes /\ crashes' = crashes + 1
    /\ pc' = [a \in Attempts |-> IF pc[a] = "idle" THEN "idle" ELSE "gone"]
    /\ appends' = {}
    /\ hand' = [a \in Attempts |-> IF hand[a] = "none" THEN "none" ELSE "closed"]
    /\ sweep' = [a \in Attempts |-> "no"] /\ copy' = [a \in Attempts |-> Absent]
    /\ cause' = [a \in Attempts |-> "none"] /\ calls' = [a \in Attempts |-> 0]
    /\ tidy' = [a \in Attempts |-> FALSE]
    /\ fn' = None /\ marker' = FALSE /\ beat' = {}
    /\ UNCHANGED <<mem, disk, archive, discarded>>

-----------------------------------------------------------------------------
AskInTui(a) == AnsweredInTui(a) \/ LeftInTui(a) \/ CanceledInTui(a)

Load(a) == LoadRead(a) \/ LoadWrite(a) \/ LoadDrop(a)

Work(a) ==
    \/ Abandon(a) \/ CreateExecPending(a) \/ KeepOnline(a) \/ Register(a)
    \/ CallTool(a) \/ ToolReturns(a) \/ WriteTodos(a)
    \/ Ask(a) \/ Finish(a) \/ Fail(a) \/ SeeCancel(a) \/ AbortTask(a)

Unwind(a) == Unregister(a) \/ StopOnline(a) \/ Leave(a)

Sweep(a) == SweepRead(a) \/ SweepWrite(a) \/ SweepFails(a) \/ SweepRemove(a)

Settle(a) == Save(a) \/ Enqueue(a)

Next ==
    \/ StartFirst
    \/ \E a \in Attempts :
        \/ Resume(a) \/ AskInTui(a) \/ Load(a) \/ Work(a) \/ Unwind(a) \/ Sweep(a)
        \/ Settle(a) \/ NoResume(a) \/ CancelPrompt(a) \/ Disconnect(a) \/ Beat(a) \/ BeatStops(a)
        \/ \E q \in Attempts : Answer(q, a)
    \/ \E r \in Calls : AppendToolResult(r)
    \/ Discard \/ Cancel \/ Expire \/ Crash

(* Goroutines run, tools and models answer or time out, ToriiDB expires keys. *)
Fairness ==
    /\ \A a \in Attempts :
        WF_vars(Load(a)) /\ WF_vars(Work(a)) /\ WF_vars(Unwind(a))
            /\ WF_vars(Sweep(a)) /\ WF_vars(Settle(a)) /\ WF_vars(BeatStops(a))
    /\ WF_vars(Expire)

Spec == Init /\ [][Next]_vars
FairSpec == Spec /\ Fairness
-----------------------------------------------------------------------------
(* Properties *)

PCs == Resting \cup Running \cup OnlinePCs \cup {"asking", "load", "writeback", "drop", "leave"}

Files == [present : BOOLEAN, asked : Attempts \cup {None}, results : SUBSET Calls]

(* Types, that only a file that is there holds something, and that a tool     *)
(* that runs has its number.                                                  *)
TypeOK ==
    /\ disk \in Files /\ (disk.present \/ disk = Absent)
    /\ archive \in [written : BOOLEAN, results : SUBSET Calls]
    /\ pc \in [Attempts -> PCs]
    /\ cause \in [Attempts -> {"none", "user", "other"}]
    /\ calls \in [Attempts -> 0..MaxCalls]
    /\ \A a \in Attempts : pc[a] = "tooling" => calls[a] > 0
    /\ mem \in [Attempts -> SUBSET Calls]
    /\ appends \subseteq Calls
    /\ copy \in [Attempts -> Files]
    /\ tidy \in [Attempts -> BOOLEAN]
    /\ hand \in [Attempts -> {"none", "save", "enqueue", "open", "closed"}]
    /\ sweep \in [Attempts -> {"no", "read", "write", "remove"}]
    /\ fn \in Attempts \cup {None} /\ marker \in BOOLEAN /\ beat \subseteq Attempts
    /\ crashes \in 0..MaxCrashes /\ discarded \in BOOLEAN

(* Whatever fails or crashes on the way, and however many attempts and        *)
(* prompts clean up at once, the file goes only when its task has a row in    *)
(* action_history or the user has discarded it.                               *)
RemovedOnlyWhenHandled ==
    [][disk.present /\ ~disk'.present => archive.written \/ discarded']_vars

(* A question on disk has with it every result of the run that asked it,      *)
(* although the goroutines that append them may not have run yet and others   *)
(* write the file meanwhile.                                                  *)
QuestionCarriesResults ==
    \A a \in Attempts : disk.asked = a => mem[a] \subseteq disk.results

(* "Actual output from each tool call completed before this task was          *)
(* interrupted" (LoadResumeMessage): what the file once held it keeps.        *)
ResultsKept ==
    [][disk.present /\ disk'.present => disk.results \subseteq disk'.results]_vars

(* A question leaves the file only with the attempt that read it and brings   *)
(* its answers, or with the file.                                             *)
QuestionKept ==
    [][disk.asked # None /\ disk'.present /\ disk'.asked # disk.asked
        => \E a \in Attempts : pc[a] = "writeback" /\ copy[a].asked = disk.asked]_vars

(* "Tasks whose run is still live are excluded" (doc.md, the list of tasks).  *)
LiveRunsExcluded ==
    \A a \in Attempts : pc[a] \in {"thinking", "tooling"} => ~Listed

(* "Cancel one running task" (doc.md): a run that works is the one its task's *)
(* cancel function stops.                                                     *)
CancelReaches ==
    \A a \in Attempts : pc[a] \in {"thinking", "tooling"} => fn # None

(* "Cancelling [...] discards the task's pending entry" (doc.md): when a run  *)
(* that the user cancelled has left, its file is gone.                        *)
CancelDiscards ==
    [][\A a \in Attempts :
        (pc[a] = "leave" /\ pc'[a] = "gone" /\ cause[a] = "user") => ~disk'.present]_vars

(* "a task left behind by a closed window or a killed process reappears"      *)
(* (doc.md): a file is listed in the end, unless it is removed before.        *)
LeftBehindReappears == disk.present ~> (Listed \/ ~disk.present)
=============================================================================
