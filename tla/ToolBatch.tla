------------------------------ MODULE ToolBatch ------------------------------
(* The batches of tool calls of one run (toolCall, runToolExec and            *)
(* invalidateReadFileCache of internal/agents/exec/toolCall.go) and the file  *)
(* tools they are mostly made of (internal/tools/file/readFiles.go,           *)
(* writeFile.go, patchFile.go and fresh.go), seen on one existing file.       *)
(*                                                                            *)
(* A batch is vetted call by call, in order: an identical earlier call        *)
(* answers it, its tool's schema is handed out instead, or the user is asked. *)
(* Then the concurrent calls run as goroutines while the others run one after *)
(* the other, and when all are done the results go into the messages, into    *)
(* alreadyCall and into the run's knowledge of the file.  Someone else, a     *)
(* user, a formatter, a command, may write the file at any time, and an edit  *)
(* must not destroy what the model has not seen.                              *)
(*                                                                            *)
(* Versions of the file stand for its contents and its modification times     *)
(* alike: two writes never leave the same time.                               *)

EXTENDS Naturals, Sequences, FiniteSets, FiniteSetsExt, SequencesExt

CONSTANTS
    Calls,         \* what the model may call: [tool, arg]
    Allowed,       \* tools the allow list or AlwaysAllow lets through
    Unmarked0,     \* tools whose schema the model has not fetched
    None,
    MaxBatch,      \* calls of one batch
    MaxTurns,      \* batches of the run
    MaxForeign,    \* writes by others
    MaxConcurrent, \* configs.MAX_CONCURRENT_TOOLS
    InWindow       \* others may write between an edit's write and its Stat

Tools == {"read", "edit", "run", "ask"}

ASSUME BatchAssumption ==
    /\ \A c \in Calls : c.tool \in Tools
    /\ Allowed \subseteq Tools /\ Unmarked0 \subseteq Tools
    /\ MaxBatch \in Nat /\ MaxTurns \in Nat /\ MaxForeign \in Nat
    /\ MaxConcurrent \in Nat \ {0} /\ InWindow \in BOOLEAN
    /\ None \notin Nat

VARIABLES
    pc,        \* "model", "vet", "confirm", "run" or "over"
    batch,     \* choice.Message.ToolCalls
    slots,     \* toolSlot of each call: state, time of Stat, and result
    turnAllow, \* turnAllowAll
    cache,     \* alreadyCall
    unmarked,  \* exec.UnmarkedTools
    disk,      \* the version on disk
    mark,      \* exec.pathModTime of the file
    next,      \* the version the next write leaves
    seen,      \* versions the model was shown or wrote itself
    advice,    \* what the last refused edit told the model, and whether it did so
    turns, foreign

file == <<disk, mark, next>>
mind == <<cache, unmarked, seen, advice>>
vars == <<pc, batch, slots, turnAllow, file, mind, turns, foreign>>

Slot(state, at, value) == [state |-> state, at |-> at, value |-> value]

Init ==
    /\ pc = "model" /\ batch = <<>> /\ slots = <<>> /\ turnAllow = FALSE
    /\ cache = [c \in Calls |-> None] /\ unmarked = Unmarked0
    /\ disk = 1 /\ mark = None /\ next = 2 /\ seen = {} /\ advice = "none"
    /\ turns = 0 /\ foreign = 0

Put(i, slot) == slots' = [slots EXCEPT ![i] = slot]

In(i, state) == i \in DOMAIN slots /\ slots[i].state = state

Is(i, tool) == batch[i].tool = tool

-----------------------------------------------------------------------------
(* The model answers with a batch of calls *)

CallTools ==
    /\ pc = "model" /\ turns < MaxTurns /\ turns' = turns + 1
    /\ \E n \in 1..MaxBatch : batch' \in [1..n -> Calls]
    /\ slots' = [i \in DOMAIN batch' |-> Slot("new", None, None)]
    /\ pc' = "vet"
    /\ advice' = IF advice = "reread" THEN "told" ELSE advice
    /\ UNCHANGED <<turnAllow, file, cache, unmarked, seen, foreign>>

(* A write by anyone but the run's own edits.                                 *)
InEditWindow == \E i \in DOMAIN slots : slots[i].state = "written"

ForeignWrite ==
    /\ foreign < MaxForeign /\ foreign' = foreign + 1
    /\ ~InWindow => ~InEditWindow
    /\ disk' = next /\ next' = next + 1
    /\ advice' = "none"
    /\ UNCHANGED <<pc, batch, slots, turnAllow, mark, cache, unmarked, seen, turns>>

-----------------------------------------------------------------------------
(* Vetting, call by call *)

Vetting(i) == /\ pc = "vet" /\ In(i, "new")
              /\ \A j \in 1..(i - 1) : slots[j].state # "new"

Cached(i) == cache[batch[i]] # None

VetCached(i) ==
    /\ Vetting(i) /\ Cached(i)
    /\ Put(i, Slot("cached", None, cache[batch[i]]))
    /\ UNCHANGED <<pc, batch, turnAllow, file, mind, turns, foreign>>

(* activatedInBatch: every call of the tool in this batch is answered so.     *)
Activated(i) == \E j \in 1..(i - 1) : In(j, "marked") /\ batch[j].tool = batch[i].tool

VetSchema(i) ==
    /\ Vetting(i) /\ ~Cached(i) /\ (batch[i].tool \in unmarked \/ Activated(i))
    /\ unmarked' = unmarked \ {batch[i].tool}
    /\ Put(i, Slot("marked", None, None))
    /\ UNCHANGED <<pc, batch, turnAllow, file, cache, seen, advice, turns, foreign>>

Fetched(i) == Vetting(i) /\ ~Cached(i) /\ batch[i].tool \notin unmarked /\ ~Activated(i)

(* Arguments that do not fit the schema, a tool that does not exist.          *)
VetInvalid(i) ==
    /\ Fetched(i) /\ Put(i, Slot("invalid", None, None))
    /\ UNCHANGED <<pc, batch, turnAllow, file, mind, turns, foreign>>

NeedsConfirmation(i) == batch[i].tool \notin Allowed /\ ~turnAllow

VetReady(i) ==
    /\ Fetched(i) /\ ~NeedsConfirmation(i) /\ Put(i, Slot("ready", None, None))
    /\ UNCHANGED <<pc, batch, turnAllow, file, mind, turns, foreign>>

VetAsk(i) ==
    /\ Fetched(i) /\ NeedsConfirmation(i) /\ Put(i, Slot("asked", None, None))
    /\ pc' = "confirm"
    /\ UNCHANGED <<batch, turnAllow, file, mind, turns, foreign>>

(* The user approves, for this call or for the rest of the run, or declines.  *)
Approve(i) ==
    /\ pc = "confirm" /\ In(i, "asked") /\ pc' = "vet" /\ Put(i, Slot("ready", None, None))
    /\ turnAllow' \in {turnAllow, TRUE}
    /\ UNCHANGED <<batch, file, mind, turns, foreign>>

Decline(i) ==
    /\ pc = "confirm" /\ In(i, "asked") /\ pc' = "vet" /\ Put(i, Slot("skipped", None, None))
    /\ UNCHANGED <<batch, turnAllow, file, mind, turns, foreign>>

VettedFirst == pc = "vet" /\ slots[1].state # "new"

Vetted == pc = "vet" /\ \A i \in DOMAIN slots : slots[i].state # "new"

AsksUser == \E i \in DOMAIN slots : Is(i, "ask") /\ In(i, "ready")

(* ask_user in the background ends the run before anything else is run.       *)
HandOver ==
    /\ Vetted /\ AsksUser /\ pc' = "over"
    /\ UNCHANGED <<batch, slots, turnAllow, file, mind, turns, foreign>>

Concurrent(i) == Is(i, "read")

(* Every concurrent call has its goroutine before the first other call runs.  *)
Dispatch ==
    /\ Vetted /\ ~AsksUser /\ pc' = "run"
    /\ slots' = [i \in DOMAIN slots |->
                    IF In(i, "ready") /\ Concurrent(i) THEN Slot("dispatched", None, None)
                    ELSE slots[i]]
    /\ UNCHANGED <<batch, turnAllow, file, mind, turns, foreign>>

-----------------------------------------------------------------------------
(* read_files: Stat, the content, then MarkRead with the time of that Stat.   *)
(* At most MaxConcurrent goroutines are past the semaphore.                   *)

InTool == {i \in DOMAIN slots : slots[i].state \in {"stated", "read"}}

ReadStat(i) ==
    /\ In(i, "dispatched") /\ Cardinality(InTool) < MaxConcurrent
    /\ Put(i, Slot("stated", disk, None))
    /\ UNCHANGED <<pc, batch, turnAllow, file, mind, turns, foreign>>

ReadContent(i) ==
    /\ In(i, "stated") /\ Put(i, Slot("read", slots[i].at, disk))
    /\ UNCHANGED <<pc, batch, turnAllow, file, mind, turns, foreign>>

ReadFails(i) ==
    /\ In(i, "stated") /\ Put(i, Slot("failed", None, 0))
    /\ UNCHANGED <<pc, batch, turnAllow, file, mind, turns, foreign>>

TimeNow(i) == disk

TimeOfStat(i) == slots[i].at

ReadMark(i) ==
    /\ In(i, "read") /\ Put(i, Slot("done", None, slots[i].value))
    /\ mark' = TimeOfStat(i)
    /\ UNCHANGED <<pc, batch, turnAllow, disk, next, mind, turns, foreign>>

-----------------------------------------------------------------------------
(* The other tools, one after the other *)

Serial(i) ==
    /\ pc = "run" /\ In(i, "ready")
    /\ \A j \in 1..(i - 1) : slots[j].state \notin {"ready", "checked", "written"}

(* requireFresh: what the run has read must be what is on disk.               *)
Fresh == mark = disk

EditCheck(i) ==
    /\ Serial(i) /\ Is(i, "edit")
    /\ IF Fresh
       THEN Put(i, Slot("checked", None, None)) /\ advice' = "none"
       ELSE Put(i, Slot("refused", None, None)) /\ advice' = "reread"
    /\ UNCHANGED <<pc, batch, turnAllow, file, cache, unmarked, seen, turns, foreign>>

EditWrite(i) ==
    /\ In(i, "checked") /\ Put(i, Slot("written", None, next))
    /\ disk' = next /\ next' = next + 1 /\ seen' = seen \cup {next}
    /\ UNCHANGED <<pc, batch, turnAllow, mark, cache, unmarked, advice, turns, foreign>>

(* An anchor that is not found, a file that would be left empty.              *)
EditFails(i) ==
    /\ In(i, "checked") /\ Put(i, Slot("refused", None, None))
    /\ UNCHANGED <<pc, batch, turnAllow, file, mind, turns, foreign>>

(* markWritten stats the file again.                                          *)
EditMark(i) ==
    /\ In(i, "written") /\ Put(i, Slot("done", None, 0))
    /\ mark' = disk
    /\ UNCHANGED <<pc, batch, turnAllow, disk, next, mind, turns, foreign>>

(* run_command, which may write the file like anyone else, or fail.           *)
RunCommand(i) ==
    /\ Serial(i) /\ Is(i, "run")
    /\ \E state \in {"done", "failed"} : Put(i, Slot(state, None, 0))
    /\ \/ UNCHANGED <<file, advice>>
       \/ disk' = next /\ next' = next + 1 /\ advice' = "none" /\ UNCHANGED mark
    /\ UNCHANGED <<pc, batch, turnAllow, cache, unmarked, seen, turns, foreign>>

-----------------------------------------------------------------------------
(* All calls are done: their results, in the order of the calls *)

Finished ==
    /\ pc = "run"
    /\ \A i \in DOMAIN slots : slots[i].state \in
           {"cached", "marked", "invalid", "skipped", "done", "failed", "refused"}

(* The run was cancelled meanwhile.                                           *)
Abort ==
    /\ pc = "confirm" \/ Finished
    /\ pc' = "over"
    /\ UNCHANGED <<batch, slots, turnAllow, file, mind, turns, foreign>>

(* alreadyCall: whatever was executed answers the same call from now on, a    *)
(* failure too, but for an edit that failed; an edit that worked drops the    *)
(* reads collected before it.                                                 *)
Stored(i) == slots[i].state \in {"done", "failed"}

Edited(i) == Is(i, "edit") /\ In(i, "done")

CacheAfter(c) ==
    LET drops  == IF c.tool = "read" THEN {i \in DOMAIN slots : Edited(i)} ELSE {}
        stores == {i \in DOMAIN slots : batch[i] = c /\ Stored(i)}
        last   == Max(drops \cup stores \cup {0})
    IN  CASE last = 0        -> cache[c]
          [] last \in stores -> slots[last].value
          [] OTHER           -> None

AnsweredReads == {i \in DOMAIN slots : /\ Is(i, "read")
                                       /\ slots[i].state \in {"done", "cached"}
                                       /\ slots[i].value # 0}

Collect ==
    /\ Finished /\ pc' = "model"
    /\ cache' = [c \in Calls |-> CacheAfter(c)]
    /\ seen' = seen \cup {slots[i].value : i \in AnsweredReads}
    /\ advice' = IF advice = "told"
                 THEN IF AnsweredReads # {} THEN "heeded" ELSE "reread"
                 ELSE advice
    /\ batch' = <<>> /\ slots' = <<>>
    /\ UNCHANGED <<turnAllow, file, unmarked, turns, foreign>>

Next ==
    \/ CallTools \/ ForeignWrite \/ HandOver \/ Dispatch \/ Abort \/ Collect
    \/ \E i \in DOMAIN slots :
          \/ VetCached(i) \/ VetSchema(i) \/ VetInvalid(i) \/ VetReady(i) \/ VetAsk(i)
          \/ Approve(i) \/ Decline(i)
          \/ ReadStat(i) \/ ReadContent(i) \/ ReadFails(i) \/ ReadMark(i)
          \/ EditCheck(i) \/ EditWrite(i) \/ EditFails(i) \/ EditMark(i)
          \/ RunCommand(i)

Spec == Init /\ [][Next]_vars

-----------------------------------------------------------------------------
States == {"new", "cached", "marked", "invalid", "asked", "ready", "skipped", "dispatched",
           "stated", "read", "checked", "written", "done", "failed", "refused"}

(* Every variable keeps to its kind.                                          *)
TypeOK ==
    /\ pc \in {"model", "vet", "confirm", "run", "over"}
    /\ batch \in Seq(Calls) /\ DOMAIN slots = DOMAIN batch
    /\ \A i \in DOMAIN slots : /\ slots[i].state \in States
                               /\ slots[i].at \in Nat \cup {None}
                               /\ slots[i].value \in Nat \cup {None}
    /\ turnAllow \in BOOLEAN /\ cache \in [Calls -> Nat \cup {None}] /\ unmarked \subseteq Tools
    /\ disk \in Nat /\ mark \in Nat \cup {None} /\ next \in Nat /\ seen \subseteq Nat
    /\ advice \in {"none", "reread", "told", "heeded"} /\ turns \in Nat /\ foreign \in Nat

Executing == {"dispatched", "stated", "read", "checked", "written", "done", "failed", "refused"}

(* No call of a batch is executed while the user has one of that batch still  *)
(* to answer for, nor when one of them asks the user something else.          *)
NothingBeforeAnswers ==
    (\E i \in DOMAIN slots : slots[i].state \in Executing) =>
        \A j \in DOMAIN slots : /\ slots[j].state \notin {"new", "asked"}
                                /\ Is(j, "ask") => ~In(j, "ready")

(* requireFresh protects what the model has not seen: whenever it would let   *)
(* an edit through, the version on disk is one the model was shown or wrote.  *)
FreshIsSeen == pc = "model" /\ Fresh => disk \in seen

(* requireFresh tells the model to read_files the file again before editing:  *)
(* once it has done so, and nobody has written the file since, an edit is     *)
(* let through.                                                               *)
RereadUnlocks == advice = "heeded" => Fresh
=============================================================================
