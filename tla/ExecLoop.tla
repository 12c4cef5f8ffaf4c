------------------------------ MODULE ExecLoop ------------------------------
(* One run of Execute (internal/agents/exec/execute.go): ask the model, run   *)
(* the tools it calls, ask again, until it answers.  Around that loop stand   *)
(* the steers a user sends meanwhile, the compaction of a request that grew   *)
(* too long, the retries of a send that failed, the fallback to another       *)
(* provider, and every way to end.  Whatever is on the run's own session and  *)
(* pending file happens in the order of the code; what other actors do to     *)
(* that file is PendingTask, what a batch of tools does is ToolBatch, and     *)
(* what becomes of the events is EventStream.                                 *)

EXTENDS Naturals, Sequences, FiniteSets, RunMessages

CONSTANTS
    Models,
    Provider,     \* [Models -> providers]
    First,        \* data.Agent; the others are data.FallbackAgents
    Narrow,       \* models whose window the conversation can fill
    Pinned,       \* the session is bound to a model
    Steers,       \* what the user says while the run is going on
    Limit,        \* configs.MAX_TOOL_ITERATIONS
    MaxRetry,     \* configs.MAX_RETRY_TIMES
    RateRetries,  \* len(configs.RETRY_INTERVALS)
    OldMessages,  \* how many messages of earlier runs come along
    OldLong,      \* and whether they are long enough to be extracted
    HandsOff      \* the caller brought tools of its own

ASSUME LoopAssumption ==
    /\ First \in Models /\ Narrow \subseteq Models
    /\ Pinned \in BOOLEAN /\ HandsOff \in BOOLEAN /\ OldLong \in BOOLEAN
    /\ Limit \in Nat /\ MaxRetry \in Nat /\ RateRetries \in Nat /\ OldMessages \in Nat

VARIABLES
    pc,
    left,      \* iterations the loop still has
    model,     \* data.Agent
    pool,      \* retryState.Agents
    round,     \* retryState.Round
    asked,     \* the models the run has switched to, First to begin with
    fails, timeouts, rates, empties,  \* the four counters of failed answers
    failed,    \* compactFailed
    extracted, \* oldHistoriesCompacted
    full,      \* lastInputTokens is beyond the threshold of a narrow model
    old,       \* session.ContextHistories: how many, and whether long
    hist,      \* session.ToolHistories
    spoken,    \* turns whose plan came with words
    queue,     \* steerMap: the steers nobody has taken
    taken,     \* the steers the run has taken
    heard,     \* those a model has answered a request with
    raw,       \* session.RawHistories
    saved,     \* history.json
    file,      \* the pending file: "open", "replied" once it has a Reply, "gone"
    tidy,      \* ~keepPending
    cancel,    \* context.Cause of execCtx
    ends,      \* terminal events recorded
    result     \* what Execute returns

sending == <<fails, timeouts, rates, empties>>
routing == <<model, pool, round, asked>>
memory  == <<failed, extracted, full, old, hist, spoken>>
steered == <<queue, taken, heard>>
record  == <<raw, saved, file, tidy>>
finish  == <<ends, result>>
vars    == <<pc, left, sending, routing, memory, steered, record, cancel, finish>>

Question == [kind |-> "input", turn |-> 0]
AnswerOf(t) == [kind |-> "answer", turn |-> t]

Init ==
    /\ pc = "top" /\ left = Limit
    /\ model = First /\ pool = Models /\ round = 0 /\ asked = <<First>>
    /\ fails = 0 /\ timeouts = 0 /\ rates = 0 /\ empties = 0
    /\ failed = FALSE /\ extracted = FALSE /\ full = FALSE
    /\ old = [many |-> OldMessages, long |-> OldLong]
    /\ hist = <<>> /\ spoken = {}
    /\ queue = {} /\ taken = {} /\ heard = {}
    /\ raw = <<Question>> /\ saved = <<>>
    /\ file = "open" /\ tidy = FALSE
    /\ cancel = "no" /\ ends = 0 /\ result = "none"

Running == pc \notin {"leaving", "ended"}

-----------------------------------------------------------------------------
(* What other goroutines do *)

AppendSteer(s) ==
    /\ Running /\ s \notin queue \cup taken
    /\ queue' = queue \cup {s}
    /\ UNCHANGED <<pc, left, sending, routing, memory, taken, heard, record, cancel, finish>>

(* The user cancels, or the run is paused, its window closes, its caller      *)
(* gives up.                                                                  *)
Cancel(cause) ==
    /\ Running /\ cancel = "no" /\ cancel' = cause
    /\ UNCHANGED <<pc, left, sending, routing, memory, steered, record, finish>>

-----------------------------------------------------------------------------
(* How it ends: a terminal event, or none, and what Execute returns *)

Leave(events, value) ==
    /\ pc' = "leaving" /\ ends' = ends + events /\ result' = value

FinalizePending == file' = IF file = "gone" THEN "gone" ELSE "replied"

(* EventCanceled; the file goes only when the user asked for it.              *)
LeaveCanceled ==
    /\ cancel # "no" /\ Leave(1, "canceled")
    /\ file' = IF cancel = "user" THEN "gone" ELSE file
    /\ UNCHANGED <<left, sending, routing, memory, steered, raw, saved, tidy, cancel>>

(* A text of the loop's own, EventDone, and the error that is returned.       *)
GiveUp ==
    /\ Leave(1, "error") /\ FinalizePending
    /\ UNCHANGED <<left, model, asked, memory, steered, raw, saved, tidy, cancel>>

(* The deferred functions: an error that nobody reported becomes a terminal   *)
(* event, the steers nobody took are dropped, and the file goes unless it is  *)
(* to be kept.                                                                *)
UnreportedAny == result \in {"canceled", "error"}

Unreported == UnreportedAny /\ ends = 0

Close ==
    /\ pc = "leaving" /\ pc' = "ended"
    /\ ends' = IF Unreported THEN ends + 1 ELSE ends
    /\ queue' = {}
    /\ file' = IF tidy THEN "gone" ELSE file
    /\ UNCHANGED <<left, sending, routing, memory, taken, heard, raw, saved, tidy,
                   cancel, result>>

-----------------------------------------------------------------------------
(* The head of the loop: cancellation, steers, compaction, and the request *)

Over == full /\ model \in Narrow

Injected(msgs) == IF queue = {} THEN msgs ELSE Append(msgs, User(queue))

GetSteer == queue' = {} /\ taken' = taken \cup queue

(* compactHistory: what earlier runs left is extracted once in a run, after   *)
(* that the calls of this run are compacted.  The model that writes the       *)
(* summary may fail at it.                                                    *)
Extracts(msgs) ==
    /\ ~extracted /\ old.many > 0 /\ old.long
    /\ old' = [many |-> 1, long |-> FALSE] /\ hist' = msgs

Compacts(msgs) ==
    /\ CanCompact(msgs, spoken)
    /\ old' = [many |-> 0, long |-> FALSE] /\ hist' = ToolHistory(msgs, spoken)

CompactHistory(msgs) ==
    /\ Extracts(msgs) \/ Compacts(msgs)
    /\ extracted' = TRUE /\ full' = FALSE /\ UNCHANGED failed

CompactFails(msgs) ==
    /\ extracted' = TRUE /\ failed' = TRUE /\ hist' = msgs /\ UNCHANGED <<old, full>>

Begin ==
    /\ pc = "top" /\ left > 0 /\ cancel = "no"
    /\ pc' = "sending" /\ left' = left - 1 /\ GetSteer
    /\ IF left < Limit /\ ~failed /\ Over
       THEN CompactHistory(Injected(hist)) \/ CompactFails(Injected(hist))
       ELSE hist' = Injected(hist) /\ UNCHANGED <<failed, extracted, full, old>>
    /\ UNCHANGED <<sending, routing, spoken, heard, record, cancel, finish>>

Canceled == /\ \/ pc = "top" /\ left > 0
               \/ pc \in {"sending", "waiting"}
            /\ LeaveCanceled

-----------------------------------------------------------------------------
(* A send that failed *)

SendFailed == pc = "sending" /\ cancel = "no"

NothingLeft ==
    /\ SendFailed /\ old.many = 0 /\ hist = <<>>
    /\ GiveUp /\ UNCHANGED <<sending, pool, round>>

TrimNothing == old' = old /\ hist' = hist

(* TrimFallback: two messages of earlier runs, then the calls of this one.    *)
Trim ==
    IF old.many > 0
    THEN old' = [old EXCEPT !.many = @ - Min({2, @})] /\ hist' = hist
    ELSE old' = old /\ hist' = TrimTools(hist)

ContextLength ==
    /\ SendFailed /\ ~(old.many = 0 /\ hist = <<>>)
    /\ pc' = "top" /\ fails' = fails + 1
    /\ \/ ~failed /\ CompactHistory(hist)
       \/ Trim /\ failed' = TRUE /\ extracted' = TRUE /\ UNCHANGED full
    /\ UNCHANGED <<left, timeouts, rates, empties, routing, spoken, steered, record, cancel,
                   finish>>

MayRetry == timeouts < MaxRetry

TimedOut ==
    /\ SendFailed
    /\ IF MayRetry
       THEN pc' = "waiting" /\ timeouts' = timeouts + 1
       ELSE pc' = "fallback" /\ UNCHANGED timeouts
    /\ UNCHANGED <<left, fails, rates, empties, routing, memory, steered, record, cancel, finish>>

RateLimited ==
    /\ SendFailed
    /\ IF rates < RateRetries
       THEN pc' = "waiting" /\ rates' = rates + 1
       ELSE pc' = "fallback" /\ UNCHANGED rates
    /\ UNCHANGED <<left, fails, timeouts, empties, routing, memory, steered, record, cancel,
                   finish>>

(* Out of quota, or any other error.                                          *)
Refused ==
    /\ SendFailed /\ pc' = "fallback"
    /\ UNCHANGED <<left, sending, routing, memory, steered, record, cancel, finish>>

Waited ==
    /\ pc = "waiting" /\ pc' = "top"
    /\ UNCHANGED <<left, sending, routing, memory, steered, record, cancel, finish>>

-----------------------------------------------------------------------------
(* Another provider (model/next.go).  Health checks pick the first model that *)
(* is alive; when none is, the next round begins.                             *)

OthersByModel == {m \in pool : m # model}

Others == {m \in pool : Provider[m] # Provider[model]}

Reset == fails' = 0 /\ timeouts' = 0 /\ rates' = 0 /\ empties' = 0 /\ failed' = FALSE

MoveOn(m) ==
    /\ pc = "fallback" /\ ~Pinned /\ m \in Others /\ cancel = "no"
    /\ pc' = "top" /\ model' = m /\ pool' = Others /\ asked' = Append(asked, m)
    /\ Reset
    /\ hist' = RawToolFallback(hist, spoken)
    /\ old' = IF HasResults(hist, spoken) THEN [many |-> 0, long |-> FALSE] ELSE old
    /\ UNCHANGED <<left, round, extracted, full, spoken, steered, record, cancel, finish>>

NextRound ==
    /\ pc = "fallback" /\ ~Pinned /\ Others # {} /\ round < MaxRetry /\ cancel = "no"
    /\ pool' = Others /\ round' = round + 1
    /\ UNCHANGED <<pc, left, sending, model, asked, memory, steered, record, cancel, finish>>

NoneAlive ==
    /\ pc = "fallback" /\ ~Pinned /\ Others # {} /\ (round = MaxRetry \/ cancel # "no")
    /\ pool' = Others /\ round' = round + 1
    /\ GiveUp /\ UNCHANGED sending

NoFallback ==
    /\ pc = "fallback" /\ (Pinned \/ Others = {})
    /\ GiveUp /\ UNCHANGED <<sending, pool, round>>

-----------------------------------------------------------------------------
(* An answer *)

Turn == Limit - left

Answered ==
    /\ pc = "sending"
    /\ heard' = heard \cup SteersOf(hist)
    /\ fails' = 0 /\ timeouts' = 0 /\ rates' = 0 /\ full' \in BOOLEAN
    /\ UNCHANGED <<left, routing, failed, extracted, old, cancel>>

(* No choice, no content, nothing but markup: asked again MaxRetry times.     *)
Empty ==
    /\ Answered /\ empties' = empties + 1
    /\ IF empties < MaxRetry
       THEN pc' = "top" /\ UNCHANGED <<finish, file>>
       ELSE Leave(1, "nil") /\ FinalizePending
    /\ UNCHANGED <<hist, spoken, queue, taken, raw, saved, tidy>>

HandOff ==
    /\ HandsOff /\ Answered /\ empties' = 0
    /\ Leave(1, "nil") /\ tidy' = TRUE
    /\ UNCHANGED <<hist, spoken, queue, taken, raw, saved, file>>

CallTools(calls) ==
    /\ Answered /\ empties' = 0
    /\ pc' = "tools" /\ hist' = Append(hist, Call(Turn, calls))
    /\ \/ UNCHANGED spoken
       \/ calls = {"todo"} /\ spoken' = spoken \cup {Turn}
    /\ UNCHANGED <<queue, taken, record, finish>>

(* The answer is refused by the guardrail.                                    *)
Ban ==
    /\ Answered /\ empties' = 0
    /\ Leave(1, "nil") /\ FinalizePending /\ tidy' = TRUE
    /\ UNCHANGED <<hist, spoken, queue, taken, raw, saved>>

(* Content of a kind the loop does not know.                                  *)
Unexpected ==
    /\ Answered /\ Leave(0, "error")
    /\ UNCHANGED <<empties, hist, spoken, queue, taken, record>>

(* saveNewHistory appends all of RawHistories to history.json.                *)
SaveNewHistory ==
    /\ raw' = Append(raw, AnswerOf(Turn))
    /\ saved' = saved \o raw'

(* The final answer, unless the user has said something meanwhile.            *)
Answer ==
    /\ Answered /\ empties' = 0
    /\ SaveNewHistory /\ FinalizePending
    /\ GetSteer
    /\ hist' = Injected(Append(hist, Text(Turn)))
    /\ IF queue = {}
       THEN Leave(1, "nil") /\ tidy' = TRUE
       ELSE pc' = "top" /\ UNCHANGED <<finish, tidy>>
    /\ UNCHANGED spoken

-----------------------------------------------------------------------------
(* A batch of tools: every call gets its result, or the run ends in it *)

ResultsOf(m) ==
    LET of(k) == IF k \in m.calls THEN <<Result(m.turn, k)>> ELSE <<>>
    IN  of("todo") \o of("work")

ToolsDone ==
    /\ pc = "tools" /\ cancel = "no"
    /\ pc' = "top" /\ hist' = hist \o ResultsOf(Last(hist))
    /\ UNCHANGED <<left, sending, routing, failed, extracted, full, old, spoken, steered,
                   record, cancel, finish>>

(* ask_user in the background: nothing is reported, the file is kept.         *)
ToolsAsk ==
    /\ pc = "tools" /\ "work" \in Last(hist).calls
    /\ Leave(0, "asked")
    /\ UNCHANGED <<left, sending, routing, memory, steered, record, cancel>>

(* Cancelled meanwhile, a confirmation that was aborted or never answered;    *)
(* the file goes in some of them.                                             *)
ToolsStop ==
    /\ pc = "tools" /\ Leave(0, "error") /\ file' \in {file, "gone"}
    /\ UNCHANGED <<left, sending, routing, memory, steered, raw, saved, tidy, cancel>>

-----------------------------------------------------------------------------
(* The loop is exhausted: one last request, without tools *)

Exhausted ==
    /\ pc = "top" /\ left = 0 /\ pc' = "summary"
    /\ UNCHANGED <<left, sending, routing, memory, steered, record, cancel, finish>>

Summary ==
    /\ pc = "summary" /\ Leave(1, "nil") /\ FinalizePending
    /\ tidy' \in BOOLEAN /\ (cancel # "no" => ~tidy')
    /\ UNCHANGED <<left, sending, routing, memory, steered, raw, saved, cancel>>

-----------------------------------------------------------------------------
AskModel ==
    \/ Begin \/ Canceled \/ NothingLeft \/ ContextLength \/ TimedOut \/ RateLimited
    \/ Refused \/ Waited \/ NextRound \/ NoneAlive \/ NoFallback
    \/ \E m \in Models : MoveOn(m)

Reply ==
    \/ Empty \/ HandOff \/ Ban \/ Answer \/ Unexpected
    \/ \E calls \in (SUBSET Kinds) \ {{}} : CallTools(calls)

Batch == ToolsDone \/ ToolsAsk \/ ToolsStop

Finish == Exhausted \/ Summary \/ Close

Environment ==
    \/ \E s \in Steers : AppendSteer(s)
    \/ \E cause \in {"user", "pause"} : Cancel(cause)

Next == AskModel \/ Reply \/ Batch \/ Finish \/ Environment

Spec == Init /\ [][Next]_vars

-----------------------------------------------------------------------------
Weight == old.many + (IF old.long THEN 1 ELSE 0) + Len(hist)

(* Every variable keeps to its kind and its bounds.                           *)
TypeOK ==
    /\ pc \in {"top", "sending", "waiting", "fallback", "tools", "summary", "leaving", "ended"}
    /\ left \in 0..Limit
    /\ model \in Models /\ pool \subseteq Models /\ round \in 0..(MaxRetry + 1)
    /\ asked \in Seq(Models)
    /\ fails \in Nat /\ timeouts \in 0..MaxRetry /\ rates \in 0..RateRetries
    /\ empties \in 0..(MaxRetry + 1)
    /\ failed \in BOOLEAN /\ extracted \in BOOLEAN /\ full \in BOOLEAN
    /\ old \in [many : Nat, long : BOOLEAN]
    /\ queue \subseteq Steers /\ taken \subseteq Steers /\ heard \subseteq Steers
    /\ file \in {"open", "replied", "gone"} /\ tidy \in BOOLEAN
    /\ cancel \in {"no", "user", "pause"}
    /\ ends \in 0..1 /\ result \in {"none", "nil", "asked", "canceled", "error"}

(* However the messages were compacted, trimmed or turned into raw text, a    *)
(* request (AssembleMessages) never leaves a tool call without its result or  *)
(* a result without its call, for which providers refuse a request for good.  *)
RequestsPaired == pc \in {"sending", "summary"} => Paired(hist)

(* A request refused for its length is shorter when it is sent again, or the  *)
(* run is at its end: execute.go never sends the same one twice.              *)
ContextErrorsShrink == [][fails' > fails => Weight' < Weight]_vars

(* A provider the run has left is never asked again, whatever fails later     *)
(* and however many rounds of health checks it takes (model.Next).            *)
NoProviderTwice ==
    \A i, j \in DOMAIN asked : i # j => Provider[asked[i]] # Provider[asked[j]]

(* Whoever listens hears of the end exactly once, by EventDone, EventCanceled *)
(* or the error recorded at last, but for a run that went on asking the user  *)
(* in the background, which says nothing.                                     *)
EndsOnce ==
    /\ ends <= 1
    /\ pc = "ended" => ends = IF result = "asked" THEN 0 ELSE 1
=============================================================================
