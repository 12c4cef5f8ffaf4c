---------------------------- MODULE PendingBroker ----------------------------
(* The process-wide registry of prompts that wait for a human: tool           *)
(* confirmations and ask_user questions (internal/runtime/pending.go).        *)
(*                                                                            *)
(* A requester is the goroutine that calls Ask (synchronous: it blocks until  *)
(* a reply or the end of its context) or AskUser (asynchronous: it returns at *)
(* once and a callback runs on the reply).  A listener is a connector         *)
(* goroutine (one TUI connection, the web stream, one chat bot): it claims    *)
(* prompts with PickNextMatch, shows them, and sleeps on a notification       *)
(* channel of capacity one.  Resolve, called from any goroutine, first looks  *)
(* the entry up under the lock and then, outside the lock, delivers the       *)
(* reply.                                                                     *)

EXTENDS Naturals, Sequences, FiniteSets

CONSTANTS
    Requests,     \* prompts, one per call of Ask or AskUser
    Listeners,    \* listener registrations, one per running connector
    Tasks,        \* task hashes
    NoHash,       \* the empty hash: a confirmation belongs to no pending task
    UserReplies,  \* what a human can answer
    Failure,      \* the Reply a listener gives when it cannot show a prompt
    Async,        \* the requests made with AskUser
    TaskOf,       \* the task hash each request carries
    Prefixed,     \* requests whose Origin has the listener's prefix
    Accepts,      \* among them, those its accept function takes
    MaxResolves   \* bound: how often one prompt is resolved (double clicks)

ASSUME BrokerAssumption ==
    /\ Async \subseteq Requests
    /\ TaskOf \in [Requests -> Tasks]
    /\ Prefixed \in [Listeners -> SUBSET Requests]
    /\ Accepts \in [Listeners -> SUBSET Requests]
    /\ \A l \in Listeners : Accepts[l] \subseteq Prefixed[l]
    /\ MaxResolves \in Nat

Replies == UserReplies \cup {Failure}
Message == [req : Requests, nth : 1..MaxResolves, reply : Replies]

VARIABLES
    (* the registry, under mu *)
    entries,      \* ids in the entries map
    claimed,      \* requests whose entry has claimed = true
    (* the requesters *)
    asker,        \* where each requester stands in Ask or AskUser
    stamp,        \* EnqueueAt of each request
    clock,        \* time.Now() as the requesters read it
    ctxDone,      \* requests whose context has ended
    replyCh,      \* each entry's reply channel, capacity 1
    received,     \* replies the requester was given, oldest first
    (* Resolve calls between their lookup and their delivery *)
    inflight,
    resolves,     \* how often each request was resolved
    dropped,      \* requests DropTask removed from the map
    (* the listeners *)
    listening,    \* the listeners list, under listenerMu
    notify,       \* listeners whose notification channel is full
    lpc,          \* where each listener's loop stands
    hand,         \* the request a listener has just claimed (at most one)
    shown,        \* requests a listener shows to its user
    stopped       \* listeners whose context has ended

registry  == <<entries, claimed, dropped>>
requester == <<asker, stamp, clock, ctxDone, replyCh, received>>
resolver  == <<inflight, resolves>>
listener  == <<listening, notify, lpc, hand, shown, stopped>>
vars == <<registry, requester, resolver, listener>>

-----------------------------------------------------------------------------
Init ==
    /\ entries = {} /\ claimed = {} /\ dropped = {}
    /\ asker = [r \in Requests |-> "new"]
    /\ stamp = [r \in Requests |-> 0]
    /\ clock = 0
    /\ ctxDone = {}
    /\ replyCh = [r \in Requests |-> << >>]
    /\ received = [r \in Requests |-> << >>]
    /\ inflight = {}
    /\ resolves = [r \in Requests |-> 0]
    /\ listening = {} /\ notify = {} /\ stopped = {}
    /\ lpc = [l \in Listeners |-> "new"]
    /\ hand = [l \in Listeners |-> {}]
    /\ shown = [l \in Listeners |-> {}]

-----------------------------------------------------------------------------
(* Requesters *)

GoTo(r, from, to) ==
    /\ asker[r] = from
    /\ asker' = [asker EXCEPT ![r] = to]

(* Ask and AskUser read the clock before they take the lock, so entries may be *)
(* inserted in another order than their EnqueueAt.                            *)
Stamp(r) ==
    /\ GoTo(r, "new", "stamped")
    /\ clock' = clock + 1
    /\ stamp' = [stamp EXCEPT ![r] = clock']
    /\ UNCHANGED <<registry, ctxDone, replyCh, received, resolver, listener>>

Insert(r) ==
    /\ GoTo(r, "stamped", "inserted")
    /\ entries' = entries \cup {r}
    /\ UNCHANGED <<claimed, dropped, stamp, clock, ctxDone, replyCh, received,
                   resolver, listener>>

(* Mutant: the signal goes to one of the matching listeners only.             *)
SignalForOne(r) ==
    /\ GoTo(r, "inserted", IF r \in Async THEN "returned" ELSE "waiting")
    /\ \E l \in listening : r \in Prefixed[l] /\ notify' = notify \cup {l}
    /\ UNCHANGED <<registry, stamp, clock, ctxDone, replyCh, received, resolver,
                   listening, lpc, hand, shown, stopped>>

(* signalFor: a non-blocking send to every registered listener whose prefix   *)
(* matches.  AskUser then returns; Ask goes on to wait.                       *)
SignalFor(r) ==
    /\ GoTo(r, "inserted", IF r \in Async THEN "returned" ELSE "waiting")
    /\ notify' = notify \cup {l \in listening : r \in Prefixed[l]}
    /\ UNCHANGED <<registry, stamp, clock, ctxDone, replyCh, received, resolver,
                   listening, lpc, hand, shown, stopped>>

(* The two branches of Ask's select; when both are ready either may be taken. *)
TakeReply(r) ==
    /\ GoTo(r, "waiting", "leaving")
    /\ replyCh[r] # << >>
    /\ received' = [received EXCEPT ![r] = Append(@, Head(replyCh[r]))]
    /\ replyCh' = [replyCh EXCEPT ![r] = Tail(@)]
    /\ UNCHANGED <<registry, stamp, clock, ctxDone, resolver, listener>>

TakeCtxDone(r) ==
    /\ GoTo(r, "waiting", "leaving")
    /\ r \in ctxDone
    /\ UNCHANGED <<registry, stamp, clock, ctxDone, replyCh, received, resolver,
                   listener>>

(* Ask's deferred delete. *)
Leave(r) ==
    /\ GoTo(r, "leaving", "returned")
    /\ entries' = entries \ {r}
    /\ UNCHANGED <<claimed, dropped, stamp, clock, ctxDone, replyCh, received,
                   resolver, listener>>

(* The caller's context ends: cancelled, or the confirmation timeout.  An     *)
(* asynchronous request has context.Background, which never ends.  What a     *)
(* context does before the entry exists or after Ask has left is invisible.   *)
CtxEnds(r) ==
    /\ r \notin Async \cup ctxDone
    /\ asker[r] \in {"inserted", "waiting"}
    /\ ctxDone' = ctxDone \cup {r}
    /\ UNCHANGED <<registry, asker, stamp, clock, replyCh, received, resolver,
                   listener>>

(* DropTask: every entry of the task leaves the map, whoever waits for it.    *)
DropTask(t) ==
    LET gone == {r \in entries : TaskOf[r] = t} IN
    /\ t # NoHash /\ gone # {}
    /\ entries' = entries \ gone
    /\ dropped' = dropped \cup gone
    /\ UNCHANGED <<claimed, requester, resolver, listener>>

-----------------------------------------------------------------------------
(* Resolve, in its two steps *)

(* Mutant: a synchronous and an asynchronous entry are looked up alike, and    *)
(* stay in the map.                                                           *)
ResolveLookupKeepsEntry(r, v) ==
    /\ r \in entries
    /\ resolves[r] < MaxResolves
    /\ resolves' = [resolves EXCEPT ![r] = @ + 1]
    /\ inflight' = inflight \cup {[req |-> r, nth |-> resolves[r] + 1, reply |-> v]}
    /\ UNCHANGED registry

(* Mutant: the entry is used without looking whether it is still in the map.  *)
ResolveLookupUnchecked(r, v) ==
    /\ resolves[r] < MaxResolves
    /\ resolves' = [resolves EXCEPT ![r] = @ + 1]
    /\ inflight' = inflight \cup {[req |-> r, nth |-> resolves[r] + 1, reply |-> v]}
    /\ entries' = entries \ (Async \cap {r})
    /\ UNCHANGED <<claimed, dropped>>

(* The lookup, under the lock: nothing is done for an id that is not in the   *)
(* map, and an asynchronous entry leaves the map here.                        *)
ResolveLookup(r, v) ==
    /\ IF r \in entries
       THEN /\ resolves[r] < MaxResolves
            /\ resolves' = [resolves EXCEPT ![r] = @ + 1]
            /\ inflight' = inflight \cup {[req |-> r, nth |-> resolves[r] + 1, reply |-> v]}
            /\ entries' = entries \ (Async \cap {r})
       ELSE UNCHANGED <<resolver, entries>>
    /\ UNCHANGED <<claimed, dropped>>

(* The delivery, outside it: the callback goroutine of an asynchronous entry, *)
(* a non-blocking send on the channel of a synchronous one.                   *)
Deliver(m) ==
    /\ m \in inflight
    /\ inflight' = inflight \ {m}
    /\ IF m.req \in Async
       THEN /\ received' = [received EXCEPT ![m.req] = Append(@, m.reply)]
            /\ UNCHANGED replyCh
       ELSE /\ replyCh' = [replyCh EXCEPT ![m.req] = IF @ = << >> THEN <<m.reply>> ELSE @]
            /\ UNCHANGED received
    /\ UNCHANGED <<registry, asker, stamp, clock, ctxDone, resolves, listener>>

-----------------------------------------------------------------------------
(* Listeners *)

Step(l, from, to) ==
    /\ lpc[l] = from
    /\ lpc' = [lpc EXCEPT ![l] = to]

(* RegisterListenerMatch: the listener joins the list and notifies itself.    *)
Register(l) ==
    /\ Step(l, "new", "scan")
    /\ listening' = listening \cup {l}
    /\ notify' = notify \cup {l}
    /\ UNCHANGED <<registry, requester, resolver, hand, shown, stopped>>

(* Mutant: entries whose context has ended are candidates too.                *)
CandidatesAnyContext(l) == (entries \cap Accepts[l]) \ claimed

Candidates(l) == {r \in (entries \cap Accepts[l]) \ claimed : r \notin ctxDone}

(* Mutant: the entry is chosen but not marked.                                *)
PickNextMatchUnmarked(l, r) ==
    /\ Step(l, "scan", "showing")
    /\ r \in Candidates(l)
    /\ \A q \in Candidates(l) : stamp[r] <= stamp[q]
    /\ hand' = [hand EXCEPT ![l] = {r}]
    /\ UNCHANGED <<registry, requester, resolver, listening, notify, shown, stopped>>

(* PickNextMatch: the oldest unclaimed entry with a live context. *)
PickNextMatch(l, r) ==
    /\ Step(l, "scan", "showing")
    /\ r \in Candidates(l)
    /\ \A q \in Candidates(l) : stamp[r] <= stamp[q]
    /\ claimed' = claimed \cup {r}
    /\ hand' = [hand EXCEPT ![l] = {r}]
    /\ UNCHANGED <<entries, dropped, requester, resolver, listening, notify, shown, stopped>>

PickNone(l) ==
    /\ Step(l, "scan", "sleep")
    /\ Candidates(l) = {}
    /\ UNCHANGED <<registry, requester, resolver, listening, notify, hand, shown, stopped>>

(* The claimed prompt is shown; or it cannot be, and the listener resolves it *)
(* with an error itself (context ended meanwhile, unknown chat, send failed). *)
Show(l) ==
    /\ Step(l, "showing", "scan")
    /\ shown' = [shown EXCEPT ![l] = @ \cup hand[l]]
    /\ hand' = [hand EXCEPT ![l] = {}]
    /\ UNCHANGED <<registry, requester, resolver, listening, notify, stopped>>

FailToShow(l) ==
    /\ Step(l, "showing", "scan")
    /\ \E r \in hand[l] : ResolveLookup(r, Failure)
    /\ hand' = [hand EXCEPT ![l] = {}]
    /\ UNCHANGED <<requester, listening, notify, shown, stopped>>

(* The user answers, perhaps twice: the buttons outlive the first click.      *)
UserAnswers(l, r, v) ==
    /\ r \in shown[l]
    /\ ResolveLookup(r, v)
    /\ UNCHANGED <<requester, listener>>

Wake(l) ==
    /\ Step(l, "sleep", "scan")
    /\ l \in notify
    /\ notify' = notify \ {l}
    /\ UNCHANGED <<registry, requester, resolver, listening, hand, shown, stopped>>

(* Stop only cancels the loop's context, which the loop looks at nowhere but  *)
(* where it sleeps; what it had claimed stays claimed.                        *)
Stop(l) ==
    /\ l \notin stopped
    /\ lpc[l] = "sleep"
    /\ stopped' = stopped \cup {l}
    /\ UNCHANGED <<registry, requester, resolver, listening, notify, lpc, hand, shown>>

Unregister(l) ==
    /\ Step(l, "sleep", "off")
    /\ l \in stopped
    /\ listening' = listening \ {l}
    /\ UNCHANGED <<registry, requester, resolver, notify, hand, shown, stopped>>

-----------------------------------------------------------------------------
RequesterStep(r) ==
    \/ Insert(r) \/ SignalFor(r) \/ TakeReply(r) \/ TakeCtxDone(r) \/ Leave(r)

ListenerStep(l) ==
    \/ PickNone(l) \/ Show(l) \/ FailToShow(l) \/ Wake(l) \/ Unregister(l)
    \/ \E r \in Requests : PickNextMatch(l, r)

Environment ==
    \/ \E r \in Requests : Stamp(r) \/ CtxEnds(r)
    \/ \E t \in Tasks : DropTask(t)
    \/ \E l \in Listeners : Register(l) \/ Stop(l)
    \/ \E l \in Listeners, r \in Requests, v \in UserReplies : UserAnswers(l, r, v)

Next ==
    \/ \E r \in Requests : RequesterStep(r)
    \/ \E l \in Listeners : ListenerStep(l)
    \/ \E m \in inflight : Deliver(m)
    \/ Environment

Spec == Init /\ [][Next]_vars

-----------------------------------------------------------------------------
(* Properties *)

AskerStates    == {"new", "stamped", "inserted", "waiting", "leaving", "returned"}
ListenerStates == {"new", "scan", "showing", "sleep", "off"}

(* Types; in particular the reply channel of Ask never holds more than one    *)
(* reply, and a listener has at most one freshly claimed prompt in hand.      *)
TypeOK ==
    /\ entries \subseteq Requests /\ claimed \subseteq Requests
    /\ dropped \subseteq Requests /\ ctxDone \subseteq Requests \ Async
    /\ asker \in [Requests -> AskerStates]
    /\ stamp \in [Requests -> Nat] /\ clock \in Nat
    /\ replyCh \in [Requests -> Seq(Replies)]
    /\ \A r \in Requests : Len(replyCh[r]) <= 1
    /\ received \in [Requests -> Seq(Replies)]
    /\ inflight \subseteq Message
    /\ resolves \in [Requests -> 0..MaxResolves]
    /\ listening \subseteq Listeners /\ notify \subseteq Listeners
    /\ stopped \subseteq Listeners
    /\ lpc \in [Listeners -> ListenerStates]
    /\ hand \in [Listeners -> SUBSET Requests]
    /\ shown \in [Listeners -> SUBSET Requests]

Held(l) == hand[l] \cup shown[l]

(* A prompt is put before at most one listener, even when several match its   *)
(* origin and scan at once (PickNextMatch claims under mu).                   *)
ClaimExclusive ==
    \A l, m \in Listeners : l # m => Held(l) \cap Held(m) = {}

(* However often and by whomever Resolve is called, a requester is given at   *)
(* most one reply, and an ask_user whose task was dropped is given none: the  *)
(* entry leaves the map under the lock before its callback is started.        *)
AnsweredOnceOrDropped ==
    \A r \in Requests :
        /\ Len(received[r]) <= 1
        /\ r \in Async \cap dropped => received[r] = << >>

(* No lost wakeup: a listener never sleeps, un-notified, over a prompt it     *)
(* would take, once the requester has signalled (notify channel of capacity   *)
(* one, scan before every wait).                                              *)
NoLostWakeup ==
    \A l \in Listeners, r \in Requests :
        (lpc[l] = "sleep" /\ r \in Candidates(l))
            => l \in notify \/ asker[r] = "inserted"

(* A prompt is only ever claimed while its requester still waits for it: not  *)
(* in the window between the end of Ask's context and its deferred delete.    *)
ClaimedWhileWaiting ==
    [][\A l \in Listeners : \A r \in hand'[l] \ hand[l] :
           asker[r] \in (IF r \in Async THEN {"inserted", "returned"}
                                        ELSE {"inserted", "waiting"})]_vars

-----------------------------------------------------------------------------
(* The broker implements PromptLifecycle. *)

StatusOf(r) ==
    IF asker[r] \in {"new", "stamped"} THEN "none"
    ELSE IF received[r] # << >> THEN "answered"
    ELSE IF IF r \in Async THEN r \in dropped ELSE asker[r] \in {"leaving", "returned"}
         THEN "withdrawn"
    ELSE IF r \in claimed THEN "claimed"
    ELSE "open"

Lifecycle == INSTANCE PromptLifecycle
             WITH status <- [r \in Requests |-> StatusOf(r)], told <- received

(* Every step of the registry, the requesters and the listeners is a step of  *)
(* the prompts' abstract life, or leaves it alone.                            *)
ImplementsLifecycle == Lifecycle!PSpec
=============================================================================
