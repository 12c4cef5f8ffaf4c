------------------------------ MODULE Connector ------------------------------
(* A chat connector's prompt listener (internal/runtime/listener.go): one     *)
(* loop goroutine claims prompts from the broker and sends them to their      *)
(* chat, one at a time per chat; every button press or text message of a user *)
(* is a handler goroutine of its own (OnCallback, OnText), which answers one  *)
(* question, asks the next, and after the last resolves the prompt and wakes  *)
(* the loop.  The lock l.mu protects the map cur only: what a handler finds   *)
(* there it uses and changes without it.                                      *)
(*                                                                            *)
(* The broker is the one of PendingBroker with its insertion and signal, and  *)
(* its lookup and delivery, taken as one step each.                           *)

EXTENDS Naturals, Sequences

CONSTANTS
    Prompts,      \* prompts raised for this connector
    Chats,
    ChatOf,       \* the chat a prompt's session maps to
    Confirms,     \* tool confirmations; the others are ask_user prompts
    Async,        \* prompts made with AskUser, which no context ends
    NumQ,         \* number of questions of each prompt, 1 for a confirmation
    Typed,        \* <<p, i>>: question i of p is answered with text
    LookupFails,  \* the outcomes LookupChatID may have for each prompt
    Handlers,     \* bound: handler goroutines that run at once
    DoubleTaps,   \* whether users act on a message they have already acted on
    None

ASSUME ConnectorAssumption ==
    /\ ChatOf \in [Prompts -> Chats]
    /\ Confirms \subseteq Prompts /\ Async \subseteq Prompts \ Confirms
    /\ NumQ \in [Prompts -> Nat \ {0}]
    /\ \A p \in Confirms : NumQ[p] = 1
    /\ Typed \subseteq (Prompts \ Confirms) \X Nat
    /\ LookupFails \in [Prompts -> (SUBSET BOOLEAN) \ {{}}]
    /\ DoubleTaps \in BOOLEAN
    /\ None \notin Prompts

VARIABLES
    (* the broker *)
    entries,    \* prompts in the entries map
    claimed,
    ctxDone,    \* prompts whose Ask context has ended
    told,       \* what each prompt was resolved with: at most one reply
    raised,     \* prompts raised so far
    (* the listener *)
    notify, wakeup,   \* its two channels, capacity one
    stopped,    \* Stop was called
    lpc,        \* the loop
    hand,       \* the prompt the loop is sending
    cur,        \* the prompt each chat is busy with
    (* the active record of each prompt *)
    sel,        \* selected
    ans,        \* answers: which question the user meant with each
    msg,        \* message: its number among those sent for the prompt; 0 is zeroMID
    asked,      \* the question state.kind was set for
    sent,       \* the messages sent for each prompt: the question each one asks
    (* the handlers *)
    hpc,        \* where each handler stands
    ev,         \* what its user did: on which question of which prompt
    obj,        \* the active record it works on
    saw         \* what it has read, sent or will reply

broker == <<entries, claimed, ctxDone, told, raised>>
loop   == <<stopped, lpc, hand>>
active == <<sel, ans, msg, asked, sent>>
handler == <<hpc, ev, obj, saw>>
vars == <<broker, notify, wakeup, loop, cur, active, handler>>

(* An error Reply carries no answers. *)
Failure == << >>
NoEvent == [prompt |-> None, q |-> 0, n |-> 0]

Init ==
    /\ entries = {} /\ claimed = {} /\ ctxDone = {} /\ raised = {}
    /\ told = [p \in Prompts |-> << >>]
    /\ notify = TRUE /\ wakeup = FALSE /\ stopped = FALSE
    /\ lpc = "clean" /\ hand = None
    /\ cur = [c \in Chats |-> None]
    /\ sel = [p \in Prompts |-> 0] /\ ans = [p \in Prompts |-> << >>]
    /\ msg = [p \in Prompts |-> 0] /\ asked = [p \in Prompts |-> 0]
    /\ sent = [p \in Prompts |-> << >>]
    /\ hpc = [h \in Handlers |-> "idle"] /\ ev = [h \in Handlers |-> NoEvent]
    /\ obj = [h \in Handlers |-> None] /\ saw = [h \in Handlers |-> << >>]

-----------------------------------------------------------------------------
(* The broker *)

Raise(p) ==
    /\ p \notin raised
    /\ raised' = raised \cup {p} /\ entries' = entries \cup {p}
    /\ notify' = (notify \/ lpc # "off")
    /\ UNCHANGED <<claimed, ctxDone, told, wakeup, loop, cur, active, handler>>

CtxEnds(p) ==
    /\ p \in entries \ (Async \cup ctxDone)
    /\ ctxDone' = ctxDone \cup {p}
    /\ UNCHANGED <<entries, claimed, told, raised, notify, wakeup, loop, cur,
                   active, handler>>

(* Ask returns and its deferred delete runs; nobody is notified of it.        *)
AskReturns(p) ==
    /\ p \in entries \ Async
    /\ p \in ctxDone \/ told[p] # << >>
    /\ entries' = entries \ {p}
    /\ UNCHANGED <<claimed, ctxDone, told, raised, notify, wakeup, loop, cur,
                   active, handler>>

(* DropTask, for the asynchronous prompts, which carry a task. *)
Drop(p) ==
    /\ p \in entries \cap Async
    /\ entries' = entries \ {p}
    /\ UNCHANGED <<claimed, ctxDone, told, raised, notify, wakeup, loop, cur,
                   active, handler>>

Resolve(p, reply) ==
    /\ entries' = entries \ ({p} \cap Async)
    /\ told' = [told EXCEPT ![p] = IF p \in entries /\ @ = << >> THEN <<reply>> ELSE @]
    /\ UNCHANGED <<claimed, ctxDone, raised>>

-----------------------------------------------------------------------------
(* The loop *)

(* cleanStaleCur *)
CleanStaleCur ==
    /\ lpc = "clean" /\ lpc' = "pick"
    /\ cur' = [c \in Chats |-> IF cur[c] \in entries THEN cur[c] ELSE None]
    /\ UNCHANGED <<broker, notify, wakeup, stopped, hand, active, handler>>

(* Mutant: a busy chat is not looked at. *)
AcceptBusy(p) == p \in Prompts

(* LookupChatID may find the chat of p; it may fail to. *)
Found(p) == FALSE \in LookupFails[p]
Lost(p)  == TRUE \in LookupFails[p]

(* accept: the chat is free, or cannot be looked up. *)
Accept(p) == Lost(p) \/ (Found(p) /\ cur[ChatOf[p]] = None)

(* The entries this listener could claim now whatever its lookups say. *)
Waiting(p) == p \in entries \ (claimed \cup ctxDone)

(* Mutant: the entry is not marked. *)
PickUnmarked(p) ==
    /\ lpc = "pick" /\ lpc' = "send"
    /\ Waiting(p) /\ Accept(p)
    /\ hand' = p
    /\ UNCHANGED <<broker, notify, wakeup, stopped, cur, active, handler>>

(* PickNextMatch (any order stands for the order of EnqueueAt). *)
Pick(p) ==
    /\ lpc = "pick" /\ lpc' = "send"
    /\ Waiting(p) /\ Accept(p)
    /\ claimed' = claimed \cup {p} /\ hand' = p
    /\ UNCHANGED <<entries, ctxDone, told, raised, notify, wakeup, stopped, cur,
                   active, handler>>

(* A lookup that fails leaves nothing to wait for: the prompt is accepted.    *)
PickNone ==
    /\ lpc = "pick" /\ lpc' = "sleep"
    /\ \A p \in Prompts : ~ (Waiting(p) /\ (~Found(p) \/ cur[ChatOf[p]] = None))
    /\ UNCHANGED <<broker, notify, wakeup, stopped, hand, cur, active, handler>>

(* sendPrompt: the prompt is resolved with an error if its context has ended, *)
(* its chat cannot be looked up, or the message cannot be sent.               *)
SendFails ==
    /\ lpc = "send" /\ lpc' = "pick"
    /\ Resolve(hand, Failure)
    /\ hand' = None
    /\ UNCHANGED <<notify, wakeup, stopped, cur, active, handler>>

(* The message is in the chat before the listener knows its id. *)
SendPrompt ==
    /\ lpc = "send" /\ lpc' = "install"
    /\ Found(hand)
    /\ sent' = [sent EXCEPT ![hand] = <<1>>]
    /\ UNCHANGED <<broker, notify, wakeup, stopped, hand, cur, sel, ans, msg,
                   asked, handler>>

(* The end of startConfirm and startAskUser. *)
Install ==
    /\ lpc = "install" /\ lpc' = "pick"
    /\ cur' = [cur EXCEPT ![ChatOf[hand]] = hand]
    /\ msg' = [msg EXCEPT ![hand] = 1] /\ asked' = [asked EXCEPT ![hand] = 1]
    /\ hand' = None
    /\ UNCHANGED <<broker, notify, wakeup, stopped, sel, ans, sent, handler>>

(* Mutant: the loop does not wait on its own wakeup channel. *)
WakeByNotify ==
    /\ lpc = "sleep" /\ lpc' = "clean"
    /\ notify /\ notify' = FALSE
    /\ UNCHANGED <<broker, wakeup, stopped, hand, cur, active, handler>>

Wake ==
    /\ lpc = "sleep" /\ lpc' = "clean"
    /\ \/ notify /\ notify' = FALSE /\ UNCHANGED wakeup
       \/ wakeup /\ wakeup' = FALSE /\ UNCHANGED notify
    /\ UNCHANGED <<broker, stopped, hand, cur, active, handler>>

Stop ==
    /\ ~stopped /\ stopped' = TRUE
    /\ UNCHANGED <<broker, notify, wakeup, lpc, hand, cur, active, handler>>

Unregister ==
    /\ lpc = "sleep" /\ stopped /\ lpc' = "off"
    /\ UNCHANGED <<broker, notify, wakeup, stopped, hand, cur, active, handler>>

-----------------------------------------------------------------------------
(* The handlers *)

HGoTo(h, from, to) ==
    /\ hpc[h] = from
    /\ hpc' = [hpc EXCEPT ![h] = to]

(* A user acts on message n of prompt p: presses a button, or types.  Users   *)
(* who do not double-tap wait for the connector to have handled their last.   *)
UserActs(h, p, n) ==
    /\ ~stopped /\ HGoTo(h, "idle", "check")
    /\ n \in DOMAIN sent[p]
    /\ <<p, sent[p][n]>> \in Typed => n = Len(sent[p])
    /\ DoubleTaps \/ \A g \in Handlers : hpc[g] = "idle" \/ ev[g].prompt # p
    /\ ev' = [ev EXCEPT ![h] = [prompt |-> p, q |-> sent[p][n],
                                n |-> IF <<p, sent[p][n]>> \in Typed THEN 0 ELSE n]]
    /\ UNCHANGED <<broker, notify, wakeup, loop, cur, active, obj, saw>>

Forget(h) ==
    /\ ev' = [ev EXCEPT ![h] = NoEvent]
    /\ obj' = [obj EXCEPT ![h] = None]
    /\ saw' = [saw EXCEPT ![h] = << >>]

(* Mutant: a press is taken for the chat's prompt whatever message it is on.  *)
FindsAny(h, p) == cur[ChatOf[ev[h].prompt]] = p

(* The prompt an event is for: a press must be on the prompt's present        *)
(* message, a text is for whatever text question the chat is busy with.       *)
Finds(h, p) ==
    /\ cur[ChatOf[ev[h].prompt]] = p
    /\ IF ev[h].n = 0 THEN <<p, asked[p]>> \in Typed
                      ELSE p = ev[h].prompt /\ msg[p] = ev[h].n

CheckHit(h) ==
    \E p \in Prompts :
        /\ HGoTo(h, "check", "delete")
        /\ Finds(h, p)
        /\ obj' = [obj EXCEPT ![h] = p]
        /\ UNCHANGED <<broker, notify, wakeup, loop, cur, active, ev, saw>>

CheckMiss(h) ==
    /\ HGoTo(h, "check", "idle")
    /\ \A p \in Prompts : ~Finds(h, p)
    /\ Forget(h)
    /\ UNCHANGED <<broker, notify, wakeup, loop, cur, active>>

(* From here on the handler works on the record it found. *)
Meant(h) == <<ev[h].prompt, ev[h].q>>

(* deletePrompt; an ask_user handler then reads the answers it will append to. *)
DeletePrompt(h) ==
    /\ HGoTo(h, "delete", IF obj[h] \in Confirms THEN "finalize" ELSE "append")
    /\ msg' = [msg EXCEPT ![obj[h]] = 0]
    /\ saw' = [saw EXCEPT ![h] = IF obj[h] \in Confirms THEN <<Meant(h)>> ELSE ans[obj[h]]]
    /\ UNCHANGED <<broker, notify, wakeup, loop, cur, sel, ans, asked, sent, ev, obj>>

(* The append is a write of what was read: two at once may lose an answer.    *)
AppendAnswer(h) ==
    /\ HGoTo(h, "append", "advance")
    /\ ans' = [ans EXCEPT ![obj[h]] = Append(saw[h], Meant(h))]
    /\ UNCHANGED <<broker, notify, wakeup, loop, cur, sel, msg, asked, sent, ev,
                   obj, saw>>

(* advance: the answers are complete, or the next question is due. *)
Advance(h) ==
    LET p == obj[h] IN
    /\ hpc[h] = "advance"
    /\ sel' = [sel EXCEPT ![p] = @ + 1]
    /\ IF sel'[p] >= NumQ[p]
       THEN HGoTo(h, "advance", "finalize") /\ saw' = [saw EXCEPT ![h] = ans[p]]
       ELSE HGoTo(h, "advance", "ask") /\ UNCHANGED saw
    /\ UNCHANGED <<broker, notify, wakeup, loop, cur, ans, msg, asked, sent, ev, obj>>

(* askNext reads selected again: if another handler has moved it past the     *)
(* last question, the index is out of range and the goroutine panics.         *)
AskNext(h) ==
    LET p == obj[h] IN
    /\ hpc[h] = "ask"
    /\ IF sel[p] < NumQ[p]
       THEN /\ HGoTo(h, "ask", "record")
            /\ sent' = [sent EXCEPT ![p] = Append(@, sel[p] + 1)]
            /\ saw' = [saw EXCEPT ![h] = <<Len(sent'[p]), sel[p] + 1>>]
       ELSE HGoTo(h, "ask", "panic") /\ UNCHANGED <<sent, saw>>
    /\ UNCHANGED <<broker, notify, wakeup, loop, cur, sel, ans, msg, asked, ev, obj>>

(* The send returned: the message's id and kind are noted. *)
Record(h) ==
    /\ HGoTo(h, "record", "idle")
    /\ msg' = [msg EXCEPT ![obj[h]] = saw[h][1]]
    /\ asked' = [asked EXCEPT ![obj[h]] = saw[h][2]]
    /\ Forget(h)
    /\ UNCHANGED <<broker, notify, wakeup, loop, cur, sel, ans, sent>>

(* The next question is empty or cannot be sent. *)
AskFails(h) ==
    /\ HGoTo(h, "ask", "finalize")
    /\ sel[obj[h]] < NumQ[obj[h]]
    /\ saw' = [saw EXCEPT ![h] = Failure]
    /\ UNCHANGED <<broker, notify, wakeup, loop, cur, active, ev, obj>>

(* finalize: the chat is freed, the prompt resolved, the loop woken. *)
FreeChat(h) ==
    /\ HGoTo(h, "finalize", "resolve")
    /\ cur' = [cur EXCEPT ![ChatOf[obj[h]]] = IF @ = obj[h] THEN None ELSE @]
    /\ UNCHANGED <<broker, notify, wakeup, loop, active, ev, obj, saw>>

ResolvePrompt(h) ==
    /\ HGoTo(h, "resolve", "wakeup")
    /\ Resolve(obj[h], saw[h])
    /\ UNCHANGED <<notify, wakeup, loop, cur, active, ev, obj, saw>>

(* Mutant: finalize forgets the loop. *)
WakeNobody(h) ==
    /\ HGoTo(h, "wakeup", "idle")
    /\ Forget(h)
    /\ UNCHANGED <<broker, notify, wakeup, loop, cur, active>>

WakeLoop(h) ==
    /\ HGoTo(h, "wakeup", "idle")
    /\ wakeup' = TRUE
    /\ Forget(h)
    /\ UNCHANGED <<broker, notify, loop, cur, active>>

-----------------------------------------------------------------------------
LoopStep ==
    \/ CleanStaleCur \/ PickNone \/ SendFails \/ SendPrompt \/ Install \/ Wake
    \/ Unregister
    \/ \E p \in Prompts : Pick(p)

HandlerStep(h) ==
    \/ CheckHit(h) \/ CheckMiss(h) \/ DeletePrompt(h) \/ AppendAnswer(h)
    \/ Advance(h) \/ AskNext(h) \/ Record(h) \/ AskFails(h)
    \/ FreeChat(h) \/ ResolvePrompt(h) \/ WakeLoop(h)

Next ==
    \/ LoopStep
    \/ \E h \in Handlers : HandlerStep(h)
    \/ \E h \in Handlers, p \in Prompts : \E n \in DOMAIN sent[p] : UserActs(h, p, n)
    \/ \E p \in Prompts : Raise(p) \/ CtxEnds(p) \/ AskReturns(p) \/ Drop(p)
    \/ Stop

(* Goroutines run and the chat's API answers; nothing is assumed of users.    *)
Fairness ==
    /\ WF_vars(LoopStep)
    /\ \A h \in Handlers : WF_vars(HandlerStep(h))
    /\ \A p \in Prompts : WF_vars(AskReturns(p))

Spec == Init /\ [][Next]_vars
FairSpec == Spec /\ Fairness

-----------------------------------------------------------------------------
(* Properties *)

HandlerStates ==
    {"idle", "check", "delete", "append", "advance", "ask", "record", "finalize",
     "resolve", "wakeup", "panic"}

(* Types; in particular a prompt is resolved at most once, and a message the   *)
(* listener expects an answer on is one it has sent.                          *)
TypeOK ==
    /\ entries \subseteq raised /\ claimed \subseteq raised
    /\ ctxDone \subseteq raised /\ raised \subseteq Prompts
    /\ told \in [Prompts -> Seq(Seq(Prompts \X Nat))]
    /\ \A p \in Prompts : Len(told[p]) <= 1
    /\ notify \in BOOLEAN /\ wakeup \in BOOLEAN /\ stopped \in BOOLEAN
    /\ lpc \in {"clean", "pick", "send", "install", "sleep", "off"}
    /\ hand \in Prompts \cup {None}
    /\ lpc \in {"send", "install"} <=> hand # None
    /\ cur \in [Chats -> Prompts \cup {None}]
    /\ \A c \in Chats : cur[c] # None => ChatOf[cur[c]] = c
    /\ sel \in [Prompts -> Nat] /\ ans \in [Prompts -> Seq(Prompts \X Nat)]
    /\ msg \in [Prompts -> Nat] /\ asked \in [Prompts -> Nat]
    /\ sent \in [Prompts -> Seq(Nat)]
    /\ \A p \in Prompts : msg[p] \in {0} \cup DOMAIN sent[p]
    /\ hpc \in [Handlers -> HandlerStates]
    /\ ev \in [Handlers -> [prompt : Prompts \cup {None}, q : Nat, n : Nat]]
    /\ obj \in [Handlers -> Prompts \cup {None}]

(* A chat is never given a second prompt while it is busy with one, so the    *)
(* record a user's presses are matched against is not replaced under them     *)
(* (accept is asked under the broker's lock, cur is set after the send).      *)
OnePromptPerChat ==
    [][\A c \in Chats : cur[c] # None => cur'[c] \in {cur[c], None}]_vars

(* No lookup fails at one time and succeeds at another.  One that does makes  *)
(* accept take a prompt for a busy chat and sendPrompt send it.               *)
StableLookups == \A p \in Prompts : ~(Found(p) /\ Lost(p))

(* No chat is ever asked text questions by two prompts.  OnText takes a text   *)
(* for the text question its chat is busy with, whichever question the user   *)
(* was reading.                                                               *)
TextsAreForOne == \A t, u \in Typed : ChatOf[t[1]] = ChatOf[u[1]] => t[1] = u[1]

(* The loop never sleeps, with both channels empty, while a prompt waits for  *)
(* a free chat: whoever frees a chat is about to wake the loop.               *)
FreeChatIsServed ==
    \A p \in Prompts :
        (lpc = "sleep" /\ Waiting(p) /\ cur[ChatOf[p]] = None)
            => \/ notify \/ wakeup
               \/ \E h \in Handlers : hpc[h] \in {"resolve", "wakeup"}

(* "Questions to ask in order" (the ask_user tool): a requester is given one  *)
(* answer per question, and the user meant each answer for that question.     *)
AnswersInOrder ==
    \A p \in Prompts :
        told[p] \in {<< >>, <<Failure>>, <<[i \in 1..NumQ[p] |-> <<p, i>>]>>}

(* A prompt for a running connector is eventually claimed, or goes away, or   *)
(* finds its chat busy.                                                       *)
EventuallyClaimed ==
    \A p \in Prompts :
        (Waiting(p) /\ lpc # "off")
            ~> (~Waiting(p) \/ stopped \/ cur[ChatOf[p]] # None)

(* What requesters see of the connector and its broker is PromptLifecycle.    *)
StatusOf(p) ==
    IF p \notin raised THEN "none"
    ELSE IF told[p] # << >> THEN "answered"
    ELSE IF p \notin entries THEN "withdrawn"
    ELSE IF p \in claimed THEN "claimed"
    ELSE "open"

Lifecycle == INSTANCE PromptLifecycle
             WITH Requests <- Prompts, Replies <- {"reply"},
                  status <- [p \in Prompts |-> StatusOf(p)],
                  told <- [p \in Prompts |-> [i \in DOMAIN told[p] |-> "reply"]]

(* Raising, sending, pressing, stopping and dropping in any order leave every *)
(* prompt on its way from open to answered once or withdrawn.                 *)
ImplementsLifecycle == Lifecycle!PSpec
=============================================================================
