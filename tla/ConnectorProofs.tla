--------------------------- MODULE ConnectorProofs ---------------------------
(* Theorems about Connector, for any number of chats, prompts and handlers.   *)
EXTENDS Connector, TLAPS

(* What the first two theorems need of the types: the loop's hand, the busy   *)
(* chats and where the handlers stand.                                        *)
LoopTypes ==
    /\ hand \in Prompts \cup {None}
    /\ lpc \in {"send", "install"} => hand \in Prompts
    /\ cur \in [Chats -> Prompts \cup {None}]
    /\ hpc \in [Handlers -> HandlerStates]

(* While the loop has a prompt in hand that can be sent, its chat is free:    *)
(* the handlers only ever free chats, and only the loop makes one busy.       *)
HandIsFree ==
    lpc \in {"send", "install"} /\ Found(hand)
        => cur[ChatOf[hand]] = None

SendingIsLookedUp == lpc = "install" => Found(hand)

COneInv == LoopTypes /\ HandIsFree /\ SendingIsLookedUp

LEMMA InitLoopTypes == Init => LoopTypes
  BY DEF Init, LoopTypes, HandlerStates

(* Each step of the loop, of a handler or of the broker keeps the types.      *)
LEMMA NextLoopTypes ==
  ASSUME LoopTypes, [Next]_vars
  PROVE  LoopTypes'
<1> USE ConnectorAssumption DEF LoopTypes, HandlerStates
<1>1. CASE LoopStep
  <2>1. ASSUME NEW p \in Prompts, Pick(p) PROVE LoopTypes'
    BY <2>1 DEF Pick, active, handler
  <2>2. CASE CleanStaleCur
    BY <2>2 DEF CleanStaleCur, active, handler
  <2>3. CASE PickNone \/ SendFails \/ SendPrompt \/ Wake \/ Unregister
    BY <2>3 DEF PickNone, SendFails, SendPrompt, Wake, Unregister, active, handler
  <2>4. CASE Install
    BY <2>4 DEF Install, active, handler
  <2>. QED  BY <1>1, <2>1, <2>2, <2>3, <2>4 DEF LoopStep
<1>2. ASSUME NEW h \in Handlers, HandlerStep(h) PROVE LoopTypes'
  <2>1. CASE FreeChat(h)
    BY <2>1 DEF FreeChat, HGoTo, loop, active
  <2>2. CASE CheckHit(h) \/ CheckMiss(h) \/ DeletePrompt(h) \/ AppendAnswer(h)
    BY <2>2, ZenonT(60) DEF CheckHit, CheckMiss, DeletePrompt, AppendAnswer, HGoTo, loop
  <2>3. CASE Advance(h) \/ AskNext(h) \/ Record(h)
    BY <2>3, ZenonT(60) DEF Advance, AskNext, Record, HGoTo, loop
  <2>4. CASE AskFails(h) \/ ResolvePrompt(h) \/ WakeLoop(h)
    BY <2>4 DEF AskFails, ResolvePrompt, WakeLoop, HGoTo, loop
  <2>. QED  BY <1>2, <2>1, <2>2, <2>3, <2>4 DEF HandlerStep
<1>3. ASSUME NEW h \in Handlers, NEW p \in Prompts, NEW n \in DOMAIN sent[p],
             UserActs(h, p, n)
      PROVE  LoopTypes'
  BY <1>3 DEF UserActs, HGoTo, loop
<1>4. ASSUME NEW p \in Prompts, Raise(p) \/ CtxEnds(p) \/ AskReturns(p) \/ Drop(p)
      PROVE  LoopTypes'
  BY <1>4 DEF Raise, CtxEnds, AskReturns, Drop, loop, handler
<1>5. CASE Stop
  BY <1>5 DEF Stop, handler
<1>6. CASE UNCHANGED vars
  BY <1>6 DEF vars, loop, handler
<1>. QED  BY <1>1, <1>2, <1>3, <1>4, <1>5, <1>6 DEF Next

(* Only the end of a send makes a chat busy.                                  *)
LEMMA CurChanges ==
  ASSUME LoopTypes, [Next]_vars
  PROVE  Install \/ \A d \in Chats : cur'[d] \in {cur[d], None}
<1> USE ConnectorAssumption DEF LoopTypes
<1>1. CASE LoopStep
  BY <1>1 DEF LoopStep, Pick, CleanStaleCur, PickNone, SendFails, SendPrompt, Wake,
              Unregister
<1>2. ASSUME NEW h \in Handlers, HandlerStep(h)
      PROVE  \A d \in Chats : cur'[d] \in {cur[d], None}
  BY <1>2 DEF HandlerStep, FreeChat, CheckHit, CheckMiss, DeletePrompt, AppendAnswer,
              Advance, AskNext, Record, AskFails, ResolvePrompt, WakeLoop
<1>3. ASSUME NEW h \in Handlers, NEW p \in Prompts, NEW n \in DOMAIN sent[p],
             UserActs(h, p, n)
      PROVE  cur' = cur
  BY <1>3 DEF UserActs
<1>4. ASSUME NEW p \in Prompts, Raise(p) \/ CtxEnds(p) \/ AskReturns(p) \/ Drop(p)
      PROVE  cur' = cur
  BY <1>4 DEF Raise, CtxEnds, AskReturns, Drop
<1>5. CASE Stop \/ UNCHANGED vars
  BY <1>5 DEF Stop, vars
<1>. QED  BY <1>1, <1>2, <1>3, <1>4, <1>5 DEF Next

(* Only the loop moves the loop and its hand.                                 *)
LEMMA OthersLeaveLoop ==
  ASSUME [Next]_vars
  PROVE  LoopStep \/ UNCHANGED <<lpc, hand>>
<1>1. ASSUME NEW h \in Handlers, HandlerStep(h) PROVE UNCHANGED <<lpc, hand>>
  BY <1>1 DEF HandlerStep, FreeChat, CheckHit, CheckMiss, DeletePrompt, AppendAnswer,
              Advance, AskNext, Record, AskFails, ResolvePrompt, WakeLoop, loop
<1>2. ASSUME NEW h \in Handlers, NEW p \in Prompts, NEW n \in DOMAIN sent[p],
             UserActs(h, p, n)
      PROVE  UNCHANGED <<lpc, hand>>
  BY <1>2 DEF UserActs, loop
<1>3. ASSUME NEW p \in Prompts, Raise(p) \/ CtxEnds(p) \/ AskReturns(p) \/ Drop(p)
      PROVE  UNCHANGED <<lpc, hand>>
  BY <1>3 DEF Raise, CtxEnds, AskReturns, Drop, loop
<1>4. CASE Stop \/ UNCHANGED vars
  BY <1>4 DEF Stop, vars, loop
<1>. QED  BY <1>1, <1>2, <1>3, <1>4, SMTT(60) DEF Next

LEMMA OneStep ==
  ASSUME StableLookups, COneInv, [Next]_vars
  PROVE  COneInv' /\ (\A c \in Chats : cur[c] # None => cur'[c] \in {cur[c], None})
<1> USE ConnectorAssumption DEF COneInv
<1>1. LoopTypes'
  BY NextLoopTypes
<1>2. CASE Install
  <2>1. hand \in Prompts /\ cur[ChatOf[hand]] = None
    BY <1>2 DEF Install, LoopTypes, HandIsFree, SendingIsLookedUp
  <2>2. \A c \in Chats : cur[c] # None => cur'[c] = cur[c]
    BY <1>2, <2>1 DEF Install, LoopTypes
  <2>. QED  BY <1>1, <1>2, <2>2 DEF Install, HandIsFree, SendingIsLookedUp
<1>3. CASE ~Install
  <2>1. \A c \in Chats : cur'[c] \in {cur[c], None}
    BY <1>3, CurChanges DEF LoopTypes
  <2>2. CASE UNCHANGED <<lpc, hand>>
    BY <1>1, <2>1, <2>2 DEF HandIsFree, SendingIsLookedUp, LoopTypes
  <2>3. ASSUME NEW p \in Prompts, Pick(p) PROVE HandIsFree' /\ SendingIsLookedUp'
    <3>1. Found(p) => cur[ChatOf[p]] = None
      BY <2>3 DEF Pick, Accept, StableLookups
    <3>. QED  BY <2>3, <3>1 DEF Pick, HandIsFree, SendingIsLookedUp
  <2>4. ASSUME SendPrompt PROVE HandIsFree' /\ SendingIsLookedUp'
    <3>1. hand' = hand /\ cur' = cur /\ Found(hand) /\ lpc = "send"
      BY <2>4 DEF SendPrompt
    <3>2. cur[ChatOf[hand]] = None
      BY <3>1 DEF HandIsFree
    <3>. QED  BY <3>1, <3>2 DEF HandIsFree, SendingIsLookedUp
  <2>5. ASSUME CleanStaleCur \/ PickNone \/ SendFails \/ Wake \/ Unregister
        PROVE  HandIsFree' /\ SendingIsLookedUp'
    <3>1. lpc' \notin {"send", "install"}
      BY <2>5 DEF CleanStaleCur, PickNone, SendFails, Wake, Unregister
    <3>. QED  BY <3>1 DEF HandIsFree, SendingIsLookedUp
  <2>6. HandIsFree' /\ SendingIsLookedUp'
    BY <1>3, OthersLeaveLoop, <2>2, <2>3, <2>4, <2>5 DEF LoopStep
  <2>. QED  BY <1>1, <2>1, <2>6
<1>. QED  BY <1>2, <1>3

(* A busy chat is never given a second prompt, if lookups do not change their *)
(* mind between accept and sendPrompt.                                        *)
THEOREM BusyChatKept ==
  ASSUME StableLookups
  PROVE  Spec => OnePromptPerChat
<1>1. Init => COneInv
  BY InitLoopTypes DEF Init, COneInv, HandIsFree, SendingIsLookedUp
<1>2. COneInv /\ [Next]_vars
        => COneInv' /\ [\A c \in Chats : cur[c] # None => cur'[c] \in {cur[c], None}]_vars
  BY OneStep
<1>. QED  BY <1>1, <1>2, PTL DEF Spec, OnePromptPerChat

-----------------------------------------------------------------------------
(* No lost wakeup *)

LEMMA ServedStep ==
  ASSUME LoopTypes, FreeChatIsServed, [Next]_vars
  PROVE  FreeChatIsServed'
<1> USE ConnectorAssumption DEF LoopTypes, FreeChatIsServed, Waiting
<1>1. CASE LoopStep
  <2>1. CASE PickNone
    BY <2>1 DEF PickNone, broker
  <2>. QED  BY <1>1, <2>1 DEF LoopStep, Pick, CleanStaleCur, SendFails, SendPrompt,
                              Install, Wake, Unregister
<1>2. ASSUME NEW h \in Handlers, HandlerStep(h) PROVE FreeChatIsServed'
  <2>1. CASE FreeChat(h)
    BY <2>1 DEF FreeChat, HGoTo
  <2>2. CASE ResolvePrompt(h)
    BY <2>2 DEF ResolvePrompt, HGoTo
  <2>3. CASE WakeLoop(h)
    BY <2>3 DEF WakeLoop
  <2>4. ASSUME hpc[h] \notin {"resolve", "wakeup"}, UNCHANGED <<lpc, cur, notify, wakeup>>,
               UNCHANGED <<entries, claimed, ctxDone>>,
               \A g \in Handlers \ {h} : hpc'[g] = hpc[g]
        PROVE  FreeChatIsServed'
    BY <2>4
  <2>5. CASE CheckHit(h) \/ CheckMiss(h) \/ DeletePrompt(h) \/ AppendAnswer(h)
    BY <2>4, <2>5, SMTT(60) DEF CheckHit, CheckMiss, DeletePrompt, AppendAnswer, HGoTo, loop, broker
  <2>6. CASE Advance(h) \/ AskNext(h) \/ Record(h) \/ AskFails(h)
    BY <2>4, <2>6 DEF Advance, AskNext, Record, AskFails, HGoTo, loop, broker
  <2>. QED  BY <1>2, <2>1, <2>2, <2>3, <2>5, <2>6 DEF HandlerStep
<1>3. ASSUME NEW h \in Handlers, NEW p \in Prompts, NEW n \in DOMAIN sent[p],
             UserActs(h, p, n)
      PROVE  FreeChatIsServed'
  BY <1>3, ZenonT(60) DEF UserActs, HGoTo, loop, broker
<1>4. ASSUME NEW p \in Prompts, Raise(p) \/ CtxEnds(p) \/ AskReturns(p) \/ Drop(p)
      PROVE  FreeChatIsServed'
  <2>1. CASE Raise(p)
    BY <2>1 DEF Raise, loop
  <2>2. CASE CtxEnds(p) \/ AskReturns(p) \/ Drop(p)
    BY <2>2 DEF CtxEnds, AskReturns, Drop, loop, handler
  <2>. QED  BY <1>4, <2>1, <2>2
<1>5. CASE Stop \/ UNCHANGED vars
  BY <1>5 DEF Stop, vars, broker, loop, handler
<1>. QED  BY <1>1, <1>2, <1>3, <1>4, <1>5 DEF Next

(* The loop is never asleep, unwoken, over a prompt whose chat is free.       *)
THEOREM FreeChatServed == Spec => []FreeChatIsServed
<1>1. Init => LoopTypes /\ FreeChatIsServed
  BY InitLoopTypes DEF Init, FreeChatIsServed
<1>2. LoopTypes /\ FreeChatIsServed /\ [Next]_vars => (LoopTypes /\ FreeChatIsServed)'
  BY NextLoopTypes, ServedStep
<1>. QED  BY <1>1, <1>2, PTL DEF Spec

-----------------------------------------------------------------------------
(* The connector implements PromptLifecycle *)

Working == {"delete", "append", "advance", "ask", "record", "finalize", "resolve", "wakeup"}

(* Only prompts a listener has claimed are shown, worked on or answered, and  *)
(* each holds one reply at most.                                              *)
PromptsClaimed ==
    /\ raised \subseteq Prompts /\ entries \subseteq raised /\ claimed \subseteq raised
    /\ told = [p \in Prompts |-> told[p]]
    /\ \A p \in Prompts : told[p] # << >> => told[p] = <<told[p][1]>> /\ p \in claimed
    /\ lpc \in {"send", "install"} => hand \in claimed
    /\ \A d \in Chats : cur[d] \in claimed \cup {None}
    /\ obj \in [Handlers -> Prompts \cup {None}]
    /\ DOMAIN ev = Handlers
    /\ \A h \in Handlers : hpc[h] # "idle" => ev[h].prompt \in Prompts
    /\ \A h \in Handlers : hpc[h] \in Working => obj[h] \in claimed

LEMMA InitClaimed == Init => PromptsClaimed
  BY DEF Init, PromptsClaimed, Working

(* A reply goes to a prompt that waits for one, and nowhere else.             *)
LEMMA ResolveKeeps ==
  ASSUME PromptsClaimed, NEW p \in claimed, NEW reply, Resolve(p, reply)
  PROVE  /\ raised' \subseteq Prompts /\ entries' \subseteq raised' /\ claimed' = claimed
         /\ claimed' \subseteq raised'
         /\ told' = [q \in Prompts |-> told'[q]]
         /\ \A q \in Prompts : told'[q] # << >> => told'[q] = <<told'[q][1]>> /\ q \in claimed'
  BY SMTT(60) DEF PromptsClaimed, Resolve

LEMMA ClaimedStep ==
  ASSUME LoopTypes, PromptsClaimed, [Next]_vars
  PROVE  PromptsClaimed'
<1> USE ConnectorAssumption DEF LoopTypes, PromptsClaimed, Working
<1>1. CASE LoopStep
  <2>1. ASSUME NEW p \in Prompts, Pick(p) PROVE PromptsClaimed'
    BY <2>1 DEF Pick, Waiting, active, handler
  <2>2. CASE SendFails
    <3>1. hand \in claimed /\ Resolve(hand, Failure)
      BY <2>2 DEF SendFails
    <3>. QED  BY <2>2, <3>1, ResolveKeeps DEF SendFails, active, handler
  <2>3. CASE CleanStaleCur
    BY <2>3 DEF CleanStaleCur, broker, active, handler
  <2>4. CASE PickNone \/ SendPrompt \/ Wake \/ Unregister
    BY <2>4 DEF PickNone, SendPrompt, Wake, Unregister, broker, active, handler
  <2>5. CASE Install
    BY <2>5 DEF Install, broker, active, handler
  <2>. QED  BY <1>1, <2>1, <2>2, <2>3, <2>4, <2>5 DEF LoopStep
<1>2. ASSUME NEW h \in Handlers, HandlerStep(h) PROVE PromptsClaimed'
  <2>1. CASE FreeChat(h)
    BY <2>1 DEF FreeChat, HGoTo, broker, loop, active
  <2>2. CASE CheckHit(h)
    <3>1. PICK p \in Prompts :
            /\ HGoTo(h, "check", "delete") /\ Finds(h, p)
            /\ obj' = [obj EXCEPT ![h] = p]
            /\ UNCHANGED <<broker, loop, cur, ev>>
      BY <2>2 DEF CheckHit
    <3>2. p \in claimed
      BY <3>1 DEF Finds, HGoTo
    <3>. QED  BY <3>1, <3>2 DEF HGoTo, broker, loop
  <2>3. CASE CheckMiss(h) \/ WakeLoop(h) \/ Record(h)
    <3>1. /\ hpc' = [hpc EXCEPT ![h] = "idle"] /\ ev' = [ev EXCEPT ![h] = NoEvent]
          /\ obj' = [obj EXCEPT ![h] = None] /\ UNCHANGED <<broker, loop, cur>>
      BY <2>3 DEF CheckMiss, WakeLoop, Record, Forget, HGoTo
    <3>. QED  BY <3>1 DEF broker, loop
  <2>4. CASE DeletePrompt(h) \/ AppendAnswer(h) \/ Advance(h)
    BY <2>4 DEF DeletePrompt, AppendAnswer, Advance, HGoTo, broker, loop
  <2>5. CASE AskNext(h) \/ AskFails(h)
    BY <2>5 DEF AskNext, AskFails, HGoTo, broker, loop
  <2>6. CASE ResolvePrompt(h)
    <3>1. obj[h] \in claimed /\ Resolve(obj[h], saw[h])
      BY <2>6 DEF ResolvePrompt, HGoTo
    <3>. QED  BY <2>6, <3>1, ResolveKeeps DEF ResolvePrompt, HGoTo, loop
  <2>. QED  BY <1>2, <2>1, <2>2, <2>3, <2>4, <2>5, <2>6 DEF HandlerStep
<1>3. ASSUME NEW h \in Handlers, NEW p \in Prompts, NEW n \in DOMAIN sent[p],
             UserActs(h, p, n)
      PROVE  PromptsClaimed'
  BY <1>3, SMTT(60) DEF UserActs, HGoTo, broker, loop
<1>4. ASSUME NEW p \in Prompts, Raise(p) \/ CtxEnds(p) \/ AskReturns(p) \/ Drop(p)
      PROVE  PromptsClaimed'
  BY <1>4 DEF Raise, CtxEnds, AskReturns, Drop, loop, handler
<1>5. CASE Stop \/ UNCHANGED vars
  BY <1>5 DEF Stop, vars, broker, loop, handler
<1>. QED  BY <1>1, <1>2, <1>3, <1>4, <1>5, SMTT(60) DEF Next

(* The reply a requester holds, as PromptLifecycle counts it.                 *)
Seen(p) == [i \in DOMAIN told[p] |-> "reply"]
Shown == [p \in Prompts |-> StatusOf(p)]

(* Resolve gives a prompt that waits its one reply; otherwise nothing a       *)
(* requester can see changes.                                                 *)
LEMMA ResolveAnswers ==
  ASSUME PromptsClaimed, NEW p \in claimed, NEW reply, Resolve(p, reply)
  PROVE  Lifecycle!PNext \/ (Shown' = Shown /\ [q \in Prompts |-> Seen(q)]' = [q \in Prompts |-> Seen(q)])
<1> USE DEF PromptsClaimed
<1>1. p \in Prompts /\ p \in raised /\ UNCHANGED <<claimed, raised>>
  BY DEF Resolve
<1>2. \A q \in Prompts : q # p => told'[q] = told[q] /\ (q \in entries' <=> q \in entries)
  BY DEF Resolve
<1>3. \A q \in Prompts : q # p => StatusOf(q)' = StatusOf(q)
  BY <1>1, <1>2 DEF StatusOf
<1>4. CASE p \in entries /\ told[p] = << >>
  <2>1. told'[p] = <<reply>>
    BY <1>1, <1>4 DEF Resolve
  <2>2. told'[p] # << >> /\ DOMAIN told'[p] = {1} /\ DOMAIN told[p] = {}
    BY <1>4, <2>1
  <2>3. [i \in DOMAIN told'[p] |-> "reply"] = <<"reply">>
    BY <2>2
  <2>4. StatusOf(p) = "claimed" /\ StatusOf(p)' = "answered"
    BY <1>1, <1>4, <2>2 DEF StatusOf
  <2>5. Shown' = [Shown EXCEPT ![p] = "answered"]
    BY <1>1, <1>3, <2>4 DEF Shown
  <2>6. [q \in Prompts |-> Seen(q)]' = [[q \in Prompts |-> Seen(q)] EXCEPT ![p] = <<"reply">>]
    BY <1>1, <1>2, <2>3 DEF Seen
  <2>7. Lifecycle!Answer(p, "reply")
    BY <1>1, <2>4, <2>5, <2>6 DEF Lifecycle!Answer, Shown, Seen
  <2>. QED  BY <1>1, <2>7 DEF Lifecycle!PNext
<1>5. CASE ~(p \in entries /\ told[p] = << >>)
  <2>1. told'[p] = told[p]
    BY <1>1, <1>5 DEF Resolve
  <2>2. p \in entries' => p \in entries
    BY DEF Resolve
  <2>3. StatusOf(p)' = StatusOf(p)
    BY <1>1, <1>5, <2>1, <2>2 DEF StatusOf
  <2>. QED  BY <1>2, <1>3, <2>1, <2>3 DEF Shown, Seen
<1>. QED  BY <1>4, <1>5

LEMMA ConnectorAbstractStep ==
    LoopTypes /\ PromptsClaimed /\ [Next]_vars => [Lifecycle!PNext]_(Lifecycle!pvars)
<1> SUFFICES ASSUME LoopTypes, PromptsClaimed, [Next]_vars
             PROVE  Lifecycle!PNext \/ (Shown' = Shown /\ [q \in Prompts |-> Seen(q)]' = [q \in Prompts |-> Seen(q)])
  BY DEF Lifecycle!pvars, Shown, Seen
<1> USE DEF PromptsClaimed
<1> DEFINE Goal == Lifecycle!PNext
                   \/ (Shown' = Shown /\ [q \in Prompts |-> Seen(q)]' = [q \in Prompts |-> Seen(q)])
<1>0. ASSUME UNCHANGED <<entries, claimed, told, raised>> PROVE Goal
  BY <1>0 DEF Shown, Seen, StatusOf
<1>1. ASSUME NEW p \in Prompts, Pick(p) PROVE Goal
  <2>1. /\ p \in entries \ claimed /\ claimed' = claimed \cup {p}
        /\ UNCHANGED <<entries, told, raised>>
    BY <1>1 DEF Pick, Waiting
  <2>2. told[p] = << >> /\ p \in raised
    BY <2>1
  <2>3. StatusOf(p) = "open" /\ StatusOf(p)' = "claimed"
    BY <2>1, <2>2 DEF StatusOf
  <2>4. \A q \in Prompts : q # p => StatusOf(q)' = StatusOf(q)
    BY <2>1 DEF StatusOf
  <2>5. Lifecycle!Claim(p)
    BY <2>1, <2>3, <2>4 DEF Lifecycle!Claim
  <2>. QED  BY <2>5 DEF Lifecycle!PNext
<1>2. CASE SendFails
  <2>1. hand \in claimed /\ Resolve(hand, Failure)
    BY <1>2 DEF SendFails
  <2>. QED  BY <2>1, ResolveAnswers
<1>3. CASE CleanStaleCur \/ PickNone \/ SendPrompt \/ Install \/ Wake \/ Unregister \/ Stop
  BY <1>0, <1>3 DEF CleanStaleCur, PickNone, SendPrompt, Install, Wake, Unregister, Stop, broker
<1>4. ASSUME NEW h \in Handlers, HandlerStep(h) PROVE Goal
  <2>1. CASE ResolvePrompt(h)
    <3>1. obj[h] \in claimed /\ Resolve(obj[h], saw[h])
      BY <2>1, SMTT(60) DEF ResolvePrompt, HGoTo, Working
    <3>. QED  BY <3>1, ResolveAnswers
  <2>2. CASE CheckHit(h) \/ CheckMiss(h) \/ DeletePrompt(h) \/ AppendAnswer(h) \/ Advance(h)
             \/ AskNext(h) \/ Record(h) \/ AskFails(h) \/ FreeChat(h) \/ WakeLoop(h)
    BY <1>0, <2>2 DEF CheckHit, CheckMiss, DeletePrompt, AppendAnswer, Advance, AskNext, Record,
       AskFails, FreeChat, WakeLoop, broker
  <2>. QED  BY <1>4, <2>1, <2>2 DEF HandlerStep
<1>5. ASSUME NEW h \in Handlers, NEW p \in Prompts, NEW n \in DOMAIN sent[p],
             UserActs(h, p, n)
      PROVE  Goal
  BY <1>0, <1>5 DEF UserActs, broker
<1>6. ASSUME NEW p \in Prompts, Raise(p) PROVE Goal
  <2>1. /\ p \notin raised /\ raised' = raised \cup {p} /\ entries' = entries \cup {p}
        /\ UNCHANGED <<claimed, told>>
    BY <1>6 DEF Raise
  <2>2. told[p] = << >> /\ p \notin claimed
    BY <2>1
  <2>3. StatusOf(p) = "none" /\ StatusOf(p)' = "open"
    BY <2>1, <2>2 DEF StatusOf
  <2>4. \A q \in Prompts : q # p => StatusOf(q)' = StatusOf(q)
    BY <2>1 DEF StatusOf
  <2>5. Lifecycle!Open(p)
    BY <2>1, <2>3, <2>4 DEF Lifecycle!Open
  <2>. QED  BY <2>5 DEF Lifecycle!PNext
<1>7. ASSUME NEW p \in Prompts, AskReturns(p) \/ Drop(p) PROVE Goal
  <2>1. /\ p \in entries /\ p \in raised /\ entries' = entries \ {p}
        /\ UNCHANGED <<claimed, told, raised>>
    BY <1>7 DEF AskReturns, Drop
  <2>2. \A q \in Prompts : q # p => StatusOf(q)' = StatusOf(q)
    BY <2>1 DEF StatusOf
  <2>3. CASE told[p] = << >>
    <3>1. StatusOf(p) \in {"open", "claimed"} /\ StatusOf(p)' = "withdrawn"
      BY <2>1, <2>3 DEF StatusOf
    <3>2. Lifecycle!Withdraw({p})
      BY <2>1, <2>2, <3>1 DEF Lifecycle!Withdraw
    <3>. QED  BY <3>2 DEF Lifecycle!PNext
  <2>4. CASE told[p] # << >>
    <3>1. StatusOf(p)' = StatusOf(p)
      BY <2>1, <2>4 DEF StatusOf
    <3>. QED  BY <2>1, <2>2, <3>1 DEF Shown, Seen
  <2>. QED  BY <2>3, <2>4
<1>8. CASE \E p \in Prompts : CtxEnds(p)
  BY <1>0, <1>8 DEF CtxEnds
<1>9. CASE UNCHANGED vars
  BY <1>0, <1>9 DEF vars, broker
<1>. QED
  BY <1>1, <1>2, <1>3, <1>4, <1>5, <1>6, <1>7, <1>8, <1>9 DEF Next, LoopStep

(* Whatever users do, and however lookups fail, the requesters of a connector *)
(* see nothing of it and its broker that PromptLifecycle does not allow.      *)
THEOREM ConnectorImplementsLifecycle == Spec => ImplementsLifecycle
<1>1. Init => Lifecycle!PInit
  BY DEF Init, Lifecycle!PInit, StatusOf
<1>. QED
  BY InitLoopTypes, InitClaimed, NextLoopTypes, ClaimedStep, ConnectorAbstractStep, <1>1, PTL
  DEF Spec, ImplementsLifecycle, Lifecycle!PSpec

-----------------------------------------------------------------------------
(* Answers are recorded in the order of the questions *)

(* The answers to the first k questions of p. *)
Upto(p, k) == [i \in 1..k |-> <<p, i>>]

Works(h, p) == hpc[h] \in Working /\ obj[h] = p

RecordTypes ==
    /\ sel \in [Prompts -> Nat] /\ msg \in [Prompts -> Nat] /\ asked \in [Prompts -> Nat]
    /\ sent \in [Prompts -> Seq(Nat)]
    /\ DOMAIN ans = Prompts /\ DOMAIN saw = Handlers
    /\ ev \in [Handlers -> [prompt : Prompts \cup {None}, q : Nat, n : Nat]]
    /\ \A d \in Chats : cur[d] # None => ChatOf[cur[d]] = d

(* A user who waits keeps every record to one handler, which works on the     *)
(* prompt its user acted on.                                                  *)
OneHandler ==
    /\ \A g, h \in Handlers :
         hpc[g] # "idle" /\ hpc[h] # "idle" /\ ev[g].prompt = ev[h].prompt => g = h
    /\ \A h \in Handlers : hpc[h] \in Working => obj[h] = ev[h].prompt

(* The last message sent for p asks the question that is due. *)
Asks(p) == Len(sent[p]) > 0 /\ sent[p][Len(sent[p])] = sel[p] + 1

(* The questions before the one that is due are answered, and one is due. *)
Expects(p) == ans[p] = Upto(p, sel[p]) /\ sel[p] < NumQ[p]

Ready(p) == Expects(p) /\ Asks(p) /\ msg[p] = Len(sent[p])

(* A chat's prompt that no handler works on waits for its user. *)
ShownIsReady ==
    \A p \in Prompts : cur[ChatOf[p]] = p /\ (\A h \in Handlers : ~Works(h, p)) => Ready(p)

(* An event is about a message that was sent, a text about the last one. *)
EventsAreSent ==
    \A h \in Handlers : hpc[h] = "check" =>
        /\ ev[h].n # 0 => /\ ev[h].n \in 1..Len(sent[ev[h].prompt])
                          /\ ev[h].q = sent[ev[h].prompt][ev[h].n]
        /\ ev[h].n = 0 => /\ Len(sent[ev[h].prompt]) > 0
                          /\ ev[h].q = sent[ev[h].prompt][Len(sent[ev[h].prompt])]
                          /\ <<ev[h].prompt, ev[h].q>> \in Typed

(* Nothing has been done with the record of p. *)
Fresh(p) ==
    /\ sel[p] = 0 /\ ans[p] = << >> /\ cur[ChatOf[p]] # p
    /\ \A h \in Handlers : ~Works(h, p)

FreshBefore ==
    /\ \A p \in Prompts \ claimed : Fresh(p) /\ sent[p] = << >>
    /\ lpc = "send" => Fresh(hand) /\ sent[hand] = << >>
    /\ lpc = "install" => Fresh(hand) /\ sent[hand] = <<1>>

(* What a handler knows of its prompt at each of its steps. *)
Stage(h) ==
    /\ hpc[h] \in {"delete", "append", "ask", "record"} => Expects(obj[h])
    /\ hpc[h] \in {"delete", "append"} => ev[h].q = sel[obj[h]] + 1
    /\ hpc[h] = "append" => saw[h] = ans[obj[h]]
    /\ hpc[h] = "advance" => /\ ans[obj[h]] = Upto(obj[h], sel[obj[h]] + 1)
                             /\ sel[obj[h]] < NumQ[obj[h]]
    /\ hpc[h] = "record" => /\ Asks(obj[h])
                            /\ saw[h] = <<Len(sent[obj[h]]), sel[obj[h]] + 1>>
    /\ hpc[h] \in {"finalize", "resolve", "wakeup"} =>
           saw[h] \in {Failure, Upto(obj[h], NumQ[obj[h]])}
    /\ hpc[h] \in {"resolve", "wakeup"} => cur[ChatOf[obj[h]]] # obj[h]

Staged == \A h \in Handlers : Stage(h)

OrderInv ==
    /\ RecordTypes /\ OneHandler /\ ShownIsReady /\ EventsAreSent /\ FreshBefore /\ Staged
    /\ AnswersInOrder

LEMMA UptoNone == ASSUME NEW p PROVE Upto(p, 0) = << >>
  BY DEF Upto

LEMMA UptoOne == ASSUME NEW p PROVE Upto(p, 1) = <<<<p, 1>>>>
  BY DEF Upto

LEMMA UptoMore ==
  ASSUME NEW p, NEW k \in Nat
  PROVE  Append(Upto(p, k), <<p, k + 1>>) = Upto(p, k + 1)
<1>1. Upto(p, k) \in Seq({p} \X Nat) /\ Len(Upto(p, k)) = k
  BY DEF Upto
<1>. QED  BY <1>1 DEF Upto

LEMMA InitOrder == Init => OrderInv
<1> SUFFICES ASSUME Init PROVE OrderInv
  OBVIOUS
<1> USE ConnectorAssumption DEF Init
<1>1. RecordTypes
  BY DEF RecordTypes, NoEvent
<1>2. OneHandler /\ EventsAreSent /\ Staged /\ AnswersInOrder
  BY DEF OneHandler, EventsAreSent, Staged, Stage, AnswersInOrder, Working
<1>3. ShownIsReady /\ FreshBefore
  BY DEF ShownIsReady, FreshBefore, Fresh, Works, Working
<1>. QED  BY <1>1, <1>2, <1>3 DEF OrderInv

(* A step that leaves the records and the handlers alone, makes no chat busy  *)
(* and puts no prompt in the loop's hand.                                     *)
LEMMA QuietStep ==
  ASSUME LoopTypes, PromptsClaimed, OrderInv, UNCHANGED <<told, active, handler>>, claimed \subseteq claimed',
         DOMAIN cur' = Chats, \A d \in Chats : cur'[d] \in {cur[d], None},
         lpc' \in {"send", "install"} => UNCHANGED <<lpc, hand>>
  PROVE  OrderInv'
<1>0. /\ RecordTypes /\ OneHandler /\ ShownIsReady /\ EventsAreSent /\ FreshBefore /\ Staged
      /\ AnswersInOrder /\ ChatOf \in [Prompts -> Chats] /\ None \notin Prompts
  BY ConnectorAssumption DEF OrderInv
<1>1. RecordTypes'
  BY <1>0 DEF RecordTypes, LoopTypes, active, handler
<1>2. OneHandler' /\ EventsAreSent' /\ AnswersInOrder'
  BY <1>0 DEF OneHandler, EventsAreSent, AnswersInOrder, active, handler
<1>3. ShownIsReady'
  BY <1>0 DEF ShownIsReady, Ready, Expects, Asks, Works, LoopTypes, active, handler
<1>4. FreshBefore'
  BY <1>0 DEF FreshBefore, Fresh, Works, LoopTypes, active, handler
<1>5. \A h \in Handlers : Stage(h)'
  <2> SUFFICES ASSUME NEW h \in Handlers PROVE Stage(h)'
    OBVIOUS
  <2>1. hpc[h] \in {"resolve", "wakeup"} => cur'[ChatOf[obj[h]]] # obj[h]
    <3> SUFFICES ASSUME hpc[h] \in {"resolve", "wakeup"} PROVE cur'[ChatOf[obj[h]]] # obj[h]
      OBVIOUS
    <3>1. obj[h] \in Prompts /\ cur[ChatOf[obj[h]]] # obj[h]
      BY <1>0 DEF PromptsClaimed, Working, Staged, Stage
    <3>. QED  BY <1>0, <3>1
  <2>. QED  BY <1>0, <2>1 DEF Staged, Stage, Expects, Asks, active, handler
<1>. QED  BY <1>1, <1>2, <1>3, <1>4, <1>5 DEF OrderInv, Staged

LEMMA PickOrder ==
  ASSUME LoopTypes, PromptsClaimed, OrderInv, NEW p \in Prompts, Pick(p)
  PROVE  OrderInv'
<1>0. /\ p \in entries \ claimed /\ claimed' = claimed \cup {p} /\ hand' = p /\ lpc' = "send"
      /\ UNCHANGED <<told, cur, active, handler>>
  BY SMTT(60) DEF Pick, Waiting
<1>1. RecordTypes' /\ OneHandler' /\ ShownIsReady' /\ EventsAreSent' /\ Staged' /\ AnswersInOrder'
  BY <1>0, SMTT(60) DEF OrderInv, RecordTypes, OneHandler, ShownIsReady, Ready, Expects, Asks, Works,
     EventsAreSent, Staged, Stage, AnswersInOrder, active, handler
<1>2. \A q \in Prompts : /\ Fresh(q) => Fresh(q)'
                         /\ sent'[q] = sent[q]
  BY <1>0 DEF Fresh, Works, active, handler
<1>3. FreshBefore'
  BY <1>0, <1>2 DEF OrderInv, FreshBefore
<1>. QED  BY <1>1, <1>3 DEF OrderInv

LEMMA SendFailsOrder ==
  ASSUME LoopTypes, PromptsClaimed, OrderInv, SendFails
  PROVE  OrderInv'
<1>0. /\ lpc' = "pick" /\ UNCHANGED <<claimed, cur, active, handler>>
      /\ told' = [told EXCEPT ![hand] = IF hand \in entries /\ @ = << >> THEN <<Failure>> ELSE @]
  BY DEF SendFails, Resolve
<1>1. RecordTypes' /\ OneHandler' /\ ShownIsReady' /\ EventsAreSent' /\ Staged'
  BY <1>0 DEF OrderInv, RecordTypes, OneHandler, ShownIsReady, Ready, Expects, Asks, Works,
     EventsAreSent, Staged, Stage, active, handler
<1>2. \A q \in Prompts : told'[q] \in {told[q], <<Failure>>}
  BY <1>0 DEF PromptsClaimed
<1>3. AnswersInOrder'
  BY <1>2 DEF OrderInv, AnswersInOrder
<1>4. \A q \in Prompts : /\ Fresh(q) => Fresh(q)'
                         /\ sent'[q] = sent[q]
  BY <1>0 DEF Fresh, Works, active, handler
<1>5. FreshBefore'
  BY <1>0, <1>4 DEF OrderInv, FreshBefore
<1>. QED  BY <1>1, <1>3, <1>5 DEF OrderInv

(* The first message: no handler can know of the prompt yet. *)
LEMMA SendPromptOrder ==
  ASSUME LoopTypes, PromptsClaimed, OrderInv, SendPrompt
  PROVE  OrderInv'
<1>0. /\ lpc = "send" /\ lpc' = "install" /\ hand' = hand
      /\ UNCHANGED <<claimed, told, cur, sel, ans, msg, asked, handler>>
      /\ sent' = [sent EXCEPT ![hand] = <<1>>]
  BY DEF SendPrompt, broker
<1>1. hand \in Prompts /\ hand \in claimed /\ Fresh(hand) /\ sent[hand] = << >>
  BY <1>0 DEF LoopTypes, PromptsClaimed, OrderInv, FreshBefore
<1>2. /\ sent' \in [Prompts -> Seq(Nat)] /\ sent'[hand] = <<1>>
      /\ \A q \in Prompts : q # hand => sent'[q] = sent[q]
  <2>1. <<1>> \in Seq(Nat)
    OBVIOUS
  <2>. QED  BY <1>0, <1>1, <2>1 DEF OrderInv, RecordTypes
<1>3. RecordTypes' /\ OneHandler' /\ AnswersInOrder'
  BY <1>0, <1>2, ZenonT(60) DEF OrderInv, RecordTypes, OneHandler, AnswersInOrder, handler
<1>4. \A q \in Prompts : Fresh(q)' = Fresh(q)
  BY <1>0 DEF Fresh, Works, handler
<1>5. FreshBefore'
  BY <1>0, <1>1, <1>2, <1>4 DEF OrderInv, FreshBefore
<1>6. ShownIsReady'
  BY <1>0, <1>1, <1>2 DEF OrderInv, ShownIsReady, Ready, Expects, Asks, Works, Fresh, handler
<1>7. \A h \in Handlers : hpc[h] = "check" => ev[h].prompt # hand
  <2>1. Len(sent[hand]) = 0
    BY <1>1
  <2>2. ASSUME NEW h \in Handlers, hpc[h] = "check"
        PROVE  Len(sent[ev[h].prompt]) # 0
    <3>1. ev[h].n # 0 => 1..Len(sent[ev[h].prompt]) # {}
      BY <2>2 DEF OrderInv, EventsAreSent
    <3>2. ev[h].n = 0 => Len(sent[ev[h].prompt]) > 0
      BY <2>2 DEF OrderInv, EventsAreSent
    <3>. QED  BY <3>1, <3>2
  <2>. QED  BY <2>1, <2>2
<1>8. EventsAreSent'
  BY <1>0, <1>2, <1>7 DEF OrderInv, EventsAreSent, PromptsClaimed, handler
<1>9. \A h \in Handlers : hpc[h] \in Working => obj[h] # hand /\ obj[h] \in Prompts
  BY <1>1 DEF Fresh, Works, PromptsClaimed
<1>10. Staged'
  <2> SUFFICES ASSUME NEW h \in Handlers PROVE Stage(h)'
    BY DEF Staged
  <2>1. hpc[h] \in Working => sent'[obj[h]] = sent[obj[h]]
    BY <1>2, <1>9
  <2>. QED  BY <1>0, <2>1 DEF OrderInv, Staged, Stage, Expects, Asks, Working, handler
<1>. QED  BY <1>3, <1>5, <1>6, <1>8, <1>10 DEF OrderInv

(* The chat becomes busy with a prompt whose first question was just sent.    *)
LEMMA InstallOrder ==
  ASSUME LoopTypes, PromptsClaimed, OrderInv, Install
  PROVE  OrderInv'
<1>0. PICK p \in Prompts :
        /\ p = hand /\ lpc = "install" /\ lpc' = "pick"
        /\ cur' = [cur EXCEPT ![ChatOf[p]] = p]
        /\ msg' = [msg EXCEPT ![p] = 1] /\ asked' = [asked EXCEPT ![p] = 1]
        /\ UNCHANGED <<claimed, told, sel, ans, sent, handler>>
  BY DEF Install, broker, LoopTypes
<1>1. /\ p \in claimed /\ Fresh(p) /\ sent[p] = <<1>>
      /\ ChatOf[p] \in Chats /\ NumQ[p] \in Nat \ {0}
  BY <1>0, ConnectorAssumption DEF LoopTypes, PromptsClaimed, OrderInv, FreshBefore
<1>2. RecordTypes'
  BY <1>0, <1>1 DEF OrderInv, RecordTypes, LoopTypes, handler
<1>3. OneHandler' /\ EventsAreSent' /\ AnswersInOrder'
  BY <1>0 DEF OrderInv, OneHandler, EventsAreSent, AnswersInOrder, handler
<1>4. \A q \in Prompts : q # p => /\ cur[ChatOf[q]] # q => cur'[ChatOf[q]] # q
                                  /\ cur'[ChatOf[q]] = q => cur[ChatOf[q]] = q
                                  /\ msg'[q] = msg[q]
  BY <1>0, <1>1, ConnectorAssumption DEF OrderInv, RecordTypes, LoopTypes
<1>5. Ready(p)'
  <2>1. ans'[p] = Upto(p, 0) /\ sel'[p] = 0 /\ msg'[p] = 1 /\ sent'[p] = <<1>>
    BY <1>0, <1>1, UptoNone DEF Fresh, OrderInv, RecordTypes
  <2>2. Len(<<1>>) = 1 /\ <<1>>[1] = 1
    OBVIOUS
  <2>3. Expects(p)'
    BY <1>1, <2>1 DEF Expects
  <2>. QED  BY <2>1, <2>2, <2>3 DEF Ready, Asks
<1>6. ShownIsReady'
  <2> SUFFICES ASSUME NEW q \in Prompts, q # p, cur'[ChatOf[q]] = q,
                      \A h \in Handlers : ~Works(h, q)'
               PROVE  Ready(q)'
    BY <1>5 DEF ShownIsReady
  <2>1. Ready(q)
    BY <1>0, <1>4 DEF OrderInv, ShownIsReady, Works, handler
  <2>. QED  BY <1>0, <1>4, <2>1 DEF Ready, Expects, Asks
<1>7. FreshBefore'
  BY <1>0, <1>1, <1>4 DEF OrderInv, FreshBefore, Fresh, Works, handler
<1>8. Staged'
  <2> SUFFICES ASSUME NEW h \in Handlers PROVE Stage(h)'
    BY DEF Staged
  <2>1. hpc[h] \in {"resolve", "wakeup"} => cur'[ChatOf[obj[h]]] # obj[h]
    BY <1>1, <1>4 DEF Fresh, Works, Working, PromptsClaimed, OrderInv, Staged, Stage
  <2>. QED  BY <1>0, <2>1 DEF OrderInv, Staged, Stage, Expects, Asks, handler
<1>. QED  BY <1>2, <1>3, <1>6, <1>7, <1>8 DEF OrderInv

(* An event is taken up by a handler that was idle, and no other handler is   *)
(* on the same prompt.                                                        *)
LEMMA UserActsOrder ==
  ASSUME LoopTypes, PromptsClaimed, OrderInv, ~DoubleTaps,
         NEW h \in Handlers, NEW p \in Prompts, NEW n \in DOMAIN sent[p], UserActs(h, p, n)
  PROVE  OrderInv'
<1>0. /\ hpc[h] = "idle" /\ hpc' = [hpc EXCEPT ![h] = "check"]
      /\ <<p, sent[p][n]>> \in Typed => n = Len(sent[p])
      /\ \A g \in Handlers : hpc[g] = "idle" \/ ev[g].prompt # p
      /\ ev' = [ev EXCEPT ![h] = [prompt |-> p, q |-> sent[p][n],
                                  n |-> IF <<p, sent[p][n]>> \in Typed THEN 0 ELSE n]]
      /\ UNCHANGED <<claimed, told, lpc, hand, cur, active, obj, saw>>
  BY DEF UserActs, HGoTo, broker, loop
<1>1. /\ n \in 1..Len(sent[p]) /\ sent[p][n] \in Nat /\ Len(sent[p]) \in Nat
      /\ hpc \in [Handlers -> HandlerStates] /\ DOMAIN ev = Handlers
  <2>1. sent[p] \in Seq(Nat)
    BY DEF OrderInv, RecordTypes
  <2>2. n \in 1..Len(sent[p]) /\ sent[p][n] \in Nat /\ Len(sent[p]) \in Nat
    BY <2>1
  <2>. QED  BY <2>2 DEF OrderInv, RecordTypes, LoopTypes
<1>2. \A g \in Handlers : g # h => hpc'[g] = hpc[g] /\ ev'[g] = ev[g]
  BY <1>0, <1>1
<1>3. /\ hpc'[h] = "check" /\ ev'[h].prompt = p /\ ev'[h].q = sent[p][n]
      /\ ev'[h].n = IF <<p, sent[p][n]>> \in Typed THEN 0 ELSE n
  BY <1>0, <1>1
<1>4. RecordTypes'
  <2> DEFINE e == [prompt |-> p, q |-> sent[p][n], n |-> IF <<p, sent[p][n]>> \in Typed THEN 0 ELSE n]
  <2>1. e \in [prompt : Prompts \cup {None}, q : Nat, n : Nat]
    BY <1>1
  <2>2. ev' = [ev EXCEPT ![h] = e]
    BY <1>0
  <2> HIDE DEF e
  <2>3. ev' \in [Handlers -> [prompt : Prompts \cup {None}, q : Nat, n : Nat]]
    BY <2>1, <2>2 DEF OrderInv, RecordTypes
  <2>. QED  BY <1>0, <2>3 DEF OrderInv, RecordTypes, active
<1>5. \A g \in Handlers : hpc'[g] \in Working <=> hpc[g] \in Working
  BY <1>0, <1>2, <1>3 DEF Working
<1>6. OneHandler'
  <2>1. OneHandler /\ obj' = obj
    BY <1>0 DEF OrderInv
  <2>2. \A f, g \in Handlers : hpc'[f] # "idle" /\ hpc'[g] # "idle" /\ ev'[f].prompt = ev'[g].prompt
                              => f = g
    BY <1>0, <1>2, <1>3, <2>1 DEF OneHandler
  <2>3. \A g \in Handlers : hpc'[g] \in Working => obj'[g] = ev'[g].prompt
    BY <1>2, <1>3, <2>1 DEF OneHandler, Working
  <2>. QED  BY <2>2, <2>3 DEF OneHandler
<1>7. EventsAreSent'
  <2>1. CASE <<p, sent[p][n]>> \in Typed
    BY <1>0, <1>1, <1>2, <1>3, <2>1, SMTT(60) DEF OrderInv, EventsAreSent, active
  <2>2. CASE <<p, sent[p][n]>> \notin Typed
    BY <1>0, <1>1, <1>2, <1>3, <2>2, SMTT(60) DEF OrderInv, EventsAreSent, active
  <2>. QED  BY <2>1, <2>2, SMTT(60)
<1>8. \A q \in Prompts, g \in Handlers : Works(g, q)' <=> Works(g, q)
  BY <1>0, <1>5 DEF Works
<1>9. ShownIsReady' /\ FreshBefore'
  <2>1. \A q \in Prompts : Fresh(q) => Fresh(q)'
    BY <1>0, <1>8 DEF Fresh, active
  <2>2. FreshBefore'
    BY <1>0, <2>1 DEF OrderInv, FreshBefore, LoopTypes, active
  <2>3. ShownIsReady'
    BY <1>0, <1>8, SMTT(60) DEF OrderInv, ShownIsReady, Ready, Expects, Asks, active
  <2>. QED  BY <2>2, <2>3
<1>10. Staged'
  BY <1>0, <1>2, <1>3 DEF OrderInv, Staged, Stage, Expects, Asks, active
<1>11. AnswersInOrder'
  BY <1>0 DEF OrderInv, AnswersInOrder
<1>. QED  BY <1>4, <1>6, <1>7, <1>9, <1>10, <1>11 DEF OrderInv

(* The prompt an event is taken for is the one its user acted on, and nobody  *)
(* else is at work on it.                                                     *)
LEMMA CheckHitOrder ==
  ASSUME LoopTypes, PromptsClaimed, OrderInv, TextsAreForOne, NEW h \in Handlers, CheckHit(h)
  PROVE  OrderInv'
<1>0. PICK p \in Prompts :
        /\ hpc[h] = "check" /\ hpc' = [hpc EXCEPT ![h] = "delete"] /\ Finds(h, p)
        /\ obj' = [obj EXCEPT ![h] = p]
        /\ UNCHANGED <<claimed, told, lpc, hand, cur, active, ev, saw>>
  BY DEF CheckHit, HGoTo, broker, loop
<1>1. ev[h].prompt \in Prompts /\ ChatOf \in [Prompts -> Chats] /\ None \notin Prompts
  BY <1>0, ConnectorAssumption DEF PromptsClaimed
<1>2. cur[ChatOf[ev[h].prompt]] = p /\ ChatOf[ev[h].prompt] = ChatOf[p]
  BY <1>0, <1>1 DEF Finds, OrderInv, RecordTypes
<1>3. ev[h].prompt = p
  <2>1. CASE ev[h].n # 0
    BY <1>0, <2>1 DEF Finds
  <2>2. CASE ev[h].n = 0
    <3>1. <<p, asked[p]>> \in Typed /\ <<ev[h].prompt, ev[h].q>> \in Typed
      BY <1>0, <2>2 DEF Finds, OrderInv, EventsAreSent
    <3>2. <<p, asked[p]>>[1] = p /\ <<ev[h].prompt, ev[h].q>>[1] = ev[h].prompt
      OBVIOUS
    <3>. QED  BY <1>2, <3>1, <3>2 DEF TextsAreForOne
  <2>. QED  BY <2>1, <2>2
<1>4. \A g \in Handlers : ~Works(g, p)
  BY <1>0, <1>3 DEF OrderInv, OneHandler, Works, Working
<1>5. Ready(p) /\ p \in claimed
  BY <1>1, <1>2, <1>3, <1>4 DEF OrderInv, ShownIsReady, PromptsClaimed
<1>6. ev[h].q = sel[p] + 1
  BY <1>0, <1>3, <1>5 DEF OrderInv, EventsAreSent, Finds, Ready, Asks
<1>7. /\ hpc'[h] = "delete" /\ obj'[h] = p
      /\ \A g \in Handlers : g # h => hpc'[g] = hpc[g] /\ obj'[g] = obj[g]
  BY <1>0 DEF LoopTypes, PromptsClaimed
<1>8. RecordTypes' /\ EventsAreSent' /\ AnswersInOrder'
  BY <1>0, <1>7, SMTT(60) DEF OrderInv, RecordTypes, EventsAreSent, AnswersInOrder, active
<1>9. OneHandler'
  BY <1>0, <1>3, <1>7 DEF OrderInv, OneHandler
<1>10. \A q \in Prompts : q # p => \A g \in Handlers : Works(g, q)' <=> Works(g, q)
  BY <1>0, <1>7 DEF Works, Working
<1>11. Works(h, p)'
  BY <1>7 DEF Works, Working
<1>12. ShownIsReady'
  BY <1>0, <1>10, <1>11 DEF OrderInv, ShownIsReady, Ready, Expects, Asks, active
<1>13. \A q \in Prompts : q # p /\ Fresh(q) => Fresh(q)'
  BY <1>0, <1>10 DEF Fresh, active
<1>14. ~Fresh(p)
  BY <1>2, <1>3 DEF Fresh
<1>15. FreshBefore'
  BY <1>0, <1>5, <1>13, <1>14 DEF OrderInv, FreshBefore, PromptsClaimed, LoopTypes, active
<1>16. Stage(h)'
  BY <1>0, <1>5, <1>6, <1>7 DEF Stage, Ready, Expects, active
<1>17. \A g \in Handlers : g # h => Stage(g)'
  BY <1>0, <1>7 DEF OrderInv, Staged, Stage, Expects, Asks, active
<1>18. Staged'
  BY <1>16, <1>17 DEF Staged
<1>. QED  BY <1>8, <1>9, <1>12, <1>15, <1>18 DEF OrderInv

LEMMA CheckMissOrder ==
  ASSUME LoopTypes, PromptsClaimed, OrderInv, NEW h \in Handlers, CheckMiss(h)
  PROVE  OrderInv'
<1>0. /\ hpc[h] = "check" /\ hpc' = [hpc EXCEPT ![h] = "idle"]
      /\ ev' = [ev EXCEPT ![h] = NoEvent] /\ obj' = [obj EXCEPT ![h] = None]
      /\ saw' = [saw EXCEPT ![h] = << >>]
      /\ UNCHANGED <<claimed, told, lpc, hand, cur, active>>
  BY DEF CheckMiss, HGoTo, Forget, broker, loop
<1>1. /\ hpc'[h] = "idle"
      /\ \A g \in Handlers : g # h => /\ hpc'[g] = hpc[g] /\ obj'[g] = obj[g]
                                      /\ ev'[g] = ev[g] /\ saw'[g] = saw[g]
  BY <1>0, SMTT(60) DEF LoopTypes, PromptsClaimed, OrderInv, RecordTypes
<1>2. RecordTypes' /\ EventsAreSent' /\ AnswersInOrder' /\ OneHandler'
  BY <1>0, <1>1, SMTT(60) DEF OrderInv, RecordTypes, EventsAreSent, AnswersInOrder, OneHandler, Working,
     NoEvent, active
<1>3. \A q \in Prompts, g \in Handlers : Works(g, q)' <=> Works(g, q)
  BY <1>0, <1>1 DEF Works, Working
<1>4. ShownIsReady' /\ FreshBefore'
  BY <1>0, <1>3 DEF OrderInv, ShownIsReady, FreshBefore, Fresh, Ready, Expects, Asks,
     PromptsClaimed, active
<1>5. Staged'
  BY <1>0, <1>1 DEF OrderInv, Staged, Stage, Expects, Asks, active
<1>. QED  BY <1>2, <1>4, <1>5 DEF OrderInv

(* A handler at work changes the record of its own prompt only; what it       *)
(* leaves there is what its next step, or the user's next answer, relies on.  *)
LEMMA WorkStep ==
  ASSUME LoopTypes, PromptsClaimed, OrderInv, RecordTypes', LoopTypes',
         NEW h \in Handlers, NEW p \in Prompts, Works(h, p),
         UNCHANGED <<claimed, lpc, hand>>,
         \A d \in Chats : cur'[d] \in {cur[d], None},
         \A q \in Prompts : q # p => UNCHANGED <<sel[q], ans[q], msg[q], sent[q], told[q]>>,
         \A g \in Handlers : g # h => UNCHANGED <<hpc[g], ev[g], obj[g], saw[g]>>,
         \/ hpc'[h] \in Working /\ obj'[h] = p /\ ev'[h] = ev[h]
         \/ hpc'[h] = "idle" /\ (cur'[ChatOf[p]] = p => Ready(p)'),
         Stage(h)',
         told'[p] \in {<< >>, <<Failure>>, <<Upto(p, NumQ[p])>>}
  PROVE  OrderInv'
<1>0. /\ OneHandler /\ ShownIsReady /\ EventsAreSent /\ FreshBefore /\ Staged /\ AnswersInOrder
      /\ ChatOf \in [Prompts -> Chats] /\ None \notin Prompts
  BY ConnectorAssumption DEF OrderInv
<1>1. ev[h].prompt = p /\ hpc[h] # "idle"
  BY <1>0 DEF OneHandler, Works, Working
<1>2. \A g \in Handlers : g # h => ~Works(g, p)
  BY <1>0, <1>1 DEF OneHandler, Works, Working
<1>3. OneHandler'
  BY <1>0, SMTT(60) DEF OneHandler, Works, Working
<1>4. AnswersInOrder'
  BY <1>0, SMTT(60) DEF AnswersInOrder, Upto
<1>5. EventsAreSent'
  <2> SUFFICES ASSUME NEW g \in Handlers, hpc'[g] = "check"
               PROVE  /\ ev'[g].n # 0 => /\ ev'[g].n \in 1..Len(sent'[ev'[g].prompt])
                                         /\ ev'[g].q = sent'[ev'[g].prompt][ev'[g].n]
                      /\ ev'[g].n = 0 => /\ Len(sent'[ev'[g].prompt]) > 0
                                         /\ ev'[g].q = sent'[ev'[g].prompt][Len(sent'[ev'[g].prompt])]
                                         /\ <<ev'[g].prompt, ev'[g].q>> \in Typed
    BY DEF EventsAreSent
  <2>1. g # h /\ hpc[g] = "check" /\ ev'[g] = ev[g]
    BY DEF Working
  <2>2. ev[g].prompt \in Prompts /\ ev[g].prompt # p
    BY <1>0, <1>1, <2>1 DEF OneHandler, PromptsClaimed
  <2>3. sent'[ev[g].prompt] = sent[ev[g].prompt]
    BY <2>2, SMTT(60)
  <2>4. /\ ev[g].n # 0 => /\ ev[g].n \in 1..Len(sent[ev[g].prompt])
                          /\ ev[g].q = sent[ev[g].prompt][ev[g].n]
        /\ ev[g].n = 0 => /\ Len(sent[ev[g].prompt]) > 0
                          /\ ev[g].q = sent[ev[g].prompt][Len(sent[ev[g].prompt])]
                          /\ <<ev[g].prompt, ev[g].q>> \in Typed
    BY <1>0, <2>1 DEF EventsAreSent
  <2>. QED  BY <2>1, <2>3, <2>4, SMTT(60)
<1>6. \A q \in Prompts : q # p => \A g \in Handlers : Works(g, q)' <=> Works(g, q)
  BY DEF Works, Working
<1>7. ShownIsReady'
  <2> SUFFICES ASSUME NEW q \in Prompts, cur'[ChatOf[q]] = q, \A g \in Handlers : ~Works(g, q)'
               PROVE  Ready(q)'
    BY DEF ShownIsReady
  <2>1. CASE q = p
    BY <2>1 DEF Works
  <2>2. CASE q # p
    <3>1. cur[ChatOf[q]] = q
      BY <1>0
    <3>2. Ready(q)
      BY <1>0, <1>6, <2>2, <3>1 DEF ShownIsReady
    <3>. QED  BY <2>2, <3>2 DEF Ready, Expects, Asks
  <2>. QED  BY <2>1, <2>2
<1>8. FreshBefore'
  <2>1. ~Fresh(p) /\ p \in claimed
    BY DEF Fresh, Works, PromptsClaimed
  <2>2. \A q \in Prompts : q # p /\ Fresh(q) => Fresh(q)'
    BY <1>0, <1>6 DEF Fresh
  <2>. QED  BY <1>0, <2>1, <2>2 DEF FreshBefore, LoopTypes
<1>9. Staged'
  <2> SUFFICES ASSUME NEW g \in Handlers, g # h PROVE Stage(g)'
    BY DEF Staged
  <2>1. hpc[g] \in Working => obj[g] \in Prompts /\ obj[g] # p
    BY <1>2 DEF Works, PromptsClaimed
  <2>2. /\ UNCHANGED <<hpc[g], ev[g], obj[g], saw[g]>>
        /\ hpc[g] \in Working => /\ UNCHANGED <<sel[obj[g]], ans[obj[g]], sent[obj[g]]>>
                                 /\ cur[ChatOf[obj[g]]] # obj[g] => cur'[ChatOf[obj[g]]] # obj[g]
    BY <1>0, <2>1
  <2>3. Stage(g)
    BY <1>0, SMTT(60) DEF Staged
  <2>4. CASE hpc[g] \in Working
    <3>1. UNCHANGED <<hpc[g], ev[g], obj[g], saw[g], sel[obj[g]], ans[obj[g]], sent[obj[g]]>>
      BY <2>2, <2>4
    <3>. QED  BY <2>2, <2>3, <2>4, <3>1 DEF Stage, Expects, Asks
  <2>5. CASE hpc[g] \notin Working
    BY <2>2, <2>5 DEF Stage, Working
  <2>. QED  BY <2>4, <2>5
<1>. QED  BY <1>3, <1>4, <1>5, <1>7, <1>8, <1>9 DEF OrderInv

(* What a handler at work can rely on. *)
LEMMA AtWork ==
  ASSUME LoopTypes, PromptsClaimed, OrderInv, NEW h \in Handlers, hpc[h] \in Working
  PROVE  /\ \E p \in Prompts : p = obj[h]
         /\ Works(h, obj[h]) /\ ev[h].prompt = obj[h] /\ Stage(h)
         /\ sel[obj[h]] \in Nat /\ NumQ[obj[h]] \in Nat \ {0}
         /\ sent[obj[h]] \in Seq(Nat)
         /\ told[obj[h]] \in {<< >>, <<Failure>>, <<Upto(obj[h], NumQ[obj[h]])>>}
<1>1. obj[h] \in Prompts
  BY DEF PromptsClaimed
<1>. QED
  BY <1>1, ConnectorAssumption, ZenonT(60) DEF OrderInv, OneHandler, Staged, RecordTypes,
     AnswersInOrder, Upto, Works

LEMMA DeletePromptOrder ==
  ASSUME LoopTypes, PromptsClaimed, OrderInv, LoopTypes', NEW h \in Handlers, DeletePrompt(h)
  PROVE  OrderInv'
<1>1. hpc[h] = "delete"
  BY DEF DeletePrompt, HGoTo
<1>2. PICK p \in Prompts : p = obj[h]
  BY <1>1, AtWork DEF Working
<1>3. /\ Works(h, p) /\ Expects(p) /\ ev[h].prompt = p /\ ev[h].q = sel[p] + 1
      /\ sel[p] \in Nat /\ NumQ[p] \in Nat \ {0}
      /\ told[p] \in {<< >>, <<Failure>>, <<Upto(p, NumQ[p])>>}
  BY <1>1, <1>2, AtWork DEF Working, Stage
<1>4. /\ hpc' = [hpc EXCEPT ![h] = IF p \in Confirms THEN "finalize" ELSE "append"]
      /\ msg' = [msg EXCEPT ![p] = 0]
      /\ saw' = [saw EXCEPT ![h] = IF p \in Confirms THEN <<<<p, ev[h].q>>>> ELSE ans[p]]
      /\ UNCHANGED <<claimed, lpc, hand, told, cur, sel, ans, asked, sent, ev, obj>>
  BY <1>2, <1>3 DEF DeletePrompt, HGoTo, Meant, broker, loop
<1>5. RecordTypes'
  BY <1>4 DEF OrderInv, RecordTypes
<1>6. /\ hpc'[h] = IF p \in Confirms THEN "finalize" ELSE "append"
      /\ saw'[h] = IF p \in Confirms THEN <<<<p, ev[h].q>>>> ELSE ans[p]
  BY <1>4 DEF LoopTypes, OrderInv, RecordTypes
<1>7. p \in Confirms => saw'[h] = Upto(p, NumQ[p])
  BY <1>3, <1>6, UptoOne, ConnectorAssumption, SMTT(60) DEF Expects
<1>8. Stage(h)'
  BY <1>2, <1>3, <1>4, <1>6, <1>7 DEF Stage, Expects
<1>9. hpc'[h] \in Working /\ obj'[h] = p /\ ev'[h] = ev[h]
  BY <1>2, <1>4, <1>6 DEF Working
<1>10. \A g \in Handlers : g # h => UNCHANGED <<hpc[g], ev[g], obj[g], saw[g]>>
  BY <1>4 DEF LoopTypes, OrderInv, RecordTypes
<1>11. \A q \in Prompts : q # p => UNCHANGED <<sel[q], ans[q], msg[q], sent[q], told[q]>>
  BY <1>4 DEF OrderInv, RecordTypes
<1>. QED  BY <1>3, <1>4, <1>5, <1>8, <1>9, <1>10, <1>11, WorkStep

LEMMA AppendAnswerOrder ==
  ASSUME LoopTypes, PromptsClaimed, OrderInv, LoopTypes', NEW h \in Handlers, AppendAnswer(h)
  PROVE  OrderInv'
<1>1. hpc[h] = "append"
  BY DEF AppendAnswer, HGoTo
<1>2. PICK p \in Prompts : p = obj[h]
  BY <1>1, AtWork DEF Working
<1>3. /\ Works(h, p) /\ Expects(p) /\ ev[h].prompt = p /\ ev[h].q = sel[p] + 1
      /\ saw[h] = ans[p] /\ sel[p] \in Nat
      /\ told[p] \in {<< >>, <<Failure>>, <<Upto(p, NumQ[p])>>}
  BY <1>1, <1>2, AtWork DEF Working, Stage
<1>4. /\ hpc' = [hpc EXCEPT ![h] = "advance"]
      /\ ans' = [ans EXCEPT ![p] = Append(saw[h], <<p, ev[h].q>>)]
      /\ UNCHANGED <<claimed, lpc, hand, told, cur, sel, msg, asked, sent, ev, obj, saw>>
  BY <1>2, <1>3 DEF AppendAnswer, HGoTo, Meant, broker, loop
<1>5. RecordTypes'
  BY <1>4 DEF OrderInv, RecordTypes
<1>6. hpc'[h] = "advance" /\ ans'[p] = Upto(p, sel[p] + 1)
  <2>1. hpc'[h] = "advance" /\ ans'[p] = Append(saw[h], <<p, ev[h].q>>)
    BY <1>4 DEF LoopTypes, OrderInv, RecordTypes
  <2>2. ans'[p] = Append(Upto(p, sel[p]), <<p, sel[p] + 1>>)
    BY <1>3, <2>1 DEF Expects
  <2>. QED  BY <1>3, <2>1, <2>2, UptoMore
<1>7. Stage(h)'
  BY <1>2, <1>3, <1>4, <1>6 DEF Stage, Expects
<1>8. hpc'[h] \in Working /\ obj'[h] = p /\ ev'[h] = ev[h]
  BY <1>2, <1>4, <1>6 DEF Working
<1>9. \A g \in Handlers : g # h => UNCHANGED <<hpc[g], ev[g], obj[g], saw[g]>>
  BY <1>4 DEF LoopTypes
<1>10. \A q \in Prompts : q # p => UNCHANGED <<sel[q], ans[q], msg[q], sent[q], told[q]>>
  BY <1>4 DEF OrderInv, RecordTypes
<1>. QED  BY <1>3, <1>4, <1>5, <1>7, <1>8, <1>9, <1>10, WorkStep

LEMMA AdvanceOrder ==
  ASSUME LoopTypes, PromptsClaimed, OrderInv, LoopTypes', NEW h \in Handlers, Advance(h)
  PROVE  OrderInv'
<1>1. hpc[h] = "advance"
  BY DEF Advance
<1>2. PICK p \in Prompts : p = obj[h]
  BY <1>1, AtWork DEF Working
<1>3. /\ Works(h, p) /\ ans[p] = Upto(p, sel[p] + 1) /\ sel[p] < NumQ[p]
      /\ sel[p] \in Nat /\ NumQ[p] \in Nat \ {0}
      /\ told[p] \in {<< >>, <<Failure>>, <<Upto(p, NumQ[p])>>}
  BY <1>1, <1>2, AtWork DEF Working, Stage
<1>4. /\ sel' = [sel EXCEPT ![p] = sel[p] + 1]
      /\ UNCHANGED <<claimed, lpc, hand, told, cur, ans, msg, asked, sent, ev, obj>>
      /\ IF sel[p] + 1 >= NumQ[p]
         THEN hpc' = [hpc EXCEPT ![h] = "finalize"] /\ saw' = [saw EXCEPT ![h] = ans[p]]
         ELSE hpc' = [hpc EXCEPT ![h] = "ask"] /\ saw' = saw
  BY <1>2 DEF Advance, HGoTo, broker, loop, OrderInv, RecordTypes
<1>5. RecordTypes'
  BY <1>3, <1>4, SMTT(60) DEF OrderInv, RecordTypes
<1>6. sel'[p] = sel[p] + 1 /\ ans'[p] = Upto(p, sel'[p])
  BY <1>3, <1>4 DEF OrderInv, RecordTypes
<1>7. hpc'[h] \in {"finalize", "ask"} /\ Stage(h)'
  <2>1. CASE sel[p] + 1 >= NumQ[p]
    <3>1. hpc'[h] = "finalize" /\ saw'[h] = Upto(p, NumQ[p]) /\ obj'[h] = p
      BY <1>2, <1>3, <1>4, <2>1, SMTT(60) DEF LoopTypes, OrderInv, RecordTypes
    <3>. QED  BY <3>1 DEF Stage
  <2>2. CASE ~(sel[p] + 1 >= NumQ[p])
    <3>1. hpc'[h] = "ask" /\ sel'[p] < NumQ[p] /\ obj'[h] = p
      BY <1>2, <1>3, <1>4, <1>6, <2>2 DEF LoopTypes
    <3>. QED  BY <1>6, <3>1 DEF Stage, Expects
  <2>. QED  BY <2>1, <2>2
<1>8. hpc'[h] \in Working /\ obj'[h] = p /\ ev'[h] = ev[h]
  BY <1>2, <1>4, <1>7 DEF Working
<1>9. \A g \in Handlers : g # h => UNCHANGED <<hpc[g], ev[g], obj[g], saw[g]>>
  BY <1>4, SMTT(60) DEF LoopTypes, OrderInv, RecordTypes
<1>10. \A q \in Prompts : q # p => UNCHANGED <<sel[q], ans[q], msg[q], sent[q], told[q]>>
  BY <1>4 DEF OrderInv, RecordTypes
<1>. QED  BY <1>3, <1>4, <1>5, <1>7, <1>8, <1>9, <1>10, WorkStep

LEMMA AskNextOrder ==
  ASSUME LoopTypes, PromptsClaimed, OrderInv, LoopTypes', NEW h \in Handlers, AskNext(h)
  PROVE  OrderInv'
<1>1. hpc[h] = "ask"
  BY DEF AskNext
<1>2. PICK p \in Prompts : p = obj[h]
  BY <1>1, AtWork DEF Working
<1>3. /\ Works(h, p) /\ Expects(p) /\ sel[p] \in Nat /\ sent[p] \in Seq(Nat)
      /\ told[p] \in {<< >>, <<Failure>>, <<Upto(p, NumQ[p])>>}
  BY <1>1, <1>2, AtWork DEF Working, Stage
<1>4. /\ hpc' = [hpc EXCEPT ![h] = "record"]
      /\ sent' = [sent EXCEPT ![p] = Append(sent[p], sel[p] + 1)]
      /\ saw' = [saw EXCEPT ![h] = <<Len(sent'[p]), sel[p] + 1>>]
      /\ UNCHANGED <<claimed, lpc, hand, told, cur, sel, ans, msg, asked, ev, obj>>
  BY <1>2, <1>3 DEF AskNext, HGoTo, Expects, broker, loop, OrderInv, RecordTypes
<1>5. RecordTypes'
  BY <1>3, <1>4, SMTT(60) DEF OrderInv, RecordTypes
<1>6. sent'[p] = Append(sent[p], sel[p] + 1)
  BY <1>4 DEF OrderInv, RecordTypes
<1>7. Asks(p)'
  BY <1>3, <1>4, <1>6 DEF Asks
<1>8. /\ hpc'[h] = "record" /\ saw'[h] = <<Len(sent'[p]), sel'[p] + 1>> /\ obj'[h] = p
      /\ ev'[h] = ev[h]
  BY <1>2, <1>4 DEF LoopTypes, OrderInv, RecordTypes
<1>9. Expects(p)'
  BY <1>3, <1>4 DEF Expects
<1>10. Stage(h)'
  BY <1>7, <1>8, <1>9 DEF Stage
<1>11. hpc'[h] \in Working
  BY <1>8 DEF Working
<1>12. \A g \in Handlers : g # h => UNCHANGED <<hpc[g], ev[g], obj[g], saw[g]>>
  BY <1>4 DEF LoopTypes, OrderInv, RecordTypes
<1>13. \A q \in Prompts : q # p => UNCHANGED <<sel[q], ans[q], msg[q], sent[q], told[q]>>
  BY <1>4 DEF OrderInv, RecordTypes
<1>. QED  BY <1>3, <1>4, <1>5, <1>8, <1>10, <1>11, <1>12, <1>13, WorkStep, SMTT(60)

LEMMA RecordOrder ==
  ASSUME LoopTypes, PromptsClaimed, OrderInv, LoopTypes', NEW h \in Handlers, Record(h)
  PROVE  OrderInv'
<1>1. hpc[h] = "record"
  BY DEF Record, HGoTo
<1>2. PICK p \in Prompts : p = obj[h]
  BY <1>1, AtWork DEF Working
<1>3. /\ Works(h, p) /\ Expects(p) /\ Asks(p) /\ saw[h] = <<Len(sent[p]), sel[p] + 1>>
      /\ sel[p] \in Nat /\ sent[p] \in Seq(Nat)
      /\ told[p] \in {<< >>, <<Failure>>, <<Upto(p, NumQ[p])>>}
  BY <1>1, <1>2, AtWork DEF Working, Stage
<1>4. /\ hpc' = [hpc EXCEPT ![h] = "idle"]
      /\ msg' = [msg EXCEPT ![p] = Len(sent[p])]
      /\ asked' = [asked EXCEPT ![p] = sel[p] + 1]
      /\ ev' = [ev EXCEPT ![h] = NoEvent] /\ obj' = [obj EXCEPT ![h] = None]
      /\ saw' = [saw EXCEPT ![h] = << >>]
      /\ UNCHANGED <<claimed, lpc, hand, told, cur, sel, ans, sent>>
  BY <1>2, <1>3 DEF Record, HGoTo, Forget, broker, loop
<1>5. RecordTypes'
  BY <1>3, <1>4, SMTT(60) DEF OrderInv, RecordTypes, NoEvent
<1>6. hpc'[h] = "idle" /\ Stage(h)'
  BY <1>4 DEF LoopTypes, Stage
<1>7. Ready(p)'
  BY <1>3, <1>4 DEF Ready, Expects, Asks, OrderInv, RecordTypes
<1>8. \A g \in Handlers : g # h => UNCHANGED <<hpc[g], ev[g], obj[g], saw[g]>>
  BY <1>4 DEF LoopTypes, OrderInv, RecordTypes, PromptsClaimed
<1>9. \A q \in Prompts : q # p => UNCHANGED <<sel[q], ans[q], msg[q], sent[q], told[q]>>
  BY <1>4 DEF OrderInv, RecordTypes
<1>. QED  BY <1>3, <1>4, <1>5, <1>6, <1>7, <1>8, <1>9, WorkStep, ZenonT(60)

LEMMA AskFailsOrder ==
  ASSUME LoopTypes, PromptsClaimed, OrderInv, LoopTypes', NEW h \in Handlers, AskFails(h)
  PROVE  OrderInv'
<1>1. hpc[h] = "ask"
  BY DEF AskFails, HGoTo
<1>2. PICK p \in Prompts : p = obj[h]
  BY <1>1, AtWork DEF Working
<1>3. Works(h, p) /\ told[p] \in {<< >>, <<Failure>>, <<Upto(p, NumQ[p])>>}
  BY <1>1, <1>2, AtWork DEF Working
<1>4. /\ hpc' = [hpc EXCEPT ![h] = "finalize"] /\ saw' = [saw EXCEPT ![h] = Failure]
      /\ UNCHANGED <<claimed, lpc, hand, told, cur, active, ev, obj>>
  BY DEF AskFails, HGoTo, broker, loop
<1>5. RecordTypes'
  BY <1>4 DEF OrderInv, RecordTypes, active
<1>6. hpc'[h] = "finalize" /\ saw'[h] = Failure /\ obj'[h] = p /\ ev'[h] = ev[h]
  BY <1>2, <1>4 DEF LoopTypes, OrderInv, RecordTypes
<1>7. hpc'[h] \in Working /\ Stage(h)'
  BY <1>6 DEF Stage, Working
<1>8. \A g \in Handlers : g # h => UNCHANGED <<hpc[g], ev[g], obj[g], saw[g]>>
  BY <1>4 DEF LoopTypes, OrderInv, RecordTypes
<1>9. \A q \in Prompts : q # p => UNCHANGED <<sel[q], ans[q], msg[q], sent[q], told[q]>>
  BY <1>4 DEF active
<1>. QED  BY <1>3, <1>4, <1>5, <1>6, <1>7, <1>8, <1>9, WorkStep

LEMMA FreeChatOrder ==
  ASSUME LoopTypes, PromptsClaimed, OrderInv, LoopTypes', NEW h \in Handlers, FreeChat(h)
  PROVE  OrderInv'
<1>1. hpc[h] = "finalize"
  BY DEF FreeChat, HGoTo
<1>2. PICK p \in Prompts : p = obj[h]
  BY <1>1, AtWork DEF Working
<1>3. /\ Works(h, p) /\ saw[h] \in {Failure, Upto(p, NumQ[p])}
      /\ told[p] \in {<< >>, <<Failure>>, <<Upto(p, NumQ[p])>>}
  BY <1>1, <1>2, AtWork DEF Working, Stage
<1>4. /\ hpc' = [hpc EXCEPT ![h] = "resolve"]
      /\ cur' = [cur EXCEPT ![ChatOf[p]] = IF @ = p THEN None ELSE @]
      /\ UNCHANGED <<claimed, lpc, hand, told, active, ev, obj, saw>>
  BY <1>2 DEF FreeChat, HGoTo, broker, loop
<1>5. \A d \in Chats : cur'[d] \in {cur[d], None}
  BY <1>4 DEF LoopTypes
<1>6. cur'[ChatOf[p]] # p
  BY <1>4, ConnectorAssumption DEF LoopTypes
<1>7. RecordTypes'
  BY <1>4, <1>5 DEF OrderInv, RecordTypes, active
<1>8. hpc'[h] = "resolve" /\ obj'[h] = p /\ ev'[h] = ev[h] /\ saw'[h] = saw[h]
  BY <1>2, <1>4 DEF LoopTypes
<1>9. hpc'[h] \in Working /\ Stage(h)'
  BY <1>3, <1>6, <1>8 DEF Stage, Working
<1>10. \A g \in Handlers : g # h => UNCHANGED <<hpc[g], ev[g], obj[g], saw[g]>>
  BY <1>4 DEF LoopTypes
<1>11. \A q \in Prompts : q # p => UNCHANGED <<sel[q], ans[q], msg[q], sent[q], told[q]>>
  BY <1>4 DEF active
<1>. QED  BY <1>3, <1>4, <1>5, <1>7, <1>8, <1>9, <1>10, <1>11, WorkStep

(* The one step that tells a requester anything but an error. *)
LEMMA ResolvePromptOrder ==
  ASSUME LoopTypes, PromptsClaimed, OrderInv, LoopTypes', NEW h \in Handlers, ResolvePrompt(h)
  PROVE  OrderInv'
<1>1. hpc[h] = "resolve"
  BY DEF ResolvePrompt, HGoTo
<1>2. PICK p \in Prompts : p = obj[h]
  BY <1>1, AtWork DEF Working
<1>3. /\ Works(h, p) /\ saw[h] \in {Failure, Upto(p, NumQ[p])} /\ cur[ChatOf[p]] # p
      /\ told[p] \in {<< >>, <<Failure>>, <<Upto(p, NumQ[p])>>}
  BY <1>1, <1>2, AtWork DEF Working, Stage
<1>4. /\ hpc' = [hpc EXCEPT ![h] = "wakeup"]
      /\ told' = [told EXCEPT ![p] = IF p \in entries /\ @ = << >> THEN <<saw[h]>> ELSE @]
      /\ UNCHANGED <<claimed, lpc, hand, cur, active, ev, obj, saw>>
  BY <1>2 DEF ResolvePrompt, Resolve, HGoTo, loop
<1>5. told'[p] \in {<< >>, <<Failure>>, <<Upto(p, NumQ[p])>>}
  BY <1>3, <1>4 DEF PromptsClaimed
<1>6. RecordTypes'
  BY <1>4 DEF OrderInv, RecordTypes, active
<1>7. hpc'[h] = "wakeup" /\ obj'[h] = p /\ ev'[h] = ev[h] /\ saw'[h] = saw[h]
  BY <1>2, <1>4 DEF LoopTypes
<1>8. hpc'[h] \in Working /\ Stage(h)'
  BY <1>3, <1>4, <1>7 DEF Stage, Working
<1>9. \A g \in Handlers : g # h => UNCHANGED <<hpc[g], ev[g], obj[g], saw[g]>>
  BY <1>4 DEF LoopTypes
<1>10. \A q \in Prompts : q # p => UNCHANGED <<sel[q], ans[q], msg[q], sent[q], told[q]>>
  BY <1>4 DEF active, PromptsClaimed
<1>. QED  BY <1>3, <1>4, <1>5, <1>6, <1>7, <1>8, <1>9, <1>10, WorkStep

LEMMA WakeLoopOrder ==
  ASSUME LoopTypes, PromptsClaimed, OrderInv, LoopTypes', NEW h \in Handlers, WakeLoop(h)
  PROVE  OrderInv'
<1>1. hpc[h] = "wakeup"
  BY DEF WakeLoop, HGoTo
<1>2. PICK p \in Prompts : p = obj[h]
  BY <1>1, AtWork DEF Working
<1>3. /\ Works(h, p) /\ cur[ChatOf[p]] # p
      /\ told[p] \in {<< >>, <<Failure>>, <<Upto(p, NumQ[p])>>}
  BY <1>1, <1>2, AtWork DEF Working, Stage
<1>4. /\ hpc' = [hpc EXCEPT ![h] = "idle"]
      /\ ev' = [ev EXCEPT ![h] = NoEvent] /\ obj' = [obj EXCEPT ![h] = None]
      /\ saw' = [saw EXCEPT ![h] = << >>]
      /\ UNCHANGED <<claimed, lpc, hand, told, cur, active>>
  BY DEF WakeLoop, HGoTo, Forget, broker, loop
<1>5. RecordTypes'
  BY <1>4 DEF OrderInv, RecordTypes, NoEvent, active
<1>6. hpc'[h] = "idle" /\ Stage(h)' /\ cur'[ChatOf[p]] # p
  BY <1>3, <1>4 DEF LoopTypes, Stage
<1>7. \A g \in Handlers : g # h => UNCHANGED <<hpc[g], ev[g], obj[g], saw[g]>>
  BY <1>4 DEF LoopTypes, OrderInv, RecordTypes, PromptsClaimed
<1>8. \A q \in Prompts : q # p => UNCHANGED <<sel[q], ans[q], msg[q], sent[q], told[q]>>
  BY <1>4 DEF active
<1>. QED  BY <1>3, <1>4, <1>5, <1>6, <1>7, <1>8, WorkStep

LEMMA OrderStep ==
  ASSUME LoopTypes, PromptsClaimed, OrderInv, ~DoubleTaps, TextsAreForOne, [Next]_vars
  PROVE  OrderInv'
<1>0. LoopTypes' /\ DOMAIN cur = Chats
  BY NextLoopTypes DEF LoopTypes
<1>1. CASE LoopStep
  <2>1. CASE CleanStaleCur
    <3>1. /\ UNCHANGED <<told, active, handler>> /\ claimed' = claimed /\ lpc' = "pick"
          /\ DOMAIN cur' = Chats /\ \A d \in Chats : cur'[d] \in {cur[d], None}
      BY <2>1 DEF CleanStaleCur, broker
    <3>. QED  BY <3>1, QuietStep
  <2>2. CASE PickNone \/ Wake \/ Unregister
    <3>1. /\ UNCHANGED <<told, active, handler, claimed, cur>> /\ lpc' \in {"sleep", "clean", "off"}
      BY <2>2 DEF PickNone, Wake, Unregister, broker
    <3>. QED  BY <1>0, <3>1, QuietStep
  <2>. QED
    BY <1>1, <2>1, <2>2, PickOrder, SendFailsOrder, SendPromptOrder, InstallOrder DEF LoopStep
<1>2. ASSUME NEW h \in Handlers, HandlerStep(h) PROVE OrderInv'
  BY <1>0, <1>2, CheckHitOrder, CheckMissOrder, DeletePromptOrder, AppendAnswerOrder, AdvanceOrder,
     AskNextOrder, RecordOrder, AskFailsOrder, FreeChatOrder, ResolvePromptOrder, WakeLoopOrder
  DEF HandlerStep
<1>3. ASSUME NEW h \in Handlers, NEW p \in Prompts, NEW n \in DOMAIN sent[p],
             UserActs(h, p, n)
      PROVE  OrderInv'
  BY <1>3, UserActsOrder
<1>4. ASSUME (\E p \in Prompts : Raise(p) \/ CtxEnds(p) \/ AskReturns(p) \/ Drop(p))
             \/ Stop \/ UNCHANGED vars
      PROVE  OrderInv'
  <2>1. UNCHANGED <<told, active, handler, claimed, cur, lpc, hand>>
    BY <1>4 DEF Raise, CtxEnds, AskReturns, Drop, Stop, vars, broker, loop
  <2>. QED  BY <1>0, <2>1, QuietStep
<1>. QED  BY <1>1, <1>2, <1>3, <1>4 DEF Next

(* A requester is given one answer for each of its questions, meant for that  *)
(* question, or an error: for users who wait for the connector to have        *)
(* handled what they did (DoubleTaps says what happens without), and as long  *)
(* as no chat is asked text questions by two prompts.                         *)
THEOREM AnswersAreInOrder ==
  ASSUME ~DoubleTaps, TextsAreForOne
  PROVE  Spec => []AnswersInOrder
<1>1. LoopTypes /\ PromptsClaimed /\ OrderInv /\ [Next]_vars
        => (LoopTypes /\ PromptsClaimed /\ OrderInv)'
  BY NextLoopTypes, ClaimedStep, OrderStep
<1>2. OrderInv => AnswersInOrder
  BY DEF OrderInv
<1>. QED  BY InitLoopTypes, InitClaimed, InitOrder, <1>1, <1>2, PTL DEF Spec

-----------------------------------------------------------------------------
(* Types *)

Answers == Seq(Prompts \X Nat)

(* The broker's sets, the channels and the loop. *)
LoopKinds ==
    /\ ctxDone \subseteq raised /\ told \in [Prompts -> Seq(Answers)]
    /\ notify \in BOOLEAN /\ wakeup \in BOOLEAN /\ stopped \in BOOLEAN
    /\ lpc \in {"clean", "pick", "send", "install", "sleep", "off"}
    /\ lpc \in {"send", "install"} <=> hand # None

(* The records: what a prompt's message is among those sent, what the first   *)
(* message must find, and what a handler has in hand at each of its steps.    *)
RecordKinds ==
    /\ sel \in [Prompts -> Nat] /\ ans \in [Prompts -> Answers]
    /\ msg \in [Prompts -> Nat] /\ asked \in [Prompts -> Nat] /\ sent \in [Prompts -> Seq(Nat)]
    /\ ev \in [Handlers -> [prompt : Prompts \cup {None}, q : Nat, n : Nat]]
    /\ DOMAIN saw = Handlers

MessagesSent ==
    /\ \A p \in Prompts : msg[p] <= Len(sent[p])
    /\ \A p \in Prompts \ claimed : sent[p] = << >>
    /\ lpc = "send" => sent[hand] = << >>
    /\ lpc = "install" => Len(sent[hand]) > 0
    /\ \A d \in Chats : cur[d] # None => ChatOf[cur[d]] = d /\ Len(sent[cur[d]]) > 0
    /\ \A h \in Handlers : hpc[h] \in Working => Len(sent[obj[h]]) > 0

InHand(h) ==
    /\ hpc[h] \in {"append", "finalize", "resolve"} => saw[h] \in Answers
    /\ hpc[h] = "record" => saw[h][1] \in 1..Len(sent[obj[h]]) /\ saw[h][2] \in Nat

Kinds == LoopKinds /\ RecordKinds /\ MessagesSent /\ \A h \in Handlers : InHand(h)

(* A reply is a sequence of answers, if what it is made of is one.            *)
LEMMA ResolveKinds ==
  ASSUME PromptsClaimed, LoopKinds, NEW p \in Prompts, NEW reply \in Answers, Resolve(p, reply)
  PROVE  /\ told' \in [Prompts -> Seq(Answers)] /\ UNCHANGED <<claimed, ctxDone, raised>>
<1>1. \A q \in Prompts : told'[q] = told[q] \/ told'[q] = <<reply>>
  BY DEF Resolve, LoopKinds
<1>2. DOMAIN told' = Prompts /\ told' = [q \in Prompts |-> told'[q]]
  BY DEF Resolve, LoopKinds
<1>3. <<reply>> \in Seq(Answers)
  OBVIOUS
<1>4. \A q \in Prompts : told'[q] \in Seq(Answers)
  BY <1>1, <1>3 DEF LoopKinds
<1>. QED  BY <1>2, <1>4 DEF Resolve

(* The loop, the broker and the channels.                                     *)
LEMMA LoopKindsStep ==
  ASSUME LoopTypes, PromptsClaimed, Kinds, [Next]_vars
  PROVE  LoopKinds'
<1>0. /\ LoopKinds /\ raised \subseteq Prompts /\ entries \subseteq raised /\ claimed \subseteq raised
      /\ None \notin Prompts
  BY ConnectorAssumption DEF Kinds, PromptsClaimed
<1> USE DEF LoopKinds
<1>1. CASE LoopStep
  <2>1. ASSUME NEW p \in Prompts, Pick(p) PROVE LoopKinds'
    BY <1>0, <2>1 DEF Pick, active, handler
  <2>2. CASE CleanStaleCur \/ PickNone \/ Wake \/ Unregister
    BY <1>0, <2>2, ZenonT(60) DEF CleanStaleCur, PickNone, Wake, Unregister, broker, active, handler
  <2>3. CASE SendFails
    <3>1. hand \in Prompts /\ Failure \in Answers
      BY <2>3 DEF LoopTypes, SendFails, Failure, Answers
    <3>2. told' \in [Prompts -> Seq(Answers)] /\ UNCHANGED <<claimed, ctxDone, raised>>
      BY <1>0, <2>3, <3>1, ResolveKinds DEF SendFails
    <3>3. lpc' = "pick" /\ hand' = None /\ UNCHANGED <<notify, wakeup, stopped>>
      BY <2>3 DEF SendFails
    <3>. QED  BY <1>0, <3>2, <3>3
  <2>4. CASE SendPrompt \/ Install
    BY <1>0, <2>4 DEF SendPrompt, Install, broker, active, handler
  <2>. QED  BY <1>1, <2>1, <2>2, <2>3, <2>4 DEF LoopStep
<1>2. ASSUME NEW h \in Handlers, HandlerStep(h) PROVE LoopKinds'
  <2>1. CASE CheckHit(h) \/ CheckMiss(h) \/ DeletePrompt(h) \/ AppendAnswer(h)
    BY <1>0, <2>1 DEF CheckHit, CheckMiss, DeletePrompt, AppendAnswer, broker, loop
  <2>2. CASE Advance(h) \/ AskNext(h) \/ Record(h) \/ AskFails(h)
    BY <1>0, <2>2 DEF Advance, AskNext, Record, AskFails, broker, loop
  <2>3. CASE FreeChat(h) \/ WakeLoop(h)
    BY <1>0, <2>3 DEF FreeChat, WakeLoop, broker, loop
  <2>4. CASE ResolvePrompt(h)
    <3>1. hpc[h] = "resolve" /\ Resolve(obj[h], saw[h]) /\ UNCHANGED <<notify, wakeup, loop>>
      BY <2>4 DEF ResolvePrompt, HGoTo
    <3>2. obj[h] \in Prompts /\ saw[h] \in Answers
      BY <1>0, <3>1 DEF PromptsClaimed, Working, Kinds, InHand
    <3>3. told' \in [Prompts -> Seq(Answers)] /\ UNCHANGED <<claimed, ctxDone, raised>>
      BY <1>0, <3>1, <3>2, ResolveKinds
    <3>. QED  BY <1>0, <3>1, <3>3 DEF loop
  <2>. QED  BY <1>2, <2>1, <2>2, <2>3, <2>4 DEF HandlerStep
<1>3. ASSUME NEW h \in Handlers, NEW p \in Prompts, NEW n \in DOMAIN sent[p], UserActs(h, p, n)
      PROVE  LoopKinds'
  BY <1>0, <1>3 DEF UserActs, broker, loop
<1>4. ASSUME NEW p \in Prompts, Raise(p) PROVE LoopKinds'
  BY <1>0, <1>4 DEF Raise, loop
<1>5. ASSUME NEW p \in Prompts, CtxEnds(p) \/ AskReturns(p) \/ Drop(p) PROVE LoopKinds'
  BY <1>0, <1>5 DEF CtxEnds, AskReturns, Drop, loop
<1>6. CASE Stop
  BY <1>0, <1>6 DEF Stop, broker
<1>7. CASE UNCHANGED vars
  BY <1>0, <1>7 DEF vars, broker, loop
<1>. QED  BY <1>1, <1>2, <1>3, <1>4, <1>5, <1>6, <1>7 DEF Next

(* A step that changes no record and moves no handler into a step.            *)
LEMMA QuietKinds ==
  ASSUME LoopTypes, PromptsClaimed, Kinds, UNCHANGED <<active, handler>>, claimed \subseteq claimed',
         \A d \in Chats : cur'[d] \in {cur[d], None},
         \/ UNCHANGED <<lpc, hand>>
         \/ lpc' \notin {"send", "install"}
         \/ lpc' = "send" /\ hand' \in Prompts \ claimed
  PROVE  RecordKinds' /\ MessagesSent' /\ \A h \in Handlers : InHand(h)'
<1>0. RecordKinds /\ MessagesSent /\ \A h \in Handlers : InHand(h)
  BY DEF Kinds
<1>1. RecordKinds'
  BY <1>0 DEF RecordKinds, active, handler
<1>2. \A h \in Handlers : InHand(h)'
  BY <1>0 DEF InHand, active, handler
<1>3. MessagesSent'
  BY <1>0 DEF MessagesSent, active, handler
<1>. QED  BY <1>1, <1>2, <1>3

(* The loop sends a first message and notes it.                               *)
LEMMA SendKinds ==
  ASSUME LoopTypes, PromptsClaimed, Kinds, SendPrompt
  PROVE  RecordKinds' /\ MessagesSent' /\ \A h \in Handlers : InHand(h)'
<1>0. /\ lpc = "send" /\ lpc' = "install" /\ hand' = hand /\ hand \in Prompts /\ hand \in claimed
      /\ sent' = [sent EXCEPT ![hand] = <<1>>]
      /\ UNCHANGED <<claimed, cur, sel, ans, msg, asked, handler>>
  BY DEF SendPrompt, LoopTypes, PromptsClaimed, broker
<1>1. RecordKinds /\ MessagesSent /\ \A h \in Handlers : InHand(h)
  BY DEF Kinds
<1>2. Len(sent[hand]) = 0 /\ <<1>> \in Seq(Nat) /\ Len(<<1>>) = 1
  BY <1>0, <1>1 DEF MessagesSent
<1>3. /\ sent' \in [Prompts -> Seq(Nat)] /\ Len(sent'[hand]) = 1
      /\ \A p \in Prompts : p # hand => sent'[p] = sent[p]
  BY <1>0, <1>1, <1>2 DEF RecordKinds
<1>4. RecordKinds'
  BY <1>0, <1>1, <1>3 DEF RecordKinds, handler
<1>5. \A h \in Handlers : hpc[h] \in Working => obj[h] \in Prompts /\ obj[h] # hand
  BY <1>0, <1>1, <1>2 DEF MessagesSent, PromptsClaimed
<1>6. \A d \in Chats : cur[d] # None => cur[d] \in Prompts /\ cur[d] # hand
  BY <1>0, <1>1, <1>2 DEF MessagesSent, LoopTypes
<1>7. \A p \in Prompts : msg'[p] <= Len(sent'[p])
  BY <1>0, <1>1, <1>2, <1>3 DEF MessagesSent, RecordKinds
<1>8. MessagesSent'
  BY <1>0, <1>1, <1>3, <1>5, <1>6, <1>7 DEF MessagesSent, handler
<1>9. \A h \in Handlers : InHand(h)'
  BY <1>0, <1>1, <1>3, <1>5 DEF InHand, Working, handler
<1>. QED  BY <1>4, <1>8, <1>9

LEMMA InstallKinds ==
  ASSUME LoopTypes, PromptsClaimed, Kinds, Install
  PROVE  RecordKinds' /\ MessagesSent' /\ \A h \in Handlers : InHand(h)'
<1>0. /\ lpc = "install" /\ lpc' = "pick" /\ hand \in Prompts
      /\ cur' = [cur EXCEPT ![ChatOf[hand]] = hand]
      /\ msg' = [msg EXCEPT ![hand] = 1] /\ asked' = [asked EXCEPT ![hand] = 1]
      /\ UNCHANGED <<claimed, sel, ans, sent, handler>>
  BY DEF Install, LoopTypes, broker
<1>1. RecordKinds /\ MessagesSent /\ \A h \in Handlers : InHand(h)
  BY DEF Kinds
<1>2. Len(sent[hand]) > 0 /\ Len(sent[hand]) \in Nat
  BY <1>0, <1>1 DEF MessagesSent, RecordKinds
<1>3. RecordKinds'
  BY <1>0, <1>1 DEF RecordKinds, handler
<1>4. \A p \in Prompts : msg'[p] <= Len(sent'[p])
  BY <1>0, <1>1, <1>2 DEF MessagesSent, RecordKinds
<1>5. \A d \in Chats : cur'[d] # None => ChatOf[cur'[d]] = d /\ Len(sent'[cur'[d]]) > 0
  BY <1>0, <1>1, <1>2 DEF MessagesSent, LoopTypes
<1>6. MessagesSent'
  BY <1>0, <1>1, <1>4, <1>5 DEF MessagesSent, handler
<1>7. \A h \in Handlers : InHand(h)'
  BY <1>0, <1>1 DEF InHand, handler
<1>. QED  BY <1>3, <1>6, <1>7

(* A handler whose step sends nothing and changes at most its own record.     *)
LEMMA WorkKinds ==
  ASSUME LoopTypes, PromptsClaimed, Kinds, NEW h \in Handlers,
         UNCHANGED <<claimed, loop, sent>>, \A d \in Chats : cur'[d] \in {cur[d], None},
         sel' \in [Prompts -> Nat], ans' \in [Prompts -> Answers], msg' \in [Prompts -> Nat],
         asked' \in [Prompts -> Nat], \A p \in Prompts : msg'[p] <= Len(sent[p]),
         ev' \in [Handlers -> [prompt : Prompts \cup {None}, q : Nat, n : Nat]],
         DOMAIN saw' = Handlers,
         \A g \in Handlers : g # h => hpc'[g] = hpc[g] /\ obj'[g] = obj[g] /\ saw'[g] = saw[g],
         hpc'[h] \in Working => Len(sent[obj'[h]]) > 0, InHand(h)'
  PROVE  RecordKinds' /\ MessagesSent' /\ \A g \in Handlers : InHand(g)'
<1>0. RecordKinds /\ MessagesSent /\ \A g \in Handlers : InHand(g)
  BY DEF Kinds
<1>1. RecordKinds'
  BY <1>0 DEF RecordKinds
<1>2. \A g \in Handlers : g # h => InHand(g)'
  BY <1>0, ZenonT(60) DEF InHand
<1>3. MessagesSent'
  BY <1>0, ZenonT(60) DEF MessagesSent, loop
<1>. QED  BY <1>1, <1>2, <1>3

(* Each step of a handler: what it reads is what a record holds, and what it  *)
(* writes is what it read.                                                    *)
LEMMA HandlerKinds ==
  ASSUME LoopTypes, PromptsClaimed, Kinds, NEW h \in Handlers, HandlerStep(h)
  PROVE  RecordKinds' /\ MessagesSent' /\ \A g \in Handlers : InHand(g)'
<1> DEFINE Goal == RecordKinds' /\ MessagesSent' /\ \A g \in Handlers : InHand(g)'
           Events == [prompt : Prompts \cup {None}, q : Nat, n : Nat]
<1>0. /\ sel \in [Prompts -> Nat] /\ ans \in [Prompts -> Answers]
      /\ msg \in [Prompts -> Nat] /\ asked \in [Prompts -> Nat] /\ sent \in [Prompts -> Seq(Nat)]
      /\ ev \in [Handlers -> Events] /\ DOMAIN saw = Handlers
      /\ \A p \in Prompts : msg[p] <= Len(sent[p])
      /\ \A d \in Chats : cur[d] \in Prompts \cup {None}
  BY DEF Kinds, RecordKinds, MessagesSent, LoopTypes
<1>1. /\ hpc \in [Handlers -> HandlerStates] /\ obj \in [Handlers -> Prompts \cup {None}]
      /\ hpc[h] # "idle" => ev[h].prompt \in Prompts
      /\ hpc[h] \in Working => obj[h] \in Prompts /\ Len(sent[obj[h]]) > 0
      /\ InHand(h)
  BY DEF LoopTypes, PromptsClaimed, Kinds, MessagesSent
<1>2. hpc[h] # "idle" => Meant(h) \in Prompts \X Nat
  BY <1>0, <1>1 DEF Meant
<1>3. CASE CheckHit(h)
  <2>1. PICK p \in Prompts :
          /\ HGoTo(h, "check", "delete") /\ Finds(h, p) /\ obj' = [obj EXCEPT ![h] = p]
          /\ UNCHANGED <<broker, loop, cur, active, ev, saw>>
    BY <1>3 DEF CheckHit
  <2>2. ev[h].prompt \in Prompts /\ cur[ChatOf[ev[h].prompt]] = p /\ p # None
    BY <1>1, <2>1, ConnectorAssumption DEF Finds, HGoTo
  <2>3. Len(sent[p]) > 0
    BY <2>2, ConnectorAssumption DEF Kinds, MessagesSent
  <2>4. hpc'[h] = "delete" /\ obj'[h] = p
    BY <1>1, <2>1 DEF HGoTo
  <2>5. InHand(h)'
    BY <2>4 DEF InHand
  <2>6. \A g \in Handlers : g # h => hpc'[g] = hpc[g] /\ obj'[g] = obj[g] /\ saw'[g] = saw[g]
    BY <1>1, <2>1 DEF HGoTo
  <2>. QED  BY <1>0, <2>1, <2>3, <2>4, <2>5, <2>6, WorkKinds DEF broker, active
<1>4. CASE CheckMiss(h) \/ WakeLoop(h)
  <2>1. /\ hpc' = [hpc EXCEPT ![h] = "idle"] /\ ev' = [ev EXCEPT ![h] = NoEvent]
        /\ obj' = [obj EXCEPT ![h] = None] /\ saw' = [saw EXCEPT ![h] = << >>]
        /\ UNCHANGED <<broker, loop, cur, active>>
    BY <1>4 DEF CheckMiss, WakeLoop, Forget, HGoTo
  <2>2. hpc'[h] = "idle" /\ NoEvent \in Events /\ ev' \in [Handlers -> Events] /\ DOMAIN saw' = Handlers
    BY <1>0, <1>1, <2>1 DEF NoEvent
  <2>3. InHand(h)' /\ hpc'[h] \notin Working
    BY <2>2 DEF InHand, Working
  <2>4. \A g \in Handlers : g # h => hpc'[g] = hpc[g] /\ obj'[g] = obj[g] /\ saw'[g] = saw[g]
    BY <1>0, <1>1, <2>1
  <2>. QED  BY <1>0, <2>1, <2>2, <2>3, <2>4, WorkKinds DEF broker, active
<1>5. CASE DeletePrompt(h)
  <2>1. /\ hpc[h] = "delete" /\ obj[h] \in Prompts /\ Len(sent[obj[h]]) > 0 /\ Meant(h) \in Prompts \X Nat
        /\ hpc' = [hpc EXCEPT ![h] = IF obj[h] \in Confirms THEN "finalize" ELSE "append"]
        /\ msg' = [msg EXCEPT ![obj[h]] = 0]
        /\ saw' = [saw EXCEPT ![h] = IF obj[h] \in Confirms THEN <<Meant(h)>> ELSE ans[obj[h]]]
        /\ UNCHANGED <<broker, loop, cur, sel, ans, asked, sent, ev, obj>>
    BY <1>1, <1>2, <1>5 DEF DeletePrompt, HGoTo, Working
  <2>2. saw'[h] \in Answers
    <3>1. <<Meant(h)>> \in Answers
      BY <2>1 DEF Answers
    <3>. QED  BY <1>0, <2>1, <3>1
  <2>3. InHand(h)' /\ hpc'[h] \in {"finalize", "append"}
    BY <1>1, <2>1, <2>2 DEF InHand
  <2>4. msg' \in [Prompts -> Nat] /\ \A p \in Prompts : msg'[p] <= Len(sent[p])
    BY <1>0, <2>1, SMTT(60)
  <2>5. /\ DOMAIN saw' = Handlers
        /\ \A g \in Handlers : g # h => hpc'[g] = hpc[g] /\ obj'[g] = obj[g] /\ saw'[g] = saw[g]
    BY <1>0, <1>1, <2>1
  <2>. QED  BY <1>0, <2>1, <2>3, <2>4, <2>5, WorkKinds DEF broker
<1>6. CASE AppendAnswer(h)
  <2>1. /\ hpc[h] = "append" /\ obj[h] \in Prompts /\ Len(sent[obj[h]]) > 0 /\ Meant(h) \in Prompts \X Nat
        /\ saw[h] \in Answers
        /\ hpc' = [hpc EXCEPT ![h] = "advance"]
        /\ ans' = [ans EXCEPT ![obj[h]] = Append(saw[h], Meant(h))]
        /\ UNCHANGED <<broker, loop, cur, sel, msg, asked, sent, ev, obj, saw>>
    BY <1>1, <1>2, <1>6 DEF AppendAnswer, HGoTo, Working, InHand
  <2>2. Append(saw[h], Meant(h)) \in Answers
    BY <2>1 DEF Answers
  <2>3. ans' \in [Prompts -> Answers] /\ hpc'[h] = "advance"
    BY <1>0, <1>1, <2>1, <2>2
  <2>4. InHand(h)'
    BY <2>3 DEF InHand
  <2>5. \A g \in Handlers : g # h => hpc'[g] = hpc[g] /\ obj'[g] = obj[g] /\ saw'[g] = saw[g]
    BY <1>1, <2>1
  <2>. QED  BY <1>0, <2>1, <2>3, <2>4, <2>5, WorkKinds DEF broker
<1>7. CASE Advance(h)
  <2>1. /\ hpc[h] = "advance" /\ obj[h] \in Prompts /\ Len(sent[obj[h]]) > 0
        /\ sel' = [sel EXCEPT ![obj[h]] = @ + 1]
        /\ UNCHANGED <<broker, loop, cur, ans, msg, asked, sent, ev, obj>>
        /\ \/ hpc' = [hpc EXCEPT ![h] = "finalize"] /\ saw' = [saw EXCEPT ![h] = ans[obj[h]]]
           \/ hpc' = [hpc EXCEPT ![h] = "ask"] /\ saw' = saw
    BY <1>1, <1>7 DEF Advance, HGoTo, Working
  <2>2. InHand(h)'
    BY <1>0, <1>1, <2>1 DEF InHand
  <2>3. /\ DOMAIN saw' = Handlers /\ sel' \in [Prompts -> Nat]
        /\ \A g \in Handlers : g # h => hpc'[g] = hpc[g] /\ obj'[g] = obj[g] /\ saw'[g] = saw[g]
    BY <1>0, <1>1, <2>1, SMTT(60)
  <2>. QED  BY <1>0, <2>1, <2>2, <2>3, WorkKinds DEF broker
<1>8. CASE AskNext(h)
  <2>1. /\ hpc[h] = "ask" /\ obj[h] \in Prompts /\ Len(sent[obj[h]]) > 0
        /\ UNCHANGED <<broker, loop, cur, sel, ans, msg, asked, ev, obj>>
    BY <1>1, <1>8 DEF AskNext, Working
  <2>2. CASE hpc' = [hpc EXCEPT ![h] = "panic"] /\ UNCHANGED <<sent, saw>>
    <3>1. hpc'[h] = "panic"
      BY <1>1, <2>2
    <3>2. InHand(h)' /\ hpc'[h] \notin Working
      BY <3>1 DEF InHand, Working
    <3>3. \A g \in Handlers : g # h => hpc'[g] = hpc[g] /\ obj'[g] = obj[g] /\ saw'[g] = saw[g]
      BY <1>1, <2>1, <2>2
    <3>. QED  BY <1>0, <2>1, <2>2, <3>2, <3>3, WorkKinds DEF broker
  <2>3. CASE /\ hpc' = [hpc EXCEPT ![h] = "record"]
             /\ sent' = [sent EXCEPT ![obj[h]] = Append(@, sel[obj[h]] + 1)]
             /\ saw' = [saw EXCEPT ![h] = <<Len(sent'[obj[h]]), sel[obj[h]] + 1>>]
    <3>1. sel[obj[h]] + 1 \in Nat /\ sent[obj[h]] \in Seq(Nat)
      BY <1>0, <2>1
    <3>2. /\ Append(sent[obj[h]], sel[obj[h]] + 1) \in Seq(Nat)
          /\ Len(Append(sent[obj[h]], sel[obj[h]] + 1)) = Len(sent[obj[h]]) + 1
      BY <3>1
    <3>3. /\ sent' \in [Prompts -> Seq(Nat)] /\ Len(sent'[obj[h]]) = Len(sent[obj[h]]) + 1
          /\ \A p \in Prompts : p # obj[h] => sent'[p] = sent[p]
      BY <1>0, <2>1, <2>3, <3>2
    <3>4. \A p \in Prompts : Len(sent[p]) \in Nat /\ Len(sent[p]) <= Len(sent'[p])
      <4>1. ASSUME NEW p \in Prompts PROVE Len(sent[p]) \in Nat
        BY <1>0
      <4>2. ASSUME NEW p \in Prompts PROVE Len(sent[p]) <= Len(sent'[p])
        <5>1. CASE p = obj[h]
          BY <3>3, <4>1, <5>1
        <5>2. CASE p # obj[h]
          BY <3>3, <4>1, <5>2
        <5>. QED  BY <5>1, <5>2
      <4>. QED  BY <4>1, <4>2
    <3>5. RecordKinds'
      BY <1>0, <2>1, <2>3, <3>3 DEF RecordKinds
    <3>6. obj[h] \in claimed /\ (lpc = "send" => hand # obj[h])
      <4>1. obj[h] \in claimed
        BY <2>1 DEF PromptsClaimed, Working
      <4>2. ASSUME lpc = "send" PROVE hand # obj[h]
        BY <2>1, <4>2 DEF Kinds, MessagesSent
      <4>. QED  BY <4>1, <4>2
    <3>7. \A p \in Prompts : msg'[p] <= Len(sent'[p])
      <4>1. \A p \in Prompts : msg[p] \in Nat /\ msg'[p] = msg[p] /\ Len(sent'[p]) \in Nat
        BY <1>0, <2>1, <3>3
      <4>. QED  BY <1>0, <3>4, <4>1
    <3>8. /\ \A p \in Prompts \ claimed : sent'[p] = << >>
          /\ lpc' = "send" => sent'[hand'] = << >>
          /\ lpc' = "install" => Len(sent'[hand']) > 0
      <4>1. MessagesSent /\ UNCHANGED <<lpc, hand, claimed>>
        BY <2>1 DEF Kinds, loop, broker
      <4>2. lpc \in {"send", "install"} => hand \in Prompts
        BY DEF LoopTypes
      <4>. QED  BY <3>3, <3>4, <3>6, <4>1, <4>2 DEF MessagesSent
    <3>9. \A d \in Chats : cur'[d] # None => ChatOf[cur'[d]] = d /\ Len(sent'[cur'[d]]) > 0
      BY <1>0, <2>1, <3>4, SMTT(60) DEF Kinds, MessagesSent
    <3>10. \A g \in Handlers : hpc'[g] \in Working => Len(sent'[obj'[g]]) > 0
      <4>1. \A g \in Handlers : hpc'[g] \in Working => hpc[g] \in Working
        BY <1>1, <2>1, <2>3 DEF Working
      <4>. QED  BY <2>1, <3>4, <4>1 DEF Kinds, MessagesSent, PromptsClaimed
    <3>11. MessagesSent'
      BY <2>1, <3>7, <3>8, <3>9, <3>10 DEF MessagesSent, broker
    <3>12. InHand(h)'
      <4>1. hpc'[h] = "record" /\ saw'[h] = <<Len(sent'[obj[h]]), sel[obj[h]] + 1>> /\ obj'[h] = obj[h]
        BY <1>0, <1>1, <2>1, <2>3
      <4>2. saw'[h][1] \in 1..Len(sent'[obj[h]]) /\ saw'[h][2] \in Nat
        BY <2>1, <3>1, <3>3, <4>1
      <4>. QED  BY <4>1, <4>2 DEF InHand
    <3>13. ASSUME NEW g \in Handlers, g # h PROVE InHand(g)'
      <4>1. /\ hpc'[g] = hpc[g] /\ obj'[g] = obj[g] /\ saw'[g] = saw[g] /\ InHand(g)
            /\ hpc[g] = "record" => obj[g] \in Prompts
        BY <1>0, <1>1, <2>1, <2>3, <3>13 DEF Kinds, PromptsClaimed, Working
      <4>. QED  BY <3>4, <4>1 DEF InHand
    <3>. QED  BY <3>5, <3>11, <3>12, <3>13
  <2>. QED  BY <1>8, <2>2, <2>3 DEF AskNext, HGoTo
<1>9. CASE Record(h)
  <2>1. /\ hpc[h] = "record" /\ obj[h] \in Prompts
        /\ saw[h][1] \in 1..Len(sent[obj[h]]) /\ saw[h][2] \in Nat
        /\ hpc' = [hpc EXCEPT ![h] = "idle"] /\ ev' = [ev EXCEPT ![h] = NoEvent]
        /\ obj' = [obj EXCEPT ![h] = None] /\ saw' = [saw EXCEPT ![h] = << >>]
        /\ msg' = [msg EXCEPT ![obj[h]] = saw[h][1]] /\ asked' = [asked EXCEPT ![obj[h]] = saw[h][2]]
        /\ UNCHANGED <<broker, loop, cur, sel, ans, sent>>
    BY <1>1, <1>9 DEF Record, Forget, HGoTo, Working, InHand
  <2>2. hpc'[h] = "idle" /\ NoEvent \in Events /\ ev' \in [Handlers -> Events] /\ DOMAIN saw' = Handlers
    BY <1>0, <1>1, <2>1 DEF NoEvent
  <2>3. InHand(h)' /\ hpc'[h] \notin Working
    BY <2>2 DEF InHand, Working
  <2>4. \A g \in Handlers : g # h => hpc'[g] = hpc[g] /\ obj'[g] = obj[g] /\ saw'[g] = saw[g]
    BY <1>0, <1>1, <2>1
  <2>5. saw[h][1] \in Nat /\ saw[h][1] <= Len(sent[obj[h]])
    BY <2>1
  <2>6. /\ msg' \in [Prompts -> Nat] /\ asked' \in [Prompts -> Nat]
        /\ \A p \in Prompts : msg'[p] <= Len(sent[p])
    BY <1>0, <2>1, <2>5
  <2>. QED  BY <1>0, <2>1, <2>2, <2>3, <2>4, <2>6, WorkKinds DEF broker
<1>10. CASE AskFails(h)
  <2>1. /\ hpc[h] = "ask" /\ Len(sent[obj[h]]) > 0 /\ Failure \in Answers
        /\ hpc' = [hpc EXCEPT ![h] = "finalize"] /\ saw' = [saw EXCEPT ![h] = Failure]
        /\ UNCHANGED <<broker, loop, cur, active, ev, obj>>
    BY <1>1, <1>10 DEF AskFails, HGoTo, Working, Failure, Answers
  <2>2. InHand(h)'
    BY <1>0, <1>1, <2>1 DEF InHand
  <2>3. /\ DOMAIN saw' = Handlers
        /\ \A g \in Handlers : g # h => hpc'[g] = hpc[g] /\ obj'[g] = obj[g] /\ saw'[g] = saw[g]
    BY <1>0, <1>1, <2>1
  <2>. QED  BY <1>0, <2>1, <2>2, <2>3, WorkKinds DEF broker, active
<1>11. CASE FreeChat(h) \/ ResolvePrompt(h)
  <2>1. /\ hpc[h] \in {"finalize", "resolve"} /\ Len(sent[obj[h]]) > 0 /\ saw[h] \in Answers
        /\ hpc' = [hpc EXCEPT ![h] = IF hpc[h] = "finalize" THEN "resolve" ELSE "wakeup"]
        /\ UNCHANGED <<claimed, loop, active, ev, obj, saw>>
    BY <1>1, <1>11 DEF FreeChat, ResolvePrompt, Resolve, HGoTo, Working, InHand, broker
  <2>2. \A d \in Chats : cur'[d] \in {cur[d], None}
    BY <1>11, ConnectorAssumption DEF FreeChat, ResolvePrompt, LoopTypes
  <2>3. InHand(h)'
    BY <1>0, <1>1, <2>1 DEF InHand
  <2>4. \A g \in Handlers : g # h => hpc'[g] = hpc[g] /\ obj'[g] = obj[g] /\ saw'[g] = saw[g]
    BY <1>1, <2>1
  <2>. QED  BY <1>0, <2>1, <2>2, <2>3, <2>4, WorkKinds DEF active
<1>. QED
  BY <1>3, <1>4, <1>5, <1>6, <1>7, <1>8, <1>9, <1>10, <1>11 DEF HandlerStep

LEMMA KindsStep ==
  ASSUME LoopTypes, PromptsClaimed, Kinds, [Next]_vars
  PROVE  Kinds'
<1>1. LoopKinds'
  BY LoopKindsStep
<1> DEFINE Rest == RecordKinds' /\ MessagesSent' /\ \A h \in Handlers : InHand(h)'
<1>2. ASSUME LoopStep PROVE Rest
  <2>1. ASSUME NEW p \in Prompts, Pick(p) PROVE Rest
    BY <2>1, QuietKinds DEF Pick, Waiting, LoopTypes
  <2>2. CASE CleanStaleCur
    <3>1. lpc' = "pick" /\ UNCHANGED <<active, handler>> /\ claimed' = claimed
      BY <2>2 DEF CleanStaleCur, broker
    <3>2. \A d \in Chats : cur'[d] \in {cur[d], None}
      BY <2>2 DEF CleanStaleCur
    <3>. QED  BY <3>1, <3>2, QuietKinds
  <2>3. CASE PickNone \/ SendFails \/ Wake \/ Unregister
    <3>1. lpc' \notin {"send", "install"} /\ UNCHANGED <<active, handler>> /\ claimed' = claimed
          /\ cur' = cur
      BY <2>3 DEF PickNone, SendFails, Wake, Unregister, Resolve, broker
    <3>. QED  BY <3>1, QuietKinds
  <2>4. CASE SendPrompt
    BY <2>4, SendKinds
  <2>5. CASE Install
    BY <2>5, InstallKinds
  <2>. QED  BY <1>2, <2>1, <2>2, <2>3, <2>4, <2>5 DEF LoopStep
<1>3. ASSUME NEW h \in Handlers, NEW p \in Prompts, NEW n \in DOMAIN sent[p], UserActs(h, p, n)
      PROVE  Rest
  <2>1. /\ hpc' = [hpc EXCEPT ![h] = "check"] /\ hpc \in [Handlers -> HandlerStates]
        /\ ev' = [ev EXCEPT ![h] = [prompt |-> p, q |-> sent[p][n],
                                    n |-> IF <<p, sent[p][n]>> \in Typed THEN 0 ELSE n]]
        /\ UNCHANGED <<broker, loop, cur, active, obj, saw>>
    BY <1>3 DEF UserActs, HGoTo, LoopTypes
  <2>2. /\ sel \in [Prompts -> Nat] /\ ans \in [Prompts -> Answers]
        /\ msg \in [Prompts -> Nat] /\ asked \in [Prompts -> Nat] /\ sent \in [Prompts -> Seq(Nat)]
        /\ DOMAIN saw = Handlers /\ \A q \in Prompts : msg[q] <= Len(sent[q])
    BY DEF Kinds, RecordKinds, MessagesSent
  <2>3. n \in Nat /\ sent[p][n] \in Nat
    BY <2>2, SMTT(60)
  <2>4. ev' \in [Handlers -> [prompt : Prompts \cup {None}, q : Nat, n : Nat]]
    BY <2>1, <2>3 DEF Kinds, RecordKinds
  <2>5. hpc'[h] = "check"
    BY <2>1
  <2>6. InHand(h)' /\ hpc'[h] \notin Working
    BY <2>5 DEF InHand, Working
  <2>7. \A g \in Handlers : g # h => hpc'[g] = hpc[g] /\ obj'[g] = obj[g] /\ saw'[g] = saw[g]
    BY <2>1
  <2>8. UNCHANGED <<claimed, loop, sent, sel, ans, msg, asked, saw, cur>>
    BY <2>1 DEF broker, active
  <2>. QED  BY <2>2, <2>4, <2>6, <2>7, <2>8, WorkKinds
<1>4. ASSUME \/ \E p \in Prompts : Raise(p) \/ CtxEnds(p) \/ AskReturns(p) \/ Drop(p)
             \/ Stop \/ UNCHANGED vars
      PROVE  Rest
  <2>1. UNCHANGED <<active, handler>> /\ UNCHANGED <<claimed, cur, lpc, hand>>
    BY <1>4 DEF Raise, CtxEnds, AskReturns, Drop, Stop, vars, broker, loop
  <2>. QED  BY <2>1, QuietKinds
<1>5. ASSUME NEW h \in Handlers, HandlerStep(h) PROVE Rest
  BY <1>5, HandlerKinds
<1>6. Rest
  BY <1>2, <1>3, <1>4, <1>5 DEF Next
<1>. QED  BY <1>1, <1>6 DEF Kinds

(* Types are kept for any number of prompts, chats, handlers and questions,   *)
(* also by users who double-tap and lookups that change their mind: a prompt  *)
(* is resolved at most once, and the message a listener expects an answer on  *)
(* is one it has sent.                                                        *)
THEOREM TypeCorrect == Spec => []TypeOK
<1>1. Init => Kinds
  <2> SUFFICES ASSUME Init PROVE Kinds
    OBVIOUS
  <2>1. LoopKinds
    <3>1. ctxDone = {} /\ told = [p \in Prompts |-> << >>]
      BY DEF Init
    <3>2. told \in [Prompts -> Seq(Answers)]
      BY <3>1
    <3>3. /\ notify = TRUE /\ wakeup = FALSE /\ stopped = FALSE /\ lpc = "clean" /\ hand = None
          /\ raised = {}
      BY DEF Init
    <3>. QED  BY <3>1, <3>2, <3>3 DEF LoopKinds
  <2>2. RecordKinds
    BY DEF Init, RecordKinds, NoEvent, Answers
  <2>3. MessagesSent
    BY DEF Init, MessagesSent, Working
  <2>4. \A h \in Handlers : InHand(h)
    BY DEF Init, InHand
  <2>. QED  BY <2>1, <2>2, <2>3, <2>4 DEF Kinds
<1>2. LoopTypes /\ PromptsClaimed /\ Kinds => TypeOK
  <2> SUFFICES ASSUME LoopTypes, PromptsClaimed, Kinds PROVE TypeOK
    OBVIOUS
  <2>1. /\ entries \subseteq raised /\ claimed \subseteq raised /\ ctxDone \subseteq raised
        /\ raised \subseteq Prompts /\ told \in [Prompts -> Seq(Seq(Prompts \X Nat))]
    BY DEF PromptsClaimed, Kinds, LoopKinds, Answers
  <2>2. ASSUME NEW p \in Prompts PROVE Len(told[p]) <= 1
    <3>1. told[p] = << >> \/ told[p] = <<told[p][1]>>
      BY DEF PromptsClaimed
    <3>2. CASE told[p] = << >>
      BY <3>2
    <3>3. CASE told[p] = <<told[p][1]>>
      <4>1. PICK t : t = told[p][1]
        OBVIOUS
      <4>2. told[p] = <<t>>
        BY <3>3, <4>1
      <4>. QED  BY <4>2
    <3>. QED  BY <3>1, <3>2, <3>3
  <2>3. ASSUME NEW p \in Prompts PROVE msg[p] \in {0} \cup DOMAIN sent[p]
    <3>1. msg[p] \in Nat /\ sent[p] \in Seq(Nat) /\ msg[p] <= Len(sent[p])
      BY DEF Kinds, RecordKinds, MessagesSent
    <3>2. DOMAIN sent[p] = 1..Len(sent[p]) /\ Len(sent[p]) \in Nat
      BY <3>1
    <3>. QED  BY <3>1, <3>2
  <2>4. \A c \in Chats : cur[c] # None => ChatOf[cur[c]] = c
    BY DEF Kinds, MessagesSent
  <2>5. /\ notify \in BOOLEAN /\ wakeup \in BOOLEAN /\ stopped \in BOOLEAN
        /\ lpc \in {"clean", "pick", "send", "install", "sleep", "off"}
        /\ lpc \in {"send", "install"} <=> hand # None
    BY DEF Kinds, LoopKinds
  <2>6. /\ sel \in [Prompts -> Nat] /\ ans \in [Prompts -> Seq(Prompts \X Nat)]
        /\ msg \in [Prompts -> Nat] /\ asked \in [Prompts -> Nat]
        /\ sent \in [Prompts -> Seq(Nat)]
        /\ ev \in [Handlers -> [prompt : Prompts \cup {None}, q : Nat, n : Nat]]
    BY DEF Kinds, RecordKinds, Answers
  <2>7. /\ hand \in Prompts \cup {None} /\ cur \in [Chats -> Prompts \cup {None}]
        /\ hpc \in [Handlers -> HandlerStates] /\ obj \in [Handlers -> Prompts \cup {None}]
    BY DEF LoopTypes, PromptsClaimed
  <2>. QED  BY <2>1, <2>2, <2>3, <2>4, <2>5, <2>6, <2>7 DEF TypeOK
<1>3. LoopTypes /\ PromptsClaimed /\ Kinds /\ [Next]_vars => (LoopTypes /\ PromptsClaimed /\ Kinds)'
  BY NextLoopTypes, ClaimedStep, KindsStep
<1>. QED  BY InitLoopTypes, InitClaimed, <1>1, <1>2, <1>3, PTL DEF Spec

=============================================================================
