------------------------- MODULE PendingBrokerProofs -------------------------
(* Proofs about PendingBroker, for any number of requests, listeners and      *)
(* resolutions.                                                               *)
EXTENDS PendingBroker, TLAPS

USE BrokerAssumption DEF BrokerAssumption

-----------------------------------------------------------------------------
(* The inductive invariant *)

HeldIsClaimed ==
    \A l \in Listeners : hand[l] \subseteq claimed /\ shown[l] \subseteq claimed

AnswersAreForClaimed ==
    /\ \A m \in inflight : m.req \in claimed
    /\ \A r \in Requests : replyCh[r] # << >> => r \in claimed

(* Nothing has happened to a request before Insert. *)
NothingBeforeInsert ==
    \A r \in Requests : asker[r] \in {"new", "stamped"} =>
        /\ r \notin entries \cup claimed \cup dropped \cup ctxDone
        /\ \A m \in inflight : m.req # r
        /\ received[r] = << >> /\ replyCh[r] = << >>

(* Where the requester of an entry stands. *)
EntryLife ==
    \A r \in Requests :
        /\ asker[r] \in {"waiting", "leaving"} => r \notin Async
        /\ r \in entries /\ r \notin Async => asker[r] # "returned"
        /\ asker[r] = "leaving" => r \in ctxDone \cup claimed

(* An asynchronous request passes from the map to one delivery to one         *)
(* received reply, and leaves that path for good when it is dropped.          *)
AsyncOnce ==
    \A r \in Async :
        /\ r \in entries => /\ r \notin dropped
                            /\ \A m \in inflight : m.req # r
        /\ r \in entries \cup dropped => received[r] = << >>
        /\ r \in dropped => \A m \in inflight : m.req # r
        /\ \A m \in inflight : m.req = r => received[r] = << >>
        /\ \A m, n \in inflight : m.req = r /\ n.req = r => m = n

SyncOnce ==
    \A r \in Requests \ Async :
        asker[r] \in {"inserted", "waiting"} => received[r] = << >>

RunningAreRegistered ==
    \A l \in Listeners : lpc[l] \in {"scan", "showing", "sleep"} => l \in listening

IInv ==
    /\ TypeOK
    /\ HeldIsClaimed
    /\ ClaimExclusive
    /\ AnswersAreForClaimed
    /\ NothingBeforeInsert
    /\ EntryLife
    /\ AsyncOnce
    /\ SyncOnce
    /\ AnsweredOnceOrDropped
    /\ RunningAreRegistered
    /\ NoLostWakeup

-----------------------------------------------------------------------------
(* Type correctness *)

LEMMA ResolveTypes ==
    ASSUME TypeOK, NEW r \in Requests, NEW v \in Replies, ResolveLookup(r, v)
    PROVE  /\ entries' \subseteq Requests /\ inflight' \subseteq Message
           /\ resolves' \in [Requests -> 0..MaxResolves]
           /\ claimed' = claimed /\ dropped' = dropped
<1>1. CASE r \notin entries
  BY <1>1 DEF ResolveLookup, TypeOK, resolver
<1>2. CASE r \in entries
  <2>1. resolves[r] \in Nat /\ resolves[r] + 1 \in 1..MaxResolves
    BY <1>2 DEF ResolveLookup, TypeOK
  <2>2. [req |-> r, nth |-> resolves[r] + 1, reply |-> v] \in Message
    BY <2>1 DEF Message
  <2>3. inflight' \subseteq Message
    BY <1>2, <2>2 DEF ResolveLookup, TypeOK
  <2>4. resolves' \in [Requests -> 0..MaxResolves]
    <3>1. resolves' = [resolves EXCEPT ![r] = resolves[r] + 1]
      BY <1>2 DEF ResolveLookup
    <3>2. resolves \in [Requests -> 0..MaxResolves] /\ resolves[r] + 1 \in 0..MaxResolves
      BY <2>1, SMTT(60) DEF TypeOK
    <3>3. QED BY <3>1, <3>2
  <2>5. QED BY <1>2, <2>3, <2>4 DEF ResolveLookup, TypeOK
<1>3. QED BY <1>1, <1>2

LEMMA InitTypeOK == Init => TypeOK
  BY DEF Init, TypeOK, AskerStates, ListenerStates, Replies

LEMMA NextTypeOK == TypeOK /\ [Next]_vars => TypeOK'
<1> SUFFICES ASSUME TypeOK, [Next]_vars PROVE TypeOK'
  OBVIOUS
<1> USE DEF TypeOK, AskerStates, ListenerStates, GoTo, Step
<1>1. ASSUME NEW r \in Requests, Stamp(r) PROVE TypeOK'
  BY <1>1, SMTT(60) DEF Stamp, registry, resolver, listener
<1>2. ASSUME NEW r \in Requests, Insert(r) PROVE TypeOK'
  BY <1>2 DEF Insert, registry, resolver, listener
<1>3. ASSUME NEW r \in Requests, SignalFor(r) PROVE TypeOK'
  BY <1>3 DEF SignalFor, registry, resolver, listener
<1>4. ASSUME NEW r \in Requests, TakeReply(r) PROVE TypeOK'
  <2>1. replyCh[r] \in Seq(Replies) /\ received[r] \in Seq(Replies) /\ replyCh[r] # << >>
    BY <1>4 DEF TakeReply
  <2>2. /\ Head(replyCh[r]) \in Replies /\ Tail(replyCh[r]) \in Seq(Replies)
        /\ Len(Tail(replyCh[r])) <= 1
        /\ Append(received[r], Head(replyCh[r])) \in Seq(Replies)
    BY <2>1
  <2>3. /\ replyCh' = [replyCh EXCEPT ![r] = Tail(replyCh[r])]
        /\ received' = [received EXCEPT ![r] = Append(received[r], Head(replyCh[r]))]
    BY <1>4 DEF TakeReply
  <2>4. /\ replyCh' \in [Requests -> Seq(Replies)] /\ received' \in [Requests -> Seq(Replies)]
        /\ \A q \in Requests : Len(replyCh'[q]) <= 1
    BY <2>2, <2>3
  <2>5. QED BY <1>4, <2>4 DEF TakeReply, registry, resolver, listener
<1>5. ASSUME NEW r \in Requests, TakeCtxDone(r) PROVE TypeOK'
  BY <1>5 DEF TakeCtxDone, registry, resolver, listener
<1>6. ASSUME NEW r \in Requests, Leave(r) PROVE TypeOK'
  BY <1>6 DEF Leave, registry, resolver, listener
<1>7. ASSUME NEW r \in Requests, CtxEnds(r) PROVE TypeOK'
  BY <1>7, SMTT(60) DEF CtxEnds, registry, resolver, listener
<1>8. ASSUME NEW t \in Tasks, DropTask(t) PROVE TypeOK'
  BY <1>8 DEF DropTask, requester, resolver, listener
<1>9. ASSUME NEW m \in inflight, Deliver(m) PROVE TypeOK'
  <2>1. m \in Message /\ m.req \in Requests /\ m.reply \in Replies
    BY DEF Message
  <2>2. /\ <<m.reply>> \in Seq(Replies) /\ Len(<<m.reply>>) <= 1
        /\ Append(received[m.req], m.reply) \in Seq(Replies)
    BY <2>1
  <2>3. CASE m.req \in Async
    <3>1. /\ received' = [received EXCEPT ![m.req] = Append(received[m.req], m.reply)]
          /\ replyCh' = replyCh
      BY <1>9, <2>3 DEF Deliver
    <3>2. received' \in [Requests -> Seq(Replies)]
      BY <2>1, <2>2, <3>1
    <3>3. QED BY <1>9, <2>3, <3>1, <3>2 DEF Deliver, registry, listener
  <2>4. CASE m.req \notin Async
    <3>1. replyCh' = [replyCh EXCEPT ![m.req] = IF replyCh[m.req] = << >> THEN <<m.reply>>
                                                ELSE replyCh[m.req]]
      BY <1>9, <2>4 DEF Deliver
    <3>2. PICK c \in Seq(Replies) : Len(c) <= 1 /\ replyCh' = [replyCh EXCEPT ![m.req] = c]
      <4>1. CASE replyCh[m.req] = << >>
        <5>1. replyCh' = [replyCh EXCEPT ![m.req] = <<m.reply>>]
          BY <3>1, <4>1
        <5>2. QED BY <2>2, <5>1, Zenon
      <4>2. CASE replyCh[m.req] # << >>
        <5>1. replyCh' = [replyCh EXCEPT ![m.req] = replyCh[m.req]]
          BY <3>1, <4>2
        <5>2. replyCh[m.req] \in Seq(Replies) /\ Len(replyCh[m.req]) <= 1
          BY <2>1
        <5>3. QED BY <5>1, <5>2
      <4>3. QED BY <4>1, <4>2
    <3>3. /\ replyCh' \in [Requests -> Seq(Replies)]
          /\ \A q \in Requests : Len(replyCh'[q]) <= 1
      BY <3>2
    <3>4. QED BY <1>9, <2>4, <3>3 DEF Deliver, registry, listener
  <2>5. QED BY <2>3, <2>4
<1>10. ASSUME NEW l \in Listeners, Register(l) PROVE TypeOK'
  BY <1>10 DEF Register, registry, requester, resolver
<1>11. ASSUME NEW l \in Listeners, NEW r \in Requests, PickNextMatch(l, r) PROVE TypeOK'
  BY <1>11, SMTT(60) DEF PickNextMatch, requester, resolver
<1>12. ASSUME NEW l \in Listeners, PickNone(l) PROVE TypeOK'
  BY <1>12 DEF PickNone, registry, requester, resolver
<1>13. ASSUME NEW l \in Listeners, Show(l) PROVE TypeOK'
  BY <1>13 DEF Show, registry, requester, resolver
<1>14. ASSUME NEW l \in Listeners, FailToShow(l) PROVE TypeOK'
  <2>1. PICK r \in Requests : ResolveLookup(r, Failure)
    BY <1>14 DEF FailToShow
  <2>2. QED BY <1>14, <2>1, ResolveTypes DEF FailToShow, requester, Replies
<1>15. ASSUME NEW l \in Listeners, NEW r \in Requests, NEW v \in UserReplies,
              UserAnswers(l, r, v)
       PROVE TypeOK'
  BY <1>15, ResolveTypes DEF UserAnswers, requester, listener, Replies
<1>16. ASSUME NEW l \in Listeners, Wake(l) PROVE TypeOK'
  BY <1>16 DEF Wake, registry, requester, resolver
<1>17. ASSUME NEW l \in Listeners, Stop(l) PROVE TypeOK'
  BY <1>17 DEF Stop, registry, requester, resolver
<1>18. ASSUME NEW l \in Listeners, Unregister(l) PROVE TypeOK'
  BY <1>18 DEF Unregister, registry, requester, resolver
<1>19. ASSUME UNCHANGED vars PROVE TypeOK'
  BY <1>19 DEF vars, registry, requester, resolver, listener
<1>20. QED
  BY <1>1, <1>2, <1>3, <1>4, <1>5, <1>6, <1>7, <1>8, <1>9, <1>10, <1>11, <1>12,
     <1>13, <1>14, <1>15, <1>16, <1>17, <1>18, <1>19
  DEF Next, RequesterStep, ListenerStep, Environment

(* Every reachable state is well typed; a reply channel never overflows.      *)
THEOREM TypeCorrect == Spec => []TypeOK
  BY InitTypeOK, NextTypeOK, PTL DEF Spec

-----------------------------------------------------------------------------
(* What one Resolve does to the map and to the deliveries under way: nothing, *)
(* or one more delivery for the request it names.                             *)
LEMMA ResolveEffect ==
    ASSUME TypeOK, NEW r \in Requests, NEW v \in Replies, ResolveLookup(r, v)
    PROVE  /\ claimed' = claimed /\ dropped' = dropped
           /\ \/ entries' = entries /\ inflight' = inflight
              \/ /\ r \in entries
                 /\ entries' = entries \ (Async \cap {r})
                 /\ \E m \in Message : m.req = r /\ inflight' = inflight \cup {m}
<1>1. CASE r \notin entries
  BY <1>1 DEF ResolveLookup, resolver
<1>2. CASE r \in entries
  <2> DEFINE m == [req |-> r, nth |-> resolves[r] + 1, reply |-> v]
  <2>1. resolves[r] + 1 \in 1..MaxResolves
    BY <1>2, SMTT(60) DEF ResolveLookup, TypeOK
  <2>2. m \in Message /\ m.req = r
    BY <2>1 DEF Message
  <2>3. inflight' = inflight \cup {m} /\ entries' = entries \ (Async \cap {r})
        /\ claimed' = claimed /\ dropped' = dropped
    BY <1>2 DEF ResolveLookup
  <2> HIDE DEF m
  <2>4. QED BY <1>2, <2>2, <2>3
<1>3. QED BY <1>1, <1>2

ClaimInv == HeldIsClaimed /\ ClaimExclusive /\ AnswersAreForClaimed

LEMMA ClaimStep == TypeOK /\ ClaimInv /\ [Next]_vars => ClaimInv'
<1> SUFFICES ASSUME TypeOK, ClaimInv, [Next]_vars PROVE ClaimInv'
  OBVIOUS
<1> USE DEF ClaimInv, HeldIsClaimed, ClaimExclusive, Held, AnswersAreForClaimed
<1>0. ASSUME claimed' = claimed, inflight' = inflight, replyCh' = replyCh,
             hand' = hand, shown' = shown
      PROVE ClaimInv'
  BY <1>0
<1>1. ASSUME NEW r \in Requests, TakeReply(r) PROVE ClaimInv'
  <2>1. /\ replyCh' = [replyCh EXCEPT ![r] = Tail(@)] /\ replyCh[r] # << >>
        /\ UNCHANGED <<claimed, inflight, hand, shown>>
    BY <1>1 DEF TakeReply, registry, resolver, listener
  <2>2. QED BY <2>1 DEF TypeOK
<1>2. ASSUME NEW m \in inflight, Deliver(m) PROVE ClaimInv'
  <2>1. m.req \in claimed
    OBVIOUS
  <2>2. /\ inflight' = inflight \ {m} /\ UNCHANGED <<claimed, hand, shown>>
        /\ \A q \in Requests : q # m.req => replyCh'[q] = replyCh[q]
    BY <1>2, ZenonT(60) DEF Deliver, registry, listener, TypeOK
  <2>3. QED BY <2>1, <2>2
<1>3. ASSUME NEW l \in Listeners, NEW r \in Requests, PickNextMatch(l, r) PROVE ClaimInv'
  <2>1. /\ r \notin claimed /\ claimed' = claimed \cup {r}
        /\ hand' = [hand EXCEPT ![l] = {r}]
        /\ UNCHANGED <<inflight, replyCh, shown>>
    BY <1>3 DEF PickNextMatch, Candidates, requester, resolver
  <2>2. QED BY <2>1 DEF TypeOK
<1>4. ASSUME NEW l \in Listeners, Show(l) PROVE ClaimInv'
  <2>1. /\ shown' = [shown EXCEPT ![l] = shown[l] \cup hand[l]]
        /\ hand' = [hand EXCEPT ![l] = {}]
        /\ UNCHANGED <<claimed, inflight, replyCh>>
    BY <1>4 DEF Show, registry, requester, resolver
  <2>2. QED BY <2>1 DEF TypeOK
<1>5. ASSUME NEW l \in Listeners, FailToShow(l) PROVE ClaimInv'
  <2>1. PICK r \in hand[l] : ResolveLookup(r, Failure)
    BY <1>5 DEF FailToShow
  <2>2. r \in Requests /\ r \in claimed /\ Failure \in Replies
    BY DEF TypeOK, Replies
  <2>3. /\ claimed' = claimed
        /\ \A n \in inflight' : n \in inflight \/ n.req = r
    BY <2>1, <2>2, ResolveEffect
  <2>4. /\ hand' = [hand EXCEPT ![l] = {}] /\ UNCHANGED <<replyCh, shown>>
    BY <1>5 DEF FailToShow, requester
  <2>5. QED BY <2>2, <2>3, <2>4 DEF TypeOK
<1>6. ASSUME NEW l \in Listeners, NEW r \in Requests, NEW v \in UserReplies,
             UserAnswers(l, r, v)
      PROVE ClaimInv'
  <2>1. r \in claimed /\ v \in Replies /\ ResolveLookup(r, v)
    BY <1>6 DEF UserAnswers, Replies
  <2>2. /\ claimed' = claimed
        /\ \A n \in inflight' : n \in inflight \/ n.req = r
    BY <2>1, ResolveEffect
  <2>3. UNCHANGED <<replyCh, hand, shown>>
    BY <1>6 DEF UserAnswers, requester, listener
  <2>4. QED BY <2>1, <2>2, <2>3
<1>7. CASE \/ \E r \in Requests : \/ Stamp(r) \/ Insert(r) \/ SignalFor(r)
                                   \/ TakeCtxDone(r) \/ Leave(r) \/ CtxEnds(r)
           \/ \E t \in Tasks : DropTask(t)
           \/ \E l \in Listeners : \/ Register(l) \/ PickNone(l) \/ Wake(l)
                                    \/ Stop(l) \/ Unregister(l)
           \/ UNCHANGED vars
  <2>1. UNCHANGED <<claimed, inflight, replyCh, hand, shown>>
    BY <1>7 DEF Stamp, Insert, SignalFor, TakeCtxDone, Leave, CtxEnds, DropTask, Register,
       PickNone, Wake, Stop, Unregister, vars, registry, requester, resolver, listener
  <2>2. QED BY <1>0, <2>1
<1>8. QED
  BY <1>1, <1>2, <1>3, <1>4, <1>5, <1>6, <1>7
  DEF Next, RequesterStep, ListenerStep, Environment

LEMMA InitClaimInv == Init => ClaimInv
  BY DEF Init, ClaimInv, HeldIsClaimed, ClaimExclusive, Held, AnswersAreForClaimed

(* No prompt is ever put before two listeners.                                *)
THEOREM ClaimedByOne == Spec => []ClaimExclusive
<1>1. TypeOK /\ ClaimInv /\ [Next]_vars => TypeOK' /\ ClaimInv'
  BY NextTypeOK, ClaimStep
<1>2. ClaimInv => ClaimExclusive
  BY DEF ClaimInv
<1>3. QED BY InitTypeOK, InitClaimInv, <1>1, <1>2, PTL DEF Spec

-----------------------------------------------------------------------------
(* One reply at most *)

OnceInv ==
    NothingBeforeInsert /\ EntryLife /\ AsyncOnce /\ SyncOnce /\ AnsweredOnceOrDropped

LEMMA InitOnceInv == Init => OnceInv
  BY DEF Init, OnceInv, NothingBeforeInsert, EntryLife, AsyncOnce, SyncOnce,
     AnsweredOnceOrDropped

(* A Resolve keeps OnceInv: the only request it touches is in the map, so     *)
(* nothing was delivered for it yet if it is asynchronous.                    *)
LEMMA ResolveOnce ==
    ASSUME TypeOK, OnceInv, NEW r \in Requests, NEW v \in Replies, ResolveLookup(r, v),
           UNCHANGED <<asker, ctxDone, replyCh, received>>
    PROVE  OnceInv'
<1> USE DEF OnceInv, NothingBeforeInsert, EntryLife, AsyncOnce, SyncOnce,
            AnsweredOnceOrDropped
<1>1. claimed' = claimed /\ dropped' = dropped
  BY ResolveEffect
<1>2. CASE entries' = entries /\ inflight' = inflight
  BY <1>1, <1>2
<1>3. CASE r \in entries /\ \E m \in Message : m.req = r /\ inflight' = inflight \cup {m}
  <2>1. PICK m \in Message : m.req = r /\ inflight' = inflight \cup {m}
    BY <1>3
  <2>2. entries' \subseteq entries /\ (r \in Async => r \notin entries')
    BY <1>3, ResolveEffect DEF ResolveLookup
  <2>3. r \in Async => /\ r \notin dropped /\ received[r] = << >>
                       /\ \A n \in inflight : n.req # r
    BY <1>3
  <2>4. asker[r] \notin {"new", "stamped"}
    BY <1>3
  <2>5. NothingBeforeInsert'
    BY <1>1, <2>1, <2>2, <2>4
  <2>6. EntryLife'
    BY <1>1, <2>2
  <2>7. AsyncOnce'
    BY <1>1, <2>1, <2>2, <2>3
  <2>8. SyncOnce' /\ AnsweredOnceOrDropped'
    BY <1>1, SMTT(60)
  <2>9. QED BY <2>5, <2>6, <2>7, <2>8
<1>4. QED BY <1>2, <1>3, ResolveEffect

LEMMA OnceStep == TypeOK /\ ClaimInv /\ OnceInv /\ [Next]_vars => OnceInv'
<1> SUFFICES ASSUME TypeOK, ClaimInv, OnceInv, [Next]_vars PROVE OnceInv'
  OBVIOUS
<1> USE DEF OnceInv, NothingBeforeInsert, EntryLife, AsyncOnce, SyncOnce,
            AnsweredOnceOrDropped
<1>1. ASSUME NEW r \in Requests, Stamp(r) PROVE OnceInv'
  <2>1. /\ asker[r] = "new" /\ asker' = [asker EXCEPT ![r] = "stamped"]
        /\ UNCHANGED <<entries, claimed, dropped, ctxDone, replyCh, received, inflight>>
    BY <1>1 DEF Stamp, GoTo, registry, resolver
  <2>2. QED BY <2>1, SMTT(60) DEF TypeOK
<1>2. ASSUME NEW r \in Requests, Insert(r) PROVE OnceInv'
  <2>1. /\ asker[r] = "stamped" /\ asker' = [asker EXCEPT ![r] = "inserted"]
        /\ entries' = entries \cup {r}
        /\ UNCHANGED <<claimed, dropped, ctxDone, replyCh, received, inflight>>
    BY <1>2 DEF Insert, GoTo, resolver
  <2>2. QED BY <2>1 DEF TypeOK
<1>3. ASSUME NEW r \in Requests, SignalFor(r) PROVE OnceInv'
  <2>1. /\ asker[r] = "inserted"
        /\ asker' = [asker EXCEPT ![r] = IF r \in Async THEN "returned" ELSE "waiting"]
        /\ UNCHANGED <<entries, claimed, dropped, ctxDone, replyCh, received, inflight>>
    BY <1>3 DEF SignalFor, GoTo, registry, resolver
  <2>2. QED BY <2>1, SMTT(60) DEF TypeOK
<1>4. ASSUME NEW r \in Requests, TakeReply(r) PROVE OnceInv'
  <2>1. /\ asker[r] = "waiting" /\ asker' = [asker EXCEPT ![r] = "leaving"]
        /\ replyCh[r] # << >> /\ replyCh' = [replyCh EXCEPT ![r] = Tail(replyCh[r])]
        /\ received' = [received EXCEPT ![r] = Append(received[r], Head(replyCh[r]))]
        /\ UNCHANGED <<entries, claimed, dropped, ctxDone, inflight>>
    BY <1>4 DEF TakeReply, GoTo, registry, resolver
  <2>2. r \notin Async /\ r \in claimed /\ received[r] = << >>
    BY <2>1 DEF ClaimInv, AnswersAreForClaimed
  <2>3. Len(Append(<< >>, Head(replyCh[r]))) = 1
    OBVIOUS
  <2>4. QED BY <2>1, <2>2, <2>3, SMTT(60) DEF TypeOK
<1>5. ASSUME NEW r \in Requests, TakeCtxDone(r) PROVE OnceInv'
  <2>1. /\ asker[r] = "waiting" /\ asker' = [asker EXCEPT ![r] = "leaving"] /\ r \in ctxDone
        /\ UNCHANGED <<entries, claimed, dropped, ctxDone, replyCh, received, inflight>>
    BY <1>5 DEF TakeCtxDone, GoTo, registry, resolver
  <2>2. QED BY <2>1, SMTT(60) DEF TypeOK
<1>6. ASSUME NEW r \in Requests, Leave(r) PROVE OnceInv'
  <2>1. /\ asker[r] = "leaving" /\ asker' = [asker EXCEPT ![r] = "returned"]
        /\ entries' = entries \ {r}
        /\ UNCHANGED <<claimed, dropped, ctxDone, replyCh, received, inflight>>
    BY <1>6 DEF Leave, GoTo, resolver
  <2>2. QED BY <2>1, SMTT(60) DEF TypeOK
<1>7. ASSUME NEW r \in Requests, CtxEnds(r) PROVE OnceInv'
  <2>1. /\ asker[r] \in {"inserted", "waiting"} /\ ctxDone' = ctxDone \cup {r}
        /\ UNCHANGED <<asker, entries, claimed, dropped, replyCh, received, inflight>>
    BY <1>7 DEF CtxEnds, registry, resolver
  <2>2. QED BY <2>1
<1>8. ASSUME NEW t \in Tasks, DropTask(t) PROVE OnceInv'
  <2>1. PICK gone \in SUBSET entries :
           entries' = entries \ gone /\ dropped' = dropped \cup gone
    BY <1>8 DEF DropTask
  <2>2. UNCHANGED <<asker, claimed, ctxDone, replyCh, received, inflight>>
    BY <1>8 DEF DropTask, requester, resolver
  <2>3. QED BY <2>1, <2>2
<1>9. ASSUME NEW m \in inflight, Deliver(m) PROVE OnceInv'
  <2>1. m.req \in Requests /\ inflight' = inflight \ {m}
        /\ UNCHANGED <<entries, claimed, dropped, asker, ctxDone>>
    BY <1>9 DEF Deliver, registry, TypeOK, Message
  <2>2. CASE m.req \in Async
    <3>1. received' = [received EXCEPT ![m.req] = Append(received[m.req], m.reply)]
          /\ replyCh' = replyCh
      BY <1>9, <2>2 DEF Deliver
    <3>2. received[m.req] = << >> /\ Len(Append(<< >>, m.reply)) = 1
      BY <2>1, <2>2
    <3>3. QED BY <2>1, <2>2, <3>1, <3>2, SMTT(60) DEF TypeOK
  <2>3. CASE m.req \notin Async
    <3>1. received' = received /\ \A q \in Requests : q # m.req => replyCh'[q] = replyCh[q]
      BY <1>9, <2>1, <2>3 DEF Deliver, TypeOK
    <3>2. QED BY <2>1, <2>3, <3>1
  <2>4. QED BY <2>2, <2>3
<1>10. ASSUME NEW l \in Listeners, NEW r \in Requests, PickNextMatch(l, r) PROVE OnceInv'
  <2>1. /\ r \in entries /\ claimed' = claimed \cup {r}
        /\ UNCHANGED <<asker, entries, dropped, ctxDone, replyCh, received, inflight>>
    BY <1>10 DEF PickNextMatch, Candidates, requester, resolver
  <2>2. QED BY <2>1
<1>11. ASSUME NEW l \in Listeners, FailToShow(l) PROVE OnceInv'
  <2>1. PICK r \in hand[l] : ResolveLookup(r, Failure)
    BY <1>11 DEF FailToShow
  <2>2. r \in Requests /\ Failure \in Replies
    BY DEF TypeOK, Replies
  <2>3. UNCHANGED <<asker, ctxDone, replyCh, received>>
    BY <1>11 DEF FailToShow, requester
  <2>4. QED BY <2>1, <2>2, <2>3, ResolveOnce
<1>12. ASSUME NEW l \in Listeners, NEW r \in Requests, NEW v \in UserReplies,
              UserAnswers(l, r, v)
       PROVE OnceInv'
  <2>1. v \in Replies /\ ResolveLookup(r, v) /\ UNCHANGED <<asker, ctxDone, replyCh, received>>
    BY <1>12 DEF UserAnswers, Replies, requester
  <2>2. QED BY <2>1, ResolveOnce
<1>13. CASE \/ \E l \in Listeners : \/ Register(l) \/ PickNone(l) \/ Show(l) \/ Wake(l)
                                    \/ Stop(l) \/ Unregister(l)
            \/ UNCHANGED vars
  <2>1. UNCHANGED <<asker, entries, claimed, dropped, ctxDone, replyCh, received, inflight>>
    BY <1>13 DEF Register, PickNone, Show, Wake, Stop, Unregister, vars, registry,
       requester, resolver
  <2>2. QED BY <2>1
<1>14. QED
  BY <1>1, <1>2, <1>3, <1>4, <1>5, <1>6, <1>7, <1>8, <1>9, <1>10, <1>11, <1>12, <1>13
  DEF Next, RequesterStep, ListenerStep, Environment

(* A requester is told at most one reply, and none after its ask_user was     *)
(* dropped, however the resolutions interleave.                               *)
THEOREM AnsweredOnce == Spec => []AnsweredOnceOrDropped
<1>1. TypeOK /\ ClaimInv /\ OnceInv /\ [Next]_vars => TypeOK' /\ ClaimInv' /\ OnceInv'
  BY NextTypeOK, ClaimStep, OnceStep
<1>2. OnceInv => AnsweredOnceOrDropped
  BY DEF OnceInv
<1>3. QED BY InitTypeOK, InitClaimInv, InitOnceInv, <1>1, <1>2, PTL DEF Spec

-----------------------------------------------------------------------------
(* No lost wakeup *)

WakeInv == RunningAreRegistered /\ NoLostWakeup

LEMMA WakeStep == TypeOK /\ OnceInv /\ WakeInv /\ [Next]_vars => WakeInv'
<1> SUFFICES ASSUME TypeOK, OnceInv, WakeInv, [Next]_vars PROVE WakeInv'
  OBVIOUS
<1> USE DEF WakeInv, RunningAreRegistered, NoLostWakeup, Candidates
<1>0. ASSUME entries' \subseteq entries, claimed \subseteq claimed', ctxDone \subseteq ctxDone',
             \A q \in Requests : asker[q] = "inserted" => asker'[q] = "inserted",
             UNCHANGED <<listening, notify, lpc>>
      PROVE WakeInv'
  BY <1>0
<1>1. ASSUME NEW r \in Requests, Insert(r) PROVE WakeInv'
  <2>1. /\ asker' = [asker EXCEPT ![r] = "inserted"] /\ entries' = entries \cup {r}
        /\ UNCHANGED <<claimed, ctxDone, listening, notify, lpc>>
    BY <1>1 DEF Insert, GoTo, listener
  <2>2. QED BY <2>1 DEF TypeOK
<1>2. ASSUME NEW r \in Requests, SignalFor(r) PROVE WakeInv'
  <2>1. /\ \A q \in Requests : q # r => asker'[q] = asker[q]
        /\ notify' = notify \cup {l \in listening : r \in Prefixed[l]}
        /\ UNCHANGED <<entries, claimed, ctxDone, listening, lpc>>
    BY <1>2 DEF SignalFor, GoTo, registry, TypeOK
  <2>2. QED BY <2>1
<1>3. ASSUME NEW r \in Requests,
             Stamp(r) \/ TakeReply(r) \/ TakeCtxDone(r) \/ Leave(r) \/ CtxEnds(r)
      PROVE WakeInv'
  <2>1. /\ \A q \in Requests : asker[q] = "inserted" => asker'[q] = "inserted"
        /\ claimed' = claimed /\ ctxDone \subseteq ctxDone' /\ entries' \subseteq entries
        /\ UNCHANGED <<listening, notify, lpc>>
    BY <1>3, SMTT(60) DEF Stamp, TakeReply, TakeCtxDone, Leave, CtxEnds, GoTo, registry, listener,
       TypeOK
  <2>2. QED BY <1>0, <2>1
<1>4. CASE (\E t \in Tasks : DropTask(t)) \/ (\E m \in inflight : Deliver(m))
           \/ UNCHANGED vars
  <2>1. /\ entries' \subseteq entries
        /\ UNCHANGED <<claimed, ctxDone, asker, listening, notify, lpc>>
    BY <1>4 DEF DropTask, Deliver, vars, registry, requester, listener
  <2>2. QED BY <1>0, <2>1
<1>5. ASSUME NEW l \in Listeners, Register(l) \/ Wake(l) PROVE WakeInv'
  <2>1. /\ lpc' = [lpc EXCEPT ![l] = "scan"] /\ l \in listening'
        /\ \A k \in Listeners : k # l => (k \in listening' <=> k \in listening)
                                        /\ (k \in notify' <=> k \in notify)
        /\ UNCHANGED <<entries, claimed, ctxDone, asker>>
    BY <1>5 DEF Register, Wake, Step, registry, requester
  <2>2. QED BY <2>1 DEF TypeOK
<1>6. ASSUME NEW l \in Listeners, NEW r \in Requests, PickNextMatch(l, r) PROVE WakeInv'
  <2>1. /\ claimed \subseteq claimed' /\ lpc[l] = "scan" /\ lpc' = [lpc EXCEPT ![l] = "showing"]
        /\ UNCHANGED <<entries, ctxDone, asker, listening, notify>>
    BY <1>6 DEF PickNextMatch, Step, requester
  <2>2. QED BY <2>1 DEF TypeOK
<1>7. ASSUME NEW l \in Listeners, PickNone(l) PROVE WakeInv'
  <2>1. /\ Candidates(l) = {} /\ lpc[l] = "scan" /\ lpc' = [lpc EXCEPT ![l] = "sleep"]
        /\ UNCHANGED <<entries, claimed, ctxDone, asker, listening, notify>>
    BY <1>7 DEF PickNone, Step, registry, requester
  <2>2. QED BY <2>1 DEF TypeOK
<1>8. ASSUME NEW l \in Listeners, Show(l) PROVE WakeInv'
  <2>1. /\ lpc[l] = "showing" /\ lpc' = [lpc EXCEPT ![l] = "scan"]
        /\ UNCHANGED <<entries, claimed, ctxDone, asker, listening, notify>>
    BY <1>8 DEF Show, Step, registry, requester
  <2>2. QED BY <2>1 DEF TypeOK
<1>9. ASSUME NEW l \in Listeners, FailToShow(l) PROVE WakeInv'
  <2>1. PICK r \in hand[l] : ResolveLookup(r, Failure)
    BY <1>9 DEF FailToShow
  <2>2. r \in Requests /\ Failure \in Replies
    BY DEF TypeOK, Replies
  <2>3. claimed' = claimed /\ entries' \subseteq entries
    BY <2>1, <2>2, ResolveEffect
  <2>4. /\ lpc[l] = "showing" /\ lpc' = [lpc EXCEPT ![l] = "scan"]
        /\ UNCHANGED <<ctxDone, asker, listening, notify>>
    BY <1>9 DEF FailToShow, Step, requester
  <2>5. QED BY <2>3, <2>4, SMTT(60) DEF TypeOK
<1>10. ASSUME NEW l \in Listeners, NEW r \in Requests, NEW v \in UserReplies,
              UserAnswers(l, r, v)
       PROVE WakeInv'
  <2>1. v \in Replies /\ ResolveLookup(r, v)
    BY <1>10 DEF UserAnswers, Replies
  <2>2. claimed' = claimed /\ entries' \subseteq entries
    BY <2>1, ResolveEffect
  <2>3. UNCHANGED <<ctxDone, asker, listening, notify, lpc>>
    BY <1>10 DEF UserAnswers, requester, listener
  <2>4. QED BY <1>0, <2>2, <2>3
<1>11. ASSUME NEW l \in Listeners, Stop(l) PROVE WakeInv'
  BY <1>0, <1>11 DEF Stop, registry, requester
<1>12. ASSUME NEW l \in Listeners, Unregister(l) PROVE WakeInv'
  <2>1. /\ lpc' = [lpc EXCEPT ![l] = "off"] /\ listening' = listening \ {l}
        /\ UNCHANGED <<entries, claimed, ctxDone, asker, notify>>
    BY <1>12 DEF Unregister, Step, registry, requester
  <2>2. QED BY <2>1 DEF TypeOK
<1>13. QED
  BY <1>1, <1>2, <1>3, <1>4, <1>5, <1>6, <1>7, <1>8, <1>9, <1>10, <1>11, <1>12
  DEF Next, RequesterStep, ListenerStep, Environment

(* No listener sleeps over a prompt it would take.                            *)
THEOREM WakeupNotLost == Spec => []NoLostWakeup
<1>1. Init => WakeInv
  BY DEF Init, WakeInv, RunningAreRegistered, NoLostWakeup
<1>2. WakeInv => NoLostWakeup
  BY DEF WakeInv
<1>3. QED BY InitTypeOK, InitClaimInv, InitOnceInv, NextTypeOK, ClaimStep, OnceStep, WakeStep,
             <1>1, <1>2, PTL DEF Spec

-----------------------------------------------------------------------------
(* Claims *)

(* A listener claims prompts only while their requester waits: an entry whose *)
(* Ask is leaving had its context end, or was claimed by the answer.          *)
THEOREM ClaimedForWaiting == Spec => ClaimedWhileWaiting
<1> DEFINE Claims == \A l \in Listeners : \A r \in hand'[l] \ hand[l] :
                        asker[r] \in (IF r \in Async THEN {"inserted", "returned"}
                                                     ELSE {"inserted", "waiting"})
<1>1. TypeOK /\ OnceInv /\ [Next]_vars => [Claims]_vars
  <2> SUFFICES ASSUME TypeOK, OnceInv, Next PROVE Claims
    OBVIOUS
  <2>1. ASSUME NEW k \in Listeners, NEW q \in Requests, PickNextMatch(k, q) PROVE Claims
    <3>1. /\ q \in entries /\ q \notin claimed /\ q \notin ctxDone
          /\ hand' = [hand EXCEPT ![k] = {q}]
      BY <2>1 DEF PickNextMatch, Candidates
    <3>2. asker[q] \in (IF q \in Async THEN {"inserted", "returned"} ELSE {"inserted", "waiting"})
      BY <3>1 DEF OnceInv, NothingBeforeInsert, EntryLife, TypeOK, AskerStates
    <3>3. QED BY <3>1, <3>2 DEF TypeOK
  <2>2. ASSUME \A l \in Listeners : hand'[l] \subseteq hand[l] PROVE Claims
    BY <2>2
  <2>3. ASSUME NEW k \in Listeners, Show(k) \/ FailToShow(k) PROVE Claims
    BY <2>2, <2>3, SMTT(60) DEF Show, FailToShow, TypeOK
  <2>4. CASE \/ \E r \in Requests : \/ Stamp(r) \/ Insert(r) \/ SignalFor(r) \/ TakeReply(r)
                                     \/ TakeCtxDone(r) \/ Leave(r) \/ CtxEnds(r)
             \/ \E t \in Tasks : DropTask(t)
             \/ \E m \in inflight : Deliver(m)
             \/ \E l \in Listeners : \/ Register(l) \/ PickNone(l) \/ Wake(l)
                                      \/ Stop(l) \/ Unregister(l)
             \/ \E l \in Listeners, r \in Requests, v \in UserReplies : UserAnswers(l, r, v)
    BY <2>2, <2>4, ZenonT(60) DEF Stamp, Insert, SignalFor, TakeReply, TakeCtxDone, Leave, CtxEnds, DropTask,
       Deliver, Register, PickNone, Wake, Stop, Unregister, UserAnswers, listener
  <2>5. QED BY <2>1, <2>3, <2>4 DEF Next, RequesterStep, ListenerStep, Environment
<1>2. QED
  BY InitTypeOK, InitClaimInv, InitOnceInv, NextTypeOK, ClaimStep, OnceStep, <1>1, PTL
  DEF Spec, ClaimedWhileWaiting

-----------------------------------------------------------------------------
(* The broker implements PromptLifecycle *)

Status == [r \in Requests |-> StatusOf(r)]

LEMMA AbstractStep ==
    TypeOK /\ ClaimInv /\ OnceInv /\ [Next]_vars => [Lifecycle!PNext]_(Lifecycle!pvars)
<1> SUFFICES ASSUME TypeOK, ClaimInv, OnceInv, [Next]_vars
             PROVE  Lifecycle!PNext \/ (Status' = Status /\ received' = received)
  BY DEF Lifecycle!pvars, Status
<1> USE DEF OnceInv, NothingBeforeInsert, EntryLife, AsyncOnce, SyncOnce
<1> DEFINE Goal == Lifecycle!PNext \/ (Status' = Status /\ received' = received)
<1>0. ASSUME UNCHANGED <<claimed, dropped, received>>,
             \A q \in Requests : StatusOf(q)' = StatusOf(q)
      PROVE Goal
  BY <1>0 DEF Status
<1>00. ASSUME UNCHANGED <<asker, claimed, dropped, received>> PROVE Goal
  BY <1>0, <1>00 DEF StatusOf
<1>1. ASSUME NEW r \in Requests, Stamp(r) PROVE Goal
  <2>1. /\ asker[r] = "new" /\ asker' = [asker EXCEPT ![r] = "stamped"]
        /\ UNCHANGED <<claimed, dropped, received>>
    BY <1>1 DEF Stamp, GoTo, registry
  <2>2. QED BY <1>0, <2>1 DEF StatusOf, TypeOK
<1>2. ASSUME NEW r \in Requests, Insert(r) PROVE Goal
  <2>1. /\ asker[r] = "stamped" /\ asker' = [asker EXCEPT ![r] = "inserted"]
        /\ UNCHANGED <<claimed, dropped, received>>
    BY <1>2 DEF Insert, GoTo
  <2>2. /\ StatusOf(r) = "none" /\ StatusOf(r)' = "open"
        /\ \A q \in Requests : q # r => StatusOf(q)' = StatusOf(q)
    BY <2>1 DEF StatusOf, TypeOK
  <2>3. Lifecycle!Open(r)
    BY <2>1, <2>2, ZenonT(60) DEF Lifecycle!Open
  <2>4. QED BY <2>3 DEF Lifecycle!PNext
<1>3. ASSUME NEW r \in Requests, SignalFor(r) PROVE Goal
  <2>1. /\ asker[r] = "inserted"
        /\ asker' = [asker EXCEPT ![r] = IF r \in Async THEN "returned" ELSE "waiting"]
        /\ UNCHANGED <<claimed, dropped, received>>
    BY <1>3 DEF SignalFor, GoTo, registry
  <2>2. QED BY <1>0, <2>1, SMTT(60) DEF StatusOf, TypeOK
<1>4. ASSUME NEW r \in Requests, TakeReply(r) PROVE Goal
  <2> DEFINE v == Head(replyCh[r])
  <2>1. /\ asker[r] = "waiting" /\ asker' = [asker EXCEPT ![r] = "leaving"]
        /\ replyCh[r] # << >> /\ received' = [received EXCEPT ![r] = Append(received[r], v)]
        /\ UNCHANGED <<claimed, dropped>>
    BY <1>4 DEF TakeReply, GoTo, registry
  <2>2. r \notin Async /\ r \in claimed /\ received[r] = << >> /\ v \in Replies
    BY <2>1 DEF ClaimInv, AnswersAreForClaimed, TypeOK
  <2>3. received' = [received EXCEPT ![r] = <<v>>] /\ <<v>> # << >>
    BY <2>1, <2>2
  <2>4. /\ StatusOf(r) = "claimed" /\ StatusOf(r)' = "answered"
        /\ \A q \in Requests : q # r => StatusOf(q)' = StatusOf(q)
    BY <2>1, <2>2, <2>3 DEF StatusOf, TypeOK
  <2>5. Lifecycle!Answer(r, v)
    BY <2>3, <2>4, ZenonT(60) DEF Lifecycle!Answer
  <2>6. QED BY <2>2, <2>5 DEF Lifecycle!PNext
<1>5. ASSUME NEW r \in Requests, TakeCtxDone(r) PROVE Goal
  <2>1. /\ asker[r] = "waiting" /\ asker' = [asker EXCEPT ![r] = "leaving"]
        /\ UNCHANGED <<claimed, dropped, received>>
    BY <1>5 DEF TakeCtxDone, GoTo, registry
  <2>2. r \notin Async /\ received[r] = << >>
    BY <2>1
  <2>3. /\ StatusOf(r) \in {"open", "claimed"} /\ StatusOf(r)' = "withdrawn"
        /\ \A q \in Requests : q # r => StatusOf(q)' = StatusOf(q)
    BY <2>1, <2>2 DEF StatusOf, TypeOK
  <2>4. Lifecycle!Withdraw({r})
    BY <2>1, <2>3 DEF Lifecycle!Withdraw
  <2>5. QED BY <2>4 DEF Lifecycle!PNext
<1>6. ASSUME NEW r \in Requests, Leave(r) PROVE Goal
  <2>1. /\ asker[r] = "leaving" /\ asker' = [asker EXCEPT ![r] = "returned"]
        /\ UNCHANGED <<claimed, dropped, received>>
    BY <1>6 DEF Leave, GoTo
  <2>2. QED BY <1>0, <2>1, SMTT(60) DEF StatusOf, TypeOK
<1>7. ASSUME NEW t \in Tasks, DropTask(t) PROVE Goal
  <2>1. PICK gone \in SUBSET entries : dropped' = dropped \cup gone
    BY <1>7 DEF DropTask
  <2>2. UNCHANGED <<asker, claimed, received>>
    BY <1>7 DEF DropTask, requester
  <2> DEFINE S == gone \cap Async
  <2>3. \A q \in Requests : StatusOf(q)' = IF q \in S THEN "withdrawn" ELSE StatusOf(q)
    BY <2>1, <2>2 DEF StatusOf, TypeOK, AskerStates
  <2>4. \A q \in S : StatusOf(q) \in {"open", "claimed"} /\ q \in Requests
    BY DEF StatusOf, TypeOK, AskerStates
  <2>5. CASE S = {}
    BY <2>2, <2>3, <2>5 DEF Status
  <2>6. CASE S # {}
    <3>1. Lifecycle!Withdraw(S)
      BY <2>2, <2>3, <2>4, <2>6 DEF Lifecycle!Withdraw
    <3>2. S \in SUBSET Requests
      BY <2>4
    <3>3. QED BY <3>1, <3>2 DEF Lifecycle!PNext
  <2>7. QED BY <2>5, <2>6
<1>8. ASSUME NEW m \in inflight, Deliver(m) PROVE Goal
  <2>1. m.req \in Requests /\ m.reply \in Replies /\ m.req \in claimed
        /\ UNCHANGED <<claimed, dropped, asker>>
    BY <1>8 DEF Deliver, registry, TypeOK, Message, ClaimInv, AnswersAreForClaimed
  <2>2. CASE m.req \in Async
    <3>1. received' = [received EXCEPT ![m.req] = Append(received[m.req], m.reply)]
      BY <1>8, <2>2 DEF Deliver
    <3>2. received[m.req] = << >> /\ m.req \notin dropped
          /\ asker[m.req] \notin {"new", "stamped"}
      BY <2>1, <2>2
    <3>3. received' = [received EXCEPT ![m.req] = <<m.reply>>] /\ <<m.reply>> # << >>
      BY <3>1, <3>2
    <3>4. /\ StatusOf(m.req) = "claimed" /\ StatusOf(m.req)' = "answered"
          /\ \A q \in Requests : q # m.req => StatusOf(q)' = StatusOf(q)
      BY <2>1, <2>2, <3>2, <3>3 DEF StatusOf, TypeOK
    <3>5. Lifecycle!Answer(m.req, m.reply)
      BY <2>1, <3>3, <3>4 DEF Lifecycle!Answer
    <3>6. QED BY <2>1, <3>5 DEF Lifecycle!PNext
  <2>3. CASE m.req \notin Async
    BY <1>00, <1>8, <2>1, <2>3 DEF Deliver
  <2>4. QED BY <2>2, <2>3
<1>9. ASSUME NEW l \in Listeners, NEW r \in Requests, PickNextMatch(l, r) PROVE Goal
  <2>1. /\ r \in entries /\ r \notin claimed /\ r \notin ctxDone /\ claimed' = claimed \cup {r}
        /\ UNCHANGED <<asker, dropped, received>>
    BY <1>9 DEF PickNextMatch, Candidates, requester
  <2>2. asker[r] \in (IF r \in Async THEN {"inserted", "returned"} ELSE {"inserted", "waiting"})
    BY <2>1 DEF TypeOK, AskerStates
  <2>3. received[r] = << >> /\ (r \in Async => r \notin dropped)
    BY <2>1, <2>2
  <2>4. /\ StatusOf(r) = "open" /\ StatusOf(r)' = "claimed"
        /\ \A q \in Requests : q # r => StatusOf(q)' = StatusOf(q)
    BY <2>1, <2>2, <2>3 DEF StatusOf
  <2>5. Lifecycle!Claim(r)
    BY <2>1, <2>4, ZenonT(60) DEF Lifecycle!Claim
  <2>6. QED BY <2>5 DEF Lifecycle!PNext
<1>10. ASSUME NEW l \in Listeners, FailToShow(l) PROVE Goal
  <2>1. PICK r \in hand[l] : ResolveLookup(r, Failure)
    BY <1>10 DEF FailToShow
  <2>2. QED BY <1>00, <1>10, <2>1 DEF FailToShow, ResolveLookup, requester
<1>11. ASSUME NEW l \in Listeners, NEW r \in Requests, NEW v \in UserReplies,
              UserAnswers(l, r, v)
       PROVE Goal
  BY <1>00, <1>11 DEF UserAnswers, ResolveLookup, requester
<1>12. CASE \/ \E r \in Requests : CtxEnds(r)
            \/ \E l \in Listeners : \/ Register(l) \/ PickNone(l) \/ Show(l) \/ Wake(l)
                                    \/ Stop(l) \/ Unregister(l)
            \/ UNCHANGED vars
  BY <1>00, <1>12 DEF CtxEnds, Register, PickNone, Show, Wake, Stop, Unregister, vars, registry,
     requester
<1>13. QED
  BY <1>1, <1>2, <1>3, <1>4, <1>5, <1>6, <1>7, <1>8, <1>9, <1>10, <1>11, <1>12
  DEF Next, RequesterStep, ListenerStep, Environment

(* The registry, its requesters and its listeners together do nothing to a    *)
(* prompt that PromptLifecycle does not allow.                                *)
THEOREM BrokerImplementsLifecycle == Spec => ImplementsLifecycle
<1>1. Init => Lifecycle!PInit
  BY DEF Init, Lifecycle!PInit, StatusOf
<1>2. QED
  BY InitTypeOK, InitClaimInv, InitOnceInv, NextTypeOK, ClaimStep, OnceStep, AbstractStep,
     <1>1, PTL DEF Spec, ImplementsLifecycle, Lifecycle!PSpec

-----------------------------------------------------------------------------
(* What a requester was told is final *)

(* A prompt that was answered or withdrawn stays so, with the reply it had.   *)
KeepsFates ==
    \A r \in Requests :
        StatusOf(r) \in {"answered", "withdrawn"}
            => StatusOf(r)' = StatusOf(r) /\ received'[r] = received[r]

(* An answered prompt is never withdrawn and one that was given up is never   *)
(* answered, whoever calls Resolve, ends the context or drops the task later. *)
THEOREM FateIsFinal == Spec => [][KeepsFates]_vars
<1>1. ASSUME TypeOK, ClaimInv, OnceInv, Next PROVE KeepsFates
  <2>1. [Lifecycle!PNext]_(Lifecycle!pvars)
    BY <1>1, AbstractStep
  <2>2. CASE Status' = Status /\ received' = received
    BY <2>2 DEF Status, KeepsFates
  <2>3. ASSUME NEW r \in Requests, Lifecycle!Open(r) PROVE KeepsFates
    <3>1. Status[r] = "none" /\ Status' = [Status EXCEPT ![r] = "open"] /\ received' = received
      BY <2>3 DEF Lifecycle!Open, Status
    <3>2. QED BY <3>1 DEF Status, KeepsFates
  <2>4. ASSUME NEW r \in Requests, Lifecycle!Claim(r) PROVE KeepsFates
    <3>1. Status[r] = "open" /\ Status' = [Status EXCEPT ![r] = "claimed"] /\ received' = received
      BY <2>4 DEF Lifecycle!Claim, Status
    <3>2. QED BY <3>1 DEF Status, KeepsFates
  <2>5. ASSUME NEW r \in Requests, NEW v \in Replies, Lifecycle!Answer(r, v) PROVE KeepsFates
    <3>1. /\ Status[r] = "claimed" /\ Status' = [Status EXCEPT ![r] = "answered"]
          /\ received' = [received EXCEPT ![r] = <<v>>]
      BY <2>5 DEF Lifecycle!Answer, Status
    <3>2. received \in [Requests -> Seq(Replies)]
      BY <1>1 DEF TypeOK
    <3>3. \A q \in Requests : q # r => Status'[q] = Status[q] /\ received'[q] = received[q]
      BY <3>1, <3>2 DEF Status
    <3>4. QED BY <3>1, <3>3 DEF Status, KeepsFates
  <2>6. ASSUME NEW S \in SUBSET Requests, Lifecycle!Withdraw(S) PROVE KeepsFates
    <3>1. /\ \A r \in S : Status[r] \in {"open", "claimed"}
          /\ Status' = [r \in Requests |-> IF r \in S THEN "withdrawn" ELSE Status[r]]
          /\ received' = received
      BY <2>6 DEF Lifecycle!Withdraw, Status
    <3>2. QED BY <3>1 DEF Status, KeepsFates
  <2>7. QED
    BY <2>1, <2>2, <2>3, <2>4, <2>5, <2>6 DEF Lifecycle!PNext, Lifecycle!pvars, Status
<1>2. TypeOK /\ ClaimInv /\ OnceInv /\ [Next]_vars => [KeepsFates]_vars
  BY <1>1
<1>3. QED
  BY InitTypeOK, InitClaimInv, InitOnceInv, NextTypeOK, ClaimStep, OnceStep, <1>2, PTL DEF Spec
=============================================================================
