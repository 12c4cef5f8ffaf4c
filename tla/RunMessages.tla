----------------------------- MODULE RunMessages -----------------------------
(* The messages of a run, session.ToolHistories, and what shortens them when  *)
(* a request has grown too long for the model: internal/agents/exec/compact   *)
(* and internal/agents/exec/todo.  A message is one of                        *)
(*   a call    the tool calls of one model answer, at most one write_todo,    *)
(*   a result  the answer to one of those calls,                              *)
(*   a text    what the model said without calling a tool, or                 *)
(*   a user    what the loop puts in the user's name: steers, or the head     *)
(*             that stands for messages a compaction removed.                 *)
(* The turn numbers a call, its results point to it by that number and kind.  *)

EXTENDS Naturals, Sequences, SequencesExt, FiniteSetsExt

Kinds == {"todo", "work"}

Message(role, turn, calls, steers) ==
    [role |-> role, turn |-> turn, calls |-> calls, steers |-> steers]

Call(turn, calls)  == Message("call", turn, calls, {})
Result(turn, kind) == Message("result", turn, {kind}, {})
Text(turn)         == Message("text", turn, {}, {})
User(steers)       == Message("user", 0, {}, steers)

SteersOf(msgs) == UNION {m.steers : m \in ToSet(msgs)}

(* Every call of a request has one result, after it, and every result a call: *)
(* what a provider refuses a request for.                                     *)
Paired(msgs) ==
    LET Answers(i, k) == {j \in DOMAIN msgs : /\ msgs[j].role = "result"
                                             /\ msgs[j].turn = msgs[i].turn
                                             /\ msgs[j].calls = {k}}
    IN  /\ \A i \in DOMAIN msgs : msgs[i].role = "call" =>
             /\ msgs[i].calls # {}
             /\ \A k \in msgs[i].calls : \E j \in Answers(i, k) :
                    Answers(i, k) = {j} /\ j > i
        /\ \A j \in DOMAIN msgs : msgs[j].role = "result" =>
             \E i \in 1..(j - 1) : /\ msgs[i].role = "call"
                                   /\ msgs[i].turn = msgs[j].turn
                                   /\ msgs[j].calls \subseteq msgs[i].calls

(* The messages at some of their places, in their order.                      *)
At(msgs, places) ==
    LET upto[n \in 0..Len(msgs)] ==
            IF n = 0 THEN <<>>
            ELSE IF n \in places THEN Append(upto[n - 1], msgs[n]) ELSE upto[n - 1]
    IN  upto[Len(msgs)]

Calls(msgs) == {i \in DOMAIN msgs : msgs[i].role = "call"}

CallPlaces(msgs) == At([i \in DOMAIN msgs |-> i], Calls(msgs))

-----------------------------------------------------------------------------
(* todo/writeTodo.go *)

Plans(msgs) == {i \in Calls(msgs) : "todo" \in msgs[i].calls}

Planned(msgs) == {msgs[i].turn : i \in Plans(msgs)}

IsPlan(m, turns) == m.turn \in turns /\ m.calls = {"todo"}

(* Without its write_todo a call that says something stays as a text; whether *)
(* a plan came with words is the choice of Spoken.                            *)
Stays(m, turns, Spoken) ==
    /\ m.role = "result" => ~IsPlan(m, turns)
    /\ m.role = "call" => ~IsPlan(m, turns) \/ m.turn \in Spoken

Without(m, turns) ==
    IF m.role # "call" THEN m
    ELSE IF IsPlan(m, turns) THEN Text(m.turn)
    ELSE [m EXCEPT !.calls = @ \ {"todo"}]

Strip(msgs, Spoken) ==
    LET turns == Planned(msgs)
        kept  == At(msgs, {i \in DOMAIN msgs : Stays(msgs[i], turns, Spoken)})
    IN  [i \in DOMAIN kept |-> Without(kept[i], turns)]

LastPair(msgs) ==
    LET at == Max(Plans(msgs))
        t  == msgs[at].turn
    IN  IF Plans(msgs) # {} /\ \E j \in DOMAIN msgs : j > at /\ msgs[j] = Result(t, "todo")
        THEN <<Call(t, {"todo"}), Result(t, "todo")>>
        ELSE <<>>

-----------------------------------------------------------------------------
(* compact/toolHistory.go: the oldest fifth of the calls, at least two, is    *)
(* replaced by what the model says of it, and the last plan is kept.          *)

CutSize(total) == Min({Max({(2 * total + 5) \div 10, 2}), total - 1})

CanCompact(msgs, Spoken) == Len(CallPlaces(Strip(msgs, Spoken))) >= 3

CutPlaceOff(msgs) == CallPlaces(msgs)[CutSize(Len(CallPlaces(msgs))) + 1] + 1

CutPlace(msgs) == CallPlaces(msgs)[CutSize(Len(CallPlaces(msgs))) + 1]

ToolHistory(msgs, Spoken) ==
    LET clean == Strip(msgs, Spoken)
        cut   == CutPlace(clean)
    IN  <<User(SteersOf(SubSeq(clean, 1, cut - 1)))>>
            \o LastPair(msgs) \o SubSeq(clean, cut, Len(clean))

-----------------------------------------------------------------------------
(* compact/trimFallback.go: the oldest call goes with its results, or, with   *)
(* no call left, the first message.                                           *)

TrimTools(msgs) ==
    LET at == Min(Calls(msgs))
    IN  IF Calls(msgs) = {} THEN Tail(msgs)
        ELSE At(msgs, {i \in DOMAIN msgs :
                          i # at /\ ~ /\ msgs[i].role = "result" /\ msgs[i].turn = msgs[at].turn
                                      /\ msgs[i].calls \subseteq msgs[at].calls})

-----------------------------------------------------------------------------
(* compact/rawToolFallback.go: another model goes on from the results alone.  *)

HasResults(msgs, Spoken) == \E m \in ToSet(Strip(msgs, Spoken)) : m.role = "result"

RawToolFallback(msgs, Spoken) ==
    IF HasResults(msgs, Spoken) THEN <<User({})>> \o LastPair(msgs) ELSE <<>>
=============================================================================
