----------------------------- MODULE EventStream -----------------------------
(* The way of a run's events from Execute to whoever listens:                 *)
(*   Execute and the goroutine that streams a model's answer                  *)
(*     -> fanoutEvents -> the fan-out goroutine, which records (execute.go)   *)
(*     -> src -> the goroutine of pubsub.Wrap, which publishes                *)
(*     -> out -> the caller of Stream, which reads (ipc/run.go, send.go).     *)
(* The channels are bounded, a reader that stalls therefore holds up all of   *)
(* them, and a run that is cancelled must end all the same: the waits of a    *)
(* cancelled run are given up after a few seconds.                            *)

EXTENDS Naturals, Sequences

CONSTANTS
    FanCap, SrcCap, OutCap,  \* capacities of the three channels (all 64)
    MaxEvents,               \* events Execute and its streams emit
    MaxSends                 \* requests to a model (the loop is bounded)

ASSUME StreamAssumption ==
    /\ FanCap \in Nat \ {0} /\ SrcCap \in Nat \ {0} /\ OutCap \in Nat \ {0}
    /\ MaxEvents \in Nat \ {0} /\ MaxSends \in Nat

VARIABLES
    caller,     \* who reads: "ipc" or "send"
    pc,         \* where Execute, or the goroutine of Stream around it, is
    result,     \* what Execute returns: "nil", "canceled" or "error"
    stream,     \* the goroutine of the current send
    sends,      \* requests so far
    emitted,    \* kinds of the events sent to fanoutEvents, "text" or "end"
    fan,        \* fanoutEvents, each event by its place in emitted
    fanClosed,
    out1,       \* the fan-out goroutine: "take", "send" or "gone"
    held1,      \* and the event it holds
    endRecorded, \* terminalRecorded
    src, srcClosed,  \* the channel of Wrap
    out2,       \* its goroutine: "take", "send", "drain" or "gone"
    held2,
    out,        \* the channel the caller reads
    reader,     \* "reads" or "gone"
    terminated, \* the reader has seen an end
    recorded,   \* the action log; Failure is the event of the deferred function
    published,  \* what subscribers were sent
    canceled,   \* execCtx is done
    hangup,     \* the caller's own context is done
    gaveUp      \* waits that ran into their grace

Failure == 0

main      == <<pc, result, sends, caller>>
fanout    == <<out1, held1, endRecorded>>
wrap      == <<out2, held2>>
readers   == <<reader, terminated>>
ways      == <<fan, fanClosed, src, srcClosed, out>>
contexts  == <<canceled, hangup>>
vars == <<main, stream, emitted, fanout, wrap, readers, ways, recorded, published, contexts,
          gaveUp>>

Init ==
    /\ caller \in {"ipc", "send"} /\ pc = "work" /\ result = "nil" /\ sends = 0 /\ stream = "none"
    /\ emitted = <<>> /\ fan = <<>> /\ fanClosed = FALSE
    /\ out1 = "take" /\ held1 = 0 /\ endRecorded = FALSE
    /\ src = <<>> /\ srcClosed = FALSE /\ out2 = "take" /\ held2 = 0
    /\ out = <<>> /\ reader = "reads" /\ terminated = FALSE
    /\ recorded = <<>> /\ published = <<>>
    /\ canceled = FALSE /\ hangup = FALSE /\ gaveUp = {}

IsEnd(e) == e = Failure \/ emitted[e] = "end"

(* The run's context: the user cancels, or the connection of an ipc caller    *)
(* ends; that of /v1/send is WithoutCancel.                                   *)
Cancel ==
    /\ pc # "over" /\ ~canceled /\ canceled' = TRUE
    /\ UNCHANGED <<main, stream, emitted, fanout, wrap, readers, ways, recorded, published, hangup,
                   gaveUp>>

HangUp ==
    /\ caller = "ipc" /\ pc # "over" /\ ~hangup /\ hangup' = TRUE /\ canceled' = TRUE
    /\ UNCHANGED <<main, stream, emitted, fanout, wrap, readers, ways, recorded, published,
                   gaveUp>>

-----------------------------------------------------------------------------
(* Execute *)

(* The reader has stopped, its connection is there, and all that lies before  *)
(* it is full.  The graces are seconds, a step of a goroutine is not: only    *)
(* this lets one of them pass, or a model that is slow to hang up.            *)
Stalled == out2 = "send" /\ Len(out) = OutCap /\ ~hangup

Emit(kind) ==
    /\ Len(fan) < FanCap
    /\ emitted' = Append(emitted, kind) /\ fan' = Append(fan, Len(emitted'))

(* One place is kept for the end.                                             *)
HasMore == Len(emitted) < MaxEvents - 1

EmitText ==
    /\ pc = "work" /\ HasMore /\ Emit("text")
    /\ UNCHANGED <<main, stream, fanout, wrap, readers, fanClosed, src, srcClosed, out, recorded,
                   published, contexts, gaveUp>>

Send ==
    /\ pc = "work" /\ ~canceled /\ sends < MaxSends
    /\ pc' = "send" /\ stream' = "open" /\ sends' = sends + 1
    /\ UNCHANGED <<result, caller, emitted, fanout, wrap, readers, ways, recorded, published,
                   contexts, gaveUp>>

SendReturns ==
    /\ pc = "send" /\ stream = "done" /\ pc' = "work"
    /\ UNCHANGED <<result, sends, caller, stream, emitted, fanout, wrap, readers, ways, recorded,
                   published, contexts, gaveUp>>

SkipsStop ==
    /\ pc = "send" /\ canceled /\ pc' = "cancel"
    /\ UNCHANGED <<result, sends, caller, stream, emitted, fanout, wrap, readers, ways, recorded,
                   published, contexts, gaveUp>>

SendCanceled ==
    /\ pc = "send" /\ canceled /\ pc' = "stop"
    /\ UNCHANGED <<result, sends, caller, stream, emitted, fanout, wrap, readers, ways, recorded,
                   published, contexts, gaveUp>>

(* stopSend waits for the stream, at most sendStopGrace.                      *)
StopSend ==
    /\ pc = "stop" /\ pc' = "cancel"
    /\ gaveUp' = IF stream = "done" THEN gaveUp ELSE gaveUp \cup {"stream"}
    /\ UNCHANGED <<result, sends, caller, stream, emitted, fanout, wrap, readers, ways, recorded,
                   published, contexts>>

WorkCanceled ==
    /\ pc = "work" /\ canceled /\ pc' = "cancel"
    /\ UNCHANGED <<result, sends, caller, stream, emitted, fanout, wrap, readers, ways, recorded,
                   published, contexts, gaveUp>>

(* EventCanceled and EventDone are plain sends.                               *)
EmitCanceled ==
    /\ pc = "cancel" /\ Emit("end") /\ pc' = "close" /\ result' = "canceled"
    /\ UNCHANGED <<stream, sends, caller, fanout, wrap, readers, fanClosed, src, srcClosed, out,
                   recorded, published, contexts, gaveUp>>

EmitDone ==
    /\ pc = "work" /\ Emit("end") /\ pc' = "close" /\ result' \in {"nil", "error"}
    /\ UNCHANGED <<stream, sends, caller, fanout, wrap, readers, fanClosed, src, srcClosed, out,
                   recorded, published, contexts, gaveUp>>

(* Execute returns an error it has reported to nobody.                        *)
Fails ==
    /\ pc = "work" /\ pc' = "close" /\ result' = "error"
    /\ UNCHANGED <<stream, sends, caller, emitted, fanout, wrap, readers, ways, recorded,
                   published, contexts, gaveUp>>

CloseFanout ==
    /\ pc = "close" /\ pc' = "drain" /\ fanClosed' = TRUE
    /\ UNCHANGED <<result, sends, caller, stream, emitted, fanout, wrap, readers, fan, src,
                   srcClosed, out, recorded, published, contexts, gaveUp>>

FanoutDone ==
    /\ pc = "drain" /\ out1 = "gone" /\ pc' = "report"
    /\ UNCHANGED <<result, sends, caller, stream, emitted, fanout, wrap, readers, ways, recorded,
                   published, contexts, gaveUp>>

FanoutAbandoned ==
    /\ pc = "drain" /\ out1 = "send" /\ Stalled /\ Len(src) = SrcCap
    /\ pc' = "report" /\ gaveUp' = gaveUp \cup {"drain"}
    /\ UNCHANGED <<result, sends, caller, stream, emitted, fanout, wrap, readers, ways, recorded,
                   published, contexts>>

(* The deferred function records the error nobody reported, and the last one  *)
(* ends execCtx.                                                              *)
ReportsAlways == result # "nil"

Reports == result # "nil" /\ ~endRecorded

Report ==
    /\ pc = "report"
    /\ recorded' = IF Reports THEN Append(recorded, Failure) ELSE recorded
    /\ canceled' = TRUE
    /\ pc' = IF caller = "send" /\ result # "nil" THEN "tell" ELSE "hang"
    /\ UNCHANGED <<result, sends, caller, stream, emitted, fanout, wrap, readers, ways, published,
                   hangup, gaveUp>>

TellsNobody ==
    /\ pc = "tell" /\ pc' = "hang"
    /\ UNCHANGED <<result, sends, caller, stream, emitted, fanout, wrap, readers, ways, recorded,
                   published, contexts, gaveUp>>

(* /v1/send puts the error into the stream itself.                            *)
Tell ==
    /\ pc = "tell" /\ Len(src) < SrcCap /\ src' = Append(src, Failure) /\ pc' = "hang"
    /\ UNCHANGED <<result, sends, caller, stream, emitted, fanout, wrap, readers, fan, fanClosed,
                   srcClosed, out, recorded, published, contexts, gaveUp>>

CloseSrc ==
    /\ pc = "hang" /\ pc' = "over" /\ srcClosed' = TRUE
    /\ UNCHANGED <<result, sends, caller, stream, emitted, fanout, wrap, readers, fan, fanClosed,
                   src, out, recorded, published, contexts, gaveUp>>

-----------------------------------------------------------------------------
(* The stream of a model's answer (lineEmitter.push) *)

StreamPush ==
    /\ stream = "open" /\ ~fanClosed /\ HasMore /\ Emit("text")
    /\ UNCHANGED <<main, stream, fanout, wrap, readers, fanClosed, src, srcClosed, out, recorded,
                   published, contexts, gaveUp>>

(* A send on a closed channel, which no recover is around.                    *)
StreamPanics ==
    /\ stream = "open" /\ fanClosed /\ stream' = "panicked"
    /\ UNCHANGED <<main, emitted, fanout, wrap, readers, ways, recorded, published, contexts,
                   gaveUp>>

(* It has all of the answer, or goes quiet since its context is done.         *)
StreamEnds ==
    /\ stream = "open" /\ stream' = "done"
    /\ UNCHANGED <<main, emitted, fanout, wrap, readers, ways, recorded, published, contexts,
                   gaveUp>>

-----------------------------------------------------------------------------
(* The fan-out goroutine *)

RecordLate ==
    /\ out1 = "take" /\ fan # <<>>
    /\ fan' = Tail(fan) /\ held1' = Head(fan) /\ out1' = "send"
    /\ endRecorded' = (endRecorded \/ IsEnd(Head(fan)))
    /\ recorded' = IF held1 = 0 THEN recorded ELSE Append(recorded, held1)
    /\ UNCHANGED <<main, stream, emitted, wrap, readers, fanClosed, src, srcClosed, out, published,
                   contexts, gaveUp>>

Record ==
    /\ out1 = "take" /\ fan # <<>>
    /\ fan' = Tail(fan) /\ held1' = Head(fan) /\ out1' = "send"
    /\ endRecorded' = (endRecorded \/ IsEnd(Head(fan)))
    /\ recorded' = Append(recorded, Head(fan))
    /\ UNCHANGED <<main, stream, emitted, wrap, readers, fanClosed, src, srcClosed, out, published,
                   contexts, gaveUp>>

Forward ==
    /\ out1 = "send" /\ ~srcClosed /\ Len(src) < SrcCap
    /\ src' = Append(src, held1) /\ out1' = "take"
    /\ UNCHANGED <<main, stream, emitted, held1, endRecorded, wrap, readers, fan, fanClosed,
                   srcClosed, out, recorded, published, contexts, gaveUp>>

(* The run's context is done and nobody took the event for fanoutSendGrace.   *)
GiveUp ==
    /\ out1 = "send" /\ ~srcClosed /\ Len(src) = SrcCap /\ Stalled /\ canceled
    /\ out1' = "gone" /\ gaveUp' = gaveUp \cup {"send"}
    /\ UNCHANGED <<main, stream, emitted, held1, endRecorded, wrap, readers, ways, recorded,
                   published, contexts>>

(* The send panics when Stream has closed the channel; that is recovered.     *)
Recover ==
    /\ out1 = "send" /\ srcClosed /\ out1' = "gone"
    /\ UNCHANGED <<main, stream, emitted, held1, endRecorded, wrap, readers, ways, recorded,
                   published, contexts, gaveUp>>

FanoutEnds ==
    /\ out1 = "take" /\ fan = <<>> /\ fanClosed /\ out1' = "gone"
    /\ UNCHANGED <<main, stream, emitted, held1, endRecorded, wrap, readers, ways, recorded,
                   published, contexts, gaveUp>>

-----------------------------------------------------------------------------
(* The goroutine of Wrap *)

Pub ==
    /\ out2 \in {"take", "drain"} /\ src # <<>>
    /\ src' = Tail(src) /\ published' = Append(published, Head(src))
    /\ IF out2 = "take" THEN out2' = "send" /\ held2' = Head(src) ELSE UNCHANGED wrap
    /\ UNCHANGED <<main, stream, emitted, fanout, readers, fan, fanClosed, srcClosed, out,
                   recorded, contexts, gaveUp>>

Deliver ==
    /\ out2 = "send" /\ Len(out) < OutCap /\ out' = Append(out, held2) /\ out2' = "take"
    /\ UNCHANGED <<main, stream, emitted, fanout, held2, readers, fan, fanClosed, src, srcClosed,
                   recorded, published, contexts, gaveUp>>

DrainNever == FALSE /\ UNCHANGED vars

(* The caller's context is done: what follows is published and not delivered. *)
Drain ==
    /\ out2 = "send" /\ hangup /\ out2' = "drain"
    /\ UNCHANGED <<main, stream, emitted, fanout, held2, readers, ways, recorded, published,
                   contexts, gaveUp>>

WrapEnds ==
    /\ out2 \in {"take", "drain"} /\ src = <<>> /\ srcClosed /\ out2' = "gone"
    /\ UNCHANGED <<main, stream, emitted, fanout, held2, readers, ways, recorded, published,
                   contexts, gaveUp>>

-----------------------------------------------------------------------------
(* The caller *)

Read ==
    /\ reader = "reads" /\ out # <<>> /\ out' = Tail(out)
    /\ terminated' = (terminated \/ IsEnd(Head(out)))
    /\ UNCHANGED <<main, stream, emitted, fanout, wrap, reader, fan, fanClosed, src, srcClosed,
                   recorded, published, contexts, gaveUp>>

(* Everything is read and Stream's wait returns.  An ipc caller that has seen *)
(* no end publishes one for a run that failed.                                *)
ReadEnd ==
    /\ reader = "reads" /\ out = <<>> /\ out2 = "gone" /\ pc = "over" /\ reader' = "gone"
    /\ published' = IF caller = "ipc" /\ result # "nil" /\ ~terminated
                    THEN Append(published, Failure) ELSE published
    /\ UNCHANGED <<main, stream, emitted, fanout, wrap, terminated, ways, recorded, contexts,
                   gaveUp>>

-----------------------------------------------------------------------------
Execute ==
    \/ EmitText \/ Send \/ SendReturns \/ SendCanceled \/ StopSend \/ WorkCanceled
    \/ EmitCanceled \/ EmitDone \/ Fails \/ CloseFanout \/ FanoutDone \/ FanoutAbandoned
    \/ Report \/ Tell \/ CloseSrc

Streaming == StreamPush \/ StreamPanics \/ StreamEnds

Fanout == Record \/ Forward \/ GiveUp \/ Recover \/ FanoutEnds

Wrapping == Pub \/ Deliver \/ Drain \/ WrapEnds

Reading == Read \/ ReadEnd

Crashed == stream = "panicked"

Next == ~Crashed /\ (Execute \/ Streaming \/ Fanout \/ Wrapping \/ Reading \/ Cancel \/ HangUp)

Spec == Init /\ [][Next]_vars

(* Goroutines go on and timers fire; whether the reader reads is its affair.  *)
FairSpec ==
    /\ Spec
    /\ WF_vars(~Crashed /\ Execute) /\ WF_vars(~Crashed /\ StreamEnds)
    /\ WF_vars(~Crashed /\ Fanout) /\ WF_vars(~Crashed /\ Wrapping)

-----------------------------------------------------------------------------
(* Every variable keeps to its kind.                                          *)
TypeOK ==
    /\ pc \in {"work", "send", "stop", "cancel", "close", "drain", "report", "tell", "hang", "over"}
    /\ result \in {"nil", "canceled", "error"} /\ caller \in {"ipc", "send"}
    /\ stream \in {"none", "open", "done", "panicked"}
    /\ sends \in 0..MaxSends
    /\ emitted \in Seq({"text", "end"})
    /\ out1 \in {"take", "send", "gone"} /\ out2 \in {"take", "send", "drain", "gone"}
    /\ held1 \in 0..Len(emitted) /\ held2 \in 0..Len(emitted)
    /\ out1 = "send" => held1 # Failure
    /\ \A s \in {fan, src, out, recorded, published} : s \in Seq(0..Len(emitted))
    /\ Len(fan) <= FanCap /\ Len(src) <= SrcCap /\ Len(out) <= OutCap
    /\ reader \in {"reads", "gone"}
    /\ \A b \in {fanClosed, srcClosed, endRecorded, terminated, canceled, hangup} : b \in BOOLEAN
    /\ gaveUp \subseteq {"stream", "send", "drain"}

(* Events are numbered as they are emitted.                                   *)
InOrder(s) == \A i, j \in DOMAIN s : i < j /\ s[i] # Failure /\ s[j] # Failure => s[i] < s[j]

(* s has the events after the a-th up to the b-th, each one once and in order. *)
Runs(s, a, b) == InOrder(s) /\ {s[i] : i \in DOMAIN s} \ {Failure} = (a + 1)..b

(* What subscribers are sent has been recorded before, in that order and      *)
(* without a gap: a page that replays the action log and then follows the     *)
(* stream shows nothing the log does not have.                                *)
WatchersFollowLog ==
    \E m \in 0..Len(emitted) : \E n \in 0..m : Runs(recorded, 0, m) /\ Runs(published, 0, n)

(* A run whose waits were not given up leaves all of its events in the log,   *)
(* in order, and one end of them, be it the deferred error.                   *)
LogIsWhole ==
    pc \in {"tell", "hang", "over"} /\ gaveUp = {} =>
        /\ Runs(recorded, 0, Len(emitted))
        /\ \E i \in DOMAIN recorded : \A j \in DOMAIN recorded : IsEnd(recorded[j]) <=> j = i

(* Whatever is given up, those who follow a session are sent an end of a run  *)
(* that failed, by the fan-out or by the caller.                              *)
FailureHeard ==
    reader = "gone" /\ result # "nil" => \E i \in DOMAIN published : IsEnd(published[i])

(* Only a stream that stopSend gave up waiting for can find fanoutEvents      *)
(* closed.                                                                    *)
OnlyAbandonedPanics == Crashed => "stream" \in gaveUp

Over == pc = "over"

(* A run ends unless its reader stops reading for good, or for longer than    *)
(* fanoutSendGrace when the run is cancelled; when the reader's connection    *)
(* has gone the run ends without it.                                          *)
RunLeaves == <>(Over \/ Crashed \/ "send" \in gaveUp) \/ <>[]Stalled
=============================================================================
