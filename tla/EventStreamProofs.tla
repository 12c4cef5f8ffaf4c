--------------------------- MODULE EventStreamProofs ---------------------------
(* Theorems about EventStream, for every value of its constants.              *)
EXTENDS EventStream, TLAPS

-----------------------------------------------------------------------------
(* Streams and fanoutEvents.                                                  *)

(* A stream that is open outside of its send was given up, and fanoutEvents   *)
(* is closed after the last send.                                             *)
StreamsKept ==
    /\ stream \in {"open", "panicked"} /\ pc \notin {"send", "stop"} => "stream" \in gaveUp
    /\ stream = "panicked" => "stream" \in gaveUp
    /\ fanClosed => pc \in {"drain", "report", "tell", "hang", "over"}

(* Every step keeps to that.                                                  *)
LEMMA StreamsStep == StreamsKept /\ [Next]_vars => StreamsKept'
  <1> SUFFICES ASSUME StreamsKept, [Next]_vars PROVE StreamsKept'
    OBVIOUS
  <1> USE DEF StreamsKept, main, fanout, wrap, readers, ways, contexts
  <1>1. CASE EmitText
    BY <1>1 DEF EmitText, Emit
  <1>2. CASE Send
    BY <1>2 DEF Send
  <1>3. CASE SendReturns
    BY <1>3 DEF SendReturns
  <1>4. CASE SendCanceled
    BY <1>4 DEF SendCanceled
  <1>5. CASE StopSend
    BY <1>5 DEF StopSend
  <1>6. CASE WorkCanceled
    BY <1>6 DEF WorkCanceled
  <1>7. CASE EmitCanceled
    BY <1>7 DEF EmitCanceled, Emit
  <1>8. CASE EmitDone
    BY <1>8 DEF EmitDone, Emit
  <1>9. CASE Fails
    BY <1>9 DEF Fails
  <1>10. CASE CloseFanout
    BY <1>10 DEF CloseFanout
  <1>11. CASE FanoutDone
    BY <1>11 DEF FanoutDone
  <1>12. CASE FanoutAbandoned
    BY <1>12 DEF FanoutAbandoned
  <1>13. CASE Report
    BY <1>13 DEF Report
  <1>14. CASE Tell
    BY <1>14 DEF Tell
  <1>15. CASE CloseSrc
    BY <1>15 DEF CloseSrc
  <1>16. CASE StreamPush
    BY <1>16 DEF StreamPush, Emit
  <1>17. CASE StreamPanics
    BY <1>17 DEF StreamPanics
  <1>18. CASE StreamEnds
    BY <1>18 DEF StreamEnds
  <1>19. CASE Record
    BY <1>19 DEF Record
  <1>20. CASE Forward
    BY <1>20 DEF Forward
  <1>21. CASE GiveUp
    BY <1>21 DEF GiveUp
  <1>22. CASE Recover
    BY <1>22 DEF Recover
  <1>23. CASE FanoutEnds
    BY <1>23 DEF FanoutEnds
  <1>24. CASE Pub
    BY <1>24 DEF Pub
  <1>25. CASE Deliver
    BY <1>25 DEF Deliver
  <1>26. CASE Drain
    BY <1>26 DEF Drain
  <1>27. CASE WrapEnds
    BY <1>27 DEF WrapEnds
  <1>28. CASE Read
    BY <1>28 DEF Read
  <1>29. CASE ReadEnd
    BY <1>29 DEF ReadEnd
  <1>30. CASE Cancel
    BY <1>30 DEF Cancel
  <1>31. CASE HangUp
    BY <1>31 DEF HangUp
  <1>32. CASE UNCHANGED vars
    BY <1>32 DEF vars
  <1> QED
    BY <1>1, <1>2, <1>3, <1>4, <1>5, <1>6, <1>7, <1>8, <1>9, <1>10, <1>11, <1>12, <1>13,
       <1>14, <1>15, <1>16, <1>17, <1>18, <1>19, <1>20, <1>21, <1>22, <1>23, <1>24, <1>25,
       <1>26, <1>27, <1>28, <1>29, <1>30, <1>31, <1>32, ZenonT(60)
       DEF Next, Execute, Streaming, Fanout, Wrapping, Reading

(* The process dies of a send on a closed fanoutEvents only when stopSend has *)
(* given up waiting for that stream, whatever the capacities and the sends.   *)
THEOREM AbandonedPanics == Spec => []OnlyAbandonedPanics
  <1>1. Init => StreamsKept
    BY DEF Init, StreamsKept
  <1>2. StreamsKept => OnlyAbandonedPanics
    BY DEF StreamsKept, OnlyAbandonedPanics, Crashed
  <1> QED
    BY <1>1, <1>2, StreamsStep, PTL DEF Spec

-----------------------------------------------------------------------------
(* The end of a failed run.                                                   *)

(* The events on the way are some that were emitted, or Failure.              *)
Known(s) == s \in Seq(Nat) /\ \A i \in 1..Len(s) : s[i] <= Len(emitted)

Typed ==
    /\ emitted \in Seq({"text", "end"})
    /\ Known(fan) /\ Known(src) /\ Known(out) /\ Known(published)
    /\ held1 \in Nat /\ held1 <= Len(emitted) /\ held2 \in Nat /\ held2 <= Len(emitted)

Holds(s, e) == \E i \in 1..Len(s) : s[i] = e

(* What the caller reads was published before.                                *)
PublishedFirst ==
    /\ \A i \in 1..Len(out) : Holds(published, out[i])
    /\ out2 = "send" => Holds(published, held2)

HeardEnd == \E i \in 1..Len(published) : IsEnd(published[i])

(* The end the caller has seen was published, and /v1/send tells of an error  *)
(* before the channel closes.                                                 *)
EndPublished ==
    /\ terminated => HeardEnd
    /\ caller = "send" /\ result # "nil" /\ pc \in {"hang", "over"}
           => Holds(src, Failure) \/ Holds(published, Failure)
    /\ srcClosed => pc = "over"
    /\ out2 = "gone" => srcClosed /\ src = <<>>
    /\ reader = "gone" => pc = "over" /\ (result # "nil" => HeardEnd)
    /\ caller \in {"ipc", "send"}

(* Sequences: what is taken from one and what is added to it.                 *)
LEMMA Taking ==
    ASSUME NEW s \in Seq(Nat), s # <<>>
    PROVE  /\ Head(s) \in Nat /\ Tail(s) \in Seq(Nat) /\ 1 \in 1..Len(s) /\ Head(s) = s[1]
           /\ Len(Tail(s)) = Len(s) - 1
           /\ \A i \in 1..Len(Tail(s)) : i + 1 \in 1..Len(s) /\ Tail(s)[i] = s[i + 1]
  OBVIOUS

(* What is added is the last, and the rest stays.                             *)
LEMMA Adding ==
    ASSUME NEW T, NEW s \in Seq(T), NEW e \in T
    PROVE  /\ Append(s, e) \in Seq(T) /\ Len(Append(s, e)) = Len(s) + 1
           /\ Len(s) + 1 \in 1..Len(Append(s, e)) /\ Append(s, e)[Len(s) + 1] = e
           /\ \A i \in 1..Len(s) : i \in 1..Len(Append(s, e)) /\ Append(s, e)[i] = s[i]
           /\ \A i \in 1..Len(Append(s, e)) : i = Len(s) + 1 \/ i \in 1..Len(s)
  OBVIOUS

(* What is taken from known events.                                           *)
LEMMA KnownTaking ==
    ASSUME NEW s, Known(s), s # <<>>
    PROVE  Known(Tail(s)) /\ Head(s) \in Nat /\ Head(s) <= Len(emitted)
  BY Taking DEF Known

(* Known events with another known event.                                     *)
LEMMA KnownAdding ==
    ASSUME NEW s, Known(s), NEW e \in Nat, e <= Len(emitted)
    PROVE  Known(Append(s, e))
  <1>1. Len(s) \in Nat
    BY DEF Known
  <1>2. QED
    BY <1>1, Adding DEF Known

(* What was known stays known when another event is emitted.                  *)
LEMMA KnownLater ==
    ASSUME emitted \in Seq({"text", "end"}), NEW kind \in {"text", "end"}, Emit(kind)
    PROVE  /\ emitted' \in Seq({"text", "end"}) /\ Len(emitted') = Len(emitted) + 1
           /\ Len(emitted) \in Nat
           /\ \A i \in 1..Len(emitted) : emitted'[i] = emitted[i]
           /\ \A s : Known(s) => s \in Seq(Nat) /\ \A i \in 1..Len(s) : s[i] <= Len(emitted')
           /\ Known(fan) => fan' \in Seq(Nat) /\ \A i \in 1..Len(fan') : fan'[i] <= Len(emitted')
  <1>1. /\ emitted' = Append(emitted, kind) /\ fan' = Append(fan, Len(emitted'))
        /\ Len(emitted) \in Nat
    BY DEF Emit
  <1>2. /\ emitted' \in Seq({"text", "end"}) /\ Len(emitted') = Len(emitted) + 1
        /\ \A i \in 1..Len(emitted) : emitted'[i] = emitted[i]
    BY <1>1, Adding
  <1>3. \A s : Known(s) => s \in Seq(Nat) /\ \A i \in 1..Len(s) : s[i] <= Len(emitted')
    <2>1. ASSUME NEW s, Known(s), NEW i \in 1..Len(s) PROVE s[i] <= Len(emitted')
      <3>1. s[i] \in Nat /\ s[i] <= Len(emitted)
        BY <2>1 DEF Known
      <3>2. QED
        BY <1>1, <1>2, <3>1
    <2>2. QED
      BY <2>1 DEF Known
  <1>4. ASSUME Known(fan) PROVE fan' \in Seq(Nat) /\ \A i \in 1..Len(fan') : fan'[i] <= Len(emitted')
    <2>1. fan \in Seq(Nat) /\ \A i \in 1..Len(fan) : fan[i] <= Len(emitted')
      BY <1>3, <1>4
    <2> DEFINE n == Len(emitted')
    <2>2. n \in Nat /\ fan' = Append(fan, n)
      BY <1>1, <1>2
    <2> HIDE DEF n
    <2>3. QED
      BY <2>1, <2>2, Adding DEF n
  <1> QED
    BY <1>1, <1>2, <1>3, <1>4

(* Every step keeps the values.                                               *)
LEMMA TypedStep == Typed /\ [Next]_vars => Typed'
  <1> SUFFICES ASSUME Typed, [Next]_vars PROVE Typed'
    OBVIOUS
  <1> USE DEF Typed, main, fanout, wrap, readers, ways, contexts
  <1>0. Len(emitted) \in Nat /\ 0 <= Len(emitted)
    OBVIOUS
  <1>1. CASE EmitText
    <2>1. PICK kind \in {"text", "end"} : Emit(kind)
      BY <1>1 DEF EmitText
    <2>2. UNCHANGED <<src, out, published, held1, held2>>
      BY <1>1 DEF EmitText
    <2>3. /\ emitted' \in Seq({"text", "end"}) /\ Len(emitted') = Len(emitted) + 1
          /\ fan' \in Seq(Nat) /\ \A i \in 1..Len(fan') : fan'[i] <= Len(emitted')
      BY <2>1, KnownLater
    <2>4. ASSUME NEW s \in {src, out, published}
          PROVE  s \in Seq(Nat) /\ \A i \in 1..Len(s) : s[i] <= Len(emitted')
      <3>1. Known(s)
        BY <2>4
      <3>2. QED
        BY <2>1, <3>1, KnownLater
    <2>5. held1' <= Len(emitted') /\ held2' <= Len(emitted')
      BY <1>0, <2>2, <2>3
    <2>6. QED
      BY <2>2, <2>3, <2>4, <2>5 DEF Known
  <1>2. CASE Send
    BY <1>2 DEF Send, Known
  <1>3. CASE SendReturns
    BY <1>3 DEF SendReturns, Known
  <1>4. CASE SendCanceled
    BY <1>4 DEF SendCanceled, Known
  <1>5. CASE StopSend
    BY <1>5 DEF StopSend, Known
  <1>6. CASE WorkCanceled
    BY <1>6 DEF WorkCanceled, Known
  <1>7. CASE EmitCanceled
    <2>1. PICK kind \in {"text", "end"} : Emit(kind)
      BY <1>7 DEF EmitCanceled
    <2>2. UNCHANGED <<src, out, published, held1, held2>>
      BY <1>7 DEF EmitCanceled
    <2>3. /\ emitted' \in Seq({"text", "end"}) /\ Len(emitted') = Len(emitted) + 1
          /\ fan' \in Seq(Nat) /\ \A i \in 1..Len(fan') : fan'[i] <= Len(emitted')
      BY <2>1, KnownLater
    <2>4. ASSUME NEW s \in {src, out, published}
          PROVE  s \in Seq(Nat) /\ \A i \in 1..Len(s) : s[i] <= Len(emitted')
      <3>1. Known(s)
        BY <2>4
      <3>2. QED
        BY <2>1, <3>1, KnownLater
    <2>5. held1' <= Len(emitted') /\ held2' <= Len(emitted')
      BY <1>0, <2>2, <2>3
    <2>6. QED
      BY <2>2, <2>3, <2>4, <2>5 DEF Known
  <1>8. CASE EmitDone
    <2>1. PICK kind \in {"text", "end"} : Emit(kind)
      BY <1>8 DEF EmitDone
    <2>2. UNCHANGED <<src, out, published, held1, held2>>
      BY <1>8 DEF EmitDone
    <2>3. /\ emitted' \in Seq({"text", "end"}) /\ Len(emitted') = Len(emitted) + 1
          /\ fan' \in Seq(Nat) /\ \A i \in 1..Len(fan') : fan'[i] <= Len(emitted')
      BY <2>1, KnownLater
    <2>4. ASSUME NEW s \in {src, out, published}
          PROVE  s \in Seq(Nat) /\ \A i \in 1..Len(s) : s[i] <= Len(emitted')
      <3>1. Known(s)
        BY <2>4
      <3>2. QED
        BY <2>1, <3>1, KnownLater
    <2>5. held1' <= Len(emitted') /\ held2' <= Len(emitted')
      BY <1>0, <2>2, <2>3
    <2>6. QED
      BY <2>2, <2>3, <2>4, <2>5 DEF Known
  <1>9. CASE Fails
    BY <1>9 DEF Fails, Known
  <1>10. CASE CloseFanout
    BY <1>10 DEF CloseFanout, Known
  <1>11. CASE FanoutDone
    BY <1>11 DEF FanoutDone, Known
  <1>12. CASE FanoutAbandoned
    BY <1>12 DEF FanoutAbandoned, Known
  <1>13. CASE Report
    BY <1>13 DEF Report, Known
  <1>14. CASE Tell
    <2>1. src' = Append(src, Failure) /\ UNCHANGED <<emitted, fan, out, published, held1, held2>>
      BY <1>14 DEF Tell
    <2>2. QED
      BY <2>1, <1>0, KnownAdding DEF Known, Failure
  <1>15. CASE CloseSrc
    BY <1>15 DEF CloseSrc, Known
  <1>16. CASE StreamPush
    <2>1. PICK kind \in {"text", "end"} : Emit(kind)
      BY <1>16 DEF StreamPush
    <2>2. UNCHANGED <<src, out, published, held1, held2>>
      BY <1>16 DEF StreamPush
    <2>3. /\ emitted' \in Seq({"text", "end"}) /\ Len(emitted') = Len(emitted) + 1
          /\ fan' \in Seq(Nat) /\ \A i \in 1..Len(fan') : fan'[i] <= Len(emitted')
      BY <2>1, KnownLater
    <2>4. ASSUME NEW s \in {src, out, published}
          PROVE  s \in Seq(Nat) /\ \A i \in 1..Len(s) : s[i] <= Len(emitted')
      <3>1. Known(s)
        BY <2>4
      <3>2. QED
        BY <2>1, <3>1, KnownLater
    <2>5. held1' <= Len(emitted') /\ held2' <= Len(emitted')
      BY <1>0, <2>2, <2>3
    <2>6. QED
      BY <2>2, <2>3, <2>4, <2>5 DEF Known
  <1>17. CASE StreamPanics
    BY <1>17 DEF StreamPanics, Known
  <1>18. CASE StreamEnds
    BY <1>18 DEF StreamEnds, Known
  <1>19. CASE Record
    <2>1. /\ fan # <<>> /\ fan' = Tail(fan) /\ held1' = Head(fan)
          /\ UNCHANGED <<emitted, src, out, published, held2>>
      BY <1>19 DEF Record
    <2>2. QED
      BY <2>1, <1>0, KnownTaking, KnownAdding DEF Known
  <1>20. CASE Forward
    <2>1. src' = Append(src, held1) /\ UNCHANGED <<emitted, fan, out, published, held1, held2>>
      BY <1>20 DEF Forward
    <2>2. QED
      BY <2>1, <1>0, KnownTaking, KnownAdding DEF Known
  <1>21. CASE GiveUp
    BY <1>21 DEF GiveUp, Known
  <1>22. CASE Recover
    BY <1>22 DEF Recover, Known
  <1>23. CASE FanoutEnds
    BY <1>23 DEF FanoutEnds, Known
  <1>24. CASE Pub
    <2>1. /\ src # <<>> /\ src' = Tail(src) /\ published' = Append(published, Head(src))
          /\ held2' \in {held2, Head(src)} /\ UNCHANGED <<emitted, fan, out, held1>>
      BY <1>24 DEF Pub
    <2>2. QED
      BY <2>1, <1>0, KnownTaking, KnownAdding DEF Known
  <1>25. CASE Deliver
    <2>1. out' = Append(out, held2) /\ UNCHANGED <<emitted, fan, src, published, held1, held2>>
      BY <1>25 DEF Deliver
    <2>2. QED
      BY <2>1, <1>0, KnownTaking, KnownAdding DEF Known
  <1>26. CASE Drain
    BY <1>26 DEF Drain, Known
  <1>27. CASE WrapEnds
    BY <1>27 DEF WrapEnds, Known
  <1>28. CASE Read
    <2>1. out # <<>> /\ out' = Tail(out) /\ UNCHANGED <<emitted, fan, src, published, held1, held2>>
      BY <1>28 DEF Read
    <2>2. QED
      BY <2>1, <1>0, KnownTaking, KnownAdding DEF Known
  <1>29. CASE ReadEnd
    <2>1. /\ published' \in {published, Append(published, Failure)}
          /\ UNCHANGED <<emitted, fan, src, out, held1, held2>>
      BY <1>29 DEF ReadEnd
    <2>2. QED
      BY <2>1, <1>0, KnownAdding DEF Known, Failure
  <1>30. CASE Cancel
    BY <1>30 DEF Cancel, Known
  <1>31. CASE HangUp
    BY <1>31 DEF HangUp, Known
  <1>32. CASE UNCHANGED vars
    BY <1>32 DEF vars, Known
  <1> QED
    BY <1>1, <1>2, <1>3, <1>4, <1>5, <1>6, <1>7, <1>8, <1>9, <1>10, <1>11, <1>12, <1>13,
       <1>14, <1>15, <1>16, <1>17, <1>18, <1>19, <1>20, <1>21, <1>22, <1>23, <1>24, <1>25,
       <1>26, <1>27, <1>28, <1>29, <1>30, <1>31, <1>32, ZenonT(60)
       DEF Next, Execute, Streaming, Fanout, Wrapping, Reading


(* A sequence holds what is added, and what it held.                          *)
LEMMA HoldsAdding ==
    ASSUME NEW s \in Seq(Nat), NEW f \in Nat
    PROVE  Holds(Append(s, f), f) /\ \A e : Holds(s, e) => Holds(Append(s, f), e)
  BY Adding DEF Holds

(* What a sequence holds is its head or stays in its tail.                    *)
LEMMA HoldsTaking ==
    ASSUME NEW s \in Seq(Nat), s # <<>>, NEW e, Holds(s, e)
    PROVE  e = Head(s) \/ Holds(Tail(s), e)
  <1>1. PICK i \in 1..Len(s) : s[i] = e
    BY DEF Holds
  <1>2. CASE i = 1
    BY <1>1, <1>2, Taking
  <1>3. CASE i # 1
    <2>1. i - 1 \in 1..Len(Tail(s)) /\ (i - 1) + 1 = i
      BY <1>3, Taking
    <2>2. Tail(s)[i - 1] = s[i]
      BY <2>1, Taking
    <2>3. QED
      BY <1>1, <2>1, <2>2 DEF Holds
  <1> QED
    BY <1>2, <1>3

(* What is read next was published, and what is published stays so.           *)
LEMMA PublishedStep == Typed /\ PublishedFirst /\ [Next]_vars => PublishedFirst'
  <1> SUFFICES ASSUME Typed, PublishedFirst, [Next]_vars PROVE PublishedFirst'
    OBVIOUS
  <1> USE DEF PublishedFirst, main, fanout, wrap, readers, ways, contexts
  <1>1. CASE EmitText
    BY <1>1 DEF EmitText, Emit, Holds
  <1>2. CASE Send
    BY <1>2 DEF Send, Holds
  <1>3. CASE SendReturns
    BY <1>3 DEF SendReturns, Holds
  <1>4. CASE SendCanceled
    BY <1>4 DEF SendCanceled, Holds
  <1>5. CASE StopSend
    BY <1>5 DEF StopSend, Holds
  <1>6. CASE WorkCanceled
    BY <1>6 DEF WorkCanceled, Holds
  <1>7. CASE EmitCanceled
    BY <1>7 DEF EmitCanceled, Emit, Holds
  <1>8. CASE EmitDone
    BY <1>8 DEF EmitDone, Emit, Holds
  <1>9. CASE Fails
    BY <1>9 DEF Fails, Holds
  <1>10. CASE CloseFanout
    BY <1>10 DEF CloseFanout, Holds
  <1>11. CASE FanoutDone
    BY <1>11 DEF FanoutDone, Holds
  <1>12. CASE FanoutAbandoned
    BY <1>12 DEF FanoutAbandoned, Holds
  <1>13. CASE Report
    BY <1>13 DEF Report, Holds
  <1>14. CASE Tell
    BY <1>14 DEF Tell, Holds
  <1>15. CASE CloseSrc
    BY <1>15 DEF CloseSrc, Holds
  <1>16. CASE StreamPush
    BY <1>16 DEF StreamPush, Emit, Holds
  <1>17. CASE StreamPanics
    BY <1>17 DEF StreamPanics, Holds
  <1>18. CASE StreamEnds
    BY <1>18 DEF StreamEnds, Holds
  <1>19. CASE Record
    BY <1>19 DEF Record, Holds
  <1>20. CASE Forward
    BY <1>20 DEF Forward, Holds
  <1>21. CASE GiveUp
    BY <1>21 DEF GiveUp, Holds
  <1>22. CASE Recover
    BY <1>22 DEF Recover, Holds
  <1>23. CASE FanoutEnds
    BY <1>23 DEF FanoutEnds, Holds
  <1>24. CASE Pub
    <2>1. /\ src # <<>> /\ published' = Append(published, Head(src)) /\ out' = out
          /\ out2' = "send" => held2' = Head(src)
      BY <1>24 DEF Pub
    <2>2. Holds(published', Head(src)) /\ \A e : Holds(published, e) => Holds(published', e)
      BY <2>1, KnownTaking, HoldsAdding DEF Typed, Known
    <2>3. QED
      BY <2>1, <2>2, ZenonT(60) DEF Holds
  <1>25. CASE Deliver
    <2>1. /\ out' = Append(out, held2) /\ published' = published /\ out2 = "send" /\ out2' = "take"
      BY <1>25 DEF Deliver
    <2>2. \A i \in 1..Len(out') : (i \in 1..Len(out) /\ out'[i] = out[i]) \/ out'[i] = held2
      BY <2>1, Adding, SMTT(60) DEF Typed, Known
    <2> HIDE DEF PublishedFirst
    <2>3. ASSUME NEW i \in 1..Len(out') PROVE Holds(published, out'[i])
      BY <2>1, <2>2 DEF PublishedFirst
    <2>4. QED
      BY <2>1, <2>3 DEF PublishedFirst, Holds
  <1>26. CASE Drain
    BY <1>26 DEF Drain, Holds
  <1>27. CASE WrapEnds
    BY <1>27 DEF WrapEnds, Holds
  <1>28. CASE Read
    <2>1. /\ out # <<>> /\ out' = Tail(out) /\ UNCHANGED <<published, wrap>>
      BY <1>28 DEF Read
    <2>2. \A i \in 1..Len(out') : i + 1 \in 1..Len(out) /\ out'[i] = out[i + 1]
      BY <2>1, Taking DEF Typed, Known
    <2> HIDE DEF PublishedFirst
    <2>3. ASSUME NEW i \in 1..Len(out') PROVE Holds(published, out'[i])
      BY <2>1, <2>2 DEF PublishedFirst
    <2>4. QED
      BY <2>1, <2>3 DEF PublishedFirst, Holds
  <1>29. CASE ReadEnd
    <2>1. /\ published' \in {published, Append(published, Failure)} /\ UNCHANGED <<out, wrap>>
      BY <1>29 DEF ReadEnd
    <2>2. \A e : Holds(published, e) => Holds(published', e)
      BY <2>1, HoldsAdding, ZenonT(60) DEF Typed, Known, Failure
    <2>3. QED
      BY <2>1, <2>2 DEF Holds
  <1>30. CASE Cancel
    BY <1>30 DEF Cancel, Holds
  <1>31. CASE HangUp
    BY <1>31 DEF HangUp, Holds
  <1>32. CASE UNCHANGED vars
    BY <1>32 DEF vars, Holds
  <1> QED
    BY <1>1, <1>2, <1>3, <1>4, <1>5, <1>6, <1>7, <1>8, <1>9, <1>10, <1>11, <1>12, <1>13,
       <1>14, <1>15, <1>16, <1>17, <1>18, <1>19, <1>20, <1>21, <1>22, <1>23, <1>24, <1>25,
       <1>26, <1>27, <1>28, <1>29, <1>30, <1>31, <1>32, ZenonT(60)
       DEF Next, Execute, Streaming, Fanout, Wrapping, Reading


(* An end that was published is still one after more was emitted.             *)
LEMMA EndStays ==
    ASSUME Typed, HeardEnd, published' = published \/ \E e \in Nat : published' = Append(published, e),
           emitted' = emitted \/ \E kind \in {"text", "end"} : Emit(kind)
    PROVE  HeardEnd'
  <1>1. PICK i \in 1..Len(published) : IsEnd(published[i])
    BY DEF HeardEnd
  <1>2. i \in 1..Len(published') /\ published'[i] = published[i]
    <2>1. published \in Seq(Nat)
      BY DEF Typed, Known
    <2>2. ASSUME NEW e \in Nat, published' = Append(published, e)
          PROVE  i \in 1..Len(published') /\ published'[i] = published[i]
      BY <2>1, <2>2, Adding
    <2>3. QED
      BY <2>2
  <1>3. published[i] \in Nat /\ published[i] <= Len(emitted)
    BY SMTT(60) DEF Typed, Known
  <1>4. published[i] = 0 \/ emitted'[published[i]] = emitted[published[i]]
    BY <1>3, KnownLater, SMTT(60) DEF Typed
  <1>5. IsEnd(published[i])'
    BY <1>1, <1>2, <1>4 DEF IsEnd, Failure
  <1>6. QED
    BY <1>2, <1>5 DEF HeardEnd

(* A failure that was published is an end.                                    *)
LEMMA FailureIsEnd == Holds(published, Failure) => HeardEnd
  BY DEF Holds, HeardEnd, IsEnd

(* The end of a failed run is published before the caller has gone.           *)
LEMMA EndStep == Typed /\ PublishedFirst /\ EndPublished /\ [Next]_vars => EndPublished'
  <1> SUFFICES ASSUME Typed, PublishedFirst, EndPublished, [Next]_vars PROVE EndPublished'
    OBVIOUS
  <1> USE DEF EndPublished, main, fanout, wrap, readers, ways, contexts
  <1>1. CASE EmitText
    <2>1. \E kind \in {"text", "end"} : Emit(kind)
      BY <1>1 DEF EmitText
    <2>2. HeardEnd => HeardEnd'
      BY <1>1, <2>1, EndStays DEF EmitText
    <2>3. QED
      BY <1>1, <2>2 DEF EmitText, Holds
  <1>2. CASE Send
    <2>1. HeardEnd => HeardEnd'
      BY <1>2, EndStays DEF Send
    <2>2. QED
      BY <1>2, <2>1 DEF Send, Holds
  <1>3. CASE SendReturns
    <2>1. HeardEnd => HeardEnd'
      BY <1>3, EndStays DEF SendReturns
    <2>2. QED
      BY <1>3, <2>1 DEF SendReturns, Holds
  <1>4. CASE SendCanceled
    <2>1. HeardEnd => HeardEnd'
      BY <1>4, EndStays DEF SendCanceled
    <2>2. QED
      BY <1>4, <2>1 DEF SendCanceled, Holds
  <1>5. CASE StopSend
    <2>1. HeardEnd => HeardEnd'
      BY <1>5, EndStays DEF StopSend
    <2>2. QED
      BY <1>5, <2>1 DEF StopSend, Holds
  <1>6. CASE WorkCanceled
    <2>1. HeardEnd => HeardEnd'
      BY <1>6, EndStays DEF WorkCanceled
    <2>2. QED
      BY <1>6, <2>1 DEF WorkCanceled, Holds
  <1>7. CASE EmitCanceled
    <2>1. \E kind \in {"text", "end"} : Emit(kind)
      BY <1>7 DEF EmitCanceled
    <2>2. HeardEnd => HeardEnd'
      BY <1>7, <2>1, EndStays DEF EmitCanceled
    <2>3. QED
      BY <1>7, <2>2 DEF EmitCanceled, Holds
  <1>8. CASE EmitDone
    <2>1. \E kind \in {"text", "end"} : Emit(kind)
      BY <1>8 DEF EmitDone
    <2>2. HeardEnd => HeardEnd'
      BY <1>8, <2>1, EndStays DEF EmitDone
    <2>3. QED
      BY <1>8, <2>2 DEF EmitDone, Holds
  <1>9. CASE Fails
    <2>1. HeardEnd => HeardEnd'
      BY <1>9, EndStays DEF Fails
    <2>2. QED
      BY <1>9, <2>1 DEF Fails, Holds
  <1>10. CASE CloseFanout
    <2>1. HeardEnd => HeardEnd'
      BY <1>10, EndStays DEF CloseFanout
    <2>2. QED
      BY <1>10, <2>1 DEF CloseFanout, Holds
  <1>11. CASE FanoutDone
    <2>1. HeardEnd => HeardEnd'
      BY <1>11, EndStays DEF FanoutDone
    <2>2. QED
      BY <1>11, <2>1 DEF FanoutDone, Holds
  <1>12. CASE FanoutAbandoned
    <2>1. HeardEnd => HeardEnd'
      BY <1>12, EndStays DEF FanoutAbandoned
    <2>2. QED
      BY <1>12, <2>1 DEF FanoutAbandoned, Holds
  <1>13. CASE Report
    <2>1. HeardEnd => HeardEnd'
      BY <1>13, EndStays DEF Report
    <2>2. QED
      BY <1>13, <2>1 DEF Report, Holds
  <1>14. CASE Tell
    <2>1. /\ pc = "tell" /\ src' = Append(src, Failure) /\ pc' = "hang"
          /\ UNCHANGED <<result, caller, emitted, wrap, readers, srcClosed, published>>
      BY <1>14 DEF Tell
    <2>2. HeardEnd => HeardEnd'
      BY <2>1, EndStays
    <2>3. Holds(src', Failure)
      BY <2>1, HoldsAdding DEF Typed, Known, Failure
    <2>4. QED
      BY <2>1, <2>2, <2>3 DEF Holds
  <1>15. CASE CloseSrc
    <2>1. HeardEnd => HeardEnd'
      BY <1>15, EndStays DEF CloseSrc
    <2>2. QED
      BY <1>15, <2>1 DEF CloseSrc, Holds
  <1>16. CASE StreamPush
    <2>1. \E kind \in {"text", "end"} : Emit(kind)
      BY <1>16 DEF StreamPush
    <2>2. HeardEnd => HeardEnd'
      BY <1>16, <2>1, EndStays DEF StreamPush
    <2>3. QED
      BY <1>16, <2>2 DEF StreamPush, Holds
  <1>17. CASE StreamPanics
    <2>1. HeardEnd => HeardEnd'
      BY <1>17, EndStays DEF StreamPanics
    <2>2. QED
      BY <1>17, <2>1 DEF StreamPanics, Holds
  <1>18. CASE StreamEnds
    <2>1. HeardEnd => HeardEnd'
      BY <1>18, EndStays DEF StreamEnds
    <2>2. QED
      BY <1>18, <2>1 DEF StreamEnds, Holds
  <1>19. CASE Record
    <2>1. HeardEnd => HeardEnd'
      BY <1>19, EndStays DEF Record
    <2>2. QED
      BY <1>19, <2>1 DEF Record, Holds
  <1>20. CASE Forward
    <2>1. /\ ~srcClosed /\ src' = Append(src, held1)
          /\ UNCHANGED <<main, emitted, wrap, readers, srcClosed, published>>
      BY <1>20 DEF Forward
    <2>2. HeardEnd => HeardEnd'
      BY <2>1, EndStays
    <2>3. Holds(src, Failure) => Holds(src', Failure)
      BY <2>1, HoldsAdding DEF Typed, Known
    <2>4. Holds(published, Failure) => Holds(published', Failure)
      BY <2>1 DEF Holds
    <2>5. QED
      BY <2>1, <2>2, <2>3, <2>4
  <1>21. CASE GiveUp
    <2>1. HeardEnd => HeardEnd'
      BY <1>21, EndStays DEF GiveUp
    <2>2. QED
      BY <1>21, <2>1 DEF GiveUp, Holds
  <1>22. CASE Recover
    <2>1. HeardEnd => HeardEnd'
      BY <1>22, EndStays DEF Recover
    <2>2. QED
      BY <1>22, <2>1 DEF Recover, Holds
  <1>23. CASE FanoutEnds
    <2>1. HeardEnd => HeardEnd'
      BY <1>23, EndStays DEF FanoutEnds
    <2>2. QED
      BY <1>23, <2>1 DEF FanoutEnds, Holds
  <1>24. CASE Pub
    <2>1. /\ out2 # "gone" /\ out2' # "gone" /\ src # <<>> /\ src' = Tail(src)
          /\ published' = Append(published, Head(src))
          /\ UNCHANGED <<main, emitted, readers, srcClosed>>
      BY <1>24 DEF Pub
    <2>2. Head(src) \in Nat
      BY <2>1, KnownTaking DEF Typed
    <2>3. HeardEnd => HeardEnd'
      BY <2>1, <2>2, EndStays
    <2>4. Holds(src, Failure) \/ Holds(published, Failure)
              => Holds(src', Failure) \/ Holds(published', Failure)
      BY <2>1, <2>2, HoldsTaking, HoldsAdding, ZenonT(60) DEF Typed, Known
    <2>5. QED
      BY <2>1, <2>3, <2>4
  <1>25. CASE Deliver
    <2>1. HeardEnd => HeardEnd'
      BY <1>25, EndStays DEF Deliver
    <2>2. QED
      BY <1>25, <2>1 DEF Deliver, Holds
  <1>26. CASE Drain
    <2>1. HeardEnd => HeardEnd'
      BY <1>26, EndStays DEF Drain
    <2>2. QED
      BY <1>26, <2>1 DEF Drain, Holds
  <1>27. CASE WrapEnds
    <2>1. HeardEnd => HeardEnd'
      BY <1>27, EndStays DEF WrapEnds
    <2>2. QED
      BY <1>27, <2>1 DEF WrapEnds, Holds
  <1>28. CASE Read
    <2>1. /\ out # <<>> /\ terminated' = (terminated \/ IsEnd(Head(out)))
          /\ UNCHANGED <<main, emitted, wrap, reader, src, srcClosed, published>>
      BY <1>28 DEF Read
    <2>2. HeardEnd => HeardEnd'
      BY <2>1, EndStays
    <2>3. IsEnd(Head(out)) => HeardEnd
      <3>1. Holds(published, Head(out))
        BY <2>1, Taking DEF Typed, Known, PublishedFirst
      <3>2. QED
        BY <3>1 DEF Holds, HeardEnd
    <2>4. QED
      BY <2>1, <2>2, <2>3 DEF Holds
  <1>29. CASE ReadEnd
    <2>1. /\ out2 = "gone" /\ pc = "over" /\ reader' = "gone"
          /\ UNCHANGED <<main, emitted, wrap, terminated, src, srcClosed>>
          /\ published' = IF caller = "ipc" /\ result # "nil" /\ ~terminated
                          THEN Append(published, Failure) ELSE published
      BY <1>29 DEF ReadEnd
    <2>2. HeardEnd => HeardEnd'
      BY <2>1, EndStays DEF Failure
    <2>3. Holds(published, Failure) => Holds(published', Failure)
      BY <2>1, HoldsAdding DEF Typed, Known, Failure
    <2>4. ASSUME result # "nil" PROVE HeardEnd'
      <3>1. CASE caller = "send"
        <4>1. src = <<>> /\ ~Holds(src, Failure)
          BY <2>1 DEF Holds
        <4>2. QED
          BY <2>1, <2>2, <2>4, <3>1, <4>1, FailureIsEnd
      <3>2. CASE caller = "ipc" /\ ~terminated
        <4>1. Holds(published', Failure)
          BY <2>1, <2>4, <3>2, HoldsAdding DEF Typed, Known, Failure
        <4>2. QED
          BY <4>1 DEF Holds, HeardEnd, IsEnd, Failure
      <3>3. CASE terminated
        BY <2>2, <3>3
      <3>4. QED
        BY <3>1, <3>2, <3>3
    <2>5. QED
      BY <2>1, <2>2, <2>3, <2>4 DEF Holds
  <1>30. CASE Cancel
    <2>1. HeardEnd => HeardEnd'
      BY <1>30, EndStays DEF Cancel
    <2>2. QED
      BY <1>30, <2>1 DEF Cancel, Holds
  <1>31. CASE HangUp
    <2>1. HeardEnd => HeardEnd'
      BY <1>31, EndStays DEF HangUp
    <2>2. QED
      BY <1>31, <2>1 DEF HangUp, Holds
  <1>32. CASE UNCHANGED vars
    <2>1. HeardEnd => HeardEnd'
      BY <1>32, EndStays DEF vars
    <2>2. QED
      BY <1>32, <2>1 DEF vars, Holds
  <1> QED
    BY <1>1, <1>2, <1>3, <1>4, <1>5, <1>6, <1>7, <1>8, <1>9, <1>10, <1>11, <1>12, <1>13,
       <1>14, <1>15, <1>16, <1>17, <1>18, <1>19, <1>20, <1>21, <1>22, <1>23, <1>24, <1>25,
       <1>26, <1>27, <1>28, <1>29, <1>30, <1>31, <1>32, ZenonT(60)
       DEF Next, Execute, Streaming, Fanout, Wrapping, Reading

(* The initial state.                                                         *)
LEMMA InitTyped == Init => Typed /\ PublishedFirst /\ EndPublished
  BY DEF Init, Typed, Known, PublishedFirst, EndPublished

(* Those who follow the session are sent an end of a run that failed, from    *)
(* the fan-out or from the caller, whatever is given up on the way and        *)
(* whatever the capacities of the channels are.                               *)
THEOREM EndHeard == Spec => []FailureHeard
  <1> DEFINE Inv == Typed /\ PublishedFirst /\ EndPublished
  <1>1. Init => Inv
    BY InitTyped
  <1>2. Inv /\ [Next]_vars => Inv'
    BY TypedStep, PublishedStep, EndStep
  <1>3. Inv => FailureHeard
    BY SMTT(60) DEF Typed, Known, EndPublished, HeardEnd, FailureHeard
  <1> QED
    BY <1>1, <1>2, <1>3, PTL DEF Spec

-----------------------------------------------------------------------------
(* The log and the subscribers.                                               *)

(* Runs, by places and members.                                               *)
Counts(s, a, b) ==
    /\ \A i, j \in 1..Len(s) : i < j /\ s[i] # 0 /\ s[j] # 0 => s[i] < s[j]
    /\ \A i \in 1..Len(s) : s[i] = 0 \/ (a < s[i] /\ s[i] <= b)
    /\ \A e \in Nat : a < e /\ e <= b => Holds(s, e)

(* It says the same.                                                          *)
LEMMA RunsCounts ==
    ASSUME NEW s \in Seq(Nat), NEW a \in Nat, NEW b \in Nat
    PROVE  Runs(s, a, b) <=> Counts(s, a, b)
  <1>1. DOMAIN s = 1..Len(s) /\ \A i \in 1..Len(s) : s[i] \in Nat
    OBVIOUS
  <1>2. InOrder(s) <=> \A i, j \in 1..Len(s) : i < j /\ s[i] # 0 /\ s[j] # 0 => s[i] < s[j]
    BY <1>1 DEF InOrder, Failure
  <1> DEFINE N == {s[i] : i \in DOMAIN s} \ {Failure}
  <1>3. \A e : e \in N <=> e # 0 /\ Holds(s, e)
    BY <1>1 DEF Holds, Failure
  <1>4. \A e : e \in (a + 1)..b <=> e \in Nat /\ a < e /\ e <= b
    OBVIOUS
  <1>5. ASSUME N = (a + 1)..b PROVE Counts(s, a, b)!2 /\ Counts(s, a, b)!3
    <2>1. ASSUME NEW i \in 1..Len(s), s[i] # 0 PROVE a < s[i] /\ s[i] <= b
      BY <1>1, <1>3, <1>4, <1>5, <2>1 DEF Holds
    <2>2. ASSUME NEW e \in Nat, a < e, e <= b PROVE Holds(s, e)
      BY <1>3, <1>4, <1>5, <2>2
    <2>3. QED
      BY <2>1, <2>2
  <1>6. ASSUME Counts(s, a, b)!2, Counts(s, a, b)!3 PROVE N = (a + 1)..b
    <2>1. ASSUME NEW e, e \in N PROVE e \in (a + 1)..b
      <3>1. PICK i \in 1..Len(s) : s[i] = e
        BY <1>3, <2>1 DEF Holds
      <3>2. QED
        BY <1>1, <1>3, <1>4, <1>6, <2>1, <3>1
    <2>2. ASSUME NEW e, e \in (a + 1)..b PROVE e \in N
      <3>1. e \in Nat /\ a < e /\ e <= b /\ e # 0
        BY <1>4, <2>2
      <3>2. QED
        BY <1>3, <1>6, <3>1
    <2>3. QED
      BY <2>1, <2>2
  <1> HIDE DEF N
  <1>7. Runs(s, a, b) <=> InOrder(s) /\ N = (a + 1)..b
    BY DEF Runs, N
  <1> QED
    BY <1>2, <1>5, <1>6, <1>7 DEF Counts

(* The next event, or a failure, at the end.                                  *)
LEMMA RunsAdding ==
    ASSUME NEW s \in Seq(Nat), NEW a \in Nat, NEW b \in Nat, a <= b, Runs(s, a, b)
    PROVE  Runs(Append(s, b + 1), a, b + 1) /\ Runs(Append(s, Failure), a, b)
  <1>1. Counts(s, a, b) /\ Len(s) \in Nat /\ \A i \in 1..Len(s) : s[i] \in Nat
    BY RunsCounts, SMTT(60)
  <1>2. ASSUME NEW f \in Nat, NEW c \in Nat, (f = 0 /\ c = b) \/ (f = b + 1 /\ c = b + 1)
        PROVE  Runs(Append(s, f), a, c)
    <2> DEFINE t == Append(s, f)
    <2>1. /\ t \in Seq(Nat) /\ Len(t) = Len(s) + 1 /\ t[Len(s) + 1] = f
          /\ \A i \in 1..Len(s) : t[i] = s[i]
          /\ \A i \in 1..Len(t) : i = Len(s) + 1 \/ i \in 1..Len(s)
      BY Adding
    <2>2. \A e : Holds(s, e) => Holds(t, e)
      BY HoldsAdding
    <2>3. Holds(t, f)
      BY HoldsAdding
    <2> HIDE DEF t
    <2>4. ASSUME NEW i \in 1..Len(t), NEW j \in 1..Len(t), i < j, t[i] # 0, t[j] # 0
          PROVE  t[i] < t[j]
      <3>0. i \in 1..Len(s)
        <4>1. i \in 1..(Len(s) + 1) /\ j \in 1..(Len(s) + 1)
          BY <2>1
        <4>2. QED
          BY <1>1, <2>4, <4>1
      <3>1. i \in 1..Len(s) /\ t[i] = s[i]
        BY <2>1, <3>0
      <3>2. CASE j \in 1..Len(s)
        <4>1. t[j] = s[j] /\ s[i] # 0 /\ s[j] # 0
          BY <2>1, <2>4, <3>1, <3>2
        <4>2. s[i] < s[j]
          BY <1>1, <2>4, <3>1, <3>2, <4>1 DEF Counts
        <4>3. QED
          BY <3>1, <4>1, <4>2
      <3>3. CASE j = Len(s) + 1
        <4>1. s[i] # 0 /\ s[i] \in Nat /\ t[j] = f
          BY <1>1, <2>1, <2>4, <3>1, <3>3
        <4>2. s[i] <= b
          BY <1>1, <3>1, <4>1 DEF Counts
        <4>3. f = b + 1
          BY <1>2, <2>4, <4>1
        <4>4. QED
          BY <3>1, <4>1, <4>2, <4>3, SMTT(60)
      <3> QED
        BY <2>1, <3>2, <3>3
    <2>5. ASSUME NEW i \in 1..Len(t), t[i] # 0 PROVE a < t[i] /\ t[i] <= c
      <3>1. CASE i \in 1..Len(s)
        <4>1. t[i] = s[i]
          BY <2>1, <3>1
        <4>2. s[i] # 0 /\ s[i] \in Nat
          BY <1>1, <2>5, <3>1, <4>1
        <4>3. a < s[i] /\ s[i] <= b
          BY <1>1, <3>1, <4>2 DEF Counts
        <4>4. b <= c /\ c \in Nat
          BY <1>2
        <4>5. QED
          BY <4>1, <4>2, <4>3, <4>4, SMTT(60)
      <3>2. CASE i = Len(s) + 1
        BY <1>2, <2>1, <2>5, <3>2
      <3> QED
        BY <2>1, <3>1, <3>2
    <2>6. ASSUME NEW e \in Nat, a < e, e <= c PROVE Holds(t, e)
      <3>1. e = f \/ e <= b
        BY <1>2, <2>6
      <3>2. QED
        BY <1>1, <2>2, <2>3, <2>6, <3>1 DEF Counts
    <2>7. Counts(t, a, c)
      BY <2>4, <2>5, <2>6 DEF Counts
    <2> QED
      BY <2>1, <2>7, RunsCounts DEF t
  <1>3. Runs(Append(s, b + 1), a, b + 1)
    <2>1. b + 1 \in Nat
      OBVIOUS
    <2>2. QED
      BY <1>2, <2>1
  <1>4. Runs(Append(s, 0), a, b)
    BY <1>2
  <1> QED
    BY <1>3, <1>4 DEF Failure

(* The first of them taken away.                                              *)
LEMMA RunsTaking ==
    ASSUME NEW s \in Seq(Nat), s # <<>>, NEW a \in Nat, NEW b \in Nat, Runs(s, a, b)
    PROVE  \/ Head(s) = Failure /\ Runs(Tail(s), a, b)
           \/ Head(s) = a + 1 /\ a + 1 <= b /\ Runs(Tail(s), a + 1, b)
  <1>1. Counts(s, a, b) /\ Len(s) \in Nat /\ \A i \in 1..Len(s) : s[i] \in Nat
    BY RunsCounts, SMTT(60)
  <1> DEFINE t == Tail(s)
  <1>2. /\ t \in Seq(Nat) /\ Len(t) \in Nat /\ 1 \in 1..Len(s) /\ Head(s) = s[1]
        /\ Len(t) = Len(s) - 1
        /\ \A i \in 1..Len(t) : i + 1 \in 1..Len(s) /\ t[i] = s[i + 1]
    BY Taking
  <1>3. \A e : Holds(s, e) => e = Head(s) \/ Holds(t, e)
    BY HoldsTaking
  <1> HIDE DEF t
  <1>4. ASSUME NEW i \in 1..Len(t), NEW j \in 1..Len(t), i < j, t[i] # 0, t[j] # 0
        PROVE  t[i] < t[j]
    <2>1. i + 1 \in 1..Len(s) /\ j + 1 \in 1..Len(s) /\ i + 1 < j + 1
      BY <1>2, <1>4
    <2>2. s[i + 1] # 0 /\ s[j + 1] # 0 /\ t[i] = s[i + 1] /\ t[j] = s[j + 1]
      BY <1>2, <1>4
    <2> DEFINE x == i + 1
               y == j + 1
    <2>3. x \in 1..Len(s) /\ y \in 1..Len(s) /\ x < y /\ s[x] # 0 /\ s[y] # 0
      BY <2>1, <2>2
    <2> HIDE DEF x, y
    <2>4. s[x] < s[y]
      BY <1>1, <2>3 DEF Counts
    <2>5. QED
      BY <2>2, <2>4 DEF x, y
  <1>5. CASE s[1] = 0
    <2>1. Counts(t, a, b)
      <3>1. \A i \in 1..Len(t) : t[i] = 0 \/ (a < t[i] /\ t[i] <= b)
        BY <1>1, <1>2 DEF Counts
      <3>2. \A e \in Nat : a < e /\ e <= b => Holds(t, e)
        BY <1>1, <1>2, <1>3, <1>5 DEF Counts
      <3>3. QED
        BY <1>4, <3>1, <3>2 DEF Counts
    <2>2. QED
      BY <1>2, <1>5, <2>1, RunsCounts DEF t, Failure
  <1>6. CASE s[1] # 0
    <2>1. a < s[1] /\ s[1] <= b /\ s[1] \in Nat
      BY <1>1, <1>2, <1>6 DEF Counts
    <2>2. a + 1 \in Nat /\ a < a + 1 /\ a + 1 <= b
      BY <2>1
    <2>3. Holds(s, a + 1)
      BY <1>1, <2>2 DEF Counts
    <2>4. PICK j \in 1..Len(s) : s[j] = a + 1
      BY <2>3 DEF Holds
    <2>5. s[1] = a + 1
      <3>1. CASE j = 1
        BY <2>4, <3>1
      <3>2. CASE j # 1
        <4>1. 1 < j /\ s[j] # 0
          BY <2>4, <3>2
        <4>2. s[1] < s[j]
          BY <1>1, <1>2, <1>6, <4>1 DEF Counts
        <4>3. QED
          BY <2>1, <2>4, <4>2, SMTT(60)
      <3> QED
        BY <3>1, <3>2
    <2>6. \A i \in 1..Len(t) : t[i] = 0 \/ (a + 1 < t[i] /\ t[i] <= b)
      <3> SUFFICES ASSUME NEW i \in 1..Len(t), t[i] # 0 PROVE a + 1 < t[i] /\ t[i] <= b
        OBVIOUS
      <3>1. i + 1 \in 1..Len(s) /\ t[i] = s[i + 1] /\ 1 < i + 1
        BY <1>2
      <3>2. s[1] < s[i + 1] /\ s[i + 1] <= b
        BY <1>1, <1>2, <1>6, <3>1 DEF Counts
      <3>3. QED
        BY <2>5, <3>1, <3>2
    <2>7. \A e \in Nat : a + 1 < e /\ e <= b => Holds(t, e)
      BY <1>1, <1>2, <1>3, <2>5 DEF Counts
    <2>8. Counts(t, a + 1, b)
      BY <1>4, <2>6, <2>7 DEF Counts
    <2>9. QED
      BY <1>2, <2>2, <2>5, <2>8, RunsCounts DEF t
  <1> QED
    BY <1>5, <1>6

-----------------------------------------------------------------------------
(* The log has the first m events, the subscribers were sent the first n of   *)
(* them, those up to the k-th are in the channel between, and the rest of     *)
(* what was emitted is in fanoutEvents.                                       *)
Chained(m, n, k) ==
    /\ n <= k /\ k <= m /\ m <= Len(emitted) /\ recorded \in Seq(Nat)
    /\ Runs(recorded, 0, m) /\ Runs(published, 0, n) /\ Runs(src, n, k)
    /\ out1 = "take" => k = m
    /\ out1 = "send" => m = k + 1 /\ held1 = k + 1
    /\ Len(fan) = Len(emitted) - m /\ \A i \in 1..Len(fan) : fan[i] = m + i

Chain == \E m, n, k \in Nat : Chained(m, n, k)

(* A step that moves no event, or after which no event moves any more.        *)
LEMMA ChainQuiet ==
    ASSUME Chain, UNCHANGED <<emitted, fan, src, recorded, published>>,
           UNCHANGED <<out1, held1>> \/ out1' = "gone"
    PROVE  Chain'
  <1>1. PICK m, n, k \in Nat : Chained(m, n, k)
    BY DEF Chain
  <1>2. Chained(m, n, k)'
    BY <1>1 DEF Chained
  <1>3. QED
    BY <1>2 DEF Chain

(* A failure is not one of the events.                                        *)
LEMMA ChainFailure ==
    ASSUME Typed, Chain, UNCHANGED <<emitted, fan, fanout>>,
           recorded' \in {recorded, Append(recorded, Failure)},
           src' \in {src, Append(src, Failure)},
           published' \in {published, Append(published, Failure)}
    PROVE  Chain'
  <1>1. PICK m, n, k \in Nat : Chained(m, n, k)
    BY DEF Chain
  <1>2. recorded \in Seq(Nat) /\ src \in Seq(Nat) /\ published \in Seq(Nat)
    BY <1>1 DEF Chained, Typed, Known
  <1>3. recorded' \in Seq(Nat)
    <2>1. Append(recorded, 0) \in Seq(Nat)
      BY <1>2
    <2>2. QED
      BY <1>2, <2>1 DEF Failure
  <1>4. 0 <= m /\ 0 <= n /\ n <= k
    BY <1>1 DEF Chained
  <1>5. Runs(recorded', 0, m)
    BY <1>1, <1>2, <1>4, RunsAdding, ZenonT(60) DEF Chained
  <1>6. Runs(published', 0, n)
    BY <1>1, <1>2, <1>4, RunsAdding, ZenonT(60) DEF Chained
  <1>7. Runs(src', n, k)
    BY <1>1, <1>2, <1>4, RunsAdding, ZenonT(60) DEF Chained
  <1>8. Chained(m, n, k)'
    BY <1>1, <1>3, <1>5, <1>6, <1>7 DEF Chained, fanout
  <1>9. QED
    BY <1>8 DEF Chain

(* A new event is the last in fanoutEvents.                                   *)
LEMMA ChainEmit ==
    ASSUME Typed, Chain, NEW kind \in {"text", "end"}, Emit(kind),
           UNCHANGED <<fanout, src, recorded, published>>
    PROVE  Chain'
  <1>1. PICK m, n, k \in Nat : Chained(m, n, k)
    BY DEF Chain
  <1> DEFINE e == Len(emitted) + 1
  <1>2. Len(emitted) \in Nat /\ Len(emitted') = e /\ e \in Nat
    BY KnownLater DEF Typed
  <1>3. fan' = Append(fan, e) /\ fan \in Seq(Nat)
    BY <1>2 DEF Emit, Typed, Known
  <1>4. /\ Len(fan') = Len(fan) + 1 /\ fan'[Len(fan) + 1] = e
        /\ \A i \in 1..Len(fan) : fan'[i] = fan[i]
        /\ \A i \in 1..Len(fan') : i = Len(fan) + 1 \/ i \in 1..Len(fan)
    BY <1>2, <1>3, Adding
  <1>5. Len(fan) = Len(emitted) - m /\ m <= Len(emitted)
    BY <1>1 DEF Chained
  <1>6. m <= Len(emitted') /\ Len(fan') = Len(emitted') - m
    BY <1>2, <1>4, <1>5
  <1>7. \A i \in 1..Len(fan') : fan'[i] = m + i
    <2>1. ASSUME NEW i \in 1..Len(fan), i \in 1..Len(fan') PROVE fan'[i] = m + i
      BY <1>1, <1>4, <2>1 DEF Chained
    <2>2. fan'[Len(fan) + 1] = m + (Len(fan) + 1)
      BY <1>2, <1>4, <1>5
    <2>3. QED
      BY <1>4, <2>1, <2>2
  <1>8. Chained(m, n, k)'
    BY <1>1, <1>6, <1>7 DEF Chained, fanout
  <1>9. QED
    BY <1>8 DEF Chain

(* Every step keeps the events in their order on the whole way.               *)
LEMMA ChainStep == Typed /\ Chain /\ [Next]_vars => Chain'
  <1> SUFFICES ASSUME Typed, Chain, [Next]_vars PROVE Chain'
    OBVIOUS
  <1> USE DEF main, fanout, wrap, readers, ways, contexts
  <1>0. PICK m, n, k \in Nat : Chained(m, n, k)
    BY DEF Chain
  <1>x. Len(emitted) \in Nat /\ m <= Len(emitted) /\ Len(fan) = Len(emitted) - m
    BY <1>0 DEF Chained, Typed
  <1>1. CASE EmitText
    <2>1. PICK kind \in {"text", "end"} : Emit(kind)
      BY <1>1 DEF EmitText
    <2>2. UNCHANGED <<fanout, src, recorded, published>>
      BY <1>1 DEF EmitText
    <2>3. QED
      BY <2>1, <2>2, ChainEmit
  <1>2. CASE Send
    BY <1>2, ChainQuiet DEF Send
  <1>3. CASE SendReturns
    BY <1>3, ChainQuiet DEF SendReturns
  <1>4. CASE SendCanceled
    BY <1>4, ChainQuiet DEF SendCanceled
  <1>5. CASE StopSend
    BY <1>5, ChainQuiet DEF StopSend
  <1>6. CASE WorkCanceled
    BY <1>6, ChainQuiet DEF WorkCanceled
  <1>7. CASE EmitCanceled
    <2>1. PICK kind \in {"text", "end"} : Emit(kind)
      BY <1>7 DEF EmitCanceled
    <2>2. UNCHANGED <<fanout, src, recorded, published>>
      BY <1>7 DEF EmitCanceled
    <2>3. QED
      BY <2>1, <2>2, ChainEmit
  <1>8. CASE EmitDone
    <2>1. PICK kind \in {"text", "end"} : Emit(kind)
      BY <1>8 DEF EmitDone
    <2>2. UNCHANGED <<fanout, src, recorded, published>>
      BY <1>8 DEF EmitDone
    <2>3. QED
      BY <2>1, <2>2, ChainEmit
  <1>9. CASE Fails
    BY <1>9, ChainQuiet DEF Fails
  <1>10. CASE CloseFanout
    BY <1>10, ChainQuiet DEF CloseFanout
  <1>11. CASE FanoutDone
    BY <1>11, ChainQuiet DEF FanoutDone
  <1>12. CASE FanoutAbandoned
    BY <1>12, ChainQuiet DEF FanoutAbandoned
  <1>13. CASE Report
    <2>1. /\ recorded' \in {recorded, Append(recorded, Failure)}
          /\ UNCHANGED <<emitted, fan, fanout, src, published>>
      BY <1>13 DEF Report
    <2>2. QED
      BY <2>1, ChainFailure
  <1>14. CASE Tell
    <2>1. /\ src' \in {src, Append(src, Failure)}
          /\ UNCHANGED <<emitted, fan, fanout, recorded, published>>
      BY <1>14 DEF Tell
    <2>2. QED
      BY <2>1, ChainFailure
  <1>15. CASE CloseSrc
    BY <1>15, ChainQuiet DEF CloseSrc
  <1>16. CASE StreamPush
    <2>1. PICK kind \in {"text", "end"} : Emit(kind)
      BY <1>16 DEF StreamPush
    <2>2. UNCHANGED <<fanout, src, recorded, published>>
      BY <1>16 DEF StreamPush
    <2>3. QED
      BY <2>1, <2>2, ChainEmit
  <1>17. CASE StreamPanics
    BY <1>17, ChainQuiet DEF StreamPanics
  <1>18. CASE StreamEnds
    BY <1>18, ChainQuiet DEF StreamEnds
  <1>19. CASE Record
    <2>1. /\ out1 = "take" /\ fan # <<>> /\ fan' = Tail(fan) /\ held1' = Head(fan) /\ out1' = "send"
          /\ recorded' = Append(recorded, Head(fan)) /\ UNCHANGED <<emitted, src, published>>
      BY <1>19 DEF Record
    <2>2. /\ 1 \in 1..Len(fan) /\ Head(fan) = fan[1] /\ Len(fan') = Len(fan) - 1
          /\ \A i \in 1..Len(fan') : i + 1 \in 1..Len(fan) /\ fan'[i] = fan[i + 1]
      BY <2>1, Taking DEF Typed, Known
    <2>3. /\ Head(fan) = m + 1 /\ m + 1 \in Nat /\ m + 1 <= Len(emitted) /\ k = m
          /\ Len(fan') = Len(emitted) - (m + 1)
      BY <1>0, <2>1, <2>2, <1>x DEF Chained, Typed
    <2>4. \A i \in 1..Len(fan') : fan'[i] = (m + 1) + i
      BY <1>0, <2>2, SMTT(60) DEF Chained
    <2>5. recorded' \in Seq(Nat) /\ Runs(recorded', 0, m + 1)
      BY <1>0, <2>1, <2>3, RunsAdding, Adding DEF Chained
    <2>6. Chained(m + 1, n, k)'
      BY <1>0, <2>1, <2>3, <2>4, <2>5 DEF Chained
    <2>7. QED
      BY <2>3, <2>6 DEF Chain
  <1>20. CASE Forward
    <2>1. /\ out1 = "send" /\ src' = Append(src, held1) /\ out1' = "take"
          /\ UNCHANGED <<emitted, fan, recorded, published, held1>>
      BY <1>20 DEF Forward
    <2>2. held1 = k + 1 /\ m = k + 1 /\ n <= k
      BY <1>0, <2>1 DEF Chained
    <2>3. Runs(src', n, m)
      BY <1>0, <2>1, <2>2, RunsAdding DEF Chained, Typed, Known
    <2>4. Chained(m, n, m)'
      BY <1>0, <2>1, <2>2, <2>3, SMTT(60) DEF Chained
    <2>5. QED
      BY <2>4 DEF Chain
  <1>21. CASE GiveUp
    BY <1>21, ChainQuiet DEF GiveUp
  <1>22. CASE Recover
    BY <1>22, ChainQuiet DEF Recover
  <1>23. CASE FanoutEnds
    BY <1>23, ChainQuiet DEF FanoutEnds
  <1>24. CASE Pub
    <2>1. /\ src # <<>> /\ src' = Tail(src) /\ published' = Append(published, Head(src))
          /\ UNCHANGED <<emitted, fan, recorded, fanout>>
      BY <1>24 DEF Pub
    <2>1a. /\ published \in Seq(Nat) /\ Runs(published, 0, n)
           /\ n \in Nat /\ 0 \in Nat /\ 0 <= n
      BY <1>0 DEF Chained, Typed, Known
    <2>1b. Runs(Append(published, n + 1), 0, n + 1) /\ Runs(Append(published, Failure), 0, n)
      BY <2>1a, RunsAdding
    <2>2. CASE Head(src) = Failure /\ Runs(Tail(src), n, k)
      <3>1. Runs(published', 0, n)
        BY <2>1, <2>1b, <2>2
      <3>2. Chained(m, n, k)'
        BY <1>0, <2>1, <2>2, <3>1 DEF Chained
      <3>3. QED
        BY <3>2 DEF Chain
    <2>3. CASE Head(src) = n + 1 /\ n + 1 <= k /\ Runs(Tail(src), n + 1, k)
      <3>1. Runs(published', 0, n + 1) /\ n + 1 \in Nat
        BY <2>1, <2>1a, <2>1b, <2>3
      <3>2. Chained(m, n + 1, k)'
        BY <1>0, <2>1, <2>3, <3>1 DEF Chained
      <3>3. QED
        BY <3>1, <3>2 DEF Chain
    <2>4. QED
      BY <1>0, <2>1, <2>2, <2>3, RunsTaking DEF Chained, Typed, Known
  <1>25. CASE Deliver
    BY <1>25, ChainQuiet DEF Deliver
  <1>26. CASE Drain
    BY <1>26, ChainQuiet DEF Drain
  <1>27. CASE WrapEnds
    BY <1>27, ChainQuiet DEF WrapEnds
  <1>28. CASE Read
    BY <1>28, ChainQuiet DEF Read
  <1>29. CASE ReadEnd
    <2>1. /\ published' \in {published, Append(published, Failure)}
          /\ UNCHANGED <<emitted, fan, fanout, recorded, src>>
      BY <1>29 DEF ReadEnd
    <2>2. QED
      BY <2>1, ChainFailure
  <1>30. CASE Cancel
    BY <1>30, ChainQuiet DEF Cancel
  <1>31. CASE HangUp
    BY <1>31, ChainQuiet DEF HangUp
  <1>32. CASE UNCHANGED vars
    BY <1>32, ChainQuiet DEF vars
  <1> QED
    BY <1>1, <1>2, <1>3, <1>4, <1>5, <1>6, <1>7, <1>8, <1>9, <1>10, <1>11, <1>12, <1>13,
       <1>14, <1>15, <1>16, <1>17, <1>18, <1>19, <1>20, <1>21, <1>22, <1>23, <1>24, <1>25,
       <1>26, <1>27, <1>28, <1>29, <1>30, <1>31, <1>32, ZenonT(60)
       DEF Next, Execute, Streaming, Fanout, Wrapping, Reading

(* What subscribers are sent is in the log before, in order and without a     *)
(* gap, whatever the capacities are and whatever is given up.                 *)
THEOREM LogIsAhead == Spec => []WatchersFollowLog
  <1> DEFINE Inv == Typed /\ Chain
  <1>1. Init => Inv
    <2>1. ASSUME Init PROVE Chained(0, 0, 0)
      <3>1. Runs(<<>>, 0, 0)
        BY DEF Runs, InOrder
      <3>2. QED
        BY <2>1, <3>1 DEF Init, Chained
    <2>2. QED
      BY <2>1, InitTyped DEF Chain
  <1>2. Inv /\ [Next]_vars => Inv'
    BY TypedStep, ChainStep
  <1>3. Inv => WatchersFollowLog
    <2>1. ASSUME Typed, NEW m \in Nat, NEW n \in Nat, NEW k \in Nat, Chained(m, n, k)
          PROVE  WatchersFollowLog
      <3>1. m \in 0..Len(emitted) /\ n \in 0..m
        BY <2>1 DEF Chained, Typed
      <3>2. QED
        BY <2>1, <3>1 DEF Chained, WatchersFollowLog
    <2>2. QED
      BY <2>1 DEF Chain
  <1> QED
    BY <1>1, <1>2, <1>3, PTL DEF Spec

-----------------------------------------------------------------------------
(* The whole log.                                                             *)

Closing == {"close", "drain", "report", "tell", "hang", "over"}

Told == {"tell", "hang", "over"}

(* Execute emits one end, the last thing it emits, or it fails.               *)
OneEnd ==
    /\ \A e, f \in 1..Len(emitted) : emitted[e] = "end" /\ emitted[f] = "end" => e = f
    /\ \A e \in 1..Len(emitted) : emitted[e] = "end" => pc \in Closing
    /\ pc \in Closing => result # "nil" \/ \E e \in 1..Len(emitted) : emitted[e] = "end"

(* terminalRecorded is set when the end is in the log, and before the         *)
(* deferred function there is no other in it.                                 *)
Logged ==
    /\ recorded \in Seq(Nat) /\ endRecorded \in BOOLEAN
    /\ \A i \in 1..Len(recorded) : recorded[i] <= Len(emitted)
    /\ endRecorded =>
           \E i \in 1..Len(recorded) : recorded[i] # 0 /\ emitted[recorded[i]] = "end"
    /\ ~endRecorded =>
           \A i \in 1..Len(recorded) : recorded[i] # 0 => emitted[recorded[i]] # "end"
    /\ pc \notin Told => \A i \in 1..Len(recorded) : recorded[i] # 0

(* The fan-out goroutine leaves when everything is recorded and Execute waits *)
(* for it, unless one of them gives up.                                       *)
Drained ==
    /\ gaveUp = {} /\ out1 = "gone" => fan = <<>> /\ fanClosed
    /\ gaveUp = {} /\ pc \in Told \cup {"report"} => out1 = "gone"

(* Another event that is no end.                                              *)
LEMMA OneEndText ==
    ASSUME Typed, OneEnd, Emit("text"), UNCHANGED <<pc, result>>
    PROVE  OneEnd'
  <1>1. emitted' = Append(emitted, "text") /\ Len(emitted) \in Nat
    BY DEF Emit, Typed
  <1>2. /\ \A e \in 1..Len(emitted) : e \in 1..Len(emitted') /\ emitted'[e] = emitted[e]
        /\ \A e \in 1..Len(emitted') : e \in 1..Len(emitted) \/ emitted'[e] = "text"
    BY <1>1, Adding DEF Typed
  <1>3. QED
    BY <1>2 DEF OneEnd

(* The end, which is the last event of Execute.                               *)
LEMMA OneEndLast ==
    ASSUME Typed, OneEnd, Emit("end"), pc \notin Closing, pc' \in Closing
    PROVE  OneEnd'
  <1>1. emitted' = Append(emitted, "end") /\ Len(emitted) \in Nat
    BY DEF Emit, Typed
  <1>2. /\ \A e \in 1..Len(emitted') : e = Len(emitted) + 1 \/ emitted'[e] # "end"
        /\ Len(emitted) + 1 \in 1..Len(emitted') /\ emitted'[Len(emitted) + 1] = "end"
    <2>1. /\ \A e \in 1..Len(emitted) : emitted'[e] = emitted[e]
          /\ \A e \in 1..Len(emitted') : e = Len(emitted) + 1 \/ e \in 1..Len(emitted)
          /\ Len(emitted) + 1 \in 1..Len(emitted') /\ emitted'[Len(emitted) + 1] = "end"
      BY <1>1, Adding DEF Typed
    <2>2. QED
      BY <2>1 DEF OneEnd
  <1>3. QED
    BY <1>2 DEF OneEnd

(* Every step keeps the end the last.                                         *)
LEMMA OneEndStep == Typed /\ OneEnd /\ [Next]_vars => OneEnd'
  <1> SUFFICES ASSUME Typed, OneEnd, [Next]_vars PROVE OneEnd'
    OBVIOUS
  <1> USE DEF main, fanout, wrap, readers, ways, contexts
  <1>1. CASE EmitText
    <2>1. Emit("text") /\ UNCHANGED <<pc, result>>
      BY <1>1 DEF EmitText
    <2>2. QED
      BY <2>1, OneEndText
  <1>2. CASE Send
    BY <1>2 DEF Send, OneEnd, Closing
  <1>3. CASE SendReturns
    BY <1>3 DEF SendReturns, OneEnd, Closing
  <1>4. CASE SendCanceled
    BY <1>4 DEF SendCanceled, OneEnd, Closing
  <1>5. CASE StopSend
    BY <1>5 DEF StopSend, OneEnd, Closing
  <1>6. CASE WorkCanceled
    BY <1>6 DEF WorkCanceled, OneEnd, Closing
  <1>7. CASE EmitCanceled
    <2>1. Emit("end") /\ pc \notin Closing /\ pc' \in Closing
      BY <1>7 DEF EmitCanceled, Closing
    <2>2. QED
      BY <2>1, OneEndLast
  <1>8. CASE EmitDone
    <2>1. Emit("end") /\ pc \notin Closing /\ pc' \in Closing
      BY <1>8 DEF EmitDone, Closing
    <2>2. QED
      BY <2>1, OneEndLast
  <1>9. CASE Fails
    BY <1>9 DEF Fails, OneEnd, Closing
  <1>10. CASE CloseFanout
    BY <1>10 DEF CloseFanout, OneEnd, Closing
  <1>11. CASE FanoutDone
    BY <1>11 DEF FanoutDone, OneEnd, Closing
  <1>12. CASE FanoutAbandoned
    BY <1>12 DEF FanoutAbandoned, OneEnd, Closing
  <1>13. CASE Report
    BY <1>13 DEF Report, OneEnd, Closing
  <1>14. CASE Tell
    BY <1>14 DEF Tell, OneEnd, Closing
  <1>15. CASE CloseSrc
    BY <1>15 DEF CloseSrc, OneEnd, Closing
  <1>16. CASE StreamPush
    <2>1. Emit("text") /\ UNCHANGED <<pc, result>>
      BY <1>16 DEF StreamPush
    <2>2. QED
      BY <2>1, OneEndText
  <1>17. CASE StreamPanics
    BY <1>17 DEF StreamPanics, OneEnd, Closing
  <1>18. CASE StreamEnds
    BY <1>18 DEF StreamEnds, OneEnd, Closing
  <1>19. CASE Record
    BY <1>19 DEF Record, OneEnd, Closing
  <1>20. CASE Forward
    BY <1>20 DEF Forward, OneEnd, Closing
  <1>21. CASE GiveUp
    BY <1>21 DEF GiveUp, OneEnd, Closing
  <1>22. CASE Recover
    BY <1>22 DEF Recover, OneEnd, Closing
  <1>23. CASE FanoutEnds
    BY <1>23 DEF FanoutEnds, OneEnd, Closing
  <1>24. CASE Pub
    BY <1>24 DEF Pub, OneEnd, Closing
  <1>25. CASE Deliver
    BY <1>25 DEF Deliver, OneEnd, Closing
  <1>26. CASE Drain
    BY <1>26 DEF Drain, OneEnd, Closing
  <1>27. CASE WrapEnds
    BY <1>27 DEF WrapEnds, OneEnd, Closing
  <1>28. CASE Read
    BY <1>28 DEF Read, OneEnd, Closing
  <1>29. CASE ReadEnd
    BY <1>29 DEF ReadEnd, OneEnd, Closing
  <1>30. CASE Cancel
    BY <1>30 DEF Cancel, OneEnd, Closing
  <1>31. CASE HangUp
    BY <1>31 DEF HangUp, OneEnd, Closing
  <1>32. CASE UNCHANGED vars
    BY <1>32 DEF vars, OneEnd, Closing
  <1> QED
    BY <1>1, <1>2, <1>3, <1>4, <1>5, <1>6, <1>7, <1>8, <1>9, <1>10, <1>11, <1>12, <1>13,
       <1>14, <1>15, <1>16, <1>17, <1>18, <1>19, <1>20, <1>21, <1>22, <1>23, <1>24, <1>25,
       <1>26, <1>27, <1>28, <1>29, <1>30, <1>31, <1>32, ZenonT(60)
       DEF Next, Execute, Streaming, Fanout, Wrapping, Reading

(* What is in the log stays what it was when another event is emitted.        *)
LEMMA LoggedEmit ==
    ASSUME Typed, Logged, NEW kind \in {"text", "end"}, Emit(kind),
           UNCHANGED <<recorded, endRecorded>>, pc \in Told => pc' \in Told
    PROVE  Logged'
  <1>1. /\ Len(emitted') = Len(emitted) + 1 /\ Len(emitted) \in Nat
        /\ \A i \in 1..Len(emitted) : emitted'[i] = emitted[i]
    BY KnownLater DEF Typed
  <1>2. ASSUME NEW i \in 1..Len(recorded)
        PROVE  /\ recorded[i] \in Nat /\ recorded[i] <= Len(emitted')
               /\ recorded[i] # 0 => emitted'[recorded[i]] = emitted[recorded[i]]
    <2>1. recorded[i] \in Nat /\ recorded[i] <= Len(emitted)
      BY SMTT(60) DEF Logged
    <2>2. QED
      BY <1>1, <2>1
  <1>3. pc' \notin Told => \A i \in 1..Len(recorded) : recorded[i] # 0
    BY DEF Logged, Told
  <1>4. QED
    BY <1>2, <1>3 DEF Logged

(* Every step keeps terminalRecorded true to the log.                         *)
LEMMA LoggedStep == Typed /\ Chain /\ Logged /\ [Next]_vars => Logged'
  <1> SUFFICES ASSUME Typed, Chain, Logged, [Next]_vars PROVE Logged'
    OBVIOUS
  <1> USE DEF main, fanout, wrap, readers, ways, contexts
  <1>1. CASE EmitText
    <2>1. PICK kind \in {"text", "end"} : Emit(kind)
      BY <1>1 DEF EmitText
    <2>2. UNCHANGED <<recorded, endRecorded>> /\ (pc \in Told => pc' \in Told)
      BY <1>1 DEF EmitText, Told
    <2>3. QED
      BY <2>1, <2>2, LoggedEmit
  <1>2. CASE Send
    BY <1>2 DEF Send, Logged, Told
  <1>3. CASE SendReturns
    BY <1>3 DEF SendReturns, Logged, Told
  <1>4. CASE SendCanceled
    BY <1>4 DEF SendCanceled, Logged, Told
  <1>5. CASE StopSend
    BY <1>5 DEF StopSend, Logged, Told
  <1>6. CASE WorkCanceled
    BY <1>6 DEF WorkCanceled, Logged, Told
  <1>7. CASE EmitCanceled
    <2>1. PICK kind \in {"text", "end"} : Emit(kind)
      BY <1>7 DEF EmitCanceled
    <2>2. UNCHANGED <<recorded, endRecorded>> /\ (pc \in Told => pc' \in Told)
      BY <1>7 DEF EmitCanceled, Told
    <2>3. QED
      BY <2>1, <2>2, LoggedEmit
  <1>8. CASE EmitDone
    <2>1. PICK kind \in {"text", "end"} : Emit(kind)
      BY <1>8 DEF EmitDone
    <2>2. UNCHANGED <<recorded, endRecorded>> /\ (pc \in Told => pc' \in Told)
      BY <1>8 DEF EmitDone, Told
    <2>3. QED
      BY <2>1, <2>2, LoggedEmit
  <1>9. CASE Fails
    BY <1>9 DEF Fails, Logged, Told
  <1>10. CASE CloseFanout
    BY <1>10 DEF CloseFanout, Logged, Told
  <1>11. CASE FanoutDone
    BY <1>11 DEF FanoutDone, Logged, Told
  <1>12. CASE FanoutAbandoned
    BY <1>12 DEF FanoutAbandoned, Logged, Told
  <1>13. CASE Report
    <2>1. /\ recorded' \in {recorded, Append(recorded, Failure)} /\ UNCHANGED <<emitted, endRecorded>>
          /\ pc' \in Told
      BY <1>13 DEF Report, Told
    <2>2. CASE recorded' = recorded
      BY <2>1, <2>2 DEF Logged
    <2>3. CASE recorded' = Append(recorded, Failure)
      <3>1. Append(recorded, 0) \in Seq(Nat)
        BY DEF Logged
      <3>2. /\ \A i \in 1..Len(recorded) : i \in 1..Len(recorded') /\ recorded'[i] = recorded[i]
            /\ \A i \in 1..Len(recorded') : i \in 1..Len(recorded) \/ recorded'[i] = 0
        <4>1. recorded \in Seq(Nat) /\ 0 \in Nat /\ recorded' = Append(recorded, 0)
          BY <2>3 DEF Logged, Failure
        <4>2. QED
          BY <4>1, Adding
      <3> HIDE DEF Failure
      <3>3. recorded' \in Seq(Nat) /\ endRecorded' \in BOOLEAN
        BY <2>1, <2>3, <3>1 DEF Logged, Failure
      <3>4. Len(emitted) \in Nat /\ \A i \in 1..Len(recorded') : recorded'[i] <= Len(emitted)
        BY <3>2, SMTT(60) DEF Logged, Typed
      <3>5. endRecorded =>
                \E i \in 1..Len(recorded') : recorded'[i] # 0 /\ emitted[recorded'[i]] = "end"
        BY <3>2 DEF Logged
      <3>6. ~endRecorded =>
                \A i \in 1..Len(recorded') : recorded'[i] # 0 => emitted[recorded'[i]] # "end"
        BY <3>2 DEF Logged
      <3>7. QED
        BY <2>1, <3>3, <3>4, <3>5, <3>6 DEF Logged
    <2>4. QED
      BY <2>1, <2>2, <2>3
  <1>14. CASE Tell
    BY <1>14 DEF Tell, Logged, Told
  <1>15. CASE CloseSrc
    BY <1>15 DEF CloseSrc, Logged, Told
  <1>16. CASE StreamPush
    <2>1. PICK kind \in {"text", "end"} : Emit(kind)
      BY <1>16 DEF StreamPush
    <2>2. UNCHANGED <<recorded, endRecorded>> /\ (pc \in Told => pc' \in Told)
      BY <1>16 DEF StreamPush, Told
    <2>3. QED
      BY <2>1, <2>2, LoggedEmit
  <1>17. CASE StreamPanics
    BY <1>17 DEF StreamPanics, Logged, Told
  <1>18. CASE StreamEnds
    BY <1>18 DEF StreamEnds, Logged, Told
  <1>19. CASE Record
    <2>1. /\ fan # <<>> /\ recorded' = Append(recorded, Head(fan)) /\ UNCHANGED <<emitted, pc>>
          /\ endRecorded' = (endRecorded \/ IsEnd(Head(fan)))
      BY <1>19 DEF Record
    <2> DEFINE e == Head(fan)
    <2>2. e \in Nat /\ e <= Len(emitted) /\ e # 0
      <3>1. e = fan[1] /\ 1 \in 1..Len(fan)
        <4>1. fan \in Seq(Nat)
          BY DEF Typed, Known
        <4>2. QED
          BY <2>1, <4>1, Taking
      <3>2. fan[1] \in Nat /\ fan[1] <= Len(emitted)
        BY <3>1, SMTT(60) DEF Typed, Known
      <3>3. fan[1] # 0
        <4>1. PICK m, n, k \in Nat : Chained(m, n, k)
          BY DEF Chain
        <4>2. fan[1] = m + 1
          BY <3>1, <4>1 DEF Chained
        <4>3. QED
          BY <4>1, <4>2
      <3>4. QED
        BY <3>1, <3>2, <3>3
    <2> HIDE DEF e
    <2>3. Append(recorded, e) \in Seq(Nat)
      BY <2>2 DEF Logged
    <2>4. /\ \A i \in 1..Len(recorded) : i \in 1..Len(recorded') /\ recorded'[i] = recorded[i]
          /\ \A i \in 1..Len(recorded') : i \in 1..Len(recorded) \/ recorded'[i] = e
          /\ \E i \in 1..Len(recorded') : recorded'[i] = e
      <3>1. recorded' = Append(recorded, e) /\ recorded \in Seq(Nat)
        BY <2>1 DEF Logged, e
      <3>2. QED
        BY <2>2, <3>1, Adding, SMTT(60)
    <2>5. IsEnd(e) <=> emitted[e] = "end"
      BY <2>2 DEF IsEnd, Failure
    <2>6. endRecorded' <=> endRecorded \/ emitted[e] = "end"
      BY <2>1, <2>5 DEF e, Logged
    <2>7. QED
      BY <2>1, <2>2, <2>3, <2>4, <2>6, ZenonT(60) DEF Logged, e
  <1>20. CASE Forward
    BY <1>20 DEF Forward, Logged, Told
  <1>21. CASE GiveUp
    BY <1>21 DEF GiveUp, Logged, Told
  <1>22. CASE Recover
    BY <1>22 DEF Recover, Logged, Told
  <1>23. CASE FanoutEnds
    BY <1>23 DEF FanoutEnds, Logged, Told
  <1>24. CASE Pub
    BY <1>24 DEF Pub, Logged, Told
  <1>25. CASE Deliver
    BY <1>25 DEF Deliver, Logged, Told
  <1>26. CASE Drain
    BY <1>26 DEF Drain, Logged, Told
  <1>27. CASE WrapEnds
    BY <1>27 DEF WrapEnds, Logged, Told
  <1>28. CASE Read
    BY <1>28 DEF Read, Logged, Told
  <1>29. CASE ReadEnd
    BY <1>29 DEF ReadEnd, Logged, Told
  <1>30. CASE Cancel
    BY <1>30 DEF Cancel, Logged, Told
  <1>31. CASE HangUp
    BY <1>31 DEF HangUp, Logged, Told
  <1>32. CASE UNCHANGED vars
    BY <1>32 DEF vars, Logged, Told
  <1> QED
    BY <1>1, <1>2, <1>3, <1>4, <1>5, <1>6, <1>7, <1>8, <1>9, <1>10, <1>11, <1>12, <1>13,
       <1>14, <1>15, <1>16, <1>17, <1>18, <1>19, <1>20, <1>21, <1>22, <1>23, <1>24, <1>25,
       <1>26, <1>27, <1>28, <1>29, <1>30, <1>31, <1>32, ZenonT(60)
       DEF Next, Execute, Streaming, Fanout, Wrapping, Reading

(* The fan-out goroutine leaves only when it has recorded everything.         *)
LEMMA DrainedStep == StreamsKept /\ EndPublished /\ Drained /\ [Next]_vars => Drained'
  <1> SUFFICES ASSUME StreamsKept, EndPublished, Drained, [Next]_vars PROVE Drained'
    OBVIOUS
  <1> USE DEF main, fanout, wrap, readers, ways, contexts, StreamsKept, EndPublished
  <1>1. CASE EmitText
    BY <1>1 DEF EmitText, Emit, Drained, Told
  <1>2. CASE Send
    BY <1>2 DEF Send, Drained, Told
  <1>3. CASE SendReturns
    BY <1>3 DEF SendReturns, Drained, Told
  <1>4. CASE SendCanceled
    BY <1>4 DEF SendCanceled, Drained, Told
  <1>5. CASE StopSend
    BY <1>5 DEF StopSend, Drained, Told
  <1>6. CASE WorkCanceled
    BY <1>6 DEF WorkCanceled, Drained, Told
  <1>7. CASE EmitCanceled
    BY <1>7 DEF EmitCanceled, Emit, Drained, Told
  <1>8. CASE EmitDone
    BY <1>8 DEF EmitDone, Emit, Drained, Told
  <1>9. CASE Fails
    BY <1>9 DEF Fails, Drained, Told
  <1>10. CASE CloseFanout
    BY <1>10 DEF CloseFanout, Drained, Told
  <1>11. CASE FanoutDone
    BY <1>11 DEF FanoutDone, Drained, Told
  <1>12. CASE FanoutAbandoned
    BY <1>12 DEF FanoutAbandoned, Drained, Told
  <1>13. CASE Report
    BY <1>13 DEF Report, Drained, Told
  <1>14. CASE Tell
    BY <1>14 DEF Tell, Drained, Told
  <1>15. CASE CloseSrc
    BY <1>15 DEF CloseSrc, Drained, Told
  <1>16. CASE StreamPush
    BY <1>16 DEF StreamPush, Emit, Drained, Told
  <1>17. CASE StreamPanics
    BY <1>17 DEF StreamPanics, Drained, Told
  <1>18. CASE StreamEnds
    BY <1>18 DEF StreamEnds, Drained, Told
  <1>19. CASE Record
    BY <1>19 DEF Record, Drained, Told
  <1>20. CASE Forward
    BY <1>20 DEF Forward, Drained, Told
  <1>21. CASE GiveUp
    BY <1>21 DEF GiveUp, Drained, Told
  <1>22. CASE Recover
    BY <1>22 DEF Recover, Drained, Told
  <1>23. CASE FanoutEnds
    BY <1>23 DEF FanoutEnds, Drained, Told
  <1>24. CASE Pub
    BY <1>24 DEF Pub, Drained, Told
  <1>25. CASE Deliver
    BY <1>25 DEF Deliver, Drained, Told
  <1>26. CASE Drain
    BY <1>26 DEF Drain, Drained, Told
  <1>27. CASE WrapEnds
    BY <1>27 DEF WrapEnds, Drained, Told
  <1>28. CASE Read
    BY <1>28 DEF Read, Drained, Told
  <1>29. CASE ReadEnd
    BY <1>29 DEF ReadEnd, Drained, Told
  <1>30. CASE Cancel
    BY <1>30 DEF Cancel, Drained, Told
  <1>31. CASE HangUp
    BY <1>31 DEF HangUp, Drained, Told
  <1>32. CASE UNCHANGED vars
    BY <1>32 DEF vars, Drained, Told
  <1> QED
    BY <1>1, <1>2, <1>3, <1>4, <1>5, <1>6, <1>7, <1>8, <1>9, <1>10, <1>11, <1>12, <1>13,
       <1>14, <1>15, <1>16, <1>17, <1>18, <1>19, <1>20, <1>21, <1>22, <1>23, <1>24, <1>25,
       <1>26, <1>27, <1>28, <1>29, <1>30, <1>31, <1>32, ZenonT(60)
       DEF Next, Execute, Streaming, Fanout, Wrapping, Reading

(* When Execute has reported and nobody gave up, the log and what was emitted *)
(* stay.                                                                      *)
LEMMA ToldStays ==
    ASSUME StreamsKept, fanClosed, out1 = "gone", pc \in Told, [Next]_vars
    PROVE  UNCHANGED <<emitted, recorded>>
  <1> USE DEF Told, StreamsKept, main, fanout, wrap, readers, ways, contexts
  <1>1. CASE Execute
    BY <1>1 DEF Execute, EmitText, Send, SendReturns, SendCanceled, StopSend, WorkCanceled,
       EmitCanceled, EmitDone, Fails, CloseFanout, FanoutDone, FanoutAbandoned, Report, Tell,
       CloseSrc
  <1>2. CASE Streaming
    BY <1>2 DEF Streaming, StreamPush, StreamPanics, StreamEnds
  <1>3. CASE Fanout
    BY <1>3 DEF Fanout, Record, Forward, GiveUp, Recover, FanoutEnds
  <1>4. CASE Wrapping
    BY <1>4 DEF Wrapping, Pub, Deliver, Drain, WrapEnds
  <1>5. CASE Reading
    BY <1>5 DEF Reading, Read, ReadEnd
  <1>6. CASE Cancel \/ HangUp
    BY <1>6 DEF Cancel, HangUp
  <1>7. CASE UNCHANGED vars
    BY <1>7 DEF vars
  <1> QED
    BY <1>1, <1>2, <1>3, <1>4, <1>5, <1>6, <1>7 DEF Next

(* What was given up stays so, and Execute reports once.                      *)
LEMMA ToldOnce ==
    ASSUME [Next]_vars, pc' \in Told, gaveUp' = {}
    PROVE  gaveUp = {} /\ (Report \/ pc \in Told)
  <1> USE DEF Told, main, fanout, wrap, readers, ways, contexts
  <1>1. CASE Execute
    BY <1>1 DEF Execute, EmitText, Send, SendReturns, SendCanceled, StopSend, WorkCanceled,
       EmitCanceled, EmitDone, Fails, CloseFanout, FanoutDone, FanoutAbandoned, Report, Tell,
       CloseSrc
  <1>2. CASE Streaming
    BY <1>2 DEF Streaming, StreamPush, StreamPanics, StreamEnds
  <1>3. CASE Fanout
    BY <1>3 DEF Fanout, Record, Forward, GiveUp, Recover, FanoutEnds
  <1>4. CASE Wrapping
    BY <1>4 DEF Wrapping, Pub, Deliver, Drain, WrapEnds
  <1>5. CASE Reading
    BY <1>5 DEF Reading, Read, ReadEnd
  <1>6. CASE Cancel \/ HangUp
    BY <1>6 DEF Cancel, HangUp
  <1>7. CASE UNCHANGED vars
    BY <1>7 DEF vars
  <1> QED
    BY <1>1, <1>2, <1>3, <1>4, <1>5, <1>6, <1>7 DEF Next

(* When all was recorded, the deferred function adds its failure to a log     *)
(* that has no end, and nothing to one that has.                              *)
LEMMA ReportWhole ==
    ASSUME Typed, Chain, OneEnd, Logged, Drained, Report, gaveUp = {}
    PROVE  LogIsWhole'
  <1>1. /\ pc = "report" /\ UNCHANGED <<emitted, gaveUp>>
        /\ recorded' = IF Reports THEN Append(recorded, Failure) ELSE recorded
    BY DEF Report, main, ways
  <1> DEFINE OneOf(s) == \E i \in DOMAIN s : \A j \in DOMAIN s : IsEnd(s[j]) <=> j = i
  <1>0. Runs(recorded', 0, Len(emitted)) /\ OneOf(recorded') => LogIsWhole'
    <2> SUFFICES ASSUME Runs(recorded', 0, Len(emitted)), OneOf(recorded') PROVE LogIsWhole'
      OBVIOUS
    <2>1. Runs(recorded', 0, Len(emitted'))
      BY <1>1
    <2>2. \E i \in DOMAIN recorded' : \A j \in DOMAIN recorded' :
             (recorded'[j] = Failure \/ emitted'[recorded'[j]] = "end") <=> j = i
      <3>1. emitted' = emitted
        BY <1>1
      <3>2. \E i \in DOMAIN recorded' : \A j \in DOMAIN recorded' :
               (recorded'[j] = Failure \/ emitted[recorded'[j]] = "end") <=> j = i
        BY Zenon DEF IsEnd
      <3>3. QED
        BY <3>1, <3>2
    <2>3. QED
      BY <2>1, <2>2, Zenon DEF LogIsWhole, IsEnd
  <1> HIDE DEF OneOf
  <1>2. fan = <<>> /\ out1 = "gone"
    BY <1>1 DEF Drained
  <1>3. Len(emitted) \in Nat /\ recorded \in Seq(Nat) /\ Len(recorded) \in Nat
    BY SMTT(60) DEF Typed, Logged
  <1>4. Runs(recorded, 0, Len(emitted))
    <2>1. PICK m, n, k \in Nat : Chained(m, n, k)
      BY DEF Chain
    <2>2. m = Len(emitted)
      <3>1. Len(fan) = 0 /\ Len(fan) = Len(emitted) - m
        BY <1>2, <2>1 DEF Chained
      <3>2. QED
        BY <1>3, <3>1
    <2>3. QED
      BY <2>1, <2>2 DEF Chained
  <1>5. Counts(recorded, 0, Len(emitted))
    BY <1>3, <1>4, RunsCounts
  <1>6. ASSUME NEW i \in 1..Len(recorded)
        PROVE  recorded[i] \in 1..Len(emitted) /\ (IsEnd(recorded[i]) <=> emitted[recorded[i]] = "end")
    <2>1. recorded[i] # 0 /\ recorded[i] \in Nat /\ recorded[i] <= Len(emitted)
      BY <1>1, <1>3, SMTT(60) DEF Logged, Told
    <2>2. QED
      BY <1>3, <2>1 DEF IsEnd, Failure
  <1>7. CASE endRecorded
    <2>1. recorded' = recorded
      BY <1>1, <1>7 DEF Reports
    <2>2. PICK i \in 1..Len(recorded) : emitted[recorded[i]] = "end"
      BY <1>7 DEF Logged
    <2>3. ASSUME NEW j \in 1..Len(recorded), IsEnd(recorded[j]) PROVE j = i
      <3>1. recorded[j] = recorded[i]
        BY <1>6, <2>2, <2>3 DEF OneEnd
      <3>2. recorded[i] \in Nat /\ recorded[j] \in Nat /\ recorded[i] # 0 /\ recorded[j] # 0
        BY <1>6
      <3>3. ~(i < j) /\ ~(j < i)
        BY <1>5, <3>1, <3>2 DEF Counts
      <3>4. QED
        BY <3>3
    <2>4. OneOf(recorded)
      <3>1. IsEnd(recorded[i]) /\ DOMAIN recorded = 1..Len(recorded)
        BY <1>3, <1>6, <2>2
      <3>2. i \in DOMAIN recorded /\ \A j \in DOMAIN recorded : IsEnd(recorded[j]) <=> j = i
        BY <2>3, <3>1
      <3>3. QED
        BY <3>2 DEF OneOf
    <2>5. QED
      BY <1>0, <1>4, <2>1, <2>4
  <1>8. CASE ~endRecorded
    <2>1. \A i \in 1..Len(recorded) : ~IsEnd(recorded[i])
      BY <1>6, <1>8 DEF Logged
    <2>2. result # "nil"
      <3>1. ASSUME NEW e \in 1..Len(emitted) PROVE emitted[e] # "end"
        <4>1. e \in Nat /\ 0 < e /\ e <= Len(emitted)
          BY <1>3, <3>1
        <4>2. Holds(recorded, e)
          BY <1>5, <4>1 DEF Counts
        <4>3. PICK i \in 1..Len(recorded) : recorded[i] = e
          BY <4>2 DEF Holds
        <4>4. QED
          BY <1>6, <2>1, <4>3
      <3>2. QED
        BY <1>1, <3>1 DEF OneEnd, Closing
    <2>3. recorded' = Append(recorded, Failure)
      BY <1>1, <1>8, <2>2 DEF Reports
    <2>4. Runs(recorded', 0, Len(emitted))
      BY <1>3, <1>4, <2>3, RunsAdding
    <2> DEFINE l == Len(recorded) + 1
    <2>5. Append(recorded, 0) \in Seq(Nat)
      BY <1>3
    <2>6. recorded' \in Seq(Nat) /\ DOMAIN recorded' = 1..Len(recorded')
      BY <2>3, <2>5 DEF Failure
    <2>7. /\ \A i \in 1..Len(recorded) : recorded'[i] = recorded[i]
          /\ \A i \in 1..Len(recorded') : i = l \/ i \in 1..Len(recorded)
          /\ l \in 1..Len(recorded') /\ recorded'[l] = 0
      <3>1. recorded' = Append(recorded, 0) /\ 0 \in Nat
        BY <2>3 DEF Failure
      <3>2. QED
        BY <1>3, <3>1, Adding
    <2>8. l \notin 1..Len(recorded)
      BY <1>3
    <2> HIDE DEF l
    <2>9. \A j \in 1..Len(recorded') : IsEnd(recorded'[j]) <=> j = l
      BY <2>1, <2>7, <2>8 DEF IsEnd, Failure
    <2>10. OneOf(recorded')
      <3>1. l \in DOMAIN recorded' /\ \A j \in DOMAIN recorded' : IsEnd(recorded'[j]) <=> j = l
        BY <2>6, <2>7, <2>9
      <3>2. QED
        BY <3>1 DEF OneOf
    <2>11. QED
      BY <1>0, <2>4, <2>10
  <1> QED
    BY <1>7, <1>8 DEF Logged

(* A run whose waits were not given up leaves all of its events in the log,   *)
(* in order, and one end of them, whatever the capacities are.                *)
THEOREM LogEndsOnce == Spec => []LogIsWhole
  <1> DEFINE Ways == Typed /\ PublishedFirst /\ EndPublished /\ StreamsKept
             Log == Chain /\ OneEnd /\ Logged /\ Drained
             Inv == Ways /\ Log /\ LogIsWhole
  <1>1. Init => Inv
    <2>1. ASSUME Init PROVE Chained(0, 0, 0)
      <3>1. Runs(<<>>, 0, 0)
        BY DEF Runs, InOrder
      <3>2. QED
        BY <2>1, <3>1 DEF Init, Chained
    <2>2. Init => OneEnd /\ Drained
      BY DEF Init, OneEnd, Drained, Closing, Told
    <2>3. ASSUME Init PROVE Logged
      <3>1. recorded = <<>> /\ endRecorded = FALSE
        BY <2>3 DEF Init
      <3>2. recorded \in Seq(Nat) /\ Len(recorded) = 0 /\ 1..0 = {}
        BY <3>1
      <3>3. QED
        BY <3>1, <3>2 DEF Logged
    <2>4. Init => LogIsWhole /\ StreamsKept
      BY DEF Init, LogIsWhole, StreamsKept
    <2>5. QED
      BY <2>1, <2>2, <2>3, <2>4, InitTyped DEF Chain
  <1>2. Inv /\ [Next]_vars => Inv'
    <2> SUFFICES ASSUME Inv, [Next]_vars PROVE Inv'
      OBVIOUS
    <2>1. Ways' /\ Log'
      BY TypedStep, PublishedStep, EndStep, StreamsStep, ChainStep, OneEndStep, LoggedStep,
         DrainedStep
    <2>2. LogIsWhole'
      <3>1. CASE pc' \in Told /\ gaveUp' = {}
        <4>1. gaveUp = {} /\ (Report \/ pc \in Told)
          BY <3>1, ToldOnce
        <4>2. CASE Report
          BY <4>1, <4>2, ReportWhole
        <4>3. CASE pc \in Told
          <5>1. out1 = "gone" /\ fanClosed
            BY <4>1, <4>3 DEF Drained
          <5>2. UNCHANGED <<emitted, recorded>>
            BY <4>3, <5>1, ToldStays
          <5>3. LogIsWhole
            OBVIOUS
          <5>4. QED
            BY <4>1, <4>3, <5>2, <5>3, ZenonT(60) DEF LogIsWhole, Told, IsEnd
        <4> QED
          BY <4>1, <4>2, <4>3
      <3>2. CASE ~(pc' \in Told /\ gaveUp' = {})
        BY <3>2, Zenon DEF LogIsWhole, Told
      <3> QED
        BY <3>1, <3>2
    <2> QED
      BY <2>1, <2>2
  <1> QED
    BY <1>1, <1>2, PTL DEF Spec

-----------------------------------------------------------------------------
(* Types, and that no channel holds more than it can.                         *)

(* Where everybody is, and what they have seen.                               *)
Places ==
    /\ pc \in {"work", "send", "stop", "cancel", "close", "drain", "report", "tell", "hang", "over"}
    /\ result \in {"nil", "canceled", "error"} /\ caller \in {"ipc", "send"}
    /\ stream \in {"none", "open", "done", "panicked"} /\ sends \in 0..MaxSends
    /\ out1 \in {"take", "send", "gone"} /\ out2 \in {"take", "send", "drain", "gone"}
    /\ reader \in {"reads", "gone"}
    /\ fanClosed \in BOOLEAN /\ srcClosed \in BOOLEAN /\ endRecorded \in BOOLEAN
    /\ terminated \in BOOLEAN /\ canceled \in BOOLEAN /\ hangup \in BOOLEAN
    /\ gaveUp \subseteq {"stream", "send", "drain"}

(* Nobody sends into a full channel.                                          *)
Caps == Len(fan) <= FanCap /\ Len(src) <= SrcCap /\ Len(out) <= OutCap

(* Every step keeps to the places.                                            *)
LEMMA PlacesStep == Places /\ [Next]_vars => Places'
  <1> SUFFICES ASSUME Places, [Next]_vars PROVE Places'
    OBVIOUS
  <1> USE DEF Places, main, fanout, wrap, readers, ways, contexts, IsEnd
  <1>1. CASE EmitText
    BY <1>1 DEF EmitText
  <1>2. CASE Send
    <2>1. sends' \in 0..MaxSends
      BY <1>2, StreamAssumption DEF Send
    <2>2. /\ pc' = "send" /\ stream' = "open"
          /\ UNCHANGED <<result, caller, fanout, wrap, readers, fanClosed, srcClosed, contexts,
                         gaveUp>>
      BY <1>2 DEF Send
    <2>3. QED
      BY <2>1, <2>2
  <1>3. CASE SendReturns
    BY <1>3 DEF SendReturns
  <1>4. CASE SendCanceled
    BY <1>4 DEF SendCanceled
  <1>5. CASE StopSend
    <2>1. /\ pc' = "cancel" /\ gaveUp' \in {gaveUp, gaveUp \cup {"stream"}}
          /\ UNCHANGED <<result, sends, caller, stream, fanout, wrap, readers, fanClosed, srcClosed,
                         contexts>>
      BY <1>5 DEF StopSend
    <2>2. QED
      BY <2>1
  <1>6. CASE WorkCanceled
    BY <1>6 DEF WorkCanceled
  <1>7. CASE EmitCanceled
    BY <1>7 DEF EmitCanceled
  <1>8. CASE EmitDone
    BY <1>8 DEF EmitDone
  <1>9. CASE Fails
    BY <1>9 DEF Fails
  <1>10. CASE CloseFanout
    BY <1>10 DEF CloseFanout
  <1>11. CASE FanoutDone
    BY <1>11 DEF FanoutDone
  <1>12. CASE FanoutAbandoned
    BY <1>12 DEF FanoutAbandoned
  <1>13. CASE Report
    BY <1>13 DEF Report
  <1>14. CASE Tell
    BY <1>14 DEF Tell
  <1>15. CASE CloseSrc
    BY <1>15 DEF CloseSrc
  <1>16. CASE StreamPush
    BY <1>16 DEF StreamPush
  <1>17. CASE StreamPanics
    BY <1>17 DEF StreamPanics
  <1>18. CASE StreamEnds
    BY <1>18 DEF StreamEnds
  <1>19. CASE Record
    BY <1>19 DEF Record
  <1>20. CASE Forward
    BY <1>20 DEF Forward
  <1>21. CASE GiveUp
    BY <1>21 DEF GiveUp
  <1>22. CASE Recover
    BY <1>22 DEF Recover
  <1>23. CASE FanoutEnds
    BY <1>23 DEF FanoutEnds
  <1>24. CASE Pub
    BY <1>24 DEF Pub
  <1>25. CASE Deliver
    BY <1>25 DEF Deliver
  <1>26. CASE Drain
    BY <1>26 DEF Drain
  <1>27. CASE WrapEnds
    BY <1>27 DEF WrapEnds
  <1>28. CASE Read
    BY <1>28 DEF Read
  <1>29. CASE ReadEnd
    BY <1>29 DEF ReadEnd
  <1>30. CASE Cancel
    BY <1>30 DEF Cancel
  <1>31. CASE HangUp
    BY <1>31 DEF HangUp
  <1>32. CASE UNCHANGED vars
    BY <1>32 DEF vars
  <1> QED
    BY <1>1, <1>2, <1>3, <1>4, <1>5, <1>6, <1>7, <1>8, <1>9, <1>10, <1>11, <1>12, <1>13,
       <1>14, <1>15, <1>16, <1>17, <1>18, <1>19, <1>20, <1>21, <1>22, <1>23, <1>24, <1>25,
       <1>26, <1>27, <1>28, <1>29, <1>30, <1>31, <1>32, ZenonT(60)
       DEF Next, Execute, Streaming, Fanout, Wrapping, Reading

(* Every step keeps to the capacities.                                        *)
LEMMA CapsStep == Typed /\ Caps /\ [Next]_vars => Caps'
  <1> SUFFICES ASSUME Typed, Caps, [Next]_vars PROVE Caps'
    OBVIOUS
  <1>0. /\ fan \in Seq(Nat) /\ src \in Seq(Nat) /\ out \in Seq(Nat) /\ emitted \in Seq({"text", "end"})
        /\ FanCap \in Nat /\ SrcCap \in Nat /\ OutCap \in Nat /\ held1 \in Nat /\ held2 \in Nat
    BY StreamAssumption DEF Typed, Known
  <1>a. ASSUME NEW kind \in {"text", "end"}, Emit(kind), src' = src, out' = out PROVE Caps'
    <2>1. Len(fan') = Len(fan) + 1 /\ Len(fan) < FanCap
      BY <1>0, <1>a DEF Emit
    <2>2. QED
      BY <1>0, <1>a, <2>1 DEF Caps
  <1>b. ASSUME NEW s \in Seq(Nat), s # <<>> PROVE Len(Tail(s)) \in Nat /\ Len(Tail(s)) <= Len(s)
    BY <1>b, Taking
  <1>c. ASSUME NEW s \in Seq(Nat), NEW x \in Nat PROVE Len(Append(s, x)) = Len(s) + 1
    OBVIOUS
  <1> USE DEF Caps, main, fanout, wrap, readers, ways, contexts
  <1>1. CASE EmitText
    BY <1>1, <1>a DEF EmitText
  <1>2. CASE Send
    BY <1>2 DEF Send
  <1>3. CASE SendReturns
    BY <1>3 DEF SendReturns
  <1>4. CASE SendCanceled
    BY <1>4 DEF SendCanceled
  <1>5. CASE StopSend
    BY <1>5 DEF StopSend
  <1>6. CASE WorkCanceled
    BY <1>6 DEF WorkCanceled
  <1>7. CASE EmitCanceled
    BY <1>7, <1>a DEF EmitCanceled
  <1>8. CASE EmitDone
    BY <1>8, <1>a DEF EmitDone
  <1>9. CASE Fails
    BY <1>9 DEF Fails
  <1>10. CASE CloseFanout
    BY <1>10 DEF CloseFanout
  <1>11. CASE FanoutDone
    BY <1>11 DEF FanoutDone
  <1>12. CASE FanoutAbandoned
    BY <1>12 DEF FanoutAbandoned
  <1>13. CASE Report
    BY <1>13 DEF Report
  <1>14. CASE Tell
    BY <1>14, <1>0, <1>c DEF Tell, Failure
  <1>15. CASE CloseSrc
    BY <1>15 DEF CloseSrc
  <1>16. CASE StreamPush
    BY <1>16, <1>a DEF StreamPush
  <1>17. CASE StreamPanics
    BY <1>17 DEF StreamPanics
  <1>18. CASE StreamEnds
    BY <1>18 DEF StreamEnds
  <1>19. CASE Record
    BY <1>19, <1>0, <1>b DEF Record
  <1>20. CASE Forward
    BY <1>20, <1>0, <1>c DEF Forward
  <1>21. CASE GiveUp
    BY <1>21 DEF GiveUp
  <1>22. CASE Recover
    BY <1>22 DEF Recover
  <1>23. CASE FanoutEnds
    BY <1>23 DEF FanoutEnds
  <1>24. CASE Pub
    BY <1>24, <1>0, <1>b DEF Pub
  <1>25. CASE Deliver
    BY <1>25, <1>0, <1>c DEF Deliver
  <1>26. CASE Drain
    BY <1>26 DEF Drain
  <1>27. CASE WrapEnds
    BY <1>27 DEF WrapEnds
  <1>28. CASE Read
    BY <1>28, <1>0, <1>b DEF Read
  <1>29. CASE ReadEnd
    BY <1>29 DEF ReadEnd
  <1>30. CASE Cancel
    BY <1>30 DEF Cancel
  <1>31. CASE HangUp
    BY <1>31 DEF HangUp
  <1>32. CASE UNCHANGED vars
    BY <1>32 DEF vars
  <1> QED
    BY <1>1, <1>2, <1>3, <1>4, <1>5, <1>6, <1>7, <1>8, <1>9, <1>10, <1>11, <1>12, <1>13,
       <1>14, <1>15, <1>16, <1>17, <1>18, <1>19, <1>20, <1>21, <1>22, <1>23, <1>24, <1>25,
       <1>26, <1>27, <1>28, <1>29, <1>30, <1>31, <1>32, ZenonT(60)
       DEF Next, Execute, Streaming, Fanout, Wrapping, Reading

(* Every step keeps the log's events known.                                   *)
LEMMA LogKnownStep == Typed /\ Known(recorded) /\ [Next]_vars => Known(recorded)'
  <1> SUFFICES ASSUME Typed, Known(recorded), [Next]_vars PROVE Known(recorded)'
    OBVIOUS
  <1>a. ASSUME NEW kind \in {"text", "end"}, Emit(kind), recorded' = recorded
        PROVE  Known(recorded)'
    <2>1. \A s : Known(s) => s \in Seq(Nat) /\ \A i \in 1..Len(s) : s[i] <= Len(emitted')
      BY <1>a, KnownLater DEF Typed
    <2>2. QED
      BY <1>a, <2>1 DEF Known
  <1>b. ASSUME emitted' = emitted, NEW e \in Nat, e <= Len(emitted), recorded' = Append(recorded, e)
        PROVE  Known(recorded)'
    <2>1. Known(Append(recorded, e))
      BY <1>b, KnownAdding
    <2>2. QED
      BY <1>b, <2>1 DEF Known
  <1>c. ASSUME UNCHANGED <<emitted, recorded>> PROVE Known(recorded)'
    BY <1>c DEF Known
  <1> USE DEF main, fanout, wrap, readers, ways, contexts
  <1>1. CASE EmitText
    BY <1>1, <1>a DEF EmitText
  <1>2. CASE Send
    BY <1>2, <1>c DEF Send
  <1>3. CASE SendReturns
    BY <1>3, <1>c DEF SendReturns
  <1>4. CASE SendCanceled
    BY <1>4, <1>c DEF SendCanceled
  <1>5. CASE StopSend
    BY <1>5, <1>c DEF StopSend
  <1>6. CASE WorkCanceled
    BY <1>6, <1>c DEF WorkCanceled
  <1>7. CASE EmitCanceled
    BY <1>7, <1>a DEF EmitCanceled
  <1>8. CASE EmitDone
    BY <1>8, <1>a DEF EmitDone
  <1>9. CASE Fails
    BY <1>9, <1>c DEF Fails
  <1>10. CASE CloseFanout
    BY <1>10, <1>c DEF CloseFanout
  <1>11. CASE FanoutDone
    BY <1>11, <1>c DEF FanoutDone
  <1>12. CASE FanoutAbandoned
    BY <1>12, <1>c DEF FanoutAbandoned
  <1>13. CASE Report
    <2>1. Failure \in Nat /\ Failure <= Len(emitted)
      BY DEF Failure, Typed
    <2>2. QED
      BY <1>13, <1>b, <1>c, <2>1 DEF Report
  <1>14. CASE Tell
    BY <1>14, <1>c DEF Tell
  <1>15. CASE CloseSrc
    BY <1>15, <1>c DEF CloseSrc
  <1>16. CASE StreamPush
    BY <1>16, <1>a DEF StreamPush
  <1>17. CASE StreamPanics
    BY <1>17, <1>c DEF StreamPanics
  <1>18. CASE StreamEnds
    BY <1>18, <1>c DEF StreamEnds
  <1>19. CASE Record
    <2>1. Head(fan) \in Nat /\ Head(fan) <= Len(emitted)
      BY <1>19, KnownTaking DEF Record, Typed
    <2>2. QED
      BY <1>19, <1>b, <2>1 DEF Record
  <1>20. CASE Forward
    BY <1>20, <1>c DEF Forward
  <1>21. CASE GiveUp
    BY <1>21, <1>c DEF GiveUp
  <1>22. CASE Recover
    BY <1>22, <1>c DEF Recover
  <1>23. CASE FanoutEnds
    BY <1>23, <1>c DEF FanoutEnds
  <1>24. CASE Pub
    BY <1>24, <1>c DEF Pub
  <1>25. CASE Deliver
    BY <1>25, <1>c DEF Deliver
  <1>26. CASE Drain
    BY <1>26, <1>c DEF Drain
  <1>27. CASE WrapEnds
    BY <1>27, <1>c DEF WrapEnds
  <1>28. CASE Read
    BY <1>28, <1>c DEF Read
  <1>29. CASE ReadEnd
    BY <1>29, <1>c DEF ReadEnd
  <1>30. CASE Cancel
    BY <1>30, <1>c DEF Cancel
  <1>31. CASE HangUp
    BY <1>31, <1>c DEF HangUp
  <1>32. CASE UNCHANGED vars
    BY <1>32, <1>c DEF vars
  <1> QED
    BY <1>1, <1>2, <1>3, <1>4, <1>5, <1>6, <1>7, <1>8, <1>9, <1>10, <1>11, <1>12, <1>13,
       <1>14, <1>15, <1>16, <1>17, <1>18, <1>19, <1>20, <1>21, <1>22, <1>23, <1>24, <1>25,
       <1>26, <1>27, <1>28, <1>29, <1>30, <1>31, <1>32, ZenonT(60)
       DEF Next, Execute, Streaming, Fanout, Wrapping, Reading

(* Every variable keeps to its kind, whatever the capacities are: a channel   *)
(* is never overfull, and the fan-out goroutine never forwards a failure.     *)
THEOREM TypeCorrect == Spec => []TypeOK
  <1> DEFINE Inv == Typed /\ Chain /\ Places /\ Caps /\ Known(recorded)
  <1>1. Init => Inv
    <2>1. ASSUME Init PROVE Chained(0, 0, 0)
      <3>1. Runs(<<>>, 0, 0)
        BY DEF Runs, InOrder
      <3>2. QED
        BY <2>1, <3>1 DEF Init, Chained
    <2>2. ASSUME Init PROVE Places
      <3>1. /\ pc = "work" /\ result = "nil" /\ caller \in {"ipc", "send"} /\ stream = "none"
            /\ out1 = "take" /\ out2 = "take" /\ reader = "reads" /\ gaveUp = {}
            /\ fanClosed = FALSE /\ srcClosed = FALSE /\ endRecorded = FALSE
            /\ terminated = FALSE /\ canceled = FALSE /\ hangup = FALSE
        BY <2>2 DEF Init
      <3>2. sends \in 0..MaxSends
        BY <2>2, StreamAssumption DEF Init
      <3>3. QED
        BY <3>1, <3>2 DEF Places
    <2>3. Init => Caps
      BY StreamAssumption DEF Init, Caps
    <2>4. Init => Known(recorded)
      BY DEF Init, Known
    <2>5. QED
      BY <2>1, <2>2, <2>3, <2>4, InitTyped DEF Chain
  <1>2. Inv /\ [Next]_vars => Inv'
    BY TypedStep, ChainStep, PlacesStep, CapsStep, LogKnownStep
  <1>3. Inv => TypeOK
    <2> SUFFICES ASSUME Inv PROVE TypeOK
      OBVIOUS
    <2>1. ASSUME NEW s, Known(s) PROVE s \in Seq(0..Len(emitted))
      <3>1. s \in Seq(Nat) /\ Len(s) \in Nat /\ DOMAIN s = 1..Len(s) /\ Len(emitted) \in Nat
        BY <2>1 DEF Known, Typed
      <3>2. \A i \in 1..Len(s) : s[i] \in 0..Len(emitted)
        BY <2>1, <3>1 DEF Known
      <3>3. QED
        BY <3>1, <3>2
    <2>2. \A s \in {fan, src, out, recorded, published} : s \in Seq(0..Len(emitted))
      BY <2>1 DEF Typed
    <2>3. emitted \in Seq({"text", "end"}) /\ held1 \in 0..Len(emitted) /\ held2 \in 0..Len(emitted)
      BY DEF Typed
    <2>4. out1 = "send" => held1 # Failure
      <3>1. PICK m, n, k \in Nat : Chained(m, n, k)
        BY DEF Chain
      <3>2. QED
        BY <3>1 DEF Chained, Failure
    <2>5. \A b \in {fanClosed, srcClosed, endRecorded, terminated, canceled, hangup} : b \in BOOLEAN
      BY Zenon DEF Places
    <2>6. QED
      BY <2>2, <2>3, <2>4, <2>5 DEF Places, Caps, TypeOK
  <1> QED
    BY <1>1, <1>2, <1>3, PTL DEF Spec
================================================================================
