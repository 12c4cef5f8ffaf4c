---------------------------- MODULE ToolBatchProofs ----------------------------
(* Theorems about ToolBatch, for every value of its constants.                *)
EXTENDS ToolBatch, TLAPS

Slots == [state : States, at : Nat \cup {None}, value : Nat \cup {None}]

(* The calls of a batch and what is known of each.                            *)
Typed ==
    /\ DOMAIN slots \subseteq Nat \ {0} /\ slots \in [DOMAIN slots -> Slots]
    /\ pc = "model" => DOMAIN slots = {}
    /\ cache \in [Calls -> Nat \cup {None}] /\ batch \in [DOMAIN slots -> Calls]
    /\ disk \in Nat \ {0} /\ next \in Nat /\ disk < next /\ mark \in Nat \cup {None}

(* A batch that is vetted has executed nothing, and one call at most is asked *)
(* about.                                                                     *)
Before == {"new", "cached", "marked", "invalid", "asked", "ready", "skipped"}

Vets ==
    /\ pc \in {"vet", "confirm"} => \A i \in DOMAIN slots : slots[i].state \in Before
    /\ pc = "vet" => \A i \in DOMAIN slots : slots[i].state # "asked"
    /\ \A i, j \in DOMAIN slots : In(i, "asked") /\ In(j, "asked") => i = j
    /\ pc = "run" => \A i \in DOMAIN slots :
          slots[i].state \notin {"new", "asked"} /\ (Is(i, "ask") => ~In(i, "ready"))

(* Reads have seen a version no newer than the disk's, of at least the age of *)
(* their Stat; one edit at most is past its check; and the mark is of a       *)
(* version that was seen, or is about to be, or is not on the disk any more.  *)
ReadsPast ==
    \A i \in DOMAIN slots :
        /\ slots[i].state \in {"dispatched", "stated", "read"} => Is(i, "read")
        /\ slots[i].state = "stated" => slots[i].at \in Nat /\ slots[i].at <= disk
        /\ slots[i].state = "read" =>
              /\ slots[i].at \in Nat /\ slots[i].value \in Nat
              /\ slots[i].at <= slots[i].value /\ slots[i].value <= disk

OneEdit ==
    \A i \in DOMAIN slots :
        /\ slots[i].state = "written" => slots[i].value = disk /\ disk \in seen
        /\ slots[i].state \in {"checked", "written"} =>
              /\ pc = "run"
              /\ \A j \in DOMAIN slots : j < i => slots[j].state \notin {"ready", "checked", "written"}

MarkSeen ==
    /\ mark \in Nat => mark <= disk
    /\ \/ mark \in seen \cup {None} \/ mark < disk
       \/ \E i \in DOMAIN slots : Is(i, "read") /\ In(i, "done") /\ slots[i].value = disk

Marks == ReadsPast /\ OneEdit /\ MarkSeen

(* A slot that is put keeps the slots typed.                                  *)
LEMMA Putting ==
    ASSUME Typed, NEW i \in DOMAIN slots, NEW slot \in Slots, Put(i, slot)
    PROVE  /\ DOMAIN slots' = DOMAIN slots /\ slots' \in [DOMAIN slots -> Slots]
           /\ \A j \in DOMAIN slots : slots'[j] = IF j = i THEN slot ELSE slots[j]
  BY DEF Typed, Put

(* The initial state.                                                         *)
LEMMA InitTyped == Init => Typed /\ Vets /\ NothingBeforeAnswers
  BY DEF Init, Typed, Vets, NothingBeforeAnswers, In, Executing

(* Every step keeps the values.                                               *)
LEMMA TypedStep == Typed /\ [Next]_vars => Typed'
  <1> SUFFICES ASSUME Typed, [Next]_vars PROVE Typed'
    OBVIOUS
  <1> USE BatchAssumption DEF Typed, Slots, Slot, States, Put, In, file, mind
  <1>1. CASE CallTools
    BY <1>1 DEF CallTools
  <1>2. CASE ForeignWrite
    BY <1>2, SMTT(60) DEF ForeignWrite, InEditWindow
  <1>3. CASE HandOver
    BY <1>3 DEF HandOver
  <1>4. CASE Dispatch
    BY <1>4 DEF Dispatch, Vetted, Concurrent, AsksUser
  <1>5. CASE Abort
    BY <1>5 DEF Abort, Finished
  <1>6. CASE Collect
    BY <1>6 DEF Collect, Finished, CacheAfter, AnsweredReads
  <1>7. ASSUME NEW i \in DOMAIN slots, VetCached(i) PROVE Typed'
    BY <1>7 DEF VetCached, Vetting, Cached
  <1>8. ASSUME NEW i \in DOMAIN slots, VetSchema(i) PROVE Typed'
    BY <1>8 DEF VetSchema, Vetting, Activated
  <1>9. ASSUME NEW i \in DOMAIN slots, VetInvalid(i) PROVE Typed'
    BY <1>9 DEF VetInvalid, Vetting, Fetched
  <1>10. ASSUME NEW i \in DOMAIN slots, VetReady(i) PROVE Typed'
    BY <1>10 DEF VetReady, Vetting, Fetched
  <1>11. ASSUME NEW i \in DOMAIN slots, VetAsk(i) PROVE Typed'
    BY <1>11 DEF VetAsk, Vetting, Fetched
  <1>12. ASSUME NEW i \in DOMAIN slots, Approve(i) PROVE Typed'
    BY <1>12 DEF Approve
  <1>13. ASSUME NEW i \in DOMAIN slots, Decline(i) PROVE Typed'
    BY <1>13 DEF Decline
  <1>14. ASSUME NEW i \in DOMAIN slots, ReadStat(i) PROVE Typed'
    BY <1>14 DEF ReadStat
  <1>15. ASSUME NEW i \in DOMAIN slots, ReadContent(i) PROVE Typed'
    BY <1>15, SMTT(60) DEF ReadContent
  <1>16. ASSUME NEW i \in DOMAIN slots, ReadFails(i) PROVE Typed'
    BY <1>16 DEF ReadFails
  <1>17. ASSUME NEW i \in DOMAIN slots, ReadMark(i) PROVE Typed'
    BY <1>17 DEF ReadMark, TimeOfStat
  <1>18. ASSUME NEW i \in DOMAIN slots, EditCheck(i) PROVE Typed'
    BY <1>18, SMTT(60) DEF EditCheck, Serial, Fresh
  <1>19. ASSUME NEW i \in DOMAIN slots, EditWrite(i) PROVE Typed'
    BY <1>19, SMTT(60) DEF EditWrite
  <1>20. ASSUME NEW i \in DOMAIN slots, EditFails(i) PROVE Typed'
    BY <1>20 DEF EditFails
  <1>21. ASSUME NEW i \in DOMAIN slots, EditMark(i) PROVE Typed'
    BY <1>21 DEF EditMark
  <1>22. ASSUME NEW i \in DOMAIN slots, RunCommand(i) PROVE Typed'
    BY <1>22 DEF RunCommand, Serial
  <1>23. CASE UNCHANGED vars
    BY <1>23 DEF vars
  <1> QED
    BY <1>1, <1>2, <1>3, <1>4, <1>5, <1>6, <1>7, <1>8, <1>9, <1>10, <1>11, <1>12, <1>13,
       <1>14, <1>15, <1>16, <1>17, <1>18, <1>19, <1>20, <1>21, <1>22, <1>23, ZenonT(60) DEF Next

(* Every step keeps a batch from being executed before its answers.           *)
LEMMA AnswersStep ==
    Typed /\ Vets /\ NothingBeforeAnswers /\ [Next]_vars => Vets' /\ NothingBeforeAnswers'
  <1> SUFFICES ASSUME Typed, Vets, NothingBeforeAnswers, [Next]_vars
               PROVE  Vets' /\ NothingBeforeAnswers'
    OBVIOUS
  <1> USE BatchAssumption DEF Typed, Slots, Slot, States, Put, In, Is, Before, Executing, Vets,
        NothingBeforeAnswers, file, mind
  <1>1. CASE CallTools
    BY <1>1, SMTT(60) DEF CallTools
  <1>2. CASE ForeignWrite
    BY <1>2 DEF ForeignWrite, InEditWindow
  <1>3. CASE HandOver
    BY <1>3 DEF HandOver
  <1>4. CASE Dispatch
    BY <1>4 DEF Dispatch, Vetted, Concurrent, AsksUser
  <1>5. CASE Abort
    BY <1>5 DEF Abort, Finished
  <1>6. CASE Collect
    BY <1>6 DEF Collect, Finished, CacheAfter, AnsweredReads
  <1>7. ASSUME NEW i \in DOMAIN slots, VetCached(i) PROVE Vets' /\ NothingBeforeAnswers'
    BY <1>7 DEF VetCached, Vetting, Cached
  <1>8. ASSUME NEW i \in DOMAIN slots, VetSchema(i) PROVE Vets' /\ NothingBeforeAnswers'
    BY <1>8 DEF VetSchema, Vetting, Activated
  <1>9. ASSUME NEW i \in DOMAIN slots, VetInvalid(i) PROVE Vets' /\ NothingBeforeAnswers'
    BY <1>9 DEF VetInvalid, Vetting, Fetched
  <1>10. ASSUME NEW i \in DOMAIN slots, VetReady(i) PROVE Vets' /\ NothingBeforeAnswers'
    BY <1>10 DEF VetReady, Vetting, Fetched
  <1>11. ASSUME NEW i \in DOMAIN slots, VetAsk(i) PROVE Vets' /\ NothingBeforeAnswers'
    BY <1>11 DEF VetAsk, Vetting, Fetched
  <1>12. ASSUME NEW i \in DOMAIN slots, Approve(i) PROVE Vets' /\ NothingBeforeAnswers'
    BY <1>12 DEF Approve
  <1>13. ASSUME NEW i \in DOMAIN slots, Decline(i) PROVE Vets' /\ NothingBeforeAnswers'
    BY <1>13 DEF Decline
  <1>14. ASSUME NEW i \in DOMAIN slots, ReadStat(i) PROVE Vets' /\ NothingBeforeAnswers'
    BY <1>14 DEF ReadStat
  <1>15. ASSUME NEW i \in DOMAIN slots, ReadContent(i) PROVE Vets' /\ NothingBeforeAnswers'
    BY <1>15 DEF ReadContent
  <1>16. ASSUME NEW i \in DOMAIN slots, ReadFails(i) PROVE Vets' /\ NothingBeforeAnswers'
    BY <1>16 DEF ReadFails
  <1>17. ASSUME NEW i \in DOMAIN slots, ReadMark(i) PROVE Vets' /\ NothingBeforeAnswers'
    BY <1>17 DEF ReadMark, TimeOfStat
  <1>18. ASSUME NEW i \in DOMAIN slots, EditCheck(i) PROVE Vets' /\ NothingBeforeAnswers'
    <2> HIDE DEF Vets, NothingBeforeAnswers
    <2>1. PICK st \in {"checked", "refused"} : Put(i, Slot(st, None, None))
      BY <1>18 DEF EditCheck
    <2>2. /\ UNCHANGED <<pc, batch, file>> /\ seen' = seen /\ pc = "run" /\ In(i, "ready") /\ Is(i, "edit")
          /\ \A j \in DOMAIN slots : j < i => slots[j].state \notin {"ready", "checked", "written"}
      BY <1>18 DEF EditCheck, Serial
    <2>3. /\ DOMAIN slots' = DOMAIN slots
          /\ \A j \in DOMAIN slots : slots'[j] = IF j = i THEN Slot(st, None, None) ELSE slots[j]
      BY <2>1, Putting
    <2> USE DEF Vets, NothingBeforeAnswers
    <2> HIDE DEF Put, Typed, Slots, States
    <2>4. st \in {"checked", "refused", "done", "failed"}
      BY <2>1
    <2>5. QED
      BY <2>2, <2>3, <2>4
  <1>19. ASSUME NEW i \in DOMAIN slots, EditWrite(i) PROVE Vets' /\ NothingBeforeAnswers'
    BY <1>19, SMTT(60) DEF EditWrite
  <1>20. ASSUME NEW i \in DOMAIN slots, EditFails(i) PROVE Vets' /\ NothingBeforeAnswers'
    BY <1>20 DEF EditFails
  <1>21. ASSUME NEW i \in DOMAIN slots, EditMark(i) PROVE Vets' /\ NothingBeforeAnswers'
    BY <1>21 DEF EditMark
  <1>22. ASSUME NEW i \in DOMAIN slots, RunCommand(i) PROVE Vets' /\ NothingBeforeAnswers'
    <2> HIDE DEF Vets, NothingBeforeAnswers
    <2>1. PICK st \in {"done", "failed"} : Put(i, Slot(st, None, 0))
      BY <1>22 DEF RunCommand
    <2>2. /\ UNCHANGED <<pc, batch, mark, seen>> /\ pc = "run" /\ In(i, "ready") /\ Is(i, "run")
          /\ disk' \in {disk, next}
          /\ \A j \in DOMAIN slots : j < i => slots[j].state \notin {"ready", "checked", "written"}
      BY <1>22 DEF RunCommand, Serial
    <2>3. /\ DOMAIN slots' = DOMAIN slots
          /\ \A j \in DOMAIN slots : slots'[j] = IF j = i THEN Slot(st, None, 0) ELSE slots[j]
      BY <2>1, Putting
    <2> USE DEF Vets, NothingBeforeAnswers
    <2> HIDE DEF Put, Typed, Slots, States
    <2>4. st \in {"checked", "refused", "done", "failed"}
      BY <2>1
    <2>5. QED
      BY <2>2, <2>3, <2>4
  <1>23. CASE UNCHANGED vars
    BY <1>23 DEF vars
  <1> QED
    BY <1>1, <1>2, <1>3, <1>4, <1>5, <1>6, <1>7, <1>8, <1>9, <1>10, <1>11, <1>12, <1>13,
       <1>14, <1>15, <1>16, <1>17, <1>18, <1>19, <1>20, <1>21, <1>22, <1>23, ZenonT(60) DEF Next

(* Every step keeps the mark and the reads under way behind the disk.         *)
LEMMA MarksStep ==
    ASSUME ~InWindow, Typed, Vets, Marks, [Next]_vars
    PROVE  Marks'
  <1> USE BatchAssumption DEF Typed, Slots, Slot, States, Put, In, Is, Before, Vets, Marks,
          ReadsPast, OneEdit, MarkSeen, file, mind
  <1>1. CASE CallTools
    BY <1>1, SMTT(60) DEF CallTools
  <1>2. CASE ForeignWrite
    BY <1>2, SMTT(60) DEF ForeignWrite, InEditWindow
  <1>3. CASE HandOver
    BY <1>3 DEF HandOver, Vetted
  <1>4. CASE Dispatch
    BY <1>4 DEF Dispatch, Vetted, Concurrent, AsksUser
  <1>5. CASE Abort
    BY <1>5, SMTT(60) DEF Abort, Finished
  <1>6. CASE Collect
    BY <1>6, SMTT(60) DEF Collect, Finished, CacheAfter, AnsweredReads
  <1>7. ASSUME NEW i \in DOMAIN slots, VetCached(i) PROVE Marks'
    BY <1>7 DEF VetCached, Vetting, Cached
  <1>8. ASSUME NEW i \in DOMAIN slots, VetSchema(i) PROVE Marks'
    BY <1>8, SMTT(60) DEF VetSchema, Vetting, Activated
  <1>9. ASSUME NEW i \in DOMAIN slots, VetInvalid(i) PROVE Marks'
    BY <1>9, SMTT(60) DEF VetInvalid, Vetting, Fetched
  <1>10. ASSUME NEW i \in DOMAIN slots, VetReady(i) PROVE Marks'
    BY <1>10, SMTT(60) DEF VetReady, Vetting, Fetched
  <1>11. ASSUME NEW i \in DOMAIN slots, VetAsk(i) PROVE Marks'
    BY <1>11, SMTT(60) DEF VetAsk, Vetting, Fetched
  <1>12. ASSUME NEW i \in DOMAIN slots, Approve(i) PROVE Marks'
    BY <1>12 DEF Approve
  <1>13. ASSUME NEW i \in DOMAIN slots, Decline(i) PROVE Marks'
    BY <1>13 DEF Decline
  <1>14. ASSUME NEW i \in DOMAIN slots, ReadStat(i) PROVE Marks'
    <2>1. /\ In(i, "dispatched") /\ Put(i, Slot("stated", disk, None))
          /\ UNCHANGED <<pc, batch, mark, disk, seen>>
      BY <1>14 DEF ReadStat
    <2>2. /\ DOMAIN slots' = DOMAIN slots
          /\ \A j \in DOMAIN slots : slots'[j] = IF j = i THEN Slot("stated", disk, None) ELSE slots[j]
      BY <2>1, Putting
    <2> HIDE DEF Put, Slots, States, Typed, Vets
    <2>3. ReadsPast'
      <3>1. disk \in Nat
        BY DEF Typed
      <3>2. QED
        BY <2>1, <2>2, <3>1
    <2>4. OneEdit'
      BY <2>1, <2>2
    <2>5. MarkSeen'
      BY <2>1, <2>2, SMTT(60)
    <2>6. QED
      BY <2>3, <2>4, <2>5
  <1>15. ASSUME NEW i \in DOMAIN slots, ReadContent(i) PROVE Marks'
    BY <1>15, SMTT(60) DEF ReadContent
  <1>16. ASSUME NEW i \in DOMAIN slots, ReadFails(i) PROVE Marks'
    BY <1>16, SMTT(60) DEF ReadFails
  <1>17. ASSUME NEW i \in DOMAIN slots, ReadMark(i) PROVE Marks'
    BY <1>17, SMTT(60) DEF ReadMark, TimeOfStat
  <1>18. ASSUME NEW i \in DOMAIN slots, EditCheck(i) PROVE Marks'
    <2> HIDE DEF Marks, ReadsPast, OneEdit, MarkSeen
    <2>1. PICK st \in {"checked", "refused"} : Put(i, Slot(st, None, None))
      BY <1>18 DEF EditCheck
    <2>2. /\ UNCHANGED <<pc, batch, file>> /\ seen' = seen /\ pc = "run" /\ In(i, "ready") /\ Is(i, "edit")
          /\ \A j \in DOMAIN slots : j < i => slots[j].state \notin {"ready", "checked", "written"}
      BY <1>18 DEF EditCheck, Serial
    <2>3. /\ DOMAIN slots' = DOMAIN slots
          /\ \A j \in DOMAIN slots : slots'[j] = IF j = i THEN Slot(st, None, None) ELSE slots[j]
      BY <2>1, Putting
    <2> USE DEF Marks, ReadsPast, OneEdit, MarkSeen
    <2> HIDE DEF Put, Typed, Slots, States
    <2>4. st \in {"checked", "refused", "done", "failed"}
      BY <2>1
    <2>5. QED
      BY <2>2, <2>3, <2>4, SMTT(60) DEF Typed
  <1>19. ASSUME NEW i \in DOMAIN slots, EditWrite(i) PROVE Marks'
    BY <1>19, SMTT(60) DEF EditWrite
  <1>20. ASSUME NEW i \in DOMAIN slots, EditFails(i) PROVE Marks'
    <2>1. /\ In(i, "checked") /\ UNCHANGED <<pc, batch, mark, disk, seen>>
          /\ Put(i, Slot("refused", None, None))
      BY <1>20 DEF EditFails
    <2>2. /\ DOMAIN slots' = DOMAIN slots
          /\ \A j \in DOMAIN slots : slots'[j] = IF j = i THEN Slot("refused", None, None) ELSE slots[j]
      BY <2>1, Putting
    <2> HIDE DEF Put, Slots, States, Typed, Vets
    <2>3. ReadsPast'
      <3>1. disk \in Nat
        BY DEF Typed
      <3>2. QED
        BY <2>1, <2>2, <3>1
    <2>4. OneEdit'
      BY <2>1, <2>2
    <2>5. MarkSeen'
      BY <2>1, <2>2, SMTT(60)
    <2>6. QED
      BY <2>3, <2>4, <2>5
  <1>21. ASSUME NEW i \in DOMAIN slots, EditMark(i) PROVE Marks'
    BY <1>21 DEF EditMark
  <1>22. ASSUME NEW i \in DOMAIN slots, RunCommand(i) PROVE Marks'
    <2> HIDE DEF Marks, ReadsPast, OneEdit, MarkSeen
    <2>1. PICK st \in {"done", "failed"} : Put(i, Slot(st, None, 0))
      BY <1>22 DEF RunCommand
    <2>2. /\ UNCHANGED <<pc, batch, mark, seen>> /\ pc = "run" /\ In(i, "ready") /\ Is(i, "run")
          /\ disk' \in {disk, next}
          /\ \A j \in DOMAIN slots : j < i => slots[j].state \notin {"ready", "checked", "written"}
      BY <1>22 DEF RunCommand, Serial
    <2>3. /\ DOMAIN slots' = DOMAIN slots
          /\ \A j \in DOMAIN slots : slots'[j] = IF j = i THEN Slot(st, None, 0) ELSE slots[j]
      BY <2>1, Putting
    <2> USE DEF Marks, ReadsPast, OneEdit, MarkSeen
    <2> HIDE DEF Put, Typed, Slots, States
    <2>4. st \in {"checked", "refused", "done", "failed"}
      BY <2>1
    <2>5. QED
      BY <2>2, <2>3, <2>4 DEF Typed
  <1>23. CASE UNCHANGED vars
    BY <1>23 DEF vars
  <1> QED
    BY <1>1, <1>2, <1>3, <1>4, <1>5, <1>6, <1>7, <1>8, <1>9, <1>10, <1>11, <1>12, <1>13,
       <1>14, <1>15, <1>16, <1>17, <1>18, <1>19, <1>20, <1>21, <1>22, <1>23, ZenonT(60) DEF Next

(* At first there is no mark.                                                 *)
LEMMA InitMarks == Init => Marks
  BY BatchAssumption DEF Init, Marks, ReadsPast, OneEdit, MarkSeen

-----------------------------------------------------------------------------
(* The theorems.                                                              *)

(* A batch executes nothing before every confirmation it needs is answered,   *)
(* and nothing at all when it asks the user in the background, however many   *)
(* calls it has.                                                              *)
THEOREM AnsweredFirst == Spec => []NothingBeforeAnswers
  <1>1. Init => Typed /\ Vets /\ NothingBeforeAnswers
    BY InitTyped
  <1>2. Typed /\ Vets /\ NothingBeforeAnswers /\ [Next]_vars
            => (Typed /\ Vets /\ NothingBeforeAnswers)'
    BY TypedStep, AnswersStep
  <1> QED
    BY <1>1, <1>2, PTL DEF Spec

(* The model knows the version an edit is let through on, for any number of   *)
(* reads at a time and of writes by others, as long as nobody writes between  *)
(* the write of an edit and the Stat that follows it.                         *)
THEOREM FreshSeen == ~InWindow /\ Spec => []FreshIsSeen
  <1> DEFINE Inv == Typed /\ Vets /\ NothingBeforeAnswers /\ Marks
  <1>1. Init => Inv
    BY InitTyped, InitMarks
  <1>2. ~InWindow /\ Inv /\ [Next]_vars => Inv'
    BY TypedStep, AnswersStep, MarksStep
  <1>3. Inv => FreshIsSeen
    BY BatchAssumption DEF Typed, Marks, MarkSeen, FreshIsSeen, Fresh, In
  <1>4. CASE ~InWindow
    <2>1. Inv /\ [Next]_vars => Inv'
      BY <1>2, <1>4
    <2> HIDE DEF Inv
    <2>2. QED
      BY <1>1, <1>3, <2>1, PTL DEF Spec
  <1>5. CASE InWindow
    BY <1>5
  <1> QED
    BY <1>4, <1>5
-----------------------------------------------------------------------------
(* Types.                                                                     *)

(* What Typed leaves out, and that every answer that is kept is one.          *)
Kinds ==
    /\ pc \in {"model", "vet", "confirm", "run", "over"} /\ batch \in Seq(Calls)
    /\ turnAllow \in BOOLEAN /\ unmarked \subseteq Tools /\ seen \subseteq Nat
    /\ advice \in {"none", "reread", "told", "heeded"} /\ turns \in Nat /\ foreign \in Nat
    /\ \A i \in DOMAIN slots : slots[i].state \in {"cached", "read", "done"} => slots[i].value \in Nat

(* What the model answers with is a sequence of calls.                        *)
LEMMA BatchIsSeq ==
    ASSUME NEW n \in 1..MaxBatch, NEW b \in [1..n -> Calls]
    PROVE  b \in Seq(Calls)
  BY BatchAssumption

(* Every step keeps to that.                                                  *)
LEMMA KindsStep == Typed /\ Kinds /\ [Next]_vars => Kinds'
  <1> SUFFICES ASSUME Typed, Kinds, [Next]_vars PROVE Kinds'
    OBVIOUS
  <1> USE BatchAssumption DEF Typed, Kinds, Slots, Slot, Put, In, file, mind
  <1>1. CASE CallTools
    <2>1. PICK n \in 1..MaxBatch : batch' \in [1..n -> Calls]
      BY <1>1 DEF CallTools
    <2>2. batch' \in Seq(Calls)
      BY <2>1, BatchIsSeq
    <2>3. \A i \in DOMAIN slots' : slots'[i].state = "new"
      BY <1>1 DEF CallTools
    <2>4. /\ pc' = "vet" /\ turns' \in Nat /\ advice' \in {"told", advice}
          /\ UNCHANGED <<turnAllow, unmarked, seen, foreign>>
      BY <1>1, SMTT(60) DEF CallTools
    <2>5. QED
      BY <2>2, <2>3, <2>4
  <1>2. CASE ForeignWrite
    BY <1>2, SMTT(60) DEF ForeignWrite
  <1>3. CASE HandOver
    BY <1>3 DEF HandOver
  <1>4. CASE Dispatch
    BY <1>4 DEF Dispatch
  <1>5. CASE Abort
    BY <1>5 DEF Abort
  <1>6. CASE Collect
    BY <1>6, SMTT(60) DEF Collect, AnsweredReads
  <1>7. ASSUME NEW i \in DOMAIN slots, VetCached(i) PROVE Kinds'
    BY <1>7, SMTT(60) DEF VetCached, Vetting, Cached
  <1>8. ASSUME NEW i \in DOMAIN slots, VetSchema(i) PROVE Kinds'
    BY <1>8 DEF VetSchema, Vetting
  <1>9. ASSUME NEW i \in DOMAIN slots, VetInvalid(i) PROVE Kinds'
    BY <1>9 DEF VetInvalid
  <1>10. ASSUME NEW i \in DOMAIN slots, VetReady(i) PROVE Kinds'
    BY <1>10 DEF VetReady
  <1>11. ASSUME NEW i \in DOMAIN slots, VetAsk(i) PROVE Kinds'
    BY <1>11 DEF VetAsk
  <1>12. ASSUME NEW i \in DOMAIN slots, Approve(i) PROVE Kinds'
    BY <1>12 DEF Approve
  <1>13. ASSUME NEW i \in DOMAIN slots, Decline(i) PROVE Kinds'
    BY <1>13 DEF Decline
  <1>14. ASSUME NEW i \in DOMAIN slots, ReadStat(i) PROVE Kinds'
    BY <1>14 DEF ReadStat
  <1>15. ASSUME NEW i \in DOMAIN slots, ReadContent(i) PROVE Kinds'
    BY <1>15 DEF ReadContent
  <1>16. ASSUME NEW i \in DOMAIN slots, ReadFails(i) PROVE Kinds'
    BY <1>16 DEF ReadFails
  <1>17. ASSUME NEW i \in DOMAIN slots, ReadMark(i) PROVE Kinds'
    BY <1>17, ZenonT(60) DEF ReadMark, TimeOfStat
  <1>18. ASSUME NEW i \in DOMAIN slots, EditCheck(i) PROVE Kinds'
    <2>1. PICK st \in {"checked", "refused"} : Put(i, Slot(st, None, None))
      BY <1>18 DEF EditCheck
    <2>2. /\ UNCHANGED <<pc, batch, turnAllow, unmarked, seen, turns, foreign>>
          /\ advice' \in {"none", "reread"}
      BY <1>18 DEF EditCheck
    <2>3. \A j \in DOMAIN slots' : slots'[j] = IF j = i THEN Slot(st, None, None) ELSE slots[j]
      BY <2>1 DEF Put
    <2>4. \A j \in DOMAIN slots' : j \in DOMAIN slots
      BY <2>1 DEF Put
    <2>. HIDE DEF Typed, Put, Slots
    <2>5. \A j \in DOMAIN slots' :
              slots'[j].state \in {"cached", "read", "done"} => slots'[j].value \in Nat
      BY <2>1, <2>3, <2>4
    <2>6. QED
      BY <2>2, <2>5
  <1>19. ASSUME NEW i \in DOMAIN slots, EditWrite(i) PROVE Kinds'
    BY <1>19 DEF EditWrite
  <1>20. ASSUME NEW i \in DOMAIN slots, EditFails(i) PROVE Kinds'
    BY <1>20 DEF EditFails
  <1>21. ASSUME NEW i \in DOMAIN slots, EditMark(i) PROVE Kinds'
    BY <1>21 DEF EditMark
  <1>22. ASSUME NEW i \in DOMAIN slots, RunCommand(i) PROVE Kinds'
    BY <1>22, SMTT(60) DEF RunCommand
  <1>23. CASE UNCHANGED vars
    BY <1>23 DEF vars
  <1> QED
    BY <1>1, <1>2, <1>3, <1>4, <1>5, <1>6, <1>7, <1>8, <1>9, <1>10, <1>11, <1>12, <1>13,
       <1>14, <1>15, <1>16, <1>17, <1>18, <1>19, <1>20, <1>21, <1>22, <1>23, ZenonT(60) DEF Next

(* Every variable keeps to its kind, whatever the calls, the turns and the    *)
(* writes by others: no batch leaves a call without a slot or an answer in    *)
(* alreadyCall that is none.                                                  *)
THEOREM TypeCorrect == Spec => []TypeOK
  <1>1. Init => Typed /\ Kinds
    <2>1. Init => Typed
      BY InitTyped
    <2>2. ASSUME Init PROVE Kinds
      <3>1. DOMAIN slots = {}
        BY <2>1, <2>2 DEF Init, Typed
      <3>2. batch \in Seq(Calls)
        BY <2>2 DEF Init
      <3>3. /\ pc = "model" /\ turnAllow = FALSE /\ unmarked \subseteq Tools /\ seen = {}
            /\ advice = "none" /\ turns = 0 /\ foreign = 0
        BY <2>2, BatchAssumption DEF Init
      <3>4. QED
        BY <3>1, <3>2, <3>3 DEF Kinds
    <2>3. QED
      BY <2>1, <2>2
  <1>2. Typed /\ Kinds /\ [Next]_vars => (Typed /\ Kinds)'
    BY TypedStep, KindsStep
  <1>3. Typed /\ Kinds => TypeOK
    BY DEF Typed, Kinds, Slots, TypeOK
  <1> QED
    BY <1>1, <1>2, <1>3, PTL DEF Spec
================================================================================
