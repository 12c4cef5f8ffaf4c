-------------------------- MODULE PendingTaskProofs --------------------------
(* What PendingTask promises for any number of attempts, calls and crashes.   *)

EXTENDS PendingTask, TLAPS

(* An attempt that has stopped working; its results are final.                *)
Past == {"unhook", "offline", "leave", "gone"}

QuestionsOfPast ==
    \A a \in Attempts : (disk.asked = a \/ hand[a] = "save") => pc[a] \in Past

RemovedWhenWritten == \A a \in Attempts : sweep[a] = "remove" => archive.written

(* An attempt that works has neither asked nor cleaned up yet.                *)
Fresh ==
    \A a \in Attempts : pc[a] \notin Past => hand[a] = "none" /\ sweep[a] = "no"

(* Before First has made the file there is nothing to resume.                 *)
Untouched ==
    /\ pc[First] \notin {"asking", "load", "writeback", "drop"}
    /\ pc[First] \in {"idle", "entered"} =>
        /\ ~disk.present /\ appends = {}
        /\ \A a \in Attempts :
            hand[a] = "none" /\ sweep[a] = "no" /\ (a # First => pc[a] = "idle")

IInv ==
    /\ TypeOK /\ QuestionsOfPast /\ QuestionCarriesResults
    /\ RemovedWhenWritten /\ Fresh /\ Untouched

(* The rest holds when attempts do not overlap.                               *)
Alone == \A a, b \in Attempts : (pc[a] \notin Resting /\ pc[b] \notin Resting) => a = b

Found ==
    \A a \in Attempts :
        /\ pc[a] \in {"thinking", "tooling"} => fn = a
        /\ pc[a] \in OnlinePCs => marker /\ a \in beat

(* Nobody writes the file between the read and the write of a resume.         *)
Loading ==
    \A a \in Attempts :
        /\ pc[a] \in {"asking", "load", "writeback"}
            => appends = {} /\ \A q \in Attempts : hand[q] # "save"
        /\ pc[a] = "writeback" /\ disk.present => disk = copy[a]

(* A run starts without a question on disk, and the one it asks is the next.  *)
NoQuestion ==
    \A a \in Attempts :
        /\ pc[a] \in {"drop"} \cup Running
            => disk.asked = None /\ \A q \in Attempts : hand[q] # "save"
        /\ hand[a] = "save"
            => /\ disk.asked = None
               /\ \A b \in Attempts : b # a => hand[b] # "save" /\ pc[b] \in Resting

Serial == Alone /\ Found /\ Loading /\ NoQuestion

-----------------------------------------------------------------------------
(* Every action keeps the types. *)
LEMMA TypesNext ==
    ASSUME TypeOK, [Next]_vars
    PROVE  TypeOK'
<1> USE TaskAssumption DEF TypeOK, PCs, Resting, Running, OnlinePCs, Files, Absent, File, Calls
<1>1. CASE UNCHANGED vars
  BY <1>1 DEF GoTo, At, Set, vars, run, files, online
<1>2. ASSUME StartFirst PROVE TypeOK'
  BY <1>2 DEF StartFirst, GoTo, At, Set, vars, run, files, online
<1>3. ASSUME Discard PROVE TypeOK'
  BY <1>3 DEF Discard, DeletePending, GoTo, At, Set, vars, run, files, online
<1>4. ASSUME Cancel PROVE TypeOK'
  BY <1>4 DEF Cancel, Running, GoTo, At, Set, vars, run, files, online
<1>5. ASSUME Expire PROVE TypeOK'
  BY <1>5, ZenonT(60) DEF Expire, GoTo, At, Set, vars, run, files, online
<1>6. ASSUME Crash PROVE TypeOK'
  <2>1. pc' \in [Attempts -> PCs] /\ \A a \in Attempts : pc'[a] # "tooling"
    BY <1>6 DEF Crash
  <2>2. hand' \in [Attempts -> {"none", "save", "enqueue", "open", "closed"}]
    BY <1>6 DEF Crash
  <2>3. copy' \in [Attempts -> Files]
    BY <1>6 DEF Crash
  <2>4. tidy' \in [Attempts -> BOOLEAN] /\ calls' \in [Attempts -> 0..MaxCalls]
    BY <1>6 DEF Crash
  <2>5. cause' \in [Attempts -> {"none", "user", "other"}]
    BY <1>6 DEF Crash
  <2>6. sweep' \in [Attempts -> {"no", "read", "write", "remove"}]
    BY <1>6 DEF Crash
  <2>7. fn' = None /\ marker' = FALSE /\ beat' = {} /\ appends' = {} /\ crashes' \in 0..MaxCrashes
    BY <1>6 DEF Crash
  <2>8. UNCHANGED <<mem, disk, archive, discarded>>
    BY <1>6 DEF Crash
  <2> QED BY <2>1, <2>2, <2>3, <2>4, <2>5, <2>6, <2>7, <2>8
<1>7. ASSUME NEW a \in Attempts, Resume(a) PROVE TypeOK'
  BY <1>7 DEF Resume, Listed, MayStart, Settled, GoTo, At, Set, vars, run, files, online
<1>8. ASSUME NEW a \in Attempts, AnsweredInTui(a) PROVE TypeOK'
  BY <1>8 DEF AnsweredInTui, GoTo, At, Set, vars, run, files, online
<1>9. ASSUME NEW a \in Attempts, LeftInTui(a) PROVE TypeOK'
  BY <1>9 DEF LeftInTui, GoTo, At, Set, vars, run, files, online
<1>10. ASSUME NEW a \in Attempts, CanceledInTui(a) PROVE TypeOK'
  BY <1>10 DEF CanceledInTui, GoTo, At, Set, vars, run, files, online
<1>11. ASSUME NEW a \in Attempts, LoadRead(a) PROVE TypeOK'
  BY <1>11 DEF LoadRead, GoTo, At, Set, vars, run, files, online
<1>12. ASSUME NEW a \in Attempts, LoadWrite(a) PROVE TypeOK'
  BY <1>12 DEF LoadWrite, GoTo, At, Set, vars, run, files, online
<1>13. ASSUME NEW a \in Attempts, LoadDrop(a) PROVE TypeOK'
  BY <1>13 DEF LoadDrop, GoTo, At, Set, vars, run, files, online
<1>14. ASSUME NEW a \in Attempts, Abandon(a) PROVE TypeOK'
  BY <1>14 DEF Abandon, GoTo, At, Set, vars, run, files, online
<1>15. ASSUME NEW a \in Attempts, CreateExecPending(a) PROVE TypeOK'
  BY <1>15, ZenonT(60) DEF CreateExecPending, GoTo, At, Set, vars, run, files, online
<1>16. ASSUME NEW a \in Attempts, KeepOnline(a) PROVE TypeOK'
  BY <1>16 DEF KeepOnline, GoTo, At, Set, vars, run, files, online
<1>17. ASSUME NEW a \in Attempts, Register(a) PROVE TypeOK'
  BY <1>17 DEF Register, GoTo, At, Set, vars, run, files, online
<1>18. ASSUME NEW a \in Attempts, CallTool(a) PROVE TypeOK'
  BY <1>18 DEF CallTool, GoTo, At, Set, vars, run, files, online
<1>19. ASSUME NEW a \in Attempts, ToolReturns(a) PROVE TypeOK'
  BY <1>19, SMTT(60) DEF ToolReturns, AfterTool, Result, GoTo, At, Set, vars, run, files, online
<1>20. ASSUME NEW a \in Attempts, WriteTodos(a) PROVE TypeOK'
  <2>1. CASE cause[a] = "none"
    BY <1>20, <2>1, SMTT(60) DEF WriteTodos, AfterTool, Result, GoTo, At, Set, vars, run, files, online
  <2>2. CASE cause[a] # "none"
    BY <1>20, <2>2 DEF WriteTodos, AfterTool, Result, GoTo, At, Set, vars, run, files, online
  <2> QED BY <2>1, <2>2
<1>21. ASSUME NEW a \in Attempts, Ask(a) PROVE TypeOK'
  BY <1>21 DEF Ask, GoTo, At, Set, vars, run, files, online
<1>22. ASSUME NEW a \in Attempts, Finish(a) PROVE TypeOK'
  BY <1>22 DEF Finish, GoTo, At, Set, vars, run, files, online
<1>23. ASSUME NEW a \in Attempts, Fail(a) PROVE TypeOK'
  BY <1>23 DEF Fail, GoTo, At, Set, vars, run, files, online
<1>24. ASSUME NEW a \in Attempts, SeeCancel(a) PROVE TypeOK'
  <2>0. (disk' = Absent /\ discarded' = TRUE) \/ (disk' = disk /\ discarded' = discarded)
    BY <1>24, Zenon DEF SeeCancel, DeletePending
  <2>1. disk' \in Files /\ (disk'.present \/ disk' = Absent) /\ discarded' \in BOOLEAN
    <3>1. CASE disk' = Absent /\ discarded' = TRUE
      BY <3>1
    <3>2. CASE disk' = disk /\ discarded' = discarded
      <4>1. disk \in Files /\ (disk.present \/ disk = Absent) /\ discarded \in BOOLEAN
        OBVIOUS
      <4> QED BY <3>2, <4>1, Zenon
    <3> QED BY <2>0, <3>1, <3>2
  <2>2. pc' \in [Attempts -> PCs] /\ (\A b \in Attempts : pc'[b] = "tooling" => calls[b] > 0)
    BY <1>24 DEF SeeCancel, GoTo
  <2> QED BY <1>24, <2>1, <2>2 DEF SeeCancel, files, online
<1>25. ASSUME NEW a \in Attempts, AbortTask(a) PROVE TypeOK'
  BY <1>25 DEF AbortTask, DeletePending, GoTo, At, Set, vars, run, files, online
<1>26. ASSUME NEW a \in Attempts, Unregister(a) PROVE TypeOK'
  BY <1>26 DEF Unregister, GoTo, At, Set, vars, run, files, online
<1>27. ASSUME NEW a \in Attempts, StopOnline(a) PROVE TypeOK'
  BY <1>27, ZenonT(60) DEF StopOnline, GoTo, At, Set, vars, run, files, online
<1>28. ASSUME NEW a \in Attempts, Leave(a) PROVE TypeOK'
  BY <1>28 DEF Leave, GoTo, At, Set, vars, run, files, online
<1>29. ASSUME NEW a \in Attempts, SweepRead(a) PROVE TypeOK'
  BY <1>29 DEF SweepRead, GoTo, At, Set, vars, run, files, online
<1>30. ASSUME NEW a \in Attempts, SweepWrite(a) PROVE TypeOK'
  BY <1>30 DEF SweepWrite, GoTo, At, Set, vars, run, files, online
<1>31. ASSUME NEW a \in Attempts, SweepFails(a) PROVE TypeOK'
  BY <1>31 DEF SweepFails, GoTo, At, Set, vars, run, files, online
<1>32. ASSUME NEW a \in Attempts, SweepRemove(a) PROVE TypeOK'
  BY <1>32 DEF SweepRemove, GoTo, At, Set, vars, run, files, online
<1>33. ASSUME NEW a \in Attempts, Save(a) PROVE TypeOK'
  BY <1>33 DEF Save, GoTo, At, Set, vars, run, files, online
<1>34. ASSUME NEW a \in Attempts, Enqueue(a) PROVE TypeOK'
  BY <1>34 DEF Enqueue, GoTo, At, Set, vars, run, files, online
<1>35. ASSUME NEW a \in Attempts, NoResume(a) PROVE TypeOK'
  BY <1>35 DEF NoResume, GoTo, At, Set, vars, run, files, online
<1>36. ASSUME NEW a \in Attempts, CancelPrompt(a) PROVE TypeOK'
  BY <1>36 DEF CancelPrompt, GoTo, At, Set, vars, run, files, online
<1>37. ASSUME NEW a \in Attempts, Disconnect(a) PROVE TypeOK'
  BY <1>37 DEF Disconnect, Running, GoTo, At, Set, vars, run, files, online
<1>38. ASSUME NEW a \in Attempts, Beat(a) PROVE TypeOK'
  BY <1>38 DEF Beat, GoTo, At, Set, vars, run, files, online
<1>39. ASSUME NEW a \in Attempts, BeatStops(a) PROVE TypeOK'
  BY <1>39 DEF BeatStops, OnlinePCs, GoTo, At, Set, vars, run, files, online
<1>40. ASSUME NEW a \in Attempts, NEW q \in Attempts, Answer(q, a) PROVE TypeOK'
  BY <1>40 DEF Answer, MayStart, Settled, GoTo, At, Set, vars, run, files, online
<1>41. ASSUME NEW r \in Calls, AppendToolResult(r) PROVE TypeOK'
  BY <1>41, ZenonT(150) DEF AppendToolResult, GoTo, At, Set, vars, run, files, online
<1> QED BY <1>1, <1>2, <1>3, <1>4, <1>5, <1>6, <1>7, <1>8, <1>9, <1>10,
    <1>11, <1>12, <1>13, <1>14, <1>15, <1>16, <1>17, <1>18, <1>19, <1>20,
    <1>21, <1>22, <1>23, <1>24, <1>25, <1>26, <1>27, <1>28, <1>29, <1>30,
    <1>31, <1>32, <1>33, <1>34, <1>35, <1>36, <1>37, <1>38, <1>39, <1>40,
    <1>41, ZenonT(60)
    DEF Next, AskInTui, Load, Work, Unwind, Sweep, Settle

(* Who has asked, or is about to save a question, works no more. *)
LEMMA QuestionsNext ==
    ASSUME TypeOK, QuestionsOfPast, [Next]_vars
    PROVE  QuestionsOfPast'
<1> USE TaskAssumption DEF TypeOK, PCs, Resting, Running, OnlinePCs, Files, Absent, File, Calls,
        QuestionsOfPast, Past
<1>1. CASE UNCHANGED vars
  BY <1>1 DEF GoTo, At, Set, vars, run, files, online
<1>2. ASSUME StartFirst PROVE QuestionsOfPast'
  BY <1>2 DEF StartFirst, GoTo, At, Set, vars, run, files, online
<1>3. ASSUME Discard PROVE QuestionsOfPast'
  BY <1>3 DEF Discard, DeletePending, GoTo, At, Set, vars, run, files, online
<1>4. ASSUME Cancel PROVE QuestionsOfPast'
  BY <1>4 DEF Cancel, Running, GoTo, At, Set, vars, run, files, online
<1>5. ASSUME Expire PROVE QuestionsOfPast'
  BY <1>5 DEF Expire, GoTo, At, Set, vars, run, files, online
<1>6. ASSUME Crash PROVE QuestionsOfPast'
  BY <1>6 DEF Crash, GoTo, At, Set, vars, run, files, online
<1>7. ASSUME NEW a \in Attempts, Resume(a) PROVE QuestionsOfPast'
  BY <1>7, SMTT(60) DEF Resume, Listed, MayStart, Settled, GoTo, At, Set, vars, run, files, online
<1>8. ASSUME NEW a \in Attempts, AnsweredInTui(a) PROVE QuestionsOfPast'
  BY <1>8 DEF AnsweredInTui, GoTo, At, Set, vars, run, files, online
<1>9. ASSUME NEW a \in Attempts, LeftInTui(a) PROVE QuestionsOfPast'
  BY <1>9 DEF LeftInTui, GoTo, At, Set, vars, run, files, online
<1>10. ASSUME NEW a \in Attempts, CanceledInTui(a) PROVE QuestionsOfPast'
  BY <1>10 DEF CanceledInTui, GoTo, At, Set, vars, run, files, online
<1>11. ASSUME NEW a \in Attempts, LoadRead(a) PROVE QuestionsOfPast'
  BY <1>11 DEF LoadRead, GoTo, At, Set, vars, run, files, online
<1>12. ASSUME NEW a \in Attempts, LoadWrite(a) PROVE QuestionsOfPast'
  BY <1>12 DEF LoadWrite, GoTo, At, Set, vars, run, files, online
<1>13. ASSUME NEW a \in Attempts, LoadDrop(a) PROVE QuestionsOfPast'
  BY <1>13 DEF LoadDrop, GoTo, At, Set, vars, run, files, online
<1>14. ASSUME NEW a \in Attempts, Abandon(a) PROVE QuestionsOfPast'
  BY <1>14 DEF Abandon, GoTo, At, Set, vars, run, files, online
<1>15. ASSUME NEW a \in Attempts, CreateExecPending(a) PROVE QuestionsOfPast'
  BY <1>15 DEF CreateExecPending, GoTo, At, Set, vars, run, files, online
<1>16. ASSUME NEW a \in Attempts, KeepOnline(a) PROVE QuestionsOfPast'
  BY <1>16 DEF KeepOnline, GoTo, At, Set, vars, run, files, online
<1>17. ASSUME NEW a \in Attempts, Register(a) PROVE QuestionsOfPast'
  BY <1>17 DEF Register, GoTo, At, Set, vars, run, files, online
<1>18. ASSUME NEW a \in Attempts, CallTool(a) PROVE QuestionsOfPast'
  BY <1>18 DEF CallTool, GoTo, At, Set, vars, run, files, online
<1>19. ASSUME NEW a \in Attempts, ToolReturns(a) PROVE QuestionsOfPast'
  BY <1>19, SMTT(60) DEF ToolReturns, AfterTool, Result, GoTo, At, Set, vars, run, files, online
<1>20. ASSUME NEW a \in Attempts, WriteTodos(a) PROVE QuestionsOfPast'
  BY <1>20, SMTT(60) DEF WriteTodos, AfterTool, Result, GoTo, At, Set, vars, run, files, online
<1>21. ASSUME NEW a \in Attempts, Ask(a) PROVE QuestionsOfPast'
  BY <1>21 DEF Ask, GoTo, At, Set, vars, run, files, online
<1>22. ASSUME NEW a \in Attempts, Finish(a) PROVE QuestionsOfPast'
  BY <1>22 DEF Finish, GoTo, At, Set, vars, run, files, online
<1>23. ASSUME NEW a \in Attempts, Fail(a) PROVE QuestionsOfPast'
  BY <1>23 DEF Fail, GoTo, At, Set, vars, run, files, online
<1>24. ASSUME NEW a \in Attempts, SeeCancel(a) PROVE QuestionsOfPast'
  BY <1>24 DEF SeeCancel, DeletePending, GoTo, At, Set, vars, run, files, online
<1>25. ASSUME NEW a \in Attempts, AbortTask(a) PROVE QuestionsOfPast'
  BY <1>25 DEF AbortTask, DeletePending, GoTo, At, Set, vars, run, files, online
<1>26. ASSUME NEW a \in Attempts, Unregister(a) PROVE QuestionsOfPast'
  BY <1>26 DEF Unregister, GoTo, At, Set, vars, run, files, online
<1>27. ASSUME NEW a \in Attempts, StopOnline(a) PROVE QuestionsOfPast'
  BY <1>27 DEF StopOnline, GoTo, At, Set, vars, run, files, online
<1>28. ASSUME NEW a \in Attempts, Leave(a) PROVE QuestionsOfPast'
  BY <1>28 DEF Leave, GoTo, At, Set, vars, run, files, online
<1>29. ASSUME NEW a \in Attempts, SweepRead(a) PROVE QuestionsOfPast'
  BY <1>29 DEF SweepRead, GoTo, At, Set, vars, run, files, online
<1>30. ASSUME NEW a \in Attempts, SweepWrite(a) PROVE QuestionsOfPast'
  BY <1>30 DEF SweepWrite, GoTo, At, Set, vars, run, files, online
<1>31. ASSUME NEW a \in Attempts, SweepFails(a) PROVE QuestionsOfPast'
  BY <1>31 DEF SweepFails, GoTo, At, Set, vars, run, files, online
<1>32. ASSUME NEW a \in Attempts, SweepRemove(a) PROVE QuestionsOfPast'
  BY <1>32 DEF SweepRemove, GoTo, At, Set, vars, run, files, online
<1>33. ASSUME NEW a \in Attempts, Save(a) PROVE QuestionsOfPast'
  BY <1>33 DEF Save, GoTo, At, Set, vars, run, files, online
<1>34. ASSUME NEW a \in Attempts, Enqueue(a) PROVE QuestionsOfPast'
  BY <1>34 DEF Enqueue, GoTo, At, Set, vars, run, files, online
<1>35. ASSUME NEW a \in Attempts, NoResume(a) PROVE QuestionsOfPast'
  BY <1>35 DEF NoResume, GoTo, At, Set, vars, run, files, online
<1>36. ASSUME NEW a \in Attempts, CancelPrompt(a) PROVE QuestionsOfPast'
  BY <1>36 DEF CancelPrompt, GoTo, At, Set, vars, run, files, online
<1>37. ASSUME NEW a \in Attempts, Disconnect(a) PROVE QuestionsOfPast'
  BY <1>37 DEF Disconnect, Running, GoTo, At, Set, vars, run, files, online
<1>38. ASSUME NEW a \in Attempts, Beat(a) PROVE QuestionsOfPast'
  BY <1>38 DEF Beat, GoTo, At, Set, vars, run, files, online
<1>39. ASSUME NEW a \in Attempts, BeatStops(a) PROVE QuestionsOfPast'
  BY <1>39 DEF BeatStops, OnlinePCs, GoTo, At, Set, vars, run, files, online
<1>40. ASSUME NEW a \in Attempts, NEW q \in Attempts, Answer(q, a) PROVE QuestionsOfPast'
  BY <1>40 DEF Answer, MayStart, Settled, GoTo, At, Set, vars, run, files, online
<1>41. ASSUME NEW r \in Calls, AppendToolResult(r) PROVE QuestionsOfPast'
  BY <1>41 DEF AppendToolResult, GoTo, At, Set, vars, run, files, online
<1> QED BY <1>1, <1>2, <1>3, <1>4, <1>5, <1>6, <1>7, <1>8, <1>9, <1>10,
    <1>11, <1>12, <1>13, <1>14, <1>15, <1>16, <1>17, <1>18, <1>19, <1>20,
    <1>21, <1>22, <1>23, <1>24, <1>25, <1>26, <1>27, <1>28, <1>29, <1>30,
    <1>31, <1>32, <1>33, <1>34, <1>35, <1>36, <1>37, <1>38, <1>39, <1>40,
    <1>41, ZenonT(60)
    DEF Next, AskInTui, Load, Work, Unwind, Sweep, Settle

(* The results of whoever asked are on disk with the question. *)
LEMMA CarriesNext ==
    ASSUME TypeOK, QuestionsOfPast, QuestionCarriesResults, [Next]_vars
    PROVE  QuestionCarriesResults'
<1> USE TaskAssumption DEF TypeOK, PCs, Resting, Running, OnlinePCs, Files, Absent, File, Calls,
        QuestionsOfPast, Past, QuestionCarriesResults
<1>1. CASE UNCHANGED vars
  BY <1>1 DEF GoTo, At, Set, vars, run, files, online
<1>2. ASSUME StartFirst PROVE QuestionCarriesResults'
  BY <1>2 DEF StartFirst, GoTo, At, Set, vars, run, files, online
<1>3. ASSUME Discard PROVE QuestionCarriesResults'
  BY <1>3 DEF Discard, DeletePending, GoTo, At, Set, vars, run, files, online
<1>4. ASSUME Cancel PROVE QuestionCarriesResults'
  BY <1>4 DEF Cancel, Running, GoTo, At, Set, vars, run, files, online
<1>5. ASSUME Expire PROVE QuestionCarriesResults'
  BY <1>5 DEF Expire, GoTo, At, Set, vars, run, files, online
<1>6. ASSUME Crash PROVE QuestionCarriesResults'
  BY <1>6 DEF Crash, GoTo, At, Set, vars, run, files, online
<1>7. ASSUME NEW a \in Attempts, Resume(a) PROVE QuestionCarriesResults'
  BY <1>7 DEF Resume, Listed, MayStart, Settled, GoTo, At, Set, vars, run, files, online
<1>8. ASSUME NEW a \in Attempts, AnsweredInTui(a) PROVE QuestionCarriesResults'
  BY <1>8 DEF AnsweredInTui, GoTo, At, Set, vars, run, files, online
<1>9. ASSUME NEW a \in Attempts, LeftInTui(a) PROVE QuestionCarriesResults'
  BY <1>9 DEF LeftInTui, GoTo, At, Set, vars, run, files, online
<1>10. ASSUME NEW a \in Attempts, CanceledInTui(a) PROVE QuestionCarriesResults'
  BY <1>10 DEF CanceledInTui, GoTo, At, Set, vars, run, files, online
<1>11. ASSUME NEW a \in Attempts, LoadRead(a) PROVE QuestionCarriesResults'
  BY <1>11 DEF LoadRead, GoTo, At, Set, vars, run, files, online
<1>12. ASSUME NEW a \in Attempts, LoadWrite(a) PROVE QuestionCarriesResults'
  BY <1>12 DEF LoadWrite, GoTo, At, Set, vars, run, files, online
<1>13. ASSUME NEW a \in Attempts, LoadDrop(a) PROVE QuestionCarriesResults'
  BY <1>13 DEF LoadDrop, GoTo, At, Set, vars, run, files, online
<1>14. ASSUME NEW a \in Attempts, Abandon(a) PROVE QuestionCarriesResults'
  BY <1>14 DEF Abandon, GoTo, At, Set, vars, run, files, online
<1>15. ASSUME NEW a \in Attempts, CreateExecPending(a) PROVE QuestionCarriesResults'
  BY <1>15 DEF CreateExecPending, GoTo, At, Set, vars, run, files, online
<1>16. ASSUME NEW a \in Attempts, KeepOnline(a) PROVE QuestionCarriesResults'
  BY <1>16 DEF KeepOnline, GoTo, At, Set, vars, run, files, online
<1>17. ASSUME NEW a \in Attempts, Register(a) PROVE QuestionCarriesResults'
  BY <1>17 DEF Register, GoTo, At, Set, vars, run, files, online
<1>18. ASSUME NEW a \in Attempts, CallTool(a) PROVE QuestionCarriesResults'
  BY <1>18 DEF CallTool, GoTo, At, Set, vars, run, files, online
<1>19. ASSUME NEW a \in Attempts, ToolReturns(a) PROVE QuestionCarriesResults'
  BY <1>19, SMTT(60) DEF ToolReturns, AfterTool, Result, GoTo, At, Set, vars, run, files, online
<1>20. ASSUME NEW a \in Attempts, WriteTodos(a) PROVE QuestionCarriesResults'
  BY <1>20, SMTT(60) DEF WriteTodos, AfterTool, Result, GoTo, At, Set, vars, run, files, online
<1>21. ASSUME NEW a \in Attempts, Ask(a) PROVE QuestionCarriesResults'
  BY <1>21 DEF Ask, GoTo, At, Set, vars, run, files, online
<1>22. ASSUME NEW a \in Attempts, Finish(a) PROVE QuestionCarriesResults'
  BY <1>22 DEF Finish, GoTo, At, Set, vars, run, files, online
<1>23. ASSUME NEW a \in Attempts, Fail(a) PROVE QuestionCarriesResults'
  BY <1>23 DEF Fail, GoTo, At, Set, vars, run, files, online
<1>24. ASSUME NEW a \in Attempts, SeeCancel(a) PROVE QuestionCarriesResults'
  BY <1>24 DEF SeeCancel, DeletePending, GoTo, At, Set, vars, run, files, online
<1>25. ASSUME NEW a \in Attempts, AbortTask(a) PROVE QuestionCarriesResults'
  BY <1>25 DEF AbortTask, DeletePending, GoTo, At, Set, vars, run, files, online
<1>26. ASSUME NEW a \in Attempts, Unregister(a) PROVE QuestionCarriesResults'
  BY <1>26 DEF Unregister, GoTo, At, Set, vars, run, files, online
<1>27. ASSUME NEW a \in Attempts, StopOnline(a) PROVE QuestionCarriesResults'
  BY <1>27 DEF StopOnline, GoTo, At, Set, vars, run, files, online
<1>28. ASSUME NEW a \in Attempts, Leave(a) PROVE QuestionCarriesResults'
  BY <1>28 DEF Leave, GoTo, At, Set, vars, run, files, online
<1>29. ASSUME NEW a \in Attempts, SweepRead(a) PROVE QuestionCarriesResults'
  BY <1>29 DEF SweepRead, GoTo, At, Set, vars, run, files, online
<1>30. ASSUME NEW a \in Attempts, SweepWrite(a) PROVE QuestionCarriesResults'
  BY <1>30 DEF SweepWrite, GoTo, At, Set, vars, run, files, online
<1>31. ASSUME NEW a \in Attempts, SweepFails(a) PROVE QuestionCarriesResults'
  BY <1>31 DEF SweepFails, GoTo, At, Set, vars, run, files, online
<1>32. ASSUME NEW a \in Attempts, SweepRemove(a) PROVE QuestionCarriesResults'
  BY <1>32 DEF SweepRemove, GoTo, At, Set, vars, run, files, online
<1>33. ASSUME NEW a \in Attempts, Save(a) PROVE QuestionCarriesResults'
  BY <1>33 DEF Save, GoTo, At, Set, vars, run, files, online
<1>34. ASSUME NEW a \in Attempts, Enqueue(a) PROVE QuestionCarriesResults'
  BY <1>34 DEF Enqueue, GoTo, At, Set, vars, run, files, online
<1>35. ASSUME NEW a \in Attempts, NoResume(a) PROVE QuestionCarriesResults'
  BY <1>35 DEF NoResume, GoTo, At, Set, vars, run, files, online
<1>36. ASSUME NEW a \in Attempts, CancelPrompt(a) PROVE QuestionCarriesResults'
  BY <1>36 DEF CancelPrompt, GoTo, At, Set, vars, run, files, online
<1>37. ASSUME NEW a \in Attempts, Disconnect(a) PROVE QuestionCarriesResults'
  BY <1>37 DEF Disconnect, Running, GoTo, At, Set, vars, run, files, online
<1>38. ASSUME NEW a \in Attempts, Beat(a) PROVE QuestionCarriesResults'
  BY <1>38 DEF Beat, GoTo, At, Set, vars, run, files, online
<1>39. ASSUME NEW a \in Attempts, BeatStops(a) PROVE QuestionCarriesResults'
  BY <1>39 DEF BeatStops, OnlinePCs, GoTo, At, Set, vars, run, files, online
<1>40. ASSUME NEW a \in Attempts, NEW q \in Attempts, Answer(q, a) PROVE QuestionCarriesResults'
  BY <1>40 DEF Answer, MayStart, Settled, GoTo, At, Set, vars, run, files, online
<1>41. ASSUME NEW r \in Calls, AppendToolResult(r) PROVE QuestionCarriesResults'
  BY <1>41 DEF AppendToolResult, GoTo, At, Set, vars, run, files, online
<1> QED BY <1>1, <1>2, <1>3, <1>4, <1>5, <1>6, <1>7, <1>8, <1>9, <1>10,
    <1>11, <1>12, <1>13, <1>14, <1>15, <1>16, <1>17, <1>18, <1>19, <1>20,
    <1>21, <1>22, <1>23, <1>24, <1>25, <1>26, <1>27, <1>28, <1>29, <1>30,
    <1>31, <1>32, <1>33, <1>34, <1>35, <1>36, <1>37, <1>38, <1>39, <1>40,
    <1>41, ZenonT(60)
    DEF Next, AskInTui, Load, Work, Unwind, Sweep, Settle

(* A cleanup removes only after it has written. *)
LEMMA WrittenNext ==
    ASSUME TypeOK, RemovedWhenWritten, [Next]_vars
    PROVE  RemovedWhenWritten'
<1> USE TaskAssumption DEF TypeOK, PCs, Resting, Running, OnlinePCs, Files, Absent, File, Calls,
        RemovedWhenWritten
<1>1. CASE UNCHANGED vars
  BY <1>1 DEF GoTo, At, Set, vars, run, files, online
<1>2. ASSUME StartFirst PROVE RemovedWhenWritten'
  BY <1>2 DEF StartFirst, GoTo, At, Set, vars, run, files, online
<1>3. ASSUME Discard PROVE RemovedWhenWritten'
  BY <1>3 DEF Discard, DeletePending, GoTo, At, Set, vars, run, files, online
<1>4. ASSUME Cancel PROVE RemovedWhenWritten'
  BY <1>4 DEF Cancel, Running, GoTo, At, Set, vars, run, files, online
<1>5. ASSUME Expire PROVE RemovedWhenWritten'
  BY <1>5 DEF Expire, GoTo, At, Set, vars, run, files, online
<1>6. ASSUME Crash PROVE RemovedWhenWritten'
  BY <1>6 DEF Crash, GoTo, At, Set, vars, run, files, online
<1>7. ASSUME NEW a \in Attempts, Resume(a) PROVE RemovedWhenWritten'
  BY <1>7 DEF Resume, Listed, MayStart, Settled, GoTo, At, Set, vars, run, files, online
<1>8. ASSUME NEW a \in Attempts, AnsweredInTui(a) PROVE RemovedWhenWritten'
  BY <1>8 DEF AnsweredInTui, GoTo, At, Set, vars, run, files, online
<1>9. ASSUME NEW a \in Attempts, LeftInTui(a) PROVE RemovedWhenWritten'
  BY <1>9 DEF LeftInTui, GoTo, At, Set, vars, run, files, online
<1>10. ASSUME NEW a \in Attempts, CanceledInTui(a) PROVE RemovedWhenWritten'
  BY <1>10 DEF CanceledInTui, GoTo, At, Set, vars, run, files, online
<1>11. ASSUME NEW a \in Attempts, LoadRead(a) PROVE RemovedWhenWritten'
  BY <1>11 DEF LoadRead, GoTo, At, Set, vars, run, files, online
<1>12. ASSUME NEW a \in Attempts, LoadWrite(a) PROVE RemovedWhenWritten'
  BY <1>12 DEF LoadWrite, GoTo, At, Set, vars, run, files, online
<1>13. ASSUME NEW a \in Attempts, LoadDrop(a) PROVE RemovedWhenWritten'
  BY <1>13 DEF LoadDrop, GoTo, At, Set, vars, run, files, online
<1>14. ASSUME NEW a \in Attempts, Abandon(a) PROVE RemovedWhenWritten'
  BY <1>14 DEF Abandon, GoTo, At, Set, vars, run, files, online
<1>15. ASSUME NEW a \in Attempts, CreateExecPending(a) PROVE RemovedWhenWritten'
  BY <1>15 DEF CreateExecPending, GoTo, At, Set, vars, run, files, online
<1>16. ASSUME NEW a \in Attempts, KeepOnline(a) PROVE RemovedWhenWritten'
  BY <1>16 DEF KeepOnline, GoTo, At, Set, vars, run, files, online
<1>17. ASSUME NEW a \in Attempts, Register(a) PROVE RemovedWhenWritten'
  BY <1>17 DEF Register, GoTo, At, Set, vars, run, files, online
<1>18. ASSUME NEW a \in Attempts, CallTool(a) PROVE RemovedWhenWritten'
  BY <1>18 DEF CallTool, GoTo, At, Set, vars, run, files, online
<1>19. ASSUME NEW a \in Attempts, ToolReturns(a) PROVE RemovedWhenWritten'
  BY <1>19 DEF ToolReturns, AfterTool, Result, GoTo, At, Set, vars, run, files, online
<1>20. ASSUME NEW a \in Attempts, WriteTodos(a) PROVE RemovedWhenWritten'
  BY <1>20 DEF WriteTodos, AfterTool, Result, GoTo, At, Set, vars, run, files, online
<1>21. ASSUME NEW a \in Attempts, Ask(a) PROVE RemovedWhenWritten'
  BY <1>21 DEF Ask, GoTo, At, Set, vars, run, files, online
<1>22. ASSUME NEW a \in Attempts, Finish(a) PROVE RemovedWhenWritten'
  BY <1>22 DEF Finish, GoTo, At, Set, vars, run, files, online
<1>23. ASSUME NEW a \in Attempts, Fail(a) PROVE RemovedWhenWritten'
  BY <1>23 DEF Fail, GoTo, At, Set, vars, run, files, online
<1>24. ASSUME NEW a \in Attempts, SeeCancel(a) PROVE RemovedWhenWritten'
  BY <1>24 DEF SeeCancel, DeletePending, GoTo, At, Set, vars, run, files, online
<1>25. ASSUME NEW a \in Attempts, AbortTask(a) PROVE RemovedWhenWritten'
  BY <1>25 DEF AbortTask, DeletePending, GoTo, At, Set, vars, run, files, online
<1>26. ASSUME NEW a \in Attempts, Unregister(a) PROVE RemovedWhenWritten'
  BY <1>26 DEF Unregister, GoTo, At, Set, vars, run, files, online
<1>27. ASSUME NEW a \in Attempts, StopOnline(a) PROVE RemovedWhenWritten'
  BY <1>27 DEF StopOnline, GoTo, At, Set, vars, run, files, online
<1>28. ASSUME NEW a \in Attempts, Leave(a) PROVE RemovedWhenWritten'
  BY <1>28 DEF Leave, GoTo, At, Set, vars, run, files, online
<1>29. ASSUME NEW a \in Attempts, SweepRead(a) PROVE RemovedWhenWritten'
  BY <1>29 DEF SweepRead, GoTo, At, Set, vars, run, files, online
<1>30. ASSUME NEW a \in Attempts, SweepWrite(a) PROVE RemovedWhenWritten'
  BY <1>30 DEF SweepWrite, GoTo, At, Set, vars, run, files, online
<1>31. ASSUME NEW a \in Attempts, SweepFails(a) PROVE RemovedWhenWritten'
  BY <1>31 DEF SweepFails, GoTo, At, Set, vars, run, files, online
<1>32. ASSUME NEW a \in Attempts, SweepRemove(a) PROVE RemovedWhenWritten'
  BY <1>32 DEF SweepRemove, GoTo, At, Set, vars, run, files, online
<1>33. ASSUME NEW a \in Attempts, Save(a) PROVE RemovedWhenWritten'
  BY <1>33 DEF Save, GoTo, At, Set, vars, run, files, online
<1>34. ASSUME NEW a \in Attempts, Enqueue(a) PROVE RemovedWhenWritten'
  BY <1>34 DEF Enqueue, GoTo, At, Set, vars, run, files, online
<1>35. ASSUME NEW a \in Attempts, NoResume(a) PROVE RemovedWhenWritten'
  BY <1>35 DEF NoResume, GoTo, At, Set, vars, run, files, online
<1>36. ASSUME NEW a \in Attempts, CancelPrompt(a) PROVE RemovedWhenWritten'
  BY <1>36 DEF CancelPrompt, GoTo, At, Set, vars, run, files, online
<1>37. ASSUME NEW a \in Attempts, Disconnect(a) PROVE RemovedWhenWritten'
  BY <1>37 DEF Disconnect, Running, GoTo, At, Set, vars, run, files, online
<1>38. ASSUME NEW a \in Attempts, Beat(a) PROVE RemovedWhenWritten'
  BY <1>38 DEF Beat, GoTo, At, Set, vars, run, files, online
<1>39. ASSUME NEW a \in Attempts, BeatStops(a) PROVE RemovedWhenWritten'
  BY <1>39 DEF BeatStops, OnlinePCs, GoTo, At, Set, vars, run, files, online
<1>40. ASSUME NEW a \in Attempts, NEW q \in Attempts, Answer(q, a) PROVE RemovedWhenWritten'
  BY <1>40 DEF Answer, MayStart, Settled, GoTo, At, Set, vars, run, files, online
<1>41. ASSUME NEW r \in Calls, AppendToolResult(r) PROVE RemovedWhenWritten'
  BY <1>41, SMTT(60) DEF AppendToolResult, GoTo, At, Set, vars, run, files, online
<1> QED BY <1>1, <1>2, <1>3, <1>4, <1>5, <1>6, <1>7, <1>8, <1>9, <1>10,
    <1>11, <1>12, <1>13, <1>14, <1>15, <1>16, <1>17, <1>18, <1>19, <1>20,
    <1>21, <1>22, <1>23, <1>24, <1>25, <1>26, <1>27, <1>28, <1>29, <1>30,
    <1>31, <1>32, <1>33, <1>34, <1>35, <1>36, <1>37, <1>38, <1>39, <1>40,
    <1>41, ZenonT(60)
    DEF Next, AskInTui, Load, Work, Unwind, Sweep, Settle

(* Only a run that ends asks, only one that has ended cleans up. *)
LEMMA FreshNext ==
    ASSUME TypeOK, Fresh, [Next]_vars
    PROVE  Fresh'
<1> USE TaskAssumption DEF TypeOK, PCs, Resting, Running, OnlinePCs, Files, Absent, File, Calls,
        Fresh, Past
<1>1. CASE UNCHANGED vars
  BY <1>1 DEF GoTo, At, Set, vars, run, files, online
<1>2. ASSUME StartFirst PROVE Fresh'
  BY <1>2 DEF StartFirst, GoTo, At, Set, vars, run, files, online
<1>3. ASSUME Discard PROVE Fresh'
  BY <1>3 DEF Discard, DeletePending, GoTo, At, Set, vars, run, files, online
<1>4. ASSUME Cancel PROVE Fresh'
  BY <1>4 DEF Cancel, Running, GoTo, At, Set, vars, run, files, online
<1>5. ASSUME Expire PROVE Fresh'
  BY <1>5 DEF Expire, GoTo, At, Set, vars, run, files, online
<1>6. ASSUME Crash PROVE Fresh'
  BY <1>6 DEF Crash, GoTo, At, Set, vars, run, files, online
<1>7. ASSUME NEW a \in Attempts, Resume(a) PROVE Fresh'
  BY <1>7, SMTT(60) DEF Resume, Listed, MayStart, Settled, GoTo, At, Set, vars, run, files, online
<1>8. ASSUME NEW a \in Attempts, AnsweredInTui(a) PROVE Fresh'
  BY <1>8 DEF AnsweredInTui, GoTo, At, Set, vars, run, files, online
<1>9. ASSUME NEW a \in Attempts, LeftInTui(a) PROVE Fresh'
  BY <1>9 DEF LeftInTui, GoTo, At, Set, vars, run, files, online
<1>10. ASSUME NEW a \in Attempts, CanceledInTui(a) PROVE Fresh'
  BY <1>10 DEF CanceledInTui, GoTo, At, Set, vars, run, files, online
<1>11. ASSUME NEW a \in Attempts, LoadRead(a) PROVE Fresh'
  BY <1>11 DEF LoadRead, GoTo, At, Set, vars, run, files, online
<1>12. ASSUME NEW a \in Attempts, LoadWrite(a) PROVE Fresh'
  BY <1>12 DEF LoadWrite, GoTo, At, Set, vars, run, files, online
<1>13. ASSUME NEW a \in Attempts, LoadDrop(a) PROVE Fresh'
  BY <1>13 DEF LoadDrop, GoTo, At, Set, vars, run, files, online
<1>14. ASSUME NEW a \in Attempts, Abandon(a) PROVE Fresh'
  BY <1>14 DEF Abandon, GoTo, At, Set, vars, run, files, online
<1>15. ASSUME NEW a \in Attempts, CreateExecPending(a) PROVE Fresh'
  BY <1>15 DEF CreateExecPending, GoTo, At, Set, vars, run, files, online
<1>16. ASSUME NEW a \in Attempts, KeepOnline(a) PROVE Fresh'
  BY <1>16 DEF KeepOnline, GoTo, At, Set, vars, run, files, online
<1>17. ASSUME NEW a \in Attempts, Register(a) PROVE Fresh'
  BY <1>17 DEF Register, GoTo, At, Set, vars, run, files, online
<1>18. ASSUME NEW a \in Attempts, CallTool(a) PROVE Fresh'
  BY <1>18 DEF CallTool, GoTo, At, Set, vars, run, files, online
<1>19. ASSUME NEW a \in Attempts, ToolReturns(a) PROVE Fresh'
  BY <1>19, SMTT(60) DEF ToolReturns, AfterTool, Result, GoTo, At, Set, vars, run, files, online
<1>20. ASSUME NEW a \in Attempts, WriteTodos(a) PROVE Fresh'
  BY <1>20, SMTT(60) DEF WriteTodos, AfterTool, Result, GoTo, At, Set, vars, run, files, online
<1>21. ASSUME NEW a \in Attempts, Ask(a) PROVE Fresh'
  BY <1>21 DEF Ask, GoTo, At, Set, vars, run, files, online
<1>22. ASSUME NEW a \in Attempts, Finish(a) PROVE Fresh'
  BY <1>22 DEF Finish, GoTo, At, Set, vars, run, files, online
<1>23. ASSUME NEW a \in Attempts, Fail(a) PROVE Fresh'
  BY <1>23 DEF Fail, GoTo, At, Set, vars, run, files, online
<1>24. ASSUME NEW a \in Attempts, SeeCancel(a) PROVE Fresh'
  BY <1>24 DEF SeeCancel, DeletePending, GoTo, At, Set, vars, run, files, online
<1>25. ASSUME NEW a \in Attempts, AbortTask(a) PROVE Fresh'
  BY <1>25 DEF AbortTask, DeletePending, GoTo, At, Set, vars, run, files, online
<1>26. ASSUME NEW a \in Attempts, Unregister(a) PROVE Fresh'
  BY <1>26 DEF Unregister, GoTo, At, Set, vars, run, files, online
<1>27. ASSUME NEW a \in Attempts, StopOnline(a) PROVE Fresh'
  BY <1>27 DEF StopOnline, GoTo, At, Set, vars, run, files, online
<1>28. ASSUME NEW a \in Attempts, Leave(a) PROVE Fresh'
  BY <1>28 DEF Leave, GoTo, At, Set, vars, run, files, online
<1>29. ASSUME NEW a \in Attempts, SweepRead(a) PROVE Fresh'
  BY <1>29 DEF SweepRead, GoTo, At, Set, vars, run, files, online
<1>30. ASSUME NEW a \in Attempts, SweepWrite(a) PROVE Fresh'
  BY <1>30 DEF SweepWrite, GoTo, At, Set, vars, run, files, online
<1>31. ASSUME NEW a \in Attempts, SweepFails(a) PROVE Fresh'
  BY <1>31 DEF SweepFails, GoTo, At, Set, vars, run, files, online
<1>32. ASSUME NEW a \in Attempts, SweepRemove(a) PROVE Fresh'
  BY <1>32 DEF SweepRemove, GoTo, At, Set, vars, run, files, online
<1>33. ASSUME NEW a \in Attempts, Save(a) PROVE Fresh'
  BY <1>33 DEF Save, GoTo, At, Set, vars, run, files, online
<1>34. ASSUME NEW a \in Attempts, Enqueue(a) PROVE Fresh'
  BY <1>34 DEF Enqueue, GoTo, At, Set, vars, run, files, online
<1>35. ASSUME NEW a \in Attempts, NoResume(a) PROVE Fresh'
  BY <1>35 DEF NoResume, GoTo, At, Set, vars, run, files, online
<1>36. ASSUME NEW a \in Attempts, CancelPrompt(a) PROVE Fresh'
  BY <1>36 DEF CancelPrompt, GoTo, At, Set, vars, run, files, online
<1>37. ASSUME NEW a \in Attempts, Disconnect(a) PROVE Fresh'
  BY <1>37 DEF Disconnect, Running, GoTo, At, Set, vars, run, files, online
<1>38. ASSUME NEW a \in Attempts, Beat(a) PROVE Fresh'
  BY <1>38 DEF Beat, GoTo, At, Set, vars, run, files, online
<1>39. ASSUME NEW a \in Attempts, BeatStops(a) PROVE Fresh'
  BY <1>39 DEF BeatStops, OnlinePCs, GoTo, At, Set, vars, run, files, online
<1>40. ASSUME NEW a \in Attempts, NEW q \in Attempts, Answer(q, a) PROVE Fresh'
  BY <1>40 DEF Answer, MayStart, Settled, GoTo, At, Set, vars, run, files, online
<1>41. ASSUME NEW r \in Calls, AppendToolResult(r) PROVE Fresh'
  BY <1>41, SMTT(60) DEF AppendToolResult, GoTo, At, Set, vars, run, files, online
<1> QED BY <1>1, <1>2, <1>3, <1>4, <1>5, <1>6, <1>7, <1>8, <1>9, <1>10,
    <1>11, <1>12, <1>13, <1>14, <1>15, <1>16, <1>17, <1>18, <1>19, <1>20,
    <1>21, <1>22, <1>23, <1>24, <1>25, <1>26, <1>27, <1>28, <1>29, <1>30,
    <1>31, <1>32, <1>33, <1>34, <1>35, <1>36, <1>37, <1>38, <1>39, <1>40,
    <1>41, ZenonT(60)
    DEF Next, AskInTui, Load, Work, Unwind, Sweep, Settle

(* Nothing happens to a task before its first attempt. *)
LEMMA UntouchedNext ==
    ASSUME TypeOK, Untouched, [Next]_vars
    PROVE  Untouched'
<1> USE TaskAssumption DEF TypeOK, PCs, Resting, Running, OnlinePCs, Files, Absent, File, Calls,
        Untouched
<1>1. CASE UNCHANGED vars
  BY <1>1 DEF GoTo, At, Set, vars, run, files, online
<1>2. ASSUME StartFirst PROVE Untouched'
  BY <1>2 DEF StartFirst, GoTo, At, Set, vars, run, files, online
<1>3. ASSUME Discard PROVE Untouched'
  BY <1>3 DEF Discard, DeletePending, GoTo, At, Set, vars, run, files, online
<1>4. ASSUME Cancel PROVE Untouched'
  BY <1>4 DEF Cancel, Running, GoTo, At, Set, vars, run, files, online
<1>5. ASSUME Expire PROVE Untouched'
  BY <1>5 DEF Expire, GoTo, At, Set, vars, run, files, online
<1>6. ASSUME Crash PROVE Untouched'
  BY <1>6 DEF Crash, GoTo, At, Set, vars, run, files, online
<1>7. ASSUME NEW a \in Attempts, Resume(a) PROVE Untouched'
  BY <1>7 DEF Resume, Listed, MayStart, Settled, GoTo, At, Set, vars, run, files, online
<1>8. ASSUME NEW a \in Attempts, AnsweredInTui(a) PROVE Untouched'
  BY <1>8 DEF AnsweredInTui, GoTo, At, Set, vars, run, files, online
<1>9. ASSUME NEW a \in Attempts, LeftInTui(a) PROVE Untouched'
  BY <1>9 DEF LeftInTui, GoTo, At, Set, vars, run, files, online
<1>10. ASSUME NEW a \in Attempts, CanceledInTui(a) PROVE Untouched'
  BY <1>10 DEF CanceledInTui, GoTo, At, Set, vars, run, files, online
<1>11. ASSUME NEW a \in Attempts, LoadRead(a) PROVE Untouched'
  BY <1>11 DEF LoadRead, GoTo, At, Set, vars, run, files, online
<1>12. ASSUME NEW a \in Attempts, LoadWrite(a) PROVE Untouched'
  BY <1>12 DEF LoadWrite, GoTo, At, Set, vars, run, files, online
<1>13. ASSUME NEW a \in Attempts, LoadDrop(a) PROVE Untouched'
  BY <1>13 DEF LoadDrop, GoTo, At, Set, vars, run, files, online
<1>14. ASSUME NEW a \in Attempts, Abandon(a) PROVE Untouched'
  BY <1>14 DEF Abandon, GoTo, At, Set, vars, run, files, online
<1>15. ASSUME NEW a \in Attempts, CreateExecPending(a) PROVE Untouched'
  BY <1>15 DEF CreateExecPending, GoTo, At, Set, vars, run, files, online
<1>16. ASSUME NEW a \in Attempts, KeepOnline(a) PROVE Untouched'
  BY <1>16 DEF KeepOnline, GoTo, At, Set, vars, run, files, online
<1>17. ASSUME NEW a \in Attempts, Register(a) PROVE Untouched'
  BY <1>17 DEF Register, GoTo, At, Set, vars, run, files, online
<1>18. ASSUME NEW a \in Attempts, CallTool(a) PROVE Untouched'
  BY <1>18 DEF CallTool, GoTo, At, Set, vars, run, files, online
<1>19. ASSUME NEW a \in Attempts, ToolReturns(a) PROVE Untouched'
  BY <1>19 DEF ToolReturns, AfterTool, Result, GoTo, At, Set, vars, run, files, online
<1>20. ASSUME NEW a \in Attempts, WriteTodos(a) PROVE Untouched'
  BY <1>20 DEF WriteTodos, AfterTool, Result, GoTo, At, Set, vars, run, files, online
<1>21. ASSUME NEW a \in Attempts, Ask(a) PROVE Untouched'
  BY <1>21 DEF Ask, GoTo, At, Set, vars, run, files, online
<1>22. ASSUME NEW a \in Attempts, Finish(a) PROVE Untouched'
  BY <1>22 DEF Finish, GoTo, At, Set, vars, run, files, online
<1>23. ASSUME NEW a \in Attempts, Fail(a) PROVE Untouched'
  BY <1>23 DEF Fail, GoTo, At, Set, vars, run, files, online
<1>24. ASSUME NEW a \in Attempts, SeeCancel(a) PROVE Untouched'
  BY <1>24 DEF SeeCancel, DeletePending, GoTo, At, Set, vars, run, files, online
<1>25. ASSUME NEW a \in Attempts, AbortTask(a) PROVE Untouched'
  BY <1>25 DEF AbortTask, DeletePending, GoTo, At, Set, vars, run, files, online
<1>26. ASSUME NEW a \in Attempts, Unregister(a) PROVE Untouched'
  BY <1>26 DEF Unregister, GoTo, At, Set, vars, run, files, online
<1>27. ASSUME NEW a \in Attempts, StopOnline(a) PROVE Untouched'
  BY <1>27 DEF StopOnline, GoTo, At, Set, vars, run, files, online
<1>28. ASSUME NEW a \in Attempts, Leave(a) PROVE Untouched'
  BY <1>28 DEF Leave, GoTo, At, Set, vars, run, files, online
<1>29. ASSUME NEW a \in Attempts, SweepRead(a) PROVE Untouched'
  BY <1>29 DEF SweepRead, GoTo, At, Set, vars, run, files, online
<1>30. ASSUME NEW a \in Attempts, SweepWrite(a) PROVE Untouched'
  BY <1>30 DEF SweepWrite, GoTo, At, Set, vars, run, files, online
<1>31. ASSUME NEW a \in Attempts, SweepFails(a) PROVE Untouched'
  BY <1>31 DEF SweepFails, GoTo, At, Set, vars, run, files, online
<1>32. ASSUME NEW a \in Attempts, SweepRemove(a) PROVE Untouched'
  BY <1>32 DEF SweepRemove, GoTo, At, Set, vars, run, files, online
<1>33. ASSUME NEW a \in Attempts, Save(a) PROVE Untouched'
  BY <1>33 DEF Save, GoTo, At, Set, vars, run, files, online
<1>34. ASSUME NEW a \in Attempts, Enqueue(a) PROVE Untouched'
  BY <1>34 DEF Enqueue, GoTo, At, Set, vars, run, files, online
<1>35. ASSUME NEW a \in Attempts, NoResume(a) PROVE Untouched'
  BY <1>35 DEF NoResume, GoTo, At, Set, vars, run, files, online
<1>36. ASSUME NEW a \in Attempts, CancelPrompt(a) PROVE Untouched'
  BY <1>36 DEF CancelPrompt, GoTo, At, Set, vars, run, files, online
<1>37. ASSUME NEW a \in Attempts, Disconnect(a) PROVE Untouched'
  BY <1>37 DEF Disconnect, Running, GoTo, At, Set, vars, run, files, online
<1>38. ASSUME NEW a \in Attempts, Beat(a) PROVE Untouched'
  BY <1>38 DEF Beat, GoTo, At, Set, vars, run, files, online
<1>39. ASSUME NEW a \in Attempts, BeatStops(a) PROVE Untouched'
  BY <1>39 DEF BeatStops, OnlinePCs, GoTo, At, Set, vars, run, files, online
<1>40. ASSUME NEW a \in Attempts, NEW q \in Attempts, Answer(q, a) PROVE Untouched'
  BY <1>40 DEF Answer, MayStart, Settled, GoTo, At, Set, vars, run, files, online
<1>41. ASSUME NEW r \in Calls, AppendToolResult(r) PROVE Untouched'
  BY <1>41 DEF AppendToolResult, GoTo, At, Set, vars, run, files, online
<1> QED BY <1>1, <1>2, <1>3, <1>4, <1>5, <1>6, <1>7, <1>8, <1>9, <1>10,
    <1>11, <1>12, <1>13, <1>14, <1>15, <1>16, <1>17, <1>18, <1>19, <1>20,
    <1>21, <1>22, <1>23, <1>24, <1>25, <1>26, <1>27, <1>28, <1>29, <1>30,
    <1>31, <1>32, <1>33, <1>34, <1>35, <1>36, <1>37, <1>38, <1>39, <1>40,
    <1>41, ZenonT(60)
    DEF Next, AskInTui, Load, Work, Unwind, Sweep, Settle

(* At most one attempt is under way. *)
LEMMA AloneNext ==
    ASSUME TypeOK, Fresh, Untouched, ~Overlap, Serial, [Next]_vars
    PROVE  Alone'
<1> USE TaskAssumption DEF TypeOK, PCs, Resting, Running, OnlinePCs, Files, Absent, File, Calls,
        Fresh, Past, Untouched, Serial, Alone
<1>1. CASE UNCHANGED vars
  BY <1>1 DEF GoTo, At, Set, vars, run, files, online
<1>2. ASSUME StartFirst PROVE Alone'
  BY <1>2 DEF StartFirst, GoTo, At, Set, vars, run, files, online
<1>3. ASSUME Discard PROVE Alone'
  BY <1>3 DEF Discard, DeletePending, GoTo, At, Set, vars, run, files, online
<1>4. ASSUME Cancel PROVE Alone'
  BY <1>4 DEF Cancel, Running, GoTo, At, Set, vars, run, files, online
<1>5. ASSUME Expire PROVE Alone'
  BY <1>5 DEF Expire, GoTo, At, Set, vars, run, files, online
<1>6. ASSUME Crash PROVE Alone'
  BY <1>6 DEF Crash, GoTo, At, Set, vars, run, files, online
<1>7. ASSUME NEW a \in Attempts, Resume(a) PROVE Alone'
  BY <1>7, SMTT(60) DEF Resume, Listed, MayStart, Settled, GoTo, At, Set, vars, run, files, online
<1>8. ASSUME NEW a \in Attempts, AnsweredInTui(a) PROVE Alone'
  BY <1>8 DEF AnsweredInTui, GoTo, At, Set, vars, run, files, online
<1>9. ASSUME NEW a \in Attempts, LeftInTui(a) PROVE Alone'
  BY <1>9 DEF LeftInTui, GoTo, At, Set, vars, run, files, online
<1>10. ASSUME NEW a \in Attempts, CanceledInTui(a) PROVE Alone'
  BY <1>10 DEF CanceledInTui, GoTo, At, Set, vars, run, files, online
<1>11. ASSUME NEW a \in Attempts, LoadRead(a) PROVE Alone'
  BY <1>11 DEF LoadRead, GoTo, At, Set, vars, run, files, online
<1>12. ASSUME NEW a \in Attempts, LoadWrite(a) PROVE Alone'
  BY <1>12 DEF LoadWrite, GoTo, At, Set, vars, run, files, online
<1>13. ASSUME NEW a \in Attempts, LoadDrop(a) PROVE Alone'
  BY <1>13 DEF LoadDrop, GoTo, At, Set, vars, run, files, online
<1>14. ASSUME NEW a \in Attempts, Abandon(a) PROVE Alone'
  BY <1>14 DEF Abandon, GoTo, At, Set, vars, run, files, online
<1>15. ASSUME NEW a \in Attempts, CreateExecPending(a) PROVE Alone'
  BY <1>15 DEF CreateExecPending, GoTo, At, Set, vars, run, files, online
<1>16. ASSUME NEW a \in Attempts, KeepOnline(a) PROVE Alone'
  BY <1>16 DEF KeepOnline, GoTo, At, Set, vars, run, files, online
<1>17. ASSUME NEW a \in Attempts, Register(a) PROVE Alone'
  BY <1>17 DEF Register, GoTo, At, Set, vars, run, files, online
<1>18. ASSUME NEW a \in Attempts, CallTool(a) PROVE Alone'
  BY <1>18 DEF CallTool, GoTo, At, Set, vars, run, files, online
<1>19. ASSUME NEW a \in Attempts, ToolReturns(a) PROVE Alone'
  BY <1>19, SMTT(60) DEF ToolReturns, AfterTool, Result, GoTo, At, Set, vars, run, files, online
<1>20. ASSUME NEW a \in Attempts, WriteTodos(a) PROVE Alone'
  BY <1>20, SMTT(60) DEF WriteTodos, AfterTool, Result, GoTo, At, Set, vars, run, files, online
<1>21. ASSUME NEW a \in Attempts, Ask(a) PROVE Alone'
  BY <1>21 DEF Ask, GoTo, At, Set, vars, run, files, online
<1>22. ASSUME NEW a \in Attempts, Finish(a) PROVE Alone'
  BY <1>22 DEF Finish, GoTo, At, Set, vars, run, files, online
<1>23. ASSUME NEW a \in Attempts, Fail(a) PROVE Alone'
  BY <1>23 DEF Fail, GoTo, At, Set, vars, run, files, online
<1>24. ASSUME NEW a \in Attempts, SeeCancel(a) PROVE Alone'
  BY <1>24 DEF SeeCancel, DeletePending, GoTo, At, Set, vars, run, files, online
<1>25. ASSUME NEW a \in Attempts, AbortTask(a) PROVE Alone'
  BY <1>25 DEF AbortTask, DeletePending, GoTo, At, Set, vars, run, files, online
<1>26. ASSUME NEW a \in Attempts, Unregister(a) PROVE Alone'
  BY <1>26 DEF Unregister, GoTo, At, Set, vars, run, files, online
<1>27. ASSUME NEW a \in Attempts, StopOnline(a) PROVE Alone'
  BY <1>27 DEF StopOnline, GoTo, At, Set, vars, run, files, online
<1>28. ASSUME NEW a \in Attempts, Leave(a) PROVE Alone'
  BY <1>28 DEF Leave, GoTo, At, Set, vars, run, files, online
<1>29. ASSUME NEW a \in Attempts, SweepRead(a) PROVE Alone'
  BY <1>29 DEF SweepRead, GoTo, At, Set, vars, run, files, online
<1>30. ASSUME NEW a \in Attempts, SweepWrite(a) PROVE Alone'
  BY <1>30 DEF SweepWrite, GoTo, At, Set, vars, run, files, online
<1>31. ASSUME NEW a \in Attempts, SweepFails(a) PROVE Alone'
  BY <1>31 DEF SweepFails, GoTo, At, Set, vars, run, files, online
<1>32. ASSUME NEW a \in Attempts, SweepRemove(a) PROVE Alone'
  BY <1>32 DEF SweepRemove, GoTo, At, Set, vars, run, files, online
<1>33. ASSUME NEW a \in Attempts, Save(a) PROVE Alone'
  BY <1>33 DEF Save, GoTo, At, Set, vars, run, files, online
<1>34. ASSUME NEW a \in Attempts, Enqueue(a) PROVE Alone'
  BY <1>34 DEF Enqueue, GoTo, At, Set, vars, run, files, online
<1>35. ASSUME NEW a \in Attempts, NoResume(a) PROVE Alone'
  BY <1>35 DEF NoResume, GoTo, At, Set, vars, run, files, online
<1>36. ASSUME NEW a \in Attempts, CancelPrompt(a) PROVE Alone'
  BY <1>36 DEF CancelPrompt, GoTo, At, Set, vars, run, files, online
<1>37. ASSUME NEW a \in Attempts, Disconnect(a) PROVE Alone'
  BY <1>37 DEF Disconnect, Running, GoTo, At, Set, vars, run, files, online
<1>38. ASSUME NEW a \in Attempts, Beat(a) PROVE Alone'
  BY <1>38 DEF Beat, GoTo, At, Set, vars, run, files, online
<1>39. ASSUME NEW a \in Attempts, BeatStops(a) PROVE Alone'
  BY <1>39 DEF BeatStops, OnlinePCs, GoTo, At, Set, vars, run, files, online
<1>40. ASSUME NEW a \in Attempts, NEW q \in Attempts, Answer(q, a) PROVE Alone'
  BY <1>40 DEF Answer, MayStart, Settled, GoTo, At, Set, vars, run, files, online
<1>41. ASSUME NEW r \in Calls, AppendToolResult(r) PROVE Alone'
  BY <1>41 DEF AppendToolResult, GoTo, At, Set, vars, run, files, online
<1> QED BY <1>1, <1>2, <1>3, <1>4, <1>5, <1>6, <1>7, <1>8, <1>9, <1>10,
    <1>11, <1>12, <1>13, <1>14, <1>15, <1>16, <1>17, <1>18, <1>19, <1>20,
    <1>21, <1>22, <1>23, <1>24, <1>25, <1>26, <1>27, <1>28, <1>29, <1>30,
    <1>31, <1>32, <1>33, <1>34, <1>35, <1>36, <1>37, <1>38, <1>39, <1>40,
    <1>41, ZenonT(60)
    DEF Next, AskInTui, Load, Work, Unwind, Sweep, Settle

(* It is marked, and its cancel function is the stored one. *)
LEMMA FoundNext ==
    ASSUME TypeOK, Fresh, Untouched, ~Overlap, Serial, [Next]_vars
    PROVE  Found'
<1> USE TaskAssumption DEF TypeOK, PCs, Resting, Running, OnlinePCs, Files, Absent, File, Calls,
        Fresh, Past, Untouched, Serial, Alone, Found
<1>1. CASE UNCHANGED vars
  BY <1>1 DEF GoTo, At, Set, vars, run, files, online
<1>2. ASSUME StartFirst PROVE Found'
  BY <1>2 DEF StartFirst, GoTo, At, Set, vars, run, files, online
<1>3. ASSUME Discard PROVE Found'
  BY <1>3 DEF Discard, DeletePending, GoTo, At, Set, vars, run, files, online
<1>4. ASSUME Cancel PROVE Found'
  BY <1>4 DEF Cancel, Running, GoTo, At, Set, vars, run, files, online
<1>5. ASSUME Expire PROVE Found'
  BY <1>5 DEF Expire, GoTo, At, Set, vars, run, files, online
<1>6. ASSUME Crash PROVE Found'
  BY <1>6 DEF Crash, GoTo, At, Set, vars, run, files, online
<1>7. ASSUME NEW a \in Attempts, Resume(a) PROVE Found'
  BY <1>7 DEF Resume, Listed, MayStart, Settled, GoTo, At, Set, vars, run, files, online
<1>8. ASSUME NEW a \in Attempts, AnsweredInTui(a) PROVE Found'
  BY <1>8 DEF AnsweredInTui, GoTo, At, Set, vars, run, files, online
<1>9. ASSUME NEW a \in Attempts, LeftInTui(a) PROVE Found'
  BY <1>9 DEF LeftInTui, GoTo, At, Set, vars, run, files, online
<1>10. ASSUME NEW a \in Attempts, CanceledInTui(a) PROVE Found'
  BY <1>10 DEF CanceledInTui, GoTo, At, Set, vars, run, files, online
<1>11. ASSUME NEW a \in Attempts, LoadRead(a) PROVE Found'
  BY <1>11 DEF LoadRead, GoTo, At, Set, vars, run, files, online
<1>12. ASSUME NEW a \in Attempts, LoadWrite(a) PROVE Found'
  BY <1>12 DEF LoadWrite, GoTo, At, Set, vars, run, files, online
<1>13. ASSUME NEW a \in Attempts, LoadDrop(a) PROVE Found'
  BY <1>13, SMTT(60) DEF LoadDrop, GoTo, At, Set, vars, run, files, online
<1>14. ASSUME NEW a \in Attempts, Abandon(a) PROVE Found'
  BY <1>14 DEF Abandon, GoTo, At, Set, vars, run, files, online
<1>15. ASSUME NEW a \in Attempts, CreateExecPending(a) PROVE Found'
  BY <1>15 DEF CreateExecPending, GoTo, At, Set, vars, run, files, online
<1>16. ASSUME NEW a \in Attempts, KeepOnline(a) PROVE Found'
  BY <1>16 DEF KeepOnline, GoTo, At, Set, vars, run, files, online
<1>17. ASSUME NEW a \in Attempts, Register(a) PROVE Found'
  BY <1>17, SMTT(60) DEF Register, GoTo, At, Set, vars, run, files, online
<1>18. ASSUME NEW a \in Attempts, CallTool(a) PROVE Found'
  BY <1>18 DEF CallTool, GoTo, At, Set, vars, run, files, online
<1>19. ASSUME NEW a \in Attempts, ToolReturns(a) PROVE Found'
  BY <1>19 DEF ToolReturns, AfterTool, Result, GoTo, At, Set, vars, run, files, online
<1>20. ASSUME NEW a \in Attempts, WriteTodos(a) PROVE Found'
  BY <1>20 DEF WriteTodos, AfterTool, Result, GoTo, At, Set, vars, run, files, online
<1>21. ASSUME NEW a \in Attempts, Ask(a) PROVE Found'
  BY <1>21 DEF Ask, GoTo, At, Set, vars, run, files, online
<1>22. ASSUME NEW a \in Attempts, Finish(a) PROVE Found'
  BY <1>22 DEF Finish, GoTo, At, Set, vars, run, files, online
<1>23. ASSUME NEW a \in Attempts, Fail(a) PROVE Found'
  BY <1>23 DEF Fail, GoTo, At, Set, vars, run, files, online
<1>24. ASSUME NEW a \in Attempts, SeeCancel(a) PROVE Found'
  BY <1>24 DEF SeeCancel, DeletePending, GoTo, At, Set, vars, run, files, online
<1>25. ASSUME NEW a \in Attempts, AbortTask(a) PROVE Found'
  BY <1>25 DEF AbortTask, DeletePending, GoTo, At, Set, vars, run, files, online
<1>26. ASSUME NEW a \in Attempts, Unregister(a) PROVE Found'
  BY <1>26, SMTT(60) DEF Unregister, GoTo, At, Set, vars, run, files, online
<1>27. ASSUME NEW a \in Attempts, StopOnline(a) PROVE Found'
  BY <1>27, SMTT(60) DEF StopOnline, GoTo, At, Set, vars, run, files, online
<1>28. ASSUME NEW a \in Attempts, Leave(a) PROVE Found'
  BY <1>28, SMTT(60) DEF Leave, GoTo, At, Set, vars, run, files, online
<1>29. ASSUME NEW a \in Attempts, SweepRead(a) PROVE Found'
  BY <1>29 DEF SweepRead, GoTo, At, Set, vars, run, files, online
<1>30. ASSUME NEW a \in Attempts, SweepWrite(a) PROVE Found'
  BY <1>30 DEF SweepWrite, GoTo, At, Set, vars, run, files, online
<1>31. ASSUME NEW a \in Attempts, SweepFails(a) PROVE Found'
  BY <1>31 DEF SweepFails, GoTo, At, Set, vars, run, files, online
<1>32. ASSUME NEW a \in Attempts, SweepRemove(a) PROVE Found'
  BY <1>32 DEF SweepRemove, GoTo, At, Set, vars, run, files, online
<1>33. ASSUME NEW a \in Attempts, Save(a) PROVE Found'
  BY <1>33 DEF Save, GoTo, At, Set, vars, run, files, online
<1>34. ASSUME NEW a \in Attempts, Enqueue(a) PROVE Found'
  BY <1>34 DEF Enqueue, GoTo, At, Set, vars, run, files, online
<1>35. ASSUME NEW a \in Attempts, NoResume(a) PROVE Found'
  BY <1>35 DEF NoResume, GoTo, At, Set, vars, run, files, online
<1>36. ASSUME NEW a \in Attempts, CancelPrompt(a) PROVE Found'
  BY <1>36 DEF CancelPrompt, GoTo, At, Set, vars, run, files, online
<1>37. ASSUME NEW a \in Attempts, Disconnect(a) PROVE Found'
  BY <1>37 DEF Disconnect, Running, GoTo, At, Set, vars, run, files, online
<1>38. ASSUME NEW a \in Attempts, Beat(a) PROVE Found'
  BY <1>38 DEF Beat, GoTo, At, Set, vars, run, files, online
<1>39. ASSUME NEW a \in Attempts, BeatStops(a) PROVE Found'
  BY <1>39 DEF BeatStops, OnlinePCs, GoTo, At, Set, vars, run, files, online
<1>40. ASSUME NEW a \in Attempts, NEW q \in Attempts, Answer(q, a) PROVE Found'
  BY <1>40 DEF Answer, MayStart, Settled, GoTo, At, Set, vars, run, files, online
<1>41. ASSUME NEW r \in Calls, AppendToolResult(r) PROVE Found'
  BY <1>41 DEF AppendToolResult, GoTo, At, Set, vars, run, files, online
<1> QED BY <1>1, <1>2, <1>3, <1>4, <1>5, <1>6, <1>7, <1>8, <1>9, <1>10,
    <1>11, <1>12, <1>13, <1>14, <1>15, <1>16, <1>17, <1>18, <1>19, <1>20,
    <1>21, <1>22, <1>23, <1>24, <1>25, <1>26, <1>27, <1>28, <1>29, <1>30,
    <1>31, <1>32, <1>33, <1>34, <1>35, <1>36, <1>37, <1>38, <1>39, <1>40,
    <1>41, ZenonT(60)
    DEF Next, AskInTui, Load, Work, Unwind, Sweep, Settle

(* What a resume has read is what the file has. *)
LEMMA LoadingNext ==
    ASSUME TypeOK, Fresh, Untouched, ~Overlap, Serial, [Next]_vars
    PROVE  Loading'
<1> USE TaskAssumption DEF TypeOK, PCs, Resting, Running, OnlinePCs, Files, Absent, File, Calls,
        Fresh, Past, Untouched, Serial, Alone, Loading
<1>1. CASE UNCHANGED vars
  BY <1>1 DEF GoTo, At, Set, vars, run, files, online
<1>2. ASSUME StartFirst PROVE Loading'
  BY <1>2 DEF StartFirst, GoTo, At, Set, vars, run, files, online
<1>3. ASSUME Discard PROVE Loading'
  BY <1>3 DEF Discard, DeletePending, GoTo, At, Set, vars, run, files, online
<1>4. ASSUME Cancel PROVE Loading'
  BY <1>4 DEF Cancel, Running, GoTo, At, Set, vars, run, files, online
<1>5. ASSUME Expire PROVE Loading'
  BY <1>5 DEF Expire, GoTo, At, Set, vars, run, files, online
<1>6. ASSUME Crash PROVE Loading'
  BY <1>6 DEF Crash, GoTo, At, Set, vars, run, files, online
<1>7. ASSUME NEW a \in Attempts, Resume(a) PROVE Loading'
  BY <1>7 DEF Resume, Listed, MayStart, Settled, GoTo, At, Set, vars, run, files, online
<1>8. ASSUME NEW a \in Attempts, AnsweredInTui(a) PROVE Loading'
  BY <1>8 DEF AnsweredInTui, GoTo, At, Set, vars, run, files, online
<1>9. ASSUME NEW a \in Attempts, LeftInTui(a) PROVE Loading'
  BY <1>9 DEF LeftInTui, GoTo, At, Set, vars, run, files, online
<1>10. ASSUME NEW a \in Attempts, CanceledInTui(a) PROVE Loading'
  BY <1>10 DEF CanceledInTui, GoTo, At, Set, vars, run, files, online
<1>11. ASSUME NEW a \in Attempts, LoadRead(a) PROVE Loading'
  BY <1>11 DEF LoadRead, GoTo, At, Set, vars, run, files, online
<1>12. ASSUME NEW a \in Attempts, LoadWrite(a) PROVE Loading'
  BY <1>12, SMTT(60) DEF LoadWrite, GoTo, At, Set, vars, run, files, online
<1>13. ASSUME NEW a \in Attempts, LoadDrop(a) PROVE Loading'
  BY <1>13 DEF LoadDrop, GoTo, At, Set, vars, run, files, online
<1>14. ASSUME NEW a \in Attempts, Abandon(a) PROVE Loading'
  BY <1>14 DEF Abandon, GoTo, At, Set, vars, run, files, online
<1>15. ASSUME NEW a \in Attempts, CreateExecPending(a) PROVE Loading'
  BY <1>15 DEF CreateExecPending, GoTo, At, Set, vars, run, files, online
<1>16. ASSUME NEW a \in Attempts, KeepOnline(a) PROVE Loading'
  BY <1>16 DEF KeepOnline, GoTo, At, Set, vars, run, files, online
<1>17. ASSUME NEW a \in Attempts, Register(a) PROVE Loading'
  BY <1>17 DEF Register, GoTo, At, Set, vars, run, files, online
<1>18. ASSUME NEW a \in Attempts, CallTool(a) PROVE Loading'
  BY <1>18 DEF CallTool, GoTo, At, Set, vars, run, files, online
<1>19. ASSUME NEW a \in Attempts, ToolReturns(a) PROVE Loading'
  BY <1>19, SMTT(60) DEF ToolReturns, AfterTool, Result, GoTo, At, Set, vars, run, files, online
<1>20. ASSUME NEW a \in Attempts, WriteTodos(a) PROVE Loading'
  BY <1>20, SMTT(60) DEF WriteTodos, AfterTool, Result, GoTo, At, Set, vars, run, files, online
<1>21. ASSUME NEW a \in Attempts, Ask(a) PROVE Loading'
  BY <1>21, SMTT(60) DEF Ask, GoTo, At, Set, vars, run, files, online
<1>22. ASSUME NEW a \in Attempts, Finish(a) PROVE Loading'
  BY <1>22 DEF Finish, GoTo, At, Set, vars, run, files, online
<1>23. ASSUME NEW a \in Attempts, Fail(a) PROVE Loading'
  BY <1>23 DEF Fail, GoTo, At, Set, vars, run, files, online
<1>24. ASSUME NEW a \in Attempts, SeeCancel(a) PROVE Loading'
  BY <1>24 DEF SeeCancel, DeletePending, GoTo, At, Set, vars, run, files, online
<1>25. ASSUME NEW a \in Attempts, AbortTask(a) PROVE Loading'
  BY <1>25 DEF AbortTask, DeletePending, GoTo, At, Set, vars, run, files, online
<1>26. ASSUME NEW a \in Attempts, Unregister(a) PROVE Loading'
  BY <1>26 DEF Unregister, GoTo, At, Set, vars, run, files, online
<1>27. ASSUME NEW a \in Attempts, StopOnline(a) PROVE Loading'
  BY <1>27 DEF StopOnline, GoTo, At, Set, vars, run, files, online
<1>28. ASSUME NEW a \in Attempts, Leave(a) PROVE Loading'
  BY <1>28 DEF Leave, GoTo, At, Set, vars, run, files, online
<1>29. ASSUME NEW a \in Attempts, SweepRead(a) PROVE Loading'
  BY <1>29 DEF SweepRead, GoTo, At, Set, vars, run, files, online
<1>30. ASSUME NEW a \in Attempts, SweepWrite(a) PROVE Loading'
  BY <1>30, SMTT(60) DEF SweepWrite, GoTo, At, Set, vars, run, files, online
<1>31. ASSUME NEW a \in Attempts, SweepFails(a) PROVE Loading'
  BY <1>31, SMTT(60) DEF SweepFails, GoTo, At, Set, vars, run, files, online
<1>32. ASSUME NEW a \in Attempts, SweepRemove(a) PROVE Loading'
  BY <1>32 DEF SweepRemove, GoTo, At, Set, vars, run, files, online
<1>33. ASSUME NEW a \in Attempts, Save(a) PROVE Loading'
  BY <1>33 DEF Save, GoTo, At, Set, vars, run, files, online
<1>34. ASSUME NEW a \in Attempts, Enqueue(a) PROVE Loading'
  BY <1>34 DEF Enqueue, GoTo, At, Set, vars, run, files, online
<1>35. ASSUME NEW a \in Attempts, NoResume(a) PROVE Loading'
  BY <1>35 DEF NoResume, GoTo, At, Set, vars, run, files, online
<1>36. ASSUME NEW a \in Attempts, CancelPrompt(a) PROVE Loading'
  BY <1>36 DEF CancelPrompt, GoTo, At, Set, vars, run, files, online
<1>37. ASSUME NEW a \in Attempts, Disconnect(a) PROVE Loading'
  BY <1>37 DEF Disconnect, Running, GoTo, At, Set, vars, run, files, online
<1>38. ASSUME NEW a \in Attempts, Beat(a) PROVE Loading'
  BY <1>38 DEF Beat, GoTo, At, Set, vars, run, files, online
<1>39. ASSUME NEW a \in Attempts, BeatStops(a) PROVE Loading'
  BY <1>39 DEF BeatStops, OnlinePCs, GoTo, At, Set, vars, run, files, online
<1>40. ASSUME NEW a \in Attempts, NEW q \in Attempts, Answer(q, a) PROVE Loading'
  BY <1>40 DEF Answer, MayStart, Settled, GoTo, At, Set, vars, run, files, online
<1>41. ASSUME NEW r \in Calls, AppendToolResult(r) PROVE Loading'
  BY <1>41, SMTT(60) DEF AppendToolResult, GoTo, At, Set, vars, run, files, online
<1> QED BY <1>1, <1>2, <1>3, <1>4, <1>5, <1>6, <1>7, <1>8, <1>9, <1>10,
    <1>11, <1>12, <1>13, <1>14, <1>15, <1>16, <1>17, <1>18, <1>19, <1>20,
    <1>21, <1>22, <1>23, <1>24, <1>25, <1>26, <1>27, <1>28, <1>29, <1>30,
    <1>31, <1>32, <1>33, <1>34, <1>35, <1>36, <1>37, <1>38, <1>39, <1>40,
    <1>41, ZenonT(60)
    DEF Next, AskInTui, Load, Work, Unwind, Sweep, Settle

(* A question is answered before the next one is asked. *)
LEMMA NoQuestionNext ==
    ASSUME TypeOK, Fresh, Untouched, ~Overlap, Serial, [Next]_vars
    PROVE  NoQuestion'
<1> USE TaskAssumption DEF TypeOK, PCs, Resting, Running, OnlinePCs, Files, Absent, File, Calls,
        Fresh, Past, Untouched, Serial, Alone, Loading, NoQuestion
<1>1. CASE UNCHANGED vars
  BY <1>1 DEF GoTo, At, Set, vars, run, files, online
<1>2. ASSUME StartFirst PROVE NoQuestion'
  BY <1>2 DEF StartFirst, GoTo, At, Set, vars, run, files, online
<1>3. ASSUME Discard PROVE NoQuestion'
  BY <1>3 DEF Discard, DeletePending, GoTo, At, Set, vars, run, files, online
<1>4. ASSUME Cancel PROVE NoQuestion'
  BY <1>4 DEF Cancel, Running, GoTo, At, Set, vars, run, files, online
<1>5. ASSUME Expire PROVE NoQuestion'
  BY <1>5 DEF Expire, GoTo, At, Set, vars, run, files, online
<1>6. ASSUME Crash PROVE NoQuestion'
  BY <1>6 DEF Crash, GoTo, At, Set, vars, run, files, online
<1>7. ASSUME NEW a \in Attempts, Resume(a) PROVE NoQuestion'
  BY <1>7 DEF Resume, Listed, MayStart, Settled, GoTo, At, Set, vars, run, files, online
<1>8. ASSUME NEW a \in Attempts, AnsweredInTui(a) PROVE NoQuestion'
  BY <1>8 DEF AnsweredInTui, GoTo, At, Set, vars, run, files, online
<1>9. ASSUME NEW a \in Attempts, LeftInTui(a) PROVE NoQuestion'
  BY <1>9 DEF LeftInTui, GoTo, At, Set, vars, run, files, online
<1>10. ASSUME NEW a \in Attempts, CanceledInTui(a) PROVE NoQuestion'
  BY <1>10 DEF CanceledInTui, GoTo, At, Set, vars, run, files, online
<1>11. ASSUME NEW a \in Attempts, LoadRead(a) PROVE NoQuestion'
  BY <1>11 DEF LoadRead, GoTo, At, Set, vars, run, files, online
<1>12. ASSUME NEW a \in Attempts, LoadWrite(a) PROVE NoQuestion'
  BY <1>12 DEF LoadWrite, GoTo, At, Set, vars, run, files, online
<1>13. ASSUME NEW a \in Attempts, LoadDrop(a) PROVE NoQuestion'
  BY <1>13 DEF LoadDrop, GoTo, At, Set, vars, run, files, online
<1>14. ASSUME NEW a \in Attempts, Abandon(a) PROVE NoQuestion'
  BY <1>14 DEF Abandon, GoTo, At, Set, vars, run, files, online
<1>15. ASSUME NEW a \in Attempts, CreateExecPending(a) PROVE NoQuestion'
  BY <1>15 DEF CreateExecPending, GoTo, At, Set, vars, run, files, online
<1>16. ASSUME NEW a \in Attempts, KeepOnline(a) PROVE NoQuestion'
  BY <1>16 DEF KeepOnline, GoTo, At, Set, vars, run, files, online
<1>17. ASSUME NEW a \in Attempts, Register(a) PROVE NoQuestion'
  BY <1>17 DEF Register, GoTo, At, Set, vars, run, files, online
<1>18. ASSUME NEW a \in Attempts, CallTool(a) PROVE NoQuestion'
  BY <1>18 DEF CallTool, GoTo, At, Set, vars, run, files, online
<1>19. ASSUME NEW a \in Attempts, ToolReturns(a) PROVE NoQuestion'
  BY <1>19 DEF ToolReturns, AfterTool, Result, GoTo, At, Set, vars, run, files, online
<1>20. ASSUME NEW a \in Attempts, WriteTodos(a) PROVE NoQuestion'
  BY <1>20 DEF WriteTodos, AfterTool, Result, GoTo, At, Set, vars, run, files, online
<1>21. ASSUME NEW a \in Attempts, Ask(a) PROVE NoQuestion'
  BY <1>21, SMTT(60) DEF Ask, GoTo, At, Set, vars, run, files, online
<1>22. ASSUME NEW a \in Attempts, Finish(a) PROVE NoQuestion'
  BY <1>22 DEF Finish, GoTo, At, Set, vars, run, files, online
<1>23. ASSUME NEW a \in Attempts, Fail(a) PROVE NoQuestion'
  BY <1>23 DEF Fail, GoTo, At, Set, vars, run, files, online
<1>24. ASSUME NEW a \in Attempts, SeeCancel(a) PROVE NoQuestion'
  BY <1>24 DEF SeeCancel, DeletePending, GoTo, At, Set, vars, run, files, online
<1>25. ASSUME NEW a \in Attempts, AbortTask(a) PROVE NoQuestion'
  BY <1>25 DEF AbortTask, DeletePending, GoTo, At, Set, vars, run, files, online
<1>26. ASSUME NEW a \in Attempts, Unregister(a) PROVE NoQuestion'
  BY <1>26 DEF Unregister, GoTo, At, Set, vars, run, files, online
<1>27. ASSUME NEW a \in Attempts, StopOnline(a) PROVE NoQuestion'
  BY <1>27 DEF StopOnline, GoTo, At, Set, vars, run, files, online
<1>28. ASSUME NEW a \in Attempts, Leave(a) PROVE NoQuestion'
  BY <1>28 DEF Leave, GoTo, At, Set, vars, run, files, online
<1>29. ASSUME NEW a \in Attempts, SweepRead(a) PROVE NoQuestion'
  BY <1>29 DEF SweepRead, GoTo, At, Set, vars, run, files, online
<1>30. ASSUME NEW a \in Attempts, SweepWrite(a) PROVE NoQuestion'
  BY <1>30 DEF SweepWrite, GoTo, At, Set, vars, run, files, online
<1>31. ASSUME NEW a \in Attempts, SweepFails(a) PROVE NoQuestion'
  BY <1>31 DEF SweepFails, GoTo, At, Set, vars, run, files, online
<1>32. ASSUME NEW a \in Attempts, SweepRemove(a) PROVE NoQuestion'
  BY <1>32 DEF SweepRemove, GoTo, At, Set, vars, run, files, online
<1>33. ASSUME NEW a \in Attempts, Save(a) PROVE NoQuestion'
  BY <1>33 DEF Save, GoTo, At, Set, vars, run, files, online
<1>34. ASSUME NEW a \in Attempts, Enqueue(a) PROVE NoQuestion'
  BY <1>34 DEF Enqueue, GoTo, At, Set, vars, run, files, online
<1>35. ASSUME NEW a \in Attempts, NoResume(a) PROVE NoQuestion'
  BY <1>35 DEF NoResume, GoTo, At, Set, vars, run, files, online
<1>36. ASSUME NEW a \in Attempts, CancelPrompt(a) PROVE NoQuestion'
  BY <1>36 DEF CancelPrompt, GoTo, At, Set, vars, run, files, online
<1>37. ASSUME NEW a \in Attempts, Disconnect(a) PROVE NoQuestion'
  BY <1>37 DEF Disconnect, Running, GoTo, At, Set, vars, run, files, online
<1>38. ASSUME NEW a \in Attempts, Beat(a) PROVE NoQuestion'
  BY <1>38 DEF Beat, GoTo, At, Set, vars, run, files, online
<1>39. ASSUME NEW a \in Attempts, BeatStops(a) PROVE NoQuestion'
  BY <1>39 DEF BeatStops, OnlinePCs, GoTo, At, Set, vars, run, files, online
<1>40. ASSUME NEW a \in Attempts, NEW q \in Attempts, Answer(q, a) PROVE NoQuestion'
  BY <1>40 DEF Answer, MayStart, Settled, GoTo, At, Set, vars, run, files, online
<1>41. ASSUME NEW r \in Calls, AppendToolResult(r) PROVE NoQuestion'
  BY <1>41 DEF AppendToolResult, GoTo, At, Set, vars, run, files, online
<1> QED BY <1>1, <1>2, <1>3, <1>4, <1>5, <1>6, <1>7, <1>8, <1>9, <1>10,
    <1>11, <1>12, <1>13, <1>14, <1>15, <1>16, <1>17, <1>18, <1>19, <1>20,
    <1>21, <1>22, <1>23, <1>24, <1>25, <1>26, <1>27, <1>28, <1>29, <1>30,
    <1>31, <1>32, <1>33, <1>34, <1>35, <1>36, <1>37, <1>38, <1>39, <1>40,
    <1>41, ZenonT(60)
    DEF Next, AskInTui, Load, Work, Unwind, Sweep, Settle

-----------------------------------------------------------------------------
(* For every number of attempts, overlapping or not *)

LEMMA InitInvariant == Init => IInv
<1> SUFFICES ASSUME Init PROVE IInv
  OBVIOUS
<1> USE TaskAssumption DEF Init
<1>1. Absent \in Files /\ archive \in [written : BOOLEAN, results : SUBSET Calls]
  BY DEF Files, Absent
<1>2. pc \in [Attempts -> PCs] /\ \A a \in Attempts : pc[a] # "tooling"
  BY DEF PCs, Resting
<1>3. hand \in [Attempts -> {"none", "save", "enqueue", "open", "closed"}]
  OBVIOUS
<1>4. sweep \in [Attempts -> {"no", "read", "write", "remove"}]
  OBVIOUS
<1>5. copy \in [Attempts -> Files] /\ mem \in [Attempts -> SUBSET Calls]
  BY <1>1
<1>6. TypeOK
  <2>1. disk \in Files /\ (disk.present \/ disk = Absent)
    BY <1>1
  <2>2. cause \in [Attempts -> {"none", "user", "other"}] /\ tidy \in [Attempts -> BOOLEAN]
    OBVIOUS
  <2>3. calls \in [Attempts -> 0..MaxCalls]
    OBVIOUS
  <2>4. appends \subseteq Calls /\ fn \in Attempts \cup {None} /\ beat \subseteq Attempts
    BY Zenon
  <2>5. marker \in BOOLEAN /\ discarded \in BOOLEAN
    BY Zenon
  <2>7. crashes \in 0..MaxCrashes
    OBVIOUS
  <2>6. \A a \in Attempts : pc[a] = "tooling" => calls[a] > 0
    BY <1>2
  <2> QED BY <1>1, <1>2, <1>3, <1>4, <1>5, <2>1, <2>2, <2>3, <2>4, <2>5, <2>6, <2>7, Zenon DEF TypeOK
<1>7. QuestionsOfPast /\ QuestionCarriesResults
  BY DEF QuestionsOfPast, QuestionCarriesResults, Absent
<1>8. RemovedWhenWritten /\ Fresh /\ Untouched
  BY DEF RemovedWhenWritten, Fresh, Untouched, Absent
<1>. QED  BY <1>6, <1>7, <1>8 DEF IInv

LEMMA NextInvariant == IInv /\ [Next]_vars => IInv'
BY TypesNext, QuestionsNext, CarriesNext, WrittenNext, FreshNext, UntouchedNext DEF IInv

LEMMA Invariant == Spec => []IInv
<1>1. Init => IInv
  BY InitInvariant
<1>2. IInv /\ [Next]_vars => IInv'
  BY NextInvariant
<1>. QED  BY <1>1, <1>2, PTL DEF Spec

(* The task, its file and its runs only take the values the model gives them. *)
THEOREM TypeCorrect == Spec => []TypeOK
<1>1. IInv => TypeOK
  BY DEF IInv
<1>. QED  BY <1>1, Invariant, PTL

(* A question never stands on disk without a result of the run that asked it, *)
(* whichever goroutines still have to append theirs.                          *)
THEOREM QuestionCarries == Spec => []QuestionCarriesResults
<1>1. IInv => QuestionCarriesResults
  BY DEF IInv
<1>. QED  BY <1>1, Invariant, PTL

WritesFile ==
    \/ disk' = Absent /\ (discarded' \/ \E a \in Attempts : sweep[a] = "remove")
    \/ \E a \in Attempts :
        CreateExecPending(a) \/ LoadWrite(a) \/ WriteTodos(a) \/ Save(a)
    \/ \E r \in Calls : AppendToolResult(r)

(* All the steps that write the file. *)
LEMMA WhoWrites ==
  ASSUME [Next]_vars, disk' # disk
  PROVE  WritesFile
<1>1. ASSUME NEW a \in Attempts, SweepRemove(a) PROVE WritesFile
  BY <1>1 DEF SweepRemove, At, WritesFile
<1>2. ASSUME NEW a \in Attempts, SeeCancel(a) \/ AbortTask(a) PROVE WritesFile
  BY <1>2 DEF SeeCancel, AbortTask, DeletePending, WritesFile
<1>3. CASE Discard
  BY <1>3 DEF Discard, DeletePending, WritesFile
<1>4. ASSUME NEW a \in Attempts,
             \/ Resume(a) \/ AskInTui(a) \/ LoadRead(a) \/ LoadDrop(a)
             \/ Abandon(a) \/ KeepOnline(a) \/ Register(a) \/ CallTool(a) \/ ToolReturns(a)
      PROVE  FALSE
  BY <1>4 DEF Resume, AskInTui, AnsweredInTui, LeftInTui, CanceledInTui, LoadRead,
      LoadDrop, Abandon, KeepOnline, Register, CallTool, ToolReturns, files
<1>5. ASSUME NEW a \in Attempts,
             \/ Ask(a) \/ Finish(a) \/ Fail(a) \/ Unwind(a) \/ SweepRead(a)
             \/ SweepWrite(a) \/ SweepFails(a) \/ Enqueue(a) \/ NoResume(a)
      PROVE  FALSE
  BY <1>5 DEF Ask, Finish, Fail, Unwind, Unregister, StopOnline, Leave, SweepRead,
      SweepWrite, SweepFails, Enqueue, NoResume, files
<1>6. ASSUME NEW a \in Attempts,
             \/ CancelPrompt(a) \/ Disconnect(a) \/ Beat(a) \/ BeatStops(a)
             \/ \E q \in Attempts : Answer(q, a)
      PROVE  FALSE
  BY <1>6 DEF CancelPrompt, Disconnect, Beat, BeatStops, Answer, files
<1>7. CASE StartFirst \/ Cancel \/ Expire \/ Crash \/ UNCHANGED vars
  BY <1>7 DEF StartFirst, Cancel, Expire, Crash, vars, files
<1> QED BY <1>1, <1>2, <1>3, <1>4, <1>5, <1>6, <1>7
        DEF Next, Load, Work, Sweep, Settle, WritesFile

LEMMA RemovalStep ==
  ASSUME IInv, [Next]_vars, disk.present, ~disk'.present
  PROVE  archive.written \/ discarded'
<1> USE TaskAssumption DEF IInv, TypeOK, Files
<1>1. WritesFile
  BY WhoWrites
<1>2. ASSUME NEW a \in Attempts,
             CreateExecPending(a) \/ LoadWrite(a) \/ WriteTodos(a) \/ Save(a)
      PROVE  disk'.present
  BY <1>2 DEF CreateExecPending, LoadWrite, WriteTodos, Save, File
<1>3. ASSUME NEW r \in Calls, AppendToolResult(r) PROVE disk'.present
  BY <1>3 DEF AppendToolResult
<1> QED BY <1>1, <1>2, <1>3 DEF WritesFile, RemovedWhenWritten

(* The file of a task goes only after its row was written or when the user    *)
(* gave it up, however many attempts and prompts clean up at once.            *)
THEOREM RemovedHandled == Spec => RemovedOnlyWhenHandled
<1>1. IInv /\ [Next]_vars
        => [disk.present /\ ~disk'.present => archive.written \/ discarded']_vars
  BY RemovalStep
<1>. QED  BY <1>1, Invariant, PTL DEF Spec, RemovedOnlyWhenHandled

-----------------------------------------------------------------------------
(* When an attempt starts only after the one before has settled *)

LEMMA InitSerial == Init => Serial
BY DEF Init, Serial, Alone, Found, Loading, NoQuestion, Resting, Running, OnlinePCs

LEMMA NextSerial ==
  ASSUME ~Overlap, IInv, Serial, [Next]_vars
  PROVE  Serial'
BY AloneNext, FoundNext, LoadingNext, NoQuestionNext DEF IInv, Serial

LEMMA SerialInvariant ==
  ASSUME ~Overlap
  PROVE  Spec => [](IInv /\ Serial)
<1>1. Init => IInv /\ Serial
  BY InitInvariant, InitSerial
<1>2. (IInv /\ Serial) /\ [Next]_vars => (IInv /\ Serial)'
  BY NextInvariant, NextSerial
<1>. QED  BY <1>1, <1>2, PTL DEF Spec

(* Nobody is offered a task whose run still works.                            *)
THEOREM LiveExcluded ==
  ASSUME ~Overlap
  PROVE  Spec => []LiveRunsExcluded
<1>1. Serial => LiveRunsExcluded
  BY DEF Serial, Found, LiveRunsExcluded, Listed, OnlinePCs
<1>. QED  BY <1>1, SerialInvariant, PTL

(* A run that works can be cancelled.                                         *)
THEOREM CancelFound ==
  ASSUME ~Overlap
  PROVE  Spec => []CancelReaches
<1>1. Serial => CancelReaches
  BY TaskAssumption DEF Serial, Found, CancelReaches
<1>. QED  BY <1>1, SerialInvariant, PTL

LEMMA ResultsStep ==
  ASSUME IInv, Serial, [Next]_vars, disk.present, disk'.present
  PROVE  disk.results \subseteq disk'.results
<1> USE TaskAssumption DEF IInv, TypeOK, Files, File
<1>1. CASE UNCHANGED disk
  BY <1>1
<1>2. ASSUME NEW a \in Attempts, CreateExecPending(a) PROVE UNCHANGED disk
  BY <1>2 DEF CreateExecPending, GoTo, Untouched
<1>3. ASSUME NEW a \in Attempts, LoadWrite(a) PROVE disk'.results = disk.results
  BY <1>3 DEF LoadWrite, GoTo, Serial, Loading
<1>4. ASSUME NEW a \in Attempts, WriteTodos(a) \/ Save(a)
      PROVE  disk.results \subseteq disk'.results
  BY <1>4 DEF WriteTodos, Save
<1>5. ASSUME NEW r \in Calls, AppendToolResult(r)
      PROVE  disk.results \subseteq disk'.results
  BY <1>5 DEF AppendToolResult
<1>6. CASE disk' = Absent
  BY <1>6 DEF Absent
<1> QED BY <1>1, <1>2, <1>3, <1>4, <1>5, <1>6, WhoWrites DEF WritesFile

(* While the file is there it loses no result, although a resume writes back  *)
(* a copy it has read without the lock.                                       *)
THEOREM ResultsStay ==
  ASSUME ~Overlap
  PROVE  Spec => ResultsKept
<1>1. IInv /\ Serial /\ [Next]_vars
        => [disk.present /\ disk'.present => disk.results \subseteq disk'.results]_vars
  BY ResultsStep
<1>. QED  BY <1>1, SerialInvariant, PTL DEF Spec, ResultsKept

LEMMA QuestionStep ==
  ASSUME IInv, Serial, [Next]_vars, disk.asked # None, disk'.present, disk'.asked # disk.asked
  PROVE  \E a \in Attempts : pc[a] = "writeback" /\ copy[a].asked = disk.asked
<1> USE TaskAssumption DEF IInv, TypeOK, Files, File, Absent
<1>1. disk.present
  OBVIOUS
<1>2. ASSUME NEW a \in Attempts, CreateExecPending(a) PROVE FALSE
  BY <1>1, <1>2 DEF CreateExecPending, GoTo, Untouched
<1>3. ASSUME NEW a \in Attempts, LoadWrite(a)
      PROVE  pc[a] = "writeback" /\ copy[a].asked = disk.asked
  BY <1>1, <1>3 DEF LoadWrite, GoTo, Serial, Loading
<1>4. ASSUME NEW a \in Attempts, WriteTodos(a) PROVE FALSE
  BY <1>4 DEF WriteTodos
<1>5. ASSUME NEW a \in Attempts, Save(a) PROVE FALSE
  BY <1>5 DEF Save, At, Serial, NoQuestion
<1>6. ASSUME NEW r \in Calls, AppendToolResult(r) PROVE FALSE
  BY <1>1, <1>6 DEF AppendToolResult
<1> QED BY <1>2, <1>3, <1>4, <1>5, <1>6, WhoWrites DEF WritesFile

(* No question is overwritten or dropped before a resume has read it.         *)
THEOREM QuestionStays ==
  ASSUME ~Overlap
  PROVE  Spec => QuestionKept
<1>1. IInv /\ Serial /\ [Next]_vars
        => [disk.asked # None /\ disk'.present /\ disk'.asked # disk.asked
             => \E a \in Attempts : pc[a] = "writeback" /\ copy[a].asked = disk.asked]_vars
  BY QuestionStep
<1>. QED  BY <1>1, SerialInvariant, PTL DEF Spec, QuestionKept
=============================================================================
