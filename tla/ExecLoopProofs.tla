----------------------------- MODULE ExecLoopProofs -----------------------------
(* Theorems about ExecLoop, for every value of its constants.                 *)
EXTENDS ExecLoop, WellFoundedInduction, TLAPS

-----------------------------------------------------------------------------
(* Providers.                                                                 *)

(* The run has left every provider but that of its model, and the pool has    *)
(* none of those it left.                                                     *)
ProvidersLeft ==
    /\ model \in Models /\ pool \subseteq Models
    /\ asked \in Seq(Models) /\ Len(asked) > 0 /\ asked[Len(asked)] = model
    /\ \A i \in 1..(Len(asked) - 1), m \in pool \cup {model} : Provider[asked[i]] # Provider[m]
    /\ NoProviderTwice

(* Every step keeps to that.                                                  *)
LEMMA ProvidersStep == ProvidersLeft /\ [Next]_vars => ProvidersLeft'
  <1> SUFFICES ASSUME ProvidersLeft, [Next]_vars PROVE ProvidersLeft'
    OBVIOUS
  <1> USE DEF ProvidersLeft, NoProviderTwice, routing, sending, memory, steered, record, finish
  <1>1. CASE Begin
    BY <1>1 DEF Begin
  <1>2. CASE Canceled
    BY <1>2 DEF Canceled, LeaveCanceled
  <1>3. CASE NothingLeft
    BY <1>3 DEF NothingLeft, GiveUp
  <1>4. CASE ContextLength
    BY <1>4 DEF ContextLength
  <1>5. CASE TimedOut
    BY <1>5 DEF TimedOut
  <1>6. CASE RateLimited
    BY <1>6 DEF RateLimited
  <1>7. CASE Refused
    BY <1>7 DEF Refused
  <1>8. CASE Waited
    BY <1>8 DEF Waited
  <1>9. CASE NextRound
    BY <1>9 DEF NextRound, Others
  <1>10. CASE NoneAlive
    BY <1>10 DEF NoneAlive, GiveUp, Others
  <1>11. CASE NoFallback
    BY <1>11 DEF NoFallback, GiveUp
  <1>12. ASSUME NEW m \in Models, MoveOn(m) PROVE ProvidersLeft'
    <2>1. /\ m \in pool /\ Provider[m] # Provider[model]
          /\ model' = m /\ asked' = Append(asked, m)
          /\ pool' = {k \in pool : Provider[k] # Provider[model]}
      BY <1>12 DEF MoveOn, Others
    <2> DEFINE n == Len(asked)
    <2>2. n \in Nat \ {0} /\ asked' \in Seq(Models) /\ Len(asked') = n + 1 /\ asked'[n + 1] = m
          /\ \A i \in 1..n : asked'[i] = asked[i] /\ asked[i] \in Models
      BY <2>1
    <2> HIDE DEF n
    <2>3. asked[n] = model /\ \A i \in 1..(n - 1), k \in pool \cup {model} : Provider[asked[i]] # Provider[k]
      BY DEF n
    <2>4. \A i \in 1..n, k \in pool' \cup {m} : Provider[asked[i]] # Provider[k]
      <3>1. ASSUME NEW i \in 1..n, NEW k \in pool' \cup {m} PROVE Provider[asked[i]] # Provider[k]
        <4>1. k \in pool /\ Provider[k] # Provider[model]
          BY <2>1
        <4>2. i = n \/ i \in 1..(n - 1)
          BY <2>2
        <4>3. QED
          BY <2>3, <4>1, <4>2
      <3>2. QED
        BY <3>1
    <2>5. \A i, j \in 1..n : i # j => Provider[asked[i]] # Provider[asked[j]]
      BY DEF n
    <2>6. DOMAIN asked' = 1..(n + 1)
      BY <2>2
    <2> HIDE DEF ProvidersLeft, NoProviderTwice
    <2>7. ASSUME NEW i \in 1..(n + 1), NEW j \in 1..(n + 1), i # j
          PROVE  Provider[asked'[i]] # Provider[asked'[j]]
      <3>1. CASE i = n + 1
        BY <2>2, <2>4, <2>7, <3>1
      <3>2. CASE j = n + 1
        BY <2>2, <2>4, <2>7, <3>2
      <3>3. CASE i # n + 1 /\ j # n + 1
        <4>1. i \in 1..n /\ j \in 1..n
          BY <2>2, <3>3
        <4>2. QED
          BY <2>2, <2>5, <2>7, <4>1
      <3>4. QED
        BY <3>1, <3>2, <3>3
    <2>8. NoProviderTwice'
      BY <2>6, <2>7 DEF NoProviderTwice
    <2>9. pool \subseteq Models /\ pool' \subseteq pool
      BY <2>1 DEF ProvidersLeft
    <2>10. \A i \in 1..((n + 1) - 1) : asked'[i] = asked[i] /\ i \in 1..n
      BY <2>2
    <2>11. QED
      BY <2>1, <2>2, <2>4, <2>8, <2>9, <2>10 DEF ProvidersLeft
  <1>13. CASE Empty
    BY <1>13 DEF Empty, Answered
  <1>14. CASE HandOff
    BY <1>14 DEF HandOff, Answered
  <1>15. CASE Ban
    BY <1>15 DEF Ban, Answered
  <1>16. CASE Answer
    BY <1>16 DEF Answer, Answered
  <1>17. CASE Unexpected
    BY <1>17 DEF Unexpected, Answered
  <1>18. ASSUME NEW calls \in SUBSET Kinds, CallTools(calls) PROVE ProvidersLeft'
    BY <1>18 DEF CallTools, Answered
  <1>19. CASE ToolsDone
    BY <1>19 DEF ToolsDone
  <1>20. CASE ToolsAsk
    BY <1>20 DEF ToolsAsk
  <1>21. CASE ToolsStop
    BY <1>21 DEF ToolsStop
  <1>22. CASE Exhausted
    BY <1>22 DEF Exhausted
  <1>23. CASE Summary
    BY <1>23 DEF Summary
  <1>24. CASE Close
    BY <1>24 DEF Close
  <1>25. ASSUME NEW s \in Steers, AppendSteer(s) PROVE ProvidersLeft'
    BY <1>25 DEF AppendSteer
  <1>26. ASSUME NEW cause \in {"user", "pause"}, Cancel(cause) PROVE ProvidersLeft'
    BY <1>26 DEF Cancel
  <1>27. CASE UNCHANGED vars
    BY <1>27 DEF vars
  <1> QED
    BY <1>1, <1>2, <1>3, <1>4, <1>5, <1>6, <1>7, <1>8, <1>9, <1>10, <1>11, <1>12, <1>13,
       <1>14, <1>15, <1>16, <1>17, <1>18, <1>19, <1>20, <1>21, <1>22, <1>23, <1>24, <1>25,
       <1>26, <1>27, ZenonT(60)
       DEF Next, AskModel, Reply, Batch, Finish, Environment

(* A run that has left a provider does not come back to it, with any models,  *)
(* providers and retries.                                                     *)
THEOREM ProvidersOnce == Spec => []NoProviderTwice
  <1>1. Init => ProvidersLeft
    BY LoopAssumption DEF Init, ProvidersLeft, NoProviderTwice
  <1>2. ProvidersLeft => NoProviderTwice
    BY DEF ProvidersLeft
  <1> QED
    BY <1>1, <1>2, ProvidersStep, PTL DEF Spec

-----------------------------------------------------------------------------
(* The end of a run.                                                          *)

(* Only a run that leaves or has ended has said so, and once; one that leaves *)
(* without has an error, which Close reports, or asks the user.               *)
EndsKept ==
    /\ pc \notin {"leaving", "ended"} => ends = 0
    /\ pc = "leaving" =>
          /\ ends \in {0, 1} /\ (result = "asked" => ends = 0)
          /\ ends = 0 => result \in {"asked", "canceled", "error"}
    /\ pc = "ended" => ends = IF result = "asked" THEN 0 ELSE 1

(* Every step keeps to that.                                                  *)
LEMMA EndsStep == EndsKept /\ [Next]_vars => EndsKept'
  <1> SUFFICES ASSUME EndsKept, [Next]_vars PROVE EndsKept'
    OBVIOUS
  <1> USE DEF EndsKept, sending, routing, memory, steered, record, finish
  <1>1. CASE Begin
    BY <1>1 DEF Begin
  <1>2. CASE Canceled
    BY <1>2 DEF Canceled, LeaveCanceled, Leave
  <1>3. CASE NothingLeft
    BY <1>3 DEF NothingLeft, SendFailed, GiveUp, Leave
  <1>4. CASE ContextLength
    BY <1>4 DEF ContextLength, SendFailed
  <1>5. CASE TimedOut
    BY <1>5 DEF TimedOut, SendFailed
  <1>6. CASE RateLimited
    BY <1>6 DEF RateLimited, SendFailed
  <1>7. CASE Refused
    BY <1>7 DEF Refused, SendFailed
  <1>8. CASE Waited
    BY <1>8 DEF Waited
  <1>9. CASE NextRound
    BY <1>9 DEF NextRound
  <1>10. CASE NoneAlive
    BY <1>10 DEF NoneAlive, GiveUp, Leave
  <1>11. CASE NoFallback
    BY <1>11 DEF NoFallback, GiveUp, Leave
  <1>12. ASSUME NEW m \in Models, MoveOn(m) PROVE EndsKept'
    BY <1>12 DEF MoveOn
  <1>13. CASE Empty
    BY <1>13 DEF Empty, Answered, Leave
  <1>14. CASE HandOff
    BY <1>14 DEF HandOff, Answered, Leave
  <1>15. CASE Ban
    BY <1>15 DEF Ban, Answered, Leave
  <1>16. CASE Answer
    BY <1>16 DEF Answer, Answered, Leave
  <1>17. CASE Unexpected
    BY <1>17 DEF Unexpected, Answered, Leave
  <1>18. ASSUME NEW calls \in SUBSET Kinds, CallTools(calls) PROVE EndsKept'
    BY <1>18 DEF CallTools, Answered
  <1>19. CASE ToolsDone
    BY <1>19 DEF ToolsDone
  <1>20. CASE ToolsAsk
    BY <1>20 DEF ToolsAsk, Leave
  <1>21. CASE ToolsStop
    BY <1>21 DEF ToolsStop, Leave
  <1>22. CASE Exhausted
    BY <1>22 DEF Exhausted
  <1>23. CASE Summary
    BY <1>23 DEF Summary, Leave
  <1>24. CASE Close
    BY <1>24 DEF Close, Unreported, UnreportedAny
  <1>25. ASSUME NEW s \in Steers, AppendSteer(s) PROVE EndsKept'
    BY <1>25 DEF AppendSteer, Running
  <1>26. ASSUME NEW cause \in {"user", "pause"}, Cancel(cause) PROVE EndsKept'
    BY <1>26 DEF Cancel, Running
  <1>27. CASE UNCHANGED vars
    BY <1>27 DEF vars
  <1> QED
    BY <1>1, <1>2, <1>3, <1>4, <1>5, <1>6, <1>7, <1>8, <1>9, <1>10, <1>11, <1>12, <1>13,
       <1>14, <1>15, <1>16, <1>17, <1>18, <1>19, <1>20, <1>21, <1>22, <1>23, <1>24, <1>25,
       <1>26, <1>27, ZenonT(60)
       DEF Next, AskModel, Reply, Batch, Finish, Environment

(* Whichever way a run ends, and whatever fails, is retried, cancelled or     *)
(* said meanwhile, its end is told exactly once, or not at all when it goes   *)
(* on asking the user.                                                        *)
THEOREM EndToldOnce == Spec => []EndsOnce
  <1>1. Init => EndsKept
    BY DEF Init, EndsKept
  <1>2. EndsKept => EndsOnce
    BY DEF EndsKept, EndsOnce
  <1> QED
    BY <1>1, <1>2, EndsStep, PTL DEF Spec

-----------------------------------------------------------------------------
(* The pending file at the end of a run.                                      *)

(* What becomes of the file fits the end: a run that answered has left its    *)
(* Reply in it or has removed it, one that goes on asking its user has kept   *)
(* it, and one that was canceled has removed it exactly when it was the user  *)
(* who did so (FinalizePending, DeletePending and keepPending of execute.go). *)
FileFitsEnd ==
    pc = "ended" =>
        /\ result = "nil" => file # "open"
        /\ result = "asked" => file # "gone"
        /\ result = "canceled" => (file = "gone" <=> cancel = "user")

(* While the run goes on the file is there and is to be kept; when it leaves, *)
(* what Close will do is already decided.                                     *)
FileKept ==
    /\ pc \notin {"leaving", "ended"} => file # "gone" /\ ~tidy
    /\ pc = "leaving" =>
          /\ result = "nil" => file # "open" \/ tidy
          /\ result = "asked" => file # "gone" /\ ~tidy
          /\ result = "canceled" => ~tidy /\ (file = "gone" <=> cancel = "user")
    /\ FileFitsEnd

(* Every step keeps to that.                                                  *)
LEMMA FileStep == FileKept /\ [Next]_vars => FileKept'
  <1> SUFFICES ASSUME FileKept, [Next]_vars PROVE FileKept'
    OBVIOUS
  <1> USE DEF FileKept, FileFitsEnd, sending, routing, memory, steered, record, finish
  <1>1. CASE Begin
    BY <1>1 DEF Begin
  <1>2. CASE Canceled
    BY <1>2 DEF Canceled, LeaveCanceled, Leave
  <1>3. CASE NothingLeft
    BY <1>3 DEF NothingLeft, SendFailed, GiveUp, Leave, FinalizePending
  <1>4. CASE ContextLength
    BY <1>4 DEF ContextLength, SendFailed
  <1>5. CASE TimedOut
    BY <1>5 DEF TimedOut, SendFailed
  <1>6. CASE RateLimited
    BY <1>6 DEF RateLimited, SendFailed
  <1>7. CASE Refused
    BY <1>7 DEF Refused, SendFailed
  <1>8. CASE Waited
    BY <1>8 DEF Waited
  <1>9. CASE NextRound
    BY <1>9 DEF NextRound
  <1>10. CASE NoneAlive
    BY <1>10 DEF NoneAlive, GiveUp, Leave, FinalizePending
  <1>11. CASE NoFallback
    BY <1>11 DEF NoFallback, GiveUp, Leave, FinalizePending
  <1>12. ASSUME NEW m \in Models, MoveOn(m) PROVE FileKept'
    BY <1>12 DEF MoveOn
  <1>13. CASE Empty
    BY <1>13 DEF Empty, Answered, Leave, FinalizePending
  <1>14. CASE HandOff
    BY <1>14 DEF HandOff, Answered, Leave
  <1>15. CASE Ban
    BY <1>15 DEF Ban, Answered, Leave, FinalizePending
  <1>16. CASE Answer
    BY <1>16 DEF Answer, Answered, Leave, FinalizePending
  <1>17. CASE Unexpected
    BY <1>17 DEF Unexpected, Answered, Leave
  <1>18. ASSUME NEW calls \in SUBSET Kinds, CallTools(calls) PROVE FileKept'
    BY <1>18 DEF CallTools, Answered
  <1>19. CASE ToolsDone
    BY <1>19 DEF ToolsDone
  <1>20. CASE ToolsAsk
    BY <1>20 DEF ToolsAsk, Leave
  <1>21. CASE ToolsStop
    BY <1>21 DEF ToolsStop, Leave
  <1>22. CASE Exhausted
    BY <1>22 DEF Exhausted
  <1>23. CASE Summary
    BY <1>23 DEF Summary, Leave, FinalizePending
  <1>24. CASE Close
    BY <1>24 DEF Close
  <1>25. ASSUME NEW s \in Steers, AppendSteer(s) PROVE FileKept'
    BY <1>25 DEF AppendSteer, Running
  <1>26. ASSUME NEW cause \in {"user", "pause"}, Cancel(cause) PROVE FileKept'
    BY <1>26 DEF Cancel, Running
  <1>27. CASE UNCHANGED vars
    BY <1>27 DEF vars
  <1> QED
    BY <1>1, <1>2, <1>3, <1>4, <1>5, <1>6, <1>7, <1>8, <1>9, <1>10, <1>11, <1>12, <1>13,
       <1>14, <1>15, <1>16, <1>17, <1>18, <1>19, <1>20, <1>21, <1>22, <1>23, <1>24, <1>25,
       <1>26, <1>27, ZenonT(60)
       DEF Next, AskModel, Reply, Batch, Finish, Environment

(* Whichever way a run ends, its pending file is as its end says: an answer   *)
(* is never left with an open file that would be resumed, a question to the   *)
(* user is never left without one, and a pause never takes it away.           *)
THEOREM FileAsTheEnd == Spec => []FileFitsEnd
  <1>1. Init => FileKept
    BY DEF Init, FileKept, FileFitsEnd
  <1>2. FileKept => FileFitsEnd
    BY DEF FileKept
  <1> QED
    BY <1>1, <1>2, FileStep, PTL DEF Spec

-----------------------------------------------------------------------------
(* Induction: a set of numbers that has 0, and with each number the next, has *)
(* them all.  (The library's theorems say it of an operator; the sets here    *)
(* are what the provers can make an instance of.)                             *)

Below == {p \in Nat \X Nat : p[1] < p[2]}

(* The order of the numbers is well-founded.                                  *)
LEMMA BelowWF == IsWellFoundedOn(Below, Nat)
  <1>1. Below = OpToRel(<, Nat)
    BY DEF Below, OpToRel
  <1> QED
    BY <1>1, NatLessThanWellFounded

(* A set of numbers has a least one.                                          *)
LEMMA Least ==
    ASSUME NEW T, T \subseteq Nat, T # {}
    PROVE  \E m \in T : \A y \in T : m <= y
  <1>1. PICK m \in T : \A y \in T : ~(<<y, m>> \in Below)
    BY BelowWF, WFMin
  <1>2. \A y \in T : ~(y < m)
    BY <1>1 DEF Below
  <1>3. \A y \in T : y \in Nat /\ m \in Nat
    OBVIOUS
  <1>4. QED
    BY <1>2, <1>3

(* The principle.                                                             *)
LEMMA AllNumbers ==
    ASSUME NEW S, 0 \in S, \A n \in Nat : n \in S => n + 1 \in S
    PROVE  Nat \subseteq S
  <1> SUFFICES ASSUME NEW x \in Nat, x \notin S PROVE FALSE
    OBVIOUS
  <1> DEFINE T == Nat \ S
  <1>1. T \subseteq Nat /\ T # {}
    OBVIOUS
  <1> HIDE DEF T
  <1>2. PICK m \in T : \A y \in T : m <= y
    BY <1>1, Least
  <1>3. m \in Nat /\ m \notin S /\ m # 0
    BY DEF T
  <1>4. m - 1 \in Nat /\ ~(m <= m - 1) /\ (m - 1) + 1 = m
    BY <1>3
  <1>5. m - 1 \in S
    BY <1>2, <1>4 DEF T
  <1>6. QED
    BY <1>3, <1>4, <1>5

(* A set of places of a sequence has a last one.                              *)
LEMMA Greatest ==
    ASSUME NEW n \in Nat, NEW T, T \subseteq 1..n, T # {}
    PROVE  \E m \in T : \A y \in T : y <= m
  <1> DEFINE U == {n - y : y \in T}
  <1>0. \A y \in T : y \in 1..n /\ n - y \in Nat
    OBVIOUS
  <1>1. U \subseteq Nat /\ U # {}
    BY <1>0
  <1>2. PICK u \in U : \A v \in U : u <= v
    BY <1>1, Least
  <1>3. PICK m \in T : u = n - m
    OBVIOUS
  <1>4. \A y \in T : n - m <= n - y
    BY <1>2, <1>3
  <1>5. \A y \in T : y <= m
    BY <1>0, <1>4
  <1>6. QED
    BY <1>5

(* Max and Min are in the set.                                                *)
LEMMA MaxMin ==
    ASSUME NEW n \in Nat, NEW T, T \subseteq 1..n, T # {}
    PROVE  /\ Max(T) \in T /\ \A y \in T : y <= Max(T)
           /\ Min(T) \in T /\ \A y \in T : Min(T) <= y
  <1>1. \A y \in T : y \in Nat
    OBVIOUS
  <1>2. \E m \in T : \A y \in T : m >= y
    BY <1>1, Greatest
  <1>3. \E m \in T : \A y \in T : m <= y
    BY <1>1, Least
  <1>4. Max(T) \in T /\ \A y \in T : Max(T) >= y
    BY <1>2 DEF Max
  <1>5. Min(T) \in T /\ \A y \in T : Min(T) <= y
    BY <1>3 DEF Min
  <1>6. QED
    BY <1>1, <1>4, <1>5

-----------------------------------------------------------------------------
(* Parts of a sequence.                                                       *)

(* t has what s has at the first places of P up to n, and f says where.       *)
Chosen(s, P, n, t, f) ==
    /\ Len(t) \in Nat /\ Len(t) <= n /\ f \in Seq(Nat) /\ Len(f) = Len(t)
    /\ \A i \in 1..Len(t) : f[i] \in P /\ f[i] \in 1..n /\ t[i] = s[f[i]]
    /\ \A i, j \in 1..Len(t) : i < j => f[i] < f[j]
    /\ \A p \in P : p \in 1..n => \E i \in 1..Len(t) : f[i] = p
    /\ \A p \in 1..n : p \notin P => Len(t) < n

(* One place more.                                                            *)
LEMMA ChosenNext ==
    ASSUME NEW T, NEW s \in Seq(T), NEW P, NEW n \in Nat, n + 1 \in 1..Len(s),
           NEW t \in Seq(T), NEW f, Chosen(s, P, n, t, f)
    PROVE  /\ n + 1 \in P => /\ Append(t, s[n + 1]) \in Seq(T)
                             /\ Chosen(s, P, n + 1, Append(t, s[n + 1]), Append(f, n + 1))
           /\ n + 1 \notin P => Chosen(s, P, n + 1, t, f)
  <1>1. ASSUME n + 1 \in P
        PROVE  /\ Append(t, s[n + 1]) \in Seq(T)
               /\ Chosen(s, P, n + 1, Append(t, s[n + 1]), Append(f, n + 1))
    <2> DEFINE u == Append(t, s[n + 1])
               g == Append(f, n + 1)
    <2>1. s[n + 1] \in T /\ n + 1 \in Nat /\ f \in Seq(Nat) /\ Len(f) = Len(t) /\ Len(t) \in Nat
      BY DEF Chosen
    <2>2. /\ u \in Seq(T) /\ Len(u) = Len(t) + 1 /\ u[Len(t) + 1] = s[n + 1]
          /\ \A i \in 1..Len(t) : u[i] = t[i]
      BY <2>1
    <2>3. /\ g \in Seq(Nat) /\ Len(g) = Len(t) + 1 /\ g[Len(t) + 1] = n + 1
          /\ \A i \in 1..Len(t) : g[i] = f[i]
      BY <2>1, SMTT(60)
    <2>4. \A i \in 1..Len(u) : i = Len(t) + 1 \/ i \in 1..Len(t)
      BY <2>1, <2>2, SMTT(60)
    <2>5. \A i \in 1..Len(t) : i \in 1..Len(u)
      BY <2>1, <2>2
    <2>6. Len(t) + 1 \in 1..Len(u)
      BY <2>1, <2>2
    <2> HIDE DEF u, g
    <2>7. \A i \in 1..Len(t) : f[i] \in P /\ f[i] \in 1..n /\ t[i] = s[f[i]]
      BY DEF Chosen
    <2>8. \A i \in 1..Len(t) : g[i] \in Nat /\ g[i] < n + 1 /\ g[i] \in 1..(n + 1)
      <3>1. ASSUME NEW i \in 1..Len(t)
            PROVE  g[i] \in Nat /\ g[i] < n + 1 /\ g[i] \in 1..(n + 1)
        <4>1. g[i] = f[i] /\ f[i] \in 1..n
          BY <2>3, <2>7
        <4>2. QED
          BY <4>1
      <3>2. QED
        BY <3>1
    <2>14. ASSUME NEW i \in 1..Len(u)
           PROVE  g[i] \in P /\ g[i] \in 1..(n + 1) /\ u[i] = s[g[i]]
      <3>1. CASE i = Len(t) + 1
        BY <1>1, <2>2, <2>3, <3>1
      <3>2. CASE i \in 1..Len(t)
        BY <2>2, <2>3, <2>7, <2>8, <3>2
      <3> QED
        BY <2>4, <3>1, <3>2
    <2>9. ASSUME NEW i \in 1..Len(u), NEW j \in 1..Len(u), i < j PROVE g[i] < g[j]
      <3>1. i \in 1..Len(t)
        BY <2>1, <2>2, <2>9
      <3>2. CASE j \in 1..Len(t)
        BY <2>3, <2>9, <3>1, <3>2 DEF Chosen
      <3>3. CASE j = Len(t) + 1
        BY <2>3, <2>8, <3>1, <3>3
      <3> QED
        BY <2>4, <3>2, <3>3
    <2>10. ASSUME NEW p \in P, p \in 1..(n + 1) PROVE \E i \in 1..Len(u) : g[i] = p
      <3>1. CASE p = n + 1
        BY <2>3, <2>6, <3>1
      <3>2. CASE p \in 1..n
        BY <2>3, <2>5, <3>2 DEF Chosen
      <3> QED
        BY <2>10, <3>1, <3>2
    <2>11. ASSUME NEW p \in 1..(n + 1), p \notin P PROVE Len(u) < n + 1
      <3>1. p \in 1..n
        BY <1>1, <2>11
      <3>2. QED
        BY <2>1, <2>2, <2>11, <3>1 DEF Chosen
    <2>12. Len(u) \in Nat /\ Len(u) <= n + 1
      BY <2>1, <2>2 DEF Chosen
    <2>13. Chosen(s, P, n + 1, u, g)
      BY <2>2, <2>3, <2>9, <2>10, <2>11, <2>12, <2>14 DEF Chosen
    <2> QED
      BY <2>2, <2>13 DEF u, g
  <1>2. ASSUME n + 1 \notin P PROVE Chosen(s, P, n + 1, t, f)
    <2>1. \A p \in P : p \in 1..(n + 1) => p \in 1..n
      BY <1>2
    <2>2. \A p \in 1..n : p \in 1..(n + 1)
      OBVIOUS
    <2>3. Len(t) \in Nat /\ Len(t) <= n /\ Len(t) < n + 1
      BY DEF Chosen
    <2>4. QED
      BY <2>1, <2>2, <2>3, SMTT(60) DEF Chosen
  <1> QED
    BY <1>1, <1>2

(* A function on 0..n that is made of its own earlier values, as At is made,  *)
(* exists.                                                                    *)
LEMMA AtDefined ==
    ASSUME NEW T, NEW s \in Seq(T), NEW P
    PROVE  \E g : g = [n \in 0..Len(s) |->
                          IF n = 0 THEN <<>>
                          ELSE IF n \in P THEN Append(g[n - 1], s[n]) ELSE g[n - 1]]
  <1> DEFINE Body(g, n) == IF n = 0 THEN <<>>
                           ELSE IF n \in P THEN Append(g[n - 1], s[n]) ELSE g[n - 1]
             Upto(n) == \E g \in [0..n -> Seq(T)] : \A i \in 0..n : g[i] = Body(g, i)
             S == {n \in Nat : n <= Len(s) => Upto(n)}
  <1>1. 0 \in S
    <2>1. \E g \in [0..0 -> Seq(T)] : \A i \in 0..0 : g[i] = Body(g, i)
      <3> DEFINE g == [i \in 0..0 |-> <<>>]
      <3>1. g \in [0..0 -> Seq(T)]
        OBVIOUS
      <3>2. \A i \in 0..0 : g[i] = Body(g, i)
        OBVIOUS
      <3>3. QED
        BY <3>1, <3>2
    <2>2. QED
      BY <2>1
  <1>2. ASSUME NEW n \in Nat, n \in S PROVE n + 1 \in S
    <2> SUFFICES ASSUME n + 1 <= Len(s) PROVE Upto(n + 1)
      <3> HIDE DEF Upto
      <3> QED
        OBVIOUS
    <2>1. Len(s) \in Nat /\ n <= Len(s) /\ n + 1 \in 1..Len(s) /\ s[n + 1] \in T
      OBVIOUS
    <2>2. PICK g \in [0..n -> Seq(T)] : \A i \in 0..n : g[i] = Body(g, i)
      BY <1>2, <2>1
    <2> DEFINE h == [i \in 0..(n + 1) |-> IF i = n + 1 THEN Body(g, n + 1) ELSE g[i]]
    <2>3. g[n] \in Seq(T)
      BY <2>2
    <2>4. Append(g[n], s[n + 1]) \in Seq(T)
      BY <2>1, <2>3
    <2>5. Body(g, n + 1) = IF n + 1 \in P THEN Append(g[n], s[n + 1]) ELSE g[n]
      OBVIOUS
    <2>6. Body(g, n + 1) \in Seq(T)
      BY <2>3, <2>4, <2>5
    <2> HIDE DEF Body
    <2>7. \A i \in 0..(n + 1) : i = n + 1 \/ i \in 0..n
      OBVIOUS
    <2>8. h \in [0..(n + 1) -> Seq(T)]
      BY <2>2, <2>6, <2>7
    <2>9. \A i \in 0..n : h[i] = g[i]
      OBVIOUS
    <2>10. h[n + 1] = Body(g, n + 1)
      OBVIOUS
    <2> HIDE DEF h
    <2>11. ASSUME NEW i \in 0..(n + 1) PROVE Body(h, i) = Body(g, i)
      <3>1. CASE i = 0
        BY <3>1 DEF Body
      <3>2. CASE i # 0
        <4>1. i - 1 \in 0..n
          BY <3>2
        <4>2. h[i - 1] = g[i - 1]
          BY <2>9, <4>1
        <4>3. QED
          BY <4>2 DEF Body
      <3> QED
        BY <3>1, <3>2
    <2>12. ASSUME NEW i \in 0..(n + 1) PROVE h[i] = Body(h, i)
      <3>1. CASE i = n + 1
        BY <2>10, <2>11, <3>1
      <3>2. CASE i \in 0..n
        BY <2>2, <2>9, <2>11, <3>2
      <3> QED
        BY <2>7, <3>1, <3>2
    <2>13. QED
      BY <2>8, <2>12
  <1> HIDE DEF S
  <1>3. Nat \subseteq S
    BY <1>1, <1>2, AllNumbers
  <1>4. Upto(Len(s))
    <2>1. Len(s) \in Nat /\ Len(s) <= Len(s)
      OBVIOUS
    <2>2. QED
      BY <1>3, <2>1 DEF S
  <1>5. PICK g \in [0..Len(s) -> Seq(T)] : \A i \in 0..Len(s) : g[i] = Body(g, i)
    BY <1>4
  <1> HIDE DEF Body
  <1>6. g = [n \in 0..Len(s) |-> Body(g, n)]
    BY <1>5
  <1>7. QED
    BY <1>6 DEF Body

(* What At gives, and from which places.                                      *)
LEMMA AtChosen ==
    ASSUME NEW T, NEW s \in Seq(T), NEW P
    PROVE  At(s, P) \in Seq(T) /\ \E f : Chosen(s, P, Len(s), At(s, P), f)
  <1> DEFINE Made(g) == g = [n \in 0..Len(s) |->
                                IF n = 0 THEN <<>>
                                ELSE IF n \in P THEN Append(g[n - 1], s[n]) ELSE g[n - 1]]
             F == CHOOSE g : Made(g)
  <1>1. Made(F)
    <2>1. \E g : Made(g)
      BY AtDefined, ZenonT(60)
    <2> HIDE DEF Made
    <2>2. QED
      BY <2>1
  <1>2. At(s, P) = F[Len(s)]
    BY DEF At
  <1> HIDE DEF F
  <1>3. /\ F[0] = <<>>
        /\ \A n \in Nat : n + 1 \in 1..Len(s) =>
               F[n + 1] = IF n + 1 \in P THEN Append(F[n], s[n + 1]) ELSE F[n]
    <2>1. Len(s) \in Nat /\ 0 \in 0..Len(s)
      OBVIOUS
    <2>2. F[0] = <<>>
      BY <1>1, <2>1
    <2>3. ASSUME NEW n \in Nat, n + 1 \in 1..Len(s)
          PROVE  F[n + 1] = IF n + 1 \in P THEN Append(F[n], s[n + 1]) ELSE F[n]
      <3>1. n + 1 \in 0..Len(s) /\ n + 1 # 0 /\ (n + 1) - 1 = n
        BY <2>3
      <3>2. QED
        BY <1>1, <3>1
    <2>4. QED
      BY <2>2, <2>3
  <1> HIDE DEF Made
  <1> DEFINE Good(n) == F[n] \in Seq(T) /\ \E f : Chosen(s, P, n, F[n], f)
             S == {n \in Nat : n <= Len(s) => Good(n)}
  <1>4. 0 \in S
    <2>1. Chosen(s, P, 0, <<>>, <<>>)
      BY DEF Chosen
    <2>2. <<>> \in Seq(T)
      OBVIOUS
    <2>3. Good(0)
      BY <1>3, <2>1, <2>2
    <2>4. QED
      BY <2>3
  <1>5. ASSUME NEW n \in Nat, n \in S PROVE n + 1 \in S
    <2> SUFFICES ASSUME n + 1 <= Len(s) PROVE Good(n + 1)
      BY <1>5
    <2>1. Len(s) \in Nat /\ n <= Len(s) /\ n + 1 \in 1..Len(s)
      OBVIOUS
    <2>2. Good(n)
      BY <1>5, <2>1
    <2>3. PICK f : Chosen(s, P, n, F[n], f)
      BY <2>2
    <2>4. F[n] \in Seq(T)
      BY <2>2
    <2>5. CASE n + 1 \in P
      <3>1. F[n + 1] = Append(F[n], s[n + 1])
        BY <1>3, <2>1, <2>5
      <3>2. QED
        BY <2>1, <2>3, <2>4, <2>5, <3>1, ChosenNext
    <2>6. CASE n + 1 \notin P
      <3>1. F[n + 1] = F[n]
        BY <1>3, <2>1, <2>6
      <3>2. QED
        BY <2>1, <2>3, <2>4, <2>6, <3>1, ChosenNext
    <2> QED
      BY <2>5, <2>6
  <1> HIDE DEF S
  <1>6. Nat \subseteq S
    BY <1>4, <1>5, AllNumbers
  <1>7. Good(Len(s))
    <2>1. Len(s) \in Nat /\ Len(s) <= Len(s)
      OBVIOUS
    <2>2. QED
      BY <1>6, <2>1 DEF S
  <1>8. QED
    BY <1>2, <1>7

-----------------------------------------------------------------------------
(* Messages that a provider accepts.                                          *)

Messages == [role : {"call", "result", "text", "user"}, turn : Nat, calls : SUBSET Kinds,
             steers : SUBSET Steers]

Formed(m) ==
    /\ m.role = "call" => m.calls # {}
    /\ m.role = "result" => \E k \in Kinds : m.calls = {k}

(* r is one of the results of c.                                              *)
Of(c, r) == c.role = "call" /\ r.role = "result" /\ r.turn = c.turn /\ r.calls \subseteq c.calls

(* The result at j is one of the call at i, and no call comes between them.   *)
Follows(s, i, j) ==
    i < j /\ Of(s[i], s[j]) /\ \A l \in 1..Len(s) : i < l /\ l < j => s[l].role # "call"

(* No two results answer the same call, every call has all of its results     *)
(* before the next call, and every result is one of the call before it.       *)
Well(s) ==
    /\ s \in Seq(Messages) /\ \A i \in 1..Len(s) : Formed(s[i])
    /\ \A i, j \in 1..Len(s) :
           s[i].role = "result" /\ s[j].role = "result" /\ s[i].turn = s[j].turn
               /\ s[i].calls = s[j].calls => i = j
    /\ \A i \in 1..Len(s) : s[i].role = "call" =>
           \A k \in s[i].calls : \E j \in 1..Len(s) : s[j].calls = {k} /\ Follows(s, i, j)
    /\ \A j \in 1..Len(s) : s[j].role = "result" => \E i \in 1..Len(s) : Follows(s, i, j)

(* The messages the loop makes.                                               *)
LEMMA MessagesMade ==
    ASSUME NEW t \in Nat, NEW c \in SUBSET Kinds, NEW k \in Kinds, NEW x \in SUBSET Steers
    PROVE  /\ Call(t, c) \in Messages /\ Result(t, k) \in Messages
           /\ Text(t) \in Messages /\ User(x) \in Messages
           /\ Call(t, c).role = "call" /\ Call(t, c).turn = t /\ Call(t, c).calls = c
           /\ Result(t, k).role = "result" /\ Result(t, k).turn = t /\ Result(t, k).calls = {k}
           /\ Text(t).role = "text" /\ Text(t).turn = t
           /\ User(x).role = "user" /\ User(x).turn = 0
  BY DEF Call, Result, Text, User, Message, Messages

(* Such messages are what a provider asks for.                                *)
LEMMA WellPaired == ASSUME NEW s, Well(s) PROVE Paired(s)
  <1>1. DOMAIN s = 1..Len(s) /\ Len(s) \in Nat
    BY DEF Well
  <1> DEFINE Answers(i, k) == {j \in DOMAIN s : /\ s[j].role = "result"
                                               /\ s[j].turn = s[i].turn
                                               /\ s[j].calls = {k}}
  <1>2. ASSUME NEW i \in DOMAIN s, s[i].role = "call"
        PROVE  s[i].calls # {} /\ \A k \in s[i].calls : \E j \in Answers(i, k) :
                                      Answers(i, k) = {j} /\ j > i
    <2>1. i \in 1..Len(s) /\ s[i].calls # {}
      BY <1>1, <1>2 DEF Well, Formed
    <2>2. ASSUME NEW k \in s[i].calls
          PROVE  \E j \in Answers(i, k) : Answers(i, k) = {j} /\ j > i
      <3>1. PICK j \in 1..Len(s) : s[j].calls = {k} /\ Follows(s, i, j)
        BY <1>2, <2>1 DEF Well
      <3>2. j \in Answers(i, k) /\ j > i
        BY <1>1, <3>1 DEF Follows, Of
      <3>3. \A l \in Answers(i, k) : l = j
        BY <1>1, <3>2 DEF Well
      <3>4. QED
        BY <3>2, <3>3
    <2>3. QED
      BY <2>1, <2>2
  <1>3. ASSUME NEW j \in DOMAIN s, s[j].role = "result"
        PROVE  \E i \in 1..(j - 1) : /\ s[i].role = "call" /\ s[i].turn = s[j].turn
                                     /\ s[j].calls \subseteq s[i].calls
    <2>1. PICK i \in 1..Len(s) : Follows(s, i, j)
      BY <1>1, <1>3 DEF Well
    <2>2. i \in 1..(j - 1)
      BY <1>1, <2>1 DEF Follows
    <2>3. QED
      BY <2>1, <2>2 DEF Follows, Of
  <1>4. QED
    BY <1>2, <1>3 DEF Paired

(* t has messages of s, in their order, from the places f: some are left out, *)
(* some calls have fewer parts, but a call keeps the results of its parts and *)
(* a result its call.                                                         *)
Thin(s, t, f) ==
    /\ t \in Seq(Messages) /\ \A i \in 1..Len(t) : Formed(t[i])
    /\ \A i \in 1..Len(t) : f[i] \in 1..Len(s) /\ t[i].turn = s[f[i]].turn
    /\ \A i, j \in 1..Len(t) : i < j => f[i] < f[j]
    /\ \A i \in 1..Len(t) :
           t[i].role = "result" => s[f[i]].role = "result" /\ t[i].calls = s[f[i]].calls
    /\ \A i \in 1..Len(t) :
           t[i].role = "call" => s[f[i]].role = "call" /\ t[i].calls \subseteq s[f[i]].calls
    /\ \A i \in 1..Len(t), j \in 1..Len(s) :
           t[i].role = "call" /\ Follows(s, f[i], j) /\ s[j].calls \subseteq t[i].calls =>
               \E l \in 1..Len(t) : f[l] = j /\ t[l].role = "result"
    /\ \A j \in 1..Len(t), i \in 1..Len(s) :
           t[j].role = "result" /\ Follows(s, i, f[j]) =>
               \E l \in 1..Len(t) : /\ f[l] = i /\ t[l].role = "call"
                                    /\ t[j].calls \subseteq t[l].calls

(* Such messages are accepted as those of s are.                              *)
LEMMA WellThin ==
    ASSUME NEW s, Well(s), NEW t, NEW f, Thin(s, t, f)
    PROVE  Well(t)
  <1>1. /\ Len(t) \in Nat /\ Len(s) \in Nat
        /\ t \in Seq(Messages) /\ \A i \in 1..Len(t) : Formed(t[i])
    BY DEF Well, Thin
  <1>2. /\ \A i \in 1..Len(t) : f[i] \in 1..Len(s) /\ t[i].turn = s[f[i]].turn
        /\ \A i, j \in 1..Len(t) : i < j => f[i] < f[j]
    BY DEF Thin
  <1>3. /\ \A i \in 1..Len(t) :
               t[i].role = "result" => s[f[i]].role = "result" /\ t[i].calls = s[f[i]].calls
        /\ \A i \in 1..Len(t) :
               t[i].role = "call" => s[f[i]].role = "call" /\ t[i].calls \subseteq s[f[i]].calls
    BY DEF Thin
  <1>4. \A i \in 1..Len(t), j \in 1..Len(s) :
           t[i].role = "call" /\ Follows(s, f[i], j) /\ s[j].calls \subseteq t[i].calls =>
               \E l \in 1..Len(t) : f[l] = j /\ t[l].role = "result"
    BY DEF Thin
  <1>5. \A j \in 1..Len(t), i \in 1..Len(s) :
           t[j].role = "result" /\ Follows(s, i, f[j]) =>
               \E l \in 1..Len(t) : /\ f[l] = i /\ t[l].role = "call"
                                    /\ t[j].calls \subseteq t[l].calls
    BY DEF Thin
  <1>6. \A i, j \in 1..Len(s) :
           s[i].role = "result" /\ s[j].role = "result" /\ s[i].turn = s[j].turn
               /\ s[i].calls = s[j].calls => i = j
    BY DEF Well
  <1>7. \A i \in 1..Len(s) : s[i].role = "call" =>
           \A k \in s[i].calls : \E j \in 1..Len(s) : s[j].calls = {k} /\ Follows(s, i, j)
    BY DEF Well
  <1>8. \A j \in 1..Len(s) : s[j].role = "result" => \E i \in 1..Len(s) : Follows(s, i, j)
    BY DEF Well
  <1>9. ASSUME NEW i \in 1..Len(t), NEW j \in 1..Len(t), f[i] < f[j] PROVE i < j
    <2>1. f[i] \in Nat /\ f[j] \in Nat /\ (i < j \/ i = j \/ j < i)
      BY <1>1, <1>2
    <2>2. QED
      BY <1>9, <1>2, <2>1
  <1>10. ASSUME NEW i \in 1..Len(t), NEW j \in 1..Len(t), Follows(s, f[i], f[j]),
               t[i].role = "call", t[j].role = "result", t[j].calls \subseteq t[i].calls
        PROVE  Follows(t, i, j)
    <2>1. i < j
      BY <1>9, <1>10 DEF Follows
    <2>2. t[j].turn = t[i].turn
      BY <1>10, <1>2 DEF Follows, Of
    <2>3. ASSUME NEW l \in 1..Len(t), i < l, l < j PROVE t[l].role # "call"
      <3>1. f[i] < f[l] /\ f[l] < f[j] /\ f[l] \in 1..Len(s)
        BY <1>2, <2>3
      <3>2. s[f[l]].role # "call"
        BY <1>10, <3>1 DEF Follows
      <3>3. QED
        BY <1>3, <3>2
    <2>4. QED
      BY <1>10, <2>1, <2>2, <2>3 DEF Follows, Of
  <1>11. ASSUME NEW i \in 1..Len(t), NEW j \in 1..Len(t), t[i].role = "result",
               t[j].role = "result", t[i].turn = t[j].turn, t[i].calls = t[j].calls
        PROVE  i = j
    <2>1. f[i] = f[j]
      <3>1. f[i] \in 1..Len(s) /\ f[j] \in 1..Len(s)
        BY <1>2
      <3>2. s[f[i]].role = "result" /\ t[i].calls = s[f[i]].calls
        BY <1>11, <1>3
      <3>3. s[f[j]].role = "result" /\ t[j].calls = s[f[j]].calls
        BY <1>11, <1>3
      <3>4. s[f[i]].turn = t[i].turn /\ s[f[j]].turn = t[j].turn
        BY <1>2
      <3>5. s[f[i]].turn = s[f[j]].turn /\ s[f[i]].calls = s[f[j]].calls
        BY <1>11, <3>2, <3>3, <3>4
      <3>6. QED
        BY <1>6, <3>1, <3>2, <3>3, <3>5
    <2>2. f[i] \in Nat /\ ~(f[i] < f[j]) /\ ~(f[j] < f[i])
      BY <1>2, <2>1
    <2>3. ~(i < j) /\ ~(j < i)
      BY <1>2, <2>2
    <2>4. QED
      BY <1>1, <2>3
  <1>12. ASSUME NEW i \in 1..Len(t), t[i].role = "call", NEW k \in t[i].calls
        PROVE  \E j \in 1..Len(t) : t[j].calls = {k} /\ Follows(t, i, j)
    <2>1. f[i] \in 1..Len(s) /\ s[f[i]].role = "call" /\ k \in s[f[i]].calls
      BY <1>12, <1>2, <1>3
    <2>2. PICK j \in 1..Len(s) : s[j].calls = {k} /\ Follows(s, f[i], j)
      BY <1>7, <2>1
    <2>3. s[j].calls \subseteq t[i].calls
      BY <1>12, <2>2
    <2>4. PICK l \in 1..Len(t) : f[l] = j /\ t[l].role = "result"
      BY <1>12, <1>4, <2>2, <2>3
    <2>5. t[l].calls = {k}
      BY <1>3, <2>2, <2>4
    <2>6. Follows(s, f[i], f[l]) /\ t[l].calls \subseteq t[i].calls
      BY <2>2, <2>3, <2>4, <2>5
    <2>7. Follows(t, i, l)
      BY <1>10, <1>12, <2>4, <2>6
    <2>8. QED
      BY <2>5, <2>7
  <1>13. ASSUME NEW j \in 1..Len(t), t[j].role = "result"
        PROVE  \E i \in 1..Len(t) : Follows(t, i, j)
    <2>1. f[j] \in 1..Len(s) /\ s[f[j]].role = "result"
      BY <1>13, <1>2, <1>3
    <2>2. PICK i \in 1..Len(s) : Follows(s, i, f[j])
      BY <1>8, <2>1
    <2>3. PICK l \in 1..Len(t) : f[l] = i /\ t[l].role = "call" /\ t[j].calls \subseteq t[l].calls
      BY <1>13, <1>5, <2>2, SMTT(60)
    <2>4. QED
      BY <1>10, <1>13, <2>2, <2>3
  <1>14. QED
    BY <1>1, <1>11, <1>12, <1>13 DEF Well

(* Texts and what is said for the user are accepted as they are.              *)
LEMMA WellQuiet ==
    ASSUME NEW s \in Seq(Messages), \A i \in 1..Len(s) : s[i].role \in {"text", "user"}
    PROVE  Well(s)
  BY DEF Well, Formed

(* Two such sequences one after the other, when no result of the first is one *)
(* of the second too.                                                         *)
LEMMA WellJoin ==
    ASSUME NEW a, NEW b, Well(a), Well(b),
           \A i \in 1..Len(a), j \in 1..Len(b) :
               a[i].role = "result" /\ b[j].role = "result" /\ a[i].turn = b[j].turn =>
                   a[i].calls # b[j].calls
    PROVE  Well(a \o b)
  <1> DEFINE s == a \o b
             n == Len(a)
  <1>1. /\ a \in Seq(Messages) /\ b \in Seq(Messages) /\ n \in Nat /\ Len(b) \in Nat
        /\ s \in Seq(Messages) /\ Len(s) = n + Len(b)
        /\ \A i \in 1..n : s[i] = a[i]
        /\ \A j \in 1..Len(b) : s[n + j] = b[j]
    BY DEF Well
  <1> HIDE DEF s, n
  <1>2. /\ \A i \in 1..n : i \in 1..Len(s)
        /\ \A j \in 1..Len(b) : n + j \in 1..Len(s)
        /\ \A i \in 1..Len(s) : i \in 1..n \/ (i - n \in 1..Len(b) /\ i = n + (i - n))
    BY <1>1
  <1>3. ASSUME NEW i \in 1..n, NEW j \in 1..n, Follows(a, i, j) PROVE Follows(s, i, j)
    <2>1. ASSUME NEW l \in 1..Len(s), i < l, l < j PROVE s[l].role # "call"
      <3>1. l \in 1..n
        BY <1>1, <2>1, SMTT(60)
      <3>2. QED
        BY <1>1, <1>3, <2>1, <3>1 DEF Follows, n
    <2>2. i < j /\ Of(s[i], s[j])
      BY <1>1, <1>3 DEF Follows
    <2>3. QED
      BY <2>1, <2>2 DEF Follows
  <1>4. ASSUME NEW i \in 1..Len(b), NEW j \in 1..Len(b), Follows(b, i, j)
        PROVE  Follows(s, n + i, n + j)
    <2>1. ASSUME NEW l \in 1..Len(s), n + i < l, l < n + j PROVE s[l].role # "call"
      <3>1. l - n \in 1..Len(b) /\ i < l - n /\ l - n < j /\ l = n + (l - n)
        BY <1>1, <2>1
      <3>2. s[l] = b[l - n]
        BY <1>1, <3>1
      <3>3. QED
        BY <1>4, <3>1, <3>2 DEF Follows
    <2>2. i < j /\ Of(b[i], b[j])
      BY <1>4 DEF Follows
    <2>3. Of(s[n + i], s[n + j]) /\ n + i < n + j
      BY <1>1, <2>2, SMTT(60)
    <2>4. QED
      BY <2>1, <2>3 DEF Follows
  <1>5. ASSUME NEW i \in 1..Len(s) PROVE Formed(s[i])
    <2>1. /\ \A j \in 1..n : Formed(a[j])
          /\ \A j \in 1..Len(b) : Formed(b[j])
      BY DEF Well, n
    <2>2. CASE i \in 1..n
      BY <1>1, <2>1, <2>2
    <2>3. CASE i - n \in 1..Len(b) /\ i = n + (i - n)
      <3>1. s[i] = b[i - n]
        BY <1>1, <2>3
      <3>2. QED
        BY <2>1, <2>3, <3>1
    <2>4. QED
      BY <1>2, <2>2, <2>3
  <1>6. ASSUME NEW i \in 1..Len(s), NEW j \in 1..Len(s), s[i].role = "result",
               s[j].role = "result", s[i].turn = s[j].turn, s[i].calls = s[j].calls
        PROVE  i = j
    <2>1. CASE i \in 1..n /\ j \in 1..n
      BY <1>1, <1>6, <2>1, ZenonT(60) DEF Well, n
    <2>2. CASE i \in 1..n /\ j - n \in 1..Len(b) /\ j = n + (j - n)
      <3>1. s[i] = a[i] /\ s[j] = b[j - n]
        BY <1>1, <2>2
      <3>2. QED
        BY <1>6, <2>2, <3>1, ZenonT(60) DEF n
    <2>3. CASE j \in 1..n /\ i - n \in 1..Len(b) /\ i = n + (i - n)
      <3>1. s[j] = a[j] /\ s[i] = b[i - n]
        BY <1>1, <2>3
      <3>2. QED
        BY <1>6, <2>3, <3>1 DEF n
    <2>4. CASE /\ i - n \in 1..Len(b) /\ i = n + (i - n)
               /\ j - n \in 1..Len(b) /\ j = n + (j - n)
      <3>1. s[j] = b[j - n] /\ s[i] = b[i - n]
        BY <1>1, <2>4
      <3>2. i - n = j - n
        BY <1>6, <2>4, <3>1, SMTT(60) DEF Well
      <3>3. QED
        BY <1>1, <3>2
    <2>5. QED
      BY <1>2, <2>1, <2>2, <2>3, <2>4
  <1>7. ASSUME NEW i \in 1..Len(s), s[i].role = "call", NEW k \in s[i].calls
        PROVE  \E j \in 1..Len(s) : s[j].calls = {k} /\ Follows(s, i, j)
    <2>1. CASE i \in 1..n
      <3>1. s[i] = a[i]
        BY <1>1, <2>1
      <3>2. PICK j \in 1..n : a[j].calls = {k} /\ Follows(a, i, j)
        BY <1>7, <2>1, <3>1 DEF Well, n
      <3>3. Follows(s, i, j) /\ s[j].calls = {k} /\ j \in 1..Len(s)
        BY <1>1, <1>2, <1>3, <2>1, <3>2
      <3>4. QED
        BY <3>3
    <2>2. CASE i - n \in 1..Len(b) /\ i = n + (i - n)
      <3>1. s[i] = b[i - n]
        BY <1>1, <2>2
      <3>2. PICK j \in 1..Len(b) : b[j].calls = {k} /\ Follows(b, i - n, j)
        BY <1>7, <2>2, <3>1 DEF Well
      <3>3. Follows(s, i, n + j) /\ s[n + j].calls = {k} /\ n + j \in 1..Len(s)
        BY <1>1, <1>2, <1>4, <2>2, <3>2, SMTT(60)
      <3>4. QED
        BY <3>3
    <2>3. QED
      BY <1>2, <2>1, <2>2
  <1>8. ASSUME NEW j \in 1..Len(s), s[j].role = "result"
        PROVE  \E i \in 1..Len(s) : Follows(s, i, j)
    <2>1. CASE j \in 1..n
      <3>1. s[j] = a[j]
        BY <1>1, <2>1
      <3>2. PICK i \in 1..n : Follows(a, i, j)
        BY <1>8, <2>1, <3>1 DEF Well, n
      <3>3. QED
        BY <1>2, <1>3, <2>1, <3>2
    <2>2. CASE j - n \in 1..Len(b) /\ j = n + (j - n)
      <3>1. s[j] = b[j - n]
        BY <1>1, <2>2
      <3>2. PICK i \in 1..Len(b) : Follows(b, i, j - n)
        BY <1>8, <2>2, <3>1 DEF Well
      <3>3. Follows(s, n + i, j)
        BY <1>4, <2>2, <3>2
      <3>4. QED
        BY <1>2, <3>3
    <2>3. QED
      BY <1>2, <2>1, <2>2
  <1>9. s \in Seq(Messages) /\ \A i \in 1..Len(s) : Formed(s[i])
    BY <1>1, <1>5
  <1>10. Well(s)
    BY <1>6, <1>7, <1>8, <1>9 DEF Well
  <1>11. QED
    BY <1>10 DEF s

(* From a call on.                                                            *)
LEMMA WellSuffix ==
    ASSUME NEW s, Well(s), NEW p \in 1..Len(s), s[p].role = "call"
    PROVE  /\ Well(SubSeq(s, p, Len(s))) /\ Len(SubSeq(s, p, Len(s))) = Len(s) - p + 1
           /\ \A i \in 1..Len(SubSeq(s, p, Len(s))) :
                  p + i - 1 \in 1..Len(s) /\ SubSeq(s, p, Len(s))[i] = s[p + i - 1]
  <1> DEFINE t == SubSeq(s, p, Len(s))
             f == [i \in Nat |-> p + i - 1]
  <1>1. s \in Seq(Messages) /\ Len(s) \in Nat /\ p \in Nat
    BY DEF Well
  <1>2. /\ t \in Seq(Messages) /\ Len(t) = Len(s) - p + 1
        /\ \A i \in 1..Len(t) : p + i - 1 \in 1..Len(s) /\ t[i] = s[p + i - 1]
    BY <1>1
  <1>3. \A i \in Nat : f[i] = p + i - 1
    OBVIOUS
  <1>4. \A i \in 1..Len(t) : i \in Nat
    OBVIOUS
  <1> HIDE DEF t, f
  <1>5. \A i \in 1..Len(t) : f[i] = p + i - 1 /\ f[i] \in 1..Len(s) /\ t[i] = s[f[i]]
    BY <1>2, <1>3, <1>4
  <1>6. \A i, j \in 1..Len(t) : i < j => f[i] < f[j]
    BY <1>1, <1>5, <1>4
  <1>7. \A j \in 1..Len(s) : p <= j => j - p + 1 \in 1..Len(t) /\ f[j - p + 1] = j
    <2>1. ASSUME NEW j \in 1..Len(s), p <= j PROVE j - p + 1 \in 1..Len(t) /\ f[j - p + 1] = j
      <3>1. j - p + 1 \in 1..Len(t)
        BY <1>1, <1>2, <2>1
      <3>2. f[j - p + 1] = p + (j - p + 1) - 1
        BY <1>5, <3>1
      <3>3. QED
        BY <1>1, <3>1, <3>2, SMTT(60)
    <2>2. QED
      BY <2>1
  <1> HIDE DEF t, f
  <1>8. ASSUME NEW i \in 1..Len(t), NEW j \in 1..Len(s), t[i].role = "call", Follows(s, f[i], j)
        PROVE  \E l \in 1..Len(t) : f[l] = j /\ t[l].role = "result"
    <2>1. p <= f[i] /\ f[i] < j /\ s[j].role = "result"
      <3>1. p <= f[i]
        BY <1>1, <1>2, <1>5, SMTT(60)
      <3>2. QED
        BY <1>8, <3>1 DEF Follows, Of
    <2>2. p <= j
      BY <1>1, <1>5, <2>1
    <2>3. j - p + 1 \in 1..Len(t) /\ f[j - p + 1] = j
      BY <1>7, <2>2
    <2>4. t[j - p + 1] = s[j]
      BY <1>5, <2>3
    <2>5. QED
      BY <2>1, <2>3, <2>4
  <1>9. ASSUME NEW j \in 1..Len(t), NEW i \in 1..Len(s), t[j].role = "result", Follows(s, i, f[j])
        PROVE  \E l \in 1..Len(t) : /\ f[l] = i /\ t[l].role = "call"
                                    /\ t[j].calls \subseteq t[l].calls
    <2>1. p <= f[j] /\ s[f[j]].role = "result"
      BY <1>1, <1>2, <1>5, <1>9, SMTT(60)
    <2>2. p # f[j]
      BY <2>1
    <2>3. ~(i < p)
      <3>1. i < p /\ p < f[j] => s[p].role # "call"
        BY <1>9 DEF Follows
      <3>2. p < f[j]
        BY <1>1, <1>5, <2>1, <2>2
      <3>3. QED
        BY <3>1, <3>2
    <2>4. i - p + 1 \in 1..Len(t) /\ f[i - p + 1] = i
      BY <1>1, <1>7, <2>3, SMTT(60)
    <2>5. Of(s[i], s[f[j]])
      BY <1>9 DEF Follows
    <2>6. t[i - p + 1] = s[i] /\ t[j] = s[f[j]]
      BY <1>5, <2>4
    <2>7. t[i - p + 1].role = "call" /\ t[j].calls \subseteq t[i - p + 1].calls
      BY <2>5, <2>6 DEF Of
    <2>8. QED
      BY <2>4, <2>7
  <1>10. \A i \in 1..Len(t) : Formed(t[i])
    BY <1>5, SMTT(60) DEF Well
  <1>11. \A i \in 1..Len(t) :
            /\ f[i] \in 1..Len(s) /\ t[i].turn = s[f[i]].turn
            /\ t[i].role = "result" => s[f[i]].role = "result" /\ t[i].calls = s[f[i]].calls
            /\ t[i].role = "call" => s[f[i]].role = "call" /\ t[i].calls \subseteq s[f[i]].calls
    BY <1>5
  <1>12. Thin(s, t, f)
    <2>1. \A i \in 1..Len(t), j \in 1..Len(s) :
             t[i].role = "call" /\ Follows(s, f[i], j) /\ s[j].calls \subseteq t[i].calls =>
                 \E l \in 1..Len(t) : f[l] = j /\ t[l].role = "result"
      BY <1>8, SMTT(60)
    <2>2. \A j \in 1..Len(t), i \in 1..Len(s) :
             t[j].role = "result" /\ Follows(s, i, f[j]) =>
                 \E l \in 1..Len(t) : /\ f[l] = i /\ t[l].role = "call"
                                      /\ t[j].calls \subseteq t[l].calls
      BY <1>9
    <2>3. t \in Seq(Messages)
      BY <1>2
    <2>4. QED
      BY <1>6, <1>10, <1>11, <2>1, <2>2, <2>3, ZenonT(60) DEF Thin
  <1>13. Well(t)
    BY <1>12, WellThin
  <1>14. QED
    BY <1>2, <1>13 DEF t

(* The places of the calls.                                                   *)
LEMMA CallsWhere ==
    ASSUME NEW s \in Seq(Messages)
    PROVE  /\ Len(s) \in Nat /\ DOMAIN s = 1..Len(s)
           /\ Calls(s) = {i \in 1..Len(s) : s[i].role = "call"}
           /\ Plans(s) = {i \in 1..Len(s) : s[i].role = "call" /\ "todo" \in s[i].calls}
           /\ Planned(s) = {s[i].turn : i \in Plans(s)}
  BY DEF Calls, Plans, Planned

(* Without the plans: what is left is accepted, has no plan in it, is of the  *)
(* turns it was of, and is shorter if a plan had a result.                    *)
LEMMA StripWell ==
    ASSUME NEW s, Well(s), NEW w
    PROVE  /\ Well(Strip(s, w)) /\ Len(Strip(s, w)) <= Len(s)
           /\ \A i \in 1..Len(Strip(s, w)) :
                  /\ \E j \in 1..Len(s) : Strip(s, w)[i].turn = s[j].turn
                  /\ Strip(s, w)[i].role = "result" => "todo" \notin Strip(s, w)[i].calls
           /\ (\E j \in 1..Len(s) : s[j].role = "result" /\ s[j].calls = {"todo"})
                  => Len(Strip(s, w)) < Len(s)
  <1> DEFINE turns == Planned(s)
             P == {i \in DOMAIN s : Stays(s[i], turns, w)}
             kept == At(s, P)
             t == [i \in DOMAIN kept |-> Without(kept[i], turns)]
  <1>1. s \in Seq(Messages) /\ Len(s) \in Nat /\ DOMAIN s = 1..Len(s)
    BY DEF Well
  <1>2. kept \in Seq(Messages) /\ \E f : Chosen(s, P, Len(s), kept, f)
    <2> HIDE DEF P
    <2>1. QED
      BY <1>1, AtChosen
  <1>3. PICK f : Chosen(s, P, Len(s), kept, f)
    BY <1>2
  <1>4. Strip(s, w) = t
    BY DEF Strip
  <1>5. /\ Len(kept) \in Nat /\ Len(kept) <= Len(s)
        /\ \A i \in 1..Len(kept) : f[i] \in P /\ f[i] \in 1..Len(s) /\ kept[i] = s[f[i]]
        /\ \A i, j \in 1..Len(kept) : i < j => f[i] < f[j]
        /\ \A p \in P : p \in 1..Len(s) => \E i \in 1..Len(kept) : f[i] = p
        /\ \A p \in 1..Len(s) : p \notin P => Len(kept) < Len(s)
    <2> HIDE DEF P, kept
    <2>1. QED
      BY <1>3 DEF Chosen
  <1>6. DOMAIN kept = 1..Len(kept)
    BY <1>2
  <1> HIDE DEF kept
  <1>7. t = [i \in 1..Len(kept) |-> Without(kept[i], turns)]
    BY <1>6
  <1> HIDE DEF turns
  <1>8. ASSUME NEW m \in Messages
        PROVE  /\ Without(m, turns) \in Messages /\ Without(m, turns).turn = m.turn
               /\ m.role # "call" => Without(m, turns) = m
               /\ m.role = "call" /\ IsPlan(m, turns) => Without(m, turns).role = "text"
               /\ m.role = "call" /\ ~IsPlan(m, turns) =>
                      /\ Without(m, turns).role = "call"
                      /\ Without(m, turns).calls = m.calls \ {"todo"}
    <2>1. CASE m.role # "call"
      <3>1. Without(m, turns) = m
        BY <2>1 DEF Without
      <3>2. QED
        BY <2>1, <3>1
    <2>2. CASE m.role = "call" /\ IsPlan(m, turns)
      <3>1. Without(m, turns) = Text(m.turn)
        BY <2>2 DEF Without
      <3>2. QED
        BY <2>2, <3>1 DEF Text, Message, Messages
    <2>3. CASE m.role = "call" /\ ~IsPlan(m, turns)
      <3>1. Without(m, turns) = [m EXCEPT !.calls = @ \ {"todo"}]
        BY <2>3 DEF Without
      <3>2. QED
        BY <2>3, <3>1 DEF Messages
    <2>4. QED
      BY <2>1, <2>2, <2>3
  <1> HIDE DEF t, P
  <1>9. \A i \in 1..Len(kept) : kept[i] \in Messages /\ t[i] = Without(kept[i], turns)
    BY <1>2, <1>7
  <1>10. t \in Seq(Messages) /\ Len(t) = Len(kept)
    <2>1. \A i \in 1..Len(kept) : Without(kept[i], turns) \in Messages
      BY <1>8, <1>9
    <2>2. QED
      BY <1>5, <1>7, <2>1, SMTT(60)
  <1>11. ASSUME NEW i \in 1..Len(s), s[i].role = "call", "todo" \in s[i].calls
         PROVE  s[i].turn \in turns
    BY <1>1, <1>11, CallsWhere DEF turns
  <1>12. \A i \in 1..Len(s) : i \in P <=> Stays(s[i], turns, w)
    BY <1>1 DEF P
  <1>13. ASSUME NEW i \in 1..Len(s), NEW j \in 1..Len(s), Follows(s, i, j),
                "todo" \in s[j].calls
         PROVE  IsPlan(s[j], turns) /\ j \notin P /\ s[j].calls = {"todo"}
    <2>1. Of(s[i], s[j])
      BY <1>13 DEF Follows
    <2>2. s[i].role = "call" /\ "todo" \in s[i].calls /\ s[j].turn = s[i].turn
            /\ s[j].role = "result"
      BY <1>13, <2>1 DEF Of
    <2>3. s[j].turn \in turns
      BY <1>11, <2>2
    <2>4. s[j].calls = {"todo"}
      BY <1>13, <2>2 DEF Well, Formed
    <2>5. IsPlan(s[j], turns)
      BY <2>3, <2>4 DEF IsPlan
    <2>6. QED
      BY <1>12, <2>2, <2>4, <2>5 DEF Stays
  <1>14. ASSUME NEW i \in 1..Len(t)
         PROVE  /\ f[i] \in P /\ f[i] \in 1..Len(s) /\ t[i] = Without(s[f[i]], turns)
                /\ t[i].turn = s[f[i]].turn
                /\ t[i].role = "result" => t[i] = s[f[i]]
                /\ t[i].role = "call" => /\ s[f[i]].role = "call" /\ ~IsPlan(s[f[i]], turns)
                                         /\ t[i].calls = s[f[i]].calls \ {"todo"}
    <2>1. /\ f[i] \in P /\ f[i] \in 1..Len(s) /\ t[i] = Without(s[f[i]], turns)
          /\ s[f[i]] \in Messages
      BY <1>5, <1>9, <1>10
    <2>2. QED
      BY <1>8, <2>1
  <1>15. \A j \in 1..Len(s) : s[j].role = "result" => \E i \in 1..Len(s) : Follows(s, i, j)
    BY DEF Well
  <1>16. ASSUME NEW i \in 1..Len(t), t[i].role = "result"
         PROVE  "todo" \notin t[i].calls /\ Formed(t[i])
    <2>1. t[i] = s[f[i]] /\ f[i] \in P /\ f[i] \in 1..Len(s)
      BY <1>14, <1>16
    <2>2. PICK j \in 1..Len(s) : Follows(s, j, f[i])
      BY <1>16, <1>15, <2>1
    <2>3. QED
      BY <1>13, <2>1, <2>2 DEF Well
  <1>17. ASSUME NEW i \in 1..Len(t) PROVE Formed(t[i])
    <2>1. CASE t[i].role = "result"
      BY <1>16, <2>1
    <2>2. CASE t[i].role = "call"
      <3>1. /\ s[f[i]].role = "call" /\ ~IsPlan(s[f[i]], turns) /\ f[i] \in 1..Len(s)
            /\ t[i].calls = s[f[i]].calls \ {"todo"}
        BY <1>14, <2>2
      <3>2. s[f[i]].calls # {}
        BY <3>1 DEF Well, Formed
      <3>3. s[f[i]].calls # {"todo"}
        BY <1>11, <3>1 DEF IsPlan
      <3>4. QED
        BY <2>2, <3>1, <3>2, <3>3 DEF Formed
    <2>3. QED
      BY <2>1, <2>2 DEF Formed
  <1>18. \A i, j \in 1..Len(t) : i < j => f[i] < f[j]
    BY <1>5, <1>10
  <1>19. ASSUME NEW i \in 1..Len(t), NEW j \in 1..Len(s), t[i].role = "call",
                Follows(s, f[i], j), s[j].calls \subseteq t[i].calls
         PROVE  \E l \in 1..Len(t) : f[l] = j /\ t[l].role = "result"
    <2>1. "todo" \notin s[j].calls /\ s[j].role = "result"
      BY <1>14, <1>19 DEF Follows, Of
    <2>2. j \in P
      BY <1>12, <2>1 DEF Stays, IsPlan
    <2>3. PICK l \in 1..Len(t) : f[l] = j
      BY <1>5, <1>10, <2>2
    <2>4. s[f[l]] \in Messages /\ t[l] = Without(s[f[l]], turns) /\ s[f[l]].role # "call"
      BY <1>1, <1>14, <2>1, <2>3
    <2>5. t[l] = s[j]
      BY <1>8, <2>3, <2>4
    <2>6. QED
      BY <2>1, <2>3, <2>5
  <1>20. ASSUME NEW j \in 1..Len(t), NEW i \in 1..Len(s), t[j].role = "result",
                Follows(s, i, f[j])
         PROVE  \E l \in 1..Len(t) : /\ f[l] = i /\ t[l].role = "call"
                                     /\ t[j].calls \subseteq t[l].calls
    <2>1. t[j] = s[f[j]] /\ f[j] \in P /\ f[j] \in 1..Len(s)
      BY <1>14, <1>20
    <2>2. "todo" \notin s[f[j]].calls
      BY <1>13, <1>20, <2>1
    <2>3. /\ s[i].role = "call" /\ s[f[j]].calls \subseteq s[i].calls
          /\ \E k \in Kinds : s[f[j]].calls = {k}
      BY <1>20, <2>1, ZenonT(60) DEF Follows, Of, Well, Formed
    <2>4. ~IsPlan(s[i], turns)
      BY <2>2, <2>3 DEF IsPlan
    <2>5. i \in P
      BY <1>12, <2>3, <2>4 DEF Stays
    <2>6. PICK l \in 1..Len(t) : f[l] = i
      BY <1>5, <1>10, <2>5
    <2>7. s[i] \in Messages /\ t[l] = Without(s[i], turns)
      BY <1>1, <1>14, <2>6
    <2>8. t[l].role = "call" /\ t[l].calls = s[i].calls \ {"todo"}
      BY <1>8, <2>3, <2>4, <2>7
    <2>9. QED
      BY <2>1, <2>2, <2>3, <2>6, <2>8
  <1>21. \A i \in 1..Len(t) : f[i] \in 1..Len(s) /\ t[i].turn = s[f[i]].turn
    BY <1>14
  <1>22. \A i \in 1..Len(t) :
             t[i].role = "result" => s[f[i]].role = "result" /\ t[i].calls = s[f[i]].calls
    BY <1>14
  <1>23. \A i \in 1..Len(t) :
             t[i].role = "call" => s[f[i]].role = "call" /\ t[i].calls \subseteq s[f[i]].calls
    BY <1>14
  <1>24. Thin(s, t, f)
    <2>1. \A i \in 1..Len(t), j \in 1..Len(s) :
             t[i].role = "call" /\ Follows(s, f[i], j) /\ s[j].calls \subseteq t[i].calls =>
                 \E l \in 1..Len(t) : f[l] = j /\ t[l].role = "result"
      BY <1>19, ZenonT(60)
    <2>2. \A j \in 1..Len(t), i \in 1..Len(s) :
             t[j].role = "result" /\ Follows(s, i, f[j]) =>
                 \E l \in 1..Len(t) : /\ f[l] = i /\ t[l].role = "call"
                                      /\ t[j].calls \subseteq t[l].calls
      BY <1>20, SMTT(60)
    <2>3. t \in Seq(Messages) /\ \A i \in 1..Len(t) : Formed(t[i])
      BY <1>10, <1>17
    <2>4. QED
      BY <1>18, <1>21, <1>22, <1>23, <2>1, <2>2, <2>3 DEF Thin
  <1>25. Well(t)
    BY <1>24, WellThin
  <1>26. ASSUME NEW j \in 1..Len(s), s[j].role = "result", s[j].calls = {"todo"}
         PROVE  Len(t) < Len(s)
    <2>1. PICK i \in 1..Len(s) : Follows(s, i, j)
      BY <1>26, <1>15
    <2>2. j \notin P
      BY <1>13, <1>26, <2>1
    <2>3. QED
      BY <1>5, <1>10, <2>2
  <1>27. Len(t) <= Len(s)
    BY <1>5, <1>10
  <1>28. \A i \in 1..Len(t) : /\ \E j \in 1..Len(s) : t[i].turn = s[j].turn
                              /\ t[i].role = "result" => "todo" \notin t[i].calls
    BY <1>16, <1>21
  <1>29. QED
    BY <1>4, <1>25, <1>26, <1>27, <1>28

(* With the oldest call gone: what is left is accepted, shorter, and of the   *)
(* turns it was of.                                                           *)
LEMMA TrimWell ==
    ASSUME NEW s, Well(s), s # <<>>
    PROVE  /\ Well(TrimTools(s)) /\ Len(TrimTools(s)) < Len(s)
           /\ \A i \in 1..Len(TrimTools(s)) :
                  \E j \in 1..Len(s) : TrimTools(s)[i].turn = s[j].turn
  <1>1. s \in Seq(Messages) /\ Len(s) \in Nat /\ Len(s) > 0 /\ DOMAIN s = 1..Len(s)
    BY DEF Well
  <1>2. Calls(s) = {i \in 1..Len(s) : s[i].role = "call"}
    BY <1>1, CallsWhere
  <1>3. \A j \in 1..Len(s) : s[j].role = "result" => \E i \in 1..Len(s) : Follows(s, i, j)
    BY DEF Well
  <1>4. CASE Calls(s) = {}
    <2> DEFINE t == Tail(s)
    <2>1. /\ t \in Seq(Messages) /\ Len(t) = Len(s) - 1
          /\ \A i \in 1..Len(t) : i + 1 \in 1..Len(s) /\ t[i] = s[i + 1]
      BY <1>1
    <2> HIDE DEF t
    <2>2. \A j \in 1..Len(s) : s[j].role # "call"
      BY <1>2, <1>4
    <2>3. \A j \in 1..Len(s) : s[j].role # "result"
      BY <1>3, <2>2 DEF Follows, Of
    <2>4. \A j \in 1..Len(s) : s[j] \in Messages
      BY <1>1
    <2>5. \A j \in 1..Len(s) : s[j].role \in {"text", "user"}
      BY <2>2, <2>3, <2>4 DEF Messages
    <2>6. Well(t)
      BY <2>1, <2>5, WellQuiet
    <2>7. TrimTools(s) = t
      BY <1>4 DEF TrimTools, t
    <2>8. QED
      BY <1>1, <2>1, <2>6, <2>7
  <1>5. CASE Calls(s) # {}
    <2> DEFINE at == Min(Calls(s))
               Goes(j) == s[j].role = "result" /\ s[j].turn = s[at].turn
                             /\ s[j].calls \subseteq s[at].calls
               P == {i \in DOMAIN s : i # at /\ ~Goes(i)}
               t == At(s, P)
    <2>1. TrimTools(s) = t
      BY <1>5 DEF TrimTools
    <2>2. at \in 1..Len(s) /\ s[at].role = "call"
      <3>1. Calls(s) \subseteq 1..Len(s)
        BY <1>2
      <3>2. at \in Calls(s)
        BY <1>1, <1>5, <3>1, MaxMin
      <3>3. QED
        BY <1>2, <3>2
    <2>3. t \in Seq(Messages) /\ \E f : Chosen(s, P, Len(s), t, f)
      <3> HIDE DEF P
      <3>1. QED
        BY <1>1, AtChosen
    <2>4. PICK f : Chosen(s, P, Len(s), t, f)
      BY <2>3
    <2>5. /\ Len(t) \in Nat /\ Len(t) <= Len(s)
          /\ \A i \in 1..Len(t) : f[i] \in P /\ f[i] \in 1..Len(s) /\ t[i] = s[f[i]]
          /\ \A i, j \in 1..Len(t) : i < j => f[i] < f[j]
          /\ \A p \in P : p \in 1..Len(s) => \E i \in 1..Len(t) : f[i] = p
          /\ \A p \in 1..Len(s) : p \notin P => Len(t) < Len(s)
      <3> HIDE DEF P, t
      <3>1. QED
        BY <2>4 DEF Chosen
    <2> HIDE DEF t
    <2>6. /\ at \notin P
          /\ \A i \in 1..Len(s) : i \in P <=> i # at /\ ~Goes(i)
      BY <1>1
    <2> HIDE DEF P, at
    <2>7. /\ \A i, j \in 1..Len(s) :
                 s[i].role = "result" /\ s[j].role = "result" /\ s[i].turn = s[j].turn
                     /\ s[i].calls = s[j].calls => i = j
          /\ \A i \in 1..Len(s) : s[i].role = "call" =>
                 \A k \in s[i].calls : \E j \in 1..Len(s) : s[j].calls = {k} /\ Follows(s, i, j)
          /\ \A i \in 1..Len(s) : Formed(s[i])
      BY DEF Well
    <2>8. ASSUME NEW j \in 1..Len(s), Goes(j) PROVE Follows(s, at, j)
      <3>1. PICK k \in Kinds : s[j].calls = {k}
        BY <2>7, <2>8 DEF Formed
      <3>2. k \in s[at].calls
        BY <2>8, <3>1
      <3>3. PICK l \in 1..Len(s) : s[l].calls = {k} /\ Follows(s, at, l)
        BY <2>2, <2>7, <3>2
      <3>4. s[l].role = "result" /\ s[l].turn = s[at].turn
        BY <3>3 DEF Follows, Of
      <3>5. l = j
        BY <2>7, <2>8, <3>1, <3>3, <3>4
      <3>6. QED
        BY <3>3, <3>5
    <2>9. ASSUME NEW i \in 1..Len(s), NEW j \in 1..Len(s), Follows(s, i, j)
          PROVE  (i \in P <=> j \in P) /\ s[i].role = "call" /\ s[j].role = "result"
      <3>1. s[i].role = "call" /\ s[j].role = "result" /\ s[j].turn = s[i].turn
              /\ s[j].calls \subseteq s[i].calls
        BY <2>9 DEF Follows, Of
      <3>2. i \in P <=> i # at
        BY <2>6, <3>1
      <3>3. j \in P <=> ~Goes(j)
        BY <2>2, <2>6, <3>1
      <3>4. i = at => Goes(j)
        BY <3>1
      <3>5. ASSUME Goes(j) PROVE i = at
        <4>1. Follows(s, at, j)
          BY <2>8, <3>5
        <4>2. ~(i < at) /\ ~(at < i)
          BY <2>2, <2>9, <3>1, <4>1 DEF Follows
        <4>3. QED
          BY <2>2, <4>2
      <3>6. QED
        BY <3>1, <3>2, <3>3, <3>4, <3>5
    <2> HIDE DEF Goes
    <2>10. \A i \in 1..Len(t), j \in 1..Len(s) :
              t[i].role = "call" /\ Follows(s, f[i], j) /\ s[j].calls \subseteq t[i].calls =>
                  \E l \in 1..Len(t) : f[l] = j /\ t[l].role = "result"
      <3>1. ASSUME NEW i \in 1..Len(t), NEW j \in 1..Len(s), Follows(s, f[i], j)
            PROVE  \E l \in 1..Len(t) : f[l] = j /\ t[l].role = "result"
        <4>1. f[i] \in 1..Len(s) /\ f[i] \in P
          BY <2>5
        <4>2. j \in P /\ s[j].role = "result"
          BY <2>9, <3>1, <4>1
        <4>3. QED
          BY <2>5, <4>2, SMTT(60)
      <3>2. QED
        BY <3>1
    <2>11. \A j \in 1..Len(t), i \in 1..Len(s) :
              t[j].role = "result" /\ Follows(s, i, f[j]) =>
                  \E l \in 1..Len(t) : /\ f[l] = i /\ t[l].role = "call"
                                       /\ t[j].calls \subseteq t[l].calls
      <3>1. ASSUME NEW j \in 1..Len(t), NEW i \in 1..Len(s), Follows(s, i, f[j])
            PROVE  \E l \in 1..Len(t) : /\ f[l] = i /\ t[l].role = "call"
                                        /\ t[j].calls \subseteq t[l].calls
        <4>1. f[j] \in 1..Len(s) /\ f[j] \in P /\ t[j] = s[f[j]]
          BY <2>5
        <4>2. i \in P /\ s[i].role = "call" /\ s[f[j]].calls \subseteq s[i].calls
          BY <2>9, <3>1, <4>1 DEF Follows, Of
        <4>3. QED
          BY <2>5, <4>1, <4>2, SMTT(60)
      <3>2. QED
        BY <3>1
    <2>12. \A i \in 1..Len(t) : f[i] \in 1..Len(s) /\ t[i] = s[f[i]] /\ Formed(t[i])
      BY <2>5, <2>7
    <2>13. /\ \A i \in 1..Len(t) : f[i] \in 1..Len(s) /\ t[i].turn = s[f[i]].turn
           /\ \A i \in 1..Len(t) :
                  t[i].role = "result" => s[f[i]].role = "result" /\ t[i].calls = s[f[i]].calls
           /\ \A i \in 1..Len(t) :
                  t[i].role = "call" => s[f[i]].role = "call" /\ t[i].calls \subseteq s[f[i]].calls
      BY <2>12
    <2>14. Thin(s, t, f)
      <3>1. t \in Seq(Messages) /\ \A i \in 1..Len(t) : Formed(t[i])
        BY <2>3, <2>12
      <3>2. \A i, j \in 1..Len(t) : i < j => f[i] < f[j]
        BY <2>5
      <3>3. QED
        BY <2>10, <2>11, <2>13, <3>1, <3>2 DEF Thin
    <2>15. Well(t)
      BY <2>14, WellThin
    <2>16. Len(t) < Len(s)
      BY <2>2, <2>5, <2>6
    <2>17. QED
      BY <2>1, <2>13, <2>15, <2>16
  <1> QED
    BY <1>4, <1>5

(* Short sequences, one after the other.                                      *)
LEMMA Beside ==
    ASSUME NEW T, NEW a \in T, NEW b \in T, NEW c \in T
    PROVE  <<a>> \o <<b>> = <<a, b>> /\ <<a>> \o <<b, c>> = <<a, b, c>>
  <1>1. /\ <<a>> \o <<b>> \in Seq(T) /\ Len(<<a>> \o <<b>>) = 2
        /\ (<<a>> \o <<b>>)[1] = a /\ (<<a>> \o <<b>>)[2] = b
    OBVIOUS
  <1>2. /\ <<a>> \o <<b, c>> \in Seq(T) /\ Len(<<a>> \o <<b, c>>) = 3
        /\ (<<a>> \o <<b, c>>)[1] = a /\ (<<a>> \o <<b, c>>)[2] = b
        /\ (<<a>> \o <<b, c>>)[3] = c
    OBVIOUS
  <1>3. ASSUME NEW s \in Seq(T), Len(s) = 2, s[1] = a, s[2] = b PROVE s = <<a, b>>
    BY <1>3
  <1>4. ASSUME NEW s \in Seq(T), Len(s) = 3, s[1] = a, s[2] = b, s[3] = c
        PROVE  s = <<a, b, c>>
    BY <1>4
  <1>5. QED
    BY <1>1, <1>2, <1>3, <1>4

(* A call with the result of one part.                                        *)
LEMMA WellPair ==
    ASSUME NEW t \in Nat, NEW k \in Kinds
    PROVE  Well(<<Call(t, {k}), Result(t, k)>>)
  <1> DEFINE c == Call(t, {k})
             r == Result(t, k)
             s == <<c, r>>
  <1>1. /\ c \in Messages /\ c.role = "call" /\ c.turn = t /\ c.calls = {k}
        /\ r \in Messages /\ r.role = "result" /\ r.turn = t /\ r.calls = {k}
    <2>1. {k} \in SUBSET Kinds /\ {} \in SUBSET Steers
      OBVIOUS
    <2>2. QED
      BY <2>1, MessagesMade, SMTT(60)
  <1> HIDE DEF c, r
  <1>2. s \in Seq(Messages) /\ Len(s) = 2 /\ s[1] = c /\ s[2] = r
    BY <1>1
  <1> HIDE DEF s
  <1>3. \A i \in 1..Len(s) : i = 1 \/ i = 2
    BY <1>2
  <1>4. \A l \in 1..Len(s) : ~(1 < l /\ l < 2)
    BY <1>2
  <1>5. Follows(s, 1, 2)
    BY <1>1, <1>2, <1>4 DEF Follows, Of
  <1>6. \A i \in 1..Len(s) : Formed(s[i])
    BY <1>1, <1>2, <1>3 DEF Formed
  <1>7. /\ \A i \in 1..Len(s) : s[i].role = "result" => i = 2
        /\ \A i \in 1..Len(s) : s[i].role = "call" => i = 1
    BY <1>1, <1>2, <1>3
  <1>8. 1 \in 1..Len(s) /\ 2 \in 1..Len(s)
    BY <1>2
  <1>9. Well(s)
    BY <1>1, <1>2, <1>5, <1>6, <1>7, <1>8 DEF Well
  <1>10. QED
    BY <1>9 DEF s, c, r

(* A call with the results of both parts.                                     *)
LEMMA WellTriple ==
    ASSUME NEW t \in Nat
    PROVE  Well(<<Call(t, Kinds), Result(t, "todo"), Result(t, "work")>>)
  <1> DEFINE c == Call(t, Kinds)
             r == Result(t, "todo")
             w == Result(t, "work")
             s == <<c, r, w>>
  <1>1. /\ c \in Messages /\ c.role = "call" /\ c.turn = t /\ c.calls = Kinds
        /\ r \in Messages /\ r.role = "result" /\ r.turn = t /\ r.calls = {"todo"}
        /\ w \in Messages /\ w.role = "result" /\ w.turn = t /\ w.calls = {"work"}
    <2>1. "todo" \in Kinds /\ "work" \in Kinds /\ {} \in SUBSET Steers
      BY DEF Kinds
    <2>2. Kinds \in SUBSET Kinds
      OBVIOUS
    <2>3. c \in Messages /\ c.role = "call" /\ c.turn = t /\ c.calls = Kinds
      BY <2>1, <2>2, MessagesMade
    <2>4. r \in Messages /\ r.role = "result" /\ r.turn = t /\ r.calls = {"todo"}
      BY <2>1, <2>2, MessagesMade
    <2>5. w \in Messages /\ w.role = "result" /\ w.turn = t /\ w.calls = {"work"}
      BY <2>1, <2>2, MessagesMade
    <2>6. QED
      BY <2>3, <2>4, <2>5
  <1> HIDE DEF c, r, w
  <1>2. s \in Seq(Messages) /\ Len(s) = 3 /\ s[1] = c /\ s[2] = r /\ s[3] = w
    BY <1>1
  <1> HIDE DEF s
  <1>3. \A i \in 1..Len(s) : i = 1 \/ i = 2 \/ i = 3
    BY <1>2
  <1>4. \A l \in 1..Len(s) : /\ ~(1 < l /\ l < 2)
                             /\ 1 < l /\ l < 3 => l = 2
    BY <1>2
  <1>5. Follows(s, 1, 2) /\ Follows(s, 1, 3)
    BY <1>1, <1>2, <1>4 DEF Follows, Of, Kinds
  <1>6. \A i \in 1..Len(s) : Formed(s[i])
    BY <1>1, <1>2, <1>3 DEF Formed, Kinds
  <1>7. /\ \A i \in 1..Len(s) : s[i].role = "result" => i = 2 \/ i = 3
        /\ \A i \in 1..Len(s) : s[i].role = "call" => i = 1
        /\ s[2].calls # s[3].calls
    BY <1>1, <1>2, <1>3
  <1>8. 1 \in 1..Len(s) /\ 2 \in 1..Len(s) /\ 3 \in 1..Len(s)
    BY <1>2
  <1>9. ASSUME NEW i \in 1..Len(s), s[i].role = "call", NEW k \in s[i].calls
        PROVE  \E j \in 1..Len(s) : s[j].calls = {k} /\ Follows(s, i, j)
    <2>1. i = 1 /\ (k = "todo" \/ k = "work")
      BY <1>1, <1>2, <1>7, <1>9 DEF Kinds
    <2>2. QED
      BY <1>1, <1>2, <1>5, <1>8, <2>1
  <1>10. Well(s)
    BY <1>2, <1>5, <1>6, <1>7, <1>8, <1>9 DEF Well
  <1>11. QED
    BY <1>10 DEF s, c, r, w

(* A batch of calls with its results.                                         *)
LEMMA WellBatch ==
    ASSUME NEW t \in Nat, NEW c \in SUBSET Kinds, c # {}
    PROVE  /\ Well(<<Call(t, c)>> \o ResultsOf(Call(t, c)))
           /\ ResultsOf(Call(t, c)) \in Seq(Messages)
           /\ \A i \in 1..Len(<<Call(t, c)>> \o ResultsOf(Call(t, c))) :
                  (<<Call(t, c)>> \o ResultsOf(Call(t, c)))[i].turn = t
  <1> DEFINE m == Call(t, c)
             of(k) == IF k \in m.calls THEN <<Result(m.turn, k)>> ELSE <<>>
             rs == of("todo") \o of("work")
  <1>1. /\ m \in Messages /\ m.turn = t /\ m.calls = c
        /\ \A k \in Kinds : Result(t, k) \in Messages /\ Result(t, k).turn = t
    <2>1. {} \in SUBSET Steers
      OBVIOUS
    <2>2. QED
      BY <2>1, MessagesMade, SMTT(60)
  <1>2. ResultsOf(m) = rs
    BY DEF ResultsOf
  <1> HIDE DEF m
  <1>3. "todo" \in Kinds /\ "work" \in Kinds
    BY DEF Kinds
  <1>4. Result(t, "todo") \in Messages /\ Result(t, "work") \in Messages
    BY <1>1, <1>3
  <1>5. CASE c = {"todo"}
    <2>1. rs = <<Result(t, "todo")>>
      BY <1>1, <1>4, <1>5
    <2> HIDE DEF rs
    <2>2. <<m>> \o rs = <<m, Result(t, "todo")>> /\ rs \in Seq(Messages)
      <3>1. m \in Messages
        BY <1>1
      <3>2. <<m>> \o <<Result(t, "todo")>> = <<m, Result(t, "todo")>>
        BY <1>4, <3>1, Beside, ZenonT(60)
      <3>3. QED
        BY <1>4, <2>1, <3>2
    <2>3. Well(<<m, Result(t, "todo")>>)
      BY <1>3, <1>5, WellPair DEF m
    <2>4. \A i \in 1..2 : <<m, Result(t, "todo")>>[i].turn = t
      BY <1>1, <1>3
    <2>5. Len(<<m, Result(t, "todo")>>) = 2
      OBVIOUS
    <2>6. QED
      BY <1>2, <2>2, <2>3, <2>4, <2>5 DEF m
  <1>6. CASE c = {"work"}
    <2>1. rs = <<Result(t, "work")>>
      BY <1>1, <1>4, <1>6
    <2> HIDE DEF rs
    <2>2. <<m>> \o rs = <<m, Result(t, "work")>> /\ rs \in Seq(Messages)
      <3>1. m \in Messages
        BY <1>1
      <3>2. <<m>> \o <<Result(t, "work")>> = <<m, Result(t, "work")>>
        BY <1>4, <3>1, Beside, ZenonT(60)
      <3>3. QED
        BY <1>4, <2>1, <3>2
    <2>3. Well(<<m, Result(t, "work")>>)
      BY <1>3, <1>6, WellPair DEF m
    <2>4. \A i \in 1..2 : <<m, Result(t, "work")>>[i].turn = t
      BY <1>1, <1>3
    <2>5. Len(<<m, Result(t, "work")>>) = 2
      OBVIOUS
    <2>6. QED
      BY <1>2, <2>2, <2>3, <2>4, <2>5 DEF m
  <1>7. CASE c = Kinds
    <2>1. rs = <<Result(t, "todo"), Result(t, "work")>>
      <3>1. of("todo") = <<Result(t, "todo")>> /\ of("work") = <<Result(t, "work")>>
        BY <1>1, <1>3, <1>7
      <3> HIDE DEF of
      <3>2. QED
        BY <1>4, <3>1, Beside
    <2> HIDE DEF rs
    <2>2. /\ <<m>> \o rs = <<m, Result(t, "todo"), Result(t, "work")>>
          /\ rs \in Seq(Messages)
      <3>1. m \in Messages
        BY <1>1
      <3>2. <<m>> \o <<Result(t, "todo"), Result(t, "work")>>
                = <<m, Result(t, "todo"), Result(t, "work")>>
        BY <1>4, <3>1, Beside, ZenonT(60)
      <3>3. QED
        BY <1>4, <2>1, <3>2
    <2>3. Well(<<m, Result(t, "todo"), Result(t, "work")>>)
      BY <1>7, WellTriple DEF m
    <2>4. \A i \in 1..3 : <<m, Result(t, "todo"), Result(t, "work")>>[i].turn = t
      BY <1>1, <1>3
    <2>5. Len(<<m, Result(t, "todo"), Result(t, "work")>>) = 3
      OBVIOUS
    <2>6. QED
      BY <1>2, <2>2, <2>3, <2>4, <2>5 DEF m
  <1>8. c = {"todo"} \/ c = {"work"} \/ c = Kinds
    BY DEF Kinds
  <1>9. QED
    BY <1>5, <1>6, <1>7, <1>8

(* The last plan with its result, if there is one, is accepted, is of a turn  *)
(* there was, and costs a result that Strip leaves out.                       *)
LEMMA PairWell ==
    ASSUME NEW s, Well(s)
    PROVE  /\ Well(LastPair(s)) /\ Len(LastPair(s)) \in {0, 2}
           /\ \A i \in 1..Len(LastPair(s)) :
                  /\ \E j \in 1..Len(s) : LastPair(s)[i].turn = s[j].turn
                  /\ LastPair(s)[i].role = "result" => LastPair(s)[i].calls = {"todo"}
           /\ Len(LastPair(s)) # 0 =>
                  \E j \in 1..Len(s) : s[j].role = "result" /\ s[j].calls = {"todo"}
  <1> DEFINE at == Max(Plans(s))
             t == s[at].turn
             Has == Plans(s) # {} /\ \E j \in DOMAIN s : j > at /\ s[j] = Result(t, "todo")
             p == <<Call(t, {"todo"}), Result(t, "todo")>>
  <1>1. s \in Seq(Messages) /\ Len(s) \in Nat /\ DOMAIN s = 1..Len(s)
    BY DEF Well
  <1>2. LastPair(s) = IF Has THEN p ELSE <<>>
    BY DEF LastPair
  <1> HIDE DEF Has, p, t, at
  <1>3. CASE ~Has
    <2>1. LastPair(s) = <<>>
      BY <1>2, <1>3
    <2>2. <<>> \in Seq(Messages) /\ Len(<<>>) = 0
      OBVIOUS
    <2> DEFINE none == <<>>
    <2>3. none \in Seq(Messages) /\ \A i \in 1..Len(none) : none[i].role \in {"text", "user"}
      BY <2>2
    <2> HIDE DEF none
    <2>4. Well(none)
      BY <2>3, WellQuiet
    <2>5. QED
      BY <2>1, <2>2, <2>4 DEF none
  <1>4. CASE Has
    <2>1. Plans(s) # {} /\ \E j \in 1..Len(s) : s[j] = Result(t, "todo")
      BY <1>1, <1>4 DEF Has
    <2>2. Plans(s) \subseteq 1..Len(s)
      BY <1>1, CallsWhere
    <2>3. at \in 1..Len(s)
      BY <1>1, <2>1, <2>2, MaxMin DEF at
    <2>4. s[at] \in Messages
      BY <1>1, <2>3
    <2>5. t \in Nat
      BY <2>4 DEF t, Messages
    <2>6. "todo" \in Kinds
      BY DEF Kinds
    <2>7. Well(p)
      BY <2>5, <2>6, WellPair DEF p
    <2>8. /\ Call(t, {"todo"}).turn = t /\ Call(t, {"todo"}).role = "call"
          /\ Result(t, "todo").turn = t /\ Result(t, "todo").role = "result"
          /\ Result(t, "todo").calls = {"todo"}
      BY DEF Call, Result, Message
    <2>9. Len(p) = 2 /\ p[1] = Call(t, {"todo"}) /\ p[2] = Result(t, "todo")
      BY DEF p
    <2>10. ASSUME NEW i \in 1..Len(p)
           PROVE  /\ p[i].turn = s[at].turn
                  /\ p[i].role = "result" => p[i].calls = {"todo"}
      <3>1. i = 1 \/ i = 2
        BY <2>9
      <3>2. QED
        BY <2>8, <2>9, <3>1 DEF t
    <2>11. LastPair(s) = p
      BY <1>2, <1>4
    <2>12. \E j \in 1..Len(s) : s[j].role = "result" /\ s[j].calls = {"todo"}
      BY <2>1, <2>8
    <2>13. QED
      BY <2>3, <2>7, <2>9, <2>10, <2>11, <2>12
  <1> QED
    BY <1>3, <1>4

(* The larger and the smaller of two.                                         *)
LEMMA OfTwo ==
    ASSUME NEW a \in Nat, NEW b \in Nat
    PROVE  /\ Max({a, b}) \in {a, b} /\ a <= Max({a, b}) /\ b <= Max({a, b})
           /\ Min({a, b}) \in {a, b} /\ Min({a, b}) <= a /\ Min({a, b}) <= b
  <1>1. a <= b \/ b <= a
    OBVIOUS
  <1>2. \E x \in {a, b} : \A y \in {a, b} : x >= y
    BY <1>1
  <1>3. \E x \in {a, b} : \A y \in {a, b} : x <= y
    BY <1>1
  <1>4. Max({a, b}) \in {a, b} /\ \A y \in {a, b} : Max({a, b}) >= y
    BY <1>2 DEF Max
  <1>5. Min({a, b}) \in {a, b} /\ \A y \in {a, b} : Min({a, b}) <= y
    BY <1>3 DEF Min
  <1>6. QED
    BY <1>4, <1>5

(* Of three calls or more two are cut, and one is left.                       *)
LEMMA CutSome ==
    ASSUME NEW n \in Nat, n >= 3
    PROVE  CutSize(n) \in 2..(n - 1)
  <1> DEFINE fifth == (2 * n + 5) \div 10
             most == Max({fifth, 2})
  <1>1. fifth \in Nat
    OBVIOUS
  <1> HIDE DEF fifth
  <1>2. most \in Nat /\ 2 <= most
    <2>1. most \in {fifth, 2} /\ 2 <= most
      BY <1>1, OfTwo
    <2>2. QED
      BY <1>1, <2>1
  <1>3. CutSize(n) = Min({most, n - 1})
    BY DEF CutSize, fifth
  <1> HIDE DEF most
  <1>4. n - 1 \in Nat /\ n - 1 >= 2
    OBVIOUS
  <1>5. Min({most, n - 1}) \in {most, n - 1} /\ Min({most, n - 1}) <= n - 1
    BY <1>2, <1>4, OfTwo
  <1>6. QED
    BY <1>2, <1>3, <1>4, <1>5

(* Where messages are cut: at a call that is not among the first four.        *)
LEMMA CutWhere ==
    ASSUME NEW s, Well(s), Len(CallPlaces(s)) >= 3
    PROVE  CutPlace(s) \in 1..Len(s) /\ s[CutPlace(s)].role = "call" /\ CutPlace(s) > 4
  <1> DEFINE id == [i \in DOMAIN s |-> i]
             P == Calls(s)
             c == CallPlaces(s)
             k == CutSize(Len(c)) + 1
  <1>1. s \in Seq(Messages) /\ Len(s) \in Nat /\ DOMAIN s = 1..Len(s)
    BY DEF Well
  <1>2. id \in Seq(Nat) /\ Len(id) = Len(s) /\ \A i \in 1..Len(s) : id[i] = i
    BY <1>1
  <1>3. c = At(id, P)
    BY DEF CallPlaces
  <1> HIDE DEF id, P, c
  <1>4. PICK f : Chosen(id, P, Len(id), c, f)
    BY <1>2, <1>3, AtChosen
  <1>5. /\ Len(c) \in Nat
        /\ \A i \in 1..Len(c) : f[i] \in P /\ f[i] \in 1..Len(s) /\ c[i] = id[f[i]]
        /\ \A i, j \in 1..Len(c) : i < j => f[i] < f[j]
    BY <1>2, <1>4 DEF Chosen
  <1>6. \A i \in 1..Len(s) : i \in P => s[i].role = "call"
    BY <1>1, CallsWhere DEF P
  <1>7. /\ \A i \in 1..Len(c) : c[i] \in 1..Len(s) /\ s[c[i]].role = "call"
        /\ \A i, j \in 1..Len(c) : i < j => c[i] < c[j]
    <2>1. \A i \in 1..Len(c) : c[i] = f[i] /\ f[i] \in 1..Len(s) /\ f[i] \in P
      BY <1>2, <1>5
    <2>2. QED
      BY <1>5, <1>6, <2>1
  <1>8. ASSUME NEW i \in 1..Len(c), NEW j \in 1..Len(c), i < j PROVE c[i] + 2 <= c[j]
    <2>1. c[i] \in 1..Len(s) /\ s[c[i]].role = "call" /\ c[j] \in 1..Len(s)
            /\ s[c[j]].role = "call" /\ c[i] < c[j]
      BY <1>7, <1>8
    <2>2. \E l \in s[c[i]].calls : TRUE
      BY <2>1, SMTT(60) DEF Well, Formed
    <2>3. PICK r \in 1..Len(s) : Follows(s, c[i], r)
      BY <2>1, <2>2 DEF Well
    <2>4. /\ c[i] < r /\ s[r].role = "result"
          /\ ~(c[i] < c[j] /\ c[j] < r)
      BY <2>1, <2>3 DEF Follows, Of
    <2>5. c[j] # r
      BY <2>1, <2>4
    <2>6. QED
      BY <2>1, <2>4, <2>5, SMTT(60)
  <1>9. k \in 1..Len(c) /\ 3 <= k
    <2>1. CutSize(Len(c)) \in 2..(Len(c) - 1)
      BY <1>5, CutSome DEF c
    <2>2. QED
      BY <1>5, <2>1
  <1>10. CutPlace(s) = c[k]
    BY DEF CutPlace, c
  <1> HIDE DEF k
  <1>11. 1 \in 1..Len(c) /\ 2 \in 1..Len(c) /\ k \in Nat /\ 1 < 2 /\ 2 < k
    BY <1>5, <1>9
  <1>12. c[1] + 2 <= c[2] /\ c[2] + 2 <= c[k]
    BY <1>8, <1>9, <1>11
  <1>13. c[1] \in Nat /\ c[1] >= 1 /\ c[2] \in Nat /\ c[k] \in 1..Len(s)
    BY <1>7, <1>9, <1>11
  <1>14. QED
    BY <1>7, <1>9, <1>10, <1>12, <1>13, SMTT(60)

(* One message that is no call and no result is accepted, alone or at the end *)
(* of others.                                                                 *)
LEMMA WellOne ==
    ASSUME NEW m \in Messages, m.role \in {"text", "user"}
    PROVE  /\ Well(<<m>>)
           /\ \A s : Well(s) => Well(Append(s, m))
  <1> DEFINE one == <<m>>
  <1>1. one \in Seq(Messages) /\ Len(one) = 1 /\ one[1] = m
    OBVIOUS
  <1>2. \A i \in 1..Len(one) : one[i] = m
    BY <1>1
  <1>3. ASSUME NEW s \in Seq(Messages) PROVE Append(s, m) = s \o one
    <2>1. /\ Append(s, m) \in Seq(Messages) /\ s \o one \in Seq(Messages)
          /\ Len(Append(s, m)) = Len(s) + 1 /\ Len(s \o one) = Len(s) + 1
          /\ \A i \in 1..(Len(s) + 1) : Append(s, m)[i] = (s \o one)[i]
      BY <1>1
    <2>2. QED
      BY <2>1
  <1> HIDE DEF one
  <1>4. \A i \in 1..Len(one) : one[i].role \in {"text", "user"} /\ one[i].role # "result"
    BY <1>2
  <1>5. Well(one)
    BY <1>1, <1>4, WellQuiet
  <1>6. ASSUME NEW s, Well(s) PROVE Well(Append(s, m))
    <2>1. s \in Seq(Messages)
      BY <1>6 DEF Well
    <2>2. \A i \in 1..Len(s), j \in 1..Len(one) :
              s[i].role = "result" /\ one[j].role = "result" /\ s[i].turn = one[j].turn =>
                  s[i].calls # one[j].calls
      BY <1>4
    <2>3. Well(s \o one)
      BY <1>5, <1>6, <2>2, WellJoin
    <2>4. QED
      BY <1>3, <2>1, <2>3
  <1>7. QED
    BY <1>5, <1>6 DEF one

(* Where the messages of two sequences are in both.                           *)
LEMMA Joined ==
    ASSUME NEW T, NEW a \in Seq(T), NEW b \in Seq(T)
    PROVE  /\ Len(a \o b) = Len(a) + Len(b) /\ Len(a) \in Nat /\ Len(b) \in Nat
           /\ \A i \in 1..Len(a \o b) : \/ i \in 1..Len(a) /\ (a \o b)[i] = a[i]
                                        \/ i - Len(a) \in 1..Len(b) /\ (a \o b)[i] = b[i - Len(a)]
  OBVIOUS

(* No message is of a later turn than b.                                      *)
UpTo(s, b) == \A i \in 1..Len(s) : s[i].turn <= b

(* The steers in messages are steers.                                         *)
LEMMA SteersAre == ASSUME NEW s \in Seq(Messages) PROVE SteersOf(s) \subseteq Steers
  <1>1. \A m \in ToSet(s) : m \in Messages
    BY DEF ToSet
  <1>2. \A m \in ToSet(s) : m.steers \subseteq Steers
    BY <1>1 DEF Messages
  <1>3. QED
    BY <1>2 DEF SteersOf

(* What a compaction puts first, and the last plan after it.                  *)
LEMMA HeadWell ==
    ASSUME NEW s, Well(s), NEW x \in SUBSET Steers, NEW b \in Nat, UpTo(s, b)
    PROVE  /\ Well(<<User(x)>> \o LastPair(s)) /\ UpTo(<<User(x)>> \o LastPair(s), b)
           /\ Len(<<User(x)>> \o LastPair(s)) = 1 + Len(LastPair(s))
           /\ \A i \in 1..Len(<<User(x)>> \o LastPair(s)) :
                  (<<User(x)>> \o LastPair(s))[i].role = "result" =>
                      (<<User(x)>> \o LastPair(s))[i].calls = {"todo"}
  <1> DEFINE u == User(x)
             a == <<u>>
             p == LastPair(s)
             h == a \o p
  <1>1. u \in Messages /\ u.role = "user" /\ u.turn = 0
    <2>1. 0 \in Nat /\ {} \in SUBSET Kinds /\ "todo" \in Kinds
      BY DEF Kinds
    <2>2. QED
      BY <2>1, MessagesMade
  <1> HIDE DEF u
  <1>2. Well(a)
    BY <1>1, WellOne
  <1>3. a \in Seq(Messages) /\ Len(a) = 1 /\ a[1] = u
    BY <1>1
  <1>4. /\ Well(p) /\ Len(p) \in {0, 2}
        /\ \A i \in 1..Len(p) : /\ \E j \in 1..Len(s) : p[i].turn = s[j].turn
                                /\ p[i].role = "result" => p[i].calls = {"todo"}
    BY PairWell
  <1>5. p \in Seq(Messages)
    BY <1>4 DEF Well
  <1> HIDE DEF a, p
  <1>6. /\ Len(h) = 1 + Len(p)
        /\ \A i \in 1..Len(h) : (i = 1 /\ h[i] = u) \/ (i - 1 \in 1..Len(p) /\ h[i] = p[i - 1])
    <2>1. /\ Len(h) = Len(a) + Len(p)
          /\ \A i \in 1..Len(h) : \/ i \in 1..Len(a) /\ h[i] = a[i]
                                  \/ i - Len(a) \in 1..Len(p) /\ h[i] = p[i - Len(a)]
      BY <1>3, <1>5, Joined
    <2>2. Len(p) \in Nat
      BY <1>5
    <2> HIDE DEF h
    <2>3. \A i \in 1..Len(a) : i = 1
      BY <1>3
    <2>4. QED
      BY <1>3, <2>1, <2>2, <2>3
  <1>7. \A i \in 1..Len(a) : a[i].role # "result"
    <2>1. \A i \in 1..Len(a) : a[i] = u
      BY <1>3
    <2>2. QED
      BY <1>1, <2>1
  <1>8. Well(h)
    <2>1. \A i \in 1..Len(a), j \in 1..Len(p) :
              a[i].role = "result" /\ p[j].role = "result" /\ a[i].turn = p[j].turn =>
                  a[i].calls # p[j].calls
      BY <1>7
    <2>2. QED
      BY <1>2, <1>4, <2>1, WellJoin
  <1> HIDE DEF h
  <1>9. ASSUME NEW i \in 1..Len(h)
        PROVE  h[i].turn <= b /\ (h[i].role = "result" => h[i].calls = {"todo"})
    <2>1. CASE i = 1 /\ h[i] = u
      BY <1>1, <2>1
    <2>2. CASE i - 1 \in 1..Len(p) /\ h[i] = p[i - 1]
      <3>1. PICK j \in 1..Len(s) : p[i - 1].turn = s[j].turn
        BY <1>4, <2>2
      <3>2. s[j].turn <= b
        BY DEF UpTo
      <3>3. p[i - 1].role = "result" => p[i - 1].calls = {"todo"}
        BY <1>4, <2>2
      <3>4. QED
        BY <2>2, <3>1, <3>2, <3>3
    <2>3. QED
      BY <1>6, <2>1, <2>2
  <1>10. QED
    BY <1>6, <1>8, <1>9 DEF UpTo, h, a, u, p

(* The compaction of the tool calls: what is left is accepted, of the turns   *)
(* it was of, and shorter.                                                    *)
LEMMA ToolHistoryWell ==
    ASSUME NEW s, Well(s), NEW w, CanCompact(s, w), NEW b \in Nat, UpTo(s, b)
    PROVE  /\ Well(ToolHistory(s, w)) /\ UpTo(ToolHistory(s, w), b)
           /\ Len(ToolHistory(s, w)) < Len(s)
  <1> DEFINE clean == Strip(s, w)
             cut == CutPlace(clean)
             x == SteersOf(SubSeq(clean, 1, cut - 1))
             h == <<User(x)>> \o LastPair(s)
             t == SubSeq(clean, cut, Len(clean))
  <1>1. /\ Well(clean) /\ Len(clean) <= Len(s)
        /\ \A i \in 1..Len(clean) :
               /\ \E j \in 1..Len(s) : clean[i].turn = s[j].turn
               /\ clean[i].role = "result" => "todo" \notin clean[i].calls
        /\ (\E j \in 1..Len(s) : s[j].role = "result" /\ s[j].calls = {"todo"})
               => Len(clean) < Len(s)
    BY StripWell
  <1>2. Len(CallPlaces(clean)) >= 3
    BY DEF CanCompact
  <1>3. ToolHistory(s, w) = h \o t
    BY DEF ToolHistory
  <1> HIDE DEF clean
  <1>4. clean \in Seq(Messages) /\ Len(clean) \in Nat /\ Len(s) \in Nat
    BY <1>1 DEF Well
  <1>5. cut \in 1..Len(clean) /\ clean[cut].role = "call" /\ cut > 4
    BY <1>1, <1>2, CutWhere
  <1> HIDE DEF cut
  <1>6. SubSeq(clean, 1, cut - 1) \in Seq(Messages)
    BY <1>4, <1>5
  <1>7. x \in SUBSET Steers
    BY <1>6, SteersAre
  <1> HIDE DEF x
  <1>8. /\ Well(h) /\ UpTo(h, b) /\ Len(h) = 1 + Len(LastPair(s))
        /\ \A i \in 1..Len(h) : h[i].role = "result" => h[i].calls = {"todo"}
    BY <1>7, HeadWell
  <1>9. /\ Well(t) /\ Len(t) = Len(clean) - cut + 1
        /\ \A i \in 1..Len(t) : cut + i - 1 \in 1..Len(clean) /\ t[i] = clean[cut + i - 1]
    BY <1>1, <1>5, WellSuffix
  <1> HIDE DEF h, t
  <1>10. ASSUME NEW i \in 1..Len(t)
         PROVE  t[i].turn <= b /\ (t[i].role = "result" => "todo" \notin t[i].calls)
    <2>1. cut + i - 1 \in 1..Len(clean) /\ t[i] = clean[cut + i - 1]
      BY <1>9
    <2>2. PICK j \in 1..Len(s) : clean[cut + i - 1].turn = s[j].turn
      BY <1>1, <2>1
    <2>3. s[j].turn <= b
      BY DEF UpTo
    <2>4. QED
      BY <1>1, <2>1, <2>2, <2>3
  <1>11. \A i \in 1..Len(h), j \in 1..Len(t) :
             h[i].role = "result" /\ t[j].role = "result" /\ h[i].turn = t[j].turn =>
                 h[i].calls # t[j].calls
    BY <1>8, <1>10
  <1>12. Well(h \o t)
    BY <1>8, <1>9, <1>11, WellJoin
  <1>13. h \in Seq(Messages) /\ t \in Seq(Messages) /\ Len(h) \in Nat /\ Len(t) \in Nat
    BY <1>8, <1>9 DEF Well
  <1>14. /\ Len(h \o t) = Len(h) + Len(t)
         /\ \A i \in 1..Len(h \o t) : \/ i \in 1..Len(h) /\ (h \o t)[i] = h[i]
                                      \/ i - Len(h) \in 1..Len(t) /\ (h \o t)[i] = t[i - Len(h)]
    BY <1>13
  <1>15. UpTo(h \o t, b)
    BY <1>8, <1>10, <1>14 DEF UpTo
  <1>16. /\ Len(LastPair(s)) \in {0, 2}
         /\ Len(LastPair(s)) # 0 => Len(clean) < Len(s)
    BY <1>1, PairWell
  <1>17. Len(h \o t) < Len(s)
    <2>1. Len(h \o t) = 1 + Len(LastPair(s)) + (Len(clean) - cut + 1)
      BY <1>4, <1>5, <1>8, <1>9, <1>14, <1>16
    <2>2. Len(clean) <= Len(s)
      BY <1>1
    <2>3. CASE Len(LastPair(s)) = 0
      BY <1>4, <1>5, <2>1, <2>2, <2>3
    <2>4. CASE Len(LastPair(s)) = 2
      <3>1. Len(clean) < Len(s)
        BY <1>16, <2>4
      <3>2. QED
        BY <1>4, <1>5, <2>1, <2>4, <3>1
    <2>5. QED
      BY <1>16, <2>3, <2>4
  <1>18. QED
    BY <1>3, <1>12, <1>15, <1>17

(* What another model gets.                                                   *)
LEMMA RawWell ==
    ASSUME NEW s, Well(s), NEW w, NEW b \in Nat, UpTo(s, b)
    PROVE  Well(RawToolFallback(s, w)) /\ UpTo(RawToolFallback(s, w), b)
  <1>1. CASE HasResults(s, w)
    <2>1. {} \in SUBSET Steers
      OBVIOUS
    <2>2. RawToolFallback(s, w) = <<User({})>> \o LastPair(s)
      BY <1>1 DEF RawToolFallback
    <2>3. QED
      BY <2>1, <2>2, HeadWell
  <1>2. CASE ~HasResults(s, w)
    <2> DEFINE none == <<>>
    <2>1. /\ none \in Seq(Messages) /\ Len(none) = 0
          /\ \A i \in 1..Len(none) : none[i].role \in {"text", "user"}
      OBVIOUS
    <2> HIDE DEF none
    <2>2. Well(none)
      BY <2>1, WellQuiet
    <2>3. UpTo(none, b)
      BY <2>1 DEF UpTo
    <2>4. RawToolFallback(s, w) = none
      BY <1>2 DEF RawToolFallback, none
    <2>5. QED
      BY <2>2, <2>3, <2>4
  <1> QED
    BY <1>1, <1>2

-----------------------------------------------------------------------------
(* The messages of a run at every step.                                       *)

Fine(s, b) == Well(s) /\ UpTo(s, b)

(* A batch is under way: the calls c came after the messages h.               *)
InBatch(h, c) ==
    /\ hist = Append(h, Call(Turn, c)) /\ c \in SUBSET Kinds /\ c # {}
    /\ Fine(h, Turn - 1)

(* What the loop sends, or will send, is accepted, and is of the turns so     *)
(* far; a call whose results are not there yet is the only and the last one.  *)
Requests ==
    /\ left \in 0..Limit /\ queue \subseteq Steers
    /\ fails \in Nat /\ old \in [many : Nat, long : BOOLEAN]
    /\ pc \in {"sending", "tools"} => left < Limit
    /\ pc = "sending" => Fine(hist, Turn - 1)
    /\ pc \in {"top", "waiting", "fallback", "summary"} => Fine(hist, Turn)
    /\ pc = "tools" => \E h, c : InBatch(h, c)

(* Later turns do no harm.                                                    *)
LEMMA FineLater ==
    ASSUME NEW s, NEW b \in Nat, NEW d \in Nat, b <= d, Fine(s, b)
    PROVE  Fine(s, d)
  <1>1. \A i \in 1..Len(s) : s[i] \in Messages
    BY DEF Fine, Well
  <1>2. \A i \in 1..Len(s) : s[i].turn \in Nat
    BY <1>1 DEF Messages
  <1>3. \A i \in 1..Len(s) : s[i].turn <= b
    BY DEF Fine, UpTo
  <1>4. QED
    BY <1>2, <1>3 DEF Fine, UpTo

(* A text or steers at the end.                                               *)
LEMMA FineAppend ==
    ASSUME NEW s, NEW b \in Nat, Fine(s, b), NEW m \in Messages, m.role \in {"text", "user"},
           m.turn <= b
    PROVE  Fine(Append(s, m), b)
  <1>1. Well(Append(s, m))
    BY WellOne DEF Fine
  <1>2. s \in Seq(Messages)
    BY DEF Fine, Well
  <1>3. \A i \in 1..Len(Append(s, m)) :
            (i \in 1..Len(s) /\ Append(s, m)[i] = s[i]) \/ Append(s, m)[i] = m
    BY <1>2
  <1>4. UpTo(Append(s, m), b)
    BY <1>3 DEF Fine, UpTo
  <1>5. QED
    BY <1>1, <1>4 DEF Fine

LEMMA FineInjected ==
    ASSUME NEW s, NEW b \in Nat, Fine(s, b), queue \subseteq Steers
    PROVE  Fine(Injected(s), b)
  <1>1. /\ User(queue) \in Messages /\ User(queue).role = "user"
        /\ User(queue).turn = 0
    <2>1. queue \in SUBSET Steers /\ 0 \in Nat /\ {} \in SUBSET Kinds /\ "todo" \in Kinds
      BY DEF Kinds
    <2>2. QED
      BY <2>1, MessagesMade
  <1>2. Fine(Append(s, User(queue)), b)
    BY <1>1, FineAppend
  <1>3. QED
    BY <1>2 DEF Injected

(* The results after their calls.                                             *)
LEMMA FineBatch ==
    ASSUME NEW t \in Nat, t > 0, NEW h, Fine(h, t - 1), NEW c \in SUBSET Kinds, c # {}
    PROVE  /\ Last(Append(h, Call(t, c))) = Call(t, c)
           /\ Fine(Append(h, Call(t, c)) \o ResultsOf(Call(t, c)), t)
  <1> DEFINE m == Call(t, c)
             r == ResultsOf(m)
             b == <<m>> \o r
  <1>1. m \in Messages
    <2>1. {} \in SUBSET Steers /\ "todo" \in Kinds
      BY DEF Kinds
    <2>2. QED
      BY <2>1, MessagesMade
  <1>2. Well(b) /\ r \in Seq(Messages) /\ \A i \in 1..Len(b) : b[i].turn = t
    BY WellBatch
  <1>3. h \in Seq(Messages)
    BY DEF Fine, Well
  <1> HIDE DEF m, r
  <1>4. Append(h, m) \o r = h \o b
    <2>1. /\ Append(h, m) \o r \in Seq(Messages) /\ h \o b \in Seq(Messages)
          /\ Len(Append(h, m) \o r) = Len(h) + 1 + Len(r) /\ Len(h \o b) = Len(h) + 1 + Len(r)
          /\ Len(h) \in Nat /\ Len(r) \in Nat
      BY <1>1, <1>2, <1>3
    <2>2. \A i \in 1..Len(h) : (Append(h, m) \o r)[i] = h[i] /\ (h \o b)[i] = h[i]
      BY <1>1, <1>2, <1>3
    <2>3. (Append(h, m) \o r)[Len(h) + 1] = m /\ (h \o b)[Len(h) + 1] = m
      BY <1>1, <1>2, <1>3
    <2>4. \A i \in (Len(h) + 2)..(Len(h) + 1 + Len(r)) :
              (Append(h, m) \o r)[i] = r[i - Len(h) - 1] /\ (h \o b)[i] = r[i - Len(h) - 1]
      BY <1>1, <1>2, <1>3, SMTT(60)
    <2>5. \A i \in 1..(Len(h) + 1 + Len(r)) :
              i \in 1..Len(h) \/ i = Len(h) + 1 \/ i \in (Len(h) + 2)..(Len(h) + 1 + Len(r))
      BY <2>1
    <2>6. \A i \in 1..(Len(h) + 1 + Len(r)) : (Append(h, m) \o r)[i] = (h \o b)[i]
      BY <2>2, <2>3, <2>4, <2>5
    <2>7. QED
      BY <2>1, <2>6
  <1> HIDE DEF b
  <1>5. \A i \in 1..Len(h) : h[i] \in Messages /\ h[i].turn <= t - 1
    BY DEF Fine, UpTo, Well
  <1>6. \A i \in 1..Len(h) : h[i].turn \in Nat /\ h[i].turn <= t /\ h[i].turn # t
    BY <1>5 DEF Messages
  <1>7. Well(h \o b)
    <2>1. \A i \in 1..Len(h), j \in 1..Len(b) :
              h[i].role = "result" /\ b[j].role = "result" /\ h[i].turn = b[j].turn =>
                  h[i].calls # b[j].calls
      BY <1>2, <1>6
    <2>2. QED
      BY <1>2, <2>1, WellJoin DEF Fine
  <1>8. b \in Seq(Messages)
    BY <1>2 DEF Well
  <1>9. UpTo(h \o b, t)
    <2>1. \A i \in 1..Len(h \o b) : \/ i \in 1..Len(h) /\ (h \o b)[i] = h[i]
                                    \/ i - Len(h) \in 1..Len(b) /\ (h \o b)[i] = b[i - Len(h)]
      BY <1>3, <1>8, Joined
    <2>2. \A i \in 1..Len(b) : b[i].turn <= t
      BY <1>2
    <2>3. QED
      BY <1>6, <2>1, <2>2 DEF UpTo
  <1>10. Last(Append(h, m)) = m
    BY <1>1, <1>3 DEF Last
  <1>11. QED
    BY <1>4, <1>7, <1>9, <1>10 DEF Fine, m, r

(* What the compactions and the trimming leave of messages that are fine.     *)
LEMMA FineShorter ==
    ASSUME NEW s, NEW b \in Nat, Fine(s, b)
    PROVE  /\ CanCompact(s, spoken) => /\ Fine(ToolHistory(s, spoken), b)
                                       /\ Len(ToolHistory(s, spoken)) < Len(s)
           /\ s # <<>> => Fine(TrimTools(s), b) /\ Len(TrimTools(s)) < Len(s)
           /\ Fine(RawToolFallback(s, spoken), b)
           /\ Len(s) \in Nat
  <1>1. Well(s) /\ UpTo(s, b) /\ Len(s) \in Nat
    <2>1. Well(s) /\ UpTo(s, b)
      BY DEF Fine
    <2>2. Len(s) \in Nat
      BY <2>1 DEF Well
    <2>3. QED
      BY <2>1, <2>2
  <1>2. ASSUME CanCompact(s, spoken)
        PROVE  /\ Fine(ToolHistory(s, spoken), b)
               /\ Len(ToolHistory(s, spoken)) < Len(s)
    <2>1. /\ Well(ToolHistory(s, spoken)) /\ UpTo(ToolHistory(s, spoken), b)
          /\ Len(ToolHistory(s, spoken)) < Len(s)
      BY <1>1, <1>2, ToolHistoryWell
    <2>2. QED
      BY <2>1 DEF Fine
  <1>3. ASSUME s # <<>>
        PROVE  Fine(TrimTools(s), b) /\ Len(TrimTools(s)) < Len(s)
    <2>1. /\ Well(TrimTools(s)) /\ Len(TrimTools(s)) < Len(s)
          /\ \A i \in 1..Len(TrimTools(s)) :
                 \E j \in 1..Len(s) : TrimTools(s)[i].turn = s[j].turn
      BY <1>1, <1>3, TrimWell
    <2>2. UpTo(TrimTools(s), b)
      BY <1>1, <2>1 DEF UpTo
    <2>3. QED
      BY <2>1, <2>2 DEF Fine
  <1>4. Fine(RawToolFallback(s, spoken), b)
    BY <1>1, RawWell DEF Fine
  <1>5. QED
    BY <1>1, <1>2, <1>3, <1>4

(* A compaction shortens messages and keeps them fine.                        *)
LEMMA CompactFine ==
    ASSUME NEW s, NEW b \in Nat, Fine(s, b), old \in [many : Nat, long : BOOLEAN],
           CompactHistory(s)
    PROVE  /\ Fine(hist', b) /\ old' \in [many : Nat, long : BOOLEAN]
           /\ old'.many + (IF old'.long THEN 1 ELSE 0) + Len(hist')
                  < old.many + (IF old.long THEN 1 ELSE 0) + Len(s)
  <1>1. Len(s) \in Nat /\ old.many \in Nat /\ old.long \in BOOLEAN
    BY DEF Fine, Well
  <1>2. CASE Extracts(s)
    <2>1. old'.many = 1 /\ old'.long = FALSE /\ hist' = s /\ old.many > 0 /\ old.long
            /\ old' \in [many : Nat, long : BOOLEAN]
      BY <1>2 DEF Extracts
    <2>2. QED
      BY <1>1, <2>1
  <1>3. CASE Compacts(s)
    <2>1. old'.many = 0 /\ old'.long = FALSE /\ hist' = ToolHistory(s, spoken)
            /\ CanCompact(s, spoken) /\ old' \in [many : Nat, long : BOOLEAN]
      BY <1>3 DEF Compacts
    <2>2. Fine(hist', b) /\ Len(hist') < Len(s)
      BY <2>1, FineShorter
    <2>3. Len(hist') \in Nat
      BY <2>2 DEF Fine, Well
    <2>4. QED
      BY <1>1, <2>1, <2>2, <2>3
  <1> QED
    BY <1>2, <1>3 DEF CompactHistory

(* Trimming shortens what is not empty.                                       *)
LEMMA TrimFine ==
    ASSUME NEW b \in Nat, Fine(hist, b), old \in [many : Nat, long : BOOLEAN],
           ~(old.many = 0 /\ hist = <<>>), Trim
    PROVE  /\ Fine(hist', b) /\ old' \in [many : Nat, long : BOOLEAN]
           /\ Weight' < Weight
  <1>1. Len(hist) \in Nat /\ old.many \in Nat /\ old.long \in BOOLEAN
    BY DEF Fine, Well
  <1>2. CASE old.many > 0
    <2> DEFINE d == Min({2, old.many})
    <2>1. d \in Nat /\ d > 0 /\ d <= old.many
      <3>1. d \in {2, old.many} /\ d <= old.many
        BY <1>1, OfTwo
      <3>2. QED
        BY <1>1, <1>2, <3>1
    <2>2. old' = [old EXCEPT !.many = @ - d] /\ hist' = hist
      BY <1>2 DEF Trim
    <2> HIDE DEF d
    <2>3. old'.many = old.many - d /\ old'.long = old.long
            /\ old' \in [many : Nat, long : BOOLEAN]
      BY <1>1, <2>1, <2>2
    <2>4. QED
      BY <1>1, <2>1, <2>2, <2>3 DEF Weight
  <1>3. CASE ~(old.many > 0)
    <2>1. hist # <<>> /\ old' = old /\ hist' = TrimTools(hist)
      BY <1>1, <1>3 DEF Trim
    <2>2. Fine(hist', b) /\ Len(hist') < Len(hist)
      BY <2>1, FineShorter
    <2>3. Len(hist') \in Nat
      BY <2>2 DEF Fine, Well
    <2>4. QED
      BY <1>1, <2>1, <2>2, <2>3 DEF Weight
  <1> QED
    BY <1>2, <1>3

LEMMA RequestsStep == Requests /\ [Next]_vars => Requests'
  <1> SUFFICES ASSUME Requests, [Next]_vars PROVE Requests'
    OBVIOUS
  <1>1. /\ left \in 0..Limit /\ queue \subseteq Steers
        /\ fails \in Nat /\ old \in [many : Nat, long : BOOLEAN] /\ Limit \in Nat
        /\ pc \in {"sending", "tools"} => left < Limit
        /\ Turn \in Nat /\ Turn = Limit - left
        /\ pc \in {"sending", "tools"} => Turn > 0 /\ Turn - 1 \in Nat
    BY LoopAssumption DEF Requests, Turn
  <1>2. /\ pc = "sending" => Fine(hist, Turn - 1) /\ Fine(hist, Turn)
        /\ pc \in {"top", "waiting", "fallback", "summary"} => Fine(hist, Turn)
        /\ pc = "tools" => \E h, c : InBatch(h, c)
    <2>1. pc = "sending" => Fine(hist, Turn - 1)
      BY DEF Requests
    <2>2. ASSUME pc = "sending" PROVE Fine(hist, Turn)
      <3>1. Turn - 1 \in Nat /\ Turn - 1 <= Turn /\ Fine(hist, Turn - 1)
        BY <1>1, <2>1, <2>2
      <3>2. QED
        BY <1>1, <3>1, FineLater
    <2>3. QED
      BY <2>1, <2>2 DEF Requests
  <1>3. ASSUME left' = left PROVE Turn' = Turn
    BY <1>3 DEF Turn
  <1> HIDE DEF Turn
  \* A step that leaves the messages alone and sends nothing.
  <1>4. ASSUME left' = left, queue' \subseteq Steers, fails' \in Nat,
               old' = old, hist' = hist,
               \/ pc' \in {"leaving", "ended"}
               \/ /\ pc \in {"top", "sending", "waiting", "fallback", "summary"}
                  /\ pc' \in {"top", "waiting", "fallback", "summary"}
        PROVE  Requests'
    <2>1. Turn' = Turn /\ left' \in 0..Limit /\ old' \in [many : Nat, long : BOOLEAN]
      BY <1>1, <1>3, <1>4
    <2>2. pc' \notin {"sending", "tools"}
      BY <1>4
    <2>3. pc' \in {"top", "waiting", "fallback", "summary"} => Fine(hist', Turn')
      BY <1>2, <1>4, <2>1
    <2>4. QED
      BY <1>4, <2>1, <2>2, <2>3 DEF Requests
  \* A step that shortens them, or makes them anew.
  <1>5. ASSUME left' = left, queue' = queue, fails' \in Nat, pc' = "top",
               old' \in [many : Nat, long : BOOLEAN], Fine(hist', Turn)
        PROVE  Requests'
    <2>1. Turn' = Turn /\ left' \in 0..Limit /\ queue' \subseteq Steers
      BY <1>1, <1>3, <1>5
    <2>2. QED
      BY <1>5, <2>1 DEF Requests
  <1> USE DEF sending, routing, memory, steered, record, finish
  <1>6. CASE Begin
    <2>1. pc = "top" /\ left > 0 /\ pc' = "sending" /\ left' = left - 1 /\ queue' = {}
            /\ fails' = fails
      BY <1>6 DEF Begin, GetSteer
    <2>2. Fine(Injected(hist), Turn)
      BY <1>1, <1>2, <2>1, FineInjected
    <2>3. Fine(hist', Turn) /\ old' \in [many : Nat, long : BOOLEAN]
      <3>1. CASE CompactHistory(Injected(hist))
        BY <1>1, <2>2, <3>1, CompactFine
      <3>2. CASE CompactFails(Injected(hist))
        BY <1>1, <2>2, <3>2 DEF CompactFails
      <3>3. CASE hist' = Injected(hist) /\ UNCHANGED old
        BY <1>1, <2>2, <3>3
      <3>4. QED
        BY <1>6, <3>1, <3>2, <3>3 DEF Begin
    <2>4. left' \in 0..Limit /\ left' < Limit /\ Turn' - 1 = Turn
      BY <1>1, <2>1 DEF Turn
    <2>5. QED
      BY <1>1, <2>1, <2>3, <2>4 DEF Requests
  <1>7. CASE Canceled
    BY <1>1, <1>4, <1>7 DEF Canceled, LeaveCanceled, Leave
  <1>8. CASE NothingLeft
    BY <1>1, <1>4, <1>8 DEF NothingLeft, GiveUp, Leave
  <1>9. CASE ContextLength
    <2>1. /\ pc = "sending" /\ pc' = "top" /\ left' = left /\ queue' = queue
          /\ fails' = fails + 1 /\ ~(old.many = 0 /\ hist = <<>>)
      BY <1>9 DEF ContextLength, SendFailed
    <2>2. Fine(hist, Turn)
      BY <1>2, <2>1
    <2>3. CASE CompactHistory(hist)
      <3>1. Fine(hist', Turn) /\ old' \in [many : Nat, long : BOOLEAN]
        BY <1>1, <2>2, <2>3, CompactFine
      <3>2. QED
        BY <1>1, <1>5, <2>1, <3>1
    <2>4. CASE Trim
      <3>1. Fine(hist', Turn) /\ old' \in [many : Nat, long : BOOLEAN]
        BY <1>1, <2>1, <2>2, <2>4, TrimFine
      <3>2. QED
        BY <1>1, <1>5, <2>1, <3>1
    <2>5. QED
      BY <1>9, <2>3, <2>4 DEF ContextLength
  <1>10. CASE TimedOut
    BY <1>1, <1>4, <1>10 DEF TimedOut, SendFailed
  <1>11. CASE RateLimited
    BY <1>1, <1>4, <1>11 DEF RateLimited, SendFailed
  <1>12. CASE Refused
    BY <1>1, <1>4, <1>12 DEF Refused, SendFailed
  <1>13. CASE Waited
    BY <1>1, <1>4, <1>13 DEF Waited
  <1>14. CASE NextRound
    BY <1>1, <1>4, <1>14 DEF NextRound
  <1>15. CASE NoneAlive
    BY <1>1, <1>4, <1>15 DEF NoneAlive, GiveUp, Leave
  <1>16. CASE NoFallback
    BY <1>1, <1>4, <1>16 DEF NoFallback, GiveUp, Leave
  <1>17. ASSUME NEW m \in Models, MoveOn(m) PROVE Requests'
    <2>1. /\ pc = "fallback" /\ pc' = "top" /\ left' = left /\ queue' = queue /\ fails' = 0
          /\ hist' = RawToolFallback(hist, spoken)
          /\ old' = IF HasResults(hist, spoken) THEN [many |-> 0, long |-> FALSE] ELSE old
      BY <1>17 DEF MoveOn, Reset
    <2>2. Fine(hist', Turn)
      BY <1>1, <1>2, <2>1, FineShorter
    <2>3. old' \in [many : Nat, long : BOOLEAN]
      BY <1>1, <2>1
    <2>4. QED
      BY <1>5, <2>1, <2>2, <2>3
  <1>18. CASE Empty
    BY <1>1, <1>4, <1>18 DEF Empty, Answered, Leave
  <1>19. CASE HandOff
    BY <1>1, <1>4, <1>19 DEF HandOff, Answered, Leave
  <1>20. CASE Ban
    BY <1>1, <1>4, <1>20 DEF Ban, Answered, Leave
  <1>21. CASE Unexpected
    BY <1>1, <1>4, <1>21 DEF Unexpected, Answered, Leave
  <1>22. CASE Answer
    <2>1. /\ pc = "sending" /\ left' = left /\ queue' = {} /\ fails' = 0 /\ old' = old
          /\ hist' = Injected(Append(hist, Text(Turn)))
          /\ pc' \in {"top", "leaving"}
      BY <1>22 DEF Answer, Answered, GetSteer, Leave
    <2>2. Text(Turn) \in Messages /\ Text(Turn).role = "text" /\ Text(Turn).turn = Turn
      <3>1. {} \in SUBSET Steers /\ {} \in SUBSET Kinds /\ "todo" \in Kinds
        BY DEF Kinds
      <3>2. QED
        BY <1>1, <3>1, MessagesMade, ZenonT(60)
    <2>3. Turn <= Turn
      BY <1>1
    <2>4. Fine(Append(hist, Text(Turn)), Turn)
      BY <1>1, <1>2, <2>1, <2>2, <2>3, FineAppend
    <2>5. Fine(hist', Turn)
      BY <1>1, <2>1, <2>4, FineInjected
    <2>6. Turn' = Turn /\ left' \in 0..Limit
      BY <1>1, <1>3, <2>1
    <2>7. QED
      BY <1>1, <2>1, <2>5, <2>6 DEF Requests
  <1>23. ASSUME NEW c \in (SUBSET Kinds) \ {{}}, CallTools(c) PROVE Requests'
    <2>1. /\ pc = "sending" /\ left' = left /\ queue' = queue /\ fails' = 0 /\ old' = old
          /\ hist' = Append(hist, Call(Turn, c)) /\ pc' = "tools"
      BY <1>23 DEF CallTools, Answered
    <2>2. Turn' = Turn /\ left' \in 0..Limit /\ left' < Limit
      BY <1>1, <1>3, <2>1
    <2>3. PICK h : h = hist
      OBVIOUS
    <2>4. Fine(h, Turn - 1)
      BY <1>2, <2>1, <2>3
    <2>5. hist' = Append(h, Call(Turn', c)) /\ Fine(h, Turn' - 1)
      BY <2>1, <2>2, <2>3, <2>4
    <2>6. InBatch(h, c)'
      BY <2>5 DEF InBatch
    <2>7. (\E g, d : InBatch(g, d))'
      BY <2>6
    <2>8. QED
      BY <1>1, <2>1, <2>2, <2>7 DEF Requests
  <1>24. CASE ToolsDone
    <2>1. /\ pc = "tools" /\ left' = left /\ queue' = queue /\ fails' = fails /\ old' = old
          /\ hist' = hist \o ResultsOf(Last(hist)) /\ pc' = "top"
      BY <1>24 DEF ToolsDone
    <2>2. PICK h, c : InBatch(h, c)
      BY <1>2, <2>1
    <2>3. hist = Append(h, Call(Turn, c)) /\ c \in SUBSET Kinds /\ c # {} /\ Fine(h, Turn - 1)
      BY <2>2 DEF InBatch
    <2>4. Turn \in Nat /\ Turn > 0
      BY <1>1, <2>1
    <2>5. /\ Last(Append(h, Call(Turn, c))) = Call(Turn, c)
          /\ Fine(Append(h, Call(Turn, c)) \o ResultsOf(Call(Turn, c)), Turn)
      BY <2>3, <2>4, FineBatch
    <2>6. Fine(hist', Turn)
      BY <2>1, <2>3, <2>5
    <2>7. QED
      BY <1>1, <1>5, <2>1, <2>6
  <1>25. CASE ToolsAsk
    BY <1>1, <1>4, <1>25 DEF ToolsAsk, Leave
  <1>26. CASE ToolsStop
    BY <1>1, <1>4, <1>26 DEF ToolsStop, Leave
  <1>27. CASE Exhausted
    BY <1>1, <1>4, <1>27 DEF Exhausted
  <1>28. CASE Summary
    BY <1>1, <1>4, <1>28 DEF Summary, Leave
  <1>29. CASE Close
    BY <1>1, <1>4, <1>29 DEF Close
  \* A step of others.
  <1>30. ASSUME left' = left, queue' \subseteq Steers, UNCHANGED <<pc, fails, old, hist>>
         PROVE  Requests'
    <2>1. Turn' = Turn
      BY <1>3, <1>30
    <2>2. \A h, c : InBatch(h, c) => InBatch(h, c)'
      BY <1>30, <2>1 DEF InBatch
    <2>3. QED
      BY <1>30, <2>1, <2>2 DEF Requests
  <1>31. ASSUME NEW s \in Steers, AppendSteer(s) PROVE Requests'
    BY <1>1, <1>30, <1>31 DEF AppendSteer
  <1>32. ASSUME NEW cause \in {"user", "pause"}, Cancel(cause) PROVE Requests'
    BY <1>1, <1>30, <1>32 DEF Cancel
  <1>33. CASE UNCHANGED vars
    BY <1>1, <1>30, <1>33 DEF vars
  <1> QED
    BY <1>6, <1>7, <1>8, <1>9, <1>10, <1>11, <1>12, <1>13, <1>14, <1>15, <1>16, <1>17, <1>18,
       <1>19, <1>20, <1>21, <1>22, <1>23, <1>24, <1>25, <1>26, <1>27, <1>28, <1>29, <1>31,
       <1>32, <1>33 DEF Next, AskModel, Reply, Batch, Finish, Environment

LEMMA RequestsKept == Spec => []Requests
  <1>1. Init => Requests
    <2> SUFFICES ASSUME Init PROVE Requests
      OBVIOUS
    <2>1. /\ pc = "top" /\ left = Limit /\ queue = {} /\ fails = 0 /\ hist = <<>>
          /\ old \in [many : Nat, long : BOOLEAN] /\ Limit \in Nat
      BY LoopAssumption DEF Init
    <2> DEFINE none == <<>>
    <2>2. /\ none \in Seq(Messages) /\ Len(none) = 0
          /\ \A i \in 1..Len(none) : none[i].role \in {"text", "user"}
      OBVIOUS
    <2>3. hist = none
      BY <2>1
    <2> HIDE DEF none
    <2>4. Well(none)
      BY <2>2, WellQuiet
    <2>5. UpTo(none, Turn)
      BY <2>2 DEF UpTo
    <2>6. Fine(hist, Turn)
      BY <2>3, <2>4, <2>5 DEF Fine
    <2>7. QED
      BY <2>1, <2>6 DEF Requests
  <1>2. QED
    BY <1>1, RequestsStep, PTL DEF Spec

(* Whatever the loop did to the messages, every request has each call with    *)
(* its result and each result with its call: compactHistory, TrimFallback,    *)
(* RawToolFallback and the tools leave nothing half.                          *)
THEOREM RequestsAccepted == Spec => []RequestsPaired
  <1>1. Requests => RequestsPaired
    <2>1. ASSUME Requests, pc \in {"sending", "summary"} PROVE Paired(hist)
      <3>1. Well(hist)
        BY <2>1 DEF Requests, Fine
      <3>2. QED
        BY <3>1, WellPaired
    <2>2. QED
      BY <2>1 DEF RequestsPaired
  <1>2. QED
    BY <1>1, RequestsKept, PTL

LEMMA ShrinkStep == Requests /\ [Next]_vars => (fails' > fails => Weight' < Weight)
  <1> SUFFICES ASSUME Requests, [Next]_vars, fails' > fails PROVE Weight' < Weight
    OBVIOUS
  <1>1. fails \in Nat /\ old \in [many : Nat, long : BOOLEAN]
    BY DEF Requests
  <1> USE DEF sending, routing, memory, steered, record, finish
  <1>2. fails' # fails /\ fails' # 0
    BY <1>1
  <1>3. CASE ContextLength
    <2>1. pc = "sending" /\ ~(old.many = 0 /\ hist = <<>>)
      BY <1>3 DEF ContextLength, SendFailed
    <2>2. Fine(hist, Turn - 1) /\ Turn - 1 \in Nat
      BY <2>1, LoopAssumption DEF Requests, Turn
    <2> HIDE DEF Turn
    <2>3. CASE CompactHistory(hist)
      BY <1>1, <2>2, <2>3, CompactFine DEF Weight
    <2>4. CASE Trim
      BY <1>1, <2>1, <2>2, <2>4, TrimFine
    <2>5. QED
      BY <1>3, <2>3, <2>4 DEF ContextLength
  <1>4. ASSUME ~ContextLength PROVE fails' = fails \/ fails' = 0
    <2>1. ASSUME AskModel PROVE fails' = fails \/ fails' = 0
      BY <1>4, <2>1 DEF AskModel, Begin, Canceled, LeaveCanceled, NothingLeft, TimedOut,
           RateLimited, Refused, Waited, NextRound, NoneAlive, NoFallback, MoveOn, Reset
    <2>2. ASSUME Reply PROVE fails' = 0
      BY <2>2 DEF Reply, Empty, HandOff, Ban, Answer, Unexpected, CallTools, Answered
    <2>3. ASSUME Batch \/ Finish \/ Environment \/ UNCHANGED vars PROVE fails' = fails
      BY <2>3 DEF Batch, ToolsDone, ToolsAsk, ToolsStop, Finish, Exhausted, Summary, Close,
           Environment, AppendSteer, Cancel, vars
    <2>4. QED
      BY <2>1, <2>2, <2>3 DEF Next
  <1>5. QED
    BY <1>2, <1>3, <1>4

(* A request that was refused for its length is shorter the next time, or     *)
(* there is none: compaction and trimming always take something.              *)
THEOREM RefusalsShrink == Spec => ContextErrorsShrink
  <1>1. Requests /\ [Next]_vars => [fails' > fails => Weight' < Weight]_vars
    BY ShrinkStep
  <1>2. QED
    BY <1>1, RequestsKept, PTL DEF Spec, ContextErrorsShrink

-----------------------------------------------------------------------------
(* Types.                                                                     *)

(* What TypeOK says beyond the other invariants, and that the counters which  *)
(* end the run are below their limits while it goes on.                       *)
Bounds ==
    /\ pc \in {"top", "sending", "waiting", "fallback", "tools", "summary", "leaving", "ended"}
    /\ round \in 0..(MaxRetry + 1) /\ empties \in 0..(MaxRetry + 1)
    /\ pc \notin {"leaving", "ended"} => round <= MaxRetry /\ empties <= MaxRetry
    /\ timeouts \in 0..MaxRetry /\ rates \in 0..RateRetries
    /\ failed \in BOOLEAN /\ extracted \in BOOLEAN /\ full \in BOOLEAN
    /\ taken \subseteq Steers /\ heard \subseteq Steers
    /\ file \in {"open", "replied", "gone"} /\ tidy \in BOOLEAN
    /\ cancel \in {"no", "user", "pause"}
    /\ result \in {"none", "nil", "asked", "canceled", "error"}

(* Every step keeps to them; what is sent holds no steer but the user's.      *)
LEMMA BoundsStep == Bounds /\ Requests /\ [Next]_vars => Bounds'
  <1> SUFFICES ASSUME Bounds, Requests, [Next]_vars PROVE Bounds'
    OBVIOUS
  <1>a. queue \subseteq Steers /\ MaxRetry \in Nat /\ RateRetries \in Nat
    BY LoopAssumption DEF Requests
  <1>b. pc = "sending" => SteersOf(hist) \subseteq Steers
    <2>1. ASSUME pc = "sending" PROVE hist \in Seq(Messages)
      BY <2>1 DEF Requests, Fine, Well
    <2>2. QED
      BY <2>1, SteersAre
  <1> USE DEF Bounds, sending, routing, memory, steered, record, finish
  <1>1. CASE Begin
    BY <1>1, <1>a DEF Begin, GetSteer, CompactHistory, CompactFails
  <1>2. CASE Canceled
    BY <1>2, <1>a DEF Canceled, LeaveCanceled, Leave
  <1>3. CASE NothingLeft
    BY <1>3, <1>a DEF NothingLeft, SendFailed, GiveUp, Leave, FinalizePending
  <1>4. CASE ContextLength
    BY <1>4, <1>a DEF ContextLength, SendFailed, CompactHistory
  <1>5. CASE TimedOut
    BY <1>5, <1>a DEF TimedOut, SendFailed, MayRetry
  <1>6. CASE RateLimited
    BY <1>6, <1>a DEF RateLimited, SendFailed
  <1>7. CASE Refused
    BY <1>7, <1>a DEF Refused, SendFailed
  <1>8. CASE Waited
    BY <1>8, <1>a DEF Waited
  <1>9. CASE NextRound
    BY <1>9, <1>a DEF NextRound
  <1>10. CASE NoneAlive
    BY <1>10, <1>a DEF NoneAlive, GiveUp, Leave, FinalizePending
  <1>11. CASE NoFallback
    BY <1>11, <1>a DEF NoFallback, GiveUp, Leave, FinalizePending
  <1>12. ASSUME NEW m \in Models, MoveOn(m) PROVE Bounds'
    <2>1. /\ pc' = "top" /\ timeouts' = 0 /\ rates' = 0 /\ empties' = 0 /\ failed' = FALSE
          /\ UNCHANGED <<round, extracted, full, taken, heard, file, tidy, cancel, result>>
      BY <1>12 DEF MoveOn, Reset
    <2>2. pc = "fallback"
      BY <1>12 DEF MoveOn
    <2>3. 0 \in 0..MaxRetry /\ 0 \in 0..RateRetries /\ 0 \in 0..(MaxRetry + 1) /\ 0 <= MaxRetry
      BY <1>a
    <2>4. QED
      BY <2>1, <2>2, <2>3, ZenonT(60)
  <1>13. CASE Empty
    BY <1>13, <1>a, <1>b DEF Empty, Answered, Leave, FinalizePending
  <1>14. CASE HandOff
    BY <1>14, <1>a, <1>b DEF HandOff, Answered, Leave
  <1>15. CASE Ban
    BY <1>15, <1>a, <1>b DEF Ban, Answered, Leave, FinalizePending
  <1>16. CASE Answer
    <2>1. /\ pc = "sending" /\ pc' \in {"top", "leaving"}
          /\ timeouts' = 0 /\ rates' = 0 /\ empties' = 0 /\ full' \in BOOLEAN
          /\ heard' = heard \cup SteersOf(hist) /\ taken' = taken \cup queue
          /\ file' \in {"gone", "replied"} /\ tidy' \in {tidy, TRUE} /\ result' \in {result, "nil"}
          /\ UNCHANGED <<round, failed, extracted, cancel>>
      BY <1>16 DEF Answer, Answered, GetSteer, Leave, FinalizePending
    <2>2. 0 \in 0..MaxRetry /\ 0 \in 0..RateRetries /\ 0 \in 0..(MaxRetry + 1) /\ 0 <= MaxRetry
      BY <1>a
    <2>3. heard' \subseteq Steers /\ taken' \subseteq Steers
      BY <1>a, <1>b, <2>1
    <2>4. QED
      BY <2>1, <2>2, <2>3, ZenonT(60)
  <1>17. CASE Unexpected
    BY <1>17, <1>a, <1>b DEF Unexpected, Answered, Leave
  <1>18. ASSUME NEW calls \in SUBSET Kinds, CallTools(calls) PROVE Bounds'
    BY <1>18, <1>a, <1>b DEF CallTools, Answered
  <1>19. CASE ToolsDone
    BY <1>19, <1>a DEF ToolsDone
  <1>20. CASE ToolsAsk
    BY <1>20, <1>a DEF ToolsAsk, Leave
  <1>21. CASE ToolsStop
    BY <1>21, <1>a DEF ToolsStop, Leave
  <1>22. CASE Exhausted
    BY <1>22, <1>a DEF Exhausted
  <1>23. CASE Summary
    BY <1>23, <1>a DEF Summary, Leave, FinalizePending
  <1>24. CASE Close
    BY <1>24, <1>a DEF Close
  <1>25. ASSUME NEW s \in Steers, AppendSteer(s) PROVE Bounds'
    BY <1>25, <1>a DEF AppendSteer, Running
  <1>26. ASSUME NEW cause \in {"user", "pause"}, Cancel(cause) PROVE Bounds'
    BY <1>26, <1>a DEF Cancel, Running
  <1>27. CASE UNCHANGED vars
    BY <1>27, <1>a DEF vars
  <1> QED
    BY <1>1, <1>2, <1>3, <1>4, <1>5, <1>6, <1>7, <1>8, <1>9, <1>10, <1>11, <1>12, <1>13,
       <1>14, <1>15, <1>16, <1>17, <1>18, <1>19, <1>20, <1>21, <1>22, <1>23, <1>24, <1>25,
       <1>26, <1>27, ZenonT(60)
       DEF Next, AskModel, Reply, Batch, Finish, Environment

(* Every variable keeps to its kind and its bounds.                           *)
THEOREM TypeCorrect == Spec => []TypeOK
  <1>1. Init => ProvidersLeft /\ EndsKept /\ Bounds
    <2>1. Init => ProvidersLeft
      BY LoopAssumption DEF Init, ProvidersLeft, NoProviderTwice
    <2>2. Init => EndsKept
      BY DEF Init, EndsKept
    <2>3. Init => Bounds
      <3> SUFFICES ASSUME Init PROVE Bounds
        OBVIOUS
      <3>1. /\ round = 0 /\ empties = 0 /\ timeouts = 0 /\ rates = 0
            /\ MaxRetry \in Nat /\ RateRetries \in Nat
        BY LoopAssumption DEF Init
      <3>2. /\ round \in 0..(MaxRetry + 1) /\ empties \in 0..(MaxRetry + 1)
            /\ round <= MaxRetry /\ empties <= MaxRetry
            /\ timeouts \in 0..MaxRetry /\ rates \in 0..RateRetries
        BY <3>1
      <3>3. /\ pc = "top" /\ failed = FALSE /\ extracted = FALSE /\ full = FALSE /\ tidy = FALSE
            /\ taken = {} /\ heard = {} /\ file = "open" /\ cancel = "no" /\ result = "none"
        BY DEF Init
      <3>4. QED
        BY <3>2, <3>3 DEF Bounds
    <2>4. QED
      BY <2>1, <2>2, <2>3
  <1>2. ProvidersLeft /\ EndsKept /\ Bounds /\ Requests => TypeOK
    <2> SUFFICES ASSUME ProvidersLeft, EndsKept, Bounds, Requests PROVE TypeOK
      OBVIOUS
    <2>1. ends \in 0..1
      BY DEF EndsKept
    <2>2. model \in Models /\ pool \subseteq Models /\ asked \in Seq(Models)
      BY DEF ProvidersLeft
    <2>3. /\ left \in 0..Limit /\ fails \in Nat /\ old \in [many : Nat, long : BOOLEAN]
          /\ queue \subseteq Steers
      BY DEF Requests
    <2>4. QED
      BY <2>1, <2>2, <2>3 DEF Bounds, TypeOK
  <1> QED
    BY <1>1, <1>2, ProvidersStep, EndsStep, BoundsStep, RequestsKept, PTL DEF Spec
================================================================================
