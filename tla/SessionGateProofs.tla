-------------------------- MODULE SessionGateProofs --------------------------
(* What SessionGate promises for any number of requests and sessions: its     *)
(* types, that a session's tokens are those of the runs inside it, that       *)
(* no more runs are inside than the channel has room for, that FindTemp hands *)
(* out no session that is run in, that no session is left running by its last *)
(* run, and that a steer is injected once and lost only with its session's    *)
(* list.                                                                      *)
(*                                                                            *)
(* The counts of runningEntries are cardinalities, as the tokens are; an      *)
(* entry in runningMap is kept alive by a run that counts or will count on    *)
(* it, or by the one that will delete it.  A steer is nowhere, in one list or *)
(* in one inbox; its list is its session's until ClearSteer.                  *)

EXTENDS SessionGate, FiniteSetTheorems, SequenceTheorems, TLAPS

Inside == {"marking", "running", "drain", "leaving"}
CountedStates == {"running", "drain", "leaving"}
Counted(e) == {r \in Requests : pc[r] \in CountedStates /\ ent[r] = e}

(* TypeOK, with counts that may be negative. *)
Types ==
    /\ pc \in [Requests -> PCs]
    /\ home \in [Requests -> Sessions \cup {None}]
    /\ \A r \in Requests : home[r] = None <=> (r \in Legs /\ pc[r] \in {"idle", "scan"})
    /\ \A r \in Requests : pc[r] = "scan" => r \in Legs
    /\ dirs \subseteq Temps /\ todo \in [Requests -> SUBSET Temps]
    /\ claimed \subseteq Temps
    /\ runMap \in [Sessions -> Requests \cup {None}]
    /\ ent \in [Requests -> Requests \cup {None}]
    /\ \A r \in Requests : pc[r] \in {"look"} \cup Inside => ent[r] # None
    /\ count \in [Requests -> Int] /\ last \in [Requests -> BOOLEAN]
    /\ slots \in [Sessions -> 0..MaxTasks]

SteerTypes ==
    /\ steerMap \in [Sessions -> Requests \cup {None}]
    /\ note \in [Requests -> Requests \cup {None}]
    /\ \A r \in Requests : pc[r] \in {"append", "drain"} => note[r] # None
    /\ list \in [Requests -> Seq(Requests)] /\ inbox \in [Requests -> Seq(Requests)]
    /\ cleared \subseteq Requests

(* An entry belongs to the session of the run that made it. *)
EntryHomes ==
    /\ \A s \in Sessions : runMap[s] # None => home[runMap[s]] = s
    /\ \A r \in Requests : pc[r] \in Inside => home[ent[r]] = home[r]

CountsMatch == \A e \in Requests : count[e] = Cardinality(Counted(e))

(* r keeps entry e of session s: it counts on it, or is about to delete it.   *)
Keeps(r, s, e) ==
    /\ home[r] = s
    /\ \/ pc[r] \in Inside /\ ent[r] = e
       \/ pc[r] = "unmarked" /\ last[r]

EntriesAlive ==
    \A s \in Sessions : runMap[s] # None => \E r \in Requests : Keeps(r, s, runMap[s])

IInv == Types /\ SteerTypes /\ EntryHomes /\ CountsMatch /\ SlotsMatchHolders /\ EntriesAlive

-----------------------------------------------------------------------------
(* Every action keeps the types of the gate and of the run marks. *)
LEMMA TypesNext ==
    ASSUME Types, [Next]_vars
    PROVE  Types'
<1> USE GateAssumption DEF Types, Inside, PCs
<1>1. CASE UNCHANGED vars
  BY <1>1 DEF vars, GoTo, gate, marks, steer
<1>2. ASSUME NEW r \in Requests, Arrive(r) PROVE Types'
  BY <1>2 DEF Arrive, GoTo, gate, marks, steer
<1>3. ASSUME NEW r \in Requests, IsRunningLoad(r) PROVE Types'
  <2>1. CASE runMap[home[r]] = None
    BY <1>3, <2>1 DEF IsRunningLoad, GoTo, gate, marks, steer
  <2>2. CASE ~(runMap[home[r]] = None)
    BY <1>3, <2>2 DEF IsRunningLoad, GoTo, gate, marks, steer
  <2> QED BY <2>1, <2>2
<1>4. ASSUME NEW r \in Requests, IsRunningCount(r) PROVE Types'
  <2>1. CASE count[ent[r]] > 0
    BY <1>4, <2>1 DEF IsRunningCount, GoTo, gate, marks, steer
  <2>2. CASE ~(count[ent[r]] > 0)
    BY <1>4, <2>2 DEF IsRunningCount, GoTo, gate, marks, steer
  <2> QED BY <2>1, <2>2
<1>5. ASSUME NEW r \in Requests, SteerEntry(r) PROVE Types'
  <2>1. CASE r \in Steers
    BY <1>5, <2>1 DEF SteerEntry, EntryFor, GoTo, gate, marks, steer
  <2>2. CASE ~(r \in Steers)
    BY <1>5, <2>2 DEF SteerEntry, EntryFor, GoTo, gate, marks, steer
  <2> QED BY <2>1, <2>2
<1>6. ASSUME NEW r \in Requests, SteerAppend(r) PROVE Types'
  BY <1>6, ZenonT(60) DEF SteerAppend, GoTo, gate, marks, steer
<1>7. ASSUME NEW r \in Requests, FindTemp(r) PROVE Types'
  BY <1>7 DEF FindTemp, GoTo, gate, marks, steer
<1>8. ASSUME NEW r \in Requests, ClaimIdle(r) PROVE Types'
  BY <1>8, SMTT(60) DEF ClaimIdle, Idle, GoTo, gate, marks, steer
<1>9. ASSUME NEW r \in Requests, NewTemp(r) PROVE Types'
  BY <1>9 DEF NewTemp, GoTo, gate, marks, steer
<1>10. ASSUME NEW r \in Requests, Fail(r) PROVE Types'
  BY <1>10 DEF Fail, GoTo, gate, marks, steer
<1>11. ASSUME NEW r \in Requests, AddConcurrent(r) PROVE Types'
  BY <1>11 DEF AddConcurrent, Unclaim, GoTo, gate, marks, steer
<1>12. ASSUME NEW r \in Requests, TakeSlot(r) PROVE Types'
  BY <1>12 DEF TakeSlot, GoTo, gate, marks, steer
<1>13. ASSUME NEW r \in Requests, CancelQueued(r) PROVE Types'
  BY <1>13 DEF CancelQueued, GoTo, gate, marks, steer
<1>14. ASSUME NEW r \in Requests, MarkEntry(r) PROVE Types'
  BY <1>14 DEF MarkEntry, EntryFor, GoTo, gate, marks, steer
<1>15. ASSUME NEW r \in Requests, MarkCount(r) PROVE Types'
  BY <1>15 DEF MarkCount, GoTo, gate, marks, steer
<1>16. ASSUME NEW r \in Requests, SteerLoad(r) PROVE Types'
  BY <1>16 DEF SteerLoad, GoTo, gate, marks, steer
<1>17. ASSUME NEW r \in Requests, SteerDrain(r) PROVE Types'
  BY <1>17, SMTT(60) DEF SteerDrain, GoTo, gate, marks, steer
<1>18. ASSUME NEW r \in Requests, Finish(r) PROVE Types'
  BY <1>18 DEF Finish, ClearSteer, GoTo, gate, marks, steer
<1>19. ASSUME NEW r \in Requests, Unmark(r) PROVE Types'
  BY <1>19 DEF Unmark, GoTo, gate, marks, steer
<1>20. ASSUME NEW r \in Requests, DeleteEntry(r) PROVE Types'
  BY <1>20 DEF DeleteEntry, GoTo, gate, marks, steer
<1>21. ASSUME NEW r \in Requests, RemoveClaim(r) PROVE Types'
  BY <1>21 DEF RemoveClaim, Unclaim, GoTo, gate, marks, steer
<1>22. ASSUME NEW r \in Requests, ReleaseSlot(r) PROVE Types'
  BY <1>22 DEF ReleaseSlot, GoTo, gate, marks, steer
<1>23. ASSUME NEW s \in Sessions, Reset(s) PROVE Types'
  BY <1>23, SMTT(60) DEF Reset, ClearSteer, GoTo, gate, marks, steer
<1> QED
  BY <1>1, <1>2, <1>3, <1>4, <1>5, <1>6, <1>7, <1>8, <1>9, <1>10, <1>11, <1>12, <1>13, <1>14, <1>15,
     <1>16, <1>17, <1>18, <1>19, <1>20, <1>21, <1>22, <1>23, ZenonT(60) DEF Next, Enter, Proceed

(* ... and those of the steer lists. *)
LEMMA SteerTypesNext ==
    ASSUME Types, SteerTypes, [Next]_vars
    PROVE  SteerTypes'
<1> USE GateAssumption DEF Types, SteerTypes, Inside
<1>1. CASE UNCHANGED vars
  BY <1>1 DEF vars, GoTo, gate, marks, steer
<1>2. ASSUME NEW r \in Requests, Arrive(r) PROVE SteerTypes'
  BY <1>2 DEF Arrive, GoTo, gate, marks, steer
<1>3. ASSUME NEW r \in Requests, IsRunningLoad(r) PROVE SteerTypes'
  <2>1. CASE runMap[home[r]] = None
    BY <1>3, <2>1, SMTT(60) DEF IsRunningLoad, GoTo, gate, marks, steer
  <2>2. CASE ~(runMap[home[r]] = None)
    BY <1>3, <2>2, SMTT(60) DEF IsRunningLoad, GoTo, gate, marks, steer
  <2> QED BY <2>1, <2>2
<1>4. ASSUME NEW r \in Requests, IsRunningCount(r) PROVE SteerTypes'
  <2>1. CASE count[ent[r]] > 0
    BY <1>4, <2>1, SMTT(60) DEF IsRunningCount, GoTo, gate, marks, steer
  <2>2. CASE ~(count[ent[r]] > 0)
    BY <1>4, <2>2 DEF IsRunningCount, GoTo, gate, marks, steer
  <2> QED BY <2>1, <2>2
<1>5. ASSUME NEW r \in Requests, SteerEntry(r) PROVE SteerTypes'
  <2>1. CASE r \in Steers
    BY <1>5, <2>1, SMTT(60) DEF SteerEntry, EntryFor, GoTo, gate, marks, steer
  <2>2. CASE ~(r \in Steers)
    BY <1>5, <2>2, ZenonT(60) DEF SteerEntry, EntryFor, GoTo, gate, marks, steer
  <2> QED BY <2>1, <2>2
<1>6. ASSUME NEW r \in Requests, SteerAppend(r) PROVE SteerTypes'
  BY <1>6, SMTT(60) DEF SteerAppend, GoTo, gate, marks, steer
<1>7. ASSUME NEW r \in Requests, FindTemp(r) PROVE SteerTypes'
  BY <1>7 DEF FindTemp, GoTo, gate, marks, steer
<1>8. ASSUME NEW r \in Requests, ClaimIdle(r) PROVE SteerTypes'
  BY <1>8, SMTT(60) DEF ClaimIdle, Idle, GoTo, gate, marks, steer
<1>9. ASSUME NEW r \in Requests, NewTemp(r) PROVE SteerTypes'
  BY <1>9 DEF NewTemp, GoTo, gate, marks, steer
<1>10. ASSUME NEW r \in Requests, Fail(r) PROVE SteerTypes'
  BY <1>10 DEF Fail, GoTo, gate, marks, steer
<1>11. ASSUME NEW r \in Requests, AddConcurrent(r) PROVE SteerTypes'
  BY <1>11, ZenonT(60) DEF AddConcurrent, Unclaim, GoTo, gate, marks, steer
<1>12. ASSUME NEW r \in Requests, TakeSlot(r) PROVE SteerTypes'
  BY <1>12 DEF TakeSlot, GoTo, gate, marks, steer
<1>13. ASSUME NEW r \in Requests, CancelQueued(r) PROVE SteerTypes'
  BY <1>13 DEF CancelQueued, GoTo, gate, marks, steer
<1>14. ASSUME NEW r \in Requests, MarkEntry(r) PROVE SteerTypes'
  BY <1>14 DEF MarkEntry, EntryFor, GoTo, gate, marks, steer
<1>15. ASSUME NEW r \in Requests, MarkCount(r) PROVE SteerTypes'
  BY <1>15, ZenonT(60) DEF MarkCount, GoTo, gate, marks, steer
<1>16. ASSUME NEW r \in Requests, SteerLoad(r) PROVE SteerTypes'
  BY <1>16, ZenonT(60) DEF SteerLoad, GoTo, gate, marks, steer
<1>17. ASSUME NEW r \in Requests, SteerDrain(r) PROVE SteerTypes'
  BY <1>17, SMTT(60) DEF SteerDrain, GoTo, gate, marks, steer
<1>18. ASSUME NEW r \in Requests, Finish(r) PROVE SteerTypes'
  <2>1. home[r] \in Sessions /\ pc' = [pc EXCEPT ![r] = "leaving"]
    BY <1>18, ZenonT(60) DEF Finish, GoTo
  <2>2. /\ steerMap' = [steerMap EXCEPT ![home[r]] = None]
        /\ cleared' = cleared \cup ({steerMap[home[r]]} \ {None})
        /\ UNCHANGED <<note, list, inbox>>
    BY <1>18 DEF Finish, ClearSteer
  <2> QED BY <2>1, <2>2
<1>19. ASSUME NEW r \in Requests, Unmark(r) PROVE SteerTypes'
  BY <1>19, ZenonT(60) DEF Unmark, GoTo, gate, marks, steer
<1>20. ASSUME NEW r \in Requests, DeleteEntry(r) PROVE SteerTypes'
  BY <1>20 DEF DeleteEntry, GoTo, gate, marks, steer
<1>21. ASSUME NEW r \in Requests, RemoveClaim(r) PROVE SteerTypes'
  BY <1>21, ZenonT(60) DEF RemoveClaim, Unclaim, GoTo, gate, marks, steer
<1>22. ASSUME NEW r \in Requests, ReleaseSlot(r) PROVE SteerTypes'
  BY <1>22 DEF ReleaseSlot, GoTo, gate, marks, steer
<1>23. ASSUME NEW s \in Sessions, Reset(s) PROVE SteerTypes'
  BY <1>23, SMTT(60) DEF Reset, ClearSteer, GoTo, gate, marks, steer
<1> QED
  BY <1>1, <1>2, <1>3, <1>4, <1>5, <1>6, <1>7, <1>8, <1>9, <1>10, <1>11, <1>12, <1>13, <1>14, <1>15,
     <1>16, <1>17, <1>18, <1>19, <1>20, <1>21, <1>22, <1>23 DEF Next, Enter, Proceed

(* An entry is loaded or stored for the session of the run that made it. *)
LEMMA EntryHomesNext ==
    ASSUME Types, EntryHomes, [Next]_vars
    PROVE  EntryHomes'
<1> USE GateAssumption DEF Types, EntryHomes, Inside
<1>1. CASE UNCHANGED vars
  BY <1>1 DEF vars, GoTo, gate, marks, steer
<1>2. ASSUME NEW r \in Requests, Arrive(r) PROVE EntryHomes'
  BY <1>2 DEF Arrive, GoTo, gate, marks, steer
<1>3. ASSUME NEW r \in Requests, IsRunningLoad(r) PROVE EntryHomes'
  <2>1. CASE runMap[home[r]] = None
    BY <1>3, <2>1 DEF IsRunningLoad, GoTo, gate, marks, steer
  <2>2. CASE ~(runMap[home[r]] = None)
    BY <1>3, <2>2 DEF IsRunningLoad, GoTo, gate, marks, steer
  <2> QED BY <2>1, <2>2
<1>4. ASSUME NEW r \in Requests, IsRunningCount(r) PROVE EntryHomes'
  <2>1. CASE count[ent[r]] > 0
    BY <1>4, <2>1 DEF IsRunningCount, GoTo, gate, marks, steer
  <2>2. CASE ~(count[ent[r]] > 0)
    BY <1>4, <2>2 DEF IsRunningCount, GoTo, gate, marks, steer
  <2> QED BY <2>1, <2>2
<1>5. ASSUME NEW r \in Requests, SteerEntry(r) PROVE EntryHomes'
  <2>1. CASE r \in Steers
    BY <1>5, <2>1 DEF SteerEntry, EntryFor, GoTo, gate, marks, steer
  <2>2. CASE ~(r \in Steers)
    BY <1>5, <2>2 DEF SteerEntry, EntryFor, GoTo, gate, marks, steer
  <2> QED BY <2>1, <2>2
<1>6. ASSUME NEW r \in Requests, SteerAppend(r) PROVE EntryHomes'
  BY <1>6 DEF SteerAppend, GoTo, gate, marks, steer
<1>7. ASSUME NEW r \in Requests, FindTemp(r) PROVE EntryHomes'
  BY <1>7 DEF FindTemp, GoTo, gate, marks, steer
<1>8. ASSUME NEW r \in Requests, ClaimIdle(r) PROVE EntryHomes'
  BY <1>8 DEF ClaimIdle, Idle, GoTo, gate, marks, steer
<1>9. ASSUME NEW r \in Requests, NewTemp(r) PROVE EntryHomes'
  BY <1>9 DEF NewTemp, GoTo, gate, marks, steer
<1>10. ASSUME NEW r \in Requests, Fail(r) PROVE EntryHomes'
  BY <1>10 DEF Fail, GoTo, gate, marks, steer
<1>11. ASSUME NEW r \in Requests, AddConcurrent(r) PROVE EntryHomes'
  BY <1>11 DEF AddConcurrent, Unclaim, GoTo, gate, marks, steer
<1>12. ASSUME NEW r \in Requests, TakeSlot(r) PROVE EntryHomes'
  BY <1>12 DEF TakeSlot, GoTo, gate, marks, steer
<1>13. ASSUME NEW r \in Requests, CancelQueued(r) PROVE EntryHomes'
  BY <1>13 DEF CancelQueued, GoTo, gate, marks, steer
<1>14. ASSUME NEW r \in Requests, MarkEntry(r) PROVE EntryHomes'
  BY <1>14 DEF MarkEntry, EntryFor, GoTo, gate, marks, steer
<1>15. ASSUME NEW r \in Requests, MarkCount(r) PROVE EntryHomes'
  BY <1>15 DEF MarkCount, GoTo, gate, marks, steer
<1>16. ASSUME NEW r \in Requests, SteerLoad(r) PROVE EntryHomes'
  BY <1>16 DEF SteerLoad, GoTo, gate, marks, steer
<1>17. ASSUME NEW r \in Requests, SteerDrain(r) PROVE EntryHomes'
  BY <1>17 DEF SteerDrain, GoTo, gate, marks, steer
<1>18. ASSUME NEW r \in Requests, Finish(r) PROVE EntryHomes'
  BY <1>18 DEF Finish, ClearSteer, GoTo, gate, marks, steer
<1>19. ASSUME NEW r \in Requests, Unmark(r) PROVE EntryHomes'
  BY <1>19 DEF Unmark, GoTo, gate, marks, steer
<1>20. ASSUME NEW r \in Requests, DeleteEntry(r) PROVE EntryHomes'
  BY <1>20 DEF DeleteEntry, GoTo, gate, marks, steer
<1>21. ASSUME NEW r \in Requests, RemoveClaim(r) PROVE EntryHomes'
  BY <1>21 DEF RemoveClaim, Unclaim, GoTo, gate, marks, steer
<1>22. ASSUME NEW r \in Requests, ReleaseSlot(r) PROVE EntryHomes'
  BY <1>22 DEF ReleaseSlot, GoTo, gate, marks, steer
<1>23. ASSUME NEW s \in Sessions, Reset(s) PROVE EntryHomes'
  BY <1>23 DEF Reset, ClearSteer, GoTo, gate, marks, steer
<1> QED
  BY <1>1, <1>2, <1>3, <1>4, <1>5, <1>6, <1>7, <1>8, <1>9, <1>10, <1>11, <1>12, <1>13, <1>14, <1>15,
     <1>16, <1>17, <1>18, <1>19, <1>20, <1>21, <1>22, <1>23 DEF Next, Enter, Proceed

(* The requests in some set of states, with a fixed entry or session, are     *)
(* finitely many.                                                             *)
LEMMA FiniteSubsets ==
    /\ \A e \in Requests : IsFiniteSet(Counted(e))
    /\ \A s \in Sessions : IsFiniteSet(Holders(s))
BY GateAssumption, FS_Subset DEF Counted, Holders

(* A step that moves no request into or out of the counted states, nor from   *)
(* one entry to another, keeps the counts.                                    *)
SameCounted ==
    /\ UNCHANGED count
    /\ \A q \in Requests : pc'[q] \in CountedStates <=> pc[q] \in CountedStates
    /\ \A q \in Requests : pc[q] \in CountedStates => ent'[q] = ent[q]

LEMMA CountsKept ==
    ASSUME CountsMatch, SameCounted
    PROVE  CountsMatch'
<1>1. \A e \in Requests : Counted(e)' = Counted(e)
  BY DEF SameCounted, Counted
<1> QED BY <1>1 DEF CountsMatch, SameCounted

(* markRunning and its undo count each run once. *)
LEMMA CountsNext ==
    ASSUME Types, CountsMatch, [Next]_vars
    PROVE  CountsMatch'
<1> USE GateAssumption
<1>1. CASE UNCHANGED vars
  <2>1. SameCounted
    BY <1>1 DEF SameCounted, CountedStates, vars, GoTo, gate, marks, steer
  <2> QED BY <2>1, CountsKept
<1>2. ASSUME NEW r \in Requests, Arrive(r) PROVE CountsMatch'
  <2>1. SameCounted
    BY <1>2 DEF Types, Inside, Arrive, SameCounted, CountedStates, GoTo, gate, marks, steer
  <2> QED BY <2>1, CountsKept
<1>3. ASSUME NEW r \in Requests, IsRunningLoad(r) PROVE CountsMatch'
  <2>1. CASE runMap[home[r]] = None
    <3>1. SameCounted
      BY <1>3, <2>1 DEF Types, Inside, IsRunningLoad, SameCounted, CountedStates, GoTo, gate, marks,
         steer
    <3> QED BY <3>1, CountsKept
  <2>2. CASE ~(runMap[home[r]] = None)
    <3>1. SameCounted
      BY <1>3, <2>2 DEF Types, Inside, IsRunningLoad, SameCounted, CountedStates, GoTo, gate, marks,
         steer
    <3> QED BY <3>1, CountsKept
  <2> QED BY <2>1, <2>2
<1>4. ASSUME NEW r \in Requests, IsRunningCount(r) PROVE CountsMatch'
  <2>1. CASE count[ent[r]] > 0
    <3>1. SameCounted
      BY <1>4, <2>1 DEF Types, Inside, IsRunningCount, SameCounted, CountedStates, GoTo, gate, marks,
         steer
    <3> QED BY <3>1, CountsKept
  <2>2. CASE ~(count[ent[r]] > 0)
    <3>1. SameCounted
      BY <1>4, <2>2 DEF Types, Inside, IsRunningCount, SameCounted, CountedStates, GoTo, gate, marks,
         steer
    <3> QED BY <3>1, CountsKept
  <2> QED BY <2>1, <2>2
<1>5. ASSUME NEW r \in Requests, SteerEntry(r) PROVE CountsMatch'
  <2>1. CASE r \in Steers
    <3>1. SameCounted
      BY <1>5, <2>1 DEF Types, Inside, SteerEntry, EntryFor, SameCounted, CountedStates, GoTo, gate,
         marks, steer
    <3> QED BY <3>1, CountsKept
  <2>2. CASE ~(r \in Steers)
    <3>1. SameCounted
      BY <1>5, <2>2 DEF Types, Inside, SteerEntry, EntryFor, SameCounted, CountedStates, GoTo, gate,
         marks, steer
    <3> QED BY <3>1, CountsKept
  <2> QED BY <2>1, <2>2
<1>6. ASSUME NEW r \in Requests, SteerAppend(r) PROVE CountsMatch'
  <2>1. SameCounted
    BY <1>6 DEF Types, Inside, SteerAppend, SameCounted, CountedStates, GoTo, gate, marks, steer
  <2> QED BY <2>1, CountsKept
<1>7. ASSUME NEW r \in Requests, FindTemp(r) PROVE CountsMatch'
  <2>1. SameCounted
    BY <1>7 DEF Types, Inside, FindTemp, SameCounted, CountedStates, GoTo, gate, marks, steer
  <2> QED BY <2>1, CountsKept
<1>8. ASSUME NEW r \in Requests, ClaimIdle(r) PROVE CountsMatch'
  <2>1. SameCounted
    BY <1>8 DEF Types, Inside, ClaimIdle, Idle, SameCounted, CountedStates, GoTo, gate, marks, steer
  <2> QED BY <2>1, CountsKept
<1>9. ASSUME NEW r \in Requests, NewTemp(r) PROVE CountsMatch'
  <2>1. SameCounted
    BY <1>9 DEF Types, Inside, NewTemp, SameCounted, CountedStates, GoTo, gate, marks, steer
  <2> QED BY <2>1, CountsKept
<1>10. ASSUME NEW r \in Requests, Fail(r) PROVE CountsMatch'
  <2>1. SameCounted
    BY <1>10 DEF Types, Inside, Fail, SameCounted, CountedStates, GoTo, gate, marks, steer
  <2> QED BY <2>1, CountsKept
<1>11. ASSUME NEW r \in Requests, AddConcurrent(r) PROVE CountsMatch'
  <2>1. SameCounted
    BY <1>11 DEF Types, Inside, AddConcurrent, Unclaim, SameCounted, CountedStates, GoTo, gate,
       marks, steer
  <2> QED BY <2>1, CountsKept
<1>12. ASSUME NEW r \in Requests, TakeSlot(r) PROVE CountsMatch'
  <2>1. SameCounted
    BY <1>12 DEF Types, Inside, TakeSlot, SameCounted, CountedStates, GoTo, gate, marks, steer
  <2> QED BY <2>1, CountsKept
<1>13. ASSUME NEW r \in Requests, CancelQueued(r) PROVE CountsMatch'
  <2>1. SameCounted
    BY <1>13 DEF Types, Inside, CancelQueued, SameCounted, CountedStates, GoTo, gate, marks, steer
  <2> QED BY <2>1, CountsKept
<1>14. ASSUME NEW r \in Requests, MarkEntry(r) PROVE CountsMatch'
  <2>1. SameCounted
    BY <1>14 DEF Types, Inside, MarkEntry, EntryFor, SameCounted, CountedStates, GoTo, gate, marks,
       steer
  <2> QED BY <2>1, CountsKept
<1>15. ASSUME NEW r \in Requests, MarkCount(r) PROVE CountsMatch'
  <2>0. PICK e \in Requests : e = ent[r]
    BY <1>15 DEF Types, Inside, MarkCount, GoTo
  <2>1. count' = [count EXCEPT ![e] = @ + 1] /\ ent' = ent
    BY <1>15, <2>0 DEF MarkCount, GoTo
  <2>2. Counted(e)' = Counted(e) \cup {r} /\ r \notin Counted(e)
    BY <1>15, <2>0, <2>1 DEF Types, Counted, CountedStates, MarkCount, GoTo
  <2>3. \A f \in Requests \ {e} : Counted(f)' = Counted(f)
    BY <1>15, <2>0, <2>1 DEF Types, Counted, CountedStates, MarkCount, GoTo
  <2>4. Cardinality(Counted(e)') = Cardinality(Counted(e)) + 1
    BY <2>1, <2>2, FiniteSubsets, FS_AddElement
  <2>5. count'[e] = Cardinality(Counted(e)')
    BY <2>1, <2>4 DEF CountsMatch, Types
  <2>6. \A f \in Requests \ {e} : count'[f] = Cardinality(Counted(f)')
    BY <2>1, <2>3 DEF CountsMatch, Types
  <2>7. \A f \in Requests : (count[f] = Cardinality(Counted(f)))'
    BY <2>5, <2>6
  <2> QED BY <2>7 DEF CountsMatch
<1>16. ASSUME NEW r \in Requests, SteerLoad(r) PROVE CountsMatch'
  <2>1. SameCounted
    BY <1>16 DEF Types, Inside, SteerLoad, SameCounted, CountedStates, GoTo, gate, marks, steer
  <2> QED BY <2>1, CountsKept
<1>17. ASSUME NEW r \in Requests, SteerDrain(r) PROVE CountsMatch'
  <2>1. SameCounted
    BY <1>17 DEF Types, Inside, SteerDrain, SameCounted, CountedStates, GoTo, gate, marks, steer
  <2> QED BY <2>1, CountsKept
<1>18. ASSUME NEW r \in Requests, Finish(r) PROVE CountsMatch'
  <2>1. SameCounted
    BY <1>18 DEF Types, Inside, Finish, ClearSteer, SameCounted, CountedStates, GoTo, gate, marks, steer
  <2> QED BY <2>1, CountsKept
<1>19. ASSUME NEW r \in Requests, Unmark(r) PROVE CountsMatch'
  <2>0. PICK e \in Requests : e = ent[r]
    BY <1>19 DEF Types, Inside, Unmark, GoTo
  <2>1. count' = [count EXCEPT ![e] = @ - 1] /\ ent' = ent
    BY <1>19, <2>0 DEF Unmark, GoTo
  <2>2. Counted(e)' = Counted(e) \ {r} /\ r \in Counted(e)
    BY <1>19, <2>0, <2>1 DEF Types, Counted, CountedStates, Unmark, GoTo
  <2>3. \A f \in Requests \ {e} : Counted(f)' = Counted(f)
    BY <1>19, <2>0, <2>1 DEF Types, Counted, CountedStates, Unmark, GoTo
  <2>3a. IsFiniteSet(Counted(e))
    BY <2>1, FiniteSubsets
  <2>4. Cardinality(Counted(e)') = Cardinality(Counted(e)) - 1
    BY <2>2, <2>3a, FS_RemoveElement, ZenonT(60)
  <2>5. count'[e] = Cardinality(Counted(e)')
    BY <2>1, <2>4 DEF CountsMatch, Types
  <2>6. \A f \in Requests \ {e} : count'[f] = Cardinality(Counted(f)')
    BY <2>1, <2>3 DEF CountsMatch, Types
  <2>7. \A f \in Requests : (count[f] = Cardinality(Counted(f)))'
    BY <2>5, <2>6
  <2> QED BY <2>7 DEF CountsMatch
<1>20. ASSUME NEW r \in Requests, DeleteEntry(r) PROVE CountsMatch'
  <2>1. SameCounted
    BY <1>20 DEF Types, Inside, DeleteEntry, SameCounted, CountedStates, GoTo, gate, marks, steer
  <2> QED BY <2>1, CountsKept
<1>21. ASSUME NEW r \in Requests, RemoveClaim(r) PROVE CountsMatch'
  <2>1. SameCounted
    BY <1>21 DEF Types, Inside, RemoveClaim, Unclaim, SameCounted, CountedStates, GoTo, gate, marks,
       steer
  <2> QED BY <2>1, CountsKept
<1>22. ASSUME NEW r \in Requests, ReleaseSlot(r) PROVE CountsMatch'
  <2>1. SameCounted
    BY <1>22 DEF Types, Inside, ReleaseSlot, SameCounted, CountedStates, GoTo, gate, marks, steer
  <2> QED BY <2>1, CountsKept
<1>23. ASSUME NEW s \in Sessions, Reset(s) PROVE CountsMatch'
  <2>1. SameCounted
    BY <1>23 DEF SameCounted, CountedStates, Reset, ClearSteer, GoTo, gate, marks, steer
  <2> QED BY <2>1, CountsKept
<1> QED
  BY <1>1, <1>2, <1>3, <1>4, <1>5, <1>6, <1>7, <1>8, <1>9, <1>10, <1>11, <1>12, <1>13, <1>14, <1>15,
     <1>16, <1>17, <1>18, <1>19, <1>20, <1>21, <1>22, <1>23 DEF Next, Enter, Proceed

(* A step that moves nobody into or out of a session keeps the tokens.        *)
SameHolders ==
    /\ UNCHANGED slots
    /\ \A q \in Requests : pc'[q] \in Holding <=> pc[q] \in Holding
    /\ \A q \in Requests : pc[q] \in Holding => home'[q] = home[q]

LEMMA SlotsKept ==
    ASSUME SlotsMatchHolders, SameHolders
    PROVE  SlotsMatchHolders'
<1>1. \A s \in Sessions : Holders(s)' = Holders(s)
  BY DEF SameHolders, Holders
<1> QED BY <1>1 DEF SlotsMatchHolders, SameHolders

(* A run takes one token on its way in and returns one on its way out. *)
LEMMA SlotsNext ==
    ASSUME Types, SlotsMatchHolders, [Next]_vars
    PROVE  SlotsMatchHolders'
<1> USE GateAssumption
<1>1. CASE UNCHANGED vars
  <2>1. SameHolders
    BY <1>1 DEF SameHolders, Holding, vars, GoTo, gate, marks, steer
  <2> QED BY <2>1, SlotsKept
<1>2. ASSUME NEW r \in Requests, Arrive(r) PROVE SlotsMatchHolders'
  <2>1. SameHolders
    BY <1>2 DEF Types, Inside, Arrive, SameHolders, Holding, GoTo, gate, marks, steer
  <2> QED BY <2>1, SlotsKept
<1>3. ASSUME NEW r \in Requests, IsRunningLoad(r) PROVE SlotsMatchHolders'
  <2>1. CASE runMap[home[r]] = None
    <3>1. SameHolders
      BY <1>3, <2>1 DEF Types, Inside, IsRunningLoad, SameHolders, Holding, GoTo, gate, marks, steer
    <3> QED BY <3>1, SlotsKept
  <2>2. CASE ~(runMap[home[r]] = None)
    <3>1. SameHolders
      BY <1>3, <2>2 DEF Types, Inside, IsRunningLoad, SameHolders, Holding, GoTo, gate, marks, steer
    <3> QED BY <3>1, SlotsKept
  <2> QED BY <2>1, <2>2
<1>4. ASSUME NEW r \in Requests, IsRunningCount(r) PROVE SlotsMatchHolders'
  <2>1. CASE count[ent[r]] > 0
    <3>1. SameHolders
      BY <1>4, <2>1 DEF Types, Inside, IsRunningCount, SameHolders, Holding, GoTo, gate, marks, steer
    <3> QED BY <3>1, SlotsKept
  <2>2. CASE ~(count[ent[r]] > 0)
    <3>1. SameHolders
      BY <1>4, <2>2 DEF Types, Inside, IsRunningCount, SameHolders, Holding, GoTo, gate, marks, steer
    <3> QED BY <3>1, SlotsKept
  <2> QED BY <2>1, <2>2
<1>5. ASSUME NEW r \in Requests, SteerEntry(r) PROVE SlotsMatchHolders'
  <2>1. CASE r \in Steers
    <3>1. SameHolders
      BY <1>5, <2>1 DEF Types, Inside, SteerEntry, EntryFor, SameHolders, Holding, GoTo, gate, marks,
         steer
    <3> QED BY <3>1, SlotsKept
  <2>2. CASE ~(r \in Steers)
    <3>1. SameHolders
      BY <1>5, <2>2 DEF Types, Inside, SteerEntry, EntryFor, SameHolders, Holding, GoTo, gate, marks,
         steer
    <3> QED BY <3>1, SlotsKept
  <2> QED BY <2>1, <2>2
<1>6. ASSUME NEW r \in Requests, SteerAppend(r) PROVE SlotsMatchHolders'
  <2>1. SameHolders
    BY <1>6 DEF Types, Inside, SteerAppend, SameHolders, Holding, GoTo, gate, marks, steer
  <2> QED BY <2>1, SlotsKept
<1>7. ASSUME NEW r \in Requests, FindTemp(r) PROVE SlotsMatchHolders'
  <2>1. SameHolders
    BY <1>7 DEF Types, Inside, FindTemp, SameHolders, Holding, GoTo, gate, marks, steer
  <2> QED BY <2>1, SlotsKept
<1>8. ASSUME NEW r \in Requests, ClaimIdle(r) PROVE SlotsMatchHolders'
  <2>1. SameHolders
    BY <1>8 DEF Types, Inside, ClaimIdle, Idle, SameHolders, Holding, GoTo, gate, marks, steer
  <2> QED BY <2>1, SlotsKept
<1>9. ASSUME NEW r \in Requests, NewTemp(r) PROVE SlotsMatchHolders'
  <2>1. SameHolders
    BY <1>9 DEF Types, Inside, NewTemp, SameHolders, Holding, GoTo, gate, marks, steer
  <2> QED BY <2>1, SlotsKept
<1>10. ASSUME NEW r \in Requests, Fail(r) PROVE SlotsMatchHolders'
  <2>1. SameHolders
    BY <1>10 DEF Types, Inside, Fail, SameHolders, Holding, GoTo, gate, marks, steer
  <2> QED BY <2>1, SlotsKept
<1>11. ASSUME NEW r \in Requests, AddConcurrent(r) PROVE SlotsMatchHolders'
  <2>1. SameHolders
    BY <1>11 DEF Types, Inside, AddConcurrent, Unclaim, SameHolders, Holding, GoTo, gate, marks, steer
  <2> QED BY <2>1, SlotsKept
<1>12. ASSUME NEW r \in Requests, TakeSlot(r) PROVE SlotsMatchHolders'
  <2>0. PICK s \in Sessions : s = home[r]
    BY <1>12 DEF Types, TakeSlot, GoTo
  <2>1. slots' = [slots EXCEPT ![s] = @ + 1] /\ home' = home
    BY <1>12, <2>0 DEF TakeSlot, GoTo
  <2>2. Holders(s)' = Holders(s) \cup {r} /\ r \notin Holders(s)
    BY <1>12, <2>0, <2>1 DEF Types, Holders, Holding, TakeSlot, GoTo
  <2>3. \A t \in Sessions \ {s} : Holders(t)' = Holders(t)
    BY <1>12, <2>0, <2>1 DEF Types, Holders, Holding, TakeSlot, GoTo
  <2>4. Cardinality(Holders(s)') = Cardinality(Holders(s)) + 1
    BY <2>1, <2>2, FiniteSubsets, FS_AddElement
  <2>5. slots'[s] = Cardinality(Holders(s)')
    BY <2>1, <2>4 DEF SlotsMatchHolders, Types
  <2>6. \A t \in Sessions \ {s} : slots'[t] = Cardinality(Holders(t)')
    BY <2>1, <2>3 DEF SlotsMatchHolders, Types
  <2>7. \A t \in Sessions : (slots[t] = Cardinality(Holders(t)))'
    BY <2>5, <2>6
  <2> QED BY <2>7 DEF SlotsMatchHolders
<1>13. ASSUME NEW r \in Requests, CancelQueued(r) PROVE SlotsMatchHolders'
  <2>1. SameHolders
    BY <1>13 DEF Types, Inside, CancelQueued, SameHolders, Holding, GoTo, gate, marks, steer
  <2> QED BY <2>1, SlotsKept
<1>14. ASSUME NEW r \in Requests, MarkEntry(r) PROVE SlotsMatchHolders'
  <2>1. SameHolders
    BY <1>14 DEF Types, Inside, MarkEntry, EntryFor, SameHolders, Holding, GoTo, gate, marks, steer
  <2> QED BY <2>1, SlotsKept
<1>15. ASSUME NEW r \in Requests, MarkCount(r) PROVE SlotsMatchHolders'
  <2>1. SameHolders
    BY <1>15 DEF Types, Inside, MarkCount, SameHolders, Holding, GoTo, gate, marks, steer
  <2> QED BY <2>1, SlotsKept
<1>16. ASSUME NEW r \in Requests, SteerLoad(r) PROVE SlotsMatchHolders'
  <2>1. SameHolders
    BY <1>16 DEF Types, Inside, SteerLoad, SameHolders, Holding, GoTo, gate, marks, steer
  <2> QED BY <2>1, SlotsKept
<1>17. ASSUME NEW r \in Requests, SteerDrain(r) PROVE SlotsMatchHolders'
  <2>1. SameHolders
    BY <1>17 DEF Types, Inside, SteerDrain, SameHolders, Holding, GoTo, gate, marks, steer
  <2> QED BY <2>1, SlotsKept
<1>18. ASSUME NEW r \in Requests, Finish(r) PROVE SlotsMatchHolders'
  <2>1. SameHolders
    BY <1>18 DEF Types, Inside, Finish, ClearSteer, SameHolders, Holding, GoTo, gate, marks, steer
  <2> QED BY <2>1, SlotsKept
<1>19. ASSUME NEW r \in Requests, Unmark(r) PROVE SlotsMatchHolders'
  <2>1. SameHolders
    BY <1>19 DEF Types, Inside, Unmark, SameHolders, Holding, GoTo, gate, marks, steer
  <2> QED BY <2>1, SlotsKept
<1>20. ASSUME NEW r \in Requests, DeleteEntry(r) PROVE SlotsMatchHolders'
  <2>1. SameHolders
    BY <1>20 DEF Types, Inside, DeleteEntry, SameHolders, Holding, GoTo, gate, marks, steer
  <2> QED BY <2>1, SlotsKept
<1>21. ASSUME NEW r \in Requests, RemoveClaim(r) PROVE SlotsMatchHolders'
  <2>1. SameHolders
    BY <1>21 DEF Types, Inside, RemoveClaim, Unclaim, SameHolders, Holding, GoTo, gate, marks, steer
  <2> QED BY <2>1, SlotsKept
<1>22. ASSUME NEW r \in Requests, ReleaseSlot(r) PROVE SlotsMatchHolders'
  <2>0. PICK s \in Sessions : s = home[r]
    BY <1>22 DEF Types, ReleaseSlot, GoTo
  <2>1. home' = home /\ slots' = [slots EXCEPT ![s] = IF @ > 0 THEN @ - 1 ELSE @]
    BY <1>22, <2>0 DEF ReleaseSlot, GoTo
  <2>2. Holders(s)' = Holders(s) \ {r} /\ r \in Holders(s)
    BY <1>22, <2>0, <2>1 DEF Types, Holders, Holding, ReleaseSlot, GoTo
  <2>3. \A t \in Sessions \ {s} : Holders(t)' = Holders(t)
    BY <1>22, <2>0, <2>1 DEF Types, Holders, Holding, ReleaseSlot, GoTo
  <2>4. /\ Cardinality(Holders(s)') = Cardinality(Holders(s)) - 1
        /\ Cardinality(Holders(s)) \in Nat /\ Cardinality(Holders(s)') \in Nat
    <3>1. IsFiniteSet(Holders(s)) /\ IsFiniteSet(Holders(s) \ {r})
      BY <2>1, FiniteSubsets, FS_RemoveElement
    <3> QED BY <2>2, <3>1, FS_RemoveElement, FS_CardinalityType
  <2>5. slots[s] = Cardinality(Holders(s))
    BY <2>1 DEF SlotsMatchHolders
  <2>6. slots[s] > 0 /\ slots'[s] = slots[s] - 1
    BY <2>1, <2>4, <2>5 DEF Types
  <2>7. \A t \in Sessions \ {s} : slots'[t] = Cardinality(Holders(t)')
    BY <2>1, <2>3 DEF SlotsMatchHolders, Types
  <2>8. slots'[s] = Cardinality(Holders(s)')
    BY <2>4, <2>5, <2>6
  <2>9. \A t \in Sessions : (slots[t] = Cardinality(Holders(t)))'
    BY <2>7, <2>8
  <2> QED BY <2>9 DEF SlotsMatchHolders
<1>23. ASSUME NEW s \in Sessions, Reset(s) PROVE SlotsMatchHolders'
  <2>1. SameHolders
    BY <1>23 DEF SameHolders, Holding, Reset, ClearSteer, GoTo, gate, marks, steer
  <2> QED BY <2>1, SlotsKept
<1> QED
  BY <1>1, <1>2, <1>3, <1>4, <1>5, <1>6, <1>7, <1>8, <1>9, <1>10, <1>11, <1>12, <1>13, <1>14, <1>15,
     <1>16, <1>17, <1>18, <1>19, <1>20, <1>21, <1>22, <1>23 DEF Next, Enter, Proceed

(* An entry leaves the map with the last run that counts on it. *)
LEMMA AliveNext ==
    ASSUME Types, EntryHomes, CountsMatch, CountsMatch', EntriesAlive, [Next]_vars
    PROVE  EntriesAlive'
<1> USE GateAssumption
<1>0. ASSUME UNCHANGED runMap,
             \A q \in Requests, s \in Sessions : Keeps(q, s, runMap[s]) => Keeps(q, s, runMap[s])'
      PROVE  EntriesAlive'
  BY <1>0 DEF EntriesAlive
<1>1. CASE UNCHANGED vars
  <2>1. UNCHANGED runMap /\ \A q \in Requests, s \in Sessions : Keeps(q, s, runMap[s]) => Keeps(q, s, runMap[s])'
    BY <1>1 DEF Keeps, vars, GoTo, gate, marks, steer
  <2> QED BY <2>1, <1>0
<1>2. ASSUME NEW r \in Requests, Arrive(r) PROVE EntriesAlive'
  <2>1. UNCHANGED runMap /\ \A q \in Requests, s \in Sessions : Keeps(q, s, runMap[s]) => Keeps(q, s, runMap[s])'
    BY <1>2 DEF Types, Inside, Keeps, Arrive, GoTo, gate, marks, steer
  <2> QED BY <2>1, <1>0
<1>3. ASSUME NEW r \in Requests, IsRunningLoad(r) PROVE EntriesAlive'
  <2>1. CASE runMap[home[r]] = None
    <3>1. UNCHANGED runMap /\ \A q \in Requests, s \in Sessions : Keeps(q, s, runMap[s]) => Keeps(q, s, runMap[s])'
      BY <1>3, <2>1 DEF Types, Inside, Keeps, IsRunningLoad, GoTo, gate, marks, steer
    <3> QED BY <3>1, <1>0
  <2>2. CASE ~(runMap[home[r]] = None)
    <3>1. UNCHANGED runMap /\ \A q \in Requests, s \in Sessions : Keeps(q, s, runMap[s]) => Keeps(q, s, runMap[s])'
      BY <1>3, <2>2 DEF Types, Inside, Keeps, IsRunningLoad, GoTo, gate, marks, steer
    <3> QED BY <3>1, <1>0
  <2> QED BY <2>1, <2>2
<1>4. ASSUME NEW r \in Requests, IsRunningCount(r) PROVE EntriesAlive'
  <2>1. CASE count[ent[r]] > 0
    <3>1. UNCHANGED runMap /\ \A q \in Requests, s \in Sessions : Keeps(q, s, runMap[s]) => Keeps(q, s, runMap[s])'
      BY <1>4, <2>1 DEF Types, Inside, Keeps, IsRunningCount, GoTo, gate, marks, steer
    <3> QED BY <3>1, <1>0
  <2>2. CASE ~(count[ent[r]] > 0)
    <3>1. UNCHANGED runMap /\ \A q \in Requests, s \in Sessions : Keeps(q, s, runMap[s]) => Keeps(q, s, runMap[s])'
      BY <1>4, <2>2 DEF Types, Inside, Keeps, IsRunningCount, GoTo, gate, marks, steer
    <3> QED BY <3>1, <1>0
  <2> QED BY <2>1, <2>2
<1>5. ASSUME NEW r \in Requests, SteerEntry(r) PROVE EntriesAlive'
  <2>1. CASE r \in Steers
    <3>1. UNCHANGED runMap /\ \A q \in Requests, s \in Sessions : Keeps(q, s, runMap[s]) => Keeps(q, s, runMap[s])'
      BY <1>5, <2>1 DEF Types, Inside, Keeps, SteerEntry, EntryFor, GoTo, gate, marks, steer
    <3> QED BY <3>1, <1>0
  <2>2. CASE ~(r \in Steers)
    <3>1. UNCHANGED runMap /\ \A q \in Requests, s \in Sessions : Keeps(q, s, runMap[s]) => Keeps(q, s, runMap[s])'
      BY <1>5, <2>2 DEF Types, Inside, Keeps, SteerEntry, EntryFor, GoTo, gate, marks, steer
    <3> QED BY <3>1, <1>0
  <2> QED BY <2>1, <2>2
<1>6. ASSUME NEW r \in Requests, SteerAppend(r) PROVE EntriesAlive'
  <2>1. UNCHANGED runMap /\ \A q \in Requests, s \in Sessions : Keeps(q, s, runMap[s]) => Keeps(q, s, runMap[s])'
    BY <1>6 DEF Types, Inside, Keeps, SteerAppend, GoTo, gate, marks, steer
  <2> QED BY <2>1, <1>0
<1>7. ASSUME NEW r \in Requests, FindTemp(r) PROVE EntriesAlive'
  <2>1. UNCHANGED runMap /\ \A q \in Requests, s \in Sessions : Keeps(q, s, runMap[s]) => Keeps(q, s, runMap[s])'
    BY <1>7 DEF Types, Inside, Keeps, FindTemp, GoTo, gate, marks, steer
  <2> QED BY <2>1, <1>0
<1>8. ASSUME NEW r \in Requests, ClaimIdle(r) PROVE EntriesAlive'
  <2>1. UNCHANGED runMap /\ \A q \in Requests, s \in Sessions : Keeps(q, s, runMap[s]) => Keeps(q, s, runMap[s])'
    BY <1>8 DEF Types, Inside, Keeps, ClaimIdle, Idle, GoTo, gate, marks, steer
  <2> QED BY <2>1, <1>0
<1>9. ASSUME NEW r \in Requests, NewTemp(r) PROVE EntriesAlive'
  <2>1. UNCHANGED runMap /\ \A q \in Requests, s \in Sessions : Keeps(q, s, runMap[s]) => Keeps(q, s, runMap[s])'
    BY <1>9 DEF Types, Inside, Keeps, NewTemp, GoTo, gate, marks, steer
  <2> QED BY <2>1, <1>0
<1>10. ASSUME NEW r \in Requests, Fail(r) PROVE EntriesAlive'
  <2>1. UNCHANGED runMap /\ \A q \in Requests, s \in Sessions : Keeps(q, s, runMap[s]) => Keeps(q, s, runMap[s])'
    BY <1>10 DEF Types, Inside, Keeps, Fail, GoTo, gate, marks, steer
  <2> QED BY <2>1, <1>0
<1>11. ASSUME NEW r \in Requests, AddConcurrent(r) PROVE EntriesAlive'
  <2>1. UNCHANGED runMap /\ \A q \in Requests, s \in Sessions : Keeps(q, s, runMap[s]) => Keeps(q, s, runMap[s])'
    BY <1>11 DEF Types, Inside, Keeps, AddConcurrent, Unclaim, GoTo, gate, marks, steer
  <2> QED BY <2>1, <1>0
<1>12. ASSUME NEW r \in Requests, TakeSlot(r) PROVE EntriesAlive'
  <2>1. UNCHANGED runMap /\ \A q \in Requests, s \in Sessions : Keeps(q, s, runMap[s]) => Keeps(q, s, runMap[s])'
    BY <1>12 DEF Types, Inside, Keeps, TakeSlot, GoTo, gate, marks, steer
  <2> QED BY <2>1, <1>0
<1>13. ASSUME NEW r \in Requests, CancelQueued(r) PROVE EntriesAlive'
  <2>1. UNCHANGED runMap /\ \A q \in Requests, s \in Sessions : Keeps(q, s, runMap[s]) => Keeps(q, s, runMap[s])'
    BY <1>13 DEF Types, Inside, Keeps, CancelQueued, GoTo, gate, marks, steer
  <2> QED BY <2>1, <1>0
<1>14. ASSUME NEW r \in Requests, MarkEntry(r) PROVE EntriesAlive'
  <2>0. PICK s \in Sessions : s = home[r]
    BY <1>14 DEF Types, MarkEntry, GoTo
  <2>1. Keeps(r, s, runMap[s])'
    BY <1>14, <2>0 DEF Types, Keeps, Inside, MarkEntry, EntryFor, GoTo
  <2>2. \A t \in Sessions \ {s} : runMap'[t] = runMap[t]
    BY <1>14, <2>0 DEF Types, MarkEntry
  <2>3. \A t \in Sessions \ {s}, q \in Requests :
            Keeps(q, t, runMap[t]) => Keeps(q, t, runMap[t])'
    BY <1>14, <2>0, <2>2 DEF Types, Keeps, Inside, MarkEntry, GoTo, gate, marks
  <2> QED BY <2>1, <2>2, <2>3 DEF EntriesAlive
<1>15. ASSUME NEW r \in Requests, MarkCount(r) PROVE EntriesAlive'
  <2>1. UNCHANGED runMap /\ \A q \in Requests, s \in Sessions : Keeps(q, s, runMap[s]) => Keeps(q, s, runMap[s])'
    BY <1>15 DEF Types, Inside, Keeps, MarkCount, GoTo, gate, marks, steer
  <2> QED BY <2>1, <1>0
<1>16. ASSUME NEW r \in Requests, SteerLoad(r) PROVE EntriesAlive'
  <2>1. UNCHANGED runMap /\ \A q \in Requests, s \in Sessions : Keeps(q, s, runMap[s]) => Keeps(q, s, runMap[s])'
    BY <1>16 DEF Types, Inside, Keeps, SteerLoad, GoTo, gate, marks, steer
  <2> QED BY <2>1, <1>0
<1>17. ASSUME NEW r \in Requests, SteerDrain(r) PROVE EntriesAlive'
  <2>1. UNCHANGED runMap /\ \A q \in Requests, s \in Sessions : Keeps(q, s, runMap[s]) => Keeps(q, s, runMap[s])'
    BY <1>17 DEF Types, Inside, Keeps, SteerDrain, GoTo, gate, marks, steer
  <2> QED BY <2>1, <1>0
<1>18. ASSUME NEW r \in Requests, Finish(r) PROVE EntriesAlive'
  <2>1. UNCHANGED runMap /\ \A q \in Requests, s \in Sessions : Keeps(q, s, runMap[s]) => Keeps(q, s, runMap[s])'
    BY <1>18 DEF Types, Inside, Keeps, Finish, ClearSteer, GoTo, gate, marks, steer
  <2> QED BY <2>1, <1>0
<1>19. ASSUME NEW r \in Requests, Unmark(r) PROVE EntriesAlive'
  <2>0. PICK s \in Sessions, e \in Requests : s = home[r] /\ e = ent[r]
    BY <1>19 DEF Types, Inside, Unmark, GoTo
  <2>1. /\ runMap' = runMap /\ ent' = ent /\ home' = home
        /\ pc' = [pc EXCEPT ![r] = "unmarked"]
        /\ last' = [last EXCEPT ![r] = count'[e] = 0]
    BY <1>19, <2>0 DEF Unmark, GoTo
  <2>2. \A q \in Requests \ {r}, t \in Sessions :
            Keeps(q, t, runMap[t]) => Keeps(q, t, runMap[t])'
    BY <2>1 DEF Types, Keeps, Inside
  <2>3. SUFFICES ASSUME NEW t \in Sessions, runMap[t] # None, Keeps(r, t, runMap[t])
                 PROVE  \E q \in Requests : Keeps(q, t, runMap[t])'
    BY <2>1, <2>2 DEF EntriesAlive
  <2>4. t = s /\ runMap[t] = e
    BY <1>19, <2>0, <2>3 DEF Keeps, Unmark, GoTo
  <2>5. CASE count'[e] = 0
    <3>1. Keeps(r, t, runMap[t])'
      BY <2>0, <2>1, <2>4, <2>5, ZenonT(60) DEF Types, Keeps
    <3> QED BY <3>1
  <2>6. CASE count'[e] # 0
    <3>1. count'[e] = Cardinality(Counted(e)')
      BY DEF CountsMatch
    <3>2. Counted(e)' # {}
      BY <3>1, <2>6, FS_EmptySet
    <3>3. PICK q \in Requests : pc'[q] \in CountedStates /\ ent'[q] = e
      BY <3>2 DEF Counted
    <3>4. pc[q] \in Inside /\ ent[q] = e /\ pc[r] \in Inside
      BY <1>19, <2>1, <3>3 DEF Types, Inside, CountedStates, Unmark, GoTo
    <3>5. home[q] = s
      BY <2>0, <3>4 DEF EntryHomes
    <3>6. Keeps(q, t, runMap[t])'
      BY <2>1, <2>4, <3>3, <3>5 DEF Keeps, Inside, CountedStates
    <3> QED BY <3>6
  <2> QED BY <2>5, <2>6
<1>20. ASSUME NEW r \in Requests, DeleteEntry(r) PROVE EntriesAlive'
  <2>0. PICK s \in Sessions : s = home[r]
    BY <1>20 DEF Types, DeleteEntry, GoTo
  <2>1. CASE last[r]
    <3>1. runMap' = [runMap EXCEPT ![s] = None]
      BY <1>20, <2>0, <2>1 DEF DeleteEntry
    <3>2. \A t \in Sessions \ {s}, q \in Requests :
              Keeps(q, t, runMap[t]) => Keeps(q, t, runMap[t])'
      BY <1>20, <2>0, <3>1 DEF Types, Keeps, Inside, DeleteEntry, GoTo, gate, marks
    <3> QED BY <3>1, <3>2 DEF EntriesAlive, Types
  <2>2. CASE ~last[r]
    <3>1. runMap' = runMap
      BY <1>20, <2>0, <2>2 DEF DeleteEntry, Types
    <3>2. \A q \in Requests, t \in Sessions : Keeps(q, t, runMap[t]) => Keeps(q, t, runMap[t])'
      BY <1>20, <2>2, <3>1 DEF Types, Keeps, Inside, DeleteEntry, GoTo, gate, marks
    <3> QED BY <3>1, <3>2, <1>0
  <2> QED BY <2>1, <2>2
<1>21. ASSUME NEW r \in Requests, RemoveClaim(r) PROVE EntriesAlive'
  <2>1. UNCHANGED runMap /\ \A q \in Requests, s \in Sessions : Keeps(q, s, runMap[s]) => Keeps(q, s, runMap[s])'
    BY <1>21 DEF Types, Inside, Keeps, RemoveClaim, Unclaim, GoTo, gate, marks, steer
  <2> QED BY <2>1, <1>0
<1>22. ASSUME NEW r \in Requests, ReleaseSlot(r) PROVE EntriesAlive'
  <2>1. UNCHANGED runMap /\ \A q \in Requests, s \in Sessions : Keeps(q, s, runMap[s]) => Keeps(q, s, runMap[s])'
    BY <1>22 DEF Types, Inside, Keeps, ReleaseSlot, GoTo, gate, marks, steer
  <2> QED BY <2>1, <1>0
<1>23. ASSUME NEW s \in Sessions, Reset(s) PROVE EntriesAlive'
  <2>1. UNCHANGED runMap /\ \A q \in Requests, t \in Sessions : Keeps(q, t, runMap[t]) => Keeps(q, t, runMap[t])'
    BY <1>23 DEF Keeps, Reset, GoTo, gate, marks, steer
  <2> QED BY <2>1, <1>0
<1> QED
  BY <1>1, <1>2, <1>3, <1>4, <1>5, <1>6, <1>7, <1>8, <1>9, <1>10, <1>11, <1>12, <1>13, <1>14, <1>15,
     <1>16, <1>17, <1>18, <1>19, <1>20, <1>21, <1>22, <1>23 DEF Next, Enter, Proceed

-----------------------------------------------------------------------------
(* Where a steer is: nowhere, in one list, or in one run's inbox.             *)

Steering == {"append", "steered", "drain"}

At(seqOf, m, r, i) == i \in DOMAIN seqOf[r] /\ seqOf[r][i] = m

(* An entry belongs to the session of the request that made it. *)
SteerHomes ==
    /\ \A s \in Sessions : steerMap[s] # None => home[steerMap[s]] = s
    /\ \A m \in Requests : pc[m] \in Steering => note[m] \in Requests /\ home[note[m]] = home[m]

InboxOnce ==
    \A m, r, q \in Requests : \A i, j \in Nat :
        At(inbox, m, r, i) /\ At(inbox, m, q, j) => r = q /\ i = j

ListOnce ==
    \A m, r \in Requests : \A i \in Nat :
        At(list, m, r, i) => r = note[m] /\ \A j \in Nat : At(list, m, r, j) => i = j

NotBoth ==
    \A m, r, q \in Requests : \A i, j \in Nat : ~(At(inbox, m, r, i) /\ At(list, m, q, j))

OnlySteered ==
    \A m, r \in Requests : \A i \in Nat :
        At(inbox, m, r, i) \/ At(list, m, r, i) => pc[m] = "steered"

SinglePlace == InboxOnce /\ ListOnce /\ NotBoth /\ OnlySteered

(* The entry a steer is appended to is the one its session's runs load, until *)
(* the session is cleared.                                                    *)
Known(m) == note[m] \in cleared \/ steerMap[home[m]] = note[m]

Injected(m) == \E r \in Requests : home[r] = home[m] /\ Holds(inbox[r], m)

SteersKept ==
    \A m \in Requests :
        /\ pc[m] = "append" => Known(m)
        /\ pc[m] = "steered" => Injected(m) \/ (Holds(list[note[m]], m) /\ Known(m))

SteerInv == SteerHomes /\ SinglePlace /\ SteersKept

(* A step outside the steer lists that may give a leg its session. *)
LEMMA QuietSteer ==
  ASSUME Types, SteerTypes, SteerInv, UNCHANGED steer,
         \A m \in Requests : pc[m] \in Steering \/ pc'[m] \in Steering => pc'[m] = pc[m],
         \A m \in Requests : home'[m] = home[m] \/ home[m] = None
  PROVE  SteerInv'
<1>0. None \notin Requests /\ None \notin Sessions
  BY GateAssumption
<1>1. \A m \in Requests : pc[m] \in Steering => home'[m] = home[m] /\ home[m] \in Sessions
  BY DEF Types, Steering
<1>2. \A m \in Requests : home[m] # None => home'[m] = home[m]
  OBVIOUS
<1>3. SteerHomes'
  BY <1>0, <1>1, <1>2 DEF SteerInv, SteerHomes, SteerTypes, Types, steer
<1>4. SinglePlace'
  BY DEF SteerInv, SinglePlace, InboxOnce, ListOnce, NotBoth, OnlySteered, At, steer, Steering
<1>5. \A m \in Requests : pc'[m] \in {"append", "steered"} =>
          /\ pc[m] = pc'[m] /\ home'[m] = home[m] /\ home[m] \in Sessions
          /\ Known(m)' = Known(m) /\ (Injected(m) => Injected(m)')
  BY <1>0, <1>1, <1>2 DEF Known, Injected, Holds, steer, Steering
<1>6. SteersKept'
  BY <1>5 DEF SteerInv, SteersKept, steer
<1>. QED  BY <1>3, <1>4, <1>6 DEF SteerInv

LEMMA SteerEntryStep ==
  ASSUME Types, SteerTypes, SteerInv, NEW r \in Requests, SteerEntry(r)
  PROVE  SteerInv'
<1>0. PICK s \in Sessions, e \in Requests :
        /\ s = home[r] /\ e = EntryFor(steerMap, s, r)
        /\ pc[r] \in {"idle", "steer"} /\ pc' = [pc EXCEPT ![r] = "append"]
        /\ note' = [note EXCEPT ![r] = e] /\ steerMap' = [steerMap EXCEPT ![s] = e]
        /\ UNCHANGED <<home, list, inbox, cleared>>
  <2>1. home[r] \in Sessions
    BY GateAssumption DEF SteerEntry, GoTo, Types
  <2>2. EntryFor(steerMap, home[r], r) \in Requests
    BY <2>1 DEF SteerTypes, EntryFor
  <2>. QED  BY <2>1, <2>2 DEF SteerEntry, GoTo
<1>1. None \notin Requests /\ home[e] = s /\ steerMap[s] \in {None, e}
  BY <1>0, GateAssumption DEF EntryFor, SteerInv, SteerHomes, SteerTypes
<1>2. /\ pc'[r] = "append" /\ note'[r] = e /\ steerMap'[s] = e
      /\ \A m \in Requests : m # r => pc'[m] = pc[m] /\ note'[m] = note[m]
      /\ \A t \in Sessions : t # s => steerMap'[t] = steerMap[t]
  BY <1>0 DEF Types, SteerTypes
<1>3. SteerHomes'
  BY <1>0, <1>1, <1>2 DEF SteerInv, SteerHomes
<1>4. SinglePlace'
  BY <1>0, <1>2, SMTT(60) DEF SteerInv, SinglePlace, InboxOnce, ListOnce, NotBoth, OnlySteered, At
<1>5. \A m \in Requests : m # r /\ pc[m] \in Steering /\ Known(m) => Known(m)'
  BY <1>0, <1>1, <1>2 DEF Known, SteerInv, SteerHomes, Types, Steering
<1>6. Known(r)'
  BY <1>0, <1>2 DEF Known
<1>7. SteersKept'
  BY <1>0, <1>2, <1>5, <1>6 DEF SteerInv, SteersKept, Injected, Steering
<1>. QED  BY <1>3, <1>4, <1>7 DEF SteerInv

(* The entry is added to: the steer is there, and was nowhere before. *)
LEMMA SteerAppendStep ==
  ASSUME Types, SteerTypes, SteerInv, NEW r \in Requests, SteerAppend(r)
  PROVE  SteerInv'
<1>0. PICK e \in Requests :
        /\ e = note[r] /\ pc[r] = "append" /\ pc' = [pc EXCEPT ![r] = "steered"]
        /\ list' = [list EXCEPT ![e] = Append(list[e], r)]
        /\ UNCHANGED <<home, steerMap, note, inbox, cleared>>
  BY DEF SteerAppend, GoTo, SteerTypes
<1>1. /\ pc'[r] = "steered" /\ list'[e] = Append(list[e], r) /\ list[e] \in Seq(Requests)
      /\ \A m \in Requests : m # r => pc'[m] = pc[m]
      /\ \A q \in Requests : q # e => list'[q] = list[q]
  BY <1>0 DEF Types, SteerTypes
<1>2. \A m, q \in Requests : \A i \in Nat :
          At(list, m, q, i)' <=> At(list, m, q, i) \/ (m = r /\ q = e /\ i = Len(list[e]) + 1)
  <2> SUFFICES ASSUME NEW m \in Requests, NEW i \in Nat
               PROVE  At(list, m, e, i)' <=> At(list, m, e, i) \/ (m = r /\ i = Len(list[e]) + 1)
    BY <1>1, SMTT(60) DEF At
  <2>1. DOMAIN Append(list[e], r) = 1..(Len(list[e]) + 1) /\ DOMAIN list[e] = 1..Len(list[e])
    BY <1>1
  <2>2. Append(list[e], r)[Len(list[e]) + 1] = r
    BY <1>1
  <2>3. i \in 1..Len(list[e]) => Append(list[e], r)[i] = list[e][i]
    BY <1>1
  <2>. QED  BY <1>1, <2>1, <2>2, <2>3 DEF At
<1>3. \A q \in Requests, i \in Nat : ~At(inbox, r, q, i) /\ ~At(list, r, q, i)
  BY <1>0 DEF SteerInv, SinglePlace, OnlySteered
<1>4. \A m, q \in Requests : \A i \in Nat : At(inbox, m, q, i)' <=> At(inbox, m, q, i)
  BY <1>0 DEF At
<1>5. SinglePlace'
  <2>0. InboxOnce /\ OnlySteered
    BY DEF SteerInv, SinglePlace
  <2>1. InboxOnce'
    BY <1>4, <2>0 DEF InboxOnce
  <2>1a. OnlySteered'
    <3>1. ASSUME NEW m \in Requests, NEW q \in Requests, NEW i \in Nat,
                 At(inbox, m, q, i)' \/ At(list, m, q, i)'
          PROVE  pc'[m] = "steered"
      <4>1. m = r \/ pc[m] = "steered"
        BY <1>2, <1>4, <2>0, <3>1 DEF OnlySteered
      <4>. QED  BY <1>1, <4>1
    <3>. QED  BY <3>1 DEF OnlySteered
  <2>2. ASSUME NEW m \in Requests, NEW q \in Requests, NEW i \in Nat, At(list, m, q, i)'
        PROVE  q = note[m] /\ \A j \in Nat : At(list, m, q, j)' => i = j
    <3>1. CASE m = r
      BY <1>0, <1>2, <1>3, <2>2, <3>1, ZenonT(60)
    <3>2. CASE m # r
      <4>1. \A j \in Nat : At(list, m, q, j)' <=> At(list, m, q, j)
        BY <1>2, <3>2
      <4>. QED  BY <2>2, <4>1 DEF SteerInv, SinglePlace, ListOnce
    <3>. QED  BY <3>1, <3>2
  <2>3. NotBoth'
    BY <1>2, <1>3, <1>4 DEF SteerInv, SinglePlace, NotBoth
  <2>4. ListOnce'
    BY <1>0, <2>2 DEF ListOnce
  <2>. QED  BY <2>1, <2>1a, <2>3, <2>4 DEF SinglePlace
<1>6. SteerHomes'
  BY <1>0, <1>1 DEF SteerInv, SteerHomes, Steering
<1>7. \A m \in Requests : Known(m)' = Known(m) /\ Injected(m)' = Injected(m)
  BY <1>0 DEF Known, Injected
<1>8. Holds(list'[e], r)
  BY <1>1 DEF Holds
<1>9. \A m, q \in Requests : Holds(list[q], m) => Holds(list'[q], m)
  <2>1. \A m \in Requests : Holds(list[e], m) => Holds(list'[e], m)
    BY <1>1, SMTT(60) DEF Holds
  <2>. QED  BY <1>1, <2>1
<1>10. SteersKept'
  BY <1>0, <1>1, <1>7, <1>8, <1>9 DEF SteerInv, SteersKept, SteerHomes, Steering
<1>. QED  BY <1>5, <1>6, <1>10 DEF SteerInv

LEMMA SteerLoadStep ==
  ASSUME Types, SteerTypes, SteerInv, NEW r \in Requests, SteerLoad(r)
  PROVE  SteerInv'
<1>0. PICK e \in Requests :
        /\ e = steerMap[home[r]] /\ pc[r] = "running" /\ pc' = [pc EXCEPT ![r] = "drain"]
        /\ note' = [note EXCEPT ![r] = e]
        /\ UNCHANGED <<home, steerMap, list, inbox, cleared>>
  BY ZenonT(60) DEF SteerLoad, GoTo, SteerTypes, Types
<1>1. home[e] = home[r]
  BY <1>0, GateAssumption DEF SteerInv, SteerHomes, Types
<1>2. /\ pc'[r] = "drain" /\ note'[r] = e
      /\ \A m \in Requests : m # r => pc'[m] = pc[m] /\ note'[m] = note[m]
  BY <1>0 DEF Types, SteerTypes
<1>3. SteerHomes'
  BY <1>0, <1>1, <1>2 DEF SteerInv, SteerHomes, Steering
<1>4. SinglePlace'
  BY <1>0, <1>2, SMTT(60) DEF SteerInv, SinglePlace, InboxOnce, ListOnce, NotBoth, OnlySteered, At
<1>5. SteersKept'
  BY <1>0, <1>2 DEF SteerInv, SteersKept, Injected, Known
<1>. QED  BY <1>3, <1>4, <1>5 DEF SteerInv

LEMMA ConcatPlaces ==
  ASSUME NEW s \in Seq(Requests), NEW t \in Seq(Requests)
  PROVE  \E n, l \in Nat :
           /\ DOMAIN s = 1..n /\ DOMAIN t = 1..l /\ DOMAIN (s \o t) = 1..(n + l)
           /\ \A i \in 1..n : (s \o t)[i] = s[i]
           /\ \A i \in 1..l : (s \o t)[n + i] = t[i]
<1>1. PICK n \in Nat, l \in Nat : n = Len(s) /\ l = Len(t)
  OBVIOUS
<1>2. DOMAIN s = 1..n /\ DOMAIN t = 1..l
  BY <1>1
<1>3. /\ s \o t \in Seq(Requests) /\ Len(s \o t) = n + l
      /\ \A i \in 1..(n + l) : (s \o t)[i] = IF i <= n THEN s[i] ELSE t[i - n]
  BY <1>1, ConcatProperties
<1>4. DOMAIN (s \o t) = 1..(n + l)
  BY <1>3
<1>5. \A i \in 1..n : (s \o t)[i] = s[i]
  BY <1>3
<1>6. \A i \in 1..l : (s \o t)[n + i] = t[i]
  <2> SUFFICES ASSUME NEW i \in 1..l PROVE (s \o t)[n + i] = t[i]
    OBVIOUS
  <2>1. n + i \in 1..(n + l) /\ ~(n + i <= n) /\ (n + i) - n = i
    OBVIOUS
  <2>. QED  BY <1>3, <2>1
<1>. QED  BY <1>2, <1>4, <1>5, <1>6

(* What was in the entry's list moves to the end of the run's inbox. *)
LEMMA SteerDrainStep ==
  ASSUME Types, SteerTypes, SteerInv, NEW r \in Requests, SteerDrain(r)
  PROVE  SteerInv'
<1>0. PICK e \in Requests :
        /\ e = note[r] /\ pc[r] = "drain" /\ pc' = [pc EXCEPT ![r] = "running"]
        /\ inbox' = [inbox EXCEPT ![r] = inbox[r] \o list[e]]
        /\ list' = [list EXCEPT ![e] = << >>]
        /\ UNCHANGED <<home, steerMap, note, cleared>>
  BY DEF SteerDrain, GoTo, SteerTypes
<1>1. /\ pc'[r] = "running" /\ inbox'[r] = inbox[r] \o list[e] /\ list'[e] = << >>
      /\ list[e] \in Seq(Requests) /\ inbox[r] \in Seq(Requests)
      /\ \A m \in Requests : m # r => pc'[m] = pc[m] /\ inbox'[m] = inbox[m]
      /\ \A q \in Requests : q # e => list'[q] = list[q]
  BY <1>0 DEF Types, SteerTypes
<1>2. PICK n \in Nat, l \in Nat :
        /\ DOMAIN inbox[r] = 1..n /\ DOMAIN list[e] = 1..l /\ DOMAIN inbox'[r] = 1..(n + l)
        /\ \A i \in 1..n : inbox'[r][i] = inbox[r][i]
        /\ \A i \in 1..l : inbox'[r][n + i] = list[e][i]
  <2> DEFINE c == inbox[r] \o list[e]
  <2>1. \E n, l \in Nat :
          /\ DOMAIN inbox[r] = 1..n /\ DOMAIN list[e] = 1..l /\ DOMAIN c = 1..(n + l)
          /\ \A i \in 1..n : c[i] = inbox[r][i]
          /\ \A i \in 1..l : c[n + i] = list[e][i]
    BY <1>1, ConcatPlaces
  <2>2. inbox'[r] = c
    BY <1>1
  <2>. HIDE DEF c
  <2>. QED  BY <2>1, <2>2
<1>3. ASSUME NEW m \in Requests, NEW q \in Requests, NEW i \in Nat, At(inbox, m, q, i)'
      PROVE  \/ At(inbox, m, q, i)
             \/ q = r /\ \E j \in Nat : i = n + j /\ At(list, m, e, j)
  <2>1. CASE q # r
    BY <1>1, <1>3, <2>1 DEF At
  <2>2. CASE q = r /\ i <= n
    <3>1. i \in 1..n /\ inbox'[r][i] = m
      BY <1>2, <1>3, <2>2 DEF At
    <3>2. inbox[r][i] = m /\ i \in DOMAIN inbox[r]
      BY <1>2, <3>1
    <3>. QED  BY <2>2, <3>2 DEF At
  <2>3. CASE q = r /\ i > n
    <3>1. i \in 1..(n + l) /\ inbox'[r][i] = m
      BY <1>2, <1>3, <2>3 DEF At
    <3>2. PICK j \in 1..l : i = n + j
      <4>1. i - n \in 1..l /\ i = n + (i - n)
        BY <2>3, <3>1
      <4>. QED  BY <4>1
    <3>3. At(list, m, e, j)
      BY <1>2, <3>1, <3>2 DEF At
    <3>. QED  BY <2>3, <3>2, <3>3
  <2>. QED  BY <2>1, <2>2, <2>3
<1>4. ASSUME NEW m \in Requests, NEW q \in Requests, NEW i \in Nat, At(list, m, q, i)'
      PROVE  At(list, m, q, i) /\ q # e
  <2>1. i \in DOMAIN list'[q] /\ list'[q][i] = m
    BY <1>4 DEF At
  <2>2. q # e
    BY <1>1, <2>1
  <2>. QED  BY <1>1, <2>1, <2>2 DEF At
<1>5. \A m \in Requests : pc'[m] = "steered" <=> pc[m] = "steered"
  BY <1>0, <1>1
<1>6. SinglePlace'
  <2>0. InboxOnce /\ ListOnce /\ NotBoth /\ OnlySteered
    BY DEF SteerInv, SinglePlace
  <2>1. ListOnce'
    <3>1. note' = note
      BY <1>0
    <3>2. ASSUME NEW m \in Requests, NEW q \in Requests, NEW i \in Nat, At(list, m, q, i)'
          PROVE  q = note[m] /\ \A j \in Nat : At(list, m, q, j)' => i = j
      <4>1. At(list, m, q, i) /\ \A j \in Nat : At(list, m, q, j)' => At(list, m, q, j)
        BY <1>4, <3>2
      <4>. QED  BY <2>0, <4>1 DEF ListOnce
    <3>. QED  BY <3>1, <3>2 DEF ListOnce
  <2>2. OnlySteered'
    BY <1>3, <1>4, <1>5, <2>0 DEF OnlySteered
  <2>3. ASSUME NEW m \in Requests, NEW p \in Requests, NEW q \in Requests,
               NEW i \in Nat, NEW j \in Nat, At(inbox, m, p, i)', At(list, m, q, j)'
        PROVE  FALSE
    <3>1. At(list, m, q, j) /\ q # e
      BY <1>4, <2>3
    <3>2. ~At(inbox, m, p, i)
      BY <2>0, <3>1 DEF NotBoth
    <3>3. PICK k \in Nat : At(list, m, e, k)
      BY <1>3, <2>3, <3>2
    <3>. QED  BY <2>0, <3>1, <3>3 DEF ListOnce
  <2>4. ASSUME NEW m \in Requests, NEW p \in Requests, NEW q \in Requests,
               NEW i \in Nat, NEW j \in Nat, At(inbox, m, p, i)', At(inbox, m, q, j)'
        PROVE  p = q /\ i = j
    <3>1. CASE At(inbox, m, p, i)
      <4>1. \A k \in Nat : ~At(list, m, e, k)
        BY <2>0, <3>1 DEF NotBoth
      <4>2. At(inbox, m, q, j)
        BY <1>3, <2>4, <4>1
      <4>. QED  BY <2>0, <3>1, <4>2 DEF InboxOnce
    <3>2. CASE ~At(inbox, m, p, i)
      <4>1. PICK k \in Nat : p = r /\ i = n + k /\ At(list, m, e, k)
        BY <1>3, <2>4, <3>2
      <4>2. ~At(inbox, m, q, j)
        BY <2>0, <4>1 DEF NotBoth
      <4>3. PICK f \in Nat : q = r /\ j = n + f /\ At(list, m, e, f)
        BY <1>3, <2>4, <4>2
      <4>4. k = f
        BY <2>0, <4>1, <4>3 DEF ListOnce
      <4>. QED  BY <4>1, <4>3, <4>4
    <3>. QED  BY <3>1, <3>2
  <2>. QED  BY <2>1, <2>2, <2>3, <2>4 DEF SinglePlace, InboxOnce, NotBoth
<1>7. SteerHomes'
  BY <1>0, <1>1 DEF SteerInv, SteerHomes, Steering
<1>8. \A m \in Requests : Known(m)' = Known(m)
  BY <1>0 DEF Known
<1>9. \A m, q \in Requests : Holds(inbox[q], m) => Holds(inbox'[q], m)
  <2>1. \A i \in 1..n : i \in 1..(n + l)
    BY <1>2
  <2>2. \A m \in Requests : Holds(inbox[r], m) => Holds(inbox'[r], m)
    BY <1>2, <2>1 DEF Holds
  <2>. QED  BY <1>1, <2>2
<1>10. \A m \in Requests : Holds(list[e], m) => Holds(inbox'[r], m)
  <2> SUFFICES ASSUME NEW m \in Requests, NEW i \in 1..l, list[e][i] = m
               PROVE  Holds(inbox'[r], m)
    BY <1>2 DEF Holds
  <2>1. n + i \in 1..(n + l)
    BY <1>2
  <2>. QED  BY <1>2, <2>1 DEF Holds
<1>11. SteersKept'
  <2> SUFFICES ASSUME NEW m \in Requests
               PROVE  /\ pc'[m] = "append" => Known(m)'
                      /\ pc'[m] = "steered" => Injected(m)' \/ (Holds(list[note[m]], m)' /\ Known(m)')
    BY DEF SteersKept
  <2>1. pc'[m] = "append" => Known(m)'
    BY <1>0, <1>1, <1>8 DEF SteerInv, SteersKept
  <2>2. Injected(m) => Injected(m)'
    BY <1>0, <1>9 DEF Injected
  <2>3. CASE pc'[m] = "steered" /\ note[m] = e
    <3>1. home[r] = home[m]
      BY <1>0, <1>5, <2>3 DEF SteerInv, SteerHomes, Steering
    <3>2. Injected(m) \/ Holds(list[e], m)
      BY <1>5, <2>3 DEF SteerInv, SteersKept
    <3>3. Holds(list[e], m) => Injected(m)'
      BY <1>0, <1>10, <3>1 DEF Injected
    <3>. QED  BY <2>1, <2>2, <3>2, <3>3
  <2>4. CASE pc'[m] = "steered" /\ note[m] # e
    <3>1. note[m] \in Requests /\ list'[note[m]] = list[note[m]] /\ note'[m] = note[m]
      BY <1>0, <1>1, <1>5, <2>4 DEF SteerInv, SteerHomes, Steering
    <3>. QED  BY <1>5, <1>8, <2>1, <2>2, <2>4, <3>1, SMTT(60) DEF SteerInv, SteersKept
  <2>. QED  BY <2>1, <2>3, <2>4
<1>. QED  BY <1>6, <1>7, <1>11 DEF SteerInv

(* A session is cleared: its entry is forgotten, with what it holds. *)
LEMMA ClearSteerStep ==
  ASSUME Types, SteerTypes, SteerInv, NEW s \in Sessions, ClearSteer(s), home' = home,
         \A m \in Requests : pc[m] \in Steering \/ pc'[m] \in Steering => pc'[m] = pc[m]
  PROVE  SteerInv'
<1>0. /\ steerMap' = [steerMap EXCEPT ![s] = None]
      /\ cleared' = cleared \cup ({steerMap[s]} \ {None})
      /\ UNCHANGED <<note, list, inbox>>
  BY DEF ClearSteer
<1>1. steerMap'[s] = None /\ \A t \in Sessions : t # s => steerMap'[t] = steerMap[t]
  BY <1>0 DEF SteerTypes
<1>2. SteerHomes'
  BY <1>0, <1>1 DEF SteerInv, SteerHomes, Steering
<1>3. SinglePlace'
  BY <1>0 DEF SteerInv, SinglePlace, InboxOnce, ListOnce, NotBoth, OnlySteered, At, Steering
<1>4. \A m \in Requests : pc[m] \in Steering /\ Known(m) => Known(m)'
  BY <1>0, <1>1, GateAssumption DEF Known, SteerInv, SteerHomes, Types, Steering
<1>5. SteersKept'
  BY <1>0, <1>4 DEF SteerInv, SteersKept, Injected, Steering
<1>. QED  BY <1>2, <1>3, <1>5 DEF SteerInv

LEMMA SteerInit == Init => SteerInv
<1> SUFFICES ASSUME Init PROVE SteerInv
  OBVIOUS
<1>1. SteerHomes
  BY DEF Init, SteerHomes, Steering
<1>2. \A m, q \in Requests : \A i \in Nat : ~At(inbox, m, q, i) /\ ~At(list, m, q, i)
  BY DEF Init, At
<1>3. SinglePlace
  BY <1>2 DEF SinglePlace, InboxOnce, ListOnce, NotBoth, OnlySteered
<1>4. SteersKept
  BY DEF Init, SteersKept
<1>. QED  BY <1>1, <1>3, <1>4 DEF SteerInv

LEMMA SteerNext ==
  ASSUME Types, SteerTypes, SteerInv, [Next]_vars
  PROVE  SteerInv'
<1> DEFINE Quiet == /\ UNCHANGED steer
                    /\ \A m \in Requests : pc[m] \in Steering \/ pc'[m] \in Steering => pc'[m] = pc[m]
                    /\ \A m \in Requests : home'[m] = home[m] \/ home[m] = None
<1>0. Quiet => SteerInv'
  BY QuietSteer
<1> HIDE DEF Quiet
<1>1. CASE UNCHANGED vars
  BY <1>0, <1>1 DEF Quiet, vars
<1>2. ASSUME NEW r \in Requests,
             \/ Arrive(r) \/ FindTemp(r) \/ NewTemp(r) \/ Fail(r) \/ AddConcurrent(r)
             \/ TakeSlot(r) \/ CancelQueued(r) \/ ClaimIdle(r)
      PROVE  SteerInv'
  <2>1. pc[r] = "scan" => home[r] = None
    BY DEF Types
  <2>2. Quiet
    BY <1>2, <2>1 DEF Quiet, Arrive, FindTemp, NewTemp, Fail, AddConcurrent, TakeSlot, CancelQueued,
       ClaimIdle, GoTo, Types, Steering
  <2>. QED  BY <1>0, <2>2
<1>3. ASSUME NEW r \in Requests,
             \/ IsRunningLoad(r) \/ IsRunningCount(r) \/ MarkEntry(r) \/ MarkCount(r) \/ Unmark(r)
             \/ DeleteEntry(r) \/ RemoveClaim(r) \/ ReleaseSlot(r)
      PROVE  SteerInv'
  <2>1. Quiet
    BY <1>3 DEF Quiet, IsRunningLoad, IsRunningCount, MarkEntry, MarkCount, Unmark, DeleteEntry,
       RemoveClaim, ReleaseSlot, GoTo, Types, Steering
  <2>. QED  BY <1>0, <2>1
<1>4. ASSUME NEW r \in Requests, Finish(r) PROVE SteerInv'
  <2>1. PICK s \in Sessions : s = home[r]
    BY <1>4 DEF Finish, GoTo, Types
  <2>2. \A m \in Requests : pc[m] \in Steering \/ pc'[m] \in Steering => pc'[m] = pc[m]
    BY <1>4 DEF Finish, GoTo, Types, Steering
  <2>. QED  BY <1>4, <2>1, <2>2, ClearSteerStep DEF Finish
<1>5. ASSUME NEW s \in Sessions, Reset(s) PROVE SteerInv'
  BY <1>5, ClearSteerStep DEF Reset
<1>. QED
  BY <1>1, <1>2, <1>3, <1>4, <1>5, SteerEntryStep, SteerAppendStep, SteerLoadStep, SteerDrainStep
  DEF Next, Enter, Proceed

-----------------------------------------------------------------------------
LEMMA IInvInit == Init => IInv
<1> SUFFICES ASSUME Init PROVE IInv
  OBVIOUS
<1> USE GateAssumption DEF Init
<1>1. Types /\ SteerTypes
  BY EmptySeq DEF Types, SteerTypes, Inside, PCs
<1>2. EntryHomes /\ EntriesAlive
  BY DEF EntryHomes, EntriesAlive, Inside
<1>3. \A e \in Requests : Counted(e) = {}
  BY DEF Counted, CountedStates
<1>4. \A s \in Sessions : Holders(s) = {}
  BY DEF Holders, Holding
<1>5. CountsMatch /\ SlotsMatchHolders
  BY <1>3, <1>4, FS_EmptySet DEF CountsMatch, SlotsMatchHolders
<1> QED BY <1>1, <1>2, <1>5 DEF IInv

LEMMA IInvNext == IInv /\ [Next]_vars => IInv'
<1> SUFFICES ASSUME IInv, [Next]_vars PROVE IInv'
  OBVIOUS
<1>1. Types' /\ SteerTypes' /\ EntryHomes'
  BY TypesNext, SteerTypesNext, EntryHomesNext DEF IInv
<1>2. CountsMatch' /\ SlotsMatchHolders'
  BY CountsNext, SlotsNext DEF IInv
<1>3. EntriesAlive'
  BY <1>2, AliveNext DEF IInv
<1> QED BY <1>1, <1>2, <1>3 DEF IInv

THEOREM Invariance == Spec => []IInv
BY IInvInit, IInvNext, PTL DEF Spec

(* Types are kept for any number of requests and sessions; that a count is    *)
(* never negative takes that it counts runs.                                  *)
THEOREM TypeCorrect == Spec => []TypeOK
<1>1. IInv => TypeOK
  <2> SUFFICES ASSUME IInv PROVE TypeOK
    OBVIOUS
  <2>1. \A e \in Requests : count[e] \in Nat
    BY FiniteSubsets, FS_CardinalityType DEF IInv, CountsMatch
  <2>2. count \in [Requests -> Nat]
    BY <2>1 DEF IInv, Types
  <2> QED BY <2>2 DEF IInv, Types, SteerTypes, Inside, TypeOK
<1> QED BY <1>1, Invariance, PTL

(* However requests are cancelled, queue and leave, no token of a session's   *)
(* channel is lost, stolen or left over.                                      *)
THEOREM SlotsHeld == Spec => []SlotsMatchHolders
<1>1. IInv => SlotsMatchHolders
  BY DEF IInv
<1> QED BY <1>1, Invariance, PTL

(* What the channel of a session is for.                                      *)
Capped ==
    \A s \in Sessions : IsFiniteSet(Holders(s)) /\ Cardinality(Holders(s)) <= MaxTasks

(* A run that waits at a full channel waits for runs inside: the wait of      *)
(* AddConcurrent is never for a token that nobody will put back.              *)
WaitsForARun ==
    \A r \in Requests :
        pc[r] = "queued" /\ slots[home[r]] = MaxTasks => Holders(home[r]) # {}

(* The receive of RemoveConcurrent finds a token: its default, which takes    *)
(* none, is never used, and no run takes the token of another's session.      *)
ReleaseFindsToken == \A r \in Requests : pc[r] = "release" => slots[home[r]] > 0

(* No session is ever run in by more than MAX_SESSION_TASKS runs, and the     *)
(* gate neither blocks for nothing nor gives back what was not taken.         *)
THEOREM GateCaps == Spec => [](Capped /\ WaitsForARun /\ ReleaseFindsToken)
<1>1. IInv => Capped /\ WaitsForARun /\ ReleaseFindsToken
  <2> SUFFICES ASSUME IInv PROVE Capped /\ WaitsForARun /\ ReleaseFindsToken
    OBVIOUS
  <2>1. /\ \A s \in Sessions : /\ IsFiniteSet(Holders(s)) /\ slots[s] \in 0..MaxTasks
                               /\ slots[s] = Cardinality(Holders(s))
        /\ MaxTasks \in Nat \ {0}
    BY FiniteSubsets, GateAssumption DEF IInv, Types, SlotsMatchHolders
  <2>2. \A r \in Requests : pc[r] \in {"queued", "release"} => home[r] \in Sessions
    BY DEF IInv, Types
  <2>3. Capped
    BY <2>1 DEF Capped
  <2>4. ASSUME NEW r \in Requests, pc[r] = "queued", slots[home[r]] = MaxTasks
        PROVE  Holders(home[r]) # {}
    <3>1. Cardinality(Holders(home[r])) # 0
      BY <2>1, <2>2, <2>4
    <3> QED BY <3>1, FS_EmptySet
  <2>5. ASSUME NEW r \in Requests, pc[r] = "release" PROVE slots[home[r]] > 0
    <3>1. home[r] \in Sessions /\ r \in Holders(home[r])
      BY <2>2, <2>5 DEF Holders, Holding
    <3>2. Cardinality(Holders(home[r])) # 0
      BY <2>1, <3>1, FS_EmptySet
    <3> QED BY <2>1, <3>1, <3>2
  <2> QED BY <2>3, <2>4, <2>5 DEF WaitsForARun, ReleaseFindsToken
<1> QED BY <1>1, Invariance, PTL

(* Whatever the order in which runs mark, unmark and delete their entry, none *)
(* is left behind: a session whose runs are gone takes a send as a run.       *)
THEOREM NotStuck == Spec => []NeverStuckRunning
<1>1. IInv => NeverStuckRunning
  BY DEF IInv, EntriesAlive, Keeps, Inside, NeverStuckRunning, Holders, Holding
<1> QED BY <1>1, Invariance, PTL

(* No run is inside a session that FindTemp hands out.                        *)
THEOREM IdleClaims == Spec => ClaimsIdleOnly
<1>1. IInv /\ [Next]_vars => [\A s \in claimed' \ claimed : Holders(s) = {}]_vars
  <2> SUFFICES ASSUME IInv, Next, NEW s \in claimed' \ claimed PROVE Holders(s) = {}
    OBVIOUS
  <2>1. PICK r \in Requests : ClaimIdle(r)
    BY ZenonT(60) DEF Next, Enter, Proceed, Arrive, IsRunningLoad, IsRunningCount, SteerEntry,
           SteerAppend, FindTemp, ClaimIdle, NewTemp, Fail, AddConcurrent, Unclaim,
           TakeSlot, CancelQueued, MarkEntry, MarkCount, SteerLoad, SteerDrain, Finish,
           Unmark, DeleteEntry, RemoveClaim, ReleaseSlot, Reset, gate
  <2>2. slots[s] = 0 /\ s \in Sessions
    BY <2>1, GateAssumption DEF ClaimIdle, Idle, IInv, Types
  <2>3. Cardinality(Holders(s)) = 0 /\ IsFiniteSet(Holders(s))
    BY <2>2, FiniteSubsets DEF IInv, SlotsMatchHolders
  <2> QED BY <2>3, FS_EmptySet
<1> QED BY <1>1, Invariance, PTL DEF ClaimsIdleOnly, Spec

-----------------------------------------------------------------------------
LEMMA SteerInvariance == Spec => [](Types /\ SteerTypes /\ SteerInv)
<1>1. Init => Types /\ SteerTypes /\ SteerInv
  BY IInvInit, SteerInit DEF IInv
<1>2. Types /\ SteerTypes /\ SteerInv /\ [Next]_vars => (Types /\ SteerTypes /\ SteerInv)'
  BY TypesNext, SteerTypesNext, SteerNext
<1>. QED  BY <1>1, <1>2, PTL DEF Spec

LEMMA AtMostOne ==
  ASSUME NEW S, \A x, y \in S : x = y
  PROVE  IsFiniteSet(S) /\ Cardinality(S) \in {0, 1} /\ (Cardinality(S) = 1 => S # {})
<1>1. CASE S = {}
  BY <1>1, FS_EmptySet
<1>2. CASE S # {}
  <2>1. PICK x \in S : TRUE
    BY <1>2
  <2>2. S = {x}
    BY <2>1
  <2>. QED  BY <1>2, <2>2, FS_Singleton
<1>. QED  BY <1>1, <1>2

(* A steer reaches at most one run, and is never there and in a list at once, *)
(* whatever the order in which its session's runs load and drain the lists.   *)
THEOREM SteeredAtMostOnce == Spec => []SteeredOnce
<1>1. Types /\ SteerTypes /\ SteerInv => SteeredOnce
  <2> SUFFICES ASSUME SteerTypes, SinglePlace, NEW m \in Requests
               PROVE  Cardinality(Occurrences(inbox, m)) + Cardinality(Occurrences(list, m)) <= 1
    BY DEF SteerInv, SteeredOnce
  <2> DEFINE I == Occurrences(inbox, m)
             L == Occurrences(list, m)
  <2>1. \A o \in I : \E r \in Requests, i \in Nat : o = <<r, i>> /\ At(inbox, m, r, i)
    <3>1. \A r \in Requests : DOMAIN inbox[r] \subseteq Nat
      BY SMTT(60) DEF SteerTypes
    <3>. QED  BY <3>1 DEF Occurrences, At
  <2>2. \A o \in L : \E r \in Requests, i \in Nat : o = <<r, i>> /\ At(list, m, r, i)
    <3>1. \A r \in Requests : DOMAIN list[r] \subseteq Nat
      BY SMTT(60) DEF SteerTypes
    <3>. QED  BY <3>1 DEF Occurrences, At
  <2>. HIDE DEF I, L
  <2>3. \A x, y \in I : x = y
    BY <2>1 DEF SinglePlace, InboxOnce
  <2>4. \A x, y \in L : x = y
    BY <2>2 DEF SinglePlace, ListOnce
  <2>5. I = {} \/ L = {}
    BY <2>1, <2>2 DEF SinglePlace, NotBoth
  <2>6. Cardinality(I) \in {0, 1} /\ Cardinality(L) \in {0, 1}
    BY <2>3, <2>4, AtMostOne
  <2>7. Cardinality({}) = 0
    BY FS_EmptySet
  <2>8. Cardinality(I) + Cardinality(L) <= 1
    BY <2>5, <2>6, <2>7
  <2>. QED  BY <2>8 DEF I, L
<1>. QED  BY <1>1, SteerInvariance, PTL

(* An accepted steer is in the inbox of a run of its session, or in the list  *)
(* that the next run there loads; only ClearSteer can forget it.              *)
THEOREM SteersLost == Spec => []LostOnlyWhenCleared
<1>1. Types /\ SteerTypes /\ SteerInv => LostOnlyWhenCleared
  BY DEF SteerInv, SteersKept, Injected, Known, LostOnlyWhenCleared
<1>. QED  BY <1>1, SteerInvariance, PTL
=============================================================================
