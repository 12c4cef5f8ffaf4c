---------------------------- MODULE DaemonProofs ----------------------------
(* Theorems about the two services the daemon keeps beside its requests, for  *)
(* every value of their constants: the MCP clients (McpManager) first, then   *)
(* the scheduler (Scheduler).  Neither uses anything of the other.            *)
EXTENDS McpManager, Scheduler, FiniteSetTheorems, TLAPS

(* What the values are, as far as the proofs need it.  Own of an actor that   *)
(* uses or is about to store a client is one.                                 *)
Told == {None} \cup Nat \cup SUBSET Servers

Using == {"store", "list", "register", "called", "polled"}
AtServer == Using \cup {"reconnect", "remove", "connect", "refresh", "compare",
                        "disconnect", "forget"}
Elsewhere == {"idle", "done", "connectAll", "removeAll", "registerAll"}

Jobs == [step : AtServer \cup Elsewhere, server : Servers \cup {None},
         own : Clients \cup {None}, told : Told]

JobTyped(j) ==
    /\ j \in Jobs
    /\ j.step \in Using => j.own \in Clients
    /\ j.step \in AtServer => j.server \in Servers
    /\ j.step = "connectAll" => j.told \in SUBSET Servers

Typed ==
    /\ clients \in [Servers -> Clients \cup {None}]
    /\ open \subseteq Clients /\ renewals \subseteq open
    /\ DOMAIN defs = Servers /\ listed \subseteq Servers /\ gone \subseteq Servers
    /\ catalog \in [Servers -> Nat]
    /\ round \subseteq Servers \X Clients
    /\ job \in [Actors -> Jobs] /\ \A a \in Actors : JobTyped(job[a])

(* The values of the initial state.                                           *)
LEMMA InitTyped == Init => Typed
  <1> SUFFICES ASSUME Init PROVE Typed
    OBVIOUS
  <1>1. job \in [Actors -> Jobs]
    BY McpAssumption DEF Init, Job, Idle, Jobs, Told, Elsewhere, AtServer, Using
  <1>2. \A a \in Actors : JobTyped(job[a])
    BY <1>1 DEF Init, Job, Idle, AtServer, Using, JobTyped
  <1>3. QED
    BY <1>1, <1>2 DEF Init, Typed

(* What Connect chooses is a fresh client, if there is one.                   *)
LEMMA FreshOne == Fresh # {} => (CHOOSE c \in Fresh : TRUE) \in Fresh
  BY Zenon

(* A fresh client is neither open nor in anybody's hands.                     *)
LEMMA FreshIs ==
    ASSUME NEW c \in Fresh
    PROVE  /\ c \in Clients /\ c \notin open
           /\ \A s \in Servers : clients[s] # c
           /\ \A a \in Actors : job[a].own # c
  BY DEF Fresh, Own

(* What Goto and With make of a job.                                         *)
LEMMA JobChanged ==
    ASSUME NEW j \in Jobs, NEW step \in AtServer, NEW c \in Clients \cup {None},
           j.server \in Servers
    PROVE  /\ (step \in Using => c \in Clients)
                  => JobTyped([j EXCEPT !.step = step, !.own = c])
           /\ step \notin Using => JobTyped([j EXCEPT !.step = step])
  <1>1. ASSUME NEW k, k = [j EXCEPT !.step = step, !.own = c] \/ k = [j EXCEPT !.step = step]
        PROVE  k \in Jobs /\ k.step = step /\ k.server \in Servers
    BY <1>1 DEF Jobs
  <1>2. [j EXCEPT !.step = step, !.own = c].own = c
    BY DEF Jobs
  <1>3. step # "connectAll"
    BY DEF AtServer, Using
  <1>4. QED
    BY <1>1, <1>2, <1>3 DEF JobTyped

(* An actor at a step of the kind that has a server has one.                  *)
LEMMA ServerThere ==
    ASSUME Typed, NEW a \in Actors, job[a].step \in AtServer
    PROVE  job[a] \in Jobs /\ job[a].server \in Servers
  <1>1. job[a] \in Jobs /\ JobTyped(job[a])
    BY DEF Typed
  <1>2. QED
    BY <1>1 DEF JobTyped

(* An actor that takes up a typed job leaves the jobs typed.                  *)
LEMMA JobsStay ==
    ASSUME Typed, NEW a \in Actors, NEW j, JobTyped(j), Becomes(a, j)
    PROVE  /\ job' \in [Actors -> Jobs] /\ \A b \in Actors : JobTyped(job'[b])
           /\ \A b \in Actors : job'[b] = IF b = a THEN j ELSE job[b]
  <1>1. j \in Jobs
    BY DEF JobTyped
  <1>2. job' \in [Actors -> Jobs] /\ \A b \in Actors : job'[b] = IF b = a THEN j ELSE job[b]
    BY <1>1 DEF Typed, Becomes
  <1>3. QED
    BY <1>2 DEF Typed

(* Every step keeps the values.                                               *)
LEMMA TypedStep == Typed /\ [Next]_vars => Typed'
  <1> SUFFICES ASSUME Typed, [Next]_vars PROVE Typed'
    OBVIOUS
  <1> USE McpAssumption DEF Typed, Becomes, At, Server, Own, Job, Done, Idle, Rest, Return, Goto, With,
        sessions, tools, world, past, Jobs, Using, AtServer, Elsewhere, Told, Takes, JobTyped
  <1>1. ASSUME NEW g \in Goroutines, NEW s \in Servers, Call(g, s) PROVE Typed'
    BY <1>1 DEF Call, Actors
  <1>2. ASSUME NEW g \in Goroutines, NEW s \in Servers, Notify(g, s) PROVE Typed'
    BY <1>2 DEF Notify, Actors
  <1>3. ASSUME NEW g \in Goroutines, NEW s \in Servers, UserReconnects(g, s) PROVE Typed'
    BY <1>3 DEF UserReconnects, Actors
  <1>4. ASSUME NEW g \in Goroutines, NEW s \in Servers, UserRemoves(g, s) PROVE Typed'
    BY <1>4 DEF UserRemoves, Actors
  <1>5. ASSUME NEW g \in Goroutines, NEW s \in Servers, UserAdds(g, s) PROVE Typed'
    BY <1>5 DEF UserAdds, Actors
  <1>6. ASSUME NEW g \in Goroutines, UserReconnectsAll(g) PROVE Typed'
    BY <1>6 DEF UserReconnectsAll, Actors
  <1>7. ASSUME NEW s \in Servers, CatalogChanges(s) PROVE Typed'
    BY <1>7 DEF CatalogChanges
  <1>8. CASE Tick
    BY <1>8 DEF Tick, Actors
  <1>9. CASE Visit
    BY <1>9 DEF Visit, Actors
  <1>10. CASE PollList
    BY <1>10 DEF PollList, Actors
  <1>11. CASE Compare
    BY <1>11 DEF Compare, Actors
  <1>12. ASSUME NEW a \in Actors, Reconnect(a) PROVE Typed'
    <2> HIDE DEF Typed, Becomes, At, Server, Own, Job, Done, Idle, Rest, Return, Goto, With, Jobs, Using,
          AtServer, Elsewhere, Told, Takes, JobTyped
    <2> DEFINE j == [job[a] EXCEPT !.step = "remove", !.own = None]
    <2>1. job[a] \in Jobs /\ job[a].server \in Servers
      <3>1. job[a].step = "reconnect"
        BY <1>12 DEF Reconnect, At
      <3>2. QED
        BY <3>1, ServerThere DEF AtServer, Using
    <2>2. JobTyped(j)
      BY <2>1, JobChanged, ZenonT(60) DEF AtServer, Using
    <2>3. Becomes(a, j)
      BY <1>12 DEF Reconnect, With
    <2> HIDE DEF j
    <2>4. job' \in [Actors -> Jobs] /\ \A b \in Actors : JobTyped(job'[b])
      BY <2>2, <2>3, JobsStay
    <2>5. /\ clients' = [clients EXCEPT ![job[a].server] = None]
          /\ open' = open \ {clients[job[a].server]} /\ renewals' = renewals \ {clients[job[a].server]}
          /\ UNCHANGED <<defs, listed, gone, catalog, round>>
      BY <1>12 DEF Reconnect, Disconnect, Server, world
    <2>6. /\ clients' \in [Servers -> Clients \cup {None}]
          /\ open' \subseteq Clients /\ renewals' \subseteq open'
      BY <2>1, <2>5 DEF Typed
    <2>7. QED
      BY <2>4, <2>5, <2>6 DEF Typed
  <1>13. ASSUME NEW a \in Actors, NotListed(a) PROVE Typed'
    BY <1>13 DEF NotListed
  <1>14. ASSUME NEW a \in Actors, RemoveTools(a) PROVE Typed'
    <2> HIDE DEF Typed, Becomes, At, Server, Own, Job, Done, Idle, Rest, Return, Goto, With, Jobs, Using,
          AtServer, Elsewhere, Told, Takes, JobTyped
    <2> DEFINE j == [job[a] EXCEPT !.step = "connect"]
    <2>1. job[a] \in Jobs /\ job[a].server \in Servers
      <3>1. job[a].step = "remove"
        BY <1>14 DEF RemoveTools, At
      <3>2. QED
        BY <3>1, ServerThere DEF AtServer, Using
    <2>2. JobTyped(j)
      BY <2>1, JobChanged, ZenonT(60) DEF AtServer, Using
    <2>3. Becomes(a, j)
      BY <1>14 DEF RemoveTools, Goto
    <2> HIDE DEF j
    <2>4. job' \in [Actors -> Jobs] /\ \A b \in Actors : JobTyped(job'[b])
      BY <2>2, <2>3, JobsStay
    <2>5. DOMAIN defs' = DOMAIN defs /\ UNCHANGED <<clients, open, renewals, listed, gone, catalog, round>>
      BY <1>14 DEF RemoveTools, Removed
    <2>6. QED
      BY <2>4, <2>5 DEF Typed
  <1>15. ASSUME NEW a \in Actors, Connect(a) PROVE Typed'
    <2> HIDE DEF Typed, Becomes, At, Server, Own, Job, Done, Idle, Rest, Return, Goto, With, Jobs, Using,
          AtServer, Elsewhere, Told, Takes, JobTyped
    <2> DEFINE c == CHOOSE c \in Fresh : TRUE
    <2> DEFINE j == [job[a] EXCEPT !.step = "store", !.own = c]
    <2>1. c \in Fresh
      BY <1>15, FreshOne DEF Connect
    <2>2. c \in Clients
      BY <2>1, FreshIs
    <2>3. /\ Becomes(a, j)
          /\ open' = open \cup {c} /\ renewals' \subseteq renewals \cup {c}
          /\ UNCHANGED <<clients, defs, listed, gone, catalog, round>>
      BY <1>15 DEF Connect, With, tools, world, past
    <2> HIDE DEF c
    <2>4. job[a] \in Jobs /\ job[a].server \in Servers
      <3>1. job[a].step = "connect"
        BY <1>15 DEF Connect, At
      <3>2. QED
        BY <3>1, ServerThere DEF AtServer, Using
    <2>5. JobTyped(j)
      BY <2>2, <2>4, JobChanged, ZenonT(60) DEF AtServer, Using
    <2> HIDE DEF j
    <2>6. job' \in [Actors -> Jobs] /\ \A b \in Actors : JobTyped(job'[b])
      BY <2>3, <2>5, JobsStay
    <2>7. open' \subseteq Clients /\ renewals' \subseteq open'
      BY <2>2, <2>3 DEF Typed
    <2>8. QED
      BY <2>3, <2>6, <2>7 DEF Typed
  <1>16. ASSUME NEW a \in Actors, ConnectFails(a) PROVE Typed'
    BY <1>16 DEF ConnectFails
  <1>17. ASSUME NEW a \in Actors, Store(a) PROVE Typed'
    <2> HIDE DEF Typed, Becomes, At, Server, Own, Job, Done, Idle, Rest, Return, Goto, With, Jobs, Using,
          AtServer, Elsewhere, Told, Takes, JobTyped
    <2> DEFINE j == [job[a] EXCEPT !.step = "refresh", !.own = None]
    <2>1. job[a] \in Jobs /\ job[a].server \in Servers
      <3>1. job[a].step = "store"
        BY <1>17 DEF Store, At
      <3>2. QED
        BY <3>1, ServerThere DEF AtServer, Using
    <2>2. JobTyped(j)
      BY <2>1, JobChanged, ZenonT(60) DEF AtServer, Using
    <2>3. Becomes(a, j)
      BY <1>17 DEF Store, With
    <2> HIDE DEF j
    <2>4. job' \in [Actors -> Jobs] /\ \A b \in Actors : JobTyped(job'[b])
      BY <2>2, <2>3, JobsStay
    <2>5. job[a].own \in Clients
      BY <1>17 DEF Store, Typed, JobTyped, At, Using
    <2>6. /\ clients' = [clients EXCEPT ![job[a].server] = job[a].own]
          /\ UNCHANGED <<open, renewals, defs, listed, gone, catalog, round>>
      BY <1>17 DEF Store, Server, Own
    <2>7. clients' \in [Servers -> Clients \cup {None}]
      BY <2>1, <2>5, <2>6 DEF Typed
    <2>8. QED
      BY <2>4, <2>6, <2>7 DEF Typed
  <1>18. ASSUME NEW a \in Actors, Refresh(a) PROVE Typed'
    <2> HIDE DEF Typed, Becomes, At, Server, Own, Job, Done, Idle, Rest, Return, Goto, With, Jobs, Using,
          AtServer, Elsewhere, Told, Takes, JobTyped
    <2>1. CASE clients[job[a].server] = None
      <3>1. Return(a) /\ UNCHANGED <<clients, open, renewals, defs, listed, gone, catalog, round>>
        BY <1>18, <2>1 DEF Refresh, Server
      <3>2. job' \in [Actors -> Jobs] /\ \A b \in Actors : JobTyped(job'[b])
        BY <3>1 DEF Return, Rest, Becomes, Typed, Job, Done, Idle, Jobs, Using, AtServer, Elsewhere,
            Told, JobTyped
      <3>3. QED
        BY <3>1, <3>2 DEF Typed
    <2>2. CASE clients[job[a].server] # None
      <3> DEFINE j == [job[a] EXCEPT !.step = "list", !.own = clients[job[a].server]]
      <3>1. job[a] \in Jobs /\ job[a].server \in Servers
        <4>1. job[a].step = "refresh"
          BY <1>18 DEF Refresh, At
        <4>2. QED
          BY <4>1, ServerThere DEF AtServer, Using
      <3>2. clients[job[a].server] \in Clients
        BY <2>2, <3>1 DEF Typed
      <3>3. JobTyped(j)
        BY <3>1, <3>2, JobChanged, ZenonT(60) DEF AtServer, Using
      <3>4. Becomes(a, j)
        BY <1>18, <2>2 DEF Refresh, With, Server
      <3> HIDE DEF j
      <3>5. job' \in [Actors -> Jobs] /\ \A b \in Actors : JobTyped(job'[b])
        BY <3>3, <3>4, JobsStay
      <3>6. UNCHANGED <<clients, open, renewals, defs, listed, gone, catalog, round>>
        BY <1>18, SMTT(60) DEF Refresh
      <3>7. QED
        BY <3>5, <3>6 DEF Typed
    <2>3. QED
      BY <2>1, <2>2
  <1>19. ASSUME NEW a \in Actors, List(a) PROVE Typed'
    BY <1>19 DEF List
  <1>20. ASSUME NEW a \in Actors, ListFails(a) PROVE Typed'
    BY <1>20 DEF ListFails
  <1>21. ASSUME NEW a \in Actors, Register(a) PROVE Typed'
    BY <1>21 DEF Register
  <1>22. ASSUME NEW a \in Actors, CallEnds(a) PROVE Typed'
    BY <1>22 DEF CallEnds
  <1>23. ASSUME NEW a \in Actors, Renew(a) PROVE Typed'
    BY <1>23, SMTT(60) DEF Renew
  <1>24. ASSUME NEW a \in Actors, DisconnectServer(a) PROVE Typed'
    BY <1>24, SMTT(60) DEF DisconnectServer, Disconnect
  <1>25. ASSUME NEW a \in Actors, Forget(a) PROVE Typed'
    BY <1>25 DEF Forget, Removed
  <1>26. ASSUME NEW a \in Actors, RemoveAll(a) PROVE Typed'
    <2>1. PICK j \in {Job("connectAll", None, None, listed), Done} : Becomes(a, j)
      BY <1>26 DEF RemoveAll
    <2>2. DOMAIN defs' = Servers /\ UNCHANGED <<clients, open, renewals, listed, gone, catalog, round>>
      BY <1>26 DEF RemoveAll
    <2>3. JobTyped(j)
      BY <2>1
    <2> HIDE DEF Typed, Becomes, JobTyped, Job, Jobs, Done
    <2>4. job' \in [Actors -> Jobs] /\ \A b \in Actors : JobTyped(job'[b])
      BY <2>1, <2>3, JobsStay
    <2>5. QED
      BY <2>2, <2>4 DEF Typed
  <1>27. ASSUME NEW a \in Actors, ConnectAll(a) PROVE Typed'
    <2> HIDE DEF Typed, Becomes, At, Server, Own, Job, Done, Idle, Rest, Return, Goto, With, Jobs, Using,
          AtServer, Elsewhere, Told, Takes, JobTyped
    <2> DEFINE j == Job("registerAll", None, None, None)
    <2>1. JobTyped(j) /\ Becomes(a, j)
      BY <1>27 DEF ConnectAll, JobTyped, Job, Jobs, Using, AtServer, Elsewhere, Told
    <2> HIDE DEF j
    <2>2. PICK came \in SUBSET job[a].told, pick \in [Servers -> Fresh \cup {None}] :
              /\ \A s \in Servers : s \in came <=> pick[s] # None
              /\ clients' = [s \in Servers |-> IF s \in came THEN pick[s] ELSE clients[s]]
              /\ open' = open \cup {pick[s] : s \in came}
      BY <1>27, ZenonT(60) DEF ConnectAll
    <2>3. came \subseteq Servers
      BY <1>27, <2>2 DEF ConnectAll, Typed, JobTyped, At
    <2>4. \A s \in came : pick[s] \in Clients
      BY <2>2, <2>3, FreshIs
    <2>5. clients' \in [Servers -> Clients \cup {None}] /\ open' \subseteq Clients /\ open \subseteq open'
      BY <2>2, <2>3, <2>4 DEF Typed
    <2>6. UNCHANGED <<renewals, defs, listed, gone, catalog, round>>
      BY <1>27 DEF ConnectAll
    <2>7. job' \in [Actors -> Jobs] /\ \A b \in Actors : JobTyped(job'[b])
      BY <2>1, JobsStay, SMTT(60)
    <2>8. QED
      BY <2>5, <2>6, <2>7 DEF Typed
  <1>28. ASSUME NEW a \in Actors, RegisterAll(a) PROVE Typed'
    BY <1>28 DEF RegisterAll
  <1>29. CASE UNCHANGED vars
    BY <1>29 DEF vars
  <1> QED
    BY <1>1, <1>2, <1>3, <1>4, <1>5, <1>6, <1>7, <1>8, <1>9, <1>10, <1>11, <1>12, <1>13, <1>14,
       <1>15, <1>16, <1>17, <1>18, <1>19, <1>20, <1>21, <1>22, <1>23, <1>24, <1>25, <1>26, <1>27,
       <1>28, <1>29, ZenonT(60) DEF Next, Begin, PollStep, Step, ReconnectStep, RefreshStep,
       CallStep, UserStep, AllStep

-----------------------------------------------------------------------------
(* The tools and the client of a server.                                      *)

Leaving(s) ==
    \E a \in Actors :
        \/ Server(a) = s /\ job[a].step \in {"remove", "forget"}
        \/ At(a, "removeAll")

(* Every step keeps tools and clients together: register looks at the client  *)
(* again under m.mu, and who takes a client away still has its tools to take. *)
LEMMA ToolsStep == Typed /\ ToolsHaveServer /\ [Next]_vars => ToolsHaveServer'
  <1> SUFFICES ASSUME Typed, ToolsHaveServer, [Next]_vars, NEW t \in Servers,
                      defs'[t] # <<>>, clients'[t] = None
               PROVE  Leaving(t)'
    BY DEF ToolsHaveServer, Leaving
  <1>0. Leaving(t) \/ defs[t] = <<>> \/ clients[t] # None
    BY DEF ToolsHaveServer, Leaving
  <1> USE McpAssumption, <1>0 DEF Becomes, At, Server, Own, Job, Done, Idle, Rest, Return, Goto, With,
        sessions, tools, world, past, Takes, Leaving, Typed, Jobs, JobTyped, Using, AtServer
  <1>1. ASSUME NEW g \in Goroutines, NEW s \in Servers, Call(g, s) PROVE Leaving(t)'
    BY <1>1 DEF Call, Actors
  <1>2. ASSUME NEW g \in Goroutines, NEW s \in Servers, Notify(g, s) PROVE Leaving(t)'
    BY <1>2 DEF Notify, Actors
  <1>3. ASSUME NEW g \in Goroutines, NEW s \in Servers, UserReconnects(g, s) PROVE Leaving(t)'
    BY <1>3, SMTT(60) DEF UserReconnects, Actors
  <1>4. ASSUME NEW g \in Goroutines, NEW s \in Servers, UserRemoves(g, s) PROVE Leaving(t)'
    BY <1>4 DEF UserRemoves, Actors
  <1>5. ASSUME NEW g \in Goroutines, NEW s \in Servers, UserAdds(g, s) PROVE Leaving(t)'
    BY <1>5, SMTT(60) DEF UserAdds, Actors
  <1>6. ASSUME NEW g \in Goroutines, UserReconnectsAll(g) PROVE Leaving(t)'
    BY <1>6 DEF UserReconnectsAll, Actors
  <1>7. ASSUME NEW s \in Servers, CatalogChanges(s) PROVE Leaving(t)'
    BY <1>7 DEF CatalogChanges
  <1>8. CASE Tick
    BY <1>8 DEF Tick, Actors
  <1>9. CASE Visit
    BY <1>9, SMTT(60) DEF Visit, Actors
  <1>10. CASE PollList
    BY <1>10 DEF PollList, Actors
  <1>11. CASE Compare
    BY <1>11 DEF Compare, Actors
  <1>12. ASSUME NEW a \in Actors, Reconnect(a) PROVE Leaving(t)'
    BY <1>12 DEF Reconnect, Disconnect
  <1>13. ASSUME NEW a \in Actors, NotListed(a) PROVE Leaving(t)'
    BY <1>13 DEF NotListed
  <1>14. ASSUME NEW a \in Actors, RemoveTools(a) PROVE Leaving(t)'
    BY <1>14 DEF RemoveTools, Removed
  <1>15. ASSUME NEW a \in Actors, Connect(a) PROVE Leaving(t)'
    BY <1>15 DEF Connect
  <1>16. ASSUME NEW a \in Actors, ConnectFails(a) PROVE Leaving(t)'
    BY <1>16 DEF ConnectFails
  <1>17. ASSUME NEW a \in Actors, Store(a) PROVE Leaving(t)'
    BY <1>17 DEF Store
  <1>18. ASSUME NEW a \in Actors, Refresh(a) PROVE Leaving(t)'
    BY <1>18, SMTT(60) DEF Refresh
  <1>19. ASSUME NEW a \in Actors, List(a) PROVE Leaving(t)'
    BY <1>19 DEF List
  <1>20. ASSUME NEW a \in Actors, ListFails(a) PROVE Leaving(t)'
    BY <1>20 DEF ListFails
  <1>21. ASSUME NEW a \in Actors, Register(a) PROVE Leaving(t)'
    BY <1>21 DEF Register, Current
  <1>22. ASSUME NEW a \in Actors, CallEnds(a) PROVE Leaving(t)'
    BY <1>22 DEF CallEnds
  <1>23. ASSUME NEW a \in Actors, Renew(a) PROVE Leaving(t)'
    BY <1>23, SMTT(60) DEF Renew
  <1>24. ASSUME NEW a \in Actors, DisconnectServer(a) PROVE Leaving(t)'
    BY <1>24 DEF DisconnectServer, Disconnect
  <1>25. ASSUME NEW a \in Actors, Forget(a) PROVE Leaving(t)'
    BY <1>25 DEF Forget, Removed
  <1>26. ASSUME NEW a \in Actors, RemoveAll(a) PROVE Leaving(t)'
    BY <1>26 DEF RemoveAll
  <1>27. ASSUME NEW a \in Actors, ConnectAll(a) PROVE Leaving(t)'
    BY <1>27 DEF ConnectAll
  <1>28. ASSUME NEW a \in Actors, RegisterAll(a) PROVE Leaving(t)'
    BY <1>28 DEF RegisterAll
  <1>29. CASE UNCHANGED vars
    BY <1>29 DEF vars
  <1> QED
    BY <1>1, <1>2, <1>3, <1>4, <1>5, <1>6, <1>7, <1>8, <1>9, <1>10, <1>11, <1>12, <1>13, <1>14,
       <1>15, <1>16, <1>17, <1>18, <1>19, <1>20, <1>21, <1>22, <1>23, <1>24, <1>25, <1>26, <1>27,
       <1>28, <1>29, ZenonT(60)
       DEF Next, Begin, PollStep, Step, ReconnectStep, RefreshStep, CallStep, UserStep, AllStep

-----------------------------------------------------------------------------
(* Renewals.  A client that a renewal has connected is stored by that renewal *)
(* only, and who is about to reconnect a server found there the client that   *)
(* failed, if any that a renewal had connected.                               *)

Renewing == {"reconnect", "remove", "connect", "store", "refresh", "list", "register"}

RenewalsApart ==
    \A a \in Actors :
        /\ job[a].step = "store" /\ job[a].own \in renewals => renewer = a
        /\ renewer = a => job[a].step \in Renewing
        /\ renewer = a /\ job[a].step = "reconnect" /\ clients[job[a].server] \in renewals
               => clients[job[a].server] = job[a].own

(* Every step keeps renewals apart.                                           *)
LEMMA RenewalsStep == Typed /\ RenewalsApart /\ [Next]_vars => RenewalsApart'
  <1> SUFFICES ASSUME Typed, RenewalsApart, [Next]_vars PROVE RenewalsApart'
    OBVIOUS
  <1> USE McpAssumption DEF Becomes, At, Server, Own, Job, Done, Idle, Rest, Return, Goto, With,
        sessions, tools, world, past, Takes, Typed, Jobs, JobTyped, Using, AtServer, Renewing, RenewalsApart
  <1>1. ASSUME NEW g \in Goroutines, NEW s \in Servers, Call(g, s) PROVE RenewalsApart'
    BY <1>1, SMTT(60) DEF Call, Actors
  <1>2. ASSUME NEW g \in Goroutines, NEW s \in Servers, Notify(g, s) PROVE RenewalsApart'
    BY <1>2, SMTT(60) DEF Notify, Actors
  <1>3. ASSUME NEW g \in Goroutines, NEW s \in Servers, UserReconnects(g, s) PROVE RenewalsApart'
    BY <1>3, SMTT(60) DEF UserReconnects, Actors
  <1>4. ASSUME NEW g \in Goroutines, NEW s \in Servers, UserRemoves(g, s) PROVE RenewalsApart'
    BY <1>4, SMTT(60) DEF UserRemoves, Actors
  <1>5. ASSUME NEW g \in Goroutines, NEW s \in Servers, UserAdds(g, s) PROVE RenewalsApart'
    BY <1>5, SMTT(60) DEF UserAdds, Actors
  <1>6. ASSUME NEW g \in Goroutines, UserReconnectsAll(g) PROVE RenewalsApart'
    BY <1>6 DEF UserReconnectsAll, Actors
  <1>7. ASSUME NEW s \in Servers, CatalogChanges(s) PROVE RenewalsApart'
    BY <1>7 DEF CatalogChanges
  <1>8. CASE Tick
    BY <1>8, SMTT(60) DEF Tick, Actors
  <1>9. CASE Visit
    BY <1>9, SMTT(60) DEF Visit, Actors
  <1>10. CASE PollList
    BY <1>10, SMTT(60) DEF PollList, Actors
  <1>11. CASE Compare
    BY <1>11, SMTT(60) DEF Compare, Actors
  <1>12. ASSUME NEW a \in Actors, Reconnect(a) PROVE RenewalsApart'
    BY <1>12 DEF Reconnect, Disconnect
  <1>13. ASSUME NEW a \in Actors, NotListed(a) PROVE RenewalsApart'
    BY <1>13 DEF NotListed
  <1>14. ASSUME NEW a \in Actors, RemoveTools(a) PROVE RenewalsApart'
    BY <1>14 DEF RemoveTools, Removed
  <1>15. ASSUME NEW a \in Actors, Connect(a) PROVE RenewalsApart'
    <2> DEFINE c == CHOOSE c \in Fresh : TRUE
    <2>1. c \in Fresh
      BY <1>15, FreshOne DEF Connect
    <2>2. c \notin open /\ \A b \in Actors : job[b].own # c
      BY <2>1, FreshIs
    <2>3. /\ job[a].step = "connect"
          /\ job' = [job EXCEPT ![a] = [job[a] EXCEPT !.step = "store", !.own = c]]
          /\ renewals' = IF renewer = a THEN renewals \cup {c} ELSE renewals
          /\ UNCHANGED <<clients, renewer>>
      BY <1>15 DEF Connect
    <2> HIDE DEF c
    <2>4. QED
      BY <2>2, <2>3
  <1>16. ASSUME NEW a \in Actors, ConnectFails(a) PROVE RenewalsApart'
    BY <1>16 DEF ConnectFails
  <1>17. ASSUME NEW a \in Actors, Store(a) PROVE RenewalsApart'
    BY <1>17 DEF Store
  <1>18. ASSUME NEW a \in Actors, Refresh(a) PROVE RenewalsApart'
    <2>1. /\ job[a].step = "refresh" /\ UNCHANGED <<clients, renewals>>
          /\ \A b \in Actors \ {a} : job'[b] = job[b]
      BY <1>18 DEF Refresh
    <2>2. CASE clients[job[a].server] = None
      <3>1. job'[a].step \in {"idle", "done"} /\ renewer' = IF renewer = a THEN None ELSE renewer
        BY <1>18, <2>2 DEF Refresh
      <3>2. QED
        BY <2>1, <3>1
    <2>3. CASE clients[job[a].server] # None
      <3> DEFINE c == clients[job[a].server]
      <3>1. job' = [job EXCEPT ![a] = [job[a] EXCEPT !.step = "list", !.own = c]]
        BY <1>18, <2>3 DEF Refresh
      <3> HIDE DEF c
      <3>2. job'[a].step = "list"
        BY <3>1
      <3>3. renewer' = renewer
        BY <1>18, <2>3 DEF Refresh
      <3>4. QED
        BY <2>1, <3>2, <3>3
    <2>4. QED
      BY <2>2, <2>3
  <1>19. ASSUME NEW a \in Actors, List(a) PROVE RenewalsApart'
    BY <1>19 DEF List
  <1>20. ASSUME NEW a \in Actors, ListFails(a) PROVE RenewalsApart'
    BY <1>20 DEF ListFails
  <1>21. ASSUME NEW a \in Actors, Register(a) PROVE RenewalsApart'
    BY <1>21 DEF Register, Current
  <1>22. ASSUME NEW a \in Actors, CallEnds(a) PROVE RenewalsApart'
    BY <1>22 DEF CallEnds
  <1>23. ASSUME NEW a \in Actors, Renew(a) PROVE RenewalsApart'
    BY <1>23, SMTT(60) DEF Renew, Stale
  <1>24. ASSUME NEW a \in Actors, DisconnectServer(a) PROVE RenewalsApart'
    BY <1>24 DEF DisconnectServer, Disconnect
  <1>25. ASSUME NEW a \in Actors, Forget(a) PROVE RenewalsApart'
    BY <1>25 DEF Forget, Removed
  <1>26. ASSUME NEW a \in Actors, RemoveAll(a) PROVE RenewalsApart'
    <2>1. /\ job[a].step = "removeAll" /\ UNCHANGED <<clients, renewals, renewer>>
          /\ \A b \in Actors \ {a} : job'[b] = job[b]
      BY <1>26 DEF RemoveAll
    <2>2. job'[a].step \in {"connectAll", "done"}
      BY <1>26 DEF RemoveAll
    <2>3. QED
      BY <2>1, <2>2
  <1>27. ASSUME NEW a \in Actors, ConnectAll(a) PROVE RenewalsApart'
    <2>1. /\ job[a].step = "connectAll" /\ job' = [job EXCEPT ![a] = Job("registerAll", None, None, None)]
          /\ UNCHANGED <<renewals, renewer>>
      BY <1>27 DEF ConnectAll
    <2> HIDE DEF Becomes, At, Server, Own, Job, Done, Idle, Typed, Jobs, JobTyped, RenewalsApart
    <2>2. PICK came \in SUBSET job[a].told, pick \in [Servers -> Fresh \cup {None}] :
              /\ \A s \in Servers : s \in came <=> pick[s] # None
              /\ clients' = [s \in Servers |-> IF s \in came THEN pick[s] ELSE clients[s]]
              /\ open' = open \cup {pick[s] : s \in came}
      BY <1>27, SMTT(60) DEF ConnectAll
    <2>3. \A s \in Servers : clients'[s] = clients[s] \/ clients'[s] \notin renewals
      BY <2>2, FreshIs DEF Typed
    <2>4. QED
      BY <2>1, <2>3 DEF Typed, Job, RenewalsApart, Jobs, JobTyped
  <1>28. ASSUME NEW a \in Actors, RegisterAll(a) PROVE RenewalsApart'
    BY <1>28 DEF RegisterAll
  <1>29. CASE UNCHANGED vars
    BY <1>29 DEF vars
  <1> QED
    BY <1>1, <1>2, <1>3, <1>4, <1>5, <1>6, <1>7, <1>8, <1>9, <1>10, <1>11, <1>12, <1>13, <1>14,
       <1>15, <1>16, <1>17, <1>18, <1>19, <1>20, <1>21, <1>22, <1>23, <1>24, <1>25, <1>26, <1>27,
       <1>28, <1>29, ZenonT(60)
       DEF Next, Begin, PollStep, Step, ReconnectStep, RefreshStep, CallStep, UserStep, AllStep

(* What a renewal may close, in one step.                                     *)
LEMMA RenewalSpares ==
    Typed /\ RenewalsApart /\ [Next]_vars
        => \A a \in Actors, c \in Clients :
              renewer = a /\ At(a, "reconnect") /\ job'[a] # job[a] /\ c \in open /\ c \notin open'
                  => c = Own(a) \/ c \notin renewals
  <1> SUFFICES ASSUME Typed, RenewalsApart, [Next]_vars, NEW r \in Actors, NEW c \in Clients,
                      renewer = r, At(r, "reconnect"), job'[r] # job[r], c \in open, c \notin open'
               PROVE  c = Own(r) \/ c \notin renewals
    OBVIOUS
  <1> USE McpAssumption DEF Becomes, At, Server, Own, Job, Done, Idle, Rest, Return, Goto, With,
        sessions, tools, world, past, Takes, Typed, Jobs, JobTyped, Using, AtServer, RenewalsApart
  <1>1. ASSUME NEW g \in Goroutines, NEW s \in Servers, Call(g, s) PROVE c = Own(r) \/ c \notin renewals
    BY <1>1, SMTT(60) DEF Call, Actors
  <1>2. ASSUME NEW g \in Goroutines, NEW s \in Servers, Notify(g, s) PROVE c = Own(r) \/ c \notin renewals
    BY <1>2 DEF Notify, Actors
  <1>3. ASSUME NEW g \in Goroutines, NEW s \in Servers, UserReconnects(g, s) PROVE c = Own(r) \/ c \notin renewals
    BY <1>3 DEF UserReconnects, Actors
  <1>4. ASSUME NEW g \in Goroutines, NEW s \in Servers, UserRemoves(g, s) PROVE c = Own(r) \/ c \notin renewals
    BY <1>4, SMTT(60) DEF UserRemoves, Actors
  <1>5. ASSUME NEW g \in Goroutines, NEW s \in Servers, UserAdds(g, s) PROVE c = Own(r) \/ c \notin renewals
    BY <1>5 DEF UserAdds, Actors
  <1>6. ASSUME NEW g \in Goroutines, UserReconnectsAll(g) PROVE c = Own(r) \/ c \notin renewals
    BY <1>6 DEF UserReconnectsAll, Actors
  <1>7. ASSUME NEW s \in Servers, CatalogChanges(s) PROVE c = Own(r) \/ c \notin renewals
    BY <1>7 DEF CatalogChanges
  <1>8. CASE Tick
    BY <1>8 DEF Tick, Actors
  <1>9. CASE Visit
    BY <1>9 DEF Visit, Actors
  <1>10. CASE PollList
    BY <1>10 DEF PollList, Actors
  <1>11. CASE Compare
    BY <1>11 DEF Compare, Actors
  <1>12. ASSUME NEW a \in Actors, Reconnect(a) PROVE c = Own(r) \/ c \notin renewals
    BY <1>12 DEF Reconnect, Disconnect
  <1>13. ASSUME NEW a \in Actors, NotListed(a) PROVE c = Own(r) \/ c \notin renewals
    BY <1>13 DEF NotListed
  <1>14. ASSUME NEW a \in Actors, RemoveTools(a) PROVE c = Own(r) \/ c \notin renewals
    BY <1>14 DEF RemoveTools, Removed
  <1>15. ASSUME NEW a \in Actors, Connect(a) PROVE c = Own(r) \/ c \notin renewals
    BY <1>15 DEF Connect
  <1>16. ASSUME NEW a \in Actors, ConnectFails(a) PROVE c = Own(r) \/ c \notin renewals
    BY <1>16 DEF ConnectFails
  <1>17. ASSUME NEW a \in Actors, Store(a) PROVE c = Own(r) \/ c \notin renewals
    BY <1>17 DEF Store
  <1>18. ASSUME NEW a \in Actors, Refresh(a) PROVE c = Own(r) \/ c \notin renewals
    BY <1>18 DEF Refresh
  <1>19. ASSUME NEW a \in Actors, List(a) PROVE c = Own(r) \/ c \notin renewals
    BY <1>19 DEF List
  <1>20. ASSUME NEW a \in Actors, ListFails(a) PROVE c = Own(r) \/ c \notin renewals
    BY <1>20 DEF ListFails
  <1>21. ASSUME NEW a \in Actors, Register(a) PROVE c = Own(r) \/ c \notin renewals
    BY <1>21 DEF Register, Current
  <1>22. ASSUME NEW a \in Actors, CallEnds(a) PROVE c = Own(r) \/ c \notin renewals
    BY <1>22 DEF CallEnds
  <1>23. ASSUME NEW a \in Actors, Renew(a) PROVE c = Own(r) \/ c \notin renewals
    BY <1>23 DEF Renew, Stale
  <1>24. ASSUME NEW a \in Actors, DisconnectServer(a) PROVE c = Own(r) \/ c \notin renewals
    BY <1>24 DEF DisconnectServer, Disconnect
  <1>25. ASSUME NEW a \in Actors, Forget(a) PROVE c = Own(r) \/ c \notin renewals
    BY <1>25 DEF Forget, Removed
  <1>26. ASSUME NEW a \in Actors, RemoveAll(a) PROVE c = Own(r) \/ c \notin renewals
    BY <1>26 DEF RemoveAll
  <1>27. ASSUME NEW a \in Actors, ConnectAll(a) PROVE c = Own(r) \/ c \notin renewals
    BY <1>27 DEF ConnectAll
  <1>28. ASSUME NEW a \in Actors, RegisterAll(a) PROVE c = Own(r) \/ c \notin renewals
    BY <1>28 DEF RegisterAll
  <1>29. CASE UNCHANGED vars
    BY <1>29 DEF vars
  <1> QED
    BY <1>1, <1>2, <1>3, <1>4, <1>5, <1>6, <1>7, <1>8, <1>9, <1>10, <1>11, <1>12, <1>13, <1>14,
       <1>15, <1>16, <1>17, <1>18, <1>19, <1>20, <1>21, <1>22, <1>23, <1>24, <1>25, <1>26, <1>27,
       <1>28, <1>29, ZenonT(60)
       DEF Next, Begin, PollStep, Step, ReconnectStep, RefreshStep, CallStep, UserStep, AllStep

-----------------------------------------------------------------------------
(* Removed servers.  Whoever is about to store the client of a server has     *)
(* found it in mcp.json, where it still is, or it was overtaken.              *)

HandsListed ==
    /\ \A a \in Actors :
          /\ job[a].step \in {"remove", "connect", "store"}
                => job[a].server \in listed \cup overtaken
          /\ job[a].step = "connectAll" => job[a].told \subseteq listed \cup overtaken
          /\ job[a].step \in {"disconnect", "forget"} /\ job[a].server \in listed
                => job[a].server \in overtaken
          /\ job[a].step = "forget" /\ job[a].server \notin overtaken
                => clients[job[a].server] = None
    /\ gone \cap listed = {} /\ RemovedStaysGone

(* Every step keeps what removed servers rest on.                             *)
LEMMA RemovedStep == Typed /\ HandsListed /\ [Next]_vars => HandsListed'
  <1> SUFFICES ASSUME Typed, HandsListed, [Next]_vars PROVE HandsListed'
    OBVIOUS
  <1> USE McpAssumption DEF Becomes, At, Server, Own, Job, Done, Idle, Rest, Return, Goto, With,
        sessions, tools, world, past, Takes, Typed, Jobs, JobTyped, Using, AtServer, HandsListed,
        RemovedStaysGone
  <1>1. ASSUME NEW g \in Goroutines, NEW s \in Servers, Call(g, s) PROVE HandsListed'
    BY <1>1, SMTT(60) DEF Call, Actors
  <1>2. ASSUME NEW g \in Goroutines, NEW s \in Servers, Notify(g, s) PROVE HandsListed'
    BY <1>2, SMTT(60) DEF Notify, Actors
  <1>3. ASSUME NEW g \in Goroutines, NEW s \in Servers, UserReconnects(g, s) PROVE HandsListed'
    BY <1>3 DEF UserReconnects, Actors
  <1>4. ASSUME NEW g \in Goroutines, NEW s \in Servers, UserRemoves(g, s) PROVE HandsListed'
    <2>1. /\ UNCHANGED <<clients, defs, gone>> /\ listed' = listed \ {s} /\ s \in listed
          /\ \A b \in Actors : b # g => job'[b] = job[b]
          /\ g \in Actors /\ job'[g].step \in {"disconnect", "done"}
          /\ job'[g].server \in {s, None}
      BY <1>4 DEF UserRemoves, Actors
    <2>2. overtaken \subseteq overtaken' /\ (InHand(s) => s \in overtaken')
      BY <1>4 DEF UserRemoves
    <2>3. \A b \in Actors : job[b].step \in {"remove", "connect", "store"}
                              => job[b].server \in listed' \cup overtaken'
      BY <2>1, <2>2 DEF InHand
    <2>4. \A b \in Actors : job[b].step = "connectAll" => job[b].told \subseteq listed' \cup overtaken'
      BY <2>1, <2>2 DEF InHand
    <2>5. gone' \cap listed' = {} /\ RemovedStaysGone'
      BY <2>1, <2>2
    <2>6. \A b \in Actors : job[b].step \in {"disconnect", "forget"} /\ job[b].server \in listed'
                              => job[b].server \in overtaken'
      BY <2>1, <2>2
    <2>7. \A b \in Actors : job[b].step = "forget" /\ job[b].server \notin overtaken'
                              => clients'[job[b].server] = None
      BY <2>1, <2>2
    <2> HIDE DEF RemovedStaysGone, Typed, Job, Jobs, JobTyped
    <2>8. ASSUME NEW b \in Actors PROVE
            /\ job'[b].step \in {"remove", "connect", "store"}
                  => job'[b].server \in listed' \cup overtaken'
            /\ job'[b].step = "connectAll" => job'[b].told \subseteq listed' \cup overtaken'
            /\ job'[b].step \in {"disconnect", "forget"} /\ job'[b].server \in listed'
                  => job'[b].server \in overtaken'
            /\ job'[b].step = "forget" /\ job'[b].server \notin overtaken'
                  => clients'[job'[b].server] = None
      <3>1. CASE b = g
        <4>1. job'[g].step \notin {"remove", "connect", "store", "connectAll", "forget"}
          BY <2>1
        <4>2. job'[g].server \notin listed'
          BY <2>1, McpAssumption DEF Typed
        <4>3. QED
          BY <3>1, <4>1, <4>2
      <3>2. CASE b # g
        BY <3>2, <2>1, <2>3, <2>4, <2>6, <2>7, ZenonT(60)
      <3>3. QED
        BY <3>1, <3>2
    <2>9. QED
      BY <2>5, <2>8, Zenon DEF HandsListed
  <1>5. ASSUME NEW g \in Goroutines, NEW s \in Servers, UserAdds(g, s) PROVE HandsListed'
    BY <1>5 DEF UserAdds, Actors, Removing
  <1>6. ASSUME NEW g \in Goroutines, UserReconnectsAll(g) PROVE HandsListed'
    <2>1. /\ UNCHANGED <<defs, listed, overtaken, gone>>
          /\ job' = [job EXCEPT ![g] = Job("removeAll", None, None, None)]
          /\ clients' = [s \in Servers |-> None]
      BY <1>6 DEF UserReconnectsAll
    <2>2. QED
      BY <2>1
  <1>7. ASSUME NEW s \in Servers, CatalogChanges(s) PROVE HandsListed'
    BY <1>7, SMTT(60) DEF CatalogChanges
  <1>8. CASE Tick
    BY <1>8, SMTT(60) DEF Tick, Actors
  <1>9. CASE Visit
    BY <1>9, SMTT(60) DEF Visit, Actors
  <1>10. CASE PollList
    BY <1>10, SMTT(60) DEF PollList, Actors
  <1>11. CASE Compare
    BY <1>11 DEF Compare, Actors
  <1>12. ASSUME NEW a \in Actors, Reconnect(a) PROVE HandsListed'
    BY <1>12 DEF Reconnect, Disconnect, InConfig
  <1>13. ASSUME NEW a \in Actors, NotListed(a) PROVE HandsListed'
    BY <1>13 DEF NotListed, InConfig
  <1>14. ASSUME NEW a \in Actors, RemoveTools(a) PROVE HandsListed'
    BY <1>14 DEF RemoveTools, Removed
  <1>15. ASSUME NEW a \in Actors, Connect(a) PROVE HandsListed'
    BY <1>15 DEF Connect
  <1>16. ASSUME NEW a \in Actors, ConnectFails(a) PROVE HandsListed'
    BY <1>16 DEF ConnectFails
  <1>17. ASSUME NEW a \in Actors, Store(a) PROVE HandsListed'
    BY <1>17 DEF Store
  <1>18. ASSUME NEW a \in Actors, Refresh(a) PROVE HandsListed'
    <2>1. /\ UNCHANGED <<clients, defs, listed, overtaken, gone>>
          /\ \A b \in Actors \ {a} : job'[b] = job[b]
      BY <1>18 DEF Refresh
    <2>2. job'[a].step \in {"list", "idle", "done"}
      <3>1. CASE clients[job[a].server] = None
        BY <1>18, <3>1 DEF Refresh
      <3>2. CASE clients[job[a].server] # None
        <4> DEFINE c == clients[job[a].server]
        <4>1. job' = [job EXCEPT ![a] = [job[a] EXCEPT !.step = "list", !.own = c]]
          BY <1>18, <3>2 DEF Refresh
        <4> HIDE DEF c
        <4>2. QED
          BY <4>1
      <3>3. QED
        BY <3>1, <3>2
    <2>3. QED
      BY <2>1, <2>2
  <1>19. ASSUME NEW a \in Actors, List(a) PROVE HandsListed'
    BY <1>19 DEF List
  <1>20. ASSUME NEW a \in Actors, ListFails(a) PROVE HandsListed'
    BY <1>20 DEF ListFails
  <1>21. ASSUME NEW a \in Actors, Register(a) PROVE HandsListed'
    <2>1. /\ UNCHANGED <<clients, listed, overtaken, gone>>
          /\ job[a].step = "register" /\ job' = [job EXCEPT ![a] = Rest(a)]
      BY <1>21 DEF Register
    <2>2. \A s \in Servers : clients[s] = None => defs'[s] = defs[s]
      BY <1>21, <2>1 DEF Register, Current
    <2>3. QED
      BY <2>1, <2>2
  <1>22. ASSUME NEW a \in Actors, CallEnds(a) PROVE HandsListed'
    BY <1>22 DEF CallEnds
  <1>23. ASSUME NEW a \in Actors, Renew(a) PROVE HandsListed'
    BY <1>23, SMTT(60) DEF Renew
  <1>24. ASSUME NEW a \in Actors, DisconnectServer(a) PROVE HandsListed'
    BY <1>24 DEF DisconnectServer, Disconnect
  <1>25. ASSUME NEW a \in Actors, Forget(a) PROVE HandsListed'
    BY <1>25 DEF Forget, Removed
  <1>26. ASSUME NEW a \in Actors, RemoveAll(a) PROVE HandsListed'
    <2>1. /\ UNCHANGED <<clients, listed, overtaken, gone>>
          /\ job' = [job EXCEPT ![a] = Job("connectAll", None, None, listed)] \/ job' = [job EXCEPT ![a] = Done]
      BY <1>26 DEF RemoveAll
    <2>2. defs' = [s \in Servers |-> <<>>]
      BY <1>26 DEF RemoveAll
    <2>3. /\ \A b \in Actors : b # a => job'[b] = job[b]
          /\ job'[a].step \in {"connectAll", "done"}
          /\ job'[a].step = "connectAll" => job'[a].told = listed
      BY <2>1
    <2> HIDE DEF Job, Jobs, JobTyped
    <2>4. QED
      BY <2>1, <2>2, <2>3, SMTT(60)
  <1>27. ASSUME NEW a \in Actors, ConnectAll(a) PROVE HandsListed'
    <2>1. /\ job' = [job EXCEPT ![a] = Job("registerAll", None, None, None)]
          /\ job[a].step = "connectAll" /\ UNCHANGED <<defs, listed, overtaken, gone>>
      BY <1>27 DEF ConnectAll
    <2> HIDE DEF Becomes, At, Server, Own, Job, Done, Idle, Typed, Jobs, JobTyped, HandsListed
    <2>2. PICK came \in SUBSET job[a].told, pick \in [Servers -> Fresh \cup {None}] :
              /\ \A s \in Servers : s \in came <=> pick[s] # None
              /\ clients' = [s \in Servers |-> IF s \in came THEN pick[s] ELSE clients[s]]
              /\ open' = open \cup {pick[s] : s \in came}
      BY <1>27 DEF ConnectAll
    <2>3. \A s \in Servers : s \notin listed \cup overtaken => clients'[s] = clients[s]
      BY <2>1, <2>2 DEF HandsListed
    <2>4. QED
      BY <2>1, <2>3 DEF Typed, Job, HandsListed, Jobs, JobTyped
  <1>28. ASSUME NEW a \in Actors, RegisterAll(a) PROVE HandsListed'
    <2>1. job' = [job EXCEPT ![a] = Done] /\ UNCHANGED <<clients, listed, overtaken, gone>>
      BY <1>28 DEF RegisterAll
    <2>2. \A s \in Servers : clients[s] = None => defs'[s] = defs[s]
      BY <1>28 DEF RegisterAll
    <2>3. QED
      BY <2>1, <2>2
  <1>29. CASE UNCHANGED vars
    BY <1>29 DEF vars
  <1> QED
    BY <1>1, <1>2, <1>3, <1>4, <1>5, <1>6, <1>7, <1>8, <1>9, <1>10, <1>11, <1>12, <1>13, <1>14,
       <1>15, <1>16, <1>17, <1>18, <1>19, <1>20, <1>21, <1>22, <1>23, <1>24, <1>25, <1>26, <1>27,
       <1>28, <1>29, ZenonT(60)
       DEF Next, Begin, PollStep, Step, ReconnectStep, RefreshStep, CallStep, UserStep, AllStep

-----------------------------------------------------------------------------
(* The theorems.                                                              *)

(* At first there are no tools.                                               *)
LEMMA InitTools == Init => ToolsHaveServer
  BY DEF Init, ToolsHaveServer

(* At first nobody renews.                                                    *)
LEMMA InitRenewals == Init => RenewalsApart
  BY McpAssumption DEF Init, RenewalsApart, Job, Idle, Actors

(* At first only the daemon is at work, with what mcp.json lists.             *)
LEMMA InitRemoved == Init => HandsListed
  BY DEF Init, HandsListed, RemovedStaysGone, Job, Idle

(* No tool of a disconnected server is left in the registry, but for the      *)
(* moment in which whoever disconnected it is about to take its tools away:   *)
(* the check of register under m.mu is enough for any number of goroutines    *)
(* that refresh, reconnect and remove.                                        *)
THEOREM ToolsServed == Spec => []ToolsHaveServer
  <1>1. Init => Typed /\ ToolsHaveServer
    BY InitTyped, InitTools
  <1>2. Typed /\ ToolsHaveServer /\ [Next]_vars => (Typed /\ ToolsHaveServer)'
    BY TypedStep, ToolsStep
  <1> QED
    BY <1>1, <1>2, PTL DEF Spec

(* A renewal closes no client but the one that failed it, unless that was not *)
(* connected by a renewal: reconnectMu and the second look at m.clients keep  *)
(* any number of calls and the poll from renewing the same session twice.     *)
THEOREM RenewalsSpare == Spec => RenewalsSpareOthers
  <1>1. Init => Typed /\ RenewalsApart
    BY InitTyped, InitRenewals
  <1>2. Typed /\ RenewalsApart /\ [Next]_vars => (Typed /\ RenewalsApart)'
    BY TypedStep, RenewalsStep
  <1>3. Typed /\ RenewalsApart /\ [Next]_vars
          => [\A a \in Actors, c \in Clients :
                renewer = a /\ At(a, "reconnect") /\ job'[a] # job[a]
                    /\ c \in open /\ c \notin open'
                => c = Own(a) \/ c \notin renewals]_vars
    BY RenewalSpares
  <1> QED
    BY <1>1, <1>2, <1>3, PTL DEF Spec, RenewalsSpareOthers

(* A server that was removed stays without a client and without tools, except *)
(* when a reconnect was under way for it as it was removed or it was put back *)
(* meanwhile.                                                                 *)
THEOREM RemovedGone == Spec => []RemovedStaysGone
  <1>1. Init => Typed /\ HandsListed
    BY InitTyped, InitRemoved
  <1>2. Typed /\ HandsListed /\ [Next]_vars => (Typed /\ HandsListed)'
    BY TypedStep, RemovedStep
  <1>3. HandsListed => RemovedStaysGone
    BY DEF HandsListed
  <1> QED
    BY <1>1, <1>2, <1>3, PTL DEF Spec

-----------------------------------------------------------------------------
(* Types of the manager.                                                      *)

(* What a refresh registers is a catalog.                                     *)
ToldCatalog ==
    /\ catalog \in [Servers -> 0..MaxCatalog]
    /\ \A a \in Actors : At(a, "register") => job[a].told \in 0..MaxCatalog

(* What Typed leaves out.                                                     *)
Values ==
    /\ toolsSum \in [Servers -> (0..MaxCatalog) \cup {None}]
    /\ defs \in [Servers -> Seq(0..MaxCatalog)] /\ renewer \in Actors \cup {None}
    /\ disturbed \subseteq Servers /\ overtaken \subseteq Servers

(* Every step keeps to that.                                                  *)
LEMMA ToldStep == Typed /\ ToldCatalog /\ [Next]_vars => ToldCatalog'
  <1> SUFFICES ASSUME Typed, ToldCatalog, [Next]_vars PROVE ToldCatalog'
    OBVIOUS
  <1> USE McpAssumption DEF ToldCatalog, Becomes, At, Server, Own, Job, Done, Idle, Rest, Return, Goto, With,
        sessions, tools, world, past, Takes, Actors
  <1>0. DOMAIN job = Actors
    BY DEF Typed
  <1> USE <1>0
  <1>1. ASSUME NEW g \in Goroutines, NEW s \in Servers, Call(g, s) PROVE ToldCatalog'
    BY <1>1 DEF Call
  <1>2. ASSUME NEW g \in Goroutines, NEW s \in Servers, Notify(g, s) PROVE ToldCatalog'
    BY <1>2 DEF Notify
  <1>3. ASSUME NEW g \in Goroutines, NEW s \in Servers, UserReconnects(g, s) PROVE ToldCatalog'
    BY <1>3 DEF UserReconnects
  <1>4. ASSUME NEW g \in Goroutines, NEW s \in Servers, UserRemoves(g, s) PROVE ToldCatalog'
    BY <1>4 DEF UserRemoves
  <1>5. ASSUME NEW g \in Goroutines, NEW s \in Servers, UserAdds(g, s) PROVE ToldCatalog'
    BY <1>5 DEF UserAdds
  <1>6. ASSUME NEW g \in Goroutines, UserReconnectsAll(g) PROVE ToldCatalog'
    BY <1>6 DEF UserReconnectsAll
  <1>7. ASSUME NEW s \in Servers, CatalogChanges(s) PROVE ToldCatalog'
    BY <1>7 DEF CatalogChanges
  <1>8. CASE Tick
    BY <1>8 DEF Tick
  <1>9. CASE Visit
    BY <1>9 DEF Visit
  <1>10. CASE PollList
    BY <1>10 DEF PollList
  <1>11. CASE Compare
    BY <1>11 DEF Compare
  <1>12. ASSUME NEW a \in Actors, Reconnect(a) PROVE ToldCatalog'
    BY <1>12 DEF Reconnect
  <1>13. ASSUME NEW a \in Actors, NotListed(a) PROVE ToldCatalog'
    BY <1>13 DEF NotListed
  <1>14. ASSUME NEW a \in Actors, RemoveTools(a) PROVE ToldCatalog'
    BY <1>14 DEF RemoveTools
  <1>15. ASSUME NEW a \in Actors, Connect(a) PROVE ToldCatalog'
    BY <1>15 DEF Connect
  <1>16. ASSUME NEW a \in Actors, ConnectFails(a) PROVE ToldCatalog'
    BY <1>16 DEF ConnectFails
  <1>17. ASSUME NEW a \in Actors, Store(a) PROVE ToldCatalog'
    BY <1>17 DEF Store
  <1>18. ASSUME NEW a \in Actors, Refresh(a) PROVE ToldCatalog'
    <2>1. \A b \in Actors : b # a => job'[b] = job[b]
      BY <1>18 DEF Refresh
    <2>2. job'[a].step # "register"
      <3>1. CASE clients[job[a].server] = None
        BY <1>18, <3>1 DEF Refresh
      <3>2. CASE clients[job[a].server] # None
        <4>1. Becomes(a, [job[a] EXCEPT !.step = "list", !.own = clients[job[a].server]])
          BY <1>18, <3>2 DEF Refresh
        <4>2. job[a] \in Jobs
          BY DEF Typed
        <4>3. QED
          BY <4>1, <4>2 DEF Jobs
      <3>3. QED
        BY <3>1, <3>2
    <2>3. QED
      BY <1>18, <2>1, <2>2 DEF Refresh
  <1>19. ASSUME NEW a \in Actors, List(a) PROVE ToldCatalog'
    <2>1. job[a].server \in Servers
      <3>1. job[a].step = "list"
        BY <1>19 DEF List
      <3>2. QED
        BY <3>1, ServerThere DEF AtServer, Using
    <2>2. \A b \in Actors : b # a => job'[b] = job[b]
      BY <1>19 DEF List
    <2>3. job'[a].told = catalog[job[a].server] /\ catalog' = catalog
      BY <1>19 DEF List
    <2>4. QED
      BY <2>1, <2>2, <2>3
  <1>20. ASSUME NEW a \in Actors, ListFails(a) PROVE ToldCatalog'
    BY <1>20 DEF ListFails
  <1>21. ASSUME NEW a \in Actors, Register(a) PROVE ToldCatalog'
    BY <1>21 DEF Register
  <1>22. ASSUME NEW a \in Actors, CallEnds(a) PROVE ToldCatalog'
    BY <1>22 DEF CallEnds
  <1>23. ASSUME NEW a \in Actors, Renew(a) PROVE ToldCatalog'
    <2>1. catalog' = catalog /\ \A b \in Actors : b # a => job'[b] = job[b]
      BY <1>23 DEF Renew
    <2>2. job'[a].step # "register"
      <3>1. job[a] \in Jobs
        BY DEF Typed
      <3>2. \/ Becomes(a, [job[a] EXCEPT !.step = "reconnect"])
            \/ Becomes(a, Idle) \/ Becomes(a, Done)
        BY <1>23 DEF Renew
      <3>3. QED
        BY <3>1, <3>2 DEF Jobs
    <2>3. QED
      BY <2>1, <2>2
  <1>24. ASSUME NEW a \in Actors, DisconnectServer(a) PROVE ToldCatalog'
    BY <1>24 DEF DisconnectServer
  <1>25. ASSUME NEW a \in Actors, Forget(a) PROVE ToldCatalog'
    BY <1>25 DEF Forget
  <1>26. ASSUME NEW a \in Actors, RemoveAll(a) PROVE ToldCatalog'
    BY <1>26 DEF RemoveAll
  <1>27. ASSUME NEW a \in Actors, ConnectAll(a) PROVE ToldCatalog'
    BY <1>27 DEF ConnectAll
  <1>28. ASSUME NEW a \in Actors, RegisterAll(a) PROVE ToldCatalog'
    BY <1>28 DEF RegisterAll
  <1>29. CASE UNCHANGED vars
    BY <1>29 DEF vars
  <1> QED
    BY <1>1, <1>2, <1>3, <1>4, <1>5, <1>6, <1>7, <1>8, <1>9, <1>10, <1>11, <1>12, <1>13, <1>14,
       <1>15, <1>16, <1>17, <1>18, <1>19, <1>20, <1>21, <1>22, <1>23, <1>24, <1>25, <1>26, <1>27,
       <1>28, <1>29, ZenonT(60) DEF Next, Begin, PollStep, Step, ReconnectStep, RefreshStep,
       CallStep, UserStep, AllStep

(* A sequence of one.                                                         *)
LEMMA OneLong == ASSUME NEW S, NEW e \in S PROVE <<e>> \in Seq(S)
  OBVIOUS

(* A value that is put in a function.                                         *)
LEMMA Updated ==
    ASSUME NEW D, NEW R, NEW f \in [D -> R], NEW d \in D, NEW v \in R
    PROVE  [f EXCEPT ![d] = v] \in [D -> R]
  OBVIOUS

(* And the registry and m.toolsSum hold catalogs.                             *)
LEMMA ValuesStep == Typed /\ Values /\ ToldCatalog /\ [Next]_vars => Values'
  <1> SUFFICES ASSUME Typed, Values, ToldCatalog, [Next]_vars PROVE Values'
    OBVIOUS
  <1> USE McpAssumption DEF Values, At, Server, Own, Rest, Return, sessions, tools, world, past, Takes
  <1>1. ASSUME NEW g \in Goroutines, NEW s \in Servers, Call(g, s) PROVE Values'
    BY <1>1 DEF Call
  <1>2. ASSUME NEW g \in Goroutines, NEW s \in Servers, Notify(g, s) PROVE Values'
    BY <1>2 DEF Notify
  <1>3. ASSUME NEW g \in Goroutines, NEW s \in Servers, UserReconnects(g, s) PROVE Values'
    BY <1>3 DEF UserReconnects
  <1>4. ASSUME NEW g \in Goroutines, NEW s \in Servers, UserRemoves(g, s) PROVE Values'
    BY <1>4 DEF UserRemoves
  <1>5. ASSUME NEW g \in Goroutines, NEW s \in Servers, UserAdds(g, s) PROVE Values'
    BY <1>5 DEF UserAdds
  <1>6. ASSUME NEW g \in Goroutines, UserReconnectsAll(g) PROVE Values'
    BY <1>6 DEF UserReconnectsAll
  <1>7. ASSUME NEW s \in Servers, CatalogChanges(s) PROVE Values'
    BY <1>7 DEF CatalogChanges
  <1>8. CASE Tick
    BY <1>8 DEF Tick
  <1>9. CASE Visit
    BY <1>9 DEF Visit
  <1>10. CASE PollList
    BY <1>10 DEF PollList
  <1>11. CASE Compare
    BY <1>11 DEF Compare
  <1>12. ASSUME NEW a \in Actors, Reconnect(a) PROVE Values'
    <2>1. job[a].server \in Servers
      <3>1. job[a].step = "reconnect"
        BY <1>12 DEF Reconnect, At
      <3>2. QED
        BY <3>1, ServerThere DEF AtServer, Using
    <2>2. QED
      BY <1>12, <2>1 DEF Reconnect, Disconnect
  <1>13. ASSUME NEW a \in Actors, NotListed(a) PROVE Values'
    BY <1>13 DEF NotListed
  <1>14. ASSUME NEW a \in Actors, RemoveTools(a) PROVE Values'
    <2>1. job[a].server \in Servers
      <3>1. job[a].step = "remove"
        BY <1>14 DEF RemoveTools, At
      <3>2. QED
        BY <3>1, ServerThere DEF AtServer, Using
    <2>2. QED
      BY <1>14, <2>1 DEF RemoveTools, Removed
  <1>15. ASSUME NEW a \in Actors, Connect(a) PROVE Values'
    BY <1>15 DEF Connect
  <1>16. ASSUME NEW a \in Actors, ConnectFails(a) PROVE Values'
    BY <1>16 DEF ConnectFails
  <1>17. ASSUME NEW a \in Actors, Store(a) PROVE Values'
    BY <1>17 DEF Store
  <1>18. ASSUME NEW a \in Actors, Refresh(a) PROVE Values'
    BY <1>18 DEF Refresh
  <1>19. ASSUME NEW a \in Actors, List(a) PROVE Values'
    BY <1>19 DEF List
  <1>20. ASSUME NEW a \in Actors, ListFails(a) PROVE Values'
    BY <1>20 DEF ListFails
  <1>21. ASSUME NEW a \in Actors, Register(a) PROVE Values'
    <2>1. job[a].server \in Servers
      <3>1. job[a].step = "register"
        BY <1>21 DEF Register, At
      <3>2. QED
        BY <3>1, ServerThere DEF AtServer, Using
    <2>2. job[a].told \in 0..MaxCatalog
      BY <1>21 DEF Register, ToldCatalog
    <2>3. /\ defs' \in {defs, [defs EXCEPT ![job[a].server] = <<job[a].told>>]}
          /\ toolsSum' \in {toolsSum, [toolsSum EXCEPT ![job[a].server] = job[a].told]}
          /\ disturbed' \subseteq disturbed /\ overtaken' = overtaken
          /\ renewer' \in {renewer, None}
      <3>1. CASE Current(a)
        BY <1>21, <3>1 DEF Register
      <3>2. CASE ~Current(a)
        BY <1>21, <3>2 DEF Register
      <3>3. QED
        BY <3>1, <3>2
    <2>4. <<job[a].told>> \in Seq(0..MaxCatalog)
      BY <2>2, OneLong
    <2>5. defs' \in [Servers -> Seq(0..MaxCatalog)]
      <3> DEFINE R == Seq(0..MaxCatalog)
      <3>1. defs \in [Servers -> R] /\ <<job[a].told>> \in R
        BY <2>4
      <3> HIDE DEF R, Values
      <3>2. [defs EXCEPT ![job[a].server] = <<job[a].told>>] \in [Servers -> R]
        BY <2>1, <3>1, Updated
      <3>3. defs' \in [Servers -> R]
        BY <2>3, <3>1, <3>2, Zenon
      <3>4. QED
        BY <3>3 DEF R
    <2>6. toolsSum' \in [Servers -> (0..MaxCatalog) \cup {None}]
      BY <2>1, <2>2, <2>3
    <2>7. QED
      BY <2>3, <2>5, <2>6
  <1>22. ASSUME NEW a \in Actors, CallEnds(a) PROVE Values'
    BY <1>22 DEF CallEnds
  <1>23. ASSUME NEW a \in Actors, Renew(a) PROVE Values'
    BY <1>23 DEF Renew
  <1>24. ASSUME NEW a \in Actors, DisconnectServer(a) PROVE Values'
    <2>1. job[a].server \in Servers
      <3>1. job[a].step = "disconnect"
        BY <1>24 DEF DisconnectServer, At
      <3>2. QED
        BY <3>1, ServerThere DEF AtServer, Using
    <2>2. QED
      BY <1>24, <2>1 DEF DisconnectServer, Disconnect
  <1>25. ASSUME NEW a \in Actors, Forget(a) PROVE Values'
    <2>1. job[a].server \in Servers
      <3>1. job[a].step = "forget"
        BY <1>25 DEF Forget, At
      <3>2. QED
        BY <3>1, ServerThere DEF AtServer, Using
    <2>2. QED
      BY <1>25, <2>1 DEF Forget, Removed
  <1>26. ASSUME NEW a \in Actors, RemoveAll(a) PROVE Values'
    BY <1>26 DEF RemoveAll
  <1>27. ASSUME NEW a \in Actors, ConnectAll(a) PROVE Values'
    BY <1>27 DEF ConnectAll
  <1>28. ASSUME NEW a \in Actors, RegisterAll(a) PROVE Values'
    <2>1. PICK told \in SUBSET Servers :
              /\ defs' = [s \in Servers |->
                             IF s \in told THEN Append(defs[s], catalog[s]) ELSE defs[s]]
              /\ toolsSum' = [s \in Servers |-> IF s \in told THEN catalog[s] ELSE toolsSum[s]]
              /\ disturbed' = disturbed \cup {s \in told : defs[s] # <<>>}
      BY <1>28 DEF RegisterAll
    <2>2. renewer' = renewer /\ overtaken' = overtaken
      BY <1>28 DEF RegisterAll
    <2>3. \A s \in Servers : defs[s] \in Seq(0..MaxCatalog) /\ catalog[s] \in 0..MaxCatalog
      BY DEF ToldCatalog
    <2>4. \A s \in Servers : Append(defs[s], catalog[s]) \in Seq(0..MaxCatalog)
      BY <2>3
    <2>5. defs' \in [Servers -> Seq(0..MaxCatalog)]
      BY <2>1, <2>3, <2>4
    <2>6. toolsSum' \in [Servers -> (0..MaxCatalog) \cup {None}]
      BY <2>1, <2>3
    <2>7. QED
      BY <2>1, <2>2, <2>5, <2>6
  <1>29. CASE UNCHANGED vars
    BY <1>29 DEF vars
  <1> QED
    BY <1>1, <1>2, <1>3, <1>4, <1>5, <1>6, <1>7, <1>8, <1>9, <1>10, <1>11, <1>12, <1>13, <1>14,
       <1>15, <1>16, <1>17, <1>18, <1>19, <1>20, <1>21, <1>22, <1>23, <1>24, <1>25, <1>26, <1>27,
       <1>28, <1>29, ZenonT(60) DEF Next, Begin, PollStep, Step, ReconnectStep, RefreshStep,
       CallStep, UserStep, AllStep

(* Every variable of the manager keeps to its kind: what is registered and    *)
(* summed for a server is a catalog it has had, for any number of goroutines  *)
(* and of changes.                                                            *)
THEOREM ManagerTypes == Spec => []TypeOK
  <1>1. Init => Typed /\ Values /\ ToldCatalog
    <2>1. Init => Typed
      BY InitTyped
    <2>2. Init => Values
      BY McpAssumption DEF Init, Values
    <2>3. Init => ToldCatalog
      BY McpAssumption DEF Init, ToldCatalog, At, Job, Idle
    <2>4. QED
      BY <2>1, <2>2, <2>3
  <1>2. Typed /\ Values /\ ToldCatalog /\ [Next]_vars => (Typed /\ Values /\ ToldCatalog)'
    BY TypedStep, ValuesStep, ToldStep
  <1>3. Typed /\ Values /\ ToldCatalog => TypeOK
    BY DEF Typed, Values, ToldCatalog, TypeOK
  <1> QED
    BY <1>1, <1>2, <1>3, PTL DEF Spec

-----------------------------------------------------------------------------
(* The scheduler *)

Shots == [entry : Entry, id : Nat, step : Steps, copy : SUBSET Entry]

Doings ==
    {AtRest} \cup [step : {"save", "bind", "trash"}, change : Changes, tasks : SUBSET Entry,
                   freed : BOOLEAN]

Copies == [tasks : SUBSET Entry, crons : SUBSET Skills]

Kept ==
    /\ now \in Nat /\ tasks \subseteq Entry /\ crons \subseteq Skills /\ skills \subseteq Skills
    /\ up \in {"down", "boot", "up"} /\ timers \in [Entry -> Nat] /\ cronIDs \subseteq Skills
    /\ shots \subseteq Shots /\ IsFiniteSet(shots)
    /\ watcher \in {"idle", "loaded"} /\ copy \in Copies /\ recent \in BOOLEAN
    /\ events \in Nat /\ missed \in BOOLEAN /\ writer \in [Writers -> Doings]
    /\ ops \in Nat /\ crashes \in Nat /\ ran \in [Entry -> Nat]

(* A timer of the map is one that may fire or whose callback runs.            *)
Alive ==
    \A e \in Entry : timers[e] # 0 =>
        \E s \in shots : s.entry = e /\ s.id = timers[e] /\ s.step \in {"armed", "running"}

(* A task to come has the timer of the map and no other.                      *)
Aimed ==
    \A e \in Entry : e.at > now =>
        {s \in shots : s.entry = e}
            = IF timers[e] = 0 THEN {} ELSE {Shot(e, timers[e], "armed")}

(* What is armed, and what the watcher has in hand, is what the files say, or *)
(* an event is on its way, or the watcher has missed one.                     *)
Follows(list, bound) ==
    /\ cronIDs = bound
    /\ \A e \in Entry : e.at > now => (timers[e] # 0 <=> e \in list)

Synced ==
    /\ watcher = "loaded" => up = "up"
    /\ events = 0 /\ ~missed =>
        /\ watcher = "loaded" => copy = OnDisk
        /\ up # "down" /\ watcher = "idle" => Follows(tasks, crons)

LEMMA SubsetFinite ==
    ASSUME NEW A, IsFiniteSet(A), NEW B, B \subseteq A
    PROVE  IsFiniteSet(B) /\ Cardinality(B) <= Cardinality(A)
  BY FS_Subset

LEMMA EntriesFinite == IsFiniteSet(Entry)
  <1> DEFINE f == [p \in Skills \X Times |-> [skill |-> p[1], at |-> p[2]]]
  <1>1. IsFiniteSet(Skills \X Times)
    BY SchedulerAssumption, FS_Product
  <1>2. f \in [Skills \X Times -> Entry]
    BY DEF Entry
  <1>3. \A e \in Entry : \E p \in Skills \X Times : f[p] = e
    <2> SUFFICES ASSUME NEW e \in Entry PROVE \E p \in Skills \X Times : f[p] = e
      OBVIOUS
    <2>1. <<e.skill, e.at>> \in Skills \X Times /\ f[<<e.skill, e.at>>] = e
      BY DEF Entry
    <2>2. QED
      BY <2>1
  <1>4. f \in Surjection(Skills \X Times, Entry)
    <2> HIDE DEF f
    <2>1. QED
      BY <1>2, <1>3 DEF Surjection
  <1>5. QED
    BY <1>1, <1>4, FS_Surjection

LEMMA FreshIdIs ==
    ASSUME IsFiniteSet(shots), shots \subseteq Shots, NEW e
    PROVE  FreshId(e) \in Nat \ {0}
  <1> DEFINE Mine == {s \in shots : s.entry = e}
             Ids  == {s.id : s \in Mine}
             f    == [s \in Mine |-> s.id]
             C    == Cardinality(shots)
  <1>1. IsFiniteSet(Mine) /\ Cardinality(Mine) <= C
    BY SubsetFinite
  <1>2. f \in Surjection(Mine, Ids)
    BY DEF Surjection
  <1>3. IsFiniteSet(Ids) /\ Cardinality(Ids) <= Cardinality(Mine)
    BY <1>1, <1>2, FS_Surjection
  <1>4. C \in Nat /\ Cardinality(Ids) \in Nat /\ Cardinality(Mine) \in Nat
    BY <1>1, <1>3, FS_CardinalityType
  <1>5. Cardinality(1..(C + 1)) = C + 1
    BY <1>4, FS_Interval
  <1>6. \E n \in 1..(C + 1) : n \notin Ids
    <2> SUFFICES ASSUME 1..(C + 1) \subseteq Ids PROVE FALSE
      OBVIOUS
    <2> HIDE DEF Ids, C, Mine, f
    <2>1. Cardinality(1..(C + 1)) <= Cardinality(Ids)
      BY <1>3, SubsetFinite
    <2>2. QED
      BY <2>1, <1>1, <1>3, <1>4, <1>5
  <1>7. \E n \in 1..(C + 1) : \A s \in shots : s.entry = e => s.id # n
    BY <1>6
  <1>8. FreshId(e) \in 1..(C + 1)
    <2> HIDE DEF Ids, Mine, f
    <2>1. QED
      BY <1>7 DEF FreshId
  <1>9. QED
    BY <1>4, <1>8

(* What a reload leaves is what it has read.                                  *)
LEMMA Applied ==
    ASSUME Kept, Alive, Aimed, NEW c \in Copies, Apply(c), now' = now
    PROVE  /\ timers' \in [Entry -> Nat] /\ cronIDs' \subseteq Skills
           /\ shots' \subseteq Shots /\ IsFiniteSet(shots')
           /\ Alive' /\ Aimed' /\ Follows(c.tasks, c.crons)'
  <1> DEFINE new == {e \in c.tasks : timers[e] = 0}
             Stopped(s) == s.step = "armed" /\ s.entry \notin c.tasks /\ s.id = timers[s.entry]
             f == [e \in new |-> Shot(e, FreshId(e), "armed")]
             added == {Shot(e, FreshId(e), "armed") : e \in new}
             stay == {s \in shots : ~Stopped(s)}
  <1>1. /\ shots \subseteq Shots /\ IsFiniteSet(shots) /\ timers \in [Entry -> Nat]
        /\ c.tasks \subseteq Entry /\ c.crons \subseteq Skills
    BY DEF Kept, Copies
  <1>2. \A e : FreshId(e) \in Nat \ {0}
    BY <1>1, FreshIdIs
  <1>3. /\ timers' = [e \in Entry |-> IF e \notin c.tasks THEN 0
                                        ELSE IF e \in new THEN FreshId(e) ELSE timers[e]]
        /\ shots' = stay \cup added /\ cronIDs' = c.crons
    BY DEF Apply
  <1>4. added \subseteq Shots
    BY <1>1, <1>2 DEF Shots, Shot, Steps
  <1>5. IsFiniteSet(added)
    <2>1. IsFiniteSet(new)
      BY <1>1, EntriesFinite, SubsetFinite
    <2>2. f \in Surjection(new, added)
      BY DEF Surjection
    <2>3. QED
      BY <2>1, <2>2, FS_Surjection
  <1>6. timers' \in [Entry -> Nat] /\ cronIDs' \subseteq Skills
    BY <1>1, <1>2, <1>3
  <1>7. shots' \subseteq Shots /\ IsFiniteSet(shots')
    <2>1. IsFiniteSet(stay)
      BY <1>1, SubsetFinite
    <2>2. IsFiniteSet(stay \cup added)
      BY <2>1, <1>5, FS_Union
    <2>3. QED
      BY <2>2, <1>1, <1>3, <1>4
  <1>8. ASSUME NEW e \in Entry
        PROVE  /\ e \notin c.tasks => timers'[e] = 0
               /\ e \in new => timers'[e] = FreshId(e) /\ timers'[e] # 0
               /\ e \in c.tasks \ new => timers'[e] = timers[e] /\ timers'[e] # 0
    BY <1>2, <1>3
  <1>9. ASSUME NEW e \in Entry
        PROVE  /\ e \in new => Shot(e, FreshId(e), "armed") \in added
               /\ e \notin new => {s \in added : s.entry = e} = {}
               /\ e \in new => {s \in added : s.entry = e} = {Shot(e, FreshId(e), "armed")}
    <2>1. \A d : Shot(d, FreshId(d), "armed").entry = d
      BY DEF Shot
    <2> HIDE DEF new
    <2>2. QED
      BY <2>1
  <1> HIDE DEF added
  <1>10. Alive'
    <2> SUFFICES ASSUME NEW e \in Entry, timers'[e] # 0
                 PROVE  \E s \in shots' : s.entry = e /\ s.id = timers'[e]
                                            /\ s.step \in {"armed", "running"}
      BY DEF Alive
    <2>1. CASE e \in new
      <3>1. Shot(e, timers'[e], "armed") \in shots'
        BY <2>1, <1>3, <1>8, <1>9
      <3>2. QED
        BY <3>1 DEF Shot
    <2>2. CASE e \in c.tasks \ new
      <3>1. PICK s \in shots : s.entry = e /\ s.id = timers[e] /\ s.step \in {"armed", "running"}
        BY <2>2, <1>8 DEF Alive
      <3>2. s \in shots'
        BY <3>1, <2>2, <1>3
      <3>3. QED
        BY <3>1, <3>2, <2>2, <1>8
    <2>3. QED
      BY <2>1, <2>2, <1>8
  <1>11. Aimed'
    <2> SUFFICES ASSUME NEW e \in Entry, e.at > now
                 PROVE  {s \in shots' : s.entry = e}
                            = IF timers'[e] = 0 THEN {} ELSE {Shot(e, timers'[e], "armed")}
      BY DEF Aimed
    <2>1. {s \in shots : s.entry = e}
              = IF timers[e] = 0 THEN {} ELSE {Shot(e, timers[e], "armed")}
      BY DEF Aimed
    <2>2. CASE e \in new
      <3>1. {s \in shots : s.entry = e} = {}
        BY <2>1, <2>2
      <3>2. QED
        BY <3>1, <2>2, <1>3, <1>8, <1>9
    <2>3. CASE e \in c.tasks \ new
      BY <2>1, <2>3, <1>3, <1>8, <1>9
    <2>4. CASE e \notin c.tasks
      <3>1. \A s \in shots : s.entry = e => Stopped(s)
        BY <2>1, <2>4 DEF Shot
      <3>2. QED
        BY <3>1, <2>4, <1>3, <1>8, <1>9
    <2>5. QED
      BY <2>2, <2>3, <2>4
  <1>12. Follows(c.tasks, c.crons)'
    BY <1>3, <1>8 DEF Follows
  <1>13. QED
    BY <1>6, <1>7, <1>10, <1>11, <1>12

(* A callback at work is one of a task that was due.                          *)
LEMMA Due ==
    ASSUME Kept, Aimed, NEW s \in shots, s.step # "armed"
    PROVE  s.entry \in Entry /\ ~(s.entry.at > now)
  <1>1. s.entry \in Entry
    BY DEF Kept, Shots
  <1>2. QED
    BY <1>1 DEF Aimed, Shot

(* What a callback does to the timers: it changes or ends its own shot, and   *)
(* takes at most the timer under the key of its entry from the map.           *)
Ends(s) == shots' = shots \ {s}

Works(s) == \E step \in Steps \ {"armed"}, held \in SUBSET Entry : ShotBecomes(s, step, held)

Moves(s) ==
    /\ Ends(s) \/ Works(s)
    /\ timers' \in {timers, [timers EXCEPT ![s.entry] = 0]}
    /\ UNCHANGED <<now, cronIDs>>

LEMMA Moved ==
    ASSUME Kept, Alive, Aimed, NEW s \in shots, ~(s.entry.at > now), Moves(s)
    PROVE  /\ timers' \in [Entry -> Nat] /\ shots' \subseteq Shots /\ IsFiniteSet(shots')
           /\ Aimed' /\ \A list, bound : Follows(list, bound) => Follows(list, bound)'
           /\ \/ s.step \notin {"armed", "running"} /\ timers' = timers
              \/ timers'[s.entry] = 0
              \/ ShotBecomes(s, "running", {})
              => Alive'
  <1>1. /\ timers \in [Entry -> Nat] /\ shots \subseteq Shots /\ IsFiniteSet(shots)
        /\ s.entry \in Entry
    BY DEF Kept, Shots
  <1>2. timers' \in [Entry -> Nat] /\ \A e \in Entry : e # s.entry => timers'[e] = timers[e]
    BY <1>1 DEF Moves
  <1>3. PICK t \in Shots : /\ t.entry = s.entry /\ t.id = s.id
                           /\ shots' \in {shots \ {s}, (shots \ {s}) \cup {t}}
    <2>1. CASE Ends(s)
      BY <2>1, <1>1 DEF Ends
    <2>2. CASE Works(s)
      <3>1. PICK step \in Steps, held \in SUBSET Entry : ShotBecomes(s, step, held)
        BY <2>2 DEF Works
      <3>2. [[s EXCEPT !.step = step] EXCEPT !.copy = held] \in Shots
        BY <1>1 DEF Shots
      <3>3. /\ [s EXCEPT !.step = step, !.copy = held] \in Shots
            /\ [s EXCEPT !.step = step, !.copy = held].entry = s.entry
            /\ [s EXCEPT !.step = step, !.copy = held].id = s.id
        BY <1>1, <3>2 DEF Shots
      <3>4. QED
        BY <3>1, <3>3 DEF ShotBecomes
    <2>3. QED
      BY <2>1, <2>2 DEF Moves
  <1>4. shots' \subseteq Shots /\ IsFiniteSet(shots')
    <2>1. IsFiniteSet(shots \ {s})
      BY <1>1, SubsetFinite
    <2>2. IsFiniteSet({t})
      BY FS_Singleton
    <2>3. IsFiniteSet((shots \ {s}) \cup {t})
      BY <2>1, <2>2, FS_Union
    <2>4. QED
      BY <1>1, <1>3, <2>1, <2>3
  <1>5. ASSUME NEW e \in Entry, e # s.entry
        PROVE  {x \in shots' : x.entry = e} = {x \in shots : x.entry = e}
    BY <1>3, <1>5
  <1>6. Aimed'
    <2> SUFFICES ASSUME NEW e \in Entry, e.at > now
                 PROVE  {x \in shots' : x.entry = e}
                            = IF timers'[e] = 0 THEN {} ELSE {Shot(e, timers'[e], "armed")}
      BY DEF Aimed, Moves
    <2>1. e # s.entry
      OBVIOUS
    <2>2. QED
      BY <2>1, <1>2, <1>5 DEF Aimed
  <1>7. ASSUME NEW list, NEW bound, Follows(list, bound)
        PROVE  Follows(list, bound)'
    <2>1. \A e \in Entry : e.at > now => timers'[e] = timers[e]
      BY <1>2
    <2>2. QED
      BY <2>1, <1>7 DEF Follows, Moves
  <1>8. ASSUME \/ s.step \notin {"armed", "running"} /\ timers' = timers
               \/ timers'[s.entry] = 0
               \/ ShotBecomes(s, "running", {})
        PROVE  Alive'
    <2> SUFFICES ASSUME NEW e \in Entry, timers'[e] # 0
                 PROVE  \E x \in shots' : x.entry = e /\ x.id = timers'[e]
                                            /\ x.step \in {"armed", "running"}
      BY DEF Alive
    <2>1. timers[e] = timers'[e]
      BY <1>1, <1>2 DEF Moves
    <2>2. PICK x \in shots : x.entry = e /\ x.id = timers[e] /\ x.step \in {"armed", "running"}
      BY <2>1 DEF Alive
    <2>3. CASE x # s
      <3>1. x \in shots'
        BY <2>3, <1>3
      <3>2. QED
        BY <2>1, <2>2, <3>1
    <2>4. CASE x = s
      <3>1. ShotBecomes(s, "running", {})
        BY <1>8, <2>1, <2>2, <2>4
      <3>2. /\ [s EXCEPT !.step = "running", !.copy = {}].entry = s.entry
            /\ [s EXCEPT !.step = "running", !.copy = {}].id = s.id
            /\ [s EXCEPT !.step = "running", !.copy = {}].step = "running"
        BY <1>1 DEF Shots
      <3>3. QED
        BY <3>1, <3>2, <2>1, <2>2, <2>4 DEF ShotBecomes
    <2>5. QED
      BY <2>3, <2>4
  <1>9. QED
    BY <1>2, <1>4, <1>6, <1>7, <1>8

Sound == Kept /\ Alive /\ Aimed /\ Synced

LEMMA InitSound == SchedulerInit => Sound
  <1> SUFFICES ASSUME SchedulerInit PROVE Sound
    OBVIOUS
  <1>1. Kept
    BY FS_EmptySet DEF SchedulerInit, Kept, NoCopy, Copies, Doings
  <1>2. Alive /\ Aimed /\ Synced
    BY DEF SchedulerInit, Alive, Aimed, Synced
  <1>3. QED
    BY <1>1, <1>2 DEF Sound

(* A write is heard of, or missed.                                            *)
LEMMA Heard ==
    ASSUME Kept, Written
    PROVE  events' \in Nat /\ missed' \in BOOLEAN /\ ~(events' = 0 /\ ~missed')
  <1>1. events \in Nat /\ missed \in BOOLEAN
    BY DEF Kept
  <1>2. CASE up = "up"
    <2>1. events' = events + 1 /\ missed' = missed
      BY <1>2 DEF Written
    <2>2. events' \in Nat /\ events' # 0
      BY <1>1, <2>1
    <2>3. QED
      BY <1>1, <2>1, <2>2, Zenon
  <1>3. CASE up # "up"
    <2>1. events' = events /\ missed' = TRUE
      BY <1>3 DEF Written
    <2>2. QED
      BY <1>1, <2>1, Zenon
  <1>4. QED
    BY <1>2, <1>3

(* A step that leaves the timers alone.                                       *)
LEMMA TimersStay ==
    ASSUME Alive, Aimed, UNCHANGED <<now, timers, cronIDs, shots>>
    PROVE  Alive' /\ Aimed' /\ \A list, bound : Follows(list, bound) => Follows(list, bound)'
  BY DEF Alive, Aimed, Follows

(* A step that leaves the files and the watcher alone, too, keeps them equal. *)
LEMMA SyncStays ==
    ASSUME Synced, UNCHANGED <<tasks, crons, up, watcher, copy, events, missed>>,
           \A list, bound : Follows(list, bound) => Follows(list, bound)'
    PROVE  Synced'
  BY DEF Synced, OnDisk

LEMMA DiskCopied == Kept => OnDisk \in Copies
  BY DEF Kept, OnDisk, Copies

LEMMA ClockSound == Sound /\ TimePasses => Sound'
  <1> SUFFICES ASSUME Sound, TimePasses PROVE Sound'
    OBVIOUS
  <1> USE DEF Sound, TimePasses, files, memory, watching, counts
  <1>1. Kept'
    BY DEF Kept
  <1>2. now \in Nat /\ now' = now + 1 /\ \A e \in Entry : e.at > now' => e.at > now
    <2>1. now \in Nat /\ now' = now + 1
      BY DEF Kept
    <2>2. \A e \in Entry : e.at \in Nat
      BY SchedulerAssumption DEF Entry
    <2>3. QED
      BY <2>1, <2>2
  <1>3. Alive'
    BY DEF Alive
  <1>4. Aimed'
    BY <1>2 DEF Aimed
  <1>5. Synced'
    <2>1. \A list, bound : Follows(list, bound) => Follows(list, bound)'
      BY <1>2 DEF Follows
    <2>2. QED
      BY <2>1, SyncStays
  <1>6. QED
    BY <1>1, <1>3, <1>4, <1>5

(* The start, the end and the watcher.                                        *)
LEMMA WatchSound == Sound /\ (Boot \/ StartWatcher \/ Crash \/ Watch) => Sound'
  <1> SUFFICES ASSUME Sound, Boot \/ StartWatcher \/ Crash \/ Watch
               PROVE  Sound'
    OBVIOUS
  <1>0. Kept /\ Alive /\ Aimed /\ Synced /\ OnDisk \in Copies /\ copy \in Copies
    BY DiskCopied DEF Sound, Kept
  <1> USE DEF files, memory, watching, counts
  <1>1. CASE Boot
    <2>1. /\ timers' \in [Entry -> Nat] /\ cronIDs' \subseteq Skills
          /\ shots' \subseteq Shots /\ IsFiniteSet(shots')
          /\ Alive' /\ Aimed' /\ Follows(OnDisk.tasks, OnDisk.crons)'
      <3>1. Apply(OnDisk) /\ now' = now
        BY <1>1 DEF Boot
      <3>2. PICK c \in Copies : c = OnDisk
        BY <1>0
      <3>3. Apply(c)
        BY <3>1, <3>2
      <3>4. Follows(c.tasks, c.crons)'
        BY <1>0, <3>1, <3>3, Applied
      <3>5. Follows(tasks, crons)'
        <4>1. c.tasks = tasks' /\ c.crons = crons'
          BY <1>1, <3>2 DEF OnDisk, Boot
        <4>2. QED
          BY <3>4, <4>1 DEF Follows
      <3>6. QED
        BY <1>0, <1>1, <3>1, <3>3, <3>5, Applied DEF OnDisk, Boot, Follows
    <2>2. Kept'
      BY <1>0, <1>1, <2>1 DEF Kept, Boot
    <2>3. Synced'
      BY <1>0, <1>1, <2>1 DEF Synced, Boot, OnDisk, Follows
    <2>4. QED
      BY <2>1, <2>2, <2>3 DEF Sound
  <1>2. CASE StartWatcher
    <2>1. Kept'
      BY <1>0, <1>2 DEF Kept, StartWatcher
    <2>2. Alive' /\ Aimed' /\ \A list, bound : Follows(list, bound) => Follows(list, bound)'
      BY <1>0, <1>2, TimersStay DEF StartWatcher
    <2>3. Synced'
      BY <1>0, <1>2, <2>2 DEF Kept, Synced, StartWatcher, OnDisk
    <2>4. QED
      BY <2>1, <2>2, <2>3 DEF Sound
  <1>3. CASE Crash
    <2>1. Kept'
      <3>1. /\ timers' \in [Entry -> Nat] /\ shots' = {} /\ copy' \in Copies
            /\ crashes' \in Nat /\ writer' \in [Writers -> Doings]
        BY <1>0, <1>3 DEF Kept, Crash, Copies, NoCopy, Doings
      <3>2. QED
        BY <1>0, <1>3, <3>1, FS_EmptySet DEF Kept, Crash
    <2>2. Alive' /\ Aimed'
      BY <1>3 DEF Alive, Aimed, Crash
    <2>3. Synced'
      BY <1>3 DEF Synced, Crash
    <2>4. QED
      BY <2>1, <2>2, <2>3 DEF Sound
  <1>4. CASE DropEvent
    <2>1. Kept'
      BY <1>0, <1>4 DEF Kept, DropEvent
    <2>2. Alive' /\ Aimed'
      BY <1>0, <1>4, TimersStay DEF DropEvent
    <2>3. Synced'
      BY <1>0, <1>4 DEF Synced, DropEvent
    <2>4. QED
      BY <2>1, <2>2, <2>3 DEF Sound
  <1>5. CASE Load
    <2>1. Kept'
      <3>1. events' \in Nat
        BY <1>0, <1>5 DEF Kept, Load
      <3>2. copy' \in Copies /\ recent' \in BOOLEAN /\ missed' \in BOOLEAN
        BY <1>0, <1>5 DEF Load
      <3>3. QED
        BY <1>0, <1>5, <3>1, <3>2 DEF Kept, Load
    <2>2. Alive' /\ Aimed'
      BY <1>0, <1>5, TimersStay DEF Load
    <2>3. Synced'
      BY <1>5 DEF Synced, Load, OnDisk
    <2>4. QED
      BY <2>1, <2>2, <2>3 DEF Sound
  <1>6. CASE Reload
    <2>1. /\ timers' \in [Entry -> Nat] /\ cronIDs' \subseteq Skills
          /\ shots' \subseteq Shots /\ IsFiniteSet(shots') /\ Alive' /\ Aimed'
          /\ \A list, bound : list = copy.tasks /\ bound = copy.crons => Follows(list, bound)'
      <3>1. PICK c \in Copies : c = copy
        BY <1>0
      <3>2. Apply(c) /\ now' = now
        BY <1>6, <3>1 DEF Reload
      <3>3. QED
        BY <1>0, <3>1, <3>2, Applied
    <2>2. Kept'
      BY <1>0, <1>6, <2>1 DEF Kept, Reload, NoCopy, Copies
    <2>3. Synced'
      <3> SUFFICES ASSUME events' = 0, ~missed' PROVE Follows(tasks, crons)'
        BY <1>6 DEF Synced, Reload
      <3>1. copy = OnDisk
        BY <1>0, <1>6 DEF Synced, Reload
      <3>2. Follows(tasks, crons)'
        BY <1>6, <2>1, <3>1 DEF Follows, OnDisk, Reload
      <3>3. QED
        BY <3>2
    <2>4. QED
      BY <2>1, <2>2, <2>3 DEF Sound
  <1>7. CASE Settle
    <2>1. Kept'
      BY <1>0, <1>7 DEF Kept, Settle
    <2>2. Alive' /\ Aimed' /\ \A list, bound : Follows(list, bound) => Follows(list, bound)'
      BY <1>0, <1>7, TimersStay DEF Settle
    <2>3. Synced'
      BY <1>0, <1>7, <2>2, SyncStays DEF Settle
    <2>4. QED
      BY <2>1, <2>2, <2>3 DEF Sound
  <1>8. QED
    BY <1>1, <1>2, <1>3, <1>4, <1>5, <1>6, <1>7 DEF Watch

(* A timer that fires, and its callback.                                      *)
LEMMA CallbackSound ==
    ASSUME Sound, NEW s \in shots, Callback(s)
    PROVE  Sound'
  <1>0. /\ Kept /\ Alive /\ Aimed /\ Synced
        /\ s \in Shots /\ s.entry \in Entry /\ shots \subseteq Shots /\ tasks \subseteq Entry
        /\ s.entry.at \in Nat /\ now \in Nat
    BY SchedulerAssumption DEF Sound, Kept, Shots, Entry
  <1> USE DEF files, memory, watching, counts
  <1>1. ASSUME NEW step \in Steps \ {"armed"}, NEW held \in SUBSET Entry,
               ShotBecomes(s, step, held)
        PROVE  Works(s)
    BY <1>1 DEF Works
  <1>2. s.step # "armed" => ~(s.entry.at > now)
    BY <1>0, Due
  <1>3. CASE Fire(s)
    <2>1. Works(s) /\ ~(s.entry.at > now)
      BY <1>0, <1>1, <1>3 DEF Fire, Steps
    <2>2. Moves(s) /\ ShotBecomes(s, "running", {})
      BY <1>3, <2>1 DEF Moves, Fire
    <2>3. /\ timers' \in [Entry -> Nat] /\ shots' \subseteq Shots /\ IsFiniteSet(shots')
          /\ Alive' /\ Aimed' /\ \A list, bound : Follows(list, bound) => Follows(list, bound)'
      BY <1>0, <2>1, <2>2, Moved
    <2>4. ran' \in [Entry -> Nat]
      BY <1>0, <1>3 DEF Kept, Fire
    <2>5. Kept'
      BY <1>0, <1>3, <2>3, <2>4 DEF Kept, Fire
    <2>6. Synced'
      BY <1>0, <1>3, <2>3, SyncStays DEF Fire
    <2>7. QED
      BY <2>3, <2>5, <2>6 DEF Sound
  <1>4. CASE Unmap(s)
    <2>1. Works(s) /\ ~(s.entry.at > now)
      BY <1>1, <1>2, <1>4 DEF Unmap, Steps
    <2>2. Moves(s) /\ timers'[s.entry] = 0
      BY <1>0, <1>4, <2>1 DEF Moves, Kept, Unmap
    <2>3. /\ timers' \in [Entry -> Nat] /\ shots' \subseteq Shots /\ IsFiniteSet(shots')
          /\ Alive' /\ Aimed' /\ \A list, bound : Follows(list, bound) => Follows(list, bound)'
      BY <1>0, <2>1, <2>2, Moved
    <2>4. Kept'
      BY <1>0, <1>4, <2>3 DEF Kept, Unmap
    <2>5. Synced'
      BY <1>0, <1>4, <2>3, SyncStays DEF Unmap
    <2>6. QED
      BY <2>3, <2>4, <2>5 DEF Sound
  <1>5. CASE RemoveLoad(s) \/ CheckMore(s) \/ Trash(s)
    <2>1. /\ ~(s.entry.at > now) /\ s.step \notin {"armed", "running"}
          /\ UNCHANGED <<now, timers, cronIDs>> /\ skills' \subseteq Skills
      BY <1>0, <1>2, <1>5 DEF Kept, RemoveLoad, CheckMore, Trash
    <2>2. Ends(s) \/ Works(s)
      <3>1. CASE RemoveLoad(s)
        BY <1>0, <1>1, <3>1 DEF RemoveLoad, Steps
      <3>2. CASE CheckMore(s)
        BY <1>1, <3>2 DEF CheckMore, Steps, Ends
      <3>3. CASE Trash(s)
        BY <3>3 DEF Trash, Ends
      <3>4. QED
        BY <1>5, <3>1, <3>2, <3>3
    <2>3. Moves(s)
      BY <2>1, <2>2 DEF Moves
    <2>4. /\ timers' \in [Entry -> Nat] /\ shots' \subseteq Shots /\ IsFiniteSet(shots')
          /\ Alive' /\ Aimed' /\ \A list, bound : Follows(list, bound) => Follows(list, bound)'
      BY <1>0, <2>1, <2>3, Moved
    <2>5. /\ UNCHANGED <<tasks, crons, up, watcher, copy, recent, events, missed, writer>>
          /\ UNCHANGED <<ops, crashes, ran>>
      BY <1>5 DEF RemoveLoad, CheckMore, Trash
    <2>6. Kept'
      BY <1>0, <2>1, <2>4, <2>5 DEF Kept
    <2>7. Synced'
      BY <1>0, <2>4, <2>5, SyncStays
    <2>8. QED
      BY <2>4, <2>6, <2>7 DEF Sound
  <1>6. CASE RemoveSave(s)
    <2>1. /\ Works(s) /\ ~(s.entry.at > now) /\ s.step \notin {"armed", "running"}
          /\ UNCHANGED <<now, timers, cronIDs>>
      BY <1>1, <1>2, <1>6 DEF RemoveSave, Steps
    <2>2. Moves(s)
      BY <2>1 DEF Moves
    <2>3. /\ timers' \in [Entry -> Nat] /\ shots' \subseteq Shots /\ IsFiniteSet(shots')
          /\ Alive' /\ Aimed' /\ \A list, bound : Follows(list, bound) => Follows(list, bound)'
      BY <1>0, <2>1, <2>2, Moved
    <2>4. CASE s.entry \in s.copy
      <3>1. Written /\ tasks' \subseteq Entry
        BY <1>0, <1>6, <2>4 DEF RemoveSave, Shots
      <3>2. events' \in Nat /\ missed' \in BOOLEAN /\ ~(events' = 0 /\ ~missed')
        BY <1>0, <3>1, Heard
      <3>3. Kept'
        BY <1>0, <1>6, <2>1, <2>3, <3>1, <3>2 DEF Kept, RemoveSave
      <3>4. Synced'
        BY <1>0, <1>6, <3>2 DEF Synced, RemoveSave
      <3>5. QED
        BY <2>3, <3>3, <3>4 DEF Sound
    <2>5. CASE s.entry \notin s.copy
      <3>1. UNCHANGED <<tasks, crons, skills, up, watcher, copy, recent, events, missed, writer,
                        ops, crashes, ran>>
        BY <1>6, <2>5 DEF RemoveSave
      <3>2. Kept'
        BY <1>0, <2>1, <2>3, <3>1 DEF Kept
      <3>3. Synced'
        BY <1>0, <2>3, <3>1, SyncStays
      <3>4. QED
        BY <2>3, <3>2, <3>3 DEF Sound
    <2>6. QED
      BY <2>4, <2>5
  <1>7. QED
    BY <1>3, <1>4, <1>5, <1>6 DEF Callback

(* A change of the files by somebody else.                                    *)
WriterSteps == {"save", "bind", "trash"}

LEMMA DoingIs ==
    ASSUME NEW step \in WriterSteps, NEW c \in Changes, NEW held \in SUBSET Entry,
           NEW freed \in BOOLEAN
    PROVE  Doing(step, c, held, freed) \in Doings
  BY DEF Doing, Doings, WriterSteps

LEMMA BusyIs ==
    ASSUME NEW j \in Doings, j.step \in WriterSteps
    PROVE  j.change \in Changes /\ j.tasks \subseteq Entry /\ j.freed \in BOOLEAN
  BY DEF Doings, AtRest, WriterSteps

LEMMA ChangedIs ==
    ASSUME NEW c \in Changes, NEW list \in SUBSET Entry
    PROVE  c.skill \in Skills /\ Changed(c, list) \in SUBSET Entry
  <1>1. c.skill \in Skills
    BY DEF Changes
  <1>2. c.op \in {"append", "patch", "set"} => [skill |-> c.skill, at |-> c.at] \in Entry
    BY DEF Changes, Entry
  <1>3. QED
    BY <1>1, <1>2 DEF Changed, Of

LEMMA WriterStep ==
    ASSUME Kept, NEW w \in Writers, NEW j \in Doings, writer' = [writer EXCEPT ![w] = j]
    PROVE  writer' \in [Writers -> Doings]
  BY DEF Kept

(* What a writer leaves alone, and that its writes are heard of.              *)
LEMMA WrittenSound ==
    ASSUME Sound,
           UNCHANGED <<now, up, timers, cronIDs, shots, watcher, copy, recent, crashes, ran>>,
           tasks' \subseteq Entry, crons' \subseteq Skills, skills' \subseteq Skills,
           writer' \in [Writers -> Doings], ops' \in Nat,
           Written \/ UNCHANGED <<tasks, crons, events, missed>>
    PROVE  Sound'
  <1>0. Kept /\ Alive /\ Aimed /\ Synced
    BY DEF Sound
  <1>1. Alive' /\ Aimed' /\ \A list, bound : Follows(list, bound) => Follows(list, bound)'
    BY <1>0, TimersStay
  <1>2. CASE Written
    <2>1. events' \in Nat /\ missed' \in BOOLEAN /\ ~(events' = 0 /\ ~missed')
      BY <1>0, <1>2, Heard
    <2>2. Kept'
      BY <1>0, <2>1 DEF Kept
    <2>3. Synced'
      BY <1>0, <2>1 DEF Synced
    <2>4. QED
      BY <1>1, <2>2, <2>3 DEF Sound
  <1>3. CASE UNCHANGED <<tasks, crons, events, missed>>
    <2>1. Kept'
      BY <1>0, <1>3 DEF Kept
    <2>2. Synced'
      BY <1>0, <1>1, <1>3, SyncStays
    <2>3. QED
      BY <1>1, <2>1, <2>2 DEF Sound
  <1>4. QED
    BY <1>2, <1>3

LEMMA WriterSound ==
    ASSUME Sound, NEW w \in Writers, Write(w)
    PROVE  Sound'
  <1>0. /\ Kept /\ writer \in [Writers -> Doings] /\ writer[w] \in Doings
        /\ tasks \in SUBSET Entry /\ crons \subseteq Skills /\ skills \subseteq Skills /\ ops \in Nat
    BY DEF Sound, Kept
  <1> USE DEF files, memory, watching, counts
  <1>1. AtRest \in Doings
    BY DEF Doings
  <1>2. ASSUME NEW c \in Changes, LoadTasks(w, c) PROVE Sound'
    <2>1. c.skill \in Skills /\ ops' \in Nat
      BY <1>0, <1>2, ChangedIs, SMTT(60) DEF LoadTasks
    <2>2. crons' \subseteq Skills /\ skills' \subseteq Skills
      BY <1>0, <1>2, <2>1 DEF LoadTasks
    <2>3. PICK j \in Doings : writer' = [writer EXCEPT ![w] = j]
      <3>1. /\ Doing("trash", c, {}, TRUE) \in Doings
            /\ Doing("save", c, tasks, crons' # crons) \in Doings
        BY <1>0, DoingIs DEF WriterSteps
      <3>2. QED
        BY <1>1, <1>2, <3>1 DEF LoadTasks
    <2>4. writer' \in [Writers -> Doings]
      BY <1>0, <2>3, WriterStep
    <2>5. Written \/ UNCHANGED <<tasks, crons, events, missed>>
      BY <1>2 DEF LoadTasks
    <2>6. UNCHANGED <<now, tasks, up, timers, cronIDs, shots, watcher, copy, recent, crashes, ran>>
      BY <1>2 DEF LoadTasks
    <2>7. QED
      BY <1>0, <2>1, <2>2, <2>4, <2>5, <2>6, WrittenSound
  <1>3. CASE SaveTasks(w)
    <2>1. /\ writer[w].change \in Changes /\ writer[w].tasks \in SUBSET Entry
          /\ writer[w].freed \in BOOLEAN
      BY <1>0, <1>3, BusyIs DEF SaveTasks, WriterSteps
    <2>2. Changed(writer[w].change, writer[w].tasks) \in SUBSET Entry
      BY <2>1, ChangedIs
    <2>3. PICK j \in Doings : writer' = [writer EXCEPT ![w] = j]
      <3>1. /\ Doing("trash", writer[w].change, {}, TRUE) \in Doings
            /\ Doing("bind", writer[w].change, {}, FALSE) \in Doings
        BY <2>1, DoingIs DEF WriterSteps
      <3>2. QED
        BY <1>1, <1>3, <3>1 DEF SaveTasks
    <2>4. writer' \in [Writers -> Doings]
      BY <1>0, <2>3, WriterStep
    <2>5. /\ Written \/ UNCHANGED <<tasks, crons, events, missed>>
          /\ tasks' \subseteq Entry
      BY <1>0, <1>3, <2>2 DEF SaveTasks
    <2>6. UNCHANGED <<now, crons, skills, up, timers, cronIDs, shots, watcher, copy, recent,
                      crashes, ran, ops>>
      BY <1>3 DEF SaveTasks
    <2>7. QED
      BY <1>0, <2>4, <2>5, <2>6, WrittenSound
  <1>4. CASE SetCrons(w)
    <2>1. writer[w].change \in Changes
      BY <1>0, <1>4, BusyIs DEF SetCrons, WriterSteps
    <2>2. writer[w].change.skill \in Skills
      BY <2>1 DEF Changes
    <2>3. writer' \in [Writers -> Doings]
      BY <1>0, <1>1, <1>4, WriterStep DEF SetCrons
    <2>4. /\ crons' \subseteq Skills /\ Written
          /\ UNCHANGED <<now, tasks, skills, up, timers, cronIDs, shots, watcher, copy, recent,
                         crashes, ran, ops>>
      BY <1>0, <1>4, <2>2 DEF SetCrons
    <2>5. QED
      BY <1>0, <2>3, <2>4, WrittenSound
  <1>5. CASE TrashSkill(w)
    <2>1. writer' \in [Writers -> Doings]
      BY <1>0, <1>1, <1>5, WriterStep DEF TrashSkill
    <2>2. /\ skills' \subseteq Skills
          /\ UNCHANGED <<now, tasks, crons, up, timers, cronIDs, shots, watcher, copy, recent,
                         events, missed, crashes, ran, ops>>
      BY <1>0, <1>5 DEF TrashSkill
    <2>3. QED
      BY <1>0, <2>1, <2>2, WrittenSound
  <1>6. QED
    BY <1>2, <1>3, <1>4, <1>5 DEF Write

LEMMA SoundStep == Sound /\ [SchedulerNext]_schedulerVars => Sound'
  <1> SUFFICES ASSUME Sound, [SchedulerNext]_schedulerVars PROVE Sound'
    OBVIOUS
  <1>1. CASE SchedulerNext
    BY <1>1, ClockSound, WatchSound, CallbackSound, WriterSound DEF SchedulerNext
  <1>2. CASE UNCHANGED schedulerVars
    <2>1. UNCHANGED <<now, tasks, crons, skills, up, timers, cronIDs, shots, watcher, copy, recent,
                      events, missed, writer, ops, crashes, ran>>
      BY <1>2 DEF schedulerVars, files, memory, watching, counts
    <2>2. QED
      BY <2>1 DEF Sound, Kept, Alive, Aimed, Synced, Follows, OnDisk
  <1>3. QED
    BY <1>1, <1>2

LEMMA SoundAlways == SchedulerSpec => []Sound
  <1>1. SchedulerInit => Sound
    BY InitSound
  <1>2. Sound /\ [SchedulerNext]_schedulerVars => Sound'
    BY SoundStep
  <1>3. QED
    BY <1>1, <1>2, PTL DEF SchedulerSpec

(* Types, and that a timer of the map is one that may still fire or whose     *)
(* callback has just begun: reload (scheduler.go) takes no dead timer for one *)
(* that is armed.                                                             *)
THEOREM TimersAlive == SchedulerSpec => []SchedulerTypeOK
  <1>1. Sound => SchedulerTypeOK
    BY DEF Sound, Kept, Alive, SchedulerTypeOK, Shots
  <1>2. QED
    BY <1>1, SoundAlways, PTL

(* Timers and crons are those of the files once the watcher has caught up     *)
(* without having missed a write (scheduler.go reload, Watcher).              *)
THEOREM TimersAreTheFile == SchedulerSpec => []TimersFollowFile
  <1>1. Sound => TimersFollowFile
    <2> SUFFICES ASSUME Sound, UpToDate PROVE TimersFollowFile
      BY DEF TimersFollowFile
    <2>1. Aimed /\ Follows(tasks, crons)
      BY DEF Sound, Synced, UpToDate
    <2>2. ASSUME NEW e \in Entry, e.at > now
          PROVE  Cardinality({s \in shots : s.entry = e /\ s.step = "armed"})
                     = IF e \in tasks THEN 1 ELSE 0
      <3> DEFINE armed == {s \in shots : s.entry = e /\ s.step = "armed"}
                 mine  == {s \in shots : s.entry = e}
                 one   == Shot(e, timers[e], "armed")
      <3>1. mine = IF timers[e] = 0 THEN {} ELSE {one}
        BY <2>1, <2>2 DEF Aimed
      <3>2. armed = {s \in mine : s.step = "armed"} /\ one.step = "armed"
        BY DEF Shot
      <3>3. timers[e] # 0 <=> e \in tasks
        BY <2>1, <2>2 DEF Follows
      <3> HIDE DEF armed, mine, one
      <3>4. armed = IF e \in tasks THEN {one} ELSE {}
        BY <3>1, <3>2, <3>3
      <3>5. Cardinality({one}) = 1 /\ Cardinality({}) = 0
        BY FS_Singleton, FS_EmptySet
      <3>6. Cardinality(armed) = IF e \in tasks THEN 1 ELSE 0
        BY <3>4, <3>5
      <3>7. QED
        BY <3>6 DEF armed
    <2>3. QED
      BY <2>1, <2>2 DEF TimersFollowFile, Follows
  <1>2. QED
    BY <1>1, SoundAlways, PTL
=============================================================================
