----------------------------- MODULE McpManager -----------------------------
(* The manager of the connections to MCP servers (internal/runtime/mcp):      *)
(* its map of clients, the tools it has registered for each server, and those *)
(* who connect, reconnect and remove one: the daemon as it starts, tool calls *)
(* and the poll when their session is lost, and the user.                     *)
(*                                                                            *)
(* m.mu guards the map, but not the conversations with a server (except those *)
(* of Reconnect): a step below is what happens under m.mu, or one such        *)
(* conversation.  The registry of tools has a lock of its own, and            *)
(* reconnectMu keeps renewals apart from each other, not from the user.       *)
(* A server is seen to have one tool, a new version of it for each change of  *)
(* its catalog.                                                               *)

EXTENDS Naturals, Sequences

CONSTANTS
    Servers,
    Daemon,      \* the goroutine that makes the manager
    Poller,      \* the one of Watch
    Goroutines,  \* of tool calls, of notifications and of the user's requests
    Clients,     \* the clients there may be at a time
    MaxCatalog,  \* changes of a server's catalog
    None

Actors == {Daemon, Poller} \cup Goroutines

ASSUME McpAssumption ==
    /\ MaxCatalog \in Nat /\ None \notin Nat \cup Servers \cup Clients \cup Actors
    /\ Daemon # Poller /\ {Daemon, Poller} \cap Goroutines = {}

VARIABLES
    clients,   \* m.clients
    toolsSum,  \* m.toolsSum
    open,      \* clients whose session is not closed
    renewals,  \* those of them that a renewal has connected
    defs,      \* the definitions of each server's tool in the registry
    renewer,   \* who holds reconnectMu
    catalog,   \* what each server offers
    listed,    \* the servers of mcp.json
    job,       \* what each actor is doing
    round,     \* the clients the poll has still to visit
    disturbed, \* servers whose tools went, or came twice, under a client in use
    overtaken, \* servers a reconnect was at when they left mcp.json, or that came
               \* back to it while they were being removed
    gone       \* servers the user has removed

sessions == <<clients, open, renewals>>
tools    == <<toolsSum, defs>>
world    == <<catalog, listed>>
past     == <<disturbed, overtaken, gone>>
vars     == <<sessions, tools, renewer, world, job, round, past>>

(* An actor at a server, with the client it uses and what it was told: a      *)
(* catalog, or the servers of mcp.json.                                       *)
Job(step, s, c, told) == [step |-> step, server |-> s, own |-> c, told |-> told]
Idle == Job("idle", None, None, None)
Done == Job("done", None, None, None)

Init ==
    /\ clients = [s \in Servers |-> None] /\ open = {} /\ renewals = {}
    /\ toolsSum = [s \in Servers |-> None] /\ defs = [s \in Servers |-> <<>>]
    /\ renewer = None /\ catalog = [s \in Servers |-> 0] /\ listed = Servers
    /\ job = [a \in Actors |->
                 IF a = Daemon THEN Job("connectAll", None, None, Servers) ELSE Idle]
    /\ round = {} /\ disturbed = {} /\ overtaken = {} /\ gone = {}

-----------------------------------------------------------------------------
(* Steps of an actor.                                                         *)

Ready == job[Daemon] = Done

At(a, step) == job[a].step = step
Server(a) == job[a].server
Own(a) == job[a].own

Becomes(a, j) == job' = [job EXCEPT ![a] = j]
Goto(a, step) == Becomes(a, [job[a] EXCEPT !.step = step])
With(a, step, c) == Becomes(a, [job[a] EXCEPT !.step = step, !.own = c])

Rest(a) == IF a = Poller THEN Idle ELSE Done

(* A client answers until it is closed, but any error of the SDK counts as a  *)
(* lost session, so it may fail before.                                       *)
Answers(c) == c \in open

(* One that is closed and in nobody's hands is not told from one that never   *)
(* was.                                                                       *)
Fresh ==
    Clients \ (open \cup {clients[s] : s \in Servers} \cup {Own(a) : a \in Actors}
                    \cup {visit[2] : visit \in round})

(* The operation of a is over, without an error or with one; a renewal lets   *)
(* reconnectMu go.  The call that is made once more then with the client that *)
(* is found, changes nothing here.                                            *)
Return(a) ==
    /\ Becomes(a, Rest(a))
    /\ renewer' = IF renewer = a THEN None ELSE renewer

-----------------------------------------------------------------------------
(* ReconnectServer: Disconnect, newClient, refresh.  A server that has left   *)
(* mcp.json is not reconnected.                                               *)

Disconnect(s) ==
    /\ open' = open \ {clients[s]} /\ renewals' = renewals \ {clients[s]}
    /\ clients' = [clients EXCEPT ![s] = None]
    /\ toolsSum' = [toolsSum EXCEPT ![s] = None]

(* Mutant: whether the server is still in mcp.json is not asked.              *)
InConfigOnce(s) == TRUE

InConfig(s) == s \in listed

Reconnect(a) ==
    /\ At(a, "reconnect") /\ InConfig(Server(a))
    /\ Disconnect(Server(a))
    /\ With(a, "remove", None)
    /\ UNCHANGED <<defs, renewer, world, round, past>>

NotListed(a) ==
    /\ At(a, "reconnect") /\ ~InConfig(Server(a))
    /\ Return(a)
    /\ UNCHANGED <<sessions, tools, world, round, past>>

(* RemoveByPrefix, after m.mu was released: the tools that go may be those of *)
(* a client that another has stored by now.                                   *)
Removed(s) ==
    /\ defs' = [defs EXCEPT ![s] = <<>>]
    /\ disturbed' = IF clients[s] = None THEN disturbed ELSE disturbed \cup {s}

RemoveTools(a) ==
    /\ At(a, "remove")
    /\ Removed(Server(a))
    /\ Goto(a, "connect")
    /\ UNCHANGED <<sessions, toolsSum, renewer, world, round, overtaken, gone>>

Connect(a) ==
    /\ At(a, "connect") /\ Fresh # {}
    /\ LET c == CHOOSE c \in Fresh : TRUE
       IN  /\ open' = open \cup {c}
           /\ renewals' = IF renewer = a THEN renewals \cup {c} ELSE renewals
           /\ With(a, "store", c)
    /\ UNCHANGED <<clients, tools, renewer, world, round, past>>

ConnectFails(a) ==
    /\ At(a, "connect")
    /\ Return(a)
    /\ UNCHANGED <<sessions, tools, world, round, past>>

(* What another has stored meanwhile is overwritten, and stays open.          *)
Store(a) ==
    /\ At(a, "store")
    /\ clients' = [clients EXCEPT ![Server(a)] = Own(a)]
    /\ With(a, "refresh", None)
    /\ UNCHANGED <<open, renewals, tools, renewer, world, round, past>>

-----------------------------------------------------------------------------
(* refresh.                                                                   *)

Refresh(a) ==
    /\ At(a, "refresh")
    /\ IF clients[Server(a)] = None THEN Return(a)
       ELSE With(a, "list", clients[Server(a)]) /\ UNCHANGED renewer
    /\ UNCHANGED <<sessions, tools, world, round, past>>

List(a) ==
    /\ At(a, "list") /\ Answers(Own(a))
    /\ Becomes(a, Job("register", Server(a), Own(a), catalog[Server(a)]))
    /\ UNCHANGED <<sessions, tools, renewer, world, round, past>>

ListFails(a) ==
    /\ At(a, "list")
    /\ Return(a)
    /\ UNCHANGED <<sessions, tools, world, round, past>>

(* Mutant: only whether there is a client.                                    *)
CurrentAny(a) == TRUE

(* Whether a may register what its client has told it.                        *)
Current(a) == clients[Server(a)] = Own(a)

Register(a) ==
    /\ At(a, "register")
    /\ Return(a)
    /\ IF Current(a)
       THEN /\ defs' = [defs EXCEPT ![Server(a)] = <<job[a].told>>]
            /\ toolsSum' = [toolsSum EXCEPT ![Server(a)] = job[a].told]
            /\ disturbed' = disturbed \ {Server(a)}
       ELSE UNCHANGED <<defs, toolsSum, disturbed>>
    /\ UNCHANGED <<sessions, world, round, overtaken, gone>>

-----------------------------------------------------------------------------
(* Call, and renewClient for those whose session is lost: whoever comes       *)
(* second takes the client of the first.                                      *)

Call(a, s) ==
    /\ Ready /\ job[a] = Idle /\ clients[s] # None
    /\ Becomes(a, Job("called", s, clients[s], None))
    /\ UNCHANGED <<sessions, tools, renewer, world, round, past>>

(* An answer, an error of the tool, or a run that was cancelled.              *)
CallEnds(a) ==
    /\ At(a, "called")
    /\ Becomes(a, Done)
    /\ UNCHANGED <<sessions, tools, renewer, world, round, past>>

(* Mutant: whoever waited for reconnectMu renews too.                         *)
StaleAny(a) == TRUE

Stale(a) == clients[Server(a)] \in {None, Own(a)}

Renew(a) ==
    /\ At(a, "called") \/ At(a, "polled")
    /\ renewer = None
    /\ IF Stale(a)
       THEN Goto(a, "reconnect") /\ renewer' = a
       ELSE Becomes(a, Rest(a)) /\ UNCHANGED renewer
    /\ UNCHANGED <<sessions, tools, world, round, past>>

-----------------------------------------------------------------------------
(* Watch and poll: round after round over the clients there were.  A client   *)
(* that does not list its tools has lost its session (Renew).                 *)

Tick ==
    /\ Ready /\ job[Poller] = Idle /\ round = {}
    /\ round' = {<<s, clients[s]>> : s \in {t \in Servers : clients[t] # None}}
    /\ UNCHANGED <<sessions, tools, renewer, world, job, past>>

Visit ==
    /\ job[Poller] = Idle
    /\ \E visit \in round :
          /\ Becomes(Poller, Job("polled", visit[1], visit[2], None))
          /\ round' = round \ {visit}
    /\ UNCHANGED <<sessions, tools, renewer, world, past>>

PollList ==
    /\ At(Poller, "polled") /\ Answers(Own(Poller))
    /\ Becomes(Poller, Job("compare", Server(Poller), None, catalog[Server(Poller)]))
    /\ UNCHANGED <<sessions, tools, renewer, world, round, past>>

(* Mutant: a server that has tools is not compared.                           *)
UnchangedAny == toolsSum[Server(Poller)] # None

Unchanged == toolsSum[Server(Poller)] = job[Poller].told

Compare ==
    /\ At(Poller, "compare")
    /\ Becomes(Poller, IF Unchanged THEN Idle
                       ELSE Job("refresh", Server(Poller), None, None))
    /\ UNCHANGED <<sessions, tools, renewer, world, round, past>>

-----------------------------------------------------------------------------
(* The user: reconnects one server, takes one off the list and disconnects it *)
(* (the dashboard only takes it off), adds one, or reconnects all of them.    *)

Takes(u, s, step) == Ready /\ job[u] = Idle /\ Becomes(u, Job(step, s, None, None))

(* Whoever has read mcp.json and not yet stored the client of s.              *)
InHand(s) ==
    \E a \in Actors :
        \/ Server(a) = s /\ job[a].step \in {"remove", "connect", "store"}
        \/ At(a, "connectAll") /\ s \in job[a].told

(* Whoever has removed s and not yet disconnected it.                         *)
Removing(s) == \E a \in Actors : Server(a) = s /\ job[a].step \in {"disconnect", "forget"}

UserReconnects(u, s) ==
    /\ Takes(u, s, "reconnect")
    /\ UNCHANGED <<sessions, tools, renewer, world, round, past>>

UserRemoves(u, s) ==
    /\ s \in listed
    /\ Takes(u, s, "disconnect") \/ (Ready /\ job[u] = Idle /\ Becomes(u, Done))
    /\ listed' = listed \ {s}
    /\ overtaken' = IF InHand(s) THEN overtaken \cup {s} ELSE overtaken
    /\ UNCHANGED <<sessions, tools, renewer, catalog, round, disturbed, gone>>

UserAdds(u, s) ==
    /\ Ready /\ job[u] = Idle /\ s \notin listed
    /\ Becomes(u, Done)
    /\ listed' = listed \cup {s}
    /\ overtaken' = IF Removing(s) THEN overtaken \cup {s} ELSE overtaken \ {s}
    /\ gone' = gone \ {s}
    /\ UNCHANGED <<sessions, tools, renewer, catalog, round, disturbed>>

DisconnectServer(u) ==
    /\ At(u, "disconnect")
    /\ Disconnect(Server(u))
    /\ Goto(u, "forget")
    /\ UNCHANGED <<defs, renewer, world, round, past>>

Forget(u) ==
    /\ At(u, "forget")
    /\ Removed(Server(u))
    /\ gone' = gone \cup ({Server(u)} \ listed)
    /\ Becomes(u, Done)
    /\ UNCHANGED <<sessions, toolsSum, renewer, world, round, overtaken>>

UserReconnectsAll(u) ==
    /\ Ready /\ job[u] = Idle
    /\ open' = open \ {clients[s] : s \in Servers}
    /\ renewals' = renewals \ {clients[s] : s \in Servers}
    /\ clients' = [s \in Servers |-> None] /\ toolsSum' = [s \in Servers |-> None]
    /\ Becomes(u, Job("removeAll", None, None, None))
    /\ UNCHANGED <<defs, renewer, world, round, past>>

(* mcp.json may be unreadable.                                                *)
RemoveAll(u) ==
    /\ At(u, "removeAll")
    /\ defs' = [s \in Servers |-> <<>>]
    /\ disturbed' = disturbed \cup {s \in Servers : clients[s] # None}
    /\ Becomes(u, Job("connectAll", None, None, listed)) \/ Becomes(u, Done)
    /\ UNCHANGED <<sessions, toolsSum, renewer, world, round, overtaken, gone>>

(* All of it under m.mu.                                                      *)
ConnectAll(a) ==
    /\ At(a, "connectAll")
    /\ \E up \in SUBSET job[a].told, pick \in [Servers -> Fresh \cup {None}] :
          /\ \A s \in Servers : s \in up <=> pick[s] # None
          /\ \A s, t \in up : s # t => pick[s] # pick[t]
          /\ clients' = [s \in Servers |-> IF s \in up THEN pick[s] ELSE clients[s]]
          /\ open' = open \cup {pick[s] : s \in up}
    /\ Becomes(a, Job("registerAll", None, None, None))
    /\ UNCHANGED <<renewals, tools, renewer, world, round, past>>

(* Regist appends a definition to those it finds.                             *)
RegisterAll(a) ==
    /\ At(a, "registerAll")
    /\ \E told \in SUBSET {s \in Servers : clients[s] \in open} :
          /\ defs' = [s \in Servers |->
                         IF s \in told THEN Append(defs[s], catalog[s]) ELSE defs[s]]
          /\ toolsSum' = [s \in Servers |-> IF s \in told THEN catalog[s] ELSE toolsSum[s]]
          /\ disturbed' = disturbed \cup {s \in told : defs[s] # <<>>}
    /\ Becomes(a, Done)
    /\ UNCHANGED <<sessions, renewer, world, round, overtaken, gone>>

-----------------------------------------------------------------------------
(* The servers: a catalog changes, and a client may be notified of it; the    *)
(* goroutine of the notification may be late.                                 *)

CatalogChanges(s) ==
    /\ catalog[s] < MaxCatalog
    /\ catalog' = [catalog EXCEPT ![s] = @ + 1]
    /\ UNCHANGED <<sessions, tools, renewer, listed, job, round, past>>

Notify(r, s) ==
    /\ job[r] = Idle /\ clients[s] \in open
    /\ Becomes(r, Job("refresh", s, None, None))
    /\ UNCHANGED <<sessions, tools, renewer, world, round, past>>

-----------------------------------------------------------------------------

ReconnectStep(a) ==
    \/ Reconnect(a) \/ NotListed(a) \/ RemoveTools(a)
    \/ Connect(a) \/ ConnectFails(a) \/ Store(a)

RefreshStep(a) == Refresh(a) \/ List(a) \/ ListFails(a) \/ Register(a)

CallStep(a) == CallEnds(a) \/ Renew(a)

PollStep == Tick \/ Visit \/ PollList \/ Compare

UserStep(u) == DisconnectServer(u) \/ Forget(u) \/ RemoveAll(u)

AllStep(a) == ConnectAll(a) \/ RegisterAll(a)

Step(a) ==
    \/ ReconnectStep(a) \/ RefreshStep(a) \/ CallStep(a)
    \/ UserStep(a) \/ AllStep(a)

(* A request comes, a server changes.                                         *)
Begin ==
    \/ \E g \in Goroutines, s \in Servers :
          \/ Call(g, s) \/ Notify(g, s)
          \/ UserReconnects(g, s) \/ UserRemoves(g, s) \/ UserAdds(g, s)
    \/ \E g \in Goroutines : UserReconnectsAll(g)
    \/ \E s \in Servers : CatalogChanges(s)

Next == Begin \/ PollStep \/ \E a \in Actors : Step(a)

(* Goroutines keep running and the poll ticks.  A server answers or fails,    *)
(* but does not fail the refreshes of the poll for ever; when calls and       *)
(* requests come, and whether a notification does, is open.                   *)
Spec ==
    /\ Init /\ [][Next]_vars
    /\ \A a \in Actors : WF_vars(Step(a))
    /\ WF_vars(PollStep) /\ SF_vars(List(Poller))

-----------------------------------------------------------------------------

TypeOK ==
    /\ clients \in [Servers -> Clients \cup {None}]
    /\ toolsSum \in [Servers -> (0..MaxCatalog) \cup {None}]
    /\ open \subseteq Clients /\ renewals \subseteq Clients
    /\ defs \in [Servers -> Seq(0..MaxCatalog)]
    /\ renewer \in Actors \cup {None}
    /\ catalog \in [Servers -> 0..MaxCatalog] /\ listed \subseteq Servers
    /\ DOMAIN job = Actors
    /\ round \subseteq Servers \X Clients
    /\ disturbed \subseteq Servers /\ overtaken \subseteq Servers /\ gone \subseteq Servers

(* A model is only offered the tools of a server that is connected, except    *)
(* while whoever has disconnected it is about to take them away: a refresh    *)
(* that was told of them before does not bring them back.                     *)
ToolsHaveServer ==
    \A s \in Servers :
        defs[s] # <<>> /\ clients[s] = None =>
            \E a \in Actors :
                \/ Server(a) = s /\ job[a].step \in {"remove", "forget"}
                \/ At(a, "removeAll")

(* Calls and polls that lost the same session renew it once: what one of them *)
(* has connected is not closed by another that has not seen it fail.          *)
RenewalsSpareOthers ==
    [][\A a \in Actors, c \in Clients :
          renewer = a /\ At(a, "reconnect") /\ job'[a] # job[a]
              /\ c \in open /\ c \notin open'
          => c = Own(a) \/ c \notin renewals]_vars

(* A server the user has removed stays disconnected and without tools, unless *)
(* a reconnect had read mcp.json before it left that file, or another user    *)
(* put it back meanwhile.                                                     *)
RemovedStaysGone ==
    \A s \in gone \ overtaken : clients[s] = None /\ defs[s] = <<>>

(* While a listed server stays connected its tools get to be those of its     *)
(* catalog (a lost notification is made up for by the poll), unless a Disconnect took *)
(* them away under a client another has stored, or RegisterAll added them to  *)
(* those another has registered.                                              *)
CatalogFollowed ==
    \A s \in Servers :
        <>[](s \in listed /\ clients[s] # None /\ s \notin disturbed)
            => <>[](defs[s] = <<catalog[s]>>)
=============================================================================
