---------------------------------- MODULE Mcp ----------------------------------
(****************************************************************************)
(* MCPManager: its servers, each a client over a transport, and its health   *)
(* monitoring.  A server is an instance: what add_server() created.  Its n-th *)
(* connect() makes the session n, and the connection n if the transport has  *)
(* none.                                                                      *)
(****************************************************************************)
EXTENDS Tasks, FiniteSets

CONSTANTS
    Server,         \* names of servers
    MaxAdded,       \* bound: servers added
    MaxConnects,    \* bound: connects of one instance that begin
    MaxLoops        \* bound: health loops started

ASSUME McpAssumption ==
    /\ {MaxAdded, MaxConnects, MaxLoops} \subseteq Nat
    /\ Server # {}

VARIABLES
    added,          \* instances so far
    clients,        \* MCPManager.clients: the instance of each name, or 0
    transports,     \* MCPTransportManager.transports, likewise
    connected,      \* _connected_servers
    links,          \* the client and the transport of each instance
    background,     \* instances whose transport remove_transport() disconnects
    linking,        \* what each task is at
    monitor,        \* _health_check_task: the loop last started, or 0
    loops,          \* loops that have not ended
    cancelled       \* loops asked to end

serverVars == <<added, clients, transports, connected, links, background>>
monitorVars == <<monitor, loops, cancelled>>
mcpVars == <<serverVars, monitorVars, linking>>

Instance == 1..MaxAdded
Made == 0..MaxConnects

\* opened and kept are what the operating system knows: the connections that
\* are open, and whether one may have been given up, its close having failed,
\* two tasks being at the server at once, or another server taking its name.
Link ==
    [made : Made, client : BOOLEAN, session : Made, transport : BOOLEAN, context : Made,
     opened : SUBSET Made, kept : BOOLEAN]

NewLink ==
    [made |-> 0, client |-> FALSE, session |-> 0, transport |-> FALSE, context |-> 0,
     opened |-> {}, kept |-> FALSE]

Linking ==
    [at : {"idle", "opening", "entering", "initializing", "ending", "closing", "stopping"},
     removes : BOOLEAN, name : Server, instance : 0..MaxAdded, n : Nat]

AtRest == [at |-> "idle", removes |-> FALSE, name |-> CHOOSE s \in Server : TRUE,
           instance |-> 0, n |-> 0]

McpInit ==
    /\ added = 0
    /\ clients = [s \in Server |-> 0]
    /\ transports = [s \in Server |-> 0]
    /\ connected = {}
    /\ links = [i \in Instance |-> NewLink]
    /\ background = {}
    /\ linking = [t \in Task |-> AtRest]
    /\ monitor = 0
    /\ loops = {}
    /\ cancelled = {}

BusyBut(t, i) == i \in background \/ \E u \in Task \ {t} : linking[u].instance = i

BusyAt(i) == i \in background \/ \E t \in Task : linking[t].instance = i

(****************************************************************************)
(* Adding a server, and forgetting its name.                                 *)
(****************************************************************************)

\* add_transport() replaces a transport of the name without closing it.
TransportAdded(s, i) ==
    LET old == transports[s]
    IN  /\ transports' = [transports EXCEPT ![s] = i]
        /\ links' = IF old = 0 THEN links ELSE [links EXCEPT ![old].kept = TRUE]

AddServer(s) ==
    /\ added < MaxAdded
    /\ added' = added + 1
    /\ TransportAdded(s, added + 1)
    /\ clients' = [clients EXCEPT ![s] = added + 1]
    /\ UNCHANGED <<now, connected, background, linking, monitorVars>>

ForgetsClientOnly(s, link) ==
    /\ clients' = [clients EXCEPT ![s] = 0]
    /\ transports' = IF link[transports[s]].transport
                     THEN [transports EXCEPT ![s] = 0] ELSE transports
    /\ UNCHANGED background

\* remove_transport() disconnects a transport that is connected in a task of
\* its own.
Forgets(s, link) ==
    LET i == transports[s]
    IN  /\ clients' = [clients EXCEPT ![s] = 0]
        /\ transports' = [transports EXCEPT ![s] = 0]
        /\ background' = IF i # 0 /\ link[i].transport THEN background \cup {i}
                         ELSE background

(****************************************************************************)
(* connect_server(), over MCPClient.connect() and MCPTransport.connect().    *)
(****************************************************************************)

\* Two tasks at one instance: what they leave is not accounted for.
Starts(t, s, i, at, removes, n, link) ==
    /\ linking' = [linking EXCEPT ![t] =
           [at |-> at, removes |-> removes, name |-> s, instance |-> i, n |-> n]]
    /\ links' = [links EXCEPT ![i] = [link EXCEPT !.kept = link.kept \/ BusyAt(i)]]

ConnectKnown(t, s) ==
    /\ linking[t].at = "idle"
    /\ clients[s] # 0
    /\ links[clients[s]].client
    /\ connected' = connected \cup {s}
    /\ UNCHANGED <<now, added, clients, transports, links, background, linking, monitorVars>>

\* A transport that is connected answers with its streams at once.
ConnectBegins(t, s) ==
    LET i == clients[s]
        n == links[i].made + 1
    IN  /\ linking[t].at = "idle"
        /\ i # 0
        /\ ~links[i].client
        /\ n \in Made
        /\ IF links[i].transport
           THEN Starts(t, s, i, "entering", FALSE, n, [links[i] EXCEPT !.made = n, !.session = n])
           ELSE Starts(t, s, i, "opening", FALSE, n, [links[i] EXCEPT !.made = n, !.context = n])
        /\ UNCHANGED <<now, added, clients, transports, connected, background, monitorVars>>

\* The context is entered, the session is made over its streams.
Opened(t) ==
    LET a == linking[t]
    IN  /\ a.at = "opening"
        /\ links' = [links EXCEPT ![a.instance].opened = @ \cup {a.n},
                                  ![a.instance].transport = TRUE,
                                  ![a.instance].session = a.n]
        /\ linking' = [linking EXCEPT ![t].at = "entering"]
        /\ UNCHANGED <<now, added, clients, transports, connected, background, monitorVars>>

\* initialize() is called on the session that is then the client's.
Entered(t) ==
    LET a == linking[t]
    IN  /\ a.at = "entering"
        /\ linking' = [linking EXCEPT ![t] =
               IF links[a.instance].session = 0 THEN AtRest
               ELSE [a EXCEPT !.at = "initializing", !.n = links[a.instance].session]]
        /\ UNCHANGED <<now, serverVars, monitorVars>>

\* The name is connected, also if it has been removed meanwhile.
Initialized(t) ==
    LET a == linking[t]
    IN  /\ a.at = "initializing"
        /\ links' = [links EXCEPT ![a.instance].client = TRUE]
        /\ connected' = connected \cup {a.name}
        /\ linking' = [linking EXCEPT ![t] = AtRest]
        /\ UNCHANGED <<now, added, clients, transports, background, monitorVars>>

\* connect_server() answers False; what was set up stays.
ConnectFails(t) ==
    /\ linking[t].at \in {"opening", "entering", "initializing"}
    /\ linking' = [linking EXCEPT ![t] = AtRest]
    /\ UNCHANGED <<now, serverVars, monitorVars>>

(****************************************************************************)
(* disconnect_server() and remove_server(), over MCPClient.disconnect() and  *)
(* MCPTransport.disconnect().                                                 *)
(****************************************************************************)

\* What follows the client's disconnect: the name is discarded, and a removal
\* forgets it, whatever server has it now, unless another task has done so.
Follows(t, s, i, removes, link) ==
    /\ connected' = connected \ {s}
    /\ linking' = [linking EXCEPT ![t] = AtRest]
    /\ IF removes /\ clients[s] # 0
       THEN /\ Forgets(s, link)
            /\ links' = [link EXCEPT ![clients[s]].kept =
                             @ \/ clients[s] # i \/ BusyBut(t, clients[s])]
       ELSE /\ links' = link
            /\ UNCHANGED <<clients, transports, background>>
    /\ UNCHANGED <<now, added, monitorVars>>

\* A client that is not connected has nothing to disconnect.
DisconnectIdle(t, s) ==
    /\ linking[t].at = "idle"
    /\ clients[s] # 0
    /\ ~links[clients[s]].client
    /\ Follows(t, s, clients[s], FALSE, links)

RemoveUnconnected(t, s) ==
    /\ linking[t].at = "idle"
    /\ clients[s] # 0
    /\ s \notin connected \/ ~links[clients[s]].client
    /\ Follows(t, s, clients[s], TRUE, links)

\* A transport that is not connected, or has no context, has nothing to await.
Closable(link) == link.transport /\ link.context # 0

\* The client ends its session, or goes on to its transport if it has none.
DisconnectBegins(t, s, removes) ==
    LET i == clients[s]
    IN  /\ linking[t].at = "idle"
        /\ i # 0
        /\ links[i].client
        /\ removes => s \in connected
        /\ links[i].session # 0 \/ Closable(links[i])
        /\ IF links[i].session # 0
           THEN Starts(t, s, i, "ending", removes, 0, links[i])
           ELSE Starts(t, s, i, "closing", removes, links[i].context, links[i])
        /\ UNCHANGED <<now, added, clients, transports, connected, background, monitorVars>>

DisconnectBare(t, s, removes) ==
    LET i == clients[s]
    IN  /\ linking[t].at = "idle"
        /\ i # 0
        /\ links[i].client
        /\ removes => s \in connected
        /\ links[i].session = 0
        /\ ~Closable(links[i])
        /\ Follows(t, s, i, removes,
                   [links EXCEPT ![i].client = FALSE, ![i].transport = FALSE])

\* The session is ended; a transport that is connected closes its context.
SessionEnded(t) ==
    LET a == linking[t]
        i == a.instance
        ended == [links EXCEPT ![i].session = 0]
    IN  /\ a.at = "ending"
        /\ IF Closable(links[i])
           THEN /\ links' = ended
                /\ linking' = [linking EXCEPT ![t].at = "closing", ![t].n = links[i].context]
                /\ UNCHANGED <<now, added, clients, transports, connected, background, monitorVars>>
           ELSE Follows(t, a.name, i, a.removes,
                        [ended EXCEPT ![i].client = FALSE, ![i].transport = FALSE])

\* The session's end fails: the client stays as it is, and its error unheard.
SessionEndFails(t) ==
    LET a == linking[t]
    IN  /\ a.at = "ending"
        /\ Follows(t, a.name, a.instance, a.removes,
                   [links EXCEPT ![a.instance].kept = TRUE])

ShutWithoutClosing(link, c) == [link EXCEPT !.context = 0, !.transport = FALSE]

\* MCPTransport.disconnect() of a context that is open.
Shut(link, c) == [link EXCEPT !.opened = @ \ {c}, !.context = 0, !.transport = FALSE]

\* Its close fails: the transport keeps the context, whether still open or not.
Stuck(link, c, open) == [link EXCEPT !.kept = TRUE, !.opened = IF open THEN @ ELSE @ \ {c}]

TransportClosed(t) ==
    LET a == linking[t]
        i == a.instance
    IN  /\ a.at = "closing"
        /\ a.n \in links[i].opened
        /\ Follows(t, a.name, i, a.removes,
                   [links EXCEPT ![i] = [Shut(links[i], a.n) EXCEPT !.client = FALSE]])

TransportCloseFails(t) ==
    LET a == linking[t]
        i == a.instance
    IN  /\ a.at = "closing"
        /\ \E open \in BOOLEAN :
              Follows(t, a.name, i, a.removes,
                      [links EXCEPT ![i] = [Stuck(links[i], a.n, open) EXCEPT !.client = FALSE]])

\* The task of remove_transport().
BackgroundCloses(i) ==
    LET c == links[i].context
    IN  /\ i \in background
        /\ background' = background \ {i}
        /\ \/ /\ ~Closable(links[i])
              /\ links' = [links EXCEPT ![i].transport = FALSE]
           \/ /\ Closable(links[i])
              /\ c \in links[i].opened
              /\ links' = [links EXCEPT ![i] = Shut(links[i], c)]
           \/ /\ Closable(links[i])
              /\ \E open \in BOOLEAN : links' = [links EXCEPT ![i] = Stuck(links[i], c, open)]
        /\ UNCHANGED <<now, added, clients, transports, connected, linking, monitorVars>>

ServersNext ==
    \/ \E s \in Server :
          \/ AddServer(s)
          \/ \E t \in Task :
                \/ ConnectKnown(t, s)
                \/ ConnectBegins(t, s)
                \/ DisconnectIdle(t, s)
                \/ RemoveUnconnected(t, s)
                \/ \E removes \in BOOLEAN :
                      DisconnectBegins(t, s, removes) \/ DisconnectBare(t, s, removes)
    \/ \E t \in Task :
          \/ Opened(t)
          \/ Entered(t)
          \/ Initialized(t)
          \/ ConnectFails(t)
          \/ SessionEnded(t)
          \/ SessionEndFails(t)
          \/ TransportClosed(t)
          \/ TransportCloseFails(t)
    \/ \E i \in Instance : BackgroundCloses(i)

(****************************************************************************)
(* Health monitoring.                                                        *)
(****************************************************************************)

MonitoringStartsAnew(t) ==
    /\ linking[t].at = "idle"
    /\ monitor \notin loops \/ monitor \in cancelled
    /\ monitor < MaxLoops
    /\ monitor' = monitor + 1
    /\ loops' = loops \cup {monitor + 1}
    /\ UNCHANGED <<now, serverVars, linking, cancelled>>

\* A loop that has not ended, cancelled or not, is not replaced.
MonitoringStarts(t) ==
    /\ linking[t].at = "idle"
    /\ monitor \notin loops
    /\ monitor < MaxLoops
    /\ monitor' = monitor + 1
    /\ loops' = loops \cup {monitor + 1}
    /\ UNCHANGED <<now, serverVars, linking, cancelled>>

MonitoringStops(t) ==
    /\ linking[t].at = "idle"
    /\ monitor \in loops
    /\ cancelled' = cancelled \cup {monitor}
    /\ linking' = [linking EXCEPT ![t].at = "stopping", ![t].n = monitor]
    /\ UNCHANGED <<now, serverVars, monitor, loops>>

\* CancelledError reaches the loop where it sleeps, and ends it.
LoopEnds(m) ==
    /\ m \in cancelled
    /\ m \in loops
    /\ loops' = loops \ {m}
    /\ UNCHANGED <<now, serverVars, monitor, cancelled, linking>>

MonitoringStopped(t) ==
    /\ linking[t].at = "stopping"
    /\ linking[t].n \notin loops
    /\ linking' = [linking EXCEPT ![t] = AtRest]
    /\ UNCHANGED <<now, serverVars, monitorVars>>

MonitorNext ==
    \/ \E t \in Task :
          \/ MonitoringStarts(t)
          \/ MonitoringStops(t)
          \/ MonitoringStopped(t)
    \/ \E m \in loops : LoopEnds(m)

McpNext == ServersNext \/ MonitorNext

McpSpec == now = 0 /\ McpInit /\ [][McpNext]_<<now, mcpVars>>

(****************************************************************************)
(* Properties.                                                              *)
(****************************************************************************)

McpTypeOK ==
    /\ added \in 0..MaxAdded
    /\ {clients, transports} \subseteq [Server -> 0..MaxAdded]
    /\ connected \subseteq Server
    /\ links \in [Instance -> Link]
    /\ background \subseteq Instance
    /\ linking \in [Task -> Linking]
    /\ monitor \in 0..MaxLoops
    /\ loops \cup cancelled \subseteq 1..MaxLoops

\* A name has a client exactly if it has a transport, and the client is over
\* that transport, whatever tasks add, replace and remove.
RegistriesAgree == clients = transports

\* A server at which only one task was at a time, and no close of which failed:
\* while it is registered, no connection is open but the one its transport would
\* close, and a connected client has a connected transport; once it is removed,
\* no connection is open.
LinksOwned ==
    \A i \in Instance :
        (~links[i].kept /\ ~BusyAt(i)) =>
            IF \E s \in Server : transports[s] = i
            THEN /\ links[i].opened \subseteq {links[i].context}
                 /\ links[i].opened # {} => links[i].transport
                 /\ links[i].client => links[i].transport
            ELSE links[i].opened = {}

\* One health loop at most, and it is the one stop_health_monitoring() ends.
MonitoredOnce == Cardinality(loops) <= 1 /\ loops \subseteq {monitor}

\* What the manager of MCP servers keeps.
McpCorrect == McpTypeOK /\ RegistriesAgree /\ LinksOwned /\ MonitoredOnce

================================================================================
