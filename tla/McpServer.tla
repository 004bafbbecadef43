------------------------------- MODULE McpServer -------------------------------
(****************************************************************************)
(* A ZenooMCPServer that run_server() starts and stops, the signals that ask *)
(* it to stop, and the tools and resources that its callers use meanwhile.   *)
(****************************************************************************)
EXTENDS McpSecurity

CONSTANTS
    Features,       \* what the configuration enables: "tools", "resources"
    MaxSignals      \* bound: signals delivered

ASSUME McpServerAssumption == MaxSignals \in Nat

VARIABLES
    phase,          \* where run_server() is
    odoo,           \* the client: its transport, and whether it is logged in
    signals,        \* signals delivered
    stopping,       \* stop() tasks of signals that have not begun
    closing,        \* one of them awaits the closing of the httpx client
    unclosed,       \* the closing has failed
    serving         \* the tool or resource each task executes

serverStateVars == <<phase, odoo, signals, stopping, closing, unclosed, serving>>

(****************************************************************************)
(* The reads each handler makes of Odoo, one after another.  One that makes  *)
(* none raises.                                                              *)
(****************************************************************************)

SearchRecords == 1

\* A model that is not registered has None for its class; values() is a
\* coroutine, which has no first().
GetRecord(registered, fields) == IF registered /\ ~fields THEN 1 ELSE 0

\* transaction() raises, as no transaction manager has been set up.
CreateTool == 0

UpdateTool == 0

DeleteTool == 0

BatchTool == 0

\* Only a QuerySet has a limit(), which filters and an order make of a builder.
ComplexSearch(registered, filters, order) ==
    IF registered /\ (filters \/ order) THEN 1 ELSE 0

\* Neither a builder nor a QuerySet has a group_by().
AnalyticsQuery == 0

ListModels == 1

ModelInfo == 2

RecordResource == 1

ToolHandlers ==
    {SearchRecords, CreateTool, UpdateTool, DeleteTool, BatchTool, AnalyticsQuery}
        \cup {GetRecord(r, f) : r \in BOOLEAN, f \in BOOLEAN}
        \cup {ComplexSearch(r, f, o) : r \in BOOLEAN, f \in BOOLEAN, o \in BOOLEAN}

ResourceHandlers == {ListModels, ModelInfo, RecordResource}

Offered ==
    (IF "tools" \in Features THEN ToolHandlers ELSE {})
        \cup (IF "resources" \in Features THEN ResourceHandlers ELSE {})

(****************************************************************************)
(* run_server(), start() and stop().                                          *)
(****************************************************************************)

NotServing == [left |-> 0, over |-> "none"]

NoClient == [http |-> "none", loggedIn |-> FALSE, late |-> FALSE]

ServerInit ==
    /\ phase = "new"
    /\ odoo = NoClient
    /\ signals = 0
    /\ stopping = 0
    /\ closing = FALSE
    /\ unclosed = FALSE
    /\ serving = [t \in Task |-> NotServing]

\* _connect_to_odoo() makes a client and awaits its login.
ServerStarts ==
    /\ phase = "new"
    /\ phase' = "login"
    /\ odoo' = [odoo EXCEPT !.http = "open"]
    /\ UNCHANGED <<signals, stopping, closing, unclosed, serving>>

\* The session holds the credentials while the user's context is awaited; it is
\* late if its client has been closed and nobody is at it any more.
ServerAuthenticated ==
    /\ phase = "login"
    /\ phase' = "context"
    /\ odoo' = [odoo EXCEPT !.loggedIn = TRUE,
                            !.late = odoo.http = "closed" /\ ~closing]
    /\ UNCHANGED <<signals, stopping, closing, unclosed, serving>>

ServerConnected ==
    /\ phase = "context"
    /\ phase' = "running"
    /\ UNCHANGED <<odoo, signals, stopping, closing, unclosed, serving>>

StopShutsOnly == odoo' = [odoo EXCEPT !.http = "closed"]

\* close() of the client: the httpx client refuses calls from the start of its
\* aclose(), whose end is awaited.  It does not await what is closed, and clear()
\* follows at once.
StopBegins ==
    odoo' = IF odoo.http = "open" THEN [odoo EXCEPT !.http = "closed"]
            ELSE [odoo EXCEPT !.loggedIn = FALSE]

\* clear() logs the client out, unless aclose() raised, which is logged.
StopReturns ==
    \/ /\ odoo' = [odoo EXCEPT !.loggedIn = FALSE]
       /\ UNCHANGED unclosed
    \/ /\ unclosed' = TRUE
       /\ UNCHANGED odoo

EndsUnstarted ==
    /\ phase \in {"login", "context", "running"}
    /\ IF phase = "running" /\ odoo.http = "open"
       THEN phase' = "stopping" /\ StopBegins
       ELSE phase' = "ended" /\ UNCHANGED odoo
    /\ serving' = [t \in Task |-> NotServing]
    /\ UNCHANGED <<signals, stopping, closing, unclosed>>

\* start() raises, the transport ends or fails: run_server() stops the server.
\* What its callers await ends with it.
ServerEnds ==
    /\ phase \in {"login", "context", "running"}
    /\ phase' = IF odoo.http = "open" THEN "stopping" ELSE "ended"
    /\ StopBegins
    /\ serving' = [t \in Task |-> NotServing]
    /\ UNCHANGED <<signals, stopping, closing, unclosed>>

ServerStopped ==
    /\ phase = "stopping"
    /\ phase' = "ended"
    /\ StopReturns
    /\ UNCHANGED <<signals, stopping, closing, serving>>

\* The handler of a signal starts a stop(), and nothing else: a server that
\* serves goes on serving.
ServerSignalled ==
    /\ phase \notin {"new", "ended"}
    /\ signals < MaxSignals
    /\ signals' = signals + 1
    /\ stopping' = stopping + 1
    /\ UNCHANGED <<phase, odoo, closing, unclosed, serving>>

SignalledStopBegins ==
    /\ stopping > 0
    /\ stopping' = stopping - 1
    /\ closing' = (closing \/ odoo.http = "open")
    /\ StopBegins
    /\ UNCHANGED <<phase, signals, unclosed, serving>>

SignalledStopEnds ==
    /\ closing
    /\ closing' = FALSE
    /\ StopReturns
    /\ UNCHANGED <<phase, signals, stopping, serving>>

(****************************************************************************)
(* Tools and resources: the errors of either are answers.                    *)
(****************************************************************************)

Serves(t, state) ==
    /\ serving' = [serving EXCEPT ![t] = state]
    /\ UNCHANGED <<phase, odoo, signals, stopping, closing, unclosed>>

\* What a read goes out over: a transport that is open, one that is being closed,
\* or one that somebody has closed.
Transport ==
    CASE odoo.http = "open" -> "open"
      [] odoo.http # "open" /\ closing -> "closing"
      [] OTHER -> "closed"

\* A client that is not logged in raises.
Reads(t, left) ==
    Serves(t, IF odoo.loggedIn THEN [left |-> left, over |-> Transport]
              ELSE NotServing)

HandlerBegins(t, reads) ==
    /\ phase = "running"
    /\ serving[t] = NotServing
    /\ reads > 0
    /\ Reads(t, reads)

\* The next read is made when one is answered.
ReadAnswered(t) ==
    /\ serving[t].left > 0
    /\ serving[t].over = "open"
    /\ IF serving[t].left = 1 THEN Serves(t, NotServing)
       ELSE Reads(t, serving[t].left - 1)

\* The answer is the error: of a tool raised, of a resource in its text.
ReadRaises(t) ==
    /\ serving[t].left > 0
    /\ Serves(t, NotServing)

ServerNext ==
    /\ \/ ServerStarts
       \/ ServerAuthenticated
       \/ ServerConnected
       \/ ServerEnds
       \/ ServerStopped
       \/ ServerSignalled
       \/ SignalledStopBegins
       \/ SignalledStopEnds
       \/ \E t \in Task :
             \/ \E reads \in Offered : HandlerBegins(t, reads)
             \/ ReadAnswered(t)
             \/ ReadRaises(t)
    /\ UNCHANGED now

\* The server and its security manager.
McpServerNext ==
    \/ (RateNext \/ SessionsNext) /\ UNCHANGED serverStateVars
    \/ ServerNext /\ UNCHANGED securityVars

McpServerSpec ==
    /\ now = 0 /\ SecurityInit /\ ServerInit
    /\ [][McpServerNext]_<<now, securityVars, serverStateVars>>

(****************************************************************************)
(* Properties.                                                              *)
(****************************************************************************)

ServerTypeOK ==
    /\ phase \in {"new", "login", "context", "running", "stopping", "ended"}
    /\ odoo \in [http : {"none", "open", "closed"}, loggedIn : BOOLEAN,
                late : BOOLEAN]
    /\ signals \in 0..MaxSignals
    /\ stopping \in 0..signals
    /\ {closing, unclosed} \subseteq BOOLEAN
    /\ serving \in [Task -> [left : 0..ModelInfo,
                             over : {"none", "open", "closing", "closed"}]]

\* However run_server() came to its end, also by a start() that failed and with
\* stop() tasks of signals anywhere in their close(), the client refuses calls
\* and is logged out, unless its closing failed.
EndedIsClosed ==
    phase = "ended" => odoo.http = "closed" /\ (odoo.loggedIn => unclosed)

\* A server that no signal has reached serves with a client that is logged in.
ServesLive ==
    (phase = "running" /\ signals = 0)
        => odoo = [http |-> "open", loggedIn |-> TRUE, late |-> FALSE]

\* Tools and resources read over a transport that is closed, and nobody is
\* closing, only if its closing failed, or had ended before the login did.
ReadsWhileOpen ==
    (\E t \in Task : serving[t].left > 0 /\ serving[t].over = "closed")
        => odoo.late \/ unclosed

ServerCorrect == ServerTypeOK /\ EndedIsClosed /\ ServesLive /\ ReadsWhileOpen

\* What the MCP server and its security manager keep.
McpServerCorrect == SecurityCorrect /\ ServerCorrect

================================================================================
