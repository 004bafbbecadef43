-------------------------------- MODULE Client --------------------------------
(****************************************************************************)
(* ZenooClient with its SessionManager, its AsyncTransport and the           *)
(* FallbackManager: logins that overlap each other, the calls made meanwhile *)
(* and the closing of the client; and the operations that take several calls *)
(* of the server.  A call is carried out or not, and its answer may be lost. *)
(****************************************************************************)
EXTENDS Tasks, FiniteSets

CONSTANT Login      \* database, user name and password (or API key) together

VARIABLES
    session,    \* what the SessionManager holds, each of the login it is of
    byKey,      \* the last login was by an API key
    unsettled,  \* no context was loaded for the last login: credentials changed
                \* during its loading, it was cancelled, or the answer had none
    transport,  \* the httpx client is "open", "shut" since its closing began, or
                \* "closed" since a close() came to its end
    managers,   \* the AI assistant and the cache manager
    late,       \* a manager was set up, or a login came, once close() ran
    running     \* the operation each task is in

clientVars == <<session, byKey, unsettled, transport, managers, late, running>>

\* No login, as a value of the session.
Nil == "nil"

Credentials == [database : Login \cup {Nil}, uid : Login \cup {Nil},
                username : Login \cup {Nil}, password : Login \cup {Nil},
                context : Login \cup {Nil}]

LoggedOut == [database |-> Nil, uid |-> Nil, username |-> Nil,
              password |-> Nil, context |-> Nil]

\* What a call sends.
Sent == [database : Login \cup {Nil}, uid : Login \cup {Nil},
         password : Login \cup {Nil}]

Nothing == [database |-> Nil, uid |-> Nil, password |-> Nil]

ClientOperation == {"none", "login", "api_login", "close", "setup", "create",
              "safe_create", "safe_create_record", "write", "unlink",
              "read", "safe_read", "adaptive_read"}

\* as is what its call was sent with; made counts the records a create made, and
\* misread says that an error without an answer was taken for a refusal.
Running ==
    [op : ClientOperation,
     at : {"none", "version", "authenticate", "context", "ai", "cache", "transport",
           "validate", "create", "required", "access",
           "write", "read", "search_read"},
     login : Login \cup {Nil}, as : Sent, again : BOOLEAN,
     made : Nat, misread : BOOLEAN]

Idle == [op |-> "none", at |-> "none", login |-> Nil, as |-> Nothing,
         again |-> FALSE, made |-> 0, misread |-> FALSE]

ClientInit ==
    /\ session = LoggedOut
    /\ byKey = FALSE
    /\ unsettled = FALSE
    /\ transport = "open"
    /\ managers = [m \in {"ai", "cache"} |-> "none"]
    /\ late = FALSE
    /\ running = [t \in Task |-> Idle]

IsAuthenticated == session.uid # Nil /\ session.database # Nil

Takes(c) == [database |-> c.database, uid |-> c.uid, password |-> c.password]

Proceeds(t, r) == running' = [running EXCEPT ![t] = r]

\* What a create made is still known when it has ended.
OperationEnded(r) == [Idle EXCEPT !.made = r.made, !.misread = r.misread]

(****************************************************************************)
(* Errors.                                                                  *)
(****************************************************************************)

\* map_jsonrpc_error(): by the code, else by the name, else by the message.
\* The other exceptions, which nothing here tells apart, are the last one.
JsonRpcErrors ==
    [access |-> "AccessError", validation |-> "ValidationError",
     missing |-> "ValidationError", unknown |-> "ZenooError"]

\* json_rpc_call(): what httpx raises; the call may have been carried out.
TransportErrors == {"TimeoutError", "ConnectionError"}

\* The error is "none" if there is none.
Answers ==
    {[done |-> TRUE, error |-> "none"]}
        \cup {[done |-> FALSE, error |-> JsonRpcErrors[e]] :
                 e \in DOMAIN JsonRpcErrors}
        \cup [done : BOOLEAN, error : TransportErrors]

\* A transport carries no call out once its closing has begun.
MayAnswer(answer) ==
    transport = "open" \/ answer = [done |-> FALSE, error |-> "ConnectionError"]

\* _handle_crud_error() reads the text of the error again, which speaks of
\* access, of validation or of neither.
CrudError(error, text) ==
    CASE text = "access" -> "AccessError"
      [] text = "validation" -> "ValidationError"
      [] OTHER -> error

Texts == {"access", "validation", "none"}

(****************************************************************************)
(* Logins.                                                                  *)
(****************************************************************************)

\* authenticate() and authenticate_with_api_key() ask for the version first.
LoginBegins(t, l, op) ==
    /\ running[t].op = "none"
    /\ op \in {"login", "api_login"}
    /\ Proceeds(t, [Idle EXCEPT !.op = op, !.at = "version", !.login = l])
    /\ UNCHANGED <<now, session, byKey, unsettled, transport, managers, late>>

LoginFails(t) ==
    /\ running[t].at \in {"version", "authenticate"}
    /\ Proceeds(t, Idle)
    /\ UNCHANGED <<now, session, byKey, unsettled, transport, managers, late>>

VersionStoringDatabase(t) ==
    /\ running[t].at = "version"
    /\ transport = "open"
    /\ Proceeds(t, [running[t] EXCEPT !.at = "authenticate"])
    /\ session' = [session EXCEPT !.database = running[t].login]
    /\ UNCHANGED <<now, byKey, unsettled, transport, managers, late>>

VersionAnswers(t) ==
    /\ running[t].at = "version"
    /\ transport = "open"
    /\ Proceeds(t, [running[t] EXCEPT !.at = "authenticate"])
    /\ UNCHANGED <<now, session, byKey, unsettled, transport, managers, late>>

LoadingContext(t) == running[t].at = "context"

Closing == \E t \in Task : running[t].op = "close"

\* The server has found the user (the answer may have come before a close()
\* that ends before the task resumes): the credentials are stored together, the
\* password not by an API key, and the context of the user is asked for.
LoggedIn(t) ==
    LET r == running[t]
        l == r.login
        stored == [session EXCEPT !.database = l, !.uid = l, !.username = l,
                      !.password = IF r.op = "login" THEN l
                                   ELSE session.password]
    IN  /\ r.at = "authenticate"
        /\ session' = stored
        /\ byKey' = (r.op = "api_login")
        /\ unsettled' = \E u \in Task : LoadingContext(u)
        /\ late' = (late \/ Closing \/ transport = "closed")
        /\ Proceeds(t, [r EXCEPT !.at = "context", !.as = Takes(stored)])
        /\ UNCHANGED <<now, transport, managers>>

ContextKept(t, answer) ==
    /\ LoadingContext(t)
    /\ session' = IF answer = "context"
                  THEN [session EXCEPT !.context = running[t].as.uid]
                  ELSE session
    /\ unsettled' = (unsettled \/ answer = "nothing")
    /\ Proceeds(t, Idle)
    /\ UNCHANGED <<now, byKey, transport, managers, late>>

\* _load_user_context(): the context of the user asked about, the default one
\* of the user of the session now if the call raises, or, if the answer has no
\* result, the one the session has had.
ContextAnswers(t, answer) ==
    /\ LoadingContext(t)
    /\ answer # "error" => transport = "open"
    /\ session' = [session EXCEPT !.context =
                      CASE answer = "context" -> running[t].as.uid
                        [] answer = "error" -> session.uid
                        [] answer = "nothing" -> session.context]
    /\ unsettled' = (unsettled \/ answer = "nothing")
    /\ Proceeds(t, Idle)
    /\ UNCHANGED <<now, byKey, transport, managers, late>>

\* CancelledError is no Exception: the context stays that of a former login.
LoginCancelled(t) ==
    /\ LoadingContext(t)
    /\ unsettled' = TRUE
    /\ Proceeds(t, Idle)
    /\ UNCHANGED <<now, session, byKey, transport, managers, late>>

(****************************************************************************)
(* Calls.                                                                   *)
(****************************************************************************)

\* execute_kw() sends what the session holds when it is called.
Sends(t, r, at) ==
    IF IsAuthenticated
    THEN Proceeds(t, [r EXCEPT !.at = at, !.as = Takes(session)])
    ELSE Proceeds(t, OperationEnded(r))

\* What an operation may begin with.  create() looks at the required fields
\* unless told not to, write() and unlink() look for the records, write()
\* unless told not to, and neither for no records.
CreateStarts == {<<"create", "validate">>, <<"create", "create">>}

WriteStarts == {<<"write", "access">>, <<"write", "write">>}

UnlinkStarts == {<<"unlink", "access">>, <<"unlink", "write">>}

ReadStarts == {<<"read", "read">>, <<"read", "search_read">>}

SafeStarts == {<<"safe_create", "create">>, <<"safe_create_record", "validate">>,
               <<"safe_read", "read">>, <<"adaptive_read", "read">>}

OperationBegins(t, op, at) ==
    /\ running[t].op = "none"
    /\ IsAuthenticated
    /\ <<op, at>> \in CreateStarts \cup WriteStarts \cup UnlinkStarts
                         \cup ReadStarts \cup SafeStarts
    /\ Proceeds(t, [Idle EXCEPT !.op = op, !.at = at, !.as = Takes(session)])
    /\ UNCHANGED <<now, session, byKey, unsettled, transport, managers, late>>

\* _validate_required_fields(): its own ValidationError is swallowed too.
Validated(t) ==
    /\ running[t].at = "validate"
    /\ Sends(t, running[t], "create")
    /\ UNCHANGED <<now, session, byKey, unsettled, transport, managers, late>>

CreateAnswersAnyError(t, answer, text) ==
    LET r == running[t]
        made == [r EXCEPT !.made = IF answer.done THEN r.made + 1 ELSE r.made]
    IN  /\ r.at = "create"
        /\ MayAnswer(answer)
        /\ IF answer.error # "none" /\ r.op = "safe_create_record" /\ ~r.again
           THEN Sends(t, [made EXCEPT !.again = TRUE], "required")
           ELSE Proceeds(t, OperationEnded(made))
        /\ UNCHANGED <<now, session, byKey, unsettled, transport, managers, late>>

\* The answer of a create.  After a ValidationError, but once,
\* safe_create_with_fallback() asks which fields are required.
CreateAnswers(t, answer, text) ==
    LET r == running[t]
        error == CrudError(answer.error, text)
        made == [r EXCEPT
            !.made = IF answer.done THEN r.made + 1 ELSE r.made,
            !.misread = r.misread \/ /\ answer.error \in TransportErrors
                                     /\ error = "ValidationError"]
    IN  /\ r.at = "create"
        /\ MayAnswer(answer)
        /\ IF /\ answer.error # "none"
              /\ error = "ValidationError"
              /\ r.op = "safe_create_record"
              /\ ~r.again
           THEN Sends(t, [made EXCEPT !.again = TRUE], "required")
           ELSE Proceeds(t, OperationEnded(made))
        /\ UNCHANGED <<now, session, byKey, unsettled, transport, managers, late>>

\* _get_required_fields_only(): create() again, if some value is required.
RequiredAnswers(t, some) ==
    /\ running[t].at = "required"
    /\ some => transport = "open"
    /\ IF some THEN Sends(t, running[t], "validate")
       ELSE Proceeds(t, OperationEnded(running[t]))
    /\ UNCHANGED <<now, session, byKey, unsettled, transport, managers, late>>

\* _check_record_access(): only the AccessError it makes itself gets out.
AccessChecked(t, accessible) ==
    /\ running[t].at = "access"
    /\ IF accessible THEN Sends(t, running[t], "write")
       ELSE transport = "open" /\ Proceeds(t, Idle)
    /\ UNCHANGED <<now, session, byKey, unsettled, transport, managers, late>>

WriteReturns(t) ==
    /\ running[t].at = "write"
    /\ Proceeds(t, Idle)
    /\ UNCHANGED <<now, session, byKey, unsettled, transport, managers, late>>

\* safe_read() reads again with search_read() after any error, adaptive_read()
\* after an AccessError.
SafelyRead(op, error) == op = "safe_read" /\ error # "none"

AdaptivelyRead(op, error) == op = "adaptive_read" /\ error = "AccessError"

ReadReturns(t, error) ==
    LET r == running[t]
    IN  /\ r.at \in {"read", "search_read"}
        /\ transport # "open" => error = "ConnectionError"
        /\ IF /\ r.at = "read"
              /\ SafelyRead(r.op, error) \/ AdaptivelyRead(r.op, error)
           THEN Sends(t, r, "search_read")
           ELSE Proceeds(t, Idle)
        /\ UNCHANGED <<now, session, byKey, unsettled, transport, managers, late>>

(****************************************************************************)
(* Managers and close().                                                    *)
(****************************************************************************)

\* setup_ai() and setup_cache_manager() assign the manager, then await its
\* setting up; if that raises, the manager stays.
SetupBegins(t, m) ==
    /\ running[t].op = "none"
    /\ managers[m] = "none"
    /\ managers' = [managers EXCEPT ![m] = "open"]
    /\ late' = (late \/ Closing \/ transport = "closed")
    /\ Proceeds(t, [Idle EXCEPT !.op = "setup", !.at = m])
    /\ UNCHANGED <<now, session, byKey, unsettled, transport>>

SetupEnds(t) ==
    /\ running[t].op = "setup"
    /\ Proceeds(t, Idle)
    /\ UNCHANGED <<now, session, byKey, unsettled, transport, managers, late>>

\* What close() has to close, in its order, from some step on.
Closes(at) ==
    IF at = "ai" /\ managers.ai # "none" THEN "ai"
    ELSE IF at \in {"ai", "cache"} /\ managers.cache # "none" THEN "cache"
    ELSE "transport"

\* The httpx client refuses calls from the start of aclose(), which is awaited.
ShutsAt(at) ==
    transport' = IF at = "transport" /\ transport = "open" THEN "shut"
                 ELSE transport

CloseBegins(t) ==
    /\ running[t].op = "none"
    /\ Proceeds(t, [Idle EXCEPT !.op = "close", !.at = Closes("ai")])
    /\ ShutsAt(Closes("ai"))
    /\ UNCHANGED <<now, session, byKey, unsettled, managers, late>>

ManagerClosesFirst(t) ==
    /\ running[t].op = "close"
    /\ running[t].at \in {"ai", "cache"}
    /\ managers' = [managers EXCEPT ![running[t].at] = "closed"]
    /\ Proceeds(t, [running[t] EXCEPT !.at = "transport"])
    /\ ShutsAt("transport")
    /\ UNCHANGED <<now, session, byKey, unsettled, late>>

ManagerCloses(t) ==
    LET next == IF running[t].at = "ai" THEN Closes("cache") ELSE "transport"
    IN  /\ running[t].op = "close"
        /\ running[t].at \in {"ai", "cache"}
        /\ managers' = [managers EXCEPT ![running[t].at] = "closed"]
        /\ Proceeds(t, [running[t] EXCEPT !.at = next])
        /\ ShutsAt(next)
        /\ UNCHANGED <<now, session, byKey, unsettled, late>>

\* A manager or a transport that cannot be closed ends close(): the session
\* stays, also over a transport that is shut.
CloseFails(t) ==
    /\ running[t].op = "close"
    /\ Proceeds(t, Idle)
    /\ UNCHANGED <<now, session, byKey, unsettled, transport, managers, late>>

\* aclose() has returned: clear() leaves the password of the session.
TransportCloses(t) ==
    /\ running[t].op = "close"
    /\ running[t].at = "transport"
    /\ transport' = "closed"
    /\ session' = [LoggedOut EXCEPT !.password = session.password]
    /\ unsettled' = (unsettled \/ \E u \in Task : LoadingContext(u))
    /\ Proceeds(t, Idle)
    /\ UNCHANGED <<now, byKey, managers, late>>

LoginNext(t) ==
    \/ \E l \in Login, op \in {"login", "api_login"} : LoginBegins(t, l, op)
    \/ LoginFails(t)
    \/ VersionAnswers(t)
    \/ LoggedIn(t)
    \/ \E answer \in {"context", "nothing", "error"} : ContextAnswers(t, answer)

OperationNext(t) ==
    \/ \E op \in ClientOperation,
          at \in {"validate", "create", "access", "write", "read",
                  "search_read"} : OperationBegins(t, op, at)
    \/ Validated(t)
    \/ \E answer \in Answers, text \in Texts :
          (answer.error = "none" => text = "none") /\ CreateAnswers(t, answer, text)
    \/ \E some \in BOOLEAN : RequiredAnswers(t, some)
    \/ \E accessible \in BOOLEAN : AccessChecked(t, accessible)
    \/ WriteReturns(t)
    \/ \E error \in {answer.error : answer \in Answers} : ReadReturns(t, error)

ManagerNext(t) ==
    \/ \E m \in {"ai", "cache"} : SetupBegins(t, m)
    \/ SetupEnds(t)
    \/ ManagerCloses(t)

CloseNext(t) == CloseBegins(t) \/ CloseFails(t) \/ TransportCloses(t)

ClientNext ==
    \E t \in Task :
       \/ LoginNext(t) \/ LoginCancelled(t)
       \/ OperationNext(t) \/ ManagerNext(t) \/ CloseNext(t)

ClientSpec == now = 0 /\ ClientInit /\ [][ClientNext]_<<now, clientVars>>

(****************************************************************************)
(* Properties.                                                              *)
(****************************************************************************)

ClientTypeOK ==
    /\ session \in Credentials
    /\ {byKey, unsettled, late} \subseteq BOOLEAN
    /\ transport \in {"open", "shut", "closed"}
    /\ managers \in [{"ai", "cache"} -> {"none", "open", "closed"}]
    /\ running \in [Task -> Running]

\* Database, user id and user name are of one login, in the session and in
\* every call sent, however logins and close() interleave, and so is the
\* password, unless the login was by an API key.
OneLogin ==
    /\ \A c \in {Takes(session)} \cup {running[t].as : t \in Task} :
          c.database = c.uid
    /\ session.username = session.uid
    /\ IsAuthenticated /\ ~byKey => session.password = session.uid

\* The context is of the user logged in, once no context is being loaded, if
\* the last login overlapped no other, was not cancelled, and was answered with
\* a context or an error: a login heals what the ones before it have left.
ContextFits ==
    \/ session.context = session.uid
    \/ unsettled
    \/ \E t \in Task : LoadingContext(t)

\* safe_create_record() creates no record twice, unless a call that got no
\* answer was taken for one the server refused.
CreatedOnce == \A t \in Task : running[t].made > 1 => running[t].misread

\* Once a close() has run to its end nobody is logged in and every manager is
\* closed, but for a login and a manager that came meanwhile.
ClosedMeansClosed ==
    transport = "closed" =>
        \/ late
        \/ ~IsAuthenticated /\ \A m \in DOMAIN managers : managers[m] # "open"

\* What the users of one client rely on.
ClientCorrect ==
    ClientTypeOK /\ OneLogin /\ ContextFits /\ CreatedOnce /\ ClosedMeansClosed

================================================================================
