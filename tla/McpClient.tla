----------------------------- MODULE McpClient -----------------------------
(***************************************************************************)
(* One MCP server of the orchestrator and the client the tool registry      *)
(* keeps for it: StreamableHttpMcpClient and SseMcpClient of               *)
(* services/orchestrator_api/app/mcp/http_client.py under                  *)
(* McpToolRegistry.start, execute_tool_calls and close.  Everything runs on *)
(* one event loop, so a step lasts from one await to the next; the calls of *)
(* several chat completions share the client object.                       *)
(*                                                                         *)
(* Boot is the task of McpToolRegistry.start, Callers are chat completions  *)
(* that execute a tool.  Of a JSON-RPC message the id, the method and the   *)
(* session header are kept; arguments and results are left out.            *)
(***************************************************************************)
EXTENDS Naturals, FiniteSets

CONSTANTS
    Boot,         \* the task that starts the registry
    Callers,      \* chat completions that call a tool of this server
    MaxIds,       \* bound: JSON-RPC ids that are given out
    MaxSessions,  \* bound: sessions the server opens
    MaxEvictions  \* bound: sessions the server forgets

ASSUME BootAssumption == Boot \notin Callers
ASSUME BoundsAssumption ==
    /\ MaxIds \in Nat \ {0}
    /\ MaxSessions \in Nat
    /\ MaxEvictions \in Nat

VARIABLES
    transport, \* the configured transport of the server
    life,      \* of the registry: "new", "starting", "up", "refused", "closed"
    known,     \* _clients holds the client and _tools its tools
    open,      \* _client is not None
    nextId,    \* _next_id
    session,   \* _session_id, 0 for None
    task,      \* where each task is in its request
    reader,    \* the SSE reader task: "off", "on", "ended", "crashed"
    pending,   \* the keys of _pending
    fut,       \* the future made for an id
    live,      \* sessions the server knows
    issued,    \* sessions the server has opened
    evicted,   \* sessions the server has forgotten, counted
    served,    \* how often the server has executed the request with an id, as
               \* long as a task is at it
    stream,    \* answers the server has put on the SSE stream
    alone,     \* history: tasks that have had the server for themselves since
               \* they began to renew the session
    misled     \* history: ids that were repeated because a response without an
               \* answer to them told of an expired session

clientVars == <<transport, life, known, open, nextId, session, task,
                reader, pending, fut>>
serverVars == <<live, issued, evicted, served, stream>>
history == <<alone, misled>>
mcpVars == <<clientVars, serverVars, history>>

Tasks == {Boot} \cup Callers
Ids == 1 .. MaxIds
Sessions == 1 .. MaxSessions
Methods == {"initialize", "tools/list", "tools/call"}

\* What a task has before it of the response to its POST: nothing; lines that are not
\* the answer, still to be read ("more") or read ("begun").  "done" says that the
\* server has executed what was posted, "head" is the session header on its way.
Kinds == {"none", "more", "begun"}
NoAnswer == [kind |-> "none", done |-> FALSE, head |-> 0]
Open == [kind |-> "open", to |-> Boot]
Unmade == [kind |-> "unmade", to |-> Boot]

\* A task between two requests.  "kept" is the id of the request a renewal will
\* repeat, "again" says that it is being repeated, "got" whose answer it took.
Idle == [pc |-> "idle", method |-> "tools/call", rid |-> 0, kept |-> 0,
         again |-> FALSE, sid |-> 0, answer |-> NoAnswer]

McpTypeOK ==
    /\ transport \in {"streamable_http", "sse"}
    /\ life \in {"new", "starting", "up", "refused", "closed"}
    /\ known \in BOOLEAN /\ open \in BOOLEAN
    /\ nextId \in 1 .. MaxIds + 1
    /\ session \in 0 .. MaxSessions
    /\ task \in [Tasks -> [pc : {"idle", "posting", "waiting", "noting"},
                           method : Methods, rid : 0 .. MaxIds,
                           kept : 0 .. MaxIds, again : BOOLEAN,
                           sid : 0 .. MaxSessions,
                           answer : [kind : Kinds, done : BOOLEAN,
                                     head : 0 .. MaxSessions]]]
    /\ reader \in {"off", "on", "ended", "crashed"}
    /\ pending \in SUBSET Ids
    /\ fut \in [Ids -> [kind : {"unmade", "open", "result", "error"}, to : Tasks]]
    /\ live \in SUBSET Sessions
    /\ issued \in 0 .. MaxSessions
    /\ evicted \in 0 .. MaxEvictions
    /\ served \in [Ids -> 0 .. 2]
    /\ stream \in SUBSET [id : Ids, to : Tasks]
    /\ alone \in SUBSET Tasks
    /\ misled \in SUBSET Ids

McpInit ==
    /\ transport \in {"streamable_http", "sse"}
    /\ life = "new" /\ known = FALSE /\ open = FALSE
    /\ nextId = 1 /\ session = 0
    /\ task = [t \in Tasks |-> Idle]
    /\ reader = "off" /\ pending = {} /\ fut = [i \in Ids |-> Unmade]
    /\ live = {} /\ issued = 0 /\ evicted = 0
    /\ served = [i \in Ids |-> 0] /\ stream = {}
    /\ alone = {} /\ misled = {}

Http == transport = "streamable_http"
Active(t) == task[t].pc # "idle"

-----------------------------------------------------------------------------
(* Sending.  Both _request methods take an id and reach their first await in *)
(* the POST; the SSE one has put its future into _pending by then.           *)

FreshId == nextId

IdsLeft == nextId <= MaxIds

Posting(m, i, sid) == [Idle EXCEPT !.pc = "posting", !.method = m, !.rid = i, !.sid = sid]

Request(t, m) ==
    /\ IdsLeft
    /\ nextId' = FreshId + 1
    /\ task' = [task EXCEPT ![t] = Posting(m, FreshId, session)]
    /\ IF Http
         THEN UNCHANGED <<pending, fut>>
         ELSE /\ pending' = pending \cup {FreshId}
              /\ fut' = [fut EXCEPT ![FreshId] = Open]

\* connect: the client is set before the initialize request is answered, and
\* the SSE reader is started.
Start ==
    /\ life = "new"
    /\ life' = "starting"
    /\ open' = TRUE
    /\ reader' = IF Http THEN "off" ELSE "on"
    /\ Request(Boot, "initialize")
    /\ UNCHANGED <<transport, known, session, serverVars, history>>

\* execute_tool_calls: _resolve_tool has found the client.  The bound leaves
\* every request in progress the id it may need to renew the session.
Call(c) ==
    /\ nextId + Cardinality({t \in Tasks : Active(t)}) < MaxIds
    /\ life = "up" /\ known
    /\ ~ Active(c)
    /\ Request(c, "tools/call")
    /\ alone' = {}
    /\ UNCHANGED <<transport, life, known, open, session, reader, serverVars, misled>>

-----------------------------------------------------------------------------
(* What becomes of a request.                                                *)

\* An exception leaves the request.  start gives the server up and drops the
\* client object without closing it; a strict registry does not come up.
\* Every other caller turns the exception into a tool message.
GiveUp(t) ==
    /\ task' = [task EXCEPT ![t] = Idle]
    /\ IF t = Boot THEN life' \in {"up", "refused"} ELSE life' = life
    /\ UNCHANGED <<known, nextId>>

\* start enters the client and its tools after the last page.
Registered ==
    /\ task' = [task EXCEPT ![Boot] = Idle]
    /\ known' = TRUE
    /\ life' = "up"

\* The page has a cursor: list_tools asks for the next one, and for as many as the
\* server has.  The bound on ids leaves the one that a renewal needs.
ListNext(t, sid, dropping) ==
    /\ nextId < MaxIds
    /\ nextId' = FreshId + 1
    /\ task' = [task EXCEPT ![t] = Posting("tools/list", FreshId, sid)]
    /\ IF Http
         THEN UNCHANGED <<pending, fut>>
         ELSE /\ pending' = (pending \ dropping) \cup {FreshId}
              /\ fut' = [fut EXCEPT ![FreshId] = Open]
    /\ UNCHANGED <<life, known>>

\* The request of task t has returned a result; dropping is what its finally
\* block takes out of _pending.  After an initialize the notification goes out,
\* after a page of the tool list perhaps the request for the next.
Succeed(t, sid, dropping) ==
    CASE task[t].method = "initialize" ->
           /\ task' = [task EXCEPT ![t] = [@ EXCEPT !.pc = "noting", !.sid = sid,
                                                    !.answer = NoAnswer]]
           /\ pending' = pending \ dropping
           /\ UNCHANGED <<life, known, nextId, fut>>
      [] task[t].method = "tools/list" ->
           /\ \/ /\ Registered
                 /\ pending' = pending \ dropping
                 /\ UNCHANGED <<nextId, fut>>
              \/ ListNext(t, sid, dropping)
      [] OTHER ->
           /\ task' = [task EXCEPT ![t] = Idle]
           /\ pending' = pending \ dropping
           /\ UNCHANGED <<life, known, nextId, fut>>

-----------------------------------------------------------------------------
(* Streamable HTTP: every request has its own response.                      *)

\* The header of the response replaces the session id before anything else of
\* the response is looked at, also when the status is an error.
Header(h) == IF h # 0 THEN h ELSE session

\* The server (external) sends the header of a session it has opened, and may repeat
\* that of a request; the headers go out before the first line.
Heads(t) == IF task[t].answer.kind = "begun" THEN {0}
            ELSE IF task[t].answer.head # 0 THEN {task[t].answer.head} ELSE {0, task[t].sid}

\* It sends lines that are not the answer: progress, keep-alive, or the beginning of a
\* body; as often as it likes, over either transport; for initialize not before it
\* has opened the session.
Feed(t) ==
    /\ task[t].pc \in {"posting", "noting"}
    /\ task[t].answer.kind # "more"
    /\ Http /\ task[t].method = "initialize" /\ task[t].pc = "posting" => task[t].answer.done
    /\ \E h \in IF Http THEN Heads(t) ELSE {0} :
          task' = [task EXCEPT ![t].answer = [@ EXCEPT !.kind = "more", !.head = h]]
    /\ UNCHANGED <<transport, life, known, open, nextId, session, reader,
                   pending, fut, serverVars, history>>

\* A request is executed; what no task is at any more is forgotten, for its id is
\* never sent again.
AtWork == {task[t].rid : t \in Tasks} \cup {task[t].kept : t \in Tasks}

Execute(t) ==
    /\ served' = [i \in Ids |-> IF i = task[t].rid THEN served[i] + 1
                               ELSE IF i \in AtWork THEN served[i] ELSE 0]
    /\ misled' = misled \cap AtWork

\* It executes a request of a session it knows, and opens one for initialize.
Serve(t) ==
    /\ Http /\ task[t].pc = "posting"
    /\ ~ task[t].answer.done
    /\ IF task[t].method = "initialize"
         THEN /\ issued < MaxSessions
              /\ issued' = issued + 1
              /\ live' = live \cup {issued + 1}
              /\ task' = [task EXCEPT ![t].answer =
                            [@ EXCEPT !.done = TRUE, !.head = issued + 1]]
         ELSE /\ task[t].sid \in live
              /\ task' = [task EXCEPT ![t].answer = [@ EXCEPT !.done = TRUE]]
              /\ UNCHANGED <<live, issued>>
    /\ Execute(t)
    /\ UNCHANGED <<transport, life, known, open, nextId, session, reader,
                   pending, fut, evicted, stream, alone>>

\* The errors a response may tell of: one the server has at any time (also a status of
\* 400 and above, and a list of tools that is no object); that of a session it does not
\* know, for what it has not executed; and, "astray", this error in a message that is
\* no answer to the request: without one that has its id, the client takes the last
\* that looks like an answer, and the body of a plain response whatever its id.
Errors == {"error", "expired", "astray"}
Says(t, k) == k = "expired" => ~ task[t].answer.done /\ task[t].sid \notin live

\* The request a renewal was made for; only a request that is not itself
\* initialize, and only once.
Outer(t) == IF t = Boot THEN "tools/list" ELSE "tools/call"
\* Mutant: any JSON-RPC error is taken for an expired session.
RenewableAnyError(t, k) == task[t].method # "initialize" /\ ~ task[t].again

Renewable(t, k) ==
    k \in {"expired", "astray"} /\ task[t].method # "initialize" /\ ~ task[t].again

Renew(t, k) ==
    /\ IdsLeft
    /\ nextId' = FreshId + 1
    /\ session' = 0
    /\ task' = [task EXCEPT ![t] = [Posting("initialize", FreshId, 0)
                                      EXCEPT !.kept = task[t].rid]]
    /\ alone' = IF \A u \in Tasks \ {t} : ~ Active(u) THEN {t} ELSE {}
    /\ misled' = IF k = "astray" THEN misled \cup {task[t].rid} ELSE misled
    /\ UNCHANGED <<life, known>>

\* Mutant: the headers are built once, before the renewal.
RepostOldHeader(t, sid) == [Posting(Outer(t), task[t].kept, 1) EXCEPT !.again = TRUE]

\* The repeated POST reads the session again: another task may have renewed it,
\* or may be renewing it, since.
Repost(t, sid) == [Posting(Outer(t), task[t].kept, sid) EXCEPT !.again = TRUE]

\* The notification is over: a renewal repeats the request it was made for,
\* start goes on to list the tools.
NoteOver(t, sid) ==
    \/ /\ task[t].kept # 0
       /\ task' = [task EXCEPT ![t] = Repost(t, sid)]
       /\ UNCHANGED <<nextId, pending, fut>>
    \/ /\ task[t].kept = 0
       /\ Request(t, "tools/list")

\* A line that is not the answer: the loop over the lines goes on, and so does
\* the reading of a body.
ReadMore(t) ==
    /\ Active(t) /\ task[t].answer.kind = "more"
    /\ task' = [task EXCEPT ![t].answer = [@ EXCEPT !.kind = "begun", !.head = 0]]
    /\ session' = Header(task[t].answer.head)
    /\ UNCHANGED <<transport, life, known, open, nextId, reader, pending, fut,
                   serverVars, history>>

\* The response ends.  A result for what the server has not executed is one of
\* another request, or nothing at all, which counts as a result of None.
Receive(t) ==
    /\ Http /\ Active(t) /\ task[t].answer.kind # "more"
    /\ \/ \E h \in Heads(t) :
             /\ task[t].pc = "posting"
             /\ session' = Header(h)
             /\ Succeed(t, Header(h), {})
             /\ alone' = IF task[t].answer.done THEN alone ELSE alone \ {t}
             /\ UNCHANGED misled
       \/ \E k \in Errors :
             /\ task[t].pc = "posting"
             /\ Says(t, k) /\ Renewable(t, k)
             /\ Renew(t, k)
             /\ UNCHANGED <<pending, fut>>
       \/ \E k \in Errors, h \in Heads(t) :
             /\ task[t].pc = "posting"
             /\ Says(t, k) /\ ~ Renewable(t, k)
             /\ session' = Header(h)
             /\ GiveUp(t)
             /\ UNCHANGED <<pending, fut, history>>
       \/ \E h \in Heads(t) :
             /\ task[t].pc = "noting"
             /\ session' = Header(h)
             /\ NoteOver(t, Header(h))
             /\ UNCHANGED <<life, known, history>>
    /\ UNCHANGED <<transport, open, reader, serverVars>>

\* httpx gives up (HTTPError): the connection fails, or nothing has come for the
\* timeout, which runs anew with every read; before or after the server has
\* executed the request.  _notify takes that as done.
Lost(t) ==
    /\ Http /\ Active(t)
    /\ \/ /\ task[t].pc = "posting"
          /\ GiveUp(t)
          /\ UNCHANGED <<pending, fut>>
       \/ /\ task[t].pc = "noting"
          /\ NoteOver(t, session)
          /\ UNCHANGED <<life, known>>
    /\ UNCHANGED <<transport, open, session, reader, serverVars, history>>

\* The server forgets a session.
Evict(s) ==
    /\ s \in live
    /\ evicted < MaxEvictions
    /\ live' = live \ {s}
    /\ evicted' = evicted + 1
    /\ alone' = {}
    /\ UNCHANGED <<clientVars, issued, served, stream, misled>>

-----------------------------------------------------------------------------
(* SSE: a POST is only accepted; the answer comes over the stream.           *)

\* The server (external) executes a message it has been sent, before or after
\* it has accepted the POST, and may leave it without an answer.
Take(t) ==
    /\ ~ Http
    /\ task[t].pc \in {"posting", "waiting"}
    /\ served[task[t].rid] = 0
    /\ Execute(t)
    /\ \/ stream' = stream
       \/ /\ reader = "on"
          /\ stream' = stream \cup {[id |-> task[t].rid, to |-> t]}
    /\ UNCHANGED <<clientVars, live, issued, evicted, alone>>

\* _post_message returns: _request starts to wait, _notify is over.
Accepted(t) ==
    /\ ~ Http /\ task[t].answer.kind # "more"
    /\ \/ /\ task[t].pc = "posting"
          /\ task' = [task EXCEPT ![t].pc = "waiting", ![t].answer = NoAnswer]
          /\ UNCHANGED <<nextId, pending, fut>>
       \/ /\ task[t].pc = "noting"
          /\ NoteOver(t, 0)
    /\ UNCHANGED <<transport, life, known, open, session, reader,
                   serverVars, history>>

\* _post_message raises.  The await stands outside of the try: the future stays
\* in _pending.
PostFails(t) ==
    /\ ~ Http
    /\ task[t].pc \in {"posting", "noting"}
    /\ GiveUp(t)
    /\ UNCHANGED <<transport, open, session, reader, pending, fut, serverVars, history>>

\* _handle_sse_data: an id nobody waits for, or no longer, is ignored.
Deliver(m) ==
    /\ ~ Http /\ reader = "on"
    /\ m \in stream
    /\ stream' = stream \ {m}
    /\ IF m.id \in pending /\ fut[m.id].kind = "open"
         THEN \E k \in {"result", "error"} :
                 fut' = [fut EXCEPT ![m.id] = [kind |-> k, to |-> m.to]]
         ELSE UNCHANGED fut
    /\ UNCHANGED <<transport, life, known, open, nextId, session, task,
                   reader, pending, live, issued, evicted, served, history>>

\* wait_for returns what the future holds.
Wake(t) ==
    /\ ~ Http /\ task[t].pc = "waiting"
    /\ \/ /\ fut[task[t].rid].kind = "result"
          /\ Succeed(t, 0, {task[t].rid})
       \/ /\ fut[task[t].rid].kind = "error"
          /\ GiveUp(t)
          /\ pending' = pending \ {task[t].rid}
          /\ UNCHANGED fut
    /\ UNCHANGED <<transport, open, session, reader, serverVars, history>>

\* Mutant: the future is awaited without wait_for.
TimesOutNever(t) == FALSE /\ UNCHANGED mcpVars

TimesOut(t) ==
    /\ ~ Http /\ task[t].pc = "waiting"
    /\ fut[task[t].rid].kind = "open"
    /\ GiveUp(t)
    /\ pending' = pending \ {task[t].rid}
    /\ UNCHANGED <<transport, open, session, reader, fut, serverVars, history>>

\* Mutant: what is pending is only forgotten.
FailedForgotten == fut

\* The reader fails everything that is pending.
Failed == [i \in Ids |-> IF i \in pending /\ fut[i].kind = "open"
                           THEN [fut[i] EXCEPT !.kind = "error"] ELSE fut[i]]

ReaderCrashes ==
    /\ reader = "on"
    /\ reader' = "crashed"
    /\ fut' = Failed
    /\ pending' = {}
    /\ stream' = {}
    /\ UNCHANGED <<transport, life, known, open, nextId, session, task,
                   live, issued, evicted, served, history>>

\* The server closes the stream in order: the loop ends, nobody is told and
\* nobody opens the stream again.
ReaderEnds ==
    /\ reader = "on"
    /\ reader' = "ended"
    /\ stream' = {}
    /\ UNCHANGED <<transport, life, known, open, nextId, session, task,
                   pending, fut, live, issued, evicted, served, history>>

\* close of the client: the reader is cancelled and _pending emptied.
CloseClient ==
    /\ open' = FALSE
    /\ reader' = "off"
    /\ pending' = {}

\* McpToolRegistry.close when the application stops; the requests are over by
\* then.  A client that start has given up is not among those it closes.
Close ==
    /\ life = "up"
    /\ \A t \in Tasks : ~ Active(t)
    /\ life' = "closed"
    /\ known' = FALSE
    /\ IF known
         THEN CloseClient
         ELSE UNCHANGED <<open, reader, pending>>
    /\ UNCHANGED <<transport, nextId, session, task, fut, serverVars, history>>

-----------------------------------------------------------------------------
Proceed(t) ==
    \/ Lost(t) \/ PostFails(t) \/ TimesOut(t)
    \/ ReadMore(t) \/ Receive(t) \/ Accepted(t) \/ Wake(t)

McpNext ==
    \/ Start \/ Close
    \/ \E c \in Callers : Call(c)
    \/ \E t \in Tasks : Proceed(t) \/ Feed(t) \/ Serve(t) \/ Take(t)
    \/ \E s \in Sessions : Evict(s)
    \/ \E m \in stream : Deliver(m)
    \/ ReaderCrashes \/ ReaderEnds

McpSpec == McpInit /\ [][McpNext]_mcpVars

\* The event loop runs every task.  httpx has a timeout for each read, and none for
\* a whole response: a server that keeps sending may keep a task at reading.
\* wait_for has a timeout for the answer on the stream.  The server owes nothing.
McpFairSpec == McpSpec /\ \A t \in Tasks : WF_mcpVars(Proceed(t))

-----------------------------------------------------------------------------
(* Properties                                                                *)

\* A request that ends, ends because of something that can still reach it: the
\* future a task waits for is settled, or it is in _pending where the reader, the
\* crash of the reader and the answer look for it (http_client.py:274-369).
NoOrphans ==
    \A t \in Tasks : task[t].pc = "waiting" =>
        \/ task[t].rid \in pending
        \/ fut[task[t].rid].kind \in {"result", "error"}

\* Requests share the client and one stream, and answers come in any order and
\* after their request has timed out: over SSE a task only ever takes the answer to
\* its own request, and over either transport no server executes a request twice
\* because it was repeated in a new session, unless a response that held no answer
\* to it told of an expired session (http_client.py:134-182, 323-340).
OwnAnswerOnce ==
    /\ \A t \in Tasks : task[t].pc = "waiting" /\ fut[task[t].rid].kind = "result"
                          => fut[task[t].rid].to = t
    /\ \A i \in Ids : served[i] <= 1 \/ i \in misled

\* "re-initialize once and retry" is enough: a request that is repeated after a
\* renewal goes out in a session the server knows, if from the renewal on no other
\* call was made on the client, and the server has forgotten no session and has given
\* the answer to initialize itself.  Of renewals beside each other it says nothing
\* (http_client.py:168-182).
RenewalWorks ==
    \A t \in alone : task[t].again /\ task[t].pc = "posting" => task[t].sid \in live

\* No request is open for good: a task is idle again and again, unless a server
\* keeps sending to it for ever; start may also ask for page after page, for
\* list_tools has no limit (http_client.py:71, 116-150, 212-225, 366-369).
RequestsEnd ==
    \A t \in Tasks :
        \/ []<>(task[t].answer.kind = "more")
        \/ []<>(~ Active(t))
        \/ t = Boot /\ []<><<task'[Boot].rid # task[Boot].rid>>_mcpVars

\* The client's own note on the session: "Subsequent requests must include the
\* same header" (http_client.py:64).  A renewal of another call takes the session
\* away between the notification and the repeated request, which then goes out
\* without one and fails.
SessionCarried ==
    \A t \in Tasks : Http /\ task[t].pc = "posting" /\ task[t].method # "initialize"
                       => task[t].sid # 0
=============================================================================
