------------------------------ MODULE ToolLoop ------------------------------
(***************************************************************************)
(* One chat completion of the orchestrator: the rounds of                  *)
(* _run_chat_completion (orchestrator_api/app/main.py), the attempts of    *)
(* the provider's adapter under each round (common/llm/providers) and the  *)
(* tool calls between two rounds (rag_tools.py, mcp/registry.py).          *)
(*                                                                         *)
(* A completion shares nothing that it writes with another one, so there   *)
(* is one of them here; what its environment may do is chosen anew at      *)
(* every step: how the provider answers an attempt, and which tools it     *)
(* names.  The request has already passed the checks before the loop.      *)
(***************************************************************************)
EXTENDS Integers, Sequences, FiniteSets

CONSTANTS Query,          \* the retrieval tool, rag__query
          McpTools,       \* the tools the MCP servers have registered
          Emit,           \* emit_chunk_offsets: the client's own tool
          MaxToolRounds,  \* settings.mcp_max_tool_rounds
          MaxRetries,     \* max_retries of the adapter; 0 for Anthropic's
          MaxCalls,       \* bound: the tool calls in one answer
          Requests,       \* the requests that may come, among AllRequests
          None

ASSUME LimitsAssumption ==
    MaxToolRounds \in Int /\ MaxRetries \in Nat /\ MaxCalls \in Nat
ASSUME NoneAssumption ==
    None \notin {"busy", "refused", "denied", "answered", "tool_loop_exceeded"}
ASSUME ToolsAssumption ==
    Query \notin McpTools /\ Emit \notin McpTools /\ Emit # Query

\* What a request and the settings it finds decide about tools and the answer.
\* Tools of the client (client) are looked at only when the task is chunking.
AllRequests ==
    {r \in [chunking : BOOLEAN, client : BOOLEAN, none : BOOLEAN,
            server : BOOLEAN, supports : BOOLEAN, mcp : BOOLEAN,
            allowed : SUBSET (McpTools \cup {Query}), format : BOOLEAN] :
        r.client => r.chunking}

ASSUME RequestsAssumption == Requests \subseteq AllRequests

VARIABLES req,       \* the request and the settings it found
          pc,        \* "call" the provider, run "tools", or "ended"
          round,     \* round_idx
          attempt,   \* attempt, in the adapter
          kept,      \* resp of the adapter: the status it has kept, or None
          offered,   \* tools
          retried,   \* retried_without_tools
          calls,     \* the tool calls of the answer that are still to be run
          toolMsgs,  \* tool_msgs
          messages,  \* what was appended to messages
          content,   \* content
          executed,  \* the tools that were really called
          posts,     \* the HTTP requests sent to the provider
          why,       \* how the last attempt ended
          outcome    \* None, "answered" or the code of the error

vars == <<req, pc, round, attempt, kept, offered, retried, calls, toolMsgs,
          messages, content, executed, posts, why, outcome>>

Tools    == McpTools \cup {Query, Emit}
Args     == {"object", "text", "absent"}   \* "text": not a JSON object
Calls    == [tool : Tools, args : Args]
Contents == {"", "text", "json"}           \* "json": fits response_format
Rounds   == IF MaxToolRounds > 1 THEN MaxToolRounds ELSE 1

\* The tools sent with the first call.
ToolsFor(r) ==
    IF r.supports /\ r.client THEN {Emit}
    ELSE IF r.server /\ r.supports /\ ~r.none
         THEN r.allowed \cap ({Query} \cup (IF r.mcp THEN McpTools ELSE {}))
         ELSE {}

Assistant(n) == [role |-> "assistant", n |-> n]   \* it asks for n calls
ToolMsg(n)   == [role |-> "tool", n |-> n]        \* it answers the nth of them
Messages     == [role : {"assistant", "tool"}, n : Nat]

Init ==
    /\ req \in Requests
    /\ offered = ToolsFor(req)
    /\ pc = "call"
    /\ round = 0 /\ attempt = 0 /\ posts = 0
    /\ kept = None /\ why = None /\ outcome = None
    /\ retried = FALSE
    /\ calls = <<>> /\ toolMsgs = <<>> /\ messages = <<>>
    /\ content = ""
    /\ executed = {}

-----------------------------------------------------------------------------
(* The end of a completion and of a round                                  *)

Ends(code) ==
    /\ pc' = "ended"
    /\ outcome' = code
    /\ UNCHANGED <<round, attempt, kept>>

\* `continue', or the last statement of the body: the next round of the for, or
\* its else branch.
NextRound ==
    IF round + 1 < Rounds
    THEN /\ pc' = "call"
         /\ round' = round + 1
         /\ attempt' = 0
         /\ kept' = None
         /\ UNCHANGED outcome
    ELSE Ends("tool_loop_exceeded")

MayRepeat == offered # {} /\ ~req.client /\ ~retried

RepeatWithoutTools ==
    /\ retried' = TRUE
    /\ offered' = {}
    /\ NextRound

-----------------------------------------------------------------------------
(* The adapter: one attempt                                                *)

Posts == pc = "call" /\ posts' = posts + 1

\* Mutant: any status from 400 on speaks against the tools.
SpeaksAtAll(status) == status \in {"refused", "denied", "busy"}

\* _should_retry_without_tools: "refused" stands for a status of 400, 404, 413
\* or 422 whose body does not speak against it.
SpeaksAgainstTools(status) == status = "refused"

\* The adapter raises an LLMError with the status of the response it has kept.
Raise(status) ==
    /\ IF MayRepeat /\ SpeaksAgainstTools(status)
       THEN RepeatWithoutTools
       ELSE Ends("provider_error") /\ UNCHANGED <<retried, offered>>
    /\ UNCHANGED <<req, calls, toolMsgs, messages, content, executed>>

\* Mutant: the attempts are not counted.
AgainUncounted(status) ==
    /\ attempt < MaxRetries
    /\ kept' = status
    /\ UNCHANGED <<req, pc, round, attempt, offered, retried, calls, toolMsgs,
                   messages, content, executed, outcome>>

Again(status) ==
    /\ attempt < MaxRetries
    /\ attempt' = attempt + 1
    /\ kept' = status
    /\ UNCHANGED <<req, pc, round, offered, retried, calls, toolMsgs, messages,
                   content, executed, outcome>>

\* A status that is worth another attempt: 408, 409, 429 and some of 5xx.
BusyAgain == Posts /\ why' = "busy" /\ Again("busy")

\* No response at all; the one of an earlier attempt is kept.
LostAgain == Posts /\ why' = "lost" /\ Again(kept)

BusyAtLast == Posts /\ why' = "busy" /\ attempt = MaxRetries /\ Raise("busy")
LostAtLast == Posts /\ why' = "lost" /\ attempt = MaxRetries /\ Raise(kept)

\* A status that is not worth another attempt, or an error of another kind.
Refused == Posts /\ why' = "refused" /\ Raise("refused")
Denied  == Posts /\ why' = "denied" /\ Raise("denied")

\* No key or no address: an LLMError before anything is sent.
Unconfigured ==
    /\ pc = "call" /\ round = 0 /\ attempt = 0
    /\ why' = "unconfigured"
    /\ Raise(None)
    /\ UNCHANGED posts

\* A 200 that is not JSON: not an LLMError, nobody catches it.
Garbled ==
    /\ Posts
    /\ why' = "garbled"
    /\ Ends("internal_error")
    /\ UNCHANGED <<req, offered, retried, calls, toolMsgs, messages, content,
                   executed>>

-----------------------------------------------------------------------------
(* The answer of a round                                                   *)

\* For chunking, the calls of emit_chunk_offsets that give the answer.
Offsets(c, cs) ==
    {i \in DOMAIN cs : /\ req.chunking
                       /\ cs[i].tool = Emit
                       /\ c # "" \/ cs[i].args # "absent"}

\* What the first of them makes of the content.
Emitted(c, call) == IF call.args = "object" THEN "json"
                    ELSE IF call.args = "text" THEN "text" ELSE c

FirstOffsets(c, cs) ==
    CHOOSE i \in Offsets(c, cs) : \A j \in Offsets(c, cs) : i <= j

ContentOf(c, cs) == IF Offsets(c, cs) = {} THEN c
                    ELSE Emitted(c, cs[FirstOffsets(c, cs)])
CallsOf(c, cs)   == IF Offsets(c, cs) = {} THEN cs ELSE <<>>

\* validate_response_format.
Fits(c) == ~req.format \/ req.chunking \/ c = "json"

Answered ==
    /\ Posts
    /\ why' = "answer"
    /\ UNCHANGED <<req, executed>>

EmptyAnswer ==
    /\ Answered
    /\ IF MayRepeat THEN RepeatWithoutTools
       ELSE Ends("empty_content") /\ UNCHANGED <<retried, offered>>
    /\ content' = ""
    /\ UNCHANGED <<calls, toolMsgs, messages>>

\* Mutant: the content is not held against the format.
FinalUnchecked(c, cs) ==
    /\ Answered
    /\ CallsOf(c, cs) = <<>>
    /\ ContentOf(c, cs) # ""
    /\ content' = ContentOf(c, cs)
    /\ messages' = Append(messages, Assistant(0))
    /\ Ends("answered")
    /\ UNCHANGED <<offered, retried, calls, toolMsgs>>

FinalAnswer(c, cs) ==
    /\ Answered
    /\ CallsOf(c, cs) = <<>>
    /\ ContentOf(c, cs) # ""
    /\ content' = ContentOf(c, cs)
    /\ messages' = Append(messages, Assistant(0))
    /\ Ends(IF Fits(ContentOf(c, cs)) THEN "answered" ELSE "invalid_format")
    /\ UNCHANGED <<offered, retried, calls, toolMsgs>>

ToolAnswer(c, cs) ==
    /\ Answered
    /\ CallsOf(c, cs) # <<>>
    /\ content' = c
    /\ messages' = Append(messages, Assistant(Len(cs)))
    /\ pc' = "tools"
    /\ calls' = cs
    /\ toolMsgs' = <<>>
    /\ UNCHANGED <<round, attempt, kept, offered, retried, outcome>>

-----------------------------------------------------------------------------
(* The tool calls                                                          *)

\* Whether a call reaches the retrieval service or an MCP server.  An object
\* without a query is as good as no arguments for the first, and arguments that
\* are not an object are refused before the second.
Served(call) ==
    /\ call.tool \in req.allowed
    /\ \/ call.tool = Query /\ call.args = "object"
       \/ req.mcp /\ call.tool \in McpTools /\ call.args # "text"

\* Mutant: a call that is not served gets no message.
RunToolSilently ==
    /\ pc = "tools"
    /\ LET call == Head(calls)
           msgs == IF Served(call) THEN Append(toolMsgs, ToolMsg(Len(toolMsgs) + 1))
                   ELSE toolMsgs
       IN /\ executed' = IF Served(call) THEN executed \cup {call.tool}
                         ELSE executed
          /\ calls' = Tail(calls)
          /\ IF Tail(calls) # <<>>
             THEN /\ toolMsgs' = msgs
                  /\ UNCHANGED <<pc, round, attempt, kept, messages, outcome>>
             ELSE /\ toolMsgs' = <<>>
                  /\ messages' = messages \o msgs
                  /\ NextRound
    /\ UNCHANGED <<req, offered, retried, content, posts, why>>

\* Mutant: a call that is not served is tried for ever.
RunServedTool == pc = "tools" /\ Served(Head(calls)) /\ UNCHANGED vars

\* Whatever becomes of a call, there is a message for it.
RunTool ==
    /\ pc = "tools"
    /\ LET call  == Head(calls)
           msgs  == Append(toolMsgs, ToolMsg(Len(toolMsgs) + 1))
       IN /\ executed' = IF Served(call) THEN executed \cup {call.tool}
                         ELSE executed
          /\ calls' = Tail(calls)
          /\ IF Tail(calls) # <<>>
             THEN /\ toolMsgs' = msgs
                  /\ UNCHANGED <<pc, round, attempt, kept, messages, outcome>>
             ELSE /\ toolMsgs' = <<>>
                  /\ messages' = messages \o msgs
                  /\ NextRound
    /\ UNCHANGED <<req, offered, retried, content, posts, why>>

-----------------------------------------------------------------------------
CallLists == UNION {[1..n -> Calls] : n \in 0..MaxCalls}

Next == \/ BusyAgain \/ LostAgain \/ BusyAtLast \/ LostAtLast
        \/ Refused \/ Denied \/ Unconfigured \/ Garbled \/ EmptyAnswer
        \/ \E c \in Contents, cs \in CallLists :
              FinalAnswer(c, cs) \/ ToolAnswer(c, cs)
        \/ RunTool

\* An attempt that gets no answer is given up after the time limit of httpx, and
\* so is a call of the retrieval service or of an MCP server.
Fairness == WF_vars(LostAgain \/ LostAtLast) /\ WF_vars(RunTool)

Spec == Init /\ [][Next]_vars
FairSpec == Spec /\ Fairness

-----------------------------------------------------------------------------
(* Properties                                                              *)

\* The state has its shape (types of the locals of _run_chat_completion and of
\* the adapter's loop); the adapter never keeps a status but a busy one.
TypeOK ==
    /\ req \in Requests
    /\ pc \in {"call", "tools", "ended"}
    /\ round \in 0..(Rounds - 1)
    /\ attempt \in 0..MaxRetries
    /\ kept \in {None, "busy"}
    /\ offered \in SUBSET Tools
    /\ retried \in BOOLEAN
    /\ calls \in Seq(Calls)
    /\ pc = "tools" <=> calls # <<>>
    /\ toolMsgs \in Seq(Messages)
    /\ messages \in Seq(Messages)
    /\ content \in Contents
    /\ executed \in SUBSET Tools
    /\ posts \in Nat
    /\ why \in {None, "busy", "lost", "refused", "denied", "unconfigured",
                "garbled", "answer"}
    /\ outcome \in {None, "answered", "invalid_format", "provider_error",
                    "empty_content", "internal_error", "tool_loop_exceeded"}

\* The calls of the assistant's message at k of ms are answered, in their order,
\* by the messages right behind it.
AnsweredAt(ms, k) ==
    \A i \in 1..ms[k].n : k + i \in DOMAIN ms /\ ms[k + i] = ToolMsg(i)

\* The message at k of ms belongs to an assistant's message before it.
AskedAt(ms, k) ==
    LET asking == k - ms[k].n
    IN  /\ asking \in DOMAIN ms
        /\ ms[asking].role = "assistant"
        /\ ms[k].n \in 1..ms[asking].n

WholeAt(ms, k) == IF ms[k].role = "assistant" THEN AnsweredAt(ms, k) ELSE AskedAt(ms, k)

\* Whenever the provider is called, every tool call it was told about is
\* followed by its own answer, and no answer stands alone (main.py:820-886):
\* whatever went wrong with the tools, and also in the repetition without them.
AnsweredBeforeAsked ==
    pc = "call" => \A k \in DOMAIN messages : WholeAt(messages, k)

\* Only what the request's policy allows is ever called, whatever names the
\* model comes up with and whatever was offered to it (rag_tools.py:204-210,
\* registry.py:323).
PolicyHonoured == executed \subseteq req.allowed

\* Tools are withdrawn once and for good, and only because the very attempt
\* that ended the round was refused or answered with nothing (main.py:744-763
\* and 781-795): never on the strength of a status of an earlier attempt that
\* the adapter still has (openai_compat.py:194-241).
WithdrawnForCause ==
    [][offered' # offered =>
          /\ ~retried /\ retried'
          /\ offered' = {}
          /\ why' \in {"refused", "answer"}]_vars

\* A completion costs at most so many requests of the provider, rounds,
\* repetition and attempts taken together (main.py:728, openai_compat.py:197).
PostsBounded == posts <= Rounds * (MaxRetries + 1)

AssistantMessages == {k \in DOMAIN messages : messages[k].role = "assistant"}

\* What is returned is not empty, is in the format that was asked for, and is
\* the last word of a history in which no other message was an answer
\* (main.py:796, 838 and 911-912).
AnswerIsFit ==
    outcome = "answered" =>
        /\ content # "" /\ Fits(content)
        /\ calls = <<>>
        /\ \A k \in AssistantMessages :
              messages[k].n = 0 <=> k = Len(messages)

\* "Exceeded maximum tool rounds" is said of a completion only if the model asked
\* for tools in every round but the one the repetition took (main.py:888-904).
ExceededIsTrue ==
    outcome = "tool_loop_exceeded" =>
        Cardinality(AssistantMessages) = IF retried THEN Rounds - 1 ELSE Rounds

\* A completion ends (main.py:728 and the timeouts of all that it awaits), if each
\* call of a tool does: McpClient's RequestsEnd gives that but for a server that
\* keeps sending to it for ever.
CompletionEnds == <>(pc = "ended")
=============================================================================
