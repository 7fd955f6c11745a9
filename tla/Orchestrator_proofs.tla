------------------------- MODULE Orchestrator_proofs -------------------------
(***************************************************************************)
(* Proofs about the orchestrator's way to the tools: ToolLoop, for any      *)
(* number of rounds, attempts and calls, any tools of the MCP servers and   *)
(* any set of requests, and McpClient, for any callers and any bounds on    *)
(* ids, sessions and evictions.   The two modules share no state: a   *)
(* loop sees of a client what a call of a tool returns.                     *)
(***************************************************************************)
EXTENDS ToolLoop, McpClient, SequenceTheorems, FiniteSetTheorems, TLAPS

-----------------------------------------------------------------------------
(* The client of an MCP server *)

USE BootAssumption, BoundsAssumption

---------------------------------------------------------------------------
(* What a task may be                                                       *)

Answers == [kind : Kinds, done : BOOLEAN, head : 0 .. MaxSessions]

States == [pc : {"idle", "posting", "waiting", "noting"}, method : Methods, rid : 0 .. MaxIds,
           kept : 0 .. MaxIds, again : BOOLEAN, sid : 0 .. MaxSessions,
           answer : Answers]

LEMMA NoAnswerIs == NoAnswer \in Answers /\ NoAnswer.kind = "none" /\ NoAnswer.done = FALSE /\ NoAnswer.head = 0
  BY DEF NoAnswer, Answers, Kinds

LEMMA IdleIs == Idle \in States /\ Idle.pc = "idle" /\ Idle.rid = 0 /\ Idle.kept = 0 /\ Idle.answer = NoAnswer
  BY NoAnswerIs DEF Idle, States, Methods

LEMMA PostingIs ==
    ASSUME NEW m \in Methods, NEW i \in 0 .. MaxIds, NEW sid \in 0 .. MaxSessions
    PROVE  /\ Posting(m, i, sid) \in States /\ Posting(m, i, sid).method = m
           /\ Posting(m, i, sid).pc = "posting" /\ Posting(m, i, sid).rid = i
           /\ Posting(m, i, sid).kept = 0 /\ Posting(m, i, sid).answer = NoAnswer
  BY IdleIs DEF Posting, States

LEMMA NotingIs ==
    ASSUME NEW s \in States, NEW sid \in 0 .. MaxSessions
    PROVE  LET n == [s EXCEPT !.pc = "noting", !.sid = sid, !.answer = NoAnswer]
           IN  n \in States /\ n.pc = "noting" /\ n.rid = s.rid /\ n.kept = s.kept
  BY NoAnswerIs DEF States

LEMMA RenewingIs ==
    ASSUME NEW i \in 0 .. MaxIds, NEW k \in 0 .. MaxIds
    PROVE  LET s == [Posting("initialize", i, 0) EXCEPT !.kept = k]
           IN  /\ s \in States /\ s.pc = "posting" /\ s.method = "initialize"
               /\ s.rid = i /\ s.kept = k /\ s.answer = NoAnswer
  <1>1. Posting("initialize", i, 0) \in States
    BY PostingIs DEF Methods
  <1> QED
    BY <1>1, PostingIs DEF States, Methods

LEMMA RepostIs ==
    ASSUME NEW t \in Tasks, task[t] \in States, NEW sid \in 0 .. MaxSessions
    PROVE  /\ Repost(t, sid) \in States /\ Repost(t, sid).pc = "posting"
           /\ Repost(t, sid).method = Outer(t)
           /\ Repost(t, sid).rid = task[t].kept /\ Repost(t, sid).kept = 0
           /\ Repost(t, sid).answer = NoAnswer
  <1> DEFINE p == Posting(Outer(t), task[t].kept, sid)
  <1>1. Outer(t) \in Methods /\ task[t].kept \in 0 .. MaxIds
    BY DEF Outer, Methods, States
  <1>2. /\ p \in States /\ p.pc = "posting" /\ p.rid = task[t].kept /\ p.kept = 0
        /\ p.answer = NoAnswer /\ p.method = Outer(t)
    BY <1>1, PostingIs
  <1>3. Repost(t, sid) = [p EXCEPT !.again = TRUE]
    BY DEF Repost
  <1> HIDE DEF p
  <1> QED
    BY <1>2, <1>3 DEF States

---------------------------------------------------------------------------
(* The ids of the requests                                                  *)

\* Only start lists the tools; a caller only initializes to renew the session.
Role(t, s) ==
    /\ s.pc = "noting" => s.method = "initialize"
    /\ t # Boot => s.method # "tools/list" /\ (s.method = "initialize" => s.kept # 0)

\* The ids a task holds have been given out, to it alone.
Typed ==
    /\ nextId \in Nat \ {0}
    /\ session \in 0 .. MaxSessions
    /\ task \in [Tasks -> States]

Places ==
    \A t \in Tasks :
        /\ task[t].rid < nextId /\ task[t].kept < nextId
        /\ task[t].kept # 0 => task[t].rid # task[t].kept
        /\ task[t].pc \in {"posting", "waiting"} => task[t].rid # 0
        /\ Role(t, task[t])

Used(t) == {task[t].rid, task[t].kept} \ {0}

Apart == \A t, u \in Tasks : t # u => Used(t) \cap Used(u) = {}

HeldOnce == Typed /\ Places /\ Apart

\* A step moves one task to s, which keeps ids of its own or takes the next one.
Moves(t, s) ==
    /\ t \in Tasks /\ s \in States /\ task' = [task EXCEPT ![t] = s]
    /\ \/ nextId' = nextId /\ {s.rid, s.kept} \subseteq {0, task[t].rid, task[t].kept}
       \/ /\ nextId <= MaxIds /\ nextId' = nextId + 1
          /\ s.rid = nextId /\ s.kept \in {0, task[t].rid}
    /\ s.kept # 0 => s.rid # s.kept
    /\ s.pc \in {"posting", "waiting"} => s.rid # 0
    /\ Role(t, s)

LEMMA MovesHeld ==
    ASSUME HeldOnce, NEW t, NEW s, Moves(t, s), session' \in 0 .. MaxSessions
    PROVE  HeldOnce'
  <1>1. /\ t \in Tasks /\ s \in States /\ task' = [task EXCEPT ![t] = s]
        /\ task \in [Tasks -> States] /\ nextId \in Nat \ {0}
    BY DEF HeldOnce, Typed, Moves
  <1>2. task' \in [Tasks -> States] /\ task'[t] = s /\ \A u \in Tasks \ {t} : task'[u] = task[u]
    BY <1>1
  <1>3. nextId' \in {nextId, nextId + 1}
    BY DEF Moves
  <1>4. Typed'
    BY <1>1, <1>2, <1>3 DEF Typed
  <1>5. \A u \in Tasks : task[u].rid \in Nat /\ task[u].kept \in Nat /\ task[u].rid < nextId /\ task[u].kept < nextId
    BY <1>1 DEF HeldOnce, Places, States
  <1>6. s.rid < nextId' /\ s.kept < nextId'
    BY <1>1, <1>5 DEF Moves
  <1>7. Places'
    <2> SUFFICES ASSUME NEW u \in Tasks
                 PROVE  /\ task'[u].rid < nextId' /\ task'[u].kept < nextId'
                        /\ task'[u].kept # 0 => task'[u].rid # task'[u].kept
                        /\ task'[u].pc \in {"posting", "waiting"} => task'[u].rid # 0
                        /\ Role(u, task'[u])
      BY DEF Places, Role
    <2>1. CASE u = t
      BY <1>2, <1>6, <2>1 DEF Moves
    <2>2. CASE u # t
      BY <1>1, <1>2, <1>3, <1>5, <2>2 DEF HeldOnce, Places
    <2> QED
      BY <2>1, <2>2
  <1>8. Used(t)' \subseteq Used(t) \cup {nextId}
    BY <1>2 DEF Used, Moves
  <1>9. \A u \in Tasks \ {t} : Used(u)' = Used(u) /\ nextId \notin Used(u)
    BY <1>2, <1>5 DEF Used
  <1>10. Apart'
    BY <1>1, <1>8, <1>9 DEF HeldOnce, Apart
  <1> QED
    BY <1>4, <1>7, <1>10 DEF HeldOnce

\* A request takes the next id.
LEMMA RequestMoves ==
    ASSUME HeldOnce, NEW t \in Tasks, NEW m \in Methods, Request(t, m), t # Boot => m = "tools/call"
    PROVE  /\ Moves(t, Posting(m, nextId, session))
           /\ nextId \in Ids
  <1>1. nextId \in 1 .. MaxIds /\ nextId' = nextId + 1
    BY DEF HeldOnce, Typed, Request, IdsLeft, FreshId
  <1>2. task' = [task EXCEPT ![t] = Posting(m, nextId, session)]
    BY DEF Request, FreshId
  <1>3. session \in 0 .. MaxSessions
    BY DEF HeldOnce, Typed
  <1> QED
    BY <1>1, <1>2, <1>3, PostingIs DEF Moves, Role, Ids

\* A request that ends.
LEMMA EndMoves ==
    ASSUME HeldOnce, NEW t \in Tasks, task' = [task EXCEPT ![t] = Idle], nextId' = nextId
    PROVE  Moves(t, Idle)
  BY IdleIs DEF Moves, Role, Idle

---------------------------------------------------------------------------
(* Streamable HTTP: what has been executed                                  *)

\* Nobody waits for a stream; a request that will be repeated, or that is posted and
\* not done, was not executed, unless an answer that was none misled its task.
Once(s, done, lost) ==
    /\ s.pc # "waiting"
    /\ s.kept # 0 => done[s.kept] = 0 \/ s.kept \in lost
    /\ s.pc = "posting" /\ ~ s.answer.done => done[s.rid] = 0 \/ s.rid \in lost

Executed ==
    /\ issued \in Nat
    /\ served \in [Ids -> Nat]
    /\ \A i \in Ids : (served[i] <= 1 \/ i \in misled) /\ (i >= nextId => served[i] = 0)

AllOnce == \A t \in Tasks : Once(task[t], served, misled)

LEMMA IdleOnce == \A done, lost : Once(Idle, done, lost)
  BY IdleIs DEF Once

LEMMA MovesOnce ==
    ASSUME HeldOnce, Executed, AllOnce, NEW t, NEW s, Moves(t, s),
           served' = served, issued' = issued, misled \subseteq misled', Once(s, served, misled')
    PROVE  Executed' /\ AllOnce'
  <1>1. \A u \in Tasks : task'[u] = IF u = t THEN s ELSE task[u]
    BY DEF Moves, HeldOnce, Typed
  <1>2. AllOnce'
    BY <1>1 DEF AllOnce, Once
  <1>3. nextId \in Nat /\ nextId' \in {nextId, nextId + 1}
    BY DEF Moves, HeldOnce, Typed
  <1>4. Executed'
    BY <1>3 DEF Executed, Ids
  <1> QED
    BY <1>2, <1>4

\* A fresh request has not been executed.
LEMMA PostingOnce ==
    ASSUME Executed, nextId \in Ids, NEW m \in Methods, NEW sid \in 0 .. MaxSessions
    PROVE  Once(Posting(m, nextId, sid), served, misled)
  BY PostingIs DEF Once, Executed, Ids

HttpInv == HeldOnce /\ Executed /\ AllOnce

\* A result, over HTTP.
LEMMA SucceedHttp ==
    ASSUME HttpInv, Http, NEW t \in Tasks, task[t].pc = "posting",
           session' \in 0 .. MaxSessions, Succeed(t, session', {}), UNCHANGED <<served, issued, misled>>
    PROVE  HttpInv'
  <1> USE DEF HttpInv
  <1>1. task[t] \in States /\ Role(t, task[t]) /\ Once(task[t], served, misled)
    BY DEF HeldOnce, Typed, Places, AllOnce
  <1>2. CASE task[t].method = "initialize"
    <2> DEFINE s == [task[t] EXCEPT !.pc = "noting", !.sid = session', !.answer = NoAnswer]
    <2>1. task' = [task EXCEPT ![t] = s] /\ nextId' = nextId
      BY <1>2 DEF Succeed
    <2>2. s \in States /\ s.pc = "noting" /\ s.rid = task[t].rid /\ s.kept = task[t].kept
      BY <1>1, NotingIs
    <2>3. s.method = task[t].method
      BY <1>1 DEF States
    <2> HIDE DEF s
    <2>4. Moves(t, s)
      BY <1>1, <1>2, <2>1, <2>2, <2>3 DEF Moves, Role, HeldOnce, Places
    <2>5. Once(s, served, misled)
      BY <1>1, <2>2 DEF Once
    <2> QED
      BY <2>4, <2>5, MovesHeld, MovesOnce
  <1>3. CASE task[t].method = "tools/list"
    <2>1. t = Boot
      BY <1>1, <1>3 DEF Role
    <2>2. CASE Registered /\ nextId' = nextId
      BY <2>2, EndMoves, MovesHeld, MovesOnce, IdleOnce DEF Registered, Tasks
    <2>3. CASE ListNext(t, session', {})
      <3> DEFINE s == Posting("tools/list", nextId, session')
      <3>1. nextId \in Ids /\ nextId' = nextId + 1 /\ task' = [task EXCEPT ![t] = s]
        BY <2>3 DEF ListNext, IdsLeft, FreshId, HeldOnce, Typed, Ids
      <3>2. Moves(t, s)
        BY <2>1, <3>1, PostingIs DEF Moves, Role, Methods, Ids
      <3>3. Once(s, served, misled)
        BY <3>1, PostingOnce DEF Methods
      <3> QED
        BY <3>2, <3>3, MovesHeld, MovesOnce
    <2> QED
      BY <1>3, <2>2, <2>3 DEF Succeed
  <1>4. CASE task[t].method \notin {"initialize", "tools/list"}
    <2>1. task' = [task EXCEPT ![t] = Idle] /\ nextId' = nextId
      BY <1>4 DEF Succeed
    <2> QED
      BY <2>1, EndMoves, MovesHeld, MovesOnce, IdleOnce
  <1> QED
    BY <1>2, <1>3, <1>4

\* After the notification: the repetition, or the first page of the tools.
LEMMA NoteHttp ==
    ASSUME HttpInv, Http, NEW t \in Tasks, task[t].pc = "noting",
           session' \in 0 .. MaxSessions, NEW sid \in 0 .. MaxSessions, NoteOver(t, sid),
           UNCHANGED <<served, issued, misled>>
    PROVE  HttpInv'
  <1> USE DEF HttpInv
  <1>1. task[t] \in States /\ Role(t, task[t]) /\ Once(task[t], served, misled)
    BY DEF HeldOnce, Typed, Places, AllOnce
  <1>2. CASE task[t].kept # 0
    <2>1. task' = [task EXCEPT ![t] = Repost(t, sid)] /\ nextId' = nextId
      BY <1>2 DEF NoteOver
    <2>2. Role(t, Repost(t, sid))
      BY <1>1, RepostIs DEF Role, Outer
    <2>3. Moves(t, Repost(t, sid))
      BY <1>1, <1>2, <2>1, <2>2, RepostIs DEF Moves
    <2>4. Once(Repost(t, sid), served, misled)
      BY <1>1, <1>2, RepostIs DEF Once
    <2> QED
      BY <2>3, <2>4, MovesHeld, MovesOnce
  <1>3. CASE task[t].kept = 0
    <2>1. Request(t, "tools/list") /\ t = Boot
      BY <1>1, <1>3 DEF NoteOver, Role
    <2>2. Moves(t, Posting("tools/list", nextId, session)) /\ nextId \in Ids
      BY <2>1, RequestMoves DEF Methods
    <2>3. Once(Posting("tools/list", nextId, session), served, misled)
      BY <2>2, PostingOnce DEF Methods, HeldOnce, Typed
    <2> QED
      BY <2>2, <2>3, MovesHeld, MovesOnce
  <1> QED
    BY <1>2, <1>3

\* What the headers may be.
LEMMA HeadsAre ==
    ASSUME NEW t \in Tasks, task[t] \in States, session \in 0 .. MaxSessions, NEW h \in Heads(t)
    PROVE  h \in 0 .. MaxSessions /\ Header(h) \in 0 .. MaxSessions
  <1>1. task[t].sid \in 0 .. MaxSessions /\ task[t].answer.head \in 0 .. MaxSessions /\ 0 \in 0 .. MaxSessions
    BY DEF States, Answers
  <1>2. h \in {0, task[t].answer.head, task[t].sid}
    BY DEF Heads
  <1> QED
    BY <1>1, <1>2 DEF Header

\* A response, over HTTP.
LEMMA ReceiveHttp ==
    ASSUME HttpInv, NEW t \in Tasks, Receive(t)
    PROVE  HttpInv'
  <1>1. Http /\ UNCHANGED <<served, issued>>
    BY DEF Receive, serverVars
  <1>2. task[t] \in States /\ session \in 0 .. MaxSessions /\ nextId \in Nat \ {0}
    BY DEF HttpInv, HeldOnce, Typed
  <1>3. CASE task[t].pc = "posting" /\ misled' = misled /\
             \E h \in Heads(t) : session' = Header(h) /\ Succeed(t, Header(h), {})
    BY <1>1, <1>2, <1>3, HeadsAre, SucceedHttp
  <1>4. CASE task[t].pc = "posting" /\ \E k \in Errors : Says(t, k) /\ Renewable(t, k) /\ Renew(t, k)
    <2> DEFINE s == [Posting("initialize", nextId, 0) EXCEPT !.kept = task[t].rid]
    <2>1. PICK k \in Errors : Says(t, k) /\ Renewable(t, k) /\ Renew(t, k)
      BY <1>4
    <2>2. nextId <= MaxIds /\ nextId' = nextId + 1 /\ session' = 0 /\ task' = [task EXCEPT ![t] = s]
      BY <2>1 DEF Renew, IdsLeft, FreshId
    <2>3. /\ s \in States /\ s.pc = "posting" /\ s.method = "initialize"
          /\ s.rid = nextId /\ s.kept = task[t].rid /\ s.answer = NoAnswer
      BY <1>2, <2>2, RenewingIs DEF States
    <2> HIDE DEF s
    <2>4. task[t].rid # 0 /\ task[t].rid < nextId /\ Once(task[t], served, misled)
      BY <1>4 DEF HttpInv, HeldOnce, Places, AllOnce
    <2>5. Moves(t, s)
      BY <1>2, <2>2, <2>3, <2>4 DEF Moves, Role
    <2>6. misled \subseteq misled' /\ (k = "astray" => task[t].rid \in misled')
      BY <2>1 DEF Renew
    <2>7. served[task[t].rid] = 0 \/ task[t].rid \in misled'
      BY <1>4, <2>1, <2>4, <2>6 DEF Renewable, Says, Once
    <2>8. served[nextId] = 0
      BY <1>2, <2>2 DEF HttpInv, Executed, Ids
    <2>9. Once(s, served, misled')
      BY <2>3, <2>7, <2>8 DEF Once
    <2> QED
      BY <1>1, <2>2, <2>5, <2>6, <2>9, MovesHeld, MovesOnce DEF HttpInv
  <1>5. CASE GiveUp(t) /\ misled' = misled /\ \E h \in Heads(t) : session' = Header(h)
    <2>1. task' = [task EXCEPT ![t] = Idle] /\ nextId' = nextId
      BY <1>5 DEF GiveUp
    <2>2. session' \in 0 .. MaxSessions
      BY <1>2, <1>5, HeadsAre
    <2> QED
      BY <1>1, <1>5, <2>1, <2>2, EndMoves, MovesHeld, MovesOnce, IdleOnce DEF HttpInv
  <1>6. CASE task[t].pc = "noting" /\ misled' = misled /\
             \E h \in Heads(t) : session' = Header(h) /\ NoteOver(t, Header(h))
    BY <1>1, <1>2, <1>6, HeadsAre, NoteHttp
  <1> QED
    BY <1>3, <1>4, <1>5, <1>6 DEF Receive, history

\* A connection that is lost.
LEMMA LostHttp ==
    ASSUME HttpInv, NEW t \in Tasks, Lost(t)
    PROVE  HttpInv'
  <1>1. Http /\ UNCHANGED <<served, issued, misled>> /\ session' = session /\ session \in 0 .. MaxSessions
    BY DEF Lost, serverVars, history, HttpInv, HeldOnce, Typed
  <1>2. CASE GiveUp(t)
    <2>1. task' = [task EXCEPT ![t] = Idle] /\ nextId' = nextId
      BY <1>2 DEF GiveUp
    <2> QED
      BY <1>1, <2>1, EndMoves, MovesHeld, MovesOnce, IdleOnce DEF HttpInv
  <1>3. CASE task[t].pc = "noting" /\ NoteOver(t, session)
    BY <1>1, <1>3, NoteHttp
  <1> QED
    BY <1>2, <1>3 DEF Lost

\* A task whose response goes on.
LEMMA AnswerIs ==
    ASSUME HeldOnce, NEW t \in Tasks, Active(t), NEW a \in Answers,
           task' = [task EXCEPT ![t].answer = a], nextId' = nextId
    PROVE  LET s == [task[t] EXCEPT !.answer = a]
           IN  /\ Moves(t, s) /\ s.pc = task[t].pc /\ s.method = task[t].method
               /\ s.rid = task[t].rid /\ s.kept = task[t].kept /\ s.answer = a
               /\ s.sid = task[t].sid /\ s.again = task[t].again
  <1> DEFINE s == [task[t] EXCEPT !.answer = a]
  <1>1. /\ task[t] \in States /\ Role(t, task[t])
        /\ task[t].kept # 0 => task[t].rid # task[t].kept
        /\ task[t].pc \in {"posting", "waiting"} => task[t].rid # 0
    BY DEF HeldOnce, Typed, Places
  <1>2. /\ s \in States /\ s.pc = task[t].pc /\ s.method = task[t].method
        /\ s.rid = task[t].rid /\ s.kept = task[t].kept /\ s.answer = a
        /\ s.sid = task[t].sid /\ s.again = task[t].again
    BY <1>1 DEF States
  <1>3. task' = [task EXCEPT ![t] = s]
    BY DEF HeldOnce, Typed
  <1> HIDE DEF s
  <1>4. Moves(t, s)
    BY <1>1, <1>2, <1>3 DEF Moves, Role
  <1> QED
    BY <1>2, <1>4 DEF s

\* Lines that are not the answer, sent and read.
GoesOn(t, a) ==
    /\ a \in Answers /\ a.done = task[t].answer.done
    /\ task' = [task EXCEPT ![t].answer = a]
    /\ session' \in 0 .. MaxSessions
    /\ UNCHANGED <<nextId, pending, fut, stream, served, issued, misled>>

LEMMA MoreIs ==
    ASSUME HeldOnce, NEW t \in Tasks, Active(t), Feed(t) \/ ReadMore(t)
    PROVE  \E a \in Answers : GoesOn(t, a)
  <1>1. task[t] \in States /\ session \in 0 .. MaxSessions /\ task[t].answer \in Answers
    BY DEF HeldOnce, Typed, States
  <1>2. CASE Feed(t)
    <2>1. PICK h \in 0 .. MaxSessions :
             task' = [task EXCEPT ![t].answer = [task[t].answer EXCEPT !.kind = "more", !.head = h]]
      <3>1. PICK h \in IF Http THEN Heads(t) ELSE {0} :
               task' = [task EXCEPT ![t].answer = [task[t].answer EXCEPT !.kind = "more", !.head = h]]
        BY <1>2 DEF Feed
      <3>2. h \in 0 .. MaxSessions
        <4>1. CASE Http
          BY <1>1, <3>1, <4>1, HeadsAre
        <4>2. CASE ~ Http
          BY <3>1, <4>2
        <4> QED
          BY <4>1, <4>2
      <3> QED
        BY <3>1, <3>2
    <2> DEFINE a == [task[t].answer EXCEPT !.kind = "more", !.head = h]
    <2>2. a \in Answers /\ a.done = task[t].answer.done
      BY <1>1, <2>1 DEF Answers, Kinds
    <2>3. task' = [task EXCEPT ![t].answer = a]
      BY <2>1
    <2> HIDE DEF a
    <2>4. UNCHANGED <<session, nextId, pending, fut, stream, served, issued, misled>>
      BY <1>2 DEF Feed, serverVars, history
    <2> QED
      BY <1>1, <2>2, <2>3, <2>4 DEF GoesOn
  <1>3. CASE ReadMore(t)
    <2> DEFINE a == [task[t].answer EXCEPT !.kind = "begun", !.head = 0]
    <2>1. a \in Answers /\ a.done = task[t].answer.done
      <3>1. 0 \in 0 .. MaxSessions
        OBVIOUS
      <3>2. "begun" \in Kinds
        BY DEF Kinds
      <3> QED
        BY <1>1, <3>1, <3>2 DEF Answers
    <2>2. task' = [task EXCEPT ![t].answer = a]
      BY <1>3 DEF ReadMore
    <2> HIDE DEF a
    <2>3. session' \in 0 .. MaxSessions
      BY <1>1, <1>3 DEF ReadMore, Header, Answers
    <2>4. UNCHANGED <<nextId, pending, fut, stream, served, issued, misled>>
      BY <1>3 DEF ReadMore, serverVars, history
    <2> QED
      BY <2>1, <2>2, <2>3, <2>4 DEF GoesOn
  <1> QED
    BY <1>2, <1>3

LEMMA MoreHttp ==
    ASSUME HttpInv, NEW t \in Tasks, Active(t), Feed(t) \/ ReadMore(t)
    PROVE  HttpInv'
  <1>1. PICK a \in Answers : GoesOn(t, a)
    BY MoreIs DEF HttpInv
  <1> DEFINE s == [task[t] EXCEPT !.answer = a]
  <1>2. /\ Moves(t, s) /\ s.pc = task[t].pc /\ s.rid = task[t].rid /\ s.kept = task[t].kept
        /\ s.answer = a /\ a.done = task[t].answer.done
    BY <1>1, AnswerIs DEF GoesOn, HttpInv
  <1> HIDE DEF s
  <1>3. Once(task[t], served, misled)
    BY DEF HttpInv, AllOnce
  <1>4. Once(s, served, misled)
    BY <1>2, <1>3 DEF Once
  <1> QED
    BY <1>1, <1>2, <1>4, MovesHeld, MovesOnce DEF HttpInv, GoesOn

\* The server executes what has been posted once.
LEMMA ServeHttp ==
    ASSUME HttpInv, NEW t \in Tasks, Serve(t)
    PROVE  HttpInv'
  <1> USE DEF HttpInv
  <1>1. /\ task[t].pc = "posting" /\ ~ task[t].answer.done /\ Active(t)
        /\ nextId' = nextId /\ session' = session /\ Execute(t)
        /\ served' = [i \in Ids |-> IF i = task[t].rid THEN served[i] + 1
                                    ELSE IF i \in AtWork THEN served[i] ELSE 0]
        /\ misled' = misled \cap AtWork
    BY DEF Serve, Active, Execute
  <1>2. /\ task[t] \in States /\ Once(task[t], served, misled)
        /\ session \in 0 .. MaxSessions /\ nextId \in Nat /\ issued \in Nat
        /\ task[t].kept # 0 => task[t].rid # task[t].kept
        /\ task[t].rid # 0 /\ task[t].rid < nextId
    BY <1>1 DEF HeldOnce, Typed, Places, AllOnce, Executed
  <1>3. task[t].rid \in Ids /\ task[t].answer \in Answers
    BY <1>2 DEF States, Ids
  <1>4. PICK h \in 0 .. MaxSessions :
           /\ task' = [task EXCEPT ![t].answer = [task[t].answer EXCEPT !.done = TRUE, !.head = h]]
           /\ issued' \in {issued, issued + 1}
    <2>1. CASE task[t].method = "initialize"
      <3>1. /\ task' = [task EXCEPT ![t].answer = [task[t].answer EXCEPT !.done = TRUE, !.head = issued + 1]]
            /\ issued < MaxSessions /\ issued' = issued + 1
        BY <2>1 DEF Serve
      <3>2. issued + 1 \in 0 .. MaxSessions
        BY <1>2, <3>1
      <3> QED
        BY <3>1, <3>2
    <2>2. CASE task[t].method # "initialize"
      <3>1. /\ task' = [task EXCEPT ![t].answer = [task[t].answer EXCEPT !.done = TRUE]]
            /\ issued' = issued
        BY <2>2 DEF Serve
      <3>2. /\ [task[t].answer EXCEPT !.done = TRUE]
                  = [task[t].answer EXCEPT !.done = TRUE, !.head = task[t].answer.head]
            /\ task[t].answer.head \in 0 .. MaxSessions
        BY <1>3 DEF Answers
      <3> QED
        BY <3>1, <3>2
    <2> QED
      BY <2>1, <2>2
  <1> DEFINE a == [task[t].answer EXCEPT !.done = TRUE, !.head = h]
             s == [task[t] EXCEPT !.answer = a]
  <1>5. a \in Answers /\ a.done = TRUE
    BY <1>3, <1>4 DEF Answers
  <1>6. task' = [task EXCEPT ![t].answer = a]
    BY <1>4
  <1> HIDE DEF a
  <1>7. /\ Moves(t, s) /\ s.pc = task[t].pc /\ s.rid = task[t].rid /\ s.kept = task[t].kept /\ s.answer = a
    BY <1>1, <1>5, <1>6, AnswerIs
  <1> HIDE DEF s
  <1>8. HeldOnce'
    BY <1>1, <1>2, <1>7, MovesHeld
  <1>9. \A i \in Ids : i \in AtWork /\ i # task[t].rid =>
           served'[i] = served[i] /\ (i \in misled => i \in misled')
    BY <1>1
  <1>10. \A u \in Tasks : task[u].rid \in AtWork /\ task[u].kept \in AtWork
    BY DEF AtWork
  <1>11. Once(s, served', misled')
    <2>1. task[t].kept # 0 => task[t].kept \in Ids
      BY <1>2 DEF States, Ids
    <2> QED
      BY <1>2, <1>5, <1>7, <1>9, <1>10, <2>1 DEF Once
  <1>12. ASSUME NEW u \in Tasks \ {t}
         PROVE  Once(task[u], served', misled')
    <2>1. /\ Once(task[u], served, misled) /\ Used(u) \cap Used(t) = {} /\ task[u] \in States
          /\ task[u].pc \in {"posting", "waiting"} => task[u].rid # 0
      BY DEF AllOnce, HeldOnce, Apart, Places, Typed
    <2>2. task[t].rid \in Used(t)
      BY <1>2 DEF Used
    <2>3. task[u].kept # 0 => task[u].kept \in Ids /\ task[u].kept # task[t].rid
      BY <2>1, <2>2 DEF Used, States, Ids
    <2>4. task[u].rid # 0 => task[u].rid \in Ids /\ task[u].rid # task[t].rid
      BY <2>1, <2>2 DEF Used, States, Ids
    <2> QED
      BY <1>9, <1>10, <2>1, <2>3, <2>4 DEF Once
  <1>13. AllOnce'
    <2>1. \A u \in Tasks : task'[u] = IF u = t THEN s ELSE task[u]
      BY <1>7 DEF Moves, HeldOnce, Typed
    <2> QED
      BY <1>11, <1>12, <2>1 DEF AllOnce
  <1>14. Executed'
    <2>1. served \in [Ids -> Nat] /\ \A i \in Ids : (served[i] <= 1 \/ i \in misled) /\ (i >= nextId => served[i] = 0)
      BY DEF Executed
    <2>2. served' \in [Ids -> Nat]
      BY <1>1, <2>1
    <2>3. task[t].rid \in AtWork /\ (served[task[t].rid] = 0 \/ task[t].rid \in misled)
      BY <1>1, <1>2, <1>10 DEF Once
    <2>4. ASSUME NEW i \in Ids
          PROVE  (served'[i] <= 1 \/ i \in misled') /\ (i >= nextId' => served'[i] = 0)
      <3>1. CASE i = task[t].rid
        <4>1. served'[i] = served[i] + 1 /\ (i \in misled => i \in misled') /\ ~ (i >= nextId')
          BY <1>1, <1>2, <1>3, <2>3, <3>1 DEF Ids
        <4> QED
          BY <2>1, <2>3, <3>1, <4>1
      <3>2. CASE i # task[t].rid
        BY <1>1, <2>1, <3>2
      <3> QED
        BY <3>1, <3>2
    <2>5. issued' \in Nat
      BY <1>2, <1>4
    <2> QED
      BY <2>2, <2>4, <2>5 DEF Executed
  <1> QED
    BY <1>8, <1>13, <1>14

\* Every step keeps the invariant of the HTTP client.
LEMMA NextHttp ==
    ASSUME HttpInv, Http, [McpNext]_mcpVars
    PROVE  HttpInv'
  <1>0. session \in 0 .. MaxSessions
    BY DEF HttpInv, HeldOnce, Typed
  <1>1. ASSUME NEW t \in Tasks, NEW m \in Methods, Request(t, m), t # Boot => m = "tools/call",
               UNCHANGED <<session, served, issued, misled>>
        PROVE  HttpInv'
    <2>1. Moves(t, Posting(m, nextId, session)) /\ nextId \in Ids
      BY <1>1, RequestMoves DEF HttpInv
    <2>2. Once(Posting(m, nextId, session), served, misled)
      BY <1>0, <2>1, PostingOnce DEF HttpInv
    <2> QED
      BY <1>0, <1>1, <2>1, <2>2, MovesHeld, MovesOnce DEF HttpInv
  <1>2. CASE Start
    BY <1>1, <1>2 DEF Start, serverVars, history, Tasks, Methods
  <1>3. ASSUME NEW c \in Callers, Call(c)
        PROVE  HttpInv'
    BY <1>1, <1>3 DEF Call, serverVars, Tasks, Methods
  <1>4. CASE UNCHANGED <<task, nextId, session, served, issued, misled>>
    BY <1>4 DEF HttpInv, HeldOnce, Typed, Places, Apart, Used, Executed, AllOnce
  <1>5. ASSUME NEW t \in Tasks, Proceed(t) \/ Feed(t) \/ Serve(t) \/ Take(t)
        PROVE  HttpInv'
    <2>1. ~ (Accepted(t) \/ PostFails(t) \/ Wake(t) \/ TimesOut(t) \/ Take(t))
      BY DEF Accepted, PostFails, Wake, TimesOut, Take
    <2>2. Feed(t) \/ ReadMore(t) => Active(t)
      BY DEF Feed, Active, ReadMore
    <2> QED
      BY <1>5, <2>1, <2>2, ReceiveHttp, LostHttp, ServeHttp, MoreHttp DEF Proceed
  <1>6. CASE Close \/ ReaderCrashes \/ ReaderEnds \/ UNCHANGED mcpVars
    BY <1>4, <1>6 DEF Close, ReaderCrashes, ReaderEnds, mcpVars, clientVars, serverVars, history
  <1>7. ASSUME NEW x \in Sessions, Evict(x)
        PROVE  HttpInv'
    BY <1>4, <1>7 DEF Evict, clientVars
  <1>8. ASSUME NEW m \in stream, Deliver(m)
        PROVE  HttpInv'
    BY <1>8 DEF Deliver
  <1> QED
    BY <1>2, <1>3, <1>5, <1>6, <1>7, <1>8 DEF McpNext

---------------------------------------------------------------------------
(* SSE: futures and the stream                                              *)

\* A request that was sent is pending or settled, and only with its own answer;
\* what the stream carries for its id is its own.
Heard(t, s, waitingFor, made, sent) ==
    /\ s.kept = 0
    /\ s.pc \in {"posting", "waiting"} =>
          /\ s.rid \in waitingFor \/ made[s.rid].kind \in {"result", "error"}
          /\ made[s.rid].kind = "result" => made[s.rid].to = t
          /\ \A m \in sent : m.id = s.rid => m.to = t

Futures ==
    /\ fut \in [Ids -> [kind : {"unmade", "open", "result", "error"}, to : Tasks]]
    /\ \A i \in pending : i \in Ids /\ fut[i].kind # "unmade"
    /\ \A m \in stream : m \in [id : Ids, to : Tasks] /\ m.id < nextId
    /\ served \in [Ids -> Nat] /\ \A i \in Ids : served[i] <= 1

AllHeard == \A t \in Tasks : Heard(t, task[t], pending, fut, stream)

SseInv == HeldOnce /\ Futures /\ AllHeard

\* A step that moves one task, drops at most its id from what is pending and
\* makes at most the future of the next id, is heard by the others as before.
LEMMA MovesHeard ==
    ASSUME SseInv, NEW t, NEW s, Moves(t, s), session' \in 0 .. MaxSessions,
           served' = served, stream' = stream,
           pending \ {task[t].rid} \subseteq pending',
           \/ pending' \subseteq pending /\ fut' = fut
           \/ /\ nextId \in Ids /\ pending' \subseteq pending \cup {nextId}
              /\ fut' = [fut EXCEPT ![nextId] = Open],
           Heard(t, s, pending', fut', stream)
    PROVE  SseInv'
  <1> USE DEF SseInv
  <1>1. HeldOnce'
    BY MovesHeld
  <1>2. /\ \A u \in Tasks : task'[u] = IF u = t THEN s ELSE task[u]
        /\ t \in Tasks /\ nextId \in Nat /\ nextId' \in {nextId, nextId + 1}
    BY DEF Moves, HeldOnce, Typed
  <1>3. Open \in [kind : {"unmade", "open", "result", "error"}, to : Tasks] /\ Open.kind = "open"
    BY DEF Open, Tasks
  <1>4. /\ fut' \in [Ids -> [kind : {"unmade", "open", "result", "error"}, to : Tasks]]
        /\ \A i \in Ids : i # nextId => fut'[i] = fut[i]
        /\ \A i \in pending' : i \in Ids /\ fut'[i].kind # "unmade"
    BY <1>3 DEF Futures
  <1>5. Futures'
    <2>1. \A m \in stream' : m \in [id : Ids, to : Tasks] /\ m.id < nextId'
      <3> TAKE m \in stream'
      <3>1. m \in [id : Ids, to : Tasks] /\ m.id < nextId
        BY DEF Futures
      <3>2. m.id \in Nat
        BY <3>1 DEF Ids
      <3> QED
        BY <1>2, <3>1, <3>2
    <2>2. served' \in [Ids -> Nat] /\ \A i \in Ids : served'[i] <= 1
      BY DEF Futures
    <2> QED
      BY <1>4, <2>1, <2>2 DEF Futures
  <1>6. ASSUME NEW u \in Tasks \ {t}
        PROVE  Heard(u, task[u], pending', fut', stream)
    <2>1. /\ Heard(u, task[u], pending, fut, stream) /\ task[u] \in States
          /\ Used(u) \cap Used(t) = {} /\ task[u].rid < nextId
          /\ task[u].pc \in {"posting", "waiting"} => task[u].rid # 0
      BY <1>2 DEF AllHeard, HeldOnce, Typed, Places, Apart
    <2>2. task[u].pc \in {"posting", "waiting"} =>
             task[u].rid \in Ids /\ task[u].rid # nextId /\ task[u].rid # task[t].rid
      BY <1>2, <2>1 DEF Used, States, Ids
    <2> QED
      BY <1>4, <2>1, <2>2 DEF Heard
  <1>7. AllHeard'
    BY <1>2, <1>6 DEF AllHeard
  <1> QED
    BY <1>1, <1>5, <1>7

LEMMA IdleHeard == \A t, waitingFor, made, sent : Heard(t, Idle, waitingFor, made, sent)
  BY IdleIs DEF Heard

\* A request that ends, by its answer, an error, a timeout or a POST that failed.
LEMMA EndSse ==
    ASSUME SseInv, NEW t \in Tasks, task' = [task EXCEPT ![t] = Idle], nextId' = nextId,
           session' = session, served' = served, stream' = stream, fut' = fut,
           pending' \in {pending, pending \ {task[t].rid}}
    PROVE  SseInv'
  <1>1. Moves(t, Idle) /\ session' \in 0 .. MaxSessions
    BY EndMoves DEF SseInv, HeldOnce, Typed
  <1> QED
    BY <1>1, IdleHeard, MovesHeard

\* A request that begins; dropping is the id of the one before it, or nothing.
LEMMA BeginSse ==
    ASSUME SseInv, NEW t \in Tasks, NEW m \in Methods, NEW sid \in 0 .. MaxSessions,
           nextId <= MaxIds, nextId' = nextId + 1, task' = [task EXCEPT ![t] = Posting(m, nextId, sid)],
           t # Boot => m = "tools/call", NEW dropping \in SUBSET {task[t].rid},
           pending' = (pending \ dropping) \cup {nextId}, fut' = [fut EXCEPT ![nextId] = Open],
           session' = session, served' = served, stream' = stream
    PROVE  SseInv'
  <1> DEFINE s == Posting(m, nextId, sid)
  <1>1. nextId \in Ids /\ session' \in 0 .. MaxSessions
    BY DEF SseInv, HeldOnce, Typed, Ids
  <1>2. s \in States /\ s.pc = "posting" /\ s.method = m /\ s.rid = nextId /\ s.kept = 0
    BY <1>1, PostingIs DEF Ids
  <1> HIDE DEF s
  <1>3. Moves(t, s)
    BY <1>1, <1>2 DEF Moves, Role, s, Ids
  <1>4. fut'[nextId] = Open /\ Open.kind = "open" /\ nextId \in pending'
    BY <1>1 DEF SseInv, Futures, Open
  <1>5. \A n \in stream : n.id # nextId
    BY <1>1 DEF SseInv, Futures, Ids
  <1>6. Heard(t, s, pending', fut', stream)
    BY <1>2, <1>4, <1>5 DEF Heard
  <1> QED
    BY <1>1, <1>3, <1>6, MovesHeard

\* Over SSE, only the task of start repeats nothing and goes on.
LEMMA NoteSse ==
    ASSUME SseInv, ~ Http, NEW t \in Tasks, task[t].pc = "noting", NEW sid, NoteOver(t, sid),
           session' = session, served' = served, stream' = stream
    PROVE  SseInv'
  <1>1. task[t].kept = 0 /\ Role(t, task[t]) /\ session \in 0 .. MaxSessions
    BY DEF SseInv, AllHeard, Heard, HeldOnce, Places, Typed
  <1>2. t = Boot /\ Request(t, "tools/list")
    BY <1>1 DEF NoteOver, Role
  <1>3. /\ nextId <= MaxIds /\ nextId' = nextId + 1
        /\ task' = [task EXCEPT ![t] = Posting("tools/list", nextId, session)]
        /\ pending' = (pending \ {}) \cup {nextId} /\ fut' = [fut EXCEPT ![nextId] = Open]
    BY <1>2 DEF Request, IdsLeft, FreshId
  <1>4. "tools/list" \in Methods /\ {} \in SUBSET {task[t].rid}
    BY DEF Methods
  <1> QED
    BY <1>1, <1>2, <1>3, <1>4, BeginSse

\* A result, over SSE.
LEMMA SucceedSse ==
    ASSUME SseInv, ~ Http, NEW t \in Tasks, task[t].pc = "waiting", Succeed(t, 0, {task[t].rid}),
           session' = session, served' = served, stream' = stream
    PROVE  SseInv'
  <1>1. /\ task[t] \in States /\ Role(t, task[t]) /\ task[t].kept = 0
        /\ session \in 0 .. MaxSessions
    BY DEF SseInv, HeldOnce, Typed, Places, AllHeard, Heard
  <1>2. CASE task[t].method = "initialize"
    <2> DEFINE s == [task[t] EXCEPT !.pc = "noting", !.sid = 0, !.answer = NoAnswer]
    <2>1. /\ task' = [task EXCEPT ![t] = s] /\ nextId' = nextId
          /\ pending' = pending \ {task[t].rid} /\ fut' = fut
      BY <1>2 DEF Succeed
    <2>2. s \in States /\ s.pc = "noting" /\ s.rid = task[t].rid /\ s.kept = task[t].kept
      <3>1. 0 \in 0 .. MaxSessions
        OBVIOUS
      <3> QED
        BY <1>1, <3>1, NoAnswerIs DEF States
    <2>3. s.method = task[t].method
      BY <1>1 DEF States
    <2> HIDE DEF s
    <2>4. Moves(t, s)
      BY <1>1, <1>2, <2>1, <2>2, <2>3 DEF Moves, Role, SseInv, HeldOnce, Places
    <2>5. Heard(t, s, pending', fut', stream)
      BY <1>1, <2>2 DEF Heard
    <2> QED
      BY <1>1, <2>1, <2>4, <2>5, MovesHeard
  <1>3. CASE task[t].method = "tools/list"
    <2>1. t = Boot
      BY <1>1, <1>3 DEF Role
    <2>2. CASE Registered /\ pending' = pending \ {task[t].rid} /\ UNCHANGED <<nextId, fut>>
      BY <2>1, <2>2, EndSse DEF Registered
    <2>3. CASE ListNext(t, 0, {task[t].rid})
      <3>1. /\ nextId <= MaxIds /\ nextId' = nextId + 1
            /\ task' = [task EXCEPT ![t] = Posting("tools/list", nextId, 0)]
            /\ pending' = (pending \ {task[t].rid}) \cup {nextId} /\ fut' = [fut EXCEPT ![nextId] = Open]
        BY <2>3 DEF ListNext, FreshId, SseInv, HeldOnce, Typed
      <3>2. "tools/list" \in Methods /\ {task[t].rid} \in SUBSET {task[t].rid} /\ 0 \in 0 .. MaxSessions
        BY DEF Methods
      <3> QED
        BY <2>1, <3>1, <3>2, BeginSse
    <2> QED
      BY <1>3, <2>2, <2>3 DEF Succeed
  <1>4. CASE task[t].method \notin {"initialize", "tools/list"}
    <2>1. /\ task' = [task EXCEPT ![t] = Idle] /\ nextId' = nextId
          /\ pending' = pending \ {task[t].rid} /\ fut' = fut
      BY <1>4 DEF Succeed
    <2> QED
      BY <2>1, EndSse
  <1> QED
    BY <1>2, <1>3, <1>4

\* Lines in the response to a POST.
LEMMA MoreSse ==
    ASSUME SseInv, NEW t \in Tasks, Active(t), Feed(t) \/ ReadMore(t)
    PROVE  SseInv'
  <1>1. PICK a \in Answers : GoesOn(t, a)
    BY MoreIs DEF SseInv
  <1> DEFINE s == [task[t] EXCEPT !.answer = a]
  <1>2. /\ Moves(t, s) /\ s.pc = task[t].pc /\ s.rid = task[t].rid /\ s.kept = task[t].kept
    BY <1>1, AnswerIs DEF GoesOn, SseInv
  <1> HIDE DEF s
  <1>3. Heard(t, task[t], pending, fut, stream)
    BY DEF SseInv, AllHeard
  <1>4. Heard(t, s, pending, fut, stream)
    BY <1>2, <1>3 DEF Heard
  <1> QED
    BY <1>1, <1>2, <1>4, MovesHeard DEF GoesOn

\* The steps of a request over SSE.
LEMMA ProceedSse ==
    ASSUME SseInv, ~ Http, NEW t \in Tasks, Proceed(t)
    PROVE  SseInv'
  <1>1. /\ task[t] \in States /\ Role(t, task[t]) /\ Heard(t, task[t], pending, fut, stream)
        /\ session \in 0 .. MaxSessions
    BY DEF SseInv, HeldOnce, Typed, Places, AllHeard
  <1>2. CASE Accepted(t)
    <2>1. session' = session /\ served' = served /\ stream' = stream
      BY <1>2 DEF Accepted, serverVars
    <2>2. CASE task[t].pc = "posting"
      <3> DEFINE s == [task[t] EXCEPT !.pc = "waiting", !.answer = NoAnswer]
      <3>1. UNCHANGED <<nextId, pending, fut>> /\ task' = [task EXCEPT ![t] = s]
        BY <1>2, <2>2 DEF Accepted
      <3>2. /\ s \in States /\ s.pc = "waiting" /\ s.rid = task[t].rid /\ s.kept = task[t].kept
            /\ s.method = task[t].method
        BY <1>1, NoAnswerIs DEF States
      <3> HIDE DEF s
      <3>3. Moves(t, s)
        BY <1>1, <2>2, <3>1, <3>2 DEF Moves, Role, SseInv, HeldOnce, Places
      <3>4. Heard(t, s, pending', fut', stream)
        BY <1>1, <2>2, <3>1, <3>2 DEF Heard
      <3> QED
        BY <1>1, <2>1, <3>1, <3>3, <3>4, MovesHeard
    <2>3. CASE task[t].pc = "noting"
      BY <1>2, <2>1, <2>3, NoteSse DEF Accepted
    <2> QED
      BY <1>2, <2>2, <2>3 DEF Accepted
  <1>3. CASE PostFails(t)
    BY <1>3, EndSse DEF PostFails, GiveUp, serverVars
  <1>4. CASE Wake(t)
    <2>1. session' = session /\ served' = served /\ stream' = stream /\ task[t].pc = "waiting"
      BY <1>4 DEF Wake, serverVars
    <2>2. CASE Succeed(t, 0, {task[t].rid})
      BY <2>1, <2>2, SucceedSse
    <2>3. CASE GiveUp(t) /\ pending' = pending \ {task[t].rid} /\ UNCHANGED fut
      BY <2>1, <2>3, EndSse DEF GiveUp
    <2> QED
      BY <1>4, <2>2, <2>3 DEF Wake
  <1>5. CASE TimesOut(t)
    BY <1>5, EndSse DEF TimesOut, GiveUp, serverVars
  <1>6. CASE ReadMore(t)
    BY <1>6, MoreSse DEF ReadMore
  <1> QED
    BY <1>2, <1>3, <1>4, <1>5, <1>6 DEF Proceed, Receive, Lost

\* A message is executed at most once; what the stream then carries is for its
\* sender.
LEMMA TakeSse ==
    ASSUME SseInv, ~ Http, NEW t \in Tasks, Take(t)
    PROVE  SseInv'
  <1>1. /\ task[t].pc \in {"posting", "waiting"} /\ served[task[t].rid] = 0
        /\ served' = [i \in Ids |-> IF i = task[t].rid THEN served[i] + 1
                                    ELSE IF i \in AtWork THEN served[i] ELSE 0]
        /\ stream' \in {stream, stream \cup {[id |-> task[t].rid, to |-> t]}}
        /\ UNCHANGED <<task, nextId, session, pending, fut>>
    BY DEF Take, Execute, clientVars
  <1>2. /\ task[t] \in States /\ task[t].rid # 0 /\ task[t].rid < nextId
        /\ task \in [Tasks -> States]
    BY <1>1 DEF SseInv, HeldOnce, Typed, Places
  <1>3. task[t].rid \in Ids
    BY <1>2 DEF States, Ids
  <1>4. HeldOnce'
    BY <1>1 DEF SseInv, HeldOnce, Typed, Places, Apart, Used
  <1>5. served' \in [Ids -> Nat] /\ \A i \in Ids : served'[i] <= 1
    BY <1>1, <1>3 DEF SseInv, Futures
  <1>6. \A m \in stream' : m \in [id : Ids, to : Tasks] /\ m.id < nextId'
    BY <1>1, <1>2, <1>3 DEF SseInv, Futures
  <1>7. Futures'
    BY <1>1, <1>5, <1>6 DEF SseInv, Futures
  <1>8. ASSUME NEW u \in Tasks
        PROVE  Heard(u, task[u], pending, fut, stream')
    <2>1. Heard(u, task[u], pending, fut, stream) /\ task[u].pc \in {"posting", "waiting"} => task[u].rid # 0
      BY DEF SseInv, AllHeard, HeldOnce, Places
    <2>2. u # t /\ task[u].pc \in {"posting", "waiting"} => task[u].rid # task[t].rid
      BY <1>2 DEF SseInv, HeldOnce, Apart, Used, Places
    <2>3. Heard(u, task[u], pending, fut, stream)
      BY DEF SseInv, AllHeard
    <2> QED
      BY <1>1, <2>2, <2>3 DEF Heard
  <1>9. AllHeard'
    BY <1>1, <1>8 DEF AllHeard
  <1> QED
    BY <1>4, <1>7, <1>9 DEF SseInv

\* An answer settles the future of its id, which is its sender's.
LEMMA DeliverSse ==
    ASSUME SseInv, NEW m \in stream, Deliver(m)
    PROVE  SseInv'
  <1>1. /\ stream' = stream \ {m}
        /\ UNCHANGED <<task, nextId, session, pending, served>>
        /\ m \in [id : Ids, to : Tasks]
        /\ fut \in [Ids -> [kind : {"unmade", "open", "result", "error"}, to : Tasks]]
    BY DEF Deliver, SseInv, Futures
  <1>2. fut' = fut \/ \E k \in {"result", "error"} : fut' = [fut EXCEPT ![m.id] = [kind |-> k, to |-> m.to]]
    BY DEF Deliver
  <1>3. /\ fut' \in [Ids -> [kind : {"unmade", "open", "result", "error"}, to : Tasks]]
        /\ \A i \in Ids : fut'[i] = fut[i] \/ (i = m.id /\ fut'[i].kind \in {"result", "error"} /\ fut'[i].to = m.to)
    BY <1>1, <1>2
  <1>4. HeldOnce'
    BY <1>1 DEF SseInv, HeldOnce, Typed, Places, Apart, Used
  <1>5. Futures'
    BY <1>1, <1>3 DEF SseInv, Futures
  <1>6. ASSUME NEW u \in Tasks
        PROVE  Heard(u, task[u], pending, fut', stream')
    <2>1. /\ Heard(u, task[u], pending, fut, stream)
          /\ task[u] \in States /\ task[u].pc \in {"posting", "waiting"} => task[u].rid # 0
      BY DEF SseInv, AllHeard, HeldOnce, Places, Typed
    <2>2. task[u].pc \in {"posting", "waiting"} => task[u].rid \in Ids
      BY DEF SseInv, HeldOnce, Places, Typed, States, Ids
    <2>3. Heard(u, task[u], pending, fut, stream)
      BY DEF SseInv, AllHeard
    <2> QED
      BY <1>1, <1>3, <2>2, <2>3 DEF Heard
  <1>7. AllHeard'
    BY <1>1, <1>6 DEF AllHeard
  <1> QED
    BY <1>4, <1>5, <1>7 DEF SseInv

\* The reader that crashes settles what is pending; one that ends, and the
\* close, drop what the stream still carries.
LEMMA ReaderSse ==
    ASSUME SseInv, ReaderCrashes \/ ReaderEnds \/ Close
    PROVE  SseInv'
  <1>1. UNCHANGED <<task, nextId, session, served>> /\ stream' \subseteq stream
    BY DEF ReaderCrashes, ReaderEnds, Close, serverVars
  <1>2. HeldOnce'
    BY <1>1 DEF SseInv, HeldOnce, Typed, Places, Apart, Used
  <1>3. ASSUME NEW u \in Tasks
        PROVE  /\ Heard(u, task[u], pending, fut, stream)
               /\ task[u].pc \in {"posting", "waiting"} => task[u].rid \in Ids
    BY DEF SseInv, AllHeard, HeldOnce, Places, Typed, States, Ids
  <1>4. CASE ReaderCrashes
    <2>1. fut' = Failed /\ pending' = {}
      BY <1>4 DEF ReaderCrashes
    <2>2. \A i \in Ids : fut[i] \in [kind : {"unmade", "open", "result", "error"}, to : Tasks]
      BY DEF SseInv, Futures
    <2>3. \A i \in Ids : /\ fut'[i] \in [kind : {"unmade", "open", "result", "error"}, to : Tasks]
                         /\ i \in pending => fut'[i].kind \in {"result", "error"}
                         /\ fut'[i].kind = "result" => fut'[i] = fut[i]
                         /\ i \notin pending => fut'[i] = fut[i]
                         /\ fut[i].kind \in {"result", "error"} => fut'[i] = fut[i]
      <3> TAKE i \in Ids
      <3>1. fut'[i] = IF i \in pending /\ fut[i].kind = "open" THEN [fut[i] EXCEPT !.kind = "error"] ELSE fut[i]
        BY <2>1 DEF Failed
      <3>2. i \in pending => fut[i].kind # "unmade"
        BY DEF SseInv, Futures
      <3> QED
        BY <2>2, <3>1, <3>2
    <2>4. Futures'
      <3> DEFINE f(i) == IF i \in pending /\ fut[i].kind = "open"
                         THEN [fut[i] EXCEPT !.kind = "error"] ELSE fut[i]
      <3>1. fut' = [i \in Ids |-> f(i)]
        BY <2>1 DEF Failed
      <3>2. fut' \in [Ids -> [kind : {"unmade", "open", "result", "error"}, to : Tasks]]
        <4>1. \A i \in Ids : f(i) \in [kind : {"unmade", "open", "result", "error"}, to : Tasks]
          BY <2>3, <3>1
        <4> HIDE DEF f
        <4> QED
          BY <3>1, <4>1
      <3> QED
        BY <1>1, <2>1, <3>2 DEF SseInv, Futures
    <2>5. ASSUME NEW u \in Tasks
          PROVE  Heard(u, task[u], pending', fut', stream')
      <3>1. CASE task[u].pc \in {"posting", "waiting"}
        <4> DEFINE i == task[u].rid
        <4>1. i \in Ids /\ Heard(u, task[u], pending, fut, stream)
          BY <1>3, <3>1
        <4>2. i \in pending \/ fut[i].kind \in {"result", "error"}
          BY <3>1, <4>1 DEF Heard
        <4>3. fut'[i].kind \in {"result", "error"}
          BY <2>3, <4>1, <4>2
        <4>4. fut'[i].kind = "result" => fut'[i].to = u
          BY <2>3, <3>1, <4>1 DEF Heard
        <4> QED
          BY <1>1, <3>1, <4>1, <4>3, <4>4 DEF Heard
      <3>2. CASE task[u].pc \notin {"posting", "waiting"}
        BY <1>3, <3>2 DEF Heard
      <3> QED
        BY <3>1, <3>2
    <2>6. AllHeard'
      BY <1>1, <2>5 DEF AllHeard
    <2> QED
      BY <1>2, <2>4, <2>6 DEF SseInv
  <1>5. CASE ReaderEnds
    <2>1. UNCHANGED <<pending, fut>>
      BY <1>5 DEF ReaderEnds
    <2> QED
      BY <1>1, <1>2, <1>3, <2>1 DEF SseInv, Futures, AllHeard, Heard
  <1>6. CASE Close
    <2>1. fut' = fut /\ pending' \subseteq pending /\ stream' = stream /\ \A u \in Tasks : task[u].pc = "idle"
      BY <1>6 DEF Close, CloseClient, Active, serverVars
    <2> QED
      BY <1>1, <1>2, <1>3, <2>1 DEF SseInv, Futures, AllHeard, Heard
  <1> QED
    BY <1>4, <1>5, <1>6

\* Every step keeps the invariant of the SSE client.
LEMMA NextSse ==
    ASSUME SseInv, ~ Http, [McpNext]_mcpVars
    PROVE  SseInv'
  <1>1. ASSUME NEW t \in Tasks, NEW m \in Methods, Request(t, m), t # Boot => m = "tools/call",
               UNCHANGED <<session, served, stream>>
        PROVE  SseInv'
    <2>1. /\ nextId <= MaxIds /\ nextId' = nextId + 1
          /\ task' = [task EXCEPT ![t] = Posting(m, nextId, session)]
          /\ pending' = (pending \ {}) \cup {nextId} /\ fut' = [fut EXCEPT ![nextId] = Open]
      BY <1>1 DEF Request, IdsLeft, FreshId
    <2>2. session \in 0 .. MaxSessions /\ {} \in SUBSET {task[t].rid}
      BY DEF SseInv, HeldOnce, Typed
    <2> QED
      BY <1>1, <2>1, <2>2, BeginSse
  <1>2. CASE Start
    BY <1>1, <1>2 DEF Start, serverVars, history, Tasks, Methods
  <1>3. ASSUME NEW c \in Callers, Call(c)
        PROVE  SseInv'
    BY <1>1, <1>3 DEF Call, serverVars, Tasks, Methods
  <1>4. CASE UNCHANGED <<task, nextId, session, pending, fut, stream, served>>
    BY <1>4 DEF SseInv, HeldOnce, Typed, Places, Apart, Used, Futures, AllHeard
  <1>5. ASSUME NEW t \in Tasks, Proceed(t) \/ Feed(t) \/ Serve(t) \/ Take(t)
        PROVE  SseInv'
    <2>1. Feed(t) => Active(t)
      BY DEF Feed, Active
    <2> QED
      BY <1>5, <2>1, ProceedSse, TakeSse, MoreSse DEF Serve
  <1>6. CASE UNCHANGED mcpVars
    BY <1>4, <1>6 DEF mcpVars, clientVars, serverVars
  <1>7. ASSUME NEW x \in Sessions, Evict(x)
        PROVE  SseInv'
    BY <1>4, <1>7 DEF Evict, clientVars
  <1> QED
    BY <1>2, <1>3, <1>5, <1>6, <1>7, ReaderSse, DeliverSse DEF McpNext

---------------------------------------------------------------------------
(* A renewal without others                                                 *)

\* From a renewal that nobody disturbs on: the initialize request is answered
\* with a session the server knows, which stays the client's until the request
\* is repeated in it.
Renewed(s, opened, now) ==
    /\ s.again => s.method # "initialize" /\ s.pc = "posting" /\ s.sid \in opened
    /\ s.kept # 0 => s.method = "initialize"
    /\ s.pc = "posting" /\ s.kept # 0 =>
          IF s.answer.done
            THEN /\ s.answer.head \in opened \cup {0}
                 /\ s.answer.kind = "begun" \/ s.answer.head = 0 => now \in opened
                 /\ s.answer.kind = "begun" => s.answer.head = 0
                 /\ s.answer.kind = "none" => s.answer.head # 0
            ELSE s.answer.kind = "none"
    /\ s.pc = "noting" /\ s.kept # 0 => now \in opened /\ s.sid = now /\ s.answer.head \in {0, now}

Settled ==
    /\ life = "new" => alone = {} /\ \A t \in Tasks : ~ Active(t)
    /\ 0 \notin live
    /\ ~ Http => alone = {}
    /\ \A t \in alone : /\ t \in Tasks /\ \A u \in Tasks \ {t} : ~ Active(u)
                        /\ Renewed(task[t], live, session)

\* A step of an active task: nobody else is alone.
LEMMA ActiveSettled ==
    ASSUME Settled, Typed, NEW t \in Tasks, Active(t), NEW s, task' = [task EXCEPT ![t] = s],
           transport' = transport, life' = life \/ life' # "new", 0 \notin live',
           alone' \subseteq alone, t \in alone' => Renewed(s, live', session')
    PROVE  Settled'
  <1>1. life # "new" /\ life' # "new"
    BY DEF Settled
  <1>2. \A u \in alone' : u = t
    BY DEF Settled
  <1>3. \A u \in Tasks : task'[u] = IF u = t THEN s ELSE task[u]
    BY DEF Typed
  <1>4. t \in alone' => \A u \in Tasks \ {t} : task'[u] = task[u] /\ ~ Active(u)
    BY <1>3 DEF Settled
  <1>5. t \in alone' => \A u \in Tasks \ {t} : ~ Active(u)'
    BY <1>4 DEF Active
  <1> QED
    BY <1>1, <1>2, <1>3, <1>5 DEF Settled, Http

LEMMA IdleRenewed == \A opened, now : Renewed(Idle, opened, now)
  BY IdleIs DEF Renewed, Idle

LEMMA PostingRenewed ==
    ASSUME NEW m \in Methods, NEW i \in 0 .. MaxIds, NEW sid \in 0 .. MaxSessions, NEW opened, NEW now
    PROVE  Renewed(Posting(m, i, sid), opened, now)
  <1>1. Posting(m, i, sid).again = FALSE
    BY DEF Posting, Idle
  <1> QED
    BY <1>1, PostingIs DEF Renewed

\* What goes out after the notification: the repetition, in the new session.
LEMMA NoteSettled ==
    ASSUME Settled, HeldOnce, NEW t \in Tasks, task[t].pc = "noting", NoteOver(t, session'),
           session' \in 0 .. MaxSessions, task[t].kept # 0 /\ t \in alone => session' \in live,
           UNCHANGED <<transport, life, live, alone>>
    PROVE  Settled'
  <1>1. Active(t) /\ Typed /\ task[t] \in States /\ session \in 0 .. MaxSessions /\ 0 \notin live
    BY DEF Active, HeldOnce, Typed, Settled
  <1>2. CASE task[t].kept # 0
    <2>1. task' = [task EXCEPT ![t] = Repost(t, session')]
      BY <1>2 DEF NoteOver
    <2>2. Repost(t, session').sid = session'
      <3>1. Outer(t) \in Methods /\ task[t].kept \in 0 .. MaxIds
        BY <1>1 DEF Outer, Methods, States
      <3> QED
        BY <3>1 DEF Repost, Posting, Idle
    <2>3. t \in alone => Renewed(Repost(t, session'), live', session')
      <3>1. /\ Repost(t, session').pc = "posting" /\ Repost(t, session').kept = 0
            /\ Repost(t, session').method = Outer(t) /\ Repost(t, session').answer = NoAnswer
        BY <1>1, RepostIs
      <3>2. Outer(t) # "initialize" /\ NoAnswer.kind = "none"
        BY DEF Outer, NoAnswer
      <3> QED
        BY <1>2, <2>2, <3>1, <3>2 DEF Renewed
    <2> QED
      BY <1>1, <2>1, <2>3, ActiveSettled
  <1>3. CASE task[t].kept = 0
    <2>1. Request(t, "tools/list")
      BY <1>3 DEF NoteOver
    <2>2. nextId \in 0 .. MaxIds /\ task' = [task EXCEPT ![t] = Posting("tools/list", nextId, session)]
      BY <2>1 DEF Request, IdsLeft, FreshId, HeldOnce, Typed
    <2>3. Renewed(Posting("tools/list", nextId, session), live', session')
      BY <1>1, <2>2, PostingRenewed DEF Methods
    <2> QED
      BY <1>1, <2>2, <2>3, ActiveSettled
  <1> QED
    BY <1>2, <1>3

\* The result of a request, over either transport.
LEMMA SucceedSettled ==
    ASSUME Settled, HeldOnce, NEW t \in Tasks, task[t].pc \in {"posting", "waiting"},
           NEW sid \in 0 .. MaxSessions, NEW dropping, Succeed(t, sid, dropping),
           alone' \subseteq alone,
           t \in alone' => session' = sid /\ (task[t].kept # 0 => sid \in live),
           UNCHANGED <<transport, live>>
    PROVE  Settled'
  <1>1. Active(t) /\ Typed /\ task[t] \in States /\ 0 \notin live
    BY DEF Active, HeldOnce, Typed, Settled
  <1>2. CASE task[t].method = "initialize"
    <2> DEFINE s == [task[t] EXCEPT !.pc = "noting", !.sid = sid, !.answer = NoAnswer]
    <2>1. task' = [task EXCEPT ![t] = s] /\ life' = life
      BY <1>2 DEF Succeed
    <2>2. /\ s.pc = "noting" /\ s.sid = sid /\ s.kept = task[t].kept /\ s.again = task[t].again
          /\ s.answer = NoAnswer /\ s.method = task[t].method
      BY <1>1 DEF States
    <2> HIDE DEF s
    <2>3. t \in alone' => Renewed(s, live', session')
      <3> SUFFICES ASSUME t \in alone' PROVE Renewed(s, live, session')
        OBVIOUS
      <3>1. Renewed(task[t], live, session)
        BY DEF Settled
      <3>2. session' = sid /\ (task[t].kept # 0 => sid \in live)
        OBVIOUS
      <3> QED
        BY <1>1, <1>2, <2>2, <3>1, <3>2, NoAnswerIs DEF Renewed
    <2> QED
      BY <1>1, <2>1, <2>3, ActiveSettled
  <1>3. CASE task[t].method = "tools/list"
    <2>1. CASE Registered
      <3>1. t = Boot
        BY <1>3 DEF HeldOnce, Places, Role
      <3> QED
        BY <1>1, <2>1, <3>1, IdleRenewed, ActiveSettled DEF Registered
    <2>2. CASE ListNext(t, sid, dropping)
      <3>1. nextId \in 0 .. MaxIds /\ life' = life /\ task' = [task EXCEPT ![t] = Posting("tools/list", nextId, sid)]
        BY <2>2 DEF ListNext, IdsLeft, FreshId, HeldOnce, Typed
      <3>2. Renewed(Posting("tools/list", nextId, sid), live', session')
        BY <3>1, PostingRenewed DEF Methods
      <3> QED
        BY <1>1, <3>1, <3>2, ActiveSettled
    <2> QED
      BY <1>3, <2>1, <2>2 DEF Succeed
  <1>4. CASE task[t].method \notin {"initialize", "tools/list"}
    <2>1. task' = [task EXCEPT ![t] = Idle] /\ life' = life
      BY <1>4 DEF Succeed
    <2> QED
      BY <1>1, <2>1, IdleRenewed, ActiveSettled
  <1> QED
    BY <1>2, <1>3, <1>4

\* What the server does over HTTP: a session it opens goes out before anything else.
LEMMA ServeSettled ==
    ASSUME Settled, HttpInv, NEW t \in Tasks, Serve(t)
    PROVE  Settled'
  <1>1. /\ Active(t) /\ Typed /\ task[t] \in States /\ issued \in Nat /\ 0 \notin live
        /\ task[t].answer \in Answers
        /\ task[t].pc = "posting" /\ ~ task[t].answer.done
        /\ UNCHANGED <<transport, life, session, alone>>
    BY DEF Serve, HttpInv, HeldOnce, Executed, Typed, Settled, Active, States
  <1> DEFINE a(h) == [task[t].answer EXCEPT !.done = TRUE, !.head = h]
             s(h) == [task[t] EXCEPT !.answer = a(h)]
  <1>2. ASSUME NEW h
        PROVE  /\ s(h).pc = task[t].pc /\ s(h).again = task[t].again /\ s(h).sid = task[t].sid
               /\ s(h).method = task[t].method /\ s(h).kept = task[t].kept
               /\ s(h).answer.kind = task[t].answer.kind /\ s(h).answer.done = TRUE
               /\ s(h).answer.head = h
    BY <1>1 DEF States, Answers
  <1>3. t \in alone => Renewed(task[t], live, session)
    BY DEF Settled
  <1>4. CASE task[t].method = "initialize"
    <2>1. /\ live' = live \cup {issued + 1} /\ task' = [task EXCEPT ![t] = s(issued + 1)]
      <3>1. /\ live' = live \cup {issued + 1}
            /\ task' = [task EXCEPT ![t].answer = a(issued + 1)]
        BY <1>4 DEF Serve
      <3> HIDE DEF a
      <3> QED
        BY <1>1, <3>1 DEF Typed
    <2>2. issued + 1 # 0
      BY <1>1
    <2>3. PICK n : n = issued + 1
      OBVIOUS
    <2>4. live' = live \cup {n} /\ task' = [task EXCEPT ![t] = s(n)] /\ n # 0
      BY <2>1, <2>2, <2>3
    <2>5. /\ s(n).pc = task[t].pc /\ s(n).again = task[t].again /\ s(n).sid = task[t].sid
          /\ s(n).method = task[t].method /\ s(n).kept = task[t].kept
          /\ s(n).answer.kind = task[t].answer.kind /\ s(n).answer.done = TRUE
          /\ s(n).answer.head = n
      BY <1>2
    <2> HIDE DEF s
    <2>6. t \in alone => Renewed(s(n), live', session')
      BY <1>1, <1>3, <1>4, <2>4, <2>5 DEF Renewed
    <2>7. 0 \notin live'
      BY <1>1, <2>4
    <2> QED
      BY <1>1, <2>4, <2>6, <2>7, ActiveSettled
  <1>5. CASE task[t].method # "initialize"
    <2> DEFINE h == task[t].answer.head
    <2>1. live' = live /\ task' = [task EXCEPT ![t] = s(h)]
      BY <1>1, <1>5 DEF Serve, Typed, States, Answers
    <2> HIDE DEF s
    <2>2. t \in alone => Renewed(s(h), live', session')
      BY <1>1, <1>2, <1>3, <1>5, <2>1 DEF Renewed
    <2> QED
      BY <1>1, <2>1, <2>2, ActiveSettled
  <1> QED
    BY <1>4, <1>5

\* Lines that are not the answer: a renewed session becomes the client's with the
\* first of them.
LEMMA MoreSettled ==
    ASSUME Settled, HttpInv, Http, NEW t \in Tasks, Feed(t) \/ ReadMore(t)
    PROVE  Settled'
  <1>1. /\ Active(t) /\ Typed /\ task[t] \in States /\ 0 \notin live
        /\ task[t].answer \in Answers
        /\ UNCHANGED <<transport, life, live, alone>>
    BY DEF Feed, ReadMore, HttpInv, HeldOnce, Typed, Settled, Active, States, serverVars, history
  <1> DEFINE a(k, h) == [task[t].answer EXCEPT !.kind = k, !.head = h]
             s(k, h) == [task[t] EXCEPT !.answer = a(k, h)]
  <1>2. ASSUME NEW k, NEW h
        PROVE  /\ s(k, h).pc = task[t].pc /\ s(k, h).again = task[t].again /\ s(k, h).sid = task[t].sid
               /\ s(k, h).method = task[t].method /\ s(k, h).kept = task[t].kept
               /\ s(k, h).answer.kind = k /\ s(k, h).answer.done = task[t].answer.done
               /\ s(k, h).answer.head = h
    BY <1>1 DEF States, Answers
  <1>3. t \in alone => Renewed(task[t], live, session)
    BY DEF Settled
  <1>4. CASE Feed(t)
    <2>1. /\ task[t].pc = "posting" /\ task[t].method = "initialize" => task[t].answer.done
          /\ task[t].answer.kind # "more" /\ session' = session
      BY <1>4 DEF Feed
    <2>2. PICK h \in Heads(t) : task' = [task EXCEPT ![t].answer = [task[t].answer EXCEPT !.kind = "more", !.head = h]]
      BY <1>4 DEF Feed
    <2>3. task' = [task EXCEPT ![t] = s("more", h)]
      BY <1>1, <2>2 DEF Typed
    <2>4. h = 0 \/ (task[t].answer.kind # "begun" /\ task[t].answer.head # 0 /\ h = task[t].answer.head)
                \/ (task[t].answer.kind # "begun" /\ task[t].answer.head = 0 /\ h = task[t].sid)
      <3>1. h \in Heads(t)
        BY <2>2
      <3>2. CASE task[t].answer.kind = "begun"
        BY <3>1, <3>2 DEF Heads
      <3>3. CASE task[t].answer.kind # "begun" /\ task[t].answer.head # 0
        BY <3>1, <3>3 DEF Heads
      <3>4. CASE task[t].answer.kind # "begun" /\ task[t].answer.head = 0
        BY <3>1, <3>4 DEF Heads
      <3> QED
        BY <3>2, <3>3, <3>4
    <2>5. h = 0 => task[t].answer.kind = "begun" \/ task[t].answer.head = 0
      BY <2>2 DEF Heads
    <2>6. task[t].answer.kind \in {"none", "begun"}
      BY <1>1, <2>1 DEF Answers, Kinds
    <2> HIDE DEF s
    <2>7. ASSUME t \in alone
          PROVE  Renewed(s("more", h), live, session)
      <3>1. Renewed(task[t], live, session)
        BY <1>3, <2>7
      <3> QED
        BY <1>2, <2>1, <2>4, <2>5, <2>6, <3>1 DEF Renewed
    <2> QED
      BY <1>1, <2>1, <2>3, <2>7, ActiveSettled
  <1>5. CASE ReadMore(t)
    <2>1. /\ task[t].answer.kind = "more"
          /\ session' = IF task[t].answer.head # 0 THEN task[t].answer.head ELSE session
          /\ task' = [task EXCEPT ![t].answer = [task[t].answer EXCEPT !.kind = "begun", !.head = 0]]
      BY <1>5 DEF ReadMore, Header
    <2>2. task' = [task EXCEPT ![t] = s("begun", 0)]
      BY <1>1, <2>1 DEF Typed
    <2> HIDE DEF s
    <2>3. ASSUME t \in alone
          PROVE  Renewed(s("begun", 0), live, session')
      <3>1. Renewed(task[t], live, session)
        BY <1>3, <2>3
      <3> QED
        BY <1>1, <1>2, <2>1, <3>1 DEF Renewed
    <2> QED
      BY <1>1, <2>2, <2>3, ActiveSettled
  <1> QED
    BY <1>4, <1>5

\* A response, over HTTP.
LEMMA ReceiveSettled ==
    ASSUME Settled, HttpInv, NEW t \in Tasks, Receive(t)
    PROVE  Settled'
  <1>1. /\ Http /\ Active(t) /\ HeldOnce /\ Typed /\ task[t] \in States
        /\ task[t].answer \in Answers /\ task[t].answer.kind # "more"
        /\ session \in 0 .. MaxSessions
        /\ UNCHANGED <<transport, live>> /\ 0 \notin live
    BY DEF Receive, serverVars, HttpInv, HeldOnce, Typed, Settled, States
  <1>2. t \in alone => Renewed(task[t], live, session)
    BY DEF Settled
  <1>3. ASSUME NEW h \in Heads(t), task[t].pc = "posting", session' = Header(h), Succeed(t, Header(h), {}),
               alone' = IF task[t].answer.done THEN alone ELSE alone \ {t}
        PROVE  Settled'
    <2>1. Header(h) \in 0 .. MaxSessions /\ alone' \subseteq alone
      BY <1>1, <1>3, HeadsAre
    <2>2. ASSUME t \in alone', task[t].kept # 0
          PROVE  Header(h) \in live
      <3>1. Renewed(task[t], live, session) /\ task[t].answer.done
        BY <1>2, <1>3, <2>2
      <3>2. task[t].answer.kind \in {"none", "begun"}
        BY <1>1 DEF Answers, Kinds
      <3>3. CASE task[t].answer.kind = "begun"
        BY <1>3, <2>2, <3>1, <3>3 DEF Renewed, Heads, Header
      <3>4. CASE task[t].answer.kind = "none"
        BY <1>3, <2>2, <3>1, <3>4 DEF Renewed, Heads, Header
      <3> QED
        BY <3>2, <3>3, <3>4
    <2> QED
      BY <1>1, <1>3, <2>1, <2>2, SucceedSettled
  <1>4. CASE \E k \in Errors : Renew(t, k)
    <2> DEFINE s == [Posting("initialize", nextId, 0) EXCEPT !.kept = task[t].rid]
    <2>1. /\ nextId \in 0 .. MaxIds /\ task' = [task EXCEPT ![t] = s] /\ life' = life
          /\ alone' = IF \A u \in Tasks \ {t} : ~ Active(u) THEN {t} ELSE {}
      BY <1>1, <1>4 DEF Renew, IdsLeft, FreshId, Typed
    <2>2. s.pc = "posting" /\ s.method = "initialize" /\ s.answer = NoAnswer /\ s.again = FALSE
      BY DEF Posting, Idle
    <2> HIDE DEF s
    <2>3. Renewed(s, live', session')
      BY <2>2, NoAnswerIs DEF Renewed
    <2>4. \A u \in Tasks : task'[u] = IF u = t THEN s ELSE task[u]
      BY <1>1, <2>1 DEF Typed
    <2>5. \A u \in alone' : u = t /\ \A v \in Tasks \ {t} : ~ Active(v)'
      BY <2>1, <2>4 DEF Active
    <2>6. life' # "new"
      BY <1>1, <2>1 DEF Settled
    <2> QED
      BY <1>1, <2>3, <2>4, <2>5, <2>6 DEF Settled, Http
  <1>5. CASE GiveUp(t) /\ UNCHANGED alone
    <2>1. task' = [task EXCEPT ![t] = Idle] /\ (life' = life \/ life' # "new")
      BY <1>5 DEF GiveUp
    <2> QED
      BY <1>1, <1>5, <2>1, IdleRenewed, ActiveSettled
  <1>6. ASSUME NEW h \in Heads(t), task[t].pc = "noting", session' = Header(h), NoteOver(t, Header(h)),
               UNCHANGED <<life, alone>>
        PROVE  Settled'
    <2>1. Header(h) \in 0 .. MaxSessions
      BY <1>1, <1>6, HeadsAre
    <2>2. ASSUME task[t].kept # 0, t \in alone
          PROVE  session' \in live
      <3>1. session \in live /\ task[t].sid = session /\ task[t].answer.head \in {0, session}
        BY <1>2, <1>6, <2>2 DEF Renewed
      <3>2. h \in {0, session}
        BY <1>6, <3>1 DEF Heads
      <3> QED
        BY <1>6, <3>1, <3>2 DEF Header
    <2> QED
      BY <1>1, <1>6, <2>1, <2>2, NoteSettled
  <1> QED
    BY <1>3, <1>4, <1>5, <1>6 DEF Receive, history

\* A connection that is lost.
LEMMA LostSettled ==
    ASSUME Settled, HttpInv, NEW t \in Tasks, Lost(t)
    PROVE  Settled'
  <1>1. /\ Active(t) /\ HeldOnce /\ Typed /\ 0 \notin live /\ session \in 0 .. MaxSessions
        /\ UNCHANGED <<transport, live, session, alone>>
    BY DEF Lost, serverVars, history, HttpInv, HeldOnce, Typed, Settled
  <1>2. CASE GiveUp(t)
    <2>1. task' = [task EXCEPT ![t] = Idle] /\ (life' = life \/ life' # "new")
      BY <1>2 DEF GiveUp
    <2> QED
      BY <1>1, <2>1, IdleRenewed, ActiveSettled
  <1>3. CASE task[t].pc = "noting" /\ NoteOver(t, session) /\ UNCHANGED life
    <2>1. task[t].kept # 0 /\ t \in alone => session \in live
      BY <1>3 DEF Settled, Renewed
    <2> QED
      BY <1>1, <1>3, <2>1, NoteSettled
  <1> QED
    BY <1>2, <1>3 DEF Lost

\* Over SSE nobody renews.
LEMMA SseSettled ==
    ASSUME Settled, ~ Http, [McpNext]_mcpVars
    PROVE  Settled'
  <1>1. /\ UNCHANGED transport /\ (life' = life \/ life' # "new") /\ alone = {} /\ 0 \notin live
        /\ alone' = {} /\ live' \subseteq live
        /\ life' = "new" => UNCHANGED task
    <2> USE DEF Settled, serverVars, clientVars, history
    <2>1. ASSUME NEW t \in Tasks, Proceed(t)
          PROVE  /\ UNCHANGED <<transport, live, alone>> /\ life # "new"
                 /\ life' = life \/ life' # "new"
      <3>1. Active(t)
        BY <2>1 DEF Proceed, ReadMore, Receive, Lost, Accepted, PostFails, Wake, TimesOut, Active
      <3>2. CASE Accepted(t)
        BY <3>1, <3>2 DEF Accepted
      <3>3. CASE PostFails(t) \/ TimesOut(t)
        BY <3>1, <3>3 DEF PostFails, TimesOut, GiveUp
      <3>4. CASE Wake(t)
        <4>1. Succeed(t, 0, {task[t].rid}) => life' = life \/ life' # "new"
          BY DEF Succeed, Registered, ListNext
        <4> QED
          BY <3>1, <3>4, <4>1 DEF Wake, GiveUp
      <3>5. CASE ReadMore(t)
        BY <3>1, <3>5 DEF ReadMore
      <3> QED
        BY <2>1, <3>2, <3>3, <3>4, <3>5 DEF Proceed, Receive, Lost
    <2>2. ASSUME NEW t \in Tasks, Serve(t) \/ Take(t)
          PROVE  UNCHANGED <<transport, live, alone, life, task>>
      BY <2>2 DEF Serve, Take
    <2>6. ASSUME NEW t \in Tasks, Feed(t)
          PROVE  UNCHANGED <<transport, live, alone, life>> /\ life # "new"
      BY <2>6 DEF Feed, Active
    <2>3. CASE Start \/ Close \/ \E c \in Callers : Call(c)
      BY <2>3 DEF Start, Close, Call
    <2>4. CASE \/ \E x \in Sessions : Evict(x)
               \/ \E m \in stream : Deliver(m)
               \/ ReaderCrashes \/ ReaderEnds
      BY <2>4 DEF Evict, Deliver, ReaderCrashes, ReaderEnds
    <2>5. CASE UNCHANGED mcpVars
      BY <2>5 DEF mcpVars
    <2> QED
      BY <2>1, <2>2, <2>3, <2>4, <2>5, <2>6 DEF McpNext
  <1> QED
    BY <1>1 DEF Settled, Active, Http

\* Every step keeps what is known of a task that has the server for itself.
LEMMA NextSettled ==
    ASSUME Settled, Http => HttpInv, [McpNext]_mcpVars
    PROVE  Settled'
  <1>1. CASE ~ Http
    BY <1>1, SseSettled
  <1>2. CASE Http
    <2>1. CASE Start \/ \E c \in Callers : Call(c)
      <3>1. transport' = transport /\ life' # "new" /\ live' = live /\ alone' = {}
        BY <2>1 DEF Start, Call, serverVars, history, Settled
      <3> QED
        BY <1>2, <3>1 DEF Settled, Http
    <2>2. ASSUME NEW x \in Sessions, Evict(x)
          PROVE  Settled'
      BY <1>2, <2>2 DEF Evict, clientVars, Settled, Http, Active
    <2>3. CASE Close
      <3>1. /\ UNCHANGED <<transport, live, alone, task, session>> /\ life' # "new"
        BY <2>3 DEF Close, serverVars, history, Settled
      <3> QED
        BY <1>2, <3>1 DEF Settled, Http, Active
    <2>4. CASE UNCHANGED <<transport, life, live, alone, task, session>>
      BY <2>4 DEF Settled, Http, Active
    <2>5. ASSUME NEW t \in Tasks, Proceed(t) \/ Feed(t) \/ Serve(t) \/ Take(t)
          PROVE  Settled'
      <3>1. Receive(t) \/ Lost(t) \/ Serve(t) \/ Feed(t) \/ ReadMore(t)
        BY <1>2, <2>5 DEF Proceed, Accepted, PostFails, Wake, TimesOut, Take
      <3> QED
        BY <1>2, <3>1, ReceiveSettled, LostSettled, ServeSettled, MoreSettled
    <2>6. CASE ReaderCrashes \/ ReaderEnds \/ UNCHANGED mcpVars
      BY <2>4, <2>6 DEF ReaderCrashes, ReaderEnds, mcpVars, clientVars, serverVars, history
    <2>7. ASSUME NEW m \in stream, Deliver(m)
          PROVE  Settled'
      BY <1>2, <2>7 DEF Deliver
    <2> QED
      BY <2>1, <2>2, <2>3, <2>5, <2>6, <2>7 DEF McpNext
  <1> QED
    BY <1>1, <1>2

---------------------------------------------------------------------------
(* The theorems                                                             *)

Inv == (Http => HttpInv) /\ (~ Http => SseInv)

LEMMA InitInv == McpInit => Inv
  <1> SUFFICES ASSUME McpInit PROVE HttpInv /\ SseInv
    BY DEF Inv
  <1>1. /\ nextId = 1 /\ session = 0 /\ task = [t \in Tasks |-> Idle] /\ issued = 0
        /\ pending = {} /\ stream = {} /\ fut = [i \in Ids |-> Unmade] /\ served = [i \in Ids |-> 0]
    BY DEF McpInit
  <1>2. Role(Boot, Idle) /\ \A t : Role(t, Idle)
    BY DEF Role, Idle
  <1>3. HeldOnce
    BY <1>1, <1>2, IdleIs DEF HeldOnce, Typed, Places, Apart, Used
  <1>4. Executed /\ AllOnce
    BY <1>1, IdleOnce DEF Executed, AllOnce
  <1>5. Futures /\ AllHeard
    BY <1>1, IdleHeard DEF Futures, AllHeard, Unmade, Tasks
  <1> QED
    BY <1>3, <1>4, <1>5 DEF HttpInv, SseInv

\* The transport of a server does not change.
LEMMA NextInv == Inv /\ [McpNext]_mcpVars => Inv'
  <1>1. [McpNext]_mcpVars => transport' = transport
    BY DEF McpNext, mcpVars, clientVars, Start, Close, Call, Proceed, ReadMore, Receive, Lost, Accepted, PostFails,
           Wake, TimesOut, Feed, Serve, Take, Evict, Deliver, ReaderCrashes, ReaderEnds
  <1> QED
    BY <1>1, NextHttp, NextSse DEF Inv, Http

LEMMA InvAlways == McpSpec => []Inv
  BY InitInv, NextInv, PTL DEF McpSpec

\* The future a task waits for is settled, or it is still where the reader, its
\* crash and the answer look for it.
THEOREM NoOrphansEver == McpSpec => []NoOrphans
  <1>1. Inv => NoOrphans
    BY DEF Inv, HttpInv, SseInv, AllOnce, Once, AllHeard, Heard, NoOrphans
  <1> QED
    BY <1>1, InvAlways, PTL

\* A task takes the answer to its own request only, and a repeated request is
\* executed once, unless a response without its answer told of an expired session.
THEOREM OwnAnswerAlwaysOnce == McpSpec => []OwnAnswerOnce
  <1>1. Inv => OwnAnswerOnce
    BY DEF Inv, HttpInv, SseInv, AllOnce, Once, AllHeard, Heard, Executed, Futures, OwnAnswerOnce
  <1> QED
    BY <1>1, InvAlways, PTL

\* A renewal is enough: the request is repeated in a session the server knows, when
\* from the renewal on nobody else called, no session was forgotten and initialize was
\* answered.
THEOREM RenewalAlwaysWorks == McpSpec => []RenewalWorks
  <1>1. McpInit => Settled
    BY IdleIs DEF McpInit, Settled, Active
  <1>2. Inv /\ Settled /\ [McpNext]_mcpVars => Settled'
    BY NextSettled DEF Inv
  <1>3. Settled => RenewalWorks
    BY DEF Settled, Renewed, RenewalWorks
  <1> QED
    BY <1>1, <1>2, <1>3, InvAlways, PTL DEF McpSpec

-----------------------------------------------------------------------------
(* The loop of a chat completion *)

USE NoneAssumption, LimitsAssumption, RequestsAssumption, ToolsAssumption

\* There is at least one round.
LEMMA RoundsNat == Rounds \in Nat \ {0}
  BY DEF Rounds

\* The lists of calls an answer may have are sequences of calls.
LEMMA CallListsSeq == CallLists \subseteq Seq(Calls)
  BY SeqDef DEF CallLists

\* Messages of both kinds.
LEMMA MessagesOf == \A n \in Nat : Assistant(n) \in Messages /\ ToolMsg(n) \in Messages
  BY DEF Assistant, ToolMsg, Messages

-----------------------------------------------------------------------------
(* Type correctness *)

\* The loop starts well typed.
LEMMA InitType == Init => TypeOK
  <1> SUFFICES ASSUME Init PROVE TypeOK
    OBVIOUS
  <1>1. ToolsFor(req) \in SUBSET Tools
    BY DEF Init, ToolsFor, Tools, AllRequests
  <1>2. calls \in Seq(Calls) /\ toolMsgs \in Seq(Messages) /\ messages \in Seq(Messages)
    BY EmptySeq DEF Init
  <1>3. /\ req \in Requests /\ pc = "call" /\ retried \in BOOLEAN
        /\ kept = None /\ why = None /\ outcome = None
        /\ content \in Contents /\ executed \in SUBSET Tools
    BY DEF Init, Contents
  <1>4. /\ round \in 0..(Rounds - 1) /\ attempt \in 0..MaxRetries /\ posts \in Nat
    <2>1. round = 0 /\ attempt = 0 /\ posts = 0
      BY DEF Init
    <2> QED
      BY <2>1, RoundsNat
  <1>5. ~(pc = "tools") /\ calls = <<>>
    BY DEF Init
  <1> QED
    BY <1>1, <1>2, <1>3, <1>4, <1>5 DEF Init, TypeOK

\* The next round, or the end, keeps the types of what it writes.
LEMMA NextRoundType ==
    ASSUME TypeOK, NextRound
    PROVE  /\ pc' \in {"call", "ended"}
           /\ round' \in 0..(Rounds - 1)
           /\ attempt' \in 0..MaxRetries
           /\ kept' \in {None, "busy"}
           /\ outcome' \in {outcome, "tool_loop_exceeded"}
  BY RoundsNat DEF TypeOK, NextRound, Ends

\* Whatever the adapter raises.
LEMMA RaiseType ==
    ASSUME TypeOK, pc = "call", NEW s, Raise(s), posts' \in Nat,
           why' \in {"busy", "lost", "refused", "denied", "unconfigured"}
    PROVE  TypeOK'
<1>1. CASE RepeatWithoutTools
  BY <1>1, NextRoundType DEF RepeatWithoutTools, Raise, TypeOK, Tools
<1>2. CASE Ends("provider_error") /\ UNCHANGED <<retried, offered>>
  BY <1>2 DEF Ends, Raise, TypeOK
<1> QED
  BY <1>1, <1>2 DEF Raise

\* Every attempt, answer and tool call keeps the types.
LEMMA NextType == TypeOK /\ [Next]_vars => TypeOK'
<1> SUFFICES ASSUME TypeOK, [Next]_vars PROVE TypeOK'
  OBVIOUS
<1>0. Posts => posts' \in Nat /\ pc = "call"
  BY DEF Posts, TypeOK
<1>1. CASE BusyAgain
  BY <1>0, <1>1 DEF BusyAgain, Again, TypeOK
<1>2. CASE LostAgain
  BY <1>0, <1>2 DEF LostAgain, Again, TypeOK
<1>3. CASE BusyAtLast
  BY <1>0, <1>3, RaiseType DEF BusyAtLast
<1>4. CASE LostAtLast
  BY <1>0, <1>4, RaiseType DEF LostAtLast
<1>5. CASE Refused
  BY <1>0, <1>5, RaiseType DEF Refused
<1>6. CASE Denied
  BY <1>0, <1>6, RaiseType DEF Denied
<1>7. CASE Unconfigured
  BY <1>7, RaiseType DEF Unconfigured, TypeOK
<1>8. CASE Garbled
  BY <1>0, <1>8 DEF Garbled, Ends, TypeOK
<1>9. CASE EmptyAnswer
  <2>1. CASE RepeatWithoutTools
    BY <1>0, <1>9, <2>1, NextRoundType DEF EmptyAnswer, Answered, RepeatWithoutTools, TypeOK, Contents
  <2>2. CASE Ends("empty_content") /\ UNCHANGED <<retried, offered>>
    BY <1>0, <1>9, <2>2 DEF EmptyAnswer, Answered, Ends, TypeOK, Contents
  <2> QED
    BY <1>9, <2>1, <2>2 DEF EmptyAnswer
<1>10. ASSUME NEW c \in Contents, NEW cs \in CallLists, FinalAnswer(c, cs)
       PROVE  TypeOK'
  <2>1. ContentOf(c, cs) \in Contents
    BY DEF ContentOf, Emitted, Contents
  <2>2. messages' \in Seq(Messages)
    BY <1>10, MessagesOf, AppendProperties DEF FinalAnswer, TypeOK
  <2> QED
    BY <1>0, <1>10, <2>1, <2>2 DEF FinalAnswer, Answered, Ends, TypeOK
<1>11. ASSUME NEW c \in Contents, NEW cs \in CallLists, ToolAnswer(c, cs)
       PROVE  TypeOK'
  <2>1. cs \in Seq(Calls) /\ Len(cs) \in Nat
    BY CallListsSeq, LenProperties
  <2>2. messages' \in Seq(Messages)
    BY <1>11, <2>1, MessagesOf, AppendProperties DEF ToolAnswer, TypeOK
  <2>3. <<>> \in Seq(Messages)
    BY EmptySeq
  <2> QED
    BY <1>0, <1>11, <2>1, <2>2, <2>3 DEF ToolAnswer, CallsOf, Answered, TypeOK
<1>12. CASE RunTool
  <2> DEFINE msgs == Append(toolMsgs, ToolMsg(Len(toolMsgs) + 1))
  <2>1. /\ Head(calls) \in Calls
        /\ Tail(calls) \in Seq(Calls)
    BY <1>12, HeadTailProperties DEF RunTool, TypeOK
  <2>2. msgs \in Seq(Messages)
    <3>1. Len(toolMsgs) + 1 \in Nat
      BY LenProperties DEF TypeOK
    <3> QED
      BY <3>1, MessagesOf, AppendProperties DEF TypeOK
  <2>3. messages \o msgs \in Seq(Messages)
    BY <2>2, ConcatProperties DEF TypeOK
  <2>4. executed' \in SUBSET Tools
    BY <1>12, <2>1 DEF RunTool, TypeOK, Calls
  <2>5. CASE Tail(calls) # <<>>
    BY <1>12, <2>1, <2>2, <2>4, <2>5 DEF RunTool, TypeOK
  <2>6. CASE Tail(calls) = <<>>
    <3>1. NextRound /\ calls' = <<>> /\ toolMsgs' = <<>> /\ messages' = messages \o msgs
      BY <1>12, <2>6 DEF RunTool
    <3>2. <<>> \in Seq(Calls) /\ <<>> \in Seq(Messages)
      BY EmptySeq
    <3> HIDE DEF msgs
    <3> QED
      BY <1>12, <2>3, <2>4, <3>1, <3>2, NextRoundType DEF RunTool, TypeOK
  <2> QED
    BY <2>5, <2>6
<1>13. CASE UNCHANGED vars
  BY <1>13 DEF vars, TypeOK
<1> QED
  BY <1>1, <1>2, <1>3, <1>4, <1>5, <1>6, <1>7, <1>8, <1>9, <1>10, <1>11, <1>12, <1>13
     DEF Next

\* TypeOK of ToolLoop: the locals of the loop and of the adapter keep their
\* types, the adapter keeps no status but a busy one, and calls are left to be
\* run exactly while tools are run.
THEOREM TypeAlways == Spec => []TypeOK
<1> QED
  BY InitType, NextType, PTL DEF Spec

-----------------------------------------------------------------------------
(* The policy *)

\* PolicyHonoured of ToolLoop: only what the request's policy allows is called.
THEOREM PolicyAlways == Spec => []PolicyHonoured
<1>1. Init => PolicyHonoured
  BY DEF Init, PolicyHonoured
<1>2. PolicyHonoured /\ [Next]_vars => PolicyHonoured'
  <2> SUFFICES ASSUME PolicyHonoured, [Next]_vars PROVE PolicyHonoured'
    OBVIOUS
  <2>1. CASE RunTool
    BY <2>1 DEF RunTool, Served, PolicyHonoured
  <2>2. CASE \/ BusyAgain \/ LostAgain \/ BusyAtLast \/ LostAtLast
             \/ Refused \/ Denied \/ Unconfigured \/ Garbled \/ EmptyAnswer
             \/ \E c \in Contents, cs \in CallLists :
                   FinalAnswer(c, cs) \/ ToolAnswer(c, cs)
             \/ UNCHANGED vars
    <3>1. UNCHANGED <<req, executed>>
      BY <2>2 DEF BusyAgain, LostAgain, Again, BusyAtLast, LostAtLast, Refused, Denied,
                  Unconfigured, Raise, Garbled, EmptyAnswer, FinalAnswer, ToolAnswer,
                  Answered, vars
    <3> QED
      BY <3>1 DEF PolicyHonoured
  <2> QED
    BY <2>1, <2>2 DEF Next
<1> QED
  BY <1>1, <1>2, PTL DEF Spec

-----------------------------------------------------------------------------
(* The withdrawal of the tools *)

\* WithdrawnForCause of ToolLoop: tools are withdrawn once, for good, and because
\* of how the last attempt of the round ended; a kept status is never the reason.
THEOREM WithdrawnOnlyForCause == Spec => WithdrawnForCause
<1> DEFINE Cause == offered' # offered => /\ ~retried /\ retried' /\ offered' = {}
                                          /\ why' \in {"refused", "answer"}
<1>1. TypeOK /\ [Next]_vars => [Cause]_vars
  <2> SUFFICES ASSUME TypeOK, Next, offered' # offered PROVE Cause
    OBVIOUS
  <2>1. ASSUME NEW s, Raise(s) PROVE s = "refused" /\ ~retried /\ retried' /\ offered' = {}
    BY <2>1 DEF Raise, RepeatWithoutTools, MayRepeat, SpeaksAgainstTools
  <2>2. kept # "refused" /\ None # "refused"
    BY DEF TypeOK
  <2>3. \/ BusyAtLast \/ LostAtLast \/ Refused \/ Denied \/ Unconfigured \/ EmptyAnswer
    BY DEF Next, BusyAgain, LostAgain, Again, Garbled, FinalAnswer, ToolAnswer, RunTool
  <2>4. CASE EmptyAnswer
    BY <2>4 DEF EmptyAnswer, Answered, RepeatWithoutTools, MayRepeat
  <2> QED
    BY <2>1, <2>2, <2>3, <2>4 DEF BusyAtLast, LostAtLast, Refused, Denied, Unconfigured
<1> QED
  BY <1>1, TypeAlways, PTL DEF Spec, WithdrawnForCause

-----------------------------------------------------------------------------
(* The requests that are sent *)

\* The two facts about products that the bound rests on.
LEMMA Products ==
    ASSUME NEW r \in Nat, NEW k \in Nat
    PROVE  /\ r * k \in Nat
           /\ (r + 1) * k = r * k + k
           /\ \A s \in Nat : r <= s => r * k <= s * k
  OBVIOUS

\* Every round that is over has cost at most MaxRetries + 1 requests, and the one
\* that is under way one for every attempt that is over.
SentSoFar ==
    IF pc = "call" THEN posts <= round * (MaxRetries + 1) + attempt
    ELSE posts <= (round + 1) * (MaxRetries + 1)

\* The next round, or the end of the loop, after a request more.
LEMMA NextRoundSent ==
    ASSUME TypeOK, NextRound, posts' \in Nat,
           posts' <= (round + 1) * (MaxRetries + 1)
    PROVE  SentSoFar'
<1>1. CASE round + 1 < Rounds
  <2>1. pc' = "call" /\ round' = round + 1 /\ attempt' = 0
    BY <1>1 DEF NextRound
  <2>2. (round + 1) * (MaxRetries + 1) \in Nat
    BY Products, RoundsNat DEF TypeOK
  <2> QED
    BY <2>1, <2>2 DEF SentSoFar
<1>2. CASE ~(round + 1 < Rounds)
  BY <1>2 DEF NextRound, Ends, SentSoFar
<1> QED
  BY <1>1, <1>2

\* PostsBounded of ToolLoop: rounds, the repetition and attempts taken together.
THEOREM PostsAlwaysBounded == Spec => []PostsBounded
<1>1. Init => SentSoFar
  <2> SUFFICES ASSUME Init PROVE SentSoFar
    OBVIOUS
  <2>1. pc = "call" /\ posts = 0 /\ round = 0 /\ attempt = 0
    BY DEF Init
  <2> QED
    BY <2>1 DEF SentSoFar
<1>2. TypeOK /\ SentSoFar /\ [Next]_vars => SentSoFar'
  <2> SUFFICES ASSUME TypeOK, SentSoFar, [Next]_vars PROVE SentSoFar'
    OBVIOUS
  <2> DEFINE K == MaxRetries + 1
  <2>0. /\ round \in Nat /\ attempt \in 0..MaxRetries /\ posts \in Nat /\ K \in Nat
        /\ round * K \in Nat /\ (round + 1) * K = round * K + K
    BY RoundsNat, Products DEF TypeOK
  <2>1. Posts => posts' \in Nat /\ posts' <= round * K + attempt + 1
    BY <2>0 DEF Posts, SentSoFar
  <2>2. Posts => posts' <= (round + 1) * K
    BY <2>0, <2>1
  <2>3. ASSUME NEW code, Ends(code), posts' <= (round + 1) * K PROVE SentSoFar'
    BY <2>3 DEF Ends, SentSoFar
  <2>4. ASSUME NEW s, Raise(s), posts' \in Nat, posts' <= (round + 1) * K PROVE SentSoFar'
    BY <2>3, <2>4, NextRoundSent DEF Raise, RepeatWithoutTools
  <2>5. CASE BusyAgain \/ LostAgain
    <3>1. pc' = "call" /\ round' = round /\ attempt' = attempt + 1 /\ Posts
      BY <2>5 DEF BusyAgain, LostAgain, Again, Posts
    <3> QED
      BY <2>0, <2>1, <3>1 DEF SentSoFar
  <2>6. CASE BusyAtLast \/ LostAtLast \/ Refused \/ Denied
    BY <2>1, <2>2, <2>4, <2>6 DEF BusyAtLast, LostAtLast, Refused, Denied
  <2>7. CASE Unconfigured
    <3>1. posts' = posts /\ posts <= round * K
      BY <2>0, <2>7 DEF Unconfigured, SentSoFar
    <3> QED
      BY <2>0, <2>4, <2>7, <3>1 DEF Unconfigured
  <2>8. CASE Garbled
    BY <2>2, <2>3, <2>8 DEF Garbled
  <2>9. CASE EmptyAnswer
    BY <2>1, <2>2, <2>3, <2>9, NextRoundSent DEF EmptyAnswer, Answered, RepeatWithoutTools
  <2>10. ASSUME NEW c \in Contents, NEW cs \in CallLists, FinalAnswer(c, cs)
         PROVE  SentSoFar'
    BY <2>2, <2>3, <2>10 DEF FinalAnswer, Answered
  <2>11. ASSUME NEW c \in Contents, NEW cs \in CallLists, ToolAnswer(c, cs)
         PROVE  SentSoFar'
    BY <2>2, <2>11 DEF ToolAnswer, Answered, SentSoFar
  <2>12. CASE RunTool
    <3>1. posts' = posts /\ posts <= (round + 1) * K
      BY <2>12 DEF RunTool, SentSoFar
    <3>2. CASE Tail(calls) # <<>>
      BY <2>12, <3>1, <3>2 DEF RunTool, SentSoFar
    <3>3. CASE Tail(calls) = <<>>
      BY <2>0, <2>12, <3>1, <3>3, NextRoundSent DEF RunTool
    <3> QED
      BY <3>2, <3>3
  <2>13. CASE UNCHANGED vars
    BY <2>13 DEF vars, SentSoFar
  <2> QED
    BY <2>5, <2>6, <2>7, <2>8, <2>9, <2>10, <2>11, <2>12, <2>13 DEF Next
<1>3. TypeOK /\ SentSoFar => PostsBounded
  <2> SUFFICES ASSUME TypeOK, SentSoFar PROVE PostsBounded
    OBVIOUS
  <2> DEFINE K == MaxRetries + 1
  <2>1. /\ round \in Nat /\ attempt \in 0..MaxRetries /\ posts \in Nat /\ K \in Nat
        /\ round * K \in Nat /\ (round + 1) * K = round * K + K
        /\ round + 1 \in Nat /\ Rounds \in Nat /\ round + 1 <= Rounds
    BY RoundsNat, Products DEF TypeOK
  <2>2. (round + 1) * K <= Rounds * K /\ Rounds * K \in Nat
    BY <2>1, Products
  <2>3. posts <= (round + 1) * K
    BY <2>1 DEF SentSoFar
  <2> QED
    BY <2>1, <2>2, <2>3 DEF PostsBounded
<1> QED
  BY <1>1, <1>2, <1>3, TypeAlways, PTL DEF Spec

-----------------------------------------------------------------------------
(* The history *)

\* What is whole stays whole when a message is appended.
LEMMA AppendKeeps ==
    ASSUME NEW ms \in Seq(Messages), NEW m \in Messages, NEW k \in 1..Len(ms), WholeAt(ms, k)
    PROVE  WholeAt(Append(ms, m), k)
<1>1. /\ Len(ms) \in Nat /\ DOMAIN ms = 1..Len(ms)
      /\ Append(ms, m) \in Seq(Messages) /\ Len(Append(ms, m)) = Len(ms) + 1
      /\ DOMAIN Append(ms, m) = 1..(Len(ms) + 1)
      /\ \A i \in 1..Len(ms) : Append(ms, m)[i] = ms[i]
  BY LenProperties, AppendProperties
<1>2. ms[k] \in Messages
  BY ElementOfSeq
<1> QED
  BY <1>1, <1>2 DEF WholeAt, AnsweredAt, AskedAt, Messages

\* A history whose last message asks for as many calls as there are answers behind
\* it is whole when it was whole before.
LEMMA AnswersComplete ==
    ASSUME NEW ms \in Seq(Messages), NEW ts \in Seq(Messages), ms # <<>>,
           ms[Len(ms)] = Assistant(Len(ts)),
           \A i \in 1..Len(ts) : ts[i] = ToolMsg(i),
           \A k \in 1..(Len(ms) - 1) : WholeAt(ms, k)
    PROVE  \A k \in DOMAIN (ms \o ts) : WholeAt(ms \o ts, k)
<1> DEFINE all == ms \o ts
<1>1. /\ Len(ms) \in Nat \ {0} /\ Len(ts) \in Nat /\ DOMAIN ms = 1..Len(ms)
      /\ DOMAIN all = 1..(Len(ms) + Len(ts))
      /\ \A i \in 1..Len(ms) : all[i] = ms[i]
      /\ \A i \in 1..Len(ts) : all[Len(ms) + i] = ToolMsg(i)
  <2>1. /\ Len(ms) \in Nat \ {0} /\ Len(ts) \in Nat /\ DOMAIN ms = 1..Len(ms)
    BY LenProperties, EmptySeq
  <2>2. /\ all \in Seq(Messages) /\ Len(all) = Len(ms) + Len(ts)
        /\ \A i \in 1..(Len(ms) + Len(ts)) :
              all[i] = IF i <= Len(ms) THEN ms[i] ELSE ts[i - Len(ms)]
    BY ConcatProperties
  <2>3. DOMAIN all = 1..(Len(ms) + Len(ts))
    BY <2>2, LenProperties
  <2> QED
    BY <2>1, <2>2, <2>3
<1> HIDE DEF all
<1> SUFFICES ASSUME NEW k \in 1..(Len(ms) + Len(ts)) PROVE WholeAt(all, k)
  BY <1>1 DEF all
<1>2. CASE k < Len(ms)
  <2>1. WholeAt(ms, k) /\ ms[k] \in Messages /\ k \in 1..Len(ms)
    BY <1>1, <1>2, ElementOfSeq
  <2> QED
    BY <1>1, <2>1 DEF WholeAt, AnsweredAt, AskedAt, Messages
<1>3. CASE k = Len(ms)
  BY <1>1, <1>3 DEF WholeAt, AnsweredAt, Assistant
<1>4. CASE k > Len(ms)
  <2>1. /\ k - Len(ms) \in 1..Len(ts)
        /\ all[k] = ToolMsg(k - Len(ms))
        /\ all[Len(ms)] = Assistant(Len(ts))
    BY <1>1, <1>4
  <2> QED
    BY <1>1, <1>4, <2>1 DEF WholeAt, AskedAt, Assistant, ToolMsg
<1>5. k < Len(ms) \/ k = Len(ms) \/ k > Len(ms)
  <2>1. Len(ms) \in Int /\ Len(ts) \in Int
    BY <1>1
  <2>2. k \in Int
    BY <2>1
  <2> QED
    BY <2>1, <2>2
<1> QED
  BY <1>2, <1>3, <1>4, <1>5

\* Between two calls of the provider the history is whole but for its last message,
\* whose calls are those that are answered already and those that are left.
History ==
    /\ pc = "call" => \A k \in DOMAIN messages : WholeAt(messages, k)
    /\ pc = "tools" =>
          /\ messages # <<>>
          /\ messages[Len(messages)] = Assistant(Len(toolMsgs) + Len(calls))
          /\ \A k \in 1..(Len(messages) - 1) : WholeAt(messages, k)
          /\ \A i \in 1..Len(toolMsgs) : toolMsgs[i] = ToolMsg(i)

\* A step between two attempts leaves the history as it is.
LEMMA HistoryUnchanged ==
    ASSUME History, UNCHANGED messages, pc = "call", pc' # "tools"
    PROVE  History'
  BY DEF History

\* The history is kept by every step.
LEMMA HistoryAlways == Spec => []History
<1>1. Init => History
  <2> SUFFICES ASSUME Init PROVE History
    OBVIOUS
  <2>1. pc = "call" /\ messages = <<>>
    BY DEF Init
  <2>2. DOMAIN messages = {}
    BY <2>1
  <2> QED
    BY <2>1, <2>2 DEF History
<1>2. TypeOK /\ History /\ [Next]_vars => History'
  <2> SUFFICES ASSUME TypeOK, History, [Next]_vars PROVE History'
    OBVIOUS
  <2>1. NextRound => pc' # "tools"
    BY DEF NextRound, Ends
  <2>2. CASE BusyAgain \/ LostAgain \/ Garbled
    <3>1. UNCHANGED messages /\ pc = "call" /\ pc' # "tools"
      BY <2>2 DEF BusyAgain, LostAgain, Again, Garbled, Posts, Ends
    <3> QED
      BY <3>1, HistoryUnchanged
  <2>3. CASE BusyAtLast \/ LostAtLast \/ Refused \/ Denied \/ Unconfigured
    <3>1. UNCHANGED messages /\ pc = "call" /\ pc' # "tools"
      BY <2>1, <2>3 DEF BusyAtLast, LostAtLast, Refused, Denied, Unconfigured, Raise,
                        RepeatWithoutTools, Posts, Ends
    <3> QED
      BY <3>1, HistoryUnchanged
  <2>4. CASE EmptyAnswer
    <3>1. UNCHANGED messages /\ pc = "call" /\ pc' # "tools"
      BY <2>1, <2>4 DEF EmptyAnswer, Answered, RepeatWithoutTools, Posts, Ends
    <3> QED
      BY <3>1, HistoryUnchanged
  <2>5. ASSUME NEW c \in Contents, NEW cs \in CallLists, FinalAnswer(c, cs)
        PROVE  History'
    BY <2>5 DEF FinalAnswer, Ends, History
  <2>6. ASSUME NEW c \in Contents, NEW cs \in CallLists, ToolAnswer(c, cs)
        PROVE  History'
    <3>1. /\ pc = "call" /\ pc' = "tools" /\ calls' = cs /\ toolMsgs' = <<>>
          /\ messages' = Append(messages, Assistant(Len(cs)))
      BY <2>6 DEF ToolAnswer, Answered, Posts
    <3>2. cs \in Seq(Calls) /\ Len(cs) \in Nat /\ Assistant(Len(cs)) \in Messages
      BY CallListsSeq, LenProperties, MessagesOf
    <3>3. /\ messages \in Seq(Messages) /\ Len(messages) \in Nat
          /\ DOMAIN messages = 1..Len(messages)
          /\ messages' \in Seq(Messages) /\ Len(messages') = Len(messages) + 1
          /\ messages'[Len(messages) + 1] = Assistant(Len(cs))
      BY <3>1, <3>2, LenProperties, AppendProperties DEF TypeOK
    <3>4. \A k \in 1..Len(messages) : WholeAt(messages', k)
      BY <3>1, <3>2, <3>3, AppendKeeps DEF History
    <3>5. messages' # <<>> /\ Len(toolMsgs') = 0
      BY <3>1, <3>3, EmptySeq
    <3> QED
      BY <3>1, <3>2, <3>3, <3>4, <3>5 DEF History
  <2>7. CASE RunTool
    <3> DEFINE msgs == Append(toolMsgs, ToolMsg(Len(toolMsgs) + 1))
    <3>1. /\ pc = "tools" /\ calls \in Seq(Calls) /\ calls # <<>>
          /\ messages \in Seq(Messages) /\ toolMsgs \in Seq(Messages)
          /\ Len(toolMsgs) \in Nat /\ Len(calls) \in Nat \ {0}
          /\ calls' = Tail(calls) /\ Tail(calls) \in Seq(Calls)
          /\ Len(Tail(calls)) = Len(calls) - 1
      BY <2>7, LenProperties, EmptySeq, HeadTailProperties DEF RunTool, TypeOK
    <3>2. /\ msgs \in Seq(Messages) /\ Len(msgs) = Len(toolMsgs) + 1
          /\ \A i \in 1..Len(msgs) : msgs[i] = ToolMsg(i)
      <4>1. ToolMsg(Len(toolMsgs) + 1) \in Messages
        BY <3>1, MessagesOf
      <4> QED
        BY <3>1, <4>1, AppendProperties DEF History
    <3>3. CASE Tail(calls) # <<>>
      <4>1. toolMsgs' = msgs /\ UNCHANGED <<pc, messages>>
        BY <2>7, <3>3 DEF RunTool
      <4>2. Len(toolMsgs') + Len(calls') = Len(toolMsgs) + Len(calls)
        BY <3>1, <3>2, <4>1
      <4> HIDE DEF msgs
      <4> QED
        BY <3>1, <3>2, <4>1, <4>2 DEF History
    <3>4. CASE Tail(calls) = <<>>
      <4>1. messages' = messages \o msgs /\ NextRound
        BY <2>7, <3>4 DEF RunTool
      <4>2. Len(calls) = 1
        <5>1. Len(Tail(calls)) = 0
          <6>1. Len(<<>>) = 0
            OBVIOUS
          <6> QED
            BY <3>4, <6>1
        <5> QED
          BY <3>1, <5>1
      <4> HIDE DEF msgs
      <4>3. /\ messages # <<>>
            /\ messages[Len(messages)] = Assistant(Len(msgs))
            /\ \A k \in 1..(Len(messages) - 1) : WholeAt(messages, k)
        BY <3>1, <3>2, <4>2 DEF History
      <4>4. \A k \in DOMAIN messages' : WholeAt(messages', k)
        BY <3>1, <3>2, <4>1, <4>3, AnswersComplete
      <4> QED
        BY <2>1, <4>1, <4>4 DEF History
    <3> QED
      BY <3>3, <3>4
  <2>8. CASE UNCHANGED vars
    BY <2>8 DEF vars, History
  <2> QED
    BY <2>2, <2>3, <2>4, <2>5, <2>6, <2>7, <2>8 DEF Next
<1> QED
  BY <1>1, <1>2, TypeAlways, PTL DEF Spec

\* AnsweredBeforeAsked of ToolLoop: whenever the provider is called, every tool
\* call in the history has its own answer right behind it, and no answer is alone.
THEOREM AlwaysAnswered == Spec => []AnsweredBeforeAsked
<1>1. History => AnsweredBeforeAsked
  BY DEF History, AnsweredBeforeAsked
<1> QED
  BY <1>1, HistoryAlways, PTL

-----------------------------------------------------------------------------
(* The rounds and the answer *)

\* There are finitely many messages of the assistant.
LEMMA AssistantsFinite ==
    TypeOK => IsFiniteSet(AssistantMessages) /\ Cardinality(AssistantMessages) \in Nat
<1> SUFFICES ASSUME TypeOK PROVE IsFiniteSet(AssistantMessages)
  BY FS_CardinalityType
<1>1. DOMAIN messages = 1..Len(messages) /\ Len(messages) \in Nat
  BY LenProperties DEF TypeOK
<1>2. IsFiniteSet(1..Len(messages))
  BY <1>1, FS_Interval
<1>3. AssistantMessages \subseteq 1..Len(messages)
  BY <1>1 DEF AssistantMessages
<1> QED
  BY <1>2, <1>3, FS_Subset

\* What appending does to the messages of the assistant.
LEMMA AppendedAssistant ==
    ASSUME TypeOK, NEW n \in Nat, messages' = Append(messages, Assistant(n))
    PROVE  /\ AssistantMessages' = AssistantMessages \cup {Len(messages) + 1}
           /\ Cardinality(AssistantMessages') = Cardinality(AssistantMessages) + 1
           /\ Cardinality(AssistantMessages) \in Nat
           /\ Len(messages') = Len(messages) + 1
           /\ messages'[Len(messages) + 1] = Assistant(n)
           /\ \A k \in AssistantMessages : messages'[k] = messages[k] /\ k < Len(messages')
<1>1. /\ Len(messages) \in Nat /\ DOMAIN messages = 1..Len(messages)
      /\ DOMAIN messages' = 1..(Len(messages) + 1)
      /\ Len(messages') = Len(messages) + 1
      /\ messages'[Len(messages) + 1] = Assistant(n)
      /\ \A i \in 1..Len(messages) : messages'[i] = messages[i]
  BY MessagesOf, LenProperties, AppendProperties DEF TypeOK
<1>2. AssistantMessages' = AssistantMessages \cup {Len(messages) + 1}
  BY <1>1 DEF AssistantMessages, Assistant
<1>3. IsFiniteSet(AssistantMessages) /\ Len(messages) + 1 \notin AssistantMessages
  BY <1>1, AssistantsFinite DEF AssistantMessages
<1>4. /\ Cardinality(AssistantMessages \cup {Len(messages) + 1}) = Cardinality(AssistantMessages) + 1
      /\ Cardinality(AssistantMessages) \in Nat
  BY <1>3, FS_AddElement, FS_CardinalityType
<1>5. ASSUME NEW k \in AssistantMessages
      PROVE  messages'[k] = messages[k] /\ k < Len(messages')
  <2>1. k \in 1..Len(messages)
    BY <1>1 DEF AssistantMessages
  <2> QED
    BY <1>1, <2>1
<1> QED
  BY <1>1, <1>2, <1>4, <1>5

\* Appending answers of tools adds no message of the assistant.
LEMMA AppendedTools ==
    ASSUME TypeOK, History, RunTool
    PROVE  /\ AssistantMessages' = AssistantMessages
           /\ \A k \in AssistantMessages : messages'[k] = messages[k]
<1>1. CASE Tail(calls) # <<>>
  BY <1>1 DEF RunTool, AssistantMessages
<1>2. CASE Tail(calls) = <<>>
  <2> DEFINE msgs == Append(toolMsgs, ToolMsg(Len(toolMsgs) + 1))
  <2>1. messages' = messages \o msgs
    BY <1>2 DEF RunTool
  <2>2. /\ Len(toolMsgs) \in Nat /\ ToolMsg(Len(toolMsgs) + 1) \in Messages
        /\ \A i \in 1..Len(toolMsgs) : toolMsgs[i] = ToolMsg(i)
    BY LenProperties, MessagesOf DEF RunTool, TypeOK, History
  <2>3. /\ msgs \in Seq(Messages) /\ Len(msgs) = Len(toolMsgs) + 1
        /\ \A i \in 1..Len(msgs) : msgs[i] = ToolMsg(i)
    BY <2>2, AppendProperties DEF TypeOK
  <2> HIDE DEF msgs
  <2>4. /\ Len(messages) \in Nat /\ Len(msgs) \in Nat /\ DOMAIN messages = 1..Len(messages)
        /\ messages' \in Seq(Messages) /\ Len(messages') = Len(messages) + Len(msgs)
        /\ \A i \in 1..(Len(messages) + Len(msgs)) :
              messages'[i] = IF i <= Len(messages) THEN messages[i] ELSE msgs[i - Len(messages)]
    <3>1. /\ messages \in Seq(Messages) /\ Len(messages) \in Nat
          /\ DOMAIN messages = 1..Len(messages) /\ Len(msgs) \in Nat
      BY <2>3, LenProperties DEF TypeOK
    <3> HIDE DEF TypeOK
    <3> QED
      BY <2>1, <2>3, <3>1, ConcatProperties
  <2>5. DOMAIN messages' = 1..(Len(messages) + Len(msgs))
    BY <2>4, LenProperties
  <2>6. \A i \in DOMAIN messages' : i \notin DOMAIN messages => messages'[i].role = "tool"
    BY <2>3, <2>4, <2>5 DEF ToolMsg
  <2>7. DOMAIN messages \subseteq DOMAIN messages'
    BY <2>4, <2>5
  <2>8. \A i \in DOMAIN messages : messages'[i] = messages[i]
    BY <2>4
  <2> QED
    BY <2>6, <2>7, <2>8 DEF AssistantMessages
<1> QED
  BY <1>1, <1>2

\* Every round that is over has left a message of the assistant, which asked for
\* tools, or was the one that the repetition took.
Repeats == IF retried THEN 1 ELSE 0

Counted ==
    /\ pc = "call" => Cardinality(AssistantMessages) + Repeats = round
    /\ pc = "tools" => Cardinality(AssistantMessages) + Repeats = round + 1
    /\ outcome = "tool_loop_exceeded" =>
          pc = "ended" /\ Cardinality(AssistantMessages) + Repeats = Rounds

\* The next round, or the end of the loop.
LEMMA NextRoundCounted ==
    ASSUME TypeOK, Counted, NextRound, pc # "ended",
           (Cardinality(AssistantMessages) + Repeats)' = round + 1
    PROVE  Counted'
<1>1. CASE round + 1 < Rounds
  BY <1>1 DEF NextRound, Counted
<1>2. CASE ~(round + 1 < Rounds)
  <2>1. round + 1 = Rounds /\ pc' = "ended"
    BY <1>2, RoundsNat DEF NextRound, Ends, TypeOK
  <2>2. Rounds' = Rounds
    BY DEF Rounds
  <2> QED
    BY <2>1, <2>2 DEF Counted
<1> QED
  BY <1>1, <1>2

\* A step that leaves the history and the repetition as they are, and that goes on
\* with the attempts of the round or ends the completion for another reason.
LEMMA CountedUnchanged ==
    ASSUME Counted, UNCHANGED <<messages, retried>>, pc = "call",
           \/ pc' = "call" /\ UNCHANGED <<round, outcome>>
           \/ pc' = "ended" /\ outcome' # "tool_loop_exceeded"
    PROVE  Counted'
<1>1. AssistantMessages' = AssistantMessages /\ Repeats' = Repeats /\ Rounds' = Rounds
  BY DEF AssistantMessages, Repeats, Rounds
<1>2. Cardinality(AssistantMessages)' = Cardinality(AssistantMessages)
  BY <1>1
<1>3. CASE pc' = "call" /\ UNCHANGED <<round, outcome>>
  <2>1. outcome # "tool_loop_exceeded"
    BY DEF Counted
  <2>2. Cardinality(AssistantMessages) + Repeats = round
    BY DEF Counted
  <2>3. Cardinality(AssistantMessages)' + Repeats' = round'
    BY <1>1, <1>2, <1>3, <2>2
  <2> QED
    BY <1>3, <2>1, <2>3 DEF Counted
<1>4. CASE pc' = "ended" /\ outcome' # "tool_loop_exceeded"
  BY <1>4 DEF Counted
<1> QED
  BY <1>3, <1>4

\* The repetition takes one round and leaves no message.
LEMMA RepeatCounted ==
    ASSUME TypeOK, Counted, pc = "call", MayRepeat, RepeatWithoutTools, UNCHANGED messages
    PROVE  Counted'
<1>1. AssistantMessages' = AssistantMessages /\ Repeats = 0 /\ Repeats' = 1 /\ round \in Nat
  BY RoundsNat DEF AssistantMessages, Repeats, MayRepeat, RepeatWithoutTools, TypeOK
<1>2. Cardinality(AssistantMessages) = round
  <2>1. Cardinality(AssistantMessages) + Repeats = round
    BY DEF Counted
  <2> QED
    BY <1>1, <2>1, AssistantsFinite
<1>3. Cardinality(AssistantMessages)' = round
  BY <1>1, <1>2
<1>4. (Cardinality(AssistantMessages) + Repeats)' = round + 1
  BY <1>1, <1>3
<1> QED
  BY <1>4, NextRoundCounted DEF RepeatWithoutTools

\* ExceededIsTrue of ToolLoop: the limit of rounds is reported only of completions
\* whose model asked for tools in every round but the one the repetition took.
THEOREM ExceededAlwaysTrue == Spec => []ExceededIsTrue
<1>1. Init => Counted
  <2> SUFFICES ASSUME Init PROVE Counted
    OBVIOUS
  <2>1. /\ pc = "call" /\ messages = <<>> /\ round = 0 /\ retried = FALSE
        /\ outcome # "tool_loop_exceeded"
    BY DEF Init
  <2>2. AssistantMessages = {}
    BY <2>1 DEF AssistantMessages
  <2>3. Cardinality(AssistantMessages) = 0 /\ Repeats = 0
    BY <2>1, <2>2, FS_EmptySet DEF Repeats
  <2> QED
    BY <2>1, <2>3 DEF Counted
<1>2. TypeOK /\ History /\ Counted /\ [Next]_vars => Counted'
  <2> SUFFICES ASSUME TypeOK, History, Counted, [Next]_vars PROVE Counted'
    OBVIOUS
  <2>1. CASE BusyAgain \/ LostAgain
    BY <2>1, CountedUnchanged DEF BusyAgain, LostAgain, Again, Posts
  <2>2. CASE Garbled
    BY <2>2, CountedUnchanged DEF Garbled, Posts, Ends
  <2>3. ASSUME NEW s, Raise(s), pc = "call" PROVE Counted'
    <3>1. CASE MayRepeat /\ SpeaksAgainstTools(s)
      BY <2>3, <3>1, RepeatCounted DEF Raise
    <3>2. CASE ~(MayRepeat /\ SpeaksAgainstTools(s))
      BY <2>3, <3>2, CountedUnchanged DEF Raise, Ends
    <3> QED
      BY <3>1, <3>2
  <2>4. CASE BusyAtLast \/ LostAtLast \/ Refused \/ Denied \/ Unconfigured
    BY <2>3, <2>4 DEF BusyAtLast, LostAtLast, Refused, Denied, Unconfigured, Posts
  <2>5. CASE EmptyAnswer
    <3>1. CASE MayRepeat
      BY <2>5, <3>1, RepeatCounted DEF EmptyAnswer, Answered, Posts
    <3>2. CASE ~MayRepeat
      BY <2>5, <3>2, CountedUnchanged DEF EmptyAnswer, Answered, Posts, Ends
    <3> QED
      BY <3>1, <3>2
  <2>6. ASSUME NEW c \in Contents, NEW cs \in CallLists, FinalAnswer(c, cs)
        PROVE  Counted'
    BY <2>6 DEF FinalAnswer, Ends, Counted
  <2>7. ASSUME NEW c \in Contents, NEW cs \in CallLists, ToolAnswer(c, cs)
        PROVE  Counted'
    <3>1. /\ pc = "call" /\ pc' = "tools"
          /\ messages' = Append(messages, Assistant(Len(cs)))
          /\ UNCHANGED <<round, retried, outcome>>
      BY <2>7 DEF ToolAnswer, Answered, Posts
    <3>2. Len(cs) \in Nat
      BY CallListsSeq, LenProperties
    <3>3. /\ Cardinality(AssistantMessages') = Cardinality(AssistantMessages) + 1
          /\ Cardinality(AssistantMessages) \in Nat
      BY <3>1, <3>2, AppendedAssistant
    <3>4. Repeats' = Repeats /\ Repeats \in Nat
      BY <3>1 DEF Repeats
    <3>5. Cardinality(AssistantMessages)' + Repeats' = round + 1
      BY <3>1, <3>3, <3>4 DEF Counted
    <3> QED
      BY <3>1, <3>5 DEF Counted
  <2>8. CASE RunTool
    <3>1. /\ AssistantMessages' = AssistantMessages /\ Repeats' = Repeats /\ Rounds' = Rounds
          /\ pc = "tools"
      BY <2>8, AppendedTools DEF RunTool, Repeats, Rounds
    <3>2. CASE Tail(calls) # <<>>
      BY <2>8, <3>1, <3>2 DEF RunTool, Counted
    <3>3. CASE Tail(calls) = <<>>
      <4>1. NextRound
        BY <2>8, <3>3 DEF RunTool
      <4>2. (Cardinality(AssistantMessages) + Repeats)' = round + 1
        BY <3>1 DEF Counted
      <4> QED
        BY <3>1, <4>1, <4>2, NextRoundCounted
    <3> QED
      BY <3>2, <3>3
  <2>9. CASE UNCHANGED vars
    <3>1. /\ AssistantMessages' = AssistantMessages /\ Repeats' = Repeats /\ Rounds' = Rounds
          /\ UNCHANGED <<pc, round, outcome>>
      BY <2>9 DEF vars, AssistantMessages, Repeats, Rounds
    <3> QED
      BY <3>1 DEF Counted
  <2> QED
    BY <2>1, <2>2, <2>4, <2>5, <2>6, <2>7, <2>8, <2>9 DEF Next
<1>3. TypeOK /\ Counted => ExceededIsTrue
  <2> SUFFICES ASSUME TypeOK, Counted, outcome = "tool_loop_exceeded" PROVE ExceededIsTrue
    BY DEF ExceededIsTrue
  <2>1. Cardinality(AssistantMessages) \in Nat
    BY AssistantsFinite
  <2> QED
    BY <2>1, RoundsNat DEF Counted, Repeats, ExceededIsTrue
<1> QED
  BY <1>1, <1>2, <1>3, TypeAlways, HistoryAlways, PTL DEF Spec

-----------------------------------------------------------------------------
(* The answer *)

\* Until the completion ends, every message of the assistant asks for tools.
Asking == \A k \in AssistantMessages : messages[k].n # 0

Fit ==
    /\ pc # "ended" => Asking
    /\ outcome = "answered" => pc = "ended"
    /\ AnswerIsFit

\* A step that leaves the messages of the assistant alone and is not the last answer.
LEMMA FitUnchanged ==
    ASSUME Fit, AssistantMessages' = AssistantMessages,
           \A k \in AssistantMessages : messages'[k] = messages[k],
           pc # "ended", outcome' # "answered"
    PROVE  Fit'
  BY DEF Fit, Asking, AnswerIsFit

\* AnswerIsFit of ToolLoop: what is returned is not empty, has the format that was
\* asked for, and is the only message of the assistant that asks for no tool.
THEOREM AnswerAlwaysFit == Spec => []AnswerIsFit
<1>1. Init => Fit
  <2> SUFFICES ASSUME Init PROVE Fit
    OBVIOUS
  <2>1. messages = <<>> /\ outcome # "answered"
    BY DEF Init
  <2>2. AssistantMessages = {}
    BY <2>1 DEF AssistantMessages
  <2> QED
    BY <2>1, <2>2 DEF Fit, Asking, AnswerIsFit
<1>2. TypeOK /\ History /\ Fit /\ [Next]_vars => Fit'
  <2> SUFFICES ASSUME TypeOK, History, Fit, [Next]_vars PROVE Fit'
    OBVIOUS
  <2>1. ASSUME UNCHANGED messages
        PROVE  /\ AssistantMessages' = AssistantMessages
               /\ \A k \in AssistantMessages : messages'[k] = messages[k]
    BY <2>1 DEF AssistantMessages
  <2>2. ASSUME NextRound, pc # "ended" PROVE outcome' # "answered"
    BY <2>2 DEF NextRound, Ends, Fit
  <2>3. CASE \/ BusyAgain \/ LostAgain \/ BusyAtLast \/ LostAtLast
             \/ Refused \/ Denied \/ Unconfigured \/ Garbled \/ EmptyAnswer
    <3>1. pc = "call" /\ UNCHANGED messages
      BY <2>3 DEF BusyAgain, LostAgain, Again, BusyAtLast, LostAtLast, Refused, Denied,
                  Unconfigured, Raise, Garbled, EmptyAnswer, Answered, Posts
    <3>2. \/ UNCHANGED outcome \/ NextRound
          \/ outcome' \in {"provider_error", "internal_error", "empty_content"}
      BY <2>3 DEF BusyAgain, LostAgain, Again, BusyAtLast, LostAtLast, Refused, Denied,
                  Unconfigured, Raise, Garbled, EmptyAnswer, RepeatWithoutTools, Ends
    <3>3. outcome # "answered"
      BY <3>1 DEF Fit
    <3>4. outcome' # "answered"
      BY <2>2, <3>1, <3>2, <3>3
    <3> QED
      BY <2>1, <3>1, <3>4, FitUnchanged
  <2>4. ASSUME NEW c \in Contents, NEW cs \in CallLists, FinalAnswer(c, cs)
        PROVE  Fit'
    <3>1. /\ pc = "call" /\ pc' = "ended" /\ calls' = calls /\ req' = req
          /\ messages' = Append(messages, Assistant(0))
          /\ content' # ""
          /\ outcome' = "answered" => Fits(content')
      BY <2>4 DEF FinalAnswer, Answered, Posts, Ends
    <3>2. calls = <<>> /\ Asking
      BY <3>1 DEF TypeOK, Fit
    <3>3. /\ AssistantMessages' = AssistantMessages \cup {Len(messages) + 1}
          /\ Len(messages') = Len(messages) + 1
          /\ messages'[Len(messages) + 1] = Assistant(0)
          /\ \A k \in AssistantMessages : messages'[k] = messages[k] /\ k < Len(messages')
      BY <3>1, AppendedAssistant
    <3>4. \A k \in AssistantMessages : messages'[k].n # 0 /\ k # Len(messages')
      <4>1. SUFFICES ASSUME NEW k \in AssistantMessages
                     PROVE  messages'[k].n # 0 /\ k # Len(messages')
        OBVIOUS
      <4>2. k \in Int /\ Len(messages) \in Nat
        BY LenProperties DEF AssistantMessages, TypeOK
      <4> QED
        BY <3>2, <3>3, <4>2 DEF Asking
    <3>5. \A k \in AssistantMessages' : messages'[k].n = 0 <=> k = Len(messages')
      BY <3>3, <3>4 DEF Assistant
    <3>6. outcome' = "answered" => Fits(content)'
      BY <3>1 DEF Fits
    <3> QED
      BY <3>1, <3>2, <3>5, <3>6 DEF Fit, AnswerIsFit
  <2>5. ASSUME NEW c \in Contents, NEW cs \in CallLists, ToolAnswer(c, cs)
        PROVE  Fit'
    <3>1. /\ pc = "call" /\ messages' = Append(messages, Assistant(Len(cs)))
          /\ cs # <<>> /\ UNCHANGED outcome
      BY <2>5 DEF ToolAnswer, CallsOf, Answered, Posts
    <3>2. Len(cs) \in Nat /\ Len(cs) # 0
      BY <3>1, CallListsSeq, LenProperties, EmptySeq
    <3>3. outcome' # "answered" /\ Asking
      BY <3>1 DEF Fit
    <3>4. Asking'
      <4>1. /\ AssistantMessages' = AssistantMessages \cup {Len(messages) + 1}
            /\ messages'[Len(messages) + 1] = Assistant(Len(cs))
            /\ \A k \in AssistantMessages : messages'[k] = messages[k]
        BY <3>1, <3>2, AppendedAssistant
      <4>2. messages'[Len(messages) + 1].n # 0
        BY <3>2, <4>1 DEF Assistant
      <4>3. \A k \in AssistantMessages : messages'[k].n # 0
        BY <3>3, <4>1 DEF Asking
      <4> QED
        BY <4>1, <4>2, <4>3 DEF Asking
    <3> QED
      BY <3>3, <3>4 DEF Fit, AnswerIsFit
  <2>6. CASE RunTool
    <3>1. pc = "tools" /\ (UNCHANGED outcome \/ NextRound)
      BY <2>6 DEF RunTool
    <3>2. outcome' # "answered"
      BY <2>2, <3>1 DEF Fit
    <3> QED
      BY <2>6, <3>1, <3>2, AppendedTools, FitUnchanged
  <2>7. CASE UNCHANGED vars
    BY <2>1, <2>7 DEF vars, Fit, Asking, AnswerIsFit, Fits
  <2> QED
    BY <2>3, <2>4, <2>5, <2>6, <2>7 DEF Next
<1>3. Fit => AnswerIsFit
  BY DEF Fit
<1> QED
  BY <1>1, <1>2, <1>3, TypeAlways, HistoryAlways, PTL DEF Spec
=============================================================================
