---------------------------- MODULE QueryService ---------------------------
(***************************************************************************)
(* Questions of users, answered in one piece or as a stream, within chat   *)
(* sessions that the client names: src/src/api/routes/chat.py, RAGService  *)
(* in services/rag_service.py, ChatSessionManager and SSEStreamGenerator   *)
(* in services/rag/.  A step is what a request does between two awaits; a  *)
(* deleted knowledge base takes its sessions along at any moment.          *)
(*                                                                         *)
(* An owner is a (tenant, user, knowledge base) triple: what a session     *)
(* belongs to.  Texts are abstracted to the request they come from, what   *)
(* retrieval finds to whether it fails.  The clocks of the API processes   *)
(* are taken to agree, so that created_at is a count within the session.   *)
(***************************************************************************)
EXTENDS Naturals, SequencesExt

CONSTANTS
  Queries,      \* requests, one question each
  Sessions,     \* session ids, chosen by the clients
  Owners,       \* (tenant, user, knowledge base); the knowledge bases differ
  Processes,    \* API processes, each with its session cache
  Modes,        \* retrieval modes asked for
  MaxCached,    \* MAX_CACHED_MESSAGES
  MaxTokens,    \* bound: token frames of an answer
  Nobody        \* no owner: the session does not exist

ASSUME QueryServiceAssumption ==
  /\ Sessions # {} /\ Processes # {}
  /\ Nobody \notin Owners
  /\ MaxCached \in Nat

VARIABLES
  deleted,   \* owners whose knowledge base has been deleted
  session,   \* chat_sessions: session -> its owner
  messages,  \* chat_messages: session -> its rows [role, of, at]
  cache,     \* process -> _sessions: session -> its messages, oldest first
  query      \* request -> where it is

queryVars == <<deleted, session, messages, cache, query>>

Message == [role : {"user", "assistant"}, of : Queries, at : Nat]
PCs == {"idle", "checked", "reading", "append", "insert", "locked", "inserted", "committed",
        "retrieve", "complete", "stream", "ended", "failed", "cut"}
NotAsked == [pc |-> "idle", owner |-> Nobody, session |-> CHOOSE s \in Sessions : TRUE,
  process |-> CHOOSE p \in Processes : TRUE, streams |-> FALSE, role |-> "user", at |-> 0,
  frames |-> <<>>, context |-> {}, replaced |-> FALSE]

Frames == {"status", "sources", "generating", "token", "error", "done"}

QueryTypeOK ==
  /\ deleted \subseteq Owners
  /\ session \in [Sessions -> (Owners \ deleted) \cup {Nobody}]
  /\ \A s \in Sessions :
       /\ messages[s] \subseteq Message
       /\ session[s] = Nobody => messages[s] = {}
       /\ \A m, n \in messages[s] : m.at = n.at => m = n
  /\ \A p \in Processes, s \in Sessions : Len(cache[p][s]) <= MaxCached
  /\ \A q \in Queries : query[q].pc \in PCs /\ query[q].frames \in Seq(Frames)

QueryInit ==
  /\ deleted = {}
  /\ session = [s \in Sessions |-> Nobody]
  /\ messages = [s \in Sessions |-> {}]
  /\ cache = [p \in Processes |-> [s \in Sessions |-> <<>>]]
  /\ query = [q \in Queries |-> NotAsked]

IsAt(q, pc) == query[q].pc = pc
Goto(q, pc) == query' = [query EXCEPT ![q].pc = pc]
\* What remains of a request: who asked and the frames of a finished stream.
End(q, pc) == query' = [query EXCEPT ![q] = [NotAsked EXCEPT
  !.pc = pc, !.owner = query[q].owner, !.streams = query[q].streams,
  !.frames = IF query[q].role = "assistant" THEN query[q].frames ELSE <<>>]]

(***************************************************************************)
(* A request arrives: the knowledge base is looked up and the generations  *)
(* of its documents are read.                                              *)
(***************************************************************************)
Ask(q, o, s, p, streams) ==
  /\ IsAt(q, "idle")
  /\ query' = [query EXCEPT ![q] = [NotAsked EXCEPT !.owner = o, !.session = s, !.process = p,
       !.streams = streams, !.pc = IF o \in deleted THEN "failed" ELSE "checked"]]
  /\ UNCHANGED <<deleted, session, messages, cache>>

(***************************************************************************)
(* load_history_from_db and contextualize_query                            *)
(***************************************************************************)
Sorted(rows) == [i \in 1..Cardinality(rows) |->
  CHOOSE m \in rows : Cardinality({n \in rows : n.at <= m.at}) = i]
Cached(history) == [i \in DOMAIN history |-> [role |-> history[i].role, of |-> history[i].of]]
\* Mutant: nothing is trimmed.
RecentOrNot(history) == history
Recent(history) == SubSeq(history, Len(history) - Min({MaxCached, Len(history)}) + 1, Len(history))
\* The question refers to the last question that is remembered.
Context(history) ==
  LET asked == {i \in DOMAIN history : history[i].role = "user"}
  IN  IF asked = {} THEN {} ELSE {history[Max(asked)].of}

\* The session row: somebody else's is refused.  No row: a session with this
\* id begins, and what the process remembers under it is forgotten.
\* Mutant: what is remembered stays.
ForgetNothing(p, s) == cache
Forget(p, s) == [cache EXCEPT ![p][s] = <<>>]

CheckSession(q) ==
  LET s == query[q].session
      p == query[q].process
      begins == Forget(p, s)
  IN
  /\ IsAt(q, "checked")
  /\ \/ session[s] = query[q].owner /\ Goto(q, "reading") /\ UNCHANGED cache
     \/ session[s] \notin {query[q].owner, Nobody} /\ End(q, "failed") /\ UNCHANGED cache
     \/ /\ session[s] = Nobody
        /\ cache' = begins
        /\ query' = [query EXCEPT ![q].pc = "append", ![q].context = Context(begins[p][s])]
  /\ UNCHANGED <<deleted, session, messages>>

\* The messages, by the session id alone, become the cached history.
ReadHistory(q) ==
  LET s == query[q].session
      history == Recent(Cached(Sorted(messages[s])))
  IN
  /\ IsAt(q, "reading")
  /\ cache' = [cache EXCEPT ![query[q].process][s] = history]
  /\ query' = [query EXCEPT ![q].pc = "append", ![q].context = Context(history)]
  /\ UNCHANGED <<deleted, session, messages>>

(***************************************************************************)
(* append_message_db, for the question and for the answer                  *)
(***************************************************************************)
Uncommitted(q) == query[q].pc \in {"locked", "inserted"}
\* A later stamp than any the session has been given.
UtcNow(s) == 1 + Max({0} \cup {m.at : m \in messages[s]}
                         \cup {query[q].at : q \in {r \in Queries : query[r].session = s}})
\* SELECT ... FOR UPDATE finds a committed row and waits for who has it locked.
\* Mutant: a plain select.
RowIsFreeAlways(q) == TRUE
RowIsFree(q) == \A r \in Queries : IsAt(r, "locked") => query[r].session # query[q].session

\* Mutant: whose session it is has been checked when the question came.
MayAppendAlways(q) == TRUE
MayAppend(q) == session[query[q].session] = query[q].owner

\* The message is stamped once the row is locked.
LockSession(q) ==
  /\ IsAt(q, "append") /\ session[query[q].session] # Nobody /\ RowIsFree(q)
  /\ IF MayAppend(q)
     THEN query' = [query EXCEPT ![q].pc = "locked", ![q].at = UtcNow(query[q].session)]
     ELSE End(q, "failed")
  /\ UNCHANGED <<deleted, session, messages, cache>>

\* There is no row to lock.
FindNoSession(q) ==
  /\ IsAt(q, "append") /\ session[query[q].session] = Nobody
  /\ Goto(q, "insert")
  /\ UNCHANGED <<deleted, session, messages, cache>>

\* flush: the primary key waits for another insert of the same id and then
\* fails, the foreign key fails without the knowledge base.
InsertSession(q) ==
  LET s == query[q].session IN
  /\ IsAt(q, "insert")
  /\ \A r \in Queries : IsAt(r, "inserted") => query[r].session # s
  /\ IF session[s] = Nobody /\ query[q].owner \notin deleted
     THEN query' = [query EXCEPT ![q].pc = "inserted", ![q].at = UtcNow(s)]
     ELSE End(q, "failed")
  /\ UNCHANGED <<deleted, session, messages, cache>>

Commit(q) ==
  LET s == query[q].session
      m == [role |-> query[q].role, of |-> q, at |-> query[q].at]
  IN
  /\ Uncommitted(q)
  /\ session' = IF IsAt(q, "inserted") THEN [session EXCEPT ![s] = query[q].owner] ELSE session
  /\ messages' = [messages EXCEPT ![s] = @ \cup {m}]
  /\ Goto(q, "committed")
  /\ UNCHANGED <<deleted, cache>>

CommitFails(q) ==
  /\ Uncommitted(q)
  /\ End(q, "failed")
  /\ UNCHANGED <<deleted, session, messages, cache>>

\* append_message: the cache follows, and the request goes on.
CacheMessage(q) ==
  LET s == query[q].session
      p == query[q].process
      m == [role |-> query[q].role, of |-> q]
  IN
  /\ IsAt(q, "committed")
  /\ cache' = [cache EXCEPT ![p][s] = Recent(Append(@, m))]
  /\ IF query[q].role = "user"
     THEN query' = [query EXCEPT ![q].pc = "retrieve", ![q].at = 0]
     ELSE End(q, "ended")
  /\ UNCHANGED <<deleted, session, messages>>

(***************************************************************************)
(* execute_retrieval: dense search has to succeed, the graph and the       *)
(* keyword search only log their failures.                                 *)
(***************************************************************************)
Branches(mode) ==
  CASE mode = "naive"  -> {"dense"}
    [] mode = "local"  -> {"dense", "subgraph"}
    [] mode = "global" -> {"dense", "communities"}
    [] mode = "mix"    -> {"dense", "sparse", "subgraph", "communities"}
    [] OTHER           -> {"dense", "sparse", "subgraph"}

Retrieve(q, mode) ==
  /\ IsAt(q, "retrieve")
  /\ \E down \in SUBSET Branches(mode) :
       IF "dense" \in down THEN End(q, "failed")
       ELSE Goto(q, IF query[q].streams THEN "stream" ELSE "complete")
  /\ UNCHANGED <<deleted, session, messages, cache>>

\* The embedding of the question: a quota or the provider refuses.
EmbeddingFails(q) ==
  /\ IsAt(q, "retrieve")
  /\ End(q, "failed")
  /\ UNCHANGED <<deleted, session, messages, cache>>

\* generate_completion; its text is stored before it is sent.
Complete(q) ==
  /\ IsAt(q, "complete")
  /\ query' = [query EXCEPT ![q].pc = "append", ![q].role = "assistant"]
  /\ UNCHANGED <<deleted, session, messages, cache>>

CompletionFails(q) ==
  /\ IsAt(q, "complete")
  /\ End(q, "failed")
  /\ UNCHANGED <<deleted, session, messages, cache>>

(***************************************************************************)
(* stream_query_response and persist_stream, one frame per step            *)
(***************************************************************************)
Sent(q) == query[q].frames
Opened(q) == Len(Sent(q)) >= 3
Send(q, frame) ==
  /\ query' = [query EXCEPT ![q].frames = Append(@, frame)]
  /\ UNCHANGED <<deleted, session, messages, cache>>

SendOpening(q) ==
  /\ IsAt(q, "stream") /\ ~Opened(q)
  /\ Send(q, <<"status", "sources", "generating">>[Len(Sent(q)) + 1])

\* The quota is asked for after the opening and outside of the try block.
QuotaRefused(q) ==
  /\ IsAt(q, "stream") /\ Len(Sent(q)) = 3
  /\ End(q, "cut")
  /\ UNCHANGED <<deleted, session, messages, cache>>

SendToken(q) ==
  /\ IsAt(q, "stream") /\ Opened(q) /\ Len(Sent(q)) < 3 + MaxTokens
  /\ Send(q, "token")

\* The provider fails: an error frame, and then the handler itself raises,
\* record_rejection is no method of RateLimitMetrics.
ProviderFails(q) ==
  /\ IsAt(q, "stream") /\ Opened(q)
  /\ query' = [query EXCEPT ![q].frames = Append(@, "error"), ![q].pc = "cut"]
  /\ UNCHANGED <<deleted, session, messages, cache>>

\* The provider is through.  After the done frame the answer is stored, unless
\* it is empty.
Answered(q) == "token" \in Range(Sent(q))
Finish(q) ==
  /\ IsAt(q, "stream") /\ Opened(q)
  /\ query' = [query EXCEPT ![q].frames = Append(@, "done"), ![q].role = "assistant",
       ![q].pc = IF Answered(q) THEN "append" ELSE "ended"]
  /\ UNCHANGED <<deleted, session, messages, cache>>

\* The client of a stream leaves: the generator is closed where it waits, a
\* transaction that is open is rolled back.
Disconnect(q) ==
  /\ query[q].streams /\ (IsAt(q, "stream") \/ query[q].role = "assistant")
  /\ query[q].pc \in {"stream", "append", "insert", "locked", "inserted", "committed"}
  /\ End(q, "cut")
  /\ UNCHANGED <<deleted, session, messages, cache>>

(***************************************************************************)
(* delete_knowledge_base: sessions and messages go by cascade.  Rows that  *)
(* are locked, and new ones that refer to it, hold the deletion up.        *)
(***************************************************************************)
DeleteKnowledgeBase(o) ==
  LET gone == {s \in Sessions : session[s] = o} IN
  /\ o \notin deleted
  /\ \A q \in Queries : IsAt(q, "locked") => query[q].session \notin gone
  /\ \A q \in Queries : IsAt(q, "inserted") => query[q].owner # o
  /\ deleted' = deleted \cup {o}
  /\ session' = [s \in Sessions |-> IF s \in gone THEN Nobody ELSE session[s]]
  /\ messages' = [s \in Sessions |-> IF s \in gone THEN {} ELSE messages[s]]
  /\ query' = [q \in Queries |-> IF IsAt(q, "reading") /\ query[q].session \in gone
                                 THEN [query[q] EXCEPT !.replaced = TRUE] ELSE query[q]]
  /\ UNCHANGED cache

QueryNext ==
  \/ \E q \in Queries, o \in Owners, s \in Sessions, p \in Processes, b \in BOOLEAN :
       Ask(q, o, s, p, b)
  \/ \E q \in Queries :
       \/ CheckSession(q) \/ ReadHistory(q)
       \/ LockSession(q) \/ FindNoSession(q) \/ InsertSession(q)
       \/ Commit(q) \/ CommitFails(q) \/ CacheMessage(q)
       \/ EmbeddingFails(q) \/ Complete(q) \/ CompletionFails(q)
       \/ SendOpening(q) \/ QuotaRefused(q) \/ SendToken(q) \/ ProviderFails(q) \/ Finish(q)
       \/ Disconnect(q)
  \/ \E q \in Queries, mode \in Modes : Retrieve(q, mode)
  \/ \E o \in Owners : DeleteKnowledgeBase(o)

QuerySpec == QueryInit /\ [][QueryNext]_queryVars

(***************************************************************************)
(* Properties                                                              *)
(***************************************************************************)

\* A conversation grows at its end only: while a session exists, whoever reads
\* it finds what was there before in the same order, also when questions of one
\* session are answered at the same time, because a message gets its stamp
\* while the session row is locked.
HistoryOnlyGrows ==
  [][\A s \in Sessions :
       (session[s] # Nobody /\ session'[s] = session[s])
         => IsPrefix(Sorted(messages[s]), Sorted(messages'[s]))]_queryVars

\* An answer in a session follows its own question there, and was complete: its
\* stream ended with done, without an error, and said something.
AnswersAreComplete ==
  \A s \in Sessions : \A a \in messages[s] :
    a.role = "assistant"
      => /\ \E m \in messages[s] : m.role = "user" /\ m.of = a.of /\ m.at < a.at
         /\ query[a.of].streams
              => Answered(a.of) /\ Last(Sent(a.of)) = "done" /\ "error" \notin Range(Sent(a.of))

\* A question is put into the context of questions of its own owner only, even
\* if clients choose the same session id, one after the other or at once.  The
\* known exception: the session is deleted between the check of its row and the
\* read of its messages, which goes by the id alone (chat_session.py:131).
ContextIsOwn ==
  \A q \in Queries :
    \/ query[q].replaced
    \/ \A r \in query[q].context : query[r].owner = query[q].owner

\* stream_query_response promises a strict sequence of frames that ends with
\* done (stream.py:108), FAILED after an error (stream.py:245).
ErrorIsFollowedByDone ==
  \A q \in Queries :
    (IsAt(q, "cut") /\ "error" \in Range(Sent(q))) => Last(Sent(q)) = "done"
=============================================================================
