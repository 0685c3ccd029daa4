------------------------------- MODULE Router -------------------------------
(***************************************************************************)
(* llama-router's proxy (router/router.hpp) over its admission controller: *)
(* a listener thread takes a request, admits it when it is a POST, starts  *)
(* a second thread that talks to the upstream, and relays the answer,      *)
(* whole or as a stream.                                                   *)
(*                                                                         *)
(* A request's two threads meet in UpstreamRelay, under its mutex; an      *)
(* action is one critical section of either thread, or the stretch of the  *)
(* handler between two of them when nothing shared is touched there.  A    *)
(* thread of the pool serves one request at a time, so the variables are   *)
(* functions of the thread.  A body is counted in chunks, and an upstream  *)
(* sends at most MaxChunks of them (the length of a generation).           *)
(***************************************************************************)
EXTENDS Admission

CONSTANTS
    HighWater,        \* kRelayHighWaterBytes, in chunks
    MaxChunks,        \* bound on a body
    RejectOnMissing   \* schema.rejectOnMissing

ASSUME RelayAssumption ==
    /\ HighWater \in Nat
    /\ MaxChunks \in Nat
    /\ RejectOnMissing \in BOOLEAN

VARIABLES
    call,      \* where the thread stands in handleProxy()
    model,     \* the model of a POST, NoModel for another method
    relay,     \* the UpstreamRelay
    received,  \* chunks the upstream sent
    scanned,   \* chunks the usage scanner has seen
    written,   \* chunks written downstream
    answer,    \* what the client got
    line       \* the status of the request's ledger line

relayVars == <<call, model, relay, received, scanned, written, answer, line>>

NewRelay == [headersReady |-> FALSE, finished |-> FALSE, succeeded |-> FALSE,
             cancelled |-> FALSE, streaming |-> FALSE, pending |-> 0, whole |-> FALSE]

Working == {"head", "body", "stream", "teardown", "joining"}

\* The upstream thread of t's request runs.
UpstreamBusy(t) == call[t] \in Working /\ ~relay[t].finished

\* Mutant: the wait for room does not end on `cancelled`.
ParkedForGood(t) == relay[t].streaming /\ relay[t].pending > HighWater

\* content_receiver() waits for the provider to drain `pending`.
Parked(t) ==
    /\ relay[t].streaming
    /\ ~relay[t].cancelled
    /\ relay[t].pending > HighWater

\* observe_request(): the bodies that declare a schema; of the others, a tagged
\* POST is refused when rejectOnMissing is set.
Bodies == {"none", "text", "json", "response_format", "grammar", "json_schema"}
DeclaresSchema(body) == body \in {"response_format", "grammar", "json_schema"}
SchemaMissing(tagged, body) == tagged /\ ~DeclaresSchema(body)

RouterInit ==
    /\ Init
    /\ call = [t \in Threads |-> "idle"]
    /\ model = [t \in Threads |-> NoModel]
    /\ relay = [t \in Threads |-> NewRelay]
    /\ received = [t \in Threads |-> 0]
    /\ scanned = [t \in Threads |-> 0]
    /\ written = [t \in Threads |-> 0]
    /\ answer = [t \in Threads |-> "none"]
    /\ line = [t \in Threads |-> "none"]
-----------------------------------------------------------------------------
\* A fresh LedgerGuard and no answer yet; the thread goes to `where`.
Opens(t, m, where) ==
    /\ call' = [call EXCEPT ![t] = where]
    /\ model' = [model EXCEPT ![t] = m]
    /\ relay' = [relay EXCEPT ![t] = NewRelay]
    /\ received' = [received EXCEPT ![t] = 0]
    /\ scanned' = [scanned EXCEPT ![t] = 0]
    /\ written' = [written EXCEPT ![t] = 0]

\* ~LedgerGuard: the request's line is recorded.
Records(t, status_) == line' = [line EXCEPT ![t] = status_]

\* A request that ends without an upstream: its answer and its line.
Refuses(t, m, status_) ==
    /\ Opens(t, m, "done")
    /\ answer' = [answer EXCEPT ![t] = status_]
    /\ Records(t, status_)

Pending(t, m, where) ==
    /\ Opens(t, m, where)
    /\ answer' = [answer EXCEPT ![t] = "none"]
    /\ Records(t, "none")

\* handleProxy() of a method that is never admitted.
TakeGet(t) ==
    /\ call[t] = "idle"
    /\ Pending(t, NoModel, "head")
    /\ UNCHANGED vars

\* The opt-in refusal, before admission.
RefusePost(t) ==
    /\ call[t] = "idle"
    /\ RejectOnMissing
    /\ \E body \in Bodies : SchemaMissing(TRUE, body)
    /\ Refuses(t, NoModel, "400")
    /\ UNCHANGED vars

\* handleProxy() of a POST up to admit()'s answer or its wait: the upstream
\* thread starts, or fails to start, the request waits, or it is shed.
TakePost(t) ==
    /\ call[t] = "idle"
    /\ \E tagged \in BOOLEAN, body \in Bodies : ~(RejectOnMissing /\ SchemaMissing(tagged, body))
    /\ \E m \in Models :
          \/ AdmitNow(t, m) /\ Pending(t, m, "head")
          \/ Overflow(t, m) /\ Refuses(t, m, "503")
          \/ \E tag \in DOMAIN Priorities, group \in Groups \cup {NoGroup} :
                Park(t, m, tag, group) /\ Pending(t, m, "admitting")

\* admit() returns with the slot.
Admitted(t) ==
    /\ call[t] = "admitting"
    /\ Wake(t)
    /\ Pending(t, model[t], "head")

\* admit() returns TimedOut.
TimedOut(t) ==
    /\ call[t] = "admitting"
    /\ TimeOut(t)
    /\ Refuses(t, model[t], "503")
-----------------------------------------------------------------------------
\* The relay's error exits and its whole answers drop the call, which is over,
\* then the slot, then the guard.
ReturnsSlot(t) == IF model[t] = NoModel THEN UNCHANGED vars ELSE Release(t)

Answers(t, status_) ==
    /\ ReturnsSlot(t)
    /\ call' = [call EXCEPT ![t] = "done"]
    /\ answer' = [answer EXCEPT ![t] = status_]
    /\ Records(t, status_)

\* std::thread cannot be spawned.
SpawnFails(t) ==
    /\ call[t] = "head"
    /\ relay[t] = NewRelay
    /\ Answers(t, "502")
    /\ UNCHANGED <<model, relay, received, scanned, written>>

\* response_handler(): the head of the upstream's answer, with a declared length
\* (whole) or without.
UpstreamHead(t) ==
    /\ UpstreamBusy(t)
    /\ ~relay[t].headersReady
    /\ ~relay[t].cancelled
    /\ \E whole \in BOOLEAN :
          relay' = [relay EXCEPT ![t].headersReady = TRUE, ![t].whole = whole]
    /\ UNCHANGED <<vars, call, model, received, scanned, written, answer, line>>

\* content_receiver() up to its wait.
UpstreamChunk(t) ==
    /\ UpstreamBusy(t)
    /\ relay[t].headersReady
    /\ ~relay[t].cancelled
    /\ ~Parked(t)
    /\ received[t] < MaxChunks
    /\ received' = [received EXCEPT ![t] = @ + 1]
    /\ relay' = [relay EXCEPT ![t].pending = @ + 1]
    /\ UNCHANGED <<vars, call, model, scanned, written, answer, line>>

\* client->send() returns.  It fails when a callback saw `cancelled`, and it may
\* fail at any read; a bodyless answer may succeed without a response handler.
UpstreamEnds(t) ==
    /\ UpstreamBusy(t)
    /\ ~Parked(t)
    /\ \E succeeded, whole \in BOOLEAN :
          /\ succeeded /\ relay[t].cancelled => relay[t].headersReady
          /\ relay[t].headersReady => whole = relay[t].whole
          /\ relay' = [relay EXCEPT ![t].finished = TRUE,
                                    ![t].succeeded = succeeded,
                                    ![t].headersReady = @ \/ succeeded,
                                    ![t].whole = whole]
    /\ UNCHANGED <<vars, call, model, received, scanned, written, answer, line>>
-----------------------------------------------------------------------------
\* Mutant: a streaming relay's slot stays on the handler's stack.
HeadArrivesDroppingSlot(t) ==
    /\ call[t] = "head"
    /\ relay[t].headersReady
    /\ call' = [call EXCEPT ![t] = IF relay[t].whole THEN "body" ELSE "stream"]
    /\ relay' = [relay EXCEPT ![t].streaming = ~relay[t].whole]
    /\ answer' = IF relay[t].whole THEN answer ELSE [answer EXCEPT ![t] = "head"]
    /\ IF relay[t].whole THEN UNCHANGED vars ELSE ReturnsSlot(t)
    /\ UNCHANGED <<model, received, scanned, written, line>>

\* Mutant: the line is written when the handler returns, before the stream.
HeadArrivesRecording(t) ==
    /\ call[t] = "head"
    /\ relay[t].headersReady
    /\ call' = [call EXCEPT ![t] = IF relay[t].whole THEN "body" ELSE "stream"]
    /\ relay' = [relay EXCEPT ![t].streaming = ~relay[t].whole]
    /\ answer' = IF relay[t].whole THEN answer ELSE [answer EXCEPT ![t] = "head"]
    /\ IF relay[t].whole THEN UNCHANGED line ELSE Records(t, "200")
    /\ UNCHANGED <<vars, model, received, scanned, written>>

\* relayToUpstream() after its first wait.  Setting `streaming` is a critical
\* section of its own; the upstream thread reads it only once it appends, so its
\* steps between the two are the same before the first.
HeadArrives(t) ==
    /\ call[t] = "head"
    /\ relay[t].headersReady
    /\ call' = [call EXCEPT ![t] = IF relay[t].whole THEN "body" ELSE "stream"]
    /\ relay' = [relay EXCEPT ![t].streaming = ~relay[t].whole]
    /\ answer' = IF relay[t].whole THEN answer ELSE [answer EXCEPT ![t] = "head"]
    /\ UNCHANGED <<vars, model, received, scanned, written, line>>

\* No answer came: the 502 the router mints.
Unreachable(t) ==
    /\ call[t] = "head"
    /\ relay[t].finished
    /\ ~relay[t].headersReady
    /\ Answers(t, "502")
    /\ UNCHANGED <<model, relay, received, scanned, written>>

\* The buffered relay: the whole body, or a 502 when the call failed half-way.
BodyArrives(t) ==
    /\ call[t] = "body"
    /\ relay[t].finished
    /\ relay' = [relay EXCEPT ![t].pending = 0]
    /\ IF relay[t].succeeded
       THEN /\ written' = [written EXCEPT ![t] = relay[t].pending]
            /\ scanned' = [scanned EXCEPT ![t] = relay[t].pending]
            /\ Answers(t, "200")
       ELSE /\ UNCHANGED <<written, scanned>>
            /\ Answers(t, "502")
    /\ UNCHANGED <<model, received>>

\* The provider is destroyed, last capture first: the guard records its line, the
\* slot goes back, and only then is the upstream call torn down.
DropsProvider(t, end) ==
    /\ Records(t, "200")
    /\ ReturnsSlot(t)
    /\ answer' = [answer EXCEPT ![t] = end]
    /\ call' = [call EXCEPT ![t] = "teardown"]

\* The provider's turn: what is pending is scanned and written.
Feeds(t) == scanned' = [scanned EXCEPT ![t] = @ + relay[t].pending]

\* A round that does not end the response.
ProvideChunk(t) ==
    /\ call[t] = "stream"
    /\ relay[t].pending > 0
    /\ ~relay[t].finished
    /\ Feeds(t)
    /\ written' = [written EXCEPT ![t] = @ + relay[t].pending]
    /\ relay' = [relay EXCEPT ![t].pending = 0]
    /\ UNCHANGED <<vars, call, model, received, answer, line>>

\* Mutant: `finished` is taken for success, and the stream is ended cleanly.
ProvideLastCleanly(t) ==
    /\ call[t] = "stream"
    /\ relay[t].finished
    /\ Feeds(t)
    /\ written' = [written EXCEPT ![t] = @ + relay[t].pending]
    /\ relay' = [relay EXCEPT ![t].pending = 0]
    /\ DropsProvider(t, "200")
    /\ UNCHANGED <<model, received>>

\* The last round: the call is over, and its verdict decides how the response ends.
ProvideLast(t) ==
    /\ call[t] = "stream"
    /\ relay[t].finished
    /\ Feeds(t)
    /\ written' = [written EXCEPT ![t] = @ + relay[t].pending]
    /\ relay' = [relay EXCEPT ![t].pending = 0]
    /\ DropsProvider(t, IF relay[t].succeeded THEN "200" ELSE "aborted")
    /\ UNCHANGED <<model, received>>

\* sink.write() fails: the chunk is scanned, not written.
WriteFails(t) ==
    /\ call[t] = "stream"
    /\ relay[t].pending > 0
    /\ Feeds(t)
    /\ relay' = [relay EXCEPT ![t].pending = 0, ![t].cancelled = TRUE]
    /\ DropsProvider(t, "aborted")
    /\ UNCHANGED <<model, received, written>>

\* The connection dies between two rounds, or the listener stops.
ClientLeaves(t) ==
    /\ call[t] = "stream"
    /\ DropsProvider(t, "aborted")
    /\ UNCHANGED <<model, relay, received, scanned, written>>

\* ~UpstreamCall: cancel and shut the socket down, then join.
CancelCall(t) ==
    /\ call[t] = "teardown"
    /\ relay' = [relay EXCEPT ![t].cancelled = TRUE]
    /\ call' = [call EXCEPT ![t] = "joining"]
    /\ UNCHANGED <<vars, model, received, scanned, written, answer, line>>

Join(t) ==
    /\ call[t] = "joining"
    /\ relay[t].finished
    /\ call' = [call EXCEPT ![t] = "done"]
    /\ UNCHANGED <<vars, model, relay, received, scanned, written, answer, line>>

\* The exchange is over and the worker goes back to the pool.
Returns(t) ==
    /\ call[t] = "done"
    /\ Pending(t, NoModel, "idle")
    /\ UNCHANGED vars

Take(t) == TakeGet(t) \/ RefusePost(t) \/ TakePost(t)

Upstream(t) == UpstreamHead(t) \/ UpstreamChunk(t)

Serve(t) ==
    \/ HeadArrives(t) \/ Unreachable(t) \/ BodyArrives(t)
    \/ ProvideChunk(t) \/ ProvideLast(t) \/ CancelCall(t) \/ Join(t) \/ Returns(t)

RouterNext ==
    \E t \in Threads :
        \/ Take(t) \/ Admitted(t) \/ TimedOut(t)
        \/ SpawnFails(t) \/ Upstream(t) \/ UpstreamEnds(t)
        \/ Serve(t) \/ WriteFails(t) \/ ClientLeaves(t)

RouterVars == <<vars, relayVars>>

\* The relay's timeouts end every upstream call, a thread that may go on does, and
\* nothing is assumed of clients, of the upstream's answers or of the deadline.
RouterFairness ==
    \A t \in Threads :
        /\ WF_RouterVars(Admitted(t))
        /\ WF_RouterVars(UpstreamEnds(t))
        /\ WF_RouterVars(Serve(t))

RouterSpec == RouterInit /\ [][RouterNext]_RouterVars /\ RouterFairness
-----------------------------------------------------------------------------
\* An answer that ends cleanly under the upstream's status is the answer the
\* upstream finished, every chunk of it, although the chunks, the verdict and the
\* teardown come from two threads: a generation that failed half-way is a 502 or a
\* cut connection, never a short answer (router.hpp:23-42).
CleanEndIsTheWholeAnswer ==
    \A t \in Threads : answer[t] = "200" =>
        /\ relay[t].succeeded
        /\ written[t] = received[t]

\* Work the router sends upstream for a POST holds a slot of its model, from the
\* admission to the end of the answer, a stream's included; only the call of a
\* provider that was just destroyed runs on without one, until it is joined.
UpstreamWorkIsAdmitted ==
    \A t \in Threads :
        UpstreamBusy(t) /\ model[t] # NoModel /\ call[t] \notin {"teardown", "joining"}
            => status[t] = "holding" /\ slot[t] = model[t]

\* Every request gets one ledger line, when its answer is over: it carries the
\* status the client was given, and a clean stream's line has seen every chunk, the
\* one with the usage included.
OneLineWhenTheAnswerEnds ==
    \A t \in Threads :
          /\ line[t] = "none" <=> call[t] \in {"idle", "admitting", "head", "body", "stream"}
          /\ line[t] # "none" => answer[t] \in {line[t], "aborted"}
          /\ line[t] = "200" /\ answer[t] = "200" => scanned[t] = received[t]

\* A listener thread comes back from every request, whatever the client and the
\* upstream do: back-pressure, a cancelled stream and a queue never wait on each
\* other, so a pool full of relays that pass no admission still drains.
EveryThreadComesBack ==
    \A t \in Threads : call[t] # "idle" ~> call[t] = "idle"
=============================================================================
