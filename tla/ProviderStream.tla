--------------------------- MODULE ProviderStream ---------------------------
(***************************************************************************)
(* One Provider call of the workflow (OpenAIStoryModel._call and           *)
(* _call_text): up to MaxAttempts requests, each a stream read by a worker *)
(* thread of its own that hands events to the waiting caller through a     *)
(* queue, until the answer ends, breaks, or a deadline passes.             *)
(*                                                                         *)
(* A request is named by its seed.  Time counts from the last event and    *)
(* from the last progress report; both stop at the delay the caller waits  *)
(* for.  The server may send, pause, finish, cut or break an answer as it  *)
(* likes, also after the caller has given the request up.                  *)
(***************************************************************************)
EXTENDS Naturals, Sequences

CONSTANTS
    MaxRequests,    \* bound on the requests of one command
    MaxAttempts,    \* retry.max_attempts
    Parts,          \* bound on the content chunks of an answer
    QueueBound,     \* bound on the chunks that wait in a queue
    FirstTimeout, IdleTimeout, ReportInterval   \* in ticks

ASSUME ProviderAssumption ==
    /\ MaxAttempts \in Nat \ {0}
    /\ MaxRequests \in Nat
    /\ MaxRequests >= MaxAttempts
    /\ Parts \in Nat
    /\ QueueBound \in Nat \ {0}
    /\ {FirstTimeout, IdleTimeout, ReportInterval} \subseteq Nat \ {0}

Requests == 1 .. MaxRequests
-----------------------------------------------------------------------------
VARIABLES
    (* the caller *)
    pc, kind, attempt,
    seed,       \* _seed_sequence, the request the caller works on
    content,    \* rec.content
    error,      \* rec.error is set
    received,   \* received_event
    quiet,      \* time since the deadline was last put off
    unreported, \* time since the last progress report
    (* each request *)
    answer,     \* what the server does with it
    sent,       \* content chunks the worker got out of the iterator
    worker,     \* the state of its thread
    events,     \* its queue
    stop        \* its stop_requested

caller == <<pc, kind, attempt, seed, content, error, received>>
clock == <<quiet, unreported>>
requests == <<answer, sent, worker, events, stop>>
vars == <<caller, clock, requests>>

Thinking == 0   \* a chunk without content
Event == [kind : {"chunk"}, request : Requests, part : 0 .. Parts]
         \cup [kind : {"error", "done"}, request : Requests]
Ended == {"returned", "failed"}

TypeOK ==
    /\ pc \in {"idle", "request", "wait", "woken", "close", "judge"} \cup Ended
    /\ kind \in {"json", "text"}
    /\ attempt \in 0 .. MaxAttempts
    /\ seed \in 0 .. MaxRequests
    /\ content \in Seq(Requests \X (1 .. Parts))
    /\ error \in BOOLEAN
    /\ received \in BOOLEAN
    /\ quiet \in Nat
    /\ unreported \in 0 .. ReportInterval
    /\ answer \in [Requests -> {"none", "open", "whole", "cut", "broken"}]
    /\ sent \in [Requests -> 0 .. Parts]
    /\ worker \in [Requests -> {"none", "reading", "holding", "thinking",
                                "ended", "finished"}]
    /\ events \in [Requests -> Seq(Event)]
    /\ stop \in [Requests -> BOOLEAN]

Init ==
    /\ pc = "idle"
    /\ kind = "json"
    /\ attempt = 0
    /\ seed = 0
    /\ content = <<>>
    /\ error = FALSE
    /\ received = FALSE
    /\ quiet = 0
    /\ unreported = 0
    /\ answer = [r \in Requests |-> "none"]
    /\ sent = [r \in Requests |-> 0]
    /\ worker = [r \in Requests |-> "none"]
    /\ events = [r \in Requests |-> <<>>]
    /\ stop = [r \in Requests |-> FALSE]

Deadline == IF received THEN IdleTimeout ELSE FirstTimeout
-----------------------------------------------------------------------------
(* The worker: it takes a chunk out of the iterator, looks at the flag and *)
(* puts the chunk into the queue, in this order; "done" is always last.    *)

Put(r, e) == events' = [events EXCEPT ![r] = Append(@, e)]

\* The iterator yields a content chunk, or one without content.
Yield(r, state) ==
    /\ worker[r] = "reading"
    /\ answer[r] = "open"
    /\ worker' = [worker EXCEPT ![r] = state]

YieldContent(r) ==
    /\ sent[r] < Parts
    /\ Yield(r, "holding")
    /\ sent' = [sent EXCEPT ![r] = @ + 1]
    /\ UNCHANGED <<caller, clock, answer, events, stop>>

YieldThinking(r) ==
    /\ Yield(r, "thinking")
    /\ UNCHANGED <<caller, clock, answer, sent, events, stop>>

\* stop_requested is looked at once the chunk is out of the iterator.
Hand(r) ==
    /\ worker[r] \in {"holding", "thinking"}
    /\ Len(events[r]) < QueueBound
    /\ IF stop[r]
       THEN /\ worker' = [worker EXCEPT ![r] = "ended"]
            /\ UNCHANGED events
       ELSE /\ worker' = [worker EXCEPT ![r] = "reading"]
            /\ Put(r, [kind |-> "chunk", request |-> r,
                       part |-> IF worker[r] = "holding" THEN sent[r]
                                ELSE Thinking])
    /\ UNCHANGED <<caller, clock, answer, sent, stop>>

\* The iterator stops: the answer is whole, or the server cut it.
StreamEnds(r) ==
    /\ worker[r] = "reading"
    /\ answer[r] = "open"
    /\ \E how \in {"whole", "cut"} : answer' = [answer EXCEPT ![r] = how]
    /\ worker' = [worker EXCEPT ![r] = "ended"]
    /\ UNCHANGED <<caller, clock, sent, events, stop>>

\* The iterator raises.
StreamBreaks(r) ==
    /\ worker[r] = "reading"
    /\ answer[r] = "open"
    /\ answer' = [answer EXCEPT ![r] = "broken"]
    /\ Put(r, [kind |-> "error", request |-> r])
    /\ worker' = [worker EXCEPT ![r] = "ended"]
    /\ UNCHANGED <<caller, clock, sent, stop>>

Finish(r) ==
    /\ worker[r] = "ended"
    /\ Put(r, [kind |-> "done", request |-> r])
    /\ worker' = [worker EXCEPT ![r] = "finished"]
    /\ UNCHANGED <<caller, clock, answer, sent, stop>>

Worker(r) == YieldContent(r) \/ YieldThinking(r) \/ Hand(r)
             \/ StreamEnds(r) \/ StreamBreaks(r) \/ Finish(r)
-----------------------------------------------------------------------------
(* The caller. *)

\* The stage asks for the next document or prose.
Begin ==
    /\ pc \in {"idle", "returned"}
    /\ seed + MaxAttempts <= MaxRequests
    /\ kind' \in {"json", "text"}
    /\ attempt' = 0
    /\ pc' = "request"
    /\ UNCHANGED <<seed, content, error, received, clock, requests>>

\* A new record and a new seed for each attempt.
NewRecord ==
    /\ attempt' = attempt + 1
    /\ seed' = seed + 1
    /\ content' = <<>>
    /\ received' = FALSE
    /\ quiet' = 0
    /\ unreported' = 0

\* The Provider accepts the request and its worker starts to read.
Open ==
    /\ pc = "request"
    /\ NewRecord
    /\ error' = FALSE
    /\ answer' = [answer EXCEPT ![seed + 1] = "open"]
    /\ worker' = [worker EXCEPT ![seed + 1] = "reading"]
    /\ pc' = "wait"
    /\ UNCHANGED <<kind, sent, events, stop>>

\* create raises: no connection, a refusal, or its own timeout.
OpenFails ==
    /\ pc = "request"
    /\ NewRecord
    /\ error' = TRUE
    /\ pc' = "judge"
    /\ UNCHANGED <<kind, requests>>

\* The queue of the request the caller waits for.
Source == seed

Waiting == pc = "wait" /\ events[Source] # <<>>
NextIs(k) == Waiting /\ Head(events[Source]).kind = k
Drop == events' = [events EXCEPT ![Source] = Tail(@)]

TakeChunk ==
    /\ NextIs("chunk")
    /\ LET e == Head(events[Source])
       IN  content' = IF e.part = Thinking THEN content
                      ELSE Append(content, <<e.request, e.part>>)
    /\ Drop
    /\ received' = TRUE
    /\ quiet' = 0
    /\ UNCHANGED <<pc, kind, attempt, seed, error, unreported,
                   answer, sent, worker, stop>>

TakeError ==
    /\ NextIs("error")
    /\ Drop
    /\ error' = TRUE
    /\ pc' = "close"
    /\ UNCHANGED <<kind, attempt, seed, content, received, clock,
                   answer, sent, worker, stop>>

TakeDone ==
    /\ NextIs("done")
    /\ Drop
    /\ pc' = "close"
    /\ UNCHANGED <<kind, attempt, seed, content, error, received, clock,
                   answer, sent, worker, stop>>

\* get found nothing until the deadline or the next report.
Wake ==
    /\ pc = "wait"
    /\ events[Source] = <<>>
    /\ quiet >= Deadline \/ unreported = ReportInterval
    /\ pc' = "woken"
    /\ UNCHANGED <<kind, attempt, seed, content, error, received, clock,
                   requests>>

\* The deadline is looked at again after get gave up; an event that came
\* in between is not.
TimesOut ==
    /\ pc = "woken"
    /\ quiet >= Deadline
    /\ error' = TRUE
    /\ pc' = "close"
    /\ UNCHANGED <<kind, attempt, seed, content, received, clock,
                   requests>>

\* A plausible slip: a report counts as a sign of life.
ReportsAndWaits ==
    /\ pc = "woken"
    /\ quiet < Deadline
    /\ unreported' = 0
    /\ quiet' = 0
    /\ pc' = "wait"
    /\ UNCHANGED <<kind, attempt, seed, content, error, received,
                   requests>>

\* The report leaves the deadline where it is.
Reports ==
    /\ pc = "woken"
    /\ quiet < Deadline
    /\ unreported' = 0
    /\ pc' = "wait"
    /\ UNCHANGED <<kind, attempt, seed, content, error, received, quiet,
                   requests>>

\* The flag is set and the stream closed; the worker is joined for a moment
\* and otherwise left behind.
Close ==
    /\ pc = "close"
    /\ stop' = [stop EXCEPT ![seed] = TRUE]
    /\ pc' = "judge"
    /\ UNCHANGED <<kind, attempt, seed, content, error, received, clock,
                   answer, sent, worker, events>>

\* A plausible slip: the content of a broken request is looked at.
UsableAnyway ==
    /\ content # <<>>
    /\ kind = "json" => answer[seed] = "whole"

\* json.loads refuses what was cut, a text is only looked at for being blank.
Usable ==
    /\ ~error
    /\ content # <<>>
    /\ kind = "json" => answer[seed] = "whole"

Return ==
    /\ pc = "judge"
    /\ Usable
    /\ pc' = "returned"
    /\ UNCHANGED <<kind, attempt, seed, content, error, received, clock,
                   requests>>

Attempts == MaxAttempts

\* A transport error, or an answer that is not what was asked for (any answer
\* may be: not an object, or blank).
Retry ==
    /\ pc = "judge"
    /\ attempt < Attempts
    /\ pc' = "request"
    /\ UNCHANGED <<kind, attempt, seed, content, error, received, clock,
                   requests>>

\* LLMCallError ends the command, and with it the process.
Fail ==
    /\ pc = "judge"
    /\ attempt = Attempts
    /\ pc' = "failed"
    /\ UNCHANGED <<kind, attempt, seed, content, error, received, clock,
                   requests>>

\* Time passes while the caller waits.
Tick ==
    /\ pc \in {"wait", "woken"}
    /\ quiet < Deadline \/ unreported < ReportInterval
    /\ quiet' = IF quiet < Deadline THEN quiet + 1 ELSE quiet
    /\ unreported' = IF unreported < ReportInterval THEN unreported + 1
                     ELSE unreported
    /\ UNCHANGED <<caller, requests>>

Caller == Begin \/ Open \/ OpenFails \/ TakeChunk \/ TakeError \/ TakeDone
          \/ Wake \/ TimesOut \/ Reports \/ Close \/ Return \/ Retry \/ Fail

\* The process has ended its last call.
Finished ==
    /\ \/ pc = "failed"
       \/ pc = "returned" /\ seed + MaxAttempts > MaxRequests
    /\ UNCHANGED vars

Next == Caller \/ Tick \/ Finished \/ \E r \in Requests : Worker(r)

(***************************************************************************)
(* The caller's thread runs and time passes; nothing is assumed of the     *)
(* server, nor of the workers, which may hang in the iterator for ever.    *)
(***************************************************************************)
Spec == Init /\ [][Next]_vars /\ WF_vars(Caller) /\ WF_vars(Tick)
-----------------------------------------------------------------------------
(* Properties. *)

\* The one way to take a part for the whole: prose whose stream stops early
\* without an error.  _call_text asks only that the text is not blank, and
\* nobody looks at finish_reason.  LLM_INTEGRATION.md, sections 106 and 107,
\* has an interrupted stream retried and never promoted to a prose Candidate.
CutText == kind = "text" /\ answer[seed] = "cut"

\* What a call returns is one whole answer: everything the server sent on one
\* request that ended without an error or a timeout, in its order and none of
\* it twice, and no chunk of a request given up earlier, whatever the threads
\* left behind still put into their queues; but for CutText, where it is all
\* that was sent of one answer (_call, _call_text, _consume_stream).
ValueIsOneAnswer ==
    pc = "returned" =>
        /\ content = [i \in 1 .. sent[seed] |-> <<seed, i>>]
        /\ answer[seed] = "whole" \/ CutText

\* A call ends, whatever hangs: unless the server keeps sending for ever, the
\* caller leaves every request, although the worker may never leave the
\* iterator (the reason for the worker and for both deadlines).
SilentServerIsLeft ==
    \/ []<><<\E r \in Requests : YieldThinking(r)>>_vars
    \/ pc = "request" ~> pc \in Ended
-----------------------------------------------------------------------------
(* What the stage that makes the call sees of it.                          *)

Phase == IF pc \in {"idle"} \cup Ended THEN pc ELSE "asked"
Returned ==
    IF pc = "returned" THEN [parts |-> content, whole |-> answer[seed] = "whole"]
    ELSE <<>>

Atomic == INSTANCE AtomicCall WITH
            Limit <- MaxAttempts,
            Unasked <- <<>>,
            phase <- Phase,
            wanted <- kind,
            tries <- attempt,
            latest <- seed,
            value <- Returned

\* With all its threads, queues and deadlines a call is a few requests and the
\* answer to the last of them, which no thread left behind changes later.
ImplementsAtomicCall == Atomic!CallSpec
=============================================================================
