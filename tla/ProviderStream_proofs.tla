------------------------ MODULE ProviderStream_proofs ------------------------
(***************************************************************************)
(* Theorems about ProviderStream, for any number of requests and attempts, *)
(* any length of an answer and of a queue, and any deadlines.              *)
(*                                                                         *)
(* The caller never counts: that what it joined is the whole answer rests  *)
(* on the order of the queue it reads, on "done" being last in it, and on  *)
(* the seed naming a queue no earlier request writes to.                   *)
(***************************************************************************)
EXTENDS ProviderStream, TLAPS

\* A chunk that adds to the value.
Content(e) == e.kind = "chunk" /\ e.part # Thinking

\* The content chunks waiting in q are those after the first low ones up to
\* the one numbered high, of request r, in their order.
Orderly(q, r, low, high) ==
    /\ \A i \in DOMAIN q :
          Content(q[i]) => q[i].request = r /\ q[i].part \in low + 1 .. high
    /\ \A i, j \in DOMAIN q :
          i < j /\ Content(q[i]) /\ Content(q[j]) => q[i].part < q[j].part
    /\ \A p \in low + 1 .. high :
          \E i \in DOMAIN q : Content(q[i]) /\ q[i].part = p

\* What the worker of the current request has put into its queue.
Handed == IF worker[seed] = "holding" THEN sent[seed] - 1 ELSE sent[seed]

\* The attempts left fit into the requests left.
Budget ==
    pc \notin {"idle"} \cup Ended =>
        /\ seed + MaxAttempts <= MaxRequests + attempt
        /\ pc = "request" => attempt < MaxAttempts
        /\ pc # "request" => seed \in Requests

\* Nobody works on a request before the caller does.
Untouched ==
    \A r \in Requests : r > seed =>
        /\ answer[r] = "none" /\ worker[r] = "none" /\ sent[r] = 0
        /\ events[r] = <<>> /\ ~stop[r]

\* While the caller waits, what it joined and what is in the queue are all
\* the worker handed over, and the queue still holds how the answer ended.
Reading ==
    pc \in {"wait", "woken"} =>
        /\ ~error /\ ~stop[seed]
        /\ worker[seed] # "none"
        /\ worker[seed] \in {"reading", "holding", "thinking"} <=>
                answer[seed] = "open"
        /\ worker[seed] \in {"ended", "finished"} <=>
                answer[seed] \in {"whole", "cut", "broken"}
        /\ worker[seed] = "holding" => sent[seed] > 0
        /\ \A i \in DOMAIN events[seed] : events[seed][i].kind = "done" =>
                i = Len(events[seed]) /\ worker[seed] = "finished"
        /\ answer[seed] = "broken" =>
                \E i \in DOMAIN events[seed] : events[seed][i].kind = "error"
        /\ \A i \in DOMAIN content : content[i] = <<seed, i>>
        /\ Len(content) <= Handed
        /\ Orderly(events[seed], seed, Len(content), Handed)

\* An answer left without an error is read to its end, and stays as it is.
Answered ==
    pc = "returned" \/ (pc \in {"close", "judge"} /\ ~error) =>
        /\ seed \in Requests
        /\ worker[seed] = "finished"
        /\ answer[seed] \in {"whole", "cut"}
        /\ content = [i \in 1 .. sent[seed] |-> <<seed, i>>]

\* A document was read to its end.
Judged == pc = "returned" /\ kind = "json" => answer[seed] = "whole"

\* The inductive invariant.
Inductive ==
    TypeOK /\ Budget /\ Untouched /\ Reading /\ Answered /\ Judged
-----------------------------------------------------------------------------
\* The worker puts the next content chunk, or something else, at the end.
LEMMA ContentIsPut ==
    ASSUME NEW q \in Seq(Event), NEW r \in Requests, NEW low \in Nat,
           NEW high \in Nat, low <= high, NEW e \in Event,
           Orderly(q, r, low, high),
           Content(e), e.request = r, e.part = high + 1
    PROVE  Orderly(Append(q, e), r, low, high + 1)
<1> DEFINE a == Append(q, e)
<1>1. /\ DOMAIN a = DOMAIN q \cup {Len(q) + 1}
      /\ \A i \in DOMAIN q : a[i] = q[i] /\ i \in Nat /\ i < Len(q) + 1
      /\ a[Len(q) + 1] = e /\ Len(q) \in Nat
  OBVIOUS
<1> HIDE DEF a
<1>2. \A i \in DOMAIN a : Content(a[i]) =>
          a[i].request = r /\ a[i].part \in low + 1 .. high + 1
  BY <1>1 DEF Orderly
<1>3. \A i, j \in DOMAIN a :
          i < j /\ Content(a[i]) /\ Content(a[j]) => a[i].part < a[j].part
  BY <1>1 DEF Orderly
<1>4. \A p \in low + 1 .. high + 1 :
          \E i \in DOMAIN a : Content(a[i]) /\ a[i].part = p
  BY <1>1 DEF Orderly
<1>5. QED
  BY <1>2, <1>3, <1>4 DEF Orderly, a

\* An event that is no part may be put at the end of a queue,
LEMMA OtherIsPut ==
    ASSUME NEW q \in Seq(Event), NEW r \in Requests, NEW low \in Nat,
           NEW high \in Nat, NEW e \in Event,
           Orderly(q, r, low, high), ~Content(e)
    PROVE  Orderly(Append(q, e), r, low, high)
<1> DEFINE a == Append(q, e)
<1>1. /\ DOMAIN a = DOMAIN q \cup {Len(q) + 1}
      /\ \A i \in DOMAIN q : a[i] = q[i]
      /\ a[Len(q) + 1] = e
  OBVIOUS
<1> HIDE DEF a
<1>2. \A p \in low + 1 .. high :
          \E i \in DOMAIN a : Content(a[i]) /\ a[i].part = p
  BY <1>1 DEF Orderly
<1>3. QED
  BY <1>1, <1>2 DEF Orderly, a

\* The first content chunk in the queue is the next one of the answer.
LEMMA ContentIsTaken ==
    ASSUME NEW q \in Seq(Event), NEW r \in Requests, NEW low \in Nat,
           NEW high \in Nat, Orderly(q, r, low, high),
           q # <<>>, Content(Head(q))
    PROVE  /\ low + 1 <= high
           /\ Head(q).request = r /\ Head(q).part = low + 1
           /\ Orderly(Tail(q), r, low + 1, high)
<1> DEFINE t == Tail(q)
<1>1. /\ 1 \in DOMAIN q /\ Head(q) = q[1]
      /\ \A i \in DOMAIN t : i + 1 \in DOMAIN q /\ t[i] = q[i + 1] /\ i + 1 > 1
      /\ \A i \in DOMAIN q : i = 1 \/ (i - 1 \in DOMAIN t /\ t[i - 1] = q[i] /\ i > 1)
      /\ \A i \in DOMAIN t : i \in Nat
      /\ \A i \in DOMAIN q : i \in Nat
  OBVIOUS
<1> HIDE DEF t
<1>2. Head(q).request = r /\ Head(q).part \in low + 1 .. high
  BY <1>1 DEF Orderly
<1>3. low + 1 <= high
  BY <1>2
<1>4. Head(q).part = low + 1
  <2>1. PICK i \in DOMAIN q : Content(q[i]) /\ q[i].part = low + 1
    BY <1>3 DEF Orderly
  <2>2. i = 1 \/ Head(q).part < low + 1
    BY <1>1, <2>1 DEF Orderly
  <2>3. QED
    BY <1>1, <1>2, <2>1, <2>2
<1>5. \A i \in DOMAIN t : Content(t[i]) =>
          t[i].request = r /\ t[i].part \in low + 1 + 1 .. high
  BY <1>1, <1>4 DEF Orderly
<1>6. \A i, j \in DOMAIN t :
          i < j /\ Content(t[i]) /\ Content(t[j]) => t[i].part < t[j].part
  BY <1>1 DEF Orderly
<1>7. \A p \in low + 1 + 1 .. high :
          \E i \in DOMAIN t : Content(t[i]) /\ t[i].part = p
  <2>1. SUFFICES ASSUME NEW p \in low + 1 + 1 .. high
                 PROVE  \E i \in DOMAIN t : Content(t[i]) /\ t[i].part = p
    OBVIOUS
  <2>2. p \in low + 1 .. high /\ p # low + 1
    BY <2>1
  <2>3. PICK i \in DOMAIN q : Content(q[i]) /\ q[i].part = p
    BY <2>2 DEF Orderly
  <2>4. i - 1 \in DOMAIN t /\ t[i - 1] = q[i]
    BY <1>1, <1>4, <2>2, <2>3
  <2>5. QED
    BY <2>3, <2>4
<1>8. QED
  BY <1>2, <1>3, <1>4, <1>5, <1>6, <1>7 DEF Orderly, t

\* and taken from its front.
LEMMA OtherIsTaken ==
    ASSUME NEW q \in Seq(Event), NEW r \in Requests, NEW low \in Nat,
           NEW high \in Nat, Orderly(q, r, low, high),
           q # <<>>, ~Content(Head(q))
    PROVE  Orderly(Tail(q), r, low, high)
<1> DEFINE t == Tail(q)
<1>1. /\ Head(q) = q[1]
      /\ \A i \in DOMAIN t : i + 1 \in DOMAIN q /\ t[i] = q[i + 1]
      /\ \A i \in DOMAIN q : i = 1 \/ (i - 1 \in DOMAIN t /\ t[i - 1] = q[i])
      /\ \A i \in DOMAIN t : i \in Nat
  OBVIOUS
<1> HIDE DEF t
<1>2. \A i, j \in DOMAIN t :
          i < j /\ Content(t[i]) /\ Content(t[j]) => t[i].part < t[j].part
  BY <1>1 DEF Orderly
<1>3. \A p \in low + 1 .. high :
          \E i \in DOMAIN t : Content(t[i]) /\ t[i].part = p
  <2>1. SUFFICES ASSUME NEW p \in low + 1 .. high
                 PROVE  \E i \in DOMAIN t : Content(t[i]) /\ t[i].part = p
    OBVIOUS
  <2>2. PICK i \in DOMAIN q : Content(q[i]) /\ q[i].part = p
    BY DEF Orderly
  <2>3. i - 1 \in DOMAIN t /\ t[i - 1] = q[i]
    BY <1>1, <2>2
  <2>4. QED
    BY <2>2, <2>3
<1>4. QED
  BY <1>1, <1>2, <1>3 DEF Orderly, t

-----------------------------------------------------------------------------
\* What the constants are.
LEMMA Numbers ==
    /\ MaxAttempts \in Nat \ {0} /\ MaxRequests \in Nat /\ Parts \in Nat
    /\ FirstTimeout \in Nat \ {0} /\ IdleTimeout \in Nat \ {0}
    /\ ReportInterval \in Nat \ {0}
  BY ProviderAssumption

\* The call starts with no request and every queue empty.
LEMMA InitInductive == Init => Inductive
<1> SUFFICES ASSUME Init PROVE Inductive
  OBVIOUS
<1>1. TypeOK
  <2>1. /\ attempt \in 0 .. MaxAttempts /\ seed \in 0 .. MaxRequests
        /\ quiet \in Nat /\ unreported \in 0 .. ReportInterval
        /\ sent \in [Requests -> 0 .. Parts]
    BY Numbers DEF Init
  <2>2. content \in Seq(Requests \X (1 .. Parts))
    BY DEF Init
  <2>3. events \in [Requests -> Seq(Event)]
    BY DEF Init
  <2>4. QED
    BY <2>1, <2>2, <2>3 DEF Init, TypeOK
<1>2. Budget /\ Untouched /\ Reading /\ Answered /\ Judged
  BY DEF Init, Budget, Untouched, Reading, Answered, Judged, Ended
<1>3. QED
  BY <1>1, <1>2 DEF Inductive

\* A worker left behind writes to its own queue, which nobody reads.
LEMMA OtherWorkerInductive ==
    ASSUME Inductive, NEW r \in Requests, r # seed, Worker(r), TypeOK'
    PROVE  Inductive'
<1> USE DEF Inductive
<1>1. /\ worker[r] # "none" /\ UNCHANGED <<caller, clock, stop>>
      /\ \A q \in Requests \ {r} :
            /\ answer'[q] = answer[q] /\ sent'[q] = sent[q]
            /\ worker'[q] = worker[q] /\ events'[q] = events[q]
  BY DEF Worker, YieldContent, YieldThinking, Yield, Hand, StreamEnds,
     StreamBreaks, Finish, Put, TypeOK
<1>2. r < seed /\ seed \in Nat
  BY <1>1 DEF Untouched, Requests, TypeOK
<1>3. Untouched'
  BY <1>1, <1>2 DEF Untouched, caller
<1>4. Budget'
  BY <1>1 DEF Budget, caller
<1>5. pc \notin {"idle", "request"} \cup Ended => seed \in Requests
  BY DEF Budget
<1>6. Reading'
  BY <1>1, <1>5 DEF Reading, Handed, caller, Ended
<1>7. Answered' /\ Judged'
  BY <1>1 DEF Answered, Judged, caller
<1>8. QED
  BY <1>3, <1>4, <1>6, <1>7

\* Types of a step of a worker.
LEMMA WorkerTypes ==
    ASSUME TypeOK, NEW r \in Requests, Worker(r)
    PROVE  TypeOK'
<1>1. /\ UNCHANGED <<caller, clock, stop>>
      /\ answer' \in [Requests -> {"none", "open", "whole", "cut", "broken"}]
      /\ sent' \in [Requests -> 0 .. Parts]
      /\ worker' \in [Requests -> {"none", "reading", "holding", "thinking",
                                   "ended", "finished"}]
  <2>1. UNCHANGED <<caller, clock, stop>>
    BY DEF Worker, YieldContent, YieldThinking, Hand, StreamEnds,
       StreamBreaks, Finish
  <2>2. \/ answer' = answer
        \/ \E how \in {"whole", "cut", "broken"} :
              answer' = [answer EXCEPT ![r] = how]
    BY DEF Worker, YieldContent, YieldThinking, Hand, StreamEnds,
       StreamBreaks, Finish
  <2>3. sent' \in [Requests -> 0 .. Parts]
    <3>1. \/ sent' = sent
          \/ sent[r] < Parts /\ sent' = [sent EXCEPT ![r] = @ + 1]
      BY DEF Worker, YieldContent, YieldThinking, Hand, StreamEnds,
         StreamBreaks, Finish
    <3>2. sent[r] < Parts => sent[r] + 1 \in 0 .. Parts
      BY Numbers DEF TypeOK
    <3>3. QED
      BY <3>1, <3>2 DEF TypeOK
  <2>4. \E state \in {"reading", "holding", "thinking", "ended", "finished"} :
            worker' = [worker EXCEPT ![r] = state]
    BY DEF Worker, YieldContent, YieldThinking, Yield, Hand, StreamEnds,
       StreamBreaks, Finish
  <2>5. QED
    BY <2>1, <2>2, <2>3, <2>4 DEF TypeOK
<1>2. events' \in [Requests -> Seq(Event)]
  <2>1. [kind |-> "error", request |-> r] \in Event
        /\ [kind |-> "done", request |-> r] \in Event
    BY DEF Event
  <2>2. \A p \in 0 .. Parts :
            [kind |-> "chunk", request |-> r, part |-> p] \in Event
    BY DEF Event
  <2>3. sent[r] \in 0 .. Parts /\ Thinking \in 0 .. Parts
    BY ProviderAssumption DEF TypeOK, Thinking
  <2>4. \/ events' = events
        \/ \E e \in Event : Put(r, e)
    BY <2>1, <2>2, <2>3 DEF Worker, YieldContent, YieldThinking, Yield, Hand,
       StreamEnds, StreamBreaks, Finish
  <2>5. \A e \in Event : Put(r, e) => events' \in [Requests -> Seq(Event)]
    BY DEF Put, TypeOK
  <2>6. QED
    BY <2>4, <2>5 DEF TypeOK
<1>3. QED
  BY <1>1, <1>2 DEF TypeOK, caller, clock

\* The worker of the current request hands its chunks over in their order,
\* "error" when the answer breaks and "done" when it is through.
LEMMA CurrentWorkerInductive ==
    ASSUME Inductive, seed \in Requests, Worker(seed)
    PROVE  Inductive'
<1> USE DEF Inductive
<1>1. TypeOK'
  BY WorkerTypes
<1>2. UNCHANGED <<caller, clock, stop>>
  BY DEF Worker, YieldContent, YieldThinking, Hand, StreamEnds, StreamBreaks,
     Finish
<1>3. /\ worker[seed] \notin {"none", "finished"}
      /\ \A q \in Requests \ {seed} :
            /\ answer'[q] = answer[q] /\ sent'[q] = sent[q]
            /\ worker'[q] = worker[q] /\ events'[q] = events[q]
  BY DEF Worker, YieldContent, YieldThinking, Yield, Hand, StreamEnds,
     StreamBreaks, Finish, Put, TypeOK
<1>4. Budget'
  BY <1>2 DEF Budget, caller
<1>5. Untouched'
  BY <1>2, <1>3 DEF Untouched, caller, Requests
<1>6. Answered' /\ Judged'
  <2>1. ~(pc = "returned" \/ (pc \in {"close", "judge"} /\ ~error))
    BY <1>3 DEF Answered
  <2>2. QED
    BY <1>2, <2>1 DEF Answered, Judged, caller
<1>7. Reading'
  <2>1. SUFFICES ASSUME pc \in {"wait", "woken"} PROVE Reading'
    BY <1>2 DEF Reading, caller
  <2> DEFINE q == events[seed]
             low == Len(content)
  <2>2. /\ q \in Seq(Event) /\ low \in Nat /\ sent[seed] \in Nat
        /\ Handed \in Nat /\ low <= Handed
        /\ worker[seed] = "holding" => Handed + 1 = sent[seed]
        /\ worker[seed] # "holding" => Handed = sent[seed]
        /\ Orderly(q, seed, low, Handed)
        /\ \A i \in DOMAIN q : q[i].kind # "done"
        /\ ~stop[seed]
    BY <1>3, <2>1, Numbers DEF Reading, Handed, TypeOK
  <2>3. /\ UNCHANGED <<pc, seed, content, error, stop>>
        /\ \A i \in DOMAIN content : content[i] = <<seed, i>>
        /\ ~error
    BY <1>2, <2>1 DEF Reading, caller
  <2>4. /\ worker[seed] \in {"reading", "holding", "thinking"} <=>
                answer[seed] = "open"
        /\ worker[seed] \in {"ended", "finished"} <=>
                answer[seed] \in {"whole", "cut", "broken"}
        /\ worker[seed] = "holding" => sent[seed] > 0
        /\ answer[seed] = "broken" =>
                \E i \in DOMAIN q : q[i].kind = "error"
    BY <2>1 DEF Reading
  <2>5. CASE YieldContent(seed)
    <3>1. /\ worker[seed] = "reading" /\ worker'[seed] = "holding"
          /\ sent'[seed] = sent[seed] + 1 /\ answer[seed] = "open"
          /\ UNCHANGED <<answer, events>>
      BY <2>5 DEF YieldContent, Yield, TypeOK
    <3>2. Handed' = Handed
      BY <2>2, <2>3, <3>1 DEF Handed
    <3>3. QED
      BY <2>2, <2>3, <2>4, <3>1, <3>2 DEF Reading
  <2>6. CASE YieldThinking(seed)
    <3>1. /\ worker[seed] = "reading" /\ worker'[seed] = "thinking"
          /\ answer[seed] = "open" /\ UNCHANGED <<answer, events, sent>>
      BY <2>6 DEF YieldThinking, Yield, TypeOK
    <3>2. Handed' = Handed
      BY <2>2, <2>3, <3>1 DEF Handed
    <3>3. QED
      BY <2>2, <2>3, <2>4, <3>1, <3>2 DEF Reading
  <2>7. CASE Hand(seed)
    <3> DEFINE e == [kind |-> "chunk", request |-> seed,
                     part |-> IF worker[seed] = "holding" THEN sent[seed]
                              ELSE Thinking]
    <3>1. /\ worker[seed] \in {"holding", "thinking"}
          /\ worker'[seed] = "reading"
          /\ events'[seed] = Append(q, e)
          /\ UNCHANGED <<answer, sent>>
      BY <2>2, <2>7 DEF Hand, Put, TypeOK
    <3>2. e \in Event /\ e.kind = "chunk" /\ e.request = seed
      BY Numbers DEF Event, TypeOK, Thinking
    <3>3. Handed' = sent[seed]
      BY <2>3, <3>1 DEF Handed
    <3>4. Orderly(Append(q, e), seed, low, Handed') /\ low <= Handed'
      <4>1. CASE worker[seed] = "holding"
        <5>1. e.part = Handed + 1 /\ Content(e)
          BY <2>2, <2>4, <4>1 DEF Content, Thinking
        <5>2. Orderly(Append(q, e), seed, low, Handed + 1)
          BY <2>2, <3>2, <5>1, ContentIsPut
        <5>3. QED
          BY <2>2, <3>3, <4>1, <5>2
      <4>2. CASE worker[seed] = "thinking"
        <5>1. ~Content(e)
          BY <4>2 DEF Content
        <5>2. Orderly(Append(q, e), seed, low, Handed)
          BY <2>2, <3>2, <5>1, OtherIsPut
        <5>3. QED
          BY <2>2, <3>3, <4>2, <5>2
      <4>3. QED
        BY <3>1, <4>1, <4>2
    <3>5. /\ \A i \in DOMAIN Append(q, e) : Append(q, e)[i].kind # "done"
          /\ answer[seed] = "open"
      BY <2>2, <2>4, <3>1, <3>2
    <3>6. QED
      BY <2>2, <2>3, <2>4, <3>1, <3>4, <3>5 DEF Reading
  <2>8. CASE StreamEnds(seed)
    <3>1. /\ worker[seed] = "reading" /\ worker'[seed] = "ended"
          /\ answer'[seed] \in {"whole", "cut"}
          /\ UNCHANGED <<events, sent>>
      BY <2>8 DEF StreamEnds, TypeOK
    <3>2. Handed' = Handed
      BY <2>2, <2>3, <3>1 DEF Handed
    <3>3. QED
      BY <2>2, <2>3, <2>4, <3>1, <3>2 DEF Reading
  <2>9. CASE StreamBreaks(seed)
    <3> DEFINE e == [kind |-> "error", request |-> seed]
    <3>1. /\ worker[seed] = "reading" /\ worker'[seed] = "ended"
          /\ answer'[seed] = "broken"
          /\ events'[seed] = Append(q, e)
          /\ UNCHANGED sent
      BY <2>9 DEF StreamBreaks, Put, TypeOK
    <3>2. e \in Event /\ e.kind = "error" /\ ~Content(e)
      BY DEF Event, Content
    <3>3. Handed' = Handed
      BY <2>2, <2>3, <3>1 DEF Handed
    <3>4. Orderly(Append(q, e), seed, low, Handed)
      BY <2>2, <3>2, OtherIsPut
    <3>5. /\ \A i \in DOMAIN Append(q, e) : Append(q, e)[i].kind # "done"
          /\ \E i \in DOMAIN Append(q, e) : Append(q, e)[i].kind = "error"
      <4>1. /\ Len(q) + 1 \in DOMAIN Append(q, e)
            /\ Append(q, e)[Len(q) + 1] = e
        BY <2>2
      <4>2. QED
        BY <2>2, <3>2, <4>1
    <3>6. QED
      BY <2>2, <2>3, <2>4, <3>1, <3>3, <3>4, <3>5 DEF Reading
  <2>10. CASE Finish(seed)
    <3> DEFINE e == [kind |-> "done", request |-> seed]
    <3>1. /\ worker[seed] = "ended" /\ worker'[seed] = "finished"
          /\ events'[seed] = Append(q, e)
          /\ UNCHANGED <<answer, sent>>
      BY <2>10 DEF Finish, Put, TypeOK
    <3>2. e \in Event /\ e.kind = "done" /\ ~Content(e)
      BY DEF Event, Content
    <3>3. Handed' = Handed
      BY <2>2, <2>3, <3>1 DEF Handed
    <3>4. Orderly(Append(q, e), seed, low, Handed)
      BY <2>2, <3>2, OtherIsPut
    <3>5. /\ Len(Append(q, e)) = Len(q) + 1
          /\ \A i \in DOMAIN Append(q, e) :
                Append(q, e)[i].kind = "done" => i = Len(q) + 1
          /\ \A i \in DOMAIN q :
                i \in DOMAIN Append(q, e) /\ Append(q, e)[i] = q[i]
      BY <2>2
    <3>6. QED
      BY <2>2, <2>3, <2>4, <3>1, <3>3, <3>4, <3>5 DEF Reading
  <2>11. QED
    BY <2>5, <2>6, <2>7, <2>8, <2>9, <2>10 DEF Worker
<1>8. QED
  BY <1>1, <1>4, <1>5, <1>6, <1>7

-----------------------------------------------------------------------------
\* A new request starts on a queue nobody has written to.
LEMMA RequestInductive ==
    ASSUME Inductive, Open \/ OpenFails
    PROVE  Inductive'
<1> USE DEF Inductive
<1>1. /\ pc = "request" /\ seed + 1 \in Requests /\ seed \in Nat
      /\ attempt + 1 \in 0 .. MaxAttempts
      /\ attempt' = attempt + 1 /\ seed' = seed + 1 /\ content' = <<>>
      /\ received' = FALSE /\ quiet' = 0 /\ unreported' = 0
      /\ UNCHANGED <<kind, sent, events, stop>>
      /\ pc' \in {"wait", "judge"}
  <2>1. pc = "request"
    BY DEF Open, OpenFails
  <2>2. attempt < MaxAttempts /\ seed + MaxAttempts <= MaxRequests + attempt
    BY <2>1 DEF Budget, Ended
  <2>3. seed + 1 \in Requests /\ seed \in Nat /\ attempt + 1 \in 0 .. MaxAttempts
    BY <2>2, Numbers DEF TypeOK, Requests
  <2>4. QED
    BY <2>1, <2>3 DEF Open, OpenFails, NewRecord, requests
<1>2. /\ answer[seed + 1] = "none" /\ worker[seed + 1] = "none"
      /\ sent[seed + 1] = 0 /\ events[seed + 1] = <<>> /\ ~stop[seed + 1]
  BY <1>1 DEF Untouched
<1>3. TypeOK'
  <2>1. /\ attempt' \in 0 .. MaxAttempts /\ seed' \in 0 .. MaxRequests
        /\ content' \in Seq(Requests \X (1 .. Parts))
        /\ quiet' \in Nat /\ unreported' \in 0 .. ReportInterval
    BY <1>1, Numbers DEF Requests
  <2>2. /\ error' \in BOOLEAN
        /\ answer' \in [Requests -> {"none", "open", "whole", "cut", "broken"}]
        /\ worker' \in [Requests -> {"none", "reading", "holding", "thinking",
                                     "ended", "finished"}]
    BY DEF Open, OpenFails, requests, TypeOK
  <2>3. QED
    BY <1>1, <2>1, <2>2 DEF TypeOK
<1>4. Budget'
  BY <1>1, Numbers DEF Budget, Ended, TypeOK
<1>5. Untouched'
  <2>1. \A r \in Requests : r > seed + 1 =>
            answer'[r] = answer[r] /\ worker'[r] = worker[r]
    BY <1>1 DEF Open, OpenFails, requests, TypeOK
  <2>2. \A r \in Requests : r > seed + 1 => r > seed
    BY <1>1 DEF Requests
  <2>3. QED
    BY <1>1, <2>1, <2>2 DEF Untouched
<1>6. Reading'
  <2>1. CASE Open
    <3>1. ~error' /\ answer'[seed'] = "open" /\ worker'[seed'] = "reading"
      BY <1>1, <2>1 DEF Open, TypeOK
    <3>2. Handed' = 0 /\ Len(content') = 0
      BY <1>1, <1>2, <3>1 DEF Handed
    <3>3. Orderly(events'[seed'], seed', 0, 0)
      BY <1>1, <1>2 DEF Orderly
    <3>4. QED
      BY <1>1, <1>2, <3>1, <3>2, <3>3 DEF Reading
  <2>2. CASE OpenFails
    BY <2>2 DEF OpenFails, Reading
  <2>3. QED
    BY <2>1, <2>2
<1>7. Answered' /\ Judged'
  BY <1>1 DEF Open, OpenFails, Answered, Judged
<1>8. QED
  BY <1>3, <1>4, <1>5, <1>6, <1>7

\* The head of the queue is taken.
LEMMA TakeInductive ==
    ASSUME Inductive, TakeChunk \/ TakeError \/ TakeDone
    PROVE  Inductive'
<1> USE DEF Inductive
<1> DEFINE q == events[seed]
           low == Len(content)
<1>1. /\ pc = "wait" /\ seed \in Requests /\ seed \in Nat
      /\ q # <<>> /\ q \in Seq(Event)
      /\ events' = [events EXCEPT ![seed] = Tail(q)]
      /\ UNCHANGED <<kind, attempt, seed, unreported, answer, sent, worker,
                     stop>>
      /\ pc' \in {"wait", "close"} /\ quiet' \in Nat /\ received' \in BOOLEAN
      /\ error' \in BOOLEAN
  <2>1. pc = "wait" /\ q # <<>>
    BY DEF TakeChunk, TakeError, TakeDone, NextIs, Waiting, Source
  <2>2. seed \in Requests /\ seed \in Nat
    BY <2>1 DEF Budget, Ended, TypeOK, Requests
  <2>3. /\ events' = [events EXCEPT ![seed] = Tail(q)]
        /\ UNCHANGED <<kind, attempt, seed, unreported, answer, sent, worker,
                       stop>>
    BY DEF TakeChunk, TakeError, TakeDone, Drop, Source, clock
  <2>4. /\ pc' \in {"wait", "close"} /\ quiet' \in Nat /\ received' \in BOOLEAN
        /\ error' \in BOOLEAN
    <3>1. pc' \in {"wait", "close"} /\ quiet' \in Nat
      BY <2>1 DEF TakeChunk, TakeError, TakeDone, clock, TypeOK
    <3>2. received' \in BOOLEAN
      BY DEF TakeChunk, TakeError, TakeDone, TypeOK
    <3>3. error' \in BOOLEAN
      BY DEF TakeChunk, TakeError, TakeDone, TypeOK
    <3>4. QED
      BY <3>1, <3>2, <3>3
  <2>5. q \in Seq(Event)
    BY <2>2 DEF TypeOK
  <2>6. QED
    BY <2>1, <2>2, <2>3, <2>4, <2>5
<1>2. /\ Orderly(q, seed, low, Handed) /\ low \in Nat /\ Handed \in Nat
      /\ low <= Handed /\ ~error /\ ~stop[seed] /\ worker[seed] # "none"
      /\ \A i \in DOMAIN content : content[i] = <<seed, i>>
      /\ content \in Seq(Requests \X (1 .. Parts))
      /\ worker[seed] # "holding" => Handed = sent[seed]
      /\ worker[seed] = "holding" => sent[seed] > 0
      /\ sent[seed] \in 0 .. Parts
  BY <1>1, Numbers DEF Reading, Handed, TypeOK
<1>3. /\ 1 \in DOMAIN q /\ Head(q) = q[1] /\ Head(q) \in Event
      /\ Tail(q) \in Seq(Event) /\ Len(q) = Len(Tail(q)) + 1
      /\ \A i \in DOMAIN Tail(q) :
            i + 1 \in DOMAIN q /\ Tail(q)[i] = q[i + 1] /\ i \in Nat
      /\ \A i \in DOMAIN q : i # 1 =>
            i - 1 \in DOMAIN Tail(q) /\ Tail(q)[i - 1] = q[i]
  BY <1>1
<1>4. events'[seed] = Tail(q) /\ events' \in [Requests -> Seq(Event)]
      /\ \A r \in Requests \ {seed} : events'[r] = events[r]
  BY <1>1, <1>3 DEF TypeOK
<1>5. Budget' /\ Untouched'
  <2>1. Untouched'
    BY <1>1, <1>4 DEF Untouched
  <2>2. Budget'
    BY <1>1 DEF Budget, Ended
  <2>3. QED
    BY <2>1, <2>2
<1>6. Judged'
  BY <1>1 DEF Judged
<1>7. Handed' = Handed
  BY <1>1 DEF Handed
<1>8. CASE TakeChunk
  <2> DEFINE e == Head(q)
  <2>1. /\ e.kind = "chunk" /\ pc' = "wait" /\ error' = error
        /\ content' = IF e.part = Thinking THEN content
                      ELSE Append(content, <<e.request, e.part>>)
    BY <1>1, <1>8 DEF TakeChunk, NextIs, Source
  <2>2. /\ content' \in Seq(Requests \X (1 .. Parts))
        /\ \A i \in DOMAIN content' : content'[i] = <<seed, i>>
        /\ Len(content') <= Handed
        /\ Orderly(Tail(q), seed, Len(content'), Handed)
    <3>1. CASE e.part = Thinking
      <4>1. ~Content(e) /\ content' = content
        BY <2>1, <3>1 DEF Content
      <4>2. QED
        BY <1>1, <1>2, <4>1, OtherIsTaken
    <3>2. CASE e.part # Thinking
      <4>1. Content(e) /\ content' = Append(content, <<e.request, e.part>>)
        BY <2>1, <3>2 DEF Content
      <4>2. /\ low + 1 <= Handed /\ e.request = seed /\ e.part = low + 1
            /\ Orderly(Tail(q), seed, low + 1, Handed)
        BY <1>1, <1>2, <4>1, ContentIsTaken
      <4>3. low + 1 \in 1 .. Parts
        BY <1>2, <4>2, Numbers DEF Handed
      <4>4. /\ content' \in Seq(Requests \X (1 .. Parts))
            /\ Len(content') = low + 1
            /\ \A i \in DOMAIN content' : content'[i] = <<seed, i>>
        BY <1>1, <1>2, <4>1, <4>2, <4>3
      <4>5. QED
        BY <4>2, <4>4
    <3>3. QED
      BY <3>1, <3>2
  <2>3. TypeOK'
    BY <1>1, <1>4, <2>1, <2>2 DEF TypeOK
  <2>4. /\ worker[seed] \in {"reading", "holding", "thinking"} <=>
                answer[seed] = "open"
        /\ worker[seed] \in {"ended", "finished"} <=>
                answer[seed] \in {"whole", "cut", "broken"}
        /\ \A i \in DOMAIN q : q[i].kind = "done" =>
                i = Len(q) /\ worker[seed] = "finished"
        /\ answer[seed] = "broken" => \E i \in DOMAIN q : q[i].kind = "error"
    BY <1>1 DEF Reading
  <2>5. \A i \in DOMAIN Tail(q) : Tail(q)[i].kind = "done" =>
                i = Len(Tail(q)) /\ worker[seed] = "finished"
    BY <1>3, <2>4
  <2>6. answer[seed] = "broken" =>
            \E i \in DOMAIN Tail(q) : Tail(q)[i].kind = "error"
    <3>1. \A i \in DOMAIN q : q[i].kind = "error" => i # 1
      BY <1>3, <2>1
    <3>2. QED
      BY <1>3, <2>4, <3>1
  <2>7. Reading'
    BY <1>1, <1>2, <1>4, <1>7, <2>1, <2>2, <2>4, <2>5, <2>6 DEF Reading
  <2>8. Answered'
    BY <2>1 DEF Answered
  <2>9. QED
    BY <1>5, <1>6, <2>3, <2>7, <2>8
<1>9. CASE TakeError
  <2>1. pc' = "close" /\ error' = TRUE /\ content' = content
    BY <1>9 DEF TakeError
  <2>2. TypeOK'
    BY <1>1, <1>4, <2>1 DEF TypeOK
  <2>3. Reading' /\ Answered'
    BY <2>1 DEF Reading, Answered
  <2>4. QED
    BY <1>5, <1>6, <2>2, <2>3
<1>10. CASE TakeDone
  <2>1. /\ pc' = "close" /\ content' = content /\ Head(q).kind = "done"
    BY <1>10 DEF TakeDone, NextIs, Source
  <2>2. TypeOK'
    BY <1>1, <1>4, <2>1 DEF TypeOK
  <2>3. Reading'
    BY <2>1 DEF Reading
  <2>4. /\ Len(q) = 1 /\ worker[seed] = "finished"
        /\ answer[seed] \in {"whole", "cut", "broken"}
    BY <1>1, <1>3, <2>1 DEF Reading
  <2>5. answer[seed] # "broken"
    <3>1. \A i \in DOMAIN q : q[i].kind # "error"
      BY <1>1, <1>3, <2>1, <2>4
    <3>2. QED
      BY <1>1, <3>1 DEF Reading
  <2>6. \A i \in DOMAIN q : ~Content(q[i])
    BY <1>1, <1>3, <2>1, <2>4 DEF Content
  <2>7. low = sent[seed]
    <3>1. Handed \notin low + 1 .. Handed
      BY <2>6, <1>2 DEF Orderly
    <3>2. QED
      BY <1>2, <2>4, <3>1
  <2>8. content = [i \in 1 .. sent[seed] |-> <<seed, i>>]
    BY <1>2, <2>7
  <2>9. Answered'
    BY <1>1, <2>1, <2>4, <2>5, <2>8 DEF Answered
  <2>10. QED
    BY <1>5, <1>6, <2>2, <2>3, <2>9
<1>11. QED
  BY <1>8, <1>9, <1>10

\* The other steps of the caller write nothing but its own state.
LEMMA DecisionInductive ==
    ASSUME Inductive,
           \/ Begin \/ Wake \/ TimesOut \/ Reports \/ Close \/ Return \/ Retry
           \/ Fail \/ Tick
    PROVE  Inductive'
<1> USE DEF Inductive
<1>1. /\ UNCHANGED <<seed, content, received, answer, sent, worker, events>>
      /\ stop' = stop \/ (pc = "close" /\ stop' = [stop EXCEPT ![seed] = TRUE])
  BY DEF Begin, Wake, TimesOut, Reports, Close, Return, Retry, Fail, Tick,
     clock, caller, requests
<1>2. TypeOK'
  <2>1. quiet' \in Nat /\ unreported' \in 0 .. ReportInterval
    BY Numbers DEF Begin, Wake, TimesOut, Reports, Close, Return, Retry, Fail,
       Tick, clock, TypeOK
  <2>2. /\ pc' \in {"idle", "request", "wait", "woken", "close", "judge"}
                   \cup Ended
        /\ kind' \in {"json", "text"} /\ attempt' \in 0 .. MaxAttempts
        /\ error' \in BOOLEAN
    <3>1. pc' \in {"idle", "request", "wait", "woken", "close", "judge"}
                    \cup Ended
      BY DEF Begin, Wake, TimesOut, Reports, Close, Return, Retry, Fail, Tick,
         caller, TypeOK, Ended
    <3>2. kind' \in {"json", "text"} /\ error' \in BOOLEAN
      BY DEF Begin, Wake, TimesOut, Reports, Close, Return, Retry, Fail, Tick,
         caller, TypeOK
    <3>3. attempt' = 0 \/ attempt' = attempt
      BY DEF Begin, Wake, TimesOut, Reports, Close, Return, Retry, Fail, Tick,
         caller
    <3>4. attempt' \in 0 .. MaxAttempts
      BY <3>3, Numbers DEF TypeOK
    <3>5. QED
      BY <3>1, <3>2, <3>4
  <2>3. stop' \in [Requests -> BOOLEAN]
    BY <1>1 DEF TypeOK
  <2>4. QED
    BY <1>1, <2>1, <2>2, <2>3 DEF TypeOK
<1>3. Budget'
  BY <1>1, Numbers DEF Begin, Wake, TimesOut, Reports, Close, Return, Retry,
     Fail, Tick, caller, Budget, TypeOK, Ended, Attempts
<1>4. Untouched'
  <2>1. \A r \in Requests : r > seed => stop'[r] = stop[r]
    BY <1>1, Numbers DEF TypeOK, Requests
  <2>2. QED
    BY <1>1, <2>1 DEF Untouched
<1>5. Reading'
  <2>1. pc' \in {"wait", "woken"} =>
            pc \in {"wait", "woken"} /\ UNCHANGED <<error, stop>>
    BY DEF Begin, Wake, TimesOut, Reports, Close, Return, Retry, Fail, Tick,
       caller, requests
  <2>2. Handed' = Handed
    BY <1>1 DEF Handed
  <2>3. QED
    BY <1>1, <2>1, <2>2 DEF Reading
<1>6. Answered'
  <2>1. pc' = "returned" \/ (pc' \in {"close", "judge"} /\ ~error') =>
            pc \in {"close", "judge"} /\ ~error
    BY DEF Begin, Wake, TimesOut, Reports, Close, Return, Retry, Fail, Tick,
       caller, Usable
  <2>2. QED
    BY <1>1, <2>1 DEF Answered
<1>7. Judged'
  BY <1>1 DEF Begin, Wake, TimesOut, Reports, Close, Return, Retry, Fail, Tick,
     caller, Judged, Usable
<1>8. QED
  BY <1>2, <1>3, <1>4, <1>5, <1>6, <1>7

\* Every step of the caller, a worker or the clock keeps the invariant.
LEMMA NextInductive == Inductive /\ [Next]_vars => Inductive'
<1> SUFFICES ASSUME Inductive, [Next]_vars PROVE Inductive'
  OBVIOUS
<1>1. CASE UNCHANGED vars
  BY <1>1 DEF Inductive, TypeOK, Budget, Untouched, Reading, Answered, Judged,
     Handed, vars, caller, clock, requests
<1>2. ASSUME NEW r \in Requests, Worker(r) PROVE Inductive'
  <2>1. TypeOK'
    BY <1>2, WorkerTypes DEF Inductive
  <2>2. QED
    BY <1>2, <2>1, OtherWorkerInductive, CurrentWorkerInductive
<1>3. CASE Caller \/ Tick
  BY <1>3, RequestInductive, TakeInductive, DecisionInductive DEF Caller
<1>4. QED
  BY <1>1, <1>2, <1>3 DEF Next, Finished

\* The invariant holds in every reachable state.
LEMMA AlwaysInductive == Spec => []Inductive
<1>1. QED
  BY InitInductive, NextInductive, PTL DEF Spec

-----------------------------------------------------------------------------
\* Whatever a call returns is one whole answer, for any deadlines, queue and
\* number of threads left behind: all that the server sent on one request,
\* which ended without an error.  The one exception is CutText, a prose stream
\* that stopped early.
THEOREM ReturnsOneAnswer == Spec => []ValueIsOneAnswer
<1>1. Inductive => ValueIsOneAnswer
  BY DEF Inductive, TypeOK, Answered, Judged, ValueIsOneAnswer, CutText
<1>2. QED
  BY <1>1, AlwaysInductive, PTL
-----------------------------------------------------------------------------
(* A call seen from the stage: AtomicCall.                                 *)

\* Whoever waits for an answer or judges one has made an attempt.
Tried == pc \in {"wait", "woken", "close", "judge"} => attempt > 0

\* No step forgets the attempt.
LEMMA TriedKept == Inductive /\ Tried /\ [Next]_vars => Tried'
<1> SUFFICES ASSUME Inductive, Tried, [Next]_vars PROVE Tried'
  OBVIOUS
<1> USE DEF Tried
<1>1. CASE Open \/ OpenFails
  <2>1. attempt' = attempt + 1
    BY <1>1 DEF Open, OpenFails, NewRecord
  <2>2. QED
    BY <2>1, Numbers DEF Inductive, TypeOK
<1>2. CASE TakeChunk \/ TakeError \/ TakeDone
  BY <1>2 DEF TakeChunk, TakeError, TakeDone, NextIs, Waiting
<1>3. CASE Begin \/ Wake \/ TimesOut \/ Reports \/ Close \/ Return \/ Retry
           \/ Fail
  BY <1>3 DEF Begin, Wake, TimesOut, Reports, Close, Return, Retry, Fail, Ended
<1>4. CASE Tick \/ UNCHANGED vars \/ \E r \in Requests : Worker(r)
  BY <1>4 DEF Tick, vars, caller, Worker, YieldContent, YieldThinking, Yield,
     Hand, StreamEnds, StreamBreaks, Finish
<1>5. QED
  BY <1>1, <1>2, <1>3, <1>4 DEF Next, Caller, Finished

\* A worker changes no returned answer: the one of the current request is at
\* its end.
LEMMA WorkersUnseen ==
    ASSUME Inductive, NEW r \in Requests, Worker(r)
    PROVE  UNCHANGED <<Phase, kind, attempt, seed, Returned>>
<1>1. UNCHANGED <<pc, kind, attempt, seed, content>>
  BY DEF Worker, YieldContent, YieldThinking, Yield, Hand, StreamEnds,
     StreamBreaks, Finish, caller
<1>2. pc = "returned" => answer'[seed] = answer[seed]
  <2> SUFFICES ASSUME pc = "returned" PROVE answer'[seed] = answer[seed]
    OBVIOUS
  <2>1. worker[seed] = "finished" /\ seed \in Requests
    BY DEF Inductive, Answered
  <2>2. r # seed
    BY <2>1 DEF Worker, YieldContent, YieldThinking, Yield, Hand, StreamEnds,
       StreamBreaks, Finish
  <2>3. answer' = answer \/ \E how \in {"whole", "cut", "broken"} :
                                answer' = [answer EXCEPT ![r] = how]
    BY DEF Worker, YieldContent, YieldThinking, Yield, Hand, StreamEnds,
       StreamBreaks, Finish
  <2>4. QED
    BY <2>1, <2>2, <2>3 DEF Inductive, TypeOK
<1>3. QED
  BY <1>1, <1>2 DEF Phase, Returned

\* A request is one more attempt of the call.
LEMMA RequestTries ==
    ASSUME Inductive, Open \/ OpenFails
    PROVE  Atomic!Try
<1>1. pc = "request" /\ pc' \in {"wait", "judge"}
  BY DEF Open, OpenFails
<1>2. Phase = "asked" /\ Phase' = "asked" /\ Returned = <<>> /\ Returned' = <<>>
  BY <1>1 DEF Phase, Returned, Ended
<1>3. attempt' = attempt + 1 /\ seed' = seed + 1 /\ kind' = kind
  BY DEF Open, OpenFails, NewRecord
<1>4. attempt < MaxAttempts
  BY <1>1 DEF Inductive, Budget, Ended
<1>5. QED
  BY <1>2, <1>3, <1>4 DEF Atomic!Try

\* The answer that is returned is all parts of the last request.
LEMMA ReturnGives ==
    ASSUME Inductive, Tried, Return
    PROVE  \E n \in Nat, whole \in BOOLEAN : Atomic!Give(n, whole)
<1> DEFINE whole == answer[seed] = "whole"
<1>1. /\ pc = "judge" /\ pc' = "returned" /\ ~error /\ content # <<>>
      /\ kind = "json" => whole
      /\ UNCHANGED <<kind, attempt, seed, content, answer>>
  BY DEF Return, Usable, requests
<1>2. /\ sent[seed] \in Nat
      /\ content = [i \in 1 .. sent[seed] |-> <<seed, i>>]
  BY <1>1, Numbers DEF Inductive, Answered, TypeOK
<1>3. sent[seed] > 0
  <2>1. SUFFICES ASSUME ~(sent[seed] > 0) PROVE FALSE
    OBVIOUS
  <2>2. 1 .. sent[seed] = {}
    BY <1>2, <2>1
  <2>3. DOMAIN content = {} /\ content \in Seq(Requests \X (1 .. Parts))
    BY <1>2, <2>2 DEF Inductive, TypeOK
  <2>4. QED
    BY <1>1, <2>3
<1>4. /\ Phase = "asked" /\ Phase' = "returned"
      /\ Returned' = [parts |-> [i \in 1 .. sent[seed] |-> <<seed, i>>],
                      whole |-> whole]
  BY <1>1, <1>2 DEF Phase, Returned, Ended
<1>5. attempt > 0
  BY <1>1 DEF Tried
<1>6. Atomic!Give(sent[seed], whole)
  BY <1>1, <1>3, <1>4, <1>5 DEF Atomic!Give
<1>7. QED
  BY <1>2, <1>6

\* With any number of attempts, requests and threads left behind, a call is
\* seen as a few requests and the whole answer to the last one, which nothing
\* changes later, or as a failure once every attempt is used.
THEOREM CallIsAtomic == Spec => ImplementsAtomicCall
<1>1. Init => Atomic!CallInit /\ Tried
  BY DEF Init, Atomic!CallInit, Phase, Returned, Tried
<1>2. Inductive /\ Tried /\ [Next]_vars => [Atomic!CallNext]_(Atomic!callVars)
  <2> SUFFICES ASSUME Inductive, Tried, [Next]_vars
               PROVE  [Atomic!CallNext]_(Atomic!callVars)
    OBVIOUS
  <2>1. CASE UNCHANGED <<Phase, kind, attempt, seed, Returned>>
    BY <2>1 DEF Atomic!callVars
  <2>2. CASE \E r \in Requests : Worker(r)
    BY <2>1, <2>2, WorkersUnseen
  <2>3. CASE Open \/ OpenFails
    BY <2>3, RequestTries DEF Atomic!CallNext
  <2>4. CASE Return
    BY <2>4, ReturnGives DEF Atomic!CallNext
  <2>5. CASE Begin
    <3>1. /\ Phase \in {"idle", "returned"} /\ Phase' = "asked"
          /\ Returned' = <<>>
      BY <2>5 DEF Begin, Phase, Returned, Ended
    <3>2. QED
      BY <2>5, <3>1 DEF Begin, Atomic!CallNext, Atomic!Ask
  <2>6. CASE Fail
    <3>1. /\ Phase = "asked" /\ Phase' = "failed"
          /\ Returned = <<>> /\ Returned' = <<>>
      BY <2>6 DEF Fail, Phase, Returned, Ended
    <3>2. QED
      BY <2>6, <3>1 DEF Fail, Attempts, Atomic!CallNext, Atomic!Refuse
  <2>7. CASE TakeChunk \/ TakeError \/ TakeDone \/ Wake \/ TimesOut \/ Reports
             \/ Close \/ Retry \/ Tick
    <3>1. pc \notin {"idle"} \cup Ended /\ pc' \notin {"idle"} \cup Ended
      BY <2>7 DEF TakeChunk, TakeError, TakeDone, NextIs, Waiting, Wake,
         TimesOut, Reports, Close, Retry, Tick, caller, Ended
    <3>2. UNCHANGED <<kind, attempt, seed>>
      BY <2>7 DEF TakeChunk, TakeError, TakeDone, Wake,
         TimesOut, Reports, Close, Retry, Tick, caller
    <3>3. QED
      BY <2>1, <3>1, <3>2 DEF Phase, Returned, Ended
  <2>8. CASE UNCHANGED vars
    BY <2>1, <2>8 DEF vars, caller, requests, Phase, Returned
  <2>9. QED
    BY <2>2, <2>3, <2>4, <2>5, <2>6, <2>7, <2>8 DEF Next, Caller, Finished
<1>3. QED
  BY <1>1, <1>2, InitInductive, NextInductive, TriedKept, PTL
  DEF Spec, ImplementsAtomicCall, Atomic!CallSpec
=============================================================================
