-------------------------- MODULE StreamRelayProofs --------------------------
(***************************************************************************)
(* InvalidIsFinal, ResultsAccountedFor and AnswerIsWhole for any           *)
(* credentials, pools, retries and streams.                                *)
(*                                                                         *)
(* The loop's last error, the wrapping goroutine that hands it on, and the *)
(* chunks the relay has read but not handled all remember that a request   *)
(* was refused: FinalInv says which of them does at every point between    *)
(* the upstream's answer and the relay's report.  AccountInv: results and  *)
(* attempts differ by the one call that is open, the loop's or the stream  *)
(* that the relay reads.  AnswerInv: what has been sent, and the payload   *)
(* that the relay holds, are what the stream has given, in its order.      *)
(***************************************************************************)
EXTENDS StreamRelay, SequenceTheorems, FiniteSetTheorems, TLAPS

LoopFields == {"pc", "kind", "attempt", "tried", "attempted", "auth", "models",
               "refreshed", "again", "lastErr", "boots", "buffered"}
RelayFields == {"phase", "cur", "pending", "closed", "sent", "boots", "err"}
WrapFields == {"st", "buffered", "sent", "open", "failed"}

\* The records have their fields.
ShapeInv ==
    /\ DOMAIN loop = LoopFields
    /\ DOMAIN writer = {"phase", "dialect"}
    /\ DOMAIN relay = RelayFields
    /\ relay.cur \in Streams /\ relay.boots \in 0..BootstrapRetries
    /\ relay.pending \in Seq(Chunks)
    /\ DOMAIN wrap = Streams /\ \A s \in Streams : DOMAIN wrap[s] = WrapFields

\* The manager's loop runs only while somebody waits for it.
PhaseInv ==
    /\ loop.pc # "idle" => relay.phase \in {"off", "retrying", "absent"}
    /\ relay.phase = "absent" => loop.pc = "error"
    /\ writer.phase = "start" => loop.pc = "idle" /\ relay.phase = "off" /\ ~refused
    /\ loop.pc = "done" => loop.kind # "stream"
    /\ relay.phase = "off" => relay.cur = 1 /\ relay.pending = <<>>
    /\ relay.phase = "initial" =>
          \A i \in 1..Len(relay.pending) : relay.pending[i] = "empty"

\* A refusal among the chunks that wait to be handled.
RefusalPending ==
    /\ \A i \in 1..Len(relay.pending) : relay.pending[i] \in {"empty", "invalid"}
    /\ \E i \in 1..Len(relay.pending) : relay.pending[i] = "invalid"

FinalInv ==
    refused /\ ~ctx =>
        \/ loop.pc \in {"failed", "error", "errorStream"} /\ loop.lastErr = "invalid"
        \/ /\ loop.pc = "idle"
           /\ \/ /\ relay.phase \in {"initial", "loop"}
                 /\ wrap[relay.cur].st = "error" /\ loop.lastErr = "invalid"
                 /\ relay.pending = <<>>
              \/ relay.phase = "loop" /\ RefusalPending
              \/ relay.phase \in {"report", "closing", "closed", "gone"}

RelayInv == ShapeInv /\ PhaseInv /\ FinalInv

-----------------------------------------------------------------------------
(* The manager's loop *)

\* A loop that is idle has all its fields.
LEMMA IdleShape ==
  ASSUME NEW kind
  PROVE  /\ DOMAIN Idle(kind) = LoopFields /\ Idle(kind).pc = "idle"
         /\ Idle(kind).kind = kind
BY DEF Idle, LoopFields

\* A failure ends the round, or goes on with a model or a credential; one that
\* is the request's own ends it.
LEMMA FailFacts ==
  ASSUME DOMAIN loop = LoopFields, NEW err, NEW boots, Fail(err, boots)
  PROVE  /\ DOMAIN loop' = LoopFields /\ loop'.kind = loop.kind
         /\ loop'.pc \in {"failed", "pick", "call"}
         /\ err = "invalid" => loop'.pc = "failed" /\ loop'.lastErr = "invalid"
<1>1. CASE err = "invalid"
  BY <1>1 DEF Fail, Ended, LoopFields
<1>2. CASE err # "invalid" /\ ctx /\ LastOne
  BY <1>2 DEF Fail, Ended, LoopFields
<1>3. CASE err # "invalid" /\ ~(ctx /\ LastOne)
  BY <1>3 DEF Fail, NextModel, LoopFields
<1> QED
  BY <1>1, <1>2, <1>3

\* What an action of the loop may do.
LoopMove ==
    /\ loop.pc \notin {"idle", "error", "done", "errorStream", "stream", "closed"}
    /\ DOMAIN loop' = LoopFields /\ loop'.kind = loop.kind
    /\ loop'.pc # "idle"
    /\ loop'.pc = "done" => loop.kind # "stream"
    /\ ctx' = ctx
    /\ refused' /\ ~ctx =>
         \/ loop'.pc \in {"failed", "error", "errorStream"} /\ loop'.lastErr = "invalid"
         \/ refused /\ loop.pc \notin {"failed"}
         \/ refused /\ loop.pc = "failed" /\ loop.lastErr # "invalid"

\* In a round, and between rounds, a refusal stays with the loop, ...
LEMMA RoundMoves ==
  ASSUME DOMAIN loop = LoopFields,
         \/ PickNothing \/ Prepared \/ PrepareFails
         \/ \E a \in Auths : Pick(a)
         \/ RetryLater \/ GiveUp \/ WaitEnds \/ WaitCancelled
  PROVE  LoopMove
<1>1. CASE PickNothing
  BY <1>1 DEF PickNothing, LoopMove, LoopFields
<1>2. CASE Prepared
  BY <1>2 DEF Prepared, LoopMove, LoopFields
<1>3. CASE PrepareFails
  BY <1>3 DEF PrepareFails, LoopMove, LoopFields
<1>4. ASSUME NEW a \in Auths, Pick(a) PROVE LoopMove
  <2>1. /\ loop.pc = "pick" /\ ctx' = ctx /\ refused' = refused
        /\ \E ms \in Rotations(a) :
              LET models == Open(a, ms) IN
              loop' = [loop EXCEPT !.tried = @ \union {a},
                              !.auth = a,
                              !.models = models,
                              !.refreshed = FALSE,
                              !.again = "no",
                              !.attempted = IF models = <<>> THEN @ ELSE @ \union {a},
                              !.pc = IF models = <<>> THEN "pick" ELSE "prepare"]
    BY <1>4 DEF Pick
  <2>2. DOMAIN loop' = LoopFields /\ loop'.kind = loop.kind /\ loop'.pc \in {"pick", "prepare"}
    BY <2>1 DEF LoopFields
  <2> QED
    BY <2>1, <2>2 DEF LoopMove
<1>5. CASE RetryLater
  BY <1>5 DEF RetryLater, MayWait, LoopMove, LoopFields
<1>6. CASE GiveUp
  BY <1>6 DEF GiveUp, LoopMove, LoopFields
<1>7. CASE WaitEnds
  <2>1. /\ loop.pc = "wait" /\ ctx' = ctx /\ refused' = refused
        /\ loop' = [Idle(loop.kind) EXCEPT !.pc = "pick", !.attempt = loop.attempt + 1]
    BY <1>7 DEF WaitEnds
  <2>2. DOMAIN loop' = LoopFields /\ loop'.kind = loop.kind /\ loop'.pc = "pick"
    BY <2>1, IdleShape DEF LoopFields
  <2> QED
    BY <2>1, <2>2 DEF LoopMove
<1>8. CASE WaitCancelled
  BY <1>8 DEF WaitCancelled, Ended, LoopMove, LoopFields
<1> QED
  BY <1>1, <1>2, <1>3, <1>4, <1>5, <1>6, <1>7, <1>8

\* ... as it does when an upstream answers or fails.
LEMMA CallMoves ==
  ASSUME DOMAIN loop = LoopFields,
         \/ CallSucceeds \/ StreamOpens
         \/ \E err \in Failures : CallFails(err)
         \/ Bootstrap
  PROVE  LoopMove
<1>1. CASE CallSucceeds
  BY <1>1 DEF CallSucceeds, Ended, LoopMove, LoopFields
<1>2. CASE StreamOpens
  BY <1>2 DEF StreamOpens, LoopMove, LoopFields
<1>3. ASSUME NEW err \in Failures, CallFails(err) PROVE LoopMove
  <2>1. loop.pc = "call" /\ ctx' = ctx /\ refused' = (err = "invalid")
    BY <1>3 DEF CallFails
  <2>2. CASE ctx /\ Ended("failed", "ctx")
    BY <2>1, <2>2 DEF Ended, LoopMove, LoopFields
  <2>3. CASE ~ctx /\ MayRefresh(err) /\ Renew
    BY <2>1, <2>3 DEF MayRefresh, Renew, LoopMove, LoopFields
  <2>4. CASE Fail(err, loop.again = "bootstrap" /\ LastOne)
    BY <2>1, <2>4, FailFacts DEF LoopMove
  <2> QED
    BY <1>3, <2>2, <2>3, <2>4 DEF CallFails
<1>4. CASE BootstrapEmpty
  BY <1>4 DEF BootstrapEmpty, LoopMove, LoopFields
<1>5. CASE BootstrapCancelled
  <2>1. loop.pc = "bootstrap" /\ ctx /\ ctx' = ctx
    BY <1>5 DEF BootstrapCancelled
  <2>2. CASE Fail("ctx", LastOne)
    BY <2>1, <2>2, FailFacts DEF LoopMove
  <2>3. CASE Ended("failed", "ctx")
    BY <2>1, <2>3 DEF Ended, LoopMove, LoopFields
  <2> QED
    BY <1>5, <2>2, <2>3 DEF BootstrapCancelled
<1>6. CASE BootstrapEmptyStream
  BY <1>6, FailFacts DEF BootstrapEmptyStream, LoopMove
<1>7. ASSUME NEW closed \in BOOLEAN, BootstrapDone(closed) PROVE LoopMove
  BY <1>7 DEF BootstrapDone, Ended, LoopMove, LoopFields
<1>8. ASSUME NEW err \in Failures, BootstrapFails(err) PROVE LoopMove
  <2>1. loop.pc = "bootstrap" /\ ctx' = ctx /\ refused' = (err = "invalid")
    BY <1>8 DEF BootstrapFails
  <2>2. CASE MayRefresh(err) /\ Renew
    BY <2>1, <2>2 DEF MayRefresh, Renew, LoopMove, LoopFields
  <2>3. CASE Fail(err, LastOne)
    BY <2>1, <2>3, FailFacts DEF LoopMove
  <2> QED
    BY <1>8, <2>2, <2>3 DEF BootstrapFails
<1> QED
  BY <1>1, <1>2, <1>3, <1>4, <1>5, <1>6, <1>7, <1>8 DEF Bootstrap

\* So the manager's steps keep the invariant.
LEMMA ManagerStep ==
  ASSUME RelayInv, Manager PROVE RelayInv'
<1>1. LoopMove
  BY RoundMoves, CallMoves DEF Manager, Loop, RelayInv, ShapeInv
<1>2. UNCHANGED <<writer, relay, wrap>>
  BY DEF Manager, relayVars
<1>3. ShapeInv'
  BY <1>1, <1>2 DEF RelayInv, ShapeInv, LoopMove
<1>4. PhaseInv'
  BY <1>1, <1>2 DEF RelayInv, PhaseInv, LoopMove
<1>5. FinalInv'
  BY <1>1, <1>2 DEF RelayInv, FinalInv, LoopMove
<1> QED
  BY <1>3, <1>4, <1>5 DEF RelayInv

-----------------------------------------------------------------------------
(* Chunks *)

\* A chunk comes from a stream that is open or from the error handed on.
LEMMA OfferFacts ==
  ASSUME NEW s \in Streams, NEW c \in Offers(s)
  PROVE  \/ wrap[s].st = "error" /\ c = loop.lastErr
         \/ wrap[s].st = "on"
<1>1. CASE wrap[s].st = "error"
  BY <1>1 DEF Offers
<1>2. CASE wrap[s].st \notin {"error", "on"}
  BY <1>2 DEF Offers
<1> QED
  BY <1>1, <1>2

\* What is left of a stream after a chunk, and whether that was a refusal.
LEMMA ReceiveFacts ==
  ASSUME ShapeInv, NEW s \in Streams, NEW c, Receive(s, c)
  PROVE  /\ DOMAIN wrap' = Streams /\ \A u \in Streams : DOMAIN wrap'[u] = WrapFields
         /\ UNCHANGED <<loop, ctx>>
         /\ \/ wrap[s].st = "error" /\ c = loop.lastErr /\ refused' = refused
            \/ wrap[s].st = "on" /\ (c = "invalid" \/ refused' = FALSE \/ refused' = refused)
<1>1. /\ wrap' = [wrap EXCEPT ![s] = AfterOffer(@, c)] /\ UNCHANGED <<loop, ctx>>
      /\ c \in Offers(s)
      /\ refused' = IF IsError(c) /\ wrap[s].st = "on" THEN c = "invalid" ELSE refused
  BY DEF Receive
<1>2. DOMAIN AfterOffer(wrap[s], c) = WrapFields
  BY DEF ShapeInv, AfterOffer, WrapFields
<1>3. \/ wrap[s].st = "error" /\ c = loop.lastErr
      \/ wrap[s].st = "on"
  BY <1>1, OfferFacts
<1> QED
  BY <1>1, <1>2, <1>3 DEF ShapeInv

\* Only an error that may be retried leads to a retry, and a refusal is none.
LEMMA HandleFacts ==
  ASSUME DOMAIN relay = RelayFields, relay.boots \in 0..BootstrapRetries, NEW c
  PROVE  LET r == Handle(c) IN
         /\ DOMAIN r = RelayFields /\ r.boots \in 0..BootstrapRetries
         /\ r.cur = relay.cur /\ r.pending = relay.pending
         /\ r.phase \in {"retry", "report", "send", relay.phase}
         /\ c = "invalid" => r.phase = "report"
         /\ c = "empty" => r = relay
<1>0. BootstrapRetries \in Nat
  BY StreamRelayAssumption
<1>1. CASE IsError(c) /\ ~relay.sent /\ relay.boots < BootstrapRetries /\ Eligible(c)
  <2>1. Handle(c) = [relay EXCEPT !.phase = "retry", !.boots = @ + 1]
    BY <1>1 DEF Handle
  <2>2. c # "invalid" /\ c # "empty"
    BY <1>1 DEF IsError, Eligible
  <2> QED
    BY <1>0, <1>1, <2>1, <2>2 DEF RelayFields
<1>2. CASE IsError(c) /\ ~(~relay.sent /\ relay.boots < BootstrapRetries /\ Eligible(c))
  <2>1. Handle(c) = [relay EXCEPT !.phase = "report", !.err = c]
    BY <1>2 DEF Handle
  <2>2. c # "empty"
    BY <1>2 DEF IsError
  <2> QED
    BY <2>1, <2>2 DEF RelayFields
<1>3. CASE ~IsError(c)
  <2>1. c \in {"empty", "payload", "bad"}
    BY <1>3 DEF IsError
  <2>2. Handle(c) = CASE c = "bad" -> [relay EXCEPT !.phase = "report", !.err = "bad"]
                      [] c = "payload" -> [relay EXCEPT !.phase = "send", !.sent = TRUE]
                      [] OTHER -> relay
    BY <1>3 DEF Handle
  <2>3. CASE c = "bad"
    BY <2>2, <2>3 DEF RelayFields
  <2>4. CASE c = "payload"
    BY <2>2, <2>4 DEF RelayFields
  <2>5. CASE c = "empty"
    BY <2>2, <2>5 DEF RelayFields
  <2> QED
    BY <2>1, <2>3, <2>4, <2>5
<1> QED
  BY <1>1, <1>2, <1>3

-----------------------------------------------------------------------------
(* The relay *)

\* The relay takes over the stream, or the error, ...
LEMMA TakeStreamStep ==
  ASSUME RelayInv, TakeStream PROVE RelayInv'
<1>1. /\ loop.kind = "stream" /\ loop.pc \in {"errorStream", "stream", "closed"}
      /\ loop' = Taken /\ UNCHANGED <<ctx, refused, writer>>
  BY DEF TakeStream, Streaming, Returned, CtxVars, RelayVars, RelayInv, PhaseInv
<1>2. /\ DOMAIN loop' = LoopFields /\ loop'.pc = "idle" /\ loop'.lastErr = loop.lastErr
  BY <1>1, IdleShape DEF Taken, LoopFields
<1>3. DOMAIN Wrapped = WrapFields /\ (loop.pc = "errorStream" => Wrapped.st = "error")
  <2>1. CASE loop.pc = "stream"
    BY <2>1 DEF Wrapped, NoWrap, WrapFields
  <2>2. CASE loop.pc = "closed"
    BY <2>2 DEF Wrapped, NoWrap, WrapFields
  <2>3. CASE loop.pc = "errorStream"
    BY <2>3 DEF Wrapped, NoWrap, WrapFields
  <2> QED
    BY <1>1, <2>1, <2>2, <2>3
<1>4. \E k \in Streams :
        /\ wrap' = [wrap EXCEPT ![k] = Wrapped]
        /\ DOMAIN relay' = RelayFields /\ relay'.cur = k /\ relay'.boots = relay.boots
        /\ relay'.pending = <<>> /\ relay'.phase \in {"initial", "loop"}
  <2>1. CASE /\ writer.phase = "blocked" /\ relay.phase = "off"
             /\ wrap' = [wrap EXCEPT ![1] = Wrapped]
             /\ relay' = [relay EXCEPT !.phase = "initial"]
    <3>1. 1 \in Streams
      BY StreamRelayAssumption DEF Streams
    <3>2. relay.cur = 1 /\ relay.pending = <<>> /\ DOMAIN relay = RelayFields
      BY <2>1 DEF RelayInv, PhaseInv, ShapeInv
    <3> QED
      BY <2>1, <3>1, <3>2 DEF RelayFields
  <2>2. CASE /\ relay.phase = "retrying"
             /\ wrap' = [wrap EXCEPT ![relay.boots + 1] = Wrapped]
             /\ relay' = [relay EXCEPT !.phase = "loop", !.cur = relay.boots + 1,
                                        !.pending = <<>>, !.closed = FALSE]
    <3>1. relay.boots + 1 \in Streams /\ DOMAIN relay = RelayFields
      BY StreamRelayAssumption DEF Streams, RelayInv, ShapeInv
    <3> QED
      BY <2>2, <3>1 DEF RelayFields
  <2> QED
    BY <2>1, <2>2 DEF TakeStream
<1>5. PICK k \in Streams :
        /\ wrap' = [wrap EXCEPT ![k] = Wrapped]
        /\ DOMAIN relay' = RelayFields /\ relay'.cur = k /\ relay'.boots = relay.boots
        /\ relay'.pending = <<>> /\ relay'.phase \in {"initial", "loop"}
  BY <1>4
<1>6. DOMAIN wrap' = Streams /\ \A u \in Streams : DOMAIN wrap'[u] = WrapFields
  BY <1>3, <1>5 DEF RelayInv, ShapeInv
<1>7. ShapeInv'
  BY <1>1, <1>2, <1>5, <1>6, EmptySeq DEF RelayInv, ShapeInv
<1>8. PhaseInv'
  <2>1. writer'.phase # "start"
    BY <1>1 DEF RelayInv, PhaseInv
  <2>2. \A i \in 1..Len(relay'.pending) : relay'.pending[i] = "empty"
    BY <1>5
  <2> QED
    BY <1>2, <1>5, <2>1, <2>2 DEF PhaseInv
<1>9. FinalInv'
  <2> SUFFICES ASSUME refused, ~ctx PROVE FinalInv'
    BY <1>1 DEF FinalInv
  <2>1. loop.pc = "errorStream" /\ loop.lastErr = "invalid"
    BY <1>1 DEF RelayInv, FinalInv
  <2>2. wrap'[relay'.cur].st = "error"
    BY <1>3, <1>5, <2>1 DEF RelayInv, ShapeInv
  <2> QED
    BY <1>2, <1>5, <2>1, <2>2 DEF FinalInv
<1> QED
  BY <1>7, <1>8, <1>9 DEF RelayInv

\* A relay that moves on between phases in which no refusal is pending.
LEMMA PhaseStep ==
  ASSUME RelayInv, UNCHANGED <<loop, refused, wrap>>, ctx' \in {ctx, TRUE},
         DOMAIN writer' = {"phase", "dialect"}, writer'.phase # "start",
         DOMAIN relay' = RelayFields, relay'.cur = relay.cur, relay'.boots = relay.boots,
         relay'.pending = relay.pending,
         relay.phase \notin {"off", "absent", "retrying"} /\ loop.pc = "idle",
         relay'.phase \in {"report", "closing", "closed", "gone"}
  PROVE  RelayInv'
<1>1. ShapeInv'
  BY DEF RelayInv, ShapeInv
<1>2. PhaseInv'
  BY DEF RelayInv, PhaseInv
<1>3. FinalInv'
  BY DEF FinalInv
<1> QED
  BY <1>1, <1>2, <1>3 DEF RelayInv

\* ... reads until it has something to send, ...
LEMMA InitialStep ==
  ASSUME RelayInv, NEW c \in Chunks, Initial(c) PROVE RelayInv'
<1>1. /\ relay.phase = "initial" /\ Receive(relay.cur, c) /\ relay.cur \in Streams
      /\ relay' = [relay EXCEPT !.pending = Append(@, c),
                                !.phase = IF c = "empty" THEN @ ELSE "loop"]
      /\ writer' = IF c = "empty" THEN writer ELSE [writer EXCEPT !.phase = "peek"]
  BY DEF Initial, RelayInv, ShapeInv
<1>2. /\ DOMAIN wrap' = Streams /\ \A u \in Streams : DOMAIN wrap'[u] = WrapFields
      /\ UNCHANGED <<loop, ctx>>
      /\ \/ wrap[relay.cur].st = "error" /\ c = loop.lastErr /\ refused' = refused
         \/ /\ wrap[relay.cur].st = "on"
            /\ c = "invalid" \/ refused' = FALSE \/ refused' = refused
  BY <1>1, ReceiveFacts DEF RelayInv
<1>3. /\ DOMAIN relay' = RelayFields /\ relay'.cur = relay.cur /\ relay'.boots = relay.boots
      /\ relay'.pending = Append(relay.pending, c)
      /\ relay'.phase = IF c = "empty" THEN "initial" ELSE "loop"
  BY <1>1 DEF RelayInv, ShapeInv, RelayFields
<1>4. relay.pending \in Seq(Chunks)
  BY DEF RelayInv, ShapeInv
<1>5. /\ relay'.pending \in Seq(Chunks) /\ Len(relay'.pending) = Len(relay.pending) + 1
      /\ \A i \in 1..Len(relay.pending) : relay'.pending[i] = relay.pending[i]
      /\ relay'.pending[Len(relay.pending) + 1] = c /\ Len(relay.pending) \in Nat
  BY <1>3, <1>4, LenProperties
<1>6. loop.pc = "idle" /\ writer.phase # "start"
  BY <1>1 DEF RelayInv, PhaseInv
<1>7. DOMAIN writer' = {"phase", "dialect"} /\ writer'.phase # "start"
  BY <1>1, <1>6 DEF RelayInv, ShapeInv
<1>8. \A i \in 1..Len(relay.pending) : relay.pending[i] = "empty"
  BY <1>1 DEF RelayInv, PhaseInv
<1>9. \A i \in 1..Len(relay'.pending) : relay'.pending[i] \in {"empty", c}
  <2> TAKE i \in 1..Len(relay'.pending)
  <2>1. i \in 1..Len(relay.pending) \/ i = Len(relay.pending) + 1
    BY <1>5
  <2> QED
    BY <1>5, <1>8, <2>1
<1>10. ShapeInv'
  BY <1>2, <1>3, <1>5, <1>7 DEF RelayInv, ShapeInv
<1>11. PhaseInv'
  BY <1>2, <1>3, <1>6, <1>7, <1>9 DEF PhaseInv
<1>12. FinalInv'
  <2> SUFFICES ASSUME refused', ~ctx PROVE FinalInv'
    BY <1>2 DEF FinalInv
  <2>1. c = "invalid"
    <3>1. CASE refused
      BY <1>1, <1>2, <1>6, <3>1 DEF RelayInv, FinalInv
    <3>2. CASE ~refused
      BY <1>2, <3>2
    <3> QED
      BY <3>1, <3>2
  <2>2. RefusalPending'
    <3>1. Len(relay.pending) + 1 \in 1..Len(relay'.pending)
      BY <1>5
    <3> QED
      BY <1>5, <1>9, <2>1, <3>1 DEF RefusalPending
  <2> QED
    BY <1>2, <1>3, <1>6, <2>1, <2>2 DEF FinalInv
<1> QED
  BY <1>10, <1>11, <1>12 DEF RelayInv

\* ... goes on chunk by chunk with the stream, ...
LEMMA NextReceivedStep ==
  ASSUME RelayInv, NEW c \in Chunks, NextReceived(c) PROVE RelayInv'
<1>1. /\ relay.phase = "loop" /\ relay.pending = <<>> /\ Receive(relay.cur, c)
      /\ relay.cur \in Streams /\ relay' = Handle(c) /\ writer' = writer
  BY DEF NextReceived, RelayVars, RelayInv, ShapeInv
<1>2. /\ DOMAIN wrap' = Streams /\ \A u \in Streams : DOMAIN wrap'[u] = WrapFields
      /\ UNCHANGED <<loop, ctx>>
      /\ \/ wrap[relay.cur].st = "error" /\ c = loop.lastErr /\ refused' = refused
         \/ /\ wrap[relay.cur].st = "on"
            /\ c = "invalid" \/ refused' = FALSE \/ refused' = refused
  BY <1>1, ReceiveFacts DEF RelayInv
<1>3. /\ DOMAIN relay' = RelayFields /\ relay'.boots \in 0..BootstrapRetries
      /\ relay'.cur = relay.cur /\ relay'.pending = <<>>
      /\ relay'.phase \in {"retry", "report", "send", "loop"}
      /\ c = "invalid" => relay'.phase = "report"
  BY <1>1, HandleFacts DEF RelayInv, ShapeInv
<1>4. loop.pc = "idle" /\ writer.phase # "start"
  BY <1>1 DEF RelayInv, PhaseInv
<1>5. ShapeInv'
  BY <1>1, <1>2, <1>3, EmptySeq DEF RelayInv, ShapeInv
<1>6. PhaseInv'
  BY <1>1, <1>2, <1>3, <1>4 DEF PhaseInv
<1>7. FinalInv'
  <2> SUFFICES ASSUME refused', ~ctx PROVE FinalInv'
    BY <1>2 DEF FinalInv
  <2>1. c = "invalid"
    <3>1. CASE refused
      <4>1. ~RefusalPending
        BY <1>1 DEF RefusalPending
      <4> QED
        BY <1>1, <1>2, <1>4, <3>1, <4>1 DEF RelayInv, FinalInv
    <3>2. CASE ~refused
      BY <1>2, <3>2
    <3> QED
      BY <3>1, <3>2
  <2> QED
    BY <1>2, <1>3, <1>4, <2>1 DEF FinalInv
<1> QED
  BY <1>5, <1>6, <1>7 DEF RelayInv

\* ... or with those it has read first.
LEMMA NextPendingStep ==
  ASSUME RelayInv, NextPending PROVE RelayInv'
<1> DEFINE c == Head(relay.pending)
<1>1. /\ relay.phase = "loop" /\ relay.pending # <<>>
      /\ relay' = [Handle(c) EXCEPT !.pending = Tail(@)]
      /\ UNCHANGED <<loop, ctx, refused, wrap, writer>>
  BY DEF NextPending, loopVars, RelayVars
<1>2. /\ DOMAIN Handle(c) = RelayFields /\ Handle(c).boots \in 0..BootstrapRetries
      /\ Handle(c).cur = relay.cur /\ Handle(c).pending = relay.pending
      /\ Handle(c).phase \in {"retry", "report", "send", "loop"}
      /\ c = "invalid" => Handle(c).phase = "report"
      /\ c = "empty" => Handle(c) = relay
  BY <1>1, HandleFacts DEF RelayInv, ShapeInv
<1> DEFINE h == Handle(c)
<1>3. /\ DOMAIN relay' = RelayFields /\ relay'.boots = h.boots /\ relay'.cur = relay.cur
      /\ relay'.pending = Tail(relay.pending) /\ relay'.phase = h.phase
  <2> HIDE DEF c
  <2>1. relay' = [h EXCEPT !.pending = Tail(@)]
    BY <1>1
  <2> HIDE DEF h
  <2>2. DOMAIN h = RelayFields /\ h.cur = relay.cur /\ h.pending = relay.pending
    BY <1>2 DEF h
  <2> QED
    BY <2>1, <2>2 DEF RelayFields
<1>4. relay.pending \in Seq(Chunks)
  BY DEF RelayInv, ShapeInv
<1>5. /\ Tail(relay.pending) \in Seq(Chunks)
      /\ Len(Tail(relay.pending)) = Len(relay.pending) - 1 /\ Len(relay.pending) \in Nat \ {0}
      /\ \A i \in 1..Len(Tail(relay.pending)) : Tail(relay.pending)[i] = relay.pending[i + 1]
      /\ c = relay.pending[1]
  BY <1>1, <1>4, HeadTailProperties, EmptySeq
<1>6. loop.pc = "idle" /\ writer.phase # "start"
  BY <1>1 DEF RelayInv, PhaseInv
<1> HIDE DEF c, h
<1>7. ShapeInv'
  BY <1>1, <1>2, <1>3, <1>5 DEF RelayInv, ShapeInv, h
<1>8. PhaseInv'
  BY <1>1, <1>2, <1>3, <1>6 DEF PhaseInv, h
<1>9. FinalInv'
  <2> SUFFICES ASSUME refused, ~ctx PROVE FinalInv'
    BY <1>1 DEF FinalInv
  <2>1. RefusalPending
    BY <1>1, <1>6 DEF RelayInv, FinalInv
  <2>2. c \in {"empty", "invalid"}
    BY <1>5, <2>1 DEF RefusalPending
  <2>3. CASE c = "invalid"
    BY <1>1, <1>2, <1>3, <1>6, <2>3 DEF FinalInv, h
  <2>4. CASE c = "empty"
    <3>1. relay'.phase = "loop"
      BY <1>1, <1>2, <1>3, <2>4 DEF h
    <3>2. PICK i \in 1..Len(relay.pending) : relay.pending[i] = "invalid"
      BY <2>1 DEF RefusalPending
    <3>3. i # 1 /\ i - 1 \in 1..Len(Tail(relay.pending)) /\ (i - 1) + 1 = i
      <4>1. i # 1
        BY <1>5, <2>4, <3>2
      <4>2. i \in 1..Len(relay.pending) /\ Len(relay.pending) \in Nat
            /\ Len(Tail(relay.pending)) = Len(relay.pending) - 1
        BY <1>5
      <4> QED
        BY <4>1, <4>2
    <3>4. Tail(relay.pending)[i - 1] = "invalid"
      BY <1>5, <3>2, <3>3
    <3>5. \A j \in 1..Len(Tail(relay.pending)) :
             Tail(relay.pending)[j] \in {"empty", "invalid"}
      <4> TAKE j \in 1..Len(Tail(relay.pending))
      <4>1. j + 1 \in 1..Len(relay.pending)
        BY <1>5
      <4> QED
        BY <1>5, <2>1, <4>1 DEF RefusalPending
    <3>6. RefusalPending'
      BY <1>3, <3>3, <3>4, <3>5 DEF RefusalPending
    <3> QED
      BY <1>1, <1>6, <3>1, <3>6 DEF FinalInv
  <2> QED
    BY <2>2, <2>3, <2>4
<1> QED
  BY <1>7, <1>8, <1>9 DEF RelayInv

\* The relay's other actions.
LEMMA OtherRelaySteps ==
  ASSUME RelayInv,
         \/ FirstFails \/ InitialEnds \/ NoMoreChunks \/ Retry \/ RetryFails
         \/ Report \/ SendCancelled \/ CloseErrs \/ CloseData
  PROVE  RelayInv'
<1>1. CASE FirstFails
  BY <1>1 DEF FirstFails, loopVars, RelayInv, ShapeInv, PhaseInv, FinalInv, RelayFields
<1>2. CASE InitialEnds
  <2>1. /\ relay.phase = "initial" /\ loop.pc = "idle"
        /\ writer' = [writer EXCEPT !.phase = "peek"]
        /\ UNCHANGED <<loop, ctx, refused, wrap>>
    BY <1>2 DEF InitialEnds, loopVars, RelayInv, PhaseInv
  <2>2. DOMAIN writer' = {"phase", "dialect"} /\ writer'.phase # "start"
    BY <2>1 DEF RelayInv, ShapeInv
  <2>3. CASE ctx /\ relay' = [relay EXCEPT !.phase = "closing"]
    <3>1. DOMAIN relay' = RelayFields /\ relay'.cur = relay.cur /\ relay'.boots = relay.boots
          /\ relay'.pending = relay.pending /\ relay'.phase = "closing"
      BY <2>3 DEF RelayInv, ShapeInv, RelayFields
    <3> QED
      BY <2>1, <2>2, <3>1, PhaseStep
  <2>4. CASE /\ wrap[relay.cur].st = "ended"
             /\ relay' = [relay EXCEPT !.phase = "loop", !.closed = TRUE]
    <3>1. DOMAIN relay' = RelayFields /\ relay'.cur = relay.cur /\ relay'.boots = relay.boots
          /\ relay'.pending = relay.pending /\ relay'.phase = "loop"
      BY <2>4 DEF RelayInv, ShapeInv, RelayFields
    <3>2. ~(refused /\ ~ctx)
      BY <2>1, <2>4 DEF RelayInv, FinalInv
    <3> QED
      BY <2>1, <2>2, <3>1, <3>2 DEF RelayInv, ShapeInv, PhaseInv, FinalInv
  <2> QED
    BY <1>2, <2>3, <2>4 DEF InitialEnds
<1>3. CASE Retry
  <2>1. /\ relay.phase = "retry" /\ loop.pc = "idle" /\ Begin
        /\ relay' = [relay EXCEPT !.phase = "retrying"]
        /\ UNCHANGED <<ctx, refused, wrap, writer>>
    BY <1>3 DEF Retry, CtxVars, RelayVars
  <2>2. DOMAIN loop' = LoopFields /\ loop'.pc = "pick" /\ loop'.kind = loop.kind
    BY <2>1, IdleShape DEF Begin, LoopFields
  <2>3. DOMAIN relay' = RelayFields /\ relay'.cur = relay.cur /\ relay'.boots = relay.boots
        /\ relay'.pending = relay.pending /\ relay'.phase = "retrying"
    BY <2>1 DEF RelayInv, ShapeInv, RelayFields
  <2>4. ~(refused /\ ~ctx)
    BY <2>1 DEF RelayInv, FinalInv
  <2> QED
    BY <2>1, <2>2, <2>3, <2>4 DEF RelayInv, ShapeInv, PhaseInv, FinalInv
<1>4. CASE RetryFails
  <2>1. /\ relay.phase = "retrying" /\ loop.pc = "error" /\ loop' = Taken
        /\ relay' = [relay EXCEPT !.phase = "report", !.err = loop.lastErr]
        /\ UNCHANGED <<ctx, refused, wrap, writer>>
    BY <1>4 DEF RetryFails, CtxVars, RelayVars
  <2>2. DOMAIN loop' = LoopFields /\ loop'.pc = "idle"
    BY <2>1, IdleShape DEF Taken, LoopFields
  <2>3. DOMAIN relay' = RelayFields /\ relay'.cur = relay.cur /\ relay'.boots = relay.boots
        /\ relay'.pending = relay.pending /\ relay'.phase = "report"
    BY <2>1 DEF RelayInv, ShapeInv, RelayFields
  <2> QED
    BY <2>1, <2>2, <2>3 DEF RelayInv, ShapeInv, PhaseInv, FinalInv
<1>5. CASE NoMoreChunks \/ Report \/ SendCancelled \/ CloseErrs \/ CloseData
  <2>1. /\ relay.phase \in {"loop", "report", "send", "closing", "closed"}
        /\ \E ph \in {"closing", "closed", "gone"} : relay' = [relay EXCEPT !.phase = ph]
        /\ UNCHANGED <<loop, ctx, refused, wrap, writer>>
    BY <1>5 DEF NoMoreChunks, Report, SendCancelled, CloseErrs, CloseData, loopVars, RelayVars
  <2>2. DOMAIN relay' = RelayFields /\ relay'.cur = relay.cur /\ relay'.boots = relay.boots
        /\ relay'.pending = relay.pending /\ relay'.phase \in {"closing", "closed", "gone"}
    BY <2>1 DEF RelayInv, ShapeInv, RelayFields
  <2>3. loop.pc = "idle" /\ writer.phase # "start" /\ DOMAIN writer = {"phase", "dialect"}
    BY <2>1 DEF RelayInv, PhaseInv, ShapeInv
  <2> QED
    BY <2>1, <2>2, <2>3, PhaseStep
<1> QED
  BY <1>1, <1>2, <1>3, <1>4, <1>5

-----------------------------------------------------------------------------
(* Everybody else *)

\* Streams that end or are cancelled.
LEMMA UpstreamStep ==
  ASSUME RelayInv, Upstreams PROVE RelayInv'
<1>1. PICK s \in Streams : WrapEnds(s) \/ WrapCancelled(s)
  BY DEF Upstreams
<1>2. /\ wrap[s].st = "on" /\ wrap' = [wrap EXCEPT ![s].st = "ended"]
      /\ UNCHANGED <<loop, ctx, refused, writer, relay>>
  BY <1>1 DEF WrapEnds, WrapCancelled
<1>3. DOMAIN wrap' = Streams /\ \A u \in Streams : DOMAIN wrap'[u] = WrapFields
  BY <1>2 DEF RelayInv, ShapeInv, WrapFields
<1>4. wrap[relay.cur].st = "error" => wrap'[relay.cur] = wrap[relay.cur]
  BY <1>2 DEF RelayInv, ShapeInv
<1>5. ShapeInv' /\ PhaseInv'
  BY <1>2, <1>3 DEF RelayInv, ShapeInv, PhaseInv
<1>6. FinalInv'
  BY <1>2, <1>4 DEF RelayInv, FinalInv, RefusalPending
<1> QED
  BY <1>5, <1>6 DEF RelayInv

\* The writer's steps.
LEMMA WriterStep ==
  ASSUME RelayInv, Writer PROVE RelayInv'
<1>1. CASE Start
  <2>1. /\ writer.phase = "start" /\ Begin /\ UNCHANGED <<ctx, refused, wrap, relay>>
        /\ writer' = [writer EXCEPT !.phase = "blocked"]
    BY <1>1 DEF Start
  <2>2. DOMAIN loop' = LoopFields /\ loop'.pc = "pick" /\ loop'.kind = loop.kind
    BY <2>1, IdleShape DEF Begin, LoopFields
  <2>3. DOMAIN writer' = {"phase", "dialect"} /\ writer'.phase = "blocked"
    BY <2>1 DEF RelayInv, ShapeInv
  <2> QED
    BY <2>1, <2>2, <2>3 DEF RelayInv, ShapeInv, PhaseInv, FinalInv
<1>2. CASE StopTicker
  <2>1. /\ UNCHANGED <<loop, ctx, refused, wrap, relay>>
        /\ writer' = [writer EXCEPT !.phase = "respond"]
    BY <1>2 DEF StopTicker, loopVars
  <2>2. DOMAIN writer' = {"phase", "dialect"} /\ writer'.phase = "respond"
    BY <2>1 DEF RelayInv, ShapeInv
  <2> QED
    BY <2>1, <2>2 DEF RelayInv, ShapeInv, PhaseInv, FinalInv, RefusalPending
<1>3. CASE Respond \/ WriteError \/ WriteDone \/ WriterCancelled
  <2>1. /\ UNCHANGED <<loop, refused, wrap, relay>> /\ ctx' = TRUE
        /\ writer' = [writer EXCEPT !.phase = "ended"]
    BY <1>3 DEF Respond, WriteError, WriteDone, WriterCancelled, Finish, CtxVars, WriterVars
  <2>2. DOMAIN writer' = {"phase", "dialect"} /\ writer'.phase = "ended"
    BY <2>1 DEF RelayInv, ShapeInv
  <2> QED
    BY <2>1, <2>2 DEF RelayInv, ShapeInv, PhaseInv, FinalInv
<1>4. CASE WriteChunk
  <2>1. /\ UNCHANGED <<loop, ctx, refused, wrap>> /\ relay.phase = "send"
        /\ writer' = [writer EXCEPT !.phase = "forward"]
        /\ relay' = [relay EXCEPT !.phase = "loop"]
    BY <1>4 DEF WriteChunk, loopVars
  <2>2. DOMAIN writer' = {"phase", "dialect"} /\ writer'.phase = "forward"
    BY <2>1 DEF RelayInv, ShapeInv
  <2>3. DOMAIN relay' = RelayFields /\ relay'.cur = relay.cur /\ relay'.boots = relay.boots
        /\ relay'.pending = relay.pending /\ relay'.phase = "loop"
    BY <2>1 DEF RelayInv, ShapeInv, RelayFields
  <2>4. ~(refused /\ ~ctx)
    BY <2>1 DEF RelayInv, PhaseInv, FinalInv
  <2> QED
    BY <2>1, <2>2, <2>3, <2>4 DEF RelayInv, ShapeInv, PhaseInv, FinalInv
<1> QED
  BY <1>1, <1>2, <1>3, <1>4 DEF Writer

\* The client's, its ticker's and the context's.
LEMMA ClientStep ==
  ASSUME RelayInv, KeepAlive \/ TickerEnds \/ ClientLeaves \/ ContextEnds PROVE RelayInv'
<1>1. /\ UNCHANGED <<loop, refused, wrap, relay, writer>> /\ ctx' \in {ctx, TRUE}
  BY DEF KeepAlive, TickerEnds, ClientLeaves, ContextEnds, loopVars, relayVars, CtxVars
<1> QED
  BY <1>1 DEF RelayInv, ShapeInv, PhaseInv, FinalInv, RefusalPending

\* At the start nothing has been refused.
LEMMA RelayInit == Init => RelayInv
<1> SUFFICES ASSUME Init PROVE RelayInv
  OBVIOUS
<1>1. PICK kind \in Kinds : LoopInit(kind)
  BY DEF Init
<1>2. loop = Idle(kind) /\ ~refused
  BY <1>1 DEF LoopInit
<1>3. PICK d \in Dialects : writer = [phase |-> "start", dialect |-> d]
  BY DEF Init
<1>4. /\ relay = [phase |-> "off", cur |-> 1, pending |-> <<>>, closed |-> FALSE,
                  sent |-> FALSE, boots |-> 0, err |-> "none"]
      /\ wrap = [s \in Streams |-> NoWrap]
  BY DEF Init
<1>5. 1 \in Streams /\ 0 \in 0..BootstrapRetries
  BY StreamRelayAssumption DEF Streams
<1>6. ShapeInv
  BY <1>2, <1>3, <1>4, <1>5, IdleShape, EmptySeq DEF ShapeInv, RelayFields, NoWrap, WrapFields
<1>7. PhaseInv /\ FinalInv
  BY <1>2, <1>3, <1>4, IdleShape DEF PhaseInv, FinalInv
<1> QED
  BY <1>6, <1>7 DEF RelayInv

\* The invariant of refusals is inductive.
LEMMA RelayStep ==
  ASSUME RelayInv, [Next]_vars PROVE RelayInv'
<1>1. CASE UNCHANGED vars
  BY <1>1 DEF vars, loopVars, relayVars, RelayInv, ShapeInv, PhaseInv, FinalInv,
              RefusalPending
<1>2. CASE Relay
  BY <1>2, TakeStreamStep, InitialStep, NextReceivedStep, NextPendingStep, OtherRelaySteps
     DEF Relay
<1> QED
  BY <1>1, <1>2, ManagerStep, UpstreamStep, WriterStep, ClientStep DEF Next

\* After the upstream has called the request itself invalid, nobody tries
\* again, neither another model nor another credential, nor the retries after
\* a cooldown, nor those of the bootstrap (conductor.go, executeMixedOnce and
\* shouldRetryAfterError; handlers.go, bootstrapEligible).
THEOREM RefusalIsFinal == Spec => []InvalidIsFinal
<1>1. RelayInv /\ [Next]_vars => RelayInv'
  BY RelayStep
<1>2. RelayInv => InvalidIsFinal
  BY DEF RelayInv, FinalInv, InvalidIsFinal
<1> QED
  BY RelayInit, <1>1, <1>2, PTL DEF Spec

-----------------------------------------------------------------------------
(* Results and the calls they answer *)

\* A stream whose result is still to come.
IsOpen(w) == w.st = "on" /\ ~w.failed

Counted == loop.pc \in {"bootstrap", "stream", "closed"}
Over    == {"absent", "closing", "closed", "gone"}

\* Without the client's doing the context ends when the handler has returned,
\* and by then the relay has nothing more to read.
ContextInv ==
    /\ writer.phase = "respond" => loop.kind # "stream" /\ Returned /\ relay.phase = "off"
    /\ relay.err = "bad" => relay.phase \in {"report"} \cup Over
    /\ relay.closed => relay.phase # "off" /\ wrap[relay.cur].st = "ended"
    /\ relay.phase # "off" => loop.kind = "stream"
    /\ errs.msgs # <<>> => relay.phase \in Over
    /\ ~dataOpen => relay.phase = "gone"
    /\ client = "here" =>
         /\ ctx => writer.phase = "ended"
         /\ writer.phase = "ended" =>
               \/ relay.phase \in Over
               \/ relay.phase = "off" /\ loop.kind # "stream" /\ Returned

\* One call at most is under way, and it is the loop's or the stream's that
\* the relay reads.
OpenInv ==
    client = "here" /\ relay.err # "bad" =>
        /\ \A s \in Streams :
              IsOpen(wrap[s]) => s = relay.cur /\ relay.phase \in {"initial", "loop", "send"}
        /\ (\E i \in 1..Len(relay.pending) : IsError(relay.pending[i])) => ~IsOpen(wrap[relay.cur])
        /\ owed = (IF Counted THEN 1 ELSE 0) + (IF IsOpen(wrap[relay.cur]) THEN 1 ELSE 0)

FlagInv == \A s \in Streams : wrap[s].failed \in BOOLEAN

AccountInv == FlagInv /\ ContextInv /\ OpenInv

\* What an action of the loop may do while nobody has cancelled the request.
LoopAccounts ==
    ~ctx => owed' = owed - (IF Counted THEN 1 ELSE 0)
                         + (IF loop'.pc \in {"bootstrap", "stream", "closed"} THEN 1 ELSE 0)

\* A step of the loop pairs each attempt with a result, or with the call that is open.
LEMMA LoopAccount ==
  ASSUME DOMAIN loop = LoopFields, owed \in Int, Loop PROVE LoopAccounts
<1> SUFFICES ASSUME ~ctx PROVE LoopAccounts
  BY DEF LoopAccounts
<1>1. CASE PickNothing \/ Prepared \/ PrepareFails
  <2>1. CASE PickNothing
    BY <2>1 DEF PickNothing, LoopAccounts, LoopFields, Counted
  <2>2. CASE Prepared
    BY <2>2 DEF Prepared, LoopAccounts, LoopFields, Counted
  <2>3. CASE PrepareFails
    BY <2>3 DEF PrepareFails, LoopAccounts, LoopFields, Counted
  <2> QED
    BY <1>1, <2>1, <2>2, <2>3
<1>2. CASE RetryLater \/ GiveUp
  BY <1>2 DEF RetryLater, GiveUp, LoopAccounts, LoopFields, Counted
<1>3. CASE WaitCancelled
  BY <1>3 DEF WaitCancelled, Ended, LoopAccounts, LoopFields, Counted
<1>4. ASSUME NEW a \in Auths, Pick(a) PROVE LoopAccounts
  <2>1. /\ loop.pc = "pick" /\ owed' = owed
        /\ \E ms \in Rotations(a) :
              LET models == Open(a, ms) IN
              loop' = [loop EXCEPT !.tried = @ \union {a},
                              !.auth = a,
                              !.models = models,
                              !.refreshed = FALSE,
                              !.again = "no",
                              !.attempted = IF models = <<>> THEN @ ELSE @ \union {a},
                              !.pc = IF models = <<>> THEN "pick" ELSE "prepare"]
    BY <1>4 DEF Pick
  <2>2. loop'.pc \in {"pick", "prepare"}
    BY <2>1 DEF LoopFields
  <2> QED
    BY <2>1, <2>2 DEF LoopAccounts, Counted
<1>5. CASE WaitEnds
  <2>1. /\ loop.pc = "wait" /\ owed' = owed
        /\ loop' = [Idle(loop.kind) EXCEPT !.pc = "pick", !.attempt = loop.attempt + 1]
    BY <1>5 DEF WaitEnds
  <2>2. loop'.pc = "pick"
    BY <2>1, IdleShape DEF LoopFields
  <2> QED
    BY <2>1, <2>2 DEF LoopAccounts, Counted
<1>6. CASE CallSucceeds
  BY <1>6 DEF CallSucceeds, Ended, LoopAccounts, LoopFields, Counted
<1>7. CASE StreamOpens
  BY <1>7 DEF StreamOpens, LoopAccounts, LoopFields, Counted
<1>8. ASSUME NEW err \in Failures, CallFails(err) PROVE LoopAccounts
  <2>1. loop.pc = "call" /\ owed' = owed
    BY <1>8 DEF CallFails
  <2>2. CASE Renew
    BY <2>1, <2>2 DEF Renew, LoopAccounts, LoopFields, Counted
  <2>3. CASE Fail(err, loop.again = "bootstrap" /\ LastOne)
    BY <2>1, <2>3, FailFacts DEF LoopAccounts, Counted
  <2> QED
    BY <1>8, <2>2, <2>3 DEF CallFails
<1>9. CASE Bootstrap
  <2>1. CASE BootstrapEmpty
    BY <2>1 DEF BootstrapEmpty, LoopAccounts, LoopFields, Counted
  <2>2. CASE BootstrapEmptyStream
    <3>1. loop.pc = "bootstrap" /\ owed' = owed - 1 /\ Fail("no_data", LastOne)
      BY <2>2 DEF BootstrapEmptyStream
    <3> QED
      BY <3>1, FailFacts DEF LoopAccounts, Counted
  <2>3. ASSUME NEW closed \in BOOLEAN, BootstrapDone(closed) PROVE LoopAccounts
    BY <2>3 DEF BootstrapDone, Ended, LoopAccounts, LoopFields, Counted
  <2>4. ASSUME NEW err \in Failures, BootstrapFails(err) PROVE LoopAccounts
    <3>1. loop.pc = "bootstrap" /\ owed' = owed - 1
      BY <2>4 DEF BootstrapFails
    <3>2. CASE Renew
      BY <3>1, <3>2 DEF Renew, LoopAccounts, LoopFields, Counted
    <3>3. CASE Fail(err, LastOne)
      BY <3>1, <3>3, FailFacts DEF LoopAccounts, Counted
    <3> QED
      BY <2>4, <3>2, <3>3 DEF BootstrapFails
  <2> QED
    BY <1>9, <2>1, <2>2, <2>3, <2>4 DEF Bootstrap, BootstrapCancelled
<1> QED
  BY <1>1, <1>2, <1>3, <1>4, <1>5, <1>6, <1>7, <1>8, <1>9 DEF Loop

\* The manager's steps keep the account.
LEMMA ManagerAccounts ==
  ASSUME RelayInv, AccountInv, Manager PROVE AccountInv'
<1>1. LoopMove /\ UNCHANGED <<client, writer, relay, wrap, errs, dataOpen>>
  BY RoundMoves, CallMoves DEF Manager, Loop, RelayInv, ShapeInv, relayVars
<1>2. FlagInv'
  BY <1>1 DEF AccountInv, FlagInv
<1>3. ~Returned /\ loop'.kind = loop.kind
  BY <1>1 DEF LoopMove, Returned
<1>4. ContextInv'
  BY <1>1, <1>3 DEF AccountInv, ContextInv, LoopMove, Returned
<1>5. OpenInv'
  <2> SUFFICES ASSUME client = "here", relay.err # "bad" PROVE OpenInv'
    BY <1>1 DEF OpenInv
  <2>1. ~ctx
    <3>1. writer.phase # "ended"
      BY <1>1, <1>3 DEF AccountInv, ContextInv, LoopMove, RelayInv, PhaseInv, Over
    <3> QED
      BY <3>1 DEF AccountInv, ContextInv
  <2>2. owed \in Int
    BY DEF AccountInv, OpenInv
  <2>3. LoopAccounts
    BY <2>2, LoopAccount DEF Manager, RelayInv, ShapeInv
  <2> QED
    BY <1>1, <2>1, <2>2, <2>3 DEF AccountInv, OpenInv, LoopAccounts, IsOpen, Counted
<1> QED
  BY <1>2, <1>4, <1>5 DEF AccountInv

\* While the relay runs, or before a stream is relayed, the client has not been
\* told anything final, and unless the client has left nothing is cancelled.
LEMMA Running ==
  ASSUME RelayInv, AccountInv, relay.phase \notin Over,
         relay.phase # "off" \/ loop.kind = "stream"
  PROVE  /\ writer.phase # "respond" /\ errs.msgs = <<>> /\ dataOpen
         /\ client = "here" => ~ctx /\ writer.phase # "ended"
BY DEF AccountInv, ContextInv, Over

\* And that stays so while the relay goes on.
LEMMA RunningOn ==
  ASSUME RelayInv, AccountInv, relay.phase \notin Over,
         relay.phase # "off" \/ loop.kind = "stream",
         UNCHANGED <<client, ctx, errs, dataOpen>>,
         writer' = writer \/ writer'.phase \notin {"respond", "ended"},
         relay'.phase # "off", loop'.kind = "stream",
         relay'.closed => wrap'[relay'.cur].st = "ended",
         relay'.err = "bad" => relay'.phase \in {"report"} \cup Over
  PROVE  ContextInv'
<1>1. /\ writer.phase # "respond" /\ errs.msgs = <<>> /\ dataOpen
      /\ client = "here" => ~ctx /\ writer.phase # "ended"
  BY Running
<1>2. /\ writer'.phase # "respond" /\ errs'.msgs = <<>> /\ dataOpen'
      /\ client' = "here" => ~ctx' /\ writer'.phase # "ended"
  BY <1>1
<1> QED
  BY <1>2 DEF ContextInv

\* The open call of the loop becomes the relay's stream.
LEMMA TakeStreamAccounts ==
  ASSUME RelayInv, AccountInv, TakeStream PROVE AccountInv'
<1>1. /\ loop.kind = "stream" /\ loop.pc \in {"errorStream", "stream", "closed"}
      /\ loop' = Taken /\ UNCHANGED <<ctx, owed, writer, client, errs, dataOpen>>
      /\ relay.phase \in {"off", "retrying"}
  BY DEF TakeStream, Streaming, Returned, CtxVars, RelayVars, RelayInv, PhaseInv
<1>2. DOMAIN loop' = LoopFields /\ loop'.pc = "idle" /\ loop'.kind = "stream"
  BY <1>1, IdleShape DEF Taken, LoopFields
<1>3. /\ Wrapped.st = IF loop.pc = "errorStream" THEN "error" ELSE "on"
      /\ Wrapped.failed = FALSE
  <2>1. CASE loop.pc = "stream"
    BY <2>1 DEF Wrapped, NoWrap
  <2>2. CASE loop.pc = "closed"
    BY <2>2 DEF Wrapped, NoWrap
  <2>3. CASE loop.pc = "errorStream"
    BY <2>3 DEF Wrapped, NoWrap
  <2> QED
    BY <1>1, <2>1, <2>2, <2>3
<1>4. \E k \in Streams :
        /\ wrap' = [wrap EXCEPT ![k] = Wrapped]
        /\ relay'.cur = k /\ relay'.pending = <<>> /\ relay'.phase \in {"initial", "loop"}
        /\ ~relay'.closed /\ relay'.err = relay.err
  <2>1. CASE /\ writer.phase = "blocked" /\ relay.phase = "off"
             /\ wrap' = [wrap EXCEPT ![1] = Wrapped]
             /\ relay' = [relay EXCEPT !.phase = "initial"]
    <3>1. 1 \in Streams
      BY StreamRelayAssumption DEF Streams
    <3>2. relay.cur = 1 /\ relay.pending = <<>> /\ DOMAIN relay = RelayFields /\ ~relay.closed
      BY <2>1 DEF RelayInv, PhaseInv, ShapeInv, AccountInv, ContextInv
    <3> QED
      BY <2>1, <3>1, <3>2 DEF RelayFields
  <2>2. CASE /\ relay.phase = "retrying"
             /\ wrap' = [wrap EXCEPT ![relay.boots + 1] = Wrapped]
             /\ relay' = [relay EXCEPT !.phase = "loop", !.cur = relay.boots + 1,
                                        !.pending = <<>>, !.closed = FALSE]
    <3>1. relay.boots + 1 \in Streams /\ DOMAIN relay = RelayFields
      BY StreamRelayAssumption DEF Streams, RelayInv, ShapeInv
    <3> QED
      BY <2>2, <3>1 DEF RelayFields
  <2> QED
    BY <2>1, <2>2 DEF TakeStream
<1>5. PICK k \in Streams :
        /\ wrap' = [wrap EXCEPT ![k] = Wrapped]
        /\ relay'.cur = k /\ relay'.pending = <<>> /\ relay'.phase \in {"initial", "loop"}
        /\ ~relay'.closed /\ relay'.err = relay.err
  BY <1>4
<1>6. DOMAIN wrap = Streams
  BY DEF RelayInv, ShapeInv
<1>7. /\ wrap'[k] = Wrapped
      /\ \A s \in Streams \ {k} : wrap'[s] = wrap[s]
  BY <1>5, <1>6
<1>8. relay.err # "bad" /\ relay.phase \notin Over
  BY <1>1 DEF AccountInv, ContextInv, Over
<1>9. FlagInv'
  BY <1>3, <1>7 DEF AccountInv, FlagInv
<1>10. ContextInv'
  BY <1>1, <1>2, <1>5, <1>8, RunningOn
<1>11. OpenInv'
  <2> SUFFICES ASSUME client = "here" PROVE OpenInv'
    BY <1>1 DEF OpenInv
  <2>1. /\ \A s \in Streams : ~IsOpen(wrap[s])
        /\ owed = IF Counted THEN 1 ELSE 0
    BY <1>1, <1>8 DEF AccountInv, OpenInv, RelayInv, ShapeInv
  <2>2. Counted <=> loop.pc # "errorStream"
    BY <1>1 DEF Counted
  <2>3. ~Counted'
    BY <1>2 DEF Counted
  <2>4. IsOpen(wrap'[k]) <=> Counted
    BY <1>3, <1>7, <2>2 DEF IsOpen
  <2>5. \A s \in Streams : IsOpen(wrap'[s]) => s = k
    BY <1>7, <2>1 DEF IsOpen
  <2>6. IsOpen(wrap'[relay'.cur]) <=> IsOpen(wrap'[k])
    BY <1>5 DEF IsOpen
  <2>7. owed' = IF Counted THEN 1 ELSE 0
    BY <1>1, <2>1
  <2> QED
    BY <1>5, <2>3, <2>4, <2>5, <2>6, <2>7 DEF OpenInv
<1> QED
  BY <1>9, <1>10, <1>11 DEF AccountInv

\* A chunk that is an error closes the stream and is its result, if the
\* stream had none.
LEMMA ReceiveAccounts ==
  ASSUME ShapeInv, FlagInv, NEW s \in Streams, NEW c, Receive(s, c)
  PROVE  /\ FlagInv' /\ wrap[s].st # "ended" /\ UNCHANGED <<loop, ctx>>
         /\ \A u \in Streams : IsOpen(wrap'[u]) => IsOpen(wrap[u])
         /\ \A u \in Streams \ {s} : IsOpen(wrap'[u]) = IsOpen(wrap[u])
         /\ IsError(c) => ~IsOpen(wrap'[s])
         /\ owed \in Int => owed' = owed - (IF IsOpen(wrap[s]) THEN 1 ELSE 0)
                                         + (IF IsOpen(wrap'[s]) THEN 1 ELSE 0)
<1>1. /\ wrap' = [wrap EXCEPT ![s] = AfterOffer(@, c)] /\ UNCHANGED <<loop, ctx>>
      /\ c \in Offers(s) /\ MarksOffer(s, c)
  BY DEF Receive
<1>2. wrap[s].st \in {"error", "on"}
  BY <1>1, OfferFacts
<1>3. /\ wrap'[s] = AfterOffer(wrap[s], c)
      /\ \A u \in Streams \ {s} : wrap'[u] = wrap[u]
  BY <1>1 DEF ShapeInv
<1>4. /\ AfterOffer(wrap[s], c).st = IF wrap[s].st = "error" THEN "ended" ELSE wrap[s].st
      /\ AfterOffer(wrap[s], c).failed = (wrap[s].failed \/ IsError(c))
  BY DEF ShapeInv, AfterOffer, WrapFields
<1>5. FlagInv'
  BY <1>3, <1>4 DEF FlagInv
<1>6. IsOpen(wrap'[s]) <=> IsOpen(wrap[s]) /\ ~IsError(c)
  BY <1>2, <1>3, <1>4 DEF IsOpen
<1>7. \A u \in Streams \ {s} : IsOpen(wrap'[u]) = IsOpen(wrap[u])
  BY <1>3 DEF IsOpen
<1>8. owed' = IF IsOpen(wrap[s]) /\ IsError(c) THEN owed - 1 ELSE owed
  BY <1>1 DEF MarksOffer, IsOpen
<1> QED
  BY <1>1, <1>2, <1>5, <1>6, <1>7, <1>8

\* What the relay does with a chunk leaves its stream open only if it reads on.
LEMMA HandleAccounts ==
  ASSUME DOMAIN relay = RelayFields, relay.phase = "loop", relay.err # "bad", NEW c
  PROVE  LET r == Handle(c) IN
         /\ DOMAIN r = RelayFields
         /\ r.cur = relay.cur /\ r.pending = relay.pending /\ r.closed = relay.closed
         /\ r.phase \in {"retry", "report", "send", "loop"}
         /\ r.err = "bad" => r.phase = "report"
         /\ IsError(c) \/ r.err = "bad" \/ r.phase \in {"send", "loop"}
<1>1. CASE IsError(c) /\ ~relay.sent /\ relay.boots < BootstrapRetries /\ Eligible(c)
  <2>1. Handle(c) = [relay EXCEPT !.phase = "retry", !.boots = @ + 1]
    BY <1>1 DEF Handle
  <2> QED
    BY <1>1, <2>1 DEF RelayFields
<1>2. CASE IsError(c) /\ ~(~relay.sent /\ relay.boots < BootstrapRetries /\ Eligible(c))
  <2>1. Handle(c) = [relay EXCEPT !.phase = "report", !.err = c]
    BY <1>2 DEF Handle
  <2> QED
    BY <1>2, <2>1 DEF RelayFields
<1>3. CASE ~IsError(c)
  <2>1. c \in {"empty", "payload", "bad"}
    BY <1>3 DEF IsError
  <2>2. Handle(c) = CASE c = "bad" -> [relay EXCEPT !.phase = "report", !.err = "bad"]
                      [] c = "payload" -> [relay EXCEPT !.phase = "send", !.sent = TRUE]
                      [] OTHER -> relay
    BY <1>3 DEF Handle
  <2>3. CASE c = "bad"
    BY <2>2, <2>3 DEF RelayFields
  <2>4. CASE c = "payload"
    BY <2>2, <2>4 DEF RelayFields
  <2>5. CASE c = "empty"
    BY <2>2, <2>5 DEF RelayFields
  <2> QED
    BY <2>1, <2>3, <2>4, <2>5
<1> QED
  BY <1>1, <1>2, <1>3

\* A chunk read first keeps the account, ...
LEMMA InitialAccounts ==
  ASSUME RelayInv, AccountInv, NEW c \in Chunks, Initial(c) PROVE AccountInv'
<1>1. /\ relay.phase = "initial" /\ Receive(relay.cur, c)
      /\ relay' = [relay EXCEPT !.pending = Append(@, c),
                                !.phase = IF c = "empty" THEN @ ELSE "loop"]
      /\ writer' = IF c = "empty" THEN writer ELSE [writer EXCEPT !.phase = "peek"]
      /\ UNCHANGED <<client, errs, dataOpen>>
      /\ DOMAIN relay = RelayFields /\ DOMAIN writer = {"phase", "dialect"}
      /\ relay.cur \in Streams /\ relay.pending \in Seq(Chunks)
      /\ \A i \in 1..Len(relay.pending) : relay.pending[i] = "empty"
      /\ loop.pc = "idle"
  BY DEF Initial, RelayInv, ShapeInv, PhaseInv
<1>2. /\ FlagInv' /\ wrap[relay.cur].st # "ended" /\ UNCHANGED <<loop, ctx>>
      /\ \A u \in Streams : IsOpen(wrap'[u]) => IsOpen(wrap[u])
      /\ IsError(c) => ~IsOpen(wrap'[relay.cur])
      /\ owed \in Int => owed' = owed - (IF IsOpen(wrap[relay.cur]) THEN 1 ELSE 0)
                                      + (IF IsOpen(wrap'[relay.cur]) THEN 1 ELSE 0)
  BY <1>1, ReceiveAccounts DEF RelayInv, AccountInv
<1>3. /\ relay'.cur = relay.cur /\ relay'.pending = Append(relay.pending, c)
      /\ relay'.closed = relay.closed /\ relay'.err = relay.err
      /\ relay'.phase \in {"initial", "loop"}
  BY <1>1 DEF RelayFields
<1>4. relay.err # "bad" /\ ~relay.closed /\ loop.kind = "stream"
  BY <1>1, <1>2 DEF AccountInv, ContextInv, Over
<1>5. ContextInv'
  <2>1. relay.phase \notin Over /\ relay.phase # "off"
    BY <1>1 DEF Over
  <2>2. writer' = writer \/ writer'.phase \notin {"respond", "ended"}
    BY <1>1
  <2>3. /\ relay'.phase # "off" /\ loop'.kind = "stream" /\ ~relay'.closed
        /\ relay'.err # "bad" /\ UNCHANGED <<client, ctx, errs, dataOpen>>
    BY <1>1, <1>2, <1>3, <1>4
  <2> QED
    BY <2>1, <2>2, <2>3, RunningOn
<1>6. OpenInv'
  <2> SUFFICES ASSUME client = "here" PROVE OpenInv'
    BY <1>1 DEF OpenInv
  <2>1. /\ \A s \in Streams : IsOpen(wrap[s]) => s = relay.cur
        /\ owed = IF IsOpen(wrap[relay.cur]) THEN 1 ELSE 0
    BY <1>1, <1>4 DEF AccountInv, OpenInv, Counted
  <2>2. owed' = IF IsOpen(wrap'[relay.cur]) THEN 1 ELSE 0
    BY <1>2, <2>1
  <2>3. (\E i \in 1..Len(relay'.pending) : IsError(relay'.pending[i])) => IsError(c)
    <3>1. /\ Len(relay'.pending) = Len(relay.pending) + 1 /\ Len(relay.pending) \in Nat
          /\ \A i \in 1..Len(relay.pending) : relay'.pending[i] = relay.pending[i]
          /\ relay'.pending[Len(relay.pending) + 1] = c
      BY <1>1, <1>3, AppendProperties, LenProperties
    <3>2. \A i \in 1..Len(relay'.pending) :
             i \in 1..Len(relay.pending) \/ i = Len(relay.pending) + 1
      BY <3>1
    <3>3. \A i \in 1..Len(relay.pending) : ~IsError(relay'.pending[i])
      BY <1>1, <3>1 DEF IsError
    <3> QED
      BY <3>1, <3>2, <3>3
  <2> QED
    BY <1>1, <1>2, <1>3, <2>1, <2>2, <2>3 DEF OpenInv, Counted
<1> QED
  BY <1>2, <1>5, <1>6 DEF AccountInv

\* ... as does one read later, ...
LEMMA NextReceivedAccounts ==
  ASSUME RelayInv, AccountInv, NEW c \in Chunks, NextReceived(c) PROVE AccountInv'
<1>1. /\ relay.phase = "loop" /\ relay.pending = <<>> /\ Receive(relay.cur, c)
      /\ relay' = Handle(c) /\ ~relay.closed
      /\ UNCHANGED <<client, writer, errs, dataOpen>>
      /\ DOMAIN relay = RelayFields /\ relay.cur \in Streams /\ loop.pc = "idle"
  BY DEF NextReceived, RelayVars, RelayInv, ShapeInv, PhaseInv
<1>2. /\ FlagInv' /\ wrap[relay.cur].st # "ended" /\ UNCHANGED <<loop, ctx>>
      /\ \A u \in Streams : IsOpen(wrap'[u]) => IsOpen(wrap[u])
      /\ IsError(c) => ~IsOpen(wrap'[relay.cur])
      /\ owed \in Int => owed' = owed - (IF IsOpen(wrap[relay.cur]) THEN 1 ELSE 0)
                                      + (IF IsOpen(wrap'[relay.cur]) THEN 1 ELSE 0)
  BY <1>1, ReceiveAccounts DEF RelayInv, AccountInv
<1>3. relay.err # "bad" /\ loop.kind = "stream"
  BY <1>1 DEF AccountInv, ContextInv, Over
<1>4. /\ relay'.cur = relay.cur /\ relay'.pending = <<>> /\ ~relay'.closed
      /\ relay'.phase \in {"retry", "report", "send", "loop"}
      /\ relay'.err = "bad" => relay'.phase = "report"
      /\ IsError(c) \/ relay'.err = "bad" \/ relay'.phase \in {"send", "loop"}
  BY <1>1, <1>3, HandleAccounts
<1>5. ContextInv'
  <2>1. /\ relay.phase \notin Over /\ relay.phase # "off" /\ relay'.phase # "off"
        /\ loop'.kind = "stream" /\ UNCHANGED <<client, ctx, errs, dataOpen>>
    BY <1>1, <1>2, <1>3, <1>4 DEF Over
  <2> QED
    BY <1>1, <1>4, <2>1, RunningOn
<1>6. OpenInv'
  <2> SUFFICES ASSUME client = "here", relay'.err # "bad" PROVE OpenInv'
    BY <1>1 DEF OpenInv
  <2>1. /\ \A s \in Streams : IsOpen(wrap[s]) => s = relay.cur
        /\ owed = IF IsOpen(wrap[relay.cur]) THEN 1 ELSE 0
    BY <1>1, <1>3 DEF AccountInv, OpenInv, Counted
  <2>2. owed' = IF IsOpen(wrap'[relay.cur]) THEN 1 ELSE 0
    BY <1>2, <2>1
  <2> QED
    BY <1>1, <1>2, <1>4, <2>1, <2>2 DEF OpenInv, Counted
<1> QED
  BY <1>2, <1>5, <1>6 DEF AccountInv

\* ... and one that waited.
LEMMA NextPendingAccounts ==
  ASSUME RelayInv, AccountInv, NextPending PROVE AccountInv'
<1> DEFINE c == Head(relay.pending)
           h == Handle(c)
<1>1. /\ relay.phase = "loop" /\ relay.pending # <<>>
      /\ relay' = [h EXCEPT !.pending = Tail(@)]
      /\ UNCHANGED <<loop, ctx, owed, wrap, client, writer, errs, dataOpen>>
      /\ DOMAIN relay = RelayFields /\ relay.pending \in Seq(Chunks) /\ loop.pc = "idle"
  BY DEF NextPending, loopVars, RelayVars, RelayInv, ShapeInv, PhaseInv
<1>2. relay.err # "bad" /\ loop.kind = "stream"
  BY <1>1 DEF AccountInv, ContextInv, Over
<1>3. /\ DOMAIN h = RelayFields
      /\ h.cur = relay.cur /\ h.pending = relay.pending /\ h.closed = relay.closed
      /\ h.phase \in {"retry", "report", "send", "loop"}
      /\ h.err = "bad" => h.phase = "report"
      /\ IsError(c) \/ h.err = "bad" \/ h.phase \in {"send", "loop"}
  BY <1>1, <1>2, HandleAccounts
<1>4. /\ \A i \in 1..Len(Tail(relay.pending)) :
            /\ Tail(relay.pending)[i] = relay.pending[i + 1]
            /\ i + 1 \in 1..Len(relay.pending)
      /\ c = relay.pending[1] /\ 1 \in 1..Len(relay.pending)
  <2>1. /\ Len(Tail(relay.pending)) = Len(relay.pending) - 1
        /\ Len(relay.pending) \in Nat \ {0}
        /\ \A i \in 1..Len(Tail(relay.pending)) : Tail(relay.pending)[i] = relay.pending[i + 1]
        /\ c = relay.pending[1]
    BY <1>1, HeadTailProperties, EmptySeq
  <2> QED
    BY <2>1
<1> HIDE DEF c, h
<1>5. /\ relay'.cur = relay.cur /\ relay'.pending = Tail(relay.pending)
      /\ relay'.closed = relay.closed /\ relay'.phase = h.phase /\ relay'.err = h.err
  BY <1>1, <1>3 DEF RelayFields
<1>6. FlagInv'
  BY <1>1 DEF AccountInv, FlagInv
<1>7. ContextInv'
  <2>1. /\ relay.phase \notin Over /\ relay.phase # "off" /\ relay'.phase # "off"
        /\ loop'.kind = "stream" /\ UNCHANGED <<client, ctx, errs, dataOpen>>
        /\ writer' = writer
    BY <1>1, <1>2, <1>3, <1>5 DEF Over
  <2>2. relay'.closed => wrap'[relay'.cur].st = "ended"
    BY <1>1, <1>5 DEF AccountInv, ContextInv
  <2>3. relay'.err = "bad" => relay'.phase \in {"report"} \cup Over
    BY <1>3, <1>5
  <2> QED
    BY <2>1, <2>2, <2>3, RunningOn
<1>8. OpenInv'
  <2> SUFFICES ASSUME client = "here", relay'.err # "bad" PROVE OpenInv'
    BY <1>1 DEF OpenInv
  <2>1. /\ \A s \in Streams : IsOpen(wrap[s]) => s = relay.cur
        /\ (\E i \in 1..Len(relay.pending) : IsError(relay.pending[i]))
              => ~IsOpen(wrap[relay.cur])
        /\ owed = IF IsOpen(wrap[relay.cur]) THEN 1 ELSE 0
    BY <1>1, <1>2 DEF AccountInv, OpenInv, Counted
  <2>2. IsError(c) => ~IsOpen(wrap[relay.cur])
    BY <1>4, <2>1
  <2>3. (\E i \in 1..Len(relay'.pending) : IsError(relay'.pending[i]))
           => ~IsOpen(wrap[relay.cur])
    BY <1>4, <1>5, <2>1
  <2> QED
    BY <1>1, <1>3, <1>5, <2>1, <2>2, <2>3 DEF OpenInv, Counted
<1> QED
  BY <1>6, <1>7, <1>8 DEF AccountInv

\* The relay's other steps touch no stream, and leave none that is open behind.
LEMMA RelayMoves ==
  ASSUME RelayInv, AccountInv, UNCHANGED <<wrap, client, owed>>,
         ~Counted, ~Counted', ContextInv', relay'.cur = relay.cur,
         relay'.pending = relay.pending, client = "here" => relay.err # "bad" \/ relay'.err = "bad",
         \/ relay.phase \notin {"initial", "loop", "send"}
         \/ relay'.phase \in {"initial", "loop", "send"}
         \/ client = "here" => ~IsOpen(wrap[relay.cur])
  PROVE  AccountInv'
<1>1. FlagInv'
  BY DEF AccountInv, FlagInv
<1>2. OpenInv'
  <2> SUFFICES ASSUME client = "here", relay'.err # "bad" PROVE OpenInv'
    BY DEF OpenInv
  <2>1. /\ \A s \in Streams :
              IsOpen(wrap[s]) => s = relay.cur /\ relay.phase \in {"initial", "loop", "send"}
        /\ (\E i \in 1..Len(relay.pending) : IsError(relay.pending[i]))
              => ~IsOpen(wrap[relay.cur])
        /\ owed = IF IsOpen(wrap[relay.cur]) THEN 1 ELSE 0
    BY DEF AccountInv, OpenInv
  <2>2. \A s \in Streams : IsOpen(wrap[s]) => relay'.phase \in {"initial", "loop", "send"}
    BY <2>1
  <2> QED
    BY <2>1, <2>2 DEF OpenInv
<1> QED
  BY <1>1, <1>2 DEF AccountInv

\* There is no stream behind an error that the manager returns, ...
LEMMA FirstFailsAccounts ==
  ASSUME RelayInv, AccountInv, FirstFails PROVE AccountInv'
<1>1. /\ loop.kind = "stream" /\ relay.phase = "off" /\ loop.pc = "error"
      /\ errs' = [msgs |-> <<loop.lastErr>>, closed |-> TRUE]
      /\ writer' = [writer EXCEPT !.phase = "peek"]
      /\ relay' = [relay EXCEPT !.phase = "absent"]
      /\ UNCHANGED <<loop, ctx, owed, client, wrap, dataOpen>>
      /\ DOMAIN relay = RelayFields /\ DOMAIN writer = {"phase", "dialect"}
  BY DEF FirstFails, Streaming, loopVars, RelayInv, ShapeInv
<1>2. /\ relay'.cur = relay.cur /\ relay'.pending = relay.pending /\ relay'.err = relay.err
      /\ relay'.closed = relay.closed /\ relay'.phase = "absent" /\ writer'.phase = "peek"
  BY <1>1 DEF RelayFields
<1>3. relay.err # "bad" /\ ~relay.closed /\ dataOpen
  BY <1>1 DEF AccountInv, ContextInv, Over
<1>4. client = "here" => ~ctx
  BY <1>1, Running DEF Over
<1>5. ContextInv'
  BY <1>1, <1>2, <1>3, <1>4 DEF ContextInv, Over
<1> QED
  BY <1>1, <1>2, <1>3, <1>5, RelayMoves DEF Counted

\* ... nor behind one that ended before anything was sent.
LEMMA InitialEndsAccounts ==
  ASSUME RelayInv, AccountInv, InitialEnds PROVE AccountInv'
<1>1. /\ relay.phase = "initial" /\ loop.pc = "idle"
      /\ \/ /\ wrap[relay.cur].st = "ended"
            /\ relay' = [relay EXCEPT !.phase = "loop", !.closed = TRUE]
         \/ ctx /\ relay' = [relay EXCEPT !.phase = "closing"]
      /\ writer' = [writer EXCEPT !.phase = "peek"]
      /\ UNCHANGED <<loop, ctx, owed, client, wrap, errs, dataOpen>>
      /\ DOMAIN relay = RelayFields /\ DOMAIN writer = {"phase", "dialect"}
  BY DEF InitialEnds, loopVars, RelayInv, ShapeInv, PhaseInv
<1>2. /\ relay'.cur = relay.cur /\ relay'.pending = relay.pending /\ relay'.err = relay.err
      /\ \/ wrap[relay.cur].st = "ended" /\ relay'.phase = "loop" /\ relay'.closed
         \/ ctx /\ relay'.phase = "closing" /\ relay'.closed = relay.closed
      /\ writer'.phase = "peek"
  BY <1>1 DEF RelayFields
<1>3. relay.err # "bad" /\ loop.kind = "stream"
      /\ (relay.closed => wrap[relay.cur].st = "ended")
  BY <1>1 DEF AccountInv, ContextInv, Over
<1>4. relay.phase \notin Over /\ relay.phase # "off"
  BY <1>1 DEF Over
<1>5. ContextInv'
  BY <1>1, <1>2, <1>3, <1>4, RunningOn DEF Over
<1>6. client = "here" => ~ctx
  BY <1>4, Running
<1> QED
  BY <1>1, <1>2, <1>3, <1>5, <1>6, RelayMoves DEF Counted, IsOpen

\* A relay with nothing left to read leaves no stream open.
LEMMA NoMoreChunksAccounts ==
  ASSUME RelayInv, AccountInv, NoMoreChunks PROVE AccountInv'
<1>1. /\ relay.phase = "loop" /\ loop.pc = "idle"
      /\ relay.closed \/ ctx \/ wrap[relay.cur].st = "ended"
      /\ relay' = [relay EXCEPT !.phase = "closing"]
      /\ UNCHANGED <<loop, ctx, owed, client, writer, wrap, errs, dataOpen>>
      /\ DOMAIN relay = RelayFields
  BY DEF NoMoreChunks, loopVars, RelayVars, RelayInv, ShapeInv, PhaseInv
<1>2. /\ relay'.cur = relay.cur /\ relay'.pending = relay.pending /\ relay'.err = relay.err
      /\ relay'.phase = "closing" /\ relay'.closed = relay.closed
  BY <1>1 DEF RelayFields
<1>3. relay.err # "bad" /\ loop.kind = "stream"
      /\ (relay.closed => wrap[relay.cur].st = "ended")
  BY <1>1 DEF AccountInv, ContextInv, Over
<1>4. relay.phase \notin Over /\ relay.phase # "off"
  BY <1>1 DEF Over
<1>5. ContextInv'
  BY <1>1, <1>2, <1>3, <1>4, RunningOn DEF Over
<1>6. client = "here" => ~ctx
  BY <1>4, Running
<1>7. client = "here" => ~IsOpen(wrap[relay.cur])
  BY <1>1, <1>3, <1>6 DEF IsOpen
<1> QED
  BY <1>1, <1>2, <1>3, <1>5, <1>7, RelayMoves DEF Counted

\* A retry starts with the stream before it closed.
LEMMA RetryAccounts ==
  ASSUME RelayInv, AccountInv, Retry \/ RetryFails PROVE AccountInv'
<1>1. /\ DOMAIN relay = RelayFields /\ DOMAIN loop = LoopFields
      /\ UNCHANGED <<ctx, owed, client, writer, wrap, errs, dataOpen>>
      /\ relay.phase \in {"retry", "retrying"}
  BY DEF Retry, RetryFails, CtxVars, RelayVars, RelayInv, ShapeInv
<1>2. /\ loop'.kind = loop.kind /\ loop.pc \in {"idle", "error"} /\ loop'.pc \in {"pick", "idle"}
      /\ relay'.cur = relay.cur /\ relay'.pending = relay.pending
      /\ relay'.closed = relay.closed
      /\ \/ relay'.phase = "retrying" /\ relay'.err = relay.err
         \/ relay'.phase = "report"
  <2>1. CASE Retry
    <3>1. /\ loop.pc = "idle" /\ loop' = [Idle(loop.kind) EXCEPT !.pc = "pick"]
          /\ relay' = [relay EXCEPT !.phase = "retrying"]
      BY <2>1 DEF Retry, Begin
    <3>2. loop'.kind = loop.kind /\ loop'.pc = "pick"
      BY <3>1, IdleShape DEF LoopFields
    <3> QED
      BY <1>1, <3>1, <3>2 DEF RelayFields
  <2>2. CASE RetryFails
    <3>1. /\ loop.pc = "error" /\ loop' = Taken
          /\ relay' = [relay EXCEPT !.phase = "report", !.err = loop.lastErr]
      BY <2>2 DEF RetryFails
    <3>2. loop'.kind = loop.kind /\ loop'.pc = "idle"
      BY <3>1, IdleShape DEF Taken, LoopFields
    <3> QED
      BY <1>1, <3>1, <3>2 DEF RelayFields
  <2> QED
    BY <2>1, <2>2
<1>3. relay.err # "bad" /\ loop.kind = "stream"
      /\ (relay.closed => wrap[relay.cur].st = "ended")
  BY <1>1 DEF AccountInv, ContextInv, Over
<1>4. relay.phase \notin Over /\ relay.phase # "off"
  BY <1>1 DEF Over
<1>5. ContextInv'
  BY <1>1, <1>2, <1>3, <1>4, RunningOn
<1> QED
  BY <1>1, <1>2, <1>3, <1>5, RelayMoves DEF Counted

\* A report leaves nothing open.
LEMMA ReportAccounts ==
  ASSUME RelayInv, AccountInv, Report \/ SendCancelled PROVE AccountInv'
<1>1. /\ DOMAIN relay = RelayFields /\ loop.pc = "idle"
      /\ relay' = [relay EXCEPT !.phase = "closing"]
      /\ UNCHANGED <<loop, ctx, owed, client, writer, wrap, dataOpen>>
      /\ relay.phase = "report" \/ (relay.phase = "send" /\ ctx /\ UNCHANGED errs)
  BY DEF Report, SendCancelled, loopVars, RelayVars, RelayInv, ShapeInv, PhaseInv
<1>2. /\ relay'.cur = relay.cur /\ relay'.pending = relay.pending /\ relay'.err = relay.err
      /\ relay'.phase = "closing" /\ relay'.closed = relay.closed
  BY <1>1 DEF RelayFields
<1>3. loop.kind = "stream" /\ (relay.closed => wrap[relay.cur].st = "ended")
  BY <1>1 DEF AccountInv, ContextInv
<1>4. relay.phase \notin Over /\ relay.phase # "off"
  BY <1>1 DEF Over
<1>5. dataOpen /\ writer.phase # "respond" /\ (client = "here" => ~ctx /\ writer.phase # "ended")
  BY <1>4, Running
<1>6. ContextInv'
  BY <1>1, <1>2, <1>3, <1>5 DEF ContextInv, Over
<1> QED
  BY <1>1, <1>2, <1>5, <1>6, RelayMoves DEF Counted

\* So does the closing of its channels.
LEMMA CloseAccounts ==
  ASSUME RelayInv, AccountInv, CloseErrs \/ CloseData PROVE AccountInv'
<1>1. /\ DOMAIN relay = RelayFields /\ loop.pc = "idle"
      /\ relay.phase \in {"closing", "closed"}
      /\ \/ /\ relay' = [relay EXCEPT !.phase = "closed"] /\ UNCHANGED dataOpen
            /\ relay.phase = "closing"
         \/ /\ relay' = [relay EXCEPT !.phase = "gone"]
      /\ UNCHANGED <<loop, ctx, owed, client, writer, wrap>>
  BY DEF CloseErrs, CloseData, loopVars, RelayInv, ShapeInv, PhaseInv
<1>2. /\ relay'.cur = relay.cur /\ relay'.pending = relay.pending /\ relay'.err = relay.err
      /\ relay'.closed = relay.closed
      /\ relay'.phase = "gone" \/ (relay'.phase = "closed" /\ dataOpen' = dataOpen
                                   /\ relay.phase = "closing")
  BY <1>1 DEF RelayFields
<1>3. ContextInv'
  BY <1>1, <1>2 DEF AccountInv, ContextInv, Over
<1> QED
  BY <1>1, <1>2, <1>3, RelayMoves DEF Counted

\* A stream that ends has had its result, or has it now.
LEMMA UpstreamAccounts ==
  ASSUME RelayInv, AccountInv, Upstreams PROVE AccountInv'
<1>1. PICK s \in Streams : WrapEnds(s) \/ WrapCancelled(s)
  BY DEF Upstreams
<1>2. /\ wrap[s].st = "on" /\ wrap' = [wrap EXCEPT ![s].st = "ended"]
      /\ UNCHANGED <<loop, ctx, client, writer, relay, errs, dataOpen>>
      /\ DOMAIN wrap = Streams /\ DOMAIN wrap[s] = WrapFields /\ relay.cur \in Streams
  BY <1>1 DEF WrapEnds, WrapCancelled, RelayInv, ShapeInv
<1>3. /\ wrap'[s].st = "ended" /\ wrap'[s].failed = wrap[s].failed
      /\ \A u \in Streams \ {s} : wrap'[u] = wrap[u]
  BY <1>2 DEF WrapFields
<1>4. FlagInv'
  BY <1>3 DEF AccountInv, FlagInv
<1>5. ContextInv'
  <2>1. wrap[relay.cur].st = "ended" => wrap'[relay.cur].st = "ended"
    BY <1>2, <1>3
  <2> QED
    BY <1>2, <2>1 DEF AccountInv, ContextInv, Returned
<1>6. OpenInv'
  <2> SUFFICES ASSUME client = "here", relay.err # "bad" PROVE OpenInv'
    BY <1>2 DEF OpenInv
  <2>1. /\ \A u \in Streams :
              IsOpen(wrap[u]) => u = relay.cur /\ relay.phase \in {"initial", "loop", "send"}
        /\ (\E i \in 1..Len(relay.pending) : IsError(relay.pending[i]))
              => ~IsOpen(wrap[relay.cur])
        /\ owed = (IF Counted THEN 1 ELSE 0) + (IF IsOpen(wrap[relay.cur]) THEN 1 ELSE 0)
    BY DEF AccountInv, OpenInv
  <2>2. owed' = IF wrap[s].failed THEN owed ELSE owed - 1
    <3>1. CASE WrapEnds(s)
      BY <3>1 DEF WrapEnds
    <3>2. CASE WrapCancelled(s)
      <4>1. relay.phase \in Over \/ relay.phase = "off"
        BY <3>2 DEF WrapCancelled, AccountInv, ContextInv
      <4>2. ~IsOpen(wrap[s])
        BY <2>1, <4>1 DEF Over
      <4>3. wrap[s].failed
        BY <1>2, <4>2 DEF IsOpen
      <4> QED
        BY <3>2, <4>3 DEF WrapCancelled, MarksOffer
    <3> QED
      BY <1>1, <3>1, <3>2
  <2>3. /\ ~IsOpen(wrap'[s])
        /\ IsOpen(wrap[s]) <=> ~wrap[s].failed
        /\ \A u \in Streams \ {s} : IsOpen(wrap'[u]) <=> IsOpen(wrap[u])
    BY <1>2, <1>3 DEF IsOpen
  <2>4. IsOpen(wrap'[relay.cur]) => IsOpen(wrap[relay.cur])
    BY <1>2, <2>3
  <2>5. Counted' <=> Counted
    BY <1>2 DEF Counted
  <2>6. owed' = (IF Counted THEN 1 ELSE 0) + (IF IsOpen(wrap'[relay.cur]) THEN 1 ELSE 0)
    <3>1. CASE IsOpen(wrap[s])
      <4>1. s = relay.cur
        BY <2>1, <3>1
      <4> QED
        BY <2>1, <2>2, <2>3, <3>1, <4>1
    <3>2. CASE ~IsOpen(wrap[s])
      <4>1. owed' = owed
        BY <2>2, <2>3, <3>2
      <4>2. IsOpen(wrap'[relay.cur]) <=> IsOpen(wrap[relay.cur])
        BY <1>2, <2>3, <3>2
      <4> QED
        BY <2>1, <4>1, <4>2
    <3> QED
      BY <3>1, <3>2
  <2> QED
    BY <1>2, <2>1, <2>3, <2>4, <2>5, <2>6 DEF OpenInv
<1> QED
  BY <1>4, <1>5, <1>6 DEF AccountInv

\* Steps that leave the loop, the relay and the streams as they are.
LEMMA OpenKept ==
  ASSUME OpenInv, UNCHANGED <<loop, owed, wrap, relay>>, client = "gone" => client' = "gone",
         client' \in {client, "gone"}
  PROVE  OpenInv'
BY DEF OpenInv, Counted

\* The writer begins the request, forwards, and ends it.
LEMMA WriterAccounts ==
  ASSUME RelayInv, AccountInv, Writer PROVE AccountInv'
<1>0. DOMAIN writer = {"phase", "dialect"} /\ DOMAIN relay = RelayFields
      /\ DOMAIN loop = LoopFields
  BY DEF RelayInv, ShapeInv
<1>1. CASE Start
  <2>1. /\ loop.pc = "idle" /\ relay.phase = "off"
        /\ loop' = [Idle(loop.kind) EXCEPT !.pc = "pick"]
        /\ writer' = [writer EXCEPT !.phase = "blocked"] /\ writer.phase = "start"
        /\ UNCHANGED <<ctx, owed, client, relay, wrap, errs, dataOpen>>
    BY <1>1 DEF Start, Begin, RelayInv, PhaseInv
  <2>2. loop'.kind = loop.kind /\ loop'.pc = "pick" /\ writer'.phase = "blocked"
    BY <1>0, <2>1, IdleShape DEF LoopFields
  <2>3. FlagInv' /\ ContextInv'
    BY <2>1, <2>2 DEF AccountInv, FlagInv, ContextInv
  <2> QED
    BY <2>1, <2>2, <2>3 DEF AccountInv, OpenInv, Counted
<1>2. CASE StopTicker
  <2>1. /\ loop.kind # "stream" /\ Returned
        /\ writer' = [writer EXCEPT !.phase = "respond"]
        /\ UNCHANGED <<loop, ctx, owed, client, relay, wrap, errs, dataOpen>>
        /\ writer.phase = "blocked"
    BY <1>2 DEF StopTicker, Streaming, loopVars
  <2>2. writer'.phase = "respond"
    BY <1>0, <2>1
  <2>3. FlagInv' /\ ContextInv'
    BY <2>1, <2>2 DEF AccountInv, FlagInv, ContextInv, Returned
  <2> QED
    BY <2>1, <2>3, OpenKept DEF AccountInv
<1>3. CASE Respond
  <2>1. /\ writer.phase = "respond" /\ writer' = [writer EXCEPT !.phase = "ended"]
        /\ ctx' = TRUE
        /\ UNCHANGED <<loop, owed, client, relay, wrap, errs, dataOpen>>
    BY <1>3 DEF Respond, Finish, CtxVars
  <2>2. writer'.phase = "ended"
    BY <1>0, <2>1
  <2>3. FlagInv' /\ ContextInv'
    BY <2>1, <2>2 DEF AccountInv, FlagInv, ContextInv, Returned
  <2> QED
    BY <2>1, <2>3, OpenKept DEF AccountInv
<1>4. CASE WriteError \/ WriteDone \/ WriterCancelled
  <2>1. /\ writer' = [writer EXCEPT !.phase = "ended"] /\ ctx' = TRUE
        /\ UNCHANGED <<loop, owed, client, relay, wrap, dataOpen>>
        /\ errs.msgs # <<>> \/ ~dataOpen \/ (client = "gone" /\ UNCHANGED errs)
    BY <1>4 DEF WriteError, WriteDone, WriterCancelled, Finish, CtxVars, WriterVars
  <2>2. writer'.phase = "ended"
    BY <1>0, <2>1
  <2>3. FlagInv' /\ ContextInv'
    BY <2>1, <2>2 DEF AccountInv, FlagInv, ContextInv, Over
  <2> QED
    BY <2>1, <2>3, OpenKept DEF AccountInv
<1>5. CASE WriteChunk
  <2>1. /\ relay.phase = "send" /\ relay' = [relay EXCEPT !.phase = "loop"]
        /\ writer' = [writer EXCEPT !.phase = "forward"] /\ loop.pc = "idle"
        /\ UNCHANGED <<loop, ctx, owed, client, wrap, errs, dataOpen>>
    BY <1>5 DEF WriteChunk, loopVars, RelayInv, PhaseInv
  <2>2. /\ relay'.cur = relay.cur /\ relay'.pending = relay.pending /\ relay'.err = relay.err
        /\ relay'.phase = "loop" /\ relay'.closed = relay.closed /\ writer'.phase = "forward"
    BY <1>0, <2>1 DEF RelayFields
  <2>3. relay.err # "bad" /\ loop.kind = "stream"
        /\ (relay.closed => wrap[relay.cur].st = "ended")
    BY <2>1 DEF AccountInv, ContextInv, Over
  <2>4. relay.phase \notin Over /\ relay.phase # "off"
    BY <2>1 DEF Over
  <2>5. ContextInv'
    BY <2>1, <2>2, <2>3, <2>4, RunningOn
  <2> QED
    BY <2>1, <2>2, <2>3, <2>5, RelayMoves DEF Counted
<1> QED
  BY <1>1, <1>2, <1>3, <1>4, <1>5 DEF Writer

\* A client that leaves, and a context that ends, open nothing.
LEMMA ClientAccounts ==
  ASSUME RelayInv, AccountInv, KeepAlive \/ TickerEnds \/ ClientLeaves \/ ContextEnds
  PROVE  AccountInv'
<1>1. /\ UNCHANGED <<loop, owed, wrap, relay, writer, errs, dataOpen>>
      /\ \/ UNCHANGED <<client, ctx>>
         \/ client' = "gone"
  BY DEF KeepAlive, TickerEnds, ClientLeaves, ContextEnds, loopVars, relayVars, CtxVars
<1>2. FlagInv' /\ ContextInv'
  BY <1>1 DEF AccountInv, FlagInv, ContextInv, Returned
<1>3. OpenInv'
  BY <1>1 DEF AccountInv, OpenInv, Counted
<1> QED
  BY <1>2, <1>3 DEF AccountInv

\* At the start there is nothing to account for.
LEMMA AccountInit == Init => AccountInv
<1> SUFFICES ASSUME Init PROVE AccountInv
  OBVIOUS
<1>1. PICK kind \in Kinds : LoopInit(kind)
  BY DEF Init
<1>2. loop.pc = "idle" /\ owed = 0 /\ ~ctx
  BY <1>1, IdleShape DEF LoopInit
<1>3. PICK d \in Dialects : writer = [phase |-> "start", dialect |-> d]
  BY DEF Init
<1>4. /\ relay = [phase |-> "off", cur |-> 1, pending |-> <<>>, closed |-> FALSE,
                  sent |-> FALSE, boots |-> 0, err |-> "none"]
      /\ wrap = [s \in Streams |-> NoWrap]
      /\ client = "here" /\ errs.msgs = <<>> /\ dataOpen
  BY DEF Init
<1>5. 1 \in Streams
  BY StreamRelayAssumption DEF Streams
<1>6. \A s \in Streams : ~IsOpen(wrap[s]) /\ wrap[s].failed \in BOOLEAN
  BY <1>4 DEF IsOpen, NoWrap
<1> QED
  BY <1>2, <1>3, <1>4, <1>5, <1>6 DEF AccountInv, FlagInv, ContextInv, OpenInv, Counted, Over

\* The account is inductive.
LEMMA AccountStep ==
  ASSUME RelayInv, AccountInv, [Next]_vars PROVE AccountInv'
<1>1. CASE UNCHANGED vars
  BY <1>1 DEF vars, loopVars, relayVars, AccountInv, FlagInv, ContextInv, OpenInv,
              Counted, Returned
<1>2. CASE Relay
  BY <1>2, TakeStreamAccounts, FirstFailsAccounts, InitialEndsAccounts, InitialAccounts,
     NextReceivedAccounts, NextPendingAccounts, NoMoreChunksAccounts, RetryAccounts,
     ReportAccounts, CloseAccounts DEF Relay
<1> QED
  BY <1>1, <1>2, ManagerAccounts, UpstreamAccounts, WriterAccounts, ClientAccounts DEF Next

\* While the client stays, every upstream call is answered for exactly once, by
\* a result or by its repetition with a refreshed credential, however often it
\* was retried and however its stream ended (conductor.go, MarkResult and
\* wrapStreamResult).
THEOREM ResultsAreAccounted == Spec => []ResultsAccountedFor
<1>1. RelayInv /\ AccountInv /\ [Next]_vars => (RelayInv /\ AccountInv)'
  BY RelayStep, AccountStep
<1>2. RelayInv /\ AccountInv => ResultsAccountedFor
  <2> SUFFICES ASSUME RelayInv, AccountInv, client = "here", relay.err # "bad"
               PROVE  owed = OpenCalls
    BY DEF ResultsAccountedFor
  <2> DEFINE open == {s \in Streams : wrap[s].st = "on" /\ ~wrap[s].failed}
  <2>1. /\ \A s \in Streams : IsOpen(wrap[s]) => s = relay.cur
        /\ owed = (IF Counted THEN 1 ELSE 0) + (IF IsOpen(wrap[relay.cur]) THEN 1 ELSE 0)
        /\ relay.cur \in Streams
    BY DEF AccountInv, OpenInv, RelayInv, ShapeInv
  <2>2. open = IF IsOpen(wrap[relay.cur]) THEN {relay.cur} ELSE {}
    BY <2>1 DEF IsOpen
  <2>3. Cardinality({}) = 0 /\ Cardinality({relay.cur}) = 1
    BY FS_EmptySet, FS_Singleton
  <2>4. Cardinality(open) = IF IsOpen(wrap[relay.cur]) THEN 1 ELSE 0
    BY <2>2, <2>3
  <2>5. OpenCalls = (IF Counted THEN 1 ELSE 0) + Cardinality(open)
    BY DEF OpenCalls, Counted
  <2> QED
    BY <2>1, <2>4, <2>5
<1> QED
  BY RelayInit, AccountInit, <1>1, <1>2, PTL DEF Spec

-----------------------------------------------------------------------------
(* What the client is sent *)

\* The chunks sent so far, before an error or the end.
Served == IF out # <<>> /\ out[Len(out)].what # "chunk" THEN Len(out) - 1 ELSE Len(out)

Chunk(s, n) == [what |-> "chunk", stream |-> s, n |-> n]

Items == [what : {"chunk", "blank", "error", "done", "body"}, stream : Nat, n : Nat]

StreamOut ==
    loop.kind = "stream" =>
        /\ ticker = "off"
        /\ writer.phase \in {"start", "blocked", "peek", "forward", "ended"}
        /\ relay.phase \in {"off", "initial"} => writer.phase \in {"start", "blocked"}
        /\ writer.phase \in {"start", "blocked", "peek"} => out = <<>>
        /\ writer.phase = "forward" => out # <<>>
        /\ \A i \in 1..Served : out[i] = Chunk(relay.cur, i)
        /\ out # <<>> /\ out[Len(out)].what # "chunk" =>
              writer.phase = "ended" /\ out[Len(out)].what \in {"error", "done"}
        /\ Served > 0 => relay.sent

PlainOut ==
    loop.kind # "stream" =>
        /\ writer.phase \in {"start", "blocked", "respond", "ended"}
        /\ writer.phase = "ended" => ticker = "off"
        /\ \A i \in 1..Len(out) :
              \/ out[i].what = "blank"
              \/ i = Len(out) /\ writer.phase = "ended" /\ out[i].what \in {"body", "error"}

\* Nothing of the stream that the relay reads is missing.
Complete ==
    /\ wrap[relay.cur].st = "ended" /\ ~wrap[relay.cur].failed
    /\ wrap[relay.cur].sent = Served

Pending(kinds) == \E i \in 1..Len(relay.pending) : relay.pending[i] \in kinds

CountInv ==
    /\ relay.phase \in {"off", "absent", "initial", "retry", "retrying"} => ~relay.sent
    /\ \A i \in 1..Len(relay.pending) : relay.pending[i] = "empty" \/ i = Len(relay.pending)
    /\ relay.phase \in {"initial", "loop"} =>
          /\ wrap[relay.cur].sent = Served + (IF Pending({"payload", "bad"}) THEN 1 ELSE 0)
          /\ wrap[relay.cur].failed => \E i \in 1..Len(relay.pending) : IsError(relay.pending[i])
    /\ relay.phase = "send" =>
          /\ relay.pending = <<>> /\ relay.sent /\ ~wrap[relay.cur].failed
          /\ wrap[relay.cur].sent = Served + 1
    /\ relay.phase \in {"closing", "closed", "gone"} /\ client = "here" /\ writer.phase # "ended" =>
          errs.msgs # <<>> \/ Complete

DoneInv ==
    Last("done") =>
        /\ relay.phase = "gone" /\ writer.phase = "ended"
        /\ Len(out) > 1 \/ writer.dialect = "claude" =>
              errs.msgs = <<>> /\ (client = "here" => Complete)

ErrorInv == IsError(loop.lastErr)

AnswerInv == out \in Seq(Items) /\ StreamOut /\ PlainOut /\ CountInv /\ DoneInv /\ ErrorInv

\* What the client has been served is a number of the items sent.
LEMMA ServedFacts ==
  ASSUME out \in Seq(Items)
  PROVE  /\ Len(out) \in Nat /\ Served \in 0..Len(out) /\ (Len(out) = 0 <=> out = <<>>)
         /\ out = <<>> => Served = 0
<1>1. Len(out) \in Nat /\ (Len(out) = 0 <=> out = <<>>)
  BY LenProperties, EmptySeq
<1> QED
  BY <1>1 DEF Served

\* A failure is remembered as an error.
LEMMA FailErrors ==
  ASSUME DOMAIN loop = LoopFields, NEW err, IsError(err), NEW boots, Fail(err, boots)
  PROVE  IsError(loop'.lastErr)
<1>1. CASE err = "invalid"
  BY <1>1 DEF Fail, Ended, LoopFields, IsError
<1>2. CASE err # "invalid" /\ ctx /\ LastOne
  BY <1>2 DEF Fail, Ended, LoopFields, IsError
<1>3. CASE err # "invalid" /\ ~(ctx /\ LastOne)
  BY <1>3 DEF Fail, NextModel, LoopFields
<1> QED
  BY <1>1, <1>2, <1>3

\* What the loop remembers as its last error is none of the chunks.
LEMMA LoopErrors ==
  ASSUME DOMAIN loop = LoopFields, ErrorInv, Loop PROVE ErrorInv'
<1>1. CASE PickNothing
  BY <1>1 DEF PickNothing, ErrorInv, LoopFields, IsError
<1>2. CASE Prepared
  BY <1>2 DEF Prepared, ErrorInv, LoopFields
<1>3. CASE PrepareFails
  BY <1>3 DEF PrepareFails, ErrorInv, LoopFields, IsError
<1>4. ASSUME NEW a \in Auths, Pick(a) PROVE ErrorInv'
  <2>1. \E ms \in Rotations(a) :
           LET models == Open(a, ms) IN
           loop' = [loop EXCEPT !.tried = @ \union {a},
                           !.auth = a,
                           !.models = models,
                           !.refreshed = FALSE,
                           !.again = "no",
                           !.attempted = IF models = <<>> THEN @ ELSE @ \union {a},
                           !.pc = IF models = <<>> THEN "pick" ELSE "prepare"]
    BY <1>4 DEF Pick
  <2>2. loop'.lastErr = loop.lastErr
    BY <2>1 DEF LoopFields
  <2> QED
    BY <2>2 DEF ErrorInv
<1>5. CASE CallSucceeds
  BY <1>5 DEF CallSucceeds, Ended, ErrorInv, LoopFields, IsError
<1>6. CASE StreamOpens
  BY <1>6 DEF StreamOpens, ErrorInv, LoopFields
<1>7. ASSUME NEW err \in Failures, CallFails(err) PROVE ErrorInv'
  <2>1. IsError(err)
    BY DEF IsError, Failures
  <2>2. CASE Ended("failed", "ctx")
    BY <2>2 DEF Ended, ErrorInv, LoopFields, IsError
  <2>3. CASE Renew
    BY <2>3 DEF Renew, ErrorInv, LoopFields
  <2>4. CASE Fail(err, loop.again = "bootstrap" /\ LastOne)
    BY <2>1, <2>4, FailErrors DEF ErrorInv
  <2> QED
    BY <1>7, <2>2, <2>3, <2>4 DEF CallFails
<1>8. CASE Bootstrap
  <2>1. CASE BootstrapEmpty
    BY <2>1 DEF BootstrapEmpty, ErrorInv, LoopFields
  <2>2. CASE BootstrapEmptyStream
    <3>1. Fail("no_data", LastOne) /\ IsError("no_data")
      BY <2>2 DEF BootstrapEmptyStream, IsError
    <3> QED
      BY <3>1, FailErrors DEF ErrorInv
  <2>3. ASSUME NEW closed \in BOOLEAN, BootstrapDone(closed) PROVE ErrorInv'
    BY <2>3 DEF BootstrapDone, Ended, ErrorInv, LoopFields, IsError
  <2>4. ASSUME NEW err \in Failures, BootstrapFails(err) PROVE ErrorInv'
    <3>1. IsError(err)
      BY DEF IsError, Failures
    <3>2. CASE Renew
      BY <3>2 DEF Renew, ErrorInv, LoopFields
    <3>3. CASE Fail(err, LastOne)
      BY <3>1, <3>3, FailErrors DEF ErrorInv
    <3> QED
      BY <2>4, <3>2, <3>3 DEF BootstrapFails
  <2>5. CASE BootstrapCancelled
    <3>1. IsError("ctx")
      BY DEF IsError
    <3>2. CASE Fail("ctx", LastOne)
      BY <3>1, <3>2, FailErrors DEF ErrorInv
    <3>3. CASE Ended("failed", "ctx")
      BY <3>3 DEF Ended, ErrorInv, LoopFields, IsError
    <3> QED
      BY <2>5, <3>2, <3>3 DEF BootstrapCancelled
  <2> QED
    BY <1>8, <2>1, <2>2, <2>3, <2>4, <2>5 DEF Bootstrap
<1>9. CASE RetryLater \/ GiveUp
  BY <1>9 DEF RetryLater, GiveUp, ErrorInv, LoopFields
<1>10. CASE WaitEnds
  <2>1. loop' = [Idle(loop.kind) EXCEPT !.pc = "pick", !.attempt = loop.attempt + 1]
    BY <1>10 DEF WaitEnds
  <2>2. loop'.lastErr = "none"
    BY <2>1 DEF Idle
  <2> QED
    BY <2>2 DEF ErrorInv, IsError
<1>11. CASE WaitCancelled
  BY <1>11 DEF WaitCancelled, Ended, ErrorInv, LoopFields, IsError
<1> QED
  BY <1>1, <1>2, <1>3, <1>4, <1>5, <1>6, <1>7, <1>8, <1>9, <1>10, <1>11 DEF Loop

\* The manager's steps send nothing.
LEMMA ManagerAnswers ==
  ASSUME RelayInv, AnswerInv, Manager PROVE AnswerInv'
<1>1. /\ loop'.kind = loop.kind
      /\ UNCHANGED <<client, writer, relay, wrap, errs, dataOpen, ticker, out>>
  BY RoundMoves, CallMoves DEF Manager, Loop, RelayInv, ShapeInv, relayVars, LoopMove
<1>2. ErrorInv'
  BY LoopErrors DEF Manager, RelayInv, ShapeInv, AnswerInv
<1>3. Served' = Served
  BY <1>1 DEF Served
<1> QED
  BY <1>1, <1>2, <1>3 DEF AnswerInv, StreamOut, PlainOut, CountInv, DoneInv, Complete, Pending,
                          Last

\* What the relay does while it reads leaves what has been sent alone.
LEMMA RelayOut ==
  ASSUME RelayInv, AnswerInv, UNCHANGED <<out, ticker>>,
         loop.kind = "stream", loop'.kind = "stream", relay.phase # "gone",
         Served > 0 => relay'.cur = relay.cur /\ relay'.sent,
         \/ /\ writer' = writer
            /\ relay'.phase \in {"off", "initial"} => writer.phase \in {"start", "blocked"}
         \/ /\ writer.phase = "blocked" /\ writer'.phase = "peek"
            /\ relay'.phase \notin {"off", "initial"}
  PROVE  /\ (out \in Seq(Items) /\ StreamOut /\ PlainOut /\ DoneInv)'
         /\ Served' = Served
<1>1. Served' = Served
  BY DEF Served
<1>2. StreamOut'
  BY <1>1, ServedFacts DEF AnswerInv, StreamOut
<1>3. PlainOut' /\ DoneInv'
  BY DEF AnswerInv, PlainOut, DoneInv, Last
<1> QED
  BY <1>1, <1>2, <1>3 DEF AnswerInv

\* A relay that begins has sent nothing.
LEMMA TakeStreamAnswers ==
  ASSUME RelayInv, AnswerInv, TakeStream PROVE AnswerInv'
<1>1. /\ loop.kind = "stream" /\ loop.pc \in {"errorStream", "stream", "closed"}
      /\ loop' = Taken /\ UNCHANGED <<ctx, owed, writer, client, errs, dataOpen, ticker, out>>
  BY DEF TakeStream, Streaming, Returned, CtxVars, RelayVars, RelayInv, PhaseInv
<1>2. loop'.kind = "stream" /\ loop'.lastErr = loop.lastErr
  BY <1>1, IdleShape DEF Taken, LoopFields
<1>3. Wrapped.sent = 0 /\ Wrapped.failed = FALSE
  <2>1. CASE loop.pc = "stream"
    BY <2>1 DEF Wrapped, NoWrap
  <2>2. CASE loop.pc = "closed"
    BY <2>2 DEF Wrapped, NoWrap
  <2>3. CASE loop.pc = "errorStream"
    BY <2>3 DEF Wrapped, NoWrap
  <2> QED
    BY <1>1, <2>1, <2>2, <2>3
<1>4. Served = 0 /\ ~relay.sent /\ relay.phase \in {"off", "retrying"}
  <2>1. relay.phase \in {"off", "retrying"}
    BY DEF TakeStream
  <2>2. ~relay.sent
    BY <2>1 DEF AnswerInv, CountInv
  <2>3. ~(Served > 0)
    BY <1>1, <2>2 DEF AnswerInv, StreamOut
  <2> QED
    BY <2>1, <2>2, <2>3, ServedFacts DEF AnswerInv
<1>5. \E k \in Streams :
        /\ wrap' = [wrap EXCEPT ![k] = Wrapped]
        /\ relay'.cur = k /\ relay'.pending = <<>> /\ relay'.sent = relay.sent
        /\ \/ relay'.phase = "initial" /\ relay.phase = "off"
           \/ relay'.phase = "loop"
  <2>1. CASE /\ writer.phase = "blocked" /\ relay.phase = "off"
             /\ wrap' = [wrap EXCEPT ![1] = Wrapped]
             /\ relay' = [relay EXCEPT !.phase = "initial"]
    <3>1. 1 \in Streams
      BY StreamRelayAssumption DEF Streams
    <3>2. relay.cur = 1 /\ relay.pending = <<>> /\ DOMAIN relay = RelayFields
      BY <2>1 DEF RelayInv, PhaseInv, ShapeInv
    <3> QED
      BY <2>1, <3>1, <3>2 DEF RelayFields
  <2>2. CASE /\ relay.phase = "retrying"
             /\ wrap' = [wrap EXCEPT ![relay.boots + 1] = Wrapped]
             /\ relay' = [relay EXCEPT !.phase = "loop", !.cur = relay.boots + 1,
                                        !.pending = <<>>, !.closed = FALSE]
    <3>1. relay.boots + 1 \in Streams /\ DOMAIN relay = RelayFields
      BY StreamRelayAssumption DEF Streams, RelayInv, ShapeInv
    <3> QED
      BY <2>2, <3>1 DEF RelayFields
  <2> QED
    BY <2>1, <2>2 DEF TakeStream
<1>6. PICK k \in Streams :
        /\ wrap' = [wrap EXCEPT ![k] = Wrapped]
        /\ relay'.cur = k /\ relay'.pending = <<>> /\ relay'.sent = relay.sent
        /\ \/ relay'.phase = "initial" /\ relay.phase = "off"
           \/ relay'.phase = "loop"
  BY <1>5
<1>7. wrap'[relay'.cur] = Wrapped
  BY <1>6 DEF RelayInv, ShapeInv
<1>8. (out \in Seq(Items) /\ StreamOut /\ PlainOut /\ DoneInv)' /\ Served' = Served
  <2>1. /\ relay'.phase \in {"off", "initial"} => writer.phase \in {"start", "blocked"}
        /\ relay.phase # "gone"
    BY <1>1, <1>4, <1>6 DEF AnswerInv, StreamOut
  <2> QED
    BY <1>1, <1>2, <1>4, <2>1, RelayOut
<1>9. CountInv'
  <2>1. ~Pending({"payload", "bad"})'
    BY <1>6 DEF Pending
  <2> QED
    BY <1>3, <1>4, <1>6, <1>7, <1>8, <2>1 DEF CountInv
<1> QED
  BY <1>2, <1>8, <1>9 DEF AnswerInv, ErrorInv

\* A stream that has one chunk less to send.
LEMMA ReceiveAnswers ==
  ASSUME ShapeInv, ErrorInv, NEW s \in Streams, NEW c, Receive(s, c)
  PROVE  /\ wrap'[s].sent = IF c \in {"payload", "bad"} THEN wrap[s].sent + 1 ELSE wrap[s].sent
         /\ wrap'[s].failed = (wrap[s].failed \/ IsError(c))
         /\ UNCHANGED <<loop, ctx>>
BY DEF Receive, ShapeInv, AfterOffer, WrapFields

\* What the relay remembers of a chunk it has handled.
LEMMA HandleAnswers ==
  ASSUME DOMAIN relay = RelayFields, relay.phase = "loop", NEW c
  PROVE  LET r == Handle(c) IN
         /\ DOMAIN r = RelayFields /\ r.cur = relay.cur /\ r.pending = relay.pending
         /\ r.phase \in {"retry", "report", "send", "loop"}
         /\ r.phase = "send" => c = "payload" /\ r.sent
         /\ r.phase # "send" => (r.sent <=> relay.sent)
         /\ r.phase = "retry" => ~relay.sent
         /\ r.phase = "loop" => c = "empty"
         /\ c = "empty" => r.phase = "loop"
<1>1. CASE IsError(c) /\ ~relay.sent /\ relay.boots < BootstrapRetries /\ Eligible(c)
  <2>1. Handle(c) = [relay EXCEPT !.phase = "retry", !.boots = @ + 1]
    BY <1>1 DEF Handle
  <2> QED
    BY <1>1, <2>1 DEF RelayFields, IsError
<1>2. CASE IsError(c) /\ ~(~relay.sent /\ relay.boots < BootstrapRetries /\ Eligible(c))
  <2>1. Handle(c) = [relay EXCEPT !.phase = "report", !.err = c]
    BY <1>2 DEF Handle
  <2> QED
    BY <1>2, <2>1 DEF RelayFields, IsError
<1>3. CASE ~IsError(c)
  <2>1. c \in {"empty", "payload", "bad"}
    BY <1>3 DEF IsError
  <2>2. Handle(c) = CASE c = "bad" -> [relay EXCEPT !.phase = "report", !.err = "bad"]
                      [] c = "payload" -> [relay EXCEPT !.phase = "send", !.sent = TRUE]
                      [] OTHER -> relay
    BY <1>3 DEF Handle
  <2>3. CASE c = "bad"
    <3>1. Handle(c) = [relay EXCEPT !.phase = "report", !.err = "bad"]
      BY <2>2, <2>3
    <3> DEFINE r == Handle(c)
    <3>2. DOMAIN r = RelayFields /\ r.cur = relay.cur /\ r.pending = relay.pending
          /\ r.phase = "report"
      BY <3>1 DEF RelayFields
    <3>3. r.sent = relay.sent
      BY <3>1 DEF RelayFields
    <3> HIDE DEF r
    <3>4. r.sent <=> relay.sent
      BY <3>3
    <3> QED
      BY <2>3, <3>2, <3>4 DEF r
  <2>4. CASE c = "payload"
    <3>1. Handle(c) = [relay EXCEPT !.phase = "send", !.sent = TRUE]
      BY <2>2, <2>4
    <3> DEFINE r == Handle(c)
    <3>2. DOMAIN r = RelayFields /\ r.cur = relay.cur /\ r.pending = relay.pending
          /\ r.phase = "send"
      BY <3>1 DEF RelayFields
    <3>3. r.sent = TRUE
      BY <3>1 DEF RelayFields
    <3> HIDE DEF r
    <3>4. r.phase = "send" /\ r.sent
      BY <3>2, <3>3
    <3> QED
      BY <2>4, <3>2, <3>4 DEF r
  <2>5. CASE c = "empty"
    BY <2>2, <2>5
  <2> QED
    BY <2>1, <2>3, <2>4, <2>5
<1> QED
  BY <1>1, <1>2, <1>3

\* A chunk that is read is sent or remembered, ...
LEMMA NextReceivedAnswers ==
  ASSUME RelayInv, AccountInv, AnswerInv, NEW c \in Chunks, NextReceived(c)
  PROVE  AnswerInv'
<1>1. /\ relay.phase = "loop" /\ relay.pending = <<>> /\ Receive(relay.cur, c)
      /\ relay' = Handle(c) /\ relay.cur \in Streams
      /\ UNCHANGED <<client, writer, errs, dataOpen, ticker, out>>
      /\ DOMAIN relay = RelayFields /\ loop.kind = "stream"
  BY DEF NextReceived, RelayVars, RelayInv, ShapeInv, AccountInv, ContextInv
<1>2. /\ wrap'[relay.cur].sent = IF c \in {"payload", "bad"} THEN wrap[relay.cur].sent + 1
                                                            ELSE wrap[relay.cur].sent
      /\ wrap'[relay.cur].failed = (wrap[relay.cur].failed \/ IsError(c))
      /\ UNCHANGED <<loop, ctx>>
  BY <1>1, ReceiveAnswers DEF RelayInv, AnswerInv
<1>3. /\ relay'.cur = relay.cur /\ relay'.pending = <<>>
      /\ relay'.phase \in {"retry", "report", "send", "loop"}
      /\ relay'.phase = "send" => c = "payload" /\ relay'.sent
      /\ relay'.phase # "send" => (relay'.sent <=> relay.sent)
      /\ relay'.phase = "retry" => ~relay.sent
      /\ relay'.phase = "loop" => c = "empty"
  <2> DEFINE h == Handle(c)
  <2>1. /\ h.cur = relay.cur /\ h.pending = relay.pending
        /\ h.phase \in {"retry", "report", "send", "loop"}
        /\ h.phase = "send" => c = "payload" /\ h.sent
        /\ h.phase # "send" => (h.sent <=> relay.sent)
        /\ h.phase = "retry" => ~relay.sent
        /\ h.phase = "loop" => c = "empty"
    BY <1>1, HandleAnswers
  <2>2. relay' = h
    BY <1>1
  <2> HIDE DEF h
  <2> QED
    BY <1>1, <2>1, <2>2
<1>4. (out \in Seq(Items) /\ StreamOut /\ PlainOut /\ DoneInv)' /\ Served' = Served
  <2>1. Served > 0 => relay'.sent
    BY <1>1, <1>3 DEF AnswerInv, StreamOut
  <2> QED
    BY <1>1, <1>2, <1>3, <2>1, RelayOut
<1>5. CountInv'
  <2>1. ~Pending({"payload", "bad"}) /\ ~Pending({"payload", "bad"})'
    BY <1>1, <1>3 DEF Pending
  <2>2. wrap[relay.cur].sent = Served + 0 /\ ~wrap[relay.cur].failed
    BY <1>1, <2>1 DEF AnswerInv, CountInv
  <2>3. relay'.phase = "loop" => wrap'[relay.cur].sent = Served + 0 /\ ~wrap'[relay.cur].failed
    BY <1>2, <1>3, <2>2 DEF IsError
  <2>4. relay'.phase = "send" => wrap'[relay.cur].sent = Served + 1 /\ ~wrap'[relay.cur].failed
    <3> HAVE relay'.phase = "send"
    <3>1. c = "payload" /\ ~IsError(c)
      BY <1>3 DEF IsError
    <3>2. wrap[relay.cur].sent = Served /\ wrap'[relay.cur].sent = wrap[relay.cur].sent + 1
      BY <1>2, <2>2, <3>1, ServedFacts DEF AnswerInv
    <3> QED
      BY <1>2, <2>2, <3>1, <3>2
  <2> QED
    BY <1>3, <1>4, <2>1, <2>3, <2>4 DEF CountInv
<1> QED
  BY <1>2, <1>4, <1>5 DEF AnswerInv, ErrorInv

\* ... and so is one that waited.
LEMMA NextPendingAnswers ==
  ASSUME RelayInv, AccountInv, AnswerInv, NextPending PROVE AnswerInv'
<1> DEFINE c == Head(relay.pending)
           h == Handle(c)
<1>1. /\ relay.phase = "loop" /\ relay.pending # <<>>
      /\ relay' = [h EXCEPT !.pending = Tail(@)]
      /\ UNCHANGED <<loop, ctx, wrap, client, writer, errs, dataOpen, ticker, out>>
      /\ DOMAIN relay = RelayFields /\ relay.pending \in Seq(Chunks) /\ loop.kind = "stream"
  BY DEF NextPending, loopVars, RelayVars, RelayInv, ShapeInv, AccountInv, ContextInv
<1>2. /\ Tail(relay.pending) \in Seq(Chunks)
      /\ Len(Tail(relay.pending)) = Len(relay.pending) - 1 /\ Len(relay.pending) \in Nat \ {0}
      /\ \A i \in 1..Len(Tail(relay.pending)) : Tail(relay.pending)[i] = relay.pending[i + 1]
      /\ c = relay.pending[1]
  BY <1>1, HeadTailProperties, EmptySeq
<1>3. /\ DOMAIN h = RelayFields /\ h.cur = relay.cur /\ h.pending = relay.pending
      /\ h.phase \in {"retry", "report", "send", "loop"}
      /\ h.phase = "send" => c = "payload" /\ h.sent
      /\ h.phase # "send" => (h.sent <=> relay.sent)
      /\ h.phase = "retry" => ~relay.sent
      /\ h.phase = "loop" => c = "empty"
      /\ c = "empty" => h.phase = "loop"
  BY <1>1, HandleAnswers
<1> HIDE DEF c, h
<1>4. /\ relay'.cur = relay.cur /\ relay'.pending = Tail(relay.pending)
      /\ relay'.phase = h.phase /\ relay'.sent = h.sent
  BY <1>1, <1>3 DEF RelayFields
<1>5. (out \in Seq(Items) /\ StreamOut /\ PlainOut /\ DoneInv)' /\ Served' = Served
  <2>1. Served > 0 => relay'.sent
    BY <1>1, <1>3, <1>4 DEF AnswerInv, StreamOut
  <2> QED
    BY <1>1, <1>3, <1>4, <2>1, RelayOut
<1>6. \A i \in 1..Len(relay.pending) : relay.pending[i] = "empty" \/ i = Len(relay.pending)
  BY DEF AnswerInv, CountInv
<1>7. \A i \in 1..Len(relay'.pending) :
         relay'.pending[i] = "empty" \/ i = Len(relay'.pending)
  <2> TAKE i \in 1..Len(relay'.pending)
  <2>1. i + 1 \in 1..Len(relay.pending) /\ relay'.pending[i] = relay.pending[i + 1]
    BY <1>2, <1>4
  <2>2. i + 1 = Len(relay.pending) => i = Len(relay'.pending)
    BY <1>2, <1>4
  <2> QED
    BY <1>6, <2>1, <2>2
\* An empty chunk changes nothing that is counted.
<1>8. CASE c = "empty"
  <2>1. \A i \in 1..Len(relay.pending) : relay.pending[i] # "empty" =>
           i - 1 \in 1..Len(relay'.pending) /\ relay'.pending[i - 1] = relay.pending[i]
    <3> TAKE i \in 1..Len(relay.pending)
    <3> HAVE relay.pending[i] # "empty"
    <3>1. i # 1
      BY <1>2, <1>8
    <3>2. i - 1 \in 1..Len(Tail(relay.pending)) /\ (i - 1) + 1 = i
      BY <1>2, <3>1
    <3> QED
      BY <1>2, <1>4, <3>2
  <2>2. \A i \in 1..Len(relay'.pending) :
           i + 1 \in 1..Len(relay.pending) /\ relay'.pending[i] = relay.pending[i + 1]
    BY <1>2, <1>4
  <2>3. Pending({"payload", "bad"})' <=> Pending({"payload", "bad"})
    <3>1. ASSUME Pending({"payload", "bad"}) PROVE Pending({"payload", "bad"})'
      BY <2>1, <3>1 DEF Pending
    <3>2. ASSUME Pending({"payload", "bad"})' PROVE Pending({"payload", "bad"})
      BY <2>2, <3>2 DEF Pending
    <3> QED
      BY <3>1, <3>2
  <2>4. (\E i \in 1..Len(relay.pending) : IsError(relay.pending[i])) =>
           \E i \in 1..Len(relay'.pending) : IsError(relay'.pending[i])
    BY <2>1 DEF IsError
  <2>5. relay'.phase = "loop"
    BY <1>3, <1>4, <1>8
  <2> QED
    BY <1>1, <1>4, <1>5, <1>7, <2>3, <2>4, <2>5 DEF AnswerInv, CountInv, ErrorInv
\* Any other chunk is the last.
<1>9. CASE c # "empty"
  <2>1. Len(relay.pending) = 1 /\ relay'.pending = <<>>
    <3>1. 1 \in 1..Len(relay.pending) /\ relay.pending[1] # "empty"
      BY <1>2, <1>9
    <3>2. Len(relay.pending) = 1
      BY <1>6, <3>1
    <3>3. Len(Tail(relay.pending)) = 0
      BY <1>2, <3>2
    <3> QED
      BY <1>2, <1>4, <3>2, <3>3, EmptySeq
  <2>2. relay'.phase \in {"retry", "report", "send"}
    BY <1>3, <1>4, <1>9
  <2>3. relay'.phase = "send" => wrap[relay.cur].sent = Served + 1 /\ ~wrap[relay.cur].failed
    <3> HAVE relay'.phase = "send"
    <3>1. relay.pending[1] = "payload"
      BY <1>2, <1>3, <1>4
    <3>2. Pending({"payload", "bad"})
      BY <2>1, <3>1 DEF Pending
    <3>3. ~ \E i \in 1..Len(relay.pending) : IsError(relay.pending[i])
      BY <2>1, <3>1 DEF IsError
    <3> QED
      BY <1>1, <3>2, <3>3 DEF AnswerInv, CountInv
  <2>4. CountInv'
    BY <1>1, <1>3, <1>4, <1>5, <1>7, <2>1, <2>2, <2>3 DEF CountInv
  <2> QED
    BY <1>1, <1>5, <2>4 DEF AnswerInv, ErrorInv
<1> QED
  BY <1>8, <1>9

\* The chunks read first: empty ones, then one that is not.
LEMMA InitialAnswers ==
  ASSUME RelayInv, AccountInv, AnswerInv, NEW c \in Chunks, Initial(c) PROVE AnswerInv'
<1>1. /\ relay.phase = "initial" /\ Receive(relay.cur, c) /\ relay.cur \in Streams
      /\ relay' = [relay EXCEPT !.pending = Append(@, c),
                                !.phase = IF c = "empty" THEN @ ELSE "loop"]
      /\ writer' = IF c = "empty" THEN writer ELSE [writer EXCEPT !.phase = "peek"]
      /\ UNCHANGED <<client, errs, dataOpen, ticker, out>>
      /\ DOMAIN relay = RelayFields /\ DOMAIN writer = {"phase", "dialect"}
      /\ relay.pending \in Seq(Chunks) /\ loop.kind = "stream"
      /\ \A i \in 1..Len(relay.pending) : relay.pending[i] = "empty"
  BY DEF Initial, RelayInv, ShapeInv, PhaseInv, AccountInv, ContextInv
<1>2. /\ wrap'[relay.cur].sent = IF c \in {"payload", "bad"} THEN wrap[relay.cur].sent + 1
                                                            ELSE wrap[relay.cur].sent
      /\ wrap'[relay.cur].failed = (wrap[relay.cur].failed \/ IsError(c))
      /\ UNCHANGED <<loop, ctx>>
  BY <1>1, ReceiveAnswers DEF RelayInv, AnswerInv
<1>3. /\ relay'.cur = relay.cur /\ relay'.pending = Append(relay.pending, c)
      /\ relay'.phase = IF c = "empty" THEN "initial" ELSE "loop"
      /\ relay'.sent = relay.sent
  BY <1>1 DEF RelayFields
<1>4. ~relay.sent /\ writer.phase = "blocked" /\ Served = 0 /\ ~relay'.sent
  <2>1. ~relay.sent
    BY <1>1 DEF AnswerInv, CountInv
  <2>2. writer.phase = "blocked"
    BY <1>1 DEF AnswerInv, StreamOut, RelayInv, PhaseInv
  <2>3. ~(Served > 0)
    BY <1>1, <2>1 DEF AnswerInv, StreamOut
  <2> QED
    BY <1>3, <2>1, <2>2, <2>3, ServedFacts DEF AnswerInv
<1>5. (out \in Seq(Items) /\ StreamOut /\ PlainOut /\ DoneInv)' /\ Served' = Served
  <2>1. CASE c = "empty"
    BY <1>1, <1>2, <1>3, <1>4, <2>1, RelayOut
  <2>2. CASE c # "empty"
    <3>1. writer'.phase = "peek"
      BY <1>1, <2>2
    <3> QED
      BY <1>1, <1>2, <1>3, <1>4, <2>2, <3>1, RelayOut
  <2> QED
    BY <2>1, <2>2
<1>6. CountInv'
  <2>1. /\ Len(relay'.pending) = Len(relay.pending) + 1 /\ Len(relay.pending) \in Nat
        /\ \A i \in 1..Len(relay.pending) : relay'.pending[i] = relay.pending[i]
        /\ relay'.pending[Len(relay.pending) + 1] = c
    BY <1>1, <1>3, AppendProperties, LenProperties
  <2>2. \A i \in 1..Len(relay'.pending) :
           relay'.pending[i] = "empty" \/ i = Len(relay'.pending)
    BY <1>1, <2>1
  <2>3. Len(relay'.pending) \in 1..Len(relay'.pending) /\ relay'.pending[Len(relay'.pending)] = c
    BY <2>1
  <2>4. ~Pending({"payload", "bad"}) /\ (Pending({"payload", "bad"})' <=> c \in {"payload", "bad"})
    <3>1. ~Pending({"payload", "bad"})
      BY <1>1 DEF Pending
    <3>2. c \in {"payload", "bad"} => Pending({"payload", "bad"})'
      BY <2>3 DEF Pending
    <3>3. Pending({"payload", "bad"})' => c \in {"payload", "bad"}
      BY <2>2, <2>3 DEF Pending
    <3> QED
      BY <3>1, <3>2, <3>3
  <2>5. wrap[relay.cur].sent = 0 /\ ~wrap[relay.cur].failed
    <3>1. wrap[relay.cur].sent = Served + 0
      BY <1>1, <2>4 DEF AnswerInv, CountInv
    <3>2. ~wrap[relay.cur].failed
      BY <1>1 DEF AnswerInv, CountInv, IsError
    <3> QED
      BY <1>4, <3>1, <3>2
  <2>6. wrap'[relay.cur].sent = 0 + (IF Pending({"payload", "bad"})' THEN 1 ELSE 0)
    BY <1>2, <2>4, <2>5
  <2>7. wrap'[relay.cur].failed => IsError(relay'.pending[Len(relay'.pending)])
    BY <1>2, <2>3, <2>5
  <2> QED
    BY <1>3, <1>4, <1>5, <2>2, <2>3, <2>6, <2>7 DEF CountInv
<1> QED
  BY <1>2, <1>5, <1>6 DEF AnswerInv, ErrorInv

\* A relay that moves on over streams that stand still.
GoesOn ==
    /\ UNCHANGED <<client, wrap, out, ticker>>
    /\ loop.kind = "stream" /\ loop'.kind = "stream"
    /\ relay'.cur = relay.cur /\ relay'.pending = relay.pending /\ relay'.sent = relay.sent
    /\ relay.phase # "gone" /\ relay'.phase \notin {"off", "initial", "send"}
    /\ \/ writer' = writer
       \/ writer.phase = "blocked" /\ writer'.phase = "peek"
    /\ relay'.phase \in {"absent", "retry", "retrying"} => ~relay.sent
    /\ relay'.phase = "loop" => relay.phase \in {"initial", "loop"}
    /\ relay'.phase \in {"closing", "closed", "gone"} /\ client = "here"
         /\ writer'.phase # "ended" => errs'.msgs # <<>> \/ Complete

\* A relay that has not ended and sends nothing.
LEMMA RelayGoesOn ==
  ASSUME RelayInv, AnswerInv, ErrorInv', GoesOn
  PROVE  AnswerInv'
<1>1. Served' = Served
  BY DEF GoesOn, Served
<1>2. StreamOut'
  <2>1. Served > 0 => relay'.sent
    BY DEF GoesOn, AnswerInv, StreamOut
  <2> QED
    BY <1>1, <2>1, ServedFacts DEF GoesOn, AnswerInv, StreamOut
<1>3. PlainOut'
  BY DEF GoesOn, PlainOut
<1>4. DoneInv'
  <2>1. ~Last("done")
    BY DEF GoesOn, AnswerInv, DoneInv
  <2> QED
    BY <2>1 DEF GoesOn, DoneInv, Last
<1>5. CountInv'
  <2>1. Complete' <=> Complete
    BY <1>1 DEF GoesOn, Complete
  <2>2. Pending({"payload", "bad"})' <=> Pending({"payload", "bad"})
    BY DEF GoesOn, Pending
  <2> QED
    BY <1>1, <2>1, <2>2 DEF GoesOn, AnswerInv, CountInv
<1> QED
  BY <1>2, <1>3, <1>4, <1>5 DEF GoesOn, AnswerInv

\* The relay begins: with an error, with a stream, or with one that is over.
LEMMA BeginningAnswers ==
  ASSUME RelayInv, AccountInv, AnswerInv, FirstFails \/ InitialEnds PROVE AnswerInv'
<1>1. /\ DOMAIN relay = RelayFields /\ DOMAIN writer = {"phase", "dialect"}
      /\ relay.phase \in {"off", "initial"} /\ loop.kind = "stream"
      /\ writer' = [writer EXCEPT !.phase = "peek"]
      /\ UNCHANGED <<loop, ctx, client, wrap, ticker, out>>
  BY DEF FirstFails, InitialEnds, Streaming, loopVars, RelayInv, ShapeInv, AccountInv, ContextInv
<1>2. writer'.phase = "peek" /\ writer.phase = "blocked" /\ ~relay.sent
  <2>1. writer.phase = "blocked"
    BY <1>1 DEF FirstFails, InitialEnds, RelayInv, PhaseInv, AnswerInv, StreamOut
  <2>2. ~relay.sent
    BY <1>1 DEF AnswerInv, CountInv
  <2> QED
    BY <1>1, <2>1, <2>2
<1>3. /\ relay'.cur = relay.cur /\ relay'.pending = relay.pending /\ relay'.sent = relay.sent
      /\ \/ relay'.phase = "absent"
         \/ relay.phase = "initial" /\ relay'.phase = "loop"
         \/ relay.phase = "initial" /\ ctx /\ relay'.phase = "closing"
  <2>1. CASE FirstFails
    <3>1. relay' = [relay EXCEPT !.phase = "absent"]
      BY <2>1 DEF FirstFails
    <3> QED
      BY <1>1, <3>1 DEF RelayFields
  <2>2. CASE InitialEnds /\ relay' = [relay EXCEPT !.phase = "loop", !.closed = TRUE]
    <3>1. relay.phase = "initial"
      BY <2>2 DEF InitialEnds
    <3> QED
      BY <1>1, <2>2, <3>1 DEF RelayFields
  <2>3. CASE InitialEnds /\ ctx /\ relay' = [relay EXCEPT !.phase = "closing"]
    <3>1. relay.phase = "initial"
      BY <2>3 DEF InitialEnds
    <3> QED
      BY <1>1, <2>3, <3>1 DEF RelayFields
  <2> QED
    BY <2>1, <2>2, <2>3 DEF InitialEnds
<1>4. ctx /\ client = "here" => writer.phase = "ended"
  BY DEF AccountInv, ContextInv
<1>5. ErrorInv'
  BY <1>1 DEF AnswerInv, ErrorInv
<1>6. /\ UNCHANGED <<client, wrap, out, ticker>> /\ loop.kind = "stream" /\ loop'.kind = "stream"
      /\ relay.phase # "gone" /\ relay'.phase \notin {"off", "initial", "send"}
      /\ writer.phase = "blocked" /\ writer'.phase = "peek"
      /\ relay'.phase = "loop" => relay.phase = "initial"
      /\ relay'.phase \notin {"closed", "gone"}
      /\ relay'.phase = "closing" => client # "here"
  BY <1>1, <1>2, <1>3, <1>4
<1>7. GoesOn
  BY <1>2, <1>3, <1>6 DEF GoesOn
<1> QED
  BY <1>5, <1>7, RelayGoesOn

\* It ends once nothing of the stream is missing, or the context is over.
LEMMA EndAnswers ==
  ASSUME RelayInv, AccountInv, AnswerInv,
         NoMoreChunks \/ Report \/ SendCancelled \/ CloseErrs \/ CloseData
  PROVE  AnswerInv'
<1>1. /\ DOMAIN relay = RelayFields /\ loop.kind = "stream"
      /\ relay.phase \in {"loop", "report", "send", "closing", "closed"}
      /\ UNCHANGED <<loop, ctx, client, writer, wrap, ticker, out>>
      /\ \E ph \in {"closing", "closed", "gone"} : relay' = [relay EXCEPT !.phase = ph]
  BY DEF NoMoreChunks, Report, SendCancelled, CloseErrs, CloseData, loopVars, RelayVars,
         RelayInv, ShapeInv, AccountInv, ContextInv
<1>2. /\ relay'.cur = relay.cur /\ relay'.pending = relay.pending /\ relay'.sent = relay.sent
      /\ relay'.phase \in {"closing", "closed", "gone"}
  BY <1>1 DEF RelayFields
<1>3. ctx /\ client = "here" => writer.phase = "ended"
  BY DEF AccountInv, ContextInv
<1>4. client = "here" /\ writer.phase # "ended" => errs'.msgs # <<>> \/ Complete
  <2> HAVE client = "here" /\ writer.phase # "ended"
  <2>1. CASE NoMoreChunks
    <3>1. /\ relay.phase = "loop" /\ relay.pending = <<>>
          /\ wrap[relay.cur].st = "ended"
      BY <1>3, <2>1 DEF NoMoreChunks, AccountInv, ContextInv
    <3>2. ~Pending({"payload", "bad"})
      BY <3>1 DEF Pending
    <3>3. wrap[relay.cur].sent = Served + 0 /\ ~wrap[relay.cur].failed
      BY <3>1, <3>2 DEF AnswerInv, CountInv
    <3> QED
      BY <3>1, <3>3, ServedFacts DEF Complete, AnswerInv
  <2>2. CASE Report
    <3>1. errs' = [errs EXCEPT !.msgs = <<relay.err>>]
      BY <1>3, <2>2 DEF Report
    <3>2. errs'.msgs = <<relay.err>> \/ errs'.msgs # <<>>
      BY <3>1
    <3> QED
      BY <3>2
  <2>3. CASE SendCancelled
    BY <1>3, <2>3 DEF SendCancelled
  <2>4. CASE CloseErrs
    <3>1. errs' = [errs EXCEPT !.closed = TRUE] /\ relay.phase = "closing"
      BY <2>4 DEF CloseErrs
    <3>2. errs'.msgs = errs.msgs
      BY <3>1
    <3> QED
      BY <3>1, <3>2 DEF AnswerInv, CountInv
  <2>5. CASE CloseData
    BY <2>5 DEF CloseData, AnswerInv, CountInv
  <2> QED
    BY <2>1, <2>2, <2>3, <2>4, <2>5
<1>5. ErrorInv'
  BY <1>1 DEF AnswerInv, ErrorInv
<1>6. /\ UNCHANGED <<client, wrap, out, ticker>> /\ loop.kind = "stream" /\ loop'.kind = "stream"
      /\ relay.phase # "gone" /\ relay'.phase \notin {"off", "initial", "send"}
      /\ writer' = writer
  BY <1>1, <1>2
<1>7. GoesOn
  BY <1>2, <1>4, <1>6 DEF GoesOn
<1> QED
  BY <1>5, <1>7, RelayGoesOn

\* A bootstrap is retried before anything has been sent.
LEMMA RetryAnswers ==
  ASSUME RelayInv, AccountInv, AnswerInv, Retry \/ RetryFails PROVE AnswerInv'
<1>1. /\ DOMAIN relay = RelayFields /\ loop.kind = "stream"
      /\ relay.phase \in {"retry", "retrying"}
      /\ UNCHANGED <<ctx, client, writer, wrap, errs, ticker, out>>
  BY DEF Retry, RetryFails, RelayVars, RelayInv, ShapeInv, AccountInv, ContextInv
<1>2. ~relay.sent
  BY <1>1 DEF AnswerInv, CountInv
<1>3. CASE Retry
  <2>1. Begin /\ relay' = [relay EXCEPT !.phase = "retrying"]
    BY <1>3 DEF Retry
  <2>2. /\ relay'.cur = relay.cur /\ relay'.pending = relay.pending
        /\ relay'.sent = relay.sent /\ relay'.phase = "retrying"
    BY <1>1, <2>1 DEF RelayFields
  <2>3. loop'.kind = "stream" /\ loop'.lastErr = "none"
    BY <1>1, <2>1 DEF Begin, Idle
  <2>4. ErrorInv'
    BY <2>3 DEF ErrorInv, IsError
  <2>5. /\ UNCHANGED <<client, wrap, out, ticker>> /\ loop.kind = "stream" /\ loop'.kind = "stream"
        /\ relay.phase # "gone" /\ relay'.phase \notin {"off", "initial", "send"}
        /\ writer' = writer
    BY <1>1, <2>2, <2>3
  <2>6. GoesOn
    BY <1>2, <2>2, <2>5 DEF GoesOn
  <2> QED
    BY <2>4, <2>6, RelayGoesOn
<1>4. CASE RetryFails
  <2>1. /\ loop' = Taken
        /\ relay' = [relay EXCEPT !.phase = "report", !.err = loop.lastErr]
    BY <1>4 DEF RetryFails
  <2>2. /\ relay'.cur = relay.cur /\ relay'.pending = relay.pending
        /\ relay'.sent = relay.sent /\ relay'.phase = "report"
    BY <1>1, <2>1 DEF RelayFields
  <2>3. loop'.kind = "stream" /\ loop'.lastErr = loop.lastErr
    BY <1>1, <2>1, IdleShape DEF Taken, LoopFields
  <2>4. ErrorInv'
    BY <2>3 DEF AnswerInv, ErrorInv
  <2>5. /\ UNCHANGED <<client, wrap, out, ticker>> /\ loop.kind = "stream" /\ loop'.kind = "stream"
        /\ relay.phase # "gone" /\ relay'.phase \notin {"off", "initial", "send"}
        /\ writer' = writer
    BY <1>1, <2>2, <2>3
  <2>6. GoesOn
    BY <1>2, <2>2, <2>5 DEF GoesOn
  <2> QED
    BY <2>4, <2>6, RelayGoesOn
<1> QED
  BY <1>3, <1>4

\* A stream that ends has sent what it had sent.
LEMMA UpstreamAnswers ==
  ASSUME RelayInv, AnswerInv, Upstreams PROVE AnswerInv'
<1>1. PICK s \in Streams : WrapEnds(s) \/ WrapCancelled(s)
  BY DEF Upstreams
<1>2. /\ wrap[s].st = "on" /\ wrap' = [wrap EXCEPT ![s].st = "ended"]
      /\ UNCHANGED <<loop, client, writer, relay, errs, dataOpen, ticker, out>>
  BY <1>1 DEF WrapEnds, WrapCancelled
<1>3. relay.cur \in Streams /\ DOMAIN wrap = Streams /\ DOMAIN wrap[relay.cur] = WrapFields
  BY DEF RelayInv, ShapeInv
<1>4. /\ wrap'[relay.cur].sent = wrap[relay.cur].sent
      /\ wrap'[relay.cur].failed = wrap[relay.cur].failed
      /\ wrap[relay.cur].st = "ended" => wrap'[relay.cur].st = "ended"
  BY <1>2, <1>3 DEF WrapFields
<1>5. Served' = Served /\ (Pending({"payload", "bad"})' <=> Pending({"payload", "bad"}))
  BY <1>2 DEF Served, Pending
<1>6. Complete => Complete'
  BY <1>2, <1>4, <1>5 DEF Complete
<1>7. StreamOut' /\ PlainOut' /\ ErrorInv'
  BY <1>2, <1>5 DEF AnswerInv, StreamOut, PlainOut, ErrorInv
<1>8. CountInv'
  BY <1>2, <1>4, <1>5, <1>6 DEF AnswerInv, CountInv
<1>9. DoneInv'
  BY <1>2, <1>5, <1>6 DEF AnswerInv, DoneInv, Last
<1> QED
  BY <1>2, <1>7, <1>8, <1>9 DEF AnswerInv

\* A client that leaves takes nothing back.
LEMMA ClientAnswers ==
  ASSUME RelayInv, AnswerInv, TickerEnds \/ ClientLeaves \/ ContextEnds PROVE AnswerInv'
<1>1. /\ UNCHANGED <<loop, writer, relay, wrap, errs, dataOpen, out>>
      /\ client' = client \/ client' = "gone"
      /\ ticker' = ticker \/ ticker' = "off"
  BY DEF TickerEnds, ClientLeaves, ContextEnds, loopVars, relayVars
<1>2. /\ Served' = Served /\ (Complete' <=> Complete)
      /\ (Pending({"payload", "bad"})' <=> Pending({"payload", "bad"}))
  BY <1>1 DEF Served, Complete, Pending
<1> QED
  BY <1>1, <1>2 DEF AnswerInv, StreamOut, PlainOut, CountInv, DoneInv, ErrorInv, Last

\* The writer or its ticker adds one item to what has been sent.
LEMMA OneMore ==
  ASSUME out \in Seq(Items), NEW item \in Items, out' = Append(out, item)
  PROVE  /\ out' \in Seq(Items) /\ Len(out') = Len(out) + 1 /\ Len(out) \in Nat
         /\ out' # <<>> /\ out'[Len(out')] = item
         /\ \A i \in 1..Len(out) : out'[i] = out[i]
         /\ Served' = IF item.what = "chunk" THEN Len(out) + 1 ELSE Len(out)
<1>1. /\ out' \in Seq(Items) /\ Len(out') = Len(out) + 1 /\ Len(out) \in Nat
      /\ \A i \in 1..Len(out) : out'[i] = out[i]
      /\ out'[Len(out) + 1] = item
  BY AppendProperties, LenProperties
<1>2. out' # <<>>
  BY <1>1, EmptySeq
<1>3. Served' = IF out'[Len(out')].what = "chunk" THEN Len(out') ELSE Len(out') - 1
  BY <1>2 DEF Served
<1> QED
  BY <1>1, <1>2, <1>3

\* The items that are no chunks of a stream.
LEMMA SentItem ==
  ASSUME NEW what \in {"chunk", "blank", "error", "done", "body"}
  PROVE  Sent(what) \in Items /\ Sent(what).what = what
BY DEF Sent, Items

\* A response that is not streamed has no relay.
LEMMA PlainMoves ==
  ASSUME RelayInv, AccountInv, AnswerInv, loop.kind # "stream", loop'.kind # "stream",
         relay' = relay, ErrorInv', out' \in Seq(Items), PlainOut', ~Last("done")'
  PROVE  AnswerInv'
<1>1. relay.phase = "off" /\ relay.pending = <<>> /\ ~relay.sent
  BY DEF RelayInv, PhaseInv, AccountInv, ContextInv, AnswerInv, CountInv
<1>2. CountInv'
  BY <1>1 DEF CountInv
<1> QED
  BY <1>2 DEF AnswerInv, StreamOut, DoneInv

\* Blank lines precede an answer that is not streamed.
LEMMA KeepAliveAnswers ==
  ASSUME RelayInv, AccountInv, AnswerInv, KeepAlive PROVE AnswerInv'
<1>1. /\ ticker \in {"on", "stopping"} /\ UNCHANGED <<loop, writer, relay, wrap, errs, ticker>>
      /\ out' = out \/ out' = Append(out, Sent("blank"))
  BY DEF KeepAlive, loopVars
<1>2. loop.kind # "stream" /\ writer.phase # "ended"
  BY <1>1 DEF AnswerInv, StreamOut, PlainOut
<1>3. out \in Seq(Items) /\ Len(out) \in Nat /\ \A i \in 1..Len(out) : out[i].what = "blank"
  BY <1>2, ServedFacts DEF AnswerInv, PlainOut
<1>4. CASE out' = out
  <2>1. ~Last("done")
    BY <1>2 DEF AnswerInv, DoneInv
  <2> QED
    BY <1>1, <1>2, <1>4, <2>1, PlainMoves DEF AnswerInv, PlainOut, ErrorInv, Last
<1>5. CASE out' = Append(out, Sent("blank"))
  <2>1. /\ out' \in Seq(Items) /\ Len(out') = Len(out) + 1 /\ out'[Len(out')] = Sent("blank")
        /\ \A i \in 1..Len(out) : out'[i] = out[i]
    BY <1>3, <1>5, OneMore, SentItem
  <2>2. \A i \in 1..Len(out') : out'[i].what = "blank"
    <3> TAKE i \in 1..Len(out')
    <3>1. i \in 1..Len(out) \/ i = Len(out')
      BY <1>3, <2>1
    <3> QED
      BY <1>3, <2>1, <3>1, SentItem
  <2>3. PlainOut' /\ ErrorInv'
    BY <1>1, <1>2, <2>2 DEF AnswerInv, PlainOut, ErrorInv
  <2>4. ~Last("done")'
    BY <2>1, SentItem DEF Last
  <2> QED
    BY <1>1, <1>2, <2>1, <2>3, <2>4, PlainMoves
<1> QED
  BY <1>1, <1>4, <1>5

\* The answer that is not streamed, or its error.
LEMMA RespondAnswers ==
  ASSUME RelayInv, AccountInv, AnswerInv, Respond PROVE AnswerInv'
<1>1. /\ writer.phase = "respond" /\ ticker = "off" /\ UNCHANGED <<loop, relay, ticker>>
      /\ writer' = [writer EXCEPT !.phase = "ended"]
      /\ \E item \in {"body", "error"} : out' = Append(out, Sent(item))
      /\ DOMAIN writer = {"phase", "dialect"}
  BY DEF Respond, Finish, RelayInv, ShapeInv
<1>2. loop.kind # "stream" /\ writer'.phase = "ended"
  BY <1>1 DEF AnswerInv, StreamOut
<1>3. out \in Seq(Items) /\ Len(out) \in Nat /\ \A i \in 1..Len(out) : out[i].what = "blank"
  BY <1>1, <1>2, ServedFacts DEF AnswerInv, PlainOut
<1>4. PICK item \in {"body", "error"} : out' = Append(out, Sent(item))
  BY <1>1
<1>5. /\ out' \in Seq(Items) /\ Len(out') = Len(out) + 1 /\ out'[Len(out')].what = item
      /\ \A i \in 1..Len(out) : out'[i] = out[i]
  BY <1>3, <1>4, OneMore, SentItem
<1>6. \A i \in 1..Len(out') :
         out'[i].what = "blank" \/ (i = Len(out') /\ out'[i].what \in {"body", "error"})
  <2> TAKE i \in 1..Len(out')
  <2>1. i \in 1..Len(out) \/ i = Len(out')
    BY <1>3, <1>5
  <2> QED
    BY <1>3, <1>5, <2>1
<1>7. PlainOut' /\ ErrorInv'
  BY <1>1, <1>2, <1>6 DEF AnswerInv, PlainOut, ErrorInv
<1>8. ~Last("done")'
  BY <1>5 DEF Last
<1> QED
  BY <1>1, <1>2, <1>5, <1>7, <1>8, PlainMoves

\* The handler begins, and stops the ticker once the loop has returned.
LEMMA StartAnswers ==
  ASSUME RelayInv, AccountInv, AnswerInv, Start \/ StopTicker PROVE AnswerInv'
<1>1. /\ UNCHANGED <<client, relay, wrap, errs, dataOpen, out>>
      /\ DOMAIN writer = {"phase", "dialect"}
      /\ \/ /\ writer.phase = "start" /\ Begin
            /\ writer' = [writer EXCEPT !.phase = "blocked"]
            /\ ticker' = IF loop.kind = "execute" THEN "on" ELSE "off"
         \/ /\ loop.kind # "stream" /\ writer.phase = "blocked" /\ loop' = loop
            /\ writer' = [writer EXCEPT !.phase = "respond"]
  BY DEF Start, StopTicker, Streaming, loopVars, RelayInv, ShapeInv
<1>2. /\ loop'.kind = loop.kind /\ ErrorInv'
      /\ writer.phase \in {"start", "blocked"} /\ writer'.phase \in {"blocked", "respond"}
      /\ writer'.phase = "respond" => loop.kind # "stream"
  <2>1. CASE writer.phase = "start" /\ Begin /\ writer' = [writer EXCEPT !.phase = "blocked"]
    BY <1>1, <2>1 DEF Begin, Idle, ErrorInv, IsError
  <2>2. CASE /\ loop.kind # "stream" /\ writer.phase = "blocked" /\ loop' = loop
             /\ writer' = [writer EXCEPT !.phase = "respond"]
    BY <1>1, <2>2 DEF AnswerInv, ErrorInv
  <2> QED
    BY <1>1, <2>1, <2>2
<1>3. ~Last("done") /\ ~Last("done")'
  <2>1. ~Last("done")
    BY <1>2 DEF AnswerInv, DoneInv
  <2> QED
    BY <1>1, <2>1 DEF Last
<1>4. CASE loop.kind # "stream"
  <2>1. PlainOut'
    BY <1>1, <1>2, <1>4 DEF AnswerInv, PlainOut
  <2>2. out' \in Seq(Items)
    BY <1>1 DEF AnswerInv
  <2> QED
    BY <1>1, <1>2, <1>3, <1>4, <2>1, <2>2, PlainMoves
<1>5. CASE loop.kind = "stream"
  <2>1. /\ writer.phase = "start" /\ writer'.phase = "blocked" /\ ticker' = "off"
        /\ out = <<>> /\ relay.phase = "off"
    BY <1>1, <1>2, <1>5 DEF AnswerInv, StreamOut, RelayInv, PhaseInv
  <2>2. Served = 0 /\ Served' = 0
    BY <1>1, <2>1 DEF Served
  <2>3. StreamOut'
    BY <1>1, <1>2, <1>5, <2>1, <2>2 DEF StreamOut
  <2>4. CountInv'
    BY <1>1, <2>1 DEF AnswerInv, CountInv
  <2> QED
    BY <1>1, <1>2, <1>3, <1>5, <2>3, <2>4 DEF AnswerInv, PlainOut, DoneInv
<1> QED
  BY <1>4, <1>5

\* A handler that reads has sent chunks only.
LEMMA ReadsFacts ==
  ASSUME RelayInv, AnswerInv, Reads
  PROVE  /\ loop.kind = "stream" /\ writer.phase \in {"peek", "forward"}
         /\ writer.phase = "peek" => out = <<>>
         /\ Served = Len(out) /\ Len(out) \in Nat /\ ~Last("done")
<1>1. /\ loop.kind = "stream" /\ writer.phase \in {"peek", "forward"} /\ ~Last("done")
      /\ writer.phase = "peek" => out = <<>>
  BY DEF Reads, AnswerInv, StreamOut, PlainOut, DoneInv
<1>2. out # <<>> => out[Len(out)].what = "chunk"
  BY <1>1 DEF AnswerInv, StreamOut
<1> QED
  BY <1>1, <1>2, ServedFacts DEF Served, AnswerInv

\* The chunk the relay handed over.
LEMMA WriteChunkAnswers ==
  ASSUME RelayInv, AnswerInv, WriteChunk PROVE AnswerInv'
<1> DEFINE item == [what |-> "chunk", stream |-> relay.cur, n |-> wrap[relay.cur].sent]
<1>1. /\ Reads /\ relay.phase = "send" /\ out' = Append(out, item)
      /\ writer' = [writer EXCEPT !.phase = "forward"]
      /\ relay' = [relay EXCEPT !.phase = "loop"]
      /\ UNCHANGED <<loop, client, wrap, errs, dataOpen, ticker>>
      /\ DOMAIN writer = {"phase", "dialect"} /\ DOMAIN relay = RelayFields
      /\ relay.cur \in Streams
  BY DEF WriteChunk, loopVars, RelayInv, ShapeInv
<1>2. /\ relay'.cur = relay.cur /\ relay'.pending = relay.pending /\ relay'.sent = relay.sent
      /\ relay'.phase = "loop" /\ writer'.phase = "forward"
  BY <1>1 DEF RelayFields
<1>3. /\ loop.kind = "stream" /\ ticker = "off"
      /\ Served = Len(out) /\ Len(out) \in Nat /\ out \in Seq(Items)
      /\ relay.pending = <<>> /\ relay.sent /\ ~wrap[relay.cur].failed
      /\ wrap[relay.cur].sent = Len(out) + 1
      /\ \A i \in 1..Len(out) : out[i] = Chunk(relay.cur, i)
  BY <1>1, ReadsFacts DEF AnswerInv, CountInv, StreamOut
<1>4. item = Chunk(relay.cur, Len(out) + 1) /\ item \in Items /\ item.what = "chunk"
  BY <1>1, <1>3, StreamRelayAssumption DEF Chunk, Items, Streams
<1> HIDE DEF item
<1>5. /\ out' \in Seq(Items) /\ Len(out') = Len(out) + 1 /\ out' # <<>>
      /\ out'[Len(out')] = item /\ Served' = Len(out) + 1
      /\ \A i \in 1..Len(out) : out'[i] = out[i]
  BY <1>1, <1>3, <1>4, OneMore
<1>6. \A i \in 1..Served' : out'[i] = Chunk(relay.cur, i)
  <2> TAKE i \in 1..Served'
  <2>1. i \in 1..Len(out) \/ i = Len(out')
    BY <1>3, <1>5
  <2> QED
    BY <1>3, <1>4, <1>5, <2>1
<1>7. StreamOut'
  BY <1>1, <1>2, <1>3, <1>4, <1>5, <1>6 DEF StreamOut
<1>8. CountInv'
  <2>1. ~Pending({"payload", "bad"})'
    BY <1>2, <1>3 DEF Pending
  <2>2. wrap'[relay'.cur].sent = Served' + 0
    BY <1>1, <1>2, <1>3, <1>5
  <2> QED
    BY <1>1, <1>2, <1>3, <2>1, <2>2 DEF CountInv
<1>9. ~Last("done")'
  BY <1>4, <1>5 DEF Last
<1> QED
  BY <1>1, <1>3, <1>5, <1>7, <1>8, <1>9 DEF AnswerInv, PlainOut, DoneInv, ErrorInv

\* The handler returns with an error or the end, having sent all it has read.
LEMMA ReturnAnswers ==
  ASSUME RelayInv, AccountInv, AnswerInv, WriteError \/ WriteDone \/ WriterCancelled
  PROVE  AnswerInv'
<1>1. /\ Reads /\ UNCHANGED <<loop, client, relay, wrap, dataOpen, ticker>>
      /\ writer' = [writer EXCEPT !.phase = "ended"]
      /\ DOMAIN writer = {"phase", "dialect"}
      /\ \/ out' = out
         \/ out' = Append(out, Sent("error"))
         \/ out' = Append(out, Sent("done")) /\ WriteDone /\ ~PendingError /\ errs' = errs
  BY DEF WriteError, WriteDone, WriterCancelled, Finish, WriterVars, CtxVars, RelayInv, ShapeInv
<1>2. /\ loop.kind = "stream" /\ writer.phase \in {"peek", "forward"}
      /\ writer.phase = "peek" => out = <<>>
      /\ Served = Len(out) /\ Len(out) \in Nat /\ ~Last("done") /\ out \in Seq(Items)
      /\ writer'.phase = "ended" /\ writer'.dialect = writer.dialect
  BY <1>1, ReadsFacts DEF AnswerInv
<1>3. \/ out' = out
      \/ /\ Len(out') = Len(out) + 1 /\ out'[Len(out')].what \in {"error", "done"}
         /\ \A i \in 1..Len(out) : out'[i] = out[i]
  BY <1>1, <1>2, OneMore, SentItem
<1>4. out' \in Seq(Items) /\ Served' = Served
  <2>1. CASE out' = out
    BY <1>2, <2>1 DEF Served
  <2>2. ASSUME NEW what \in {"error", "done"}, out' = Append(out, Sent(what))
        PROVE  out' \in Seq(Items) /\ Served' = Served
    BY <1>2, <2>2, OneMore, SentItem
  <2> QED
    BY <1>1, <2>1, <2>2
<1>5. StreamOut'
  <2>1. \A i \in 1..Served' : out'[i] = Chunk(relay.cur, i)
    BY <1>2, <1>3, <1>4 DEF AnswerInv, StreamOut
  <2>2. out' # <<>> /\ out'[Len(out')].what # "chunk" => out'[Len(out')].what \in {"error", "done"}
    BY <1>2, <1>3 DEF AnswerInv, StreamOut
  <2>3. ticker' = "off" /\ (Served' > 0 => relay'.sent) /\ relay.phase \notin {"off", "initial"}
    BY <1>1, <1>2, <1>4 DEF AnswerInv, StreamOut
  <2> QED
    BY <1>1, <1>2, <2>1, <2>2, <2>3 DEF StreamOut
<1>6. CountInv'
  <2>1. Pending({"payload", "bad"})' <=> Pending({"payload", "bad"})
    BY <1>1 DEF Pending
  <2> QED
    BY <1>1, <1>2, <1>4, <2>1 DEF AnswerInv, CountInv
\* An end is told only of a stream of which nothing is missing.
<1>7. DoneInv'
  <2>1. CASE out' = out
    BY <1>2, <2>1 DEF DoneInv, Last
  <2>2. CASE out' = Append(out, Sent("error"))
    <3>1. out'[Len(out')] = Sent("error")
      BY <1>2, <2>2, OneMore, SentItem
    <3> QED
      BY <3>1, SentItem DEF DoneInv, Last
  <2>3. CASE out' = Append(out, Sent("done")) /\ WriteDone /\ ~PendingError /\ errs' = errs
    <3>1. ~dataOpen /\ relay.phase = "gone"
      BY <2>3 DEF WriteDone, AccountInv, ContextInv
    <3>2. Len(out') = Len(out) + 1
      BY <1>2, <2>3, OneMore, SentItem
    <3>3. Len(out') > 1 => writer.phase = "forward"
      BY <1>2, <3>2, ServedFacts
    <3>4. Len(out') > 1 \/ writer.dialect = "claude" => errs.msgs = <<>>
      BY <2>3, <3>3 DEF PendingError
    <3>5. errs.msgs = <<>> /\ client = "here" => Complete
      BY <1>2, <3>1 DEF AnswerInv, CountInv
    <3>6. Complete' <=> Complete
      BY <1>1, <1>4 DEF Complete
    <3> QED
      BY <1>1, <1>2, <2>3, <3>1, <3>4, <3>5, <3>6 DEF DoneInv
  <2> QED
    BY <1>1, <2>1, <2>2, <2>3
<1> QED
  BY <1>1, <1>2, <1>4, <1>5, <1>6, <1>7 DEF AnswerInv, PlainOut, ErrorInv

\* At the start nothing has been sent.
LEMMA AnswerInit == Init => AnswerInv
<1> SUFFICES ASSUME Init PROVE AnswerInv
  OBVIOUS
<1>1. PICK kind \in Kinds : LoopInit(kind)
  BY DEF Init
<1>2. loop = Idle(kind)
  BY <1>1 DEF LoopInit
<1>3. PICK d \in Dialects : writer = [phase |-> "start", dialect |-> d]
  BY DEF Init
<1>4. /\ relay = [phase |-> "off", cur |-> 1, pending |-> <<>>, closed |-> FALSE,
                  sent |-> FALSE, boots |-> 0, err |-> "none"]
      /\ ticker = "off" /\ out = <<>>
  BY DEF Init
<1>5. ErrorInv
  BY <1>2 DEF Idle, ErrorInv, IsError
<1>6. Served = 0 /\ out \in Seq(Items) /\ Len(out) = 0
  BY <1>4, EmptySeq DEF Served
<1>7. StreamOut /\ PlainOut /\ DoneInv
  BY <1>3, <1>4, <1>6 DEF StreamOut, PlainOut, DoneInv, Last
<1>8. CountInv
  BY <1>4 DEF CountInv
<1> QED
  BY <1>5, <1>6, <1>7, <1>8 DEF AnswerInv

\* The invariant of what is sent is inductive.
LEMMA AnswerStep ==
  ASSUME RelayInv, AccountInv, AnswerInv, [Next]_vars PROVE AnswerInv'
<1>1. CASE UNCHANGED vars
  <2>1. /\ UNCHANGED <<loop, wrap, out, ticker>>
        /\ UNCHANGED <<relay, errs, writer, client>>
    BY <1>1 DEF vars, loopVars, relayVars
  <2>0. Served' = Served
    BY <2>1 DEF Served
  <2>2. out' \in Seq(Items) /\ StreamOut' /\ PlainOut'
    <3>1. out \in Seq(Items) /\ StreamOut /\ PlainOut
      BY DEF AnswerInv
    <3>2. StreamOut'
      BY <2>1, <2>0, <3>1 DEF StreamOut
    <3>3. PlainOut'
      BY <2>1, <3>1 DEF PlainOut
    <3> QED
      BY <2>1, <3>1, <3>2, <3>3
  <2>3. CountInv'
    <3>1. CountInv /\ Served' = Served
      BY <2>0 DEF AnswerInv
    <3>2. \A S : Pending(S)' <=> Pending(S)
      BY <2>1 DEF Pending
    <3> QED
      BY <2>1, <3>1, <3>2 DEF CountInv, Complete
  <2>4. DoneInv' /\ ErrorInv'
    <3>1. DoneInv /\ ErrorInv
      BY DEF AnswerInv
    <3>2. (Last("done"))' <=> Last("done")
      BY <2>1 DEF Last
    <3>3. Complete' <=> Complete
      BY <2>1, <2>0 DEF Complete
    <3> QED
      BY <2>1, <3>1, <3>2, <3>3 DEF DoneInv, ErrorInv
  <2> QED
    BY <2>2, <2>3, <2>4 DEF AnswerInv
<1>2. CASE Relay
  BY <1>2, TakeStreamAnswers, BeginningAnswers, InitialAnswers, NextReceivedAnswers,
     NextPendingAnswers, EndAnswers, RetryAnswers DEF Relay
<1>3. CASE Writer
  BY <1>3, StartAnswers, RespondAnswers, WriteChunkAnswers, ReturnAnswers DEF Writer
<1> QED
  BY <1>1, <1>2, <1>3, ManagerAnswers, UpstreamAnswers, KeepAliveAnswers, ClientAnswers DEF Next

\* The client is served one upstream stream from its first payload on, without
\* a gap or a repetition; an error, the end or a body is the last it is sent;
\* and an end it is told means that nothing of the stream is missing
\* (handlers.go, executeStreamWithAuthManagerFormats; stream_forwarder.go).
THEOREM AnswersAreWhole == Spec => []AnswerIsWhole
<1>1. RelayInv /\ AccountInv /\ AnswerInv /\ [Next]_vars
        => (RelayInv /\ AccountInv /\ AnswerInv)'
  BY RelayStep, AccountStep, AnswerStep
<1>2. AnswerInv => AnswerIsWhole
  <2> SUFFICES ASSUME AnswerInv PROVE AnswerIsWhole
    OBVIOUS
  <2>1. /\ Len(out) \in Nat /\ Served \in 0..Len(out) /\ (Len(out) = 0 <=> out = <<>>)
        /\ out # <<>> /\ out[Len(out)].what # "chunk" => Served = Len(out) - 1
        /\ ~(out # <<>> /\ out[Len(out)].what # "chunk") => Served = Len(out)
    BY ServedFacts DEF AnswerInv, Served
  <2>2. CASE loop.kind = "stream"
    <3>1. \A i \in 1..Served : out[i] = Chunk(relay.cur, i)
      BY <2>2 DEF AnswerInv, StreamOut
    <3>2. \A i \in 1..Len(out) : i \in 1..Served \/ (i = Len(out) /\ out[i].what # "chunk")
      BY <2>1
    <3>3. \A i \in 1..Len(out) : out[i].what = "chunk" =>
             \A j \in 1..i : out[j] = [what |-> "chunk", stream |-> out[1].stream, n |-> j]
      <4> TAKE i \in 1..Len(out)
      <4> HAVE out[i].what = "chunk"
      <4> TAKE j \in 1..i
      <4>1. i \in 1..Served
        BY <3>2
      <4>2. 1 \in 1..Served /\ j \in 1..Served
        BY <2>1, <4>1
      <4>3. out[1] = Chunk(relay.cur, 1) /\ out[j] = Chunk(relay.cur, j)
        BY <3>1, <4>2
      <4>4. out[1].stream = relay.cur
        BY <4>3 DEF Chunk
      <4> QED
        BY <4>3, <4>4 DEF Chunk
    <3>4. \A i \in 1..Len(out) : out[i].what \in {"error", "done", "body"} => i = Len(out)
      <4>1. \A i \in 1..Served : out[i].what = "chunk"
        <5> TAKE i \in 1..Served
        <5>1. out[i] = Chunk(relay.cur, i)
          BY <3>1
        <5>2. Chunk(relay.cur, i).what = "chunk"
          BY DEF Chunk
        <5> QED
          BY <5>1, <5>2
      <4> QED
        BY <3>2, <4>1
    <3> QED
      BY <2>1, <3>3, <3>4 DEF AnswerInv, DoneInv, Complete, AnswerIsWhole, Last
  <2>3. CASE loop.kind # "stream"
    <3>1. \A i \in 1..Len(out) :
             out[i].what = "blank" \/ (i = Len(out) /\ out[i].what \in {"body", "error"})
      BY <2>3 DEF AnswerInv, PlainOut
    <3>2. ~Last("done")
      BY <2>1, <3>1 DEF Last
    <3> QED
      BY <3>1, <3>2 DEF AnswerIsWhole
  <2> QED
    BY <2>2, <2>3
<1> QED
  BY RelayInit, AccountInit, AnswerInit, <1>1, <1>2, PTL DEF Spec
=============================================================================
