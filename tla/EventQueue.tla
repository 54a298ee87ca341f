----------------------------- MODULE EventQueue -----------------------------
(***************************************************************************)
(* The bounded event queue of server/src/queue/in-memory-queue.ts, fed by  *)
(* the ingestion (index.ts: every event is pushed from a setImmediate) and *)
(* drained once more by the shutdown handler of index.ts.                  *)
(*                                                                         *)
(* push and the end of a handler both call drain, a loop that starts       *)
(* handlers while there is room; each of them is one synchronous segment.  *)
(* A handler runs concurrently with everything else and may fail.          *)
(***************************************************************************)
EXTENDS Integers, Sequences, FiniteSets

CONSTANTS
  Events,       \* the events of the ingestion, each emitted once
  MaxSize,      \* 5_000: events that can wait
  Concurrency   \* 20: handlers that can run

ASSUME QueueAssumption ==
  /\ MaxSize \in Nat \ {0}
  /\ Concurrency \in Nat \ {0}

VARIABLES
  arriving,     \* events whose setImmediate callback has not run, in order
  queue,        \* this.queue
  active,       \* this.active
  running,      \* events whose handler has not settled
  dropped,      \* events push refused: droppedEvents counts them
  accepted,     \* history: events push accepted, in order
  started,      \* history: events handed to the handler, in order
  mode          \* the process: "up", "draining", "closing" or "exited"

inputVars == <<arriving, dropped, accepted>>
queueVars == <<inputVars, queue, active, running, started, mode>>

Seen == {arriving[i] : i \in 1..Len(arriving)}
          \cup {accepted[i] : i \in 1..Len(accepted)} \cup dropped

QueueTypeOK ==
  /\ arriving \in Seq(Events)
  /\ queue \in Seq(Events)
  /\ active \in Nat
  /\ running \in SUBSET Events
  /\ dropped \in SUBSET Events
  /\ accepted \in Seq(Events)
  /\ started \in Seq(Events)
  /\ mode \in {"up", "draining", "closing", "exited"}

QueueInit ==
  /\ arriving = <<>> /\ queue = <<>> /\ active = 0
  /\ running = {} /\ dropped = {}
  /\ accepted = <<>> /\ started = <<>>
  /\ mode = "up"

-----------------------------------------------------------------------------
(* Operations                                                              *)

\* Mutant: the loop leaves one slot unused.
Mut_Room(q, a) == IF Len(q) < Concurrency - 1 - a THEN Len(q) ELSE Concurrency - 1 - a

\* How many events the loop of drain starts: while there is a slot and an event.
Room(q, a) == IF Len(q) < Concurrency - a THEN Len(q) ELSE Concurrency - a

\* drain, with q waiting, a slots in use and r in flight.
Drain(q, a, r) ==
  LET k == Room(q, a) IN
  /\ queue' = SubSeq(q, k + 1, Len(q))
  /\ active' = a + k
  /\ running' = r \cup {q[i] : i \in 1..k}
  /\ started' = started \o SubSeq(q, 1, k)

\* The ingestion emits an event; its push is put off to a setImmediate.  The
\* reconnect after a disconnect keeps events coming during a shutdown.
Emit(e) ==
  /\ mode # "exited"
  /\ e \notin Seen
  /\ arriving' = Append(arriving, e)
  /\ UNCHANGED <<queue, active, running, dropped, accepted, started, mode>>

\* Mutant: events in flight count towards the limit of those waiting.
Mut_Full == Len(queue) + active >= MaxSize

Full == Len(queue) >= MaxSize

\* The callback pushes the event: refused and counted, or accepted and drained.
Push ==
  LET e == Head(arriving) IN
  /\ mode # "exited"
  /\ arriving # <<>>
  /\ arriving' = Tail(arriving)
  /\ \/ /\ Full
        /\ dropped' = dropped \cup {e}
        /\ UNCHANGED <<accepted, queue, active, running, started>>
     \/ /\ ~Full
        /\ accepted' = Append(accepted, e)
        /\ Drain(Append(queue, e), active, running)
        /\ UNCHANGED dropped
  /\ UNCHANGED mode

\* Mutant: an error of the handler skips the callback that frees its slot.
Mut_Finish(e) ==
  /\ mode # "exited"
  /\ e \in running
  /\ Drain(queue, active - 1, running \ {e}) \/ Drain(queue, active, running \ {e})
  /\ UNCHANGED <<inputVars, mode>>

\* A handler returned or failed: .finally frees its slot and drains.
Finish(e) ==
  /\ mode # "exited"
  /\ e \in running
  /\ Drain(queue, active - 1, running \ {e})
  /\ UNCHANGED <<inputVars, mode>>

\* SIGTERM or SIGINT.
StartShutdown ==
  /\ mode = "up"
  /\ mode' = "draining"
  /\ UNCHANGED <<inputVars, queue, active, running, started>>

\* The loop sees an empty queue or its deadline, and the pool is closed.
ClosePool ==
  /\ mode = "draining"
  /\ mode' = "closing"
  /\ UNCHANGED <<inputVars, queue, active, running, started>>

\* process.exit, whatever still runs.
Exit ==
  /\ mode = "closing"
  /\ mode' = "exited"
  /\ UNCHANGED <<inputVars, queue, active, running, started>>

QueueNext ==
  \/ \E e \in Events : Emit(e) \/ Finish(e)
  \/ Push
  \/ StartShutdown \/ ClosePool \/ Exit

QueueSpec == QueueInit /\ [][QueueNext]_queueVars

\* Handlers settle, since every call they await is answered, fails or times out.
QueueFairSpec == QueueSpec /\ \A e \in Events : WF_queueVars(Finish(e))

-----------------------------------------------------------------------------
(* Properties                                                              *)

\* Memory and load stay bounded, however fast events arrive.
Bounded == Len(queue) <= MaxSize /\ active <= Concurrency

\* No event waits while a handler could be started for it: neither a push nor
\* the end of a handler ever leaves a free slot next to a waiting event.
WorkConserving == queue # <<>> => active = Concurrency

\* What was started and what waits is, in order, what was accepted: handlers
\* start first come first served, and no event is lost or started twice.
StartedInOrder == accepted = started \o queue

\* The counter of slots in use is the number of handlers in flight, although
\* it is kept by callbacks that also run when handlers fail.
ActiveIsInFlight == IsFiniteSet(running) /\ active = Cardinality(running)

\* An event is dropped only when the queue is full and every slot is busy.
DropsOnlyWhenFull ==
  [][dropped' # dropped =>
       Len(queue) = MaxSize /\ Cardinality(running) = Concurrency]_queueVars

\* An event is emitted once and has one place: arriving, dropped or accepted;
\* a handler is in flight only for an event that was started.
EventsOnce ==
  /\ \A i, j \in 1..Len(arriving) : arriving[i] = arriving[j] => i = j
  /\ \A i, j \in 1..Len(accepted) : accepted[i] = accepted[j] => i = j
  /\ \A i \in 1..Len(arriving), j \in 1..Len(accepted) : arriving[i] # accepted[j]
  /\ \A e \in running : \E i \in 1..Len(started) : started[i] = e

\* The inductive invariant: every slot and every position is accounted for.
QueueInv ==
  /\ QueueTypeOK
  /\ Bounded
  /\ WorkConserving
  /\ StartedInOrder
  /\ ActiveIsInFlight
  /\ EventsOnce

\* An accepted event's handler is run to its end, unless the process exits.
AcceptedFinishes ==
  \A e \in Events :
    (\E i \in 1..Len(accepted) : accepted[i] = e)
      ~> \/ (\E i \in 1..Len(started) : started[i] = e) /\ e \notin running
         \/ mode = "exited"
=============================================================================
