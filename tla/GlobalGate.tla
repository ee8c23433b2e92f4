----------------------------- MODULE GlobalGate -----------------------------
(***************************************************************************)
(* admission::GlobalGate (src/src/admission/controller.{hpp,cpp}): the     *)
(* asynchronous FIFO semaphore every chat request passes before it may     *)
(* reach a backend.                                                        *)
(*                                                                         *)
(* One io_context on one thread runs everything, so the code between two   *)
(* suspensions is one step.  acquire() suspends in one place only: on the  *)
(* timer of its Waiter.  Between the moment that timer's completion is     *)
(* queued (it expired, or release() cancelled it) and the moment the       *)
(* coroutine resumes, other requests run: `woken' holds the callers in     *)
(* that gap.                                                               *)
(***************************************************************************)
EXTENDS Naturals, Sequences, FiniteSets

CONSTANTS Callers,          \* requests that call acquire()
          max_concurrent,   \* cfg.server.max_concurrent_streams
          queue_depth       \* cfg.server.queue_depth

\* The ranges config.cpp enforces on the two settings.
ASSUME GateAssumption ==
    /\ max_concurrent \in Nat \ {0}
    /\ queue_depth \in Nat

VARIABLES
    in_flight,   \* in_flight_: slots handed out
    waiters,     \* waiters_: the wait-queue, oldest first
    granted,     \* suspended callers whose Waiter has granted = true
    woken,       \* suspended callers whose timer completion is queued
    suspended,   \* callers suspended in acquire() on their Waiter's timer
    tickets      \* callers acquire() admitted that have not released yet

vars == <<in_flight, waiters, granted, woken, suspended, tickets>>

Init ==
    /\ in_flight = 0
    /\ waiters = <<>>
    /\ granted = {}
    /\ woken = {}
    /\ suspended = {}
    /\ tickets = {}

\* The callers in waiters_.
Queued == {waiters[i] : i \in 1..Len(waiters)}

\* waiters_.erase(it): entry i leaves, those behind it move up one place.
Erase(q, i) == [j \in 1..(Len(q) - 1) |-> IF j < i THEN q[j] ELSE q[j + 1]]

Outside(c) == c \notin suspended \cup tickets

\* Mutation: the slot is freed although somebody waits for it.
MutFreeSlot ==
    /\ in_flight' = in_flight - 1
    /\ UNCHANGED <<waiters, granted, woken>>

\* Mutation: the ceiling test is off by one.
MutHasFreeSlot == in_flight <= max_concurrent /\ waiters = <<>>

HasFreeSlot == in_flight < max_concurrent /\ waiters = <<>>

\* Fast path of acquire(): a free slot and nobody waiting.
AcquireNow(c) ==
    /\ Outside(c)
    /\ HasFreeSlot
    /\ in_flight' = in_flight + 1
    /\ tickets' = tickets \cup {c}
    /\ UNCHANGED <<waiters, granted, woken, suspended>>

\* QueueFull: acquire() returns at once and leaves no trace.
AcquireQueueFull(c) ==
    /\ Outside(c)
    /\ ~HasFreeSlot
    /\ Len(waiters) >= queue_depth
    /\ UNCHANGED vars

\* acquire() pushes a Waiter and suspends on its timer.
AcquireWait(c) ==
    /\ Outside(c)
    /\ ~HasFreeSlot
    /\ Len(waiters) < queue_depth
    /\ waiters' = Append(waiters, c)
    /\ suspended' = suspended \cup {c}
    /\ UNCHANGED <<in_flight, granted, woken, tickets>>

\* queue_timeout passes: the timer's completion is queued, nothing else moves.
TimerExpires(c) ==
    /\ c \in suspended \ woken
    /\ woken' = woken \cup {c}
    /\ UNCHANGED <<in_flight, waiters, granted, suspended, tickets>>

\* acquire() resumes and finds that release() handed it a slot.
ResumeGranted(c) ==
    /\ c \in woken \cap granted
    /\ tickets' = tickets \cup {c}
    /\ suspended' = suspended \ {c}
    /\ woken' = woken \ {c}
    /\ granted' = granted \ {c}
    /\ UNCHANGED <<in_flight, waiters>>

\* Mutation: a caller that times out waits again instead of giving up.
MutResumeRearm(c) ==
    /\ c \in woken \ granted
    /\ woken' = woken \ {c}
    /\ UNCHANGED <<in_flight, waiters, granted, suspended, tickets>>

\* acquire() resumes without a grant: it leaves the queue with QueueTimeout.
ResumeTimeout(c) ==
    /\ c \in woken \ granted
    /\ IF c \in Queued
       THEN \E i \in 1..Len(waiters) :
               waiters[i] = c /\ waiters' = Erase(waiters, i)
       ELSE UNCHANGED waiters
    /\ suspended' = suspended \ {c}
    /\ woken' = woken \ {c}
    /\ UNCHANGED <<in_flight, granted, tickets>>

\* Mutation: the newest waiter is served first.
MutGrantNewest ==
    /\ waiters # <<>>
    /\ waiters' = SubSeq(waiters, 1, Len(waiters) - 1)
    /\ granted' = granted \cup {waiters[Len(waiters)]}
    /\ woken' = woken \cup {waiters[Len(waiters)]}
    /\ UNCHANGED in_flight

\* release() with a waiter: the slot passes to the oldest one.  Cancelling its
\* timer queues the completion (a no-op when the expiry has queued it already).
GrantOldest ==
    /\ waiters # <<>>
    /\ waiters' = Tail(waiters)
    /\ granted' = granted \cup {Head(waiters)}
    /\ woken' = woken \cup {Head(waiters)}
    /\ UNCHANGED in_flight

\* release() with nobody waiting.
FreeSlot ==
    /\ waiters = <<>>
    /\ in_flight' = in_flight - 1
    /\ UNCHANGED <<waiters, granted, woken>>

Release(c) ==
    /\ c \in tickets
    /\ tickets' = tickets \ {c}
    /\ GrantOldest \/ FreeSlot
    /\ UNCHANGED suspended

Resume(c) == ResumeGranted(c) \/ ResumeTimeout(c)

Next ==
    \E c \in Callers :
        \/ AcquireNow(c)
        \/ AcquireQueueFull(c)
        \/ AcquireWait(c)
        \/ TimerExpires(c)
        \/ ResumeGranted(c)
        \/ ResumeTimeout(c)
        \/ Release(c)

Spec == Init /\ [][Next]_vars

\* Timers expire and the io_context runs every completion it has queued; a
\* caller may hold its slot for ever, so Release is given no fairness.
FairSpec ==
    /\ Spec
    /\ \A c \in Callers : WF_vars(TimerExpires(c)) /\ WF_vars(Resume(c))

-----------------------------------------------------------------------------
(***************************************************************************)
(* Properties                                                              *)
(***************************************************************************)

TypeOK ==
    /\ in_flight \in Nat
    /\ waiters \in Seq(Callers)
    /\ granted \in SUBSET Callers
    /\ woken \in SUBSET Callers
    /\ suspended \in SUBSET Callers
    /\ tickets \in SUBSET Callers

\* Owners of a slot: admitted callers, and waiters a slot was handed to that
\* have not resumed yet.
Owners == tickets \cup granted

\* The counter in_flight_ is the number of slots really owned, whatever the
\* order of grants, timeouts and resumptions, and it never passes the global
\* ceiling: the "slot count stays conserved" of release().
SlotsConserved ==
    /\ in_flight = Cardinality(Owners)
    /\ in_flight <= max_concurrent

\* No slot is idle while somebody waits for one: a timeout that takes a waiter
\* out of the queue, or a grant, never strands the others behind a free slot.
NoIdleSlotWhileWaiting ==
    waiters # <<>> => in_flight = max_concurrent

\* waiters_ holds exactly the suspended callers that have no grant, each once,
\* and never more than queue_depth of them: release() can neither hand a slot
\* to a caller that timed out nor hand two slots to the same one.
QueueIsTheUngranted ==
    /\ Queued = suspended \ granted
    /\ \A i, j \in 1..Len(waiters) : waiters[i] = waiters[j] => i = j
    /\ granted \subseteq woken
    /\ woken \subseteq suspended
    /\ suspended \cap tickets = {}
    /\ Len(waiters) <= queue_depth

\* What one step may do to owners and queue: a caller becomes an owner only if
\* nobody waits before it, and whoever stays queued keeps its relative place.
FCFSStep ==
    /\ \A c \in Owners' \ Owners :
         \/ waiters = <<>>
         \/ c = Head(waiters)
    /\ \A i, j \in 1..Len(waiters') :
         \A k, l \in 1..Len(waiters) :
            (waiters'[i] = waiters[k] /\ waiters'[j] = waiters[l] /\ k < l)
                => i < j

\* First come, first served: neither the fast path of acquire(), nor a grant by
\* release(), nor a timeout in the middle of the queue lets a caller overtake.
FirstComeFirstServed == [][FCFSStep]_vars

\* acquire() always answers: a suspended caller resumes, admitted or timed
\* out, however long the present owners keep their slots.
EveryWaitEnds == \A c \in Callers : c \in suspended ~> c \notin suspended

\* The gate implements the abstract slot pool.
Pool == INSTANCE SlotPool WITH
            Capacity <- max_concurrent,
            Depth    <- queue_depth,
            owners   <- Owners,
            line     <- waiters

\* Every behaviour of the gate, read through Owners and waiters_, is one of the
\* slot pool: counter, timers and the gap before a resumption are invisible.
ImplementsPool == Pool!Spec
=============================================================================
