-------------------------- MODULE GlobalGate_proofs --------------------------
(***************************************************************************)
(* Proofs about GlobalGate for every set of callers, every ceiling and     *)
(* every queue depth.                                                      *)
(***************************************************************************)
EXTENDS GlobalGate, FiniteSetTheorems, TLAPS

\* A queue is a function on the positions up to its length.
LEMMA LenProperties ==
    ASSUME NEW S, NEW q \in Seq(S)
    PROVE  /\ Len(q) \in Nat
           /\ q \in [1..Len(q) -> S]
           /\ DOMAIN q = 1..Len(q)
OBVIOUS

\* An entry of a queue is one of the callers.
LEMMA ElementOfSeq ==
    ASSUME NEW S, NEW q \in Seq(S), NEW i \in 1..Len(q)
    PROVE  q[i] \in S
OBVIOUS

\* push_back() adds one entry behind the others.
LEMMA AppendProperties ==
    ASSUME NEW S, NEW q \in Seq(S), NEW x \in S
    PROVE  /\ Append(q, x) \in Seq(S)
           /\ Append(q, x) # <<>>
           /\ Len(Append(q, x)) = Len(q) + 1
           /\ \A i \in 1..Len(q) : Append(q, x)[i] = q[i]
           /\ Append(q, x)[Len(q) + 1] = x
OBVIOUS

\* pop_front() takes the first entry away.
LEMMA HeadTailProperties ==
    ASSUME NEW S, NEW q \in Seq(S), q # <<>>
    PROVE  /\ Head(q) \in S /\ Head(q) = q[1]
           /\ Tail(q) \in Seq(S)
           /\ Len(Tail(q)) = Len(q) - 1
           /\ \A i \in 1..Len(Tail(q)) : Tail(q)[i] = q[i + 1]
OBVIOUS

\* Erasing entry i of a queue without repetitions leaves every other entry,
\* leaves that one out, and repeats none.  (waiters_.erase(it) in acquire().)
LEMMA EraseProperties ==
    ASSUME NEW S, NEW q \in Seq(S), NEW i \in 1..Len(q),
           \A j, k \in 1..Len(q) : q[j] = q[k] => j = k
    PROVE  /\ Erase(q, i) \in Seq(S)
           /\ Len(Erase(q, i)) = Len(q) - 1
           /\ \A j \in 1..(Len(q) - 1) :
                 /\ Erase(q, i)[j] # q[i]
                 /\ \E k \in 1..Len(q) : Erase(q, i)[j] = q[k]
           /\ \A k \in 1..Len(q) :
                 q[k] # q[i] => \E j \in 1..(Len(q) - 1) : q[k] = Erase(q, i)[j]
           /\ \A j, k \in 1..(Len(q) - 1) :
                 Erase(q, i)[j] = Erase(q, i)[k] => j = k
<1> DEFINE r == Erase(q, i)
           n == Len(q) - 1
           Up(j) == IF j < i THEN j ELSE j + 1
<1>1. Len(q) \in Nat /\ i \in Nat /\ n \in Nat
  BY LenProperties
<1>2. \A j \in 1..n : Up(j) \in 1..Len(q) /\ Up(j) # i /\ r[j] = q[Up(j)]
  BY <1>1 DEF Erase
<1>3. r \in Seq(S) /\ Len(r) = n
  <2>1. r = [j \in 1..n |-> q[Up(j)]]
    BY DEF Erase
  <2>2. \A j \in 1..n : q[Up(j)] \in S
    BY <1>2, ElementOfSeq
  <2> HIDE DEF n, Up, r
  <2>3. r \in [1..n -> S]
    BY <2>1, <2>2
  <2> QED
    BY <2>3, <1>1
<1>4. ASSUME NEW k \in 1..Len(q), q[k] # q[i]
      PROVE  \E j \in 1..n : q[k] = r[j]
  <2>1. CASE k < i
    <3>1. k \in 1..n /\ r[k] = q[k]
      BY <1>1, <1>2, <2>1
    <3> QED
      BY <3>1
  <2>2. CASE k > i
    <3>1. k - 1 \in 1..n /\ r[k - 1] = q[k]
      BY <1>1, <1>2, <2>2
    <3> QED
      BY <3>1
  <2> QED
    BY <1>1, <1>4, <2>1, <2>2
<1>5. ASSUME NEW j \in 1..n
      PROVE  r[j] # q[i] /\ \E k \in 1..Len(q) : r[j] = q[k]
  BY <1>2
<1>6. ASSUME NEW j \in 1..n, NEW k \in 1..n, r[j] = r[k]
      PROVE  j = k
  <2>1. Up(j) = Up(k)
    BY <1>2, <1>6
  <2> QED
    BY <2>1, <1>1
<1> QED
  BY <1>3, <1>4, <1>5, <1>6

-----------------------------------------------------------------------------
(***************************************************************************)
(* The inductive invariant.  SlotsConserved alone is not inductive: that   *)
(* a grant adds an owner needs the queue to hold no owner, and that the    *)
(* fast path keeps the ceiling needs the counter to be the owners.         *)
(***************************************************************************)
IInv ==
    /\ TypeOK
    /\ IsFiniteSet(Owners)
    /\ SlotsConserved
    /\ NoIdleSlotWhileWaiting
    /\ QueueIsTheUngranted

\* An empty gate satisfies the invariant.
LEMMA InitIInv == Init => IInv
<1> SUFFICES ASSUME Init PROVE IInv
  OBVIOUS
<1>1. Owners = {} /\ Queued = {} /\ Len(waiters) = 0
  BY DEF Init, Owners, Queued
<1> QED
  BY <1>1, GateAssumption, FS_EmptySet
     DEF Init, IInv, TypeOK, SlotsConserved, NoIdleSlotWhileWaiting,
         QueueIsTheUngranted

\* acquire()'s fast path keeps the invariant: the new owner was none before.
LEMMA AcquireNowIInv ==
    ASSUME IInv, NEW c \in Callers, AcquireNow(c)
    PROVE  IInv'
<1> USE DEF IInv
<1>1. TypeOK'
  BY DEF TypeOK, AcquireNow
<1>2. c \notin Owners /\ Owners' = Owners \cup {c}
  BY DEF QueueIsTheUngranted, AcquireNow, Outside, Owners
<1>3. IsFiniteSet(Owners') /\ Cardinality(Owners') = Cardinality(Owners) + 1
  BY <1>2, FS_AddElement
<1>4. SlotsConserved'
  BY <1>3, GateAssumption DEF SlotsConserved, AcquireNow, HasFreeSlot, TypeOK
<1>5. NoIdleSlotWhileWaiting'
  BY DEF NoIdleSlotWhileWaiting, AcquireNow, HasFreeSlot
<1>6. QueueIsTheUngranted'
  BY DEF QueueIsTheUngranted, AcquireNow, Outside, Queued
<1> QED
  BY <1>1, <1>3, <1>4, <1>5, <1>6

\* Joining the queue keeps the invariant: with nobody waiting before, the fast
\* path was closed only because every slot was owned.
LEMMA AcquireWaitIInv ==
    ASSUME IInv, NEW c \in Callers, AcquireWait(c)
    PROVE  IInv'
<1> USE DEF IInv
<1>1. TypeOK'
  BY AppendProperties DEF TypeOK, AcquireWait
<1>2. Owners' = Owners
  BY DEF Owners, AcquireWait
<1>3. IsFiniteSet(Owners') /\ SlotsConserved'
  BY <1>2 DEF SlotsConserved, AcquireWait
<1>4. NoIdleSlotWhileWaiting'
  BY GateAssumption
     DEF NoIdleSlotWhileWaiting, SlotsConserved, AcquireWait, HasFreeSlot, TypeOK
<1>5. /\ Len(waiters) \in Nat
      /\ Len(waiters') = Len(waiters) + 1
      /\ \A i \in 1..Len(waiters) : waiters'[i] = waiters[i]
      /\ waiters'[Len(waiters) + 1] = c
  BY AppendProperties, LenProperties DEF AcquireWait, TypeOK
<1>6. c \notin Queued
  BY DEF AcquireWait, Outside, QueueIsTheUngranted
<1>7. Queued' = Queued \cup {c}
  <2>1. ASSUME NEW i \in 1..Len(waiters')
        PROVE  waiters'[i] \in Queued \cup {c}
    <3>1. i \in 1..Len(waiters) \/ i = Len(waiters) + 1
      BY <1>5
    <3> QED
      BY <3>1, <1>5 DEF Queued
  <2>2. ASSUME NEW i \in 1..Len(waiters)
        PROVE  waiters[i] \in Queued'
    <3>1. i \in 1..Len(waiters') /\ waiters'[i] = waiters[i]
      BY <1>5
    <3> QED
      BY <3>1 DEF Queued
  <2>3. c \in Queued'
    <3>1. Len(waiters) + 1 \in 1..Len(waiters')
      BY <1>5
    <3> QED
      BY <3>1, <1>5 DEF Queued
  <2> QED
    BY <2>1, <2>2, <2>3 DEF Queued
<1>8. ASSUME NEW i \in 1..Len(waiters'), NEW j \in 1..Len(waiters'),
             waiters'[i] = waiters'[j]
      PROVE  i = j
  <2>1. \A k \in 1..Len(waiters) : waiters[k] # c
    BY <1>6 DEF Queued
  <2>2. /\ i \in 1..Len(waiters) \/ i = Len(waiters) + 1
        /\ j \in 1..Len(waiters) \/ j = Len(waiters) + 1
    BY <1>5
  <2> QED
    BY <2>1, <2>2, <1>5, <1>8 DEF QueueIsTheUngranted
<1>9. QueueIsTheUngranted'
  <2>1. Queued' = (suspended \ granted)'
    BY <1>7 DEF QueueIsTheUngranted, AcquireWait, Outside
  <2>2. /\ granted' \subseteq woken'
        /\ woken' \subseteq suspended'
        /\ suspended' \cap tickets' = {}
    BY DEF QueueIsTheUngranted, AcquireWait, Outside
  <2>3. Len(waiters') <= queue_depth
    BY <1>5, GateAssumption DEF AcquireWait
  <2> QED
    BY <2>1, <2>2, <2>3, <1>8 DEF QueueIsTheUngranted
<1> QED
  BY <1>1, <1>3, <1>4, <1>9

\* An expiry queues a completion and moves nothing else.
LEMMA TimerExpiresIInv ==
    ASSUME IInv, NEW c \in Callers, TimerExpires(c)
    PROVE  IInv'
<1>1. Owners' = Owners /\ Queued' = Queued
  BY DEF Owners, Queued, TimerExpires
<1>2. IsFiniteSet(Owners') /\ SlotsConserved' /\ NoIdleSlotWhileWaiting'
  BY <1>1 DEF IInv, SlotsConserved, NoIdleSlotWhileWaiting, TimerExpires
<1>3. QueueIsTheUngranted'
  BY <1>1 DEF IInv, QueueIsTheUngranted, TimerExpires
<1>4. TypeOK'
  BY DEF IInv, TypeOK, TimerExpires
<1> QED
  BY <1>2, <1>3, <1>4 DEF IInv

\* A caller that resumes with a grant owned the slot already.
LEMMA ResumeGrantedIInv ==
    ASSUME IInv, NEW c \in Callers, ResumeGranted(c)
    PROVE  IInv'
<1>1. Owners' = Owners /\ Queued' = Queued
  BY DEF Owners, Queued, ResumeGranted
<1>2. IsFiniteSet(Owners') /\ SlotsConserved' /\ NoIdleSlotWhileWaiting'
  BY <1>1 DEF IInv, SlotsConserved, NoIdleSlotWhileWaiting, ResumeGranted
<1>3. QueueIsTheUngranted'
  BY <1>1 DEF IInv, QueueIsTheUngranted, ResumeGranted
<1>4. TypeOK'
  BY DEF IInv, TypeOK, ResumeGranted
<1> QED
  BY <1>2, <1>3, <1>4 DEF IInv

\* A caller that times out leaves the queue; the queue invariant says that it
\* was in it, once.
LEMMA ResumeTimeoutIInv ==
    ASSUME IInv, NEW c \in Callers, ResumeTimeout(c)
    PROVE  IInv'
<1>1. c \in Queued
  BY DEF IInv, QueueIsTheUngranted, ResumeTimeout
<1>2. PICK i \in 1..Len(waiters) :
         waiters[i] = c /\ waiters' = Erase(waiters, i)
  BY <1>1 DEF ResumeTimeout
<1> DEFINE w == Erase(waiters, i)
<1>3. /\ w \in Seq(Callers)
      /\ Len(w) = Len(waiters) - 1
      /\ \A j \in 1..(Len(waiters) - 1) :
            /\ w[j] # waiters[i]
            /\ \E k \in 1..Len(waiters) : w[j] = waiters[k]
      /\ \A k \in 1..Len(waiters) :
            waiters[k] # waiters[i] =>
                \E j \in 1..(Len(waiters) - 1) : waiters[k] = w[j]
      /\ \A j, k \in 1..(Len(waiters) - 1) : w[j] = w[k] => j = k
  <2>1. /\ waiters \in Seq(Callers)
        /\ \A j, k \in 1..Len(waiters) : waiters[j] = waiters[k] => j = k
    BY DEF IInv, TypeOK, QueueIsTheUngranted
  <2> QED
    BY <2>1, EraseProperties
<1>4. Queued' = Queued \ {c}
  <2> HIDE DEF w
  <2>1. waiters' = w /\ waiters[i] = c
    BY <1>2 DEF w
  <2>2. ASSUME NEW x \in Queued' PROVE x \in Queued \ {c}
    BY <2>1, <1>3 DEF Queued
  <2>3. ASSUME NEW x \in Queued \ {c} PROVE x \in Queued'
    <3>1. PICK k \in 1..Len(waiters) : x = waiters[k]
      BY DEF Queued
    <3>2. \E j \in 1..Len(w) : waiters[k] = w[j]
      BY <3>1, <2>1, <1>3
    <3> QED
      BY <3>1, <3>2, <2>1 DEF Queued
  <2> QED
    BY <2>2, <2>3
<1>5. Owners' = Owners
  BY DEF Owners, ResumeTimeout
<1>6. IsFiniteSet(Owners') /\ SlotsConserved'
  BY <1>5 DEF IInv, SlotsConserved, ResumeTimeout
<1>7. NoIdleSlotWhileWaiting'
  <2>1. waiters # <<>>
    BY <1>2
  <2> QED
    BY <2>1 DEF IInv, NoIdleSlotWhileWaiting, ResumeTimeout
<1>8. QueueIsTheUngranted'
  <2>1. Queued' = (suspended \ granted)'
    BY <1>4 DEF IInv, QueueIsTheUngranted, ResumeTimeout
  <2>2. /\ granted' \subseteq woken'
        /\ woken' \subseteq suspended'
        /\ suspended' \cap tickets' = {}
    BY DEF IInv, QueueIsTheUngranted, ResumeTimeout
  <2>3. Len(waiters') <= queue_depth
    BY <1>2, <1>3, GateAssumption, LenProperties DEF IInv, QueueIsTheUngranted, TypeOK
  <2>4. \A j, k \in 1..Len(waiters') : waiters'[j] = waiters'[k] => j = k
    BY <1>2, <1>3
  <2> QED
    BY <2>1, <2>2, <2>3, <2>4 DEF QueueIsTheUngranted
<1>9. TypeOK'
  BY <1>2, <1>3 DEF IInv, TypeOK, ResumeTimeout
<1> QED
  BY <1>6, <1>7, <1>8, <1>9 DEF IInv

\* release() with a waiter: one owner goes and one, who was none, comes.
LEMMA GrantIInv ==
    ASSUME IInv, NEW c \in Callers, Release(c), GrantOldest
    PROVE  IInv'
<1> DEFINE h == Head(waiters)
<1>1. /\ waiters' \in Seq(Callers)
      /\ Len(waiters) \in Nat \ {0}
      /\ Len(waiters') = Len(waiters) - 1
      /\ \A i \in 1..(Len(waiters) - 1) : waiters'[i] = waiters[i + 1]
      /\ h = waiters[1]
      /\ h \in Callers
  BY HeadTailProperties, LenProperties DEF IInv, TypeOK, GrantOldest
<1>2. h \in Queued
  BY <1>1 DEF Queued
<1>3. Queued' = Queued \ {h}
  <2>1. ASSUME NEW x \in Queued' PROVE x \in Queued \ {h}
    <3>1. PICK i \in 1..(Len(waiters) - 1) : x = waiters[i + 1]
      BY <1>1 DEF Queued
    <3>2. i + 1 \in 1..Len(waiters) /\ i + 1 # 1 /\ 1 \in 1..Len(waiters)
      BY <1>1
    <3> QED
      BY <3>1, <3>2, <1>1 DEF Queued, IInv, QueueIsTheUngranted
  <2>2. ASSUME NEW x \in Queued \ {h} PROVE x \in Queued'
    <3>1. PICK i \in 1..Len(waiters) : x = waiters[i]
      BY DEF Queued
    <3>2. i - 1 \in 1..(Len(waiters) - 1)
      BY <1>1, <3>1
    <3>3. x = waiters'[i - 1]
      BY <1>1, <3>1, <3>2
    <3> QED
      BY <3>2, <3>3, <1>1 DEF Queued
  <2> QED
    BY <2>1, <2>2
<1>4. \A i, j \in 1..Len(waiters') : waiters'[i] = waiters'[j] => i = j
  BY <1>1 DEF IInv, QueueIsTheUngranted
<1> HIDE DEF h
<1>5. h \notin Owners /\ h \in suspended /\ c \in Owners /\ h # c
  BY <1>2 DEF IInv, QueueIsTheUngranted, Owners, Release
<1>6. Owners' = (Owners \ {c}) \cup {h}
  BY <1>5 DEF IInv, QueueIsTheUngranted, Owners, Release, GrantOldest, h
<1>7. IsFiniteSet(Owners') /\ Cardinality(Owners') = Cardinality(Owners)
  <2>1. /\ IsFiniteSet(Owners \ {c})
        /\ Cardinality(Owners \ {c}) = Cardinality(Owners) - 1
    BY <1>5, FS_RemoveElement DEF IInv
  <2>2. /\ IsFiniteSet((Owners \ {c}) \cup {h})
        /\ Cardinality((Owners \ {c}) \cup {h}) = Cardinality(Owners \ {c}) + 1
    BY <2>1, <1>5, FS_AddElement
  <2>3. Cardinality(Owners) \in Nat
    BY FS_CardinalityType DEF IInv
  <2> QED
    BY <2>1, <2>2, <2>3, <1>6
<1>8. SlotsConserved'
  BY <1>7 DEF IInv, SlotsConserved, GrantOldest
<1>9. NoIdleSlotWhileWaiting'
  BY DEF IInv, NoIdleSlotWhileWaiting, GrantOldest
<1>10. QueueIsTheUngranted'
  <2>1. granted' = granted \cup {h} /\ woken' = woken \cup {h}
    BY DEF GrantOldest, h
  <2>2. suspended' = suspended /\ tickets' = tickets \ {c}
    BY DEF Release
  <2>3. Len(waiters') <= queue_depth
    BY <1>1, GateAssumption DEF IInv, QueueIsTheUngranted
  <2> QED
    BY <2>1, <2>2, <2>3, <1>3, <1>4, <1>5 DEF IInv, QueueIsTheUngranted
<1>11. TypeOK'
  BY <1>1 DEF IInv, TypeOK, GrantOldest, Release, h
<1> QED
  BY <1>7, <1>8, <1>9, <1>10, <1>11 DEF IInv

\* release() with nobody waiting: an owner goes and the counter follows.
LEMMA FreeIInv ==
    ASSUME IInv, NEW c \in Callers, Release(c), FreeSlot
    PROVE  IInv'
<1>1. c \in Owners /\ c \notin granted /\ Owners' = Owners \ {c}
  BY DEF IInv, QueueIsTheUngranted, Owners, Release, FreeSlot
<1>2. /\ IsFiniteSet(Owners')
      /\ Cardinality(Owners') = Cardinality(Owners) - 1
      /\ Cardinality(Owners) \in Nat
      /\ Cardinality(Owners') \in Nat
  BY <1>1, FS_RemoveElement, FS_CardinalityType DEF IInv
<1>3. SlotsConserved' /\ in_flight' \in Nat
  BY <1>2, GateAssumption DEF IInv, SlotsConserved, FreeSlot
<1>4. NoIdleSlotWhileWaiting'
  BY DEF NoIdleSlotWhileWaiting, FreeSlot
<1>5. QueueIsTheUngranted'
  BY DEF IInv, QueueIsTheUngranted, Queued, FreeSlot, Release
<1>6. TypeOK'
  BY <1>3 DEF IInv, TypeOK, FreeSlot, Release
<1> QED
  BY <1>2, <1>3, <1>4, <1>5, <1>6 DEF IInv

\* Every step of the gate, and every stutter, keeps the invariant.
LEMMA NextIInv == IInv /\ [Next]_vars => IInv'
<1> SUFFICES ASSUME IInv, [Next]_vars PROVE IInv'
  OBVIOUS
<1>1. CASE UNCHANGED vars
  BY <1>1
     DEF vars, IInv, TypeOK, SlotsConserved, NoIdleSlotWhileWaiting,
         QueueIsTheUngranted, Owners, Queued
<1>2. ASSUME NEW c \in Callers, AcquireNow(c) PROVE IInv'
  BY <1>2, AcquireNowIInv
<1>3. ASSUME NEW c \in Callers, AcquireQueueFull(c) PROVE IInv'
  BY <1>3, <1>1 DEF AcquireQueueFull
<1>4. ASSUME NEW c \in Callers, AcquireWait(c) PROVE IInv'
  BY <1>4, AcquireWaitIInv
<1>5. ASSUME NEW c \in Callers, TimerExpires(c) PROVE IInv'
  BY <1>5, TimerExpiresIInv
<1>6. ASSUME NEW c \in Callers, ResumeGranted(c) PROVE IInv'
  BY <1>6, ResumeGrantedIInv
<1>7. ASSUME NEW c \in Callers, ResumeTimeout(c) PROVE IInv'
  BY <1>7, ResumeTimeoutIInv
<1>8. ASSUME NEW c \in Callers, Release(c) PROVE IInv'
  BY <1>8, GrantIInv, FreeIInv DEF Release
<1> QED
  BY <1>1, <1>2, <1>3, <1>4, <1>5, <1>6, <1>7, <1>8 DEF Next

\* The invariant holds in every state of every behaviour.
LEMMA Invariance == Spec => []IInv
BY InitIInv, NextIInv, PTL DEF Spec

\* The gate's variables keep their types; in_flight_ is never negative.
THEOREM GateTypeCorrect == Spec => []TypeOK
<1>1. IInv => TypeOK
  BY DEF IInv
<1> QED
  BY <1>1, Invariance, PTL

\* For every ceiling and depth: in_flight_ counts the owned slots exactly and
\* stays within max_concurrent_streams.
THEOREM GateConservesSlots == Spec => []SlotsConserved
<1>1. IInv => SlotsConserved
  BY DEF IInv
<1> QED
  BY <1>1, Invariance, PTL

\* For every ceiling and depth: nobody waits while a slot is free.
THEOREM GateIsWorkConserving == Spec => []NoIdleSlotWhileWaiting
<1>1. IInv => NoIdleSlotWhileWaiting
  BY DEF IInv
<1> QED
  BY <1>1, Invariance, PTL

\* For every ceiling and depth: waiters_ is the ungranted suspended callers,
\* each once, within queue_depth.
THEOREM GateQueueIsExact == Spec => []QueueIsTheUngranted
<1>1. IInv => QueueIsTheUngranted
  BY DEF IInv
<1> QED
  BY <1>1, Invariance, PTL

-----------------------------------------------------------------------------
(***************************************************************************)
(* Refinement of SlotPool: expiries and resumptions with a grant are       *)
(* stutters of the pool, every other step is the pool's step.              *)
(***************************************************************************)

\* Each step of the gate is a step of the pool or leaves the pool alone.
LEMMA StepRefines ==
    ASSUME IInv, IInv', [Next]_vars
    PROVE  [Pool!Next]_(Pool!vars)
<1> USE DEF Pool!vars
<1>c. \A S : Pool!Cardinality(S) = Cardinality(S)
  BY DEF Pool!Cardinality, Cardinality
<1>0. Pool!InLine = Queued
  BY DEF Pool!InLine, Queued
<1>a. \A c : Outside(c) => c \notin Owners \cup Pool!InLine
  BY <1>0 DEF IInv, QueueIsTheUngranted, Outside, Owners
<1>b. in_flight = Cardinality(Owners) /\ in_flight \in Nat
  BY DEF IInv, SlotsConserved, TypeOK
<1>1. CASE UNCHANGED vars
  BY <1>1 DEF vars, Owners
<1>2. ASSUME NEW c \in Callers, AcquireNow(c)
      PROVE  Pool!Take(c)
  <2>1. Outside(c) /\ HasFreeSlot /\ waiters' = waiters
    BY <1>2 DEF AcquireNow
  <2>2. Owners' = Owners \cup {c}
    BY <1>2 DEF AcquireNow, Owners
  <2> QED
    BY <2>1, <2>2, <1>a, <1>b, <1>c DEF HasFreeSlot, Pool!Take
<1>3. ASSUME NEW c \in Callers, AcquireQueueFull(c)
      PROVE  UNCHANGED Pool!vars
  BY <1>3 DEF AcquireQueueFull, vars, Owners
<1>4. ASSUME NEW c \in Callers, AcquireWait(c)
      PROVE  Pool!StandInLine(c)
  <2>1. Outside(c) /\ waiters' = Append(waiters, c) /\ Len(waiters) < queue_depth
    BY <1>4 DEF AcquireWait
  <2>2. Owners' = Owners
    BY <1>4 DEF AcquireWait, Owners
  <2>3. Cardinality(Owners) = max_concurrent
    BY <1>4, <1>b, GateAssumption
       DEF AcquireWait, HasFreeSlot, IInv, SlotsConserved, NoIdleSlotWhileWaiting
  <2> QED
    BY <2>1, <2>2, <2>3, <1>a, <1>c DEF Pool!StandInLine
<1>5. ASSUME NEW c \in Callers, TimerExpires(c)
      PROVE  UNCHANGED Pool!vars
  BY <1>5 DEF TimerExpires, Owners
<1>6. ASSUME NEW c \in Callers, ResumeGranted(c)
      PROVE  UNCHANGED Pool!vars
  BY <1>6 DEF ResumeGranted, Owners
<1>7. ASSUME NEW c \in Callers, ResumeTimeout(c)
      PROVE  Pool!GiveUp(c)
  <2>1. c \in Queued
    BY <1>7 DEF IInv, QueueIsTheUngranted, ResumeTimeout
  <2>2. PICK i \in 1..Len(waiters) :
           waiters[i] = c /\ waiters' = Erase(waiters, i)
    BY <2>1, <1>7 DEF ResumeTimeout
  <2>3. Owners' = Owners
    BY <1>7 DEF ResumeTimeout, Owners
  <2> QED
    BY <2>2, <2>3 DEF Pool!GiveUp, Erase
<1>8. ASSUME NEW c \in Callers, Release(c)
      PROVE  Pool!Leave(c)
  <2>1. c \in Owners /\ c \notin granted
    BY <1>8 DEF Release, Owners, IInv, QueueIsTheUngranted
  <2>2. CASE GrantOldest
    <3>1. Head(waiters) \in Queued
      <4>1. Head(waiters) = waiters[1] /\ 1 \in 1..Len(waiters)
        BY <2>2, HeadTailProperties, LenProperties
           DEF GrantOldest, IInv, TypeOK
      <4> QED
        BY <4>1 DEF Queued
    <3>2. Head(waiters) # c
      BY <3>1, <1>8 DEF IInv, QueueIsTheUngranted, Release
    <3>3. Owners' = (Owners \ {c}) \cup {Head(waiters)}
      BY <2>1, <2>2, <3>2, <1>8 DEF GrantOldest, Release, Owners
    <3>4. waiters # <<>> /\ waiters' = Tail(waiters)
      BY <2>2 DEF GrantOldest
    <3> QED
      BY <3>3, <3>4, <2>1 DEF Pool!Leave
  <2>3. CASE FreeSlot
    <3>1. Owners' = Owners \ {c}
      BY <2>1, <2>3, <1>8 DEF FreeSlot, Release, Owners
    <3>2. waiters = <<>> /\ waiters' = waiters
      BY <2>3 DEF FreeSlot
    <3> QED
      BY <3>1, <3>2, <2>1 DEF Pool!Leave
  <2> QED
    BY <2>2, <2>3, <1>8 DEF Release
<1> QED
  BY <1>1, <1>2, <1>3, <1>4, <1>5, <1>6, <1>7, <1>8 DEF Next, Pool!Next

\* The gate implements the slot pool, for every ceiling and depth.
THEOREM GateImplementsPool == Spec => ImplementsPool
<1>1. Init => Pool!Init
  BY DEF Init, Pool!Init, Owners
<1>2. IInv /\ IInv' /\ [Next]_vars => [Pool!Next]_(Pool!vars)
  BY StepRefines
<1> QED
  BY <1>1, <1>2, Invariance, PTL DEF Spec, Pool!Spec, ImplementsPool

-----------------------------------------------------------------------------
\* No step of the gate lets a caller pass one that waits.
LEMMA StepFCFS ==
    ASSUME IInv, [Next]_vars
    PROVE  FCFSStep
<1>1. /\ \A k, l \in 1..Len(waiters) : waiters[k] = waiters[l] => k = l
      /\ Len(waiters) \in Nat
      /\ waiters \in Seq(Callers)
  BY LenProperties DEF IInv, TypeOK, QueueIsTheUngranted
<1>2. ASSUME waiters' = waiters, Owners' \subseteq Owners \/ waiters = <<>>
      PROVE  FCFSStep
  BY <1>1, <1>2 DEF FCFSStep
<1>3. CASE UNCHANGED vars
  BY <1>2, <1>3 DEF vars, Owners
<1>4. ASSUME NEW c \in Callers, AcquireNow(c) PROVE FCFSStep
  BY <1>2, <1>4 DEF AcquireNow, HasFreeSlot
<1>5. ASSUME NEW c \in Callers, AcquireQueueFull(c) PROVE FCFSStep
  BY <1>3, <1>5 DEF AcquireQueueFull
<1>6. ASSUME NEW c \in Callers, AcquireWait(c) PROVE FCFSStep
  <2>1. Owners' = Owners
    BY <1>6 DEF AcquireWait, Owners
  <2>2. /\ Len(waiters') = Len(waiters) + 1
        /\ \A i \in 1..Len(waiters) : waiters'[i] = waiters[i]
        /\ waiters'[Len(waiters) + 1] = c
    BY <1>1, <1>6, AppendProperties DEF AcquireWait
  <2>3. \A k \in 1..Len(waiters) : waiters[k] # c
    BY <1>6 DEF AcquireWait, Outside, IInv, QueueIsTheUngranted, Queued
  <2>4. ASSUME NEW i \in 1..Len(waiters'), NEW k \in 1..Len(waiters),
               waiters'[i] = waiters[k]
        PROVE  i = k
    <3>1. i \in 1..Len(waiters) \/ i = Len(waiters) + 1
      BY <1>1, <2>2
    <3> QED
      BY <3>1, <2>2, <2>3, <2>4, <1>1
  <2> QED
    BY <2>1, <2>4 DEF FCFSStep
<1>7. ASSUME NEW c \in Callers, TimerExpires(c) PROVE FCFSStep
  BY <1>2, <1>7 DEF TimerExpires, Owners
<1>8. ASSUME NEW c \in Callers, ResumeGranted(c) PROVE FCFSStep
  BY <1>2, <1>8 DEF ResumeGranted, Owners
<1>9. ASSUME NEW c \in Callers, ResumeTimeout(c) PROVE FCFSStep
  <2>1. Owners' = Owners
    BY <1>9 DEF ResumeTimeout, Owners
  <2>2. c \in Queued
    BY <1>9 DEF IInv, QueueIsTheUngranted, ResumeTimeout
  <2>3. PICK e \in 1..Len(waiters) : waiters' = Erase(waiters, e)
    BY <2>2, <1>9 DEF ResumeTimeout
  <2> DEFINE Up(i) == IF i < e THEN i ELSE i + 1
  <2>4. /\ Len(waiters') = Len(waiters) - 1
        /\ \A i \in 1..(Len(waiters) - 1) :
              Up(i) \in 1..Len(waiters) /\ waiters'[i] = waiters[Up(i)]
    BY <1>1, <2>3 DEF Erase
  <2>5. \A i, j \in 1..(Len(waiters) - 1) : Up(i) < Up(j) => i < j
    BY <1>1
  <2> HIDE DEF Up
  <2>6. ASSUME NEW i \in 1..Len(waiters'), NEW k \in 1..Len(waiters),
               waiters'[i] = waiters[k]
        PROVE  Up(i) = k
    BY <2>4, <2>6, <1>1
  <2> QED
    BY <2>1, <2>4, <2>5, <2>6 DEF FCFSStep
<1>10. ASSUME NEW c \in Callers, Release(c), FreeSlot PROVE FCFSStep
  BY <1>2, <1>10 DEF Release, FreeSlot, Owners
<1>11. ASSUME NEW c \in Callers, Release(c), GrantOldest PROVE FCFSStep
  <2>1. \A x \in Owners' \ Owners : x = Head(waiters)
    BY <1>11 DEF Release, GrantOldest, Owners
  <2>2. /\ Len(waiters') = Len(waiters) - 1
        /\ \A i \in 1..(Len(waiters) - 1) : waiters'[i] = waiters[i + 1]
    BY <1>1, <1>11, HeadTailProperties DEF GrantOldest
  <2>3. ASSUME NEW i \in 1..Len(waiters'), NEW k \in 1..Len(waiters),
               waiters'[i] = waiters[k]
        PROVE  i + 1 = k
    <3>1. i + 1 \in 1..Len(waiters) /\ waiters'[i] = waiters[i + 1]
      BY <1>1, <2>2
    <3> QED
      BY <3>1, <2>3, <1>1
  <2>4. ASSUME NEW i \in 1..Len(waiters'), NEW j \in 1..Len(waiters'),
               NEW k \in 1..Len(waiters), NEW l \in 1..Len(waiters),
               waiters'[i] = waiters[k], waiters'[j] = waiters[l], k < l
        PROVE  i < j
    <3>1. i + 1 = k /\ j + 1 = l
      BY <2>3, <2>4
    <3> QED
      BY <3>1, <2>4, <2>2, <1>1
  <2> QED
    BY <2>1, <2>4 DEF FCFSStep
<1> QED
  BY <1>3, <1>4, <1>5, <1>6, <1>7, <1>8, <1>9, <1>10, <1>11
     DEF Next, Release

\* First come, first served, for every ceiling and depth: neither the fast path
\* nor a grant lets a caller pass one that waits.
THEOREM GateIsFirstComeFirstServed == Spec => FirstComeFirstServed
<1>1. IInv /\ [Next]_vars => [FCFSStep]_vars
  BY StepFCFS
<1> QED
  BY <1>1, Invariance, PTL DEF Spec, FirstComeFirstServed
=============================================================================
