---------------------------- MODULE RWLockProofs ----------------------------
(***************************************************************************)
(* Proofs about RWLock for any finite set of threads and any choice of     *)
(* which calls can time out.  The inductive invariant is the conjunction   *)
(* of the type invariant, the exactness of the three counters, mutual      *)
(* exclusion and the absence of stranded writers: the lock's tests read    *)
(* only the counters, so mutual exclusion is not inductive without         *)
(* CountersExact.                                                          *)
(***************************************************************************)
EXTENDS RWLock, FiniteSetTheorems, TLAPS

Waiting == At("wTest") \cup At("wWait")

\* Every set of threads at a place is finite, so its cardinality is a number
\* that moves by one when a thread enters or leaves.
LEMMA ThreadSetsFinite ==
    ASSUME NEW S \in SUBSET Threads
    PROVE  /\ IsFiniteSet(S)
           /\ Cardinality(S) \in Nat
           /\ Cardinality(S) = 0 <=> S = {}
           /\ \A x \in S : Cardinality(S \ {x}) = Cardinality(S) - 1
           /\ \A x \in Threads \ S : Cardinality(S \cup {x}) = Cardinality(S) + 1
  <1>1. IsFiniteSet(S)
    BY ThreadsAssumption, FS_Subset
  <1>2. Cardinality(S) \in Nat /\ (Cardinality(S) = 0 <=> S = {})
    BY <1>1, FS_CardinalityType, FS_EmptySet
  <1>3. \A x \in S : Cardinality(S \ {x}) = Cardinality(S) - 1
    BY <1>1, FS_RemoveElement
  <1>4. \A x \in Threads \ S : Cardinality(S \cup {x}) = Cardinality(S) + 1
    BY <1>1, FS_AddElement
  <1> QED BY <1>1, <1>2, <1>3, <1>4

LEMMA AtFinite ==
    ASSUME TypeOK
    PROVE  /\ \A s \in States : At(s) \in SUBSET Threads
           /\ Waiting \in SUBSET Threads
  BY DEF At, Waiting

Inv == TypeOK /\ CountersExact /\ MutualExclusion /\ NoStrandedWriter

\* The lock starts free, with every counter at zero.
LEMMA InvInit == Init => Inv
  <1> SUFFICES ASSUME Init PROVE Inv OBVIOUS
  <1>1. TypeOK BY DEF Init, TypeOK, States
  <1>2. At("reading") = {} /\ At("writing") = {} /\ At("wTest") \cup At("wWait") = {}
    BY DEF Init, At
  <1>3. CountersExact BY <1>2, FS_EmptySet DEF Init, CountersExact
  <1>4. MutualExclusion BY DEF Init, MutualExclusion
  <1>5. NoStrandedWriter BY <1>2 DEF NoStrandedWriter
  <1> QED BY <1>1, <1>3, <1>4, <1>5 DEF Inv

\* A notification moves at most one thread, from "wWait" to "wTest".
LEMMA NotifyMoves ==
    ASSUME NEW from \in [Threads -> States], NotifyOneWriter(from)
    PROVE  \/ pc' = from /\ \A u \in Threads : from[u] # "wWait"
           \/ \E w \in Threads : from[w] = "wWait" /\ pc' = [from EXCEPT ![w] = "wTest"]
  BY DEF NotifyOneWriter

\* Only the critical sections that assign _readers, _writers and
\* _writer_waiters move threads in or out of the sets these count.
LEMMA CountersStep ==
    ASSUME Inv, TypeOK', NEW t \in Threads, Step(t)
    PROVE  CountersExact'
  <1> DEFINE R == At("reading")
             W == At("writing")
             Q == Waiting
  <1> USE DEF Inv, TypeOK, CountersExact, Waiting
  <1>1. /\ readers = Cardinality(R) /\ writers = Cardinality(W)
        /\ writerWaiters = Cardinality(Q)
        /\ R \in SUBSET Threads /\ W \in SUBSET Threads /\ Q \in SUBSET Threads
    BY AtFinite DEF States
  <1>2. CASE CallRead(t) \/ CallWrite(t) \/ ParkReader(t) \/ ReadBusy(t)
    <2>1. R' = R /\ W' = W /\ Q' = Q
      BY <1>2 DEF CallRead, CallWrite, ParkReader, ReadBusy, Goto, At
    <2> QED BY <1>1, <1>2, <2>1 DEF CallRead, CallWrite, ParkReader, ReadBusy
  <1>3. CASE AcquireRead(t)
    <2>1. t \notin R /\ R' = R \cup {t} /\ W' = W /\ Q' = Q
      BY <1>3 DEF AcquireRead, Goto, At
    <2>2. Cardinality(R \cup {t}) = Cardinality(R) + 1
      BY <1>1, <2>1, ThreadSetsFinite
    <2> QED BY <1>1, <1>3, <2>1, <2>2 DEF AcquireRead
  <1>4. CASE ReleaseRead(t)
    <2> DEFINE left == [pc EXCEPT ![t] = "idle"]
    <2>1. left \in [Threads -> States] BY DEF States
    <2>2. \/ pc' = left
          \/ \E w \in Threads : left[w] = "wWait" /\ pc' = [left EXCEPT ![w] = "wTest"]
      BY <1>4, <2>1, NotifyMoves DEF ReleaseRead
    <2>3. t \in R /\ R' = R \ {t} /\ W' = W /\ Q' = Q
      BY <1>4, <2>1, <2>2 DEF ReleaseRead, At
    <2>4. Cardinality(R \ {t}) = Cardinality(R) - 1
      BY <1>1, <2>3, ThreadSetsFinite
    <2> QED BY <1>1, <1>4, <2>3, <2>4 DEF ReleaseRead
  <1>5. CASE AcquireWrite(t)
    <2>1. t \notin W /\ W' = W \cup {t} /\ R' = R
      BY <1>5 DEF AcquireWrite, Goto, At
    <2>4. Cardinality(W \cup {t}) = Cardinality(W) + 1
      BY <1>1, <2>1, ThreadSetsFinite
    <2>2. CASE pc[t] = "wEnter"
      <3>1. Q' = Q BY <1>5, <2>2 DEF AcquireWrite, Goto, At
      <3>2. writerWaiters' = writerWaiters
        BY <1>5, <2>2 DEF AcquireWrite, Counted
      <3> QED BY <1>1, <1>5, <2>1, <2>4, <3>1, <3>2 DEF AcquireWrite
    <2>3. CASE pc[t] = "wTest"
      <3>1. t \in Q /\ Q' = Q \ {t} BY <1>5, <2>3 DEF AcquireWrite, Goto, At
      <3>2. Cardinality(Q \ {t}) = Cardinality(Q) - 1
        BY <1>1, <3>1, ThreadSetsFinite
      <3> QED BY <1>1, <1>5, <2>1, <2>4, <2>3, <3>1, <3>2 DEF AcquireWrite, Counted
    <2> QED BY <1>5, <2>2, <2>3 DEF AcquireWrite
  <1>6. CASE ParkWriter(t)
    <2>1. W' = W /\ R' = R
      BY <1>6 DEF ParkWriter, Goto, At
    <2>2. CASE pc[t] = "wEnter"
      <3>1. t \notin Q /\ Q' = Q \cup {t} BY <1>6, <2>2 DEF ParkWriter, Goto, At
      <3>2. Cardinality(Q \cup {t}) = Cardinality(Q) + 1
        BY <1>1, <3>1, ThreadSetsFinite
      <3> QED BY <1>1, <1>6, <2>1, <2>2, <3>1, <3>2 DEF ParkWriter, Counted
    <2>3. CASE pc[t] = "wTest"
      <3>1. Q' = Q BY <1>6, <2>3 DEF ParkWriter, Goto, At
      <3> QED BY <1>1, <1>6, <2>1, <2>3, <3>1 DEF ParkWriter, Counted
    <2> QED BY <1>6, <2>2, <2>3 DEF ParkWriter
  <1>7. CASE WriteBusy(t)
    <2>1. W' = W /\ R' = R
      BY <1>7 DEF WriteBusy, Goto, At
    <2>2. CASE pc[t] = "wEnter"
      <3>1. Q' = Q BY <1>7, <2>2 DEF WriteBusy, Goto, At
      <3>2. writerWaiters' = writerWaiters
        BY <1>7, <2>2 DEF WriteBusy, Counted
      <3> QED BY <1>1, <1>7, <2>1, <3>1, <3>2 DEF WriteBusy
    <2>3. CASE pc[t] = "wTest"
      <3>1. t \in Q /\ Q' = Q \ {t} BY <1>7, <2>3 DEF WriteBusy, Goto, At
      <3>2. Cardinality(Q \ {t}) = Cardinality(Q) - 1
        BY <1>1, <3>1, ThreadSetsFinite
      <3> QED BY <1>1, <1>7, <2>1, <2>3, <3>1, <3>2 DEF WriteBusy, Counted
    <2> QED BY <1>7, <2>2, <2>3 DEF WriteBusy
  <1>8. CASE ReleaseWrite(t)
    <2> DEFINE left == NotifyAllReaders([pc EXCEPT ![t] = "idle"])
    <2>1. left \in [Threads -> States] BY DEF States, NotifyAllReaders
    <2>2. \/ pc' = left
          \/ \E w \in Threads : left[w] = "wWait" /\ pc' = [left EXCEPT ![w] = "wTest"]
      BY <1>8, <2>1, NotifyMoves DEF ReleaseWrite
    <2>3. t \in W /\ W' = W \ {t} /\ R' = R /\ Q' = Q
      BY <1>8, <2>1, <2>2 DEF ReleaseWrite, NotifyAllReaders, At
    <2>4. Cardinality(W \ {t}) = Cardinality(W) - 1
      BY <1>1, <2>3, ThreadSetsFinite
    <2> QED BY <1>1, <1>8, <2>3, <2>4 DEF ReleaseWrite
  <1>9. CASE Expire(t)
    <2>1. R' = R /\ W' = W /\ Q' = Q
      BY <1>9 DEF Expire, Goto, At
    <2> QED BY <1>1, <1>9, <2>1 DEF Expire
  <1> QED
    BY <1>2, <1>3, <1>4, <1>5, <1>6, <1>7, <1>8, <1>9 DEF Step, Progress

\* The counters are natural numbers because the thread that gives a place
\* back is in the set that is counted.
LEMMA TypeStep ==
    ASSUME Inv, NEW t \in Threads, Step(t)
    PROVE  TypeOK'
  <1> USE DEF Inv, TypeOK, CountersExact, Waiting
  <1>1. pc' \in [Threads -> States]
    BY DEF Step, Progress, CallRead, CallWrite, ParkReader, ReadBusy, AcquireRead,
           ReleaseRead, AcquireWrite, ParkWriter, WriteBusy, ReleaseWrite, Expire,
           Goto, NotifyOneWriter, NotifyAllReaders, States
  <1>2. late' \in [Threads -> BOOLEAN]
    BY DEF Step, Progress, CallRead, CallWrite, ParkReader, ReadBusy, AcquireRead,
           ReleaseRead, AcquireWrite, ParkWriter, WriteBusy, ReleaseWrite, Expire
  <1>3. /\ pc[t] = "reading" => readers > 0
        /\ pc[t] = "writing" => writers > 0
        /\ pc[t] = "wTest" => writerWaiters > 0
    <2>1. /\ At("reading") \in SUBSET Threads /\ At("writing") \in SUBSET Threads
          /\ Waiting \in SUBSET Threads
      BY AtFinite DEF States
    <2>2. /\ Cardinality(At("reading")) = 0 <=> At("reading") = {}
          /\ Cardinality(At("writing")) = 0 <=> At("writing") = {}
          /\ Cardinality(Waiting) = 0 <=> Waiting = {}
      BY <2>1, ThreadSetsFinite
    <2>3. /\ pc[t] = "reading" => At("reading") # {}
          /\ pc[t] = "writing" => At("writing") # {}
          /\ pc[t] = "wTest" => Waiting # {}
      BY DEF At
    <2> QED BY <2>2, <2>3
  <1>4. readers' \in Nat /\ writers' \in Nat /\ writerWaiters' \in Nat
    BY <1>3 DEF Step, Progress, CallRead, CallWrite, ParkReader, ReadBusy, AcquireRead,
           ReleaseRead, AcquireWrite, ParkWriter, WriteBusy, ReleaseWrite, Expire, Counted
  <1> QED BY <1>1, <1>2, <1>4

\* A thread enters the lock only after its test saw the counters at zero, and
\* the counters are exact.
LEMMA ExclusionStep ==
    ASSUME Inv, NEW t \in Threads, Step(t)
    PROVE  MutualExclusion'
  <1> USE DEF Inv, TypeOK, CountersExact, MutualExclusion
  <1>1. /\ readers = 0 <=> At("reading") = {}
        /\ writers = 0 <=> At("writing") = {}
    BY AtFinite, ThreadSetsFinite DEF States
  <1>2. CASE AcquireRead(t)
    <2>1. At("writing") = {}
      BY <1>1, <1>2 DEF AcquireRead, ReadBlocked
    <2> QED BY <1>2, <2>1 DEF AcquireRead, Goto, At
  <1>3. CASE AcquireWrite(t)
    <2>1. At("writing") = {} /\ At("reading") = {}
      BY <1>1, <1>3 DEF AcquireWrite, WriteBlocked
    <2> QED BY <1>3, <2>1 DEF AcquireWrite, Goto, At
  <1>4. CASE ~AcquireRead(t) /\ ~AcquireWrite(t)
    <2>1. \A u \in Threads : pc'[u] \in {"reading", "writing"} => pc'[u] = pc[u]
      BY <1>4 DEF Step, Progress, CallRead, CallWrite, ParkReader, ReadBusy, ReleaseRead,
             ParkWriter, WriteBusy, ReleaseWrite, Expire,
             Goto, NotifyOneWriter, NotifyAllReaders, States
    <2> QED BY <2>1
  <1> QED BY <1>2, <1>3, <1>4

\* Whoever frees the lock wakes one sleeping writer, and a woken writer does
\* not leave its loop while the lock is free except by taking it.
LEMMA WakeupStep ==
    ASSUME Inv, NEW t \in Threads, Step(t)
    PROVE  NoStrandedWriter'
  <1> USE DEF Inv, TypeOK, NoStrandedWriter, WriteBlocked
  <1>1. CASE CallRead(t) \/ CallWrite(t) \/ ParkReader(t) \/ ReadBusy(t)
    <2>1. At("wWait")' = At("wWait") /\ At("wTest")' = At("wTest")
      BY <1>1 DEF CallRead, CallWrite, ParkReader, ReadBusy, Goto, At
    <2> QED BY <1>1, <2>1 DEF CallRead, CallWrite, ParkReader, ReadBusy
  <1>2. CASE AcquireRead(t)
    BY <1>2 DEF AcquireRead
  <1>3. CASE AcquireWrite(t)
    BY <1>3 DEF AcquireWrite
  <1>4. CASE ParkWriter(t) \/ WriteBusy(t)
    BY <1>4 DEF ParkWriter, WriteBusy
  <1>5. CASE ReleaseRead(t)
    <2> DEFINE left == [pc EXCEPT ![t] = "idle"]
    <2>1. left \in [Threads -> States] BY DEF States
    <2>2. CASE readers' = 0
      <3>1. \/ pc' = left /\ \A u \in Threads : left[u] # "wWait"
            \/ \E w \in Threads : left[w] = "wWait" /\ pc' = [left EXCEPT ![w] = "wTest"]
        BY <1>5, <2>1, <2>2, NotifyMoves DEF ReleaseRead
      <3> QED BY <2>1, <3>1 DEF At
    <2>3. CASE readers' # 0
      BY <1>5, <2>3, TypeStep DEF ReleaseRead
    <2> QED BY <2>2, <2>3
  <1>6. CASE ReleaseWrite(t)
    <2> DEFINE left == NotifyAllReaders([pc EXCEPT ![t] = "idle"])
    <2>1. left \in [Threads -> States] BY DEF States, NotifyAllReaders
    <2>2. \/ pc' = left /\ \A u \in Threads : left[u] # "wWait"
          \/ \E w \in Threads : left[w] = "wWait" /\ pc' = [left EXCEPT ![w] = "wTest"]
      BY <1>6, <2>1, NotifyMoves DEF ReleaseWrite
    <2> HIDE DEF left
    <2> QED BY <2>1, <2>2 DEF At
  <1>7. CASE Expire(t)
    <2>1. CASE pc[t] = "wWait"
      BY <1>7, <2>1 DEF Expire, Goto, At
    <2>2. CASE pc[t] # "wWait"
      <3>1. At("wWait")' = At("wWait") /\ At("wTest")' = At("wTest")
        BY <1>7, <2>2 DEF Expire, Goto, At
      <3> QED BY <1>7, <3>1 DEF Expire
    <2> QED BY <2>1, <2>2
  <1> QED BY <1>1, <1>2, <1>3, <1>4, <1>5, <1>6, <1>7 DEF Step, Progress

LEMMA InvStep == Inv /\ [Next]_vars => Inv'
  <1>1. ASSUME Inv, NEW t \in Threads, Step(t) PROVE Inv'
    BY <1>1, TypeStep, CountersStep, ExclusionStep, WakeupStep DEF Inv
  <1>2. ASSUME Inv, UNCHANGED vars PROVE Inv'
    BY <1>2 DEF Inv, vars, TypeOK, CountersExact, MutualExclusion, NoStrandedWriter,
           WriteBlocked, At
  <1> QED BY <1>1, <1>2 DEF Next

LEMMA InvAlways == Spec => []Inv
  BY InvInit, InvStep, PTL DEF Spec

\* The state of the lock is always well typed; in particular no release or
\* timeout makes a counter negative.
THEOREM TypeCorrect == Spec => []TypeOK
  <1>1. Inv => TypeOK BY DEF Inv
  <1> QED BY InvAlways, <1>1, PTL

\* _readers, _writers and _writer_waiters count exactly the threads they are
\* meant to count, on every interleaving of calls, timeouts and wakeups.
THEOREM CountersCorrect == Spec => []CountersExact
  <1>1. Inv => CountersExact BY DEF Inv
  <1> QED BY InvAlways, <1>1, PTL

\* For any number of threads: many readers or one writer, never both.
THEOREM Exclusion == Spec => []MutualExclusion
  <1>1. Inv => MutualExclusion BY DEF Inv
  <1> QED BY InvAlways, <1>1, PTL

\* For any number of threads: a free lock with a sleeping writer always has
\* an awake one.
THEOREM NoLostWriterWakeup == Spec => []NoStrandedWriter
  <1>1. Inv => NoStrandedWriter BY DEF Inv
  <1> QED BY InvAlways, <1>1, PTL

\* No step of any thread makes a reader while a writer is counted as waiting.
THEOREM WriterPriority == Spec => WritersFirst
  <1> DEFINE A == \A t \in Threads : pc[t] # "reading" /\ pc'[t] = "reading"
                                       => At("wTest") \cup At("wWait") = {}
  <1>1. ASSUME Inv, NEW u \in Threads, Step(u) PROVE A
    <2> USE DEF Inv, TypeOK
    <2>1. CASE AcquireRead(u)
      <3>1. writerWaiters = 0
        BY <1>1, <2>1 DEF AcquireRead, ReadBlocked
      <3>2. Waiting = {}
        BY <1>1, <3>1, AtFinite, ThreadSetsFinite DEF CountersExact, Waiting
      <3> QED BY <3>2 DEF Waiting
    <2>2. CASE ~AcquireRead(u)
      <3>1. \A t \in Threads : pc'[t] = "reading" => pc[t] = "reading"
        BY <1>1, <2>2 DEF Step, Progress, CallRead, CallWrite, ParkReader, ReadBusy,
               ReleaseRead, AcquireWrite, ParkWriter, WriteBusy, ReleaseWrite, Expire,
               Goto, NotifyOneWriter, NotifyAllReaders, States
      <3> QED BY <3>1
    <2> QED BY <2>1, <2>2
  <1>2. Inv /\ [Next]_vars => [A]_vars
    BY <1>1 DEF Next
  <1> QED BY InvAlways, <1>2, PTL DEF Spec, WritersFirst

\* For any number of threads: the only step after which a reader sleeps beside
\* a lock that nobody holds or waits for is a writer's timeout; every release
\* wakes the readers it should, and no reader goes to sleep on a free lock
\* (lock.py, acquire_read, acquire_write and release_write).
THEOREM StrandedByTimeout == Spec => OnlyTimeoutsStrand
  <1> DEFINE A == ~Stranded /\ Stranded' =>
                     \E w \in Threads : late[w] /\ pc[w] \in {"wEnter", "wTest"} /\ pc'[w] = "idle"
  <1>1. ASSUME Inv, NEW u \in Threads, Step(u) PROVE A
    <2> USE DEF Inv, TypeOK
    <2>1. CASE CallRead(u) \/ CallWrite(u) \/ AcquireRead(u) \/ ReadBusy(u) \/ Expire(u)
      <3>1. At("rWait")' \subseteq At("rWait") /\ UNCHANGED <<writers, writerWaiters>>
        BY <1>1, <2>1
           DEF CallRead, CallWrite, AcquireRead, ReadBusy, Expire, Goto, At, States
      <3> QED BY <3>1 DEF Stranded, ReadBlocked
    <2>2. CASE ParkReader(u)
      BY <2>2 DEF ParkReader, Stranded, ReadBlocked
    <2>3. CASE ReleaseRead(u)
      <3> DEFINE left == [pc EXCEPT ![u] = "idle"]
      <3>1. left \in [Threads -> States]
        BY <1>1 DEF States
      <3>2. \/ pc' = left
            \/ \E w \in Threads : left[w] = "wWait" /\ pc' = [left EXCEPT ![w] = "wTest"]
        BY <2>3, <3>1, NotifyMoves DEF ReleaseRead
      <3>3. At("rWait")' \subseteq At("rWait")
        BY <1>1, <3>1, <3>2 DEF At
      <3> QED BY <2>3, <3>3 DEF ReleaseRead, Stranded, ReadBlocked
    <2>4. CASE AcquireWrite(u)
      BY <1>1, <2>4 DEF AcquireWrite, Stranded, ReadBlocked
    <2>5. CASE ParkWriter(u)
      <3>1. At("rWait")' = At("rWait") /\ writers' = writers
        BY <1>1, <2>5 DEF ParkWriter, Goto, At
      <3>2. writerWaiters' = writerWaiters \/ writerWaiters' > 0
        BY <1>1, <2>5 DEF ParkWriter, Counted
      <3> QED BY <3>1, <3>2 DEF Stranded, ReadBlocked
    <2>6. CASE WriteBusy(u)
      BY <1>1, <2>6 DEF WriteBusy, Goto
    <2>7. CASE ReleaseWrite(u)
      <3> DEFINE left == NotifyAllReaders([pc EXCEPT ![u] = "idle"])
      <3>1. left \in [Threads -> States] /\ \A t \in Threads : left[t] # "rWait"
        BY <1>1 DEF States, NotifyAllReaders
      <3>2. \/ pc' = left
            \/ \E w \in Threads : left[w] = "wWait" /\ pc' = [left EXCEPT ![w] = "wTest"]
        BY <2>7, <3>1, NotifyMoves DEF ReleaseWrite
      <3> HIDE DEF left
      <3>3. At("rWait")' = {}
        BY <3>1, <3>2 DEF At
      <3> QED BY <3>3 DEF Stranded
    <2> QED BY <1>1, <2>1, <2>2, <2>3, <2>4, <2>5, <2>6, <2>7 DEF Step, Progress
  <1>2. Inv /\ [Next]_vars => [A]_vars
    BY <1>1 DEF Next
  <1> QED BY InvAlways, <1>2, PTL DEF Spec, OnlyTimeoutsStrand
=============================================================================
