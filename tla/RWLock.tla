------------------------------- MODULE RWLock -------------------------------
(***************************************************************************)
(* The connection-level readers/writer lock of tinydb/lock.py: one mutex,  *)
(* two condition variables, and the counters _readers, _writers and        *)
(* _writer_waiters.  Every critical section of the mutex is one action: a  *)
(* thread holds the mutex from the moment it enters `with self._lock` (or  *)
(* returns from a wait) until it leaves the block or starts to wait.       *)
(*                                                                         *)
(* Time is abstracted to one bit per call, `late`: whether the deadline    *)
(* computed when the call started has passed.  Timed says which threads'   *)
(* calls are given a deadline that can pass at all: a caller may pass a    *)
(* timeout longer than any wait.                                           *)
(***************************************************************************)
EXTENDS Integers, FiniteSets

CONSTANTS Threads,   \* the threads that use one connection
          Timed      \* <<t, kind>>: the deadline of t's calls of a kind may pass

ASSUME ThreadsAssumption == IsFiniteSet(Threads)
ASSUME TimedAssumption == Timed \subseteq Threads \X {"read", "write"}

VARIABLES readers,        \* _readers
          writers,        \* _writers
          writerWaiters,  \* _writer_waiters
          pc,             \* where each thread is
          late            \* late[t]: the deadline of t's call has passed

vars == <<readers, writers, writerWaiters, pc, late>>

(***************************************************************************)
(* "rTest"/"wTest": runnable inside acquire_read/acquire_write, about to   *)
(* take the mutex and evaluate the loop condition; "wEnter" is the writer  *)
(* before it has counted itself in _writer_waiters; "rWait"/"wWait": in    *)
(* the wait set of _readers_ok / _writers_ok.                              *)
(***************************************************************************)
States == {"idle", "rTest", "rWait", "reading",
           "wEnter", "wTest", "wWait", "writing"}

At(s) == {t \in Threads : pc[t] = s}

Init ==
    /\ readers = 0
    /\ writers = 0
    /\ writerWaiters = 0
    /\ pc = [t \in Threads |-> "idle"]
    /\ late = [t \in Threads |-> FALSE]

Goto(t, s) == pc' = [pc EXCEPT ![t] = s]

-----------------------------------------------------------------------------
(* acquire_read: the deadline is fixed before the mutex is taken.          *)

CallRead(t) ==
    /\ pc[t] = "idle"
    /\ Goto(t, "rTest")
    /\ late' = [late EXCEPT ![t] = FALSE]
    /\ UNCHANGED <<readers, writers, writerWaiters>>

\* The loop condition of acquire_read: a writer holds or waits for the lock.
ReadBlocked == writers > 0 \/ writerWaiters > 0

AcquireRead(t) ==
    /\ pc[t] = "rTest"
    /\ ~ReadBlocked
    /\ readers' = readers + 1
    /\ Goto(t, "reading")
    /\ UNCHANGED <<writers, writerWaiters, late>>

\* Mutant of ParkReader: the deadline is not looked at.
ParkReaderAnyway(t) ==
    /\ pc[t] = "rTest"
    /\ ReadBlocked
    /\ Goto(t, "rWait")
    /\ UNCHANGED <<readers, writers, writerWaiters, late>>

ParkReader(t) ==
    /\ pc[t] = "rTest"
    /\ ReadBlocked
    /\ ~late[t]
    /\ Goto(t, "rWait")
    /\ UNCHANGED <<readers, writers, writerWaiters, late>>

ReadBusy(t) ==
    /\ pc[t] = "rTest"
    /\ ReadBlocked
    /\ late[t]
    /\ Goto(t, "idle")
    /\ UNCHANGED <<readers, writers, writerWaiters, late>>

-----------------------------------------------------------------------------
(* Condition.notify moves one waiter, if there is one, back to its loop    *)
(* test; which one is not specified.                                       *)

NotifyOneWriter(from) ==
    LET parked == {w \in Threads : from[w] = "wWait"} IN
      IF parked = {} THEN pc' = from
      ELSE \E w \in parked : pc' = [from EXCEPT ![w] = "wTest"]

NotifyAllReaders(from) ==
    [t \in Threads |-> IF from[t] = "rWait" THEN "rTest" ELSE from[t]]

\* Mutant of ReleaseRead: the last reader leaves without notifying.
ReleaseReadSilently(t) ==
    /\ pc[t] = "reading"
    /\ readers' = readers - 1
    /\ Goto(t, "idle")
    /\ UNCHANGED <<writers, writerWaiters, late>>

ReleaseRead(t) ==
    /\ pc[t] = "reading"
    /\ readers' = readers - 1
    /\ LET left == [pc EXCEPT ![t] = "idle"] IN
         IF readers' = 0 THEN NotifyOneWriter(left) ELSE pc' = left
    /\ UNCHANGED <<writers, writerWaiters, late>>

-----------------------------------------------------------------------------
(* acquire_write.                                                          *)

CallWrite(t) ==
    /\ pc[t] = "idle"
    /\ Goto(t, "wEnter")
    /\ late' = [late EXCEPT ![t] = FALSE]
    /\ UNCHANGED <<readers, writers, writerWaiters>>

\* Mutant of WriteBlocked: readers are not considered.
WriteBlockedByWriter == writers > 0

\* The loop condition of acquire_write.
WriteBlocked == readers > 0 \/ writers > 0

\* _writer_waiters as the loop sees it: a first test counts itself first.
Counted(t) == IF pc[t] = "wEnter" THEN writerWaiters + 1 ELSE writerWaiters

AcquireWrite(t) ==
    /\ pc[t] \in {"wEnter", "wTest"}
    /\ ~WriteBlocked
    /\ writers' = writers + 1
    /\ writerWaiters' = Counted(t) - 1
    /\ Goto(t, "writing")
    /\ UNCHANGED <<readers, late>>

ParkWriter(t) ==
    /\ pc[t] \in {"wEnter", "wTest"}
    /\ WriteBlocked
    /\ ~late[t]
    /\ writerWaiters' = Counted(t)
    /\ Goto(t, "wWait")
    /\ UNCHANGED <<readers, writers, late>>

\* The timeout: `finally` gives the place in _writer_waiters back, and
\* nobody is notified.
WriteBusy(t) ==
    /\ pc[t] \in {"wEnter", "wTest"}
    /\ WriteBlocked
    /\ late[t]
    /\ writerWaiters' = Counted(t) - 1
    /\ Goto(t, "idle")
    /\ UNCHANGED <<readers, writers, late>>

\* Mutant of ReleaseWrite: only a writer is notified.
ReleaseWriteToWriters(t) ==
    /\ pc[t] = "writing"
    /\ writers' = writers - 1
    /\ NotifyOneWriter([pc EXCEPT ![t] = "idle"])
    /\ UNCHANGED <<readers, writerWaiters, late>>

\* One writer is notified first, then every reader.
ReleaseWrite(t) ==
    /\ pc[t] = "writing"
    /\ writers' = writers - 1
    /\ NotifyOneWriter(NotifyAllReaders([pc EXCEPT ![t] = "idle"]))
    /\ UNCHANGED <<readers, writerWaiters, late>>

-----------------------------------------------------------------------------
(* The clock passes the deadline of a call; a parked thread's wait returns *)
(* and the loop condition is evaluated once more before the deadline is.   *)

InTimedCall(t) ==
    \/ <<t, "read">> \in Timed  /\ pc[t] \in {"rTest", "rWait"}
    \/ <<t, "write">> \in Timed /\ pc[t] \in {"wEnter", "wTest", "wWait"}

Expire(t) ==
    /\ ~late[t]
    /\ InTimedCall(t)
    /\ late' = [late EXCEPT ![t] = TRUE]
    /\ Goto(t, CASE pc[t] = "rWait" -> "rTest"
                 [] pc[t] = "wWait" -> "wTest"
                 [] OTHER -> pc[t])
    /\ UNCHANGED <<readers, writers, writerWaiters>>

\* The steps a thread inside a call, or holding the lock, takes by itself.
Progress(t) ==
    \/ AcquireRead(t) \/ ParkReader(t) \/ ReadBusy(t) \/ ReleaseRead(t)
    \/ AcquireWrite(t) \/ ParkWriter(t) \/ WriteBusy(t) \/ ReleaseWrite(t)

Step(t) == CallRead(t) \/ CallWrite(t) \/ Progress(t) \/ Expire(t)

Next == \E t \in Threads : Step(t)

Spec == Init /\ [][Next]_vars

\* The OS scheduler runs every runnable thread, critical sections under the
\* lock end (read() and write() release in `finally`), and time passes.
Fairness == \A t \in Threads : WF_vars(Progress(t)) /\ WF_vars(Expire(t))

FairSpec == Spec /\ Fairness

-----------------------------------------------------------------------------
(* Properties                                                              *)

TypeOK ==
    /\ readers \in Nat
    /\ writers \in Nat
    /\ writerWaiters \in Nat
    /\ pc \in [Threads -> States]
    /\ late \in [Threads -> BOOLEAN]

\* The three counters count what they say: no path of acquire, release,
\* timeout or notification loses or doubles an increment.
CountersExact ==
    /\ readers = Cardinality(At("reading"))
    /\ writers = Cardinality(At("writing"))
    /\ writerWaiters = Cardinality(At("wTest") \cup At("wWait"))

\* Many readers or one writer, never both: the lock's promise, over the
\* threads that are between acquire and release.
MutualExclusion ==
    \A t, u \in Threads :
        pc[t] = "writing" /\ t # u => pc[u] \notin {"reading", "writing"}

\* No wakeup of a writer is lost: when the lock is free and a writer sleeps
\* on _writers_ok, some counted writer is awake and will test the condition.
\* (release_read and release_write notify one writer each; a notified writer
\* that finds the lock taken goes back to sleep.)
NoStrandedWriter ==
    ~WriteBlocked /\ At("wWait") # {} => At("wTest") # {}

\* A reader asleep on _readers_ok although nobody holds or waits for the lock.
Stranded == At("rWait") # {} /\ ~ReadBlocked

NoStrandedReader == ~Stranded

\* Readers do not block each other, and every release wakes the readers it
\* should: the one step that leaves a reader asleep beside a free lock is a
\* writer giving up at its deadline, which notifies nobody.
OnlyTimeoutsStrand ==
    [][~Stranded /\ Stranded' =>
          \E w \in Threads : late[w] /\ pc[w] \in {"wEnter", "wTest"} /\ pc'[w] = "idle"]_vars

\* Writers first: no thread becomes a reader while a writer is inside
\* acquire_write and counted, whether it sleeps or has been notified.
WritersFirst ==
    [][\A t \in Threads : pc[t] # "reading" /\ pc'[t] = "reading"
                            => At("wTest") \cup At("wWait") = {}]_vars

\* Every call with a deadline returns, a stranded reader's included: it gets
\* the lock or raises DatabaseBusy.
CallsReturn ==
    \A t \in Threads :
        InTimedCall(t) ~> pc[t] \in {"idle", "reading", "writing"}

\* A writer without a deadline, asleep while readers hold the lock, leads to a
\* writer in the lock: neither later readers nor the timeouts of the other
\* writers swallow the wakeup.
WriterGetsIn ==
    \A t \in Threads :
        pc[t] = "wWait" /\ <<t, "write">> \notin Timed /\ writers = 0 ~> writers > 0
=============================================================================
