------------------------------- MODULE DbPool -------------------------------
(***************************************************************************)
(* The Databricks connection pool of infrastructure/db.py: request threads *)
(* acquire a connection, use it for one statement and give it back, while  *)
(* idle connections age out and the client may be closed under them.       *)
(*                                                                         *)
(* One action is one critical section of _pool_condition, or one piece of  *)
(* code between two of them: connecting and closing happen OUTSIDE the     *)
(* lock.  Clocks are abstracted to what they decide: an acquire's deadline *)
(* passes at any moment (overdue), and any prefix of the idle list, which  *)
(* is in release order, may be past its TTL when somebody looks.           *)
(*                                                                         *)
(* Operators whose name starts with Bad are plausible bugs, never used by  *)
(* the specification: each run's properties are shown to catch them.       *)
(***************************************************************************)
EXTENDS Integers, Sequences, FiniteSets

CONSTANTS Threads,       \* request threads and whoever calls close()
          Conns,         \* identities for driver connections
          NoConn,        \* "no connection"
          MaxSize,       \* TVENDOR_DB_POOL_MAX_SIZE
          ReapsIdle      \* TVENDOR_DB_POOL_IDLE_TTL_SEC > 0

ASSUME PoolAssumption ==
    /\ MaxSize \in Nat \ {0}
    /\ NoConn \notin Conns
    /\ ReapsIdle \in BOOLEAN
    /\ IsFiniteSet(Threads)

VARIABLES
    configOk,   \* the Databricks settings are complete (fixed for the client's life)
    closed,     \* _pool_closed
    available,  \* _pool_available, oldest release first
    total,      \* _pool_total_connections
    pc,         \* where each thread is
    overdue,    \* the deadline of the thread's acquire has passed
    held,       \* the connection a thread uses
    closing,    \* connections a thread has taken out of the pool and must close
    open,       \* connections open at the driver
    lost,       \* ghost: slots counted in total that no thread will ever free
    outcome     \* ghost: how the thread's last acquire ended

vars == <<configOk, closed, available, total, pc, overdue, held, closing,
          open, lost, outcome>>

Places == {"out", "acquire", "wait", "connect", "use", "close"}
Outcomes == {"none", "connection", "closed", "timeout", "missing", "unreachable"}

Monus(a, b) == IF a >= b THEN a - b ELSE 0
Elements(s) == {s[i] : i \in 1 .. Len(s)}

Init ==
    /\ configOk \in BOOLEAN
    /\ closed = FALSE
    /\ available = << >>
    /\ total = 0
    /\ pc = [t \in Threads |-> "out"]
    /\ overdue = [t \in Threads |-> FALSE]
    /\ held = [t \in Threads |-> NoConn]
    /\ closing = [t \in Threads |-> {}]
    /\ open = {}
    /\ lost = 0
    /\ outcome = [t \in Threads |-> "none"]

-----------------------------------------------------------------------------
(* threading.Condition: notify() moves one waiter, if there is one, out of *)
(* the wait set; it still has to get the lock.  pcAfter is pc with the     *)
(* notifier's own move already made.                                       *)

Waiting == {t \in Threads : pc[t] = "wait"}

BadNotifyOne(pcAfter) == pc' = pcAfter      \* the notify() is forgotten
NotifyOne(pcAfter) ==
    IF Waiting = {}
    THEN pc' = pcAfter
    ELSE \E w \in Waiting : pc' = [pcAfter EXCEPT ![w] = "acquire"]

NotifyAll(pcAfter) ==
    pc' = [t \in Threads |-> IF t \in Waiting THEN "acquire" ELSE pcAfter[t]]

Goto(t, place) == [pc EXCEPT ![t] = place]

Ends(t, how) ==
    /\ pc' = Goto(t, "out")
    /\ outcome' = [outcome EXCEPT ![t] = how]

-----------------------------------------------------------------------------
(* _acquire_pooled_connection                                              *)

\* A statement needs a connection; the deadline starts to run.
Enter(t) ==
    /\ pc[t] = "out"
    /\ pc' = Goto(t, "acquire")
    /\ overdue' = [overdue EXCEPT ![t] = FALSE]
    /\ outcome' = [outcome EXCEPT ![t] = "none"]
    /\ UNCHANGED <<configOk, closed, available, total, held, closing, open, lost>>

DeadlinePasses(t) ==
    /\ pc[t] \in {"acquire", "wait"}
    /\ ~overdue[t]
    /\ overdue' = [overdue EXCEPT ![t] = TRUE]
    /\ UNCHANGED <<configOk, closed, available, total, pc, held, closing, open,
                   lost, outcome>>

AcquireClosed(t) ==
    /\ pc[t] = "acquire"
    /\ closed
    /\ Ends(t, "closed")
    /\ UNCHANGED <<configOk, closed, available, total, overdue, held, closing,
                   open, lost>>

\* _collect_expired_pool_connections_locked: how long a prefix of the idle
\* list may be past its TTL, what stays, and what total becomes.
ExpiredPrefix == IF ReapsIdle THEN 0 .. Len(available) ELSE {0}
Kept(k) == SubSeq(available, k + 1, Len(available))
Expired(k) == {available[i] : i \in 1 .. k}

BadLeft(k) == Kept(k)                       \* looks at the newest without taking it out
Left(k) == SubSeq(Kept(k), 1, Len(Kept(k)) - 1)

BadTotalAfter(k) == total                   \* the expired ones stay counted
TotalAfter(k) == Monus(total, k)

BadSlotFree(k) == TotalAfter(k) <= MaxSize  \* off by one
SlotFree(k) == TotalAfter(k) < MaxSize

BadMaySleep(t) == TRUE                      \* the deadline is not looked at
MaySleep(t) == ~overdue[t]

\* Reuse the most recently released connection.
AcquireIdle(t, k) ==
    /\ pc[t] = "acquire" /\ ~closed
    /\ Kept(k) # << >>
    /\ available' = Left(k)
    /\ total' = TotalAfter(k)
    /\ held' = [held EXCEPT ![t] = Kept(k)[Len(Kept(k))]]
    /\ closing' = [closing EXCEPT ![t] = Expired(k)]
    /\ pc' = Goto(t, "use")
    /\ outcome' = [outcome EXCEPT ![t] = "connection"]
    /\ UNCHANGED <<configOk, closed, overdue, open, lost>>

\* Nothing idle: reserve a slot and connect after the lock is released.
AcquireCreate(t, k) ==
    /\ pc[t] = "acquire" /\ ~closed
    /\ Kept(k) = << >> /\ SlotFree(k)
    /\ available' = << >>
    /\ total' = TotalAfter(k) + 1
    /\ closing' = [closing EXCEPT ![t] = Expired(k)]
    /\ pc' = Goto(t, "connect")
    /\ UNCHANGED <<configOk, closed, overdue, held, open, lost, outcome>>

Exhausted(t, k) ==
    /\ pc[t] = "acquire" /\ ~closed
    /\ Kept(k) = << >> /\ ~SlotFree(k)
    /\ available' = << >>
    /\ total' = TotalAfter(k)
    /\ closing' = [closing EXCEPT ![t] = Expired(k)]

AcquireTimeout(t, k) ==
    /\ Exhausted(t, k)
    /\ ~MaySleep(t)
    /\ Ends(t, "timeout")
    /\ UNCHANGED <<configOk, closed, overdue, held, open, lost>>

AcquireWait(t, k) ==
    /\ Exhausted(t, k)
    /\ MaySleep(t)
    /\ pc' = Goto(t, "wait")
    /\ UNCHANGED <<configOk, closed, overdue, held, open, lost, outcome>>

\* wait(timeout=remaining) returns unnotified; the loop looks at the pool
\* again before it looks at the deadline.
WaitTimesOut(t) ==
    /\ pc[t] = "wait" /\ overdue[t]
    /\ pc' = Goto(t, "acquire")
    /\ UNCHANGED <<configOk, closed, available, total, overdue, held, closing,
                   open, lost, outcome>>

-----------------------------------------------------------------------------
(* Outside the lock                                                        *)

\* The expired connections, the broken one or, in close(), the idle ones are
\* closed by the thread that took them out, before it does anything else.
CloseTaken(t) ==
    /\ closing[t] # {}
    /\ open' = open \ closing[t]
    /\ closing' = [closing EXCEPT ![t] = {}]
    /\ pc' = IF pc[t] = "close" THEN Goto(t, "out") ELSE pc
    /\ UNCHANGED <<configOk, closed, available, total, overdue, held, lost, outcome>>

Connecting(t) == pc[t] = "connect" /\ closing[t] = {}

\* _validate() raises RuntimeError before the try block: the reserved slot
\* stays counted and nobody is notified.
ValidateFails(t) ==
    /\ Connecting(t) /\ ~configOk
    /\ lost' = lost + 1
    /\ Ends(t, "missing")
    /\ UNCHANGED <<configOk, closed, available, total, overdue, held, closing, open>>

Connect(t, c) ==
    /\ Connecting(t) /\ configOk
    /\ c \notin open
    /\ open' = open \cup {c}
    /\ held' = [held EXCEPT ![t] = c]
    /\ pc' = Goto(t, "use")
    /\ outcome' = [outcome EXCEPT ![t] = "connection"]
    /\ UNCHANGED <<configOk, closed, available, total, overdue, closing, lost>>

BadOneLess == total                         \* the slot is not given back
OneLess == Monus(total, 1)

ConnectFails(t) ==
    /\ Connecting(t) /\ configOk
    /\ total' = OneLess
    /\ NotifyOne(Goto(t, "out"))
    /\ outcome' = [outcome EXCEPT ![t] = "unreachable"]
    /\ UNCHANGED <<configOk, closed, available, overdue, held, closing, open, lost>>

-----------------------------------------------------------------------------
(* _release_pooled_connection; close()                                     *)

Using(t) == pc[t] = "use" /\ closing[t] = {}

\* The statement ended with an exception that reads like a connection error,
\* or the pool was closed meanwhile: the connection is closed, not pooled.
Discard(t) ==
    /\ Using(t)
    /\ total' = OneLess
    /\ NotifyOne(Goto(t, "close"))
    /\ closing' = [closing EXCEPT ![t] = {held[t]}]
    /\ held' = [held EXCEPT ![t] = NoConn]
    /\ UNCHANGED <<configOk, closed, available, overdue, open, lost, outcome>>

BadPoolable == TRUE                         \* pools a connection of a closed client
Poolable == ~closed

Return(t) ==
    /\ Using(t) /\ Poolable
    /\ available' = Append(available, held[t])
    /\ NotifyOne(Goto(t, "out"))
    /\ held' = [held EXCEPT ![t] = NoConn]
    /\ UNCHANGED <<configOk, closed, total, overdue, closing, open, lost, outcome>>

Close(t) ==
    /\ pc[t] = "out"
    /\ closed' = TRUE
    /\ closing' = [closing EXCEPT ![t] = Elements(available)]
    /\ total' = Monus(total, Len(available))
    /\ available' = << >>
    /\ NotifyAll(Goto(t, IF available = << >> THEN "out" ELSE "close"))
    /\ UNCHANGED <<configOk, overdue, held, open, lost, outcome>>

-----------------------------------------------------------------------------
Acquire(t) ==
    \/ AcquireClosed(t)
    \/ \E k \in ExpiredPrefix : \/ AcquireIdle(t, k)
                                \/ AcquireCreate(t, k)
                                \/ AcquireTimeout(t, k)
                                \/ AcquireWait(t, k)

\* What a thread that is inside the pool's code, or is running a statement,
\* does next.
Progress(t) ==
    \/ Acquire(t)
    \/ WaitTimesOut(t)
    \/ CloseTaken(t)
    \/ ValidateFails(t)
    \/ \E c \in Conns : Connect(t, c)
    \/ ConnectFails(t)
    \/ Discard(t)
    \/ Return(t)

Next == \E t \in Threads : Enter(t) \/ DeadlinePasses(t) \/ Progress(t) \/ Close(t)

\* Threads are scheduled, driver calls return (with a result or an error) and
\* the clock runs.  Nothing obliges anybody to ask for a connection or to close.
Fairness == \A t \in Threads : WF_vars(Progress(t)) /\ WF_vars(DeadlinePasses(t))

Spec == Init /\ [][Next]_vars
FairSpec == Spec /\ Fairness

-----------------------------------------------------------------------------
(* Properties                                                              *)

\* Types; total stays between 0 and TVENDOR_DB_POOL_MAX_SIZE whatever order
\* threads reserve, expire and free slots in.
TypeOK ==
    /\ configOk \in BOOLEAN
    /\ closed \in BOOLEAN
    /\ available \in Seq(Conns)
    /\ total \in 0 .. MaxSize
    /\ pc \in [Threads -> Places]
    /\ overdue \in [Threads -> BOOLEAN]
    /\ held \in [Threads -> Conns \cup {NoConn}]
    /\ closing \in [Threads -> SUBSET Conns]
    /\ open \in SUBSET Conns
    /\ lost \in Nat
    /\ outcome \in [Threads -> Outcomes]

\* The threads that own a slot: they connect or they use a connection.
Owners == {t \in Threads : pc[t] \in {"connect", "use"}}

\* Every counted slot is an idle connection, a thread that owns it, or one
\* lost to _validate(); none is counted twice and none is forgotten, so the
\* max(0, ...) of the code never hides a mistake.
Accounting == total = Len(available) + Cardinality(Owners) + lost

IdleOnce == \A i, j \in 1 .. Len(available) : available[i] = available[j] => i = j
HeldWhileUsed == \A t \in Threads : (pc[t] = "use") <=> (held[t] # NoConn)
HeldOnce == \A t, u \in Threads : held[t] # NoConn /\ held[t] = held[u] => t = u
ClosedOnce == \A t, u \in Threads : t # u => closing[t] \cap closing[u] = {}
Apart ==
    \A t \in Threads : /\ held[t] \notin Elements(available)
                       /\ closing[t] \cap Elements(available) = {}
                       /\ \A u \in Threads : held[t] \notin closing[u]
KnownOpen ==
    /\ Elements(available) \subseteq open
    /\ \A t \in Threads : held[t] # NoConn => held[t] \in open
    /\ \A t \in Threads : closing[t] \subseteq open

\* A connection is in one place only: idle once, used by one thread, or about
\* to be closed by one thread; and in each of these places it is still open.
OneHolder ==
    IdleOnce /\ HeldWhileUsed /\ HeldOnce /\ ClosedOnce /\ Apart /\ KnownOpen

\* While a thread sleeps in wait(), there are at least as many threads on
\* their way into the critical section as there are connections or slots for
\* the taking: no notify is lost to a thread that barges in or times out.
NoLostWakeup ==
    (Waiting # {} /\ ~closed) =>
        Len(available) + (MaxSize - total) <= Cardinality({t \in Threads : pc[t] = "acquire"})

\* A thread that collected expired connections never goes to sleep, or fails
\* with a timeout, while it still has to close them.
NoSleepWithExpired ==
    \A t \in Threads : pc[t] \in {"wait", "acquire", "out"} => closing[t] = {}

\* Once the client is closed nothing becomes idle again.
ClosedIsEmpty == closed => available = << >>

\* The pool keeps the promise of BoundedPool: behind counter, lock and list
\* there are never more than MaxSize connections idle, used or being opened,
\* none is lent twice, and a closed client lends none.
Promise == INSTANCE BoundedPool WITH
    idle <- Elements(available), user <- held,
    connecting <- {t \in Threads : pc[t] = "connect"}
KeepsPromise == Promise!Spec

\* A thread that asks for a connection gets one or an error: it never waits
\* for ever.
AcquireReturns ==
    \A t \in Threads : pc[t] = "acquire" ~> pc[t] \in {"out", "use"}

\* After close() every driver connection is closed in the end, the ones being
\* opened or used at that moment too.
CloseDrains == closed ~> open = {}

\* With incomplete settings a statement that finds nobody else at work in the
\* pool fails with "Missing Databricks settings", as the documentation says: it
\* does not report that the pool is exhausted.
MissingSettingsReported ==
    [][\A t \in Threads :
          (~configOk /\ pc[t] = "acquire" /\ Owners = {}) => outcome'[t] # "timeout"]_vars

=============================================================================
