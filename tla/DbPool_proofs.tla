---------------------------- MODULE DbPool_proofs ----------------------------
(***************************************************************************)
(* The safety properties of DbPool hold for any number of threads, any set *)
(* of connections and any pool size.  The inductive invariant is their     *)
(* conjunction: no property needs a strengthening the others do not give.  *)
(***************************************************************************)
EXTENDS DbPool, FiniteSetTheorems, SequenceTheorems, TLAPS

IInv ==
    /\ TypeOK
    /\ NoSleepWithExpired
    /\ Accounting
    /\ OneHolder
    /\ ClosedIsEmpty
    /\ NoLostWakeup

-----------------------------------------------------------------------------
(* The idle list                                                           *)

\* What _collect_expired_pool_connections_locked and pop() leave: an expired
\* prefix, the newest connection, and the ones in between.
LEMMA Split ==
    ASSUME available \in Seq(Conns), NEW k \in ExpiredPrefix
    PROVE  /\ k \in 0 .. Len(available)
           /\ Kept(k) \in Seq(Conns)
           /\ Len(Kept(k)) = Len(available) - k
           /\ \A i \in 1 .. Len(Kept(k)) : Kept(k)[i] = available[k + i]
           /\ Kept(k) # << >> => Len(available) - k \in Nat \ {0}
           /\ Kept(k) # << >> =>
                 /\ Kept(k)[Len(Kept(k))] = available[Len(available)]
                 /\ Left(k) \in Seq(Conns)
                 /\ Len(Left(k)) = Len(available) - k - 1
                 /\ \A i \in 1 .. Len(Left(k)) : Left(k)[i] = available[k + i]
<1>0. Len(available) \in Nat /\ \A i \in 1 .. Len(available) : available[i] \in Conns
  BY LenProperties, ElementOfSeq
<1>1. k \in 0 .. Len(available)
  BY <1>0 DEF ExpiredPrefix
<1>2. /\ Kept(k) \in Seq(Conns)
      /\ Len(Kept(k)) = Len(available) - k
      /\ \A i \in 1 .. Len(Kept(k)) : Kept(k)[i] = available[k + i]
  <2> DEFINE m == k + 1
             n == Len(available)
  <2>1. m \in Int /\ n \in Int /\ \A i \in m .. n : available[i] \in Conns
    BY <1>0, <1>1
  <2> HIDE DEF m, n
  <2>2. /\ SubSeq(available, m, n) \in Seq(Conns)
        /\ Len(SubSeq(available, m, n)) = IF m <= n THEN n - m + 1 ELSE 0
        /\ \A i \in 1 .. n - m + 1 : SubSeq(available, m, n)[i] = available[m + i - 1]
    BY <2>1, SubSeqProperties
  <2> QED BY <2>2, <1>0, <1>1 DEF Kept, m, n
<1>3. Kept(k) # << >> => Len(available) - k \in Nat \ {0}
  BY <1>2, <1>1, <1>0, EmptySeq
<1>4. ASSUME Kept(k) # << >>
      PROVE  /\ Kept(k)[Len(Kept(k))] = available[Len(available)]
             /\ Left(k) \in Seq(Conns)
             /\ Len(Left(k)) = Len(available) - k - 1
             /\ \A i \in 1 .. Len(Left(k)) : Left(k)[i] = available[k + i]
  <2> DEFINE s == Kept(k)
             n == Len(s) - 1
  <2>1. n \in Int /\ n >= 0 /\ 1 \in Int /\ \A i \in 1 .. n : s[i] \in Conns
    BY <1>0, <1>1, <1>2, <1>3, <1>4
  <2>0. n + 1 = Len(Kept(k)) /\ Left(k) = SubSeq(s, 1, n)
    BY <2>1, <1>2, <1>1, <1>0 DEF Left
  <2> HIDE DEF s, n
  <2>2. /\ SubSeq(s, 1, n) \in Seq(Conns)
        /\ Len(SubSeq(s, 1, n)) = IF 1 <= n THEN n - 1 + 1 ELSE 0
        /\ \A i \in 1 .. n - 1 + 1 : SubSeq(s, 1, n)[i] = s[1 + i - 1]
    BY <2>1, SubSeqProperties
  <2>3. Len(SubSeq(s, 1, n)) = n /\ \A i \in 1 .. n : SubSeq(s, 1, n)[i] = s[i]
    BY <2>1, <2>2
  <2>4. n \in Nat /\ n = Len(available) - k - 1 /\ Len(Kept(k)) = k + n + 1 - k
    BY <2>0, <2>1, <1>2, <1>1, <1>0
  <2>5. Left(k) \in Seq(Conns) /\ Len(Left(k)) = n
    BY <2>0, <2>2, <2>3
  <2>6. \A i \in 1 .. n : Left(k)[i] = available[k + i]
    BY <2>0, <2>3, <2>4, <1>2 DEF s
  <2>7. Kept(k)[Len(Kept(k))] = available[Len(available)]
    BY <2>4, <1>2, <1>1, <1>0
  <2> QED BY <2>4, <2>5, <2>6, <2>7
<1> QED BY <1>1, <1>2, <1>3, <1>4

LEMMA ElementsType ==
    ASSUME available \in Seq(Conns)
    PROVE  Elements(available) \subseteq Conns
BY ElementOfSeq DEF Elements

\* Taking one thread into, or out of, a set of threads.
LEMMA OneMore ==
    ASSUME NEW A \in SUBSET Threads, NEW t, t \notin A
    PROVE  Cardinality(A) \in Nat /\ Cardinality(A \cup {t}) = Cardinality(A) + 1
<1>1. IsFiniteSet(A)
  BY FS_Subset, PoolAssumption DEF PoolAssumption
<1> QED BY <1>1, FS_CardinalityType, FS_AddElement

LEMMA OneFewer ==
    ASSUME NEW A \in SUBSET Threads, NEW t \in A
    PROVE  Cardinality(A) \in Nat \ {0} /\ Cardinality(A \ {t}) = Cardinality(A) - 1
<1>1. IsFiniteSet(A)
  BY FS_Subset, PoolAssumption DEF PoolAssumption
<1>2. Cardinality(A) \in Nat /\ Cardinality(A \ {t}) = Cardinality(A) - 1
  BY <1>1, FS_CardinalityType, FS_RemoveElement
<1>3. Cardinality(A \ {t}) \in Nat
  BY <1>1, FS_RemoveElement, FS_CardinalityType
<1> QED BY <1>2, <1>3

-----------------------------------------------------------------------------
(* Types                                                                 *)

LEMMA TypeStep ==
    IInv /\ [Next]_vars => TypeOK'
<1> SUFFICES ASSUME IInv, [Next]_vars PROVE TypeOK'
  OBVIOUS
<1> USE PoolAssumption DEF IInv, TypeOK, PoolAssumption, Places, Outcomes, Goto, Ends, Monus
<1>1. CASE UNCHANGED vars
  BY <1>1 DEF vars
<1>2. ASSUME NEW t \in Threads, Enter(t) PROVE TypeOK'
  BY <1>2 DEF Enter
<1>3. ASSUME NEW t \in Threads, DeadlinePasses(t) PROVE TypeOK'
  BY <1>3 DEF DeadlinePasses
<1>4. ASSUME NEW t \in Threads, AcquireClosed(t) PROVE TypeOK'
  BY <1>4 DEF AcquireClosed
<1>5. ASSUME NEW t \in Threads, NEW k \in ExpiredPrefix, AcquireIdle(t, k) PROVE TypeOK'
  BY SMTT(30), <1>5, Split DEF AcquireIdle, TotalAfter, Expired
<1>6. ASSUME NEW t \in Threads, NEW k \in ExpiredPrefix, AcquireCreate(t, k) PROVE TypeOK'
  BY <1>6, Split DEF AcquireCreate, TotalAfter, SlotFree, Expired
<1>7. ASSUME NEW t \in Threads, NEW k \in ExpiredPrefix, AcquireTimeout(t, k) PROVE TypeOK'
  BY <1>7, Split DEF AcquireTimeout, Exhausted, TotalAfter, Expired
<1>8. ASSUME NEW t \in Threads, NEW k \in ExpiredPrefix, AcquireWait(t, k) PROVE TypeOK'
  BY <1>8, Split DEF AcquireWait, Exhausted, TotalAfter, Expired
<1>9. ASSUME NEW t \in Threads, WaitTimesOut(t) PROVE TypeOK'
  BY <1>9 DEF WaitTimesOut
<1>10. ASSUME NEW t \in Threads, CloseTaken(t) PROVE TypeOK'
  BY <1>10 DEF CloseTaken
<1>11. ASSUME NEW t \in Threads, ValidateFails(t) PROVE TypeOK'
  BY <1>11 DEF ValidateFails, Connecting
<1>12. ASSUME NEW t \in Threads, NEW c \in Conns, Connect(t, c) PROVE TypeOK'
  BY <1>12 DEF Connect, Connecting
<1>13. ASSUME NEW t \in Threads, ConnectFails(t) PROVE TypeOK'
  BY <1>13 DEF ConnectFails, Connecting, NotifyOne, OneLess, Waiting
<1>14. ASSUME NEW t \in Threads, Discard(t) PROVE TypeOK'
  BY <1>14 DEF Discard, Using, NotifyOne, OneLess, Waiting, OneHolder, HeldWhileUsed
<1>15. ASSUME NEW t \in Threads, Return(t) PROVE TypeOK'
  <2>1. held[t] \in Conns
    BY <1>15 DEF Return, Using, OneHolder, HeldWhileUsed
  <2>2. available' \in Seq(Conns)
    BY <1>15, <2>1, AppendProperties DEF Return
  <2> QED BY <1>15, <2>2 DEF Return, NotifyOne, Waiting
<1>16. ASSUME NEW t \in Threads, Close(t) PROVE TypeOK'
  <2>1. closing' \in [Threads -> SUBSET Conns]
    BY <1>16, ElementsType DEF Close
  <2>2. total' \in 0 .. MaxSize /\ available' \in Seq(Conns)
    BY <1>16, LenProperties, EmptySeq DEF Close
  <2>3. pc' \in [Threads -> Places]
    BY <1>16 DEF Close, NotifyAll, Waiting
  <2> QED BY <1>16, <2>1, <2>2, <2>3 DEF Close
<1> QED BY <1>1, <1>2, <1>3, <1>4, <1>5, <1>6, <1>7, <1>8, <1>9, <1>10, <1>11, <1>12, <1>13, <1>14, <1>15, <1>16 DEF Next, Progress, Acquire


\* Who finds the pool exhausted found nothing expired: one expired connection
\* would have freed a slot.
LEMMA NothingExpired ==
    ASSUME IInv, NEW t \in Threads, NEW k \in ExpiredPrefix, Exhausted(t, k)
    PROVE  k = 0 /\ available = << >> /\ total = MaxSize /\ Expired(k) = {}
<1>1. k \in 0 .. Len(available) /\ Len(Kept(k)) = Len(available) - k /\ Len(available) \in Nat
  BY Split, LenProperties DEF IInv, TypeOK
<1>2. Kept(k) = << >> /\ TotalAfter(k) >= MaxSize /\ total \in 0 .. MaxSize /\ MaxSize \in Nat \ {0}
  <2>1. TotalAfter(k) \in Int
    BY <1>1 DEF TotalAfter, Monus, IInv, TypeOK
  <2> QED BY <2>1, PoolAssumption DEF Exhausted, SlotFree, IInv, TypeOK, PoolAssumption
<1>3. k = 0 /\ total = MaxSize
  BY <1>1, <1>2 DEF TotalAfter, Monus
<1>4. Len(available) = 0
  BY <1>1, <1>2, <1>3, EmptySeq
<1>5. available = << >>
  BY <1>4, EmptySeq DEF IInv, TypeOK
<1> QED BY <1>3, <1>5 DEF Expired

-----------------------------------------------------------------------------
(* Nobody sleeps on expired connections                                    *)

LEMMA NoSleepStep ==
    IInv /\ [Next]_vars => NoSleepWithExpired'
<1> SUFFICES ASSUME IInv, [Next]_vars PROVE NoSleepWithExpired'
  OBVIOUS
<1> USE PoolAssumption DEF IInv, TypeOK, NoSleepWithExpired, PoolAssumption, Goto, Ends, Monus
<1>1. CASE UNCHANGED vars
  BY <1>1 DEF vars
<1>2. ASSUME NEW t \in Threads, Enter(t) PROVE NoSleepWithExpired'
  BY <1>2 DEF Enter
<1>3. ASSUME NEW t \in Threads, DeadlinePasses(t) PROVE NoSleepWithExpired'
  BY <1>3 DEF DeadlinePasses
<1>4. ASSUME NEW t \in Threads, AcquireClosed(t) PROVE NoSleepWithExpired'
  BY <1>4 DEF AcquireClosed
<1>5. ASSUME NEW t \in Threads, NEW k \in ExpiredPrefix, AcquireIdle(t, k) PROVE NoSleepWithExpired'
  BY <1>5, Split DEF AcquireIdle
<1>6. ASSUME NEW t \in Threads, NEW k \in ExpiredPrefix, AcquireCreate(t, k) PROVE NoSleepWithExpired'
  BY <1>6, Split DEF AcquireCreate
<1>7. ASSUME NEW t \in Threads, NEW k \in ExpiredPrefix, AcquireTimeout(t, k) PROVE NoSleepWithExpired'
  BY <1>7, Split, NothingExpired DEF AcquireTimeout, Exhausted
<1>8. ASSUME NEW t \in Threads, NEW k \in ExpiredPrefix, AcquireWait(t, k) PROVE NoSleepWithExpired'
  BY <1>8, Split, NothingExpired DEF AcquireWait, Exhausted
<1>9. ASSUME NEW t \in Threads, WaitTimesOut(t) PROVE NoSleepWithExpired'
  BY <1>9 DEF WaitTimesOut
<1>10. ASSUME NEW t \in Threads, CloseTaken(t) PROVE NoSleepWithExpired'
  BY <1>10 DEF CloseTaken
<1>11. ASSUME NEW t \in Threads, ValidateFails(t) PROVE NoSleepWithExpired'
  BY <1>11 DEF ValidateFails, Connecting
<1>12. ASSUME NEW t \in Threads, NEW c \in Conns, Connect(t, c) PROVE NoSleepWithExpired'
  BY <1>12 DEF Connect, Connecting
<1>13. ASSUME NEW t \in Threads, ConnectFails(t) PROVE NoSleepWithExpired'
  BY <1>13 DEF ConnectFails, Connecting, NotifyOne, Waiting
<1>14. ASSUME NEW t \in Threads, Discard(t) PROVE NoSleepWithExpired'
  BY <1>14 DEF Discard, Using, NotifyOne, Waiting
<1>15. ASSUME NEW t \in Threads, Return(t) PROVE NoSleepWithExpired'
  BY <1>15 DEF Return, Using, NotifyOne, Waiting
<1>16. ASSUME NEW t \in Threads, Close(t) PROVE NoSleepWithExpired'
  <2>1. available = << >> => Elements(available) = {}
    BY EmptySeq DEF Elements
  <2> QED BY <1>16, <2>1 DEF Close, NotifyAll, Waiting
<1> QED BY <1>1, <1>2, <1>3, <1>4, <1>5, <1>6, <1>7, <1>8, <1>9, <1>10,
           <1>11, <1>12, <1>13, <1>14, <1>15, <1>16 DEF Next, Progress, Acquire

-----------------------------------------------------------------------------
(* Every slot is accounted for                                             *)

LEMMA AccountingStep ==
    IInv /\ [Next]_vars => Accounting'
<1> SUFFICES ASSUME IInv, [Next]_vars PROVE Accounting'
  OBVIOUS
<1> USE PoolAssumption DEF IInv, TypeOK, Accounting, PoolAssumption, Goto, Ends, Monus
<1>0. Owners \in SUBSET Threads /\ Len(available) \in Nat
  BY LenProperties DEF Owners
<1>1. CASE UNCHANGED vars
  BY <1>1 DEF vars, Owners
<1>2. ASSUME NEW t \in Threads, Enter(t) PROVE Accounting'
  BY <1>2 DEF Enter, Owners
<1>3. ASSUME NEW t \in Threads, DeadlinePasses(t) PROVE Accounting'
  BY <1>3 DEF DeadlinePasses, Owners
<1>4. ASSUME NEW t \in Threads, AcquireClosed(t) PROVE Accounting'
  BY <1>4 DEF AcquireClosed, Owners
<1>5. ASSUME NEW t \in Threads, NEW k \in ExpiredPrefix, AcquireIdle(t, k) PROVE Accounting'
  <2>1. t \notin Owners /\ Owners' = Owners \cup {t}
    BY <1>5 DEF AcquireIdle, Owners
  <2>2. Len(Left(k)) = Len(available) - k - 1 /\ k \in 0 .. Len(available)
    BY <1>5, Split DEF AcquireIdle
  <2>8. Cardinality(Owners) \in Nat /\ Cardinality(Owners') = Cardinality(Owners) + 1
    BY <1>0, <2>1, OneMore
  <2> QED BY <1>5, <1>0, <2>2, <2>8 DEF AcquireIdle, TotalAfter
<1>6. ASSUME NEW t \in Threads, NEW k \in ExpiredPrefix, AcquireCreate(t, k) PROVE Accounting'
  <2>1. t \notin Owners /\ Owners' = Owners \cup {t}
    BY <1>6 DEF AcquireCreate, Owners
  <2>2. k = Len(available) /\ Len(<< >>) = 0
    BY <1>6, <1>0, Split, EmptySeq DEF AcquireCreate
  <2>8. Cardinality(Owners) \in Nat /\ Cardinality(Owners') = Cardinality(Owners) + 1
    BY <1>0, <2>1, OneMore
  <2> QED BY <1>6, <1>0, <2>2, <2>8 DEF AcquireCreate, TotalAfter
<1>7. ASSUME NEW t \in Threads, NEW k \in ExpiredPrefix, AcquireTimeout(t, k) PROVE Accounting'
  <2>1. Owners' = Owners
    BY <1>7 DEF AcquireTimeout, Exhausted, Owners
  <2>2. k = 0 /\ available = << >> /\ total' = TotalAfter(k) /\ available' = << >> /\ lost' = lost
    BY <1>7, NothingExpired DEF AcquireTimeout, Exhausted
  <2> QED BY <1>0, <2>1, <2>2 DEF TotalAfter
<1>8. ASSUME NEW t \in Threads, NEW k \in ExpiredPrefix, AcquireWait(t, k) PROVE Accounting'
  <2>1. Owners' = Owners
    BY <1>8 DEF AcquireWait, Exhausted, Owners
  <2>2. k = 0 /\ available = << >> /\ total' = TotalAfter(k) /\ available' = << >> /\ lost' = lost
    BY <1>8, NothingExpired DEF AcquireWait, Exhausted
  <2> QED BY <1>0, <2>1, <2>2 DEF TotalAfter
<1>9. ASSUME NEW t \in Threads, WaitTimesOut(t) PROVE Accounting'
  BY <1>9 DEF WaitTimesOut, Owners
<1>10. ASSUME NEW t \in Threads, CloseTaken(t) PROVE Accounting'
  BY <1>10 DEF CloseTaken, Owners
<1>11. ASSUME NEW t \in Threads, ValidateFails(t) PROVE Accounting'
  <2>1. t \in Owners /\ Owners' = Owners \ {t}
    BY <1>11 DEF ValidateFails, Connecting, Owners
  <2>8. Cardinality(Owners) \in Nat \ {0} /\ Cardinality(Owners') = Cardinality(Owners) - 1
    BY <1>0, <2>1, OneFewer
  <2> QED BY <1>11, <1>0, <2>8 DEF ValidateFails
<1>12. ASSUME NEW t \in Threads, NEW c \in Conns, Connect(t, c) PROVE Accounting'
  <2>1. Owners' = Owners
    BY <1>12 DEF Connect, Connecting, Owners
  <2> QED BY <1>12, <2>1 DEF Connect
<1>13. ASSUME NEW t \in Threads, ConnectFails(t) PROVE Accounting'
  <2>1. t \in Owners /\ Owners' = Owners \ {t}
    BY <1>13 DEF ConnectFails, Connecting, Owners, NotifyOne, Waiting
  <2>8. Cardinality(Owners) \in Nat \ {0} /\ Cardinality(Owners') = Cardinality(Owners) - 1
    BY <1>0, <2>1, OneFewer
  <2> QED BY <1>13, <1>0, <2>8 DEF ConnectFails, OneLess
<1>14. ASSUME NEW t \in Threads, Discard(t) PROVE Accounting'
  <2>1. t \in Owners /\ Owners' = Owners \ {t}
    BY <1>14 DEF Discard, Using, Owners, NotifyOne, Waiting
  <2>8. Cardinality(Owners) \in Nat \ {0} /\ Cardinality(Owners') = Cardinality(Owners) - 1
    BY <1>0, <2>1, OneFewer
  <2> QED BY <1>14, <1>0, <2>8 DEF Discard, OneLess
<1>15. ASSUME NEW t \in Threads, Return(t) PROVE Accounting'
  <2>1. t \in Owners /\ Owners' = Owners \ {t}
    BY <1>15 DEF Return, Using, Owners, NotifyOne, Waiting
  <2>2. held[t] \in Conns
    BY <1>15 DEF Return, Using, OneHolder, HeldWhileUsed
  <2>3. Len(available') = Len(available) + 1
    BY <1>15, <2>2, AppendProperties DEF Return
  <2>8. Cardinality(Owners) \in Nat \ {0} /\ Cardinality(Owners') = Cardinality(Owners) - 1
    BY <1>0, <2>1, OneFewer
  <2> QED BY <1>15, <1>0, <2>3, <2>8 DEF Return
<1>16. ASSUME NEW t \in Threads, Close(t) PROVE Accounting'
  <2>1. Owners' = Owners
    BY <1>16 DEF Close, Owners, NotifyAll, Waiting
  <2>2. Cardinality(Owners) \in Nat
    BY <1>0, FS_Subset, FS_CardinalityType
  <2>3. Len(available') = 0 /\ total' = Monus(total, Len(available)) /\ lost' = lost
    BY <1>16, EmptySeq DEF Close
  <2> QED BY <1>0, <2>1, <2>2, <2>3
<1> QED BY <1>1, <1>2, <1>3, <1>4, <1>5, <1>6, <1>7, <1>8, <1>9, <1>10,
           <1>11, <1>12, <1>13, <1>14, <1>15, <1>16 DEF Next, Progress, Acquire


\* What is taken out of the idle list is apart from what stays in it.
LEMMA ElementsSplit ==
    ASSUME available \in Seq(Conns), IdleOnce, NEW k \in ExpiredPrefix
    PROVE  /\ Expired(k) \subseteq Elements(available)
           /\ Kept(k) # << >> =>
                LET newest == Kept(k)[Len(Kept(k))]
                IN  /\ newest \in Elements(available)
                    /\ newest \notin Elements(Left(k)) \cup Expired(k)
                    /\ Elements(Left(k)) \subseteq Elements(available)
                    /\ Elements(Left(k)) \cap Expired(k) = {}
                    /\ \A i, j \in 1 .. Len(Left(k)) : Left(k)[i] = Left(k)[j] => i = j
<1>0. Len(available) \in Nat /\ k \in 0 .. Len(available)
  BY Split, LenProperties
<1>1. Expired(k) \subseteq Elements(available)
  BY <1>0 DEF Expired, Elements
<1>2. ASSUME Kept(k) # << >>
      PROVE  LET newest == Kept(k)[Len(Kept(k))]
             IN  /\ newest \in Elements(available)
                 /\ newest \notin Elements(Left(k)) \cup Expired(k)
                 /\ Elements(Left(k)) \subseteq Elements(available)
                 /\ Elements(Left(k)) \cap Expired(k) = {}
                 /\ \A i, j \in 1 .. Len(Left(k)) : Left(k)[i] = Left(k)[j] => i = j
  <2> DEFINE newest == Kept(k)[Len(Kept(k))]
             n == Len(available) - k - 1
  <2>0. /\ newest = available[Len(available)]
        /\ n \in Nat /\ n < Len(available) /\ Len(available) = k + n + 1
        /\ Len(Left(k)) = n
        /\ \A i \in 1 .. n : Left(k)[i] = available[k + i]
    BY <1>0, <1>2, Split
  <2> HIDE DEF newest, n
  <2>1. \A i \in 1 .. n : k + i \in 1 .. Len(available) /\ k + i # Len(available) /\ k + i > k
    BY <1>0, <2>0
  <2>2. Len(available) \in 1 .. Len(available) /\ Len(available) > k
    BY <1>0, <2>0
  <2>3. newest \in Elements(available)
    BY <2>0, <2>2 DEF Elements
  <2>4. newest \notin Elements(Left(k))
    BY <2>0, <2>1, <2>2 DEF Elements, IdleOnce
  <2>5. newest \notin Expired(k)
    BY <1>0, <2>0, <2>2 DEF Expired, IdleOnce
  <2>6. Elements(Left(k)) \subseteq Elements(available)
    BY <2>0, <2>1 DEF Elements
  <2>7. Elements(Left(k)) \cap Expired(k) = {}
    <3> SUFFICES ASSUME NEW i \in 1 .. n, NEW j \in 1 .. k, Left(k)[i] = available[j] PROVE FALSE
      BY <2>0 DEF Elements, Expired
    <3> QED BY <1>0, <2>0, <2>1 DEF IdleOnce
  <2>8. \A i, j \in 1 .. n : Left(k)[i] = Left(k)[j] => i = j
    <3> SUFFICES ASSUME NEW i \in 1 .. n, NEW j \in 1 .. n, Left(k)[i] = Left(k)[j] PROVE i = j
      OBVIOUS
    <3>1. k + i = k + j
      BY <2>0, <2>1 DEF IdleOnce
    <3> QED BY <3>1, <1>0, <2>0
  <2> QED BY <2>0, <2>3, <2>4, <2>5, <2>6, <2>7, <2>8 DEF newest
<1> QED BY <1>1, <1>2

LEMMA ElementsAppend ==
    ASSUME available \in Seq(Conns), IdleOnce, NEW c \in Conns, c \notin Elements(available)
    PROVE  LET longer == Append(available, c)
           IN  /\ Elements(longer) = Elements(available) \cup {c}
               /\ \A i, j \in 1 .. Len(longer) : longer[i] = longer[j] => i = j
<1> DEFINE longer == Append(available, c)
           n == Len(available)
<1>1. /\ n \in Nat /\ Len(longer) = n + 1 /\ longer[n + 1] = c
      /\ \A i \in 1 .. n : longer[i] = available[i]
  BY AppendProperties, LenProperties
<1> HIDE DEF longer
<1>2. \A i \in 1 .. n + 1 : i \in 1 .. n \/ i = n + 1
  BY <1>1
<1>3. Elements(longer) = Elements(available) \cup {c}
  BY <1>1, <1>2 DEF Elements
<1>4. \A i \in 1 .. n : longer[i] # c
  BY <1>1 DEF Elements
<1>5. \A i, j \in 1 .. Len(longer) : longer[i] = longer[j] => i = j
  BY <1>1, <1>2, <1>4 DEF IdleOnce
<1> QED BY <1>3, <1>5 DEF longer

LEMMA ElementsEmpty == Elements(<< >>) = {} /\ (\A i, j \in 1 .. Len(<< >>) : i = j)
BY EmptySeq DEF Elements

-----------------------------------------------------------------------------
(* Every connection is in one place                                        *)

LEMMA OneHolderStep ==
    IInv /\ [Next]_vars => OneHolder'
<1> SUFFICES ASSUME IInv, [Next]_vars PROVE OneHolder'
  OBVIOUS
<1> USE PoolAssumption DEF IInv, TypeOK, PoolAssumption, Goto, Ends, OneHolder,
         IdleOnce, HeldWhileUsed, HeldOnce, ClosedOnce, Apart, KnownOpen
<1>1. CASE UNCHANGED vars
  BY <1>1 DEF vars
<1>2. ASSUME NEW t \in Threads, Enter(t) PROVE OneHolder'
  BY <1>2 DEF Enter
<1>3. ASSUME NEW t \in Threads, DeadlinePasses(t) PROVE OneHolder'
  BY <1>3 DEF DeadlinePasses
<1>4. ASSUME NEW t \in Threads, AcquireClosed(t) PROVE OneHolder'
  BY <1>4 DEF AcquireClosed
<1>5. ASSUME NEW t \in Threads, NEW k \in ExpiredPrefix, AcquireIdle(t, k) PROVE OneHolder'
  <2> DEFINE newest == Kept(k)[Len(Kept(k))]
  <2>1. /\ Kept(k) # << >> /\ pc[t] = "acquire" /\ held[t] = NoConn /\ closing[t] = {}
        /\ available' = Left(k) /\ open' = open /\ pc' = [pc EXCEPT ![t] = "use"]
        /\ held' = [held EXCEPT ![t] = newest] /\ closing' = [closing EXCEPT ![t] = Expired(k)]
    BY <1>5 DEF AcquireIdle, NoSleepWithExpired
  <2>2. /\ Expired(k) \subseteq Elements(available)
        /\ newest \in Elements(available)
        /\ newest \notin Elements(Left(k)) /\ newest \notin Expired(k)
        /\ Elements(Left(k)) \subseteq Elements(available)
        /\ Elements(Left(k)) \cap Expired(k) = {}
        /\ \A i, j \in 1 .. Len(Left(k)) : Left(k)[i] = Left(k)[j] => i = j
    BY <2>1, ElementsSplit
  <2>3. newest # NoConn
    BY <2>2, ElementsType
  <2> HIDE DEF newest
  <2>4. IdleOnce'
    BY <2>1, <2>2
  <2>5. HeldWhileUsed' /\ HeldOnce'
    BY <2>1, <2>2, <2>3
  <2>6. ClosedOnce'
    BY <2>1, <2>2
  <2>7. Apart'
    BY <2>1, <2>2
  <2>8. KnownOpen'
    BY <2>1, <2>2
  <2> QED BY <2>4, <2>5, <2>6, <2>7, <2>8
<1>6. ASSUME NEW t \in Threads, NEW k \in ExpiredPrefix, AcquireCreate(t, k) PROVE OneHolder'
  <2>1. /\ pc[t] = "acquire" /\ closing[t] = {}
        /\ available' = << >> /\ open' = open /\ pc' = [pc EXCEPT ![t] = "connect"]
        /\ held' = held /\ closing' = [closing EXCEPT ![t] = Expired(k)]
    BY <1>6 DEF AcquireCreate, NoSleepWithExpired
  <2>2. Expired(k) \subseteq Elements(available)
    BY ElementsSplit
  <2>3. IdleOnce' /\ Elements(available') = {}
    BY <2>1, ElementsEmpty
  <2>4. HeldWhileUsed' /\ HeldOnce'
    BY <2>1
  <2>5. ClosedOnce'
    BY <2>1, <2>2
  <2>6. Apart' /\ KnownOpen'
    BY <2>1, <2>2, <2>3
  <2> QED BY <2>3, <2>4, <2>5, <2>6
<1>7. ASSUME NEW t \in Threads, NEW k \in ExpiredPrefix, AcquireTimeout(t, k) PROVE OneHolder'
  <2>1. /\ pc[t] = "acquire" /\ available = << >> /\ available' = << >> /\ open' = open
        /\ pc' = [pc EXCEPT ![t] = "out"] /\ held' = held
        /\ closing[t] = {} /\ closing' = [closing EXCEPT ![t] = {}]
    BY <1>7, NothingExpired DEF AcquireTimeout, Exhausted, NoSleepWithExpired
  <2> QED BY <2>1
<1>8. ASSUME NEW t \in Threads, NEW k \in ExpiredPrefix, AcquireWait(t, k) PROVE OneHolder'
  <2>1. /\ pc[t] = "acquire" /\ available = << >> /\ available' = << >> /\ open' = open
        /\ pc' = [pc EXCEPT ![t] = "wait"] /\ held' = held
        /\ closing[t] = {} /\ closing' = [closing EXCEPT ![t] = {}]
    BY <1>8, NothingExpired DEF AcquireWait, Exhausted, NoSleepWithExpired
  <2> QED BY <2>1
<1>9. ASSUME NEW t \in Threads, WaitTimesOut(t) PROVE OneHolder'
  BY <1>9 DEF WaitTimesOut
<1>10. ASSUME NEW t \in Threads, CloseTaken(t) PROVE OneHolder'
  <2>1. /\ available' = available /\ held' = held
        /\ open' = open \ closing[t] /\ closing' = [closing EXCEPT ![t] = {}]
    BY <1>10 DEF CloseTaken
  <2>2. HeldWhileUsed'
    BY <1>10 DEF CloseTaken
  <2> QED BY <2>1, <2>2
<1>11. ASSUME NEW t \in Threads, ValidateFails(t) PROVE OneHolder'
  BY <1>11 DEF ValidateFails, Connecting
<1>12. ASSUME NEW t \in Threads, NEW c \in Conns, Connect(t, c) PROVE OneHolder'
  <2>1. /\ pc[t] = "connect" /\ held[t] = NoConn /\ closing[t] = {} /\ c \notin open /\ c # NoConn
        /\ available' = available /\ closing' = closing /\ pc' = [pc EXCEPT ![t] = "use"]
        /\ open' = open \cup {c} /\ held' = [held EXCEPT ![t] = c]
    BY <1>12 DEF Connect, Connecting
  <2>2. IdleOnce' /\ ClosedOnce'
    BY <2>1
  <2>3. HeldWhileUsed' /\ HeldOnce'
    BY <2>1
  <2>4. Apart'
    BY <2>1
  <2>5. KnownOpen'
    BY <2>1
  <2> QED BY <2>2, <2>3, <2>4, <2>5
<1>13. ASSUME NEW t \in Threads, ConnectFails(t) PROVE OneHolder'
  BY <1>13 DEF ConnectFails, Connecting, NotifyOne, Waiting
<1>14. ASSUME NEW t \in Threads, Discard(t) PROVE OneHolder'
  <2>1. /\ pc[t] = "use" /\ closing[t] = {} /\ held[t] \in open
        /\ available' = available /\ open' = open
        /\ closing' = [closing EXCEPT ![t] = {held[t]}] /\ held' = [held EXCEPT ![t] = NoConn]
    BY <1>14 DEF Discard, Using
  <2>2. HeldWhileUsed'
    BY <1>14 DEF Discard, Using, NotifyOne, Waiting
  <2>3. IdleOnce' /\ HeldOnce' /\ ClosedOnce'
    BY <2>1
  <2>4. NoConn \notin Elements(available) /\ \A u \in Threads : NoConn \notin closing[u]
    BY ElementsType
  <2>5. Apart' /\ KnownOpen'
    BY <2>1, <2>4
  <2> QED BY <2>2, <2>3, <2>5
<1>15. ASSUME NEW t \in Threads, Return(t) PROVE OneHolder'
  <2>1. /\ pc[t] = "use" /\ closing[t] = {} /\ held[t] \in open /\ held[t] \in Conns
        /\ held[t] \notin Elements(available)
        /\ available' = Append(available, held[t]) /\ open' = open
        /\ closing' = closing /\ held' = [held EXCEPT ![t] = NoConn]
    BY <1>15 DEF Return, Using
  <2>2. HeldWhileUsed'
    BY <1>15 DEF Return, Using, NotifyOne, Waiting
  <2>3. IdleOnce' /\ Elements(available') = Elements(available) \cup {held[t]}
    BY <2>1, ElementsAppend
  <2>4. HeldOnce' /\ ClosedOnce'
    BY <2>1
  <2>5. NoConn \notin Elements(available) /\ \A u \in Threads : NoConn \notin closing[u]
    BY ElementsType
  <2>6. Apart' /\ KnownOpen'
    BY <2>1, <2>3, <2>5
  <2> QED BY <2>2, <2>3, <2>4, <2>6
<1>16. ASSUME NEW t \in Threads, Close(t) PROVE OneHolder'
  <2>1. /\ pc[t] = "out" /\ closing[t] = {} /\ held[t] = NoConn
        /\ available' = << >> /\ open' = open
        /\ closing' = [closing EXCEPT ![t] = Elements(available)] /\ held' = held
    BY <1>16 DEF Close, NoSleepWithExpired
  <2>2. HeldWhileUsed'
    BY <1>16 DEF Close, NotifyAll, Waiting
  <2>3. IdleOnce' /\ Elements(available') = {}
    BY <2>1, ElementsEmpty
  <2>4. HeldOnce' /\ ClosedOnce'
    BY <2>1
  <2>5. Apart' /\ KnownOpen'
    BY <2>1, <2>3
  <2> QED BY <2>2, <2>3, <2>4, <2>5
<1> QED BY <1>1, <1>2, <1>3, <1>4, <1>5, <1>6, <1>7, <1>8, <1>9, <1>10,
           <1>11, <1>12, <1>13, <1>14, <1>15, <1>16 DEF Next, Progress, Acquire

-----------------------------------------------------------------------------
(* A closed pool stays empty                                               *)

LEMMA ClosedIsEmptyStep ==
    IInv /\ [Next]_vars => ClosedIsEmpty'
<1> SUFFICES ASSUME IInv, [Next]_vars PROVE ClosedIsEmpty'
  OBVIOUS
<1> USE DEF IInv, ClosedIsEmpty
<1>1. CASE UNCHANGED vars
  BY <1>1 DEF vars
<1>2. ASSUME NEW t \in Threads, Enter(t) PROVE ClosedIsEmpty'
  BY <1>2 DEF Enter
<1>3. ASSUME NEW t \in Threads, DeadlinePasses(t) PROVE ClosedIsEmpty'
  BY <1>3 DEF DeadlinePasses
<1>4. ASSUME NEW t \in Threads, AcquireClosed(t) PROVE ClosedIsEmpty'
  BY <1>4 DEF AcquireClosed
<1>5. ASSUME NEW t \in Threads, NEW k \in ExpiredPrefix, AcquireIdle(t, k) PROVE ClosedIsEmpty'
  BY <1>5 DEF AcquireIdle
<1>6. ASSUME NEW t \in Threads, NEW k \in ExpiredPrefix, AcquireCreate(t, k) PROVE ClosedIsEmpty'
  BY <1>6 DEF AcquireCreate
<1>7. ASSUME NEW t \in Threads, NEW k \in ExpiredPrefix, AcquireTimeout(t, k) PROVE ClosedIsEmpty'
  BY <1>7 DEF AcquireTimeout, Exhausted
<1>8. ASSUME NEW t \in Threads, NEW k \in ExpiredPrefix, AcquireWait(t, k) PROVE ClosedIsEmpty'
  BY <1>8 DEF AcquireWait, Exhausted
<1>9. ASSUME NEW t \in Threads, WaitTimesOut(t) PROVE ClosedIsEmpty'
  BY <1>9 DEF WaitTimesOut
<1>10. ASSUME NEW t \in Threads, CloseTaken(t) PROVE ClosedIsEmpty'
  BY <1>10 DEF CloseTaken
<1>11. ASSUME NEW t \in Threads, ValidateFails(t) PROVE ClosedIsEmpty'
  BY <1>11 DEF ValidateFails
<1>12. ASSUME NEW t \in Threads, NEW c \in Conns, Connect(t, c) PROVE ClosedIsEmpty'
  BY <1>12 DEF Connect
<1>13. ASSUME NEW t \in Threads, ConnectFails(t) PROVE ClosedIsEmpty'
  BY <1>13 DEF ConnectFails
<1>14. ASSUME NEW t \in Threads, Discard(t) PROVE ClosedIsEmpty'
  BY <1>14 DEF Discard
<1>15. ASSUME NEW t \in Threads, Return(t) PROVE ClosedIsEmpty'
  BY <1>15 DEF Return, Poolable
<1>16. ASSUME NEW t \in Threads, Close(t) PROVE ClosedIsEmpty'
  BY <1>16 DEF Close
<1> QED BY <1>1, <1>2, <1>3, <1>4, <1>5, <1>6, <1>7, <1>8, <1>9, <1>10,
           <1>11, <1>12, <1>13, <1>14, <1>15, <1>16 DEF Next, Progress, Acquire


\* The threads on their way into the critical section, and what they can have.
Coming == {t \in Threads : pc[t] = "acquire"}
Spare == Len(available) + (MaxSize - total)

-----------------------------------------------------------------------------
(* No notify is lost                                                       *)

LEMMA NoLostWakeupStep ==
    IInv /\ [Next]_vars => NoLostWakeup'
<1> SUFFICES ASSUME IInv, [Next]_vars PROVE NoLostWakeup'
  OBVIOUS
<1> USE PoolAssumption DEF IInv, TypeOK, PoolAssumption, Goto, Ends, Monus
<1>a. /\ Coming \in SUBSET Threads /\ Owners \in SUBSET Threads
      /\ Len(available) \in Nat /\ total >= Len(available)
  <2>1. Coming \in SUBSET Threads /\ Owners \in SUBSET Threads /\ Len(available) \in Nat
    BY LenProperties DEF Coming, Owners
  <2>2. Cardinality(Owners) \in Nat
    BY <2>1, FS_Subset, FS_CardinalityType
  <2> QED BY <2>1, <2>2 DEF Accounting
<1>b. /\ NoLostWakeup <=> (Waiting # {} /\ ~closed => Spare <= Cardinality(Coming))
      /\ NoLostWakeup' <=> (Waiting' # {} /\ ~closed' => Spare' <= Cardinality(Coming'))
  BY DEF NoLostWakeup, Spare, Coming
<1>1. CASE UNCHANGED vars
  BY <1>1 DEF vars, NoLostWakeup, Waiting
<1>2. ASSUME NEW t \in Threads, Enter(t) PROVE NoLostWakeup'
  <2>1. t \notin Coming /\ Coming' = Coming \cup {t} /\ Waiting' = Waiting
    BY <1>2 DEF Enter, Coming, Waiting
  <2>8. Cardinality(Coming) \in Nat /\ Cardinality(Coming') = Cardinality(Coming) + 1
    BY <1>a, <2>1, OneMore
  <2> QED BY <1>2, <1>a, <1>b, <2>1, <2>8 DEF Enter, Spare
<1>3. ASSUME NEW t \in Threads, DeadlinePasses(t) PROVE NoLostWakeup'
  BY <1>3 DEF DeadlinePasses, NoLostWakeup, Waiting
<1>4. ASSUME NEW t \in Threads, AcquireClosed(t) PROVE NoLostWakeup'
  BY <1>4, <1>b DEF AcquireClosed
<1>5. ASSUME NEW t \in Threads, NEW k \in ExpiredPrefix, AcquireIdle(t, k) PROVE NoLostWakeup'
  <2>1. t \in Coming /\ Coming' = Coming \ {t} /\ Waiting' = Waiting
    BY <1>5 DEF AcquireIdle, Coming, Waiting
  <2>8. Cardinality(Coming) \in Nat \ {0} /\ Cardinality(Coming') = Cardinality(Coming) - 1
    BY <1>a, <2>1, OneFewer
  <2>2. k \in 0 .. Len(available) /\ Len(available') = Len(available) - k - 1 /\ total' = total - k
    BY <1>5, <1>a, Split DEF AcquireIdle, TotalAfter
  <2>3. Spare' = Spare - 1
    BY <1>a, <2>2 DEF Spare
  <2>4. Spare \in Int /\ closed' = closed
    BY <1>5, <1>a DEF Spare, AcquireIdle
  <2> QED BY <1>b, <2>1, <2>8, <2>3, <2>4
<1>6. ASSUME NEW t \in Threads, NEW k \in ExpiredPrefix, AcquireCreate(t, k) PROVE NoLostWakeup'
  <2>1. t \in Coming /\ Coming' = Coming \ {t} /\ Waiting' = Waiting
    BY <1>6 DEF AcquireCreate, Coming, Waiting
  <2>8. Cardinality(Coming) \in Nat \ {0} /\ Cardinality(Coming') = Cardinality(Coming) - 1
    BY <1>a, <2>1, OneFewer
  <2>2. k = Len(available) /\ Len(available') = 0 /\ total' = total - k + 1
    BY <1>6, <1>a, Split, EmptySeq DEF AcquireCreate, TotalAfter
  <2>3. Spare' = Spare - 1
    BY <1>a, <2>2 DEF Spare
  <2>4. Spare \in Int /\ closed' = closed
    BY <1>6, <1>a DEF Spare, AcquireCreate
  <2> QED BY <1>b, <2>1, <2>8, <2>3, <2>4
<1>7. ASSUME NEW t \in Threads, NEW k \in ExpiredPrefix, AcquireTimeout(t, k) PROVE NoLostWakeup'
  <2>1. Len(available') = 0 /\ total' = MaxSize
    <3>1. Exhausted(t, k)
      BY <1>7 DEF AcquireTimeout
    <3>2. k = 0 /\ total = MaxSize
      BY <3>1, NothingExpired
    <3> QED BY <3>1, <3>2, EmptySeq DEF Exhausted, TotalAfter
  <2>2. Cardinality(Coming') \in Nat
    BY FS_Subset, FS_CardinalityType DEF Coming
  <2> QED BY <1>b, <2>1, <2>2 DEF Spare
<1>8. ASSUME NEW t \in Threads, NEW k \in ExpiredPrefix, AcquireWait(t, k) PROVE NoLostWakeup'
  <2>1. Len(available') = 0 /\ total' = MaxSize
    <3>1. Exhausted(t, k)
      BY <1>8 DEF AcquireWait
    <3>2. k = 0 /\ total = MaxSize
      BY <3>1, NothingExpired
    <3> QED BY <3>1, <3>2, EmptySeq DEF Exhausted, TotalAfter
  <2>2. Cardinality(Coming') \in Nat
    BY FS_Subset, FS_CardinalityType DEF Coming
  <2> QED BY <1>b, <2>1, <2>2 DEF Spare
<1>9. ASSUME NEW t \in Threads, WaitTimesOut(t) PROVE NoLostWakeup'
  <2>1. t \notin Coming /\ Coming' = Coming \cup {t} /\ Waiting' \subseteq Waiting
    BY <1>9 DEF WaitTimesOut, Coming, Waiting
  <2>8. Cardinality(Coming) \in Nat /\ Cardinality(Coming') = Cardinality(Coming) + 1
    BY <1>a, <2>1, OneMore
  <2> QED BY <1>9, <1>a, <1>b, <2>1, <2>8 DEF WaitTimesOut, Spare
<1>10. ASSUME NEW t \in Threads, CloseTaken(t) PROVE NoLostWakeup'
  <2>1. Coming' = Coming /\ Waiting' = Waiting
    BY <1>10 DEF CloseTaken, Coming, Waiting
  <2> QED BY <1>10, <1>b, <2>1 DEF CloseTaken, Spare
<1>11. ASSUME NEW t \in Threads, ValidateFails(t) PROVE NoLostWakeup'
  <2>1. Coming' = Coming /\ Waiting' = Waiting
    BY <1>11 DEF ValidateFails, Connecting, Coming, Waiting
  <2> QED BY <1>11, <1>b, <2>1 DEF ValidateFails, Spare
<1>12. ASSUME NEW t \in Threads, NEW c \in Conns, Connect(t, c) PROVE NoLostWakeup'
  <2>1. Coming' = Coming /\ Waiting' = Waiting
    BY <1>12 DEF Connect, Connecting, Coming, Waiting
  <2> QED BY <1>12, <1>b, <2>1 DEF Connect, Spare
<1>13. ASSUME NEW t \in Threads, ConnectFails(t) PROVE NoLostWakeup'
  <2> SUFFICES ASSUME Waiting' # {}, ~closed PROVE Spare' <= Cardinality(Coming')
    BY <1>13, <1>b DEF ConnectFails
  <2>1. Waiting # {} /\ pc[t] \notin {"wait", "acquire"}
    BY <1>13 DEF ConnectFails, Connecting, NotifyOne, Waiting
  <2>2. PICK w \in Waiting : w \notin Coming /\ Coming' = Coming \cup {w}
    BY <1>13, <2>1 DEF ConnectFails, Connecting, NotifyOne, Waiting, Coming
  <2>3. Cardinality(Coming) \in Nat /\ Cardinality(Coming') = Cardinality(Coming) + 1
    BY <1>a, <2>2, OneMore
  <2>4. total' = total - 1 /\ available' = available
    <3>1. t \in Owners
      BY <1>13 DEF ConnectFails, Connecting, Owners
    <3>2. Cardinality(Owners) \in Nat \ {0}
      BY <3>1, OneFewer, <1>a
    <3> QED BY <1>13, <1>a, <3>2 DEF ConnectFails, OneLess, Accounting
  <2> QED BY <1>b, <2>1, <2>3, <2>4, <1>a DEF Spare
<1>14. ASSUME NEW t \in Threads, Discard(t) PROVE NoLostWakeup'
  <2> SUFFICES ASSUME Waiting' # {}, ~closed PROVE Spare' <= Cardinality(Coming')
    BY <1>14, <1>b DEF Discard
  <2>1. Waiting # {} /\ pc[t] \notin {"wait", "acquire"}
    BY <1>14 DEF Discard, Using, NotifyOne, Waiting
  <2>2. PICK w \in Waiting : w \notin Coming /\ Coming' = Coming \cup {w}
    BY <1>14, <2>1 DEF Discard, Using, NotifyOne, Waiting, Coming
  <2>3. Cardinality(Coming) \in Nat /\ Cardinality(Coming') = Cardinality(Coming) + 1
    BY <1>a, <2>2, OneMore
  <2>4. total' = total - 1 /\ available' = available
    <3>1. t \in Owners
      BY <1>14 DEF Discard, Using, Owners
    <3>2. Cardinality(Owners) \in Nat \ {0}
      BY <3>1, OneFewer, <1>a
    <3> QED BY <1>14, <1>a, <3>2 DEF Discard, OneLess, Accounting
  <2> QED BY <1>b, <2>1, <2>3, <2>4, <1>a DEF Spare
<1>15. ASSUME NEW t \in Threads, Return(t) PROVE NoLostWakeup'
  <2> SUFFICES ASSUME Waiting' # {}, ~closed PROVE Spare' <= Cardinality(Coming')
    BY <1>15, <1>b DEF Return
  <2>1. Waiting # {} /\ pc[t] \notin {"wait", "acquire"}
    BY <1>15 DEF Return, Using, NotifyOne, Waiting
  <2>2. PICK w \in Waiting : w \notin Coming /\ Coming' = Coming \cup {w}
    BY <1>15, <2>1 DEF Return, Using, NotifyOne, Waiting, Coming
  <2>3. Cardinality(Coming) \in Nat /\ Cardinality(Coming') = Cardinality(Coming) + 1
    BY <1>a, <2>2, OneMore
  <2>4. total' = total /\ Len(available') = Len(available) + 1
    <3>1. held[t] \in Conns
      BY <1>15 DEF Return, Using, OneHolder, HeldWhileUsed
    <3> QED BY <1>15, <3>1, AppendProperties DEF Return
  <2> QED BY <1>b, <2>1, <2>3, <2>4, <1>a DEF Spare
<1>16. ASSUME NEW t \in Threads, Close(t) PROVE NoLostWakeup'
  BY <1>16, <1>b DEF Close
<1> QED BY <1>1, <1>2, <1>3, <1>4, <1>5, <1>6, <1>7, <1>8, <1>9, <1>10,
           <1>11, <1>12, <1>13, <1>14, <1>15, <1>16 DEF Next, Progress, Acquire

-----------------------------------------------------------------------------
(* The theorems                                                            *)

LEMMA InitIInv == Init => IInv
<1> SUFFICES ASSUME Init PROVE IInv
  OBVIOUS
<1> USE PoolAssumption DEF Init, PoolAssumption
<1>1. TypeOK
  <2>1. available \in Seq(Conns)
    BY EmptySeq
  <2>2. total \in 0 .. MaxSize /\ lost \in Nat
    OBVIOUS
  <2> QED BY <2>1, <2>2 DEF TypeOK, Places, Outcomes
<1>2. NoSleepWithExpired
  BY DEF NoSleepWithExpired
<1>3. Accounting
  <2>1. Owners = {}
    BY DEF Owners
  <2> QED BY <2>1, FS_EmptySet, EmptySeq DEF Accounting
<1>4. OneHolder
  <2>1. IdleOnce /\ Elements(available) = {}
    BY ElementsEmpty DEF IdleOnce
  <2> QED BY <2>1 DEF OneHolder, HeldWhileUsed, HeldOnce, ClosedOnce, Apart, KnownOpen
<1>5. ClosedIsEmpty /\ NoLostWakeup
  BY DEF ClosedIsEmpty, NoLostWakeup, Waiting
<1> QED BY <1>1, <1>2, <1>3, <1>4, <1>5 DEF IInv

THEOREM Inductive == Spec => []IInv
<1>1. Init => IInv
  BY InitIInv
<1>2. IInv /\ [Next]_vars => IInv'
  BY TypeStep, NoSleepStep, AccountingStep, OneHolderStep, ClosedIsEmptyStep,
     NoLostWakeupStep DEF IInv
<1> QED BY <1>1, <1>2, PTL DEF Spec

\* Types, and in particular total \in 0 .. MaxSize: however threads reserve,
\* expire, discard and return, never more than MaxSize connections are counted.
THEOREM TypeCorrect == Spec => []TypeOK
BY Inductive, PTL DEF IInv

\* The counter the pool decides by is exact: idle connections, plus the threads
\* that connect or use one, plus what _validate() lost.
THEOREM SlotsAccountedFor == Spec => []Accounting
BY Inductive, PTL DEF IInv

\* Two threads never use the same connection, and no connection is used after
\* it was closed.
THEOREM ConnectionsApart == Spec => []OneHolder
BY Inductive, PTL DEF IInv

\* One notify() for each freed slot or returned connection is enough: no thread
\* sleeps while there is more to have than there are threads coming to take it.
THEOREM NotifyIsEnough == Spec => []NoLostWakeup
BY Inductive, PTL DEF IInv

\* The expired connections a thread collected are never stranded by its sleep
\* or its timeout.
THEOREM ExpiredAreClosed == Spec => []NoSleepWithExpired
BY Inductive, PTL DEF IInv

\* A closed client keeps no idle connection.
THEOREM ClosedStaysEmpty == Spec => []ClosedIsEmpty
BY Inductive, PTL DEF IInv

-----------------------------------------------------------------------------
(* The pool implements BoundedPool                                         *)

\* Who connects, once a thread has moved and some sleepers were woken: waking
\* somebody does not change it.
Opening == {t \in Threads : pc[t] = "connect"}

LEMMA Woken ==
    ASSUME TypeOK, NEW t \in Threads, NEW place \in Places \ {"connect"},
           NotifyOne(Goto(t, place)) \/ NotifyAll(Goto(t, place)) \/ pc' = Goto(t, place)
    PROVE  Opening' = Opening \ {t}
<1> USE DEF TypeOK, Goto, Waiting, Opening
<1>1. CASE pc' = Goto(t, place)
  BY <1>1
<1>2. CASE NotifyAll(Goto(t, place))
  BY <1>2 DEF NotifyAll
<1>3. CASE NotifyOne(Goto(t, place))
  <2>1. CASE Waiting = {}
    BY <1>1, <1>3, <2>1 DEF NotifyOne
  <2>2. ASSUME NEW w \in Waiting, pc' = [Goto(t, place) EXCEPT ![w] = "acquire"]
        PROVE  Opening' = Opening \ {t}
    BY <2>2
  <2> QED BY <1>3, <2>1, <2>2 DEF NotifyOne
<1> QED BY <1>1, <1>2, <1>3

\* A thread owns a slot when it connects or holds a connection.
LEMMA BusyOwns ==
    ASSUME TypeOK, OneHolder PROVE Promise!Busy = Owners
BY DEF TypeOK, OneHolder, HeldWhileUsed, Promise!Busy, Owners

LEMMA InitKeeps == Init => Promise!Init
<1> SUFFICES ASSUME Init PROVE Promise!Init
  OBVIOUS
<1>1. Elements(available) = {} /\ Opening = {}
  BY ElementsEmpty DEF Init, Opening
<1> QED BY <1>1 DEF Init, Promise!Init, Opening

\* Every step of the pool is a step of BoundedPool, or one it does not see.
LEMMA StepKeeps ==
    IInv /\ [Next]_vars => [Promise!Next]_(Promise!vars)
<1> SUFFICES ASSUME IInv, [Next]_vars PROVE [Promise!Next]_(Promise!vars)
  OBVIOUS
<1> DEFINE idle == Elements(available)
           Unseen == /\ idle' = idle /\ held' = held /\ Opening' = Opening
                     /\ lost' = lost /\ closed' = closed
<1>0. Unseen => [Promise!Next]_(Promise!vars)
  BY DEF Promise!vars, Opening
<1>a. TypeOK /\ OneHolder /\ Accounting /\ NoSleepWithExpired
  BY DEF IInv
<1>b. available' = available => idle' = idle
  BY DEF Elements
<1>1. CASE UNCHANGED vars
  BY <1>0, <1>1 DEF vars, Elements, Opening
<1>2. ASSUME NEW t \in Threads, Enter(t) PROVE [Promise!Next]_(Promise!vars)
  <2>1. Opening' = Opening
    BY <1>a, <1>2 DEF Enter, TypeOK, Goto, Opening
  <2> QED BY <1>0, <1>b, <1>2, <2>1 DEF Enter
<1>3. ASSUME NEW t \in Threads, DeadlinePasses(t) PROVE [Promise!Next]_(Promise!vars)
  BY <1>0, <1>b, <1>3 DEF DeadlinePasses, Opening
<1>4. ASSUME NEW t \in Threads, AcquireClosed(t) PROVE [Promise!Next]_(Promise!vars)
  <2>1. Opening' = Opening
    BY <1>a, <1>4 DEF AcquireClosed, Ends, TypeOK, Goto, Opening
  <2> QED BY <1>0, <1>b, <1>4, <2>1 DEF AcquireClosed
<1>5. ASSUME NEW t \in Threads, NEW k \in ExpiredPrefix, AcquireIdle(t, k)
      PROVE  [Promise!Next]_(Promise!vars)
  <2> DEFINE newest == Kept(k)[Len(Kept(k))]
  <2>1. newest \in idle /\ idle' \subseteq idle \ {newest}
    <3>1. newest \in idle /\ newest \notin Elements(Left(k)) /\ Elements(Left(k)) \subseteq idle
      BY <1>a, <1>5, ElementsSplit DEF AcquireIdle, TypeOK, OneHolder
    <3>2. idle' = Elements(Left(k))
      BY <1>5 DEF AcquireIdle, Elements
    <3> QED BY <3>1, <3>2
  <2>2. Opening' = Opening /\ t \notin Promise!Busy
    <3>1. Opening' = Opening
      BY <1>a, <1>5 DEF AcquireIdle, TypeOK, Goto, Opening
    <3>2. t \notin Owners
      BY <1>5 DEF AcquireIdle, Owners
    <3> QED BY <1>a, <3>1, <3>2, BusyOwns
  <2>3. ~closed /\ held' = [held EXCEPT ![t] = newest] /\ lost' = lost /\ closed' = closed
    BY <1>5 DEF AcquireIdle
  <2> HIDE DEF newest
  <2>4. Promise!Reuse(t)
    BY <2>1, <2>2, <2>3 DEF Promise!Reuse, Opening
  <2> QED BY <2>4 DEF Promise!Next
<1>6. ASSUME NEW t \in Threads, NEW k \in ExpiredPrefix, AcquireCreate(t, k)
      PROVE  [Promise!Next]_(Promise!vars)
  <2>1. Cardinality(Promise!Busy) + lost < MaxSize
    <3>1. k \in 0 .. Len(available) /\ Len(Kept(k)) = Len(available) - k /\ Len(available) \in Nat
      BY <1>a, Split, LenProperties DEF TypeOK
    <3>2. k = Len(available) /\ Monus(total, k) < MaxSize
      <4>1. Len(Kept(k)) = 0
        BY <1>6, EmptySeq DEF AcquireCreate
      <4> QED BY <1>6, <3>1, <4>1 DEF AcquireCreate, SlotFree, TotalAfter
    <3>3. total = Len(available) + Cardinality(Owners) + lost
      BY <1>a DEF Accounting
    <3>4. Cardinality(Owners) \in Nat /\ lost \in Nat /\ MaxSize \in Nat
      <4>1. IsFiniteSet(Owners)
        BY FS_Subset, PoolAssumption DEF PoolAssumption, Owners
      <4> QED BY <1>a, <4>1, FS_CardinalityType, PoolAssumption DEF TypeOK, PoolAssumption
    <3>5. Cardinality(Owners) + lost < MaxSize
      BY <3>1, <3>2, <3>3, <3>4 DEF Monus
    <3> QED BY <1>a, <3>5, BusyOwns
  <2>2. idle' = {} /\ Opening' = Opening \cup {t} /\ t \notin Promise!Busy
    <3>1. idle' = {}
      BY <1>6, ElementsEmpty DEF AcquireCreate, Elements
    <3>2. Opening' = Opening \cup {t}
      BY <1>a, <1>6 DEF AcquireCreate, TypeOK, Goto, Opening
    <3>3. t \notin Owners
      BY <1>6 DEF AcquireCreate, Owners
    <3> QED BY <1>a, <3>1, <3>2, <3>3, BusyOwns
  <2>3. ~closed /\ held' = held /\ lost' = lost /\ closed' = closed
    BY <1>6 DEF AcquireCreate
  <2> HIDE DEF idle
  <2>4. Promise!Cardinality(Promise!Busy) = Cardinality(Promise!Busy)
    BY Zenon DEF Promise!Cardinality, Cardinality
  <2>5. Promise!Reserve(t)
    BY Zenon, <2>1, <2>2, <2>3, <2>4 DEF Promise!Reserve, Opening, idle
  <2> QED BY <2>5 DEF Promise!Next
<1>7. ASSUME NEW t \in Threads, NEW k \in ExpiredPrefix, AcquireTimeout(t, k) \/ AcquireWait(t, k)
      PROVE  [Promise!Next]_(Promise!vars)
  <2>1. available' = available
    BY <1>7, NothingExpired DEF AcquireTimeout, AcquireWait, Exhausted
  <2>2. Opening' = Opening
    BY <1>a, <1>7 DEF AcquireTimeout, AcquireWait, Exhausted, Ends, TypeOK, Goto, Opening
  <2> QED BY <1>0, <1>b, <1>7, <2>1, <2>2 DEF AcquireTimeout, AcquireWait
<1>8. ASSUME NEW t \in Threads, WaitTimesOut(t) PROVE [Promise!Next]_(Promise!vars)
  <2>1. Opening' = Opening
    BY <1>a, <1>8 DEF WaitTimesOut, TypeOK, Goto, Opening
  <2> QED BY <1>0, <1>b, <1>8, <2>1 DEF WaitTimesOut
<1>9. ASSUME NEW t \in Threads, CloseTaken(t) PROVE [Promise!Next]_(Promise!vars)
  <2>1. Opening' = Opening
    BY <1>a, <1>9 DEF CloseTaken, TypeOK, Goto, Opening
  <2> QED BY <1>0, <1>b, <1>9, <2>1 DEF CloseTaken
<1>10. ASSUME NEW t \in Threads, ValidateFails(t) PROVE [Promise!Next]_(Promise!vars)
  <2>1. t \in Opening /\ Opening' = Opening \ {t}
    BY <1>a, <1>10 DEF ValidateFails, Connecting, Ends, TypeOK, Goto, Opening
  <2>2. Promise!NotOpened(t)
    BY <1>b, <1>10, <2>1 DEF ValidateFails, Promise!NotOpened, Opening
  <2> QED BY <2>2 DEF Promise!Next
<1>11. ASSUME NEW t \in Threads, NEW c \in Conns, Connect(t, c) PROVE [Promise!Next]_(Promise!vars)
  <2>1. t \in Opening /\ Opening' = Opening \ {t}
    BY <1>a, <1>11 DEF Connect, Connecting, TypeOK, Goto, Opening
  <2>2. c \notin idle \cup Promise!InUse
    <3>1. c \notin idle
      BY <1>a, <1>11 DEF Connect, OneHolder, KnownOpen
    <3>2. \A u \in Threads : held[u] # c
      BY <1>a, <1>11, PoolAssumption DEF Connect, OneHolder, KnownOpen, PoolAssumption
    <3> QED BY <3>1, <3>2 DEF Promise!InUse
  <2>3. Promise!Opened(t)
    BY <1>b, <1>11, <2>1, <2>2 DEF Connect, Promise!Opened, Opening
  <2> QED BY <2>3 DEF Promise!Next
<1>12. ASSUME NEW t \in Threads, ConnectFails(t) PROVE [Promise!Next]_(Promise!vars)
  <2>1. t \in Opening /\ Opening' = Opening \ {t}
    BY <1>a, <1>12, Woken DEF ConnectFails, Connecting, Opening, Places
  <2>2. Promise!NotOpened(t)
    BY <1>b, <1>12, <2>1 DEF ConnectFails, Promise!NotOpened, Opening
  <2> QED BY <2>2 DEF Promise!Next
<1>13. ASSUME NEW t \in Threads, Discard(t) PROVE [Promise!Next]_(Promise!vars)
  <2>1. Opening' = Opening /\ held[t] # NoConn
    <3>1. Opening' = Opening \ {t} /\ t \notin Opening
      BY <1>a, <1>13, Woken DEF Discard, Using, Opening, Places
    <3> QED BY <1>a, <1>13, <3>1 DEF Discard, Using, OneHolder, HeldWhileUsed
  <2>2. Promise!GiveUp(t)
    BY <1>b, <1>13, <2>1 DEF Discard, Promise!GiveUp, Opening
  <2> QED BY <2>2 DEF Promise!Next
<1>14. ASSUME NEW t \in Threads, Return(t) PROVE [Promise!Next]_(Promise!vars)
  <2>1. Opening' = Opening /\ held[t] # NoConn
    <3>1. Opening' = Opening \ {t} /\ t \notin Opening
      BY <1>a, <1>14, Woken DEF Return, Using, Opening, Places
    <3> QED BY <1>a, <1>14, <3>1 DEF Return, Using, OneHolder, HeldWhileUsed
  <2>2. idle' = idle \cup {held[t]}
    <3>1. held[t] \in Conns /\ held[t] \notin idle
      BY <1>a, <2>1 DEF TypeOK, OneHolder, Apart
    <3>2. Elements(Append(available, held[t])) = idle \cup {held[t]}
      BY <1>a, <3>1, ElementsAppend DEF TypeOK, OneHolder
    <3>3. idle' = Elements(Append(available, held[t]))
      BY <1>14 DEF Return, Elements
    <3> QED BY <3>2, <3>3
  <2>3. Promise!GiveUp(t)
    BY <1>14, <2>1, <2>2 DEF Return, Poolable, Promise!GiveUp, Opening
  <2> QED BY <2>3 DEF Promise!Next
<1>15. ASSUME NEW t \in Threads, Close(t) PROVE [Promise!Next]_(Promise!vars)
  <2>1. Opening' = Opening
    <3>1. Opening' = Opening \ {t} /\ t \notin Opening
      BY <1>a, <1>15, Woken DEF Close, Opening, Places
    <3> QED BY <3>1
  <2>2. idle' = {}
    BY <1>15, ElementsEmpty DEF Close, Elements
  <2>3. Promise!Close
    BY <1>15, <2>1, <2>2 DEF Close, Promise!Close, Opening
  <2> QED BY <2>3 DEF Promise!Next
<1> QED
  BY <1>1, <1>2, <1>3, <1>4, <1>5, <1>6, <1>7, <1>8, <1>9, <1>10, <1>11, <1>12,
     <1>13, <1>14, <1>15 DEF Next, Progress, Acquire

\* The pool implements BoundedPool: whatever threads, deadlines, errors and
\* close() do to each other, nobody can tell counter, list and condition from
\* a pool that lends at most MaxSize connections, each to one thread.
THEOREM PromiseIsKept == Spec => KeepsPromise
<1>1. Init => Promise!Init
  BY InitKeeps
<1>2. IInv /\ [Next]_vars => [Promise!Next]_(Promise!vars)
  BY StepKeeps
<1> QED BY <1>1, <1>2, Inductive, PTL DEF Spec, KeepsPromise, Promise!Spec

=============================================================================
