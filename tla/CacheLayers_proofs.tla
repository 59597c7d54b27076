-------------------------- MODULE CacheLayers_proofs --------------------------
(***************************************************************************)
(* The bounds of CacheLayers hold for any number of layers, any TTLs and   *)
(* any number of readers and writers.                                      *)
(***************************************************************************)
EXTENDS CacheLayers, TLAPS

\* The answer v was the stored value at the time asOf.
Genuine(v, asOf) ==
    /\ asOf <= now
    /\ v \in Versions => v <= db /\ (v = db \/ asOf <= superseded[v])

CachedOnce ==
    \A i \in Layers : cache[i] # None =>
        Genuine(cache[i].value, cache[i].asOf) /\ cache[i].expires <= cache[i].asOf + Budget[i]

\* What a reader carries came from some layer below the one it fills next,
\* while that layer's budget lasted, at most MaxLoad ago.
CarriedOnce ==
    \A r \in Readers : pc[r] = "up" =>
        /\ level[r] \in 1 .. top[r]
        /\ level[r] = 1 => hand[r].value \in Versions
        /\ Genuine(hand[r].value, hand[r].asOf)
        /\ since[r] <= now /\ now <= since[r] + MaxLoad
        /\ \E j \in 0 .. level[r] - 1 : since[r] <= hand[r].asOf + Budget[j]

StaysLow == \A r \in Readers : pc[r] = "down" => level[r] <= top[r]

\* Why the order of the two clears is the right one: while an unraced write is
\* under way nobody brings an old value into the query cache, and once that is
\* cleared it stays current, so clearing the rest completes the write.
Current(x) == x.value \in {db, Empty}
QuietWrite ==
    /\ clean => /\ \A i \in Layers : cache[i] # None => Current(cache[i])
                /\ \A r \in Readers : pc[r] = "up" => Current(hand[r])
                /\ \A w \in Writers : wpc[w] = "idle"
    /\ \A w \in Writers : quiet[w] /\ wpc[w] # "idle" =>
          /\ \A r \in Readers : pc[r] = "up" /\ level[r] = 1 => Current(hand[r])
          /\ wpc[w] = "rest" /\ cache[1] # None => Current(cache[1])

IInv == TypeOK /\ CachedOnce /\ CarriedOnce /\ StaysLow /\ QuietWrite

LEMMA LayerBounds ==
    /\ 1 \in Layers /\ N \in Nat /\ N >= 1 /\ MaxLoad \in Nat /\ MaxVersion \in Nat
    /\ Versions \subseteq Nat /\ Empty \notin Versions /\ None \notin Entries
    /\ \A i \in Layers : i \in Nat /\ TTL[i] \in Nat /\ Budget[i] \in Nat
    /\ \A j \in 0 .. N : Budget[j] \in Nat
    /\ \A i \in Layers : \A j \in 0 .. i - 1 : Budget[i] >= Budget[j] + MaxLoad + TTL[i]
BY CacheAssumption DEF CacheAssumption, Layers, Versions, Entries

\* What the two ways to leave a layer do to the readers.
ReaderTypes ==
    /\ pc \in [Readers -> {"idle", "down", "up"}]
    /\ level \in [Readers -> 0 .. N]
    /\ top \in [Readers -> Layers]
    /\ hand \in [Readers -> Answers]
    /\ since \in [Readers -> Nat]

LEMMA LeavesEffect ==
    ASSUME TypeOK, NEW r \in Readers, Leaves(r)
    PROVE  /\ ReaderTypes'
           /\ pc'[r] = "idle"
           /\ \A x \in Readers \ {r} :
                 /\ pc'[x] = pc[x] /\ level'[x] = level[x] /\ top'[x] = top[x]
                 /\ hand'[x] = hand[x] /\ since'[x] = since[x]
<1>1. Nothing \in Answers /\ 0 \in 0 .. N /\ 1 \in Layers
  BY LayerBounds DEF Nothing, Answers
<1> QED BY <1>1 DEF Leaves, TypeOK, ReaderTypes

LEMMA GotEffect ==
    ASSUME TypeOK, NEW r \in Readers, NEW i \in 0 .. N,
           NEW v \in Versions \cup {Empty}, NEW asOf \in Nat, Got(r, i, v, asOf)
    PROVE  /\ ReaderTypes'
           /\ \/ pc'[r] = "idle"
              \/ /\ i < top[r] /\ pc'[r] = "up" /\ level'[r] = i + 1 /\ top'[r] = top[r]
                 /\ hand'[r].value = v /\ hand'[r].asOf = asOf /\ since'[r] = now
           /\ \A x \in Readers \ {r} :
                 /\ pc'[x] = pc[x] /\ level'[x] = level[x] /\ top'[x] = top[x]
                 /\ hand'[x] = hand[x] /\ since'[x] = since[x]
           /\ UNCHANGED <<now, db, superseded, wpc, quiet, clean>>
<1>1. CASE i >= top[r] /\ Leaves(r)
  BY <1>1, LeavesEffect DEF Got, writerVars
<1>2. CASE ~(i >= top[r] /\ Leaves(r))
  <2> DEFINE a == [value |-> v, asOf |-> asOf]
  <2>1. /\ i < top[r]
        /\ pc' = [pc EXCEPT ![r] = "up"] /\ level' = [level EXCEPT ![r] = i + 1]
        /\ hand' = [hand EXCEPT ![r] = a] /\ since' = [since EXCEPT ![r] = now]
        /\ UNCHANGED <<top, now, db, superseded, wpc, quiet, clean>>
    BY <1>2 DEF Got, writerVars
  <2>2. a \in Answers /\ a.value = v /\ a.asOf = asOf
    BY DEF Answers
  <2>3. top[r] \in 1 .. N /\ N \in Nat
    BY LayerBounds DEF TypeOK, Layers
  <2>4. i + 1 \in 0 .. N
    BY <2>1, <2>3
  <2> HIDE DEF a
  <2>5. ReaderTypes'
    BY <2>1, <2>2, <2>4 DEF TypeOK, ReaderTypes
  <2> QED BY <2>1, <2>2, <2>5 DEF TypeOK
<1> QED BY <1>1, <1>2

\* A hit takes a live entry, whose budget has not run out.
LEMMA HitGot ==
    ASSUME IInv, NEW r \in Readers, Hit(r)
    PROVE  /\ level[r] \in 0 .. N /\ level[r] \in Layers
           /\ cache[level[r]].value \in Versions \cup {Empty} /\ cache[level[r]].asOf \in Nat
           /\ Got(r, level[r], cache[level[r]].value, cache[level[r]].asOf)
           /\ Genuine(cache[level[r]].value, cache[level[r]].asOf)
           /\ now <= cache[level[r]].asOf + Budget[level[r]]
<1>1. level[r] \in 0 .. N /\ level[r] \in Layers
  BY LayerBounds DEF Hit, IInv, TypeOK, Layers
<1>2. /\ cache[level[r]] \in Entries /\ now < cache[level[r]].expires
      /\ Genuine(cache[level[r]].value, cache[level[r]].asOf)
      /\ cache[level[r]].expires <= cache[level[r]].asOf + Budget[level[r]]
  BY <1>1 DEF Hit, Live, IInv, TypeOK, CachedOnce
<1>3. /\ cache[level[r]].value \in Versions \cup {Empty} /\ cache[level[r]].asOf \in Nat
      /\ cache[level[r]].expires \in Nat /\ now \in Nat /\ Budget[level[r]] \in Nat
  BY <1>1, <1>2, LayerBounds DEF Entries, IInv, TypeOK
<1> QED BY <1>1, <1>2, <1>3 DEF Hit

LEMMA HitEffect ==
    ASSUME IInv, NEW r \in Readers, Hit(r)
    PROVE  /\ cache' = cache /\ level[r] \in Layers /\ cache[level[r]] # None
           /\ \/ pc'[r] = "idle"
              \/ level'[r] = level[r] + 1 /\ hand'[r].value = cache[level[r]].value
           /\ \A x \in Readers \ {r} :
                 pc'[x] = pc[x] /\ level'[x] = level[x] /\ hand'[x] = hand[x]
           /\ UNCHANGED <<db, wpc, quiet, clean>>
<1>1. cache' = cache /\ level[r] \in Layers /\ cache[level[r]] # None
  BY HitGot DEF Hit, AfterHit, Live
<1> DEFINE v == cache[level[r]].value
           a == cache[level[r]].asOf
           l == level[r]
<1>2. TypeOK /\ l \in 0 .. N /\ v \in Versions \cup {Empty} /\ a \in Nat /\ Got(r, l, v, a)
  BY HitGot DEF IInv
<1> HIDE DEF v, a, l
<1>3. /\ \/ pc'[r] = "idle"
         \/ level'[r] = l + 1 /\ hand'[r].value = v
      /\ \A x \in Readers \ {r} :
            pc'[x] = pc[x] /\ level'[x] = level[x] /\ hand'[x] = hand[x]
      /\ UNCHANGED <<db, wpc, quiet, clean>>
  BY <1>2, GotEffect
<1> QED BY <1>1, <1>3 DEF v, l

LEMMA ReadEffect ==
    ASSUME IInv, NEW r \in Readers, Read(r)
    PROVE  /\ cache' = cache /\ now \in Nat
           /\ \/ pc'[r] = "idle"
              \/ /\ 0 < top[r] /\ pc'[r] = "up" /\ level'[r] = 1 /\ top'[r] = top[r]
                 /\ hand'[r].value = db /\ hand'[r].asOf = now /\ since'[r] = now
           /\ \A x \in Readers \ {r} :
                 /\ pc'[x] = pc[x] /\ level'[x] = level[x] /\ top'[x] = top[x]
                 /\ hand'[x] = hand[x] /\ since'[x] = since[x]
           /\ UNCHANGED <<now, db, superseded, wpc, quiet, clean>>
<1>1. cache' = cache /\ Got(r, 0, db, now)
  BY DEF Read
<1>2. TypeOK /\ now \in Nat /\ 0 \in 0 .. N /\ db \in Versions \cup {Empty}
  BY LayerBounds DEF IInv, TypeOK
<1> DEFINE i == 0
<1>3. i \in 0 .. N /\ Got(r, i, db, now)
  BY <1>1, <1>2
<1> HIDE DEF i
<1>4. /\ \/ pc'[r] = "idle"
         \/ /\ i < top[r] /\ pc'[r] = "up" /\ level'[r] = i + 1 /\ top'[r] = top[r]
            /\ hand'[r].value = db /\ hand'[r].asOf = now /\ since'[r] = now
      /\ \A x \in Readers \ {r} :
            /\ pc'[x] = pc[x] /\ level'[x] = level[x] /\ top'[x] = top[x]
            /\ hand'[x] = hand[x] /\ since'[x] = since[x]
      /\ UNCHANGED <<now, db, superseded, wpc, quiet, clean>>
  BY <1>2, <1>3, GotEffect
<1> QED BY <1>1, <1>2, <1>4 DEF i

LEMMA ReadFailsEffect ==
    ASSUME IInv, NEW r \in Readers, ReadFails(r)
    PROVE  /\ cache' = cache /\ now \in Nat
           /\ \/ pc'[r] = "idle"
              \/ /\ 1 < top[r] /\ pc'[r] = "up" /\ level'[r] = 2 /\ top'[r] = top[r]
                 /\ hand'[r].value = Empty /\ hand'[r].asOf = now /\ since'[r] = now
           /\ \A x \in Readers \ {r} :
                 /\ pc'[x] = pc[x] /\ level'[x] = level[x] /\ top'[x] = top[x]
                 /\ hand'[x] = hand[x] /\ since'[x] = since[x]
           /\ UNCHANGED <<now, db, superseded, wpc, quiet, clean>>
<1>1. cache' = cache /\ Got(r, 1, Empty, now)
  BY DEF ReadFails, FailedAt
<1>2. TypeOK /\ now \in Nat /\ 1 \in 0 .. N /\ Empty \in Versions \cup {Empty}
  BY LayerBounds DEF IInv, TypeOK
<1> DEFINE i == 1
<1>3. i \in 0 .. N /\ Got(r, i, Empty, now)
  BY <1>1, <1>2
<1> HIDE DEF i
<1>4. /\ \/ pc'[r] = "idle"
         \/ /\ i < top[r] /\ pc'[r] = "up" /\ level'[r] = i + 1 /\ top'[r] = top[r]
            /\ hand'[r].value = Empty /\ hand'[r].asOf = now /\ since'[r] = now
      /\ \A x \in Readers \ {r} :
            /\ pc'[x] = pc[x] /\ level'[x] = level[x] /\ top'[x] = top[x]
            /\ hand'[x] = hand[x] /\ since'[x] = since[x]
      /\ UNCHANGED <<now, db, superseded, wpc, quiet, clean>>
  BY <1>2, <1>3, GotEffect
<1> QED BY <1>1, <1>2, <1>4 DEF i

-----------------------------------------------------------------------------
(* Types                                                                   *)

LEMMA TypeStep ==
    IInv /\ [Next]_vars => TypeOK'
<1> SUFFICES ASSUME IInv, [Next]_vars PROVE TypeOK'
  OBVIOUS
<1> USE LayerBounds DEF IInv, TypeOK, Layers, readerVars, writerVars
<1>1. CASE UNCHANGED vars
  BY <1>1 DEF vars
<1>2. ASSUME NEW r \in Readers, NEW i \in Layers, Ask(r, i) PROVE TypeOK'
  BY <1>2 DEF Ask
<1>3. ASSUME NEW r \in Readers, Hit(r) PROVE TypeOK'
  <2>1. ReaderTypes' /\ UNCHANGED <<now, db, superseded, wpc, quiet, clean>>
    BY <1>3, HitGot, GotEffect
  <2> QED BY <1>3, <2>1 DEF Hit, AfterHit, ReaderTypes
<1>4. ASSUME NEW r \in Readers, Miss(r) PROVE TypeOK'
  <2>1. level' \in [Readers -> 0 .. N]
    BY <1>4 DEF Miss
  <2> QED BY <1>4, <2>1 DEF Miss
<1>5. ASSUME NEW r \in Readers, Read(r) PROVE TypeOK'
  <2>1. ReaderTypes' /\ UNCHANGED <<now, db, superseded, wpc, quiet, clean>>
    BY <1>5, GotEffect DEF Read
  <2> QED BY <1>5, <2>1 DEF Read, ReaderTypes
<1>6. ASSUME NEW r \in Readers, ReadFails(r) PROVE TypeOK'
  <2>1. ReaderTypes' /\ UNCHANGED <<now, db, superseded, wpc, quiet, clean>>
    <3>1. 1 \in 0 .. N /\ Empty \in Versions \cup {Empty} /\ now \in Nat /\ Got(r, 1, Empty, now)
      BY <1>6 DEF ReadFails, FailedAt
    <3> QED BY <3>1, GotEffect
  <2> QED BY <1>6, <2>1 DEF ReadFails, ReaderTypes
<1>7. ASSUME NEW r \in Readers, ReadRaises(r) PROVE TypeOK'
  BY <1>7, LeavesEffect DEF ReadRaises, ReaderTypes
<1>8. ASSUME NEW r \in Readers, Fill(r) PROVE TypeOK'
  <2>1. level[r] \in Layers /\ level[r] <= top[r] /\ (level[r] = 1 => hand[r].value \in Versions)
    BY <1>8 DEF Fill, CarriedOnce
  <2>2. [value |-> hand[r].value, asOf |-> hand[r].asOf, expires |-> now + TTL[level[r]]] \in Entries
    BY <2>1 DEF Answers, Entries
  <2>3. cache' \in [Layers -> Entries \cup {None}] /\ (cache'[1] # None => cache'[1].value \in Versions)
    BY <1>8, <2>1, <2>2 DEF Fill, Filled
  <2>4. ReaderTypes'
    <3>1. CASE level[r] >= top[r]
      BY <1>8, <3>1, LeavesEffect DEF Fill
    <3>2. CASE level[r] < top[r]
      <4>1. top[r] \in 1 .. N /\ level[r] + 1 \in 0 .. N
        BY <3>2
      <4>2. level' = [level EXCEPT ![r] = level[r] + 1] /\ UNCHANGED <<pc, top, hand, since>>
        BY <1>8, <3>2 DEF Fill
      <4> QED BY <4>1, <4>2 DEF ReaderTypes
    <3> QED BY <2>1, <3>1, <3>2
  <2> QED BY <1>8, <2>3, <2>4 DEF Fill, ReaderTypes
<1>9. ASSUME NEW i \in Layers, Evict(i) PROVE TypeOK'
  BY <1>9 DEF Evict
<1>10. ASSUME NEW w \in Writers, Commit(w) PROVE TypeOK'
  <2>1. db + 1 \in Versions /\ superseded' \in [Versions -> Nat]
    BY <1>10 DEF Commit, Committed, Versions
  <2>2. quiet' \in [Writers -> BOOLEAN]
    BY <1>10 DEF Commit, ReadersIdle
  <2> QED BY <1>10, <2>1, <2>2 DEF Commit, Committed
<1>11. ASSUME NEW w \in Writers, CommitUnreported(w) PROVE TypeOK'
  <2>1. db + 1 \in Versions /\ superseded' \in [Versions -> Nat]
    BY <1>11 DEF CommitUnreported, Committed, Versions
  <2>2. quiet' \in [Writers -> BOOLEAN]
    BY <1>11 DEF CommitUnreported, ReadersIdle
  <2> QED BY <1>11, <2>1, <2>2 DEF CommitUnreported, Committed
<1>12. ASSUME NEW w \in Writers, ClearQueries(w) PROVE TypeOK'
  BY <1>12 DEF ClearQueries, FirstCleared
<1>13. ASSUME NEW w \in Writers, ClearRepo(w) PROVE TypeOK'
  BY <1>13 DEF ClearRepo, FirstCleared, ReadersIdle
<1>14. ASSUME Tick PROVE TypeOK'
  BY <1>14 DEF Tick
<1> QED BY <1>1, <1>2, <1>3, <1>4, <1>5, <1>6, <1>7, <1>8, <1>9, <1>10,
           <1>11, <1>12, <1>13, <1>14 DEF Next

-----------------------------------------------------------------------------
(* Readers work below the layer they asked                                 *)

LEMMA StaysLowStep ==
    IInv /\ [Next]_vars => StaysLow'
<1> SUFFICES ASSUME IInv, [Next]_vars PROVE StaysLow'
  OBVIOUS
<1> USE LayerBounds DEF IInv, TypeOK, StaysLow, Layers, readerVars, writerVars
<1>1. CASE UNCHANGED vars
  BY <1>1 DEF vars
<1>2. ASSUME NEW r \in Readers, NEW i \in Layers, Ask(r, i) PROVE StaysLow'
  BY <1>2 DEF Ask
<1>3. ASSUME NEW r \in Readers, Hit(r) PROVE StaysLow'
  BY <1>3 DEF Hit, Got, Leaves
<1>4. ASSUME NEW r \in Readers, Miss(r) PROVE StaysLow'
  BY <1>4 DEF Miss
<1>5. ASSUME NEW r \in Readers, Read(r) PROVE StaysLow'
  BY <1>5 DEF Read, Got, Leaves
<1>6. ASSUME NEW r \in Readers, ReadFails(r) PROVE StaysLow'
  BY <1>6 DEF ReadFails, Got, Leaves
<1>7. ASSUME NEW r \in Readers, ReadRaises(r) PROVE StaysLow'
  BY <1>7 DEF ReadRaises, Leaves
<1>8. ASSUME NEW r \in Readers, Fill(r) PROVE StaysLow'
  BY <1>8 DEF Fill, Leaves
<1>9. ASSUME NEW i \in Layers, Evict(i) PROVE StaysLow'
  BY <1>9 DEF Evict
<1>10. ASSUME NEW w \in Writers, Commit(w) PROVE StaysLow'
  BY <1>10 DEF Commit
<1>11. ASSUME NEW w \in Writers, CommitUnreported(w) PROVE StaysLow'
  BY <1>11 DEF CommitUnreported
<1>12. ASSUME NEW w \in Writers, ClearQueries(w) PROVE StaysLow'
  BY <1>12 DEF ClearQueries
<1>13. ASSUME NEW w \in Writers, ClearRepo(w) PROVE StaysLow'
  BY <1>13 DEF ClearRepo
<1>14. ASSUME Tick PROVE StaysLow'
  BY <1>14 DEF Tick
<1> QED BY <1>1, <1>2, <1>3, <1>4, <1>5, <1>6, <1>7, <1>8, <1>9, <1>10,
           <1>11, <1>12, <1>13, <1>14 DEF Next

\* A commit replaces the stored version now: what was genuine stays genuine.
LEMMA CommitKeepsGenuine ==
    ASSUME TypeOK, db < MaxVersion, db' = db + 1, superseded' = [superseded EXCEPT ![db] = now],
           now' = now, NEW v, NEW asOf \in Nat, Genuine(v, asOf)
    PROVE  Genuine(v, asOf)'
<1>1. db \in Versions /\ db \in Nat /\ now \in Nat
  BY LayerBounds DEF TypeOK
<1>2. superseded'[db] = now /\ \A u \in Versions : u # db => superseded'[u] = superseded[u]
  BY <1>1 DEF TypeOK
<1>3. ASSUME v \in Versions PROVE v <= db' /\ (v = db' \/ asOf <= superseded'[v])
  <2>1. v \in Nat /\ v <= db /\ (v = db \/ asOf <= superseded[v]) /\ asOf <= now
    BY <1>3, LayerBounds DEF Genuine
  <2> QED BY <2>1, <1>1, <1>2, <1>3
<1> QED BY <1>1, <1>3 DEF Genuine

-----------------------------------------------------------------------------
(* Entries                                                                 *)

LEMMA CachedStep ==
    IInv /\ [Next]_vars => CachedOnce'
<1> SUFFICES ASSUME IInv, [Next]_vars PROVE CachedOnce'
  OBVIOUS
<1> USE LayerBounds DEF IInv, TypeOK, CachedOnce, Genuine, readerVars, writerVars
<1>1. CASE UNCHANGED vars
  BY <1>1 DEF vars
<1>2. ASSUME NEW r \in Readers, NEW i \in Layers, Ask(r, i) PROVE CachedOnce'
  BY <1>2 DEF Ask
<1>3. ASSUME NEW r \in Readers, Hit(r) PROVE CachedOnce'
  BY <1>3 DEF Hit, Got, AfterHit
<1>4. ASSUME NEW r \in Readers, Miss(r) PROVE CachedOnce'
  BY <1>4 DEF Miss
<1>5. ASSUME NEW r \in Readers, Read(r) PROVE CachedOnce'
  BY <1>5 DEF Read, Got
<1>6. ASSUME NEW r \in Readers, ReadFails(r) PROVE CachedOnce'
  BY <1>6 DEF ReadFails, Got
<1>7. ASSUME NEW r \in Readers, ReadRaises(r) PROVE CachedOnce'
  BY <1>7 DEF ReadRaises
<1>8. ASSUME NEW r \in Readers, Fill(r) PROVE CachedOnce'
  <2> DEFINE l == level[r]
             e == [value |-> hand[r].value, asOf |-> hand[r].asOf, expires |-> now + TTL[l]]
  <2>1. /\ l \in Layers /\ Genuine(hand[r].value, hand[r].asOf) /\ hand[r] \in Answers
        /\ now <= since[r] + MaxLoad
    BY <1>8 DEF Fill, CarriedOnce, Layers
  <2>2. PICK j \in 0 .. l - 1 : since[r] <= hand[r].asOf + Budget[j]
    BY <1>8 DEF Fill, CarriedOnce
  <2>3. Budget[l] >= Budget[j] + MaxLoad + TTL[l] /\ Budget[j] \in Nat /\ TTL[l] \in Nat /\ Budget[l] \in Nat
    BY <2>1, <2>2 DEF Layers
  <2>4. hand[r].asOf \in Nat /\ since[r] \in Nat /\ now \in Nat
    BY <2>1 DEF Answers
  <2>5. now + TTL[l] <= hand[r].asOf + Budget[l]
    BY <2>1, <2>2, <2>3, <2>4
  <2>6. UNCHANGED <<now, db, superseded>> /\ (cache' = cache \/ cache' = [cache EXCEPT ![l] = e])
    BY <1>8 DEF Fill, Filled
  <2> QED BY <2>1, <2>5, <2>6
<1>9. ASSUME NEW i \in Layers, Evict(i) PROVE CachedOnce'
  BY <1>9 DEF Evict
<1>10. ASSUME NEW w \in Writers, Commit(w) PROVE CachedOnce'
  <2>1. /\ db < MaxVersion /\ db' = db + 1 /\ superseded' = [superseded EXCEPT ![db] = now]
        /\ now' = now /\ cache' = cache
    BY <1>10 DEF Commit, Committed
  <2> HIDE DEF Genuine
  <2>2. ASSUME NEW i \in Layers, cache[i] # None
        PROVE  Genuine(cache[i].value, cache[i].asOf)'
    <3>1. cache[i].asOf \in Nat /\ Genuine(cache[i].value, cache[i].asOf)
      BY <2>2 DEF Entries
    <3>2. Genuine(cache[i].value, cache[i].asOf)'
      BY <3>1, <2>1, CommitKeepsGenuine
    <3> QED BY <3>2
  <2> QED BY <2>1, <2>2
<1>11. ASSUME NEW w \in Writers, CommitUnreported(w) PROVE CachedOnce'
  <2>1. /\ db < MaxVersion /\ db' = db + 1 /\ superseded' = [superseded EXCEPT ![db] = now]
        /\ now' = now /\ cache' = cache
    BY <1>11 DEF CommitUnreported, Committed
  <2> HIDE DEF Genuine
  <2>2. ASSUME NEW i \in Layers, cache[i] # None
        PROVE  Genuine(cache[i].value, cache[i].asOf)'
    <3>1. cache[i].asOf \in Nat /\ Genuine(cache[i].value, cache[i].asOf)
      BY <2>2 DEF Entries
    <3>2. Genuine(cache[i].value, cache[i].asOf)'
      BY <3>1, <2>1, CommitKeepsGenuine
    <3> QED BY <3>2
  <2> QED BY <2>1, <2>2
<1>12. ASSUME NEW w \in Writers, ClearQueries(w) PROVE CachedOnce'
  BY <1>12 DEF ClearQueries
<1>13. ASSUME NEW w \in Writers, ClearRepo(w) PROVE CachedOnce'
  BY <1>13 DEF ClearRepo
<1>14. ASSUME Tick PROVE CachedOnce'
  <2>1. \A i \in Layers : cache[i] # None => cache[i].asOf \in Nat
    BY DEF Entries
  <2> QED BY <1>14, <2>1 DEF Tick
<1> QED BY <1>1, <1>2, <1>3, <1>4, <1>5, <1>6, <1>7, <1>8, <1>9, <1>10,
           <1>11, <1>12, <1>13, <1>14 DEF Next

-----------------------------------------------------------------------------
(* Answers on their way up                                                 *)

LEMMA CarriedStep ==
    IInv /\ [Next]_vars => CarriedOnce'
<1> SUFFICES ASSUME IInv, [Next]_vars PROVE CarriedOnce'
  OBVIOUS
<1> USE LayerBounds DEF IInv, TypeOK, CarriedOnce, Layers, readerVars, writerVars
<1>1. CASE UNCHANGED vars
  BY <1>1 DEF vars, Genuine
<1>2. ASSUME NEW r \in Readers, NEW i \in Layers, Ask(r, i) PROVE CarriedOnce'
  BY <1>2 DEF Ask, Genuine
<1>3. ASSUME NEW r \in Readers, Hit(r) PROVE CarriedOnce'
  <2>1. /\ level[r] \in 0 .. N /\ level[r] \in Layers
        /\ cache[level[r]].value \in Versions \cup {Empty} /\ cache[level[r]].asOf \in Nat
        /\ Got(r, level[r], cache[level[r]].value, cache[level[r]].asOf)
        /\ Genuine(cache[level[r]].value, cache[level[r]].asOf)
        /\ now <= cache[level[r]].asOf + Budget[level[r]]
    BY <1>3, HitGot
  <2>2. /\ \/ pc'[r] = "idle"
           \/ /\ level[r] < top[r] /\ pc'[r] = "up" /\ level'[r] = level[r] + 1 /\ top'[r] = top[r]
              /\ hand'[r].value = cache[level[r]].value /\ hand'[r].asOf = cache[level[r]].asOf /\ since'[r] = now
        /\ \A x \in Readers \ {r} :
              /\ pc'[x] = pc[x] /\ level'[x] = level[x] /\ top'[x] = top[x]
              /\ hand'[x] = hand[x] /\ since'[x] = since[x]
        /\ UNCHANGED <<now, db, superseded>>
    BY <2>1, GotEffect
  <2>3. level[r] \in 0 .. level[r] + 1 - 1 /\ level[r] + 1 >= 1 /\ top[r] \in Nat
    BY <2>1
  <2>4. ASSUME pc'[r] = "up" PROVE Genuine(hand[r].value, hand[r].asOf)'
    BY <2>1, <2>2, <2>4 DEF Genuine
  <2>5. ASSUME NEW x \in Readers, x # r, pc[x] = "up"
        PROVE  Genuine(hand[x].value, hand[x].asOf)' <=> Genuine(hand[x].value, hand[x].asOf)
    BY <2>2, <2>5 DEF Genuine
  <2> SUFFICES ASSUME NEW x \in Readers, pc'[x] = "up"
               PROVE  /\ level'[x] \in 1 .. top'[x]
                      /\ level'[x] = 1 => hand'[x].value \in Versions
                      /\ Genuine(hand[x].value, hand[x].asOf)'
                      /\ since'[x] <= now' /\ now' <= since'[x] + MaxLoad
                      /\ \E j \in 0 .. level'[x] - 1 : since'[x] <= hand'[x].asOf + Budget[j]
    BY <2>2
  <2>6. CASE x = r
    BY SMTT(30), <2>1, <2>2, <2>3, <2>4, <2>6
  <2>7. CASE x # r
    BY ZenonT(60), <2>2, <2>5, <2>7
  <2> QED BY <2>6, <2>7
<1>4. ASSUME NEW r \in Readers, Miss(r) PROVE CarriedOnce'
  BY <1>4 DEF Miss, Genuine
<1>5. ASSUME NEW r \in Readers, Read(r) PROVE CarriedOnce'
  <2>1. /\ now \in Nat
        /\ \/ pc'[r] = "idle"
           \/ /\ 0 < top[r] /\ pc'[r] = "up" /\ level'[r] = 1 /\ top'[r] = top[r]
              /\ hand'[r].value = db /\ hand'[r].asOf = now /\ since'[r] = now
        /\ \A x \in Readers \ {r} :
              /\ pc'[x] = pc[x] /\ level'[x] = level[x] /\ top'[x] = top[x]
              /\ hand'[x] = hand[x] /\ since'[x] = since[x]
        /\ UNCHANGED <<now, db, superseded>>
    BY <1>5, ReadEffect
  <2> SUFFICES ASSUME NEW x \in Readers, pc'[x] = "up"
               PROVE  /\ level'[x] \in 1 .. top'[x]
                      /\ level'[x] = 1 => hand'[x].value \in Versions
                      /\ Genuine(hand[x].value, hand[x].asOf)'
                      /\ since'[x] <= now' /\ now' <= since'[x] + MaxLoad
                      /\ \E j \in 0 .. level'[x] - 1 : since'[x] <= hand'[x].asOf + Budget[j]
    BY <2>1
  <2>2. CASE x = r
    <3>1. /\ 0 < top[r] /\ level'[x] = 1 /\ top'[x] = top[r] /\ top[r] \in Nat /\ db' = db
          /\ hand'[x].value = db /\ hand'[x].asOf = now /\ since'[x] = now /\ now' = now
      BY <2>1, <2>2
    <3>2. Genuine(hand[x].value, hand[x].asOf)'
      BY <3>1, <2>1 DEF Genuine
    <3>3. 0 \in 0 .. level'[x] - 1 /\ since'[x] <= hand'[x].asOf + Budget[0]
      BY <3>1, <2>1
    <3> QED BY <3>1, <3>2, <3>3, <2>1
  <2>3. CASE x # r
    <3>1. /\ pc[x] = "up" /\ level'[x] = level[x] /\ top'[x] = top[x] /\ hand'[x] = hand[x]
          /\ since'[x] = since[x] /\ now' = now
      BY <2>1, <2>3
    <3>2. Genuine(hand[x].value, hand[x].asOf)'
      BY <3>1, <2>1 DEF Genuine
    <3> QED BY <3>1, <3>2
  <2> QED BY <2>2, <2>3
<1>6. ASSUME NEW r \in Readers, ReadFails(r) PROVE CarriedOnce'
  <2>1. /\ now \in Nat
        /\ \/ pc'[r] = "idle"
           \/ /\ 1 < top[r] /\ pc'[r] = "up" /\ level'[r] = 2 /\ top'[r] = top[r]
              /\ hand'[r].value = Empty /\ hand'[r].asOf = now /\ since'[r] = now
        /\ \A x \in Readers \ {r} :
              /\ pc'[x] = pc[x] /\ level'[x] = level[x] /\ top'[x] = top[x]
              /\ hand'[x] = hand[x] /\ since'[x] = since[x]
        /\ UNCHANGED <<now, db, superseded>>
    BY <1>6, ReadFailsEffect
  <2> SUFFICES ASSUME NEW x \in Readers, pc'[x] = "up"
               PROVE  /\ level'[x] \in 1 .. top'[x]
                      /\ level'[x] = 1 => hand'[x].value \in Versions
                      /\ Genuine(hand[x].value, hand[x].asOf)'
                      /\ since'[x] <= now' /\ now' <= since'[x] + MaxLoad
                      /\ \E j \in 0 .. level'[x] - 1 : since'[x] <= hand'[x].asOf + Budget[j]
    BY <2>1
  <2>2. CASE x = r
    <3>1. /\ 1 < top[r] /\ level'[x] = 2 /\ top'[x] = top[r] /\ top[r] \in Nat /\ db' = db
          /\ hand'[x].value = Empty /\ hand'[x].asOf = now /\ since'[x] = now /\ now' = now
      BY <2>1, <2>2
    <3>2. Genuine(hand[x].value, hand[x].asOf)'
      BY <3>1, <2>1 DEF Genuine
    <3>3. 0 \in 0 .. level'[x] - 1 /\ since'[x] <= hand'[x].asOf + Budget[0]
      BY <3>1, <2>1
    <3> QED BY <3>1, <3>2, <3>3, <2>1
  <2>3. CASE x # r
    <3>1. /\ pc[x] = "up" /\ level'[x] = level[x] /\ top'[x] = top[x] /\ hand'[x] = hand[x]
          /\ since'[x] = since[x] /\ now' = now
      BY <2>1, <2>3
    <3>2. Genuine(hand[x].value, hand[x].asOf)'
      BY <3>1, <2>1 DEF Genuine
    <3> QED BY <3>1, <3>2
  <2> QED BY <2>2, <2>3
<1>7. ASSUME NEW r \in Readers, ReadRaises(r) PROVE CarriedOnce'
  BY <1>7 DEF ReadRaises, Leaves, Genuine
<1>8. ASSUME NEW r \in Readers, Fill(r) PROVE CarriedOnce'
  <2>1. CASE level[r] >= top[r]
    BY ZenonT(60), <1>8, <2>1 DEF Fill, Leaves, Genuine
  <2>2. CASE level[r] < top[r]
    <3>1. /\ level' = [level EXCEPT ![r] = level[r] + 1]
          /\ UNCHANGED <<pc, top, hand, since, now, db, superseded>>
      BY <1>8, <2>2 DEF Fill
    <3>2. level[r] + 1 \in 1 .. top[r] /\ level[r] + 1 # 1
          /\ \A j \in 0 .. level[r] - 1 : j \in 0 .. (level[r] + 1) - 1
      BY <1>8, <2>2 DEF Fill
    <3> QED BY <1>8, <3>1, <3>2 DEF Fill, Genuine
  <2> QED BY <2>1, <2>2
<1>9. ASSUME NEW i \in Layers, Evict(i) PROVE CarriedOnce'
  BY <1>9 DEF Evict, Genuine
<1>10. ASSUME NEW w \in Writers, Commit(w) PROVE CarriedOnce'
  <2>1. /\ db < MaxVersion /\ db' = db + 1 /\ superseded' = [superseded EXCEPT ![db] = now]
        /\ now' = now /\ UNCHANGED <<pc, level, top, hand, since>>
    BY <1>10 DEF Commit, Committed
  <2>2. ASSUME NEW r \in Readers, pc[r] = "up"
        PROVE  Genuine(hand[r].value, hand[r].asOf)'
    <3>1. hand[r].asOf \in Nat /\ Genuine(hand[r].value, hand[r].asOf)
      BY <2>2 DEF Answers
    <3> QED BY <3>1, <2>1, CommitKeepsGenuine
  <2> QED BY <2>1, <2>2
<1>11. ASSUME NEW w \in Writers, CommitUnreported(w) PROVE CarriedOnce'
  <2>1. /\ db < MaxVersion /\ db' = db + 1 /\ superseded' = [superseded EXCEPT ![db] = now]
        /\ now' = now /\ UNCHANGED <<pc, level, top, hand, since>>
    BY <1>11 DEF CommitUnreported, Committed
  <2>2. ASSUME NEW r \in Readers, pc[r] = "up"
        PROVE  Genuine(hand[r].value, hand[r].asOf)'
    <3>1. hand[r].asOf \in Nat /\ Genuine(hand[r].value, hand[r].asOf)
      BY <2>2 DEF Answers
    <3> QED BY <3>1, <2>1, CommitKeepsGenuine
  <2> QED BY <2>1, <2>2
<1>12. ASSUME NEW w \in Writers, ClearQueries(w) PROVE CarriedOnce'
  BY <1>12 DEF ClearQueries, Genuine
<1>13. ASSUME NEW w \in Writers, ClearRepo(w) PROVE CarriedOnce'
  BY <1>13 DEF ClearRepo, Genuine
<1>14. ASSUME Tick PROVE CarriedOnce'
  <2>1. \A r \in Readers : hand[r].asOf \in Nat
    BY DEF Answers
  <2> QED BY <1>14, <2>1 DEF Tick, Genuine
<1> QED BY <1>1, <1>2, <1>3, <1>4, <1>5, <1>6, <1>7, <1>8, <1>9, <1>10,
           <1>11, <1>12, <1>13, <1>14 DEF Next

-----------------------------------------------------------------------------
(* Writes that nobody races                                                *)

LEMMA QuietStep ==
    IInv /\ [Next]_vars => QuietWrite'
<1> SUFFICES ASSUME IInv, [Next]_vars PROVE QuietWrite'
  OBVIOUS
<1> USE LayerBounds DEF IInv, TypeOK, QuietWrite, Current, Layers, readerVars, writerVars
<1>1. CASE UNCHANGED vars
  BY <1>1 DEF vars
<1>2. ASSUME NEW r \in Readers, NEW i \in Layers, Ask(r, i) PROVE QuietWrite'
  BY <1>2 DEF Ask
<1>3. ASSUME NEW r \in Readers, Hit(r) PROVE QuietWrite'
  <2>1. /\ cache' = cache /\ UNCHANGED <<db, wpc, quiet, clean>>
        /\ \A x \in Readers \ {r} : pc'[x] = pc[x] /\ level'[x] = level[x] /\ hand'[x] = hand[x]
        /\ level[r] \in Layers /\ cache[level[r]] # None
        /\ pc'[r] = "idle" \/ (level'[r] = level[r] + 1 /\ hand'[r].value = cache[level[r]].value)
    BY <1>3, HitEffect
  <2>2. ASSUME clean, NEW x \in Readers, pc'[x] = "up" PROVE hand'[x].value \in {db, Empty}
    <3>1. CASE x = r
      BY <2>1, <2>2, <3>1
    <3>2. CASE x # r
      BY <2>1, <2>2, <3>2
    <3> QED BY <3>1, <3>2
  <2>3. ASSUME NEW w \in Writers, quiet[w], wpc[w] # "idle", NEW x \in Readers, pc'[x] = "up", level'[x] = 1
        PROVE  hand'[x].value \in {db, Empty}
    <3>1. CASE x = r
      BY <2>1, <2>3, <3>1
    <3>2. CASE x # r
      BY <2>1, <2>3, <3>2
    <3> QED BY <3>1, <3>2
  <2> QED BY <2>1, <2>2, <2>3
<1>4. ASSUME NEW r \in Readers, Miss(r) PROVE QuietWrite'
  BY <1>4 DEF Miss
<1>5. ASSUME NEW r \in Readers, Read(r) PROVE QuietWrite'
  <2>1. /\ cache' = cache /\ UNCHANGED <<db, wpc, quiet, clean>>
        /\ \A x \in Readers \ {r} : pc'[x] = pc[x] /\ level'[x] = level[x] /\ hand'[x] = hand[x]
        /\ pc'[r] = "idle" \/ hand'[r].value = db
    BY <1>5, ReadEffect
  <2>2. ASSUME clean, NEW x \in Readers, pc'[x] = "up" PROVE hand'[x].value \in {db, Empty}
    <3>1. CASE x = r
      BY <2>1, <2>2, <3>1
    <3>2. CASE x # r
      BY <2>1, <2>2, <3>2
    <3> QED BY <3>1, <3>2
  <2>3. ASSUME NEW w \in Writers, quiet[w], wpc[w] # "idle", NEW x \in Readers, pc'[x] = "up", level'[x] = 1
        PROVE  hand'[x].value \in {db, Empty}
    <3>1. CASE x = r
      BY <2>1, <2>3, <3>1
    <3>2. CASE x # r
      BY <2>1, <2>3, <3>2
    <3> QED BY <3>1, <3>2
  <2> QED BY <2>1, <2>2, <2>3
<1>6. ASSUME NEW r \in Readers, ReadFails(r) PROVE QuietWrite'
  <2>1. /\ cache' = cache /\ UNCHANGED <<db, wpc, quiet, clean>>
        /\ \A x \in Readers \ {r} : pc'[x] = pc[x] /\ level'[x] = level[x] /\ hand'[x] = hand[x]
        /\ pc'[r] = "idle" \/ hand'[r].value = Empty
    BY <1>6, ReadFailsEffect
  <2>2. ASSUME clean, NEW x \in Readers, pc'[x] = "up" PROVE hand'[x].value \in {db, Empty}
    <3>1. CASE x = r
      BY <2>1, <2>2, <3>1
    <3>2. CASE x # r
      BY <2>1, <2>2, <3>2
    <3> QED BY <3>1, <3>2
  <2>3. ASSUME NEW w \in Writers, quiet[w], wpc[w] # "idle", NEW x \in Readers, pc'[x] = "up", level'[x] = 1
        PROVE  hand'[x].value \in {db, Empty}
    <3>1. CASE x = r
      BY <2>1, <2>3, <3>1
    <3>2. CASE x # r
      BY <2>1, <2>3, <3>2
    <3> QED BY <3>1, <3>2
  <2> QED BY <2>1, <2>2, <2>3
<1>7. ASSUME NEW r \in Readers, ReadRaises(r) PROVE QuietWrite'
  BY ZenonT(60), <1>7, LeavesEffect DEF ReadRaises
<1>8. ASSUME NEW r \in Readers, Fill(r) PROVE QuietWrite'
  <2> DEFINE e == [value |-> hand[r].value, asOf |-> hand[r].asOf, expires |-> now + TTL[level[r]]]
  <2>1. /\ level[r] \in Layers /\ UNCHANGED <<db, wpc, quiet, clean>>
        /\ cache' = cache \/ cache' = [cache EXCEPT ![level[r]] = e]
        /\ \A x \in Readers : pc'[x] = "up" => pc[x] = "up" /\ hand'[x] = hand[x] /\ (level'[x] = 1 => level[x] = 1)
    BY SMTT(30), <1>8 DEF Fill, Filled, Leaves, CarriedOnce
  <2>3. \A i \in Layers : \/ cache'[i] = cache[i]
                          \/ i = level[r] /\ cache'[i].value = hand[r].value
    BY <2>1
  <2>4. pc[r] = "up"
    BY <1>8 DEF Fill
  <2> QED BY <2>1, <2>3, <2>4
<1>9. ASSUME NEW i \in Layers, Evict(i) PROVE QuietWrite'
  BY <1>9 DEF Evict
<1>10. ASSUME NEW w \in Writers, Commit(w) PROVE QuietWrite'
  BY <1>10 DEF Commit, Committed, ReadersIdle
<1>11. ASSUME NEW w \in Writers, CommitUnreported(w) PROVE QuietWrite'
  BY <1>11 DEF CommitUnreported, Committed, ReadersIdle
<1>12. ASSUME NEW w \in Writers, ClearQueries(w) PROVE QuietWrite'
  BY <1>12 DEF ClearQueries, FirstCleared
<1>13. ASSUME NEW w \in Writers, ClearRepo(w) PROVE QuietWrite'
  BY <1>13 DEF ClearRepo, FirstCleared, ReadersIdle
<1>14. ASSUME Tick PROVE QuietWrite'
  BY <1>14 DEF Tick
<1> QED BY <1>1, <1>2, <1>3, <1>4, <1>5, <1>6, <1>7, <1>8, <1>9, <1>10,
           <1>11, <1>12, <1>13, <1>14 DEF Next

-----------------------------------------------------------------------------
(* The theorems                                                            *)

LEMMA InitIInv == Init => IInv
BY LayerBounds DEF Init, IInv, TypeOK, CachedOnce, CarriedOnce, StaysLow, QuietWrite,
   Current, Versions, Answers, Nothing, Layers

THEOREM Inductive == Spec => []IInv
<1>1. Init => IInv
  BY InitIInv
<1>2. IInv /\ [Next]_vars => IInv'
  BY TypeStep, CachedStep, CarriedStep, StaysLowStep, QuietStep DEF IInv
<1> QED BY <1>1, <1>2, PTL DEF Spec

\* Types; the query cache never holds the empty answer of a failed read.
THEOREM TypeCorrect == Spec => []TypeOK
BY Inductive, PTL DEF IInv

\* No layer serves a replaced value, or remembers a failed read, beyond its
\* budget, however many readers and writers race.
THEOREM StalenessIsBounded == Spec => []BoundedStaleness
<1>1. IInv => BoundedStaleness
  <2> SUFFICES ASSUME IInv, NEW i \in Layers, Live(i)
               PROVE  LET e == cache[i]
                      IN  IF e.value = Empty \/ e.value = db
                          THEN now < e.asOf + Budget[i] \/ e.value = db
                          ELSE now < superseded[e.value] + Budget[i]
    BY DEF BoundedStaleness
  <2>1. /\ cache[i] \in Entries /\ Genuine(cache[i].value, cache[i].asOf)
        /\ cache[i].expires <= cache[i].asOf + Budget[i] /\ now < cache[i].expires
    BY DEF IInv, TypeOK, CachedOnce, Live
  <2>2. cache[i].asOf \in Nat /\ cache[i].expires \in Nat /\ now \in Nat /\ Budget[i] \in Nat
    BY <2>1, LayerBounds DEF Entries, IInv, TypeOK
  <2>3. now < cache[i].asOf + Budget[i]
    BY <2>1, <2>2
  <2>4. ASSUME cache[i].value # Empty, cache[i].value # db
        PROVE  now < superseded[cache[i].value] + Budget[i]
    <3>1. cache[i].value \in Versions
      BY <2>1, <2>4 DEF Entries
    <3>2. superseded[cache[i].value] \in Nat
      BY <3>1 DEF IInv, TypeOK
    <3>3. cache[i].asOf <= superseded[cache[i].value]
      BY <3>1, <2>1, <2>4 DEF Genuine
    <3> QED BY <2>2, <2>3, <3>2, <3>3
  <2> QED BY <2>3, <2>4
<1> QED BY <1>1, Inductive, PTL

\* A completed write that no read raced is visible in every layer.
THEOREM QuietWritesAreVisible == Spec => []UnracedWriteVisible
<1>1. IInv => UnracedWriteVisible
  BY DEF IInv, QuietWrite, Current, UnracedWriteVisible, Live
<1> QED BY <1>1, Inductive, PTL

=============================================================================
