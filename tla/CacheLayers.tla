----------------------------- MODULE CacheLayers -----------------------------
(***************************************************************************)
(* The stack of read-through caches between a request and the database,   *)
(* seen from one question whose answer is one row of the database.         *)
(*                                                                         *)
(*   layer 1        the query cache of DatabricksSQLClient                 *)
(*   layers 2 .. N  the keys of the repository cache that answer it, each  *)
(*                  loading through the one below (get_security_policy_    *)
(*                  version over get_user_setting, for example)            *)
(*                                                                         *)
(* No lock is held while a value travels up: a thread looks up, misses,    *)
(* reads, and fills later, and a writer may commit and clear in between.   *)
(* Values are versions of the row; asOf and superseded are ghosts.         *)
(***************************************************************************)
EXTENDS Integers

CONSTANTS Readers,     \* threads that ask
          Writers,     \* threads that write the row
          N,           \* layers
          TTL,         \* TTL[i]: time to live in layer i; 0 disables it
          MaxLoad,     \* time between reading a value and storing it, at most
          Budget,      \* Budget[i]: how old an entry of layer i may get
          Empty,       \* the answer a failed read is turned into
          None,        \* no entry
          MaxVersion,  \* bound on the writes of a behaviour
          MaxTime      \* bound on the clock

Layers == 1 .. N

\* An entry is at worst MaxLoad plus its TTL older than the entry of any layer
\* below it that it was loaded from; layer 0 is the database, always current.
ASSUME CacheAssumption ==
    /\ N \in Nat \ {0}
    /\ TTL \in [Layers -> Nat]
    /\ MaxLoad \in Nat /\ MaxVersion \in Nat /\ MaxTime \in Nat
    /\ Budget \in [0 .. N -> Nat]
    /\ \A i \in Layers : \A j \in 0 .. i - 1 : Budget[i] >= Budget[j] + MaxLoad + TTL[i]
    /\ Empty \notin 0 .. MaxVersion
    /\ None \notin [value : (0 .. MaxVersion) \cup {Empty}, asOf : Nat, expires : Nat]

Versions == 0 .. MaxVersion
Answers == [value : Versions \cup {Empty}, asOf : Nat]
Nothing == [value |-> Empty, asOf |-> 0]
Entries == [value : Versions \cup {Empty}, asOf : Nat, expires : Nat]

VARIABLES
    now,         \* time.monotonic()
    db,          \* the version of the row in the database
    superseded,  \* ghost: when each older version was replaced
    cache,       \* cache[i]: the entry of layer i, or None
    pc,          \* a reader is "idle", goes "down" through misses or "up" filling
    level,       \* the layer a reader works on; 0 is the database
    top,         \* the layer a reader asked
    hand,        \* the answer a reader carries up
    since,       \* when it got hold of it
    wpc,         \* a writer is "idle", or is about to clear "first" or "rest"
    quiet,       \* ghost: no reader was under way when a writer's write, or any
                 \*        write since, reached the database
    clean        \* ghost: the last write was completed, and nobody raced it

vars == <<now, db, superseded, cache, pc, level, top, hand, since, wpc, quiet, clean>>
readerVars == <<pc, level, top, hand, since>>
writerVars == <<wpc, quiet, clean>>

Init ==
    /\ now = 0 /\ db = 0
    /\ superseded = [v \in Versions |-> 0]
    /\ cache = [i \in Layers |-> None]
    /\ pc = [r \in Readers |-> "idle"]
    /\ level = [r \in Readers |-> 0]
    /\ top = [r \in Readers |-> 1]
    /\ hand = [r \in Readers |-> Nothing]
    /\ since = [r \in Readers |-> 0]
    /\ wpc = [w \in Writers |-> "idle"]
    /\ quiet = [w \in Writers |-> FALSE]
    /\ clean = TRUE

-----------------------------------------------------------------------------
(* Readers                                                                 *)

Live(i) == cache[i] # None /\ now < cache[i].expires

Ask(r, i) ==
    /\ pc[r] = "idle"
    /\ pc' = [pc EXCEPT ![r] = "down"]
    /\ level' = [level EXCEPT ![r] = i]
    /\ top' = [top EXCEPT ![r] = i]
    /\ UNCHANGED <<now, db, superseded, cache, hand, since, writerVars>>

Leaves(r) ==
    /\ pc' = [pc EXCEPT ![r] = "idle"]
    /\ level' = [level EXCEPT ![r] = 0]
    /\ top' = [top EXCEPT ![r] = 1]
    /\ hand' = [hand EXCEPT ![r] = Nothing]
    /\ since' = [since EXCEPT ![r] = 0]

\* The reader has an answer from layer i: it returns it, or carries it up.
Got(r, i, v, asOf) ==
    /\ \/ i >= top[r] /\ Leaves(r)
       \/ /\ i < top[r]
          /\ pc' = [pc EXCEPT ![r] = "up"]
          /\ level' = [level EXCEPT ![r] = i + 1]
          /\ hand' = [hand EXCEPT ![r] = [value |-> v, asOf |-> asOf]]
          /\ since' = [since EXCEPT ![r] = now]
          /\ UNCHANGED top
    /\ UNCHANGED <<now, db, superseded, writerVars>>

\* What a hit leaves behind: recency changes, the expiry does not.
BadAfterHit(i) == [cache EXCEPT ![i].expires = now + TTL[i]]
AfterHit(i) == cache

Hit(r) ==
    /\ pc[r] = "down" /\ level[r] > 0
    /\ Live(level[r])
    /\ cache' = AfterHit(level[r])
    /\ Got(r, level[r], cache[level[r]].value, cache[level[r]].asOf)

\* An expired entry is dropped by the one who finds it.
Miss(r) ==
    /\ pc[r] = "down" /\ level[r] > 0
    /\ ~Live(level[r])
    /\ cache' = [cache EXCEPT ![level[r]] = None]
    /\ level' = [level EXCEPT ![r] = @ - 1]
    /\ UNCHANGED <<now, db, superseded, pc, top, hand, since, writerVars>>

Read(r) ==
    /\ pc[r] = "down" /\ level[r] = 0
    /\ Got(r, 0, db, now)
    /\ UNCHANGED cache

\* The query raises.  _query_or_empty, which sits above the query cache, turns
\* that into an empty answer; _probe_file lets it through.
BadFailedAt == 0
FailedAt == 1

ReadFails(r) ==
    /\ pc[r] = "down" /\ level[r] = 0
    /\ Got(r, FailedAt, Empty, now)
    /\ UNCHANGED cache

ReadRaises(r) ==
    /\ pc[r] = "down" /\ level[r] = 0
    /\ Leaves(r)
    /\ UNCHANGED <<now, db, superseded, cache, writerVars>>

\* set(): the TTL runs from now, whatever happened since the value was read.
Filled(r) ==
    IF TTL[level[r]] = 0
    THEN cache
    ELSE [cache EXCEPT ![level[r]] =
             [value |-> hand[r].value, asOf |-> hand[r].asOf, expires |-> now + TTL[level[r]]]]

Fill(r) ==
    /\ pc[r] = "up"
    /\ cache' = Filled(r)
    /\ IF level[r] >= top[r]
       THEN Leaves(r)
       ELSE level' = [level EXCEPT ![r] = @ + 1] /\ UNCHANGED <<pc, top, hand, since>>
    /\ UNCHANGED <<now, db, superseded, writerVars>>

\* Other keys push the entry out (_evict_lru), or expired ones are swept.
Evict(i) ==
    /\ cache[i] # None
    /\ cache' = [cache EXCEPT ![i] = None]
    /\ UNCHANGED <<now, db, superseded, readerVars, writerVars>>

-----------------------------------------------------------------------------
(* Writers: client.execute commits and clears the query cache, then        *)
(* _execute_file clears the repository cache.                              *)

ReadersIdle == \A r \in Readers : pc[r] = "idle"

Committed ==
    /\ db < MaxVersion
    /\ db' = db + 1
    /\ superseded' = [superseded EXCEPT ![db] = now]
    /\ clean' = FALSE

Commit(w) ==
    /\ wpc[w] = "idle"
    /\ Committed
    /\ wpc' = [wpc EXCEPT ![w] = "first"]
    /\ quiet' = [x \in Writers |-> IF x = w THEN ReadersIdle
                                   ELSE quiet[x] /\ ReadersIdle /\ wpc[x] # "rest"]
    /\ UNCHANGED <<now, cache, readerVars>>

\* The statement takes effect but the driver reports an error (the warehouse
\* answered too late): execute() raises and nothing is cleared.
CommitUnreported(w) ==
    /\ wpc[w] = "idle"
    /\ Committed
    /\ quiet' = [x \in Writers |-> quiet[x] /\ ReadersIdle /\ wpc[x] # "rest"]
    /\ UNCHANGED <<now, cache, readerVars, wpc>>

BadFirstCleared == Layers \ {1}
FirstCleared == {1}

ClearQueries(w) ==
    /\ wpc[w] = "first"
    /\ cache' = [i \in Layers |-> IF i \in FirstCleared THEN None ELSE cache[i]]
    /\ wpc' = [wpc EXCEPT ![w] = "rest"]
    /\ UNCHANGED <<now, db, superseded, readerVars, quiet, clean>>

ClearRepo(w) ==
    /\ wpc[w] = "rest"
    /\ cache' = [i \in Layers |-> IF i \in FirstCleared THEN cache[i] ELSE None]
    /\ wpc' = [wpc EXCEPT ![w] = "idle"]
    /\ clean' = (quiet[w] /\ ReadersIdle /\ \A x \in Writers \ {w} : wpc[x] = "idle")
    /\ UNCHANGED <<now, db, superseded, readerVars, quiet>>

-----------------------------------------------------------------------------
\* Nobody carries a value for longer than MaxLoad.
Tick ==
    /\ now < MaxTime
    /\ \A r \in Readers : pc[r] = "up" => now < since[r] + MaxLoad
    /\ now' = now + 1
    /\ UNCHANGED <<db, superseded, cache, readerVars, writerVars>>

Next ==
    \/ \E r \in Readers : \/ \E i \in Layers : Ask(r, i)
                          \/ Hit(r) \/ Miss(r)
                          \/ Read(r) \/ ReadFails(r) \/ ReadRaises(r)
                          \/ Fill(r)
    \/ \E i \in Layers : Evict(i)
    \/ \E w \in Writers : Commit(w) \/ CommitUnreported(w) \/ ClearQueries(w) \/ ClearRepo(w)
    \/ Tick

Spec == Init /\ [][Next]_vars

-----------------------------------------------------------------------------
(* Properties                                                              *)

\* Types.  The empty answer of a failed read never enters the query cache.
TypeOK ==
    /\ now \in Nat /\ db \in Versions
    /\ superseded \in [Versions -> Nat]
    /\ cache \in [Layers -> Entries \cup {None}]
    /\ cache[1] # None => cache[1].value \in Versions
    /\ pc \in [Readers -> {"idle", "down", "up"}]
    /\ level \in [Readers -> 0 .. N]
    /\ top \in [Readers -> Layers]
    /\ hand \in [Readers -> Answers]
    /\ since \in [Readers -> Nat]
    /\ wpc \in [Writers -> {"idle", "first", "rest"}]
    /\ quiet \in [Writers -> BOOLEAN]
    /\ clean \in BOOLEAN

\* Whatever races and failures a cached answer went through, a layer serves a
\* value that was replaced, or an empty answer for a read that failed, only
\* until its budget has run out: the TTLs of the layers it came through plus
\* the time it was carried, never a TTL renewed by a reader.
BoundedStaleness ==
    \A i \in Layers : Live(i) =>
        LET e == cache[i]
        IN  IF e.value = Empty \/ e.value = db
            THEN now < e.asOf + Budget[i] \/ e.value = db
            ELSE now < superseded[e.value] + Budget[i]

\* A write that was reported to succeed, with no read under way when it
\* reached the database or when its caches were cleared, leaves no layer with
\* the old value, whoever read in between: the order of the clears matters.
UnracedWriteVisible ==
    clean => \A i \in Layers : Live(i) => cache[i].value \in {db, Empty}

=============================================================================
