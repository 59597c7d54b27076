---------------------------- MODULE BoundedPool ----------------------------
(***************************************************************************)
(* What the connection pool promises, whatever counters, conditions and    *)
(* deadlines it uses for it: there are never more than MaxSize connections *)
(* that are idle, used or being opened; a connection is used by one thread *)
(* at a time; and a client that is closed lends nothing any more.          *)
(***************************************************************************)
EXTENDS Integers, FiniteSets

CONSTANTS Threads, Conns, NoConn, MaxSize

VARIABLES
    idle,        \* the connections anybody may have
    user,        \* the connection a thread uses
    connecting,  \* the threads that are opening one
    lost,        \* slots nobody will free again
    closed       \* the client is closed

vars == <<idle, user, connecting, lost, closed>>

Init ==
    /\ idle = {}
    /\ user = [t \in Threads |-> NoConn]
    /\ connecting = {}
    /\ lost = 0
    /\ closed = FALSE

Busy == connecting \cup {t \in Threads : user[t] # NoConn}
InUse == {user[t] : t \in Threads}

-----------------------------------------------------------------------------
\* Idle connections grow old, and whoever looks takes them out.
Expire ==
    /\ idle' \in SUBSET idle
    /\ UNCHANGED <<user, connecting, lost, closed>>

\* One that is not too old is lent again.
Reuse(t) ==
    /\ ~closed /\ t \notin Busy
    /\ \E c \in idle : /\ user' = [user EXCEPT ![t] = c]
                       /\ idle' \in SUBSET (idle \ {c})
    /\ UNCHANGED <<connecting, lost, closed>>

\* With none left a slot is reserved, if there is one.
Reserve(t) ==
    /\ ~closed /\ t \notin Busy
    /\ Cardinality(Busy) + lost < MaxSize
    /\ idle' = {}
    /\ connecting' = connecting \cup {t}
    /\ UNCHANGED <<user, lost, closed>>

\* The reservation becomes a connection that nobody has, is given up or,
\* without complete settings, is lost.
Opened(t) ==
    /\ t \in connecting
    /\ \E c \in Conns \ (idle \cup InUse) : user' = [user EXCEPT ![t] = c]
    /\ connecting' = connecting \ {t}
    /\ UNCHANGED <<idle, lost, closed>>

NotOpened(t) ==
    /\ t \in connecting
    /\ connecting' = connecting \ {t}
    /\ lost' \in {lost, lost + 1}
    /\ UNCHANGED <<idle, user, closed>>

\* A connection comes back to an open client, or is thrown away.
GiveUp(t) ==
    /\ user[t] # NoConn
    /\ user' = [user EXCEPT ![t] = NoConn]
    /\ \/ ~closed /\ idle' = idle \cup {user[t]}
       \/ UNCHANGED idle
    /\ UNCHANGED <<connecting, lost, closed>>

Close ==
    /\ closed' = TRUE /\ idle' = {}
    /\ UNCHANGED <<user, connecting, lost>>

Next ==
    \/ \E t \in Threads : \/ Reuse(t) \/ Reserve(t)
                          \/ Opened(t) \/ NotOpened(t) \/ GiveUp(t)
    \/ Expire \/ Close

Spec == Init /\ [][Next]_vars
=============================================================================
