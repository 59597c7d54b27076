----------------------------- MODULE RateLimiter -----------------------------
(***************************************************************************)
(* The limit on write requests: a sliding window of samples for every      *)
(* client address and method, in a table of bounded size that forgets the  *)
(* clients seen least recently.  The middleware asks on the event loop, so *)
(* one request is asked for at a time.  The clock ticks in fractions of a  *)
(* second, the answer to a blocked client is in whole seconds.             *)
(***************************************************************************)
EXTENDS Integers, Sequences, FiniteSetsExt

CONSTANTS Clients,         \* request_rate_limit_key and method
          max_requests, window,  \* the limits; the window is in ticks
          max_keys,
          Second,          \* ticks of a second
          MaxTime          \* bound

ASSUME LimiterAssumption ==
    /\ {max_requests, window, max_keys, Second} \subseteq Nat \ {0}
    /\ MaxTime \in Nat
    /\ IsFiniteSet(Clients)

\* events and last_seen are dictionaries: functions from the clients they know.
VARIABLES
    now,        \* time.monotonic()
    events,     \* _events: the samples of a client, oldest first
    last_seen,  \* _last_seen
    reply,      \* the last answer to a client: when it was blocked, for how long
    granted,    \* ghost: the last max_requests + 1 times a client was let through
    crowded     \* ghost: when more clients than the table holds were last active

limiterVars == <<now, events, last_seen, reply, granted, crowded>>

Never == -1 - window
Allowed == [at |-> Never, after |-> 0]

LimiterInit ==
    /\ now = 0
    /\ events = <<>> /\ last_seen = <<>>
    /\ reply = [c \in Clients |-> Allowed]
    /\ granted = [c \in Clients |-> << >>]
    /\ crowded = Never

LimiterTypeOK ==
    /\ now \in 0 .. MaxTime
    /\ DOMAIN events \subseteq Clients /\ DOMAIN last_seen = DOMAIN events
    /\ \A c \in DOMAIN events : /\ events[c] \in Seq(0 .. now) /\ Len(events[c]) <= max_requests
                               /\ last_seen[c] \in 0 .. now
    /\ \A c \in Clients : granted[c] \in Seq(0 .. now)

Newest(times) == SubSeq(times, Max({1, Len(times) - max_requests}), Len(times))

\* The samples up to the first in the window are dropped.
Trimmed(samples) ==
    LET InWindow(i) == i <= Len(samples) => samples[i] > now - window
    IN SubSeq(samples, Min({i \in 1 .. Len(samples) + 1 : InWindow(i)}), Len(samples))

-----------------------------------------------------------------------------
BadTrim(table, seen) ==                     \* room is made for one client too many
    LET surplus == Cardinality(DOMAIN table) - (max_keys - 1)
        Oldest(S) == \A c \in S, d \in DOMAIN table \ S : seen[c] <= seen[d]
    IN IF surplus <= 0 THEN {table}
       ELSE {[c \in DOMAIN table \ S |-> table[c]] :
                S \in {T \in kSubset(surplus, DOMAIN table) : Oldest(T)}}
\* Over the limit the stale clients go, then those seen least recently.
_trim_locked(table, seen) ==
    LET live == {c \in DOMAIN table : Trimmed(table[c]) # <<>>}
        surplus == Cardinality(live) - max_keys
        Oldest(S) == \A c \in S, d \in live \ S : seen[c] <= seen[d]
    IN IF Cardinality(DOMAIN table) <= max_keys THEN {table}
       ELSE {[c \in live \ S |-> Trimmed(table[c])] :
                S \in IF surplus <= 0 THEN {{}} ELSE {T \in kSubset(surplus, live) : Oldest(T)}}

\* The clients let through within the window.
Active == {c \in Clients : Trimmed(granted[c]) # << >>}

BadRetry(samples) ==                        \* the time that is over, not that to come
    Max({1, (now - samples[1]) \div Second})
retry_after(samples) == Max({1, (samples[1] + window - now) \div Second})

allow(c) ==
    LET samples == IF c \in DOMAIN events THEN Trimmed(events[c]) ELSE <<>>
        full == Len(samples) >= max_requests
        known == DOMAIN events \cup {c}
        table == [d \in known |-> IF d # c THEN events[d]
                                  ELSE IF full THEN samples ELSE Append(samples, now)]
        seen == [d \in known |-> IF d = c THEN now ELSE last_seen[d]]
    IN /\ UNCHANGED now
       /\ events' \in _trim_locked(table, seen)
       /\ last_seen' = [d \in DOMAIN events' |-> seen[d]]
       /\ reply' = [reply EXCEPT ![c] = IF full THEN [at |-> now, after |-> retry_after(samples)]
                                                    ELSE Allowed]
       /\ granted' = IF full THEN granted ELSE [granted EXCEPT ![c] = Newest(Append(Trimmed(@), now))]
       /\ crowded' = IF Cardinality(Active') > max_keys THEN now ELSE crowded

Tick ==
    /\ now < MaxTime
    /\ now' = now + 1
    /\ UNCHANGED <<events, last_seen, reply, granted, crowded>>

LimiterNext == (\E c \in Clients : allow(c)) \/ Tick

LimiterSpec == LimiterInit /\ [][LimiterNext]_limiterVars

-----------------------------------------------------------------------------
(* Properties.                                                             *)

(* No client is let through more often than max_requests within any        *)
(* window, unless more clients than the table holds were let through       *)
(* meanwhile: only then is a client forgotten whose samples are in force.  *)
WindowBound ==
    \A c \in Clients : Len(Trimmed(granted[c])) > max_requests => crowded > now - window

(* The answer is honest up to the fraction of a second that int() cuts     *)
(* off: a client that was told to come back after n seconds, and comes     *)
(* that fraction later, is let through, whoever else asked meanwhile.      *)
RetryHonoured ==
    [][\A c \in Clients :
          /\ reply[c] # Allowed /\ reply'[c] # reply[c]
          /\ now >= reply[c].at + reply[c].after * Second + (Second - 1)
          => reply'[c] = Allowed]_limiterVars
=============================================================================
