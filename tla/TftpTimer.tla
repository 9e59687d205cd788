------------------------------ MODULE TftpTimer ------------------------------
(***************************************************************************)
(* The timers: a pool of objects (tftp_timer.c) that any number of callers *)
(* acquire, use in any order of calls, and give back.  Releasing a timer   *)
(* clears only its in_use flag; what the next holder must not see of the   *)
(* last one is cleared by the acquisition.                                 *)
(***************************************************************************)
EXTENDS Integers

CONSTANTS
    PoolSize,       \* TFTP_MAX_TRANSFERS
    Holders,        \* the callers, with one handle each
    Configs,        \* the settings they use: timeout_ms and max_retries
    Null,
    ClockMayFail,   \* clock_gettime may fail, and the time reads as 0
    MaxNow          \* bound: the last time of the clock

ASSUME PoolIsNat == PoolSize \in Nat /\ MaxNow \in Nat
ASSUME ConfigsAreNat == Configs \subseteq [timeout : Nat, max : Nat]
ASSUME NullIsNoSlot == Null \notin Nat
ASSUME ClockIsBoolean == ClockMayFail \in BOOLEAN

VARIABLES
    timer,      \* g_timer_pool
    handle,     \* per caller: the timer it holds
    now         \* the monotonic clock

vars == <<timer, handle, now>>

Slots == 0..(PoolSize - 1)

\* Static storage starts as zeros.
Init ==
    /\ timer = [s \in Slots |->
           [inUse |-> FALSE, running |-> FALSE, expired |-> FALSE,
            timeout |-> 0, count |-> 0, max |-> 0, deadline |-> 0]]
    /\ handle = [h \in Holders |-> Null]
    /\ now = 0

\* timer_now_ms
Reading == {now} \cup (IF ClockMayFail THEN {0} ELSE {})

Writes(h, t) ==
    /\ handle[h] # Null
    /\ timer' = [timer EXCEPT ![handle[h]] = t]
    /\ UNCHANGED <<handle, now>>
Own(h) == timer[handle[h]]
-----------------------------------------------------------------------------
FirstFree(s) ==
    /\ ~timer[s].inUse
    /\ \A r \in Slots : ~timer[r].inUse => s <= r

Hands(h, s, t) ==
    /\ timer' = [timer EXCEPT ![s] = t]
    /\ handle' = [handle EXCEPT ![h] = s]
    /\ UNCHANGED now

\* Mutant: a timer keeps running for its next holder.
AcquireAsItIs(h) ==
    /\ handle[h] = Null
    /\ \E s \in Slots :
        /\ FirstFree(s)
        /\ Hands(h, s, [timer[s] EXCEPT !.inUse = TRUE, !.count = 0])
\* With every timer in use, the call fails and changes nothing.
Acquire(h) ==
    /\ handle[h] = Null
    /\ \E s \in Slots :
        /\ FirstFree(s)
        /\ Hands(h, s, [timer[s] EXCEPT !.inUse = TRUE, !.running = FALSE,
                                        !.expired = FALSE, !.count = 0])

\* Mutant: the retries of before count against the new limit.
InitializeKeepsCount(h) ==
    \E c \in Configs :
        Writes(h, [Own(h) EXCEPT
            !.timeout = c.timeout, !.max = c.max,
            !.running = FALSE, !.expired = FALSE, !.deadline = 0])
Initialize(h) ==
    \E c \in Configs :
        Writes(h, [Own(h) EXCEPT
            !.timeout = c.timeout, !.max = c.max, !.count = 0,
            !.running = FALSE, !.expired = FALSE, !.deadline = 0])

Started(t, time) ==
    [t EXCEPT !.expired = FALSE, !.running = TRUE,
              !.deadline = time + t.timeout]

Start(h) == \E time \in Reading : Writes(h, Started(Own(h), time))

Stop(h) == Writes(h, [Own(h) EXCEPT !.running = FALSE, !.expired = FALSE])

\* A timer that does not run, or is not yet due, is left as it is.
Expire(h) ==
    /\ handle[h] # Null /\ Own(h).running
    /\ \E time \in Reading : time >= Own(h).deadline
    /\ Writes(h, [Own(h) EXCEPT !.expired = TRUE, !.running = FALSE])

Retry(h) ==
    /\ handle[h] # Null /\ Own(h).count < Own(h).max
    /\ \E time \in Reading :
        Writes(h, Started([Own(h) EXCEPT !.count = @ + 1], time))

Deinit(h) ==
    Writes(h, [Own(h) EXCEPT !.running = FALSE, !.expired = FALSE, !.count = 0])

\* Mutant: the caller's handle is left as it is.
ReleaseKeepsHandle(h) == Writes(h, [Own(h) EXCEPT !.inUse = FALSE])
Release(h) ==
    /\ handle[h] # Null
    /\ timer' = [timer EXCEPT ![handle[h]].inUse = FALSE]
    /\ handle' = [handle EXCEPT ![h] = Null]
    /\ UNCHANGED now

Call(h) ==
    \/ Acquire(h) \/ Initialize(h) \/ Start(h) \/ Stop(h)
    \/ Expire(h) \/ Retry(h) \/ Deinit(h) \/ Release(h)

\* The clock may be read long after it was read last.
Tick ==
    /\ now' \in (now + 1)..MaxNow
    /\ UNCHANGED <<timer, handle>>

Next == Tick \/ \E h \in Holders : Call(h)

Spec == Init /\ [][Next]_vars
-----------------------------------------------------------------------------
(* Properties *)

Timers == [inUse : BOOLEAN, running : BOOLEAN, expired : BOOLEAN,
           timeout : Nat, count : Nat, max : Nat, deadline : Nat]

\* The state stays in its types; a timer is never both running and expired,
\* and has not been retried more often than its limit.
TypeOK ==
    /\ timer \in [Slots -> Timers]
    /\ handle \in [Holders -> Slots \cup {Null}]
    /\ now \in Nat
    /\ \A s \in Slots : /\ ~(timer[s].running /\ timer[s].expired)
                        /\ timer[s].count <= timer[s].max

\* The pool and its callers agree: the timers in use are those that somebody
\* holds, and nobody holds a timer with somebody else, so that no timer is
\* lost to the pool and none is pulled from under its holder.
Exclusive ==
    /\ \A s \in Slots : timer[s].inUse <=> \E h \in Holders : handle[h] = s
    /\ \A g, h \in Holders : g # h /\ handle[g] # Null => handle[g] # handle[h]

\* For its holder a timer of the pool is an alarm of its own: whatever the
\* holder before left behind, running or expired, and whatever others do.
AlarmOf(t) ==
    [state   |-> IF t.running THEN "set"
                 ELSE IF t.expired THEN "rung" ELSE "off",
     due     |-> IF t.running THEN t.deadline ELSE 0,
     timeout |-> t.timeout, tries |-> t.count, max |-> t.max]
View(h) ==
    IF handle[h] = Null
    THEN [state |-> "none", due |-> 0, timeout |-> 0, tries |-> 0, max |-> 0]
    ELSE AlarmOf(timer[handle[h]])

Alarms == INSTANCE Alarm WITH alarm <- [h \in Holders |-> View(h)]
TimersAreAlarms == Alarms!Spec
=============================================================================
