-------------------------------- MODULE Alarm --------------------------------
(***************************************************************************)
(* What a timer promises the one who holds it: an alarm of its own, that   *)
(* rings only when it was set, not before its time has passed, once for    *)
(* each setting, and that is set again no more often than it was set up    *)
(* for.  What anyone else does with an alarm does not touch it.            *)
(***************************************************************************)
EXTENDS Integers

CONSTANT Holders

VARIABLES
    now,        \* the time
    alarm       \* per holder: its alarm

alarmVars == <<now, alarm>>

NoAlarm == [state |-> "none", due |-> 0, timeout |-> 0, tries |-> 0, max |-> 0]

Init ==
    /\ now \in Nat
    /\ alarm = [h \in Holders |-> NoAlarm]

TimePasses ==
    /\ now' \in Nat /\ now' >= now
    /\ UNCHANGED alarm

Becomes(h, a) ==
    /\ alarm' = [alarm EXCEPT ![h] = a]
    /\ UNCHANGED now

Held(h) == alarm[h].state # "none"

\* Whoever takes an alarm finds it off, with a time and a limit of before;
\* setting it up gives it others.
Fresh(h) ==
    LET new == alarm'[h]
    IN  /\ new = [state |-> "off", due |-> 0, timeout |-> new.timeout,
                  tries |-> 0, max |-> new.max]
        /\ new.timeout \in Nat /\ new.max \in Nat
        /\ Becomes(h, new)

Take(h) == ~Held(h) /\ Fresh(h)

SetUp(h) == Held(h) /\ Fresh(h)

\* An alarm keeps its time and its limit.
Put(h, state, due, tries) ==
    /\ Held(h)
    /\ Becomes(h, [state |-> state, due |-> due, timeout |-> alarm[h].timeout,
                   tries |-> tries, max |-> alarm[h].max])

Due(h) == now + alarm[h].timeout

Set(h) == Put(h, "set", Due(h), alarm[h].tries)

SetAgain(h) ==
    /\ alarm[h].tries < alarm[h].max
    /\ Put(h, "set", Due(h), alarm[h].tries + 1)

Cancel(h) == Put(h, "off", 0, alarm[h].tries)

Ring(h) ==
    /\ alarm[h].state = "set" /\ now >= alarm[h].due
    /\ Put(h, "rung", 0, alarm[h].tries)

Reset(h) == Put(h, "off", 0, 0)

GiveBack(h) == Held(h) /\ Becomes(h, NoAlarm)

Operation(h) ==
    \/ Take(h) \/ SetUp(h) \/ Set(h) \/ SetAgain(h)
    \/ Cancel(h) \/ Ring(h) \/ Reset(h) \/ GiveBack(h)

Next == TimePasses \/ \E h \in Holders : Operation(h)

Spec == Init /\ [][Next]_alarmVars
=============================================================================
