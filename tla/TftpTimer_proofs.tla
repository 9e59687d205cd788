--------------------------- MODULE TftpTimer_proofs ---------------------------
(***************************************************************************)
(* For pools of any size and any number of callers, a timer is held by one *)
(* caller at a time, and to that caller it is an alarm of its own.         *)
(***************************************************************************)
EXTENDS TftpTimer, TLAPS

\* The types and the limits need that a handle is a slot, and the refinement
\* needs that nobody else holds it.
IInv == TypeOK /\ Exclusive

LEMMA NullIsNotASlot == Null \notin Slots
BY PoolIsNat, NullIsNoSlot DEF Slots

LEMMA Initially == Init => IInv
BY NullIsNotASlot DEF Init, IInv, TypeOK, Exclusive, Timers

LEMMA ReadingIsNat ==
    ASSUME now \in Nat, NEW time \in Reading
    PROVE  time \in Nat
BY DEF Reading

\* A caller's write that keeps the timer in use and its fields in their types
\* and limits.
LEMMA WriteKeeps ==
    ASSUME IInv, NEW h \in Holders, NEW t, Writes(h, t),
           t \in Timers, t.inUse = Own(h).inUse,
           ~(t.running /\ t.expired), t.count <= t.max
    PROVE  IInv'
<1>1. handle[h] \in Slots
  BY DEF Writes, IInv, TypeOK
<1>2. TypeOK'
  BY <1>1 DEF Writes, IInv, TypeOK
<1>3. \A s \in Slots : timer'[s].inUse = timer[s].inUse
  BY <1>1 DEF Writes, Own, IInv, TypeOK
<1>4. Exclusive'
  BY <1>3 DEF Writes, IInv, Exclusive
<1> QED
  BY <1>2, <1>4 DEF IInv

LEMMA OwnIsTimer ==
    ASSUME IInv, NEW h \in Holders, handle[h] # Null
    PROVE  /\ Own(h) \in Timers
           /\ ~(Own(h).running /\ Own(h).expired)
           /\ Own(h).count <= Own(h).max
BY DEF IInv, TypeOK, Own

LEMMA AcquireKeeps ==
    ASSUME IInv, NEW h \in Holders, Acquire(h)
    PROVE  IInv'
<1>1. PICK s \in Slots :
        /\ FirstFree(s)
        /\ Hands(h, s, [timer[s] EXCEPT !.inUse = TRUE, !.running = FALSE,
                                        !.expired = FALSE, !.count = 0])
  BY DEF Acquire
<1> DEFINE t == [timer[s] EXCEPT !.inUse = TRUE, !.running = FALSE,
                                 !.expired = FALSE, !.count = 0]
<1>2. /\ t \in Timers /\ t.inUse /\ ~t.running /\ t.count = 0 /\ t.max \in Nat
  BY DEF IInv, TypeOK, Timers
<1>3. /\ timer' = [timer EXCEPT ![s] = t]
      /\ handle' = [handle EXCEPT ![h] = s]
      /\ now' = now
  BY <1>1 DEF Hands
<1> HIDE DEF t
<1>4. TypeOK'
  BY <1>2, <1>3 DEF IInv, TypeOK
<1>5. \A g \in Holders : handle[g] # s
  BY <1>1 DEF FirstFree, IInv, Exclusive
<1>6. handle[h] = Null
  BY DEF Acquire
<1>7. \A r \in Slots : timer'[r].inUse <=> \E g \in Holders : handle'[g] = r
  <2> TAKE r \in Slots
  <2>1. CASE r = s
    BY <1>2, <1>3, <2>1 DEF IInv, TypeOK
  <2>2. CASE r # s
    <3>1. timer'[r] = timer[r]
      BY <1>3, <2>2 DEF IInv, TypeOK
    <3>2. \A g \in Holders : handle'[g] = r <=> handle[g] = r
      BY <1>3, <1>6, <2>2, NullIsNotASlot DEF IInv, TypeOK
    <3> QED
      BY <3>1, <3>2 DEF IInv, Exclusive
  <2> QED
    BY <2>1, <2>2
<1>8. \A f, g \in Holders :
        f # g /\ handle'[f] # Null => handle'[f] # handle'[g]
  BY <1>3, <1>5 DEF IInv, TypeOK, Exclusive
<1> QED
  BY <1>4, <1>7, <1>8 DEF IInv, Exclusive

LEMMA ReleaseKeeps ==
    ASSUME IInv, NEW h \in Holders, Release(h)
    PROVE  IInv'
<1> DEFINE s == handle[h]
           t == [timer[s] EXCEPT !.inUse = FALSE]
<1>1. s \in Slots
  BY DEF Release, IInv, TypeOK
<1>2. /\ t \in Timers /\ ~t.inUse /\ ~(t.running /\ t.expired)
      /\ t.count <= t.max
  BY <1>1 DEF IInv, TypeOK, Timers
<1>3. /\ timer' = [timer EXCEPT ![s] = t]
      /\ handle' = [handle EXCEPT ![h] = Null]
      /\ now' = now
  BY DEF Release
<1> HIDE DEF t
<1>4. TypeOK'
  BY <1>1, <1>2, <1>3 DEF IInv, TypeOK
<1>5. \A g \in Holders : handle'[g] # s
  BY <1>1, <1>3, NullIsNotASlot DEF IInv, TypeOK, Exclusive
<1>6. \A r \in Slots : timer'[r].inUse <=> \E g \in Holders : handle'[g] = r
  <2> TAKE r \in Slots
  <2>1. CASE r = s
    BY <1>2, <1>3, <1>5, <2>1 DEF IInv, TypeOK
  <2>2. CASE r # s
    <3>1. timer'[r] = timer[r]
      BY <1>3, <2>2 DEF IInv, TypeOK
    <3>2. \A g \in Holders : handle'[g] = r <=> handle[g] = r
      BY <1>3, <2>2, NullIsNotASlot DEF IInv, TypeOK
    <3> QED
      BY <3>1, <3>2 DEF IInv, Exclusive
  <2> QED
    BY <2>1, <2>2
<1>7. \A f, g \in Holders :
        f # g /\ handle'[f] # Null => handle'[f] # handle'[g]
  BY <1>3 DEF IInv, TypeOK, Exclusive
<1> QED
  BY <1>4, <1>6, <1>7 DEF IInv, Exclusive

\* What the operations make of a timer.
LEMMA StartedIsSound ==
    ASSUME NEW o \in Timers, o.count <= o.max, NEW time \in Nat
    PROVE  LET t == Started(o, time)
           IN  /\ t \in Timers /\ t.inUse = o.inUse
               /\ ~(t.running /\ t.expired) /\ t.count <= t.max
<1> DEFINE t == Started(o, time)
<1>1. /\ t.inUse = o.inUse /\ t.running = TRUE /\ t.expired = FALSE
      /\ t.count = o.count /\ t.max = o.max
  BY DEF Started, Timers
<1>2. time + o.timeout \in Nat
  BY DEF Timers
<1>3. t \in Timers
  BY <1>2 DEF Started, Timers
<1> QED
  BY <1>1, <1>3

LEMMA RetriedIsSound ==
    ASSUME NEW o \in Timers, o.count < o.max, NEW time \in Nat
    PROVE  LET t == Started([o EXCEPT !.count = @ + 1], time)
           IN  /\ t \in Timers /\ t.inUse = o.inUse
               /\ ~(t.running /\ t.expired) /\ t.count <= t.max
<1> DEFINE r == [o EXCEPT !.count = @ + 1]
<1>1. o.count \in Nat /\ o.max \in Nat
  BY DEF Timers
<1>2. o.count + 1 \in Nat /\ o.count + 1 <= o.max
  BY <1>1
<1>3. r \in Timers /\ r.inUse = o.inUse
  BY <1>2 DEF Timers
<1>4. r.count = o.count + 1 /\ r.max = o.max
  BY DEF Timers
<1>5. r.count <= r.max
  BY <1>2, <1>4
<1> QED
  BY <1>3, <1>5, StartedIsSound

LEMMA InitializedIsSound ==
    ASSUME NEW o \in Timers, NEW timeout \in Nat, NEW max \in Nat
    PROVE  LET t == [o EXCEPT !.timeout = timeout, !.max = max, !.count = 0,
                         !.running = FALSE, !.expired = FALSE, !.deadline = 0]
           IN  /\ t \in Timers /\ t.inUse = o.inUse
               /\ ~(t.running /\ t.expired) /\ t.count <= t.max
<1> DEFINE t == [o EXCEPT !.timeout = timeout, !.max = max, !.count = 0,
                     !.running = FALSE, !.expired = FALSE, !.deadline = 0]
<1>1. /\ t.inUse = o.inUse /\ t.running = FALSE
      /\ t.count = 0 /\ t.max = max
  BY DEF Timers
<1>2. t \in Timers
  BY DEF Timers
<1> QED
  BY <1>1, <1>2

LEMMA ClearedIsSound ==
    ASSUME NEW o \in Timers
    PROVE  LET t == [o EXCEPT !.running = FALSE, !.expired = FALSE, !.count = 0]
           IN  /\ t \in Timers /\ t.inUse = o.inUse
               /\ ~(t.running /\ t.expired) /\ t.count <= t.max
<1> DEFINE t == [o EXCEPT !.running = FALSE, !.expired = FALSE, !.count = 0]
<1>1. /\ t.inUse = o.inUse /\ t.running = FALSE
      /\ t.count = 0 /\ t.max = o.max /\ o.max \in Nat
  BY DEF Timers
<1>2. t \in Timers
  BY DEF Timers
<1> QED
  BY <1>1, <1>2

LEMMA CallKeeps ==
    ASSUME IInv, NEW h \in Holders, Call(h)
    PROVE  IInv'
<1> DEFINE Sound(t) == /\ t \in Timers /\ t.inUse = Own(h).inUse
                       /\ ~(t.running /\ t.expired) /\ t.count <= t.max
<1>0. ASSUME NEW t, Writes(h, t), Sound(t) PROVE IInv'
  BY <1>0, WriteKeeps
<1>1. CASE Acquire(h)
  BY <1>1, AcquireKeeps
<1>2. CASE Initialize(h)
  <2>1. PICK c \in Configs :
          Writes(h, [Own(h) EXCEPT
              !.timeout = c.timeout, !.max = c.max, !.count = 0,
              !.running = FALSE, !.expired = FALSE, !.deadline = 0])
    BY <1>2 DEF Initialize
  <2>2. c.timeout \in Nat /\ c.max \in Nat
    BY ConfigsAreNat
  <2>3. Own(h) \in Timers
    BY <2>1, OwnIsTimer DEF Writes
  <2>4. Sound([Own(h) EXCEPT
              !.timeout = c.timeout, !.max = c.max, !.count = 0,
              !.running = FALSE, !.expired = FALSE, !.deadline = 0])
    BY <2>2, <2>3, InitializedIsSound
  <2> QED
    BY <2>1, <2>4, <1>0
<1>3. CASE Start(h)
  <2>1. PICK time \in Reading : Writes(h, Started(Own(h), time))
    BY <1>3 DEF Start
  <2>2. Own(h) \in Timers /\ Own(h).count <= Own(h).max /\ time \in Nat
    BY <2>1, OwnIsTimer, ReadingIsNat DEF Writes, IInv, TypeOK
  <2>3. Sound(Started(Own(h), time))
    BY <2>2, StartedIsSound
  <2> QED
    BY <2>1, <2>3, <1>0
<1>4. CASE Stop(h)
  <2> DEFINE t == [Own(h) EXCEPT !.running = FALSE, !.expired = FALSE]
  <2>1. Writes(h, t)
    BY <1>4 DEF Stop
  <2>2. Own(h) \in Timers /\ Own(h).count <= Own(h).max
    BY <2>1, OwnIsTimer DEF Writes
  <2>3. Sound(t)
    BY <2>2 DEF Timers
  <2> QED
    BY <2>1, <2>3, <1>0
<1>5. CASE Expire(h)
  <2> DEFINE t == [Own(h) EXCEPT !.expired = TRUE, !.running = FALSE]
  <2>1. Writes(h, t)
    BY <1>5 DEF Expire
  <2>2. Own(h) \in Timers /\ Own(h).count <= Own(h).max
    BY <2>1, OwnIsTimer DEF Writes
  <2>3. Sound(t)
    BY <2>2 DEF Timers
  <2> QED
    BY <2>1, <2>3, <1>0
<1>6. CASE Retry(h)
  <2>1. PICK time \in Reading :
          Writes(h, Started([Own(h) EXCEPT !.count = @ + 1], time))
    BY <1>6 DEF Retry
  <2>2. Own(h) \in Timers /\ time \in Nat
    BY <2>1, OwnIsTimer, ReadingIsNat DEF Writes, IInv, TypeOK
  <2>3. Own(h).count < Own(h).max
    BY <1>6 DEF Retry
  <2>4. Sound(Started([Own(h) EXCEPT !.count = @ + 1], time))
    BY <2>2, <2>3, RetriedIsSound
  <2> QED
    BY <2>1, <2>4, <1>0
<1>7. CASE Deinit(h)
  <2> DEFINE t == [Own(h) EXCEPT !.running = FALSE, !.expired = FALSE,
                                 !.count = 0]
  <2>1. Writes(h, t)
    BY <1>7 DEF Deinit
  <2>2. Own(h) \in Timers
    BY <2>1, OwnIsTimer DEF Writes
  <2>3. Sound(t)
    BY <2>2, ClearedIsSound
  <2> QED
    BY <2>1, <2>3, <1>0
<1>8. CASE Release(h)
  BY <1>8, ReleaseKeeps
<1> QED
  BY <1>1, <1>2, <1>3, <1>4, <1>5, <1>6, <1>7, <1>8 DEF Call

LEMMA Inductive == IInv /\ [Next]_vars => IInv'
<1> SUFFICES ASSUME IInv, [Next]_vars PROVE IInv'
  OBVIOUS
<1>1. CASE Tick
  BY <1>1, PoolIsNat DEF Tick, IInv, TypeOK, Exclusive
<1>2. CASE \E h \in Holders : Call(h)
  BY <1>2, CallKeeps
<1>3. CASE UNCHANGED vars
  BY <1>3 DEF vars, IInv, TypeOK, Exclusive
<1> QED
  BY <1>1, <1>2, <1>3 DEF Next

LEMMA Invariance == Spec => []IInv
BY Initially, Inductive, PTL DEF Spec

\* In any order of calls and for any number of callers no timer both runs and
\* has expired, and none is retried more often than its own configuration
\* allows, the one it was given last.
THEOREM TimersTyped == Spec => []TypeOK
<1>1. IInv => TypeOK
  BY DEF IInv
<1> QED
  BY <1>1, Invariance, PTL

\* A timer is in use exactly while one caller holds it, so that the pool loses
\* none and nobody's timer is handed to somebody else.
THEOREM TimersExclusive == Spec => []Exclusive
<1>1. IInv => Exclusive
  BY DEF IInv
<1> QED
  BY <1>1, Invariance, PTL
-----------------------------------------------------------------------------
(* The refinement: what a caller's step is to the callers' alarms. *)

AlarmsNow == [h \in Holders |-> View(h)]

LEMMA WriteIsOwn ==
    ASSUME IInv, NEW h \in Holders, NEW t, Writes(h, t)
    PROVE  AlarmsNow' = [AlarmsNow EXCEPT ![h] = AlarmOf(t)]
<1>1. handle[h] \in Slots /\ handle[h] # Null /\ handle' = handle
  BY DEF Writes, IInv, TypeOK
<1>2. View(h)' = AlarmOf(t)
  BY <1>1 DEF View, Own, Writes, IInv, TypeOK
<1>3. ASSUME NEW g \in Holders, g # h
      PROVE  View(g)' = View(g)
  <2>1. CASE handle[g] = Null
    BY <1>1, <2>1 DEF View, Own
  <2>2. CASE handle[g] # Null
    <3>1. handle[g] # handle[h]
      BY <1>1, <1>3 DEF IInv, Exclusive
    <3>2. timer'[handle[g]] = timer[handle[g]]
      BY <2>2, <3>1 DEF Writes, IInv, TypeOK
    <3> QED
      BY <1>1, <2>2, <3>2 DEF View, Own
  <2> QED
    BY <2>1, <2>2
<1> QED
  BY <1>2, <1>3 DEF AlarmsNow

LEMMA HeldView ==
    ASSUME IInv, NEW h \in Holders
    PROVE  /\ handle[h] # Null => AlarmsNow[h] = AlarmOf(Own(h))
           /\ Alarms!Held(h) <=> handle[h] # Null
BY DEF AlarmsNow, View, AlarmOf, Own, Alarms!Held

LEMMA OthersKeep ==
    ASSUME IInv, NEW h \in Holders, NEW s \in Slots, NEW t,
           timer' = [timer EXCEPT ![s] = t],
           \/ handle' = [handle EXCEPT ![h] = s] /\ ~timer[s].inUse
           \/ handle' = [handle EXCEPT ![h] = Null] /\ handle[h] = s
    PROVE  AlarmsNow' = [AlarmsNow EXCEPT ![h] = View(h)']
<1>1. ASSUME NEW g \in Holders, g # h
      PROVE  View(g)' = View(g)
  <2>1. handle'[g] = handle[g]
    BY <1>1 DEF IInv, TypeOK
  <2>2. CASE handle[g] = Null
    BY <2>1, <2>2 DEF View
  <2>3. CASE handle[g] # Null
    <3>1. handle[g] \in Slots /\ handle[g] # s
      BY <1>1, <2>3, NullIsNotASlot DEF IInv, TypeOK, Exclusive
    <3>2. timer'[handle[g]] = timer[handle[g]]
      BY <3>1 DEF IInv, TypeOK
    <3> QED
      BY <2>1, <3>2 DEF View
  <2> QED
    BY <2>2, <2>3
<1> QED
  BY <1>1 DEF AlarmsNow

LEMMA FreshAlarm ==
    ASSUME NEW h \in Holders, NEW timeout \in Nat, NEW max \in Nat, now' = now,
           AlarmsNow' = [AlarmsNow EXCEPT ![h] =
               [state |-> "off", due |-> 0, timeout |-> timeout, tries |-> 0,
                max |-> max]]
    PROVE  Alarms!Fresh(h)
<1> DEFINE a == [state |-> "off", due |-> 0, timeout |-> timeout, tries |-> 0,
                 max |-> max]
<1>1. AlarmsNow'[h] = a
  BY DEF AlarmsNow
<1>2. a.timeout = timeout /\ a.max = max
  OBVIOUS
<1>3. a = [state |-> "off", due |-> 0, timeout |-> a.timeout, tries |-> 0,
           max |-> a.max]
  BY <1>2
<1> HIDE DEF a
<1> QED
  BY <1>1, <1>2, <1>3 DEF Alarms!Fresh, Alarms!Becomes, AlarmsNow, a

\* A call that writes its own timer, and keeps its time and limit, gives its
\* holder's alarm another state.
LEMMA WritePuts ==
    ASSUME IInv, NEW h \in Holders, NEW t, Writes(h, t),
           t.timeout = Own(h).timeout, t.max = Own(h).max,
           NEW state, NEW due, NEW tries,
           AlarmOf(t).state = state, AlarmOf(t).due = due, t.count = tries
    PROVE  Alarms!Put(h, state, due, tries)
<1>1. handle[h] # Null /\ now' = now
  BY DEF Writes
<1>2. /\ AlarmsNow[h].timeout = t.timeout
      /\ AlarmsNow[h].max = t.max
  <2>1. AlarmsNow[h] = AlarmOf(Own(h))
    BY <1>1, HeldView
  <2>2. /\ AlarmOf(Own(h)).timeout = Own(h).timeout
        /\ AlarmOf(Own(h)).max = Own(h).max
    BY DEF AlarmOf
  <2> QED
    BY <2>1, <2>2
<1>3. AlarmOf(t) = [state |-> state, due |-> due,
                    timeout |-> AlarmsNow[h].timeout, tries |-> tries,
                    max |-> AlarmsNow[h].max]
  BY <1>2 DEF AlarmOf
<1>4. Alarms!Held(h)
  BY <1>1, HeldView
<1> QED
  BY <1>1, <1>3, <1>4, WriteIsOwn
  DEF Alarms!Put, Alarms!Becomes, AlarmsNow

LEMMA OwnView ==
    ASSUME IInv, NEW h \in Holders, handle[h] # Null
    PROVE  /\ Own(h) \in Timers
           /\ [g \in Holders |-> View(g)][h] = AlarmOf(Own(h))
BY OwnIsTimer, HeldView DEF AlarmsNow

LEMMA CallIsOperation ==
    ASSUME IInv, ~ClockMayFail, NEW h \in Holders, Call(h)
    PROVE  Alarms!Operation(h)
<1>0. now \in Nat /\ Reading = {now}
  BY DEF Reading, IInv, TypeOK
<1>1. CASE Acquire(h)
  <2>1. PICK s \in Slots :
          /\ FirstFree(s)
          /\ Hands(h, s, [timer[s] EXCEPT !.inUse = TRUE, !.running = FALSE,
                                          !.expired = FALSE, !.count = 0])
    BY <1>1 DEF Acquire
  <2> DEFINE t == [timer[s] EXCEPT !.inUse = TRUE, !.running = FALSE,
                                   !.expired = FALSE, !.count = 0]
  <2>2. /\ timer' = [timer EXCEPT ![s] = t]
        /\ handle' = [handle EXCEPT ![h] = s]
        /\ now' = now
    BY <2>1 DEF Hands
  <2>3. AlarmsNow' = [AlarmsNow EXCEPT ![h] = View(h)']
    BY <2>1, <2>2, OthersKeep DEF FirstFree
  <2>4. View(h)' = AlarmOf(t)
    BY <2>2, NullIsNotASlot DEF View, IInv, TypeOK
  <2>5. /\ t.running = FALSE /\ t.expired = FALSE /\ t.count = 0
        /\ t.timeout \in Nat /\ t.max \in Nat
    BY DEF IInv, TypeOK, Timers
  <2>6. AlarmOf(t) = [state |-> "off", due |-> 0, timeout |-> t.timeout,
                      tries |-> 0, max |-> t.max]
    BY <2>5 DEF AlarmOf
  <2> HIDE DEF t
  <2>7. handle[h] = Null
    BY <1>1 DEF Acquire
  <2>8. Alarms!Fresh(h)
    BY <2>2, <2>3, <2>4, <2>5, <2>6, FreshAlarm
  <2> QED
    BY <2>7, <2>8, HeldView DEF Alarms!Operation, Alarms!Take
<1>2. CASE Initialize(h)
  <2>1. PICK c \in Configs :
          Writes(h, [Own(h) EXCEPT
              !.timeout = c.timeout, !.max = c.max, !.count = 0,
              !.running = FALSE, !.expired = FALSE, !.deadline = 0])
    BY <1>2 DEF Initialize
  <2> DEFINE t == [Own(h) EXCEPT
              !.timeout = c.timeout, !.max = c.max, !.count = 0,
              !.running = FALSE, !.expired = FALSE, !.deadline = 0]
  <2>2. /\ c.timeout \in Nat /\ c.max \in Nat /\ Own(h) \in Timers
        /\ Alarms!Held(h) /\ now' = now
    BY <2>1, ConfigsAreNat, OwnIsTimer, HeldView DEF Writes
  <2>3. /\ t.running = FALSE /\ t.expired = FALSE /\ t.count = 0
        /\ t.timeout = c.timeout /\ t.max = c.max
    BY <2>2 DEF Timers
  <2>4. AlarmOf(t) = [state |-> "off", due |-> 0, timeout |-> c.timeout,
                      tries |-> 0, max |-> c.max]
    BY <2>3 DEF AlarmOf
  <2>5. Alarms!Fresh(h)
    BY <2>1, <2>2, <2>4, WriteIsOwn, FreshAlarm
  <2> QED
    BY <2>2, <2>5 DEF Alarms!Operation, Alarms!SetUp
<1>3. CASE Start(h)
  <2> DEFINE t == Started(Own(h), now)
  <2>1. Writes(h, t)
    BY <1>0, <1>3 DEF Start
  <2>2. /\ Own(h) \in Timers
        /\ [g \in Holders |-> View(g)][h] = AlarmOf(Own(h))
    BY <2>1, OwnView DEF Writes
  <2>3. /\ t.timeout = Own(h).timeout /\ t.max = Own(h).max
        /\ t.running = TRUE /\ t.count = Own(h).count
        /\ t.deadline = now + Own(h).timeout
    BY <2>2 DEF Timers, Started
  <2> HIDE DEF t
  <2>4. AlarmOf(t).state = "set" /\ AlarmOf(t).due = now + Own(h).timeout
    BY <2>3 DEF AlarmOf
  <2>5. Alarms!Put(h, "set", now + Own(h).timeout, Own(h).count)
    BY <2>1, <2>3, <2>4, WritePuts
  <2> QED
    BY <2>2, <2>5 DEF Alarms!Operation, Alarms!Set, Alarms!Due, AlarmOf
<1>4. CASE Stop(h)
  <2> DEFINE t == [Own(h) EXCEPT !.running = FALSE, !.expired = FALSE]
  <2>1. Writes(h, t)
    BY <1>0, <1>4 DEF Stop
  <2>2. /\ Own(h) \in Timers
        /\ [g \in Holders |-> View(g)][h] = AlarmOf(Own(h))
    BY <2>1, OwnView DEF Writes
  <2>3. /\ t.timeout = Own(h).timeout /\ t.max = Own(h).max
        /\ t.running = FALSE /\ t.expired = FALSE
        /\ t.count = Own(h).count
    BY <2>2 DEF Timers
  <2> HIDE DEF t
  <2>4. AlarmOf(t).state = "off" /\ AlarmOf(t).due = 0
    BY <2>3 DEF AlarmOf
  <2>5. Alarms!Put(h, "off", 0, Own(h).count)
    BY <2>1, <2>3, <2>4, WritePuts
  <2> QED
    BY <2>2, <2>5 DEF Alarms!Operation, Alarms!Cancel, AlarmOf
<1>5. CASE Expire(h)
  <2> DEFINE t == [Own(h) EXCEPT !.expired = TRUE, !.running = FALSE]
  <2>1. Writes(h, t)
    BY <1>0, <1>5 DEF Expire
  <2>2. /\ Own(h) \in Timers
        /\ [g \in Holders |-> View(g)][h] = AlarmOf(Own(h))
    BY <2>1, OwnView DEF Writes
  <2>3. /\ t.timeout = Own(h).timeout /\ t.max = Own(h).max
        /\ t.running = FALSE /\ t.expired = TRUE
        /\ t.count = Own(h).count
    BY <2>2 DEF Timers
  <2> HIDE DEF t
  <2>4. AlarmOf(t).state = "rung" /\ AlarmOf(t).due = 0
    BY <2>3 DEF AlarmOf
  <2>5. Alarms!Put(h, "rung", 0, Own(h).count)
    BY <2>1, <2>3, <2>4, WritePuts
  <2>6. Own(h).running /\ now >= Own(h).deadline
    BY <1>0, <1>5 DEF Expire
  <2> QED
    BY <2>2, <2>5, <2>6 DEF Alarms!Operation, Alarms!Ring, AlarmOf
<1>6. CASE Retry(h)
  <2> DEFINE t == Started([Own(h) EXCEPT !.count = @ + 1], now)
  <2>1. Writes(h, t)
    BY <1>0, <1>6 DEF Retry
  <2>2. /\ Own(h) \in Timers
        /\ [g \in Holders |-> View(g)][h] = AlarmOf(Own(h))
    BY <2>1, OwnView DEF Writes
  <2>3. /\ t.timeout = Own(h).timeout /\ t.max = Own(h).max
        /\ t.running = TRUE /\ t.count = Own(h).count + 1
        /\ t.deadline = now + Own(h).timeout
    BY <2>2 DEF Timers, Started
  <2> HIDE DEF t
  <2>4. AlarmOf(t).state = "set" /\ AlarmOf(t).due = now + Own(h).timeout
    BY <2>3 DEF AlarmOf
  <2>5. Alarms!Put(h, "set", now + Own(h).timeout, Own(h).count + 1)
    BY <2>1, <2>3, <2>4, WritePuts
  <2>6. Own(h).count < Own(h).max
    BY <1>6 DEF Retry
  <2> QED
    BY <2>2, <2>5, <2>6 DEF Alarms!Operation, Alarms!SetAgain, Alarms!Due, AlarmOf
<1>7. CASE Deinit(h)
  <2> DEFINE t == [Own(h) EXCEPT !.running = FALSE, !.expired = FALSE,
                                 !.count = 0]
  <2>1. Writes(h, t)
    BY <1>0, <1>7 DEF Deinit
  <2>2. /\ Own(h) \in Timers
        /\ [g \in Holders |-> View(g)][h] = AlarmOf(Own(h))
    BY <2>1, OwnView DEF Writes
  <2>3. /\ t.timeout = Own(h).timeout /\ t.max = Own(h).max
        /\ t.running = FALSE /\ t.expired = FALSE /\ t.count = 0
    BY <2>2 DEF Timers
  <2> HIDE DEF t
  <2>4. AlarmOf(t).state = "off" /\ AlarmOf(t).due = 0
    BY <2>3 DEF AlarmOf
  <2>5. Alarms!Put(h, "off", 0, 0)
    BY <2>1, <2>3, <2>4, WritePuts
  <2> QED
    BY <2>2, <2>5 DEF Alarms!Operation, Alarms!Reset, AlarmOf
<1>8. CASE Release(h)
  <2>1. /\ handle[h] \in Slots /\ handle[h] # Null
        /\ handle' = [handle EXCEPT ![h] = Null] /\ now' = now
    BY <1>8 DEF Release, IInv, TypeOK
  <2>2. timer' = [timer EXCEPT ![handle[h]] =
                     [timer[handle[h]] EXCEPT !.inUse = FALSE]]
    BY <1>8 DEF Release
  <2>3. AlarmsNow' = [AlarmsNow EXCEPT ![h] = View(h)']
    BY <2>1, <2>2, OthersKeep
  <2>4. View(h)' = Alarms!NoAlarm
    BY <2>1 DEF View, Alarms!NoAlarm, IInv, TypeOK
  <2>5. Alarms!GiveBack(h)
    BY <2>1, <2>3, <2>4, HeldView
    DEF Alarms!GiveBack, Alarms!Becomes, AlarmsNow
  <2> QED
    BY <2>5 DEF Alarms!Operation
<1> QED
  BY <1>1, <1>2, <1>3, <1>4, <1>5, <1>6, <1>7, <1>8 DEF Call

\* While the clock can be read, the timers of the pool are alarms of their
\* holders': an alarm rings only after its holder has set it, not before its
\* time, and once, whatever is done to other timers and whatever an earlier
\* holder left behind.
THEOREM PoolImplementsAlarms ==
    ASSUME ~ClockMayFail
    PROVE  Spec => TimersAreAlarms
<1>1. Init => Alarms!Init
  BY DEF Init, View, Alarms!Init, Alarms!NoAlarm
<1>2. IInv /\ [Next]_vars => [Alarms!Next]_(Alarms!alarmVars)
  <2> SUFFICES ASSUME IInv, [Next]_vars
               PROVE  [Alarms!Next]_(Alarms!alarmVars)
    OBVIOUS
  <2>1. CASE Tick
    <3>1. now \in Nat /\ now' \in Nat /\ now' >= now
      BY <2>1, PoolIsNat DEF Tick, IInv, TypeOK
    <3>2. [h \in Holders |-> View(h)]' = [h \in Holders |-> View(h)]
      BY <2>1 DEF Tick, View
    <3> QED
      BY <3>1, <3>2 DEF Alarms!Next, Alarms!TimePasses
  <2>2. CASE \E h \in Holders : Call(h)
    BY <2>2, CallIsOperation DEF Alarms!Next
  <2>3. CASE UNCHANGED vars
    BY <2>3 DEF vars, View, Alarms!alarmVars
  <2> QED
    BY <2>1, <2>2, <2>3 DEF Next
<1> QED
  BY <1>1, <1>2, Initially, Inductive, PTL DEF Spec, TimersAreAlarms, Alarms!Spec
=============================================================================
