---------------------------- MODULE TftpApp_proofs ----------------------------
(***************************************************************************)
(* Proofs about TftpApp.  Whoever its caller is, and whatever transfers    *)
(* outlive a lifetime, no context is called that was released, no call of  *)
(* it changes a transfer, its flags say what is the case, and it can be    *)
(* started again.  Only a teardown makes the reactor forget a transfer, and *)
(* but for such a teardown every call is a step of TftpServer.             *)
(***************************************************************************)
EXTENDS TftpApp, TftpTransfers_proofs

\* The flags of the application say what is the case; a table that is not in
\* use is empty; between two runs nothing is being sent; and a stopped server
\* has left a transport, and in an initialised application an entry.
AppIInv ==
    /\ app \in [inUse : BOOLEAN, initialized : BOOLEAN, running : BOOLEAN]
    /\ app.running <=> res.server # Null
    /\ app.running => app.initialized
    /\ app.initialized => app.inUse
    /\ phase # "idle" => app.running
    /\ ~app.initialized => res.regs = <<>>
    /\ phase = "idle" => sent = {}
    /\ Len(res.regs) <= MaxHandlers
    /\ ~app.running =>
        /\ \E t \in TransportSlots : ~res.transport[t].used
        /\ app.initialized => Len(res.regs) < MaxHandlers

\* A step of the loop is made inside reactor_run, and stays there.
LEMMA ReactorStaysInside ==
    ASSUME Reactor
    PROVE  phase # "idle" /\ phase' # "idle"
<1>1. CASE Poll
  BY <1>1 DEF Poll
<1>2. CASE SkipIdle
  BY <1>2 DEF SkipIdle, AtEntry, Advance
<1>3. CASE EndPass
  BY <1>3 DEF EndPass
<1>4. CASE HandlerReturns
  BY <1>4 DEF HandlerReturns, Called, AtEntry, Advance
<1>5. ASSUME NEW fd \in Fds, ServerHandler(fd)
      PROVE  phase # "idle" /\ phase' # "idle"
  <2>1. \E ctx : Receives(ctx, fd) \/ ReceiveFails(ctx, fd)
    BY <1>5
    DEF ServerHandler, ServerReceiveFails, RequestRefused, RequestGetsNoSocket,
        RequestGetsNoFileSlot, RequestedFileNotOpened, RequestNotRegistered,
        FirstDataFails, RequestServed, HasFile, Accepts
  <2>2. Advance
    BY <1>5
    DEF ServerHandler, ServerReceiveFails, RequestRefused, RequestGetsNoSocket,
        RequestGetsNoFileSlot, RequestedFileNotOpened, RequestNotRegistered,
        FirstDataFails, RequestServed
  <2> QED
    BY <2>1, <2>2 DEF Receives, ReceiveFails, Called, AtEntry, Advance
<1>6. ASSUME NEW fd \in Fds, NEW s \in TransferSlots, TransferHandler(s, fd)
      PROVE  phase # "idle" /\ phase' # "idle"
  <2>1. \E ctx, ev : Called(ctx, fd, ev)
    BY <1>6
    DEF TransferHandler, TransferMarkedFailed, PacketOfAnotherPeer,
        TransferRejects, TransferCompletes, AckAdvances, NextDataFails,
        FromPeer, Receives, ReceiveFails
  <2>2. Advance
    BY <1>6
    DEF TransferHandler, TransferMarkedFailed, PacketOfAnotherPeer,
        TransferRejects, TransferCompletes, AckAdvances, NextDataFails
  <2> QED
    BY <2>1, <2>2 DEF Called, AtEntry, Advance
<1> QED
  BY <1>1, <1>2, <1>3, <1>4, <1>5, <1>6 DEF Reactor

LEMMA AppInitial == AppInit => AppIInv
<1> SUFFICES ASSUME AppInit PROVE AppIInv
  OBVIOUS
<1>1. /\ res.regs = <<>> /\ phase = "idle" /\ sent = {} /\ res.server = Null
      /\ res.transport = [t \in TransportSlots |-> FreeTransport]
  BY DEF AppInit, Init
<1>2. 1 \in TransportSlots /\ Len(res.regs) = 0 /\ MaxHandlers \in Nat
  BY <1>1, PoolSizes DEF TransportSlots
<1>3. \E t \in TransportSlots : ~res.transport[t].used
  BY <1>1, <1>2, FreeFields
<1>4. app = [inUse |-> FALSE, initialized |-> FALSE, running |-> FALSE]
  BY DEF AppInit
<1> QED
  BY <1>1, <1>2, <1>3, <1>4 DEF AppIInv

\* Stopping the server gives back its transport and its entry of the table.
LEMMA StopGivesBack ==
    ASSUME NEW Lost, NEW r, Good(r, Lost), r.server # Null
    PROVE  LET q == StopServer(r)
           IN  /\ Good(q, Lost) /\ q.transfer = r.transfer
               /\ q.server = Null
               /\ \E t \in TransportSlots : ~q.transport[t].used
               /\ Len(q.regs) = Len(r.regs) - 1
<1> DEFINE q == StopServer(r)
<1>1. /\ Good(q, Lost) /\ q.transfer = r.transfer /\ q.server = Null
      /\ q.transport[r.server] = FreeTransport
      /\ Len(q.regs) = Len(r.regs) - 1
  BY ServerStopGood DEF StopServer
<1> HIDE DEF q
<1>2. r.server \in TransportSlots
  BY DEF Good, Objects
<1> QED
  BY <1>1, <1>2, FreeFields DEF q

\* Objects that are sound stay so when a table without the server is emptied:
\* the registrations that may have been forgotten are those of transfers.
LEMMA ForgottenSound ==
    ASSUME NEW r, Sound(r, TransferSlots), r.server = Null
    PROVE  LET q == [r EXCEPT !.regs = <<>>]
           IN  /\ Sound(q, TransferSlots)
               /\ q.regs = <<>> /\ q.server = Null
               /\ q.transport = r.transport
<1> DEFINE q == [r EXCEPT !.regs = <<>>]
<1>1. /\ q.transfer = r.transfer /\ q.file = r.file
      /\ q.transport = r.transport /\ q.regs = <<>> /\ q.server = Null
      /\ q \in Objects
  <2>1. r \in Objects
    BY DEF Sound, Good
  <2>2. <<>> \in Seq(Registrations)
    OBVIOUS
  <2> QED
    BY <2>1, <2>2 DEF Objects
<1> HIDE DEF q
<1>2. WholeOrFree(q) /\ Resumable(q)
  BY <1>1 DEF Sound, Good, WholeOrFree, Resumable, Live
<1>3. NothingShared(q)
  BY <1>1 DEF Sound, Good, NothingShared, Live
<1>4. NothingLeaks(q)
  BY <1>1 DEF Sound, Good, NothingLeaks, Live
<1>5. TableExact(q, TransferSlots)
  <2>1. DOMAIN q.regs = {}
    BY <1>1
  <2> QED
    BY <1>1, <2>1 DEF TableExact
<1>6. Sound(q, TransferSlots)
  BY <1>1, <1>2, <1>3, <1>4, <1>5 DEF Sound, Good
<1> QED
  BY <1>1, <1>6 DEF q

\* What tearing down leaves.
LEMMA TornDown ==
    ASSUME NEW Lost, Inv(Lost), AppIInv, TearDown
    PROVE  /\ res'.regs = <<>> /\ res'.server = Null
           /\ \E t \in TransportSlots : ~res'.transport[t].used
           /\ sent' = {} /\ phase = "idle" /\ UNCHANGED loop
<1>1. /\ phase = "idle" /\ sent' = {} /\ UNCHANGED loop
      /\ Good(res, Lost) /\ res \in Objects
  BY DEF TearDown, Inv, Sound, Good
<1>2. CASE res.server # Null
  <2> DEFINE q == StopServer(res)
  <2>1. /\ q.server = Null /\ q \in Objects
        /\ \E t \in TransportSlots : ~q.transport[t].used
    BY <1>1, <1>2, StopGivesBack DEF Good
  <2>2. res' = [q EXCEPT !.regs = <<>>]
    BY <1>2 DEF TearDown, Becomes
  <2> HIDE DEF q
  <2> QED
    BY <1>1, <2>1, <2>2 DEF Objects
<1>3. CASE res.server = Null
  <2>1. res' = [res EXCEPT !.regs = <<>>]
    BY <1>3 DEF TearDown
  <2>2. \E t \in TransportSlots : ~res.transport[t].used
    BY <1>3 DEF AppIInv
  <2> QED
    BY <1>1, <1>3, <2>1, <2>2 DEF Objects
<1> QED
  BY <1>2, <1>3

LEMMA AppInductive ==
    ASSUME NEW Lost, Inv(Lost), AppIInv, [AppNext]_appVars
    PROVE  AppIInv'
<1> USE PoolSizes DEF AppIInv
<1>0. /\ Good(res, Lost) /\ res \in Objects
      /\ [res EXCEPT !.regs = <<>>].regs = <<>>
      /\ [res EXCEPT !.regs = <<>>].server = res.server
      /\ [res EXCEPT !.regs = <<>>].transport = res.transport
      /\ Len(res.regs) \in Nat
  BY DEF Inv, Sound, Good, Objects
<1>1. CASE UNCHANGED appVars
  BY <1>1 DEF appVars, vars
<1>2. CASE AppAcquire
  <2>1. app.initialized = FALSE \/ app.initialized = TRUE
    OBVIOUS
  <2>2. app.running = FALSE
    BY <1>2, <2>1 DEF AppAcquire
  <2> QED
    BY <1>2, <2>1, <2>2 DEF AppAcquire, vars
<1>3. CASE AppInitialize
  <2>1. ~app.running /\ Len(<<>>) = 0 /\ 0 < MaxHandlers
    BY <1>3 DEF AppInitialize
  <2> QED
    BY <1>3, <1>0, <2>1 DEF AppInitialize, loop
<1>4. CASE AppStart
  <2>1. PICK t \in TransportSlots, fd \in Fds \ OpenFds(res) :
            /\ FirstFreeTransport(res, t)
            /\ Len(res.regs) < MaxHandlers
            /\ res' = Register([TakeTransport(res, t, fd)
                                  EXCEPT !.server = t], fd, Server)
    BY <1>4 DEF AppStart, ServerStart, Becomes
  <2>2. /\ res'.server = t /\ t # Null
        /\ Len(res'.regs) = Len(res.regs) + 1
    BY <1>0, <1>4, <2>1, ServerStartGood, SlotsAreNotNull
    DEF AppStart, ServerStart, FirstFreeTransport
  <2>3. /\ phase = "idle" /\ sent' = {} /\ UNCHANGED loop
        /\ app.initialized /\ app' = [app EXCEPT !.running = TRUE]
    BY <1>4 DEF AppStart, ServerStart
  <2>4. Len(res'.regs) <= MaxHandlers
    BY <1>0, <2>1, <2>2
  <2> QED
    BY <2>2, <2>3, <2>4 DEF loop
<1>5. CASE AppRun
  BY <1>5 DEF AppRun, ReactorRun
<1>6. CASE AppStop
  <2>1. CASE res.server # Null
    <3>1. res' = StopServer(res) /\ sent' = {} /\ UNCHANGED loop
      BY <1>6, <2>1 DEF AppStop, ServerStop, Becomes
    <3>2. /\ res'.server = Null /\ Len(res'.regs) = Len(res.regs) - 1
          /\ \E t \in TransportSlots : ~res'.transport[t].used
      BY <1>0, <2>1, <3>1, StopGivesBack
    <3>3. Len(res'.regs) < MaxHandlers /\ Len(res'.regs) <= MaxHandlers
      BY <1>0, <3>2
    <3>4. /\ app.initialized /\ phase = "idle"
          /\ app' = [app EXCEPT !.running = FALSE]
      BY <1>6, <2>1 DEF AppStop
    <3> QED
      BY <3>1, <3>2, <3>3, <3>4 DEF loop
  <2>2. CASE res.server = Null
    <3>1. app.running = FALSE
      BY <2>2
    <3> QED
      BY <1>6, <2>2, <3>1 DEF AppStop, vars
  <2> QED
    BY <2>1, <2>2
<1>7. CASE AppDeinit \/ AppRelease
  <2>1. /\ res'.regs = <<>> /\ res'.server = Null
        /\ \E t \in TransportSlots : ~res'.transport[t].used
        /\ sent' = {} /\ phase = "idle" /\ UNCHANGED loop
    BY <1>7, TornDown DEF AppDeinit, AppRelease
  <2>2. /\ app' \in [inUse : BOOLEAN, initialized : BOOLEAN,
                     running : BOOLEAN]
        /\ app'.initialized = FALSE /\ app'.running = FALSE
    <3>1. CASE AppDeinit
      <4>1. app' = [app EXCEPT !.initialized = FALSE, !.running = FALSE]
        BY <3>1 DEF AppDeinit
      <4> QED
        BY <4>1
    <3>2. CASE AppRelease
      <4>1. app' = [inUse |-> FALSE, initialized |-> FALSE, running |-> FALSE]
        BY <3>2 DEF AppRelease
      <4> QED
        BY <4>1
    <3> QED
      BY <1>7, <3>1, <3>2
  <2>3. Len(res'.regs) <= MaxHandlers
    BY <2>1
  <2> QED
    BY <2>1, <2>2, <2>3 DEF loop
<1>8. CASE Runtime
  <2>1. CASE Reactor
    <3>1. phase # "idle" /\ phase' # "idle" /\ app' = app
      BY <1>8, <2>1, ReactorStaysInside DEF Runtime
    <3>2. res'.server = res.server /\ Len(res'.regs) <= MaxHandlers
      BY <2>1, ReactorKeepsRoom
    <3> QED
      BY <3>1, <3>2
  <2>2. CASE PollFails \/ Environment
    BY <1>8, <2>2
    DEF Runtime, PollFails, Environment, SocketError, Deliver, loop
  <2> QED
    BY <1>8, <2>1, <2>2 DEF Runtime
<1> QED
  BY <1>1, <1>2, <1>3, <1>4, <1>5, <1>6, <1>7, <1>8 DEF AppNext
-----------------------------------------------------------------------------
(* Any caller. *)

\* Transfers that outlive a lifetime may lose their registrations, and
\* nothing else happens to them.
LEMMA AnyCallerKeeps ==
    ASSUME Inv(TransferSlots), AppIInv, [AppNext]_appVars
    PROVE  After(TransferSlots)
<1>1. Sound(res, TransferSlots) /\ TypeOK
  BY DEF Inv
<1>2. {} \in SUBSET Fds /\ \A i \in {} : rxq[i] # <<>>
  OBVIOUS
<1>3. CASE UNCHANGED appVars \/ AppAcquire
  BY <1>3, StepKeeps DEF appVars, AppAcquire
<1>4. CASE AppInitialize
  <2>1. res.server = Null
    BY <1>4 DEF AppIInv, AppInitialize
  <2>2. Sound(res', TransferSlots)
    BY <1>1, <1>4, <2>1, ForgottenSound DEF AppInitialize
  <2>3. TypeOK'
    BY <1>1, <1>4, <2>2 DEF AppInitialize, TypeOK, loop, Sound, Good
  <2> QED
    BY <2>2, <2>3 DEF After
<1>5. CASE AppStart \/ AppRun \/ AppStop
  <2>1. [Next]_vars
    BY <1>5 DEF AppStart, AppRun, AppStop, Next, Lifecycle
  <2> QED
    BY <2>1, StepKeeps
<1>6. CASE AppDeinit \/ AppRelease
  <2>1. TearDown /\ UNCHANGED loop
    BY <1>6 DEF AppDeinit, AppRelease, TearDown
  <2>2. CASE res.server # Null
    <3> DEFINE q == StopServer(res)
    <3>1. Good(q, TransferSlots) /\ q.transfer = res.transfer
          /\ q.server = Null
      BY <1>1, <2>2, StopGivesBack DEF Sound
    <3>2. Becomes([q EXCEPT !.regs = <<>>], {}, {})
      BY <2>1, <2>2 DEF TearDown
    <3> HIDE DEF q
    <3>3. Sound(q, TransferSlots)
      BY <1>1, <3>1, SMTT(30) DEF Sound, Resumable, Live
    <3>4. Sound([q EXCEPT !.regs = <<>>], TransferSlots)
      BY <3>1, <3>3, ForgottenSound
    <3> QED
      BY <1>2, <2>1, <3>2, <3>4, BecomesKeeps
  <2>3. CASE res.server = Null
    <3>1. res' = [res EXCEPT !.regs = <<>>] /\ UNCHANGED <<rxq, broken>>
      BY <2>1, <2>3 DEF TearDown
    <3>2. Sound(res', TransferSlots)
      BY <1>1, <2>3, <3>1, ForgottenSound
    <3>3. TypeOK'
      BY <1>1, <2>1, <3>1, <3>2 DEF TypeOK, loop, Sound, Good
    <3> QED
      BY <3>2, <3>3 DEF After
  <2> QED
    BY <2>2, <2>3
<1>7. CASE Runtime
  <2>1. [Next]_vars
    BY <1>7 DEF Runtime, Next, Lifecycle
  <2> QED
    BY <2>1, StepKeeps
<1> QED
  BY <1>3, <1>4, <1>5, <1>6, <1>7 DEF AppNext

AnyInv == Inv(TransferSlots) /\ AppIInv

LEMMA AnyCallerInvariance == AppSpec => []AnyInv
<1>1. AppInit => AnyInv
  BY AppInitial, Initial DEF AppInit, AnyInv
<1>2. AnyInv /\ [AppNext]_appVars => AnyInv'
  <2> SUFFICES ASSUME AnyInv, [AppNext]_appVars PROVE AnyInv'
    OBVIOUS
  <2>1. After(TransferSlots) /\ AppIInv'
    BY AnyCallerKeeps, AppInductive DEF AnyInv
  <2> QED
    BY <2>1, AfterIsNext DEF AnyInv
<1> QED
  BY <1>1, <1>2, PTL DEF AppSpec

\* Across any number of lifetimes, with transfers of earlier ones still in the
\* pools and whenever the caller tears down, no context that was released or
\* reused is registered: the reactor calls no stale handler.
THEOREM NoStaleContext == AppSpec => []NoStaleRegistration
<1>1. AnyInv => NoStaleRegistration
  BY DEF AnyInv, Inv, Sound, Good, TableExact, NoStaleRegistration
<1> QED
  BY <1>1, AnyCallerInvariance, PTL

\* Whoever owns a context, a file or a socket at a teardown still does: the
\* pools stay consistent although nobody tells the transfers.
THEOREM OwnershipOutlives == AppSpec => []Ownership
<1>1. AnyInv => Ownership
  BY DEF AnyInv, Inv, Sound, Good, Ownership
<1> QED
  BY <1>1, AnyCallerInvariance, PTL

\* The flags of the application agree with the server, the reactor and the
\* table, in whatever order its calls are made.
THEOREM FlagsInStep == AppSpec => []LifecycleInStep
<1>1. AnyInv => LifecycleInStep
  BY DEF AnyInv, AppIInv, LifecycleInStep
<1> QED
  BY <1>1, AnyCallerInvariance, PTL

\* However many transfers outlive a stopped server, what it gave back is
\* there when it is started again.
THEOREM CanStartAgain == AppSpec => []StartHasRoom
<1>1. AnyInv => StartHasRoom
  BY DEF AnyInv, AppIInv, StartHasRoom
<1> QED
  BY <1>1, AnyCallerInvariance, PTL

\* An empty table, and a server that is there no more, belong to no transfer.
LEMMA ForgettingIsolates ==
    ASSUME AnyInv, AppInitialize \/ TearDown,
           NEW i \in TransferSlots, Live(res, i)
    PROVE  Belongings(res', i) = Belongings(res, i)
<1>1. /\ Good(res, TransferSlots) /\ res \in Objects
      /\ res.transfer[i].transport \in TransportSlots
      /\ res.transfer[i].transport # res.server
  BY HoldingsDiffer DEF AnyInv, Inv, Sound, Good
<1>2. CASE AppInitialize \/ res.server = Null
  <2>1. res' = [res EXCEPT !.regs = <<>>]
    BY <1>2 DEF AppInitialize, TearDown
  <2>2. res'.transfer = res.transfer /\ res'.file = res.file
        /\ res'.transport = res.transport
    BY <1>1, <2>1 DEF Objects
  <2> QED
    BY <2>2, SameBelongings
<1>3. CASE TearDown /\ res.server # Null
  <2> DEFINE q == StopServer(res)
  <2>1. /\ q \in Objects /\ q.transfer = res.transfer /\ q.file = res.file
        /\ \A j \in TransportSlots \ {res.server} :
                q.transport[j] = res.transport[j]
    BY <1>1, <1>3, ServerStopGood DEF StopServer, Good
  <2>2. res' = [q EXCEPT !.regs = <<>>]
    BY <1>3 DEF TearDown, Becomes
  <2> HIDE DEF q
  <2>3. res'.transfer = q.transfer /\ res'.file = q.file
        /\ res'.transport = q.transport
    BY <2>1, <2>2 DEF Objects
  <2> QED
    BY <1>1, <2>1, <2>3, SameBelongings
<1> QED
  BY <1>2, <1>3

\* Isolation outlives a teardown: no call of the application, in any order,
\* changes a live transfer or what it holds.
THEOREM IsolationOutlives == AppSpec => Isolation
<1> DEFINE A == \A s \in TransferSlots :
        Live(res, s) /\ Belongings(res', s) # Belongings(res, s) =>
            \/ \E fd \in Fds : FromPeer(s, fd)
            \/ /\ AtEntry /\ res.regs[next].ctx = s
               /\ res' = Abort(res, s)
<1>1. AnyInv /\ [AppNext]_appVars => [A]_vars
  <2> SUFFICES ASSUME AnyInv, [AppNext]_appVars,
                      NEW i \in TransferSlots, Live(res, i),
                      Belongings(res', i) # Belongings(res, i)
               PROVE  \/ \E fd \in Fds : FromPeer(i, fd)
                      \/ /\ AtEntry /\ res.regs[next].ctx = i
                         /\ res' = Abort(res, i)
    OBVIOUS
  <2>1. ~AppInitialize /\ ~TearDown
    BY ForgettingIsolates
  <2>2. [Next]_vars
    BY <2>1 DEF AppNext, AppAcquire, AppStart, AppRun, AppStop, AppDeinit,
                AppRelease, Runtime, Next, Lifecycle, appVars, vars
  <2> QED
    BY <2>2, StepIsolates DEF AnyInv
<1> QED
  BY <1>1, AnyCallerInvariance, PTL DEF AppSpec, Isolation
-----------------------------------------------------------------------------
(* What the reactor forgets. *)

LEMMA SameTable ==
    ASSUME NEW r, r \in Objects, r.regs = <<>>
    PROVE  [r EXCEPT !.regs = <<>>] = r
BY DEF Objects

Orphans == {s \in TransferSlots : Live(res, s) /\ ~Heard(res, s)}

\* Of the transfers that are no orphans the invariant holds in full.
LEMMA OrphansApart ==
    ASSUME Inv(TransferSlots)
    PROVE  Inv(Orphans)
<1>1. TableExact(res, Orphans)
  BY DEF Inv, Sound, Good, TableExact, Orphans, Heard, Registered
<1> QED
  BY <1>1 DEF Inv, Sound, Good

\* No handler is called for a transfer that is not registered.
LEMMA UnheardKept ==
    ASSUME Inv(TransferSlots), [Next]_vars, NEW s \in Orphans
    PROVE  Belongings(res', s) = Belongings(res, s)
<1>1. s \in TransferSlots /\ Live(res, s)
  BY DEF Orphans
<1>2. \A i \in DOMAIN res.regs : res.regs[i].ctx # s
  BY DEF Orphans, Heard
<1>3. \A i \in Nat \ {0} : i <= Len(res.regs) => i \in DOMAIN res.regs
  BY DEF Inv, TypeOK, Objects
<1>4. next \in Nat \ {0}
  BY DEF Inv, TypeOK
<1>5. AtEntry => res.regs[next].ctx # s
  BY <1>2, <1>3, <1>4 DEF AtEntry
<1>6. \A fd \in Fds : ~FromPeer(s, fd)
  BY <1>5 DEF FromPeer, Receives, Called
<1> QED
  BY <1>1, <1>5, <1>6, StepIsolates

\* Only a teardown makes the reactor forget a live transfer, over any number
\* of lifetimes and however full the table is; and one that an earlier
\* teardown left behind stays exactly as it was left.
THEOREM OnlyTeardownLosesTransfers == AppSpec => OnlyTeardownForgets
<1> DEFINE A == \A s \in TransferSlots : Live(res', s) /\ ~Heard(res', s) =>
        \/ AppDeinit \/ AppRelease
        \/ /\ Live(res, s) /\ ~Heard(res, s)
           /\ Belongings(res', s) = Belongings(res, s)
<1>1. AnyInv /\ [AppNext]_appVars => [A]_appVars
  <2> SUFFICES ASSUME AnyInv, [AppNext]_appVars, ~AppDeinit, ~AppRelease,
                      NEW s \in TransferSlots, Live(res', s), ~Heard(res', s)
               PROVE  /\ Live(res, s) /\ ~Heard(res, s)
                      /\ Belongings(res', s) = Belongings(res, s)
    OBVIOUS
  <2>1. CASE AppInitialize
    <3>1. res' = res
      BY <2>1, SameTable DEF AppInitialize, AnyInv, AppIInv, Inv, TypeOK
    <3> QED
      BY <3>1
  <2>2. CASE ~AppInitialize
    <3>1. [Next]_vars
      BY <2>2 DEF AppNext, AppAcquire, AppStart, AppRun, AppStop, Runtime,
                  Next, Lifecycle, appVars, vars
    <3>2. After(Orphans)
      BY <3>1, OrphansApart, StepKeeps DEF AnyInv
    <3>3. s \in Orphans
      BY <3>2 DEF After, Sound, Good, TableExact, Registered, Heard
    <3> QED
      BY <3>1, <3>3, UnheardKept DEF AnyInv, Orphans
  <2> QED
    BY <2>1, <2>2
<1> QED
  BY <1>1, AnyCallerInvariance, PTL DEF AppSpec, OnlyTeardownForgets
-----------------------------------------------------------------------------
(* The calls of the application and the steps of the server. *)

\* A table without the server in which no transfer is registered is empty.
LEMMA NothingRegistered ==
    ASSUME NEW Lost, NEW r, Good(r, Lost), r.server = Null,
           \A s \in TransferSlots : Live(r, s) => ~Heard(r, s)
    PROVE  r.regs = <<>>
<1>1. r.regs \in Seq(Registrations)
  BY DEF Good, Objects
<1>2. \A i \in DOMAIN r.regs : FALSE
  <2> SUFFICES ASSUME NEW i \in DOMAIN r.regs PROVE FALSE
    OBVIOUS
  <2>1. r.regs[i].ctx \in TransferSlots \cup {Server}
    <3>1. r.regs[i] \in Registrations
      BY <1>1
    <3> QED
      BY <3>1 DEF Registrations
  <2>2. OwnTransport(r, r.regs[i].ctx) # Null
    BY DEF Good, TableExact, Owns
  <2>3. \A s \in TransferSlots : ~Live(r, s) => r.transfer[s].transport = Null
    BY FreeFields DEF Good, WholeOrFree, FreeTransfer, Live
  <2>4. r.regs[i].ctx \in TransferSlots => Live(r, r.regs[i].ctx)
    BY <2>2, <2>3, SlotsAreNotNull DEF OwnTransport
  <2> QED
    BY <2>1, <2>2, <2>4 DEF OwnTransport, Heard
<1>3. Len(r.regs) \in Nat /\ DOMAIN r.regs = 1 .. Len(r.regs)
  BY <1>1
<1>4. Len(r.regs) = 0
  <2>1. 1 \notin DOMAIN r.regs
    BY <1>2
  <2> QED
    BY <1>3, <2>1
<1> QED
  BY <1>1, <1>4, EmptySeq

\* Stopping the server registers nothing.
LEMMA StopHearsNoMore ==
    ASSUME NEW Lost, NEW r, Good(r, Lost), r.server # Null,
           NEW s \in TransferSlots, Heard(StopServer(r), s)
    PROVE  Heard(r, s)
<1> DEFINE fd == r.transport[r.server].fd
           q == StopServer(r)
           u == Unregister(r, fd)
<1>1. r \in Objects /\ r.regs \in Seq(Registrations)
  BY DEF Good, Objects
<1>2. PICK k \in DOMAIN r.regs : r.regs[k].fd = fd
  <2>1. Registered(r, Server)
    BY DEF Good, TableExact
  <2> QED
    BY <2>1 DEF Registered, Good, TableExact, Owns, OwnTransport
<1>3. u = [r EXCEPT !.regs = RemoveAt(@, k)]
  BY <1>1, <1>2, UnregisterOnce DEF Good, TableExact
<1> HIDE DEF fd
<1>4. q.regs = RemoveAt(r.regs, k)
  <2>1. q = [ReleaseTransport(u, r.server) EXCEPT !.server = Null]
    BY DEF StopServer, fd
  <2>2. u \in Objects /\ u.regs = RemoveAt(r.regs, k)
    BY <1>1, <1>2, <1>3, RemoveAtEntries DEF Objects
  <2> HIDE DEF u, q
  <2> QED
    BY <2>1, <2>2 DEF ReleaseTransport, Objects
<1>5. PICK i \in DOMAIN q.regs : q.regs[i].ctx = s
  BY DEF Heard
<1>6. k \in 1 .. Len(r.regs) /\ DOMAIN r.regs = 1 .. Len(r.regs)
  BY <1>1, <1>2
<1>7. \E j \in DOMAIN r.regs : q.regs[i] = r.regs[j]
  <2>1. /\ q.regs \in Seq(Registrations) /\ Len(q.regs) = Len(r.regs) - 1
        /\ \A j \in 1 .. Len(r.regs) - 1 :
                q.regs[j] = IF j < k THEN r.regs[j] ELSE r.regs[j + 1]
    BY <1>1, <1>4, <1>6, RemoveAtEntries
  <2> HIDE DEF q
  <2>2. i \in 1 .. Len(r.regs) - 1 /\ Len(r.regs) \in Nat
    BY <1>1, <1>5, <2>1
  <2>3. CASE i < k
    <3>1. q.regs[i] = r.regs[i] /\ i \in DOMAIN r.regs
      BY <1>6, <2>1, <2>2, <2>3
    <3> QED
      BY <3>1
  <2>4. CASE ~(i < k)
    <3>1. q.regs[i] = r.regs[i + 1] /\ i + 1 \in DOMAIN r.regs
      BY <1>6, <2>1, <2>2, <2>4
    <3> QED
      BY <3>1
  <2> QED
    BY <2>3, <2>4
<1> QED
  BY <1>5, <1>7 DEF Heard

\* A teardown that has nothing to forget is tftp_server_stop.
LEMMA TearDownIsServerStop ==
    ASSUME NEW Lost, Inv(Lost), AppIInv, TearDown,
           \A s \in TransferSlots : Live(res, s) => ~Heard(res, s)
    PROVE  ServerStop \/ UNCHANGED vars
<1>1. /\ Good(res, Lost) /\ phase = "idle" /\ sent = {} /\ sent' = {}
      /\ UNCHANGED loop
  BY DEF Inv, Sound, AppIInv, TearDown
<1>2. CASE res.server # Null
  <2> DEFINE q == StopServer(res)
  <2>1. Good(q, Lost) /\ q.transfer = res.transfer /\ q.server = Null
    BY <1>1, <1>2, StopGivesBack
  <2>2. \A s \in TransferSlots : Live(q, s) => ~Heard(q, s)
    BY <1>1, <1>2, <2>1, StopHearsNoMore DEF Live
  <2>3. Becomes([q EXCEPT !.regs = <<>>], {}, {})
    BY <1>2 DEF TearDown
  <2> HIDE DEF q
  <2>4. [q EXCEPT !.regs = <<>>] = q
    BY <2>1, <2>2, NothingRegistered, SameTable DEF Good
  <2>5. Becomes(q, {}, {})
    BY <2>3, <2>4
  <2> QED
    BY <1>1, <1>2, <2>5 DEF ServerStop, q
<1>3. CASE res.server = Null
  <2>1. res' = [res EXCEPT !.regs = <<>>] /\ UNCHANGED <<rxq, broken>>
    BY <1>3 DEF TearDown
  <2>2. res' = res
    BY <1>1, <1>3, <2>1, NothingRegistered, SameTable DEF Good
  <2> QED
    BY <1>1, <2>1, <2>2 DEF vars, loop
<1> QED
  BY <1>2, <1>3

\* But for a teardown that forgets a transfer, the application takes no step
\* that is not the server's, with or without transfers of earlier lifetimes:
\* what holds of the steps of TftpServer holds of all its other calls.
THEOREM CallsAreServerSteps == AppSpec => ServerUnlessForgotten
<1> DEFINE A == \/ [Next]_vars
                \/ /\ AppDeinit \/ AppRelease
                   /\ \E s \in TransferSlots : Live(res, s) /\ Heard(res, s)
<1>1. AnyInv /\ [AppNext]_appVars => [A]_appVars
  <2> SUFFICES ASSUME AnyInv, [AppNext]_appVars PROVE A
    OBVIOUS
  <2>1. CASE UNCHANGED appVars \/ AppAcquire
    BY <2>1 DEF appVars, AppAcquire
  <2>2. CASE AppInitialize
    <3>1. res' = res
      BY <2>2, SameTable DEF AppInitialize, AnyInv, AppIInv, Inv, TypeOK
    <3> QED
      BY <2>2, <3>1 DEF AppInitialize, AnyInv, AppIInv, vars, loop
  <2>3. CASE AppStart \/ AppRun \/ AppStop
    BY <2>3 DEF AppStart, AppRun, AppStop, Next, Lifecycle
  <2>4. CASE AppDeinit \/ AppRelease
    BY <2>4, TearDownIsServerStop
    DEF AppDeinit, AppRelease, AnyInv, Next, Lifecycle
  <2>5. CASE Runtime
    BY <2>5 DEF Runtime, Next, Lifecycle
  <2> QED
    BY <2>1, <2>2, <2>3, <2>4, <2>5 DEF AppNext
<1> QED
  BY <1>1, AnyCallerInvariance, PTL DEF AppSpec, ServerUnlessForgotten
-----------------------------------------------------------------------------
(* Refusals. *)

\* Among transfers of earlier lifetimes, which hold contexts, files and
\* transports that no one gives back, a request that is refused or fails still
\* leaves the pools and the table as they were.
THEOREM RefusalsUndoneAgain == AppSpec => RefusalLeavesNoTrace
<1> DEFINE A == /\ \E fd \in Fds : Receives(Server, fd)
                /\ \A m \in sent' : m.kind # "DATA"
                => res' = res
<1>1. AnyInv /\ [AppNext]_appVars => [A]_vars
  <2> SUFFICES ASSUME AnyInv, [AppNext]_appVars,
                      NEW fd \in Fds, Receives(Server, fd),
                      \A m \in sent' : m.kind # "DATA"
               PROVE  res' = res
    OBVIOUS
  <2>1. phase = "dispatch"
    BY DEF Receives, Called, AtEntry
  <2>2. ~AppInitialize /\ ~TearDown
    BY <2>1 DEF AppInitialize, TearDown
  <2>3. [Next]_vars
    BY <2>2 DEF AppNext, AppAcquire, AppStart, AppRun, AppStop, AppDeinit,
                AppRelease, Runtime, Next, Lifecycle, appVars, vars
  <2> QED
    BY <2>3, RefusalUndone DEF AnyInv
<1> QED
  BY <1>1, AnyCallerInvariance, PTL DEF AppSpec, RefusalLeavesNoTrace
=============================================================================
