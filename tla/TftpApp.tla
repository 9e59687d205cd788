------------------------------- MODULE TftpApp -------------------------------
(***************************************************************************)
(* The application around the server: one process-wide object that is      *)
(* acquired, initialised, started, run, stopped, torn down and released,   *)
(* any number of times and in any order its caller likes, while transfers  *)
(* it does not know of hold their contexts, files and sockets.             *)
(*                                                                         *)
(* Its calls are made between two runs of the reactor: reactor_run comes   *)
(* back when poll fails (a signal), and the caller decides.                *)
(***************************************************************************)
EXTENDS TftpServer

VARIABLE app    \* g_app_in_use and the flags of g_app

appVars == <<vars, app>>

AppInit ==
    /\ Init
    /\ app = [inUse |-> FALSE, initialized |-> FALSE, running |-> FALSE]
-----------------------------------------------------------------------------
AppAcquire ==
    /\ phase = "idle" /\ ~app.inUse
    /\ app' = [inUse |-> TRUE, initialized |-> FALSE, running |-> FALSE]
    /\ UNCHANGED vars

\* tftp_app_init: the reactor and the server are there whenever the
\* application does not hold them, so acquiring them does not fail.
AppInitialize ==
    /\ phase = "idle" /\ app.inUse /\ ~app.initialized
    /\ app' = [app EXCEPT !.initialized = TRUE, !.running = FALSE]
    /\ res' = [res EXCEPT !.regs = <<>>]
    /\ sent' = {}
    /\ UNCHANGED <<rxq, broken, loop>>

\* A start that fails changes nothing.
AppStart ==
    /\ app.initialized /\ ~app.running
    /\ ServerStart
    /\ app' = [app EXCEPT !.running = TRUE]

AppRun ==
    /\ app.initialized /\ app.running
    /\ ReactorRun
    /\ UNCHANGED app

\* Mutant: the server is left as it is.
StopKeepsServer ==
    /\ phase = "idle" /\ app.inUse
    /\ app' = [app EXCEPT !.running = FALSE]
    /\ UNCHANGED vars
AppStop ==
    /\ phase = "idle" /\ app.inUse
    /\ app' = [app EXCEPT !.running = FALSE]
    /\ IF res.server # Null THEN ServerStop ELSE UNCHANGED vars

\* Mutant: the registrations stay in the reactor, and the flag of the server.
TearDownKeepsTable ==
    /\ phase = "idle" /\ app.inUse
    /\ res.server # Null /\ res' = [res EXCEPT !.server = Null]
    /\ sent' = {}
    /\ UNCHANGED <<rxq, broken, loop>>

\* tftp_app_deinit: the server is stopped, the reactor forgets whatever else
\* is registered; nobody tells the transfers.
TearDown ==
    /\ phase = "idle" /\ app.inUse
    /\ \/ /\ res.server # Null
          /\ Becomes([StopServer(res) EXCEPT !.regs = <<>>], {}, {})
       \/ /\ res.server = Null
          /\ res' = [res EXCEPT !.regs = <<>>]
          /\ UNCHANGED <<rxq, broken>>
    /\ sent' = {}
    /\ UNCHANGED loop

AppDeinit ==
    /\ TearDown
    /\ app' = [app EXCEPT !.initialized = FALSE, !.running = FALSE]

AppRelease ==
    /\ TearDown
    /\ app' = [inUse |-> FALSE, initialized |-> FALSE, running |-> FALSE]

Runtime == (Reactor \/ PollFails \/ Environment) /\ UNCHANGED app

AppNext ==
    \/ AppAcquire
    \/ AppInitialize
    \/ AppStart
    \/ AppRun
    \/ AppStop
    \/ AppDeinit
    \/ AppRelease
    \/ Runtime

AppSpec == AppInit /\ [][AppNext]_appVars
-----------------------------------------------------------------------------
(* Properties *)

\* What the application believes and what is the case agree: it is running
\* exactly while the server holds a transport, the reactor is entered only
\* in a running application, and one that is not initialised has an empty
\* table, whatever was registered before.
LifecycleInStep ==
    /\ app.running <=> res.server # Null
    /\ app.running => app.initialized
    /\ app.initialized => app.inUse
    /\ phase # "idle" => app.running
    /\ ~app.initialized => res.regs = <<>>

\* Across any number of lifetimes, and with transfers of an earlier one still
\* in the pools, the reactor never calls a handler for a context that has
\* been released or reused.
NoStaleRegistration ==
    /\ \A i \in DOMAIN res.regs : Owns(res, res.regs[i].ctx, res.regs[i].fd)
    /\ \A i, j \in DOMAIN res.regs : res.regs[i].fd = res.regs[j].fd => i = j

\* An application that can be started has what the start needs: the
\* transport and the entry a stopped server gave back are still there, for
\* all the transfers that outlive it, of this lifetime or an earlier one.
StartHasRoom ==
    app.initialized /\ ~app.running =>
        /\ \E t \in TransportSlots : ~res.transport[t].used
        /\ Len(res.regs) < MaxHandlers

\* The reactor calls the handler of transfer s.
Heard(r, s) == \E i \in DOMAIN r.regs : r.regs[i].ctx = s

\* A live transfer that the reactor does not know of is one that an earlier
\* teardown has left behind, and stays as it was left; or it is left behind
\* by this step, a teardown.  Requests, failures, stops, and starts of later
\* lifetimes, with the table full or entries shifting, forget no transfer.
OnlyTeardownForgets ==
    [][\A s \in TransferSlots : Live(res', s) /\ ~Heard(res', s) =>
        \/ AppDeinit \/ AppRelease
        \/ /\ Live(res, s) /\ ~Heard(res, s)
           /\ Belongings(res', s) = Belongings(res, s)]_appVars

\* Every call of the application is a step of the server alone, except a
\* teardown that forgets a transfer: with none to forget, whatever outlives
\* earlier lifetimes, it does what tftp_server_stop would have done.
ServerUnlessForgotten ==
    [][\/ [Next]_vars
       \/ /\ AppDeinit \/ AppRelease
          /\ \E s \in TransferSlots : Live(res, s) /\ Heard(res, s)]_appVars
=============================================================================
