----------------------------- MODULE HttpServer -----------------------------
(***************************************************************************)
(* The HTTP server as a process: main serves until a signal comes          *)
(* (cmd/server/main.go, serveUntilSignal), a goroutine listens and another *)
(* reaps (internal/httpmcp/server.go, ListenAndServe, startReaper), and    *)
(* the handlers are those of HttpSessions.  What net/http does when it is  *)
(* told to shut down is modelled as serveUntilSignal relies on it.         *)
(***************************************************************************)
EXTENDS HttpSessions, Sequences

CONSTANT Grace     \* shutdownGrace, in ticks

ASSUME GraceAssumption == Grace \in Nat

VARIABLES
    main,          \* next step of the main goroutine
    handled,       \* signals come to the channel instead of killing the process
    signals,       \* what the channel holds, of capacity 1
    deadline,      \* when the grace ends, or NotRead
    listener,      \* where the goroutine of ListenAndServe is
    errs,          \* the channel of its result, of capacity 1
    stopping,      \* http.Server: Shutdown or Close has been called
    reaper,        \* "none", "running" or "stopped"
    exit,          \* "no", or how the process ended
    signalled,     \* the time of the first signal handled, or NotRead (history)
    cut            \* handlers whose request was cut off (history)

http == <<clock, server, pc, req, sess, status, reapNow, history>>
process == <<main, handled, signals, deadline, listener, errs, stopping, reaper,
             exit, signalled, cut>>

\* Mutant: main registers for signals once the server is on its way.
LaunchFirst == <<"launch", "notify", "select">>

StartOrder == <<"notify", "launch", "select">>

After(step) == StartOrder[1 + CHOOSE i \in DOMAIN StartOrder : StartOrder[i] = step]

InitServer ==
    /\ Init
    /\ main = Head(StartOrder) /\ handled = FALSE /\ signals = 0 /\ deadline = NotRead
    /\ listener = "unstarted" /\ errs = << >> /\ stopping = FALSE /\ reaper = "none"
    /\ exit = "no" /\ signalled = NotRead /\ cut = {}

InFlight == {h \in Handlers : pc[h] # "idle"}

Ends(how) ==
    /\ main' = "exited" /\ exit' = how
    /\ cut' = cut \cup InFlight

---------------------------------------------------------------------------
(* The main goroutine.                                                     *)

\* signal.Notify, before the server is started.
Notify ==
    /\ main = "notify"
    /\ handled' = TRUE /\ main' = After("notify")
    /\ UNCHANGED <<http, signals, deadline, listener, errs, stopping, reaper,
                   exit, signalled, cut>>

\* go func() { ... server.ListenAndServe() ... }
Launch ==
    /\ main = "launch"
    /\ listener' = "started" /\ main' = After("launch")
    /\ UNCHANGED <<http, handled, signals, deadline, errs, stopping, reaper,
                   exit, signalled, cut>>

\* Mutant: no deadline for the requests in progress (context.Background).
NoDeadline(t) == MaxClock + 1

Deadline(t) == t + Grace

\* select, which takes either channel when both are ready.  On a signal,
\* Shutdown closes the listener and the idle connections.
SelectSignal ==
    /\ main = "select" /\ signals = 1
    /\ signals' = 0 /\ main' = "shutdown"
    /\ deadline' = Deadline(clock) /\ stopping' = TRUE
    /\ UNCHANGED <<http, handled, listener, errs, reaper, exit, signalled, cut>>

\* The listener has failed: Fatalf, which runs nothing that was deferred.
SelectError ==
    /\ main = "select" /\ errs = <<"error">>
    /\ Ends("fatal")
    /\ UNCHANGED <<http, handled, signals, deadline, listener, errs, stopping,
                   reaper, signalled>>

AllAnswered == InFlight = {}

\* Shutdown returns when every connection is idle; signal.Stop is deferred.
ShutdownDone ==
    /\ main = "shutdown" /\ AllAnswered
    /\ main' = "return" /\ handled' = FALSE
    /\ UNCHANGED <<http, signals, deadline, listener, errs, stopping, reaper,
                   exit, signalled, cut>>

\* The grace is over: Close takes the connections away from the handlers,
\* which go on until the process ends.
ShutdownTimesOut ==
    /\ main = "shutdown" /\ clock >= deadline
    /\ main' = "return" /\ handled' = FALSE
    /\ cut' = InFlight
    /\ UNCHANGED <<http, signals, deadline, listener, errs, stopping, reaper,
                   exit, signalled>>

\* The deferred repo.Close, and the end.
Exit ==
    /\ main = "return"
    /\ Ends("normal")
    /\ UNCHANGED <<http, handled, signals, deadline, listener, errs, stopping,
                   reaper, signalled>>

MainStep ==
    Notify \/ Launch \/ SelectSignal \/ SelectError \/ ShutdownDone
        \/ ShutdownTimesOut \/ Exit

\* SIGINT or SIGTERM: a full channel drops it, and unhandled it kills.
\* Bound of the instance: the grace ends before the last tick.
Signal ==
    /\ exit = "no" /\ clock + Grace < MaxClock
    /\ \/ /\ handled
          /\ signals' = 1
          /\ signalled' = IF signalled = NotRead THEN clock ELSE signalled
          /\ UNCHANGED <<main, exit, cut>>
       \/ ~handled /\ Ends("killed") /\ UNCHANGED <<signals, signalled>>
    /\ UNCHANGED <<http, handled, deadline, listener, errs, stopping, reaper>>

---------------------------------------------------------------------------
(* The goroutine of ListenAndServe, and the reaper it starts.              *)

StartReaper ==
    /\ exit = "no" /\ listener = "started"
    /\ listener' = "binding" /\ reaper' = "running"
    /\ UNCHANGED <<http, main, handled, signals, deadline, errs, stopping,
                   exit, signalled, cut>>

\* http.Server looks at the flag of Shutdown before it listens.
Serving ==
    /\ exit = "no" /\ listener = "binding" /\ ~stopping
    /\ listener' = "serving"
    /\ UNCHANGED <<http, main, handled, signals, deadline, errs, stopping, reaper,
                   exit, signalled, cut>>

\* ListenAndServe returns: the port is taken or accepting fails, or it is the
\* ErrServerClosed of a shutdown.
ListenerReturns ==
    /\ exit = "no" /\ listener \in {"binding", "serving"}
    /\ listener' = "returned"
    /\ errs' = IF stopping THEN <<"nil">> ELSE <<"error">>
    /\ UNCHANGED <<http, main, handled, signals, deadline, stopping, reaper,
                   exit, signalled, cut>>

\* The deferred close(stop), when the reaper is between two ticks.
ReaperStops ==
    /\ exit = "no" /\ listener = "returned" /\ reaper = "running" /\ reapNow = NotRead
    /\ reaper' = "stopped"
    /\ UNCHANGED <<http, main, handled, signals, deadline, listener, errs, stopping,
                   exit, signalled, cut>>

\* Of a stop and a tick that are both ready, select takes either.
ReaperStep ==
    /\ exit = "no" /\ reaper = "running" /\ (ReapStart \/ Reap)
    /\ UNCHANGED process

---------------------------------------------------------------------------
(* The handlers.                                                           *)

\* A connection that Shutdown finds idle is closed.
Accept(h) ==
    /\ exit = "no" /\ listener = "serving" /\ ~stopping
    /\ \E r \in Requests : Receive(h, r) \/ ReceiveRefused(h, r)
    /\ UNCHANGED process

HandlerStep(h) == exit = "no" /\ Resolve(h) /\ UNCHANGED process
HandlerLocks(h) == exit = "no" /\ Lock(h) /\ UNCHANGED process
HandlerServes(h) == exit = "no" /\ (Serve(h) \/ Delete(h)) /\ UNCHANGED process

MainWaits ==
    \/ main = "select" /\ signals = 0 /\ errs = << >>
    \/ main = "shutdown" /\ clock < deadline

\* What wakes main does so within the tick.
TimePasses ==
    /\ MainWaits /\ Tick
    /\ UNCHANGED process

Finished == exit # "no" /\ UNCHANGED <<http, process>>

NextServer ==
    \/ MainStep \/ Signal \/ StartReaper \/ Serving \/ ListenerReturns
    \/ ReaperStops \/ ReaperStep \/ TimePasses \/ Finished
    \/ \E h \in Handlers :
          Accept(h) \/ HandlerStep(h) \/ HandlerLocks(h) \/ HandlerServes(h)

svars == <<http, process>>

\* Goroutines run on; sync.Mutex hands itself to who has waited longest once
\* somebody waits too long, so no waiter is overtaken for ever.
SpecServer ==
    /\ InitServer /\ [][NextServer]_svars
    /\ WF_svars(MainStep)
    /\ \A h \in Handlers :
          /\ WF_svars(HandlerStep(h) \/ HandlerServes(h))
          /\ SF_svars(HandlerLocks(h))

---------------------------------------------------------------------------

\* A request is cut off only when the grace is over, or when the listener
\* fails: no signal, however early, late or repeated, ends the process under
\* a request that had Grace to finish (serveUntilSignal).
CutOnlyAfterGrace ==
    cut # {} =>
        \/ exit = "fatal"
        \/ signalled # NotRead /\ clock >= signalled + Grace

\* The process is gone when the grace is over, whatever is still in progress.
StopsWithinGrace ==
    signalled # NotRead /\ clock > signalled + Grace => exit # "no"

\* Every request is answered, though it may have to wait for the session,
\* unless it is cut off.
EveryRequestAnswered ==
    \A h \in Handlers : pc[h] # "idle" ~> (pc[h] = "idle" \/ h \in cut)
===========================================================================
