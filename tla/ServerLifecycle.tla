-------------------------- MODULE ServerLifecycle --------------------------
(***************************************************************************)
(* The life of the process: main, the thread that waits for the gRPC       *)
(* server, the event loop of app().run(), and the calls of GetUser that    *)
(* gRPC runs on threads of its own.                                        *)
(*                                                                         *)
(* GetUser blocks in SurrealClient::exec until the event loop has sent its *)
(* request and received the answer.  The gRPC server takes calls from      *)
(* BuildAndStart to Shutdown; the loop serves requests from run() to the   *)
(* signal that ends it.  The two spans overlap but neither contains the    *)
(* other.                                                                  *)
(***************************************************************************)
CONSTANT Calls  \* calls of GetUser that gRPC may have in hand at once

VARIABLES
    main,    \* where main is
    loop,    \* the event loop: "new", "running" or "stopped"
    server,  \* the gRPC server: "down", "serving", "draining" or "stopped"
    waiter,  \* grpcThread: "none", "waiting" or "ended"
    call     \* each call: "none", "entered", or "query" while exec blocks

life == <<main, loop, server, waiter, call>>

-----------------------------------------------------------------------------
(* main.                                                                   *)

\* Either EXIT_FAILURE, or the server runs and grpcThread waits for its end.
BuildAndStart ==
    /\ main = "build"
    /\ \/ main' = "failed" /\ UNCHANGED <<server, waiter>>
       \/ main' = "setup" /\ server' = "serving" /\ waiter' = "waiting"
    /\ UNCHANGED <<loop, call>>

\* Mutant: main waits for the gRPC server itself, in place of grpcThread.
RunAfterWait ==
    /\ main = "setup"
    /\ server = "stopped"
    /\ main' = "running"
    /\ loop' = "running"
    /\ UNCHANGED <<server, waiter, call>>

\* Listener, CORS advice and the OPTIONS handler, then app().run().
Run ==
    /\ main = "setup"
    /\ main' = "running"
    /\ loop' = "running"
    /\ UNCHANGED <<server, waiter, call>>

\* Mutant: main leaves without shutting the gRPC server down.
RunReturnsLeaves ==
    /\ main = "running"
    /\ loop = "stopped"
    /\ main' = "exited"
    /\ UNCHANGED <<loop, server, waiter, call>>

RunReturns ==
    /\ main = "running"
    /\ loop = "stopped"
    /\ main' = "returned"
    /\ UNCHANGED <<loop, server, waiter, call>>

\* Mutant: join comes before Shutdown.
ShutdownAfterJoin ==
    /\ main = "returned"
    /\ waiter = "ended"
    /\ main' = "shutdown"
    /\ server' = "draining"
    /\ UNCHANGED <<loop, waiter, call>>

\* From here on no call is accepted.  There is no deadline.
Shutdown ==
    /\ main = "returned"
    /\ main' = "shutdown"
    /\ server' = "draining"
    /\ UNCHANGED <<loop, waiter, call>>

ShutdownReturns ==
    /\ main = "shutdown"
    /\ \A c \in Calls : call[c] = "none"
    /\ main' = "join"
    /\ server' = "stopped"
    /\ UNCHANGED <<loop, waiter, call>>

\* grpcThread returns from Wait.
WaitReturns ==
    /\ waiter = "waiting"
    /\ server = "stopped"
    /\ waiter' = "ended"
    /\ UNCHANGED <<main, loop, server, call>>

Join ==
    /\ main = "join"
    /\ waiter = "ended"
    /\ main' = "exited"
    /\ UNCHANGED <<loop, server, waiter, call>>

-----------------------------------------------------------------------------
(* The event loop's end, and GetUser.                                      *)

\* SIGINT or SIGTERM: the loop leaves what is queued in it.
Signal ==
    /\ loop = "running"
    /\ loop' = "stopped"
    /\ UNCHANGED <<main, server, waiter, call>>

\* gRPC hands a call to GetUser.  One without an id is refused at once.
Receive(c) ==
    /\ server = "serving"
    /\ call[c] = "none"
    /\ call' = [call EXCEPT ![c] = "entered"]
    /\ UNCHANGED <<main, loop, server, waiter>>

\* selectById queues its request in the loop, whether that runs or not; an id
\* with a quote or a semicolon throws before.
Query(c) ==
    /\ call[c] = "entered"
    /\ call' \in {[call EXCEPT ![c] = "query"], [call EXCEPT ![c] = "none"]}
    /\ UNCHANGED <<main, loop, server, waiter>>

\* The loop runs the call's request to its end: a user, no row or an exception,
\* answered with OK, NOT_FOUND or INTERNAL.
Reply(c) ==
    /\ call[c] = "query"
    /\ loop = "running"
    /\ call' = [call EXCEPT ![c] = "none"]
    /\ UNCHANGED <<main, loop, server, waiter>>

-----------------------------------------------------------------------------
LifeInit ==
    /\ main = "build"
    /\ loop = "new"
    /\ server = "down"
    /\ waiter = "none"
    /\ call = [c \in Calls |-> "none"]

Main == BuildAndStart \/ Run \/ RunReturns \/ Shutdown \/ ShutdownReturns \/ Join

LifeNext ==
    \/ Main \/ WaitReturns \/ Signal
    \/ \E c \in Calls : Receive(c) \/ Query(c) \/ Reply(c)

LifeSpec == LifeInit /\ [][LifeNext]_life

\* Threads that can go on do, and a running loop gets to every request: exec
\* returns or throws.  No signal and no call need ever come.
LifeFairness ==
    /\ WF_life(Main) /\ WF_life(WaitReturns)
    /\ \A c \in Calls : WF_life(Query(c)) /\ WF_life(Reply(c))

FairLifeSpec == LifeSpec /\ LifeFairness

-----------------------------------------------------------------------------
(* Properties.                                                             *)

\* Where main is fixes the server, the loop but for the signal, and whether there
\* is a grpcThread: in particular run() starts with the server serving, and nothing
\* is destroyed that is in use: main never ends, in success or failure, with a call
\* in hand or grpcThread alive.
EndsClean ==
    /\ main \in {"build", "failed", "setup", "running", "returned", "shutdown",
                 "join", "exited"}
    /\ loop \in CASE main \in {"build", "failed", "setup"} -> {"new"}
                   [] main = "running" -> {"running", "stopped"}
                   [] OTHER -> {"stopped"}
    /\ server = CASE main \in {"build", "failed"} -> "down"
                  [] main \in {"setup", "running", "returned"} -> "serving"
                  [] main = "shutdown" -> "draining"
                  [] OTHER -> "stopped"
    /\ waiter \in CASE main \in {"build", "failed"} -> {"none"}
                     [] main = "exited" -> {"ended"}
                     [] OTHER -> {"waiting", "ended"}
    /\ main \in {"failed", "exited"} => \A c \in Calls : call[c] = "none"

\* A call whose request nobody will ever send.
Stuck(c) == call[c] = "query" /\ loop = "stopped"

\* A call is answered, also one that came before the loop ran, or the loop
\* stops first.
CallAnswered ==
    \A c \in Calls : call[c] # "none" ~> (call[c] = "none" \/ loop = "stopped")

\* After the signal the process ends - or a call of GetUser waits for the loop,
\* and Shutdown for the call, for ever.  That is the only thing in its way.
EndsUnlessStuck == loop = "stopped" ~> (main = "exited" \/ \E c \in Calls : Stuck(c))

=============================================================================
