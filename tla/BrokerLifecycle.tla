--------------------------- MODULE BrokerLifecycle ---------------------------
(***************************************************************************)
(* The threads of a broker from start() to stop(): the accept thread, one  *)
(* thread per connection (src/src/server/acceptor, connection), and the    *)
(* group sweeper, the cleaner and the maintenance thread                   *)
(* (src/src/server/broker, storage/log_manager, storage/log_cleaner).      *)
(*                                                                         *)
(* Every one of them blocks where it notices no flag.  stop() wakes the    *)
(* accept thread by connecting to it, the connection threads by shutting   *)
(* their sockets down and the others with a condition variable, and joins  *)
(* them in an order.  Clients connect, send, stop reading and leave when   *)
(* they like.                                                              *)
(*                                                                         *)
(* Nothing in the program changes what SIGPIPE does, so that a write to a  *)
(* connection that is gone may end the process.                            *)
(***************************************************************************)
EXTENDS FiniteSets

CONSTANTS
    Clients,
    Loopback        \* whether the address the broker is bound to takes connections
                    \* to 127.0.0.1

ASSUME BrokerLifecycleAssumption ==
    /\ Loopback \in BOOLEAN
    /\ Clients \cap {"accept", "done"} = {}    \* what else the accept thread may be at

VARIABLES
    acceptor,   \* where the accept thread is: "accept", "done", or the client it took
    conns,      \* the connection of each client: "none", "backlog" (connected but not
                \* accepted), "serving" (blocked in readFrame()), "handling", "replying",
                \* "finished" (serve() returned, the socket stays open), "closed" (reaped)
    gone,       \* clients that closed their end
    shut,       \* connections stop() has shut down
    waker,      \* whether stop()'s own connection is in the backlog
    main,       \* where Broker::stop() is: "running", "waking", "joining accept",
                \* "shutting down", "joining workers", "joining sweeper",
                \* "joining cleaner", "joining maintenance", "stopped"
    threads,    \* the three background threads: "waiting", "working", "exited"
    alive       \* the process has not been killed

vars == <<acceptor, conns, gone, shut, waker, main, threads, alive>>

Background == {"sweeper", "cleaner", "maintenance"}

Stopping == main # "running"

Served == {c \in Clients : conns[c] \in {"serving", "handling", "replying", "finished"}}

Move(c, s) == conns' = [conns EXCEPT ![c] = s]

-----------------------------------------------------------------------------
\* Clients.  Nothing makes them do anything.

ListeningOpen == main \in {"running", "waking", "joining accept"}

Connect(c) ==
    /\ ListeningOpen
    /\ conns[c] \in {"none", "closed"}
    /\ Move(c, "backlog")
    /\ gone' = gone \ {c}
    /\ shut' = shut \ {c}
    /\ UNCHANGED <<acceptor, waker, main, threads, alive>>

ClientLeaves(c) ==
    /\ conns[c] \notin {"none", "closed"}
    /\ c \notin gone
    /\ gone' = gone \cup {c}
    /\ UNCHANGED <<acceptor, conns, shut, waker, main, threads, alive>>

-----------------------------------------------------------------------------
\* A connection thread.

\* readFrame() returns a request with a header, whatever is in its body.
ReadRequest(c) ==
    /\ conns[c] = "serving"
    /\ c \notin gone \cup shut
    /\ Move(c, "handling")
    /\ UNCHANGED <<acceptor, gone, shut, waker, main, threads, alive>>

\* A frame too long, or a header that does not decode: serve() returns.
ReadNonsense(c) ==
    /\ conns[c] = "serving"
    /\ c \notin gone \cup shut
    /\ Move(c, "finished")
    /\ UNCHANGED <<acceptor, gone, shut, waker, main, threads, alive>>

\* Mutant: only the peer ends a stream.
EndOfStreamFromPeer(c) ==
    /\ conns[c] = "serving"
    /\ c \in gone
    /\ Move(c, "finished")
    /\ UNCHANGED <<acceptor, gone, shut, waker, main, threads, alive>>

EndOfStream(c) ==
    /\ conns[c] = "serving"
    /\ c \in gone \cup shut
    /\ Move(c, "finished")
    /\ UNCHANGED <<acceptor, gone, shut, waker, main, threads, alive>>

\* dispatch(), with an error reply when the handler throws.
Handle(c) ==
    /\ conns[c] = "handling"
    /\ Move(c, "replying")
    /\ UNCHANGED <<acceptor, gone, shut, waker, main, threads, alive>>

\* The kernel took the bytes, also when nobody will read them.
Reply(c) ==
    /\ conns[c] = "replying"
    /\ c \notin shut
    /\ Move(c, "serving")
    /\ UNCHANGED <<acceptor, gone, shut, waker, main, threads, alive>>

\* write() or sendfile() fails: an error the thread returns on, or SIGPIPE.
ReplyFails(c) ==
    /\ conns[c] = "replying"
    /\ c \in gone \cup shut
    /\ \/ Move(c, "finished") /\ UNCHANGED alive
       \/ alive' = FALSE /\ UNCHANGED conns
    /\ UNCHANGED <<acceptor, gone, shut, waker, main, threads>>

-----------------------------------------------------------------------------
\* The accept thread.

\* accept() returns a connection; with the flag up the loop ends and drops it.
Accept(c) ==
    /\ acceptor = "accept"
    /\ conns[c] = "backlog"
    /\ IF Stopping
       THEN acceptor' = "done" /\ Move(c, "closed")
       ELSE acceptor' = c /\ UNCHANGED conns
    /\ UNCHANGED <<gone, shut, waker, main, threads, alive>>

AcceptWaker ==
    /\ acceptor = "accept"
    /\ waker
    /\ acceptor' = "done"
    /\ waker' = FALSE
    /\ UNCHANGED <<conns, gone, shut, main, threads, alive>>

\* accept() fails: the loop returns, or the exception ends the process.
AcceptFails ==
    /\ acceptor = "accept"
    /\ \/ acceptor' = "done" /\ UNCHANGED alive
       \/ alive' = FALSE /\ UNCHANGED acceptor
    /\ UNCHANGED <<conns, gone, shut, waker, main, threads>>

\* Mutant: only the connections whose peer has left are reaped.
SpawnReapingGone(c) ==
    /\ acceptor = c
    /\ conns' = [d \in Clients |->
                    IF d = c THEN "serving"
                    ELSE IF conns[d] = "finished" /\ d \in gone THEN "closed" ELSE conns[d]]
    /\ acceptor' = "accept"
    /\ UNCHANGED <<gone, shut, waker, main, threads, alive>>

\* reapFinished(), then a thread of its own for the new connection.
Spawn(c) ==
    /\ acceptor = c
    /\ conns' = [d \in Clients |->
                    IF d = c THEN "serving"
                    ELSE IF conns[d] = "finished" THEN "closed" ELSE conns[d]]
    /\ acceptor' = "accept"
    /\ UNCHANGED <<gone, shut, waker, main, threads, alive>>

-----------------------------------------------------------------------------
\* The background threads, which look at their flag while they wait.

\* stop() has set the flag of w.
Told(w) ==
    CASE w = "sweeper" -> main = "joining sweeper"
      [] w = "cleaner" -> main = "joining cleaner"
      [] w = "maintenance" -> main = "joining maintenance"

\* The interval is over.
Wake(w) ==
    /\ threads[w] = "waiting"
    /\ ~Told(w)
    /\ threads' = [threads EXCEPT ![w] = "working"]
    /\ UNCHANGED <<acceptor, conns, gone, shut, waker, main, alive>>

Pass(w) ==
    /\ threads[w] = "working"
    /\ threads' = [threads EXCEPT ![w] = "waiting"]
    /\ UNCHANGED <<acceptor, conns, gone, shut, waker, main, alive>>

Exit(w) ==
    /\ threads[w] = "waiting"
    /\ Told(w)
    /\ threads' = [threads EXCEPT ![w] = "exited"]
    /\ UNCHANGED <<acceptor, conns, gone, shut, waker, main, alive>>

-----------------------------------------------------------------------------
\* Broker::stop().

Stop ==
    /\ main = "running"
    /\ main' = "waking"
    /\ UNCHANGED <<acceptor, conns, gone, shut, waker, threads, alive>>

\* Mutant: the connections are shut down before the accept thread has ended.
ConnectToSelfHastily ==
    /\ main = "waking"
    /\ waker' = Loopback
    /\ main' = "shutting down"
    /\ UNCHANGED <<acceptor, conns, gone, shut, threads, alive>>

ConnectToSelf ==
    /\ main = "waking"
    /\ waker' = Loopback
    /\ main' = "joining accept"
    /\ UNCHANGED <<acceptor, conns, gone, shut, threads, alive>>

\* With the listening socket goes what is in its backlog.
JoinAccept ==
    /\ main = "joining accept"
    /\ acceptor = "done"
    /\ conns' = [c \in Clients |-> IF conns[c] = "backlog" THEN "closed" ELSE conns[c]]
    /\ waker' = FALSE
    /\ main' = "shutting down"
    /\ UNCHANGED <<acceptor, gone, shut, threads, alive>>

ShutDownAll ==
    /\ main = "shutting down"
    /\ shut' = shut \cup Served
    /\ main' = "joining workers"
    /\ UNCHANGED <<acceptor, conns, gone, waker, threads, alive>>

JoinWorkers ==
    /\ main = "joining workers"
    /\ \A c \in Served : conns[c] = "finished"
    /\ conns' = [c \in Clients |-> IF c \in Served THEN "closed" ELSE conns[c]]
    /\ main' = "joining sweeper"
    /\ UNCHANGED <<acceptor, gone, shut, waker, threads, alive>>

Join(w, from, to) ==
    /\ main = from
    /\ threads[w] = "exited"
    /\ main' = to
    /\ UNCHANGED <<acceptor, conns, gone, shut, waker, threads, alive>>

JoinBackground ==
    \/ Join("sweeper", "joining sweeper", "joining cleaner")
    \/ Join("cleaner", "joining cleaner", "joining maintenance")
    \/ Join("maintenance", "joining maintenance", "stopped")

-----------------------------------------------------------------------------
\* After Broker::start().
Init ==
    /\ acceptor = "accept"
    /\ conns = [c \in Clients |-> "none"]
    /\ gone = {}
    /\ shut = {}
    /\ waker = FALSE
    /\ main = "running"
    /\ threads = [w \in Background |-> "waiting"]
    /\ alive = TRUE

AcceptThread ==
    \/ AcceptWaker
    \/ \E c \in Clients : Accept(c) \/ Spawn(c)

Worker(c) == EndOfStream(c) \/ Handle(c) \/ ReplyFails(c)

Stopper == ConnectToSelf \/ JoinAccept \/ ShutDownAll \/ JoinWorkers \/ JoinBackground

ClientActs(c) == Connect(c) \/ ClientLeaves(c) \/ ReadRequest(c) \/ ReadNonsense(c) \/ Reply(c)

Next ==
    /\ alive
    /\ \/ AcceptThread
       \/ AcceptFails
       \/ \E c \in Clients : Worker(c) \/ ClientActs(c)
       \/ \E w \in Background : Wake(w) \/ Pass(w) \/ Exit(w)
       \/ Stop
       \/ Stopper

\* Threads that can move do.  Nobody has to connect, to send, or to read what
\* was sent, and accept() need not fail.
Fairness ==
    /\ WF_vars(alive /\ AcceptThread)
    /\ \A c \in Clients : WF_vars(alive /\ Worker(c))
    /\ \A w \in Background : WF_vars(alive /\ (Pass(w) \/ Exit(w)))
    /\ WF_vars(alive /\ Stopper)

Spec == Init /\ [][Next]_vars /\ Fairness

-----------------------------------------------------------------------------
\* stop() leaves no connection behind, not even one that was being accepted when
\* it began: what is not shut down is never joined.
NoStragglers ==
    main \in {"joining sweeper", "joining cleaner", "joining maintenance", "stopped"} =>
        \A c \in Clients : conns[c] \in {"none", "closed"}

\* Requests are handled only while the threads that maintain the partitions run,
\* and the cleaner is never at work after the maintenance thread has ended.
StopOrder ==
    /\ (\E c \in Clients : conns[c] \in {"handling", "replying"}) =>
            \A w \in Background : threads[w] # "exited"
    /\ threads["cleaner"] = "working" => threads["maintenance"] # "exited"

\* stop() takes the broker apart in an order in which nothing is used after it
\* has ended: all connections first, then the sweep, the cleaner, maintenance.
StopsInOrder == NoStragglers /\ StopOrder

\* stop() returns: clients that never send, never read or never leave do not hold
\* it up, nor does a thread in the middle of its work.
StopReturns == (main = "waking") ~> (main = "stopped" \/ ~alive)

TakesAnother == acceptor \in Clients /\ acceptor' = "accept"

\* A connection thread that gave up on its client hangs up, if clients keep
\* coming: serve() does not close the socket, and only the next accept reaps.
HangsUp ==
    []<><<TakesAnother>>_vars =>
        \A c \in Clients : (conns[c] = "finished") ~> (conns[c] # "finished")
=============================================================================
