------------------------ MODULE BrokerLifecycleProofs ------------------------
(***************************************************************************)
(* Proofs about BrokerLifecycle, for any set of clients and any address    *)
(* the broker is bound to.                                                 *)
(***************************************************************************)
EXTENDS BrokerLifecycle, TLAPS

\* Where each thread may be.
ConnStates == {"none", "backlog", "serving", "handling", "replying", "finished", "closed"}

MainStates == {"running", "waking", "joining accept", "shutting down", "joining workers",
               "joining sweeper", "joining cleaner", "joining maintenance", "stopped"}

TypeOK ==
    /\ acceptor \in {"accept", "done"} \cup Clients
    /\ conns \in [Clients -> ConnStates]
    /\ gone \subseteq Clients
    /\ shut \subseteq Clients
    /\ waker \in BOOLEAN
    /\ main \in MainStates
    /\ threads \in [Background -> {"waiting", "working", "exited"}]
    /\ alive \in BOOLEAN

\* stop() has joined the accept thread, the workers, and so on.
AcceptJoined == main \notin {"running", "waking", "joining accept"}
WorkersJoined ==
    main \in {"joining sweeper", "joining cleaner", "joining maintenance", "stopped"}
SweeperJoined == main \in {"joining cleaner", "joining maintenance", "stopped"}
CleanerJoined == main \in {"joining maintenance", "stopped"}

\* A client the accept thread has taken is still in the backlog of the model.
TakenWaits == \A c \in Clients : acceptor = c => conns[c] = "backlog"

\* Nobody brings a new connection once the accept thread was joined.
NobodyEnters ==
    AcceptJoined => /\ acceptor = "done"
                    /\ \A c \in Clients : conns[c] # "backlog"

\* A background thread ends only when it is told to, and the next one is told
\* only when it has been joined.
ExitsInOrder ==
    /\ threads["sweeper"] = "exited" => WorkersJoined
    /\ threads["cleaner"] = "exited" => SweeperJoined
    /\ threads["maintenance"] = "exited" => CleanerJoined
    /\ CleanerJoined => threads["cleaner"] = "exited"

IInv == TypeOK /\ TakenWaits /\ NobodyEnters /\ NoStragglers /\ ExitsInOrder

-----------------------------------------------------------------------------
\* The states of the program right after start().
LEMMA InitIInv == Init => IInv
BY BrokerLifecycleAssumption
   DEF Init, IInv, TypeOK, TakenWaits, NobodyEnters, NoStragglers, ExitsInOrder,
       ConnStates, MainStates, AcceptJoined, WorkersJoined, SweeperJoined, CleanerJoined,
       Background

\* The order of the threads follows: a connection at work means that stop() has
\* not joined the workers, and so has told no background thread to end.
LEMMA IInvOrders == IInv => StopsInOrder
<1> SUFFICES ASSUME IInv PROVE StopsInOrder
  OBVIOUS
<1>1. ASSUME NEW c \in Clients, conns[c] \in {"handling", "replying"}, NEW w \in Background
      PROVE  threads[w] # "exited"
  <2>1. ~WorkersJoined
    BY <1>1 DEF IInv, NoStragglers, WorkersJoined
  <2> QED
    BY <2>1, <1>1 DEF IInv, ExitsInOrder, Background, WorkersJoined, SweeperJoined, CleanerJoined
<1>2. threads["cleaner"] = "working" => threads["maintenance"] # "exited"
  BY DEF IInv, ExitsInOrder
<1> QED
  BY <1>1, <1>2 DEF StopsInOrder, StopOrder, IInv

\* No step of a client or of its connection thread disturbs the order: after the
\* accept thread was joined there is none in the backlog, and none is made.
LEMMA ClientStep ==
    ASSUME IInv, NEW c \in Clients, Worker(c) \/ ClientActs(c)
    PROVE  IInv'
<1> USE DEF IInv, TypeOK, TakenWaits, NobodyEnters, NoStragglers, ExitsInOrder, ConnStates,
            AcceptJoined, WorkersJoined, SweeperJoined, CleanerJoined, Move
<1>1. CASE Connect(c)
  BY <1>1 DEF Connect, ListeningOpen, MainStates
<1>2. CASE ClientLeaves(c)
  BY <1>2 DEF ClientLeaves
<1>3. CASE ReadRequest(c)
  BY <1>3 DEF ReadRequest
<1>4. CASE ReadNonsense(c)
  BY <1>4 DEF ReadNonsense
<1>5. CASE EndOfStream(c)
  BY <1>5 DEF EndOfStream
<1>6. CASE Handle(c)
  BY <1>6 DEF Handle
<1>7. CASE Reply(c)
  BY <1>7 DEF Reply
<1>8. CASE ReplyFails(c)
  BY <1>8 DEF ReplyFails
<1> QED
  BY <1>1, <1>2, <1>3, <1>4, <1>5, <1>6, <1>7, <1>8 DEF Worker, ClientActs

\* Nor does the accept thread: it spawns only while it has not been joined.
LEMMA AcceptStep ==
    ASSUME IInv, AcceptThread \/ AcceptFails
    PROVE  IInv'
<1> USE BrokerLifecycleAssumption
    DEF IInv, TypeOK, TakenWaits, NobodyEnters, NoStragglers, ExitsInOrder, ConnStates,
        AcceptJoined, WorkersJoined, SweeperJoined, CleanerJoined, Move
<1>1. CASE AcceptWaker
  BY <1>1 DEF AcceptWaker
<1>2. CASE AcceptFails
  BY <1>2 DEF AcceptFails
<1>3. ASSUME NEW c \in Clients, Accept(c)
      PROVE  IInv'
  BY <1>3 DEF Accept, Stopping
<1>4. ASSUME NEW c \in Clients, Spawn(c)
      PROVE  IInv'
  BY <1>4 DEF Spawn
<1> QED
  BY <1>1, <1>2, <1>3, <1>4 DEF AcceptThread

\* A background thread ends when the flag it looks at is up.
LEMMA BackgroundStep ==
    ASSUME IInv, NEW w \in Background, Wake(w) \/ Pass(w) \/ Exit(w)
    PROVE  IInv'
<1> USE DEF IInv, TypeOK, TakenWaits, NobodyEnters, NoStragglers, ExitsInOrder,
            AcceptJoined, WorkersJoined, SweeperJoined, CleanerJoined
<1>1. CASE Wake(w)
  BY <1>1 DEF Wake, Background
<1>2. CASE Pass(w)
  BY <1>2 DEF Pass, Background
<1>3. CASE Exit(w)
  BY <1>3 DEF Exit, Told, Background
<1> QED
  BY <1>1, <1>2, <1>3

\* stop() goes on only when what it waits for has ended.
LEMMA StopStep ==
    ASSUME IInv, Stop \/ Stopper
    PROVE  IInv'
<1> USE DEF IInv, TypeOK, TakenWaits, NobodyEnters, NoStragglers, ExitsInOrder, ConnStates,
            MainStates, AcceptJoined, WorkersJoined, SweeperJoined, CleanerJoined
<1>1. CASE Stop
  BY <1>1 DEF Stop
<1>2. CASE ConnectToSelf
  BY <1>2, BrokerLifecycleAssumption DEF ConnectToSelf
<1>3. CASE JoinAccept
  BY <1>3, BrokerLifecycleAssumption DEF JoinAccept
<1>4. CASE ShutDownAll
  BY <1>4 DEF ShutDownAll, Served
<1>5. CASE JoinWorkers
  BY <1>5 DEF JoinWorkers, Served
<1>6. CASE JoinBackground
  BY <1>6 DEF JoinBackground, Join
<1> QED
  BY <1>1, <1>2, <1>3, <1>4, <1>5, <1>6 DEF Stopper

LEMMA NextIInv == IInv /\ [Next]_vars => IInv'
<1> SUFFICES ASSUME IInv, [Next]_vars PROVE IInv'
  OBVIOUS
<1>1. CASE UNCHANGED vars
  BY <1>1 DEF vars, IInv, TypeOK, TakenWaits, NobodyEnters, NoStragglers, ExitsInOrder,
              AcceptJoined, WorkersJoined, SweeperJoined, CleanerJoined
<1>2. CASE Next
  BY <1>2, AcceptStep, ClientStep, BackgroundStep, StopStep DEF Next
<1> QED
  BY <1>1, <1>2

\* The accept thread, the connections, the background threads and stop() are
\* only ever where the code can be.
THEOREM TypeCorrect == Spec => []TypeOK
<1>1. IInv => TypeOK
  BY DEF IInv
<1> QED
  BY <1>1, InitIInv, NextIInv, PTL DEF Spec

\* stop() leaves no connection and no thread behind that something it has ended
\* still needs: connections first, then sweeper, cleaner and maintenance.
THEOREM StopKeepsItsOrder == Spec => []StopsInOrder
BY InitIInv, NextIInv, IInvOrders, PTL DEF Spec
=============================================================================
