---------------------------- MODULE OffsetCommit ----------------------------
(***************************************************************************)
(* Consumers, coordinator and offset store together: doConsumeGroup reads  *)
(* its positions, fetches and prints records partition by partition and    *)
(* commits where it got to, and handleOffsetCommit asks the coordinator    *)
(* before it calls the store - unless the commit names no member and no    *)
(* generation, as a standalone client's does.                              *)
(*                                                                         *)
(* The check and the append take different locks, so everything else may   *)
(* happen between them, even the expiry of the member whose commit it is.  *)
(* So may retention between the two reads of handleFetch, of the log start *)
(* it reports and of the records.  A consumer that waits for an answer     *)
(* makes no other call; if it dies, its handler thread still finishes.     *)
(*                                                                         *)
(* Rolls and the cleaner work on __offsets meanwhile, but change nothing a *)
(* client sees while the broker runs, and the broker does not stop here:   *)
(* OffsetStore has both.                                                   *)
(***************************************************************************)
EXTENDS ConsumerGroup

CONSTANTS
    Solos,              \* standalone clients that commit under the name of the group
    Rewinds,            \* bound: the positions they commit
    Records,            \* records in each partition, at offsets 0..Records - 1
    Tombstone, NoPosition, NoOp, MaxLog,    \* as in OffsetStore
    Unknown,            \* positions[tp] not read yet
    Nothing             \* no fetch or commit under way

VARIABLES
    log, kept, bases, committed, stage, op, phase, cursor, strayed,  \* as in OffsetStore
    start,      \* the log start offset of each partition
    printed,    \* the offsets any consumer ever printed, of each partition
    positions,  \* positions of each consumer's loop
    todo,       \* the partitions left in this pass over what it owns
    read,       \* whether this pass printed anything
    task        \* the fetch or commit the consumer waits for or makes next

svars == <<log, kept, bases, committed, stage, op, phase, cursor, strayed>>
loopvars == <<positions, todo, read, task>>
ovars == <<cvars, svars, start, printed, loopvars>>

Tps == Partitions(DOMAIN PartitionCount)
Threads == Consumers \cup Solos

\* What a task may be.
Fetches == [call : {"fetch"}, tp : Tps, from : 0..Records]
Commits == [call : {"commit"}, tp : Tps]

ASSUME OffsetCommitAssumption ==
    /\ Records \in Nat /\ MaxLog \in Nat
    /\ Rewinds \subseteq 0..Records
    /\ Solos \cap Consumers = {}
    /\ Tombstone \notin 0..Records
    /\ NoPosition \notin 0..Records
    /\ Unknown \notin 0..Records
    /\ Nothing \notin Fetches \cup Commits

Store == INSTANCE OffsetStore WITH
    Writers <- Threads, Keys <- Tps, Positions <- 0..Records

-----------------------------------------------------------------------------
Waiting(c) == stage[c] # "idle"
Owned(c) == consumer[c].owned

\* The loop of c is over, or starts again with another assignment.
AllUnknown == [tp \in Tps |-> Unknown]

Ends(c) ==
    /\ positions' = [positions EXCEPT ![c] = AllUnknown]
    /\ todo' = [todo EXCEPT ![c] = {}]
    /\ read' = [read EXCEPT ![c] = FALSE]
    /\ task' = [task EXCEPT ![c] = Nothing]

\* Every record in front of position p was printed, or deleted by retention.
Covered(tp, p) == \A o \in 0..(p - 1) : o \in printed[tp] \/ o < start[tp]

\* The calls of GroupConsumer, made by a consumer whose last pass printed
\* nothing.  A new assignment starts with positions unread, a heartbeat that is
\* accepted with another pass.
GroupCall(c) ==
    /\ task[c] = Nothing /\ ~Waiting(c)
    /\ consumer[c].pc = "consuming" => todo[c] = {}
    /\ Start(c) \/ Step(c) \/ CallLeave(c)
    /\ positions' = [positions EXCEPT ![c] =
            IF consumer[c].pc = "consuming" /\ consumer'[c].pc = "consuming" THEN @ ELSE AllUnknown]
    /\ todo' = [todo EXCEPT ![c] = IF consumer'[c].pc = "consuming" THEN consumer'[c].owned ELSE {}]
    /\ read' = [read EXCEPT ![c] = FALSE]
    /\ UNCHANGED <<svars, start, printed, task>>

\* positions[tp] = consumer.committed(tp).value_or(Offset(0))
LoadPosition(c, tp) ==
    /\ Ready(c, "consuming")
    /\ tp \in Owned(c) /\ positions[c][tp] = Unknown
    /\ positions' = [positions EXCEPT ![c][tp] =
            IF committed[tp] = NoPosition THEN 0 ELSE committed[tp]]
    /\ UNCHANGED <<cvars, svars, start, printed, todo, read, task>>

\* The loop goes on to the next partition, and after the last one to another
\* pass if this one printed something.
EndPartition(c, tp, some) ==
    LET rest == todo[c] \ {tp}  again == rest = {} /\ some IN
    /\ todo' = [todo EXCEPT ![c] = IF again THEN Owned(c) ELSE rest]
    /\ read' = [read EXCEPT ![c] = some /\ ~again]
    /\ task' = [task EXCEPT ![c] = Nothing]

\* A fetch leaves the position at p: a commit follows if it moved.
Arrive(c, tp, p, some) ==
    /\ positions' = [positions EXCEPT ![c][tp] = p]
    /\ IF p = positions[c][tp] THEN EndPartition(c, tp, some)
       ELSE /\ task' = [task EXCEPT ![c] = [call |-> "commit", tp |-> tp]]
            /\ read' = [read EXCEPT ![c] = some]
            /\ UNCHANGED todo

\* fetchOnce() calls; handleFetch reads the log start it is going to report.
FetchArrives(c, tp) ==
    /\ Ready(c, "consuming")
    /\ task[c] = Nothing
    /\ tp \in todo[c] /\ \A q \in todo[c] : positions[c][q] # Unknown
    /\ task' = [task EXCEPT ![c] = [call |-> "fetch", tp |-> tp, from |-> start[tp]]]
    /\ UNCHANGED <<cvars, svars, start, printed, positions, todo, read>>

\* log->read() finds records, at least one when there is one: they are printed.
FetchAnswered(c) ==
    LET tp == task[c].tp  p == positions[c][tp] IN
    /\ Ready(c, "consuming")
    /\ task[c] # Nothing /\ task[c].call = "fetch"
    /\ start[tp] <= p
    /\ \E upTo \in p..Records :
        /\ upTo = p => p = Records
        /\ printed' = [printed EXCEPT ![tp] = @ \cup p..(upTo - 1)]
        /\ Arrive(c, tp, upTo, read[c] \/ upTo > p)
    /\ UNCHANGED <<cvars, svars, start>>

\* Mutant: the client resumes at the end of the log.
FetchAnsweredOutOfRangeAtEnd(c) ==
    LET tp == task[c].tp IN
    /\ Ready(c, "consuming")
    /\ task[c] # Nothing /\ task[c].call = "fetch"
    /\ positions[c][tp] < start[tp]
    /\ Arrive(c, tp, Records, read[c])
    /\ UNCHANGED <<cvars, svars, start, printed>>

\* OffsetOutOfRange: retention deleted what the position points at.  The client
\* resumes at the log start it was told, prints nothing, and commits it.
FetchAnsweredOutOfRange(c) ==
    LET tp == task[c].tp IN
    /\ Ready(c, "consuming")
    /\ task[c] # Nothing /\ task[c].call = "fetch"
    /\ positions[c][tp] < start[tp]
    /\ Arrive(c, tp, task[c].from, read[c])
    /\ UNCHANGED <<cvars, svars, start, printed>>

\* commit() reaches handleOffsetCommit: heartbeat() first, and only what it
\* accepts goes on to the store.  A refusal makes the client throw.
CommitArrives(c) ==
    LET r == consumer[c] IN
    /\ Ready(c, "consuming")
    /\ task[c] # Nothing /\ task[c].call = "commit" /\ ~Waiting(c)
    /\ \/ /\ Heartbeat(TheGroup, r.id, r.generation)
          /\ Store!Admit(c, [key |-> task[c].tp, value |-> positions[c][task[c].tp]])
          /\ UNCHANGED <<consumer, loopvars>>
       \/ /\ HeartbeatError(TheGroup, r.id, r.generation) # "None"
          /\ Set(c, [r EXCEPT !.pc = "failed"])
          /\ Ends(c)
          /\ UNCHANGED <<groups, issued, svars>>
    /\ UNCHANGED <<start, printed>>

\* A commit without member and generation is not checked.  A standalone client
\* commits what it, or somebody, has dealt with: any such position, in any order.
StandaloneCommits(s, tp, p) ==
    /\ Covered(tp, p)
    /\ Store!Admit(s, [key |-> tp, value |-> p])
    /\ UNCHANGED <<cvars, start, printed, loopvars>>

\* A handler thread, in OffsetStore::commit().
CommitAppends(w) ==
    /\ Store!AppendRecord(w)
    /\ UNCHANGED <<cvars, start, printed, loopvars>>

\* The client, if it is still there, is answered and goes on.
CommitAnswered(c) ==
    /\ Store!Publish(c)
    /\ IF Alive(c) THEN EndPartition(c, task[c].tp, read[c]) /\ UNCHANGED positions
                   ELSE UNCHANGED loopvars
    /\ UNCHANGED <<cvars, start, printed>>

\* The append threw: ErrorCode::Unknown, and the client throws too.
CommitFails(c) ==
    /\ Store!AppendFails(c)
    /\ consumer' = IF Alive(c) THEN [consumer EXCEPT ![c].pc = "failed"] ELSE consumer
    /\ Ends(c)
    /\ UNCHANGED <<groups, issued, start, printed>>

\* A standalone client is answered, or refused.
StandaloneAnswered(s) ==
    /\ Store!Publish(s) \/ Store!AppendFails(s)
    /\ UNCHANGED <<cvars, start, printed, loopvars>>

\* Retention moves the log start of a partition.
Retain(tp) ==
    /\ \E n \in (start[tp] + 1)..Records : start' = [start EXCEPT ![tp] = n]
    /\ UNCHANGED <<cvars, svars, printed, loopvars>>

\* Consumers die - as they do when fetchOnce() returns -1, after any other error:
\* the process ends without leaving the group -, time passes, sessions expire.
Dies(c) == Crash(c) /\ Ends(c) /\ UNCHANGED <<svars, start, printed>>

TimePasses == PassTime /\ UNCHANGED <<svars, start, printed, loopvars>>

SweepRuns == Sweep /\ UNCHANGED <<svars, start, printed, loopvars>>

-----------------------------------------------------------------------------
OCInit ==
    /\ CInit
    /\ Store!Init
    /\ start = [tp \in Tps |-> 0]
    /\ printed = [tp \in Tps |-> {}]
    /\ positions = [c \in Consumers |-> AllUnknown]
    /\ todo = [c \in Consumers |-> {}]
    /\ read = [c \in Consumers |-> FALSE]
    /\ task = [c \in Consumers |-> Nothing]

OCNext ==
    \/ \E c \in Consumers :
        \/ GroupCall(c)
        \/ \E tp \in Tps : LoadPosition(c, tp) \/ FetchArrives(c, tp)
        \/ FetchAnswered(c)
        \/ FetchAnsweredOutOfRange(c)
        \/ CommitArrives(c)
        \/ CommitAnswered(c)
        \/ CommitFails(c)
        \/ Dies(c)
    \/ \E s \in Solos :
        \/ \E tp \in Tps, p \in Rewinds : StandaloneCommits(s, tp, p)
        \/ StandaloneAnswered(s)
    \/ \E w \in Threads : CommitAppends(w)
    \/ \E tp \in Tps : Retain(tp)
    \/ TimePasses
    \/ SweepRuns

OCSpec == OCInit /\ [][OCNext]_ovars

-----------------------------------------------------------------------------
(* Properties *)

\* At least once: whichever commit in the topic a restart or a late map update
\* serves, every record in front of it was printed by some consumer or deleted by
\* retention ("Committed AFTER printing, so a crash between the two replays
\* records rather than skipping them", dariyakyu_cli.cpp:372) - whichever members
\* crashed, were expired while running, committed late, were thrown back to a
\* log start that had moved on since, or shared a partition with a client outside
\* the group.  Printed means handed to stdout: the stream is flushed at the end
\* of a pass, after its commits.
AtLeastOnce == \A i \in DOMAIN log : Covered(log[i].key, log[i].value)
=============================================================================
