---------------------------- MODULE ConsumerGroup ----------------------------
(***************************************************************************)
(* Consumers of one group (src/src/cli/group_consumer, and the loop of     *)
(* doConsumeGroup in src/apps/dariyakyu_cli.cpp) against the coordinator.  *)
(*                                                                         *)
(* A consumer is one thread on one connection: it has at most one request  *)
(* outstanding and changes nothing while it waits, so a call is one step   *)
(* that reads the coordinator's answer.  Between two calls anything may    *)
(* happen.  A tick is one 20 ms sleep: a consumer that was told to retry   *)
(* is asleep until the next tick.                                          *)
(***************************************************************************)
EXTENDS GroupCoordinator, Assignor

CONSTANTS
    Consumers,      \* the consumer processes
    TheGroup,       \* the group they all join
    TopicsOf,       \* topics_ of each consumer
    StrategyOf,     \* strategy_ of each consumer
    PartitionCount, \* partitions of each topic, as Metadata reports them
    MaxRounds,      \* kMaxRounds: polls of one join(), and of one wait for the leader
    MaxCrashes,     \* bound: consumers that crash
    Follow,         \* --follow: a consumer that caught up stays
    Traffic,        \* TRUE: there are records to consume, so consumers commit
    Prompt          \* TRUE: a consumer acts within the tick in which it wakes

\* The partitions of some topics.
Partitions(topics) == UNION {{<<t, p>> : p \in 0..(PartitionCount[t] - 1)} : t \in topics}

\* Consumers send what the coordinator may be sent; an assignment is a set of
\* partitions, and the empty vector is the empty set.
ASSUME ConsumerGroupAssumption ==
    /\ TheGroup \in GroupIds
    /\ TopicsOf \in [Consumers -> Subscriptions]
    /\ StrategyOf \in [Consumers -> Strategies]
    /\ \A c \in Consumers : <<StrategyOf[c]>> \in ProtocolLists
    /\ DefaultSessionTimeout \in SessionTimeouts
    /\ \A topics \in Subscriptions : topics \subseteq Nat /\ IsFiniteSet(topics)
    /\ PartitionCount \in [UNION Subscriptions -> Nat]
    /\ NoAssignment = {}
    /\ SUBSET Partitions(UNION Subscriptions) \subseteq Assignments
    /\ MaxRounds \in Nat \ {0} /\ MaxCrashes \in Nat /\ {Prompt, Traffic, Follow} \subseteq BOOLEAN

VARIABLE consumer   \* the GroupConsumer object of each process, and where it is

cvars == <<groups, issued, consumer>>

Pcs == {"idle",        \* not started
        "joining",     \* at the top of a round of join()
        "leading",     \* holds the member list, has not synced yet
        "following",   \* waiting for the leader's assignment
        "consuming",   \* fetching what it owns
        "left",        \* left politely and exited
        "failed",      \* threw: commit refused, or "never settled"
        "crashed"}

Live == {"joining", "leading", "following", "consuming"}

Group0 == groups[TheGroup]

-----------------------------------------------------------------------------
Set(c, r) == consumer' = [consumer EXCEPT ![c] = r]

Alive(c) == consumer[c].pc \in Live
Ready(c, pc) == consumer[c].pc = pc /\ ~consumer[c].asleep

\* forgetIfExpired()
Forget(r, error) == IF error = "UnknownMemberId" THEN [r EXCEPT !.id = NoMember] ELSE r

\* The next round of join(), after a sleep or at once.
NextRound(r, asleep) == [r EXCEPT !.pc = "joining", !.round = @ + 1,
                                  !.wait = 0, !.asleep = asleep]

\* What join() does with JoinGroup's answer.
AfterJoin(r, reply) ==
    IF reply.error = "RebalanceInProgress"
    THEN NextRound([r EXCEPT !.id = reply.memberId], TRUE)
    ELSE [r EXCEPT !.id         = reply.memberId,
                   !.generation = reply.generation,
                   !.pc   = IF reply.memberId = reply.leaderId THEN "leading" ELSE "following",
                   !.view = [m \in DOMAIN reply.members |-> reply.members[m].subscription],
                   !.wait = 0]

\* The consumer is started.
Start(c) ==
    /\ consumer[c].pc = "idle"
    /\ Set(c, [consumer[c] EXCEPT !.pc = "joining"])
    /\ UNCHANGED <<groups, issued>>

\* One JoinGroup call: with no id, with the id it was given, or with an id
\* the coordinator has forgotten.
CallJoin(c) ==
    LET r == consumer[c]  protocols == <<StrategyOf[c]>> IN
    /\ Ready(c, "joining")
    /\ r.round < MaxRounds
    /\ \/ /\ r.id = NoMember
          /\ \E id \in MemberIds \ issued :
                /\ JoinNew(TheGroup, id, TopicsOf[c], protocols, DefaultSessionTimeout)
                /\ Set(c, AfterJoin(r, JoinReply(groups'[TheGroup], id)))
       \/ /\ r.id # NoMember
          /\ JoinAgain(TheGroup, r.id, TopicsOf[c], protocols, DefaultSessionTimeout)
          /\ Set(c, AfterJoin(r, JoinReply(groups'[TheGroup], r.id)))
       \/ /\ r.id # NoMember
          /\ JoinUnknown(TheGroup, r.id)
          /\ Set(c, NextRound(Forget(r, "UnknownMemberId"), FALSE))

\* join() runs out of rounds and throws "never settled".
GiveUp(c) ==
    /\ Ready(c, "joining")
    /\ consumer[c].round = MaxRounds
    /\ Set(c, [consumer[c] EXCEPT !.pc = "failed"])
    /\ UNCHANGED <<groups, issued>>

\* Mutant: what it owned in the last generation is not revoked.
OwningMore(r) == [r EXCEPT !.pc = "consuming", !.asleep = FALSE, !.round = 0, !.wait = 0,
                           !.view = [m \in {} |-> {}],
                           !.owned = @ \cup groups'[TheGroup].members[r.id].assignment]

\* What a sync that was answered without an error leaves the consumer with.
Owning(r) == [r EXCEPT !.pc = "consuming", !.asleep = FALSE, !.round = 0, !.wait = 0,
                       !.view = [m \in {} |-> {}],
                       !.owned = groups'[TheGroup].members[r.id].assignment]

\* syncAsLeader(): Metadata for its own topics, the assignment, SyncGroup.
CallSyncAsLeader(c) ==
    LET r == consumer[c]
        counts == [t \in TopicsOf[c] |-> PartitionCount[t]]
        error == SyncError(TheGroup, r.id, r.generation)
    IN
    /\ Ready(c, "leading")
    /\ \/ /\ error = "None"
          /\ Sync(TheGroup, r.id, r.generation, Assign(StrategyOf[c], r.view, counts))
          /\ Set(c, Owning(r))
       \/ /\ error # "None"
          /\ Set(c, NextRound(Forget([r EXCEPT !.view = [m \in {} |-> {}]], error), TRUE))
          /\ UNCHANGED <<groups, issued>>

\* One SyncGroup poll of a follower.  The coordinator refreshes the heartbeat
\* of a follower it tells to wait for the leader, but not of one it tells to
\* wait because the group is rebalancing again.
CallSync(c) ==
    LET r == consumer[c]
        error == SyncError(TheGroup, r.id, r.generation)
        nothing == [m \in {} |-> {}]
    IN
    /\ Ready(c, "following")
    /\ r.wait < MaxRounds
    /\ \/ /\ error = "None"
          /\ Sync(TheGroup, r.id, r.generation, nothing)
          /\ Set(c, Owning(r))
       \/ /\ error = "RebalanceInProgress"
          /\ IF HeartbeatError(TheGroup, r.id, r.generation) = "None"
             THEN Sync(TheGroup, r.id, r.generation, nothing)
             ELSE UNCHANGED <<groups, issued>>
          /\ Set(c, [r EXCEPT !.wait = @ + 1, !.asleep = TRUE])
       \/ /\ error \notin {"None", "RebalanceInProgress"}
          /\ Set(c, NextRound(Forget(r, error), FALSE))
          /\ UNCHANGED <<groups, issued>>

\* The wait for the leader runs out: join() starts its next round.
WaitedEnough(c) ==
    /\ Ready(c, "following")
    /\ consumer[c].wait = MaxRounds
    /\ Set(c, NextRound(consumer[c], FALSE))
    /\ UNCHANGED <<groups, issued>>

\* Mutant: a refused heartbeat is ignored.
IgnoresHeartbeat(c) ==
    LET r == consumer[c] IN
    /\ Ready(c, "consuming")
    /\ \/ Heartbeat(TheGroup, r.id, r.generation)
       \/ HeartbeatError(TheGroup, r.id, r.generation) # "None" /\ UNCHANGED <<groups, issued>>
    /\ Set(c, [r EXCEPT !.asleep = TRUE])

\* Caught up: heartbeat, then sleep or rejoin.  ensureJoined() asks once more
\* before join(), and is refused again (StaysFenced).
CallHeartbeat(c) ==
    LET r == consumer[c]  error == HeartbeatError(TheGroup, r.id, r.generation) IN
    /\ Ready(c, "consuming")
    /\ \/ /\ error = "None"
          /\ Heartbeat(TheGroup, r.id, r.generation)
          /\ Set(c, [r EXCEPT !.asleep = TRUE])
       \/ /\ error # "None"
          /\ Set(c, [r EXCEPT !.pc = "joining"])
          /\ UNCHANGED <<groups, issued>>

\* Records were printed: commit.  A refused commit throws, and the process
\* ends without leaving the group.
CallCommit(c) ==
    LET r == consumer[c]  error == HeartbeatError(TheGroup, r.id, r.generation) IN
    /\ Ready(c, "consuming")
    /\ Traffic /\ r.owned # {}
    /\ \/ /\ error = "None"
          /\ Heartbeat(TheGroup, r.id, r.generation)
          /\ UNCHANGED consumer
       \/ /\ error # "None"
          /\ Set(c, [r EXCEPT !.pc = "failed"])
          /\ UNCHANGED <<groups, issued>>

\* Caught up and not following: leave() and exit, whatever the answer.
CallLeave(c) ==
    LET r == consumer[c] IN
    /\ Ready(c, "consuming")
    /\ ~Follow
    /\ IF IsMember(TheGroup, r.id) THEN Leave(TheGroup, r.id)
                                   ELSE UNCHANGED <<groups, issued>>
    /\ Set(c, [r EXCEPT !.pc = "left", !.id = NoMember, !.generation = -1, !.owned = {}])

\* A process dies.  The coordinator learns of it only by the session timeout.
Crash(c) ==
    /\ Alive(c)
    /\ Cardinality({d \in Consumers : consumer[d].pc = "crashed"}) < MaxCrashes
    /\ Set(c, [consumer[c] EXCEPT !.pc = "crashed"])
    /\ UNCHANGED <<groups, issued>>

\* 20 ms pass and sleepers wake.  When consumers are Prompt, none is still
\* busy with what it woke up for.
PassTime ==
    /\ Prompt => \A c \in Consumers : Alive(c) => consumer[c].asleep
    /\ Tick
    /\ consumer' = [c \in Consumers |-> [consumer[c] EXCEPT !.asleep = FALSE]]

\* sweepGroups()
Sweep == Expire /\ UNCHANGED consumer

-----------------------------------------------------------------------------
CInit ==
    /\ Init
    /\ consumer = [c \in Consumers |->
                    [pc |-> "idle", id |-> NoMember, generation |-> -1, owned |-> {},
                     view |-> [m \in {} |-> {}], round |-> 0, wait |-> 0, asleep |-> FALSE]]

\* The steps of a consumer that keep its loop turning.
Step(c) == CallJoin(c) \/ GiveUp(c) \/ CallSyncAsLeader(c) \/ CallSync(c)
              \/ WaitedEnough(c) \/ CallHeartbeat(c)

CNext ==
    \/ \E c \in Consumers : Start(c) \/ Step(c) \/ CallCommit(c) \/ CallLeave(c) \/ Crash(c)
    \/ PassTime
    \/ Sweep

CSpec == CInit /\ [][CNext]_cvars

\* A consumer's loop keeps turning, the clock advances, the sweep thread runs.
CFairSpec ==
    /\ CSpec
    /\ \A c \in Consumers : WF_cvars(Step(c))
    /\ WF_cvars(PassTime)
    /\ WF_cvars(Sweep)

-----------------------------------------------------------------------------
(* Properties *)

\* c is fetching, and the coordinator would accept its commit now.
Accepted(c) ==
    /\ consumer[c].pc = "consuming"
    /\ HeartbeatError(TheGroup, consumer[c].id, consumer[c].generation) = "None"

\* No partition has two owners: of the consumers whose commits the coordinator
\* would accept, no two hold the same partition - whoever crashed, was expired
\* while still running, or joined and left in between.
ExclusiveOwnership ==
    \A c, d \in Consumers :
        c # d /\ Accepted(c) /\ Accepted(d) => consumer[c].owned \cap consumer[d].owned = {}

\* Topics some member of the group subscribed to.
SubscribedTopics == UNION {Group0.members[m].subscription : m \in DOMAIN Group0.members}

\* In a stable group every partition of every topic somebody subscribed to is
\* assigned to exactly one member (assignor.hpp: the leader is given "how many
\* partitions each subscribed topic has").
SubscribedIsAssigned ==
    TheGroup \in DOMAIN groups /\ Group0.state = "Stable" =>
        \A tp \in Partitions(SubscribedTopics) :
            Cardinality({m \in DOMAIN Group0.members : tp \in Group0.members[m].assignment}) = 1

\* A consumer the coordinator accepts holds what the coordinator stored for it:
\* it may keep an assignment from a generation that is over only while every
\* commit it makes is refused.  In a stable group these cover the subscriptions.
OwnsWhatWasAssigned ==
    /\ \A c \in Consumers :
            Accepted(c) =>
                /\ consumer[c].id \in DOMAIN Group0.members
                /\ consumer[c].owned = Group0.members[consumer[c].id].assignment
    /\ SubscribedIsAssigned

\* The consumer has settled: it is out of the group's life, or it consumes
\* under the generation of a stable group.
Settled(c) ==
    \/ ~Alive(c)
    \/ /\ Accepted(c)
       /\ Group0.state = "Stable"

\* Once consumers stop coming and going the group settles: every consumer
\* still alive ends up consuming in one stable generation, although every
\* rebalance makes everyone rejoin and nobody is parked.
GroupSettles == <>[](\A c \in Consumers : Settled(c))

\* A consumer never ends because of a rebalance: RebalanceInProgress "is not a
\* failure" (DESIGN.md:1710, group_consumer.cpp:103).  Two paths of the code
\* break it: commit() throws on it, and join() counts every one of them as a
\* round while a follower keeps polling sync() for just as many.
RebalanceIsNotAFailure == \A c \in Consumers : consumer[c].pc # "failed"

\* Everybody in the group consumes the same topics.
SameTopics == \A c, d \in Consumers : TopicsOf[c] = TopicsOf[d]
=============================================================================
