-------------------------- MODULE GroupCoordinator --------------------------
(***************************************************************************)
(* The group coordinator of the broker (src/src/group/group_coordinator):  *)
(* membership of consumer groups, the four-state rebalance, and the        *)
(* generation that fences members left behind.                             *)
(*                                                                         *)
(* Every operation of the class holds mutex_ from its first line to its    *)
(* last, so each is one atomic action here.  What an operation answers is  *)
(* an operator of the state (JoinReply, SyncError, HeartbeatError), which  *)
(* the modules that add clients use.                                       *)
(*                                                                         *)
(* Data abstraction: a member id is a number and numbers are ordered as    *)
(* std::map orders the strings; lastHeartbeatMs is kept as the member's    *)
(* age (now - lastHeartbeatMs), which stops growing at the session timeout *)
(* because expire() only asks whether it was reached.                      *)
(***************************************************************************)
EXTENDS Integers, Sequences, FiniteSets

CONSTANTS
    GroupIds,               \* non-empty group names
    MemberIds,              \* the ids join() may issue, ordered as the strings are
    Subscriptions,          \* what a member may subscribe to
    Strategies,             \* names of assignment strategies
    ProtocolLists,          \* the lists of strategies a member may send
    NoProtocol,             \* the cleared protocolName
    Assignments,            \* assignment bytes, opaque to the coordinator
    NoAssignment,           \* the empty byte vector of a new Member
    NoMember,               \* the cleared leaderId
    SessionTimeouts,        \* sessionTimeoutMs a client may send, in ticks
    DefaultSessionTimeout,  \* 10'000 ms, in ticks
    MaxGeneration           \* bound: join() completes no generation beyond it

ASSUME GroupCoordinatorAssumption ==
    /\ MemberIds \subseteq Nat
    /\ NoMember \notin MemberIds
    /\ ProtocolLists \subseteq Seq(Strategies)
    /\ NoAssignment \in Assignments
    /\ SessionTimeouts \subseteq Int
    /\ DefaultSessionTimeout \in Nat \ {0}
    /\ MaxGeneration \in Nat

VARIABLES
    groups,     \* groups_: group id -> Group, only the groups that exist
    issued      \* ids handed out so far (nextMemberId_ never hands one out twice)

vars == <<groups, issued>>

-----------------------------------------------------------------------------
(* Types *)

GroupStates == {"Empty", "PreparingRebalance", "CompletingRebalance", "Stable"}

\* std::map<K, V>: the maps from keys in D to values in R.
MapOf(D, R) == UNION {[S -> R] : S \in SUBSET D}
IsMapOf(f, D, R) == DOMAIN f \subseteq D /\ f \in [DOMAIN f -> R]

Member == [subscription   : Subscriptions,
           protocols      : ProtocolLists,
           assignment     : Assignments,
           sessionTimeout : Nat \ {0},
           age            : Nat,
           rejoined       : BOOLEAN]

IsGroup(group) ==
    /\ group \in [state        : GroupStates,
                 generation   : Nat,
                 leaderId     : MemberIds \cup {NoMember},
                 protocolName : Strategies \cup {NoProtocol},
                 members      : {group.members}]
    /\ IsMapOf(group.members, MemberIds, Member)

NewGroup == [state        |-> "Empty",
             generation   |-> 0,
             leaderId     |-> NoMember,
             protocolName |-> NoProtocol,
             members      |-> [m \in {} |-> {}]]

-----------------------------------------------------------------------------
(* Operators on one group: the private *Locked helpers *)

\* groupFor(): the group, created when it is not there.
GroupFor(g) == IF g \in DOMAIN groups THEN groups[g] ELSE NewGroup

\* The map with key k bound to v, and with the keys in S erased.
Put(f, k, v) == [x \in DOMAIN f \cup {k} |-> IF x = k THEN v ELSE f[x]]
Erase(f, S) == [x \in DOMAIN f \ S |-> f[x]]

\* beginRebalanceLocked(): everyone must rejoin.
BeginRebalanceLocked(group) ==
    [group EXCEPT
        !.state   = "PreparingRebalance",
        !.members = [m \in DOMAIN @ |-> [@[m] EXCEPT !.rejoined = FALSE]]]

\* group.members.begin()->first
First(members) == CHOOSE m \in DOMAIN members : \A n \in DOMAIN members : m <= n

\* The first strategy on the leader's list that every member lists too.
ChosenProtocol(members) ==
    LET mine   == members[First(members)].protocols
        shared == {i \in DOMAIN mine :
                     \A m \in DOMAIN members :
                        \E j \in DOMAIN members[m].protocols :
                            members[m].protocols[j] = mine[i]}
    IN  IF shared = {} THEN NoProtocol
        ELSE mine[CHOOSE i \in shared : \A j \in shared : i <= j]

\* Mutant: whoever led keeps leading.
KeepsOldLeader(group) ==
    IF DOMAIN group.members = {}
    THEN [group EXCEPT !.state = "Empty", !.leaderId = NoMember]
    ELSE IF \E m \in DOMAIN group.members : ~group.members[m].rejoined
    THEN group
    ELSE [group EXCEPT
            !.generation   = @ + 1,
            !.leaderId     = IF @ = NoMember THEN First(group.members) ELSE @,
            !.protocolName = ChosenProtocol(group.members),
            !.state        = "CompletingRebalance"]

\* Mutant: a rebalance completes under the generation it began in.
CompletesWithoutBump(group) ==
    IF DOMAIN group.members = {}
    THEN [group EXCEPT !.state = "Empty", !.leaderId = NoMember]
    ELSE IF \E m \in DOMAIN group.members : ~group.members[m].rejoined
    THEN group
    ELSE [group EXCEPT
            !.generation   = IF @ = 0 THEN 1 ELSE @,
            !.leaderId     = First(group.members),
            !.protocolName = ChosenProtocol(group.members),
            !.state        = "CompletingRebalance"]

\* maybeCompleteJoinLocked(): closes the rebalance once nobody is missing.
MaybeCompleteJoinLocked(group) ==
    IF DOMAIN group.members = {}
    THEN [group EXCEPT !.state = "Empty", !.leaderId = NoMember]
    ELSE IF \E m \in DOMAIN group.members : ~group.members[m].rejoined
    THEN group
    ELSE [group EXCEPT
            !.generation   = @ + 1,
            !.leaderId     = First(group.members),
            !.protocolName = ChosenProtocol(group.members),
            !.state        = "CompletingRebalance"]

-----------------------------------------------------------------------------
(* join() *)

IsSettled(group) == group.state \in {"CompletingRebalance", "Stable"}

\* A join that asks for nothing new from a member already counted.
IsRetry(group, id, subscription, protocols) ==
    /\ IsSettled(group)
    /\ id \in DOMAIN group.members
    /\ group.members[id].subscription = subscription
    /\ group.members[id].protocols = protocols
    /\ group.members[id].rejoined

\* Mutant: a session timeout of zero is taken as sent.
RawTimeoutMember(group, id, subscription, protocols, timeout) ==
    [subscription   |-> subscription,
     protocols      |-> protocols,
     assignment     |-> IF id \in DOMAIN group.members
                        THEN group.members[id].assignment ELSE NoAssignment,
     sessionTimeout |-> timeout,
     age            |-> 0,
     rejoined       |-> TRUE]

\* The Member join() leaves behind: a rejoin keeps the assignment it had.
JoinedMember(group, id, subscription, protocols, timeout) ==
    [subscription   |-> subscription,
     protocols      |-> protocols,
     assignment     |-> IF id \in DOMAIN group.members
                        THEN group.members[id].assignment ELSE NoAssignment,
     sessionTimeout |-> IF timeout > 0 THEN timeout ELSE DefaultSessionTimeout,
     age            |-> 0,
     rejoined       |-> TRUE]

\* The group after join() accepted member id.
JoinedGroup(group, id, subscription, protocols, timeout) ==
    IF IsRetry(group, id, subscription, protocols)
    THEN [group EXCEPT !.members[id].age = 0]
    ELSE LET begun == IF group.state = "PreparingRebalance"
                      THEN group ELSE BeginRebalanceLocked(group)
             joined == JoinedMember(begun, id, subscription, protocols, timeout)
         IN  MaybeCompleteJoinLocked(
                [begun EXCEPT !.members = Put(@, id, joined)])

\* resultFor(): only the leader is sent the member list.
ResultFor(group, id) ==
    [error        |-> "None",
     memberId     |-> id,
     generation   |-> group.generation,
     leaderId     |-> group.leaderId,
     protocolName |-> group.protocolName,
     members      |-> IF id = group.leaderId THEN group.members
                      ELSE [m \in {} |-> {}]]

\* What join() answers when the group it leaves behind is `group`.
JoinReply(group, id) ==
    IF group.state = "PreparingRebalance"
    THEN [error |-> "RebalanceInProgress", memberId |-> id]
    ELSE ResultFor(group, id)

\* join() with an empty memberId: a fresh id is issued.
JoinNew(g, id, subscription, protocols, timeout) ==
    /\ id \in MemberIds \ issued
    /\ GroupFor(g).generation < MaxGeneration
    /\ issued' = issued \cup {id}
    /\ groups' = Put(groups, g,
                     JoinedGroup(GroupFor(g), id, subscription, protocols, timeout))

\* join() with an id the group knows.
JoinAgain(g, id, subscription, protocols, timeout) ==
    /\ id \in DOMAIN GroupFor(g).members
    /\ \/ IsRetry(groups[g], id, subscription, protocols)
       \/ groups[g].generation < MaxGeneration
    /\ groups' = [groups EXCEPT ![g] =
                     JoinedGroup(@, id, subscription, protocols, timeout)]
    /\ UNCHANGED issued

\* join() with an id it does not know: UnknownMemberId, but groupFor() has
\* already created the group.
JoinUnknown(g, id) ==
    /\ id \notin DOMAIN GroupFor(g).members
    /\ groups' = Put(groups, g, GroupFor(g))
    /\ UNCHANGED issued

-----------------------------------------------------------------------------
(* sync(), heartbeat(), leave(), expire() *)

IsMember(g, id) == g \in DOMAIN groups /\ id \in DOMAIN groups[g].members

\* Mutant: the generation is compared, the membership is not.
GenerationOnlyError(g, id, generation) ==
    IF g \notin DOMAIN groups THEN "UnknownMemberId"
    ELSE IF generation # groups[g].generation THEN "IllegalGeneration"
    ELSE IF groups[g].state = "PreparingRebalance" THEN "RebalanceInProgress"
    ELSE "None"

\* heartbeat()'s answer.  sync() and OffsetCommit refuse in the same order.
HeartbeatError(g, id, generation) ==
    IF ~IsMember(g, id) THEN "UnknownMemberId"
    ELSE IF generation # groups[g].generation THEN "IllegalGeneration"
    ELSE IF groups[g].state = "PreparingRebalance" THEN "RebalanceInProgress"
    ELSE "None"

\* sync()'s answer: a follower is also told to wait for the leader.
SyncError(g, id, generation) ==
    IF /\ HeartbeatError(g, id, generation) = "None"
       /\ groups[g].state = "CompletingRebalance"
       /\ id # groups[g].leaderId
    THEN "RebalanceInProgress"
    ELSE HeartbeatError(g, id, generation)

\* Mutant: a leader that syncs again replaces a settled assignment.
ResyncedGroup(group, id, assignments) ==
    IF id = group.leaderId
    THEN [group EXCEPT
            !.state   = "Stable",
            !.members = [m \in DOMAIN @ |->
                            IF m \in DOMAIN assignments
                            THEN [@[m] EXCEPT !.assignment = assignments[m]]
                            ELSE @[m]]]
    ELSE group

\* The group after sync() passed its three refusals: the leader's assignments
\* are stored for the members still there, and only once per generation.
SyncedGroup(group, id, assignments) ==
    LET refreshed == [group EXCEPT !.members[id].age = 0]
    IN  IF group.state = "CompletingRebalance" /\ id = group.leaderId
        THEN [refreshed EXCEPT
                !.state   = "Stable",
                !.members = [m \in DOMAIN @ |->
                                IF m \in DOMAIN assignments
                                THEN [@[m] EXCEPT !.assignment = assignments[m]]
                                ELSE @[m]]]
        ELSE refreshed

Sync(g, id, generation, assignments) ==
    /\ HeartbeatError(g, id, generation) = "None"
    /\ groups' = [groups EXCEPT ![g] = SyncedGroup(@, id, assignments)]
    /\ UNCHANGED issued

Heartbeat(g, id, generation) ==
    /\ HeartbeatError(g, id, generation) = "None"
    /\ groups' = [groups EXCEPT ![g].members[id].age = 0]
    /\ UNCHANGED issued

\* Mutant: members that go during a rebalance do not close it.
WithoutMembersQuietly(group, S) ==
    IF group.state = "PreparingRebalance" /\ DOMAIN group.members # S
    THEN [group EXCEPT !.members = Erase(@, S)]
    ELSE MaybeCompleteJoinLocked(BeginRebalanceLocked(
            [group EXCEPT !.members = Erase(@, S)]))

\* The group without the members in S, rebalancing what is left.
WithoutMembers(group, S) ==
    MaybeCompleteJoinLocked(BeginRebalanceLocked(
        [group EXCEPT !.members = Erase(@, S)]))

\* A group that lost its last member is erased, and its generation with it.
DropEmpty(map) == Erase(map, {g \in DOMAIN map : DOMAIN map[g].members = {}})

Leave(g, id) ==
    /\ IsMember(g, id)
    /\ groups' = LET left == WithoutMembers(groups[g], {id})
                 IN  IF DOMAIN left.members = {} THEN Erase(groups, {g})
                     ELSE [groups EXCEPT ![g] = left]
    /\ UNCHANGED issued

Expired(group) == {m \in DOMAIN group.members :
                     group.members[m].age >= group.members[m].sessionTimeout}

\* expire(): one sweep over every group.
Expire ==
    /\ groups' = DropEmpty([g \in DOMAIN groups |->
                    IF Expired(groups[g]) = {} THEN groups[g]
                    ELSE WithoutMembers(groups[g], Expired(groups[g]))])
    /\ UNCHANGED issued

\* A tick of the wall clock, seen by one member and by one group.
Older(member) ==
    IF member.age < member.sessionTimeout
    THEN [member EXCEPT !.age = member.age + 1] ELSE member

Aged(group) == [group EXCEPT !.members = [m \in DOMAIN @ |-> Older(@[m])]]

\* Time passes.
Tick ==
    /\ groups' = [g \in DOMAIN groups |-> Aged(groups[g])]
    /\ UNCHANGED issued

-----------------------------------------------------------------------------
Init ==
    /\ groups = [g \in {} |-> NewGroup]
    /\ issued = {}

\* Requests arrive in any order with any id, generation and payload; one that
\* is refused without changing anything is a stuttering step.
Next ==
    \/ \E g \in GroupIds, id \in MemberIds, s \in Subscriptions,
          p \in ProtocolLists, t \in SessionTimeouts :
            \/ JoinNew(g, id, s, p, t)
            \/ JoinAgain(g, id, s, p, t)
    \/ \E g \in GroupIds, id \in MemberIds :
            \/ JoinUnknown(g, id)
            \/ Leave(g, id)
            \/ \E n \in 0..MaxGeneration :
                \/ Heartbeat(g, id, n)
                \/ \E a \in MapOf(MemberIds, Assignments) : Sync(g, id, n, a)
    \/ Expire
    \/ Tick

Spec == Init /\ [][Next]_vars

-----------------------------------------------------------------------------
(* Properties *)

\* The type invariant.
TypeOK ==
    /\ DOMAIN groups \subseteq GroupIds
    /\ groups = [g \in DOMAIN groups |-> groups[g]]
    /\ \A g \in DOMAIN groups : IsGroup(groups[g])
    /\ issued \subseteq MemberIds

\* A rebalance never waits for nobody: while maybeCompleteJoinLocked() leaves
\* a group in PreparingRebalance some member really is missing.  Were the last
\* missing member to go without the rebalance being closed or restarted, the
\* group would stay in PreparingRebalance for ever.
WaitsForSomebody ==
    \A g \in DOMAIN groups :
        groups[g].state = "PreparingRebalance" =>
            \E m \in DOMAIN groups[g].members : ~groups[g].members[m].rejoined

\* A settled group is unanimous: everyone in it rejoined for this generation
\* and its leader is its first member, so there is somebody to supply the
\* assignment.  join(), leave() and expire() all change the membership of a
\* settled group; none may leave it settled around a stale leader.
SettledIsUnanimous ==
    \A g \in DOMAIN groups :
        IsSettled(groups[g]) =>
            /\ groups[g].generation > 0
            /\ groups[g].leaderId \in DOMAIN groups[g].members
            /\ \A m \in DOMAIN groups[g].members :
                    /\ groups[g].members[m].rejoined
                    /\ groups[g].leaderId <= m

\* Every member id in a group was issued by the coordinator, and to that
\* group only: nextMemberId_ is shared by every group.
IdsAreIssuedOnce ==
    \A g \in DOMAIN groups :
        /\ DOMAIN groups[g].members \subseteq issued
        /\ \A h \in DOMAIN groups \ {g} :
                DOMAIN groups[g].members \cap DOMAIN groups[h].members = {}

\* What one step may do to a group that exists before and after it.
GenerationStep(old, new) ==
    /\ new.generation >= old.generation
    /\ ~IsSettled(old) /\ IsSettled(new) => new.generation = old.generation + 1
    /\ IsSettled(old) /\ IsSettled(new) /\ new.generation = old.generation =>
            /\ DOMAIN new.members = DOMAIN old.members
            /\ new.leaderId = old.leaderId
            /\ \A m \in DOMAIN old.members :
                    /\ new.members[m].subscription = old.members[m].subscription
                    /\ old.state = "Stable" =>
                            /\ new.state = "Stable"
                            /\ new.members[m].assignment = old.members[m].assignment

\* One generation is one membership and one assignment.  While a group keeps
\* its generation and stays settled, join(), sync(), heartbeat() and expire()
\* change neither who is in it, nor who leads it, nor what anyone subscribed
\* to, nor - once Stable - what anyone was assigned; and a rebalance that
\* completes always does so under the next generation.
OneGenerationOneMembership ==
    [][\A g \in DOMAIN groups \cap DOMAIN groups' :
            GenerationStep(groups[g], groups'[g])]_vars

\* Fencing is for good.  Once the coordinator refuses member id at generation
\* n - expired, stale, or in the middle of a rebalance - no later step makes it
\* accept that pair again, not even when the group was erased, created anew
\* and counted its generations from one again.
StaysFenced ==
    [][\A g \in GroupIds, id \in issued :
        \A n \in 0..(IF g \in DOMAIN groups THEN groups[g].generation
                                            ELSE MaxGeneration) :
            HeartbeatError(g, id, n) # "None" => HeartbeatError(g, id, n)' # "None"]_vars
=============================================================================
