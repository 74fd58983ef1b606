------------------------- MODULE OffsetCommitProofs -------------------------
(***************************************************************************)
(* Proofs about GroupCoordinator, for any set of groups, ids, strategies,  *)
(* timeouts and any bound on the generation; then about ConsumerGroup, and *)
(* about OffsetCommit, which composes it with the offset store: for any    *)
(* consumers, topics, partitions, timeouts and rounds.  That a strategy    *)
(* splits the partitions among the members is the theorem                  *)
(* AssignHandsOutOnce of AssignorProofs.                                   *)
(***************************************************************************)
EXTENDS OffsetCommit, AssignorProofs, FiniteSetTheorems, WellFoundedInduction, TLAPS

-----------------------------------------------------------------------------
(* The invariant of the coordinator *)

\* The inductive invariant, first for one group.
GroupInv(group) ==
    /\ IsGroup(group)
    /\ group.state = "Empty" <=> DOMAIN group.members = {}
    /\ group.state = "PreparingRebalance" =>
            \E m \in DOMAIN group.members : ~group.members[m].rejoined
    /\ IsSettled(group) =>
            /\ group.generation > 0
            /\ group.leaderId \in DOMAIN group.members
            /\ \A m \in DOMAIN group.members :
                    /\ group.members[m].rejoined
                    /\ group.leaderId <= m

\* ... and then for the coordinator.
IndInv ==
    /\ DOMAIN groups \subseteq GroupIds
    /\ groups = [g \in DOMAIN groups |-> groups[g]]
    /\ issued \subseteq MemberIds
    /\ \A g \in DOMAIN groups : GroupInv(groups[g])
    /\ IdsAreIssuedOnce

-----------------------------------------------------------------------------
(* The least element of a set of numbers: members.begin() *)

\* A non-empty set of naturals has a least element.
LEMMA LeastExists ==
    ASSUME NEW S \in SUBSET Nat, S # {}
    PROVE  \E m \in S : \A n \in S : m <= n
<1>1. PICK x \in S : \A y \in S : ~(<<y, x>> \in OpToRel(<, Nat))
  BY NatLessThanWellFounded, WFMin, Zenon
<1>2. \A y \in S : ~(y < x)
  BY <1>1 DEF OpToRel
<1> QED
  BY <1>2

\* First() picks the member the ordered map starts with.
LEMMA FirstIsLeast ==
    ASSUME NEW members, DOMAIN members \subseteq MemberIds, DOMAIN members # {}
    PROVE  /\ First(members) \in DOMAIN members
           /\ \A n \in DOMAIN members : First(members) <= n
<1>1. \E m \in DOMAIN members : \A n \in DOMAIN members : m <= n
  BY LeastExists, GroupCoordinatorAssumption
<1> QED
  BY <1>1 DEF First

\* The strategy chosen for a group is a strategy name, or the cleared one.
LEMMA ChosenProtocolType ==
    ASSUME NEW members, IsMapOf(members, MemberIds, Member), DOMAIN members # {}
    PROVE  ChosenProtocol(members) \in Strategies \cup {NoProtocol}
<1> DEFINE mine == members[First(members)].protocols
           shared == {i \in DOMAIN mine :
                        \A m \in DOMAIN members :
                            \E j \in DOMAIN members[m].protocols :
                                members[m].protocols[j] = mine[i]}
           pick == CHOOSE i \in shared : \A j \in shared : i <= j
<1>1. First(members) \in DOMAIN members
  BY FirstIsLeast DEF IsMapOf
<1>2. mine \in Seq(Strategies)
  <2>1. members[First(members)] \in Member
    BY <1>1 DEF IsMapOf
  <2> QED
    BY <2>1, GroupCoordinatorAssumption DEF Member
<1>3. shared \in SUBSET Nat /\ shared \subseteq DOMAIN mine
  BY <1>2
<1>4. shared # {} => pick \in shared
  <2>1. shared # {} => \E i \in shared : \A j \in shared : i <= j
    BY <1>3, LeastExists
  <2> QED
    BY <2>1
<1>5. ChosenProtocol(members) = IF shared = {} THEN NoProtocol ELSE mine[pick]
  BY DEF ChosenProtocol
<1> HIDE DEF mine, shared, pick
<1>6. \A i \in DOMAIN mine : mine[i] \in Strategies
  BY <1>2
<1>7. shared # {} => mine[pick] \in Strategies
  BY <1>3, <1>4, <1>6
<1> QED
  BY <1>5, <1>7

-----------------------------------------------------------------------------
(* The helpers on one group *)

\* beginRebalanceLocked() keeps the members and asks every one to rejoin.
LEMMA BeginRebalanceOK ==
    ASSUME NEW group, IsGroup(group)
    PROVE  /\ IsGroup(BeginRebalanceLocked(group))
           /\ BeginRebalanceLocked(group).state = "PreparingRebalance"
           /\ BeginRebalanceLocked(group).generation = group.generation
           /\ DOMAIN BeginRebalanceLocked(group).members = DOMAIN group.members
           /\ \A m \in DOMAIN group.members :
                  ~BeginRebalanceLocked(group).members[m].rejoined
<1> DEFINE begun == BeginRebalanceLocked(group)
           asked == [m \in DOMAIN group.members |->
                        [group.members[m] EXCEPT !.rejoined = FALSE]]
<1>1. begun = [group EXCEPT !.state = "PreparingRebalance", !.members = asked]
  BY DEF BeginRebalanceLocked
<1>2. \A m \in DOMAIN group.members : asked[m] \in Member /\ ~asked[m].rejoined
  BY DEF IsGroup, IsMapOf, Member
<1>3. /\ begun.state = "PreparingRebalance"
      /\ begun.generation = group.generation
      /\ begun.leaderId = group.leaderId
      /\ begun.protocolName = group.protocolName
      /\ begun.members = asked
  BY <1>1 DEF IsGroup
<1>4. IsMapOf(begun.members, MemberIds, Member)
  BY <1>2, <1>3 DEF IsGroup, IsMapOf
<1>5. IsGroup(begun)
  BY <1>1, <1>3, <1>4 DEF IsGroup, GroupStates
<1> QED
  BY <1>2, <1>3, <1>5

\* maybeCompleteJoinLocked(), called during a rebalance, leaves a sound group:
\* empty, still waiting for somebody, or settled under the next generation.
LEMMA MaybeCompleteJoinOK ==
    ASSUME NEW group, IsGroup(group), group.state = "PreparingRebalance"
    PROVE  /\ GroupInv(MaybeCompleteJoinLocked(group))
           /\ MaybeCompleteJoinLocked(group).members = group.members
           /\ MaybeCompleteJoinLocked(group).generation >= group.generation
           /\ IsSettled(MaybeCompleteJoinLocked(group)) =>
                 MaybeCompleteJoinLocked(group).generation = group.generation + 1
<1> DEFINE done == MaybeCompleteJoinLocked(group)
<1>0. group.generation \in Nat /\ DOMAIN group.members \subseteq MemberIds
  BY DEF IsGroup, IsMapOf
<1>1. CASE DOMAIN group.members = {}
  <2>1. done = [group EXCEPT !.state = "Empty", !.leaderId = NoMember]
    BY <1>1 DEF MaybeCompleteJoinLocked
  <2>2. IsGroup(done) /\ done.members = group.members /\ done.state = "Empty"
           /\ done.generation = group.generation
    BY <2>1 DEF IsGroup, GroupStates
  <2> QED
    BY <1>0, <1>1, <2>2 DEF GroupInv, IsSettled
<1>2. CASE \E m \in DOMAIN group.members : ~group.members[m].rejoined
  <2>1. done = group
    BY <1>2 DEF MaybeCompleteJoinLocked
  <2> QED
    BY <1>0, <1>2, <2>1 DEF GroupInv, IsSettled
<1>3. CASE /\ DOMAIN group.members # {}
           /\ \A m \in DOMAIN group.members : group.members[m].rejoined
  <2>1. done = [group EXCEPT !.generation   = group.generation + 1,
                             !.leaderId     = First(group.members),
                             !.protocolName = ChosenProtocol(group.members),
                             !.state        = "CompletingRebalance"]
    BY <1>3 DEF MaybeCompleteJoinLocked
  <2>2. /\ First(group.members) \in DOMAIN group.members
        /\ \A n \in DOMAIN group.members : First(group.members) <= n
    BY <1>0, <1>3, FirstIsLeast
  <2>3. ChosenProtocol(group.members) \in Strategies \cup {NoProtocol}
    BY <1>3, ChosenProtocolType DEF IsGroup
  <2>4. /\ done.members = group.members
        /\ done.generation = group.generation + 1
        /\ done.leaderId = First(group.members)
        /\ done.state = "CompletingRebalance"
    BY <2>1 DEF IsGroup
  <2>5. IsGroup(done)
    <3> DEFINE leader == First(group.members)
               protocol == ChosenProtocol(group.members)
    <3>1. done = [state        |-> "CompletingRebalance",
                  generation   |-> group.generation + 1,
                  leaderId     |-> leader,
                  protocolName |-> protocol,
                  members      |-> group.members]
      BY <2>1 DEF IsGroup
    <3>2. leader \in MemberIds /\ protocol \in Strategies \cup {NoProtocol}
      BY <1>0, <2>2, <2>3
    <3>3. IsMapOf(group.members, MemberIds, Member)
      BY DEF IsGroup
    <3> HIDE DEF leader, protocol, done
    <3> QED
      BY <1>0, <3>1, <3>2, <3>3 DEF IsGroup, GroupStates
  <2> QED
    BY <1>0, <1>3, <2>2, <2>4, <2>5 DEF GroupInv, IsSettled
<1> QED
  BY <1>1, <1>2, <1>3

\* Refreshing lastHeartbeatMs of one member disturbs nothing.
LEMMA RefreshOK ==
    ASSUME NEW group, GroupInv(group), NEW id \in DOMAIN group.members
    PROVE  /\ GroupInv([group EXCEPT !.members[id].age = 0])
           /\ DOMAIN [group EXCEPT !.members[id].age = 0].members = DOMAIN group.members
           /\ GenerationStep(group, [group EXCEPT !.members[id].age = 0])
<1> DEFINE fresh == [group EXCEPT !.members[id].age = 0]
           members == [group.members EXCEPT ![id].age = 0]
<1>1. /\ fresh = [group EXCEPT !.members = members]
      /\ fresh.state = group.state
      /\ fresh.generation = group.generation
      /\ fresh.leaderId = group.leaderId
      /\ fresh.members = members
  BY DEF GroupInv, IsGroup
<1>2. \A m \in DOMAIN group.members :
        /\ members[m] \in Member
        /\ members[m].rejoined = group.members[m].rejoined
        /\ members[m].subscription = group.members[m].subscription
        /\ members[m].assignment = group.members[m].assignment
  BY DEF GroupInv, IsGroup, IsMapOf, Member
<1>3. DOMAIN members = DOMAIN group.members
  OBVIOUS
<1>4. IsMapOf(members, MemberIds, Member)
  BY <1>2, <1>3 DEF GroupInv, IsGroup, IsMapOf
<1>5. IsGroup(fresh)
  BY <1>1, <1>4 DEF GroupInv, IsGroup
<1> HIDE DEF members, fresh
<1>6. GroupInv(fresh)
  BY <1>1, <1>2, <1>3, <1>5 DEF GroupInv, IsSettled
<1>7. GenerationStep(group, fresh)
  BY <1>1, <1>2, <1>3 DEF GenerationStep, IsSettled, GroupInv, IsGroup
<1> QED
  BY <1>1, <1>3, <1>6, <1>7 DEF fresh

\* join() of an accepted member keeps the group sound, adds that member only,
\* and respects the generation.
LEMMA JoinOK ==
    ASSUME NEW group, GroupInv(group), NEW id \in MemberIds,
           NEW s \in Subscriptions, NEW p \in ProtocolLists, NEW t \in SessionTimeouts
    PROVE  /\ GroupInv(JoinedGroup(group, id, s, p, t))
           /\ DOMAIN JoinedGroup(group, id, s, p, t).members = DOMAIN group.members \cup {id}
           /\ GenerationStep(group, JoinedGroup(group, id, s, p, t))
<1> DEFINE new == JoinedGroup(group, id, s, p, t)
<1>1. CASE IsRetry(group, id, s, p)
  <2>1. id \in DOMAIN group.members
    BY <1>1 DEF IsRetry
  <2>2. new = [group EXCEPT !.members[id].age = 0]
    BY <1>1 DEF JoinedGroup
  <2> QED
    BY <2>1, <2>2, RefreshOK
<1>2. CASE ~IsRetry(group, id, s, p)
  <2> DEFINE begun == IF group.state = "PreparingRebalance"
                      THEN group ELSE BeginRebalanceLocked(group)
             joined == JoinedMember(begun, id, s, p, t)
             put == Put(begun.members, id, joined)
             ready == [begun EXCEPT !.members = put]
  <2>1. new = MaybeCompleteJoinLocked(ready)
    BY <1>2 DEF JoinedGroup
  <2>2. /\ IsGroup(begun)
        /\ begun.state = "PreparingRebalance"
        /\ begun.generation = group.generation
        /\ DOMAIN begun.members = DOMAIN group.members
    BY BeginRebalanceOK DEF GroupInv
  <2> HIDE DEF begun
  <2>3. joined \in Member
    <3>1. id \in DOMAIN begun.members => begun.members[id].assignment \in Assignments
      BY <2>2 DEF IsGroup, IsMapOf, Member
    <3>2. (IF t > 0 THEN t ELSE DefaultSessionTimeout) \in Nat \ {0}
      BY GroupCoordinatorAssumption
    <3> QED
      BY <3>1, <3>2, GroupCoordinatorAssumption DEF JoinedMember, Member
  <2> HIDE DEF joined
  <2>4. IsMapOf(put, MemberIds, Member) /\ DOMAIN put = DOMAIN group.members \cup {id}
    BY <2>2, <2>3 DEF Put, IsGroup, IsMapOf
  <2> HIDE DEF put
  <2>5. /\ IsGroup(ready)
        /\ ready.state = "PreparingRebalance"
        /\ ready.generation = group.generation
        /\ ready.members = put
    BY <2>2, <2>4 DEF IsGroup
  <2> HIDE DEF ready
  <2>6. /\ GroupInv(new)
        /\ new.members = put
        /\ new.generation >= group.generation
        /\ IsSettled(new) => new.generation = group.generation + 1
    BY <2>1, <2>5, MaybeCompleteJoinOK
  <2>7. group.generation \in Nat
    BY DEF GroupInv, IsGroup
  <2> HIDE DEF new
  <2>8. GenerationStep(group, new)
    BY <2>6, <2>7 DEF GenerationStep
  <2> QED
    BY <2>4, <2>6, <2>8 DEF new
<1> QED
  BY <1>1, <1>2

\* leave() and expire(): what is left rebalances, or is empty.
LEMMA WithoutMembersOK ==
    ASSUME NEW group, GroupInv(group), NEW S
    PROVE  /\ GroupInv(WithoutMembers(group, S))
           /\ DOMAIN WithoutMembers(group, S).members = DOMAIN group.members \ S
           /\ GenerationStep(group, WithoutMembers(group, S))
<1> DEFINE left == [group EXCEPT !.members = Erase(group.members, S)]
           begun == BeginRebalanceLocked(left)
           new == WithoutMembers(group, S)
<1>1. new = MaybeCompleteJoinLocked(begun)
  BY DEF WithoutMembers
<1>2. /\ left.generation = group.generation
      /\ left.members = Erase(group.members, S)
      /\ DOMAIN left.members = DOMAIN group.members \ S
  BY DEF Erase, GroupInv, IsGroup
<1>3. IsMapOf(left.members, MemberIds, Member)
  BY <1>2 DEF Erase, GroupInv, IsGroup, IsMapOf
<1>4. IsGroup(left)
  BY <1>2, <1>3 DEF GroupInv, IsGroup
<1> HIDE DEF left
<1>5. /\ IsGroup(begun)
      /\ begun.state = "PreparingRebalance"
      /\ begun.generation = group.generation
      /\ DOMAIN begun.members = DOMAIN group.members \ S
  BY <1>2, <1>4, BeginRebalanceOK
<1> HIDE DEF begun
<1>6. /\ GroupInv(new)
      /\ new.members = begun.members
      /\ new.generation >= group.generation
      /\ IsSettled(new) => new.generation = group.generation + 1
  BY <1>1, <1>5, MaybeCompleteJoinOK
<1>7. group.generation \in Nat
  BY DEF GroupInv, IsGroup
<1> HIDE DEF new
<1>8. GenerationStep(group, new)
  BY <1>6, <1>7 DEF GenerationStep
<1> QED
  BY <1>5, <1>6, <1>8 DEF new

Rewritten(group, state, f) == [group EXCEPT !.state = state, !.members = f]

\* Rewriting the members of a group without touching who they are, whether
\* they rejoined or what they subscribed to disturbs nothing.  A Completing
\* group may become Stable at the same time; only then may assignments change.
LEMMA RewriteMembersOK ==
    ASSUME NEW group, GroupInv(group), NEW f, NEW state \in GroupStates,
           IsMapOf(f, MemberIds, Member),
           DOMAIN f = DOMAIN group.members,
           \A m \in DOMAIN f : /\ f[m].rejoined = group.members[m].rejoined
                               /\ f[m].subscription = group.members[m].subscription,
           \/ /\ group.state = "CompletingRebalance"
              /\ state = "Stable"
           \/ /\ state = group.state
              /\ \A m \in DOMAIN f : f[m].assignment = group.members[m].assignment
    PROVE  /\ GroupInv(Rewritten(group, state, f))
           /\ DOMAIN Rewritten(group, state, f).members = DOMAIN group.members
           /\ GenerationStep(group, Rewritten(group, state, f))
<1> DEFINE new == Rewritten(group, state, f)
<1>0. new = [group EXCEPT !.state = state, !.members = f]
  BY DEF Rewritten
<1>1. /\ new.state = state
      /\ new.generation = group.generation
      /\ new.leaderId = group.leaderId
      /\ new.members = f
  BY <1>0 DEF GroupInv, IsGroup
<1>2. IsGroup(new)
  BY <1>0, <1>1 DEF GroupInv, IsGroup
<1> HIDE DEF new
<1>3. GroupInv(new)
  BY <1>1, <1>2 DEF GroupInv, IsSettled
<1>4. GenerationStep(group, new)
  BY <1>1 DEF GenerationStep, IsSettled, GroupInv, IsGroup
<1> QED
  BY <1>1, <1>3, <1>4 DEF new

\* sync() past its refusals.
LEMMA SyncOK ==
    ASSUME NEW group, GroupInv(group), NEW id \in DOMAIN group.members,
           NEW a, \A m \in DOMAIN a : a[m] \in Assignments
    PROVE  /\ GroupInv(SyncedGroup(group, id, a))
           /\ DOMAIN SyncedGroup(group, id, a).members = DOMAIN group.members
           /\ GenerationStep(group, SyncedGroup(group, id, a))
<1> DEFINE fresh == [group EXCEPT !.members[id].age = 0]
           new == SyncedGroup(group, id, a)
<1>1. CASE ~(group.state = "CompletingRebalance" /\ id = group.leaderId)
  BY <1>1, RefreshOK DEF SyncedGroup
<1>2. CASE group.state = "CompletingRebalance" /\ id = group.leaderId
  <2> DEFINE f == [m \in DOMAIN fresh.members |->
                     IF m \in DOMAIN a
                     THEN [fresh.members[m] EXCEPT !.assignment = a[m]]
                     ELSE fresh.members[m]]
  <2>1. new = Rewritten(fresh, "Stable", f)
    BY <1>2 DEF SyncedGroup, Rewritten
  <2>2. /\ GroupInv(fresh)
        /\ DOMAIN fresh.members = DOMAIN group.members
        /\ GenerationStep(group, fresh)
    BY RefreshOK
  <2>3. fresh.state = "CompletingRebalance" /\ fresh.generation = group.generation
    BY <1>2 DEF GroupInv, IsGroup
  <2> HIDE DEF fresh
  <2>4. IsMapOf(fresh.members, MemberIds, Member)
    BY <2>2 DEF GroupInv, IsGroup
  <2>5. \A m \in DOMAIN f : /\ f[m] \in Member
                            /\ f[m].rejoined = fresh.members[m].rejoined
                            /\ f[m].subscription = fresh.members[m].subscription
    BY <2>4 DEF IsMapOf, Member
  <2>6. IsMapOf(f, MemberIds, Member) /\ DOMAIN f = DOMAIN fresh.members
    BY <2>4, <2>5 DEF IsMapOf
  <2> HIDE DEF f
  <2>7. /\ GroupInv(new)
        /\ DOMAIN new.members = DOMAIN fresh.members
        /\ GenerationStep(fresh, new)
    BY <2>1, <2>2, <2>3, <2>5, <2>6, RewriteMembersOK DEF GroupStates
  <2> HIDE DEF new
  <2>8. group.generation \in Nat /\ new.generation \in Nat
    BY <2>7 DEF GroupInv, IsGroup
  <2>9. GenerationStep(group, new)
    BY <1>2, <2>2, <2>3, <2>7, <2>8 DEF GenerationStep, IsSettled
  <2> QED
    BY <2>2, <2>7, <2>9 DEF new
<1> QED
  BY <1>1, <1>2

\* A tick.
LEMMA AgedOK ==
    ASSUME NEW group, GroupInv(group)
    PROVE  /\ GroupInv(Aged(group))
           /\ DOMAIN Aged(group).members = DOMAIN group.members
           /\ GenerationStep(group, Aged(group))
<1> DEFINE f == [m \in DOMAIN group.members |-> Older(group.members[m])]
<1>1. Aged(group) = [group EXCEPT !.members = f]
  BY DEF Aged
<1>2. Aged(group) = Rewritten(group, group.state, f)
  BY <1>1 DEF GroupInv, IsGroup, Rewritten
<1>3. group.state \in GroupStates /\ IsMapOf(group.members, MemberIds, Member)
  BY DEF GroupInv, IsGroup
<1>4. \A m \in DOMAIN f : /\ f[m] \in Member
                          /\ f[m].rejoined = group.members[m].rejoined
                          /\ f[m].subscription = group.members[m].subscription
                          /\ f[m].assignment = group.members[m].assignment
  BY <1>3 DEF IsMapOf, Member, Older
<1>5. IsMapOf(f, MemberIds, Member) /\ DOMAIN f = DOMAIN group.members
  BY <1>3, <1>4 DEF IsMapOf
<1> HIDE DEF f
<1> QED
  BY <1>2, <1>3, <1>4, <1>5, RewriteMembersOK

-----------------------------------------------------------------------------
(* The steps *)

\* What every step does to the groups: no id issued before enters a group it
\* was not in, and the groups that stay respect the generation.
Evolves ==
    /\ issued \subseteq issued'
    /\ \A g \in DOMAIN groups' : \A id \in issued \cap DOMAIN groups'[g].members :
            g \in DOMAIN groups /\ id \in DOMAIN groups[g].members
    /\ \A g \in DOMAIN groups \cap DOMAIN groups' :
            GenerationStep(groups[g], groups'[g])

\* A step that issues no id, creates no member and keeps each group sound.
LEMMA QuietStep ==
    ASSUME IndInv, issued' = issued, DOMAIN groups' \subseteq GroupIds,
           groups' = [g \in DOMAIN groups' |-> groups'[g]],
           \A g \in DOMAIN groups' :
                /\ GroupInv(groups'[g])
                /\ \/ DOMAIN groups'[g].members = {}
                   \/ /\ g \in DOMAIN groups
                      /\ DOMAIN groups'[g].members \subseteq DOMAIN groups[g].members
                /\ g \in DOMAIN groups => GenerationStep(groups[g], groups'[g])
    PROVE  IndInv' /\ Evolves
<1>1. IdsAreIssuedOnce'
  BY DEF IndInv, IdsAreIssuedOnce
<1>2. \A g \in DOMAIN groups' : GroupInv(groups'[g])
  OBVIOUS
<1>3. IndInv'
  BY <1>1, <1>2 DEF IndInv, GroupInv, IsGroup, IsMapOf, IsSettled
<1>4. Evolves
  BY DEF Evolves
<1> QED
  BY <1>3, <1>4

\* A group that did not change took a legal step.
LEMMA SameGroupOK ==
    ASSUME NEW group, GroupInv(group)
    PROVE  GenerationStep(group, group)
BY DEF GenerationStep, IsSettled, GroupInv, IsGroup

\* The group groupFor() creates is sound.
LEMMA NewGroupOK == GroupInv(NewGroup) /\ DOMAIN NewGroup.members = {}
BY DEF GroupInv, NewGroup, IsGroup, IsMapOf, GroupStates, IsSettled

\* The group a request is served from is sound, whether it was there or not.
LEMMA GroupForOK ==
    ASSUME IndInv, NEW g
    PROVE  GroupInv(GroupFor(g))
BY NewGroupOK DEF GroupFor, IndInv

\* A step that rewrites one group and nothing else.
LEMMA OneGroupStep ==
    ASSUME IndInv, NEW g \in GroupIds, NEW new, g \in DOMAIN groups,
           issued' = issued, groups' = [groups EXCEPT ![g] = new],
           GroupInv(new), DOMAIN new.members \subseteq DOMAIN groups[g].members,
           GenerationStep(groups[g], new)
    PROVE  IndInv' /\ Evolves
<1>1. /\ DOMAIN groups' = DOMAIN groups
      /\ groups'[g] = new
      /\ \A h \in DOMAIN groups' \ {g} : groups'[h] = groups[h]
      /\ groups' = [h \in DOMAIN groups' |-> groups'[h]]
  OBVIOUS
<1>2. \A h \in DOMAIN groups' :
          /\ GroupInv(groups'[h])
          /\ DOMAIN groups'[h].members \subseteq DOMAIN groups[h].members
          /\ GenerationStep(groups[h], groups'[h])
  BY <1>1, SameGroupOK DEF IndInv
<1> QED
  BY <1>1, <1>2, QuietStep DEF IndInv

\* heartbeat() of a member it does not refuse, at whatever generation.
LEMMA HeartbeatStep ==
    ASSUME IndInv, NEW g \in GroupIds, NEW id \in MemberIds, NEW n, Heartbeat(g, id, n)
    PROVE  IndInv' /\ Evolves
<1> DEFINE new == [groups[g] EXCEPT !.members[id].age = 0]
<1>1. g \in DOMAIN groups /\ id \in DOMAIN groups[g].members
  BY DEF Heartbeat, HeartbeatError, IsMember
<1>2. issued' = issued /\ groups' = [groups EXCEPT ![g] = new]
  BY DEF Heartbeat
<1>3. GroupInv(new) /\ DOMAIN new.members \subseteq DOMAIN groups[g].members
          /\ GenerationStep(groups[g], new)
  BY <1>1, RefreshOK DEF IndInv
<1> HIDE DEF new
<1> QED
  BY <1>1, <1>2, <1>3, OneGroupStep

\* sync() of a member it does not refuse.
LEMMA SyncStep ==
    ASSUME IndInv, NEW g \in GroupIds, NEW id \in MemberIds, NEW n,
           NEW a \in MapOf(MemberIds, Assignments), Sync(g, id, n, a)
    PROVE  IndInv' /\ Evolves
<1> DEFINE new == SyncedGroup(groups[g], id, a)
<1>1. g \in DOMAIN groups /\ id \in DOMAIN groups[g].members
  BY DEF Sync, HeartbeatError, IsMember
<1>2. issued' = issued /\ groups' = [groups EXCEPT ![g] = new]
  BY DEF Sync
<1>3. \A m \in DOMAIN a : a[m] \in Assignments
  BY DEF MapOf
<1>4. GroupInv(new) /\ DOMAIN new.members \subseteq DOMAIN groups[g].members
          /\ GenerationStep(groups[g], new)
  BY <1>1, <1>3, SyncOK DEF IndInv
<1> HIDE DEF new
<1> QED
  BY <1>1, <1>2, <1>4, OneGroupStep

\* Every step of the coordinator preserves the invariant and Evolves.
LEMMA NextOK ==
    ASSUME IndInv, Next
    PROVE  IndInv' /\ Evolves
<1>1. ASSUME NEW g \in GroupIds, NEW id \in MemberIds, NEW s \in Subscriptions,
             NEW p \in ProtocolLists, NEW t \in SessionTimeouts,
             JoinNew(g, id, s, p, t)
      PROVE  IndInv' /\ Evolves
  <2> DEFINE new == JoinedGroup(GroupFor(g), id, s, p, t)
  <2>1. /\ id \notin issued
        /\ issued' = issued \cup {id}
        /\ groups' = Put(groups, g, new)
    BY <1>1 DEF JoinNew
  <2>2. /\ GroupInv(new)
        /\ DOMAIN new.members = DOMAIN GroupFor(g).members \cup {id}
        /\ GenerationStep(GroupFor(g), new)
    BY JoinOK, GroupForOK
  <2>3. /\ g \in DOMAIN groups => GroupFor(g) = groups[g]
        /\ g \notin DOMAIN groups => DOMAIN GroupFor(g).members = {}
    BY NewGroupOK DEF GroupFor
  <2> HIDE DEF new
  <2>4. /\ DOMAIN groups' = DOMAIN groups \cup {g}
        /\ groups'[g] = new
        /\ \A h \in DOMAIN groups' \ {g} : h \in DOMAIN groups /\ groups'[h] = groups[h]
        /\ groups' = [h \in DOMAIN groups' |-> groups'[h]]
    BY <2>1 DEF Put
  <2>5. \A h \in DOMAIN groups' : GroupInv(groups'[h])
    BY <2>2, <2>4 DEF IndInv
  <2>6. IdsAreIssuedOnce'
    BY <2>1, <2>2, <2>3, <2>4 DEF IndInv, IdsAreIssuedOnce
  <2>7. IndInv'
    BY <2>1, <2>4, <2>5, <2>6 DEF IndInv, GroupInv, IsGroup, IsMapOf, IsSettled
  <2>8. \A h \in DOMAIN groups \cap DOMAIN groups' : GenerationStep(groups[h], groups'[h])
    BY <2>2, <2>3, <2>4, SameGroupOK DEF IndInv
  <2>9. \A h \in DOMAIN groups' : \A i \in issued \cap DOMAIN groups'[h].members :
            h \in DOMAIN groups /\ i \in DOMAIN groups[h].members
    BY <2>1, <2>2, <2>3, <2>4
  <2> QED
    BY <2>1, <2>7, <2>8, <2>9 DEF Evolves
<1>3. ASSUME NEW g \in GroupIds, NEW id \in MemberIds, NEW s \in Subscriptions,
             NEW p \in ProtocolLists, NEW t \in SessionTimeouts,
             JoinAgain(g, id, s, p, t)
      PROVE  IndInv' /\ Evolves
  <2>1. /\ g \in DOMAIN groups
        /\ id \in DOMAIN groups[g].members
        /\ issued' = issued
        /\ groups' = [groups EXCEPT ![g] = JoinedGroup(groups[g], id, s, p, t)]
    BY <1>3, NewGroupOK DEF JoinAgain, GroupFor
  <2> DEFINE new == JoinedGroup(groups[g], id, s, p, t)
  <2>2. /\ GroupInv(new)
        /\ DOMAIN new.members \subseteq DOMAIN groups[g].members
        /\ GenerationStep(groups[g], new)
    BY <2>1, JoinOK DEF IndInv
  <2>3. groups' = [groups EXCEPT ![g] = new]
    BY <2>1
  <2> HIDE DEF new
  <2> QED
    BY <2>1, <2>2, <2>3, OneGroupStep
<1>4. ASSUME NEW g \in GroupIds, NEW id \in MemberIds, JoinUnknown(g, id)
      PROVE  IndInv' /\ Evolves
  <2>1. /\ issued' = issued
        /\ DOMAIN groups' = DOMAIN groups \cup {g}
        /\ groups' = [h \in DOMAIN groups' |-> groups'[h]]
        /\ \A h \in DOMAIN groups' : groups'[h] = GroupFor(h)
    BY <1>4 DEF JoinUnknown, Put, GroupFor
  <2>2. \A h \in DOMAIN groups' :
            /\ GroupInv(groups'[h])
            /\ h \in DOMAIN groups => groups'[h] = groups[h]
            /\ h \notin DOMAIN groups => DOMAIN groups'[h].members = {}
    BY <2>1, GroupForOK, NewGroupOK DEF GroupFor
  <2>3. \A h \in DOMAIN groups : GenerationStep(groups[h], groups[h])
    BY SameGroupOK DEF IndInv
  <2> QED
    BY <2>1, <2>2, <2>3, QuietStep DEF IndInv
<1>5. ASSUME NEW g \in GroupIds, NEW id \in MemberIds, Leave(g, id)
      PROVE  IndInv' /\ Evolves
  <2> DEFINE left == WithoutMembers(groups[g], {id})
  <2>1. g \in DOMAIN groups /\ issued' = issued
    BY <1>5 DEF Leave, IsMember
  <2>2. /\ GroupInv(left)
        /\ DOMAIN left.members \subseteq DOMAIN groups[g].members
        /\ GenerationStep(groups[g], left)
    BY <2>1, WithoutMembersOK DEF IndInv
  <2>3. groups' = IF DOMAIN left.members = {} THEN Erase(groups, {g})
                  ELSE [groups EXCEPT ![g] = left]
    BY <1>5 DEF Leave
  <2> HIDE DEF left
  <2>4. CASE DOMAIN left.members # {}
    BY <2>1, <2>2, <2>3, <2>4, OneGroupStep
  <2>5. CASE DOMAIN left.members = {}
    <3>1. /\ DOMAIN groups' = DOMAIN groups \ {g}
          /\ groups' = [h \in DOMAIN groups' |-> groups'[h]]
          /\ \A h \in DOMAIN groups' : groups'[h] = groups[h]
      BY <2>3, <2>5 DEF Erase
    <3>2. \A h \in DOMAIN groups' : GroupInv(groups'[h]) /\ GenerationStep(groups[h], groups'[h])
      BY <3>1, SameGroupOK DEF IndInv
    <3> QED
      BY <2>1, <3>1, <3>2, QuietStep DEF IndInv
  <2> QED
    BY <2>4, <2>5
<1>6. ASSUME NEW g \in GroupIds, NEW id \in MemberIds, NEW n, Heartbeat(g, id, n)
      PROVE  IndInv' /\ Evolves
  BY <1>6, HeartbeatStep
<1>7. ASSUME NEW g \in GroupIds, NEW id \in MemberIds, NEW n,
             NEW a \in MapOf(MemberIds, Assignments), Sync(g, id, n, a)
      PROVE  IndInv' /\ Evolves
  BY <1>7, SyncStep
<1>8. CASE Expire
  <2> DEFINE new(g) == IF Expired(groups[g]) = {} THEN groups[g]
                       ELSE WithoutMembers(groups[g], Expired(groups[g]))
             swept == [g \in DOMAIN groups |-> new(g)]
  <2>1. issued' = issued /\ groups' = DropEmpty(swept)
    BY <1>8 DEF Expire
  <2>2. \A g \in DOMAIN groups :
            /\ GroupInv(new(g))
            /\ DOMAIN new(g).members \subseteq DOMAIN groups[g].members
            /\ GenerationStep(groups[g], new(g))
    <3> SUFFICES ASSUME NEW g \in DOMAIN groups
                 PROVE  /\ GroupInv(new(g))
                        /\ DOMAIN new(g).members \subseteq DOMAIN groups[g].members
                        /\ GenerationStep(groups[g], new(g))
      OBVIOUS
    <3>1. GroupInv(groups[g])
      BY DEF IndInv
    <3> QED
      BY <3>1, SameGroupOK, WithoutMembersOK
  <2> HIDE DEF new
  <2>3. /\ DOMAIN groups' \subseteq DOMAIN groups
        /\ groups' = [h \in DOMAIN groups' |-> groups'[h]]
        /\ \A h \in DOMAIN groups' : groups'[h] = new(h)
    BY <2>1 DEF DropEmpty, Erase
  <2>4. \A g \in DOMAIN groups' :
                /\ GroupInv(groups'[g])
                /\ g \in DOMAIN groups
                /\ DOMAIN groups'[g].members \subseteq DOMAIN groups[g].members
                /\ GenerationStep(groups[g], groups'[g])
    BY <2>2, <2>3
  <2>5. DOMAIN groups' \subseteq GroupIds
    BY <2>3 DEF IndInv
  <2> QED
    BY <2>1, <2>3, <2>4, <2>5, QuietStep
<1>9. CASE Tick
  <2>1. /\ issued' = issued
        /\ DOMAIN groups' = DOMAIN groups
        /\ groups' = [h \in DOMAIN groups' |-> groups'[h]]
        /\ \A h \in DOMAIN groups' : groups'[h] = Aged(groups[h])
    BY <1>9 DEF Tick
  <2>2. \A h \in DOMAIN groups' :
            /\ GroupInv(groups'[h])
            /\ DOMAIN groups'[h].members \subseteq DOMAIN groups[h].members
            /\ GenerationStep(groups[h], groups'[h])
    BY <2>1, AgedOK DEF IndInv
  <2> QED
    BY <2>1, <2>2, QuietStep DEF IndInv
<1> QED
  BY <1>1, <1>3, <1>4, <1>5, <1>6, <1>7, <1>8, <1>9 DEF Next

-----------------------------------------------------------------------------
(* The theorems *)

\* IndInv is an invariant of the coordinator, and every step Evolves.
LEMMA Inductive == Spec => []IndInv /\ [][Evolves]_vars
<1>1. Init => IndInv
  BY DEF Init, IndInv, IdsAreIssuedOnce
<1>2. IndInv /\ [Next]_vars => IndInv' /\ [Evolves]_vars
  <2>1. CASE Next
    BY <2>1, NextOK
  <2>2. CASE UNCHANGED vars
    BY <2>2 DEF vars, IndInv, IdsAreIssuedOnce, GroupInv, IsGroup, IsMapOf, IsSettled
  <2> QED
    BY <2>1, <2>2
<1> QED
  BY <1>1, <1>2, PTL DEF Spec

\* Every reachable state of the coordinator is well typed: join, sync,
\* heartbeat, leave and expire never build a group that is not one.
THEOREM TypeCorrect == Spec => []TypeOK
<1>1. IndInv => TypeOK
  BY DEF IndInv, TypeOK, GroupInv
<1> QED
  BY <1>1, Inductive, PTL

\* A rebalance in progress always waits for a member that really is missing,
\* so it never hangs with everybody already rejoined.
THEOREM RebalanceWaitsForSomebody == Spec => []WaitsForSomebody
<1>1. IndInv => WaitsForSomebody
  BY DEF IndInv, WaitsForSomebody, GroupInv
<1> QED
  BY <1>1, Inductive, PTL

\* A settled group holds only members that rejoined for its generation, and
\* its leader is its first member.
THEOREM SettledGroupsAreUnanimous == Spec => []SettledIsUnanimous
<1>1. IndInv => SettledIsUnanimous
  BY DEF IndInv, SettledIsUnanimous, GroupInv
<1> QED
  BY <1>1, Inductive, PTL

\* One generation of a group has one membership, one leader and - once the
\* leader synced - one assignment.
THEOREM GenerationFixesMembership == Spec => OneGenerationOneMembership
<1>1. [Evolves]_vars =>
        [\A g \in DOMAIN groups \cap DOMAIN groups' :
            GenerationStep(groups[g], groups'[g])]_vars
  BY DEF Evolves
<1> QED
  BY <1>1, Inductive, PTL DEF OneGenerationOneMembership

\* A member the coordinator refused at some generation stays refused at that
\* generation for ever.
THEOREM FencingIsForGood == Spec => StaysFenced
<1> DEFINE Fenced == \A g \in GroupIds, id \in issued :
                \A n \in 0..(IF g \in DOMAIN groups THEN groups[g].generation
                                                     ELSE MaxGeneration) :
                  HeartbeatError(g, id, n) # "None" => HeartbeatError(g, id, n)' # "None"
<1>1. IndInv /\ IndInv' /\ Evolves => Fenced
  <2> SUFFICES ASSUME IndInv, IndInv', Evolves,
                      NEW g \in GroupIds, NEW id \in issued,
                      NEW n \in 0..(IF g \in DOMAIN groups THEN groups[g].generation
                                                           ELSE MaxGeneration),
                      HeartbeatError(g, id, n)' = "None"
               PROVE  HeartbeatError(g, id, n) = "None"
    OBVIOUS
  <2>1. /\ g \in DOMAIN groups'
        /\ id \in DOMAIN groups'[g].members
        /\ n = groups'[g].generation
        /\ groups'[g].state # "PreparingRebalance"
    BY DEF HeartbeatError, IsMember
  <2>2. g \in DOMAIN groups /\ id \in DOMAIN groups[g].members
    BY <2>1 DEF Evolves
  <2>3. GroupInv(groups[g]) /\ GroupInv(groups'[g])
    BY <2>1, <2>2 DEF IndInv, GroupInv, IsGroup, IsMapOf, IsSettled
  <2>4. IsSettled(groups'[g])
    BY <2>1, <2>3 DEF GroupInv, IsGroup, GroupStates, IsSettled
  <2>5. GenerationStep(groups[g], groups'[g])
    BY <2>1, <2>2 DEF Evolves
  <2>6. groups[g].generation \in Nat /\ groups'[g].generation \in Nat
    BY <2>3 DEF GroupInv, IsGroup
  <2>7. n = groups[g].generation /\ IsSettled(groups[g])
    BY <2>1, <2>2, <2>4, <2>5, <2>6 DEF GenerationStep
  <2> QED
    BY <2>2, <2>7 DEF HeartbeatError, IsMember, IsSettled
<1>2. IndInv /\ IndInv' /\ [Evolves]_vars => [Fenced]_vars
  BY <1>1
<1> QED
  BY <1>2, Inductive, PTL DEF StaysFenced

-----------------------------------------------------------------------------
(* The invariant of consumers and coordinator *)

\* The group of the consumers, whether it exists or not.
Ours == GroupFor(TheGroup)

Views == MapOf(MemberIds, Subscriptions)

RecordOver(Flags) == [pc         : Pcs,
                      id         : MemberIds \cup {NoMember},
                      generation : Int,
                      owned      : Assignments,
                      view       : Views,
                      round      : Nat,
                      wait       : Nat,
                      asleep     : Flags]

ConsumerRecord == RecordOver(BOOLEAN)

\* The group still has the membership, and the assignments, of its last
\* complete generation as far as member m is concerned: it is stable, or it
\* waits for m to rejoin.
Waits(group, m) ==
    \/ group.state = "Stable"
    \/ group.state = "PreparingRebalance" /\ ~group.members[m].rejoined

\* A consumer's id and generation are those of a member.
InGeneration(r, group) ==
    r.id \in DOMAIN group.members /\ r.generation = group.generation

\* A consumer that holds what the coordinator stored for it.
Holds(r, group) ==
    /\ InGeneration(r, group)
    /\ Waits(group, r.id)
    /\ r.owned = group.members[r.id].assignment

\* What a consumer knows of the generation it joined, while it is in it.
ConsumerInv(r, group) ==
    /\ r.pc \in {"leading", "following", "consuming"} /\ r.id \in DOMAIN group.members =>
            r.generation \in Nat /\ r.generation <= group.generation
    /\ r.pc = "leading" /\ InGeneration(r, group) /\ IsSettled(group) =>
            /\ r.id = group.leaderId
            /\ DOMAIN r.view = DOMAIN group.members
            /\ \A m \in DOMAIN r.view : r.view[m] = group.members[m].subscription
    /\ r.pc = "following" /\ InGeneration(r, group) /\ IsSettled(group) =>
            r.id # group.leaderId
    /\ r.pc = "consuming" /\ InGeneration(r, group) => Holds(r, group)

\* No partition is assigned to two members.
Disjoint(group) ==
    \A m, n \in DOMAIN group.members :
        m # n => group.members[m].assignment \cap group.members[n].assignment = {}

\* No two consumers have the same member id.
OwnIds ==
    /\ \A c \in Consumers : consumer[c].id \in issued \cup {NoMember}
    /\ \A c, d \in Consumers :
            c # d /\ consumer[c].id = consumer[d].id => consumer[c].id = NoMember

CInv ==
    /\ IndInv
    /\ IsFiniteSet(issued)
    /\ consumer \in [Consumers -> ConsumerRecord]
    /\ OwnIds
    /\ Disjoint(Ours)
    /\ \A c \in Consumers : ConsumerInv(consumer[c], Ours)

\* What every member subscribed to, some consumer consumes.
FromConsumers(group) ==
    \A m \in DOMAIN group.members :
        \E c \in Consumers : group.members[m].subscription = TopicsOf[c]

\* In a stable group every partition that is subscribed to has an owner.
AllOwned(group) ==
    group.state = "Stable" =>
        \A m \in DOMAIN group.members : \A tp \in Partitions(group.members[m].subscription) :
            \E n \in DOMAIN group.members : tp \in group.members[n].assignment

CoverInv == FromConsumers(Ours) /\ AllOwned(Ours)

-----------------------------------------------------------------------------
(* What one operation does to a group *)

\* The group goes on waiting for each member but id: whoever a generation's
\* assignment counts on is in it until it rejoins or goes.
Keeps(old, new, id) ==
    \A m \in DOMAIN new.members \cap DOMAIN old.members :
        m # id /\ Waits(old, m) =>
            /\ Waits(new, m)
            /\ new.generation = old.generation
            /\ new.members[m].assignment = old.members[m].assignment

\* Nobody's assignment changes, a new member has none, and the group does not
\* become stable.
Quiet(old, new) ==
    /\ \A m \in DOMAIN new.members :
            new.members[m].assignment = IF m \in DOMAIN old.members
                                        THEN old.members[m].assignment
                                        ELSE NoAssignment
    /\ new.state = "Stable" =>
            /\ old.state = "Stable"
            /\ DOMAIN new.members = DOMAIN old.members
            /\ \A m \in DOMAIN new.members :
                    new.members[m].subscription = old.members[m].subscription

\* Nothing happens to the group.
LEMMA SameQuiet ==
    ASSUME NEW group, NEW id
    PROVE  Quiet(group, group) /\ Keeps(group, group, id)
BY DEF Quiet, Keeps

\* beginRebalanceLocked() changes no assignment, and waits for everyone.
LEMMA BeginQuiet ==
    ASSUME NEW group, IsGroup(group)
    PROVE  \A m \in DOMAIN group.members :
              /\ BeginRebalanceLocked(group).members[m].assignment = group.members[m].assignment
              /\ BeginRebalanceLocked(group).members[m].subscription = group.members[m].subscription
              /\ ~BeginRebalanceLocked(group).members[m].rejoined
<1> DEFINE asked == [m \in DOMAIN group.members |->
                        [group.members[m] EXCEPT !.rejoined = FALSE]]
<1>1. BeginRebalanceLocked(group) =
        [group EXCEPT !.state = "PreparingRebalance", !.members = asked]
  BY DEF BeginRebalanceLocked
<1>2. BeginRebalanceLocked(group).members = asked
  BY <1>1 DEF IsGroup
<1>3. \A m \in DOMAIN group.members : group.members[m] \in Member
  BY DEF IsGroup, IsMapOf
<1>4. \A m \in DOMAIN group.members :
        /\ asked[m].assignment = group.members[m].assignment
        /\ asked[m].subscription = group.members[m].subscription
        /\ ~asked[m].rejoined
  BY <1>3 DEF Member
<1> QED
  BY <1>2, <1>4

\* maybeCompleteJoinLocked() never makes a group stable, and does nothing as
\* long as a member is missing.
LEMMA CompleteQuiet ==
    ASSUME NEW group, IsGroup(group), group.state = "PreparingRebalance"
    PROVE  /\ MaybeCompleteJoinLocked(group).state # "Stable"
           /\ (\E m \in DOMAIN group.members : ~group.members[m].rejoined) =>
                 MaybeCompleteJoinLocked(group) = group
BY DEF MaybeCompleteJoinLocked, IsGroup

\* Refreshing a heartbeat is quiet.
LEMMA RefreshQuiet ==
    ASSUME NEW group, IsGroup(group), NEW id \in DOMAIN group.members, NEW other
    PROVE  /\ Quiet(group, [group EXCEPT !.members[id].age = 0])
           /\ Keeps(group, [group EXCEPT !.members[id].age = 0], other)
<1> DEFINE fresh == [group EXCEPT !.members[id].age = 0]
           members == [group.members EXCEPT ![id].age = 0]
<1>1. /\ fresh.state = group.state
      /\ fresh.generation = group.generation
      /\ fresh.members = members
  BY DEF IsGroup
<1>2. \A m \in DOMAIN group.members :
        /\ members[m].rejoined = group.members[m].rejoined
        /\ members[m].assignment = group.members[m].assignment
        /\ members[m].subscription = group.members[m].subscription
  BY DEF IsGroup, IsMapOf, Member
<1>3. DOMAIN members = DOMAIN group.members
  OBVIOUS
<1> HIDE DEF members, fresh
<1>4. Quiet(group, fresh) /\ Keeps(group, fresh, other)
  BY <1>1, <1>2, <1>3 DEF Quiet, Keeps, Waits
<1> QED
  BY <1>4 DEF fresh

\* A tick is quiet.
LEMMA AgedQuiet ==
    ASSUME NEW group, IsGroup(group), NEW other
    PROVE  Quiet(group, Aged(group)) /\ Keeps(group, Aged(group), other)
<1> DEFINE f == [m \in DOMAIN group.members |-> Older(group.members[m])]
<1>1. Aged(group) = [group EXCEPT !.members = f]
  BY DEF Aged
<1>2. /\ Aged(group).members = f
      /\ Aged(group).state = group.state
      /\ Aged(group).generation = group.generation
  BY <1>1 DEF IsGroup
<1>3. \A m \in DOMAIN group.members :
        /\ f[m].rejoined = group.members[m].rejoined
        /\ f[m].subscription = group.members[m].subscription
        /\ f[m].assignment = group.members[m].assignment
  BY DEF IsGroup, IsMapOf, Member, Older
<1>4. DOMAIN f = DOMAIN group.members
  OBVIOUS
<1> HIDE DEF f
<1> QED
  BY <1>2, <1>3, <1>4 DEF Quiet, Keeps, Waits

\* A join is quiet: it keeps everyone's assignment, and asks everyone but the
\* member that joins to rejoin.
LEMMA JoinQuiet ==
    ASSUME NEW group, GroupInv(group), NEW id \in MemberIds,
           NEW s \in Subscriptions, NEW p \in ProtocolLists, NEW t \in SessionTimeouts
    PROVE  /\ Quiet(group, JoinedGroup(group, id, s, p, t))
           /\ Keeps(group, JoinedGroup(group, id, s, p, t), id)
           /\ \A m \in DOMAIN JoinedGroup(group, id, s, p, t).members :
                 JoinedGroup(group, id, s, p, t).members[m].subscription =
                    IF m = id THEN s ELSE group.members[m].subscription
<1> DEFINE new == JoinedGroup(group, id, s, p, t)
<1>1. CASE IsRetry(group, id, s, p)
  <2>1. id \in DOMAIN group.members /\ group.members[id].subscription = s
    BY <1>1 DEF IsRetry
  <2>2. new = [group EXCEPT !.members[id].age = 0]
    BY <1>1 DEF JoinedGroup
  <2>3. \A m \in DOMAIN new.members : new.members[m].subscription = group.members[m].subscription
    BY <2>1, <2>2 DEF GroupInv, IsGroup, IsMapOf, Member
  <2> QED
    BY <2>1, <2>2, <2>3, RefreshQuiet DEF GroupInv
<1>2. CASE ~IsRetry(group, id, s, p)
  <2> DEFINE begun == IF group.state = "PreparingRebalance"
                      THEN group ELSE BeginRebalanceLocked(group)
             joined == JoinedMember(begun, id, s, p, t)
             put == Put(begun.members, id, joined)
             ready == [begun EXCEPT !.members = put]
  <2>1. new = MaybeCompleteJoinLocked(ready)
    BY <1>2 DEF JoinedGroup
  <2>2. /\ IsGroup(begun)
        /\ begun.state = "PreparingRebalance"
        /\ begun.generation = group.generation
        /\ DOMAIN begun.members = DOMAIN group.members
    BY BeginRebalanceOK DEF GroupInv
  <2>3. \A m \in DOMAIN group.members :
            /\ begun.members[m].assignment = group.members[m].assignment
            /\ begun.members[m].subscription = group.members[m].subscription
            /\ Waits(group, m) => ~begun.members[m].rejoined
    BY BeginQuiet DEF GroupInv, Waits
  <2> HIDE DEF begun
  <2>4. /\ joined.assignment = IF id \in DOMAIN group.members
                               THEN group.members[id].assignment ELSE NoAssignment
        /\ joined.subscription = s
    BY <2>2, <2>3 DEF JoinedMember
  <2>5. joined \in Member
    <3>1. id \in DOMAIN begun.members => begun.members[id].assignment \in Assignments
      BY <2>2 DEF IsGroup, IsMapOf, Member
    <3>2. (IF t > 0 THEN t ELSE DefaultSessionTimeout) \in Nat \ {0}
      BY GroupCoordinatorAssumption
    <3> QED
      BY <3>1, <3>2, GroupCoordinatorAssumption DEF JoinedMember, Member
  <2> HIDE DEF joined
  <2>6. /\ IsMapOf(put, MemberIds, Member)
        /\ DOMAIN put = DOMAIN group.members \cup {id}
        /\ put[id] = joined
        /\ \A m \in DOMAIN group.members \ {id} : put[m] = begun.members[m]
    BY <2>2, <2>5 DEF Put, IsGroup, IsMapOf
  <2> HIDE DEF put
  <2>7. /\ IsGroup(ready)
        /\ ready.state = "PreparingRebalance"
        /\ ready.generation = group.generation
        /\ ready.members = put
    BY <2>2, <2>6 DEF IsGroup
  <2> HIDE DEF ready
  <2>8. new.members = put
    BY <2>1, <2>7, MaybeCompleteJoinOK
  <2>9. /\ new.state # "Stable"
        /\ (\E m \in DOMAIN put : ~put[m].rejoined) => new = ready
    BY <2>1, <2>7, CompleteQuiet
  <2> HIDE DEF new
  <2>10. Quiet(group, new)
    <3>1. \A m \in DOMAIN put :
            put[m].assignment = IF m \in DOMAIN group.members
                                THEN group.members[m].assignment ELSE NoAssignment
      BY <2>3, <2>4, <2>6
    <3> QED
      BY <3>1, <2>8, <2>9 DEF Quiet
  <2>11. Keeps(group, new, id)
    <3> SUFFICES ASSUME NEW m \in DOMAIN group.members, m # id, Waits(group, m)
                 PROVE  /\ Waits(new, m)
                        /\ new.generation = group.generation
                        /\ new.members[m].assignment = group.members[m].assignment
      BY DEF Keeps
    <3>1. ~put[m].rejoined /\ put[m].assignment = group.members[m].assignment
      BY <2>3, <2>6
    <3> QED
      BY <3>1, <2>6, <2>7, <2>9 DEF Waits
  <2>12. \A m \in DOMAIN new.members :
            new.members[m].subscription = IF m = id THEN s ELSE group.members[m].subscription
    BY <2>3, <2>4, <2>6, <2>8
  <2> QED
    BY <2>10, <2>11, <2>12 DEF new
<1> QED
  BY <1>1, <1>2

\* The departure of other members is quiet, and leaves a group that waits for
\* everyone left.
LEMMA LeaveQuiet ==
    ASSUME NEW group, GroupInv(group), NEW S, NEW other
    PROVE  /\ Quiet(group, WithoutMembers(group, S))
           /\ Keeps(group, WithoutMembers(group, S), other)
           /\ \A m \in DOMAIN group.members \ S :
                 WithoutMembers(group, S).members[m].subscription = group.members[m].subscription
<1> DEFINE left == [group EXCEPT !.members = Erase(group.members, S)]
           begun == BeginRebalanceLocked(left)
           new == WithoutMembers(group, S)
<1>1. new = MaybeCompleteJoinLocked(begun)
  BY DEF WithoutMembers
<1>2. /\ left.generation = group.generation
      /\ left.members = Erase(group.members, S)
      /\ DOMAIN left.members = DOMAIN group.members \ S
      /\ \A m \in DOMAIN left.members : left.members[m] = group.members[m]
  BY DEF Erase, GroupInv, IsGroup
<1>3. IsMapOf(left.members, MemberIds, Member)
  BY <1>2 DEF Erase, GroupInv, IsGroup, IsMapOf
<1>4. IsGroup(left)
  BY <1>2, <1>3 DEF GroupInv, IsGroup
<1> HIDE DEF left
<1>5. /\ IsGroup(begun)
      /\ begun.state = "PreparingRebalance"
      /\ begun.generation = group.generation
      /\ DOMAIN begun.members = DOMAIN group.members \ S
  BY <1>2, <1>4, BeginRebalanceOK
<1>6. \A m \in DOMAIN group.members \ S :
        /\ begun.members[m].assignment = group.members[m].assignment
        /\ begun.members[m].subscription = group.members[m].subscription
        /\ ~begun.members[m].rejoined
  BY <1>2, <1>4, BeginQuiet
<1> HIDE DEF begun
<1>7. /\ new.members = begun.members
      /\ new.state # "Stable"
      /\ (\E m \in DOMAIN begun.members : ~begun.members[m].rejoined) => new = begun
  BY <1>1, <1>5, MaybeCompleteJoinOK, CompleteQuiet
<1> HIDE DEF new
<1>8. Quiet(group, new)
  BY <1>5, <1>6, <1>7 DEF Quiet
<1>9. Keeps(group, new, other)
  BY <1>5, <1>6, <1>7 DEF Keeps, Waits
<1> QED
  BY <1>5, <1>6, <1>7, <1>8, <1>9 DEF new

\* sync() keeps whoever is waited for, and is quiet unless it is the leader's.
LEMMA SyncQuiet ==
    ASSUME NEW group, GroupInv(group), NEW id \in DOMAIN group.members, NEW a, NEW other,
           group.state \in {"CompletingRebalance", "Stable"}
    PROVE  /\ Keeps(group, SyncedGroup(group, id, a), other)
           /\ ~(group.state = "CompletingRebalance" /\ id = group.leaderId) =>
                 Quiet(group, SyncedGroup(group, id, a))
<1>1. CASE group.state = "CompletingRebalance"
  BY <1>1, RefreshQuiet DEF Keeps, Waits, SyncedGroup, GroupInv
<1>2. CASE group.state = "Stable"
  BY <1>2, RefreshQuiet DEF SyncedGroup, GroupInv
<1> QED
  BY <1>1, <1>2

\* Once the group is stable, sync() only refreshes a heartbeat.
LEMMA StableSync ==
    ASSUME NEW group, GroupInv(group), NEW id \in DOMAIN group.members, NEW a,
           group.state = "Stable"
    PROVE  /\ SyncedGroup(group, id, a).state = "Stable"
           /\ SyncedGroup(group, id, a).generation = group.generation
BY DEF SyncedGroup, GroupInv, IsGroup

\* sync() changes no subscription.
LEMMA SyncSubscriptions ==
    ASSUME NEW group, GroupInv(group), NEW id \in DOMAIN group.members, NEW a
    PROVE  \A m \in DOMAIN group.members :
              SyncedGroup(group, id, a).members[m].subscription = group.members[m].subscription
<1> DEFINE fresh == [group EXCEPT !.members[id].age = 0]
           f == [m \in DOMAIN fresh.members |->
                   IF m \in DOMAIN a
                   THEN [fresh.members[m] EXCEPT !.assignment = a[m]]
                   ELSE fresh.members[m]]
           new == SyncedGroup(group, id, a)
<1>1. GroupInv(fresh) /\ DOMAIN fresh.members = DOMAIN group.members
  BY RefreshOK
<1>2. \A m \in DOMAIN group.members :
        fresh.members[m].subscription = group.members[m].subscription
  BY DEF GroupInv, IsGroup, IsMapOf, Member
<1>3. new = [fresh EXCEPT !.state = "Stable", !.members = f] \/ new = fresh
  BY DEF SyncedGroup
<1> HIDE DEF fresh
<1>4. new.members = f \/ new.members = fresh.members
  BY <1>1, <1>3 DEF GroupInv, IsGroup
<1>5. \A m \in DOMAIN group.members : f[m].subscription = fresh.members[m].subscription
  BY <1>1 DEF GroupInv, IsGroup, IsMapOf, Member
<1> HIDE DEF f, new
<1> QED
  BY <1>2, <1>4, <1>5 DEF new

\* What the leader's sync leaves: a stable group of the same members, each with
\* what the leader assigned to it.
LEMMA LeaderSync ==
    ASSUME NEW group, GroupInv(group), group.state = "CompletingRebalance", NEW a,
           DOMAIN a = DOMAIN group.members
    PROVE  /\ SyncedGroup(group, group.leaderId, a).state = "Stable"
           /\ SyncedGroup(group, group.leaderId, a).generation = group.generation
           /\ DOMAIN SyncedGroup(group, group.leaderId, a).members = DOMAIN group.members
           /\ \A m \in DOMAIN group.members :
                 /\ SyncedGroup(group, group.leaderId, a).members[m].assignment = a[m]
                 /\ SyncedGroup(group, group.leaderId, a).members[m].subscription =
                        group.members[m].subscription
<1> DEFINE id == group.leaderId
           fresh == [group EXCEPT !.members[id].age = 0]
           f == [m \in DOMAIN fresh.members |->
                   IF m \in DOMAIN a
                   THEN [fresh.members[m] EXCEPT !.assignment = a[m]]
                   ELSE fresh.members[m]]
           new == SyncedGroup(group, id, a)
<1>1. new = [fresh EXCEPT !.state = "Stable", !.members = f]
  BY DEF SyncedGroup
<1>2. id \in DOMAIN group.members
  BY DEF GroupInv, IsSettled
<1>3. GroupInv(fresh) /\ DOMAIN fresh.members = DOMAIN group.members
  BY <1>2, RefreshOK
<1>4. /\ fresh.generation = group.generation
      /\ \A m \in DOMAIN group.members :
            fresh.members[m].subscription = group.members[m].subscription
  BY <1>2 DEF GroupInv, IsGroup, IsMapOf, Member
<1> HIDE DEF fresh, id
<1>5. new.state = "Stable" /\ new.generation = fresh.generation /\ new.members = f
  BY <1>1, <1>3 DEF GroupInv, IsGroup
<1>6. \A m \in DOMAIN f : /\ f[m].assignment = a[m]
                          /\ f[m].subscription = fresh.members[m].subscription
  BY <1>3 DEF GroupInv, IsGroup, IsMapOf, Member
<1> HIDE DEF f, new
<1>7. DOMAIN f = DOMAIN group.members
  BY <1>3 DEF f
<1> QED
  BY <1>3, <1>4, <1>5, <1>6, <1>7 DEF new, id

-----------------------------------------------------------------------------
(* What a step of the group means for the consumers *)

\* An assignment that did not change stays disjoint.
LEMMA QuietDisjoint ==
    ASSUME NEW old, NEW new, Quiet(old, new), Disjoint(old)
    PROVE  Disjoint(new)
BY ConsumerGroupAssumption DEF Quiet, Disjoint

\* A consumer that holds its assignment goes on holding it through what others
\* do, as long as it is a member.
LEMMA HoldsStays ==
    ASSUME NEW old, NEW new, NEW r, NEW id, Keeps(old, new, id),
           Holds(r, old), r.id # id, r.id \in DOMAIN new.members
    PROVE  Holds(r, new)
BY DEF Holds, InGeneration, Keeps

\* A consumer's knowledge of its generation stays true through what others do.
LEMMA Bystander ==
    ASSUME NEW old, GroupInv(old), NEW new, GroupInv(new), NEW r, NEW id,
           ConsumerInv(r, old), r.id # id \/ r.id \notin DOMAIN new.members,
           Keeps(old, new, id),
           r.id \in DOMAIN new.members =>
                r.id \in DOMAIN old.members /\ GenerationStep(old, new)
    PROVE  ConsumerInv(r, new)
<1> USE DEF InGeneration
<1>1. CASE r.id \notin DOMAIN new.members
  BY <1>1 DEF ConsumerInv
<1>2. CASE r.id \in DOMAIN new.members
  <2>1. r.id \in DOMAIN old.members /\ GenerationStep(old, new) /\ r.id # id
    BY <1>2
  <2>2. old.generation \in Nat /\ new.generation \in Nat /\ new.generation >= old.generation
    BY <2>1 DEF GroupInv, IsGroup, GenerationStep
  <2>3. r.pc \in {"leading", "following", "consuming"} =>
            /\ r.generation \in Nat /\ r.generation <= old.generation
            /\ r.generation <= new.generation
            /\ InGeneration(r, new) => InGeneration(r, old) /\ new.generation = old.generation
    BY <2>1, <2>2 DEF ConsumerInv
  <2>4. IsSettled(new) /\ new.generation = old.generation =>
            /\ IsSettled(old)
            /\ DOMAIN new.members = DOMAIN old.members
            /\ new.leaderId = old.leaderId
            /\ \A m \in DOMAIN old.members :
                    new.members[m].subscription = old.members[m].subscription
    BY <2>1, <2>2 DEF GenerationStep
  <2>5. r.pc = "leading" /\ InGeneration(r, new) /\ IsSettled(new) =>
            /\ r.id = new.leaderId
            /\ DOMAIN r.view = DOMAIN new.members
            /\ \A m \in DOMAIN r.view : r.view[m] = new.members[m].subscription
    BY <2>3, <2>4 DEF ConsumerInv
  <2>6. r.pc = "following" /\ InGeneration(r, new) /\ IsSettled(new) => r.id # new.leaderId
    BY <2>3, <2>4 DEF ConsumerInv
  <2>7. r.pc = "consuming" /\ InGeneration(r, new) => Holds(r, new)
    BY <1>2, <2>1, <2>3, HoldsStays DEF ConsumerInv
  <2> QED
    BY <2>3, <2>5, <2>6, <2>7 DEF ConsumerInv
<1> QED
  BY <1>1, <1>2

\* ConsumerInv is about what a consumer knows, not about when it sleeps.
SameKnowledge(r, q) ==
    /\ r.pc = q.pc /\ r.id = q.id /\ r.generation = q.generation
    /\ r.owned = q.owned /\ r.view = q.view

\* A consumer that only slept or woke knows what it knew.
LEMMA KnowledgeOnly ==
    ASSUME NEW r, NEW q, SameKnowledge(r, q), NEW group, ConsumerInv(r, group)
    PROVE  ConsumerInv(q, group)
BY DEF SameKnowledge, ConsumerInv, InGeneration, Holds

\* A sound step of the coordinator, seen by the group of the consumers: nobody
\* but member id is asked for less than before.
Moves(id) ==
    /\ IndInv'
    /\ IsFiniteSet(issued') /\ issued \subseteq issued'
    /\ GroupInv(Ours) /\ GroupInv(Ours')
    /\ \A i \in issued : i \in DOMAIN Ours'.members =>
            i \in DOMAIN Ours.members /\ GenerationStep(Ours, Ours')
    /\ Keeps(Ours, Ours', id)

\* What a sound step of the coordinator contributes to Moves.
LEMMA EvolvesMoves ==
    ASSUME IndInv, IsFiniteSet(issued), IndInv', Evolves, NEW S, IsFiniteSet(S),
           issued' \subseteq issued \cup S, NEW id, Keeps(Ours, Ours', id)
    PROVE  Moves(id)
<1>1. IndInv' /\ Evolves
  OBVIOUS
<1>2. Ours' = IF TheGroup \in DOMAIN groups' THEN groups'[TheGroup] ELSE NewGroup
  BY DEF Ours, GroupFor
<1>3. Ours = IF TheGroup \in DOMAIN groups THEN groups[TheGroup] ELSE NewGroup
  BY DEF Ours, GroupFor
<1>4. GroupInv(Ours)
  BY <1>3, NewGroupOK DEF IndInv
<1>5. GroupInv(Ours')
  <2>1. \A g \in DOMAIN groups' : GroupInv(groups'[g])
    BY <1>1 DEF IndInv, GroupInv, IsGroup, IsMapOf, IsSettled
  <2> QED
    BY <1>2, <2>1, NewGroupOK
<1>6. \A i \in issued : i \in DOMAIN Ours'.members =>
            i \in DOMAIN Ours.members /\ GenerationStep(Ours, Ours')
  <2>1. DOMAIN NewGroup.members = {}
    BY NewGroupOK
  <2> QED
    BY <1>1, <1>2, <1>3, <2>1 DEF Evolves
<1>7. IsFiniteSet(issued') /\ issued \subseteq issued'
  BY <1>1, FS_Union, FS_Subset DEF Evolves
<1> QED
  BY <1>1, <1>4, <1>5, <1>6, <1>7 DEF Moves

\* A step that leaves the coordinator alone.
LEMMA StayMoves ==
    ASSUME IndInv, IsFiniteSet(issued), UNCHANGED <<groups, issued>>, NEW id
    PROVE  Moves(id) /\ Ours' = Ours
<1>1. Ours' = Ours
  BY DEF Ours, GroupFor
<1>2. IndInv'
  BY DEF IndInv, IdsAreIssuedOnce, GroupInv, IsGroup, IsMapOf, IsSettled
<1>3. GroupInv(Ours)
  BY NewGroupOK DEF Ours, GroupFor, IndInv
<1> QED
  BY <1>1, <1>2, <1>3, SameQuiet, SameGroupOK DEF Moves

\* The consumers that do not act.
LEMMA OthersKeep ==
    ASSUME CInv, NEW id, Moves(id), NEW d \in Consumers,
           consumer[d].id # id \/ id = NoMember,
           SameKnowledge(consumer[d], consumer'[d])
    PROVE  ConsumerInv(consumer'[d], Ours')
<1>1. consumer[d].id \in issued \cup {NoMember} /\ ConsumerInv(consumer[d], Ours)
  BY DEF CInv, OwnIds
<1>2. NoMember \notin DOMAIN Ours'.members
  BY GroupCoordinatorAssumption DEF Moves, GroupInv, IsGroup, IsMapOf
<1>3. ConsumerInv(consumer[d], Ours')
  BY <1>1, <1>2, Bystander DEF Moves
<1> QED
  BY <1>3, KnowledgeOnly

\* One consumer acts, and the others keep what they know.
LEMMA ActorStep ==
    ASSUME CInv, NEW id, Moves(id), NEW c \in Consumers, NEW r \in ConsumerRecord,
           Set(c, r),
           id = NoMember \/ id \notin issued \/ id = consumer[c].id,
           \/ r.id = NoMember
           \/ r.id = consumer[c].id
           \/ r.id \in issued' /\ r.id \notin issued,
           ConsumerInv(r, Ours'), Disjoint(Ours')
    PROVE  CInv'
<1>1. /\ consumer' = [consumer EXCEPT ![c] = r]
      /\ consumer'[c] = r
      /\ \A d \in Consumers : d # c => consumer'[d] = consumer[d]
  BY DEF Set, CInv
<1>2. consumer' \in [Consumers -> ConsumerRecord]
  BY <1>1 DEF CInv
<1>3. OwnIds'
  <2>1. \A d \in Consumers : consumer'[d].id \in issued' \cup {NoMember}
    BY <1>1 DEF CInv, OwnIds, Moves
  <2>2. \A d \in Consumers : d # c /\ consumer[d].id = r.id => r.id = NoMember
    BY DEF CInv, OwnIds
  <2>3. ASSUME NEW d \in Consumers, NEW e \in Consumers,
               d # e, consumer'[d].id = consumer'[e].id
        PROVE  consumer'[d].id = NoMember
    BY <1>1, <2>2, <2>3 DEF CInv, OwnIds
  <2> QED
    BY <2>1, <2>3 DEF OwnIds
<1>4. ASSUME NEW d \in Consumers
      PROVE  ConsumerInv(consumer'[d], Ours')
  <2>1. CASE d = c
    BY <1>1, <2>1
  <2>2. CASE d # c
    <3>1. consumer'[d] = consumer[d] /\ SameKnowledge(consumer[d], consumer'[d])
      BY <1>1, <2>2 DEF SameKnowledge
    <3>2. consumer[d].id # id \/ id = NoMember
      BY <2>2 DEF CInv, OwnIds
    <3> QED
      BY <3>1, <3>2, OthersKeep
  <2> QED
    BY <2>1, <2>2
<1>5. Disjoint(Ours)' /\ \A d \in Consumers : ConsumerInv(consumer[d], Ours)'
  BY <1>4 DEF Disjoint, ConsumerInv, InGeneration, Holds, Waits, IsSettled
<1> QED
  BY <1>2, <1>3, <1>5 DEF CInv, Moves

-----------------------------------------------------------------------------
(* The operations of the coordinator, as a consumer's group sees them *)

\* The parameters of a consumer's JoinGroup are ones the coordinator takes.
LEMMA Parameters ==
    ASSUME NEW c \in Consumers
    PROVE  /\ TheGroup \in GroupIds
           /\ TopicsOf[c] \in Subscriptions
           /\ <<StrategyOf[c]>> \in ProtocolLists
           /\ DefaultSessionTimeout \in SessionTimeouts
BY ConsumerGroupAssumption

\* groups[TheGroup], when it is there, is Ours; and the group is sound.
LEMMA OursOK ==
    ASSUME IndInv
    PROVE  /\ GroupInv(Ours)
           /\ TheGroup \in DOMAIN groups => Ours = groups[TheGroup]
           /\ TheGroup \notin DOMAIN groups => Ours = NewGroup /\ DOMAIN Ours.members = {}
BY NewGroupOK DEF Ours, GroupFor, IndInv

\* join() with or without an id.
LEMMA JoinMoves ==
    ASSUME IndInv, IsFiniteSet(issued), NEW c \in Consumers, NEW id \in MemberIds,
           \/ JoinNew(TheGroup, id, TopicsOf[c], <<StrategyOf[c]>>, DefaultSessionTimeout)
           \/ JoinAgain(TheGroup, id, TopicsOf[c], <<StrategyOf[c]>>, DefaultSessionTimeout)
    PROVE  /\ Moves(id)
           /\ Quiet(Ours, Ours')
           /\ groups'[TheGroup] = Ours'
           /\ DOMAIN Ours'.members = DOMAIN Ours.members \cup {id}
           /\ \A m \in DOMAIN Ours'.members :
                 Ours'.members[m].subscription =
                    IF m = id THEN TopicsOf[c] ELSE Ours.members[m].subscription
<1> DEFINE s == TopicsOf[c]
           p == <<StrategyOf[c]>>
           t == DefaultSessionTimeout
<1>0. TheGroup \in GroupIds /\ s \in Subscriptions /\ p \in ProtocolLists /\ t \in SessionTimeouts
  BY Parameters
<1> HIDE DEF s, p, t
<1>1. /\ Ours' = JoinedGroup(Ours, id, s, p, t)
      /\ groups'[TheGroup] = Ours'
      /\ issued' \subseteq issued \cup {id}
  <2>1. CASE JoinNew(TheGroup, id, s, p, t)
    BY <2>1 DEF JoinNew, Put, Ours, GroupFor
  <2>2. CASE JoinAgain(TheGroup, id, s, p, t)
    <3>1. TheGroup \in DOMAIN groups
      BY <2>2, NewGroupOK DEF JoinAgain, GroupFor
    <3> QED
      BY <2>2, <3>1 DEF JoinAgain, Ours, GroupFor
  <2> QED
    BY <2>1, <2>2 DEF s, p, t
<1>2. IndInv' /\ Evolves
  <2>1. Next
    BY <1>0 DEF Next, s, p, t
  <2> QED
    BY <2>1, NextOK
<1>3. /\ Quiet(Ours, Ours')
      /\ Keeps(Ours, Ours', id)
      /\ DOMAIN Ours'.members = DOMAIN Ours.members \cup {id}
      /\ \A m \in DOMAIN Ours'.members :
            Ours'.members[m].subscription = IF m = id THEN s ELSE Ours.members[m].subscription
  BY <1>0, <1>1, OursOK, JoinOK, JoinQuiet
<1>4. Moves(id)
  BY <1>1, <1>2, <1>3, EvolvesMoves, FS_Singleton
<1> QED
  BY <1>1, <1>3, <1>4 DEF s

\* join() with an id that is not known creates the group at most.
LEMMA UnknownMoves ==
    ASSUME IndInv, IsFiniteSet(issued), NEW id \in MemberIds, JoinUnknown(TheGroup, id)
    PROVE  Moves(NoMember) /\ Ours' = Ours
<1>1. Ours' = Ours /\ issued' = issued
  BY DEF JoinUnknown, Ours, GroupFor, Put
<1>2. IndInv' /\ Evolves
  <2>1. Next
    BY ConsumerGroupAssumption DEF Next
  <2> QED
    BY <2>1, NextOK
<1> QED
  BY <1>1, <1>2, SameQuiet, EvolvesMoves, FS_EmptySet

\* sync() of a member it did not refuse.
LEMMA SyncMoves ==
    ASSUME IndInv, IsFiniteSet(issued), NEW id \in MemberIds, NEW n,
           NEW a \in MapOf(MemberIds, Assignments), Sync(TheGroup, id, n, a)
    PROVE  /\ Moves(NoMember)
           /\ Ours' = SyncedGroup(Ours, id, a)
           /\ groups'[TheGroup] = Ours'
           /\ id \in DOMAIN Ours.members
           /\ n = Ours.generation
           /\ Ours.state \in {"CompletingRebalance", "Stable"}
           /\ ~(Ours.state = "CompletingRebalance" /\ id = Ours.leaderId) =>
                 Quiet(Ours, Ours')
           /\ DOMAIN Ours'.members = DOMAIN Ours.members
           /\ \A m \in DOMAIN Ours.members :
                 Ours'.members[m].subscription = Ours.members[m].subscription
<1>1. TheGroup \in DOMAIN groups /\ Ours = groups[TheGroup] /\ id \in DOMAIN Ours.members
         /\ n = Ours.generation /\ Ours.state # "PreparingRebalance"
  BY DEF Sync, HeartbeatError, IsMember, Ours, GroupFor
<1>2. Ours' = SyncedGroup(Ours, id, a) /\ groups'[TheGroup] = Ours' /\ issued' = issued
  BY <1>1 DEF Sync, Ours, GroupFor
<1>3. IndInv' /\ Evolves
  BY ConsumerGroupAssumption, SyncStep
<1>4. Ours.state \in {"CompletingRebalance", "Stable"}
  BY <1>1, OursOK DEF GroupInv, IsGroup, GroupStates
<1>5. /\ Keeps(Ours, Ours', NoMember)
      /\ ~(Ours.state = "CompletingRebalance" /\ id = Ours.leaderId) => Quiet(Ours, Ours')
  BY <1>1, <1>2, <1>4, OursOK, SyncQuiet
<1>6. Moves(NoMember)
  BY <1>2, <1>3, <1>5, EvolvesMoves, FS_EmptySet
<1>7. \A m \in DOMAIN a : a[m] \in Assignments
  BY DEF MapOf
<1>8. /\ DOMAIN Ours'.members = DOMAIN Ours.members
      /\ \A m \in DOMAIN Ours.members :
            Ours'.members[m].subscription = Ours.members[m].subscription
  BY <1>1, <1>2, <1>7, OursOK, SyncOK, SyncSubscriptions
<1> QED
  BY <1>1, <1>2, <1>4, <1>5, <1>6, <1>8

\* heartbeat() of a member it did not refuse.
LEMMA HeartbeatMoves ==
    ASSUME IndInv, IsFiniteSet(issued), NEW id \in MemberIds, NEW n,
           Heartbeat(TheGroup, id, n)
    PROVE  /\ Moves(NoMember)
           /\ Quiet(Ours, Ours')
           /\ id \in DOMAIN Ours.members
           /\ n = Ours.generation
           /\ IsSettled(Ours)
           /\ DOMAIN Ours'.members = DOMAIN Ours.members
           /\ \A m \in DOMAIN Ours.members :
                 Ours'.members[m].subscription = Ours.members[m].subscription
<1>1. TheGroup \in DOMAIN groups /\ Ours = groups[TheGroup] /\ id \in DOMAIN Ours.members
         /\ n = Ours.generation /\ Ours.state # "PreparingRebalance"
  BY DEF Heartbeat, HeartbeatError, IsMember, Ours, GroupFor
<1>2. Ours' = [Ours EXCEPT !.members[id].age = 0] /\ issued' = issued
  BY <1>1 DEF Heartbeat, Ours, GroupFor
<1>3. IndInv' /\ Evolves
  BY ConsumerGroupAssumption, HeartbeatStep
<1>4. Keeps(Ours, Ours', NoMember) /\ Quiet(Ours, Ours')
  BY <1>1, <1>2, OursOK, RefreshQuiet DEF GroupInv
<1>5. Moves(NoMember)
  BY <1>2, <1>3, <1>4, EvolvesMoves, FS_EmptySet
<1>6. IsSettled(Ours)
  BY <1>1, OursOK DEF GroupInv, IsGroup, GroupStates, IsSettled
<1>7. /\ DOMAIN Ours'.members = DOMAIN Ours.members
      /\ \A m \in DOMAIN Ours.members :
            Ours'.members[m].subscription = Ours.members[m].subscription
  BY <1>1, <1>2, OursOK DEF GroupInv, IsGroup, IsMapOf, Member
<1> QED
  BY <1>1, <1>4, <1>5, <1>6, <1>7

\* leave().
LEMMA LeaveMoves ==
    ASSUME IndInv, IsFiniteSet(issued), NEW id \in MemberIds, Leave(TheGroup, id)
    PROVE  /\ Moves(NoMember)
           /\ Quiet(Ours, Ours')
           /\ \A m \in DOMAIN Ours'.members :
                 /\ m \in DOMAIN Ours.members
                 /\ Ours'.members[m].subscription = Ours.members[m].subscription
           /\ \A m \in DOMAIN Ours.members : m # id => m \in DOMAIN Ours'.members
<1> DEFINE left == WithoutMembers(Ours, {id})
<1>1. TheGroup \in DOMAIN groups /\ Ours = groups[TheGroup] /\ issued' = issued
  BY DEF Leave, IsMember, Ours, GroupFor
<1>2. Ours' = IF DOMAIN left.members = {} THEN NewGroup ELSE left
  BY <1>1 DEF Leave, Ours, GroupFor, Erase
<1>3. IndInv' /\ Evolves
  <2>1. Next
    BY ConsumerGroupAssumption DEF Next
  <2> QED
    BY <2>1, NextOK
<1>4. /\ Quiet(Ours, left) /\ Keeps(Ours, left, NoMember)
      /\ DOMAIN left.members = DOMAIN Ours.members \ {id}
      /\ \A m \in DOMAIN left.members : left.members[m].subscription = Ours.members[m].subscription
  BY OursOK, WithoutMembersOK, LeaveQuiet
<1> HIDE DEF left
<1>5. DOMAIN NewGroup.members = {} /\ NewGroup.state = "Empty"
  BY NewGroupOK DEF NewGroup
<1>6. Quiet(Ours, Ours') /\ Keeps(Ours, Ours', NoMember)
  BY <1>2, <1>4, <1>5 DEF Quiet, Keeps
<1>7. Moves(NoMember)
  BY <1>1, <1>3, <1>6, EvolvesMoves, FS_EmptySet
<1> QED
  BY <1>2, <1>4, <1>5, <1>6, <1>7

\* expire(): only the expired members of the group go.
LEMMA ExpireMoves ==
    ASSUME IndInv, IsFiniteSet(issued), Expire
    PROVE  /\ Moves(NoMember)
           /\ Quiet(Ours, Ours')
           /\ \A m \in DOMAIN Ours'.members :
                 /\ m \in DOMAIN Ours.members
                 /\ Ours'.members[m].subscription = Ours.members[m].subscription
           /\ \A m \in DOMAIN Ours.members :
                 m \notin Expired(Ours) => m \in DOMAIN Ours'.members
<1> DEFINE swept(g) == IF Expired(groups[g]) = {} THEN groups[g]
                       ELSE WithoutMembers(groups[g], Expired(groups[g]))
           all == [g \in DOMAIN groups |-> swept(g)]
<1>1. issued' = issued /\ groups' = DropEmpty(all)
  BY DEF Expire
<1>2. IndInv' /\ Evolves
  BY NextOK DEF Next
<1>3. /\ DOMAIN groups' = {g \in DOMAIN groups : DOMAIN all[g].members # {}}
      /\ \A g \in DOMAIN groups' : groups'[g] = all[g]
  BY <1>1 DEF DropEmpty, Erase
<1>4. DOMAIN NewGroup.members = {} /\ NewGroup.state = "Empty"
  BY NewGroupOK DEF NewGroup
<1>5. CASE TheGroup \notin DOMAIN groups
  <2>1. Ours' = Ours
    BY <1>3, <1>5 DEF Ours, GroupFor
  <2> QED
    BY <1>1, <1>2, <2>1, SameQuiet, EvolvesMoves, FS_EmptySet
<1>6. CASE TheGroup \in DOMAIN groups
  <2> DEFINE left == IF Expired(Ours) = {} THEN Ours
                     ELSE WithoutMembers(Ours, Expired(Ours))
  <2>1. Ours = groups[TheGroup] /\ all[TheGroup] = left
    BY <1>6 DEF Ours, GroupFor
  <2>2. Ours' = IF DOMAIN left.members = {} THEN NewGroup ELSE left
    BY <1>3, <1>6, <2>1 DEF Ours, GroupFor
  <2>3. /\ Quiet(Ours, left) /\ Keeps(Ours, left, NoMember)
        /\ DOMAIN left.members = DOMAIN Ours.members \ Expired(Ours)
        /\ \A m \in DOMAIN left.members :
                left.members[m].subscription = Ours.members[m].subscription
    <3>1. CASE Expired(Ours) = {}
      <4>1. left = Ours
        BY <3>1
      <4> HIDE DEF left
      <4>2. Quiet(Ours, Ours) /\ Keeps(Ours, Ours, NoMember)
        BY SameQuiet
      <4> QED
        BY <3>1, <4>1, <4>2
    <3>2. CASE Expired(Ours) # {}
      <4>1. left = WithoutMembers(Ours, Expired(Ours))
        BY <3>2
      <4>2. GroupInv(Ours)
        BY OursOK
      <4> HIDE DEF left
      <4> QED
        BY <4>1, <4>2, WithoutMembersOK, LeaveQuiet
    <3> QED
      BY <3>1, <3>2
  <2> HIDE DEF left
  <2>4. Quiet(Ours, Ours') /\ Keeps(Ours, Ours', NoMember)
    BY <1>4, <2>2, <2>3 DEF Quiet, Keeps
  <2>5. Moves(NoMember)
    BY <1>1, <1>2, <2>4, EvolvesMoves, FS_EmptySet
  <2> QED
    BY <1>4, <2>2, <2>3, <2>4, <2>5
<1> QED
  BY <1>5, <1>6

\* A tick.
LEMMA TickMoves ==
    ASSUME IndInv, IsFiniteSet(issued), Tick
    PROVE  /\ Moves(NoMember)
           /\ Quiet(Ours, Ours')
           /\ DOMAIN Ours'.members = DOMAIN Ours.members
           /\ \A m \in DOMAIN Ours'.members :
                 Ours'.members[m].subscription = Ours.members[m].subscription
<1>1. issued' = issued /\ Ours' = IF TheGroup \in DOMAIN groups THEN Aged(Ours) ELSE Ours
  BY DEF Tick, Ours, GroupFor
<1>2. IndInv' /\ Evolves
  BY NextOK DEF Next
<1>3. /\ Quiet(Ours, Ours') /\ Keeps(Ours, Ours', NoMember)
      /\ DOMAIN Ours'.members = DOMAIN Ours.members
  BY <1>1, OursOK, AgedOK, AgedQuiet, SameQuiet DEF GroupInv
<1>4. \A m \in DOMAIN Ours.members : Ours'.members[m].subscription = Ours.members[m].subscription
  <2>1. \A m \in DOMAIN Ours.members :
            Aged(Ours).members[m].subscription = Ours.members[m].subscription
    BY OursOK DEF Aged, Older, GroupInv, IsGroup, IsMapOf, Member
  <2> QED
    BY <1>1, <2>1
<1>5. Moves(NoMember)
  BY <1>1, <1>2, <1>3, EvolvesMoves, FS_EmptySet
<1> QED
  BY <1>3, <1>4, <1>5

-----------------------------------------------------------------------------
(* The steps of a consumer *)

\* What a step does to the invariant: CoverInv needs that all want the same.
Preserved == CInv' /\ (SameTopics /\ CoverInv => CoverInv')

\* A quiet step of the group after which every subscription is a consumer's.
LEMMA CoverStep ==
    ASSUME CoverInv, Quiet(Ours, Ours'), FromConsumers(Ours')
    PROVE  CoverInv'
<1>1. AllOwned(Ours')
  BY DEF CoverInv, AllOwned, Quiet
<1> QED
  BY <1>1 DEF CoverInv, AllOwned, FromConsumers

\* Subscriptions that did not change are still some consumer's.
LEMMA StillFromConsumers ==
    ASSUME CoverInv,
           \A m \in DOMAIN Ours'.members :
                /\ m \in DOMAIN Ours.members
                /\ Ours'.members[m].subscription = Ours.members[m].subscription
    PROVE  FromConsumers(Ours')
BY DEF CoverInv, FromConsumers

\* One consumer acts without joining: it learns nothing of a generation, or
\* is out of one.
LEMMA QuietActor ==
    ASSUME CInv, Moves(NoMember), Quiet(Ours, Ours'),
           \A m \in DOMAIN Ours'.members :
                /\ m \in DOMAIN Ours.members
                /\ Ours'.members[m].subscription = Ours.members[m].subscription,
           NEW c \in Consumers, NEW r \in ConsumerRecord, Set(c, r),
           r.id = NoMember \/ r.id = consumer[c].id,
           \/ SameKnowledge(consumer[c], r)
           \/ r.pc \notin {"leading", "following", "consuming"}
    PROVE  Preserved
<1>1. Disjoint(Ours')
  BY QuietDisjoint DEF CInv
<1>2. ConsumerInv(r, Ours')
  <2>1. CASE r.pc \notin {"leading", "following", "consuming"}
    BY <2>1 DEF ConsumerInv
  <2>2. CASE SameKnowledge(consumer[c], r)
    <3>1. SameKnowledge(consumer[c], consumer'[c])
      BY <2>2 DEF Set, CInv
    <3>2. ConsumerInv(consumer'[c], Ours')
      BY <3>1, OthersKeep
    <3> QED
      BY <3>2 DEF Set, CInv
  <2> QED
    BY <2>1, <2>2
<1>3. CInv'
  BY <1>1, <1>2, ActorStep
<1>4. CoverInv => CoverInv'
  BY CoverStep, StillFromConsumers
<1> QED
  BY <1>3, <1>4 DEF Preserved

\* ... and without calling the coordinator, or without any effect there.
LEMMA AloneActor ==
    ASSUME CInv, UNCHANGED <<groups, issued>>,
           NEW c \in Consumers, NEW r \in ConsumerRecord, Set(c, r),
           r.id = NoMember \/ r.id = consumer[c].id,
           \/ SameKnowledge(consumer[c], r)
           \/ r.pc \notin {"leading", "following", "consuming"}
    PROVE  Preserved
<1>1. Moves(NoMember) /\ Ours' = Ours
  BY StayMoves DEF CInv
<1>2. Quiet(Ours, Ours')
  BY <1>1, SameQuiet
<1> QED
  BY <1>1, <1>2, QuietActor

\* Values for the fields a step does not set.
LEMMA AnyValues ==
    /\ NoMember \in MemberIds \cup {NoMember} /\ 0 \in Int /\ {} \in Assignments
    /\ [m \in {} |-> {}] \in Views /\ \E view : view \in Views
    /\ "joining" \in Pcs /\ TRUE \in BOOLEAN
<1>1. [m \in {} |-> {}] \in Views
  BY DEF Views, MapOf
<1> QED
  BY <1>1, GroupCoordinatorAssumption, ConsumerGroupAssumption DEF Pcs

\* The records that the steps of a consumer leave it with, whatever a flag is.
LEMMA RecordsOver ==
    ASSUME NEW Flags, NEW r \in RecordOver(Flags), NEW flag \in Flags, NEW pc \in Pcs,
           NEW id \in MemberIds \cup {NoMember}, NEW generation \in Int,
           NEW view \in Views, NEW owned \in Assignments
    PROVE  /\ [r EXCEPT !.pc = pc] \in RecordOver(Flags)
           /\ [r EXCEPT !.id = id] \in RecordOver(Flags)
           /\ [r EXCEPT !.view = view] \in RecordOver(Flags)
           /\ [r EXCEPT !.asleep = flag] \in RecordOver(Flags)
           /\ [r EXCEPT !.wait = @ + 1, !.asleep = flag] \in RecordOver(Flags)
           /\ NextRound(r, flag) \in RecordOver(Flags)
           /\ [r EXCEPT !.id = id, !.generation = generation, !.pc = pc,
                        !.view = view, !.wait = 0] \in RecordOver(Flags)
           /\ [r EXCEPT !.pc = pc, !.asleep = flag, !.round = 0, !.wait = 0,
                        !.view = view, !.owned = owned] \in RecordOver(Flags)
           /\ [r EXCEPT !.pc = pc, !.id = id, !.generation = generation,
                        !.owned = owned] \in RecordOver(Flags)
<1>1. "joining" \in Pcs
  BY DEF Pcs
<1>2. r.round + 1 \in Nat /\ r.wait + 1 \in Nat
  BY DEF RecordOver
<1> QED
  BY <1>1, <1>2 DEF RecordOver, NextRound

\* A next round, and an id that may be forgotten.
LEMMA RoundRecord ==
    ASSUME NEW r \in ConsumerRecord, NEW asleep \in BOOLEAN, NEW error
    PROVE  /\ NextRound(r, asleep) \in ConsumerRecord
           /\ NextRound(r, asleep).pc = "joining"
           /\ NextRound(r, asleep).id = r.id
           /\ Forget(r, error) \in ConsumerRecord
           /\ Forget(r, error).id \in {r.id, NoMember}
           /\ [r EXCEPT !.view = [m \in {} |-> {}]] \in ConsumerRecord
           /\ [r EXCEPT !.view = [m \in {} |-> {}]].id = r.id
<1> DEFINE none == [m \in {} |-> {}]
<1>1. none \in Views
  BY AnyValues
<1> HIDE DEF none
<1>3. /\ NextRound(r, asleep) \in ConsumerRecord
      /\ [r EXCEPT !.id = NoMember] \in ConsumerRecord
      /\ [r EXCEPT !.view = none] \in ConsumerRecord
  BY <1>1, AnyValues, RecordsOver DEF ConsumerRecord
<1>4. /\ NextRound(r, asleep).pc = "joining"
      /\ NextRound(r, asleep).id = r.id
      /\ [r EXCEPT !.view = none].id = r.id
      /\ [r EXCEPT !.id = NoMember].id = NoMember
  BY DEF NextRound, ConsumerRecord, RecordOver
<1>5. Forget(r, error) \in ConsumerRecord /\ Forget(r, error).id \in {r.id, NoMember}
  <2>1. Forget(r, error) = r \/ Forget(r, error) = [r EXCEPT !.id = NoMember]
    BY DEF Forget
  <2> QED
    BY <1>3, <1>4, <2>1
<1> QED
  BY <1>3, <1>4, <1>5 DEF none

\* The round after an error.
LEMMA ForgottenRecord ==
    ASSUME NEW r \in ConsumerRecord, NEW asleep \in BOOLEAN, NEW error
    PROVE  /\ NextRound(Forget(r, error), asleep) \in ConsumerRecord
           /\ NextRound(Forget(r, error), asleep).pc = "joining"
           /\ NextRound(Forget(r, error), asleep).id \in {r.id, NoMember}
<1> DEFINE after == Forget(r, error)
<1>1. after \in ConsumerRecord /\ after.id \in {r.id, NoMember}
  BY RoundRecord
<1> HIDE DEF after
<1>2. /\ NextRound(after, asleep) \in ConsumerRecord
      /\ NextRound(after, asleep).pc = "joining"
      /\ NextRound(after, asleep).id = after.id
  BY <1>1, RoundRecord
<1> QED
  BY <1>1, <1>2 DEF after

\* The other outcomes of a step.
LEMMA StepRecord ==
    ASSUME NEW r \in ConsumerRecord, NEW pc \in Pcs, NEW flag \in BOOLEAN
    PROVE  /\ [r EXCEPT !.pc = pc] \in ConsumerRecord
           /\ [r EXCEPT !.pc = pc].pc = pc
           /\ [r EXCEPT !.pc = pc].id = r.id
           /\ [r EXCEPT !.asleep = flag] \in ConsumerRecord
           /\ SameKnowledge(r, [r EXCEPT !.asleep = flag])
           /\ [r EXCEPT !.wait = @ + 1, !.asleep = flag] \in ConsumerRecord
           /\ SameKnowledge(r, [r EXCEPT !.wait = @ + 1, !.asleep = flag])
<1>2. /\ [r EXCEPT !.pc = pc] \in ConsumerRecord
      /\ [r EXCEPT !.asleep = flag] \in ConsumerRecord
      /\ [r EXCEPT !.wait = @ + 1, !.asleep = flag] \in ConsumerRecord
  BY AnyValues, RecordsOver DEF ConsumerRecord
<1>3. /\ [r EXCEPT !.pc = pc].pc = pc
      /\ [r EXCEPT !.pc = pc].id = r.id
      /\ SameKnowledge(r, [r EXCEPT !.asleep = flag])
      /\ SameKnowledge(r, [r EXCEPT !.wait = @ + 1, !.asleep = flag])
  BY DEF SameKnowledge, ConsumerRecord, RecordOver
<1> QED
  BY <1>2, <1>3

\* What the answer to JoinGroup tells a consumer is true of the group.
LEMMA AfterJoinOK ==
    ASSUME NEW r \in ConsumerRecord, NEW group, GroupInv(group),
           NEW id \in DOMAIN group.members
    PROVE  /\ AfterJoin(r, JoinReply(group, id)) \in ConsumerRecord
           /\ AfterJoin(r, JoinReply(group, id)).id = id
           /\ AfterJoin(r, JoinReply(group, id)).pc \in {"joining", "leading", "following"}
           /\ ConsumerInv(AfterJoin(r, JoinReply(group, id)), group)
<1> DEFINE reply == JoinReply(group, id)
           new == AfterJoin(r, reply)
<1>1. id \in MemberIds /\ group.generation \in Nat
         /\ \A m \in DOMAIN group.members : group.members[m].subscription \in Subscriptions
  BY DEF GroupInv, IsGroup, IsMapOf, Member
<1>2. CASE group.state = "PreparingRebalance"
  <2>1. reply.error = "RebalanceInProgress" /\ reply.memberId = id
    BY <1>2 DEF JoinReply
  <2>2. new = NextRound([r EXCEPT !.id = id], TRUE)
    BY <2>1 DEF AfterJoin
  <2>3. [r EXCEPT !.id = id] \in ConsumerRecord /\ [r EXCEPT !.id = id].id = id
    BY <1>1, AnyValues, RecordsOver DEF ConsumerRecord, RecordOver
  <2>4. new \in ConsumerRecord /\ new.pc = "joining" /\ new.id = id
    BY <2>2, <2>3, RoundRecord
  <2> HIDE DEF new
  <2>5. ConsumerInv(new, group)
    BY <2>4 DEF ConsumerInv
  <2> QED
    BY <2>4, <2>5 DEF new
<1>3. CASE group.state # "PreparingRebalance"
  <2> DEFINE told == IF id = group.leaderId THEN group.members ELSE [m \in {} |-> {}]
             view == [m \in DOMAIN told |-> told[m].subscription]
             pc == IF id = group.leaderId THEN "leading" ELSE "following"
  <2>1. reply = [error |-> "None", memberId |-> id, generation |-> group.generation,
                 leaderId |-> group.leaderId, protocolName |-> group.protocolName,
                 members |-> told]
    BY <1>3 DEF JoinReply, ResultFor
  <2> HIDE DEF told, reply
  <2>2. new = [r EXCEPT !.id = id, !.generation = group.generation, !.pc = pc,
                        !.view = view, !.wait = 0]
    BY <2>1 DEF AfterJoin
  <2>3. view \in Views
    <3>1. CASE id = group.leaderId
      <4>1. told = group.members
        BY <3>1 DEF told
      <4>2. DOMAIN told \in SUBSET MemberIds /\ view \in [DOMAIN told -> Subscriptions]
        BY <1>1, <4>1 DEF GroupInv, IsGroup, IsMapOf
      <4> HIDE DEF view
      <4> QED
        BY <4>2 DEF Views, MapOf
    <3>2. CASE id # group.leaderId
      <4>1. DOMAIN told = {}
        BY <3>2 DEF told
      <4>2. view \in [{} -> Subscriptions]
        BY <4>1
      <4> HIDE DEF view
      <4> QED
        BY <4>2 DEF Views, MapOf
    <3> QED
      BY <3>1, <3>2
  <2>4. id = group.leaderId => /\ DOMAIN view = DOMAIN group.members
                               /\ \A m \in DOMAIN view : view[m] = group.members[m].subscription
    BY DEF told
  <2> HIDE DEF view, new
  <2>5. /\ new \in ConsumerRecord
        /\ new.id = id /\ new.pc = pc /\ new.generation = group.generation
        /\ new.view = view
    <3>1. pc \in Pcs /\ id \in MemberIds \cup {NoMember} /\ group.generation \in Int
      BY <1>1 DEF Pcs
    <3> HIDE DEF pc
    <3>2. new \in ConsumerRecord
      BY <2>2, <2>3, <3>1, AnyValues, RecordsOver DEF ConsumerRecord
    <3> QED
      BY <2>2, <3>2 DEF ConsumerRecord, RecordOver
  <2>6. ConsumerInv(new, group)
    BY <1>1, <2>4, <2>5 DEF ConsumerInv
  <2> QED
    BY <2>5, <2>6 DEF new, reply
<1> QED
  BY <1>2, <1>3

\* One JoinGroup call the coordinator serves: for a new id, or again for an old.
Joins(c, id) ==
    /\ \/ JoinNew(TheGroup, id, TopicsOf[c], <<StrategyOf[c]>>, DefaultSessionTimeout)
       \/ JoinAgain(TheGroup, id, TopicsOf[c], <<StrategyOf[c]>>, DefaultSessionTimeout)
    /\ Set(c, AfterJoin(consumer[c], JoinReply(groups'[TheGroup], id)))
    /\ \/ id = consumer[c].id
       \/ id \in issued' /\ id \notin issued

\* Whoever joins or rejoins learns what is true.
LEMMA JoinsStep ==
    ASSUME CInv, NEW c \in Consumers, NEW id \in MemberIds, Joins(c, id)
    PROVE  Preserved
<1> DEFINE r == consumer[c]
           new == AfterJoin(r, JoinReply(Ours', id))
<1>1. r \in ConsumerRecord
  BY DEF CInv
<1>2. /\ Moves(id)
      /\ Quiet(Ours, Ours')
      /\ groups'[TheGroup] = Ours'
      /\ DOMAIN Ours'.members = DOMAIN Ours.members \cup {id}
      /\ \A m \in DOMAIN Ours'.members :
            Ours'.members[m].subscription =
               IF m = id THEN TopicsOf[c] ELSE Ours.members[m].subscription
  BY JoinMoves DEF CInv, Joins
<1>3. /\ new \in ConsumerRecord
      /\ new.id = id
      /\ ConsumerInv(new, Ours')
  BY <1>1, <1>2, AfterJoinOK DEF Moves
<1>4. Set(c, new)
  BY <1>2 DEF Joins
<1>5. Disjoint(Ours')
  BY <1>2, QuietDisjoint DEF CInv
<1>6. id = consumer[c].id \/ (id \in issued' /\ id \notin issued)
  BY DEF Joins
<1> HIDE DEF new
<1>7. CInv'
  BY <1>2, <1>3, <1>4, <1>5, <1>6, ActorStep
<1>8. CoverInv => CoverInv'
  <2> SUFFICES ASSUME CoverInv
               PROVE  CoverInv'
    OBVIOUS
  <2>1. FromConsumers(Ours')
    BY <1>2 DEF CoverInv, FromConsumers
  <2> QED
    BY <1>2, <2>1, CoverStep
<1> QED
  BY <1>7, <1>8 DEF Preserved

\* CallJoin(): a consumer joins, rejoins, or learns that it is forgotten.
LEMMA CallJoinStep ==
    ASSUME CInv, NEW c \in Consumers, CallJoin(c)
    PROVE  Preserved
<1> DEFINE r == consumer[c]
           protocols == <<StrategyOf[c]>>
<1>0. r \in ConsumerRecord /\ r.id \in issued \cup {NoMember} /\ issued \subseteq MemberIds
  BY DEF CInv, OwnIds, IndInv
<1>1. CASE \E id \in MemberIds \ issued :
              /\ JoinNew(TheGroup, id, TopicsOf[c], protocols, DefaultSessionTimeout)
              /\ Set(c, AfterJoin(r, JoinReply(groups'[TheGroup], id)))
  <2>1. PICK id \in MemberIds \ issued :
              /\ JoinNew(TheGroup, id, TopicsOf[c], protocols, DefaultSessionTimeout)
              /\ Set(c, AfterJoin(r, JoinReply(groups'[TheGroup], id)))
    BY <1>1
  <2>2. id \in issued'
    BY <2>1 DEF JoinNew
  <2>3. Joins(c, id)
    BY <2>1, <2>2 DEF Joins
  <2> QED
    BY <2>3, JoinsStep
<1>2. CASE /\ r.id # NoMember
           /\ JoinAgain(TheGroup, r.id, TopicsOf[c], protocols, DefaultSessionTimeout)
           /\ Set(c, AfterJoin(r, JoinReply(groups'[TheGroup], r.id)))
  <2>1. Joins(c, r.id)
    BY <1>2 DEF Joins
  <2>2. r.id \in MemberIds
    BY <1>0, <1>2
  <2> QED
    BY <2>1, <2>2, JoinsStep
<1>3. CASE /\ r.id # NoMember
           /\ JoinUnknown(TheGroup, r.id)
           /\ Set(c, NextRound(Forget(r, "UnknownMemberId"), FALSE))
  <2> DEFINE new == NextRound(Forget(r, "UnknownMemberId"), FALSE)
  <2>1. r.id \in MemberIds
    BY <1>0, <1>3
  <2>2. Moves(NoMember) /\ Ours' = Ours
    BY <1>3, <2>1, UnknownMoves DEF CInv
  <2>3. Quiet(Ours, Ours')
    BY <2>2, SameQuiet
  <2>4. /\ new \in ConsumerRecord /\ new.pc = "joining"
        /\ new.id \in {r.id, NoMember}
    BY <1>0, ForgottenRecord
  <2>5. Set(c, new)
    BY <1>3
  <2> HIDE DEF new
  <2> QED
    BY <2>2, <2>3, <2>4, <2>5, QuietActor
<1> QED
  BY <1>1, <1>2, <1>3 DEF CallJoin

\* The fields that Owning() assigns, each from its set, leave a consumer record.
LEMMA OwningIsARecord ==
    ASSUME NEW Flags, NEW r \in RecordOver(Flags), NEW flag \in Flags, NEW pc \in Pcs,
           NEW view \in Views, NEW owned \in Assignments
    PROVE  [r EXCEPT !.pc = pc, !.asleep = flag, !.round = 0, !.wait = 0,
                     !.view = view, !.owned = owned] \in RecordOver(Flags)
<1> DEFINE new == [r EXCEPT !.pc = pc, !.asleep = flag, !.round = 0, !.wait = 0,
                            !.view = view, !.owned = owned]
           called == [r EXCEPT !.pc = pc, !.asleep = flag]
           counted == [called EXCEPT !.round = 0, !.wait = 0]
<1>1. called \in RecordOver(Flags)
  BY DEF RecordOver
<1>2. counted \in RecordOver(Flags)
  <2> HIDE DEF called
  <2> QED
    BY <1>1 DEF RecordOver
<1>3. [counted EXCEPT !.view = view, !.owned = owned] \in RecordOver(Flags)
  <2> HIDE DEF counted
  <2> QED
    BY <1>2 DEF RecordOver
<1>4. new = [counted EXCEPT !.view = view, !.owned = owned]
  OBVIOUS
<1> QED
  BY <1>3, <1>4, Zenon

\* What a sync() that succeeded leaves a consumer with is true of the group.
LEMMA OwningOK ==
    ASSUME NEW r \in ConsumerRecord, GroupInv(Ours'), groups'[TheGroup] = Ours',
           r.id \in DOMAIN Ours'.members, r.generation = Ours'.generation,
           Ours'.state = "Stable"
    PROVE  /\ Owning(r) \in ConsumerRecord
           /\ Owning(r).id = r.id
           /\ ConsumerInv(Owning(r), Ours')
<1> DEFINE owned == groups'[TheGroup].members[r.id].assignment
           none == [m \in {} |-> {}]
           new == Owning(r)
<1>1. /\ owned = Ours'.members[r.id].assignment
      /\ owned \in Assignments
      /\ Ours'.generation \in Nat
  BY DEF GroupInv, IsGroup, IsMapOf, Member
<1>2. none \in Views /\ "consuming" \in Pcs
  BY AnyValues DEF Pcs
<1>3. new = [r EXCEPT !.pc = "consuming", !.asleep = FALSE, !.round = 0, !.wait = 0,
                      !.view = none, !.owned = owned]
  BY DEF Owning
<1> HIDE DEF owned, none, new
<1>4. new \in ConsumerRecord
  <2>1. r \in RecordOver(BOOLEAN) /\ FALSE \in BOOLEAN
    BY DEF ConsumerRecord
  <2>2. [r EXCEPT !.pc = "consuming", !.asleep = FALSE, !.round = 0, !.wait = 0,
                  !.view = none, !.owned = owned] \in RecordOver(BOOLEAN)
    BY <1>1, <1>2, <2>1, OwningIsARecord
  <2> QED
    BY <1>3, <2>2 DEF ConsumerRecord
<1>5. /\ new.pc = "consuming" /\ new.id = r.id
      /\ new.generation = r.generation /\ new.owned = owned
  BY <1>3 DEF ConsumerRecord, RecordOver
<1>6. ConsumerInv(new, Ours')
  BY <1>1, <1>5 DEF ConsumerInv, Holds, InGeneration, Waits
<1> QED
  BY <1>4, <1>5, <1>6 DEF new

\* sync() and heartbeat() answer without an error only a member of the
\* generation, and of a group that is not rebalancing.
LEMMA Unrefused ==
    ASSUME IndInv, NEW id, NEW n, HeartbeatError(TheGroup, id, n) = "None"
    PROVE  /\ TheGroup \in DOMAIN groups /\ Ours = groups[TheGroup]
           /\ id \in DOMAIN Ours.members /\ id \in MemberIds
           /\ n = Ours.generation
           /\ IsSettled(Ours)
<1>1. TheGroup \in DOMAIN groups /\ Ours = groups[TheGroup] /\ id \in DOMAIN Ours.members
         /\ n = Ours.generation /\ Ours.state # "PreparingRebalance"
  BY DEF HeartbeatError, IsMember, Ours, GroupFor
<1> QED
  BY <1>1, OursOK DEF GroupInv, IsGroup, IsMapOf, GroupStates, IsSettled

\* An assignment shares the partitions of the topics among the members without
\* an overlap, and leaves out none that a member asked for.
Splits(result, members, topics) ==
    /\ result \in [DOMAIN members -> SUBSET Partitions(topics)]
    /\ \A m, n \in DOMAIN members : m # n => result[m] \cap result[n] = {}
    /\ \A tp \in Partitions(topics) :
            (\E m \in DOMAIN members : tp[1] \in members[m]) =>
                \E m \in DOMAIN members : tp \in result[m]

\* What a leader computes splits its topics.
LEMMA LeaderSplits ==
    ASSUME NEW c \in Consumers, NEW view \in Views, IsFiniteSet(DOMAIN view)
    PROVE  Splits(Assign(StrategyOf[c], view, [t \in TopicsOf[c] |-> PartitionCount[t]]),
                  view, TopicsOf[c])
<1> DEFINE topics == TopicsOf[c]
           counts == [t \in topics |-> PartitionCount[t]]
           a      == Assign(StrategyOf[c], view, counts)
           S      == DOMAIN view
<1>1. S \subseteq Int
  BY GroupCoordinatorAssumption DEF Views, MapOf
<1>2. topics \in Subscriptions
  BY ConsumerGroupAssumption
<1>3. /\ IsFiniteSet(DOMAIN counts)
      /\ DOMAIN counts \subseteq Int
      /\ \A t \in DOMAIN counts : counts[t] \in Nat
  BY <1>2, ConsumerGroupAssumption
<1>4. Counted(counts) = Partitions(topics)
  <2>1. DOMAIN counts = topics /\ \A t \in topics : counts[t] = PartitionCount[t]
    OBVIOUS
  <2> HIDE DEF counts
  <2>2. ASSUME NEW tp PROVE tp \in Counted(counts) <=> tp \in Partitions(topics)
    BY <2>1 DEF Counted, Partitions
  <2> QED
    BY <2>2
<1> HIDE DEF counts
<1>5. a \in [S -> SUBSET Counted(counts)]
  BY <1>1, <1>3, AssignMapsMembers
<1>6. EveryPartitionOnce(a, view, counts)
  BY <1>1, <1>3, AssignHandsOutOnce
<1> HIDE DEF a
<1>7. \A t \in DOMAIN counts : \A p \in 0..(counts[t] - 1) :
            Wanting(view, t) # {} => \E m : Owners(a, <<t, p>>) = {m}
  <2> SUFFICES ASSUME NEW t \in DOMAIN counts, NEW p \in 0..(counts[t] - 1),
                      Wanting(view, t) # {}
               PROVE  \E m : Owners(a, <<t, p>>) = {m}
    OBVIOUS
  <2>1. Cardinality(Owners(a, <<t, p>>)) = 1
    BY <1>6 DEF EveryPartitionOnce
  <2>2. Owners(a, <<t, p>>) \subseteq S
    BY <1>5 DEF Owners
  <2>3. IsFiniteSet(Owners(a, <<t, p>>))
    BY <2>2, FS_Subset
  <2> QED
    BY <2>1, <2>3, FS_Singleton
<1>8. ASSUME NEW m \in S, NEW n \in S, m # n PROVE a[m] \cap a[n] = {}
  <2> SUFFICES ASSUME NEW tp \in a[m], tp \in a[n] PROVE FALSE
    OBVIOUS
  <2>1. PICK t \in DOMAIN counts \cap view[m] : \E p \in 0..(counts[t] - 1) : tp = <<t, p>>
    BY <1>6 DEF EveryPartitionOnce
  <2>2. PICK p \in 0..(counts[t] - 1) : tp = <<t, p>>
    BY <2>1
  <2>3. m \in Wanting(view, t)
    BY DEF Wanting
  <2>4. PICK o : Owners(a, <<t, p>>) = {o}
    BY <1>7, <2>3
  <2>5. m \in Owners(a, <<t, p>>) /\ n \in Owners(a, <<t, p>>)
    BY <1>5, <2>2 DEF Owners
  <2> QED
    BY <1>8, <2>4, <2>5
<1>9. ASSUME NEW tp \in Partitions(topics), NEW w \in S, tp[1] \in view[w]
      PROVE  \E m \in S : tp \in a[m]
  <2>1. PICK t \in DOMAIN counts : \E p \in 0..(counts[t] - 1) : tp = <<t, p>>
    BY <1>4 DEF Counted
  <2>2. PICK p \in 0..(counts[t] - 1) : tp = <<t, p>>
    BY <2>1
  <2>3. w \in Wanting(view, t)
    BY <1>9, <2>2 DEF Wanting
  <2>4. PICK o : Owners(a, <<t, p>>) = {o}
    BY <1>7, <2>3
  <2>5. o \in S /\ tp \in a[o]
    BY <1>5, <2>2, <2>4 DEF Owners
  <2> QED
    BY <2>5
<1>10. Splits(a, view, topics)
  BY <1>4, <1>5, <1>8, <1>9 DEF Splits
<1> QED
  BY <1>10 DEF a, counts

\* The leader's assignment is one the coordinator takes, and splits the
\* leader's topics among the members of its view.
LEMMA LeadersAssignment ==
    ASSUME NEW c \in Consumers, NEW view \in Views,
           DOMAIN view # {}, IsFiniteSet(DOMAIN view)
    PROVE  /\ Assign(StrategyOf[c], view, [t \in TopicsOf[c] |-> PartitionCount[t]])
                \in MapOf(MemberIds, Assignments)
           /\ Splits(Assign(StrategyOf[c], view, [t \in TopicsOf[c] |-> PartitionCount[t]]),
                     view, TopicsOf[c])
<1> DEFINE a == Assign(StrategyOf[c], view, [t \in TopicsOf[c] |-> PartitionCount[t]])
           S == DOMAIN view
<1>1. S \in SUBSET MemberIds /\ view \in [S -> Subscriptions]
  BY DEF Views, MapOf
<1>2. StrategyOf[c] \in Strategies /\ TopicsOf[c] \in Subscriptions
  BY ConsumerGroupAssumption
<1>3. Splits(a, view, TopicsOf[c])
  BY LeaderSplits
<1>4. SUBSET Partitions(TopicsOf[c]) \subseteq Assignments
  <2>1. Partitions(TopicsOf[c]) \subseteq Partitions(UNION Subscriptions)
    BY <1>2 DEF Partitions
  <2> QED
    BY <2>1, ConsumerGroupAssumption
<1> HIDE DEF a
<1>5. a \in [S -> Assignments]
  BY <1>3, <1>4 DEF Splits
<1>6. a \in MapOf(MemberIds, Assignments)
  BY <1>1, <1>5 DEF MapOf
<1> QED
  BY <1>3, <1>6 DEF a

\* A leader that is not refused assigns what the members it was told of
\* subscribed to.
LEMMA LeaderAssigns ==
    ASSUME CInv, NEW c \in Consumers, consumer[c].pc = "leading",
           HeartbeatError(TheGroup, consumer[c].id, consumer[c].generation) = "None"
    PROVE  /\ TheGroup \in DOMAIN groups /\ Ours = groups[TheGroup]
           /\ consumer[c].id \in DOMAIN Ours.members /\ consumer[c].id \in MemberIds
           /\ consumer[c].generation = Ours.generation
           /\ IsSettled(Ours)
           /\ consumer[c].id = Ours.leaderId
           /\ DOMAIN consumer[c].view = DOMAIN Ours.members
           /\ \A m \in DOMAIN consumer[c].view :
                 consumer[c].view[m] = Ours.members[m].subscription
           /\ Assign(StrategyOf[c], consumer[c].view, [t \in TopicsOf[c] |-> PartitionCount[t]])
                 \in MapOf(MemberIds, Assignments)
           /\ Splits(Assign(StrategyOf[c], consumer[c].view,
                            [t \in TopicsOf[c] |-> PartitionCount[t]]),
                     consumer[c].view, TopicsOf[c])
<1> DEFINE r == consumer[c]
<1>1. r \in ConsumerRecord /\ ConsumerInv(r, Ours) /\ IndInv /\ IsFiniteSet(issued)
  BY DEF CInv
<1>2. /\ TheGroup \in DOMAIN groups /\ Ours = groups[TheGroup]
      /\ r.id \in DOMAIN Ours.members /\ r.id \in MemberIds
      /\ r.generation = Ours.generation
      /\ IsSettled(Ours)
  BY <1>1, Unrefused
<1>3. /\ r.id = Ours.leaderId
      /\ DOMAIN r.view = DOMAIN Ours.members
      /\ \A m \in DOMAIN r.view : r.view[m] = Ours.members[m].subscription
  BY <1>1, <1>2 DEF ConsumerInv, InGeneration
<1>4. DOMAIN r.view # {} /\ IsFiniteSet(DOMAIN r.view) /\ r.view \in Views
  <2>1. DOMAIN Ours.members \subseteq issued
    BY <1>1, <1>2 DEF IndInv, IdsAreIssuedOnce
  <2> QED
    BY <1>1, <1>2, <1>3, <2>1, FS_Subset DEF ConsumerRecord, RecordOver
<1> QED
  BY <1>2, <1>3, <1>4, LeadersAssignment

\* A leader's assignment, stored, has no partition twice and, when all want the
\* same, every partition once.
LEMMA LeaderSyncs ==
    ASSUME CInv, NEW c \in Consumers,
           consumer[c].pc = "leading", SyncError(TheGroup, consumer[c].id, consumer[c].generation) = "None",
           Sync(TheGroup, consumer[c].id, consumer[c].generation,
                Assign(StrategyOf[c], consumer[c].view, [t \in TopicsOf[c] |-> PartitionCount[t]])),
           Set(c, Owning(consumer[c]))
    PROVE  Preserved
<1> DEFINE r == consumer[c]
           a == Assign(StrategyOf[c], r.view, [t \in TopicsOf[c] |-> PartitionCount[t]])
<1>1. r \in ConsumerRecord /\ ConsumerInv(r, Ours) /\ IndInv /\ IsFiniteSet(issued)
  BY DEF CInv
<1>2. HeartbeatError(TheGroup, r.id, r.generation) = "None"
  BY DEF SyncError
<1>3. /\ TheGroup \in DOMAIN groups /\ Ours = groups[TheGroup]
      /\ r.id \in DOMAIN Ours.members /\ r.id \in MemberIds
      /\ r.generation = Ours.generation
      /\ IsSettled(Ours)
  BY <1>2, LeaderAssigns
<1>4. /\ r.id = Ours.leaderId
      /\ DOMAIN r.view = DOMAIN Ours.members
      /\ \A m \in DOMAIN r.view : r.view[m] = Ours.members[m].subscription
  BY <1>2, LeaderAssigns
<1>5. a \in MapOf(MemberIds, Assignments) /\ Splits(a, r.view, TopicsOf[c])
  BY <1>2, LeaderAssigns
<1>6. Sync(TheGroup, r.id, r.generation, a) /\ Set(c, Owning(r))
  OBVIOUS
<1> HIDE DEF a
<1>7. /\ Moves(NoMember)
      /\ Ours' = SyncedGroup(Ours, r.id, a)
      /\ groups'[TheGroup] = Ours'
      /\ Ours.state \in {"CompletingRebalance", "Stable"}
      /\ Ours.state = "Stable" => Quiet(Ours, Ours')
      /\ DOMAIN Ours'.members = DOMAIN Ours.members
      /\ \A m \in DOMAIN Ours.members :
            Ours'.members[m].subscription = Ours.members[m].subscription
  BY <1>1, <1>3, <1>5, <1>6, SyncMoves
<1>8. CASE Ours.state = "CompletingRebalance"
  <2>1. /\ Ours'.state = "Stable" /\ Ours'.generation = Ours.generation
        /\ \A m \in DOMAIN Ours.members : Ours'.members[m].assignment = a[m]
    <3>1. DOMAIN a = DOMAIN Ours.members
      BY <1>4, <1>5 DEF Splits
    <3> QED
      BY <1>1, <1>4, <1>7, <1>8, <3>1, OursOK, LeaderSync
  <2>2. Disjoint(Ours')
    BY <1>4, <1>5, <1>7, <2>1 DEF Splits, Disjoint
  <2>3. /\ Owning(r) \in ConsumerRecord
        /\ Owning(r).id = r.id
        /\ ConsumerInv(Owning(r), Ours')
    BY <1>1, <1>3, <1>7, <2>1, OwningOK DEF Moves
  <2>4. CInv'
    BY <1>6, <1>7, <2>2, <2>3, ActorStep
  <2>5. ASSUME SameTopics, CoverInv
        PROVE  CoverInv'
    <3>1. \A m \in DOMAIN Ours.members : Ours.members[m].subscription = TopicsOf[c]
      BY <2>5 DEF CoverInv, FromConsumers, SameTopics
    <3>2. FromConsumers(Ours')
      BY <1>7, <3>1 DEF FromConsumers
    <3>3. \A tp \in Partitions(TopicsOf[c]) : tp[1] \in TopicsOf[c]
      BY DEF Partitions
    <3>4. \A tp \in Partitions(TopicsOf[c]) : \E m \in DOMAIN Ours.members : tp \in a[m]
      BY <1>3, <1>4, <1>5, <3>1, <3>3 DEF Splits
    <3>5. AllOwned(Ours')
      BY <1>7, <2>1, <3>1, <3>4 DEF AllOwned
    <3> QED
      BY <3>2, <3>5 DEF CoverInv, FromConsumers, AllOwned
  <2> QED
    BY <2>4, <2>5 DEF Preserved
<1>9. CASE Ours.state = "Stable"
  <2>1. Quiet(Ours, Ours') /\ Disjoint(Ours')
    BY <1>7, <1>9, QuietDisjoint DEF CInv
  <2>2. Ours'.state = "Stable" /\ Ours'.generation = Ours.generation
    BY <1>1, <1>3, <1>7, <1>9, StableSync, OursOK
  <2>3. /\ Owning(r) \in ConsumerRecord
        /\ Owning(r).id = r.id
        /\ ConsumerInv(Owning(r), Ours')
    BY <1>1, <1>3, <1>7, <2>2, OwningOK DEF Moves
  <2>4. CInv'
    BY <1>6, <1>7, <2>1, <2>3, ActorStep
  <2>5. CoverInv => CoverInv'
    BY <1>7, <2>1, CoverStep, StillFromConsumers
  <2> QED
    BY <2>4, <2>5 DEF Preserved
<1> QED
  BY <1>7, <1>8, <1>9

\* syncAsLeader().
LEMMA CallSyncAsLeaderStep ==
    ASSUME CInv, NEW c \in Consumers, CallSyncAsLeader(c)
    PROVE  Preserved
<1> DEFINE r == consumer[c]
           error == SyncError(TheGroup, r.id, r.generation)
           none == [r EXCEPT !.view = [m \in {} |-> {}]]
<1>1. r \in ConsumerRecord /\ r.pc = "leading"
  BY DEF CInv, CallSyncAsLeader, Ready
<1>2. CASE /\ error = "None"
           /\ Sync(TheGroup, r.id, r.generation,
                   Assign(StrategyOf[c], r.view, [t \in TopicsOf[c] |-> PartitionCount[t]]))
           /\ Set(c, Owning(r))
  BY <1>1, <1>2, LeaderSyncs
<1>3. CASE /\ Set(c, NextRound(Forget(none, error), TRUE))
           /\ UNCHANGED <<groups, issued>>
  <2>1. none \in ConsumerRecord /\ none.id = r.id
    BY <1>1, RoundRecord
  <2> DEFINE new == NextRound(Forget(none, error), TRUE)
  <2>2. Set(c, new)
    BY <1>3
  <2> HIDE DEF none, error
  <2>3. new \in ConsumerRecord /\ new.pc = "joining" /\ new.id \in {r.id, NoMember}
    BY <2>1, ForgottenRecord
  <2> HIDE DEF new
  <2> QED
    BY <1>3, <2>2, <2>3, AloneActor
<1> QED
  BY <1>2, <1>3 DEF CallSyncAsLeader

\* A follower's sync() poll.
LEMMA CallSyncStep ==
    ASSUME CInv, NEW c \in Consumers, CallSync(c)
    PROVE  Preserved
<1> DEFINE r == consumer[c]
           error == SyncError(TheGroup, r.id, r.generation)
           nothing == [m \in {} |-> {}]
           patient == [r EXCEPT !.wait = @ + 1, !.asleep = TRUE]
<1>1. r \in ConsumerRecord /\ r.pc = "following" /\ ConsumerInv(r, Ours)
         /\ IndInv /\ IsFiniteSet(issued)
  BY DEF CInv, CallSync, Ready
<1>2. nothing \in MapOf(MemberIds, Assignments)
  BY DEF MapOf
<1>3. HeartbeatError(TheGroup, r.id, r.generation) = "None" =>
        /\ r.id \in DOMAIN Ours.members /\ r.id \in MemberIds
        /\ r.generation = Ours.generation
        /\ IsSettled(Ours)
        /\ r.id # Ours.leaderId
        /\ Ours = groups[TheGroup]
  BY <1>1, Unrefused DEF ConsumerInv, InGeneration
<1>4. ASSUME HeartbeatError(TheGroup, r.id, r.generation) = "None",
             Sync(TheGroup, r.id, r.generation, nothing)
      PROVE  /\ Moves(NoMember) /\ Quiet(Ours, Ours')
             /\ Ours' = SyncedGroup(Ours, r.id, nothing)
             /\ groups'[TheGroup] = Ours'
             /\ DOMAIN Ours'.members = DOMAIN Ours.members
             /\ \A m \in DOMAIN Ours.members :
                   Ours'.members[m].subscription = Ours.members[m].subscription
  BY <1>1, <1>2, <1>3, <1>4, SyncMoves
<1>5. CASE /\ error = "None"
           /\ Sync(TheGroup, r.id, r.generation, nothing)
           /\ Set(c, Owning(r))
  <2>1. HeartbeatError(TheGroup, r.id, r.generation) = "None" /\ Ours.state = "Stable"
    BY <1>3, <1>5 DEF SyncError, IsSettled
  <2>2. Ours'.state = "Stable" /\ Ours'.generation = Ours.generation
    BY <1>1, <1>3, <1>4, <1>5, <2>1, StableSync, OursOK
  <2>3. /\ Owning(r) \in ConsumerRecord
        /\ Owning(r).id = r.id
        /\ ConsumerInv(Owning(r), Ours')
    BY <1>1, <1>3, <1>4, <1>5, <2>1, <2>2, OwningOK DEF Moves
  <2>4. Disjoint(Ours')
    BY <1>4, <1>5, <2>1, QuietDisjoint DEF CInv
  <2>5. CInv'
    BY <1>4, <1>5, <2>1, <2>3, <2>4, ActorStep
  <2>6. CoverInv => CoverInv'
    BY <1>4, <1>5, <2>1, CoverStep, StillFromConsumers
  <2> QED
    BY <2>5, <2>6 DEF Preserved
<1>6. CASE /\ \/ /\ HeartbeatError(TheGroup, r.id, r.generation) = "None"
                 /\ Sync(TheGroup, r.id, r.generation, nothing)
              \/ UNCHANGED <<groups, issued>>
           /\ Set(c, patient)
  <2>1. patient \in ConsumerRecord /\ SameKnowledge(r, patient)
    BY <1>1, AnyValues, StepRecord
  <2>2. patient.id = r.id
    BY <2>1 DEF SameKnowledge
  <2>3. Set(c, patient)
    BY <1>6
  <2> HIDE DEF patient
  <2>4. CASE UNCHANGED <<groups, issued>>
    BY <2>1, <2>2, <2>3, <2>4, AloneActor
  <2>5. CASE /\ HeartbeatError(TheGroup, r.id, r.generation) = "None"
             /\ Sync(TheGroup, r.id, r.generation, nothing)
    BY <1>4, <2>1, <2>2, <2>3, <2>5, QuietActor
  <2> QED
    BY <1>6, <2>4, <2>5
<1>7. CASE /\ Set(c, NextRound(Forget(r, error), FALSE))
           /\ UNCHANGED <<groups, issued>>
  <2> DEFINE new == NextRound(Forget(r, error), FALSE)
  <2>1. Set(c, new)
    BY <1>7
  <2> HIDE DEF error
  <2>2. new \in ConsumerRecord /\ new.pc = "joining" /\ new.id \in {r.id, NoMember}
    BY <1>1, ForgottenRecord
  <2> HIDE DEF new
  <2> QED
    BY <1>7, <2>1, <2>2, AloneActor
<1> QED
  BY <1>5, <1>6, <1>7 DEF CallSync

\* A consumer that calls heartbeat(), directly or within a commit, and is not
\* refused; it knows afterwards what it knew before.
LEMMA BeatStep ==
    ASSUME CInv, NEW c \in Consumers,
           Heartbeat(TheGroup, consumer[c].id, consumer[c].generation),
           NEW r \in ConsumerRecord, SameKnowledge(consumer[c], r), Set(c, r)
    PROVE  Preserved
<1>1. HeartbeatError(TheGroup, consumer[c].id, consumer[c].generation) = "None"
  BY DEF Heartbeat
<1>2. consumer[c].id \in MemberIds
  BY <1>1, Unrefused DEF CInv
<1>3. /\ Moves(NoMember)
      /\ Quiet(Ours, Ours')
      /\ DOMAIN Ours'.members = DOMAIN Ours.members
      /\ \A m \in DOMAIN Ours.members :
            Ours'.members[m].subscription = Ours.members[m].subscription
  BY <1>2, HeartbeatMoves DEF CInv
<1> QED
  BY <1>3, QuietActor DEF SameKnowledge

\* A consumer whose call was refused, or that makes none, changes its pc.
LEMMA PcStep ==
    ASSUME CInv, NEW c \in Consumers, UNCHANGED <<groups, issued>>,
           NEW pc \in Pcs \ {"leading", "following", "consuming"},
           Set(c, [consumer[c] EXCEPT !.pc = pc])
    PROVE  Preserved
<1> DEFINE r == [consumer[c] EXCEPT !.pc = pc]
<1>1. consumer[c] \in ConsumerRecord
  BY DEF CInv
<1>2. r \in ConsumerRecord /\ r.pc = pc /\ r.id = consumer[c].id
  BY <1>1, AnyValues, StepRecord
<1>3. Set(c, r)
  OBVIOUS
<1> HIDE DEF r
<1> QED
  BY <1>2, <1>3, AloneActor

\* CallHeartbeat().
LEMMA CallHeartbeatStep ==
    ASSUME CInv, NEW c \in Consumers, CallHeartbeat(c)
    PROVE  Preserved
<1> DEFINE r == consumer[c]
           asleep == [r EXCEPT !.asleep = TRUE]
<1>1. CASE Heartbeat(TheGroup, r.id, r.generation) /\ Set(c, asleep)
  <2>1. asleep \in ConsumerRecord /\ SameKnowledge(r, asleep)
    BY AnyValues, StepRecord DEF CInv
  <2>2. Set(c, asleep)
    BY <1>1
  <2> HIDE DEF asleep
  <2> QED
    BY <1>1, <2>1, <2>2, BeatStep
<1>2. CASE Set(c, [r EXCEPT !.pc = "joining"]) /\ UNCHANGED <<groups, issued>>
  BY <1>2, PcStep DEF Pcs
<1> QED
  BY <1>1, <1>2 DEF CallHeartbeat

\* A commit that reaches the coordinator: accepted, or refused and the consumer
\* fails.
LEMMA CommitStep ==
    ASSUME CInv, NEW c \in Consumers,
           \/ /\ Heartbeat(TheGroup, consumer[c].id, consumer[c].generation)
              /\ UNCHANGED consumer
           \/ /\ Set(c, [consumer[c] EXCEPT !.pc = "failed"])
              /\ UNCHANGED <<groups, issued>>
    PROVE  Preserved
<1>1. CASE /\ Heartbeat(TheGroup, consumer[c].id, consumer[c].generation)
           /\ UNCHANGED consumer
  <2>1. consumer[c] \in ConsumerRecord /\ SameKnowledge(consumer[c], consumer[c])
    BY DEF CInv, SameKnowledge
  <2>2. Set(c, consumer[c])
    BY <1>1 DEF Set, CInv
  <2> QED
    BY <1>1, <2>1, <2>2, BeatStep
<1>2. CASE /\ Set(c, [consumer[c] EXCEPT !.pc = "failed"])
           /\ UNCHANGED <<groups, issued>>
  BY <1>2, PcStep DEF Pcs
<1> QED
  BY <1>1, <1>2

\* CallLeave().
LEMMA CallLeaveStep ==
    ASSUME CInv, NEW c \in Consumers, CallLeave(c)
    PROVE  Preserved
<1> DEFINE r == consumer[c]
           new == [r EXCEPT !.pc = "left", !.id = NoMember, !.generation = -1, !.owned = {}]
<1>1. new \in ConsumerRecord /\ new.pc = "left" /\ new.id = NoMember
  <2>1. r \in ConsumerRecord
    BY DEF CInv
  <2>2. "left" \in Pcs /\ -1 \in Int
    BY DEF Pcs
  <2>3. new \in ConsumerRecord
    BY <2>1, <2>2, AnyValues, RecordsOver DEF ConsumerRecord
  <2> QED
    BY <2>1, <2>3 DEF ConsumerRecord, RecordOver
<1>2. Set(c, new)
  BY DEF CallLeave
<1> HIDE DEF new
<1>3. CASE IsMember(TheGroup, r.id)
  <2>1. Leave(TheGroup, r.id)
    BY <1>3 DEF CallLeave
  <2>2. r.id \in MemberIds
    BY <1>3 DEF CInv, IndInv, IsMember, IdsAreIssuedOnce
  <2>3. /\ Moves(NoMember)
        /\ Quiet(Ours, Ours')
        /\ \A m \in DOMAIN Ours'.members :
              /\ m \in DOMAIN Ours.members
              /\ Ours'.members[m].subscription = Ours.members[m].subscription
    BY <2>1, <2>2, LeaveMoves DEF CInv
  <2> QED
    BY <1>1, <1>2, <2>3, QuietActor
<1>4. CASE ~IsMember(TheGroup, r.id)
  <2>1. UNCHANGED <<groups, issued>>
    BY <1>4 DEF CallLeave
  <2> QED
    BY <1>1, <1>2, <2>1, AloneActor
<1> QED
  BY <1>3, <1>4

\* The group moves quietly, and no consumer learns or does anything.
LEMMA NobodyActs ==
    ASSUME CInv, Moves(NoMember), Quiet(Ours, Ours'),
           \A m \in DOMAIN Ours'.members :
                /\ m \in DOMAIN Ours.members
                /\ Ours'.members[m].subscription = Ours.members[m].subscription,
           consumer' \in [Consumers -> ConsumerRecord],
           \A c \in Consumers : SameKnowledge(consumer[c], consumer'[c])
    PROVE  Preserved
<1>1. \A c \in Consumers : consumer'[c].id = consumer[c].id
  BY DEF SameKnowledge
<1>2. OwnIds'
  BY <1>1 DEF OwnIds, CInv, Moves
<1>3. Disjoint(Ours')
  BY QuietDisjoint DEF CInv
<1>4. \A c \in Consumers : ConsumerInv(consumer'[c], Ours')
  BY OthersKeep
<1>5. CInv'
  <2>1. Disjoint(Ours)' /\ \A c \in Consumers : ConsumerInv(consumer[c], Ours)'
    BY <1>3, <1>4 DEF Disjoint, ConsumerInv, InGeneration, Holds, Waits, IsSettled
  <2> QED
    BY <1>2, <2>1 DEF CInv, Moves
<1>6. CoverInv => CoverInv'
  BY CoverStep, StillFromConsumers
<1> QED
  BY <1>5, <1>6 DEF Preserved

\* Time passes: members age, and sleepers wake.
LEMMA PassTimeStep ==
    ASSUME CInv, PassTime
    PROVE  Preserved
<1>1. /\ Moves(NoMember)
      /\ Quiet(Ours, Ours')
      /\ DOMAIN Ours'.members = DOMAIN Ours.members
      /\ \A m \in DOMAIN Ours'.members :
            Ours'.members[m].subscription = Ours.members[m].subscription
  BY TickMoves DEF CInv, PassTime
<1>2. \A c \in Consumers : /\ [consumer[c] EXCEPT !.asleep = FALSE] \in ConsumerRecord
                           /\ SameKnowledge(consumer[c], [consumer[c] EXCEPT !.asleep = FALSE])
  BY AnyValues, StepRecord DEF CInv
<1>3. consumer' = [c \in Consumers |-> [consumer[c] EXCEPT !.asleep = FALSE]]
  BY DEF PassTime
<1>4. /\ consumer' \in [Consumers -> ConsumerRecord]
      /\ \A c \in Consumers : SameKnowledge(consumer[c], consumer'[c])
  BY <1>2, <1>3
<1> QED
  BY <1>1, <1>4, NobodyActs

\* The sweep.
LEMMA SweepStep ==
    ASSUME CInv, Sweep
    PROVE  Preserved
<1>1. /\ Moves(NoMember)
      /\ Quiet(Ours, Ours')
      /\ \A m \in DOMAIN Ours'.members :
            /\ m \in DOMAIN Ours.members
            /\ Ours'.members[m].subscription = Ours.members[m].subscription
  BY ExpireMoves DEF CInv, Sweep
<1>2. /\ consumer' \in [Consumers -> ConsumerRecord]
      /\ \A c \in Consumers : SameKnowledge(consumer[c], consumer'[c])
  BY DEF Sweep, CInv, SameKnowledge
<1> QED
  BY <1>1, <1>2, NobodyActs

\* One round of a consumer's loop.
LEMMA StepOK ==
    ASSUME CInv, NEW c \in Consumers, Step(c)
    PROVE  Preserved
<1>1. ASSUME GiveUp(c) PROVE Preserved
  BY <1>1, PcStep DEF GiveUp, Pcs
<1>2. ASSUME WaitedEnough(c) PROVE Preserved
  <2> DEFINE new == NextRound(consumer[c], FALSE)
  <2>1. new \in ConsumerRecord /\ new.pc = "joining" /\ new.id = consumer[c].id
    <3>1. FALSE \in BOOLEAN /\ consumer[c] \in ConsumerRecord
      BY DEF CInv
    <3> QED
      BY <3>1, RoundRecord
  <2>2. Set(c, new) /\ UNCHANGED <<groups, issued>>
    BY <1>2 DEF WaitedEnough
  <2> HIDE DEF new
  <2> QED
    BY <2>1, <2>2, AloneActor
<1> QED
  BY <1>1, <1>2, CallJoinStep, CallSyncAsLeaderStep, CallSyncStep, CallHeartbeatStep DEF Step

\* Start and crash.
LEMMA StartStep ==
    ASSUME CInv, NEW c \in Consumers, Start(c) \/ Crash(c)
    PROVE  Preserved
<1>1. CASE Start(c)
  BY <1>1, PcStep DEF Start, Pcs
<1>2. CASE Crash(c)
  BY <1>2, PcStep DEF Crash, Pcs
<1> QED
  BY <1>1, <1>2

\* Nothing happens to coordinator or consumers.
LEMMA StutterStep ==
    ASSUME CInv, UNCHANGED cvars
    PROVE  Preserved
<1>1. UNCHANGED <<groups, issued>> /\ UNCHANGED consumer
  BY DEF cvars
<1>2. Moves(NoMember) /\ Ours' = Ours
  BY <1>1, StayMoves DEF CInv
<1>3. Quiet(Ours, Ours')
  BY <1>2, SameQuiet
<1>4. /\ consumer' \in [Consumers -> ConsumerRecord]
      /\ \A c \in Consumers : SameKnowledge(consumer[c], consumer'[c])
  BY <1>1 DEF CInv, SameKnowledge
<1> QED
  BY <1>2, <1>3, <1>4, NobodyActs

\* The first state.
LEMMA CInitOK ==
    ASSUME CInit
    PROVE  CInv /\ CoverInv
<1>1. IndInv
  BY DEF CInit, Init, IndInv, IdsAreIssuedOnce
<1>2. IsFiniteSet(issued)
  BY FS_EmptySet DEF CInit, Init
<1>3. Ours = NewGroup /\ DOMAIN Ours.members = {} /\ Ours.state = "Empty"
  BY NewGroupOK DEF CInit, Init, Ours, GroupFor, NewGroup
<1>4. \A c \in Consumers : /\ consumer[c] \in ConsumerRecord
                           /\ consumer[c].pc = "idle" /\ consumer[c].id = NoMember
  <2> DEFINE idle == [pc |-> "idle", id |-> NoMember, generation |-> -1, owned |-> {},
                      view |-> [m \in {} |-> {}], round |-> 0, wait |-> 0, asleep |-> FALSE]
  <2>1. idle \in ConsumerRecord
    <3> DEFINE none == [m \in {} |-> {}]
    <3>1. /\ "idle" \in Pcs /\ -1 \in Int /\ 0 \in Nat /\ FALSE \in BOOLEAN
          /\ none \in Views /\ NoMember \in MemberIds \cup {NoMember} /\ {} \in Assignments
      BY AnyValues DEF Pcs
    <3> HIDE DEF none
    <3>2. [pc |-> "idle", id |-> NoMember, generation |-> -1, owned |-> {},
           view |-> none, round |-> 0, wait |-> 0, asleep |-> FALSE] \in ConsumerRecord
      BY <3>1, Zenon DEF ConsumerRecord, RecordOver
    <3> QED
      BY <3>2 DEF none
  <2>2. \A c \in Consumers : consumer[c] = idle
    BY DEF CInit
  <2>3. idle.pc = "idle" /\ idle.id = NoMember
    OBVIOUS
  <2> HIDE DEF idle
  <2> QED
    BY <2>1, <2>2, <2>3
<1>5. consumer \in [Consumers -> ConsumerRecord]
  BY <1>4 DEF CInit
<1>6. OwnIds
  BY <1>4 DEF OwnIds
<1>7. \A c \in Consumers : ConsumerInv(consumer[c], Ours)
  BY <1>4 DEF ConsumerInv
<1>8. Disjoint(Ours) /\ CoverInv
  BY <1>3 DEF Disjoint, CoverInv, FromConsumers, AllOwned
<1> QED
  BY <1>1, <1>2, <1>5, <1>6, <1>7, <1>8 DEF CInv

\* Every step of consumers and coordinator.
LEMMA CNextOK ==
    ASSUME CInv, [CNext]_cvars
    PROVE  Preserved
<1>1. ASSUME NEW c \in Consumers, Start(c) PROVE Preserved
  BY <1>1, StartStep
<1>2. ASSUME NEW c \in Consumers, Step(c) PROVE Preserved
  BY <1>2, StepOK
<1>3. ASSUME NEW c \in Consumers, CallCommit(c) PROVE Preserved
  BY <1>3, CommitStep DEF CallCommit
<1>4. ASSUME NEW c \in Consumers, CallLeave(c) PROVE Preserved
  BY <1>4, CallLeaveStep
<1>5. ASSUME NEW c \in Consumers, Crash(c) PROVE Preserved
  BY <1>5, StartStep
<1>6. CASE PassTime
  BY <1>6, PassTimeStep
<1>7. CASE Sweep
  BY <1>7, SweepStep
<1>8. CASE UNCHANGED cvars
  BY <1>8, StutterStep
<1> QED
  BY <1>1, <1>2, <1>3, <1>4, <1>5, <1>6, <1>7, <1>8 DEF CNext

-----------------------------------------------------------------------------
(* What follows of the invariant *)

\* A consumer the coordinator accepts is a member of this generation, and holds
\* what the coordinator stored for it.
LEMMA AcceptedHolds ==
    ASSUME CInv, NEW c \in Consumers, Accepted(c)
    PROVE  /\ TheGroup \in DOMAIN groups /\ Ours = groups[TheGroup]
           /\ consumer[c].id \in MemberIds
           /\ consumer[c].id \in DOMAIN Ours.members
           /\ consumer[c].owned = Ours.members[consumer[c].id].assignment
<1>1. HeartbeatError(TheGroup, consumer[c].id, consumer[c].generation) = "None"
      /\ consumer[c].pc = "consuming"
  BY DEF Accepted
<1>2. /\ TheGroup \in DOMAIN groups /\ Ours = groups[TheGroup]
      /\ consumer[c].id \in DOMAIN Ours.members /\ consumer[c].id \in MemberIds
      /\ consumer[c].generation = Ours.generation
  BY <1>1, Unrefused DEF CInv
<1>3. ConsumerInv(consumer[c], Ours)
  BY DEF CInv
<1> QED
  BY <1>1, <1>2, <1>3 DEF ConsumerInv, InGeneration, Holds

\* Two consumers the coordinator accepts are two members, and two members share
\* no partition.
LEMMA InvExclusive ==
    ASSUME CInv
    PROVE  ExclusiveOwnership
<1> SUFFICES ASSUME NEW c \in Consumers, NEW d \in Consumers,
                    c # d, Accepted(c), Accepted(d)
             PROVE  consumer[c].owned \cap consumer[d].owned = {}
  BY DEF ExclusiveOwnership
<1>1. consumer[c].id # consumer[d].id
  <2>1. consumer[c].id # NoMember
    BY AcceptedHolds, GroupCoordinatorAssumption
  <2> QED
    BY <2>1 DEF CInv, OwnIds
<1> QED
  BY <1>1, AcceptedHolds DEF CInv, Disjoint

\* Every partition subscribed to has an owner, and only one.
LEMMA InvOwned ==
    ASSUME CInv, CoverInv
    PROVE  OwnsWhatWasAssigned
<1>1. ASSUME NEW c \in Consumers, Accepted(c)
      PROVE  /\ consumer[c].id \in DOMAIN Group0.members
             /\ consumer[c].owned = Group0.members[consumer[c].id].assignment
  BY <1>1, AcceptedHolds DEF Group0
<1>2. ASSUME TheGroup \in DOMAIN groups, Group0.state = "Stable",
             NEW tp \in Partitions(SubscribedTopics)
      PROVE  Cardinality({m \in DOMAIN Group0.members :
                            tp \in Group0.members[m].assignment}) = 1
  <2> DEFINE owners == {m \in DOMAIN Group0.members : tp \in Group0.members[m].assignment}
  <2>1. Ours = Group0
    BY <1>2, OursOK DEF CInv, Group0
  <2>2. PICK m \in DOMAIN Group0.members : tp \in Partitions(Group0.members[m].subscription)
    BY DEF Partitions, SubscribedTopics
  <2>3. PICK n \in DOMAIN Group0.members : tp \in Group0.members[n].assignment
    BY <1>2, <2>1, <2>2 DEF CoverInv, AllOwned
  <2>4. \A k \in DOMAIN Group0.members : tp \in Group0.members[k].assignment => k = n
    BY <2>1, <2>3 DEF CInv, Disjoint
  <2>5. owners = {n}
    BY <2>3, <2>4
  <2> QED
    BY <2>5, FS_Singleton
<1> QED
  BY <1>1, <1>2 DEF OwnsWhatWasAssigned, SubscribedIsAssigned

-----------------------------------------------------------------------------
(* Consumers and coordinator *)

\* No partition has two owners the coordinator accepts, whoever crashed, was
\* expired while still running, or joined and left in between.
THEOREM ExclusiveOwners == CSpec => []ExclusiveOwnership
<1>1. CInit => CInv
  BY CInitOK
<1>2. CInv /\ [CNext]_cvars => CInv'
  BY CNextOK DEF Preserved
<1>3. CInv => ExclusiveOwnership
  BY InvExclusive
<1> QED
  BY <1>1, <1>2, <1>3, PTL DEF CSpec

\* When everybody consumes the same topics, every partition of a stable group
\* has exactly one owner, and a consumer the coordinator accepts holds what the
\* coordinator stored for it.  SameTopics is needed: the leader counts the
\* partitions of its own topics only.
THEOREM OwnedIsAssigned ==
    SameTopics => (CSpec => []OwnsWhatWasAssigned)
<1> SUFFICES ASSUME SameTopics PROVE CSpec => []OwnsWhatWasAssigned
  OBVIOUS
<1> DEFINE Inv == CInv /\ CoverInv
<1>1. CInit => Inv
  BY CInitOK
<1>2. Inv /\ [CNext]_cvars => Inv'
  BY CNextOK DEF Preserved
<1>3. Inv => OwnsWhatWasAssigned
  BY InvOwned
<1> QED
  BY <1>1, <1>2, <1>3, PTL DEF CSpec

-----------------------------------------------------------------------------
(* The commit path: nothing committed that is not covered *)

Commit == [key : Tps, value : 0..Records]

PathTypes ==
    /\ start \in [Tps -> 0..Records]
    /\ printed \in [Tps -> SUBSET Nat]
    /\ positions \in [Consumers -> [Tps -> 0..Records \cup {Unknown}]]
    /\ task \in [Consumers -> Fetches \cup Commits \cup {Nothing}]
    /\ log \in Seq(Commit)
    /\ committed \in [Tps -> 0..Records \cup {NoPosition}]
    /\ stage \in [Threads -> {"idle", "admitted", "appended"}]
    /\ op \in [Threads -> Commit \cup {NoOp}]

\* A fetch or a commit is made when positions are known, and the log start a
\* fetch reports was the log start once.
TasksAreReal ==
    \A c \in Consumers : task[c] # Nothing =>
        /\ positions[c][task[c].tp] # Unknown
        /\ task[c] \in Fetches => task[c].from <= start[task[c].tp]

\* Consumers know covered positions only.
PositionsCovered ==
    \A c \in Consumers, tp \in Tps :
        positions[c][tp] # Unknown => Covered(tp, positions[c][tp])

\* The topic, the map and the commits under way hold covered positions only.
StoreCovered ==
    /\ \A i \in DOMAIN log : Covered(log[i].key, log[i].value)
    /\ \A tp \in Tps : committed[tp] # NoPosition => Covered(tp, committed[tp])
    /\ \A w \in Threads : stage[w] # "idle" =>
            op[w] \in Commit /\ Covered(op[w].key, op[w].value)

PathInv == PathTypes /\ TasksAreReal /\ PositionsCovered /\ StoreCovered

\* Printed records stay printed, and a log start moves forward only.
Grows ==
    /\ start' \in [Tps -> 0..Records]
    /\ printed' \in [Tps -> SUBSET Nat]
    /\ \A tp \in Tps : start[tp] <= start'[tp] /\ printed[tp] \subseteq printed'[tp]

\* What is covered stays covered.
LEMMA StaysCovered ==
    ASSUME PathTypes, Grows, NEW tp \in Tps, NEW p \in 0..Records, Covered(tp, p)
    PROVE  \A o \in 0..(p - 1) : o \in printed'[tp] \/ o < start'[tp]
<1>1. start[tp] \in Nat /\ start'[tp] \in Nat /\ start[tp] <= start'[tp]
  BY OffsetCommitAssumption DEF PathTypes, Grows
<1>2. printed[tp] \subseteq printed'[tp]
  BY DEF Grows
<1>3. TAKE o \in 0..(p - 1)
<1>4. o \in printed[tp] \/ o < start[tp]
  BY <1>3 DEF Covered
<1>5. o \in Nat
  OBVIOUS
<1> QED
  BY <1>1, <1>2, <1>4, <1>5

\* Nothing moved is moving forward.
LEMMA StillGrows ==
    ASSUME PathTypes, UNCHANGED <<start, printed>>
    PROVE  Grows
<1>1. \A tp \in Tps : start[tp] \in Nat
  BY OffsetCommitAssumption DEF PathTypes
<1> QED
  BY <1>1 DEF PathTypes, Grows

\* The same store, while records are printed and deleted.
LEMMA SameStore ==
    ASSUME PathInv, Grows, UNCHANGED svars
    PROVE  StoreCovered'
<1>1. /\ UNCHANGED <<log, committed, stage, op>>
      /\ \A i \in DOMAIN log : log[i] \in Commit
  BY DEF PathInv, PathTypes, svars
<1>2. \A i \in DOMAIN log' : Covered(log[i].key, log[i].value)'
  <2> SUFFICES ASSUME NEW i \in DOMAIN log
               PROVE  \A o \in 0..(log[i].value - 1) :
                        o \in printed'[log[i].key] \/ o < start'[log[i].key]
    BY <1>1 DEF Covered
  <2>1. log[i].key \in Tps /\ log[i].value \in 0..Records
    BY <1>1 DEF Commit
  <2>2. Covered(log[i].key, log[i].value)
    BY DEF PathInv, StoreCovered
  <2> QED
    BY <2>1, <2>2, StaysCovered DEF PathInv
<1>3. \A tp \in Tps : committed'[tp] # NoPosition => Covered(tp, committed[tp])'
  <2> SUFFICES ASSUME NEW tp \in Tps, committed[tp] # NoPosition
               PROVE  \A o \in 0..(committed[tp] - 1) : o \in printed'[tp] \/ o < start'[tp]
    BY <1>1 DEF Covered
  <2>1. committed[tp] \in 0..Records
    BY DEF PathInv, PathTypes
  <2>2. Covered(tp, committed[tp])
    BY DEF PathInv, StoreCovered
  <2> QED
    BY <2>1, <2>2, StaysCovered DEF PathInv
<1>4. \A w \in Threads : stage'[w] # "idle" =>
            op'[w] \in Commit /\ Covered(op[w].key, op[w].value)'
  <2> SUFFICES ASSUME NEW w \in Threads, stage[w] # "idle"
               PROVE  /\ op[w] \in Commit
                      /\ \A o \in 0..(op[w].value - 1) :
                            o \in printed'[op[w].key] \/ o < start'[op[w].key]
    BY <1>1 DEF Covered
  <2>1. op[w] \in Commit /\ Covered(op[w].key, op[w].value)
    BY DEF PathInv, StoreCovered
  <2>2. op[w].key \in Tps /\ op[w].value \in 0..Records
    BY <2>1 DEF Commit
  <2> QED
    BY <2>1, <2>2, StaysCovered DEF PathInv
<1> QED
  BY <1>1, <1>2, <1>3, <1>4 DEF StoreCovered

\* Positions that stay, or are forgotten, are covered.
LEMMA SamePositions ==
    ASSUME PathInv, Grows, NEW c \in Consumers, NEW tp \in Tps, positions[c][tp] # Unknown
    PROVE  \A o \in 0..(positions[c][tp] - 1) : o \in printed'[tp] \/ o < start'[tp]
<1>1. positions[c][tp] \in 0..Records
  BY DEF PathInv, PathTypes
<1>2. Covered(tp, positions[c][tp])
  BY DEF PathInv, PositionsCovered
<1> QED
  BY <1>1, <1>2, StaysCovered DEF PathInv

\* A consumer whose loop ends, or starts over, or goes on with what it knows.
LEMMA LoopOver ==
    ASSUME PathInv, UNCHANGED <<start, printed>>, NEW c \in Consumers,
           \/ positions' = [positions EXCEPT ![c] = AllUnknown]
           \/ positions' = positions,
           \/ task' = [task EXCEPT ![c] = Nothing]
           \/ task' = task /\ task[c] = Nothing
    PROVE  /\ positions' \in [Consumers -> [Tps -> 0..Records \cup {Unknown}]]
           /\ task' \in [Consumers -> Fetches \cup Commits \cup {Nothing}]
           /\ TasksAreReal' /\ PositionsCovered'
<1>1. AllUnknown \in [Tps -> 0..Records \cup {Unknown}] /\ \A tp \in Tps : AllUnknown[tp] = Unknown
  BY DEF AllUnknown
<1>2. /\ positions' \in [Consumers -> [Tps -> 0..Records \cup {Unknown}]]
      /\ task' \in [Consumers -> Fetches \cup Commits \cup {Nothing}]
      /\ task'[c] = Nothing
      /\ \A d \in Consumers : d # c => positions'[d] = positions[d] /\ task'[d] = task[d]
      /\ positions'[c] = AllUnknown \/ positions'[c] = positions[c]
  <2> DEFINE P == [Tps -> 0..Records \cup {Unknown}]
             T == Fetches \cup Commits \cup {Nothing}
  <2>1. positions \in [Consumers -> P] /\ AllUnknown \in P /\ task \in [Consumers -> T] /\ Nothing \in T
    BY <1>1 DEF PathInv, PathTypes
  <2> HIDE DEF P, T
  <2>2. /\ positions' \in [Consumers -> P]
        /\ \A d \in Consumers : d # c => positions'[d] = positions[d]
        /\ positions'[c] = AllUnknown \/ positions'[c] = positions[c]
    BY <2>1
  <2>3. /\ task' \in [Consumers -> T] /\ task'[c] = Nothing
        /\ \A d \in Consumers : d # c => task'[d] = task[d]
    BY <2>1
  <2> QED
    BY <2>2, <2>3 DEF P, T
<1>3. TasksAreReal'
  BY <1>2 DEF PathInv, TasksAreReal
<1>4. PositionsCovered'
  <2> SUFFICES ASSUME NEW d \in Consumers, NEW tp \in Tps, positions'[d][tp] # Unknown
               PROVE  Covered(tp, positions[d][tp])'
    BY DEF PositionsCovered
  <2>1. positions'[d][tp] = positions[d][tp]
    BY <1>1, <1>2
  <2>2. Covered(tp, positions[d][tp])
    BY <2>1 DEF PathInv, PositionsCovered
  <2> QED
    BY <2>1, <2>2 DEF Covered
<1> QED
  BY <1>2, <1>3, <1>4

\* Steps that print and delete nothing and leave the store alone.
LEMMA LoopOnly ==
    ASSUME PathInv, UNCHANGED <<svars, start, printed>>,
           positions' \in [Consumers -> [Tps -> 0..Records \cup {Unknown}]],
           task' \in [Consumers -> Fetches \cup Commits \cup {Nothing}],
           TasksAreReal', PositionsCovered'
    PROVE  PathInv'
<1>1. StoreCovered'
  BY StillGrows, SameStore DEF PathInv
<1>2. PathTypes'
  BY DEF PathInv, PathTypes, svars
<1> QED
  BY <1>1, <1>2 DEF PathInv

\* Nothing of the commit path moves.
LEMMA Elsewhere ==
    ASSUME PathInv, UNCHANGED <<svars, start, printed, positions, task>>
    PROVE  PathInv'
<1>1. StoreCovered'
  BY StillGrows, SameStore DEF PathInv
<1>2. PathTypes' /\ TasksAreReal'
  BY DEF PathInv, PathTypes, TasksAreReal, svars
<1>3. PositionsCovered'
  BY DEF PathInv, PositionsCovered, Covered
<1> QED
  BY <1>1, <1>2, <1>3 DEF PathInv

\* A consumer that calls the coordinator has no fetch or commit to make.
LEMMA GroupCallPath ==
    ASSUME PathInv, NEW c \in Consumers, GroupCall(c)
    PROVE  PathInv'
<1>1. task[c] = Nothing /\ UNCHANGED <<svars, start, printed, task>>
  BY DEF GroupCall
<1>2. positions' = [positions EXCEPT ![c] = AllUnknown] \/ positions' = positions
  <2>1. positions' = [positions EXCEPT ![c] = AllUnknown]
        \/ positions' = [positions EXCEPT ![c] = positions[c]]
    BY DEF GroupCall
  <2>2. [positions EXCEPT ![c] = positions[c]] = positions
    BY DEF PathInv, PathTypes
  <2> QED
    BY <2>1, <2>2
<1>3. /\ positions' \in [Consumers -> [Tps -> 0..Records \cup {Unknown}]]
      /\ task' \in [Consumers -> Fetches \cup Commits \cup {Nothing}]
      /\ TasksAreReal' /\ PositionsCovered'
  BY <1>1, <1>2, LoopOver
<1> QED
  BY <1>1, <1>3, LoopOnly

\* The loop ends and the store is left alone.
LEMMA EndsPath ==
    ASSUME PathInv, NEW c \in Consumers, Ends(c), UNCHANGED <<svars, start, printed>>
    PROVE  PathInv'
<1>1. /\ positions' = [positions EXCEPT ![c] = AllUnknown]
      /\ task' = [task EXCEPT ![c] = Nothing]
  BY DEF Ends
<1>2. /\ positions' \in [Consumers -> [Tps -> 0..Records \cup {Unknown}]]
      /\ task' \in [Consumers -> Fetches \cup Commits \cup {Nothing}]
      /\ TasksAreReal' /\ PositionsCovered'
  BY <1>1, LoopOver
<1> QED
  BY <1>2, LoopOnly

\* A position is read from the map, which holds covered ones.
LEMMA LoadPositionPath ==
    ASSUME PathInv, NEW c \in Consumers, NEW tp \in Tps, LoadPosition(c, tp)
    PROVE  PathInv'
<1> DEFINE at == IF committed[tp] = NoPosition THEN 0 ELSE committed[tp]
<1>1. /\ positions[c][tp] = Unknown
      /\ positions' = [positions EXCEPT ![c][tp] = at]
      /\ UNCHANGED <<svars, start, printed, task>>
  BY DEF LoadPosition
<1>2. at \in 0..Records /\ Covered(tp, at)
  <2>1. CASE committed[tp] = NoPosition
    BY <2>1, OffsetCommitAssumption DEF Covered
  <2>2. CASE committed[tp] # NoPosition
    BY <2>2 DEF PathInv, PathTypes, StoreCovered
  <2> QED
    BY <2>1, <2>2
<1> HIDE DEF at
<1>3. /\ positions' \in [Consumers -> [Tps -> 0..Records \cup {Unknown}]]
      /\ positions'[c][tp] = at
      /\ \A d \in Consumers, q \in Tps : d # c \/ q # tp => positions'[d][q] = positions[d][q]
  BY <1>1, <1>2 DEF PathInv, PathTypes
<1>4. TasksAreReal'
  <2> SUFFICES ASSUME NEW d \in Consumers, task[d] # Nothing
               PROVE  /\ positions'[d][task[d].tp] # Unknown
                      /\ task[d] \in Fetches => task[d].from <= start[task[d].tp]
    BY <1>1 DEF TasksAreReal
  <2>1. /\ positions[d][task[d].tp] # Unknown
        /\ task[d] \in Fetches => task[d].from <= start[task[d].tp]
    BY DEF PathInv, TasksAreReal
  <2>2. task[d].tp \in Tps
    BY DEF PathInv, PathTypes, Fetches, Commits
  <2> QED
    BY <1>1, <1>3, <2>1, <2>2
<1>5. PositionsCovered'
  <2> SUFFICES ASSUME NEW d \in Consumers, NEW q \in Tps, positions'[d][q] # Unknown
               PROVE  \A o \in 0..(positions'[d][q] - 1) : o \in printed[q] \/ o < start[q]
    BY <1>1 DEF PositionsCovered, Covered
  <2>1. CASE d = c /\ q = tp
    BY <2>1, <1>2, <1>3 DEF Covered
  <2>2. CASE d # c \/ q # tp
    <3>1. positions'[d][q] = positions[d][q]
      BY <2>2, <1>3
    <3>2. Covered(q, positions[d][q])
      BY <3>1 DEF PathInv, PositionsCovered
    <3> QED
      BY <3>1, <3>2 DEF Covered
  <2> QED
    BY <2>1, <2>2
<1>6. task' \in [Consumers -> Fetches \cup Commits \cup {Nothing}]
  BY <1>1 DEF PathInv, PathTypes
<1> QED
  BY <1>1, <1>3, <1>4, <1>5, <1>6, LoopOnly

\* A task that only one consumer starts, with a position it knows.
LEMMA StartsTask ==
    ASSUME PathInv, NEW c \in Consumers, NEW t \in Fetches \cup Commits \cup {Nothing},
           task' = [task EXCEPT ![c] = t],
           t # Nothing => /\ positions[c][t.tp] # Unknown
                          /\ t \in Fetches => t.from <= start[t.tp],
           UNCHANGED <<start, positions>>
    PROVE  task' \in [Consumers -> Fetches \cup Commits \cup {Nothing}] /\ TasksAreReal'
<1>1. /\ task' \in [Consumers -> Fetches \cup Commits \cup {Nothing}]
      /\ task'[c] = t
      /\ \A d \in Consumers : d # c => task'[d] = task[d]
  BY DEF PathInv, PathTypes
<1>2. TasksAreReal'
  BY <1>1 DEF PathInv, TasksAreReal
<1> QED
  BY <1>1, <1>2

\* The handler notes the log start of this moment.
LEMMA FetchArrivesPath ==
    ASSUME PathInv, NEW c \in Consumers, NEW tp \in Tps, FetchArrives(c, tp)
    PROVE  PathInv'
<1> DEFINE t == [call |-> "fetch", tp |-> tp, from |-> start[tp]]
<1>1. /\ positions[c][tp] # Unknown
      /\ task' = [task EXCEPT ![c] = t]
      /\ UNCHANGED <<svars, start, printed, positions>>
  BY DEF FetchArrives
<1>2. t \in Fetches /\ t.tp = tp /\ t.from = start[tp] /\ start[tp] \in Nat
  BY OffsetCommitAssumption DEF PathInv, PathTypes, Fetches
<1> HIDE DEF t
<1>3. task' \in [Consumers -> Fetches \cup Commits \cup {Nothing}] /\ TasksAreReal'
  <2>1. t \in Fetches \cup Commits \cup {Nothing}
    BY <1>2
  <2>2. positions[c][t.tp] # Unknown /\ t.from <= start[t.tp]
    BY <1>1, <1>2
  <2>3. task' = [task EXCEPT ![c] = t] /\ UNCHANGED <<start, positions>>
    BY <1>1
  <2> QED
    BY ONLY PathInv, c \in Consumers, <2>1, <2>2, <2>3, StartsTask
<1>4. PositionsCovered'
  BY <1>1 DEF PathInv, PositionsCovered, Covered
<1>5. positions' \in [Consumers -> [Tps -> 0..Records \cup {Unknown}]]
  BY <1>1 DEF PathInv, PathTypes
<1> QED
  BY <1>1, <1>3, <1>4, <1>5, LoopOnly

\* Where a fetch leaves a consumer: at a covered position that it commits or
\* that has not moved.
LEMMA ArrivePath ==
    ASSUME PathInv, Grows, UNCHANGED svars, NEW c \in Consumers, NEW some,
           task[c] # Nothing, NEW p \in 0..Records, Arrive(c, task[c].tp, p, some),
           \A o \in 0..(p - 1) : o \in printed'[task[c].tp] \/ o < start'[task[c].tp]
    PROVE  PathInv'
<1> DEFINE tp == task[c].tp
           t == [call |-> "commit", tp |-> tp]
<1>1. tp \in Tps /\ task[c] \in Fetches \cup Commits
  BY DEF PathInv, PathTypes, Fetches, Commits
<1>2. t \in Commits /\ t.tp = tp
  BY <1>1 DEF Commits
<1>3. t \notin Fetches
  BY DEF Fetches
<1>4. /\ positions' = [positions EXCEPT ![c][tp] = p]
      /\ task' = [task EXCEPT ![c] = Nothing] \/ task' = [task EXCEPT ![c] = t]
  BY DEF Arrive, EndPartition
<1> HIDE DEF tp, t
<1>5. /\ positions' \in [Consumers -> [Tps -> 0..Records \cup {Unknown}]]
      /\ positions'[c][tp] = p
      /\ \A d \in Consumers, q \in Tps : d # c \/ q # tp => positions'[d][q] = positions[d][q]
  BY <1>1, <1>4 DEF PathInv, PathTypes
<1>6. /\ task' \in [Consumers -> Fetches \cup Commits \cup {Nothing}]
      /\ task'[c] = Nothing \/ task'[c] = t
      /\ \A d \in Consumers : d # c => task'[d] = task[d]
  BY <1>2, <1>4 DEF PathInv, PathTypes
<1>7. p # Unknown
  BY OffsetCommitAssumption
<1>8. TasksAreReal'
  <2> SUFFICES ASSUME NEW d \in Consumers, task'[d] # Nothing
               PROVE  /\ positions'[d][task'[d].tp] # Unknown
                      /\ task'[d] \in Fetches => task'[d].from <= start'[task'[d].tp]
    BY DEF TasksAreReal
  <2>1. CASE d = c
    BY <2>1, <1>2, <1>3, <1>5, <1>6, <1>7
  <2>2. CASE d # c
    <3>1. /\ task'[d] = task[d]
          /\ positions[d][task[d].tp] # Unknown
          /\ task[d] \in Fetches => task[d].from <= start[task[d].tp]
      BY <2>2, <1>6 DEF PathInv, TasksAreReal
    <3>2. task[d].tp \in Tps
      BY <3>1 DEF PathInv, PathTypes, Fetches, Commits
    <3>3. positions'[d][task[d].tp] = positions[d][task[d].tp]
      BY <2>2, <3>2, <1>5
    <3>4. ASSUME task[d] \in Fetches PROVE task[d].from <= start'[task[d].tp]
      <4>1. task[d].from \in Nat
        BY <3>4, OffsetCommitAssumption DEF Fetches
      <4>2. start[task[d].tp] \in Nat /\ start'[task[d].tp] \in Nat
        BY <3>2, OffsetCommitAssumption DEF PathInv, PathTypes, Grows
      <4>3. start[task[d].tp] <= start'[task[d].tp]
        BY <3>2 DEF Grows
      <4> QED
        BY <3>1, <3>4, <4>1, <4>2, <4>3
    <3> QED
      BY <3>1, <3>3, <3>4
  <2> QED
    BY <2>1, <2>2
<1>9. PositionsCovered'
  <2> SUFFICES ASSUME NEW d \in Consumers, NEW q \in Tps, positions'[d][q] # Unknown
               PROVE  \A o \in 0..(positions'[d][q] - 1) : o \in printed'[q] \/ o < start'[q]
    BY DEF PositionsCovered, Covered
  <2>1. CASE d = c /\ q = tp
    BY <2>1, <1>5 DEF tp
  <2>2. CASE d # c \/ q # tp
    BY <2>2, <1>5, SamePositions
  <2> QED
    BY <2>1, <2>2
<1>10. StoreCovered'
  BY SameStore
<1>11. PathTypes'
  BY <1>5, <1>6 DEF PathInv, PathTypes, Grows, svars
<1> QED
  BY <1>8, <1>9, <1>10, <1>11 DEF PathInv

\* Records are printed before the position moves past them.
LEMMA FetchAnsweredPath ==
    ASSUME PathInv, NEW c \in Consumers, FetchAnswered(c)
    PROVE  PathInv'
<1> DEFINE tp == task[c].tp
           p == positions[c][tp]
<1>1. /\ task[c] # Nothing
      /\ UNCHANGED <<svars, start>>
  BY DEF FetchAnswered
<1>2. tp \in Tps /\ p \in 0..Records /\ Covered(tp, p)
  <2>1. tp \in Tps /\ p # Unknown
    BY <1>1 DEF PathInv, PathTypes, TasksAreReal, Fetches, Commits
  <2> QED
    BY <2>1 DEF PathInv, PathTypes, PositionsCovered
<1>3. PICK upTo \in p..Records :
        /\ printed' = [printed EXCEPT ![tp] = @ \cup p..(upTo - 1)]
        /\ Arrive(c, tp, upTo, read[c] \/ upTo > p)
  BY DEF FetchAnswered
<1> HIDE DEF p, tp
<1>4. upTo \in 0..Records
  BY <1>2, OffsetCommitAssumption
<1>5. /\ printed' \in [Tps -> SUBSET Nat]
      /\ printed'[tp] = printed[tp] \cup p..(upTo - 1)
      /\ \A q \in Tps : printed[q] \subseteq printed'[q]
  <2> DEFINE more == printed[tp] \cup p..(upTo - 1)
  <2>1. printed \in [Tps -> SUBSET Nat] /\ more \in SUBSET Nat
    <3>1. printed \in [Tps -> SUBSET Nat]
      BY DEF PathInv, PathTypes
    <3>2. p..(upTo - 1) \subseteq Nat
      BY <1>2, <1>4, OffsetCommitAssumption
    <3> QED
      BY <3>1, <3>2, <1>2
  <2>2. printed' = [printed EXCEPT ![tp] = more] /\ printed[tp] \subseteq more
    BY <1>3
  <2> HIDE DEF more
  <2>3. /\ printed' \in [Tps -> SUBSET Nat]
        /\ printed'[tp] = more
        /\ \A q \in Tps : printed[q] \subseteq printed'[q]
    BY <1>2, <2>1, <2>2
  <2> QED
    BY <2>3 DEF more
<1>6. Grows
  <2>1. \A q \in Tps : start[q] \in Nat
    BY OffsetCommitAssumption DEF PathInv, PathTypes
  <2> QED
    BY <1>1, <1>5, <2>1 DEF Grows, PathInv, PathTypes
<1>7. \A o \in 0..(upTo - 1) : o \in printed'[tp] \/ o < start'[tp]
  <2> TAKE o \in 0..(upTo - 1)
  <2>1. CASE o < p
    <3>1. o \in 0..(p - 1)
      BY <2>1, <1>2, <1>4, OffsetCommitAssumption
    <3> QED
      BY <1>2, <1>6, <3>1, StaysCovered DEF PathInv
  <2>2. CASE ~(o < p)
    <3>1. o \in p..(upTo - 1)
      BY <2>2, <1>2, <1>4, OffsetCommitAssumption
    <3> QED
      BY <1>5, <3>1
  <2> QED
    BY <2>1, <2>2
<1> QED
  BY <1>1, <1>3, <1>4, <1>6, <1>7, ArrivePath DEF tp

\* A position that retention overtook moves to a log start: what is in front of
\* it is deleted by now, however late the answer is.
LEMMA FetchOutOfRangePath ==
    ASSUME PathInv, NEW c \in Consumers, FetchAnsweredOutOfRange(c)
    PROVE  PathInv'
<1> DEFINE tp == task[c].tp
           p == task[c].from
<1>1. /\ task[c] # Nothing /\ task[c].call = "fetch"
      /\ Arrive(c, tp, p, read[c])
      /\ UNCHANGED <<svars, start, printed>>
  BY DEF FetchAnsweredOutOfRange
<1>2. task[c] \in Fetches
  BY <1>1 DEF PathInv, PathTypes, Commits
<1>3. tp \in Tps /\ p \in 0..Records /\ p <= start[tp] /\ start[tp] \in 0..Records
  BY <1>1, <1>2 DEF Fetches, PathInv, PathTypes, TasksAreReal
<1>4. \A o \in 0..(p - 1) : o < start'[tp]
  BY <1>1, <1>3, OffsetCommitAssumption
<1>5. Grows
  BY <1>1, StillGrows DEF PathInv
<1> QED
  BY <1>1, <1>3, <1>4, <1>5, ArrivePath

\* Retention.
LEMMA RetainPath ==
    ASSUME PathInv, NEW tp \in Tps, Retain(tp)
    PROVE  PathInv'
<1>1. PICK n \in (start[tp] + 1)..Records : start' = [start EXCEPT ![tp] = n]
  BY DEF Retain
<1>2. UNCHANGED <<svars, printed, positions, task>>
  BY DEF Retain, loopvars
<1>3. start \in [Tps -> 0..Records] /\ \A q \in Tps : start[q] \in Nat
  BY OffsetCommitAssumption DEF PathInv, PathTypes
<1>4. n \in 0..Records /\ start[tp] <= n
  BY <1>3, OffsetCommitAssumption
<1>5. start' \in [Tps -> 0..Records] /\ \A q \in Tps : start[q] <= start'[q]
  BY <1>1, <1>3, <1>4
<1>6. Grows
  BY <1>2, <1>5 DEF Grows, PathInv, PathTypes
<1>7. StoreCovered'
  BY <1>2, <1>6, SameStore
<1>8. PositionsCovered'
  <2> SUFFICES ASSUME NEW d \in Consumers, NEW q \in Tps, positions[d][q] # Unknown
               PROVE  \A o \in 0..(positions[d][q] - 1) : o \in printed'[q] \/ o < start'[q]
    BY <1>2 DEF PositionsCovered, Covered
  <2> QED
    BY <1>6, SamePositions
<1>9. TasksAreReal'
  <2> SUFFICES ASSUME NEW d \in Consumers, task[d] # Nothing, task[d] \in Fetches
               PROVE  task[d].from <= start'[task[d].tp]
    BY <1>2 DEF TasksAreReal, PathInv
  <2>1. task[d].tp \in Tps /\ task[d].from \in Nat
    BY OffsetCommitAssumption DEF Fetches
  <2>2. task[d].from <= start[task[d].tp]
    BY DEF PathInv, TasksAreReal
  <2>3. start[task[d].tp] \in Nat /\ start'[task[d].tp] \in Nat
    BY <2>1, <1>3, <1>5, OffsetCommitAssumption
  <2>4. start[task[d].tp] <= start'[task[d].tp]
    BY <2>1, <1>5
  <2> QED
    BY <2>1, <2>2, <2>3, <2>4
<1>10. PathTypes'
  BY <1>2, <1>5 DEF PathInv, PathTypes, svars
<1> QED
  BY <1>7, <1>8, <1>9, <1>10 DEF PathInv

\* A commit is a record of the store, and leaves its position in the map.
LEMMA CommitIsRecord ==
    ASSUME NEW e \in Commit
    PROVE  e \in Store!Record /\ Store!PositionOf(e) = e.value
BY OffsetCommitAssumption DEF Commit, Store!Record, Store!PositionOf

\* Whatever a handler is asked to commit is covered: what it was asked for, and
\* what the others have under way.
LEMMA AdmitPath ==
    ASSUME PathInv, NEW w \in Threads, NEW e \in Commit, Covered(e.key, e.value),
           Store!Admit(w, e), UNCHANGED <<start, printed, positions, task>>
    PROVE  PathInv'
<1>1. /\ stage' = [stage EXCEPT ![w] = "admitted"]
      /\ op' = [op EXCEPT ![w] = e]
      /\ UNCHANGED <<log, committed>>
  BY DEF Store!Admit, Store!partition
<1>2. /\ stage' \in [Threads -> {"idle", "admitted", "appended"}]
      /\ op' \in [Threads -> Commit \cup {NoOp}]
      /\ op'[w] = e
      /\ \A v \in Threads : v # w => stage'[v] = stage[v] /\ op'[v] = op[v]
  BY <1>1 DEF PathInv, PathTypes
<1>3. PathTypes'
  BY <1>1, <1>2 DEF PathInv, PathTypes
<1>4. TasksAreReal' /\ PositionsCovered'
  BY DEF PathInv, TasksAreReal, PositionsCovered, Covered
<1>5. StoreCovered'
  <2>1. \A v \in Threads : stage'[v] # "idle" =>
            op'[v] \in Commit /\ Covered(op[v].key, op[v].value)'
    BY <1>2 DEF PathInv, StoreCovered, Covered
  <2> QED
    BY <1>1, <2>1 DEF PathInv, StoreCovered, Covered
<1> QED
  BY <1>3, <1>4, <1>5 DEF PathInv

\* What a consumer commits is the position it knows.
LEMMA CommitArrivesPath ==
    ASSUME PathInv, NEW c \in Consumers, CommitArrives(c)
    PROVE  PathInv'
<1> DEFINE e == [key |-> task[c].tp, value |-> positions[c][task[c].tp]]
<1>1. task[c] # Nothing /\ UNCHANGED <<start, printed>>
  BY DEF CommitArrives
<1>2. \/ Store!Admit(c, e) /\ UNCHANGED loopvars
      \/ Ends(c) /\ UNCHANGED svars
  BY DEF CommitArrives
<1>3. e \in Commit /\ Covered(e.key, e.value)
  <2>1. task[c].tp \in Tps /\ positions[c][task[c].tp] # Unknown
    BY <1>1 DEF PathInv, PathTypes, TasksAreReal, Fetches, Commits
  <2>2. positions[c][task[c].tp] \in 0..Records
    BY <2>1 DEF PathInv, PathTypes
  <2>3. Covered(task[c].tp, positions[c][task[c].tp])
    BY <2>1 DEF PathInv, PositionsCovered
  <2> QED
    BY <2>1, <2>2, <2>3 DEF Commit
<1> HIDE DEF e
<1>4. CASE Store!Admit(c, e) /\ UNCHANGED loopvars
  <2>1. c \in Threads /\ UNCHANGED <<start, printed, positions, task>>
    BY <1>1, <1>4 DEF Threads, loopvars
  <2> QED
    BY <1>3, <1>4, <2>1, AdmitPath
<1>5. CASE Ends(c) /\ UNCHANGED svars
  BY <1>1, <1>5, EndsPath
<1> QED
  BY <1>2, <1>4, <1>5

\* A standalone client commits what is dealt with.
LEMMA StandalonePath ==
    ASSUME PathInv, NEW s \in Solos, NEW tp \in Tps, NEW p \in Rewinds, StandaloneCommits(s, tp, p)
    PROVE  PathInv'
<1> DEFINE e == [key |-> tp, value |-> p]
<1>1. Covered(tp, p) /\ Store!Admit(s, e) /\ UNCHANGED <<start, printed, positions, task>>
  BY DEF StandaloneCommits, loopvars
<1>2. e \in Commit /\ e.key = tp /\ e.value = p /\ s \in Threads
  BY OffsetCommitAssumption DEF Commit, Threads
<1> HIDE DEF e
<1> QED
  BY <1>1, <1>2, AdmitPath

\* The append writes what the commit under way is about.
LEMMA CommitAppendsPath ==
    ASSUME PathInv, NEW w \in Threads, CommitAppends(w)
    PROVE  PathInv'
<1>1. /\ stage[w] = "admitted"
      /\ log' = Append(log, op[w])
      /\ stage' = [stage EXCEPT ![w] = "appended"]
      /\ UNCHANGED <<committed, op, start, printed, positions, task>>
  BY DEF CommitAppends, Store!AppendRecord, loopvars
<1>2. op[w] \in Commit /\ Covered(op[w].key, op[w].value)
  BY <1>1 DEF PathInv, StoreCovered
<1>3. PathTypes'
  BY <1>1, <1>2 DEF PathInv, PathTypes
<1>4. TasksAreReal' /\ PositionsCovered'
  BY <1>1 DEF PathInv, TasksAreReal, PositionsCovered, Covered
<1>5. \A i \in DOMAIN log' : Covered(log'[i].key, log'[i].value)
  <2>1. log \in Seq(Commit)
    BY DEF PathInv, PathTypes
  <2>2. /\ \A i \in 1..Len(log) : log'[i] = log[i]
        /\ log'[Len(log) + 1] = op[w]
        /\ DOMAIN log' = 1..(Len(log) + 1)
        /\ DOMAIN log = 1..Len(log) /\ Len(log) \in Nat
    BY <1>1, <1>2, <2>1
  <2>3. \A i \in 1..Len(log) : Covered(log[i].key, log[i].value)
    BY <2>2 DEF PathInv, StoreCovered
  <2>4. \A i \in 1..(Len(log) + 1) : i \in 1..Len(log) \/ i = Len(log) + 1
    BY <2>2
  <2> QED
    BY <1>2, <2>2, <2>3, <2>4
<1>6. StoreCovered'
  <2>1. \A v \in Threads : stage'[v] # "idle" => op[v] \in Commit /\ Covered(op[v].key, op[v].value)
    <3>1. \A v \in Threads : stage'[v] # "idle" => stage[v] # "idle"
      BY <1>1 DEF PathInv, PathTypes
    <3> QED
      BY <3>1 DEF PathInv, StoreCovered
  <2>2. \A tp \in Tps : committed[tp] # NoPosition => Covered(tp, committed[tp])
    BY DEF PathInv, StoreCovered
  <2> QED
    BY <1>1, <1>5, <2>1, <2>2 DEF StoreCovered, Covered
<1> QED
  BY <1>3, <1>4, <1>6 DEF PathInv

\* The map is given what the commit wrote.
LEMMA PublishPath ==
    ASSUME PathInv, NEW w \in Threads, Store!Publish(w), UNCHANGED <<start, printed>>
    PROVE  StoreCovered' /\ start' = start /\ printed' = printed
           /\ log' \in Seq(Commit) /\ committed' \in [Tps -> 0..Records \cup {NoPosition}]
           /\ stage' \in [Threads -> {"idle", "admitted", "appended"}]
           /\ op' \in [Threads -> Commit \cup {NoOp}]
<1>1. /\ stage[w] = "appended"
      /\ committed' = Store!Apply(committed, op[w])
      /\ stage' = [stage EXCEPT ![w] = "idle"]
      /\ op' = [op EXCEPT ![w] = NoOp]
      /\ log' = log
  BY DEF Store!Publish, Store!partition
<1>2. op[w] \in Commit /\ Covered(op[w].key, op[w].value)
  BY <1>1 DEF PathInv, StoreCovered
<1>3. committed' = [committed EXCEPT ![op[w].key] = op[w].value]
  BY <1>1, <1>2, CommitIsRecord DEF Store!Apply
<1>4. op[w].key \in Tps /\ op[w].value \in 0..Records
  BY <1>2 DEF Commit
<1>5. /\ committed' \in [Tps -> 0..Records \cup {NoPosition}]
      /\ \A tp \in Tps : committed'[tp] = IF tp = op[w].key THEN op[w].value ELSE committed[tp]
  BY <1>3, <1>4 DEF PathInv, PathTypes
<1>6. /\ stage' \in [Threads -> {"idle", "admitted", "appended"}]
      /\ op' \in [Threads -> Commit \cup {NoOp}]
      /\ \A v \in Threads : stage'[v] # "idle" => stage[v] # "idle" /\ op'[v] = op[v]
  BY <1>1 DEF PathInv, PathTypes
<1>7. StoreCovered'
  <2>1. \A i \in DOMAIN log : Covered(log[i].key, log[i].value)
    BY DEF PathInv, StoreCovered
  <2>2. \A tp \in Tps : committed'[tp] # NoPosition => Covered(tp, committed'[tp])
    BY <1>2, <1>5 DEF PathInv, StoreCovered
  <2>3. \A v \in Threads : stage'[v] # "idle" => op'[v] \in Commit /\ Covered(op'[v].key, op'[v].value)
    BY <1>6 DEF PathInv, StoreCovered
  <2> QED
    BY <1>1, <2>1, <2>2, <2>3 DEF StoreCovered, Covered
<1> QED
  BY <1>1, <1>5, <1>6, <1>7 DEF PathInv, PathTypes

\* An append that fails leaves nothing behind.
LEMMA AppendFailsPath ==
    ASSUME PathInv, NEW w \in Threads, Store!AppendFails(w), UNCHANGED <<start, printed>>
    PROVE  StoreCovered' /\ start' = start /\ printed' = printed
           /\ log' \in Seq(Commit) /\ committed' \in [Tps -> 0..Records \cup {NoPosition}]
           /\ stage' \in [Threads -> {"idle", "admitted", "appended"}]
           /\ op' \in [Threads -> Commit \cup {NoOp}]
<1>1. /\ stage' = [stage EXCEPT ![w] = "idle"]
      /\ op' = [op EXCEPT ![w] = NoOp]
      /\ UNCHANGED <<log, committed>>
  BY DEF Store!AppendFails, Store!partition
<1>2. /\ stage' \in [Threads -> {"idle", "admitted", "appended"}]
      /\ op' \in [Threads -> Commit \cup {NoOp}]
      /\ \A v \in Threads : stage'[v] # "idle" => stage[v] # "idle" /\ op'[v] = op[v]
  BY <1>1 DEF PathInv, PathTypes
<1>3. \A v \in Threads : stage'[v] # "idle" => op'[v] \in Commit /\ Covered(op'[v].key, op'[v].value)
  BY <1>2 DEF PathInv, StoreCovered
<1>4. StoreCovered'
  BY <1>1, <1>3 DEF PathInv, StoreCovered, Covered
<1> QED
  BY <1>1, <1>2, <1>4 DEF PathInv, PathTypes

\* The handler has finished, and the client, if it lives, with its partition.
LEMMA CommitDonePath ==
    ASSUME PathInv, NEW c \in Consumers, CommitAnswered(c) \/ CommitFails(c)
    PROVE  PathInv'
<1>1. UNCHANGED <<start, printed>> /\ c \in Threads
  BY DEF CommitAnswered, CommitFails, Threads
<1>2. Store!Publish(c) \/ Store!AppendFails(c)
  BY DEF CommitAnswered, CommitFails
<1>3. StoreCovered' /\ log' \in Seq(Commit) /\ committed' \in [Tps -> 0..Records \cup {NoPosition}]
      /\ stage' \in [Threads -> {"idle", "admitted", "appended"}]
      /\ op' \in [Threads -> Commit \cup {NoOp}]
  BY <1>1, <1>2, PublishPath, AppendFailsPath
<1>4. /\ positions' = [positions EXCEPT ![c] = AllUnknown] \/ positions' = positions
      /\ task' = [task EXCEPT ![c] = Nothing] \/ task' = task
  BY DEF CommitAnswered, CommitFails, Ends, EndPartition, loopvars
<1>5. /\ positions' \in [Consumers -> [Tps -> 0..Records \cup {Unknown}]]
      /\ task' \in [Consumers -> Fetches \cup Commits \cup {Nothing}]
      /\ TasksAreReal' /\ PositionsCovered'
  <2>1. CASE task' = [task EXCEPT ![c] = Nothing]
    BY <1>1, <1>4, <2>1, LoopOver
  <2>2. CASE positions' = positions /\ task' = task
    <3>1. PositionsCovered'
      BY <1>1, <2>2 DEF PathInv, PositionsCovered, Covered
    <3>2. TasksAreReal'
      BY <1>1, <2>2 DEF PathInv, TasksAreReal
    <3> QED
      BY <2>2, <3>1, <3>2 DEF PathInv, PathTypes
  <2> QED
    BY <1>4, <2>1, <2>2 DEF CommitAnswered, CommitFails, Ends, EndPartition, loopvars
<1>6. PathTypes'
  BY <1>1, <1>3, <1>5 DEF PathInv, PathTypes
<1> QED
  BY <1>3, <1>5, <1>6 DEF PathInv

\* A standalone client has no loop.
LEMMA StandaloneAnsweredPath ==
    ASSUME PathInv, NEW s \in Solos, StandaloneAnswered(s)
    PROVE  PathInv'
<1>1. UNCHANGED <<start, printed, positions, task>> /\ s \in Threads
  BY DEF StandaloneAnswered, loopvars, Threads
<1>2. Store!Publish(s) \/ Store!AppendFails(s)
  BY DEF StandaloneAnswered
<1>3. StoreCovered' /\ log' \in Seq(Commit) /\ committed' \in [Tps -> 0..Records \cup {NoPosition}]
      /\ stage' \in [Threads -> {"idle", "admitted", "appended"}]
      /\ op' \in [Threads -> Commit \cup {NoOp}]
  BY <1>1, <1>2, PublishPath, AppendFailsPath
<1>4. PositionsCovered' /\ TasksAreReal'
  BY <1>1 DEF PathInv, PositionsCovered, TasksAreReal, Covered
<1>5. PathTypes'
  BY <1>1, <1>3 DEF PathInv, PathTypes
<1> QED
  BY <1>3, <1>4, <1>5 DEF PathInv

\* The first state.
LEMMA PathInit ==
    ASSUME OCInit
    PROVE  PathInv
<1>1. log = <<>> /\ DOMAIN log = {}
  BY DEF OCInit, Store!Init
<1>2. /\ committed = [tp \in Tps |-> NoPosition]
      /\ stage = [w \in Threads |-> "idle"]
      /\ op = [w \in Threads |-> NoOp]
  BY DEF OCInit, Store!Init, Store!NoPositions
<1>3. /\ start = [tp \in Tps |-> 0] /\ printed = [tp \in Tps |-> {}]
      /\ positions = [c \in Consumers |-> [tp \in Tps |-> Unknown]]
      /\ task = [c \in Consumers |-> Nothing]
  BY DEF OCInit, AllUnknown
<1>4. 0 \in 0..Records
  BY OffsetCommitAssumption
<1>5. PathTypes
  BY <1>1, <1>2, <1>3, <1>4 DEF PathTypes
<1>6. TasksAreReal /\ PositionsCovered /\ StoreCovered
  BY <1>1, <1>2, <1>3 DEF TasksAreReal, PositionsCovered, StoreCovered
<1> QED
  BY <1>5, <1>6 DEF PathInv

\* Every step.
LEMMA PathNext ==
    ASSUME PathInv, [OCNext]_ovars
    PROVE  PathInv'
<1>1. ASSUME NEW c \in Consumers, Dies(c) PROVE PathInv'
  BY <1>1, EndsPath DEF Dies
<1>2. ASSUME NEW c \in Consumers,
             \/ GroupCall(c)
             \/ \E tp \in Tps : LoadPosition(c, tp) \/ FetchArrives(c, tp)
             \/ FetchAnswered(c)
             \/ FetchAnsweredOutOfRange(c)
             \/ CommitArrives(c)
             \/ CommitAnswered(c)
             \/ CommitFails(c)
      PROVE  PathInv'
  BY <1>2, GroupCallPath, LoadPositionPath, FetchArrivesPath, FetchAnsweredPath,
     FetchOutOfRangePath, CommitArrivesPath, CommitDonePath
<1>3. ASSUME NEW s \in Solos,
             \/ \E tp \in Tps, p \in Rewinds : StandaloneCommits(s, tp, p)
             \/ StandaloneAnswered(s)
      PROVE  PathInv'
  BY <1>3, StandalonePath, StandaloneAnsweredPath
<1>4. ASSUME NEW w \in Threads, CommitAppends(w) PROVE PathInv'
  BY <1>4, CommitAppendsPath
<1>5. ASSUME NEW tp \in Tps, Retain(tp) PROVE PathInv'
  BY <1>5, RetainPath
<1>6. CASE TimePasses \/ SweepRuns
  BY <1>6, Elsewhere DEF TimePasses, SweepRuns, loopvars
<1>7. CASE UNCHANGED ovars
  BY <1>7, Elsewhere DEF ovars, svars, loopvars
<1> QED
  BY <1>1, <1>2, <1>3, <1>4, <1>5, <1>6, <1>7 DEF OCNext

\* At least once: every record in front of any commit in the topic was printed
\* by some consumer or deleted by retention, whichever members crashed, were
\* expired or committed late, were thrown back to an old log start, or shared
\* the group's name with clients that are no members.
THEOREM PrintedBeforeCommitted == OCSpec => []AtLeastOnce
<1>1. PathInv => AtLeastOnce
  BY DEF PathInv, StoreCovered, AtLeastOnce
<1>2. OCInit => PathInv
  BY PathInit
<1>3. PathInv /\ [OCNext]_ovars => PathInv'
  BY PathNext
<1> QED
  BY <1>1, <1>2, <1>3, PTL DEF OCSpec

\* The commit path uses the offset store as the store is meant to be used:
\* every step of the composition is a step of the store, or none of its
\* business, so what OffsetStore promises whoever commits holds here.
THEOREM CommitsThroughStore == OCSpec => Store!Spec
<1>1. OCInit => PathInv
  BY PathInit
<1>2. PathInv /\ [OCNext]_ovars => PathInv'
  BY PathNext
<1>3. OCInit => Store!Init
  BY DEF OCInit
<1>4. ASSUME PathInv, [OCNext]_ovars PROVE [Store!Next]_(Store!vars)
  <2>1. UNCHANGED svars => UNCHANGED Store!vars
    BY DEF svars, Store!vars, Store!partition
  <2>2. ASSUME NEW c \in Consumers,
               \/ GroupCall(c)
               \/ \E tp \in Tps : LoadPosition(c, tp) \/ FetchArrives(c, tp)
               \/ FetchAnswered(c)
               \/ FetchAnsweredOutOfRange(c)
               \/ Dies(c)
        PROVE  UNCHANGED svars
    BY <2>2 DEF GroupCall, LoadPosition, FetchArrives, FetchAnswered,
                FetchAnsweredOutOfRange, Dies
  <2>3. ASSUME NEW c \in Consumers, CommitArrives(c) PROVE UNCHANGED svars \/ Store!Next
    <3> DEFINE e == [key |-> task[c].tp, value |-> positions[c][task[c].tp]]
    <3>1. task[c].tp \in Tps /\ positions[c][task[c].tp] # Unknown
      BY <1>4, <2>3 DEF CommitArrives, PathInv, PathTypes, TasksAreReal, Fetches, Commits
    <3>2. e \in Commit
      BY <1>4, <3>1 DEF PathInv, PathTypes, Commit
    <3>3. e \in Store!Record /\ c \in Threads
      BY <3>2, CommitIsRecord DEF Threads
    <3>4. UNCHANGED svars \/ Store!Admit(c, e)
      BY <2>3 DEF CommitArrives
    <3> HIDE DEF e
    <3> QED
      BY <3>3, <3>4 DEF Store!Next
  <2>4. ASSUME NEW s \in Solos, NEW tp \in Tps, NEW p \in Rewinds, StandaloneCommits(s, tp, p)
        PROVE  Store!Next
    <3> DEFINE e == [key |-> tp, value |-> p]
    <3>1. Store!Admit(s, e)
      BY <2>4 DEF StandaloneCommits
    <3>2. e \in Commit
      BY OffsetCommitAssumption DEF Commit
    <3>3. e \in Store!Record /\ s \in Threads
      BY <3>2, CommitIsRecord DEF Threads
    <3> HIDE DEF e
    <3> QED
      BY <3>1, <3>3 DEF Store!Next
  <2>5. ASSUME NEW w \in Threads, CommitAppends(w) PROVE Store!Next
    BY <2>5 DEF CommitAppends, Store!Next
  <2>6. ASSUME NEW c \in Consumers, CommitAnswered(c) \/ CommitFails(c) PROVE Store!Next
    <3>1. c \in Threads
      BY DEF Threads
    <3> QED
      BY <2>6, <3>1 DEF CommitAnswered, CommitFails, Store!Next
  <2>7. ASSUME NEW s \in Solos, StandaloneAnswered(s) PROVE Store!Next
    <3>1. s \in Threads
      BY DEF Threads
    <3> QED
      BY <2>7, <3>1 DEF StandaloneAnswered, Store!Next
  <2>8. ASSUME NEW tp \in Tps, Retain(tp) PROVE UNCHANGED svars
    BY <2>8 DEF Retain
  <2>9. CASE TimePasses \/ SweepRuns \/ UNCHANGED ovars
    BY <2>9, <2>1 DEF TimePasses, SweepRuns, ovars
  <2> QED
    BY <1>4, <2>1, <2>2, <2>3, <2>4, <2>5, <2>6, <2>7, <2>8, <2>9 DEF OCNext
<1> QED
  BY <1>1, <1>2, <1>3, <1>4, PTL DEF OCSpec, Store!Spec
=============================================================================
