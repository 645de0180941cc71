--------------------------- MODULE ShardCfgProofs ---------------------------
(***************************************************************************)
(* Proofs about ShardCfg, for any number of shards and any groups and      *)
(* servers: the result of every join and leave is balanced, no shard moves *)
(* that need not, Rebalance ends, and no server is in two groups.          *)
(***************************************************************************)
EXTENDS ShardCfg, FiniteSetTheorems, TLAPS

\* Zenon proves the steps that name no other prover.
USE ZenonT(30)

\* Every shard is with a group or with none, and the loops are where they can be.
Types ==
    /\ Shards \in [Shard -> Gid \cup {0}]
    /\ Member \subseteq Gid
    /\ next \in Nat
    /\ pc \in {"idle", "assign", "move", "fatal"}
    /\ pc = "assign" => next < NShards

(***************************************************************************)
(* Rebalance runs only with groups.  Its first loop leaves behind it only  *)
(* shards with a member, and its second has nothing but such shards.       *)
(***************************************************************************)
Assigned ==
    /\ pc \in {"assign", "move"} => Member # {}
    /\ pc = "assign" => \A s \in Shard : s < next => Shards[s] \in Member
    /\ pc = "move" => \A s \in Shard : Shards[s] \in Member

Inv == Types /\ Assigned /\ CheckConfig

-----------------------------------------------------------------------------

\* A count of shards is a number.
LEMMA CountType == \A g : Count(g) \in Nat
  <1> TAKE g
  <1>1. IsFiniteSet(Shard)
    BY FS_Interval, ShardCfgAssumption, SMTT(60) DEF Shard
  <1>2. IsFiniteSet({s \in Shard : Shards[s] = g})
    BY <1>1, FS_Subset
  <1>3. QED
    BY <1>2, FS_CardinalityType DEF Count

\* MakeShardConfig satisfies the invariant.
LEMMA InvInit == Init => Inv
  <1> SUFFICES ASSUME Init PROVE Inv
    OBVIOUS
  <1>1. Member = {}
    BY DEF Init, Member
  <1>2. QED
    BY <1>1 DEF Init, Inv, Types, Assigned, CheckConfig, Valid

\* What Join and Leave have in common: Groups and Num change, then Rebalance starts.
LEMMA RebalanceInv ==
    ASSUME Types, Member' \subseteq Gid, Rebalance
    PROVE  Inv'
  <1>1. Types'
    BY ShardCfgAssumption, SMTT(60) DEF Types, Rebalance, Member
  <1>2. Assigned'
    <2>1. \A s \in Shard : ~(s < 0)
      BY SMTT(60) DEF Shard
    <2>2. QED
      BY <2>1 DEF Assigned, Rebalance, Member
  <1>3. CheckConfig'
    BY DEF Rebalance, CheckConfig, Valid, Member
  <1>4. QED
    BY <1>1, <1>2, <1>3 DEF Inv

\* A turn of the first loop of Rebalance keeps the invariant.
LEMMA AssignInv ==
    ASSUME Inv, Assign
    PROVE  Inv'
  <1>0. Types /\ Assigned /\ pc = "assign" /\ UNCHANGED Groups /\ next' = next + 1
    BY DEF Inv, Assign
  <1>1. next \in Shard /\ next \in Nat /\ NShards \in Nat
    BY <1>0, ShardCfgAssumption, SMTT(60) DEF Types, Shard
  <1>2. /\ Shards' \in [Shard -> Gid \cup {0}] /\ Shards'[next] \in Member
        /\ \A s \in Shard : s # next => Shards'[s] = Shards[s]
    <2>1. CASE Shards[next] \in Member /\ UNCHANGED Shards
      BY <1>0, <2>1 DEF Types
    <2>2. CASE \E lg \in Member : Shards' = [Shards EXCEPT ![next] = lg]
      BY <1>0, <1>1, <2>2 DEF Types
    <2>3. QED
      BY <2>1, <2>2 DEF Assign
  <1>3. \A s \in Shard : s < next + 1 => Shards'[s] \in Member
    <2>1. ASSUME NEW s \in Shard, s < next + 1, s # next PROVE Shards'[s] \in Member
      <3>1. s < next
        BY <1>1, <2>1, SMTT(60) DEF Shard
      <3>2. QED
        BY <1>0, <1>2, <2>1, <3>1 DEF Assigned
    <2>2. QED
      BY <1>2, <2>1
  <1>4. pc' = IF next + 1 = NShards THEN "move" ELSE "assign"
    BY <1>0 DEF Assign
  <1>5. Types'
    <2>1. pc' = "assign" => next + 1 < NShards
      BY <1>0, <1>1, <1>4, SMTT(60) DEF Types
    <2>2. QED
      BY <1>0, <1>1, <1>2, <1>4, <2>1, SMTT(60) DEF Types, Member
  <1>6. Assigned'
    <2>1. next + 1 = NShards => \A s \in Shard : s < next + 1
      BY <1>1, SMTT(60) DEF Shard
    <2>2. QED
      BY <1>0, <1>3, <1>4, <2>1 DEF Assigned, Member
  <1>7. CheckConfig'
    BY <1>4 DEF CheckConfig
  <1>8. QED
    BY <1>5, <1>6, <1>7 DEF Inv

\* A turn of the second loop of Rebalance keeps the invariant.
LEMMA MoveInv ==
    ASSUME Inv, Move
    PROVE  Inv'
  <1>0. Types /\ Assigned /\ pc = "move" /\ UNCHANGED <<Groups, next>>
    BY DEF Inv, Move
  <1>1. PICK mg, lg \in Member :
          /\ IsMost(mg) /\ IsLeast(lg)
          /\ \/ Even(mg, lg) /\ pc' = "idle" /\ UNCHANGED Shards
             \/ \E s \in Shard : Shards' = [Shards EXCEPT ![s] = lg] /\ UNCHANGED pc
    BY DEF Move
  <1>2. /\ Shards' \in [Shard -> Gid \cup {0}]
        /\ \A s \in Shard : Shards'[s] \in Member
    BY <1>0, <1>1 DEF Types, Assigned
  <1>3. Types'
    BY <1>0, <1>1, <1>2 DEF Types, Member
  <1>4. Assigned'
    BY <1>0, <1>1, <1>2 DEF Assigned, Member
  <1>5. CheckConfig'
    <2>1. CASE Even(mg, lg) /\ pc' = "idle" /\ UNCHANGED Shards
      <3>1. ASSUME NEW g \in Member, NEW h \in Member
            PROVE  Count(g) <= Count(h) + 1
        <4>1. Count(mg) < Count(lg) + 2
          BY <2>1 DEF Even
        <4>2. Count(mg) > Count(g) \/ Count(mg) = Count(g)
          BY <1>1, <3>1 DEF IsMost
        <4>3. Count(lg) < Count(h) \/ Count(lg) = Count(h)
          BY <1>1, <3>1 DEF IsLeast
        <4>4. QED
          BY <4>1, <4>2, <4>3, CountType, SMTT(60)
      <3>2. \A g : Count(g)' = Count(g)
        BY <2>1 DEF Count
      <3>3. QED
        BY <1>0, <1>2, <3>1, <3>2 DEF CheckConfig, Valid, Member
    <2>2. CASE UNCHANGED pc
      BY <1>0, <2>2 DEF CheckConfig
    <2>3. QED
      BY <1>1, <2>1, <2>2
  <1>6. QED
    BY <1>3, <1>4, <1>5 DEF Inv

\* Every reachable state satisfies the invariant.
LEMMA InvAlways == Spec => []Inv
  <1>1. Inv /\ [Next]_vars => Inv'
    <2> SUFFICES ASSUME Inv, [Next]_vars PROVE Inv'
      OBVIOUS
    <2>0. Types
      BY DEF Inv
    <2>1. CASE \E S \in SUBSET Gid : \E srv \in [S -> SUBSET Server] : JoinBalance(S, srv)
      <3>1. Member' \subseteq Gid /\ Rebalance
        BY <2>0, <2>1 DEF JoinBalance, Member, Types
      <3>2. QED
        BY <2>0, <3>1, RebalanceInv
    <2>2. CASE \E S \in SUBSET Gid : LeaveBalance(S)
      <3>1. Member' \subseteq Gid /\ Rebalance
        BY <2>0, <2>2 DEF LeaveBalance, Member, Types
      <3>2. QED
        BY <2>0, <3>1, RebalanceInv
    <2>3. CASE Fatal
      BY <2>3 DEF Fatal, Inv, Types, Assigned, CheckConfig, Member
    <2>4. CASE UNCHANGED vars
      BY <2>4, SMTT(60) DEF vars, Inv, Types, Assigned, CheckConfig, Valid, Count, Member
    <2>5. QED
      BY <2>1, <2>2, <2>3, <2>4, AssignInv, MoveInv DEF Next
  <1>2. QED
    BY <1>1, InvInit, PTL DEF Spec

-----------------------------------------------------------------------------

\* The result of JoinBalance and LeaveBalance passes CheckConfig: every shard is with a group
\* of the configuration, and no group has two shards more than another (shardcfg.go:242-269).
THEOREM AlwaysBalanced == Spec => []CheckConfig
  <1>1. Inv => CheckConfig
    BY DEF Inv
  <1>2. QED
    BY <1>1, InvAlways, PTL

\* Join keeps each server in one group, over any sequence of joins and leaves
\* (shardcfg.go:163-171).
THEOREM OneGroupPerServer == Spec => []ServersOfOneGroup
  <1>1. Init => ServersOfOneGroup
    BY DEF Init, ServersOfOneGroup, Member
  <1>2. ServersOfOneGroup /\ [Next]_vars => ServersOfOneGroup'
    <2> SUFFICES ASSUME ServersOfOneGroup, [Next]_vars PROVE ServersOfOneGroup'
      OBVIOUS
    <2>1. CASE \E S \in SUBSET Gid : \E srv \in [S -> SUBSET Server] : JoinBalance(S, srv)
      <3>1. PICK S \in SUBSET Gid : \E srv \in [S -> SUBSET Server] : JoinBalance(S, srv)
        BY <2>1
      <3>2. PICK srv \in [S -> SUBSET Server] : JoinBalance(S, srv)
        BY <3>1
      <3>3. /\ JoinAllowed(S, srv)
            /\ Groups' = [g \in Member \cup S |-> IF g \in S THEN srv[g] ELSE Groups[g]]
        BY <3>2 DEF JoinBalance
      <3>4. ASSUME NEW g \in Member \cup S, NEW h \in Member \cup S, g # h
            PROVE  Groups'[g] \cap Groups'[h] = {}
        <4>1. CASE g \in S /\ h \in S
          BY <3>3, <3>4, <4>1 DEF JoinAllowed
        <4>2. CASE g \in S /\ h \notin S
          BY <3>3, <3>4, <4>2 DEF JoinAllowed
        <4>3. CASE g \notin S /\ h \in S
          BY <3>3, <3>4, <4>3 DEF JoinAllowed
        <4>4. CASE g \notin S /\ h \notin S
          BY <3>3, <3>4, <4>4 DEF ServersOfOneGroup
        <4>5. QED
          BY <4>1, <4>2, <4>3, <4>4
      <3>5. Member' = Member \cup S
        BY <3>3 DEF Member
      <3>6. QED
        BY <3>4, <3>5 DEF ServersOfOneGroup
    <2>2. CASE \E S \in SUBSET Gid : LeaveBalance(S)
      BY <2>2 DEF LeaveBalance, ServersOfOneGroup, Member
    <2>3. CASE UNCHANGED Groups
      BY <2>3 DEF ServersOfOneGroup, Member
    <2>4. QED
      BY <2>1, <2>2, <2>3 DEF Next, Fatal, Assign, Move, vars
  <1>3. QED
    BY <1>1, <1>2, PTL DEF Spec

-----------------------------------------------------------------------------

(***************************************************************************)
(* Why no shard moves without need.  While Rebalance runs, a group can     *)
(* exceed another by two shards only if it is an old group and the other   *)
(* has just joined: the groups were balanced before, and both loops give   *)
(* shards to the group with the fewest.                                    *)
(***************************************************************************)
Gap == \A g, h \in Member :
          Count(g) <= Count(h) + 1 \/ (g \in before.groups /\ h \notin before.groups)

\* A shard that is still without a member is where it was; one that is elsewhere had reason.
Reason ==
    \A s \in Shard :
        /\ Shards[s] \notin Member => Shards[s] = before.shards[s]
        /\ \/ Shards[s] = before.shards[s]
           \/ before.shards[s] \notin Member
           \/ Shards[s] \notin before.groups

Needed ==
    /\ pc \in {"assign", "move"} => Gap /\ Reason
    /\ pc = "idle" /\ Member = {} => \A s \in Shard : Shards[s] = 0
    /\ MovesAreNeeded

\* Count, of any assignment f of shards to groups.
Owned(f, g) == Cardinality({r \in Shard : f[r] = g})

\* e has one shard more with g than f has, and one less with m.
Shifted(f, e, m, g) ==
    \A h : Owned(e, h) = IF h = g THEN Owned(f, h) + 1
                         ELSE IF h = m THEN Owned(f, h) - 1 ELSE Owned(f, h)

\* Giving a shard to another group takes it from one count and adds it to the other.
LEMMA CountChange ==
    ASSUME NEW f, NEW e, NEW s \in Shard, NEW g, e[s] = g, f[s] # g,
           \A r \in Shard : r # s => e[r] = f[r]
    PROVE  Shifted(f, e, f[s], g)
  <1> SUFFICES ASSUME NEW h
               PROVE  Owned(e, h) = IF h = g THEN Owned(f, h) + 1
                                    ELSE IF h = f[s] THEN Owned(f, h) - 1 ELSE Owned(f, h)
    BY DEF Shifted
  <1> DEFINE F == {r \in Shard : f[r] = h}
             E == {r \in Shard : e[r] = h}
  <1>0. Owned(f, h) = Cardinality(F) /\ Owned(e, h) = Cardinality(E)
    BY DEF Owned
  <1>1. IsFiniteSet(Shard)
    BY FS_Interval, ShardCfgAssumption, SMTT(60) DEF Shard
  <1>2. IsFiniteSet(F) /\ Cardinality(F) \in Nat
    BY <1>1, FS_Subset, FS_CardinalityType
  <1>3. CASE h = g
    <2>1. E = F \cup {s} /\ s \notin F
      BY <1>3
    <2>2. QED
      BY <1>0, <1>2, <1>3, <2>1, FS_AddElement
  <1>4. CASE h # g /\ h = f[s]
    <2>1. E = F \ {s} /\ s \in F
      BY <1>4, SMTT(60)
    <2>2. QED
      BY <1>0, <1>2, <1>4, <2>1, FS_RemoveElement
  <1>5. CASE h # g /\ h # f[s]
    <2>1. E = F
      BY <1>5
    <2>2. QED
      BY <1>0, <1>5, <2>1
  <1>6. QED
    BY <1>3, <1>4, <1>5

\* The same for Shards, in a step that gives s to g.
LEMMA CountStep ==
    ASSUME Types, NEW s \in Shard, NEW g \in Member, Shards[s] # g,
           Shards' = [Shards EXCEPT ![s] = g]
    PROVE  \A h : Count(h)' = IF h = g THEN Count(h) + 1
                              ELSE IF h = Shards[s] THEN Count(h) - 1 ELSE Count(h)
  <1>1. Shards'[s] = g /\ \A r \in Shard : r # s => Shards'[r] = Shards[r]
    BY DEF Types
  <1>2. \A h : Count(h) = Owned(Shards, h) /\ Count(h)' = Owned(Shards', h)
    BY DEF Count, Owned
  <1>3. Shifted(Shards, Shards', Shards[s], g)
    BY <1>1, CountChange
  <1>4. QED
    BY <1>2, <1>3 DEF Shifted

\* Nothing has moved at first.
LEMMA NeededInit == Init => Needed
  BY DEF Init, Needed, MovesAreNeeded, Member

\* JoinBalance begins with a configuration from which nothing has moved.
LEMMA JoinNeeded ==
    ASSUME Inv, Needed, NEW S \in SUBSET Gid, NEW srv, JoinBalance(S, srv)
    PROVE  Needed'
  <1>1. /\ pc = "idle" /\ S # {} /\ S \cap Member = {} /\ Member' = Member \cup S
        /\ before' = [shards |-> Shards, groups |-> Member] /\ Rebalance
    BY DEF JoinBalance, JoinAllowed, Member
  <1>2. UNCHANGED Shards /\ pc' = "assign" /\ Member' # {}
    BY <1>1 DEF Rebalance, Member
  <1>3. ASSUME NEW g \in S PROVE Count(g) = 0
    <2>1. \A s \in Shard : Shards[s] # g
      BY <1>1, <1>3, ShardCfgAssumption DEF Inv, CheckConfig, Valid, Needed
    <2>2. {s \in Shard : Shards[s] = g} = {}
      BY <2>1
    <2>3. QED
      BY <2>2, FS_EmptySet DEF Count
  <1>4. \A g : Count(g)' = Count(g)
    BY <1>2 DEF Count
  <1>5. \A g, h \in Member : Count(g) <= Count(h) + 1
    BY <1>1 DEF Inv, CheckConfig, Valid
  <1>6. Gap'
    <2>1. ASSUME NEW g \in Member \cup S, NEW h \in Member \cup S
          PROVE  Count(g) <= Count(h) + 1 \/ (g \in Member /\ h \notin Member)
      <3>1. CASE g \in S
        BY <1>3, <3>1, CountType, SMTT(60)
      <3>2. CASE g \in Member /\ h \in Member
        BY <1>5, <3>2
      <3>3. CASE g \in Member /\ h \in S
        BY <1>1, <3>3
      <3>4. QED
        BY <3>1, <3>2, <3>3
    <2>2. before'.groups = Member
      BY <1>1
    <2>3. QED
      BY <1>1, <1>4, <2>1, <2>2 DEF Gap
  <1>7. Reason'
    <2>1. before'.shards = Shards
      BY <1>1
    <2>2. QED
      BY <1>2, <2>1 DEF Reason
  <1>8. pc' # "idle"
    BY <1>2
  <1>9. QED
    BY <1>6, <1>7, <1>8 DEF Needed, MovesAreNeeded

\* LeaveBalance takes shards only from the groups that leave.
LEMMA LeaveNeeded ==
    ASSUME Inv, Needed, NEW S \in SUBSET Gid, LeaveBalance(S)
    PROVE  Needed'
  <1>1. /\ pc = "idle" /\ Member' \subseteq Member
        /\ before' = [shards |-> Shards, groups |-> Member] /\ Rebalance
    BY DEF LeaveBalance, Member
  <1>2. CASE Member' = {}
    <2>1. \A s \in Shard : Shards'[s] = 0
      BY <1>1, <1>2 DEF Rebalance, Member
    <2>2. pc' = "idle"
      BY <1>1, <1>2 DEF Rebalance, Member
    <2>3. QED
      BY <1>2, <2>1, <2>2 DEF Needed, MovesAreNeeded
  <1>3. CASE Member' # {}
    <2>1. UNCHANGED Shards /\ pc' = "assign"
      BY <1>1, <1>3 DEF Rebalance, Member
    <2>2. \A g : Count(g)' = Count(g)
      BY <2>1 DEF Count
    <2>3. \A g, h \in Member : Count(g) <= Count(h) + 1
      BY <1>1 DEF Inv, CheckConfig, Valid
    <2>4. Gap' /\ Reason'
      BY <1>1, <2>1, <2>2, <2>3 DEF Gap, Reason
    <2>5. QED
      BY <2>1, <2>4 DEF Needed, MovesAreNeeded
  <1>4. QED
    BY <1>2, <1>3

\* The first loop of Rebalance assigns only shards that have no group.
LEMMA AssignNeeded ==
    ASSUME Inv, Needed, Assign
    PROVE  Needed'
  <1>0. /\ Types /\ Gap /\ Reason /\ UNCHANGED <<Groups, before>> /\ pc' \in {"assign", "move"}
        /\ next \in Shard
    BY ShardCfgAssumption, SMTT(60) DEF Inv, Types, Needed, Assign, Shard
  <1>1. UNCHANGED <<Member, before>>
    BY <1>0 DEF Member
  <1>2. Gap' /\ Reason'
    <2>1. CASE UNCHANGED Shards
      <3>1. \A g : Count(g)' = Count(g)
        BY <2>1 DEF Count
      <3>2. QED
        BY <1>0, <1>1, <2>1, <3>1 DEF Gap, Reason
    <2>2. CASE ~UNCHANGED Shards
      <3>1. PICK lg \in Member : /\ IsLeast(lg) /\ Shards[next] \notin Member
                                 /\ Shards' = [Shards EXCEPT ![next] = lg]
        BY <2>2 DEF Assign
      <3>2. \A h \in Member : Count(h)' = IF h = lg THEN Count(h) + 1 ELSE Count(h)
        <4>1. \A h : Count(h)' = IF h = lg THEN Count(h) + 1
                                ELSE IF h = Shards[next] THEN Count(h) - 1 ELSE Count(h)
          BY <1>0, <3>1, CountStep
        <4>2. QED
          BY <3>1, <4>1
      <3>3. \A h \in Member : Count(lg) <= Count(h)
        BY <3>1, CountType, SMTT(60) DEF IsLeast
      <3>4. ASSUME NEW g \in Member, NEW h \in Member
            PROVE  Count(g)' <= Count(h)' + 1 \/ (g \in before.groups /\ h \notin before.groups)
        <4>1. Count(g) <= Count(h) + 1 \/ (g \in before.groups /\ h \notin before.groups)
          BY <1>0 DEF Gap
        <4>2. Count(g) \in Nat /\ Count(h) \in Nat /\ Count(lg) <= Count(h)
          BY <3>3, CountType
        <4>3. QED
          BY <3>2, <4>1, <4>2, SMTT(60)
      <3>5. Gap'
        BY <1>1, <3>4 DEF Gap
      <3>6. Reason'
        BY <1>0, <1>1, <3>1 DEF Reason, Types
      <3>7. QED
        BY <3>5, <3>6
    <2>3. QED
      BY <2>1, <2>2
  <1>3. QED
    BY <1>0, <1>2 DEF Needed, MovesAreNeeded

\* The second loop moves a shard only from a group that has too many.
LEMMA MoveNeeded ==
    ASSUME Inv, Needed, Move
    PROVE  Needed'
  <1>0. Types /\ Assigned /\ Gap /\ Reason /\ pc = "move" /\ UNCHANGED <<Groups, before>>
    BY DEF Inv, Needed, Move
  <1>1. UNCHANGED <<Member, before>> /\ Member # {}
    BY <1>0 DEF Member, Assigned
  <1>2. PICK mg, lg \in Member :
          /\ IsMost(mg) /\ IsLeast(lg)
          /\ \/ pc' = "idle" /\ UNCHANGED Shards
             \/ /\ ~Even(mg, lg)
                /\ \E s \in Shard : Shards[s] = mg /\ Shards' = [Shards EXCEPT ![s] = lg]
                /\ UNCHANGED pc
    BY DEF Move
  <1>3. CASE pc' = "idle" /\ UNCHANGED Shards
    BY <1>0, <1>1, <1>3 DEF Needed, Reason, MovesAreNeeded
  <1>4. CASE /\ ~Even(mg, lg)
             /\ \E s \in Shard : Shards[s] = mg /\ Shards' = [Shards EXCEPT ![s] = lg]
             /\ UNCHANGED pc
    <2>1. PICK s \in Shard : Shards[s] = mg /\ Shards' = [Shards EXCEPT ![s] = lg]
      BY <1>4
    <2>2. Count(mg) >= Count(lg) + 2 /\ Count(mg) \in Nat /\ Count(lg) \in Nat
      BY <1>4, CountType, SMTT(60) DEF Even
    <2>3. mg \in before.groups /\ lg \notin before.groups /\ mg # lg
      BY <1>0, <2>2, SMTT(60) DEF Gap
    <2>4. \A h \in Member : Count(h)' = IF h = lg THEN Count(h) + 1
                                        ELSE IF h = mg THEN Count(h) - 1 ELSE Count(h)
      BY <1>0, <2>1, <2>3, CountStep
    <2>5. \A h \in Member : Count(h) <= Count(mg) /\ Count(lg) <= Count(h)
      BY <1>2, CountType, SMTT(60) DEF IsMost, IsLeast
    <2>6. ASSUME NEW g \in Member, NEW h \in Member
          PROVE  Count(g)' <= Count(h)' + 1 \/ (g \in before.groups /\ h \notin before.groups)
      <3>1. Count(g) <= Count(h) + 1 \/ (g \in before.groups /\ h \notin before.groups)
        BY <1>0 DEF Gap
      <3>2. /\ Count(g) \in Nat /\ Count(h) \in Nat
            /\ Count(g) <= Count(mg) /\ Count(lg) <= Count(h)
        BY <2>5, CountType
      <3>3. Count(g)' = IF g = lg THEN Count(g) + 1
                        ELSE IF g = mg THEN Count(g) - 1 ELSE Count(g)
        BY <2>4
      <3>4. Count(h)' = IF h = lg THEN Count(h) + 1
                        ELSE IF h = mg THEN Count(h) - 1 ELSE Count(h)
        BY <2>4
      <3>5. CASE g = lg
        BY <2>2, <2>3, <3>2, <3>3, <3>4, <3>5, SMTT(60)
      <3>6. CASE g # lg /\ h = mg
        BY <2>2, <2>3, <3>2, <3>3, <3>4, <3>6, SMTT(60)
      <3>7. CASE g # lg /\ h # mg
        BY <2>2, <2>3, <3>1, <3>2, <3>3, <3>4, <3>7, SMTT(60)
      <3>8. QED
        BY <3>5, <3>6, <3>7
    <2>7. Gap'
      BY <1>1, <2>6 DEF Gap
    <2>8. Reason'
      BY <1>0, <1>1, <2>1, <2>3 DEF Reason, Types
    <2>9. QED
      BY <1>0, <1>4, <2>7, <2>8 DEF Needed, MovesAreNeeded
  <1>5. QED
    BY <1>2, <1>3, <1>4

\* Every reachable state satisfies both.
LEMMA NeededAlways == Spec => [](Inv /\ Needed)
  <1>1. Inv /\ Needed /\ [Next]_vars => Needed'
    <2>1. ASSUME Needed, Fatal PROVE Needed'
      BY <2>1 DEF Fatal, Needed, MovesAreNeeded
    <2>2. ASSUME Needed, UNCHANGED vars PROVE Needed'
      BY <2>2, SMTT(60) DEF vars, Needed, MovesAreNeeded, Gap, Reason, Count, Member
    <2>3. QED
      BY <2>1, <2>2, JoinNeeded, LeaveNeeded, AssignNeeded, MoveNeeded DEF Next
  <1>2. QED
    BY <1>1, NeededInit, InvAlways, PTL DEF Spec

\* JoinBalance and LeaveBalance move a shard only from a group that has left or to one that
\* has joined (shardcfg.go:131-153).
THEOREM OnlyNeededMoves == Spec => []MovesAreNeeded
  <1>1. Needed => MovesAreNeeded
    BY DEF Needed
  <1>2. QED
    BY <1>1, NeededAlways, PTL

-----------------------------------------------------------------------------

(***************************************************************************)
(* Rebalance ends.  A turn of its second loop takes a shard from a group   *)
(* that was there before and gives it to one that has joined, so the       *)
(* shards with old groups bound the turns to come.                         *)
(***************************************************************************)
AtOld == {s \in Shard : Shards[s] \in before.groups}

TurnsLeft ==
    CASE pc = "assign" -> (NShards - next) + NShards + 1
      [] pc = "move" -> Cardinality(AtOld) + 1
      [] OTHER -> 0

\* The shards with old groups are at most all shards.
LEMMA AtOldType == Cardinality(AtOld) \in Nat /\ Cardinality(AtOld) <= NShards
  <1>1. IsFiniteSet(Shard) /\ Cardinality(Shard) = NShards
    <2>1. 0 \in Int /\ NShards - 1 \in Int /\ NShards \in Nat \ {0}
      BY ShardCfgAssumption, SMTT(60)
    <2>2. IsFiniteSet(0 .. NShards - 1) /\ Cardinality(0 .. NShards - 1) = NShards
      BY <2>1, FS_Interval, SMTT(60)
    <2>3. QED
      BY <2>2 DEF Shard
  <1>2. AtOld \subseteq Shard
    BY DEF AtOld
  <1>3. Cardinality(AtOld) <= Cardinality(Shard) /\ IsFiniteSet(AtOld)
    BY <1>1, <1>2, FS_Subset
  <1>4. QED
    BY <1>1, <1>3, FS_CardinalityType

\* A move leaves one shard fewer with the old groups.
LEMMA MoveLeavesOld ==
    ASSUME Inv, Needed, Move, pc' = "move"
    PROVE  Cardinality(AtOld)' = Cardinality(AtOld) - 1
  <1>0. Types /\ Gap /\ UNCHANGED before
    BY DEF Inv, Needed, Move
  <1>1. PICK mg, lg \in Member : /\ ~Even(mg, lg)
                                 /\ \E s \in Shard : Shards[s] = mg /\ Shards' = [Shards EXCEPT ![s] = lg]
    BY DEF Move
  <1>2. PICK s \in Shard : Shards[s] = mg /\ Shards' = [Shards EXCEPT ![s] = lg]
    BY <1>1
  <1>3. mg \in before.groups /\ lg \notin before.groups
    <2>1. ~(Count(mg) <= Count(lg) + 1)
      BY <1>1, CountType, SMTT(60) DEF Even
    <2>2. QED
      BY <1>0, <2>1 DEF Gap
  <1>4. AtOld' = AtOld \ {s} /\ s \in AtOld
    BY <1>0, <1>2, <1>3 DEF AtOld, Types
  <1>5. IsFiniteSet(AtOld)
    <2>1. IsFiniteSet(Shard) /\ AtOld \subseteq Shard
      BY FS_Interval, ShardCfgAssumption, SMTT(60) DEF Shard, AtOld
    <2>2. QED
      BY <2>1, FS_Subset
  <1>6. Cardinality(AtOld \ {s}) = Cardinality(AtOld) - 1
    BY <1>4, <1>5, FS_RemoveElement
  <1>7. QED
    BY <1>4, <1>6

\* Both loops of Rebalance end, whatever joins and leaves: each turn leaves fewer turns to
\* come, of which there are never more than twice the shards and one (shardcfg.go:131-153).
THEOREM RebalanceTurnsBounded ==
    Spec => [](TurnsLeft \in 0 .. 2 * NShards + 1)
              /\ [][Assign \/ Move => TurnsLeft' < TurnsLeft]_vars
  <1>1. ASSUME Inv PROVE TurnsLeft \in 0 .. 2 * NShards + 1
    <2> DEFINE n == Cardinality(AtOld)
    <2>0. /\ NShards \in Nat \ {0} /\ n \in Nat /\ n <= NShards
          /\ next \in Nat /\ (pc = "assign" => next < NShards)
      BY <1>1, ShardCfgAssumption, AtOldType DEF Inv, Types
    <2>1. /\ pc = "assign" => TurnsLeft = (NShards - next) + NShards + 1
          /\ pc = "move" => TurnsLeft = n + 1
          /\ pc \notin {"assign", "move"} => TurnsLeft = 0
      BY DEF TurnsLeft
    <2> HIDE DEF n
    <2>2. QED
      BY <2>0, <2>1, SMTT(60)
  <1>2. ASSUME Inv, Inv', Needed, Assign PROVE TurnsLeft' < TurnsLeft
    <2> DEFINE n == Cardinality(AtOld)
    <2>0. (Cardinality(AtOld) \in Nat /\ Cardinality(AtOld) <= NShards)'
      BY AtOldType, PTL
    <2>1. /\ NShards \in Nat \ {0} /\ next \in Nat /\ next < NShards /\ next' = next + 1
          /\ pc = "assign" /\ n' \in Nat /\ n' <= NShards
          /\ pc' = "assign" \/ pc' = "move"
      BY <1>2, <2>0, ShardCfgAssumption DEF Inv, Types, Assign
    <2>2. /\ TurnsLeft = (NShards - next) + NShards + 1
          /\ pc' = "assign" => TurnsLeft' = (NShards - next') + NShards + 1
          /\ pc' = "move" => TurnsLeft' = n' + 1
      BY <2>1 DEF TurnsLeft
    <2> HIDE DEF n
    <2>3. QED
      BY <2>1, <2>2, SMTT(60)
  <1>3. ASSUME Inv, Needed, Move PROVE TurnsLeft' < TurnsLeft
    <2> DEFINE n == Cardinality(AtOld)
    <2>1. /\ pc = "move" /\ n \in Nat /\ TurnsLeft = n + 1
          /\ pc' = "idle" \/ pc' = "move"
      BY <1>3, AtOldType DEF Move, TurnsLeft
    <2>2. CASE pc' = "idle"
      <3>1. TurnsLeft' = 0
        BY <2>2 DEF TurnsLeft
      <3> HIDE DEF n
      <3>2. QED
        BY <2>1, <3>1, SMTT(60)
    <2>3. CASE pc' = "move"
      <3>1. TurnsLeft' = n' + 1 /\ n' = n - 1
        BY <1>3, <2>3, MoveLeavesOld DEF TurnsLeft
      <3> HIDE DEF n
      <3>2. QED
        BY <2>1, <3>1, SMTT(60)
    <2>4. QED
      BY <2>1, <2>2, <2>3
  <1>4. Inv /\ Inv' /\ Needed /\ [Next]_vars => [Assign \/ Move => TurnsLeft' < TurnsLeft]_vars
    BY <1>2, <1>3
  <1>5. QED
    BY <1>1, <1>4, NeededAlways, PTL DEF Spec

=============================================================================
