------------------------------ MODULE ShardCfg ------------------------------
(***************************************************************************)
(* Shard configurations, shardkv1/shardcfg/shardcfg.go: the owner of a     *)
(* ShardConfig calls JoinBalance and LeaveBalance in turn.  Each loop of   *)
(* Rebalance is taken one iteration at a time, so that what holds inside a *)
(* loop and whether it ends can be stated.                                 *)
(*                                                                         *)
(* Shards[s] is the group of shard s, 0 while it has none.  Groups maps    *)
(* the groups of the configuration to their servers.                       *)
(***************************************************************************)
EXTENDS Integers, FiniteSets

CONSTANTS NShards, Gid, Server,
          MaxNum   \* bound: configurations made

ASSUME ShardCfgAssumption ==
    /\ NShards \in Nat \ {0}
    /\ Gid \subseteq Nat \ {0}
    /\ MaxNum \in Nat

Shard == 0 .. NShards - 1

VARIABLES Num, Shards, Groups,
          pc,      \* "idle", the loops of Rebalance "assign" and "move", or "fatal"
          next,    \* the index of the loop "assign"
          before   \* history: Shards and the groups when the operation began

vars == <<Num, Shards, Groups, pc, next, before>>

Member == DOMAIN Groups

\* MakeShardConfig
Init ==
    /\ Num = 0
    /\ Shards = [s \in Shard |-> 0]
    /\ Groups = [g \in {} |-> {}]
    /\ pc = "idle" /\ next = 0
    /\ before = [shards |-> Shards, groups |-> {}]

\* counts[g] of analyze
Count(g) == Cardinality({s \in Shard : Shards[s] = g})

\* lg of analyze: the first group, in order, with the fewest shards.
IsLeast(g) ==
    /\ g \in Member
    /\ \A h \in Member : Count(g) < Count(h) \/ (Count(g) = Count(h) /\ g <= h)

\* mg of analyze: the first group, in order, with the most shards.
IsMost(g) ==
    /\ g \in Member
    /\ \A h \in Member : Count(g) > Count(h) \/ (Count(g) = Count(h) /\ g <= h)

\* Mutant: Rebalance forgets the old assignment.
RebalanceAnew ==
    /\ Shards' = [s \in Shard |-> 0]
    /\ next' = 0
    /\ pc' = IF DOMAIN Groups' = {} THEN "idle" ELSE "assign"

\* The start of Rebalance: without groups the shards are unassigned and it returns.
Rebalance ==
    /\ Shards' = IF DOMAIN Groups' = {} THEN [s \in Shard |-> 0] ELSE Shards
    /\ next' = 0
    /\ pc' = IF DOMAIN Groups' = {} THEN "idle" ELSE "assign"

\* Mutant: the groups that join together are not compared with each other.
JoinAllowedAlone(S, srv) ==
    /\ S # {}
    /\ S \cap Member = {}
    /\ \A g \in S : \A h \in Member : srv[g] \cap Groups[h] = {}

\* Join's checks of the groups S with the servers srv: none is a member yet, no server
\* would be in two groups.
JoinAllowed(S, srv) ==
    /\ S # {}
    /\ S \cap Member = {}
    /\ \A g \in S : /\ \A h \in Member : srv[g] \cap Groups[h] = {}
                    /\ \A h \in S \ {g} : srv[g] \cap srv[h] = {}

\* JoinBalance
JoinBalance(S, srv) ==
    /\ pc = "idle" /\ Num < MaxNum
    /\ JoinAllowed(S, srv)
    /\ before' = [shards |-> Shards, groups |-> Member]
    /\ Groups' = [g \in Member \cup S |-> IF g \in S THEN srv[g] ELSE Groups[g]]
    /\ Num' = Num + 1
    /\ Rebalance

\* LeaveBalance
LeaveBalance(S) ==
    /\ pc = "idle" /\ Num < MaxNum
    /\ S # {} /\ S \subseteq Member
    /\ before' = [shards |-> Shards, groups |-> Member]
    /\ Groups' = [g \in Member \ S |-> Groups[g]]
    /\ Num' = Num + 1
    /\ Rebalance

\* Join or Leave meets a group or a server it must not: log.Fatalf.
Fatal ==
    /\ pc = "idle" /\ Num < MaxNum
    /\ \/ \E S \in SUBSET Gid : \E srv \in [S -> SUBSET Server] : ~JoinAllowed(S, srv)
       \/ \E S \in SUBSET Gid : S = {} \/ ~(S \subseteq Member)
    /\ pc' = "fatal"
    /\ UNCHANGED <<Num, Shards, Groups, next, before>>

\* Mutant: a shard whose group has left is not given to another.
AssignSkips ==
    /\ pc = "assign"
    /\ UNCHANGED Shards
    /\ next' = next + 1
    /\ pc' = IF next' = NShards THEN "move" ELSE "assign"
    /\ UNCHANGED <<Num, Groups, before>>

\* One turn of "assign all unassigned shards".
Assign ==
    /\ pc = "assign"
    /\ \/ Shards[next] \in Member /\ UNCHANGED Shards
       \/ /\ Shards[next] \notin Member
          /\ \E lg \in Member : IsLeast(lg) /\ Shards' = [Shards EXCEPT ![next] = lg]
    /\ next' = next + 1
    /\ pc' = IF next' = NShards THEN "move" ELSE "assign"
    /\ UNCHANGED <<Num, Groups, before>>

\* Mutant: the loop goes on until all groups have the same number of shards.
EvenStrict(mg, lg) == Count(mg) < Count(lg) + 1

\* The condition that ends the loop "move".
Even(mg, lg) == Count(mg) < Count(lg) + 2

\* One turn of "move shards from most to least heavily loaded".
Move ==
    /\ pc = "move"
    /\ \E mg, lg \in Member :
          /\ IsMost(mg) /\ IsLeast(lg)
          /\ \/ Even(mg, lg) /\ pc' = "idle" /\ UNCHANGED Shards
             \/ /\ ~Even(mg, lg)
                /\ \E s \in Shard :
                      /\ Shards[s] = mg /\ \A r \in Shard : Shards[r] = mg => s <= r
                      /\ Shards' = [Shards EXCEPT ![s] = lg]
                /\ UNCHANGED pc
    /\ UNCHANGED <<Num, Groups, next, before>>

Next ==
    \/ \E S \in SUBSET Gid : \E srv \in [S -> SUBSET Server] : JoinBalance(S, srv)
    \/ \E S \in SUBSET Gid : LeaveBalance(S)
    \/ Fatal
    \/ Assign
    \/ Move

Spec == Init /\ [][Next]_vars

\* A loop that has started goes on.
FairSpec == Spec /\ WF_vars(Assign) /\ WF_vars(Move)

-----------------------------------------------------------------------------

\* What CheckConfig demands of shards and groups.
Valid ==
    /\ Member # {} => \A s \in Shard : Shards[s] \in Member
    /\ \A g, h \in Member : Count(g) <= Count(h) + 1

\* After every JoinBalance and LeaveBalance, in any sequence, each shard is with a group of
\* the configuration, and no group has two shards more than another (shardcfg.go:242-269).
CheckConfig == pc = "idle" => Valid

\* GidServers names servers of one group only: no server is in two groups, over any
\* sequence of joins and leaves (shardcfg.go:163-171).
ServersOfOneGroup ==
    \A g, h \in Member : g # h => Groups[g] \cap Groups[h] = {}

\* An operation moves no shard it need not move: one that changes hands leaves a group
\* that has left, or goes to a group that has joined.
MovesAreNeeded ==
    pc = "idle" /\ Member # {} =>
        \A s \in Shard : Shards[s] # before.shards[s] =>
            \/ before.shards[s] \notin Member
            \/ Shards[s] \notin before.groups

\* Rebalance returns: the loop of moves reaches an even distribution.
RebalanceReturns == (pc \in {"assign", "move"}) ~> (pc = "idle")

=============================================================================
