--------------------- MODULE SubscriptionRegistryProofs ---------------------
(***************************************************************************)
(* Proofs of the safety of the subscription registry, for any number of    *)
(* connections, instances, symbols, commands, heartbeats and faults.       *)
(***************************************************************************)
EXTENDS SubscriptionRegistry, FiniteSetTheorems, TLAPS

-----------------------------------------------------------------------------
(* The inductive invariant *)

\* A handler between the script of subscribe and its control message is a live
\* member of the symbol that it is visiting, and the one that publishes has set
\* the upstream state, which is still there.
ActivatorOK ==
  \A c \in Connections, s \in Symbols :
    /\ Visits(c, s) => c \in Unlapsed(s)
    /\ Publishing(c, s) => active[s]

RegistryInv == TypeOK /\ BeatingIsMember /\ ActivatorOK /\ SingleActivator

-----------------------------------------------------------------------------
(* Lemmas *)

\* What the scripts return is a reply.
LEMMA CardType ==
  ASSUME NEW cs
  PROVE  CardUpTo2(cs) \in 0..2
BY DEF CardUpTo2

\* The purge of one symbol, and of all symbols, is well typed.
LEMMA PurgeType ==
  ASSUME TypeOK
  PROVE  /\ PurgeAll => /\ members' \in [Symbols -> SUBSET Connections]
                        /\ lapsed' \in [Symbols -> SUBSET Connections]
         /\ \A s \in Symbols, cs \in SUBSET Connections : SetMembers(s, cs) =>
              /\ members' \in [Symbols -> SUBSET Connections]
              /\ lapsed' \in [Symbols -> SUBSET Connections]
<1>1. ASSUME PurgeAll
      PROVE  /\ members' \in [Symbols -> SUBSET Connections]
             /\ lapsed' \in [Symbols -> SUBSET Connections]
  <2>1. \A s \in Symbols : Unlapsed(s) \in SUBSET Connections
    BY DEF TypeOK, Unlapsed
  <2>2. QED
    BY <1>1, <2>1 DEF PurgeAll
<1>2. ASSUME NEW s \in Symbols, NEW cs \in SUBSET Connections, SetMembers(s, cs)
      PROVE  /\ members' \in [Symbols -> SUBSET Connections]
             /\ lapsed' \in [Symbols -> SUBSET Connections]
  BY <1>2 DEF TypeOK, SetMembers
<1>3. QED
  BY <1>1, <1>2

\* A scheduled release is well typed.
LEMMA ScheduleType ==
  ASSUME TypeOK, NEW i \in Instances, NEW s, ScheduleRelease(i, s)
  PROVE  task' \in [Instances -> [Symbols -> TaskStages]]
BY ZenonT(30) DEF TypeOK, ScheduleRelease, TaskStages

-----------------------------------------------------------------------------
(* Every step preserves the type invariant *)

\* Every action of the handlers, the heartbeats, the release tasks and the
\* sweeps is well typed.
LEMMA TypeStep ==
  ASSUME TypeOK, [Next]_vars
  PROVE  TypeOK'
<1> USE RegistryAssumption DEF Stages, Calling, Closing, Visiting, history
<1>0. Emptied \subseteq Symbols
  BY DEF Emptied
<1>1. ASSUME NEW c \in Connections, NEW symbols \in SUBSET Symbols,
             RequestSubscribe(c, symbols) \/ RequestUnsubscribe(c, symbols)
      PROVE  TypeOK'
  <2>1. CASE RequestSubscribe(c, symbols)
    BY <2>1 DEF TypeOK, RequestSubscribe, redisVars
  <2>2. CASE RequestUnsubscribe(c, symbols)
    BY <2>2 DEF TypeOK, RequestUnsubscribe, redisVars
  <2>3. QED
    BY <1>1, <2>1, <2>2
<1>2. ASSUME NEW c \in Connections, SubscribeScript(c) PROVE TypeOK'
  <2>1. PICK s \in todo[c] :
          /\ SetMembers(s, Unlapsed(s) \cup {c})
          /\ symbolsOf' = [symbolsOf EXCEPT ![c] = @ \cup {s}]
          /\ count' = [count EXCEPT ![c] = CardUpTo2(Unlapsed(s) \cup {c})]
          /\ current' = [current EXCEPT ![c] = s]
          /\ todo' = [todo EXCEPT ![c] = @ \ {s}]
    BY <1>2 DEF SubscribeScript
  <2>2. s \in Symbols /\ Unlapsed(s) \cup {c} \in SUBSET Connections
    BY DEF TypeOK, Unlapsed
  <2>3. /\ members' \in [Symbols -> SUBSET Connections]
        /\ lapsed' \in [Symbols -> SUBSET Connections]
    BY <2>1, <2>2, PurgeType
  <2>4. count' \in [Connections -> 0..2]
    BY <2>1, CardType DEF TypeOK
  <2>5. QED
    BY <1>2, <2>1, <2>2, <2>3, <2>4 DEF TypeOK, SubscribeScript
<1>3. ASSUME NEW c \in Connections, SubscribeReply(c) PROVE TypeOK'
  <2>1. /\ members' \in [Symbols -> SUBSET Connections]
        /\ lapsed' \in [Symbols -> SUBSET Connections]
    BY <1>3, PurgeType DEF SubscribeReply, TypeOK
  <2>2. task' \in [Instances -> [Symbols -> TaskStages]]
    BY <1>3 DEF SubscribeReply, TypeOK, TaskStages
  <2>3. unattended' \subseteq Symbols /\ overtaken' \subseteq Symbols
    BY <1>0, <1>3 DEF TypeOK, SubscribeReply, SendUnsubscribe
  <2>4. QED
    BY <1>3, <2>1, <2>2, <2>3 DEF TypeOK, SubscribeReply, SendUnsubscribe, AfterScript, AfterSymbol
<1>4. ASSUME NEW c \in Connections, Activate(c) \/ PublishSubscribe(c) PROVE TypeOK'
  BY <1>4, ZenonT(30) DEF TypeOK, Activate, PublishSubscribe, AfterSymbol
<1>5. ASSUME NEW c \in Connections, FinishCall(c) PROVE TypeOK'
  <2>1. /\ members' \in [Symbols -> SUBSET Connections]
        /\ lapsed' \in [Symbols -> SUBSET Connections]
    BY <1>5, PurgeType DEF FinishCall
  <2>2. QED
    BY <1>0, <1>5, <2>1 DEF TypeOK, FinishCall
<1>6. ASSUME NEW c \in Connections, UnsubscribeScript(c) PROVE TypeOK'
  <2>1. PICK s \in todo[c] :
          /\ SetMembers(s, Unlapsed(s) \ {c})
          /\ symbolsOf' = [symbolsOf EXCEPT ![c] = @ \ {s}]
          /\ count' = [count EXCEPT ![c] = CardUpTo2(Unlapsed(s) \ {c})]
          /\ current' = [current EXCEPT ![c] = s]
          /\ todo' = [todo EXCEPT ![c] = @ \ {s}]
    BY <1>6 DEF UnsubscribeScript
  <2>2. s \in Symbols /\ Unlapsed(s) \ {c} \in SUBSET Connections
    BY DEF TypeOK, Unlapsed
  <2>3. /\ members' \in [Symbols -> SUBSET Connections]
        /\ lapsed' \in [Symbols -> SUBSET Connections]
    BY <2>1, <2>2, PurgeType
  <2>4. count' \in [Connections -> 0..2]
    BY <2>1, CardType DEF TypeOK
  <2>5. QED
    BY <1>6, <2>1, <2>2, <2>3, <2>4 DEF TypeOK, UnsubscribeScript
<1>7. ASSUME NEW c \in Connections, UnsubscribeReply(c) PROVE TypeOK'
  <2>1. task' \in [Instances -> [Symbols -> TaskStages]]
    BY <1>7, ScheduleType DEF UnsubscribeReply, TypeOK
  <2>2. unattended' \subseteq Symbols
    BY <1>7 DEF UnsubscribeReply, ScheduleRelease, TypeOK
  <2>3. QED
    BY <1>7, <2>1, <2>2 DEF TypeOK, UnsubscribeReply, redisVars
<1>8. ASSUME NEW c \in Connections, ClientLeaves(c) \/ DisconnectRead(c) \/ DisconnectDelete(c)
      PROVE  TypeOK'
  <2>1. CASE ClientLeaves(c)
    BY <2>1 DEF TypeOK, ClientLeaves, StopHeartbeat, redisVars
  <2>2. CASE DisconnectRead(c)
    BY <2>2 DEF TypeOK, DisconnectRead, redisVars
  <2>3. CASE DisconnectDelete(c)
    BY <2>3 DEF TypeOK, DisconnectDelete
  <2>4. QED
    BY <1>8, <2>1, <2>2, <2>3
<1>9. ASSUME NEW c \in Connections, RequestFails(c) PROVE TypeOK'
  <2>1. pc' \in [Connections -> Stages]
    BY <1>9 DEF TypeOK, RequestFails
  <2>2. /\ beating' \in [Connections -> BOOLEAN]
        /\ beat' \in [Connections -> SUBSET Symbols]
    BY <1>9 DEF TypeOK, RequestFails, StopHeartbeat
  <2>3. faults' \in 0..MaxFaults
    BY <1>9 DEF TypeOK, RequestFails
  <2>4. QED
    BY <1>9, <2>1, <2>2, <2>3 DEF TypeOK, RequestFails, redisVars
<1>10. ASSUME NEW c \in Connections, HeartbeatRead(c) \/ HeartbeatWrite(c) \/ HeartbeatLate(c)
       PROVE  TypeOK'
  <2>1. CASE HeartbeatRead(c)
    BY <2>1 DEF TypeOK, HeartbeatRead, redisVars
  <2>2. CASE HeartbeatWrite(c)
    BY <2>2 DEF TypeOK, HeartbeatWrite
  <2>3. CASE HeartbeatLate(c)
    <3>1. /\ beating' \in [Connections -> BOOLEAN]
          /\ beat' \in [Connections -> SUBSET Symbols]
      BY <2>3 DEF TypeOK, HeartbeatLate, StopHeartbeat
    <3>2. events' \in 0..MaxEvents
      BY <2>3 DEF TypeOK, HeartbeatLate
    <3>3. QED
      BY <2>3, <3>1, <3>2 DEF TypeOK, HeartbeatLate, redisVars
  <2>4. QED
    BY <1>10, <2>1, <2>2, <2>3
<1>11. ASSUME NEW c \in Connections, NEW s \in Symbols, LeaseLapses(c, s) PROVE TypeOK'
  BY <1>11 DEF TypeOK, LeaseLapses, connVars
<1>12. ASSUME NEW c \in Connections, ConnectionKeyExpires(c) PROVE TypeOK'
  BY <1>12 DEF TypeOK, ConnectionKeyExpires, connVars
<1>13. ASSUME NEW i \in Instances, NEW s \in Symbols, ReleaseStep(i, s) PROVE TypeOK'
  <2>1. /\ members' \in [Symbols -> SUBSET Connections]
        /\ lapsed' \in [Symbols -> SUBSET Connections]
    <3>1. Unlapsed(s) \in SUBSET Connections
      BY DEF TypeOK, Unlapsed
    <3>2. PurgeAll \/ SetMembers(s, Unlapsed(s))
      BY <1>13 DEF ReleaseStep, ReleaseScript, ReleaseReply
    <3>3. QED
      BY <3>1, <3>2, PurgeType
  <2>2. CASE ReleaseScript(i, s)
    <3>0. \/ task' = [task EXCEPT ![i][s] = "released"]
          \/ task' = [task EXCEPT ![i][s] = "kept"]
      BY <2>2 DEF ReleaseScript
    <3>1. task' \in [Instances -> [Symbols -> TaskStages]]
      <4>1. CASE task' = [task EXCEPT ![i][s] = "released"]
        BY <4>1 DEF TypeOK, TaskStages
      <4>2. CASE task' = [task EXCEPT ![i][s] = "kept"]
        BY <4>2 DEF TypeOK, TaskStages
      <4>3. QED
        BY <3>0, <4>1, <4>2
    <3>2. QED
      BY <2>1, <2>2, <3>1 DEF TypeOK, ReleaseScript, connVars
  <2>3. CASE ReleaseReply(i, s)
    BY <1>0, <2>1, <2>3 DEF TypeOK, ReleaseReply, SendUnsubscribe, connVars, TaskStages
  <2>4. QED
    BY <1>13, <2>2, <2>3 DEF ReleaseStep
<1>14. ASSUME NEW i \in Instances, NEW s \in Symbols, ReleaseFails(i, s) \/ SweepCount(i, s)
       PROVE  TypeOK'
  <2>1. CASE ReleaseFails(i, s)
    BY <2>1 DEF TypeOK, ReleaseFails, redisVars, connVars, TaskStages
  <2>2. CASE SweepCount(i, s)
    BY <2>2 DEF TypeOK, SweepCount, redisVars, connVars
  <2>3. QED
    BY <1>14, <2>1, <2>2
<1>15. ASSUME NEW i \in Instances, SweepPurge(i) PROVE TypeOK'
  <2>1. /\ members' \in [Symbols -> SUBSET Connections]
        /\ lapsed' \in [Symbols -> SUBSET Connections]
    BY <1>15 DEF TypeOK, SweepPurge, SetMembers, Unlapsed
  <2>2. QED
    BY <1>15, <2>1, ZenonT(30) DEF TypeOK, SweepPurge, connVars
<1>16. ASSUME NEW i \in Instances, SweepCheck(i) PROVE TypeOK'
  <2>1. task' \in [Instances -> [Symbols -> TaskStages]]
    BY <1>16, ScheduleType DEF SweepCheck, TypeOK
  <2>2. unattended' \subseteq Symbols
    BY <1>16 DEF SweepCheck, ScheduleRelease, TypeOK
  <2>3. QED
    BY <1>16, <2>1, <2>2 DEF TypeOK, SweepCheck, NoSweep, redisVars, connVars
<1>17. ASSUME NEW i \in Instances, RefreshMetrics(i) PROVE TypeOK'
  <2>1. /\ members' \in [Symbols -> SUBSET Connections]
        /\ lapsed' \in [Symbols -> SUBSET Connections]
    BY <1>17, PurgeType DEF RefreshMetrics
  <2>2. QED
    BY <1>0, <1>17, <2>1 DEF TypeOK, RefreshMetrics, connVars
<1>18. ASSUME NEW i \in Instances, Crash(i) PROVE TypeOK'
  BY <1>18 DEF TypeOK, Crash, NoSweep, redisVars, TaskStages
<1>19. ASSUME UNCHANGED vars PROVE TypeOK'
  BY <1>19 DEF TypeOK, vars, redisVars, connVars
<1>20. QED
  BY <1>1, <1>2, <1>3, <1>4, <1>5, <1>6, <1>7, <1>8, <1>9, <1>10, <1>11, <1>12, <1>13,
     <1>14, <1>15, <1>16, <1>17, <1>18, <1>19 DEF Next, HandlerStep

-----------------------------------------------------------------------------
(* The leases *)

\* A purge removes no live member: refresh_metrics leaves those of every symbol
\* alone, a script sets those of its own symbol only.
LEMMA PurgeKeepsUnlapsed ==
  ASSUME TypeOK
  PROVE  /\ PurgeAll => \A t \in Symbols : Unlapsed(t)' = Unlapsed(t)
         /\ \A s, cs : SetMembers(s, cs) =>
              \A t \in Symbols : Unlapsed(t)' = IF t = s THEN cs ELSE Unlapsed(t)
<1>1. ASSUME PurgeAll, NEW t \in Symbols PROVE Unlapsed(t)' = Unlapsed(t)
  BY <1>1 DEF PurgeAll, Unlapsed
<1>2. ASSUME NEW s, NEW cs, SetMembers(s, cs), NEW t \in Symbols
      PROVE  Unlapsed(t)' = IF t = s THEN cs ELSE Unlapsed(t)
  BY <1>2 DEF SetMembers, Unlapsed, TypeOK
<1>3. QED
  BY <1>1, <1>2

\* Membership carries over a step that neither removes a live member nor adds
\* a symbol to a connection key nor restarts a heartbeat.
LEMMA MembersKept ==
  ASSUME TypeOK, BeatingIsMember,
         \A t \in Symbols : Unlapsed(t) \subseteq Unlapsed(t)',
         \A d \in Connections : symbolsOf'[d] \subseteq symbolsOf[d],
         \A d \in Connections : beating'[d] => beating[d]
  PROVE  BeatingIsMember'
BY DEF BeatingIsMember

\* No step removes a live connection from a symbol in its connection key: the
\* scripts and the purges of the other handlers, tasks and instances.
LEMMA MemberStep ==
  ASSUME TypeOK, TypeOK', BeatingIsMember, [Next]_vars
  PROVE  BeatingIsMember'
<1> DEFINE Same == /\ \A t \in Symbols : Unlapsed(t) \subseteq Unlapsed(t)'
                   /\ \A d \in Connections : symbolsOf'[d] \subseteq symbolsOf[d]
                   /\ \A d \in Connections : beating'[d] => beating[d]
<1>0. ASSUME Same PROVE BeatingIsMember'
  BY <1>0, MembersKept
<1>1. ASSUME NEW c \in Connections, NEW symbols \in SUBSET Symbols,
             RequestSubscribe(c, symbols) \/ RequestUnsubscribe(c, symbols)
      PROVE  Same
  BY <1>1 DEF RequestSubscribe, RequestUnsubscribe, redisVars, Unlapsed
<1>2. ASSUME NEW c \in Connections, SubscribeScript(c) PROVE BeatingIsMember'
  <2>1. PICK s \in todo[c] :
          /\ SetMembers(s, Unlapsed(s) \cup {c})
          /\ symbolsOf' = [symbolsOf EXCEPT ![c] = @ \cup {s}]
    BY <1>2 DEF SubscribeScript
  <2>2. \A t \in Symbols : Unlapsed(t)' = IF t = s THEN Unlapsed(s) \cup {c} ELSE Unlapsed(t)
    BY <2>1, PurgeKeepsUnlapsed
  <2>3. beating' = beating
    BY <1>2 DEF SubscribeScript
  <2>4. SUFFICES ASSUME NEW d \in Connections, NEW t \in Symbols,
                        beating'[d], t \in symbolsOf'[d]
                 PROVE  d \in Unlapsed(t)'
    BY DEF BeatingIsMember
  <2>5. CASE d = c /\ t = s
    BY <2>2, <2>5
  <2>6. CASE ~(d = c /\ t = s)
    <3>1. t \in symbolsOf[d]
      BY <2>1, <2>4, <2>6 DEF TypeOK
    <3>2. d \in Unlapsed(t)
      BY <2>3, <2>4, <3>1 DEF BeatingIsMember
    <3>3. QED
      BY <2>2, <3>2
  <2>7. QED
    BY <2>5, <2>6
<1>3. ASSUME NEW c \in Connections, SubscribeReply(c) \/ FinishCall(c) PROVE Same
  <2>1. PurgeAll \/ (members' = members /\ lapsed' = lapsed)
    BY <1>3 DEF SubscribeReply, FinishCall
  <2>2. \A t \in Symbols : Unlapsed(t) \subseteq Unlapsed(t)'
    BY <2>1, PurgeKeepsUnlapsed DEF Unlapsed
  <2>3. QED
    BY <1>3, <2>2 DEF SubscribeReply, FinishCall
<1>4. ASSUME NEW c \in Connections,
             Activate(c) \/ PublishSubscribe(c) \/ UnsubscribeReply(c) \/ HeartbeatRead(c)
      PROVE  Same
  BY <1>4 DEF Activate, PublishSubscribe, UnsubscribeReply, HeartbeatRead, redisVars, Unlapsed
<1>5. ASSUME NEW c \in Connections, UnsubscribeScript(c) PROVE BeatingIsMember'
  <2>1. PICK s \in todo[c] :
          /\ SetMembers(s, Unlapsed(s) \ {c})
          /\ symbolsOf' = [symbolsOf EXCEPT ![c] = @ \ {s}]
    BY <1>5 DEF UnsubscribeScript
  <2>2. \A t \in Symbols : Unlapsed(t)' = IF t = s THEN Unlapsed(s) \ {c} ELSE Unlapsed(t)
    BY <2>1, PurgeKeepsUnlapsed
  <2>3. beating' = beating
    BY <1>5 DEF UnsubscribeScript
  <2>4. SUFFICES ASSUME NEW d \in Connections, NEW t \in Symbols,
                        beating'[d], t \in symbolsOf'[d]
                 PROVE  d \in Unlapsed(t)'
    BY DEF BeatingIsMember
  <2>5. t \in symbolsOf[d] /\ ~(d = c /\ t = s)
    BY <2>1, <2>4 DEF TypeOK
  <2>6. d \in Unlapsed(t)
    BY <2>3, <2>4, <2>5 DEF BeatingIsMember
  <2>7. QED
    BY <2>2, <2>5, <2>6
<1>6. ASSUME NEW c \in Connections, ClientLeaves(c) \/ HeartbeatLate(c) PROVE Same
  BY <1>6 DEF ClientLeaves, HeartbeatLate, StopHeartbeat, redisVars, Unlapsed, TypeOK
<1>7. ASSUME NEW c \in Connections, RequestFails(c) PROVE Same
  BY <1>7 DEF RequestFails, StopHeartbeat, redisVars, Unlapsed, TypeOK
<1>8. ASSUME NEW c \in Connections, DisconnectRead(c) \/ DisconnectDelete(c) PROVE Same
  BY <1>8 DEF DisconnectRead, DisconnectDelete, redisVars, Unlapsed, TypeOK
<1>9. ASSUME NEW c \in Connections, HeartbeatWrite(c) PROVE BeatingIsMember'
  <2>1. \A t \in Symbols : Unlapsed(t) \subseteq Unlapsed(t)'
    BY <1>9 DEF HeartbeatWrite, Unlapsed, TypeOK
  <2>2. \A t \in beat[c] : c \in Unlapsed(t)'
    BY <1>9 DEF HeartbeatWrite, Unlapsed, TypeOK
  <2>3. ASSUME NEW t \in Symbols, beating'[c], t \in symbolsOf'[c] PROVE c \in Unlapsed(t)'
    <3>1. beating[c] \/ \A s \in symbolsOf[c] \ beat[c] : c \in Unlapsed(s)
      BY <1>9, <2>3 DEF HeartbeatWrite, TypeOK
    <3>2. t \in symbolsOf[c]
      BY <1>9, <2>3 DEF HeartbeatWrite
    <3>3. t \in beat[c] \/ c \in Unlapsed(t)
      BY <3>1, <3>2 DEF BeatingIsMember
    <3>4. QED
      BY <2>1, <2>2, <3>3
  <2>4. ASSUME NEW d \in Connections, NEW t \in Symbols, d # c, beating'[d], t \in symbolsOf'[d]
        PROVE  d \in Unlapsed(t)'
    BY <1>9, <2>1, <2>4 DEF HeartbeatWrite, BeatingIsMember, TypeOK
  <2>5. QED
    BY <2>3, <2>4 DEF BeatingIsMember
<1>10. ASSUME NEW c \in Connections, NEW s \in Symbols, LeaseLapses(c, s)
       PROVE  BeatingIsMember'
  <2>1. \A d \in Connections, t \in Symbols :
          d \in Unlapsed(t) /\ ~(d = c /\ t = s) => d \in Unlapsed(t)'
    BY <1>10 DEF LeaseLapses, Unlapsed, TypeOK
  <2>2. QED
    BY <1>10, <2>1 DEF LeaseLapses, BeatingIsMember, connVars
<1>11. ASSUME NEW c \in Connections, ConnectionKeyExpires(c) PROVE Same
  BY <1>11 DEF ConnectionKeyExpires, connVars, Unlapsed, TypeOK
<1>12. ASSUME NEW i \in Instances, NEW s \in Symbols, ReleaseStep(i, s) PROVE Same
  <2>1. PurgeAll \/ SetMembers(s, Unlapsed(s))
    BY <1>12 DEF ReleaseStep, ReleaseScript, ReleaseReply
  <2>2. \A t \in Symbols : Unlapsed(t) \subseteq Unlapsed(t)'
    BY <2>1, PurgeKeepsUnlapsed
  <2>3. QED
    BY <1>12, <2>2 DEF ReleaseStep, ReleaseScript, ReleaseReply, connVars
<1>13. ASSUME NEW i \in Instances, NEW s \in Symbols, ReleaseFails(i, s) \/ SweepCount(i, s)
       PROVE  Same
  BY <1>13 DEF ReleaseFails, SweepCount, redisVars, connVars, Unlapsed
<1>14. ASSUME NEW i \in Instances, SweepPurge(i) PROVE Same
  <2>1. \A t \in Symbols : Unlapsed(t) \subseteq Unlapsed(t)'
    BY <1>14, PurgeKeepsUnlapsed DEF SweepPurge
  <2>2. QED
    BY <1>14, <2>1 DEF SweepPurge, connVars
<1>15. ASSUME NEW i \in Instances, SweepCheck(i) PROVE Same
  BY <1>15 DEF SweepCheck, redisVars, connVars, Unlapsed
<1>16. ASSUME NEW i \in Instances, RefreshMetrics(i) PROVE Same
  <2>1. \A t \in Symbols : Unlapsed(t) \subseteq Unlapsed(t)'
    BY <1>16, PurgeKeepsUnlapsed DEF RefreshMetrics
  <2>2. QED
    BY <1>16, <2>1 DEF RefreshMetrics, connVars
<1>17. ASSUME NEW i \in Instances, Crash(i) PROVE Same
  BY <1>17 DEF Crash, redisVars, Unlapsed
<1>18. ASSUME UNCHANGED vars PROVE Same
  BY <1>18 DEF vars, redisVars, connVars, Unlapsed
<1> HIDE DEF Same
<1>19. QED
  BY <1>0, <1>1, <1>2, <1>3, <1>4, <1>5, <1>6, <1>7, <1>8, <1>9, <1>10, <1>11, <1>12, <1>13,
     <1>14, <1>15, <1>16, <1>17, <1>18 DEF Next, HandlerStep

-----------------------------------------------------------------------------
(* The activator *)

\* What a handler between script and control message relies on carries over a
\* step that moves no handler into those stages, removes no member that one of
\* them has added and deletes no upstream state that one of them has set.
LEMMA ActivatorKept ==
  ASSUME TypeOK, ActivatorOK, SingleActivator,
         \A d \in Connections, t \in Symbols : Visits(d, t)' =>
            /\ Visits(d, t)
            /\ pc'[d] = "publish" => pc[d] = "publish"
            /\ d \in Unlapsed(t) => d \in Unlapsed(t)'
            /\ active[t] => active'[t],
         TypeOK'
  PROVE  ActivatorOK' /\ SingleActivator'
<1>1. \A d \in Connections, t \in Symbols : Publishing(d, t)' => Publishing(d, t) /\ Visits(d, t)'
  BY DEF Publishing, Visits, Visiting
<1>2. ActivatorOK'
  BY <1>1 DEF ActivatorOK
<1>3. ASSUME NEW c \in Connections, NEW d \in Connections, c # d,
             pc'[c] = "publish", pc'[d] = "publish", current'[c] = current'[d]
      PROVE  FALSE
  <2>1. current'[c] \in Symbols
    BY <1>3 DEF TypeOK, Visiting
  <2>2. Publishing(c, current'[c]) /\ Publishing(d, current'[c])
    BY <1>1, <1>3, <2>1 DEF Publishing
  <2>3. QED
    BY <1>3, <2>2 DEF SingleActivator, Publishing
<1>4. QED
  BY <1>2, <1>3 DEF SingleActivator

\* The script of subscribe makes the handler a member; SET NX lets a handler
\* publish only when no other one holds the upstream state; the release script
\* deletes the state only when no handler is a member; a lease outlasts the
\* call that wrote it.
LEMMA ActivatorStep ==
  ASSUME TypeOK, TypeOK', ActivatorOK, SingleActivator, [Next]_vars
  PROVE  ActivatorOK' /\ SingleActivator'
<1> DEFINE Same == \A d \in Connections, t \in Symbols : Visits(d, t)' =>
                     /\ Visits(d, t)
                     /\ pc'[d] = "publish" => pc[d] = "publish"
                     /\ d \in Unlapsed(t) => d \in Unlapsed(t)'
                     /\ active[t] => active'[t]
<1>0. ASSUME Same PROVE ActivatorOK' /\ SingleActivator'
  BY <1>0, ActivatorKept
<1>1. ASSUME NEW c \in Connections, NEW symbols \in SUBSET Symbols,
             RequestSubscribe(c, symbols) \/ RequestUnsubscribe(c, symbols)
      PROVE  Same
  BY <1>1 DEF RequestSubscribe, RequestUnsubscribe, redisVars, TypeOK, Visits, Visiting, Unlapsed
<1>2. ASSUME NEW c \in Connections, SubscribeScript(c) PROVE ActivatorOK' /\ SingleActivator'
  <2>1. PICK s \in todo[c] :
          /\ SetMembers(s, Unlapsed(s) \cup {c})
          /\ current' = [current EXCEPT ![c] = s]
    BY <1>2 DEF SubscribeScript
  <2>2. pc' = [pc EXCEPT ![c] = "subscribed"] /\ active' = active
    BY <1>2 DEF SubscribeScript
  <2>3. \A t \in Symbols : Unlapsed(t)' = IF t = s THEN Unlapsed(s) \cup {c} ELSE Unlapsed(t)
    BY <2>1, PurgeKeepsUnlapsed
  <2>4. ActivatorOK'
    BY <2>1, <2>2, <2>3 DEF ActivatorOK, TypeOK, Visits, Visiting, Publishing
  <2>5. SingleActivator'
    BY <2>1, <2>2 DEF SingleActivator, TypeOK
  <2>6. QED
    BY <2>4, <2>5
<1>3. ASSUME NEW c \in Connections, SubscribeReply(c) \/ FinishCall(c) PROVE Same
  <2>1. PurgeAll \/ (members' = members /\ lapsed' = lapsed)
    BY <1>3 DEF SubscribeReply, FinishCall
  <2>2. \A t \in Symbols : Unlapsed(t) \subseteq Unlapsed(t)'
    BY <2>1, PurgeKeepsUnlapsed DEF Unlapsed
  <2>3. QED
    BY <1>3, <2>2 DEF SubscribeReply, FinishCall, AfterScript, AfterSymbol, TypeOK, Visits, Visiting
<1>4. ASSUME NEW c \in Connections, Activate(c) PROVE ActivatorOK' /\ SingleActivator'
  <2>1. CASE active[current[c]]
    <3>1. Same
      BY <1>4, <2>1 DEF Activate, AfterSymbol, TypeOK, Visits, Visiting, Unlapsed
    <3>2. QED
      BY <1>0, <3>1
  <2>2. CASE ~active[current[c]]
    <3>1. /\ pc' = [pc EXCEPT ![c] = "publish"]
          /\ active' = [active EXCEPT ![current[c]] = TRUE]
          /\ current' = current /\ members' = members /\ lapsed' = lapsed
          /\ pc[c] = "setnx"
      BY <1>4, <2>2 DEF Activate
    <3>2. current[c] \in Symbols
      BY <3>1 DEF TypeOK, Visiting
    <3>3. ActivatorOK'
      <4>1. ASSUME NEW d \in Connections, NEW t \in Symbols
            PROVE  (Visits(d, t)' => Visits(d, t)) /\ Unlapsed(t)' = Unlapsed(t)
        BY <3>1 DEF Visits, Visiting, Unlapsed, TypeOK
      <4>2. ASSUME NEW d \in Connections, NEW t \in Symbols, Publishing(d, t)'
            PROVE  active'[t]
        <5>1. CASE d = c
          BY <3>1, <3>2, <4>2, <5>1 DEF Publishing, TypeOK
        <5>2. CASE d # c
          BY <3>1, <4>2, <5>2 DEF Publishing, ActivatorOK, TypeOK
        <5>3. QED
          BY <5>1, <5>2
      <4>3. QED
        BY <4>1, <4>2 DEF ActivatorOK
    <3>4. \A d \in Connections : pc[d] = "publish" => current[d] # current[c]
      BY <2>2, <3>2 DEF ActivatorOK, Publishing
    <3>5. SingleActivator'
      BY <3>1, <3>4 DEF SingleActivator, TypeOK
    <3>6. QED
      BY <3>3, <3>5
  <2>3. QED
    BY <2>1, <2>2
<1>5. ASSUME NEW c \in Connections, PublishSubscribe(c) PROVE Same
  BY <1>5 DEF PublishSubscribe, AfterSymbol, TypeOK, Visits, Visiting, Unlapsed
<1>6. ASSUME NEW c \in Connections, UnsubscribeScript(c) PROVE Same
  <2>1. PICK s \in todo[c] :
          /\ SetMembers(s, Unlapsed(s) \ {c})
          /\ current' = [current EXCEPT ![c] = s]
    BY <1>6 DEF UnsubscribeScript
  <2>2. \A t \in Symbols : Unlapsed(t)' = IF t = s THEN Unlapsed(s) \ {c} ELSE Unlapsed(t)
    BY <2>1, PurgeKeepsUnlapsed
  <2>3. active' = active /\ \A d \in Connections : d # c => pc'[d] = pc[d]
    BY <1>6 DEF UnsubscribeScript, TypeOK
  <2>4. pc'[c] \notin Visiting
    BY <1>6 DEF UnsubscribeScript, TypeOK, Visiting
  <2>5. QED
    BY <2>1, <2>2, <2>3, <2>4 DEF Visits, TypeOK
<1>7. ASSUME NEW c \in Connections, UnsubscribeReply(c) PROVE Same
  BY <1>7 DEF UnsubscribeReply, redisVars, TypeOK, Visits, Visiting, Unlapsed
<1>8. ASSUME NEW c \in Connections, HeartbeatRead(c) \/ HeartbeatWrite(c) PROVE Same
  <2>1. \A t \in Symbols : Unlapsed(t) \subseteq Unlapsed(t)'
    BY <1>8 DEF HeartbeatRead, HeartbeatWrite, redisVars, Unlapsed, TypeOK
  <2>2. QED
    BY <1>8, <2>1 DEF HeartbeatRead, HeartbeatWrite, redisVars, Visits
<1>9. ASSUME NEW c \in Connections, ClientLeaves(c) \/ HeartbeatLate(c) PROVE Same
  BY <1>9 DEF ClientLeaves, HeartbeatLate, redisVars, TypeOK, Visits, Visiting, Unlapsed
<1>10. ASSUME NEW c \in Connections, RequestFails(c) PROVE Same
  BY <1>10 DEF RequestFails, redisVars, TypeOK, Visits, Visiting, Unlapsed
<1>11. ASSUME NEW c \in Connections, DisconnectRead(c) \/ DisconnectDelete(c) PROVE Same
  BY <1>11 DEF DisconnectRead, DisconnectDelete, redisVars, TypeOK, Visits, Visiting, Unlapsed
<1>12. ASSUME NEW c \in Connections, NEW s \in Symbols, LeaseLapses(c, s) PROVE Same
  <2>1. \A d \in Connections, t \in Symbols :
          d \in Unlapsed(t) /\ ~(d = c /\ t = s) => d \in Unlapsed(t)'
    BY <1>12 DEF LeaseLapses, Unlapsed, TypeOK
  <2>2. \A d \in Connections, t \in Symbols : Visits(d, t)' <=> Visits(d, t)
    BY <1>12 DEF LeaseLapses, connVars, Visits
  <2>3. QED
    BY <1>12, <2>1, <2>2 DEF LeaseLapses, connVars
<1>13. ASSUME NEW c \in Connections, ConnectionKeyExpires(c) PROVE Same
  BY <1>13 DEF ConnectionKeyExpires, connVars, Visits, Unlapsed
<1>14. ASSUME NEW i \in Instances, NEW s \in Symbols, ReleaseStep(i, s) PROVE Same
  <2>1. PurgeAll \/ SetMembers(s, Unlapsed(s))
    BY <1>14 DEF ReleaseStep, ReleaseScript, ReleaseReply
  <2>2. \A t \in Symbols : Unlapsed(t)' = Unlapsed(t)
    BY <2>1, PurgeKeepsUnlapsed
  <2>3. \/ active' = active
        \/ active' = [active EXCEPT ![s] = FALSE] /\ Unlapsed(s) = {}
    BY <1>14 DEF ReleaseStep, ReleaseScript, ReleaseReply, Releasable
  <2>4. \A d \in Connections, t \in Symbols : Visits(d, t)' <=> Visits(d, t)
    BY <1>14 DEF ReleaseStep, ReleaseScript, ReleaseReply, connVars, Visits
  <2>5. pc' = pc
    BY <1>14 DEF ReleaseStep, ReleaseScript, ReleaseReply, connVars
  <2>6. QED
    BY <2>2, <2>3, <2>4, <2>5 DEF ActivatorOK, TypeOK
<1>15. ASSUME NEW i \in Instances, NEW s \in Symbols, ReleaseFails(i, s) \/ SweepCount(i, s)
       PROVE  Same
  BY <1>15 DEF ReleaseFails, SweepCount, redisVars, connVars, Visits, Unlapsed
<1>16. ASSUME NEW i \in Instances, SweepPurge(i) \/ SweepCheck(i) \/ RefreshMetrics(i) PROVE Same
  <2>1. \/ PurgeAll \/ (members' = members /\ lapsed' = lapsed)
        \/ SetMembers(sweep[i].symbol, Unlapsed(sweep[i].symbol))
    BY <1>16 DEF SweepPurge, SweepCheck, RefreshMetrics, redisVars
  <2>2. \A t \in Symbols : Unlapsed(t) \subseteq Unlapsed(t)'
    BY <2>1, PurgeKeepsUnlapsed DEF Unlapsed
  <2>3. QED
    BY <1>16, <2>2 DEF SweepPurge, SweepCheck, RefreshMetrics, redisVars, connVars, Visits
<1>17. ASSUME NEW i \in Instances, Crash(i) PROVE Same
  BY <1>17 DEF Crash, redisVars, Visits, Visiting, Unlapsed
<1>18. ASSUME UNCHANGED vars PROVE Same
  BY <1>18 DEF vars, redisVars, connVars, Visits, Unlapsed
<1> HIDE DEF Same
<1>19. QED
  BY <1>0, <1>1, <1>2, <1>3, <1>4, <1>5, <1>6, <1>7, <1>8, <1>9, <1>10, <1>11, <1>12, <1>13,
     <1>14, <1>15, <1>16, <1>17, <1>18 DEF Next, HandlerStep

\* The upstream state changes by SET NX and by the release script.
LEMMA ActiveChanges ==
  ASSUME TypeOK, [Next]_vars, NEW s \in Symbols, active'[s] # active[s]
  PROVE  \/ /\ active[s] /\ ~active'[s] /\ Releasable(s)
            /\ \E i \in Instances : ReleaseScript(i, s)
         \/ /\ ~active[s] /\ active'[s]
            /\ \E c \in Connections : Activate(c) /\ current[c] = s
<1>1. \/ \E i \in Instances, t \in Symbols : ReleaseScript(i, t)
      \/ \E c \in Connections : Activate(c)
  <2>1. active' # active
    OBVIOUS
  <2>2. QED
    BY <2>1, ZenonT(30) DEF Next, HandlerStep, RequestSubscribe, RequestUnsubscribe, SubscribeScript,
       SubscribeReply, PublishSubscribe, FinishCall, UnsubscribeScript, UnsubscribeReply,
       DisconnectRead, DisconnectDelete, ClientLeaves, RequestFails, HeartbeatRead,
       HeartbeatWrite, HeartbeatLate, LeaseLapses, ConnectionKeyExpires, ReleaseStep,
       ReleaseReply, ReleaseFails, SweepCount, SweepPurge, SweepCheck, RefreshMetrics,
       Crash, redisVars, vars
<1>2. ASSUME NEW i \in Instances, NEW t \in Symbols, ReleaseScript(i, t)
      PROVE  t = s /\ active[s] /\ ~active'[s] /\ Releasable(s)
  BY <1>2 DEF ReleaseScript, Releasable, TypeOK
<1>3. ASSUME NEW c \in Connections, Activate(c)
      PROVE  current[c] = s /\ ~active[s] /\ active'[s]
  BY <1>3 DEF Activate, TypeOK
<1>4. QED
  BY <1>1, <1>2, <1>3

-----------------------------------------------------------------------------
(* What holds for any number of instances *)

\* The registry starts with empty keys and without a call under way.
LEMMA InitInv ==
  ASSUME Init
  PROVE  RegistryInv
<1>1. TypeOK
  BY RegistryAssumption DEF Init, TypeOK, Stages, Visiting, TaskStages, NoSweep
<1>2. BeatingIsMember /\ ActivatorOK /\ SingleActivator
  BY DEF Init, BeatingIsMember, ActivatorOK, SingleActivator, Visits, Visiting, Publishing
<1>3. QED
  BY <1>1, <1>2 DEF RegistryInv

\* The inductive invariant of the registry holds in every reachable state.
THEOREM RegistryInvariant == Spec => []RegistryInv
<1>1. ASSUME RegistryInv, [Next]_vars PROVE RegistryInv'
  <2>1. TypeOK'
    BY <1>1, TypeStep DEF RegistryInv
  <2>2. BeatingIsMember'
    BY <1>1, <2>1, MemberStep DEF RegistryInv
  <2>3. ActivatorOK' /\ SingleActivator'
    BY <1>1, <2>1, ActivatorStep DEF RegistryInv
  <2>4. QED
    BY <2>1, <2>2, <2>3 DEF RegistryInv
<1>2. QED
  BY InitInv, <1>1, PTL DEF Spec

\* Every reachable state of the registry is well typed.
THEOREM RegistryTypeCorrect == Spec => []TypeOK
BY RegistryInvariant, PTL DEF RegistryInv

\* A connection whose heartbeats come in time is a live member of every symbol
\* in its connection key, whatever purges, releases and sweeps the instances run.
THEOREM LiveConnectionIsMember == Spec => []BeatingIsMember
BY RegistryInvariant, PTL DEF RegistryInv

\* At most one connection is between its successful SET NX and its control
\* message for a symbol, whatever leases lapse and whatever fails.
THEOREM OneLiveActivator == Spec => []SingleActivator
BY RegistryInvariant, PTL DEF RegistryInv

-----------------------------------------------------------------------------
(* Before the first fault: demand and upstream agree *)

\* The handler of c will set the upstream state of s: it added the first
\* member.
Activating(s, c) ==
  /\ current[c] = s
  /\ pc[c] = "setnx" \/ (pc[c] = "subscribed" /\ count[c] = 1)

\* The handler of c has removed the last member of s and will schedule the
\* release.
Leaving(s, c) ==
  /\ current[c] = s /\ count[c] = 0
  /\ pc[c] \in {"unsubscribed", "closingReply"}

\* A symbol with a member has its upstream state, or a handler about to set it.
DemandOK ==
  \A s \in Symbols \ revived : members[s] # {} =>
    active[s] \/ \E c \in Connections : Activating(s, c)

\* The upstream state is set only for a symbol that is subscribed upstream or
\* for which a handler is about to publish.
ActiveOK ==
  \A s \in Symbols \ overtaken : active[s] =>
    upstream[s] \/ \E c \in Connections : Publishing(c, s)

ServedInv == DemandOK /\ ActiveOK

\* A symbol subscribed upstream has its state, or a task that will unsubscribe
\* it, or a handler about to set the state again.
UpstreamOK ==
  \A s \in Symbols \ unattended : upstream[s] =>
    \/ active[s]
    \/ \E i \in Instances : task[i][s] = "released"
    \/ \E c \in Connections : Activating(s, c)

\* A symbol subscribed upstream for nobody has a task, a sweep or a handler
\* that will schedule one.
UnusedOK ==
  \A s \in Symbols \ unattended : members[s] = {} /\ upstream[s] =>
    \/ \E i \in Instances : task[i][s] \in {"grace", "released"} \/ sweep[i].symbol = s
    \/ \E c \in Connections : Leaving(s, c)

ReleaseInv == UpstreamOK /\ UnusedOK

\* In a step after which there was no fault yet, no request fails and no
\* instance crashes.
LEMMA NoFault ==
  ASSUME TypeOK, faults' = 0
  PROVE  /\ \A c \in Connections : ~RequestFails(c)
         /\ \A i \in Instances : ~Crash(i) /\ \A s \in Symbols : ~ReleaseFails(i, s)
<1>1. faults' # faults + 1
  BY DEF TypeOK
<1>2. QED
  BY <1>1 DEF RequestFails, Crash, ReleaseFails

\* Faults are only counted up, and the history only grows.
LEMMA HistoryGrows ==
  ASSUME TypeOK, [Next]_vars
  PROVE  /\ faults' = 0 => faults = 0
         /\ revived \subseteq revived' /\ overtaken \subseteq overtaken'
         /\ unattended \subseteq unattended'
<1> DEFINE Grows == /\ faults' = 0 => faults = 0
                    /\ revived \subseteq revived' /\ overtaken \subseteq overtaken'
                    /\ unattended \subseteq unattended'
<1>0. faults \in Nat
  BY RegistryAssumption DEF TypeOK
<1>1. ASSUME NEW c \in Connections, RequestFails(c) PROVE Grows
  BY <1>0, <1>1 DEF RequestFails, history
<1>2. ASSUME NEW i \in Instances, Crash(i) \/ \E s \in Symbols : ReleaseFails(i, s) PROVE Grows
  BY <1>0, <1>2 DEF Crash, ReleaseFails, history
<1>3. ASSUME NEW c \in Connections, NEW symbols \in SUBSET Symbols,
             RequestSubscribe(c, symbols) \/ RequestUnsubscribe(c, symbols)
      PROVE  Grows
  BY <1>3 DEF RequestSubscribe, RequestUnsubscribe, history
<1>4. ASSUME NEW c \in Connections, HandlerStep(c) PROVE Grows
  BY <1>4 DEF HandlerStep, SubscribeScript, SubscribeReply, SendUnsubscribe, Activate,
     PublishSubscribe, FinishCall, UnsubscribeScript, UnsubscribeReply, ScheduleRelease,
     DisconnectRead, DisconnectDelete, history
<1>5. ASSUME NEW c \in Connections,
             \/ ClientLeaves(c) \/ HeartbeatRead(c) \/ HeartbeatWrite(c) \/ HeartbeatLate(c)
             \/ ConnectionKeyExpires(c) \/ \E s \in Symbols : LeaseLapses(c, s)
      PROVE  Grows
  BY <1>5 DEF ClientLeaves, HeartbeatRead, HeartbeatWrite, HeartbeatLate, ConnectionKeyExpires,
     LeaseLapses, history
<1>6. ASSUME NEW i \in Instances, NEW s \in Symbols, ReleaseStep(i, s) \/ SweepCount(i, s)
      PROVE  Grows
  BY <1>6 DEF ReleaseStep, ReleaseScript, ReleaseReply, SendUnsubscribe, SweepCount, history
<1>7. ASSUME NEW i \in Instances, SweepPurge(i) \/ SweepCheck(i) \/ RefreshMetrics(i) PROVE Grows
  BY <1>7 DEF SweepPurge, SweepCheck, ScheduleRelease, RefreshMetrics, history
<1>8. ASSUME UNCHANGED vars PROVE Grows
  BY <1>8 DEF vars, history
<1> HIDE DEF Grows
<1>9. Grows
  BY <1>1, <1>2, <1>3, <1>4, <1>5, <1>6, <1>7, <1>8, Zenon DEF Next
<1>10. QED
  BY <1>9 DEF Grows

\* What the call of a handler waits for changes only by its own reply.
LEMMA HandlerMoves ==
  ASSUME TypeOK, faults' = 0, [Next]_vars, NEW w \in Connections
  PROVE  \/ pc'[w] = pc[w] /\ current'[w] = current[w] /\ count'[w] = count[w]
         \/ SubscribeReply(w) \/ Activate(w) \/ PublishSubscribe(w) \/ UnsubscribeReply(w)
         \/ /\ pc[w] \notin {"subscribed", "setnx", "publish", "unsubscribed", "closingReply"}
            /\ pc'[w] \notin {"setnx", "publish"}
<1> DEFINE Kept == pc'[w] = pc[w] /\ current'[w] = current[w] /\ count'[w] = count[w]
           Else == /\ pc[w] \notin {"subscribed", "setnx", "publish", "unsubscribed", "closingReply"}
                   /\ pc'[w] \notin {"setnx", "publish"}
<1>1. ASSUME NEW c \in Connections, NEW symbols \in SUBSET Symbols,
             RequestSubscribe(c, symbols) \/ RequestUnsubscribe(c, symbols)
      PROVE  Kept \/ Else
  BY <1>1 DEF RequestSubscribe, RequestUnsubscribe, TypeOK
<1>2. ASSUME NEW c \in Connections, SubscribeScript(c) \/ UnsubscribeScript(c) PROVE Kept \/ Else
  <2>1. pc[c] \in {"subscribe", "unsubscribe", "closing"}
    BY <1>2 DEF SubscribeScript, UnsubscribeScript
  <2>2. \E x \in {"subscribed", "unsubscribed", "closingReply"} : pc' = [pc EXCEPT ![c] = x]
    BY <1>2 DEF SubscribeScript, UnsubscribeScript
  <2>3. /\ \E x : current' = [current EXCEPT ![c] = x]
        /\ \E x : count' = [count EXCEPT ![c] = x]
    BY <1>2 DEF SubscribeScript, UnsubscribeScript
  <2>4. QED
    BY <2>1, <2>2, <2>3 DEF TypeOK
<1>3. ASSUME NEW c \in Connections, c # w,
             SubscribeReply(c) \/ Activate(c) \/ PublishSubscribe(c) \/ UnsubscribeReply(c)
      PROVE  Kept
  BY <1>3 DEF SubscribeReply, Activate, PublishSubscribe, UnsubscribeReply, TypeOK
<1>4. ASSUME NEW c \in Connections, FinishCall(c) PROVE Kept \/ Else
  BY <1>4 DEF FinishCall, TypeOK
<1>5. ASSUME NEW c \in Connections,
             ClientLeaves(c) \/ DisconnectRead(c) \/ DisconnectDelete(c)
      PROVE  Kept \/ Else
  BY <1>5 DEF ClientLeaves, DisconnectRead, DisconnectDelete, TypeOK
<1>6. ASSUME NEW c \in Connections,
             \/ HeartbeatRead(c) \/ HeartbeatWrite(c) \/ HeartbeatLate(c)
             \/ ConnectionKeyExpires(c)
             \/ \E s \in Symbols : LeaseLapses(c, s)
      PROVE  Kept
  BY <1>6 DEF HeartbeatRead, HeartbeatWrite, HeartbeatLate, ConnectionKeyExpires, LeaseLapses,
     connVars
<1>7. ASSUME NEW i \in Instances,
             \/ SweepPurge(i) \/ SweepCheck(i) \/ RefreshMetrics(i)
             \/ \E s \in Symbols : ReleaseStep(i, s) \/ SweepCount(i, s)
      PROVE  Kept
  BY <1>7 DEF SweepPurge, SweepCheck, RefreshMetrics, ReleaseStep, ReleaseScript,
     ReleaseReply, SweepCount, connVars
<1>8. ASSUME UNCHANGED vars PROVE Kept
  BY <1>8 DEF vars, connVars
<1> HIDE DEF Kept, Else
<1>9. Kept \/ Else \/ SubscribeReply(w) \/ Activate(w) \/ PublishSubscribe(w) \/ UnsubscribeReply(w)
  BY <1>1, <1>2, <1>3, <1>4, <1>5, <1>6, <1>7, <1>8, NoFault DEF Next, HandlerStep
<1>10. QED
  BY <1>9 DEF Kept, Else

\* The control stream: only an activator subscribes a symbol upstream, only a
\* release that was under way unsubscribes it.
LEMMA UpstreamChanges ==
  ASSUME TypeOK, [Next]_vars, NEW s \in Symbols, upstream'[s] # upstream[s]
  PROVE  \/ /\ upstream'[s]
            /\ \E c \in Connections : PublishSubscribe(c) /\ current[c] = s
         \/ /\ ~upstream'[s]
            /\ SendUnsubscribe(s)
<1>1. \/ \E i \in Instances, t \in Symbols : ReleaseReply(i, t)
      \/ \E c \in Connections : PublishSubscribe(c) \/ SubscribeReply(c)
  <2> DEFINE Same == upstream' = upstream
  <2>1. ASSUME NEW c \in Connections, NEW symbols \in SUBSET Symbols,
               RequestSubscribe(c, symbols) \/ RequestUnsubscribe(c, symbols)
        PROVE  Same
    BY <2>1 DEF RequestSubscribe, RequestUnsubscribe, redisVars
  <2>2. ASSUME NEW c \in Connections, HandlerStep(c)
        PROVE  Same \/ PublishSubscribe(c) \/ SubscribeReply(c)
    BY <2>2 DEF HandlerStep, SubscribeScript, Activate, FinishCall, UnsubscribeScript,
       UnsubscribeReply, DisconnectRead, DisconnectDelete, redisVars
  <2>3. ASSUME NEW c \in Connections,
               \/ ClientLeaves(c) \/ RequestFails(c) \/ HeartbeatLate(c) \/ HeartbeatRead(c)
               \/ HeartbeatWrite(c) \/ ConnectionKeyExpires(c)
               \/ \E t \in Symbols : LeaseLapses(c, t)
        PROVE  Same
    BY <2>3 DEF ClientLeaves, RequestFails, HeartbeatLate, HeartbeatRead, HeartbeatWrite,
       ConnectionKeyExpires, LeaseLapses, redisVars
  <2>4. ASSUME NEW i \in Instances, NEW t \in Symbols,
               ReleaseStep(i, t) \/ ReleaseFails(i, t) \/ SweepCount(i, t)
        PROVE  Same \/ ReleaseReply(i, t)
    BY <2>4 DEF ReleaseStep, ReleaseScript, ReleaseFails, SweepCount, redisVars
  <2>5. ASSUME NEW i \in Instances,
               SweepPurge(i) \/ SweepCheck(i) \/ RefreshMetrics(i) \/ Crash(i)
        PROVE  Same
    BY <2>5 DEF SweepPurge, SweepCheck, RefreshMetrics, Crash, redisVars
  <2>6. ASSUME UNCHANGED vars PROVE Same
    BY <2>6 DEF vars, redisVars
  <2>7. ~Same
    OBVIOUS
  <2> HIDE DEF Same
  <2>8. QED
    BY <2>1, <2>2, <2>3, <2>4, <2>5, <2>6, <2>7, Zenon DEF Next
<1>2. ASSUME NEW i \in Instances, NEW t \in Symbols, ReleaseReply(i, t)
      PROVE  t = s /\ ~upstream'[s] /\ SendUnsubscribe(s)
  BY <1>2 DEF ReleaseReply, SendUnsubscribe, TypeOK
<1>3. ASSUME NEW c \in Connections, PublishSubscribe(c)
      PROVE  current[c] = s /\ upstream'[s]
  BY <1>3 DEF PublishSubscribe, TypeOK
<1>4. ASSUME NEW c \in Connections, SubscribeReply(c)
      PROVE  current[c] = s /\ ~upstream'[s] /\ SendUnsubscribe(s)
  BY <1>4 DEF SubscribeReply, SendUnsubscribe, TypeOK
<1>5. QED
  BY <1>1, <1>2, <1>3, <1>4

\* The release tasks: scheduled by a handler or a sweep, advanced by
\* themselves, cancelled by a subscriber of the same instance.
LEMMA TaskChanges ==
  ASSUME TypeOK, faults' = 0, [Next]_vars, NEW i \in Instances, NEW s \in Symbols,
         task'[i][s] # task[i][s]
  PROVE  \/ task[i][s] = "none" /\ task'[i][s] = "grace"
         \/ ReleaseScript(i, s) /\ task'[i][s] = IF Releasable(s) THEN "released" ELSE "kept"
         \/ ReleaseReply(i, s) /\ task'[i][s] = "none"
         \/ /\ task'[i][s] = "none"
            /\ \E c \in Connections : /\ SubscribeReply(c)
                                      /\ current[c] = s /\ Home[c] = i
<1>1. \/ \E j \in Instances, t \in Symbols : ReleaseScript(j, t) \/ ReleaseReply(j, t)
      \/ \E c \in Connections : SubscribeReply(c) \/ UnsubscribeReply(c)
      \/ \E j \in Instances : SweepCheck(j)
  <2>1. task' # task
    OBVIOUS
  <2>2. QED
    BY <2>1, NoFault DEF Next, HandlerStep, RequestSubscribe, RequestUnsubscribe, SubscribeScript,
       Activate, PublishSubscribe, FinishCall, UnsubscribeScript,
       DisconnectRead, DisconnectDelete, ClientLeaves, HeartbeatRead,
       HeartbeatWrite, HeartbeatLate, LeaseLapses, ConnectionKeyExpires, ReleaseStep,
       SweepCount, SweepPurge, RefreshMetrics, vars
<1>2. ASSUME NEW j \in Instances, NEW t, ScheduleRelease(j, t)
      PROVE  task[i][s] = "none" /\ task'[i][s] = "grace"
  BY <1>2 DEF ScheduleRelease, TypeOK
<1>3. ASSUME NEW j \in Instances, NEW t \in Symbols, ReleaseScript(j, t)
      PROVE  j = i /\ t = s /\ task'[i][s] = IF Releasable(s) THEN "released" ELSE "kept"
  <2>1. task' = [task EXCEPT ![j][t] = IF Releasable(t) THEN "released" ELSE "kept"]
    BY <1>3 DEF ReleaseScript
  <2>2. QED
    BY <2>1 DEF TypeOK
<1>4. ASSUME NEW j \in Instances, NEW t \in Symbols, ReleaseReply(j, t)
      PROVE  j = i /\ t = s /\ task'[i][s] = "none"
  BY <1>4 DEF ReleaseReply, TypeOK
<1>5. ASSUME NEW c \in Connections, SubscribeReply(c)
      PROVE  current[c] = s /\ Home[c] = i /\ task'[i][s] = "none"
  <2>1. task' = [task EXCEPT ![Home[c]][current[c]] = "none"]
    BY <1>5 DEF SubscribeReply
  <2>2. QED
    BY <2>1 DEF TypeOK
<1>6. ASSUME NEW c \in Connections, UnsubscribeReply(c)
      PROVE  ScheduleRelease(Home[c], current[c])
  BY <1>6 DEF UnsubscribeReply
<1>7. ASSUME NEW j \in Instances, SweepCheck(j)
      PROVE  ScheduleRelease(j, sweep[j].symbol)
  BY <1>7 DEF SweepCheck
<1>8. QED
  BY <1>1, <1>2, <1>3, <1>4, <1>5, <1>6, <1>7, RegistryAssumption

\* A state that is set, or about to be set, stays so until a release finds no
\* member.
LEMMA ProvidedStays ==
  ASSUME TypeOK, faults' = 0, [Next]_vars, NEW s \in Symbols,
         active[s] \/ \E c \in Connections : Activating(s, c)
  PROVE  \/ active'[s]
         \/ \E c \in Connections : Activating(s, c)'
         \/ Releasable(s) /\ \E i \in Instances : ReleaseScript(i, s)
<1>1. CASE active[s]
  BY <1>1, ActiveChanges DEF TypeOK
<1>2. ASSUME NEW w \in Connections, Activating(s, w)
      PROVE  active'[s] \/ Activating(s, w)'
  <2>1. CASE pc'[w] = pc[w] /\ current'[w] = current[w] /\ count'[w] = count[w]
    BY <1>2, <2>1 DEF Activating
  <2>2. CASE SubscribeReply(w)
    BY <1>2, <2>2 DEF Activating, SubscribeReply, AfterScript, TypeOK
  <2>3. CASE Activate(w)
    BY <1>2, <2>3 DEF Activating, Activate, TypeOK
  <2>4. CASE PublishSubscribe(w) \/ UnsubscribeReply(w)
    BY <1>2, <2>4 DEF Activating, PublishSubscribe, UnsubscribeReply
  <2>5. CASE pc[w] \notin {"subscribed", "setnx", "publish", "unsubscribed", "closingReply"}
    BY <1>2, <2>5 DEF Activating
  <2>6. QED
    BY <2>1, <2>2, <2>3, <2>4, <2>5, HandlerMoves
<1>3. QED
  BY <1>1, <1>2

\* A handler that activates s, or publishes it, is a live member of it.
LEMMA ActivatorIsMember ==
  ASSUME TypeOK, ActivatorOK, NEW s \in Symbols, NEW c \in Connections,
         Activating(s, c) \/ Publishing(c, s) \/ Visits(c, s)
  PROVE  c \in Unlapsed(s) /\ c \in members[s]
<1>1. Visits(c, s)
  BY DEF Activating, Publishing, Visits, Visiting
<1>2. QED
  BY <1>1 DEF ActivatorOK, Unlapsed

\* A symbol gets its first member by the script of subscribe, whose handler
\* then sets the state, or by a late heartbeat.
LEMMA FirstMember ==
  ASSUME TypeOK, [Next]_vars, faults' = 0, NEW s \in Symbols, s \notin revived',
         members[s] = {}, members'[s] # {}
  PROVE  \E c \in Connections : Activating(s, c)'
<1> DEFINE Kept == members'[s] = members[s]
<1>0. Unlapsed(s) = {}
  BY DEF Unlapsed
<1>1. ASSUME NEW c \in Connections, SubscribeScript(c) PROVE Kept \/ Activating(s, c)'
  <2>1. PICK t \in todo[c] :
          /\ SetMembers(t, Unlapsed(t) \cup {c})
          /\ count' = [count EXCEPT ![c] = CardUpTo2(Unlapsed(t) \cup {c})]
          /\ current' = [current EXCEPT ![c] = t]
    BY <1>1 DEF SubscribeScript
  <2>2. CASE t = s
    <3>1. Unlapsed(t) \cup {c} = {c} /\ Cardinality({c}) = 1
      BY <1>0, <2>2, FS_Singleton
    <3>2. count'[c] = 1 /\ current'[c] = s /\ pc'[c] = "subscribed"
      BY <1>1, <2>1, <2>2, <3>1, ZenonT(30) DEF CardUpTo2, TypeOK, SubscribeScript
    <3>3. QED
      BY <3>2 DEF Activating
  <2>3. CASE t # s
    BY <2>1, <2>3 DEF SetMembers, TypeOK
  <2>4. QED
    BY <2>2, <2>3
<1>2. ASSUME NEW c \in Connections, UnsubscribeScript(c) PROVE Kept
  BY <1>0, <1>2 DEF UnsubscribeScript, SetMembers, TypeOK
<1>3. ASSUME NEW c \in Connections, HeartbeatWrite(c) PROVE Kept
  <2>1. s \notin beat[c]
    BY <1>3 DEF HeartbeatWrite
  <2>2. QED
    BY <1>3, <2>1 DEF HeartbeatWrite, TypeOK
<1>4. ASSUME PurgeAll \/ members' = members \/ \E t \in Symbols \cup {NoSymbol} : SetMembers(t, Unlapsed(t))
      PROVE  Kept
  BY <1>0, <1>4 DEF PurgeAll, SetMembers, TypeOK
<1>5. ASSUME NEW c \in Connections,
             \/ \E symbols \in SUBSET Symbols :
                  RequestSubscribe(c, symbols) \/ RequestUnsubscribe(c, symbols)
             \/ SubscribeReply(c) \/ Activate(c) \/ PublishSubscribe(c) \/ UnsubscribeReply(c)
             \/ FinishCall(c) \/ ClientLeaves(c) \/ DisconnectRead(c) \/ DisconnectDelete(c)
             \/ HeartbeatRead(c) \/ HeartbeatLate(c) \/ ConnectionKeyExpires(c)
             \/ \E t \in Symbols : LeaseLapses(c, t)
      PROVE  Kept
  BY <1>4, <1>5 DEF RequestSubscribe, RequestUnsubscribe, SubscribeReply, Activate,
     PublishSubscribe, UnsubscribeReply, FinishCall, ClientLeaves, DisconnectRead,
     DisconnectDelete, HeartbeatRead, HeartbeatLate, ConnectionKeyExpires, LeaseLapses, redisVars
<1>6. ASSUME NEW i \in Instances,
             \/ \E t \in Symbols : ReleaseStep(i, t) \/ SweepCount(i, t)
             \/ SweepPurge(i) \/ SweepCheck(i) \/ RefreshMetrics(i)
      PROVE  Kept
  <2>1. sweep[i].symbol \in Symbols \cup {NoSymbol}
    BY DEF TypeOK
  <2>2. QED
    BY <1>4, <1>6, <2>1 DEF ReleaseStep, ReleaseScript, ReleaseReply, SweepCount, SweepPurge,
       SweepCheck, RefreshMetrics, redisVars
<1>7. ASSUME UNCHANGED vars PROVE Kept
  BY <1>7 DEF vars, redisVars
<1>8. ~Kept
  OBVIOUS
<1> HIDE DEF Kept
<1>9. QED
  BY <1>1, <1>2, <1>3, <1>5, <1>6, <1>7, <1>8, NoFault DEF Next, HandlerStep

\* Every step keeps the demand served: the count in the script of subscribe,
\* SET NX, the cancelled task and the release script work together, on any
\* number of instances.
LEMMA ServedStep ==
  ASSUME RegistryInv, RegistryInv', ServedInv, faults' = 0, [Next]_vars
  PROVE  ServedInv'
<1> USE DEF ServedInv
<1>0. TypeOK /\ TypeOK' /\ ActivatorOK
  BY DEF RegistryInv
<1>1. DemandOK'
  <2>1. SUFFICES ASSUME NEW s \in Symbols, s \notin revived', members'[s] # {},
                        \A c \in Connections : ~Activating(s, c)'
                 PROVE  active'[s]
    BY DEF DemandOK
  <2>2. s \notin revived /\ members[s] # {}
    BY <1>0, <2>1, FirstMember, HistoryGrows
  <2>3. active[s] \/ \E c \in Connections : Activating(s, c)
    BY <2>2 DEF DemandOK
  <2>4. ASSUME NEW i \in Instances, ReleaseScript(i, s), Releasable(s) PROVE FALSE
    BY <1>0, <2>1, <2>4 DEF ReleaseScript, Releasable, SetMembers, TypeOK
  <2>5. QED
    BY <1>0, <2>1, <2>3, <2>4, ProvidedStays
<1>2. ActiveOK'
  <2>1. SUFFICES ASSUME NEW s \in Symbols, s \notin overtaken', active'[s], ~upstream'[s]
                 PROVE  \E c \in Connections : Publishing(c, s)'
    BY DEF ActiveOK
  <2>2. CASE ~active[s]
    <3>1. PICK c \in Connections : Activate(c) /\ current[c] = s
      BY <1>0, <2>1, <2>2, ActiveChanges
    <3>2. pc'[c] = "publish" /\ current'[c] = s
      BY <1>0, <2>2, <3>1 DEF Activate, TypeOK
    <3>3. QED
      BY <3>2 DEF Publishing
  <2>3. CASE active[s]
    <3>1. \E c \in Connections : Publishing(c, s)
      <4>1. CASE upstream[s]
        <5>1. SendUnsubscribe(s)
          BY <1>0, <2>1, <4>1, UpstreamChanges
        <5>2. QED
          BY <2>1, <2>3, <5>1 DEF SendUnsubscribe
      <4>2. CASE ~upstream[s]
        BY <1>0, <2>1, <2>3, <4>2, HistoryGrows DEF ActiveOK
      <4>3. QED
        BY <4>1, <4>2
    <3>2. PICK w \in Connections : pc[w] = "publish" /\ current[w] = s
      BY <3>1 DEF Publishing
    <3>3. ~PublishSubscribe(w)
      BY <1>0, <2>1, <3>2 DEF PublishSubscribe, TypeOK
    <3>4. pc'[w] = pc[w] /\ current'[w] = current[w]
      BY <1>0, <3>2, <3>3, HandlerMoves DEF SubscribeReply, Activate, UnsubscribeReply
    <3>5. QED
      BY <3>2, <3>4 DEF Publishing
  <2>4. QED
    BY <2>2, <2>3
<1>3. QED
  BY <1>1, <1>2

\* Up to the first fault, and but for a late heartbeat that adds a connection
\* again and an unsubscribe message that comes late, every symbol with a member
\* is subscribed upstream once no call and no release is under way.
THEOREM DemandIsServed == Spec => []SubscribedIsServed
<1>1. Init => ServedInv
  BY DEF Init, ServedInv, DemandOK, ActiveOK
<1>2. RegistryInv /\ RegistryInv' /\ (faults = 0 => ServedInv) /\ [Next]_vars
        => (faults = 0 => ServedInv)'
  BY ServedStep, HistoryGrows DEF RegistryInv
<1>3. (faults = 0 => ServedInv) => SubscribedIsServed
  <2>1. SUFFICES ASSUME ServedInv, NEW s \in Symbols, s \notin revived \cup overtaken,
                        Quiet(s), members[s] # {}
                 PROVE  upstream[s]
    BY DEF SubscribedIsServed
  <2>2. \A c \in Connections : pc[c] \in Calling => current[c] # s
    BY <2>1 DEF Quiet
  <2>3. active[s]
    BY <2>1, <2>2 DEF ServedInv, DemandOK, Activating, Calling
  <2>4. QED
    BY <2>1, <2>2, <2>3 DEF ServedInv, ActiveOK, Publishing, Calling
<1>4. QED
  BY <1>1, <1>2, <1>3, RegistryInvariant, PTL DEF Spec

-----------------------------------------------------------------------------
(* Before the first fault: what nobody uses has its release *)

\* A purge by refresh_metrics that takes the last member is recorded.
LEMMA PurgeIsRecorded ==
  ASSUME NEW s \in Symbols, PurgeAll, Emptied \subseteq unattended', s \notin unattended',
         members[s] # {}
  PROVE  members'[s] # {}
<1>1. members'[s] = Unlapsed(s)
  BY DEF PurgeAll
<1>2. QED
  BY <1>1 DEF Emptied

\* A symbol loses its last member by the script of unsubscribe, whose handler
\* then schedules the release, by the release script, by a sweep that visits it,
\* or by the purge of refresh_metrics.
LEMMA LastMemberLeaves ==
  ASSUME TypeOK, [Next]_vars, faults' = 0, NEW s \in Symbols, s \notin unattended',
         members[s] # {}, members'[s] = {}
  PROVE  \/ \E c \in Connections : Leaving(s, c)'
         \/ \E i \in Instances : ReleaseScript(i, s) /\ Unlapsed(s) = {}
         \/ \E i \in Instances : sweep'[i].symbol = s
<1> DEFINE Kept == members'[s] # {}
<1>1. ASSUME NEW c \in Connections, UnsubscribeScript(c) PROVE Kept \/ Leaving(s, c)'
  <2>1. PICK t \in todo[c] :
          /\ SetMembers(t, Unlapsed(t) \ {c})
          /\ count' = [count EXCEPT ![c] = CardUpTo2(Unlapsed(t) \ {c})]
          /\ current' = [current EXCEPT ![c] = t]
    BY <1>1 DEF UnsubscribeScript
  <2>2. CASE t = s
    <3>1. Unlapsed(t) \ {c} = {}
      BY <2>1, <2>2 DEF SetMembers, TypeOK
    <3>2. count'[c] = 0 /\ current'[c] = s
      BY <2>1, <2>2, <3>1 DEF CardUpTo2, TypeOK
    <3>3. pc'[c] \in {"unsubscribed", "closingReply"}
      BY <1>1 DEF UnsubscribeScript, TypeOK
    <3>4. QED
      BY <3>2, <3>3 DEF Leaving
  <2>3. CASE t # s
    BY <2>1, <2>3 DEF SetMembers, TypeOK
  <2>4. QED
    BY <2>2, <2>3
<1>2. ASSUME NEW c \in Connections, SubscribeScript(c) PROVE Kept
  <2>1. PICK t \in todo[c] : SetMembers(t, Unlapsed(t) \cup {c})
    BY <1>2 DEF SubscribeScript
  <2>2. QED
    BY <2>1 DEF SetMembers, TypeOK
<1>3. ASSUME NEW c \in Connections, HeartbeatWrite(c) PROVE Kept
  <2>1. members'[s] = IF s \in beat[c] THEN members[s] \cup {c} ELSE members[s]
    BY <1>3 DEF HeartbeatWrite
  <2>2. QED
    BY <2>1
<1>4. ASSUME members' = members PROVE Kept
  BY <1>4
<1>5. ASSUME NEW c \in Connections, SubscribeReply(c) PROVE Kept
  <2>1. CASE task[Home[c]][current[c]] = "none"
    BY <1>4, <1>5, <2>1 DEF SubscribeReply
  <2>2. CASE task[Home[c]][current[c]] # "none"
    <3>1. PurgeAll /\ Emptied \subseteq unattended'
      BY <1>5, <2>2 DEF SubscribeReply
    <3>2. QED
      BY <3>1, PurgeIsRecorded
  <2>3. QED
    BY <2>1, <2>2
<1>6. ASSUME NEW c \in Connections, FinishCall(c) PROVE Kept
  BY <1>6, PurgeIsRecorded DEF FinishCall
<1>7. ASSUME NEW c \in Connections,
             \/ \E symbols \in SUBSET Symbols :
                  RequestSubscribe(c, symbols) \/ RequestUnsubscribe(c, symbols)
             \/ Activate(c) \/ PublishSubscribe(c) \/ UnsubscribeReply(c)
             \/ ClientLeaves(c) \/ DisconnectRead(c) \/ DisconnectDelete(c)
             \/ HeartbeatRead(c) \/ HeartbeatLate(c) \/ ConnectionKeyExpires(c)
             \/ \E t \in Symbols : LeaseLapses(c, t)
      PROVE  Kept
  BY <1>4, <1>7 DEF RequestSubscribe, RequestUnsubscribe, Activate, PublishSubscribe,
     UnsubscribeReply, ClientLeaves, DisconnectRead, DisconnectDelete, HeartbeatRead,
     HeartbeatLate, ConnectionKeyExpires, LeaseLapses, redisVars
<1>8. ASSUME NEW i \in Instances, NEW t \in Symbols, ReleaseScript(i, t)
      PROVE  Kept \/ (t = s /\ Unlapsed(s) = {})
  BY <1>8 DEF ReleaseScript, SetMembers, TypeOK
<1>9. ASSUME NEW i \in Instances, NEW t \in Symbols, ReleaseReply(i, t) PROVE Kept
  BY <1>9, PurgeIsRecorded DEF ReleaseReply
<1>10. ASSUME NEW i \in Instances, SweepPurge(i) PROVE Kept \/ sweep'[i].symbol = s
  <2>1. SetMembers(sweep[i].symbol, Unlapsed(sweep[i].symbol))
    BY <1>10 DEF SweepPurge
  <2>2. sweep'[i].symbol = sweep[i].symbol
    BY <1>10 DEF SweepPurge, TypeOK
  <2>3. QED
    BY <2>1, <2>2 DEF SetMembers, TypeOK
<1>11. ASSUME NEW i \in Instances, RefreshMetrics(i) PROVE Kept
  BY <1>11, PurgeIsRecorded DEF RefreshMetrics
<1>12. ASSUME NEW i \in Instances, SweepCheck(i) \/ \E t \in Symbols : SweepCount(i, t) PROVE Kept
  BY <1>4, <1>12 DEF SweepCheck, SweepCount, redisVars
<1>13. ASSUME UNCHANGED vars PROVE Kept
  BY <1>4, <1>13 DEF vars, redisVars
<1>14. ~Kept
  OBVIOUS
<1> HIDE DEF Kept
<1>15. QED
  BY <1>1, <1>2, <1>3, <1>5, <1>6, <1>7, <1>8, <1>9, <1>10, <1>11, <1>12, <1>13, <1>14, NoFault
     DEF Next, HandlerStep, ReleaseStep

\* A sweep that visits s goes on to its next command and, when it finds no
\* member, schedules the release.
LEMMA SweepGoesOn ==
  ASSUME TypeOK, [Next]_vars, faults' = 0, NEW s \in Symbols, NEW i \in Instances,
         sweep[i].symbol = s, members[s] = {}
  PROVE  sweep'[i].symbol = s \/ ScheduleRelease(i, s)
<1>1. CASE sweep' = sweep
  BY <1>1
<1>2. ASSUME NEW j \in Instances, SweepCheck(j) PROVE sweep'[i].symbol = s \/ ScheduleRelease(i, s)
  <2>1. CASE j = i
    BY <1>2, <2>1 DEF SweepCheck
  <2>2. CASE j # i
    BY <1>2, <2>2 DEF SweepCheck, TypeOK
  <2>3. QED
    BY <2>1, <2>2
<1>3. ASSUME NEW j \in Instances, SweepPurge(j) PROVE sweep'[i].symbol = s
  BY <1>3 DEF SweepPurge, TypeOK
<1>4. ASSUME NEW j \in Instances, NEW t \in Symbols, SweepCount(j, t) PROVE sweep'[i].symbol = s
  <2>1. j # i
    BY <1>4, RegistryAssumption DEF SweepCount, NoSweep
  <2>2. QED
    BY <1>4, <2>1 DEF SweepCount, TypeOK
<1>5. QED
  BY <1>1, <1>2, <1>3, <1>4, NoFault, ZenonT(60) DEF Next, HandlerStep, RequestSubscribe,
     RequestUnsubscribe, SubscribeScript, SubscribeReply, Activate, PublishSubscribe, FinishCall,
     UnsubscribeScript, UnsubscribeReply, DisconnectRead, DisconnectDelete, ClientLeaves,
     HeartbeatRead, HeartbeatWrite, HeartbeatLate, LeaseLapses, ConnectionKeyExpires, ReleaseStep,
     ReleaseScript, ReleaseReply, RefreshMetrics, vars

\* Scheduling leaves a task that will release, unless one whose script has
\* already run is kept.
LEMMA Scheduled ==
  ASSUME TypeOK, NEW i \in Instances, NEW s \in Symbols, ScheduleRelease(i, s),
         s \notin unattended'
  PROVE  task'[i][s] \in {"grace", "released"}
BY DEF ScheduleRelease, TypeOK, TaskStages

\* Every step keeps what is subscribed upstream accounted for.
LEMMA UpstreamStep ==
  ASSUME RegistryInv, RegistryInv', UpstreamOK, faults' = 0, [Next]_vars
  PROVE  UpstreamOK'
<1>0. TypeOK /\ TypeOK' /\ ActivatorOK
  BY DEF RegistryInv
<1>1. SUFFICES ASSUME NEW s \in Symbols, s \notin unattended', upstream'[s], ~active'[s],
                      \A c \in Connections : ~Activating(s, c)'
               PROVE  \E i \in Instances : task'[i][s] = "released"
  BY DEF UpstreamOK
<1>2. ASSUME active[s] \/ \E c \in Connections : Activating(s, c)
      PROVE  \E i \in Instances : task'[i][s] = "released"
  <2>1. PICK i \in Instances : ReleaseScript(i, s) /\ Releasable(s)
    BY <1>0, <1>1, <1>2, ProvidedStays
  <2>2. task'[i][s] = "released"
    BY <1>0, <2>1 DEF ReleaseScript, TypeOK
  <2>3. QED
    BY <2>2
<1>3. CASE ~upstream[s]
  <2>1. PICK c \in Connections : PublishSubscribe(c) /\ current[c] = s
    BY <1>0, <1>1, <1>3, UpstreamChanges
  <2>2. active[s]
    BY <1>0, <2>1 DEF PublishSubscribe, ActivatorOK, Publishing
  <2>3. QED
    BY <1>2, <2>2
<1>4. CASE \E i \in Instances : task[i][s] = "released"
  <2>1. PICK i \in Instances : task[i][s] = "released"
    BY <1>4
  <2>2. CASE task'[i][s] = "released"
    BY <2>2
  <2>3. ~ReleaseReply(i, s)
    BY <1>0, <1>1, <2>1 DEF ReleaseReply, SendUnsubscribe, TypeOK
  <2>4. ASSUME NEW c \in Connections, SubscribeReply(c), current[c] = s, Home[c] = i
        PROVE  FALSE
    <3>1. ~SendUnsubscribe(s)
      BY <1>0, <1>1 DEF SendUnsubscribe, TypeOK
    <3>2. count[c] = 1
      BY <1>1, <2>1, <2>4, <3>1 DEF SubscribeReply
    <3>3. Activating(s, c)'
      BY <1>0, <2>4, <3>2 DEF SubscribeReply, AfterScript, Activating, TypeOK
    <3>4. QED
      BY <1>1, <3>3
  <2>5. ~ReleaseScript(i, s)
    BY <2>1 DEF ReleaseScript
  <2>6. QED
    BY <1>0, <2>1, <2>2, <2>3, <2>4, <2>5, TaskChanges
<1>5. s \notin unattended
  BY <1>0, <1>1, HistoryGrows
<1>6. QED
  BY <1>2, <1>3, <1>4, <1>5 DEF UpstreamOK

\* Every step keeps a release under way for what nobody uses: the task of a
\* subscriber that is cancelled has a member, a script that keeps its symbol has
\* found a member or another task's release.
LEMMA UnusedStep ==
  ASSUME RegistryInv, RegistryInv', UpstreamOK, UnusedOK, faults' = 0, [Next]_vars
  PROVE  UnusedOK'
<1>0. TypeOK /\ TypeOK' /\ ActivatorOK
  BY DEF RegistryInv
<1>1. SUFFICES ASSUME NEW s \in Symbols, s \notin unattended', members'[s] = {}, upstream'[s]
               PROVE  \/ \E i \in Instances : \/ task'[i][s] \in {"grace", "released"}
                                              \/ sweep'[i].symbol = s
                      \/ \E c \in Connections : Leaving(s, c)'
  BY DEF UnusedOK
<1>2. s \notin unattended
  BY <1>0, <1>1, HistoryGrows
<1>3. ~\E i \in Instances : ReleaseReply(i, s) /\ task[i][s] = "released"
  BY <1>0, <1>1 DEF ReleaseReply, SendUnsubscribe, TypeOK
<1>4. ASSUME NEW i \in Instances, ReleaseScript(i, s), Unlapsed(s) = {}
      PROVE  \E j \in Instances : task'[j][s] = "released"
  <2>1. upstream[s]
    BY <1>1, <1>4 DEF ReleaseScript
  <2>2. active[s] \/ \E j \in Instances : task[j][s] = "released"
    BY <1>0, <1>2, <1>4, <2>1, ActivatorIsMember DEF UpstreamOK
  <2>3. CASE active[s]
    BY <1>0, <1>4, <2>3 DEF ReleaseScript, Releasable, TypeOK
  <2>4. ASSUME NEW j \in Instances, task[j][s] = "released" PROVE task'[j][s] = "released"
    BY <1>0, <1>4, <2>4 DEF ReleaseScript, TypeOK
  <2>5. QED
    BY <2>2, <2>3, <2>4
<1>5. CASE members[s] # {}
  <2>1. \/ \E c \in Connections : Leaving(s, c)'
        \/ \E i \in Instances : ReleaseScript(i, s) /\ Unlapsed(s) = {}
        \/ \E i \in Instances : sweep'[i].symbol = s
    BY <1>0, <1>1, <1>5, LastMemberLeaves
  <2>2. QED
    BY <1>4, <2>1
<1>6. CASE members[s] = {}
  <2>1. Unlapsed(s) = {} /\ \A c \in Connections : ~Visits(c, s)
    BY <1>0, <1>6, ActivatorIsMember DEF Unlapsed
  <2>2. upstream[s]
    <3>1. ASSUME NEW c \in Connections, PublishSubscribe(c), current[c] = s PROVE FALSE
      BY <2>1, <3>1 DEF PublishSubscribe, Visits, Visiting
    <3>2. QED
      BY <1>0, <1>1, <3>1, UpstreamChanges
  <2>3. ASSUME NEW i \in Instances, task[i][s] \in {"grace", "released"}
        PROVE  \E j \in Instances : task'[j][s] \in {"grace", "released"}
    <3>1. ~(ReleaseReply(i, s) /\ task[i][s] = "grace")
      BY DEF ReleaseReply
    <3>2. \A c \in Connections : ~(SubscribeReply(c) /\ current[c] = s)
      BY <2>1 DEF SubscribeReply, Visits, Visiting
    <3>3. CASE task'[i][s] = task[i][s]
      BY <2>3, <3>3
    <3>4. CASE task'[i][s] # task[i][s]
      <4>1. ReleaseScript(i, s)
        BY <1>0, <1>3, <2>3, <3>1, <3>2, <3>4, TaskChanges
      <4>2. QED
        BY <1>4, <2>1, <4>1
    <3>5. QED
      BY <3>3, <3>4
  <2>4. ASSUME NEW i \in Instances, sweep[i].symbol = s
        PROVE  task'[i][s] \in {"grace", "released"} \/ sweep'[i].symbol = s
    BY <1>0, <1>1, <1>6, <2>4, SweepGoesOn, Scheduled
  <2>5. ASSUME NEW c \in Connections, Leaving(s, c)
        PROVE  \/ \E i \in Instances : task'[i][s] \in {"grace", "released"}
               \/ Leaving(s, c)'
    <3>1. CASE UnsubscribeReply(c)
      <4>1. ScheduleRelease(Home[c], s)
        BY <2>5, <3>1 DEF Leaving, UnsubscribeReply
      <4>2. Home[c] \in Instances
        BY RegistryAssumption
      <4>3. QED
        BY <1>0, <1>1, <4>1, <4>2, Scheduled
    <3>2. ~SubscribeReply(c) /\ ~Activate(c) /\ ~PublishSubscribe(c)
      BY <2>5 DEF Leaving, SubscribeReply, Activate, PublishSubscribe
    <3>3. CASE pc'[c] = pc[c] /\ current'[c] = current[c] /\ count'[c] = count[c]
      BY <2>5, <3>3 DEF Leaving
    <3>4. QED
      BY <1>0, <2>5, <3>1, <3>2, <3>3, HandlerMoves DEF Leaving
  <2>6. QED
    BY <1>2, <1>6, <2>2, <2>3, <2>4, <2>5 DEF UnusedOK
<1>7. QED
  BY <1>5, <1>6

\* Up to the first fault, and but for a member that refresh_metrics purges, a
\* task that is kept too late and a message that a cancelled task does not
\* send, what is subscribed upstream for nobody has a release task in its grace
\* period or a sweep visiting it.
THEOREM UnusedHasRelease == Spec => []UnusedIsReleased
<1>1. Init => ReleaseInv
  BY DEF Init, ReleaseInv, UpstreamOK, UnusedOK
<1>2. RegistryInv /\ RegistryInv' /\ (faults = 0 => ReleaseInv) /\ [Next]_vars
        => (faults = 0 => ReleaseInv)'
  BY UpstreamStep, UnusedStep, HistoryGrows DEF ReleaseInv, RegistryInv
<1>3. (faults = 0 => ReleaseInv) => UnusedIsReleased
  <2>1. SUFFICES ASSUME ReleaseInv, NEW s \in Symbols, s \notin unattended, Quiet(s),
                        members[s] = {}, upstream[s]
                 PROVE  \E i \in Instances : task[i][s] = "grace" \/ sweep[i].symbol = s
    BY DEF UnusedIsReleased
  <2>2. \A c \in Connections : ~Leaving(s, c)
    BY <2>1 DEF Quiet, Leaving, Calling, Closing
  <2>3. QED
    BY <2>1, <2>2 DEF ReleaseInv, UnusedOK, Quiet
<1>4. QED
  BY <1>1, <1>2, <1>3, RegistryInvariant, PTL DEF Spec
=============================================================================
