------------------------ MODULE SubscriptionRegistry ------------------------
(***************************************************************************)
(* The Redis-backed subscription registry (subscriptions.py) as the        *)
(* WebSocket handlers of several gateway instances drive it (app.py).  It  *)
(* turns the first subscriber of a symbol into a "subscribe" control       *)
(* message for the collector, and the last one, after a grace period,      *)
(* into an "unsubscribe".                                                  *)
(*                                                                         *)
(* Lua scripts are atomic; every other Redis command is a step of its own, *)
(* and so is the continuation that uses the reply of a script.  A lease (a *)
(* sorted-set score) lapses when no heartbeat refreshes it in time: one    *)
(* that comes late, or one that does not find the symbol in the connection *)
(* key any more.  The control stream is read in order, so `upstream' is    *)
(* what the collector holds once it has caught up with the stream.         *)
(***************************************************************************)
EXTENDS Naturals, FiniteSets

CONSTANTS
  Connections,    \* connection ids; a client that reconnects is a new one
  Instances,      \* gateway instances, one SubscriptionRegistry each
  Home,           \* Home[c]: the instance that serves c
  Symbols,
  NoSymbol,
  MaxFaults,      \* bound: failed Redis round trips and killed instances
  MaxEvents       \* bound: client commands, heartbeats sent, heartbeats late

ASSUME RegistryAssumption ==
  /\ Home \in [Connections -> Instances]
  /\ NoSymbol \notin Symbols
  /\ MaxFaults \in Nat /\ MaxEvents \in Nat

VARIABLES
  members,   \* smdg:sub:symbol:*: the connections in the sorted set
  lapsed,    \* those among them whose score is in the past
  symbolsOf, \* smdg:sub:connection:*: the symbols of each connection
  active,    \* smdg:sub:upstream-state:* exists
  upstream,  \* the last control message of the symbol was "subscribe"
  pc,        \* where the handler of each connection is
  todo,      \* symbols its registry call has still to visit
  current,   \* the symbol it is visiting
  count,     \* the script's reply: 0, 1 or 2 (two or more) members
  session,   \* ClientSession.subscriptions
  beating,   \* heartbeats refresh the leases of the connection key in time
  beat,      \* symbols read by registry.heartbeat and not yet refreshed
  task,      \* _release_tasks[symbol] of each instance
  sweep,     \* the symbol that cleanup_expired is visiting, and its stage
  faults, events, \* counted up to the two bounds
  \* History, which no step reads: the symbols to which ...
  revived,   \* a late heartbeat has added a connection that was removed
  overtaken, \* an "unsubscribe" came after the next activation
  unattended \* a release was not scheduled, or its message not sent

redisVars == <<members, lapsed, symbolsOf, active, upstream>>
connVars  == <<pc, todo, current, count, session, beating, beat>>
history   == <<revived, overtaken, unattended>>
vars == <<redisVars, connVars, task, sweep, faults, events, history>>

\* Stages of a registry call: the script of subscribe or unsubscribe, its
\* reply, SET NX, publish_control, refresh_metrics, and the two ends of
\* disconnect.
Calling == {"subscribe", "subscribed", "setnx", "publish",
            "unsubscribe", "unsubscribed", "refresh"}
Closing == {"smembers", "closing", "closingReply", "closingRefresh", "delete"}
Stages  == Calling \cup Closing \cup {"open", "closed", "dead"}

\* Stages of a release task: asleep, or its script has released the symbol or
\* found members and the reply is on its way.
TaskStages == {"none", "grace", "released", "kept"}

\* The script of subscribe has just made c a member of s.
Visiting == {"subscribed", "setnx", "publish"}
Visits(c, s) == pc[c] \in Visiting /\ current[c] = s

\* receive_loop and heartbeat_loop of c have not been cancelled.
Serving(c) == pc[c] \in Calling \cup {"open"}

NoSweep == [stage |-> "idle", symbol |-> NoSymbol]

Init ==
  /\ members = [s \in Symbols |-> {}]
  /\ lapsed = [s \in Symbols |-> {}]
  /\ symbolsOf = [c \in Connections |-> {}]
  /\ active = [s \in Symbols |-> FALSE]
  /\ upstream = [s \in Symbols |-> FALSE]
  /\ pc = [c \in Connections |-> "open"]
  /\ todo = [c \in Connections |-> {}]
  /\ current = [c \in Connections |-> NoSymbol]
  /\ count = [c \in Connections |-> 0]
  /\ session = [c \in Connections |-> {}]
  /\ beating = [c \in Connections |-> TRUE]
  /\ beat = [c \in Connections |-> {}]
  /\ task = [i \in Instances |-> [s \in Symbols |-> "none"]]
  /\ sweep = [i \in Instances |-> NoSweep]
  /\ faults = 0 /\ events = 0
  /\ revived = {} /\ overtaken = {} /\ unattended = {}

-----------------------------------------------------------------------------
(* Redis scripts *)

Unlapsed(s) == members[s] \ lapsed[s]

\* ZREMRANGEBYSCORE -inf now on one symbol, leaving the given members.
SetMembers(s, cs) ==
  /\ members' = [members EXCEPT ![s] = cs]
  /\ lapsed' = [lapsed EXCEPT ![s] = {}]

\* Faulty variant: the purge ignores the scores.
PurgeEveryone ==
  /\ members' = [s \in Symbols |-> {}]
  /\ lapsed' = [s \in Symbols |-> {}]

\* refresh_metrics: the same purge on every symbol, and nothing else.
PurgeAll ==
  /\ members' = [s \in Symbols |-> Unlapsed(s)]
  /\ lapsed' = [s \in Symbols |-> {}]

\* The symbols that refresh_metrics leaves without members: it schedules no
\* release for them.
Emptied == {s \in Symbols : members[s] # {} /\ Unlapsed(s) = {}}

\* Faulty variant: the connection is counted twice.
CardOffByOne(cs) == Cardinality(cs) + 1

CardUpTo2(cs) == IF cs = {} THEN 0 ELSE IF Cardinality(cs) = 1 THEN 1 ELSE 2

-----------------------------------------------------------------------------
(* SubscriptionRegistry.subscribe, called from receive_loop *)

\* A subscribe command. The session's own set, which the hub extends after
\* the registry call, is read only by a later command of the same handler.
RequestSubscribe(c, symbols) ==
  /\ pc[c] = "open"
  /\ symbols # {}
  /\ events < MaxEvents
  /\ events' = events + 1
  /\ pc' = [pc EXCEPT ![c] = "subscribe"]
  /\ todo' = [todo EXCEPT ![c] = symbols]
  /\ session' = [session EXCEPT ![c] = @ \cup symbols]
  /\ UNCHANGED <<redisVars, current, count, beating, beat, task, sweep,
                 faults, history>>

\* _SUBSCRIBE_SCRIPT for one symbol.
SubscribeScript(c) ==
  /\ pc[c] = "subscribe"
  /\ \E s \in todo[c] :
       LET after == Unlapsed(s) \cup {c}
       IN  /\ SetMembers(s, after)
           /\ symbolsOf' = [symbolsOf EXCEPT ![c] = @ \cup {s}]
           /\ count' = [count EXCEPT ![c] = CardUpTo2(after)]
           /\ current' = [current EXCEPT ![c] = s]
           /\ todo' = [todo EXCEPT ![c] = @ \ {s}]
  /\ pc' = [pc EXCEPT ![c] = "subscribed"]
  /\ UNCHANGED <<active, upstream, session, beating, beat, task, sweep,
                 faults, events, history>>

\* The rest of the loop over the symbols of the call.
AfterSymbol(c) == IF todo[c] = {} THEN "refresh" ELSE "subscribe"

\* Faulty variant: every subscriber publishes.
AfterScriptPublish(c) ==
  IF current[c] \in Symbols THEN "publish" ELSE AfterSymbol(c)

\* Only the first member goes on to the upstream state.
AfterScript(c) == IF count[c] = 1 THEN "setnx" ELSE AfterSymbol(c)

\* The handler of c has set the upstream state of s, and not yet published.
Publishing(c, s) == pc[c] = "publish" /\ current[c] = s

\* The "unsubscribe" message of s: the collector drops what a later activation
\* has set up.
SendUnsubscribe(s) ==
  /\ upstream' = [upstream EXCEPT ![s] = FALSE]
  /\ overtaken' = overtaken \cup
       {t \in {s} : active[s] /\ \A c \in Connections : ~Publishing(c, s)}

\* The reply: the release task of this instance is popped and cancelled. If
\* the task was publishing, its request may already be on its way; if not, only
\* the first member activates the symbol again. The cancelled task ends with
\* refresh_metrics.
SubscribeReply(c) ==
  LET s == current[c]
      i == Home[c]
      ended == IF task[i][s] = "none" THEN {} ELSE Emptied
      unsent == {t \in {s} : task[i][s] = "released" /\ count[c] # 1}
  IN  /\ pc[c] = "subscribed"
      /\ task' = [task EXCEPT ![i][s] = "none"]
      /\ \/ /\ unattended' = unattended \cup ended \cup unsent
            /\ UNCHANGED <<upstream, overtaken>>
         \/ /\ task[i][s] = "released"
            /\ SendUnsubscribe(s)
            /\ unattended' = unattended \cup ended
      /\ IF task[i][s] = "none" THEN UNCHANGED <<members, lapsed>>
                                ELSE PurgeAll
      /\ pc' = [pc EXCEPT ![c] = AfterScript(c)]
      /\ UNCHANGED <<symbolsOf, active, todo, current, count, session, beating,
                     beat, sweep, faults, events, revived>>

\* SET NX of the upstream state.
Activate(c) ==
  LET s == current[c]
  IN  /\ pc[c] = "setnx"
      /\ active' = [active EXCEPT ![s] = TRUE]
      /\ pc' = [pc EXCEPT ![c] = IF active[s] THEN AfterSymbol(c)
                                              ELSE "publish"]
      /\ UNCHANGED <<members, lapsed, symbolsOf, upstream, todo, current,
                     count, session, beating, beat, task, sweep, faults, events,
                     history>>

\* publish_control("subscribe", symbol).
PublishSubscribe(c) ==
  /\ pc[c] = "publish"
  /\ upstream' = [upstream EXCEPT ![current[c]] = TRUE]
  /\ pc' = [pc EXCEPT ![c] = AfterSymbol(c)]
  /\ UNCHANGED <<members, lapsed, symbolsOf, active, todo, current, count,
                 session, beating, beat, task, sweep, faults, events, history>>

\* refresh_metrics at the end of subscribe and unsubscribe.
FinishCall(c) ==
  /\ pc[c] \in {"refresh", "closingRefresh"}
  /\ PurgeAll /\ unattended' = unattended \cup Emptied
  /\ pc' = [pc EXCEPT ![c] = IF pc[c] = "refresh" THEN "open" ELSE "delete"]
  /\ current' = [current EXCEPT ![c] = NoSymbol]
  /\ count' = [count EXCEPT ![c] = 0]
  /\ UNCHANGED <<symbolsOf, active, upstream, todo, session, beating, beat,
                 task, sweep, faults, events, revived, overtaken>>

-----------------------------------------------------------------------------
(* SubscriptionRegistry.unsubscribe *)

\* An unsubscribe command: the hub first drops the symbols from the session,
\* and the registry is called with those that were there.
RequestUnsubscribe(c, symbols) ==
  /\ pc[c] = "open"
  /\ symbols # {}
  /\ events < MaxEvents
  /\ events' = events + 1
  /\ symbols \subseteq session[c]
  /\ session' = [session EXCEPT ![c] = @ \ symbols]
  /\ pc' = [pc EXCEPT ![c] = "unsubscribe"]
  /\ todo' = [todo EXCEPT ![c] = symbols]
  /\ UNCHANGED <<redisVars, current, count, beating, beat, task, sweep,
                 faults, history>>

\* _UNSUBSCRIBE_SCRIPT for one symbol.
UnsubscribeScript(c) ==
  /\ pc[c] \in {"unsubscribe", "closing"}
  /\ \E s \in todo[c] :
       LET after == Unlapsed(s) \ {c}
       IN  /\ SetMembers(s, after)
           /\ symbolsOf' = [symbolsOf EXCEPT ![c] = @ \ {s}]
           /\ count' = [count EXCEPT ![c] = CardUpTo2(after)]
           /\ current' = [current EXCEPT ![c] = s]
           /\ todo' = [todo EXCEPT ![c] = @ \ {s}]
  /\ pc' = [pc EXCEPT ![c] = IF pc[c] = "closing" THEN "closingReply"
                                                  ELSE "unsubscribed"]
  /\ UNCHANGED <<active, upstream, session, beating, beat, task, sweep,
                 faults, events, history>>

\* Faulty variant: no release is scheduled.
ReleaseForgotten(i, s) ==
  task' = [task EXCEPT ![i][s] = @] /\ UNCHANGED unattended

\* _schedule_release: a task that is not done yet is kept, also one whose
\* script has already found the members that are gone now.
ScheduleRelease(i, s) ==
  /\ task' = [task EXCEPT ![i][s] = IF @ = "none" THEN "grace" ELSE @]
  /\ unattended' = unattended \cup {t \in {s} : task[i][s] = "kept"}

\* The reply: the last member schedules the release.
UnsubscribeReply(c) ==
  /\ pc[c] \in {"unsubscribed", "closingReply"}
  /\ \/ count[c] = 0 /\ ScheduleRelease(Home[c], current[c])
     \/ count[c] > 0 /\ UNCHANGED <<task, unattended>>
  /\ pc' = [pc EXCEPT ![c] =
              IF pc[c] = "unsubscribed"
                THEN (IF todo[c] = {} THEN "refresh" ELSE "unsubscribe")
                ELSE (IF todo[c] = {} THEN "closingRefresh" ELSE "closing")]
  /\ UNCHANGED <<redisVars, todo, current, count, session, beating, beat,
                 sweep, faults, events, revived, overtaken>>

-----------------------------------------------------------------------------
(* The end of a connection *)

\* The heartbeat task ends. A request that it has sent is not recalled.
StopHeartbeat(c) ==
  /\ beating' = [beating EXCEPT ![c] = FALSE]
  /\ beat' \in {beat, [beat EXCEPT ![c] = {}]}

\* The handler cancels the heartbeat task and enters disconnect.
ClientLeaves(c) ==
  /\ pc[c] = "open"
  /\ StopHeartbeat(c)
  /\ pc' = [pc EXCEPT ![c] = "smembers"]
  /\ UNCHANGED <<redisVars, todo, current, count, session, task, sweep,
                 faults, events, history>>

\* disconnect: SMEMBERS decides which symbols are unsubscribed.
DisconnectRead(c) ==
  /\ pc[c] = "smembers"
  /\ todo' = [todo EXCEPT ![c] = symbolsOf[c]]
  /\ pc' = [pc EXCEPT ![c] = IF symbolsOf[c] = {} THEN "delete" ELSE "closing"]
  /\ UNCHANGED <<redisVars, current, count, session, beating, beat, task,
                 sweep, faults, events, history>>

\* disconnect: DEL of the connection key.
DisconnectDelete(c) ==
  /\ pc[c] = "delete"
  /\ symbolsOf' = [symbolsOf EXCEPT ![c] = {}]
  /\ session' = [session EXCEPT ![c] = {}]
  /\ pc' = [pc EXCEPT ![c] = "closed"]
  /\ UNCHANGED <<members, lapsed, active, upstream, todo, current, count,
                 beating, beat, task, sweep, faults, events, history>>

\* A Redis command of a registry call raises, before it had its effect or,
\* in a stage that waits for a reply, after it. receive_loop ends and the
\* handler disconnects the connection; when disconnect itself raises, the
\* handler ends there.
RequestFails(c) ==
  /\ faults < MaxFaults
  /\ faults' = faults + 1
  /\ \/ /\ pc[c] \in Calling
        /\ StopHeartbeat(c)
        /\ pc' = [pc EXCEPT ![c] = "smembers"]
     \/ /\ pc[c] \in Closing
        /\ pc' = [pc EXCEPT ![c] = "dead"]
        /\ UNCHANGED <<beating, beat>>
  /\ todo' = [todo EXCEPT ![c] = {}]
  /\ current' = [current EXCEPT ![c] = NoSymbol]
  /\ count' = [count EXCEPT ![c] = 0]
  /\ UNCHANGED <<redisVars, session, task, sweep, events, history>>

-----------------------------------------------------------------------------
(* Heartbeats and leases *)

\* registry.heartbeat: SMEMBERS of the connection key ...
HeartbeatRead(c) ==
  /\ Serving(c)
  /\ beat[c] = {} /\ symbolsOf[c] # {}
  /\ events < MaxEvents
  /\ events' = events + 1
  /\ beat' = [beat EXCEPT ![c] = symbolsOf[c]]
  /\ UNCHANGED <<redisVars, pc, todo, current, count, session, beating, task,
                 sweep, faults, history>>

\* ... and, later, ZADD with a new score for each symbol that was read. The
\* heartbeat is in time again when it has missed no lease.
HeartbeatWrite(c) ==
  /\ beat[c] # {}
  /\ members' = [s \in Symbols |-> IF s \in beat[c] THEN members[s] \cup {c}
                                                    ELSE members[s]]
  /\ lapsed' = [s \in Symbols |-> IF s \in beat[c] THEN lapsed[s] \ {c}
                                                   ELSE lapsed[s]]
  /\ beat' = [beat EXCEPT ![c] = {}]
  /\ beating' = [beating EXCEPT ![c] =
       \/ @
       \/ Serving(c) /\ \A s \in symbolsOf[c] \ beat[c] : c \in Unlapsed(s)]
  /\ revived' = revived \cup {s \in beat[c] : c \notin members[s]}
  /\ UNCHANGED <<symbolsOf, active, upstream, pc, todo, current, count,
                 session, task, sweep, faults, events, overtaken, unattended>>

\* The heartbeat does not come in time: heartbeat_loop awaits the send lock
\* behind a client that does not read, has closed an idle client, or has ended
\* with an exception that nobody observes until the connection is closed.
HeartbeatLate(c) ==
  /\ beating[c]
  /\ events < MaxEvents
  /\ events' = events + 1
  /\ StopHeartbeat(c)
  /\ UNCHANGED <<redisVars, pc, todo, current, count, session, task, sweep,
                 faults, history>>

\* A score that is not refreshed in time falls into the past. It outlasts the
\* round trips of the call that wrote it.
LeaseLapses(c, s) ==
  /\ c \in Unlapsed(s)
  /\ ~(beating[c] /\ s \in symbolsOf[c])
  /\ ~Visits(c, s)
  /\ lapsed' = [lapsed EXCEPT ![s] = @ \cup {c}]
  /\ UNCHANGED <<members, symbolsOf, active, upstream, connVars, task, sweep,
                 faults, events, history>>

\* The connection key outlives every score it was refreshed with.
ConnectionKeyExpires(c) ==
  /\ ~beating[c]
  /\ symbolsOf[c] # {}
  /\ \A s \in Symbols : c \notin Unlapsed(s)
  /\ symbolsOf' = [symbolsOf EXCEPT ![c] = {}]
  /\ UNCHANGED <<members, lapsed, active, upstream, connVars, task, sweep,
                 faults, events, history>>

-----------------------------------------------------------------------------
(* _release_after_grace *)

\* Faulty variant: the script does not count the members again.
ReleasableUnchecked(s) == active[s]

\* _RELEASE_SCRIPT finds no member left, and the upstream state.
Releasable(s) == Unlapsed(s) = {} /\ active[s]

\* _RELEASE_SCRIPT after the grace period.
ReleaseScript(i, s) ==
  /\ task[i][s] = "grace"
  /\ SetMembers(s, Unlapsed(s))
  /\ \/ /\ Releasable(s)
        /\ active' = [active EXCEPT ![s] = FALSE]
        /\ task' = [task EXCEPT ![i][s] = "released"]
     \/ /\ ~Releasable(s)
        /\ task' = [task EXCEPT ![i][s] = "kept"]
        /\ UNCHANGED active
  /\ UNCHANGED <<symbolsOf, upstream, connVars, sweep, faults, events, history>>

\* The reply: publish_control("unsubscribe", symbol) or nothing, the task leaves
\* _release_tasks, and refresh_metrics.
ReleaseReply(i, s) ==
  /\ \/ task[i][s] = "released" /\ SendUnsubscribe(s)
     \/ task[i][s] = "kept" /\ UNCHANGED <<upstream, overtaken>>
  /\ task' = [task EXCEPT ![i][s] = "none"]
  /\ PurgeAll /\ unattended' = unattended \cup Emptied
  /\ UNCHANGED <<symbolsOf, active, connVars, sweep, faults, events, revived>>

\* A Redis command of the task raises and ends it.
ReleaseFails(i, s) ==
  /\ task[i][s] # "none"
  /\ faults < MaxFaults
  /\ faults' = faults + 1
  /\ task' = [task EXCEPT ![i][s] = "none"]
  /\ UNCHANGED <<redisVars, connVars, sweep, events, history>>

-----------------------------------------------------------------------------
(* cleanup_expired, one key at a time *)

\* SCAN returns the key, ZCARD before the purge.
SweepCount(i, s) ==
  /\ sweep[i] = NoSweep
  /\ members[s] # {}
  /\ sweep' = [sweep EXCEPT ![i] = [stage |-> "purge", symbol |-> s]]
  /\ UNCHANGED <<redisVars, connVars, task, faults, events, history>>

\* ZREMRANGEBYSCORE.
SweepPurge(i) ==
  /\ sweep[i].stage = "purge"
  /\ SetMembers(sweep[i].symbol, Unlapsed(sweep[i].symbol))
  /\ sweep' = [sweep EXCEPT ![i].stage = "check"]
  /\ UNCHANGED <<symbolsOf, active, upstream, connVars, task, faults, events,
                 history>>

\* ZCARD after the purge: the transition to no member schedules the release.
SweepCheck(i) ==
  LET s == sweep[i].symbol
  IN  /\ sweep[i].stage = "check"
      /\ \/ members[s] = {} /\ ScheduleRelease(i, s)
         \/ members[s] # {} /\ UNCHANGED <<task, unattended>>
      /\ sweep' = [sweep EXCEPT ![i] = NoSweep]
      /\ UNCHANGED <<redisVars, connVars, faults, events, revived, overtaken>>

\* refresh_metrics at the end of cleanup_expired, and for /v1/stats.
RefreshMetrics(i) ==
  /\ \E s \in Symbols : lapsed[s] # {}
  /\ PurgeAll /\ unattended' = unattended \cup Emptied
  /\ UNCHANGED <<symbolsOf, active, upstream, connVars, task, sweep, faults,
                 events, revived, overtaken>>

\* The instance is killed; another one takes its place with no tasks and no
\* connections.
Crash(i) ==
  LET lost == {c \in Connections : Home[c] = i /\ pc[c] # "closed"}
  IN  /\ faults < MaxFaults
      /\ faults' = faults + 1
      /\ pc' = [c \in Connections |-> IF c \in lost THEN "dead" ELSE pc[c]]
      /\ todo' = [c \in Connections |-> IF c \in lost THEN {} ELSE todo[c]]
      /\ current' = [c \in Connections |-> IF c \in lost THEN NoSymbol
                                                         ELSE current[c]]
      /\ count' = [c \in Connections |-> IF c \in lost THEN 0 ELSE count[c]]
      /\ session' = [c \in Connections |-> IF c \in lost THEN {}
                                                         ELSE session[c]]
      /\ beating' = [c \in Connections |-> c \notin lost /\ beating[c]]
      /\ \E sent \in SUBSET lost :
           beat' = [c \in Connections |-> IF c \in lost \ sent THEN {}
                                                             ELSE beat[c]]
      /\ task' = [task EXCEPT ![i] = [s \in Symbols |-> "none"]]
      /\ sweep' = [sweep EXCEPT ![i] = NoSweep]
      /\ UNCHANGED <<redisVars, events, history>>

-----------------------------------------------------------------------------
\* The handler of c, once it is in a registry call.
HandlerStep(c) ==
  \/ SubscribeScript(c) \/ SubscribeReply(c) \/ Activate(c)
  \/ PublishSubscribe(c) \/ FinishCall(c)
  \/ UnsubscribeScript(c) \/ UnsubscribeReply(c)
  \/ DisconnectRead(c) \/ DisconnectDelete(c)

ReleaseStep(i, s) == ReleaseScript(i, s) \/ ReleaseReply(i, s)

Next ==
  \/ \E c \in Connections :
       \/ \E symbols \in SUBSET Symbols :
            RequestSubscribe(c, symbols) \/ RequestUnsubscribe(c, symbols)
       \/ HandlerStep(c)
       \/ ClientLeaves(c) \/ RequestFails(c)
       \/ HeartbeatRead(c) \/ HeartbeatWrite(c) \/ HeartbeatLate(c)
       \/ \E s \in Symbols : LeaseLapses(c, s)
       \/ ConnectionKeyExpires(c)
  \/ \E i \in Instances :
       \/ \E s \in Symbols :
            ReleaseStep(i, s) \/ ReleaseFails(i, s) \/ SweepCount(i, s)
       \/ SweepPurge(i) \/ SweepCheck(i) \/ RefreshMetrics(i) \/ Crash(i)

Spec == Init /\ [][Next]_vars

\* Handlers, release tasks and cleanup loops that can run do run: they wait only
\* for Redis and for a timer. A request that was sent arrives, and a score that
\* nobody refreshes lapses.
FairSpec ==
  /\ Spec
  /\ \A c \in Connections :
       /\ WF_vars(HandlerStep(c)) /\ WF_vars(HeartbeatWrite(c))
       /\ \A s \in Symbols : WF_vars(LeaseLapses(c, s))
  /\ \A i \in Instances :
       /\ WF_vars(SweepPurge(i)) /\ WF_vars(SweepCheck(i))
       /\ \A s \in Symbols :
            WF_vars(ReleaseStep(i, s)) /\ SF_vars(SweepCount(i, s))

-----------------------------------------------------------------------------
(* Properties *)

\* Type invariant of the keys, the handlers and the tasks: a stage that visits
\* a symbol has one.
TypeOK ==
  /\ members \in [Symbols -> SUBSET Connections]
  /\ lapsed \in [Symbols -> SUBSET Connections]
  /\ symbolsOf \in [Connections -> SUBSET Symbols]
  /\ active \in [Symbols -> BOOLEAN]
  /\ upstream \in [Symbols -> BOOLEAN]
  /\ pc \in [Connections -> Stages]
  /\ todo \in [Connections -> SUBSET Symbols]
  /\ current \in [Connections -> Symbols \cup {NoSymbol}]
  /\ count \in [Connections -> 0..2]
  /\ session \in [Connections -> SUBSET Symbols]
  /\ beating \in [Connections -> BOOLEAN]
  /\ beat \in [Connections -> SUBSET Symbols]
  /\ task \in [Instances -> [Symbols -> TaskStages]]
  /\ sweep \in [Instances -> [stage : {"idle", "purge", "check"},
                              symbol : Symbols \cup {NoSymbol}]]
  /\ faults \in 0..MaxFaults /\ events \in 0..MaxEvents
  /\ revived \subseteq Symbols /\ overtaken \subseteq Symbols
  /\ unattended \subseteq Symbols
  /\ \A c \in Connections :
       pc[c] \in Visiting \cup {"unsubscribed", "closingReply"}
         => current[c] # NoSymbol
  /\ \A i \in Instances : sweep[i].stage # "idle" => sweep[i].symbol # NoSymbol

\* No call is visiting s and no task has released it without having published.
Quiet(s) ==
  /\ \A c \in Connections :
       pc[c] \in Calling \cup Closing => /\ pc[c] # "smembers"
                                         /\ s \notin todo[c] \cup {current[c]}
  /\ \A i \in Instances : task[i][s] # "released"

\* The first subscriber activates the upstream subscription and additional
\* ones reuse it: once no call or release is under way, a symbol with a
\* subscribed client is subscribed upstream (what the documents say of
\* subscribe and the grace period).
SubscribedHasUpstream ==
  \A s \in Symbols :
    /\ Quiet(s) /\ s \notin revived
    /\ \E c \in Unlapsed(s) : pc[c] = "open" /\ s \in session[c]
    => upstream[s]

\* Up to the first fault, only two things separate demand from upstream,
\* however many instances subscribe, release and sweep: a late heartbeat that
\* adds a connection again (the next subscriber is then not the first one) and
\* an unsubscribe message that comes after the next activation. Without them a
\* symbol with a member is subscribed upstream (the count of the subscribe
\* script, SET NX and the release script).
SubscribedIsServed ==
  \A s \in Symbols :
    /\ faults = 0 /\ s \notin revived \cup overtaken
    /\ Quiet(s)
    /\ members[s] # {}
    => upstream[s]

\* Up to the first fault, an upstream subscription that nobody uses leaks only
\* when refresh_metrics purges the last member, when a task is kept whose script
\* has already run, or when a cancelled task's message is not sent: otherwise a
\* symbol without members that is subscribed upstream has a release task in its
\* grace period, or a sweep that will schedule one (_schedule_release and
\* cleanup_expired, ghost members that a late heartbeat has added included).
UnusedIsReleased ==
  \A s \in Symbols :
    /\ faults = 0 /\ s \notin unattended
    /\ Quiet(s)
    /\ members[s] = {}
    /\ upstream[s]
    => \E i \in Instances : task[i][s] = "grace" \/ sweep[i].symbol = s

\* A connection is subscribed to s and its heartbeats come in time.
Demanded(s) == \E c \in Connections : beating[c] /\ s \in symbolsOf[c]

\* Nobody is, and no registry call for s is under way.
Abandoned(s) ==
  /\ ~Demanded(s)
  /\ \A c \in Connections : s \notin todo[c] \cup {current[c]}

\* Upstream follows demand, whatever leases lapse: a symbol that stays in
\* demand is eventually subscribed for good, one for which no demand is left
\* eventually is not, except for what SubscribedIsServed and UnusedIsReleased
\* except (cleanup_expired, _release_after_grace, SET NX).
UpstreamFollowsDemand ==
  \A s \in Symbols :
    /\ <>[](Demanded(s) /\ s \notin revived \cup overtaken) => <>[]upstream[s]
    /\ <>[](Abandoned(s) /\ s \notin unattended) => <>[](~upstream[s])

\* A connection whose heartbeats come in time is a live member of every symbol
\* in its connection key: no purge and no other connection's call removes it
\* (the two keys written by the scripts and by heartbeat).
BeatingIsMember ==
  \A c \in Connections, s \in Symbols :
    beating[c] /\ s \in symbolsOf[c] => c \in Unlapsed(s)

\* Two connections never both believe to be the activator of a symbol,
\* whichever instances serve them (SET NX against the release script).
SingleActivator ==
  \A c, d \in Connections :
    c # d /\ pc[c] = "publish" /\ pc[d] = "publish" => current[c] # current[d]

=============================================================================
