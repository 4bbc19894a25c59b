--------------------------- MODULE ClientDelivery ---------------------------
(***************************************************************************)
(* Delivery of quotes to the WebSocket clients of one gateway instance:    *)
(* FanoutListener (pipeline.py), ConnectionHub and LatestValueBuffer       *)
(* (qos.py), and the handler market_stream with its receive loop and its   *)
(* send loop (app.py).                                                     *)
(*                                                                         *)
(* Everything between two suspension points of the event loop is one step: *)
(* the hub's lock and the buffer's condition are never held across an      *)
(* await, so add, remove, subscribe, unsubscribe, publish and put are      *)
(* atomic.  Awaits of Redis, of the socket and of the send lock are where  *)
(* tasks interleave.  Of the SubscriptionRegistry only the key that lists  *)
(* the symbols of a connection remains: it is what heartbeat refreshes and *)
(* what disconnect reads.  Every gateway instance runs a QuoteProcessor;   *)
(* QuotePipeline models what one does when it fails.                       *)
(***************************************************************************)
EXTENDS Integers, Sequences, FiniteSets

CONSTANTS
  Processors,      \* QuoteProcessors of the deployment
  Connections,     \* connections of one client to this instance
  Elsewhere,       \* connections that it may have to other instances
  Symbols,
  NoSymbol,
  Rank,            \* Rank[s]: position of s in sorted order
  MaxConnections,  \* policy.max_connections
  MaxSymbols,      \* policy.max_symbols
  BufferSize,      \* LatestValueBuffer.max_items
  MaxQuotes,       \* bound: quotes
  MaxCommands,     \* bound: commands of each connection
  MaxFaults        \* bound: failed Redis or socket operations and expired keys

ASSUME DeliveryAssumption ==
  /\ NoSymbol \notin Symbols /\ Connections \cap Elsewhere = {}
  /\ Rank \in [Symbols -> Nat]
  /\ \A s, t \in Symbols : Rank[s] = Rank[t] => s = t
  /\ MaxConnections \in Nat /\ MaxSymbols \in Nat
  /\ BufferSize \in Nat \ {0}
  /\ MaxQuotes \in Nat /\ MaxCommands \in Nat /\ MaxFaults \in Nat

VARIABLES
  quotes,      \* quotes read: the i-th of the stream is number i, also its received_at
  hand,        \* what is left of the batch that a processor has read
  cached,      \* processors that have cached the first quote in their hand
  latest,      \* smdg:latest:*: number of the cached quote, 0 if none
  published,   \* all messages of the pub/sub channel, in their order
  heard,       \* how many of them the listener has taken or missed
  slots,       \* connections of the client counted by ConnectionRegistry
  sessions,    \* ConnectionHub._sessions
  subs,        \* ClientSession.subscriptions
  index,       \* ConnectionHub._symbol_sessions
  buffer,      \* LatestValueBuffer._events: place of the quote in published, 0 if none
  dropped,     \* LatestValueBuffer.dropped
  registered,  \* smdg:sub:connection:*: symbols registered for the connection
  lapsed,      \* connections whose key has expired
  pc,          \* stage of the handler
  todo,        \* symbols of the command it is executing
  snapshot,    \* the quote read by get_latest
  sender,      \* the send loop is running
  sending,     \* the quote it has taken from the buffer
  due,         \* symbols whose delivery interval has passed
  log,         \* messages sent to the client
  commands, faults

feedVars == <<quotes, hand, cached, latest, published, heard, dropped>>
leaseVars == <<registered, lapsed>>
hubVars  == <<sessions, subs, index>>
sendVars == <<sender, sending, due>>
vars == <<feedVars, slots, hubVars, buffer, leaseVars, pc, todo, snapshot,
          sendVars, log, commands, faults>>

NoQuote == [symbol |-> NoSymbol, number |-> 0]
NoTurn == [symbol |-> NoSymbol, turn |-> 0]
QuoteRecord == [symbol : Symbols, number : 1..MaxQuotes]
TurnRecord == [symbol : Symbols, turn : Nat]

\* A message to the client; a live quote carries its place in published.
Message == [type : {"snapshot", "quote", "ack"}, symbol : Symbols \cup {NoSymbol},
            number : 0..MaxQuotes, turn : Nat]
Ack == [type |-> "ack", symbol |-> NoSymbol, number |-> 0, turn |-> 0]
Snapshot(q) == [type |-> "snapshot", symbol |-> q.symbol, number |-> q.number, turn |-> 0]
Live(q) == [type |-> "quote", symbol |-> q.symbol, number |-> published[q.turn].number,
            turn |-> q.turn]

\* Stages in which the receive loop of an accepted connection is.
Receiving == {"open", "registry", "snapshot", "snapsend", "unregister", "ack"}
Stages == Receiving \cup {"new", "admitted", "refused", "disconnect", "release", "gone"}

\* The first symbol of a set in sorted order.
First(ss) == CHOOSE s \in ss : \A t \in ss : Rank[s] <= Rank[t]

Init ==
  /\ quotes = 0
  /\ latest = [s \in Symbols |-> 0]
  /\ hand = [p \in Processors |-> <<>>] /\ cached = {}
  /\ published = <<>> /\ heard = 0
  /\ slots \in SUBSET Elsewhere /\ sessions = {}
  /\ subs = [c \in Connections |-> {}]
  /\ index = [s \in Symbols |-> {}]
  /\ buffer = [c \in Connections |-> [s \in Symbols |-> 0]]
  /\ dropped = [c \in Connections |-> 0]
  /\ registered = [c \in Connections |-> {}] /\ lapsed = {}
  /\ pc = [c \in Connections |-> "new"]
  /\ todo = [c \in Connections |-> {}]
  /\ snapshot = [c \in Connections |-> NoQuote]
  /\ sender = [c \in Connections |-> FALSE]
  /\ sending = [c \in Connections |-> NoTurn]
  /\ due = [c \in Connections |-> Symbols]
  /\ log = [c \in Connections |-> <<>>]
  /\ commands = [c \in Connections |-> 0]
  /\ faults = 0

\* The bound on failed operations and expired keys.
MayFail == faults + Cardinality(lapsed) < MaxFaults

-----------------------------------------------------------------------------
(* The processors, and the fanout to this instance *)

\* An idle processor reads the next entries of the stream.
ReadBatch(p, symbols) ==
  /\ hand[p] = <<>>
  /\ symbols # <<>>
  /\ quotes + Len(symbols) <= MaxQuotes
  /\ quotes' = quotes + Len(symbols)
  /\ hand' = [hand EXCEPT ![p] = [i \in 1..Len(symbols) |->
                                    [symbol |-> symbols[i], number |-> quotes + i]]]
  /\ UNCHANGED <<cached, latest, published, heard, slots, hubVars, buffer, dropped,
                 leaseVars, pc, todo, snapshot, sendVars, log, commands, faults>>

\* cache_quote of the first quote: it replaces what is cached, whichever of
\* the two is the newer one.
CacheQuote(p) ==
  /\ hand[p] # <<>> /\ p \notin cached
  /\ latest' = [latest EXCEPT ![Head(hand[p]).symbol] = Head(hand[p]).number]
  /\ cached' = cached \cup {p}
  /\ UNCHANGED <<quotes, hand, published, heard, slots, hubVars, buffer, dropped,
                 leaseVars, pc, todo, snapshot, sendVars, log, commands, faults>>

\* publish_fanout; the processor goes on to the next quote of its batch.
PublishFanout(p) ==
  /\ p \in cached
  /\ published' = Append(published, Head(hand[p]))
  /\ hand' = [hand EXCEPT ![p] = Tail(@)]
  /\ cached' = cached \ {p}
  /\ UNCHANGED <<quotes, latest, heard, slots, hubVars, buffer, dropped, leaseVars, pc,
                 todo, snapshot, sendVars, log, commands, faults>>

\* LatestValueBuffer.put has no room for a quote of s.
Overflows(events, s) ==
  events[s] = 0 /\ Cardinality({t \in Symbols : events[t] # 0}) >= BufferSize

\* Faulty variant: an unsent quote is kept, the newer one dropped.
PutKeepsOld(events, n) ==
  LET s == published[n].symbol
  IN  IF events[s] = 0 THEN [events EXCEPT ![s] = n] ELSE events

\* LatestValueBuffer.put: the quote at n replaces the one of its symbol; a full
\* buffer drops the quote received first.
Put(events, n) ==
  LET s      == published[n].symbol
      held   == {t \in Symbols : events[t] # 0}
      oldest == CHOOSE t \in held : \A u \in held :
                  published[events[t]].number <= published[events[u]].number
  IN  IF Overflows(events, s) THEN [events EXCEPT ![oldest] = 0, ![s] = n]
                              ELSE [events EXCEPT ![s] = n]

\* The sessions to which ConnectionHub.publish hands a quote of s.
Targets(s) == index[s] \cap sessions

\* FanoutListener.run with ConnectionHub.publish.
Fanout ==
  LET n == heard + 1
      s == published[n].symbol
  IN  /\ heard < Len(published)
      /\ buffer' = [c \in Connections |->
                      IF c \in Targets(s) THEN Put(buffer[c], n) ELSE buffer[c]]
      /\ dropped' = [c \in Connections |->
                       IF c \in Targets(s) /\ Overflows(buffer[c], s)
                         THEN dropped[c] + 1 ELSE dropped[c]]
      /\ heard' = n
      /\ UNCHANGED <<quotes, hand, cached, latest, published, slots, hubVars, leaseVars, pc,
                     todo, snapshot, sendVars, log, commands, faults>>

\* The listener loses its pub/sub connection and subscribes again: what was
\* published meanwhile is not delivered.
ListenerFails ==
  /\ MayFail
  /\ heard < Len(published)
  /\ faults' = faults + 1
  /\ heard' = Len(published)
  /\ UNCHANGED <<quotes, hand, cached, latest, published, slots, hubVars, buffer, dropped,
                 leaseVars, pc, todo, snapshot, sendVars, log, commands>>

-----------------------------------------------------------------------------
(* The send loop *)

\* Faulty variant: the quote is not removed from the buffer.
TakeDuePeeks(c) ==
  LET ready == {s \in due[c] : buffer[c][s] # 0}
      s     == First(ready)
  IN  /\ sender[c] /\ sending[c] = NoTurn
      /\ ready # {}
      /\ sending' = [sending EXCEPT ![c] = [symbol |-> s, turn |-> buffer[c][s]]]
      /\ due' = [due EXCEPT ![c] = @ \ {s}]
      /\ UNCHANGED <<feedVars, slots, hubVars, buffer, leaseVars, pc, todo, snapshot,
                     sender, log, commands, faults>>

\* get_due: the first symbol in sorted order whose interval has passed.
TakeDue(c) ==
  LET ready == {s \in due[c] : buffer[c][s] # 0}
      s     == First(ready)
  IN  /\ sender[c] /\ sending[c] = NoTurn
      /\ ready # {}
      /\ sending' = [sending EXCEPT ![c] = [symbol |-> s, turn |-> buffer[c][s]]]
      /\ buffer' = [buffer EXCEPT ![c][s] = 0]
      /\ due' = [due EXCEPT ![c] = @ \ {s}]
      /\ UNCHANGED <<feedVars, slots, hubVars, leaseVars, pc, todo, snapshot, sender,
                     log, commands, faults>>

\* send_message, once the send lock is free.
SendQuote(c) ==
  /\ sending[c] # NoTurn
  /\ log' = [log EXCEPT ![c] = Append(@, Live(sending[c]))]
  /\ sending' = [sending EXCEPT ![c] = NoTurn]
  /\ UNCHANGED <<feedVars, slots, hubVars, buffer, leaseVars, pc, todo, snapshot,
                 sender, due, commands, faults>>

\* get_due looks at the interval of a symbol only when it holds a quote of it.
IntervalPasses(c, s) ==
  /\ sender[c] /\ s \notin due[c] /\ buffer[c][s] # 0
  /\ due' = [due EXCEPT ![c] = @ \cup {s}]
  /\ UNCHANGED <<feedVars, slots, hubVars, buffer, leaseVars, pc, todo, snapshot,
                 sender, sending, log, commands, faults>>

-----------------------------------------------------------------------------
(* Admission *)

\* _ACQUIRE_SCRIPT admits one more connection.
HasSlot == Cardinality(slots) < MaxConnections

\* ConnectionRegistry.acquire; hub.add follows without a suspension.
Acquire(c) ==
  /\ pc[c] = "new"
  /\ \/ /\ HasSlot
        /\ slots' = slots \cup {c}
        /\ sessions' = sessions \cup {c}
        /\ pc' = [pc EXCEPT ![c] = "admitted"]
     \/ /\ ~HasSlot
        /\ pc' = [pc EXCEPT ![c] = "refused"]
        /\ UNCHANGED <<slots, sessions>>
  /\ UNCHANGED <<feedVars, subs, index, buffer, leaseVars, todo, snapshot, sendVars,
                 log, commands, faults>>

\* accept and the "connected" message; the tasks are created.
Accept(c) ==
  /\ pc[c] = "admitted"
  /\ pc' = [pc EXCEPT ![c] = "open"]
  /\ sender' = [sender EXCEPT ![c] = TRUE]
  /\ UNCHANGED <<feedVars, slots, hubVars, buffer, leaseVars, todo, snapshot, sending,
                 due, log, commands, faults>>

\* acquire raises, or the client is gone before the handler has entered its
\* try block.
AcceptFails(c) ==
  /\ pc[c] \in {"new", "admitted"}
  /\ MayFail
  /\ faults' = faults + 1
  /\ pc' = [pc EXCEPT ![c] = "gone"]
  /\ UNCHANGED <<feedVars, slots, hubVars, buffer, leaseVars, todo, snapshot, sendVars,
                 log, commands>>

-----------------------------------------------------------------------------
(* The receive loop *)

\* A valid subscribe command; one that exceeds the symbol limit only gets an
\* error message.
Subscribe(c, symbols) ==
  /\ pc[c] = "open"
  /\ commands[c] < MaxCommands
  /\ symbols # {}
  /\ Cardinality(subs[c] \cup symbols) <= MaxSymbols
  /\ commands' = [commands EXCEPT ![c] = @ + 1]
  /\ todo' = [todo EXCEPT ![c] = symbols]
  /\ pc' = [pc EXCEPT ![c] = "registry"]
  /\ UNCHANGED <<feedVars, slots, hubVars, buffer, leaseVars, snapshot, sendVars, log,
                 faults>>

\* registry.subscribe has returned; hub.subscribe follows at once. Only the
\* symbols that are new to the session get a snapshot.
HubSubscribe(c) ==
  LET added == todo[c] \ subs[c]
  IN  /\ pc[c] = "registry"
      /\ registered' = [registered EXCEPT ![c] = @ \cup todo[c]]
      /\ subs' = [subs EXCEPT ![c] = @ \cup added]
      /\ index' = [s \in Symbols |-> IF s \in added THEN index[s] \cup {c} ELSE index[s]]
      /\ todo' = [todo EXCEPT ![c] = added]
      /\ pc' = [pc EXCEPT ![c] = IF added = {} THEN "ack" ELSE "snapshot"]
      /\ UNCHANGED <<feedVars, slots, sessions, buffer, snapshot, sendVars, log,
                     commands, faults, lapsed>>

\* The next stage of the loop over the symbols that are left.
AfterSnapshot(left) == IF left = {} THEN "ack" ELSE "snapshot"

\* store.get_latest of the next symbol; none is sent when the key is missing.
GetLatest(c) ==
  LET s == First(todo[c])
  IN  /\ pc[c] = "snapshot"
      /\ \/ /\ latest[s] # 0
            /\ snapshot' = [snapshot EXCEPT ![c] = [symbol |-> s, number |-> latest[s]]]
            /\ pc' = [pc EXCEPT ![c] = "snapsend"]
            /\ UNCHANGED todo
         \/ /\ latest[s] = 0
            /\ todo' = [todo EXCEPT ![c] = @ \ {s}]
            /\ pc' = [pc EXCEPT ![c] = AfterSnapshot(todo[c] \ {s})]
            /\ UNCHANGED snapshot
      /\ UNCHANGED <<feedVars, slots, hubVars, buffer, leaseVars, sendVars, log,
                     commands, faults>>

SendSnapshot(c) ==
  LET left == todo[c] \ {snapshot[c].symbol}
  IN  /\ pc[c] = "snapsend"
      /\ log' = [log EXCEPT ![c] = Append(@, Snapshot(snapshot[c]))]
      /\ snapshot' = [snapshot EXCEPT ![c] = NoQuote]
      /\ todo' = [todo EXCEPT ![c] = left]
      /\ pc' = [pc EXCEPT ![c] = AfterSnapshot(left)]
      /\ UNCHANGED <<feedVars, slots, hubVars, buffer, leaseVars, sendVars, commands,
                     faults>>

\* Faulty variant: the session keeps the symbols.
UnsubscribeKeepsSession(c, symbols) ==
  /\ pc[c] = "open"
  /\ commands[c] < MaxCommands
  /\ symbols # {}
  /\ commands' = [commands EXCEPT ![c] = @ + 1]
  /\ todo' = [todo EXCEPT ![c] = symbols \cap subs[c]]
  /\ pc' = [pc EXCEPT ![c] = "unregister"]
  /\ UNCHANGED <<feedVars, slots, hubVars, buffer, leaseVars, snapshot, sendVars, log,
                 faults>>

\* An unsubscribe command: the hub first, then the registry. What is in the
\* buffer stays there.
Unsubscribe(c, symbols) ==
  LET removed == symbols \cap subs[c]
  IN  /\ pc[c] = "open"
      /\ commands[c] < MaxCommands
      /\ symbols # {}
      /\ commands' = [commands EXCEPT ![c] = @ + 1]
      /\ subs' = [subs EXCEPT ![c] = @ \ removed]
      /\ index' = [s \in Symbols |-> IF s \in removed THEN index[s] \ {c} ELSE index[s]]
      /\ todo' = [todo EXCEPT ![c] = removed]
      /\ pc' = [pc EXCEPT ![c] = "unregister"]
      /\ UNCHANGED <<feedVars, slots, sessions, buffer, leaseVars, snapshot, sendVars,
                     log, faults>>

RegistryUnsubscribe(c) ==
  /\ pc[c] = "unregister"
  /\ registered' = [registered EXCEPT ![c] = @ \ todo[c]]
  /\ todo' = [todo EXCEPT ![c] = {}]
  /\ pc' = [pc EXCEPT ![c] = "ack"]
  /\ UNCHANGED <<feedVars, slots, hubVars, buffer, snapshot, sendVars, log, commands,
                 faults, lapsed>>

SendAck(c) ==
  /\ pc[c] = "ack"
  /\ log' = [log EXCEPT ![c] = Append(@, Ack)]
  /\ pc' = [pc EXCEPT ![c] = "open"]
  /\ UNCHANGED <<feedVars, slots, hubVars, buffer, leaseVars, todo, snapshot, sendVars,
                 commands, faults>>

\* The key of the connection expires: its heartbeats are late, or heartbeat_loop
\* has ended with an exception while the session goes on.
LeaseLapses(c) ==
  /\ MayFail
  /\ registered[c] # {}
  /\ registered' = [registered EXCEPT ![c] = {}]
  /\ lapsed' = lapsed \cup {c}
  /\ UNCHANGED <<feedVars, slots, hubVars, buffer, pc, todo, snapshot, sendVars, log,
                 commands, faults>>

-----------------------------------------------------------------------------
(* The end of the connection *)

\* The receive loop ends and the finally block cancels the tasks; nothing looks
\* at the intervals any more.
EndReceiving(c) ==
  /\ sender' = [sender EXCEPT ![c] = FALSE]
  /\ sending' = [sending EXCEPT ![c] = NoTurn]
  /\ due' = [due EXCEPT ![c] = Symbols]
  /\ snapshot' = [snapshot EXCEPT ![c] = NoQuote]
  /\ todo' = [todo EXCEPT ![c] = {}]
  /\ pc' = [pc EXCEPT ![c] = "disconnect"]
  /\ UNCHANGED <<feedVars, slots, hubVars, buffer, log, commands>>

\* The client disconnects or is closed as idle: receive_json or a send raises.
Leave(c) ==
  /\ pc[c] \in {"open", "snapsend", "ack"}
  /\ EndReceiving(c)
  /\ UNCHANGED <<leaseVars, faults>>

\* A Redis call of a command raises. The registry may have visited some of the
\* symbols by then.
CommandFails(c) ==
  /\ pc[c] \in {"registry", "snapshot", "unregister"}
  /\ MayFail
  /\ faults' = faults + 1
  /\ \E part \in SUBSET todo[c] :
       registered' = [registered EXCEPT ![c] =
                        CASE pc[c] = "registry"   -> @ \cup part
                          [] pc[c] = "snapshot"   -> @
                          [] pc[c] = "unregister" -> @ \ part]
  /\ UNCHANGED lapsed
  /\ EndReceiving(c)

\* Faulty variant: the connection stays in the index of the hub.
DisconnectKeepsIndex(c) ==
  /\ pc[c] = "disconnect"
  /\ registered' = [registered EXCEPT ![c] = {}] /\ lapsed' = lapsed \ {c}
  /\ sessions' = sessions \ {c}
  /\ buffer' = [buffer EXCEPT ![c] = [s \in Symbols |-> 0]]
  /\ pc' = [pc EXCEPT ![c] = "release"]
  /\ UNCHANGED <<feedVars, slots, subs, index, todo, snapshot, sendVars, log, commands,
                 faults>>

\* registry.disconnect has returned; hub.remove follows at once and closes
\* the buffer.
Disconnect(c) ==
  /\ pc[c] = "disconnect"
  /\ registered' = [registered EXCEPT ![c] = {}] /\ lapsed' = lapsed \ {c}
  /\ sessions' = sessions \ {c}
  /\ index' = [s \in Symbols |-> IF s \in subs[c] THEN index[s] \ {c} ELSE index[s]]
  /\ buffer' = [buffer EXCEPT ![c] = [s \in Symbols |-> 0]]
  /\ pc' = [pc EXCEPT ![c] = "release"]
  /\ UNCHANGED <<feedVars, slots, subs, todo, snapshot, sendVars, log, commands, faults>>

\* connections.release.
Release(c) ==
  /\ pc[c] = "release"
  /\ slots' = slots \ {c}
  /\ pc' = [pc EXCEPT ![c] = "gone"]
  /\ UNCHANGED <<feedVars, hubVars, buffer, leaseVars, todo, snapshot, sendVars, log,
                 commands, faults>>

\* A Redis call of the finally block raises: what follows it is skipped.
\* registry.disconnect may have visited some of the symbols.
FinallyFails(c) ==
  /\ pc[c] \in {"disconnect", "release"}
  /\ MayFail
  /\ faults' = faults + 1
  /\ \E part \in SUBSET registered[c] :
       registered' = [registered EXCEPT ![c] = @ \ part]
  /\ pc' = [pc EXCEPT ![c] = "gone"]
  /\ UNCHANGED <<feedVars, slots, hubVars, buffer, todo, snapshot, sendVars, log,
                 commands, lapsed>>

-----------------------------------------------------------------------------
\* The steps that a handler takes once it is admitted, without a new command.
HandlerStep(c) ==
  \/ Accept(c) \/ HubSubscribe(c) \/ GetLatest(c) \/ SendSnapshot(c)
  \/ RegistryUnsubscribe(c) \/ SendAck(c) \/ Disconnect(c) \/ Release(c)

SenderStep(c) ==
  TakeDue(c) \/ SendQuote(c) \/ \E s \in Symbols : IntervalPasses(c, s)

Next ==
  \/ \E p \in Processors :
       \/ \E n \in 1..MaxQuotes : \E symbols \in [1..n -> Symbols] : ReadBatch(p, symbols)
       \/ CacheQuote(p) \/ PublishFanout(p)
  \/ Fanout \/ ListenerFails
  \/ \E c \in Connections :
       \/ Acquire(c) \/ AcceptFails(c)
       \/ \E symbols \in SUBSET Symbols : Subscribe(c, symbols) \/ Unsubscribe(c, symbols)
       \/ HandlerStep(c) \/ SenderStep(c)
       \/ LeaseLapses(c) \/ Leave(c) \/ CommandFails(c) \/ FinallyFails(c)

Spec == Init /\ [][Next]_vars

\* The processors, the listener and the tasks of a connection run when they can,
\* and each interval passes. Providers are free to send quotes; clients are free
\* to send commands, to stay or to leave.
FairSpec ==
  /\ Spec
  /\ \A p \in Processors : WF_vars(CacheQuote(p)) /\ WF_vars(PublishFanout(p))
  /\ WF_vars(Fanout)
  /\ \A c \in Connections :
       /\ WF_vars(HandlerStep(c)) /\ WF_vars(TakeDue(c)) /\ WF_vars(SendQuote(c))
       /\ \A s \in Symbols : WF_vars(IntervalPasses(c, s))

-----------------------------------------------------------------------------
(* Properties *)

\* Type invariant of the hub, the buffers and the handlers.
TypeOK ==
  /\ quotes \in 0..MaxQuotes
  /\ latest \in [Symbols -> 0..MaxQuotes]
  /\ hand \in [Processors -> Seq(QuoteRecord)] /\ cached \subseteq Processors
  /\ published \in Seq(QuoteRecord) /\ heard \in Nat
  /\ slots \subseteq Connections \cup Elsewhere /\ sessions \subseteq Connections
  /\ subs \in [Connections -> SUBSET Symbols]
  /\ index \in [Symbols -> SUBSET Connections]
  /\ buffer \in [Connections -> [Symbols -> Nat]]
  /\ dropped \in [Connections -> Nat]
  /\ registered \in [Connections -> SUBSET Symbols] /\ lapsed \subseteq Connections
  /\ pc \in [Connections -> Stages]
  /\ todo \in [Connections -> SUBSET Symbols]
  /\ snapshot \in [Connections -> QuoteRecord \cup {NoQuote}]
  /\ sender \in [Connections -> BOOLEAN]
  /\ sending \in [Connections -> TurnRecord \cup {NoTurn}]
  /\ due \in [Connections -> SUBSET Symbols]
  /\ log \in [Connections -> Seq(Message)]
  /\ commands \in [Connections -> 0..MaxCommands]
  /\ faults \in Nat

\* The hub's two indexes agree, across every order of commands, disconnects
\* and failures: a session is listed under exactly its own subscriptions
\* (ConnectionHub.subscribe, unsubscribe, remove).
HubIndexExact ==
  \A s \in Symbols : index[s] = {c \in sessions : s \in subs[c]}

\* What the hub delivers to a session is listed in the connection's key unless
\* the key has expired, whatever the order of commands and failures: heartbeat
\* refreshes the lease of every symbol that the session is sent (the order of
\* the registry and the hub in receive_loop).
DeliveredIsRegistered ==
  \A c \in Connections : pc[c] \in Receiving /\ c \notin lapsed => subs[c] \subseteq registered[c]

\* The live quotes of a symbol reach a client in the order in which they were
\* published, whatever the buffer coalesces and the send loop delays
\* (LatestValueBuffer.put and get_due).
LiveInOrder ==
  \A c \in Connections : \A i, j \in DOMAIN log[c] :
    /\ i < j
    /\ log[c][i].type = "quote" /\ log[c][j].type = "quote"
    /\ log[c][i].symbol = log[c][j].symbol
    => log[c][i].turn < log[c][j].turn

\* No quote of s was published after the n-th message.
LastPublished(s, n) == \A k \in DOMAIN published : published[k].symbol = s => k <= n

\* c was sent the cached quote of s, or the quote of s that was published last.
\* With one processor the two are the same quote.
Current(c, s) ==
  \/ latest[s] = 0
  \/ \E i \in DOMAIN log[c] :
       /\ log[c][i].symbol = s
       /\ \/ log[c][i].number = latest[s]
          \/ log[c][i].type = "quote" /\ LastPublished(s, log[c][i].turn)

\* Nothing of s is on its way to c.
Settled(c, s) ==
  /\ cached = {} /\ heard = Len(published)
  /\ buffer[c][s] = 0 /\ sending[c] = NoTurn

\* No quote falls between the snapshot and the live stream: when nothing is
\* on its way and the buffer counted no drop, a subscribed client was sent
\* the cached quote or the one published last unless a call has failed,
\* however the processors interleave (hub.subscribe before get_latest,
\* cache_quote before publish_fanout).
NoGap ==
  \A c \in Connections : \A s \in subs[c] :
    pc[c] = "open" /\ dropped[c] = 0 /\ faults = 0 /\ Settled(c, s) => Current(c, s)

\* A client that stays subscribed, and for which no drop is counted, is
\* eventually sent the cached quote or the one published last if no call
\* fails (the send loop and its intervals).
EventuallyCurrent ==
  \A c \in Connections, s \in Symbols :
    <>[](pc[c] = "open" /\ s \in subs[c] /\ dropped[c] = 0 /\ faults = 0)
      => <>[]Current(c, s)

\* Dead connections close and their subscriptions are removed: a handler that
\* has ended left neither a session nor a subscription nor a slot, unless a
\* call has failed (the finally block of market_stream).
EndedLeavesNothing ==
  \A c \in Connections :
    pc[c] = "gone" /\ faults = 0 => /\ c \notin sessions \cup slots
                                     /\ registered[c] = {}
                                     /\ \A s \in Symbols : c \notin index[s]

\* New subscribers receive the snapshot before live updates: within a command
\* no live quote of a symbol precedes its snapshot (receive_loop against the
\* send loop).
SnapshotBeforeLive ==
  \A c \in Connections : \A i, j \in DOMAIN log[c] :
    /\ i < j
    /\ log[c][i].type = "quote" /\ log[c][j].type = "snapshot"
    /\ log[c][i].symbol = log[c][j].symbol
    => \E k \in i..j : log[c][k].type = "ack"
=============================================================================
