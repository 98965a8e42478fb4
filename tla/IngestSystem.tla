---------------------------- MODULE IngestSystem ----------------------------
(***************************************************************************)
(* From a push to a bill: the store of PostgresStore, one relay process    *)
(* that drains its outbox_events (Run and reportBacklog of                 *)
(* src/internal/outbox/relay.go), and the downstream consumer, which is    *)
(* told to deduplicate on event_id.                                        *)
(*                                                                         *)
(* Within a pass the relay is taken as OutboxContract allows: it delivers  *)
(* what it has claimed and settles it with one commit.  Locks, batches,    *)
(* attempts and backoff are the business of OutboxRelay.  What is in full  *)
(* here is the loop around the pass and the two backlog gauges, which come *)
(* from queries of their own while the store goes on committing.           *)
(***************************************************************************)
EXTENDS PostgresStore

CONSTANTS
  Poison,          \* producers whose events the transport never accepts
  MaxRelayFaults   \* bound: crashes of the relay, queries and commits that fail

ASSUME SystemAssumption == Poison \subseteq Producers /\ MaxRelayFaults \in Nat

VARIABLES
  relay,        \* the place of Run
  counted,      \* what PendingCount returned
  gauges,       \* outbox_pending_events, and whether the oldest age is above zero
  claimed,      \* events of the pass that have not been worked through
  marked,       \* events of the pass that its transaction marks published
  settled,      \* events with published_at set
  billed,       \* event ids the consumer has acted upon
  relayFaults

relayVars == <<relay, counted, gauges, claimed, marked, settled, billed, relayFaults>>
systemVars == <<vars, relayVars>>

NoBacklog == [pending |-> 0, old |-> FALSE]
Unsettled == events \ settled
Poisoned(c) == c[1] \in Poison

SystemInit ==
  /\ Init
  /\ relay = "stopped"
  /\ counted = 0
  /\ gauges = NoBacklog
  /\ claimed = {} /\ marked = {} /\ settled = {} /\ billed = {}
  /\ relayFaults = 0

RelayFault ==
  /\ relayFaults < MaxRelayFaults
  /\ relayFaults' = relayFaults + 1

-----------------------------------------------------------------------------
(* Run                                                                     *)

\* A gauge nobody has set reads zero.
StartRelay ==
  /\ relay = "stopped"
  /\ relay' = "count"
  /\ gauges' = NoBacklog
  /\ UNCHANGED <<vars, counted, claimed, marked, settled, billed, relayFaults>>

CountPending ==
  /\ relay = "count"
  /\ relay' = "oldest"
  /\ counted' = Cardinality(Unsettled)
  /\ UNCHANGED <<vars, gauges, claimed, marked, settled, billed, relayFaults>>

\* Both gauges are set together, from a count that is older than the age.
ReadOldest ==
  /\ relay = "oldest"
  /\ relay' = "claim"
  /\ gauges' = [pending |-> counted, old |-> Unsettled # {}]
  /\ UNCHANGED <<vars, counted, claimed, marked, settled, billed, relayFaults>>

\* reportBacklog returns early and leaves both gauges as they are.
BacklogQueryFails ==
  /\ relay \in {"count", "oldest"}
  /\ RelayFault
  /\ relay' = "claim"
  /\ UNCHANGED <<vars, counted, gauges, claimed, marked, settled, billed>>

\* RunOnce claims what is due.
Claim ==
  /\ relay = "claim"
  /\ relay' = "publish"
  /\ claimed' = Unsettled
  /\ UNCHANGED <<vars, counted, gauges, marked, settled, billed, relayFaults>>

\* Mutated form of Publish: the consumer is not given the event.
MarkWithoutPublish(c) ==
  /\ relay = "publish" /\ c \in claimed /\ ~Poisoned(c)
  /\ claimed' = claimed \ {c}
  /\ marked' = marked \cup {c}
  /\ UNCHANGED <<vars, relay, counted, gauges, settled, billed, relayFaults>>

\* The transport takes the event to the consumer, which knows its id or bills it.
Publish(c) ==
  /\ relay = "publish" /\ c \in claimed /\ ~Poisoned(c)
  /\ claimed' = claimed \ {c}
  /\ marked' = marked \cup {c}
  /\ billed' = billed \cup {c}
  /\ UNCHANGED <<vars, relay, counted, gauges, settled, relayFaults>>

\* The publisher refuses the event, which stays for a later pass.
PublishFails(c) ==
  /\ relay = "publish" /\ c \in claimed
  /\ claimed' = claimed \ {c}
  /\ UNCHANGED <<vars, relay, counted, gauges, marked, settled, billed, relayFaults>>

\* The consumer has the event, and the publisher reports an error all the same.
PublishUnacknowledged(c) ==
  /\ relay = "publish" /\ c \in claimed /\ ~Poisoned(c)
  /\ claimed' = claimed \ {c}
  /\ billed' = billed \cup {c}
  /\ UNCHANGED <<vars, relay, counted, gauges, marked, settled, relayFaults>>

\* Mutated form of CommitPass: the backlog is reported once, before the loop.
CommitPassUnreported ==
  /\ relay = "publish" /\ claimed = {}
  /\ relay' = "claim"
  /\ settled' = settled \cup marked
  /\ marked' = {}
  /\ UNCHANGED <<vars, counted, gauges, claimed, billed, relayFaults>>

\* The pass is committed, and Run reports the backlog before the next.
CommitPass ==
  /\ relay = "publish" /\ claimed = {}
  /\ relay' = "count"
  /\ settled' = settled \cup marked
  /\ marked' = {}
  /\ UNCHANGED <<vars, counted, gauges, claimed, billed, relayFaults>>

\* The transaction of the pass fails: what it published is published again.
PassFails ==
  /\ relay \in {"claim", "publish"}
  /\ RelayFault
  /\ relay' = "count"
  /\ claimed' = {} /\ marked' = {}
  /\ UNCHANGED <<vars, counted, gauges, settled, billed>>

\* The process ends, by SIGTERM or by a crash.
RelayStops ==
  /\ relay # "stopped"
  /\ RelayFault
  /\ relay' = "stopped"
  /\ claimed' = {} /\ marked' = {}
  /\ UNCHANGED <<vars, counted, gauges, settled, billed>>

-----------------------------------------------------------------------------

RelayWorks ==
  \/ StartRelay \/ CountPending \/ ReadOldest \/ Claim \/ CommitPass
  \/ \E c \in Calls : Publish(c) \/ PublishFails(c) \/ PublishUnacknowledged(c)

RelayStep == RelayWorks \/ BacklogQueryFails \/ PassFails \/ RelayStops

\* A step of the store, whose explicit end is now a state the relay may go on in.
StoreStep == Next /\ UNCHANGED relayVars

SystemNext == StoreStep \/ RelayStep

SystemSpec == SystemInit /\ [][SystemNext]_systemVars

\* The store as before; the relay works on and is restarted, and a transport
\* that is asked again and again takes a healthy event.
SystemFairness ==
  /\ Fairness
  /\ WF_relayVars(RelayWorks)
  /\ \A c \in {d \in Calls : ~Poisoned(d)} : SF_relayVars(Publish(c))

FairSystemSpec == SystemSpec /\ SystemFairness

Outbox == INSTANCE OutboxContract WITH Events <- Calls, queued <- events, delivered <- billed

-----------------------------------------------------------------------------
(* Properties                                                              *)

\* However pushes overlap, fail and are repeated, and however often an event is
\* delivered: a key is billed once, for the transaction whose id its producers
\* were given.
BilledOnce ==
  \A c \in billed :
    /\ \A d \in billed : KeyOf[d] = KeyOf[c] => d = c
    /\ \A d \in Calls : KeyOf[d] = KeyOf[c] /\ Accepted(d) => answer[d].id = c

\* "Producers retry", and relays do: a producer with a push to spare learns that
\* its transaction is recorded, and what it is told about is billed.
EveryPushIsBilled ==
  <>\A p \in Producers : \E n \in 1..MaxCalls[p] :
        /\ Accepted(<<p, n>>)
        /\ answer[<<p, n>>].id \in billed \/ Poisoned(answer[<<p, n>>].id)

\* The outbox gauges tell in the end, though they are set from two queries, of
\* which either may fail, and lost with the process: once nothing changes, both
\* show a backlog if there is one and none if there is none.
GaugesSettle ==
  <>[](/\ gauges.pending = Cardinality(Unsettled)
       /\ gauges.old <=> Unsettled # {})

\* Between the producers and the consumer lies what the outbox promises.
ImplementsOutbox == Outbox!Spec

-----------------------------------------------------------------------------
(* The inductive invariant behind the safety properties                    *)

\* The relay works through committed events only, and what it has marked or
\* settled, the consumer has been given.
RelayOK ==
  /\ claimed \subseteq events /\ billed \subseteq events
  /\ marked \subseteq billed /\ settled \subseteq billed

SystemOK == StoreOK /\ RelayOK
=============================================================================
