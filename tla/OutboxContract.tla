--------------------------- MODULE OutboxContract ---------------------------
(***************************************************************************)
(* What the transactional outbox promises, whatever relays drain it:       *)
(* delivery at least once.  An event that was queued is never forgotten,   *)
(* nothing is delivered that was not queued, and an event is settled (its  *)
(* published_at is set, so that no relay looks at it again) only after it  *)
(* has been delivered.  Source: the package comment of                     *)
(* src/internal/outbox/outbox.go and docs/adr/0007-transactional-outbox.md *)
(***************************************************************************)
EXTENDS FiniteSets

CONSTANT Events

VARIABLES queued,     \* events committed to outbox_events
          delivered,  \* events the transport has accepted at least once
          settled     \* events that no relay will publish again

vars == <<queued, delivered, settled>>

TypeOK == queued \subseteq Events /\ delivered \subseteq Events /\ settled \subseteq Events

Init == queued = {} /\ delivered = {} /\ settled = {}

Queue(e) ==
  /\ e \in Events \ queued
  /\ queued' = queued \cup {e}
  /\ UNCHANGED <<delivered, settled>>

Deliver(e) ==
  /\ e \in queued
  /\ delivered' = delivered \cup {e}
  /\ UNCHANGED <<queued, settled>>

\* A relay settles the events of one batch in one commit.
Settle(S) ==
  /\ S \subseteq delivered
  /\ settled' = settled \cup S
  /\ UNCHANGED <<queued, delivered>>

Next ==
  \/ \E e \in Events : Queue(e) \/ Deliver(e)
  \/ \E S \in SUBSET Events : Settle(S)

Spec == Init /\ [][Next]_vars
=============================================================================
