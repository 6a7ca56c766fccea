------------------------------- MODULE Outbox -------------------------------
(***************************************************************************)
(* What the MQTT client promises to the code that publishes through it,    *)
(* with the connection, the threads and the retries left out: a message    *)
(* leaves a caller's hands by being transmitted at once, by joining a      *)
(* waiting line, or by being given up; the waiting line is served strictly *)
(* from its front; and a message that left never comes back, so nothing is *)
(* transmitted twice.  MqttClient is shown to implement this module.       *)
(***************************************************************************)
EXTENDS Sequences

CONSTANT Messages      \* the messages that may ever be published

VARIABLES
    held,              \* messages inside a publish call that has not returned
    waiting,           \* the waiting line, oldest first
    delivered,         \* messages given to the transport, in that order
    gone               \* messages given up (refused, abandoned, lost, discarded)

outboxVars == <<held, waiting, delivered, gone>>

Elements(s) == {s[i] : i \in DOMAIN s}

OutboxInit ==
    /\ held = {}
    /\ waiting = <<>>
    /\ delivered = <<>>
    /\ gone = {}

(* A caller offers a message that was never seen before. *)
Offer(m) ==
    /\ m \notin held \cup Elements(waiting) \cup Elements(delivered) \cup gone
    /\ held' = held \cup {m}
    /\ UNCHANGED <<waiting, delivered, gone>>

(* A message that was never seen before joins the end of the waiting line. *)
OfferToLine(m) ==
    /\ m \notin held \cup Elements(waiting) \cup Elements(delivered) \cup gone
    /\ waiting' = Append(waiting, m)
    /\ UNCHANGED <<held, delivered, gone>>

(* A held message is transmitted without waiting. *)
Deliver(m) ==
    /\ m \in held
    /\ held' = held \ {m}
    /\ delivered' = Append(delivered, m)
    /\ UNCHANGED <<waiting, gone>>

(* A held message joins the end of the waiting line. *)
Defer(m) ==
    /\ m \in held
    /\ held' = held \ {m}
    /\ waiting' = Append(waiting, m)
    /\ UNCHANGED <<delivered, gone>>

(* A held message is given up. *)
GiveUp(m) ==
    /\ m \in held
    /\ held' = held \ {m}
    /\ gone' = gone \cup {m}
    /\ UNCHANGED <<waiting, delivered>>

(* The front of the waiting line is transmitted, or lost in the attempt. *)
ServeFront ==
    /\ waiting # <<>>
    /\ waiting' = Tail(waiting)
    /\ \/ /\ delivered' = Append(delivered, Head(waiting))
          /\ UNCHANGED gone
       \/ /\ gone' = gone \cup {Head(waiting)}
          /\ UNCHANGED delivered
    /\ UNCHANGED held

(* The client is deleted: whatever still waits is discarded. *)
Discard ==
    /\ waiting' = <<>>
    /\ gone' = gone \cup Elements(waiting)
    /\ UNCHANGED <<held, delivered>>

OutboxNext ==
    \/ \E m \in Messages :
          Offer(m) \/ OfferToLine(m) \/ Deliver(m) \/ Defer(m) \/ GiveUp(m)
    \/ ServeFront
    \/ Discard

OutboxSpec == OutboxInit /\ [][OutboxNext]_outboxVars

=============================================================================
