---------------------------- MODULE LaneDelivery ----------------------------
(***************************************************************************)
(* What a pipeline promises each of its sinks, abstractly: events are      *)
(* accepted in the order their source produced them, each at most once,    *)
(* and an accepted event is delivered or given up at most once.  Nothing   *)
(* is promised about the order of delivery or that an event is accepted.   *)
(***************************************************************************)
EXTENDS Naturals

CONSTANTS Lane, Event

VARIABLES
  accepted,  \* accepted[l]: events the lane took responsibility for
  delivered, \* delivered[l]: events its sink has
  givenUp    \* givenUp[l]: events it discarded, counted or logged

vars == <<accepted, delivered, givenUp>>

Init ==
  /\ accepted = [l \in Lane |-> {}]
  /\ delivered = [l \in Lane |-> {}]
  /\ givenUp = [l \in Lane |-> {}]

\* A source's events are accepted in source order.
Accept(l, e) ==
  /\ \A f \in accepted[l] : f.src = e.src => f.n < e.n
  /\ accepted' = [accepted EXCEPT ![l] = @ \cup {e}]
  /\ UNCHANGED <<delivered, givenUp>>

\* The events of l that are still owed to its sink.
Owed(l) == accepted[l] \ (delivered[l] \cup givenUp[l])

Deliver(l, e) ==
  /\ e \in Owed(l)
  /\ delivered' = [delivered EXCEPT ![l] = @ \cup {e}]
  /\ UNCHANGED <<accepted, givenUp>>

GiveUp(l, e) ==
  /\ e \in Owed(l)
  /\ givenUp' = [givenUp EXCEPT ![l] = @ \cup {e}]
  /\ UNCHANGED <<accepted, delivered>>

Next ==
  \E l \in Lane, e \in Event : Accept(l, e) \/ Deliver(l, e) \/ GiveUp(l, e)

Spec == Init /\ [][Next]_vars
=============================================================================
