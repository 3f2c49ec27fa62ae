----------------------------- MODULE EventDelivery -----------------------------
(***************************************************************************)
(* What the collector promises about the events handed to it: an event is   *)
(* let go only when the server has it or when it is kept for the operator,  *)
(* and the server has only events that were handed in.  How often an event  *)
(* is sent, by whom, and what is lost on the way does not show here.        *)
(***************************************************************************)
CONSTANT Events

VARIABLES
  held,     \* events in the collector's outbox
  stored,   \* events in the server's database
  givenUp   \* events in the collector's dead-letter table

Known == held \cup stored \cup givenUp

Init == held = {} /\ stored = {} /\ givenUp = {}

HandIn(e) ==
  /\ held' = held \cup {e}
  /\ UNCHANGED <<stored, givenUp>>

\* Any number of events arrive at the server, some of them not for the first time.
Arrive ==
  /\ \E arriving \in SUBSET Known : stored' = stored \cup arriving
  /\ UNCHANGED <<held, givenUp>>

\* Events leave the outbox: those the server has, and those that are given up.
LetGo ==
  /\ \E delivered \in SUBSET stored, kept \in SUBSET Known :
       /\ held' = held \ (delivered \cup kept)
       /\ givenUp' = givenUp \cup kept
  /\ UNCHANGED stored

Next == (\E e \in Events : HandIn(e)) \/ Arrive \/ LetGo

Spec == Init /\ [][Next]_<<held, stored, givenUp>>

===============================================================================
