---------------------------- MODULE MessageFiling ----------------------------
(***************************************************************************)
(* What inbound channels promise of the messages they are given.  Every    *)
(* message is filed at most once, stays where it was filed, and is         *)
(* confirmed to the provider only when it is filed.  A ticket holds the    *)
(* message that opened it and others of the same requester, and no message *)
(* is filed on a ticket whose first message was lost.  ChannelIntake is    *)
(* shown to implement it.                                                  *)
(***************************************************************************)
CONSTANTS
  Message,     \* of each event that the provider delivers, the message it carries
  Requester    \* of each event, who sent it to which domain

VARIABLES
  filed,       \* pairs of an event and the event that opened its ticket
  confirmed    \* events the provider will not deliver again

IsFiled(e) == \E p \in filed : Message[p[1]] = Message[e]

InOrder ==
  /\ \A p, q \in filed : Message[p[1]] = Message[q[1]] => p = q
  /\ \A p \in filed : <<p[2], p[2]>> \in filed /\ Requester[p[1]] = Requester[p[2]]
  /\ \A e \in confirmed : IsFiled(e)

FilingInit == filed = {} /\ confirmed = {}

(* A batch of messages is filed, or confirmed, or both, in one step.        *)
File ==
  /\ filed \subseteq filed' /\ confirmed \subseteq confirmed'
  /\ InOrder'

FilingSpec == FilingInit /\ [][File]_<<filed, confirmed>>
=============================================================================
