----------------------------- MODULE ObjectLifecycle -----------------------------
(***************************************************************************)
(* What attachments and retention together promise about stored files: an  *)
(* object with a row is never removed before a disposal has condemned it,  *)
(* and the certificate of a disposal comes after the removal of every      *)
(* object that it condemned.                                               *)
(***************************************************************************)
CONSTANTS Object, Event, NoEvent

VARIABLES
  phase,     \* where each object is in its life, and for which disposal
  certified  \* disposals with a certificate

Is(o, name) == phase[o] = <<name, NoEvent>>

LifecycleInit ==
  /\ phase \in [Object -> {"absent", "attached"} \X {NoEvent}]
  /\ certified = {}

Store(o) ==
  /\ Is(o, "absent")
  /\ phase' = [phase EXCEPT ![o] = <<"stored", NoEvent>>]
  /\ UNCHANGED certified

Discard(o) ==
  /\ Is(o, "stored")
  /\ phase' = [phase EXCEPT ![o] = <<"absent", NoEvent>>]
  /\ UNCHANGED certified

Attach(S) ==
  /\ \A o \in S : Is(o, "stored")
  /\ phase' = [o \in Object |-> IF o \in S THEN <<"attached", NoEvent>> ELSE phase[o]]
  /\ UNCHANGED certified

Condemn(S, e) ==
  /\ e \notin certified
  /\ \A o \in S : Is(o, "attached")
  /\ phase' = [o \in Object |-> IF o \in S THEN <<"condemned", e>> ELSE phase[o]]
  /\ UNCHANGED certified

Remove(o) ==
  /\ \E e \in Event : /\ phase[o] = <<"condemned", e>>
                      /\ phase' = [phase EXCEPT ![o] = <<"removed", e>>]
  /\ UNCHANGED certified

Certify(e) ==
  /\ \A o \in Object : phase[o] # <<"condemned", e>>
  /\ certified' = certified \union {e}
  /\ UNCHANGED phase

LifecycleNext ==
  \/ \E o \in Object : Store(o) \/ Discard(o) \/ Remove(o)
  \/ \E S \in SUBSET Object : Attach(S) \/ \E e \in Event : Condemn(S, e)
  \/ \E e \in Event : Certify(e)

LifecycleSpec == LifecycleInit /\ [][LifecycleNext]_<<phase, certified>>
=============================================================================
