-------------------------- MODULE HandshakeChannel --------------------------
(***************************************************************************)
(* What the two boards promise each other about one handshake transaction: *)
(* the bytes of every leg arrive complete, in order, without duplicates,   *)
(* and a leg starts only when the leg before it has fully arrived.  No     *)
(* signal line appears here; HandshakeTransfer shows that the DENA/DACK    *)
(* protocol of the two boards implements this module.                      *)
(***************************************************************************)
EXTENDS Naturals, Sequences

CONSTANT Scripts    \* the transactions the boards may run

VARIABLES script,   \* the transaction in progress (or the last one)
          got       \* got[l]: the bytes delivered so far for leg l

vars == <<script, got>>

\* The i-th byte of leg l.  Only its identity matters, never its value.
Byte(l, i) == <<l, i>>

Legs == script.legs

NoScript == [by |-> "none", legs |-> <<>>]

NothingYet(s) == [l \in DOMAIN s.legs |-> <<>>]

\* The bytes of leg l up to position n.
Prefix(l, n) == [i \in 1..n |-> Byte(l, i)]

LegDone(l) == Len(got[l]) = Legs[l].len

Complete == \A l \in DOMAIN Legs : LegDone(l)

Init == /\ script = NoScript
        /\ got = NothingYet(NoScript)

Begin(s) == /\ Complete
            /\ script' = s
            /\ got' = NothingYet(s)

\* A receiver takes one byte (the CPU) or the one or two bytes of a unit (IO).
Deliver(l) ==
  /\ \A k \in DOMAIN Legs : k < l => LegDone(k)
  /\ \E n \in {1, 2} :
       /\ Len(got[l]) + n <= Legs[l].len
       /\ got' = [got EXCEPT ![l] = Prefix(l, Len(got[l]) + n)]
  /\ UNCHANGED script

DeliverSome == \E l \in DOMAIN Legs : Deliver(l)

Next == \/ \E s \in Scripts : Begin(s)
        \/ DeliverSome

Spec == Init /\ [][Next]_vars /\ WF_vars(DeliverSome)
=============================================================================
