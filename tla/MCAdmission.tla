---------------------------- MODULE MCAdmission ----------------------------
(* Instances of Admission for TLC. *)
EXTENDS Admission

CONSTANTS a, b, c, d

MCCallers == {a, b, c, d}

\* One permit and a caller that may be cancelled; two permits and nobody to cancel.
OneCancellable == [capacity |-> 1, cancellable |-> {b}]
NoneCancellable == [capacity |-> 2, cancellable |-> {}]

MCSetups == {OneCancellable, NoneCancellable}
OrderSetups == {OneCancellable}
=============================================================================
