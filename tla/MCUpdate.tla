------------------------------ MODULE MCUpdate ------------------------------
(* UpdateSystem with a factory release, two builds of release 2, a release 3. *)
EXTENDS UpdateSystem

Rel(r, b) == [release |-> r, build |-> b]
MCFactory == Rel(1, 1)
MCImages == {Rel(1, 1), Rel(2, 1), Rel(2, 2), Rel(3, 1)}
=============================================================================
