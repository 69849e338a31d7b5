----------------------------- MODULE MCEventSystem -----------------------------
(* EventUsers for TLC. *)
EXTENDS EventUsers

\* survivors is the standard module's SelectSeq, for every short vector.
ASSUME SurvivorsAreSelected ==
  \A living \in SUBSET Object, objects \in BoundedSeq(Object, 4) :
    survivors(objects, living) = SelectSeq(objects, LAMBDA o : o \in living)

=============================================================================
