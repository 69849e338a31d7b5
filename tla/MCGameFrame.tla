------------------------------ MODULE MCGameFrame ------------------------------
(* GameFrame for TLC, with the events and the objects of the program. *)
EXTENDS GameFrame

ASSUME NamesAssumption == ProgramNames

=============================================================================
