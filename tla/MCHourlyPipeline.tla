-------------------------- MODULE MCHourlyPipeline --------------------------
(* Instances of HourlyPipeline for TLC. *)
EXTENDS HourlyPipeline

MCPageTypes == <<"1", "2">>
=============================================================================
