-------------------------- MODULE BookingClientMC --------------------------
(* Configurations for TLC: with and without a duration for estimates.        *)
EXTENDS BookingClient

BothOrService == {Kinds, {"service"}}
=============================================================================
