-------------------------- MODULE MCChannelCoupler -------------------------
(* Coupled transfers only: sixteen AWs in flight and a four-bit counter.   *)
(* Coupled and decoupled ones mixed: four AWs and a two-bit counter.       *)
EXTENDS ChannelCoupler
MCCoupledOnly == {FALSE}
MCMixed == {FALSE, TRUE}
============================================================================
