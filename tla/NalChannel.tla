------------------------------ MODULE NalChannel ----------------------------
(***************************************************************************)
(* What the video component promises over an unreliable network: the NALs  *)
(* that reach the application were sent, arrive in the order they were     *)
(* sent, and each at most once.  Any may be missing.                       *)
(***************************************************************************)
EXTENDS Naturals

CONSTANT Count     \* NALs to send

VARIABLES
  produced,        \* NALs 1 .. produced were sent
  latest           \* the last one delivered, 0 before the first

channelVars == <<produced, latest>>

ChannelInit == produced = 0 /\ latest = 0

Produce == /\ produced < Count
           /\ produced' = produced + 1
           /\ UNCHANGED latest

Consume == /\ latest' \in latest + 1 .. produced
           /\ UNCHANGED produced

ChannelSpec == ChannelInit /\ [][Produce \/ Consume]_channelVars
=============================================================================
