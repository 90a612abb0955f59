---------------------------- MODULE LatestValue -----------------------------
(***************************************************************************)
(* What the relay from the Collector to the Viewer promises: not a queue   *)
(* but the latest value.  Values are published in order; the Viewer is     *)
(* shown published values, never goes back to an older one, and may skip   *)
(* or repeat values ("the single packet model" of                          *)
(* docs/design/shm_wrapper_design.md).                                     *)
(***************************************************************************)
EXTENDS Naturals

VARIABLES
  cur,  \* the latest value published
  out   \* the latest value shown to the Viewer

lvVars == <<cur, out>>

LVInit == cur = 0 /\ out = 0

Publish ==
  /\ cur' \in Nat /\ cur' > cur
  /\ UNCHANGED out

Show ==
  /\ out' \in out .. cur
  /\ UNCHANGED cur

LVNext == Publish \/ Show

LVSpec == LVInit /\ [][LVNext]_lvVars

=============================================================================
