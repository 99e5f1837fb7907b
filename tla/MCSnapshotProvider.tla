------------------------- MODULE MCSnapshotProvider -------------------------
(***************************************************************************)
(* A scope with a MAVLink vehicle, a prefix of more aircraft than the      *)
(* limit, and configured identifiers of two families.                      *)
(***************************************************************************)
EXTENDS SnapshotProvider

MCTargets ==
  << [family |-> "mavlink", ids |-> <<"asset">>],
     [family |-> "mavlink", ids |-> <<"track">>],
     [family |-> "adsb", ids |-> <<"a1", "a2", "a3">>] >>

MCSeeds ==
  << [family |-> "mavlink", id |-> "asset"], [family |-> "mavlink", id |-> "track"],
     [family |-> "cap", id |-> "hazard"] >>

\* As main sets it up, and the direct reads alone without anything to fall back on.
MCModes == {[discovery |-> TRUE, fallback |-> TRUE], [discovery |-> FALSE, fallback |-> FALSE]}
=============================================================================
