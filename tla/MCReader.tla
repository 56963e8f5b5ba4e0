------------------------------ MODULE MCReader ------------------------------
(* The sequencer and the controller with all thirteen addresses in use.    *)
EXTENDS SensorReader

MCAddrs   == {Sequence[s].address : s \in SequencerStates} \cup {ZeroByte}
MCValues  == {ByteOf(0), ByteOf(255)}
=============================================================================
