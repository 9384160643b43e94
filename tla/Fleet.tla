------------------------------- MODULE Fleet --------------------------------
(* What the components of the backend know each other by.                   *)
EXTENDS FiniteSets

CONSTANT Device  \* the device keys: rows of devices, MQTT client ids, topic segments

ASSUME FleetAssumption == IsFiniteSet(Device)
=============================================================================
