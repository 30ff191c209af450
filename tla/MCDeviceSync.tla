----------------------------- MODULE MCDeviceSync -----------------------------
(* Instances of DeviceSync for TLC.                                        *)
EXTENDS DeviceSync

CONSTANTS daily, project, pu, pl
=============================================================================
