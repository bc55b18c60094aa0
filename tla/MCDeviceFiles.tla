---------------------------- MODULE MCDeviceFiles ----------------------------
(* Values for the model checking of DeviceFiles. *)
EXTENDS DeviceFiles
=============================================================================
