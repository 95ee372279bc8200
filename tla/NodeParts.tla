------------------------------ MODULE NodeParts -------------------------------
(* The parts of a node whose state outlives a reconcile, side by side: the  *)
(* files of the systemd mode, the OVS bridges, the arguments of the kernel, *)
(* the firmware of the Mellanox NICs and the pod of the device plugin. They *)
(* share no state, so every interleaving of their steps is a behaviour.     *)
EXTENDS SystemdConfig, OvsBridge, KernelArgs, MlxFirmware, DevicePluginGate

PartsSpec == SystemdSpec /\ OvsSpec /\ KargsSpec /\ MlxSpec /\ GateSpec

(* The types of four parts, with what writeTrackerFile, the store of the    *)
(* bridges and restartDevicePluginPod rely on: the reboot counters stay     *)
(* within MaxRebootsPerGeneration, no generation is recorded that is not    *)
(* there yet, the cache of the store is its file, the loop over bridges is  *)
(* at one of those it has left. Those of the firmware are in                *)
(* OneRebootEnough.                                                         *)
NodeTypeOK == SystemdTypeOK /\ OvsTypeOK /\ KargsTypeOK /\ GateTypeOK
=============================================================================
