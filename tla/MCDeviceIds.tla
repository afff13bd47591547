---------------------------- MODULE MCDeviceIds ----------------------------
(* Instances of DeviceIds for TLC: pods and devices are interchangeable. *)
EXTENDS DeviceIds, TLC

Symmetric == Permutations(Pods) \cup Permutations(Devices)
=============================================================================
