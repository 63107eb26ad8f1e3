--------------------------- MODULE MCDeviceStatus ---------------------------
(* Instances of DeviceStatus for TLC. *)
EXTENDS DeviceStatus

\* The faults that the registers and the relays judge differently.
RadioOnly == {"radio"}
\* At boot every device is well; what may happen to it is up to the disturbances.
AllWell == {[connected |-> TRUE, faults |-> {}]}

\* What no load has set looks like a device with a fault.
WorstStack == {[connected |-> TRUE, faults |-> {"radio"}, from |-> NULL]}

CONSTANTS a1, a2
\* The configurations at boot: one master, or two with different addresses.
Masters(n, kinds) ==
  [count |-> [l \in Channel \X Kind |-> IF l[2] = "master" THEN n ELSE 0],
   addr |-> [s \in Slot |-> IF s[3] = 0 THEN a1 ELSE a2],
   coming |-> kinds]

Others == {"link", "device", "memory", "test"}
Scenarios ==
  {\* Three disturbances of the device of a short list, of its task, of the link or of
   \* the relays, in any order.
   Masters(1, <<Others, Others, Others>>), Masters(1, <<{"readdress"}, Others>>),
   \* The list becomes empty and full again under devices that break and fall silent.
   Masters(1, <<{"device"}, {"device"}, {"remove"}, {"add"}>>),
   \* The link comes up anew or is lost, a restart overtakes tasks in front of their
   \* gates, and a removal moves a device to the slot of another.
   Masters(2, <<{"link"}, {"remove"}>>),
   \* A device breaks and then falls silent, moves, is replaced or gets no task.
   Masters(2, <<{"device"}, {"device", "remove", "readdress", "memory"}>>)}
=============================================================================
