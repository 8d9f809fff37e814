---- MODULE Pci ----
(***************************************************************************)
(* PCI enumeration (src/network/pci.c): a scan of bus, slot and function   *)
(* that fills a bounded table, and the search of that table.  A machine is *)
(* the set of functions that answer in configuration space; what a         *)
(* function is, and the multi-function bit of its header type, is all that *)
(* the scan tells apart.                                                   *)
(***************************************************************************)
EXTENDS Integers, Sequences

CONSTANTS
    Buses, SlotsPerBus, Funcs,   \* 256, 32 and 8
    MaxDevices,                  \* the size of pci_devices
    Machines                     \* the machines to boot on

Location == (0 .. Buses - 1) \X (0 .. SlotsPerBus - 1) \X (0 .. Funcs - 1)
Function == [kind : {"e1000", "other"}, multi : BOOLEAN]
Scanned == <<Buses, 0, 0>>

ASSUME PciAssumption ==
    /\ {SlotsPerBus, Funcs, MaxDevices} \subseteq Nat \ {0} /\ Buses \in Nat /\ Buses > 1
    /\ \A m \in Machines : DOMAIN m \subseteq Location /\ \A l \in DOMAIN m : m[l] \in Function

VARIABLES
    machine,
    scan,          \* the function looked at next
    pci_devices    \* the table, as long as pci_device_count

pcivars == <<machine, scan, pci_devices>>

PciInit == machine \in Machines /\ scan = <<0, 0, 0>> /\ pci_devices = <<>>

\* The loops over slots and buses; the last bus is left out (bus < 255).
NextSlot(l) ==
    IF l[2] + 1 < SlotsPerBus THEN <<l[1], l[2] + 1, 0>>
    ELSE IF l[1] + 1 < Buses - 1 THEN <<l[1] + 1, 0, 0>> ELSE Scanned

NextFunc(l) == IF l[3] + 1 < Funcs THEN <<l[1], l[2], l[3] + 1>> ELSE NextSlot(l)

\* Mutant: a missing function ends the slot, not only function 0.
SkipsGap(l) == \/ l \notin DOMAIN machine
               \/ l[3] = 0 /\ ~machine[l].multi
\* A slot ends at a missing function 0 and after a single-function device.
Skips(l) == l[3] = 0 /\ (l \notin DOMAIN machine \/ ~machine[l].multi)

\* One iteration of the innermost loop of pci_enumerate_devices.
pci_enumerate_step ==
    /\ scan # Scanned
    /\ scan' = IF Skips(scan) THEN NextSlot(scan) ELSE NextFunc(scan)
    /\ pci_devices' = IF scan \in DOMAIN machine /\ Len(pci_devices) < MaxDevices
                      THEN Append(pci_devices, scan) ELSE pci_devices
    /\ UNCHANGED machine

\* The indices of the devices of a kind; pci_find_device returns the first.
pci_find_device(kind) == {i \in 1 .. Len(pci_devices) : machine[pci_devices[i]].kind = kind}

----
\* The functions that a scan can see: on any bus but the last, function 0 of a
\* slot, and the others when function 0 is there and says so.
Reachable == {l \in DOMAIN machine :
                 /\ l[1] < Buses - 1
                 /\ l[3] # 0 => /\ <<l[1], l[2], 0>> \in DOMAIN machine
                                /\ machine[<<l[1], l[2], 0>>].multi}

Before(k, l) == \/ k[1] < l[1]
                \/ k[1] = l[1] /\ k[2] < l[2]
                \/ k[1] = l[1] /\ k[2] = l[2] /\ k[3] < l[3]

\* The scan ends with the table holding the first MaxDevices reachable
\* functions in order, each once: gaps between functions, single-function
\* devices that answer for all functions, and a table that is full hide nothing
\* else.
ScanExact ==
    scan = Scanned =>
        /\ \A i \in 1 .. Len(pci_devices) : pci_devices[i] \in Reachable
        /\ \A i, j \in 1 .. Len(pci_devices) : i < j => Before(pci_devices[i], pci_devices[j])
        /\ \A l \in Reachable : \/ \E i \in 1 .. Len(pci_devices) : pci_devices[i] = l
                                \/ /\ Len(pci_devices) = MaxDevices
                                   /\ Before(pci_devices[MaxDevices], l)
====
