------------------------------ MODULE SmartScan ------------------------------
(***************************************************************************)
(* src/src/health/gsm-smart-reader-core.c and gsm-smart-bridges.c: which   *)
(* block devices are USB disks, and through which bridge they may be asked.*)
(*                                                                         *)
(* An entry of /sys/block has a name, its SCSI type and the directories    *)
(* above its device, the nearest first and those of sysfs itself left out; *)
(* a directory has the three numbers of a USB device, or not.              *)
(***************************************************************************)
EXTENDS Integers, Sequences, FiniteSetsExt, SequencesExt

CONSTANTS
  NULL,                         \* model value: no number, no directory, no row
  ANY,                          \* model value: any revision
  MAX_DRIVES, USB_WALK_DEPTH, NAME_LEN

skipped_prefixes == {".", "loop", "ram", "zram", "dm-", "md", "nvme"}

name_is_skipped(entry) == entry.prefix \in skipped_prefixes \/ entry.length >= NAME_LEN

(* The nearest directory with a vendor is the device; a hub above it has   *)
(* one too.                                                                *)
find_usb_device_Any(path) ==
  LET usb == {i \in DOMAIN path : i <= USB_WALK_DEPTH /\ path[i].vendor # NULL
                                    /\ path[i].product # NULL /\ path[i].bcd # NULL}
  IN IF usb = {} THEN NULL ELSE path[Min(usb)]

find_usb_device(path) ==
  LET usb == {i \in DOMAIN path : i <= USB_WALK_DEPTH /\ path[i].vendor # NULL}
  IN IF usb = {} \/ path[Min(usb)].product = NULL \/ path[Min(usb)].bcd = NULL THEN NULL
     ELSE path[Min(usb)]

(* The row of this revision, else the last of any.                         *)
Rows(bridges, device, bcd) ==
  {i \in DOMAIN bridges : bridges[i].vendor = device.vendor /\ bridges[i].product = device.product
                            /\ bridges[i].bcd = bcd}

gsm_bridge_lookup(bridges, device) ==
  CASE Rows(bridges, device, device.bcd) # {} -> bridges[Min(Rows(bridges, device, device.bcd))]
    [] Rows(bridges, device, device.bcd) = {} /\ Rows(bridges, device, ANY) # {} ->
         bridges[Max(Rows(bridges, device, ANY))]
    [] OTHER -> NULL

disk_is_scsi_disk(entry) == entry.type = 0

(* gsm_smart_run. The names taken are the first MAX_DRIVES, of any device. *)
Listed(entries) ==
  LET kept == SelectSeq(entries, LAMBDA e : ~name_is_skipped(e))
  IN SubSeq(kept, 1, IF Len(kept) < MAX_DRIVES THEN Len(kept) ELSE MAX_DRIVES)

RecordOf(bridges, entry, device) ==
  [name |-> entry.name, vendor |-> device.vendor, product |-> device.product,
   bridge |-> gsm_bridge_lookup(bridges, device),
   asleep_by_pm |-> device.suspended \/ entry.suspended]

ByName(entries) == SortSeq(entries, LAMBDA a, b : a.name < b.name)

Disks(entries) ==
  SelectSeq(ByName(Listed(entries)),
            LAMBDA e : disk_is_scsi_disk(e) /\ find_usb_device(e.path) # NULL)

gsm_smart_run(bridges, entries) ==
  [i \in DOMAIN Disks(entries) |->
     RecordOf(bridges, Disks(entries)[i], find_usb_device(Disks(entries)[i].path))]

-----------------------------------------------------------------------------
(* However deep its hubs, in whatever order the kernel lists them: each    *)
(* USB disk has one record, with the numbers of its own device and never   *)
(* of a hub above it; and commands go only to a bridge that the table has  *)
(* for this vendor and product, and by the row of its revision if there is *)
(* one.  As long as the names listed are not too many.                     *)
Nearest(path) == {i \in DOMAIN path : path[i].vendor # NULL /\ \A j \in 1..i - 1 : path[j].vendor = NULL}
UsbDisks(entries) ==
  {e \in {entries[i] : i \in DOMAIN entries} :
     /\ ~name_is_skipped(e) /\ e.type = 0
     /\ \E i \in Nearest(e.path) : i <= USB_WALK_DEPTH /\ e.path[i].product # NULL /\ e.path[i].bcd # NULL}

EachDiskOnItsBridge(bridges, entries) ==
  LET found == gsm_smart_run(bridges, entries)
  IN Len(SelectSeq(entries, LAMBDA e : ~name_is_skipped(e))) <= MAX_DRIVES =>
       /\ {found[i].name : i \in DOMAIN found} = {e.name : e \in UsbDisks(entries)}
       /\ \A i, j \in DOMAIN found : i < j => found[i].name < found[j].name
       /\ \A i \in DOMAIN found, e \in UsbDisks(entries) :
            found[i].name = e.name =>
              /\ \E n \in Nearest(e.path) :
                   /\ found[i].vendor = e.path[n].vendor
                   /\ found[i].product = e.path[n].product
                   /\ e.path[n].suspended => found[i].asleep_by_pm
                   /\ (\E b \in DOMAIN bridges : bridges[b] = [vendor |-> e.path[n].vendor, product |-> e.path[n].product,
                                                               bcd |-> e.path[n].bcd]) =>
                         /\ found[i].bridge # NULL
                         /\ found[i].bridge.bcd = e.path[n].bcd
              /\ found[i].bridge # NULL =>
                   /\ found[i].bridge.vendor = found[i].vendor
                   /\ found[i].bridge.product = found[i].product
=============================================================================
