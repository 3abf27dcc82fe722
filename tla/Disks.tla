------------------------------- MODULE Disks -------------------------------
(***************************************************************************)
(* The list of file systems: disks.c.  The view keeps one GsmDisk for each *)
(* directory it lists, so that the selection survives a refresh, and       *)
(* refreshes on a timer that is to run only while it can be seen.          *)
(*                                                                         *)
(* A mount is a directory, a device and what statvfs says of the device: a *)
(* disk has blocks, a pseudo file system has none and is in libgtop's list *)
(* only under "show all", and a FUSE mount of somebody else is refused.  A *)
(* second mount on a directory hides the first.  Opening a directory in    *)
(* the file manager and the columns are left out.  `seen' and `age' are    *)
(* for the properties: what the last refresh read, and how long ago.       *)
(***************************************************************************)
EXTENDS Integers, SequencesExt

CONSTANTS Dirs,        \* the directories things are mounted on
          Kinds,       \* a subset of "disk", "pseudo" and "refused"
          Intervals,   \* the settings of the update interval
          Total,       \* the blocks of a disk, two or more; one is kept for the superuser
          MaxAge,      \* bound on the time without a refresh
          MaxChanges   \* bound on the acts of the user and of the system

VARIABLES mounts,            \* /proc/mounts, in its order
          filled,            \* the blocks in use, on every disk alike
          known_directories, \* what the row of a directory shows
          list_store,        \* how many rows each directory has
          show_all_fs, update_interval,
          timeout,           \* time to the next refresh of the timer, None without one
          mapped,            \* the page of the view is the one on screen
          suspended,         \* no part of the window can be seen
          seen, age, changes

vars == <<mounts, filled, known_directories, list_store, show_all_fs, update_interval, timeout,
          mapped, suspended, seen, age, changes>>

NoTimer == -1

-----------------------------------------------------------------------------
(* glibtop_get_mountlist and statvfs.                                      *)
InMountlist(mount, all) == all \/ mount.kind # "pseudo"

TopAt(directory) == CHOOSE i \in DOMAIN mounts :
  /\ mounts[i].dir = directory
  /\ \A j \in DOMAIN mounts : mounts[j].dir = directory => j <= i
Top(directory) == mounts[TopAt(directory)]

Usage(directory) ==
  IF Top(directory).kind # "disk" THEN [blocks |-> 0, bfree |-> 0, bavail |-> 0]
  ELSE LET bfree == Total - filled IN
       [blocks |-> Total, bfree |-> bfree, bavail |-> IF bfree = 0 THEN 0 ELSE bfree - 1]

(* The figures of a row.                                                   *)
fsusage_stats_OfTotal(usage) ==
  IF usage.blocks = 0 THEN [total |-> 0, used |-> 0, percentage |-> 0]
  ELSE LET used == usage.blocks - usage.bfree IN
       [total |-> usage.blocks, used |-> used, percentage |-> (100 * used) \div usage.blocks]

fsusage_stats(usage) ==
  IF usage.blocks = 0 THEN [total |-> 0, used |-> 0, percentage |-> 0]
  ELSE LET used == usage.blocks - usage.bfree IN
       [total |-> usage.blocks, used |-> used,
        percentage |-> (100 * used) \div (used + usage.bavail)]

(* One entry of the mount list: its directory is kept, and its row filled  *)
(* or made, unless it has no blocks and only those that do are listed.     *)
handle_entry_DropsKnown(all, update, entry) ==
  LET usage == Usage(entry.dir) IN
  IF ~all /\ usage.blocks = 0 THEN update
  ELSE [known |-> [d \in DOMAIN update.known \cup {entry.dir} |->
                     IF d = entry.dir
                     THEN [device |-> entry.device, figures |-> fsusage_stats(usage)]
                     ELSE update.known[d]],
        new |-> IF entry.dir \in DOMAIN update.known THEN update.new
                ELSE [update.new EXCEPT ![entry.dir] = @ + 1],
        leftover |-> update.leftover]

handle_entry_NotLookedUp(all, update, entry) ==
  LET handled == handle_entry_DropsKnown(all, [update EXCEPT !.leftover = @ \ {entry.dir}], entry)
  IN [handled EXCEPT !.new = [update.new EXCEPT ![entry.dir] = @ + 1]]

handle_entry(all, update, entry) ==
  handle_entry_DropsKnown(all, [update EXCEPT !.leftover = @ \ {entry.dir}], entry)

Before == [known |-> known_directories, new |-> [d \in Dirs |-> 0],
           leftover |-> DOMAIN known_directories]

Updated(all) ==
  LET update[n \in 0..Len(mounts)] ==
        IF n = 0 THEN Before
        ELSE IF InMountlist(mounts[n], all) THEN handle_entry(all, update[n - 1], mounts[n])
        ELSE update[n - 1]
  IN update[Len(mounts)]

(* The new rows come to the old ones, and the row of what is no longer     *)
(* mounted goes.                                                           *)
Spliced(update, all) ==
  /\ known_directories' = [d \in DOMAIN update.known \ update.leftover |-> update.known[d]]
  /\ list_store' = [d \in Dirs |-> list_store[d] + update.new[d]
                                    - (IF d \in update.leftover THEN 1 ELSE 0)]
  /\ seen' = [mounts |-> mounts, filled |-> filled, all |-> all]
  /\ age' = 0

disks_update(all) == Spliced(Updated(all), all)

Kept == UNCHANGED <<known_directories, list_store, seen, age>>

(* The timer, which a running one is kept for unless it is to be reset.    *)
setup_timeout_AtItsTime(interval, reset) ==
  IF timeout # NoTimer /\ ~reset THEN Kept /\ UNCHANGED timeout
  ELSE Kept /\ timeout' = interval

setup_timeout(interval, reset) ==
  IF timeout # NoTimer /\ ~reset THEN Kept /\ UNCHANGED timeout
  ELSE disks_update(show_all_fs) /\ timeout' = interval

Counted == changes < MaxChanges /\ changes' = changes + 1

-----------------------------------------------------------------------------
(* The system mounts, unmounts and writes.                                 *)
Mount(dir, kind) ==
  /\ Counted /\ Len(mounts) < 3
  /\ mounts' = Append(mounts, [dir |-> dir, kind |-> kind, device |-> changes'])
  /\ UNCHANGED <<filled, known_directories, list_store, show_all_fs, update_interval, timeout,
                 mapped, suspended, seen, age>>

Unmount(dir) ==
  /\ Counted /\ \E i \in DOMAIN mounts : mounts[i].dir = dir
  /\ mounts' = RemoveAt(mounts, TopAt(dir))
  /\ UNCHANGED <<filled, known_directories, list_store, show_all_fs, update_interval, timeout,
                 mapped, suspended, seen, age>>

Write ==
  /\ Counted /\ filled' \in 0..Total \ {filled}
  /\ UNCHANGED <<mounts, known_directories, list_store, show_all_fs, update_interval, timeout,
                 mapped, suspended, seen, age>>

(* The volume monitor says that something changed; it may stay silent.     *)
mount_changed ==
  /\ seen.mounts # mounts /\ disks_update(show_all_fs)
  /\ UNCHANGED <<mounts, filled, show_all_fs, update_interval, timeout, mapped, suspended,
                 changes>>

(* Time goes on until the timer is due, and then the timer comes first.    *)
Tick ==
  /\ timeout # 0 /\ age < MaxAge
  /\ age' = age + 1
  /\ timeout' = IF timeout = NoTimer THEN NoTimer ELSE timeout - 1
  /\ UNCHANGED <<mounts, filled, known_directories, list_store, show_all_fs, update_interval,
                 mapped, suspended, seen, changes>>

disks_timeout ==
  /\ timeout = 0 /\ disks_update(show_all_fs)
  /\ timeout' = update_interval
  /\ UNCHANGED <<mounts, filled, show_all_fs, update_interval, mapped, suspended, changes>>

set_update_interval(interval) ==
  /\ Counted /\ interval # update_interval
  /\ update_interval' = interval
  /\ setup_timeout(interval, TRUE)
  /\ UNCHANGED <<mounts, filled, show_all_fs, mapped, suspended>>

set_show_all_fs ==
  /\ Counted /\ show_all_fs' = ~show_all_fs
  /\ disks_update(show_all_fs')
  /\ UNCHANGED <<mounts, filled, update_interval, timeout, mapped, suspended>>

map ==
  /\ Counted /\ ~mapped /\ mapped' = TRUE
  /\ setup_timeout(update_interval, FALSE)
  /\ UNCHANGED <<mounts, filled, show_all_fs, update_interval, suspended>>

unmap ==
  /\ Counted /\ mapped /\ mapped' = FALSE
  /\ timeout' = NoTimer
  /\ UNCHANGED <<mounts, filled, known_directories, list_store, show_all_fs, update_interval,
                 suspended, seen, age>>

(* The window is hidden, or seen again.  It is mapped all the while; the   *)
(* view need not be.                                                       *)
suspended_notified ==
  /\ Counted /\ suspended' = ~suspended
  /\ \/ suspended' /\ timeout' = NoTimer /\ Kept
     \/ ~suspended' /\ setup_timeout(update_interval, FALSE)
  /\ UNCHANGED <<mounts, filled, show_all_fs, update_interval, mapped>>

(* Binding the settings starts the timer of a view that is not yet mapped. *)
Init ==
  /\ \E dir \in Dirs : mounts = <<[dir |-> dir, kind |-> "disk", device |-> 0]>>
  /\ filled = 0 /\ show_all_fs = FALSE /\ update_interval \in Intervals
  /\ known_directories = [d \in {mounts[1].dir} |->
       [device |-> 0, figures |-> fsusage_stats(Usage(d))]]
  /\ list_store = [d \in Dirs |-> IF d = mounts[1].dir THEN 1 ELSE 0]
  /\ timeout = update_interval /\ mapped = FALSE /\ suspended = FALSE
  /\ seen = [mounts |-> mounts, filled |-> 0, all |-> FALSE]
  /\ age = 0 /\ changes = 0

Next ==
  \/ \E dir \in Dirs : Unmount(dir) \/ \E kind \in Kinds : Mount(dir, kind)
  \/ Write \/ mount_changed \/ Tick \/ disks_timeout
  \/ \E interval \in Intervals : set_update_interval(interval)
  \/ set_show_all_fs \/ map \/ unmap \/ suspended_notified

Spec == Init /\ [][Next]_vars

-----------------------------------------------------------------------------
(* What the last refresh read: the mount on top of each directory.         *)
SeenTop(d) == seen.mounts[CHOOSE i \in DOMAIN seen.mounts :
  /\ seen.mounts[i].dir = d
  /\ \A j \in DOMAIN seen.mounts : seen.mounts[j].dir = d => j <= i]
SeenDirs == {seen.mounts[i].dir : i \in DOMAIN seen.mounts}

(* A directory has one row at most, and rows and table go together, through*)
(* mounts on mounts, mounts that come and go, and changes of what is       *)
(* listed: drop_leftover_directories removes from both.                    *)
OneRowEach ==
  /\ DOMAIN known_directories \subseteq Dirs
  /\ \A d \in Dirs : list_store[d] = (IF d \in DOMAIN known_directories THEN 1 ELSE 0)

(* The rows are those of the mounts the last refresh read: everything with *)
(* blocks, or all of it under "show all", is there with the figures and    *)
(* the device of the mount on top, and nothing is that is not mounted.     *)
(* (A row without blocks may stay when "show all" is turned off: it was    *)
(* taken out of the leftovers before handle_entry leaves it alone.)        *)
RowsAreMounts ==
  /\ DOMAIN known_directories \subseteq SeenDirs
  /\ \A d \in SeenDirs : (SeenTop(d).kind = "disk" \/ seen.all) =>
       /\ d \in DOMAIN known_directories
       /\ known_directories[d].device = SeenTop(d).device
       /\ known_directories[d].figures.used =
            (IF SeenTop(d).kind = "disk" THEN seen.filled ELSE 0)

(* A disk is called full exactly when its user can write no more, though   *)
(* blocks are kept for the superuser: fsusage_stats divides by what is     *)
(* used and available.                                                     *)
FullMeansNoneAvailable ==
  \A d \in DOMAIN known_directories :
    LET figures == known_directories[d].figures IN
    figures.total > 0 =>
      (figures.percentage = 100) = (figures.total - figures.used <= 1)

(* What the user sees is no older than the interval set, whatever order    *)
(* the page, the window and the setting change in.                         *)
SeenIsRecent == (mapped /\ ~suspended) => age <= update_interval

(* The world as it can be, and what keeps the list recent: a view that can *)
(* be seen has its timer, and a timer is due within the interval of the    *)
(* last refresh.                                                           *)
Mounted ==
  /\ mounts \in Seq([dir : Dirs, kind : Kinds \cup {"disk"}, device : Nat])
  /\ filled \in 0..Total /\ age \in Nat /\ changes \in Nat
TimerFollows ==
  /\ mapped /\ ~suspended => timeout # NoTimer
  /\ timeout # NoTimer => timeout \in Nat /\ age + timeout <= update_interval

Sound == OneRowEach /\ RowsAreMounts /\ FullMeansNoneAvailable /\ SeenIsRecent
=============================================================================
