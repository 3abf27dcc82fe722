------------------------------ MODULE Readings ------------------------------
(***************************************************************************)
(* Pure functions on what the kernel's files say: the partition of memory  *)
(* (src/src/meminfo.c), the lists of CPUs and the names of the threads of  *)
(* a hybrid CPU (src/src/cputopology.c, procstat.c).                       *)
(***************************************************************************)
EXTENDS Integers, Sequences, FiniteSets, FiniteSetsExt

CONSTANTS
  MISSING,          \* GSM_MEMINFO_MISSING: the field is not in the file
  Malformed         \* model value: what a list that is none comes to

(* --- /proc/meminfo --------------------------------------------------------*)

Required == {"total", "free", "buffers", "cached", "shmem", "anon", "s_reclaimable",
             "s_unreclaim", "kernel_stack", "page_tables"}
present(value) == value # MISSING

or_zero_AsRead(value) == value
or_zero(value) == IF present(value) THEN value ELSE 0

Complete_UncheckedShmem(info) == \A f \in Required : present(info[f])
Complete(info) == (\A f \in Required : present(info[f])) /\ info.cached >= info.shmem

(* gsm_meminfo_partition.                                                  *)
Rows(info) ==
  [application_private |-> info.anon,
   ram_backed_files    |-> info.shmem,
   file_cache          |-> info.cached - info.shmem + info.buffers,
   kernel_reclaimable  |-> Max({info.s_reclaimable, or_zero(info.k_reclaimable)}),
   kernel_fixed        |-> info.s_unreclaim + info.kernel_stack + info.page_tables
                             + or_zero(info.sec_page_tables) + or_zero(info.percpu)
                             + or_zero(info.vmalloc_used),
   free                |-> info.free]

gsm_meminfo_partition(info) ==
  IF ~Complete(info) THEN [valid |-> FALSE]
  ELSE LET rows == Rows(info)
           accounted == rows.application_private + rows.ram_backed_files
             + rows.file_cache + rows.kernel_reclaimable + rows.kernel_fixed + rows.free
       IN [valid |-> TRUE, rows |-> rows,
           overlap |-> IF accounted > info.total THEN accounted - info.total ELSE 0,
           unaccounted |-> IF accounted > info.total THEN 0 ELSE info.total - accounted]

(* --- lists of CPUs: a text is a sequence of numbers and signs ------------*)

Dash == -1
Comma == -2
IsNumber(text, i) == i <= Len(text) /\ text[i] >= 0
Is(text, i, sign) == i <= Len(text) /\ text[i] = sign

(* gsm_cpu_list_parse, from the number at i on.                            *)
gsm_cpu_list_parse(text, n) ==
  LET from[i \in 1..(Len(text) + 1)] ==
        IF ~IsNumber(text, i) THEN Malformed
        ELSE LET range == Is(text, i + 1, Dash)
                 last == IF range THEN i + 2 ELSE i
                 after == last + 1
             IN IF ~IsNumber(text, last) \/ text[last] < text[i] THEN Malformed
                ELSE LET members == (text[i]..text[last]) \cap 0..(n - 1)
                     IN IF after > Len(text) THEN members
                        ELSE IF ~Is(text, after, Comma) \/ from[after + 1] = Malformed THEN Malformed
                        ELSE members \cup from[after + 1]
  IN from[1]

(* gsm_cpu_slots_from_list: the highest number and one; 0 for no list.     *)
gsm_cpu_slots_from_list(text) ==
  LET from[i \in 1..(Len(text) + 2)] ==
        IF i > Len(text) THEN 0
        ELSE IF ~IsNumber(text, i) THEN Malformed
        ELSE LET last == IF Is(text, i + 1, Dash) THEN i + 2 ELSE i
             IN IF ~IsNumber(text, last) THEN Malformed
                ELSE IF last < Len(text) /\ ~Is(text, last + 1, Comma) THEN Malformed
                ELSE IF from[last + (IF last < Len(text) THEN 2 ELSE 1)] = Malformed THEN Malformed
                ELSE Max({text[i] + 1, text[last] + 1, from[last + (IF last < Len(text) THEN 2 ELSE 1)]})
  IN IF from[1] = Malformed THEN 0 ELSE from[1]

(* --- the topology ---------------------------------------------------------*)

(* gsm_cpu_topology_read: what is known of one CPU from cpu_core/cpus,     *)
(* cpu_atom/cpus and its thread_siblings_list (Malformed: not read).       *)
Kind(sys, cpu) ==
  IF sys.core = Malformed \/ sys.atom = Malformed \/ (cpu \in sys.core <=> cpu \in sys.atom)
  THEN "unknown"
  ELSE LET members == IF cpu \in sys.core THEN sys.core ELSE sys.atom
           siblings == sys.siblings[cpu]
       IN IF siblings = Malformed \/ cpu \notin siblings \/ ~siblings \subseteq members
          THEN "unknown"
          ELSE IF cpu \in sys.core THEN "P" ELSE "E"

FirstCpu(sys, cpu) == Min(sys.siblings[cpu])
ThreadIndex(sys, cpu) == Cardinality({s \in sys.siblings[cpu] : s < cpu})

CoreNumber(sys, cpu) ==
  1 + Cardinality({c \in 0..(FirstCpu(sys, cpu) - 1) :
                     Kind(sys, c) = Kind(sys, cpu) /\ FirstCpu(sys, c) = c})

(* gsm_cpu_topology_label, as what it puts together.                       *)
gsm_cpu_topology_label(sys, cpu) ==
  IF Kind(sys, cpu) = "unknown" THEN <<"CPU", cpu>>
  ELSE IF Cardinality(sys.siblings[cpu]) < 2 THEN <<Kind(sys, cpu), CoreNumber(sys, cpu)>>
  ELSE <<Kind(sys, cpu), CoreNumber(sys, cpu), ThreadIndex(sys, cpu)>>

-----------------------------------------------------------------------------
(* meminfo.h: the rows, what they leave and what they count twice come to  *)
(* the total, none is negative, and no field that is missing is a figure.  *)
PartitionAddsUp(info) ==
  LET p == gsm_meminfo_partition(info)
  IN p.valid =>
       /\ \A row \in DOMAIN p.rows : p.rows[row] \in 0..(MISSING - 1)
       /\ p.rows.application_private + p.rows.ram_backed_files + p.rows.file_cache
            + p.rows.kernel_reclaimable + p.rows.kernel_fixed + p.rows.free + p.unaccounted
            = info.total + p.overlap
       /\ p.overlap = 0 \/ p.unaccounted = 0

(* The readers of the two lists agree: the slots of the graph are one more *)
(* than the highest CPU listed.                                            *)
SlotsHoldTheList(text) ==
  LET members == gsm_cpu_list_parse(text, 9)
  IN members # Malformed => gsm_cpu_slots_from_list(text) = Max(members) + 1

(* No two CPUs have the same name, whichever are offline (then in no list  *)
(* of siblings) or of no kind; the kernel lists none as of both.           *)
LabelsDiffer(sys) ==
  \A a, b \in DOMAIN sys.siblings : a # b =>
    gsm_cpu_topology_label(sys, a) # gsm_cpu_topology_label(sys, b)
=============================================================================
