------------------------------ MODULE CpuStats ------------------------------
(***************************************************************************)
(* What the two accounts of bpf/cpu.bpf.c have in common: the tasks and    *)
(* the processors, the clock, and the keys of the map stats, in which one  *)
(* value holds the CPU time (CpuAccounting) and the run-queue waits        *)
(* (RunqAccounting) of a task.                                             *)
(***************************************************************************)
EXTENDS Integers, FiniteSets

CONSTANTS
  Task,      \* the (tgid, tid) keys of stats
  Tid,       \* thread ids: the keys of oncpu_start and enqueue_ts
  TidOf,     \* [Task -> Tid]; two tasks share a tid by reuse over time
  CPU,       \* processors
  Idle,      \* the swapper task (tid 0): never accounted
  Self,      \* the tasks of the collector's own process
  StatsCap,  \* max_entries of stats (16384 in the program)
  MaxTime    \* bound: last value of the clock

VARIABLES
  now,             \* the monotonic clock both sides read; 0 is never a timestamp
  alive,           \* tasks that exist, and that /proc shows
  cpu,             \* cpu[c]: the task running on c
  entries,         \* keys present in stats
  map_update_fail  \* health.map_update_fail is not 0

\* get_stat: an entry is created on demand while the map has room.
StatAvailable(keys, t) == t \in keys \/ Cardinality(keys) < StatsCap

WithStat(keys, t) == IF StatAvailable(keys, t) THEN keys \cup {t} ELSE keys
=============================================================================
