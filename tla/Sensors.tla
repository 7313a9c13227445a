------------------------------- MODULE Sensors -------------------------------
(***************************************************************************)
(* Telemetry calls of hpd: temperatures, fan speeds and the load of the    *)
(* CPU, read on demand by D-Bus calls that run at the same time.           *)
(*                                                                         *)
(* A sensor is found by the name of its hwmon node, whose index changes    *)
(* when a driver is loaded again; each backend caches where it found each  *)
(* name.  The CPU load is the share of busy jiffies between two samples of *)
(* /proc/stat, the earlier of which is shared by all callers.              *)
(***************************************************************************)
EXTENDS Naturals, Sequences, FiniteSets

CONSTANTS
  Caller,      \* D-Bus callers
  Sensors,     \* <<backend, hwmon name>> pairs, one cache entry each
  Reads,       \* the lists of readings that methods make, in order
  Driver,      \* hwmon names, those no sensor asks for included
  None,        \* Option::None
  ScanLimit,   \* MAX_HWMON_INDEX, 24 in the code
  LastIndex,   \* bound on hwmon indices
  MinGap,      \* MIN_CPU_STAT_SAMPLE_INTERVAL, in ticks
  MaxTicks, MaxCalls, MaxReloads  \* bounds on time, calls and driver reloads

Index == 0..LastIndex
Scanned == {i \in Index : i < ScanLimit}

NameOf(s) == s[2]

CpuBusy == <<"telemetry", None>>

Field == Sensors \cup {CpuBusy}

\* A sample: the jiffies, when they were read, and the clock after that.
Seen == [idle : Nat, work : Nat, at : Nat, time : Nat]

ASSUME SensorsAssumption ==
  /\ \A s \in Sensors : NameOf(s) \in Driver
  /\ Reads \subseteq Seq(Field) \ {<<>>}
  /\ None \notin Driver \cup Nat \cup Seen
  /\ Cardinality(Driver) <= LastIndex + 1
  /\ {ScanLimit, LastIndex, MinGap, MaxTicks, MaxCalls, MaxReloads} \subseteq Nat

VARIABLES
  nodes,     \* the driver registered at each hwmon index
  cache,     \* where each backend last found each of its names
  now,       \* the monotonic clock
  stat,      \* the jiffies of /proc/stat
  baseline,  \* prev_cpu_stat
  call,      \* each caller's call
  spent,     \* calls and reloads so far
  silent     \* history: since when every load has been answered None for
             \* being asked too soon

vars == <<nodes, cache, now, stat, baseline, call, spent, silent>>

\* A call between two readings.
Between(pc, todo, got) ==
  [pc |-> pc, todo |-> todo, index |-> 0, seen |-> None, steady |-> TRUE, got |-> got]

Idle == Between("idle", <<>>, None)

Spend(what, max) == spent[what] < max /\ spent' = [spent EXCEPT ![what] = @ + 1]

Current(c) == Head(call[c].todo)

At(c, pc) == call[c].pc = pc

Goto(c, pc) == call' = [call EXCEPT ![c] = [@ EXCEPT !.pc = pc]]

\* A reading is in; the next one starts from its own lookup.
Answer(c, value) ==
  LET rest == Tail(call[c].todo) IN
  call' = [call EXCEPT ![c] = Between(IF rest = <<>> THEN "idle" ELSE "next", rest, value)]

-----------------------------------------------------------------------------
(* The machine.                                                            *)

\* One unit of time, spent working or idle.  The kernel may take back a
\* jiffy it had counted as waiting for input.
Tick ==
  /\ now < MaxTicks
  /\ now' = now + 1
  /\ \/ stat' = [idle |-> stat.idle, work |-> stat.work + 1]
     \/ stat' = [idle |-> stat.idle + 1, work |-> stat.work]
     \/ stat.idle > 0 /\ stat' = [idle |-> stat.idle - 1, work |-> stat.work + 1]
  /\ UNCHANGED <<nodes, cache, baseline, call, spent, silent>>

Disturbed ==
  [c \in Caller |-> [call[c] EXCEPT !.steady = call[c].pc \notin {"scan", "insert", "read"}]]

\* A driver goes away, for instance to be loaded again.
Unregister(i) ==
  /\ nodes[i] # None
  /\ Spend("reloads", MaxReloads)
  /\ nodes' = [nodes EXCEPT ![i] = None]
  /\ call' = Disturbed
  /\ UNCHANGED <<cache, now, stat, baseline, silent>>

\* A driver comes (back) at the lowest free index.
Register(d) ==
  /\ \A i \in Index : nodes[i] # d
  /\ \E i \in Index :
       /\ nodes[i] = None
       /\ \A j \in 0..(i - 1) : nodes[j] # None
       /\ nodes' = [nodes EXCEPT ![i] = d]
  /\ call' = Disturbed
  /\ UNCHANGED <<cache, now, stat, baseline, spent, silent>>

-----------------------------------------------------------------------------
(* A reading under a hwmon node: the cached path is confirmed by its name, *)
(* else the indices are scanned and the hit is cached, then it is read.    *)

Invoke(c) ==
  /\ At(c, "idle")
  /\ Spend("calls", MaxCalls)
  /\ \E r \in Reads : call' = [call EXCEPT ![c] = Between("next", r, None)]
  /\ UNCHANGED <<nodes, cache, now, stat, baseline, silent>>

Confirmed(s) == cache[s] # None /\ nodes[cache[s]] = NameOf(s)

Lookup(c, found) ==
  LET s == Current(c) IN
  /\ At(c, "next")
  /\ s \in Sensors
  /\ \/ /\ found
        /\ call' = [call EXCEPT ![c] =
                      [@ EXCEPT !.pc = "read", !.index = cache[s], !.steady = TRUE]]
        /\ UNCHANGED cache
     \/ /\ ~found
        /\ call' = [call EXCEPT ![c] = [@ EXCEPT !.pc = "scan", !.index = 0, !.steady = TRUE]]
        /\ cache' = [cache EXCEPT ![s] = None]
  /\ UNCHANGED <<nodes, now, stat, baseline, spent, silent>>

\* Mutated Resolve: trusts a path that still exists.
ResolveUnconfirmed(c) ==
  Lookup(c, cache[Current(c)] # None /\ nodes[cache[Current(c)]] # None)

\* Under the cache's mutex; an entry that no longer has the name is dropped.
Resolve(c) == Lookup(c, Confirmed(Current(c)))

\* One index of the scan, without the mutex.
Scan(c) ==
  LET i == call[c].index IN
  /\ At(c, "scan")
  /\ \/ i \in Scanned /\ nodes[i] = NameOf(Current(c)) /\ Goto(c, "insert")
     \/ /\ i \in Scanned /\ nodes[i] # NameOf(Current(c))
        /\ call' = [call EXCEPT ![c] = [@ EXCEPT !.index = i + 1]]
     \/ i \notin Scanned /\ Answer(c, None)
  /\ UNCHANGED <<nodes, cache, now, stat, baseline, spent, silent>>

Insert(c) ==
  /\ At(c, "insert")
  /\ cache' = [cache EXCEPT ![Current(c)] = call[c].index]
  /\ Goto(c, "read")
  /\ UNCHANGED <<nodes, now, stat, baseline, spent, silent>>

\* Whatever is behind the path by now; a missing file or a failed read is no
\* reading.
ReadAttr(c) ==
  /\ At(c, "read")
  /\ Answer(c, nodes[call[c].index])
  /\ UNCHANGED <<nodes, cache, now, stat, baseline, spent, silent>>

-----------------------------------------------------------------------------
(* The CPU load.                                                           *)

\* /proc/stat is read, then the clock, before the mutex of the baseline is
\* taken.
ReadStat(c) ==
  /\ At(c, "next")
  /\ Current(c) = CpuBusy
  /\ call' = [call EXCEPT ![c] = [@ EXCEPT !.pc = "clock",
       !.seen = [idle |-> stat.idle, work |-> stat.work, at |-> now, time |-> now]]]
  /\ UNCHANGED <<nodes, cache, now, stat, baseline, spent, silent>>

ReadClock(c) ==
  /\ At(c, "clock")
  /\ call' = [call EXCEPT ![c] =
                  [@ EXCEPT !.pc = "sample", !.seen = [call[c].seen EXCEPT !.time = now]]]
  /\ UNCHANGED <<nodes, cache, now, stat, baseline, spent, silent>>

Total(s) == s.idle + s.work
Minus(a, b) == IF a > b THEN a - b ELSE 0
Lesser(a, b) == IF a < b THEN a ELSE b

Percent(old, new) ==
  Lesser(100, (Minus(new.work, old.work) * 100) \div Minus(Total(new), Total(old)))

TooSoon(s) == baseline # None /\ Minus(s.time, baseline.time) < MinGap

Rebase(s) == baseline' = s /\ silent' = s.time

\* Mutated Sample: does not clamp the share.
SampleUnclamped(c) ==
  LET s == call[c].seen IN
  /\ At(c, "sample")
  /\ \/ baseline = None /\ Rebase(s) /\ Answer(c, None)
     \/ TooSoon(s) /\ Answer(c, None) /\ UNCHANGED <<baseline, silent>>
     \/ /\ baseline # None /\ ~TooSoon(s)
        /\ Rebase(s)
        /\ LET total == Minus(Total(s), Total(baseline)) IN
           Answer(c, IF total = 0 THEN None
                     ELSE (Minus(s.work, baseline.work) * 100) \div total)
  /\ UNCHANGED <<nodes, cache, now, stat, spent>>

\* Mutated Sample: the distance of the two samples, whichever is older.
SampleUnordered(c) ==
  LET s == call[c].seen IN
  /\ At(c, "sample")
  /\ \/ baseline = None /\ Rebase(s) /\ Answer(c, None)
     \/ TooSoon(s) /\ Answer(c, None) /\ UNCHANGED <<baseline, silent>>
     \/ /\ baseline # None /\ ~TooSoon(s)
        /\ Rebase(s)
        /\ Answer(c, IF Total(s) = Total(baseline) THEN None
                     ELSE IF Total(s) > Total(baseline) THEN Percent(baseline, s)
                     ELSE Percent(s, baseline))
  /\ UNCHANGED <<nodes, cache, now, stat, spent>>

\* Mutated Sample: a call that comes too soon replaces the baseline.
SampleRestless(c) ==
  LET s == call[c].seen IN
  /\ At(c, "sample")
  /\ \/ baseline = None /\ Rebase(s) /\ Answer(c, None)
     \/ /\ TooSoon(s) /\ Answer(c, None) /\ UNCHANGED silent
        /\ baseline' = s
     \/ /\ baseline # None /\ ~TooSoon(s)
        /\ Rebase(s)
        /\ Answer(c, IF Total(s) <= Total(baseline) THEN None
                     ELSE Percent(baseline, s))
  /\ UNCHANGED <<nodes, cache, now, stat, spent>>

\* Under the mutex: no baseline yet, a baseline too young to compare with (two
\* times differ by a saturating difference), or the share of the jiffies in
\* between, if there are any.
Sample(c) ==
  LET s == call[c].seen IN
  /\ At(c, "sample")
  /\ \/ baseline = None /\ Rebase(s) /\ Answer(c, None)
     \/ TooSoon(s) /\ Answer(c, None) /\ UNCHANGED <<baseline, silent>>
     \/ /\ baseline # None /\ ~TooSoon(s)
        /\ Rebase(s)
        /\ Answer(c, IF Total(s) <= Total(baseline) THEN None
                     ELSE Percent(baseline, s))
  /\ UNCHANGED <<nodes, cache, now, stat, spent>>

-----------------------------------------------------------------------------
\* Drivers register in any order.
Init ==
  /\ nodes \in {n \in [Index -> Driver \cup {None}] :
                  /\ \A d \in Driver : Cardinality({i \in Index : n[i] = d}) = 1
                  /\ \A i \in Index : n[i] # None <=> i < Cardinality(Driver)}
  /\ cache = [s \in Sensors |-> None]
  /\ now = 0
  /\ stat = [idle |-> 0, work |-> 0]
  /\ baseline = None
  /\ call = [c \in Caller |-> Idle]
  /\ spent = [calls |-> 0, reloads |-> 0]
  /\ silent = 0

Next ==
  \/ Tick
  \/ \E i \in Index : Unregister(i)
  \/ \E d \in Driver : Register(d)
  \/ \E c \in Caller :
       \/ Invoke(c) \/ Resolve(c) \/ Scan(c) \/ Insert(c) \/ ReadAttr(c)
       \/ ReadStat(c) \/ ReadClock(c) \/ Sample(c)

Spec == Init /\ [][Next]_vars

-----------------------------------------------------------------------------
(* What telemetry promises.                                                *)

Load == 0..100

CallState ==
  [pc : {"idle", "next", "scan", "insert", "read", "clock", "sample"},
   todo : Seq(Field), index : 0..(LastIndex + 1), seen : Seen \cup {None},
   steady : BOOLEAN, got : Driver \cup Load \cup {None}]

\* The type invariant of the telemetry calls: a load is a percentage, however
\* the kernel corrects its counters.
TypeOK ==
  /\ nodes \in [Index -> Driver \cup {None}]
  /\ cache \in [Sensors -> Scanned \cup {None}]
  /\ now \in Nat
  /\ stat \in [idle : Nat, work : Nat]
  /\ baseline \in Seen \cup {None}
  /\ call \in [Caller -> CallState]
  /\ spent \in [calls : Nat, reloads : Nat]
  /\ silent \in Nat

\* The caller whose reading comes in with this step.
Answers(c) == Len(call'[c].todo) < Len(call[c].todo)

Registered(name) == \E i \in Scanned : nodes[i] = name

\* A reading comes from the device it is named after, and is absent only when
\* that device is, unless a driver comes or goes while it is looked up: no
\* entry that an earlier reload made stale, and none that a slower call put
\* into the cache after it, is ever read through.
AnswersTheNamed ==
  [][ \A c \in Caller :
        Answers(c) /\ Current(c) \in Sensors /\ call[c].steady =>
          LET name == NameOf(Current(c)) IN
          call'[c].got = IF Registered(name) THEN name ELSE None ]_vars

\* A load is that of an interval that ends with the caller's own sample: a
\* call that was overtaken between its sample and the mutex, and finds a
\* baseline younger than its sample, answers nothing.
PercentOfAnInterval ==
  [][ \A c \in Caller :
        Answers(c) /\ Current(c) = CpuBusy /\ call'[c].got # None =>
          baseline # None /\ baseline.at < call[c].seen.at ]_vars

\* However often callers ask, and whoever asked last, a load is answered to
\* the first that asks MinGap or more after the last one, unless its sample
\* shows no new jiffy.
PollersAreAnswered ==
  [][ \A c \in Caller :
        /\ Answers(c) /\ Current(c) = CpuBusy /\ call'[c].got = None
        /\ baseline # None /\ call[c].seen.time >= silent + MinGap
        => Total(call[c].seen) <= Total(baseline) ]_vars
=============================================================================
