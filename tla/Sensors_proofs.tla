--------------------------- MODULE Sensors_proofs ---------------------------
(***************************************************************************)
(* Proofs about the telemetry calls, for any number of callers, sensors    *)
(* and drivers, any range of hwmon indices and any gap between loads.      *)
(***************************************************************************)
EXTENDS Sensors, SequenceTheorems, TLAPS

-----------------------------------------------------------------------------
(* Types.  What a call has to do depends on where it stands.               *)

Hwmon == {"scan", "insert", "read"}

Placed(r) ==
  /\ r.pc = "idle" <=> r.todo = <<>>
  /\ r.pc \in Hwmon => Head(r.todo) \in Sensors
  /\ r.pc \in {"insert", "read"} => r.index \in Scanned
  /\ r.pc \in {"clock", "sample"} => Head(r.todo) = CpuBusy /\ r.seen \in Seen

Ordered == TypeOK /\ \A c \in Caller : Placed(call[c])

LEMMA BoundTypes ==
  /\ LastIndex \in Nat /\ ScanLimit \in Nat /\ MinGap \in Nat
  /\ Scanned \subseteq Index /\ Scanned \subseteq 0..(LastIndex + 1)
  /\ \A i \in Scanned : i \in Nat /\ i + 1 \in 0..(LastIndex + 1)
  BY SensorsAssumption DEF Scanned, Index

LEMMA CallFields ==
  ASSUME NEW r \in CallState
  PROVE  /\ r = [pc |-> r.pc, todo |-> r.todo, index |-> r.index, seen |-> r.seen,
                 steady |-> r.steady, got |-> r.got]
         /\ r.todo \in Seq(Field) /\ r.index \in 0..(LastIndex + 1)
         /\ r.seen \in Seen \cup {None} /\ r.steady \in BOOLEAN
  BY DEF CallState

\* The call of one caller moves on.
LEMMA OneCall ==
  ASSUME Ordered, NEW c \in Caller, NEW r \in CallState, Placed(r),
         call' = [call EXCEPT ![c] = r]
  PROVE  call' \in [Caller -> CallState] /\ \A d \in Caller : Placed(call'[d])
<1>1. call'[c] = r /\ \A d \in Caller : d # c => call'[d] = call[d]
  BY DEF Ordered, TypeOK
<1>2. QED
  BY <1>1 DEF Ordered, TypeOK

LEMMA RestTypes ==
  ASSUME NEW todo \in Seq(Field), todo # <<>>
  PROVE  /\ Head(todo) \in Field /\ Tail(todo) \in Seq(Field)
         /\ Len(Tail(todo)) = Len(todo) - 1 /\ Len(todo) \in Nat
  OBVIOUS

LEMMA AnswerOrdered ==
  ASSUME Ordered, NEW c \in Caller, call[c].todo # <<>>,
         NEW value \in Driver \cup Load \cup {None}, Answer(c, value)
  PROVE  call' \in [Caller -> CallState] /\ \A d \in Caller : Placed(call'[d])
<1> DEFINE rest == Tail(call[c].todo)
           r == Between(IF rest = <<>> THEN "idle" ELSE "next", rest, value)
<1>1. rest \in Seq(Field) /\ 0 \in 0..(LastIndex + 1)
  BY CallFields, RestTypes, BoundTypes DEF Ordered, TypeOK
<1>2. r \in CallState /\ Placed(r)
  BY <1>1 DEF Between, CallState, Placed, Hwmon
<1>3. call' = [call EXCEPT ![c] = r]
  BY DEF Answer
<1>4. QED
  BY <1>2, <1>3, OneCall

LEMMA DisturbedOrdered ==
  ASSUME Ordered, call' = Disturbed
  PROVE  call' \in [Caller -> CallState] /\ \A d \in Caller : Placed(call'[d])
<1>1. ASSUME NEW d \in Caller PROVE call'[d] \in CallState /\ Placed(call'[d])
  <2>1. /\ call[d] \in CallState /\ Placed(call[d])
        /\ call'[d] = [call[d] EXCEPT !.steady = call[d].pc \notin Hwmon]
    BY DEF Ordered, TypeOK, Disturbed, Hwmon
  <2>2. QED
    BY <2>1, CallFields DEF CallState, Placed
<1>2. call' = [c \in Caller |-> [call[c] EXCEPT !.steady = call[c].pc \notin Hwmon]]
  BY DEF Disturbed, Hwmon
<1>3. QED
  BY <1>1, <1>2

LEMMA MachineOrdered ==
  ASSUME Ordered,
         Tick \/ (\E i \in Index : Unregister(i)) \/ (\E d \in Driver : Register(d))
  PROVE  Ordered'
<1>1. CASE Tick
  <2>1. now' \in Nat /\ stat' \in [idle : Nat, work : Nat]
    BY <1>1 DEF Tick, Ordered, TypeOK
  <2>2. QED
    BY <1>1, <2>1 DEF Tick, Ordered, TypeOK
<1>2. ASSUME NEW i \in Index, Unregister(i) PROVE Ordered'
  <2>1. nodes' \in [Index -> Driver \cup {None}] /\ spent' \in [calls : Nat, reloads : Nat]
    BY <1>2 DEF Unregister, Spend, Ordered, TypeOK
  <2>2. QED
    BY <1>2, <2>1, DisturbedOrdered DEF Unregister, Ordered, TypeOK
<1>3. ASSUME NEW d \in Driver, Register(d) PROVE Ordered'
  <2>1. nodes' \in [Index -> Driver \cup {None}]
    BY <1>3 DEF Register, Ordered, TypeOK
  <2>2. QED
    BY <1>3, <2>1, DisturbedOrdered DEF Register, Ordered, TypeOK
<1>4. QED
  BY <1>1, <1>2, <1>3

LEMMA InvokeOrdered ==
  ASSUME Ordered, NEW c \in Caller, Invoke(c)
  PROVE  Ordered'
<1>1. PICK todo \in Reads :
        call' = [call EXCEPT ![c] = Between("next", todo, None)]
  BY DEF Invoke
<1> DEFINE r == Between("next", todo, None)
<1>2. r \in CallState /\ Placed(r)
  BY SensorsAssumption, BoundTypes DEF Between, CallState, Placed, Hwmon
<1>3. call' \in [Caller -> CallState] /\ \A d \in Caller : Placed(call'[d])
  BY <1>1, <1>2, OneCall
<1>4. spent' \in [calls : Nat, reloads : Nat]
  BY DEF Invoke, Spend, Ordered, TypeOK
<1>5. QED
  BY <1>3, <1>4 DEF Invoke, Ordered, TypeOK

\* What a call is left with when it looks its sensor up.
Looking(c, pc, index) == [call[c] EXCEPT !.pc = pc, !.index = index, !.steady = TRUE]

LEMMA ResolveSteps ==
  ASSUME Ordered, NEW c \in Caller, Resolve(c)
  PROVE  /\ call[c].pc = "next" /\ Current(c) \in Sensors
         /\ \/ /\ Confirmed(Current(c))
               /\ call' = [call EXCEPT ![c] = Looking(c, "read", cache[Current(c)])]
               /\ UNCHANGED cache
            \/ /\ ~Confirmed(Current(c))
               /\ call' = [call EXCEPT ![c] = Looking(c, "scan", 0)]
               /\ cache' = [cache EXCEPT ![Current(c)] = None]
  BY DEF Resolve, Lookup, At, Looking

LEMMA LookupOrdered ==
  ASSUME Ordered, NEW c \in Caller, Resolve(c)
  PROVE  Ordered'
<1>1. /\ call[c] \in CallState /\ Placed(call[c]) /\ call[c].pc = "next"
      /\ Current(c) \in Sensors
  BY ResolveSteps DEF Ordered, TypeOK
<1>2. ASSUME NEW pc \in {"read", "scan"}, NEW index \in 0..(LastIndex + 1),
             pc = "read" => index \in Scanned
      PROVE  Looking(c, pc, index) \in CallState /\ Placed(Looking(c, pc, index))
  BY <1>1, <1>2, CallFields DEF Looking, CallState, Placed, Hwmon, Current
<1>3. CASE /\ Confirmed(Current(c))
           /\ call' = [call EXCEPT ![c] = Looking(c, "read", cache[Current(c)])]
           /\ UNCHANGED cache
  <2>1. cache[Current(c)] \in Scanned
    BY <1>1, <1>3 DEF Confirmed, Ordered, TypeOK
  <2>2. call' \in [Caller -> CallState] /\ \A d \in Caller : Placed(call'[d])
    BY <1>2, <1>3, <2>1, OneCall, BoundTypes
  <2>3. QED
    BY <1>3, <2>2 DEF Resolve, Lookup, Ordered, TypeOK
<1>4. CASE /\ ~Confirmed(Current(c))
           /\ call' = [call EXCEPT ![c] = Looking(c, "scan", 0)]
           /\ cache' = [cache EXCEPT ![Current(c)] = None]
  <2>1. call' \in [Caller -> CallState] /\ \A d \in Caller : Placed(call'[d])
    <3>1. Looking(c, "scan", 0) \in CallState /\ Placed(Looking(c, "scan", 0))
      BY <1>2, BoundTypes
    <3>2. QED
      BY <1>4, <3>1, OneCall
  <2>2. cache' \in [Sensors -> Scanned \cup {None}]
    BY <1>4 DEF Ordered, TypeOK
  <2>3. QED
    BY <2>1, <2>2 DEF Resolve, Lookup, Ordered, TypeOK
<1>5. QED
  BY <1>3, <1>4, ResolveSteps

LEMMA ScanOrdered ==
  ASSUME Ordered, NEW c \in Caller, Scan(c)
  PROVE  Ordered'
<1> DEFINE i == call[c].index
<1>1. /\ call[c] \in CallState /\ Placed(call[c]) /\ call[c].pc = "scan"
      /\ call[c].todo # <<>>
  BY DEF Scan, At, Ordered, TypeOK, Placed
<1>2. call' \in [Caller -> CallState] /\ \A d \in Caller : Placed(call'[d])
  <2>1. CASE i \in Scanned /\ Goto(c, "insert")
    <3>1. [call[c] EXCEPT !.pc = "insert"] \in CallState
          /\ Placed([call[c] EXCEPT !.pc = "insert"])
      BY <1>1, <2>1, CallFields DEF CallState, Placed, Hwmon
    <3>2. QED
      BY <2>1, <3>1, OneCall DEF Goto
  <2>2. CASE i \in Scanned /\ call' = [call EXCEPT ![c] = [@ EXCEPT !.index = i + 1]]
    <3>1. i + 1 \in 0..(LastIndex + 1)
      BY <2>2, BoundTypes
    <3>2. /\ [call[c] EXCEPT !.index = i + 1] \in CallState
          /\ Placed([call[c] EXCEPT !.index = i + 1])
      <4> HIDE DEF i
      <4>1. [call[c] EXCEPT !.index = i + 1] \in CallState
        BY <1>1, <3>1, CallFields DEF CallState
      <4>2. Placed([call[c] EXCEPT !.index = i + 1])
        BY <1>1, CallFields DEF Placed, Hwmon
      <4>3. QED
        BY <4>1, <4>2
    <3>3. QED
      BY <2>2, <3>2, OneCall
  <2>3. CASE Answer(c, None)
    BY <1>1, <2>3, AnswerOrdered
  <2>4. QED
    BY <2>1, <2>2, <2>3 DEF Scan
<1>3. QED
  BY <1>2 DEF Scan, Ordered, TypeOK

LEMMA InsertOrdered ==
  ASSUME Ordered, NEW c \in Caller, Insert(c)
  PROVE  Ordered'
<1>1. /\ call[c] \in CallState /\ Placed(call[c]) /\ call[c].pc = "insert"
      /\ Current(c) \in Sensors /\ call[c].index \in Scanned
  BY DEF Insert, At, Ordered, TypeOK, Placed, Hwmon, Current
<1>2. [call[c] EXCEPT !.pc = "read"] \in CallState /\ Placed([call[c] EXCEPT !.pc = "read"])
  BY <1>1, CallFields DEF CallState, Placed, Hwmon
<1>3. call' \in [Caller -> CallState] /\ \A d \in Caller : Placed(call'[d])
  BY <1>2, OneCall DEF Insert, Goto
<1>4. cache' \in [Sensors -> Scanned \cup {None}]
  BY <1>1 DEF Insert, Ordered, TypeOK
<1>5. QED
  BY <1>3, <1>4 DEF Insert, Ordered, TypeOK

LEMMA ReadOrdered ==
  ASSUME Ordered, NEW c \in Caller, ReadAttr(c)
  PROVE  Ordered'
<1>1. /\ Placed(call[c]) /\ call[c].pc = "read" /\ call[c].todo # <<>>
      /\ call[c].index \in Scanned
  BY DEF ReadAttr, At, Ordered, TypeOK, Placed
<1>2. nodes[call[c].index] \in Driver \cup {None}
  BY <1>1, BoundTypes DEF Ordered, TypeOK
<1>3. call' \in [Caller -> CallState] /\ \A d \in Caller : Placed(call'[d])
  BY <1>1, <1>2, AnswerOrdered DEF ReadAttr
<1>4. QED
  BY <1>3 DEF ReadAttr, Ordered, TypeOK

LEMMA StatOrdered ==
  ASSUME Ordered, NEW c \in Caller, ReadStat(c) \/ ReadClock(c)
  PROVE  Ordered'
<1>1. call[c] \in CallState /\ Placed(call[c]) /\ now \in Nat
      /\ stat \in [idle : Nat, work : Nat]
  BY DEF Ordered, TypeOK
<1>2. CASE ReadStat(c)
  <2> DEFINE x == [idle |-> stat.idle, work |-> stat.work, at |-> now, time |-> now]
             r == [call[c] EXCEPT !.pc = "clock", !.seen = x]
  <2>1. x \in Seen
    BY <1>1 DEF Seen
  <2>2. r \in CallState /\ Placed(r)
    BY <1>1, <1>2, <2>1, CallFields DEF ReadStat, At, Current, CallState, Placed, Hwmon
  <2>3. QED
    BY <1>2, <2>2, OneCall DEF ReadStat, Ordered, TypeOK
<1>3. CASE ReadClock(c)
  <2> DEFINE x == [call[c].seen EXCEPT !.time = now]
             r == [call[c] EXCEPT !.pc = "sample", !.seen = x]
  <2>1. x \in Seen
    BY <1>1, <1>3 DEF ReadClock, At, Placed, Seen
  <2>2. r \in CallState /\ Placed(r)
    BY <1>1, <1>3, <2>1, CallFields DEF ReadClock, At, CallState, Placed, Hwmon
  <2>3. QED
    BY <1>3, <2>2, OneCall DEF ReadClock, Ordered, TypeOK
<1>4. QED
  BY <1>2, <1>3

\* A share of the jiffies between two samples.
LEMMA PercentTypes ==
  ASSUME NEW old \in Seen, NEW new \in Seen, Total(new) > Total(old)
  PROVE  Percent(old, new) \in Load
<1> DEFINE work == Minus(new.work, old.work)
           total == Minus(Total(new), Total(old))
<1>1. Total(old) \in Nat /\ Total(new) \in Nat
  BY DEF Seen, Total
<1>2. work \in Nat /\ total \in Nat \ {0}
  BY <1>1 DEF Minus, Seen
<1>3. \A n \in Nat, d \in Nat \ {0} : n \div d \in Nat
  OBVIOUS
<1>4. (work * 100) \div total \in Nat
  <2>1. work * 100 \in Nat
    BY <1>2
  <2>2. QED
    BY <1>2, <1>3, <2>1
<1>5. QED
  BY <1>4 DEF Percent, Lesser, Load

LEMMA SampleOrdered ==
  ASSUME Ordered, NEW c \in Caller, Sample(c)
  PROVE  Ordered'
<1> DEFINE s == call[c].seen
<1>1. /\ Placed(call[c]) /\ call[c].pc = "sample" /\ call[c].todo # <<>> /\ s \in Seen
  BY DEF Sample, At, Ordered, TypeOK, Placed
<1>2. baseline' \in Seen \cup {None} /\ silent' \in Nat
  BY <1>1 DEF Sample, Rebase, Ordered, TypeOK, Seen
<1>3. \E value \in Driver \cup Load \cup {None} : Answer(c, value)
  <2>1. CASE Answer(c, None)
    BY <2>1
  <2>2. CASE /\ baseline # None
             /\ Answer(c, IF Total(s) <= Total(baseline) THEN None ELSE Percent(baseline, s))
    <3>1. baseline \in Seen
      BY <2>2 DEF Ordered, TypeOK
    <3>2. Total(s) \in Nat /\ Total(baseline) \in Nat
      BY <1>1, <3>1 DEF Seen, Total
    <3>3. ~(Total(s) <= Total(baseline)) => Percent(baseline, s) \in Load
      BY <1>1, <3>1, <3>2, PercentTypes
    <3>4. QED
      BY <2>2, <3>3
  <2>3. QED
    BY <2>1, <2>2 DEF Sample
<1>4. call' \in [Caller -> CallState] /\ \A d \in Caller : Placed(call'[d])
  BY <1>1, <1>3, AnswerOrdered
<1>5. QED
  BY <1>2, <1>4 DEF Sample, Ordered, TypeOK

LEMMA InitOrdered == Init => Ordered
<1> SUFFICES ASSUME Init PROVE Ordered
  OBVIOUS
<1>1. Idle \in CallState /\ Placed(Idle)
  BY BoundTypes DEF Idle, Between, CallState, Placed, Hwmon
<1>2. call \in [Caller -> CallState] /\ \A c \in Caller : Placed(call[c])
  BY <1>1 DEF Init
<1>3. /\ stat \in [idle : Nat, work : Nat] /\ spent \in [calls : Nat, reloads : Nat]
      /\ baseline = None /\ now = 0 /\ silent = 0
      /\ cache \in [Sensors -> Scanned \cup {None}]
      /\ nodes \in [Index -> Driver \cup {None}]
  BY DEF Init
<1>4. QED
  BY <1>2, <1>3 DEF Ordered, TypeOK

LEMMA StepOrdered == Ordered /\ [Next]_vars => Ordered'
<1> SUFFICES ASSUME Ordered, [Next]_vars PROVE Ordered'
  OBVIOUS
<1>1. CASE Tick \/ (\E i \in Index : Unregister(i)) \/ (\E d \in Driver : Register(d))
  BY <1>1, MachineOrdered
<1>2. ASSUME NEW c \in Caller,
             \/ Invoke(c) \/ Resolve(c) \/ Scan(c) \/ Insert(c) \/ ReadAttr(c)
             \/ ReadStat(c) \/ ReadClock(c) \/ Sample(c)
      PROVE  Ordered'
  BY <1>2, InvokeOrdered, LookupOrdered, ScanOrdered, InsertOrdered, ReadOrdered,
     StatOrdered, SampleOrdered
<1>3. CASE UNCHANGED vars
  BY <1>3 DEF vars, Ordered, TypeOK
<1>4. QED
  BY <1>1, <1>2, <1>3 DEF Next

\* A load is a percentage and a reading is a device's, for any corrections
\* the kernel makes to its counters.
THEOREM SensorsTypes == Spec => []TypeOK
<1>1. Ordered => TypeOK
  BY DEF Ordered
<1>2. QED
  BY <1>1, InitOrdered, StepOrdered, PTL DEF Spec

-----------------------------------------------------------------------------
(* What a call goes through.                                               *)

\* A call has one reading less to make only by answering it.
LEMMA Answering ==
  ASSUME Ordered, [Next]_vars, NEW d \in Caller, Answers(d)
  PROVE  \/ Scan(d) /\ call[d].index \notin Scanned /\ Answer(d, None)
         \/ ReadAttr(d)
         \/ Sample(d)
<1>1. /\ call \in [Caller -> CallState] /\ call[d] \in CallState /\ Placed(call[d])
      /\ call[d].todo \in Seq(Field) /\ Len(call[d].todo) \in Nat
  BY CallFields, LenProperties DEF Ordered, TypeOK
<1>2. call'[d].todo # call[d].todo
  BY <1>1 DEF Answers
<1>3. \A c \in Caller : \A r : call' = [call EXCEPT ![c] = r] =>
        c = d /\ r.todo # call[d].todo /\ Len(r.todo) < Len(call[d].todo)
  BY <1>1, <1>2 DEF Answers
<1>4. ~Tick /\ ~UNCHANGED vars
  BY <1>2 DEF Tick, vars
<1>5. call' # Disturbed
  BY <1>1, <1>2, CallFields DEF Disturbed
<1>6. (\A i \in Index : ~Unregister(i)) /\ (\A e \in Driver : ~Register(e))
  BY <1>5 DEF Unregister, Register
<1>7. \A c \in Caller : ~Invoke(c)
  <2>1. SUFFICES ASSUME NEW c \in Caller, Invoke(c) PROVE FALSE
    OBVIOUS
  <2>2. PICK todo \in Reads : call' = [call EXCEPT ![c] = Between("next", todo, None)]
    BY <2>1 DEF Invoke
  <2>3. c = d /\ Len(todo) < Len(call[d].todo)
    <3>1. Between("next", todo, None).todo = todo
      BY DEF Between
    <3>2. QED
      BY <1>3, <2>2, <3>1
  <2>4. call[d].todo = <<>>
    BY <1>1, <2>1, <2>3 DEF Invoke, At, Placed
  <2>5. todo \in Seq(Field)
    BY SensorsAssumption
  <2>6. Len(todo) \in Nat
    BY <2>5, LenProperties
  <2>7. QED
    BY <2>3, <2>4, <2>6
<1>8. \A c \in Caller : ~Resolve(c)
  <2>1. SUFFICES ASSUME NEW c \in Caller, Resolve(c) PROVE FALSE
    OBVIOUS
  <2>2. \A pc, index : Looking(d, pc, index).todo = call[d].todo
    BY <1>1, CallFields DEF Looking
  <2>3. QED
    BY <1>3, <2>1, <2>2, ResolveSteps
<1>9. \A c \in Caller : ~Insert(c)
  BY <1>1, <1>3, CallFields DEF Insert, Goto
<1>10. \A c \in Caller : ~ReadStat(c) /\ ~ReadClock(c)
  <2>1. SUFFICES ASSUME NEW c \in Caller, ReadStat(c) \/ ReadClock(c) PROVE FALSE
    OBVIOUS
  <2>2. PICK pc, seen : call' = [call EXCEPT ![c] = [@ EXCEPT !.pc = pc, !.seen = seen]]
    BY <2>1 DEF ReadStat, ReadClock
  <2>3. [call[d] EXCEPT !.pc = pc, !.seen = seen].todo = call[d].todo
    BY <1>1, CallFields
  <2>4. QED
    BY <1>3, <2>2, <2>3
<1>11. ASSUME NEW c \in Caller, Scan(c)
       PROVE  c = d /\ call[d].index \notin Scanned /\ Answer(d, None)
  <2>1. c = d
    BY <1>3, <1>11 DEF Scan, Goto, Answer
  <2>2. ~Goto(d, "insert")
    BY <1>1, <1>3, CallFields DEF Goto
  <2>3. call' # [call EXCEPT ![d] = [@ EXCEPT !.index = call[d].index + 1]]
    BY <1>1, <1>3, CallFields
  <2>4. QED
    BY <1>11, <2>1, <2>2, <2>3 DEF Scan
<1>12. ASSUME NEW c \in Caller, ReadAttr(c) \/ Sample(c) PROVE c = d
  BY <1>3, <1>12 DEF ReadAttr, Sample, Answer
<1>13. QED
  BY <1>4, <1>6, <1>7, <1>8, <1>9, <1>10, <1>11, <1>12 DEF Next

-----------------------------------------------------------------------------
(* Names.  An undisturbed lookup knows that the indices it passed do not   *)
(* have its name, and that the one it found does.                          *)

Located(ns, r) ==
  r.steady =>
    /\ r.pc = "scan" =>
         \A i \in Scanned : i < r.index => ns[i] # NameOf(Head(r.todo))
    /\ r.pc \in {"insert", "read"} => ns[r.index] = NameOf(Head(r.todo))

AllLocated == \A c \in Caller : Located(nodes, call[c])

LEMMA OneLocated ==
  ASSUME Ordered, AllLocated, NEW c \in Caller, NEW r, Located(nodes, r),
         call' = [call EXCEPT ![c] = r], UNCHANGED nodes
  PROVE  AllLocated'
<1>1. call'[c] = r /\ \A d \in Caller : d # c => call'[d] = call[d]
  BY DEF Ordered, TypeOK
<1>2. QED
  BY <1>1 DEF AllLocated

LEMMA AnswerLocated ==
  ASSUME Ordered, AllLocated, NEW c \in Caller, NEW value, Answer(c, value), UNCHANGED nodes
  PROVE  AllLocated'
<1> DEFINE rest == Tail(call[c].todo)
           r == Between(IF rest = <<>> THEN "idle" ELSE "next", rest, value)
<1>1. Located(nodes, r)
  BY DEF Located, Between
<1>2. QED
  BY <1>1, OneLocated DEF Answer

LEMMA MachineLocated ==
  ASSUME Ordered, AllLocated,
         Tick \/ (\E i \in Index : Unregister(i)) \/ (\E d \in Driver : Register(d))
  PROVE  AllLocated'
<1>1. CASE Tick
  BY <1>1 DEF Tick, AllLocated
<1>2. CASE call' = Disturbed
  <2>1. ASSUME NEW d \in Caller PROVE Located(nodes', call'[d])
    <3>1. /\ call[d] \in CallState
          /\ call'[d] = [call[d] EXCEPT !.steady = call[d].pc \notin {"scan", "insert", "read"}]
      BY <1>2 DEF Ordered, TypeOK, Disturbed
    <3>2. /\ call'[d].pc = call[d].pc
          /\ call'[d].steady = (call[d].pc \notin {"scan", "insert", "read"})
      BY <3>1, CallFields
    <3>3. QED
      BY <3>2 DEF Located
  <2>2. QED
    BY <2>1 DEF AllLocated
<1>3. QED
  BY <1>1, <1>2 DEF Unregister, Register

LEMMA InvokeLocated ==
  ASSUME Ordered, AllLocated, NEW c \in Caller, Invoke(c)
  PROVE  AllLocated'
<1>1. PICK todo \in Reads : call' = [call EXCEPT ![c] = Between("next", todo, None)]
  BY DEF Invoke
<1>2. Located(nodes, Between("next", todo, None))
  BY DEF Located, Between
<1>3. QED
  BY <1>1, <1>2, OneLocated DEF Invoke

LEMMA ResolveLocated ==
  ASSUME Ordered, AllLocated, NEW c \in Caller, Resolve(c)
  PROVE  AllLocated'
<1>1. call[c] \in CallState /\ UNCHANGED nodes
  BY DEF Ordered, TypeOK, Resolve, Lookup
<1>2. \A pc, index :
        /\ Looking(c, pc, index).pc = pc /\ Looking(c, pc, index).index = index
        /\ Looking(c, pc, index).todo = call[c].todo
  BY <1>1, CallFields DEF Looking
<1>3. Confirmed(Current(c)) => Located(nodes, Looking(c, "read", cache[Current(c)]))
  BY <1>2 DEF Located, Confirmed, Current
<1>4. Located(nodes, Looking(c, "scan", 0))
  <2>1. \A i \in Scanned : ~(i < 0)
    BY BoundTypes
  <2>2. QED
    BY <1>2, <2>1 DEF Located
<1>5. QED
  BY <1>1, <1>3, <1>4, ResolveSteps, OneLocated

LEMMA ScanLocated ==
  ASSUME Ordered, AllLocated, NEW c \in Caller, Scan(c)
  PROVE  AllLocated'
<1> DEFINE i == call[c].index
<1>1. /\ call[c] \in CallState /\ call[c].pc = "scan" /\ Located(nodes, call[c])
      /\ UNCHANGED nodes
  BY DEF Scan, At, Ordered, TypeOK, AllLocated
<1>2. CASE i \in Scanned /\ nodes[i] = NameOf(Current(c)) /\ Goto(c, "insert")
  <2> DEFINE r == [call[c] EXCEPT !.pc = "insert"]
  <2>1. r.pc = "insert" /\ r.index = i /\ r.todo = call[c].todo
    BY <1>1, CallFields
  <2>2. Located(nodes, r)
    <3> HIDE DEF r
    <3>1. QED
      BY <1>2, <2>1 DEF Located, Current
  <2>3. QED
    BY <1>1, <1>2, <2>2, OneLocated DEF Goto
<1>3. CASE /\ i \in Scanned /\ nodes[i] # NameOf(Current(c))
           /\ call' = [call EXCEPT ![c] = [@ EXCEPT !.index = i + 1]]
  <2> DEFINE r == [call[c] EXCEPT !.index = i + 1]
  <2>1. /\ r.pc = "scan" /\ r.index = i + 1 /\ r.todo = call[c].todo
        /\ r.steady = call[c].steady
    BY <1>1, CallFields
  <2>2. i \in Nat /\ \A j \in Scanned : j \in Nat /\ (j < i + 1 => j < i \/ j = i)
    BY <1>3, BoundTypes
  <2>3. Located(nodes, r)
    <3> HIDE DEF r
    <3>1. QED
      BY <1>1, <1>3, <2>1, <2>2 DEF Located, Current
  <2>4. QED
    BY <1>1, <1>3, <2>3, OneLocated
<1>4. CASE Answer(c, None)
  BY <1>1, <1>4, AnswerLocated
<1>5. QED
  BY <1>2, <1>3, <1>4 DEF Scan

LEMMA InsertLocated ==
  ASSUME Ordered, AllLocated, NEW c \in Caller, Insert(c)
  PROVE  AllLocated'
<1> DEFINE r == [call[c] EXCEPT !.pc = "read"]
<1>1. /\ call[c] \in CallState /\ call[c].pc = "insert" /\ Located(nodes, call[c])
      /\ UNCHANGED nodes /\ call' = [call EXCEPT ![c] = r]
  BY DEF Insert, Goto, At, Ordered, TypeOK, AllLocated
<1>2. /\ r.pc = "read" /\ r.index = call[c].index /\ r.todo = call[c].todo
      /\ r.steady = call[c].steady
  BY <1>1, CallFields
<1> HIDE DEF r
<1>3. Located(nodes, r)
  BY <1>1, <1>2 DEF Located
<1>4. QED
  BY <1>1, <1>3, OneLocated

LEMMA LoadLocated ==
  ASSUME Ordered, AllLocated, NEW c \in Caller,
         ReadAttr(c) \/ ReadStat(c) \/ ReadClock(c) \/ Sample(c)
  PROVE  AllLocated'
<1>1. call[c] \in CallState
  BY DEF Ordered, TypeOK
<1>2. CASE ReadAttr(c) \/ Sample(c)
  BY <1>2, AnswerLocated DEF ReadAttr, Sample
<1>3. CASE ReadStat(c)
  <2> DEFINE r == [call[c] EXCEPT !.pc = "clock",
                     !.seen = [idle |-> stat.idle, work |-> stat.work, at |-> now, time |-> now]]
  <2>1. r.pc = "clock"
    BY <1>1, CallFields
  <2>2. Located(nodes, r)
    BY <2>1 DEF Located
  <2>3. QED
    BY <1>3, <2>2, OneLocated DEF ReadStat
<1>4. CASE ReadClock(c)
  <2> DEFINE r == [call[c] EXCEPT !.pc = "sample", !.seen = [call[c].seen EXCEPT !.time = now]]
  <2>1. r.pc = "sample"
    BY <1>1, CallFields
  <2>2. Located(nodes, r)
    BY <2>1 DEF Located
  <2>3. QED
    BY <1>4, <2>2, OneLocated DEF ReadClock
<1>5. QED
  BY <1>2, <1>3, <1>4

LEMMA NamedStep ==
  ASSUME Ordered, AllLocated, [Next]_vars, NEW c \in Caller, Answers(c),
         Current(c) \in Sensors, call[c].steady
  PROVE  call'[c].got = IF Registered(NameOf(Current(c))) THEN NameOf(Current(c)) ELSE None
<1> DEFINE name == NameOf(Current(c))
<1>1. /\ call[c] \in CallState /\ Placed(call[c]) /\ Located(nodes, call[c])
  BY DEF Ordered, TypeOK, AllLocated
<1>2. \A value : Answer(c, value) => call'[c].got = value
  BY DEF Answer, Between, Ordered, TypeOK
<1>3. CASE Scan(c) /\ call[c].index \notin Scanned /\ Answer(c, None)
  <2>1. \A i \in Scanned : i < call[c].index
    BY <1>1, <1>3, CallFields, SensorsAssumption DEF Scanned, Index
  <2>2. \A i \in Scanned : nodes[i] # name
    BY <1>1, <1>3, <2>1 DEF Located, Scan, At, Current
  <2>3. QED
    BY <1>2, <1>3, <2>2 DEF Registered
<1>4. CASE ReadAttr(c)
  <2>1. nodes[call[c].index] = name /\ call[c].index \in Scanned
    BY <1>1, <1>4 DEF Located, ReadAttr, At, Current, Placed
  <2>2. QED
    BY <1>2, <1>4, <2>1 DEF ReadAttr, Registered
<1>5. CASE Sample(c)
  <2>1. Current(c) = CpuBusy
    BY <1>1, <1>5 DEF Sample, At, Placed, Current
  <2>2. NameOf(Current(c)) = None /\ NameOf(Current(c)) \in Driver
    BY <2>1, SensorsAssumption DEF CpuBusy, NameOf
  <2>3. QED
    BY <2>2, SensorsAssumption
<1>6. QED
  BY <1>3, <1>4, <1>5, Answering

\* A reading that is not disturbed comes from the device it is named after,
\* however the indices were permuted before and whatever is cached.
THEOREM ReadingsAreNamed == Spec => AnswersTheNamed
<1>1. Init => AllLocated
  BY DEF Init, AllLocated, Located, Idle, Between
<1>2. Ordered /\ AllLocated /\ [Next]_vars => AllLocated'
  <2> SUFFICES ASSUME Ordered, AllLocated, [Next]_vars PROVE AllLocated'
    OBVIOUS
  <2>1. CASE Tick \/ (\E i \in Index : Unregister(i)) \/ (\E d \in Driver : Register(d))
    BY <2>1, MachineLocated
  <2>2. ASSUME NEW c \in Caller,
               \/ Invoke(c) \/ Resolve(c) \/ Scan(c) \/ Insert(c) \/ ReadAttr(c)
               \/ ReadStat(c) \/ ReadClock(c) \/ Sample(c)
        PROVE  AllLocated'
    BY <2>2, InvokeLocated, ResolveLocated, ScanLocated, InsertLocated, LoadLocated
  <2>3. CASE UNCHANGED vars
    BY <2>3 DEF vars, AllLocated
  <2>4. QED
    BY <2>1, <2>2, <2>3 DEF Next
<1>3. Ordered /\ AllLocated /\ [Next]_vars =>
        \A c \in Caller :
          Answers(c) /\ Current(c) \in Sensors /\ call[c].steady =>
            LET name == NameOf(Current(c)) IN
            call'[c].got = IF Registered(name) THEN name ELSE None
  BY NamedStep
<1>4. QED
  BY <1>1, <1>2, <1>3, InitOrdered, StepOrdered, PTL DEF Spec, AnswersTheNamed

-----------------------------------------------------------------------------
(* Loads.  Of two samples the one taken later shows at least as many       *)
(* jiffies.                                                                *)

Samples == {x \in {baseline} \cup {call[c].seen : c \in Caller} : x # None}

Aged ==
  /\ \A x \in Samples :
       /\ x.at <= now
       /\ Total(x) <= Total(stat)
       /\ x.at = now => Total(x) = Total(stat)
  /\ \A x, y \in Samples : x.at <= y.at => Total(x) <= Total(y)

Alike(x, y) == x.at = y.at /\ Total(x) = Total(y)

LEMMA SamplesTypes ==
  ASSUME Ordered
  PROVE  /\ Samples \subseteq Seen
         /\ \A x \in Samples : x.at \in Nat /\ x.time \in Nat /\ Total(x) \in Nat
         /\ now \in Nat /\ Total(stat) \in Nat
<1>1. Samples \subseteq Seen
  BY CallFields DEF Samples, Ordered, TypeOK
<1>2. QED
  BY <1>1 DEF Seen, Total, Ordered, TypeOK

LEMMA AlikeAged ==
  ASSUME Aged, UNCHANGED <<now, stat>>,
         \A x \in Samples' : \E y \in Samples : Alike(x, y)
  PROVE  Aged'
  BY DEF Aged, Alike, Total

\* The call of one caller moves on, with its sample, or none, or one alike.
LEMMA CallAged ==
  ASSUME Ordered, Aged, NEW c \in Caller, NEW r, call' = [call EXCEPT ![c] = r],
         \/ r.seen \in {None, call[c].seen}
         \/ call[c].seen # None /\ Alike(r.seen, call[c].seen),
         baseline' \in {baseline, call[c].seen}, UNCHANGED <<now, stat>>
  PROVE  Aged'
<1>1. call'[c] = r /\ \A d \in Caller : d # c => call'[d] = call[d]
  BY DEF Ordered, TypeOK
<1>2. \A x \in Samples : Alike(x, x)
  BY DEF Alike
<1>3. \A d \in Caller : call'[d].seen # None => \E y \in Samples : Alike(call'[d].seen, y)
  BY <1>1, <1>2 DEF Samples
<1>4. baseline' # None => \E y \in Samples : Alike(baseline', y)
  BY <1>2 DEF Samples
<1>5. \A x \in Samples' : \E y \in Samples : Alike(x, y)
  BY <1>3, <1>4 DEF Samples
<1>6. QED
  BY <1>5, AlikeAged

LEMMA AnswerAged ==
  ASSUME Ordered, Aged, NEW c \in Caller, NEW value, Answer(c, value),
         baseline' \in {baseline, call[c].seen}, UNCHANGED <<now, stat>>
  PROVE  Aged'
<1> DEFINE rest == Tail(call[c].todo)
           r == Between(IF rest = <<>> THEN "idle" ELSE "next", rest, value)
<1>1. r.seen = None
  BY DEF Between
<1>2. call' = [call EXCEPT ![c] = r]
  BY DEF Answer
<1> HIDE DEF r
<1>3. QED
  BY <1>1, <1>2, CallAged

LEMMA TickAged ==
  ASSUME Ordered, Aged, Tick
  PROVE  Aged'
<1>1. Samples' = Samples
  BY DEF Tick, Samples
<1>2. now' = now + 1
  BY DEF Tick
<1>3. Total(stat') \in Nat /\ Total(stat) <= Total(stat')
  BY DEF Tick, Total, Ordered, TypeOK
<1>4. Total(stat)' = Total(stat')
  BY DEF Total
<1>5. \A x \in Samples : x.at \in Nat /\ Total(x) \in Nat /\ x.at <= now /\ Total(x) <= Total(stat)
  BY SamplesTypes DEF Aged
<1>6. now \in Nat /\ Total(stat) \in Nat
  BY SamplesTypes
<1>7. \A x \in Samples : x.at <= now' /\ x.at # now' /\ Total(x) <= Total(stat')
  BY <1>2, <1>3, <1>5, <1>6
<1>8. QED
  BY <1>1, <1>4, <1>7 DEF Aged, Total

LEMMA DisturbedAged ==
  ASSUME Ordered, Aged, call' = Disturbed, UNCHANGED <<baseline, now, stat>>
  PROVE  Aged'
<1>1. \A d \in Caller : call'[d].seen = call[d].seen
  BY CallFields DEF Disturbed, Ordered, TypeOK
<1>2. Samples' = Samples
  BY <1>1 DEF Samples
<1>3. QED
  BY <1>2, AlikeAged DEF Alike

LEMMA LookupAged ==
  ASSUME Ordered, Aged, NEW c \in Caller,
         Invoke(c) \/ Resolve(c) \/ Scan(c) \/ Insert(c) \/ ReadAttr(c)
  PROVE  Aged'
<1>1. call[c] \in CallState /\ UNCHANGED <<baseline, now, stat>>
  BY DEF Ordered, TypeOK, Invoke, Resolve, Lookup, Scan, Insert, ReadAttr
<1>2. CASE Invoke(c)
  <2>1. PICK todo \in Reads : call' = [call EXCEPT ![c] = Between("next", todo, None)]
    BY <1>2 DEF Invoke
  <2>2. Between("next", todo, None).seen = None
    BY DEF Between
  <2>3. QED
    BY <1>1, <2>1, <2>2, CallAged
<1>3. CASE Resolve(c)
  <2>1. \A pc, index : Looking(c, pc, index).seen = call[c].seen
    BY <1>1, CallFields DEF Looking
  <2>2. QED
    BY <1>1, <1>3, <2>1, ResolveSteps, CallAged
<1>4. CASE Scan(c) \/ Insert(c)
  <2>1. \A pc : [call[c] EXCEPT !.pc = pc].seen = call[c].seen
    BY <1>1, CallFields
  <2>2. \A i : [call[c] EXCEPT !.index = i].seen = call[c].seen
    BY <1>1, CallFields
  <2>3. CASE \E pc : Goto(c, pc)
    BY <1>1, <2>1, <2>3, CallAged DEF Goto
  <2>4. CASE \E i : call' = [call EXCEPT ![c] = [@ EXCEPT !.index = i]]
    BY <1>1, <2>2, <2>4, CallAged
  <2>5. CASE Answer(c, None)
    BY <1>1, <2>5, AnswerAged
  <2>6. QED
    BY <1>4, <2>3, <2>4, <2>5 DEF Scan, Insert
<1>5. CASE ReadAttr(c)
  BY <1>1, <1>5, AnswerAged DEF ReadAttr
<1>6. QED
  BY <1>2, <1>3, <1>4, <1>5

LEMMA ReadStatAged ==
  ASSUME Ordered, Aged, NEW c \in Caller, ReadStat(c)
  PROVE  Aged'
<1> DEFINE s == [idle |-> stat.idle, work |-> stat.work, at |-> now, time |-> now]
           r == [call[c] EXCEPT !.pc = "clock", !.seen = s]
<1>1. call[c] \in CallState /\ call \in [Caller -> CallState]
      /\ call' = [call EXCEPT ![c] = r] /\ UNCHANGED <<baseline, now, stat>>
  BY DEF ReadStat, Ordered, TypeOK
<1>2. r.seen = s /\ Total(s) = Total(stat) /\ s.at = now
  BY <1>1, CallFields DEF Total
<1>3. call'[c] = r /\ \A d \in Caller : d # c => call'[d] = call[d]
  BY <1>1
<1> HIDE DEF s, r
<1>4. Samples' \subseteq Samples \cup {s}
  BY <1>1, <1>2, <1>3 DEF Samples
<1>5. \A x \in Samples : /\ x.at \in Nat /\ Total(x) \in Nat
                         /\ x.at <= now /\ Total(x) <= Total(s)
                         /\ now <= x.at => Total(x) = Total(s)
  BY <1>2, SamplesTypes DEF Aged
<1>6. now \in Nat /\ Total(s) \in Nat /\ Total(stat)' = Total(stat) /\ now' = now
  BY <1>1, <1>2, SamplesTypes DEF Total
<1>7. \A x, y \in Samples \cup {s} : x.at <= y.at => Total(x) <= Total(y)
  BY <1>2, <1>5, <1>6 DEF Aged
<1>8. \A x \in Samples \cup {s} :
        x.at <= now /\ Total(x) <= Total(stat) /\ (x.at = now => Total(x) = Total(stat))
  BY <1>2, <1>5, <1>6
<1>9. QED
  BY <1>4, <1>6, <1>7, <1>8 DEF Aged, Total

LEMMA SampleAged ==
  ASSUME Ordered, Aged, NEW c \in Caller, ReadClock(c) \/ Sample(c)
  PROVE  Aged'
<1>1. CASE ReadClock(c)
  <2> DEFINE x == [call[c].seen EXCEPT !.time = now]
             r == [call[c] EXCEPT !.pc = "sample", !.seen = x]
  <2>1. call[c] \in CallState /\ call[c].seen \in Seen
    BY <1>1 DEF ReadClock, At, Ordered, TypeOK, Placed
  <2>2. call[c].seen # None
    BY <2>1, SensorsAssumption
  <2>3. Alike(x, call[c].seen)
    BY <2>1 DEF Alike, Total, Seen
  <2>4. r.seen = x
    BY <2>1, CallFields
  <2>5. call' = [call EXCEPT ![c] = r] /\ UNCHANGED <<baseline, now, stat>>
    BY <1>1 DEF ReadClock
  <2> HIDE DEF x, r
  <2>6. QED
    BY <2>2, <2>3, <2>4, <2>5, CallAged
<1>2. CASE Sample(c)
  BY <1>2, AnswerAged DEF Sample, Rebase
<1>3. QED
  BY <1>1, <1>2

LEMMA StepAged == Ordered /\ Aged /\ [Next]_vars => Aged'
<1> SUFFICES ASSUME Ordered, Aged, [Next]_vars PROVE Aged'
  OBVIOUS
<1>1. CASE Tick
  BY <1>1, TickAged
<1>2. CASE (\E i \in Index : Unregister(i)) \/ (\E d \in Driver : Register(d))
  BY <1>2, DisturbedAged DEF Unregister, Register
<1>3. ASSUME NEW c \in Caller,
             \/ Invoke(c) \/ Resolve(c) \/ Scan(c) \/ Insert(c) \/ ReadAttr(c)
             \/ ReadStat(c) \/ ReadClock(c) \/ Sample(c)
      PROVE  Aged'
  BY <1>3, LookupAged, ReadStatAged, SampleAged
<1>4. CASE UNCHANGED vars
  BY <1>4 DEF vars, Aged, Samples, Total
<1>5. QED
  BY <1>1, <1>2, <1>3, <1>4 DEF Next

\* What a caller is answered after it sampled.
LEMMA SampleAnswer ==
  ASSUME Ordered, [Next]_vars, NEW c \in Caller, Answers(c), Current(c) = CpuBusy
  PROVE  /\ Sample(c)
         /\ \A value : Answer(c, value) => call'[c].got = value
<1>1. CpuBusy \notin Sensors
  BY SensorsAssumption DEF CpuBusy, NameOf
<1>2. ~(Scan(c) \/ ReadAttr(c))
  BY <1>1 DEF Scan, ReadAttr, At, Ordered, Placed, Hwmon, Current
<1>3. QED
  BY <1>2, Answering DEF Answer, Between, Ordered, TypeOK

LEMMA IntervalStep ==
  ASSUME Ordered, Aged, [Next]_vars, NEW c \in Caller, Answers(c), Current(c) = CpuBusy,
         call'[c].got # None
  PROVE  baseline # None /\ baseline.at < call[c].seen.at
<1> DEFINE s == call[c].seen
<1>1. baseline # None /\ ~(Total(s) <= Total(baseline))
  BY SampleAnswer DEF Sample
<1>2. s \in Samples /\ baseline \in Samples
  <2>1. s \in Seen
    BY SampleAnswer DEF Sample, At, Ordered, Placed
  <2>2. s # None
    BY <2>1, SensorsAssumption
  <2>3. QED
    BY <1>1, <2>2 DEF Samples
<1>3. ~(s.at <= baseline.at) /\ s.at \in Nat /\ baseline.at \in Nat
  BY <1>1, <1>2, SamplesTypes DEF Aged
<1>4. QED
  BY <1>1, <1>3

\* A load is that of an interval that ends with the caller's own sample,
\* whoever replaced the baseline in between.
THEOREM LoadsAreOfIntervals == Spec => PercentOfAnInterval
<1>1. Init => Aged
  <2> SUFFICES ASSUME Init PROVE Aged
    OBVIOUS
  <2>1. Samples = {}
    BY DEF Init, Samples, Idle, Between
  <2>2. QED
    BY <2>1 DEF Aged
<1>2. Ordered /\ Aged /\ [Next]_vars =>
        \A c \in Caller :
          Answers(c) /\ Current(c) = CpuBusy /\ call'[c].got # None =>
            baseline # None /\ baseline.at < call[c].seen.at
  BY IntervalStep
<1>3. QED
  BY <1>1, <1>2, InitOrdered, StepOrdered, StepAged, PTL DEF Spec, PercentOfAnInterval

-----------------------------------------------------------------------------
(* Pollers.  Silence lasts since the baseline was taken.                   *)

SilentSince == baseline # None => silent = baseline.time

LEMMA PollStep ==
  ASSUME Ordered, SilentSince, [Next]_vars, NEW c \in Caller, Answers(c),
         Current(c) = CpuBusy, call'[c].got = None, baseline # None,
         call[c].seen.time >= silent + MinGap
  PROVE  Total(call[c].seen) <= Total(baseline)
<1> DEFINE s == call[c].seen
<1>1. s \in Seen /\ baseline \in Seen
  BY SampleAnswer DEF Sample, At, Ordered, TypeOK, Placed
<1>2. /\ s.time \in Nat /\ baseline.time \in Nat /\ Total(s) \in Nat /\ Total(baseline) \in Nat
      /\ silent = baseline.time
  BY <1>1 DEF Seen, Total, SilentSince
<1>3. ~TooSoon(s)
  BY <1>2, BoundTypes DEF TooSoon, Minus
<1>4. Answer(c, IF Total(s) <= Total(baseline) THEN None ELSE Percent(baseline, s))
  BY <1>3, SampleAnswer DEF Sample
<1>5. ~(Total(s) <= Total(baseline)) => Percent(baseline, s) # None
  <2>1. SUFFICES ASSUME ~(Total(s) <= Total(baseline)) PROVE Percent(baseline, s) # None
    OBVIOUS
  <2>2. Percent(baseline, s) \in Load
    BY <1>1, <1>2, <2>1, PercentTypes
  <2>3. None \notin Load
    <3>1. None \notin Nat
      BY SensorsAssumption
    <3>2. Load \subseteq Nat
      BY DEF Load
    <3>3. QED
      BY <3>1, <3>2
  <2>4. QED
    BY <2>2, <2>3
<1>6. QED
  BY <1>4, <1>5, SampleAnswer

\* A caller that asks MinGap after the last load is answered, however many
\* others ask in between.
THEOREM PollersGetLoads == Spec => PollersAreAnswered
<1>1. Init => SilentSince
  BY DEF Init, SilentSince
<1>2. Ordered /\ SilentSince /\ [Next]_vars => SilentSince'
  <2> SUFFICES ASSUME Ordered, SilentSince, [Next]_vars PROVE SilentSince'
    OBVIOUS
  <2>1. CASE UNCHANGED <<baseline, silent>>
    BY <2>1 DEF SilentSince
  <2>2. ASSUME NEW c \in Caller, Sample(c) PROVE SilentSince'
    BY <2>2 DEF Sample, Rebase, SilentSince
  <2>3. QED
    BY <2>1, <2>2 DEF Next, Tick, Unregister, Register, Invoke, Resolve, Lookup, Scan,
                      Insert, ReadAttr, ReadStat, ReadClock, vars
<1>3. Ordered /\ SilentSince /\ [Next]_vars =>
        \A c \in Caller :
          /\ Answers(c) /\ Current(c) = CpuBusy /\ call'[c].got = None
          /\ baseline # None /\ call[c].seen.time >= silent + MinGap
          => Total(call[c].seen) <= Total(baseline)
  BY PollStep
<1>4. QED
  BY <1>1, <1>2, <1>3, InitOrdered, StepOrdered, PTL DEF Spec, PollersAreAnswered
=============================================================================
