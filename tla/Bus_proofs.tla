----------------------------- MODULE Bus_proofs -----------------------------
(***************************************************************************)
(* What the D-Bus service promises for any clients, methods and channel    *)
(* capacity, and any number of calls, edges and lost signals.              *)
(***************************************************************************)
EXTENDS Bus, TLAPS, SequenceTheorems

-----------------------------------------------------------------------------
(* The state.                                                              *)

LEMMA StateFields ==
  ASSUME NEW s \in State
  PROVE  /\ s.lever \in Lever /\ s.charge \in {"80", "60"} /\ s.ac \in BOOLEAN
         /\ s.pref \in BOOLEAN /\ s.dc \in Lever \cup {None}
  BY DEF State

LEMMA LeveredTypes ==
  ASSUME NEW s \in State, NEW lever \in Lever
  PROVE  Levered(s, lever) \in State
  BY DEF State, Levered

LEMMA ForcedTypes ==
  ASSUME NEW s \in State, NEW dc \in Lever \cup {None}
  PROVE  Forced(s, dc) \in State
  BY DEF State, Forced, Lever

LEMMA ReleasedTypes ==
  ASSUME NEW s \in State, s.dc # None
  PROVE  Released(s) \in State
  BY DEF State, Released

LEMMA FieldTypes ==
  ASSUME NEW s \in State, NEW b \in BOOLEAN, NEW c \in {"80", "60"}
  PROVE  /\ [s EXCEPT !.ac = b] \in State
         /\ [s EXCEPT !.pref = b] \in State
         /\ [s EXCEPT !.charge = c] \in State
  BY DEF State

LEMMA EdgeTypes ==
  ASSUME NEW s \in State
  PROVE  Edge(s) \in State
<1>1. s.lever \in Lever /\ (~s.ac) \in BOOLEAN /\ "low" \in Lever
  BY StateFields DEF Lever
<1>2. Forced(s, s.lever) \in State /\ Levered(s, "low") \in State
  BY <1>1, ForcedTypes, LeveredTypes
<1>3. s.dc # None => Released(s) \in State
  BY ReleasedTypes
<1> DEFINE after ==
      IF ~s.ac THEN IF s.pref THEN Forced(s, s.lever) ELSE s
      ELSE IF s.dc # None THEN Released(s)
      ELSE IF s.pref THEN Levered(s, "low")
      ELSE s
<1>4. after \in State
  BY <1>2, <1>3
<1>5. Edge(s) = [after EXCEPT !.ac = ~s.ac]
  BY DEF Edge
<1> HIDE DEF after
<1>6. QED
  BY <1>1, <1>4, <1>5, FieldTypes

LEMMA ToggleTypes ==
  ASSUME NEW s \in State
  PROVE  Toggle(s) \in State
<1>1. s.lever \in Lever /\ s.dc \in Lever \cup {None} /\ (~s.pref) \in BOOLEAN
  BY StateFields
<1>2. Forced(s, IF s.dc = None THEN s.lever ELSE s.dc) \in State
  BY <1>1, ForcedTypes
<1>3. s.dc # None => Released(s) \in State
  BY ReleasedTypes
<1> DEFINE after ==
      IF ~s.ac THEN s
      ELSE IF ~s.pref THEN Forced(s, IF s.dc = None THEN s.lever ELSE s.dc)
      ELSE IF s.dc # None THEN Released(s)
      ELSE s
<1>4. after \in State
  BY <1>2, <1>3
<1>5. Toggle(s) = [after EXCEPT !.pref = ~s.pref]
  BY DEF Toggle
<1> HIDE DEF after
<1>6. QED
  BY <1>1, <1>4, <1>5, FieldTypes

LEMMA ReducedTypes ==
  ASSUME state \in State, NEW r \in Request
  PROVE  Reduced(r) \in State
<1>1. Edge(state) \in State /\ Toggle(state) \in State
  BY EdgeTypes, ToggleTypes
<1>2. Levered(state, "top") \in State /\ Levered(state, "low") \in State
  BY LeveredTypes DEF Lever
<1>3. [state EXCEPT !.charge = "60"] \in State
  BY FieldTypes
<1>4. [state EXCEPT !.lever = "low", !.charge = "80"] \in State
  BY DEF State, Lever
<1>5. QED
  BY <1>1, <1>2, <1>3, <1>4 DEF Reduced

LEMMA ViewTypes ==
  ASSUME NEW s \in State
  PROVE  View(s) \in Views
<1>1. Locked(s) \in BOOLEAN
  BY StateFields DEF Locked
<1>2. QED
  BY <1>1, StateFields DEF View, Views

-----------------------------------------------------------------------------
(* The channel and the calls.                                              *)

LEMMA SendTypes ==
  ASSUME queue \in Seq(Request), NEW r \in Request, Room, queue' = Append(queue, r)
  PROVE  queue' \in Seq(Request) /\ Len(queue') <= Capacity
  BY BusAssumption DEF Room

\* What Execute does to a call or a request behind the one it reduces.
LEMMA ArgumentTypes ==
  ASSUME NEW m
  PROVE  Arguments(m) \subseteq Argument
  BY DEF Arguments, Argument

LEMMA OvertakeTypes ==
  /\ \A r \in Request : Overtake(r) \in Request
  /\ \A r \in CallState : r.pc = "auth" => Overtake(r) \in CallState
<1>1. Entered \in BOOLEAN
  BY DEF Entered
<1>2. QED
  BY <1>1 DEF Overtake, Request, CallState

LEMMA OvertakeKeeps ==
  /\ \A r \in Request :
       Overtake(r).op = r.op /\ Overtake(r).id = r.id /\ Overtake(r).arg = r.arg
  /\ \A r \in CallState : r.pc = "auth" =>
       /\ Overtake(r).pc = "auth" /\ Overtake(r).id = r.id
       /\ Overtake(r).method = r.method
  BY DEF Overtake, Request, CallState

LEMMA RestTypes ==
  ASSUME queue \in Seq(Request), queue # <<>>, Len(queue) <= Capacity,
         queue' = [i \in DOMAIN Tail(queue) |-> Overtake(Tail(queue)[i])]
  PROVE  /\ Head(queue) \in Request
         /\ queue' \in Seq(Request) /\ Len(queue') <= Capacity
         /\ Len(queue') = Len(queue) - 1
         /\ \A i \in 1..Len(queue') : queue'[i] = Overtake(queue[i + 1])
<1> DEFINE rest == Tail(queue)
<1>1. /\ Head(queue) \in Request /\ rest \in Seq(Request) /\ Len(queue) \in Nat
      /\ Len(rest) = Len(queue) - 1
      /\ \A i \in 1..Len(rest) : rest[i] = queue[i + 1]
  OBVIOUS
<1>2. DOMAIN rest = 1..Len(rest) /\ Len(rest) \in Nat
  BY <1>1, LenProperties
<1>3. \A i \in 1..Len(rest) : Overtake(rest[i]) \in Request
  BY <1>1, ElementOfSeq, OvertakeTypes
<1>4. queue' \in [1..Len(rest) -> Request]
  BY <1>2, <1>3
<1>5. queue' \in Seq(Request) /\ Len(queue') = Len(rest)
  BY <1>2, <1>4, SeqDef, LenProperties
<1>6. \A i \in 1..Len(rest) : queue'[i] = Overtake(queue[i + 1])
  BY <1>1, <1>2
<1>7. QED
  BY <1>1, <1>5, <1>6, BusAssumption

LEMMA CallFields ==
  ASSUME call \in [Client -> CallState], NEW c \in Client, call[c].pc = "auth"
  PROVE  /\ call[c] = [pc |-> "auth", id |-> call[c].id, method |-> call[c].method,
                       arg |-> call[c].arg, asking |-> call[c].asking,
                       overtaken |-> call[c].overtaken]
         /\ call[c].id \in Nat /\ call[c].method \in Method /\ call[c].arg \in Argument
         /\ call[c].asking \in Seq(PolkitAction) /\ call[c].overtaken \in BOOLEAN
  BY DEF CallState

LEMMA AskingTypes ==
  ASSUME NEW r \in CallState, r.pc = "auth", NEW q \in Seq(PolkitAction)
  PROVE  [r EXCEPT !.asking = q] \in CallState
  BY DEF CallState

LEMMA NeedsTypes ==
  ASSUME NEW m \in Method
  PROVE  Needs(m) \in Seq(PolkitAction)
<1>1. {<<"SetTdp">>, <<"SetCharge">>, <<"SetProfile">>,
       <<"SetTdp", "SetCharge", "SetProfile">>} \subseteq Seq(PolkitAction)
  BY DEF PolkitAction
<1>2. QED
  BY <1>1 DEF Needs

LEMMA AnswerTypes ==
  ASSUME TypeOK, NEW c \in Client, NEW id \in Nat, NEW status, Answer(c, id, status)
  PROVE  /\ call' \in [Client -> CallState]
         /\ history' \in History
  BY DEF TypeOK, Answer, CallState, Idle, History

-----------------------------------------------------------------------------
(* Types.                                                                  *)

LEMMA InvokeTypes ==
  ASSUME TypeOK, NEW c \in Client, NEW m \in Setters, NEW arg \in Arguments(m),
         Invoke(c, m, arg)
  PROVE  TypeOK'
<1> DEFINE id == spent.calls
           asked == [pc |-> "auth", id |-> id, method |-> m, arg |-> arg,
                     asking |-> Needs(m), overtaken |-> FALSE]
<1>1. id \in Nat /\ spent' \in Spent
  BY DEF Invoke, Spend, TypeOK, Spent
<1>2. asked \in CallState
  <2>1. m \in Method /\ Needs(m) \in Seq(PolkitAction) /\ arg \in Argument
    BY BusAssumption, NeedsTypes, ArgumentTypes
  <2>2. QED
    BY <1>1, <2>1 DEF CallState
<1>3. /\ call' \in [Client -> CallState]
      /\ history' \in History
  <2>1. CASE call' = [call EXCEPT ![c] = asked] /\ UNCHANGED history
    BY <1>2, <2>1 DEF TypeOK
  <2>2. CASE \E status : Answer(c, id, status)
    BY <1>1, <2>2, AnswerTypes
  <2>3. QED
    BY <2>1, <2>2 DEF Invoke
<1>4. QED
  BY <1>1, <1>3 DEF Invoke, TypeOK, emitterVars

LEMMA AuthorizeTypes ==
  ASSUME TypeOK, NEW c \in Client, Authorize(c)
  PROVE  TypeOK'
<1>1. call[c].pc = "auth" /\ call[c].asking # <<>> /\ call \in [Client -> CallState]
  BY DEF Authorize, Authorizing, TypeOK
<1>2. /\ call' \in [Client -> CallState]
      /\ history' \in History
  <2>1. CASE call' = [call EXCEPT ![c].asking = Tail(@)] /\ UNCHANGED history
    <3>1. Tail(call[c].asking) \in Seq(PolkitAction)
      BY <1>1, CallFields
    <3>2. [call[c] EXCEPT !.asking = Tail(call[c].asking)] \in CallState
      BY <1>1, <3>1, AskingTypes
    <3>3. QED
      BY <1>1, <2>1, <3>2 DEF TypeOK
  <2>2. CASE Answer(c, call[c].id, "denied")
    BY <1>1, <2>2, AnswerTypes, CallFields
  <2>3. QED
    BY <2>1, <2>2 DEF Authorize
<1>3. QED
  BY <1>2 DEF Authorize, TypeOK, emitterVars

LEMMA SendRequestTypes ==
  ASSUME TypeOK, NEW c \in Client, SendRequest(c)
  PROVE  TypeOK'
<1>1. call[c].pc = "auth" /\ call \in [Client -> CallState]
  BY DEF SendRequest, TypeOK
<1>2. CASE (\E status : Answer(c, call[c].id, status)) /\ UNCHANGED queue
  BY <1>1, <1>2, AnswerTypes, CallFields
     DEF SendRequest, TypeOK, emitterVars
<1>3. CASE /\ Room
           /\ queue' = Append(queue, RequestOf(call[c]))
           /\ call' = [call EXCEPT ![c] = Idle]
           /\ history' = [history EXCEPT !.sent = @ \cup {call[c].id}]
  <2>1. RequestOf(call[c]) \in Request
    BY <1>1, CallFields DEF Request, RequestOf
  <2>2. queue' \in Seq(Request) /\ Len(queue') <= Capacity
    BY <1>3, <2>1, SendTypes DEF TypeOK
  <2>3. call' \in [Client -> CallState]
    BY <1>1, <1>3 DEF CallState, Idle
  <2>4. history' \in History
    BY <1>1, <1>3, CallFields DEF TypeOK, History
  <2>5. QED
    BY <2>2, <2>3, <2>4 DEF SendRequest, TypeOK, emitterVars
<1>4. QED
  BY <1>2, <1>3 DEF SendRequest

LEMMA ExecuteTypes ==
  ASSUME TypeOK, Execute
  PROVE  TypeOK'
<1> DEFINE r == Head(queue)
<1>1. /\ r \in Request /\ queue' \in Seq(Request) /\ Len(queue') <= Capacity
  BY RestTypes DEF Execute, TypeOK
<1>2. state' \in State /\ fresh' \in BOOLEAN
  BY <1>1, ReducedTypes DEF Execute, TypeOK
<1>3. call' \in [Client -> CallState]
  BY OvertakeTypes DEF Execute, TypeOK
<1>4. history' \in History
  <2>1. r.id \in Id
    BY <1>1 DEF Request, Id
  <2>2. (Signalling /\ state' # state) \in BOOLEAN
    OBVIOUS
  <2>3. QED
    BY <1>1, <2>1, <2>2 DEF Execute, TypeOK, History
<1>5. QED
  BY <1>1, <1>2, <1>3, <1>4 DEF Execute, TypeOK, Views

LEMMA SignalTypes ==
  ASSUME TypeOK, Signal
  PROVE  TypeOK'
<1> DEFINE p == Property[emitter.next]
<1>1. Len(Property) = 5 /\ emitter.next \in 1..5
  BY DEF Signal, TypeOK, Property, EmitterState
<1>2. p \in {"lever", "charge", "ac", "locked", "pref"}
  BY <1>1 DEF Property
<1>3. emitter' \in EmitterState
  BY <1>1 DEF Signal, TypeOK, EmitterState
<1>4. [mirror EXCEPT ![p] = View(state)[p]] \in Views
  BY <1>2, ViewTypes DEF TypeOK, Views
<1>5. mirror' \in Views /\ spent' \in Spent
  BY <1>4 DEF Signal, TypeOK, Spend, Spent
<1>6. QED
  BY <1>3, <1>5 DEF Signal, TypeOK, callVars

LEMMA EmitterTypes ==
  ASSUME TypeOK, Wake \/ Signalled
  PROVE  TypeOK'
<1>1. View(state) \in Views /\ Len(Property) = 5
  BY ViewTypes DEF TypeOK, Property
<1>2. CASE Wake
  <2>1. 1 \in 1..(Len(Property) + 1)
    BY <1>1
  <2>2. emitter' \in EmitterState
    BY <1>1, <1>2, <2>1 DEF Wake, TypeOK, EmitterState
  <2>3. QED
    BY <1>2, <2>2 DEF Wake, TypeOK, callVars
<1>3. CASE Signalled
  <2>1. emitter' \in EmitterState
    BY <1>3 DEF Signalled, TypeOK, EmitterState
  <2>2. QED
    BY <1>3, <2>1 DEF Signalled, TypeOK, callVars
<1>4. QED
  BY <1>2, <1>3

LEMMA SurroundingsTypes ==
  ASSUME TypeOK, Stop \/ ChargerEdge \/ LimitsChange
  PROVE  TypeOK'
<1>1. CASE Stop
  <2>1. <<>> \in Seq(Request) /\ Len(<<>>) <= Capacity
    BY BusAssumption
  <2>2. Waiting \subseteq Id
    <3>1. queue \in Seq(Request) /\ \A i \in 1..Len(queue) : queue[i] \in Request
      BY ElementOfSeq DEF TypeOK
    <3>2. QED
      BY <3>1 DEF Waiting, Request, Id
  <2>3. history' \in History
    BY <1>1, <2>2 DEF Stop, TypeOK, History
  <2>4. QED
    BY <1>1, <2>1, <2>3 DEF Stop, TypeOK, callVars
<1>2. CASE ChargerEdge
  <2>1. [op |-> "edge", id |-> None, arg |-> "fits", overtaken |-> FALSE] \in Request
    BY DEF Request, Argument
  <2>2. queue' \in Seq(Request) /\ Len(queue') <= Capacity
    BY <1>2, <2>1, SendTypes DEF ChargerEdge, TypeOK
  <2>3. spent' \in Spent
    BY <1>2 DEF ChargerEdge, Spend, TypeOK, Spent
  <2>4. QED
    BY <1>2, <2>2, <2>3 DEF ChargerEdge, TypeOK, callVars, emitterVars
<1>3. CASE LimitsChange
  <2>1. spent' \in Spent
    BY <1>3 DEF LimitsChange, Spend, TypeOK, Spent
  <2>2. QED
    BY <1>3, <2>1
       DEF LimitsChange, TypeOK, callVars, emitterVars
<1>4. QED
  BY <1>1, <1>2, <1>3

LEMMA InitTypes ==
  ASSUME Init
  PROVE  TypeOK
<1>1. Boot \in State /\ [Boot EXCEPT !.ac = TRUE] \in State
  BY DEF Boot, State, Lever
<1>2. state \in State
  BY <1>1, ForcedTypes DEF Init
<1>3. View(state) \in Views /\ Len(Property) = 5
  BY <1>2, ViewTypes DEF Property
<1>4. <<>> \in Seq(Request) /\ Len(<<>>) <= Capacity
  BY BusAssumption
<1>5. call \in [Client -> CallState]
  BY DEF Init, CallState, Idle
<1>6. emitter \in EmitterState
  BY <1>3 DEF Init, EmitterState
<1>7. spent \in Spent /\ history \in History
  BY DEF Init, Spent, History
<1>8. QED
  BY <1>2, <1>3, <1>4, <1>5, <1>6, <1>7 DEF Init, TypeOK

LEMMA StutterTypes ==
  ASSUME TypeOK, UNCHANGED vars
  PROVE  TypeOK'
  BY DEF TypeOK, vars, callVars, emitterVars

\* Types, channel bound included, for every capacity and mix of methods.
THEOREM BusTypes == Spec => []TypeOK
<1>1. Init => TypeOK
  BY InitTypes
<1>2. TypeOK /\ [Next]_vars => TypeOK'
  <2> SUFFICES ASSUME TypeOK, [Next]_vars PROVE TypeOK'
    OBVIOUS
  <2>1. ASSUME NEW c \in Client, NEW m \in Setters, NEW arg \in Arguments(m), Invoke(c, m, arg)
        PROVE  TypeOK'
    BY <2>1, InvokeTypes
  <2>2. ASSUME NEW c \in Client, Authorize(c) PROVE TypeOK'
    BY <2>2, AuthorizeTypes
  <2>3. ASSUME NEW c \in Client, SendRequest(c) PROVE TypeOK'
    BY <2>3, SendRequestTypes
  <2>4. CASE Execute
    BY <2>4, ExecuteTypes
  <2>5. CASE Stop \/ ChargerEdge \/ LimitsChange
    BY <2>5, SurroundingsTypes
  <2>6. CASE Wake \/ Signalled
    BY <2>6, EmitterTypes
  <2>7. CASE Signal
    BY <2>7, SignalTypes
  <2>8. CASE UNCHANGED vars
    BY <2>8, StutterTypes
  <2>9. QED
    BY <2>1, <2>2, <2>3, <2>4, <2>5, <2>6, <2>7, <2>8 DEF Next
<1>3. QED
  BY <1>1, <1>2, PTL DEF Spec

-----------------------------------------------------------------------------
(* Answers.  Calls are numbered, so that an answered number is below the   *)
(* counter and belongs to no call that is still under way.                 *)

Pending(c) == call[c].pc = "auth"

Answered == history.refused \cup history.sent

Numbered ==
  /\ \A id \in Answered : id < spent.calls
  /\ \A c \in Client : Pending(c) => call[c].id < spent.calls /\ call[c].id \notin Answered
  /\ \A c, d \in Client : Pending(c) /\ Pending(d) /\ c # d => call[c].id # call[d].id
  /\ ErrorMeansUntouched

LEMMA AnswerNumbered ==
  ASSUME TypeOK, Numbered, NEW c \in Client, NEW status, UNCHANGED spent.calls,
         Pending(c), Answer(c, call[c].id, status)
  PROVE  Numbered'
<1>1. /\ history'.sent = history.sent
      /\ history'.refused \in {history.refused, history.refused \cup {call[c].id}}
  BY DEF Answer, TypeOK, History
<1>2. \A d \in Client : Pending(d)' => d # c /\ Pending(d) /\ call'[d] = call[d]
  BY DEF Answer, Pending, Idle, TypeOK
<1>3. QED
  BY <1>1, <1>2 DEF Numbered, Answered, ErrorMeansUntouched

LEMMA InvokeNumbered ==
  ASSUME TypeOK, Numbered, NEW c \in Client, NEW m \in Setters, NEW arg \in Arguments(m),
         Invoke(c, m, arg)
  PROVE  Numbered'
<1>1. spent.calls \in Nat /\ spent'.calls = spent.calls + 1 /\ ~Pending(c)
  BY DEF Invoke, Spend, TypeOK, Spent, Pending
<1>2. \A id \in Answered : id \in Nat
  BY DEF TypeOK, History, Answered
<1>3. \A d \in Client : Pending(d) => call[d].id \in Nat
  BY CallFields DEF TypeOK, Pending
<1>4. CASE \E status : Answer(c, spent.calls, status)
  <2>1. /\ history'.sent = history.sent
        /\ history'.refused \in {history.refused, history.refused \cup {spent.calls}}
    BY <1>4 DEF Answer, TypeOK, History
  <2>2. \A d \in Client : Pending(d)' => Pending(d) /\ call'[d] = call[d]
    BY <1>4 DEF Answer, Pending, Idle, TypeOK
  <2>3. QED
    BY <1>1, <1>2, <1>3, <2>1, <2>2 DEF Numbered, Answered, ErrorMeansUntouched
<1>5. CASE /\ call' = [call EXCEPT ![c] =
                         [pc |-> "auth", id |-> spent.calls, method |-> m, arg |-> arg,
                          asking |-> Needs(m), overtaken |-> FALSE]]
           /\ UNCHANGED history
  <2>1. call'[c].id = spent.calls /\ \A d \in Client : d # c => call'[d] = call[d]
    BY <1>5 DEF TypeOK
  <2>2. \A d \in Client : d # c /\ Pending(d)' => Pending(d)
    BY <2>1 DEF Pending
  <2>3. QED
    BY <1>1, <1>2, <1>3, <1>5, <2>1, <2>2 DEF Numbered, Answered, ErrorMeansUntouched
<1>6. QED
  BY <1>4, <1>5 DEF Invoke

LEMMA AuthorizeNumbered ==
  ASSUME TypeOK, Numbered, NEW c \in Client, Authorize(c)
  PROVE  Numbered'
<1>1. Pending(c) /\ UNCHANGED spent.calls
  BY DEF Authorize, Authorizing, Pending
<1>2. CASE call' = [call EXCEPT ![c].asking = Tail(@)] /\ UNCHANGED history
  <2>1. \A d \in Client : call'[d].pc = call[d].pc /\ (Pending(d) => call'[d].id = call[d].id)
    <3>1. call'[c] = [call[c] EXCEPT !.asking = Tail(@)]
      BY <1>2 DEF TypeOK
    <3>2. call'[c].pc = call[c].pc /\ call'[c].id = call[c].id
      BY <1>1, <3>1, CallFields DEF Pending, TypeOK
    <3>3. QED
      BY <1>2, <3>2 DEF TypeOK
  <2>2. QED
    BY <1>1, <1>2, <2>1 DEF Numbered, Answered, ErrorMeansUntouched, Pending
<1>3. CASE Answer(c, call[c].id, "denied")
  BY <1>1, <1>3, AnswerNumbered
<1>4. QED
  BY <1>2, <1>3 DEF Authorize

LEMMA SendRequestNumbered ==
  ASSUME TypeOK, Numbered, NEW c \in Client, SendRequest(c)
  PROVE  Numbered'
<1>1. Pending(c) /\ UNCHANGED spent.calls
  BY DEF SendRequest, Pending
<1>2. CASE \E status : Answer(c, call[c].id, status)
  BY <1>1, <1>2, AnswerNumbered
<1>3. CASE /\ call' = [call EXCEPT ![c] = Idle]
           /\ history' = [history EXCEPT !.sent = @ \cup {call[c].id}]
  <2>1. history'.sent = history.sent \cup {call[c].id} /\ history'.refused = history.refused
    BY <1>3 DEF TypeOK, History
  <2>2. \A d \in Client : Pending(d)' => d # c /\ Pending(d) /\ call'[d] = call[d]
    BY <1>3 DEF Pending, Idle, TypeOK
  <2>3. QED
    BY <1>1, <2>1, <2>2 DEF Numbered, Answered, ErrorMeansUntouched
<1>4. QED
  BY <1>2, <1>3 DEF SendRequest

LEMMA ExecuteNumbered ==
  ASSUME TypeOK, Numbered, Execute
  PROVE  Numbered'
<1>1. history'.sent = history.sent /\ history'.refused = history.refused
  BY DEF Execute, TypeOK, History
<1>2. \A d \in Client : call'[d].pc = call[d].pc /\ (Pending(d) => call'[d].id = call[d].id)
  BY OvertakeKeeps DEF Execute, TypeOK, Pending
<1>3. UNCHANGED spent.calls
  BY DEF Execute
<1>4. QED
  BY <1>1, <1>2, <1>3 DEF Numbered, Answered, ErrorMeansUntouched, Pending

LEMMA FrameNumbered ==
  ASSUME TypeOK, Numbered, UNCHANGED <<call, spent.calls>>,
         history'.sent = history.sent, history'.refused = history.refused
  PROVE  Numbered'
  BY DEF Numbered, Answered, ErrorMeansUntouched, Pending

\* A call that was answered with an error has changed nothing, however many
\* calls, questions and denials there are.
THEOREM ErrorsUntouch == Spec => []ErrorMeansUntouched
<1>1. Init => Numbered
  BY DEF Init, Numbered, Answered, ErrorMeansUntouched, Pending, Idle
<1>2. TypeOK /\ Numbered /\ [Next]_vars => Numbered'
  <2> SUFFICES ASSUME TypeOK, Numbered, [Next]_vars PROVE Numbered'
    OBVIOUS
  <2>1. ASSUME NEW c \in Client, NEW m \in Setters, NEW arg \in Arguments(m), Invoke(c, m, arg)
        PROVE  Numbered'
    BY <2>1, InvokeNumbered
  <2>2. ASSUME NEW c \in Client, Authorize(c) PROVE Numbered'
    BY <2>2, AuthorizeNumbered
  <2>3. ASSUME NEW c \in Client, SendRequest(c) PROVE Numbered'
    BY <2>3, SendRequestNumbered
  <2>4. CASE Execute
    BY <2>4, ExecuteNumbered
  <2>5. CASE Stop \/ ChargerEdge \/ LimitsChange
    <3>1. /\ UNCHANGED <<call, spent.calls>>
          /\ history'.sent = history.sent /\ history'.refused = history.refused
      BY <2>5 DEF Stop, ChargerEdge, LimitsChange, Spend, TypeOK, Spent, History, callVars
    <3>2. QED
      BY <3>1, FrameNumbered
  <2>6. CASE Wake \/ Signal \/ Signalled
    BY <2>6, FrameNumbered DEF Wake, Signal, Signalled, Spend, TypeOK, Spent, callVars
  <2>7. CASE UNCHANGED vars
    BY <2>7, FrameNumbered DEF vars, callVars
  <2>8. QED
    BY <2>1, <2>2, <2>3, <2>4, <2>5, <2>6, <2>7 DEF Next
<1>3. Numbered => ErrorMeansUntouched
  BY DEF Numbered
<1>4. QED
  BY <1>1, <1>2, <1>3, BusTypes, PTL DEF Spec

-----------------------------------------------------------------------------
(* The lock.  A request that was not overtaken has been checked against a  *)
(* state that has stayed unlocked.                                         *)

Checked(method, overtaken) == method \in LockGated /\ ~overtaken => ~Locked(state)

DropsExcused == \A r \in history.dropped : r.overtaken \/ OutsideLimits(r)

LockChecked ==
  /\ \A i \in 1..Len(queue) : Checked(queue[i].op, queue[i].overtaken)
  /\ \A c \in Client : Pending(c) => Checked(call[c].method, call[c].overtaken)
  /\ DropsExcused

LEMMA AnswerChecked ==
  ASSUME TypeOK, LockChecked, NEW c \in Client, NEW id, NEW status,
         Answer(c, id, status), UNCHANGED <<state, narrowed, queue>>
  PROVE  LockChecked'
<1>1. history'.dropped = history.dropped
  BY DEF Answer, TypeOK, History
<1>2. \A d \in Client : Pending(d)' => Pending(d) /\ call'[d] = call[d]
  BY DEF Answer, Pending, Idle, TypeOK
<1>3. QED
  BY <1>1, <1>2 DEF LockChecked, Checked, DropsExcused, OutsideLimits, Locked

LEMMA InvokeChecked ==
  ASSUME TypeOK, LockChecked, NEW c \in Client, NEW m \in Setters, NEW arg \in Arguments(m),
         Invoke(c, m, arg)
  PROVE  LockChecked'
<1>1. UNCHANGED <<state, narrowed, queue>>
  BY DEF Invoke
<1>2. CASE \E status : Answer(c, spent.calls, status)
  BY <1>1, <1>2, AnswerChecked
<1>3. CASE /\ ~(m \in LockGated /\ Locked(state))
           /\ call' = [call EXCEPT ![c] =
                         [pc |-> "auth", id |-> spent.calls, method |-> m, arg |-> arg,
                          asking |-> Needs(m), overtaken |-> FALSE]]
           /\ UNCHANGED history
  <2>1. call'[c].method = m /\ \A d \in Client : d # c => call'[d] = call[d]
    BY <1>3 DEF TypeOK
  <2>2. \A d \in Client : d # c /\ Pending(d)' => Pending(d)
    BY <2>1 DEF Pending
  <2>3. QED
    BY <1>1, <1>3, <2>1, <2>2 DEF LockChecked, Checked, DropsExcused, OutsideLimits, Locked
<1>4. QED
  BY <1>2, <1>3 DEF Invoke

LEMMA AuthorizeChecked ==
  ASSUME TypeOK, LockChecked, NEW c \in Client, Authorize(c)
  PROVE  LockChecked'
<1>1. Pending(c) /\ UNCHANGED <<state, narrowed, queue>>
  BY DEF Authorize, Authorizing, Pending
<1>2. CASE call' = [call EXCEPT ![c].asking = Tail(@)] /\ UNCHANGED history
  <2>1. call'[c] = [call[c] EXCEPT !.asking = Tail(@)]
    BY <1>2 DEF TypeOK
  <2>2. call'[c].method = call[c].method /\ call'[c].overtaken = call[c].overtaken
    BY <1>1, <2>1, CallFields DEF Pending, TypeOK
  <2>3. \A d \in Client : d # c => call'[d] = call[d]
    BY <1>2 DEF TypeOK
  <2>4. QED
    BY <1>1, <1>2, <2>2, <2>3
       DEF LockChecked, Checked, DropsExcused, OutsideLimits, Locked, Pending
<1>3. CASE Answer(c, call[c].id, "denied")
  BY <1>1, <1>3, AnswerChecked
<1>4. QED
  BY <1>2, <1>3 DEF Authorize

LEMMA AppendChecked ==
  ASSUME TypeOK, NEW r \in Request, queue' = Append(queue, r),
         \A i \in 1..Len(queue) : Checked(queue[i].op, queue[i].overtaken),
         Checked(r.op, r.overtaken)
  PROVE  \A i \in 1..Len(queue') : Checked(queue'[i].op, queue'[i].overtaken)
<1>1. queue \in Seq(Request)
  BY DEF TypeOK
<1>2. /\ Len(queue) \in Nat /\ Len(queue') = Len(queue) + 1
      /\ queue'[Len(queue) + 1] = r
      /\ \A i \in 1..Len(queue) : queue'[i] = queue[i]
  BY <1>1
<1>3. QED
  BY <1>2

LEMMA SendRequestChecked ==
  ASSUME TypeOK, LockChecked, NEW c \in Client, SendRequest(c)
  PROVE  LockChecked'
<1>1. Pending(c) /\ UNCHANGED <<state, narrowed>>
  BY DEF SendRequest, Pending
<1>2. CASE (\E status : Answer(c, call[c].id, status)) /\ UNCHANGED queue
  BY <1>1, <1>2, AnswerChecked
<1>3. CASE /\ queue' = Append(queue, RequestOf(call[c]))
           /\ call' = [call EXCEPT ![c] = Idle]
           /\ history' = [history EXCEPT !.sent = @ \cup {call[c].id}]
  <2> DEFINE r == RequestOf(call[c])
  <2>1. r \in Request /\ Checked(r.op, r.overtaken)
    BY <1>1, CallFields DEF Request, RequestOf, LockChecked, Pending, TypeOK
  <2>2. \A i \in 1..Len(queue') : Checked(queue'[i].op, queue'[i].overtaken)
    BY <1>3, <2>1, AppendChecked DEF LockChecked
  <2>3. history'.dropped = history.dropped
    BY <1>3 DEF TypeOK, History
  <2>4. \A d \in Client : Pending(d)' => Pending(d) /\ call'[d] = call[d]
    BY <1>3 DEF Pending, Idle, TypeOK
  <2>5. QED
    BY <1>1, <2>2, <2>3, <2>4 DEF LockChecked, Checked, DropsExcused, OutsideLimits, Locked
<1>4. QED
  BY <1>2, <1>3 DEF SendRequest

\* A request or a call that Execute leaves waiting either was overtaken by the
\* entry of the lock, or the state stays unlocked.
LEMMA OvertakeChecked ==
  /\ \A r \in Request :
       Checked(r.op, r.overtaken) =>
         (r.op \in LockGated /\ ~Overtake(r).overtaken => ~Locked(state'))
  /\ \A r \in CallState :
       r.pc = "auth" /\ Checked(r.method, r.overtaken) =>
         (r.method \in LockGated /\ ~Overtake(r).overtaken => ~Locked(state'))
<1>1. \A r \in Request : r.overtaken \in BOOLEAN /\ Overtake(r).overtaken = (r.overtaken \/ Entered)
  BY DEF Overtake, Request
<1>2. \A r \in CallState : r.pc = "auth" =>
        r.overtaken \in BOOLEAN /\ Overtake(r).overtaken = (r.overtaken \/ Entered)
  BY DEF Overtake, CallState
<1>3. QED
  BY <1>1, <1>2 DEF Checked, Entered

LEMMA FrameChecked ==
  ASSUME TypeOK, LockChecked, UNCHANGED <<state, call, queue, history>>,
         narrowed => narrowed'
  PROVE  LockChecked'
  BY DEF LockChecked, Checked, DropsExcused, OutsideLimits, Locked, Pending

LEMMA StopChecked ==
  ASSUME TypeOK, LockChecked, Stop
  PROVE  LockChecked'
<1>1. /\ queue' = <<>> /\ UNCHANGED <<state, narrowed, call>>
      /\ history'.dropped = history.dropped
  BY DEF Stop, callVars, TypeOK, History
<1>2. 1..Len(queue') = {}
  BY <1>1
<1>3. QED
  BY <1>1, <1>2 DEF LockChecked, Checked, DropsExcused, OutsideLimits, Locked, Pending

LEMMA ChargerEdgeChecked ==
  ASSUME TypeOK, LockChecked, ChargerEdge
  PROVE  LockChecked'
<1> DEFINE r == [op |-> "edge", id |-> None, arg |-> "fits", overtaken |-> FALSE]
<1>1. /\ queue' = Append(queue, r)
      /\ UNCHANGED <<state, narrowed, call, history>>
  BY DEF ChargerEdge, callVars
<1>2. r \in Request /\ Checked(r.op, r.overtaken)
  BY DEF Request, Argument, Checked, LockGated
<1>3. \A i \in 1..Len(queue') : Checked(queue'[i].op, queue'[i].overtaken)
  BY <1>1, <1>2, AppendChecked DEF LockChecked
<1>4. QED
  BY <1>1, <1>3 DEF LockChecked, Checked, DropsExcused, OutsideLimits, Locked, Pending

LEMMA ExecuteChecked ==
  ASSUME TypeOK, LockChecked, Execute
  PROVE  LockChecked'
<1>1. /\ queue \in Seq(Request) /\ queue # <<>>
      /\ Head(queue) \in Request /\ Head(queue) = queue[1] /\ 1 \in 1..Len(queue)
  BY DEF Execute, TypeOK
<1>2. \A i \in 1..Len(queue') :
        /\ Checked(queue[i + 1].op, queue[i + 1].overtaken) /\ queue[i + 1] \in Request
        /\ queue'[i] = Overtake(queue[i + 1])
  <2>1. /\ Len(queue') = Len(queue) - 1
        /\ \A i \in 1..Len(queue') : queue'[i] = Overtake(queue[i + 1])
    BY <1>1, RestTypes DEF Execute, TypeOK
  <2>2. Len(queue) \in Nat /\ \A i \in 1..Len(queue') : i + 1 \in 1..Len(queue)
    BY <1>1, <2>1
  <2>3. \A j \in 1..Len(queue) : queue[j] \in Request
    BY <1>1, ElementOfSeq
  <2>4. QED
    BY <2>1, <2>2, <2>3 DEF LockChecked
<1>3. \A i \in 1..Len(queue') :
        queue'[i].op \in LockGated /\ ~queue'[i].overtaken => ~Locked(state')
  BY <1>2, OvertakeKeeps, OvertakeChecked
<1>4. \A c \in Client : Pending(c)' =>
        (call'[c].method \in LockGated /\ ~call'[c].overtaken => ~Locked(state'))
  <2>1. SUFFICES ASSUME NEW c \in Client, Pending(c)'
                 PROVE  call'[c].method \in LockGated /\ ~call'[c].overtaken => ~Locked(state')
    OBVIOUS
  <2>2. call'[c] = IF call[c].pc = "auth" THEN Overtake(call[c]) ELSE call[c]
    BY DEF Execute
  <2>3. Pending(c) /\ call[c] \in CallState /\ call'[c] = Overtake(call[c])
    BY <2>1, <2>2 DEF Pending, TypeOK
  <2>4. Checked(call[c].method, call[c].overtaken) /\ call[c].pc = "auth"
    BY <2>3 DEF LockChecked, Pending
  <2>5. QED
    BY <2>3, <2>4, OvertakeKeeps, OvertakeChecked
<1>5. DropsExcused'
  <2> DEFINE r == Head(queue)
  <2>1. /\ history'.dropped = history.dropped
           \/ /\ Rejected(r) \/ Ignored(r)
              /\ history'.dropped = history.dropped \cup {r}
        /\ UNCHANGED narrowed
    BY DEF Execute, TypeOK, History
  <2>2. Ignored(r) => r.overtaken
    BY <1>1 DEF LockChecked, Checked, Ignored, Request
  <2>3. Rejected(r) => OutsideLimits(r)
    BY DEF Rejected
  <2>4. QED
    BY <2>1, <2>2, <2>3 DEF LockChecked, DropsExcused, OutsideLimits
<1>6. QED
  BY <1>3, <1>4, <1>5 DEF LockChecked, Checked, Locked

\* What the reducer drops was overtaken by the lock or is outside the limits.
LEMMA DropsAreExcused == Spec => []DropsExcused
<1>1. Init => LockChecked
  <2> SUFFICES ASSUME Init PROVE LockChecked
    OBVIOUS
  <2>1. 1..Len(queue) = {}
    BY DEF Init
  <2>2. QED
    BY <2>1 DEF Init, LockChecked, DropsExcused, Pending, Idle
<1>2. TypeOK /\ LockChecked /\ [Next]_vars => LockChecked'
  <2> SUFFICES ASSUME TypeOK, LockChecked, [Next]_vars PROVE LockChecked'
    OBVIOUS
  <2>1. ASSUME NEW c \in Client, NEW m \in Setters, NEW arg \in Arguments(m), Invoke(c, m, arg)
        PROVE  LockChecked'
    BY <2>1, InvokeChecked
  <2>2. ASSUME NEW c \in Client, Authorize(c) PROVE LockChecked'
    BY <2>2, AuthorizeChecked
  <2>3. ASSUME NEW c \in Client, SendRequest(c) PROVE LockChecked'
    BY <2>3, SendRequestChecked
  <2>4. CASE Execute
    BY <2>4, ExecuteChecked
  <2>5. CASE Stop
    BY <2>5, StopChecked
  <2>6. CASE ChargerEdge
    BY <2>6, ChargerEdgeChecked
  <2>7. CASE LimitsChange
    BY <2>7, FrameChecked DEF LimitsChange, callVars
  <2>8. CASE Wake \/ Signal \/ Signalled
    BY <2>8, FrameChecked DEF Wake, Signal, Signalled, callVars
  <2>9. CASE UNCHANGED vars
    BY <2>9, FrameChecked DEF vars, callVars
  <2>10. QED
    BY <2>1, <2>2, <2>3, <2>4, <2>5, <2>6, <2>7, <2>8, <2>9 DEF Next
<1>3. LockChecked => DropsExcused
  BY DEF LockChecked
<1>4. QED
  BY <1>1, <1>2, <1>3, BusTypes, PTL DEF Spec

-----------------------------------------------------------------------------
(* The account of the answered writes.                                     *)

DroppedIds == {r.id : r \in history.dropped}

Accounted ==
  /\ history.sent \subseteq history.reduced \cup Waiting \cup history.discarded \cup DroppedIds
  /\ history.discarded # {} => ~alive

LEMMA AppendWaiting ==
  ASSUME TypeOK, NEW r \in Request, queue' = Append(queue, r)
  PROVE  Waiting' = Waiting \cup {r.id}
<1>1. queue \in Seq(Request)
  BY DEF TypeOK
<1>2. /\ Len(queue) \in Nat /\ Len(queue') = Len(queue) + 1
      /\ queue'[Len(queue) + 1] = r
      /\ \A i \in 1..Len(queue) : queue'[i] = queue[i]
  BY <1>1
<1>3. 1..Len(queue') = 1..Len(queue) \cup {Len(queue) + 1}
  BY <1>2
<1>4. QED
  BY <1>2, <1>3 DEF Waiting

LEMMA FrameAccounted ==
  ASSUME Accounted, UNCHANGED <<queue, alive>>, history'.sent = history.sent,
         history'.reduced = history.reduced, history'.dropped = history.dropped,
         history'.discarded = history.discarded
  PROVE  Accounted'
  BY DEF Accounted, Waiting, DroppedIds

LEMMA CallAccounted ==
  ASSUME TypeOK, Accounted, NEW c \in Client,
         Authorize(c) \/ SendRequest(c)
           \/ \E m \in Setters : \E arg \in Arguments(m) : Invoke(c, m, arg)
  PROVE  Accounted'
<1>1. CASE UNCHANGED queue
  <2>1. /\ UNCHANGED alive /\ history'.sent = history.sent
        /\ history'.reduced = history.reduced /\ history'.dropped = history.dropped
        /\ history'.discarded = history.discarded
    <3>1. SendRequest(c) => \E status : Answer(c, call[c].id, status)
      <4>1. queue \in Seq(Request) /\ Len(queue) \in Nat
        BY DEF TypeOK
      <4>2. Len(Append(queue, RequestOf(call[c]))) = Len(queue) + 1
        BY <4>1
      <4>3. queue # Append(queue, RequestOf(call[c]))
        BY <4>1, <4>2
      <4>4. SendRequest(c) => Answer(c, call[c].id, "invalid")
                                \/ Answer(c, call[c].id, "executor down")
        BY <1>1, <4>3 DEF SendRequest
      <4>5. QED
        BY <4>4
    <3>2. UNCHANGED alive
      BY DEF Invoke, Authorize, SendRequest
    <3>3. UNCHANGED history \/ \E id, status : Answer(c, id, status)
      BY <3>1 DEF Invoke, Authorize
    <3>4. QED
      BY <3>2, <3>3 DEF Answer, TypeOK, History
  <2>2. QED
    BY <1>1, <2>1, FrameAccounted
<1>2. CASE /\ SendRequest(c)
           /\ queue' = Append(queue, RequestOf(call[c]))
           /\ history' = [history EXCEPT !.sent = @ \cup {call[c].id}]
  <2>1. call[c].pc = "auth" /\ call \in [Client -> CallState] /\ UNCHANGED alive
    BY <1>2 DEF SendRequest, TypeOK
  <2>2. RequestOf(call[c]) \in Request /\ RequestOf(call[c]).id = call[c].id
    BY <2>1, CallFields DEF Request, RequestOf
  <2>3. Waiting' = Waiting \cup {call[c].id}
    BY <1>2, <2>2, AppendWaiting
  <2>4. /\ history'.sent = history.sent \cup {call[c].id}
        /\ history'.reduced = history.reduced /\ history'.dropped = history.dropped
        /\ history'.discarded = history.discarded
    BY <1>2 DEF TypeOK, History
  <2>5. QED
    BY <2>1, <2>3, <2>4 DEF Accounted, DroppedIds
<1>3. QED
  BY <1>1, <1>2 DEF Invoke, Authorize, SendRequest

LEMMA ExecuteAccounted ==
  ASSUME TypeOK, Accounted, Execute
  PROVE  Accounted'
<1> DEFINE r == Head(queue)
<1>1. /\ queue \in Seq(Request) /\ queue # <<>> /\ r = queue[1]
      /\ Len(queue) \in Nat /\ Len(queue) >= 1
  BY DEF Execute, TypeOK
<1>2. /\ Len(queue') = Len(queue) - 1
      /\ \A i \in 1..Len(queue') : queue'[i] = Overtake(queue[i + 1])
  BY <1>1, RestTypes DEF Execute, TypeOK
<1>3. \A i \in 1..Len(queue) : queue[i] \in Request
  BY <1>1, ElementOfSeq
<1>4. Waiting \subseteq Waiting' \cup {r.id}
  <2>1. SUFFICES ASSUME NEW i \in 1..Len(queue), i # 1 PROVE queue[i].id \in Waiting'
    BY <1>1 DEF Waiting
  <2>2. i - 1 \in 1..Len(queue') /\ (i - 1) + 1 = i
    BY <1>1, <1>2, <2>1
  <2>3. queue'[i - 1].id = queue[i].id
    BY <1>2, <1>3, <2>2, OvertakeKeeps
  <2>4. QED
    BY <2>2, <2>3 DEF Waiting
<1>5. /\ UNCHANGED alive
      /\ history'.sent = history.sent /\ history'.discarded = history.discarded
      /\ \/ /\ history'.reduced = history.reduced
            /\ history'.dropped = history.dropped \cup {r}
         \/ /\ history'.reduced = history.reduced \cup {r.id}
            /\ history'.dropped = history.dropped
  BY DEF Execute, TypeOK, History
<1>6. /\ history.reduced \cup DroppedIds \cup {r.id}
           \subseteq history'.reduced \cup DroppedIds'
  BY <1>5 DEF DroppedIds
<1>7. QED
  BY <1>4, <1>5, <1>6 DEF Accounted

LEMMA SurroundingsAccounted ==
  ASSUME TypeOK, Accounted, Stop \/ ChargerEdge \/ LimitsChange
  PROVE  Accounted'
<1>1. CASE Stop
  <2>1. /\ ~alive' /\ history'.sent = history.sent /\ history'.reduced = history.reduced
        /\ history'.dropped = history.dropped /\ history'.discarded = Waiting
        /\ alive
    BY <1>1 DEF Stop, TypeOK, History
  <2>2. history.discarded = {}
    BY <2>1 DEF Accounted
  <2>3. QED
    BY <2>1, <2>2 DEF Accounted, DroppedIds
<1>2. CASE ChargerEdge
  <2> DEFINE r == [op |-> "edge", id |-> None, arg |-> "fits", overtaken |-> FALSE]
  <2>1. r \in Request /\ queue' = Append(queue, r) /\ UNCHANGED <<alive, history>>
    BY <1>2 DEF ChargerEdge, Request, Argument
  <2>2. Waiting \subseteq Waiting'
    BY <2>1, AppendWaiting
  <2>3. QED
    BY <2>1, <2>2 DEF Accounted, DroppedIds
<1>3. CASE LimitsChange
  BY <1>3, FrameAccounted DEF LimitsChange
<1>4. QED
  BY <1>1, <1>2, <1>3

LEMMA AllAccounted == Spec => []Accounted
<1>1. Init => Accounted
  BY DEF Init, Accounted
<1>2. TypeOK /\ Accounted /\ [Next]_vars => Accounted'
  <2> SUFFICES ASSUME TypeOK, Accounted, [Next]_vars PROVE Accounted'
    OBVIOUS
  <2>1. ASSUME NEW c \in Client,
               Authorize(c) \/ SendRequest(c)
                 \/ \E m \in Setters : \E arg \in Arguments(m) : Invoke(c, m, arg)
        PROVE  Accounted'
    BY <2>1, CallAccounted
  <2>2. CASE Execute
    BY <2>2, ExecuteAccounted
  <2>3. CASE Stop \/ ChargerEdge \/ LimitsChange
    BY <2>3, SurroundingsAccounted
  <2>4. CASE Wake \/ Signal \/ Signalled
    BY <2>4, FrameAccounted DEF Wake, Signal, Signalled
  <2>5. CASE UNCHANGED vars
    BY <2>5, FrameAccounted DEF vars
  <2>6. QED
    BY <2>1, <2>2, <2>3, <2>4, <2>5 DEF Next
<1>3. QED
  BY <1>1, <1>2, BusTypes, PTL DEF Spec

\* Every write answered with success is reduced or waits, was dropped for a
\* lock entered after its check or for watts outside the limits, or was still
\* waiting at shutdown, however long polkit takes and however full the channel
\* is.
THEOREM SuccessesAreAccounted == Spec => []SuccessHasEffect
<1>1. DropsExcused /\ Accounted => SuccessHasEffect
  <2> SUFFICES ASSUME DropsExcused, Accounted PROVE SuccessHasEffect
    OBVIOUS
  <2>1. \A id \in DroppedIds : \E r \in history.dropped :
          r.id = id /\ (r.overtaken \/ OutsideLimits(r))
    BY DEF DroppedIds, DropsExcused
  <2>2. QED
    BY <2>1 DEF Accounted, SuccessHasEffect, Excused
<1>2. QED
  BY <1>1, DropsAreExcused, AllAccounted, PTL

-----------------------------------------------------------------------------
(* The signals.  While nothing was lost and nothing overlapped, the client *)
(* knows the emitter's last copy, up to the properties signalled so far,   *)
(* and that copy lags the state only while a publication is still unseen.  *)

Faithful == ~history.overlapped /\ spent.faults = 0

\* Property i, called p, is known as of the new copy once it was passed.
Known(i, p) ==
  mirror[p] = IF i < emitter.next THEN emitter.new[p] ELSE emitter.last[p]

AllKnown ==
  Known(1, "lever") /\ Known(2, "charge") /\ Known(3, "ac") /\ Known(4, "locked")
    /\ Known(5, "pref")

Followed ==
  Faithful =>
    /\ emitter.pc = "waiting" =>
         mirror = emitter.last /\ (~fresh => emitter.last = View(state))
    /\ Signalling => emitter.new = View(state) /\ AllKnown

LEMMA SameView ==
  ASSUME NEW a \in Views, NEW b \in Views,
         \A p \in {"lever", "charge", "ac", "locked", "pref"} : a[p] = b[p]
  PROVE  a = b
<1>1. /\ a["lever"] = b["lever"] /\ a["charge"] = b["charge"] /\ a["ac"] = b["ac"]
      /\ a["locked"] = b["locked"] /\ a["pref"] = b["pref"]
  OBVIOUS
<1>2. QED
  BY <1>1 DEF Views

LEMMA FrameFollowed ==
  ASSUME Followed, UNCHANGED <<state, emitter, mirror, fresh>>,
         history'.overlapped = history.overlapped, spent'.faults = spent.faults
  PROVE  Followed'
  BY DEF Followed, Faithful, Signalling, AllKnown, Known, View, Locked

LEMMA CallFollowed ==
  ASSUME TypeOK, Followed, NEW c \in Client,
         Authorize(c) \/ SendRequest(c)
           \/ \E m \in Setters : \E arg \in Arguments(m) : Invoke(c, m, arg)
  PROVE  Followed'
<1>1. UNCHANGED <<state, emitter, mirror, fresh>>
  BY DEF Invoke, Authorize, SendRequest, emitterVars
<1>2. spent'.faults = spent.faults
  BY DEF Invoke, Authorize, SendRequest, Spend, TypeOK, Spent
<1>3. history'.overlapped = history.overlapped
  BY DEF Invoke, Authorize, SendRequest, Answer, TypeOK, History
<1>4. QED
  BY <1>1, <1>2, <1>3, FrameFollowed

LEMMA SurroundingsFollowed ==
  ASSUME TypeOK, Followed, Stop \/ ChargerEdge \/ LimitsChange
  PROVE  Followed'
<1>1. /\ UNCHANGED <<state, emitter, mirror>> /\ (fresh' \/ fresh' = fresh)
      /\ history'.overlapped = history.overlapped
  BY DEF Stop, ChargerEdge, LimitsChange, emitterVars, TypeOK, History
<1>2. spent'.faults = spent.faults
  BY DEF Stop, ChargerEdge, LimitsChange, Spend, TypeOK, Spent
<1>3. QED
  BY <1>1, <1>2 DEF Followed, Faithful, Signalling, AllKnown, Known, View, Locked

LEMMA ExecuteFollowed ==
  ASSUME TypeOK, Followed, Execute
  PROVE  Followed'
<1>1. UNCHANGED <<emitter, mirror, spent>>
  BY DEF Execute
<1>2. state' # state => fresh'
  BY DEF Execute
<1>3. ~fresh' => ~fresh
  BY DEF Execute, TypeOK
<1>4. history'.overlapped = (history.overlapped \/ (Signalling /\ state' # state))
  BY DEF Execute, TypeOK, History
<1>5. Faithful' => Faithful /\ (Signalling => state' = state)
  BY <1>1, <1>4 DEF Faithful, TypeOK, History
<1>6. QED
  BY <1>1, <1>2, <1>3, <1>5 DEF Followed, Signalling, AllKnown, Known, View, Locked

LEMMA WakeFollowed ==
  ASSUME TypeOK, Followed, Wake
  PROVE  Followed'
<1>1. /\ emitter.pc = "waiting"
      /\ emitter'.pc = "signalling" /\ emitter'.new = View(state)
      /\ emitter'.next = 1 /\ emitter'.last = emitter.last
      /\ UNCHANGED <<state, mirror, spent, history>>
  BY DEF Wake, TypeOK, EmitterState
<1>2. Faithful' => mirror = emitter.last
  BY <1>1 DEF Followed, Faithful
<1>3. QED
  BY <1>1, <1>2 DEF Followed, Signalling, AllKnown, Known, View, Locked

LEMMA SignalFollowed ==
  ASSUME TypeOK, Followed, Signal
  PROVE  Followed'
<1> DEFINE p == Property[emitter.next]
           names == {"lever", "charge", "ac", "locked", "pref"}
<1> SUFFICES ASSUME Faithful' PROVE Followed'
  BY DEF Followed
<1>1. /\ emitter.pc = "signalling" /\ emitter'.pc = "signalling"
      /\ emitter'.next = emitter.next + 1
      /\ emitter'.new = emitter.new /\ emitter'.last = emitter.last
      /\ UNCHANGED <<state, history>>
  BY DEF Signal, Signalling, TypeOK, EmitterState
<1>2. emitter.next \in 1..5 /\ Len(Property) = 5
  BY DEF Signal, TypeOK, Property, EmitterState
<1>3. spent.faults = 0 /\ Faithful
      /\ \/ emitter.new[p] = emitter.last[p] /\ mirror' = mirror
         \/ mirror' = [mirror EXCEPT ![p] = View(state)[p]]
  <2>1. CASE UNCHANGED spent
    BY <1>1, <2>1 DEF Signal, Faithful, Spend, TypeOK, Spent
  <2>2. CASE Spend("faults", MaxFaults)
    BY <2>2 DEF Faithful, Spend, TypeOK, Spent
  <2>3. QED
    BY <2>1, <2>2 DEF Signal
<1>4. emitter.new = View(state) /\ AllKnown
  BY <1>1, <1>3 DEF Followed, Signalling
<1>5. p \in names /\ DOMAIN mirror = names
  BY <1>2 DEF Property, TypeOK, Views
<1>6. \A q \in names : q # p => mirror'[q] = mirror[q]
  BY <1>3, <1>5
<1>7. mirror[p] = emitter.last[p]
  BY <1>2, <1>4 DEF AllKnown, Known, Property
<1>8. mirror'[p] = emitter.new[p]
  BY <1>3, <1>4, <1>5, <1>7
<1>9. /\ emitter.next = 1 => p = "lever"
      /\ emitter.next = 2 => p = "charge"
      /\ emitter.next = 3 => p = "ac"
      /\ emitter.next = 4 => p = "locked"
      /\ emitter.next = 5 => p = "pref"
  BY DEF Property
<1>10. AllKnown'
  BY <1>1, <1>2, <1>4, <1>6, <1>8, <1>9 DEF AllKnown, Known
<1>11. QED
  BY <1>1, <1>4, <1>10 DEF Followed, Signalling, View, Locked

LEMMA SignalledFollowed ==
  ASSUME TypeOK, Followed, Signalled
  PROVE  Followed'
<1> SUFFICES ASSUME Faithful' PROVE Followed'
  BY DEF Followed
<1>1. /\ emitter'.pc = "waiting" /\ emitter'.last = emitter.new
      /\ UNCHANGED <<state, mirror, fresh, spent, history>>
  BY DEF Signalled, TypeOK, EmitterState
<1>2. emitter.next = 6
  BY DEF Signalled, TypeOK, EmitterState, Property
<1>3. emitter.new = View(state) /\ AllKnown
  BY <1>1 DEF Followed, Faithful, Signalling, Signalled
<1>4. mirror = emitter.new
  <2>1. mirror \in Views /\ emitter.new \in Views
    BY DEF TypeOK, EmitterState
  <2>2. \A p \in {"lever", "charge", "ac", "locked", "pref"} : mirror[p] = emitter.new[p]
    BY <1>2, <1>3 DEF AllKnown, Known
  <2>3. QED
    BY <2>1, <2>2, SameView
<1>5. QED
  BY <1>1, <1>3, <1>4 DEF Followed, Signalling, View, Locked

\* A client that only follows signals knows the published state whenever the
\* emitter rests, if no signal was lost and no change overlapped another's.
THEOREM SignalsAreEnough == Spec => []SignalsSuffice
<1>1. Init => Followed
  BY DEF Init, Followed, Signalling
<1>2. TypeOK /\ Followed /\ [Next]_vars => Followed'
  <2> SUFFICES ASSUME TypeOK, Followed, [Next]_vars PROVE Followed'
    OBVIOUS
  <2>1. ASSUME NEW c \in Client,
               Authorize(c) \/ SendRequest(c)
                 \/ \E m \in Setters : \E arg \in Arguments(m) : Invoke(c, m, arg)
        PROVE  Followed'
    BY <2>1, CallFollowed
  <2>2. CASE Execute
    BY <2>2, ExecuteFollowed
  <2>3. CASE Stop \/ ChargerEdge \/ LimitsChange
    BY <2>3, SurroundingsFollowed
  <2>4. CASE Wake
    BY <2>4, WakeFollowed
  <2>5. CASE Signal
    BY <2>5, SignalFollowed
  <2>6. CASE Signalled
    BY <2>6, SignalledFollowed
  <2>7. CASE UNCHANGED vars
    BY <2>7, FrameFollowed DEF vars, emitterVars
  <2>8. QED
    BY <2>1, <2>2, <2>3, <2>4, <2>5, <2>6, <2>7 DEF Next
<1>3. Followed => SignalsSuffice
  BY DEF Followed, Faithful, SignalsSuffice, Quiet
<1>4. QED
  BY <1>1, <1>2, <1>3, BusTypes, PTL DEF Spec
=============================================================================
