---------------------------- MODULE ManagerLoopProofs ----------------------------
(***************************************************************************)
(* The manager's loop, for every limit on crashes: what reached the child  *)
(* is honoured, one child at most is told to restart per debounce window,  *)
(* and a conversation is dropped only when that was asked for.  The        *)
(* invariant says what a handler may have left to do, and that its flags   *)
(* are up before it types.                                                 *)
(***************************************************************************)
EXTENDS ManagerLoop, TLAPS

\* The types of what the main thread keeps, and of what the others tell it.
MainTypes ==
    /\ sup \in BOOLEAN /\ crashes \in 0..MaxCrash /\ continues \in BOOLEAN
    /\ phase \in {"out", "top", "cleared", "started", "running", "reaped", "ending", "leaving"}
    /\ restarted \in BOOLEAN /\ pendingFresh \in BOOLEAN
    /\ report \in {"none", "goodbye", "unregister"}
    /\ begun \in BOOLEAN /\ freshOwed \in BOOLEAN
ToldTypes ==
    /\ flags \subseteq {"restart", "fresh", "stop", "update"}
    /\ signals \subseteq {"restart", "stop"}
    /\ child \in {"none", "alive", "told"} /\ code \in {0, 1}
    /\ recent \in BOOLEAN /\ typed \subseteq Kinds /\ signalled \in BOOLEAN /\ told \in Nat
    /\ child = "none" <=> phase \notin {"started", "running"}

\* The flags an event sets.
FlagsOf == [restart |-> {"restart"}, fresh |-> {"restart", "fresh"},
            stop |-> {"stop"}, update |-> {"update", "stop"}]

\* What may be left of handling an event.
Suffixes == [restart |-> {<<"restart", "type">>, <<"type">>},
             fresh   |-> {<<"restart", "fresh", "type">>, <<"fresh", "type">>, <<"type">>},
             stop    |-> {<<"stop", "type">>, <<"type">>},
             update  |-> {<<"update", "stop", "type">>, <<"stop", "type">>, <<"type">>}]

\* The steps in a sequence of them.
Left(s) == {s[i] : i \in DOMAIN s}

HandlerUnderWay ==
    handler # None => handler \in Handler /\ handler.steps \in Suffixes[handler.kind]

\* A manager runs under claude-tm, which has not given up.
Supervised == (phase # "out" => sup) /\ (sup => crashes < MaxCrash)

\* A handler that can reach the child handles it while the child runs, and the flags
\* it has set are up.
ReachesFlagged ==
    handler # None /\ handler.hasChild =>
        /\ phase = "running"
        /\ FlagsOf[handler.kind] \subseteq flags \cup Left(handler.steps)

\* The /exit that reached the last child has its flags up, and so has the signal that
\* terminated it, until they are cleared for the next one.
TypedIsFlagged ==
    phase \in {"started", "running", "reaped", "ending", "leaving"} =>
        /\ \A k \in typed : FlagsOf[k] \subseteq flags
        /\ signalled => signals # {}

\* Nothing was told to restart outside a window, nor by the event being handled.
WindowHolds ==
    /\ ~recent => told = 0
    /\ handler # None /\ handler.kind \in {"restart", "fresh"} => recent /\ told = 0

\* A fresh restart on its way was accepted.
FreshIsOwed == FreshUnderWay \/ pendingFresh => freshOwed

\* A manager that has had no child yet continues what others began.
ContinuesWhatBegan ==
    begun /\ ~restarted /\ sup /\ phase \in {"out", "top", "cleared"} => continues

\* The report is the last thing a manager does.
ReportsLast == report # "none" => phase = "leaving"

LoopInv ==
    /\ MainTypes /\ ToldTypes /\ HandlerUnderWay /\ Supervised /\ ReachesFlagged /\ TypedIsFlagged
    /\ WindowHolds /\ FreshIsOwed /\ ContinuesWhatBegan /\ ReportsLast
    /\ NewbornIsSpared /\ NoGoodbyeForUpdateOrSignal
-----------------------------------------------------------------------------
\* The steps of a sequence are its first and those of the others.
LEMMA LeftOfTail ==
    ASSUME NEW S, NEW s \in Seq(S), Len(s) # 0
    PROVE  Left(s) = {Head(s)} \cup Left(Tail(s))
<1>1. Len(s) \in Nat \ {0} /\ DOMAIN s = 1..Len(s) /\ DOMAIN Tail(s) = 1..(Len(s) - 1)
      /\ \A i \in 1..(Len(s) - 1) : Tail(s)[i] = s[i + 1]
  OBVIOUS
<1>2. Head(s) = s[1]
  OBVIOUS
<1>3. ASSUME NEW i \in 1..Len(s), i # 1 PROVE i - 1 \in 1..(Len(s) - 1) /\ (i - 1) + 1 = i
  BY <1>1, <1>3
<1>4. \A i \in 1..(Len(s) - 1) : i + 1 \in 1..Len(s)
  BY <1>1
<1>5. 1 \in 1..Len(s)
  BY <1>1
<1>6. ASSUME NEW x \in Left(s) PROVE x \in {Head(s)} \cup Left(Tail(s))
  <2>1. PICK i \in 1..Len(s) : x = s[i]
    BY <1>1 DEF Left
  <2>2. CASE i # 1
    BY <1>1, <1>3, <2>1, <2>2 DEF Left
  <2> QED
    BY <1>2, <2>1, <2>2
<1>7. ASSUME NEW x \in {Head(s)} \cup Left(Tail(s)) PROVE x \in Left(s)
  BY <1>1, <1>2, <1>4, <1>5 DEF Left
<1> QED
  BY <1>6, <1>7

\* The next step of an event is a flag of its own, or /exit at the very end.
LEMMA HandlingAdvances ==
    ASSUME NEW k \in Kinds, NEW s \in Suffixes[k]
    PROVE  /\ s \in Seq({"restart", "fresh", "stop", "update", "type"})
           /\ \/ Len(s) = 1 /\ Head(s) = "type" /\ Left(s) = {"type"}
              \/ /\ Len(s) # 1 /\ Head(s) \in {"restart", "fresh", "stop", "update"}
                 /\ Tail(s) \in Suffixes[k]
                 /\ Left(s) = {Head(s)} \cup Left(Tail(s))
<1>1. CASE s = <<"type">>
  BY <1>1 DEF Left
<1>2. ASSUME s # <<"type">>
      PROVE  /\ s \in Seq({"restart", "fresh", "stop", "update", "type"})
             /\ Len(s) \notin {0, 1} /\ Head(s) \in {"restart", "fresh", "stop", "update"}
             /\ Tail(s) \in Suffixes[k]
  <2>1. s \in {<<"restart", "type">>, <<"stop", "type">>, <<"fresh", "type">>,
                <<"restart", "fresh", "type">>, <<"update", "stop", "type">>}
    BY <1>2 DEF Suffixes, Kinds
  <2>2. CASE s = <<"restart", "type">> \/ s = <<"stop", "type">> \/ s = <<"fresh", "type">>
    <3>1. PICK f \in {"restart", "stop", "fresh"} : s = <<f, "type">>
      BY <2>2
    <3>2. Tail(s) = <<"type">> /\ Len(s) = 2 /\ Head(s) = f
          /\ s \in Seq({"restart", "fresh", "stop", "update", "type"})
      BY <3>1
    <3>3. <<"type">> \in Suffixes[k]
      BY DEF Suffixes, Kinds
    <3>4. Tail(s) \in Suffixes[k]
      BY <3>2, <3>3
    <3>5. Len(s) \notin {0, 1} /\ Head(s) \in {"restart", "fresh", "stop", "update"}
      BY <3>2
    <3> QED
      BY <3>2, <3>4, <3>5
  <2>3. CASE s = <<"restart", "fresh", "type">>
    <3>1. Tail(s) = <<"fresh", "type">> /\ Len(s) = 3 /\ Head(s) = "restart"
          /\ s \in Seq({"restart", "fresh", "stop", "update", "type"})
      BY <2>3
    <3>2. k = "fresh"
      BY <2>3 DEF Suffixes, Kinds
    <3> QED
      BY <3>1, <3>2 DEF Suffixes
  <2>4. CASE s = <<"update", "stop", "type">>
    <3>1. Tail(s) = <<"stop", "type">> /\ Len(s) = 3 /\ Head(s) = "update"
          /\ s \in Seq({"restart", "fresh", "stop", "update", "type"})
      BY <2>4
    <3>2. k = "update"
      BY <2>4 DEF Suffixes, Kinds
    <3> QED
      BY <3>1, <3>2 DEF Suffixes
  <2> QED
    BY <2>1, <2>2, <2>3, <2>4
<1> QED
  BY <1>1, <1>2, LeftOfTail

\* An event that is taken has all of its steps left.
LEMMA AllStepsAreLeft ==
    ASSUME NEW k \in Kinds
    PROVE  Steps[k] \in Suffixes[k] /\ FlagsOf[k] \subseteq Left(Steps[k])
           /\ ("fresh" \in Left(Steps[k]) => k = "fresh")
BY DEF Steps, Suffixes, FlagsOf, Left, Kinds

\* The invariant holds at the start.
LEMMA LoopInvInit == Init => LoopInv
<1> SUFFICES ASSUME Init PROVE LoopInv
  OBVIOUS
<1>1. MainTypes /\ ToldTypes
  <2>1. MainTypes
      <3>1. crashes \in 0..MaxCrash
      BY LoopAssumption DEF Init
    <3> QED
      BY <3>1 DEF Init, MainTypes
  <2>2. ToldTypes
    BY LoopAssumption DEF Init, ToldTypes
  <2> QED
    BY <2>1, <2>2
<1>2. HandlerUnderWay /\ ReachesFlagged /\ WindowHolds /\ FreshIsOwed
  BY DEF Init, HandlerUnderWay, ReachesFlagged, WindowHolds, FreshIsOwed, FreshUnderWay
<1>3. Supervised /\ TypedIsFlagged /\ ContinuesWhatBegan /\ ReportsLast /\ NewbornIsSpared
      /\ NoGoodbyeForUpdateOrSignal
  BY LoopAssumption DEF Init, Supervised, TypedIsFlagged, ContinuesWhatBegan, ReportsLast,
                        NewbornIsSpared, NoGoodbyeForUpdateOrSignal
<1> QED
  BY <1>1, <1>2, <1>3 DEF LoopInv

\* Whatever ends a manager, the next one begins anew.
LEMMA ReapKeeps ==
    ASSUME LoopInv, NEW rc \in {0, 1, 42}, phase # "out", Reap(rc), begun' = begun
    PROVE  LoopInv'
<1>0. crashes \in Nat /\ crashes < MaxCrash /\ continues \in BOOLEAN /\ MaxCrash \in Nat \ {0}
  BY LoopAssumption DEF LoopInv, MainTypes, Supervised
<1>1. crashes' \in 0..MaxCrash /\ (rc # 0 /\ sup' => crashes' < MaxCrash)
  <2>1. CASE rc = 0
    <3>1. crashes' = crashes
      BY <2>1 DEF Reap
    <3> QED
      BY <1>0, <2>1, <3>1
  <2>2. CASE rc = 1
    <3>1. crashes' = crashes + 1
      BY <2>2 DEF Reap
    <3>2. rc # 42 /\ (sup' = (rc = 42 \/ (rc # 0 /\ crashes' < MaxCrash)))
      BY <2>2 DEF Reap
    <3>3. sup' => crashes' < MaxCrash
      BY <3>2, Zenon
    <3> QED
      BY <1>0, <3>1, <3>3
  <2>3. CASE rc = 42
    <3>1. crashes' = 0
      BY <2>3 DEF Reap
    <3> QED
      BY <1>0, <3>1
  <2> QED
    BY <2>1, <2>2, <2>3
<1>2. sup' \in BOOLEAN /\ (sup' => rc # 0)
  <2>1. sup' = (rc = 42 \/ (rc # 0 /\ crashes' < MaxCrash))
    BY DEF Reap
  <2>2. rc = 0 => ~(rc = 42 \/ (rc # 0 /\ crashes' < MaxCrash))
    OBVIOUS
  <2> QED
    BY <2>1, <2>2, Zenon
<1>3. MainTypes' /\ ToldTypes'
  <2>1. MainTypes'
    BY <1>1, <1>2 DEF LoopInv, MainTypes, Reap, ContinuesAfter
  <2>2. ToldTypes'
    BY <1>1 DEF LoopInv, ToldTypes, Reap, ContinuesAfter
  <2> QED
    BY <2>1, <2>2
<1>4. ContinuesWhatBegan'
  BY <1>0, <1>2 DEF ContinuesWhatBegan, Reap, ContinuesAfter
<1> QED
  BY <1>1, <1>2, <1>3, <1>4
     DEF Reap, LoopInv, HandlerUnderWay, Supervised, ReachesFlagged, TypedIsFlagged,
         WindowHolds, FreshIsOwed, FreshUnderWay, ReportsLast, NewbornIsSpared,
         NoGoodbyeForUpdateOrSignal

\* The steps of the main thread, and of the child.
LEMMA MainStepsKeep ==
    ASSUME LoopInv, SpawnManager \/ ClearFlags \/ StartChild \/ SetChild \/ Decide \/ Report
    PROVE  LoopInv'
<1>0. /\ MainTypes /\ ToldTypes /\ HandlerUnderWay /\ Supervised /\ ReachesFlagged /\ TypedIsFlagged
      /\ WindowHolds /\ FreshIsOwed /\ ContinuesWhatBegan /\ ReportsLast
      /\ NewbornIsSpared /\ NoGoodbyeForUpdateOrSignal
  BY DEF LoopInv
<1>1. UNCHANGED <<handler, recent, told, sup, crashes>>
  BY DEF SpawnManager, ClearFlags, StartChild, SetChild, Decide, Report, supervisor, listener
<1>2. HandlerUnderWay' /\ WindowHolds' /\ NewbornIsSpared'
  BY <1>0, <1>1 DEF HandlerUnderWay, WindowHolds, NewbornIsSpared
<1>3. MainTypes'
  <2>1. freshOwed' \in BOOLEAN
    BY <1>0, <1>1
       DEF MainTypes, FreshUnderWay,
           SpawnManager, ClearFlags, StartChild, SetChild, Decide, Report
  <2>2. CASE SpawnManager \/ ClearFlags \/ SetChild \/ Report
    BY <1>0, <1>1, <2>1, <2>2 DEF MainTypes, SpawnManager, ClearFlags, SetChild, Report, supervisor
  <2>3. CASE StartChild \/ Decide
    BY <1>0, <1>1, <2>1, <2>3 DEF MainTypes, StartChild, Decide, supervisor
  <2> QED
    BY <2>2, <2>3
<1>4. ToldTypes'
  BY <1>0, <1>1
     DEF ToldTypes, SpawnManager, ClearFlags, StartChild, SetChild, Decide, Report, listener
<1>5. Supervised' /\ ReportsLast' /\ NoGoodbyeForUpdateOrSignal'
  <2>1. Supervised' /\ ReportsLast'
    BY <1>0, <1>1
       DEF Supervised, ReportsLast, SpawnManager, ClearFlags, StartChild, SetChild, Decide, Report
  <2>2. ASSUME Report
        PROVE  NoGoodbyeForUpdateOrSignal'
    <3>1. UNCHANGED <<typed, signalled>> /\ phase = "ending"
          /\ (report' = "goodbye" => Clean)
      BY <2>2 DEF Report
    <3>2. "update" \in typed => "update" \in flags
      BY <1>0, <3>1 DEF TypedIsFlagged, FlagsOf
    <3>3. signalled => signals # {}
      BY <1>0, <3>1 DEF TypedIsFlagged
    <3>4. report' = "goodbye" => "update" \notin typed /\ ~signalled
      BY <3>1, <3>2, <3>3, Zenon DEF Clean
    <3>5. typed' = typed /\ (signalled' => signalled)
      BY <3>1
    <3> QED
      BY <3>4, <3>5, Zenon DEF NoGoodbyeForUpdateOrSignal
  <2>3. ASSUME ~Report
        PROVE  report' # "goodbye"
    <3>1. phase # "leaving" /\ report' = report
      BY <2>3 DEF SpawnManager, ClearFlags, StartChild, SetChild, Decide
    <3> QED
      BY <1>0, <3>1 DEF ReportsLast
  <2> QED
    BY <2>1, <2>2, <2>3 DEF NoGoodbyeForUpdateOrSignal
<1>6. ReachesFlagged' /\ TypedIsFlagged'
  BY <1>0, <1>1
     DEF ReachesFlagged, TypedIsFlagged,
         SpawnManager, ClearFlags, StartChild, SetChild, Decide, Report, supervisor, listener
<1>7. FreshIsOwed'
  BY <1>0, <1>1
     DEF FreshIsOwed, FreshUnderWay,
         SpawnManager, ClearFlags, StartChild, SetChild, Decide, Report, supervisor, listener
<1>8. ContinuesWhatBegan'
  BY <1>0, <1>1
     DEF ContinuesWhatBegan, 
         SpawnManager, ClearFlags, StartChild, SetChild, Decide, Report, supervisor, listener
<1> QED
  BY <1>2, <1>3, <1>4, <1>5, <1>6, <1>7, <1>8 DEF LoopInv

\* A child that is gone is out of reach.
LEMMA ChildGoneKeeps ==
    ASSUME LoopInv, phase = "running", NEW c \in {0, 1}, ChildGone(c)
    PROVE  LoopInv'
<1>0. /\ MainTypes /\ ToldTypes /\ HandlerUnderWay /\ Supervised /\ ReachesFlagged /\ TypedIsFlagged
      /\ WindowHolds /\ FreshIsOwed /\ ContinuesWhatBegan /\ ReportsLast
      /\ NewbornIsSpared /\ NoGoodbyeForUpdateOrSignal
  BY DEF LoopInv
<1>1. \/ handler = None /\ handler' = None
      \/ /\ handler # None /\ handler' \in Handler /\ handler'.kind = handler.kind
         /\ handler'.steps = handler.steps /\ handler'.hasChild = FALSE
  BY <1>0 DEF ChildGone, HandlerUnderWay, Handler
<1>2. HandlerUnderWay' /\ ReachesFlagged' /\ WindowHolds' /\ FreshIsOwed'
  BY <1>0, <1>1
     DEF HandlerUnderWay, ReachesFlagged, WindowHolds, FreshIsOwed, FreshUnderWay, ChildGone
<1>3. MainTypes' /\ ToldTypes'
  <2>1. MainTypes'
    BY <1>0, <1>1 DEF MainTypes, ChildGone, supervisor
  <2>2. ToldTypes'
    BY <1>0, <1>1 DEF ToldTypes, ChildGone, supervisor
  <2> QED
    BY <2>1, <2>2
<1>4. /\ Supervised' /\ TypedIsFlagged' /\ ContinuesWhatBegan' /\ ReportsLast'
      /\ NewbornIsSpared' /\ NoGoodbyeForUpdateOrSignal'
  BY <1>0 DEF Supervised, TypedIsFlagged, ContinuesWhatBegan, ReportsLast, NewbornIsSpared,
              NoGoodbyeForUpdateOrSignal, ChildGone, supervisor
<1> QED
  BY <1>2, <1>3, <1>4 DEF LoopInv

\* A signal raises its flag as it ends the child.
LEMMA SignalKeeps ==
    ASSUME LoopInv, NEW s \in {"restart", "stop"}, Signal(s)
    PROVE  LoopInv'
<1>0. /\ MainTypes /\ ToldTypes /\ HandlerUnderWay /\ Supervised /\ ReachesFlagged /\ TypedIsFlagged
      /\ WindowHolds /\ FreshIsOwed /\ ContinuesWhatBegan /\ ReportsLast
      /\ NewbornIsSpared /\ NoGoodbyeForUpdateOrSignal
  BY DEF LoopInv
<1>1. HandlerUnderWay' /\ ReachesFlagged' /\ WindowHolds' /\ FreshIsOwed' /\ TypedIsFlagged'
  BY <1>0
     DEF HandlerUnderWay, ReachesFlagged, WindowHolds, FreshIsOwed, FreshUnderWay, Signal,
         TypedIsFlagged, FlagsOf
<1>2. MainTypes' /\ ToldTypes'
  <2>1. MainTypes'
    BY <1>0 DEF MainTypes, Signal, supervisor, Kinds
  <2>2. ToldTypes'
    BY <1>0 DEF ToldTypes, Signal, supervisor, Kinds
  <2> QED
    BY <2>1, <2>2
<1>3. /\ Supervised' /\ ContinuesWhatBegan' /\ ReportsLast' /\ NewbornIsSpared'
      /\ NoGoodbyeForUpdateOrSignal'
  BY <1>0 DEF Supervised, ContinuesWhatBegan, ReportsLast, NewbornIsSpared,
              NoGoodbyeForUpdateOrSignal,
              Signal, supervisor
<1> QED
  BY <1>1, <1>2, <1>3 DEF LoopInv

\* An event is taken with nothing done yet.
LEMMA DeliverKeeps ==
    ASSUME LoopInv, NEW k \in Kinds, Deliver(k)
    PROVE  LoopInv'
<1>0. /\ MainTypes /\ ToldTypes /\ HandlerUnderWay /\ Supervised /\ ReachesFlagged /\ TypedIsFlagged
      /\ WindowHolds /\ FreshIsOwed /\ ContinuesWhatBegan /\ ReportsLast
      /\ NewbornIsSpared /\ NoGoodbyeForUpdateOrSignal
  BY DEF LoopInv
<1>1. /\ handler' \in Handler /\ handler'.kind = k /\ handler'.steps = Steps[k]
      /\ handler'.hasChild = (phase = "running")
  BY AllStepsAreLeft, HandlingAdvances DEF Deliver, Handler
<1>2. HandlerUnderWay' /\ ReachesFlagged' /\ WindowHolds'
  BY <1>0, <1>1, AllStepsAreLeft DEF HandlerUnderWay, ReachesFlagged, WindowHolds, Deliver
<1>3. FreshIsOwed'
  BY <1>0, <1>1, AllStepsAreLeft DEF FreshIsOwed, FreshUnderWay, Deliver, Left
<1>4. MainTypes' /\ ToldTypes'
  <2>1. MainTypes'
    BY <1>0, <1>1 DEF MainTypes, Deliver, supervisor
  <2>2. ToldTypes'
    BY <1>0, <1>1 DEF ToldTypes, Deliver, supervisor
  <2> QED
    BY <2>1, <2>2
<1>5. /\ Supervised' /\ TypedIsFlagged' /\ ContinuesWhatBegan' /\ ReportsLast'
      /\ NewbornIsSpared' /\ NoGoodbyeForUpdateOrSignal'
  BY <1>0 DEF Supervised, TypedIsFlagged, ContinuesWhatBegan, ReportsLast, NewbornIsSpared,
              NoGoodbyeForUpdateOrSignal, Deliver, supervisor
<1> QED
  BY <1>2, <1>3, <1>4, <1>5 DEF LoopInv

\* A handler raises its flags one by one, and types when they are up.
LEMMA HandleKeeps ==
    ASSUME LoopInv, Handle
    PROVE  LoopInv'
<1>0. /\ MainTypes /\ ToldTypes /\ HandlerUnderWay /\ Supervised /\ ReachesFlagged /\ TypedIsFlagged
      /\ WindowHolds /\ FreshIsOwed /\ ContinuesWhatBegan /\ ReportsLast
      /\ NewbornIsSpared /\ NoGoodbyeForUpdateOrSignal
  BY DEF LoopInv
<1> DEFINE k == handler.kind
           s == handler.steps
<1>1. /\ handler # None /\ handler \in Handler /\ k \in Kinds /\ s \in Suffixes[k]
      /\ handler.hasChild \in BOOLEAN
  BY <1>0 DEF Handle, HandlerUnderWay, Handler
<1>2. UNCHANGED <<sup, crashes, continues, phase, restarted, pendingFresh, signals, code, recent,
                  report, begun, freshOwed, signalled>>
  BY DEF Handle, supervisor
<1>3. Supervised' /\ ContinuesWhatBegan' /\ ReportsLast'
  BY <1>0, <1>2 DEF Supervised, ContinuesWhatBegan, ReportsLast
<1>4. CASE Len(s) = 1
  <2>1. Head(s) = "type" /\ Left(s) = {"type"}
    BY <1>1, <1>4, HandlingAdvances
  <2>2. /\ handler' = None /\ UNCHANGED flags
        /\ child' = IF handler.hasChild THEN "told" ELSE child
        /\ typed' = IF handler.hasChild THEN typed \cup {k} ELSE typed
        /\ told' = IF handler.hasChild /\ k \in {"restart", "fresh"}
                       /\ typed \cap {"restart", "fresh"} = {}
                   THEN told + 1 ELSE told
    BY <1>4, <2>1 DEF Handle
  <2>3. HandlerUnderWay' /\ ReachesFlagged'
    BY <2>2 DEF HandlerUnderWay, ReachesFlagged
  <2>4. FlagsOf[k] \cap {"type"} = {}
    BY <1>1 DEF FlagsOf, Kinds
  <2>5. handler.hasChild => phase = "running" /\ FlagsOf[k] \subseteq flags
    BY <1>0, <1>1, <2>1, <2>4 DEF ReachesFlagged
  <2>6. TypedIsFlagged' /\ NoGoodbyeForUpdateOrSignal'
    BY <1>0, <1>2, <2>2, <2>5 DEF TypedIsFlagged, NoGoodbyeForUpdateOrSignal, ReportsLast
  <2>7. WindowHolds' /\ NewbornIsSpared'
    BY <1>0, <1>1, <1>2, <2>2 DEF WindowHolds, NewbornIsSpared, ToldTypes
  <2>8. FreshIsOwed'
    BY <1>0, <1>2, <2>2 DEF FreshIsOwed, FreshUnderWay
  <2>9. MainTypes' /\ ToldTypes'
    <3>1. MainTypes'
      BY <1>0, <1>1, <1>2, <2>2, <2>5 DEF MainTypes
    <3>2. ToldTypes'
      BY <1>0, <1>1, <1>2, <2>2, <2>5 DEF ToldTypes
    <3> QED
      BY <3>1, <3>2
  <2> QED
    BY <1>3, <2>3, <2>6, <2>7, <2>8, <2>9 DEF LoopInv
<1>5. CASE Len(s) # 1
  <2>1. /\ Head(s) \in {"restart", "fresh", "stop", "update"} /\ Tail(s) \in Suffixes[k]
        /\ Left(s) = {Head(s)} \cup Left(Tail(s))
    BY <1>1, <1>5, HandlingAdvances
  <2>2. /\ handler' = [handler EXCEPT !.steps = Tail(s)] /\ flags' = flags \cup {Head(s)}
        /\ UNCHANGED <<child, typed, told>>
    BY <1>5, <2>1 DEF Handle
  <2>3. Tail(s) \in Seq({"restart", "fresh", "stop", "update", "type"})
    BY <1>1, <2>1, HandlingAdvances
  <2>4. /\ handler' \in Handler /\ handler'.kind = k /\ handler'.steps = Tail(s)
        /\ handler'.hasChild = handler.hasChild
    BY <1>1, <2>2, <2>3 DEF Handler
  <2>5. HandlerUnderWay' /\ WindowHolds' /\ NewbornIsSpared' /\ NoGoodbyeForUpdateOrSignal'
    BY <1>0, <1>1, <1>2, <2>1, <2>2, <2>4
       DEF HandlerUnderWay, WindowHolds, NewbornIsSpared, NoGoodbyeForUpdateOrSignal
  <2>6. ReachesFlagged' /\ TypedIsFlagged'
    BY <1>0, <1>1, <1>2, <2>1, <2>2, <2>4 DEF ReachesFlagged, TypedIsFlagged
  <2>7. FreshIsOwed'
    BY <1>0, <1>1, <1>2, <2>1, <2>2, <2>4 DEF FreshIsOwed, FreshUnderWay, Left
  <2>8. MainTypes' /\ ToldTypes'
    <3>1. MainTypes'
      BY <1>0, <1>2, <2>1, <2>2, <2>4 DEF MainTypes
    <3>2. ToldTypes'
      BY <1>0, <1>2, <2>1, <2>2, <2>4 DEF ToldTypes
    <3> QED
      BY <3>1, <3>2
  <2> QED
    BY <1>3, <2>5, <2>6, <2>7, <2>8 DEF LoopInv
<1> QED
  BY <1>4, <1>5

\* The window passes between two events.
LEMMA WindowPassesKeeps ==
    ASSUME LoopInv, WindowPasses
    PROVE  LoopInv'
<1>1. /\ recent' = FALSE /\ told' = 0 /\ handler = None /\ handler' = None
      /\ UNCHANGED <<sup, crashes, continues, phase, restarted, pendingFresh, flags, signals, child,
                     code, report, begun, freshOwed, typed, signalled>>
  BY DEF WindowPasses, supervisor
<1>2. MainTypes' /\ ToldTypes'
  <2>1. MainTypes'
    BY <1>1 DEF LoopInv, MainTypes
  <2>2. ToldTypes'
    BY <1>1 DEF LoopInv, ToldTypes
  <2> QED
    BY <2>1, <2>2
<1>3. HandlerUnderWay' /\ ReachesFlagged' /\ WindowHolds' /\ NewbornIsSpared'
  BY <1>1 DEF HandlerUnderWay, ReachesFlagged, WindowHolds, NewbornIsSpared
<1>4. /\ Supervised' /\ TypedIsFlagged' /\ FreshIsOwed' /\ ContinuesWhatBegan' /\ ReportsLast'
      /\ NoGoodbyeForUpdateOrSignal'
  BY <1>1 DEF LoopInv, Supervised, TypedIsFlagged, FreshIsOwed, FreshUnderWay, ContinuesWhatBegan,
              ReportsLast, NoGoodbyeForUpdateOrSignal
<1> QED
  BY <1>2, <1>3, <1>4 DEF LoopInv

\* Every step keeps the invariant.
LEMMA LoopInvNext == LoopInv /\ [Next]_vars => LoopInv'
<1> SUFFICES ASSUME LoopInv, [Next]_vars PROVE LoopInv'
  OBVIOUS
<1>1. CASE UNCHANGED vars
  BY <1>1
     DEF vars, LoopInv, MainTypes, ToldTypes, HandlerUnderWay, Supervised, ReachesFlagged,
         TypedIsFlagged,
         WindowHolds, FreshIsOwed, FreshUnderWay, ContinuesWhatBegan, ReportsLast,
         NewbornIsSpared, NoGoodbyeForUpdateOrSignal
<1>2. CASE ManagerCrashes
  BY <1>2, ReapKeeps DEF ManagerCrashes
<1>3. CASE Return
  <2>1. phase = "leaving" /\ begun' = begun /\ (Reap(42) \/ Reap(0))
    BY <1>3 DEF Return
  <2> QED
    BY <2>1, ReapKeeps
<1>4. CASE ChildObeys \/ ChildExits
  BY <1>4, ChildGoneKeeps DEF ChildObeys, ChildExits
<1>5. CASE \E s \in {"restart", "stop"} : Signal(s)
  BY <1>5, SignalKeeps
<1>6. CASE \E k \in Kinds : Deliver(k)
  BY <1>6, DeliverKeeps
<1> QED
  BY <1>1, <1>2, <1>3, <1>4, <1>5, <1>6, MainStepsKeep, HandleKeeps, WindowPassesKeeps
     DEF Next, MainStep

\* The invariant holds in every state.
THEOREM LoopInvariant == Spec => []LoopInv
BY LoopInvInit, LoopInvNext, PTL DEF Spec

\* The state of the manager's loop has its type.
THEOREM LoopTypeCorrect == Spec => []TypeOK
<1>1. LoopInv => TypeOK
  BY DEF LoopInv, MainTypes, ToldTypes, HandlerUnderWay, TypeOK
<1> QED
  BY <1>1, LoopInvariant, PTL

\* One child at most is told to restart per debounce window, whatever the listener
\* and the signals interleave (_should_debounce_restart).
THEOREM NewbornsAreSpared == Spec => []NewbornIsSpared
<1>1. LoopInv => NewbornIsSpared
  BY DEF LoopInv
<1> QED
  BY <1>1, LoopInvariant, PTL

\* A manager whose child was told to exit for an update, or terminated by a signal,
\* never says goodbye for the user (run's finally).
THEOREM UpdatesAndSignalsSayNoGoodbye == Spec => []NoGoodbyeForUpdateOrSignal
<1>1. LoopInv => NoGoodbyeForUpdateOrSignal
  BY DEF LoopInv
<1> QED
  BY <1>1, LoopInvariant, PTL

\* A conversation is dropped by the first launch or for a fresh restart that was
\* accepted, over any number of restarts, crashes and updates (_build_restart_cmd).
THEOREM ConversationsAreKept == Spec => KeepsConversation
<1> DEFINE Launch == phase = "cleared" /\ phase' = "started" /\ IsNew => ~begun \/ freshOwed
<1>1. LoopInv /\ [Next]_vars => [Launch]_vars
  <2> SUFFICES ASSUME LoopInv, phase = "cleared", IsNew, begun PROVE freshOwed
    OBVIOUS
  <2>1. CASE restarted
    BY <2>1 DEF LoopInv, FreshIsOwed, IsNew
  <2>2. CASE ~restarted
    BY <2>2 DEF LoopInv, ContinuesWhatBegan, Supervised, IsNew
  <2> QED
    BY <2>1, <2>2
<1> QED
  BY <1>1, LoopInvariant, PTL DEF Spec, KeepsConversation

\* A typed /exit is honoured at the decision that follows it (_handle_event, the
\* restart policy of run).
THEOREM TypedExitsAreHonoured == Spec => TypedExitIsHonoured
<1> DEFINE Honoured ==
      phase = "reaped" /\ phase' \in {"top", "ending"} =>
          /\ typed \cap {"stop", "update"} # {} => phase' = "ending"
          /\ code = 0 /\ typed # {} /\ typed \subseteq {"restart", "fresh"} /\ ~Asked("stop")
                => phase' = "top" /\ ("fresh" \in typed => pendingFresh')
<1>1. LoopInv /\ [Next]_vars => [Honoured]_vars
  <2> SUFFICES ASSUME LoopInv, Next, phase = "reaped", phase' \in {"top", "ending"}
               PROVE  Honoured
    OBVIOUS
  <2>1. Decide
    BY DEF Next, MainStep, SpawnManager, ManagerCrashes, Reap, ClearFlags, StartChild, SetChild,
           Report, Return, ChildObeys, ChildExits, Signal, Deliver, Handle, WindowPasses
  <2>2. \A k \in typed : FlagsOf[k] \subseteq flags
    BY DEF LoopInv, TypedIsFlagged
  <2>3. typed \cap {"stop", "update"} # {} => Asked("stop")
    BY <2>2 DEF FlagsOf, Asked
  <2>4. ASSUME typed # {}, typed \subseteq {"restart", "fresh"}
        PROVE  Asked("restart")
    <3>1. PICK k \in typed : k \in {"restart", "fresh"}
      BY <2>4
    <3>2. "restart" \in FlagsOf[k]
      BY <3>1 DEF FlagsOf
    <3>3. "restart" \in flags
      BY <2>2, <3>2
    <3> QED
      BY <3>3 DEF Asked
  <2>5. "fresh" \in typed => "fresh" \in flags
    BY <2>2 DEF FlagsOf
  <2> QED
    BY <2>1, <2>3, <2>4, <2>5 DEF Decide
<1> QED
  BY <1>1, LoopInvariant, PTL DEF Spec, TypedExitIsHonoured
=============================================================================
